-------------------------------- MODULE MCCpp --------------------------------
(***************************************************************************)
(* Small instances of CppBuffer: two variables, a short name and one of    *)
(* 128 bytes, which the default of 127 refuses, and a timestamp before the *)
(* epoch and one after it.                                                 *)
(***************************************************************************)
EXTENDS CppBuffer, TLC

MCNameLen == [n \in Tables |-> IF n = "short" THEN 5 ELSE 128]

MCTimes == {[unit |-> "nanos", v |-> -1], [unit |-> "micros", v |-> 4]}

Symmetric == Permutations(Bufs)
=============================================================================

----------------------------- MODULE MCExamples -----------------------------
(***************************************************************************)
(* The programs, with up to two arguments.                                 *)
(***************************************************************************)
EXTENDS Examples

MCNameLen == [n \in Tables |-> 6]
MCTimes == {[unit |-> "nanos", v |-> 1]}
NoArgs == [s \in Settings |-> {}]
=============================================================================

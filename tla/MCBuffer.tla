------------------------------ MODULE MCBuffer ------------------------------
(***************************************************************************)
(* A small instance of Buffer and of its refinement of RowBatch: two       *)
(* tables, i64 cut to 13 bits so that microseconds overflow when turned    *)
(* into nanoseconds, and timestamps below zero and on both sides of the    *)
(* overflow.                                                               *)
(***************************************************************************)
EXTENDS BufferRefinement, TLC

MCTsInputs ==
    { [unit |-> "nanos",  v |-> -1],
      [unit |-> "micros", v |-> 4],
      [unit |-> "micros", v |-> 5] }

Symmetric == Permutations(Tables)
=============================================================================

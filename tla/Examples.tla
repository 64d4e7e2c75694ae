------------------------------ MODULE Examples ------------------------------
(***************************************************************************)
(* The fourteen example programs: those in C++ (module CppExamples) and    *)
(* those in C (module CExamples), over one C interface.                    *)
(***************************************************************************)
EXTENDS CppExamples

VARIABLE loc     \* the pointers of a program in C

C == INSTANCE CExamples

allvars == <<exvars, loc>>

InC == prog \in C!Programs

AnyInit ==
    \/ ExInit /\ loc = [err |-> NULL]
    \/ /\ C!Init
       /\ bufs = [v \in Bufs |-> Dead]
       /\ opts = [o \in Opts |-> Dead] /\ snds = [s \in Senders |-> Dead]
       /\ out = Returned /\ caught = FALSE

CppRun == ~InC /\ ExNext /\ UNCHANGED loc
CRun   == InC /\ C!Next /\ UNCHANGED <<bufs, opts, snds, out, caught>>

AnyNext == CppRun \/ CRun

ExamplesSpec == AnyInit /\ [][AnyNext]_allvars

-----------------------------------------------------------------------------
\* Whichever call fails or throws, no program follows NULL or a freed pointer,
\* or frees twice, and one that fails leaves nothing allocated: by on_error in
\* C, whose pointers are set or not depending on the call that failed, and by
\* the destructors of what was made in C++.  One that succeeds leaves nothing
\* in C++, and exactly its buffer in C.
WhatIsLeft == IF InC THEN C!LeaksOnSuccess ELSE CppGivesBack

RowSent ==
    /\ Len(sent) = 1
    /\ [i \in DOMAIN sent[1] |-> sent[1][i].k] =
         <<"table", "symbol", "symbol", "key", "value", "key", "value", "ts", "nl">>

\* The exit code of a program that has begun tells whether the row was handed
\* over: it ends with 0 when it was, once and whole, and with 1 when nothing
\* was.
ExitCodeTells ==
    [][status' # status => status' = IF RowSent' THEN "0" ELSE "1"]_allvars
=============================================================================

---------------------------- MODULE ValueBuffer ----------------------------
(***************************************************************************)
(* What the C++ buffer class promises: values.  Each variable holds a Rust *)
(* buffer of its own; a copy is an equal one, a move leaves an empty one,  *)
(* and a method does to the variable's buffer what the Rust method does.   *)
(* There is no heap, and nothing is allocated or freed.  Two exceptions    *)
(* concern a buffer that is empty, because it may be one that was never    *)
(* written to: it may say that it is not transactional, and a copy of it   *)
(* may be undefined (ub), after which nothing is promised.                 *)
(***************************************************************************)
EXTENDS BufferOps

CONSTANTS Bufs, MaxNameLens, NameLen, Times

VARIABLES
    vals,    \* the value of each variable, or Dead
    out,     \* what the last statement returned, read or threw
    ub       \* the last statement was undefined

vvars == <<vals, out, ub>>

Dead == [dead |-> TRUE]

Init == vals = [v \in Bufs |-> Dead] /\ out = <<"returned">> /\ ub = FALSE

Quiet(new) == out' = <<"returned">> /\ vals' = new

Make(v, n)   == Quiet([vals EXCEPT ![v] = [buf |-> NewBuffer, max_name_len |-> n]])
CopyTo(v, w) == Quiet([vals EXCEPT ![v] = vals[w]])
MoveTo(v, w) == Quiet([vals EXCEPT ![w].buf = NewBuffer, ![v] = vals[w]])
End(v)       == Quiet([vals EXCEPT ![v] = Dead])

\* A call that gave r.
Call(v, r) ==
    /\ out' = IF r.res = "Ok" THEN <<"returned">> ELSE <<"threw", r.res>>
    /\ vals' = [vals EXCEPT ![v].buf = r.buf]

Calls(v) ==
    LET b == vals[v].buf
        fits(n) == NameLen[n] <= vals[v].max_name_len
    IN  \/ \E n \in Tables :
             \/ Call(v, table(b, IF fits(n) THEN n ELSE BadName))
             \/ Call(v, symbol(b, fits(n)))
             \/ Call(v, column(b, fits(n)))
             \/ \E t \in Times : Call(v, column_ts(b, fits(n), {t}))
        \/ \E t \in Times :
             \/ Call(v, at(b, {t}))
             \/ Call(v, at(b, {[unit |-> "micros", v |-> as_micros(t)]}))
        \/ Call(v, at_now(b))
        \/ Call(v, set_marker(b)) \/ Call(v, rewind_to_marker(b))
        \/ Call(v, clear_marker(b)) \/ Call(v, clear(b))

\* An argument that is not a name or not UTF-8.
BadArgument == out' \in {<<"threw", "InvalidUtf8">>, <<"threw", "InvalidName">>}
                 /\ UNCHANGED vals

Looks(v) ==
    LET b == vals[v].buf
    IN  /\ \/ out' \in {<<"size", Len(b.output)>>,
                        <<"row_count", b.state.row_count>>,
                        <<"peek", b.output>>,
                        <<"transactional", b.state.transactional>>}
           \/ b = NewBuffer /\ out' = <<"transactional", FALSE>>
        /\ UNCHANGED vals

Statement ==
    \E v \in Bufs :
      \/ vals[v] = Dead /\ \E n \in MaxNameLens : Make(v, n)
      \/ \E w \in Bufs : vals[w] # Dead /\ (CopyTo(v, w) \/ (v # w /\ MoveTo(v, w)))
      \/ vals[v] # Dead /\ (BadArgument \/ Looks(v) \/ End(v) \/ Calls(v))

EmptyOne(v) == vals[v] # Dead /\ vals[v].buf = NewBuffer

UndefinedCopy == \E v, w \in Bufs : vals[v] = Dead /\ EmptyOne(w)

Next ==
    /\ ~ub
    /\ \/ ~ub' /\ Statement
       \/ ub' /\ UndefinedCopy

Spec == Init /\ [][Next]_vvars
=============================================================================

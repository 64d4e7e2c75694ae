------------------------------ MODULE RowBatch ------------------------------
(***************************************************************************)
(* What a buffer promises: a batch of rows with one savepoint.             *)
(*                                                                         *)
(* There is no text here.  The batch is a list of finished rows and at     *)
(* most one row under construction; a savepoint is a copy of the list; and *)
(* what the caller can observe (how many rows, whether they share a table, *)
(* whether the batch may be flushed) is defined by the rows.               *)
(***************************************************************************)
EXTENDS Integers, Sequences

CONSTANTS
    Tables,      \* the tables rows are written to
    Instants     \* the designated timestamps rows may carry

VARIABLES
    rows,        \* the finished rows
    cur,         \* the row under construction: a set with at most one row
    savepoint,   \* the rows to go back to: a set with at most one list
    count,       \* observed: row_count()
    single,      \* observed: transactional()
    ready        \* observed: whether a flush would be accepted

vars == <<rows, cur, savepoint, count, single, ready>>

Fields == {"symbol", "column", "broken"}

Observed(rs, c) ==
    LET used == {rs[i].table : i \in DOMAIN rs} \cup {r.table : r \in c}
    IN  /\ count'  = Len(rs)
        /\ single' = (\A s, t \in used : s = t)
        /\ ready'  = (c = {} /\ rs # <<>>)

Init ==
    /\ rows = <<>> /\ cur = {} /\ savepoint = {}
    /\ count = 0 /\ single = TRUE /\ ready = FALSE

BeginRow ==
    /\ cur = {}
    /\ \E t \in Tables : cur' = {[table |-> t, fields |-> <<>>, ts |-> {}]}
    /\ UNCHANGED <<rows, savepoint>>

\* Symbols come before columns.
AddField ==
    /\ \E r \in cur, f \in Fields :
         /\ f = "symbol" => \A i \in DOMAIN r.fields : r.fields[i] = "symbol"
         /\ cur' = {[r EXCEPT !.fields = Append(@, f)]}
    /\ UNCHANGED <<rows, savepoint>>

\* A row has at least one field, and a timestamp or none.
FinishRow ==
    /\ \E r \in cur :
         /\ r.fields # <<>>
         /\ \E ts \in {{}} \cup {{n} : n \in Instants} :
              rows' = Append(rows, [r EXCEPT !.ts = ts])
    /\ cur' = {}
    /\ UNCHANGED savepoint

Save     == cur = {} /\ savepoint' = {rows} /\ UNCHANGED <<rows, cur>>
Rollback == rows' \in savepoint /\ cur' = {} /\ savepoint' = {}
Forget   == savepoint' = {} /\ UNCHANGED <<rows, cur>>
Reset    == rows' = <<>> /\ cur' = {} /\ savepoint' = {}

Next ==
    /\ BeginRow \/ AddField \/ FinishRow \/ Save \/ Rollback \/ Forget \/ Reset
    /\ Observed(rows', cur')

Spec == Init /\ [][Next]_vars
=============================================================================

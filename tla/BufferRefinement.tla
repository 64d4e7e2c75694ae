-------------------------- MODULE BufferRefinement --------------------------
(***************************************************************************)
(* Buffer implements RowBatch: the rows are read back from the text.       *)
(***************************************************************************)
EXTENDS Buffer

\* What a reader has of a text: its finished rows, and the row it is in.
NothingRead == [rows |-> <<>>, cur |-> {}]

(***************************************************************************)
(* The reader takes one more piece.  A key opens a field, which is broken  *)
(* until its value follows.                                                *)
(***************************************************************************)
ReadPiece(rd, tok) ==
    CASE tok.k = "table"  ->
           [rd EXCEPT !.cur = {[table |-> tok.name, fields |-> <<>>, ts |-> {}]}]
      [] tok.k = "symbol" ->
           [rd EXCEPT !.cur = {[r EXCEPT !.fields = Append(@, "symbol")] : r \in @}]
      [] tok.k = "key"    ->
           [rd EXCEPT !.cur = {[r EXCEPT !.fields = Append(@, "broken")] : r \in @}]
      [] tok.k \in {"value", "micros"} ->
           [rd EXCEPT !.cur = {[r EXCEPT !.fields[Len(r.fields)] = "column"] : r \in @}]
      [] tok.k = "ts"     ->
           [rd EXCEPT !.cur = {[r EXCEPT !.ts = {tok.v}] : r \in @}]
      [] tok.k = "nl"     ->
           [rows |-> Append(rd.rows, CHOOSE r \in rd.cur : TRUE), cur |-> {}]

\* A text is read from its first piece to its last.
Read(out) ==
    LET after[n \in 0 .. Len(out)] ==
          IF n = 0 THEN NothingRead ELSE ReadPiece(after[n - 1], out[n])
    IN  after[Len(out)]

\* Of the timestamps the caller passes, those at() can write.
Instants == {n \in UNION {as_nanos(t) : t \in TsInputs} : n >= 0}

Batch == INSTANCE RowBatch WITH
    rows      <- Read(buf.output).rows,
    cur       <- Read(buf.output).cur,
    savepoint <- {Read(SubSeq(buf.output, 1, m.position)).rows : m \in buf.marker},
    count     <- buf.state.row_count,
    single    <- buf.state.transactional,
    ready     <- check_op(buf, "Flush")

(***************************************************************************)
(* Every call on a Buffer is a step of the batch of rows, or changes       *)
(* nothing in it: its text, op case, counters and marker together behave   *)
(* as a list of rows with a savepoint.                                     *)
(***************************************************************************)
ImplementsRowBatch == Batch!Spec
=============================================================================

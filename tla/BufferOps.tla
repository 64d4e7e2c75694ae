----------------------------- MODULE BufferOps -----------------------------
(***************************************************************************)
(* The operations of `Buffer` (questdb-rs/src/ingress/mod.rs) as functions *)
(* from a buffer and arguments to the buffer after the call and what the   *)
(* call returned.  A module that owns buffers (Buffer, Sender) applies     *)
(* them to its variables.                                                  *)
(*                                                                         *)
(* The output string is a sequence of the pieces the code pushes:          *)
(*     table    the escaped table name                                     *)
(*     symbol   ",name=value"                                              *)
(*     key      " name=" or ",name=", what write_column_key pushes         *)
(*     value    the value of a column_bool, _i64, _f64, _str or _long256   *)
(*     micros   the value of a column_ts                                   *)
(*     ts       " 1234", the designated timestamp in nanoseconds           *)
(*     nl       the new-line that ends a row                               *)
(* so String::len is the length of the sequence and truncate is SubSeq.    *)
(* An Option is a set with at most one element.                            *)
(***************************************************************************)
EXTENDS Timestamp, Sequences

CONSTANTS
    Tables,      \* table names that TableName::new and max_name_len accept
    BadName      \* stands for every name either of them refuses

ASSUME BadNameAssumption == BadName \notin Tables

-----------------------------------------------------------------------------
(***************************************************************************)
(* The state of a buffer.                                                  *)
(***************************************************************************)
OpCases == {"Init", "TableWritten", "SymbolWritten", "ColumnWritten",
            "MayFlushOrTable"}

\* OpCase: each case is the bit set of the operations that may come next.
OpCase == [c \in OpCases |->
             CASE c = "Init"            -> {"Table"}
               [] c = "TableWritten"    -> {"Symbol", "Column"}
               [] c = "SymbolWritten"   -> {"Symbol", "Column", "At"}
               [] c = "ColumnWritten"   -> {"Column", "At"}
               [] c = "MayFlushOrTable" -> {"Flush", "Table"}]

\* An Option has at most one element.
IsOption(o) == \A x, y \in o : x = y

BufferStates == [ op_case       : OpCases,
                  row_count     : Nat,
                  first_table   : {o \in SUBSET Tables : IsOption(o)},
                  transactional : BOOLEAN ]

Markers == [position : Nat, state : BufferStates]

Tokens == [k : {"table"}, name : Tables]
            \cup [k : {"symbol", "value", "nl"}]
            \cup [k : {"key"}, sep : {" ", ","}]
            \cup [k : {"micros", "ts"}, v : I64]

Buffers == [ output : Seq(Tokens),
             state  : BufferStates,
             marker : SUBSET Markers ]

\* BufferState::new and BufferState::clear.
NewState == [ op_case       |-> "Init",
              row_count     |-> 0,
              first_table   |-> {},
              transactional |-> TRUE ]

\* Buffer::new and Buffer::clear.
NewBuffer == [output |-> <<>>, state |-> NewState, marker |-> {}]

Errors == {"InvalidApiCall", "InvalidName", "InvalidTimestamp"}

\* What a call leaves behind: the buffer and Ok(()) or an error code.
Ok(b)     == [buf |-> b, res |-> "Ok"]
Err(b, e) == [buf |-> b, res |-> e]

check_op(b, op) == op \in OpCase[b.state.op_case]

\* Push one piece of text, and move to op case c.
Push(b, tok)       == [b EXCEPT !.output = Append(@, tok)]
Written(b, tok, c) == [Push(b, tok) EXCEPT !.state.op_case = c]

-----------------------------------------------------------------------------
(***************************************************************************)
(* Appending a row.  Each call validates, then checks the op case, then    *)
(* writes: an early return leaves the buffer as it was.                    *)
(***************************************************************************)
\* try_into and validate_max_name_len, then check_op.
Verdict(b, named, op) ==
    IF ~named THEN "InvalidName"
              ELSE IF check_op(b, op) THEN "Ok" ELSE "InvalidApiCall"

\* Mutant: the flag says what the last call saw, not all of them.
table_forgetful(b, n) ==
    LET ft == b.state.first_table
    IN  IF Verdict(b, n # BadName, "Table") = "Ok"
          THEN Ok([Written(b, [k |-> "table", name |-> n], "TableWritten") EXCEPT
                     !.state.first_table   = IF ft = {} THEN {n} ELSE ft,
                     !.state.transactional = ft \subseteq {n}])
          ELSE Err(b, Verdict(b, n # BadName, "Table"))

\* Buffer::table.  The first name is kept to tell a single-table buffer apart.
table(b, n) ==
    LET verdict == Verdict(b, n # BadName, "Table")
        w  == Written(b, [k |-> "table", name |-> n], "TableWritten")
        ft == b.state.first_table
    IN  IF verdict = "Ok"
          THEN Ok([w EXCEPT
                     !.state.first_table   = IF ft = {} THEN {n} ELSE ft,
                     !.state.transactional = @ /\ ft \subseteq {n}])
          ELSE Err(b, verdict)

\* Buffer::symbol; named says whether the column name passes validation.
symbol(b, named) ==
    LET verdict == Verdict(b, named, "Symbol")
    IN  IF verdict = "Ok"
          THEN Ok(Written(b, [k |-> "symbol"], "SymbolWritten"))
          ELSE Err(b, verdict)

\* Mutant: the separator is chosen after the op case has moved on.
write_column_key_late_sep(b, named) ==
    IF Verdict(b, named, "Column") = "Ok"
      THEN Ok(Written(b, [k |-> "key", sep |-> ","], "ColumnWritten"))
      ELSE Err(b, Verdict(b, named, "Column"))

\* Buffer::write_column_key: the first column of a row follows a space.
write_column_key(b, named) ==
    LET verdict == Verdict(b, named, "Column")
        sep     == IF check_op(b, "Symbol") THEN " " ELSE ","
    IN  IF verdict = "Ok"
          THEN Ok(Written(b, [k |-> "key", sep |-> sep], "ColumnWritten"))
          ELSE Err(b, verdict)

\* What follows the key once it is written.
WithValue(r, tok) ==
    IF r.res = "Ok" THEN Ok(Push(r.buf, tok)) ELSE r

\* Buffer::column_bool, _i64, _f64, _str and _long256.
column(b, named) == WithValue(write_column_key(b, named), [k |-> "value"])

(***************************************************************************)
(* Buffer::column_ts.  The value is any T: TryInto<Timestamp>, converted   *)
(* after the key is written.  A conversion that fails (ts = {}) returns    *)
(* early and leaves the key without a value in the output.                 *)
(***************************************************************************)
column_ts(b, named, ts) ==
    LET r == write_column_key(b, named)
    IN  IF r.res = "Ok" /\ ts = {}
          THEN Err(r.buf, "InvalidTimestamp")
          ELSE WithValue(r, [k |-> "micros",
                             v |-> as_micros(CHOOSE t \in ts : TRUE)])

\* The end of a row, common to at and at_now.
EndRow(b) == [Written(b, [k |-> "nl"], "MayFlushOrTable")
                EXCEPT !.state.row_count = @ + 1]

\* Mutant: the row is ended before the timestamp is looked at.
at_ends_first(b, ts) ==
    LET nanos == UNION {as_nanos(t) : t \in ts}
    IN  IF ~check_op(b, "At")
          THEN Err(b, "InvalidApiCall")
          ELSE IF nanos = {} \/ \E n \in nanos : n < 0
                 THEN Err(EndRow(b), "InvalidTimestamp")
                 ELSE Ok(EndRow(Push(b, [k |-> "ts", v |-> CHOOSE n \in nanos : TRUE])))

\* Buffer::at.  ts = {} is a value whose TryInto<Timestamp> fails.
at(b, ts) ==
    LET nanos == UNION {as_nanos(t) : t \in ts}
    IN  IF ~check_op(b, "At")
          THEN Err(b, "InvalidApiCall")
          ELSE IF nanos = {} \/ \E n \in nanos : n < 0
                 THEN Err(b, "InvalidTimestamp")
                 ELSE Ok(EndRow(Push(b, [k |-> "ts", v |-> CHOOSE n \in nanos : TRUE])))

\* Buffer::at_now.
at_now(b) == IF check_op(b, "At") THEN Ok(EndRow(b))
                                  ELSE Err(b, "InvalidApiCall")

-----------------------------------------------------------------------------
(***************************************************************************)
(* The rewind marker.                                                      *)
(***************************************************************************)
\* Mutant: the marker may be set inside a row.
set_marker_anywhere(b) ==
    Ok([b EXCEPT !.marker = {[position |-> Len(b.output), state |-> b.state]}])

set_marker(b) ==
    IF check_op(b, "Table")
      THEN Ok([b EXCEPT !.marker = {[position |-> Len(b.output),
                                     state    |-> b.state]}])
      ELSE Err(b, "InvalidApiCall")

\* Mutant: the rewind goes back to the start.
rewind_to_start(b) ==
    IF b.marker = {} THEN Err(b, "InvalidApiCall") ELSE Ok(NewBuffer)

\* Mutant: the flag of the rows that were dropped stays.
rewind_keeps_flag(b) ==
    IF b.marker = {}
      THEN Err(b, "InvalidApiCall")
      ELSE LET m == CHOOSE x \in b.marker : TRUE
           IN  Ok([output |-> SubSeq(b.output, 1, m.position),
                   state  |-> [m.state EXCEPT !.transactional = b.state.transactional],
                   marker |-> {}])

\* Marker::take: the marker is gone whether or not there was one.
rewind_to_marker(b) ==
    IF b.marker = {}
      THEN Err(b, "InvalidApiCall")
      ELSE LET m == CHOOSE x \in b.marker : TRUE
           IN  Ok([output |-> SubSeq(b.output, 1, m.position),
                   state  |-> m.state,
                   marker |-> {}])

clear_marker(b) == Ok([b EXCEPT !.marker = {}])

\* Mutant: BufferState::clear forgets the flag.
clear_keeps_flag(b) ==
    Ok([NewBuffer EXCEPT !.state.transactional = b.state.transactional])

\* Buffer::clear keeps only max_name_len and the allocation.
clear(b) == Ok(NewBuffer)

-----------------------------------------------------------------------------
(***************************************************************************)
(* What a text names, read from its pieces alone.                          *)
(***************************************************************************)
TableNames(out) == {out[i].name : i \in {j \in DOMAIN out : out[j].k = "table"}}

SingleTable(out) == \A s, t \in TableNames(out) : s = t
=============================================================================

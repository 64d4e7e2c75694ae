---------------------------- MODULE BufferText ----------------------------
(***************************************************************************)
(* What the text of a `Buffer` says, read from its pieces alone: the       *)
(* reference that the state kept beside the text is held against.          *)
(***************************************************************************)
EXTENDS BufferOps, FiniteSets

Rows(out) == {i \in DOMAIN out : out[i].k = "nl"}

\* The op case is a function of the last piece written.  No call ends on a
\* timestamp, so that case has no OpCase.
CaseAfter(out) ==
    IF out = <<>> THEN "Init"
    ELSE CASE out[Len(out)].k = "table"  -> "TableWritten"
           [] out[Len(out)].k = "symbol" -> "SymbolWritten"
           [] out[Len(out)].k = "nl"     -> "MayFlushOrTable"
           [] out[Len(out)].k = "ts"     -> "TimestampWritten"
           [] OTHER                      -> "ColumnWritten"

(***************************************************************************)
(* State s is what the code must keep beside output out.                   *)
(***************************************************************************)
Describes(s, out) ==
    /\ s.op_case = CaseAfter(out)
    /\ s.row_count = Cardinality(Rows(out))
    /\ s.first_table \subseteq TableNames(out)
    /\ (s.first_table = {}) <=> (out = <<>>)
    /\ s.transactional <=> SingleTable(out)

(***************************************************************************)
(* The grammar of an ILP line, as the pairs of pieces that may be          *)
(* neighbours: table, then symbols, then columns, of both together at      *)
(* least one, the first column after a space and the others after a comma, *)
(* then an optional timestamp and the new-line.                            *)
(***************************************************************************)
Follows(p, q) ==
    CASE q.k = "table"                 -> p.k = "nl"
      [] q.k = "symbol"                -> p.k \in {"table", "symbol"}
      [] q.k = "key" /\ q.sep = " "    -> p.k \in {"table", "symbol"}
      [] q.k = "key" /\ q.sep = ","    -> p.k \in {"value", "micros"}
      [] q.k \in {"value", "micros"}   -> p.k = "key"
      [] q.k = "ts"                    -> p.k \in {"symbol", "value", "micros"}
      [] q.k = "nl"                    -> p.k \in {"symbol", "value", "micros", "ts"}

(***************************************************************************)
(* A column_ts that fails leaves its key without a value.  The calls after *)
(* it go on as if the value were there.                                    *)
(***************************************************************************)
DanglingKey(out, i) ==
    out[i].k = "key" /\ (i = Len(out) \/ out[i + 1].k \notin {"value", "micros"})

LooselyFollows(p, q) ==
    Follows(p, q) \/ (p.k = "key" /\ Follows([k |-> "value"], q))

LooseGrammar(out) ==
    /\ out # <<>> => out[1].k = "table"
    /\ \A i \in 1 .. Len(out) - 1 : LooselyFollows(out[i], out[i + 1])

WellFormed(out) ==
    LooseGrammar(out) /\ \A i \in DOMAIN out : ~DanglingKey(out, i)
=============================================================================

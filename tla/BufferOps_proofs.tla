-------------------------- MODULE BufferOps_proofs --------------------------
(***************************************************************************)
(* What the operations of a `Buffer` guarantee, for every set of tables,   *)
(* every timestamp and every width of i64.  The proofs about the modules   *)
(* that own buffers cite these lemmas.                                     *)
(***************************************************************************)
EXTENDS BufferText, FiniteSetTheorems, TLAPS

(***************************************************************************)
(* What pushing one piece does to the text.                                *)
(***************************************************************************)
LEMMA AppendFacts ==
    ASSUME NEW out \in Seq(Tokens), NEW tok \in Tokens
    PROVE  /\ Append(out, tok) \in Seq(Tokens)
           /\ Append(out, tok) # <<>>
           /\ Len(Append(out, tok)) = Len(out) + 1
           /\ Len(out) \in Nat
           /\ DOMAIN out = 1 .. Len(out)
           /\ DOMAIN Append(out, tok) = 1 .. Len(out) + 1
           /\ Append(out, tok)[Len(out) + 1] = tok
           /\ \A i \in 1 .. Len(out) : Append(out, tok)[i] = out[i]
  OBVIOUS

\* The last piece of a text is the one pushed last.
LEMMA LastAppend ==
    ASSUME NEW out \in Seq(Tokens), NEW tok \in Tokens
    PROVE  /\ Append(out, tok) # <<>>
           /\ Append(out, tok)[Len(Append(out, tok))] = tok
  OBVIOUS

\* The set of rows of a text is finite, so that its cardinality is a number.
LEMMA RowsFinite ==
    ASSUME NEW out \in Seq(Tokens)
    PROVE  IsFiniteSet(Rows(out)) /\ Cardinality(Rows(out)) \in Nat
  <1>1. Rows(out) \subseteq 1 .. Len(out)
    BY DEF Rows
  <1>2. IsFiniteSet(1 .. Len(out))
    BY FS_Interval
  <1> QED
    BY <1>1, <1>2, FS_Subset, FS_CardinalityType

\* Pushing a new-line makes one more row; pushing anything else makes none.
LEMMA RowsAppend ==
    ASSUME NEW out \in Seq(Tokens), NEW tok \in Tokens
    PROVE  /\ tok.k # "nl" => Rows(Append(out, tok)) = Rows(out)
           /\ tok.k = "nl" => Cardinality(Rows(Append(out, tok)))
                                = Cardinality(Rows(out)) + 1
  <1>1. CASE tok.k # "nl"
    BY <1>1, AppendFacts DEF Rows
  <1>2. CASE tok.k = "nl"
    <2>1. Rows(Append(out, tok)) = Rows(out) \cup {Len(out) + 1}
      BY <1>2, AppendFacts DEF Rows
    <2>2. Len(out) + 1 \notin Rows(out)
      BY AppendFacts DEF Rows
    <2> QED
      BY <1>2, <2>1, <2>2, RowsFinite, FS_AddElement
  <1> QED
    BY <1>1, <1>2

\* Pushing a table name adds that name; pushing anything else adds none.
LEMMA NamesAppend ==
    ASSUME NEW out \in Seq(Tokens), NEW tok \in Tokens
    PROVE  /\ tok.k # "table" => TableNames(Append(out, tok)) = TableNames(out)
           /\ tok.k = "table" => TableNames(Append(out, tok))
                                   = TableNames(out) \cup {tok.name}
  BY AppendFacts DEF TableNames

\* Pushing a piece that may follow the last one keeps the text in the grammar.
LEMMA GrammarAppend ==
    ASSUME NEW out \in Seq(Tokens), NEW tok \in Tokens, LooseGrammar(out),
           out = <<>> => tok.k = "table",
           out # <<>> => LooselyFollows(out[Len(out)], tok)
    PROVE  LooseGrammar(Append(out, tok))
  <1> DEFINE new == Append(out, tok)
  <1>1. new[1].k = "table"
    <2>1. CASE out = <<>>
      BY <2>1, AppendFacts
    <2>2. CASE out # <<>>
      <3>1. 1 \in 1 .. Len(out)
        BY <2>2, AppendFacts
      <3> QED
        BY <2>2, <3>1, AppendFacts DEF LooseGrammar
    <2> QED
      BY <2>1, <2>2
  <1>2. ASSUME NEW i \in 1 .. Len(new) - 1
        PROVE  LooselyFollows(new[i], new[i + 1])
    <2>1. i \in 1 .. Len(out)
      BY <1>2, AppendFacts
    <2>2. CASE i = Len(out)
      <3>1. out # <<>>
        BY <2>1, AppendFacts
      <3> QED
        BY <2>1, <2>2, <3>1, AppendFacts
    <2>3. CASE i # Len(out)
      <3>1. i \in 1 .. Len(out) - 1 /\ i + 1 \in 1 .. Len(out)
        BY <2>1, <2>3, AppendFacts
      <3> QED
        BY <2>1, <3>1, AppendFacts DEF LooseGrammar
    <2> QED
      BY <2>2, <2>3
  <1> QED
    BY <1>1, <1>2 DEF LooseGrammar

\* A prefix of a text in the grammar is in the grammar.
LEMMA GrammarPrefix ==
    ASSUME NEW out \in Seq(Tokens), LooseGrammar(out), NEW p \in 0 .. Len(out)
    PROVE  LooseGrammar(SubSeq(out, 1, p))
  <1> DEFINE pre == SubSeq(out, 1, p)
  <1>1. /\ Len(pre) = p
        /\ \A i \in 1 .. p : pre[i] = out[i]
        /\ pre # <<>> => p # 0
    OBVIOUS
  <1>2. pre # <<>> => pre[1].k = "table" 
    BY <1>1 DEF LooseGrammar
  <1>3. ASSUME NEW i \in 1 .. Len(pre) - 1
        PROVE  LooselyFollows(pre[i], pre[i + 1])
    BY <1>1, <1>3 DEF LooseGrammar
  <1> QED
    BY <1>2, <1>3 DEF LooseGrammar

\* The last piece of a prefix.
LEMMA PrefixEnd ==
    ASSUME NEW out \in Seq(Tokens), NEW p \in 1 .. Len(out)
    PROVE  /\ SubSeq(out, 1, p) # <<>>
           /\ Len(SubSeq(out, 1, p)) = p
           /\ SubSeq(out, 1, p)[p] = out[p]
  OBVIOUS

\* Pushing leaves every earlier prefix as it was.
LEMMA PrefixAppend ==
    ASSUME NEW out \in Seq(Tokens), NEW tok \in Tokens, NEW p \in 0 .. Len(out)
    PROVE  SubSeq(Append(out, tok), 1, p) = SubSeq(out, 1, p)
  OBVIOUS

-----------------------------------------------------------------------------
(***************************************************************************)
(* What each call does to a buffer that is in order.                       *)
(***************************************************************************)
Good(b) ==
    /\ b \in Buffers
    /\ IsOption(b.marker)
    /\ Describes(b.state, b.output)
    /\ LooseGrammar(b.output)

\* c is b with more text: what the marker of b covers is still there.
Grown(b, c) ==
    /\ c.marker = b.marker
    /\ Len(b.output) <= Len(c.output)
    /\ \A p \in 0 .. Len(b.output) :
         SubSeq(c.output, 1, p) = SubSeq(b.output, 1, p)

\* The op case tells what the last piece is.
LEMMA LastPiece ==
    ASSUME NEW b, Good(b)
    PROVE  LET last == b.output[Len(b.output)].k IN
           /\ check_op(b, "Table") <=> b.output = <<>> \/ last = "nl"
           /\ check_op(b, "Symbol") <=>
                b.output # <<>> /\ last \in {"table", "symbol"}
           /\ check_op(b, "Column") <=>
                b.output # <<>> /\ last \in {"table", "symbol", "key", "value", "micros"}
           /\ check_op(b, "At") <=>
                b.output # <<>> /\ last \in {"symbol", "key", "value", "micros"}
           /\ check_op(b, "Flush") <=> b.output # <<>> /\ last = "nl"
  <1> DEFINE last == b.output[Len(b.output)]
  <1>1. /\ b.output \in Seq(Tokens)
        /\ b.state.op_case \in OpCases
        /\ b.state.op_case = CaseAfter(b.output)
    BY DEF Good, Buffers, BufferStates, Describes
  <1>2. CASE b.output = <<>>
    BY <1>1, <1>2 DEF CaseAfter, check_op, OpCase, OpCases
  <1>3. CASE b.output # <<>>
    <2>1. last \in Tokens
      BY <1>1, <1>3
    <2>2. last.k \in {"table", "symbol", "value", "nl", "key", "micros", "ts"}
      BY <2>1 DEF Tokens
    <2> QED
      BY <1>1, <1>3, <2>2 DEF CaseAfter, check_op, OpCase, OpCases
  <1> QED
    BY <1>2, <1>3

\* A push grows the buffer: it adds text and keeps the marker.
LEMMA PushGrows ==
    ASSUME NEW b, NEW c, NEW tok \in Tokens, b.output \in Seq(Tokens),
           c.output = Append(b.output, tok), c.marker = b.marker
    PROVE  Grown(b, c)
  <1>1. Len(b.output) <= Len(c.output)
    BY AppendFacts
  <1>2. ASSUME NEW p \in 0 .. Len(b.output)
        PROVE  SubSeq(c.output, 1, p) = SubSeq(b.output, 1, p)
    BY PrefixAppend
  <1> QED
    BY <1>1, <1>2 DEF Grown

\* Growing is transitive.
LEMMA GrowsTwice ==
    ASSUME NEW b, NEW c, NEW d, Grown(b, c), Grown(c, d),
           Len(b.output) \in Nat, Len(c.output) \in Nat, Len(d.output) \in Nat
    PROVE  Grown(b, d)
  <1>1. d.marker = b.marker /\ Len(b.output) <= Len(d.output)
    BY DEF Grown
  <1>2. ASSUME NEW p \in 0 .. Len(b.output)
        PROVE  SubSeq(d.output, 1, p) = SubSeq(b.output, 1, p)
    <2>1. p \in 0 .. Len(c.output)
      BY <1>2 DEF Grown
    <2> QED
      BY <1>2, <2>1 DEF Grown
  <1> QED
    BY <1>1, <1>2 DEF Grown

\* The fields of a buffer after a push.
LEMMA PushFields ==
    ASSUME NEW b \in Buffers, NEW tok \in Tokens
    PROVE  /\ Push(b, tok) \in Buffers
           /\ Push(b, tok).output = Append(b.output, tok)
           /\ Push(b, tok).state = b.state
           /\ Push(b, tok).marker = b.marker
  BY AppendFacts DEF Buffers, Push

\* The fields of a buffer after a push that moves to another op case.
LEMMA WrittenFields ==
    ASSUME NEW b \in Buffers, NEW tok \in Tokens, NEW c \in OpCases
    PROVE  /\ Written(b, tok, c) \in Buffers
           /\ Written(b, tok, c).output = Append(b.output, tok)
           /\ Written(b, tok, c).state.op_case = c
           /\ Written(b, tok, c).state.row_count = b.state.row_count
           /\ Written(b, tok, c).state.first_table = b.state.first_table
           /\ Written(b, tok, c).state.transactional = b.state.transactional
           /\ Written(b, tok, c).marker = b.marker
  <1>1. b.state \in BufferStates
    BY DEF Buffers
  <1>2. /\ [b.state EXCEPT !.op_case = c] \in BufferStates
        /\ [b.state EXCEPT !.op_case = c].op_case = c
        /\ [b.state EXCEPT !.op_case = c].row_count = b.state.row_count
        /\ [b.state EXCEPT !.op_case = c].first_table = b.state.first_table
        /\ [b.state EXCEPT !.op_case = c].transactional = b.state.transactional
    BY <1>1 DEF BufferStates
  <1>3. /\ Written(b, tok, c) \in Buffers
        /\ Written(b, tok, c).output = Append(b.output, tok)
        /\ Written(b, tok, c).state = [b.state EXCEPT !.op_case = c]
        /\ Written(b, tok, c).marker = b.marker
    BY <1>2, PushFields DEF Buffers, Written
  <1> QED
    BY <1>2, <1>3

\* A piece inside a row changes at most the op case.
LEMMA PieceGood ==
    ASSUME NEW b, Good(b), NEW w \in Buffers, NEW tok \in Tokens,
           tok.k \in {"symbol", "key", "value", "micros"},
           b.output # <<>>,
           LooselyFollows(b.output[Len(b.output)], tok),
           w.output = Append(b.output, tok),
           w.marker = b.marker,
           w.state.op_case = IF tok.k = "symbol" THEN "SymbolWritten"
                                                 ELSE "ColumnWritten",
           w.state.row_count = b.state.row_count,
           w.state.first_table = b.state.first_table,
           w.state.transactional = b.state.transactional
    PROVE  Good(w) /\ Grown(b, w)
  <1>1. b.output \in Seq(Tokens)
    BY DEF Good, Buffers
  <1>2. Describes(w.state, w.output)
    <2>1. CaseAfter(w.output) = w.state.op_case
      BY <1>1, AppendFacts DEF CaseAfter
    <2>2. Rows(w.output) = Rows(b.output)
      BY <1>1, RowsAppend
    <2>3. TableNames(w.output) = TableNames(b.output)
      BY <1>1, NamesAppend
    <2>4. SingleTable(w.output) <=> SingleTable(b.output)
      BY <2>3 DEF SingleTable
    <2>5. w.output # <<>>
      BY <1>1, AppendFacts
    <2> QED
      BY <2>1, <2>2, <2>3, <2>4, <2>5, Zenon DEF Good, Describes
  <1>3. LooseGrammar(w.output)
    BY <1>1, GrammarAppend DEF Good
  <1>4. Grown(b, w)
    BY <1>1, PushGrows
  <1> QED
    BY <1>2, <1>3, <1>4 DEF Good

\* What every call guarantees.
Sound(b, r) == Good(r.buf) /\ Grown(b, r.buf) /\ r.res \in Errors \cup {"Ok"}

\* An early return before any write leaves a good buffer.
LEMMA ErrSound ==
    ASSUME NEW b, Good(b), NEW e \in Errors
    PROVE  Sound(b, Err(b, e))
  BY DEF Sound, Err, Grown, Good, Buffers

\* symbol() keeps a buffer good.
LEMMA SymbolSound ==
    ASSUME NEW b, Good(b), NEW named \in BOOLEAN
    PROVE  Sound(b, symbol(b, named))
  <1>1. CASE Verdict(b, named, "Symbol") = "Ok"
    <2> DEFINE tok == [k |-> "symbol"]
               w   == Written(b, tok, "SymbolWritten")
    <2>1. tok \in Tokens
      BY DEF Tokens
    <2>2. check_op(b, "Symbol")
      BY <1>1 DEF Verdict
    <2>3. b.output # <<>> /\ LooselyFollows(b.output[Len(b.output)], tok)
      BY <2>2, LastPiece DEF LooselyFollows, Follows
    <2>4. Good(w) /\ Grown(b, w)
      BY <2>1, <2>3, WrittenFields, PieceGood DEF Good, OpCases
    <2> QED
      BY <1>1, <2>4 DEF symbol, Sound, Ok
  <1>2. CASE Verdict(b, named, "Symbol") # "Ok"
    BY <1>2, ErrSound DEF symbol, Verdict, Errors
  <1> QED
    BY <1>1, <1>2

\* The key of a column, and what a value needs to know of it.
LEMMA KeySound ==
    ASSUME NEW b, Good(b), NEW named \in BOOLEAN
    PROVE  LET r == write_column_key(b, named) IN
           /\ Sound(b, r)
           /\ r.res = "Ok" => /\ r.buf.output # <<>>
                              /\ r.buf.output[Len(r.buf.output)].k = "key"
                              /\ r.buf.state.op_case = "ColumnWritten"
  <1>1. CASE Verdict(b, named, "Column") = "Ok"
    <2>1. PICK sep \in {" ", ","} :
            sep = IF check_op(b, "Symbol") THEN " " ELSE ","
      OBVIOUS
    <2>2. PICK tok \in Tokens : tok = [k |-> "key", sep |-> sep]
      BY DEF Tokens
    <2> DEFINE w == Written(b, tok, "ColumnWritten")
    <2>3. b.output # <<>> /\ LooselyFollows(b.output[Len(b.output)], tok)
      <3>1. check_op(b, "Column")
        BY <1>1 DEF Verdict
      <3>2. tok.k = "key" /\ tok.sep = IF check_op(b, "Symbol") THEN " " ELSE ","
        BY <2>1, <2>2
      <3> QED
        BY <3>1, <3>2, LastPiece DEF LooselyFollows, Follows
    <2>4. b \in Buffers /\ b.output \in Seq(Tokens) /\ tok.k = "key"
      BY <2>2 DEF Good, Buffers
    <2>5. /\ w \in Buffers
          /\ w.output = Append(b.output, tok)
          /\ w.state.op_case = "ColumnWritten"
          /\ w.state.row_count = b.state.row_count
          /\ w.state.first_table = b.state.first_table
          /\ w.state.transactional = b.state.transactional
          /\ w.marker = b.marker
      BY <2>4, WrittenFields DEF OpCases
    <2>6. Good(w) /\ Grown(b, w)
      BY <2>3, <2>4, <2>5, PieceGood
    <2>7. write_column_key(b, named) = Ok(w)
      BY <1>1, <2>1, <2>2 DEF write_column_key
    <2>8. Ok(w).buf = w /\ Ok(w).res = "Ok"
      BY DEF Ok
    <2> HIDE DEF w
    <2>9. w.output # <<>> /\ w.output[Len(w.output)].k = "key"
      BY <2>4, <2>5, LastAppend, Zenon
    <2> QED
      BY <2>5, <2>6, <2>7, <2>8, <2>9 DEF Sound
  <1>2. CASE Verdict(b, named, "Column") # "Ok"
    <2>1. Verdict(b, named, "Column") \in Errors
      BY <1>2 DEF Verdict, Errors
    <2>2. write_column_key(b, named) = Err(b, Verdict(b, named, "Column"))
      BY <1>2 DEF write_column_key
    <2> QED
      BY <1>2, <2>1, <2>2, ErrSound DEF Err
  <1> QED
    BY <1>1, <1>2

\* The value written after a key keeps a buffer good.
LEMMA ValueSound ==
    ASSUME NEW b, Good(b), NEW named \in BOOLEAN,
           NEW tok \in Tokens, tok.k \in {"value", "micros"}
    PROVE  Sound(b, WithValue(write_column_key(b, named), tok))
  <1> DEFINE r == write_column_key(b, named)
             w == Push(r.buf, tok)
  <1>1. CASE r.res = "Ok"
    <2>1. /\ Good(r.buf) /\ Grown(b, r.buf)
          /\ r.buf.output # <<>>
          /\ r.buf.output[Len(r.buf.output)].k = "key"
          /\ r.buf.state.op_case = "ColumnWritten"
      BY <1>1, KeySound DEF Sound
    <2>2. LooselyFollows(r.buf.output[Len(r.buf.output)], tok)
      BY <2>1 DEF LooselyFollows, Follows
    <2>3. r.buf \in Buffers
      BY <2>1 DEF Good
    <2>4. /\ w \in Buffers
          /\ w.output = Append(r.buf.output, tok)
          /\ w.state = r.buf.state
          /\ w.marker = r.buf.marker
      BY <2>3, PushFields
    <2>5. Good(w) /\ Grown(r.buf, w)
      BY <2>1, <2>2, <2>4, PieceGood
    <2>6. /\ Len(b.output) \in Nat
          /\ Len(r.buf.output) \in Nat
          /\ Len(w.output) \in Nat
      BY <2>3, <2>4 DEF Good, Buffers
    <2>7. Grown(b, w)
      BY <2>1, <2>5, <2>6, GrowsTwice
    <2>8. WithValue(r, tok) = Ok(w)
      BY <1>1 DEF WithValue
    <2> QED
      BY <2>5, <2>7, <2>8 DEF Sound, Ok
  <1>2. CASE r.res # "Ok"
    BY <1>2, KeySound DEF WithValue
  <1> QED
    BY <1>1, <1>2

\* column_bool, _i64, _f64, _str and _long256 keep a buffer good.
LEMMA ColumnSound ==
    ASSUME NEW b, Good(b), NEW named \in BOOLEAN
    PROVE  Sound(b, column(b, named))
  <1>1. [k |-> "value"] \in Tokens
    BY DEF Tokens
  <1> QED
    BY <1>1, ValueSound DEF column

\* Nanoseconds are i64, and so are the microseconds they are cut down to.
LEMMA MicrosInI64 ==
    ASSUME NEW t \in Timestamps
    PROVE  as_micros(t) \in I64
  <1>1. t.v \in I64 /\ t.v \in Int
    BY MaxI64Assumption DEF Timestamps, I64
  <1>2. nanos_to_micros(t.v) \in I64
    BY <1>1, MaxI64Assumption DEF nanos_to_micros, I64
  <1> QED
    BY <1>1, <1>2 DEF as_micros

\* column_ts() keeps a buffer good, even when the conversion fails.
LEMMA ColumnTsSound ==
    ASSUME NEW b, Good(b), NEW named \in BOOLEAN, NEW ts \in SUBSET Timestamps
    PROVE  Sound(b, column_ts(b, named, ts))
  <1> DEFINE r == write_column_key(b, named)
             t == CHOOSE x \in ts : TRUE
  <1>1. Sound(b, r)
    BY KeySound
  <1>2. CASE ts = {}
    <2>1. CASE r.res = "Ok"
      BY <1>1, <1>2, <2>1 DEF column_ts, Sound, Err, Errors
    <2>2. CASE r.res # "Ok"
      BY <1>1, <2>2 DEF column_ts, WithValue
    <2> QED
      BY <2>1, <2>2
  <1>3. CASE ts # {}
    <2>1. t \in Timestamps
      BY <1>3
    <2>2. [k |-> "micros", v |-> as_micros(t)] \in Tokens
      BY <2>1, MicrosInI64 DEF Tokens
    <2>3. column_ts(b, named, ts)
            = WithValue(r, [k |-> "micros", v |-> as_micros(t)])
      BY <1>3 DEF column_ts
    <2> QED
      BY <2>2, <2>3, ValueSound
  <1> QED
    BY <1>2, <1>3

\* table() keeps a buffer good: the flag follows the names in the text.
LEMMA TableSound ==
    ASSUME NEW b, Good(b), NEW n \in Tables \cup {BadName}
    PROVE  Sound(b, table(b, n))
  <1>1. CASE Verdict(b, n # BadName, "Table") = "Ok"
    <2>1. n \in Tables /\ check_op(b, "Table")
      BY <1>1 DEF Verdict
    <2>2. PICK tok \in Tokens : tok = [k |-> "table", name |-> n]
      BY <2>1 DEF Tokens
    <2> DEFINE v   == Written(b, tok, "TableWritten")
               ft  == b.state.first_table
               ft2 == IF ft = {} THEN {n} ELSE ft
               w   == [v EXCEPT !.state.first_table   = ft2,
                                !.state.transactional = @ /\ ft \subseteq {n}]
    <2>3. b \in Buffers /\ b.output \in Seq(Tokens)
      BY DEF Good, Buffers
    <2>4. tok.k = "table" /\ tok.name = n
      BY <2>2
    <2>5. /\ v \in Buffers
          /\ v.output = Append(b.output, tok)
          /\ v.state.op_case = "TableWritten"
          /\ v.state.row_count = b.state.row_count
          /\ v.state.first_table = b.state.first_table
          /\ v.state.transactional = b.state.transactional
          /\ v.marker = b.marker
      BY <2>3, WrittenFields DEF OpCases
    <2>6. /\ ft \in {o \in SUBSET Tables : IsOption(o)}
          /\ ft2 \in {o \in SUBSET Tables : IsOption(o)}
      BY <2>1, <2>3 DEF Buffers, BufferStates, IsOption
    <2>7. table(b, n) = Ok(w)
      BY <1>1, <2>2 DEF table
    <2> HIDE DEF v, ft2
    <2>8. /\ w \in Buffers
          /\ w.output = v.output
          /\ w.state.op_case = v.state.op_case
          /\ w.state.row_count = v.state.row_count
          /\ w.state.first_table = ft2
          /\ w.state.transactional = (v.state.transactional /\ ft \subseteq {n})
          /\ w.marker = v.marker
      BY <2>5, <2>6 DEF Buffers, BufferStates
    <2>9. Ok(w).buf = w /\ Ok(w).res = "Ok"
      BY DEF Ok
    <2> HIDE DEF w
    <2>10. Describes(w.state, w.output)
      <3>1. Rows(w.output) = Rows(b.output)
        BY <2>3, <2>4, <2>5, <2>8, RowsAppend
      <3>2. TableNames(w.output) = TableNames(b.output) \cup {n}
        BY <2>3, <2>4, <2>5, <2>8, NamesAppend
      <3>3. w.output # <<>> /\ w.output[Len(w.output)] = tok
        <4>1. w.output = Append(b.output, tok)
          BY <2>5, <2>8
        <4> QED
          BY <2>3, <4>1, LastAppend, Zenon
      <3>4. CaseAfter(w.output) = "TableWritten"
        BY <2>4, <3>3 DEF CaseAfter
      <3>5. ft \subseteq TableNames(b.output) /\ (ft = {} => b.output = <<>>)
        BY DEF Good, Describes
      <3>6. ft = {} => TableNames(b.output) = {}
        BY <3>5 DEF TableNames
      <3>7. SingleTable(w.output) <=> SingleTable(b.output) /\ ft \subseteq {n}
        <4> HIDE DEF ft
        <4> QED
          BY <3>2, <3>5, <3>6 DEF SingleTable
      <3>8. w.state.transactional <=> SingleTable(w.output)
        BY <2>5, <2>8, <3>7, Zenon DEF Good, Describes
      <3>9. w.state.first_table \subseteq TableNames(w.output)
            /\ w.state.first_table # {}
        BY <2>8, <3>2, <3>5 DEF ft2
      <3>10. w.state.row_count = Cardinality(Rows(w.output))
        BY <2>5, <2>8, <3>1 DEF Good, Describes
      <3> QED
        BY <2>5, <2>8, <3>3, <3>4, <3>8, <3>9, <3>10, Zenon DEF Describes
    <2>11. LooseGrammar(w.output)
      <3>1. b.output # <<>> => LooselyFollows(b.output[Len(b.output)], tok)
        BY <2>1, <2>4, LastPiece DEF LooselyFollows, Follows
      <3> QED
        BY <2>3, <2>4, <2>5, <2>8, <3>1, GrammarAppend DEF Good
    <2>12. Grown(b, w)
      BY <2>3, <2>5, <2>8, PushGrows
    <2>13. IsOption(w.marker)
      BY <2>5, <2>8 DEF Good
    <2> QED
      BY <2>7, <2>8, <2>9, <2>10, <2>11, <2>12, <2>13 DEF Sound, Good
  <1>2. CASE Verdict(b, n # BadName, "Table") # "Ok"
    BY <1>2, ErrSound DEF table, Verdict, Errors
  <1> QED
    BY <1>1, <1>2

\* The fields of a buffer after the end of a row.
LEMMA EndRowFields ==
    ASSUME NEW b \in Buffers
    PROVE  LET w == EndRow(b) IN
           /\ w \in Buffers
           /\ w.output = Append(b.output, [k |-> "nl"])
           /\ w.state.op_case = "MayFlushOrTable"
           /\ w.state.row_count = b.state.row_count + 1
           /\ w.state.first_table = b.state.first_table
           /\ w.state.transactional = b.state.transactional
           /\ w.marker = b.marker
  <1>0. PICK tok \in Tokens : tok = [k |-> "nl"]
    BY DEF Tokens
  <1> DEFINE v == Written(b, tok, "MayFlushOrTable")
             w == EndRow(b)
  <1>1. /\ v \in Buffers
        /\ v.output = Append(b.output, tok)
        /\ v.state.op_case = "MayFlushOrTable"
        /\ v.state.row_count = b.state.row_count
        /\ v.state.first_table = b.state.first_table
        /\ v.state.transactional = b.state.transactional
        /\ v.marker = b.marker
    BY WrittenFields DEF OpCases
  <1>2. w = [v EXCEPT !.state.row_count = @ + 1]
    BY <1>0 DEF EndRow
  <1> HIDE DEF v, w
  <1> DEFINE st == [v.state EXCEPT !.row_count = @ + 1]
  <1>3. v.state \in BufferStates
    BY <1>1 DEF Buffers
  <1>4. /\ st \in BufferStates
        /\ st.op_case = v.state.op_case
        /\ st.row_count = v.state.row_count + 1
        /\ st.first_table = v.state.first_table
        /\ st.transactional = v.state.transactional
    BY <1>3 DEF BufferStates
  <1>5. w = [v EXCEPT !.state = st]
    BY <1>2
  <1> HIDE DEF st
  <1>6. /\ w \in Buffers
        /\ w.output = v.output
        /\ w.state = st
        /\ w.marker = v.marker
    BY <1>1, <1>4, <1>5 DEF Buffers
  <1> QED
    BY <1>0, <1>1, <1>4, <1>6 DEF w

\* Closing a row, from any state in which at() and at_now() are allowed.
LEMMA EndRowGood ==
    ASSUME NEW b \in Buffers, b.output # <<>>, IsOption(b.marker),
           LooseGrammar(b.output),
           b.state.row_count = Cardinality(Rows(b.output)),
           b.state.first_table \subseteq TableNames(b.output),
           b.state.first_table # {},
           b.state.transactional <=> SingleTable(b.output),
           b.output[Len(b.output)].k \in {"symbol", "key", "value", "micros", "ts"}
    PROVE  Good(EndRow(b)) /\ Grown(b, EndRow(b))
  <1>1. PICK tok \in Tokens : tok = [k |-> "nl"]
    BY DEF Tokens
  <1> DEFINE w == EndRow(b)
  <1>2. b.output \in Seq(Tokens) /\ tok.k = "nl"
    BY <1>1 DEF Buffers
  <1>3. /\ w \in Buffers
        /\ w.output = Append(b.output, tok)
        /\ w.state.op_case = "MayFlushOrTable"
        /\ w.state.row_count = b.state.row_count + 1
        /\ w.state.first_table = b.state.first_table
        /\ w.state.transactional = b.state.transactional
        /\ w.marker = b.marker
    BY <1>1, EndRowFields
  <1> HIDE DEF w
  <1>4. Describes(w.state, w.output)
    <2>1. w.output # <<>> /\ w.output[Len(w.output)] = tok
      BY <1>2, <1>3, LastAppend, Zenon
    <2>2. CaseAfter(w.output) = "MayFlushOrTable"
      BY <1>2, <2>1 DEF CaseAfter
    <2>3. w.state.row_count = Cardinality(Rows(w.output))
      BY <1>2, <1>3, RowsAppend
    <2>4. TableNames(w.output) = TableNames(b.output)
      BY <1>2, <1>3, NamesAppend
    <2>5. SingleTable(w.output) <=> SingleTable(b.output)
      BY <2>4 DEF SingleTable
    <2> QED
      BY <1>3, <2>1, <2>2, <2>3, <2>4, <2>5, Zenon DEF Describes
  <1>5. LooseGrammar(w.output)
    <2>1. LooselyFollows(b.output[Len(b.output)], tok)
      BY <1>2 DEF LooselyFollows, Follows
    <2> QED
      BY <1>2, <1>3, <2>1, GrammarAppend
  <1>6. Grown(b, w)
    BY <1>2, <1>3, PushGrows
  <1> QED
    BY <1>3, <1>4, <1>5, <1>6 DEF Good, w

\* at_now() keeps a buffer good.
LEMMA AtNowSound ==
    ASSUME NEW b, Good(b)
    PROVE  Sound(b, at_now(b))
  <1>1. CASE check_op(b, "At")
    <2>1. /\ b.output # <<>>
          /\ b.output[Len(b.output)].k \in {"symbol", "key", "value", "micros", "ts"}
      BY <1>1, LastPiece
    <2>2. b \in Buffers /\ IsOption(b.marker) /\ LooseGrammar(b.output)
      BY DEF Good
    <2>3. /\ b.state.row_count = Cardinality(Rows(b.output))
          /\ b.state.first_table \subseteq TableNames(b.output)
          /\ b.state.first_table # {}
          /\ b.state.transactional <=> SingleTable(b.output)
      BY <2>1, Zenon DEF Good, Describes
    <2>4. Good(EndRow(b)) /\ Grown(b, EndRow(b))
      BY <2>1, <2>2, <2>3, EndRowGood, Zenon
    <2> QED
      BY <1>1, <2>4 DEF at_now, Sound, Ok
  <1>2. CASE ~check_op(b, "At")
    BY <1>2, ErrSound DEF at_now, Errors
  <1> QED
    BY <1>1, <1>2

\* at() keeps a buffer good, whatever the timestamp.
LEMMA AtSound ==
    ASSUME NEW b, Good(b), NEW ts \in SUBSET Timestamps
    PROVE  Sound(b, at(b, ts))
  <1> DEFINE nanos == UNION {as_nanos(t) : t \in ts}
  <1>1. CASE ~check_op(b, "At")
    BY <1>1, ErrSound DEF at, Errors
  <1>2. CASE check_op(b, "At") /\ (nanos = {} \/ \E n \in nanos : n < 0)
    BY <1>2, ErrSound DEF at, Errors
  <1>3. CASE check_op(b, "At") /\ ~(nanos = {} \/ \E n \in nanos : n < 0)
    <2>1. nanos \subseteq I64
      <3>1. ASSUME NEW t \in ts PROVE as_nanos(t) \subseteq I64
        <4>1. t \in Timestamps
          BY <3>1
        <4> QED
          BY <4>1 DEF as_nanos, micros_to_nanos, Timestamps
      <3> QED
        BY <3>1
    <2>2. (CHOOSE n \in nanos : TRUE) \in I64
      BY <1>3, <2>1
    <2>3. PICK tok \in Tokens : tok = [k |-> "ts", v |-> CHOOSE n \in nanos : TRUE]
      BY <2>2 DEF Tokens
    <2>4. at(b, ts) = Ok(EndRow(Push(b, tok)))
      BY <1>3, <2>3 DEF at
    <2> DEFINE p == Push(b, tok)
    <2>5. /\ b \in Buffers /\ b.output \in Seq(Tokens)
          /\ IsOption(b.marker) /\ LooseGrammar(b.output)
          /\ tok.k = "ts"
      BY <2>3 DEF Good, Buffers
    <2>6. /\ p \in Buffers
          /\ p.output = Append(b.output, tok)
          /\ p.state = b.state
          /\ p.marker = b.marker
      BY <2>5, PushFields
    <2> HIDE DEF p
    <2>7. /\ b.output # <<>>
          /\ b.output[Len(b.output)].k \in {"symbol", "key", "value", "micros"}
      BY <1>3, LastPiece
    <2>8. p.output # <<>> /\ p.output[Len(p.output)] = tok
      BY <2>5, <2>6, LastAppend, Zenon
    <2>9. LooseGrammar(p.output)
      <3>1. LooselyFollows(b.output[Len(b.output)], tok)
        BY <2>5, <2>7 DEF LooselyFollows, Follows
      <3> QED
        BY <2>5, <2>6, <2>7, <3>1, GrammarAppend
    <2>10. /\ Rows(p.output) = Rows(b.output)
           /\ TableNames(p.output) = TableNames(b.output)
      BY <2>5, <2>6, RowsAppend, NamesAppend
    <2>11. SingleTable(p.output) <=> SingleTable(b.output)
      BY <2>10 DEF SingleTable
    <2>12. /\ p.state.row_count = Cardinality(Rows(p.output))
           /\ p.state.first_table \subseteq TableNames(p.output)
           /\ p.state.first_table # {}
           /\ p.state.transactional <=> SingleTable(p.output)
      BY <2>6, <2>7, <2>10, <2>11, Zenon DEF Good, Describes
    <2>13. /\ IsOption(p.marker)
           /\ p.output[Len(p.output)].k \in {"symbol", "key", "value", "micros", "ts"}
      BY <2>5, <2>6, <2>8
    <2>14. Good(EndRow(p)) /\ Grown(p, EndRow(p))
      BY <2>6, <2>8, <2>9, <2>12, <2>13, EndRowGood, Zenon
    <2>15. Grown(b, p)
      BY <2>5, <2>6, PushGrows
    <2>16. /\ Len(b.output) \in Nat
           /\ Len(p.output) \in Nat
           /\ Len(EndRow(p).output) \in Nat
      BY <2>5, <2>6, <2>14 DEF Good, Buffers
    <2>17. Grown(b, EndRow(p))
      BY <2>14, <2>15, <2>16, GrowsTwice
    <2> QED
      BY <2>4, <2>14, <2>17 DEF Sound, Ok, p
  <1> QED
    BY <1>1, <1>2, <1>3

-----------------------------------------------------------------------------
(***************************************************************************)
(* A call that fails loses nothing, and a call that succeeds leaves no key *)
(* without a value.                                                        *)
(***************************************************************************)
Contained(b, r) ==
    IF r.res = "Ok"
      THEN WellFormed(b.output) => WellFormed(r.buf.output)
      ELSE /\ Len(b.output) <= Len(r.buf.output)
           /\ b.output = SubSeq(r.buf.output, 1, Len(b.output))
           /\ Rows(b.output) = Rows(r.buf.output)
           /\ b.marker = r.buf.marker

\* A call that leaves the buffer alone is contained.
LEMMA SameContained ==
    ASSUME NEW b, Good(b), NEW r, r.buf = b
    PROVE  Contained(b, r)
  <1>1. b.output \in Seq(Tokens)
    BY DEF Good, Buffers
  <1>2. b.output = SubSeq(b.output, 1, Len(b.output)) /\ Len(b.output) \in Nat
    BY <1>1
  <1> QED
    BY <1>2 DEF Contained

\* A piece that is not a key leaves no key without a value.
LEMMA PieceWellFormed ==
    ASSUME NEW out \in Seq(Tokens), NEW tok \in Tokens, tok.k # "key",
           WellFormed(out), LooseGrammar(Append(out, tok))
    PROVE  WellFormed(Append(out, tok))
  <1> DEFINE new == Append(out, tok)
  <1>1. ASSUME NEW i \in DOMAIN new PROVE ~DanglingKey(new, i)
    <2>1. CASE i = Len(out) + 1
      BY <2>1, AppendFacts DEF DanglingKey
    <2>2. CASE i # Len(out) + 1
      <3>1. i \in 1 .. Len(out) /\ i \in DOMAIN out /\ new[i] = out[i]
        BY <1>1, <2>2, AppendFacts
      <3>2. ~DanglingKey(out, i)
        BY <3>1 DEF WellFormed
      <3>3. out[i].k = "key" => i # Len(out) /\ out[i + 1].k \in {"value", "micros"}
        BY <3>2 DEF DanglingKey
      <3>4. i # Len(out) => new[i + 1] = out[i + 1] /\ i # Len(new)
        BY <3>1, AppendFacts
      <3> QED
        BY <3>1, <3>3, <3>4 DEF DanglingKey
    <2> QED
      BY <2>1, <2>2
  <1> QED
    BY <1>1 DEF WellFormed

\* A key that its value follows is not left without one.
LEMMA ColumnWellFormed ==
    ASSUME NEW out \in Seq(Tokens), NEW key \in Tokens, NEW val \in Tokens,
           val.k \in {"value", "micros"}, WellFormed(out),
           LooseGrammar(Append(Append(out, key), val))
    PROVE  WellFormed(Append(Append(out, key), val))
  <1> DEFINE mid == Append(out, key)
             new == Append(mid, val)
  <1>1. /\ mid \in Seq(Tokens) /\ Len(out) \in Nat
        /\ Len(mid) = Len(out) + 1 /\ Len(new) = Len(out) + 2
        /\ DOMAIN new = 1 .. Len(out) + 2 /\ DOMAIN out = 1 .. Len(out)
        /\ new[Len(out) + 2] = val
        /\ \A i \in 1 .. Len(out) : new[i] = out[i]
    BY AppendFacts
  <1> HIDE DEF new, mid
  <1>2. ASSUME NEW i \in DOMAIN new PROVE ~DanglingKey(new, i)
    <2>1. CASE i = Len(out) + 2
      BY <1>1, <2>1 DEF DanglingKey
    <2>2. CASE i = Len(out) + 1
      <3>1. i + 1 = Len(out) + 2 /\ i # Len(new)
        BY <1>1, <2>2
      <3> QED
        BY <1>1, <3>1 DEF DanglingKey
    <2>3. CASE i \in 1 .. Len(out)
      <3>1. ~DanglingKey(out, i) /\ new[i] = out[i]
        BY <1>1, <2>3 DEF WellFormed
      <3>2. out[i].k = "key" => i # Len(out) /\ out[i + 1].k \in {"value", "micros"}
        BY <3>1 DEF DanglingKey
      <3>3. i # Len(out) => new[i + 1] = out[i + 1] /\ i # Len(new)
        BY <1>1, <2>3
      <3> QED
        BY <3>1, <3>2, <3>3 DEF DanglingKey
    <2> QED
      BY <1>1, <1>2, <2>1, <2>2, <2>3
  <1> QED
    BY <1>2 DEF WellFormed, new, mid

\* A prefix that ends a row of a well-formed text is well-formed.
LEMMA PrefixWellFormed ==
    ASSUME NEW out \in Seq(Tokens), WellFormed(out), NEW p \in 0 .. Len(out),
           p # 0 => out[p].k = "nl"
    PROVE  WellFormed(SubSeq(out, 1, p))
  <1> DEFINE pre == SubSeq(out, 1, p)
  <1>1. /\ Len(pre) = p /\ DOMAIN pre = 1 .. p
        /\ \A i \in 1 .. p : pre[i] = out[i]
    OBVIOUS
  <1>2. LooseGrammar(pre)
    BY GrammarPrefix DEF WellFormed
  <1> HIDE DEF pre
  <1>3. ASSUME NEW i \in DOMAIN pre PROVE ~DanglingKey(pre, i)
    <2>1. i \in DOMAIN out /\ ~DanglingKey(out, i)
      BY <1>1, <1>3 DEF WellFormed
    <2>2. i = p => pre[i].k = "nl"
      BY <1>1, <1>3
    <2>3. i # p => pre[i] = out[i] /\ pre[i + 1] = out[i + 1] /\ i # Len(out)
      BY <1>1, <1>3
    <2> QED
      BY <1>1, <2>1, <2>2, <2>3 DEF DanglingKey
  <1> QED
    BY <1>2, <1>3 DEF WellFormed, pre

\* table() pushes one piece, or none.
LEMMA TableContained ==
    ASSUME NEW b, Good(b), NEW n \in Tables \cup {BadName}
    PROVE  Contained(b, table(b, n))
  <1> DEFINE r == table(b, n)
  <1>1. b \in Buffers /\ b.output \in Seq(Tokens)
    BY DEF Good, Buffers
  <1>2. CASE Verdict(b, n # BadName, "Table") # "Ok"
    BY <1>2, SameContained DEF table, Err
  <1>3. CASE Verdict(b, n # BadName, "Table") = "Ok"
    <2>1. n \in Tables
      BY <1>3 DEF Verdict
    <2>2. PICK tok \in Tokens : tok = [k |-> "table", name |-> n]
      BY <2>1 DEF Tokens
    <2>3. Written(b, tok, "TableWritten").output = Append(b.output, tok)
          /\ Written(b, tok, "TableWritten") \in Buffers
      BY <1>1, WrittenFields DEF OpCases
    <2>4. r.buf.output = Append(b.output, tok) /\ r.res = "Ok"
      BY <1>3, <2>2, <2>3 DEF table, Ok, Buffers
    <2>5. LooseGrammar(r.buf.output)
      BY TableSound DEF Sound, Good
    <2> QED
      BY <1>1, <2>2, <2>4, <2>5, PieceWellFormed DEF Contained
  <1> QED
    BY <1>2, <1>3

\* symbol() pushes one piece, or none.
LEMMA SymbolContained ==
    ASSUME NEW b, Good(b), NEW named \in BOOLEAN
    PROVE  Contained(b, symbol(b, named))
  <1> DEFINE r == symbol(b, named)
  <1>1. b \in Buffers /\ b.output \in Seq(Tokens)
    BY DEF Good, Buffers
  <1>2. CASE Verdict(b, named, "Symbol") # "Ok"
    BY <1>2, SameContained DEF symbol, Err
  <1>3. CASE Verdict(b, named, "Symbol") = "Ok"
    <2>1. PICK tok \in Tokens : tok = [k |-> "symbol"]
      BY DEF Tokens
    <2>2. r.buf.output = Append(b.output, tok) /\ r.res = "Ok"
      BY <1>1, <1>3, <2>1, WrittenFields DEF symbol, Ok, OpCases
    <2>3. LooseGrammar(r.buf.output)
      BY SymbolSound DEF Sound, Good
    <2> QED
      BY <1>1, <2>1, <2>2, <2>3, PieceWellFormed DEF Contained
  <1> QED
    BY <1>2, <1>3

\* The key of a column is one piece; a refusal pushes none.
LEMMA KeyPushed ==
    ASSUME NEW b, Good(b), NEW named \in BOOLEAN
    PROVE  LET r == write_column_key(b, named) IN
           /\ r.res # "Ok" => r.buf = b
           /\ r.res = "Ok" => \E key \in Tokens :
                                /\ key.k = "key"
                                /\ r.buf.output = Append(b.output, key)
                                /\ r.buf.marker = b.marker
                                /\ r.buf.state.op_case = "ColumnWritten"
                                /\ r.buf.state.row_count = b.state.row_count
                                /\ check_op(b, "Column")
  <1> DEFINE r   == write_column_key(b, named)
             key == [k |-> "key", sep |-> IF check_op(b, "Symbol") THEN " " ELSE ","]
  <1>1. key \in Tokens /\ key.k = "key"
    BY DEF Tokens
  <1>2. b \in Buffers
    BY DEF Good
  <1>3. CASE Verdict(b, named, "Column") = "Ok"
    <2>1. r.res = "Ok" /\ r.buf = Written(b, key, "ColumnWritten")
      BY <1>3 DEF write_column_key, Ok
    <2> HIDE DEF key, r
    <2>2. /\ r.buf.output = Append(b.output, key) /\ r.buf.marker = b.marker
          /\ r.buf.state.op_case = "ColumnWritten"
          /\ r.buf.state.row_count = b.state.row_count
      BY <1>1, <1>2, <2>1, WrittenFields DEF OpCases
    <2>3. check_op(b, "Column")
      BY <1>3 DEF Verdict
    <2> QED
      BY <1>1, <2>1, <2>2, <2>3 DEF r
  <1>4. CASE Verdict(b, named, "Column") # "Ok"
    BY <1>4 DEF write_column_key, Err
  <1> QED
    BY <1>3, <1>4

\* A column whose value is written is contained.
LEMMA ValueContained ==
    ASSUME NEW b, Good(b), NEW named \in BOOLEAN, NEW val \in Tokens,
           val.k \in {"value", "micros"}
    PROVE  Contained(b, WithValue(write_column_key(b, named), val))
  <1> DEFINE k == write_column_key(b, named)
             r == WithValue(k, val)
  <1>1. b.output \in Seq(Tokens)
    BY DEF Good, Buffers
  <1>2. CASE k.res # "Ok"
    <2>1. r = k /\ k.buf = b
      BY <1>2, KeyPushed DEF WithValue
    <2> QED
      BY <2>1, SameContained
  <1>3. CASE k.res = "Ok"
    <2>1. PICK key \in Tokens : k.buf.output = Append(b.output, key)
      BY <1>3, KeyPushed
    <2>2. k.buf \in Buffers
      BY KeySound DEF Sound, Good
    <2>3. r.res = "Ok" /\ r.buf = Push(k.buf, val)
      BY <1>3 DEF WithValue, Ok
    <2>4. r.buf.output = Append(Append(b.output, key), val)
      BY <2>1, <2>2, <2>3, PushFields
    <2>5. LooseGrammar(r.buf.output)
      BY ValueSound DEF Sound, Good
    <2> HIDE DEF k, r
    <2> QED
      BY <1>1, <2>3, <2>4, <2>5, ColumnWellFormed DEF Contained, r, k
  <1> QED
    BY <1>2, <1>3

\* column() writes a key and its value, or nothing.
LEMMA ColumnContained ==
    ASSUME NEW b, Good(b), NEW named \in BOOLEAN
    PROVE  Contained(b, column(b, named))
  <1>1. [k |-> "value"] \in Tokens
    BY DEF Tokens
  <1> QED
    BY <1>1, ValueContained DEF column

\* column_ts() may leave a key behind, but then it fails.
LEMMA ColumnTsContained ==
    ASSUME NEW b, Good(b), NEW named \in BOOLEAN, NEW ts \in SUBSET Timestamps
    PROVE  Contained(b, column_ts(b, named, ts))
  <1> DEFINE k == write_column_key(b, named)
             r == column_ts(b, named, ts)
             t == CHOOSE x \in ts : TRUE
  <1>1. CASE k.res = "Ok" /\ ts = {}
    <2>1. r.buf = k.buf /\ r.res = "InvalidTimestamp"
      BY <1>1 DEF column_ts, Err
    <2>2. PICK key \in Tokens : /\ key.k = "key"
                                /\ k.buf.output = Append(b.output, key)
                                /\ k.buf.marker = b.marker
      BY <1>1, KeyPushed
    <2>3. b.output \in Seq(Tokens)
      BY DEF Good, Buffers
    <2>4. /\ Len(b.output) <= Len(Append(b.output, key))
          /\ b.output = SubSeq(Append(b.output, key), 1, Len(b.output))
      BY <2>3
    <2>5. Rows(Append(b.output, key)) = Rows(b.output)
      BY <2>2, <2>3, RowsAppend
    <2> HIDE DEF r, k
    <2> QED
      BY <2>1, <2>2, <2>4, <2>5 DEF Contained, r, k
  <1>2. CASE k.res # "Ok"
    <2>1. r = k /\ k.buf = b
      BY <1>2, KeyPushed DEF column_ts, WithValue
    <2> QED
      BY <2>1, SameContained
  <1>3. CASE k.res = "Ok" /\ ts # {}
    <2>1. t \in Timestamps
      BY <1>3
    <2>2. [k |-> "micros", v |-> as_micros(t)] \in Tokens
      BY <2>1, MicrosInI64 DEF Tokens
    <2>3. r = WithValue(k, [k |-> "micros", v |-> as_micros(t)])
      BY <1>3 DEF column_ts
    <2> QED
      BY <2>2, <2>3, ValueContained
  <1> QED
    BY <1>1, <1>2, <1>3

\* The end of a row, after a timestamp or at once.
LEMMA EndRowWellFormed ==
    ASSUME NEW b \in Buffers, WellFormed(b.output), LooseGrammar(EndRow(b).output)
    PROVE  WellFormed(EndRow(b).output)
  <1>1. PICK tok \in Tokens : tok = [k |-> "nl"]
    BY DEF Tokens
  <1>2. b.output \in Seq(Tokens)
    BY DEF Buffers
  <1>3. /\ Written(b, tok, "MayFlushOrTable") \in Buffers
        /\ Written(b, tok, "MayFlushOrTable").output = Append(b.output, tok)
    BY WrittenFields DEF OpCases
  <1>4. EndRow(b).output = Append(b.output, tok)
    BY <1>1, <1>3 DEF EndRow, Buffers
  <1> QED
    BY <1>1, <1>2, <1>4, PieceWellFormed

\* at_now() ends the row, or does nothing.
LEMMA AtNowContained ==
    ASSUME NEW b, Good(b)
    PROVE  Contained(b, at_now(b))
  <1>1. CASE check_op(b, "At")
    <2>1. at_now(b).buf = EndRow(b) /\ at_now(b).res = "Ok"
      BY <1>1 DEF at_now, Ok
    <2>2. b \in Buffers /\ LooseGrammar(EndRow(b).output)
      BY <2>1, AtNowSound DEF Sound, Good
    <2> QED
      BY <2>1, <2>2, EndRowWellFormed DEF Contained
  <1>2. CASE ~check_op(b, "At")
    BY <1>2, SameContained DEF at_now, Err
  <1> QED
    BY <1>1, <1>2

\* at() writes the timestamp and ends the row, or does nothing.
LEMMA AtContained ==
    ASSUME NEW b, Good(b), NEW ts \in SUBSET Timestamps
    PROVE  Contained(b, at(b, ts))
  <1> DEFINE nanos == UNION {as_nanos(t) : t \in ts}
  <1>1. CASE ~check_op(b, "At") \/ nanos = {} \/ \E n \in nanos : n < 0
    BY <1>1, SameContained DEF at, Err
  <1>2. CASE check_op(b, "At") /\ ~(nanos = {} \/ \E n \in nanos : n < 0)
    <2>1. nanos \subseteq I64
      BY DEF as_nanos, micros_to_nanos, Timestamps
    <2>2. PICK tok \in Tokens : tok = [k |-> "ts", v |-> CHOOSE n \in nanos : TRUE]
      BY <1>2, <2>1 DEF Tokens
    <2> DEFINE p == Push(b, tok)
    <2>3. at(b, ts).buf = EndRow(p) /\ at(b, ts).res = "Ok"
      BY <1>2, <2>2 DEF at, Ok
    <2> HIDE DEF nanos
    <2>4. /\ b \in Buffers /\ b.output \in Seq(Tokens)
          /\ p \in Buffers /\ p.output = Append(b.output, tok)
      BY PushFields DEF Good, Buffers
    <2>5. LooseGrammar(EndRow(p).output)
      BY <2>3, AtSound DEF Sound, Good
    <2>6. /\ b.output # <<>>
          /\ b.output[Len(b.output)].k \in {"symbol", "key", "value", "micros"}
      BY <1>2, LastPiece
    <2>7. LooseGrammar(p.output)
      <3>1. LooselyFollows(b.output[Len(b.output)], tok)
        BY <2>2, <2>6 DEF LooselyFollows, Follows
      <3> QED
        BY <2>4, <2>6, <3>1, GrammarAppend DEF Good
    <2>8. WellFormed(b.output) => WellFormed(p.output)
      BY <2>2, <2>4, <2>7, PieceWellFormed
    <2> HIDE DEF p
    <2> QED
      BY <2>3, <2>4, <2>5, <2>8, EndRowWellFormed DEF Contained
  <1> QED
    BY <1>1, <1>2

-----------------------------------------------------------------------------
(***************************************************************************)
(* The marker: the state saved in it is that of the text before it.        *)
(***************************************************************************)
Marked(b) ==
    \A m \in b.marker :
      /\ m.position <= Len(b.output)
      /\ Describes(m.state, SubSeq(b.output, 1, m.position))

\* A marker holds a position in the text and a state.
LEMMA MarkerFields ==
    ASSUME NEW b, Good(b), Marked(b), NEW m \in b.marker
    PROVE  m.position \in 0 .. Len(b.output) /\ m.state \in BufferStates
  <1>1. m \in Markers /\ b.output \in Seq(Tokens)
    BY DEF Good, Buffers
  <1>2. m.position \in Nat /\ m.state \in BufferStates
    BY <1>1 DEF Markers
  <1>3. m.position <= Len(b.output)
    BY DEF Marked
  <1> QED
    BY <1>1, <1>2, <1>3

\* A call that only adds text leaves what the marker stands for.
LEMMA GrownMarked ==
    ASSUME NEW b, NEW c, Good(b), Marked(b), Good(c), Grown(b, c)
    PROVE  Marked(c)
  <1>1. /\ Len(b.output) \in Nat /\ Len(c.output) \in Nat
        /\ Len(b.output) <= Len(c.output) /\ c.marker = b.marker
    BY DEF Good, Buffers, Grown
  <1>2. ASSUME NEW m \in c.marker
        PROVE  /\ m.position <= Len(c.output)
               /\ Describes(m.state, SubSeq(c.output, 1, m.position))
    <2>1. m \in b.marker /\ m.position \in 0 .. Len(b.output)
      BY <1>1, MarkerFields
    <2>2. SubSeq(c.output, 1, m.position) = SubSeq(b.output, 1, m.position)
      BY <2>1 DEF Grown
    <2>3. Describes(m.state, SubSeq(c.output, 1, m.position))
      BY <2>1, <2>2 DEF Marked
    <2>4. m.position <= Len(c.output)
      BY <1>1, <2>1
    <2> QED
      BY <2>3, <2>4
  <1> QED
    BY <1>2 DEF Marked

\* The empty text is described by the new state.
LEMMA NewBufferGood == Good(NewBuffer) /\ Marked(NewBuffer)
  <1>1. NewBuffer \in Buffers
    BY DEF NewBuffer, NewState, Buffers, BufferStates, OpCases, IsOption
  <1>2. Rows(<<>>) = {} /\ TableNames(<<>>) = {}
    BY DEF Rows, TableNames
  <1>3. SingleTable(<<>>)
    BY <1>2 DEF SingleTable
  <1>4. Cardinality(Rows(<<>>)) = 0
    BY <1>2, FS_EmptySet
  <1>5. Describes(NewState, <<>>)
    BY <1>2, <1>3, <1>4 DEF Describes, NewState, CaseAfter
  <1>6. LooseGrammar(<<>>)
    BY DEF LooseGrammar
  <1> QED
    BY <1>1, <1>5, <1>6 DEF Good, Marked, NewBuffer, IsOption

\* set_marker() takes the whole text and its state, or nothing.
LEMMA SetMarkerGood ==
    ASSUME NEW b, Good(b), Marked(b)
    PROVE  Good(set_marker(b).buf) /\ Marked(set_marker(b).buf)
  <1> DEFINE c == set_marker(b).buf
             m == [position |-> Len(b.output), state |-> b.state]
  <1>1. CASE ~check_op(b, "Table")
    BY <1>1 DEF set_marker, Err
  <1>2. CASE check_op(b, "Table")
    <2>1. b \in Buffers /\ b.output \in Seq(Tokens) /\ b.state \in BufferStates
      BY DEF Good, Buffers
    <2>2. m \in Markers
      BY <2>1 DEF Markers
    <2>3. c = [b EXCEPT !.marker = {m}]
      BY <1>2 DEF set_marker, Ok
    <2>4. /\ c \in Buffers /\ c.marker = {m}
          /\ c.output = b.output /\ c.state = b.state
      BY <2>1, <2>2, <2>3 DEF Buffers
    <2>5. /\ SubSeq(b.output, 1, Len(b.output)) = b.output
          /\ Len(b.output) <= Len(b.output)
      BY <2>1
    <2>6. m.position = Len(b.output) /\ m.state = b.state
      OBVIOUS
    <2> HIDE DEF c, m
    <2>7. Marked(c)
      BY <2>4, <2>5, <2>6, Zenon DEF Marked, Good
    <2>8. Good(c)
      BY <2>4 DEF Good, IsOption
    <2> QED
      BY <2>7, <2>8 DEF c
  <1> QED
    BY <1>1, <1>2

\* rewind_to_marker() gives a good buffer back, without a marker.
LEMMA RewindGood ==
    ASSUME NEW b, Good(b), Marked(b)
    PROVE  Good(rewind_to_marker(b).buf) /\ Marked(rewind_to_marker(b).buf)
  <1> DEFINE c == rewind_to_marker(b).buf
             m == CHOOSE x \in b.marker : TRUE
  <1>1. CASE b.marker = {}
    BY <1>1 DEF rewind_to_marker, Err
  <1>2. CASE b.marker # {}
    <2>1. m \in b.marker
      BY <1>2
    <2>2. /\ c.output = SubSeq(b.output, 1, m.position)
          /\ c.state = m.state
          /\ c.marker = {}
          /\ c = [output |-> c.output, state |-> c.state, marker |-> c.marker]
      BY <1>2 DEF rewind_to_marker, Ok
    <2> HIDE DEF c, m
    <2>3. m.position \in 0 .. Len(b.output) /\ m.state \in BufferStates
      BY <2>1, MarkerFields
    <2>4. b.output \in Seq(Tokens) /\ SubSeq(b.output, 1, m.position) \in Seq(Tokens)
      BY <2>3 DEF Good, Buffers
    <2>5. c \in Buffers
      BY <2>2, <2>3, <2>4 DEF Buffers
    <2>6. Describes(c.state, c.output)
      BY <2>1, <2>2 DEF Marked
    <2>7. LooseGrammar(c.output)
      BY <2>2, <2>3, <2>4, GrammarPrefix DEF Good
    <2> QED
      BY <2>2, <2>5, <2>6, <2>7 DEF Good, Marked, IsOption, c
  <1> QED
    BY <1>1, <1>2
=============================================================================

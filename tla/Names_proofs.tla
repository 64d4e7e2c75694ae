---------------------------- MODULE Names_proofs ----------------------------
(***************************************************************************)
(* Theorems about modules Names and Escaping: which names are accepted,    *)
(* and that the unchecked writes fill the room that was made for them; and *)
(* about module MockServer, which splits a stream of escaped rows again.   *)
(***************************************************************************)
EXTENDS Names, MockServer, FiniteSetTheorems, FunctionTheorems, WellFoundedInduction, TLAPS

(***************************************************************************)
(* Induction, with a set of numbers for the property.                      *)
(***************************************************************************)
\* A set of natural numbers has a least one.
LEMMA LeastNumber ==
    ASSUME NEW T \in SUBSET Nat, T # {}
    PROVE  \E x \in T : \A y \in T : x <= y
  <1> DEFINE R == OpToRel(<, Nat)
  <1>1. IsWellFoundedOn(R, Nat)
    BY NatLessThanWellFounded
  <1>2. \A x, y \in Nat : y < x => <<y, x>> \in R
    BY DEF OpToRel
  <1> HIDE DEF R
  <1>3. PICK x \in T : \A y \in T : ~(<<y, x>> \in R)
    BY <1>1, WFMin
  <1>4. \A y \in T : ~(y < x)
    BY <1>2, <1>3
  <1>5. \A y \in T : x <= y
    BY <1>4
  <1> QED
    BY <1>5

\* A set with 0 and the successor of each of its numbers up to n.
LEMMA UpTo ==
    ASSUME NEW n \in Nat, NEW S, 0 \in S, \A k \in 0..(n - 1) : k \in S => k + 1 \in S
    PROVE  \A k \in 0..n : k \in S
  <1> DEFINE T == {k \in 0..n : k \notin S}
  <1> SUFFICES ASSUME T # {} PROVE FALSE
    OBVIOUS
  <1>1. T \in SUBSET Nat
    OBVIOUS
  <1>2. PICK x \in T : \A y \in T : x <= y
    BY <1>1, LeastNumber
  <1>3. x \in 0..n /\ x \notin S /\ x # 0
    OBVIOUS
  <1>4. x - 1 \in 0..(n - 1) /\ x - 1 \notin T
    BY <1>2, <1>3
  <1>5. x - 1 \in S
    BY <1>3, <1>4
  <1>6. (x - 1) + 1 \in S
    BY <1>4, <1>5
  <1> QED
    BY <1>3, <1>6

-----------------------------------------------------------------------------
(***************************************************************************)
(* The bytes of a name.                                                    *)
(***************************************************************************)
\* f is what FlattenSeq computes of the first parts of s.
Flattens(f, s, n) ==
    f = [i \in 1..n |-> IF i = 1 THEN s[i] ELSE f[i - 1] \o s[i]]

\* There is such a function.
LEMMA FlattensExists ==
    ASSUME NEW s, NEW n \in Nat
    PROVE  \E f : Flattens(f, s, n)
  <1> DEFINE S == {k \in Nat : \E f : Flattens(f, s, k)}
  <1>1. 0 \in S
    <2> DEFINE f == [i \in 1..0 |-> <<>>]
    <2>1. Flattens(f, s, 0)
      BY DEF Flattens
    <2> QED
      BY <2>1
  <1>2. ASSUME NEW k \in 0..(n - 1), k \in S PROVE k + 1 \in S
    <2>1. PICK f : Flattens(f, s, k)
      BY <1>2
    <2> DEFINE g == [i \in 1..(k + 1) |-> IF i <= k THEN f[i] ELSE IF i = 1 THEN s[i] ELSE f[k] \o s[i]]
               h == [i \in 1..(k + 1) |-> IF i = 1 THEN s[i] ELSE g[i - 1] \o s[i]]
    <2>2. \A i \in 1..k : f[i] = IF i = 1 THEN s[i] ELSE f[i - 1] \o s[i]
      BY <2>1 DEF Flattens
    <2>3. \A i \in 1..k : g[i] = f[i]
      OBVIOUS
    <2>4. g[k + 1] = IF k + 1 = 1 THEN s[k + 1] ELSE f[k] \o s[k + 1]
      OBVIOUS
    <2>5. g = [i \in 1..(k + 1) |-> g[i]]
      OBVIOUS
    <2> HIDE DEF g
    <2>6. \A i \in 1..(k + 1) : g[i] = IF i = 1 THEN s[i] ELSE g[i - 1] \o s[i]
      <3> SUFFICES ASSUME NEW i \in 1..(k + 1)
                   PROVE  g[i] = IF i = 1 THEN s[i] ELSE g[i - 1] \o s[i]
        OBVIOUS
      <3>1. CASE i <= k
        BY <2>2, <2>3, <3>1
      <3>2. CASE i = k + 1
        BY <2>3, <2>4, <3>2
      <3> QED
        BY <3>1, <3>2
    <2>7. Flattens(g, s, k + 1)
      BY <2>5, <2>6 DEF Flattens
    <2> QED
      BY <2>7
  <1> HIDE DEF S
  <1>3. n \in S
    BY <1>1, <1>2, UpTo
  <1> QED
    BY <1>3 DEF S

\* FlattenSeq is the last of its values.
LEMMA FlattenIs ==
    ASSUME NEW s, NEW n \in Nat, n # 0, Len(s) = n
    PROVE  \E f : Flattens(f, s, n) /\ FlattenSeq(s) = f[n]
  <1> DEFINE f == CHOOSE f : Flattens(f, s, n)
  <1>1. Flattens(f, s, n)
    BY FlattensExists
  <1>2. FlattenSeq(s) = f[n]
    BY DEF FlattenSeq, Flattens
  <1> QED
    BY <1>1, <1>2

\* The bytes that a name or a value may have; Uninit is none of them.
AnyByte == Chars \cup Bytes \cup {"u1", "u2", "m1", "m2", "m3"}

LongChars == {"umlaut", "bom"}

\* A character is one byte or more.
LEMMA EncodedFacts ==
    ASSUME NEW c \in Chars
    PROVE  /\ Encoded(c) \in Seq(AnyByte)
           /\ Len(Encoded(c)) \in Nat
           /\ c \notin LongChars => Len(Encoded(c)) = 1
           /\ c \in LongChars => Len(Encoded(c)) > 1
  <1>1. CASE c = "umlaut"
    BY <1>1 DEF Encoded, AnyByte, LongChars
  <1>2. CASE c = "bom"
    BY <1>2 DEF Encoded, AnyByte, LongChars
  <1>3. CASE c \notin LongChars
    <2>1. Encoded(c) = <<c>>
      BY <1>3 DEF Encoded, LongChars
    <2>2. c \in AnyByte
      BY DEF AnyByte
    <2>3. <<c>> \in Seq(AnyByte) /\ Len(<<c>>) = 1
      BY <2>2
    <2> QED
      BY <1>3, <2>1, <2>3
  <1> QED
    BY <1>1, <1>2, <1>3 DEF LongChars

\* The bytes of the first k characters of s, counted: at least k, and more if
\* and only if one of them is long.
CountedBytes(t, s, k) ==
    /\ t \in Seq(AnyByte) /\ Len(t) >= k
    /\ Len(t) = k <=> \A i \in 1..k : s[i] \notin LongChars

\* A name has at least as many bytes as characters, and more if one is long.
LEMMA BytesFacts ==
    ASSUME NEW s \in Seq(Chars)
    PROVE  CountedBytes(bytes(s), s, Len(s))
  <1> DEFINE n == Len(s)
             e == [i \in 1..n |-> Encoded(s[i])]
  <1>1. n \in Nat /\ \A i \in 1..n : s[i] \in Chars
    OBVIOUS
  <1>2. Len(e) = n /\ bytes(s) = FlattenSeq(e) /\ \A i \in 1..n : e[i] = Encoded(s[i])
    BY <1>1 DEF bytes
  <1> HIDE DEF n, e
  <1>3. CASE n = 0
    <2>1. FlattenSeq(e) = e
      BY <1>2, <1>3 DEF FlattenSeq
    <2>2. e = <<>>
      BY <1>3 DEF e
    <2>3. bytes(s) = <<>>
      BY <1>2, <2>1, <2>2
    <2> QED
      BY <1>3, <2>3 DEF CountedBytes, n
  <1>4. CASE n # 0
    <2>1. PICK f : Flattens(f, e, n) /\ FlattenSeq(e) = f[n]
      BY <1>1, <1>2, <1>4, FlattenIs
    <2>2. \A i \in 1..n : f[i] = IF i = 1 THEN e[i] ELSE f[i - 1] \o e[i]
      BY <2>1 DEF Flattens
    <2> DEFINE S == {k \in Nat : k # 0 => CountedBytes(f[k], s, k)}
    <2>3. ASSUME NEW k \in 0..(n - 1), k # 0 => CountedBytes(f[k], s, k)
          PROVE  CountedBytes(f[k + 1], s, k + 1)
      <3>1. k + 1 \in 1..n /\ s[k + 1] \in Chars /\ k \in Nat
        BY <1>1
      <3> DEFINE e1 == Encoded(s[k + 1])
                 long == s[k + 1] \in LongChars
      <3>2. /\ e1 \in Seq(AnyByte)
            /\ Len(e1) \in Nat
            /\ ~long => Len(e1) = 1
            /\ long => Len(e1) > 1
        BY <3>1, EncodedFacts
      <3>3. e[k + 1] = e1
        BY <1>2, <3>1
      <3>4. (\A i \in 1..(k + 1) : s[i] \notin LongChars)
                <=> (\A i \in 1..k : s[i] \notin LongChars) /\ ~long
        BY <3>1
      <3> HIDE DEF e1, long
      <3>5. CASE k = 0
        <4>1. f[k + 1] = e1
          BY <2>2, <3>1, <3>3, <3>5
        <4>2. Len(e1) >= k + 1 /\ (Len(e1) = k + 1 <=> ~long)
          <5> DEFINE b == Len(e1)
          <5>1. b \in Nat /\ (~long => b = 1) /\ (long => b > 1)
            BY <3>2
          <5> HIDE DEF b
          <5>2. b >= 1 /\ (b = 1 <=> ~long)
            BY <5>1
          <5> QED
            BY <3>5, <5>2 DEF b
        <4>3. \A i \in 1..k : s[i] \notin LongChars
          BY <3>5
        <4> QED
          BY <3>2, <3>4, <4>1, <4>2, <4>3 DEF CountedBytes
      <3>6. CASE k # 0
        <4>1. f[k + 1] = f[k] \o e1
          <5>1. k + 1 # 1 /\ (k + 1) - 1 = k
            BY <3>1, <3>6
          <5> QED
            BY <2>2, <3>1, <3>3, <5>1
        <4>2. /\ f[k] \in Seq(AnyByte) /\ Len(f[k]) >= k
              /\ Len(f[k]) = k <=> \A i \in 1..k : s[i] \notin LongChars
          BY <2>3, <3>6 DEF CountedBytes
        <4>3. f[k] \o e1 \in Seq(AnyByte) /\ Len(f[k] \o e1) = Len(f[k]) + Len(e1)
          BY <3>2, <4>2
        <4>4. Len(f[k]) \in Nat
          BY <4>2
        <4>5. /\ Len(f[k]) + Len(e1) >= k + 1
              /\ Len(f[k]) + Len(e1) = k + 1 <=> Len(f[k]) = k /\ ~long
          <5> DEFINE a == Len(f[k])
                     b == Len(e1)
          <5>1. /\ k \in Nat /\ a \in Nat /\ b \in Nat /\ a >= k
                /\ (~long => b = 1) /\ (long => b > 1)
            BY <3>1, <3>2, <4>2, <4>4
          <5> HIDE DEF a, b
          <5>2. a + b >= k + 1 /\ (a + b = k + 1 <=> a = k /\ ~long)
            BY <5>1
          <5> QED
            BY <5>2 DEF a, b
        <4> QED
          BY <3>4, <4>1, <4>2, <4>3, <4>5 DEF CountedBytes
      <3> QED
        BY <3>5, <3>6
    <2>4. 0 \in S
      OBVIOUS
    <2>5. \A k \in 0..(n - 1) : k \in S => k + 1 \in S
      <3> SUFFICES ASSUME NEW k \in 0..(n - 1), k \in S PROVE k + 1 \in S
        OBVIOUS
      <3>1. k + 1 \in Nat
        BY <1>1
      <3> QED
        BY <2>3, <3>1
    <2> HIDE DEF S
    <2>6. n \in S
      <3>1. \A k \in 0..n : k \in S
        BY <1>1, <2>4, <2>5, UpTo
      <3> QED
        BY <1>1, <3>1
    <2> QED
      BY <1>2, <1>4, <2>1, <2>6 DEF S, n
  <1> QED
    BY <1>3, <1>4

-----------------------------------------------------------------------------
(***************************************************************************)
(* The bytes that are escaped.                                             *)
(***************************************************************************)
Special(q, c) == IF q THEN c \in {"nl", "bs", "quote"} ELSE c \in {"space", "equals", "nl", "bs"}

\* Those of the first k bytes of t.
Hits(q, t, k) == {i \in 1..k : Special(q, t[i])}

NHits(q, t, k) == Cardinality(Hits(q, t, k))

\* Their number.
LEMMA HitFacts ==
    ASSUME NEW q, NEW t, NEW k \in Nat
    PROVE  /\ NHits(q, t, k) \in Nat
           /\ NHits(q, t, 0) = 0
           /\ NHits(q, t, k + 1) = NHits(q, t, k) + (IF Special(q, t[k + 1]) THEN 1 ELSE 0)
           /\ \A m \in Nat : k <= m => NHits(q, t, k) <= NHits(q, t, m)
  <1>1. ASSUME NEW m \in Nat PROVE IsFiniteSet(Hits(q, t, m))
    <2>1. IsFiniteSet(1..m)
      BY FS_Interval
    <2>2. Hits(q, t, m) \subseteq 1..m
      BY DEF Hits
    <2> QED
      BY <2>1, <2>2, FS_Subset
  <1>2. NHits(q, t, k) \in Nat
    BY <1>1, FS_CardinalityType DEF NHits
  <1>3. Hits(q, t, 0) = {}
    BY DEF Hits
  <1>4. NHits(q, t, 0) = 0
    BY <1>3, FS_EmptySet DEF NHits
  <1>5. Hits(q, t, k + 1) = Hits(q, t, k) \cup (IF Special(q, t[k + 1]) THEN {k + 1} ELSE {})
    BY DEF Hits
  <1>6. k + 1 \notin Hits(q, t, k)
    BY DEF Hits
  <1>7. NHits(q, t, k + 1) = NHits(q, t, k) + (IF Special(q, t[k + 1]) THEN 1 ELSE 0)
    <2>1. CASE Special(q, t[k + 1])
      <3>1. Hits(q, t, k + 1) = Hits(q, t, k) \cup {k + 1}
        BY <1>5, <2>1
      <3>2. Cardinality(Hits(q, t, k) \cup {k + 1}) = Cardinality(Hits(q, t, k)) + 1
        BY <1>1, <1>6, FS_AddElement
      <3> QED
        BY <2>1, <3>1, <3>2 DEF NHits
    <2>2. CASE ~Special(q, t[k + 1])
      <3>1. Hits(q, t, k + 1) = Hits(q, t, k)
        BY <1>5, <2>2
      <3> QED
        BY <1>2, <2>2, <3>1 DEF NHits
    <2> QED
      BY <2>1, <2>2
  <1>8. ASSUME NEW m \in Nat, k <= m PROVE NHits(q, t, k) <= NHits(q, t, m)
    <2>1. Hits(q, t, k) \subseteq Hits(q, t, m)
      BY <1>8 DEF Hits
    <2> QED
      BY <1>1, <2>1, FS_Subset DEF NHits
  <1> QED
    BY <1>2, <1>4, <1>7, <1>8

-----------------------------------------------------------------------------
(***************************************************************************)
(* The room that write_escaped_impl makes.                                 *)
(***************************************************************************)
\* The bytes written when the first k of the text are.
Used(k) == 1 + Len(Quote) + k + NHits(quoted, text, k)

NoneUninit(s, n) == \A i \in 1..n : s[i] # Uninit

TextInv == quoted \in BOOLEAN /\ text \in Seq(AnyByte)

PcInv == pc \in {"refused", "validate", "count", "fill", "done"}

\* The first loop counts, and writes nothing.
CountInv ==
    /\ pc \in {"validate", "count"} =>
         /\ output = Before /\ read \in 0..Len(text)
         /\ to_escape = NHits(quoted, text, read)
    /\ pc = "validate" => text = <<>> /\ read = 0

\* The second has written as far as index, and the rest of the text will end
\* where the room does.
FillInv ==
    pc = "fill" =>
      /\ output \in Seq(AnyByte \cup {Uninit})
      /\ read \in 0..Len(text)
      /\ Len(output) = Used(Len(text))
      /\ index = Used(read) + 1
      /\ NoneUninit(output, Used(read))

DoneInv == pc = "done" => NoneUninit(output, Len(output))

RoomInv == TextInv /\ PcInv /\ CountInv /\ FillInv /\ DoneInv

-----------------------------------------------------------------------------
(***************************************************************************)
(* The loop of TableName::new and ColumnName::new.                         *)
(***************************************************************************)
\* The character at i passes.
Passes(i) ==
    /\ ~CharRefused(name[i])
    /\ kind = "table" /\ name[i] = "dot" =>
         i # 1 /\ i # Len(bytes(name)) /\ name[i - 1] # "dot"

AcceptInv ==
    /\ kind \in {"table", "column", "value"}
    /\ kind = "value" => pc \notin {"validate", "refused"}
    /\ kind # "value" =>
         /\ name \in Seq(Chars)
         /\ char_index \in 0..Len(name)
         /\ prev = IF char_index = 0 THEN "nul" ELSE name[char_index]
         /\ \A i \in 1..char_index : Passes(i)
         /\ pc = "refused" => ~Acceptable
         /\ pc # "refused" => name # <<>>
         /\ pc \in {"count", "fill", "done"} => char_index = Len(name)

\* A string is a sequence.
LEMMA StringsAreSeqs ==
    ASSUME NEW A, NEW n \in Nat, NEW s \in Strings(A, n)
    PROVE  s \in Seq(A)
  <1>1. PICK k \in 0..n : s \in [1..k -> A]
    BY DEF Strings
  <1> QED
    BY <1>1

LEMMA QuoteFacts ==
    /\ Quote \in Seq(AnyByte) /\ Len(Quote) \in Nat
    /\ \A i \in 1..Len(Quote) : Quote[i] # Uninit
  <1>1. CASE quoted
    <2>1. Quote = <<"quote">>
      BY <1>1 DEF Quote
    <2>2. "quote" \in AnyByte /\ "quote" # Uninit
      BY DEF AnyByte, Bytes, Uninit
    <2> QED
      BY <2>1, <2>2
  <1>2. CASE ~quoted
    <2>1. Quote = <<>>
      BY <1>2 DEF Quote
    <2> QED
      BY <2>1
  <1> QED
    BY <1>1, <1>2

LEMMA NotUninit == Uninit \notin AnyByte
  BY DEF Uninit, AnyByte, Chars, Bytes

\* must_escape is Special, which depends on quoted by its argument.
LEMMA MustEscape == \A c : must_escape(c) <=> Special(quoted, c)
  BY DEF must_escape, Special

LEMMA RoomInit == Init => RoomInv
  <1> SUFFICES ASSUME Init PROVE RoomInv
    OBVIOUS
  <1>1. text \in Seq(AnyByte) /\ quoted \in BOOLEAN /\ output = Before /\ read = 0 /\ to_escape = 0
    <2>1. CASE kind # "value"
      <3>1. text = <<>> /\ quoted = FALSE /\ output = Before /\ read = 0 /\ to_escape = 0
        BY <2>1 DEF Init
      <3>2. text \in Seq(AnyByte)
        BY <3>1
      <3>3. quoted \in BOOLEAN
        BY <3>1
      <3> QED
        BY <3>1, <3>2, <3>3
    <2>2. CASE kind = "value"
      <3>1. PICK t \in Strings(Bytes, MaxText), q \in BOOLEAN : Called(t, q)
        BY <2>2 DEF Init
      <3>2. t \in Seq(Bytes)
        BY LengthsAssumption, StringsAreSeqs
      <3>3. t \in Seq(AnyByte)
        BY <3>2 DEF AnyByte
      <3> QED
        BY <3>1, <3>3 DEF Called
    <2> QED
      BY <2>1, <2>2
  <1>2. pc \in {"refused", "validate", "count"} /\ (pc = "validate" => text = <<>>)
    BY DEF Init, Called
  <1>3. NHits(quoted, text, 0) = 0
    BY HitFacts
  <1>4. Len(text) \in Nat
    BY <1>1
  <1>5. CountInv
    BY <1>1, <1>2, <1>3, <1>4 DEF CountInv
  <1> QED
    BY <1>1, <1>2, <1>5 DEF RoomInv, TextInv, PcInv, FillInv, DoneInv

\* The bytes of a name are bytes.
LEMMA AcceptKeepsRoom ==
    ASSUME RoomInv, AcceptInv, Accept, kind # "value"
    PROVE  RoomInv'
  <1>1. name \in Seq(Chars)
    BY DEF AcceptInv
  <1>2. bytes(name) \in Seq(AnyByte)
    BY <1>1, BytesFacts DEF CountedBytes
  <1>3. /\ pc = "validate" /\ pc' = "count" /\ text' = bytes(name)
        /\ quoted' = quoted /\ output' = output /\ to_escape' = to_escape /\ read' = read
    BY DEF Accept
  <1>4. quoted \in BOOLEAN /\ output = Before /\ read = 0 /\ to_escape = 0
    BY <1>3, HitFacts DEF RoomInv, TextInv, CountInv
  <1>5. NHits(quoted', text', 0) = 0
    BY HitFacts
  <1>6. Len(text') \in Nat
    BY <1>2, <1>3
  <1>7. CountInv'
    BY <1>3, <1>4, <1>5, <1>6 DEF CountInv, Before
  <1> QED
    BY <1>2, <1>3, <1>4, <1>7 DEF RoomInv, TextInv, PcInv, FillInv, DoneInv

\* A byte counted.
LEMMA CountKeepsRoom ==
    ASSUME RoomInv, Count
    PROVE  RoomInv'
  <1>1. /\ pc = "count" /\ pc' = "count" /\ read < Len(text) /\ read' = read + 1
        /\ quoted' = quoted /\ text' = text /\ output' = output
        /\ to_escape' = IF must_escape(text[read + 1]) THEN to_escape + 1 ELSE to_escape
    BY DEF Count
  <1>2. output = Before /\ read \in 0..Len(text) /\ to_escape = NHits(quoted, text, read)
    BY <1>1 DEF RoomInv, CountInv
  <1>3. Len(text) \in Nat
    BY DEF RoomInv, TextInv
  <1>4. read \in Nat /\ read + 1 \in 0..Len(text)
    BY <1>1, <1>2, <1>3
  <1>5. /\ NHits(quoted, text, read) \in Nat
        /\ NHits(quoted, text, read + 1)
             = NHits(quoted, text, read) + (IF Special(quoted, text[read + 1]) THEN 1 ELSE 0)
    BY <1>4, HitFacts
  <1>6. to_escape' = NHits(quoted, text, read + 1)
    BY <1>1, <1>2, <1>5, MustEscape
  <1>7. to_escape' = NHits(quoted', text', read') /\ read' \in 0..Len(text') /\ output' = Before
    BY <1>1, <1>2, <1>4, <1>6
  <1>8. CountInv'
    BY <1>1, <1>7 DEF CountInv, Before
  <1> QED
    BY <1>1, <1>8 DEF RoomInv, TextInv, PcInv, FillInv, DoneInv

\* No byte of a sequence of bytes is Uninit.
LEMMA BytesAreInit ==
    ASSUME NEW s \in Seq(AnyByte)
    PROVE  NoneUninit(s, Len(s))
  BY NotUninit DEF NoneUninit

LEMMA BeforeFacts == Before \in Seq(AnyByte) /\ Len(Before) = 1
  <1>1. "a" \in AnyByte
    BY DEF AnyByte, Chars
  <1> QED
    BY <1>1 DEF Before

\* The room grows with what is written, and its size is a number.
LEMMA UsedFacts ==
    ASSUME NEW k \in Nat
    PROVE  /\ Used(k) \in Nat
           /\ Used(0) = 1 + Len(Quote)
           /\ Used(k + 1) = Used(k) + (IF Special(quoted, text[k + 1]) THEN 2 ELSE 1)
           /\ \A m \in Nat : k <= m => Used(k) <= Used(m)
  <1> DEFINE l == Len(Quote)
             h(j) == NHits(quoted, text, j)
  <1>1. l \in Nat
    BY QuoteFacts
  <1>2. /\ h(k) \in Nat /\ h(0) = 0
        /\ h(k + 1) = h(k) + (IF Special(quoted, text[k + 1]) THEN 1 ELSE 0)
        /\ \A m \in Nat : k <= m => h(k) <= h(m)
    BY HitFacts
  <1>3. \A m \in Nat : h(m) \in Nat
    BY HitFacts
  <1>4. \A j : Used(j) = 1 + l + j + h(j)
    BY DEF Used
  <1> HIDE DEF l, h
  <1>5. Used(k) \in Nat
    BY <1>1, <1>2, <1>4
  <1>6. Used(0) = 1 + l
    BY <1>1, <1>2, <1>4
  <1>7. Used(k + 1) = Used(k) + (IF Special(quoted, text[k + 1]) THEN 2 ELSE 1)
    <2>1. CASE Special(quoted, text[k + 1])
      BY <1>1, <1>2, <1>4, <2>1
    <2>2. CASE ~Special(quoted, text[k + 1])
      BY <1>1, <1>2, <1>4, <2>2
    <2> QED
      BY <2>1, <2>2
  <1>8. ASSUME NEW m \in Nat, k <= m PROVE Used(k) <= Used(m)
    BY <1>1, <1>2, <1>3, <1>4, <1>8
  <1> QED
    BY <1>5, <1>6, <1>7, <1>8 DEF l

\* A sequence of two parts.
LEMMA ConcatIs ==
    ASSUME NEW A, NEW s \in Seq(A), NEW t \in Seq(A)
    PROVE  /\ s \o t \in Seq(A) /\ Len(s \o t) = Len(s) + Len(t)
           /\ \A i \in 1..Len(s) : (s \o t)[i] = s[i]
           /\ \A i \in (Len(s) + 1)..(Len(s) + Len(t)) : (s \o t)[i] = t[i - Len(s)]
  OBVIOUS

\* The text is measured: it is copied whole, or there is room for it.
LEMMA CountedKeepsRoom ==
    ASSUME RoomInv, Counted
    PROVE  RoomInv'
  <1>1. pc = "count" /\ read = Len(text) /\ read' = 0 /\ quoted' = quoted /\ text' = text
    BY DEF Counted
  <1>2. output = Before /\ to_escape = NHits(quoted, text, Len(text))
    BY <1>1 DEF RoomInv, CountInv
  <1>3. text \in Seq(AnyByte) /\ Len(text) \in Nat /\ quoted \in BOOLEAN
    BY DEF RoomInv, TextInv
  <1>4. NHits(quoted, text, Len(text)) \in Nat
    BY <1>3, HitFacts
  <1>5. Before \o Quote \in Seq(AnyByte) /\ Len(Before \o Quote) = 1 + Len(Quote)
    <2>1. Before \in Seq(AnyByte) /\ Quote \in Seq(AnyByte)
      BY BeforeFacts, QuoteFacts
    <2>2. Before \o Quote \in Seq(AnyByte) /\ Len(Before \o Quote) = Len(Before) + Len(Quote)
      BY <2>1, ConcatIs
    <2> QED
      BY <2>2, BeforeFacts
  <1>6. CASE to_escape = 0
    <2>1. output' = Before \o Quote \o text \o Quote /\ pc' = "done"
      BY <1>2, <1>6 DEF Counted
    <2>2. (Before \o Quote) \o text \in Seq(AnyByte)
      BY <1>3, <1>5
    <2>3. output' \in Seq(AnyByte)
      BY <2>1, <2>2, QuoteFacts
    <2>4. DoneInv'
      BY <2>3, BytesAreInit DEF DoneInv, NoneUninit
    <2> QED
      BY <1>1, <1>3, <2>1, <2>4 DEF RoomInv, TextInv, PcInv, CountInv, FillInv
  <1>7. CASE to_escape # 0
    <2> DEFINE b == Before \o Quote
               m == Len(text) + to_escape
               r == [i \in 1..m |-> Uninit]
    <2>1. output' = b \o r /\ index' = Len(b) + 1 /\ pc' = "fill"
      BY <1>2, <1>7 DEF Counted, Grow
    <2>2. m \in Nat
      BY <1>2, <1>3, <1>4
    <2>3. r \in Seq(AnyByte \cup {Uninit}) /\ Len(r) = m
      BY <2>2
    <2>4. b \in Seq(AnyByte \cup {Uninit}) /\ Len(b) = 1 + Len(Quote)
      BY <1>5
    <2>5. NoneUninit(b, Len(b))
      BY <1>5, BytesAreInit
    <2>6. m = Len(text) + NHits(quoted, text, Len(text))
      BY <1>2
    <2> HIDE DEF b, r, m
    <2>7. output' \in Seq(AnyByte \cup {Uninit}) /\ Len(output') = Len(b) + m
      BY <2>1, <2>3, <2>4, ConcatIs
    <2>8. \A i \in 1..Len(b) : output'[i] = b[i]
      BY <2>1, <2>3, <2>4
    <2>9. Len(b) = Used(0) /\ Used(0) \in Nat
      BY <2>4, UsedFacts
    <2>10. Len(b) + m = Used(Len(text))
      BY <1>3, <1>4, <2>4, <2>6, QuoteFacts DEF Used
    <2>11. Used(0)' = Used(0) /\ Used(Len(text))' = Used(Len(text)) /\ Used(read)' = Used(0)
      BY <1>1 DEF Used, Quote
    <2>12. NoneUninit(output', Used(0))
      BY <2>5, <2>8, <2>9 DEF NoneUninit
    <2>13. FillInv'
      BY <1>1, <1>3, <2>1, <2>7, <2>9, <2>10, <2>11, <2>12 DEF FillInv, NoneUninit
    <2> QED
      BY <1>1, <1>3, <2>1, <2>13 DEF RoomInv, TextInv, PcInv, CountInv, DoneInv
  <1> QED
    BY <1>6, <1>7

\* Put writes the bytes that it is given, inside of the room.
LEMMA PutWrites ==
    ASSUME NEW w \in Seq(AnyByte), NEW u \in Nat, index = u + 1,
           output \in Seq(AnyByte \cup {Uninit}), u + Len(w) <= Len(output),
           NoneUninit(output, u)
    PROVE  /\ Put(w) \in Seq(AnyByte \cup {Uninit})
           /\ Len(Put(w)) = Len(output)
           /\ NoneUninit(Put(w), u + Len(w))
  <1> DEFINE n == Len(output)
             l == Len(w)
  <1>1. n \in Nat /\ l \in Nat
    OBVIOUS
  <1>2. \A i \in 1..n : output[i] \in AnyByte \cup {Uninit}
    OBVIOUS
  <1>3. \A i \in 1..l : w[i] \in AnyByte
    OBVIOUS
  <1>4. Put(w) = [i \in 1..n |-> IF i \in (u + 1)..(u + l) THEN w[i - u] ELSE output[i]]
    <2>1. index + Len(w) - 1 = u + l
      BY <1>1
    <2>2. \A i \in 1..n : i - index + 1 = i - u
      BY <1>1
    <2> QED
      BY <2>1, <2>2 DEF Put
  <1> HIDE DEF n, l
  <1>5. \A i \in 1..n : Put(w)[i] = IF i \in (u + 1)..(u + l) THEN w[i - u] ELSE output[i]
    BY <1>4
  <1>6. \A i \in (u + 1)..(u + l) : i - u \in 1..l
    BY <1>1
  <1>7. \A i \in 1..n : Put(w)[i] \in AnyByte \cup {Uninit}
    BY <1>2, <1>3, <1>5, <1>6
  <1>8. Put(w) \in [1..n -> AnyByte \cup {Uninit}]
    BY <1>4, <1>7
  <1>9. Put(w) \in Seq(AnyByte \cup {Uninit}) /\ Len(Put(w)) = n
    BY <1>1, <1>8
  <1>10. NoneUninit(Put(w), u + l)
    <2> SUFFICES ASSUME NEW i \in 1..(u + l) PROVE Put(w)[i] # Uninit
      BY DEF NoneUninit
    <2>1. i \in 1..n
      BY <1>1 DEF n, l
    <2>2. CASE i \in (u + 1)..(u + l)
      <3>1. Put(w)[i] = w[i - u] /\ i - u \in 1..l
        BY <1>5, <1>6, <2>1, <2>2
      <3> QED
        BY <1>3, <3>1, NotUninit
    <2>3. CASE i \notin (u + 1)..(u + l)
      <3>1. i \in 1..u
        BY <1>1, <2>3
      <3> QED
        BY <1>5, <2>1, <2>3, <3>1 DEF NoneUninit
    <2> QED
      BY <2>2, <2>3
  <1> QED
    BY <1>9, <1>10 DEF n, l

\* A byte written, after its backslash if it needs one.
LEMMA FillKeepsRoom ==
    ASSUME RoomInv, Fill
    PROVE  RoomInv'
  <1> DEFINE c == text[read + 1]
             w == IF must_escape(c) THEN <<"bs", c>> ELSE <<c>>
  <1>1. /\ pc = "fill" /\ read < Len(text) /\ read' = read + 1
        /\ quoted' = quoted /\ text' = text
        /\ output' = Put(w) /\ index' = index + Len(w)
        /\ pc' = IF index + Len(w) - 1 > Len(output) THEN "undefined" ELSE pc
    BY DEF Fill
  <1>2. /\ output \in Seq(AnyByte \cup {Uninit})
        /\ read \in 0..Len(text) /\ Len(output) = Used(Len(text))
        /\ index = Used(read) + 1 /\ NoneUninit(output, Used(read))
    BY <1>1 DEF RoomInv, FillInv
  <1>3. text \in Seq(AnyByte) /\ Len(text) \in Nat /\ quoted \in BOOLEAN
    BY DEF RoomInv, TextInv
  <1>4. read \in Nat /\ read + 1 \in Nat /\ read + 1 \in 0..Len(text) /\ read + 1 \in 1..Len(text)
    BY <1>1, <1>2, <1>3
  <1>5. c \in AnyByte /\ "bs" \in AnyByte
    BY <1>3, <1>4 DEF AnyByte, Bytes
  <1>6. w \in Seq(AnyByte) /\ Len(w) = IF Special(quoted, c) THEN 2 ELSE 1
    <2>1. CASE must_escape(c)
      <3>1. w = <<"bs", c>>
        BY <2>1
      <3>2. <<"bs", c>> \in Seq(AnyByte) /\ Len(<<"bs", c>>) = 2
        BY <1>5
      <3> QED
        BY <2>1, <3>1, <3>2, MustEscape
    <2>2. CASE ~must_escape(c)
      <3>1. w = <<c>>
        BY <2>2
      <3>2. <<c>> \in Seq(AnyByte) /\ Len(<<c>>) = 1
        BY <1>5
      <3> QED
        BY <2>2, <3>1, <3>2, MustEscape
    <2> QED
      BY <2>1, <2>2
  <1> DEFINE u == Used(read)
             z == Used(read + 1)
  <1>7. /\ u \in Nat /\ z \in Nat /\ z = u + Len(w)
        /\ z <= Used(Len(text))
    <2> HIDE DEF w
    <2>1. u \in Nat /\ z = u + (IF Special(quoted, c) THEN 2 ELSE 1)
      BY <1>4, UsedFacts
    <2>2. z \in Nat /\ \A m \in Nat : read + 1 <= m => z <= Used(m)
      BY <1>4, UsedFacts
    <2>3. read + 1 <= Len(text)
      BY <1>4
    <2> HIDE DEF u, z, c
    <2> QED
      BY <1>3, <1>6, <2>1, <2>2, <2>3
  <1> HIDE DEF c, w
  <1>8. Len(w) \in Nat
    BY <1>6
  <1>9. u + Len(w) <= Len(output)
    BY <1>2, <1>7
  <1>10. /\ Put(w) \in Seq(AnyByte \cup {Uninit})
         /\ Len(Put(w)) = Len(output)
         /\ NoneUninit(Put(w), u + Len(w))
    BY <1>2, <1>6, <1>7, <1>9, PutWrites
  <1>11. Used(read)' = z /\ Used(Len(text))' = Used(Len(text))
    BY <1>1 DEF Used, Quote
  <1> HIDE DEF u, z
  <1>12. index = u + 1
    BY <1>2 DEF u
  <1>13. index + Len(w) = z + 1 /\ ~(index + Len(w) - 1 > Len(output))
    BY <1>2, <1>7, <1>8, <1>9, <1>12
  <1>14. pc' = "fill" /\ index' = z + 1
    BY <1>1, <1>13
  <1>15. FillInv'
    BY <1>1, <1>2, <1>4, <1>7, <1>10, <1>11, <1>14 DEF FillInv, NoneUninit
  <1> QED
    BY <1>1, <1>3, <1>14, <1>15 DEF RoomInv, TextInv, PcInv, CountInv, DoneInv

\* The text is written, and the room is full.
LEMMA FilledKeepsRoom ==
    ASSUME RoomInv, Filled
    PROVE  RoomInv'
  <1>1. /\ pc = "fill" /\ pc' = "done" /\ read = Len(text) /\ output' = output \o Quote
        /\ quoted' = quoted /\ text' = text
    BY DEF Filled
  <1>2. /\ output \in Seq(AnyByte \cup {Uninit})
        /\ NoneUninit(output, Len(output))
    BY <1>1 DEF RoomInv, FillInv
  <1>3. \A i \in 1..Len(output) : output[i] \in AnyByte
    BY <1>2 DEF NoneUninit
  <1>4. output \in Seq(AnyByte)
    BY <1>2, <1>3
  <1>5. output' \in Seq(AnyByte)
    BY <1>1, <1>4, QuoteFacts, ConcatIs
  <1>6. DoneInv'
    BY <1>5, BytesAreInit DEF DoneInv, NoneUninit
  <1> QED
    BY <1>1, <1>6 DEF RoomInv, TextInv, PcInv, CountInv, FillInv

-----------------------------------------------------------------------------
(***************************************************************************)
(* The loops accept what Acceptable says.                                  *)
(***************************************************************************)
\* The bytes of the name are not fewer than its characters, and as many only
\* if none is long.
LEMMA NameBytes ==
    ASSUME name \in Seq(Chars)
    PROVE  /\ Len(bytes(name)) \in Nat /\ Len(bytes(name)) >= Len(name)
           /\ Len(bytes(name)) = Len(name)
                <=> \A i \in 1..Len(name) : name[i] \notin LongChars
  BY BytesFacts DEF CountedBytes

\* A name whose characters all pass is acceptable.
LEMMA AllPass ==
    ASSUME name \in Seq(Chars), name # <<>>, kind \in {"table", "column"},
           \A i \in 1..Len(name) : Passes(i)
    PROVE  Acceptable
  <1>1. Len(name) \in Nat /\ Len(name) \in 1..Len(name) /\ 1 \in 1..Len(name)
    OBVIOUS
  <1>2. \A i \in 1..Len(name) : name[i] \notin {"bs", "bom"}
    BY DEF Passes, CharRefused
  <1>3. kind = "column" => \A i \in 1..Len(name) : name[i] \notin {"dot", "minus"}
    BY DEF Passes, CharRefused
  <1>4. ASSUME kind = "table"
        PROVE  /\ name[1] # "dot"
               /\ \A i \in 2..Len(name) : ~(name[i - 1] = "dot" /\ name[i] = "dot")
    BY <1>1, <1>4 DEF Passes
  <1>5. ASSUME kind = "table", name[Len(name)] = "dot"
        PROVE  \E i \in 1..Len(name) : name[i] = "umlaut"
    <2>1. Len(name) # Len(bytes(name))
      BY <1>1, <1>5 DEF Passes
    <2>2. PICK i \in 1..Len(name) : name[i] \in LongChars
      BY <2>1, NameBytes
    <2> QED
      BY <1>2, <2>2 DEF LongChars
  <1> QED
    BY <1>2, <1>3, <1>4, <1>5 DEF Acceptable

\* A name with a character that does not pass is not.
LEMMA OneFails ==
    ASSUME name \in Seq(Chars), kind \in {"table", "column"},
           NEW i \in 1..Len(name), ~Passes(i)
    PROVE  ~Acceptable
  <1>1. Len(name) \in Nat
    OBVIOUS
  <1>2. CASE CharRefused(name[i])
    BY <1>2 DEF CharRefused, Acceptable
  <1>3. CASE kind = "table" /\ name[i] = "dot" /\ i = 1
    BY <1>3 DEF Acceptable
  <1>4. CASE kind = "table" /\ name[i] = "dot" /\ i # 1 /\ name[i - 1] = "dot"
    <2>1. i \in 2..Len(name)
      BY <1>1, <1>4
    <2> QED
      BY <1>4, <2>1 DEF Acceptable
  <1>5. CASE kind = "table" /\ name[i] = "dot" /\ i = Len(bytes(name))
    <2>1. i = Len(name) /\ Len(bytes(name)) = Len(name)
      BY <1>1, <1>5, NameBytes
    <2>2. \A j \in 1..Len(name) : name[j] # "umlaut"
      BY <2>1, NameBytes DEF LongChars
    <2> QED
      BY <1>5, <2>1, <2>2 DEF Acceptable
  <1> QED
    BY <1>2, <1>3, <1>4, <1>5 DEF Passes

LEMMA AcceptInit == Init => AcceptInv
  <1> SUFFICES ASSUME Init PROVE AcceptInv
    OBVIOUS
  <1>1. kind \in {"table", "column", "value"} /\ char_index = 0 /\ prev = "nul"
    BY DEF Init
  <1>2. ASSUME kind # "value"
        PROVE  /\ name \in Strings(Chars, MaxName)
               /\ pc = IF name = <<>> THEN "refused" ELSE "validate"
    BY <1>2 DEF Init
  <1>3. ASSUME kind # "value"
        PROVE  name \in Seq(Chars) /\ char_index \in 0..Len(name)
    <2>1. name \in Seq(Chars)
      BY <1>2, <1>3, LengthsAssumption, StringsAreSeqs
    <2> QED
      BY <1>1, <2>1
  <1>4. name = <<>> => ~Acceptable
    BY DEF Acceptable
  <1>5. kind = "value" => pc = "count"
    BY DEF Init, Called
  <1> QED
    BY <1>1, <1>2, <1>3, <1>4, <1>5 DEF AcceptInv

\* Only Turn and Accept touch what the loop reads; the test of a turn is Passes.
LEMMA TurnKeepsAccept ==
    ASSUME AcceptInv, Turn, kind # "value"
    PROVE  AcceptInv'
  <1> DEFINE i == char_index + 1
  <1>1. pc = "validate" /\ char_index < Len(name) /\ kind' = kind /\ name' = name
    BY DEF Turn
  <1>2. /\ kind \in {"table", "column"} /\ name \in Seq(Chars) /\ char_index \in 0..Len(name)
        /\ prev = IF char_index = 0 THEN "nul" ELSE name[char_index]
        /\ \A j \in 1..char_index : Passes(j)
        /\ name # <<>>
    BY <1>1 DEF AcceptInv
  <1>3. Len(name) \in Nat /\ char_index \in Nat /\ i \in 1..Len(name)
    BY <1>1, <1>2
  <1>4. DotRefused(char_index, prev)
          <=> i = 1 \/ i = Len(bytes(name)) \/ name[i - 1] = "dot"
    <2>1. Len(bytes(name)) \in Nat
      BY <1>2, NameBytes
    <2>2. (char_index = 0 <=> i = 1)
            /\ (char_index = Len(bytes(name)) - 1 <=> i = Len(bytes(name)))
      BY <1>3, <2>1
    <2>3. i # 1 => prev = name[i - 1]
      BY <1>2, <1>3
    <2>4. i = 1 => DotRefused(char_index, prev)
      BY <2>2 DEF DotRefused
    <2>5. i # 1 => (prev = "dot" <=> name[i - 1] = "dot")
      BY <2>3
    <2> QED
      BY <2>2, <2>4, <2>5 DEF DotRefused
  <1>5. CharRefused(name[i]) \/ (kind = "table" /\ name[i] = "dot" /\ DotRefused(char_index, prev))
          <=> ~Passes(i)
    BY <1>4 DEF Passes
  <1>6. CASE ~Passes(i)
    <2>1. pc' = "refused" /\ char_index' = char_index /\ prev' = prev
      BY <1>5, <1>6 DEF Turn
    <2>2. ~Acceptable
      BY <1>2, <1>3, <1>6, OneFails
    <2>3. ~Acceptable'
      BY <1>1, <2>2 DEF Acceptable
    <2>4. \A j \in 1..char_index : Passes(j)'
      BY <1>1, <1>2 DEF Passes, CharRefused, bytes
    <2> QED
      BY <1>1, <1>2, <2>1, <2>3, <2>4 DEF AcceptInv
  <1>7. CASE Passes(i)
    <2>1. pc' = pc /\ char_index' = i /\ prev' = name[i]
      BY <1>5, <1>7 DEF Turn
    <2>2. \A j \in 1..i : Passes(j)
      BY <1>2, <1>3, <1>7
    <2>3. \A j \in 1..i : Passes(j)'
      BY <1>1, <2>2 DEF Passes, CharRefused, bytes
    <2>4. i \in 0..Len(name) /\ i # 0
      BY <1>3
    <2> HIDE DEF i
    <2> QED
      BY <1>1, <1>2, <2>1, <2>3, <2>4 DEF AcceptInv
  <1> QED
    BY <1>6, <1>7

\* The other actions leave the name and the loop alone.
LEMMA OthersKeepAccept ==
    ASSUME AcceptInv, kind' = kind, name' = name, char_index' = char_index, prev' = prev,
           \/ pc' = pc
           \/ pc = "validate" /\ char_index = Len(name) /\ pc' = "count"
           \/ pc \in {"count", "fill"} /\ pc' \in {"count", "fill", "done", "undefined"}
    PROVE  AcceptInv'
  <1>1. \A i : Passes(i)' <=> Passes(i)
    BY DEF Passes, CharRefused, bytes
  <1>2. Acceptable' <=> Acceptable
    BY DEF Acceptable
  <1> QED
    BY <1>1, <1>2 DEF AcceptInv

NamesInv == RoomInv /\ AcceptInv

LEMMA NamesStep ==
    ASSUME NamesInv, [Next]_vars
    PROVE  NamesInv'
  <1> USE DEF NamesInv
  <1>1. CASE Turn
    <2>1. kind # "value"
      BY <1>1 DEF Turn, AcceptInv
    <2>2. AcceptInv'
      BY <1>1, <2>1, TurnKeepsAccept
    <2>3. /\ pc = "validate" /\ pc' \in {"validate", "refused"} /\ quoted' = quoted /\ text' = text
          /\ output' = output /\ to_escape' = to_escape /\ read' = read /\ index' = index
      BY <1>1 DEF Turn
    <2>4. RoomInv'
      BY <2>3 DEF RoomInv, TextInv, PcInv, CountInv, FillInv, DoneInv
    <2> QED
      BY <2>2, <2>4
  <1>2. CASE Accept
    <2>1. kind # "value"
      BY <1>2 DEF Accept, AcceptInv
    <2>2. AcceptInv'
      BY <1>2, OthersKeepAccept DEF Accept
    <2> QED
      BY <1>2, <2>1, <2>2, AcceptKeepsRoom
  <1>3. CASE Write /\ UNCHANGED <<kind, name, char_index, prev>>
    <2>1. RoomInv'
      BY <1>3, CountKeepsRoom, CountedKeepsRoom, FillKeepsRoom, FilledKeepsRoom DEF Write
    <2>2. pc \in {"count", "fill"} /\ pc' \in {"count", "fill", "done", "undefined"}
      BY <1>3 DEF Write, Count, Counted, Fill, Filled
    <2>3. AcceptInv'
      BY <1>3, <2>2, OthersKeepAccept
    <2> QED
      BY <2>1, <2>3
  <1>4. CASE UNCHANGED vars
    <2>1. /\ quoted' = quoted /\ text' = text /\ output' = output /\ to_escape' = to_escape
          /\ read' = read /\ index' = index /\ pc' = pc
          /\ kind' = kind /\ name' = name /\ char_index' = char_index /\ prev' = prev
      BY <1>4 DEF vars, escvars
    <2>2. RoomInv'
      <3>1. Used(read)' = Used(read) /\ Used(Len(text))' = Used(Len(text))
        BY <2>1 DEF Used, Quote
      <3>2. FillInv' <=> FillInv
        BY <2>1, <3>1 DEF FillInv, NoneUninit
      <3> QED
        BY <2>1, <3>2 DEF RoomInv, TextInv, PcInv, CountInv, DoneInv, NoneUninit
    <2>3. AcceptInv'
      BY <2>1, OthersKeepAccept
    <2> QED
      BY <2>2, <2>3
  <1> QED
    BY <1>1, <1>2, <1>3, <1>4 DEF Next, Ended

LEMMA NamesInvariant == Spec => []NamesInv
  <1>1. Init => NamesInv
    BY RoomInit, AcceptInit DEF NamesInv
  <1>2. NamesInv /\ [Next]_vars => NamesInv'
    BY NamesStep
  <1> QED
    BY <1>1, <1>2, PTL DEF Spec

\* The unchecked writes of write_escaped_impl stay inside of the room that its
\* first loop measured and fill all of it, for names and values of every length.
THEOREM NamesRoomIsExact == Spec => []RoomIsExact
  <1>1. NamesInv => RoomIsExact
    BY DEF NamesInv, RoomInv, PcInv, DoneInv, NoneUninit, RoomIsExact
  <1> QED
    BY <1>1, NamesInvariant, PTL

\* TableName::new and ColumnName::new accept the names that Acceptable describes
\* and no others, of every length: also where the index of a character is
\* compared with a number of bytes.
THEOREM NamesAcceptsExactly == Spec => []AcceptsExactly
  <1>1. NamesInv => AcceptsExactly
    <2> SUFFICES ASSUME NamesInv, kind # "value" PROVE AcceptsExactly
      BY DEF AcceptsExactly
    <2>1. /\ kind \in {"table", "column"} /\ name \in Seq(Chars) /\ char_index \in 0..Len(name)
          /\ \A i \in 1..char_index : Passes(i)
      BY DEF NamesInv, AcceptInv
    <2>2. pc = "refused" => ~Acceptable
      BY DEF NamesInv, AcceptInv
    <2>3. pc = "done" => Acceptable
      <3> SUFFICES ASSUME pc = "done" PROVE Acceptable
        OBVIOUS
      <3>1. name # <<>> /\ char_index = Len(name)
        BY DEF NamesInv, AcceptInv
      <3> QED
        BY <2>1, <3>1, AllPass
    <2>4. ASSUME NEW i \in 1..char_index
          PROVE  /\ name[i] \notin {"bs", "bom"}
                 /\ name[i] \in {"dot", "minus"} => kind = "table"
                 /\ name[i] = "dot" => i > 1 /\ name[i - 1] # "dot"
      <3>1. Passes(i)
        BY <2>1
      <3>2. name[i] \notin {"bs", "bom"} /\ (name[i] \in {"dot", "minus"} => kind = "table")
        BY <2>1, <3>1 DEF Passes, CharRefused
      <3>3. ASSUME name[i] = "dot" PROVE i > 1 /\ name[i - 1] # "dot"
        BY <2>1, <3>1, <3>2, <3>3 DEF Passes
      <3> QED
        BY <3>2, <3>3
    <2> QED
      BY <2>2, <2>3, <2>4 DEF AcceptsExactly
  <1> QED
    BY <1>1, NamesInvariant, PTL

-----------------------------------------------------------------------------
(***************************************************************************)
(* What is written, byte by byte.                                          *)
(***************************************************************************)
\* The first k bytes of the text are in the output, each at the end of what is
\* used for it and after a backslash if it needs one.
Holds(k) ==
    \A p \in 1..k : /\ output[Used(p)] = text[p]
                    /\ Special(quoted, text[p]) => output[Used(p) - 1] = "bs"

WrittenInv ==
    /\ pc = "fill" => Holds(read)
    /\ pc = "done" =>
         /\ output \in Seq(AnyByte)
         /\ Len(output) = Used(Len(text)) + Len(Quote)
         /\ Holds(Len(text))

\* A text without special bytes is copied.
LEMMA CountedKeepsWritten ==
    ASSUME RoomInv, Counted
    PROVE  WrittenInv'
  <1>1. pc = "count" /\ read = Len(text) /\ read' = 0 /\ quoted' = quoted /\ text' = text
    BY DEF Counted
  <1>2. output = Before /\ to_escape = NHits(quoted, text, Len(text))
    BY <1>1 DEF RoomInv, CountInv
  <1>3. text \in Seq(AnyByte) /\ Len(text) \in Nat
    BY DEF RoomInv, TextInv
  <1>4. CASE to_escape = 0
    <2> DEFINE b == Before \o Quote
               m == Len(text)
               l == Len(Quote)
    <2>1. output' = (b \o text) \o Quote /\ pc' = "done"
      BY <1>2, <1>4 DEF Counted
    <2>2. l \in Nat /\ m \in Nat
      BY <1>3, QuoteFacts
    <2>3. b \in Seq(AnyByte) /\ Len(b) = 1 + l
      <3>1. Before \in Seq(AnyByte) /\ Quote \in Seq(AnyByte)
        BY BeforeFacts, QuoteFacts
      <3>2. Before \o Quote \in Seq(AnyByte) /\ Len(Before \o Quote) = Len(Before) + Len(Quote)
        BY <3>1, ConcatIs
      <3> QED
        BY <3>2, BeforeFacts
    <2> HIDE DEF b
    <2> DEFINE d == b \o text
    <2>4. /\ d \in Seq(AnyByte) /\ Len(d) = 1 + l + m
          /\ \A i \in (1 + l + 1)..(1 + l + m) : d[i] = text[i - (1 + l)]
      <3>1. /\ d \in Seq(AnyByte) /\ Len(d) = Len(b) + Len(text)
            /\ \A i \in (Len(b) + 1)..(Len(b) + Len(text)) : d[i] = text[i - Len(b)]
        <4>1. b \in Seq(AnyByte) /\ text \in Seq(AnyByte)
          BY <1>3, <2>3
        <4> HIDE DEF l, m
        <4>2. b \o text \in Seq(AnyByte)
          BY <4>1, ConcatIs
        <4>3. Len(b \o text) = Len(b) + Len(text)
          BY <4>1, ConcatIs
        <4>4. \A i \in (Len(b) + 1)..(Len(b) + Len(text)) : (b \o text)[i] = text[i - Len(b)]
          BY <4>1, ConcatIs
        <4> QED
          BY <4>2, <4>3, <4>4
      <3> HIDE DEF d
      <3> QED
        BY <2>2, <2>3, <3>1
    <2>5. Quote \in Seq(AnyByte)
      BY QuoteFacts
    <2> HIDE DEF d
    <2>6. /\ output' \in Seq(AnyByte) /\ Len(output') = Len(d) + l
          /\ \A i \in 1..Len(d) : output'[i] = d[i]
      <3>1. output' = d \o Quote
        BY <2>1 DEF d
      <3>2. d \in Seq(AnyByte)
        BY <2>4
      <3>3. /\ d \o Quote \in Seq(AnyByte) /\ Len(d \o Quote) = Len(d) + Len(Quote)
            /\ \A i \in 1..Len(d) : (d \o Quote)[i] = d[i]
        BY <2>5, <3>2, ConcatIs
      <3> QED
        BY <3>1, <3>3
    <2>7. ASSUME NEW p \in 1..m PROVE output'[1 + l + p] = text[p]
      <3> HIDE DEF m, l
      <3>1. 1 + l + p \in 1..(1 + l + m) /\ 1 + l + p \in (1 + l + 1)..(1 + l + m) /\ (1 + l + p) - (1 + l) = p
        BY <2>2
      <3> QED
        BY <2>4, <2>6, <3>1
    <2>8. ASSUME NEW p \in 0..m PROVE NHits(quoted, text, p) = 0
      <3>1. p \in Nat /\ p <= m
        BY <2>2
      <3>2. /\ NHits(quoted, text, p) \in Nat
            /\ \A j \in Nat : p <= j => NHits(quoted, text, p) <= NHits(quoted, text, j)
        BY <3>1, HitFacts
      <3>3. NHits(quoted, text, p) <= NHits(quoted, text, m)
        BY <2>2, <3>1, <3>2
      <3>4. NHits(quoted, text, m) = 0
        BY <1>2, <1>4
      <3> QED
        BY <3>2, <3>3, <3>4
    <2>9. ASSUME NEW p \in 1..m PROVE ~Special(quoted, text[p])
      <3>1. p - 1 \in Nat /\ p - 1 \in 0..m /\ p \in 0..m /\ (p - 1) + 1 = p
        BY <2>2
      <3>2. NHits(quoted, text, p) = NHits(quoted, text, p - 1) + (IF Special(quoted, text[p]) THEN 1 ELSE 0)
        BY <3>1, HitFacts
      <3>3. NHits(quoted, text, p) = 0 /\ NHits(quoted, text, p - 1) = 0
        BY <2>8, <3>1
      <3> QED
        BY <3>2, <3>3
    <2>10. ASSUME NEW p \in 0..m PROVE Used(p) = 1 + l + p
      BY <2>2, <2>8 DEF Used
    <2>11. \A p : Used(p)' = Used(p)
      BY <1>1 DEF Used, Quote
    <2>12. Quote' = Quote
      BY <1>1 DEF Quote
    <2>13. Len(output') = Used(m) + l
      <3> HIDE DEF m, l
      <3>1. m \in 0..m
        BY <2>2
      <3>2. Used(m) = 1 + l + m
        BY <2>10, <3>1
      <3> QED
        BY <2>4, <2>6, <3>2
    <2>14. \A p \in 1..m : output'[Used(p)] = text[p] /\ ~Special(quoted, text[p])
      <3> SUFFICES ASSUME NEW p \in 1..m PROVE output'[Used(p)] = text[p] /\ ~Special(quoted, text[p])
        OBVIOUS
      <3>1. p \in 0..m
        BY <2>2
      <3> QED
        BY <2>7, <2>9, <2>10, <3>1
    <2>15. Holds(Len(text))'
      BY <1>1, <2>11, <2>14 DEF Holds
    <2> QED
      BY <1>1, <2>1, <2>6, <2>11, <2>12, <2>13, <2>15 DEF WrittenInv
  <1>5. CASE to_escape # 0
    <2>1. pc' = "fill"
      BY <1>5 DEF Counted
    <2>2. Holds(0)'
      BY DEF Holds
    <2>3. Holds(read)'
      BY <1>1 DEF Holds
    <2> QED
      BY <2>1, <2>3 DEF WrittenInv
  <1> QED
    BY <1>4, <1>5

\* What Put leaves, and where it puts the bytes.
LEMMA PutIs ==
    ASSUME NEW w \in Seq(AnyByte), NEW u \in Nat, index = u + 1,
           output \in Seq(AnyByte \cup {Uninit}), u + Len(w) <= Len(output)
    PROVE  /\ \A i \in 1..u : Put(w)[i] = output[i]
           /\ \A i \in 1..Len(w) : Put(w)[u + i] = w[i]
  <1> DEFINE n == Len(output)
             l == Len(w)
  <1>1. n \in Nat /\ l \in Nat /\ u + l <= n
    OBVIOUS
  <1>2. \A i \in 1..n : Put(w)[i] = IF i \in (u + 1)..(u + l) THEN w[i - u] ELSE output[i]
    <2>1. index + Len(w) - 1 = u + l
      BY <1>1
    <2>2. \A i \in 1..n : i - index + 1 = i - u
      BY <1>1
    <2> QED
      BY <2>1, <2>2 DEF Put
  <1> HIDE DEF n, l
  <1>3. ASSUME NEW i \in 1..u PROVE Put(w)[i] = output[i]
    <2>1. i \in 1..n /\ i \notin (u + 1)..(u + l)
      BY <1>1
    <2> QED
      BY <1>2, <2>1
  <1>4. ASSUME NEW i \in 1..l PROVE Put(w)[u + i] = w[i]
    <2>1. u + i \in 1..n /\ u + i \in (u + 1)..(u + l) /\ (u + i) - u = i
      BY <1>1
    <2> QED
      BY <1>2, <2>1
  <1> QED
    BY <1>3, <1>4 DEF l

\* One more byte is where it should be.
LEMMA FillKeepsWritten ==
    ASSUME RoomInv, WrittenInv, Fill
    PROVE  WrittenInv'
  <1> DEFINE c == text[read + 1]
             w == IF must_escape(c) THEN <<"bs", c>> ELSE <<c>>
  <1>1. /\ pc = "fill" /\ read < Len(text) /\ read' = read + 1
        /\ quoted' = quoted /\ text' = text /\ output' = Put(w)
        /\ pc' = "fill" \/ pc' = "undefined"
    BY DEF Fill
  <1>2. /\ output \in Seq(AnyByte \cup {Uninit})
        /\ read \in 0..Len(text) /\ Len(output) = Used(Len(text))
        /\ index = Used(read) + 1 /\ Holds(read)
    BY <1>1 DEF RoomInv, FillInv, WrittenInv
  <1>3. text \in Seq(AnyByte) /\ Len(text) \in Nat
    BY DEF RoomInv, TextInv
  <1>4. read \in Nat /\ read + 1 \in Nat /\ read + 1 <= Len(text) /\ read + 1 \in 1..Len(text)
    BY <1>1, <1>2, <1>3
  <1>5. c \in AnyByte /\ "bs" \in AnyByte
    BY <1>3, <1>4 DEF AnyByte, Bytes
  <1>6. /\ w \in Seq(AnyByte) /\ Len(w) = (IF Special(quoted, c) THEN 2 ELSE 1)
        /\ w[Len(w)] = c /\ (Special(quoted, c) => w[1] = "bs")
    <2>1. CASE must_escape(c)
      <3>1. w = <<"bs", c>>
        BY <2>1
      <3>2. <<"bs", c>> \in Seq(AnyByte) /\ Len(<<"bs", c>>) = 2 /\ <<"bs", c>>[2] = c /\ <<"bs", c>>[1] = "bs"
        BY <1>5
      <3> HIDE DEF w
      <3> QED
        BY <2>1, <3>1, <3>2, MustEscape
    <2>2. CASE ~must_escape(c)
      <3>1. w = <<c>>
        BY <2>2
      <3>2. <<c>> \in Seq(AnyByte) /\ Len(<<c>>) = 1 /\ <<c>>[1] = c
        BY <1>5
      <3> HIDE DEF w
      <3> QED
        BY <2>2, <3>1, <3>2, MustEscape
    <2> QED
      BY <2>1, <2>2
  <1> DEFINE u == Used(read)
  <1> HIDE DEF w
  <1>7. u \in Nat /\ Used(read + 1) = u + (IF Special(quoted, c) THEN 2 ELSE 1)
    BY <1>4, UsedFacts
  <1>8. Used(read + 1) <= Used(Len(text))
    <2>1. \A m \in Nat : read + 1 <= m => Used(read + 1) <= Used(m)
      BY <1>4, UsedFacts
    <2> QED
      BY <1>3, <1>4, <2>1
  <1> HIDE DEF c, u
  <1>9. u + Len(w) <= Len(output) /\ Used(read + 1) = u + Len(w)
    BY <1>2, <1>6, <1>7, <1>8
  <1>10. index = u + 1
    BY <1>2 DEF u
  <1>11. /\ \A i \in 1..u : Put(w)[i] = output[i]
         /\ \A i \in 1..Len(w) : Put(w)[u + i] = w[i]
    BY <1>2, <1>6, <1>7, <1>9, <1>10, PutIs
  <1>12. ASSUME NEW p \in 1..read
         PROVE  /\ Put(w)[Used(p)] = text[p]
                /\ Special(quoted, text[p]) => Put(w)[Used(p) - 1] = "bs"
    <2>1. p \in Nat /\ p <= read /\ p >= 1
      BY <1>4
    <2>2. Used(p) \in Nat /\ \A m \in Nat : p <= m => Used(p) <= Used(m)
      BY <2>1, UsedFacts
    <2>3. Used(p) <= u
      BY <1>4, <2>1, <2>2 DEF u
    <2>4. Used(p) >= 2
      <3>1. Len(Quote) \in Nat /\ NHits(quoted, text, p) \in Nat
        BY <2>1, QuoteFacts, HitFacts
      <3> QED
        BY <2>1, <3>1 DEF Used
    <2>5. Used(p) \in 1..u /\ Used(p) - 1 \in 1..u
      BY <1>7, <2>2, <2>3, <2>4
    <2>6. /\ output[Used(p)] = text[p]
          /\ Special(quoted, text[p]) => output[Used(p) - 1] = "bs"
      BY <1>2 DEF Holds
    <2> QED
      BY <1>11, <2>5, <2>6
  <1>13. /\ Put(w)[Used(read + 1)] = text[read + 1]
         /\ Special(quoted, text[read + 1]) => Put(w)[Used(read + 1) - 1] = "bs"
    <2>1. CASE Special(quoted, c)
      <3>1. Len(w) = 2 /\ w[2] = c /\ w[1] = "bs"
        BY <1>6, <2>1
      <3>2. Put(w)[u + 2] = c /\ Put(w)[u + 1] = "bs"
        BY <1>11, <3>1
      <3>3. Used(read + 1) = u + 2 /\ Used(read + 1) - 1 = u + 1
        BY <1>7, <1>9, <3>1
      <3> QED
        BY <3>2, <3>3 DEF c
    <2>2. CASE ~Special(quoted, c)
      <3>1. Len(w) = 1 /\ w[1] = c
        BY <1>6, <2>2
      <3>2. Put(w)[u + 1] = c
        BY <1>11, <3>1
      <3>3. Used(read + 1) = u + 1
        BY <1>7, <1>9, <3>1
      <3> QED
        BY <2>2, <3>2, <3>3 DEF c
    <2> QED
      BY <2>1, <2>2
  <1>14. \A p : Used(p)' = Used(p)
    BY <1>1 DEF Used, Quote
  <1>15. \A p \in 1..(read + 1) : /\ output'[Used(p)] = text[p]
                                  /\ Special(quoted, text[p]) => output'[Used(p) - 1] = "bs"
    <2> SUFFICES ASSUME NEW p \in 1..(read + 1)
                 PROVE  /\ output'[Used(p)] = text[p]
                        /\ Special(quoted, text[p]) => output'[Used(p) - 1] = "bs"
      OBVIOUS
    <2>1. p \in 1..read \/ p = read + 1
      BY <1>4
    <2> QED
      BY <1>1, <1>12, <1>13, <2>1
  <1>16. Holds(read)'
    BY <1>1, <1>14, <1>15 DEF Holds
  <1> QED
    BY <1>1, <1>16 DEF WrittenInv

\* The closing quote comes after the text.
LEMMA FilledKeepsWritten ==
    ASSUME RoomInv, WrittenInv, Filled
    PROVE  WrittenInv'
  <1>1. /\ pc = "fill" /\ pc' = "done" /\ read = Len(text) /\ output' = output \o Quote
        /\ quoted' = quoted /\ text' = text
    BY DEF Filled
  <1>2. /\ output \in Seq(AnyByte \cup {Uninit}) /\ Len(output) = Used(Len(text))
        /\ NoneUninit(output, Len(output)) /\ Holds(Len(text))
    BY <1>1 DEF RoomInv, FillInv, WrittenInv
  <1>3. \A i \in 1..Len(output) : output[i] \in AnyByte
    BY <1>2 DEF NoneUninit
  <1>4. output \in Seq(AnyByte) /\ Quote \in Seq(AnyByte)
    BY <1>2, <1>3, QuoteFacts
  <1>5. /\ output' \in Seq(AnyByte) /\ Len(output') = Len(output) + Len(Quote)
        /\ \A i \in 1..Len(output) : output'[i] = output[i]
    BY <1>1, <1>4, ConcatIs
  <1>6. Len(text) \in Nat
    BY DEF RoomInv, TextInv
  <1>7. ASSUME NEW p \in 1..Len(text)
        PROVE  Used(p) \in 1..Len(output) /\ Used(p) - 1 \in 1..Len(output)
    <2>1. p \in Nat /\ p <= Len(text) /\ p >= 1
      BY <1>6
    <2>2. Used(p) \in Nat /\ \A m \in Nat : p <= m => Used(p) <= Used(m)
      BY <2>1, UsedFacts
    <2>3. Used(p) <= Len(output)
      BY <1>2, <1>6, <2>1, <2>2
    <2>4. Used(p) >= 2
      <3>1. Len(Quote) \in Nat /\ NHits(quoted, text, p) \in Nat
        BY <2>1, QuoteFacts, HitFacts
      <3> QED
        BY <2>1, <3>1 DEF Used
    <2>5. Len(output) \in Nat
      BY <1>2
    <2> QED
      BY <2>2, <2>3, <2>4, <2>5
  <1>8. \A p : Used(p)' = Used(p)
    BY <1>1 DEF Used, Quote
  <1>9. Quote' = Quote
    BY <1>1 DEF Quote
  <1>10. Holds(Len(text))'
    <2>1. \A p \in 1..Len(text) : /\ output'[Used(p)] = text[p]
                                  /\ Special(quoted, text[p]) => output'[Used(p) - 1] = "bs"
      BY <1>2, <1>5, <1>7 DEF Holds
    <2> QED
      BY <1>1, <1>8, <2>1 DEF Holds
  <1> QED
    BY <1>1, <1>2, <1>5, <1>8, <1>9, <1>10 DEF WrittenInv

LEMMA WrittenInvariant == Spec => []WrittenInv
  <1>1. Init => WrittenInv
    BY DEF Init, Called, WrittenInv
  <1>2. NamesInv /\ WrittenInv /\ [Next]_vars => WrittenInv'
    <2> SUFFICES ASSUME NamesInv, WrittenInv, [Next]_vars PROVE WrittenInv'
      OBVIOUS
    <2>1. CASE Turn \/ Accept
      BY <2>1 DEF Turn, Accept, WrittenInv
    <2>2. CASE Write
      <3>1. CASE Count
        BY <3>1 DEF Count, WrittenInv
      <3> QED
        BY <2>2, <3>1, CountedKeepsWritten, FillKeepsWritten, FilledKeepsWritten DEF Write, NamesInv
    <2>3. CASE UNCHANGED vars
      <3>1. /\ quoted' = quoted /\ text' = text /\ output' = output
            /\ read' = read /\ pc' = pc
        BY <2>3 DEF vars, escvars
      <3>2. (\A p : Used(p)' = Used(p)) /\ Quote' = Quote
        BY <3>1 DEF Used, Quote
      <3>3. Holds(read)' <=> Holds(read)
        BY <3>1, <3>2 DEF Holds
      <3>4. Holds(Len(text))' <=> Holds(Len(text))
        BY <3>1, <3>2 DEF Holds
      <3> QED
        BY <3>1, <3>2, <3>3, <3>4 DEF WrittenInv
    <2> QED
      BY <2>1, <2>2, <2>3 DEF Next, Ended
  <1> QED
    BY <1>1, <1>2, NamesInvariant, PTL DEF Spec

-----------------------------------------------------------------------------
(***************************************************************************)
(* What a server reads.                                                    *)
(***************************************************************************)
\* The backslashes that end at i - 1, as the numbers up to their number.
BsRun(s, i) == {k \in 0..(i - 1) : \A j \in (i - k)..(i - 1) : s[j] = "bs"}

LEMMA BsRunFacts ==
    ASSUME NEW s, NEW i \in Nat, i >= 1
    PROVE  /\ IsFiniteSet(BsRun(s, i))
           /\ Cardinality(BsRun(s, i)) \in Nat
           /\ Cardinality(BsRun(s, i)) >= 1
  <1>1. IsFiniteSet(0..(i - 1))
    BY FS_Interval
  <1>2. BsRun(s, i) \subseteq 0..(i - 1) /\ 0 \in BsRun(s, i)
    BY DEF BsRun
  <1>3. IsFiniteSet(BsRun(s, i))
    BY <1>1, <1>2, FS_Subset
  <1>4. Cardinality(BsRun(s, i)) \in Nat
    BY <1>3, FS_CardinalityType
  <1>5. Cardinality(BsRun(s, i)) # 0
    BY <1>2, <1>3, FS_EmptySet
  <1> QED
    BY <1>3, <1>4, <1>5

LEMMA Parity == \A n \in Nat : n % 2 = 1 <=> (n + 1) % 2 # 1
  OBVIOUS

\* A byte is escaped if the one before it is a backslash that is not.
LEMMA EscapedStep ==
    ASSUME NEW s, NEW i \in Nat, i >= 1
    PROVE  /\ ~Escaped(s, 1)
           /\ Escaped(s, i + 1) <=> s[i] = "bs" /\ ~Escaped(s, i)
  <1>1. \A j : Escaped(s, j) <=> (Cardinality(BsRun(s, j)) - 1) % 2 = 1
    BY DEF Escaped, BsRun
  <1>2. Cardinality({0}) = 1
    BY FS_Singleton
  <1>3. ~Escaped(s, 1)
    <2>1. BsRun(s, 1) = {0}
      BY DEF BsRun
    <2>2. Escaped(s, 1) <=> (Cardinality(BsRun(s, 1)) - 1) % 2 = 1
      BY <1>1
    <2>3. (1 - 1) % 2 # 1
      OBVIOUS
    <2> QED
      BY <1>2, <2>1, <2>2, <2>3, Zenon
  <1>4. CASE s[i] # "bs"
    <2>1. BsRun(s, i + 1) = {0}
      <3>1. ASSUME NEW k \in BsRun(s, i + 1) PROVE k = 0
        <4>1. k \in 0..i /\ \A j \in (i + 1 - k)..i : s[j] = "bs"
          BY DEF BsRun
        <4>2. k # 0 => i \in (i + 1 - k)..i
          BY <4>1
        <4> QED
          BY <1>4, <4>1, <4>2
      <3>2. 0 \in BsRun(s, i + 1)
        BY DEF BsRun
      <3> QED
        BY <3>1, <3>2
    <2>2. ~Escaped(s, i + 1)
      BY <1>1, <1>2, <2>1
    <2> QED
      BY <1>3, <1>4, <2>2
  <1>5. CASE s[i] = "bs"
    <2> DEFINE A == BsRun(s, i)
               B == BsRun(s, i + 1)
               f == [k \in A |-> k + 1]
    <2>1. \A k \in Nat : k + 1 \in B <=> k \in A
      <3> SUFFICES ASSUME NEW k \in Nat PROVE k + 1 \in B <=> k \in A
        OBVIOUS
      <3>1. k + 1 \in 0..i <=> k \in 0..(i - 1)
        OBVIOUS
      <3>2. (\A j \in (i - k)..i : s[j] = "bs") <=> (\A j \in (i - k)..(i - 1) : s[j] = "bs")
        <4>1. \A j \in (i - k)..i : j = i \/ j \in (i - k)..(i - 1)
          OBVIOUS
        <4>2. \A j \in (i - k)..(i - 1) : j \in (i - k)..i
          OBVIOUS
        <4> QED
          BY <1>5, <4>1, <4>2
      <3>3. (i + 1) - (k + 1) = i - k /\ (i + 1) - 1 = i
        OBVIOUS
      <3> QED
        BY <3>1, <3>2, <3>3 DEF BsRun
    <2>2. A \subseteq Nat /\ B \subseteq Nat /\ 0 \in B
      BY DEF BsRun
    <2>3. IsFiniteSet(A) /\ IsFiniteSet(B) /\ Cardinality(A) \in Nat /\ Cardinality(B) \in Nat /\ Cardinality(A) >= 1
      <3>1. i + 1 \in Nat /\ i + 1 >= 1
        OBVIOUS
      <3> QED
        BY <3>1, BsRunFacts
    <2> HIDE DEF A, B
    <2>4. f \in Bijection(A, B \ {0})
      <3>1. f \in [A -> B \ {0}]
        BY <2>1, <2>2
      <3>2. \A a, b \in A : f[a] = f[b] => a = b
        BY <2>2
      <3>3. ASSUME NEW b \in B \ {0} PROVE \E a \in A : f[a] = b
        <4>1. b - 1 \in Nat /\ (b - 1) + 1 = b
          BY <2>2
        <4>2. b - 1 \in A
          BY <2>1, <4>1
        <4> QED
          BY <4>1, <4>2
      <3> QED
        BY <3>1, <3>2, <3>3, Fun_IsBij
    <2>5. Cardinality(A) = Cardinality(B \ {0})
      <3>1. ExistsBijection(A, B \ {0})
        BY <2>4 DEF ExistsBijection
      <3> QED
        BY <2>3, <3>1, FS_Bijection
    <2>6. Cardinality(B \ {0}) = Cardinality(B) - 1
      BY <2>2, <2>3, FS_RemoveElement
    <2>7. Cardinality(B) - 1 = (Cardinality(A) - 1) + 1 /\ Cardinality(A) - 1 \in Nat
      BY <2>3, <2>5, <2>6
    <2>8. (Cardinality(A) - 1) % 2 = 1 <=> (Cardinality(B) - 1) % 2 # 1
      BY <2>7, Parity
    <2>9. (Escaped(s, i) <=> (Cardinality(A) - 1) % 2 = 1) /\ (Escaped(s, i + 1) <=> (Cardinality(B) - 1) % 2 = 1)
      BY <1>1 DEF A, B
    <2> QED
      BY <1>3, <1>5, <2>8, <2>9
  <1> QED
    BY <1>4, <1>5

\* The end of the p-th byte of the text in what was written.
End(p) == p + NHits(quoted, text, p)

LEMMA EndFacts ==
    ASSUME NEW p \in Nat
    PROVE  /\ End(p) \in Nat /\ End(p) >= p /\ End(0) = 0
           /\ End(p + 1) = End(p) + (IF Special(quoted, text[p + 1]) THEN 2 ELSE 1)
           /\ \A m \in Nat : p <= m => End(p) <= End(m)
           /\ \A m \in Nat : p < m => End(p) < End(m)
  <1> DEFINE h(j) == NHits(quoted, text, j)
  <1>1. /\ h(p) \in Nat /\ h(0) = 0
        /\ h(p + 1) = h(p) + (IF Special(quoted, text[p + 1]) THEN 1 ELSE 0)
        /\ \A m \in Nat : p <= m => h(p) <= h(m)
    BY HitFacts
  <1>2. \A m \in Nat : h(m) \in Nat
    BY HitFacts
  <1>3. \A j : End(j) = j + h(j)
    BY DEF End
  <1> HIDE DEF h
  <1>4. End(p) \in Nat /\ End(p) >= p /\ End(0) = 0
    BY <1>1, <1>3
  <1>5. End(p + 1) = End(p) + (IF Special(quoted, text[p + 1]) THEN 2 ELSE 1)
    <2>1. CASE Special(quoted, text[p + 1])
      BY <1>1, <1>3, <2>1
    <2>2. CASE ~Special(quoted, text[p + 1])
      BY <1>1, <1>3, <2>2
    <2> QED
      BY <2>1, <2>2
  <1>6. ASSUME NEW m \in Nat, p <= m PROVE End(p) <= End(m)
    BY <1>1, <1>2, <1>3, <1>6
  <1>7. ASSUME NEW m \in Nat, p < m PROVE End(p) < End(m)
    BY <1>1, <1>2, <1>3, <1>7
  <1> QED
    BY <1>4, <1>5, <1>6, <1>7

\* s is the text with its backslashes.
Encodes(s) ==
    /\ Len(s) = End(Len(text))
    /\ \A p \in 1..Len(text) : /\ s[End(p)] = text[p]
                               /\ Special(quoted, text[p]) => s[End(p) - 1] = "bs"

\* A byte of the text is escaped if it is special, its backslash never is.
LEMMA EscapedWhere ==
    ASSUME NEW s, Encodes(s), Len(text) \in Nat
    PROVE  \A p \in 1..Len(text) :
             /\ Escaped(s, End(p)) <=> Special(quoted, text[p])
             /\ Special(quoted, text[p]) => ~Escaped(s, End(p) - 1)
  <1> DEFINE n == Len(text)
             S == {p \in Nat : ~Escaped(s, End(p) + 1)}
  <1>1. n \in Nat
    OBVIOUS
  <1>2. ASSUME NEW p \in 0..(n - 1), ~Escaped(s, End(p) + 1)
        PROVE  /\ ~Escaped(s, End(p + 1) + 1)
               /\ Escaped(s, End(p + 1)) <=> Special(quoted, text[p + 1])
               /\ Special(quoted, text[p + 1]) => ~Escaped(s, End(p + 1) - 1)
    <2>1. p \in Nat /\ p + 1 \in 1..n
      BY <1>1
    <2> DEFINE e == End(p)
               z == End(p + 1)
               c == text[p + 1]
    <2>2. e \in Nat /\ z = e + (IF Special(quoted, c) THEN 2 ELSE 1)
      BY <2>1, EndFacts
    <2>3. s[z] = c /\ (Special(quoted, c) => s[z - 1] = "bs")
      BY <2>1 DEF Encodes
    <2>4. ~Escaped(s, e + 1)
      BY <1>2
    <2>5. c = "bs" => Special(quoted, c)
      BY DEF Special
    <2> HIDE DEF e, z, c, n
    <2>6. CASE Special(quoted, c)
      <3>1. z = (e + 1) + 1 /\ z - 1 = e + 1 /\ e + 1 \in Nat /\ e + 1 >= 1 /\ z \in Nat /\ z >= 1
        BY <2>2, <2>6
      <3>2. s[e + 1] = "bs"
        BY <2>3, <2>6, <3>1
      <3>3. Escaped(s, z)
        BY <2>4, <3>1, <3>2, EscapedStep
      <3>4. ~Escaped(s, z + 1)
        BY <3>1, <3>3, EscapedStep
      <3> QED
        BY <2>4, <2>6, <3>1, <3>3, <3>4 DEF e, z, c
    <2>7. CASE ~Special(quoted, c)
      <3>1. z = e + 1 /\ z \in Nat /\ z >= 1
        BY <2>2, <2>7
      <3>2. s[z] # "bs"
        BY <2>3, <2>5, <2>7
      <3>3. ~Escaped(s, z + 1)
        BY <3>1, <3>2, EscapedStep
      <3> QED
        BY <2>4, <2>7, <3>1, <3>3 DEF e, z, c
    <2> QED
      BY <2>6, <2>7
  <1>3. 0 \in S
    <2>1. End(0) = 0 /\ 0 + 1 = 1
      BY EndFacts
    <2>2. ~Escaped(s, 1)
      BY EscapedStep
    <2> QED
      BY <2>1, <2>2
  <1>4. \A p \in 0..(n - 1) : p \in S => p + 1 \in S
    <2> SUFFICES ASSUME NEW p \in 0..(n - 1), p \in S PROVE p + 1 \in S
      OBVIOUS
    <2>1. p + 1 \in Nat
      BY <1>1
    <2> QED
      BY <1>2, <2>1
  <1>5. \A p \in 0..n : ~Escaped(s, End(p) + 1)
    <2> HIDE DEF S
    <2>1. \A p \in 0..n : p \in S
      BY <1>1, <1>3, <1>4, UpTo
    <2> QED
      BY <2>1 DEF S
  <1> SUFFICES ASSUME NEW p \in 1..n
               PROVE  /\ Escaped(s, End(p)) <=> Special(quoted, text[p])
                      /\ Special(quoted, text[p]) => ~Escaped(s, End(p) - 1)
    OBVIOUS
  <1>6. p - 1 \in 0..(n - 1) /\ p - 1 \in 0..n /\ (p - 1) + 1 = p
    BY <1>1
  <1>7. ~Escaped(s, End(p - 1) + 1)
    BY <1>5, <1>6
  <1>8. /\ Escaped(s, End((p - 1) + 1)) <=> Special(quoted, text[(p - 1) + 1])
        /\ Special(quoted, text[(p - 1) + 1]) => ~Escaped(s, End((p - 1) + 1) - 1)
    BY <1>2, <1>6, <1>7
  <1> HIDE DEF n
  <1> QED
    BY <1>6, <1>8, Zenon

\* Every byte of s is one of the text or a backslash before a special one.
LEMMA EveryByte ==
    ASSUME Len(text) \in Nat
    PROVE  \A i \in 1..End(Len(text)) : \E q \in 1..Len(text) :
             i = End(q) \/ (i = End(q) - 1 /\ Special(quoted, text[q]))
  <1> DEFINE n == Len(text)
             At(i, q) == i = End(q) \/ (i = End(q) - 1 /\ Special(quoted, text[q]))
             S == {p \in Nat : \A i \in 1..End(p) : \E q \in 1..p : At(i, q)}
  <1>1. n \in Nat
    OBVIOUS
  <1>2. 0 \in S
    <2>1. 1..End(0) = {}
      BY EndFacts
    <2> QED
      BY <2>1
  <1>3. \A p \in 0..(n - 1) : p \in S => p + 1 \in S
    <2> SUFFICES ASSUME NEW p \in 0..(n - 1), p \in S PROVE p + 1 \in S
      OBVIOUS
    <2>1. p \in Nat /\ p + 1 \in Nat /\ p + 1 \in 1..(p + 1) /\ \A q \in 1..p : q \in 1..(p + 1)
      BY <1>1
    <2>2. End(p) \in Nat /\ End(p + 1) = End(p) + (IF Special(quoted, text[p + 1]) THEN 2 ELSE 1)
      BY <2>1, EndFacts
    <2>3. ASSUME NEW i \in 1..End(p + 1) PROVE \E q \in 1..(p + 1) : At(i, q)
      <3>1. CASE i <= End(p)
        <4>1. i \in 1..End(p)
          BY <2>2, <3>1
        <4>2. PICK q \in 1..p : At(i, q)
          BY <4>1
        <4> QED
          BY <2>1, <4>2
      <3>2. CASE i > End(p)
        <4>1. At(i, p + 1)
          <5>1. CASE Special(quoted, text[p + 1])
            BY <2>2, <3>2, <5>1
          <5>2. CASE ~Special(quoted, text[p + 1])
            BY <2>2, <3>2, <5>2
          <5> QED
            BY <5>1, <5>2
        <4> QED
          BY <2>1, <4>1
      <3> QED
        BY <2>2, <3>1, <3>2
    <2> HIDE DEF At
    <2> QED
      BY <2>1, <2>3
  <1> HIDE DEF S, At
  <1>4. \A p \in 0..n : p \in S
    BY <1>1, <1>2, <1>3, UpTo
  <1>5. n \in S
    BY <1>1, <1>4
  <1> QED
    BY <1>5 DEF S, At

Ends(k) == {End(q) : q \in 1..k}

\* The bytes of the text end at different places.
LEMMA EndsCount ==
    ASSUME NEW n \in Nat
    PROVE  Cardinality(Ends(n)) = n
  <1> DEFINE S == {k \in Nat : IsFiniteSet(Ends(k)) /\ Cardinality(Ends(k)) = k}
  <1>1. 0 \in S
    <2>1. Ends(0) = {}
      BY DEF Ends
    <2> QED
      BY <2>1, FS_EmptySet
  <1>2. \A k \in 0..(n - 1) : k \in S => k + 1 \in S
    <2> SUFFICES ASSUME NEW k \in 0..(n - 1), k \in S PROVE k + 1 \in S
      OBVIOUS
    <2>1. k \in Nat /\ k + 1 \in Nat
      OBVIOUS
    <2>2. \A q \in 1..(k + 1) : q \in 1..k \/ q = k + 1
      BY <2>1
    <2>3. Ends(k + 1) = Ends(k) \cup {End(k + 1)}
      <3>1. (\A q \in 1..k : q \in 1..(k + 1)) /\ k + 1 \in 1..(k + 1)
        BY <2>1
      <3> QED
        BY <2>2, <3>1 DEF Ends
    <2>4. ASSUME NEW q \in 1..k PROVE End(q) # End(k + 1)
      <3>1. q \in Nat /\ q < k + 1
        BY <2>1
      <3>2. \A m \in Nat : q < m => End(q) < End(m)
        BY <3>1, EndFacts
      <3>3. End(q) \in Nat /\ End(k + 1) \in Nat
        BY <2>1, <3>1, EndFacts
      <3>4. End(q) < End(k + 1)
        BY <2>1, <3>1, <3>2
      <3> QED
        BY <3>3, <3>4
    <2>5. End(k + 1) \notin Ends(k)
      BY <2>4 DEF Ends
    <2>6. IsFiniteSet(Ends(k)) /\ Cardinality(Ends(k)) = k
      OBVIOUS
    <2>7. /\ IsFiniteSet(Ends(k) \cup {End(k + 1)})
          /\ Cardinality(Ends(k) \cup {End(k + 1)}) = Cardinality(Ends(k)) + 1
      BY <2>5, <2>6, FS_AddElement
    <2> QED
      BY <2>1, <2>3, <2>6, <2>7
  <1> HIDE DEF S
  <1>3. \A k \in 0..n : k \in S
    BY <1>1, <1>2, UpTo
  <1>4. n \in 0..n
    OBVIOUS
  <1> QED
    BY <1>3, <1>4 DEF S

\* Without quotes, what was written is the text with its backslashes.
LEMMA WrittenEncodes ==
    ASSUME NamesInv, WrittenInv, pc = "done"
    PROVE  Encodes(Written)
  <1> DEFINE l == Len(Quote)
             n == Len(text)
             m == End(n)
  <1>1. /\ output \in Seq(AnyByte)
        /\ Len(output) = Used(n) + l
        /\ Holds(n)
    BY DEF WrittenInv
  <1>2. n \in Nat /\ l \in Nat
    BY QuoteFacts DEF NamesInv, RoomInv, TextInv
  <1>3. ASSUME NEW p \in Nat PROVE Used(p) = 1 + l + End(p) /\ End(p) \in Nat
    <2>1. NHits(quoted, text, p) \in Nat
      BY HitFacts
    <2> QED
      BY <1>2, <2>1 DEF Used, End
  <1>4. m \in Nat /\ Len(output) - l = 1 + l + m /\ Len(Before) = 1
    <2>1. Used(n) = 1 + l + m /\ m \in Nat
      BY <1>2, <1>3
    <2> HIDE DEF l, m, n
    <2> QED
      BY <1>1, <1>2, <2>1, BeforeFacts
  <1>5. Written = SubSeq(output, 1 + l + 1, 1 + l + m)
    BY <1>4 DEF Written
  <1>6. Len(output) = 1 + l + m + l
    <2> HIDE DEF l, m, n
    <2>1. Len(output) \in Nat
      BY <1>1
    <2> QED
      BY <1>2, <1>4, <2>1
  <1> HIDE DEF l, m, n
  <1>7. /\ Len(Written) = m
        /\ \A i \in 1..m : Written[i] = output[1 + l + i]
    <2>1. 1 + l + m <= Len(output) /\ 1 + l + 1 \in Nat /\ 1 + l + m \in Nat /\ 1 + l + 1 >= 1
      BY <1>2, <1>4, <1>6
    <2>2. Len(SubSeq(output, 1 + l + 1, 1 + l + m)) = m
      BY <1>1, <1>2, <1>4, <2>1
    <2>3. \A i \in 1..m : SubSeq(output, 1 + l + 1, 1 + l + m)[i] = output[1 + l + i]
      BY <1>1, <1>2, <1>4, <2>1
    <2> QED
      BY <1>5, <2>2, <2>3
  <1>8. ASSUME NEW p \in 1..n
        PROVE  /\ Written[End(p)] = text[p]
               /\ Special(quoted, text[p]) => Written[End(p) - 1] = "bs"
    <2>1. p \in Nat /\ p >= 1 /\ p <= n
      BY <1>2
    <2>2. End(p) \in Nat /\ End(p) >= 1 /\ End(p) <= m
      <3>1. End(p) \in Nat /\ End(p) >= p /\ \A j \in Nat : p <= j => End(p) <= End(j)
        BY <2>1, EndFacts
      <3>2. End(p) <= End(n)
        BY <1>2, <2>1, <3>1
      <3> QED
        BY <2>1, <3>1, <3>2 DEF m
    <2>3. Used(p) = 1 + l + End(p)
      BY <1>3, <2>1
    <2>4. /\ output[Used(p)] = text[p]
          /\ Special(quoted, text[p]) => output[Used(p) - 1] = "bs"
      BY <1>1 DEF Holds
    <2>5. Written[End(p)] = text[p]
      <3>1. End(p) \in 1..m
        BY <1>4, <2>2
      <3> QED
        BY <1>7, <2>3, <2>4, <3>1
    <2>6. ASSUME Special(quoted, text[p]) PROVE Written[End(p) - 1] = "bs"
      <3>1. End(p) >= 2
        <4>1. p - 1 \in Nat /\ (p - 1) + 1 = p
          BY <2>1
        <4>2. End(p - 1) \in Nat /\ End((p - 1) + 1) = End(p - 1) + (IF Special(quoted, text[(p - 1) + 1]) THEN 2 ELSE 1)
          BY <4>1, EndFacts
        <4>3. End(p) = End(p - 1) + (IF Special(quoted, text[p]) THEN 2 ELSE 1)
          BY <4>1, <4>2, Zenon
        <4> QED
          BY <2>6, <4>2, <4>3
      <3>2. End(p) - 1 \in 1..m /\ Used(p) - 1 = 1 + l + (End(p) - 1)
        BY <1>2, <1>4, <2>2, <2>3, <3>1
      <3> QED
        BY <1>7, <2>4, <2>6, <3>2
    <2> QED
      BY <2>5, <2>6
  <1> QED
    BY <1>7, <1>8 DEF Encodes, n, m

\* A server that drops the backslashes that escape reads the name or the value
\* that was given to write_escaped_impl, of every length, and meets no byte that
\* ends a key, a value or a row but escaped.
THEOREM NamesReadsBack == Spec => []ReadsBack
  <1>1. NamesInv /\ WrittenInv => ReadsBack
    <2> SUFFICES ASSUME NamesInv, WrittenInv, pc = "done" PROVE ReadsBack
      BY DEF ReadsBack
    <2> DEFINE w == Written
               n == Len(text)
               kept == {i \in 1..Len(w) : w[i] # "bs" \/ Escaped(w, i)}
               nth(i) == Cardinality({j \in kept : j <= i})
    <2>1. Encodes(w) /\ n \in Nat
      BY WrittenEncodes DEF NamesInv, RoomInv, TextInv
    <2>2. \A p \in 1..n : /\ Escaped(w, End(p)) <=> Special(quoted, text[p])
                          /\ Special(quoted, text[p]) => ~Escaped(w, End(p) - 1)
      BY <2>1, EscapedWhere
    <2>3. /\ Len(w) = End(n)
          /\ \A p \in 1..n : /\ w[End(p)] = text[p]
                             /\ Special(quoted, text[p]) => w[End(p) - 1] = "bs"
      BY <2>1 DEF Encodes
    <2>4. \A i \in 1..Len(w) : \E q \in 1..n : i = End(q) \/ (i = End(q) - 1 /\ Special(quoted, text[q]))
      BY <2>1, <2>3, EveryByte
    <2> HIDE DEF w, n
    <2>5. ASSUME NEW p \in 1..n PROVE End(p) \in kept
      <3>1. p \in Nat /\ p >= 1 /\ p <= n
        BY <2>1
      <3>2. End(p) \in Nat /\ End(p) >= p /\ \A j \in Nat : p <= j => End(p) <= End(j)
        BY <3>1, EndFacts
      <3>3. End(p) <= End(n) /\ End(n) \in Nat
        BY <2>1, <3>1, <3>2, EndFacts
      <3>4. End(p) \in 1..Len(w)
        BY <2>3, <3>1, <3>2, <3>3
      <3>5. text[p] = "bs" => Special(quoted, text[p])
        BY DEF Special
      <3> QED
        BY <2>2, <2>3, <3>4, <3>5
    <2>6. ASSUME NEW i \in kept PROVE \E p \in 1..n : i = End(p)
      <3>1. PICK q \in 1..n : i = End(q) \/ (i = End(q) - 1 /\ Special(quoted, text[q]))
        BY <2>4
      <3> QED
        BY <2>2, <2>3, <3>1
    <2>7. kept = Ends(n)
      BY <2>5, <2>6 DEF Ends
    <2> HIDE DEF kept
    <2>8. Cardinality(kept) = n
      BY <2>1, <2>7, EndsCount
    <2>9. ASSUME NEW p \in 1..n PROVE nth(End(p)) = p
      <3>1. p \in Nat /\ \A q \in 1..p : q \in 1..n
        BY <2>1
      <3>2. \A q \in 1..n : End(q) <= End(p) <=> q \in 1..p
        <4> SUFFICES ASSUME NEW q \in 1..n PROVE End(q) <= End(p) <=> q \in 1..p
          OBVIOUS
        <4>1. q \in Nat /\ p \in Nat /\ q >= 1
          BY <2>1, <3>1
        <4>2. End(q) \in Nat /\ End(p) \in Nat
          BY <4>1, EndFacts
        <4>3. q <= p => End(q) <= End(p)
          BY <4>1, EndFacts
        <4>4. p < q => End(p) < End(q)
          BY <4>1, EndFacts
        <4> QED
          BY <4>1, <4>2, <4>3, <4>4
      <3>3. {j \in kept : j <= End(p)} = Ends(p)
        BY <2>7, <3>1, <3>2 DEF Ends
      <3> QED
        BY <3>1, <3>3, EndsCount
    <2>10. ASSUME NEW i \in kept
           PROVE  w[i] = text[nth(i)] /\ (Escaped(w, i) <=> must_escape(w[i]))
      <3>1. PICK p \in 1..n : i = End(p)
        BY <2>6
      <3>2. nth(i) = p /\ w[i] = text[p] /\ (Escaped(w, i) <=> Special(quoted, text[p]))
        BY <2>2, <2>3, <2>9, <3>1
      <3> HIDE DEF nth
      <3> QED
        BY <3>2, MustEscape
    <2> QED
      BY <2>8, <2>10 DEF ReadsBack, kept, w, n
  <1> QED
    BY <1>1, NamesInvariant, WrittenInvariant, PTL

-----------------------------------------------------------------------------
(***************************************************************************)
(* The mock server: sequences of rows and the stream that they make.       *)
(***************************************************************************)
StreamByte == {"x", "bs", "nl"}

\* Rows and messages are pieces of the stream.
Pieces == Seq(StreamByte) \ {<<>>}

LEMMA RowFacts ==
    ASSUME NEW r \in Rows
    PROVE  /\ r \in Seq(StreamByte) /\ Len(r) \in Nat /\ Len(r) > 1
           /\ r[1] # "nl" /\ r[Len(r)] = "nl"
           /\ \A i \in 2..(Len(r) - 1) : r[i] = "nl" => r[i - 1] = "bs"
  <1>1. r \in Seq(StreamByte) /\ Len(r) > 1 /\ r[Len(r)] = "nl"
    BY RowsAssumption DEF StreamByte
  <1>2. Len(r) \in Nat
    BY <1>1
  <1>3. \A i \in 1..(Len(r) - 1) : r[i] = "nl" => i > 1 /\ r[i - 1] = "bs"
    BY RowsAssumption
  <1>4. 1 \in 1..(Len(r) - 1) /\ ~(1 > 1) /\ \A i \in 2..(Len(r) - 1) : i \in 1..(Len(r) - 1)
    BY <1>1, <1>2
  <1>5. r[1] # "nl"
    BY <1>3, <1>4
  <1>6. \A i \in 2..(Len(r) - 1) : r[i] = "nl" => r[i - 1] = "bs"
    BY <1>3, <1>4
  <1> QED
    BY <1>1, <1>2, <1>5, <1>6

LEMMA PieceFacts ==
    ASSUME NEW r \in Pieces
    PROVE  r \in Seq(StreamByte) /\ Len(r) \in Nat /\ Len(r) > 0
  <1>1. r \in Seq(StreamByte) /\ r # <<>>
    BY DEF Pieces
  <1> QED
    BY <1>1

LEMMA RowsArePieces == Rows \subseteq Pieces /\ Seq(Rows) \subseteq Seq(Pieces)
  <1>1. ASSUME NEW r \in Rows PROVE r \in Pieces
    <2>1. r \in Seq(StreamByte) /\ Len(r) > 1
      BY RowFacts
    <2>2. r # <<>>
      BY <2>1
    <2> QED
      BY <2>1, <2>2 DEF Pieces
  <1> HIDE DEF Pieces
  <1> QED
    BY <1>1

\* Two functions that flatten agree on what they share.
LEMMA FlattensAgree ==
    ASSUME NEW s, NEW t, NEW n \in Nat, NEW m \in Nat, n <= m,
           \A i \in 1..n : s[i] = t[i],
           NEW f, NEW g, Flattens(f, s, n), Flattens(g, t, m)
    PROVE  \A i \in 1..n : f[i] = g[i]
  <1> DEFINE S == {k \in Nat : k = 0 \/ f[k] = g[k]}
  <1>1. 0 \in S
    OBVIOUS
  <1>2. ASSUME NEW k \in 0..(n - 1), k \in S PROVE k + 1 \in S
    <2>1. k + 1 \in 1..n /\ k + 1 \in 1..m /\ k + 1 \in Nat /\ (k + 1) - 1 = k /\ (k + 1 = 1 <=> k = 0)
      OBVIOUS
    <2>2. f[k + 1] = IF k + 1 = 1 THEN s[k + 1] ELSE f[(k + 1) - 1] \o s[k + 1]
      BY <2>1 DEF Flattens
    <2>3. g[k + 1] = IF k + 1 = 1 THEN t[k + 1] ELSE g[(k + 1) - 1] \o t[k + 1]
      BY <2>1 DEF Flattens
    <2>4. s[k + 1] = t[k + 1]
      BY <2>1
    <2>5. k # 0 => f[k] = g[k]
      BY <1>2
    <2> HIDE DEF S
    <2>6. f[k + 1] = g[k + 1]
      BY <2>1, <2>2, <2>3, <2>4, <2>5
    <2> QED
      BY <2>1, <2>6 DEF S
  <1> HIDE DEF S
  <1>3. \A k \in 0..n : k \in S
    BY <1>1, <1>2, UpTo
  <1> QED
    BY <1>3 DEF S

LEMMA FlatEmpty == FlattenSeq(<<>>) = <<>>
  BY DEF FlattenSeq

\* One more row at the end.
LEMMA FlatAppend ==
    ASSUME NEW s \in Seq(Pieces), NEW r \in Pieces, s # <<>>
    PROVE  FlattenSeq(Append(s, r)) = FlattenSeq(s) \o r
  <1> DEFINE n == Len(s)
             t == Append(s, r)
  <1>1. n \in Nat /\ n # 0 /\ Len(t) = n + 1 /\ t[n + 1] = r /\ \A i \in 1..n : s[i] = t[i]
    OBVIOUS
  <1> HIDE DEF t
  <1>2. PICK f : Flattens(f, s, n) /\ FlattenSeq(s) = f[n]
    BY <1>1, FlattenIs
  <1>3. PICK g : Flattens(g, t, n + 1) /\ FlattenSeq(t) = g[n + 1]
    BY <1>1, FlattenIs
  <1> HIDE DEF n
  <1>4. f[n] = g[n]
    BY <1>1, <1>2, <1>3, FlattensAgree
  <1>8. n + 1 \in 1..(n + 1)
    BY <1>1
  <1>5. g[n + 1] = IF n + 1 = 1 THEN t[n + 1] ELSE g[(n + 1) - 1] \o t[n + 1]
    BY <1>3, <1>8 DEF Flattens
  <1>6. n + 1 # 1 /\ (n + 1) - 1 = n
    BY <1>1
  <1>7. g[n + 1] = f[n] \o r
    BY <1>1, <1>4, <1>5, <1>6
  <1> QED
    BY <1>2, <1>3, <1>7 DEF t

LEMMA FlatOne ==
    ASSUME NEW r \in Pieces
    PROVE  FlattenSeq(<<r>>) = r
  <1> DEFINE t == <<r>>
  <1>1. Len(t) = 1 /\ t[1] = r /\ 1 \in Nat /\ 1 # 0
    OBVIOUS
  <1> HIDE DEF t
  <1>2. PICK f : Flattens(f, t, 1) /\ FlattenSeq(t) = f[1]
    BY <1>1, FlattenIs
  <1>3. f[1] = r
    BY <1>1, <1>2 DEF Flattens
  <1> QED
    BY <1>2, <1>3 DEF t

\* One more row at the end, also of none.
LEMMA FlatMore ==
    ASSUME NEW s \in Seq(Pieces), NEW r \in Pieces, FlattenSeq(s) \in Seq(StreamByte)
    PROVE  FlattenSeq(Append(s, r)) = FlattenSeq(s) \o r
  <1>1. CASE s # <<>>
    BY <1>1, FlatAppend
  <1>2. CASE s = <<>>
    <2>1. Append(<<>>, r) = <<r>>
      OBVIOUS
    <2>2. <<>> \o r = r
      BY PieceFacts
    <2> QED
      BY <1>2, <2>1, <2>2, FlatOne, FlatEmpty
  <1> QED
    BY <1>1, <1>2

LEMMA JoinType ==
    ASSUME NEW a \in Seq(StreamByte), NEW c \in Seq(StreamByte)
    PROVE  /\ a \o c \in Seq(StreamByte) /\ Len(a \o c) = Len(a) + Len(c)
           /\ \A i \in 1..Len(a) : (a \o c)[i] = a[i]
           /\ \A i \in 1..Len(c) : (a \o c)[Len(a) + i] = c[i]
  OBVIOUS

LEMMA SameBytes ==
    ASSUME NEW a \in Seq(StreamByte), NEW c \in Seq(StreamByte), Len(a) = Len(c),
           \A i \in 1..Len(c) : a[i] = c[i]
    PROVE  a = c
  OBVIOUS

LEMMA JoinAppend ==
    ASSUME NEW a \in Seq(Pieces), NEW c \in Seq(Pieces), NEW x \in Pieces
    PROVE  /\ a \o c \in Seq(Pieces) /\ Append(c, x) \in Seq(Pieces)
           /\ a \o Append(c, x) = Append(a \o c, x)
  OBVIOUS

\* The stream of k + 1 rows is that of k and the next row.
LEMMA FlatStep ==
    ASSUME NEW s \in Seq(Pieces), NEW k \in 0..(Len(s) - 1), Flat(s, k) \in Seq(StreamByte)
    PROVE  /\ s[k + 1] \in Pieces
           /\ Flat(s, k + 1) = Flat(s, k) \o s[k + 1]
           /\ Flat(s, k + 1) \in Seq(StreamByte)
  <1>1. s[k + 1] \in Pieces /\ SubSeq(s, 1, k) \in Seq(Pieces)
    OBVIOUS
  <1>2. SubSeq(s, 1, k + 1) = Append(SubSeq(s, 1, k), s[k + 1])
    OBVIOUS
  <1>3. Flat(s, k + 1) = Flat(s, k) \o s[k + 1]
    BY <1>1, <1>2, FlatMore DEF Flat
  <1>4. s[k + 1] \in Seq(StreamByte)
    BY <1>1, PieceFacts
  <1> QED
    BY <1>1, <1>3, <1>4, JoinType

LEMMA FlatType ==
    ASSUME NEW s \in Seq(Pieces)
    PROVE  \A k \in 0..Len(s) : Flat(s, k) \in Seq(StreamByte)
  <1> DEFINE S == {k \in Nat : Flat(s, k) \in Seq(StreamByte)}
             n == Len(s)
  <1>1. n \in Nat
    OBVIOUS
  <1>2. 0 \in S
    <2>1. SubSeq(s, 1, 0) = <<>>
      OBVIOUS
    <2>2. Flat(s, 0) = <<>>
      BY <2>1, FlatEmpty DEF Flat
    <2>3. <<>> \in Seq(StreamByte)
      OBVIOUS
    <2> QED
      BY <2>2, <2>3
  <1>3. ASSUME NEW k \in 0..(n - 1), k \in S PROVE k + 1 \in S
    BY <1>1, <1>3, FlatStep
  <1> HIDE DEF S, n
  <1>4. \A k \in 0..n : k \in S
    BY <1>1, <1>2, <1>3, UpTo
  <1> QED
    BY <1>4 DEF S, n

LEMMA FlatAll ==
    ASSUME NEW s \in Seq(Pieces)
    PROVE  /\ Flat(s, Len(s)) = FlattenSeq(s)
           /\ FlattenSeq(s) \in Seq(StreamByte)
  <1>1. SubSeq(s, 1, Len(s)) = s
    OBVIOUS
  <1>2. Len(s) \in 0..Len(s)
    OBVIOUS
  <1> QED
    BY <1>1, <1>2, FlatType DEF Flat

\* The streams of fewer rows are shorter, and are how that of more begins.
LEMMA FlatPrefix ==
    ASSUME NEW s \in Seq(Pieces), NEW k \in 0..Len(s)
    PROVE  /\ Len(Flat(s, k)) <= Len(FlattenSeq(s))
           /\ \A i \in 1..Len(Flat(s, k)) : Flat(s, k)[i] = FlattenSeq(s)[i]
           /\ k < Len(s) => Len(Flat(s, k)) < Len(FlattenSeq(s))
  <1> DEFINE n == Len(s)
             F(j) == Flat(s, j)
             Begins(j) == /\ Len(F(k)) <= Len(F(j))
                          /\ \A i \in 1..Len(F(k)) : F(k)[i] = F(j)[i]
                          /\ k < j => Len(F(k)) < Len(F(j))
             S == {j \in Nat : k + j <= n => Begins(k + j)}
  <1>1. n \in Nat /\ k \in Nat /\ k <= n /\ k + 0 = k
    OBVIOUS
  <1>2. \A j \in 0..n : F(j) \in Seq(StreamByte)
    BY FlatType
  <1>3. 0 \in S
    BY <1>1, <1>2
  <1>4. ASSUME NEW j \in 0..((n - k) - 1), j \in S PROVE j + 1 \in S
    <2> DEFINE m == k + j
    <2>1. m \in 0..(n - 1) /\ m \in 0..n /\ m + 1 \in 0..n /\ m + 1 = k + (j + 1) /\ j + 1 \in Nat
      BY <1>1
    <2>2. Begins(m)
      BY <1>1, <1>4
    <2>3. F(m) \in Seq(StreamByte) /\ F(k) \in Seq(StreamByte) /\ k <= m
      BY <1>1, <1>2, <2>1
    <2>4. s[m + 1] \in Pieces /\ F(m + 1) = F(m) \o s[m + 1]
      BY <2>1, <2>3, FlatStep
    <2>5. s[m + 1] \in Seq(StreamByte) /\ Len(s[m + 1]) > 0
      BY <2>4, PieceFacts
    <2> HIDE DEF m, F
    <2>6. Len(F(m + 1)) = Len(F(m)) + Len(s[m + 1])
      BY <2>3, <2>4, <2>5
    <2>7. \A i \in 1..Len(F(m)) : F(m + 1)[i] = F(m)[i]
      BY <2>3, <2>4, <2>5
    <2>8. \A i \in 1..Len(F(k)) : i \in 1..Len(F(m)) /\ F(k)[i] = F(m)[i]
      BY <2>2, <2>3
    <2>9. Begins(m + 1)
      <3>1. Len(F(k)) < Len(F(m + 1))
        BY <2>2, <2>3, <2>5, <2>6
      <3> QED
        BY <2>3, <2>7, <2>8, <3>1
    <2> HIDE DEF Begins
    <2> QED
      BY <2>1, <2>9
  <1> HIDE DEF S
  <1>5. n - k \in Nat
    BY <1>1
  <1>6. n - k \in 0..(n - k) /\ k + (n - k) = n /\ k + (n - k) <= n
    BY <1>1, <1>5
  <1>7. n - k \in S
    BY <1>3, <1>4, <1>5, <1>6, UpTo
  <1>8. Begins(n)
    <2> HIDE DEF Begins, n
    <2> QED
      BY <1>6, <1>7 DEF S
  <1> QED
    BY <1>8, FlatAll

-----------------------------------------------------------------------------
\* f is what the loop of recv computes of the first n bytes of s.
Splits(f, s, n) ==
    f = [i \in 1..n |->
           IF i = 1 THEN [out |-> <<>>, head |-> 1]
           ELSE IF EndsMessage(s, i)
             THEN [out |-> Append(f[i - 1].out, SubSeq(s, f[i - 1].head, i)), head |-> i + 1]
           ELSE f[i - 1]]

\* There is such a function.
LEMMA SplitsExists ==
    ASSUME NEW s, NEW n \in Nat
    PROVE  \E f : Splits(f, s, n)
  <1> DEFINE S == {k \in Nat : \E f : Splits(f, s, k)}
             Step(f, i) ==
               IF i = 1 THEN [out |-> <<>>, head |-> 1]
               ELSE IF EndsMessage(s, i)
                 THEN [out |-> Append(f[i - 1].out, SubSeq(s, f[i - 1].head, i)), head |-> i + 1]
               ELSE f[i - 1]
  <1>1. 0 \in S
    <2> DEFINE f == [i \in 1..0 |-> <<>>]
    <2>1. Splits(f, s, 0)
      BY DEF Splits
    <2> QED
      BY <2>1
  <1>2. ASSUME NEW k \in 0..(n - 1), k \in S PROVE k + 1 \in S
    <2>1. PICK f : Splits(f, s, k)
      BY <1>2
    <2> DEFINE g == [i \in 1..(k + 1) |-> IF i <= k THEN f[i] ELSE Step(f, i)]
    <2>2. \A i \in 1..k : f[i] = Step(f, i)
      BY <2>1 DEF Splits
    <2> HIDE DEF Step
    <2>3. \A i \in 1..k : g[i] = f[i]
      OBVIOUS
    <2>4. g[k + 1] = Step(f, k + 1)
      OBVIOUS
    <2>5. g = [i \in 1..(k + 1) |-> g[i]]
      OBVIOUS
    <2> HIDE DEF g
    <2>6. \A i \in 1..(k + 1) : g[i] = Step(g, i)
      <3> SUFFICES ASSUME NEW i \in 1..(k + 1)
                   PROVE  g[i] = Step(g, i)
        OBVIOUS
      <3>1. i # 1 => i - 1 \in 1..k
        OBVIOUS
      <3>2. Step(g, i) = Step(f, i)
        BY <2>3, <3>1 DEF Step
      <3>3. CASE i <= k
        BY <2>2, <2>3, <3>2, <3>3
      <3>4. CASE i = k + 1
        BY <2>4, <3>2, <3>4
      <3> QED
        BY <3>3, <3>4
    <2>7. Splits(g, s, k + 1)
      BY <2>5, <2>6 DEF Splits, Step
    <2> QED
      BY <2>7
  <1> HIDE DEF S
  <1>3. n \in S
    BY <1>1, <1>2, UpTo
  <1> QED
    BY <1>3 DEF S

LEMMA SplitIs ==
    ASSUME NEW s \in Seq(StreamByte)
    PROVE  \E f : Splits(f, s, Len(s)) /\ Split(s) = f[Len(s)].out
  <1> DEFINE f == CHOOSE f : Splits(f, s, Len(s))
  <1>1. Splits(f, s, Len(s))
    BY SplitsExists
  <1>2. Split(s) = f[Len(s)].out
    BY DEF Split, Splits
  <1> QED
    BY <1>1, <1>2

\* s is in the stream of rs behind the first B bytes.
Follows(s, rs, B) ==
    /\ B + Len(s) <= Len(FlattenSeq(rs))
    /\ \A i \in 1..Len(s) : FlattenSeq(rs)[B + i] = s[i]

\* The i-th byte of s, which is in the row after the first q, ends a message
\* if it is the last of that row and the row is not misread.
LEMMA ByteOf ==
    ASSUME NEW s \in Seq(StreamByte), NEW rs \in Seq(Rows), NEW B \in Nat, Follows(s, rs, B),
           NEW q \in 0..(Len(rs) - 1), NEW i \in 2..Len(s),
           Len(Flat(rs, q)) < B + i, B + i <= Len(Flat(rs, q + 1))
    PROVE  /\ rs[q + 1] \in Rows
           /\ Len(Flat(rs, q + 1)) = Len(Flat(rs, q)) + Len(rs[q + 1])
           /\ EndsMessage(s, i) <=> B + i = Len(Flat(rs, q + 1)) /\ ~Misread(rs[q + 1])
  <1> DEFINE r == rs[q + 1]
             R == FlattenSeq(rs)
             F == Flat(rs, q)
             G == Flat(rs, q + 1)
             lf == Len(F)
             lr == Len(r)
  <1>1. q \in 0..Len(rs) /\ q + 1 \in 0..Len(rs) /\ rs \in Seq(Pieces) /\ r \in Rows
    BY RowsArePieces
  <1>2. F \in Seq(StreamByte) /\ G = F \o r
    BY <1>1, FlatType, FlatStep
  <1>3. /\ r \in Seq(StreamByte) /\ lr \in Nat /\ lr > 1
        /\ r[1] # "nl" /\ r[lr] = "nl"
        /\ \A j \in 2..(lr - 1) : r[j] = "nl" => r[j - 1] = "bs"
    BY <1>1, RowFacts
  <1>4. \A j \in 1..Len(G) : G[j] = R[j]
    BY <1>1, FlatPrefix
  <1>5. lf < B + i /\ B + i <= Len(G) /\ (Misread(r) <=> r[lr - 1] = "bs")
    BY DEF Misread
  <1>6. \A j \in 1..Len(s) : R[B + j] = s[j]
    BY DEF Follows
  <1>7. i - 1 \in 1..Len(s) /\ i \in 1..Len(s) /\ B + (i - 1) = (B + i) - 1 /\ i > 1
    OBVIOUS
  <1> HIDE DEF r, R, F, G
  <1>8. Len(G) = lf + lr /\ \A j \in 1..lr : G[lf + j] = r[j]
    BY <1>2, <1>3, JoinType
  <1>9. lf \in Nat
    BY <1>2
  <1> HIDE DEF lf, lr
  <1> DEFINE p == (B + i) - lf
  <1>10. p \in 1..lr /\ lf + p = B + i /\ lf + p \in 1..Len(G) /\ (p = lr <=> B + i = Len(G))
    BY <1>3, <1>5, <1>8, <1>9
  <1>11. p > 1 => p - 1 \in 1..lr /\ lf + (p - 1) = B + (i - 1) /\ lf + (p - 1) \in 1..Len(G)
    BY <1>3, <1>8, <1>9, <1>10
  <1> HIDE DEF p
  <1>12. s[i] = r[p]
    BY <1>4, <1>6, <1>7, <1>8, <1>10
  <1>13. p > 1 => s[i - 1] = r[p - 1]
    BY <1>4, <1>6, <1>7, <1>8, <1>11
  <1>14. EndsMessage(s, i) <=> s[i] = "nl" /\ s[i - 1] # "bs"
    BY <1>7 DEF EndsMessage
  <1>15. EndsMessage(s, i) <=> p = lr /\ ~Misread(r)
    <2>1. CASE p = 1
      BY <1>3, <1>12, <1>14, <2>1
    <2>2. CASE p = lr
      BY <1>3, <1>5, <1>12, <1>13, <1>14, <2>2
    <2>3. CASE p # 1 /\ p # lr
      <3>1. p \in 2..(lr - 1) /\ p > 1
        BY <1>3, <1>10, <2>3
      <3> QED
        BY <1>3, <1>12, <1>13, <1>14, <2>3, <3>1
    <2> QED
      BY <2>1, <2>2, <2>3
  <1> QED
    BY <1>1, <1>8, <1>10, <1>15 DEF r, F, G, lf, lr

\* s has the rows of rs from the h-th, without it, to the b-th at head to e.
Between(s, rs, B, h, b, head, e) ==
    /\ s \in Seq(StreamByte) /\ rs \in Seq(Rows) /\ B \in Nat /\ Follows(s, rs, B)
    /\ h \in 0..Len(rs) /\ b \in 0..Len(rs) /\ e \in 1..Len(s) /\ head \in 1..e
    /\ Len(Flat(rs, h)) + 1 = B + head /\ Len(Flat(rs, b)) = B + e

\* x makes the stream of h rows that of b rows.
Extends(x, rs, h, b) == x \in Pieces /\ Flat(rs, h) \o x = Flat(rs, b)

\* What is cut out of s between two ends of rows are the rows between them.
LEMMA CutOut ==
    ASSUME NEW s, NEW rs, NEW B, NEW h, NEW b, NEW head, NEW e, Between(s, rs, B, h, b, head, e)
    PROVE  Extends(SubSeq(s, head, e), rs, h, b)
  <1> DEFINE x == SubSeq(s, head, e)
             F == Flat(rs, h)
             G == Flat(rs, b)
             R == FlattenSeq(rs)
             lf == Len(F)
             t == F \o x
  <1> USE DEF Between
  <1>1. rs \in Seq(Pieces)
    BY RowsArePieces
  <1>2. F \in Seq(StreamByte) /\ G \in Seq(StreamByte)
    BY <1>1, FlatType
  <1>3. /\ \A j \in 1..Len(F) : F[j] = R[j]
        /\ \A j \in 1..Len(G) : G[j] = R[j]
    BY <1>1, FlatPrefix
  <1>4. \A j \in 1..Len(s) : R[B + j] = s[j]
    BY DEF Follows
  <1>5. x \in Seq(StreamByte) /\ Len(x) = (e - head) + 1
        /\ \A j \in 1..((e - head) + 1) : x[j] = s[(head + j) - 1]
    OBVIOUS
  <1>6. lf + 1 = B + head /\ Len(G) = B + e /\ lf \in Nat
    BY <1>2
  <1> HIDE DEF x, F, G, R
  <1>7. /\ t \in Seq(StreamByte) /\ Len(t) = lf + Len(x)
        /\ \A j \in 1..lf : t[j] = F[j]
        /\ \A j \in 1..Len(x) : t[lf + j] = x[j]
    BY <1>2, <1>5, JoinType
  <1> HIDE DEF t, lf
  <1>8. Len(t) = Len(G)
    BY <1>5, <1>6, <1>7
  <1>9. ASSUME NEW j \in 1..Len(G) PROVE t[j] = G[j]
    <2>1. CASE j <= lf
      <3>1. j \in 1..lf
        BY <1>6, <2>1
      <3> QED
        BY <1>3, <1>7, <1>9, <3>1 DEF lf
    <2>2. CASE j > lf
      <3> DEFINE d == j - lf
                 c == (head + d) - 1
      <3>1. d \in 1..((e - head) + 1) /\ lf + d = j /\ c \in 1..Len(s) /\ B + c = j
        BY <1>6, <2>2
      <3> HIDE DEF d
      <3>2. t[j] = x[d] /\ x[d] = s[c]
        BY <1>5, <1>7, <3>1
      <3> HIDE DEF c
      <3> QED
        BY <1>3, <1>4, <3>1, <3>2
    <2> QED
      BY <1>6, <2>1, <2>2
  <1>10. t = G
    BY <1>2, <1>7, <1>8, <1>9, SameBytes
  <1>11. x # <<>>
    BY <1>5
  <1> QED
    BY <1>5, <1>10, <1>11 DEF Pieces, t, x, F, G, Extends

\* x is the message after g, and ends in the b-th row.
Follower(g, x, rs, h, b) ==
    /\ rs \in Seq(Rows) /\ g \in Seq(Pieces) /\ x \in Pieces
    /\ h \in 0..Len(rs) /\ b \in 0..Len(rs) /\ h < b
    /\ Joined(g, rs) /\ FlattenSeq(g) = Flat(rs, h) /\ Flat(rs, h) \o x = Flat(rs, b)
    /\ \A i \in (h + 1)..b : Misread(rs[i]) <=> i < b

LEMMA JoinedMore ==
    ASSUME NEW g, NEW x, NEW rs, NEW h, NEW b, Follower(g, x, rs, h, b)
    PROVE  Joined(Append(g, x), rs) /\ FlattenSeq(Append(g, x)) = Flat(rs, b)
  <1> DEFINE t == Append(g, x)
             n == Len(g)
  <1> USE DEF Follower
  <1>1. /\ n \in Nat /\ Len(t) = n + 1 /\ t \in Seq(Pieces)
        /\ \A j \in 0..n : SubSeq(t, 1, j) = SubSeq(g, 1, j)
    OBVIOUS
  <1>2. \A j \in 0..n : Flat(t, j) = Flat(g, j)
    BY <1>1 DEF Flat
  <1>3. FlattenSeq(g) \in Seq(StreamByte) /\ Flat(g, n) = FlattenSeq(g)
    BY FlatAll
  <1>4. FlattenSeq(t) = Flat(rs, b)
    BY <1>3, FlatMore
  <1>5. Flat(t, n + 1) = FlattenSeq(t)
    BY <1>1, FlatAll
  <1> HIDE DEF t
  <1>6. ASSUME NEW j \in 1..Len(t)
        PROVE  \E c, d \in 0..Len(rs) :
                 /\ Flat(t, j - 1) = Flat(rs, c) /\ Flat(t, j) = Flat(rs, d)
                 /\ c < d /\ \A i \in (c + 1)..d : Misread(rs[i]) <=> i < d
    <2>1. CASE j \in 1..n
      <3>1. j \in 0..n /\ j - 1 \in 0..n
        BY <1>1, <2>1
      <3>2. Flat(t, j) = Flat(g, j) /\ Flat(t, j - 1) = Flat(g, j - 1)
        BY <1>2, <3>1
      <3> QED
        BY <2>1, <3>2 DEF Joined
    <2>2. CASE j = n + 1
      <3>1. n \in 0..n /\ j - 1 = n
        BY <1>1, <2>2
      <3>2. Flat(t, j) = Flat(rs, b) /\ Flat(t, j - 1) = Flat(rs, h)
        BY <1>2, <1>3, <1>4, <1>5, <2>2, <3>1
      <3> QED
        BY <3>2
    <2> QED
      BY <1>1, <2>1, <2>2
  <1>7. Joined(t, rs)
    BY <1>6 DEF Joined
  <1> QED
    BY <1>4, <1>7 DEF t

\* The loop after the i-th byte of s, which follows the messages ms: with out
\* the first h rows are reported, and those from there to the q-th, which is
\* the last that has ended, are misread.
Stands(out, head, ms, rs, B, i, h, q) ==
    /\ out \in Seq(Pieces) /\ head \in 1..(i + 1)
    /\ Joined(ms \o out, rs) /\ FlattenSeq(ms \o out) = Flat(rs, h)
    /\ Len(Flat(rs, h)) + 1 = B + head
    /\ h <= q /\ \A j \in (h + 1)..q : Misread(rs[j])
    /\ Len(Flat(rs, q)) <= B + i
    /\ q < Len(rs) => B + i < Len(Flat(rs, q + 1))

Found(f, ms, rs, B, i) ==
    \E h, q \in 0..Len(rs) : Stands(f[i].out, f[i].head, ms, rs, B, i, h, q)

\* One more byte.
LEMMA LoopStep ==
    ASSUME NEW s \in Seq(StreamByte), NEW rs \in Seq(Rows), NEW ms \in Seq(Pieces),
           NEW B \in Nat, Follows(s, rs, B), NEW i \in 1..(Len(s) - 1),
           NEW out, NEW head, NEW h \in 0..Len(rs), NEW q \in 0..Len(rs),
           Stands(out, head, ms, rs, B, i, h, q)
    PROVE  IF EndsMessage(s, i + 1)
             THEN \E b \in 0..Len(rs) :
                    Stands(Append(out, SubSeq(s, head, i + 1)), (i + 1) + 1, ms, rs, B, i + 1, b, b)
             ELSE \E b \in 0..Len(rs) : Stands(out, head, ms, rs, B, i + 1, h, b)
  <1> DEFINE e == i + 1
             F(k) == Flat(rs, k)
             n == Len(rs)
  <1>1. /\ out \in Seq(Pieces) /\ head \in 1..(i + 1)
        /\ Joined(ms \o out, rs) /\ FlattenSeq(ms \o out) = F(h)
        /\ Len(F(h)) + 1 = B + head
        /\ h <= q /\ \A j \in (h + 1)..q : Misread(rs[j])
        /\ Len(F(q)) <= B + i
        /\ q < n => B + i < Len(F(q + 1))
    BY DEF Stands
  <1>2. rs \in Seq(Pieces) /\ n \in Nat /\ e \in 2..Len(s) /\ e \in 1..Len(s) /\ e \in Nat /\ B + e = (B + i) + 1
    BY RowsArePieces
  <1>3. \A k \in 0..n : F(k) \in Seq(StreamByte)
    BY <1>2, FlatType
  <1>4. \A k \in 0..n : Len(F(k)) \in Nat
    BY <1>3
  <1>5. B + Len(s) <= Len(FlattenSeq(rs)) /\ F(n) = FlattenSeq(rs)
    BY <1>2, FlatAll DEF Follows
  <1>6. \A k \in 0..(n - 1) : Len(F(k)) < Len(F(k + 1))
    <2> SUFFICES ASSUME NEW k \in 0..(n - 1) PROVE Len(F(k)) < Len(F(k + 1))
      OBVIOUS
    <2>1. F(k) \in Seq(StreamByte)
      BY <1>3
    <2>2. rs[k + 1] \in Pieces /\ F(k + 1) = F(k) \o rs[k + 1]
      BY <1>2, <2>1, FlatStep
    <2>3. rs[k + 1] \in Seq(StreamByte) /\ Len(rs[k + 1]) > 0
      BY <2>2, PieceFacts
    <2> HIDE DEF F
    <2> QED
      BY <2>1, <2>2, <2>3
  <1> HIDE DEF F, e, n
  <1>7. q < n
    <2> SUFFICES ASSUME q = n PROVE FALSE
      BY <1>2 DEF n
    <2>1. Len(F(n)) <= B + i /\ B + Len(s) <= Len(F(n)) /\ Len(F(n)) \in Nat /\ Len(s) \in Nat
      BY <1>1, <1>2, <1>4, <1>5
    <2> QED
      BY <2>1
  <1> DEFINE b == q + 1
             r == rs[q + 1]
  <1>8. q \in 0..(n - 1) /\ b \in 0..n /\ h < b /\ h \in 0..n /\ q \in 0..n
    BY <1>1, <1>2, <1>7 DEF n
  <1>9. Len(F(q)) < B + e /\ B + e <= Len(F(b)) /\ Len(F(b)) \in Nat
    BY <1>1, <1>2, <1>4, <1>7, <1>8
  <1>10. EndsMessage(s, e) <=> B + e = Len(F(b)) /\ ~Misread(r)
    BY <1>2, <1>8, <1>9, ByteOf DEF F, n
  <1>11. b < n => Len(F(b)) < Len(F(b + 1))
    BY <1>2, <1>6, <1>8
  <1>12. head \in 1..(e + 1) /\ head \in 1..e /\ e + 1 \in 1..(e + 1)
    BY <1>1, <1>2 DEF e
  <1>13. CASE B + e # Len(F(b))
    <2>1. B + e < Len(F(q + 1)) /\ Len(F(q)) <= B + e
      <3>1. Len(F(q)) \in Nat
        BY <1>4, <1>8
      <3> QED
        BY <1>2, <1>9, <1>13, <3>1
    <2>2. Stands(out, head, ms, rs, B, e, h, q)
      BY <1>1, <1>12, <2>1 DEF Stands, F
    <2> QED
      BY <1>8, <1>10, <1>13, <2>2 DEF e, n
  <1>14. CASE B + e = Len(F(b)) /\ Misread(r)
    <2>1. \A j \in (h + 1)..b : Misread(rs[j])
      <3> SUFFICES ASSUME NEW j \in (h + 1)..b PROVE Misread(rs[j])
        OBVIOUS
      <3>1. CASE j = b
        BY <1>14, <3>1
      <3>2. CASE j # b
        BY <1>1, <1>8, <3>2
      <3> QED
        BY <3>1, <3>2
    <2>2. Len(F(b)) <= B + e /\ h <= b
      BY <1>8, <1>9, <1>14
    <2>3. b < n => B + e < Len(F(b + 1))
      BY <1>11, <1>14
    <2> HIDE DEF b
    <2>4. Stands(out, head, ms, rs, B, e, h, b)
      BY <1>1, <1>12, <2>1, <2>2, <2>3 DEF Stands, F, n
    <2> QED
      BY <1>8, <1>10, <1>14, <2>4 DEF e, n
  <1>15. CASE B + e = Len(F(b)) /\ ~Misread(r)
    <2> DEFINE x == SubSeq(s, head, e)
               g == ms \o out
    <2>1. x \in Pieces /\ F(h) \o x = F(b)
      <3>1. b \in 0..Len(rs) /\ Len(Flat(rs, h)) + 1 = B + head /\ Len(Flat(rs, b)) = B + e
        BY <1>1, <1>8, <1>15 DEF F, n
      <3> HIDE DEF b
      <3>3. e \in 1..Len(s) /\ head \in 1..e
        BY <1>2, <1>12
      <3>2. Between(s, rs, B, h, b, head, e)
        BY <3>1, <3>3 DEF Between
      <3>4. Extends(x, rs, h, b)
        BY <3>2, CutOut, Zenon
      <3> HIDE DEF x
      <3> QED
        BY <3>4 DEF F, Extends
    <2>2. \A j \in (h + 1)..b : Misread(rs[j]) <=> j < b
      <3> SUFFICES ASSUME NEW j \in (h + 1)..b PROVE Misread(rs[j]) <=> j < b
        OBVIOUS
      <3>1. CASE j = b
        BY <1>15, <3>1
      <3>2. CASE j # b
        <4>1. j \in (h + 1)..q /\ j < b
          BY <1>8, <3>2
        <4> QED
          BY <1>1, <4>1
      <3> QED
        BY <3>1, <3>2
    <2>3. g \in Seq(Pieces) /\ Append(out, x) \in Seq(Pieces) /\ ms \o Append(out, x) = Append(g, x)
      <3> HIDE DEF x
      <3>1. out \in Seq(Pieces) /\ x \in Pieces
        BY <1>1, <2>1
      <3> QED
        BY <3>1, JoinAppend
    <2>4. Joined(g, rs) /\ FlattenSeq(g) = F(h)
      BY <1>1
    <2> HIDE DEF x, g, b
    <2>5. Joined(Append(g, x), rs) /\ FlattenSeq(Append(g, x)) = F(b)
      <3>1. b \in 0..Len(rs) /\ FlattenSeq(g) = Flat(rs, h) /\ Flat(rs, h) \o x = Flat(rs, b)
        BY <1>8, <2>1, <2>4 DEF F, n
      <3>2. Joined(Append(g, x), rs) /\ FlattenSeq(Append(g, x)) = Flat(rs, b)
        <4>1. h < b /\ g \in Seq(Pieces) /\ x \in Pieces /\ Joined(g, rs)
          BY <1>8, <2>1, <2>3, <2>4
        <4>2. Follower(g, x, rs, h, b)
          BY <2>2, <3>1, <4>1 DEF Follower
        <4> QED
          BY <4>2, JoinedMore, Zenon
      <3> QED
        BY <3>2 DEF F
    <2>10. b <= b
      BY <1>8 DEF b
    <2>6. Len(F(b)) + 1 = B + (e + 1) /\ Len(F(b)) <= B + e
      <3> DEFINE l == Len(F(b))
      <3>1. l = B + e /\ e \in Nat
        BY <1>2, <1>15
      <3> HIDE DEF l
      <3> QED
        BY <3>1 DEF l
    <2>7. b < n => B + e < Len(F(b + 1))
      BY <1>11, <1>15
    <2>8. \A j \in (b + 1)..b : Misread(rs[j])
      BY <1>2, <1>8 DEF b
    <2>9. Stands(Append(out, x), e + 1, ms, rs, B, e, b, b)
      BY <1>12, <2>3, <2>5, <2>6, <2>7, <2>8, <2>10 DEF Stands, F, n
    <2> QED
      BY <1>8, <1>10, <1>15, <2>9 DEF e, n, x, b
  <1> QED
    BY <1>13, <1>14, <1>15

\* By induction over the bytes of s.
LEMMA LoopFinds ==
    ASSUME NEW s \in Seq(StreamByte), NEW rs \in Seq(Rows), NEW ms \in Seq(Pieces),
           NEW m \in 0..Len(rs), NEW B \in Nat, FlattenSeq(ms) = Flat(rs, m), Len(Flat(rs, m)) = B,
           Joined(ms, rs), Follows(s, rs, B), NEW f, Splits(f, s, Len(s))
    PROVE  \A i \in 1..Len(s) : Found(f, ms, rs, B, i)
  <1> DEFINE n == Len(s)
             S == {i \in Nat : i = 0 \/ Found(f, ms, rs, B, i)}
  <1>1. n \in Nat /\ Len(rs) \in Nat /\ m \in Nat
    OBVIOUS
  <1>2. \A i \in 1..n : f[i] =
           IF i = 1 THEN [out |-> <<>>, head |-> 1]
           ELSE IF EndsMessage(s, i)
             THEN [out |-> Append(f[i - 1].out, SubSeq(s, f[i - 1].head, i)), head |-> i + 1]
           ELSE f[i - 1]
    BY DEF Splits
  <1>3. ASSUME 1 \in 1..n PROVE Found(f, ms, rs, B, 1)
    <2>1. f[1] = [out |-> <<>>, head |-> 1]
      BY <1>2, <1>3
    <2>2. f[1].out = <<>> /\ f[1].head = 1
      BY <2>1
    <2>3. ms \o <<>> = ms /\ <<>> \in Seq(Pieces) /\ 1 \in 1..2
      OBVIOUS
    <2>4. m < Len(rs) => B + 1 < Len(Flat(rs, m + 1))
      <3> SUFFICES ASSUME m < Len(rs) PROVE B + 1 < Len(Flat(rs, m + 1))
        OBVIOUS
      <3>1. m \in 0..(Len(rs) - 1) /\ rs \in Seq(Pieces) /\ rs[m + 1] \in Rows
        BY <1>1, RowsArePieces
      <3>2. Flat(rs, m) \in Seq(StreamByte)
        BY <3>1, FlatType
      <3>3. Flat(rs, m + 1) = Flat(rs, m) \o rs[m + 1]
        BY <3>1, <3>2, FlatStep
      <3>4. rs[m + 1] \in Seq(StreamByte) /\ Len(rs[m + 1]) > 1
        BY <3>1, RowFacts
      <3>5. Len(Flat(rs, m + 1)) = B + Len(rs[m + 1]) /\ Len(rs[m + 1]) \in Nat
        BY <3>2, <3>3, <3>4, JoinType
      <3> QED
        BY <3>4, <3>5
    <2>5. \A j \in (m + 1)..m : Misread(rs[j])
      BY <1>1
    <2>6. m <= m /\ B <= B + 1 /\ 1 \in 1..(1 + 1)
      BY <1>1
    <2>7. Stands(<<>>, 1, ms, rs, B, 1, m, m)
      BY <2>3, <2>4, <2>5, <2>6 DEF Stands
    <2> QED
      BY <2>2, <2>7 DEF Found
  <1>4. ASSUME NEW i \in 1..(n - 1), Found(f, ms, rs, B, i) PROVE Found(f, ms, rs, B, i + 1)
    <2> DEFINE out == f[i].out
               head == f[i].head
    <2>1. PICK h \in 0..Len(rs), q \in 0..Len(rs) : Stands(out, head, ms, rs, B, i, h, q)
      BY <1>4 DEF Found
    <2>2. i + 1 \in 1..n /\ i + 1 # 1 /\ (i + 1) - 1 = i
      BY <1>1
    <2>3. f[i + 1] = IF EndsMessage(s, i + 1)
                       THEN [out |-> Append(out, SubSeq(s, head, i + 1)), head |-> (i + 1) + 1]
                       ELSE f[i]
      BY <1>2, <2>2
    <2> HIDE DEF out, head
    <2>4. IF EndsMessage(s, i + 1)
            THEN \E b \in 0..Len(rs) :
                   Stands(Append(out, SubSeq(s, head, i + 1)), (i + 1) + 1, ms, rs, B, i + 1, b, b)
            ELSE \E b \in 0..Len(rs) : Stands(out, head, ms, rs, B, i + 1, h, b)
      BY <2>1, LoopStep
    <2>5. CASE EndsMessage(s, i + 1)
      <3> DEFINE new == Append(out, SubSeq(s, head, i + 1))
      <3>1. PICK b \in 0..Len(rs) : Stands(new, (i + 1) + 1, ms, rs, B, i + 1, b, b)
        BY <2>4, <2>5
      <3>3. f[i + 1] = [out |-> new, head |-> (i + 1) + 1]
        BY <2>3, <2>5
      <3> HIDE DEF new
      <3>2. f[i + 1].out = new /\ f[i + 1].head = (i + 1) + 1
        BY <3>3
      <3> QED
        BY <3>1, <3>2 DEF Found
    <2>6. CASE ~EndsMessage(s, i + 1)
      <3>1. PICK b \in 0..Len(rs) : Stands(out, head, ms, rs, B, i + 1, h, b)
        BY <2>4, <2>6
      <3>2. f[i + 1].out = out /\ f[i + 1].head = head
        BY <2>3, <2>6 DEF out, head
      <3> QED
        BY <3>1, <3>2 DEF Found
    <2> QED
      BY <2>5, <2>6
  <1>8. ASSUME NEW i \in 0..(n - 1), i \in S PROVE i + 1 \in S
    <2>1. i + 1 \in Nat
      OBVIOUS
    <2>2. CASE i = 0
      <3>1. 1 \in 1..n /\ i + 1 = 1
        BY <1>1, <2>2
      <3> QED
        BY <1>3, <2>1, <3>1
    <2>3. CASE i # 0
      <3>1. i \in 1..(n - 1)
        BY <1>1, <2>3
      <3> QED
        BY <1>4, <1>8, <2>1, <2>3, <3>1
    <2> QED
      BY <2>2, <2>3
  <1>9. 0 \in S
    OBVIOUS
  <1> HIDE DEF S, n
  <1>10. \A i \in 0..n : i \in S
    BY <1>1, <1>8, <1>9, UpTo
  <1>11. \A i \in 1..n : i \in 0..n /\ i # 0
    BY <1>1
  <1> QED
    BY <1>10, <1>11 DEF S, n

\* A stream that ends in a message is split into the rows that it is made of.
LEMMA SplitFinds ==
    ASSUME NEW s \in Seq(StreamByte), NEW rs \in Seq(Rows), NEW ms \in Seq(Pieces),
           NEW m \in 0..Len(rs), NEW B \in Nat, FlattenSeq(ms) = Flat(rs, m), Len(Flat(rs, m)) = B,
           Joined(ms, rs), Follows(s, rs, B), BreaksLoop(s)
    PROVE  /\ Split(s) \in Seq(Pieces) /\ Joined(ms \o Split(s), rs)
           /\ \E h \in 0..Len(rs) :
                FlattenSeq(ms \o Split(s)) = Flat(rs, h) /\ Len(Flat(rs, h)) = B + Len(s)
  <1> DEFINE n == Len(s)
  <1>1. n \in Nat /\ n > 1 /\ EndsMessage(s, n)
    BY DEF BreaksLoop
  <1>2. n \in 1..n /\ n # 1
    <2> HIDE DEF n
    <2> QED
      BY <1>1
  <1>3. PICK f : Splits(f, s, n) /\ Split(s) = f[n].out
    BY SplitIs
  <1>4. Found(f, ms, rs, B, n)
    BY <1>2, <1>3, LoopFinds
  <1>5. f[n] = [out |-> Append(f[n - 1].out, SubSeq(s, f[n - 1].head, n)), head |-> n + 1]
    BY <1>1, <1>2, <1>3 DEF Splits
  <1>6. f[n].head = n + 1
    BY <1>5
  <1>7. PICK h \in 0..Len(rs), q \in 0..Len(rs) : Stands(Split(s), n + 1, ms, rs, B, n, h, q)
    BY <1>3, <1>4, <1>6 DEF Found
  <1>8. /\ Split(s) \in Seq(Pieces) /\ Joined(ms \o Split(s), rs)
        /\ FlattenSeq(ms \o Split(s)) = Flat(rs, h) /\ Len(Flat(rs, h)) + 1 = B + (n + 1)
    BY <1>7 DEF Stands
  <1>9. Flat(rs, h) \in Seq(StreamByte)
    BY RowsArePieces, FlatType
  <1>10. Len(Flat(rs, h)) \in Nat
    BY <1>9
  <1> HIDE DEF n
  <1>11. Len(Flat(rs, h)) = B + n
    BY <1>1, <1>8, <1>10
  <1> QED
    BY <1>8, <1>11 DEF n

\* With those messages, the messages are again the rows, joined where they are
\* misread, and make the stream that was read.
LEMMA MessagesGrow ==
    ASSUME NEW rs \in Seq(Rows), NEW ms \in Seq(Pieces), NEW s \in Seq(StreamByte),
           NEW rest \in Seq(StreamByte), BreaksLoop(s),
           NEW m \in 0..Len(rs), FlattenSeq(ms) = Flat(rs, m), Joined(ms, rs),
           FlattenSeq(ms) \o (s \o rest) = FlattenSeq(rs)
    PROVE  LET new == ms \o Split(s)
           IN  /\ new \in Seq(Pieces) /\ Joined(new, rs)
               /\ \E h \in 0..Len(rs) : FlattenSeq(new) = Flat(rs, h)
               /\ FlattenSeq(new) \o rest = FlattenSeq(rs)
  <1> DEFINE M == FlattenSeq(ms)
             R == FlattenSeq(rs)
             sp == Split(s)
             new == ms \o sp
             N == FlattenSeq(new)
  <1>1. rs \in Seq(Pieces)
    BY RowsArePieces
  <1>2. M = Flat(rs, m)
    OBVIOUS
  <1>3. M \in Seq(StreamByte) /\ R \in Seq(StreamByte)
    BY <1>1, FlatAll
  <1>4. R = M \o (s \o rest)
    OBVIOUS
  <1> HIDE DEF M, R
  <1>5. /\ s \o rest \in Seq(StreamByte) /\ Len(s \o rest) = Len(s) + Len(rest)
        /\ \A i \in 1..Len(s) : (s \o rest)[i] = s[i]
        /\ \A i \in 1..Len(rest) : (s \o rest)[Len(s) + i] = rest[i]
    BY JoinType
  <1>6. /\ Len(R) = Len(M) + Len(s \o rest)
        /\ \A i \in 1..Len(s \o rest) : R[Len(M) + i] = (s \o rest)[i]
    BY <1>3, <1>4, <1>5, JoinType
  <1>7. Len(M) \in Nat /\ Len(s) \in Nat /\ Len(rest) \in Nat
    BY <1>3
  <1>8. Follows(s, rs, Len(M))
    <2>1. \A i \in 1..Len(s) : i \in 1..Len(s \o rest)
      BY <1>5, <1>7
    <2>2. \A i \in 1..Len(s) : R[Len(M) + i] = s[i]
      BY <1>5, <1>6, <2>1
    <2>3. Len(M) + Len(s) <= Len(R)
      BY <1>5, <1>6, <1>7
    <2> QED
      BY <2>2, <2>3 DEF Follows, R
  <1>9. /\ sp \in Seq(Pieces) /\ Joined(new, rs)
        /\ \E h \in 0..Len(rs) : N = Flat(rs, h) /\ Len(Flat(rs, h)) = Len(M) + Len(s)
    BY <1>2, <1>7, <1>8, SplitFinds DEF M
  <1>10. new \in Seq(Pieces)
    <2> HIDE DEF sp
    <2> QED
      BY <1>9
  <1>12. PICK h \in 0..Len(rs) : N = Flat(rs, h) /\ Len(N) = Len(M) + Len(s)
    BY <1>9
  <1> HIDE DEF new
  <1>13. N \in Seq(StreamByte) /\ Len(N) <= Len(R) /\ \A i \in 1..Len(N) : N[i] = R[i]
    BY <1>1, <1>12, FlatType, FlatPrefix DEF R
  <1>14. Len(N) = Len(M) + Len(s)
    BY <1>12
  <1> HIDE DEF N
  <1>15. N \o rest = R
    <2> DEFINE t == N \o rest
    <2>1. /\ t \in Seq(StreamByte) /\ Len(t) = Len(N) + Len(rest)
          /\ \A i \in 1..Len(N) : t[i] = N[i]
          /\ \A i \in 1..Len(rest) : t[Len(N) + i] = rest[i]
      BY <1>13, JoinType
    <2> HIDE DEF t
    <2>2. Len(t) = Len(R)
      BY <1>5, <1>6, <1>7, <1>14, <2>1
    <2>3. \A i \in 1..Len(t) : t[i] = R[i]
      <3> SUFFICES ASSUME NEW i \in 1..Len(t) PROVE t[i] = R[i]
        OBVIOUS
      <3>1. CASE i <= Len(N)
        <4>1. i \in 1..Len(N)
          BY <1>13, <3>1
        <4> QED
          BY <1>13, <2>1, <4>1
      <3>2. CASE i > Len(N)
        <4> DEFINE j == i - Len(N)
        <4>1. j \in 1..Len(rest) /\ i = Len(N) + j /\ Len(s) + j \in 1..Len(s \o rest)
              /\ i = Len(M) + (Len(s) + j)
          <5> DEFINE ln == Len(N)
                     lr == Len(rest)
                     ls == Len(s)
                     lm == Len(M)
                     lt == Len(t)
          <5>1. ln \in Nat /\ lr \in Nat /\ ls \in Nat /\ lm \in Nat /\ lt = ln + lr
                /\ ln = lm + ls /\ i \in 1..lt /\ i > ln
            BY <1>7, <1>13, <1>14, <2>1, <3>2
          <5> HIDE DEF ln, lr, ls, lm, lt
          <5>2. i - ln \in 1..lr /\ i = ln + (i - ln) /\ ls + (i - ln) \in 1..(ls + lr)
                /\ i = lm + (ls + (i - ln))
            BY <5>1
          <5> QED
            BY <1>5, <5>2 DEF ln, lr, ls, lm
        <4> HIDE DEF j
        <4>2. t[i] = rest[j]
          BY <2>1, <4>1
        <4>3. R[i] = (s \o rest)[Len(s) + j]
          BY <1>6, <4>1
        <4> QED
          BY <1>5, <4>1, <4>2, <4>3
      <3> QED
        BY <1>13, <2>1, <3>1, <3>2
    <2>4. t = R
      BY <1>3, <2>1, <2>2, <2>3, SameBytes
    <2> QED
      BY <2>4 DEF t
  <1>16. \E k \in 0..Len(rs) : N = Flat(rs, k)
    BY <1>12
  <1> QED
    BY <1>9, <1>10, <1>15, <1>16 DEF new, N, R, sp

-----------------------------------------------------------------------------
(***************************************************************************)
(* NothingLost is inductive with types, with what recv holds between its   *)
(* calls, which is nothing, and with what the messages are: whole rows.    *)
(***************************************************************************)
MockInv ==
    /\ rows \in Seq(Rows) /\ msgs \in Seq(Pieces)
    /\ \E m \in 0..Len(rows) : FlattenSeq(msgs) = Flat(rows, m)
    /\ accum \in Seq(StreamByte) /\ avail \in Seq(StreamByte) /\ flight \in Seq(StreamByte)
    /\ at # "reading" => accum = <<>>
    /\ NothingLost

\* Rows that are flushed later change nothing about the messages.
LEMMA JoinedGrows ==
    ASSUME NEW rs \in Seq(Rows), NEW batch \in Seq(Rows), NEW ms, Joined(ms, rs)
    PROVE  /\ Joined(ms, rs \o batch)
           /\ \A k \in 0..Len(rs) : k \in 0..Len(rs \o batch) /\ Flat(rs \o batch, k) = Flat(rs, k)
  <1> DEFINE t == rs \o batch
  <1>1. /\ t \in Seq(Rows) /\ Len(t) = Len(rs) + Len(batch) /\ Len(rs) \in Nat /\ Len(batch) \in Nat
        /\ \A i \in 1..Len(rs) : t[i] = rs[i]
    OBVIOUS
  <1>2. \A k \in 0..Len(rs) : SubSeq(t, 1, k) = SubSeq(rs, 1, k)
    OBVIOUS
  <1> HIDE DEF t
  <1>6. \A k \in 0..Len(rs) : k \in 0..Len(t)
    BY <1>1
  <1>3. \A k \in 0..Len(rs) : k \in 0..Len(t) /\ Flat(t, k) = Flat(rs, k)
    BY <1>2, <1>6 DEF Flat
  <1>4. ASSUME NEW j \in 1..Len(ms)
        PROVE  \E a, b \in 0..Len(t) :
                 /\ Flat(ms, j - 1) = Flat(t, a) /\ Flat(ms, j) = Flat(t, b)
                 /\ a < b /\ \A i \in (a + 1)..b : Misread(t[i]) <=> i < b
    <2>1. PICK a \in 0..Len(rs), b \in 0..Len(rs) :
            /\ Flat(ms, j - 1) = Flat(rs, a) /\ Flat(ms, j) = Flat(rs, b)
            /\ a < b /\ \A i \in (a + 1)..b : Misread(rs[i]) <=> i < b
      BY DEF Joined
    <2>2. \A i \in (a + 1)..b : t[i] = rs[i]
      <3>1. \A i \in (a + 1)..b : i \in 1..Len(rs)
        BY <1>1
      <3> QED
        BY <1>1, <3>1
    <2>3. a \in 0..Len(t) /\ b \in 0..Len(t) /\ Flat(t, a) = Flat(rs, a) /\ Flat(t, b) = Flat(rs, b)
      BY <1>3
    <2> QED
      BY <2>1, <2>2, <2>3
  <1>5. Joined(ms, t)
    BY <1>4 DEF Joined
  <1> QED
    BY <1>3, <1>5 DEF t

LEMMA JoinFacts ==
    ASSUME NEW a \in Seq(StreamByte), NEW c \in Seq(StreamByte), NEW d \in Seq(StreamByte)
    PROVE  (a \o c) \o d = a \o (c \o d)
  OBVIOUS

LEMMA CutFacts ==
    ASSUME NEW s \in Seq(StreamByte), NEW n \in 0..Len(s)
    PROVE  /\ SubSeq(s, 1, n) \in Seq(StreamByte)
           /\ SubSeq(s, n + 1, Len(s)) \in Seq(StreamByte)
           /\ SubSeq(s, 1, n) \o SubSeq(s, n + 1, Len(s)) = s
  <1> DEFINE l == SubSeq(s, 1, n)
             r == SubSeq(s, n + 1, Len(s))
             t == l \o r
  <1>1. l \in Seq(StreamByte) /\ Len(l) = n /\ \A i \in 1..n : l[i] = s[i]
    OBVIOUS
  <1>2. r \in Seq(StreamByte)
    OBVIOUS
  <1>3. Len(r) = Len(s) - n
    OBVIOUS
  <1>4. \A i \in 1..(Len(s) - n) : r[i] = s[n + i]
    OBVIOUS
  <1> HIDE DEF l, r
  <1>5. t \in Seq(StreamByte) /\ Len(t) = Len(s)
    BY <1>1, <1>2, <1>3
  <1>6. \A i \in 1..Len(s) : t[i] = s[i]
    <2> SUFFICES ASSUME NEW i \in 1..Len(s) PROVE t[i] = s[i]
      OBVIOUS
    <2>1. CASE i <= n
      BY <1>1, <1>2, <2>1
    <2>2. CASE ~(i <= n)
      <3>1. i - n \in 1..(Len(s) - n) /\ n + (i - n) = i
        BY <2>2
      <3>2. t[i] = r[i - n]
        BY <1>1, <1>2, <1>3, <2>2
      <3> QED
        BY <1>4, <3>1, <3>2
    <2> QED
      BY <2>1, <2>2
  <1> HIDE DEF t
  <1>7. t = s
    BY <1>5, <1>6
  <1> QED
    BY <1>1, <1>2, <1>7 DEF l, r, t

LEMMA MockInitInv == MockInit => MockInv
  <1> SUFFICES ASSUME MockInit PROVE MockInv
    OBVIOUS
  <1>1. rows = <<>> /\ msgs = <<>> /\ accum = <<>> /\ avail = <<>> /\ flight = <<>>
    BY DEF MockInit
  <1>2. SubSeq(<<>>, 1, 0) = <<>> /\ Len(<<>>) = 0 /\ <<>> \o <<>> = <<>> /\ 1..0 = {} /\ 0 \in 0..0
    OBVIOUS
  <1>3. NothingLost
    BY <1>1, <1>2, FlatEmpty DEF NothingLost, Joined
  <1>4. <<>> \in Seq(Rows) /\ <<>> \in Seq(Pieces) /\ <<>> \in Seq(StreamByte)
    OBVIOUS
  <1>5. FlattenSeq(<<>>) = Flat(<<>>, 0)
    BY <1>2 DEF Flat
  <1>6. \E m \in 0..Len(rows) : FlattenSeq(msgs) = Flat(rows, m)
    BY <1>1, <1>2, <1>5
  <1> QED
    BY <1>1, <1>3, <1>4, <1>6 DEF MockInv

LEMMA TwoRows ==
    ASSUME NEW r \in Rows, NEW q \in Rows
    PROVE  Append(<<r>>, q) = <<r, q>>
  <1> DEFINE a == Append(<<r>>, q)
             c == <<r, q>>
  <1>1. a \in Seq(Rows) /\ Len(a) = 2 /\ a[1] = r /\ a[2] = q
    OBVIOUS
  <1>2. c \in Seq(Rows) /\ Len(c) = 2 /\ c[1] = r /\ c[2] = q
    OBVIOUS
  <1> HIDE DEF a, c
  <1>3. \A i \in 1..2 : a[i] = c[i]
    BY <1>1, <1>2
  <1>4. a = c
    BY <1>1, <1>2, <1>3
  <1> QED
    BY <1>4 DEF a, c

\* A flush puts its rows at the end of both.
LEMMA FlushKeeps == MockInv /\ Flush => MockInv'
  <1> SUFFICES ASSUME MockInv, Flush PROVE MockInv'
    OBVIOUS
  <1> DEFINE M == FlattenSeq(msgs)
             R == FlattenSeq(rows)
  <1>1. /\ rows \in Seq(Rows) /\ msgs \in Seq(Pieces) /\ Joined(msgs, rows)
        /\ accum \in Seq(StreamByte) /\ avail \in Seq(StreamByte) /\ flight \in Seq(StreamByte)
        /\ at # "reading" => accum = <<>>
        /\ at = "idle" /\ M \o accum \o avail \o flight = R
    BY DEF MockInv, NothingLost, Flush
  <1>11. PICK m \in 0..Len(rows) : M = Flat(rows, m)
    BY DEF MockInv
  <1>2. M \in Seq(StreamByte) /\ R \in Seq(StreamByte) /\ rows \in Seq(Pieces)
    BY <1>1, FlatAll, RowsArePieces
  <1>3. PICK batch \in {<<r>> : r \in Rows} \cup (Rows \X Rows) :
          rows' = rows \o batch /\ flight' = flight \o FlattenSeq(batch)
    BY DEF Flush
  <1>4. at' = at /\ accum' = accum /\ msgs' = msgs /\ avail' = avail
    BY DEF Flush
  <1> DEFINE b == FlattenSeq(batch)
  <1>5. b \in Seq(StreamByte) /\ batch \in Seq(Rows) /\ FlattenSeq(rows \o batch) = R \o b
    <2>1. CASE \E r \in Rows : batch = <<r>>
      <3>1. PICK r \in Rows : batch = <<r>>
        BY <2>1
      <3>2. rows \o <<r>> = Append(rows, r) /\ <<r>> \in Seq(Rows)
        BY <1>1
      <3>3. b = r /\ r \in Seq(StreamByte)
        BY <3>1, FlatOne, RowFacts, RowsArePieces
      <3>4. r \in Pieces
        BY RowsArePieces
      <3> QED
        BY <1>1, <1>2, <3>1, <3>2, <3>3, <3>4, FlatMore
    <2>2. CASE \E r \in Rows, q \in Rows : batch = <<r, q>>
      <3>1. PICK r \in Rows, q \in Rows : batch = <<r, q>>
        BY <2>2
      <3>2. rows \o <<r, q>> = Append(Append(rows, r), q) /\ <<r, q>> \in Seq(Rows)
        BY <1>1
      <3>13. r \in Pieces /\ q \in Pieces
        BY RowsArePieces
      <3>10. Append(rows, r) \in Seq(Pieces)
        BY <1>2, <3>13
      <3>11. <<r>> \in Seq(Pieces)
        BY <3>13
      <3>12. Append(<<r>>, q) = <<r, q>>
        BY TwoRows, Zenon
      <3>3. r \in Seq(StreamByte) /\ q \in Seq(StreamByte)
        BY RowFacts
      <3>4. FlattenSeq(<<r>>) = r
        BY <3>13, FlatOne
      <3>5. b = r \o q
        BY <3>1, <3>3, <3>4, <3>11, <3>12, <3>13, FlatMore
      <3>6. FlattenSeq(Append(rows, r)) = R \o r
        BY <1>2, <3>13, FlatMore
      <3>7. R \o r \in Seq(StreamByte) /\ r \o q \in Seq(StreamByte)
        BY <1>2, <3>3, JoinType
      <3>8. FlattenSeq(Append(Append(rows, r), q)) = (R \o r) \o q
        BY <3>6, <3>7, <3>10, <3>13, FlatMore
      <3>9. (R \o r) \o q = R \o (r \o q)
        BY <1>2, <3>3, JoinFacts
      <3> QED
        BY <3>1, <3>2, <3>5, <3>7, <3>8, <3>9
    <2>3. (\E r \in Rows : batch = <<r>>) \/ (\E r \in Rows, q \in Rows : batch = <<r, q>>)
      OBVIOUS
    <2> QED
      BY <2>1, <2>2, <2>3
  <1> HIDE DEF M, R, b
  <1>6. flight' \in Seq(StreamByte) /\ flight' = flight \o b
    BY <1>1, <1>3, <1>5, JoinType DEF b
  <1>7. /\ rows' \in Seq(Rows) /\ Joined(msgs', rows')
        /\ \E k \in 0..Len(rows') : FlattenSeq(msgs') = Flat(rows', k)
    <2> DEFINE t == rows \o batch
    <2>1. t \in Seq(Rows)
      BY <1>1, <1>5
    <2>2. Joined(msgs, t) /\ m \in 0..Len(t) /\ Flat(t, m) = Flat(rows, m)
      BY <1>1, <1>5, JoinedGrows
    <2> HIDE DEF t
    <2>3. rows' = t /\ msgs' = msgs
      BY <1>3, <1>4 DEF t
    <2>4. \E k \in 0..Len(t) : FlattenSeq(msgs) = Flat(t, k)
      BY <1>11, <2>2 DEF M
    <2> QED
      BY <2>1, <2>2, <2>3, <2>4
  <1>8. FlattenSeq(rows') = R \o b
    BY <1>3, <1>5
  <1>9. M \o accum \o avail \o (flight \o b) = R \o b
    <2>1. M \o accum \o avail \in Seq(StreamByte)
      BY <1>1, <1>2, JoinType
    <2> QED
      BY <1>1, <1>5, <2>1, JoinFacts
  <1>10. NothingLost'
    BY <1>4, <1>6, <1>7, <1>8, <1>9 DEF NothingLost, M
  <1> QED
    BY <1>1, <1>4, <1>6, <1>7, <1>10 DEF MockInv

\* The network moves bytes, and keeps their order.
LEMMA DeliverKeeps == MockInv /\ Deliver => MockInv'
  <1> SUFFICES ASSUME MockInv, Deliver PROVE MockInv'
    OBVIOUS
  <1> DEFINE M == FlattenSeq(msgs)
             R == FlattenSeq(rows)
  <1>1. /\ rows \in Seq(Rows) /\ msgs \in Seq(Pieces) /\ Joined(msgs, rows)
        /\ \E m \in 0..Len(rows) : M = Flat(rows, m)
        /\ accum \in Seq(StreamByte) /\ avail \in Seq(StreamByte) /\ flight \in Seq(StreamByte)
        /\ at # "reading" => accum = <<>>
        /\ at # "failed" => M \o accum \o avail \o flight = R
    BY DEF MockInv, NothingLost
  <1>2. M \in Seq(StreamByte)
    BY <1>1, FlatAll
  <1>3. at' = at /\ accum' = accum /\ msgs' = msgs /\ rows' = rows
    BY DEF Deliver
  <1> HIDE DEF M, R
  <1>4. avail' \in Seq(StreamByte) /\ flight' \in Seq(StreamByte) /\ avail' \o flight' = avail \o flight
    <2>1. CASE avail' = avail /\ flight' = flight
      BY <1>1, <2>1
    <2>2. CASE \E n \in 1..Len(flight) :
                 /\ avail' = avail \o SubSeq(flight, 1, n)
                 /\ flight' = SubSeq(flight, n + 1, Len(flight))
      <3>1. PICK n \in 1..Len(flight) :
                 /\ avail' = avail \o SubSeq(flight, 1, n)
                 /\ flight' = SubSeq(flight, n + 1, Len(flight))
        BY <2>2
      <3>2. n \in 0..Len(flight)
        BY <1>1
      <3> DEFINE l == SubSeq(flight, 1, n)
                 r == SubSeq(flight, n + 1, Len(flight))
      <3>3. l \in Seq(StreamByte) /\ r \in Seq(StreamByte) /\ l \o r = flight
        BY <1>1, <3>2, CutFacts
      <3>4. avail' = avail \o l /\ flight' = r
        BY <3>1
      <3> HIDE DEF l, r
      <3>5. (avail \o l) \o r = avail \o (l \o r)
        BY <1>1, <3>3, JoinFacts
      <3> QED
        BY <1>1, <3>3, <3>4, <3>5, JoinType
    <2> QED
      BY <2>1, <2>2 DEF Deliver
  <1>5. M \o accum \in Seq(StreamByte)
    BY <1>1, <1>2, JoinType
  <1>6. ((M \o accum) \o avail') \o flight' = ((M \o accum) \o avail) \o flight
    <2>1. ((M \o accum) \o avail') \o flight' = (M \o accum) \o (avail' \o flight')
      BY <1>4, <1>5, JoinFacts
    <2>2. ((M \o accum) \o avail) \o flight = (M \o accum) \o (avail \o flight)
      BY <1>1, <1>5, JoinFacts
    <2> QED
      BY <1>4, <2>1, <2>2
  <1>7. NothingLost'
    BY <1>1, <1>3, <1>6 DEF NothingLost, M, R
  <1> QED
    BY <1>1, <1>3, <1>4, <1>7 DEF MockInv, M

\* The chunk is some of what is available, perhaps nothing.
LEMMA ChunkIs ==
    ASSUME NEW l \in Nat
    PROVE  Min({ChunkLen, l}) \in 0..l
  <1>1. ChunkLen \in Nat
    BY BoundsAssumption
  <1>2. \E x \in {ChunkLen, l} : \A y \in {ChunkLen, l} : x <= y
    BY <1>1
  <1>3. Min({ChunkLen, l}) \in {ChunkLen, l} /\ \A y \in {ChunkLen, l} : Min({ChunkLen, l}) <= y
    BY <1>2 DEF Min
  <1> QED
    BY <1>1, <1>3

\* A turn of the loop takes a chunk, and reports the rows once they end there.
LEMMA ReadKeeps == MockInv /\ Read => MockInv'
  <1> SUFFICES ASSUME MockInv, Read PROVE MockInv'
    OBVIOUS
  <1> DEFINE M == FlattenSeq(msgs)
             R == FlattenSeq(rows)
             n == Min({ChunkLen, Len(avail)})
             l == SubSeq(avail, 1, n)
             r == SubSeq(avail, n + 1, Len(avail))
             s == accum \o l
  <1>1. /\ rows \in Seq(Rows) /\ msgs \in Seq(Pieces) /\ Joined(msgs, rows)
        /\ accum \in Seq(StreamByte) /\ avail \in Seq(StreamByte) /\ flight \in Seq(StreamByte)
        /\ M \o accum \o avail \o flight = R
    BY DEF MockInv, NothingLost, Read
  <1>11. \E m \in 0..Len(rows) : M = Flat(rows, m)
    BY DEF MockInv
  <1>2. M \in Seq(StreamByte)
    BY <1>1, FlatAll
  <1>3. /\ rows' = rows /\ flight' = flight /\ avail' = r /\ at = "reading"
        /\ IF BreaksLoop(s)
             THEN at' = "idle" /\ accum' = <<>> /\ msgs' = msgs \o Split(s)
             ELSE accum' = s /\ at' = at /\ msgs' = msgs
    BY DEF Read
  <1>4. n \in 0..Len(avail)
    <2>1. Len(avail) \in Nat
      BY <1>1
    <2> QED
      BY <2>1, ChunkIs, Zenon
  <1>5. l \in Seq(StreamByte) /\ r \in Seq(StreamByte) /\ l \o r = avail
    BY <1>1, <1>4, CutFacts
  <1> HIDE DEF l, r, M, R, n
  <1>6. s \in Seq(StreamByte) /\ s \o r = accum \o avail
    <2>1. s \in Seq(StreamByte)
      BY <1>1, <1>5, JoinType
    <2>2. (accum \o l) \o r = accum \o (l \o r)
      BY <1>1, <1>5, JoinFacts, Zenon
    <2> QED
      BY <1>5, <2>1, <2>2
  <1> HIDE DEF s
  <1>7. M \o (s \o (r \o flight)) = R
    <2>1. (M \o accum) \o avail = M \o (s \o r)
      <3>1. (M \o accum) \o avail = M \o (accum \o avail)
        BY <1>1, <1>2, JoinFacts, Zenon
      <3> QED
        BY <1>6, <3>1, Zenon
    <2>2. s \o r \in Seq(StreamByte)
      BY <1>5, <1>6, JoinType
    <2>3. (M \o (s \o r)) \o flight = M \o ((s \o r) \o flight)
      BY <1>1, <1>2, <2>2, JoinFacts
    <2>4. (s \o r) \o flight = s \o (r \o flight)
      BY <1>1, <1>5, <1>6, JoinFacts
    <2> QED
      BY <1>1, <2>1, <2>3, <2>4
  <1>8. r \o flight \in Seq(StreamByte)
    BY <1>1, <1>5, JoinType
  <1>9. CASE ~BreaksLoop(s)
    <2>1. accum' = s /\ msgs' = msgs /\ avail' = r /\ at' = "reading"
      BY <1>3, <1>9
    <2>2. ((M \o s) \o r) \o flight = M \o (s \o (r \o flight))
      <3>1. M \o s \in Seq(StreamByte)
        BY <1>2, <1>6, JoinType
      <3>2. ((M \o s) \o r) \o flight = (M \o s) \o (r \o flight)
        BY <1>1, <1>5, <3>1, JoinFacts
      <3>3. (M \o s) \o (r \o flight) = M \o (s \o (r \o flight))
        BY <1>2, <1>6, <1>8, JoinFacts
      <3> QED
        BY <3>2, <3>3
    <2>3. NothingLost'
      BY <1>1, <1>3, <1>7, <2>1, <2>2 DEF NothingLost, M, R
    <2> QED
      BY <1>1, <1>3, <1>5, <1>6, <1>11, <2>1, <2>3 DEF MockInv, M
  <1>10. CASE BreaksLoop(s)
    <2> DEFINE new == msgs \o Split(s)
               N == FlattenSeq(new)
    <2>1. at' = "idle" /\ accum' = <<>> /\ msgs' = new
      BY <1>3, <1>10
    <2>2. /\ new \in Seq(Pieces) /\ Joined(new, rows)
          /\ \E h \in 0..Len(rows) : N = Flat(rows, h)
          /\ N \o (r \o flight) = R
      <3>1. PICK m \in 0..Len(rows) : M = Flat(rows, m)
        BY <1>11
      <3> QED
        BY <1>1, <1>6, <1>7, <1>8, <1>10, <3>1, MessagesGrow DEF M, R
    <2>3. N \in Seq(StreamByte)
      BY <2>2, FlatAll
    <2> HIDE DEF new, N
    <2>4. N \o <<>> = N
      BY <2>3
    <2>5. (N \o r) \o flight = N \o (r \o flight)
      BY <1>1, <1>5, <2>3, JoinFacts
    <2>6. ((N \o <<>>) \o r) \o flight = R
      BY <2>2, <2>4, <2>5
    <2>7. NothingLost'
      BY <1>3, <2>1, <2>2, <2>6 DEF NothingLost, N, R
    <2>8. <<>> \in Seq(StreamByte)
      OBVIOUS
    <2> QED
      BY <1>1, <1>3, <1>5, <2>1, <2>2, <2>7, <2>8 DEF MockInv, N
  <1> QED
    BY <1>9, <1>10

\* Nothing else touches the stream; recv begins with nothing in its hands.
LEMMA OthersKeep ==
    ASSUME MockInv, UNCHANGED <<msgs, rows, avail, flight>>,
           accum' = accum, at \notin {"reading", "failed"}, at' = "reading" => at = "selecting"
    PROVE  MockInv'
  BY DEF MockInv, NothingLost

\* An exception loses what recv had taken, and no message.
LEMMA ThrowsKeeps == MockInv /\ Throws => MockInv'
  <1> SUFFICES ASSUME MockInv, Throws PROVE MockInv'
    OBVIOUS
  <1>1. /\ at' = "failed" /\ accum' = <<>> /\ msgs' = msgs
        /\ rows' = rows /\ avail' = avail /\ flight' = flight
    BY DEF Throws, net
  <1>2. <<>> \in Seq(StreamByte)
    OBVIOUS
  <1> QED
    BY <1>1, <1>2 DEF MockInv, NothingLost

LEMMA MockStep == MockInv /\ [MockNext]_mockvars => MockInv'
  <1> SUFFICES ASSUME MockInv, [MockNext]_mockvars PROVE MockInv'
    OBVIOUS
  <1> USE DEF net, fds
  <1>1. CASE Construct
    BY <1>1, OthersKeep DEF Construct
  <1>2. CASE accept
    BY <1>2, OthersKeep, ThrowsKeeps DEF accept
  <1>3. CASE recv
    <2>1. accum = <<>>
      BY <1>3 DEF recv, MockInv
    <2> QED
      BY <1>3, <2>1, OthersKeep DEF recv
  <1>4. CASE close
    BY <1>4, OthersKeep DEF close
  <1>5. CASE Destroy
    BY <1>5, OthersKeep DEF Destroy
  <1>6. CASE Connect
    BY <1>6, OthersKeep DEF Connect
  <1>7. CASE Flush
    BY <1>7, FlushKeeps
  <1>8. CASE CloseClient
    BY <1>8, OthersKeep DEF CloseClient
  <1>9. CASE Select
    BY <1>9, OthersKeep DEF Select
  <1>10. CASE Read
    BY <1>10, ReadKeeps
  <1>11. CASE Deliver
    BY <1>11, DeliverKeeps
  <1>13. CASE RecvThrows
    BY <1>13, ThrowsKeeps DEF RecvThrows
  <1>12. CASE UNCHANGED mockvars
    BY <1>12 DEF mockvars, MockInv, NothingLost
  <1> QED
    BY <1>1, <1>2, <1>3, <1>4, <1>5, <1>6, <1>7, <1>8, <1>9, <1>10, <1>11, <1>12, <1>13
       DEF MockNext, Test, Server, Over

\* However the network and the chunks cut the stream, a message of the server of
\* the tests is one row that was flushed, in order and whole, behind those right
\* before it that end in an escaped backslash, and what it has not reported is
\* still to come unless it has thrown: for rows of every shape in which a line
\* feed is escaped or the last byte, and for chunks of every size.
THEOREM MockServerLosesNothing == MockSpec => []NothingLost
  <1>1. MockInv => NothingLost
    BY DEF MockInv
  <1> QED
    BY MockInitInv, MockStep, <1>1, PTL DEF MockSpec
=============================================================================

--------------------------- MODULE Buffer_proofs ---------------------------
(***************************************************************************)
(* Proofs about Buffer, for every set of tables, every set of timestamps,  *)
(* every width of i64 and every bound on the text.                         *)
(***************************************************************************)
EXTENDS BufferRefinement, BufferOps_proofs, WellFoundedInduction

-----------------------------------------------------------------------------
(***************************************************************************)
(* The inductive invariant.                                                *)
(***************************************************************************)
IInv ==
    /\ TypeOK
    /\ StateDescribesOutput
    /\ OutputIsLines
    /\ MarkerIsSnapshot

\* Under the invariant the buffer is good, so the lemmas above apply.
LEMMA InvIsGood ==
    ASSUME IInv
    PROVE  Good(buf)
  BY DEF IInv, TypeOK, StateDescribesOutput, OutputIsLines, Good

\* What the caller passes as a timestamp is at most one Timestamp.
LEMMA TsArgsAreTimestamps == TsArgs \subseteq SUBSET Timestamps
  BY TsInputsAssumption DEF TsArgs

\* A call that only adds text keeps the marker a snapshot.
LEMMA GrowKeepsInv ==
    ASSUME IInv, Good(buf'), Grown(buf, buf'), res' \in Errors \cup {"Ok"},
           UNCHANGED saved
    PROVE  IInv'
  <1>1. /\ Good(buf') /\ Grown(buf, buf')
        /\ res' \in Errors \cup {"Ok"}
    OBVIOUS
  <1>2. TypeOK' /\ StateDescribesOutput' /\ OutputIsLines'
    BY <1>1 DEF IInv, TypeOK, Good, StateDescribesOutput, OutputIsLines
  <1>3. MarkerIsSnapshot'
    <2>1. (buf'.marker = {}) <=> (saved' = {})
      BY <1>1 DEF IInv, MarkerIsSnapshot, Grown
    <2>2. ASSUME NEW m \in buf'.marker, NEW s \in saved'
          PROVE  /\ m.position <= Len(buf'.output)
                 /\ SubSeq(buf'.output, 1, m.position) = s.output
                 /\ m.state = s.state
                 /\ Describes(m.state, s.output)
                 /\ m.state.op_case \in {"Init", "MayFlushOrTable"}
      <3>1. m \in buf.marker /\ s \in saved
        BY <1>1, <2>2 DEF Grown
      <3>2. /\ m.position <= Len(buf.output)
            /\ SubSeq(buf.output, 1, m.position) = s.output
            /\ m.state = s.state
            /\ Describes(m.state, s.output)
            /\ m.state.op_case \in {"Init", "MayFlushOrTable"}
        BY <3>1 DEF IInv, MarkerIsSnapshot
      <3>3. /\ m.position \in Nat
            /\ Len(buf.output) \in Nat
            /\ Len(buf'.output) \in Nat
        BY <1>1, <3>1 DEF IInv, TypeOK, Buffers, Markers, Good
      <3>4. m.position \in 0 .. Len(buf.output)
        BY <3>2, <3>3
      <3>5. /\ m.position <= Len(buf'.output)
            /\ SubSeq(buf'.output, 1, m.position) = s.output
        BY <1>1, <3>2, <3>3, <3>4 DEF Grown
      <3> QED
        BY <3>2, <3>5
    <2> QED
      BY <2>1, <2>2 DEF MarkerIsSnapshot
  <1> QED
    BY <1>2, <1>3 DEF IInv

\* set_marker() preserves the invariant.
LEMMA SetMarkerInv ==
    ASSUME IInv, SetMarker
    PROVE  IInv'
  <1>1. Good(buf)
    BY InvIsGood
  <1>2. CASE ~check_op(buf, "Table")
    <2>1. buf' = buf /\ res' = "InvalidApiCall" /\ saved' = saved
      BY <1>2 DEF SetMarker, Call, set_marker, Err
    <2> QED
      BY <2>1 DEF IInv, TypeOK, StateDescribesOutput, OutputIsLines,
                  MarkerIsSnapshot, Errors
  <1>3. CASE check_op(buf, "Table")
    <2> DEFINE m == [position |-> Len(buf.output), state |-> buf.state]
               s == [output |-> buf.output, state |-> buf.state]
    <2>1. buf \in Buffers /\ buf.output \in Seq(Tokens) /\ buf.state \in BufferStates
      BY <1>1 DEF Good, Buffers
    <2>2. buf' = [buf EXCEPT !.marker = {m}] /\ res' = "Ok" /\ saved' = {s}
      BY <1>3 DEF SetMarker, Call, set_marker, Ok
    <2>3. m \in Markers /\ s \in [output : Seq(Tokens), state : BufferStates]
      BY <2>1 DEF Markers
    <2>4. /\ buf' \in Buffers
          /\ buf'.output = buf.output
          /\ buf'.state = buf.state
          /\ buf'.marker = {m}
      BY <2>1, <2>2, <2>3 DEF Buffers
    <2>5. TypeOK'
      BY <2>2, <2>3, <2>4 DEF TypeOK, IsOption
    <2>6. StateDescribesOutput' /\ OutputIsLines'
      BY <1>1, <2>4 DEF StateDescribesOutput, OutputIsLines, Good
    <2>7. MarkerIsSnapshot'
      <3>1. SubSeq(buf.output, 1, Len(buf.output)) = buf.output
        BY <2>1
      <3>2. buf.state.op_case \in {"Init", "MayFlushOrTable"}
        BY <1>3, <2>1 DEF check_op, OpCase, OpCases, BufferStates
      <3>3. Describes(buf.state, buf.output) /\ Len(buf.output) \in Nat
        BY <1>1, <2>1 DEF Good
      <3>4. /\ m.position = Len(buf.output) /\ m.state = buf.state
            /\ s.output = buf.output /\ s.state = buf.state
        OBVIOUS
      <3> HIDE DEF m, s
      <3> QED
        BY <2>2, <2>4, <3>1, <3>2, <3>3, <3>4 DEF MarkerIsSnapshot
    <2> QED
      BY <2>5, <2>6, <2>7 DEF IInv
  <1> QED
    BY <1>2, <1>3

\* The marker and the history that goes with it.
LEMMA RewindFacts ==
    ASSUME IInv, RewindToMarker
    PROVE  /\ saved = {} => buf' = buf /\ res' = "InvalidApiCall"
           /\ saved # {} => /\ res' = "Ok"
                            /\ buf'.marker = {}
                            /\ buf' \in Buffers
                            /\ saved = {[output |-> buf'.output,
                                         state  |-> buf'.state]}
                            /\ Describes(buf'.state, buf'.output)
                            /\ LooseGrammar(buf'.output)
  <1>1. Good(buf) /\ buf.output \in Seq(Tokens)
    BY InvIsGood DEF Good, Buffers
  <1>2. CASE saved = {}
    BY <1>2 DEF RewindToMarker, Call, rewind_to_marker, Err, IInv, MarkerIsSnapshot
  <1>3. CASE saved # {}
    <2>1. PICK s \in saved : TRUE
      BY <1>3
    <2>2. buf.marker # {} /\ saved = {s}
      BY <1>3 DEF IInv, MarkerIsSnapshot, TypeOK, IsOption
    <2> DEFINE m == CHOOSE x \in buf.marker : TRUE
    <2>3. m \in buf.marker
      BY <2>2
    <2>4. buf' = [output |-> SubSeq(buf.output, 1, m.position),
                  state  |-> m.state,
                  marker |-> {}]
          /\ res' = "Ok"
      BY <2>2 DEF RewindToMarker, Call, rewind_to_marker, Ok
    <2> HIDE DEF m
    <2>5. /\ m.position <= Len(buf.output)
          /\ SubSeq(buf.output, 1, m.position) = s.output
          /\ m.state = s.state
          /\ Describes(m.state, s.output)
      BY <2>2, <2>3 DEF IInv, MarkerIsSnapshot
    <2>6. /\ m.position \in Nat /\ m.state \in BufferStates
          /\ s \in [output : Seq(Tokens), state : BufferStates]
      BY <2>1, <2>3 DEF IInv, TypeOK, Buffers, Markers
    <2>7. LooseGrammar(s.output)
      <3>1. m.position \in 0 .. Len(buf.output)
        BY <1>1, <2>5, <2>6
      <3>2. LooseGrammar(SubSeq(buf.output, 1, m.position))
        BY <1>1, <3>1, GrammarPrefix DEF Good
      <3> QED
        BY <2>5, <3>2
    <2>8. buf'.output = s.output /\ buf'.state = s.state /\ buf'.marker = {}
      BY <2>4, <2>5
    <2>9. s = [output |-> s.output, state |-> s.state]
      BY <2>6
    <2>10. buf' \in Buffers
      BY <2>4, <2>5, <2>6 DEF Buffers
    <2> QED
      BY <1>3, <2>2, <2>4, <2>5, <2>7, <2>8, <2>9, <2>10
  <1> QED
    BY <1>2, <1>3

\* rewind_to_marker() preserves the invariant.
LEMMA RewindInv ==
    ASSUME IInv, RewindToMarker
    PROVE  IInv'
  <1>1. saved' = {}
    BY DEF RewindToMarker
  <1>2. CASE saved = {}
    <2>1. buf' = buf /\ res' = "InvalidApiCall"
      BY <1>2, RewindFacts
    <2> QED
      BY <1>1, <1>2, <2>1 DEF IInv, TypeOK, StateDescribesOutput, OutputIsLines,
                              MarkerIsSnapshot, Errors
  <1>3. CASE saved # {}
    <2>1. /\ res' = "Ok" /\ buf'.marker = {} /\ buf' \in Buffers
          /\ Describes(buf'.state, buf'.output)
          /\ LooseGrammar(buf'.output)
      BY <1>3, RewindFacts
    <2> QED
      BY <1>1, <2>1 DEF IInv, TypeOK, StateDescribesOutput, OutputIsLines,
                        MarkerIsSnapshot, IsOption
  <1> QED
    BY <1>2, <1>3

\* A new buffer satisfies the invariant.
LEMMA InitInv == Init => IInv
  <1> SUFFICES ASSUME Init PROVE IInv
    OBVIOUS
  <1>1. /\ buf.output = <<>> /\ buf.state = NewState /\ buf.marker = {}
        /\ saved = {} /\ res = "Ok"
    BY DEF Init, NewBuffer
  <1>2. Good(NewBuffer)
    BY NewBufferGood
  <1> QED
    BY <1>1, <1>2 DEF Init, IInv, TypeOK, StateDescribesOutput, Good,
                      OutputIsLines, MarkerIsSnapshot, IsOption

\* clear() preserves the invariant.
LEMMA ClearInv ==
    ASSUME IInv, Clear
    PROVE  IInv'
  <1>1. buf' = NewBuffer /\ res' = "Ok" /\ saved' = {}
    BY DEF Clear, Call, clear, Ok
  <1>2. Init'
    BY <1>1 DEF Init
  <1> QED
    BY <1>2, InitInv, PTL

\* clear_marker() preserves the invariant.
LEMMA ClearMarkerInv ==
    ASSUME IInv, ClearMarker
    PROVE  IInv'
  <1>1. buf \in Buffers
    BY DEF IInv, TypeOK
  <1>2. buf' = [buf EXCEPT !.marker = {}] /\ res' = "Ok" /\ saved' = {}
    BY DEF ClearMarker, Call, clear_marker, Ok
  <1>3. /\ buf' \in Buffers
        /\ buf'.output = buf.output /\ buf'.state = buf.state /\ buf'.marker = {}
    BY <1>1, <1>2 DEF Buffers
  <1> QED
    BY <1>2, <1>3 DEF IInv, TypeOK, StateDescribesOutput, OutputIsLines,
                      MarkerIsSnapshot, IsOption

\* Every call preserves the invariant.
LEMMA NextInv == IInv /\ [Next]_vars => IInv'
  <1> SUFFICES ASSUME IInv, [Next]_vars PROVE IInv'
    OBVIOUS
  <1>0. Good(buf)
    BY InvIsGood
  <1>1. ASSUME NEW n \in Tables \cup {BadName}, Table(n) PROVE IInv'
    <2>1. Sound(buf, table(buf, n))
      BY <1>0, TableSound
    <2> QED
      BY <1>1, <2>1, GrowKeepsInv DEF Table, Call, Sound
  <1>2. ASSUME NEW named \in BOOLEAN, Symbol(named) PROVE IInv'
    <2>1. Sound(buf, symbol(buf, named))
      BY <1>0, SymbolSound
    <2> QED
      BY <1>2, <2>1, GrowKeepsInv DEF Symbol, Call, Sound
  <1>3. ASSUME NEW named \in BOOLEAN, Column(named) PROVE IInv'
    <2>1. Sound(buf, column(buf, named))
      BY <1>0, ColumnSound
    <2> QED
      BY <1>3, <2>1, GrowKeepsInv DEF Column, Call, Sound
  <1>4. ASSUME NEW named \in BOOLEAN, NEW ts \in TsArgs, ColumnTs(named, ts)
        PROVE  IInv'
    <2>1. Sound(buf, column_ts(buf, named, ts))
      BY <1>0, ColumnTsSound, TsArgsAreTimestamps
    <2> QED
      BY <1>4, <2>1, GrowKeepsInv DEF ColumnTs, Call, Sound
  <1>5. ASSUME NEW ts \in TsArgs, At(ts) PROVE IInv'
    <2>1. Sound(buf, at(buf, ts))
      BY <1>0, AtSound, TsArgsAreTimestamps
    <2> QED
      BY <1>5, <2>1, GrowKeepsInv DEF At, Call, Sound
  <1>6. CASE AtNow
    <2>1. Sound(buf, at_now(buf))
      BY <1>0, AtNowSound
    <2> QED
      BY <1>6, <2>1, GrowKeepsInv DEF AtNow, Call, Sound
  <1>7. CASE SetMarker
    BY <1>7, SetMarkerInv
  <1>8. CASE RewindToMarker
    BY <1>8, RewindInv
  <1>9. CASE ClearMarker
    BY <1>9, ClearMarkerInv
  <1>10. CASE Clear
    BY <1>10, ClearInv
  <1>11. CASE UNCHANGED vars
    BY <1>11 DEF vars, IInv, TypeOK, StateDescribesOutput, OutputIsLines,
                 MarkerIsSnapshot
  <1> QED
    BY <1>1, <1>2, <1>3, <1>4, <1>5, <1>6, <1>7, <1>8, <1>9, <1>10, <1>11 DEF Next

(***************************************************************************)
(* The fields of a Buffer keep their types through every sequence of calls.*)
(***************************************************************************)
THEOREM BufferTypeOK == Spec => []TypeOK
  <1>1. IInv => TypeOK
    BY DEF IInv
  <1> QED
    BY <1>1, InitInv, NextInv, PTL DEF Spec

(***************************************************************************)
(* row_count(), transactional() and the op case agree with the text of the *)
(* buffer after every sequence of calls, errors, rewinds and clears.       *)
(***************************************************************************)
THEOREM BufferStateDescribesOutput == Spec => []StateDescribesOutput
  <1>1. IInv => StateDescribesOutput
    BY DEF IInv
  <1> QED
    BY <1>1, InitInv, NextInv, PTL DEF Spec

(***************************************************************************)
(* The text of a buffer is always a sequence of ILP lines, save for keys   *)
(* that a failed column_ts left without a value.                           *)
(***************************************************************************)
THEOREM BufferOutputIsLines == Spec => []OutputIsLines
  <1>1. IInv => OutputIsLines
    BY DEF IInv
  <1> QED
    BY <1>1, InitInv, NextInv, PTL DEF Spec

(***************************************************************************)
(* A live marker always denotes the text and the state set_marker() saw.   *)
(***************************************************************************)
THEOREM BufferMarkerIsSnapshot == Spec => []MarkerIsSnapshot
  <1>1. IInv => MarkerIsSnapshot
    BY DEF IInv
  <1> QED
    BY <1>1, InitInv, NextInv, PTL DEF Spec

(***************************************************************************)
(* rewind_to_marker() restores exactly what set_marker() saw.              *)
(***************************************************************************)
THEOREM BufferRewindRestores == Spec => RewindRestores
  <1>1. IInv /\ [Next]_vars =>
          [RewindToMarker =>
             IF saved = {} THEN res' = "InvalidApiCall" /\ buf' = buf
             ELSE /\ res' = "Ok"
                  /\ saved = {[output |-> buf'.output, state |-> buf'.state]}]_vars
    BY RewindFacts
  <1> QED
    BY <1>1, InitInv, NextInv, PTL DEF Spec, RewindRestores

\* Going back to the marker goes back to a row boundary.
LEMMA RewindContained ==
    ASSUME IInv, RewindToMarker, buf.marker # {}
    PROVE  WellFormed(buf.output) => WellFormed(buf'.output)
  <1> SUFFICES ASSUME WellFormed(buf.output) PROVE WellFormed(buf'.output)
    OBVIOUS
  <1>1. buf.output \in Seq(Tokens)
    BY InvIsGood DEF Good, Buffers
  <1> DEFINE m == CHOOSE x \in buf.marker : TRUE
  <1>2. m \in buf.marker
    OBVIOUS
  <1>3. buf'.output = SubSeq(buf.output, 1, m.position)
    BY DEF RewindToMarker, Call, rewind_to_marker, Ok
  <1> HIDE DEF m
  <1>4. PICK s \in saved : TRUE
    BY DEF IInv, MarkerIsSnapshot
  <1>5. /\ m.position <= Len(buf.output) /\ m.position \in Nat
        /\ SubSeq(buf.output, 1, m.position) = s.output
        /\ Describes(m.state, s.output)
        /\ m.state.op_case \in {"Init", "MayFlushOrTable"}
    BY <1>2, <1>4 DEF IInv, MarkerIsSnapshot, TypeOK, Buffers, Markers
  <1>6. m.position \in 0 .. Len(buf.output)
    BY <1>1, <1>5
  <1>7. m.position # 0 => buf.output[m.position].k = "nl"
    <2>1. SUFFICES ASSUME m.position # 0 PROVE buf.output[m.position].k = "nl"
      OBVIOUS
    <2>2. /\ s.output # <<>> /\ Len(s.output) = m.position
          /\ s.output[Len(s.output)] = buf.output[m.position]
      <3>1. m.position \in 1 .. Len(buf.output)
        BY <1>1, <1>6, <2>1
      <3>2. /\ SubSeq(buf.output, 1, m.position) # <<>>
            /\ Len(SubSeq(buf.output, 1, m.position)) = m.position
            /\ SubSeq(buf.output, 1, m.position)[m.position] = buf.output[m.position]
        BY <1>1, <3>1, PrefixEnd, Zenon
      <3>3. SubSeq(buf.output, 1, m.position) = s.output
        BY <1>5, Zenon
      <3> QED
        BY <3>2, <3>3, Zenon
    <2>3. CaseAfter(s.output) \in {"Init", "MayFlushOrTable"}
      BY <1>5 DEF Describes
    <2>4. s.output[Len(s.output)].k = "nl"
      BY <2>2, <2>3 DEF CaseAfter
    <2> QED
      BY <2>2, <2>4
  <1> QED
    BY <1>1, <1>3, <1>6, <1>7, PrefixWellFormed

(***************************************************************************)
(* A call that fails loses no text, no row and no marker, and a call that  *)
(* returns Ok keeps a well-formed text well-formed, whatever came before.  *)
(***************************************************************************)
THEOREM BufferErrorsContained == Spec => ErrorsContained
  <1> DEFINE A == IF res' = "Ok"
                    THEN WellFormed(buf.output) => WellFormed(buf'.output)
                    ELSE /\ Len(buf.output) <= Len(buf'.output)
                         /\ buf.output = SubSeq(buf'.output, 1, Len(buf.output))
                         /\ Rows(buf.output) = Rows(buf'.output)
                         /\ buf.marker = buf'.marker
  <1>1. ASSUME IInv, Next PROVE A
    <2>0. Good(buf)
      BY <1>1, InvIsGood
    <2>1. ASSUME NEW r, Call(r), Contained(buf, r) PROVE A
      BY <2>1 DEF Call, Contained
    <2>2. ASSUME NEW r, Call(r), r.buf = buf PROVE A
      BY <2>0, <2>1, <2>2, SameContained
    <2>3. CASE \E n \in Tables \cup {BadName} : Table(n)
      BY <2>0, <2>1, <2>3, TableContained DEF Table
    <2>4. CASE \E named \in BOOLEAN : Symbol(named)
      BY <2>0, <2>1, <2>4, SymbolContained DEF Symbol
    <2>5. CASE \E named \in BOOLEAN : Column(named)
      BY <2>0, <2>1, <2>5, ColumnContained DEF Column
    <2>6. CASE \E named \in BOOLEAN, ts \in TsArgs : ColumnTs(named, ts)
      BY <2>0, <2>1, <2>6, ColumnTsContained, TsArgsAreTimestamps DEF ColumnTs
    <2>7. CASE \E ts \in TsArgs : At(ts)
      BY <2>0, <2>1, <2>7, AtContained, TsArgsAreTimestamps DEF At
    <2>8. CASE AtNow
      BY <2>0, <2>1, <2>8, AtNowContained DEF AtNow
    <2>9. CASE SetMarker \/ ClearMarker
      <3>1. buf \in Buffers
        BY <2>0 DEF Good
      <3>2. CASE SetMarker /\ ~check_op(buf, "Table")
        BY <2>2, <3>2 DEF SetMarker, set_marker, Err
      <3>3. CASE (SetMarker /\ check_op(buf, "Table")) \/ ClearMarker
        <4>1. res' = "Ok" /\ buf'.output = buf.output
          BY <3>1, <3>3 DEF SetMarker, set_marker, ClearMarker, clear_marker,
                            Call, Ok, Buffers
        <4> QED
          BY <4>1
      <3> QED
        BY <2>9, <3>2, <3>3
    <2>10. CASE RewindToMarker
      <3>1. CASE buf.marker = {}
        BY <2>2, <2>10, <3>1 DEF RewindToMarker, rewind_to_marker, Err
      <3>2. CASE buf.marker # {}
        <4>1. res' = "Ok"
          BY <2>10, <3>2 DEF RewindToMarker, rewind_to_marker, Call, Ok
        <4> QED
          BY <1>1, <2>10, <3>2, <4>1, RewindContained
      <3> QED
        BY <3>1, <3>2
    <2>11. CASE Clear
      <3>1. res' = "Ok" /\ buf'.output = <<>>
        BY <2>11 DEF Clear, Call, clear, Ok, NewBuffer
      <3>2. WellFormed(<<>>)
        BY DEF WellFormed, LooseGrammar
      <3> QED
        BY <3>1, <3>2
    <2> QED
      BY <1>1, <2>3, <2>4, <2>5, <2>6, <2>7, <2>8, <2>9, <2>10, <2>11 DEF Next
  <1>2. IInv /\ [Next]_vars => [A]_vars
    BY <1>1
  <1> QED
    BY <1>2, InitInv, NextInv, PTL DEF Spec, ErrorsContained

-----------------------------------------------------------------------------
(***************************************************************************)
(* Induction, with a set of numbers for the property.                      *)
(***************************************************************************)
\* A set of natural numbers has a least one.
LEMMA LeastNumber ==
    ASSUME NEW T \in SUBSET Nat, T # {}
    PROVE  \E x \in T : \A y \in T : x <= y
  <1> DEFINE R == OpToRel(<, Nat)
  <1>1. IsWellFoundedOn(R, Nat)
    BY NatLessThanWellFounded
  <1>2. \A x, y \in Nat : y < x => <<y, x>> \in R
    BY DEF OpToRel
  <1> HIDE DEF R
  <1>3. PICK x \in T : \A y \in T : ~(<<y, x>> \in R)
    BY <1>1, WFMin
  <1>4. \A y \in T : ~(y < x)
    BY <1>2, <1>3
  <1>5. \A y \in T : x <= y
    BY <1>4
  <1> QED
    BY <1>5

\* A set with 0 and the successor of each of its numbers up to n.
LEMMA UpTo ==
    ASSUME NEW n \in Nat, NEW S, 0 \in S, \A k \in 0..(n - 1) : k \in S => k + 1 \in S
    PROVE  \A k \in 0..n : k \in S
  <1> DEFINE T == {k \in 0..n : k \notin S}
  <1> SUFFICES ASSUME T # {} PROVE FALSE
    OBVIOUS
  <1>1. T \in SUBSET Nat
    OBVIOUS
  <1>2. PICK x \in T : \A y \in T : x <= y
    BY <1>1, LeastNumber
  <1>3. x \in 0..n /\ x \notin S /\ x # 0
    OBVIOUS
  <1>4. x - 1 \in 0..(n - 1) /\ x - 1 \notin T
    BY <1>2, <1>3
  <1>5. x - 1 \in S
    BY <1>3, <1>4
  <1>6. (x - 1) + 1 \in S
    BY <1>4, <1>5
  <1> QED
    BY <1>3, <1>6

-----------------------------------------------------------------------------
(***************************************************************************)
(* Reading a text.  Each piece takes the reader one step further, which    *)
(* is all that the refinement needs to know of Read.                       *)
(***************************************************************************)
\* f holds what has been read after each of the first n pieces of s.
ReadsTo(f, s, n) ==
    f = [i \in 0 .. n |-> IF i = 0 THEN NothingRead ELSE ReadPiece(f[i - 1], s[i])]

\* Any text can be read.
LEMMA ReadsExists ==
    ASSUME NEW s, NEW n \in Nat
    PROVE  \E f : ReadsTo(f, s, n)
  <1> DEFINE S == {k \in Nat : \E f : ReadsTo(f, s, k)}
  <1>1. 0 \in S
    <2> DEFINE f == [i \in 0 .. 0 |-> NothingRead]
    <2>1. f = [i \in 0 .. 0 |-> IF i = 0 THEN NothingRead ELSE ReadPiece(f[i - 1], s[i])]
      OBVIOUS
    <2> HIDE DEF f
    <2>2. ReadsTo(f, s, 0)
      BY <2>1 DEF ReadsTo
    <2> QED
      BY <2>2
  <1>2. ASSUME NEW k \in 0 .. (n - 1), k \in S PROVE k + 1 \in S
    <2>1. PICK f : ReadsTo(f, s, k)
      BY <1>2
    <2> DEFINE g == [i \in 0 .. (k + 1) |->
                       IF i <= k THEN f[i] ELSE ReadPiece(f[k], s[i])]
    <2>2. \A i \in 0 .. k :
            f[i] = IF i = 0 THEN NothingRead ELSE ReadPiece(f[i - 1], s[i])
      BY <2>1 DEF ReadsTo
    <2>3. \A i \in 0 .. k : g[i] = f[i]
      OBVIOUS
    <2>4. g[k + 1] = ReadPiece(f[k], s[k + 1])
      OBVIOUS
    <2>5. g = [i \in 0 .. (k + 1) |-> g[i]]
      OBVIOUS
    <2> HIDE DEF g
    <2>6. \A i \in 0 .. (k + 1) :
            g[i] = IF i = 0 THEN NothingRead ELSE ReadPiece(g[i - 1], s[i])
      <3> SUFFICES ASSUME NEW i \in 0 .. (k + 1)
                   PROVE  g[i] = IF i = 0 THEN NothingRead
                                          ELSE ReadPiece(g[i - 1], s[i])
        OBVIOUS
      <3>1. CASE i <= k
        BY <2>2, <2>3, <3>1
      <3>2. CASE i = k + 1
        BY <2>3, <2>4, <3>2
      <3> QED
        BY <3>1, <3>2
    <2>7. ReadsTo(g, s, k + 1)
      BY <2>5, <2>6 DEF ReadsTo
    <2> QED
      BY <2>7
  <1> HIDE DEF S
  <1>3. n \in S
    BY <1>1, <1>2, UpTo
  <1> QED
    BY <1>3 DEF S

\* Two texts that begin alike are read alike so far.
LEMMA ReadsAgree ==
    ASSUME NEW s, NEW t, NEW n \in Nat, NEW m \in Nat, n <= m,
           NEW f, NEW g, ReadsTo(f, s, n), ReadsTo(g, t, m),
           \A i \in 1 .. n : s[i] = t[i]
    PROVE  f[n] = g[n]
  <1> DEFINE S == {k \in 0 .. n : f[k] = g[k]}
  <1>1. /\ \A i \in 0 .. n : f[i] = IF i = 0 THEN NothingRead
                                             ELSE ReadPiece(f[i - 1], s[i])
        /\ \A i \in 0 .. m : g[i] = IF i = 0 THEN NothingRead
                                             ELSE ReadPiece(g[i - 1], t[i])
    BY DEF ReadsTo
  <1>2. 0 \in S
    BY <1>1
  <1>3. ASSUME NEW k \in 0 .. (n - 1), k \in S PROVE k + 1 \in S
    <2>1. k + 1 \in 1 .. n /\ k + 1 \in 0 .. m /\ (k + 1) - 1 = k /\ k + 1 # 0
      OBVIOUS
    <2>2. f[k + 1] = ReadPiece(f[k], s[k + 1]) /\ g[k + 1] = ReadPiece(g[k], t[k + 1])
      BY <1>1, <2>1
    <2>3. f[k] = g[k] /\ s[k + 1] = t[k + 1]
      BY <1>3, <2>1
    <2> QED
      BY <2>1, <2>2, <2>3
  <1> HIDE DEF S
  <1>4. n \in S
    BY <1>2, <1>3, UpTo
  <1> QED
    BY <1>4 DEF S

\* Read gives the last of these values.
LEMMA ReadIs ==
    ASSUME NEW s, Len(s) \in Nat
    PROVE  \E f : ReadsTo(f, s, Len(s)) /\ Read(s) = f[Len(s)]
  <1> DEFINE f == CHOOSE f : ReadsTo(f, s, Len(s))
  <1>1. ReadsTo(f, s, Len(s))
    BY ReadsExists
  <1>2. Read(s) = f[Len(s)]
    BY DEF Read, ReadsTo
  <1> QED
    BY <1>1, <1>2

\* There is nothing in an empty text.
LEMMA ReadEmpty == Read(<<>>) = NothingRead
  <1>1. Len(<<>>) = 0
    OBVIOUS
  <1>2. PICK f : ReadsTo(f, <<>>, 0) /\ Read(<<>>) = f[0]
    BY <1>1, ReadIs
  <1> QED
    BY <1>2 DEF ReadsTo

\* One more piece is one more step of the reader.
LEMMA ReadAppend ==
    ASSUME NEW out \in Seq(Tokens), NEW tok \in Tokens
    PROVE  Read(Append(out, tok)) = ReadPiece(Read(out), tok)
  <1> DEFINE n == Len(out)
             new == Append(out, tok)
  <1>1. n \in Nat /\ Len(new) = n + 1 /\ new[n + 1] = tok
        /\ \A i \in 1 .. n : out[i] = new[i]
    BY AppendFacts
  <1>2. PICK f : ReadsTo(f, out, n) /\ Read(out) = f[n]
    BY <1>1, ReadIs
  <1>3. Len(new) \in Nat
    BY <1>1
  <1>4. PICK g : ReadsTo(g, new, n + 1) /\ Read(new) = g[n + 1]
    BY <1>1, <1>3, ReadIs
  <1> HIDE DEF n, new
  <1>5. f[n] = g[n]
    <2>1. n \in Nat /\ n + 1 \in Nat /\ n <= n + 1
      BY <1>1
    <2> QED
      BY <1>1, <1>2, <1>4, <2>1, ReadsAgree
  <1>6. g[n + 1] = ReadPiece(g[n], new[n + 1])
    <2>1. n + 1 \in 0 .. (n + 1) /\ n + 1 # 0 /\ (n + 1) - 1 = n
      BY <1>1
    <2> QED
      BY <1>4, <2>1 DEF ReadsTo
  <1>7. Read(new) = ReadPiece(Read(out), tok)
    BY <1>1, <1>2, <1>4, <1>5, <1>6
  <1> QED
    BY <1>7 DEF new

-----------------------------------------------------------------------------
(***************************************************************************)
(* What each piece adds to what has been read.                             *)
(***************************************************************************)
BatchRows == [table : Tables, fields : Seq(Batch!Fields), ts : SUBSET I64]

Readings == [rows : Seq(BatchRows), cur : SUBSET BatchRows]

\* A row that has just been opened.
NewRow(n) == [table |-> n, fields |-> <<>>, ts |-> {}]

\* A row with one more field.
WithField(r, f) == [r EXCEPT !.fields = Append(@, f)]

\* The parts of a row with one more field.
LEMMA WithFieldIs ==
    ASSUME NEW r \in BatchRows, NEW f
    PROVE  WithField(r, f)
             = [table |-> r.table, fields |-> Append(r.fields, f), ts |-> r.ts]
  <1> DEFINE fs == Append(r.fields, f)
  <1>1. WithField(r, f) = [r EXCEPT !.fields = fs]
    BY DEF WithField
  <1> HIDE DEF fs
  <1>2. r = [table |-> r.table, fields |-> r.fields, ts |-> r.ts]
    BY DEF BatchRows
  <1>3. [r EXCEPT !.fields = fs] = [table |-> r.table, fields |-> fs, ts |-> r.ts]
    BY <1>2
  <1> QED
    BY <1>1, <1>3 DEF fs

\* A table name opens a row.
LEMMA TablePiece ==
    ASSUME NEW rd \in Readings, NEW n \in Tables
    PROVE  ReadPiece(rd, [k |-> "table", name |-> n])
             = [rows |-> rd.rows, cur |-> {NewRow(n)}]
  BY DEF ReadPiece, Readings, NewRow

\* A symbol is a field of the open row.
LEMMA SymbolPiece ==
    ASSUME NEW rd \in Readings, NEW r \in BatchRows, rd.cur = {r}
    PROVE  ReadPiece(rd, [k |-> "symbol"])
             = [rows |-> rd.rows, cur |-> {WithField(r, "symbol")}]
  <1>1. ReadPiece(rd, [k |-> "symbol"])
          = [rd EXCEPT !.cur = {[x EXCEPT !.fields = Append(@, "symbol")] : x \in @}]
    BY DEF ReadPiece
  <1>2. {[x EXCEPT !.fields = Append(@, "symbol")] : x \in rd.cur}
          = {WithField(r, "symbol")}
    BY DEF WithField
  <1> QED
    BY <1>1, <1>2 DEF Readings

\* A key is a field that is broken as long as no value follows.
LEMMA KeyPiece ==
    ASSUME NEW rd \in Readings, NEW r \in BatchRows, rd.cur = {r},
           NEW tok \in Tokens, tok.k = "key"
    PROVE  ReadPiece(rd, tok) = [rows |-> rd.rows, cur |-> {WithField(r, "broken")}]
  <1>1. ReadPiece(rd, tok)
          = [rd EXCEPT !.cur = {[x EXCEPT !.fields = Append(@, "broken")] : x \in @}]
    BY DEF ReadPiece
  <1>2. {[x EXCEPT !.fields = Append(@, "broken")] : x \in rd.cur}
          = {WithField(r, "broken")}
    BY DEF WithField
  <1> QED
    BY <1>1, <1>2 DEF Readings

\* Its value makes it a column.
LEMMA ValuePiece ==
    ASSUME NEW rd \in Readings, NEW r \in BatchRows,
           rd.cur = {WithField(r, "broken")},
           NEW tok \in Tokens, tok.k \in {"value", "micros"}
    PROVE  ReadPiece(rd, tok) = [rows |-> rd.rows, cur |-> {WithField(r, "column")}]
  <1> DEFINE q == WithField(r, "broken")
             F(x) == [x EXCEPT !.fields[Len(x.fields)] = "column"]
  <1>1. ReadPiece(rd, tok) = [rd EXCEPT !.cur = {F(x) : x \in @}]
    BY DEF ReadPiece
  <1>2. F(q) = WithField(r, "column")
    <2>1. r.fields \in Seq(Batch!Fields)
      BY DEF BatchRows
    <2>2. q.fields = Append(r.fields, "broken") /\ q.table = r.table /\ q.ts = r.ts
      BY WithFieldIs
    <2>3. [q.fields EXCEPT ![Len(q.fields)] = "column"] = Append(r.fields, "column")
      BY <2>1, <2>2 DEF Batch!Fields
    <2>4. q = [table |-> r.table, fields |-> Append(r.fields, "broken"), ts |-> r.ts]
      BY WithFieldIs
    <2>5. F(q) = [q EXCEPT !.fields = [q.fields EXCEPT ![Len(q.fields)] = "column"]]
      OBVIOUS
    <2>6. WithField(r, "column")
            = [table |-> r.table, fields |-> Append(r.fields, "column"), ts |-> r.ts]
      BY WithFieldIs
    <2> HIDE DEF q, F
    <2>7. F(q) = [table |-> r.table, fields |-> Append(r.fields, "column"), ts |-> r.ts]
      BY <2>3, <2>4, <2>5
    <2> QED
      BY <2>6, <2>7
  <1>3. rd.cur = {q}
    OBVIOUS
  <1> HIDE DEF q, F
  <1>4. {F(x) : x \in rd.cur} = {WithField(r, "column")}
    BY <1>2, <1>3
  <1> QED
    BY <1>1, <1>4 DEF Readings

\* The designated timestamp of the open row.
LEMMA TsPiece ==
    ASSUME NEW rd \in Readings, NEW r \in BatchRows, rd.cur = {r},
           NEW tok \in Tokens, tok.k = "ts"
    PROVE  ReadPiece(rd, tok) = [rows |-> rd.rows, cur |-> {[r EXCEPT !.ts = {tok.v}]}]
  <1>1. ReadPiece(rd, tok) = [rd EXCEPT !.cur = {[x EXCEPT !.ts = {tok.v}] : x \in @}]
    BY DEF ReadPiece
  <1>2. {[x EXCEPT !.ts = {tok.v}] : x \in rd.cur} = {[r EXCEPT !.ts = {tok.v}]}
    OBVIOUS
  <1> QED
    BY <1>1, <1>2 DEF Readings

\* A new-line finishes the open row.
LEMMA NlPiece ==
    ASSUME NEW rd, NEW r, rd.cur = {r}
    PROVE  ReadPiece(rd, [k |-> "nl"]) = [rows |-> Append(rd.rows, r), cur |-> {}]
  BY DEF ReadPiece

(***************************************************************************)
(* What has been read fits the state that the code keeps: the counters     *)
(* describe the rows, and the op case says how far the open row has come.  *)
(***************************************************************************)
Between == {"Init", "MayFlushOrTable"}

TablesRead(rd) == {rd.rows[i].table : i \in DOMAIN rd.rows} \cup {r.table : r \in rd.cur}

OpenRowFits(c, r) ==
    /\ r.ts = {}
    /\ (c = "TableWritten") <=> (r.fields = <<>>)
    /\ c = "SymbolWritten" => \A i \in DOMAIN r.fields : r.fields[i] = "symbol"

Fits(s, out, rd) ==
    /\ rd \in Readings
    /\ Len(rd.rows) = s.row_count
    /\ TablesRead(rd) = TableNames(out)
    /\ s.op_case = "Init" => rd.rows = <<>>
    /\ s.op_case = "MayFlushOrTable" => rd.rows # <<>>
    /\ s.op_case \in Between => rd.cur = {}
    /\ s.op_case \notin Between => \E r \in BatchRows :
                                     rd.cur = {r} /\ OpenRowFits(s.op_case, r)

\* A new state fits an empty text.
LEMMA NewFits == Fits(NewState, <<>>, Read(<<>>))
  <1>1. TablesRead(NothingRead) = {} /\ TableNames(<<>>) = {}
    BY DEF TablesRead, NothingRead, TableNames
  <1>2. NothingRead \in Readings
    BY DEF Readings, NothingRead
  <1>3. Fits(NewState, <<>>, NothingRead)
    BY <1>1, <1>2 DEF Fits, NewState, NothingRead, Between
  <1> QED
    BY <1>3, ReadEmpty

\* A row that has just been opened.
LEMMA OpenedFits ==
    ASSUME NEW s, NEW s2, NEW out, NEW out2, NEW rd, NEW n \in Tables,
           Fits(s, out, rd), s.op_case \in Between,
           s2.op_case = "TableWritten", s2.row_count = s.row_count,
           TableNames(out2) = TableNames(out) \cup {n}
    PROVE  Fits(s2, out2, [rows |-> rd.rows, cur |-> {NewRow(n)}])
  <1> DEFINE r == NewRow(n)
             rd2 == [rows |-> rd.rows, cur |-> {r}]
  <1>1. r \in BatchRows /\ r.ts = {} /\ r.fields = <<>> /\ r.table = n
    BY DEF BatchRows, NewRow
  <1>2. rd2.rows = rd.rows /\ rd2.cur = {r} /\ rd.cur = {}
    BY DEF Fits
  <1> HIDE DEF r
  <1>3. rd2 \in Readings
    BY <1>1 DEF Fits, Readings
  <1> HIDE DEF rd2
  <1>4. TablesRead(rd2) = TablesRead(rd) \cup {n}
    BY <1>1, <1>2 DEF TablesRead
  <1>5. OpenRowFits("TableWritten", r)
    BY <1>1 DEF OpenRowFits
  <1>6. Fits(s2, out2, rd2)
    BY <1>1, <1>2, <1>3, <1>4, <1>5 DEF Fits, Between
  <1> QED
    BY <1>6 DEF rd2, r

\* A row with one more field is a row.
LEMMA WithFieldFacts ==
    ASSUME NEW r \in BatchRows, NEW f \in Batch!Fields
    PROVE  /\ WithField(r, f) \in BatchRows
           /\ WithField(r, f).table = r.table
           /\ WithField(r, f).ts = r.ts
           /\ WithField(r, f).fields = Append(r.fields, f)
           /\ r.fields \in Seq(Batch!Fields)
  <1>1. WithField(r, f)
          = [table |-> r.table, fields |-> Append(r.fields, f), ts |-> r.ts]
    BY WithFieldIs
  <1>2. /\ r.table \in Tables /\ r.fields \in Seq(Batch!Fields) /\ r.ts \in SUBSET I64
    BY DEF BatchRows
  <1>3. Append(r.fields, f) \in Seq(Batch!Fields)
    BY <1>2
  <1> QED
    BY <1>1, <1>2, <1>3 DEF BatchRows

\* The open row with one more field.
LEMMA FieldFits ==
    ASSUME NEW s, NEW s2, NEW out, NEW out2, NEW rd, NEW r \in BatchRows,
           NEW f \in Batch!Fields,
           Fits(s, out, rd), rd.cur = {r}, r.ts = {},
           s2.row_count = s.row_count, TableNames(out2) = TableNames(out),
           \/ /\ f = "symbol" /\ s2.op_case = "SymbolWritten"
              /\ \A i \in DOMAIN r.fields : r.fields[i] = "symbol"
           \/ s2.op_case = "ColumnWritten"
    PROVE  Fits(s2, out2, [rows |-> rd.rows, cur |-> {WithField(r, f)}])
  <1> DEFINE q == WithField(r, f)
             rd2 == [rows |-> rd.rows, cur |-> {q}]
  <1>1. /\ q \in BatchRows /\ q.table = r.table /\ q.ts = {}
        /\ q.fields = Append(r.fields, f) /\ r.fields \in Seq(Batch!Fields)
    BY WithFieldFacts
  <1>2. rd2.rows = rd.rows /\ rd2.cur = {q}
    OBVIOUS
  <1> HIDE DEF q
  <1>3. rd2 \in Readings
    BY <1>1 DEF Fits, Readings
  <1> HIDE DEF rd2
  <1>4. TablesRead(rd2) = TablesRead(rd)
    BY <1>1, <1>2 DEF TablesRead
  <1>5. OpenRowFits(s2.op_case, q)
    <2>1. q.fields # <<>>
      BY <1>1
    <2>2. f = "symbol" /\ (\A i \in DOMAIN r.fields : r.fields[i] = "symbol")
            => \A i \in DOMAIN q.fields : q.fields[i] = "symbol"
      BY <1>1
    <2> QED
      BY <1>1, <2>1, <2>2 DEF OpenRowFits
  <1>6. Fits(s2, out2, rd2)
    BY <1>1, <1>2, <1>3, <1>4, <1>5 DEF Fits, Between
  <1> QED
    BY <1>6 DEF rd2, q

\* The row that a new-line has finished.
LEMMA FinishedFits ==
    ASSUME NEW s, NEW s2, NEW out, NEW out2, NEW rd, NEW r \in BatchRows,
           NEW q \in BatchRows,
           Fits(s, out, rd), rd.cur = {r}, q.table = r.table,
           s2.op_case = "MayFlushOrTable", s2.row_count = s.row_count + 1,
           TableNames(out2) = TableNames(out)
    PROVE  Fits(s2, out2, [rows |-> Append(rd.rows, q), cur |-> {}])
  <1> DEFINE rd2 == [rows |-> Append(rd.rows, q), cur |-> {}]
  <1>1. rd.rows \in Seq(BatchRows) /\ Len(rd.rows) = s.row_count
    BY DEF Fits, Readings
  <1>2. rd2.rows = Append(rd.rows, q) /\ rd2.cur = {}
    OBVIOUS
  <1>3. rd2 \in Readings
    BY <1>1 DEF Readings
  <1> HIDE DEF rd2
  <1>4. Len(rd2.rows) = s2.row_count /\ rd2.rows # <<>>
    BY <1>1, <1>2
  <1>5. TablesRead(rd2) = TablesRead(rd)
    <2>1. /\ DOMAIN rd2.rows = 1 .. Len(rd.rows) + 1
          /\ DOMAIN rd.rows = 1 .. Len(rd.rows)
          /\ rd2.rows[Len(rd.rows) + 1] = q
          /\ Len(rd.rows) \in Nat
          /\ \A i \in 1 .. Len(rd.rows) : rd2.rows[i] = rd.rows[i]
      BY <1>1, <1>2
    <2>2. TablesRead(rd2) = {rd2.rows[i].table : i \in DOMAIN rd2.rows}
      BY <1>2 DEF TablesRead
    <2>3. TablesRead(rd) = {rd.rows[i].table : i \in DOMAIN rd.rows} \cup {q.table}
      BY DEF TablesRead
    <2>4. ASSUME NEW t \in TablesRead(rd2) PROVE t \in TablesRead(rd)
      BY <2>1, <2>2, <2>3
    <2>5. ASSUME NEW t \in TablesRead(rd) PROVE t \in TablesRead(rd2)
      <3>1. CASE t = q.table
        BY <2>1, <2>2, <3>1
      <3>2. CASE \E i \in DOMAIN rd.rows : t = rd.rows[i].table
        BY <2>1, <2>2, <3>2
      <3> QED
        BY <2>3, <3>1, <3>2
    <2> QED
      BY <2>4, <2>5
  <1>6. Fits(s2, out2, rd2)
    BY <1>2, <1>3, <1>4, <1>5 DEF Fits, Between
  <1> QED
    BY <1>6 DEF rd2

(***************************************************************************)
(* What a call does to the rows: it opens one, adds a field to the open    *)
(* one, or finishes it.                                                    *)
(***************************************************************************)
ReadFits(b) == Fits(b.state, b.output, Read(b.output))

RowOpened(p, q) ==
    /\ p.cur = {} /\ q.rows = p.rows
    /\ \E t \in Tables : q.cur = {NewRow(t)}

FieldAdded(p, q) ==
    /\ q.rows = p.rows
    /\ \E r \in p.cur, f \in Batch!Fields :
         /\ f = "symbol" => \A i \in DOMAIN r.fields : r.fields[i] = "symbol"
         /\ q.cur = {WithField(r, f)}

RowFinished(p, q) ==
    /\ q.cur = {}
    /\ \E r \in p.cur :
         /\ r.fields # <<>>
         /\ \E ts \in {{}} \cup {{n} : n \in Instants} :
              q.rows = Append(p.rows, [r EXCEPT !.ts = ts])

\* Call result r does nothing to b, or one of these.
Builds(b, r) ==
    \/ r.buf = b
    \/ LET p == Read(b.output)
           q == Read(r.buf.output)
       IN  ReadFits(r.buf) /\ (RowOpened(p, q) \/ FieldAdded(p, q) \/ RowFinished(p, q))

\* The op cases in which each operation is allowed.
LEMMA OpCaseOf ==
    ASSUME NEW b, Good(b)
    PROVE  /\ check_op(b, "Table") <=> b.state.op_case \in Between
           /\ check_op(b, "Symbol") <=>
                b.state.op_case \in {"TableWritten", "SymbolWritten"}
           /\ check_op(b, "Column") <=> b.state.op_case \notin Between
           /\ check_op(b, "At") <=> b.state.op_case \in {"SymbolWritten", "ColumnWritten"}
           /\ check_op(b, "Flush") <=> b.state.op_case = "MayFlushOrTable"
  <1>1. b.state.op_case \in OpCases
    BY DEF Good, Buffers, BufferStates
  <1> QED
    BY <1>1 DEF check_op, OpCase, OpCases, Between

\* table() opens a row.
LEMMA TableBuilds ==
    ASSUME NEW b, Good(b), ReadFits(b), NEW n \in Tables \cup {BadName}
    PROVE  Builds(b, table(b, n))
  <1>1. CASE Verdict(b, n # BadName, "Table") # "Ok"
    BY <1>1 DEF table, Err, Builds
  <1>2. CASE Verdict(b, n # BadName, "Table") = "Ok"
    <2>1. n \in Tables /\ b.state.op_case \in Between
      BY <1>2, OpCaseOf DEF Verdict
    <2> DEFINE tok == [k |-> "table", name |-> n]
               v   == Written(b, tok, "TableWritten")
               ft  == b.state.first_table
               ft2 == IF ft = {} THEN {n} ELSE ft
               w   == [v EXCEPT !.state.first_table   = ft2,
                                !.state.transactional = @ /\ ft \subseteq {n}]
               rd  == Read(b.output)
    <2>2. b \in Buffers /\ b.output \in Seq(Tokens)
      BY DEF Good, Buffers
    <2>3. tok \in Tokens /\ tok.k = "table" /\ tok.name = n
      BY <2>1 DEF Tokens
    <2>4. table(b, n) = Ok(w)
      BY <1>2 DEF table
    <2> HIDE DEF ft2, tok
    <2>5. /\ v \in Buffers /\ v.output = Append(b.output, tok)
          /\ v.state.op_case = "TableWritten"
          /\ v.state.row_count = b.state.row_count
      BY <2>2, <2>3, WrittenFields DEF OpCases
    <2> HIDE DEF v
    <2>6. /\ w.output = v.output
          /\ w.state.op_case = v.state.op_case
          /\ w.state.row_count = v.state.row_count
      BY <2>5 DEF Buffers, BufferStates
    <2>7. table(b, n).buf = w
      BY <2>4 DEF Ok
    <2> HIDE DEF w
    <2>8. rd \in Readings /\ rd.cur = {}
      BY <2>1 DEF ReadFits, Fits
    <2>9. Read(w.output) = [rows |-> rd.rows, cur |-> {NewRow(n)}]
      <3>1. Read(w.output) = ReadPiece(rd, tok)
        BY <2>2, <2>3, <2>5, <2>6, ReadAppend
      <3>2. ReadPiece(rd, [k |-> "table", name |-> n])
              = [rows |-> rd.rows, cur |-> {NewRow(n)}]
        BY <2>1, <2>8, TablePiece
      <3> QED
        BY <3>1, <3>2 DEF tok
    <2>10. TableNames(w.output) = TableNames(b.output) \cup {n}
      BY <2>2, <2>3, <2>5, <2>6, NamesAppend
    <2>11. Fits(b.state, b.output, rd)
      BY DEF ReadFits
    <2> HIDE DEF rd
    <2>12. ReadFits(w)
      BY <2>1, <2>5, <2>6, <2>9, <2>10, <2>11, OpenedFits DEF ReadFits
    <2>13. RowOpened(rd, Read(w.output))
      BY <2>1, <2>8, <2>9 DEF RowOpened
    <2> QED
      BY <2>7, <2>12, <2>13 DEF Builds, rd
  <1> QED
    BY <1>1, <1>2

\* The row under construction.
LEMMA OpenRow ==
    ASSUME NEW b, ReadFits(b), b.state.op_case \notin Between
    PROVE  \E r \in BatchRows : /\ Read(b.output).cur = {r}
                                /\ OpenRowFits(b.state.op_case, r)
  BY DEF ReadFits, Fits

\* symbol() adds a field.
LEMMA SymbolBuilds ==
    ASSUME NEW b, Good(b), ReadFits(b), NEW named \in BOOLEAN
    PROVE  Builds(b, symbol(b, named))
  <1>1. CASE Verdict(b, named, "Symbol") # "Ok"
    BY <1>1 DEF symbol, Err, Builds
  <1>2. CASE Verdict(b, named, "Symbol") = "Ok"
    <2>1. b.state.op_case \in {"TableWritten", "SymbolWritten"}
      BY <1>2, OpCaseOf DEF Verdict
    <2> DEFINE tok == [k |-> "symbol"]
               w   == Written(b, tok, "SymbolWritten")
               rd  == Read(b.output)
    <2>2. b \in Buffers /\ b.output \in Seq(Tokens)
      BY DEF Good, Buffers
    <2>3. tok \in Tokens /\ tok.k = "symbol"
      BY DEF Tokens
    <2>4. symbol(b, named).buf = w
      BY <1>2 DEF symbol, Ok
    <2>5. PICK r \in BatchRows : rd.cur = {r} /\ OpenRowFits(b.state.op_case, r)
      BY <2>1, OpenRow DEF Between
    <2>6. Fits(b.state, b.output, rd) /\ rd \in Readings
      BY DEF ReadFits, Fits
    <2> HIDE DEF rd
    <2>7. ReadPiece(rd, tok) = [rows |-> rd.rows, cur |-> {WithField(r, "symbol")}]
      BY <2>5, <2>6, SymbolPiece
    <2> HIDE DEF tok
    <2>8. /\ w.output = Append(b.output, tok)
          /\ w.state.op_case = "SymbolWritten"
          /\ w.state.row_count = b.state.row_count
      BY <2>2, <2>3, WrittenFields DEF OpCases
    <2> HIDE DEF w
    <2>9. Read(w.output) = [rows |-> rd.rows, cur |-> {WithField(r, "symbol")}]
      BY <2>2, <2>3, <2>7, <2>8, ReadAppend DEF rd
    <2>10. TableNames(w.output) = TableNames(b.output)
      BY <2>2, <2>3, <2>8, NamesAppend
    <2>11. \A i \in DOMAIN r.fields : r.fields[i] = "symbol"
      BY <2>1, <2>5 DEF OpenRowFits
    <2>12. "symbol" \in Batch!Fields
      BY DEF Batch!Fields
    <2>13. ReadFits(w)
      <3>1. r.ts = {}
        BY <2>5 DEF OpenRowFits
      <3> QED
        BY <2>5, <2>6, <2>8, <2>9, <2>10, <2>11, <2>12, <3>1, FieldFits DEF ReadFits
    <2>14. FieldAdded(rd, Read(w.output))
      BY <2>5, <2>9, <2>11, <2>12 DEF FieldAdded
    <2> QED
      BY <2>4, <2>13, <2>14 DEF Builds, rd
  <1> QED
    BY <1>1, <1>2

\* A key and what may follow it: what is read, and that it fits.
LEMMA KeyReads ==
    ASSUME NEW b, Good(b), ReadFits(b), NEW named \in BOOLEAN,
           write_column_key(b, named).res = "Ok"
    PROVE  LET c == write_column_key(b, named).buf IN
           \E r \in BatchRows :
             /\ Read(b.output).cur = {r}
             /\ Read(c.output) = [rows |-> Read(b.output).rows,
                                  cur  |-> {WithField(r, "broken")}]
             /\ c \in Buffers
             /\ \A w, f : /\ f \in Batch!Fields
                          /\ w.state = c.state
                          /\ TableNames(w.output) = TableNames(c.output)
                          /\ Read(w.output) = [rows |-> Read(b.output).rows,
                                               cur  |-> {WithField(r, f)}]
                          => ReadFits(w)
  <1> DEFINE c  == write_column_key(b, named).buf
             rd == Read(b.output)
  <1>1. PICK key \in Tokens :
          /\ key.k = "key"
          /\ c.output = Append(b.output, key)
          /\ c.state.op_case = "ColumnWritten"
          /\ c.state.row_count = b.state.row_count
          /\ check_op(b, "Column")
    BY KeyPushed
  <1>2. b.output \in Seq(Tokens)
    BY DEF Good, Buffers
  <1>3. c \in Buffers
    BY KeySound DEF Sound, Good
  <1>4. PICK r \in BatchRows : rd.cur = {r} /\ OpenRowFits(b.state.op_case, r)
    BY <1>1, OpCaseOf, OpenRow
  <1>5. Fits(b.state, b.output, rd) /\ rd \in Readings
    BY DEF ReadFits, Fits
  <1>6. Read(c.output) = ReadPiece(rd, key)
    BY <1>1, <1>2, ReadAppend
  <1> HIDE DEF c, rd
  <1>7. Read(c.output) = [rows |-> rd.rows, cur |-> {WithField(r, "broken")}]
    BY <1>1, <1>4, <1>5, <1>6, KeyPiece
  <1>8. TableNames(c.output) = TableNames(b.output)
    BY <1>1, <1>2, NamesAppend
  <1>9. r.ts = {}
    BY <1>4 DEF OpenRowFits
  <1>10. ASSUME NEW w, NEW f \in Batch!Fields, w.state = c.state,
                TableNames(w.output) = TableNames(c.output),
                Read(w.output) = [rows |-> rd.rows, cur |-> {WithField(r, f)}]
         PROVE  ReadFits(w)
    <2>1. Fits(w.state, w.output, [rows |-> rd.rows, cur |-> {WithField(r, f)}])
      <3>1. /\ w.state.op_case = "ColumnWritten"
            /\ w.state.row_count = b.state.row_count
            /\ TableNames(w.output) = TableNames(b.output)
        BY <1>1, <1>8, <1>10
      <3> QED
        BY <1>4, <1>5, <1>9, <3>1, FieldFits
    <2> QED
      BY <1>10, <2>1 DEF ReadFits
  <1> QED
    BY <1>3, <1>4, <1>7, <1>10 DEF c, rd

\* A column with its value adds a field.
LEMMA ValueBuilds ==
    ASSUME NEW b, Good(b), ReadFits(b), NEW named \in BOOLEAN,
           NEW val \in Tokens, val.k \in {"value", "micros"}
    PROVE  Builds(b, WithValue(write_column_key(b, named), val))
  <1> DEFINE k  == write_column_key(b, named)
             c  == k.buf
             w  == Push(c, val)
             rd == Read(b.output)
  <1>1. CASE k.res # "Ok"
    BY <1>1, KeyPushed DEF WithValue, Builds
  <1>2. CASE k.res = "Ok"
    <2>1. PICK r \in BatchRows :
            /\ rd.cur = {r}
            /\ Read(c.output) = [rows |-> rd.rows, cur |-> {WithField(r, "broken")}]
            /\ c \in Buffers
            /\ \A x, f : /\ f \in Batch!Fields
                         /\ x.state = c.state
                         /\ TableNames(x.output) = TableNames(c.output)
                         /\ Read(x.output) = [rows |-> rd.rows, cur |-> {WithField(r, f)}]
                         => ReadFits(x)
      BY <1>2, KeyReads
    <2>2. WithValue(k, val).buf = w
      BY <1>2 DEF WithValue, Ok
    <2> HIDE DEF k, c
    <2>3. w.output = Append(c.output, val) /\ w.state = c.state
          /\ c.output \in Seq(Tokens)
      BY <2>1, PushFields DEF Buffers
    <2> HIDE DEF w
    <2>4. TableNames(w.output) = TableNames(c.output)
      BY <2>3, NamesAppend
    <2>5. Read(c.output) \in Readings
      <3>1. rd \in Readings
        BY DEF ReadFits, Fits
      <3>2. "broken" \in Batch!Fields
        BY DEF Batch!Fields
      <3>3. WithField(r, "broken") \in BatchRows
        BY <3>2, WithFieldFacts
      <3> HIDE DEF rd
      <3> QED
        BY <2>1, <3>1, <3>3 DEF Readings
    <2>6. Read(w.output) = ReadPiece(Read(c.output), val)
      BY <2>3, ReadAppend
    <2>7. Read(w.output) = [rows |-> rd.rows, cur |-> {WithField(r, "column")}]
      <3> HIDE DEF rd
      <3> DEFINE rc == Read(c.output)
      <3>1. rc.cur = {WithField(r, "broken")} /\ rc.rows = rd.rows /\ rc \in Readings
        BY <2>1, <2>5
      <3>2. Read(w.output) = ReadPiece(rc, val)
        BY <2>6
      <3> HIDE DEF rc
      <3> QED
        BY <3>1, <3>2, ValuePiece
    <2>8. "column" \in Batch!Fields
      BY DEF Batch!Fields
    <2>9. ReadFits(w)
      BY <2>1, <2>3, <2>4, <2>7, <2>8
    <2> HIDE DEF rd
    <2>10. FieldAdded(rd, Read(w.output))
      BY <2>1, <2>7, <2>8 DEF FieldAdded
    <2> QED
      BY <2>2, <2>9, <2>10 DEF Builds, rd, k
  <1> QED
    BY <1>1, <1>2

\* column() adds a field.
LEMMA ColumnBuilds ==
    ASSUME NEW b, Good(b), ReadFits(b), NEW named \in BOOLEAN
    PROVE  Builds(b, column(b, named))
  <1>1. [k |-> "value"] \in Tokens /\ [k |-> "value"].k = "value"
    BY DEF Tokens
  <1> QED
    BY <1>1, ValueBuilds DEF column

\* column_ts() adds a field, which is broken when the conversion fails.
LEMMA ColumnTsBuilds ==
    ASSUME NEW b, Good(b), ReadFits(b), NEW named \in BOOLEAN,
           NEW ts \in SUBSET Timestamps
    PROVE  Builds(b, column_ts(b, named, ts))
  <1> DEFINE k  == write_column_key(b, named)
             c  == k.buf
             r  == column_ts(b, named, ts)
             t  == CHOOSE x \in ts : TRUE
             rd == Read(b.output)
  <1>1. CASE k.res = "Ok" /\ ts = {}
    <2>1. r.buf = c
      BY <1>1 DEF column_ts, Err
    <2>2. PICK q \in BatchRows :
            /\ rd.cur = {q}
            /\ Read(c.output) = [rows |-> rd.rows, cur |-> {WithField(q, "broken")}]
            /\ \A x, f : /\ f \in Batch!Fields
                         /\ x.state = c.state
                         /\ TableNames(x.output) = TableNames(c.output)
                         /\ Read(x.output) = [rows |-> rd.rows, cur |-> {WithField(q, f)}]
                         => ReadFits(x)
      BY <1>1, KeyReads
    <2>3. "broken" \in Batch!Fields
      BY DEF Batch!Fields
    <2> HIDE DEF c, rd, r
    <2>4. ReadFits(c)
      BY <2>2, <2>3
    <2>5. FieldAdded(rd, Read(c.output))
      BY <2>2, <2>3 DEF FieldAdded
    <2> QED
      BY <2>1, <2>4, <2>5 DEF Builds, rd, r
  <1>2. CASE k.res # "Ok"
    <2>1. r = k /\ k.buf = b
      BY <1>2, KeyPushed DEF column_ts, WithValue
    <2> QED
      BY <2>1 DEF Builds
  <1>3. CASE k.res = "Ok" /\ ts # {}
    <2> DEFINE val == [k |-> "micros", v |-> as_micros(t)]
    <2>1. t \in Timestamps
      BY <1>3
    <2>2. val \in Tokens /\ val.k = "micros"
      BY <2>1, MicrosInI64 DEF Tokens
    <2>3. r = WithValue(k, val)
      BY <1>3 DEF column_ts
    <2> HIDE DEF val
    <2> QED
      BY <2>2, <2>3, ValueBuilds
  <1> QED
    BY <1>1, <1>2, <1>3

\* The end of a row finishes it, with the timestamp that has been read or none.
LEMMA EndRowBuilds ==
    ASSUME NEW b, ReadFits(b), b.state.op_case \in {"SymbolWritten", "ColumnWritten"},
           NEW p \in Buffers, p.state = b.state,
           TableNames(p.output) = TableNames(b.output),
           NEW ts \in {{}} \cup {{n} : n \in Instants},
           NEW r \in BatchRows, Read(b.output).cur = {r},
           OpenRowFits(b.state.op_case, r),
           Read(p.output) = [rows |-> Read(b.output).rows, cur |-> {[r EXCEPT !.ts = ts]}]
    PROVE  /\ ReadFits(EndRow(p))
           /\ RowFinished(Read(b.output), Read(EndRow(p).output))
  <1> DEFINE w  == EndRow(p)
             q  == [r EXCEPT !.ts = ts]
             rd == Read(b.output)
  <1>1. PICK tok \in Tokens : tok = [k |-> "nl"]
    BY DEF Tokens
  <1>2. /\ w.output = Append(p.output, tok)
        /\ w.state.op_case = "MayFlushOrTable"
        /\ w.state.row_count = p.state.row_count + 1
        /\ p.output \in Seq(Tokens) /\ tok.k = "nl"
    BY <1>1, EndRowFields DEF Buffers
  <1>3. q \in BatchRows /\ q.table = r.table
    <2>1. ts \in SUBSET I64
      <3>1. Instants \subseteq I64
        BY TsInputsAssumption DEF Instants, as_nanos, micros_to_nanos, Timestamps
      <3> QED
        BY <3>1
    <2> QED
      BY <2>1 DEF BatchRows
  <1>4. r.fields # <<>>
    BY DEF OpenRowFits
  <1> HIDE DEF w, rd
  <1>5. Read(w.output) = [rows |-> Append(rd.rows, q), cur |-> {}]
    <2> DEFINE rp == Read(p.output)
    <2>1. Read(w.output) = ReadPiece(rp, tok)
      BY <1>2, ReadAppend
    <2>2. rp.cur = {q} /\ rp.rows = rd.rows
      BY DEF rd
    <2> HIDE DEF rp, q
    <2>3. ReadPiece(rp, [k |-> "nl"]) = [rows |-> Append(rp.rows, q), cur |-> {}]
      BY <2>2, NlPiece
    <2> QED
      BY <1>1, <2>1, <2>2, <2>3
  <1>6. RowFinished(rd, Read(w.output))
    <2> DEFINE rw == Read(w.output)
    <2>1. rw.cur = {} /\ rw.rows = Append(rd.rows, [r EXCEPT !.ts = ts])
      BY <1>5
    <2>2. r \in rd.cur
      BY DEF rd
    <2> HIDE DEF rw, q
    <2>3. \E t \in {{}} \cup {{n} : n \in Instants} :
            rw.rows = Append(rd.rows, [r EXCEPT !.ts = t])
      BY <2>1
    <2>4. RowFinished(rd, rw)
      BY <1>4, <2>1, <2>2, <2>3, Zenon DEF RowFinished
    <2> QED
      BY <2>4 DEF rw
  <1> HIDE DEF q
  <1>7. ReadFits(w)
    <2>1. TableNames(w.output) = TableNames(b.output)
      BY <1>2, NamesAppend
    <2>2. Fits(b.state, b.output, rd) /\ rd.cur = {r}
      BY DEF ReadFits, rd
    <2>3. w.state.row_count = b.state.row_count + 1
      BY <1>2
    <2>4. Fits(w.state, w.output, [rows |-> Append(rd.rows, q), cur |-> {}])
      BY <1>2, <1>3, <2>1, <2>2, <2>3, FinishedFits
    <2> QED
      BY <1>5, <2>4 DEF ReadFits
  <1> QED
    BY <1>6, <1>7 DEF w, rd

\* at_now() finishes the row.
LEMMA AtNowBuilds ==
    ASSUME NEW b, Good(b), ReadFits(b)
    PROVE  Builds(b, at_now(b))
  <1>1. CASE ~check_op(b, "At")
    BY <1>1 DEF at_now, Err, Builds
  <1>2. CASE check_op(b, "At")
    <2>1. at_now(b).buf = EndRow(b)
      BY <1>2 DEF at_now, Ok
    <2>2. b.state.op_case \in {"SymbolWritten", "ColumnWritten"} /\ b \in Buffers
      BY <1>2, OpCaseOf DEF Good
    <2>3. PICK r \in BatchRows : /\ Read(b.output).cur = {r}
                                 /\ OpenRowFits(b.state.op_case, r)
      BY <2>2, OpenRow DEF Between
    <2>4. [r EXCEPT !.ts = {}] = r
      BY <2>3 DEF OpenRowFits, BatchRows
    <2>5. Read(b.output) = [rows |-> Read(b.output).rows,
                            cur  |-> {[r EXCEPT !.ts = {}]}]
      <3> DEFINE rd == Read(b.output)
      <3>1. rd \in Readings /\ rd.cur = {r}
        BY <2>3 DEF ReadFits, Fits
      <3> HIDE DEF rd
      <3>2. rd = [rows |-> rd.rows, cur |-> {r}]
        BY <3>1 DEF Readings
      <3> QED
        BY <2>4, <3>2 DEF rd
    <2>6. {} \in {{}} \cup {{n} : n \in Instants}
      OBVIOUS
    <2>7. ReadFits(EndRow(b)) /\ RowFinished(Read(b.output), Read(EndRow(b).output))
      BY <2>2, <2>3, <2>5, <2>6, EndRowBuilds
    <2> QED
      BY <2>1, <2>7 DEF Builds
  <1> QED
    BY <1>1, <1>2

\* at() writes the timestamp and finishes the row.
LEMMA AtBuilds ==
    ASSUME NEW b, Good(b), ReadFits(b), NEW ts \in TsArgs
    PROVE  Builds(b, at(b, ts))
  <1> DEFINE nanos == UNION {as_nanos(t) : t \in ts}
  <1>1. CASE ~check_op(b, "At") \/ nanos = {} \/ \E n \in nanos : n < 0
    BY <1>1 DEF at, Err, Builds
  <1>2. CASE check_op(b, "At") /\ ~(nanos = {} \/ \E n \in nanos : n < 0)
    <2> DEFINE x == CHOOSE n \in nanos : TRUE
               tok == [k |-> "ts", v |-> x]
               p == Push(b, tok)
    <2>1. at(b, ts).buf = EndRow(p)
      BY <1>2 DEF at, Ok
    <2>2. x \in nanos /\ ~(x < 0)
      BY <1>2
    <2>3. nanos \subseteq I64
      BY TsArgsAreTimestamps DEF as_nanos, micros_to_nanos, Timestamps
    <2>4. x \in Instants
      <3>1. PICK t \in ts : x \in as_nanos(t)
        BY <2>2
      <3>2. t \in TsInputs
        BY DEF TsArgs
      <3>3. x >= 0
        BY <2>2, <2>3 DEF I64
      <3> HIDE DEF x
      <3> QED
        BY <3>1, <3>2, <3>3 DEF Instants
    <2>5. x \in I64
      BY <2>2, <2>3
    <2> HIDE DEF x, nanos
    <2>6. tok \in Tokens /\ tok.k = "ts" /\ tok.v = x
      BY <2>5 DEF Tokens
    <2> HIDE DEF tok
    <2>7. /\ b \in Buffers /\ b.output \in Seq(Tokens)
          /\ p \in Buffers /\ p.output = Append(b.output, tok) /\ p.state = b.state
      BY <2>6, PushFields DEF Good, Buffers
    <2> HIDE DEF p
    <2>8. b.state.op_case \in {"SymbolWritten", "ColumnWritten"}
      BY <1>2, OpCaseOf
    <2>9. PICK r \in BatchRows : /\ Read(b.output).cur = {r}
                                 /\ OpenRowFits(b.state.op_case, r)
      BY <2>8, OpenRow DEF Between
    <2>10. TableNames(p.output) = TableNames(b.output)
      BY <2>6, <2>7, NamesAppend
    <2>11. Read(p.output) = [rows |-> Read(b.output).rows,
                             cur  |-> {[r EXCEPT !.ts = {x}]}]
      <3> DEFINE rd == Read(b.output)
      <3>1. rd \in Readings /\ rd.cur = {r}
        BY <2>9 DEF ReadFits, Fits
      <3>2. Read(p.output) = ReadPiece(rd, tok)
        BY <2>6, <2>7, ReadAppend
      <3> HIDE DEF rd
      <3>3. ReadPiece(rd, tok) = [rows |-> rd.rows, cur |-> {[r EXCEPT !.ts = {tok.v}]}]
        BY <2>6, <3>1, TsPiece
      <3> QED
        BY <2>6, <3>2, <3>3 DEF rd
    <2>12. {x} \in {{}} \cup {{n} : n \in Instants}
      BY <2>4
    <2>13. ReadFits(EndRow(p)) /\ RowFinished(Read(b.output), Read(EndRow(p).output))
      BY <2>7, <2>8, <2>9, <2>10, <2>11, <2>12, EndRowBuilds
    <2> QED
      BY <2>1, <2>13 DEF Builds
  <1> QED
    BY <1>1, <1>2

-----------------------------------------------------------------------------
(***************************************************************************)
(* The refinement.  The invariant says of the whole text, and of the text  *)
(* before the marker, that what is read from it fits the state kept for    *)
(* it.                                                                     *)
(***************************************************************************)
Before(b, m) == SubSeq(b.output, 1, m.position)

MarkerFits(b) == \A m \in b.marker : Fits(m.state, Before(b, m), Read(Before(b, m)))

ReadInv == IInv /\ ReadFits(buf) /\ MarkerFits(buf)

Savepoints(b) == {Read(Before(b, m)).rows : m \in b.marker}

\* What the caller can observe is what the rows say.
LEMMA ObservedFits ==
    ASSUME NEW b, Good(b), ReadFits(b)
    PROVE  LET rd == Read(b.output) IN
           /\ b.state.row_count = Len(rd.rows)
           /\ b.state.transactional = (\A s, t \in TablesRead(rd) : s = t)
           /\ check_op(b, "Flush") = (rd.cur = {} /\ rd.rows # <<>>)
  <1> DEFINE rd == Read(b.output)
  <1>1. Fits(b.state, b.output, rd)
    BY DEF ReadFits
  <1> HIDE DEF rd
  <1>2. b.state.row_count = Len(rd.rows)
    BY <1>1 DEF Fits
  <1>3. b.state.transactional = (\A s, t \in TablesRead(rd) : s = t)
    <2>1. TablesRead(rd) = TableNames(b.output)
      BY <1>1 DEF Fits
    <2>2. b.state.transactional \in BOOLEAN
      BY DEF Good, Buffers, BufferStates
    <2>3. b.state.transactional <=> SingleTable(b.output)
      BY DEF Good, Describes
    <2> DEFINE A == \A s, t \in TablesRead(rd) : s = t
    <2>4. A <=> SingleTable(b.output)
      BY <2>1 DEF SingleTable
    <2>5. A \in BOOLEAN
      OBVIOUS
    <2> HIDE DEF A
    <2>6. b.state.transactional = A
      BY <2>2, <2>3, <2>4, <2>5
    <2> QED
      BY <2>6 DEF A
  <1>4. check_op(b, "Flush") = (rd.cur = {} /\ rd.rows # <<>>)
    <2>1. check_op(b, "Flush") \in BOOLEAN
      BY DEF check_op
    <2>2. check_op(b, "Flush") <=> b.state.op_case = "MayFlushOrTable"
      BY OpCaseOf
    <2>3. (b.state.op_case = "MayFlushOrTable") <=> (rd.cur = {} /\ rd.rows # <<>>)
      BY <1>1 DEF Fits, Between
    <2> QED
      BY <2>1, <2>2, <2>3
  <1> QED
    BY <1>2, <1>3, <1>4 DEF rd

\* The same of RowBatch, whose next-state relation states it.
LEMMA ObservedStep ==
    ASSUME Good(buf'), ReadFits(buf')
    PROVE  Batch!Observed(Read(buf.output).rows', Read(buf.output).cur')
  BY ObservedFits DEF Batch!Observed, TablesRead

\* Text that is added leaves what the marker covers as it was.
LEMMA GrownFits ==
    ASSUME NEW b, NEW c, Good(b), Marked(b), Grown(b, c)
    PROVE  /\ \A m \in b.marker : Before(c, m) = Before(b, m)
           /\ c.marker = b.marker
           /\ Savepoints(c) = Savepoints(b)
           /\ MarkerFits(b) => MarkerFits(c)
  <1>1. ASSUME NEW m \in b.marker PROVE Before(c, m) = Before(b, m)
    BY MarkerFields DEF Before, Grown
  <1>2. c.marker = b.marker
    BY DEF Grown
  <1>3. Savepoints(c) = Savepoints(b)
    BY <1>1, <1>2 DEF Savepoints
  <1>4. MarkerFits(b) => MarkerFits(c)
    BY <1>1, <1>2 DEF MarkerFits
  <1> QED
    BY <1>1, <1>2, <1>3, <1>4

\* The invariant says of the marker what the lemmas about it need.
LEMMA InvIsMarked ==
    ASSUME IInv
    PROVE  Marked(buf)
  <1> SUFFICES ASSUME NEW m \in buf.marker
               PROVE  /\ m.position <= Len(buf.output)
                      /\ Describes(m.state, SubSeq(buf.output, 1, m.position))
    BY DEF Marked
  <1>1. PICK s \in saved : TRUE
    BY DEF IInv, MarkerIsSnapshot
  <1> QED
    BY <1>1 DEF IInv, MarkerIsSnapshot

\* A call that builds rows is a step of the batch.
LEMMA BuildStep ==
    ASSUME ReadInv, IInv', NEW r, Call(r), Builds(buf, r), Grown(buf, r.buf)
    PROVE  ReadInv' /\ [Batch!Next]_(Batch!vars)
  <1>1. buf' = r.buf
    BY DEF Call
  <1>2. /\ Savepoints(buf') = Savepoints(buf)
        /\ MarkerFits(buf')
    BY <1>1, InvIsGood, InvIsMarked, GrownFits DEF ReadInv
  <1>3. CASE buf' = buf
    <2>1. UNCHANGED Batch!vars
      BY <1>3 DEF Batch!vars
    <2> QED
      BY <1>3, <2>1 DEF ReadInv
  <1>4. CASE buf' # buf
    <2> DEFINE p == Read(buf.output)
               q == Read(buf'.output)
    <2>1. ReadFits(buf') /\ (RowOpened(p, q) \/ FieldAdded(p, q) \/ RowFinished(p, q))
      BY <1>1, <1>4 DEF Builds
    <2>2. ReadInv'
      BY <1>2, <2>1 DEF ReadInv
    <2>3. Good(buf')
      BY DEF IInv, TypeOK, StateDescribesOutput, OutputIsLines, Good
    <2>4. Batch!Observed(Read(buf.output).rows', Read(buf.output).cur')
      BY <2>1, <2>3, ObservedStep
    <2> HIDE DEF p, q
    <2>5. RowOpened(p, q) => Batch!BeginRow
      BY <1>2 DEF RowOpened, NewRow, Batch!BeginRow, Savepoints, Before, p, q
    <2>6. FieldAdded(p, q) => Batch!AddField
      BY <1>2 DEF FieldAdded, WithField, Batch!AddField, Savepoints, Before, p, q
    <2>7. RowFinished(p, q) => Batch!FinishRow
      BY <1>2 DEF RowFinished, Batch!FinishRow, Savepoints, Before, p, q
    <2>8. Batch!Next
      BY <2>1, <2>4, <2>5, <2>6, <2>7 DEF Batch!Next
    <2> QED
      BY <2>2, <2>8
  <1> QED
    BY <1>3, <1>4

\* set_marker() saves the rows.
LEMMA SetMarkerStep ==
    ASSUME ReadInv, IInv', SetMarker
    PROVE  ReadInv' /\ [Batch!Next]_(Batch!vars)
  <1>0. Good(buf) /\ buf \in Buffers /\ buf.output \in Seq(Tokens)
    BY InvIsGood DEF ReadInv, Good, Buffers
  <1>1. CASE ~check_op(buf, "Table")
    <2>1. buf' = buf
      BY <1>1 DEF SetMarker, Call, set_marker, Err
    <2>2. UNCHANGED Batch!vars
      BY <2>1 DEF Batch!vars
    <2> QED
      BY <2>1, <2>2 DEF ReadInv
  <1>2. CASE check_op(buf, "Table")
    <2> DEFINE m == [position |-> Len(buf.output), state |-> buf.state]
    <2>1. buf' = [buf EXCEPT !.marker = {m}]
      BY <1>2 DEF SetMarker, Call, set_marker, Ok
    <2>2. buf'.output = buf.output /\ buf'.state = buf.state /\ buf'.marker = {m}
      BY <1>0, <2>1 DEF Buffers
    <2>3. m.position = Len(buf.output) /\ m.state = buf.state
      OBVIOUS
    <2>4. SubSeq(buf.output, 1, Len(buf.output)) = buf.output
      BY <1>0
    <2> HIDE DEF m
    <2>5. Before(buf', m) = buf.output
      BY <2>2, <2>3, <2>4 DEF Before
    <2>6. ReadFits(buf')
      BY <2>2 DEF ReadInv, ReadFits
    <2>7. MarkerFits(buf')
      BY <2>2, <2>3, <2>5 DEF MarkerFits, ReadInv, ReadFits
    <2>8. Savepoints(buf') = {Read(buf.output).rows}
      BY <2>2, <2>5 DEF Savepoints
    <2>9. Read(buf.output).cur = {}
      BY <1>0, <1>2, OpCaseOf DEF ReadInv, ReadFits, Fits
    <2>10. Batch!Save
      BY <2>2, <2>8, <2>9 DEF Batch!Save, Savepoints, Before
    <2>11. Good(buf')
      BY DEF IInv, TypeOK, StateDescribesOutput, OutputIsLines, Good
    <2>12. Batch!Next
      BY <2>6, <2>10, <2>11, ObservedStep DEF Batch!Next
    <2> QED
      BY <2>6, <2>7, <2>12 DEF ReadInv
  <1> QED
    BY <1>1, <1>2

\* rewind_to_marker() goes back to the rows that were saved.
LEMMA RewindStep ==
    ASSUME ReadInv, IInv', RewindToMarker
    PROVE  ReadInv' /\ [Batch!Next]_(Batch!vars)
  <1>1. CASE buf.marker = {}
    <2>1. buf' = buf
      BY <1>1 DEF RewindToMarker, Call, rewind_to_marker, Err
    <2>2. UNCHANGED Batch!vars
      BY <2>1 DEF Batch!vars
    <2> QED
      BY <2>1, <2>2 DEF ReadInv
  <1>2. CASE buf.marker # {}
    <2> DEFINE m == CHOOSE x \in buf.marker : TRUE
    <2>1. m \in buf.marker
      BY <1>2
    <2>2. buf' = [output |-> Before(buf, m), state |-> m.state, marker |-> {}]
      BY <1>2 DEF RewindToMarker, Call, rewind_to_marker, Ok, Before
    <2> HIDE DEF m
    <2>3. buf'.output = Before(buf, m) /\ buf'.state = m.state /\ buf'.marker = {}
      BY <2>2
    <2>4. Fits(m.state, Before(buf, m), Read(Before(buf, m)))
      BY <2>1 DEF ReadInv, MarkerFits
    <2>5. ReadFits(buf')
      BY <2>3, <2>4 DEF ReadFits
    <2>6. MarkerFits(buf') /\ Savepoints(buf') = {}
      BY <2>3 DEF MarkerFits, Savepoints
    <2>7. Read(buf'.output).rows \in Savepoints(buf)
      BY <2>1, <2>3 DEF Savepoints
    <2>8. Read(buf'.output).cur = {}
      <3>1. PICK s \in saved : TRUE
        BY <2>1 DEF ReadInv, IInv, MarkerIsSnapshot
      <3>2. m.state.op_case \in Between
        BY <2>1, <3>1 DEF ReadInv, IInv, MarkerIsSnapshot, Between
      <3> QED
        BY <2>3, <2>4, <3>2 DEF Fits
    <2>9. Batch!Rollback
      BY <2>6, <2>7, <2>8 DEF Batch!Rollback, Savepoints, Before
    <2>10. Good(buf')
      BY DEF IInv, TypeOK, StateDescribesOutput, OutputIsLines, Good
    <2>11. Batch!Next
      BY <2>5, <2>9, <2>10, ObservedStep DEF Batch!Next
    <2> QED
      BY <2>5, <2>6, <2>11 DEF ReadInv
  <1> QED
    BY <1>1, <1>2

\* clear_marker() forgets the rows that were saved.
LEMMA ClearMarkerStep ==
    ASSUME ReadInv, IInv', ClearMarker
    PROVE  ReadInv' /\ [Batch!Next]_(Batch!vars)
  <1>1. buf \in Buffers
    BY DEF ReadInv, IInv, TypeOK
  <1>2. buf' = [buf EXCEPT !.marker = {}]
    BY DEF ClearMarker, Call, clear_marker, Ok
  <1>3. buf'.output = buf.output /\ buf'.state = buf.state /\ buf'.marker = {}
    BY <1>1, <1>2 DEF Buffers
  <1>4. ReadFits(buf')
    BY <1>3 DEF ReadInv, ReadFits
  <1>5. MarkerFits(buf') /\ Savepoints(buf') = {}
    BY <1>3 DEF MarkerFits, Savepoints
  <1>6. Batch!Forget
    BY <1>3, <1>5 DEF Batch!Forget, Savepoints, Before
  <1>7. Good(buf')
    BY DEF IInv, TypeOK, StateDescribesOutput, OutputIsLines, Good
  <1>8. Batch!Next
    BY <1>4, <1>6, <1>7, ObservedStep DEF Batch!Next
  <1> QED
    BY <1>4, <1>5, <1>8 DEF ReadInv

\* clear() empties the batch.
LEMMA ClearStep ==
    ASSUME ReadInv, IInv', Clear
    PROVE  ReadInv' /\ [Batch!Next]_(Batch!vars)
  <1>1. buf'.output = <<>> /\ buf'.state = NewState /\ buf'.marker = {}
    BY DEF Clear, Call, clear, Ok, NewBuffer
  <1>2. ReadFits(buf')
    BY <1>1, NewFits DEF ReadFits
  <1>3. MarkerFits(buf') /\ Savepoints(buf') = {}
    BY <1>1 DEF MarkerFits, Savepoints
  <1>4. Read(buf'.output).rows = <<>> /\ Read(buf'.output).cur = {}
    BY <1>1, ReadEmpty DEF NothingRead
  <1>5. Batch!Reset
    BY <1>3, <1>4 DEF Batch!Reset, Savepoints, Before
  <1>6. Good(buf')
    BY DEF IInv, TypeOK, StateDescribesOutput, OutputIsLines, Good
  <1>7. Batch!Next
    BY <1>2, <1>5, <1>6, ObservedStep DEF Batch!Next
  <1> QED
    BY <1>2, <1>3, <1>7 DEF ReadInv

\* A new buffer is an empty batch.
LEMMA InitBatch == Init => ReadInv /\ Batch!Init
  <1> SUFFICES ASSUME Init PROVE ReadInv /\ Batch!Init
    OBVIOUS
  <1>1. buf.output = <<>> /\ buf.state = NewState /\ buf.marker = {}
    BY DEF Init, NewBuffer
  <1>2. Read(buf.output) = NothingRead /\ ReadFits(buf)
    BY <1>1, ReadEmpty, NewFits DEF ReadFits
  <1>3. ReadInv
    BY <1>1, <1>2, InitInv DEF ReadInv, MarkerFits
  <1>4. ~check_op(buf, "Flush") /\ check_op(buf, "Flush") \in BOOLEAN
    BY <1>1 DEF check_op, NewState, OpCase, OpCases
  <1>5. Batch!Init
    <2>1. buf.state.row_count = 0 /\ buf.state.transactional = TRUE
      BY <1>1 DEF NewState
    <2>2. Read(buf.output).rows = <<>> /\ Read(buf.output).cur = {}
      BY <1>2 DEF NothingRead
    <2>3. Savepoints(buf) = {}
      BY <1>1 DEF Savepoints
    <2> QED
      BY <1>4, <2>1, <2>2, <2>3 DEF Batch!Init, Savepoints, Before
  <1> QED
    BY <1>3, <1>5

\* Every call is a step of the batch, or none.
LEMMA NextBatch == ReadInv /\ [Next]_vars => ReadInv' /\ [Batch!Next]_(Batch!vars)
  <1> SUFFICES ASSUME ReadInv, [Next]_vars
               PROVE  ReadInv' /\ [Batch!Next]_(Batch!vars)
    OBVIOUS
  <1>0. Good(buf) /\ ReadFits(buf)
    BY InvIsGood DEF ReadInv
  <1>1. IInv'
    BY NextInv DEF ReadInv
  <1>2. ASSUME NEW n \in Tables \cup {BadName}, Table(n)
        PROVE  ReadInv' /\ [Batch!Next]_(Batch!vars)
    <2>1. Call(table(buf, n)) /\ Grown(buf, table(buf, n).buf)
      BY <1>0, <1>2, TableSound DEF Table, Sound
    <2> QED
      BY <1>0, <1>1, <2>1, TableBuilds, BuildStep
  <1>3. ASSUME NEW named \in BOOLEAN, Symbol(named)
        PROVE  ReadInv' /\ [Batch!Next]_(Batch!vars)
    <2>1. Call(symbol(buf, named)) /\ Grown(buf, symbol(buf, named).buf)
      BY <1>0, <1>3, SymbolSound DEF Symbol, Sound
    <2> QED
      BY <1>0, <1>1, <2>1, SymbolBuilds, BuildStep
  <1>4. ASSUME NEW named \in BOOLEAN, Column(named)
        PROVE  ReadInv' /\ [Batch!Next]_(Batch!vars)
    <2>1. Call(column(buf, named)) /\ Grown(buf, column(buf, named).buf)
      BY <1>0, <1>4, ColumnSound DEF Column, Sound
    <2> QED
      BY <1>0, <1>1, <2>1, ColumnBuilds, BuildStep
  <1>5. ASSUME NEW named \in BOOLEAN, NEW ts \in TsArgs, ColumnTs(named, ts)
        PROVE  ReadInv' /\ [Batch!Next]_(Batch!vars)
    <2>1. ts \in SUBSET Timestamps
      BY TsArgsAreTimestamps
    <2>2. Call(column_ts(buf, named, ts)) /\ Grown(buf, column_ts(buf, named, ts).buf)
      BY <1>0, <1>5, <2>1, ColumnTsSound DEF ColumnTs, Sound
    <2> QED
      BY <1>0, <1>1, <2>1, <2>2, ColumnTsBuilds, BuildStep
  <1>6. ASSUME NEW ts \in TsArgs, At(ts)
        PROVE  ReadInv' /\ [Batch!Next]_(Batch!vars)
    <2>1. ts \in SUBSET Timestamps
      BY TsArgsAreTimestamps
    <2>2. Call(at(buf, ts)) /\ Grown(buf, at(buf, ts).buf)
      BY <1>0, <1>6, <2>1, AtSound DEF At, Sound
    <2> QED
      BY <1>0, <1>1, <2>2, AtBuilds, BuildStep
  <1>7. CASE AtNow
    <2>1. Call(at_now(buf)) /\ Grown(buf, at_now(buf).buf)
      BY <1>0, <1>7, AtNowSound DEF AtNow, Sound
    <2> QED
      BY <1>0, <1>1, <2>1, AtNowBuilds, BuildStep
  <1>8. CASE SetMarker
    BY <1>1, <1>8, SetMarkerStep
  <1>9. CASE RewindToMarker
    BY <1>1, <1>9, RewindStep
  <1>10. CASE ClearMarker
    BY <1>1, <1>10, ClearMarkerStep
  <1>11. CASE Clear
    BY <1>1, <1>11, ClearStep
  <1>12. CASE UNCHANGED vars
    <2>1. buf' = buf
      BY <1>12 DEF vars
    <2>2. UNCHANGED Batch!vars
      BY <2>1 DEF Batch!vars
    <2> QED
      BY <1>1, <2>1, <2>2 DEF ReadInv
  <1> QED
    BY <1>2, <1>3, <1>4, <1>5, <1>6, <1>7, <1>8, <1>9, <1>10, <1>11, <1>12 DEF Next

(***************************************************************************)
(* A Buffer implements the batch of rows with one savepoint: read back     *)
(* piece by piece, its text is the list of rows that the calls made, its   *)
(* marker is a copy of that list, and row_count(), transactional() and the *)
(* test that a flush makes say what the list says.                         *)
(***************************************************************************)
THEOREM BufferImplementsRowBatch == Spec => ImplementsRowBatch
  <1>1. ReadInv /\ [Next]_vars => ReadInv'
    BY NextBatch
  <1>2. ReadInv /\ [Next]_vars => [Batch!Next]_(Batch!vars)
    BY NextBatch
  <1> QED
    BY <1>1, <1>2, InitBatch, PTL DEF Spec, ImplementsRowBatch, Batch!Spec
=============================================================================

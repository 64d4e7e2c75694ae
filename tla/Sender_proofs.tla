--------------------------- MODULE Sender_proofs ---------------------------
(***************************************************************************)
(* Proofs about Sender, for every set of senders, buffers and tables, and  *)
(* every bound on the socket, the flushes and the posts, and about the     *)
(* retries of one flush over HTTP.                                         *)
(***************************************************************************)
EXTENDS Sender, HttpRetry, BufferOps_proofs

(***************************************************************************)
(* The inductive invariant.                                                *)
(***************************************************************************)
Requests == [ text : Seq(Tokens), txn : BOOLEAN,
              posted : Nat, pending : Nat, applied : Nat ]

\* A flush that has borrowed its buffer.
Borrows == [buf : Bufs, keep : BOOLEAN, txn : BOOLEAN, before : Buffers]

\* The types of the variables; ret is left to the properties about it.
TypeInv ==
    /\ setup \in Setups
    /\ connected \in BOOLEAN /\ up \in BOOLEAN
    /\ {left, socket, received, stream} \subseteq Seq(Tokens)
    /\ call \subseteq Borrows /\ IsOption(call)
    /\ flight \in Requests

\* The buffers are in order, and a rewind keeps them so.
BufsInv ==
    /\ bufs = [b \in Bufs |-> bufs[b]]
    /\ \A b \in Bufs : Good(bufs[b]) /\ Marked(bufs[b])

\* The flush in progress passed the checks, and its buffer is still what the
\* caller handed over and what goes to the network.
CallInv ==
    \A c \in call :
      /\ c.before = bufs[c.buf]
      /\ bufs[c.buf].output # <<>>
      /\ ~Refused(bufs[c.buf], c.txn)
      /\ Protocol = "http" => flight.text = bufs[c.buf].output
      /\ Protocol = "tcp" => IsSuffix(bufs[c.buf].output, stream)

\* Only a TCP flush in progress on a usable sender has text left to write.
LeftInv == left # <<>> => Protocol = "tcp" /\ call # {} /\ connected

IInv ==
    /\ TypeInv /\ BufsInv /\ CallInv /\ LeftInv
    /\ StreamIntact
    /\ RefusalsJustified /\ KeptUnlessFlushed /\ OkMeansHandedOver

-----------------------------------------------------------------------------
(***************************************************************************)
(* Prefixes and suffixes, piece by piece.                                  *)
(***************************************************************************)
LEMMA PrefixByPieces ==
    ASSUME NEW S, NEW a \in Seq(S), NEW s \in Seq(S)
    PROVE  IsPrefix(a, s) <=>
             Len(a) <= Len(s) /\ \A i \in 1 .. Len(a) : a[i] = s[i]
  <1>1. ASSUME Len(a) <= Len(s), \A i \in 1 .. Len(a) : a[i] = s[i]
        PROVE  SubSeq(a, 1, Len(a)) = SubSeq(s, 1, Len(a))
    BY <1>1
  <1>2. ASSUME Len(a) <= Len(s), SubSeq(a, 1, Len(a)) = SubSeq(s, 1, Len(a)),
               NEW i \in 1 .. Len(a)
        PROVE  a[i] = s[i]
    <2>1. SubSeq(a, 1, Len(a))[i] = a[i] /\ SubSeq(s, 1, Len(a))[i] = s[i]
      BY <1>2
    <2> QED
      BY <1>2, <2>1, Zenon
  <1> QED
    BY <1>1, <1>2 DEF IsPrefix

\* What Reverse does to a sequence, which IsSuffix is defined with.
LEMMA ReverseFacts ==
    ASSUME NEW S, NEW s \in Seq(S)
    PROVE  /\ Reverse(s) \in Seq(S)
           /\ Len(Reverse(s)) = Len(s)
           /\ \A i \in 1 .. Len(s) : Reverse(s)[i] = s[Len(s) - i + 1]
  BY DEF Reverse

\* The texts flushed end with the latest one.
LEMMA SuffixOfConcat ==
    ASSUME NEW S, NEW s \in Seq(S), NEW t \in Seq(S)
    PROVE  IsSuffix(t, s \o t)
  <1>1. /\ s \o t \in Seq(S) /\ Len(s \o t) = Len(s) + Len(t)
        /\ Len(s) \in Nat /\ Len(t) \in Nat
        /\ \A i \in 1 .. Len(t) : (s \o t)[Len(s) + i] = t[i]
    OBVIOUS
  <1>2. ASSUME NEW i \in 1 .. Len(t) PROVE Reverse(t)[i] = Reverse(s \o t)[i]
    <2>1. Reverse(t)[i] = t[Len(t) - i + 1]
      BY ReverseFacts
    <2>2. i \in 1 .. Len(s \o t)
      BY <1>1, <1>2
    <2>3. Reverse(s \o t)[i] = (s \o t)[Len(s \o t) - i + 1]
      BY <1>1, <2>2, ReverseFacts
    <2>4. /\ Len(s \o t) - i + 1 = Len(s) + (Len(t) - i + 1)
          /\ Len(t) - i + 1 \in 1 .. Len(t)
      BY <1>1, <1>2
    <2>5. (s \o t)[Len(s) + (Len(t) - i + 1)] = t[Len(t) - i + 1]
      BY <1>1, <2>4
    <2> QED
      BY <2>1, <2>3, <2>4, <2>5, Zenon
  <1>3. /\ Reverse(t) \in Seq(S) /\ Reverse(s \o t) \in Seq(S)
        /\ Len(Reverse(t)) = Len(t) /\ Len(Reverse(s \o t)) = Len(s \o t)
    BY <1>1, ReverseFacts, Zenon
  <1>4. Len(Reverse(t)) <= Len(Reverse(s \o t))
    BY <1>1, <1>3
  <1> QED
    BY <1>2, <1>3, <1>4, PrefixByPieces DEF IsSuffix

\* A text is a prefix of itself with another one after it.
LEMMA PrefixOfConcat ==
    ASSUME NEW S, NEW s \in Seq(S), NEW t \in Seq(S)
    PROVE  s \o t \in Seq(S) /\ IsPrefix(s, s \o t)
  <1>1. /\ s \o t \in Seq(S) /\ Len(s) <= Len(s \o t)
        /\ \A i \in 1 .. Len(s) : s[i] = (s \o t)[i]
    OBVIOUS
  <1> QED
    BY <1>1, PrefixByPieces

\* Being a prefix is transitive.
LEMMA PrefixTransitive ==
    ASSUME NEW S, NEW a \in Seq(S), NEW b \in Seq(S), NEW c \in Seq(S),
           IsPrefix(a, b), IsPrefix(b, c)
    PROVE  IsPrefix(a, c)
  <1>1. /\ Len(a) <= Len(b) /\ \A i \in 1 .. Len(a) : a[i] = b[i]
        /\ Len(b) <= Len(c) /\ \A i \in 1 .. Len(b) : b[i] = c[i]
    BY PrefixByPieces
  <1>2. Len(a) <= Len(c) /\ \A i \in 1 .. Len(a) : a[i] = c[i]
    BY <1>1
  <1> QED
    BY <1>2, PrefixByPieces

\* Handing on the first piece of t changes nothing in s and t together.
LEMMA HandOn ==
    ASSUME NEW S, NEW s \in Seq(S), NEW t \in Seq(S), t # <<>>
    PROVE  /\ Append(s, Head(t)) \in Seq(S) /\ Tail(t) \in Seq(S)
           /\ Append(s, Head(t)) \o Tail(t) = s \o t
  <1>1. Append(s, Head(t)) \in Seq(S) /\ Tail(t) \in Seq(S)
    OBVIOUS
  <1> DEFINE l == Append(s, Head(t)) \o Tail(t)
             r == s \o t
  <1>2. l \in Seq(S) /\ r \in Seq(S) /\ Len(l) = Len(r)
    OBVIOUS
  <1>3. ASSUME NEW i \in 1 .. Len(l) PROVE l[i] = r[i]
    BY <1>3
  <1> QED
    BY <1>1, <1>2, <1>3

-----------------------------------------------------------------------------
(***************************************************************************)
(* The checks of flush_impl.                                               *)
(***************************************************************************)
\* What the invariant says of the sequences and the numbers.
LEMMA Types ==
    ASSUME TypeInv
    PROVE  /\ left \in Seq(Tokens) /\ socket \in Seq(Tokens)
           /\ received \in Seq(Tokens) /\ stream \in Seq(Tokens)
           /\ Protocol \in {"tcp", "http"} /\ MaxBufSize \in Nat
           /\ setup.tables \subseteq Tables
  BY SetupsAssumption DEF TypeInv, Protocol, MaxBufSize

\* A buffer in order is refused exactly when its text is not sendable, or
\* when a transaction cannot be had.
LEMMA RefusedMeans ==
    ASSUME TypeInv, NEW b, Good(b), NEW txn \in BOOLEAN
    PROVE  Refused(b, txn) <=>
             \/ ~Sendable(b.output)
             \/ txn /\ (Protocol = "tcp" \/ ~SingleTable(b.output))
  <1>1. /\ b.output \in Seq(Tokens) /\ MaxBufSize \in Nat
        /\ b.state.transactional <=> SingleTable(b.output)
    BY Types, Zenon DEF Good, Buffers, Describes
  <1>2. check_op(b, "Flush") <=> b.output # <<>> /\ b.output[Len(b.output)].k = "nl"
    BY LastPiece
  <1>3. Len(b.output) > MaxBufSize <=> ~(Len(b.output) <= MaxBufSize)
    BY <1>1
  <1> QED
    BY <1>1, <1>2, <1>3, Zenon DEF Refused, Sendable

\* flush_impl never returns Ok for an empty buffer: check_op refuses it.
LEMMA PrecheckCases ==
    ASSUME NEW b, Good(b), NEW txn \in BOOLEAN
    PROVE  \/ Precheck(b, txn) = "SocketError"
           \/ Precheck(b, txn) = "InvalidApiCall" /\ Refused(b, txn)
           \/ /\ Precheck(b, txn) = "Go"
              /\ connected /\ ~Refused(b, txn) /\ b.output # <<>>
  <1>1. b.output = <<>> => Refused(b, txn)
    BY LastPiece DEF Refused
  <1> QED
    BY <1>1 DEF Precheck

\* The fields of a call.
LEMMA CallFields ==
    ASSUME NEW c \in Calls \cup Borrows
    PROVE  c.buf \in Bufs /\ c.keep \in BOOLEAN /\ c.txn \in BOOLEAN
  BY DEF Calls, Borrows

\* A call that begins has borrowed its buffer.
LEMMA BegunFacts ==
    ASSUME BufsInv, NEW c \in Calls
    PROVE  /\ Begun(c) \in Borrows
           /\ Begun(c).buf = c.buf /\ Begun(c).txn = c.txn
           /\ Begun(c).before = bufs[c.buf]
  <1>1. c.buf \in Bufs /\ bufs[c.buf] \in Buffers
    BY CallFields DEF BufsInv, Good
  <1> QED
    BY <1>1, CallFields DEF Begun, Borrows

-----------------------------------------------------------------------------
(***************************************************************************)
(* A step that returns nothing to the caller of a flush.                   *)
(***************************************************************************)
LEMMA QuietStep ==
    ASSUME ret' = NoReturn,
           TypeInv', BufsInv', CallInv', LeftInv', StreamIntact'
    PROVE  IInv'
  BY DEF IInv, RefusalsJustified, KeptUnlessFlushed, OkMeansHandedOver

\* The caller builds rows in a buffer that no flush has borrowed.
LEMMA BufferCallInv ==
    ASSUME IInv, UNCHANGED setup, NEW b \in Bufs, NEW r, BufferCall(b, r),
           Good(r.buf), Marked(r.buf)
    PROVE  IInv'
  <1>1. /\ Free(b) /\ bufs' = [bufs EXCEPT ![b] = r.buf] /\ ret' = NoReturn
        /\ UNCHANGED <<setup, connected, call, left, up, socket, received, stream, flight>>
    BY DEF BufferCall, tcp
  <1>2. TypeInv' /\ LeftInv' /\ StreamIntact'
    BY <1>1 DEF IInv, TypeInv, LeftInv, StreamIntact, Borrows, Bufs, Protocol
  <1>3. /\ \A x \in Bufs : bufs'[x] = IF x = b THEN r.buf ELSE bufs[x]
        /\ bufs' = [x \in Bufs |-> bufs'[x]]
    BY <1>1 DEF IInv, BufsInv
  <1>4. BufsInv'
    BY <1>1, <1>3 DEF IInv, BufsInv, Bufs
  <1>5. CallInv'
    <2>1. ASSUME NEW c \in call PROVE bufs'[c.buf] = bufs[c.buf]
      <3>1. c \in Borrows /\ c.buf # b
        BY <1>1 DEF IInv, TypeInv, Free
      <3> QED
        BY <1>3, <3>1, CallFields
    <2> QED
      BY <1>1, <2>1 DEF IInv, CallInv, Refused, Protocol, MaxBufSize
  <1> QED
    BY <1>1, <1>2, <1>4, <1>5, QuietStep

\* The calls of the caller on its buffers.
LEMMA BuildInv ==
    ASSUME IInv, UNCHANGED setup, NEW b \in Bufs,
           Build(b) \/ SetMarker(b) \/ RewindToMarker(b) \/ Clear(b)
    PROVE  IInv'
  <1>1. Good(bufs[b]) /\ Marked(bufs[b])
    BY DEF IInv, BufsInv
  <1>2. ASSUME NEW r, Sound(bufs[b], r), BufferCall(b, r) PROVE IInv'
    <2>1. Good(r.buf) /\ Marked(r.buf)
      BY <1>1, <1>2, GrownMarked DEF Sound
    <2> QED
      BY <1>2, <2>1, BufferCallInv
  <1>3. ASSUME NEW t \in setup.tables, BufferCall(b, table(bufs[b], t)) PROVE IInv'
    <2>1. t \in Tables \cup {BadName}
      BY <1>3, Types DEF IInv
    <2> QED
      BY <1>1, <1>2, <1>3, <2>1, TableSound
  <1>4. CASE BufferCall(b, symbol(bufs[b], TRUE))
    BY <1>1, <1>2, <1>4, SymbolSound
  <1>5. CASE BufferCall(b, at_now(bufs[b]))
    BY <1>1, <1>2, <1>5, AtNowSound
  <1>6. CASE SetMarker(b)
    BY <1>1, <1>6, SetMarkerGood, BufferCallInv DEF SetMarker
  <1>7. CASE RewindToMarker(b)
    BY <1>1, <1>7, RewindGood, BufferCallInv DEF RewindToMarker
  <1>8. CASE Clear(b)
    BY <1>8, NewBufferGood, BufferCallInv DEF Clear, clear, Ok
  <1> QED
    BY <1>3, <1>4, <1>5, <1>6, <1>7, <1>8 DEF Build

-----------------------------------------------------------------------------
(***************************************************************************)
(* A flush returns.                                                        *)
(***************************************************************************)
LEMMA ReturnFacts ==
    ASSUME BufsInv, UNCHANGED setup, NEW c \in Borrows, c.before = bufs[c.buf],
           NEW r, Return(c, r)
    PROVE  /\ BufsInv' /\ CallInv' /\ KeptUnlessFlushed'
           /\ call' = {}
           /\ ret'.res = r /\ ret'.txn = c.txn /\ ret'.before = bufs[c.buf]
  <1>1. /\ ret' = [res |-> r, buf |-> c.buf, keep |-> c.keep, txn |-> c.txn,
                   before |-> c.before]
        /\ call' = {}
        /\ bufs' = IF r = "Ok" /\ ~c.keep THEN [bufs EXCEPT ![c.buf] = NewBuffer]
                                          ELSE bufs
    BY DEF Return, clear, Ok
  <1>2. c.buf \in Bufs /\ c.buf \in Bufs'
    BY CallFields DEF Bufs
  <1>3. /\ ret'.res = r /\ ret'.buf = c.buf /\ ret'.keep = c.keep
        /\ ret'.txn = c.txn /\ ret'.before = bufs[c.buf]
    BY <1>1
  <1>4. BufsInv' /\ bufs'[c.buf] = IF r = "Ok" /\ ~c.keep THEN NewBuffer ELSE bufs[c.buf]
    <2>1. CASE r = "Ok" /\ ~c.keep
      <3>1. /\ \A x \in Bufs : bufs'[x] = IF x = c.buf THEN NewBuffer ELSE bufs[x]
            /\ bufs' = [x \in Bufs |-> bufs'[x]]
        BY <1>1, <2>1 DEF BufsInv
      <3> QED
        BY <1>2, <2>1, <3>1, NewBufferGood DEF BufsInv, Bufs
    <2>2. CASE ~(r = "Ok" /\ ~c.keep)
      BY <1>1, <2>2 DEF BufsInv, Bufs
    <2> QED
      BY <2>1, <2>2
  <1>5. CallInv'
    BY <1>1 DEF CallInv
  <1>6. KeptUnlessFlushed'
    BY <1>3, <1>4 DEF KeptUnlessFlushed
  <1> QED
    BY <1>1, <1>3, <1>4, <1>5, <1>6

\* The checks refuse a flush, or the sender is spoilt.
LEMMA FlushRefusedInv ==
    ASSUME IInv, UNCHANGED setup, FlushRefused
    PROVE  IInv'
  <1>1. PICK c \in Calls : /\ Precheck(bufs[c.buf], c.txn) # "Go"
                           /\ Return(Begun(c), Precheck(bufs[c.buf], c.txn))
    BY DEF FlushRefused
  <1> DEFINE b == bufs[c.buf]
             r == Precheck(b, c.txn)
  <1>2. /\ UNCHANGED <<setup, connected, left, up, socket, received, stream, flight>>
        /\ BufsInv /\ TypeInv
    BY DEF FlushRefused, tcp, IInv
  <1>3. Good(b) /\ c.txn \in BOOLEAN
    BY <1>2, CallFields DEF BufsInv
  <1>4. /\ BufsInv' /\ CallInv' /\ KeptUnlessFlushed' /\ call' = {}
        /\ ret'.res = r /\ ret'.txn = c.txn /\ ret'.before = b
    BY <1>1, <1>2, ReturnFacts, BegunFacts
  <1>5. r = "SocketError" \/ (r = "InvalidApiCall" /\ Refused(b, c.txn))
    BY <1>1, <1>3, PrecheckCases
  <1> HIDE DEF b, r
  <1>6. RefusalsJustified'
    <2>1. CASE r = "SocketError"
      BY <1>4, <2>1 DEF RefusalsJustified
    <2>2. CASE r = "InvalidApiCall" /\ Refused(b, c.txn)
      <3>1. \/ ~Sendable(b.output)
            \/ c.txn /\ (Protocol = "tcp" \/ ~SingleTable(b.output))
        BY <1>2, <1>3, <2>2, RefusedMeans
      <3> QED
        BY <1>4, <2>2, <3>1, <1>2 DEF RefusalsJustified, Sendable, Protocol, MaxBufSize
    <2> QED
      BY <1>5, <2>1, <2>2
  <1>7. OkMeansHandedOver'
    BY <1>4, <1>5 DEF OkMeansHandedOver
  <1>8. TypeInv' /\ StreamIntact'
    BY <1>2, <1>4 DEF IInv, TypeInv, StreamIntact, IsOption
  <1>9. LeftInv'
    BY <1>2 DEF IInv, LeftInv, FlushRefused
  <1> QED
    BY <1>4, <1>6, <1>7, <1>8, <1>9 DEF IInv

\* A flush that had begun returns.
LEMMA FlushEndsInv ==
    ASSUME IInv, UNCHANGED setup, NEW c \in call, NEW r, Return(c, r),
           r # "InvalidApiCall",
           UNCHANGED <<up, socket, received, stream, flight>>,
           connected' \in BOOLEAN, connected' => connected,
           left' = <<>>,
           connected' => left = <<>>,
           r = "Ok" /\ Protocol = "http" => flight.applied > 0
    PROVE  IInv'
  <1> DEFINE b == bufs[c.buf]
  <1>1. /\ c \in Borrows /\ c.before = b
        /\ TypeInv /\ BufsInv /\ c.txn \in BOOLEAN /\ Good(b)
    BY CallFields DEF IInv, TypeInv, BufsInv, CallInv
  <1>2. /\ BufsInv' /\ CallInv' /\ KeptUnlessFlushed' /\ call' = {}
        /\ ret'.res = r /\ ret'.txn = c.txn /\ ret'.before = b
    BY <1>1, ReturnFacts
  <1>3. /\ ~Refused(b, c.txn)
        /\ Protocol = "http" => flight.text = b.output
        /\ Protocol = "tcp" => IsSuffix(b.output, stream)
    BY DEF IInv, CallInv
  <1>4. Sendable(b.output) /\ ~(c.txn /\ (Protocol = "tcp" \/ ~SingleTable(b.output)))
    BY <1>1, <1>3, RefusedMeans
  <1> HIDE DEF b
  <1>5. RefusalsJustified'
    BY <1>2, <1>4 DEF RefusalsJustified, Sendable, Protocol, MaxBufSize
  <1>6. OkMeansHandedOver'
    BY <1>1, <1>2, <1>3, Types DEF OkMeansHandedOver, Protocol
  <1>7. TypeInv' /\ LeftInv'
    BY <1>1, <1>2 DEF TypeInv, IsOption, LeftInv
  <1>8. StreamIntact'
    BY DEF IInv, StreamIntact
  <1> QED
    BY <1>2, <1>5, <1>6, <1>7, <1>8 DEF IInv

\* The last piece is written; the last piece is refused; the retry loop ends.
LEMMA ReturnsInv ==
    ASSUME IInv, UNCHANGED setup, TcpWritten \/ TcpWriteError \/ HttpReturn
    PROVE  IInv'
  <1>1. CASE TcpWritten
    <2>1. PICK c \in call : Return(c, "Ok")
      BY <1>1 DEF TcpWritten
    <2>2. /\ Protocol = "tcp" /\ left = <<>> /\ connected \in BOOLEAN
          /\ UNCHANGED <<connected, left, up, socket, received, stream, flight>>
      BY <1>1 DEF TcpWritten, tcp, IInv, TypeInv
    <2> QED
      BY <2>1, <2>2, FlushEndsInv
  <1>2. CASE TcpWriteError
    <2>1. PICK c \in call : Return(c, "SocketError")
      BY <1>2 DEF TcpWriteError
    <2> QED
      BY <1>2, <2>1, FlushEndsInv DEF TcpWriteError
  <1>3. CASE HttpReturn
    <2>1. /\ Protocol = "http"
          /\ UNCHANGED <<connected, left, up, socket, received, stream, flight>>
      BY <1>3 DEF HttpReturn, tcp
    <2>2. left = <<>> /\ left' = <<>> /\ connected' \in BOOLEAN
      BY <2>1 DEF IInv, LeftInv, TypeInv
    <2>3. PICK c \in call : \/ flight.applied > 0 /\ Return(c, "Ok")
                            \/ \E e \in UreqErrors : \E r \in flush_error(e) : Return(c, r)
      BY <1>3 DEF HttpReturn
    <2>4. CASE flight.applied > 0 /\ Return(c, "Ok")
      BY <2>1, <2>2, <2>4, FlushEndsInv
    <2>5. CASE \E e \in UreqErrors : \E r \in flush_error(e) : Return(c, r)
      <3>0. PICK e \in UreqErrors : \E r \in flush_error(e) : Return(c, r)
        BY <2>5
      <3>1. PICK r \in flush_error(e) : Return(c, r)
        BY <3>0
      <3>2. r \in {"SocketError", "HttpNotSupported", "AuthError", "ServerFlushError"}
        BY <3>1 DEF flush_error, parse_http_error
      <3>3. r # "Ok" /\ r # "InvalidApiCall"
        BY <3>2
      <3> QED
        BY <2>1, <2>2, <3>1, <3>3, FlushEndsInv
    <2> QED
      BY <2>3, <2>4, <2>5
  <1> QED
    BY <1>1, <1>2, <1>3

-----------------------------------------------------------------------------
(***************************************************************************)
(* A flush begins.                                                         *)
(***************************************************************************)
LEMMA FlushTcpInv ==
    ASSUME IInv, UNCHANGED setup, FlushTcp
    PROVE  IInv'
  <1>1. PICK c \in Calls : /\ Precheck(bufs[c.buf], c.txn) = "Go"
                           /\ call' = {Begun(c)}
                           /\ left' = bufs[c.buf].output
                           /\ stream' = stream \o bufs[c.buf].output
    BY DEF FlushTcp
  <1> DEFINE text == bufs[c.buf].output
  <1>2. /\ call = {} /\ Protocol = "tcp" /\ ret' = NoReturn
        /\ UNCHANGED <<setup, bufs, connected, up, socket, received, flight>>
    BY DEF FlushTcp
  <1>3. TypeInv /\ BufsInv /\ Good(bufs[c.buf]) /\ c.txn \in BOOLEAN
    BY CallFields DEF IInv, BufsInv
  <1>4. connected /\ ~Refused(bufs[c.buf], c.txn) /\ text # <<>>
    BY <1>1, <1>3, PrecheckCases
  <1>5. /\ text \in Seq(Tokens) /\ stream \in Seq(Tokens) /\ left = <<>>
        /\ received \in Seq(Tokens) /\ socket \in Seq(Tokens)
        /\ received \o socket \in Seq(Tokens) /\ stream' \in Seq(Tokens)
    BY <1>1, <1>2, <1>3, Types DEF Good, Buffers, IInv, LeftInv
  <1>6. TypeInv'
    BY <1>1, <1>2, <1>3, <1>5, BegunFacts DEF TypeInv, IsOption, Borrows, Bufs
  <1>7. BufsInv' /\ LeftInv'
    BY <1>1, <1>2, <1>3, <1>4 DEF BufsInv, LeftInv, Bufs, Protocol
  <1>8. IsSuffix(text, stream \o text)
    BY <1>5, SuffixOfConcat
  <1>9. CallInv'
    BY <1>1, <1>2, <1>3, <1>4, <1>8, BegunFacts DEF CallInv, Refused, Protocol, MaxBufSize
  <1>10. StreamIntact'
    <2>1. IsPrefix(received \o socket, stream)
      BY DEF IInv, StreamIntact
    <2>2. IsPrefix(stream, stream \o text) /\ stream \o text \in Seq(Tokens)
      BY <1>5, PrefixOfConcat
    <2>3. IsPrefix(received \o socket, stream \o text)
      BY <1>5, <2>1, <2>2, PrefixTransitive
    <2>4. up => received \o socket = stream
      <3>1. up => received \o socket \o <<>> = stream
        BY <1>4, <1>5 DEF IInv, StreamIntact
      <3> QED
        BY <1>5, <3>1
    <2> QED
      BY <1>1, <1>2, <2>3, <2>4 DEF StreamIntact
  <1> QED
    BY <1>2, <1>6, <1>7, <1>9, <1>10, QuietStep

\* A flush over HTTP that gets past the checks posts the request, and nothing has returned.
LEMMA FlushHttpInv ==
    ASSUME IInv, UNCHANGED setup, FlushHttp
    PROVE  IInv'
  <1>1. PICK c \in Calls : /\ Precheck(bufs[c.buf], c.txn) = "Go"
                           /\ call' = {Begun(c)}
                           /\ flight' = Request(bufs[c.buf].output, c.txn)
    BY DEF FlushHttp
  <1>2. /\ call = {} /\ Protocol = "http" /\ ret' = NoReturn
        /\ UNCHANGED <<setup, bufs, connected, left, up, socket, received, stream>>
    BY DEF FlushHttp, tcp
  <1>3. TypeInv /\ BufsInv /\ Good(bufs[c.buf]) /\ c.txn \in BOOLEAN
    BY CallFields DEF IInv, BufsInv
  <1>4. ~Refused(bufs[c.buf], c.txn) /\ bufs[c.buf].output # <<>>
    BY <1>1, <1>3, PrecheckCases
  <1>5. bufs[c.buf].output \in Seq(Tokens)
    BY <1>3 DEF Good, Buffers
  <1>6. flight' \in Requests /\ flight'.text = bufs[c.buf].output
    BY <1>1, <1>3, <1>5 DEF Request, Requests
  <1>7. TypeInv'
    BY <1>1, <1>2, <1>3, <1>6, BegunFacts DEF TypeInv, IsOption, Borrows, Bufs
  <1>8. BufsInv' /\ LeftInv' /\ StreamIntact'
    BY <1>1, <1>2, <1>3 DEF IInv, BufsInv, LeftInv, StreamIntact, Bufs, Protocol
  <1>9. CallInv'
    BY <1>1, <1>2, <1>3, <1>4, <1>6, BegunFacts DEF CallInv, Refused, Protocol, MaxBufSize
  <1> QED
    BY <1>2, <1>7, <1>8, <1>9, QuietStep

-----------------------------------------------------------------------------
(***************************************************************************)
(* The network.                                                            *)
(***************************************************************************)
\* A step that moves only text of the connection keeps the rest.
LEMMA StreamStep ==
    ASSUME IInv, UNCHANGED <<setup, bufs, connected, call, stream, flight>>,
           ret' = NoReturn, up' \in BOOLEAN,
           {left', socket', received'} \subseteq Seq(Tokens),
           left' # <<>> => left # <<>>,
           StreamIntact'
    PROVE  IInv'
  <1>1. TypeInv'
    BY DEF IInv, TypeInv, Borrows, Bufs
  <1>2. BufsInv' /\ LeftInv'
    BY DEF IInv, BufsInv, LeftInv, Bufs, Protocol
  <1>3. CallInv'
    BY DEF IInv, CallInv, Refused, Protocol, MaxBufSize
  <1> QED
    BY <1>1, <1>2, <1>3, QuietStep

\* write_all hands a piece to the socket.
LEMMA TcpWriteInv ==
    ASSUME IInv, UNCHANGED setup, TcpWrite
    PROVE  IInv'
  <1>1. /\ left # <<>> /\ left' = Tail(left) /\ ret' = NoReturn
        /\ socket' = IF up THEN Append(socket, Head(left)) ELSE socket
        /\ UNCHANGED <<setup, bufs, connected, call, up, received, stream, flight>>
    BY DEF TcpWrite
  <1>2. /\ left \in Seq(Tokens) /\ socket \in Seq(Tokens)
        /\ received \in Seq(Tokens) /\ stream \in Seq(Tokens)
        /\ up \in BOOLEAN /\ connected
    BY <1>1, Types DEF IInv, TypeInv, LeftInv
  <1>3. /\ Append(socket, Head(left)) \in Seq(Tokens) /\ Tail(left) \in Seq(Tokens)
        /\ Append(socket, Head(left)) \o Tail(left) = socket \o left
    BY <1>1, <1>2, HandOn
  <1>4. StreamIntact'
    <2>1. CASE ~up
      BY <1>1, <2>1 DEF IInv, StreamIntact
    <2>2. CASE up
      <3>1. received \o socket \o left = stream
        BY <1>2, <2>2 DEF IInv, StreamIntact
      <3>2. received \o socket' \o left' = stream
        <4>1. socket' \in Seq(Tokens) /\ left' \in Seq(Tokens)
          BY <1>1, <1>3, <2>2, Zenon
        <4>2. socket' \o left' = socket \o left
          BY <1>1, <1>3, <2>2, Zenon
        <4>3. (received \o socket') \o left' = received \o (socket' \o left')
          BY <1>2, <4>1
        <4>4. (received \o socket) \o left = received \o (socket \o left)
          BY <1>2
        <4> QED
          BY <3>1, <4>2, <4>3, <4>4, Zenon
      <3>3. received \o socket' \in Seq(Tokens) /\ left' \in Seq(Tokens)
        BY <1>1, <1>2, <1>3, <2>2
      <3>4. IsPrefix(received \o socket', (received \o socket') \o left')
        BY <3>3, PrefixOfConcat
      <3> QED
        BY <1>1, <3>2, <3>4 DEF StreamIntact
    <2> QED
      BY <2>1, <2>2
  <1> QED
    BY <1>1, <1>2, <1>3, <1>4, StreamStep

\* The server reads a piece.
LEMMA TcpDeliverInv ==
    ASSUME IInv, UNCHANGED setup, TcpDeliver
    PROVE  IInv'
  <1>1. /\ socket # <<>> /\ ret' = NoReturn
        /\ received' = Append(received, Head(socket)) /\ socket' = Tail(socket)
        /\ UNCHANGED <<setup, bufs, connected, call, left, up, stream, flight>>
    BY DEF TcpDeliver
  <1>2. /\ left \in Seq(Tokens) /\ socket \in Seq(Tokens)
        /\ received \in Seq(Tokens) /\ up \in BOOLEAN
    BY Types DEF IInv, TypeInv
  <1>3. /\ received' \in Seq(Tokens) /\ socket' \in Seq(Tokens)
        /\ received' \o socket' = received \o socket
    BY <1>1, <1>2, HandOn
  <1>4. StreamIntact'
    BY <1>1, <1>3 DEF IInv, StreamIntact
  <1> QED
    BY <1>1, <1>2, <1>3, <1>4, StreamStep

\* The connection breaks: what the socket still held is lost.
LEMMA TcpBreakInv ==
    ASSUME IInv, UNCHANGED setup, TcpBreak
    PROVE  IInv'
  <1>1. /\ up' = FALSE /\ socket' = <<>> /\ ret' = NoReturn
        /\ UNCHANGED <<setup, bufs, connected, call, left, received, stream, flight>>
    BY DEF TcpBreak
  <1>2. /\ left \in Seq(Tokens) /\ socket \in Seq(Tokens)
        /\ received \in Seq(Tokens) /\ stream \in Seq(Tokens)
        /\ received \o <<>> = received
    BY Types DEF IInv
  <1>3. IsPrefix(received, received \o socket) /\ received \o socket \in Seq(Tokens)
    BY <1>2, PrefixOfConcat
  <1>4. IsPrefix(received, stream)
    BY <1>2, <1>3, PrefixTransitive DEF IInv, StreamIntact
  <1>5. StreamIntact'
    BY <1>1, <1>2, <1>4 DEF StreamIntact
  <1>6. {left', socket', received'} \subseteq Seq(Tokens)
    BY <1>1, <1>2
  <1> QED
    BY <1>1, <1>5, <1>6, StreamStep

\* A new connection begins with an empty stream.
LEMMA TcpRebuildInv ==
    ASSUME IInv, UNCHANGED setup, TcpRebuild
    PROVE  IInv'
  <1>1. /\ connected' = TRUE /\ up' = TRUE /\ ret' = NoReturn /\ call = {}
        /\ left' = <<>> /\ socket' = <<>> /\ received' = <<>> /\ stream' = <<>>
        /\ UNCHANGED <<setup, bufs, call, flight>>
    BY DEF TcpRebuild
  <1>2. TypeInv'
    BY <1>1 DEF IInv, TypeInv, Borrows, Bufs
  <1>3. BufsInv' /\ LeftInv' /\ CallInv'
    BY <1>1 DEF IInv, BufsInv, LeftInv, CallInv, Bufs
  <1>4. StreamIntact'
    <2>1. <<>> \o <<>> = <<>> /\ IsPrefix(<<>>, <<>>)
      BY DEF IsPrefix
    <2> QED
      BY <1>1, <2>1 DEF StreamIntact
  <1> QED
    BY <1>1, <1>2, <1>3, <1>4, QuietStep

\* A post is sent; the server answers one.
LEMMA HttpInv ==
    ASSUME IInv, UNCHANGED setup, HttpPost \/ HttpServer
    PROVE  IInv'
  <1>1. /\ UNCHANGED <<setup, bufs, connected, call, left, up, socket, received, stream>>
        /\ ret' = NoReturn
    BY DEF HttpPost, HttpServer, tcp
  <1>2. flight' \in Requests /\ flight'.text = flight.text
    <2>1. flight \in Requests
      BY DEF IInv, TypeInv
    <2>2. CASE HttpPost
      <3>1. flight' = [flight EXCEPT !.posted = @ + 1, !.pending = @ + 1]
        BY <2>2 DEF HttpPost
      <3>2. flight.posted + 1 \in Nat /\ flight.pending + 1 \in Nat
        BY <2>1 DEF Requests
      <3> QED
        BY <2>1, <3>1, <3>2 DEF Requests
    <2>3. CASE HttpServer
      <3>1. PICK taken \in {0, 1} :
              flight' = [flight EXCEPT !.pending = @ - 1, !.applied = @ + taken]
        BY <2>3 DEF HttpServer
      <3>2. flight.pending - 1 \in Nat /\ flight.applied + taken \in Nat
        BY <2>1, <2>3 DEF HttpServer, Requests
      <3> QED
        BY <2>1, <3>1, <3>2 DEF Requests
    <2> QED
      BY <2>2, <2>3
  <1>3. TypeInv'
    BY <1>1, <1>2 DEF IInv, TypeInv, Borrows, Bufs
  <1>4. BufsInv' /\ LeftInv' /\ StreamIntact'
    BY <1>1 DEF IInv, BufsInv, LeftInv, StreamIntact, Bufs, Protocol
  <1>5. CallInv'
    BY <1>1, <1>2 DEF IInv, CallInv, Refused, Protocol, MaxBufSize
  <1> QED
    BY <1>1, <1>3, <1>4, <1>5, QuietStep

-----------------------------------------------------------------------------
\* A new sender and new buffers satisfy the invariant.
LEMMA InitInv == Init => IInv
  <1> SUFFICES ASSUME Init PROVE IInv
    OBVIOUS
  <1>1. TypeInv
    BY DEF Init, TypeInv, IsOption, Request, Requests
  <1>2. BufsInv /\ CallInv /\ LeftInv
    BY NewBufferGood DEF Init, BufsInv, CallInv, LeftInv
  <1>3. StreamIntact
    <2>1. <<>> \o <<>> = <<>> /\ IsPrefix(<<>>, <<>>)
      BY DEF IsPrefix
    <2> QED
      BY <2>1 DEF Init, StreamIntact
  <1>4. RefusalsJustified /\ KeptUnlessFlushed /\ OkMeansHandedOver
    BY DEF Init, RefusalsJustified, KeptUnlessFlushed, OkMeansHandedOver
  <1> QED
    BY <1>1, <1>2, <1>3, <1>4 DEF IInv

\* Every step preserves the invariant.
LEMMA NextInv == IInv /\ [Next]_vars => IInv'
  <1> SUFFICES ASSUME IInv, [Next]_vars PROVE IInv'
    OBVIOUS
  <1>1. CASE UserStep /\ UNCHANGED setup
    BY <1>1, BuildInv, FlushRefusedInv, FlushTcpInv, FlushHttpInv, TcpRebuildInv
       DEF UserStep
  <1>2. CASE FlushStep /\ UNCHANGED setup
    BY <1>2, TcpWriteInv, ReturnsInv, HttpInv DEF FlushStep
  <1>3. CASE NetStep /\ UNCHANGED setup
    BY <1>3, TcpDeliverInv, TcpBreakInv, HttpInv DEF NetStep
  <1>4. CASE UNCHANGED vars
    <2>1. UNCHANGED <<setup, bufs, connected, call, left, up, socket, received,
                      stream, flight, ret>>
      BY <1>4 DEF vars, tcp
    <2>2. TypeInv' /\ BufsInv' /\ CallInv' /\ LeftInv' /\ StreamIntact'
      BY <2>1 DEF IInv, TypeInv, BufsInv, CallInv, LeftInv, StreamIntact, Borrows,
                  Bufs, Refused, Protocol, MaxBufSize
    <2>3. RefusalsJustified' /\ KeptUnlessFlushed' /\ OkMeansHandedOver'
      BY <2>1 DEF IInv, RefusalsJustified, KeptUnlessFlushed, OkMeansHandedOver,
                  Sendable, Protocol, MaxBufSize
    <2> QED
      BY <2>2, <2>3 DEF IInv
  <1> QED
    BY <1>1, <1>2, <1>3, <1>4 DEF Next

(***************************************************************************)
(* Over TCP the server reads the flushed texts whole, in order and without *)
(* gaps up to where the connection broke, whatever fails and whenever.     *)
(***************************************************************************)
THEOREM SenderStreamIntact == Spec => []StreamIntact
  <1>1. IInv => StreamIntact
    BY DEF IInv
  <1> QED
    BY <1>1, InitInv, NextInv, PTL DEF Spec

(***************************************************************************)
(* flush_impl answers InvalidApiCall exactly for a text that is not whole  *)
(* rows within max_buf_size, or a transaction that cannot be had.          *)
(***************************************************************************)
THEOREM SenderRefusalsJustified == Spec => []RefusalsJustified
  <1>1. IInv => RefusalsJustified
    BY DEF IInv
  <1> QED
    BY <1>1, InitInv, NextInv, PTL DEF Spec

(***************************************************************************)
(* A flush returns its buffer as it was handed over at the call, however   *)
(* many steps of the network, of the other buffers and of the retries lie  *)
(* in between, unless flush() returned Ok and cleared it.                  *)
(***************************************************************************)
THEOREM SenderKeptUnlessFlushed == Spec => []KeptUnlessFlushed
  <1>1. IInv => KeptUnlessFlushed
    BY DEF IInv
  <1> QED
    BY <1>1, InitInv, NextInv, PTL DEF Spec

(***************************************************************************)
(* Ok means that the server has taken in the text that is (or was) in the  *)
(* buffer over HTTP, and that the OS has taken all of it over TCP.         *)
(***************************************************************************)
THEOREM SenderOkMeansHandedOver == Spec => []OkMeansHandedOver
  <1>1. IInv => OkMeansHandedOver
    BY DEF IInv
  <1> QED
    BY <1>1, InitInv, NextInv, PTL DEF Spec

-----------------------------------------------------------------------------
(***************************************************************************)
(* The retries of a flush over HTTP (module HttpRetry), for every retry    *)
(* and request timeout, every lateness of sleep() and every set of status  *)
(* codes.                                                                  *)
(***************************************************************************)
\* The client has entered retry_http_send.
InLoop == retry_end > 0

\* The sleeps asked for so far: one before each retry.
Sleeps == IF pc \in {"asleep", "send"} THEN posted ELSE posted - 1

(***************************************************************************)
(* The clock has run for at least the sleeps asked for since the loop was  *)
(* entered at retry_end - RetryTimeout, and a sleep never ends after       *)
(* retry_end; that is what keeps their sum within the budget.              *)
(***************************************************************************)
ClockInv ==
    /\ posted = 0 => pc = "send"
    /\ posted = 0 \/ (posted = 1 /\ pc = "await") => ~InLoop
    /\ posted > 1 \/ (posted = 1 /\ pc \notin {"await", "done"}) => InLoop
    /\ InLoop => /\ RetryTimeout <= retry_end
                 /\ retry_end <= RetryTimeout + RequestTimeout
                 /\ slept >= 5 * Sleeps
    /\ ~InLoop => slept = 0
    /\ ~InLoop /\ pc = "send"  => now = 0
    /\ ~InLoop /\ pc = "await" => now = 0
    /\ ~InLoop /\ pc = "done"  => now <= RequestTimeout
    /\ InLoop /\ pc = "asleep" => /\ retry_end - RetryTimeout + slept <= wake_at
                                  /\ wake_at <= retry_end
    /\ InLoop /\ pc # "asleep" => retry_end - RetryTimeout + slept <= now
    /\ InLoop /\ pc \in {"send", "await"} => now <= retry_end + MaxOversleep
    /\ InLoop /\ pc \in {"backoff", "done"} =>
         now <= retry_end + MaxOversleep + RequestTimeout
    /\ InLoop /\ pc = "asleep" => now <= wake_at
    /\ slept <= RetryTimeout

\* What an error or an answer says of the server.
OutcomeInv ==
    /\ posted > 0 /\ pc \in {"send", "backoff", "asleep"} =>
         is_retriable_error(last) /\ last_err = last
    /\ pc = "done" => result = last
    /\ pc # "done" => result = Running
    /\ pc # "await" => reply = {}
    /\ Accepted \in reply \/ result = Accepted => applied > 0
    /\ IsFiniteSet(wire) /\ applied + Cardinality(wire) <= posted

RetryInv == TypeOK /\ ClockInv /\ OutcomeInv

USE RetryTimeoutAssumption, RequestTimeoutAssumption, MaxOversleepAssumption

\* The outcomes are pairwise different where the code tells them apart.
LEMMA OutcomeFacts ==
    /\ Running # Accepted /\ Transport # Accepted
    /\ \A c : Status(c) # Accepted
    /\ \A e \in UreqErrors : e # Accepted /\ e.k # "Ok" /\ e.k # "none"
    /\ Accepted.k = "Ok" /\ Running.k = "none"
    /\ ~is_retriable_error(Accepted) /\ ~is_retriable_error(Running)
    /\ \A o \in Outcomes : o.k = "Ok" => o = Accepted
  BY DEF Running, Accepted, Transport, Status, UreqErrors, Outcomes,
         is_retriable_error

\* The invariant holds when http_send_with_retries is entered.
LEMMA RetryInitInv == HttpInit => RetryInv
  <1>1. HttpInit => TypeOK
    BY DEF HttpInit, TypeOK
  <1>2. HttpInit => ClockInv
    BY DEF HttpInit, ClockInv, InLoop, Sleeps
  <1>3. HttpInit => OutcomeInv
    BY OutcomeFacts, FS_EmptySet DEF HttpInit, OutcomeInv
  <1> QED
    BY <1>1, <1>2, <1>3 DEF RetryInv

\* Posting the request preserves the invariant.
LEMMA SendBytesInv ==
    ASSUME RetryInv, SendBytes
    PROVE  RetryInv'
  <1>1. TypeOK'
    BY DEF RetryInv, TypeOK, SendBytes
  <1>2. ClockInv'
    BY DEF RetryInv, TypeOK, ClockInv, InLoop, Sleeps, SendBytes
  <1>3. OutcomeInv'
    <2>1. posted' \notin wire
      BY DEF RetryInv, TypeOK, SendBytes
    <2>2. IsFiniteSet(wire') /\ Cardinality(wire') = Cardinality(wire) + 1
      BY <2>1, FS_AddElement DEF RetryInv, OutcomeInv, SendBytes
    <2>3. Cardinality(wire) \in Nat
      BY FS_CardinalityType DEF RetryInv, OutcomeInv
    <2>4. applied' + Cardinality(wire') <= posted'
      BY <2>2, <2>3 DEF RetryInv, TypeOK, OutcomeInv, SendBytes
    <2> QED
      BY <2>2, <2>4, OutcomeFacts DEF RetryInv, TypeOK, OutcomeInv, SendBytes
  <1> QED
    BY <1>1, <1>2, <1>3 DEF RetryInv

\* An attempt ends, whatever its outcome.
LEMMA OutcomeStepInv ==
    ASSUME RetryInv, NEW o \in Outcomes, NEW d \in 0 .. RequestTimeout,
           Outcome(o, d), o = Accepted => applied > 0
    PROVE  RetryInv'
  <1>1. /\ pc = "await" /\ now' = now + d /\ reply' = {} /\ last' = o
        /\ wake_at' = wake_at /\ wire' = wire /\ posted' = posted
        /\ applied' = applied /\ slept' = slept
        /\ posted > 0
    BY DEF Outcome, RetryInv, ClockInv, TypeOK
  <1>2. CASE pc' = "done" /\ result' = o /\ last_err' = last_err
             /\ retry_end' = retry_end /\ retry_interval_ms' = retry_interval_ms
    <2>1. TypeOK'
      BY <1>1, <1>2 DEF RetryInv, TypeOK, Outcomes
    <2>2. ClockInv'
      BY <1>1, <1>2 DEF RetryInv, TypeOK, ClockInv, InLoop, Sleeps
    <2>3. OutcomeInv'
      BY <1>1, <1>2, OutcomeFacts DEF RetryInv, OutcomeInv
    <2> QED
      BY <2>1, <2>2, <2>3 DEF RetryInv
  <1>3. CASE posted = 1 /\ pc' = "backoff" /\ retry_end' = now' + RetryTimeout
             /\ last_err' = o /\ is_retriable_error(o) /\ RetryTimeout # 0
             /\ retry_interval_ms' = retry_interval_ms /\ result' = result
    <2>1. TypeOK'
      BY <1>1, <1>3, OutcomeFacts DEF RetryInv, TypeOK, Outcomes
    <2>2. ClockInv'
      BY <1>1, <1>3 DEF RetryInv, TypeOK, ClockInv, InLoop, Sleeps
    <2>3. OutcomeInv'
      BY <1>1, <1>3, OutcomeFacts DEF RetryInv, OutcomeInv
    <2> QED
      BY <2>1, <2>2, <2>3 DEF RetryInv
  <1>4. CASE posted > 1 /\ pc' = "backoff" /\ retry_end' = retry_end
             /\ last_err' = o /\ is_retriable_error(o) /\ result' = result
             /\ retry_interval_ms' = IF retry_interval_ms * 2 <= 1000
                                      THEN retry_interval_ms * 2 ELSE 1000
    <2>1. TypeOK'
      BY <1>1, <1>4, OutcomeFacts DEF RetryInv, TypeOK, Outcomes
    <2>2. ClockInv'
      BY <1>1, <1>4 DEF RetryInv, TypeOK, ClockInv, InLoop, Sleeps
    <2>3. OutcomeInv'
      BY <1>1, <1>4, OutcomeFacts DEF RetryInv, OutcomeInv
    <2> QED
      BY <2>1, <2>2, <2>3 DEF RetryInv
  <1>5. posted = 1 \/ posted > 1
    BY <1>1 DEF RetryInv, TypeOK
  <1> QED
    BY <1>1, <1>2, <1>3, <1>4, <1>5 DEF Outcome, FirstOutcome, RetryOutcome, NextInterval, ReturnOutcome

\* Deciding to sleep or to give up preserves the invariant.
LEMMA BackoffInv ==
    ASSUME RetryInv, Backoff
    PROVE  RetryInv'
  <1>1. PICK j \in -5 .. 4 :
          LET to_sleep_ms == retry_interval_ms + j
          IN  IF now + to_sleep_ms > retry_end
                THEN /\ ReturnOutcome(last_err)
                     /\ UNCHANGED <<wake_at, slept>>
                ELSE /\ pc' = "asleep"
                     /\ wake_at' = now + to_sleep_ms
                     /\ slept' = slept + to_sleep_ms
                     /\ UNCHANGED <<retry_end, retry_interval_ms, last_err, result>>
    BY DEF Backoff
  <1>2. /\ pc = "backoff" /\ now' = now /\ wire' = wire /\ reply' = reply
        /\ posted' = posted /\ applied' = applied /\ last' = last
        /\ posted > 0
    BY DEF Backoff, RetryInv, ClockInv, TypeOK
  <1>3. last \in Outcomes /\ last_err = last
    BY <1>2, OutcomeFacts DEF RetryInv, OutcomeInv, TypeOK
  <1>4. CASE now + retry_interval_ms + j > retry_end
    <2>1. /\ pc' = "done" /\ result' = last_err /\ last_err' = last_err
          /\ retry_end' = retry_end /\ retry_interval_ms' = retry_interval_ms
          /\ wake_at' = wake_at /\ slept' = slept
      BY <1>1, <1>4 DEF ReturnOutcome, RetryInv, TypeOK
    <2>2. TypeOK'
      BY <1>2, <1>3, <2>1 DEF RetryInv, TypeOK, Outcomes
    <2>3. ClockInv'
      BY <1>2, <2>1 DEF RetryInv, TypeOK, ClockInv, InLoop, Sleeps
    <2>4. OutcomeInv'
      BY <1>2, <1>3, <2>1, OutcomeFacts DEF RetryInv, OutcomeInv
    <2> QED
      BY <2>2, <2>3, <2>4 DEF RetryInv
  <1>5. CASE ~(now + retry_interval_ms + j > retry_end)
    <2>1. /\ pc' = "asleep" /\ result' = result /\ last_err' = last_err
          /\ retry_end' = retry_end /\ retry_interval_ms' = retry_interval_ms
          /\ wake_at' = now + retry_interval_ms + j
          /\ slept' = slept + retry_interval_ms + j
      BY <1>1, <1>5 DEF RetryInv, TypeOK
    <2>2. TypeOK'
      BY <1>2, <2>1 DEF RetryInv, TypeOK
    <2>3. ClockInv'
      BY <1>2, <1>5, <2>1 DEF RetryInv, TypeOK, ClockInv, InLoop, Sleeps
    <2>4. OutcomeInv'
      BY <1>2, <2>1, OutcomeFacts DEF RetryInv, OutcomeInv
    <2> QED
      BY <2>2, <2>3, <2>4 DEF RetryInv
  <1> QED
    BY <1>4, <1>5

\* Waking up, however late, preserves the invariant.
LEMMA WakeInv ==
    ASSUME RetryInv, Wake
    PROVE  RetryInv'
  <1>1. TypeOK'
    BY DEF RetryInv, TypeOK, Wake
  <1>2. ClockInv'
    BY DEF RetryInv, TypeOK, ClockInv, InLoop, Sleeps, Wake
  <1>3. OutcomeInv'
    BY DEF RetryInv, TypeOK, OutcomeInv, Wake
  <1> QED
    BY <1>1, <1>2, <1>3 DEF RetryInv

\* A step of the server or the network: one post p leaves the wire.
LEMMA ServerStepInv ==
    ASSUME RetryInv, NEW p \in wire, Take(p),
           applied' = applied \/ applied' = applied + 1,
           reply' \subseteq Outcomes,
           pc # "await" => reply' = reply,
           Accepted \in reply' => Accepted \in reply \/ applied' = applied + 1
    PROVE  RetryInv'
  <1>1. /\ wire' = wire \ {p}
        /\ UNCHANGED <<pc, now, retry_end, retry_interval_ms, wake_at, last_err,
                       result, posted, slept, last>>
    BY DEF Take, client
  <1>2. TypeOK'
    BY <1>1 DEF RetryInv, TypeOK
  <1>3. ClockInv'
    BY <1>1 DEF RetryInv, ClockInv, InLoop, Sleeps
  <1>4. OutcomeInv'
    <2>1. IsFiniteSet(wire') /\ Cardinality(wire') = Cardinality(wire) - 1
      BY <1>1, FS_RemoveElement DEF RetryInv, OutcomeInv
    <2>2. Cardinality(wire) \in Nat
      BY FS_CardinalityType DEF RetryInv, OutcomeInv
    <2>3. applied' + Cardinality(wire') <= posted'
      BY <1>1, <2>1, <2>2 DEF RetryInv, TypeOK, OutcomeInv
    <2>4. Accepted \in reply' \/ result' = Accepted => applied' > 0
      BY <1>1 DEF RetryInv, TypeOK, OutcomeInv
    <2> QED
      BY <1>1, <2>1, <2>3, <2>4 DEF RetryInv, OutcomeInv
  <1> QED
    BY <1>2, <1>3, <1>4 DEF RetryInv

\* What the steps of the server and the network do, in one form.
LEMMA ServerShape ==
    ASSUME RetryInv, Server
    PROVE  \E p \in wire :
             /\ Take(p)
             /\ applied' = applied \/ applied' = applied + 1
             /\ reply' \subseteq Outcomes
             /\ pc # "await" => reply' = reply
             /\ Accepted \in reply' => Accepted \in reply \/ applied' = applied + 1
  <1>1. CASE ServerApply
    BY <1>1 DEF ServerApply, Answer, RetryInv, TypeOK, Outcomes
  <1>2. CASE ServerRefuse
    BY <1>2, OutcomeFacts DEF ServerRefuse, Answer, RetryInv, TypeOK, Outcomes, UreqErrors
  <1>3. CASE ServerApplyAndFail
    BY <1>3, OutcomeFacts DEF ServerApplyAndFail, Answer, RetryInv, TypeOK, Outcomes,
                              UreqErrors
  <1>4. CASE Lose
    BY <1>4 DEF Lose, RetryInv, TypeOK
  <1> QED
    BY <1>1, <1>2, <1>3, <1>4 DEF Server

\* Every step of the client, the server and the network preserves it.
LEMMA RetryNextInv == RetryInv /\ [HttpNext]_httpvars => RetryInv'
  <1> SUFFICES ASSUME RetryInv, [HttpNext]_httpvars PROVE RetryInv'
    OBVIOUS
  <1>1. CASE SendBytes
    BY <1>1, SendBytesInv
  <1>2. CASE Answered
    <2>1. PICK o \in reply, d \in 0 .. RequestTimeout : Outcome(o, d)
      BY <1>2 DEF Answered
    <2>2. o \in Outcomes /\ (o = Accepted => applied > 0)
      BY <2>1 DEF RetryInv, TypeOK, OutcomeInv
    <2> QED
      BY <2>1, <2>2, OutcomeStepInv
  <1>3. CASE Failed
    <2>1. PICK d \in 0 .. RequestTimeout : Outcome(Transport, d)
      BY <1>3 DEF Failed
    <2>2. Transport \in Outcomes /\ Transport # Accepted
      BY OutcomeFacts DEF Outcomes, UreqErrors
    <2> QED
      BY <2>1, <2>2, OutcomeStepInv
  <1>4. CASE Backoff
    BY <1>4, BackoffInv
  <1>5. CASE Wake
    BY <1>5, WakeInv
  <1>6. CASE Server
    BY <1>6, ServerShape, ServerStepInv
  <1>7. CASE UNCHANGED httpvars
    BY <1>7 DEF httpvars, client, RetryInv, TypeOK, ClockInv, InLoop, Sleeps, OutcomeInv
  <1> QED
    BY <1>1, <1>2, <1>3, <1>4, <1>5, <1>6, <1>7 DEF HttpNext, Client, Quiet

(***************************************************************************)
(* The sleeps retry_http_send asks for never exceed retry_timeout in sum.  *)
(***************************************************************************)
THEOREM RetrySleepWithinBudget == HttpSpec => []SleepWithinBudget
  <1>1. RetryInv => SleepWithinBudget
    BY DEF RetryInv, ClockInv, SleepWithinBudget
  <1> QED
    BY <1>1, RetryInitInv, RetryNextInv, PTL DEF HttpSpec

(***************************************************************************)
(* The number of retries is bounded by the budget: each costs 5 ms of it.  *)
(***************************************************************************)
THEOREM RetriesCostBudget == HttpSpec => [](posted > 0 => 5 * (posted - 1) <= RetryTimeout)
  <1>1. RetryInv => (posted > 0 => 5 * (posted - 1) <= RetryTimeout)
    BY DEF RetryInv, TypeOK, ClockInv, InLoop, Sleeps
  <1> QED
    BY <1>1, RetryInitInv, RetryNextInv, PTL DEF HttpSpec

(***************************************************************************)
(* A flush over HTTP outlasts its retry budget by at most two requests and *)
(* one late wake-up.                                                       *)
(***************************************************************************)
THEOREM RetryDurationBounded == HttpSpec => []DurationBounded
  <1>1. RetryInv => DurationBounded
    BY DEF RetryInv, TypeOK, ClockInv, InLoop, DurationBounded
  <1> QED
    BY <1>1, RetryInitInv, RetryNextInv, PTL DEF HttpSpec

(***************************************************************************)
(* Only retriable errors are retried, and what is returned is the outcome  *)
(* of the last attempt.                                                    *)
(***************************************************************************)
THEOREM RetryLastOutcomeReturned == HttpSpec => []LastOutcomeReturned
  <1>1. RetryInv => LastOutcomeReturned
    BY DEF RetryInv, OutcomeInv, LastOutcomeReturned
  <1> QED
    BY <1>1, RetryInitInv, RetryNextInv, PTL DEF HttpSpec

(***************************************************************************)
(* flush() returns Ok over HTTP only when the server took the rows in.     *)
(***************************************************************************)
THEOREM RetryOkMeansApplied == HttpSpec => []OkMeansApplied
  <1>1. RetryInv => OkMeansApplied
    <2> SUFFICES ASSUME RetryInv PROVE OkMeansApplied
      OBVIOUS
    <2>1. Cardinality(wire) \in Nat
      BY FS_CardinalityType DEF RetryInv, OutcomeInv
    <2> QED
      BY <2>1 DEF RetryInv, TypeOK, OutcomeInv, OkMeansApplied
  <1> QED
    BY <1>1, RetryInitInv, RetryNextInv, PTL DEF HttpSpec

-----------------------------------------------------------------------------
(***************************************************************************)
(* The refinement.                                                         *)
(***************************************************************************)
\* Returning outcome o is the abstract return.
LEMMA ReturnRefines ==
    ASSUME RetryInv, NEW o \in Outcomes, pc # "done", posted > 0, ReturnOutcome(o),
           o = Accepted => applied > 0, UNCHANGED <<posted, applied>>
    PROVE  Send!Return
  <1>1. result.k = "none" /\ result' = o
    BY OutcomeFacts DEF RetryInv, OutcomeInv, ReturnOutcome
  <1>2. o.k \in {"Transport", "Status"} \/ (o.k = "Ok" /\ applied > 0)
    BY OutcomeFacts DEF Outcomes, UreqErrors, Transport, Status, Accepted
  <1> QED
    BY <1>1, <1>2 DEF Send!Return

\* The end of an attempt is the abstract return, or leaves it running.
LEMMA OutcomeRefines ==
    ASSUME RetryInv, NEW o \in Outcomes, NEW d \in 0 .. RequestTimeout,
           Outcome(o, d), o = Accepted => applied > 0
    PROVE  Send!Return \/ UNCHANGED <<posted, applied, result>>
  <1>1. /\ pc = "await" /\ posted > 0 /\ UNCHANGED <<posted, applied>>
        /\ ReturnOutcome(o) \/ UNCHANGED result
    BY DEF Outcome, FirstOutcome, RetryOutcome, NextInterval, RetryInv, ClockInv, TypeOK
  <1> QED
    BY <1>1, ReturnRefines

\* What the server does with a post is an abstract application, or none.
LEMMA ServerRefines ==
    ASSUME RetryInv, Server
    PROVE  Send!Apply \/ UNCHANGED <<posted, applied, result>>
  <1>1. PICK p \in wire : Take(p) /\ (applied' = applied \/ applied' = applied + 1)
    BY ServerShape
  <1>2. Cardinality(wire) \in Nat /\ Cardinality(wire) # 0
    BY <1>1, FS_CardinalityType, FS_EmptySet DEF RetryInv, OutcomeInv
  <1>3. applied < posted
    BY <1>2 DEF RetryInv, TypeOK, OutcomeInv
  <1>4. UNCHANGED <<posted, result>>
    BY <1>1 DEF Take, client
  <1> QED
    BY <1>1, <1>3, <1>4 DEF Send!Apply

\* Every step of HttpRetry is a step of HttpSend or a stuttering one.
LEMMA StepRefines == RetryInv /\ [HttpNext]_httpvars => [Send!Next]_Send!vars
  <1> SUFFICES ASSUME RetryInv, [HttpNext]_httpvars PROVE [Send!Next]_Send!vars
    OBVIOUS
  <1>0. ASSUME UNCHANGED <<posted, applied, result>> PROVE [Send!Next]_Send!vars
    BY <1>0 DEF Send!vars
  <1>1. CASE SendBytes
    <2>1. result.k = "none"
      BY <1>1, OutcomeFacts DEF SendBytes, RetryInv, OutcomeInv
    <2> QED
      BY <1>1, <2>1 DEF SendBytes, Send!Post, Send!Next
  <1>2. CASE Answered
    <2>1. PICK o \in reply, d \in 0 .. RequestTimeout : Outcome(o, d)
      BY <1>2 DEF Answered
    <2>2. o \in Outcomes /\ (o = Accepted => applied > 0)
      BY <2>1 DEF RetryInv, TypeOK, OutcomeInv
    <2> QED
      BY <1>0, <2>1, <2>2, OutcomeRefines DEF Send!Next
  <1>3. CASE Failed
    <2>1. PICK d \in 0 .. RequestTimeout : Outcome(Transport, d)
      BY <1>3 DEF Failed
    <2>2. Transport \in Outcomes /\ Transport # Accepted
      BY OutcomeFacts DEF Outcomes, UreqErrors
    <2> QED
      BY <1>0, <2>1, <2>2, OutcomeRefines DEF Send!Next
  <1>4. CASE Backoff
    <2>1. /\ pc = "backoff" /\ posted > 0 /\ UNCHANGED <<posted, applied>>
          /\ ReturnOutcome(last_err) \/ UNCHANGED result
      BY <1>4 DEF Backoff, RetryInv, ClockInv, TypeOK
    <2>2. last_err \in Outcomes /\ last_err # Accepted
      BY <2>1, OutcomeFacts DEF RetryInv, OutcomeInv, TypeOK
    <2> QED
      BY <1>0, <2>1, <2>2, ReturnRefines DEF Send!Next
  <1>5. CASE Wake
    BY <1>0, <1>5 DEF Wake
  <1>6. CASE Server
    BY <1>0, <1>6, ServerRefines DEF Send!Next
  <1>7. CASE UNCHANGED httpvars
    BY <1>0, <1>7 DEF httpvars, client
  <1> QED
    BY <1>1, <1>2, <1>3, <1>4, <1>5, <1>6, <1>7 DEF HttpNext, Client, Quiet

(***************************************************************************)
(* The retry loop implements the safety part of HttpSend: at-least-once    *)
(* delivery on Ok, at most one application per post.                       *)
(***************************************************************************)
THEOREM RetryImplementsHttpSend == HttpSpec => Send!SafeSpec
  <1>1. HttpInit => Send!Init
    BY OutcomeFacts DEF HttpInit, Send!Init
  <1> QED
    BY <1>1, RetryInitInv, RetryNextInv, StepRefines, PTL DEF HttpSpec, Send!SafeSpec
=============================================================================

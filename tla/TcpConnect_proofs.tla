------------------------- MODULE TcpConnect_proofs -------------------------
(***************************************************************************)
(* Proofs about TcpConnect, for every timeout, every length of handshake   *)
(* and of challenge, and every way the bytes may arrive.                   *)
(***************************************************************************)
EXTENDS TcpConnect, SequenceTheorems, TLAPS

(***************************************************************************)
(* The inductive invariant.                                                *)
(***************************************************************************)
Bytes == {"hs", "nl", "alert"} \cup UNION {ToSet(c) : c \in Challenges}

Msgs == [ what : {"hello", "finished", "key_id", "signature"},
          over : Seq(Bytes), tls : BOOLEAN ]

Steps == {"resolve", "socket", "options", "bind", "connect", "timeout", "tls",
          "handshake", "keys", "key_id", "challenge", "signature", "end"}

TypeInv ==
    /\ b \in Builders
    /\ step \in Steps
    /\ timer \in Nat /\ elapsed \in Nat /\ got \in Nat
    /\ buf \in Seq(Bytes) /\ wire \in Seq(Bytes) /\ sent \in Seq(Msgs)
    /\ server \in [ mode : {"plain", "tls"}, challenge : Challenges, hs : Nat,
                    todo : Seq(Bytes), asked : BOOLEAN, closed : BOOLEAN ]

\* The steps that come after configure_tls, and after the handshake.
AfterConfigure == {"handshake", "keys", "key_id", "challenge", "signature"}
AfterHandshake == {"keys", "key_id", "challenge", "signature"}

\* How far the client is, and what it has by then.
StepInv ==
    /\ result = "none" <=> step # "end"
    /\ step \in {"resolve", "socket"} => sock = "none"
    /\ step \in {"options", "bind", "connect"} => sock = "open"
    /\ step \in {"timeout", "tls"} \cup AfterConfigure => sock = "connected"
    /\ step \in {"tls"} \cup AfterConfigure => read_timeout = auth_timeout
    /\ step \in AfterConfigure => configure_tls(b, TRUE).res = "Ok"
    /\ step = "handshake" => InTls
    /\ step \in AfterHandshake => scheme = "Ecdsa" /\ (InTls => got = HsLen /\ Heard("finished"))
    /\ step \in {"challenge", "signature"} => Heard("key_id")

\* What the client has said.
SentInv ==
    /\ Heard("hello") => InTls
    /\ Heard("key_id") => /\ step \in {"challenge", "signature", "end"}
                          /\ InTls => got = HsLen
    /\ \A i \in 1..Len(sent) : sent[i].what = "key_id" => sent[i].tls = InTls

\* Where the bytes of the server are.  Until the server asks there are only
\* pieces of the handshake; after it there is the line, or an alert.
BytesInv ==
    /\ got + server.hs <= HsLen
    /\ server.hs < HsLen => Heard("hello")
    /\ server.asked => Heard("key_id")
    /\ ~server.asked => /\ buf = <<>>
                        /\ got + server.hs + Len(wire) + Len(server.todo) = HsLen
    /\ server.asked /\ step = "challenge" =>
         (buf \o wire) \o server.todo = IF InTls = (server.mode = "tls")
                                          THEN Append(server.challenge, "nl")
                                          ELSE <<"alert">>
    /\ step = "signature" => /\ server.asked /\ buf = server.challenge
                             /\ InTls = (server.mode = "tls")

\* How long the reads have waited: once per byte that was read, and once more.
TimeInv ==
    auth_timeout > 0 =>
      /\ timer <= auth_timeout
      /\ step \notin {"signature", "end"} => elapsed <= auth_timeout * (got + Len(buf)) + timer

IInv == /\ TypeInv /\ StepInv /\ SentInv /\ BytesInv /\ TimeInv
        /\ AllOrNothing /\ KeysGuarded /\ SignsTheChallenge /\ WaitBounded

-----------------------------------------------------------------------------
(***************************************************************************)
(* Bytes that arrive in pieces.                                            *)
(***************************************************************************)
\* A read divides what is there.
LEMMA Divides ==
    ASSUME NEW S, NEW w \in Seq(S), NEW n \in 1..Len(w)
    PROVE  LET p == SubSeq(w, 1, n)
               q == SubSeq(w, n + 1, Len(w))
           IN  /\ p \in Seq(S) /\ Len(p) = n
               /\ q \in Seq(S) /\ Len(q) = Len(w) - n
               /\ p \o q = w
  <1>1. \A i \in 1..Len(w) : w[i] \in S
    BY ElementOfSeq
  <1>2. SubSeq(w, 1, n) \in Seq(S) /\ Len(SubSeq(w, 1, n)) = n
    BY <1>1, SubSeqProperties
  <1>3. SubSeq(w, n + 1, Len(w)) \in Seq(S) /\ Len(SubSeq(w, n + 1, Len(w))) = Len(w) - n
    <2>1. /\ SubSeq(w, n + 1, Len(w)) \in Seq(S)
          /\ Len(SubSeq(w, n + 1, Len(w))) =
               IF n + 1 <= Len(w) THEN Len(w) - (n + 1) + 1 ELSE 0
      <3>1. \A i \in (n + 1)..Len(w) : w[i] \in S
        BY <1>1
      <3>2. n + 1 \in Int /\ Len(w) \in Int
        BY LenProperties
      <3> QED
        BY <3>1, <3>2, SubSeqProperties
    <2> QED
      BY <2>1
  <1>4. SubSeq(w, 1, n) \o SubSeq(w, n + 1, Len(w)) = SubSeq(w, 1, Len(w))
    BY ConcatAdjacentSubSeq
  <1>5. SubSeq(w, 1, Len(w)) = w
    BY SubSeqFull
  <1> QED
    BY <1>2, <1>3, <1>4, <1>5

\* p of the bytes p and q arrives on the wire w, after x was read.
Arrived(x, w, p, q) == (x \o (w \o p)) \o q = (x \o w) \o (p \o q)

\* Bytes that arrive move to the wire and change nothing.
LEMMA ArrivalKeeps ==
    ASSUME NEW S, NEW x \in Seq(S), NEW w \in Seq(S), NEW p \in Seq(S), NEW q \in Seq(S)
    PROVE  Arrived(x, w, p, q)
  <1>1. x \o (w \o p) = (x \o w) \o p
    BY ConcatAssociative
  <1> DEFINE y == x \o w
  <1>2. y \in Seq(S)
    BY ConcatProperties
  <1> HIDE DEF y
  <1>3. (y \o p) \o q = y \o (p \o q)
    BY <1>2, ConcatAssociative
  <1> QED
    BY <1>1, <1>3, Zenon DEF Arrived, y

\* The first bytes of what is put together.
LEMMA FirstBytes ==
    ASSUME NEW S, NEW s \in Seq(S), NEW u \in Seq(S)
    PROVE  /\ Len(s \o u) = Len(s) + Len(u)
           /\ \A i \in 1..Len(s) : (s \o u)[i] = s[i]
  BY ConcatProperties

\* The least element of a set with one number.
LEMMA MinOfOne ==
    ASSUME NEW k \in Nat
    PROVE  Min({k}) = k
  <1> DEFINE P(y) == y \in {k} /\ \A z \in {k} : y <= z
  <1>1. P(k)
    OBVIOUS
  <1>2. Min({k}) = CHOOSE y \in {k} : \A z \in {k} : y <= z
    BY DEF Min
  <1>3. (CHOOSE y \in {k} : \A z \in {k} : y <= z) \in {k}
    BY <1>1
  <1> QED
    BY <1>2, <1>3

\* The line ends where the newline is, and nowhere before all of it was read.
LEMMA LineEnds ==
    ASSUME NEW S, NEW s \in Seq(S), NEW u \in Seq(S), NEW c \in Seq(S),
           "nl" \in S, "nl" \notin ToSet(c), s \o u = Append(c, "nl")
    PROVE  /\ LineEnd(s) > 0 => SubSeq(s, 1, LineEnd(s) - 1) = c
           /\ Len(s) <= Len(c) + 1
           /\ LineEnd(s) \in Nat
  <1>1. /\ Len(s \o u) = Len(s) + Len(u)
        /\ \A i \in 1..Len(s) : (s \o u)[i] = s[i]
    BY FirstBytes, Zenon
  <1>2. /\ Len(Append(c, "nl")) = Len(c) + 1
        /\ \A i \in 1..Len(c) : Append(c, "nl")[i] = c[i]
        /\ Append(c, "nl")[Len(c) + 1] = "nl"
    BY AppendProperties
  <1>3. \A i \in 1..Len(c) : c[i] # "nl"
    BY DEF ToSet
  <1> DEFINE a == s \o u
             d == Append(c, "nl")
             N == {i \in 1..Len(s) : s[i] = "nl"}
  <1>4. a = d
    OBVIOUS
  <1>5. Len(s) \in Nat /\ Len(c) \in Nat /\ Len(u) \in Nat
    BY LenProperties
  <1>6. /\ Len(a) = Len(s) + Len(u)
        /\ \A i \in 1..Len(s) : a[i] = s[i]
        /\ Len(a) = Len(c) + 1
        /\ \A i \in 1..Len(c) : a[i] = c[i]
        /\ a[Len(c) + 1] = "nl"
    BY <1>1, <1>2, <1>4, Zenon
  <1> HIDE DEF a, d
  <1>7. Len(s) <= Len(c) + 1
    BY <1>5, <1>6
  <1>8. \A i \in 1..Len(s) : s[i] = "nl" <=> i = Len(c) + 1
    BY <1>3, <1>5, <1>6
  <1>9. "nl" \in ToSet(s) <=> Len(s) = Len(c) + 1
    <2>1. "nl" \in ToSet(s) <=> \E i \in 1..Len(s) : s[i] = "nl"
      BY DEF ToSet
    <2> QED
      BY <1>5, <1>7, <1>8, <2>1
  <1>10. CASE "nl" \notin ToSet(s)
    BY <1>7, <1>10 DEF LineEnd
  <1>11. CASE "nl" \in ToSet(s)
    <2>1. N = {Len(c) + 1}
      BY <1>5, <1>8, <1>9, <1>11
    <2>2. Len(c) + 1 \in Nat
      BY <1>5
    <2>3. Min({Len(c) + 1}) = Len(c) + 1
      BY <2>2, MinOfOne
    <2>4. LineEnd(s) = Len(c) + 1
      BY <1>11, <2>1, <2>3, Zenon DEF LineEnd
    <2>5. SubSeq(s, 1, Len(c)) = c
      <3>1. \A i \in 1..Len(c) : s[i] = c[i]
        BY <1>5, <1>6, <1>9, <1>11
      <3>2. \A i \in 1..Len(c) : s[i] \in S
        BY <3>1, ElementOfSeq
      <3> DEFINE z == SubSeq(s, 1, Len(c))
      <3>3. /\ z \in Seq(S) /\ Len(z) = Len(c)
            /\ \A i \in 1..Len(c) : z[i] = s[i]
        BY <1>5, <3>2, SubSeqProperties
      <3> HIDE DEF z
      <3>4. z = c
        BY <3>1, <3>3, SeqEqual
      <3> QED
        BY <3>4 DEF z
    <2>6. LineEnd(s) - 1 = Len(c)
      BY <1>5, <2>4
    <2> QED
      BY <1>5, <1>7, <2>4, <2>5, <2>6
  <1> QED
    BY <1>10, <1>11

\* A challenge is made of bytes, and is no more than a line.
LEMMA ChallengeBytes ==
    ASSUME NEW c \in Challenges
    PROVE  c \in Seq(Bytes) /\ "nl" \notin ToSet(c) /\ Append(c, "nl") \in Seq(Bytes)
  <1>1. c \in Seq(ToSet(c)) /\ "nl" \notin ToSet(c)
    BY ChallengesAssumption
  <1>2. ToSet(c) \subseteq Bytes
    BY DEF Bytes
  <1>3. c \in Seq(Bytes)
    BY <1>1, <1>2, SeqMonotonic
  <1>4. "nl" \in Bytes
    BY DEF Bytes
  <1> QED
    BY <1>1, <1>3, <1>4, AppendProperties

-----------------------------------------------------------------------------
(***************************************************************************)
(* What a builder may come to.                                             *)
(***************************************************************************)
Nets == {"Ok", "CouldNotResolveAddr", "SocketError", "TlsError", "AuthError"}

Outcome(x, code) == \E net \in Nets : build(x, net) = code

\* configure_tls fails on its own account, or because of what it reads.
LEMMA ConfigureTlsFacts ==
    ASSUME NEW x, NEW io \in BOOLEAN
    PROVE  /\ configure_tls(x, io).res \in {"Ok", "ConfigError", "TlsError"}
           /\ configure_tls(x, io).res = "Ok" => configure_tls(x, TRUE).res = "Ok"
           /\ configure_tls(x, TRUE).res = "Ok" =>
                configure_tls(x, FALSE).res \in {"Ok", "TlsError"}
           /\ ~tls_enabled(x.protocol) => configure_tls(x, io).res = "Ok"
  BY DEF configure_tls

\* Each error of connect_tcp is one that `build` returns.
LEMMA Outcomes ==
    ASSUME NEW x \in Builders
    PROVE  /\ Outcome(x, "CouldNotResolveAddr") /\ Outcome(x, "SocketError")
           /\ \A io \in BOOLEAN : LET t == configure_tls(x, io) IN
                t.res # "Ok" => Outcome(x, t.res)
           /\ configure_tls(x, TRUE).res = "Ok" =>
                /\ Outcome(x, "Ok")
                /\ tls_enabled(x.protocol) => Outcome(x, "TlsError")
                /\ build_auth(x).scheme = "Ecdsa" => Outcome(x, "AuthError")
  <1>1. is_tcpx(x.protocol) /\ build_auth(x).res = "Ok"
    BY BuildersAssumption
  <1>2. build(x, "CouldNotResolveAddr") = "CouldNotResolveAddr"
    BY <1>1 DEF build
  <1>3. build(x, "SocketError") = "SocketError"
    BY <1>1 DEF build
  <1> DEFINE t(io) == configure_tls(x, io).res
  <1>4. \A net \in {"Ok", "TlsError", "AuthError"} :
          build(x, net) = IF t(net # "TlsError") # "Ok" THEN t(net # "TlsError")
                          ELSE IF x.protocol = "tcps" /\ net = "TlsError" THEN net
                          ELSE IF build_auth(x).scheme = "Ecdsa" /\ net = "AuthError" THEN net
                          ELSE "Ok"
    BY <1>1 DEF build
  <1>5. /\ build(x, "Ok") = IF t(TRUE) # "Ok" THEN t(TRUE) ELSE "Ok"
        /\ build(x, "TlsError") = IF t(FALSE) # "Ok" THEN t(FALSE)
                                  ELSE IF x.protocol = "tcps" THEN "TlsError" ELSE "Ok"
        /\ build(x, "AuthError") = IF t(TRUE) # "Ok" THEN t(TRUE)
                                   ELSE IF build_auth(x).scheme = "Ecdsa" THEN "AuthError"
                                   ELSE "Ok"
    BY <1>4
  <1>6. tls_enabled(x.protocol) => x.protocol = "tcps"
    BY <1>1 DEF tls_enabled, is_tcpx
  <1>7. t(TRUE) = "Ok" => t(FALSE) \in {"Ok", "TlsError"}
    BY ConfigureTlsFacts
  <1> HIDE DEF t
  <1>8. \A io \in BOOLEAN : t(io) # "Ok" => Outcome(x, t(io))
    BY <1>5 DEF Outcome, Nets
  <1>9. t(TRUE) = "Ok" => /\ Outcome(x, "Ok")
                          /\ tls_enabled(x.protocol) => Outcome(x, "TlsError")
                          /\ build_auth(x).scheme = "Ecdsa" => Outcome(x, "AuthError")
    BY <1>5, <1>6, <1>7 DEF Outcome, Nets
  <1> QED
    BY <1>2, <1>3, <1>8, <1>9 DEF Outcome, Nets, t

-----------------------------------------------------------------------------
(***************************************************************************)
(* Pieces of the steps.                                                    *)
(***************************************************************************)
\* What the client has said, after it says something.
LEMMA Saying ==
    ASSUME sent \in Seq(Msgs), NEW m \in Msgs, sent' = Append(sent, m)
    PROVE  /\ sent' \in Seq(Msgs) /\ Len(sent') = Len(sent) + 1
           /\ \A i \in 1..Len(sent) : sent'[i] = sent[i]
           /\ sent'[Len(sent) + 1] = m
           /\ \A what : Heard(what)' <=> Heard(what) \/ what = m.what
  <1>1. /\ sent' \in Seq(Msgs) /\ Len(sent') = Len(sent) + 1
        /\ \A i \in 1..Len(sent) : sent'[i] = sent[i]
        /\ sent'[Len(sent) + 1] = m
    BY AppendProperties
  <1>2. Len(sent) \in Nat
    BY LenProperties
  <1>3. \A what : Heard(what)' <=> \E i \in 1..Len(sent') : sent'[i].what = what
    BY DEF Heard
  <1>4. ASSUME NEW what PROVE Heard(what)' <=> Heard(what) \/ what = m.what
    <2>1. Heard(what) => Heard(what)'
      BY <1>1, <1>2, <1>3 DEF Heard
    <2>2. what = m.what => Heard(what)'
      BY <1>1, <1>2, <1>3
    <2>3. Heard(what)' => Heard(what) \/ what = m.what
      BY <1>1, <1>2, <1>3 DEF Heard
    <2> QED
      BY <2>1, <2>2, <2>3
  <1> QED
    BY <1>1, <1>4

\* The first half of KeysGuarded.
Guarded ==
    InTls => \A i \in 1..Len(sent) : sent[i].what \in {"key_id", "signature"} =>
               sent[i].tls /\ \E j \in 1..(i - 1) : sent[j].what = "finished"

\* The client says what it may.
LEMMA GuardedSaying ==
    ASSUME KeysGuarded, sent \in Seq(Msgs), NEW m \in Msgs, sent' = Append(sent, m), b' = b,
           InTls /\ m.what \in {"key_id", "signature"} => m.tls /\ Heard("finished")
    PROVE  Guarded'
  <1>1. /\ Len(sent') = Len(sent) + 1
        /\ \A i \in 1..Len(sent) : sent'[i] = sent[i]
        /\ sent'[Len(sent) + 1] = m
    BY Saying
  <1>2. Len(sent) \in Nat
    BY LenProperties
  <1>3. SUFFICES ASSUME InTls, NEW i \in 1..Len(sent'),
                        sent'[i].what \in {"key_id", "signature"}
                 PROVE  sent'[i].tls /\ \E j \in 1..(i - 1) : sent'[j].what = "finished"
    BY DEF Guarded, InTls
  <1>4. CASE i \in 1..Len(sent)
    <2>1. sent[i].tls /\ \E j \in 1..(i - 1) : sent[j].what = "finished"
      BY <1>1, <1>3, <1>4 DEF KeysGuarded
    <2> QED
      BY <1>1, <1>2, <1>4, <2>1
  <1>5. CASE i = Len(sent) + 1
    <2>1. m.tls /\ Heard("finished")
      BY <1>1, <1>3, <1>5
    <2> QED
      BY <1>1, <1>2, <1>5, <2>1 DEF Heard
  <1> QED
    BY <1>1, <1>2, <1>4, <1>5

\* Numbers and their product.
LEMMA TimesNat == \A u, v \in Nat : u * v \in Nat
  OBVIOUS

\* A read that took n bytes has paid for the time before it.
LEMMA Waited ==
    ASSUME NEW T \in Nat, NEW x \in Nat, NEW n \in Nat, n >= 1, NEW k \in Nat, k <= T,
           NEW e \in Nat, e <= T * x + k
    PROVE  e <= T * (x + n)
  <1>1. T * (x + n) = T * x + T * n
    OBVIOUS
  <1>2. T <= T * n
    <2>1. \A u, v \in Nat : u * (v + 1) = u * v + u
      OBVIOUS
    <2>2. n - 1 \in Nat /\ T * (n - 1) \in Nat
      OBVIOUS
    <2> QED
      BY <2>1, <2>2
  <1> QED
    BY <1>1, <1>2

LEMMA TimeoutNat == ASSUME IInv PROVE auth_timeout \in Nat
  BY BuildersAssumption DEF IInv, TypeInv, auth_timeout

LEMMA SameTimeout == ASSUME b' = b PROVE auth_timeout' = auth_timeout
  BY DEF auth_timeout

\* An error leaves no socket.
LEMMA FailsInv ==
    ASSUME IInv, NEW code, Fails(code), Elsewhere, step # "end",
           code \notin {"none", "Ok"}, Outcome(b, code),
           code = "AuthError" /\ Heard("key_id") => server.closed \/ server.asked
    PROVE  IInv'
  <1>1. /\ result' = code /\ step' = "end"
        /\ sock' = IF sock = "none" THEN sock ELSE "closed"
        /\ UNCHANGED <<b, timer, elapsed, wire, server, read_timeout, got, buf, sent>>
    BY DEF Fails, Elsewhere
  <1>2. TypeInv'
    BY <1>1 DEF IInv, TypeInv, Steps
  <1>3. StepInv'
    BY <1>1 DEF StepInv, AfterConfigure, AfterHandshake
  <1>4. SentInv'
    BY <1>1 DEF IInv, SentInv, Heard, InTls
  <1>5. BytesInv'
    BY <1>1 DEF IInv, BytesInv, Heard
  <1>6. TimeInv' /\ WaitBounded'
    BY <1>1, SameTimeout DEF IInv, TimeInv, WaitBounded
  <1>7. AllOrNothing'
    BY <1>1 DEF AllOrNothing, Outcome, Nets
  <1>8. KeysGuarded'
    BY <1>1 DEF IInv, KeysGuarded, InTls, Heard
  <1>9. SignsTheChallenge'
    BY <1>1 DEF SignsTheChallenge
  <1> QED
    BY <1>2, <1>3, <1>4, <1>5, <1>6, <1>7, <1>8, <1>9 DEF IInv

\* The client goes on and says nothing.
LEMMA GoesInv ==
    ASSUME IInv, step \notin {"challenge", "signature", "end"},
           step' \in Steps \ {"challenge", "signature", "end"},
           UNCHANGED <<b, result, timer, elapsed, wire, server, got, buf, sent>>,
           StepInv'
    PROVE  IInv'
  <1>1. result = "none"
    BY DEF IInv, StepInv
  <1>2. ~Heard("key_id")
    BY DEF IInv, SentInv
  <1>3. TypeInv'
    BY DEF IInv, TypeInv
  <1>4. SentInv'
    BY <1>2 DEF IInv, SentInv, Heard, InTls
  <1>5. BytesInv'
    BY DEF IInv, BytesInv, Heard
  <1>6. TimeInv' /\ WaitBounded'
    BY SameTimeout DEF IInv, TimeInv, WaitBounded
  <1>7. AllOrNothing'
    <2>1. sock' # "closed"
      BY DEF StepInv, Steps, AfterConfigure
    <2> QED
      BY <1>1, <2>1 DEF AllOrNothing
  <1>8. KeysGuarded'
    BY <1>1 DEF IInv, KeysGuarded, InTls, Heard
  <1>9. SignsTheChallenge'
    BY <1>1 DEF SignsTheChallenge
  <1> QED
    BY <1>3, <1>4, <1>5, <1>6, <1>7, <1>8, <1>9 DEF IInv

\* The initial states.
LEMMA InitInv == Init => IInv
  <1> SUFFICES ASSUME Init PROVE IInv
    OBVIOUS
  <1>1. ~\E what : Heard(what)
    BY DEF Init, Heard
  <1>2. auth_timeout \in Nat /\ HsLen \in Nat
    BY BoundsAssumption, BuildersAssumption DEF Init, auth_timeout
  <1>3. /\ server.mode \in {"plain", "tls"} /\ server.challenge \in Challenges
        /\ server.hs = HsLen /\ server.todo = <<>> /\ server.asked = FALSE
        /\ server.closed = FALSE
    BY DEF Init, Servers
  <1>4. TypeInv
    <2>1. <<>> \in Seq(Bytes) /\ <<>> \in Seq(Msgs)
      BY EmptySeq
    <2>2. /\ buf \in Seq(Bytes) /\ wire \in Seq(Bytes) /\ sent \in Seq(Msgs)
          /\ server.todo \in Seq(Bytes)
      BY <1>3, <2>1, Zenon DEF Init
    <2> QED
      BY <1>2, <1>3, <2>2 DEF Init, Servers, TypeInv, Steps
  <1>5. StepInv
    BY DEF Init, StepInv, AfterConfigure, AfterHandshake
  <1>6. SentInv
    BY <1>1 DEF Init, SentInv
  <1>7. BytesInv
    BY <1>2, <1>3 DEF Init, BytesInv
  <1>8. TimeInv
    BY <1>2 DEF Init, TimeInv
  <1>9. Len(server.challenge) \in Nat
    BY <1>3, ChallengeBytes, LenProperties
  <1>10. WaitBounded
    <2>1. \A m, n \in Nat : 0 <= m * n
      OBVIOUS
    <2>2. HsLen + Len(server.challenge) + 2 \in Nat
      BY <1>2, <1>9
    <2> QED
      BY <1>2, <2>1, <2>2 DEF Init, WaitBounded
  <1>11. AllOrNothing
    BY DEF Init, AllOrNothing
  <1>12. KeysGuarded /\ SignsTheChallenge
    BY <1>1 DEF Init, KeysGuarded, SignsTheChallenge
  <1> QED
    BY <1>4, <1>5, <1>6, <1>7, <1>8, <1>10, <1>11, <1>12 DEF IInv

-----------------------------------------------------------------------------
(***************************************************************************)
(* The steps of the client.                                                *)
(***************************************************************************)
\* From the address to the options of the connected socket.
LEMMA ConnectingInv ==
    ASSUME IInv, Resolve \/ OpenSocket \/ SocketFails \/ Bind \/ Connect \/ SetReadTimeout
    PROVE  IInv'
  <1>1. b \in Builders
    BY DEF IInv, TypeInv
  <1>2. Outcome(b, "CouldNotResolveAddr") /\ Outcome(b, "SocketError")
    BY <1>1, Outcomes
  <1>3. /\ ~\E what : what = "CouldNotResolveAddr" /\ what \in {"none", "Ok", "AuthError"}
        /\ ~\E what : what = "SocketError" /\ what \in {"none", "Ok", "AuthError"}
    OBVIOUS
  <1>4. CASE Resolve
    <2>1. CASE Fails("CouldNotResolveAddr")
      BY <1>2, <1>3, <1>4, <2>1, FailsInv DEF Resolve
    <2>2. CASE Goes("socket") /\ UNCHANGED <<sock, read_timeout, got, buf, sent>>
      <3>1. StepInv'
        BY <1>4, <2>2 DEF Resolve, Goes, IInv, StepInv, AfterConfigure, AfterHandshake
      <3> QED
        BY <1>4, <2>2, <3>1, GoesInv DEF Resolve, Goes, Elsewhere, Steps
    <2> QED
      BY <1>4, <2>1, <2>2 DEF Resolve
  <1>5. CASE OpenSocket
    <2>1. StepInv'
      BY <1>5 DEF OpenSocket, Goes, IInv, StepInv, AfterConfigure, AfterHandshake
    <2> QED
      BY <1>5, <2>1, GoesInv DEF OpenSocket, Goes, Elsewhere, Steps
  <1>6. CASE SocketFails
    BY <1>2, <1>3, <1>6, FailsInv DEF SocketFails
  <1>7. CASE Bind
    <2>1. CASE Fails("CouldNotResolveAddr")
      BY <1>2, <1>3, <1>7, <2>1, FailsInv DEF Bind
    <2>2. CASE Goes("connect") /\ UNCHANGED <<sock, read_timeout, got, buf, sent>>
      <3>1. StepInv'
        BY <1>7, <2>2 DEF Bind, Goes, IInv, StepInv, AfterConfigure, AfterHandshake
      <3> QED
        BY <1>7, <2>2, <3>1, GoesInv DEF Bind, Goes, Elsewhere, Steps
    <2> QED
      BY <1>7, <2>1, <2>2 DEF Bind
  <1>8. CASE Connect
    <2>1. StepInv'
      BY <1>8 DEF Connect, Goes, IInv, StepInv, AfterConfigure, AfterHandshake
    <2> QED
      BY <1>8, <2>1, GoesInv DEF Connect, Goes, Elsewhere, Steps
  <1>9. CASE SetReadTimeout
    <2>1. StepInv'
      BY <1>9, SameTimeout
      DEF SetReadTimeout, Goes, Elsewhere, IInv, StepInv, AfterConfigure, AfterHandshake
    <2> QED
      BY <1>9, <2>1, GoesInv DEF SetReadTimeout, Goes, Elsewhere, Steps
  <1> QED
    BY <1>4, <1>5, <1>6, <1>7, <1>8, <1>9

\* The client has a sender, through every step of its builder.
LEMMA EndsInv ==
    ASSUME b \in Builders, step' = "end", result' = "Ok", UNCHANGED <<b, sock, read_timeout>>,
           sock = "connected", read_timeout = auth_timeout,
           configure_tls(b, TRUE).res = "Ok", InTls => got' = HsLen,
           scheme = "Ecdsa" => Heard("key_id")', auth_timeout > 0 => timer' <= auth_timeout,
           TypeInv', SentInv', BytesInv', WaitBounded', KeysGuarded', SignsTheChallenge'
    PROVE  IInv'
  <1>1. StepInv'
    BY DEF StepInv, AfterConfigure, AfterHandshake
  <1>2. TimeInv'
    BY SameTimeout DEF TimeInv
  <1>3. Outcome(b, "Ok")
    BY Outcomes
  <1>4. InTls' = InTls /\ scheme' = scheme
    BY DEF InTls, scheme
  <1>5. AllOrNothing'
    BY <1>3, <1>4, SameTimeout DEF AllOrNothing, Outcome, Nets
  <1> QED
    BY <1>1, <1>2, <1>5 DEF IInv

\* configure_tls and the first write of the handshake.
LEMMA ConfigureTlsInv ==
    ASSUME IInv, ConfigureTls
    PROVE  IInv'
  <1>1. /\ step = "tls" /\ result = "none" /\ sock = "connected"
        /\ read_timeout = auth_timeout /\ b \in Builders /\ Elsewhere /\ sent \in Seq(Msgs)
    BY DEF IInv, StepInv, TypeInv, ConfigureTls
  <1>2. ~Heard("key_id")
    BY <1>1 DEF IInv, SentInv
  <1>3. PICK io \in BOOLEAN :
          LET t == configure_tls(b, io)
          IN  IF t.res # "Ok" THEN Fails(t.res)
              ELSE IF ~InTls
                THEN Returns(AfterTls) /\ UNCHANGED <<sock, read_timeout, got, buf, sent>>
              ELSE \/ /\ Goes("handshake") /\ sent' = Says("hello", <<>>, FALSE)
                      /\ UNCHANGED <<sock, read_timeout, got, buf>>
                   \/ Fails("TlsError")
    BY Zenon DEF ConfigureTls
  <1> DEFINE t == configure_tls(b, io)
  <1>4. /\ t.res \in {"Ok", "ConfigError", "TlsError"}
        /\ t.res = "Ok" => configure_tls(b, TRUE).res = "Ok"
        /\ t.res # "Ok" => Outcome(b, t.res)
    BY <1>1, ConfigureTlsFacts, Outcomes
  <1> HIDE DEF t
  <1>5. CASE t.res # "Ok"
    <2>1. Fails(t.res)
      BY <1>3, <1>5 DEF t
    <2> QED
      BY <1>1, <1>2, <1>4, <1>5, <2>1, FailsInv
  <1>6. CASE t.res = "Ok" /\ ~InTls
    <2>1. Returns(AfterTls) /\ UNCHANGED <<sock, read_timeout, got, buf, sent>>
      BY <1>3, <1>6 DEF t
    <2>2. CASE scheme = "Ecdsa"
      <3>1. step' = "keys" /\ result' = "none"
        BY <2>1, <2>2 DEF Returns, AfterTls
      <3>2. StepInv'
        BY <1>1, <1>4, <1>6, <2>1, <2>2, <3>1, SameTimeout
        DEF StepInv, AfterConfigure, AfterHandshake, Elsewhere, InTls, scheme
      <3> QED
        BY <1>1, <2>1, <3>1, <3>2, GoesInv DEF Elsewhere, Steps
    <2>3. CASE scheme # "Ecdsa"
      <3>1. step' = "end" /\ result' = "Ok"
        BY <2>1, <2>3 DEF Returns, AfterTls
      <3>2. TypeInv' /\ SentInv' /\ BytesInv'
        BY <1>1, <1>2, <2>1, <3>1
        DEF IInv, TypeInv, SentInv, BytesInv, Steps, Elsewhere, Heard, InTls
      <3>3. /\ WaitBounded' /\ KeysGuarded' /\ SignsTheChallenge'
            /\ auth_timeout > 0 => timer' <= auth_timeout
        BY <1>1, <2>1, <2>3, <3>1, SameTimeout
        DEF IInv, WaitBounded, KeysGuarded, SignsTheChallenge, TimeInv, Elsewhere, Heard, InTls, scheme
      <3> QED
        BY <1>1, <1>4, <1>6, <2>1, <2>3, <3>1, <3>2, <3>3, EndsInv DEF Elsewhere
    <2> QED
      BY <2>2, <2>3
  <1>7. CASE t.res = "Ok" /\ InTls /\ Fails("TlsError")
    <2>1. Outcome(b, "TlsError")
      BY <1>1, <1>4, <1>7, Outcomes DEF InTls
    <2> QED
      BY <1>1, <1>2, <1>7, <2>1, FailsInv
  <1>8. CASE /\ t.res = "Ok" /\ InTls
             /\ Goes("handshake") /\ sent' = Says("hello", <<>>, FALSE)
             /\ UNCHANGED <<sock, read_timeout, got, buf>>
    <2> DEFINE m == [what |-> "hello", over |-> <<>>, tls |-> FALSE]
    <2>1. m \in Msgs
      BY EmptySeq DEF Msgs
    <2>2. sent' = Append(sent, m)
      BY <1>8 DEF Says
    <2>3. m.what = "hello"
      OBVIOUS
    <2> HIDE DEF m
    <2>4. /\ sent' \in Seq(Msgs) /\ Len(sent') = Len(sent) + 1
          /\ \A i \in 1..Len(sent) : sent'[i] = sent[i]
          /\ sent'[Len(sent) + 1] = m
          /\ \A what : Heard(what)' <=> Heard(what) \/ what = "hello"
      BY <1>1, <2>1, <2>2, <2>3, Saying
    <2>5. Len(sent) \in Nat
      BY <1>1, LenProperties
    <2>6. /\ step' = "handshake" /\ result' = "none" /\ InTls' = InTls /\ scheme' = scheme
          /\ UNCHANGED <<b, timer, elapsed, wire, server, sock, read_timeout, got, buf>>
      BY <1>1, <1>8 DEF Goes, Elsewhere, InTls, scheme
    <2>7. TypeInv'
      BY <2>4, <2>6 DEF IInv, TypeInv, Steps
    <2>8. StepInv'
      BY <1>1, <1>4, <1>8, <2>6, SameTimeout DEF StepInv, AfterConfigure, AfterHandshake
    <2>9. SentInv'
      <3>1. \A i \in 1..Len(sent') : sent'[i].what # "key_id"
        BY <1>2, <2>3, <2>4, <2>5 DEF Heard
      <3> QED
        BY <1>2, <1>8, <2>4, <2>6, <3>1 DEF SentInv
    <2>10. BytesInv'
      BY <1>2, <2>4, <2>6 DEF IInv, BytesInv
    <2>11. TimeInv' /\ WaitBounded'
      BY <1>1, <2>6, SameTimeout DEF IInv, TimeInv, WaitBounded
    <2>12. AllOrNothing' /\ SignsTheChallenge'
      BY <1>1, <2>6 DEF AllOrNothing, SignsTheChallenge
    <2>13. KeysGuarded'
      <3>1. Guarded'
        BY <1>1, <1>8, <2>1, <2>2, <2>3, <2>6, GuardedSaying DEF IInv
      <3> QED
        BY <2>6, <3>1 DEF KeysGuarded, Guarded
    <2> QED
      BY <2>7, <2>8, <2>9, <2>10, <2>11, <2>12, <2>13 DEF IInv
  <1> QED
    BY <1>3, <1>5, <1>6, <1>7, <1>8 DEF t

\* While the handshake goes on, the server has not asked for anything.
LEMMA HandshakeFacts ==
    ASSUME IInv, step = "handshake"
    PROVE  /\ result = "none" /\ sock = "connected" /\ read_timeout = auth_timeout
           /\ b \in Builders /\ InTls /\ configure_tls(b, TRUE).res = "Ok"
           /\ ~Heard("key_id") /\ server.asked = FALSE /\ buf = <<>>
           /\ got + server.hs + Len(wire) + Len(server.todo) = HsLen
           /\ Outcome(b, "TlsError")
  <1>1. /\ result = "none" /\ sock = "connected" /\ read_timeout = auth_timeout
        /\ b \in Builders /\ InTls /\ configure_tls(b, TRUE).res = "Ok"
    BY DEF IInv, StepInv, AfterConfigure, TypeInv
  <1>2. ~Heard("key_id")
    BY DEF IInv, SentInv
  <1>3. server.asked = FALSE
    BY <1>2 DEF IInv, BytesInv, TypeInv
  <1>4. buf = <<>> /\ got + server.hs + Len(wire) + Len(server.todo) = HsLen
    BY <1>3 DEF IInv, BytesInv
  <1>5. Outcome(b, "TlsError")
    BY <1>1, Outcomes DEF InTls
  <1> QED
    BY <1>1, <1>2, <1>3, <1>4, <1>5

\* A turn of the loop around complete_io.
LEMMA HandshakeInv ==
    ASSUME IInv, Handshake
    PROVE  IInv'
  <1>1. step = "handshake"
    BY DEF Handshake
  <1>2. /\ result = "none" /\ sock = "connected" /\ read_timeout = auth_timeout
        /\ b \in Builders /\ InTls /\ configure_tls(b, TRUE).res = "Ok"
        /\ ~Heard("key_id") /\ server.asked = FALSE /\ buf = <<>>
        /\ got + server.hs + Len(wire) + Len(server.todo) = HsLen
        /\ Outcome(b, "TlsError")
    BY <1>1, HandshakeFacts
  <1>3. CASE Fails("TlsError") /\ Elsewhere
    BY <1>1, <1>2, <1>3, FailsInv
  <1>4. ASSUME NEW n \in 1..Len(wire),
               got' = got + n,
               IF got' = HsLen
                 THEN Returns(AfterTls) /\ sent' = Says("finished", <<>>, FALSE)
                 ELSE Goes("handshake") /\ UNCHANGED sent,
               UNCHANGED <<sock, read_timeout, buf>>,
               Takes(n)
        PROVE  IInv'
    <2>1. /\ wire \in Seq(Bytes) /\ got \in Nat /\ server.hs \in Nat /\ Len(wire) \in Nat
          /\ Len(server.todo) \in Nat /\ sent \in Seq(Msgs) /\ elapsed \in Nat /\ timer \in Nat
          /\ auth_timeout \in Nat /\ HsLen \in Nat
      BY BoundsAssumption, TimeoutNat, LenProperties DEF IInv, TypeInv
    <2>2. /\ wire' \in Seq(Bytes) /\ Len(wire') = Len(wire) - n
          /\ timer' = 0 /\ UNCHANGED <<b, elapsed, server>>
      BY <1>4, <2>1, Divides DEF Takes
    <2>3. InTls' = InTls /\ scheme' = scheme /\ auth_timeout' = auth_timeout
      BY <2>2, SameTimeout DEF InTls, scheme
    <2>4. got' \in Nat /\ got' + server.hs + Len(wire') + Len(server.todo) = HsLen
      BY <1>2, <1>4, <2>1, <2>2
    <2>5. ASSUME auth_timeout > 0 PROVE elapsed <= auth_timeout * (got' + Len(buf))
      <3>1. Len(buf) = 0 /\ elapsed <= auth_timeout * got + timer /\ timer <= auth_timeout
        BY <1>1, <1>2, <2>1, <2>5 DEF IInv, TimeInv
      <3>2. elapsed <= auth_timeout * (got + n)
        BY <2>1, <3>1, Waited
      <3> QED
        BY <1>4, <2>1, <3>1, <3>2
    <2>6. WaitBounded' /\ timer' <= auth_timeout
      BY <2>1, <2>2, <2>3 DEF IInv, WaitBounded
    <2>7. TimeInv'
      <3> SUFFICES ASSUME auth_timeout > 0
                   PROVE  /\ timer' <= auth_timeout
                          /\ elapsed' <= auth_timeout * (got' + Len(buf')) + timer'
        BY <2>3 DEF TimeInv
      <3>1. Len(buf) \in Nat /\ buf' = buf
        BY <1>4, LenProperties DEF IInv, TypeInv
      <3> DEFINE q == auth_timeout * (got' + Len(buf))
      <3>2. q \in Nat /\ elapsed <= q
        <4>1. got' + Len(buf) \in Nat
          BY <2>4, <3>1
        <4> QED
          BY <2>1, <2>5, <4>1, TimesNat
      <3>3. auth_timeout * (got' + Len(buf')) = q
        BY <3>1, Zenon
      <3> HIDE DEF q
      <3>4. elapsed' <= q + timer'
        BY <2>1, <2>2, <3>2
      <3> QED
        BY <2>6, <3>3, <3>4, Zenon
    <2>8. CASE got' # HsLen
      <3>1. /\ step' = "handshake" /\ result' = "none"
            /\ UNCHANGED <<sent, sock, read_timeout, buf, b, elapsed, server>>
        BY <1>2, <1>4, <2>2, <2>8 DEF Goes
      <3>2. \A what : Heard(what)' <=> Heard(what)
        BY <3>1 DEF Heard
      <3>3. TypeInv'
        BY <2>1, <2>2, <2>4, <3>1 DEF IInv, TypeInv, Steps
      <3>4. StepInv'
        BY <1>2, <2>3, <3>1 DEF StepInv, AfterConfigure, AfterHandshake
      <3>5. SentInv'
        BY <1>2, <2>3, <3>1, <3>2 DEF IInv, SentInv
      <3>6. BytesInv'
        <4>1. got' + server.hs <= HsLen
          BY <2>1, <2>2, <2>4, LenProperties
        <4> QED
          BY <1>2, <2>4, <3>1, <3>2, <4>1 DEF IInv, BytesInv
      <3>8. AllOrNothing' /\ SignsTheChallenge'
        BY <1>2, <3>1 DEF AllOrNothing, SignsTheChallenge
      <3>9. KeysGuarded'
        BY <2>3, <3>1, <3>2 DEF IInv, KeysGuarded
      <3> QED
        BY <2>6, <2>7, <3>3, <3>4, <3>5, <3>6, <3>8, <3>9 DEF IInv
    <2>9. CASE got' = HsLen
      <3> DEFINE m == [what |-> "finished", over |-> <<>>, tls |-> FALSE]
      <3>1. m \in Msgs /\ m.what = "finished"
        BY EmptySeq DEF Msgs
      <3>2. sent' = Append(sent, m) /\ Returns(AfterTls)
        BY <1>4, <2>9 DEF Says
      <3> HIDE DEF m
      <3>3. /\ sent' \in Seq(Msgs) /\ Len(sent') = Len(sent) + 1
            /\ \A i \in 1..Len(sent) : sent'[i] = sent[i]
            /\ sent'[Len(sent) + 1] = m
            /\ \A what : Heard(what)' <=> Heard(what) \/ what = "finished"
        BY <2>1, <3>1, <3>2, Saying
      <3>4. Len(sent) \in Nat
        BY <2>1, LenProperties
      <3>5. Guarded'
        BY <2>1, <2>2, <3>1, <3>2, GuardedSaying DEF IInv
      <3>6. step' \in {"keys", "end"}
        BY <3>2 DEF Returns, AfterTls
      <3>7. TypeInv'
        BY <1>4, <2>1, <2>2, <2>4, <3>3, <3>6 DEF IInv, TypeInv, Steps
      <3>8. SentInv'
        <4>1. \A i \in 1..Len(sent') : sent'[i].what # "key_id"
          BY <1>2, <3>1, <3>3, <3>4 DEF Heard
        <4> QED
          BY <1>2, <2>3, <3>3, <4>1 DEF SentInv
      <3>9. BytesInv'
        <4>1. got' + server.hs <= HsLen
          BY <2>1, <2>2, <2>4, LenProperties
        <4> QED
          BY <1>2, <1>4, <2>2, <2>4, <3>3, <3>6, <4>1 DEF IInv, BytesInv
      <3>10. ~Heard("key_id")'
        BY <1>2, <3>3
      <3>11. KeysGuarded'
        BY <3>5, <3>10 DEF KeysGuarded, Guarded
      <3>12. CASE scheme = "Ecdsa"
        <4>1. step' = "keys" /\ result' = "none"
          BY <3>2, <3>12 DEF Returns, AfterTls
        <4>2. StepInv'
          BY <1>2, <1>4, <2>2, <2>3, <2>9, <3>3, <3>12, <4>1
          DEF StepInv, AfterConfigure, AfterHandshake
        <4>4. AllOrNothing' /\ SignsTheChallenge'
          BY <1>2, <1>4, <4>1 DEF AllOrNothing, SignsTheChallenge
        <4> QED
          BY <2>6, <2>7, <3>7, <3>8, <3>9, <3>11, <4>2, <4>4 DEF IInv
      <3>13. CASE scheme # "Ecdsa"
        <4>1. step' = "end" /\ result' = "Ok"
          BY <3>2, <3>13 DEF Returns, AfterTls
        <4>2. SignsTheChallenge'
          BY <2>3, <3>13 DEF SignsTheChallenge
        <4> QED
          BY <1>2, <1>4, <2>2, <2>6, <2>9, <3>7, <3>8, <3>9, <3>11, <3>13, <4>1, <4>2, EndsInv
      <3> QED
        BY <3>12, <3>13
    <2> QED
      BY <2>8, <2>9
  <1> QED
    BY <1>3, <1>4 DEF Handshake

\* What holds once the handshake is over.
LEMMA AuthFacts ==
    ASSUME IInv, step \in AfterHandshake
    PROVE  /\ result = "none" /\ sock = "connected" /\ read_timeout = auth_timeout
           /\ b \in Builders /\ configure_tls(b, TRUE).res = "Ok" /\ scheme = "Ecdsa"
           /\ InTls => got = HsLen /\ Heard("finished")
           /\ Outcome(b, "AuthError") /\ Outcome(b, "SocketError")
  <1>1. step # "end" /\ step \in AfterConfigure
    BY DEF AfterHandshake, AfterConfigure
  <1>2. /\ result = "none" /\ sock = "connected" /\ read_timeout = auth_timeout
        /\ b \in Builders /\ configure_tls(b, TRUE).res = "Ok" /\ scheme = "Ecdsa"
        /\ InTls => got = HsLen /\ Heard("finished")
    BY <1>1 DEF IInv, StepInv, TypeInv
  <1>3. Outcome(b, "AuthError") /\ Outcome(b, "SocketError")
    BY <1>2, Outcomes DEF scheme
  <1> QED
    BY <1>2, <1>3

\* Until the server has asked, nothing of it is left to read after the
\* handshake: the line is read from its first byte.
LEMMA NothingBeforeTheLine ==
    ASSUME IInv, step \in AfterHandshake, ~server.asked
    PROVE  wire = <<>> /\ server.todo = <<>> /\ buf = <<>> /\ ~(server.hs > 0 /\ Heard("hello"))
  <1>1. /\ got \in Nat /\ server.hs \in Nat /\ Len(wire) \in Nat /\ Len(server.todo) \in Nat
        /\ HsLen \in Nat /\ wire \in Seq(Bytes) /\ server.todo \in Seq(Bytes)
    BY BoundsAssumption, LenProperties DEF IInv, TypeInv
  <1>2. got + server.hs + Len(wire) + Len(server.todo) = HsLen /\ buf = <<>>
    BY DEF IInv, BytesInv
  <1>3. InTls => got = HsLen
    BY AuthFacts
  <1>4. ~InTls => server.hs >= HsLen
    BY <1>1 DEF IInv, SentInv, BytesInv
  <1>5. Len(wire) = 0 /\ Len(server.todo) = 0
    BY <1>1, <1>2, <1>3, <1>4
  <1>6. ~(server.hs > 0 /\ Heard("hello"))
    BY <1>1, <1>2, <1>3 DEF IInv, SentInv
  <1>7. wire = <<>> /\ server.todo = <<>>
    BY <1>1, <1>5, EmptySeq
  <1> QED
    BY <1>2, <1>6, <1>7

\* authenticate() up to parse_key_pair, and the errors after it.
LEMMA AuthErrorsInv ==
    ASSUME IInv, CheckKeys \/ WriteFails \/ NoChallenge \/ TimesOut
    PROVE  IInv'
  <1>1. CASE CheckKeys
    <2>1. step = "keys" /\ step \in AfterHandshake /\ Elsewhere
      BY <1>1 DEF CheckKeys, AfterHandshake
    <2>2. ~Heard("key_id")
      BY <2>1 DEF IInv, SentInv
    <2>3. CASE Fails("AuthError")
      BY <2>1, <2>2, <2>3, AuthFacts, FailsInv
    <2>4. CASE Goes("key_id") /\ UNCHANGED <<sock, read_timeout, got, buf, sent>>
      <3>1. UNCHANGED <<b, result, sock, read_timeout, got, sent>> /\ step' = "key_id"
        BY <2>1, <2>4 DEF Goes, Elsewhere
      <3>2. StepInv'
        <4>1. InTls' = InTls /\ scheme' = scheme /\ Heard("finished")' = Heard("finished")
          BY <3>1 DEF InTls, scheme, Heard
        <4> QED
          BY <2>1, <3>1, <4>1, AuthFacts, SameTimeout DEF StepInv, AfterConfigure, AfterHandshake
      <3> QED
        BY <2>1, <2>4, <3>1, <3>2, GoesInv DEF Elsewhere, Steps
    <2> QED
      BY <1>1, <2>3, <2>4 DEF CheckKeys
  <1>2. CASE WriteFails
    <2>1. step \in AfterHandshake /\ step # "end" /\ Fails("SocketError") /\ Elsewhere
      BY <1>2 DEF WriteFails, AfterHandshake
    <2> QED
      BY <2>1, AuthFacts, FailsInv
  <1>3. CASE NoChallenge
    <2>1. /\ step \in AfterHandshake /\ step # "end" /\ Fails("AuthError") /\ Elsewhere
          /\ server.closed
      BY <1>3 DEF NoChallenge, AfterHandshake
    <2> QED
      BY <2>1, AuthFacts, FailsInv
  <1>4. CASE TimesOut
    <2>1. Elsewhere /\ step \in {"handshake", "challenge"}
      BY <1>4 DEF TimesOut, Waiting, Reading
    <2>2. CASE step = "handshake"
      BY <1>4, <2>1, <2>2, HandshakeFacts, FailsInv DEF TimesOut
    <2>3. CASE step = "challenge"
      <3>1. step \in AfterHandshake
        BY <2>3 DEF AfterHandshake
      <3> QED
        BY <1>4, <2>1, <2>3, <3>1, AuthFacts, FailsInv DEF TimesOut
    <2> QED
      BY <2>1, <2>2, <2>3
  <1> QED
    BY <1>1, <1>2, <1>3, <1>4

\* The key id.
LEMMA SendKeyIdInv ==
    ASSUME IInv, SendKeyId
    PROVE  IInv'
  <1>1. step = "key_id" /\ step \in AfterHandshake
    BY DEF SendKeyId, AfterHandshake
  <1>2. /\ result = "none" /\ sock = "connected" /\ read_timeout = auth_timeout
        /\ b \in Builders /\ configure_tls(b, TRUE).res = "Ok" /\ scheme = "Ecdsa"
        /\ InTls => got = HsLen /\ Heard("finished")
    BY <1>1, AuthFacts
  <1>3. ~Heard("key_id")
    BY <1>1 DEF IInv, SentInv
  <1>4. server.asked = FALSE
    BY <1>3 DEF IInv, BytesInv, TypeInv
  <1>5. sent \in Seq(Msgs) /\ Len(sent) \in Nat
    BY LenProperties DEF IInv, TypeInv
  <1> DEFINE m == [what |-> "key_id", over |-> <<>>, tls |-> InTls]
  <1>6. m \in Msgs /\ m.what = "key_id" /\ m.tls = InTls
    <2>1. InTls \in BOOLEAN
      BY DEF InTls, tls_enabled
    <2> QED
      BY <2>1, EmptySeq DEF Msgs
  <1>7. sent' = Append(sent, m)
    BY DEF SendKeyId, Says
  <1> HIDE DEF m
  <1>8. /\ sent' \in Seq(Msgs) /\ Len(sent') = Len(sent) + 1
        /\ \A i \in 1..Len(sent) : sent'[i] = sent[i]
        /\ sent'[Len(sent) + 1] = m
        /\ \A what : Heard(what)' <=> Heard(what) \/ what = "key_id"
    BY <1>5, <1>6, <1>7, Saying
  <1>9. /\ step' = "challenge" /\ result' = "none" /\ InTls' = InTls /\ scheme' = scheme
        /\ UNCHANGED <<b, timer, elapsed, wire, server, sock, read_timeout, got, buf>>
    BY <1>2 DEF SendKeyId, Goes, Elsewhere, InTls, scheme
  <1>10. TypeInv'
    BY <1>8, <1>9 DEF IInv, TypeInv, Steps
  <1>11. StepInv'
    BY <1>2, <1>8, <1>9, SameTimeout DEF StepInv, AfterConfigure, AfterHandshake
  <1>12. SentInv'
    <2>1. \A i \in 1..Len(sent') : sent'[i].what = "key_id" => sent'[i].tls = InTls
      <3>1. \A i \in 1..Len(sent) : sent[i].what # "key_id"
        BY <1>3 DEF Heard
      <3> QED
        BY <1>5, <1>6, <1>8, <3>1
    <2>2. Heard("hello")' => InTls
      BY <1>8 DEF IInv, SentInv
    <2> QED
      BY <1>2, <1>9, <2>1, <2>2 DEF SentInv
  <1>13. BytesInv'
    BY <1>4, <1>8, <1>9 DEF IInv, BytesInv
  <1>14. TimeInv' /\ WaitBounded'
    BY <1>1, <1>9, SameTimeout DEF IInv, TimeInv, WaitBounded
  <1>15. AllOrNothing' /\ SignsTheChallenge'
    BY <1>2, <1>9 DEF AllOrNothing, SignsTheChallenge
  <1>16. KeysGuarded'
    <2>1. Guarded'
      BY <1>2, <1>5, <1>6, <1>7, <1>9, GuardedSaying DEF IInv
    <2> QED
      BY <1>9, <2>1 DEF KeysGuarded, Guarded
  <1> QED
    BY <1>10, <1>11, <1>12, <1>13, <1>14, <1>15, <1>16 DEF IInv

\* An alert is no line.
LEMMA AlertIsNoLine ==
    ASSUME NEW S, NEW s \in Seq(S), NEW u \in Seq(S), s \o u = <<"alert">>
    PROVE  LineEnd(s) = 0
  <1> DEFINE a == s \o u
  <1>1. /\ Len(a) = Len(s) + Len(u)
        /\ \A i \in 1..Len(s) : a[i] = s[i]
    BY FirstBytes, Zenon
  <1>2. a = <<"alert">>
    OBVIOUS
  <1> HIDE DEF a
  <1>3. Len(s) \in Nat /\ Len(u) \in Nat
    BY LenProperties
  <1>4. Len(a) = 1 /\ a[1] = "alert"
    BY <1>2
  <1>5. \A i \in 1..Len(s) : s[i] # "nl"
    BY <1>1, <1>3, <1>4
  <1>6. "nl" \notin ToSet(s)
    BY <1>5 DEF ToSet
  <1> QED
    BY <1>6, Zenon DEF LineEnd

\* n bytes of w are read on top of x, and t comes after w.
ReadsOn(S, x, w, t, n) ==
    LET s == x \o SubSeq(w, 1, n)
        q == SubSeq(w, n + 1, Len(w))
    IN  /\ s \in Seq(S) /\ Len(s) = Len(x) + n /\ q \in Seq(S)
        /\ q \o t \in Seq(S) /\ s \o (q \o t) = (x \o w) \o t
        /\ (s \o q) \o t = (x \o w) \o t

\* What a read adds to what was read before, and what it leaves.
LEMMA ReadBytes ==
    ASSUME NEW S, NEW x \in Seq(S), NEW w \in Seq(S), NEW t \in Seq(S), NEW n \in 1..Len(w)
    PROVE  ReadsOn(S, x, w, t, n)
  <1> DEFINE p == SubSeq(w, 1, n)
             q == SubSeq(w, n + 1, Len(w))
             s == x \o p
  <1>1. p \in Seq(S) /\ q \in Seq(S)
    BY Divides
  <1>2. Len(p) = n /\ p \o q = w
    BY Divides
  <1> HIDE DEF p, q
  <1>3. Len(s) = Len(x) + Len(p)
    BY <1>1, ConcatProperties
  <1>4. (s \o q) \o t = (x \o (p \o q)) \o t
    BY <1>1
  <1>5. s \in Seq(S) /\ q \o t \in Seq(S)
    BY <1>1, ConcatProperties
  <1> HIDE DEF s
  <1>6. (s \o q) \o t = s \o (q \o t)
    BY <1>1, <1>5
  <1>7. (s \o q) \o t = (x \o w) \o t
    BY <1>2, <1>4, Zenon
  <1>8. s \o (q \o t) = (x \o w) \o t
    BY <1>6, <1>7, Zenon
  <1>9. Len(s) = Len(x) + n
    BY <1>2, <1>3, Zenon
  <1> QED
    BY <1>1, <1>5, <1>7, <1>8, <1>9, Zenon DEF ReadsOn, p, q, s

\* One read of read_challenge: the line is whole, or goes on where the read
\* ended.
LEMMA ReadChallengeBytes ==
    ASSUME IInv, step = "challenge", NEW n \in 1..Len(wire)
    PROVE  LET s == buf \o SubSeq(wire, 1, n)
               q == SubSeq(wire, n + 1, Len(wire))
           IN  /\ server.asked /\ s \in Seq(Bytes) /\ q \in Seq(Bytes)
               /\ Len(s) = Len(buf) + n
               /\ (s \o q) \o server.todo = (buf \o wire) \o server.todo
               /\ LineEnd(s) > 0 => /\ SubSeq(s, 1, LineEnd(s) - 1) = server.challenge
                                    /\ InTls = (server.mode = "tls")
  <1> DEFINE s == buf \o SubSeq(wire, 1, n)
             q == SubSeq(wire, n + 1, Len(wire))
             t == server.todo
             c == server.challenge
             u == q \o t
  <1>1. /\ wire \in Seq(Bytes) /\ buf \in Seq(Bytes) /\ t \in Seq(Bytes) /\ c \in Challenges
        /\ Len(wire) \in Nat /\ Len(buf) \in Nat
    BY LenProperties DEF IInv, TypeInv
  <1>2. step \in AfterHandshake
    BY DEF AfterHandshake
  <1>3. server.asked
    <2>1. wire # <<>>
      <3>1. Len(wire) # 0
        BY <1>1
      <3> QED
        BY <3>1, EmptySeq
    <2> QED
      BY <1>2, <2>1, NothingBeforeTheLine
  <1>4. /\ s \in Seq(Bytes) /\ Len(s) = Len(buf) + n /\ q \in Seq(Bytes)
        /\ u \in Seq(Bytes) /\ s \o u = (buf \o wire) \o t
        /\ (s \o q) \o t = (buf \o wire) \o t
    <2>1. buf \in Seq(Bytes) /\ wire \in Seq(Bytes) /\ t \in Seq(Bytes)
      BY <1>1
    <2> HIDE DEF t
    <2>2. ReadsOn(Bytes, buf, wire, t, n)
      BY <2>1, ReadBytes
    <2> QED
      BY <2>2, Zenon DEF ReadsOn
  <1> HIDE DEF s, q, t, c, u
  <1>5. s \o u = IF InTls = (server.mode = "tls") THEN Append(c, "nl") ELSE <<"alert">>
    <2>1. (buf \o wire) \o t = IF InTls = (server.mode = "tls") THEN Append(c, "nl")
                                                               ELSE <<"alert">>
      BY <1>3, Zenon DEF IInv, BytesInv, t, c
    <2> QED
      BY <1>4, <2>1, Zenon
  <1>6. CASE InTls = (server.mode = "tls")
    <2>1. s \o u = Append(c, "nl")
      BY <1>5, <1>6, Zenon
    <2>2. c \in Seq(Bytes) /\ "nl" \notin ToSet(c) /\ "nl" \in Bytes
      BY <1>1, ChallengeBytes DEF Bytes
    <2>3. LineEnd(s) > 0 => SubSeq(s, 1, LineEnd(s) - 1) = c
      BY <1>4, <2>1, <2>2, LineEnds, Zenon
    <2> QED
      BY <1>3, <1>4, <1>6, <2>3, Zenon DEF s, q, t, c
  <1>7. CASE InTls # (server.mode = "tls")
    <2>1. s \o u = <<"alert">>
      BY <1>5, <1>7, Zenon
    <2>2. LineEnd(s) = 0
      BY <1>4, <2>1, AlertIsNoLine, Zenon
    <2>3. ~(LineEnd(s) > 0)
      BY <2>2
    <2> QED
      BY <1>3, <1>4, <2>3, Zenon DEF s, q, t, c
  <1> QED
    BY <1>6, <1>7

\* read_challenge.
LEMMA ReadChallengeInv ==
    ASSUME IInv, ReadChallenge
    PROVE  IInv'
  <1>1. /\ step = "challenge" /\ step \in AfterHandshake
        /\ UNCHANGED <<sock, read_timeout, got, sent>>
    BY DEF ReadChallenge, AfterHandshake
  <1>2. /\ result = "none" /\ sock = "connected" /\ read_timeout = auth_timeout
        /\ configure_tls(b, TRUE).res = "Ok" /\ scheme = "Ecdsa"
        /\ InTls => got = HsLen /\ Heard("finished")
    BY <1>1, AuthFacts
  <1>3. PICK n \in 1..Len(wire) :
          LET s == buf \o SubSeq(wire, 1, n) IN
          /\ IF LineEnd(s) > 0 THEN buf' = SubSeq(s, 1, LineEnd(s) - 1) /\ Goes("signature")
                               ELSE buf' = s /\ Goes("challenge")
          /\ Takes(n)
    BY Zenon DEF ReadChallenge
  <1> DEFINE s == buf \o SubSeq(wire, 1, n)
             q == SubSeq(wire, n + 1, Len(wire))
  <1>4. /\ server.asked /\ s \in Seq(Bytes) /\ q \in Seq(Bytes)
        /\ Len(s) = Len(buf) + n
        /\ (s \o q) \o server.todo = (buf \o wire) \o server.todo
        /\ LineEnd(s) > 0 => /\ SubSeq(s, 1, LineEnd(s) - 1) = server.challenge
                             /\ InTls = (server.mode = "tls")
    BY <1>1, ReadChallengeBytes, Zenon
  <1>5. /\ IF LineEnd(s) > 0 THEN buf' = SubSeq(s, 1, LineEnd(s) - 1) /\ Goes("signature")
                             ELSE buf' = s /\ Goes("challenge")
        /\ wire' = q /\ timer' = 0 /\ UNCHANGED <<b, elapsed, server>>
    BY <1>3, Zenon DEF Takes
  <1> HIDE DEF s, q
  <1>6. /\ InTls' = InTls /\ scheme' = scheme /\ \A what : Heard(what)' <=> Heard(what)
    BY <1>1, <1>5 DEF InTls, scheme, Heard
  <1>7. /\ auth_timeout \in Nat /\ Len(buf) \in Nat /\ got \in Nat /\ elapsed \in Nat
        /\ timer \in Nat /\ Len(wire) \in Nat /\ auth_timeout' = auth_timeout
    BY <1>5, TimeoutNat, SameTimeout, LenProperties DEF IInv, TypeInv
  <1>8. server.challenge \in Seq(Bytes)
    BY ChallengeBytes DEF IInv, TypeInv
  <1>9. \/ step' = "signature" /\ buf' = server.challenge /\ InTls = (server.mode = "tls")
        \/ step' = "challenge" /\ buf' = s
    BY <1>4, <1>5, Zenon DEF Goes
  <1>10. result' = "none"
    BY <1>2, <1>5, Zenon DEF Goes
  <1>11. TypeInv'
    <2>1. buf' \in Seq(Bytes) /\ wire' \in Seq(Bytes) /\ step' \in Steps
      BY <1>4, <1>5, <1>8, <1>9, Zenon DEF Steps
    <2> QED
      BY <1>1, <1>5, <2>1 DEF IInv, TypeInv
  <1>12. StepInv'
    <2>1. Heard("key_id")
      BY <1>1 DEF IInv, StepInv
    <2> QED
      BY <1>1, <1>2, <1>5, <1>6, <1>9, <1>10, <2>1, SameTimeout DEF StepInv, AfterConfigure, AfterHandshake
  <1>13. SentInv'
    BY <1>1, <1>6, <1>9 DEF IInv, SentInv
  <1>14. BytesInv'
    <2>1. step' = "challenge" =>
            (buf' \o wire') \o server.todo = IF InTls = (server.mode = "tls")
                                               THEN Append(server.challenge, "nl")
                                               ELSE <<"alert">>
      <3>1. (buf \o wire) \o server.todo = IF InTls = (server.mode = "tls")
                                             THEN Append(server.challenge, "nl")
                                             ELSE <<"alert">>
        BY <1>1, <1>4, Zenon DEF IInv, BytesInv
      <3>2. step' = "challenge" => buf' = s
        BY <1>9
      <3> QED
        BY <1>4, <1>5, <3>1, <3>2, Zenon
    <2>2. server' = server
      BY <1>5
    <2>3. step' = "signature" => /\ server.asked /\ buf' = server.challenge
                                 /\ InTls = (server.mode = "tls")
      BY <1>4, <1>9
    <2>4. /\ got' + server.hs <= HsLen
          /\ server.hs < HsLen => Heard("hello")'
          /\ Heard("key_id")'
      BY <1>1, <1>6 DEF IInv, BytesInv, StepInv
    <2> QED
      BY <1>4, <1>6, <2>1, <2>2, <2>3, <2>4, Zenon DEF BytesInv
  <1>15. TimeInv'
    <2>1. timer' <= auth_timeout
      BY <1>5, <1>7
    <2>2. ASSUME step' = "challenge", auth_timeout > 0
          PROVE  elapsed' <= auth_timeout * (got' + Len(buf')) + timer'
      <3>1. elapsed <= auth_timeout * (got + Len(buf)) + timer /\ timer <= auth_timeout
        BY <1>1, <2>2 DEF IInv, TimeInv
      <3>2. got + Len(buf) \in Nat /\ n \in Nat /\ n >= 1
        BY <1>7
      <3>3. elapsed <= auth_timeout * ((got + Len(buf)) + n)
        BY <1>7, <3>1, <3>2, Waited
      <3>4. got' = got /\ Len(buf') = Len(buf) + n
        BY <1>1, <1>4, <1>9, <2>2
      <3>5. got' + Len(buf') = (got + Len(buf)) + n /\ got' + Len(buf') \in Nat
        BY <1>7, <3>2, <3>4
      <3> DEFINE k == auth_timeout * (got' + Len(buf'))
      <3>6. k \in Nat /\ elapsed <= k
        BY <1>7, <3>3, <3>5, TimesNat, Zenon
      <3> HIDE DEF k
      <3>7. elapsed' <= k + timer'
        BY <1>5, <1>7, <3>6
      <3> QED
        BY <3>7 DEF k
    <2> QED
      BY <1>7, <1>9, <2>1, <2>2 DEF TimeInv
  <1>16. WaitBounded'
    BY <1>5, <1>7 DEF IInv, WaitBounded
  <1>17. AllOrNothing' /\ SignsTheChallenge'
    BY <1>1, <1>2, <1>10 DEF AllOrNothing, SignsTheChallenge
  <1>18. KeysGuarded'
    BY <1>1, <1>6, <1>10 DEF IInv, KeysGuarded
  <1> QED
    BY <1>11, <1>12, <1>13, <1>14, <1>15, <1>16, <1>17, <1>18 DEF IInv

\* Sign and send.
LEMMA SendSignatureInv ==
    ASSUME IInv, SendSignature
    PROVE  IInv'
  <1>1. step = "signature" /\ step \in AfterHandshake /\ Elsewhere
    BY DEF SendSignature, AfterHandshake
  <1>2. /\ result = "none" /\ sock = "connected" /\ read_timeout = auth_timeout
        /\ b \in Builders /\ configure_tls(b, TRUE).res = "Ok" /\ scheme = "Ecdsa"
        /\ InTls => got = HsLen /\ Heard("finished")
        /\ Outcome(b, "AuthError")
    BY <1>1, AuthFacts
  <1>3. /\ server.asked /\ buf = server.challenge /\ InTls = (server.mode = "tls")
        /\ Heard("key_id")
    BY <1>1 DEF IInv, BytesInv, StepInv
  <1>4. CASE Fails("AuthError")
    BY <1>1, <1>2, <1>3, <1>4, FailsInv
  <1>5. CASE /\ sent' = Says("signature", buf, InTls) /\ Returns("end")
             /\ UNCHANGED <<sock, read_timeout, got, buf>>
    <2>1. sent \in Seq(Msgs) /\ Len(sent) \in Nat /\ buf \in Seq(Bytes)
      BY LenProperties DEF IInv, TypeInv
    <2> DEFINE m == [what |-> "signature", over |-> buf, tls |-> InTls]
    <2>2. m \in Msgs /\ m.what = "signature" /\ m.tls = InTls /\ m.over = buf
      <3>1. InTls \in BOOLEAN
        BY DEF InTls, tls_enabled
      <3> QED
        BY <2>1, <3>1 DEF Msgs
    <2>3. sent' = Append(sent, m)
      BY <1>5 DEF Says
    <2> HIDE DEF m
    <2>4. /\ sent' \in Seq(Msgs) /\ Len(sent') = Len(sent) + 1
          /\ \A i \in 1..Len(sent) : sent'[i] = sent[i]
          /\ sent'[Len(sent) + 1] = m
          /\ \A what : Heard(what)' <=> Heard(what) \/ what = "signature"
      BY <2>1, <2>2, <2>3, Saying
    <2>5. /\ step' = "end" /\ result' = "Ok" /\ InTls' = InTls /\ scheme' = scheme
          /\ UNCHANGED <<b, timer, elapsed, wire, server, sock, read_timeout, got, buf>>
      BY <1>1, <1>5 DEF Returns, Elsewhere, InTls, scheme
    <2>6. TypeInv'
      BY <2>4, <2>5 DEF IInv, TypeInv, Steps
    <2>7. SentInv'
      <3>1. \A i \in 1..Len(sent') : sent'[i].what = "key_id" => sent'[i].tls = InTls
        <4>1. \A i \in 1..Len(sent) : sent[i].what = "key_id" => sent[i].tls = InTls
          BY DEF IInv, SentInv
        <4> QED
          BY <2>1, <2>2, <2>4, <4>1
      <3>2. Heard("hello")' => InTls
        BY <2>4 DEF IInv, SentInv
      <3> QED
        BY <1>2, <2>5, <3>1, <3>2 DEF SentInv
    <2>8. BytesInv'
      BY <1>3, <2>4, <2>5 DEF IInv, BytesInv
    <2>9. WaitBounded' /\ (auth_timeout > 0 => timer' <= auth_timeout)
      BY <2>5, SameTimeout DEF IInv, TimeInv, WaitBounded
    <2>10. KeysGuarded'
      <3>1. Guarded'
        BY <1>2, <2>1, <2>2, <2>3, <2>5, GuardedSaying DEF IInv
      <3> QED
        BY <2>5, <3>1 DEF KeysGuarded, Guarded
    <2>11. SignsTheChallenge'
      <3>1. Last(sent') = m
        BY <2>4, Zenon DEF Last
      <3> QED
        BY <1>3, <2>2, <2>5, <3>1 DEF SignsTheChallenge
    <2> QED
      BY <1>2, <1>3, <2>4, <2>5, <2>6, <2>7, <2>8, <2>9, <2>10, <2>11, EndsInv
  <1> QED
    BY <1>4, <1>5 DEF SendSignature

-----------------------------------------------------------------------------
(***************************************************************************)
(* Time and the server.                                                    *)
(***************************************************************************)
\* While the client reads, what it has read is no more than the handshake,
\* the line and an alert.
LEMMA ReadSoFar ==
    ASSUME IInv, step \in {"handshake", "challenge"}
    PROVE  got + Len(buf) <= HsLen + Len(server.challenge) + 1
  <1> DEFINE t == server.todo
             c == server.challenge
  <1>1. /\ wire \in Seq(Bytes) /\ buf \in Seq(Bytes) /\ t \in Seq(Bytes) /\ c \in Challenges
        /\ got \in Nat /\ server.hs \in Nat /\ HsLen \in Nat
    BY BoundsAssumption DEF IInv, TypeInv
  <1>2. c \in Seq(Bytes) /\ "nl" \in Bytes
    BY <1>1, ChallengeBytes DEF Bytes
  <1>3. Len(wire) \in Nat /\ Len(buf) \in Nat /\ Len(t) \in Nat /\ Len(c) \in Nat
    BY <1>1, <1>2, LenProperties
  <1>4. got <= HsLen
    BY <1>1 DEF IInv, BytesInv
  <1>5. CASE ~server.asked
    <2>1. Len(buf) = 0
      BY <1>5 DEF IInv, BytesInv
    <2> QED
      BY <1>1, <1>3, <1>4, <2>1
  <1>6. CASE server.asked
    <2>1. step = "challenge"
      <3>1. step = "handshake" => ~server.asked
        BY HandshakeFacts
      <3> QED
        BY <1>6, <3>1
    <2> DEFINE a == (buf \o wire) \o t
    <2>2. a = IF InTls = (server.mode = "tls") THEN Append(c, "nl") ELSE <<"alert">>
      BY <1>6, <2>1, Zenon DEF IInv, BytesInv
    <2> HIDE DEF t, c
    <2>3. Len(a) = Len(buf) + Len(wire) + Len(t)
      BY <1>1
    <2>4. Len(Append(c, "nl")) = Len(c) + 1 /\ Len(<<"alert">>) = 1
      BY <1>2, AppendProperties
    <2> HIDE DEF a
    <2>5. Len(a) = Len(c) + 1 \/ Len(a) = 1
      BY <2>2, <2>4, Zenon
    <2>6. Len(buf) <= Len(c) + 1
      BY <1>3, <2>3, <2>5
    <2> QED
      BY <1>1, <1>3, <1>4, <2>6 DEF c
  <1> QED
    BY <1>5, <1>6

\* Time passes.
LEMMA TickInv ==
    ASSUME IInv, Tick
    PROVE  IInv'
  <1>0. step \in {"handshake", "challenge"} /\ read_timeout = auth_timeout
    BY DEF Tick, Waiting, Reading, IInv, StepInv, AfterConfigure
  <1>1. /\ step \in {"handshake", "challenge"} /\ (auth_timeout > 0 => timer < auth_timeout)
        /\ timer' = timer + 1 /\ elapsed' = elapsed + 1 /\ auth_timeout' = auth_timeout
        /\ UNCHANGED <<b, step, result, sock, read_timeout, got, buf, sent, wire, server>>
    BY <1>0, SameTimeout DEF Tick, client
  <1>2. /\ auth_timeout \in Nat /\ HsLen \in Nat /\ got \in Nat /\ timer \in Nat
        /\ elapsed \in Nat /\ Len(buf) \in Nat
    BY BoundsAssumption, TimeoutNat, LenProperties DEF IInv, TypeInv
  <1>3. Len(server.challenge) \in Nat
    BY ChallengeBytes, LenProperties DEF IInv, TypeInv
  <1>4. TypeInv'
    BY <1>1, <1>2 DEF IInv, TypeInv
  <1>5. StepInv' /\ SentInv'
    BY <1>1 DEF IInv, StepInv, SentInv, AfterConfigure, AfterHandshake, InTls, scheme, Heard
  <1>6. BytesInv'
    BY <1>1 DEF IInv, BytesInv, InTls, Heard
  <1> DEFINE x == got + Len(buf)
             y == HsLen + Len(server.challenge) + 2
             k == auth_timeout * x
             l == auth_timeout * y
  <1>7. auth_timeout > 0 => elapsed <= k + timer
    BY <1>1 DEF IInv, TimeInv
  <1>8. k \in Nat
    BY <1>2, TimesNat
  <1>9. TimeInv'
    <2> SUFFICES ASSUME auth_timeout > 0
                 PROVE  /\ timer' <= auth_timeout
                        /\ elapsed' <= auth_timeout * (got' + Len(buf')) + timer'
      BY <1>1 DEF TimeInv
    <2>1. elapsed + 1 <= k + (timer + 1) /\ timer + 1 <= auth_timeout
      <3> HIDE DEF k
      <3> QED
        BY <1>1, <1>2, <1>7, <1>8
    <2> QED
      BY <1>1, <2>1, Zenon
  <1>10. WaitBounded'
    <2> SUFFICES ASSUME auth_timeout > 0 PROVE elapsed + 1 <= l
      BY <1>1, Zenon DEF WaitBounded, l, y
    <2>1. x \in Nat /\ y \in Nat /\ y >= x + 1
      BY <1>1, <1>2, <1>3, ReadSoFar
    <2>2. elapsed + 1 <= k + (timer + 1) /\ timer + 1 <= auth_timeout /\ timer + 1 \in Nat
          /\ elapsed + 1 \in Nat
      <3> HIDE DEF k
      <3> QED
        BY <1>1, <1>2, <1>7, <1>8
    <2> HIDE DEF x, y
    <2>3. y - x \in Nat /\ y - x >= 1 /\ x + (y - x) = y
      BY <2>1
    <2>4. elapsed + 1 <= auth_timeout * (x + (y - x))
      BY <1>2, <2>1, <2>2, <2>3, Waited
    <2> QED
      BY <2>3, <2>4, Zenon
  <1>11. AllOrNothing' /\ KeysGuarded' /\ SignsTheChallenge'
    BY <1>1 DEF IInv, AllOrNothing, KeysGuarded, SignsTheChallenge, InTls, scheme, Heard
  <1> QED
    BY <1>4, <1>5, <1>6, <1>9, <1>10, <1>11 DEF IInv

\* What the server does changes nothing but where its bytes are.
LEMMA ServerStepInv ==
    ASSUME IInv, result = "none", UNCHANGED <<b, client, timer, elapsed>>,
           TypeInv', BytesInv', server'.challenge = server.challenge
    PROVE  IInv'
  <1>1. UNCHANGED <<b, step, result, sock, read_timeout, got, buf, sent, timer, elapsed>>
    BY DEF client
  <1>2. StepInv' /\ SentInv'
    BY <1>1, SameTimeout DEF IInv, StepInv, SentInv, AfterConfigure, AfterHandshake, InTls, scheme, Heard
  <1>3. TimeInv' /\ WaitBounded'
    BY <1>1, SameTimeout DEF IInv, TimeInv, WaitBounded
  <1>4. AllOrNothing' /\ SignsTheChallenge'
    BY <1>1 DEF IInv, AllOrNothing, SignsTheChallenge
  <1>5. KeysGuarded'
    BY <1>1 DEF IInv, KeysGuarded, InTls, Heard
  <1> QED
    BY <1>2, <1>3, <1>4, <1>5 DEF IInv

\* The key id that the server can read is the one of a client with its mode.
LEMMA KeyIdMode ==
    ASSUME IInv, result = "none", NEW tls \in BOOLEAN, KeyIdReadable(tls)
    PROVE  /\ Heard("key_id") /\ InTls = tls
           /\ step \in {"challenge", "signature"} /\ step \in AfterHandshake
  <1>1. PICK i \in 1..Len(sent) : sent[i].what = "key_id" /\ sent[i].tls = tls
    BY DEF KeyIdReadable
  <1>2. Heard("key_id") /\ InTls = tls
    BY <1>1 DEF Heard, IInv, SentInv
  <1>3. step \in {"challenge", "signature"}
    BY <1>2 DEF IInv, SentInv, StepInv
  <1> QED
    BY <1>2, <1>3 DEF AfterHandshake

\* The server asks, or sends an alert, on an empty wire.
LEMMA AskingInv ==
    ASSUME IInv, result = "none", UNCHANGED <<b, client, timer, elapsed, wire>>,
           server.asked = FALSE, Heard("key_id"), step \in AfterHandshake,
           step \in {"challenge", "signature"},
           NEW line \in Seq(Bytes),
           line = IF InTls = (server.mode = "tls") THEN Append(server.challenge, "nl")
                                                   ELSE <<"alert">>,
           NEW todo, todo = server.todo \o line,
           server' = [server EXCEPT !.asked = TRUE, !.todo = todo]
    PROVE  IInv'
  <1>1. wire = <<>> /\ server.todo = <<>> /\ buf = <<>>
    BY NothingBeforeTheLine
  <1>2. todo = line
    <2>1. \A x \in Seq(Bytes) : <<>> \o x = x
      BY ConcatEmptySeq
    <2> QED
      BY <1>1, <2>1, Zenon
  <1>3. /\ server'.asked = TRUE /\ server'.todo = todo /\ server'.mode = server.mode
        /\ server'.challenge = server.challenge /\ server'.hs = server.hs
        /\ server'.closed = server.closed
        /\ server' \in [ mode : {"plain", "tls"}, challenge : Challenges, hs : Nat,
                         todo : Seq(Bytes), asked : BOOLEAN, closed : BOOLEAN ]
    BY <1>2 DEF IInv, TypeInv
  <1>4. UNCHANGED <<b, step, result, sock, read_timeout, got, buf, sent, timer, elapsed, wire>>
    BY DEF client
  <1>5. InTls' = InTls /\ \A what : Heard(what)' <=> Heard(what)
    BY <1>4 DEF InTls, Heard
  <1>6. TypeInv'
    BY <1>3, <1>4 DEF IInv, TypeInv
  <1>7. step # "signature"
    BY DEF IInv, BytesInv
  <1>8. (buf' \o wire') \o server'.todo = line
    <2>1. (<<>> \o <<>>) \o line = line
      <3>1. \A x \in Seq(Bytes) : (<<>> \o <<>>) \o x = x
        OBVIOUS
      <3> QED
        BY <3>1, Zenon
    <2>2. buf' = <<>> /\ wire' = <<>> /\ server'.todo = line
      BY <1>1, <1>2, <1>3, <1>4, Zenon
    <2> QED
      BY <2>1, <2>2, Zenon
  <1>9. got' + server'.hs <= HsLen /\ (server'.hs < HsLen => Heard("hello")')
    BY <1>3, <1>4, <1>5 DEF IInv, BytesInv
  <1>10. BytesInv'
    BY <1>3, <1>4, <1>5, <1>7, <1>8, <1>9, Zenon DEF BytesInv
  <1> QED
    BY <1>3, <1>6, <1>10, ServerStepInv

\* The server answers a hello or a key id.
LEMMA ServerAnswersInv ==
    ASSUME IInv, ServerAnswers
    PROVE  IInv'
  <1>1. result = "none" /\ UNCHANGED <<b, client, timer, elapsed, wire>>
    BY DEF ServerAnswers, Serving
  <1>2. /\ server \in [ mode : {"plain", "tls"}, challenge : Challenges, hs : Nat,
                        todo : Seq(Bytes), asked : BOOLEAN, closed : BOOLEAN ]
        /\ "hs" \in Bytes /\ got \in Nat /\ HsLen \in Nat /\ wire \in Seq(Bytes)
    BY BoundsAssumption DEF IInv, TypeInv, Bytes
  <1>3. CASE /\ server.hs > 0 /\ Heard("hello")
             /\ server' = [server EXCEPT !.hs = @ - 1, !.todo = Append(@, "hs")]
    <2>1. /\ server'.hs = server.hs - 1 /\ server'.todo = Append(server.todo, "hs")
          /\ server'.mode = server.mode /\ server'.challenge = server.challenge
          /\ server'.asked = server.asked /\ server'.closed = server.closed
      BY <1>2, <1>3
    <2>2. /\ Append(server.todo, "hs") \in Seq(Bytes)
          /\ Len(Append(server.todo, "hs")) = Len(server.todo) + 1
          /\ Len(server.todo) \in Nat /\ Len(wire) \in Nat
      BY <1>2, AppendProperties, LenProperties
    <2>3. server' \in [ mode : {"plain", "tls"}, challenge : Challenges, hs : Nat,
                        todo : Seq(Bytes), asked : BOOLEAN, closed : BOOLEAN ]
      <3> DEFINE h == server.hs - 1
                 t == Append(server.todo, "hs")
      <3>1. h \in Nat /\ t \in Seq(Bytes)
        BY <1>2, <1>3, <2>2
      <3>2. server' = [server EXCEPT !.hs = h, !.todo = t]
        BY <1>3
      <3> HIDE DEF h, t
      <3> QED
        BY <1>2, <3>1, <3>2
    <2>4. UNCHANGED <<b, step, result, sock, read_timeout, got, buf, sent, timer, elapsed, wire>>
      BY <1>1 DEF client
    <2>5. InTls' = InTls /\ \A what : Heard(what)' <=> Heard(what)
      BY <2>4 DEF InTls, Heard
    <2>6. TypeInv'
      BY <2>3, <2>4 DEF IInv, TypeInv
    <2>7. ~Heard("key_id")
      <3>1. InTls
        BY <1>3 DEF IInv, SentInv
      <3>2. Heard("key_id") => got = HsLen
        BY <3>1 DEF IInv, SentInv
      <3>3. got + server.hs <= HsLen
        BY DEF IInv, BytesInv
      <3> QED
        BY <1>2, <1>3, <3>2, <3>3
    <2>8. ~server.asked /\ step \notin {"challenge", "signature"}
      BY <2>7 DEF IInv, BytesInv, StepInv
    <2>9. /\ buf = <<>> /\ got + server.hs + Len(wire) + Len(server.todo) = HsLen
      BY <2>8 DEF IInv, BytesInv
    <2>10. /\ got' + server'.hs <= HsLen
           /\ got' + server'.hs + Len(wire') + Len(server'.todo) = HsLen
      <3>1. Len(server'.todo) = Len(server.todo) + 1
        BY <2>1, <2>2, Zenon
      <3>2. got' = got /\ Len(wire') = Len(wire) /\ server.hs \in Nat
        BY <1>2, <2>4
      <3>3. server'.hs = server.hs - 1 /\ server.hs > 0
        BY <1>3, <2>1
      <3> DEFINE w == Len(wire)
                 t == Len(server.todo)
      <3>4. w \in Nat /\ t \in Nat /\ got + server.hs + w + t = HsLen
        BY <2>2, <2>9
      <3> HIDE DEF w, t
      <3>5. got' + server'.hs <= HsLen /\ got' + server'.hs + w + (t + 1) = HsLen
        BY <1>2, <3>2, <3>3, <3>4
      <3> QED
        BY <3>1, <3>2, <3>5, Zenon DEF w, t
    <2>11. BytesInv'
      BY <1>3, <2>1, <2>4, <2>5, <2>8, <2>9, <2>10 DEF BytesInv
    <2> QED
      BY <1>1, <2>1, <2>6, <2>11, ServerStepInv
  <1>4. CASE /\ ~server.asked /\ KeyIdReadable(server.mode = "tls")
             /\ server' = [server EXCEPT !.asked = TRUE,
                                         !.todo = @ \o Append(server.challenge, "nl")]
    <2>1. (server.mode = "tls") \in BOOLEAN
      OBVIOUS
    <2>2. /\ Heard("key_id") /\ InTls = (server.mode = "tls")
          /\ step \in {"challenge", "signature"} /\ step \in AfterHandshake
      BY <1>1, <1>4, <2>1, KeyIdMode
    <2> DEFINE line == Append(server.challenge, "nl")
    <2>3. line \in Seq(Bytes)
      BY <1>2, ChallengeBytes
    <2>4. server.asked = FALSE
      BY <1>2, <1>4
    <2>5. server' = [server EXCEPT !.asked = TRUE, !.todo = server.todo \o line]
      BY <1>2, <1>4
    <2> QED
      BY <1>1, <2>2, <2>3, <2>4, <2>5, AskingInv, Zenon
  <1> QED
    BY <1>3, <1>4 DEF ServerAnswers

\* A server with TLS meets a client without.
LEMMA ServerAlertsInv ==
    ASSUME IInv, ServerAlerts
    PROVE  IInv'
  <1>1. /\ result = "none" /\ UNCHANGED <<b, client, timer, elapsed, wire>>
        /\ server.mode = "tls" /\ KeyIdReadable(FALSE) /\ ~server.asked
        /\ server' = [server EXCEPT !.asked = TRUE, !.todo = Append(@, "alert")]
    BY DEF ServerAlerts, Serving
  <1>2. /\ Heard("key_id") /\ InTls = FALSE
        /\ step \in {"challenge", "signature"} /\ step \in AfterHandshake
    BY <1>1, KeyIdMode
  <1>3. InTls # (server.mode = "tls")
    BY <1>1, <1>2
  <1> DEFINE line == <<"alert">>
             todo == server.todo \o line
  <1>4. "alert" \in Bytes /\ server.todo \in Seq(Bytes) /\ server.asked = FALSE
    BY <1>1 DEF Bytes, IInv, TypeInv
  <1>5. line \in Seq(Bytes)
    BY <1>4
  <1>6. Append(server.todo, "alert") = todo
    BY <1>4, AppendIsConcat
  <1>7. server' = [server EXCEPT !.asked = TRUE, !.todo = todo]
    <2>1. server' = [server EXCEPT !.asked = TRUE, !.todo = Append(server.todo, "alert")]
      BY <1>1 DEF IInv, TypeInv
    <2> QED
      BY <1>6, <2>1, Zenon
  <1>8. line = IF InTls = (server.mode = "tls") THEN Append(server.challenge, "nl")
                                               ELSE <<"alert">>
    BY <1>3, Zenon
  <1> QED
    BY <1>1, <1>2, <1>4, <1>5, <1>7, <1>8, AskingInv, Zenon

\* Bytes arrive.
LEMMA ArrivesInv ==
    ASSUME IInv, Arrives
    PROVE  IInv'
  <1>1. result = "none" /\ UNCHANGED <<b, client, timer, elapsed>>
    BY DEF Arrives, Serving
  <1>2. PICK n \in 1..Len(server.todo) :
          /\ wire' = wire \o SubSeq(server.todo, 1, n)
          /\ server' = [server EXCEPT !.todo = SubSeq(@, n + 1, Len(@))]
    BY DEF Arrives
  <1>3. /\ server \in [ mode : {"plain", "tls"}, challenge : Challenges, hs : Nat,
                        todo : Seq(Bytes), asked : BOOLEAN, closed : BOOLEAN ]
        /\ wire \in Seq(Bytes) /\ buf \in Seq(Bytes) /\ server.todo \in Seq(Bytes)
    BY DEF IInv, TypeInv
  <1> DEFINE t == server.todo
             p == SubSeq(t, 1, n)
             q == SubSeq(t, n + 1, Len(t))
  <1>4. /\ p \in Seq(Bytes) /\ Len(p) = n /\ q \in Seq(Bytes) /\ Len(q) = Len(t) - n
        /\ p \o q = t
    BY <1>3, Divides
  <1>5. server' = [server EXCEPT !.todo = q] /\ wire' = wire \o p
    BY <1>2, <1>3
  <1>6. Len(t) \in Nat /\ Len(wire) \in Nat /\ Len(buf) \in Nat /\ n \in Nat
    BY <1>3, LenProperties
  <1> HIDE DEF p, q
  <1>7. /\ server'.todo = q /\ server'.hs = server.hs
        /\ server'.mode = server.mode /\ server'.challenge = server.challenge
        /\ server'.asked = server.asked /\ server'.closed = server.closed
    BY <1>3, <1>5
  <1>8. server' \in [ mode : {"plain", "tls"}, challenge : Challenges, hs : Nat,
                      todo : Seq(Bytes), asked : BOOLEAN, closed : BOOLEAN ]
    BY <1>3, <1>4, <1>5
  <1>9. UNCHANGED <<b, step, result, sock, read_timeout, got, buf, sent, timer, elapsed>>
    BY <1>1 DEF client
  <1>10. InTls' = InTls /\ \A what : Heard(what)' <=> Heard(what)
    BY <1>9 DEF InTls, Heard
  <1>11. wire' \in Seq(Bytes) /\ Len(wire') = Len(wire) + Len(p)
    <2>1. p \in Seq(Bytes)
      BY <1>4
    <2>2. wire \o p \in Seq(Bytes) /\ Len(wire \o p) = Len(wire) + Len(p)
      BY <1>3, <2>1, ConcatProperties
    <2> QED
      BY <1>5, <2>2, Zenon
  <1>12. TypeInv'
    BY <1>8, <1>9, <1>11 DEF IInv, TypeInv
  <1>13. (buf' \o wire') \o server'.todo = (buf \o wire) \o t
    <2>1. p \in Seq(Bytes) /\ q \in Seq(Bytes)
      BY <1>4
    <2>2. Arrived(buf, wire, p, q)
      BY <1>3, <2>1, ArrivalKeeps
    <2>3. (buf \o (wire \o p)) \o q = (buf \o wire) \o (p \o q)
      BY <2>2, Zenon DEF Arrived
    <2> QED
      BY <1>4, <1>5, <1>7, <1>9, <2>3, Zenon
  <1>14. Len(wire') + Len(server'.todo) = Len(wire) + Len(t)
    <2>1. Len(wire') = Len(wire) + n /\ Len(server'.todo) = Len(t) - n
      BY <1>4, <1>7, <1>11, Zenon
    <2>2. \A w, z \in Nat : (w + n) + (z - n) = w + z
      BY <1>6
    <2> QED
      BY <1>6, <2>1, <2>2, Zenon
  <1>15. BytesInv'
    <2>1. /\ got' + server'.hs <= HsLen
          /\ server'.hs < HsLen => Heard("hello")'
          /\ server'.asked => Heard("key_id")'
          /\ ~server'.asked => buf' = <<>>
          /\ step' = "signature" => /\ server'.asked /\ buf' = server'.challenge
                                    /\ InTls' = (server'.mode = "tls")
      BY <1>7, <1>9, <1>10 DEF IInv, BytesInv
    <2>2. ~server'.asked => got' + server'.hs + Len(wire') + Len(server'.todo) = HsLen
      <3>1. ~server.asked => got + server.hs + Len(wire) + Len(t) = HsLen
        BY DEF IInv, BytesInv
      <3>2. got \in Nat /\ server.hs \in Nat /\ Len(wire') \in Nat /\ Len(server'.todo) \in Nat
        BY <1>4, <1>7, <1>11, LenProperties DEF IInv, TypeInv
      <3> DEFINE u == Len(wire')
                 v == Len(server'.todo)
                 w == Len(wire)
                 z == Len(t)
      <3>3. u \in Nat /\ v \in Nat /\ w \in Nat /\ z \in Nat /\ u + v = w + z
        BY <1>6, <1>14, <3>2
      <3>4. ~server.asked => got + server.hs + w + z = HsLen
        BY <3>1
      <3> HIDE DEF u, v, w, z
      <3>5. ~server.asked => got + server.hs + u + v = HsLen
        <4>1. got \in Nat /\ server.hs \in Nat
          BY <3>2
        <4>2. \A g, h \in Nat : g + h + u + v = g + h + w + z
          BY <3>3
        <4> QED
          BY <3>4, <4>1, <4>2, Zenon
      <3> QED
        BY <1>7, <1>9, <3>5, Zenon DEF u, v
    <2>3. server'.asked /\ step' = "challenge" =>
            (buf' \o wire') \o server'.todo = IF InTls' = (server'.mode = "tls")
                                                THEN Append(server'.challenge, "nl")
                                                ELSE <<"alert">>
      <3>1. server.asked /\ step = "challenge" =>
              (buf \o wire) \o t = IF InTls = (server.mode = "tls")
                                     THEN Append(server.challenge, "nl")
                                     ELSE <<"alert">>
        BY Zenon DEF IInv, BytesInv
      <3> HIDE DEF t
      <3> QED
        BY <1>7, <1>9, <1>10, <1>13, <3>1, Zenon
    <2> QED
      BY <2>1, <2>2, <2>3, Zenon DEF BytesInv
  <1> QED
    BY <1>1, <1>7, <1>12, <1>15, ServerStepInv

\* The server goes away.
LEMMA ServerClosesInv ==
    ASSUME IInv, ServerCloses
    PROVE  IInv'
  <1>1. /\ result = "none" /\ UNCHANGED <<b, client, timer, elapsed, wire>>
        /\ server' = [server EXCEPT !.closed = TRUE]
    BY DEF ServerCloses, Serving
  <1>2. UNCHANGED <<b, step, result, sock, read_timeout, got, buf, sent, timer, elapsed, wire>>
    BY <1>1 DEF client
  <1>3. /\ server'.todo = server.todo /\ server'.hs = server.hs
        /\ server'.mode = server.mode /\ server'.challenge = server.challenge
        /\ server'.asked = server.asked
    BY <1>1 DEF IInv, TypeInv
  <1>4. TypeInv'
    BY <1>1, <1>2 DEF IInv, TypeInv
  <1>5. BytesInv'
    BY <1>2, <1>3 DEF IInv, BytesInv, InTls, Heard
  <1> QED
    BY <1>1, <1>3, <1>4, <1>5, ServerStepInv

-----------------------------------------------------------------------------
(***************************************************************************)
(* The theorems.                                                           *)
(***************************************************************************)
\* Every step keeps the inductive invariant.
LEMMA NextInv == IInv /\ [Next]_vars => IInv'
  <1> SUFFICES ASSUME IInv, [Next]_vars PROVE IInv'
    OBVIOUS
  <1>1. CASE Client
    BY <1>1, ConnectingInv, ConfigureTlsInv, HandshakeInv, AuthErrorsInv, SendKeyIdInv,
       ReadChallengeInv, SendSignatureInv DEF Client
  <1>2. CASE Tick
    BY <1>2, TickInv
  <1>3. CASE ServerAnswers
    BY <1>3, ServerAnswersInv
  <1>4. CASE ServerAlerts
    BY <1>4, ServerAlertsInv
  <1>5. CASE Arrives
    BY <1>5, ArrivesInv
  <1>6. CASE ServerCloses
    BY <1>6, ServerClosesInv
  <1>7. CASE UNCHANGED vars
    <2>1. UNCHANGED <<b, step, result, sock, read_timeout, got, buf, sent, timer, elapsed,
                      wire, server>>
      BY <1>7 DEF vars, client
    <2>2. InTls' = InTls /\ scheme' = scheme /\ \A what : Heard(what)' <=> Heard(what)
      BY <2>1 DEF InTls, scheme, Heard
    <2>0. auth_timeout' = auth_timeout
      BY <2>1, SameTimeout
    <2>3. TypeInv' /\ StepInv' /\ SentInv'
      BY <2>0, <2>1, <2>2 DEF IInv, TypeInv, StepInv, SentInv
    <2>4. BytesInv' /\ TimeInv' /\ WaitBounded'
      BY <2>0, <2>1, <2>2 DEF IInv, BytesInv, TimeInv, WaitBounded
    <2>5. AllOrNothing'
      BY <2>0, <2>1, <2>2 DEF IInv, AllOrNothing
    <2>6. KeysGuarded' /\ SignsTheChallenge'
      BY <2>1, <2>2 DEF IInv, KeysGuarded, SignsTheChallenge
    <2> QED
      BY <2>3, <2>4, <2>5, <2>6 DEF IInv
  <1> QED
    BY <1>1, <1>2, <1>3, <1>4, <1>5, <1>6, <1>7 DEF Next, Ended

\* The inductive invariant holds.
LEMMA TcpConnectInv == Spec => []IInv
  BY InitInv, NextInv, PTL DEF Spec

\* An error leaves neither a sender nor a socket, a sender has been through
\* every step of its builder, and the error is one that build has.
THEOREM ConnectAllOrNothing == Spec => []AllOrNothing
  <1>1. IInv => AllOrNothing
    BY DEF IInv
  <1> QED
    BY <1>1, TcpConnectInv, PTL

\* Credentials follow the handshake, and a failure of the keys writes none.
THEOREM ConnectKeysGuarded == Spec => []KeysGuarded
  <1>1. IInv => KeysGuarded
    BY DEF IInv
  <1> QED
    BY <1>1, TcpConnectInv, PTL

\* The signature is over the challenge, however its bytes arrive.
THEOREM ConnectSignsTheChallenge == Spec => []SignsTheChallenge
  <1>1. IInv => SignsTheChallenge
    BY DEF IInv
  <1> QED
    BY <1>1, TcpConnectInv, PTL

\* Unless auth_timeout is 0, it and what the server may send bound how long
\* connecting waits.
THEOREM ConnectWaitBounded == Spec => []WaitBounded
  <1>1. IInv => WaitBounded
    BY DEF IInv
  <1> QED
    BY <1>1, TcpConnectInv, PTL
=============================================================================

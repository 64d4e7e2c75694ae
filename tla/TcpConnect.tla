----------------------------- MODULE TcpConnect -----------------------------
(***************************************************************************)
(* SenderBuilder::connect_tcp and Connection::authenticate                 *)
(* (questdb-rs/src/ingress/mod.rs): from a builder to a connection over a  *)
(* socket, one action per step that may fail, against a server that may be *)
(* silent, slow, set up differently from the client, or go away.           *)
(***************************************************************************)
EXTENDS BuilderOps, SequencesExt, FiniteSetsExt

CONSTANTS
    Builders,      \* the builders that are tried, each with its auth_timeout
    HsLen,         \* pieces of the server's side of a TLS handshake
    Challenges,    \* what a server may ask to be signed
    MaxTicks       \* bound on the time that is followed where no timeout ends it

ASSUME BoundsAssumption == HsLen \in Nat \ {0} /\ MaxTicks \in Nat

\* build calls connect_tcp for these protocols, after build_auth.  Any
\* auth_timeout is accepted, also 0.
ASSUME BuildersAssumption ==
    \A x \in Builders : /\ is_tcpx(x.protocol) /\ build_auth(x).res = "Ok"
                         /\ x.auth_timeout \in Nat

\* A challenge is the text of one line.
ASSUME ChallengesAssumption ==
    \A c \in Challenges : c \in Seq(ToSet(c)) /\ "nl" \notin ToSet(c)

VARIABLES
    b,             \* the builder
    step,          \* the next step of the client
    result,        \* "none", "Ok" or the error code
    sock,          \* "none", "open", "connected", "closed"
    read_timeout,  \* the option of the socket, 0 for none
    timer,         \* how long the read under way has waited
    elapsed,       \* how long all of the reads have waited
    got,           \* pieces of the handshake that the client has read
    buf,           \* buf of read_challenge
    wire,          \* bytes from the server that are not read
    sent,          \* what the client wrote
    server         \* the server: mode, challenge, bytes to go, closed

client == <<step, result, sock, read_timeout, got, buf, sent>>
vars == <<b, client, timer, elapsed, wire, server>>

Servers ==
    [ mode : {"plain", "tls"}, challenge : Challenges, hs : {HsLen},
      todo : {<<>>}, asked : {FALSE}, closed : {FALSE} ]

Init ==
    /\ b \in Builders
    /\ step = "resolve" /\ result = "none" /\ sock = "none" /\ read_timeout = 0
    /\ timer = 0 /\ elapsed = 0 /\ got = 0 /\ buf = <<>> /\ wire = <<>> /\ sent = <<>>
    /\ server \in Servers

-----------------------------------------------------------------------------
(***************************************************************************)
(* The client.                                                             *)
(***************************************************************************)
scheme == build_auth(b).scheme

auth_timeout == b.auth_timeout

InTls == tls_enabled(b.protocol)

\* Mutant: the socket outlives an error.
Fails_leaks(code) ==
    /\ result' = code /\ step' = "end"
    /\ UNCHANGED <<sock, read_timeout, got, buf, sent>>

\* `?`: the error is returned and the socket dropped, if there is one.
Fails(code) ==
    /\ result' = code /\ step' = "end"
    /\ sock' = IF sock = "none" THEN sock ELSE "closed"
    /\ UNCHANGED <<read_timeout, got, buf, sent>>

Goes(next) == step' = next /\ UNCHANGED result

Elsewhere == UNCHANGED <<b, timer, elapsed, wire, server>>

Resolve ==
    /\ step = "resolve"
    /\ \/ Goes("socket") /\ UNCHANGED <<sock, read_timeout, got, buf, sent>>
       \/ Fails("CouldNotResolveAddr")
    /\ Elsewhere

\* Socket::new, SO_REUSEADDR, SO_LINGER, SO_KEEPALIVE, TCP_NODELAY.
OpenSocket ==
    /\ \/ step = "socket" /\ sock' = "open" /\ Goes("options")
       \/ step = "options" /\ UNCHANGED sock
            /\ Goes(IF b.set["bind_interface"] = Defaulted THEN "connect" ELSE "bind")
    /\ UNCHANGED <<read_timeout, got, buf, sent>>
    /\ Elsewhere

SocketFails == step \in {"socket", "options", "bind", "connect", "timeout"}
                 /\ Fails("SocketError") /\ Elsewhere

Bind ==
    /\ step = "bind"
    /\ \/ Goes("connect") /\ UNCHANGED <<sock, read_timeout, got, buf, sent>>
       \/ Fails("CouldNotResolveAddr")
    /\ Elsewhere

Connect ==
    /\ step = "connect"
    /\ sock' = "connected" /\ Goes("timeout")
    /\ UNCHANGED <<read_timeout, got, buf, sent>>
    /\ Elsewhere

\* Mutant: only the handshake is guarded by a timeout.
SetReadTimeout_tls ==
    /\ step = "timeout"
    /\ read_timeout' = IF tls_enabled(b.protocol) THEN auth_timeout ELSE 0
    /\ Goes("tls")
    /\ UNCHANGED <<sock, got, buf, sent>>
    /\ Elsewhere

\* To the socket a timeout of 0 is none.
SetReadTimeout ==
    /\ step = "timeout"
    /\ read_timeout' = auth_timeout
    /\ Goes("tls")
    /\ UNCHANGED <<sock, got, buf, sent>>
    /\ Elsewhere

AfterTls == IF scheme = "Ecdsa" THEN "keys" ELSE "end"

Returns(next) == step' = next /\ result' = IF next = "end" THEN "Ok" ELSE "none"

\* The client writes; over is what a signature is over.
Says(what, over, tls) == Append(sent, [what |-> what, over |-> over, tls |-> tls])

\* configure_tls, the server's name and ClientConnection::new; then the
\* first write of the handshake.
ConfigureTls ==
    /\ step = "tls"
    /\ \E io \in BOOLEAN :
         LET t == configure_tls(b, io)
         IN  IF t.res # "Ok" THEN Fails(t.res)
             ELSE IF ~InTls    \* no ClientConfig
               THEN Returns(AfterTls) /\ UNCHANGED <<sock, read_timeout, got, buf, sent>>
             ELSE \/ /\ Goes("handshake") /\ sent' = Says("hello", <<>>, FALSE)
                     /\ UNCHANGED <<sock, read_timeout, got, buf>>
                  \/ Fails("TlsError")
    /\ Elsewhere

\* A read takes the first n bytes; the wait for the next one starts anew.
Takes(n) ==
    /\ wire' = SubSeq(wire, n + 1, Len(wire))
    /\ timer' = 0
    /\ UNCHANGED <<b, elapsed, server>>

\* A turn of the loop around complete_io: it reads what is there, and writes.
\* Bytes that are no handshake, the end of the stream and a failed write are
\* errors of TLS.
Handshake ==
    /\ step = "handshake"
    /\ \/ \E n \in 1..Len(wire) :
            /\ \A i \in 1..n : wire[i] = "hs"
            /\ got' = got + n
            /\ IF got' = HsLen    \* not is_handshaking()
                 THEN Returns(AfterTls) /\ sent' = Says("finished", <<>>, FALSE)
                 ELSE Goes("handshake") /\ UNCHANGED sent
            /\ UNCHANGED <<sock, read_timeout, buf>>
            /\ Takes(n)
       \/ /\ IF wire = <<>> THEN server.closed ELSE wire[1] # "hs"
          /\ Fails("TlsError") /\ Elsewhere

\* Mutant: the key id is sent before the keys are looked at.
CheckKeys_after ==
    /\ step = "keys"
    /\ \/ sent' = Says("key_id", <<>>, InTls) /\ Goes("challenge")
            /\ UNCHANGED <<sock, read_timeout, got, buf>>
       \/ sent' = Says("key_id", <<>>, InTls) /\ step' = "end" /\ result' = "AuthError"
            /\ sock' = "closed" /\ UNCHANGED <<read_timeout, got, buf>>
    /\ Elsewhere

\* authenticate() up to parse_key_pair: nothing was written yet.
CheckKeys ==
    /\ step = "keys"
    /\ \/ Goes("key_id") /\ UNCHANGED <<sock, read_timeout, got, buf, sent>>
       \/ Fails("AuthError")
    /\ Elsewhere

WriteFails == step \in {"key_id", "signature"} /\ Fails("SocketError") /\ Elsewhere

SendKeyId ==
    /\ step = "key_id"
    /\ sent' = Says("key_id", <<>>, InTls) /\ Goes("challenge")
    /\ UNCHANGED <<sock, read_timeout, got, buf>>
    /\ Elsewhere

\* Where a line ends in s, 0 if nowhere.
LineEnd(s) == IF "nl" \in ToSet(s) THEN Min({i \in 1..Len(s) : s[i] = "nl"}) ELSE 0

\* Mutant: a read is taken for a line.
ReadChallenge_once ==
    /\ step = "challenge"
    /\ \E n \in 1..Len(wire) :
         /\ buf' = SelectSeq(SubSeq(wire, 1, n), LAMBDA c : c # "nl")
         /\ Goes("signature")
         /\ Takes(n)
    /\ UNCHANGED <<sock, read_timeout, got, sent>>

\* read_challenge: read_until by way of a BufReader, which takes what is
\* there; what follows the line is dropped with it.
ReadChallenge ==
    /\ step = "challenge"
    /\ \E n \in 1..Len(wire) :
         LET s == buf \o SubSeq(wire, 1, n) IN
         /\ IF LineEnd(s) > 0 THEN buf' = SubSeq(s, 1, LineEnd(s) - 1) /\ Goes("signature")
                              ELSE buf' = s /\ Goes("challenge")
         /\ Takes(n)
    /\ UNCHANGED <<sock, read_timeout, got, sent>>

\* The stream ends before the line does: no challenge, or an incomplete one.
NoChallenge ==
    /\ step = "challenge" /\ wire = <<>> /\ server.closed
    /\ Fails("AuthError") /\ Elsewhere

\* Sign and send.
SendSignature ==
    /\ step = "signature"
    /\ \/ /\ sent' = Says("signature", buf, InTls) /\ Returns("end")
          /\ UNCHANGED <<sock, read_timeout, got, buf>>
       \/ Fails("AuthError")
    /\ Elsewhere

Reading == step \in {"handshake", "challenge"}
Waiting == Reading /\ wire = <<>> /\ ~server.closed

\* Mutant: a read that times out is tried again.
TimesOut_retries ==
    /\ Waiting /\ read_timeout > 0 /\ timer = read_timeout
    /\ timer' = 0
    /\ UNCHANGED <<b, client, elapsed, wire, server>>

\* The read times out: TlsError in a handshake, else SocketError.
TimesOut ==
    /\ Waiting /\ read_timeout > 0 /\ timer = read_timeout
    /\ Fails(IF step = "handshake" THEN "TlsError" ELSE "SocketError")
    /\ Elsewhere

Tick ==
    /\ Waiting /\ timer < (IF read_timeout > 0 THEN read_timeout ELSE MaxTicks)
    /\ timer' = timer + 1 /\ elapsed' = elapsed + 1
    /\ UNCHANGED <<b, client, wire, server>>

-----------------------------------------------------------------------------
(***************************************************************************)
(* The server.                                                             *)
(***************************************************************************)
Heard(what) == \E i \in 1..Len(sent) : sent[i].what = what

KeyIdReadable(tls) == \E i \in 1..Len(sent) : sent[i].what = "key_id" /\ sent[i].tls = tls

Serving == sock = "connected" /\ result = "none" /\ ~server.closed

\* The server answers a hello or a key id that it can read.
ServerAnswers ==
    /\ Serving
    /\ \/ /\ server.mode = "tls" /\ server.hs > 0 /\ Heard("hello")
          /\ server' = [server EXCEPT !.hs = @ - 1, !.todo = Append(@, "hs")]
       \/ /\ ~server.asked
          /\ KeyIdReadable(server.mode = "tls")
          /\ server' = [server EXCEPT !.asked = TRUE,
                                      !.todo = @ \o Append(server.challenge, "nl")]
    /\ UNCHANGED <<b, client, timer, elapsed, wire>>

\* A server with TLS meets a client without: an alert.
ServerAlerts ==
    /\ Serving /\ ~server.asked /\ server.mode = "tls"
    /\ KeyIdReadable(FALSE)
    /\ server' = [server EXCEPT !.asked = TRUE, !.todo = Append(@, "alert")]
    /\ UNCHANGED <<b, client, timer, elapsed, wire>>

\* Bytes arrive, one or more at a time.
Arrives ==
    /\ Serving
    /\ \E n \in 1..Len(server.todo) :
         /\ wire' = wire \o SubSeq(server.todo, 1, n)
         /\ server' = [server EXCEPT !.todo = SubSeq(@, n + 1, Len(@))]
    /\ UNCHANGED <<b, client, timer, elapsed>>

\* The server goes away; what it has written still arrives first.
ServerCloses ==
    /\ Serving /\ server.todo = <<>>
    /\ server' = [server EXCEPT !.closed = TRUE]
    /\ UNCHANGED <<b, client, timer, elapsed, wire>>

Ended == result # "none" /\ UNCHANGED vars

Client ==
    \/ Resolve \/ OpenSocket \/ SocketFails \/ Bind \/ Connect \/ SetReadTimeout
    \/ ConfigureTls \/ Handshake \/ CheckKeys \/ WriteFails \/ SendKeyId
    \/ ReadChallenge \/ NoChallenge \/ SendSignature \/ TimesOut

Next ==
    Client \/ Tick \/ ServerAnswers \/ ServerAlerts \/ Arrives \/ ServerCloses \/ Ended

\* The client's thread goes on and time passes; the server owes nothing.
Spec == Init /\ [][Next]_vars /\ WF_vars(Client) /\ WF_vars(Tick)

-----------------------------------------------------------------------------
\* Whatever step fails, no sender and no socket come of it; and a sender has
\* a socket that is connected, options set, through every step of its
\* builder.  What comes of it is what `build` says of the builder: errors of
\* TLS from builders with TLS, errors of authentication from those with keys.
AllOrNothing ==
    /\ CASE result = "none" -> sock # "closed"
         [] result = "Ok"   -> /\ sock = "connected" /\ read_timeout = auth_timeout
                               /\ InTls => got = HsLen
                               /\ scheme = "Ecdsa" => Heard("key_id")
         [] OTHER           -> sock \in {"none", "closed"}
    /\ result # "none" =>
         \E net \in {"Ok", "CouldNotResolveAddr", "SocketError", "TlsError", "AuthError"} :
           build(b, net) = result

\* Credentials of a builder with TLS are written once the handshake is over,
\* and only after the keys were found to be usable and in full: a client
\* that fails because of its keys has written none.
KeysGuarded ==
    /\ InTls => \A i \in 1..Len(sent) : sent[i].what \in {"key_id", "signature"} =>
                  sent[i].tls /\ \E j \in 1..(i - 1) : sent[j].what = "finished"
    /\ result = "AuthError" /\ Heard("key_id") => server.closed \/ server.asked

\* The signature is over the challenge of the server, however its bytes
\* arrive: the server will accept it.
SignsTheChallenge ==
    result = "Ok" /\ scheme = "Ecdsa" =>
      Last(sent).over = server.challenge /\ Last(sent).tls = (server.mode = "tls")

\* auth_timeout is for each read.  What bounds the whole is what the server
\* may send: it is waited for once per byte at most, and once more.  With an
\* auth_timeout of 0 the reads have no timeout, and nothing bounds them.
WaitBounded ==
    auth_timeout > 0 => elapsed <= auth_timeout * (HsLen + Len(server.challenge) + 2)

\* Connecting ends, also when the server is silent or set up differently,
\* unless auth_timeout is 0.
ConnectEnds == auth_timeout > 0 => <>(result # "none")
=============================================================================

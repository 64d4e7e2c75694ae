------------------------------- MODULE Sender -------------------------------
(***************************************************************************)
(* A `Sender` (questdb-rs/src/ingress/mod.rs) flushing the buffers of its  *)
(* caller to a server, over TCP or over HTTP.                              *)
(*                                                                         *)
(* A flush borrows one buffer until it returns; other threads go on with   *)
(* theirs meanwhile.  Over TCP the text goes piece by piece into a socket  *)
(* that may break at any time; over HTTP the retry loop is what HttpSend   *)
(* says it is: the request is posted one or more times, and the server     *)
(* takes in each post at most once, perhaps after the flush has returned.  *)
(* Posts of an earlier flush are forgotten when the next one begins.       *)
(***************************************************************************)
EXTENDS BufferOps, HttpError, SequencesExt

CONSTANTS
    Setups,          \* the senders and callers that are looked at
    SocketRoom,      \* how many pieces the OS socket buffers
    MaxFlushes,      \* bound on the flushes on one TCP connection
    MaxPosts         \* bound on the posts of one flush

\* max_tokens bounds the text of a buffer; sizes are in pieces of text.
ASSUME SetupsAssumption ==
    \A s \in Setups :
      /\ s.protocol \in {"tcp", "http"}
      /\ s.tables \subseteq Tables
      /\ {s.max_buf_size, s.max_tokens} \subseteq Nat \ {0}
ASSUME SenderBoundsAssumption ==
    {SocketRoom, MaxFlushes, MaxPosts} \subseteq Nat \ {0}

VARIABLES
    setup,           \* the sender's settings, and its caller's buffers and tables
    bufs,            \* the buffers
    connected,       \* Sender::connected
    call,            \* the flush in progress: a set with at most one call
    left,            \* TCP: what write_all has still to write
    up,              \* TCP: whether the connection stands
    socket,          \* TCP: what the OS has taken and not delivered
    received,        \* TCP: what the server has read on this connection
    stream,          \* history, TCP: the texts flushed on this connection
    flight,          \* HTTP: the request of the latest flush
    ret              \* history: the flush that returned in the last step

Protocol   == setup.protocol
MaxBufSize == setup.max_buf_size
Bufs       == setup.bufs

tcp  == <<left, up, socket, received, stream>>
vars == <<setup, bufs, connected, call, tcp, flight, ret>>

NoReturn == [res |-> "none"]

Request(text, txn) ==
    [text |-> text, txn |-> txn, posted |-> 0, pending |-> 0, applied |-> 0]

Init ==
    /\ setup \in Setups
    /\ bufs = [b \in Bufs |-> NewBuffer]
    /\ connected = TRUE
    /\ call = {}
    /\ left = <<>> /\ up = TRUE /\ socket = <<>> /\ received = <<>> /\ stream = <<>>
    /\ flight = Request(<<>>, FALSE)
    /\ ret = NoReturn

-----------------------------------------------------------------------------
(***************************************************************************)
(* The caller builds rows in the buffers that no flush has borrowed.  The  *)
(* rows have one symbol each: module Buffer looks at what a row may hold.  *)
(***************************************************************************)
Free(b) == \A c \in call : c.buf # b

BufferCall(b, r) ==
    /\ Free(b)
    /\ bufs' = [bufs EXCEPT ![b] = r.buf]
    /\ ret' = NoReturn
    /\ UNCHANGED <<connected, call, tcp, flight>>

Room(b) == Len(bufs[b].output) < setup.max_tokens

Build(b) ==
    /\ Room(b)
    /\ \/ \E t \in setup.tables : BufferCall(b, table(bufs[b], t))
       \/ /\ bufs[b].state.op_case = "TableWritten"
          /\ BufferCall(b, symbol(bufs[b], TRUE))
       \/ BufferCall(b, at_now(bufs[b]))

SetMarker(b)      == BufferCall(b, set_marker(bufs[b]))
RewindToMarker(b) == BufferCall(b, rewind_to_marker(bufs[b]))
Clear(b)          == BufferCall(b, clear(bufs[b]))

-----------------------------------------------------------------------------
(***************************************************************************)
(* flush, flush_and_keep and flush_and_keep_with_flags.                    *)
(***************************************************************************)
\* The call c begins; the history keeps the buffer as the caller hands it over.
Begun(c) == [buf |-> c.buf, keep |-> c.keep, txn |-> c.txn, before |-> bufs[c.buf]]

\* The call c returns r; only flush() clears the buffer, and only on Ok.
Return(c, r) ==
    /\ bufs' = IF r = "Ok" /\ ~c.keep THEN [bufs EXCEPT ![c.buf] = clear(@).buf]
                                      ELSE bufs
    /\ ret' = [res |-> r, buf |-> c.buf, keep |-> c.keep, txn |-> c.txn,
               before |-> c.before]
    /\ call' = {}

\* The checks of flush_impl on the text and on the transactional flag.
Refused(b, txn) ==
    \/ ~check_op(b, "Flush")
    \/ Len(b.output) > MaxBufSize
    \/ b.output # <<>> /\ txn /\ (Protocol = "tcp" \/ ~b.state.transactional)

\* The early returns of flush_impl, in their order; "Go" when none applies.
Precheck(b, txn) ==
    IF ~connected THEN "SocketError"
    ELSE IF Refused(b, txn) THEN "InvalidApiCall"
    ELSE IF b.output = <<>> THEN "Ok"
    ELSE "Go"

\* flush() never asks for a transaction.
Calls == {c \in [buf : Bufs, keep : BOOLEAN, txn : BOOLEAN] : c.txn => c.keep}

FlushRefused ==
    /\ call = {}
    /\ \E c \in Calls :
         /\ Precheck(bufs[c.buf], c.txn) # "Go"
         /\ Return(Begun(c), Precheck(bufs[c.buf], c.txn))
    /\ UNCHANGED <<connected, tcp, flight>>

\* Mutant: flush() takes the text out of the buffer before it is written.
FlushTcp_takes ==
    /\ call = {} /\ Protocol = "tcp"
    /\ \E c \in Calls :
         LET text == bufs[c.buf].output
         IN  /\ Precheck(bufs[c.buf], c.txn) = "Go"
             /\ Len(stream \o text) <= MaxFlushes * MaxBufSize
             /\ call' = {Begun(c)}
             /\ left' = text
             /\ stream' = stream \o text
             /\ bufs' = IF c.keep THEN bufs ELSE [bufs EXCEPT ![c.buf] = clear(@).buf]
    /\ ret' = NoReturn
    /\ UNCHANGED <<connected, up, socket, received, flight>>

FlushTcp ==
    /\ call = {} /\ Protocol = "tcp"
    /\ \E c \in Calls :
         LET text == bufs[c.buf].output
         IN  /\ Precheck(bufs[c.buf], c.txn) = "Go"
             /\ Len(stream \o text) <= MaxFlushes * MaxBufSize
             /\ call' = {Begun(c)}
             /\ left' = text
             /\ stream' = stream \o text
    /\ ret' = NoReturn
    /\ UNCHANGED <<bufs, connected, up, socket, received, flight>>

FlushHttp ==
    /\ call = {} /\ Protocol = "http"
    /\ \E c \in Calls :
         /\ Precheck(bufs[c.buf], c.txn) = "Go"
         /\ call' = {Begun(c)}
         /\ flight' = Request(bufs[c.buf].output, c.txn)
    /\ ret' = NoReturn
    /\ UNCHANGED <<bufs, connected, tcp>>

-----------------------------------------------------------------------------
(***************************************************************************)
(* TCP: write_all hands the text to the OS, which delivers it in order     *)
(* until the connection breaks.  A broken socket may still take text.      *)
(***************************************************************************)
\* Mutant: a write to a connection that is gone blocks.
TcpWrite_blocks ==
    /\ left # <<>>
    /\ up /\ Len(socket) < SocketRoom
    /\ left' = Tail(left)
    /\ socket' = Append(socket, Head(left))
    /\ ret' = NoReturn
    /\ UNCHANGED <<bufs, connected, call, up, received, stream, flight>>

TcpWrite ==
    /\ left # <<>>
    /\ up => Len(socket) < SocketRoom
    /\ left' = Tail(left)
    /\ socket' = IF up THEN Append(socket, Head(left)) ELSE socket
    /\ ret' = NoReturn
    /\ UNCHANGED <<bufs, connected, call, up, received, stream, flight>>

TcpWritten ==
    /\ Protocol = "tcp" /\ left = <<>>
    /\ \E c \in call : Return(c, "Ok")
    /\ UNCHANGED <<connected, tcp, flight>>

\* Mutant: the sender stays usable.
TcpWriteError_usable ==
    /\ left # <<>>
    /\ \E c \in call : Return(c, "SocketError")
    /\ left' = <<>>
    /\ UNCHANGED <<connected, up, socket, received, stream, flight>>

\* Any io::Error of write: the sender is spoilt for good.
TcpWriteError ==
    /\ left # <<>>
    /\ \E c \in call : Return(c, "SocketError")
    /\ connected' = FALSE
    /\ left' = <<>>
    /\ UNCHANGED <<up, socket, received, stream, flight>>

TcpDeliver ==
    /\ up /\ socket # <<>>
    /\ received' = Append(received, Head(socket))
    /\ socket' = Tail(socket)
    /\ ret' = NoReturn
    /\ UNCHANGED <<bufs, connected, call, left, up, stream, flight>>

\* The server disconnects, or the network fails.
TcpBreak ==
    /\ Protocol = "tcp" /\ up
    /\ up' = FALSE
    /\ socket' = <<>>
    /\ ret' = NoReturn
    /\ UNCHANGED <<bufs, connected, call, left, received, stream, flight>>

\* The caller drops a sender that must_close() and builds a new one.
TcpRebuild ==
    /\ Protocol = "tcp" /\ ~connected /\ call = {}
    /\ connected' = TRUE /\ up' = TRUE
    /\ left' = <<>> /\ socket' = <<>> /\ received' = <<>> /\ stream' = <<>>
    /\ ret' = NoReturn
    /\ UNCHANGED <<bufs, call, flight>>

-----------------------------------------------------------------------------
(***************************************************************************)
(* HTTP, as HttpSend describes it.                                         *)
(***************************************************************************)
HttpPost ==
    /\ Protocol = "http" /\ call # {}
    /\ flight.posted < MaxPosts
    /\ flight' = [flight EXCEPT !.posted = @ + 1, !.pending = @ + 1]
    /\ ret' = NoReturn
    /\ UNCHANGED <<bufs, connected, call, tcp>>

\* The server takes a post in or refuses it, or the network loses it.
HttpServer ==
    /\ flight.pending > 0
    /\ \E taken \in {0, 1} :
         flight' = [flight EXCEPT !.pending = @ - 1, !.applied = @ + taken]
    /\ ret' = NoReturn
    /\ UNCHANGED <<bufs, connected, call, tcp>>

\* Mutant: the response is not waited for.
HttpReturn_early ==
    /\ Protocol = "http"
    /\ \E c \in call : flight.posted > 0 /\ Return(c, "Ok")
    /\ UNCHANGED <<connected, tcp, flight>>

HttpReturn ==
    /\ Protocol = "http"
    /\ \E c \in call :
         /\ flight.posted > 0
         /\ \/ flight.applied > 0 /\ Return(c, "Ok")
            \/ \E e \in UreqErrors : \E r \in flush_error(e) : Return(c, r)
    /\ UNCHANGED <<connected, tcp, flight>>

-----------------------------------------------------------------------------
UserStep ==
    \/ \E b \in Bufs : Build(b) \/ SetMarker(b) \/ RewindToMarker(b) \/ Clear(b)
    \/ FlushRefused \/ FlushTcp \/ FlushHttp \/ TcpRebuild

FlushStep == TcpWrite \/ TcpWritten \/ TcpWriteError \/ HttpPost \/ HttpReturn

NetStep == TcpDeliver \/ TcpBreak \/ HttpServer

Next == (UserStep \/ FlushStep \/ NetStep) /\ UNCHANGED setup

(***************************************************************************)
(* A flush runs in a thread of its own accord; the server reads what it is *)
(* sent unless the connection breaks.  Without the second assumption a     *)
(* write may block for ever: the socket has no write timeout.              *)
(***************************************************************************)
Spec == Init /\ [][Next]_vars
             /\ WF_vars(TcpWrite /\ UNCHANGED setup)
             /\ WF_vars(TcpWritten /\ UNCHANGED setup)
             /\ WF_vars(HttpPost /\ UNCHANGED setup)
             /\ WF_vars(HttpReturn /\ UNCHANGED setup)
             /\ WF_vars(TcpDeliver /\ UNCHANGED setup)

-----------------------------------------------------------------------------
(***************************************************************************)
(* Properties.                                                             *)
(***************************************************************************)

\* A text that a flush may send: whole rows, within max_buf_size.
Sendable(text) ==
    /\ text # <<>> /\ Len(text) <= MaxBufSize
    /\ text[Len(text)].k = "nl"

(***************************************************************************)
(* Over TCP the server reads the flushed texts whole, in order and without *)
(* gaps, up to where the connection broke: a text that write_all wrote     *)
(* only in part is never followed by another one, because the error has    *)
(* made the sender refuse to flush.                                        *)
(***************************************************************************)
StreamIntact ==
    /\ IsPrefix(received \o socket, stream)
    /\ up /\ connected => received \o socket \o left = stream

(***************************************************************************)
(* flush_impl refuses a buffer (InvalidApiCall) exactly when its text is   *)
(* not sendable, or when a transaction is asked for over TCP or for rows   *)
(* of several tables.  A rewind that drops the rows of the other tables    *)
(* makes the buffer transactional again.                                   *)
(***************************************************************************)
RefusalsJustified ==
    ret # NoReturn /\ ret.res # "SocketError" =>
        (ret.res = "InvalidApiCall" <=>
            \/ ~Sendable(ret.before.output)
            \/ ret.txn /\ (Protocol = "tcp" \/ ~SingleTable(ret.before.output)))

(***************************************************************************)
(* When a flush returns, its buffer is as the caller handed it over at the *)
(* call, marker and all, whatever was written, posted and done with other  *)
(* buffers in between, unless flush() succeeded; then it is a new one.     *)
(* The docs of flush (mod.rs:2660, line_sender.h:891) promise an empty     *)
(* buffer in every case; the code keeps the rows when it returns an error. *)
(***************************************************************************)
KeptUnlessFlushed ==
    ret # NoReturn =>
        bufs[ret.buf] = IF ret.res = "Ok" /\ ~ret.keep THEN NewBuffer ELSE ret.before

(***************************************************************************)
(* A flush that returns Ok has handed over the text that is (or was) in    *)
(* the buffer: over HTTP the server has taken it in at least once, over    *)
(* TCP the OS has taken all of it.                                         *)
(***************************************************************************)
OkMeansHandedOver ==
    ret # NoReturn /\ ret.res = "Ok" =>
        IF Protocol = "http"
          THEN flight.text = ret.before.output /\ flight.applied > 0
          ELSE left = <<>> /\ IsSuffix(ret.before.output, stream)

(***************************************************************************)
(* A flush that has begun returns, whatever the network does.              *)
(***************************************************************************)
FlushReturns == call # {} ~> call = {}
=============================================================================

----------------------------- MODULE MockServer -----------------------------
(***************************************************************************)
(* The mock server of the C++ tests (cpp_test/mock_server.cpp) on the      *)
(* other end of a sender's TCP stream.                                     *)
(*                                                                         *)
(* One thread runs a test: it makes the server, connects, flushes rows,    *)
(* closes, and calls accept, recv and close of the server.  recv blocks    *)
(* it.  The network delivers meanwhile, any number of bytes at a time.     *)
(***************************************************************************)
EXTENDS Naturals, Sequences, SequencesExt, FiniteSetsExt

CONSTANTS
    Rows,        \* rows of the sender, as sequences of "x", "bs" and "nl"
    MaxRows,     \* bound on the rows of a test
    ChunkLen     \* sizeof(chunk)

\* A row ends in a line feed, and one inside of it is escaped.
ASSUME RowsAssumption ==
    \A r \in Rows :
      /\ r \in Seq({"x", "bs", "nl"}) /\ Len(r) > 1 /\ r[Len(r)] = "nl"
      /\ \A i \in 1..(Len(r) - 1) : r[i] = "nl" => i > 1 /\ r[i - 1] = "bs"

ASSUME BoundsAssumption == MaxRows \in Nat /\ ChunkLen \in Nat \ {0}

VARIABLES
    at,          \* the server: "none", "idle", "selecting", "reading", "gone", "failed"
    listen_fd, conn_fd,
    open,        \* the descriptors of the process that are open
    accum,       \* the local variable of recv
    msgs,        \* _msgs
    ret,         \* what recv returned last
    client,      \* "none", "connected", "closed"
    rows,        \* the rows that were flushed
    flight,      \* bytes on their way
    avail,       \* bytes that the kernel holds for the server
    fin          \* the end of the stream was delivered

net == <<client, rows, flight, avail, fin>>
fds == <<listen_fd, conn_fd, open>>
mockvars == <<at, fds, accum, msgs, ret, net>>

INVALID_SOCKET == 0
ListenFd == 3
ConnFd == 4

MockInit ==
    /\ at = "none"
    /\ listen_fd = INVALID_SOCKET /\ conn_fd = INVALID_SOCKET /\ open = {}
    /\ accum = <<>> /\ msgs = <<>> /\ ret = 0
    /\ client = "none" /\ rows = <<>> /\ flight = <<>> /\ avail = <<>> /\ fin = FALSE

-----------------------------------------------------------------------------
(***************************************************************************)
(* The server.                                                             *)
(***************************************************************************)
\* mock_server().  When setsockopt, bind, listen or getsockname fails it
\* throws, no destructor runs and the descriptor stays open: the test fails.
Construct ==
    /\ at = "none"
    /\ \/ at' = "idle" /\ listen_fd' = ListenFd /\ open' = open \cup {ListenFd}
       \/ at' = "failed" /\ listen_fd' = ListenFd /\ open' = open \cup {ListenFd}
    /\ UNCHANGED <<conn_fd, accum, msgs, ret, net>>

CloseFds ==
    /\ open' = open \ {conn_fd, listen_fd}
    /\ listen_fd' = INVALID_SOCKET /\ conn_fd' = INVALID_SOCKET

\* An exception out of a method ends the test, and its destructors run.
Throws == at' = "failed" /\ accum' = <<>> /\ CloseFds /\ UNCHANGED <<msgs, ret, net>>

\* accept(): the tests call it once, with a client connected or closed again.
accept ==
    /\ at = "idle" /\ listen_fd # INVALID_SOCKET /\ conn_fd = INVALID_SOCKET
    /\ client # "none"
    /\ \/ /\ conn_fd' = ConnFd
          /\ open' = open \cup {ConnFd}
          /\ UNCHANGED <<at, listen_fd, accum, msgs, ret, net>>
       \/ Throws

\* wait_for_data(): bytes, or the end of the stream.
Readable == avail # <<>> \/ fin

\* recv() up to its first select.
recv ==
    /\ at = "idle" /\ conn_fd # INVALID_SOCKET
    /\ at' = "selecting" /\ accum' = <<>>
    /\ UNCHANGED <<fds, msgs, ret, net>>

\* Mutant: select is called again when it times out.
Select_again ==
    /\ at = "selecting"
    /\ \/ ~Readable /\ UNCHANGED <<at, ret>>
       \/ Readable /\ at' = "reading" /\ UNCHANGED ret
    /\ UNCHANGED <<fds, accum, msgs, net>>

\* The first select times out, which it may while bytes are on their way,
\* or finds the descriptor readable.
Select ==
    /\ at = "selecting"
    /\ \/ ~Readable /\ at' = "idle" /\ ret' = 0
       \/ Readable /\ at' = "reading" /\ UNCHANGED ret
    /\ UNCHANGED <<fds, accum, msgs, net>>

\* Mutant: an escaped line feed ends a message.
EndsMessage_any(s, i) == i > 1 /\ s[i] = "nl"

\* A line feed at i that is not escaped; the first byte is never looked at.
EndsMessage(s, i) == i > 1 /\ s[i] = "nl" /\ s[i - 1] # "bs"

\* The loop over s: the messages up to a byte, and where the next one begins.
Split(s) ==
    LET upTo[i \in 1..Len(s)] ==
          IF i = 1 THEN [out |-> <<>>, head |-> 1]
          ELSE IF EndsMessage(s, i)
            THEN [out |-> Append(upTo[i - 1].out, SubSeq(s, upTo[i - 1].head, i)), head |-> i + 1]
          ELSE upTo[i - 1]
    IN  upTo[Len(s)].out

\* The loop is left when what came ends in a message.
BreaksLoop(s) == Len(s) > 1 /\ EndsMessage(s, Len(s))

\* A turn of the loop of recv: wait for data without a limit, then take at
\* most a chunk.  The end of the stream gives a count of 0, and another turn.
Read ==
    /\ at = "reading" /\ Readable
    /\ LET n == Min({ChunkLen, Len(avail)})
           s == accum \o SubSeq(avail, 1, n)
       IN  /\ avail' = SubSeq(avail, n + 1, Len(avail))
           /\ IF BreaksLoop(s)
                THEN /\ at' = "idle" /\ accum' = <<>>
                     /\ msgs' = msgs \o Split(s) /\ ret' = Len(Split(s))
                ELSE accum' = s /\ UNCHANGED <<at, msgs, ret>>
    /\ UNCHANGED <<fds, client, rows, flight, fin>>

\* select() or ::recv() gives -1: what recv had taken is lost.
RecvThrows == at \in {"selecting", "reading"} /\ Throws

close == at = "idle" /\ CloseFds /\ UNCHANGED <<at, accum, msgs, ret, net>>

\* ~mock_server(), when the test ends.
Destroy == at = "idle" /\ at' = "gone" /\ CloseFds /\ UNCHANGED <<accum, msgs, ret, net>>

-----------------------------------------------------------------------------
(***************************************************************************)
(* The sender's side of the test, and the network.                         *)
(***************************************************************************)
Connect ==
    /\ at = "idle" /\ client = "none" /\ listen_fd # INVALID_SOCKET
    /\ client' = "connected"
    /\ UNCHANGED <<at, fds, accum, msgs, ret, rows, flight, avail, fin>>

\* A flush of one row or more, before the server accepts or after.
Flush ==
    /\ at = "idle" /\ client = "connected"
    /\ \E batch \in {<<r>> : r \in Rows} \cup (Rows \X Rows) :
         /\ Len(rows) + Len(batch) <= MaxRows
         /\ rows' = rows \o batch
         /\ flight' = flight \o FlattenSeq(batch)
    /\ UNCHANGED <<at, fds, accum, msgs, ret, client, avail, fin>>

CloseClient ==
    /\ at = "idle" /\ client = "connected"
    /\ client' = "closed"
    /\ UNCHANGED <<at, fds, accum, msgs, ret, rows, flight, avail, fin>>

\* The network delivers some of what is on its way, and then the end.
Deliver ==
    /\ \/ \E n \in 1..Len(flight) :
            /\ avail' = avail \o SubSeq(flight, 1, n)
            /\ flight' = SubSeq(flight, n + 1, Len(flight))
            /\ UNCHANGED fin
       \/ /\ flight = <<>> /\ client = "closed" /\ ~fin
          /\ fin' = TRUE /\ UNCHANGED <<avail, flight>>
    /\ UNCHANGED <<at, fds, accum, msgs, ret, client, rows>>

\* The test is over.
Over == at \in {"gone", "failed"} /\ UNCHANGED mockvars

Test == Construct \/ accept \/ recv \/ close \/ Destroy \/ Connect \/ Flush \/ CloseClient
Server == Select \/ Read

MockNext == Test \/ Server \/ RecvThrows \/ Deliver \/ Over

\* The thread goes on while it is in recv, and TCP delivers.
MockSpec == MockInit /\ [][MockNext]_mockvars /\ WF_mockvars(Server) /\ WF_mockvars(Deliver)

-----------------------------------------------------------------------------
\* The stream of the first n of some rows or messages.
Flat(s, n) == FlattenSeq(SubSeq(s, 1, n))

\* The last symbol of a row may end in a backslash, escaped by another one:
\* the server takes it for one that escapes the line feed.
Misread(r) == r[Len(r) - 1] = "bs"

\* Each message is one row that is not misread, behind some that are.
Joined(ms, rs) ==
    \A j \in 1..Len(ms) : \E a, b \in 0..Len(rs) :
      /\ Flat(ms, j - 1) = Flat(rs, a) /\ Flat(ms, j) = Flat(rs, b)
      /\ a < b /\ \A i \in (a + 1)..b : Misread(rs[i]) <=> i < b

\* However the stream is cut by the network and by the chunks, a message is
\* a row that was flushed, whole and in order, behind those right before it
\* that are misread, if any: with none, the messages are the rows.  So an
\* escaped line feed is no end, and two rows in one chunk are two messages.
\* No byte is lost between two calls of recv or by a timeout: what was
\* flushed and not reported is in the kernel, on its way, or in the hands of
\* recv.  Only a recv that throws loses what it had taken.
NothingLost ==
    /\ Joined(msgs, rows)
    /\ at # "failed" => FlattenSeq(msgs) \o accum \o avail \o flight = FlattenSeq(rows)

\* There is something to come, and it ends in a row that is not misread.
Ending ==
    /\ client = "connected" \/ avail # <<>> \/ flight # <<>>
    /\ rows # <<>> => ~Misread(rows[Len(rows)])

\* recv returns: with 0 at a timeout, with messages once whole rows came.
\* Its loop has no timeout and no end at the end of the stream, so this
\* rests on senders that flush whole rows and on rows that are not misread,
\* and is not said of a recv after the last byte of a closed connection.
RecvReturns == at \in {"selecting", "reading"} /\ Ending ~> at \in {"idle", "failed"}
=============================================================================

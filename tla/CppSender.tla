----------------------------- MODULE CppSender -----------------------------
(***************************************************************************)
(* The classes opts and line_sender of                                     *)
(* include/questdb/ingress/line_sender.hpp, beside line_sender_buffer      *)
(* (module CppBuffer), over the C interface.                               *)
(*                                                                         *)
(* An opts object owns C options and a line_sender a C sender; an object   *)
(* that was moved from, or a sender that was closed, owns nothing.         *)
(***************************************************************************)
EXTENDS CppBuffer

CONSTANTS
    Opts,        \* the program's variables of class opts
    Senders,     \* its variables of class line_sender
    Ps,          \* the protocols given to constructors
    Confs,       \* what SenderBuilder::from_conf makes of a string
    Args,        \* the arguments given to each setter
    MaxSet,      \* bound on the settings specified in one object
    MaxObjects,  \* bound on the objects that live at a time
    BuildNet,    \* what the network may do to a connection
    FlushNet     \* and to a flush

ASSUME CppSenderAssumption ==
    /\ Ps \subseteq line_sender_protocol
    /\ Args["tls_ca"] \subseteq line_sender_ca
    /\ BuildNet \cup FlushNet \subseteq line_sender_error_code \cup {"Ok"}

\* A variable is of one class, and memory does not run out: there is an
\* address for each live object, one for a temporary and one for an error.
ASSUME VariablesAssumption ==
    /\ IsFiniteSet(Opts) /\ IsFiniteSet(Senders)
    /\ Bufs \cap Opts = {} /\ Bufs \cap Senders = {} /\ Opts \cap Senders = {}
    /\ MaxObjects \in Nat
    /\ Cardinality(Addr) >= MaxObjects + 2

VARIABLES opts, snds

vars == <<heap, bufs, opts, snds, out, ub>>

Handle(p) == [impl |-> p]
Alive(o) == o # Dead

SpecifiedIn(b) == {s \in Settings : b.set[s] # Defaulted}

OptsBounded(h) ==
    \A a \in Addr : h[a].kind = "opts" => Cardinality(SpecifiedIn(h[a].builder)) <= MaxSet

\* The end of a statement.
Leaves(r) ==
    /\ OptsBounded(r.heap)
    /\ heap' = r.heap /\ out' = r.out /\ ub' = r.ub
    /\ UNCHANGED bufs

SenderInit ==
    /\ Init
    /\ opts = [o \in Opts |-> Dead]
    /\ snds = [s \in Senders |-> Dead]

-----------------------------------------------------------------------------
(***************************************************************************)
(* Making options: the C options, and then the user agent.  from_conf does *)
(* not set it.  An exception there would leave a noexcept constructor.     *)
(***************************************************************************)
MadeFromConf(h, c) == wrapped_call(line_sender_opts_from_conf(h, c))

WithUserAgent(r) ==
    wrapped_call(line_sender_opts_user_agent(r.heap, r.ret, "questdb/c++"))

Made(h, p) ==
    LET r == line_sender_opts_new(h, p, "server")
        a == WithUserAgent(r)
    IN  [heap |-> a.heap, ret |-> r.ret, out |-> Returned,
         ub |-> a.ub \/ a.out # Returned]

\* The same with the port as a service name.
MadeService(h, p) ==
    LET r == line_sender_opts_new_service(h, p, "server")
        a == WithUserAgent(r)
    IN  [heap |-> a.heap, ret |-> r.ret, out |-> Returned,
         ub |-> a.ub \/ a.out # Returned]

MadeFromEnv(h, c) ==
    LET r == wrapped_call(line_sender_opts_from_env(h, c))
        a == WithUserAgent(r)
        f == line_sender_opts_free(a.heap, r.ret)
    IN  IF r.out # Returned THEN r
        ELSE IF a.out # Returned THEN [a EXCEPT !.heap = f.heap, !.ub = @ \/ f.ub]
        ELSE [a EXCEPT !.ret = r.ret]

\* A constructor that throws makes no object.
OptsMade(o, r) ==
    /\ ~Alive(opts[o])
    /\ Leaves(r)
    /\ opts' = IF r.out = Returned THEN [opts EXCEPT ![o] = Handle(r.ret)] ELSE opts
    /\ UNCHANGED snds

OptsNew(o, p)        == OptsMade(o, Made(heap, p))
OptsNewService(o, p) == OptsMade(o, MadeService(heap, p))
OptsFromConf(o, c)   == OptsMade(o, MadeFromConf(heap, c))
OptsFromEnv(o, c)    == OptsMade(o, MadeFromEnv(heap, c))

\* Copying, setting and building do not test for options that were moved from.
OptsCopy(o, p) ==
    /\ Alive(opts[p])
    /\ LET r == line_sender_opts_clone(heap, opts[p].impl)
       IN  OptsMade(o, [heap |-> r.heap, ret |-> r.ret, out |-> Returned, ub |-> r.ub])

OptsMove(o, p) ==
    /\ ~Alive(opts[o]) /\ Alive(opts[p])
    /\ opts' = [opts EXCEPT ![o] = opts[p], ![p] = Handle(NULL)]
    /\ Leaves(Done(heap))
    /\ UNCHANGED snds

\* reset: what the object owns is freed.
reset(h, o) == IF o.impl = NULL THEN Void(h) ELSE line_sender_opts_free(h, o.impl)

\* operator=(const opts&).
OptsCopyAssign(o, p) ==
    LET freed == reset(heap, opts[o])
        r == line_sender_opts_clone(freed.heap, opts[p].impl)
    IN  /\ Alive(opts[o]) /\ Alive(opts[p])
        /\ IF o = p THEN Leaves(Done(heap)) /\ UNCHANGED opts
           ELSE Leaves(After(Then(freed, r))) /\ opts' = [opts EXCEPT ![o] = Handle(r.ret)]
        /\ UNCHANGED snds

\* operator=(opts&&).
OptsMoveAssign(o, p) ==
    /\ Alive(opts[o]) /\ Alive(opts[p])
    /\ IF o = p THEN Leaves(Done(heap)) /\ UNCHANGED opts
       ELSE /\ Leaves(After(reset(heap, opts[o])))
            /\ opts' = [opts EXCEPT ![o] = opts[p], ![p] = Handle(NULL)]
    /\ UNCHANGED snds

OptsDestroy(o) ==
    /\ Alive(opts[o])
    /\ Leaves(After(reset(heap, opts[o])))
    /\ opts' = [opts EXCEPT ![o] = Dead]
    /\ UNCHANGED snds

-----------------------------------------------------------------------------
(***************************************************************************)
(* The setters: a text is made a view first, which may throw.              *)
(***************************************************************************)
SetWith(o, s, text, F(_, _, _)) ==
    /\ Alive(opts[o])
    /\ \E v \in Args[s] :
         LET view == utf8_view(heap, v)
         IN  IF text /\ view.out # Returned THEN Leaves(view)
             ELSE Leaves(wrapped_call(F(heap, opts[o].impl, v)))
    /\ UNCHANGED <<opts, snds>>

bind_interface(o) == SetWith(o, "bind_interface", TRUE, line_sender_opts_bind_interface)
username(o)       == SetWith(o, "username", TRUE, line_sender_opts_username)
password(o)       == SetWith(o, "password", TRUE, line_sender_opts_password)
token(o)          == SetWith(o, "token", TRUE, line_sender_opts_token)
token_x(o)        == SetWith(o, "token_x", TRUE, line_sender_opts_token_x)
token_y(o)        == SetWith(o, "token_y", TRUE, line_sender_opts_token_y)
auth_timeout(o)   == SetWith(o, "auth_timeout", FALSE, line_sender_opts_auth_timeout)
tls_verify(o)     == SetWith(o, "tls_verify", FALSE, line_sender_opts_tls_verify)
tls_ca(o)         == SetWith(o, "tls_ca", FALSE, line_sender_opts_tls_ca)
opts_tls_roots(o) == SetWith(o, "tls_roots", TRUE, line_sender_opts_tls_roots)
max_buf_size(o)   == SetWith(o, "max_buf_size", FALSE, line_sender_opts_max_buf_size)
retry_timeout(o)  == SetWith(o, "retry_timeout", FALSE, line_sender_opts_retry_timeout)
request_min_throughput(o) ==
    SetWith(o, "request_min_throughput", FALSE, line_sender_opts_request_min_throughput)
request_timeout(o) ==
    SetWith(o, "request_timeout", FALSE, line_sender_opts_request_timeout)

OptsSet(o) ==
    \/ bind_interface(o) \/ username(o) \/ password(o)
    \/ token(o) \/ token_x(o) \/ token_y(o) \/ auth_timeout(o)
    \/ tls_verify(o) \/ tls_ca(o) \/ opts_tls_roots(o) \/ max_buf_size(o)
    \/ retry_timeout(o) \/ request_min_throughput(o) \/ request_timeout(o)

OptsNext ==
    \E o \in Opts :
      \/ \E p \in Ps : OptsNew(o, p) \/ OptsNewService(o, p)
      \/ \E c \in Confs : OptsFromConf(o, c) \/ OptsFromEnv(o, c)
      \/ \E p \in Opts : \/ OptsCopy(o, p) \/ OptsMove(o, p)
                         \/ OptsCopyAssign(o, p) \/ OptsMoveAssign(o, p)
      \/ OptsDestroy(o)
      \/ OptsSet(o)

-----------------------------------------------------------------------------
(***************************************************************************)
(* line_sender.                                                            *)
(***************************************************************************)
\* A sender or an exception; a temporary opts is freed in both cases.
Built(s, r, temporary, net) ==
    LET b == wrapped_call(line_sender_build(r.heap, r.ret, net))
        f == IF temporary THEN line_sender_opts_free(b.heap, r.ret) ELSE Void(b.heap)
    IN  /\ ~Alive(snds[s])
        /\ IF r.out # Returned THEN Leaves(r) /\ UNCHANGED snds
           ELSE /\ Leaves([heap |-> f.heap, out |-> b.out, ub |-> r.ub \/ b.ub \/ f.ub])
                /\ snds' = IF b.out = Returned THEN [snds EXCEPT ![s] = Handle(b.ret)]
                                               ELSE snds
        /\ UNCHANGED opts

SenderNew(s, p, net)        == Built(s, Made(heap, p), TRUE, net)
SenderNewService(s, p, net) == Built(s, MadeService(heap, p), TRUE, net)
SenderFromConf(s, c, net)   == Built(s, MadeFromConf(heap, c), TRUE, net)
SenderFromEnv(s, c, net)    == Built(s, MadeFromEnv(heap, c), TRUE, net)

\* line_sender(const opts&).
SenderFromOpts(s, o, net) ==
    /\ Alive(opts[o])
    /\ Built(s, [heap |-> heap, ret |-> opts[o].impl, out |-> Returned, ub |-> FALSE],
             FALSE, net)

SenderMove(s, t) ==
    /\ ~Alive(snds[s]) /\ Alive(snds[t])
    /\ snds' = [snds EXCEPT ![s] = snds[t], ![t] = Handle(NULL)]
    /\ Leaves(Done(heap))
    /\ UNCHANGED opts

\* close().
Closed(h, s) == IF s.impl = NULL THEN Void(h) ELSE line_sender_close(h, s.impl)

\* operator=(line_sender&&).
SenderMoveAssign(s, t) ==
    /\ Alive(snds[s]) /\ Alive(snds[t])
    /\ IF s = t THEN Leaves(Done(heap)) /\ UNCHANGED snds
       ELSE /\ Leaves(After(Closed(heap, snds[s])))
            /\ snds' = [snds EXCEPT ![s] = snds[t], ![t] = Handle(NULL)]
    /\ UNCHANGED opts

Close(s) ==
    /\ Alive(snds[s])
    /\ Leaves(After(Closed(heap, snds[s])))
    /\ snds' = [snds EXCEPT ![s] = Handle(NULL)]
    /\ UNCHANGED opts

SenderDestroy(s) ==
    /\ Alive(snds[s])
    /\ Leaves(After(Closed(heap, snds[s])))
    /\ snds' = [snds EXCEPT ![s] = Dead]
    /\ UNCHANGED opts

\* ensure_impl: "Sender closed."
SenderClosed(h) == [heap |-> h, out |-> Threw("InvalidApiCall"), ub |-> FALSE]

\* flush(): the buffer is allocated even when the sender is closed.
SenderFlush(s, v, net) ==
    LET i == may_init(heap, bufs[v])
    IN  /\ Alive(snds[s]) /\ Live(v)
        /\ Ends(v, i.obj,
                IF snds[s].impl = NULL THEN SenderClosed(i.heap)
                ELSE wrapped_call(line_sender_flush(i.heap, snds[s].impl,
                                                    i.obj.impl, net)))
        /\ UNCHANGED <<opts, snds>>

\* Mutant: the second buffer is not freed.
SenderFlushAndKeep_leaks(s, v, net) ==
    LET i == may_init(heap, Object(NULL, 127))
    IN  /\ Alive(snds[s]) /\ Live(v)
        /\ bufs[v].impl = NULL /\ snds[s].impl # NULL
        /\ Ends(v, bufs[v], wrapped_call(line_sender_flush_and_keep(
                              i.heap, snds[s].impl, i.obj.impl, net)))
        /\ UNCHANGED <<opts, snds>>

(***************************************************************************)
(* flush_and_keep(): the buffer is const, so one without a C buffer is     *)
(* stood in for by another, and there the sender is not looked at.         *)
(***************************************************************************)
SenderFlushAndKeep(s, v, net) ==
    LET i == may_init(heap, Object(NULL, 127))
        r == wrapped_call(line_sender_flush_and_keep(i.heap, snds[s].impl, i.obj.impl, net))
        f == line_sender_buffer_free(r.heap, i.obj.impl)
    IN  /\ Alive(snds[s]) /\ Live(v)
        /\ Ends(v, bufs[v],
                IF bufs[v].impl = NULL
                  THEN [heap |-> f.heap, out |-> r.out, ub |-> r.ub \/ f.ub]
                ELSE IF snds[s].impl = NULL THEN SenderClosed(heap)
                ELSE wrapped_call(line_sender_flush_and_keep(
                                    heap, snds[s].impl, bufs[v].impl, net)))
        /\ UNCHANGED <<opts, snds>>

\* Mutant: a closed sender says that it must be closed.
MustClose_closed(s) ==
    /\ Alive(snds[s])
    /\ Leaves([heap |-> heap, ub |-> FALSE,
               out |-> <<"must_close", snds[s].impl = NULL
                                        \/ ~heap[snds[s].impl].sender.connected>>])
    /\ UNCHANGED <<opts, snds>>

MustClose(s) ==
    LET r == IF snds[s].impl = NULL THEN Return(heap, FALSE)
                                    ELSE line_sender_must_close(heap, snds[s].impl)
    IN  /\ Alive(snds[s])
        /\ Leaves([heap |-> r.heap, out |-> <<"must_close", r.ret>>, ub |-> r.ub])
        /\ UNCHANGED <<opts, snds>>

SendersNext ==
    \E s \in Senders :
      \/ \E net \in BuildNet :
           \/ \E p \in Ps : SenderNew(s, p, net) \/ SenderNewService(s, p, net)
           \/ \E c \in Confs : SenderFromConf(s, c, net) \/ SenderFromEnv(s, c, net)
           \/ \E o \in Opts : SenderFromOpts(s, o, net)
      \/ \E t \in Senders : SenderMove(s, t) \/ SenderMoveAssign(s, t)
      \/ Close(s) \/ SenderDestroy(s) \/ MustClose(s)
      \/ \E v \in Bufs, net \in FlushNet :
           SenderFlush(s, v, net) \/ SenderFlushAndKeep(s, v, net)

-----------------------------------------------------------------------------
\* Of the buffer's methods, enough to make a row and to move a buffer away.
RowsNext ==
    /\ \E v \in Bufs :
         \/ \E n \in MaxNameLens : Construct(v, n)
         \/ \E w \in Bufs : MoveAssign(v, w)
         \/ Destroy(v)
         \/ \E n \in Tables : Table(v, n) \/ Symbol(v, n, "text")
         \/ AtNow(v)
    /\ UNCHANGED <<opts, snds>>

Objects == {o \in Opts : Alive(opts[o])} \cup {s \in Senders : Alive(snds[s])}
             \cup {v \in Bufs : Live(v)}

SenderStatement ==
    /\ OptsNext \/ SendersNext \/ RowsNext
    /\ Cardinality(Objects') <= MaxObjects

Next ==
    \/ ~ub /\ SenderStatement
    \/ ub /\ UNCHANGED vars

Spec == SenderInit /\ [][Next]_vars

-----------------------------------------------------------------------------
\* What the objects are worth.
OptsValue(o) == IF o \in {Dead, Handle(NULL)} THEN o
                ELSE [builder |-> heap[o.impl].builder]
SenderValue(s) == IF s \in {Dead, Handle(NULL)} THEN s
                  ELSE [sender |-> heap[s.impl].sender]

Worth == INSTANCE ValueSender WITH
           vals  <- [v \in Bufs |-> Value(bufs[v])],
           ovals <- [o \in Opts |-> OptsValue(opts[o])],
           svals <- [s \in Senders |-> SenderValue(snds[s])]

\* Everything that owns address a, of the kind that its class owns.
OwnersOf(a, kind) ==
    CASE kind = "buffer" -> Owners(a)
      [] kind = "opts"   -> {o \in Opts : opts[o] = Handle(a)}
      [] kind = "sender" -> {s \in Senders : snds[s] = Handle(a)}
      [] OTHER           -> {}

OneOwnerOf ==
    \A a \in Addr :
      /\ heap[a].kind # "error"
      /\ heap[a] # Freed => Cardinality(OwnersOf(a, heap[a].kind)) = 1
      /\ \A k \in {"buffer", "opts", "sender"} \ {heap[a].kind} : OwnersOf(a, k) = {}

\* The statements that hand null to the C interface: those that read options
\* which were moved from, and flush_and_keep of a buffer without a C buffer
\* through a sender that was closed or moved from.
UsesNull ==
    \/ \E o \in Opts :
         /\ opts[o] = Handle(NULL)
         /\ \/ OptsSet(o)
            \/ \E p \in Opts : OptsCopy(p, o) \/ OptsCopyAssign(p, o)
            \/ \E s \in Senders, net \in BuildNet : SenderFromOpts(s, o, net)
    \/ \E s \in Senders, v \in Bufs, net \in FlushNet :
         SenderFlushAndKeep(s, v, net) /\ snds[s] = Handle(NULL) /\ bufs[v].impl = NULL

\* Between statements every C object has exactly one owner, of its class:
\* a constructor that throws, a temporary opts, the stand-in buffer of
\* flush_and_keep, self-assignment and close() leak nothing, and no pointer
\* to freed memory is kept.  The statements in which the classes do not test
\* for null are the only undefined ones: a dummy builder, a spoilt sender, an
\* exception or a sender that throws "Sender closed." never lead to one.
AllOwned == [](~ub => OneOwnerOf) /\ [][ub' => ub \/ UsesNull]_vars

\* The three classes behave as values: setters change one object's builder,
\* a sender is what its options were when it was built and stays spoilt
\* wherever it is moved, a closed sender throws, and a flush clears the
\* buffer only when it succeeds.  Only options that were moved from and a
\* flush_and_keep through a closed sender may be undefined.
ActsAsValues == Worth!SenderSpec

\* "Sender closed.": what ensure_impl says of a flush through a sender that
\* was closed or moved from.
ClosedSenderThrows ==
    [][\A s \in Senders, v \in Bufs, net \in FlushNet :
          snds[s] = Handle(NULL) /\ (SenderFlush(s, v, net) \/ SenderFlushAndKeep(s, v, net))
            => ~ub' /\ out' = Threw("InvalidApiCall")]_vars
=============================================================================

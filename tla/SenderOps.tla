----------------------------- MODULE SenderOps -----------------------------
(***************************************************************************)
(* `Sender` and its flush (questdb-rs/src/ingress/mod.rs) as one step, for *)
(* the modules that use senders.  net is what the network does: modules    *)
(* Sender and HttpRetry have the steps of a flush.                         *)
(***************************************************************************)
EXTENDS BufferOps, BuilderOps

\* Sender: what is told apart of one.
NewSender(b) == [protocol |-> b.protocol, agent |-> b.user_agent, connected |-> TRUE]

\* Sender::flush_impl up to the network: an error, "Ok", or "Go" when the
\* text must be sent.
FlushCheck(s, b, txn, max) ==
    IF ~s.connected THEN "SocketError"
    ELSE IF ~check_op(b, "Flush") \/ Len(b.output) > max THEN "InvalidApiCall"
    ELSE IF b.output = <<>> THEN "Ok"
    ELSE IF txn /\ (is_tcpx(s.protocol) \/ ~b.state.transactional)
           THEN "InvalidApiCall"
    ELSE "Go"

\* A flush: the sender and the buffer after it, and what it returned.  A
\* write that fails spoils a TCP sender for good.
flush_impl(s, b, keep, txn, net, max) ==
    LET check == FlushCheck(s, b, txn, max)
        res   == IF check = "Go" THEN net ELSE check
    IN  [ sender |-> [s EXCEPT !.connected =
                        @ /\ ~(check = "Go" /\ net # "Ok" /\ is_tcpx(s.protocol))],
          buf    |-> IF res = "Ok" /\ ~keep THEN clear(b).buf ELSE b,
          res    |-> res ]
=============================================================================

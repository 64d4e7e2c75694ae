------------------------------ MODULE MCSender ------------------------------
(***************************************************************************)
(* A sender over TCP with two buffers of up to two rows, of which it takes *)
(* one row at a time; and a sender over HTTP with a buffer of up to three  *)
(* rows of two tables, of which it takes two.                              *)
(***************************************************************************)
EXTENDS Sender

CONSTANTS b1, b2, t1, t2

MCSetups ==
    { [protocol |-> "tcp",  bufs |-> {b1, b2}, tables |-> {t1},
       max_buf_size |-> 3, max_tokens |-> 6],
      [protocol |-> "http", bufs |-> {b1}, tables |-> {t1, t2},
       max_buf_size |-> 6, max_tokens |-> 9] }

MCCodes == {401, 404, 503}
=============================================================================

-------------------------------- MODULE CApi --------------------------------
(***************************************************************************)
(* The C interface (include/questdb/ingress/line_sender.h), implemented by *)
(* questdb-rs-ffi/src/lib.rs: the objects that it gives out as pointers,   *)
(* and its functions as operators from a heap and arguments to the heap    *)
(* after the call, what it returns, and what it stores in *err_out.        *)
(*                                                                         *)
(* A freed address may be given out again.  A call that follows NULL or a  *)
(* pointer to something else is undefined behaviour, which a result has in *)
(* its field ub.  As in C, NULL and false are 0.                           *)
(***************************************************************************)
EXTENDS SenderOps, FiniteSets

CONSTANTS
    Addr,         \* the addresses of objects
    NameLen,      \* the length of each name of Tables
    MaxBufSize    \* max_buf_size of every sender, in pieces of text

ASSUME CApiAssumption ==
    /\ Addr \subseteq Nat \ {0}
    /\ MaxBufSize \in Nat
    /\ NameLen \in [Tables -> Nat]

NULL  == 0
false == 0
true  == 1

Freed == [kind |-> "freed"]

line_sender_error_code ==
    {"CouldNotResolveAddr", "InvalidApiCall", "SocketError", "InvalidUtf8",
     "InvalidName", "InvalidTimestamp", "AuthError", "TlsError",
     "HttpNotSupported", "ServerFlushError", "ConfigError"}

line_sender_protocol == Protocols
line_sender_ca       == CAs

\* The objects behind the pointers.
line_sender_error(code)   == [kind |-> "error", code |-> code]
line_sender_buffer(b, n)  == [kind |-> "buffer", buf |-> b, max_name_len |-> n]
line_sender_opts(b)       == [kind |-> "opts", builder |-> b]
line_sender(s)           == [kind |-> "sender", sender |-> s]

-----------------------------------------------------------------------------
\* Box::into_raw: the address of a new object.
Fresh(h) == CHOOSE a \in Addr : h[a] = Freed

Points(h, p, kind) == p # NULL /\ h[p].kind = kind

Return(h, r) == [heap |-> h, ret |-> r, err |-> NULL, ub |-> FALSE]
Void(h)      == Return(h, 0)
Undefined(h) == [heap |-> h, ret |-> 0, err |-> NULL, ub |-> TRUE]

\* Return a pointer to a new object.
Give(h, obj) == Return([h EXCEPT ![Fresh(h)] = obj], Fresh(h))

\* bubble_err_to_c! and set_err_out: a new error, and the sentinel.
Fail(h, code, sentinel) ==
    [heap |-> [h EXCEPT ![Fresh(h)] = line_sender_error(code)],
     ret  |-> sentinel,
     err  |-> Fresh(h),
     ub   |-> FALSE]

\* drop(Box::from_raw(p)) unless p is NULL.
Drop(h, p, kind) ==
    IF p = NULL THEN Void(h)
    ELSE IF Points(h, p, kind) THEN Void([h EXCEPT ![p] = Freed])
    ELSE Undefined(h)

line_sender_error_get_code(h, e) ==
    IF Points(h, e, "error") THEN Return(h, h[e].code) ELSE Undefined(h)

\* The text is left out; the call follows the pointer.
line_sender_error_msg(h, e) ==
    IF Points(h, e, "error") THEN Return(h, "msg") ELSE Undefined(h)

line_sender_error_free(h, e) == Drop(h, e, "error")

-----------------------------------------------------------------------------
(***************************************************************************)
(* Strings and names.  A good name, of a table or of a column, is in       *)
(* Tables; NotName and NotUtf8 are refused before a buffer sees them.      *)
(***************************************************************************)
NotUtf8 == "not UTF-8"
NotName == "not a name"

line_sender_utf8_init(h, s) ==
    IF s = NotUtf8 THEN Fail(h, "InvalidUtf8", false) ELSE Return(h, true)

\* A name is text first, then what TableName::new or ColumnName::new accepts.
NameInit(h, s) ==
    LET r == line_sender_utf8_init(h, s)
    IN  IF r.ret = true /\ s = NotName THEN Fail(h, "InvalidName", false) ELSE r

line_sender_table_name_init(h, s)  == NameInit(h, s)
line_sender_column_name_init(h, s) == NameInit(h, s)

\* The _assert functions panic, which ends the program.
line_sender_utf8_assert(h, s) ==
    IF s = NotUtf8 THEN Undefined(h) ELSE Return(h, s)
line_sender_table_name_assert(h, s) ==
    IF s \in {NotName, NotUtf8} THEN Undefined(h) ELSE Return(h, s)
line_sender_column_name_assert(h, s) ==
    IF s \in {NotName, NotUtf8} THEN Undefined(h) ELSE Return(h, s)

-----------------------------------------------------------------------------
(***************************************************************************)
(* Buffers.                                                                *)
(***************************************************************************)
line_sender_buffer_with_max_name_len(h, n) ==
    Give(h, line_sender_buffer(NewBuffer, n))

line_sender_buffer_new(h) == line_sender_buffer_with_max_name_len(h, 127)

line_sender_buffer_free(h, b) == Drop(h, b, "buffer")

line_sender_buffer_clone(h, b) ==
    IF Points(h, b, "buffer") THEN Give(h, h[b]) ELSE Undefined(h)

\* unwrap_buffer: read a buffer, which has no capacity here.
Read(h, b, v) == IF Points(h, b, "buffer") THEN Return(h, v) ELSE Undefined(h)

line_sender_buffer_reserve(h, b)       == Read(h, b, 0)
line_sender_buffer_size(h, b)          == Read(h, b, Len(h[b].buf.output))
line_sender_buffer_row_count(h, b)     == Read(h, b, h[b].buf.state.row_count)
line_sender_buffer_transactional(h, b) == Read(h, b, h[b].buf.state.transactional)
line_sender_buffer_peek(h, b)          == Read(h, b, h[b].buf.output)

\* unwrap_buffer_mut, an operation of Buffer, and bubble_err_to_c!.
BufferCall(h, b, r) ==
    IF ~Points(h, b, "buffer") THEN Undefined(h)
    ELSE LET w == [h EXCEPT ![b].buf = r.buf]
         IN  IF r.res = "Ok" THEN Return(w, true) ELSE Fail(w, r.res, false)

line_sender_buffer_set_marker(h, b)       == BufferCall(h, b, set_marker(h[b].buf))
line_sender_buffer_rewind_to_marker(h, b) == BufferCall(h, b, rewind_to_marker(h[b].buf))
line_sender_buffer_clear_marker(h, b)     == BufferCall(h, b, clear_marker(h[b].buf))
line_sender_buffer_clear(h, b)            == BufferCall(h, b, clear(h[b].buf))

\* validate_max_name_len.
Fits(h, b, n) == NameLen[n] <= h[b].max_name_len

line_sender_buffer_table(h, b, n) ==
    BufferCall(h, b, table(h[b].buf, IF Fits(h, b, n) THEN n ELSE BadName))
line_sender_buffer_symbol(h, b, n) == BufferCall(h, b, symbol(h[b].buf, Fits(h, b, n)))
line_sender_buffer_column_bool(h, b, n) == BufferCall(h, b, column(h[b].buf, Fits(h, b, n)))
line_sender_buffer_column_i64(h, b, n)  == BufferCall(h, b, column(h[b].buf, Fits(h, b, n)))
line_sender_buffer_column_f64(h, b, n)  == BufferCall(h, b, column(h[b].buf, Fits(h, b, n)))
line_sender_buffer_column_str(h, b, n)  == BufferCall(h, b, column(h[b].buf, Fits(h, b, n)))

Nanos(v)  == {[unit |-> "nanos", v |-> v]}
Micros(v) == {[unit |-> "micros", v |-> v]}

line_sender_buffer_column_ts_nanos(h, b, n, v) ==
    BufferCall(h, b, column_ts(h[b].buf, Fits(h, b, n), Nanos(v)))
line_sender_buffer_column_ts_micros(h, b, n, v) ==
    BufferCall(h, b, column_ts(h[b].buf, Fits(h, b, n), Micros(v)))
line_sender_buffer_at_nanos(h, b, v)  == BufferCall(h, b, at(h[b].buf, Nanos(v)))
line_sender_buffer_at_micros(h, b, v) == BufferCall(h, b, at(h[b].buf, Micros(v)))
line_sender_buffer_at_now(h, b)       == BufferCall(h, b, at_now(h[b].buf))

-----------------------------------------------------------------------------
(***************************************************************************)
(* Options.                                                                *)
(***************************************************************************)
\* SenderBuilder::from_conf (module Opts): a builder, or a ConfigError.
line_sender_opts_from_conf(h, r) ==
    IF r.res = "Ok" THEN Give(h, line_sender_opts(r.builder))
                    ELSE Fail(h, r.res, NULL)

\* The same on the text of QDB_CLIENT_CONF, or a ConfigError without one.
line_sender_opts_from_env(h, r) == line_sender_opts_from_conf(h, r)

line_sender_opts_new(h, p, addr) ==
    Give(h, line_sender_opts(user_agent(new(p, addr), "questdb/c").builder))

line_sender_opts_new_service(h, p, addr) == line_sender_opts_new(h, p, addr)

\* The builder that a failed setter leaves behind.
DummyBuilder == new("tcp", "localhost:1")

\* upd_opts!: the setter consumes the builder and gives back another.
upd_opts(h, o, r) ==
    IF ~Points(h, o, "opts") THEN Undefined(h)
    ELSE IF r.res = "Ok" THEN Return([h EXCEPT ![o].builder = r.builder], true)
    ELSE Fail([h EXCEPT ![o].builder = DummyBuilder], r.res, false)

OptsCall(h, o, s, v) == upd_opts(h, o, Setter(h[o].builder, s, v))

line_sender_opts_bind_interface(h, o, v) == OptsCall(h, o, "bind_interface", v)
line_sender_opts_username(h, o, v)       == OptsCall(h, o, "username", v)
line_sender_opts_password(h, o, v)       == OptsCall(h, o, "password", v)
line_sender_opts_token(h, o, v)          == OptsCall(h, o, "token", v)
line_sender_opts_token_x(h, o, v)        == OptsCall(h, o, "token_x", v)
line_sender_opts_token_y(h, o, v)        == OptsCall(h, o, "token_y", v)
line_sender_opts_auth_timeout(h, o, v)   == OptsCall(h, o, "auth_timeout", v)
line_sender_opts_tls_verify(h, o, v)     == OptsCall(h, o, "tls_verify", v)
line_sender_opts_tls_ca(h, o, v)         == OptsCall(h, o, "tls_ca", v)
line_sender_opts_tls_roots(h, o, v)      == OptsCall(h, o, "tls_roots", v)
line_sender_opts_max_buf_size(h, o, v)   == OptsCall(h, o, "max_buf_size", v)
line_sender_opts_retry_timeout(h, o, v)  == OptsCall(h, o, "retry_timeout", v)
line_sender_opts_request_min_throughput(h, o, v) ==
    OptsCall(h, o, "request_min_throughput", v)
line_sender_opts_request_timeout(h, o, v) == OptsCall(h, o, "request_timeout", v)
line_sender_opts_user_agent(h, o, v) == upd_opts(h, o, user_agent(h[o].builder, v))

line_sender_opts_clone(h, o) ==
    IF Points(h, o, "opts") THEN Give(h, h[o]) ELSE Undefined(h)

line_sender_opts_free(h, o) == Drop(h, o, "opts")

-----------------------------------------------------------------------------
(***************************************************************************)
(* Senders.  net is what the network does (module SenderOps).              *)
(***************************************************************************)
\* Give a sender for a builder, or the error.
GiveSender(h, b, net) ==
    IF build(b, net) = "Ok" THEN Give(h, line_sender(NewSender(b)))
                            ELSE Fail(h, build(b, net), NULL)

\* The options are read and stay with the caller.
line_sender_build(h, o, net) ==
    IF Points(h, o, "opts") THEN GiveSender(h, h[o].builder, net) ELSE Undefined(h)

line_sender_from_conf(h, r, net) ==
    IF r.res = "Ok" THEN GiveSender(h, user_agent(r.builder, "questdb/c").builder, net)
                    ELSE Fail(h, r.res, NULL)

line_sender_from_env(h, r, net) == line_sender_from_conf(h, r, net)

line_sender_must_close(h, s) ==
    IF Points(h, s, "sender") THEN Return(h, ~h[s].sender.connected) ELSE Undefined(h)

line_sender_close(h, s) == Drop(h, s, "sender")

Flush(h, s, b, keep, net) ==
    IF ~Points(h, s, "sender") \/ ~Points(h, b, "buffer") THEN Undefined(h)
    ELSE LET r == flush_impl(h[s].sender, h[b].buf, keep, FALSE, net, MaxBufSize)
             w == [h EXCEPT ![s].sender = r.sender, ![b].buf = r.buf]
         IN  IF r.res = "Ok" THEN Return(w, true) ELSE Fail(w, r.res, false)

line_sender_flush(h, s, b, net)          == Flush(h, s, b, FALSE, net)
line_sender_flush_and_keep(h, s, b, net) == Flush(h, s, b, TRUE, net)
=============================================================================

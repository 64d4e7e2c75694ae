----------------------------- MODULE HttpError -----------------------------
(***************************************************************************)
(* The outcomes of one HTTP request and what questdb-rs/src/ingress/       *)
(* http.rs makes of them.  An outcome is what ureq returns: a response, an *)
(* error with a status, or a transport error (connection refused or reset, *)
(* timeout, ...).                                                          *)
(***************************************************************************)
EXTENDS Integers

CONSTANT Codes    \* the HTTP status codes a server may answer an error with

ASSUME CodesAssumption == Codes \subseteq 400 .. 599

Accepted    == [k |-> "Ok", code |-> 200]
Transport   == [k |-> "Transport", code |-> 0]
Status(c)   == [k |-> "Status", code |-> c]

UreqErrors == {Transport} \cup {Status(c) : c \in Codes}
Outcomes   == {Accepted} \cup UreqErrors

is_retriable_error(err) ==
    \/ err.k = "Transport"
    \/ err.k = "Status" /\ err.code \in {500, 503, 504, 507, 509, 523, 524, 529, 599}

(***************************************************************************)
(* The error code flush() reports.  Reading the body of the response may   *)
(* fail in its turn; the text it puts in the message is left out.          *)
(***************************************************************************)
parse_http_error(code) ==
    CASE code = 404          -> {"HttpNotSupported"}
      [] code \in {401, 403} -> {"AuthError"}
      [] OTHER               -> {"ServerFlushError", "SocketError"}

flush_error(err) ==
    IF err.k = "Transport" THEN {"SocketError"} ELSE parse_http_error(err.code)
=============================================================================

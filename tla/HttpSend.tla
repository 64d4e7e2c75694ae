------------------------------ MODULE HttpSend ------------------------------
(***************************************************************************)
(* What http_send_with_retries promises to flush(), without the clock: it  *)
(* posts the same request one or more times, the server takes each post in *)
(* at most once and possibly late, and Ok is returned only when the server *)
(* has taken one in.  Delivery is at-least-once on Ok, and on an error the *)
(* data may be there, even more than once.                                 *)
(***************************************************************************)
EXTENDS Integers

CONSTANT Errors

VARIABLES
    posted,      \* how many times the request was posted
    applied,     \* how many times the server has taken its rows in
    result       \* what the call returned, "none" while it runs

vars == <<posted, applied, result>>

Init == posted = 0 /\ applied = 0 /\ result = "none"

Post ==
    /\ result = "none"
    /\ posted' = posted + 1
    /\ UNCHANGED <<applied, result>>

Apply ==
    /\ applied < posted
    /\ applied' = applied + 1
    /\ UNCHANGED <<posted, result>>

Return ==
    /\ result = "none"
    /\ posted > 0
    /\ result' \in Errors \cup (IF applied > 0 THEN {"Ok"} ELSE {})
    /\ UNCHANGED <<posted, applied>>

Next == Post \/ Apply \/ Return

SafeSpec == Init /\ [][Next]_vars

\* The call does return.
Spec == SafeSpec /\ <>(result # "none")
=============================================================================

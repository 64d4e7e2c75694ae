----------------------------- MODULE HttpRetry -----------------------------
(***************************************************************************)
(* One flush over HTTP: http_send_with_retries and retry_http_send of      *)
(* questdb-rs/src/ingress/http.rs, with the network and the server they    *)
(* talk to.  Times are in milliseconds.                                    *)
(*                                                                         *)
(* The client posts the request and waits for its outcome; ureq bounds the *)
(* wait by the request timeout.  A request that the client has given up    *)
(* may still reach the server later, and a response may be lost after the  *)
(* server has taken the rows in.                                           *)
(***************************************************************************)
EXTENDS HttpError

CONSTANTS
    RetryTimeout,     \* retry_timeout of the sender
    RequestTimeout,   \* the timeout of one request
    MaxOversleep      \* how late sleep() may wake up

ASSUME RetryTimeoutAssumption   == RetryTimeout \in Nat
ASSUME RequestTimeoutAssumption == RequestTimeout \in Nat
ASSUME MaxOversleepAssumption   == MaxOversleep \in Nat

VARIABLES
    pc,                  \* where the client is
    now,                 \* the clock
    retry_end,           \* when the budget ends, set on entry to the loop
    retry_interval_ms,   \* the backoff before jitter
    wake_at,             \* the end of the sleep
    last_err,            \* the last error, what exhausting the budget returns
    result,              \* what the call returned; Running until then
    wire,                \* posts the server has not dealt with
    reply,               \* the answer to the post the client waits for, if any
    posted,              \* history: posts made
    applied,             \* history: posts whose rows the server took in
    slept,               \* history: sum of the sleeps asked for
    last                 \* history: the outcome of the latest attempt

client == <<pc, now, retry_end, retry_interval_ms, wake_at, last_err, result>>
httpvars   == <<client, wire, reply, posted, applied, slept, last>>

Running == [k |-> "none", code |-> 0]

HttpInit ==
    /\ pc = "send" /\ now = 0 /\ retry_end = 0
    /\ retry_interval_ms = 10 /\ wake_at = 0
    /\ last_err = Running /\ result = Running
    /\ wire = {} /\ reply = {}
    /\ posted = 0 /\ applied = 0 /\ slept = 0 /\ last = Running

-----------------------------------------------------------------------------
(***************************************************************************)
(* The client.                                                             *)
(***************************************************************************)
\* request.clone().send_bytes(buf): the first attempt and every retry.
SendBytes ==
    /\ pc = "send"
    /\ pc' = "await"
    /\ posted' = posted + 1
    /\ wire' = wire \cup {posted'}
    /\ reply' = {}
    /\ UNCHANGED <<now, retry_end, retry_interval_ms, wake_at, last_err, result,
                   applied, slept, last>>

\* What the caller of send_bytes does with its outcome o.
ReturnOutcome(o) ==
    /\ pc' = "done"
    /\ result' = o
    /\ UNCHANGED <<retry_end, retry_interval_ms, last_err>>

\* http_send_with_retries, after the first attempt.
FirstOutcome(o) ==
    IF o.k = "Ok" \/ RetryTimeout = 0 \/ ~is_retriable_error(o)
      THEN ReturnOutcome(o)
      ELSE /\ pc' = "backoff"
           /\ retry_end' = now' + RetryTimeout
           /\ last_err' = o
           /\ UNCHANGED <<retry_interval_ms, result>>

\* The backoff doubles up to a second.
NextInterval(ms) == IF ms * 2 <= 1000 THEN ms * 2 ELSE 1000

\* Mutant: the first error is the one that is kept.
RetryOutcome_first_error(o) ==
    IF o.k = "Ok" \/ ~is_retriable_error(o)
      THEN ReturnOutcome(o)
      ELSE /\ pc' = "backoff"
           /\ retry_interval_ms' = NextInterval(retry_interval_ms)
           /\ UNCHANGED <<retry_end, last_err, result>>

\* Mutant: every retry starts a new budget.
RetryOutcome_new_budget(o) ==
    IF o.k = "Ok" \/ ~is_retriable_error(o)
      THEN ReturnOutcome(o)
      ELSE /\ pc' = "backoff"
           /\ retry_interval_ms' = NextInterval(retry_interval_ms)
           /\ retry_end' = now' + RetryTimeout
           /\ last_err' = o
           /\ UNCHANGED result

\* retry_http_send, after a retry.
RetryOutcome(o) ==
    IF o.k = "Ok" \/ ~is_retriable_error(o)
      THEN ReturnOutcome(o)
      ELSE /\ pc' = "backoff"
           /\ retry_interval_ms' = NextInterval(retry_interval_ms)
           /\ last_err' = o
           /\ UNCHANGED <<retry_end, result>>

\* The attempt ends with outcome o after d ms.
Outcome(o, d) ==
    /\ pc = "await"
    /\ now' = now + d
    /\ IF posted = 1 THEN FirstOutcome(o) ELSE RetryOutcome(o)
    /\ reply' = {}
    /\ last' = o
    /\ UNCHANGED <<wake_at, wire, posted, applied, slept>>

\* Mutant: any response counts as a success.
Answered_unchecked ==
    \E o \in reply, d \in 0 .. RequestTimeout :
      Outcome(IF o.k = "Status" THEN Accepted ELSE o, d)

\* The server's answer arrives in time.
Answered ==
    \E o \in reply, d \in 0 .. RequestTimeout : Outcome(o, d)

\* Mutant: a timeout counts as a success.
Failed_as_ok ==
    \E d \in 0 .. RequestTimeout : Outcome(Accepted, d)

\* Mutant: no timeout is set on the request.
Failed_without_timeout ==
    posted \notin wire /\ \E d \in 0 .. RequestTimeout : Outcome(Transport, d)

\* The connection fails, or the timeout passes with or without an answer.
Failed ==
    \E d \in 0 .. RequestTimeout : Outcome(Transport, d)

\* The head of the loop in retry_http_send: sleep, or give up.
Backoff ==
    /\ pc = "backoff"
    /\ \E jitter_ms \in -5 .. 4 :
         LET to_sleep_ms == retry_interval_ms + jitter_ms
         IN  IF now + to_sleep_ms > retry_end
               THEN /\ ReturnOutcome(last_err)
                    /\ UNCHANGED <<wake_at, slept>>
               ELSE /\ pc' = "asleep"
                    /\ wake_at' = now + to_sleep_ms
                    /\ slept' = slept + to_sleep_ms
                    /\ UNCHANGED <<retry_end, retry_interval_ms, last_err, result>>
    /\ UNCHANGED <<now, wire, reply, posted, applied, last>>

\* sleep() returns no earlier than asked.
Wake ==
    /\ pc = "asleep"
    /\ \E late \in 0 .. MaxOversleep : now' = wake_at + late
    /\ pc' = "send"
    /\ UNCHANGED <<retry_end, retry_interval_ms, wake_at, last_err, result,
                   wire, reply, posted, applied, slept, last>>

-----------------------------------------------------------------------------
(***************************************************************************)
(* The server and the network, which may be slow: a post can be dealt with *)
(* after the client has given it up.  Only a post still waited for can be  *)
(* answered.                                                               *)
(***************************************************************************)
Answer(p, o) == IF pc = "await" /\ p = posted THEN {o} ELSE {}

Take(p) == wire' = wire \ {p} /\ UNCHANGED <<client, posted, slept, last>>

\* The server takes the rows in; its answer may be lost (then Failed).
ServerApply ==
    \E p \in wire :
      /\ Take(p)
      /\ applied' = applied + 1
      /\ reply' = Answer(p, Accepted) \cup reply

\* The rows are refused.
ServerRefuse ==
    \E p \in wire, c \in Codes :
      /\ Take(p)
      /\ reply' = Answer(p, Status(c)) \cup reply
      /\ UNCHANGED applied

\* The server took the rows in, but answers with a retriable error (a gateway
\* that timed out, a failure after the commit).
ServerApplyAndFail ==
    \E p \in wire, c \in Codes :
      /\ is_retriable_error(Status(c))
      /\ Take(p)
      /\ applied' = applied + 1
      /\ reply' = Answer(p, Status(c)) \cup reply

\* The post never reaches the server.
Lose == \E p \in wire : Take(p) /\ UNCHANGED <<reply, applied>>

Client == SendBytes \/ Answered \/ Failed \/ Backoff \/ Wake
Server == ServerApply \/ ServerRefuse \/ ServerApplyAndFail \/ Lose

\* The call has returned and the server has dealt with every post.
Quiet == pc = "done" /\ wire = {} /\ UNCHANGED httpvars

HttpNext == Client \/ Server \/ Quiet

\* The client runs: it is one thread, and ureq's timeout ends every wait.
HttpSpec == HttpInit /\ [][HttpNext]_httpvars /\ WF_httpvars(Client)

-----------------------------------------------------------------------------
(***************************************************************************)
(* Properties.                                                             *)
(***************************************************************************)

(***************************************************************************)
(* The types of the locals of the two functions, the wire and the history. *)
(***************************************************************************)
TypeOK ==
    /\ pc \in {"send", "await", "backoff", "asleep", "done"}
    /\ now \in Nat /\ retry_end \in Nat /\ wake_at \in Nat
    /\ retry_interval_ms \in 10 .. 1000
    /\ last_err \in UreqErrors \cup {Running}
    /\ result \in Outcomes \cup {Running}
    /\ posted \in Nat /\ applied \in Nat /\ slept \in Nat
    /\ wire \subseteq 1 .. posted /\ reply \subseteq Outcomes
    /\ last \in Outcomes \cup {Running}

(***************************************************************************)
(* The sleeps that retry_http_send asks for add up to no more than         *)
(* retry_timeout, however long the requests take and however late sleep()  *)
(* wakes up.                                                               *)
(***************************************************************************)
SleepWithinBudget == slept <= RetryTimeout

(***************************************************************************)
(* A flush never lasts longer than the first request, the retry budget,    *)
(* one late wake-up and one last request: lateness does not add up.        *)
(***************************************************************************)
DurationBounded == now <= RetryTimeout + MaxOversleep + 2 * RequestTimeout

(***************************************************************************)
(* Only retriable errors are retried, and the caller gets the outcome of   *)
(* the last attempt, not of an earlier one.                                *)
(***************************************************************************)
LastOutcomeReturned ==
    /\ posted > 0 /\ pc \in {"send", "backoff", "asleep"} => is_retriable_error(last)
    /\ pc = "done" => result = last

(***************************************************************************)
(* Ok is reported only when the server has taken the rows in, and rows are *)
(* never taken in more often than they were posted.                        *)
(***************************************************************************)
OkMeansApplied ==
    /\ result = Accepted => applied > 0
    /\ applied <= posted

(***************************************************************************)
(* The call returns, whatever the network and the server do.               *)
(***************************************************************************)
Returns == <>(pc = "done")

(***************************************************************************)
(* The retry loop implements at-least-once delivery.                       *)
(***************************************************************************)
Send == INSTANCE HttpSend WITH Errors <- {"Transport", "Status"}, result <- result.k
ImplementsHttpSend == Send!Spec
=============================================================================

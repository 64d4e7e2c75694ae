---------------------------- MODULE ValueSender ----------------------------
(***************************************************************************)
(* What the C++ classes promise: values.  An options variable holds a      *)
(* builder, a sender variable a sender, or each is empty after a move or a *)
(* close; nothing is allocated or freed.                                   *)
(***************************************************************************)
EXTENDS ValueBuffer, SenderOps

CONSTANTS Opts, Senders, Ps, Confs, Args, BuildNet, FlushNet, MaxBufSize

VARIABLES ovals, svals

values == <<vals, ovals, svals, out, ub>>

Empty == [impl |-> 0]
Holds(b) == [builder |-> b]
Sends(s) == [sender |-> s]
Filled(x) == x \notin {Dead, Empty}

ValuesInit ==
    /\ Init
    /\ ovals = [o \in Opts |-> Dead]
    /\ svals = [s \in Senders |-> Dead]

Says(res) == out' = IF res = "Ok" THEN <<"returned">> ELSE <<"threw", res>>

\* The agent is that of C++, but for options read from a string.
Agent(b) == user_agent(b, "questdb/c++").builder

Builders ==
    {Builder(Agent(new(p, "server"))) : p \in Ps} \cup Confs
      \cup {IF c.res = "Ok" THEN Builder(Agent(c.builder)) ELSE c : c \in Confs}

OptsStep ==
    /\ UNCHANGED <<vals, svals>>
    /\ \E o \in Opts :
         \/ /\ ovals[o] = Dead
            /\ \E r \in Builders :
                 /\ Says(r.res)
                 /\ ovals' = IF r.res = "Ok" THEN [ovals EXCEPT ![o] = Holds(r.builder)]
                                             ELSE ovals
         \/ \E p \in Opts : /\ Says("Ok") /\ Filled(ovals[p])
                            /\ ovals' = [ovals EXCEPT ![o] = ovals[p]]
         \/ \E p \in Opts : /\ Says("Ok") /\ ovals[p] # Dead /\ o # p
                            /\ ovals' = [ovals EXCEPT ![o] = ovals[p], ![p] = Empty]
         \/ Says("Ok") /\ ovals[o] # Dead /\ ovals' \in {ovals, [ovals EXCEPT ![o] = Dead]}
         \/ Says("InvalidUtf8") /\ ovals' = ovals
         \/ \E s \in Settings : \E v \in Args[s] :
              /\ Filled(ovals[o])
              /\ LET r == Setter(ovals[o].builder, s, v)
                 IN  /\ Says(r.res)
                     /\ ovals' = [ovals EXCEPT ![o] = Holds(
                           IF r.res = "Ok" THEN r.builder ELSE new("tcp", "localhost:1"))]

BuildStep ==
    /\ UNCHANGED <<vals, ovals>>
    /\ \E s \in Senders, net \in BuildNet :
         \E r \in Builders \cup {Builder(ovals[o].builder) :
                                   o \in {p \in Opts : Filled(ovals[p])}} :
           LET res == IF r.res = "Ok" THEN build(r.builder, net) ELSE r.res
           IN  /\ Says(res)
               /\ svals[s] = Dead
               /\ svals' = IF res = "Ok" THEN [svals EXCEPT ![s] = Sends(NewSender(r.builder))]
                                         ELSE svals

LifeStep ==
    /\ UNCHANGED <<vals, ovals>>
    /\ Says("Ok")
    /\ \E s \in Senders :
         \/ svals[s] # Dead /\ svals' \in {svals, [svals EXCEPT ![s] = Dead],
                                                  [svals EXCEPT ![s] = Empty]}
         \/ \E t \in Senders : /\ svals[t] # Dead /\ s # t
                               /\ svals' = [svals EXCEPT ![s] = svals[t], ![t] = Empty]

FlushStep ==
    \E s \in Senders, v \in Bufs, keep \in BOOLEAN, net \in FlushNet :
      /\ svals[s] # Dead /\ vals[v] # Dead
      /\ IF svals[s] = Empty THEN Says("InvalidApiCall") /\ UNCHANGED <<vals, svals>>
         ELSE LET r == flush_impl(svals[s].sender, vals[v].buf, keep, FALSE, net, MaxBufSize)
              IN  /\ Says(r.res)
                  /\ svals' = [svals EXCEPT ![s] = Sends(r.sender)]
                  /\ vals' = [vals EXCEPT ![v].buf = r.buf]
      /\ UNCHANGED ovals

Ask ==
    /\ \E s \in Senders :
         /\ svals[s] # Dead
         /\ out' = <<"must_close", Filled(svals[s]) /\ ~svals[s].sender.connected>>
    /\ UNCHANGED <<vals, ovals, svals>>

\* What is undefined: reading options that were moved from, and flush_and_keep
\* of an empty buffer through a sender that was closed or moved from.
UndefinedUse ==
    \/ \E o \in Opts : ovals[o] = Empty
    \/ \E s \in Senders, v \in Bufs : svals[s] = Empty /\ EmptyOne(v)

Step ==
    /\ ~ub
    /\ \/ ~ub' /\ (OptsStep \/ BuildStep \/ LifeStep \/ FlushStep \/ Ask)
       \/ ub' /\ UndefinedUse
       \/ Next /\ UNCHANGED <<ovals, svals>>

SenderSpec == ValuesInit /\ [][Step]_values
=============================================================================

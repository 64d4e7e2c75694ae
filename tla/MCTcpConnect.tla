---------------------------- MODULE MCTcpConnect ----------------------------
(***************************************************************************)
(* Builders with and without TLS, ECDSA, an interface, own roots and an    *)
(* auth_timeout.                                                           *)
(***************************************************************************)
EXTENDS TcpConnect, TLC

Keys == {"username", "token", "token_x", "token_y"}

Within(t, x) == [auth_timeout |-> t] @@ x

MCBuilders ==
    {Within(2, Configured("tcp", g)) : g \in {{}, Keys, {"bind_interface"} \cup Keys}}
      \cup {Within(2, Configured("tcps", g)) : g \in {{}, Keys, {"tls_roots"} \cup Keys}}
      \cup {Within(0, Configured(p, Keys)) : p \in {"tcp", "tcps"}}

MCChallenges == {<<"c">>, <<"c", "d">>}
=============================================================================

------------------------------- MODULE MCOpts -------------------------------
(***************************************************************************)
(* A small instance of Opts: every choice of three parameters, in every    *)
(* order and on every protocol; every sequence of four setters; and one or *)
(* two setters after a string of fewer parameters.                         *)
(***************************************************************************)
EXTENDS Opts

\* The parameters that a string may give beside its address.
Pool ==
    { <<"username", "a">>, <<"token", "ctrl">>, <<"bind_interface", "a">>,
      <<"max_buf_size", "1023">>, <<"max_buf_size", "1024">>,
      <<"auth_timeout", "junk">>, <<"tls_verify", "unsafe_off">>,
      <<"tls_verify", "junk">>, <<"tls_ca", "os_roots">>,
      <<"tls_ca", "pem_file">>, <<"tls_roots", "/ca">>,
      <<"tls_roots", "/missing">>, <<"tls_roots_password", "a">>,
      <<"request_timeout", "0">>, <<"retry_timeout", "1024">>,
      <<"auto_flush", "off">>, <<"auto_flush_rows", "1024">>,
      <<"from_the_future", "a">> }

Addr == <<"addr", "server">>

\* Up to three of them and the address, or no parameter at all.
Chosen == {s \in {{Addr, x, y, z} : x, y, z \in Pool} :
             \A x, y \in s : x[1] = y[1] => x = y} \cup {{}}

MCConfs ==
    { [protocol |-> p,
       params   |-> [k \in {x[1] : x \in s} |-> (CHOOSE x \in s : x[1] = k)[2]]] :
      p \in Protocols, s \in Chosen }

MCCalls ==
    { <<"username", "a">>, <<"username", "b">>, <<"password", "a">>,
      <<"token", "a">>, <<"token_x", "a">>, <<"token_y", "a">>,
      <<"bind_interface", "a">>, <<"retry_timeout", "0">>,
      <<"request_timeout", "0">>, <<"tls_verify", "unsafe_off">>,
      <<"tls_ca", "pem_file">>, <<"tls_ca", "os_roots">>,
      <<"tls_roots", "/ca">>, <<"tls_roots", "/missing">> }
=============================================================================

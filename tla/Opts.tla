-------------------------------- MODULE Opts --------------------------------
(***************************************************************************)
(* The life of one `line_sender_opts` (questdb-rs-ffi/src/lib.rs): made    *)
(* from a protocol and an address or from a configuration string, changed  *)
(* by setters, and built into senders.                                     *)
(*                                                                         *)
(* from_conf applies the parameters in the order in which a HashMap gives  *)
(* them, which is any order.  A setter takes the builder out of the object *)
(* and consumes it; when it fails, upd_opts! puts a dummy in its place.    *)
(***************************************************************************)
EXTENDS BuilderOps, SequencesExt

CONSTANTS
    Confs,       \* configuration strings: [protocol, params]
    Calls,       \* what the caller may ask a setter: <<setting, value>>
    MaxGiven     \* bound on what is given: parameters and calls of setters

ASSUME OptsAssumption ==
    /\ \A c \in Confs : c.protocol \in Protocols
    /\ \A c \in Calls : c[1] \in Settings /\ c[2] # Defaulted
    /\ MaxGiven \in Nat

VARIABLES
    phase,       \* "none", "parsing", "ready" or "refused"
    builder,     \* the builder in the object
    conf,        \* the configuration string, when there is one
    todo,        \* the keys that the loop of from_conf has not reached
    calls,       \* how many setters were called
    asked,       \* history: the setters that succeeded since base
    base,        \* history: the builder that asked starts from
    built        \* what the last build found: the roots and the scheme

vars == <<phase, builder, conf, todo, calls, asked, base, built>>

Nothing == [res |-> "none"]
NoConf  == [protocol |-> "tcp", params |-> <<>>]

Init ==
    /\ phase = "none"
    /\ builder = new("tcp", "none")
    /\ conf = NoConf /\ todo = {}
    /\ calls = 0 /\ asked = <<>> /\ base = builder
    /\ built = Nothing

-----------------------------------------------------------------------------
\* line_sender_opts_new and _new_service: user_agent cannot fail there.
New(p) ==
    /\ phase = "none"
    /\ phase' = "ready"
    /\ builder' = user_agent(new(p, "server"), "questdb/c").builder
    /\ base' = builder'
    /\ UNCHANGED <<conf, todo, calls, asked, built>>

\* from_conf up to the loop: the address, the protocol, auto_flush.
FromConf(c) ==
    /\ phase = "none"
    /\ conf' = c
    /\ IF "addr" \in DOMAIN c.params /\ validate_auto_flush_params(c.params)
         THEN /\ phase' = "parsing"
              /\ builder' = new(c.protocol, c.params["addr"])
              /\ todo' = DOMAIN c.params
         ELSE /\ phase' = "refused"
              /\ UNCHANGED <<builder, todo>>
    /\ UNCHANGED <<calls, asked, base, built>>

\* One turn of the loop, on whichever parameter the HashMap gives next.
Param(key) ==
    LET r == Arm(builder, key, conf.params[key])
    IN  /\ phase = "parsing"
        /\ key \in todo
        /\ IF r.res = "Ok"
             THEN builder' = r.builder /\ todo' = todo \ {key} /\ phase' = phase
             ELSE phase' = "refused" /\ UNCHANGED <<builder, todo>>
        /\ UNCHANGED <<conf, calls, asked, base, built>>

FromConfReturns ==
    /\ phase = "parsing" /\ todo = {}
    /\ phase' = "ready"
    /\ base' = builder
    /\ UNCHANGED <<builder, conf, todo, calls, asked, built>>

-----------------------------------------------------------------------------
\* The builder that upd_opts! leaves when a setter fails.
Dummy == new("tcp", "localhost:1")

\* Mutant: the dummy takes over the credentials.
upd_opts_inherits(r) ==
    IF r.res = "Ok" THEN builder' = r.builder
                    ELSE builder' = [Dummy EXCEPT !.set = builder.set]

upd_opts(r) == IF r.res = "Ok" THEN builder' = r.builder ELSE builder' = Dummy

\* line_sender_opts_bind_interface ... line_sender_opts_request_timeout.
Set(s, v) ==
    LET r == Setter(builder, s, v)
    IN  /\ phase = "ready" /\ calls + Cardinality(DOMAIN conf.params) < MaxGiven
        /\ upd_opts(r)
        /\ calls' = calls + 1
        /\ asked' = IF r.res = "Ok" THEN Append(asked, <<s, v>>) ELSE <<>>
        /\ base'  = IF r.res = "Ok" THEN base ELSE Dummy
        /\ UNCHANGED <<phase, conf, todo, built>>

\* line_sender_build up to the connection; the options are only read.
Build ==
    /\ phase = "ready"
    /\ \E io \in BOOLEAN :
         LET a == build_auth(builder)
             t == configure_tls(builder, io)
         IN  built' = IF a.res # "Ok" THEN [res |-> a.res]
                      ELSE IF t.res # "Ok" THEN [res |-> t.res]
                      ELSE [res |-> "Ok", scheme |-> a.scheme, roots |-> t.roots]
    /\ UNCHANGED <<phase, builder, conf, todo, calls, asked, base>>

Next ==
    \/ \E p \in Protocols : New(p)
    \/ \E c \in Confs : FromConf(c)
    \/ \E key \in todo : Param(key)
    \/ FromConfReturns
    \/ \E c \in Calls : Set(c[1], c[2])
    \/ Build

Spec == Init /\ [][Next]_vars

-----------------------------------------------------------------------------
(***************************************************************************)
(* What from_conf should return, without an order: every parameter passes  *)
(* by itself, and the roots of TLS come from one place.                    *)
(***************************************************************************)
Passes(c, key) == Arm(new(c.protocol, "x"), key, c.params[key]).res = "Ok"

ValidConf(c) ==
    /\ "addr" \in DOMAIN c.params
    /\ validate_auto_flush_params(c.params)
    /\ \A key \in DOMAIN c.params : Passes(c, key)
    /\ ~({"tls_ca", "tls_roots"} \subseteq DOMAIN c.params)

ConfBuilder(c) ==
    [new(c.protocol, c.params["addr"]) EXCEPT
       !.set = [s \in Settings |->
                  IF s \in DOMAIN c.params THEN c.params[s]
                  ELSE IF s = "tls_ca" /\ "tls_roots" \in DOMAIN c.params
                         THEN "pem_file" ELSE Defaulted]]

-----------------------------------------------------------------------------
\* from_conf gives the same answer in every order of the HashMap: it is
\* refused only if the string is bad whatever the order, and the builder is
\* the one that the string describes.
OrderFree ==
    /\ phase = "refused" => ~ValidConf(conf)
    /\ phase = "ready" /\ conf # NoConf /\ calls = 0
         => ValidConf(conf) /\ builder = ConfBuilder(conf)

\* What the setters that succeeded since base ask of s.
Asked(s) ==
    {c[2] : c \in {d \in Range(asked) : d[1] = s}}
      \cup {"pem_file" : c \in {d \in Range(asked) : s = "tls_ca" /\ d[1] = "tls_roots"}}

\* The object holds what every setter since the last failure asked for, no two
\* of which contradict each other, and nothing else: a failed setter forgets
\* every earlier one, and no credential follows the dummy to localhost:1.
HoldsWhatWasAsked ==
    phase = "ready" =>
      /\ builder = [base EXCEPT !.set = builder.set]
      /\ \A s \in Settings :
           IF Asked(s) = {} THEN builder.set[s] = base.set[s]
                            ELSE Asked(s) = {builder.set[s]}

\* build_auth accepts exactly the three schemes and nothing, each on its
\* protocol; so the second checks of build are dead code, and its unwrap of
\* the HttpConfig is safe.
AuthAsDocumented ==
    LET g == Given(builder)
        a == build_auth(builder)
        tcp == is_tcpx(builder.protocol)
        scheme == CASE g = {} -> {"None"}
                    [] tcp /\ g = Credentials \ {"password"} -> {"Ecdsa"}
                    [] ~tcp /\ g = {"username", "password"} -> {"Basic"}
                    [] ~tcp /\ g = {"token"} -> {"Token"}
                    [] OTHER -> {}
    IN  /\ IF scheme = {} THEN a.res = "ConfigError"
                          ELSE a = Auth(CHOOSE x \in scheme : TRUE)
        /\ ~LateError(builder)
        /\ builder.http = is_httpx(builder.protocol)

\* A sender built from a string checks the server's certificate against the
\* roots that the string names, whatever order its parameters were taken in.
RootsAsAsked ==
    LET given(k)  == k \in DOMAIN conf.params
        text(k)   == conf.params[k]
    IN  built.res = "Ok" /\ conf # NoConf /\ calls = 0
          => built.roots = IF ~tls_enabled(conf.protocol) THEN "no TLS"
                           ELSE IF given("tls_verify") /\ text("tls_verify") # "on"
                                  THEN "unverified"
                           ELSE IF given("tls_roots") THEN text("tls_roots")
                           ELSE IF given("tls_ca") THEN text("tls_ca")
                           ELSE "webpki_roots"
=============================================================================

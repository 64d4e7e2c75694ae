---------------------------- MODULE Opts_proofs ----------------------------
(***************************************************************************)
(* Proofs about Opts, for every set of configuration strings, whatever     *)
(* their keys and texts, and for every set of calls of setters.            *)
(***************************************************************************)
EXTENDS Opts, TLAPS

(***************************************************************************)
(* The inductive invariant.                                                *)
(***************************************************************************)
\* The fields of a builder; a text may be any value.
Shaped(x) ==
    x = [ protocol   |-> x.protocol,
          addr       |-> x.addr,
          set        |-> [s \in Settings |-> x.set[s]],
          http       |-> x.http,
          user_agent |-> x.user_agent ]

\* A builder has an HttpConfig exactly when its protocol is HTTP.
Proper(x) ==
    /\ Shaped(x)
    /\ x.protocol \in Protocols
    /\ x.http = is_httpx(x.protocol)

\* HTTP has no interface to bind.
Unbound(x) == is_httpx(x.protocol) => x.set["bind_interface"] = Defaulted

\* The settings after the parameters in done, in whatever order.
SetBy(c, done, s) ==
    IF s \in done THEN c.params[s]
    ELSE IF s = "tls_ca" /\ "tls_roots" \in done THEN "pem_file" ELSE Defaulted

Partial(c, done) ==
    [new(c.protocol, c.params["addr"]) EXCEPT
       !.set = [s \in Settings |-> SetBy(c, done, s)]]

\* What the loop of from_conf has found out about the parameters in done.
Accepted(c, done) ==
    /\ "addr" \in DOMAIN c.params
    /\ validate_auto_flush_params(c.params)
    /\ \A key \in done : Passes(c, key)
    /\ ~({"tls_ca", "tls_roots"} \subseteq done)

TypeInv ==
    /\ phase \in {"none", "parsing", "ready", "refused"}
    /\ calls \in Nat
    /\ Proper(builder) /\ Unbound(builder)
    /\ conf \in Confs \cup {NoConf}

PhaseInv ==
    /\ phase = "none" => conf = NoConf
    /\ phase # "ready" => built = Nothing /\ calls = 0

LoopInv ==
    phase = "parsing" =>
      /\ conf \in Confs
      /\ todo \subseteq DOMAIN conf.params
      /\ Accepted(conf, DOMAIN conf.params \ todo)
      /\ builder = Partial(conf, DOMAIN conf.params \ todo)

IInv == TypeInv /\ PhaseInv /\ LoopInv /\ OrderFree /\ RootsAsAsked

-----------------------------------------------------------------------------
(***************************************************************************)
(* The setters.                                                            *)
(***************************************************************************)
\* A builder is known by its fields.
LEMMA SameFields ==
    ASSUME NEW x, NEW y, Shaped(x), Shaped(y),
           x.protocol = y.protocol, x.addr = y.addr, x.http = y.http,
           x.user_agent = y.user_agent,
           \A s \in Settings : x.set[s] = y.set[s]
    PROVE  x = y
  <1>1. [s \in Settings |-> x.set[s]] = [s \in Settings |-> y.set[s]]
    OBVIOUS
  <1> QED
    BY <1>1, Zenon DEF Shaped

\* The fields of a new builder.
LEMMA NewFields ==
    ASSUME NEW p \in Protocols, NEW a
    PROVE  /\ Proper(new(p, a))
           /\ new(p, a).protocol = p /\ new(p, a).addr = a
           /\ new(p, a).http = is_httpx(p)
           /\ new(p, a).user_agent = "questdb/rust"
           /\ \A s \in Settings : new(p, a).set[s] = Defaulted
  BY DEF new, Proper, Shaped

\* The fields of a builder with one setting changed.
LEMMA SetFields ==
    ASSUME NEW x, Proper(x), NEW s \in Settings, NEW v
    PROVE  LET y == [x EXCEPT !.set[s] = v] IN
           /\ Proper(y)
           /\ y.protocol = x.protocol /\ y.addr = x.addr /\ y.http = x.http
           /\ y.user_agent = x.user_agent
           /\ \A t \in Settings : y.set[t] = IF t = s THEN v ELSE x.set[t]
  <1> DEFINE y == [x EXCEPT !.set[s] = v]
             z == [t \in Settings |-> IF t = s THEN v ELSE x.set[t]]
  <1>1. x.set = [t \in Settings |-> x.set[t]]
    BY DEF Proper, Shaped
  <1>2. [x.set EXCEPT ![s] = v] = z
    BY <1>1
  <1>3. y = [ protocol   |-> x.protocol,
              addr       |-> x.addr,
              set        |-> z,
              http       |-> x.http,
              user_agent |-> x.user_agent ]
    BY <1>2 DEF Proper, Shaped
  <1> HIDE DEF y, z
  <1>4. /\ y.protocol = x.protocol /\ y.addr = x.addr /\ y.http = x.http
        /\ y.user_agent = x.user_agent /\ y.set = z
    BY <1>3
  <1>5. \A t \in Settings : z[t] = IF t = s THEN v ELSE x.set[t]
    BY DEF z
  <1>6. z = [t \in Settings |-> z[t]]
    BY DEF z
  <1>7. Proper(y)
    BY <1>3, <1>4, <1>6 DEF Proper, Shaped
  <1> QED
    BY <1>4, <1>5, <1>7 DEF y

\* Whether a setting may take a value.
Settable(x, s, v) ==
    /\ ProtocolAllows(x, s)
    /\ ValueAllowed(s, v)
    /\ x.set[s] \in {Defaulted, v}

\* y is x with setting s at v.
Changed(x, y, s, v) ==
    /\ Proper(y)
    /\ y.protocol = x.protocol /\ y.addr = x.addr /\ y.http = x.http
    /\ y.user_agent = x.user_agent
    /\ \A t \in Settings : y.set[t] = IF t = s THEN v ELSE x.set[t]

\* What a plain setter returns.
LEMMA PlainSetterFacts ==
    ASSUME NEW x, Proper(x), NEW s \in Settings, NEW v
    PROVE  LET r == PlainSetter(x, s, v) IN
           /\ r.res = "Ok" <=> Settable(x, s, v)
           /\ r.res \in {"Ok", "ConfigError"}
           /\ r.res = "Ok" => Changed(x, r.builder, s, v)
  <1> DEFINE r == PlainSetter(x, s, v)
             y == [x EXCEPT !.set[s] = v]
  <1>1. Changed(x, y, s, v)
    BY SetFields DEF Changed
  <1> HIDE DEF y
  <1>2. /\ r.res = "Ok" <=> Settable(x, s, v)
        /\ r.res \in {"Ok", "ConfigError"}
        /\ r.res = "Ok" => r.builder = y
    BY DEF PlainSetter, set_specified, Settable, Builder, ConfigError, y
  <1> HIDE DEF r
  <1> QED
    BY <1>1, <1>2 DEF r

\* What a setter returns, and the builder it leaves.
LEMMA SetterFacts ==
    ASSUME NEW x, Proper(x), NEW s \in Settings, NEW v
    PROVE  LET r == Setter(x, s, v)
               y == r.builder
           IN  /\ r.res = "Ok" <=> /\ Settable(x, s, v)
                                   /\ s = "tls_roots" => Settable(x, "tls_ca", "pem_file")
               /\ r.res \in {"Ok", "ConfigError"}
               /\ r.res = "Ok" =>
                    /\ Proper(y)
                    /\ y.protocol = x.protocol /\ y.addr = x.addr
                    /\ y.http = x.http /\ y.user_agent = x.user_agent
                    /\ \A t \in Settings :
                         y.set[t] = IF t = s THEN v
                                    ELSE IF t = "tls_ca" /\ s = "tls_roots" THEN "pem_file"
                                    ELSE x.set[t]
  <1> DEFINE r == Setter(x, s, v)
  <1>1. CASE s # "tls_roots"
    <2>1. r = PlainSetter(x, s, v)
      BY <1>1 DEF Setter
    <2> HIDE DEF r
    <2>2. /\ r.res = "Ok" <=> Settable(x, s, v)
          /\ r.res \in {"Ok", "ConfigError"}
          /\ r.res = "Ok" => Changed(x, r.builder, s, v)
      BY <2>1, PlainSetterFacts
    <2> QED
      BY <1>1, <2>2 DEF r, Changed
  <1>2. CASE s = "tls_roots"
    <2> DEFINE p == PlainSetter(x, "tls_ca", "pem_file")
    <2>1. "tls_ca" \in Settings /\ "tls_roots" \in Settings
      BY DEF Settings, TlsSettings
    <2>2. /\ p.res = "Ok" <=> Settable(x, "tls_ca", "pem_file")
          /\ p.res \in {"Ok", "ConfigError"}
          /\ p.res = "Ok" => Changed(x, p.builder, "tls_ca", "pem_file")
      BY <2>1, PlainSetterFacts
    <2>3. r = IF p.res = "Ok" THEN PlainSetter(p.builder, "tls_roots", v) ELSE p
      BY <1>2 DEF Setter, tls_roots
    <2> HIDE DEF p, r
    <2>4. CASE p.res # "Ok"
      BY <1>2, <2>2, <2>3, <2>4 DEF r
    <2>5. CASE p.res = "Ok"
      <3>1. /\ Changed(x, p.builder, "tls_ca", "pem_file") /\ Proper(p.builder)
            /\ Settable(x, "tls_ca", "pem_file")
        BY <2>2, <2>5 DEF Changed
      <3>2. /\ r.res = "Ok" <=> Settable(p.builder, "tls_roots", v)
            /\ r.res \in {"Ok", "ConfigError"}
            /\ r.res = "Ok" => Changed(p.builder, r.builder, "tls_roots", v)
        BY <2>1, <2>3, <2>5, <3>1, PlainSetterFacts
      <3>3. Settable(p.builder, "tls_roots", v) <=> Settable(x, "tls_roots", v)
        BY <2>1, <3>1 DEF Settable, ProtocolAllows, Changed
      <3>4. r.res = "Ok" =>
              /\ Proper(r.builder)
              /\ r.builder.protocol = x.protocol /\ r.builder.addr = x.addr
              /\ r.builder.http = x.http /\ r.builder.user_agent = x.user_agent
              /\ \A t \in Settings :
                   r.builder.set[t] = IF t = s THEN v
                                      ELSE IF t = "tls_ca" /\ s = "tls_roots" THEN "pem_file"
                                      ELSE x.set[t]
        BY <1>2, <3>1, <3>2 DEF Changed
      <3> QED
        BY <1>2, <3>1, <3>2, <3>3, <3>4 DEF r
    <2> QED
      BY <2>4, <2>5
  <1> QED
    BY <1>1, <1>2

-----------------------------------------------------------------------------
(***************************************************************************)
(* The loop of from_conf.                                                  *)
(***************************************************************************)
\* The fields of the builder in the loop.
LEMMA PartialFields ==
    ASSUME NEW c, c.protocol \in Protocols, NEW done
    PROVE  LET y == Partial(c, done) IN
           /\ Proper(y)
           /\ y.protocol = c.protocol /\ y.addr = c.params["addr"]
           /\ y.http = is_httpx(c.protocol) /\ y.user_agent = "questdb/rust"
           /\ \A s \in Settings : y.set[s] = SetBy(c, done, s)
  <1> DEFINE y == Partial(c, done)
             z == [s \in Settings |-> SetBy(c, done, s)]
  <1>1. y = [ protocol   |-> c.protocol,
              addr       |-> c.params["addr"],
              set        |-> z,
              http       |-> is_httpx(c.protocol),
              user_agent |-> "questdb/rust" ]
    BY DEF Partial, new
  <1>2. (\A s \in Settings : z[s] = SetBy(c, done, s)) /\ z = [s \in Settings |-> z[s]]
    OBVIOUS
  <1> HIDE DEF y, z
  <1>3. /\ y.protocol = c.protocol /\ y.addr = c.params["addr"] /\ y.set = z
        /\ y.http = is_httpx(c.protocol) /\ y.user_agent = "questdb/rust"
    BY <1>1
  <1>4. Proper(y)
    BY <1>1, <1>2, <1>3 DEF Proper, Shaped
  <1> QED
    BY <1>2, <1>3, <1>4 DEF y

\* Whether one parameter of a string is good, by itself.
Fits(c, key) ==
    /\ Parses(key, c.params[key])
    /\ ProtocolAllows(new(c.protocol, "x"), key)
    /\ ValueAllowed(key, c.params[key])

\* A parameter passes by itself when its key is not refused and it is good.
LEMMA PassesMeans ==
    ASSUME NEW c, c.protocol \in Protocols, NEW key
    PROVE  Passes(c, key) <=> key \notin Refused /\ (key \in Settings => Fits(c, key))
  <1> DEFINE n == new(c.protocol, "x")
             v == c.params[key]
  <1>1. Proper(n) /\ \A s \in Settings : n.set[s] = Defaulted
    BY NewFields
  <1>2. CASE key \in Refused
    <2>1. key \notin Settings
      BY <1>2 DEF Refused, Settings, Credentials, TlsSettings, HttpSettings
    <2>2. Arm(n, key, v) = ConfigError
      BY <1>2, <2>1 DEF Arm
    <2> QED
      BY <1>2, <2>2 DEF Passes, ConfigError
  <1>3. CASE key \notin Refused /\ key \notin Settings
    BY <1>3 DEF Passes, Arm, Builder
  <1>4. CASE key \in Settings
    <2>1. key \notin Refused
      BY <1>4 DEF Refused, Settings, Credentials, TlsSettings, HttpSettings
    <2>2. Arm(n, key, v) = IF Parses(key, v) THEN Setter(n, key, v) ELSE ConfigError
      BY <1>4, <2>1 DEF Arm
    <2>3. Setter(n, key, v).res = "Ok" <=>
            /\ Settable(n, key, v)
            /\ key = "tls_roots" => Settable(n, "tls_ca", "pem_file")
      BY <1>1, <1>4, SetterFacts
    <2>4. Settable(n, key, v) <=> ProtocolAllows(n, key) /\ ValueAllowed(key, v)
      BY <1>1, <1>4 DEF Settable
    <2>5. key = "tls_roots" /\ ProtocolAllows(n, key) => Settable(n, "tls_ca", "pem_file")
      <3>1. "tls_ca" \in Settings /\ "tls_ca" \in TlsSettings /\ "tls_roots" \in TlsSettings
        BY DEF Settings, TlsSettings
      <3>2. ValueAllowed("tls_ca", "pem_file")
        BY DEF ValueAllowed, Credentials
      <3>3. key = "tls_roots" /\ ProtocolAllows(n, key) => ProtocolAllows(n, "tls_ca")
        BY <3>1 DEF ProtocolAllows, TlsSettings, HttpSettings
      <3> QED
        BY <1>1, <3>1, <3>2, <3>3 DEF Settable
    <2>6. ConfigError.res # "Ok"
      BY DEF ConfigError
    <2> HIDE DEF n, v
    <2>7. Arm(n, key, v).res = "Ok" <=>
            Parses(key, v) /\ ProtocolAllows(n, key) /\ ValueAllowed(key, v)
      BY <2>2, <2>3, <2>4, <2>5, <2>6
    <2> QED
      BY <1>4, <2>1, <2>7 DEF Passes, Fits, n, v
  <1> QED
    BY <1>2, <1>3, <1>4

\* One turn of the loop: the builder takes the parameter over, or the string
\* is bad in whatever order it is read.
LEMMA ArmStep ==
    ASSUME NEW c, c.protocol \in Protocols, NEW done \in SUBSET DOMAIN c.params,
           NEW key \in DOMAIN c.params \ done, Accepted(c, done)
    PROVE  LET r == Arm(Partial(c, done), key, c.params[key]) IN
           /\ r.res = "Ok" => /\ Accepted(c, done \cup {key})
                              /\ r.builder = Partial(c, done \cup {key})
           /\ r.res # "Ok" => ~ValidConf(c)
  <1> DEFINE b == Partial(c, done)
             d == Partial(c, done \cup {key})
             v == c.params[key]
             r == Arm(b, key, v)
  <1>1. /\ Proper(b) /\ b.protocol = c.protocol /\ b.addr = c.params["addr"]
        /\ b.http = is_httpx(c.protocol) /\ b.user_agent = "questdb/rust"
        /\ \A s \in Settings : b.set[s] = SetBy(c, done, s)
    BY PartialFields
  <1>2. /\ Proper(d) /\ d.protocol = c.protocol /\ d.addr = c.params["addr"]
        /\ d.http = is_httpx(c.protocol) /\ d.user_agent = "questdb/rust"
        /\ \A s \in Settings : d.set[s] = SetBy(c, done \cup {key}, s)
    BY PartialFields
  <1>3. /\ new(c.protocol, "x").protocol = b.protocol
        /\ new(c.protocol, "x").http = b.http
    BY <1>1, NewFields
  <1>4. ValidConf(c) => Passes(c, key) /\ ~({"tls_ca", "tls_roots"} \subseteq DOMAIN c.params)
    BY DEF ValidConf
  <1>5. ASSUME Passes(c, key), ~({"tls_ca", "tls_roots"} \subseteq done \cup {key})
        PROVE  Accepted(c, done \cup {key})
    BY <1>5 DEF Accepted
  <1>6. key # "tls_ca" /\ key # "tls_roots" =>
          ~({"tls_ca", "tls_roots"} \subseteq done \cup {key})
    BY DEF Accepted
  <1> HIDE DEF b, d
  <1>7. CASE key \in Refused
    <2>1. r.res # "Ok"
      <3>1. key \notin Settings
        BY <1>7 DEF Refused, Settings, Credentials, TlsSettings, HttpSettings
      <3>2. r = ConfigError
        BY <1>7, <3>1 DEF Arm
      <3> QED
        BY <3>2 DEF ConfigError
    <2>2. ~Passes(c, key)
      BY <1>7, PassesMeans
    <2> QED
      BY <1>4, <2>1, <2>2 DEF b
  <1>8. CASE key \notin Refused /\ key \notin Settings
    <2>1. r.res = "Ok" /\ r.builder = b
      BY <1>8 DEF Arm, Builder
    <2>2. key # "tls_ca" /\ key # "tls_roots"
      BY <1>8 DEF Settings, TlsSettings
    <2>3. \A s \in Settings : SetBy(c, done \cup {key}, s) = SetBy(c, done, s)
      BY <1>8, <2>2 DEF SetBy
    <2>4. b = d
      BY <1>1, <1>2, <2>3, SameFields DEF Proper
    <2>5. Passes(c, key)
      BY <1>8, PassesMeans
    <2> QED
      BY <1>5, <1>6, <2>1, <2>2, <2>4, <2>5 DEF b, d
  <1>9. CASE key \in Settings
    <2>1. key \notin Refused
      BY <1>9 DEF Refused, Settings, Credentials, TlsSettings, HttpSettings
    <2>2. r = IF Parses(key, v) THEN Setter(b, key, v) ELSE ConfigError
      BY <1>9, <2>1 DEF Arm
    <2> DEFINE q == Setter(b, key, v)
    <2>3. /\ q.res = "Ok" <=> /\ Settable(b, key, v)
                              /\ key = "tls_roots" => Settable(b, "tls_ca", "pem_file")
          /\ q.res = "Ok" =>
               /\ Proper(q.builder)
               /\ q.builder.protocol = b.protocol /\ q.builder.addr = b.addr
               /\ q.builder.http = b.http /\ q.builder.user_agent = b.user_agent
               /\ \A t \in Settings :
                    q.builder.set[t] = IF t = key THEN v
                                       ELSE IF t = "tls_ca" /\ key = "tls_roots" THEN "pem_file"
                                       ELSE b.set[t]
      BY <1>1, <1>9, SetterFacts
    <2> HIDE DEF q, v
    <2>4. Passes(c, key) <=> Parses(key, v) /\ ProtocolAllows(b, key) /\ ValueAllowed(key, v)
      BY <1>3, <1>9, <2>1, PassesMeans DEF Fits, ProtocolAllows, v
    <2>5. b.set[key] = IF key = "tls_ca" /\ "tls_roots" \in done THEN "pem_file" ELSE Defaulted
      BY <1>1, <1>9 DEF SetBy
    <2>6. Parses(key, v) /\ key = "tls_ca" => v # "pem_file"
      BY DEF Parses
    <2>7. ASSUME q.res = "Ok", key = "tls_roots" => "tls_ca" \notin done
          PROVE  q.builder = d
      <3>1. ASSUME NEW s \in Settings PROVE q.builder.set[s] = d.set[s]
        <4>1. q.builder.set[s] = IF s = key THEN v
                                 ELSE IF s = "tls_ca" /\ key = "tls_roots" THEN "pem_file"
                                 ELSE SetBy(c, done, s)
          BY <1>1, <2>3, <2>7
        <4>2. SetBy(c, done \cup {key}, s) =
                IF s = key THEN v
                ELSE IF s = "tls_ca" /\ key = "tls_roots" THEN "pem_file"
                ELSE SetBy(c, done, s)
          BY <2>7 DEF SetBy, v
        <4> QED
          BY <1>2, <4>1, <4>2
      <3> QED
        BY <1>1, <1>2, <2>3, <2>7, <3>1, SameFields DEF Proper
    <2>8. CASE key = "tls_ca"
      <3>1. r.res = "Ok" <=> Passes(c, key) /\ "tls_roots" \notin done
        BY <2>2, <2>3, <2>4, <2>5, <2>6, <2>8 DEF Settable, ConfigError, Defaulted, q
      <3>2. "tls_roots" \in done => ~ValidConf(c)
        BY <1>4, <2>8
      <3>3. r.res = "Ok" => r.builder = d
        BY <2>2, <2>7, <2>8 DEF ConfigError, q
      <3> QED
        BY <1>4, <1>5, <2>8, <3>1, <3>2, <3>3 DEF b, d, v
    <2>9. CASE key = "tls_roots"
      <3>1. "tls_ca" \in Settings
        BY DEF Settings, TlsSettings
      <3>2. Settable(b, "tls_ca", "pem_file") <=>
              ProtocolAllows(b, "tls_ca") /\ b.set["tls_ca"] \in {Defaulted, "pem_file"}
        BY DEF Settable, ValueAllowed, Credentials
      <3>3. ProtocolAllows(b, "tls_roots") <=> ProtocolAllows(b, "tls_ca")
        BY DEF ProtocolAllows, TlsSettings, HttpSettings
      <3>4. "tls_ca" \in done => b.set["tls_ca"] \notin {Defaulted, "pem_file"}
        <4>1. SUFFICES ASSUME "tls_ca" \in done
                       PROVE  b.set["tls_ca"] \notin {Defaulted, "pem_file"}
          OBVIOUS
        <4>2. Fits(c, "tls_ca") /\ b.set["tls_ca"] = c.params["tls_ca"]
          BY <1>1, <3>1, <4>1, PassesMeans DEF Accepted, SetBy
        <4>3. c.params["tls_ca"] \in CAs \ {"pem_file"}
          BY <4>2 DEF Fits, Parses
        <4> QED
          BY <4>2, <4>3 DEF CAs, Defaulted
      <3>5. "tls_ca" \notin done => b.set["tls_ca"] = Defaulted
        BY <1>1, <2>9, <3>1 DEF SetBy
      <3>6. Settable(b, key, v) <=> ProtocolAllows(b, key) /\ ValueAllowed(key, v)
        BY <2>5, <2>9 DEF Settable
      <3>7. r.res = "Ok" <=> Passes(c, key) /\ "tls_ca" \notin done
        BY <2>2, <2>3, <2>4, <2>9, <3>2, <3>3, <3>4, <3>5, <3>6 DEF ConfigError, q
      <3>8. "tls_ca" \in done => ~ValidConf(c)
        BY <1>4, <2>9
      <3>9. r.res = "Ok" => r.builder = d
        BY <2>2, <2>7, <3>7 DEF ConfigError, q
      <3> QED
        BY <1>4, <1>5, <2>9, <3>7, <3>8, <3>9 DEF b, d, v
    <2>10. CASE key # "tls_ca" /\ key # "tls_roots"
      <3>1. r.res = "Ok" <=> Passes(c, key)
        BY <2>2, <2>3, <2>4, <2>5, <2>10 DEF Settable, ConfigError, q
      <3>2. r.res = "Ok" => r.builder = d
        BY <2>2, <2>7, <2>10 DEF ConfigError, q
      <3> QED
        BY <1>4, <1>5, <1>6, <2>10, <3>1, <3>2 DEF b, d, v
    <2> QED
      BY <2>8, <2>9, <2>10
  <1> QED
    BY <1>7, <1>8, <1>9

-----------------------------------------------------------------------------
(***************************************************************************)
(* The match of build_auth.                                                *)
(***************************************************************************)
\* The scheme of a builder: the first arm of the match that fits it is an
\* error unless the credentials are exactly those of one scheme.
LEMMA BuildAuthCases ==
    ASSUME NEW b
    PROVE  LET g   == Given(b)
               tcp == is_tcpx(b.protocol)
               a   == build_auth(b)
           IN  IF g = {} THEN a = Auth("None")
               ELSE IF tcp /\ g = {"username", "token", "token_x", "token_y"}
                      THEN a = Auth("Ecdsa")
               ELSE IF ~tcp /\ g = {"username", "password"} THEN a = Auth("Basic")
               ELSE IF ~tcp /\ g = {"token"} THEN a = Auth("Token")
               ELSE a.res = "ConfigError"
  <1> DEFINE g    == Given(b)
             tcp  == is_tcpx(b.protocol)
             arms == <<
          <<g = {}, Auth("None")>>,
          <<tcp /\ g = {"username", "token", "token_x", "token_y"}, Auth("Ecdsa")>>,
          <<tcp /\ g = {"username", "password"}, BadAuth("basic is http")>>,
          <<tcp /\ g = {"token"}, BadAuth("token is http")>>,
          <<tcp /\ "password" \notin g, BadAuth("incomplete ecdsa")>>,
          <<~tcp /\ g = {"username", "password"}, Auth("Basic")>>,
          <<~tcp /\ g = {"username"}, BadAuth("password missing")>>,
          <<~tcp /\ g = {"password"}, BadAuth("username missing")>>,
          <<~tcp /\ g = {"token"}, Auth("Token")>>,
          <<~tcp /\ g = {"username", "token", "token_x", "token_y"}, BadAuth("ecdsa is tcp")>>,
          <<~tcp /\ g \cap {"token_x", "token_y"} = {}, BadAuth("inconsistent http")>>,
          <<TRUE, BadAuth("incomplete")>> >>
             fits(i) == arms[i][1] /\ \A j \in 1..(i - 1) : ~arms[j][1]
             first == CHOOSE i \in DOMAIN arms : fits(i)
  <1>1. build_auth(b) = arms[first][2]
    BY Zenon DEF build_auth
  <1> HIDE DEF g, tcp
  <1>2. DOMAIN arms = 1..12
    OBVIOUS
  <1>3. /\ arms[1][1] <=> g = {}
        /\ arms[2][1] <=> tcp /\ g = {"username", "token", "token_x", "token_y"}
        /\ arms[6][1] <=> ~tcp /\ g = {"username", "password"}
        /\ arms[9][1] <=> ~tcp /\ g = {"token"}
        /\ arms[12][1]
    OBVIOUS
  <1>4. /\ arms[3][1] <=> tcp /\ g = {"username", "password"}
        /\ arms[4][1] <=> tcp /\ g = {"token"}
        /\ arms[5][1] <=> tcp /\ "password" \notin g
        /\ arms[7][1] <=> ~tcp /\ g = {"username"}
        /\ arms[8][1] <=> ~tcp /\ g = {"password"}
    OBVIOUS
  <1>5. /\ arms[1][2] = Auth("None")
        /\ arms[2][2] = Auth("Ecdsa")
        /\ arms[6][2] = Auth("Basic")
        /\ arms[9][2] = Auth("Token")
    OBVIOUS
  <1>6. \A i \in (1..12) \ {1, 2, 6, 9} : arms[i][2].res = "ConfigError"
    <2>1. \A why : BadAuth(why).res = "ConfigError"
      BY DEF BadAuth
    <2>2. /\ arms[3][2] = BadAuth("basic is http")
          /\ arms[4][2] = BadAuth("token is http")
          /\ arms[5][2] = BadAuth("incomplete ecdsa")
          /\ arms[7][2] = BadAuth("password missing")
          /\ arms[8][2] = BadAuth("username missing")
          /\ arms[10][2] = BadAuth("ecdsa is tcp")
          /\ arms[11][2] = BadAuth("inconsistent http")
          /\ arms[12][2] = BadAuth("incomplete")
      OBVIOUS
    <2> HIDE DEF arms
    <2>3. \A i \in (1..12) \ {1, 2, 6, 9} :
            i = 3 \/ i = 4 \/ i = 5 \/ i = 7 \/ i = 8 \/ i = 10 \/ i = 11 \/ i = 12
      OBVIOUS
    <2>4. /\ arms[3][2].res = "ConfigError" /\ arms[4][2].res = "ConfigError"
          /\ arms[5][2].res = "ConfigError" /\ arms[7][2].res = "ConfigError"
          /\ arms[8][2].res = "ConfigError" /\ arms[10][2].res = "ConfigError"
          /\ arms[11][2].res = "ConfigError" /\ arms[12][2].res = "ConfigError"
      BY <2>1, <2>2, Zenon
    <2> QED
      BY <2>3, <2>4
  <1> HIDE DEF arms
  <1>7. \E i \in 1..12 : fits(i)
    BY <1>3
  <1>8. first \in 1..12 /\ fits(first)
    BY <1>2, <1>7
  <1> HIDE DEF first
  <1>9. CASE g = {}
    BY <1>1, <1>3, <1>5, <1>8, <1>9 DEF g
  <1>10. CASE tcp /\ g = {"username", "token", "token_x", "token_y"}
    BY <1>1, <1>3, <1>5, <1>8, <1>10 DEF g, tcp
  <1>11. CASE ~tcp /\ g = {"username", "password"}
    BY <1>1, <1>3, <1>4, <1>5, <1>8, <1>11 DEF g, tcp
  <1>12. CASE ~tcp /\ g = {"token"}
    BY <1>1, <1>3, <1>4, <1>5, <1>8, <1>12 DEF g, tcp
  <1>13. CASE /\ g # {}
              /\ ~(tcp /\ g = {"username", "token", "token_x", "token_y"})
              /\ ~(~tcp /\ g = {"username", "password"})
              /\ ~(~tcp /\ g = {"token"})
    BY <1>1, <1>3, <1>6, <1>8, <1>13 DEF g, tcp
  <1> QED
    BY <1>9, <1>10, <1>11, <1>12, <1>13

\* A builder of the kinds that the operations make is read as documented.
LEMMA AuthInv == TypeInv => AuthAsDocumented
  <1> SUFFICES ASSUME TypeInv PROVE AuthAsDocumented
    OBVIOUS
  <1> DEFINE g   == Given(builder)
             a   == build_auth(builder)
             tcp == is_tcpx(builder.protocol)
             ecdsa == {"username", "token", "token_x", "token_y"}
             scheme == CASE g = {} -> {"None"}
                         [] tcp /\ g = Credentials \ {"password"} -> {"Ecdsa"}
                         [] ~tcp /\ g = {"username", "password"} -> {"Basic"}
                         [] ~tcp /\ g = {"token"} -> {"Token"}
                         [] OTHER -> {}
  <1>1. IF g = {} THEN a = Auth("None")
        ELSE IF tcp /\ g = ecdsa THEN a = Auth("Ecdsa")
        ELSE IF ~tcp /\ g = {"username", "password"} THEN a = Auth("Basic")
        ELSE IF ~tcp /\ g = {"token"} THEN a = Auth("Token")
        ELSE a.res = "ConfigError"
    BY BuildAuthCases
  <1>2. Credentials \ {"password"} = ecdsa
    BY DEF Credentials
  <1>3. \A x : (CHOOSE y \in {x} : TRUE) = x /\ {x} # {}
    OBVIOUS
  <1>4. ecdsa # {} /\ {"username", "password"} # {} /\ {"token"} # {} /\ ecdsa # {"username", "password"}
    OBVIOUS
  <1>5. Auth("Ecdsa").res = "Ok" /\ \A x, y : Auth(x) = Auth(y) => x = y
    BY DEF Auth
  <1> HIDE DEF g, a, tcp
  <1>6. IF scheme = {} THEN a.res = "ConfigError"
                       ELSE a = Auth(CHOOSE x \in scheme : TRUE)
    <2>1. CASE g = {}
      <3>1. scheme = {"None"} /\ a = Auth("None")
        BY <1>1, <1>2, <1>4, <2>1
      <3> QED
        BY <1>3, <3>1, Zenon
    <2>2. CASE tcp /\ g = ecdsa
      <3>1. scheme = {"Ecdsa"} /\ a = Auth("Ecdsa")
        BY <1>1, <1>2, <1>4, <2>2
      <3> QED
        BY <1>3, <3>1, Zenon
    <2>3. CASE ~tcp /\ g = {"username", "password"}
      <3>1. scheme = {"Basic"} /\ a = Auth("Basic")
        BY <1>1, <1>2, <2>3
      <3> QED
        BY <1>3, <3>1, Zenon
    <2>4. CASE ~tcp /\ g = {"token"}
      <3>1. scheme = {"Token"} /\ a = Auth("Token")
        BY <1>1, <1>2, <2>4
      <3> QED
        BY <1>3, <3>1, Zenon
    <2>5. CASE ~(\/ g = {}
                 \/ tcp /\ g = ecdsa
                 \/ ~tcp /\ g = {"username", "password"}
                 \/ ~tcp /\ g = {"token"})
      <3>1. scheme = {} /\ a.res = "ConfigError"
        BY <1>1, <1>2, <2>5
      <3> QED
        BY <3>1
    <2> QED
      BY <2>1, <2>2, <2>3, <2>4, <2>5
  <1>7. tcp <=> ~is_httpx(builder.protocol)
    BY DEF TypeInv, Proper, Protocols, is_tcpx, is_httpx, tcp
  <1>8. a = Auth("Ecdsa") => tcp
    <2>1. ~tcp => a = Auth("None") \/ a = Auth("Basic") \/ a = Auth("Token")
                    \/ a.res = "ConfigError"
      BY <1>1
    <2> QED
      BY <1>5, <2>1
  <1>9. ~LateError(builder)
    BY <1>7, <1>8 DEF LateError, TypeInv, Unbound, a
  <1>10. builder.http = is_httpx(builder.protocol)
    BY DEF TypeInv, Proper
  <1> QED
    BY <1>6, <1>9, <1>10, Zenon DEF AuthAsDocumented, g, a, tcp

-----------------------------------------------------------------------------
(***************************************************************************)
(* The operations keep the inductive invariant.                            *)
(***************************************************************************)
\* A builder that nothing was asked of yet.
LEMMA InitInv == Init => IInv
  <1> SUFFICES ASSUME Init PROVE IInv
    OBVIOUS
  <1>1. "tcp" \in Protocols
    BY DEF Protocols
  <1>2. Proper(builder) /\ builder.protocol = "tcp"
    BY <1>1, NewFields DEF Init
  <1>3. TypeInv
    BY <1>2 DEF TypeInv, Init, Unbound, is_httpx
  <1>4. PhaseInv /\ LoopInv /\ OrderFree
    BY DEF PhaseInv, LoopInv, OrderFree, Init
  <1>5. RootsAsAsked
    BY DEF RootsAsAsked, Init, Nothing
  <1> QED
    BY <1>3, <1>4, <1>5 DEF IInv

\* line_sender_opts_new.
LEMMA NewInv ==
    ASSUME IInv, NEW p \in Protocols, New(p)
    PROVE  IInv'
  <1> DEFINE n == new(p, "server")
             u == user_agent(n, "questdb/c").builder
  <1>1. Proper(n) /\ n.protocol = p /\ \A s \in Settings : n.set[s] = Defaulted
    BY NewFields
  <1>2. n = [ protocol   |-> p,
              addr       |-> "server",
              set        |-> [s \in Settings |-> Defaulted],
              http       |-> is_httpx(p),
              user_agent |-> "questdb/rust" ]
    BY DEF new
  <1>3. u = IF n.http THEN [n EXCEPT !.user_agent = "questdb/c"] ELSE n
    BY DEF user_agent, Builder
  <1>4. Proper(u) /\ u.protocol = p /\ u.set["bind_interface"] = Defaulted
    BY <1>2, <1>3 DEF Proper, Shaped, Settings
  <1> HIDE DEF u, n
  <1>5. phase' = "ready" /\ builder' = u /\ UNCHANGED <<conf, todo, calls, built>>
    BY DEF New, u, n
  <1>6. conf = NoConf
    BY DEF IInv, PhaseInv, New
  <1> QED
    BY <1>4, <1>5, <1>6 DEF IInv, TypeInv, Unbound, PhaseInv, LoopInv, OrderFree, RootsAsAsked

\* from_conf up to its loop.
LEMMA FromConfInv ==
    ASSUME IInv, NEW c \in Confs, FromConf(c)
    PROVE  IInv'
  <1>1. c.protocol \in Protocols
    BY OptsAssumption
  <1>2. /\ phase = "none" /\ conf' = c /\ built = Nothing /\ built' = Nothing
        /\ calls' = calls /\ calls = 0
    BY DEF FromConf, IInv, PhaseInv
  <1>3. RootsAsAsked'
    BY <1>2 DEF RootsAsAsked, Nothing
  <1>4. CASE "addr" \in DOMAIN c.params /\ validate_auto_flush_params(c.params)
    <2> DEFINE n == new(c.protocol, c.params["addr"])
    <2>1. /\ phase' = "parsing" /\ todo' = DOMAIN c.params /\ builder' = n
      BY <1>4 DEF FromConf
    <2>2. /\ Proper(n) /\ n.protocol = c.protocol /\ n.addr = c.params["addr"]
          /\ n.http = is_httpx(c.protocol) /\ n.user_agent = "questdb/rust"
          /\ \A s \in Settings : n.set[s] = Defaulted
      BY <1>1, NewFields
    <2> HIDE DEF n
    <2>3. "bind_interface" \in Settings
      BY DEF Settings
    <2>4. TypeInv'
      BY <1>2, <2>1, <2>2, <2>3 DEF TypeInv, IInv, Unbound
    <2> DEFINE y == Partial(c, {})
    <2>5. /\ Proper(y) /\ y.protocol = c.protocol /\ y.addr = c.params["addr"]
          /\ y.http = is_httpx(c.protocol) /\ y.user_agent = "questdb/rust"
          /\ \A s \in Settings : y.set[s] = SetBy(c, {}, s)
      BY <1>1, PartialFields
    <2>6. \A s \in Settings : SetBy(c, {}, s) = Defaulted
      BY DEF SetBy
    <2> HIDE DEF y
    <2>7. n = y
      BY <2>2, <2>5, <2>6, SameFields DEF Proper
    <2>8. Accepted(c, {})
      BY <1>4 DEF Accepted
    <2>9. DOMAIN c.params \ DOMAIN c.params = {}
      OBVIOUS
    <2>10. LoopInv'
      BY <1>2, <2>1, <2>7, <2>8, <2>9, Zenon DEF LoopInv, y
    <2> QED
      BY <1>2, <1>3, <2>1, <2>4, <2>10 DEF IInv, PhaseInv, OrderFree
  <1>5. CASE ~("addr" \in DOMAIN c.params /\ validate_auto_flush_params(c.params))
    <2>1. phase' = "refused" /\ builder' = builder
      BY <1>5 DEF FromConf
    <2>2. ~ValidConf(c)
      BY <1>5 DEF ValidConf
    <2> QED
      BY <1>2, <1>3, <2>1, <2>2
      DEF IInv, TypeInv, Unbound, PhaseInv, LoopInv, OrderFree
  <1> QED
    BY <1>4, <1>5

\* The builder of the loop has no interface to bind when it is for HTTP.
LEMMA PartialUnbound ==
    ASSUME NEW c, c.protocol \in Protocols, NEW done, Accepted(c, done)
    PROVE  Proper(Partial(c, done)) /\ Unbound(Partial(c, done))
  <1> DEFINE y == Partial(c, done)
  <1>1. "bind_interface" \in Settings
    BY DEF Settings
  <1>2. /\ Proper(y) /\ y.protocol = c.protocol
        /\ y.set["bind_interface"] = SetBy(c, done, "bind_interface")
    BY <1>1, PartialFields
  <1> HIDE DEF y
  <1>3. "bind_interface" \in done => ~is_httpx(c.protocol)
    <2>1. "bind_interface" \in done => Fits(c, "bind_interface")
      BY <1>1, PassesMeans DEF Accepted
    <2>2. new(c.protocol, "x").protocol = c.protocol
      BY NewFields
    <2> QED
      BY <2>1, <2>2 DEF Fits, ProtocolAllows, is_tcpx, is_httpx
  <1> QED
    BY <1>2, <1>3 DEF Unbound, SetBy, y

\* One turn of the loop.
LEMMA ParamInv ==
    ASSUME IInv, NEW key \in todo, Param(key)
    PROVE  IInv'
  <1> DEFINE all  == DOMAIN conf.params
             done == all \ todo
             b    == Partial(conf, done)
             r    == Arm(b, key, conf.params[key])
  <1>1. /\ phase = "parsing" /\ conf \in Confs /\ todo \subseteq all
        /\ Accepted(conf, done) /\ builder = b
    BY DEF Param, IInv, LoopInv
  <1>2. conf.protocol \in Protocols
    BY <1>1, OptsAssumption
  <1>3. key \in all \ done /\ done \in SUBSET all
    BY <1>1
  <1>4. /\ r.res = "Ok" => /\ Accepted(conf, done \cup {key})
                           /\ r.builder = Partial(conf, done \cup {key})
        /\ r.res # "Ok" => ~ValidConf(conf)
    BY <1>1, <1>2, <1>3, ArmStep, Zenon
  <1>5. /\ UNCHANGED <<conf, calls, built>> /\ built = Nothing /\ calls = 0
        /\ IF r.res = "Ok"
             THEN builder' = r.builder /\ todo' = todo \ {key} /\ phase' = "parsing"
             ELSE phase' = "refused" /\ builder' = builder
    BY <1>1, Zenon DEF Param, IInv, PhaseInv
  <1> HIDE DEF r, b
  <1>6. RootsAsAsked'
    BY <1>5 DEF RootsAsAsked, Nothing
  <1>7. CASE r.res = "Ok"
    <2>1. all \ (todo \ {key}) = done \cup {key}
      BY <1>1
    <2>2. /\ builder' = Partial(conf, done \cup {key}) /\ todo' = todo \ {key}
          /\ phase' = "parsing"
      BY <1>4, <1>5, <1>7
    <2>3. Accepted(conf, done \cup {key})
      BY <1>4, <1>7
    <2>4. Proper(builder') /\ Unbound(builder')
      BY <1>2, <2>2, <2>3, PartialUnbound, Zenon
    <2>5. TypeInv'
      BY <1>5, <2>2, <2>4 DEF TypeInv, IInv
    <2>6. LoopInv'
      <3>1. (todo \ {key}) \subseteq all
        BY <1>1
      <3> QED
        BY <1>1, <1>5, <2>1, <2>2, <2>3, <3>1, Zenon DEF LoopInv
    <2> QED
      BY <1>5, <1>6, <2>2, <2>5, <2>6 DEF IInv, PhaseInv, OrderFree
  <1>8. CASE r.res # "Ok"
    <2>1. phase' = "refused" /\ builder' = builder /\ ~ValidConf(conf)
      BY <1>4, <1>5, <1>8
    <2> QED
      BY <1>5, <1>6, <2>1 DEF IInv, TypeInv, Unbound, PhaseInv, LoopInv, OrderFree
  <1> QED
    BY <1>7, <1>8

\* from_conf returns the builder that the string describes.
LEMMA FromConfReturnsInv ==
    ASSUME IInv, FromConfReturns
    PROVE  IInv'
  <1> DEFINE all == DOMAIN conf.params
  <1>1. /\ phase = "parsing" /\ todo = {} /\ phase' = "ready"
        /\ UNCHANGED <<builder, conf, todo, calls, built>>
    BY DEF FromConfReturns
  <1>2. /\ conf \in Confs /\ Accepted(conf, all \ todo) /\ builder = Partial(conf, all \ todo)
        /\ built = Nothing
    BY <1>1 DEF IInv, LoopInv, PhaseInv
  <1>3. all \ todo = all
    BY <1>1
  <1>4. Accepted(conf, all) /\ builder = Partial(conf, all)
    BY <1>2, <1>3, Zenon
  <1>5. ValidConf(conf)
    BY <1>4 DEF Accepted, ValidConf
  <1>6. Partial(conf, all) = ConfBuilder(conf)
    BY DEF Partial, ConfBuilder, SetBy
  <1>7. OrderFree'
    BY <1>1, <1>4, <1>5, <1>6 DEF OrderFree
  <1>8. RootsAsAsked'
    BY <1>1, <1>2 DEF RootsAsAsked, Nothing
  <1> QED
    BY <1>1, <1>7, <1>8 DEF IInv, TypeInv, Unbound, PhaseInv, LoopInv

\* A call of a setter.
LEMMA SetInv ==
    ASSUME IInv, NEW s \in Settings, NEW v, Set(s, v)
    PROVE  IInv'
  <1> DEFINE r == Setter(builder, s, v)
             y == r.builder
  <1>1. /\ phase = "ready" /\ UNCHANGED <<phase, conf, todo, built>>
        /\ calls' = calls + 1
        /\ builder' = IF r.res = "Ok" THEN r.builder ELSE Dummy
    BY DEF Set, upd_opts
  <1>2. Proper(builder) /\ Unbound(builder) /\ calls \in Nat
    BY DEF IInv, TypeInv
  <1>3. /\ r.res = "Ok" <=> /\ Settable(builder, s, v)
                            /\ s = "tls_roots" => Settable(builder, "tls_ca", "pem_file")
        /\ r.res = "Ok" =>
             /\ Proper(y)
             /\ y.protocol = builder.protocol
             /\ \A t \in Settings :
                  y.set[t] = IF t = s THEN v
                             ELSE IF t = "tls_ca" /\ s = "tls_roots" THEN "pem_file"
                             ELSE builder.set[t]
    BY <1>2, SetterFacts
  <1> HIDE DEF r
  <1>4. "bind_interface" \in Settings /\ "tcp" \in Protocols
    BY DEF Settings, Protocols
  <1>5. Proper(Dummy) /\ Dummy.protocol = "tcp"
    BY <1>4, NewFields DEF Dummy
  <1>6. Unbound(Dummy)
    BY <1>5 DEF Unbound, is_httpx
  <1>7. ASSUME r.res = "Ok" PROVE Unbound(y)
    <2>1. s = "bind_interface" => ~is_httpx(y.protocol)
      BY <1>3, <1>7 DEF Settable, ProtocolAllows, is_tcpx, is_httpx
    <2> QED
      BY <1>2, <1>3, <1>4, <1>7, <2>1 DEF Unbound
  <1>8. Proper(builder') /\ Unbound(builder')
    BY <1>1, <1>3, <1>5, <1>6, <1>7
  <1>9. TypeInv'
    BY <1>1, <1>2, <1>8 DEF TypeInv, IInv
  <1>10. calls' # 0
    BY <1>1, <1>2
  <1> QED
    BY <1>1, <1>9, <1>10 DEF IInv, PhaseInv, LoopInv, OrderFree, RootsAsAsked

\* The settings of the builder that a good string describes.
LEMMA ConfSettings ==
    ASSUME NEW c, c.protocol \in Protocols, ValidConf(c)
    PROVE  LET y == ConfBuilder(c)
               all == DOMAIN c.params
           IN  /\ y.protocol = c.protocol
               /\ "tls_verify" \in all => c.params["tls_verify"] \in {"on", "unsafe_off"}
               /\ "tls_ca" \in all => c.params["tls_ca"] \in CAs \ {"pem_file"}
               /\ ~({"tls_ca", "tls_roots"} \subseteq all)
               /\ \A s \in TlsSettings : y.set[s] = SetBy(c, all, s)
  <1> DEFINE all == DOMAIN c.params
             y   == ConfBuilder(c)
  <1>1. TlsSettings \subseteq Settings
    BY DEF Settings
  <1>2. y = Partial(c, all)
    BY DEF Partial, ConfBuilder, SetBy
  <1>3. y.protocol = c.protocol /\ \A s \in Settings : y.set[s] = SetBy(c, all, s)
    BY <1>2, PartialFields, Zenon
  <1> HIDE DEF y
  <1>4. \A s \in TlsSettings : s \in all => Fits(c, s)
    BY <1>1, PassesMeans DEF ValidConf
  <1>5. "tls_verify" \in TlsSettings /\ "tls_ca" \in TlsSettings
    BY DEF TlsSettings
  <1>6. /\ "tls_verify" \in all => c.params["tls_verify"] \in {"on", "unsafe_off"}
        /\ "tls_ca" \in all => c.params["tls_ca"] \in CAs \ {"pem_file"}
    BY <1>4, <1>5 DEF Fits, Parses
  <1>7. ~({"tls_ca", "tls_roots"} \subseteq all)
    BY DEF ValidConf
  <1> QED
    BY <1>1, <1>3, <1>6, <1>7 DEF y

\* The roots that build takes from the builder of a good string.
LEMMA RootsOfConf ==
    ASSUME NEW c, c.protocol \in Protocols, ValidConf(c), NEW io \in BOOLEAN,
           configure_tls(ConfBuilder(c), io).res = "Ok"
    PROVE  LET given(k) == k \in DOMAIN c.params
               text(k)  == c.params[k]
           IN  configure_tls(ConfBuilder(c), io).roots =
                 IF ~tls_enabled(c.protocol) THEN "no TLS"
                 ELSE IF given("tls_verify") /\ text("tls_verify") # "on" THEN "unverified"
                 ELSE IF given("tls_roots") THEN text("tls_roots")
                 ELSE IF given("tls_ca") THEN text("tls_ca")
                 ELSE "webpki_roots"
  <1> DEFINE y   == ConfBuilder(c)
             all == DOMAIN c.params
             t   == configure_tls(y, io)
             file == y.set["tls_roots"]
  <1>1. /\ y.protocol = c.protocol
        /\ "tls_verify" \in all => c.params["tls_verify"] \in {"on", "unsafe_off"}
        /\ "tls_ca" \in all => c.params["tls_ca"] \in CAs \ {"pem_file"}
        /\ ~({"tls_ca", "tls_roots"} \subseteq all)
        /\ \A s \in TlsSettings : y.set[s] = SetBy(c, all, s)
    BY ConfSettings
  <1>2. /\ y.set["tls_verify"] = SetBy(c, all, "tls_verify")
        /\ y.set["tls_ca"] = SetBy(c, all, "tls_ca")
        /\ y.set["tls_roots"] = SetBy(c, all, "tls_roots")
    BY <1>1 DEF TlsSettings
  <1> HIDE DEF y
  <1>3. /\ t.res = "Ok" => \/ ~tls_enabled(y.protocol) /\ t.roots = "no TLS"
                           \/ /\ tls_enabled(y.protocol) /\ ~Verify(y)
                              /\ t.roots = "unverified"
                           \/ /\ tls_enabled(y.protocol) /\ Verify(y)
                              /\ (Ca(y) = "pem_file") <=> (file # Defaulted)
                              /\ t.roots = IF Ca(y) = "pem_file" THEN file ELSE Ca(y)
    BY DEF configure_tls
  <1> HIDE DEF t
  <1>4. Verify(y) <=> ~("tls_verify" \in all /\ c.params["tls_verify"] # "on")
    BY <1>1, <1>2 DEF Verify, SetBy, Defaulted
  <1>5. Ca(y) = IF "tls_roots" \in all THEN "pem_file"
                ELSE IF "tls_ca" \in all THEN c.params["tls_ca"]
                ELSE "webpki_roots"
    <2>1. "tls_ca" \in all => "tls_roots" \notin all
      BY <1>1
    <2>2. y.set["tls_ca"] = IF "tls_ca" \in all THEN c.params["tls_ca"]
                            ELSE IF "tls_roots" \in all THEN "pem_file" ELSE Defaulted
      BY <1>2 DEF SetBy
    <2>3. "tls_ca" \in all => c.params["tls_ca"] # Defaulted
      BY <1>1 DEF CAs, Defaulted
    <2> QED
      BY <2>1, <2>2, <2>3 DEF Ca, Defaulted
  <1>6. "tls_ca" \in all => c.params["tls_ca"] # "pem_file"
    BY <1>1
  <1>7. "tls_roots" \in all => file = c.params["tls_roots"]
    BY <1>2 DEF SetBy
  <1> QED
    BY <1>1, <1>3, <1>4, <1>5, <1>6, <1>7 DEF t, y

\* line_sender_build only reads the options.
LEMMA BuildInv ==
    ASSUME IInv, Build
    PROVE  IInv'
  <1>1. phase = "ready" /\ UNCHANGED <<phase, builder, conf, todo, calls>>
    BY DEF Build
  <1>2. PICK io \in BOOLEAN :
          LET a == build_auth(builder)
              t == configure_tls(builder, io)
          IN  built' = IF a.res # "Ok" THEN [res |-> a.res]
                       ELSE IF t.res # "Ok" THEN [res |-> t.res]
                       ELSE [res |-> "Ok", scheme |-> a.scheme, roots |-> t.roots]
    BY Zenon DEF Build
  <1> DEFINE t == configure_tls(builder, io)
  <1>3. built'.res = "Ok" => t.res = "Ok" /\ built'.roots = t.roots
    BY <1>2
  <1> HIDE DEF t
  <1>4. RootsAsAsked'
    <2>1. SUFFICES ASSUME built'.res = "Ok", conf # NoConf, calls = 0
                   PROVE  t.roots = IF ~tls_enabled(conf.protocol) THEN "no TLS"
                                    ELSE IF /\ "tls_verify" \in DOMAIN conf.params
                                            /\ conf.params["tls_verify"] # "on"
                                           THEN "unverified"
                                    ELSE IF "tls_roots" \in DOMAIN conf.params
                                           THEN conf.params["tls_roots"]
                                    ELSE IF "tls_ca" \in DOMAIN conf.params
                                           THEN conf.params["tls_ca"]
                                    ELSE "webpki_roots"
      BY <1>1, <1>3 DEF RootsAsAsked
    <2>2. ValidConf(conf) /\ builder = ConfBuilder(conf)
      BY <1>1, <2>1 DEF IInv, OrderFree
    <2>3. conf.protocol \in Protocols
      BY <2>1, OptsAssumption DEF IInv, TypeInv
    <2>4. configure_tls(ConfBuilder(conf), io).res = "Ok"
      BY <1>3, <2>1, <2>2 DEF t
    <2> QED
      BY <2>2, <2>3, <2>4, RootsOfConf DEF t
  <1> QED
    BY <1>1, <1>4 DEF IInv, TypeInv, Unbound, PhaseInv, LoopInv, OrderFree

\* Every step keeps the inductive invariant.
LEMMA NextInv == IInv /\ [Next]_vars => IInv'
  <1> SUFFICES ASSUME IInv, [Next]_vars PROVE IInv'
    OBVIOUS
  <1>1. ASSUME NEW p \in Protocols, New(p) PROVE IInv'
    BY <1>1, NewInv
  <1>2. ASSUME NEW c \in Confs, FromConf(c) PROVE IInv'
    BY <1>2, FromConfInv
  <1>3. ASSUME NEW key \in todo, Param(key) PROVE IInv'
    BY <1>3, ParamInv
  <1>4. CASE FromConfReturns
    BY <1>4, FromConfReturnsInv
  <1>5. ASSUME NEW c \in Calls, Set(c[1], c[2]) PROVE IInv'
    BY <1>5, SetInv, OptsAssumption
  <1>6. CASE Build
    BY <1>6, BuildInv
  <1>7. CASE UNCHANGED vars
    BY <1>7 DEF vars, IInv, TypeInv, Unbound, PhaseInv, LoopInv, OrderFree, RootsAsAsked
  <1> QED
    BY <1>1, <1>2, <1>3, <1>4, <1>5, <1>6, <1>7 DEF Next

-----------------------------------------------------------------------------
(***************************************************************************)
(* The theorems.                                                           *)
(***************************************************************************)
\* The inductive invariant holds.
LEMMA OptsInv == Spec => []IInv
  BY InitInv, NextInv, PTL DEF Spec

\* from_conf gives the same answer in every order of the HashMap.
THEOREM OptsOrderFree == Spec => []OrderFree
  <1>1. IInv => OrderFree
    BY DEF IInv
  <1> QED
    BY <1>1, OptsInv, PTL

\* build_auth accepts exactly the three schemes and nothing, each on its
\* protocol, and the checks that build makes a second time never fail.
THEOREM OptsAuthAsDocumented == Spec => []AuthAsDocumented
  <1>1. IInv => AuthAsDocumented
    BY AuthInv DEF IInv
  <1> QED
    BY <1>1, OptsInv, PTL

\* A sender built from a string checks certificates against the roots that
\* the string names.
THEOREM OptsRootsAsAsked == Spec => []RootsAsAsked
  <1>1. IInv => RootsAsAsked
    BY DEF IInv
  <1> QED
    BY <1>1, OptsInv, PTL

-----------------------------------------------------------------------------
(***************************************************************************)
(* What the setters leave.                                                 *)
(***************************************************************************)
Pairs == {<<c[1], c[2]>> : c \in Calls}

\* The builder has what it had at first but for its settings, and of those
\* what was asked for.
AskedInv ==
    /\ asked \in Seq(Pairs)
    /\ phase # "ready" => asked = <<>>
    /\ phase = "ready" =>
         /\ Proper(base)
         /\ builder.protocol = base.protocol /\ builder.addr = base.addr
         /\ builder.http = base.http /\ builder.user_agent = base.user_agent
         /\ \A s \in Settings :
              IF Asked(s) = {} THEN builder.set[s] = base.set[s]
                               ELSE Asked(s) = {builder.set[s]}

\* That is HoldsWhatWasAsked.
LEMMA AskedMeans == IInv /\ AskedInv => HoldsWhatWasAsked
  <1> SUFFICES ASSUME IInv, AskedInv, phase = "ready" PROVE HoldsWhatWasAsked
    BY DEF HoldsWhatWasAsked
  <1> DEFINE z == [base EXCEPT !.set = builder.set]
  <1>1. Proper(base) /\ Proper(builder)
    BY DEF AskedInv, IInv, TypeInv
  <1>2. z = [ protocol   |-> base.protocol,
              addr       |-> base.addr,
              set        |-> builder.set,
              http       |-> base.http,
              user_agent |-> base.user_agent ]
    BY <1>1 DEF Proper, Shaped
  <1> HIDE DEF z
  <1>3. builder = [ protocol   |-> builder.protocol,
                    addr       |-> builder.addr,
                    set        |-> builder.set,
                    http       |-> builder.http,
                    user_agent |-> builder.user_agent ]
    BY <1>1 DEF Proper, Shaped
  <1>4. /\ builder.protocol = base.protocol /\ builder.addr = base.addr
        /\ builder.http = base.http /\ builder.user_agent = base.user_agent
    BY DEF AskedInv
  <1>5. builder = z
    BY <1>2, <1>3, <1>4, Zenon
  <1> QED
    BY <1>5 DEF AskedInv, HoldsWhatWasAsked, z

\* One more setter that succeeds.
LEMMA MoreAsked ==
    ASSUME asked \in Seq(Pairs), NEW s, NEW v, asked' = Append(asked, <<s, v>>)
    PROVE  \A t : Asked(t)' = Asked(t) \cup (IF t = s THEN {v} ELSE {})
                                       \cup (IF t = "tls_ca" /\ s = "tls_roots" THEN {"pem_file"} ELSE {})
  <1>1. Range(asked') = Range(asked) \cup {<<s, v>>}
    <2>1. Len(asked) \in Nat /\ DOMAIN asked = 1..Len(asked)
      OBVIOUS
    <2>2. DOMAIN asked' = 1..(Len(asked) + 1)
      OBVIOUS
    <2>3. asked'[Len(asked) + 1] = <<s, v>> /\ \A i \in 1..Len(asked) : asked'[i] = asked[i]
      OBVIOUS
    <2>4. \A i \in 1..(Len(asked) + 1) : i \in 1..Len(asked) \/ i = Len(asked) + 1
      BY <2>1
    <2>5. Len(asked) + 1 \in 1..(Len(asked) + 1) /\ \A i \in 1..Len(asked) : i \in 1..(Len(asked) + 1)
      BY <2>1
    <2> QED
      BY <2>1, <2>2, <2>3, <2>4, <2>5 DEF Range
  <1>2. <<s, v>>[1] = s /\ <<s, v>>[2] = v
    OBVIOUS
  <1> DEFINE P(a, t) == {c[2] : c \in {d \in Range(a) : d[1] = t}}
             Q(a, t) == {"pem_file" : c \in {d \in Range(a) : t = "tls_ca" /\ d[1] = "tls_roots"}}
  <1>3. \A t : P(asked', t) = P(asked, t) \cup (IF t = s THEN {v} ELSE {})
    BY <1>1, <1>2
  <1>4. \A t : Q(asked', t) = Q(asked, t)
                                \cup (IF t = "tls_ca" /\ s = "tls_roots" THEN {"pem_file"} ELSE {})
    BY <1>1, <1>2
  <1>5. \A t : Asked(t) = P(asked, t) \cup Q(asked, t) /\ Asked(t)' = P(asked', t) \cup Q(asked', t)
    BY DEF Asked
  <1> HIDE DEF P, Q
  <1> QED
    BY <1>3, <1>4, <1>5

\* Set adds what it asks for, or starts again from the dummy.
LEMMA SetAsked ==
    ASSUME IInv, AskedInv, NEW c \in Calls, Set(c[1], c[2])
    PROVE  AskedInv'
  <1> DEFINE s == c[1]
             v == c[2]
             r == Setter(builder, s, v)
             y == r.builder
  <1>1. /\ phase = "ready" /\ phase' = "ready"
        /\ builder' = IF r.res = "Ok" THEN y ELSE Dummy
        /\ asked' = IF r.res = "Ok" THEN Append(asked, <<s, v>>) ELSE <<>>
        /\ base' = IF r.res = "Ok" THEN base ELSE Dummy
    BY DEF Set, upd_opts
  <1>2. s \in Settings /\ v # Defaulted /\ <<s, v>> \in Pairs
    BY OptsAssumption DEF Pairs
  <1>3. Proper(builder)
    BY DEF IInv, TypeInv
  <1>4. /\ r.res = "Ok" <=> /\ Settable(builder, s, v)
                            /\ s = "tls_roots" => Settable(builder, "tls_ca", "pem_file")
        /\ r.res = "Ok" =>
             /\ y.protocol = builder.protocol /\ y.addr = builder.addr
             /\ y.http = builder.http /\ y.user_agent = builder.user_agent
             /\ \A t \in Settings :
                  y.set[t] = IF t = s THEN v
                             ELSE IF t = "tls_ca" /\ s = "tls_roots" THEN "pem_file"
                             ELSE builder.set[t]
    BY <1>2, <1>3, SetterFacts
  <1> HIDE DEF r, s, v
  <1>5. CASE r.res # "Ok"
    <2>1. builder' = Dummy /\ base' = Dummy /\ asked' = <<>>
      BY <1>1, <1>5
    <2>2. Proper(Dummy)
      BY NewFields DEF Dummy, Protocols
    <2>3. \A t : Asked(t)' = {}
      BY <2>1 DEF Asked, Range
    <2>4. asked' \in Seq(Pairs)
      BY <2>1
    <2> QED
      BY <1>1, <2>1, <2>2, <2>3, <2>4 DEF AskedInv
  <1>6. CASE r.res = "Ok"
    <2>1. builder' = y /\ base' = base /\ asked' = Append(asked, <<s, v>>) /\ asked \in Seq(Pairs)
      BY <1>1, <1>6 DEF AskedInv
    <2>2. asked' \in Seq(Pairs)
      BY <1>2, <2>1
    <2>3. \A t : Asked(t)' = Asked(t) \cup (IF t = s THEN {v} ELSE {})
                                      \cup (IF t = "tls_ca" /\ s = "tls_roots" THEN {"pem_file"} ELSE {})
      BY <2>1, MoreAsked
    <2>4. /\ builder.set[s] \in {Defaulted, v}
          /\ s = "tls_roots" => builder.set["tls_ca"] \in {Defaulted, "pem_file"}
      BY <1>4, <1>6 DEF Settable
    <2>5. ASSUME NEW t \in Settings
          PROVE  IF Asked(t)' = {} THEN y.set[t] = base.set[t] ELSE Asked(t)' = {y.set[t]}
      <3>1. IF Asked(t) = {} THEN builder.set[t] = base.set[t] ELSE Asked(t) = {builder.set[t]}
        BY <1>1 DEF AskedInv
      <3>2. Defaulted \notin Asked(t)
        <4>1. \A d \in Range(asked) : d[2] # Defaulted
          BY <2>1, OptsAssumption DEF Range, Pairs
        <4> QED
          BY <4>1 DEF Asked, Defaulted
      <3> DEFINE A == Asked(t)
                 B == Asked(t)'
      <3>3. B = A \cup (IF t = s THEN {v} ELSE {})
                  \cup (IF t = "tls_ca" /\ s = "tls_roots" THEN {"pem_file"} ELSE {})
        BY <2>3
      <3>4. y.set[t] = IF t = s THEN v
                       ELSE IF t = "tls_ca" /\ s = "tls_roots" THEN "pem_file"
                       ELSE builder.set[t]
        BY <1>4, <1>6
      <3> HIDE DEF A, B
      <3>5. IF A = {} THEN builder.set[t] = base.set[t] ELSE A = {builder.set[t]}
        BY <3>1 DEF A
      <3>6. Defaulted \notin A
        BY <3>2 DEF A
      <3>7. IF B = {} THEN y.set[t] = base.set[t] ELSE B = {y.set[t]}
        <4>1. CASE t = s
          <5>1. ~(t = "tls_ca" /\ s = "tls_roots")
            BY <4>1
          <5>2. B = A \cup {v} /\ y.set[t] = v
            BY <3>3, <3>4, <4>1, <5>1
          <5>3. A \subseteq {v}
            BY <2>4, <3>5, <3>6, <4>1
          <5>4. B = {v}
            BY <5>2, <5>3
          <5> QED
            BY <5>2, <5>4
        <4>2. CASE t # s /\ t = "tls_ca" /\ s = "tls_roots"
          <5>1. B = A \cup {"pem_file"} /\ y.set[t] = "pem_file"
            BY <3>3, <3>4, <4>2
          <5>2. A \subseteq {"pem_file"}
            BY <2>4, <3>5, <3>6, <4>2
          <5>3. B = {"pem_file"}
            BY <5>1, <5>2
          <5> QED
            BY <5>1, <5>3
        <4>3. CASE t # s /\ ~(t = "tls_ca" /\ s = "tls_roots")
          <5>1. B = A /\ y.set[t] = builder.set[t]
            BY <3>3, <3>4, <4>3
          <5> QED
            BY <3>5, <5>1
        <4> QED
          BY <4>1, <4>2, <4>3
      <3> QED
        BY <3>7 DEF B
    <2>6. /\ Proper(base)
          /\ builder.protocol = base.protocol /\ builder.addr = base.addr
          /\ builder.http = base.http /\ builder.user_agent = base.user_agent
      BY <1>1 DEF AskedInv
    <2>7. /\ y.protocol = base.protocol /\ y.addr = base.addr
          /\ y.http = base.http /\ y.user_agent = base.user_agent
      BY <1>4, <1>6, <2>6
    <2> HIDE DEF y
    <2> QED
      BY <1>1, <2>1, <2>2, <2>5, <2>6, <2>7 DEF AskedInv
  <1> QED
    BY <1>5, <1>6

\* The options hold what the setters since the last failure asked for, and
\* nothing of what was asked before it, for every sequence of calls.
THEOREM OptsHoldsWhatWasAsked == Spec => []HoldsWhatWasAsked
  <1>1. Init => AskedInv
    BY DEF Init, AskedInv
  <1>2. IInv /\ IInv' /\ AskedInv /\ [Next]_vars => AskedInv'
    <2> SUFFICES ASSUME IInv, IInv', AskedInv, [Next]_vars PROVE AskedInv'
      OBVIOUS
    <2>1. Proper(builder')
      BY DEF IInv, TypeInv
    <2>2. ASSUME phase # "ready", phase' = "ready", base' = builder', asked' = asked
          PROVE  AskedInv'
      <3>1. asked = <<>> /\ asked \in Seq(Pairs)
        BY <2>2 DEF AskedInv
      <3>2. \A s : Asked(s)' = {}
        BY <2>2, <3>1 DEF Asked, Range
      <3> QED
        BY <2>1, <2>2, <3>1, <3>2 DEF AskedInv
    <2>3. ASSUME NEW p \in Protocols, New(p) PROVE AskedInv'
      BY <2>2, <2>3 DEF New
    <2>4. CASE FromConfReturns
      BY <2>2, <2>4 DEF FromConfReturns
    <2>5. ASSUME NEW c \in Confs, FromConf(c) PROVE AskedInv'
      BY <2>5 DEF FromConf, AskedInv
    <2>6. ASSUME NEW key \in todo, Param(key) PROVE AskedInv'
      BY <2>6 DEF Param, AskedInv
    <2>7. ASSUME NEW c \in Calls, Set(c[1], c[2]) PROVE AskedInv'
      BY <2>7, SetAsked
    <2>8. CASE UNCHANGED <<phase, builder, asked, base>>
      <3>1. \A s : Asked(s)' = Asked(s)
        BY <2>8 DEF Asked
      <3> QED
        BY <2>8, <3>1 DEF AskedInv
    <2> QED
      BY <2>3, <2>4, <2>5, <2>6, <2>7, <2>8 DEF Next, Build, vars
  <1> QED
    BY <1>1, <1>2, AskedMeans, OptsInv, PTL DEF Spec
=============================================================================

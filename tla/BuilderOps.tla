----------------------------- MODULE BuilderOps -----------------------------
(***************************************************************************)
(* `SenderBuilder` (questdb-rs/src/ingress/mod.rs): its settings, the      *)
(* setters, the arms of from_conf, the choice of an authentication scheme  *)
(* and of the TLS roots, as functions from a builder to what the call      *)
(* returns.  Modules Opts and CApi own builders.                           *)
(*                                                                         *)
(* A value is the text that a configuration string gives it.  "ctrl" holds *)
(* a control character, "junk" is not a number, "0", "1023" and "1024" are *)
(* the numbers at the limits, "/missing" cannot be opened.                 *)
(***************************************************************************)
EXTENDS Integers, Sequences

Protocols == {"tcp", "tcps", "http", "https"}

tls_enabled(p) == p \in {"tcps", "https"}
is_tcpx(p)     == p \in {"tcp", "tcps"}
is_httpx(p)    == p \in {"http", "https"}

Credentials == {"username", "password", "token", "token_x", "token_y"}
TlsSettings == {"tls_verify", "tls_ca", "tls_roots"}
HttpSettings == {"retry_timeout", "request_min_throughput", "request_timeout"}
Settings == Credentials \cup TlsSettings \cup HttpSettings
              \cup {"bind_interface", "max_buf_size", "auth_timeout"}

CAs == {"webpki_roots", "os_roots", "webpki_and_os_roots", "pem_file"}

\* ConfigSetting::Defaulted; any other value is ConfigSetting::Specified.
Defaulted == "Defaulted"

-----------------------------------------------------------------------------
\* SenderBuilder::new.  http: whether there is an HttpConfig.
new(p, addr) ==
    [ protocol   |-> p,
      addr       |-> addr,
      set        |-> [s \in Settings |-> Defaulted],
      http       |-> is_httpx(p),
      user_agent |-> "questdb/rust" ]

\* What a call returns: a builder, or an error and no builder (it was consumed).
Builder(b)  == [res |-> "Ok", builder |-> b]
ConfigError == [res |-> "ConfigError"]

\* Mutant: a second value overwrites the first.
set_specified_overwrites(b, s, v) == Builder([b EXCEPT !.set[s] = v])

\* ConfigSetting::set_specified: a value may be repeated, not changed.
set_specified(b, s, v) ==
    IF b.set[s] \in {Defaulted, v}
      THEN Builder([b EXCEPT !.set[s] = v])
      ELSE ConfigError

\* ensure_is_tcpx, ensure_tls_enabled, and the test for an HttpConfig.
ProtocolAllows(b, s) ==
    /\ s = "bind_interface" => is_tcpx(b.protocol)
    /\ s \in TlsSettings    => tls_enabled(b.protocol)
    /\ s \in HttpSettings   => b.http

\* validate_value, the limits of max_buf_size and request_timeout, File::open.
ValueAllowed(s, v) ==
    /\ s \in Credentials \cup {"bind_interface"} => v # "ctrl"
    /\ s = "max_buf_size"    => v \notin {"0", "1023"}
    /\ s = "request_timeout" => v # "0"
    /\ s = "tls_roots"       => v # "/missing"

\* The setters but tls_roots: check, then set.
PlainSetter(b, s, v) ==
    IF ProtocolAllows(b, s) /\ ValueAllowed(s, v) THEN set_specified(b, s, v)
                                                  ELSE ConfigError

\* tls_roots also says where the roots come from.
tls_roots(b, v) ==
    LET r == PlainSetter(b, "tls_ca", "pem_file")
    IN  IF r.res = "Ok" THEN PlainSetter(r.builder, "tls_roots", v) ELSE r

Setter(b, s, v) == IF s = "tls_roots" THEN tls_roots(b, v)
                                      ELSE PlainSetter(b, s, v)

\* user_agent: only HTTP has one.
user_agent(b, v) ==
    IF v = "ctrl" THEN ConfigError
    ELSE Builder(IF b.http THEN [b EXCEPT !.user_agent = v] ELSE b)

-----------------------------------------------------------------------------
(***************************************************************************)
(* from_conf.  A configuration string is a protocol and a function from    *)
(* the keys that it gives to their texts; parse_conf_str is external.      *)
(***************************************************************************)
Refused == {"init_buf_size", "tls_roots_password"}
Numeric == {"max_buf_size", "auth_timeout"} \cup HttpSettings

validate_auto_flush_params(params) ==
    /\ "auto_flush" \in DOMAIN params => params["auto_flush"] = "off"
    /\ {"auto_flush_rows", "auto_flush_bytes"} \cap DOMAIN params = {}

\* parse_conf_value, and the texts of tls_verify and tls_ca.
Parses(key, text) ==
    /\ key \in Numeric     => text # "junk"
    /\ key = "tls_verify"  => text \in {"on", "unsafe_off"}
    /\ key = "tls_ca"      => text \in CAs \ {"pem_file"}

\* One turn of the loop over the parameters; an unknown key is passed over.
Arm(b, key, text) ==
    CASE key \in Refused  -> ConfigError
      [] key \in Settings -> IF Parses(key, text) THEN Setter(b, key, text)
                                                  ELSE ConfigError
      [] OTHER            -> Builder(b)

\* The builder of a configuration string that gives these keys, in order.
Configured(p, given) ==
    [new(p, "host") EXCEPT !.set =
       [s \in Settings |-> IF s \in given THEN "a"
                           ELSE IF s = "tls_ca" /\ "tls_roots" \in given THEN "pem_file"
                           ELSE Defaulted]]

-----------------------------------------------------------------------------
(***************************************************************************)
(* build.                                                                  *)
(***************************************************************************)
Given(b) == {s \in Credentials : b.set[s] # Defaulted}

Auth(scheme) == [res |-> "Ok", scheme |-> scheme]
BadAuth(why) == [res |-> "ConfigError", why |-> why]

\* Mutant: the arm for ECDSA does not ask for the second half of the key.
build_auth_half_key(b) ==
    LET g == Given(b) IN
    CASE g = {} -> Auth("None")
      [] is_tcpx(b.protocol) /\ {"username", "token", "token_x"} \subseteq g
           -> Auth("Ecdsa")
      [] is_httpx(b.protocol) /\ g = {"username", "password"} -> Auth("Basic")
      [] is_httpx(b.protocol) /\ g = {"token"} -> Auth("Token")
      [] OTHER -> BadAuth("incomplete")

(***************************************************************************)
(* build_auth: the arms of the match, tried in order.                      *)
(***************************************************************************)
build_auth(b) ==
    LET g    == Given(b)
        tcp  == is_tcpx(b.protocol)
        arms == <<
          <<g = {}, Auth("None")>>,
          <<tcp /\ g = {"username", "token", "token_x", "token_y"}, Auth("Ecdsa")>>,
          <<tcp /\ g = {"username", "password"}, BadAuth("basic is http")>>,
          <<tcp /\ g = {"token"}, BadAuth("token is http")>>,
          <<tcp /\ "password" \notin g, BadAuth("incomplete ecdsa")>>,
          <<~tcp /\ g = {"username", "password"}, Auth("Basic")>>,
          <<~tcp /\ g = {"username"}, BadAuth("password missing")>>,
          <<~tcp /\ g = {"password"}, BadAuth("username missing")>>,
          <<~tcp /\ g = {"token"}, Auth("Token")>>,
          <<~tcp /\ g = {"username", "token", "token_x", "token_y"}, BadAuth("ecdsa is tcp")>>,
          <<~tcp /\ g \cap {"token_x", "token_y"} = {}, BadAuth("inconsistent http")>>,
          <<TRUE, BadAuth("incomplete")>> >>
        first == CHOOSE i \in DOMAIN arms :
                    arms[i][1] /\ \A j \in 1..(i - 1) : ~arms[j][1]
    IN  arms[first][2]

\* The defaults of SenderBuilder::new that build looks at.
Ca(b)     == IF b.set["tls_ca"] = Defaulted THEN "webpki_roots" ELSE b.set["tls_ca"]

\* Mutant: certificates are not checked unless asked to.
Verify_default_off(b) == b.set["tls_verify"] = "on"

Verify(b) == b.set["tls_verify"] # "unsafe_off"

(***************************************************************************)
(* configure_tls: the roots that a certificate is checked against.  A file *)
(* that was there when tls_roots was called may not be there any more: io  *)
(* says whether the certificates can be read now.                          *)
(***************************************************************************)
configure_tls(b, io) ==
    LET file == b.set["tls_roots"]
        roots(r) == [res |-> "Ok", roots |-> r]
        fail(e)  == [res |-> e]
    IN  IF ~tls_enabled(b.protocol) THEN roots("no TLS")
        ELSE IF ~Verify(b) THEN roots("unverified")
        ELSE IF (Ca(b) = "pem_file") # (file # Defaulted) THEN fail("ConfigError")
        ELSE IF Ca(b) # "webpki_roots" /\ ~io THEN fail("TlsError")
        ELSE roots(IF Ca(b) = "pem_file" THEN file ELSE Ca(b))

\* SenderBuilder::build as one step: what it returns when the network does
\* net.  HTTP does not connect; module TcpConnect has the steps of the rest.
build(b, net) ==
    LET a == build_auth(b)
        t == configure_tls(b, net # "TlsError")
    IN  IF a.res # "Ok" THEN a.res
        ELSE IF is_tcpx(b.protocol) /\ net \in {"CouldNotResolveAddr", "SocketError"}
               THEN net
        ELSE IF t.res # "Ok" THEN t.res
        ELSE IF b.protocol = "tcps" /\ net = "TlsError" THEN net
        ELSE IF is_tcpx(b.protocol) /\ a.scheme = "Ecdsa" /\ net = "AuthError" THEN net
        ELSE "Ok"

(***************************************************************************)
(* The checks of build that HTTP makes a second time, after the setters    *)
(* and build_auth: an interface, and ECDSA.                                *)
(***************************************************************************)
LateError(b) ==
    is_httpx(b.protocol) /\ (b.set["bind_interface"] # Defaulted
                               \/ build_auth(b) = Auth("Ecdsa"))
=============================================================================

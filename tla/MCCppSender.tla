---------------------------- MODULE MCCppSender ----------------------------
(***************************************************************************)
(* A small instance of CppSender: two options objects and all the setters, *)
(* two senders and a buffer, of which two live at a time.                  *)
(***************************************************************************)
EXTENDS CppSender, TLC

MCNameLen == [n \in Tables |-> 5]

MCConfs == {ConfigError, Builder(new("tcps", "conf"))}

\* A text that is refused, a value out of its range, or a good one.
AllArgs ==
    [s \in Settings |->
       CASE s \in Credentials \cup {"bind_interface"} -> {"a", "ctrl", NotUtf8}
         [] s = "tls_verify" -> {"unsafe_off"}
         [] s = "tls_ca"     -> {"os_roots"}
         [] s = "tls_roots"  -> {"/ca", "/missing"}
         [] OTHER            -> {"0", "1024"}]

Symmetric == Permutations(Opts) \cup Permutations(Senders)
=============================================================================

------------------------------- MODULE Names -------------------------------
(***************************************************************************)
(* TableName::new and ColumnName::new (questdb-rs/src/ingress/mod.rs), and *)
(* what becomes of a name that they accept, and of a value: Buffer writes  *)
(* it escaped (module Escaping).  One action per turn of a loop.           *)
(*                                                                         *)
(* A name is a sequence of characters, one of each kind: a letter of one   *)
(* byte and of two, the dot, what is escaped, what only a column's name    *)
(* refuses, what both refuse, and the byte order mark.                     *)
(***************************************************************************)
EXTENDS Escaping

CONSTANTS
    MaxName,    \* bound on the characters of a name
    MaxText     \* bound on the bytes of a value

ASSUME LengthsAssumption == MaxName \in Nat /\ MaxText \in Nat

Chars == {"a", "umlaut", "dot", "space", "minus", "bs", "bom"}

\* UTF-8.
Encoded(c) ==
    CASE c = "umlaut" -> <<"u1", "u2">>
      [] c = "bom"    -> <<"m1", "m2", "m3">>
      [] OTHER        -> <<c>>

VARIABLES
    kind,        \* "table" or "column": a name, "value": none
    name,
    char_index,  \* of enumerate(): it counts characters, from 0
    prev         \* the character before

vars == <<kind, name, char_index, prev, escvars>>

bytes(s) == FlattenSeq([i \in 1..Len(s) |-> Encoded(s[i])])

Strings(chars, n) == UNION {[1..k -> chars] : k \in 0..n}

Init ==
    /\ char_index = 0 /\ prev = "nul"
    /\ \/ /\ kind \in {"table", "column"}
          /\ name \in Strings(Chars, MaxName)
          /\ pc = IF name = <<>> THEN "refused" ELSE "validate"
          /\ quoted = FALSE /\ text = <<>> /\ output = Before
          /\ to_escape = 0 /\ read = 0 /\ index = 0
       \/ /\ kind = "value" /\ name = <<>>
          /\ \E t \in Strings(Bytes, MaxText), q \in BOOLEAN : Called(t, q)

-----------------------------------------------------------------------------
\* Mutant: the dot before is not looked at.
DotRefused_runs(i, c) == i = 0 \/ i = Len(bytes(name)) - 1

\* The dots that the name of a table may not have.  The last byte is found
\* by its index, which is that of a character.
DotRefused(i, c) == i = 0 \/ i = Len(bytes(name)) - 1 \/ c = "dot"

\* The other arms of the two matches.
CharRefused(c) == c \in {"bs", "bom"} \/ (kind = "column" /\ c \in {"dot", "minus"})

\* One turn of the loop.
Turn ==
    /\ pc = "validate" /\ char_index < Len(name)
    /\ LET c == name[char_index + 1]
       IN  IF CharRefused(c) \/ (kind = "table" /\ c = "dot" /\ DotRefused(char_index, prev))
             THEN pc' = "refused" /\ UNCHANGED <<char_index, prev>>
             ELSE char_index' = char_index + 1 /\ prev' = c /\ UNCHANGED pc
    /\ UNCHANGED <<kind, name, quoted, text, output, to_escape, read, index>>

\* The loop is over; write_escaped_unquoted is given the bytes.
Accept ==
    /\ pc = "validate" /\ char_index = Len(name)
    /\ pc' = "count" /\ text' = bytes(name)
    /\ UNCHANGED <<kind, name, char_index, prev, quoted, output, to_escape, read, index>>

Ended == pc \in {"refused", "done", "undefined"} /\ UNCHANGED vars

Next ==
    \/ Turn \/ Accept
    \/ Write /\ UNCHANGED <<kind, name, char_index, prev>>
    \/ Ended

Spec == Init /\ [][Next]_vars

-----------------------------------------------------------------------------
\* The names that the loops accept, said without a loop.  The last dot of a
\* table's name is refused only when every character is of one byte.
Acceptable ==
    /\ name # <<>>
    /\ \A i \in 1..Len(name) : name[i] \notin {"bs", "bom"}
    /\ kind = "column" => \A i \in 1..Len(name) : name[i] \notin {"dot", "minus"}
    /\ kind = "table" =>
         /\ name[1] # "dot"
         /\ \A i \in 2..Len(name) : ~(name[i - 1] = "dot" /\ name[i] = "dot")
         /\ name[Len(name)] = "dot" => \E i \in 1..Len(name) : name[i] = "umlaut"

\* A name is refused if and only if it is none of those, and then at the first
\* character that is wrong: all before it passed.
AcceptsExactly ==
    kind # "value" =>
      /\ pc = "refused" => ~Acceptable
      /\ pc = "done" => Acceptable
      /\ \A i \in 1..char_index :
           /\ name[i] \notin {"bs", "bom"}
           /\ name[i] \in {"dot", "minus"} => kind = "table"
           /\ name[i] = "dot" => i > 1 /\ name[i - 1] # "dot"
=============================================================================

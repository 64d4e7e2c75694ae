------------------------------ MODULE Escaping ------------------------------
(***************************************************************************)
(* write_escaped_impl with must_escape_unquoted and must_escape_quoted     *)
(* (questdb-rs/src/ingress/mod.rs): a text is measured, the output is made *)
(* longer without being written, and then filled byte by byte.  Module     *)
(* Names begins where a text comes from.                                   *)
(***************************************************************************)
EXTENDS Naturals, FiniteSets, SequencesExt

\* The bytes of a value.
Bytes == {"a", "space", "equals", "nl", "bs", "quote"}

Uninit == "uninit"    \* a byte that set_len uncovers

VARIABLES
    quoted,      \* write_escaped_quoted, or unquoted
    text,
    output,
    to_escape,
    read,        \* the bytes of the text that are dealt with
    index,       \* where the next byte goes, from 1
    pc

escvars == <<quoted, text, output, to_escape, read, index, pc>>

\* What is in the buffer already.
Before == <<"a">>

\* write_escaped_impl is called for t.
Called(t, q) ==
    /\ quoted = q /\ text = t
    /\ output = Before
    /\ to_escape = 0 /\ read = 0 /\ index = 0 /\ pc = "count"

-----------------------------------------------------------------------------
\* Mutant: a backslash is not escaped inside of quotes.
must_escape_quotes_only(c) ==
    IF quoted THEN c \in {"nl", "quote"} ELSE c \in {"space", "equals", "nl", "bs"}

\* A comma is dealt with as a space is, a carriage return as a line feed.
must_escape(c) ==
    IF quoted THEN c \in {"nl", "bs", "quote"} ELSE c \in {"space", "equals", "nl", "bs"}

Quote == IF quoted THEN <<"quote">> ELSE <<>>

\* One turn of the first loop.
Count ==
    /\ pc = "count" /\ read < Len(text)
    /\ to_escape' = IF must_escape(text[read + 1]) THEN to_escape + 1 ELSE to_escape
    /\ read' = read + 1
    /\ UNCHANGED <<quoted, text, output, index, pc>>

\* Mutant: the room is short of one byte.
Grow_short ==
    LET additional == (Len(text) - 1) + to_escape
    IN  output \o Quote \o [i \in 1..additional |-> Uninit]

\* reserve and set_len.
Grow ==
    LET additional == Len(text) + to_escape
    IN  output \o Quote \o [i \in 1..additional |-> Uninit]

\* The opening quote, and either the whole text or room for it.
Counted ==
    /\ pc = "count" /\ read = Len(text)
    /\ IF to_escape = 0
         THEN /\ output' = output \o Quote \o text \o Quote
              /\ pc' = "done" /\ UNCHANGED index
         ELSE /\ output' = Grow
              /\ index' = Len(output \o Quote) + 1
              /\ pc' = "fill"
    /\ read' = 0
    /\ UNCHANGED <<quoted, text, to_escape>>

\* get_unchecked_mut: a write past the end is undefined.
Put(bytes) == [i \in 1..Len(output) |->
                 IF i \in index..(index + Len(bytes) - 1) THEN bytes[i - index + 1]
                                                          ELSE output[i]]

\* One turn of the second loop.
Fill ==
    /\ pc = "fill" /\ read < Len(text)
    /\ LET c     == text[read + 1]
           bytes == IF must_escape(c) THEN <<"bs", c>> ELSE <<c>>
       IN  /\ output' = Put(bytes)
           /\ index' = index + Len(bytes)
           /\ pc' = IF index + Len(bytes) - 1 > Len(output) THEN "undefined" ELSE pc
    /\ read' = read + 1
    /\ UNCHANGED <<quoted, text, to_escape>>

\* The closing quote.
Filled ==
    /\ pc = "fill" /\ read = Len(text)
    /\ output' = output \o Quote
    /\ pc' = "done"
    /\ UNCHANGED <<quoted, text, to_escape, read, index>>

Write == Count \/ Counted \/ Fill \/ Filled

-----------------------------------------------------------------------------
\* The writes without bounds checks stay inside of the room that the first
\* loop measured, and leave no byte of it unwritten.
RoomIsExact ==
    /\ pc # "undefined"
    /\ pc = "done" => \A i \in 1..Len(output) : output[i] # Uninit

\* What was written, without the quotes.
Written == SubSeq(output, Len(Before) + Len(Quote) + 1, Len(output) - Len(Quote))

\* A byte at i is escaped if the backslashes before it are odd in number.
Escaped(s, i) ==
    LET run == {k \in 0..(i - 1) : \A j \in (i - k)..(i - 1) : s[j] = "bs"}
    IN  (Cardinality(run) - 1) % 2 = 1

\* A server that drops the backslashes that escape has the name or the value
\* again, byte by byte, and meets no line feed, separator or quote on the way
\* that is not escaped: the row ends where it should.
ReadsBack ==
    pc = "done" =>
      LET kept   == {i \in 1..Len(Written) : Written[i] # "bs" \/ Escaped(Written, i)}
          nth(i) == Cardinality({j \in kept : j <= i})
      IN  /\ Cardinality(kept) = Len(text)
          /\ \A i \in kept : /\ Written[i] = text[nth(i)]
                             /\ Escaped(Written, i) <=> must_escape(Written[i])
=============================================================================

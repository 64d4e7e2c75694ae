------------------------------ MODULE Filters ------------------------------
(***************************************************************************)
(* The filters of the test framework (cpp_test/doctest.h): lists of masks  *)
(* given on the command line, by which tests and subcases are chosen.  A   *)
(* text is a sequence of characters.                                       *)
(***************************************************************************)
EXTENDS Naturals, Sequences, SequencesExt

Small == [A |-> "a", B |-> "b", C |-> "c"]

tolower(c) == IF c \in DOMAIN Small THEN Small[c] ELSE c

\* A character of a mask that stands for one character of a name.
Fits(w, c, caseSensitive) ==
    w = "?" \/ w = c \/ (~caseSensitive /\ tolower(w) = tolower(c))

\* The loops of wildcmp: i and j are str and wild; cp and mp are where to go
\* on after a mismatch, which is for good before the first star (mp = 0).
wildcmp(str, wild, caseSensitive) ==
    LET n == Len(str)
        m == Len(wild)
        go[i \in 1..(n + 1), j \in 1..(m + 1), cp \in 0..(n + 2), mp \in 0..(m + 1)] ==
          IF i > n THEN \A k \in j..m : wild[k] = "*"
          ELSE IF j <= m /\ wild[j] = "*" THEN j = m \/ go[i, j + 1, i + 1, j + 1]
          ELSE IF j <= m /\ Fits(wild[j], str[i], caseSensitive) THEN go[i + 1, j + 1, cp, mp]
          ELSE mp # 0 /\ go[cp, mp, cp + 1, mp]
    IN  go[1, 1, 1, 0]

matchesAny(name, filters, matchEmpty, caseSensitive) ==
    \/ filters = <<>> /\ matchEmpty
    \/ \E k \in DOMAIN filters : wildcmp(name, filters[k], caseSensitive)

-----------------------------------------------------------------------------
\* The words of parseCommaSepArgs: res is what has been split off, s the word
\* that is being read.
flush(a) ==
    IF a.s = <<>> THEN a ELSE [a EXCEPT !.res = Append(@, a.s), !.s = <<>>]

put(a, c) == [a EXCEPT !.s = Append(@, c), !.seenBackslash = FALSE]

split(a, c) ==
    IF a.seenBackslash /\ c \in {",", "\\"} THEN put(a, c)
    ELSE LET b == IF a.seenBackslash THEN put(a, "\\") ELSE a
         IN  CASE c = "\\" -> [b EXCEPT !.seenBackslash = TRUE]
               [] c = ","  -> flush(b)
               [] OTHER    -> put(b, c)

parseCommaSepArgs(text) ==
    LET a == FoldLeft(split, [res |-> <<>>, s |-> <<>>, seenBackslash |-> FALSE], text)
    IN  flush(IF a.seenBackslash THEN put(a, "\\") ELSE a).res

-----------------------------------------------------------------------------
(***************************************************************************)
(* The reference: how a user writes a list of masks, and what a mask means.*)
(***************************************************************************)
\* The words one after the other, commas and backslashes escaped.
CommandLine(words) ==
    LET escaped(w) == FlattenSeq([k \in DOMAIN w |->
                        IF w[k] \in {",", "\\"} THEN <<"\\", w[k]>> ELSE <<w[k]>>])
    IN  FlattenSeq([k \in DOMAIN words |->
          (IF k = 1 THEN <<>> ELSE <<",">>) \o escaped(words[k])])

\* The name falls into pieces, one for each character of the mask: any piece
\* for a star, one character for another.  at[k] is where the k-th begins.
Means(name, mask, caseSensitive) ==
    \E at \in [1..(Len(mask) + 1) -> 1..(Len(name) + 1)] :
      /\ at[1] = 1 /\ at[Len(mask) + 1] = Len(name) + 1
      /\ \A k \in DOMAIN mask :
           IF mask[k] = "*" THEN at[k] <= at[k + 1]
           ELSE /\ at[k + 1] = at[k] + 1
                /\ Fits(mask[k], name[at[k]], caseSensitive)
=============================================================================

---------------------------- MODULE MCMockServer ----------------------------
(***************************************************************************)
(* Rows of two bytes, of exactly a chunk, with an escaped line feed, with  *)
(* an escaped backslash, and with one at the end.                          *)
(***************************************************************************)
EXTENDS MockServer

MCRows == {<<"x", "nl">>, <<"x", "x", "nl">>, <<"x", "bs", "nl", "x", "nl">>,
           <<"x", "bs", "bs", "x", "nl">>, <<"x", "bs", "bs", "nl">>}
=============================================================================

---------------------------- MODULE MCTestRunner ----------------------------
(***************************************************************************)
(* A test with nested subcases, one that is skipped, one that loops over   *)
(* its subcases, and one for each other decoration; command lines with     *)
(* filters for each of what they choose by, a range, and a query.          *)
(***************************************************************************)
EXTENDS TestRunner, TLC

Tree == {<<1>>, <<1, 1>>, <<1, 2>>, <<2>>, <<3>>, <<3, 1>>}

\* Subcases of the same name, names that share letters, a comma.
Name(p) == CASE p = <<1>> -> <<"a", "b">> [] p = <<2>> -> <<"a", ",", "b">>
             [] p = <<3>> -> <<"B">>      [] OTHER     -> <<"a">>

Case(name, suite, shape, turns, decor) ==
    [file |-> <<"f">>, name |-> name, suite |-> suite, suite_name |-> <<suite>>,
     shape |-> shape, names |-> [p \in shape |-> Name(p)],
     turns |-> turns, decor |-> decor, skip |-> FALSE]

MCTests == <<Case(<<"a">>, "s", Tree, 1, "none"),
             [Case(<<"b">>, "s", {}, 1, "none") EXCEPT !.skip = TRUE],
             Case(<<"a", "c">>, "t", {<<1>>, <<1, 1>>, <<2>>}, 2, "expected_failures"),
             Case(<<"c">>, "t", {}, 1, "should_fail"),
             Case(<<"a", "a">>, "s", {<<1>>}, 1, "may_fail")>>

Line(asked) ==
    [abort_after |-> 0, query |-> FALSE, no_skip |-> FALSE, case_sensitive |-> FALSE,
     first |-> 0, last |-> 9, subcase_filter_levels |-> 9,
     asked |-> [f \in 0..7 |-> IF f \in DOMAIN asked THEN asked[f] ELSE <<>>]]

Plain == Line(<<>>)

MCOptions ==
    { Plain,
      [Plain EXCEPT !.abort_after = 2, !.no_skip = TRUE],
      [Plain EXCEPT !.query = TRUE],
      [Line(3 :> <<<<"T">>>>) EXCEPT !.first = 2, !.last = 2],
      Line(4 :> <<<<"a", "*">>>> @@ 6 :> <<<<"a", "?">>, <<"*", ",", "b">>>>),
      Line(5 :> <<<<"c">>, <<"a">>>> @@ 7 :> <<<<"A">>>>),
      [Line(7 :> <<<<"b">>, <<"a", "*">>>>) EXCEPT !.case_sensitive = TRUE],
      [Line(1 :> <<<<"*", "g">>>> @@ 7 :> <<<<"*">>>>) EXCEPT !.subcase_filter_levels = 0] }
=============================================================================

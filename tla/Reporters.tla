----------------------------- MODULE Reporters -----------------------------
(***************************************************************************)
(* Two reporters of the test framework (cpp_test/doctest.h) as functions   *)
(* of the events of a run: XmlReporter, which writes elements as it goes,  *)
(* and JUnitReporter, which collects and writes at the end.  What the      *)
(* elements say is left out, how they nest is kept.                        *)
(***************************************************************************)
EXTENDS Naturals, Sequences, SequencesExt

None == "none"

-----------------------------------------------------------------------------
(***************************************************************************)
(* XmlWriter: the elements that are open.  endElement closes the last one, *)
(* whichever it is; name is the one that its caller means, and broken says *)
(* that it was another, or none.                                           *)
(***************************************************************************)
XmlWriter == [tags |-> <<>>, suite |-> None, broken |-> FALSE]

startElement(x, name) == [x EXCEPT !.tags = Append(@, name)]

endElement(x, name) ==
    IF x.tags = <<>> THEN [x EXCEPT !.broken = TRUE]
    ELSE [x EXCEPT !.tags = Front(@), !.broken = @ \/ Last(x.tags) # name]

\* Mutant: the element of the last suite is left open.
suite_element_unclosed(x, suite) ==
    IF x.suite = suite THEN x ELSE startElement(x, "TestSuite")

\* The element of a suite is closed when a test of another one comes.
suite_element(x, suite) ==
    LET closed == IF x.suite = None THEN x ELSE endElement(x, "TestSuite")
    IN  IF x.suite = suite THEN x ELSE startElement(closed, "TestSuite")

test_case_start_impl(x, suite) ==
    startElement([suite_element(x, suite) EXCEPT !.suite = suite], "TestCase")

xml_test_run_start(x)         == startElement(x, "doctest")
xml_test_case_start(x, suite) == test_case_start_impl(x, suite)
xml_test_case_end(x)          == endElement(x, "TestCase")
xml_subcase_start(x)          == startElement(x, "SubCase")
xml_subcase_end(x)            == endElement(x, "SubCase")
xml_test_case_skipped(x, suite) == endElement(test_case_start_impl(x, suite), "TestCase")
xml_report_query(x)           == endElement(xml_test_run_start(x), "doctest")

\* The suite's element is there if a test was started or skipped.
xml_test_run_end(x) ==
    endElement(IF x.suite = None THEN x ELSE endElement(x, "TestSuite"), "doctest")

-----------------------------------------------------------------------------
(***************************************************************************)
(* JUnitReporter: its test cases are the passes of a test, and get a name  *)
(* from the subcases that were entered.                                    *)
(***************************************************************************)
JUnit == [cases |-> <<>>, names |-> <<>>]

add(j, test) ==
    [j EXCEPT !.cases = Append(@, [test |-> test, name |-> <<>>, failures |-> 0, errors |-> 0])]

appendSubcaseNames(j) ==
    [j EXCEPT !.cases[Len(j.cases)].name = j.names, !.names = <<>>]

junit_test_case_start(j, test)   == add(j, test)

junit_test_case_reenter(j, test) == add(appendSubcaseNames(j), test)
junit_test_case_end(j)           == appendSubcaseNames(j)
junit_subcase_start(j, name)     == [j EXCEPT !.names = Append(@, name)]
addFailure(j)                    == [j EXCEPT !.cases[Len(j.cases)].failures = @ + 1]

addError(j)                      == [j EXCEPT !.cases[Len(j.cases)].errors = @ + 1]
=============================================================================

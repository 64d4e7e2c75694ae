----------------------------- MODULE TestRunner -----------------------------
(***************************************************************************)
(* The test framework of the C++ tests (cpp_test/doctest.h): Context::run, *)
(* the subcases by which a test is run again and again, assertions,        *)
(* exceptions, signals, and the events that the reporters get.             *)
(*                                                                         *)
(* A test is a tree of subcases: shape is a set of paths, closed under     *)
(* prefixes, and <<>> is the test's function.  The path of a subcase is    *)
(* its signature, and names gives its name.  The function makes an         *)
(* assertion before its subcases, one in each that it enters, and one      *)
(* after the last; any of them may fail, throw or be hit by a signal.      *)
(***************************************************************************)
EXTENDS Reporters, Filters, Integers, FiniteSets

CONSTANTS
    Tests,          \* the registered tests, sorted
    Options,        \* what is given on the command line
    MaxFaults       \* bound on what goes wrong in a run

ASSUME TestsAssumption ==
    \A t \in 1..Len(Tests) :
      /\ Tests[t].suite # None
      /\ Tests[t].decor \in {"none", "should_fail", "may_fail", "expected_failures"}
      /\ \A p \in Tests[t].shape : Len(p) > 1 => Front(p) \in Tests[t].shape

ASSUME OptionsAssumption ==
    /\ Len(Tests) \in Nat /\ MaxFaults \in Nat
    /\ \A o \in Options : o.abort_after \in Int

VARIABLES
    opt,            \* ContextOptions; asked are the masks that the user means
    cs,             \* ContextState
    pc, test,       \* where run is, and the test that it is at
    path, child,    \* where the test's function is: the subcase, the next child
    turn,           \* of the loop around the body of the function
    thrown,         \* the exception that unwinds the stack: None if none does
    xml, junit,
    faults,
    entered,        \* the subcases entered: <<test, pass, path>>
    failures        \* what went wrong in each test: asserts and exceptions

where == <<pc, test, path, child, turn, thrown>>
vars == <<opt, cs, where, xml, junit, faults, entered, failures>>

-----------------------------------------------------------------------------
\* resetRunData, and the fields for subcases.
FreshState ==
    [ passing |-> 0, testsFailed |-> 0, asserts |-> 0, assertsFailed |-> 0,
      current |-> 0, currentFailed |-> 0, flags |-> {}, pass |-> 0,
      reachedLeaf |-> FALSE, subcaseStack |-> <<>>, nextSubcaseStack |-> <<>>,
      fullyTraversed |-> {}, depth |-> 0, shouldLog |-> TRUE ]

Init ==
    /\ opt \in Options
    /\ cs = FreshState
    /\ pc = "start" /\ test = 0 /\ path = <<>> /\ child = 1 /\ turn = 1 /\ thrown = None
    /\ xml = XmlWriter /\ junit = JUnit
    /\ faults = 0 /\ entered = {}
    /\ failures = [t \in 1..Len(Tests) |-> [ran |-> FALSE, asserts |-> 0, thrown |-> FALSE]]

T == Tests[test]

\* run() up to the first test.
RunStart ==
    /\ pc = "start"
    /\ pc' = "pick" /\ test' = 1
    /\ xml' = IF opt.query THEN xml ELSE xml_test_run_start(xml)
    /\ UNCHANGED <<opt, cs, path, child, turn, thrown, junit, faults, entered, failures>>

\* Two lists of masks for each of file, suite, test and subcase: those that
\* are wanted, if any are given, and those that are not.
filters(f) == parseCommaSepArgs(CommandLine(opt.asked[f]))

Chosen(name, f) ==
    /\ matchesAny(name, filters(f), TRUE, opt.case_sensitive)
    /\ ~matchesAny(name, filters(f + 1), FALSE, opt.case_sensitive)

PassesFilters(t) ==
    /\ t.skip => opt.no_skip
    /\ Chosen(t.file, 0) /\ Chosen(t.suite_name, 2) /\ Chosen(t.name, 4)

\* numTestCasesPassingFilters with this test, and the range of it that is run.
Passing == IF PassesFilters(T) THEN cs.passing + 1 ELSE cs.passing

skip_me ==
    \/ ~PassesFilters(T)
    \/ opt.last < Passing /\ opt.first <= opt.last
    \/ opt.first > Passing

\* A test may be skipped, and a query only counts.
Skip ==
    /\ pc = "pick" /\ test <= Len(Tests)
    /\ skip_me \/ opt.query
    /\ test' = test + 1
    /\ cs' = [cs EXCEPT !.passing = Passing]
    /\ xml' = IF opt.query THEN xml ELSE xml_test_case_skipped(xml, T.suite)
    /\ UNCHANGED <<opt, pc, path, child, turn, thrown, junit, faults, entered, failures>>

StartTest ==
    /\ pc = "pick" /\ test <= Len(Tests) /\ ~skip_me /\ ~opt.query
    /\ cs' = [cs EXCEPT !.passing = Passing, !.flags = {}, !.current = 0,
                        !.currentFailed = 0, !.fullyTraversed = {}, !.pass = 0]
    /\ xml' = xml_test_case_start(xml, T.suite)
    /\ junit' = junit_test_case_start(junit, test)
    /\ failures' = [failures EXCEPT ![test].ran = TRUE]
    /\ pc' = "pass"
    /\ UNCHANGED <<opt, test, path, child, turn, thrown, faults, entered>>

\* The head of the do loop.
StartPass ==
    /\ pc = "pass"
    /\ cs' = [cs EXCEPT !.reachedLeaf = FALSE, !.subcaseStack = <<>>, !.depth = 0,
                        !.shouldLog = TRUE, !.pass = @ + 1]
    /\ pc' = "assert" /\ path' = <<>> /\ child' = 1 /\ turn' = 1 /\ thrown' = None
    /\ UNCHANGED <<opt, test, xml, junit, faults, entered, failures>>

-----------------------------------------------------------------------------
(***************************************************************************)
(* Subcases.                                                               *)
(***************************************************************************)
checkFilters(sig) ==
    /\ Len(cs.subcaseStack) < opt.subcase_filter_levels
    /\ ~Chosen(T.names[sig], 6)

\* By the hash of the subcases above it and of its own.
Fresh(sig) == Append(SubSeq(cs.subcaseStack, 1, cs.depth), sig) \notin cs.fullyTraversed

\* Subcase::Subcase: whether it is entered, and the state after.
GoesDown(sig) ==
    /\ ~cs.reachedLeaf
    /\ \/ Len(cs.nextSubcaseStack) <= Len(cs.subcaseStack)
       \/ cs.nextSubcaseStack[Len(cs.subcaseStack) + 1] = sig
    /\ ~checkFilters(sig)

Reentered(sig) == cs.reachedLeaf /\ cs.subcaseStack[cs.depth + 1] = sig

\* Mutant: the first subcase that is found does not stay the next one.
RunsNext_last(sig) ==
    cs.reachedLeaf /\ ~Reentered(sig) /\ Fresh(sig) /\ ~checkFilters(sig)

RunsNext(sig) ==
    /\ cs.reachedLeaf /\ ~Reentered(sig)
    /\ Len(cs.nextSubcaseStack) <= cs.depth /\ Fresh(sig)
    /\ ~checkFilters(sig)

\* A subcase that is entered again may have one inside that the filters left
\* out: its constructor then reads past the end of subcaseStack.
PastEnd == cs.reachedLeaf /\ cs.depth >= Len(cs.subcaseStack)

ReadPastEnd ==
    /\ pc = "body" /\ thrown = None /\ Append(path, child) \in T.shape
    /\ PastEnd
    /\ pc' = "undefined"
    /\ UNCHANGED <<opt, cs, test, path, child, turn, thrown, xml, junit, faults, entered, failures>>

\* The function comes to its next subcase.
Subcase ==
    LET sig == Append(path, child) IN
    /\ pc = "body" /\ thrown = None /\ sig \in T.shape
    /\ ~PastEnd
    /\ IF GoesDown(sig) \/ Reentered(sig)
         THEN /\ cs' = [cs EXCEPT !.depth = @ + 1,
                          !.subcaseStack = IF GoesDown(sig) THEN Append(@, sig) ELSE @]
              /\ path' = sig /\ child' = 1 /\ pc' = "assert"
              /\ xml' = xml_subcase_start(xml)
              /\ junit' = junit_subcase_start(junit, sig)
              /\ entered' = entered \cup {<<test, cs.pass, sig>>}
         ELSE /\ cs' = IF RunsNext(sig)
                         THEN [cs EXCEPT !.nextSubcaseStack =
                                 Append(SubSeq(cs.subcaseStack, 1, cs.depth), sig)]
                         ELSE cs
              /\ child' = child + 1
              /\ UNCHANGED <<pc, path, xml, junit, entered>>
    /\ UNCHANGED <<opt, test, turn, thrown, faults, failures>>

\* Subcase::~Subcase.
Leave(s) ==
    [s EXCEPT !.depth = @ - 1,
       !.fullyTraversed =
          IF s.reachedLeaf /\ s.nextSubcaseStack # <<>> THEN @ ELSE @ \cup {s.subcaseStack},
       !.nextSubcaseStack = IF s.reachedLeaf THEN @ ELSE <<>>,
       !.reachedLeaf = TRUE]

\* The subcase ends, or the exception leaves it and is reported by the first.
EndSubcase ==
    /\ pc = "body" /\ path # <<>>
    /\ thrown # None \/ Append(path, child) \notin T.shape
    /\ LET log == thrown # None /\ cs.shouldLog
       IN  /\ cs' = [Leave(cs) EXCEPT !.shouldLog = @ /\ ~log]
           /\ junit' = IF log THEN addError(junit) ELSE junit
    /\ xml' = xml_subcase_end(xml)
    /\ path' = Front(path) /\ child' = Last(path) + 1
    /\ UNCHANGED <<opt, pc, test, turn, thrown, faults, entered, failures>>

\* The body of the function's loop is over, and begins again.
NextTurn ==
    /\ pc = "body" /\ path = <<>> /\ thrown = None
    /\ <<child>> \notin T.shape /\ turn < T.turns
    /\ child' = 1 /\ turn' = turn + 1
    /\ UNCHANGED <<opt, cs, pc, test, path, thrown, xml, junit, faults, entered, failures>>

\* After the last subcase: the last assertion.
LastAssert ==
    /\ pc = "body" /\ path = <<>> /\ thrown = None
    /\ <<child>> \notin T.shape /\ turn = T.turns
    /\ pc' = "last"
    /\ UNCHANGED <<opt, cs, test, path, child, turn, thrown, xml, junit, faults, entered, failures>>

-----------------------------------------------------------------------------
(***************************************************************************)
(* Assertions.                                                             *)
(***************************************************************************)
\* Where the function goes on after an assertion.
After == IF pc = "last" THEN "passed" ELSE "body"

Asserts == pc \in {"assert", "last"}

\* abort_after, with what failed before this assertion and with it.
Enough(s) == opt.abort_after > 0 /\ s.assertsFailed + s.currentFailed >= opt.abort_after

addAssert(s)       == [s EXCEPT !.current = @ + 1]
addFailedAssert(s) == [s EXCEPT !.currentFailed = @ + 1]

\* ResultBuilder::log and react: a REQUIRE throws, and so does a CHECK when
\* enough have failed.
Passes ==
    /\ Asserts
    /\ cs' = addAssert(cs) /\ pc' = After
    /\ UNCHANGED <<opt, test, path, child, turn, thrown, xml, junit, faults, entered, failures>>

Fails ==
    /\ Asserts /\ faults < MaxFaults
    /\ junit' = addFailure(junit)
    /\ \E require \in BOOLEAN :
         LET s == addFailedAssert(addAssert(cs))
         IN  IF require \/ Enough(s)
               THEN thrown' = "TestFailureException" /\ cs' = [s EXCEPT !.shouldLog = FALSE]
               ELSE thrown' = None /\ cs' = s
    /\ pc' = After
    /\ faults' = faults + 1
    /\ failures' = [failures EXCEPT ![test].asserts = @ + 1]
    /\ UNCHANGED <<opt, test, path, child, turn, xml, entered>>

\* The code under test throws.
Throws ==
    /\ Asserts /\ faults < MaxFaults
    /\ thrown' = "Exception" /\ pc' = After
    /\ faults' = faults + 1
    /\ failures' = [failures EXCEPT ![test].thrown = TRUE]
    /\ UNCHANGED <<opt, cs, test, path, child, turn, xml, junit, entered>>

-----------------------------------------------------------------------------
(***************************************************************************)
(* The end of a pass, of a test, of the run.                               *)
(***************************************************************************)
\* Out of the function: the handlers, abort_after, and another pass if a
\* subcase is next.
EndPass ==
    /\ pc = "passed" \/ (pc = "body" /\ path = <<>> /\ thrown # None)
    /\ LET flags == (IF thrown = "TestFailureException" THEN {"AssertFailure"}
                     ELSE IF thrown = "Exception" THEN {"Exception"} ELSE {})
                      \cup (IF Enough(cs) THEN {"TooManyFailedAsserts"} ELSE {})
           again == ~Enough(cs) /\ cs.nextSubcaseStack # <<>>
           j     == IF thrown = "Exception" THEN addError(junit) ELSE junit
       IN  /\ cs' = [cs EXCEPT !.flags = @ \cup flags]
           /\ pc' = IF again THEN "pass" ELSE "finalize"
           /\ junit' = IF again THEN junit_test_case_reenter(j, test) ELSE j
    /\ UNCHANGED <<opt, test, path, child, turn, thrown, xml, faults, entered, failures>>

\* finalizeTestCaseData: decor is what the test says of its failures.
FlagsOf(s, decor) ==
    LET f == s.flags \cup (IF s.currentFailed > 0 THEN {"AssertFailure"} ELSE {})
    IN  f \cup
        CASE decor = "should_fail" -> {IF f # {} THEN "ShouldHaveFailedAndDid"
                                                 ELSE "ShouldHaveFailedButDidnt"}
          [] decor = "may_fail" /\ f # {} -> {"CouldHaveFailedAndDid"}
          [] decor = "expected_failures" -> {IF s.currentFailed = 1 THEN "FailedExactlyNumTimes"
                                             ELSE "DidntFailExactlyNumTimes"}
          [] OTHER -> {}

OkToFail == {"ShouldHaveFailedAndDid", "CouldHaveFailedAndDid", "FailedExactlyNumTimes"}

\* Mutant: only assertions make a test fail.
finalizeTestCaseData_asserts(s, decor) ==
    [s EXCEPT !.asserts = @ + s.current, !.assertsFailed = @ + s.currentFailed,
              !.testsFailed = IF s.currentFailed > 0 THEN @ + 1 ELSE @]

finalizeTestCaseData(s, decor) ==
    LET f == FlagsOf(s, decor)
    IN  [s EXCEPT !.flags = f,
                  !.asserts = @ + s.current, !.assertsFailed = @ + s.currentFailed,
                  !.testsFailed = IF f # {} /\ f \cap OkToFail = {} THEN @ + 1 ELSE @]

EndTest ==
    /\ pc = "finalize"
    /\ cs' = finalizeTestCaseData(cs, T.decor)
    /\ xml' = xml_test_case_end(xml)
    /\ junit' = junit_test_case_end(junit)
    /\ test' = test + 1
    /\ pc' = IF opt.abort_after > 0 /\ cs'.assertsFailed >= opt.abort_after
               THEN "end" ELSE "pick"
    /\ UNCHANGED <<opt, path, child, turn, thrown, faults, entered, failures>>

\* test_run_end or report_query, and cleanup_and_return.
RunEnd ==
    /\ pc = "end" \/ (pc = "pick" /\ test > Len(Tests))
    /\ xml' = IF opt.query THEN xml_report_query(xml) ELSE xml_test_run_end(xml)
    /\ pc' = "over"
    /\ UNCHANGED <<opt, cs, test, path, child, turn, thrown, junit, faults, entered, failures>>

\* How many elements reportFatal closes: as many as subcases are on the
\* stack, which keeps those that have ended.
EndsAll(x) ==
    LET ended[n \in 0..Len(cs.subcaseStack)] ==
          IF n = 0 THEN x ELSE xml_subcase_end(ended[n - 1])
    IN  ended[Len(cs.subcaseStack)]

\* A signal in the test's function: handleSignal and reportFatal, and the
\* process dies of it, "killed late" if a subcase of the pass had ended.
Crash ==
    /\ Asserts /\ faults < MaxFaults
    /\ cs' = finalizeTestCaseData([cs EXCEPT !.flags = @ \cup {"Crash"}, !.subcaseStack = <<>>],
                                  T.decor)
    /\ xml' = xml_test_run_end(xml_test_case_end(EndsAll(xml)))
    /\ junit' = junit_test_case_end(addError(junit))
    /\ pc' = IF Len(cs.subcaseStack) > cs.depth THEN "killed late" ELSE "killed"
    /\ faults' = faults + 1
    /\ UNCHANGED <<opt, test, path, child, turn, thrown, entered, failures>>

Over == pc \in {"over", "killed", "killed late", "undefined"} /\ UNCHANGED vars

Run ==
    \/ RunStart \/ Skip \/ StartTest \/ StartPass
    \/ Subcase \/ ReadPastEnd \/ EndSubcase \/ NextTurn \/ LastAssert
    \/ Passes \/ Fails \/ Throws \/ Crash
    \/ EndPass \/ EndTest \/ RunEnd

Next == Run \/ Over

Spec == Init /\ [][Next]_vars

exit == IF cs.testsFailed > 0 THEN 1 ELSE 0

-----------------------------------------------------------------------------
\* What the user asks for, by what the masks mean.
Asked(name, f) == \E k \in DOMAIN opt.asked[f] : Means(name, opt.asked[f][k], opt.case_sensitive)
Wanted(name, f) == (opt.asked[f] = <<>> \/ Asked(name, f)) /\ ~Asked(name, f + 1)

Selected(t) ==
    /\ Tests[t].skip => opt.no_skip
    /\ Wanted(Tests[t].file, 0) /\ Wanted(Tests[t].suite_name, 2) /\ Wanted(Tests[t].name, 4)

\* A subcase that is not wanted goes with what is below it.
Visible(t) ==
    {p \in Tests[t].shape :
       \A n \in 1..Len(p) : n <= opt.subcase_filter_levels => Wanted(Tests[t].names[SubSeq(p, 1, n)], 6)}
Leaves(t)  == {p \in Visible(t) : \A q \in Visible(t) : Len(q) = Len(p) + 1 => Front(q) # p}

PassesOf(t, p) == {k \in 1..cs.pass : <<t, k, p>> \in entered}

\* The function comes to a subcase again, and to those in it.
Loops(t) == Tests[t].turns > 1 /\ \E p \in Tests[t].shape : Len(p) > 1

\* Only tests that the filters select are run, those from the first to the
\* last of them, and by the passes over a test each of its leaves is run,
\* although the runner learns of a subcase only when the function comes to
\* it: in one pass and not in two, save in a function that loops over nested
\* subcases, whose parents are never marked as done.  Filters take a subcase
\* away with what is below it.  The constructor of a subcase reads past the
\* end of the stack only in such a function, with one left out by a filter.
EveryLeafOnce ==
    /\ pc = "finalize" =>
         /\ Selected(test)
         /\ Cardinality({t \in 1..test : Selected(t)}) \in opt.first..opt.last
         /\ \A p \in Leaves(test) \ {<<>>} :
              LET n == Cardinality(PassesOf(test, p))
              IN  /\ n <= 1 \/ Loops(test)
                  /\ thrown = None /\ failures[test].asserts = 0 /\ ~failures[test].thrown
                       => n > 0
    /\ pc = "undefined" => Loops(test) /\ Visible(test) # T.shape

Sum(s) == LET upTo[n \in 0..Len(s)] == IF n = 0 THEN 0 ELSE upTo[n - 1] + s[n]
          IN  upTo[Len(s)]

\* What is filed under the cases of a test.
Failures(j, t) == [n \in 1..Len(j.cases) |->
                     IF j.cases[n].test = t THEN j.cases[n].failures ELSE 0]
Errors(j, t)   == [n \in 1..Len(j.cases) |->
                     IF j.cases[n].test = t THEN j.cases[n].errors ELSE 0]

\* The elements that the XML reporter writes are nested: each end closes
\* what its event began, and nothing is open after the run, whether a test
\* passes, throws out of subcases or dies of a signal before any subcase of
\* the pass has ended.  After a later signal nothing is open either, but
\* reportFatal has then closed more subcases than were open, and the report
\* does not nest: always then, and only then.  The reporter for JUnit files
\* every failed assertion of a test once, and every exception, also one that
\* unwinds subcases and is reported twice, under a case of that test.
ReportsHold ==
    /\ xml.broken <=> pc = "killed late"
    /\ pc \in {"over", "killed", "killed late"} => xml.tags = <<>>
    /\ pc = "over" =>
         \A t \in 1..Len(Tests) :
           /\ Sum(Failures(junit, t)) = failures[t].asserts
           /\ failures[t].thrown <=> Sum(Errors(junit, t)) > 0

Ran(t) == failures[t].ran
Wrong(t) == failures[t].asserts > 0 \/ failures[t].thrown

\* What a test says of itself.
AsDeclared(t) ==
    CASE Tests[t].decor = "none"        -> ~Wrong(t)
      [] Tests[t].decor = "should_fail" -> Wrong(t)
      [] Tests[t].decor = "may_fail"    -> TRUE
      [] OTHER                          -> failures[t].asserts = 1

\* The exit code is 0 if and only if every test that was run did what it
\* says of itself, however its failures are spread over passes.
ExitTells ==
    pc = "over" => (exit = 0 <=> \A t \in 1..Len(Tests) : Ran(t) => AsDeclared(t))
=============================================================================

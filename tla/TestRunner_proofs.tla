------------------------- MODULE TestRunner_proofs -------------------------
(***************************************************************************)
(* Proofs about the test framework.  ExitInv relates the counters and the  *)
(* flags of ContextState to what went wrong in each test; with it the exit *)
(* code of a run tells of every test (RunnerExitTells).  XmlInv says which *)
(* elements are open at each place of the run, JUnitInv what is filed      *)
(* under the cases of each test; with them the reports hold                *)
(* (RunnerReportsHold).                                                    *)
(***************************************************************************)
EXTENDS TestRunner, WellFoundedInduction, TLAPS

(***************************************************************************)
(* Induction, with a set of numbers for the property.                      *)
(***************************************************************************)
\* A set of natural numbers has a least one.
LEMMA LeastNumber ==
    ASSUME NEW U \in SUBSET Nat, U # {}
    PROVE  \E x \in U : \A y \in U : x <= y
  <1> DEFINE R == OpToRel(<, Nat)
  <1>1. IsWellFoundedOn(R, Nat)
    BY NatLessThanWellFounded
  <1>2. \A x, y \in Nat : y < x => <<y, x>> \in R
    BY DEF OpToRel
  <1> HIDE DEF R
  <1>3. PICK x \in U : \A y \in U : ~(<<y, x>> \in R)
    BY <1>1, WFMin
  <1>4. \A y \in U : ~(y < x)
    BY <1>2, <1>3
  <1>5. \A y \in U : x <= y
    BY <1>4
  <1> QED
    BY <1>5

\* A set with 0 and the successor of each of its numbers up to n.
LEMMA UpTo ==
    ASSUME NEW n \in Nat, NEW S, 0 \in S, \A k \in 0..(n - 1) : k \in S => k + 1 \in S
    PROVE  \A k \in 0..n : k \in S
  <1> DEFINE U == {k \in 0..n : k \notin S}
  <1> SUFFICES ASSUME U # {} PROVE FALSE
    OBVIOUS
  <1>1. U \in SUBSET Nat
    OBVIOUS
  <1>2. PICK x \in U : \A y \in U : x <= y
    BY <1>1, LeastNumber
  <1>3. x \in 0..n /\ x \notin S /\ x # 0
    OBVIOUS
  <1>4. x - 1 \in 0..(n - 1) /\ x - 1 \notin U
    BY <1>2, <1>3
  <1>5. x - 1 \in S
    BY <1>3, <1>4
  <1>6. (x - 1) + 1 \in S
    BY <1>4, <1>5
  <1> QED
    BY <1>3, <1>6

-----------------------------------------------------------------------------
(***************************************************************************)
(* Sums.                                                                   *)
(***************************************************************************)
\* f has the sums of the first parts of s.
Sums(f, s, n) == f = [k \in 0..n |-> IF k = 0 THEN 0 ELSE f[k - 1] + s[k]]

\* There is such a function.
LEMMA SumsExists ==
    ASSUME NEW s, NEW n \in Nat
    PROVE  \E f : Sums(f, s, n)
  <1> DEFINE S == {k \in Nat : \E f : Sums(f, s, k)}
             Step(f, i) == IF i = 0 THEN 0 ELSE f[i - 1] + s[i]
  <1>1. 0 \in S
    <2> DEFINE f == [i \in 0..0 |-> 0]
    <2>1. Sums(f, s, 0)
      BY DEF Sums
    <2> QED
      BY <2>1
  <1>2. ASSUME NEW k \in 0..(n - 1), k \in S PROVE k + 1 \in S
    <2>1. PICK f : Sums(f, s, k)
      BY <1>2
    <2> DEFINE g == [i \in 0..(k + 1) |-> IF i <= k THEN f[i] ELSE Step(f, i)]
    <2>2. \A i \in 0..k : f[i] = Step(f, i)
      BY <2>1 DEF Sums
    <2> HIDE DEF Step
    <2>3. \A i \in 0..k : g[i] = f[i]
      OBVIOUS
    <2>4. g[k + 1] = Step(f, k + 1)
      OBVIOUS
    <2>5. g = [i \in 0..(k + 1) |-> g[i]]
      OBVIOUS
    <2> HIDE DEF g
    <2>6. \A i \in 0..(k + 1) : g[i] = Step(g, i)
      <3> SUFFICES ASSUME NEW i \in 0..(k + 1) PROVE g[i] = Step(g, i)
        OBVIOUS
      <3>1. i # 0 => i - 1 \in 0..k
        OBVIOUS
      <3>2. Step(g, i) = Step(f, i)
        BY <2>3, <3>1 DEF Step
      <3>3. CASE i <= k
        BY <2>2, <2>3, <3>2, <3>3
      <3>4. CASE i = k + 1
        BY <2>4, <3>2, <3>4
      <3> QED
        BY <3>3, <3>4
    <2>7. Sums(g, s, k + 1)
      BY <2>5, <2>6 DEF Sums, Step
    <2> QED
      BY <2>7
  <1> HIDE DEF S
  <1>3. n \in S
    BY <1>1, <1>2, UpTo
  <1> QED
    BY <1>3 DEF S

LEMMA SumIs ==
    ASSUME NEW s, NEW n \in Nat, Len(s) = n
    PROVE  \E f : Sums(f, s, n) /\ Sum(s) = f[n]
  <1> DEFINE f == CHOOSE f : Sums(f, s, n)
  <1>1. Sums(f, s, n)
    BY SumsExists
  <1>2. Sum(s) = f[n]
    BY DEF Sum, Sums
  <1> QED
    BY <1>1, <1>2

\* The sums of numbers are numbers, and are those of what two sequences share.
LEMMA SumsAgree ==
    ASSUME NEW s \in Seq(Nat), NEW t \in Seq(Nat), NEW n \in Nat, n <= Len(s), n <= Len(t),
           \A i \in 1..n : s[i] = t[i],
           NEW f, NEW g, Sums(f, s, Len(s)), Sums(g, t, Len(t))
    PROVE  \A i \in 0..n : f[i] = g[i] /\ f[i] \in Nat
  <1> DEFINE S == {k \in Nat : f[k] = g[k] /\ f[k] \in Nat}
             m == Len(s)
             l == Len(t)
  <1>0. m \in Nat /\ l \in Nat /\ n <= m /\ n <= l
    OBVIOUS
  <1>1. 0 \in S
    <2>1. 0 \in 0..m /\ 0 \in 0..l
      BY <1>0
    <2> HIDE DEF m, l
    <2>2. f[0] = 0
      BY <2>1 DEF Sums, m
    <2>3. g[0] = 0
      BY <2>1 DEF Sums, l
    <2> QED
      BY <2>2, <2>3
  <1>2. ASSUME NEW k \in 0..(n - 1), k \in S PROVE k + 1 \in S
    <2>1. k + 1 \in 1..n /\ k + 1 \in 0..m /\ k + 1 \in 0..l /\ k + 1 # 0 /\ k + 1 \in 1..m
          /\ (k + 1) - 1 = k /\ k + 1 \in Nat
      BY <1>0
    <2>2. f[k + 1] = IF k + 1 = 0 THEN 0 ELSE f[(k + 1) - 1] + s[k + 1]
      BY <2>1 DEF Sums
    <2>3. g[k + 1] = IF k + 1 = 0 THEN 0 ELSE g[(k + 1) - 1] + t[k + 1]
      BY <2>1 DEF Sums
    <2>4. s[k + 1] = t[k + 1] /\ s[k + 1] \in Nat
      BY <2>1
    <2>5. f[k] = g[k] /\ f[k] \in Nat
      BY <1>2
    <2>6. f[k + 1] = f[k] + s[k + 1] /\ g[k + 1] = g[k] + t[k + 1]
      BY <2>1, <2>2, <2>3
    <2>7. f[k + 1] = g[k + 1] /\ f[k + 1] \in Nat
      BY <2>4, <2>5, <2>6
    <2> QED
      BY <2>1, <2>7
  <1> HIDE DEF S
  <1>3. \A k \in 0..n : k \in S
    BY <1>1, <1>2, UpTo
  <1> QED
    BY <1>3 DEF S

LEMMA SumNat ==
    ASSUME NEW s \in Seq(Nat)
    PROVE  Sum(s) \in Nat
  <1>1. Len(s) \in Nat /\ Len(s) \in 0..Len(s) /\ Len(s) <= Len(s)
    OBVIOUS
  <1>2. PICK f : Sums(f, s, Len(s)) /\ Sum(s) = f[Len(s)]
    BY <1>1, SumIs
  <1>3. \A i \in 0..Len(s) : f[i] \in Nat
    BY <1>1, <1>2, SumsAgree
  <1> QED
    BY <1>1, <1>2, <1>3

LEMMA SumEmpty == Sum(<<>>) = 0
  <1>1. Len(<<>>) = 0 /\ 0 \in Nat /\ 0 \in 0..0
    OBVIOUS
  <1>2. PICK f : Sums(f, <<>>, 0) /\ Sum(<<>>) = f[0]
    BY <1>1, SumIs
  <1>3. f[0] = 0
    BY <1>1, <1>2 DEF Sums
  <1> QED
    BY <1>2, <1>3

\* A sequence that differs in the last number, or has one more.
LEMMA SumLast ==
    ASSUME NEW s \in Seq(Nat), NEW n \in Nat, Len(s) = n + 1,
           NEW t \in Seq(Nat), n <= Len(t), \A i \in 1..n : s[i] = t[i]
    PROVE  /\ Len(t) = n => Sum(s) = Sum(t) + s[n + 1]
           /\ Len(t) = n + 1 => Sum(s) + t[n + 1] = Sum(t) + s[n + 1]
  <1>1. PICK f : Sums(f, s, Len(s)) /\ Sum(s) = f[Len(s)]
    BY SumIs
  <1>2. PICK g : Sums(g, t, Len(t)) /\ Sum(t) = g[Len(t)]
    BY SumIs
  <1>3. n <= Len(s) /\ n \in 0..n
    OBVIOUS
  <1>4. f[n] = g[n] /\ f[n] \in Nat
    BY <1>1, <1>2, <1>3, SumsAgree
  <1>5. n + 1 \in 0..(n + 1) /\ n + 1 # 0 /\ (n + 1) - 1 = n
    OBVIOUS
  <1>6. f[n + 1] = f[n] + s[n + 1]
    <2>1. Sums(f, s, n + 1)
      BY <1>1
    <2> QED
      BY <1>5, <2>1 DEF Sums
  <1>7. ASSUME Len(t) = n PROVE Sum(s) = Sum(t) + s[n + 1]
    BY <1>1, <1>2, <1>4, <1>6, <1>7
  <1>8. ASSUME Len(t) = n + 1 PROVE Sum(s) + t[n + 1] = Sum(t) + s[n + 1]
    <2>1. Sums(g, t, n + 1)
      BY <1>2, <1>8
    <2>2. g[n + 1] = g[n] + t[n + 1]
      BY <1>5, <2>1 DEF Sums
    <2>3. t[n + 1] \in Nat /\ s[n + 1] \in Nat
      BY <1>8
    <2>4. Sum(s) = f[n] + s[n + 1] /\ Sum(t) = f[n] + t[n + 1]
      BY <1>1, <1>2, <1>4, <1>6, <1>8, <2>2
    <2> QED
      BY <1>4, <2>3, <2>4
  <1> QED
    BY <1>7, <1>8

-----------------------------------------------------------------------------
(***************************************************************************)
(* The inductive invariant.                                                *)
(***************************************************************************)
\* A test is being run, and the runner is in its function.
Inside  == pc \in {"assert", "body", "last", "passed"}
Running == Inside \/ pc \in {"pass", "finalize"}

\* The run is cut short.
Stopped == pc \in {"killed", "killed late", "undefined"}

Fields == {"passing", "testsFailed", "asserts", "assertsFailed", "current", "currentFailed",
           "flags", "pass", "reachedLeaf", "subcaseStack", "nextSubcaseStack",
           "fullyTraversed", "depth", "shouldLog"}

Untouched == [ran |-> FALSE, asserts |-> 0, thrown |-> FALSE]

TypeInv ==
    /\ opt.abort_after \in Int
    /\ DOMAIN cs = Fields
    /\ cs.testsFailed \in Nat /\ cs.assertsFailed \in Nat /\ cs.currentFailed \in Nat
    /\ pc \in {"start", "pick", "end", "over"} \/ Stopped \/ Running
    /\ test \in 0..(Len(Tests) + 1)
    /\ Running => test \in 1..Len(Tests) /\ ~opt.query
    /\ pc = "start" => test = 0
    /\ pc = "pick" => test # 0
    /\ path \in Seq(Nat) /\ child \in Nat
    /\ thrown \in {None, "TestFailureException", "Exception"}
    /\ failures \in [1..Len(Tests) -> [ran : BOOLEAN, asserts : Nat, thrown : BOOLEAN]]

\* While tests are run, fewer assertions have failed than end the run.
AbortInv == (Running \/ pc \in {"start", "pick"}) /\ opt.abort_after > 0
              => cs.assertsFailed < opt.abort_after

\* The flags of the test that is run tell what went wrong in it.
FlagsInv ==
    /\ Running =>
         /\ failures[test].ran
         /\ cs.currentFailed = failures[test].asserts
         /\ cs.flags \subseteq {"AssertFailure", "Exception", "TooManyFailedAsserts"}
         /\ cs.flags \cap {"AssertFailure", "TooManyFailedAsserts"} # {} => cs.currentFailed > 0
         /\ failures[test].thrown <=> ("Exception" \in cs.flags \/ (Inside /\ thrown = "Exception"))
    /\ Inside /\ thrown = "TestFailureException" => cs.currentFailed > 0 /\ ~cs.shouldLog
    /\ pc \in {"assert", "last"} => thrown = None

\* The tests before this one are counted, those after it are untouched.
CountInv ==
    ~Stopped =>
      /\ \A t \in 1..Len(Tests) : t > test \/ (t = test /\ ~Running) => failures[t] = Untouched
      /\ cs.testsFailed > 0 <=>
           \E t \in 1..Len(Tests) : t < test /\ Ran(t) /\ ~AsDeclared(t)

ExitInv == TypeInv /\ AbortInv /\ FlagsInv /\ CountInv

\* n elements are open, in the order in which they nest.
ElementAt(i) == IF i = 1 THEN "doctest" ELSE IF i = 2 THEN "TestSuite"
                ELSE IF i = 3 THEN "TestCase" ELSE "SubCase"

Tags == {"doctest", "TestSuite", "TestCase", "SubCase"}

Nested(x, n) ==
    /\ DOMAIN x = {"tags", "suite", "broken"}
    /\ x.tags \in Seq(Tags) /\ Len(x.tags) = n
    /\ \A i \in 1..n : x.tags[i] = ElementAt(i)
    /\ x.broken = FALSE

\* At most n elements are open, and an end was not that of what it closed.
Loose(x, n) ==
    /\ DOMAIN x = {"tags", "suite", "broken"}
    /\ x.tags \in Seq(Tags) /\ Len(x.tags) <= n
    /\ x.broken = TRUE

\* The subcases that the function is in are among those on the stack.
Stacked == cs.subcaseStack \in Seq(Seq(Nat)) /\ cs.depth <= Len(cs.subcaseStack)

\* How many elements are open between two tests.
Between(x) == IF x.suite = None THEN 1 ELSE 2

XmlInv ==
    /\ pc = "start" \/ opt.query => Nested(xml, 0) /\ xml.suite = None
    /\ pc \in {"pick", "end"} /\ ~opt.query => Nested(xml, Between(xml))
    /\ Running => xml.suite # None /\ Nested(xml, Len(path) + 3)
    /\ pc = "undefined" => Nested(xml, Len(path) + 3)
    /\ pc \in {"over", "killed"} => Nested(xml, 0)
    /\ pc = "killed late" => Loose(xml, 0)
    /\ Inside => cs.depth = Len(path) /\ Stacked
    /\ pc \notin {"assert", "body", "over"} /\ ~Stopped => path = <<>>

JCases == [test : Nat, name : Seq(Seq(Nat)), failures : Nat, errors : Nat]

JUnits == [cases : Seq(JCases), names : Seq(Seq(Nat))]

\* The last case is one of test t.
LastIs(j, t) == j \in JUnits /\ j.cases # <<>> /\ j.cases[Len(j.cases)].test = t

\* An exception is on its way out of test t, and is not in the flags yet.
Unwinding(t) == t = test /\ Inside /\ thrown = "Exception"

JUnitInv ==
    /\ junit \in JUnits /\ (Running => LastIs(junit, test))
    /\ \A t \in 1..Len(Tests) : Sum(Failures(junit, t)) = failures[t].asserts
    /\ ~Stopped =>
         \A t \in 1..Len(Tests) :
           Unwinding(t) \/ (failures[t].thrown <=> Sum(Errors(junit, t)) > 0)

RunInv == ExitInv /\ XmlInv /\ JUnitInv

-----------------------------------------------------------------------------
(***************************************************************************)
(* What the actions do to the counters, to the flags and to where the test *)
(* is: s is the state before, r after.                                     *)
(***************************************************************************)
SameCounts(s, r) ==
    r.testsFailed = s.testsFailed /\ r.assertsFailed = s.assertsFailed

SameTest(s, r) ==
    SameCounts(s, r) /\ r.currentFailed = s.currentFailed /\ r.flags = s.flags

LEMMA SkipDoes ==
    ASSUME NEW s, DOMAIN s = Fields, NEW v
    PROVE  LET r == [s EXCEPT !.passing = v]
           IN  DOMAIN r = Fields /\ SameTest(s, r) /\ r.depth = s.depth /\ r.shouldLog = s.shouldLog
  BY DEF Fields, SameTest, SameCounts

LEMMA StartTestDoes ==
    ASSUME NEW s, DOMAIN s = Fields, NEW v
    PROVE  LET r == [s EXCEPT !.passing = v, !.flags = {}, !.current = 0,
                              !.currentFailed = 0, !.fullyTraversed = {}, !.pass = 0]
           IN  DOMAIN r = Fields /\ SameCounts(s, r) /\ r.flags = {} /\ r.currentFailed = 0
  BY DEF Fields, SameCounts

LEMMA StartPassDoes ==
    ASSUME NEW s, DOMAIN s = Fields
    PROVE  LET r == [s EXCEPT !.reachedLeaf = FALSE, !.subcaseStack = <<>>, !.depth = 0,
                              !.shouldLog = TRUE, !.pass = @ + 1]
           IN  DOMAIN r = Fields /\ SameTest(s, r) /\ r.depth = 0 /\ r.subcaseStack = <<>>
  BY DEF Fields, SameTest, SameCounts

LEMMA DownDoes ==
    ASSUME NEW s, DOMAIN s = Fields, NEW v
    PROVE  LET r == [s EXCEPT !.depth = @ + 1, !.subcaseStack = v]
           IN  DOMAIN r = Fields /\ SameTest(s, r) /\ r.depth = s.depth + 1
               /\ r.shouldLog = s.shouldLog /\ r.subcaseStack = v
  BY DEF Fields, SameTest, SameCounts

LEMMA NextDoes ==
    ASSUME NEW s, DOMAIN s = Fields, NEW v
    PROVE  LET r == [s EXCEPT !.nextSubcaseStack = v]
           IN  /\ DOMAIN r = Fields /\ SameTest(s, r) /\ r.depth = s.depth
               /\ r.shouldLog = s.shouldLog /\ r.subcaseStack = s.subcaseStack
  BY DEF Fields, SameTest, SameCounts

LEMMA LeaveDoes ==
    ASSUME NEW s, DOMAIN s = Fields, NEW log
    PROVE  LET r == [Leave(s) EXCEPT !.shouldLog = @ /\ ~log]
           IN  /\ DOMAIN r = Fields /\ SameTest(s, r) /\ r.depth = s.depth - 1
               /\ r.shouldLog = (s.shouldLog /\ ~log) /\ r.subcaseStack = s.subcaseStack
  BY DEF Fields, SameTest, SameCounts, Leave

LEMMA AddsDo ==
    ASSUME NEW s, DOMAIN s = Fields
    PROVE  /\ LET r == addAssert(s)
              IN  /\ DOMAIN r = Fields /\ SameTest(s, r) /\ r.depth = s.depth
                  /\ r.shouldLog = s.shouldLog /\ r.subcaseStack = s.subcaseStack
           /\ LET r == addFailedAssert(addAssert(s))
              IN  /\ DOMAIN r = Fields /\ SameCounts(s, r) /\ r.flags = s.flags
                  /\ r.currentFailed = s.currentFailed + 1 /\ r.depth = s.depth
                  /\ r.shouldLog = s.shouldLog /\ r.subcaseStack = s.subcaseStack
           /\ LET r == [addFailedAssert(addAssert(s)) EXCEPT !.shouldLog = FALSE]
              IN  /\ DOMAIN r = Fields /\ SameCounts(s, r) /\ r.flags = s.flags
                  /\ r.currentFailed = s.currentFailed + 1 /\ r.depth = s.depth
                  /\ r.shouldLog = FALSE /\ r.subcaseStack = s.subcaseStack
  BY DEF Fields, SameTest, SameCounts, addAssert, addFailedAssert

LEMMA FlagsDo ==
    ASSUME NEW s, DOMAIN s = Fields, NEW f
    PROVE  LET r == [s EXCEPT !.flags = @ \cup f]
           IN  /\ DOMAIN r = Fields /\ SameCounts(s, r) /\ r.flags = s.flags \cup f
               /\ r.currentFailed = s.currentFailed /\ r.depth = s.depth
  BY DEF Fields, SameCounts

LEMMA CrashDoes ==
    ASSUME NEW s, DOMAIN s = Fields
    PROVE  LET r == [s EXCEPT !.flags = @ \cup {"Crash"}, !.subcaseStack = <<>>]
           IN  DOMAIN r = Fields /\ SameCounts(s, r) /\ r.currentFailed = s.currentFailed
  BY DEF Fields, SameCounts

LEMMA FinalizeDoes ==
    ASSUME NEW s, DOMAIN s = Fields, NEW decor
    PROVE  LET r == finalizeTestCaseData(s, decor)
               f == FlagsOf(s, decor)
           IN  /\ DOMAIN r = Fields
               /\ r.assertsFailed = s.assertsFailed + s.currentFailed
               /\ r.testsFailed = IF f # {} /\ f \cap OkToFail = {}
                                    THEN s.testsFailed + 1 ELSE s.testsFailed
               /\ r.currentFailed = s.currentFailed
  <1> DEFINE f == FlagsOf(s, decor)
             m == IF f # {} /\ f \cap OkToFail = {} THEN s.testsFailed + 1 ELSE s.testsFailed
  <1>1. finalizeTestCaseData(s, decor) =
          [s EXCEPT !.flags = f, !.asserts = s.asserts + s.current,
                    !.assertsFailed = s.assertsFailed + s.currentFailed, !.testsFailed = m]
    BY Zenon DEF finalizeTestCaseData
  <1> HIDE DEF f, m
  <1>2. LET r == [s EXCEPT !.flags = f, !.asserts = s.asserts + s.current,
                    !.assertsFailed = s.assertsFailed + s.currentFailed, !.testsFailed = m]
        IN  /\ DOMAIN r = Fields /\ r.assertsFailed = s.assertsFailed + s.currentFailed
            /\ r.testsFailed = m /\ r.currentFailed = s.currentFailed
    BY DEF Fields
  <1> QED
    BY <1>1, <1>2 DEF f, m

-----------------------------------------------------------------------------
(***************************************************************************)
(* The counters, the flags and the tests that went wrong.                  *)
(***************************************************************************)
Record == [ran : BOOLEAN, asserts : Nat, thrown : BOOLEAN]

LEMMA ExitInit == Init => ExitInv
  <1> SUFFICES ASSUME Init PROVE ExitInv
    OBVIOUS
  <1>1. opt.abort_after \in Int /\ Len(Tests) \in Nat
    BY OptionsAssumption DEF Init
  <1>2. DOMAIN cs = Fields /\ cs.testsFailed = 0 /\ cs.assertsFailed = 0 /\ cs.currentFailed = 0
    BY DEF Init, FreshState, Fields
  <1>3. pc = "start" /\ test = 0 /\ path = <<>> /\ child = 1 /\ thrown = None
    BY DEF Init
  <1>4. failures = [t \in 1..Len(Tests) |-> Untouched] /\ Untouched \in Record
    BY DEF Init, Untouched, Record
  <1>5. failures \in [1..Len(Tests) -> Record] /\ \A t \in 1..Len(Tests) : failures[t] = Untouched
    BY <1>4, Zenon
  <1>6. TypeInv
    <2>1. path \in Seq(Nat)
      BY <1>3
    <2> QED
      BY <1>1, <1>2, <1>3, <1>5, <2>1 DEF TypeInv, Record, Running, Inside
  <1>7. ~Running /\ pc \notin {"assert", "last"} /\ ~Inside
    BY <1>3 DEF Running, Inside
  <1>8. AbortInv
    BY <1>1, <1>2 DEF AbortInv
  <1>9. FlagsInv
    BY <1>7 DEF FlagsInv
  <1>10. CountInv
    <2>1. \A t \in 1..Len(Tests) : ~(t < test)
      BY <1>3
    <2>2. ~(cs.testsFailed > 0)
      BY <1>2
    <2> QED
      BY <1>5, <2>1, <2>2, Zenon DEF CountInv
  <1> QED
    BY <1>6, <1>8, <1>9, <1>10 DEF ExitInv

\* What the count says of the tests before n.
BadBefore(n) == \E t \in 1..Len(Tests) : t < n /\ Ran(t) /\ ~AsDeclared(t)

LEMMA SameVerdict ==
    ASSUME NEW t, failures'[t] = failures[t]
    PROVE  (Ran(t))' = Ran(t) /\ (AsDeclared(t))' = AsDeclared(t)
  <1>1. (Ran(t))' = Ran(t)
    BY DEF Ran
  <1>2. (Wrong(t))' = Wrong(t)
    BY DEF Wrong
  <1>3. (AsDeclared(t))' = AsDeclared(t)
    BY <1>2 DEF AsDeclared
  <1> QED
    BY <1>1, <1>3

\* Steps inside of a test.
LEMMA CountKept ==
    ASSUME TypeInv, CountInv, Running, Running', ~Stopped', ~Stopped, test' = test,
           cs'.testsFailed = cs.testsFailed,
           \A t \in 1..Len(Tests) : t # test => failures'[t] = failures[t]
    PROVE  CountInv'
  <1>1. \A t \in 1..Len(Tests) : t > test => failures'[t] = Untouched
    <2>1. \A t \in 1..Len(Tests) : t > test => t # test
      BY DEF TypeInv
    <2> QED
      BY <2>1 DEF CountInv
  <1>2. \A t \in 1..Len(Tests) : t < test => t # test
    BY DEF TypeInv
  <1>3. \A t \in 1..Len(Tests) : t < test =>
           (Ran(t))' = Ran(t) /\ (AsDeclared(t))' = AsDeclared(t)
    BY <1>2, SameVerdict
  <1>4. cs.testsFailed > 0 <=> BadBefore(test)
    BY DEF CountInv, BadBefore
  <1>5. (\E t \in 1..Len(Tests) : t < test' /\ (Ran(t))' /\ ~(AsDeclared(t))') <=> BadBefore(test)
    BY <1>3, Zenon DEF BadBefore
  <1>6. (cs.testsFailed > 0)'
          <=> (\E t \in 1..Len(Tests) : t < test' /\ (Ran(t))' /\ ~(AsDeclared(t))')
    BY <1>4, <1>5
  <1>7. \A t \in 1..Len(Tests) : t > test' \/ (t = test' /\ ~Running') => failures'[t] = Untouched
    BY <1>1
  <1> QED
    BY <1>6, <1>7, Zenon DEF CountInv, Untouched

LEMMA RunStartExit == ExitInv /\ RunStart => ExitInv'
  <1> SUFFICES ASSUME ExitInv, RunStart PROVE ExitInv'
    OBVIOUS
  <1>1. pc = "start" /\ pc' = "pick" /\ test' = 1 /\ opt' = opt /\ cs' = cs /\ path' = path
        /\ child' = child /\ thrown' = thrown /\ failures' = failures
    BY DEF RunStart
  <1>2. ~Running /\ ~Running' /\ ~Inside' /\ pc' \notin {"assert", "last"}
    BY <1>1 DEF Running, Inside
  <1>3. Len(Tests) \in Nat
    BY OptionsAssumption
  <1>4. TypeInv'
    BY <1>1, <1>2, <1>3 DEF ExitInv, TypeInv
  <1>5. AbortInv' /\ FlagsInv'
    BY <1>1, <1>2 DEF ExitInv, AbortInv, FlagsInv
  <1>6. CountInv'
    <2>1. test = 0 /\ ~Stopped /\ ~Stopped'
      BY <1>1 DEF ExitInv, TypeInv, Stopped
    <2>2. \A t \in 1..Len(Tests) : t > test /\ ~(t < 1) /\ ~(t < 0)
      BY <1>3, <2>1
    <2>3. \A t \in 1..Len(Tests) : failures[t] = Untouched
      BY <2>1, <2>2 DEF ExitInv, CountInv
    <2>4. ~(cs.testsFailed > 0)
      BY <2>1, <2>2 DEF ExitInv, CountInv
    <2> QED
      BY <1>1, <2>2, <2>3, <2>4, Zenon DEF CountInv, Untouched
  <1> QED
    BY <1>4, <1>5, <1>6 DEF ExitInv

LEMMA SkipExit == ExitInv /\ Skip => ExitInv'
  <1> SUFFICES ASSUME ExitInv, Skip PROVE ExitInv'
    OBVIOUS
  <1> USE OptionsAssumption
  <1>1. /\ pc = "pick" /\ test <= Len(Tests) /\ test' = test + 1 /\ pc' = pc /\ opt' = opt
        /\ path' = path /\ child' = child /\ thrown' = thrown /\ failures' = failures
        /\ cs' = [cs EXCEPT !.passing = Passing]
    BY DEF Skip
  <1>2. ~Running /\ ~Running' /\ ~Inside' /\ pc' \notin {"assert", "last"}
    BY <1>1 DEF Running, Inside
  <1>3. DOMAIN cs' = Fields /\ SameTest(cs, cs')
    <2>1. DOMAIN cs = Fields
      BY DEF ExitInv, TypeInv
    <2> QED
      BY <1>1, <2>1, SkipDoes DEF SameTest, SameCounts
  <1>4. TypeInv'
    BY <1>1, <1>2, <1>3 DEF ExitInv, TypeInv, SameTest, SameCounts
  <1>5. AbortInv' /\ FlagsInv'
    BY <1>1, <1>2, <1>3 DEF ExitInv, AbortInv, FlagsInv, SameTest, SameCounts
  <1>6. CountInv'
    <2>1. test \in 1..Len(Tests) /\ test \in Nat /\ ~Stopped /\ ~Stopped'
      BY <1>1 DEF ExitInv, TypeInv, Stopped
    <2>2. /\ \A t \in 1..Len(Tests) : t > test \/ (t = test /\ ~Running) => failures[t] = Untouched
          /\ cs.testsFailed > 0 <=> BadBefore(test)
      BY <2>1 DEF ExitInv, CountInv, BadBefore
    <2>3. \A t \in 1..Len(Tests) : t > test + 1 \/ t = test + 1 => t > test
      BY <2>1
    <2>4. \A t \in 1..Len(Tests) : t < test + 1 <=> t < test \/ t = test
      BY <2>1
    <2>5. ~Ran(test)
      BY <1>2, <2>1, <2>2 DEF Ran, Untouched
    <2>6. BadBefore(test + 1) <=> BadBefore(test)
      BY <2>4, <2>5, Zenon DEF BadBefore
    <2>7. \A t : (Ran(t))' = Ran(t) /\ (AsDeclared(t))' = AsDeclared(t)
      BY <1>1, SameVerdict
    <2>8. (\E t \in 1..Len(Tests) : t < test' /\ (Ran(t))' /\ ~(AsDeclared(t))')
            <=> BadBefore(test + 1)
      BY <1>1, <2>7, Zenon DEF BadBefore
    <2>9. cs'.testsFailed = cs.testsFailed
      BY <1>3 DEF SameTest, SameCounts
    <2>10. cs'.testsFailed > 0
             <=> (\E t \in 1..Len(Tests) : t < test' /\ (Ran(t))' /\ ~(AsDeclared(t))')
      BY <2>2, <2>6, <2>8, <2>9
    <2>11. \A t \in 1..Len(Tests) : t > test' \/ (t = test' /\ ~Running')
             => failures'[t] = Untouched
      BY <1>1, <2>2, <2>3
    <2> QED
      BY <2>10, <2>11, Zenon DEF CountInv, Untouched
  <1> QED
    BY <1>4, <1>5, <1>6 DEF ExitInv

LEMMA StartTestExit == ExitInv /\ StartTest => ExitInv'
  <1> SUFFICES ASSUME ExitInv, StartTest PROVE ExitInv'
    OBVIOUS
  <1> USE OptionsAssumption
  <1>1. /\ pc = "pick" /\ test <= Len(Tests) /\ test' = test /\ pc' = "pass" /\ opt' = opt
        /\ ~opt.query
        /\ path' = path /\ child' = child /\ thrown' = thrown
        /\ failures' = [failures EXCEPT ![test].ran = TRUE]
        /\ cs' = [cs EXCEPT !.passing = Passing, !.flags = {}, !.current = 0,
                            !.currentFailed = 0, !.fullyTraversed = {}, !.pass = 0]
    BY DEF StartTest
  <1>2. ~Running /\ Running' /\ ~Inside' /\ pc' \notin {"assert", "last"}
    BY <1>1 DEF Running, Inside
  <1>3. DOMAIN cs' = Fields /\ SameCounts(cs, cs') /\ cs'.flags = {} /\ cs'.currentFailed = 0
    <2>1. DOMAIN cs = Fields
      BY DEF ExitInv, TypeInv
    <2> QED
      BY <1>1, <2>1, StartTestDoes
  <1>4. /\ test \in 1..Len(Tests) /\ test \in Nat /\ ~Stopped /\ ~Stopped'
        /\ failures \in [1..Len(Tests) -> Record]
    BY <1>1 DEF ExitInv, TypeInv, Record, Stopped
  <1>5. failures[test] = Untouched
    BY <1>2, <1>4 DEF ExitInv, CountInv
  <1>6. /\ failures' \in [1..Len(Tests) -> Record]
        /\ failures'[test].ran = TRUE /\ failures'[test].asserts = 0
        /\ failures'[test].thrown = FALSE
        /\ \A t \in 1..Len(Tests) : t # test => failures'[t] = failures[t]
    <2> DEFINE new == [failures[test] EXCEPT !.ran = TRUE]
    <2>1. failures[test] \in Record
      BY <1>4
    <2>2. /\ new \in Record /\ new.ran = TRUE /\ new.asserts = failures[test].asserts
          /\ new.thrown = failures[test].thrown
      BY <2>1 DEF Record
    <2>3. failures' = [failures EXCEPT ![test] = new]
      BY <1>1
    <2> HIDE DEF new
    <2>4. /\ failures' \in [1..Len(Tests) -> Record] /\ failures'[test] = new
          /\ \A t \in 1..Len(Tests) : t # test => failures'[t] = failures[t]
      BY <1>4, <2>2, <2>3
    <2>5. failures[test].asserts = 0 /\ failures[test].thrown = FALSE
      BY <1>5 DEF Untouched
    <2> QED
      BY <2>2, <2>4, <2>5
  <1>7. TypeInv'
    BY <1>1, <1>2, <1>3, <1>4, <1>6 DEF ExitInv, TypeInv, SameCounts, Record
  <1>8. AbortInv'
    BY <1>1, <1>3 DEF ExitInv, AbortInv, SameCounts
  <1>9. FlagsInv'
    BY <1>1, <1>2, <1>3, <1>6 DEF FlagsInv
  <1>10. CountInv'
    <2>1. /\ \A t \in 1..Len(Tests) : t > test => failures[t] = Untouched
          /\ cs.testsFailed > 0 <=> BadBefore(test)
      BY <1>4 DEF ExitInv, CountInv, BadBefore
    <2>2. \A t \in 1..Len(Tests) : t > test \/ t < test => t # test
      BY <1>4
    <2>3. \A t \in 1..Len(Tests) : t < test =>
            (Ran(t))' = Ran(t) /\ (AsDeclared(t))' = AsDeclared(t)
      BY <1>6, <2>2, SameVerdict
    <2>4. (\E t \in 1..Len(Tests) : t < test' /\ (Ran(t))' /\ ~(AsDeclared(t))') <=> BadBefore(test)
      BY <1>1, <2>3, Zenon DEF BadBefore
    <2>5. cs'.testsFailed = cs.testsFailed
      BY <1>3 DEF SameCounts
    <2>6. cs'.testsFailed > 0
            <=> (\E t \in 1..Len(Tests) : t < test' /\ (Ran(t))' /\ ~(AsDeclared(t))')
      BY <2>1, <2>4, <2>5
    <2>7. \A t \in 1..Len(Tests) : t > test' \/ (t = test' /\ ~Running') => failures'[t] = Untouched
      BY <1>1, <1>2, <1>6, <2>1, <2>2
    <2> QED
      BY <2>6, <2>7, Zenon DEF CountInv, Untouched
  <1> QED
    BY <1>7, <1>8, <1>9, <1>10 DEF ExitInv

\* A step inside of a test keeps all that it does not touch.
Stays ==
    /\ Running /\ Running' /\ test' = test /\ opt' = opt
    /\ DOMAIN cs' = Fields /\ SameCounts(cs, cs') /\ cs'.currentFailed \in Nat
    /\ path' \in Seq(Nat) /\ child' \in Nat
    /\ thrown' \in {None, "TestFailureException", "Exception"}
    /\ failures' \in [1..Len(Tests) -> Record]
    /\ \A t \in 1..Len(Tests) : t # test => failures'[t] = failures[t]

LEMMA StaysExit == ASSUME ExitInv, Stays, FlagsInv' PROVE ExitInv'
  <1>1. ~Stopped /\ ~Stopped'
    BY DEF Stays, Running, Inside, Stopped
  <1>2. TypeInv'
    <2>1. pc' \notin {"start", "pick"}
      BY DEF Stays, Running, Inside
    <2> QED
      BY <2>1 DEF ExitInv, TypeInv, Stays, SameCounts, Record
  <1>3. AbortInv'
    BY DEF ExitInv, AbortInv, Stays, SameCounts
  <1>4. CountInv'
    BY <1>1, CountKept DEF ExitInv, Stays, SameCounts
  <1> QED
    BY <1>2, <1>3, <1>4 DEF ExitInv

\* The same for a step that neither fails nor throws.
Calm == /\ SameTest(cs, cs') /\ failures' = failures /\ DOMAIN cs' = Fields
        /\ test' = test /\ opt' = opt /\ path' \in Seq(Nat) /\ child' \in Nat

LEMMA CalmStays ==
    ASSUME ExitInv, Calm, Running, Running',
           thrown' \in {None, "TestFailureException", "Exception"}
    PROVE  Stays
  BY DEF ExitInv, TypeInv, Calm, Stays, SameTest, SameCounts, Record

LEMMA CalmInside ==
    ASSUME ExitInv, Calm, Inside, Inside', thrown' = thrown,
           thrown = "TestFailureException" => (cs'.shouldLog => cs.shouldLog),
           pc' \in {"assert", "last"} => thrown = None
    PROVE  ExitInv'
  <1>1. Running /\ Running' /\ test' = test
    BY DEF Running, Calm
  <1>2. thrown' \in {None, "TestFailureException", "Exception"}
    BY DEF ExitInv, TypeInv
  <1>3. Stays
    BY <1>1, <1>2, CalmStays
  <1>4. FlagsInv'
    BY <1>1 DEF ExitInv, FlagsInv, Calm, SameTest, SameCounts
  <1> QED
    BY <1>3, <1>4, StaysExit

LEMMA StartPassExit == ExitInv /\ StartPass => ExitInv'
  <1> SUFFICES ASSUME ExitInv, StartPass PROVE ExitInv'
    OBVIOUS
  <1>1. /\ pc = "pass" /\ pc' = "assert" /\ path' = <<>> /\ child' = 1 /\ thrown' = None
        /\ opt' = opt /\ test' = test /\ failures' = failures
        /\ cs' = [cs EXCEPT !.reachedLeaf = FALSE, !.subcaseStack = <<>>, !.depth = 0,
                            !.shouldLog = TRUE, !.pass = @ + 1]
    BY DEF StartPass
  <1>2. Running /\ Running' /\ ~Inside /\ Inside'
    BY <1>1 DEF Running, Inside
  <1>3. DOMAIN cs = Fields
    BY DEF ExitInv, TypeInv
  <1>4. DOMAIN cs' = Fields /\ SameTest(cs, cs')
    BY <1>1, <1>3, StartPassDoes
  <1>5. Calm
    <2>1. <<>> \in Seq(Nat) /\ 1 \in Nat
      OBVIOUS
    <2> QED
      BY <1>1, <1>4, <2>1 DEF Calm
  <1>6. Stays
    BY <1>1, <1>2, <1>5, CalmStays
  <1>7. FlagsInv'
    BY <1>1, <1>2, <1>4 DEF ExitInv, FlagsInv, SameTest, SameCounts, None
  <1> QED
    BY <1>6, <1>7, StaysExit

LEMMA SubcaseExit == ExitInv /\ Subcase => ExitInv'
  <1> SUFFICES ASSUME ExitInv, Subcase PROVE ExitInv'
    OBVIOUS
  <1> DEFINE sig == Append(path, child)
             v == IF GoesDown(sig) THEN Append(cs.subcaseStack, sig) ELSE cs.subcaseStack
             w == Append(SubSeq(cs.subcaseStack, 1, cs.depth), sig)
  <1>1. /\ pc = "body" /\ thrown = None
        /\ opt' = opt /\ test' = test /\ failures' = failures /\ thrown' = thrown
    BY DEF Subcase
  <1>2. DOMAIN cs = Fields /\ path \in Seq(Nat) /\ child \in Nat
    BY DEF ExitInv, TypeInv
  <1>3. sig \in Seq(Nat) /\ child + 1 \in Nat /\ 1 \in Nat
    BY <1>2
  <1>4. CASE GoesDown(sig) \/ Reentered(sig)
    <2>1. cs' = [cs EXCEPT !.depth = @ + 1, !.subcaseStack = v] /\ path' = sig /\ child' = 1
          /\ pc' = "assert"
      BY <1>4 DEF Subcase
    <2> HIDE DEF v, sig
    <2>2. DOMAIN cs' = Fields /\ SameTest(cs, cs') /\ cs'.shouldLog = cs.shouldLog
      BY <1>2, <2>1, DownDoes
    <2>3. Calm /\ Inside /\ Inside'
      BY <1>1, <1>3, <2>1, <2>2 DEF Calm, Inside
    <2> QED
      BY <1>1, <2>2, <2>3, CalmInside
  <1>5. CASE ~(GoesDown(sig) \/ Reentered(sig))
    <2>1. /\ cs' = [cs EXCEPT !.nextSubcaseStack = w] \/ cs' = cs
          /\ path' = path /\ child' = child + 1 /\ pc' = pc
      BY <1>5 DEF Subcase
    <2> HIDE DEF w, sig
    <2>2. DOMAIN cs' = Fields /\ SameTest(cs, cs') /\ cs'.shouldLog = cs.shouldLog
      <3>1. CASE cs' = cs
        BY <1>2, <3>1 DEF SameTest, SameCounts
      <3>2. CASE cs' = [cs EXCEPT !.nextSubcaseStack = w]
        BY <1>2, <3>2, NextDoes
      <3> QED
        BY <2>1, <3>1, <3>2
    <2>3. Calm /\ Inside /\ Inside'
      BY <1>1, <1>2, <1>3, <2>1, <2>2 DEF Calm, Inside
    <2> QED
      BY <1>1, <2>2, <2>3, CalmInside
  <1> QED
    BY <1>4, <1>5

\* The path above the subcase that ends.
LEMMA FrontFacts ==
    ASSUME NEW p \in Seq(Nat), p # <<>>
    PROVE  Front(p) \in Seq(Nat) /\ Len(Front(p)) = Len(p) - 1 /\ Last(p) \in Nat
  <1> DEFINE n == Len(p) - 1
  <1>3. n \in 0..Len(p)
    OBVIOUS
  <1> HIDE DEF n
  <1>4. SubSeq(p, 1, n) \in Seq(Nat) /\ Len(SubSeq(p, 1, n)) = n
    BY <1>3
  <1>1. Front(p) \in Seq(Nat) /\ Len(Front(p)) = Len(p) - 1
    BY <1>4, Zenon DEF Front, n
  <1>2. Last(p) \in Nat
    BY DEF Last
  <1> QED
    BY <1>1, <1>2

LEMMA EndSubcaseExit == ExitInv /\ EndSubcase => ExitInv'
  <1> SUFFICES ASSUME ExitInv, EndSubcase PROVE ExitInv'
    OBVIOUS
  <1> DEFINE log == thrown # None /\ cs.shouldLog
  <1>1. /\ pc = "body" /\ pc' = pc /\ path # <<>>
        /\ cs' = [Leave(cs) EXCEPT !.shouldLog = @ /\ ~log]
        /\ path' = Front(path) /\ child' = Last(path) + 1
        /\ opt' = opt /\ test' = test /\ failures' = failures /\ thrown' = thrown
    BY DEF EndSubcase
  <1>2. DOMAIN cs = Fields /\ path \in Seq(Nat)
    BY DEF ExitInv, TypeInv
  <1>3. DOMAIN cs' = Fields /\ SameTest(cs, cs') /\ cs'.shouldLog = (cs.shouldLog /\ ~log)
    <2> HIDE DEF log
    <2> QED
      BY <1>1, <1>2, LeaveDoes
  <1>4. path' \in Seq(Nat) /\ child' \in Nat
    BY <1>1, <1>2, FrontFacts
  <1>5. Calm /\ Inside /\ Inside'
    BY <1>1, <1>3, <1>4 DEF Calm, Inside
  <1>6. cs'.shouldLog => cs.shouldLog
    BY <1>3
  <1> QED
    BY <1>1, <1>5, <1>6, CalmInside

LEMMA TurnsExit == ExitInv /\ (NextTurn \/ LastAssert \/ Passes) => ExitInv'
  <1> SUFFICES ASSUME ExitInv, NextTurn \/ LastAssert \/ Passes PROVE ExitInv'
    OBVIOUS
  <1>1. DOMAIN cs = Fields /\ path \in Seq(Nat) /\ child \in Nat
    BY DEF ExitInv, TypeInv
  <1>2. CASE NextTurn
    <2>1. Calm /\ Inside /\ Inside' /\ thrown' = thrown /\ cs' = cs /\ pc' = "body"
      BY <1>1, <1>2 DEF NextTurn, Calm, Inside, SameTest, SameCounts
    <2> QED
      BY <2>1, CalmInside
  <1>3. CASE LastAssert
    <2>1. Calm /\ Inside /\ Inside' /\ thrown' = thrown /\ cs' = cs /\ thrown = None
      BY <1>1, <1>3 DEF LastAssert, Calm, Inside, SameTest, SameCounts
    <2> QED
      BY <2>1, CalmInside
  <1>4. CASE Passes
    <2>1. cs' = addAssert(cs) /\ pc \in {"assert", "last"} /\ pc' \in {"passed", "body"}
          /\ UNCHANGED <<opt, test, path, child, thrown, failures>>
      BY <1>4 DEF Passes, Asserts, After
    <2>2. DOMAIN cs' = Fields /\ SameTest(cs, cs') /\ cs'.shouldLog = cs.shouldLog
      BY <1>1, <2>1, AddsDo
    <2>3. Calm /\ Inside /\ Inside' /\ thrown' = thrown /\ pc' \notin {"assert", "last"}
      BY <1>1, <2>1, <2>2 DEF Calm, Inside
    <2> QED
      BY <2>2, <2>3, CalmInside
  <1> QED
    BY <1>2, <1>3, <1>4

LEMMA FailsExit == ExitInv /\ Fails => ExitInv'
  <1> SUFFICES ASSUME ExitInv, Fails PROVE ExitInv'
    OBVIOUS
  <1> DEFINE s == addFailedAssert(addAssert(cs))
  <1>1. /\ pc \in {"assert", "last"} /\ pc' \in {"passed", "body"}
        /\ UNCHANGED <<opt, test, path, child>>
        /\ failures' = [failures EXCEPT ![test].asserts = @ + 1]
        /\ \/ thrown' = "TestFailureException" /\ cs' = [s EXCEPT !.shouldLog = FALSE]
           \/ thrown' = None /\ cs' = s
    BY DEF Fails, Asserts, After
  <1>2. Running /\ Running' /\ Inside /\ Inside'
    BY <1>1 DEF Running, Inside
  <1>3. /\ DOMAIN cs = Fields /\ path \in Seq(Nat) /\ child \in Nat
        /\ failures \in [1..Len(Tests) -> Record] /\ test \in 1..Len(Tests)
        /\ cs.currentFailed \in Nat
    BY <1>2 DEF ExitInv, TypeInv, Record
  <1>4. /\ DOMAIN cs' = Fields /\ SameCounts(cs, cs') /\ cs'.flags = cs.flags
        /\ cs'.currentFailed = cs.currentFailed + 1
        /\ thrown' = "TestFailureException" => cs'.shouldLog = FALSE
    <2>1. CASE thrown' = "TestFailureException" /\ cs' = [s EXCEPT !.shouldLog = FALSE]
      BY <1>3, <2>1, AddsDo
    <2>2. CASE thrown' = None /\ cs' = s
      <3>1. thrown' # "TestFailureException"
        BY <2>2 DEF None
      <3> QED
        BY <1>3, <2>2, <3>1, AddsDo
    <2> QED
      BY <1>1, <2>1, <2>2
  <1>5. /\ failures[test].ran /\ cs.currentFailed = failures[test].asserts
        /\ cs.flags \subseteq {"AssertFailure", "Exception", "TooManyFailedAsserts"}
        /\ failures[test].thrown <=> "Exception" \in cs.flags
        /\ thrown = None
    BY <1>1, <1>2 DEF ExitInv, FlagsInv, None
  <1>6. failures[test] \in Record
    BY <1>3
  <1>7. /\ failures' \in [1..Len(Tests) -> Record]
        /\ failures'[test].ran = failures[test].ran
        /\ failures'[test].asserts = failures[test].asserts + 1
        /\ failures'[test].thrown = failures[test].thrown
        /\ \A t \in 1..Len(Tests) : t # test => failures'[t] = failures[t]
    <2> DEFINE new == [failures[test] EXCEPT !.asserts = @ + 1]
    <2>1. /\ new \in Record /\ new.ran = failures[test].ran
          /\ new.asserts = failures[test].asserts + 1 /\ new.thrown = failures[test].thrown
      BY <1>6 DEF Record
    <2>2. failures' = [failures EXCEPT ![test] = new]
      BY <1>1
    <2> HIDE DEF new
    <2>3. /\ failures' \in [1..Len(Tests) -> Record] /\ failures'[test] = new
          /\ \A t \in 1..Len(Tests) : t # test => failures'[t] = failures[t]
      BY <1>3, <2>1, <2>2
    <2> QED
      BY <2>1, <2>3
  <1>8. thrown' \in {None, "TestFailureException", "Exception"} /\ thrown' # "Exception"
    BY <1>1 DEF None
  <1>9. Stays
    BY <1>1, <1>2, <1>3, <1>4, <1>7, <1>8 DEF Stays
  <1>10. FlagsInv'
    <2>1. cs'.currentFailed > 0 /\ cs'.currentFailed = failures'[test].asserts
      BY <1>3, <1>4, <1>5, <1>7
    <2>2. test' = test /\ pc' \notin {"assert", "last"}
      BY <1>1
    <2> QED
      BY <1>2, <1>4, <1>5, <1>7, <1>8, <2>1, <2>2 DEF FlagsInv
  <1> QED
    BY <1>9, <1>10, StaysExit

LEMMA ThrowsExit == ExitInv /\ Throws => ExitInv'
  <1> SUFFICES ASSUME ExitInv, Throws PROVE ExitInv'
    OBVIOUS
  <1>1. /\ pc \in {"assert", "last"} /\ pc' \in {"passed", "body"}
        /\ UNCHANGED <<opt, test, path, child>> /\ cs' = cs
        /\ failures' = [failures EXCEPT ![test].thrown = TRUE]
        /\ thrown' = "Exception"
    BY DEF Throws, Asserts, After
  <1>2. Running /\ Running' /\ Inside /\ Inside'
    BY <1>1 DEF Running, Inside
  <1>3. /\ DOMAIN cs = Fields /\ path \in Seq(Nat) /\ child \in Nat
        /\ failures \in [1..Len(Tests) -> Record] /\ test \in 1..Len(Tests)
        /\ cs.currentFailed \in Nat
    BY <1>2 DEF ExitInv, TypeInv, Record
  <1>6. failures[test] \in Record
    BY <1>3
  <1>7. /\ failures' \in [1..Len(Tests) -> Record]
        /\ failures'[test].ran = failures[test].ran
        /\ failures'[test].asserts = failures[test].asserts
        /\ failures'[test].thrown = TRUE
        /\ \A t \in 1..Len(Tests) : t # test => failures'[t] = failures[t]
    <2> DEFINE new == [failures[test] EXCEPT !.thrown = TRUE]
    <2>1. /\ new \in Record /\ new.ran = failures[test].ran
          /\ new.asserts = failures[test].asserts /\ new.thrown = TRUE
      BY <1>6 DEF Record
    <2>2. failures' = [failures EXCEPT ![test] = new]
      BY <1>1
    <2> HIDE DEF new
    <2>3. /\ failures' \in [1..Len(Tests) -> Record] /\ failures'[test] = new
          /\ \A t \in 1..Len(Tests) : t # test => failures'[t] = failures[t]
      BY <1>3, <2>1, <2>2
    <2> QED
      BY <2>1, <2>3
  <1>9. Stays
    BY <1>1, <1>2, <1>3, <1>7 DEF Stays, SameCounts
  <1>10. FlagsInv'
    <2>1. test' = test /\ pc' \notin {"assert", "last"}
      BY <1>1
    <2> QED
      BY <1>1, <1>2, <1>7, <2>1 DEF ExitInv, FlagsInv
  <1> QED
    BY <1>9, <1>10, StaysExit

LEMMA EndPassExit == ExitInv /\ EndPass => ExitInv'
  <1> SUFFICES ASSUME ExitInv, EndPass PROVE ExitInv'
    OBVIOUS
  <1> DEFINE f == (IF thrown = "TestFailureException" THEN {"AssertFailure"}
                     ELSE IF thrown = "Exception" THEN {"Exception"} ELSE {})
                      \cup (IF Enough(cs) THEN {"TooManyFailedAsserts"} ELSE {})
  <1>1. /\ pc \in {"passed", "body"} /\ pc' \in {"pass", "finalize"}
        /\ cs' = [cs EXCEPT !.flags = @ \cup f]
        /\ UNCHANGED <<opt, test, path, child, thrown, failures>>
    BY DEF EndPass
  <1>2. Running /\ Running' /\ Inside /\ ~Inside'
    BY <1>1 DEF Running, Inside
  <1>3. /\ DOMAIN cs = Fields /\ path \in Seq(Nat) /\ child \in Nat
        /\ failures \in [1..Len(Tests) -> Record] /\ cs.currentFailed \in Nat
        /\ cs.assertsFailed \in Nat /\ opt.abort_after \in Int
        /\ thrown \in {None, "TestFailureException", "Exception"}
    BY DEF ExitInv, TypeInv, Record
  <1>4. Enough(cs) => cs.currentFailed > 0
    <2>1. opt.abort_after > 0 => cs.assertsFailed < opt.abort_after
      BY <1>2 DEF ExitInv, AbortInv
    <2> QED
      BY <1>3, <2>1 DEF Enough
  <1>5. /\ f \subseteq {"AssertFailure", "Exception", "TooManyFailedAsserts"}
        /\ "Exception" \in f <=> thrown = "Exception"
        /\ "AssertFailure" \in f <=> thrown = "TestFailureException"
        /\ "TooManyFailedAsserts" \in f <=> Enough(cs)
    OBVIOUS
  <1> HIDE DEF f
  <1>6. /\ DOMAIN cs' = Fields /\ SameCounts(cs, cs') /\ cs'.flags = cs.flags \cup f
        /\ cs'.currentFailed = cs.currentFailed
    BY <1>1, <1>3, FlagsDo
  <1>7. Stays
    BY <1>1, <1>2, <1>3, <1>6 DEF Stays
  <1>8. FlagsInv'
    <2>1. test' = test /\ failures' = failures /\ pc' \notin {"assert", "last"}
      BY <1>1
    <2>2. thrown = "TestFailureException" => cs.currentFailed > 0
      BY <1>2 DEF ExitInv, FlagsInv
    <2>3. /\ failures[test].ran /\ cs.currentFailed = failures[test].asserts
          /\ cs.flags \subseteq {"AssertFailure", "Exception", "TooManyFailedAsserts"}
          /\ cs.flags \cap {"AssertFailure", "TooManyFailedAsserts"} # {} => cs.currentFailed > 0
          /\ failures[test].thrown <=> ("Exception" \in cs.flags \/ thrown = "Exception")
      BY <1>2 DEF ExitInv, FlagsInv
    <2>4. (cs.flags \cup f) \cap {"AssertFailure", "TooManyFailedAsserts"} # {}
            => cs.currentFailed > 0
      BY <1>4, <1>5, <2>2, <2>3
    <2> QED
      BY <1>2, <1>5, <1>6, <2>1, <2>3, <2>4 DEF FlagsInv
  <1> QED
    BY <1>7, <1>8, StaysExit

\* The verdict of finalizeTestCaseData is that of the test's declaration.
LEMMA Verdict ==
    ASSUME NEW t \in 1..Len(Tests), NEW s, NEW rec \in Record,
           s.flags \subseteq {"AssertFailure", "Exception", "TooManyFailedAsserts"},
           s.currentFailed = rec.asserts,
           s.flags \cap {"AssertFailure", "TooManyFailedAsserts"} # {} => s.currentFailed > 0,
           rec.thrown <=> "Exception" \in s.flags,
           failures[t] = rec
    PROVE  LET f == FlagsOf(s, Tests[t].decor)
           IN  (f # {} /\ f \cap OkToFail = {}) <=> ~AsDeclared(t)
  <1> DEFINE d == Tests[t].decor
             g == s.flags \cup (IF s.currentFailed > 0 THEN {"AssertFailure"} ELSE {})
             f == FlagsOf(s, d)
  <1>1. d \in {"none", "should_fail", "may_fail", "expected_failures"}
    BY TestsAssumption
  <1>2. rec.asserts \in Nat
    BY DEF Record
  <1>3. g # {} <=> Wrong(t)
    <2>1. Wrong(t) <=> s.currentFailed > 0 \/ "Exception" \in s.flags
      BY DEF Wrong
    <2>2. g # {} <=> s.currentFailed > 0 \/ s.flags # {}
      OBVIOUS
    <2>3. s.flags # {} => s.currentFailed > 0 \/ "Exception" \in s.flags
      OBVIOUS
    <2>4. "Exception" \in s.flags => s.flags # {}
      OBVIOUS
    <2> HIDE DEF g
    <2> QED
      BY <2>1, <2>2, <2>3, <2>4
  <1>4. g \subseteq {"AssertFailure", "Exception", "TooManyFailedAsserts"}
    OBVIOUS
  <1>5. g \cap OkToFail = {}
    BY <1>4 DEF OkToFail
  <1> HIDE DEF d
  <1>6. CASE d = "none"
    <2>1. f = g
      BY <1>6 DEF FlagsOf
    <2>2. AsDeclared(t) = ~Wrong(t)
      BY <1>6 DEF AsDeclared, d
    <2> HIDE DEF g, f
    <2> QED
      BY <1>3, <1>5, <2>1, <2>2 DEF f, d
  <1>7. CASE d = "should_fail"
    <2>1. f = g \cup {IF g # {} THEN "ShouldHaveFailedAndDid" ELSE "ShouldHaveFailedButDidnt"}
      BY <1>7 DEF FlagsOf
    <2>2. AsDeclared(t) = Wrong(t)
      BY <1>7 DEF AsDeclared, d
    <2> HIDE DEF g, f
    <2>3. (f # {} /\ f \cap OkToFail = {}) <=> g = {}
      BY <1>5, <2>1 DEF OkToFail
    <2> QED
      BY <1>3, <2>2, <2>3 DEF f, d
  <1>8. CASE d = "may_fail"
    <2>1. f = g \cup (IF g # {} THEN {"CouldHaveFailedAndDid"} ELSE {})
      BY <1>8 DEF FlagsOf
    <2>2. AsDeclared(t) = TRUE
      BY <1>8 DEF AsDeclared, d
    <2> HIDE DEF g, f
    <2>3. ~(f # {} /\ f \cap OkToFail = {})
      BY <2>1 DEF OkToFail
    <2> QED
      BY <2>2, <2>3 DEF f, d
  <1>9. CASE d = "expected_failures"
    <2>1. f = g \cup {IF s.currentFailed = 1 THEN "FailedExactlyNumTimes"
            ELSE "DidntFailExactlyNumTimes"}
      BY <1>9 DEF FlagsOf
    <2>2. AsDeclared(t) <=> failures[t].asserts = 1
      BY <1>9 DEF AsDeclared, d
    <2> HIDE DEF g, f
    <2>3. (f # {} /\ f \cap OkToFail = {}) <=> s.currentFailed # 1
      BY <1>5, <2>1 DEF OkToFail
    <2> QED
      BY <2>2, <2>3 DEF f, d
  <1> QED
    BY <1>1, <1>6, <1>7, <1>8, <1>9

LEMMA EndTestExit == ExitInv /\ EndTest => ExitInv'
  <1> SUFFICES ASSUME ExitInv, EndTest PROVE ExitInv'
    OBVIOUS
  <1> USE OptionsAssumption
  <1> DEFINE f == FlagsOf(cs, Tests[test].decor)
  <1>1. /\ pc = "finalize" /\ test' = test + 1 /\ cs' = finalizeTestCaseData(cs, Tests[test].decor)
        /\ pc' = IF opt.abort_after > 0 /\ cs'.assertsFailed >= opt.abort_after
                     THEN "end" ELSE "pick"
        /\ UNCHANGED <<opt, path, child, thrown, failures>>
    BY DEF EndTest, T
  <1>2. Running /\ ~Inside /\ ~Running' /\ ~Inside' /\ pc' \in {"end", "pick"}
    BY <1>1 DEF Running, Inside
  <1>3. /\ DOMAIN cs = Fields /\ test \in 1..Len(Tests) /\ test \in Nat
        /\ cs.testsFailed \in Nat /\ cs.assertsFailed \in Nat /\ cs.currentFailed \in Nat
        /\ failures \in [1..Len(Tests) -> Record] /\ opt.abort_after \in Int
    BY <1>2 DEF ExitInv, TypeInv, Record
  <1>4. /\ DOMAIN cs' = Fields
        /\ cs'.assertsFailed = cs.assertsFailed + cs.currentFailed
        /\ cs'.testsFailed = IF f # {} /\ f \cap OkToFail = {}
                               THEN cs.testsFailed + 1 ELSE cs.testsFailed
        /\ cs'.currentFailed = cs.currentFailed
    BY <1>1, <1>3, FinalizeDoes
  <1>5. (f # {} /\ f \cap OkToFail = {}) <=> ~AsDeclared(test)
    <2>1. failures[test] \in Record
      BY <1>3
    <2>2. /\ cs.flags \subseteq {"AssertFailure", "Exception", "TooManyFailedAsserts"}
          /\ cs.currentFailed = failures[test].asserts
          /\ cs.flags \cap {"AssertFailure", "TooManyFailedAsserts"} # {} => cs.currentFailed > 0
          /\ failures[test].thrown <=> "Exception" \in cs.flags
      BY <1>2 DEF ExitInv, FlagsInv
    <2> QED
      BY <1>3, <2>1, <2>2, Verdict
  <1> HIDE DEF f
  <1>6. cs'.testsFailed \in Nat /\ cs'.assertsFailed \in Nat /\ cs'.currentFailed \in Nat
        /\ (cs'.testsFailed > 0 <=> cs.testsFailed > 0 \/ ~AsDeclared(test))
    BY <1>3, <1>4, <1>5
  <1>7. TypeInv'
    BY <1>1, <1>2, <1>3, <1>4, <1>6 DEF ExitInv, TypeInv
  <1>8. AbortInv'
    BY <1>1, <1>2, <1>3, <1>6 DEF AbortInv
  <1>9. FlagsInv'
    BY <1>2 DEF FlagsInv
  <1>10. CountInv'
    <2>1. ~Stopped
      BY <1>1 DEF Stopped
    <2>2. /\ \A t \in 1..Len(Tests) : t > test => failures[t] = Untouched
          /\ cs.testsFailed > 0 <=> BadBefore(test)
      BY <2>1 DEF ExitInv, CountInv, BadBefore
    <2>3. \A t \in 1..Len(Tests) : t > test + 1 \/ t = test + 1 => t > test
      BY <1>3
    <2>4. \A t \in 1..Len(Tests) : t < test + 1 <=> t < test \/ t = test
      BY <1>3
    <2>5. Ran(test)
      BY <1>2 DEF ExitInv, FlagsInv, Ran
    <2>6. BadBefore(test + 1) <=> BadBefore(test) \/ ~AsDeclared(test)
      BY <1>3, <2>4, <2>5, Zenon DEF BadBefore
    <2>7. \A t : (Ran(t))' = Ran(t) /\ (AsDeclared(t))' = AsDeclared(t)
      BY <1>1, SameVerdict
    <2>8. (\E t \in 1..Len(Tests) : t < test' /\ (Ran(t))' /\ ~(AsDeclared(t))')
            <=> BadBefore(test + 1)
      BY <1>1, <2>7, Zenon DEF BadBefore
    <2>10. cs'.testsFailed > 0
             <=> (\E t \in 1..Len(Tests) : t < test' /\ (Ran(t))' /\ ~(AsDeclared(t))')
      BY <1>6, <2>2, <2>6, <2>8
    <2>11. \A t \in 1..Len(Tests) : t > test' \/ (t = test' /\ ~Running')
             => failures'[t] = Untouched
      BY <1>1, <2>2, <2>3
    <2> QED
      BY <2>10, <2>11, Zenon DEF CountInv, Untouched
  <1> QED
    BY <1>7, <1>8, <1>9, <1>10 DEF ExitInv

LEMMA EndsExit == ExitInv /\ (RunEnd \/ Crash \/ ReadPastEnd \/ UNCHANGED vars) => ExitInv'
  <1> SUFFICES ASSUME ExitInv, RunEnd \/ Crash \/ ReadPastEnd \/ UNCHANGED vars PROVE ExitInv'
    OBVIOUS
  <1>1. CASE RunEnd
    <2>1. /\ pc \in {"end", "pick"} /\ pc' = "over"
          /\ UNCHANGED <<opt, cs, test, path, child, thrown, failures>>
      BY <1>1 DEF RunEnd
    <2>2. ~Running /\ ~Running' /\ ~Inside' /\ pc' \notin {"assert", "last"} /\ ~Stopped
      BY <2>1 DEF Running, Inside, Stopped
    <2>3. TypeInv'
      BY <2>1, <2>2 DEF ExitInv, TypeInv
    <2>4. AbortInv' /\ FlagsInv'
      BY <2>1, <2>2 DEF AbortInv, FlagsInv
    <2>5. \A t : (Ran(t))' = Ran(t) /\ (AsDeclared(t))' = AsDeclared(t)
      BY <2>1, SameVerdict
    <2>6. /\ \A t \in 1..Len(Tests) : t > test \/ (t = test /\ ~Running) => failures[t] = Untouched
          /\ cs.testsFailed > 0 <=> BadBefore(test)
      BY <2>2 DEF ExitInv, CountInv, BadBefore
    <2>7. (\E t \in 1..Len(Tests) : t < test' /\ (Ran(t))' /\ ~(AsDeclared(t))') <=> BadBefore(test)
      BY <2>1, <2>5, Zenon DEF BadBefore
    <2>8. cs'.testsFailed > 0
            <=> (\E t \in 1..Len(Tests) : t < test' /\ (Ran(t))' /\ ~(AsDeclared(t))')
      BY <2>1, <2>6, <2>7
    <2>9. \A t \in 1..Len(Tests) : t > test' \/ (t = test' /\ ~Running') => failures'[t] = Untouched
      BY <2>1, <2>2, <2>6
    <2>10. CountInv'
      BY <2>8, <2>9, Zenon DEF CountInv, Untouched
    <2> QED
      BY <2>3, <2>4, <2>10 DEF ExitInv
  <1>2. CASE Crash
    <2> DEFINE s == [cs EXCEPT !.flags = @ \cup {"Crash"}, !.subcaseStack = <<>>]
    <2>1. /\ pc' \in {"killed", "killed late"} /\ pc \in {"assert", "last"}
          /\ cs' = finalizeTestCaseData(s, Tests[test].decor)
          /\ UNCHANGED <<opt, test, path, child, thrown, failures>>
      BY <1>2 DEF Crash, T, Asserts
    <2>2. ~Running' /\ ~Inside' /\ pc' \notin {"assert", "last"} /\ Stopped'
      BY <2>1 DEF Running, Inside, Stopped
    <2>3. /\ DOMAIN cs = Fields /\ cs.testsFailed \in Nat
          /\ cs.assertsFailed \in Nat /\ cs.currentFailed \in Nat
      BY DEF ExitInv, TypeInv
    <2>4. DOMAIN s = Fields /\ SameCounts(cs, s) /\ s.currentFailed = cs.currentFailed
      BY <2>3, CrashDoes
    <2> HIDE DEF s
    <2> DEFINE f == FlagsOf(s, Tests[test].decor)
    <2> HIDE DEF f
    <2>0. /\ DOMAIN cs' = Fields
          /\ cs'.assertsFailed = s.assertsFailed + s.currentFailed
          /\ cs'.testsFailed = IF f # {} /\ f \cap OkToFail = {}
                                 THEN s.testsFailed + 1 ELSE s.testsFailed
          /\ cs'.currentFailed = s.currentFailed
      BY <2>1, <2>4, FinalizeDoes DEF f
    <2>5. /\ DOMAIN cs' = Fields /\ cs'.testsFailed \in Nat
          /\ cs'.assertsFailed \in Nat /\ cs'.currentFailed \in Nat
      BY <2>0, <2>3, <2>4 DEF SameCounts
    <2>6. TypeInv'
      BY <2>1, <2>2, <2>5 DEF ExitInv, TypeInv
    <2>7. AbortInv' /\ FlagsInv' /\ CountInv'
      BY <2>1, <2>2 DEF AbortInv, FlagsInv, CountInv
    <2> QED
      BY <2>6, <2>7 DEF ExitInv
  <1>3. CASE UNCHANGED vars
    BY <1>3 DEF vars, where, ExitInv, TypeInv, AbortInv, FlagsInv, CountInv, Running, Inside,
                Stopped, Ran, AsDeclared, Wrong
  <1>4. CASE ReadPastEnd
    <2>1. pc' = "undefined" /\ UNCHANGED <<opt, cs, test, path, child, thrown, failures>>
      BY <1>4 DEF ReadPastEnd
    <2>2. ~Running' /\ ~Inside' /\ pc' \notin {"assert", "last"} /\ Stopped'
      BY <2>1 DEF Running, Inside, Stopped
    <2>3. TypeInv'
      BY <2>1, <2>2 DEF ExitInv, TypeInv
    <2>4. AbortInv' /\ FlagsInv' /\ CountInv'
      BY <2>1, <2>2 DEF AbortInv, FlagsInv, CountInv
    <2> QED
      BY <2>3, <2>4 DEF ExitInv
  <1> QED
    BY <1>1, <1>2, <1>3, <1>4

LEMMA ExitStep == ExitInv /\ [Next]_vars => ExitInv'
  BY RunStartExit, SkipExit, StartTestExit, StartPassExit, SubcaseExit, EndSubcaseExit,
     TurnsExit, FailsExit, ThrowsExit, EndPassExit, EndTestExit, EndsExit, Zenon
     DEF Next, Run, Over

\* The exit code of a run is 0 if and only if every test that was run did what
\* it says of itself: for every list of tests and their decorations, every tree
\* of subcases, every abort_after and every mixture of failed assertions and
\* exceptions over the passes.
THEOREM RunnerExitTells == Spec => []ExitTells
  <1>1. ExitInv => ExitTells
    <2> SUFFICES ASSUME ExitInv, pc = "over"
                 PROVE  exit = 0 <=> \A t \in 1..Len(Tests) : Ran(t) => AsDeclared(t)
      BY DEF ExitTells
    <2>1. ~Stopped /\ ~Running
      BY DEF Running, Inside, Stopped
    <2>2. test \in Nat /\ cs.testsFailed \in Nat
      BY OptionsAssumption DEF ExitInv, TypeInv
    <2>3. \A t \in 1..Len(Tests) : t > test \/ t = test => failures[t] = Untouched
      BY <2>1 DEF ExitInv, CountInv
    <2>4. \A t \in 1..Len(Tests) : t < test \/ t > test \/ t = test
      BY <2>2
    <2>5. ~Untouched.ran
      BY DEF Untouched
    <2>6. \A t \in 1..Len(Tests) : Ran(t) => t < test
      BY <2>3, <2>4, <2>5 DEF Ran
    <2>7. cs.testsFailed > 0 <=> BadBefore(test)
      BY <2>1 DEF ExitInv, CountInv, BadBefore
    <2>8. BadBefore(test) <=> ~(\A t \in 1..Len(Tests) : Ran(t) => AsDeclared(t))
      BY <2>6, Zenon DEF BadBefore
    <2>9. exit = 0 <=> ~(cs.testsFailed > 0)
      BY DEF exit
    <2> QED
      BY <2>7, <2>8, <2>9, Zenon
  <1> QED
    BY ExitInit, ExitStep, <1>1, PTL DEF Spec

-----------------------------------------------------------------------------
(***************************************************************************)
(* The elements of the XML reporter.                                       *)
(***************************************************************************)
LEMMA StartNested ==
    ASSUME NEW x, NEW n \in Nat, Nested(x, n), NEW name, name = ElementAt(n + 1)
    PROVE  Nested(startElement(x, name), n + 1) /\ startElement(x, name).suite = x.suite
  <1> DEFINE t == x.tags
             u == Append(t, name)
             y == [x EXCEPT !.tags = u]
  <1>0. name \in Tags
    BY DEF ElementAt, Tags
  <1>1. t \in Seq(Tags) /\ Len(t) = n /\ \A i \in 1..n : t[i] = ElementAt(i)
    BY DEF Nested
  <1>2. u \in Seq(Tags) /\ Len(u) = n + 1 /\ u[n + 1] = name /\ \A i \in 1..n : u[i] = t[i]
    <2> HIDE DEF t
    <2> QED
      BY <1>0, <1>1
  <1> HIDE DEF u
  <1>3. DOMAIN y = {"tags", "suite", "broken"} /\ y.tags = u
        /\ y.broken = FALSE /\ y.suite = x.suite
    BY DEF Nested
  <1>4. startElement(x, name) = y
    BY DEF startElement, u
  <1>5. \A i \in 1..(n + 1) : i \in 1..n \/ i = n + 1
    OBVIOUS
  <1> HIDE DEF y, t
  <1>6. \A i \in 1..(n + 1) : u[i] = ElementAt(i)
    BY <1>1, <1>2, <1>5
  <1> QED
    BY <1>2, <1>3, <1>4, <1>6 DEF Nested

LEMMA EndNested ==
    ASSUME NEW x, NEW n \in Nat, Nested(x, n + 1), NEW name, name = ElementAt(n + 1)
    PROVE  Nested(endElement(x, name), n) /\ endElement(x, name).suite = x.suite
  <1> DEFINE t == x.tags
             u == Front(t)
             b == Last(t) # name
             y == [x EXCEPT !.tags = u, !.broken = x.broken \/ b]
  <1>1. t \in Seq(Tags) /\ Len(t) = n + 1 /\ \A i \in 1..(n + 1) : t[i] = ElementAt(i)
    BY DEF Nested
  <1>2. u \in Seq(Tags) /\ Len(u) = n /\ \A i \in 1..n : u[i] = t[i]
    <2>1. u = SubSeq(t, 1, n)
      BY <1>1 DEF Front
    <2> HIDE DEF t, u
    <2>2. n <= Len(t)
      BY <1>1
    <2> QED
      BY <1>1, <2>1, <2>2
  <1>3. b = FALSE
    <2>1. Last(t) = t[n + 1] /\ n + 1 \in 1..(n + 1)
      BY <1>1 DEF Last
    <2> HIDE DEF t
    <2>2. Last(t) = name
      BY <1>1, <2>1
    <2> QED
      BY <2>2
  <1>4. t # <<>>
    <2> HIDE DEF t
    <2> QED
      BY <1>1
  <1> HIDE DEF u, b
  <1>5. DOMAIN y = {"tags", "suite", "broken"} /\ y.tags = u
        /\ y.broken = FALSE /\ y.suite = x.suite
    BY <1>3 DEF Nested
  <1>6. endElement(x, name) = y
    BY <1>4, Zenon DEF endElement, u, b
  <1> HIDE DEF y, t
  <1>7. \A i \in 1..n : u[i] = ElementAt(i)
    <2>1. \A i \in 1..n : i \in 1..(n + 1)
      OBVIOUS
    <2> QED
      BY <1>1, <1>2, <2>1
  <1> QED
    BY <1>2, <1>5, <1>6, <1>7 DEF Nested

LEMMA CaseStartNested ==
    ASSUME NEW x, Nested(x, Between(x)), NEW suite, suite # None
    PROVE  /\ Nested(test_case_start_impl(x, suite), 3)
           /\ test_case_start_impl(x, suite).suite = suite
  <1> DEFINE e == suite_element(x, suite)
             y == [e EXCEPT !.suite = suite]
  <1>0. ElementAt(1) = "doctest" /\ ElementAt(2) = "TestSuite" /\ ElementAt(3) = "TestCase"
    BY DEF ElementAt
  <1>1. Nested(e, 2)
    <2>1. CASE x.suite = suite
      <3>1. Nested(x, 2)
        BY <2>1 DEF Between
      <3> QED
        BY <2>1, <3>1 DEF suite_element
    <2>2. CASE x.suite # suite /\ x.suite = None
      <3>1. Nested(x, 1) /\ e = startElement(x, "TestSuite")
        BY <2>2 DEF Between, suite_element
      <3>2. Nested(startElement(x, "TestSuite"), 1 + 1)
        BY <1>0, <3>1, StartNested
      <3> QED
        BY <3>1, <3>2
    <2>3. CASE x.suite # suite /\ x.suite # None
      <3> DEFINE c == endElement(x, "TestSuite")
      <3>1. Nested(x, 1 + 1) /\ e = startElement(c, "TestSuite")
        BY <2>3 DEF Between, suite_element
      <3>2. Nested(c, 1)
        BY <1>0, <3>1, EndNested
      <3> HIDE DEF c
      <3>3. Nested(startElement(c, "TestSuite"), 1 + 1)
        BY <1>0, <3>2, StartNested
      <3> QED
        BY <3>1, <3>3
    <2> QED
      BY <2>1, <2>2, <2>3
  <1> HIDE DEF e
  <1>2. Nested(y, 2) /\ y.suite = suite
    BY <1>1 DEF Nested
  <1> HIDE DEF y
  <1>3. Nested(startElement(y, "TestCase"), 2 + 1) /\ startElement(y, "TestCase").suite = suite
    BY <1>0, <1>2, StartNested
  <1> QED
    BY <1>3 DEF test_case_start_impl, y, e

LEMMA SkippedNested ==
    ASSUME NEW x, Nested(x, Between(x)), NEW suite, suite # None
    PROVE  LET y == xml_test_case_skipped(x, suite) IN Nested(y, Between(y))
  <1> DEFINE z == test_case_start_impl(x, suite)
  <1>1. Nested(z, 2 + 1) /\ z.suite = suite
    BY CaseStartNested
  <1> HIDE DEF z
  <1>2. Nested(endElement(z, "TestCase"), 2) /\ endElement(z, "TestCase").suite = suite
    BY <1>1, EndNested DEF ElementAt
  <1> QED
    BY <1>2 DEF xml_test_case_skipped, z, Between

LEMMA RunEndNested ==
    ASSUME NEW x, Nested(x, Between(x))
    PROVE  Nested(xml_test_run_end(x), 0)
  <1> DEFINE y == IF x.suite = None THEN x ELSE endElement(x, "TestSuite")
  <1>1. Nested(y, 0 + 1)
    <2>1. CASE x.suite = None
      BY <2>1 DEF Between
    <2>2. CASE x.suite # None
      <3>1. Nested(x, 1 + 1)
        BY <2>2 DEF Between
      <3> QED
        BY <2>2, <3>1, EndNested DEF ElementAt
    <2> QED
      BY <2>1, <2>2
  <1> HIDE DEF y
  <1>2. Nested(endElement(y, "doctest"), 0)
    BY <1>1, EndNested DEF ElementAt
  <1> QED
    BY <1>2 DEF xml_test_run_end, y

\* f closes the elements of n subcases, one after another.
Closes(f, x, n) == f = [k \in 0..n |-> IF k = 0 THEN x ELSE xml_subcase_end(f[k - 1])]

LEMMA ClosesExists ==
    ASSUME NEW x, NEW n \in Nat
    PROVE  \E f : Closes(f, x, n)
  <1> DEFINE S == {k \in Nat : \E f : Closes(f, x, k)}
             Step(f, i) == IF i = 0 THEN x ELSE xml_subcase_end(f[i - 1])
  <1>1. 0 \in S
    <2> DEFINE f == [i \in 0..0 |-> x]
    <2>1. Closes(f, x, 0)
      BY DEF Closes
    <2> QED
      BY <2>1
  <1>2. ASSUME NEW k \in 0..(n - 1), k \in S PROVE k + 1 \in S
    <2>1. PICK f : Closes(f, x, k)
      BY <1>2
    <2> DEFINE g == [i \in 0..(k + 1) |-> IF i <= k THEN f[i] ELSE Step(f, i)]
    <2>2. \A i \in 0..k : f[i] = Step(f, i)
      BY <2>1 DEF Closes
    <2> HIDE DEF Step
    <2>3. \A i \in 0..k : g[i] = f[i]
      OBVIOUS
    <2>4. g[k + 1] = Step(f, k + 1)
      OBVIOUS
    <2>5. g = [i \in 0..(k + 1) |-> g[i]]
      OBVIOUS
    <2> HIDE DEF g
    <2>6. \A i \in 0..(k + 1) : g[i] = Step(g, i)
      <3> SUFFICES ASSUME NEW i \in 0..(k + 1) PROVE g[i] = Step(g, i)
        OBVIOUS
      <3>1. i # 0 => i - 1 \in 0..k
        OBVIOUS
      <3>2. Step(g, i) = Step(f, i)
        BY <2>3, <3>1 DEF Step
      <3>3. CASE i <= k
        BY <2>2, <2>3, <3>2, <3>3
      <3>4. CASE i = k + 1
        BY <2>4, <3>2, <3>4
      <3> QED
        BY <3>3, <3>4
    <2>7. Closes(g, x, k + 1)
      BY <2>5, <2>6 DEF Closes, Step
    <2> QED
      BY <2>7
  <1> HIDE DEF S
  <1>3. n \in S
    BY <1>1, <1>2, UpTo
  <1> QED
    BY <1>3 DEF S

\* An end that closes what it is not the end of, and one after that.
LEMMA EndBreaks ==
    ASSUME NEW x, NEW n \in Nat, Nested(x, n + 1), NEW name, name # ElementAt(n + 1)
    PROVE  Loose(endElement(x, name), n) /\ endElement(x, name).suite = x.suite
  <1> DEFINE t == x.tags
             u == Front(t)
             b == Last(t) # name
             y == [x EXCEPT !.tags = u, !.broken = x.broken \/ b]
  <1>1. t \in Seq(Tags) /\ Len(t) = n + 1 /\ \A i \in 1..(n + 1) : t[i] = ElementAt(i)
    BY DEF Nested
  <1>2. u \in Seq(Tags) /\ Len(u) <= n
    <2>1. u = SubSeq(t, 1, n)
      BY <1>1 DEF Front
    <2> HIDE DEF t, u
    <2>2. n <= Len(t)
      BY <1>1
    <2> QED
      BY <1>1, <2>1, <2>2
  <1>3. b = TRUE
    <2>1. Last(t) = t[n + 1] /\ n + 1 \in 1..(n + 1)
      BY <1>1 DEF Last
    <2> HIDE DEF t
    <2>2. Last(t) # name
      BY <1>1, <2>1
    <2> QED
      BY <2>2
  <1>4. t # <<>>
    <2> HIDE DEF t
    <2> QED
      BY <1>1
  <1> HIDE DEF u, b
  <1>5. DOMAIN y = {"tags", "suite", "broken"} /\ y.tags = u
        /\ y.broken = TRUE /\ y.suite = x.suite
    BY <1>3 DEF Nested
  <1>6. endElement(x, name) = y
    BY <1>4, Zenon DEF endElement, u, b
  <1> HIDE DEF y, t
  <1> QED
    BY <1>2, <1>5, <1>6 DEF Loose

LEMMA EndLoose ==
    ASSUME NEW x, NEW n \in Nat, NEW m \in Nat, n <= m + 1, Loose(x, n), NEW name
    PROVE  Loose(endElement(x, name), m) /\ endElement(x, name).suite = x.suite
  <1> DEFINE t == x.tags
             u == Front(t)
             b == Last(t) # name
             y == [x EXCEPT !.tags = u, !.broken = x.broken \/ b]
             z == [x EXCEPT !.broken = TRUE]
  <1>1. t \in Seq(Tags) /\ Len(t) <= n
    BY DEF Loose
  <1>2. CASE t = <<>>
    <2>1. DOMAIN z = {"tags", "suite", "broken"} /\ z.tags = t
          /\ z.broken = TRUE /\ z.suite = x.suite
      BY DEF Loose
    <2>2. endElement(x, name) = z
      BY <1>2 DEF endElement
    <2> HIDE DEF t, z
    <2>3. t \in Seq(Tags) /\ Len(t) <= m
      BY <1>1, <1>2
    <2> QED
      BY <2>1, <2>2, <2>3 DEF Loose
  <1>3. CASE t # <<>>
    <2>1. u \in Seq(Tags) /\ Len(u) <= m
      <3>1. u = SubSeq(t, 1, Len(t) - 1)
        BY DEF Front
      <3> HIDE DEF t, u
      <3>2. Len(t) \in Nat /\ Len(t) # 0
        BY <1>1, <1>3
      <3> QED
        BY <1>1, <3>1, <3>2
    <2> HIDE DEF u, b
    <2>2. DOMAIN y = {"tags", "suite", "broken"} /\ y.tags = u
          /\ y.broken = TRUE /\ y.suite = x.suite
      BY DEF Loose
    <2>3. endElement(x, name) = y
      BY <1>3, Zenon DEF endElement, u, b
    <2> HIDE DEF y, t
    <2> QED
      BY <2>1, <2>2, <2>3 DEF Loose
  <1> QED
    BY <1>2, <1>3

\* After a signal the subcases are closed, when those that are on the stack
\* are the ones that are open; with more on the stack the next end closes the
\* element of the test.
LEMMA EndsAllNested ==
    ASSUME NEW x, NEW m \in Nat, Len(cs.subcaseStack) = m, NEW n \in 0..m, Nested(x, n + 3)
    PROVE  /\ EndsAll(x).suite = x.suite
           /\ m = n => Nested(EndsAll(x), 3)
           /\ m > n => Loose(EndsAll(x), 2)
  <1> DEFINE f == CHOOSE f : Closes(f, x, m)
             S == {k \in Nat : /\ f[k].suite = x.suite
                               /\ k <= n => Nested(f[k], (n - k) + 3)
                               /\ k > n => Loose(f[k], 2)}
  <1>1. Closes(f, x, m)
    BY ClosesExists
  <1>2. EndsAll(x) = f[m]
    BY DEF EndsAll, Closes
  <1> HIDE DEF f
  <1>3. f[0] = x /\ \A k \in 0..(m - 1) : f[k + 1] = endElement(f[k], "SubCase")
    <2>1. f[0] = x
      BY <1>1 DEF Closes
    <2>2. ASSUME NEW k \in 0..(m - 1) PROVE f[k + 1] = endElement(f[k], "SubCase")
      <3>1. k + 1 \in 0..m /\ k + 1 # 0 /\ (k + 1) - 1 = k
        OBVIOUS
      <3> QED
        BY <1>1, <3>1 DEF Closes, xml_subcase_end
    <2> QED
      BY <2>1, <2>2
  <1>4. 0 \in S
    <2>1. (n - 0) + 3 = n + 3 /\ ~(0 > n)
      OBVIOUS
    <2> QED
      BY <1>3, <2>1
  <1>5. ASSUME NEW k \in 0..(m - 1), k \in S PROVE k + 1 \in S
    <2> DEFINE y == f[k]
               z == endElement(y, "SubCase")
    <2>1. /\ f[k + 1] = z /\ y.suite = x.suite /\ k + 1 \in Nat
          /\ k <= n => Nested(y, (n - k) + 3)
          /\ k > n => Loose(y, 2)
      BY <1>3, <1>5
    <2> HIDE DEF y
    <2>2. CASE k < n
      <3> DEFINE l == (n - (k + 1)) + 3
      <3>1. l \in Nat /\ (n - k) + 3 = l + 1 /\ ElementAt(l + 1) = "SubCase"
            /\ k <= n /\ ~(k + 1 > n)
        BY <2>2 DEF ElementAt
      <3>2. Nested(y, l + 1)
        BY <2>1, <3>1
      <3> HIDE DEF l
      <3>3. Nested(z, l) /\ z.suite = y.suite
        BY <3>1, <3>2, EndNested
      <3> QED
        BY <2>1, <3>1, <3>3 DEF l
    <2>3. CASE k = n
      <3>1. ElementAt(2 + 1) # "SubCase" /\ (n - k) + 3 = 2 + 1 /\ k <= n /\ ~(k + 1 <= n)
        BY <2>3 DEF ElementAt
      <3>2. Nested(y, 2 + 1)
        BY <2>1, <3>1
      <3>3. Loose(z, 2) /\ z.suite = y.suite
        BY <3>1, <3>2, EndBreaks
      <3> QED
        BY <2>1, <3>1, <3>3
    <2>4. CASE k > n
      <3>1. Loose(y, 2) /\ ~(k + 1 <= n)
        BY <2>1, <2>4
      <3>2. Loose(z, 2) /\ z.suite = y.suite
        BY <3>1, EndLoose
      <3> QED
        BY <2>1, <3>1, <3>2
    <2>5. k < n \/ k = n \/ k > n
      OBVIOUS
    <2> QED
      BY <2>2, <2>3, <2>4, <2>5
  <1> HIDE DEF S
  <1>6. m \in S
    <2>1. \A k \in 0..(m - 1) : k \in S => k + 1 \in S
      BY <1>5
    <2>2. \A k \in 0..m : k \in S
      BY <1>4, <2>1, UpTo
    <2> QED
      BY <2>2
  <1>7. m = n => m <= n /\ (n - m) + 3 = 3
    OBVIOUS
  <1> QED
    BY <1>2, <1>6, <1>7 DEF S

\* A step to a place inside of a test.
LEMMA XmlRunning ==
    ASSUME TypeInv', Running', xml'.suite # None, Nested(xml', Len(path') + 3),
           Inside' => cs'.depth = Len(path') /\ Stacked',
           pc' \notin {"assert", "body"} => path' = <<>>
    PROVE  XmlInv'
  <1>1. ~opt'.query
    BY DEF TypeInv
  <1>2. pc' \notin {"start", "pick", "end", "over", "killed", "killed late", "undefined"}
    BY DEF Running, Inside
  <1> QED
    BY <1>1, <1>2 DEF XmlInv, Nested, ElementAt, Tags

\* A step that neither moves in the tree of subcases nor writes.
LEMMA XmlKept ==
    ASSUME TypeInv', XmlInv, Running, Running', xml' = xml, path' = path,
           Inside /\ Inside' => cs'.depth = cs.depth /\ cs'.subcaseStack = cs.subcaseStack,
           Inside' => Inside \/ (cs'.depth = Len(path) /\ Stacked'),
           pc' \notin {"assert", "body"} => path = <<>>
    PROVE  XmlInv'
  <1>1. xml.suite # None /\ Nested(xml, Len(path) + 3)
    BY DEF XmlInv
  <1>2. Inside' => cs'.depth = Len(path') /\ Stacked'
    BY DEF XmlInv, Stacked
  <1> QED
    BY <1>1, <1>2, XmlRunning

LEMMA XmlInit == Init => XmlInv
  <1> SUFFICES ASSUME Init PROVE XmlInv
    OBVIOUS
  <1>1. pc = "start" /\ path = <<>> /\ xml = [tags |-> <<>>, suite |-> None, broken |-> FALSE]
    BY DEF Init, XmlWriter
  <1>2. Nested(xml, 0) /\ xml.suite = None
    <2>1. xml.tags = <<>> /\ xml.suite = None /\ xml.broken = FALSE
          /\ DOMAIN xml = {"tags", "suite", "broken"}
      BY <1>1
    <2>2. <<>> \in Seq(Tags) /\ Len(<<>>) = 0 /\ \A i \in 1..0 : FALSE
      OBVIOUS
    <2> QED
      BY <2>1, <2>2 DEF Nested
  <1>3. ~Running /\ ~Inside
    BY <1>1 DEF Running, Inside
  <1> QED
    BY <1>1, <1>2, <1>3 DEF XmlInv

LEMMA RunStartXml == XmlInv /\ RunStart => XmlInv'
  <1> SUFFICES ASSUME XmlInv, RunStart PROVE XmlInv'
    OBVIOUS
  <1>1. /\ pc = "start" /\ pc' = "pick" /\ path' = path /\ opt' = opt
        /\ xml' = IF opt.query THEN xml ELSE xml_test_run_start(xml)
    BY DEF RunStart
  <1>2. Nested(xml, 0) /\ xml.suite = None /\ path = <<>>
    BY <1>1 DEF XmlInv, Stopped
  <1>3. ~Running' /\ ~Inside'
    BY <1>1 DEF Running, Inside
  <1>4. Nested(startElement(xml, "doctest"), 0 + 1) /\ startElement(xml, "doctest").suite = None
    BY <1>2, StartNested DEF ElementAt
  <1>5. ~opt.query => Nested(xml', Between(xml'))
    BY <1>1, <1>4 DEF xml_test_run_start, Between
  <1>6. opt.query => Nested(xml', 0) /\ xml'.suite = None
    BY <1>1, <1>2
  <1> HIDE DEF Running, Inside
  <1> QED
    BY <1>1, <1>2, <1>3, <1>5, <1>6, Zenon DEF XmlInv, Nested, Between, ElementAt, Tags

LEMMA SkipXml == ExitInv /\ XmlInv /\ Skip => XmlInv'
  <1> SUFFICES ASSUME ExitInv, XmlInv, Skip PROVE XmlInv'
    OBVIOUS
  <1>1. /\ pc = "pick" /\ pc' = pc /\ path' = path /\ opt' = opt /\ test <= Len(Tests)
        /\ xml' = IF opt.query THEN xml ELSE xml_test_case_skipped(xml, Tests[test].suite)
    BY DEF Skip, T
  <1>2. test \in 1..Len(Tests)
    BY <1>1, OptionsAssumption DEF ExitInv, TypeInv
  <1>3. Tests[test].suite # None
    BY <1>2, TestsAssumption
  <1>4. ~Running' /\ ~Inside' /\ path = <<>>
    BY <1>1 DEF Running, Inside, XmlInv, Stopped
  <1>5. ~opt.query => Nested(xml', Between(xml'))
    <2>1. SUFFICES ASSUME ~opt.query PROVE Nested(xml', Between(xml'))
      OBVIOUS
    <2>2. Nested(xml, Between(xml))
      BY <1>1, <2>1 DEF XmlInv
    <2> QED
      BY <1>1, <1>3, <2>1, <2>2, SkippedNested
  <1>6. opt.query => Nested(xml', 0) /\ xml'.suite = None
    BY <1>1 DEF XmlInv
  <1> QED
    BY <1>1, <1>4, <1>5, <1>6, Zenon DEF XmlInv, Nested, Between, ElementAt, Tags

LEMMA StartTestXml == ExitInv /\ ExitInv' /\ XmlInv /\ StartTest => XmlInv'
  <1> SUFFICES ASSUME ExitInv, ExitInv', XmlInv, StartTest PROVE XmlInv'
    OBVIOUS
  <1>1. /\ pc = "pick" /\ pc' = "pass" /\ path' = path /\ ~opt.query /\ test <= Len(Tests)
        /\ xml' = test_case_start_impl(xml, Tests[test].suite)
    BY DEF StartTest, T, xml_test_case_start
  <1>2. test \in 1..Len(Tests)
    BY <1>1, OptionsAssumption DEF ExitInv, TypeInv
  <1>3. Tests[test].suite # None
    BY <1>2, TestsAssumption
  <1>4. Running' /\ ~Inside' /\ path = <<>> /\ Nested(xml, Between(xml))
    BY <1>1 DEF Running, Inside, XmlInv, Stopped
  <1>5. Nested(xml', 3) /\ xml'.suite # None
    BY <1>1, <1>3, <1>4, CaseStartNested
  <1>6. Len(path') + 3 = 3
    BY <1>1, <1>4
  <1> QED
    BY <1>1, <1>4, <1>5, <1>6, XmlRunning DEF ExitInv

LEMMA StartPassXml == ExitInv /\ ExitInv' /\ XmlInv /\ StartPass => XmlInv'
  <1> SUFFICES ASSUME ExitInv, ExitInv', XmlInv, StartPass PROVE XmlInv'
    OBVIOUS
  <1>1. /\ pc = "pass" /\ pc' = "assert" /\ path' = <<>> /\ xml' = xml
        /\ cs' = [cs EXCEPT !.reachedLeaf = FALSE, !.subcaseStack = <<>>, !.depth = 0,
                            !.shouldLog = TRUE, !.pass = @ + 1]
    BY DEF StartPass
  <1>2. DOMAIN cs = Fields
    BY DEF ExitInv, TypeInv
  <1>3. cs'.depth = 0 /\ cs'.subcaseStack = <<>>
    BY <1>1, <1>2, StartPassDoes
  <1>4. Running /\ Running' /\ path = <<>> /\ ~Inside
    BY <1>1 DEF Running, Inside, XmlInv, Stopped
  <1>5. Len(path) = 0
    BY <1>4
  <1>6. Stacked'
    <2>1. <<>> \in Seq(Seq(Nat)) /\ 0 <= Len(<<>>)
      OBVIOUS
    <2> QED
      BY <1>3, <2>1 DEF Stacked
  <1> QED
    BY <1>1, <1>3, <1>4, <1>5, <1>6, XmlKept DEF ExitInv

LEMMA SubcaseXml == ExitInv /\ ExitInv' /\ XmlInv /\ Subcase => XmlInv'
  <1> SUFFICES ASSUME ExitInv, ExitInv', XmlInv, Subcase PROVE XmlInv'
    OBVIOUS
  <1> DEFINE sig == Append(path, child)
             v == IF GoesDown(sig) THEN Append(cs.subcaseStack, sig) ELSE cs.subcaseStack
             w == Append(SubSeq(cs.subcaseStack, 1, cs.depth), sig)
             n == Len(path)
  <1>1. pc = "body" /\ Running /\ Inside
    BY DEF Subcase, Running, Inside
  <1>2. DOMAIN cs = Fields /\ path \in Seq(Nat) /\ child \in Nat
    BY DEF ExitInv, TypeInv
  <1>3. n \in Nat /\ Len(sig) = n + 1
    BY <1>2
  <1>4. cs.depth = n /\ Nested(xml, n + 3) /\ xml.suite # None /\ Stacked
    BY <1>1 DEF XmlInv
  <1>5. CASE GoesDown(sig) \/ Reentered(sig)
    <2>1. cs' = [cs EXCEPT !.depth = @ + 1, !.subcaseStack = v] /\ path' = sig
          /\ pc' = "assert" /\ xml' = startElement(xml, "SubCase")
      BY <1>5 DEF Subcase, xml_subcase_start
    <2>0. v \in Seq(Seq(Nat)) /\ n + 1 <= Len(v)
      <3> DEFINE c == cs.subcaseStack
      <3>1. c \in Seq(Seq(Nat)) /\ n <= Len(c) /\ sig \in Seq(Nat)
        BY <1>2, <1>4 DEF Stacked
      <3>2. CASE GoesDown(sig)
        <4>1. v = Append(c, sig)
          BY <3>2
        <4> HIDE DEF c, sig, n, v
        <4> QED
          BY <1>3, <3>1, <4>1
      <3>3. CASE ~GoesDown(sig)
        <4>1. v = c
          BY <3>3
        <4>2. ~PastEnd /\ cs.reachedLeaf
          BY <1>5, <3>3 DEF Subcase, Reentered
        <4>3. ~(n >= Len(c))
          BY <1>4, <4>2 DEF PastEnd
        <4> HIDE DEF c, sig, n, v
        <4> QED
          BY <1>3, <3>1, <4>1, <4>3
      <3> QED
        BY <3>2, <3>3
    <2> HIDE DEF v, sig, n
    <2>2. cs'.depth = n + 1 /\ Stacked'
      <3>1. cs'.depth = n + 1 /\ cs'.subcaseStack = v
        BY <1>2, <1>4, <2>1, DownDoes
      <3> QED
        BY <2>0, <3>1 DEF Stacked
    <2>3. n + 3 \in Nat /\ ElementAt((n + 3) + 1) = "SubCase" /\ (n + 3) + 1 = (n + 1) + 3
      BY <1>3 DEF ElementAt
    <2>4. Nested(xml', (n + 3) + 1) /\ xml'.suite = xml.suite
      BY <1>4, <2>1, <2>3, StartNested
    <2>5. Running' /\ Inside'
      BY <2>1 DEF Running, Inside
    <2>6. Len(path') = n + 1
      BY <1>3, <2>1
    <2>7. Nested(xml', Len(path') + 3)
      BY <2>3, <2>4, <2>6
    <2> QED
      BY <1>4, <2>1, <2>2, <2>4, <2>5, <2>6, <2>7, XmlRunning DEF ExitInv
  <1>6. CASE ~(GoesDown(sig) \/ Reentered(sig))
    <2>1. /\ cs' = [cs EXCEPT !.nextSubcaseStack = w] \/ cs' = cs
          /\ path' = path /\ pc' = pc /\ xml' = xml
      BY <1>6 DEF Subcase
    <2> HIDE DEF w, sig, n
    <2>2. cs'.depth = cs.depth /\ cs'.subcaseStack = cs.subcaseStack
      BY <1>2, <2>1, NextDoes
    <2>3. Running' /\ Inside'
      BY <1>1, <2>1 DEF Running, Inside
    <2> QED
      BY <1>1, <2>1, <2>2, <2>3, XmlKept DEF ExitInv
  <1> QED
    BY <1>5, <1>6

LEMMA EndSubcaseXml == ExitInv /\ ExitInv' /\ XmlInv /\ EndSubcase => XmlInv'
  <1> SUFFICES ASSUME ExitInv, ExitInv', XmlInv, EndSubcase PROVE XmlInv'
    OBVIOUS
  <1> DEFINE log == thrown # None /\ cs.shouldLog
             n == Len(path) - 1
  <1>1. /\ pc = "body" /\ pc' = pc /\ path # <<>>
        /\ cs' = [Leave(cs) EXCEPT !.shouldLog = @ /\ ~log]
        /\ path' = Front(path) /\ xml' = endElement(xml, "SubCase")
    BY DEF EndSubcase, xml_subcase_end
  <1>2. DOMAIN cs = Fields /\ path \in Seq(Nat)
    BY DEF ExitInv, TypeInv
  <1>3. cs'.depth = cs.depth - 1 /\ cs'.subcaseStack = cs.subcaseStack
    <2> HIDE DEF log
    <2> QED
      BY <1>1, <1>2, LeaveDoes
  <1>4. n \in Nat /\ Len(path) = n + 1 /\ Len(path') = n
    BY <1>1, <1>2, FrontFacts
  <1>5. Running /\ Inside /\ Running' /\ Inside'
    BY <1>1 DEF Running, Inside
  <1>6. cs.depth = n + 1 /\ Nested(xml, (n + 1) + 3) /\ xml.suite # None /\ Stacked
    BY <1>4, <1>5 DEF XmlInv
  <1> HIDE DEF n
  <1>7. n + 3 \in Nat /\ ElementAt((n + 3) + 1) = "SubCase" /\ (n + 1) + 3 = (n + 3) + 1
    BY <1>4 DEF ElementAt
  <1>8. Nested(xml', n + 3) /\ xml'.suite = xml.suite
    BY <1>1, <1>6, <1>7, EndNested
  <1>9. cs'.depth = n /\ Stacked'
    <2>1. cs.subcaseStack \in Seq(Seq(Nat)) /\ n + 1 <= Len(cs.subcaseStack)
      BY <1>6 DEF Stacked
    <2>2. n <= Len(cs.subcaseStack)
      BY <1>4, <2>1
    <2> QED
      BY <1>3, <1>4, <1>6, <2>1, <2>2 DEF Stacked
  <1> QED
    BY <1>1, <1>4, <1>5, <1>6, <1>8, <1>9, XmlRunning DEF ExitInv

LEMMA TurnsXml ==
    ExitInv /\ ExitInv' /\ XmlInv /\ (NextTurn \/ LastAssert \/ Passes \/ Fails \/ Throws)
      => XmlInv'
  <1> SUFFICES ASSUME ExitInv, ExitInv', XmlInv,
                      NextTurn \/ LastAssert \/ Passes \/ Fails \/ Throws
               PROVE  XmlInv'
    OBVIOUS
  <1>1. DOMAIN cs = Fields
    BY DEF ExitInv, TypeInv
  <1>2. /\ xml' = xml /\ path' = path
        /\ pc \in {"assert", "body", "last"} /\ pc' \in {"body", "last", "passed"}
        /\ pc' # "body" => pc = "last" \/ path = <<>>
    BY DEF NextTurn, LastAssert, Passes, Fails, Throws, After, Asserts
  <1>3. cs'.depth = cs.depth /\ cs'.subcaseStack = cs.subcaseStack
    <2>1. CASE NextTurn \/ LastAssert \/ Throws
      BY <2>1 DEF NextTurn, LastAssert, Throws
    <2>2. CASE Passes
      BY <1>1, <2>2, AddsDo DEF Passes
    <2>3. CASE Fails
      <3>1. \/ cs' = addFailedAssert(addAssert(cs))
            \/ cs' = [addFailedAssert(addAssert(cs)) EXCEPT !.shouldLog = FALSE]
        BY <2>3, Zenon DEF Fails
      <3> QED
        BY <1>1, <3>1, AddsDo
    <2> QED
      BY <2>1, <2>2, <2>3
  <1>4. Running /\ Inside /\ Running' /\ Inside'
    BY <1>2 DEF Running, Inside
  <1>5. pc' \notin {"assert", "body"} => path = <<>>
    BY <1>2 DEF XmlInv, Stopped
  <1> QED
    BY <1>2, <1>3, <1>4, <1>5, XmlKept DEF ExitInv

LEMMA EndPassXml == ExitInv /\ ExitInv' /\ XmlInv /\ EndPass => XmlInv'
  <1> SUFFICES ASSUME ExitInv, ExitInv', XmlInv, EndPass PROVE XmlInv'
    OBVIOUS
  <1>1. /\ pc \in {"passed", "body"} /\ (pc = "body" => path = <<>>)
        /\ xml' = xml /\ path' = path /\ pc' \in {"pass", "finalize"}
    BY DEF EndPass
  <1>2. path = <<>>
    BY <1>1 DEF XmlInv, Stopped
  <1>3. Running /\ Running' /\ Inside /\ ~Inside'
    BY <1>1 DEF Running, Inside
  <1> QED
    BY <1>1, <1>2, <1>3, XmlKept DEF ExitInv

LEMMA EndTestXml == ExitInv /\ XmlInv /\ EndTest => XmlInv'
  <1> SUFFICES ASSUME ExitInv, XmlInv, EndTest PROVE XmlInv'
    OBVIOUS
  <1>1. /\ pc = "finalize" /\ pc' \in {"pick", "end"} /\ path' = path /\ opt' = opt
        /\ xml' = endElement(xml, "TestCase")
    BY DEF EndTest, xml_test_case_end
  <1>2. Running /\ ~Running' /\ ~Inside' /\ ~Inside
    BY <1>1 DEF Running, Inside
  <1>3. ~opt.query /\ path = <<>> /\ xml.suite # None /\ Nested(xml, Len(path) + 3)
    BY <1>1, <1>2 DEF ExitInv, TypeInv, XmlInv, Stopped
  <1>4. Len(path) + 3 = 2 + 1
    BY <1>3
  <1>5. Nested(xml', 2) /\ xml'.suite # None
    BY <1>1, <1>3, <1>4, EndNested DEF ElementAt
  <1>6. Nested(xml', Between(xml'))
    BY <1>5 DEF Between
  <1> QED
    BY <1>1, <1>2, <1>3, <1>6 DEF XmlInv, Nested, Between, ElementAt, Tags

LEMMA RunEndXml == XmlInv /\ RunEnd => XmlInv'
  <1> SUFFICES ASSUME XmlInv, RunEnd PROVE XmlInv'
    OBVIOUS
  <1>1. /\ pc \in {"pick", "end"} /\ pc' = "over" /\ opt' = opt
        /\ xml' = IF opt.query THEN xml_report_query(xml) ELSE xml_test_run_end(xml)
    BY DEF RunEnd
  <1>2. ~Running' /\ ~Inside'
    BY <1>1 DEF Running, Inside
  <1>3. CASE opt.query
    <2> DEFINE y == startElement(xml, "doctest")
    <2>1. Nested(xml, 0) /\ xml.suite = None
      BY <1>3 DEF XmlInv
    <2>2. Nested(y, 0 + 1) /\ y.suite = None
      BY <2>1, StartNested DEF ElementAt
    <2> HIDE DEF y
    <2>3. Nested(endElement(y, "doctest"), 0) /\ endElement(y, "doctest").suite = y.suite
      <3>1. Nested(y, 0 + 1) /\ 0 \in Nat /\ "doctest" = ElementAt(0 + 1)
        BY <2>2 DEF ElementAt
      <3> QED
        BY <3>1, EndNested, Zenon
    <2>4. xml' = endElement(y, "doctest")
      BY <1>1, <1>3 DEF xml_report_query, xml_test_run_start, y
    <2>5. Nested(xml', 0) /\ xml'.suite = None
      BY <2>2, <2>3, <2>4
    <2> QED
      BY <1>1, <1>2, <1>3, <2>5 DEF XmlInv, Nested, Between, ElementAt, Tags
  <1>4. CASE ~opt.query
    <2>1. Nested(xml, Between(xml))
      BY <1>1, <1>4 DEF XmlInv
    <2>2. Nested(xml', 0)
      BY <1>1, <1>4, <2>1, RunEndNested
    <2> QED
      BY <1>1, <1>2, <1>4, <2>2 DEF XmlInv, Nested, Between, ElementAt, Tags
  <1> QED
    BY <1>3, <1>4

LEMMA CrashXml == ExitInv /\ XmlInv /\ Crash => XmlInv'
  <1> SUFFICES ASSUME ExitInv, XmlInv, Crash PROVE XmlInv'
    OBVIOUS
  <1> DEFINE n == Len(path)
             m == Len(cs.subcaseStack)
             e == EndsAll(xml)
  <1>1. /\ pc \in {"assert", "last"} /\ opt' = opt
        /\ pc' = IF m > cs.depth THEN "killed late" ELSE "killed"
        /\ xml' = xml_test_run_end(endElement(e, "TestCase"))
    BY DEF Crash, Asserts, xml_test_case_end
  <1>2. Running /\ Inside /\ ~Running' /\ ~Inside' /\ Stopped'
    BY <1>1 DEF Running, Inside, Stopped
  <1>3. /\ cs.depth = n /\ Nested(xml, n + 3) /\ xml.suite # None /\ ~opt.query
        /\ path \in Seq(Nat) /\ Stacked
    BY <1>2 DEF ExitInv, TypeInv, XmlInv
  <1>4. n \in Nat /\ m \in Nat /\ n \in 0..m
    <2>1. n \in Nat
      BY <1>3
    <2>2. m \in Nat /\ n <= m
      BY <1>3 DEF Stacked
    <2> HIDE DEF n, m
    <2> QED
      BY <2>1, <2>2
  <1>5. /\ e.suite = xml.suite
        /\ m = n => Nested(e, 3)
        /\ m > n => Loose(e, 2)
    <2>1. Len(cs.subcaseStack) = m
      OBVIOUS
    <2> HIDE DEF n, m, e
    <2> QED
      BY <1>3, <1>4, <2>1, EndsAllNested DEF e
  <1> HIDE DEF n, m, e
  <1> DEFINE y == endElement(e, "TestCase")
  <1>6. CASE m = n
    <2>1. pc' = "killed"
      <3>1. ~(m > cs.depth)
        BY <1>3, <1>4, <1>6
      <3> QED
        BY <1>1, <3>1
    <2>0. Nested(e, 2 + 1) /\ e.suite # None
      BY <1>3, <1>5, <1>6
    <2>2. Nested(y, 2) /\ y.suite # None
      BY <2>0, EndNested DEF ElementAt
    <2> HIDE DEF y
    <2>3. Nested(y, Between(y))
      BY <2>2 DEF Between
    <2>4. Nested(xml', 0)
      BY <1>1, <2>3, RunEndNested DEF y
    <2> QED
      BY <1>1, <1>2, <1>3, <2>1, <2>4
         DEF XmlInv, Nested, Loose, Between, ElementAt, Tags
  <1>7. CASE m > n
    <2>1. Loose(e, 2) /\ e.suite # None /\ pc' = "killed late"
      BY <1>1, <1>3, <1>5, <1>7
    <2>2. Loose(y, 1) /\ y.suite # None
      <3>1. 2 \in Nat /\ 1 \in Nat /\ 2 <= 1 + 1
        OBVIOUS
      <3>2. Loose(y, 1) /\ y.suite = e.suite
        BY <2>1, <3>1, EndLoose
      <3> QED
        BY <2>1, <3>2
    <2> HIDE DEF y
    <2> DEFINE z == endElement(y, "TestSuite")
    <2>3. Loose(z, 0)
      BY <2>2, EndLoose
    <2> HIDE DEF z
    <2>4. Loose(endElement(z, "doctest"), 0)
      BY <2>3, EndLoose
    <2>5. xml' = endElement(z, "doctest")
      BY <1>1, <2>2 DEF xml_test_run_end, y, z
    <2>6. Loose(xml', 0)
      BY <2>4, <2>5
    <2> QED
      BY <1>1, <1>2, <1>3, <2>1, <2>6
         DEF XmlInv, Nested, Loose, Between, ElementAt, Tags
  <1>8. m = n \/ m > n
    BY <1>4
  <1> QED
    BY <1>6, <1>7, <1>8

LEMMA ReadPastEndXml == ExitInv /\ XmlInv /\ ReadPastEnd => XmlInv'
  <1> SUFFICES ASSUME ExitInv, XmlInv, ReadPastEnd PROVE XmlInv'
    OBVIOUS
  <1>1. pc = "body" /\ pc' = "undefined" /\ opt' = opt /\ xml' = xml /\ path' = path
    BY DEF ReadPastEnd
  <1>2. Running /\ ~Running' /\ ~Inside' /\ Stopped'
    BY <1>1 DEF Running, Inside, Stopped
  <1>3. Nested(xml, Len(path) + 3) /\ ~opt.query
    BY <1>2 DEF ExitInv, TypeInv, XmlInv
  <1> QED
    BY <1>1, <1>2, <1>3 DEF XmlInv, Nested, Loose, Between, ElementAt, Tags

LEMMA XmlStep == ExitInv /\ ExitInv' /\ XmlInv /\ [Next]_vars => XmlInv'
  <1> SUFFICES ASSUME ExitInv, ExitInv', XmlInv, [Next]_vars PROVE XmlInv'
    OBVIOUS
  <1>1. CASE UNCHANGED vars
    BY <1>1 DEF vars, where, XmlInv, Nested, Loose, Stacked, Between, ElementAt, Tags, Running,
                Inside, Stopped
  <1> QED
    BY <1>1, RunStartXml, SkipXml, StartTestXml, StartPassXml, SubcaseXml, EndSubcaseXml, TurnsXml,
       EndPassXml, EndTestXml, RunEndXml, CrashXml, ReadPastEndXml, Zenon DEF Next, Run, Over

-----------------------------------------------------------------------------
(***************************************************************************)
(* The cases of the JUnit reporter.                                        *)
(***************************************************************************)
\* What a case counts for test u.
FailuresOf(c, u) == IF c.test = u THEN c.failures ELSE 0
ErrorsOf(c, u)   == IF c.test = u THEN c.errors ELSE 0

\* k has n + 1 cases, and the first n are those of j.
Follows(j, k, n) ==
    /\ j.cases \in Seq(JCases) /\ k.cases \in Seq(JCases) /\ n \in Nat
    /\ Len(k.cases) = n + 1 /\ (Len(j.cases) = n \/ Len(j.cases) = n + 1)
    /\ \A i \in 1..n : k.cases[i] = j.cases[i]

\* Their sums then differ by the last case.
Grows(j, k, n, u) ==
    /\ Sum(Failures(j, u)) \in Nat /\ Sum(Errors(j, u)) \in Nat
    /\ Len(j.cases) = n =>
         /\ Sum(Failures(k, u)) = Sum(Failures(j, u)) + FailuresOf(k.cases[n + 1], u)
         /\ Sum(Errors(k, u)) = Sum(Errors(j, u)) + ErrorsOf(k.cases[n + 1], u)
    /\ Len(j.cases) = n + 1 =>
         /\ Sum(Failures(k, u)) + FailuresOf(j.cases[n + 1], u)
              = Sum(Failures(j, u)) + FailuresOf(k.cases[n + 1], u)
         /\ Sum(Errors(k, u)) + ErrorsOf(j.cases[n + 1], u)
              = Sum(Errors(j, u)) + ErrorsOf(k.cases[n + 1], u)

LEMMA CaseSums ==
    ASSUME NEW j, NEW k, NEW n, Follows(j, k, n), NEW u
    PROVE  Grows(j, k, n, u)
  <1> DEFINE s == j.cases
             r == k.cases
             l == Len(s)
             fs == [i \in 1..l |-> FailuresOf(s[i], u)]
             es == [i \in 1..l |-> ErrorsOf(s[i], u)]
             fr == [i \in 1..(n + 1) |-> FailuresOf(r[i], u)]
             er == [i \in 1..(n + 1) |-> ErrorsOf(r[i], u)]
  <1>0. /\ j.cases \in Seq(JCases) /\ k.cases \in Seq(JCases) /\ n \in Nat
        /\ Len(k.cases) = n + 1 /\ (Len(j.cases) = n \/ Len(j.cases) = n + 1)
        /\ \A i \in 1..n : k.cases[i] = j.cases[i]
    BY DEF Follows
  <1>1. /\ Failures(j, u) = fs /\ Errors(j, u) = es
        /\ Failures(k, u) = fr /\ Errors(k, u) = er
    BY <1>0 DEF Failures, Errors, FailuresOf, ErrorsOf
  <1>2. \A c \in JCases : FailuresOf(c, u) \in Nat /\ ErrorsOf(c, u) \in Nat
    BY DEF JCases, FailuresOf, ErrorsOf
  <1>3. n \in Nat /\ l \in Nat /\ (l = n \/ l = n + 1)
    BY <1>0
  <1>4. (\A i \in 1..l : s[i] \in JCases) /\ (\A i \in 1..(n + 1) : r[i] \in JCases)
    BY <1>0
  <1> HIDE DEF l, s, r
  <1>5. fs \in Seq(Nat) /\ es \in Seq(Nat) /\ Len(fs) = l /\ Len(es) = l
    <2>1. fs \in Seq(Nat) /\ Len(fs) = l
      BY <1>2, <1>3, <1>4
    <2>2. es \in Seq(Nat) /\ Len(es) = l
      BY <1>2, <1>3, <1>4
    <2> QED
      BY <2>1, <2>2
  <1>6. fr \in Seq(Nat) /\ er \in Seq(Nat) /\ Len(fr) = n + 1 /\ Len(er) = n + 1
    BY <1>2, <1>3, <1>4
  <1>7. \A i \in 1..n : i \in 1..l /\ i \in 1..(n + 1)
    BY <1>3
  <1>8. \A i \in 1..n : fr[i] = fs[i] /\ er[i] = es[i]
    BY <1>0, <1>7 DEF s, r
  <1>9. /\ fr[n + 1] = FailuresOf(r[n + 1], u) /\ er[n + 1] = ErrorsOf(r[n + 1], u)
        /\ l = n + 1 => /\ fs[n + 1] = FailuresOf(s[n + 1], u)
                        /\ es[n + 1] = ErrorsOf(s[n + 1], u)
    BY <1>3
  <1> HIDE DEF fs, es, fr, er
  <1>10. n <= l
    BY <1>3
  <1>11. Sum(fs) \in Nat /\ Sum(es) \in Nat
    BY <1>5, SumNat
  <1>12. /\ l = n => Sum(fr) = Sum(fs) + fr[n + 1]
         /\ l = n + 1 => Sum(fr) + fs[n + 1] = Sum(fs) + fr[n + 1]
    <2>1. n <= Len(fs) /\ \A i \in 1..n : fr[i] = fs[i]
      BY <1>3, <1>5, <1>8, <1>10
    <2>2. /\ Len(fs) = n => Sum(fr) = Sum(fs) + fr[n + 1]
          /\ Len(fs) = n + 1 => Sum(fr) + fs[n + 1] = Sum(fs) + fr[n + 1]
      BY <1>3, <1>5, <1>6, <2>1, SumLast, Zenon
    <2> QED
      BY <1>5, <2>2, Zenon
  <1>13. /\ l = n => Sum(er) = Sum(es) + er[n + 1]
         /\ l = n + 1 => Sum(er) + es[n + 1] = Sum(es) + er[n + 1]
    <2>1. n <= Len(es) /\ \A i \in 1..n : er[i] = es[i]
      BY <1>3, <1>5, <1>8, <1>10
    <2>2. /\ Len(es) = n => Sum(er) = Sum(es) + er[n + 1]
          /\ Len(es) = n + 1 => Sum(er) + es[n + 1] = Sum(es) + er[n + 1]
      BY <1>3, <1>5, <1>6, <2>1, SumLast, Zenon
    <2> QED
      BY <1>5, <2>2, Zenon
  <1>14. Len(j.cases) = l /\ k.cases = r /\ j.cases = s
    BY DEF l, s, r
  <1> QED
    BY <1>1, <1>9, <1>11, <1>12, <1>13, <1>14, Zenon DEF Grows

SameSums(j, k) == \A u : /\ Sum(Failures(k, u)) = Sum(Failures(j, u))
                         /\ Sum(Errors(k, u)) = Sum(Errors(j, u))

\* k has one failure, or one error, more than j for test t.
MoreFailures(j, k, t) ==
    \A u : /\ Sum(Failures(k, u)) = IF u = t THEN Sum(Failures(j, u)) + 1 ELSE Sum(Failures(j, u))
           /\ Sum(Errors(k, u)) = Sum(Errors(j, u))

MoreErrors(j, k, t) ==
    \A u : /\ Sum(Failures(k, u)) = Sum(Failures(j, u))
           /\ Sum(Errors(k, u)) = IF u = t THEN Sum(Errors(j, u)) + 1 ELSE Sum(Errors(j, u))

LEMMA SumsNat ==
    ASSUME NEW j \in JUnits, NEW u
    PROVE  Sum(Failures(j, u)) \in Nat /\ Sum(Errors(j, u)) \in Nat
  <1> DEFINE s == j.cases
             l == Len(s)
             fs == [i \in 1..l |-> FailuresOf(s[i], u)]
             es == [i \in 1..l |-> ErrorsOf(s[i], u)]
  <1>1. Failures(j, u) = fs /\ Errors(j, u) = es
    BY DEF Failures, Errors, FailuresOf, ErrorsOf
  <1>2. \A c \in JCases : FailuresOf(c, u) \in Nat /\ ErrorsOf(c, u) \in Nat
    BY DEF JCases, FailuresOf, ErrorsOf
  <1>3. s \in Seq(JCases)
    BY DEF JUnits
  <1> HIDE DEF s
  <1>4. l \in Nat /\ \A i \in 1..l : s[i] \in JCases
    BY <1>3
  <1> HIDE DEF l
  <1>5. fs \in Seq(Nat) /\ es \in Seq(Nat)
    BY <1>2, <1>4
  <1> HIDE DEF fs, es
  <1> QED
    BY <1>1, <1>5, SumNat

LEMMA AddDoes ==
    ASSUME NEW j \in JUnits, NEW t \in Nat
    PROVE  LastIs(add(j, t), t) /\ SameSums(j, add(j, t))
  <1> DEFINE c == [test |-> t, name |-> <<>>, failures |-> 0, errors |-> 0]
             s == j.cases
             r == Append(s, c)
             k == [j EXCEPT !.cases = r]
             n == Len(s)
  <1>1. c \in JCases /\ c.test = t /\ c.failures = 0 /\ c.errors = 0
    <2>1. <<>> \in Seq(Seq(Nat))
      OBVIOUS
    <2> QED
      BY <2>1 DEF JCases
  <1>2. s \in Seq(JCases) /\ j.names \in Seq(Seq(Nat))
    BY DEF JUnits
  <1> HIDE DEF c, s
  <1>3. n \in Nat /\ r \in Seq(JCases) /\ Len(r) = n + 1 /\ r[n + 1] = c
        /\ \A i \in 1..n : r[i] = s[i]
    BY <1>1, <1>2
  <1>4. r # <<>>
    <2> HIDE DEF r
    <2> QED
      BY <1>3
  <1> HIDE DEF r, n
  <1>5. k \in JUnits /\ k.cases = r
    BY <1>2, <1>3 DEF JUnits
  <1>6. add(j, t) = k
    BY DEF add, r, s, c
  <1> HIDE DEF k
  <1>7. LastIs(k, t)
    BY <1>1, <1>3, <1>4, <1>5 DEF LastIs
  <1>8. \A u : FailuresOf(c, u) = 0 /\ ErrorsOf(c, u) = 0
    BY <1>1 DEF FailuresOf, ErrorsOf
  <1>9. ASSUME NEW u
        PROVE /\ Sum(Failures(k, u)) = Sum(Failures(j, u))
              /\ Sum(Errors(k, u)) = Sum(Errors(j, u))
    <2>1. /\ Sum(Failures(j, u)) \in Nat /\ Sum(Errors(j, u)) \in Nat
          /\ Sum(Failures(k, u)) = Sum(Failures(j, u)) + FailuresOf(k.cases[n + 1], u)
          /\ Sum(Errors(k, u)) = Sum(Errors(j, u)) + ErrorsOf(k.cases[n + 1], u)
      <3>1. Len(j.cases) = n /\ j.cases = s
        BY DEF n, s
      <3> QED
        <4>1. Follows(j, k, n)
          BY <1>2, <1>3, <1>5, <3>1 DEF Follows
        <4> QED
          BY <3>1, <4>1, CaseSums DEF Grows
    <2> QED
      BY <1>3, <1>5, <1>8, <2>1
  <1> QED
    BY <1>6, <1>7, <1>9 DEF SameSums

\* k is j with another last case, c, of the same test.
Replaces(j, k, t, c) ==
    /\ LastIs(j, t) /\ c \in JCases /\ c.test = t
    /\ k.cases = [j.cases EXCEPT ![Len(j.cases)] = c]

Replaced(j, k, c, u) ==
    LET old == j.cases[Len(j.cases)]
    IN  /\ Sum(Failures(j, u)) \in Nat /\ Sum(Errors(j, u)) \in Nat
        /\ Sum(Failures(k, u)) + FailuresOf(old, u) = Sum(Failures(j, u)) + FailuresOf(c, u)
        /\ Sum(Errors(k, u)) + ErrorsOf(old, u) = Sum(Errors(j, u)) + ErrorsOf(c, u)

LEMMA LastCase ==
    ASSUME NEW j, NEW k, NEW t, NEW c, Replaces(j, k, t, c)
    PROVE  /\ k.cases \in Seq(JCases) /\ k.cases # <<>> /\ k.cases[Len(k.cases)] = c
           /\ \A u : Replaced(j, k, c, u)
  <1> DEFINE s == j.cases
             r == k.cases
             n == Len(s) - 1
  <1>1. s \in Seq(JCases) /\ s # <<>> /\ c \in JCases
    BY DEF Replaces, LastIs, JUnits
  <1>2. r = [s EXCEPT ![Len(s)] = c]
    BY DEF Replaces
  <1> HIDE DEF s, r
  <1>3. n \in Nat /\ Len(s) = n + 1
    BY <1>1
  <1> HIDE DEF n
  <1>4. r = [s EXCEPT ![n + 1] = c] /\ n + 1 \in 1..Len(s)
    BY <1>2, <1>3
  <1>5. r \in Seq(JCases) /\ Len(r) = n + 1
    BY <1>1, <1>3, <1>4
  <1>6. r[n + 1] = c /\ \A i \in 1..n : r[i] = s[i]
    <2>1. \A i \in 1..n : i \in 1..Len(s) /\ i # n + 1
      BY <1>3
    <2>2. DOMAIN s = 1..Len(s)
      BY <1>1
    <2> QED
      BY <1>4, <2>1, <2>2
  <1>7. r # <<>>
    BY <1>3, <1>5
  <1>8. Follows(j, k, n)
    BY <1>1, <1>3, <1>5, <1>6 DEF Follows, s, r
  <1>9. ASSUME NEW u PROVE Replaced(j, k, c, u)
    <2>1. Grows(j, k, n, u)
      BY <1>8, CaseSums
    <2>2. Len(j.cases) = n + 1 /\ k.cases[n + 1] = c
      BY <1>3, <1>6 DEF s, r
    <2> QED
      BY <2>1, <2>2, Zenon DEF Grows, Replaced
  <1> QED
    BY <1>5, <1>6, <1>7, <1>9 DEF r

LEMMA LastOfCases ==
    ASSUME NEW s \in Seq(JCases), s # <<>>
    PROVE  s[Len(s)] \in JCases
  OBVIOUS

LEMMA NamesDo ==
    ASSUME NEW j, NEW t, LastIs(j, t)
    PROVE  LastIs(appendSubcaseNames(j), t) /\ SameSums(j, appendSubcaseNames(j))
  <1> DEFINE old == j.cases[Len(j.cases)]
             c == [old EXCEPT !.name = j.names]
             r == [j.cases EXCEPT ![Len(j.cases)] = c]
             k == [j EXCEPT !.cases = r, !.names = <<>>]
  <1>1. j \in JUnits /\ old \in JCases /\ old.test = t
    <2>1. j.cases \in Seq(JCases) /\ j.cases # <<>>
      BY DEF LastIs, JUnits
    <2>2. old \in JCases
      BY <2>1, LastOfCases
    <2> QED
      BY <2>2 DEF LastIs
  <1> HIDE DEF old
  <1>2. j.names \in Seq(Seq(Nat))
    BY <1>1 DEF JUnits
  <1>3. c \in JCases /\ c.test = t /\ c.failures = old.failures /\ c.errors = old.errors
    BY <1>1, <1>2 DEF JCases
  <1>4. appendSubcaseNames(j) = k
    BY Zenon DEF appendSubcaseNames, old
  <1> HIDE DEF c, r
  <1>5. k.cases = r /\ k.names = <<>>
    BY <1>1 DEF JUnits
  <1>6. Replaces(j, k, t, c)
    <2> HIDE DEF k
    <2> QED
      BY <1>3, <1>5, Zenon DEF Replaces, r
  <1>7. /\ k.cases \in Seq(JCases) /\ k.cases # <<>> /\ k.cases[Len(k.cases)] = c
        /\ \A u : Replaced(j, k, c, u)
    <2> HIDE DEF k
    <2> QED
      BY <1>6, LastCase, Zenon
  <1>8. k \in JUnits
    <2>1. r \in Seq(JCases) /\ <<>> \in Seq(Seq(Nat))
      BY <1>5, <1>7
    <2> QED
      BY <1>1, <2>1 DEF JUnits
  <1> HIDE DEF k
  <1>9. LastIs(k, t)
    BY <1>3, <1>7, <1>8 DEF LastIs
  <1>10. SameSums(j, k)
    <2> SUFFICES ASSUME NEW u
                 PROVE  /\ Sum(Failures(k, u)) = Sum(Failures(j, u))
                        /\ Sum(Errors(k, u)) = Sum(Errors(j, u))
      BY DEF SameSums
    <2>1. FailuresOf(c, u) = FailuresOf(old, u) /\ ErrorsOf(c, u) = ErrorsOf(old, u)
      BY <1>1, <1>3 DEF FailuresOf, ErrorsOf
    <2>2. FailuresOf(c, u) \in Nat /\ ErrorsOf(c, u) \in Nat
      BY <1>3 DEF FailuresOf, ErrorsOf, JCases
    <2>3. /\ Sum(Failures(j, u)) \in Nat /\ Sum(Errors(j, u)) \in Nat
          /\ Sum(Failures(k, u)) + FailuresOf(old, u) = Sum(Failures(j, u)) + FailuresOf(c, u)
          /\ Sum(Errors(k, u)) + ErrorsOf(old, u) = Sum(Errors(j, u)) + ErrorsOf(c, u)
      BY <1>7 DEF Replaced, old
    <2>4. Sum(Failures(k, u)) \in Nat /\ Sum(Errors(k, u)) \in Nat
      BY <1>8, SumsNat
    <2>5. \A a, b, d \in Nat : a + d = b + d => a = b
      OBVIOUS
    <2> QED
      BY <2>1, <2>2, <2>3, <2>4, <2>5, Zenon
  <1> QED
    BY <1>4, <1>9, <1>10

LEMMA FailureDoes ==
    ASSUME NEW j, NEW t, LastIs(j, t)
    PROVE  LastIs(addFailure(j), t) /\ MoreFailures(j, addFailure(j), t)
  <1> DEFINE old == j.cases[Len(j.cases)]
             c == [old EXCEPT !.failures = old.failures + 1]
             r == [j.cases EXCEPT ![Len(j.cases)] = c]
             k == [j EXCEPT !.cases = r]
  <1>1. j \in JUnits /\ old \in JCases /\ old.test = t
    <2>1. j.cases \in Seq(JCases) /\ j.cases # <<>>
      BY DEF LastIs, JUnits
    <2>2. old \in JCases
      BY <2>1, LastOfCases
    <2> QED
      BY <2>2 DEF LastIs
  <1> HIDE DEF old
  <1>3. c \in JCases /\ c.test = t /\ c.failures = old.failures + 1 /\ c.errors = old.errors
    BY <1>1 DEF JCases
  <1>4. addFailure(j) = k
    BY Zenon DEF addFailure, old
  <1> HIDE DEF c, r
  <1>5. k.cases = r
    BY <1>1 DEF JUnits
  <1>6. Replaces(j, k, t, c)
    <2> HIDE DEF k
    <2> QED
      BY <1>3, <1>5, Zenon DEF Replaces, r
  <1>7. /\ k.cases \in Seq(JCases) /\ k.cases # <<>> /\ k.cases[Len(k.cases)] = c
        /\ \A u : Replaced(j, k, c, u)
    <2> HIDE DEF k
    <2> QED
      BY <1>6, LastCase, Zenon
  <1>8. k \in JUnits
    BY <1>1, <1>5, <1>7 DEF JUnits
  <1> HIDE DEF k
  <1>9. LastIs(k, t)
    BY <1>3, <1>7, <1>8 DEF LastIs
  <1>10. MoreFailures(j, k, t)
    <2> SUFFICES ASSUME NEW u
                 PROVE  /\ Sum(Failures(k, u)) = IF u = t THEN Sum(Failures(j, u)) + 1
                                                          ELSE Sum(Failures(j, u))
                        /\ Sum(Errors(k, u)) = Sum(Errors(j, u))
      BY DEF MoreFailures
    <2>1. /\ FailuresOf(c, u) = (IF u = t THEN FailuresOf(old, u) + 1 ELSE FailuresOf(old, u))
          /\ ErrorsOf(c, u) = ErrorsOf(old, u)
      BY <1>1, <1>3 DEF FailuresOf, ErrorsOf
    <2>2. FailuresOf(old, u) \in Nat /\ ErrorsOf(old, u) \in Nat
      BY <1>1 DEF FailuresOf, ErrorsOf, JCases
    <2>3. /\ Sum(Failures(j, u)) \in Nat /\ Sum(Errors(j, u)) \in Nat
          /\ Sum(Failures(k, u)) + FailuresOf(old, u) = Sum(Failures(j, u)) + FailuresOf(c, u)
          /\ Sum(Errors(k, u)) + ErrorsOf(old, u) = Sum(Errors(j, u)) + ErrorsOf(c, u)
      BY <1>7 DEF Replaced, old
    <2>4. Sum(Failures(k, u)) \in Nat /\ Sum(Errors(k, u)) \in Nat
      BY <1>8, SumsNat
    <2> DEFINE fj == Sum(Failures(j, u))
               fk == Sum(Failures(k, u))
               fo == FailuresOf(old, u)
               fc == FailuresOf(c, u)
               ej == Sum(Errors(j, u))
               ek == Sum(Errors(k, u))
               eo == ErrorsOf(old, u)
               ec == ErrorsOf(c, u)
    <2> HIDE DEF fj, fk, fo, fc, ej, ek, eo, ec
    <2>5. /\ fj \in Nat /\ fk \in Nat /\ fo \in Nat /\ fk + fo = fj + fc
          /\ ej \in Nat /\ ek \in Nat /\ eo \in Nat /\ ek + eo = ej + ec
      BY <2>2, <2>3, <2>4, Zenon DEF fj, fk, fo, fc, ej, ek, eo, ec
    <2>6. fc = (IF u = t THEN fo + 1 ELSE fo) /\ ec = eo
      BY <2>1, Zenon DEF fo, fc, eo, ec
    <2>7. fk = (IF u = t THEN fj + 1 ELSE fj) /\ ek = ej
      BY <2>5, <2>6
    <2> QED
      BY <2>7, Zenon DEF fj, fk, ej, ek
  <1> QED
    BY <1>4, <1>9, <1>10

LEMMA ErrorDoes ==
    ASSUME NEW j, NEW t, LastIs(j, t)
    PROVE  LastIs(addError(j), t) /\ MoreErrors(j, addError(j), t)
  <1> DEFINE old == j.cases[Len(j.cases)]
             c == [old EXCEPT !.errors = old.errors + 1]
             r == [j.cases EXCEPT ![Len(j.cases)] = c]
             k == [j EXCEPT !.cases = r]
  <1>1. j \in JUnits /\ old \in JCases /\ old.test = t
    <2>1. j.cases \in Seq(JCases) /\ j.cases # <<>>
      BY DEF LastIs, JUnits
    <2>2. old \in JCases
      BY <2>1, LastOfCases
    <2> QED
      BY <2>2 DEF LastIs
  <1> HIDE DEF old
  <1>3. c \in JCases /\ c.test = t /\ c.failures = old.failures /\ c.errors = old.errors + 1
    BY <1>1 DEF JCases
  <1>4. addError(j) = k
    BY Zenon DEF addError, old
  <1> HIDE DEF c, r
  <1>5. k.cases = r
    BY <1>1 DEF JUnits
  <1>6. Replaces(j, k, t, c)
    <2> HIDE DEF k
    <2> QED
      BY <1>3, <1>5, Zenon DEF Replaces, r
  <1>7. /\ k.cases \in Seq(JCases) /\ k.cases # <<>> /\ k.cases[Len(k.cases)] = c
        /\ \A u : Replaced(j, k, c, u)
    <2> HIDE DEF k
    <2> QED
      BY <1>6, LastCase, Zenon
  <1>8. k \in JUnits
    BY <1>1, <1>5, <1>7 DEF JUnits
  <1> HIDE DEF k
  <1>9. LastIs(k, t)
    BY <1>3, <1>7, <1>8 DEF LastIs
  <1>10. MoreErrors(j, k, t)
    <2> SUFFICES ASSUME NEW u
                 PROVE  /\ Sum(Failures(k, u)) = Sum(Failures(j, u))
                        /\ Sum(Errors(k, u)) = IF u = t THEN Sum(Errors(j, u)) + 1
                                                        ELSE Sum(Errors(j, u))
      BY DEF MoreErrors
    <2>1. /\ FailuresOf(c, u) = FailuresOf(old, u)
          /\ ErrorsOf(c, u) = (IF u = t THEN ErrorsOf(old, u) + 1 ELSE ErrorsOf(old, u))
      BY <1>1, <1>3 DEF FailuresOf, ErrorsOf
    <2>2. FailuresOf(old, u) \in Nat /\ ErrorsOf(old, u) \in Nat
      BY <1>1 DEF FailuresOf, ErrorsOf, JCases
    <2>3. /\ Sum(Failures(j, u)) \in Nat /\ Sum(Errors(j, u)) \in Nat
          /\ Sum(Failures(k, u)) + FailuresOf(old, u) = Sum(Failures(j, u)) + FailuresOf(c, u)
          /\ Sum(Errors(k, u)) + ErrorsOf(old, u) = Sum(Errors(j, u)) + ErrorsOf(c, u)
      BY <1>7 DEF Replaced, old
    <2>4. Sum(Failures(k, u)) \in Nat /\ Sum(Errors(k, u)) \in Nat
      BY <1>8, SumsNat
    <2> DEFINE fj == Sum(Failures(j, u))
               fk == Sum(Failures(k, u))
               fo == FailuresOf(old, u)
               fc == FailuresOf(c, u)
               ej == Sum(Errors(j, u))
               ek == Sum(Errors(k, u))
               eo == ErrorsOf(old, u)
               ec == ErrorsOf(c, u)
    <2> HIDE DEF fj, fk, fo, fc, ej, ek, eo, ec
    <2>5. /\ fj \in Nat /\ fk \in Nat /\ fo \in Nat /\ fk + fo = fj + fc
          /\ ej \in Nat /\ ek \in Nat /\ eo \in Nat /\ ek + eo = ej + ec
      BY <2>2, <2>3, <2>4, Zenon DEF fj, fk, fo, fc, ej, ek, eo, ec
    <2>6. fc = fo /\ ec = (IF u = t THEN eo + 1 ELSE eo)
      BY <2>1, Zenon DEF fo, fc, eo, ec
    <2>7. fk = fj /\ ek = (IF u = t THEN ej + 1 ELSE ej)
      BY <2>5, <2>6
    <2> QED
      BY <2>7, Zenon DEF fj, fk, ej, ek
  <1> QED
    BY <1>4, <1>9, <1>10

\* The name of a subcase is kept for the cases.
LEMMA SubcaseNameDoes ==
    ASSUME NEW j, NEW t, LastIs(j, t), NEW name \in Seq(Nat)
    PROVE  LastIs(junit_subcase_start(j, name), t) /\ SameSums(j, junit_subcase_start(j, name))
  <1> DEFINE k == [j EXCEPT !.names = Append(j.names, name)]
  <1>1. junit_subcase_start(j, name) = k
    BY DEF junit_subcase_start
  <1>2. j \in JUnits
    BY DEF LastIs
  <1>3. Append(j.names, name) \in Seq(Seq(Nat))
    BY <1>2 DEF JUnits
  <1>4. k \in JUnits /\ k.cases = j.cases
    BY <1>2, <1>3 DEF JUnits
  <1> HIDE DEF k
  <1>5. LastIs(k, t)
    BY <1>4 DEF LastIs
  <1>6. SameSums(j, k)
    BY <1>4 DEF SameSums, Failures, Errors
  <1> QED
    BY <1>1, <1>5, <1>6

\* What a step writes down of a test.
LEMMA RecordsDo ==
    ASSUME NEW f \in [1..Len(Tests) -> Record], NEW t \in 1..Len(Tests), NEW u \in 1..Len(Tests)
    PROVE  /\ LET g == [f EXCEPT ![t].ran = TRUE]
              IN  g[u].asserts = f[u].asserts /\ (g[u].thrown <=> f[u].thrown)
           /\ LET g == [f EXCEPT ![t].asserts = @ + 1]
              IN  /\ g[u].asserts = IF u = t THEN f[u].asserts + 1 ELSE f[u].asserts
                  /\ g[u].thrown <=> f[u].thrown
           /\ LET g == [f EXCEPT ![t].thrown = TRUE]
              IN  g[u].asserts = f[u].asserts /\ (u # t => (g[u].thrown <=> f[u].thrown))
  <1>1. f[t] \in Record /\ f[u] \in Record
    OBVIOUS
  <1>2. CASE u = t
    BY <1>1, <1>2 DEF Record
  <1>3. CASE u # t
    <2>1. \A e : [f EXCEPT ![t] = e][u] = f[u]
      BY <1>3
    <2> QED
      BY <1>3, <2>1
  <1> QED
    BY <1>2, <1>3

SameRecords == \A t \in 1..Len(Tests) : /\ failures'[t].asserts = failures[t].asserts
                                        /\ failures'[t].thrown <=> failures[t].thrown

\* A step that files nothing.
LEMMA JUnitKept ==
    ASSUME JUnitInv, junit' \in JUnits, Running' => LastIs(junit', test'),
           SameSums(junit, junit'), SameRecords, ~Stopped,
           \A t \in 1..Len(Tests) : Unwinding(t) => Unwinding(t)'
    PROVE  JUnitInv'
  <1>1. \A t \in 1..Len(Tests) :
          /\ Sum(Failures(junit', t)) = Sum(Failures(junit, t))
          /\ Sum(Errors(junit', t)) = Sum(Errors(junit, t))
    BY Zenon DEF SameSums
  <1>2. \A t \in 1..Len(Tests) : Sum(Failures(junit', t)) = failures'[t].asserts
    BY <1>1, Zenon DEF JUnitInv, SameRecords
  <1>3. \A t \in 1..Len(Tests) : Unwinding(t)'
          \/ (failures'[t].thrown <=> Sum(Errors(junit', t)) > 0)
    BY <1>1, Zenon DEF JUnitInv, SameRecords
  <1>4. junit' \in JUnits /\ (Running' => LastIs(junit', test'))
    OBVIOUS
  <1> QED
    BY <1>2, <1>3, <1>4, Zenon DEF JUnitInv, LastIs, JUnits, JCases, Sum, Failures, Errors

LEMMA JUnitInit == Init => JUnitInv
  <1> SUFFICES ASSUME Init PROVE JUnitInv
    OBVIOUS
  <1>1. /\ pc = "start" /\ junit = [cases |-> <<>>, names |-> <<>>]
        /\ failures = [t \in 1..Len(Tests) |-> Untouched]
    BY DEF Init, JUnit, Untouched
  <1>2. ~Running
    BY <1>1 DEF Running, Inside
  <1>3. junit \in JUnits /\ junit.cases = <<>>
    <2>1. <<>> \in Seq(JCases) /\ <<>> \in Seq(Seq(Nat))
      OBVIOUS
    <2> QED
      BY <1>1, <2>1 DEF JUnits
  <1>4. \A t : Failures(junit, t) = <<>> /\ Errors(junit, t) = <<>>
    <2> SUFFICES ASSUME NEW t PROVE Failures(junit, t) = <<>> /\ Errors(junit, t) = <<>>
      OBVIOUS
    <2>1. Len(junit.cases) = 0
      BY <1>3
    <2>2. \A k \in 1..0 : FALSE
      OBVIOUS
    <2> QED
      BY <2>1, <2>2 DEF Failures, Errors
  <1>5. \A t : Sum(Failures(junit, t)) = 0 /\ Sum(Errors(junit, t)) = 0
    BY <1>4, SumEmpty, Zenon
  <1>6. \A t \in 1..Len(Tests) : failures[t].asserts = 0 /\ ~failures[t].thrown
    BY <1>1 DEF Untouched
  <1>7. ~(0 > 0)
    OBVIOUS
  <1> QED
    BY <1>2, <1>3, <1>5, <1>6, <1>7, Zenon DEF JUnitInv

\* Nothing is said to the reporter.
LEMMA JUnitSame ==
    ASSUME ExitInv, JUnitInv, junit' = junit, SameRecords, ~Stopped,
           Running' => Running /\ test' = test,
           Inside /\ thrown = "Exception" => Inside' /\ thrown' = "Exception" /\ test' = test
    PROVE  JUnitInv'
  <1>1. junit' \in JUnits /\ (Running' => LastIs(junit', test'))
    BY Zenon DEF JUnitInv
  <1>2. SameSums(junit, junit')
    BY Zenon DEF SameSums
  <1>3. \A t \in 1..Len(Tests) : Unwinding(t) => Unwinding(t)'
    BY DEF Unwinding
  <1> QED
    BY <1>1, <1>2, <1>3, JUnitKept

LEMMA QuietJUnit ==
    ASSUME ExitInv, JUnitInv,
           \/ RunStart \/ Skip \/ StartPass \/ NextTurn \/ LastAssert \/ Passes \/ RunEnd
           \/ ReadPastEnd
    PROVE  JUnitInv'
  <1>1. junit' = junit /\ failures' = failures /\ ~Stopped
    BY DEF RunStart, Skip, StartPass, NextTurn, LastAssert, Passes, RunEnd, ReadPastEnd, Asserts,
           Stopped
  <1>2. SameRecords
    BY <1>1 DEF SameRecords
  <1>3. CASE RunStart \/ Skip \/ RunEnd
    <2>1. ~Running' /\ ~Inside
      BY <1>3 DEF RunStart, Skip, RunEnd, Running, Inside
    <2> QED
      BY <1>1, <1>2, <2>1, JUnitSame
  <1>4. CASE StartPass
    <2>1. Running /\ test' = test /\ ~Inside
      BY <1>4 DEF StartPass, Running, Inside
    <2> QED
      BY <1>1, <1>2, <2>1, JUnitSame
  <1>5. CASE NextTurn \/ LastAssert \/ Passes
    <2>1. Running /\ test' = test /\ Inside' /\ thrown' = thrown
      BY <1>5 DEF NextTurn, LastAssert, Passes, Asserts, After, Running, Inside
    <2> QED
      BY <1>1, <1>2, <2>1, JUnitSame
  <1>6. CASE ReadPastEnd
    <2>1. ~Running' /\ thrown = None
      BY <1>6 DEF ReadPastEnd, Running, Inside
    <2>2. thrown # "Exception"
      BY <2>1 DEF None
    <2> QED
      BY <1>1, <1>2, <2>1, <2>2, JUnitSame
  <1> QED
    BY <1>3, <1>4, <1>5, <1>6

LEMMA StartTestJUnit == ExitInv /\ JUnitInv /\ StartTest => JUnitInv'
  <1> SUFFICES ASSUME ExitInv, JUnitInv, StartTest PROVE JUnitInv'
    OBVIOUS
  <1>1. /\ pc = "pick" /\ test <= Len(Tests) /\ test' = test
        /\ junit' = add(junit, test) /\ failures' = [failures EXCEPT ![test].ran = TRUE]
    BY DEF StartTest, junit_test_case_start
  <1>2. test \in 1..Len(Tests) /\ test \in Nat /\ failures \in [1..Len(Tests) -> Record]
    BY <1>1, OptionsAssumption DEF ExitInv, TypeInv, Record
  <1>3. SameRecords
    BY <1>1, <1>2, RecordsDo DEF SameRecords
  <1>4. junit \in JUnits /\ ~Inside
    BY <1>1 DEF JUnitInv, Inside
  <1>5. LastIs(junit', test) /\ SameSums(junit, junit')
    BY <1>1, <1>2, <1>4, AddDoes
  <1>6. junit' \in JUnits /\ (Running' => LastIs(junit', test'))
    BY <1>1, <1>5 DEF LastIs
  <1>7. \A t \in 1..Len(Tests) : ~Unwinding(t)
    BY <1>4 DEF Unwinding
  <1>0. ~Stopped
    BY <1>1 DEF Stopped
  <1> QED
    BY <1>0, <1>1, <1>3, <1>5, <1>6, <1>7, JUnitKept

LEMMA SubcaseJUnit == ExitInv /\ JUnitInv /\ Subcase => JUnitInv'
  <1> SUFFICES ASSUME ExitInv, JUnitInv, Subcase PROVE JUnitInv'
    OBVIOUS
  <1> DEFINE sig == Append(path, child)
  <1>1. /\ pc = "body" /\ pc' \in {"body", "assert"} /\ thrown' = thrown /\ test' = test
        /\ failures' = failures
        /\ junit' = junit \/ junit' = junit_subcase_start(junit, sig)
    BY DEF Subcase
  <1>2. path \in Seq(Nat) /\ child \in Nat
    BY DEF ExitInv, TypeInv
  <1>3. sig \in Seq(Nat)
    BY <1>2
  <1> HIDE DEF sig
  <1>4. Running /\ Inside /\ Running' /\ Inside'
    BY <1>1 DEF Running, Inside
  <1>5. LastIs(junit, test)
    BY <1>4 DEF JUnitInv
  <1>6. LastIs(junit', test) /\ SameSums(junit, junit')
    <2>1. CASE junit' = junit
      BY <1>5, <2>1, Zenon DEF SameSums
    <2>2. CASE junit' = junit_subcase_start(junit, sig)
      BY <1>3, <1>5, <2>2, SubcaseNameDoes
    <2> QED
      BY <1>1, <2>1, <2>2
  <1>7. junit' \in JUnits /\ (Running' => LastIs(junit', test'))
    BY <1>1, <1>6 DEF LastIs
  <1>8. SameRecords
    BY <1>1 DEF SameRecords
  <1>9. \A t \in 1..Len(Tests) : Unwinding(t) => Unwinding(t)'
    BY <1>1, <1>4 DEF Unwinding
  <1>0. ~Stopped
    BY <1>1 DEF Stopped
  <1> QED
    BY <1>0, <1>1, <1>6, <1>7, <1>8, <1>9, JUnitKept

LEMMA EndTestJUnit == ExitInv /\ JUnitInv /\ EndTest => JUnitInv'
  <1> SUFFICES ASSUME ExitInv, JUnitInv, EndTest PROVE JUnitInv'
    OBVIOUS
  <1>1. /\ pc = "finalize" /\ pc' \in {"pick", "end"} /\ failures' = failures
        /\ junit' = appendSubcaseNames(junit)
    BY DEF EndTest, junit_test_case_end
  <1>2. Running /\ ~Inside /\ ~Running'
    BY <1>1 DEF Running, Inside
  <1>3. LastIs(junit, test)
    BY <1>2 DEF JUnitInv
  <1>4. LastIs(junit', test) /\ SameSums(junit, junit')
    BY <1>1, <1>3, NamesDo
  <1>5. junit' \in JUnits
    BY <1>4 DEF LastIs
  <1>6. SameRecords
    BY <1>1 DEF SameRecords
  <1>7. \A t \in 1..Len(Tests) : ~Unwinding(t)
    BY <1>2 DEF Unwinding
  <1>0. ~Stopped
    BY <1>1 DEF Stopped
  <1> QED
    BY <1>0, <1>1, <1>2, <1>4, <1>5, <1>6, <1>7, JUnitKept

LEMMA FailsJUnit == ExitInv /\ JUnitInv /\ Fails => JUnitInv'
  <1> SUFFICES ASSUME ExitInv, JUnitInv, Fails PROVE JUnitInv'
    OBVIOUS
  <1>1. /\ pc \in {"assert", "last"} /\ pc' \in {"passed", "body"} /\ test' = test
        /\ junit' = addFailure(junit)
        /\ failures' = [failures EXCEPT ![test].asserts = @ + 1]
    BY DEF Fails, Asserts, After
  <1>2. Running /\ ~Stopped
    BY <1>1 DEF Running, Inside, Stopped
  <1>3. test \in 1..Len(Tests) /\ failures \in [1..Len(Tests) -> Record]
    BY <1>2 DEF ExitInv, TypeInv, Record
  <1>4. LastIs(junit, test) /\ junit \in JUnits
    BY <1>2 DEF JUnitInv
  <1>5. LastIs(junit', test) /\ MoreFailures(junit, junit', test)
    BY <1>1, <1>4, FailureDoes
  <1>6. \A t \in 1..Len(Tests) : ~Unwinding(t)
    BY <1>1 DEF ExitInv, FlagsInv, Unwinding, None
  <1>7. junit' \in JUnits /\ (Running' => LastIs(junit', test'))
    BY <1>1, <1>5 DEF LastIs
  <1>8. ASSUME NEW t \in 1..Len(Tests)
        PROVE  /\ Sum(Failures(junit', t)) = failures'[t].asserts
               /\ failures'[t].thrown <=> Sum(Errors(junit', t)) > 0
    <2>1. /\ failures'[t].asserts = (IF t = test THEN failures[t].asserts + 1
                ELSE failures[t].asserts)
          /\ failures'[t].thrown <=> failures[t].thrown
      BY <1>1, <1>3, RecordsDo
    <2>2. /\ Sum(Failures(junit', t)) = (IF t = test THEN Sum(Failures(junit, t)) + 1
                                                    ELSE Sum(Failures(junit, t)))
          /\ Sum(Errors(junit', t)) = Sum(Errors(junit, t))
      BY <1>5, Zenon DEF MoreFailures
    <2>3. /\ Sum(Failures(junit, t)) = failures[t].asserts
          /\ failures[t].thrown <=> Sum(Errors(junit, t)) > 0
      BY <1>2, <1>6, Zenon DEF JUnitInv
    <2> QED
      BY <2>1, <2>2, <2>3, Zenon
  <1> QED
    BY <1>7, <1>8, Zenon DEF JUnitInv, LastIs, JUnits, JCases, Sum, Failures, Errors

LEMMA ThrowsJUnit == ExitInv /\ JUnitInv /\ Throws => JUnitInv'
  <1> SUFFICES ASSUME ExitInv, JUnitInv, Throws PROVE JUnitInv'
    OBVIOUS
  <1>1. /\ pc \in {"assert", "last"} /\ pc' \in {"passed", "body"} /\ test' = test
        /\ junit' = junit /\ thrown' = "Exception"
        /\ failures' = [failures EXCEPT ![test].thrown = TRUE]
    BY DEF Throws, Asserts, After
  <1>2. Running /\ ~Stopped /\ Inside'
    BY <1>1 DEF Running, Inside, Stopped
  <1>3. test \in 1..Len(Tests) /\ failures \in [1..Len(Tests) -> Record]
    BY <1>2 DEF ExitInv, TypeInv, Record
  <1>4. junit' \in JUnits /\ (Running' => LastIs(junit', test'))
    BY <1>1, <1>2, Zenon DEF JUnitInv
  <1>5. ASSUME NEW t \in 1..Len(Tests)
        PROVE  /\ Sum(Failures(junit', t)) = failures'[t].asserts
               /\ Unwinding(t)' \/ (failures'[t].thrown <=> Sum(Errors(junit', t)) > 0)
    <2>1. /\ failures'[t].asserts = failures[t].asserts
          /\ t # test => (failures'[t].thrown <=> failures[t].thrown)
      BY <1>1, <1>3, RecordsDo
    <2>2. /\ Sum(Failures(junit', t)) = Sum(Failures(junit, t))
          /\ Sum(Errors(junit', t)) = Sum(Errors(junit, t))
      BY <1>1, Zenon
    <2>3. /\ Sum(Failures(junit, t)) = failures[t].asserts
          /\ Unwinding(t) \/ (failures[t].thrown <=> Sum(Errors(junit, t)) > 0)
      BY <1>2, Zenon DEF JUnitInv
    <2>4. t = test => Unwinding(t)'
      BY <1>1, <1>2 DEF Unwinding
    <2>5. t # test => ~Unwinding(t)
      BY DEF Unwinding
    <2> QED
      BY <2>1, <2>2, <2>3, <2>4, <2>5, Zenon
  <1> QED
    BY <1>4, <1>5, Zenon DEF JUnitInv, LastIs, JUnits, JCases, Sum, Failures, Errors

LEMMA EndSubcaseJUnit == ExitInv /\ JUnitInv /\ EndSubcase => JUnitInv'
  <1> SUFFICES ASSUME ExitInv, JUnitInv, EndSubcase PROVE JUnitInv'
    OBVIOUS
  <1> DEFINE log == thrown # None /\ cs.shouldLog
  <1>1. /\ pc = "body" /\ pc' = pc /\ test' = test /\ thrown' = thrown /\ failures' = failures
        /\ junit' = IF log THEN addError(junit) ELSE junit
    BY DEF EndSubcase
  <1>2. Running /\ Inside /\ Running' /\ Inside' /\ ~Stopped
    BY <1>1 DEF Running, Inside, Stopped
  <1>3. CASE ~log
    <2>1. SameRecords
      BY <1>1 DEF SameRecords
    <2> QED
      BY <1>1, <1>2, <1>3, <2>1, JUnitSame
  <1>4. CASE log
    <2>1. thrown = "Exception"
      BY <1>2, <1>4 DEF ExitInv, TypeInv, FlagsInv
    <2>2. LastIs(junit, test)
      BY <1>2 DEF JUnitInv
    <2>3. LastIs(junit', test) /\ MoreErrors(junit, junit', test)
      BY <1>1, <1>4, <2>2, ErrorDoes
    <2>4. junit' \in JUnits /\ (Running' => LastIs(junit', test'))
      BY <1>1, <2>3 DEF LastIs
    <2>5. ASSUME NEW t \in 1..Len(Tests)
          PROVE  /\ Sum(Failures(junit', t)) = failures'[t].asserts
                 /\ Unwinding(t)' \/ (failures'[t].thrown <=> Sum(Errors(junit', t)) > 0)
      <3>1. /\ Sum(Failures(junit', t)) = Sum(Failures(junit, t))
            /\ t # test => Sum(Errors(junit', t)) = Sum(Errors(junit, t))
        BY <2>3, Zenon DEF MoreErrors
      <3>2. /\ Sum(Failures(junit, t)) = failures[t].asserts
            /\ Unwinding(t) \/ (failures[t].thrown <=> Sum(Errors(junit, t)) > 0)
        BY <1>2, Zenon DEF JUnitInv
      <3>3. t = test => Unwinding(t)'
        BY <1>1, <1>2, <2>1 DEF Unwinding
      <3>4. t # test => ~Unwinding(t)
        BY DEF Unwinding
      <3> QED
        BY <1>1, <3>1, <3>2, <3>3, <3>4, Zenon
    <2> QED
      BY <2>4, <2>5, Zenon DEF JUnitInv, LastIs, JUnits, JCases, Sum, Failures, Errors
  <1> QED
    BY <1>3, <1>4

LEMMA EndPassJUnit == ExitInv /\ JUnitInv /\ EndPass => JUnitInv'
  <1> SUFFICES ASSUME ExitInv, JUnitInv, EndPass PROVE JUnitInv'
    OBVIOUS
  <1> DEFINE j == IF thrown = "Exception" THEN addError(junit) ELSE junit
  <1>1. /\ pc \in {"passed", "body"} /\ pc' \in {"pass", "finalize"} /\ test' = test
        /\ thrown' = thrown /\ failures' = failures
        /\ junit' = j \/ junit' = add(appendSubcaseNames(j), test)
    BY DEF EndPass, junit_test_case_reenter
  <1>2. Running /\ Inside /\ Running' /\ ~Inside' /\ ~Stopped
    BY <1>1 DEF Running, Inside, Stopped
  <1>3. LastIs(junit, test) /\ test \in 1..Len(Tests) /\ test \in Nat
    BY <1>2, OptionsAssumption DEF JUnitInv, ExitInv, TypeInv
  <1>4. /\ LastIs(j, test)
        /\ thrown = "Exception" => MoreErrors(junit, j, test)
        /\ thrown # "Exception" => j = junit
    BY <1>3, ErrorDoes
  <1> HIDE DEF j
  <1>5. LastIs(junit', test) /\ SameSums(j, junit')
    <2>1. CASE junit' = j
      BY <1>4, <2>1, Zenon DEF SameSums
    <2>2. CASE junit' = add(appendSubcaseNames(j), test)
      <3> DEFINE k == appendSubcaseNames(j)
      <3>1. LastIs(k, test) /\ SameSums(j, k)
        BY <1>4, NamesDo
      <3> HIDE DEF k
      <3>2. k \in JUnits
        BY <3>1 DEF LastIs
      <3>3. LastIs(add(k, test), test) /\ SameSums(k, add(k, test))
        BY <1>3, <3>2, AddDoes
      <3>4. junit' = add(k, test)
        BY <2>2 DEF k
      <3>5. SameSums(j, junit')
        BY <3>1, <3>3, <3>4, Zenon DEF SameSums
      <3> QED
        BY <3>3, <3>4, <3>5
    <2> QED
      BY <1>1, <2>1, <2>2
  <1>6. junit' \in JUnits /\ (Running' => LastIs(junit', test'))
    BY <1>1, <1>5 DEF LastIs
  <1>7. CASE thrown # "Exception"
    <2>1. SameRecords /\ SameSums(junit, junit')
      BY <1>1, <1>4, <1>5, <1>7 DEF SameRecords
    <2>2. \A t \in 1..Len(Tests) : ~Unwinding(t)
      BY <1>7 DEF Unwinding
    <2> QED
      BY <1>2, <1>6, <2>1, <2>2, JUnitKept
  <1>8. CASE thrown = "Exception"
    <2>1. ASSUME NEW t \in 1..Len(Tests)
          PROVE  /\ Sum(Failures(junit', t)) = failures'[t].asserts
                 /\ failures'[t].thrown <=> Sum(Errors(junit', t)) > 0
      <3>1. /\ Sum(Failures(junit', t)) = Sum(Failures(junit, t))
            /\ t # test => Sum(Errors(junit', t)) = Sum(Errors(junit, t))
            /\ t = test => Sum(Errors(junit', t)) = Sum(Errors(junit, t)) + 1
        <4>1. Sum(Failures(junit', t)) = Sum(Failures(j, t))
              /\ Sum(Errors(junit', t)) = Sum(Errors(j, t))
          BY <1>5, Zenon DEF SameSums
        <4>2. /\ Sum(Failures(j, t)) = Sum(Failures(junit, t))
              /\ Sum(Errors(j, t)) = IF t = test THEN Sum(Errors(junit, t)) + 1
                                                 ELSE Sum(Errors(junit, t))
          BY <1>4, <1>8, Zenon DEF MoreErrors
        <4> QED
          BY <4>1, <4>2, Zenon
      <3>2. /\ Sum(Failures(junit, t)) = failures[t].asserts
            /\ Unwinding(t) \/ (failures[t].thrown <=> Sum(Errors(junit, t)) > 0)
        BY <1>2, Zenon DEF JUnitInv
      <3>3. CASE t # test
        <4>1. ~Unwinding(t)
          BY <3>3 DEF Unwinding
        <4> QED
          BY <1>1, <3>1, <3>2, <3>3, <4>1, Zenon
      <3>4. CASE t = test
        <4>1. failures[test].thrown
          BY <1>2, <1>8 DEF ExitInv, FlagsInv
        <4>2. Sum(Errors(junit, t)) \in Nat
          <5>1. junit \in JUnits
            BY DEF JUnitInv
          <5> QED
            BY <5>1, SumsNat
        <4>3. \A a \in Nat : a + 1 > 0
          OBVIOUS
        <4>4. Sum(Errors(junit', t)) > 0
          BY <3>1, <3>4, <4>2, <4>3, Zenon
        <4> QED
          BY <1>1, <3>1, <3>2, <3>4, <4>1, <4>4, Zenon
      <3> QED
        BY <3>3, <3>4
    <2> QED
      BY <1>6, <2>1, Zenon DEF JUnitInv, LastIs, JUnits, JCases, Sum, Failures, Errors
  <1> QED
    BY <1>7, <1>8

LEMMA CrashJUnit == ExitInv /\ JUnitInv /\ Crash => JUnitInv'
  <1> SUFFICES ASSUME ExitInv, JUnitInv, Crash PROVE JUnitInv'
    OBVIOUS
  <1> DEFINE j == addError(junit)
  <1>1. /\ pc \in {"assert", "last"} /\ pc' \in {"killed", "killed late"} /\ failures' = failures
        /\ junit' = appendSubcaseNames(j)
    BY DEF Crash, Asserts, junit_test_case_end
  <1>2. Running /\ ~Running' /\ Stopped'
    BY <1>1 DEF Running, Inside, Stopped
  <1>3. LastIs(junit, test)
    BY <1>2 DEF JUnitInv
  <1>4. LastIs(j, test) /\ MoreErrors(junit, j, test)
    BY <1>3, ErrorDoes
  <1> HIDE DEF j
  <1>5. LastIs(junit', test) /\ SameSums(j, junit')
    BY <1>1, <1>4, NamesDo
  <1>6. junit' \in JUnits
    BY <1>5 DEF LastIs
  <1>7. ASSUME NEW t \in 1..Len(Tests) PROVE Sum(Failures(junit', t)) = failures'[t].asserts
    <2>1. Sum(Failures(junit', t)) = Sum(Failures(j, t))
          /\ Sum(Failures(j, t)) = Sum(Failures(junit, t))
      BY <1>4, <1>5, Zenon DEF SameSums, MoreErrors
    <2>2. Sum(Failures(junit, t)) = failures[t].asserts
      BY Zenon DEF JUnitInv
    <2> QED
      BY <1>1, <2>1, <2>2, Zenon
  <1> QED
    BY <1>1, <1>2, <1>6, <1>7, Zenon DEF JUnitInv, LastIs, JUnits, JCases, Sum, Failures, Errors

LEMMA JUnitStep == ExitInv /\ JUnitInv /\ [Next]_vars => JUnitInv'
  <1> SUFFICES ASSUME ExitInv, JUnitInv, [Next]_vars PROVE JUnitInv'
    OBVIOUS
  <1>1. CASE UNCHANGED vars
    <2>1. /\ junit' = junit /\ failures' = failures /\ test' = test /\ pc' = pc /\ thrown' = thrown
      BY <1>1 DEF vars, where
    <2>2. /\ (Running' <=> Running) /\ (Stopped' <=> Stopped)
          /\ \A t : Unwinding(t)' <=> Unwinding(t)
      BY <2>1 DEF Running, Inside, Stopped, Unwinding
    <2>3. junit' \in JUnits /\ (Running' => LastIs(junit', test'))
      BY <2>1, <2>2, Zenon DEF JUnitInv
    <2>4. \A t \in 1..Len(Tests) : Sum(Failures(junit', t)) = failures'[t].asserts
      BY <2>1, Zenon DEF JUnitInv
    <2>5. ~Stopped' =>
            \A t \in 1..Len(Tests) :
              Unwinding(t)' \/ (failures'[t].thrown <=> Sum(Errors(junit', t)) > 0)
      BY <2>1, <2>2, Zenon DEF JUnitInv
    <2> QED
      BY <2>3, <2>4, <2>5, Zenon DEF JUnitInv, LastIs, JUnits, JCases, Sum, Failures, Errors
  <1>2. ASSUME \/ RunStart \/ Skip \/ StartPass \/ NextTurn \/ LastAssert \/ Passes \/ RunEnd
               \/ ReadPastEnd
        PROVE  JUnitInv'
    BY <1>2, QuietJUnit
  <1> QED
    BY <1>1, <1>2, StartTestJUnit, SubcaseJUnit, EndSubcaseJUnit, FailsJUnit, ThrowsJUnit,
       EndPassJUnit, EndTestJUnit, CrashJUnit, Zenon DEF Next, Run, Over

-----------------------------------------------------------------------------
(***************************************************************************)
(* The reports.                                                            *)
(***************************************************************************)
LEMMA NoTags == ASSUME NEW t \in Seq(Tags), Len(t) = 0 PROVE t = <<>>
  OBVIOUS

LEMMA RunInit == Init => RunInv
  BY ExitInit, XmlInit, JUnitInit DEF RunInv

LEMMA RunStep == RunInv /\ [Next]_vars => RunInv'
  BY ExitStep, XmlStep, JUnitStep, Zenon DEF RunInv

\* The elements of the XML report are nested and all closed at the end, unless
\* a signal comes in a pass of which a subcase has ended: then, and only then,
\* an end closes what it is not the end of.  The JUnit report of a run has
\* every failed assertion once and an error for every test that threw, under a
\* case of that test.  For every list of tests and subcases, all filters, and
\* however assertions fail, exceptions unwind and a signal cuts the run short.
THEOREM RunnerReportsHold == Spec => []ReportsHold
  <1>1. RunInv => ReportsHold
    <2> SUFFICES ASSUME RunInv PROVE ReportsHold
      OBVIOUS
    <2>1. CASE pc = "killed late"
      <3>1. Loose(xml, 0)
        BY <2>1 DEF RunInv, XmlInv
      <3> DEFINE t == xml.tags
      <3>2. t \in Seq(Tags) /\ Len(t) <= 0 /\ xml.broken
        BY <3>1 DEF Loose
      <3> HIDE DEF t
      <3>3. t = <<>>
        <4>1. Len(t) \in Nat
          BY <3>2
        <4>2. Len(t) = 0
          BY <3>2, <4>1
        <4> QED
          BY <3>2, <4>2, NoTags
      <3> QED
        BY <2>1, <3>2, <3>3 DEF ReportsHold, t
    <2> SUFFICES ASSUME pc # "killed late" PROVE ReportsHold
      BY <2>1
    <2>2. ~xml.broken
      <3>1. \E n : Nested(xml, n)
        BY Zenon DEF RunInv, ExitInv, TypeInv, XmlInv, Running, Stopped
      <3> QED
        BY <3>1 DEF Nested
    <2>3. ASSUME pc \in {"over", "killed"} PROVE xml.tags = <<>>
      <3>1. Nested(xml, 0)
        BY <2>3 DEF RunInv, XmlInv
      <3> DEFINE t == xml.tags
      <3>2. t \in Seq(Tags) /\ Len(t) = 0
        BY <3>1 DEF Nested
      <3> HIDE DEF t
      <3> QED
        BY <3>2, NoTags DEF t
    <2>4. ASSUME pc = "over", NEW t \in 1..Len(Tests)
          PROVE  /\ Sum(Failures(junit, t)) = failures[t].asserts
                 /\ failures[t].thrown <=> Sum(Errors(junit, t)) > 0
      <3>1. ~Unwinding(t) /\ ~Stopped
        BY <2>4 DEF Unwinding, Inside, Stopped
      <3> QED
        BY <3>1, Zenon DEF RunInv, JUnitInv
    <2> QED
      BY <2>2, <2>3, <2>4, Zenon DEF ReportsHold
  <1> QED
    BY RunInit, RunStep, <1>1, PTL DEF Spec
=============================================================================

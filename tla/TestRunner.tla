----------------------------- MODULE TestRunner -----------------------------
(***************************************************************************)
(* The runner of unittest.js: it goes through the test cases, each with a  *)
(* set up, parts between which it waits on a timer, and a tear down.  What *)
(* is thrown is an error, not null; and a tear down does not call wait.    *)
(***************************************************************************)
EXTENDS Naturals, FiniteSets

CONSTANTS
  Count,        \* of the test cases
  MaxParts,     \* bound: parts of a test case
  MaxLate       \* bound: assertions of callbacks that run on their own

ASSUME TestRunnerAssumption == {Count, MaxParts, MaxLate} \subseteq Nat /\ MaxParts > 0

VARIABLES
  currentTest,
  next,         \* runTests is called again "now", by a "timer", or not ("over")
  isWaiting,    \* the tests that called wait
  parts,        \* parts run of every test
  failures, errors, \* the counters of every test
  logged,       \* the status the log shows
  result,       \* what was posted
  late,         \* assertions of callbacks so far
  up            \* the tests that are set up and not torn down

vars == <<currentTest, next, isWaiting, parts, failures, errors, logged, result, late, up>>

Tests == 1..Count

-----------------------------------------------------------------------------
(* Faulty variants of the helpers below; no action uses them. *)

UnlessThrown(waits, throws) == ~waits /\ ~throws
WithoutTimer(t) == IF t \in isWaiting' THEN "over" ELSE "now"

-----------------------------------------------------------------------------
\* fail and error count.
Counted(counter, t, more) == IF more THEN [counter EXCEPT ![t] = @ + 1] ELSE counter

\* run tears down unless the part called wait, also when it threw.
TearsDown(waits, throws) == ~waits

\* Testcase.run: an exception of the set up skips the part, and one of the tear
\* down replaces that of the part.  Assertions may fail in any of the three.  A
\* wait in the set up is forgotten, unless the set up throws after it.
RunPart(t, setupThrows, fails, throws, waits, tearThrows) ==
  LET down == TearsDown(waits, throws)
  IN /\ setupThrows => t \notin isWaiting
     /\ setupThrows => ~throws
     /\ waits => parts[t] + 1 < MaxParts
     /\ tearThrows => down
     /\ isWaiting' = IF waits THEN isWaiting \cup {t} ELSE isWaiting \ {t}
     /\ parts' = [parts EXCEPT ![t] = @ + 1]
     /\ failures' = Counted(failures, t, fails)
     /\ errors' = Counted(errors, t, setupThrows \/ throws \/ tearThrows)
     /\ up' = IF down THEN up \ {t} ELSE up \cup {t}

\* status prefers a failure, getResult an error.
Status(t) == IF failures'[t] > 0 THEN "failed" ELSE IF errors'[t] > 0 THEN "error" ELSE "passed"

Result ==
  IF \E t \in Tests : errors[t] > 0 THEN "ERROR"
  ELSE IF \E t \in Tests : failures[t] > 0 THEN "FAILURE" ELSE "SUCCESS"

\* A test that waits goes on after a timer, another one makes room for the next.
Resumes(t) == IF t \in isWaiting' THEN "timer" ELSE "now"
Following(t) == IF t \in isWaiting' THEN currentTest ELSE currentTest + 1

RunTests ==
  /\ next \in {"now", "timer"} /\ currentTest \in Tests
  /\ \E setupThrows, fails, throws, waits, tearThrows \in BOOLEAN :
       RunPart(currentTest, setupThrows, fails, throws, waits, tearThrows)
  /\ next' = Resumes(currentTest)
  /\ currentTest' = Following(currentTest)
  /\ logged' = [logged EXCEPT ![currentTest] = IF currentTest \in isWaiting' THEN @ ELSE Status(currentTest)]
  /\ UNCHANGED <<result, late>>

PostResults ==
  /\ next \in {"now", "timer"} /\ currentTest \notin Tests
  /\ result' = Result
  /\ next' = "over"
  /\ UNCHANGED <<currentTest, isWaiting, parts, failures, errors, logged, late, up>>

\* A callback a test left behind asserts something, between two timers.
LateAssert(t) ==
  /\ next # "now" /\ parts[t] > 0 /\ late < MaxLate
  /\ late' = late + 1
  /\ failures' = Counted(failures, t, TRUE)
  /\ UNCHANGED <<currentTest, next, isWaiting, parts, errors, logged, result, up>>

Init ==
  /\ currentTest = 1 /\ next = "timer"
  /\ isWaiting = {} /\ up = {}
  /\ parts = [t \in Tests |-> 0]
  /\ failures = [t \in Tests |-> 0] /\ errors = [t \in Tests |-> 0]
  /\ logged = [t \in Tests |-> "none"] /\ result = "none" /\ late = 0

Next == RunTests \/ PostResults \/ \E t \in Tests : LateAssert(t)

Spec == Init /\ [][Next]_vars

\* Timers fire and scripts go on.
Fairness == WF_vars(RunTests \/ PostResults)

FairSpec == Spec /\ Fairness

-----------------------------------------------------------------------------
TypeOK ==
  /\ currentTest \in 1..(Count + 1) /\ next \in {"now", "timer", "over"}
  /\ isWaiting \subseteq Tests /\ up \subseteq Tests
  /\ parts \in [Tests -> 0..MaxParts]
  /\ failures \in [Tests -> 0..(MaxParts + MaxLate)] /\ errors \in [Tests -> 0..MaxParts]
  /\ logged \in [Tests -> {"none", "passed", "failed", "error"}]
  /\ result \in {"none", "SUCCESS", "FAILURE", "ERROR"} /\ late \in 0..MaxLate

\* Between two calls of runTests only the current test is set up, and only while
\* it waits: whatever threw, it was torn down before the next one was set up.
Isolated == up = isWaiting /\ up \subseteq {currentTest}

\* What the log shows agrees with the result: a success has no test that failed,
\* in any of its parts, and anything else has one that failed or whose callback did.
Agrees ==
  /\ result = "SUCCESS" => \A t \in Tests : logged[t] = "passed"
  /\ result \in {"FAILURE", "ERROR"} => late > 0 \/ \E t \in Tests : logged[t] # "passed"

\* A failure and an exception of a test stay, through all its parts.
Remembered ==
  \A t \in Tests : failures[t] > 0 \/ errors[t] > 0 => logged'[t] # "passed" \/ logged[t] = "passed"

\* The result is posted in the end, however the tests fail and wait.
Posted == <>(result # "none")
=============================================================================

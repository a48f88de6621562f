---------------------------- MODULE AjaxRequest ----------------------------
(***************************************************************************)
(* Ajax.Request of prototype.js, asynchronous, with the responders that    *)
(* count the requests under way.  The transport (the browser's             *)
(* XMLHttpRequest) may signal its last state more than once.  A callback   *)
(* of the page may throw, and it may hold up the page in a dialog, during  *)
(* which other events are handled: the end of a request is two steps.      *)
(***************************************************************************)
EXTENDS Integers, FiniteSets

CONSTANTS
  Requests,
  Throwing        \* those whose callbacks, open or send may throw

ASSUME AjaxRequestAssumption == IsFiniteSet(Requests) /\ Throwing \subseteq Requests

VARIABLES
  readyState,          \* of each transport; 0 before open
  listening,           \* onreadystatechange is still set
  deferred,            \* the call that reports Loading is still to come
  complete,            \* _complete
  finishing,           \* success or failure was reported, completion was not
  sent,                \* requests that were created
  ended,               \* requests whose last callback has run
  activeRequestCount,
  results,             \* times success or failure was reported
  completions          \* times completion was reported

vars == <<readyState, listening, deferred, complete, finishing, sent, ended,
          activeRequestCount, results, completions>>

Init ==
  /\ readyState = [r \in Requests |-> 0]
  /\ listening = {} /\ deferred = {} /\ complete = {} /\ finishing = {}
  /\ sent = {} /\ ended = {}
  /\ activeRequestCount = 0
  /\ results = [r \in Requests |-> 0]
  /\ completions = [r \in Requests |-> 0]

-----------------------------------------------------------------------------
(* Faulty variants of the helpers below; no action uses them. *)

AnyState(r, state) == TRUE
CountedLate(r) == activeRequestCount

-----------------------------------------------------------------------------
CountAfterCreate(r) == activeRequestCount + 1

\* A request that cannot be opened or sent throws after it has been counted.
Request(r) ==
  /\ r \notin sent
  /\ sent' = sent \cup {r}
  /\ activeRequestCount' = CountAfterCreate(r)
  /\ \/ /\ readyState' = [readyState EXCEPT ![r] = 1]
        /\ deferred' = deferred \cup {r}
        /\ listening' = listening \cup {r}
        /\ UNCHANGED ended
     \/ /\ r \in Throwing
        /\ ended' = ended \cup {r}
        /\ UNCHANGED <<readyState, deferred, listening>>
  /\ UNCHANGED <<complete, finishing, results, completions>>

\* respondToReadyState(1), ten milliseconds later: the answer may have come.
Loading(r) ==
  /\ r \in deferred
  /\ deferred' = deferred \ {r}
  /\ UNCHANGED <<readyState, listening, complete, finishing, sent, ended,
                 activeRequestCount, results, completions>>

\* The test of onStateChange.
Responds(r, state) == state > 1 /\ ~(state = 4 /\ r \in complete)

\* The transport signals Loaded or Interactive.
Progress(r) ==
  /\ r \in listening
  /\ readyState[r] \in 1..2
  /\ readyState' = [readyState EXCEPT ![r] = @ + 1]
  /\ UNCHANGED <<listening, deferred, complete, finishing, sent, ended,
                 activeRequestCount, results, completions>>

\* The transport signals its last state; success or failure is reported.
Answer(r) ==
  /\ r \in listening
  /\ readyState[r] \in {3, 4}
  /\ readyState' = [readyState EXCEPT ![r] = 4]
  /\ IF Responds(r, 4)
     THEN /\ complete' = complete \cup {r}
          /\ finishing' = finishing \cup {r}
          /\ results' = [results EXCEPT ![r] = @ + 1]
     ELSE UNCHANGED <<complete, finishing, results>>
  /\ UNCHANGED <<listening, deferred, sent, ended, activeRequestCount, completions>>

\* When onComplete throws, the responders hear nothing of the completion.
CountAfterComplete(thrown) == IF thrown THEN activeRequestCount ELSE activeRequestCount - 1

Complete(r) ==
  /\ r \in finishing
  /\ finishing' = finishing \ {r}
  /\ completions' = [completions EXCEPT ![r] = @ + 1]
  /\ \E thrown \in BOOLEAN :
        /\ thrown => r \in Throwing
        /\ activeRequestCount' = CountAfterComplete(thrown)
  /\ listening' = listening \ {r}
  /\ ended' = ended \cup {r}
  /\ UNCHANGED <<readyState, deferred, complete, sent, results>>

Next ==
  \E r \in Requests : Request(r) \/ Loading(r) \/ Progress(r) \/ Answer(r) \/ Complete(r)

Spec == Init /\ [][Next]_vars

\* The server answers and callbacks return.
Fairness == \A r \in Requests : WF_vars(Progress(r)) /\ WF_vars(Answer(r)) /\ WF_vars(Complete(r))

FairSpec == Spec /\ Fairness

-----------------------------------------------------------------------------
TypeOK ==
  /\ readyState \in [Requests -> 0..4]
  /\ \A s \in {listening, deferred, complete, finishing, sent, ended} : s \subseteq Requests
  /\ activeRequestCount \in 0..Cardinality(Requests)
  /\ results \in [Requests -> Nat]
  /\ completions \in [Requests -> Nat]

\* However often the transport signals its end, and whatever else happens while
\* a callback holds up the page, a request reports success or failure once, and
\* its completion once and after that.
CompletesOnce ==
  \A r \in Requests : completions[r] <= results[r] /\ results[r] <= 1

\* The count that pages show their busy sign by is the number of requests under
\* way; only one in whose callbacks the page throws may be counted after its end,
\* and whatever throws, none under way is missing.
CountExact ==
  /\ activeRequestCount >= Cardinality(sent \ ended)
  /\ activeRequestCount <= Cardinality((sent \ ended) \cup (sent \cap Throwing))

\* Every request that was sent comes to its end.
AllEnd == \A r \in Requests : (r \in sent) ~> (r \in ended)
=============================================================================

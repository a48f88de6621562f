------------------------------ MODULE MCScripts ------------------------------
(***************************************************************************)
(* The runner of tests and the event registry, side by side: `part' names  *)
(* the one that moves, with its options, and the other rests.              *)
(***************************************************************************)
EXTENDS TestRunner

CONSTANTS
  Elements, NoElement, ParentOf, Custom, Standard, Handlers, Pages, MaxUID, MaxEvents, MaxDepth

VARIABLES
  part,
  page, uid, nextUID, cache, listeners, responders, frames, events

-----------------------------------------------------------------------------
(* Two elements, one inside the other; two custom events, or one and click *)
(* with two handlers.                                                      *)

ChildOfRoot == [e \in {"child", "root"} |-> IF e = "child" THEN "root" ELSE "none"]

Customs == [names |-> {"a:b", "c:d"}, handlers |-> {"h"}, responders |-> 3]
Click == [names |-> {"a:b", "click"}, handlers |-> {"h", "k"}, responders |-> 2]
CustomsOrClick == {Customs, Click}

Registry == INSTANCE EventRegistry

ASSUME ScriptsAssumption == Registry!EventRegistryAssumption

registryVars == <<page, uid, nextUID, cache, listeners, responders, frames, events>>
allVars == <<part, vars, registryVars>>

Parts == {"tests", "registry"}

\* What rests has one of its initial states.
AllInit ==
  /\ part \in Parts
  /\ Init
  /\ Registry!Init /\ (part = "registry" \/ page = CHOOSE p \in Pages : TRUE)

Moves(p) ==
  /\ part = p
  /\ IF p = "tests" THEN Next ELSE UNCHANGED vars
  /\ IF p = "registry" THEN Registry!Next ELSE UNCHANGED registryVars
  /\ UNCHANGED part

AllNext == \E p \in Parts : Moves(p)

\* Timers fire; tests that rest are not waited for.
AllSpec ==
  /\ AllInit /\ [][AllNext]_allVars
  /\ WF_vars(part = "tests" /\ (RunTests \/ PostResults))

-----------------------------------------------------------------------------
\* The registry and the browser hold the same responders in the same order,
\* under the element that has their id; and an event calls every handler that
\* stays registered on its way, once.
RegistrySound ==
  /\ Registry!TypeOK /\ Registry!Mirrored /\ Registry!Owned
  /\ Registry!CalledOnce /\ Registry!ServedAll

\* The tests do not run into each other, and the log agrees with the result.
TestsSound == TypeOK /\ Isolated /\ Agrees

\* No handler is called that is not registered any more, whatever the handlers
\* before it did, and what a test failed is remembered.
ScriptsMove == [][Registry!CallsRegistered /\ Remembered]_allVars

\* The result of the tests is posted in the end.
ScriptsEnd == part = "tests" => Posted
=============================================================================

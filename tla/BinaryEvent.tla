---------------------------- MODULE BinaryEvent ----------------------------
(***************************************************************************)
(* What the classes named ...BinarySemaphore promise: a flag that signal   *)
(* raises and that a thread in await lowers before it returns.  Signals    *)
(* that find the flag raised are one signal; each raised flag lets one     *)
(* thread through, and does so in the end if some thread is in await.      *)
(***************************************************************************)
CONSTANT Waiters

VARIABLES raised, waiting

eventVars == <<raised, waiting>>

EventInit ==
  /\ raised = FALSE
  /\ waiting = {}

Signal ==
  /\ raised' = TRUE
  /\ UNCHANGED waiting

Enter(w) ==
  /\ w \notin waiting
  /\ waiting' = waiting \cup {w}
  /\ UNCHANGED raised

Pass(w) ==
  /\ w \in waiting
  /\ raised
  /\ raised' = FALSE
  /\ waiting' = waiting \ {w}

EventNext == Signal \/ \E w \in Waiters : Enter(w) \/ Pass(w)

EventSpec == EventInit /\ [][EventNext]_eventVars

FairEventSpec == EventSpec /\ WF_eventVars(\E w \in Waiters : Pass(w))
=============================================================================

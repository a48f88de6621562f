----------------------------- MODULE Broadcast -----------------------------
(***************************************************************************)
(* What the mesh emulation expects of its queue: every reader receives     *)
(* every message once, in the order in which they were put.  A reader that *)
(* comes later starts where the most advanced one stands.                  *)
(***************************************************************************)
EXTENDS Naturals

CONSTANTS Readers, NotStarted

VARIABLES sent,       \* number of messages put
          received    \* of each reader: the number of the last one, or NotStarted

broadcastVars == <<sent, received>>

Started == {r \in Readers : received[r] # NotStarted}

\* Where the most advanced reader stands.
Front ==
  IF Started = {} THEN 0
  ELSE CHOOSE n \in {received[r] : r \in Started} :
          \A r \in Started : received[r] <= n

BroadcastInit == sent = 0 /\ received = [r \in Readers |-> NotStarted]

Send == sent' = sent + 1 /\ UNCHANGED received

\* Whoever begins before the others have read begins at the first message.
Start(r) ==
  /\ r \notin Started
  /\ received' = [received EXCEPT ![r] = Front]
  /\ UNCHANGED sent

Position(r) == IF r \in Started THEN received[r] ELSE Front

Receive(r) ==
  /\ Position(r) < sent
  /\ received' = [received EXCEPT ![r] = Position(r) + 1]
  /\ UNCHANGED sent

BroadcastSpec ==
  /\ BroadcastInit
  /\ [][Send \/ \E r \in Readers : Start(r) \/ Receive(r)]_broadcastVars
=============================================================================

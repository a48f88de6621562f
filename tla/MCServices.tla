----------------------------- MODULE MCServices -----------------------------
(***************************************************************************)
(* The allocation, the scheduler that asks for it, the queue of the mesh   *)
(* emulation, the message consumer and the earlier persist queue, side by  *)
(* side: `part' names the one that moves, and the others rest.             *)
(***************************************************************************)
EXTENDS Allocation

CONSTANTS
  NumJobs, NumWorkers, MaxRuns,
  Writers, NoPosition,
  RingReaders, RingSlots, RingPuts,   \* more messages than slots
  MeshReaders, MeshSlots, MeshPuts,   \* fewer messages than slots
  NumMessages, Wanted, MaxSessions,
  Fillers, PushSize, BatchSize

VARIABLES
  part,
  schedulerPc, runs, cached, option, tasks, submitted, job_i, job_j, cell,
  distances, worker, job, allocations,
  items, putptr, takeptr, local, readerPc, puts, taken,
  slots, slotPut, slotTake, slotLocal, slotPc, slotPuts, slotTaken,
  started, sessions, next, messages, flushed, waiterPc, wait, expired,
  dataQueue, controlQueue, pushes, flushPc, copied, size, batch, accepted, saved

Scheduler == INSTANCE SchedulerRun
               WITH pc <- schedulerPc, result <- option, i <- job_i, j <- job_j,
                    matrix <- distances, allocated <- allocations

Ring == INSTANCE MeshQueue
          WITH Readers <- RingReaders, Capacity <- RingSlots, MaxPuts <- RingPuts,
               items <- slots, putptr <- slotPut, takeptr <- slotTake,
               local <- slotLocal, readerPc <- slotPc, puts <- slotPuts,
               taken <- slotTaken

Mesh == INSTANCE MeshQueue
          WITH Readers <- MeshReaders, Capacity <- MeshSlots, MaxPuts <- MeshPuts

Consumer == INSTANCE MessageConsumer

Legacy == INSTANCE LegacyPersist WITH pc <- flushPc, i <- copied

ASSUME ServicesAssumption ==
  /\ Scheduler!SchedulerAssumption /\ Ring!MeshAssumption /\ Mesh!MeshAssumption
  /\ MeshPuts < MeshSlots
  /\ Consumer!ConsumerAssumption /\ Legacy!LegacyPersistAssumption

schedulerVars == <<schedulerPc, runs, cached, option, tasks, submitted, job_i, job_j,
                   cell, distances, worker, job, allocations>>
ringVars == <<slots, slotPut, slotTake, slotLocal, slotPc, slotPuts, slotTaken>>
meshVars == <<items, putptr, takeptr, local, readerPc, puts, taken>>
consumerVars == <<started, sessions, next, messages, flushed, waiterPc, wait, expired>>
legacyVars == <<dataQueue, controlQueue, pushes, flushPc, copied, size, batch,
                accepted, saved>>
allVars == <<part, vars, schedulerVars, ringVars, meshVars, consumerVars, legacyVars>>

-----------------------------------------------------------------------------
Square(n, values) == [0..(n - 1) -> [0..(n - 1) -> values]]

\* No row, one row, two rows of three costs, three rows of two costs.
SmallMatrices ==
  Square(0, {0}) \cup Square(1, 0..1) \cup Square(2, 0..2) \cup Square(3, 0..1)

\* The matrix of AlgorithmTest.check1.
TestMatrices == Square(1, {1})

-----------------------------------------------------------------------------
\* The allocation rests on the matrix without a row.
AllInit ==
  /\ part \in {"allocation", "scheduler", "ring", "mesh", "consumer", "legacy"}
  /\ Init /\ (part = "allocation" \/ Size = 0)
  /\ Scheduler!Init /\ Ring!Init /\ Mesh!Init /\ Consumer!Init /\ Legacy!Init

Moves(p) ==
  /\ part = p
  /\ IF p = "allocation" THEN Next ELSE UNCHANGED vars
  /\ IF p = "scheduler" THEN Scheduler!Next ELSE UNCHANGED schedulerVars
  /\ IF p = "ring" THEN Ring!Next ELSE UNCHANGED ringVars
  /\ IF p = "mesh" THEN Mesh!Next ELSE UNCHANGED meshVars
  /\ IF p = "consumer" THEN Consumer!Next ELSE UNCHANGED consumerVars
  /\ IF p = "legacy" THEN Legacy!Next ELSE UNCHANGED legacyVars
  /\ UNCHANGED part

AllNext ==
  \/ Moves("allocation") \/ Moves("scheduler") \/ Moves("ring") \/ Moves("mesh")
  \/ Moves("consumer") \/ Moves("legacy")

\* What rests has no fair step, or none is asked of it.
AllSpec ==
  /\ AllInit /\ [][AllNext]_allVars
  /\ SearchFairness /\ Scheduler!Fairness /\ Consumer!Fairness
  /\ part = "mesh" => Mesh!Fairness
  /\ part = "legacy" => Legacy!Fairness

\* The allocation by itself, the rounds before the search included.
AllocationSpec == AllInit /\ part = "allocation" /\ [][AllNext]_allVars /\ Fairness

-----------------------------------------------------------------------------
\* What the allocation returns, after any rounds and backtracking, costs least;
\* and the scheduler, though it does not wait for the options, never mixes the
\* distances of two snapshots and leaves jobs and workers that point at each other.
AllocationsSound ==
  /\ TypeOK /\ NonNegative /\ RoundsComeToNothing /\ PartialAllocation /\ Optimal
  /\ Scheduler!TypeOK /\ Scheduler!ZeroOrFirstDistance /\ Scheduler!WorkerHasJob

\* A reader of the ring that is not full, and the buffer of the consumer within one
\* session, receive the messages in the order they were sent, none twice, none
\* skipped.  A reader of the full ring, where slots are written again before they
\* are read, never sees an older message after a newer one and gets through the
\* ring once.  The earlier persist queue, which loses entries, loses fewer than
\* BatchSize - 1 in a row, and saves none again in a later round.
MessagesInOrder ==
  /\ Ring!TypeOK /\ Ring!NeverOlder /\ Ring!OneRound
  /\ Mesh!TypeOK /\ Mesh!ReadsWhatWasSent
  /\ Consumer!TypeOK /\ Consumer!OncePerSession /\ Consumer!NothingSkipped
  /\ Legacy!TypeOK /\ Legacy!LossIsBounded /\ Legacy!HeadLeaves

\* While there are fewer messages than slots, the ring is a broadcast.
BroadcastImplemented == Mesh!BroadcastImplemented

\* What was begun comes to its end: the search, the options handed over, the
\* delivery to each reader, a call that waits for messages that have arrived,
\* the emptying of the queue.
WorkEnds ==
  /\ SearchEnds
  /\ Scheduler!AllCalculated
  /\ part = "mesh" => Mesh!AllDelivered
  /\ Consumer!EndsWhenEnough /\ Consumer!ReturnsForAReason
  /\ part = "legacy" => Legacy!Drained
=============================================================================

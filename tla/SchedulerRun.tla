---------------------------- MODULE SchedulerRun ----------------------------
(***************************************************************************)
(* SchedulerImpl.run, one call after another, with the cache of options,   *)
(* the single-threaded executor that calculates them, and the snapshot,    *)
(* which is replaced between calls.  A distance is 1 + the number of the   *)
(* snapshot it is taken from, and an option that was never calculated has  *)
(* the result 0, as in Java.                                               *)
(***************************************************************************)
EXTENDS Naturals, Sequences, Functions

CONSTANTS NumJobs, NumWorkers,
          MaxRuns       \* bound: calls of run

SchedulerAssumption == NumJobs \in Nat /\ NumWorkers \in Nat /\ MaxRuns \in Nat

Jobs == 1..NumJobs
Workers == 1..NumWorkers
Pairs == Jobs \X Workers
None == 0

VARIABLES
  pc,          \* "idle", "submit", "read" or "thrown"
  runs,        \* calls of run; the snapshot of the last one has this number
  cached,      \* for each pair: the snapshot its option was made from, or None
  result,      \* of each option
  tasks,       \* queue of the executor
  submitted,   \* options handed to the executor by this run
  i, j,        \* indices of calculateAllocation
  cell,        \* pairs read by this run
  matrix,
  worker,      \* Job.assignedWorker
  job,         \* Worker.assignedJob
  allocated    \* calls of run that called allocateMatrix

vars == <<pc, runs, cached, result, tasks, submitted, i, j, cell, matrix, worker,
          job, allocated>>

Init ==
  /\ pc = "idle"
  /\ runs = 0
  /\ cached = [p \in Pairs |-> None]
  /\ result = [p \in Pairs |-> 0]
  /\ tasks = <<>>
  /\ submitted = 0
  /\ i = 0 /\ j = 0 /\ cell = 0
  /\ matrix = [p \in Pairs |-> 0]
  /\ worker = [a \in Jobs |-> None]
  /\ job = [w \in Workers |-> None]
  /\ allocated = 0

\* The pairs in the order of both nested loops.
PairAt(n) == <<1 + (n \div NumWorkers), 1 + (n % NumWorkers)>>
NumPairs == NumJobs * NumWorkers

Distance(snapshot) == 1 + snapshot

-----------------------------------------------------------------------------
(* Faulty variants of the helpers below; no action uses them. *)

OnlyOneTask == <<>>

-----------------------------------------------------------------------------
\* The cache gives back the option made for the pair of ids first seen, which
\* holds the job and the worker of that snapshot.
GetOption(p, run) == IF cached[p] # None THEN cached[p] ELSE run

Run ==
  /\ pc = "idle"
  /\ runs < MaxRuns
  /\ runs' = runs + 1
  /\ cached' = [p \in Pairs |-> GetOption(p, runs + 1)]
  /\ pc' = "submit"
  /\ submitted' = 0
  /\ UNCHANGED <<result, tasks, i, j, cell, matrix, worker, job, allocated>>

Submit ==
  /\ pc = "submit"
  /\ submitted < NumPairs
  /\ tasks' = Append(tasks, PairAt(submitted))
  /\ submitted' = submitted + 1
  /\ UNCHANGED <<pc, runs, cached, result, i, j, cell, matrix, worker, job, allocated>>

\* execute returns when all is submitted; nothing waits for the results.
BeginRead ==
  /\ pc = "submit"
  /\ submitted = NumPairs
  /\ pc' = "read"
  /\ i' = 0 /\ j' = 0 /\ cell' = 0
  /\ UNCHANGED <<runs, cached, result, tasks, submitted, matrix, worker, job, allocated>>

Calculated(p) == Distance(cached[p])

TasksLeft == Tail(tasks)

\* The thread of the executor calculates the next option.
Calculate ==
  /\ tasks # <<>>
  /\ result' = [result EXCEPT ![Head(tasks)] = Calculated(Head(tasks))]
  /\ tasks' = TasksLeft
  /\ UNCHANGED <<pc, runs, cached, submitted, i, j, cell, matrix, worker, job, allocated>>

\* matrix[i][j]; j runs on from one job to the next.
Column == j + 1

ReadResult ==
  /\ pc = "read"
  /\ cell < NumPairs
  /\ LET p == PairAt(cell)
     IN  IF Column \in Workers
         THEN /\ matrix' = [matrix EXCEPT ![<<i + 1, Column>>] = result[p]]
              /\ j' = j + 1
              /\ i' = IF p[2] = NumWorkers THEN i + 1 ELSE i
              /\ cell' = cell + 1
              /\ UNCHANGED pc
         ELSE /\ pc' = "thrown"   \* ArrayIndexOutOfBoundsException
              /\ UNCHANGED <<matrix, i, j, cell>>
  /\ UNCHANGED <<runs, cached, result, tasks, submitted, worker, job, allocated>>

\* Whatever the algorithm service returns: a worker for each job.
Allocations == {a \in [Jobs -> Workers] : IsInjective(a)}

\* Worker.setAssignedJob, for the workers of the allocation only.
JobsAfter(a) ==
  [w \in Workers |-> IF \E b \in Jobs : a[b] = w THEN CHOOSE b \in Jobs : a[b] = w ELSE job[w]]

Allocate ==
  /\ pc = "read"
  /\ cell = NumPairs
  /\ allocated' = allocated + 1
  /\ \E a \in Allocations :
        /\ worker' = a
        /\ job' = JobsAfter(a)
  /\ pc' = "idle"
  /\ UNCHANGED <<runs, cached, result, tasks, submitted, i, j, cell, matrix>>

Next == Run \/ Submit \/ BeginRead \/ Calculate \/ ReadResult \/ Allocate

Spec == Init /\ [][Next]_vars

\* The executor's thread works off its queue, and a run goes on.
Fairness ==
  /\ WF_vars(Calculate)
  /\ WF_vars(Submit \/ BeginRead \/ ReadResult \/ Allocate)

FairSpec == Spec /\ Fairness

-----------------------------------------------------------------------------
TypeOK ==
  /\ pc \in {"idle", "submit", "read", "thrown"}
  /\ runs \in 0..MaxRuns /\ allocated \in 0..MaxRuns
  /\ cached \in [Pairs -> 0..MaxRuns]
  /\ result \in [Pairs -> 0..(MaxRuns + 1)]
  /\ tasks \in Seq(Pairs)
  /\ submitted \in 0..NumPairs /\ cell \in 0..NumPairs
  /\ i \in 0..NumJobs /\ j \in 0..NumWorkers
  /\ matrix \in [Pairs -> 0..(MaxRuns + 1)]
  /\ worker \in [Jobs -> Workers \cup {None}]
  /\ job \in [Workers -> Jobs \cup {None}]

\* What the race between the executor and the reader can leave in the matrix:
\* the distance in the snapshot that first had the pair, or nothing yet.
ZeroOrFirstDistance == \A p \in Pairs : matrix[p] \in {0, Distance(1)}

\* A job's worker has that job, whatever earlier runs assigned.
WorkerHasJob ==
  pc = "idle" => \A a \in Jobs : worker[a] # None => job[worker[a]] = a

\* Every option handed over is calculated in the end.
AllCalculated == \A p \in Pairs : (pc = "read" /\ cell = 0) ~> result[p] # 0

=============================================================================

----------------------------- MODULE PersistLog -----------------------------
(***************************************************************************)
(* What the asynchronous persist queue promises to the threads that call   *)
(* QueueFrontService.save: a log with at-least-once delivery to the        *)
(* QueueConsumer.                                                          *)
(*                                                                         *)
(* `accepted' is every entry handed to the front service, in the order in  *)
(* which the data queue took them; `stored' is every entry the consumer    *)
(* has made durable, in that order, repetitions included; the first `done' *)
(* accepted entries are confirmed: a save that contained them returned.    *)
(* An attempt that does not return leaves some prefix of its batch stored  *)
(* and confirms nothing.                                                   *)
(***************************************************************************)
EXTENDS Naturals, Sequences

CONSTANTS Entry,        \* what a caller can hand over
          BatchSize     \* most entries given to the consumer at once

VARIABLES accepted, stored, done

logVars == <<accepted, stored, done>>

\* The n accepted entries that follow the confirmed ones.
Following(n) == SubSeq(accepted, done + 1, done + n)

LogInit ==
  /\ accepted = <<>>
  /\ stored = <<>>
  /\ done = 0

Accept(e) ==
  /\ \A k \in 1..Len(accepted) : accepted[k] # e
  /\ accepted' = Append(accepted, e)
  /\ UNCHANGED <<stored, done>>

Confirm(n) ==
  /\ done + n <= Len(accepted)
  /\ stored' = stored \o Following(n)
  /\ done' = done + n
  /\ UNCHANGED accepted

Attempt(n) ==
  /\ done + n <= Len(accepted)
  /\ stored' = stored \o Following(n)
  /\ UNCHANGED <<accepted, done>>

LogNext ==
  \/ \E e \in Entry : Accept(e)
  \/ \E n \in 1..BatchSize : Confirm(n) \/ Attempt(n)

LogSpec == LogInit /\ [][LogNext]_logVars

-----------------------------------------------------------------------------
LogTypeOK ==
  /\ accepted \in Seq(Entry)
  /\ stored \in Seq(Entry)
  /\ done \in 0..Len(accepted)

\* An entry is accepted once: the callers hand over distinct objects.
AcceptedOnce ==
  \A j, k \in 1..Len(accepted) : accepted[j] = accepted[k] => j = k

\* A confirmed entry is durable.
ConfirmedIsStored ==
  \A k \in 1..done : \E i \in 1..Len(stored) : stored[i] = accepted[k]

\* The consumer sees the entries in the order in which they were accepted:
\* when it first stores one, it already holds everything accepted before it.
StoredInOrder ==
  \A i \in 1..Len(stored), k \in 1..Len(accepted) :
     stored[i] = accepted[k] =>
        \A j \in 1..(k - 1) : \E m \in 1..(i - 1) : stored[m] = accepted[j]
=============================================================================

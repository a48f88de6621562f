------------------------ MODULE MCTransactionManager ------------------------
(***************************************************************************)
(* Three Lockables in the order of their creation, and requests for TLC:   *)
(* two transactions with any lists, or three whose lists overlap in a      *)
(* cycle.                                                                  *)
(***************************************************************************)
EXTENDS TransactionManager, TLC

CONSTANTS a, b, c,
          Third      \* a transaction of the cycle only

CreationOrder == (a :> 0) @@ (b :> 1) @@ (c :> 2)

Request(r, w) == [readLocks |-> r, writeLocks |-> w]

\* No lock, one lock, two in either order, and the same one twice.
Lists == {<<>>, <<a>>, <<b>>, <<c>>, <<a, b>>, <<b, a>>, <<c, b>>, <<b, b>>}
AllRequests == {Request(r, w) : r, w \in Lists}

CycleRequests ==
  {Request(<<b>>, <<a>>), Request(<<c>>, <<b>>), Request(<<a>>, <<c>>),
   Request(<<a, b>>, <<>>)}

\* A transaction that reads and writes the same Lockable.
OverlapRequests == {Request(<<a>>, <<a>>), Request(<<b>>, <<a, c>>)}

\* Two nodes that share a neighbour are deleted.
DeleteRequests == {DeleteRequest(<<a, b>>), DeleteRequest(<<b, c>>)}

\* The third transaction rests unless there is a cycle.
Nothing == Request(<<>>, <<>>)
Rests(t) == t = Third /\ request[t] = Nothing

AllInit ==
  /\ Init
  /\ Rests(Third) \/ request \in [Txns -> CycleRequests]

AllNext == \E t \in Txns : ~Rests(t) /\ (Step(t) \/ Retry(t))

AllSpec == AllInit /\ [][AllNext]_vars

Symmetry == Permutations(Txns \ {Third})
=============================================================================

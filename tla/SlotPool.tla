------------------------------ MODULE SlotPool ------------------------------
(***************************************************************************)
(* What the review slots promise: a pool of Limit slots, each held by one  *)
(* request at a time.  A request that holds a slot gives it back once; a   *)
(* restart of the host empties the pool.                                   *)
(***************************************************************************)
EXTENDS Naturals, FiniteSets

CONSTANTS Request, Limit

VARIABLE holders

PoolTypeOK == holders \subseteq Request

PoolInit == holders = {}

TakeSlot(r) ==
    /\ r \notin holders
    /\ Cardinality(holders) < Limit
    /\ holders' = holders \cup {r}

GiveBack(r) ==
    /\ r \in holders
    /\ holders' = holders \ {r}

EmptyPool == holders' = {}

PoolNext == (\E r \in Request : TakeSlot(r) \/ GiveBack(r)) \/ EmptyPool

PoolSpec == PoolInit /\ [][PoolNext]_holders
=============================================================================

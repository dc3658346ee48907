----------------------------- MODULE CommitOnce -----------------------------
(* What a batch of review comments promises, with no journal, thread or    *)
(* crash: its id is claimed by one request for good, its deletions begin   *)
(* when all its additions are on GitHub, and it is committed once, when    *)
(* nothing of the request is left to do.                                   *)
CONSTANTS Ids, Requests, None

VARIABLES
  claim,        \* the request that owns an id
  removed,      \* the deletions of a batch that are through
  committed,    \* the ids with a receipt
  added         \* the additions that have reached GitHub, some before any batch

vars == <<claim, removed, committed, added>>

Init ==
  /\ claim = [i \in Ids |-> None]
  /\ removed = [i \in Ids |-> {}]
  /\ committed = {}
  /\ added \subseteq UNION {q.adds : q \in Requests}

Claim(i) ==
  /\ claim[i] = None
  /\ \E q \in Requests : q.id = i /\ claim' = [claim EXCEPT ![i] = q]
  /\ UNCHANGED <<removed, committed, added>>

(* Posted for a batch, or by anyone else who has the same finding. *)
Post ==
  /\ added \subseteq added'
  /\ UNCHANGED <<claim, removed, committed>>

Remove(i) ==
  /\ claim[i] # None
  /\ i \notin committed
  /\ claim[i].adds \subseteq added
  /\ \E d \in claim[i].dels \ removed[i] : removed' = [removed EXCEPT ![i] = @ \cup {d}]
  /\ UNCHANGED <<claim, committed, added>>

Commit(i) ==
  /\ claim[i] # None
  /\ i \notin committed
  /\ claim[i].adds \subseteq added
  /\ claim[i].dels = removed[i]
  /\ committed' = committed \cup {i}
  /\ UNCHANGED <<claim, removed, added>>

Next == Post \/ \E i \in Ids : Claim(i) \/ Remove(i) \/ Commit(i)

Spec == Init /\ [][Next]_vars
================================================================================

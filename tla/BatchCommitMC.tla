---------------------------- MODULE BatchCommitMC ----------------------------
(* Instances of BatchCommit: one chat session on a pending review r1 that   *)
(* holds the draft of o; a and x are what the batches add.                  *)
EXTENDS BatchCommit, TLC

CONSTANTS a, x, o, c1, c2, r1

KeyOf == [y \in Artifacts |-> IF y = a THEN 1 ELSE IF y = x THEN 2 ELSE 3]
KeySet == 1..3
NoBatches == {}
Drafts == {<<r1, o>>}

Ask(i, adds, dels) == [id |-> i, adds |-> adds, dels |-> dels]

(* A batch and its retry. *)
Retry == (c1 :> Ask("B1", {a, x}, Drafts)) @@ (c2 :> Ask("B1", {a, x}, Drafts))
(* Two requests that use one id. *)
Clash == (c1 :> Ask("B1", {a}, Drafts)) @@ (c2 :> Ask("B1", {a}, {}))
(* Two batches of the session, the second of which deletes what the first adds. *)
Sequel == (c1 :> Ask("B1", {a}, Drafts)) @@ (c2 :> Ask("B2", {x}, {<<r1, a>>}))
(* A batch with nothing in it, and one that only deletes. *)
Small == (c1 :> Ask("B1", {}, {})) @@ (c2 :> Ask("B2", {}, Drafts))
AllPlans == {Retry, Clash, Sequel, Small}
SequelOnly == {Sequel}
(* One batch on its own. *)
Single == {c1 :> Ask("B1", {a}, Drafts)}
================================================================================

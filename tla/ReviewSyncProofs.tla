--------------------------- MODULE ReviewSyncProofs ---------------------------
(***************************************************************************)
(* Proofs about ReviewSync and BatchCommit.  The first part: the gate      *)
(* excludes, and no review gets a second copy of a finding, which rests on *)
(* what a call knows when it appends: either nothing it may append is      *)
(* left, or it knows the key of every finding of this program in the       *)
(* review (Listed).  The second part: the store's sync states tell the     *)
(* truth about GitHub.  What a call writes back it decided earlier, from   *)
(* copies, discovered reviews and listed comments; all of these stay true  *)
(* because what a review ever held is never forgotten.  The third part:    *)
(* the commits of batches keep both, and they implement CommitOnce.  A     *)
(* commit's locals are compared with the journal on disk (Fits): they      *)
(* agree with it wherever the next step is decided from them.              *)
(***************************************************************************)
EXTENDS BatchCommit, TLAPS, FiniteSetTheorems

(* The findings of a batch are different ones, and a page shows them all.  *)
PagesSuffice == IsFiniteSet(Artifacts) /\ Cardinality(Artifacts) <= PageSize
Distinct(b) == \A x, y \in b \cap Findings : Key[x] = Key[y] => x = y
BatchesDistinct == \A b \in Batches : Distinct(b)

(* A call may append only what it knows not to be in the review. *)
Listed(f, cs) ==
  \/ Unstaged(f) = {}
  \/ \A a \in Artifacts : cs[f.found][a] > 0 => Key[a] \in f.keys

(* What a call's locals are when it is at label to, cs being the comments. *)
FrameOK(f, to, cs) ==
  /\ to \in Inside \cup {"gate"} => Distinct(f.batch)
  /\ to \in {"list", "stage"} => f.found \in Reviews
  /\ to = "stage" => Listed(f, cs)
  /\ to = "apply" => \A a \in f.batch : f.out[a] \in SyncStates

(* The locals of all calls. *)
FramesOK ==
  \A c \in Calls :
    /\ FrameOK(frame[c], pc[c], copies)
    /\ pc[c] = "apply" => frame[c].todo \subseteq frame[c].batch

(* The invariant the theorems rest on. *)
IInv == TypeOK /\ GateExcludes /\ OneCopyPerFinding /\ FramesOK

-------------------------------------------------------------------------------
(* Locals *)

LEMMA StatesTyped ==
  /\ LocalOnly \in SyncStates
  /\ \A r \in Reviews : Pending(r) \in SyncStates /\ Synced(r) \in SyncStates
  BY DEF SyncStates

LEMMA NoneIsNone ==
  /\ None \notin Calls /\ None \notin Artifacts /\ None \notin Reviews
  /\ None \notin SyncStates
  /\ \A s \in SyncStates : NeedsSync(s) /\ s.kind = "pending" => s.review \in Reviews
  BY ParametersOK DEF SyncStates, LocalOnly, Pending, Synced, NeedsSync

LEMMA IdleTyped == Idle \in Frames
  BY StatesTyped DEF Idle, Frames

(* Writing an outcome, or all of a set's, leaves the rest of the locals. *)
LEMMA OutTyped ==
  ASSUME NEW f \in Frames, NEW o \in [Artifacts -> SyncStates \cup {None}]
  PROVE  /\ [f EXCEPT !.out = o] \in Frames
         /\ [f EXCEPT !.out = o].out = o
         /\ [f EXCEPT !.out = o].batch = f.batch
         /\ [f EXCEPT !.out = o].found = f.found
         /\ [f EXCEPT !.out = o].copy = f.copy
         /\ [f EXCEPT !.out = o].keys = f.keys
         /\ [f EXCEPT !.out = o].marked = f.marked
  BY DEF Frames

LEMMA CopyTyped ==
  ASSUME NEW f \in Frames, NEW o \in [Artifacts -> SyncStates]
  PROVE  /\ [f EXCEPT !.copy = o] \in Frames
         /\ [f EXCEPT !.copy = o].batch = f.batch
         /\ [f EXCEPT !.copy = o].found = f.found
  BY DEF Frames

LEMMA RemainingTyped ==
  ASSUME NEW f \in Frames
  PROVE  Remaining(f) \subseteq f.batch /\ f.batch \subseteq Artifacts
  BY DEF Frames, Remaining

(* More outcomes leave less to stage. *)
LEMMA FewerUnstaged ==
  ASSUME NEW f \in Frames, NEW g \in Frames,
         g.batch = f.batch, g.copy = f.copy, g.found = f.found,
         \A x \in Artifacts : g.out[x] = None => f.out[x] = None
  PROVE  Unstaged(g) \subseteq Unstaged(f)
  BY DEF Unstaged, Remaining, References, Frames

(* With nothing remaining every outcome is known. *)
LEMMA AllKnown ==
  ASSUME NEW f \in Frames, Remaining(f) = {}
  PROVE  \A a \in f.batch : f.out[a] \in SyncStates
  BY DEF Remaining, Frames

(* Discovery and fetching lead to no label their result does not allow. *)
LEMMA AfterDiscoveryOK ==
  ASSUME NEW f \in Frames, Distinct(f.batch), NEW cs
  PROVE  /\ AfterDiscovery(f) \in Pcs
         /\ FrameOK(f, AfterDiscovery(f), cs)
  BY AllKnown DEF AfterDiscovery, FrameOK, Listed, Pcs, Inside, Ended, Frames

LEMMA DiscoveredTyped ==
  ASSUME TypeOK, NEW f \in Frames, NEW listed
  PROVE  /\ Discovered(f, listed) \in Frames
         /\ Discovered(f, listed).batch = f.batch
  <1>1. CASE PendingReviews \cap listed = {}
    BY <1>1 DEF Discovered, Frames
  <1>2. CASE PendingReviews \cap listed # {}
    <2>1. PICK r : r \in PendingReviews
      BY <1>2
    <2>2. (CHOOSE q \in PendingReviews : TRUE) \in PendingReviews
      BY <2>1
    <2>3. (CHOOSE q \in PendingReviews : TRUE) \in Reviews
      BY <2>2 DEF PendingReviews
    <2>4. body[CHOOSE q \in PendingReviews : TRUE] \in Artifacts \cup {None, Manual}
      BY <2>3 DEF TypeOK
    <2> QED
      BY <1>2, <2>3, <2>4 DEF Discovered, Frames
  <1> QED
    BY <1>1, <1>2

-------------------------------------------------------------------------------
(* Moving to a label *)

(* The types of what Goto changes. *)
LEMMA GotoTyped ==
  ASSUME TypeOK, NEW c \in Calls, NEW f \in Frames, NEW to \in Pcs, Goto(c, f, to)
  PROVE  /\ frame' \in [Calls -> Frames]
         /\ pc' \in [Calls -> Pcs]
         /\ gate' \in Calls \cup {None}
  <1>1. [f EXCEPT !.todo = f.batch] \in Frames
    BY DEF Frames
  <1> QED
    BY <1>1 DEF Goto, TypeOK

(* A call inside keeps the gate or leaves it; one outside stays outside. *)
LEMMA GotoExcludes ==
  ASSUME TypeOK, GateExcludes, NEW c \in Calls, NEW f \in Frames, NEW to \in Pcs,
         Goto(c, f, to), to \in Inside => pc[c] \in Inside
  PROVE  GateExcludes'
  <1>1. \A d \in Calls : pc'[d] = IF d = c THEN to ELSE pc[d]
    BY DEF Goto, TypeOK
  <1>2. CASE to \in Inside
    <2>1. gate = c /\ gate' = gate
      BY <1>2 DEF GateExcludes, Goto
    <2> QED
      BY <1>1, <1>2, <2>1 DEF GateExcludes
  <1>3. CASE to \notin Inside
    <2>1. gate' = IF gate = c THEN None ELSE gate
      BY <1>3 DEF Goto
    <2> QED
      BY <1>1, <1>3, <2>1, NoneIsNone DEF GateExcludes
  <1> QED
    BY <1>2, <1>3

(* The locals of the others hold as long as comments are changed by the call *)
(* that has the gate only.                                                   *)
LEMMA GotoFrames ==
  ASSUME TypeOK, GateExcludes, FramesOK, NEW c \in Calls, NEW f \in Frames,
         NEW to \in Pcs, Goto(c, f, to), FrameOK(f, to, copies'),
         UNCHANGED copies \/ pc[c] \in Inside
  PROVE  FramesOK'
  <1> SUFFICES ASSUME NEW d \in Calls
               PROVE  /\ FrameOK(frame'[d], pc'[d], copies')
                      /\ pc'[d] = "apply" => frame'[d].todo \subseteq frame'[d].batch
    BY DEF FramesOK
  <1>1. CASE d # c
    <2>1. frame'[d] = frame[d] /\ pc'[d] = pc[d]
      BY <1>1 DEF Goto, TypeOK
    <2>2. /\ FrameOK(frame[d], pc[d], copies)
          /\ pc[d] = "apply" => frame[d].todo \subseteq frame[d].batch
      BY DEF FramesOK
    <2>3. CASE UNCHANGED copies
      BY <2>1, <2>2, <2>3
    <2>4. CASE pc[c] \in Inside
      <3>1. pc[d] # "stage"
        BY <1>1, <2>4 DEF GateExcludes, Inside
      <3> QED
        BY <2>1, <2>2, <3>1 DEF FrameOK
    <2> QED
      BY <2>3, <2>4
  <1>2. CASE d = c
    <2>1. pc'[d] = to
      BY <1>2 DEF Goto, TypeOK
    <2>2. CASE to = "apply"
      <3>1. frame'[d] = [f EXCEPT !.todo = f.batch]
        BY <1>2, <2>2 DEF Goto, TypeOK
      <3>2. /\ frame'[d].batch = f.batch /\ frame'[d].todo = f.batch
            /\ frame'[d].out = f.out
        BY <3>1 DEF Frames
      <3> QED
        BY <2>1, <2>2, <3>2 DEF FrameOK, Inside
    <2>3. CASE to # "apply"
      <3>1. frame'[d] = f
        BY <1>2, <2>3 DEF Goto, TypeOK
      <3> QED
        BY <2>1, <2>3, <3>1
    <2> QED
      BY <2>2, <2>3
  <1> QED
    BY <1>1, <1>2

(* A step that only moves a call, and takes from the bounds. *)
LEMMA MoveKeeps ==
  ASSUME IInv, NEW c \in Calls, NEW f \in Frames, NEW to \in Pcs, Goto(c, f, to),
         to \in Inside => pc[c] \in Inside, FrameOK(f, to, copies),
         UNCHANGED <<storeVars, githubVars>>,
         spent' \in [faults : Nat, restarts : Nat, user : Nat]
  PROVE  IInv'
  <1> USE DEF IInv, storeVars, githubVars
  <1>1. TypeOK'
    BY GotoTyped DEF TypeOK
  <1>2. GateExcludes'
    BY GotoExcludes
  <1>3. FramesOK'
    BY GotoFrames
  <1>4. OneCopyPerFinding'
    BY DEF OneCopyPerFinding, Present
  <1> QED
    BY <1>1, <1>2, <1>3, <1>4

LEMMA RiskTyped ==
  ASSUME TypeOK, NEW lost \in BOOLEAN, Risk(lost)
  PROVE  spent' \in [faults : Nat, restarts : Nat, user : Nat]
  BY DEF TypeOK, Risk

LEMMA FailOK ==
  ASSUME TypeOK, NEW c \in Calls, NEW cs
  PROVE  /\ frame[c] \in Frames /\ "failed" \in Pcs /\ "failed" \notin Inside
         /\ FrameOK(frame[c], "failed", cs)
  BY DEF TypeOK, FrameOK, Pcs, Inside, Ended

-------------------------------------------------------------------------------
(* The actions of a call *)

LEMMA BeginWithInv ==
  ASSUME IInv, NEW c \in Calls, NEW b \in SUBSET Artifacts, Distinct(b),
         NEW copy \in [Artifacts -> SyncStates], BeginWith(c, b, copy),
         UNCHANGED <<storeVars, githubVars, spent>>
  PROVE  IInv'
  <1> DEFINE o == [a \in Artifacts |-> IF a \in b /\ ~NeedsSync(copy[a]) THEN copy[a] ELSE None]
             f == [Idle EXCEPT !.batch = b, !.copy = copy, !.out = o]
             to == IF Remaining(f) = {} THEN "apply" ELSE "gate"
  <1>1. f \in Frames /\ f.batch = b
    BY IdleTyped DEF Frames
  <1>2. Goto(c, f, to)
    BY DEF BeginWith
  <1>3. to \in Pcs /\ to \notin Inside
    BY DEF Pcs, Inside
  <1>4. FrameOK(f, to, copies)
    BY <1>1, AllKnown DEF FrameOK, Inside
  <1>5. spent' \in [faults : Nat, restarts : Nat, user : Nat]
    BY DEF IInv, TypeOK
  <1> HIDE DEF f, to
  <1> QED
    BY <1>1, <1>2, <1>3, <1>4, <1>5, MoveKeeps

LEMMA BeginInv ==
  ASSUME BatchesDistinct, IInv, NEW c \in Calls, NEW b \in Batches, Begin(c, b)
  PROVE  IInv'
  <1>1. b \in SUBSET Artifacts /\ Distinct(b)
    BY ParametersOK DEF BatchesDistinct
  <1>2. sync \in [Artifacts -> SyncStates]
    BY DEF IInv, TypeOK
  <1> QED
    BY <1>1, <1>2, BeginWithInv DEF Begin

LEMMA AcquireInv ==
  ASSUME IInv, NEW c \in Calls, Acquire(c)
  PROVE  IInv'
  <1> USE DEF Acquire, IInv, storeVars, githubVars
  <1>1. \A d \in Calls : pc'[d] = IF d = c THEN "discover" ELSE pc[d]
    BY DEF TypeOK
  <1>2. TypeOK'
    BY DEF TypeOK, Pcs, Inside
  <1>3. GateExcludes'
    BY <1>1, NoneIsNone DEF GateExcludes, Inside
  <1>4. OneCopyPerFinding'
    BY DEF OneCopyPerFinding, Present
  <1>5. FramesOK'
    <2> SUFFICES ASSUME NEW d \in Calls
                 PROVE  /\ FrameOK(frame[d], pc'[d], copies)
                        /\ pc'[d] = "apply" => frame[d].todo \subseteq frame[d].batch
      BY DEF FramesOK
    <2>1. FrameOK(frame[d], pc[d], copies) /\ (pc[d] = "apply" => frame[d].todo \subseteq frame[d].batch)
      BY DEF FramesOK
    <2>2. pc[c] = "gate"
      OBVIOUS
    <2> QED
      BY <1>1, <2>1, <2>2 DEF FrameOK
  <1> QED
    BY <1>2, <1>3, <1>4, <1>5

LEMMA DiscoverInv ==
  ASSUME IInv, NEW c \in Calls, Discover(c)
  PROVE  IInv'
  <1>1. PICK listed \in ListedReviews :
          Goto(c, Discovered(frame[c], listed), AfterDiscovery(Discovered(frame[c], listed)))
    BY DEF Discover
  <1> DEFINE f == Discovered(frame[c], listed)
  <1>2. frame[c] \in Frames /\ Distinct(frame[c].batch) /\ pc[c] \in Inside
    BY DEF Discover, IInv, TypeOK, FramesOK, FrameOK, Inside
  <1>3. f \in Frames /\ Distinct(f.batch)
    BY <1>2, DiscoveredTyped DEF IInv
  <1>4. AfterDiscovery(f) \in Pcs /\ FrameOK(f, AfterDiscovery(f), copies)
    BY <1>3, AfterDiscoveryOK
  <1>5. /\ spent' \in [faults : Nat, restarts : Nat, user : Nat]
        /\ UNCHANGED <<storeVars, githubVars>>
    BY DEF Discover, IInv, TypeOK
  <1> HIDE DEF f
  <1>6. Goto(c, f, AfterDiscovery(f))
    BY <1>1 DEF f
  <1> QED
    BY <1>2, <1>3, <1>4, <1>5, <1>6, MoveKeeps

LEMMA FetchInv ==
  ASSUME IInv, NEW c \in Calls, Fetch(c)
  PROVE  IInv'
  <1>1. PICK a \in ToFetch(frame[c]) : Fetch(c)!2!(a)
    BY DEF Fetch
  <1> DEFINE f == frame[c]
             r == f.copy[a].review
             ours == {x \in f.batch : References(f, x, r)}
             o == [x \in Artifacts |-> IF x \in ours THEN Synced(r) ELSE f.out[x]]
             k == [x \in Artifacts |-> IF x \in ours THEN LocalOnly ELSE f.copy[x]]
             synced == [f EXCEPT !.out = o]
             reset == [f EXCEPT !.copy = k]
  <1>2. f \in Frames /\ Distinct(f.batch) /\ pc[c] \in Inside
    BY DEF Fetch, IInv, TypeOK, FramesOK, FrameOK, Inside
  <1>3. f.copy[a] \in SyncStates /\ f.copy[a].kind = "pending"
    BY <1>2, RemainingTyped DEF ToFetch, Frames
  <1>4. r \in Reviews
    BY <1>3 DEF SyncStates, LocalOnly, Pending, Synced
  <1>5. o \in [Artifacts -> SyncStates \cup {None}]
    BY <1>2, <1>4, StatesTyped DEF Frames
  <1>6. k \in [Artifacts -> SyncStates]
    BY <1>2, StatesTyped DEF Frames
  <1>7. synced \in Frames /\ Distinct(synced.batch)
    BY <1>2, <1>5, OutTyped
  <1>8. reset \in Frames /\ Distinct(reset.batch)
    BY <1>2, <1>6, CopyTyped
  <1>9. /\ spent' \in [faults : Nat, restarts : Nat, user : Nat]
        /\ UNCHANGED <<storeVars, githubVars>>
    BY DEF Fetch, IInv, TypeOK
  <1>10. \/ Goto(c, synced, AfterDiscovery(synced))
         \/ Goto(c, reset, AfterDiscovery(reset))
         \/ Goto(c, f, "failed")
    BY <1>1, <1>4 DEF Fail, IInv, TypeOK
  <1> HIDE DEF synced, reset
  <1>11. CASE Goto(c, synced, AfterDiscovery(synced))
    BY <1>2, <1>7, <1>9, <1>11, AfterDiscoveryOK, MoveKeeps
  <1>12. CASE Goto(c, reset, AfterDiscovery(reset))
    BY <1>2, <1>8, <1>9, <1>12, AfterDiscoveryOK, MoveKeeps
  <1>13. CASE Goto(c, f, "failed")
    BY <1>9, <1>13, FailOK, MoveKeeps DEF IInv
  <1> QED
    BY <1>10, <1>11, <1>12, <1>13

LEMMA CreateConflictInv ==
  ASSUME IInv, NEW c \in Calls, CreateConflict(c)
  PROVE  IInv'
  <1>1. frame[c] \in Frames /\ FrameOK(frame[c], "rediscover", copies)
    BY DEF CreateConflict, IInv, TypeOK, FramesOK, FrameOK, Inside
  <1>2. "rediscover" \in Pcs /\ pc[c] \in Inside
    BY DEF CreateConflict, Pcs, Inside
  <1>3. spent' \in [faults : Nat, restarts : Nat, user : Nat]
    BY DEF CreateConflict, IInv, TypeOK
  <1> QED
    BY <1>1, <1>2, <1>3, MoveKeeps DEF CreateConflict

LEMMA RediscoverInv ==
  ASSUME IInv, NEW c \in Calls, Rediscover(c)
  PROVE  IInv'
  <1>1. PICK listed \in ListedReviews :
          \/ Fail(c)
          \/ /\ Discovered(frame[c], listed).found # None
             /\ Goto(c, Discovered(frame[c], listed),
                     IF Unstaged(Discovered(frame[c], listed)) # {} THEN "list" ELSE "stage")
    BY DEF Rediscover
  <1> DEFINE f == Discovered(frame[c], listed)
             to == IF Unstaged(f) # {} THEN "list" ELSE "stage"
  <1>2. frame[c] \in Frames /\ Distinct(frame[c].batch) /\ pc[c] \in Inside
    BY DEF Rediscover, IInv, TypeOK, FramesOK, FrameOK, Inside
  <1>3. f \in Frames /\ Distinct(f.batch)
    BY <1>2, DiscoveredTyped DEF IInv
  <1>4. /\ spent' \in [faults : Nat, restarts : Nat, user : Nat]
        /\ UNCHANGED <<storeVars, githubVars>>
    BY DEF Rediscover, IInv, TypeOK
  <1>5. Fail(c) \/ (f.found # None /\ Goto(c, f, to))
    BY <1>1
  <1> HIDE DEF f
  <1>6. CASE Fail(c)
    BY <1>4, <1>6, FailOK, MoveKeeps DEF IInv, Fail
  <1>7. CASE f.found # None /\ Goto(c, f, to)
    <2>1. f.found \in Reviews
      BY <1>3, <1>7 DEF Frames
    <2>2. to \in Pcs /\ FrameOK(f, to, copies)
      BY <1>3, <2>1 DEF FrameOK, Listed, Pcs, Inside
    <2> QED
      BY <1>2, <1>3, <1>4, <1>7, <2>2, MoveKeeps
  <1> QED
    BY <1>5, <1>6, <1>7

(* One page shows all findings of the review. *)
LEMMA OnePage ==
  ASSUME PagesSuffice, ParametersOK, NEW S, S \subseteq Artifacts
  PROVE  Pages(S) = {S}
  <1>1. IsFiniteSet(S) /\ Cardinality(S) <= Cardinality(Artifacts)
    BY FS_Subset DEF PagesSuffice
  <1>2. Cardinality(S) \in Nat /\ Cardinality(Artifacts) \in Nat
    BY <1>1, FS_CardinalityType DEF PagesSuffice
  <1>3. PageSize \in Nat
    BY ParametersOK
  <1>4. Cardinality(S) <= PageSize
    BY <1>1, <1>2, <1>3 DEF PagesSuffice
  <1> QED
    BY <1>4 DEF Pages

LEMMA ListInv ==
  ASSUME PagesSuffice, IInv, NEW c \in Calls, List(c)
  PROVE  IInv'
  <1> DEFINE f == frame[c]
             r == f.found
             g == [f EXCEPT !.marked = Present(r),
                            !.keys = {Key[a] : a \in Present(r)} \cup manual[r]]
  <1>1. /\ f \in Frames /\ Distinct(f.batch) /\ r \in Reviews
        /\ pc[c] \in Inside
    BY DEF List, ListedComments, IInv, TypeOK, FramesOK, FrameOK, Inside
  <1>2. Present(r) \subseteq Artifacts
    BY DEF Present
  <1>3. /\ spent' \in [faults : Nat, restarts : Nat, user : Nat]
        /\ UNCHANGED <<storeVars, githubVars>>
    BY DEF List, ListedComments, IInv, TypeOK
  <1>4. Fail(c) \/ Goto(c, g, "stage")
    <2>1. Pages(Present(r)) = {Present(r)}
      BY <1>2, OnePage, ParametersOK
    <2>2. Fail(c) \/ \E page \in Pages(Present(r)) :
            Goto(c, [f EXCEPT !.marked = page,
                              !.keys = {Key[a] : a \in page} \cup manual[r]], "stage")
      BY DEF List, ListedComments
    <2> QED
      BY <2>1, <2>2
  <1>5. CASE Fail(c)
    BY <1>3, <1>5, FailOK, MoveKeeps DEF IInv, Fail
  <1>6. CASE Goto(c, g, "stage")
    <2>1. {Key[a] : a \in Present(r)} \cup manual[r] \subseteq Keys
      BY <1>1, <1>2, ParametersOK DEF IInv, TypeOK
    <2>2. /\ g \in Frames /\ g.batch = f.batch /\ g.found = r
          /\ g.keys = {Key[a] : a \in Present(r)} \cup manual[r]
      BY <1>1, <1>2, <2>1 DEF Frames
    <2> HIDE DEF g
    <2>3. Listed(g, copies)
      BY <2>2 DEF Listed, Present
    <2>4. FrameOK(g, "stage", copies)
      BY <1>1, <2>2, <2>3 DEF FrameOK
    <2>5. "stage" \in Pcs
      BY DEF Pcs, Inside
    <2> QED
      BY <1>1, <1>3, <1>6, <2>2, <2>4, <2>5, MoveKeeps
  <1> QED
    BY <1>4, <1>5, <1>6

(* Resolving an artifact without a new comment. *)
LEMMA ResolveOK ==
  ASSUME IInv, NEW c \in Calls, pc[c] = "stage", NEW a \in Remaining(frame[c]),
         NEW s \in SyncStates, NEW g, g = [frame[c] EXCEPT !.out[a] = s],
         NEW to, to = IF Remaining(g) = {} THEN "apply" ELSE "stage"
  PROVE  /\ g \in Frames /\ to \in Pcs /\ pc[c] \in Inside
         /\ FrameOK(g, to, copies)
  <1> DEFINE f == frame[c]
             o == [f.out EXCEPT ![a] = s]
  <1>1. /\ f \in Frames /\ Distinct(f.batch) /\ f.found \in Reviews
        /\ pc[c] \in Inside /\ Listed(f, copies)
    BY DEF IInv, TypeOK, FramesOK, FrameOK, Inside
  <1>2. o \in [Artifacts -> SyncStates \cup {None}]
    BY <1>1 DEF Frames
  <1>3. g = [f EXCEPT !.out = o]
    BY <1>1 DEF Frames
  <1>4. /\ g \in Frames /\ g.out = o /\ g.batch = f.batch /\ g.found = f.found
        /\ g.copy = f.copy /\ g.keys = f.keys
    <2> HIDE DEF o, f
    <2>1. /\ [f EXCEPT !.out = o] \in Frames
          /\ [f EXCEPT !.out = o].out = o
          /\ [f EXCEPT !.out = o].batch = f.batch
          /\ [f EXCEPT !.out = o].found = f.found
          /\ [f EXCEPT !.out = o].copy = f.copy
          /\ [f EXCEPT !.out = o].keys = f.keys
      BY <1>1, <1>2, OutTyped
    <2> QED
      BY <1>3, <2>1
  <1>5. a \in Artifacts /\ f.out[a] = None
    BY <1>1, RemainingTyped DEF Remaining
  <1>6. \A x \in Artifacts : g.out[x] = None => f.out[x] = None
    BY <1>1, <1>4, <1>5 DEF Frames
  <1>7. Unstaged(g) \subseteq Unstaged(f)
    BY <1>1, <1>4, <1>6, FewerUnstaged
  <1>8. Listed(g, copies)
    BY <1>1, <1>4, <1>7 DEF Listed
  <1>9. to = "apply" => \A x \in g.batch : g.out[x] \in SyncStates
    BY <1>4, AllKnown
  <1> QED
    BY <1>1, <1>4, <1>8, <1>9 DEF FrameOK, Pcs, Inside

LEMMA StageKnownInv ==
  ASSUME IInv, NEW c \in Calls, StageKnown(c)
  PROVE  IInv'
  <1>1. PICK a \in Remaining(frame[c]) :
          Resolve(c, a, Pending(frame[c].found)) \/ Resolve(c, a, LocalOnly)
    BY DEF StageKnown
  <1>2. PICK s \in SyncStates : Resolve(c, a, s)
    <2>1. frame[c].found \in Reviews
      BY DEF StageKnown, IInv, FramesOK, FrameOK
    <2> QED
      BY <1>1, <2>1, StatesTyped
  <1> DEFINE g == [frame[c] EXCEPT !.out[a] = s]
             to == IF Remaining(g) = {} THEN "apply" ELSE "stage"
  <1>3. Goto(c, g, to)
    BY <1>2 DEF Resolve
  <1>4. g \in Frames /\ to \in Pcs /\ pc[c] \in Inside /\ FrameOK(g, to, copies)
    BY ResolveOK DEF StageKnown
  <1>5. /\ spent' \in [faults : Nat, restarts : Nat, user : Nat]
        /\ UNCHANGED <<storeVars, githubVars>>
    BY DEF StageKnown, IInv, TypeOK
  <1> HIDE DEF g, to
  <1> QED
    BY <1>3, <1>4, <1>5, MoveKeeps

(* The findings a call creates a review with are different ones.           *)
LEMMA CreateInv ==
  ASSUME IInv, NEW c \in Calls, NEW lost \in BOOLEAN, Create(c, lost)
  PROVE  IInv'
  <1> DEFINE f == frame[c]
             left == Remaining(f)
             held == [a \in Artifacts |-> IF a \in left \cap Findings THEN 1 ELSE 0]
  <1>1. /\ f \in Frames /\ Distinct(f.batch) /\ pc[c] \in Inside
        /\ left \subseteq f.batch /\ f.batch \subseteq Artifacts
    BY RemainingTyped DEF Create, CreatePendingReview, IInv, TypeOK, FramesOK, FrameOK, Inside
  <1>2. PICK r \in Reviews, t \in (left \cap Summaries) \cup {None} :
          /\ review' = [review EXCEPT ![r] = "pending"]
          /\ body' = [body EXCEPT ![r] = t]
          /\ copies' = [copies EXCEPT ![r] = held]
          /\ posted' = [posted EXCEPT ![r] = left \cap Findings]
          /\ IF lost THEN Fail(c)
             ELSE Goto(c, [f EXCEPT !.out = [a \in Artifacts |->
                             IF a \in left THEN Pending(r) ELSE f.out[a]]], "apply")
    BY DEF Create, CreatePendingReview
  <1>3. PICK g \in Frames, to \in {"apply", "failed"} :
          /\ Goto(c, g, to)
          /\ to = "apply" => \A a \in g.batch : g.out[a] \in SyncStates
    <2>1. CASE lost
      BY <1>1, <1>2, <2>1 DEF Fail
    <2>2. CASE ~lost
      <3> DEFINE o == [a \in Artifacts |-> IF a \in left THEN Pending(r) ELSE f.out[a]]
      <3>1. o \in [Artifacts -> SyncStates \cup {None}]
        BY <1>1, StatesTyped DEF Frames
      <3>2. /\ [f EXCEPT !.out = o] \in Frames
            /\ [f EXCEPT !.out = o].batch = f.batch
            /\ [f EXCEPT !.out = o].out = o
        BY <1>1, <3>1, OutTyped
      <3>3. \A a \in f.batch : o[a] \in SyncStates
        BY <1>1, StatesTyped DEF Remaining, Frames
      <3> QED
        BY <1>2, <2>2, <3>2, <3>3
    <2> QED
      BY <2>1, <2>2
  <1>4. to \in Pcs /\ to \notin Inside /\ FrameOK(g, to, copies')
    BY <1>3 DEF Pcs, Inside, Ended, FrameOK
  <1>5. spent' \in [faults : Nat, restarts : Nat, user : Nat] /\ UNCHANGED <<sync, manual>>
    BY RiskTyped DEF Create, CreatePendingReview, IInv, storeVars
  <1>6. held \in [Artifacts -> Nat]
    OBVIOUS
  <1>7. TypeOK'
    <2>1. frame' \in [Calls -> Frames] /\ pc' \in [Calls -> Pcs] /\ gate' \in Calls \cup {None}
      BY <1>3, <1>4, GotoTyped DEF IInv
    <2>2. copies' \in [Reviews -> [Artifacts -> Nat]]
      BY <1>2, <1>6 DEF IInv, TypeOK
    <2>3. t \in Artifacts \cup {None, Manual} /\ left \cap Findings \subseteq Artifacts
      BY <1>1
    <2> HIDE DEF left, held
    <2>4. /\ review' \in [Reviews -> {"unused", "pending", "submitted", "gone"}]
          /\ body' \in [Reviews -> Artifacts \cup {None, Manual}]
          /\ posted' \in [Reviews -> SUBSET Artifacts]
      BY <1>2, <2>3 DEF IInv, TypeOK
    <2> QED
      BY <1>5, <2>1, <2>2, <2>4 DEF IInv, TypeOK
  <1>8. GateExcludes'
    BY <1>3, <1>4, GotoExcludes DEF IInv
  <1>9. FramesOK'
    BY <1>1, <1>3, <1>4, GotoFrames DEF IInv
  <1>10. OneCopyPerFinding'
    <2>1. \A x, y \in left \cap Findings : Key[x] = Key[y] => x = y
      BY <1>1 DEF Distinct
    <2> SUFFICES ASSUME NEW q \in Reviews, NEW x \in Artifacts, NEW y \in Artifacts,
                        copies'[q][x] > 0, copies'[q][y] > 0
                 PROVE  copies'[q][x] = 1 /\ (Key[x] = Key[y] => x = y)
      BY DEF OneCopyPerFinding, Present
    <2>2. CASE q = r
      <3>1. copies'[q] = held
        BY <1>2, <2>2 DEF IInv, TypeOK
      <3> QED
        BY <2>1, <3>1
    <2>3. CASE q # r
      <3>1. copies'[q] = copies[q]
        BY <1>2, <2>3 DEF IInv, TypeOK
      <3> QED
        BY <3>1 DEF IInv, OneCopyPerFinding, Present
    <2> QED
      BY <2>2, <2>3
  <1> QED
    BY <1>7, <1>8, <1>9, <1>10 DEF IInv

(* What is appended is no finding the review is known to hold.             *)
LEMMA AppendInv ==
  ASSUME IInv, NEW c \in Calls, NEW lost \in BOOLEAN, Append(c, lost)
  PROVE  IInv'
  <1> DEFINE f == frame[c]
             r == f.found
  <1>1. /\ f \in Frames /\ Distinct(f.batch) /\ r \in Reviews
        /\ pc[c] \in Inside /\ Listed(f, copies)
    BY DEF Append, AppendReviewComment, IInv, TypeOK, FramesOK, FrameOK, Inside
  <1>2. PICK a \in Unstaged(f) :
          /\ ~RemoteMatches(f, a)
          /\ IF review[r] = "pending"
             THEN /\ copies' = [copies EXCEPT ![r][a] = @ + 1]
                  /\ posted' = [posted EXCEPT ![r] = @ \cup {a}]
             ELSE UNCHANGED <<copies, posted>>
          /\ \/ Fail(c)
             \/ LET g == [f EXCEPT !.keys = @ \cup {Key[a]}, !.out[a] = Pending(r)]
                IN  Goto(c, g, IF Remaining(g) = {} THEN "apply" ELSE "stage")
    BY DEF Append, AppendReviewComment
  <1> DEFINE k == f.keys \cup {Key[a]}
             o == [f.out EXCEPT ![a] = Pending(r)]
             g == [f EXCEPT !.keys = k, !.out = o]
             to == IF Remaining(g) = {} THEN "apply" ELSE "stage"
  <1>3. a \in Artifacts /\ f.out[a] = None
    BY <1>1, RemainingTyped DEF Unstaged, Remaining
  <1>4. \A b \in Artifacts : copies[r][b] > 0 => Key[b] \in f.keys /\ Key[b] # Key[a]
    BY <1>1, <1>2 DEF Listed, RemoteMatches
  <1>5. copies[r][a] = 0
    BY <1>1, <1>3, <1>4 DEF IInv, TypeOK
  <1>6. copies' \in [Reviews -> [Artifacts -> Nat]] /\ posted' \in [Reviews -> SUBSET Artifacts]
    <2>1. copies \in [Reviews -> [Artifacts -> Nat]] /\ posted \in [Reviews -> SUBSET Artifacts]
      BY DEF IInv, TypeOK
    <2>2. CASE review[r] = "pending"
      <3>1. [copies[r] EXCEPT ![a] = @ + 1] \in [Artifacts -> Nat]
        BY <1>1, <1>3, <2>1
      <3>2. copies' = [copies EXCEPT ![r] = [copies[r] EXCEPT ![a] = @ + 1]]
        BY <1>2, <2>2
      <3>3. posted' = [posted EXCEPT ![r] = posted[r] \cup {a}]
        BY <1>2, <2>2
      <3> QED
        BY <1>1, <1>3, <2>1, <3>1, <3>2, <3>3
    <2>3. CASE review[r] # "pending"
      BY <1>2, <2>1, <2>3
    <2> QED
      BY <2>2, <2>3
  <1>7. \A q \in Reviews, b \in Artifacts :
          \/ copies'[q][b] = copies[q][b]
          \/ q = r /\ b = a /\ copies'[q][b] = 1
    BY <1>1, <1>2, <1>3, <1>5 DEF IInv, TypeOK
  <1>8. /\ g \in Frames /\ g.out = o /\ g.batch = f.batch /\ g.found = f.found
        /\ g.copy = f.copy /\ g.keys = k
    <2>1. k \in SUBSET Keys /\ o \in [Artifacts -> SyncStates \cup {None}]
      BY <1>1, <1>3, StatesTyped, ParametersOK DEF Frames
    <2> HIDE DEF k, o
    <2> QED
      BY <1>1, <2>1 DEF Frames
  <1>9. FrameOK(g, to, copies')
    <2>1. \A b \in Artifacts : copies'[r][b] > 0 => Key[b] \in k
      BY <1>1, <1>4, <1>7
    <2>2. Listed(g, copies')
      BY <1>8, <2>1 DEF Listed
    <2>3. to = "apply" => \A x \in g.batch : g.out[x] \in SyncStates
      <3> HIDE DEF g
      <3> QED
        BY <1>8, AllKnown
    <2> HIDE DEF g, o, k
    <2>4. to \in {"apply", "stage"}
      OBVIOUS
    <2> HIDE DEF to
    <2> QED
      BY <1>1, <1>8, <2>2, <2>3, <2>4 DEF FrameOK, Inside
  <1>10. PICK h \in Frames, too \in Pcs : Goto(c, h, too) /\ FrameOK(h, too, copies')
    <2>1. CASE Fail(c)
      BY <2>1, FailOK DEF Fail, IInv
    <2>2. CASE Goto(c, [f EXCEPT !.keys = @ \cup {Key[a]}, !.out[a] = Pending(r)],
                    IF Remaining([f EXCEPT !.keys = @ \cup {Key[a]}, !.out[a] = Pending(r)]) = {}
                    THEN "apply" ELSE "stage")
      <3>1. [f EXCEPT !.keys = @ \cup {Key[a]}, !.out[a] = Pending(r)] = g
        BY <1>1 DEF Frames
      <3>2. Goto(c, g, to)
        BY <2>2, <3>1
      <3>3. to \in Pcs
        BY DEF Pcs, Inside
      <3> HIDE DEF g, to
      <3> QED
        BY <1>8, <1>9, <3>2, <3>3
    <2> QED
      BY <1>2, <2>1, <2>2
  <1>11. /\ spent' \in [faults : Nat, restarts : Nat, user : Nat]
         /\ UNCHANGED <<sync, review, body, manual>>
    BY RiskTyped DEF Append, AppendReviewComment, IInv, storeVars
  <1>12. TypeOK'
    <2>1. frame' \in [Calls -> Frames] /\ pc' \in [Calls -> Pcs] /\ gate' \in Calls \cup {None}
      BY <1>10, GotoTyped DEF IInv
    <2> QED
      BY <1>6, <1>11, <2>1 DEF IInv, TypeOK
  <1>13. GateExcludes'
    BY <1>1, <1>10, GotoExcludes DEF IInv
  <1>14. FramesOK'
    BY <1>1, <1>10, GotoFrames DEF IInv
  <1>15. OneCopyPerFinding'
    <2> SUFFICES ASSUME NEW q \in Reviews, NEW x \in Artifacts, NEW y \in Artifacts,
                        copies'[q][x] > 0, copies'[q][y] > 0
                 PROVE  copies'[q][x] = 1 /\ (Key[x] = Key[y] => x = y)
      BY DEF OneCopyPerFinding, Present
    <2>1. \A b \in Artifacts : copies[q][b] > 0 =>
            copies[q][b] = 1 /\ \A d \in Artifacts : copies[q][d] > 0 /\ Key[b] = Key[d] => b = d
      BY DEF IInv, OneCopyPerFinding, Present
    <2> QED
      BY <1>4, <1>7, <2>1
  <1> QED
    BY <1>12, <1>13, <1>14, <1>15 DEF IInv

LEMMA UpdateBodyInv ==
  ASSUME IInv, NEW c \in Calls, NEW lost \in BOOLEAN, UpdateBody(c, lost)
  PROVE  IInv'
  <1> DEFINE f == frame[c]
             r == f.found
  <1>1. /\ f \in Frames /\ Distinct(f.batch) /\ r \in Reviews
        /\ pc[c] \in Inside /\ pc[c] = "stage"
    BY DEF UpdateBody, IInv, TypeOK, FramesOK, FrameOK, Inside
  <1>2. PICK a \in Remaining(f) \cap Summaries :
          /\ body' = IF review[r] = "gone" THEN body ELSE [body EXCEPT ![r] = a]
          /\ Fail(c) \/ Resolve(c, a, Pending(r))
    BY DEF UpdateBody
  <1>3. PICK h \in Frames, to \in Pcs : Goto(c, h, to) /\ FrameOK(h, to, copies)
    <2>1. CASE Fail(c)
      BY <2>1, FailOK DEF Fail, IInv
    <2>2. CASE Resolve(c, a, Pending(r))
      <3> DEFINE g == [f EXCEPT !.out[a] = Pending(r)]
                 too == IF Remaining(g) = {} THEN "apply" ELSE "stage"
      <3>1. Goto(c, g, too)
        BY <2>2 DEF Resolve
      <3>2. g \in Frames /\ too \in Pcs /\ FrameOK(g, too, copies)
        BY <1>1, StatesTyped, ResolveOK
      <3> HIDE DEF g, too
      <3> QED
        BY <3>1, <3>2
    <2> QED
      BY <1>2, <2>1, <2>2
  <1>4. /\ spent' \in [faults : Nat, restarts : Nat, user : Nat]
        /\ UNCHANGED <<sync, review, copies, posted, manual>>
    BY RiskTyped DEF UpdateBody, IInv, storeVars
  <1>5. TypeOK'
    <2>1. frame' \in [Calls -> Frames] /\ pc' \in [Calls -> Pcs] /\ gate' \in Calls \cup {None}
      BY <1>3, GotoTyped DEF IInv
    <2>2. body' \in [Reviews -> Artifacts \cup {None, Manual}]
      BY <1>1, <1>2, RemainingTyped DEF IInv, TypeOK
    <2> QED
      BY <1>4, <2>1, <2>2 DEF IInv, TypeOK
  <1>6. GateExcludes'
    BY <1>1, <1>3, GotoExcludes DEF IInv
  <1>7. FramesOK'
    BY <1>3, <1>4, GotoFrames DEF IInv
  <1>8. OneCopyPerFinding'
    BY <1>4 DEF IInv, OneCopyPerFinding, Present
  <1> QED
    BY <1>5, <1>6, <1>7, <1>8 DEF IInv

LEMMA ApplyInv ==
  ASSUME IInv, NEW c \in Calls, Apply(c)
  PROVE  IInv'
  <1>1. PICK a \in frame[c].todo :
          /\ sync' = [sync EXCEPT ![a] = frame[c].out[a]]
          /\ frame' = [frame EXCEPT ![c].todo = @ \ {a}]
          /\ pc' = IF frame[c].todo = {a} THEN [pc EXCEPT ![c] = "done"] ELSE pc
    BY DEF Apply
  <1> DEFINE f == frame[c]
             g == [f EXCEPT !.todo = @ \ {a}]
  <1>2. /\ f \in Frames /\ pc[c] = "apply" /\ f.todo \subseteq f.batch
        /\ \A x \in f.batch : f.out[x] \in SyncStates
    BY DEF Apply, IInv, TypeOK, FramesOK, FrameOK
  <1>3. a \in Artifacts /\ f.out[a] \in SyncStates
    BY <1>1, <1>2 DEF Frames
  <1>4. /\ g \in Frames /\ g.batch = f.batch /\ g.out = f.out
        /\ g.todo = f.todo \ {a}
    BY <1>2 DEF Frames
  <1>5. frame' = [frame EXCEPT ![c] = g]
    BY <1>1
  <1> HIDE DEF f, g
  <1>6. /\ UNCHANGED <<gate, githubVars, spent>>
        /\ pc' \in [Calls -> Pcs]
        /\ \A d \in Calls : pc'[d] # pc[d] => d = c /\ pc'[d] = "done"
    BY <1>1 DEF Apply, IInv, TypeOK, Pcs, Ended
  <1>7. TypeOK'
    <2>1. sync' \in [Artifacts -> SyncStates]
      BY <1>1, <1>3 DEF IInv, TypeOK, f
    <2>2. frame' \in [Calls -> Frames]
      BY <1>4, <1>5 DEF IInv, TypeOK
    <2> QED
      BY <1>6, <2>1, <2>2 DEF IInv, TypeOK, githubVars
  <1>8. GateExcludes'
    BY <1>2, <1>6 DEF IInv, GateExcludes, Inside
  <1>9. FramesOK'
    <2> SUFFICES ASSUME NEW d \in Calls
                 PROVE  /\ FrameOK(frame'[d], pc'[d], copies)
                        /\ pc'[d] = "apply" => frame'[d].todo \subseteq frame'[d].batch
      BY <1>6 DEF FramesOK, githubVars
    <2>1. CASE d = c
      <3>1. frame'[d] = g /\ pc'[d] \in {"apply", "done"}
        BY <1>2, <1>5, <1>6, <2>1 DEF IInv, TypeOK
      <3> QED
        BY <1>2, <1>4, <3>1 DEF FrameOK, Inside
    <2>2. CASE d # c
      <3>1. frame'[d] = frame[d] /\ pc'[d] = pc[d]
        BY <1>5, <1>6, <2>2 DEF IInv, TypeOK
      <3> QED
        BY <3>1 DEF IInv, FramesOK
    <2> QED
      BY <2>1, <2>2
  <1>10. OneCopyPerFinding'
    BY <1>6 DEF IInv, OneCopyPerFinding, Present, githubVars
  <1> QED
    BY <1>7, <1>8, <1>9, <1>10 DEF IInv

LEMMA BreakInv ==
  ASSUME IInv, NEW c \in Calls, Break(c)
  PROVE  IInv'
  <1>1. spent' \in [faults : Nat, restarts : Nat, user : Nat]
    BY RiskTyped DEF Break, IInv
  <1> QED
    BY <1>1, FailOK, MoveKeeps DEF Break, Fail, IInv

(* A restart leaves no call inside, nor on its way. *)
LEMMA StoppedInv ==
  ASSUME IInv, UNCHANGED <<sync, frame, githubVars>>, gate' = None,
         pc' \in [Calls -> Pcs],
         \A c \in Calls : pc'[c] \notin Inside \cup {"gate", "apply"},
         spent' \in [faults : Nat, restarts : Nat, user : Nat]
  PROVE  IInv'
  <1> USE DEF IInv, githubVars
  <1>1. TypeOK'
    BY DEF TypeOK
  <1>2. GateExcludes'
    BY NoneIsNone DEF GateExcludes
  <1>3. FramesOK'
    BY DEF FramesOK, FrameOK, Inside
  <1>4. OneCopyPerFinding'
    BY DEF OneCopyPerFinding, Present
  <1> QED
    BY <1>1, <1>2, <1>3, <1>4

LEMMA RestartInv ==
  ASSUME IInv, Restart
  PROVE  IInv'
  <1>1. /\ pc' \in [Calls -> Pcs]
        /\ \A c \in Calls : pc'[c] \notin Inside \cup {"gate", "apply"}
    BY DEF Restart, IInv, TypeOK, Pcs, Inside, Ended
  <1>2. spent' \in [faults : Nat, restarts : Nat, user : Nat]
    BY DEF Restart, Restarts, IInv, TypeOK
  <1> QED
    BY <1>1, <1>2, StoppedInv DEF Restart, storeVars

(* Fewer comments, whatever becomes of reviews and texts. *)
LEMMA FewerInv ==
  ASSUME IInv, UNCHANGED <<sync, gate, pc, frame, posted>>,
         copies' \in [Reviews -> [Artifacts -> Nat]],
         \A q \in Reviews, b \in Artifacts : copies'[q][b] <= copies[q][b],
         review' \in [Reviews -> {"unused", "pending", "submitted", "gone"}],
         body' \in [Reviews -> Artifacts \cup {None, Manual}],
         manual' \in [Reviews -> SUBSET Keys],
         spent' \in [faults : Nat, restarts : Nat, user : Nat]
  PROVE  IInv'
  <1>1. TypeOK'
    BY DEF IInv, TypeOK
  <1>2. GateExcludes'
    BY DEF IInv, GateExcludes
  <1>3. \A q \in Reviews, b \in Artifacts :
          copies'[q][b] > 0 => copies[q][b] > 0 /\ (copies[q][b] = 1 => copies'[q][b] = 1)
    BY DEF IInv, TypeOK
  <1>4. FramesOK'
    <2> SUFFICES ASSUME NEW c \in Calls
                 PROVE  /\ FrameOK(frame[c], pc[c], copies')
                        /\ pc[c] = "apply" => frame[c].todo \subseteq frame[c].batch
      BY DEF FramesOK
    <2>1. /\ FrameOK(frame[c], pc[c], copies)
          /\ pc[c] = "apply" => frame[c].todo \subseteq frame[c].batch
      BY DEF IInv, FramesOK
    <2> QED
      BY <1>3, <2>1 DEF FrameOK, Listed
  <1>5. OneCopyPerFinding'
    BY <1>3 DEF IInv, OneCopyPerFinding, Present
  <1> QED
    BY <1>1, <1>2, <1>4, <1>5 DEF IInv

(* The user adds no comment that carries a marker.                         *)
LEMMA UserInv ==
  ASSUME IInv, User
  PROVE  IInv'
  <1>1. PICK r \in Reviews :
          \/ Submit(r) \/ Discard(r) \/ WriteBody(r)
          \/ \E a \in Findings : DeleteComment(r, a)
          \/ \E k \in Keys : Comment(r, k)
    BY DEF User
  <1>2. UNCHANGED <<sync, gate, pc, frame, posted>>
    BY <1>1 DEF Submit, Discard, WriteBody, DeleteComment, Comment
  <1>3. copies' \in [Reviews -> [Artifacts -> Nat]]
    <2>1. CASE Discard(r)
      BY <2>1 DEF Discard, IInv, TypeOK
    <2>2. ASSUME NEW a \in Findings, DeleteComment(r, a)
          PROVE  copies' \in [Reviews -> [Artifacts -> Nat]]
      <3>1. a \in Artifacts /\ copies[r] \in [Artifacts -> Nat]
        BY DEF Findings, IInv, TypeOK
      <3>2. [copies[r] EXCEPT ![a] = @ - 1] \in [Artifacts -> Nat]
        BY <2>2, <3>1 DEF DeleteComment
      <3>3. copies' = [copies EXCEPT ![r] = [copies[r] EXCEPT ![a] = @ - 1]]
        BY <2>2 DEF DeleteComment
      <3> QED
        BY <3>2, <3>3 DEF IInv, TypeOK
    <2> QED
      BY <1>1, <2>1, <2>2 DEF Submit, WriteBody, Comment, IInv, TypeOK
  <1>4. \A q \in Reviews, b \in Artifacts : copies'[q][b] <= copies[q][b]
    <2>1. CASE Discard(r)
      BY <2>1 DEF Discard, IInv, TypeOK
    <2>2. ASSUME NEW a \in Findings, DeleteComment(r, a)
          PROVE  \A q \in Reviews, b \in Artifacts : copies'[q][b] <= copies[q][b]
      BY <2>2 DEF DeleteComment, IInv, TypeOK
    <2> QED
      BY <1>1, <2>1, <2>2 DEF Submit, WriteBody, Comment, IInv, TypeOK
  <1>5. /\ review' \in [Reviews -> {"unused", "pending", "submitted", "gone"}]
        /\ body' \in [Reviews -> Artifacts \cup {None, Manual}]
        /\ manual' \in [Reviews -> SUBSET Keys]
        /\ spent' \in [faults : Nat, restarts : Nat, user : Nat]
    <2>1. UserActs
      BY <1>1 DEF Submit, Discard, WriteBody, DeleteComment, Comment
    <2>2. spent' \in [faults : Nat, restarts : Nat, user : Nat]
      BY <2>1 DEF UserActs, IInv, TypeOK
    <2>3. CASE Submit(r) \/ Discard(r) \/ WriteBody(r)
      BY <2>2, <2>3 DEF Submit, Discard, WriteBody, IInv, TypeOK
    <2>4. CASE \E a \in Findings : DeleteComment(r, a)
      BY <2>2, <2>4 DEF DeleteComment, IInv, TypeOK
    <2>5. CASE \E k \in Keys : Comment(r, k)
      BY <2>2, <2>5 DEF Comment, IInv, TypeOK
    <2> QED
      BY <1>1, <2>3, <2>4, <2>5
  <1> QED
    BY <1>2, <1>3, <1>4, <1>5, FewerInv

-------------------------------------------------------------------------------
(* The theorems *)

LEMMA InitInv == Init => IInv
  <1> SUFFICES ASSUME Init PROVE IInv
    OBVIOUS
  <1>1. TypeOK
    BY IdleTyped, StatesTyped DEF Init, TypeOK, Pcs
  <1>2. GateExcludes
    BY NoneIsNone DEF Init, GateExcludes, Inside
  <1>3. OneCopyPerFinding
    BY DEF Init, OneCopyPerFinding, Present
  <1>4. FramesOK
    BY DEF Init, FramesOK, FrameOK, Inside
  <1> QED
    BY <1>1, <1>2, <1>3, <1>4 DEF IInv

LEMMA StepInv ==
  ASSUME PagesSuffice, IInv, NEW c \in Calls, Step(c)
  PROVE  IInv'
  <1>1. CASE \E lost \in BOOLEAN : Create(c, lost) \/ Append(c, lost) \/ UpdateBody(c, lost)
    BY <1>1, CreateInv, AppendInv, UpdateBodyInv
  <1>2. CASE Acquire(c) \/ Discover(c) \/ Fetch(c) \/ CreateConflict(c) \/ Rediscover(c)
    BY <1>2, AcquireInv, DiscoverInv, FetchInv, CreateConflictInv, RediscoverInv
  <1>3. CASE List(c) \/ StageKnown(c) \/ Apply(c)
    BY <1>3, ListInv, StageKnownInv, ApplyInv
  <1> QED
    BY <1>1, <1>2, <1>3 DEF Step

LEMMA NextInv ==
  ASSUME PagesSuffice, BatchesDistinct, IInv, [Next]_vars
  PROVE  IInv'
  <1>1. ASSUME NEW c \in Calls, Step(c) PROVE IInv'
    BY <1>1, StepInv
  <1>2. ASSUME NEW c \in Calls, Break(c) PROVE IInv'
    BY <1>2, BreakInv
  <1>3. ASSUME NEW c \in Calls, NEW b \in Batches, Begin(c, b) PROVE IInv'
    BY <1>3, BeginInv
  <1>4. CASE Restart
    BY <1>4, RestartInv
  <1>5. CASE User
    BY <1>5, UserInv
  <1>6. CASE UNCHANGED vars
    BY <1>6 DEF vars, IInv, TypeOK, GateExcludes, OneCopyPerFinding, Present, FramesOK
  <1> QED
    BY <1>1, <1>2, <1>3, <1>4, <1>5, <1>6 DEF Next

(* When a page shows every finding of this program and the findings of one *)
(* batch differ, the strengthened invariant always holds.                  *)
THEOREM StrongInvariant ==
  ASSUME PagesSuffice, BatchesDistinct
  PROVE  Spec => []IInv
  <1>1. Init => IInv
    BY InitInv
  <1>2. IInv /\ [Next]_vars => IInv'
    BY NextInv
  <1> QED
    BY <1>1, <1>2, PTL DEF Spec

(* synchronize: the store, the gate, the locals and GitHub keep their      *)
(* types.                                                                  *)
THEOREM TypesKept ==
  ASSUME PagesSuffice, BatchesDistinct
  PROVE  Spec => []TypeOK
  <1>1. IInv => TypeOK
    BY DEF IInv
  <1> QED
    BY <1>1, StrongInvariant, PTL

(* TargetSyncGate: a call is inside synchronize_locked exactly when it     *)
(* holds the gate, whatever fails.                                         *)
THEOREM GateAlwaysExcludes ==
  ASSUME PagesSuffice, BatchesDistinct
  PROVE  Spec => []GateExcludes
  <1>1. IInv => GateExcludes
    BY DEF IInv
  <1> QED
    BY <1>1, StrongInvariant, PTL

(* synchronize_existing_review and create_pending_review: no review ever   *)
(* gets a second comment for a finding, however many calls, lost answers,  *)
(* failures, restarts and acts of the user there are.                      *)
THEOREM NeverASecondCopy ==
  ASSUME PagesSuffice, BatchesDistinct
  PROVE  Spec => []OneCopyPerFinding
  <1>1. IInv => OneCopyPerFinding
    BY DEF IInv
  <1> QED
    BY <1>1, StrongInvariant, PTL

-------------------------------------------------------------------------------
(* The store tells the truth *)

(* The reviews that may be named of artifact a, and the states that may be. *)
Holding(a) ==
  {r \in Reviews : /\ review[r] # "unused"
                   /\ IF a \in Summaries THEN body[r] # None ELSE WasIn(a, r)}
Told(a) ==
  {LocalOnly} \cup {Pending(r) : r \in Holding(a)}
    \cup {Synced(r) : r \in {q \in Holding(a) : review[q] = "submitted"}}

(* Before its listing a call knows no comment. *)
Early == {"gate"} \cup (Inside \ {"stage"})

(* The locals a call may have at a label. *)
Sound(to) ==
  {f \in Frames :
     /\ \A a \in Artifacts : f.copy[a] \in Told(a) /\ f.out[a] \in Told(a) \cup {None}
     /\ to \in {"apply", "done"} => \A a \in f.batch : f.out[a] \in Told(a)
     /\ to \notin {"failed", "idle"} => \A a \in Findings : f.out[a] # LocalOnly
     /\ f.found \in Reviews =>
          review[f.found] # "unused" /\ (f.text # None => body[f.found] # None)
     /\ to \in Early => f.marked = {} /\ f.keys = {}
     /\ to = "stage" =>
          /\ f.marked \subseteq posted[f.found]
          /\ f.keys \subseteq manual[f.found] \cup {Key[b] : b \in posted[f.found]}}

(* A comment on GitHub was posted in a review that exists. *)
CommentsPosted ==
  \A r \in Reviews :
    /\ review[r] = "unused" => posted[r] = {}
    /\ \A a \in Artifacts : copies[r][a] > 0 => a \in posted[r]

(* The invariant of the second part. *)
TInv ==
  /\ IInv
  /\ CommentsPosted
  /\ \A a \in Artifacts : sync[a] \in Told(a)
  /\ \A c \in Calls : frame[c] \in Sound(pc[c])

(* What is known of a review is never forgotten. *)
Grows ==
  \A r \in Reviews :
    /\ posted[r] \subseteq posted'[r]
    /\ manual[r] \subseteq manual'[r]
    /\ review[r] # "unused" =>
         /\ review'[r] # "unused"
         /\ review[r] = "submitted" => review'[r] = "submitted"
         /\ body[r] # None => body'[r] # None

-------------------------------------------------------------------------------
LEMMA StatesDiffer ==
  \A r, q \in Reviews :
    /\ Pending(r) = Pending(q) => r = q
    /\ Synced(r) = Synced(q) => r = q
    /\ Pending(r) # Synced(q)
    /\ Pending(r) # LocalOnly
    /\ Synced(r) # LocalOnly
  <1> SUFFICES ASSUME NEW r \in Reviews, NEW q \in Reviews
               PROVE  /\ Pending(r) = Pending(q) => r = q
                      /\ Synced(r) = Synced(q) => r = q
                      /\ Pending(r) # Synced(q)
                      /\ Pending(r) # LocalOnly
                      /\ Synced(r) # LocalOnly
    OBVIOUS
  <1>1. Pending(r).kind = "pending" /\ Pending(r).review = r /\ Pending(q).review = q
    BY DEF Pending
  <1>2. Synced(r).kind = "synced" /\ Synced(r).review = r /\ Synced(q).review = q
        /\ Synced(q).kind = "synced"
    BY DEF Synced
  <1>3. LocalOnly.kind = "local"
    BY DEF LocalOnly
  <1> QED
    BY <1>1, <1>2, <1>3

LEMMA PendingTold ==
  \A a \in Artifacts, r \in Reviews : Pending(r) \in Told(a) => r \in Holding(a)
  BY StatesDiffer DEF Told, Holding

LEMMA HoldingGrows ==
  ASSUME Grows, NEW a \in Artifacts
  PROVE  Holding(a) \subseteq Holding(a)'
  BY DEF Grows, Holding, WasIn

LEMMA ToldGrows ==
  ASSUME Grows, NEW a \in Artifacts
  PROVE  Told(a) \subseteq Told(a)'
  <1>1. Holding(a) \subseteq Holding(a)' /\ Holding(a) \subseteq Reviews
    BY HoldingGrows DEF Holding
  <1>2. \A r \in Holding(a) : review[r] = "submitted" => review'[r] = "submitted"
    BY DEF Grows, Holding
  <1> QED
    BY <1>1, <1>2 DEF Told

LEMMA SoundGrows ==
  ASSUME Grows, NEW to \in Pcs, NEW f \in Sound(to), to = "stage" => f.found \in Reviews
  PROVE  f \in Sound(to)'
  <1>1. f \in Frames
    BY DEF Sound
  <1>2. /\ \A a \in Artifacts : f.copy[a] \in Told(a)' /\ f.out[a] \in Told(a)' \cup {None}
        /\ to \in {"apply", "done"} => \A a \in f.batch : f.out[a] \in Told(a)'
    <2>1. f.batch \subseteq Artifacts
      BY <1>1 DEF Frames
    <2> QED
      BY <2>1, ToldGrows DEF Sound
  <1>3. f.found \in Reviews =>
          review'[f.found] # "unused" /\ (f.text # None => body'[f.found] # None)
    BY DEF Sound, Grows
  <1>4. to = "stage" =>
          /\ f.marked \subseteq posted'[f.found]
          /\ f.keys \subseteq manual'[f.found] \cup {Key[b] : b \in posted'[f.found]}
    BY DEF Sound, Grows
  <1>5. /\ to \in Early => f.marked = {} /\ f.keys = {}
        /\ to \notin {"failed", "idle"} => \A a \in Findings : f.out[a] # LocalOnly
    BY DEF Sound
  <1> QED
    BY <1>1, <1>2, <1>3, <1>4, <1>5 DEF Sound

LEMMA SoundTodo ==
  ASSUME NEW to \in Pcs, NEW f \in Frames, NEW g \in Frames, f \in Sound(to)',
         \/ g = [f EXCEPT !.todo = f.batch]
         \/ \E t \in SUBSET Artifacts : g = [f EXCEPT !.todo = t]
  PROVE  g \in Sound(to)'
  <1>1. /\ g.copy = f.copy /\ g.out = f.out /\ g.batch = f.batch /\ g.found = f.found
        /\ g.text = f.text /\ g.marked = f.marked /\ g.keys = f.keys
    BY DEF Frames
  <1> QED
    BY <1>1 DEF Sound

(* A call moves, and GitHub forgets nothing. *)
LEMMA MoveTrue ==
  ASSUME TInv, IInv', Grows, NEW c \in Calls, NEW f \in Frames, NEW to \in Pcs,
         Goto(c, f, to), f \in Sound(to)', UNCHANGED sync, CommentsPosted'
  PROVE  TInv'
  <1>1. \A a \in Artifacts : sync'[a] \in Told(a)'
    BY ToldGrows DEF TInv
  <1>2. ASSUME NEW d \in Calls PROVE (frame[d] \in Sound(pc[d]))'
    <2>1. PICK too \in Pcs : too = pc'[d]
      BY DEF IInv, TypeOK
    <2>2. CASE d = c
      <3>1. too = to
        BY <2>1, <2>2 DEF Goto, TInv, IInv, TypeOK
      <3>2. PICK g \in Frames : g = frame'[d]
        BY DEF IInv, TypeOK
      <3>3. g = f \/ g = [f EXCEPT !.todo = f.batch]
        BY <2>2, <3>2 DEF Goto, TInv, IInv, TypeOK
      <3>4. g \in Sound(to)'
        BY <3>3, SoundTodo
      <3> QED
        BY <2>1, <3>1, <3>2, <3>4 DEF Sound
    <2>3. CASE d # c
      <3>1. too = pc[d] /\ frame'[d] = frame[d]
        BY <2>1, <2>3 DEF Goto, TInv, IInv, TypeOK
      <3>2. PICK g \in Sound(too) : g = frame[d]
        BY <3>1 DEF TInv
      <3>3. too = "stage" => g.found \in Reviews
        BY <3>1, <3>2 DEF TInv, IInv, FramesOK, FrameOK
      <3>4. g \in Sound(too)'
        BY <3>2, <3>3, SoundGrows
      <3> QED
        BY <2>1, <3>1, <3>2, <3>4 DEF Sound
    <2> QED
      BY <2>2, <2>3
  <1> QED
    BY <1>1, <1>2 DEF TInv

LEMMA NothingForgotten ==
  ASSUME TInv, UNCHANGED githubVars
  PROVE  Grows /\ CommentsPosted'
  BY DEF Grows, CommentsPosted, TInv, githubVars

(* A call moves, and nothing else happens. *)
LEMMA QuietMove ==
  ASSUME TInv, IInv', UNCHANGED <<storeVars, githubVars>>, NEW c \in Calls,
         NEW to \in Pcs, NEW f \in Sound(to), Goto(c, f, to),
         to = "stage" => f.found \in Reviews
  PROVE  TInv'
  <1>1. f \in Sound(to)'
    BY NothingForgotten, SoundGrows
  <1>2. f \in Frames
    BY DEF Sound
  <1> QED
    BY <1>1, <1>2, NothingForgotten, MoveTrue DEF storeVars

(* Any locals will do where a call fails. *)
LEMMA FailSound ==
  ASSUME TInv, NEW c \in Calls
  PROVE  /\ frame[c] \in Sound("failed") /\ "failed" \in Pcs
         /\ frame[c] \in Sound("idle") /\ "idle" \in Pcs
  BY DEF TInv, Sound, Early, Inside, Pcs, Ended

LEMMA QuietFail ==
  ASSUME TInv, IInv', UNCHANGED <<storeVars, githubVars>>, NEW c \in Calls, Fail(c)
  PROVE  TInv'
  BY FailSound, QuietMove DEF Fail

-------------------------------------------------------------------------------
(* What a call finds is sound *)

(* Locals at the label before a listing are sound at any such label. *)
LEMMA EarlySound ==
  ASSUME NEW to \in Early, NEW too \in Early, NEW f \in Sound(to)
  PROVE  f \in Sound(too)
  BY DEF Sound, Early, Inside

LEMMA DiscoveredSound ==
  ASSUME TInv, NEW f \in Sound("discover"), NEW listed
  PROVE  Discovered(f, listed) \in Sound("discover")
  <1> DEFINE g == Discovered(f, listed)
  <1>1. f \in Frames
    BY DEF Sound
  <1>2. g \in Frames
    BY <1>1, DiscoveredTyped DEF TInv, IInv
  <1>3. /\ g.copy = f.copy /\ g.out = f.out /\ g.batch = f.batch
        /\ g.marked = f.marked /\ g.keys = f.keys
    BY <1>1 DEF Discovered, Frames
  <1>4. g.found \in Reviews =>
          review[g.found] # "unused" /\ (g.text # None => body[g.found] # None)
    <2>1. CASE PendingReviews \cap listed = {}
      BY <1>1, <2>1, NoneIsNone DEF Discovered, Frames
    <2>2. CASE PendingReviews \cap listed # {}
      <3>1. PICK r : r \in PendingReviews /\ r = CHOOSE q \in PendingReviews : TRUE
        BY <2>2
      <3>2. g.found = r /\ g.text = body[r]
        BY <1>1, <2>2, <3>1 DEF Discovered, Frames
      <3> QED
        BY <3>1, <3>2 DEF PendingReviews
    <2> QED
      BY <2>1, <2>2
  <1> HIDE DEF g
  <1>5. g \in Sound("discover")
    BY <1>2, <1>3, <1>4 DEF Sound
  <1> QED
    BY <1>5 DEF g

(* With nothing left every outcome may be told. *)
LEMMA AllTold ==
  ASSUME NEW to, NEW f \in Sound(to), Remaining(f) = {}
  PROVE  \A a \in f.batch : f.out[a] \in Told(a)
  BY DEF Sound, Remaining, Frames

LEMMA AfterDiscoverySound ==
  ASSUME NEW f \in Sound("discover")
  PROVE  /\ AfterDiscovery(f) \in Pcs
         /\ f \in Sound(AfterDiscovery(f))
         /\ AfterDiscovery(f) = "stage" => f.found \in Reviews
  <1>1. f \in Frames /\ f.marked = {} /\ f.keys = {}
    BY DEF Sound, Early, Inside
  <1>2. AfterDiscovery(f) = "apply" => Remaining(f) = {}
    BY DEF AfterDiscovery
  <1>3. AfterDiscovery(f) = "stage" => f.found # None
    BY DEF AfterDiscovery
  <1>4. AfterDiscovery(f) \in {"fetch", "apply", "create", "list", "stage"}
    BY DEF AfterDiscovery
  <1>5. AfterDiscovery(f) = "apply" => \A a \in f.batch : f.out[a] \in Told(a)
    BY <1>2, AllTold
  <1> QED
    BY <1>1, <1>3, <1>4, <1>5 DEF Sound, Frames, Pcs, Inside

-------------------------------------------------------------------------------
(* The actions of a call *)

LEMMA BeginWithTrue ==
  ASSUME TInv, IInv', NEW c \in Calls, NEW b \in SUBSET Artifacts,
         NEW copy \in [Artifacts -> SyncStates], \A a \in Artifacts : copy[a] \in Told(a),
         BeginWith(c, b, copy), UNCHANGED <<storeVars, githubVars>>
  PROVE  TInv'
  <1> DEFINE o == [a \in Artifacts |-> IF a \in b /\ ~NeedsSync(copy[a]) THEN copy[a] ELSE None]
             f == [Idle EXCEPT !.batch = b, !.copy = copy, !.out = o]
             to == IF Remaining(f) = {} THEN "apply" ELSE "gate"
  <1>1. Goto(c, f, to)
    BY DEF BeginWith
  <1>2. f \in Frames /\ f.copy = copy /\ f.out = o /\ f.found = None
        /\ f.marked = {} /\ f.keys = {}
    BY IdleTyped DEF Idle, Frames
  <1>3. /\ \A a \in Artifacts : f.copy[a] \in Told(a) /\ f.out[a] \in Told(a) \cup {None}
        /\ \A a \in Findings : f.out[a] # LocalOnly
    BY <1>2, NoneIsNone, StatesTyped DEF Findings, NeedsSync, LocalOnly
  <1> HIDE DEF f, o
  <1>4. f \in Sound("gate")
    BY <1>2, <1>3, NoneIsNone DEF Sound
  <1>5. f \in Sound(to) /\ to \in Pcs /\ to # "stage"
    BY <1>2, <1>4, AllTold DEF Sound, Early, Inside, Pcs
  <1> QED
    BY <1>1, <1>5, QuietMove

LEMMA BeginTrue ==
  ASSUME TInv, IInv', NEW c \in Calls, NEW b \in Batches, Begin(c, b)
  PROVE  TInv'
  <1>1. b \in SUBSET Artifacts
    BY ParametersOK
  <1>2. sync \in [Artifacts -> SyncStates] /\ \A a \in Artifacts : sync[a] \in Told(a)
    BY DEF TInv, IInv, TypeOK
  <1> QED
    BY <1>1, <1>2, BeginWithTrue DEF Begin

LEMMA AcquireTrue ==
  ASSUME TInv, IInv', NEW c \in Calls, Acquire(c)
  PROVE  TInv'
  <1>1. UNCHANGED <<sync, githubVars>> /\ UNCHANGED frame
    BY DEF Acquire, storeVars
  <1>2. Grows /\ CommentsPosted'
    BY <1>1, NothingForgotten
  <1>3. \A a \in Artifacts : sync'[a] \in Told(a)'
    BY <1>1, <1>2, ToldGrows DEF TInv
  <1>4. ASSUME NEW d \in Calls PROVE (frame[d] \in Sound(pc[d]))'
    <2>1. PICK too \in Pcs : too = pc'[d]
      BY DEF IInv, TypeOK
    <2>2. too = IF d = c THEN "discover" ELSE pc[d]
      BY <2>1 DEF Acquire, TInv, IInv, TypeOK
    <2>3. frame[d] \in Sound(too)
      <3>1. CASE d = c
        <4>1. frame[c] \in Sound("gate")
          BY DEF Acquire, TInv
        <4> QED
          BY <2>2, <3>1, <4>1, EarlySound DEF Early, Inside
      <3>2. CASE d # c
        BY <2>2, <3>2 DEF TInv
      <3> QED
        BY <3>1, <3>2
    <2>4. PICK g \in Sound(too) : g = frame[d]
      BY <2>3
    <2>5. too = "stage" => g.found \in Reviews
      BY <2>2, <2>4 DEF TInv, IInv, FramesOK, FrameOK
    <2>6. g \in Sound(too)'
      BY <1>2, <2>5, SoundGrows
    <2> QED
      BY <1>1, <2>1, <2>4, <2>6 DEF Sound
  <1> QED
    BY <1>2, <1>3, <1>4 DEF TInv

LEMMA DiscoverTrue ==
  ASSUME TInv, IInv', NEW c \in Calls, Discover(c)
  PROVE  TInv'
  <1>1. PICK listed \in ListedReviews :
          Goto(c, Discovered(frame[c], listed), AfterDiscovery(Discovered(frame[c], listed)))
    BY DEF Discover
  <1>2. frame[c] \in Sound("discover")
    BY DEF Discover, TInv
  <1>3. PICK f \in Sound("discover") : f = Discovered(frame[c], listed)
    BY <1>2, DiscoveredSound
  <1>4. UNCHANGED <<storeVars, githubVars>> /\ Goto(c, f, AfterDiscovery(f))
    BY <1>1, <1>3 DEF Discover
  <1> QED
    BY <1>4, AfterDiscoverySound, QuietMove

LEMMA FetchTrue ==
  ASSUME TInv, IInv', NEW c \in Calls, Fetch(c)
  PROVE  TInv'
  <1>1. PICK a \in ToFetch(frame[c]) : Fetch(c)!2!(a)
    BY DEF Fetch
  <1> DEFINE f == frame[c]
             r == f.copy[a].review
             ours == {x \in f.batch : References(f, x, r)}
             o == [x \in Artifacts |-> IF x \in ours THEN Synced(r) ELSE f.out[x]]
             k == [x \in Artifacts |-> IF x \in ours THEN LocalOnly ELSE f.copy[x]]
             synced == [f EXCEPT !.out = o]
             reset == [f EXCEPT !.copy = k]
  <1>2. f \in Frames /\ f \in Sound("discover") /\ f.batch \subseteq Artifacts
    BY EarlySound, RemainingTyped DEF Fetch, TInv, IInv, TypeOK, Early, Inside
  <1>3. a \in Artifacts /\ f.copy[a] \in SyncStates /\ f.copy[a].kind = "pending"
    BY <1>2, RemainingTyped DEF ToFetch, Frames
  <1>4. r \in Reviews
    BY <1>3 DEF SyncStates, LocalOnly, Pending, Synced
  <1>5. UNCHANGED <<storeVars, githubVars>>
    BY DEF Fetch
  <1>6. \/ review[r] = "submitted" /\ Goto(c, synced, AfterDiscovery(synced))
        \/ Goto(c, reset, AfterDiscovery(reset))
        \/ Fail(c)
    BY <1>1
  <1>7. CASE review[r] = "submitted" /\ Goto(c, synced, AfterDiscovery(synced))
    <2>1. \A x \in ours : Synced(r) \in Told(x)
      <3>1. \A x \in ours : Pending(r) \in Told(x) /\ x \in Artifacts
        BY <1>2 DEF Sound, References
      <3> QED
        BY <1>4, <1>7, <3>1, PendingTold DEF Told
    <2>2. o \in [Artifacts -> SyncStates \cup {None}]
      BY <1>2, <1>4, StatesTyped DEF Frames
    <2>3. /\ \A x \in Artifacts : o[x] \in Told(x) \cup {None}
          /\ \A x \in Findings : o[x] # LocalOnly
      BY <1>2, <1>4, <2>1, StatesDiffer DEF Sound, Findings
    <2> HIDE DEF o, f
    <2>4. /\ synced \in Frames /\ synced.out = o /\ synced.copy = f.copy
          /\ synced.found = f.found /\ synced.text = f.text
          /\ synced.marked = f.marked /\ synced.keys = f.keys
      BY <1>2, <2>2 DEF Frames
    <2> HIDE DEF synced
    <2>5. synced \in Sound("discover")
      BY <1>2, <2>3, <2>4 DEF Sound
    <2> QED
      BY <1>5, <1>7, <2>5, AfterDiscoverySound, QuietMove
  <1>8. CASE Goto(c, reset, AfterDiscovery(reset))
    <2>1. k \in [Artifacts -> SyncStates]
      BY <1>2, StatesTyped DEF Frames
    <2>2. \A x \in Artifacts : k[x] \in Told(x)
      BY <1>2 DEF Sound, Told
    <2> HIDE DEF k, f
    <2>3. /\ reset \in Frames /\ reset.copy = k /\ reset.out = f.out
          /\ reset.found = f.found /\ reset.text = f.text
          /\ reset.marked = f.marked /\ reset.keys = f.keys
      BY <1>2, <2>1 DEF Frames
    <2> HIDE DEF reset
    <2>4. reset \in Sound("discover")
      BY <1>2, <2>2, <2>3 DEF Sound
    <2> QED
      BY <1>5, <1>8, <2>4, AfterDiscoverySound, QuietMove
  <1>9. CASE Fail(c)
    BY <1>5, <1>9, QuietFail
  <1> QED
    BY <1>6, <1>7, <1>8, <1>9

LEMMA CreateConflictTrue ==
  ASSUME TInv, IInv', NEW c \in Calls, CreateConflict(c)
  PROVE  TInv'
  <1>1. frame[c] \in Sound("create")
    BY DEF CreateConflict, TInv
  <1>2. frame[c] \in Sound("rediscover") /\ "rediscover" \in Pcs
    BY <1>1, EarlySound DEF Early, Inside, Pcs
  <1> QED
    BY <1>2, QuietMove DEF CreateConflict

LEMMA RediscoverTrue ==
  ASSUME TInv, IInv', NEW c \in Calls, Rediscover(c)
  PROVE  TInv'
  <1>1. PICK listed \in ListedReviews :
          LET f == Discovered(frame[c], listed)
          IN  \/ Fail(c)
              \/ f.found # None /\ Goto(c, f, IF Unstaged(f) # {} THEN "list" ELSE "stage")
    BY DEF Rediscover
  <1>2. frame[c] \in Sound("discover")
    <2>1. frame[c] \in Sound("rediscover")
      BY DEF Rediscover, TInv
    <2> QED
      BY <2>1, EarlySound DEF Early, Inside
  <1>3. PICK f \in Sound("discover") : f = Discovered(frame[c], listed)
    BY <1>2, DiscoveredSound
  <1>4. UNCHANGED <<storeVars, githubVars>>
    BY DEF Rediscover
  <1>5. CASE Fail(c)
    BY <1>4, <1>5, QuietFail
  <1>6. CASE f.found # None /\ Goto(c, f, IF Unstaged(f) # {} THEN "list" ELSE "stage")
    <2>1. PICK to \in {"list", "stage"} : Goto(c, f, to)
      BY <1>6
    <2>2. f \in Frames /\ f.marked = {} /\ f.keys = {}
      BY DEF Sound, Early, Inside
    <2>3. f \in Sound(to) /\ to \in Pcs /\ f.found \in Reviews
      BY <1>6, <2>2 DEF Sound, Frames, Pcs, Inside
    <2> QED
      BY <1>4, <2>1, <2>3, QuietMove
  <1> QED
    BY <1>1, <1>3, <1>5, <1>6

(* A page lists comments the review holds. *)
LEMMA ListTrue ==
  ASSUME TInv, IInv', NEW c \in Calls, List(c)
  PROVE  TInv'
  <1> DEFINE f == frame[c]
             r == f.found
  <1>1. f \in Frames /\ f \in Sound("list") /\ r \in Reviews
    BY DEF List, ListedComments, TInv, IInv, TypeOK, FramesOK, FrameOK
  <1>2. UNCHANGED <<storeVars, githubVars>>
    BY DEF List, ListedComments
  <1>3. CASE Fail(c)
    BY <1>2, <1>3, QuietFail
  <1>4. ASSUME NEW page \in Pages(Present(r)),
               Goto(c, [f EXCEPT !.marked = page,
                                 !.keys = {Key[a] : a \in page} \cup manual[r]], "stage")
        PROVE  TInv'
    <2> DEFINE k == {Key[a] : a \in page} \cup manual[r]
               g == [f EXCEPT !.marked = page, !.keys = k]
    <2>1. page \subseteq Present(r)
      BY DEF Pages
    <2>2. page \subseteq Artifacts /\ page \subseteq posted[r]
      BY <1>1, <2>1 DEF Present, TInv, CommentsPosted
    <2>3. k \subseteq Keys /\ k \subseteq manual[r] \cup {Key[b] : b \in posted[r]}
      BY <1>1, <2>2, ParametersOK DEF TInv, IInv, TypeOK
    <2> HIDE DEF k, f
    <2>4. /\ g \in Frames /\ g.copy = f.copy /\ g.out = f.out /\ g.found = f.found
          /\ g.text = f.text /\ g.marked = page /\ g.keys = k
      BY <1>1, <2>2, <2>3 DEF Frames
    <2>5. Goto(c, g, "stage")
      BY <1>4 DEF k, f
    <2> HIDE DEF g
    <2>6. g \in Sound("stage") /\ "stage" \in Pcs /\ g.found \in Reviews
      BY <1>1, <2>2, <2>3, <2>4 DEF Sound, Early, Inside, Pcs
    <2> QED
      BY <1>2, <2>5, <2>6, QuietMove
  <1> QED
    BY <1>3, <1>4 DEF List, ListedComments

(* An outcome that may be told by then is decided. *)
LEMMA StagedTrue ==
  ASSUME TInv, IInv', Grows, UNCHANGED sync, CommentsPosted',
         NEW c \in Calls, pc[c] = "stage", NEW g \in Frames,
         g.batch = frame[c].batch, g.copy = frame[c].copy, g.found = frame[c].found,
         g.text = frame[c].text, g.marked = frame[c].marked,
         NEW a \in Artifacts, NEW s, s \in Told(a)', g.out = [frame[c].out EXCEPT ![a] = s],
         a \in Findings => s # LocalOnly,
         g.keys \subseteq manual'[g.found] \cup {Key[b] : b \in posted'[g.found]},
         NEW to, to = IF Remaining(g) = {} THEN "apply" ELSE "stage", Goto(c, g, to)
  PROVE  TInv'
  <1> DEFINE f == frame[c]
  <1>1. f \in Frames /\ f \in Sound("stage") /\ f.found \in Reviews /\ "stage" \in Pcs
    BY DEF TInv, IInv, TypeOK, FramesOK, FrameOK, Pcs, Inside
  <1>2. PICK h \in Sound("stage") : h = f
    BY <1>1
  <1>3. h \in Sound("stage")'
    BY <1>1, <1>2, SoundGrows
  <1>4. \A x \in Artifacts : /\ g.copy[x] \in Told(x)'
                            /\ g.out[x] \in Told(x)' \cup {None}
    BY <1>1, <1>2, <1>3 DEF Sound, Frames
  <1>5. to = "apply" => \A x \in g.batch : g.out[x] \in Told(x)'
    BY <1>4, RemainingTyped DEF Remaining
  <1>6. to \in {"apply", "stage"} /\ to \in Pcs
    BY DEF Pcs, Inside
  <1>7. to \notin Early
    BY <1>6 DEF Early, Inside
  <1>8. /\ g.found \in Reviews
        /\ review'[g.found] # "unused" /\ (g.text # None => body'[g.found] # None)
        /\ g.marked \subseteq posted'[g.found]
    BY <1>1, <1>2, <1>3 DEF Sound
  <1>9. \A x \in Findings : g.out[x] # LocalOnly
    BY <1>1 DEF Sound, Frames, Findings
  <1>10. g \in Sound(to)'
    BY <1>4, <1>5, <1>6, <1>7, <1>8, <1>9 DEF Sound
  <1> QED
    BY <1>6, <1>10, MoveTrue

(* The same, when all that changes is the outcome. *)
LEMMA ResolveTrue ==
  ASSUME TInv, IInv', Grows, UNCHANGED sync, CommentsPosted',
         NEW c \in Calls, pc[c] = "stage", NEW a \in Artifacts,
         NEW s \in SyncStates, s \in Told(a)', a \in Findings => s # LocalOnly,
         Resolve(c, a, s)
  PROVE  TInv'
  <1> DEFINE f == frame[c]
             o == [f.out EXCEPT ![a] = s]
  <1>1. f \in Frames /\ f \in Sound("stage") /\ f.found \in Reviews /\ "stage" \in Pcs
    BY DEF TInv, IInv, TypeOK, FramesOK, FrameOK, Pcs, Inside
  <1>2. o \in [Artifacts -> SyncStates \cup {None}]
    BY <1>1 DEF Frames
  <1>3. PICK h \in Sound("stage") : h = f
    BY <1>1
  <1>4. h \in Sound("stage")'
    BY <1>1, <1>3, SoundGrows
  <1>5. f.keys \subseteq manual'[f.found] \cup {Key[b] : b \in posted'[f.found]}
    BY <1>3, <1>4 DEF Sound
  <1>6. PICK g : g = [f EXCEPT !.out = o]
    OBVIOUS
  <1>7. g = [f EXCEPT !.out[a] = s]
    BY <1>1, <1>6 DEF Frames
  <1>8. Goto(c, g, IF Remaining(g) = {} THEN "apply" ELSE "stage")
    BY <1>7 DEF Resolve
  <1>9. /\ g \in Frames /\ g.batch = f.batch /\ g.copy = f.copy /\ g.found = f.found
        /\ g.text = f.text /\ g.marked = f.marked /\ g.keys = f.keys /\ g.out = o
    <2> HIDE DEF o, f
    <2> QED
      BY <1>1, <1>2, <1>6 DEF Frames
  <1> QED
    BY <1>5, <1>8, <1>9, StagedTrue

LEMMA StageKnownTrue ==
  ASSUME TInv, IInv', NEW c \in Calls, StageKnown(c)
  PROVE  TInv'
  <1>1. PICK a \in Remaining(frame[c]) : StageKnown(c)!2!(a)
    BY DEF StageKnown
  <1> DEFINE f == frame[c]
             r == f.found
  <1>2. /\ f \in Frames /\ f \in Sound("stage") /\ r \in Reviews /\ a \in Artifacts
        /\ pc[c] = "stage"
    BY RemainingTyped DEF StageKnown, TInv, IInv, TypeOK, FramesOK, FrameOK
  <1>3. UNCHANGED <<sync, githubVars>> /\ Grows /\ CommentsPosted'
    BY NothingForgotten DEF StageKnown, storeVars
  <1>4. CASE a \in Summaries /\ Resolve(c, a, LocalOnly)
    BY <1>2, <1>3, <1>4, ResolveTrue, StatesTyped DEF Told, Findings
  <1>5. CASE /\ References(f, a, r) \/ (a \in Findings /\ RemoteMatches(f, a))
                                    \/ (a \in Summaries /\ f.text = a)
             /\ Resolve(c, a, Pending(r))
    <2>1. Pending(r) \in Told(a)
      <3>1. CASE References(f, a, r)
        BY <1>2, <3>1 DEF Sound, References
      <3>2. CASE a \in Findings /\ RemoteMatches(f, a)
        <4>1. WasIn(a, r)
          BY <1>2, <3>2 DEF Sound, RemoteMatches, WasIn
        <4>2. review[r] # "unused" /\ a \notin Summaries
          BY <1>2, <3>2 DEF Sound, Findings
        <4> QED
          BY <1>2, <4>1, <4>2 DEF Told, Holding
      <3>3. CASE a \in Summaries /\ f.text = a
        <4>1. review[r] # "unused" /\ body[r] # None
          BY <1>2, <3>3, NoneIsNone DEF Sound
        <4> QED
          BY <1>2, <3>3, <4>1 DEF Told, Holding
      <3> QED
        BY <1>5, <3>1, <3>2, <3>3
    <2>2. Pending(r) \in Told(a)' /\ Pending(r) \in SyncStates
      BY <1>2, <1>3, <2>1, ToldGrows, StatesTyped
    <2> QED
      BY <1>2, <1>3, <1>5, <2>2, ResolveTrue, StatesDiffer
  <1> QED
    BY <1>1, <1>4, <1>5

(* A call fails once GitHub has changed. *)
LEMMA LostFail ==
  ASSUME TInv, IInv', Grows, UNCHANGED sync, CommentsPosted', NEW c \in Calls, Fail(c)
  PROVE  TInv'
  <1>1. frame[c] \in Sound("failed") /\ "failed" \in Pcs /\ frame[c] \in Frames
    BY FailSound DEF Sound
  <1>2. PICK f \in Sound("failed") : f = frame[c] /\ f \in Frames
    BY <1>1
  <1>3. f \in Sound("failed")' /\ Goto(c, f, "failed")
    BY <1>1, <1>2, SoundGrows DEF Fail
  <1> QED
    BY <1>1, <1>2, <1>3, MoveTrue

LEMMA AppendTrue ==
  ASSUME TInv, IInv', NEW c \in Calls, NEW lost \in BOOLEAN, Append(c, lost)
  PROVE  TInv' /\ Grows
  <1> DEFINE f == frame[c]
             r == f.found
  <1>1. /\ f \in Frames /\ f \in Sound("stage") /\ r \in Reviews /\ pc[c] = "stage"
    BY DEF Append, AppendReviewComment, TInv, IInv, TypeOK, FramesOK, FrameOK
  <1>2. PICK a \in Unstaged(f) :
          /\ IF review[r] = "pending"
             THEN /\ copies' = [copies EXCEPT ![r][a] = @ + 1]
                  /\ posted' = [posted EXCEPT ![r] = @ \cup {a}]
             ELSE UNCHANGED <<copies, posted>>
          /\ \/ Fail(c)
             \/ /\ review[r] = "pending"
                /\ LET g == [f EXCEPT !.keys = @ \cup {Key[a]}, !.out[a] = Pending(r)]
                   IN  Goto(c, g, IF Remaining(g) = {} THEN "apply" ELSE "stage")
    BY DEF Append, AppendReviewComment
  <1>3. a \in Artifacts /\ a \notin Summaries
    BY <1>1, RemainingTyped DEF Unstaged, Findings
  <1>4. UNCHANGED <<sync, review, body, manual>>
    BY DEF Append, AppendReviewComment, storeVars
  <1>5. \A q \in Reviews :
          /\ posted[q] \subseteq posted'[q]
          /\ review[q] = "unused" => posted'[q] = posted[q]
          /\ \A x \in Artifacts : copies'[q][x] = copies[q][x] \/ x \in posted'[q]
    <2>1. copies \in [Reviews -> [Artifacts -> Nat]] /\ posted \in [Reviews -> SUBSET Artifacts]
      BY DEF TInv, IInv, TypeOK
    <2>2. CASE review[r] = "pending"
      <3>1. copies' = [copies EXCEPT ![r] = [copies[r] EXCEPT ![a] = copies[r][a] + 1]]
        BY <1>2, <2>2
      <3>2. posted' = [posted EXCEPT ![r] = posted[r] \cup {a}]
        BY <1>2, <2>2
      <3> HIDE DEF r, f
      <3> QED
        BY <1>1, <2>1, <2>2, <3>1, <3>2
    <2>3. CASE review[r] # "pending"
      BY <1>2, <2>3
    <2> QED
      BY <2>2, <2>3
  <1>6. Grows
    BY <1>4, <1>5 DEF Grows
  <1>7. CommentsPosted'
    BY <1>4, <1>5 DEF CommentsPosted, TInv
  <1>8. CASE Fail(c)
    BY <1>4, <1>6, <1>7, <1>8, LostFail
  <1>9. CASE /\ review[r] = "pending"
             /\ LET g == [f EXCEPT !.keys = @ \cup {Key[a]}, !.out[a] = Pending(r)]
                IN  Goto(c, g, IF Remaining(g) = {} THEN "apply" ELSE "stage")
    <2> DEFINE k == f.keys \cup {Key[a]}
               o == [f.out EXCEPT ![a] = Pending(r)]
    <2>1. k \in SUBSET Keys /\ o \in [Artifacts -> SyncStates \cup {None}]
      BY <1>1, <1>3, StatesTyped, ParametersOK DEF Frames
    <2>2. PICK g : g = [f EXCEPT !.keys = k, !.out = o]
      OBVIOUS
    <2>3. Goto(c, g, IF Remaining(g) = {} THEN "apply" ELSE "stage")
      <3>1. g = [f EXCEPT !.keys = @ \cup {Key[a]}, !.out[a] = Pending(r)]
        BY <1>1, <2>2 DEF Frames
      <3> QED
        BY <1>9, <3>1
    <2>4. /\ g \in Frames /\ g.batch = f.batch /\ g.copy = f.copy /\ g.found = f.found
          /\ g.text = f.text /\ g.marked = f.marked /\ g.keys = k /\ g.out = o
      <3> HIDE DEF o, k, f
      <3> QED
        BY <1>1, <2>1, <2>2 DEF Frames
    <2>5. a \in posted'[r]
      BY <1>1, <1>2, <1>9 DEF TInv, IInv, TypeOK
    <2>6. Pending(r) \in Told(a)'
      <3>1. PICK q \in Reviews : q = r
        BY <1>1
      <3>2. WasIn(a, q)'
        BY <2>5, <3>1 DEF WasIn
      <3>3. q \in Holding(a)'
        BY <1>3, <1>4, <1>9, <3>1, <3>2 DEF Holding
      <3> QED
        BY <3>1, <3>3 DEF Told
    <2>7. k \subseteq manual'[r] \cup {Key[b] : b \in posted'[r]}
      <3>1. f.keys \subseteq manual[r] \cup {Key[b] : b \in posted[r]}
        BY <1>1 DEF Sound
      <3>2. posted[r] \subseteq posted'[r]
        BY <1>1, <1>9, <1>6 DEF Grows
      <3> QED
        BY <1>4, <2>5, <3>1, <3>2
    <2> HIDE DEF k
    <2> QED
      BY <1>1, <1>3, <1>4, <1>6, <1>7, <2>3, <2>4, <2>6, <2>7, StagedTrue, StatesDiffer
  <1> QED
    BY <1>2, <1>8, <1>9

LEMMA UpdateBodyTrue ==
  ASSUME TInv, IInv', NEW c \in Calls, NEW lost \in BOOLEAN, UpdateBody(c, lost)
  PROVE  TInv' /\ Grows
  <1> DEFINE f == frame[c]
             r == f.found
  <1>1. /\ f \in Frames /\ f \in Sound("stage") /\ r \in Reviews /\ pc[c] = "stage"
    BY DEF UpdateBody, TInv, IInv, TypeOK, FramesOK, FrameOK
  <1>2. PICK a \in Remaining(f) \cap Summaries :
          /\ body' = IF review[r] = "gone" THEN body ELSE [body EXCEPT ![r] = a]
          /\ Fail(c) \/ (review[r] # "gone" /\ Resolve(c, a, Pending(r)))
    BY DEF UpdateBody
  <1>3. a \in Artifacts /\ a # None
    BY <1>1, RemainingTyped, NoneIsNone
  <1>4. UNCHANGED <<sync, review, copies, posted, manual>>
    BY DEF UpdateBody, storeVars
  <1>5. Grows /\ CommentsPosted'
    BY <1>1, <1>2, <1>3, <1>4 DEF Grows, CommentsPosted, TInv, IInv, TypeOK
  <1>6. CASE Fail(c)
    BY <1>4, <1>5, <1>6, LostFail
  <1>7. CASE review[r] # "gone" /\ Resolve(c, a, Pending(r))
    <2>1. body'[r] = a /\ review'[r] # "unused"
      BY <1>1, <1>2, <1>4, <1>7 DEF Sound, TInv, IInv, TypeOK
    <2>2. Pending(r) \in Told(a)'
      BY <1>1, <1>2, <1>3, <2>1 DEF Told, Holding
    <2> QED
      BY <1>1, <1>3, <1>4, <1>5, <1>7, <2>2, ResolveTrue, StatesTyped, StatesDiffer
  <1> QED
    BY <1>2, <1>6, <1>7

LEMMA CreateTrue ==
  ASSUME TInv, IInv', NEW c \in Calls, NEW lost \in BOOLEAN, Create(c, lost)
  PROVE  TInv' /\ Grows
  <1> DEFINE f == frame[c]
             left == Remaining(f)
             held == [a \in Artifacts |-> IF a \in left \cap Findings THEN 1 ELSE 0]
  <1>1. f \in Frames /\ f \in Sound("create") /\ left \subseteq f.batch /\ f.batch \subseteq Artifacts
    BY RemainingTyped DEF Create, CreatePendingReview, TInv, IInv, TypeOK
  <1>2. PICK r \in Reviews, t \in (left \cap Summaries) \cup {None} :
          /\ review[r] = "unused"
          /\ t = None <=> left \cap Summaries = {}
          /\ review' = [review EXCEPT ![r] = "pending"]
          /\ body' = [body EXCEPT ![r] = t]
          /\ copies' = [copies EXCEPT ![r] = held]
          /\ posted' = [posted EXCEPT ![r] = left \cap Findings]
          /\ \/ Fail(c)
             \/ Goto(c, [f EXCEPT !.out = [a \in Artifacts |->
                             IF a \in left THEN Pending(r) ELSE f.out[a]]], "apply")
    BY DEF Create, CreatePendingReview
  <1>3. UNCHANGED <<sync, manual>>
    BY DEF Create, CreatePendingReview, storeVars
  <1> HIDE DEF left
  <1>4. Grows
    BY <1>2, <1>3 DEF Grows, CommentsPosted, TInv, IInv, TypeOK
  <1>5. CommentsPosted'
    <2> SUFFICES ASSUME NEW q \in Reviews
                 PROVE  /\ review'[q] = "unused" => posted'[q] = {}
                        /\ \A x \in Artifacts : copies'[q][x] > 0 => x \in posted'[q]
      BY DEF CommentsPosted
    <2>1. CASE q = r
      BY <1>2, <2>1 DEF TInv, IInv, TypeOK
    <2>2. CASE q # r
      BY <1>2, <2>2 DEF TInv, IInv, TypeOK, CommentsPosted
    <2> QED
      BY <2>1, <2>2
  <1>6. CASE Fail(c)
    BY <1>3, <1>4, <1>5, <1>6, LostFail
  <1>7. CASE Goto(c, [f EXCEPT !.out = [a \in Artifacts |->
                        IF a \in left THEN Pending(r) ELSE f.out[a]]], "apply")
    <2> DEFINE o == [a \in Artifacts |-> IF a \in left THEN Pending(r) ELSE f.out[a]]
               g == [f EXCEPT !.out = o]
    <2>1. o \in [Artifacts -> SyncStates \cup {None}]
      BY <1>1, StatesTyped DEF Frames
    <2>2. \A a \in left : Pending(r) \in Told(a)'
      <3> SUFFICES ASSUME NEW a \in left PROVE Pending(r) \in Told(a)'
        OBVIOUS
      <3>1. a \in Artifacts /\ review'[r] = "pending"
        BY <1>1, <1>2 DEF TInv, IInv, TypeOK
      <3>2. CASE a \in Summaries
        BY <1>2, <3>1, <3>2 DEF Told, Holding, TInv, IInv, TypeOK
      <3>3. CASE a \notin Summaries
        <4>1. a \in posted'[r]
          BY <1>2, <3>1, <3>3 DEF Findings, TInv, IInv, TypeOK
        <4>2. WasIn(a, r)'
          BY <4>1 DEF WasIn
        <4> QED
          BY <3>1, <3>3, <4>2 DEF Told, Holding
      <3> QED
        BY <3>2, <3>3
    <2>3. f \in Sound("create")'
      <3>1. PICK h \in Sound("create") : h = f
        BY <1>1
      <3> QED
        BY <1>4, <3>1, SoundGrows DEF Pcs, Inside
    <2>4. /\ \A a \in Artifacts : o[a] \in Told(a)' \cup {None}
          /\ \A a \in f.batch : o[a] \in Told(a)'
          /\ \A a \in Findings : o[a] # LocalOnly
      <3>1. \A a \in f.batch : a \notin left => f.out[a] # None
        BY DEF left, Remaining
      <3>2. /\ \A a \in Artifacts : f.out[a] \in Told(a)' \cup {None}
            /\ \A a \in Findings : f.out[a] # LocalOnly
        BY <2>3 DEF Sound
      <3> QED
        BY <1>1, <2>2, <3>1, <3>2, StatesDiffer DEF Findings
    <2> HIDE DEF o, f
    <2>5. /\ g \in Frames /\ g.out = o /\ g.batch = f.batch /\ g.copy = f.copy
          /\ g.found = f.found /\ g.text = f.text
      BY <1>1, <2>1 DEF Frames
    <2>6. Goto(c, g, "apply")
      BY <1>7 DEF o, f
    <2> HIDE DEF g
    <2>7. g \in Sound("apply")'
      BY <2>3, <2>4, <2>5 DEF Sound, Early, Inside
    <2> QED
      BY <1>3, <1>4, <1>5, <2>5, <2>6, <2>7, MoveTrue DEF Pcs
  <1> QED
    BY <1>2, <1>6, <1>7

(* What is written back was decided by then.                               *)
LEMMA ApplyTrue ==
  ASSUME TInv, IInv', NEW c \in Calls, Apply(c)
  PROVE  TInv'
  <1> DEFINE f == frame[c]
  <1>1. PICK a \in f.todo :
          /\ sync' = [sync EXCEPT ![a] = f.out[a]]
          /\ frame' = [frame EXCEPT ![c] = [f EXCEPT !.todo = @ \ {a}]]
          /\ pc' = IF f.todo = {a} THEN [pc EXCEPT ![c] = "done"] ELSE pc
    BY DEF Apply
  <1>2. /\ f \in Frames /\ f \in Sound("apply") /\ pc[c] = "apply" /\ f.todo \subseteq f.batch
        /\ f.batch \subseteq Artifacts
    BY RemainingTyped DEF Apply, TInv, IInv, TypeOK, FramesOK
  <1>3. UNCHANGED githubVars /\ Grows /\ CommentsPosted'
    BY NothingForgotten DEF Apply
  <1>4. \A x \in Artifacts : sync'[x] \in Told(x)'
    <2>1. \A x \in Artifacts : sync'[x] \in Told(x)
      BY <1>1, <1>2 DEF Sound, TInv, IInv, TypeOK
    <2> QED
      BY <1>3, <2>1, ToldGrows
  <1>5. ASSUME NEW d \in Calls PROVE (frame[d] \in Sound(pc[d]))'
    <2>1. PICK too \in Pcs : too = pc'[d]
      BY DEF IInv, TypeOK
    <2>2. PICK g \in Frames : g = frame'[d]
      BY DEF IInv, TypeOK
    <2>3. CASE d = c
      <3>1. too \in {"apply", "done"}
        BY <1>1, <1>2, <2>1, <2>3 DEF TInv, IInv, TypeOK
      <3>2. g = [f EXCEPT !.todo = f.todo \ {a}] /\ f.todo \ {a} \in SUBSET Artifacts
        BY <1>1, <1>2, <2>2, <2>3 DEF TInv, IInv, TypeOK
      <3>3. PICK h \in Sound(too) : h = f /\ h \in Frames
        BY <1>2, <3>1 DEF Sound, Early, Inside
      <3>4. h \in Sound(too)'
        BY <1>3, <3>1, <3>3, SoundGrows
      <3>5. \E t \in SUBSET Artifacts : g = [h EXCEPT !.todo = t]
        BY <3>2, <3>3
      <3>6. g \in Sound(too)'
        BY <2>2, <3>3, <3>4, <3>5, SoundTodo
      <3> QED
        BY <2>1, <2>2, <3>6 DEF Sound
    <2>4. CASE d # c
      <3>1. g = frame[d] /\ too = pc[d]
        BY <1>1, <2>1, <2>2, <2>4 DEF TInv, IInv, TypeOK
      <3>2. PICK h \in Sound(too) : h = g
        BY <3>1 DEF TInv
      <3>3. too = "stage" => h.found \in Reviews
        BY <3>1, <3>2 DEF TInv, IInv, FramesOK, FrameOK
      <3>4. g \in Sound(too)'
        BY <1>3, <3>2, <3>3, SoundGrows
      <3> QED
        BY <2>1, <2>2, <3>4 DEF Sound
    <2> QED
      BY <2>3, <2>4
  <1> QED
    BY <1>3, <1>4, <1>5 DEF TInv

LEMMA BreakTrue ==
  ASSUME TInv, IInv', NEW c \in Calls, Break(c)
  PROVE  TInv'
  BY QuietFail DEF Break

-------------------------------------------------------------------------------
(* The host and the user *)

(* The store and the locals stay true when no call does anything, or all of *)
(* them are over.                                                           *)
LEMMA OthersTrue ==
  ASSUME TInv, IInv', Grows, CommentsPosted', UNCHANGED <<sync, frame>>,
         \A c \in Calls : pc'[c] \in {pc[c], "failed", "idle"}
  PROVE  TInv'
  <1>1. \A a \in Artifacts : sync'[a] \in Told(a)'
    BY ToldGrows DEF TInv
  <1>2. ASSUME NEW d \in Calls PROVE (frame[d] \in Sound(pc[d]))'
    <2>1. PICK too \in Pcs : too = pc'[d]
      BY DEF IInv, TypeOK
    <2>2. PICK h \in Sound(too) : h = frame[d]
      BY <2>1, FailSound DEF TInv
    <2>3. too = "stage" => h.found \in Reviews
      BY <2>1, <2>2 DEF TInv, IInv, FramesOK, FrameOK
    <2>4. h \in Sound(too)'
      BY <2>3, SoundGrows
    <2> QED
      BY <2>1, <2>2, <2>4 DEF Sound
  <1> QED
    BY <1>1, <1>2 DEF TInv

LEMMA RestartTrue ==
  ASSUME TInv, IInv', Restart
  PROVE  TInv'
  <1>1. \A c \in Calls : pc'[c] \in {pc[c], "failed"}
    BY DEF Restart
  <1> QED
    BY <1>1, NothingForgotten, OthersTrue DEF Restart, storeVars

(* The user submits, discards, deletes and rewrites; none of it undoes that *)
(* a review had a text, or a comment.                                       *)
LEMMA UserTrue ==
  ASSUME TInv, IInv', User
  PROVE  TInv' /\ Grows
  <1>1. PICK r \in Reviews :
          \/ Submit(r) \/ Discard(r) \/ WriteBody(r)
          \/ \E a \in Findings : DeleteComment(r, a)
          \/ \E k \in Keys : Comment(r, k)
    BY DEF User
  <1>2. UNCHANGED <<sync, gate, pc, frame, posted>>
    BY <1>1 DEF Submit, Discard, WriteBody, DeleteComment, Comment
  <1>3. Grows
    <2>1. CASE Submit(r) \/ Discard(r)
      BY <1>2, <2>1 DEF Submit, Discard, Grows, TInv, IInv, TypeOK
    <2>2. CASE WriteBody(r)
      <3>1. Manual # None
        BY ParametersOK
      <3> QED
        BY <1>2, <2>2, <3>1 DEF WriteBody, Grows, TInv, IInv, TypeOK
    <2>3. CASE \E a \in Findings : DeleteComment(r, a)
      BY <1>2, <2>3 DEF DeleteComment, Grows
    <2>4. CASE \E k \in Keys : Comment(r, k)
      BY <1>2, <2>4 DEF Comment, Grows, TInv, IInv, TypeOK
    <2> QED
      BY <1>1, <2>1, <2>2, <2>3, <2>4
  <1>4. \A q \in Reviews, b \in Artifacts : copies'[q][b] > 0 => copies[q][b] > 0
    <2>1. CASE Discard(r)
      BY <2>1 DEF Discard, TInv, IInv, TypeOK
    <2>2. ASSUME NEW a \in Findings, DeleteComment(r, a)
          PROVE  \A q \in Reviews, b \in Artifacts : copies'[q][b] > 0 => copies[q][b] > 0
      BY <2>2 DEF DeleteComment, TInv, IInv, TypeOK
    <2> QED
      BY <1>1, <2>1, <2>2 DEF Submit, WriteBody, Comment, TInv, IInv, TypeOK
  <1>5. \A q \in Reviews : review'[q] = "unused" => review[q] = "unused"
    BY <1>1 DEF Submit, Discard, WriteBody, DeleteComment, Comment, TInv, IInv, TypeOK
  <1>6. CommentsPosted'
    BY <1>2, <1>4, <1>5 DEF CommentsPosted, TInv
  <1> QED
    BY <1>2, <1>3, <1>6, OthersTrue

-------------------------------------------------------------------------------
(* The theorem *)

LEMMA InitTrue == Init => TInv
  <1> SUFFICES ASSUME Init PROVE TInv
    OBVIOUS
  <1>1. IInv
    BY InitInv
  <1>2. CommentsPosted
    BY DEF Init, CommentsPosted
  <1>3. \A a \in Artifacts : sync[a] \in Told(a)
    BY DEF Init, Told
  <1>4. Idle \in Sound("idle")
    BY IdleTyped, NoneIsNone DEF Idle, Sound, Told, Early, Inside
  <1>5. \A c \in Calls : frame[c] \in Sound(pc[c])
    BY <1>4 DEF Init
  <1> QED
    BY <1>1, <1>2, <1>3, <1>5 DEF TInv

LEMMA StepTrue ==
  ASSUME TInv, IInv', NEW c \in Calls, Step(c)
  PROVE  TInv' /\ Grows
  <1>1. CASE \E lost \in BOOLEAN : Create(c, lost) \/ Append(c, lost) \/ UpdateBody(c, lost)
    BY <1>1, CreateTrue, AppendTrue, UpdateBodyTrue
  <1>2. CASE Acquire(c) \/ Discover(c) \/ Fetch(c) \/ CreateConflict(c) \/ Rediscover(c)
    <2>1. UNCHANGED githubVars
      BY <1>2 DEF Acquire, Discover, Fetch, CreateConflict, Rediscover
    <2> QED
      BY <1>2, <2>1, NothingForgotten, AcquireTrue, DiscoverTrue, FetchTrue,
         CreateConflictTrue, RediscoverTrue
  <1>3. CASE List(c) \/ StageKnown(c) \/ Apply(c)
    <2>1. UNCHANGED githubVars
      BY <1>3 DEF List, StageKnown, Apply
    <2> QED
      BY <1>3, <2>1, NothingForgotten, ListTrue, StageKnownTrue, ApplyTrue
  <1> QED
    BY <1>1, <1>2, <1>3 DEF Step

LEMMA NextTrue ==
  ASSUME PagesSuffice, BatchesDistinct, TInv, [Next]_vars
  PROVE  TInv'
  <1>1. IInv'
    BY NextInv DEF TInv
  <1>2. ASSUME NEW c \in Calls, Step(c) PROVE TInv'
    BY <1>1, <1>2, StepTrue
  <1>3. ASSUME NEW c \in Calls, Break(c) PROVE TInv'
    BY <1>1, <1>3, BreakTrue
  <1>4. ASSUME NEW c \in Calls, NEW b \in Batches, Begin(c, b) PROVE TInv'
    BY <1>1, <1>4, BeginTrue
  <1>5. CASE Restart
    BY <1>1, <1>5, RestartTrue
  <1>6. CASE User
    BY <1>1, <1>6, UserTrue
  <1>7. CASE UNCHANGED vars
    BY <1>1, <1>7, NothingForgotten, OthersTrue DEF vars, githubVars
  <1> QED
    BY <1>2, <1>3, <1>4, <1>5, <1>6, <1>7 DEF Next

LEMMA TellsTheTruth == TInv => StoreTellsTheTruth
  <1> SUFFICES ASSUME TInv, NEW a \in Artifacts, NEW r \in Reviews
               PROVE  /\ sync[a] \in {Pending(r), Synced(r)} =>
                           IF a \in Summaries THEN body[r] # None ELSE WasIn(a, r)
                      /\ sync[a] = Synced(r) => review[r] = "submitted"
    BY DEF StoreTellsTheTruth
  <1>1. sync[a] \in Told(a)
    BY DEF TInv
  <1>2. sync[a] = Pending(r) => r \in Holding(a)
    BY <1>1, PendingTold
  <1>3. sync[a] = Synced(r) => r \in Holding(a) /\ review[r] = "submitted"
    BY <1>1, StatesDiffer DEF Told, Holding
  <1> QED
    BY <1>2, <1>3 DEF Holding

(* apply_artifact_sync_outcomes: whatever calls, lost answers, failures,   *)
(* restarts and the user do, an artifact the store calls pending or synced *)
(* reached the review it names, and synced means the user submitted it.    *)
THEOREM StoreAlwaysTellsTheTruth ==
  ASSUME PagesSuffice, BatchesDistinct
  PROVE  Spec => []StoreTellsTheTruth
  <1>1. Init => TInv
    BY InitTrue
  <1>2. TInv /\ [Next]_vars => TInv'
    BY NextTrue
  <1>3. TInv => StoreTellsTheTruth
    BY TellsTheTruth
  <1> QED
    BY <1>1, <1>2, <1>3, PTL DEF Spec

-------------------------------------------------------------------------------
(* What a batch needs to know of the calls it makes *)

(* A call works for the artifacts it was asked for. *)
LEMMA GotoBatch ==
  ASSUME TypeOK, NEW c \in Calls, NEW f \in Frames, NEW to, Goto(c, f, to),
         f.batch = frame[c].batch
  PROVE  \A d \in Calls : frame'[d].batch = frame[d].batch
  <1>1. [f EXCEPT !.todo = f.batch].batch = f.batch
    BY DEF Frames
  <1> QED
    BY <1>1 DEF Goto, TypeOK

LEMMA OutBatch ==
  ASSUME TypeOK, NEW c \in Calls, NEW o, NEW k, NEW to,
         \/ Goto(c, [frame[c] EXCEPT !.out = o], to)
         \/ Goto(c, [frame[c] EXCEPT !.keys = k, !.out = o], to)
  PROVE  \A d \in Calls : frame'[d].batch = frame[d].batch
  <1>1. PICK f \in Frames : f = frame[c]
    BY DEF TypeOK
  <1> DEFINE g == [f EXCEPT !.out = o]
             h == [f EXCEPT !.keys = k, !.out = o]
  <1>2. /\ g.batch = f.batch /\ [g EXCEPT !.todo = g.batch].batch = f.batch
        /\ h.batch = f.batch /\ [h EXCEPT !.todo = h.batch].batch = f.batch
    BY DEF Frames
  <1>3. frame'[c] \in {g, [g EXCEPT !.todo = g.batch], h, [h EXCEPT !.todo = h.batch]}
    BY <1>1 DEF Goto, TypeOK
  <1>4. \A d \in Calls : d # c => frame'[d] = frame[d]
    BY DEF Goto, TypeOK
  <1> HIDE DEF g, h
  <1> QED
    BY <1>1, <1>2, <1>3, <1>4

LEMMA BatchStays ==
  ASSUME IInv, NEW c \in Calls, Step(c) \/ Break(c)
  PROVE  \A d \in Calls : frame'[d].batch = frame[d].batch
  <1>0. frame[c] \in Frames /\ TypeOK
    BY DEF IInv, TypeOK
  <1>1. CASE Acquire(c)
    BY <1>1 DEF Acquire
  <1>2. CASE Discover(c)
    <2>1. PICK listed, to : /\ listed \in ListedReviews
                                 /\ Goto(c, Discovered(frame[c], listed), to)
      BY <1>2 DEF Discover
    <2> QED
      BY <1>0, <2>1, DiscoveredTyped, GotoBatch
  <1>3. CASE Fetch(c)
    <2>1. PICK a \in ToFetch(frame[c]) : Fetch(c)!2!(a)
      BY <1>3 DEF Fetch
    <2> DEFINE f == frame[c]
               r == f.copy[a].review
               ours == {x \in f.batch : References(f, x, r)}
               o == [x \in Artifacts |-> IF x \in ours THEN Synced(r) ELSE f.out[x]]
               k == [x \in Artifacts |-> IF x \in ours THEN LocalOnly ELSE f.copy[x]]
    <2>2. r \in Reviews
      <3>1. f.copy[a] \in SyncStates /\ f.copy[a].kind = "pending"
        BY <1>0, RemainingTyped DEF ToFetch, Frames
      <3> QED
        BY <3>1 DEF SyncStates, LocalOnly, Pending, Synced
    <2>3. o \in [Artifacts -> SyncStates \cup {None}] /\ k \in [Artifacts -> SyncStates]
      BY <1>0, <2>2, StatesTyped DEF Frames
    <2>4. \/ \E to : Goto(c, [f EXCEPT !.out = o], to)
          \/ \E to : Goto(c, [f EXCEPT !.copy = k], to)
          \/ Fail(c)
      BY <2>1
    <2> HIDE DEF o, k
    <2>5. CASE \E to : Goto(c, [f EXCEPT !.out = o], to)
      BY <1>0, <2>3, <2>5, OutTyped, GotoBatch
    <2>6. CASE \E to : Goto(c, [f EXCEPT !.copy = k], to)
      BY <1>0, <2>3, <2>6, CopyTyped, GotoBatch
    <2>7. CASE Fail(c)
      BY <1>0, <2>7, GotoBatch DEF Fail
    <2> QED
      BY <2>4, <2>5, <2>6, <2>7
  <1>4. CASE CreateConflict(c)
    BY <1>0, <1>4, GotoBatch DEF CreateConflict
  <1>5. CASE Rediscover(c)
    <2>1. PICK listed \in ListedReviews :
            Fail(c) \/ \E to : Goto(c, Discovered(frame[c], listed), to)
      BY <1>5 DEF Rediscover
    <2> QED
      BY <1>0, <2>1, DiscoveredTyped, GotoBatch DEF Fail
  <1>6. CASE List(c)
    <2>1. CASE Fail(c)
      BY <1>0, <2>1, GotoBatch DEF Fail
    <2>2. ASSUME NEW page, NEW k, Goto(c, [frame[c] EXCEPT !.marked = page, !.keys = k], "stage")
          PROVE  \A d \in Calls : frame'[d].batch = frame[d].batch
      BY <1>0, <2>2 DEF Goto, TypeOK, Frames
    <2>3. Fail(c) \/ \E page, k : Goto(c, [frame[c] EXCEPT !.marked = page, !.keys = k], "stage")
      BY <1>6 DEF List
    <2> QED
      BY <2>1, <2>2, <2>3
  <1>7. CASE StageKnown(c) \/ \E lost \in BOOLEAN : UpdateBody(c, lost)
    <2>1. PICK a, s : Fail(c) \/ Resolve(c, a, s)
      BY <1>7 DEF StageKnown, UpdateBody
    <2>2. \A to : Goto(c, [frame[c] EXCEPT !.out[a] = s], to)
                 => Goto(c, [frame[c] EXCEPT !.out = [frame[c].out EXCEPT ![a] = s]], to)
      OBVIOUS
    <2> QED
      BY <1>0, <2>1, <2>2, OutBatch, GotoBatch DEF Fail, Resolve
  <1>8. CASE \E lost \in BOOLEAN : Create(c, lost)
    <2>1. PICK o : Fail(c) \/ Goto(c, [frame[c] EXCEPT !.out = o], "apply")
      BY <1>8 DEF Create
    <2> QED
      BY <1>0, <2>1, OutBatch, GotoBatch DEF Fail
  <1>9. CASE \E lost \in BOOLEAN : Append(c, lost)
    <2>1. PICK a, s, to : \/ Fail(c)
                         \/ Goto(c, [frame[c] EXCEPT !.keys = @ \cup {Key[a]}, !.out[a] = s], to)
      BY <1>9 DEF Append
    <2>2. [frame[c] EXCEPT !.keys = @ \cup {Key[a]}, !.out[a] = s]
            = [frame[c] EXCEPT !.keys = frame[c].keys \cup {Key[a]},
                               !.out = [frame[c].out EXCEPT ![a] = s]]
      BY <1>0 DEF Frames
    <2> QED
      BY <1>0, <2>1, <2>2, OutBatch, GotoBatch DEF Fail
  <1>10. CASE Apply(c)
    BY <1>0, <1>10 DEF Apply, TypeOK, Frames
  <1>11. CASE Break(c)
    BY <1>0, <1>11, GotoBatch DEF Break, Fail
  <1> QED
    BY <1>1, <1>2, <1>3, <1>4, <1>5, <1>6, <1>7, <1>8, <1>9, <1>10, <1>11 DEF Step

LEMMA BeginWithBatch ==
  ASSUME TypeOK, NEW c \in Calls, NEW b \in SUBSET Artifacts,
         NEW copy \in [Artifacts -> SyncStates], BeginWith(c, b, copy)
  PROVE  /\ frame'[c].batch = b
         /\ \A d \in Calls : d # c => frame'[d] = frame[d]
  <1> DEFINE o == [a \in Artifacts |-> IF a \in b /\ ~NeedsSync(copy[a]) THEN copy[a] ELSE None]
             f == [Idle EXCEPT !.batch = b, !.copy = copy, !.out = o]
  <1>1. f \in Frames /\ f.batch = b
    BY IdleTyped DEF Frames
  <1>2. [f EXCEPT !.todo = f.batch].batch = b
    BY <1>1 DEF Frames
  <1>3. \E to : Goto(c, f, to)
    BY DEF BeginWith
  <1> HIDE DEF f
  <1> QED
    BY <1>1, <1>2, <1>3 DEF Goto, TypeOK

(* A call that is done got every finding it was asked for onto GitHub. *)
Reached(a) == \E r \in Reviews : WasIn(a, r)

LEMMA ReachedGrows ==
  ASSUME Grows, NEW a, Reached(a)
  PROVE  Reached(a)'
  BY DEF Grows, Reached, WasIn

LEMMA DoneReached ==
  ASSUME TInv, NEW c \in Calls, pc[c] = "done", NEW a \in frame[c].batch \cap Findings
  PROVE  Reached(a)
  <1>1. frame[c] \in Sound("done") /\ frame[c] \in Frames
    BY DEF TInv, Sound
  <1>2. frame[c].out[a] \in Told(a) /\ frame[c].out[a] # LocalOnly
    BY <1>1 DEF Sound
  <1>3. Holding(a) # {}
    BY <1>2 DEF Told
  <1> QED
    BY <1>3 DEF Holding, Reached, Findings

(* Nothing happens to the calls, the store and GitHub. *)
LEMMA StutterTrue ==
  ASSUME TInv, UNCHANGED <<sync, gate, pc, frame, githubVars>>,
         spent' \in [faults : Nat, restarts : Nat, user : Nat]
  PROVE  TInv' /\ Grows
  <1>1. IInv'
    BY FewerInv DEF TInv, IInv, TypeOK, githubVars
  <1> QED
    BY <1>1, NothingForgotten, OthersTrue

-------------------------------------------------------------------------------
(* Committing a batch                                                      *)
(*                                                                         *)
(* The findings the session has and the batches add are different ones.    *)
Universe == {d[2] : d \in Session} \cup UNION {q.adds : q \in Requests}
FindingsDiffer == Distinct(Universe)

(* Whoever works on a batch id holds its guard, and alone. *)
Exclusive ==
  \A c \in Committers : step[c] \in Working <=> guard[ask[c].id] = c

(* A journal is that of its id, and deletes only what was asked for. *)
JournalsOK ==
  \A i \in Ids : journal[i] # None =>
    journal[i].request.id = i /\ journal[i].deleted \subseteq journal[i].request.dels

(* The journal on file is the commit's own and has no receipt yet. *)
Uncommitted(c) ==
  LET j == journal[ask[c].id] IN j # None /\ j.request = ask[c] /\ ~j.result

(* Past the checks of the journal, and past the additions. *)
Committing == {"head", "get", "save", "add", "adding", "delete", "list", "update", "finish"}
Posted == {"delete", "record", "list", "update", "finish"}

(* What a commit's locals are when it is at label to: its copy of the      *)
(* journal is the one on file, or one record ahead of it; what is not left *)
(* to be added has reached GitHub, or the call under way is for it.        *)
Fits(c, m, to) ==
  LET j == journal[ask[c].id]
  IN  /\ to \in {"snapshot", "persist"} => j = None /\ m.journal = NewJournal(ask[c])
      /\ to \in Committing => Uncommitted(c) /\ m.journal = j
      /\ to = "record" =>
           /\ Uncommitted(c)
           /\ \E d \in ask[c].dels \ j.deleted :
                m.journal = [j EXCEPT !.deleted = j.deleted \cup {d}]
      /\ to = "add" => \A a \in ask[c].adds \ m.left : Reached(a)
      /\ to = "adding" => \A a \in ask[c].adds \ m.left : Reached(a) \/ a \in frame[c].batch
      /\ to \in Posted => \A a \in ask[c].adds : Reached(a)
      /\ to \in {"list", "update", "finish"} => Deletions(m) = {}
      /\ \A a \in Artifacts : m.copy[a] \in Told(a)

(* The invariant of the third part. *)
CInv ==
  /\ TInv
  /\ BTypeOK
  /\ Exclusive
  /\ JournalsOK
  /\ saved \subseteq Universe
  /\ \A c \in Committers : Fits(c, mine[c], step[c])

LEMMA AskTyped ==
  ASSUME BTypeOK, NEW c \in Committers
  PROVE  /\ ask[c] \in Requests /\ ask[c].id \in Ids /\ c \in Calls
         /\ ask[c].adds \subseteq Findings /\ ask[c].adds \subseteq Artifacts
         /\ ask[c].adds \subseteq Universe /\ ask[c].dels \subseteq Comments
  <1>1. ask[c] \in Requests /\ c \in Calls
    BY BatchesOK DEF BTypeOK
  <1>2. ask[c].adds \subseteq Findings /\ ask[c].dels \subseteq Comments
    BY <1>1, BatchesOK
  <1> QED
    BY <1>1, <1>2 DEF Ids, Universe, Findings

LEMMA JournalTyped ==
  /\ \A q \in Requests : /\ NewJournal(q) \in JournalType
                        /\ NewJournal(q).request = q /\ NewJournal(q).deleted = {}
                        /\ ~NewJournal(q).result
  /\ \A j \in JournalType, D \in SUBSET Comments :
       /\ [j EXCEPT !.deleted = D] \in JournalType
       /\ [j EXCEPT !.deleted = D].request = j.request
       /\ [j EXCEPT !.deleted = D].deleted = D
       /\ [j EXCEPT !.deleted = D].result = j.result
  /\ \A j \in JournalType :
       /\ [j EXCEPT !.result = TRUE] \in JournalType
       /\ [j EXCEPT !.result = TRUE].request = j.request
       /\ [j EXCEPT !.result = TRUE].deleted = j.deleted
       /\ [j EXCEPT !.result = TRUE].result
  /\ None \notin JournalType /\ None \notin Requests
  BY BatchesOK DEF JournalType, NewJournal

LEMMA LocalsTyped ==
  ASSUME NEW m \in Locals
  PROVE  /\ \A j \in JournalType :
              /\ [m EXCEPT !.journal = j] \in Locals
              /\ [m EXCEPT !.journal = j].journal = j
              /\ [m EXCEPT !.journal = j].left = m.left
              /\ [m EXCEPT !.journal = j].copy = m.copy
         /\ \A l \in SUBSET Artifacts :
              /\ [m EXCEPT !.left = l] \in Locals
              /\ [m EXCEPT !.left = l].journal = m.journal
              /\ [m EXCEPT !.left = l].left = l
              /\ [m EXCEPT !.left = l].copy = m.copy
         /\ \A p \in SUBSET Comments :
              /\ [m EXCEPT !.drafts = p] \in Locals
              /\ [m EXCEPT !.drafts = p].journal = m.journal
              /\ [m EXCEPT !.drafts = p].left = m.left
              /\ [m EXCEPT !.drafts = p].copy = m.copy
  BY DEF Locals

(* A commit's locals still fit after the steps of others. *)
LEMMA FitsStays ==
  ASSUME Grows, UNCHANGED ask, NEW c \in Committers, NEW m, NEW to, Fits(c, m, to),
         \/ journal'[ask[c].id] = journal[ask[c].id]
         \/ to \notin Working,
         to = "adding" => frame'[c].batch = frame[c].batch
  PROVE  Fits(c, m, to)'
  <1>1. \A a \in Artifacts : Told(a) \subseteq Told(a)'
    BY ToldGrows
  <1>2. \A a : Reached(a) => Reached(a)'
    BY ReachedGrows
  <1>3. CASE to \notin Working
    BY <1>1, <1>3 DEF Fits, Working, Committing, Posted
  <1>4. CASE journal'[ask[c].id] = journal[ask[c].id]
    BY <1>1, <1>2, <1>4 DEF Fits, Uncommitted, Deletions
  <1> QED
    BY <1>3, <1>4

(* The calls, the store of artifacts and GitHub move beside the commits. *)
LEMMA BesideInv ==
  ASSUME CInv, TInv', Grows, UNCHANGED batchVars,
         \A c \in Committers : frame'[c].batch = frame[c].batch
  PROVE  CInv'
  <1> USE DEF batchVars
  <1>1. BTypeOK'
    BY DEF CInv, BTypeOK, TInv, IInv
  <1>2. Exclusive' /\ JournalsOK' /\ (saved \subseteq Universe)'
    BY DEF CInv, Exclusive, JournalsOK
  <1>3. ASSUME NEW c \in Committers PROVE Fits(c, mine[c], step[c])'
    <2>1. PICK m, to : m = mine[c] /\ to = step[c]
      OBVIOUS
    <2>2. Fits(c, m, to)
      BY <2>1 DEF CInv
    <2>3. Fits(c, m, to)'
      BY <2>2, FitsStays
    <2> QED
      BY <2>1, <2>3 DEF Fits, Deletions
  <1> QED
    BY <1>1, <1>2, <1>3 DEF CInv

(* A commit moves: no other has its batch id. *)
LEMMA ToStepInv ==
  ASSUME CInv, TInv', Grows, UNCHANGED ask, NEW c \in Committers, NEW m \in Locals,
         NEW to \in Working \cup Ended, ToStep(c, m, to), step[c] \in Working,
         Fits(c, m, to)', m.left \subseteq ask[c].adds,
         journal' \in [Ids -> JournalType \cup {None}],
         \A i \in Ids : i # ask[c].id => journal'[i] = journal[i], JournalsOK',
         saved' \subseteq Universe, saved' \subseteq Artifacts,
         snapshot' \subseteq Comments, moved' \in BOOLEAN,
         \A d \in Committers : d # c => frame'[d].batch = frame[d].batch
  PROVE  CInv'
  <1>1. \A d \in Committers : /\ mine'[d] = IF d = c THEN m ELSE mine[d]
                             /\ step'[d] = IF d = c THEN to ELSE step[d]
    BY DEF ToStep, CInv, BTypeOK
  <1>2. ask[c].id \in Ids /\ guard[ask[c].id] = c
    BY AskTyped DEF CInv, Exclusive
  <1>3. guard' = IF to \in Ended THEN [guard EXCEPT ![ask[c].id] = None] ELSE guard
    BY DEF ToStep
  <1>4. None \notin Committers
    BY NoneIsNone, BatchesOK
  <1>5. \A d \in Committers : d # c /\ ask[d].id = ask[c].id => step[d] \notin Working
    BY <1>2 DEF CInv, Exclusive
  <1>6. BTypeOK'
    <2>1. guard' \in [Ids -> Committers \cup {None}]
      BY <1>3 DEF CInv, BTypeOK
    <2>2. step' \in [Committers -> Working \cup Ended \cup {"idle"}]
          /\ mine' \in [Committers -> Locals]
      BY DEF ToStep, CInv, BTypeOK
    <2>3. \A d \in Committers : mine'[d].left \subseteq ask'[d].adds
      BY <1>1 DEF CInv, BTypeOK
    <2>4. TypeOK' /\ ask' \in Plans
      BY DEF TInv, IInv, CInv, BTypeOK
    <2> QED
      BY <2>1, <2>2, <2>3, <2>4 DEF BTypeOK
  <1>7. Exclusive'
    <2> SUFFICES ASSUME NEW d \in Committers
                 PROVE  step'[d] \in Working <=> guard'[ask[d].id] = d
      BY DEF Exclusive
    <2>1. ask[d].id \in Ids /\ guard \in [Ids -> Committers \cup {None}]
      BY AskTyped DEF CInv, BTypeOK
    <2>2. step[d] \in Working <=> guard[ask[d].id] = d
      BY DEF CInv, Exclusive
    <2>3. to \in Ended <=> to \notin Working
      BY DEF Ended, Working
    <2> QED
      BY <1>1, <1>2, <1>3, <1>4, <1>5, <2>1, <2>2, <2>3
  <1>8. ASSUME NEW d \in Committers PROVE Fits(d, mine[d], step[d])'
    <2>1. PICK k, too : k = mine'[d] /\ too = step'[d]
      OBVIOUS
    <2>2. Fits(d, k, too)'
      <3>1. CASE d = c
        BY <1>1, <2>1, <3>1
      <3>2. CASE d # c
        <4>1. Fits(d, k, too) /\ too = step[d]
          BY <1>1, <2>1, <3>2 DEF CInv
        <4>2. ask[d].id \in Ids
          BY AskTyped DEF CInv
        <4> QED
          BY <1>5, <3>2, <4>1, <4>2, FitsStays
      <3> QED
        BY <3>1, <3>2
    <2> QED
      BY <2>1, <2>2 DEF Fits, Deletions
  <1> QED
    BY <1>6, <1>7, <1>8 DEF CInv

(* A commit moves, and writes no journal. *)
LEMMA QuietStep ==
  ASSUME CInv, NEW c \in Committers, NEW m \in Locals, NEW to \in Working \cup Ended,
         ToStep(c, m, to), step[c] \in Working, Fits(c, m, to), to # "adding",
         m.left \subseteq ask[c].adds, UNCHANGED <<ask, journal, saved>>,
         snapshot' \subseteq Comments,
         UNCHANGED <<moved, sync, gate, pc, frame, githubVars>>,
         spent' \in [faults : Nat, restarts : Nat, user : Nat]
  PROVE  CInv'
  <1>1. TInv' /\ Grows
    BY StutterTrue DEF CInv
  <1>2. Fits(c, m, to)'
    BY <1>1, FitsStays
  <1>3. /\ journal' \in [Ids -> JournalType \cup {None}] /\ moved' \in BOOLEAN
        /\ saved' \subseteq Artifacts /\ saved' \subseteq Universe
    BY DEF CInv, BTypeOK
  <1>4. JournalsOK'
    BY DEF CInv, JournalsOK
  <1> QED
    BY <1>1, <1>2, <1>3, <1>4, ToStepInv

LEMMA FailFits ==
  ASSUME CInv, NEW c \in Committers
  PROVE  /\ mine[c] \in Locals /\ mine[c].left \subseteq ask[c].adds
         /\ \A to \in Ended : Fits(c, mine[c], to)
  BY DEF CInv, BTypeOK, Fits, Ended, Committing, Posted
-------------------------------------------------------------------------------
(* The actions of a commit *)

LEMMA SpentTyped ==
  ASSUME CInv
  PROVE  spent \in [faults : Nat, restarts : Nat, user : Nat]
  BY DEF CInv, BTypeOK, TypeOK

LEMMA SyncVars ==
  ASSUME UNCHANGED syncVars
  PROVE  UNCHANGED <<sync, gate, pc, frame, githubVars, spent>>
  BY DEF syncVars, vars, githubVars

LEMMA ClaimInv ==
  ASSUME CInv, NEW c \in Committers, Claim(c)
  PROVE  CInv'
  <1>1. UNCHANGED <<ask, sync, gate, pc, frame, githubVars, spent, saved, journal,
                    snapshot, moved, mine>>
    BY SyncVars DEF Claim
  <1>2. TInv' /\ Grows
    BY <1>1, StutterTrue, SpentTyped DEF CInv
  <1>3. ask[c].id \in Ids /\ guard[ask[c].id] = None
    BY AskTyped DEF Claim, CInv
  <1>4. BTypeOK'
    BY <1>1, <1>2 DEF Claim, CInv, BTypeOK, TInv, IInv, Working
  <1>5. \A d \in Committers : step'[d] = IF d = c THEN "read" ELSE step[d]
    BY DEF Claim, CInv, BTypeOK
  <1>6. Exclusive'
    <2> SUFFICES ASSUME NEW d \in Committers
                 PROVE  step'[d] \in Working <=> guard'[ask[d].id] = d
      BY <1>1 DEF Exclusive
    <2>1. /\ ask[d].id \in Ids /\ guard \in [Ids -> Committers \cup {None}]
          /\ step[d] \in Working <=> guard[ask[d].id] = d
      BY AskTyped DEF CInv, BTypeOK, Exclusive
    <2>2. None \notin Committers
      BY NoneIsNone, BatchesOK
    <2> QED
      BY <1>3, <1>5, <2>1, <2>2 DEF Claim, Working
  <1>7. ASSUME NEW d \in Committers PROVE Fits(d, mine[d], step[d])'
    <2>1. PICK m, to : m = mine[d] /\ to = step'[d]
      OBVIOUS
    <2>2. Fits(d, m, step[d])
      BY <2>1 DEF CInv
    <2>3. Fits(d, m, to)
      BY <1>5, <2>1, <2>2 DEF Claim, Fits, Committing, Posted
    <2>4. Fits(d, m, to)'
      BY <1>1, <1>2, <2>3, FitsStays
    <2> QED
      BY <1>1, <2>1, <2>4 DEF Fits, Deletions
  <1>8. JournalsOK' /\ (saved \subseteq Universe)'
    BY <1>1 DEF CInv, JournalsOK
  <1> QED
    BY <1>2, <1>4, <1>6, <1>7, <1>8 DEF CInv

(* A commit that gives up, or is given the receipt. *)
LEMMA EndInv ==
  ASSUME CInv, NEW c \in Committers, NEW to \in Ended, ToStep(c, mine[c], to),
         step[c] \in Working, UNCHANGED <<ask, journal, saved, snapshot, moved>>,
         UNCHANGED <<sync, gate, pc, frame, githubVars>>,
         spent' \in [faults : Nat, restarts : Nat, user : Nat]
  PROVE  CInv'
  <1>1. PICK m \in Locals : m = mine[c]
    BY FailFits
  <1>2. Fits(c, m, to) /\ m.left \subseteq ask[c].adds
    BY <1>1, FailFits
  <1>3. snapshot' \subseteq Comments
    BY DEF CInv, BTypeOK
  <1> QED
    BY <1>1, <1>2, <1>3, QuietStep DEF Ended

LEMMA ReadJournalInv ==
  ASSUME CInv, NEW c \in Committers, ReadJournal(c)
  PROVE  CInv'
  <1> DEFINE q == ask[c]
             j == journal[q.id]
  <1>1. /\ UNCHANGED <<ask, sync, gate, pc, frame, githubVars, spent, saved, journal,
                       snapshot, moved>>
        /\ step[c] \in Working /\ snapshot' \subseteq Comments
        /\ spent' \in [faults : Nat, restarts : Nat, user : Nat]
    BY SyncVars, SpentTyped DEF ReadJournal, Working, CInv, BTypeOK
  <1>2. /\ q \in Requests /\ mine[c] \in Locals /\ mine[c].left \subseteq q.adds
        /\ j \in JournalType \cup {None}
        /\ \A a \in Artifacts : mine[c].copy[a] \in Told(a)
    BY AskTyped DEF CInv, BTypeOK, Fits
  <1>3. CASE ToStep(c, mine[c], "failed") \/ ToStep(c, mine[c], "done")
    BY <1>1, <1>3, EndInv DEF Ended
  <1>4. ASSUME NEW n \in JournalType, NEW to \in {"persist", "snapshot", "finish", "head"},
               ToStep(c, [mine[c] EXCEPT !.journal = n], to),
               to \in {"persist", "snapshot"} => j = None /\ n = NewJournal(q),
               to \in {"finish", "head"} => j = n /\ n.request = q /\ ~n.result,
               to = "finish" => IsEmpty(q)
        PROVE  CInv'
    <2>1. PICK m \in Locals : /\ m = [mine[c] EXCEPT !.journal = n]
                              /\ m.journal = n /\ m.left = mine[c].left
                              /\ m.copy = mine[c].copy
      <3>1. PICK k \in Locals : k = mine[c]
        BY <1>2
      <3>2. PICK m : m = [k EXCEPT !.journal = n]
        OBVIOUS
      <3>3. m \in Locals /\ m.journal = n /\ m.left = k.left /\ m.copy = k.copy
        BY <3>2, LocalsTyped
      <3> QED
        BY <3>1, <3>2, <3>3
    <2>2. Fits(c, m, to)
      BY <1>2, <1>4, <2>1, JournalTyped
         DEF Fits, Uncommitted, Committing, Posted, Deletions, IsEmpty
    <2>3. to \in Working /\ to # "adding"
      BY DEF Working
    <2> QED
      BY <1>1, <1>2, <1>4, <2>1, <2>2, <2>3, QuietStep
  <1>5. CASE j = None
    BY <1>2, <1>4, <1>5, JournalTyped DEF ReadJournal
  <1>6. CASE j # None /\ j.request = q /\ ~j.result
    BY <1>2, <1>4, <1>6 DEF ReadJournal
  <1> QED
    BY <1>3, <1>5, <1>6 DEF ReadJournal, GiveUp

LEMMA LoadSnapshotInv ==
  ASSUME CInv, NEW c \in Committers, LoadSnapshot(c)
  PROVE  CInv'
  <1>1. /\ UNCHANGED <<ask, sync, gate, pc, frame, githubVars, spent, saved, journal,
                       snapshot, moved>>
        /\ step[c] \in Working /\ snapshot' \subseteq Comments
        /\ spent' \in [faults : Nat, restarts : Nat, user : Nat]
    BY SyncVars, SpentTyped DEF LoadSnapshot, Working, CInv, BTypeOK
  <1>2. CASE GiveUp(c)
    BY <1>1, <1>2, EndInv DEF GiveUp, Ended
  <1>3. CASE ToStep(c, mine[c], "persist")
    <2>1. PICK m \in Locals : m = mine[c] /\ m.left \subseteq ask[c].adds
      BY FailFits
    <2>2. Fits(c, m, "persist")
      BY <2>1 DEF LoadSnapshot, CInv, Fits, Committing, Posted
    <2> QED
      BY <1>1, <1>3, <2>1, <2>2, QuietStep DEF Working
  <1> QED
    BY <1>2, <1>3 DEF LoadSnapshot

LEMMA PersistOK ==
  ASSUME CInv, NEW c \in Committers, NEW j \in JournalType, Persist(c, j),
         j.request = ask[c], j.deleted \subseteq ask[c].dels
  PROVE  /\ journal' \in [Ids -> JournalType \cup {None}]
         /\ \A i \in Ids : i # ask[c].id => journal'[i] = journal[i]
         /\ journal'[ask[c].id] = j
         /\ JournalsOK'
  <1>1. ask[c].id \in Ids /\ journal \in [Ids -> JournalType \cup {None}]
    BY AskTyped DEF CInv, BTypeOK
  <1>2. /\ journal' \in [Ids -> JournalType \cup {None}]
        /\ \A i \in Ids : journal'[i] = IF i = ask[c].id THEN j ELSE journal[i]
    BY <1>1 DEF Persist
  <1> QED
    BY <1>1, <1>2 DEF JournalsOK, CInv

(* A commit writes its journal, and nothing else. *)
LEMMA WriteInv ==
  ASSUME CInv, NEW c \in Committers, NEW j \in JournalType, Persist(c, j),
         j.request = ask[c], j.deleted \subseteq ask[c].dels,
         NEW to \in Working \cup Ended, ToStep(c, mine[c], to), step[c] \in Working,
         to \in Committing => ~j.result /\ mine[c].journal = j,
         to \notin {"snapshot", "persist", "record", "adding"},
         to = "add" \/ to \in Posted => \A a \in ask[c].adds : Reached(a),
         to \in {"list", "update", "finish"} => Deletions(mine[c]) = {},
         UNCHANGED <<ask, syncVars, saved, snapshot, moved>>
  PROVE  CInv'
  <1>1. UNCHANGED <<sync, gate, pc, frame, githubVars, spent>>
    BY SyncVars
  <1>2. TInv' /\ Grows
    BY <1>1, StutterTrue, SpentTyped DEF CInv
  <1>3. PICK m \in Locals : m = mine[c] /\ m.left \subseteq ask[c].adds
    BY FailFits
  <1>4. /\ journal' \in [Ids -> JournalType \cup {None}] /\ JournalsOK'
        /\ \A i \in Ids : i # ask[c].id => journal'[i] = journal[i]
        /\ journal'[ask[c].id] = j
    BY PersistOK
  <1>5. \A a \in Artifacts : m.copy[a] \in Told(a)'
    <2>1. \A a \in Artifacts : m.copy[a] \in Told(a)
      BY <1>3 DEF CInv, Fits
    <2> QED
      BY <1>2, <2>1, ToldGrows
  <1>6. \A a \in ask[c].adds : Reached(a) => Reached(a)'
    BY <1>2, ReachedGrows
  <1>7. Fits(c, m, to)'
    <2>1. to \in Committing => Uncommitted(c)' /\ m.journal = j
      BY <1>3, <1>4, JournalTyped DEF Uncommitted
    <2>2. to \in {"list", "update", "finish"} => Deletions(m) = {}
      BY <1>3
    <2>3. to # "record" /\ to \notin {"snapshot", "persist"} /\ to # "adding"
      OBVIOUS
    <2> QED
      BY <1>4, <1>5, <1>6, <2>1, <2>2, <2>3 DEF Fits, Deletions
  <1>8. /\ saved' \subseteq Artifacts /\ saved' \subseteq Universe
        /\ snapshot' \subseteq Comments /\ moved' \in BOOLEAN
    BY DEF CInv, BTypeOK
  <1> QED
    BY <1>1, <1>2, <1>3, <1>4, <1>7, <1>8, ToStepInv

LEMMA PersistNewInv ==
  ASSUME CInv, NEW c \in Committers, PersistNew(c)
  PROVE  CInv'
  <1>1. ask[c] \in Requests /\ mine[c].journal = NewJournal(ask[c])
    BY AskTyped DEF PersistNew, CInv, Fits
  <1>2. PICK to \in {"finish", "head"} :
          ToStep(c, mine[c], to) /\ (to = "finish" => IsEmpty(ask[c]))
    BY DEF PersistNew
  <1>3. to \in Working /\ step[c] \in Working
    BY DEF PersistNew, Working
  <1>4. to = "finish" => Deletions(mine[c]) = {} /\ ask[c].adds = {}
    BY <1>1, <1>2, JournalTyped DEF Deletions, IsEmpty
  <1>5. PICK j \in JournalType : j = NewJournal(ask[c])
    BY <1>1, JournalTyped
  <1>6. j.request = ask[c] /\ j.deleted = {} /\ ~j.result
    BY <1>1, <1>5, JournalTyped
  <1>7. Persist(c, j) /\ mine[c].journal = j
    BY <1>1, <1>5 DEF PersistNew
  <1> QED
    BY <1>2, <1>3, <1>4, <1>6, <1>7, WriteInv DEF PersistNew, Posted

(* What follows the additions. *)
LEMMA AfterAddsFits ==
  ASSUME NEW c, NEW m, Uncommitted(c), m.journal = journal[ask[c].id],
         \A a \in ask[c].adds \ m.left : Reached(a),
         \A a \in Artifacts : m.copy[a] \in Told(a)
  PROVE  /\ AfterAdds(m) \in Working /\ AfterAdds(m) # "adding"
         /\ Fits(c, m, AfterAdds(m))
  BY DEF AfterAdds, Working, Fits, Committing, Posted

LEMMA CheckHeadInv ==
  ASSUME CInv, NEW c \in Committers, CheckHead(c)
  PROVE  CInv'
  <1>1. /\ UNCHANGED <<ask, sync, gate, pc, frame, githubVars, spent, saved, journal,
                       snapshot, moved>>
        /\ step[c] \in Working /\ snapshot' \subseteq Comments
        /\ spent' \in [faults : Nat, restarts : Nat, user : Nat]
    BY SyncVars, SpentTyped DEF CheckHead, Working, CInv, BTypeOK
  <1>2. PICK m \in Locals : m = mine[c] /\ m.left \subseteq ask[c].adds
    BY FailFits
  <1>3. Fits(c, m, "head")
    BY <1>2 DEF CheckHead, CInv
  <1>4. CASE GiveUp(c)
    BY <1>1, <1>4, EndInv DEF GiveUp, Ended
  <1>5. CASE ToStep(c, m, "get")
    <2>1. Fits(c, m, "get")
      BY <1>3 DEF Fits, Committing, Posted
    <2> QED
      BY <1>1, <1>2, <1>5, <2>1, QuietStep DEF Working
  <1>6. CASE ask[c].adds = {} /\ ToStep(c, m, AfterAdds(m))
    <2>1. PICK to : to = AfterAdds(m)
      OBVIOUS
    <2>2. to \in Working /\ to # "adding" /\ Fits(c, m, to)
      BY <1>3, <1>6, <2>1, AfterAddsFits DEF Fits, Committing
    <2> QED
      BY <1>1, <1>2, <1>6, <2>1, <2>2, QuietStep
  <1> QED
    BY <1>2, <1>4, <1>5, <1>6 DEF CheckHead

LEMMA GetArtifactsInv ==
  ASSUME CInv, NEW c \in Committers, GetArtifacts(c)
  PROVE  CInv'
  <1> DEFINE k == [a \in Artifacts |-> IF a \in saved THEN sync[a] ELSE LocalOnly]
  <1>1. /\ UNCHANGED <<ask, sync, gate, pc, frame, githubVars, spent, saved, journal,
                       snapshot, moved>>
        /\ step[c] \in Working /\ snapshot' \subseteq Comments
        /\ spent' \in [faults : Nat, restarts : Nat, user : Nat]
    BY SyncVars, SpentTyped DEF GetArtifacts, Working, CInv, BTypeOK
  <1>2. PICK n \in Locals : n = mine[c] /\ Fits(c, n, "get")
    BY FailFits DEF GetArtifacts, CInv
  <1>3. k \in [Artifacts -> SyncStates] /\ \A a \in Artifacts : k[a] \in Told(a)
    BY StatesTyped DEF CInv, BTypeOK, TypeOK, TInv, Told
  <1>4. ask[c].adds \in SUBSET Artifacts
    BY AskTyped DEF CInv
  <1>5. PICK m : m = [n EXCEPT !.left = ask[c].adds, !.copy = k]
    OBVIOUS
  <1>6. ToStep(c, m, "save")
    BY <1>2, <1>5 DEF GetArtifacts
  <1> HIDE DEF k
  <1>7. /\ m \in Locals /\ m.left = ask[c].adds /\ m.copy = k
        /\ m.journal = n.journal
    <2>1. PICK l \in SUBSET Artifacts, o \in [Artifacts -> SyncStates] :
            l = ask[c].adds /\ o = k
      BY <1>3, <1>4
    <2>2. m = [n EXCEPT !.left = l, !.copy = o]
      BY <1>5, <2>1
    <2>3. m \in Locals /\ m.journal = n.journal /\ m.left = l /\ m.copy = o
      BY <2>2 DEF Locals
    <2> QED
      BY <2>1, <2>3
  <1>8. Fits(c, m, "save")
    BY <1>2, <1>3, <1>7 DEF Fits, Committing, Posted
  <1> QED
    BY <1>1, <1>6, <1>7, <1>8, QuietStep DEF Working

(* The store changes, to what may be told. *)
LEMMA StoreTrue ==
  ASSUME TInv, UNCHANGED <<gate, pc, frame, githubVars, spent>>,
         sync' \in [Artifacts -> SyncStates], \A a \in Artifacts : sync'[a] \in Told(a)
  PROVE  TInv' /\ Grows
  <1>1. Grows /\ CommentsPosted'
    BY NothingForgotten
  <1>2. IInv'
    <2>1. TypeOK'
      BY DEF TInv, IInv, TypeOK, githubVars
    <2>2. GateExcludes' /\ OneCopyPerFinding' /\ FramesOK'
      BY DEF TInv, IInv, GateExcludes, OneCopyPerFinding, Present, FramesOK, githubVars
    <2> QED
      BY <2>1, <2>2 DEF IInv
  <1>3. \A a \in Artifacts : Told(a)' = Told(a) /\ sync'[a] \in Told(a)'
    BY DEF Told, Holding, WasIn, githubVars
  <1>4. ASSUME NEW d \in Calls PROVE (frame[d] \in Sound(pc[d]))'
    <2>1. PICK to \in Pcs : to = pc[d]
      BY DEF TInv, IInv, TypeOK
    <2>2. PICK h \in Sound(to) : h = frame[d]
      BY <2>1 DEF TInv
    <2>3. to = "stage" => h.found \in Reviews
      BY <2>1, <2>2 DEF TInv, IInv, FramesOK, FrameOK
    <2>4. h \in Sound(to)'
      BY <1>1, <2>3, SoundGrows
    <2> QED
      BY <2>1, <2>2, <2>4 DEF Sound
  <1> QED
    BY <1>1, <1>2, <1>3, <1>4 DEF TInv

LEMMA SaveArtifactInv ==
  ASSUME CInv, NEW c \in Committers, SaveArtifact(c)
  PROVE  CInv'
  <1>1. PICK a \in mine[c].left :
          /\ saved' = saved \cup {a}
          /\ sync' = [sync EXCEPT ![a] = mine[c].copy[a]]
          /\ \/ ToStep(c, [mine[c] EXCEPT !.left = ask[c].adds], "add")
             \/ ToStep(c, [mine[c] EXCEPT !.left = @ \ {a}], "save")
    BY DEF SaveArtifact
  <1>2. PICK n \in Locals : n = mine[c] /\ Fits(c, n, "save") /\ n.left \subseteq ask[c].adds
    BY FailFits DEF SaveArtifact, CInv
  <1>3. /\ a \in Artifacts /\ a \in Universe /\ ask[c].adds \in SUBSET Artifacts
        /\ n.left \in SUBSET Artifacts
    BY <1>1, <1>2, AskTyped DEF CInv
  <1>4. UNCHANGED <<ask, gate, pc, frame, githubVars, spent, journal, snapshot, moved>>
    BY DEF SaveArtifact
  <1>5. /\ sync' \in [Artifacts -> SyncStates]
        /\ \A x \in Artifacts : sync'[x] \in Told(x)
    <2>1. n.copy[a] \in SyncStates /\ n.copy[a] \in Told(a)
      BY <1>2, <1>3 DEF Locals, Fits
    <2> QED
      BY <1>1, <1>2, <1>3, <2>1 DEF CInv, BTypeOK, TypeOK, TInv
  <1>6. TInv' /\ Grows
    BY <1>4, <1>5, StoreTrue DEF CInv
  <1>7. PICK l \in SUBSET Artifacts, to \in {"add", "save"} :
          /\ ToStep(c, [n EXCEPT !.left = l], to) /\ l \subseteq ask[c].adds
          /\ to = "add" => l = ask[c].adds
    BY <1>1, <1>2, <1>3
  <1>8. PICK m \in Locals : /\ m = [n EXCEPT !.left = l] /\ m.left = l
                            /\ m.journal = n.journal /\ m.copy = n.copy
    <2>1. PICK m : m = [n EXCEPT !.left = l]
      OBVIOUS
    <2>2. /\ m \in Locals /\ m.left = l
          /\ m.journal = n.journal /\ m.copy = n.copy
      BY <2>1, LocalsTyped
    <2> QED
      BY <2>1, <2>2
  <1>9. Fits(c, m, to)
    BY <1>2, <1>7, <1>8 DEF Fits, Committing, Posted
  <1>10. Fits(c, m, to)'
    BY <1>4, <1>6, <1>7, <1>9, FitsStays
  <1>11. to \in Working /\ step[c] \in Working
    BY DEF SaveArtifact, Working
  <1>12. /\ journal' \in [Ids -> JournalType \cup {None}] /\ JournalsOK'
         /\ \A i \in Ids : i # ask[c].id => journal'[i] = journal[i]
         /\ saved' \subseteq Artifacts /\ saved' \subseteq Universe
         /\ snapshot' \subseteq Comments /\ moved' \in BOOLEAN
    BY <1>1, <1>3, <1>4 DEF CInv, BTypeOK, JournalsOK
  <1> QED
    BY <1>4, <1>6, <1>7, <1>8, <1>10, <1>11, <1>12, ToStepInv

(* An addition is handed to a call of its own. *)
LEMMA AddInv ==
  ASSUME CInv, NEW c \in Committers, Add(c)
  PROVE  CInv'
  <1>1. PICK a \in mine[c].left :
          /\ BeginWith(c, {a}, mine[c].copy)
          /\ ToStep(c, [mine[c] EXCEPT !.left = @ \ {a}], "adding")
    BY DEF Add
  <1>2. PICK n \in Locals : n = mine[c] /\ Fits(c, n, "add") /\ n.left \subseteq ask[c].adds
    BY FailFits DEF Add, CInv
  <1>3. /\ a \in Artifacts /\ n.left \in SUBSET Artifacts /\ c \in Calls
    BY <1>1, <1>2, AskTyped DEF CInv
  <1>4. /\ UNCHANGED <<ask, journal, snapshot, moved, saved>>
        /\ UNCHANGED <<storeVars, githubVars, spent>>
    BY DEF Add
  <1>5. n.copy \in [Artifacts -> SyncStates] /\ \A x \in Artifacts : n.copy[x] \in Told(x)
    BY <1>2 DEF Locals, Fits
  <1>6. BeginWith(c, {a}, n.copy) /\ Distinct({a})
    BY <1>1, <1>2 DEF Distinct
  <1>7. IInv'
    BY <1>3, <1>4, <1>5, <1>6, BeginWithInv DEF CInv, TInv
  <1>8. TInv' /\ Grows
    BY <1>3, <1>4, <1>5, <1>6, <1>7, BeginWithTrue, NothingForgotten DEF CInv
  <1>9. /\ frame'[c].batch = {a}
        /\ \A d \in Committers : d # c => frame'[d].batch = frame[d].batch
    <2>1. {a} \in SUBSET Artifacts /\ TypeOK
      BY <1>3 DEF CInv, BTypeOK
    <2>2. frame'[c].batch = {a} /\ \A d \in Calls : d # c => frame'[d] = frame[d]
      BY <1>3, <1>5, <1>6, <2>1, BeginWithBatch
    <2> QED
      BY <2>2, BatchesOK
  <1>10. PICK m : m = [n EXCEPT !.left = n.left \ {a}]
    OBVIOUS
  <1>11. /\ m \in Locals /\ m.left = n.left \ {a}
         /\ m.journal = n.journal /\ m.copy = n.copy
    BY <1>3, <1>10, LocalsTyped
  <1>12. ToStep(c, m, "adding")
    BY <1>1, <1>2, <1>10
  <1>13. Fits(c, m, "adding")'
    <2>1. \A x \in Artifacts : m.copy[x] \in Told(x)'
      BY <1>5, <1>8, <1>11, ToldGrows
    <2>2. \A x \in ask[c].adds \ m.left : Reached(x)' \/ x \in frame'[c].batch
      <3>1. \A x \in ask[c].adds \ n.left : Reached(x)
        BY <1>2 DEF Fits
      <3> QED
        BY <1>8, <1>9, <1>11, <3>1, ReachedGrows
    <2>3. Uncommitted(c)' /\ m.journal = journal'[ask'[c].id]
      BY <1>2, <1>4, <1>11 DEF Fits, Committing, Uncommitted
    <2> QED
      BY <1>4, <2>1, <2>2, <2>3 DEF Fits, Committing, Posted
  <1>14. "adding" \in Working /\ step[c] \in Working
    BY DEF Add, Working
  <1>15. /\ journal' \in [Ids -> JournalType \cup {None}] /\ JournalsOK'
         /\ \A i \in Ids : i # ask[c].id => journal'[i] = journal[i]
         /\ saved' \subseteq Artifacts /\ saved' \subseteq Universe
         /\ snapshot' \subseteq Comments /\ moved' \in BOOLEAN
         /\ m.left \subseteq ask[c].adds
    BY <1>2, <1>4, <1>11 DEF CInv, BTypeOK, JournalsOK
  <1> QED
    BY <1>4, <1>8, <1>9, <1>11, <1>12, <1>13, <1>14, <1>15, ToStepInv

LEMMA AddedInv ==
  ASSUME CInv, NEW c \in Committers, Added(c)
  PROVE  CInv'
  <1>1. /\ UNCHANGED <<ask, storeVars, githubVars, gate, frame, spent, saved, journal,
                       snapshot, moved>>
        /\ pc' = [pc EXCEPT ![c] = "idle"] /\ pc[c] \in Ended /\ step[c] = "adding"
    BY DEF Added
  <1>2. c \in Calls /\ ask[c].adds \subseteq Findings
    BY AskTyped DEF CInv
  <1>3. IInv'
    <2>1. pc' \in [Calls -> Pcs] /\ \A d \in Calls : pc'[d] = IF d = c THEN "idle" ELSE pc[d]
      BY <1>1 DEF CInv, BTypeOK, TypeOK, Pcs
    <2>2. TypeOK'
      BY <1>1, <2>1 DEF CInv, TInv, IInv, TypeOK, storeVars, githubVars
    <2>3. GateExcludes'
      BY <1>1, <2>1 DEF CInv, TInv, IInv, GateExcludes, Inside, Ended
    <2>4. OneCopyPerFinding'
      BY <1>1 DEF CInv, TInv, IInv, OneCopyPerFinding, Present, githubVars
    <2>5. FramesOK'
      BY <1>1, <2>1 DEF CInv, TInv, IInv, FramesOK, FrameOK, Inside, githubVars
    <2> QED
      BY <2>2, <2>3, <2>4, <2>5 DEF IInv
  <1>4. TInv' /\ Grows
    <2>1. \A d \in Calls : pc'[d] \in {pc[d], "failed", "idle"}
      BY <1>1 DEF CInv, BTypeOK, TypeOK
    <2>2. Grows /\ CommentsPosted'
      BY <1>1, NothingForgotten DEF CInv
    <2> QED
      BY <1>1, <1>3, <2>1, <2>2, OthersTrue DEF CInv, storeVars
  <1>5. PICK m \in Locals : m = mine[c] /\ Fits(c, m, "adding") /\ m.left \subseteq ask[c].adds
    BY <1>1, FailFits DEF CInv
  <1>6. PICK to : /\ ToStep(c, m, to)
                  /\ to = "failed" \/ (pc[c] = "done" /\ to = AfterAdds(m))
    BY <1>5 DEF Added, GiveUp
  <1>7. /\ to \in Working \cup Ended /\ to # "adding"
        /\ Fits(c, m, to)
    <2>1. CASE to = "failed"
      BY <1>5, <2>1, FailFits DEF Ended
    <2>2. CASE pc[c] = "done" /\ to = AfterAdds(m)
      <3>1. \A a \in ask[c].adds \ m.left : Reached(a)
        BY <1>2, <1>5, <2>2, DoneReached DEF Fits, CInv
      <3> QED
        BY <1>5, <2>2, <3>1, AfterAddsFits DEF Fits, Committing
    <2> QED
      BY <1>6, <2>1, <2>2
  <1>8. Fits(c, m, to)'
    BY <1>1, <1>4, <1>7, FitsStays
  <1>9. /\ journal' \in [Ids -> JournalType \cup {None}] /\ JournalsOK'
        /\ \A i \in Ids : i # ask[c].id => journal'[i] = journal[i]
        /\ saved' \subseteq Artifacts /\ saved' \subseteq Universe
        /\ snapshot' \subseteq Comments /\ moved' \in BOOLEAN
        /\ step[c] \in Working
    BY <1>1 DEF CInv, BTypeOK, JournalsOK, Working
  <1> QED
    BY <1>1, <1>4, <1>5, <1>6, <1>7, <1>8, <1>9, ToStepInv

(* A deletion takes at most one comment, and what was posted stays so. *)
LEMMA DeleteTrue ==
  ASSUME TInv, NEW r \in Reviews, NEW a \in Artifacts,
         copies' = [copies EXCEPT ![r][a] = IF @ > 0 THEN @ - 1 ELSE 0],
         UNCHANGED <<sync, gate, pc, frame, review, body, posted, manual>>,
         spent' \in [faults : Nat, restarts : Nat, user : Nat]
  PROVE  TInv' /\ Grows
  <1>1. copies \in [Reviews -> [Artifacts -> Nat]]
    BY DEF TInv, IInv, TypeOK
  <1>2. PICK n \in Nat : n = (IF copies[r][a] > 0 THEN copies[r][a] - 1 ELSE 0)
                         /\ n <= copies[r][a]
    BY <1>1
  <1>3. copies' = [copies EXCEPT ![r] = [copies[r] EXCEPT ![a] = n]]
    BY <1>2
  <1>4. /\ copies' \in [Reviews -> [Artifacts -> Nat]]
        /\ \A q \in Reviews, b \in Artifacts : copies'[q][b] <= copies[q][b]
    BY <1>1, <1>2, <1>3
  <1>5. IInv'
    BY <1>4, FewerInv DEF TInv, IInv, TypeOK
  <1>6. Grows
    BY DEF Grows
  <1>7. CommentsPosted'
    BY <1>1, <1>4 DEF CommentsPosted, TInv
  <1> QED
    BY <1>5, <1>6, <1>7, OthersTrue

LEMMA DeleteInv ==
  ASSUME CInv, NEW c \in Committers, NEW lost \in BOOLEAN, Delete(c, lost)
  PROVE  CInv'
  <1>1. PICK d \in Deletions(mine[c]) :
          /\ copies' = [copies EXCEPT ![d[1]][d[2]] = IF @ > 0 THEN @ - 1 ELSE 0]
          /\ \/ GiveUp(c)
             \/ ToStep(c, [mine[c] EXCEPT !.journal.deleted = @ \cup {d}], "record")
    BY DEF Delete
  <1>2. /\ UNCHANGED <<ask, sync, gate, pc, frame, review, body, posted, manual>>
        /\ UNCHANGED <<saved, journal, snapshot, moved>>
        /\ spent' \in [faults : Nat, restarts : Nat, user : Nat]
        /\ step[c] = "delete"
    BY RiskTyped DEF Delete, storeVars, CInv, BTypeOK
  <1>3. PICK n \in Locals : n = mine[c] /\ Fits(c, n, "delete") /\ n.left \subseteq ask[c].adds
    BY <1>2, FailFits DEF CInv
  <1>4. PICK j \in JournalType : /\ j = n.journal /\ j = journal[ask[c].id]
                                 /\ j.request = ask[c] /\ ~j.result
    <2>1. journal[ask[c].id] \in JournalType \cup {None}
      BY AskTyped DEF CInv, BTypeOK
    <2>2. Uncommitted(c) /\ n.journal = journal[ask[c].id]
      BY <1>3 DEF Fits, Committing
    <2> QED
      BY <2>1, <2>2 DEF Uncommitted
  <1>5. d \in ask[c].dels \ j.deleted /\ d \in Comments /\ j.deleted \subseteq Comments
    BY <1>1, <1>3, <1>4, AskTyped DEF Deletions, JournalType, CInv
  <1>6. TInv' /\ Grows
    <2>1. d[1] \in Reviews /\ d[2] \in Artifacts
      BY <1>5 DEF Comments, Findings
    <2> QED
      BY <1>1, <1>2, <2>1, DeleteTrue DEF CInv
  <1>7. PICK e \in JournalType : e = [j EXCEPT !.deleted = j.deleted \cup {d}]
    BY <1>5, JournalTyped
  <1>8. PICK m \in Locals, to \in {"failed", "record"} :
          /\ ToStep(c, m, to)
          /\ m.left = n.left /\ m.copy = n.copy
          /\ to = "record" => m.journal = e
    <2>1. CASE GiveUp(c)
      BY <1>3, <2>1 DEF GiveUp
    <2>2. CASE ToStep(c, [mine[c] EXCEPT !.journal.deleted = @ \cup {d}], "record")
      <3>1. PICK m : m = [n EXCEPT !.journal = e]
        OBVIOUS
      <3>2. m \in Locals /\ m.journal = e /\ m.left = n.left /\ m.copy = n.copy
        BY <3>1, LocalsTyped
      <3>3. [mine[c] EXCEPT !.journal.deleted = @ \cup {d}] = m
        <4>1. [n EXCEPT !.journal.deleted = @ \cup {d}]
                = [n EXCEPT !.journal = [n.journal EXCEPT !.deleted = n.journal.deleted \cup {d}]]
          BY DEF Locals
        <4> QED
          BY <1>3, <1>4, <1>7, <3>1, <4>1
      <3> QED
        BY <2>2, <3>2, <3>3
    <2> QED
      BY <1>1, <2>1, <2>2
  <1>9. Fits(c, m, to)
    <2>1. Uncommitted(c)
      BY <1>3 DEF Fits, Committing
    <2>2. \A a \in ask[c].adds : Reached(a)
      BY <1>3 DEF Fits, Posted
    <2>3. \A a \in Artifacts : m.copy[a] \in Told(a)
      BY <1>3, <1>8 DEF Fits
    <2>4. to = "record" =>
            \E x \in ask[c].dels \ journal[ask[c].id].deleted :
              m.journal = [journal[ask[c].id] EXCEPT !.deleted = journal[ask[c].id].deleted \cup {x}]
      BY <1>4, <1>5, <1>7, <1>8
    <2> QED
      BY <2>1, <2>2, <2>3, <2>4 DEF Fits, Committing, Posted
  <1>10. Fits(c, m, to)'
    BY <1>2, <1>6, <1>9, FitsStays
  <1>11. /\ journal' \in [Ids -> JournalType \cup {None}] /\ JournalsOK'
         /\ \A i \in Ids : i # ask[c].id => journal'[i] = journal[i]
         /\ saved' \subseteq Artifacts /\ saved' \subseteq Universe
         /\ snapshot' \subseteq Comments /\ moved' \in BOOLEAN
         /\ step[c] \in Working /\ to \in Working \cup Ended
    BY <1>2 DEF CInv, BTypeOK, JournalsOK, Working, Ended
  <1> QED
    BY <1>2, <1>3, <1>6, <1>8, <1>10, <1>11, ToStepInv

LEMMA RecordDeletionInv ==
  ASSUME CInv, NEW c \in Committers, RecordDeletion(c)
  PROVE  CInv'
  <1>1. step[c] = "record" /\ Fits(c, mine[c], "record")
    BY DEF RecordDeletion, CInv
  <1>2. PICK i \in JournalType : i = journal[ask[c].id]
    BY <1>1, AskTyped DEF Fits, Uncommitted, CInv, BTypeOK
  <1>3. PICK d \in ask[c].dels : mine[c].journal = [i EXCEPT !.deleted = i.deleted \cup {d}]
    BY <1>1, <1>2 DEF Fits
  <1>4. i.request = ask[c] /\ ~i.result /\ i.deleted \subseteq ask[c].dels
    BY <1>1, <1>2, AskTyped, JournalTyped DEF Fits, Uncommitted, CInv, JournalsOK
  <1>5. i.deleted \cup {d} \subseteq ask[c].dels /\ i.deleted \cup {d} \in SUBSET Comments
    BY <1>3, <1>4, AskTyped DEF CInv
  <1>6. PICK j \in JournalType : /\ j = mine[c].journal
                                 /\ j.request = ask[c] /\ j.deleted = i.deleted \cup {d}
                                 /\ ~j.result
    <2>1. PICK j : j = [i EXCEPT !.deleted = i.deleted \cup {d}]
      OBVIOUS
    <2>2. PICK D \in SUBSET Comments : D = i.deleted \cup {d}
      BY <1>5
    <2>3. j = [i EXCEPT !.deleted = D]
      BY <2>1, <2>2
    <2>4. j \in JournalType /\ j.request = i.request /\ j.deleted = D /\ j.result = i.result
      BY <2>3, JournalTyped
    <2> QED
      BY <1>3, <1>4, <2>1, <2>2, <2>4
  <1>7. PICK to \in {"add", "delete", "list"} :
          /\ ToStep(c, mine[c], to)
          /\ to = "list" => Deletions(mine[c]) = {}
    BY DEF RecordDeletion, AfterAdds
  <1>8. \A a \in ask[c].adds : Reached(a)
    BY <1>1 DEF Fits, Posted
  <1>9. to \in Working /\ step[c] \in Working
    BY <1>1 DEF Working
  <1>10. Persist(c, j)
    BY <1>6 DEF RecordDeletion
  <1> QED
    BY <1>5, <1>6, <1>7, <1>8, <1>9, <1>10, WriteInv DEF RecordDeletion

LEMMA ListCommentsInv ==
  ASSUME CInv, NEW c \in Committers, ListComments(c)
  PROVE  CInv'
  <1>1. /\ UNCHANGED <<ask, sync, gate, pc, frame, githubVars, spent, saved, journal,
                       snapshot, moved>>
        /\ step[c] \in Working /\ snapshot' \subseteq Comments
        /\ spent' \in [faults : Nat, restarts : Nat, user : Nat]
    BY SyncVars, SpentTyped DEF ListComments, Working, CInv, BTypeOK
  <1>2. PICK n \in Locals : n = mine[c] /\ Fits(c, n, "list") /\ n.left \subseteq ask[c].adds
    BY FailFits DEF ListComments, CInv
  <1>3. PICK page \in ListedDrafts : ToStep(c, [n EXCEPT !.drafts = page], "update")
    BY <1>2 DEF ListComments
  <1>4. page \in SUBSET Comments
    BY <1>3 DEF ListedDrafts, Pages
  <1>5. PICK m : m = [n EXCEPT !.drafts = page]
    OBVIOUS
  <1>6. m \in Locals /\ m.journal = n.journal /\ m.left = n.left /\ m.copy = n.copy
    BY <1>4, <1>5, LocalsTyped
  <1>7. Fits(c, m, "update")
    BY <1>2, <1>6 DEF Fits, Committing, Posted, Deletions
  <1> QED
    BY <1>1, <1>2, <1>3, <1>5, <1>6, <1>7, QuietStep DEF Working

LEMMA UpdateSnapshotInv ==
  ASSUME CInv, NEW c \in Committers, UpdateSnapshot(c)
  PROVE  CInv'
  <1>1. PICK m \in Locals : m = mine[c] /\ Fits(c, m, "update") /\ m.left \subseteq ask[c].adds
    BY FailFits DEF UpdateSnapshot, CInv
  <1>2. /\ UNCHANGED <<ask, sync, gate, pc, frame, githubVars, spent, saved, journal, moved>>
        /\ step[c] \in Working
        /\ spent' \in [faults : Nat, restarts : Nat, user : Nat]
    BY SyncVars, SpentTyped DEF UpdateSnapshot, Working
  <1>3. snapshot' \subseteq Comments
    BY <1>1 DEF UpdateSnapshot, Locals
  <1>4. Fits(c, m, "finish")
    BY <1>1 DEF Fits, Committing, Posted
  <1>5. ToStep(c, m, "finish")
    BY <1>1 DEF UpdateSnapshot
  <1> QED
    BY <1>1, <1>2, <1>3, <1>4, <1>5, QuietStep DEF Working

(* What a commit that is about to finish has done. *)
LEMMA AllDone ==
  ASSUME CInv, NEW c \in Committers, step[c] = "finish"
  PROVE  /\ journal[ask[c].id] \in JournalType /\ mine[c].journal = journal[ask[c].id]
         /\ journal[ask[c].id].request = ask[c] /\ ~journal[ask[c].id].result
         /\ journal[ask[c].id].deleted = ask[c].dels
         /\ \A a \in ask[c].adds : Reached(a)
  <1>1. Fits(c, mine[c], "finish")
    BY DEF CInv
  <1>2. /\ Uncommitted(c) /\ mine[c].journal = journal[ask[c].id]
        /\ \A a \in ask[c].adds : Reached(a)
        /\ Deletions(mine[c]) = {}
    BY <1>1 DEF Fits, Committing, Posted
  <1>3. ask[c].id \in Ids /\ journal[ask[c].id] \in JournalType
    BY <1>2, AskTyped DEF Uncommitted, CInv, BTypeOK
  <1>4. journal[ask[c].id].deleted \subseteq ask[c].dels
    BY <1>2, <1>3, JournalTyped DEF Uncommitted, CInv, JournalsOK
  <1> QED
    BY <1>2, <1>3, <1>4 DEF Uncommitted, Deletions

LEMMA FinishInv ==
  ASSUME CInv, NEW c \in Committers, Finish(c)
  PROVE  CInv'
  <1>1. step[c] = "finish" /\ "done" \in Ended /\ step[c] \in Working
    BY DEF Finish, Ended, Working
  <1>2. PICK i \in JournalType : /\ i = mine[c].journal
                                 /\ i.request = ask[c] /\ i.deleted = ask[c].dels
    BY <1>1, AllDone
  <1>3. PICK j \in JournalType : /\ j = [i EXCEPT !.result = TRUE]
                                 /\ j.request = ask[c] /\ j.deleted = ask[c].dels
    <2>1. PICK j : j = [i EXCEPT !.result = TRUE]
      OBVIOUS
    <2>2. j \in JournalType /\ j.request = i.request /\ j.deleted = i.deleted
      BY <2>1, JournalTyped
    <2> QED
      BY <1>2, <2>1, <2>2
  <1>4. Persist(c, j)
    BY <1>2, <1>3 DEF Finish
  <1>5. "done" \notin Committing /\ "done" \notin Posted
    BY DEF Committing, Posted
  <1> QED
    BY <1>1, <1>3, <1>4, <1>5, WriteInv DEF Finish

LEMMA BreakCommitInv ==
  ASSUME CInv, NEW c \in Committers, BreakCommit(c)
  PROVE  CInv'
  <1>1. spent' \in [faults : Nat, restarts : Nat, user : Nat]
    BY RiskTyped DEF BreakCommit, CInv, BTypeOK
  <1> QED
    BY <1>1, EndInv DEF BreakCommit, GiveUp, Ended, storeVars

LEMMA PushInv ==
  ASSUME CInv, Push
  PROVE  CInv'
  <1>1. spent' \in [faults : Nat, restarts : Nat, user : Nat]
    BY SpentTyped DEF Push, UserActs
  <1>2. TInv' /\ Grows
    BY <1>1, StutterTrue DEF Push, CInv, storeVars
  <1>3. UNCHANGED <<ask, saved, journal, snapshot, guard, step, mine, frame>>
    BY DEF Push
  <1>4. BTypeOK'
    BY <1>2, <1>3 DEF Push, CInv, BTypeOK, TInv, IInv
  <1>5. ASSUME NEW c \in Committers PROVE Fits(c, mine[c], step[c])'
    <2>1. PICK m, to : m = mine[c] /\ to = step[c] /\ Fits(c, m, to)
      BY DEF CInv
    <2>2. Fits(c, m, to)'
      BY <1>2, <1>3, <2>1, FitsStays
    <2> QED
      BY <1>3, <2>1, <2>2 DEF Fits, Deletions
  <1> QED
    BY <1>2, <1>3, <1>4, <1>5 DEF CInv, Exclusive, JournalsOK

(* A restart: every commit under way failed, and every call. *)
LEMMA HostRestartInv ==
  ASSUME CInv, HostRestart
  PROVE  CInv'
  <1>1. /\ UNCHANGED <<ask, sync, githubVars, frame, saved, journal, snapshot, moved, mine>>
        /\ gate' = None /\ guard' = [i \in Ids |-> None]
        /\ spent' \in [faults : Nat, restarts : Nat, user : Nat]
    BY SpentTyped DEF HostRestart, Restarts, storeVars
  <1>2. /\ pc' \in [Calls -> Pcs]
        /\ \A d \in Calls : /\ pc'[d] \notin Inside \cup {"gate", "apply"}
                            /\ pc'[d] \in {pc[d], "failed", "idle"}
    BY DEF HostRestart, CInv, BTypeOK, TypeOK, Pcs, Inside, Ended
  <1>3. IInv'
    BY <1>1, <1>2, StoppedInv DEF CInv, TInv
  <1>4. Grows /\ CommentsPosted'
    BY <1>1, NothingForgotten DEF CInv
  <1>5. TInv'
    BY <1>1, <1>2, <1>3, <1>4, OthersTrue DEF CInv
  <1>6. /\ step' \in [Committers -> Working \cup Ended \cup {"idle"}]
        /\ \A c \in Committers : step'[c] \notin Working
    BY DEF HostRestart, CInv, BTypeOK, Working, Ended
  <1>7. BTypeOK'
    BY <1>1, <1>5, <1>6 DEF CInv, BTypeOK, TInv, IInv
  <1>8. Exclusive'
    <2> SUFFICES ASSUME NEW c \in Committers PROVE guard'[ask[c].id] # c
      BY <1>1, <1>6 DEF Exclusive
    <2>1. ask[c].id \in Ids /\ c # None
      BY AskTyped, NoneIsNone DEF CInv
    <2> QED
      BY <1>1, <2>1
  <1>9. ASSUME NEW c \in Committers PROVE Fits(c, mine[c], step[c])'
    <2>1. PICK m, to : m = mine[c] /\ to = step'[c] /\ Fits(c, m, step[c])
      BY DEF CInv
    <2>2. to \notin Working
      BY <1>6, <2>1
    <2>3. Fits(c, m, to)
      BY <2>1, <2>2 DEF Fits, Working, Committing, Posted
    <2>4. Fits(c, m, to)'
      BY <1>1, <1>4, <2>2, <2>3, FitsStays DEF Working
    <2> QED
      BY <1>1, <2>1, <2>4 DEF Fits, Deletions
  <1> QED
    BY <1>1, <1>5, <1>7, <1>8, <1>9 DEF CInv, JournalsOK

(* `review sync` of the activity, beside the commits. *)
LEMMA BeginActivityInv ==
  ASSUME FindingsDiffer, CInv, NEW c \in Calls, BeginActivity(c), UNCHANGED batchVars
  PROVE  CInv'
  <1>1. /\ BeginWith(c, saved, sync) /\ c \notin Committers
        /\ UNCHANGED <<storeVars, githubVars, spent>>
    BY DEF BeginActivity
  <1>2. saved \in SUBSET Artifacts /\ Distinct(saved)
    BY DEF CInv, BTypeOK, FindingsDiffer, Distinct
  <1>3. sync \in [Artifacts -> SyncStates] /\ \A a \in Artifacts : sync[a] \in Told(a)
    BY DEF CInv, BTypeOK, TypeOK, TInv
  <1>4. IInv'
    BY <1>1, <1>2, <1>3, BeginWithInv DEF CInv, TInv
  <1>5. TInv' /\ Grows
    BY <1>1, <1>2, <1>3, <1>4, BeginWithTrue, NothingForgotten DEF CInv
  <1>6. \A d \in Committers : frame'[d].batch = frame[d].batch
    <2>1. \A d \in Calls : d # c => frame'[d] = frame[d]
      BY <1>1, <1>2, <1>3, BeginWithBatch DEF CInv, BTypeOK
    <2> QED
      BY <1>1, <2>1, BatchesOK
  <1> QED
    BY <1>5, <1>6, BesideInv

-------------------------------------------------------------------------------
(* The theorems about batches *)

LEMMA UserBesideInv ==
  ASSUME CInv, User, UNCHANGED batchVars
  PROVE  CInv'
  <1>1. IInv'
    BY UserInv DEF CInv, TInv
  <1>2. TInv' /\ Grows
    BY <1>1, UserTrue DEF CInv
  <1>3. UNCHANGED frame
    BY DEF User, Submit, Discard, WriteBody, DeleteComment, Comment
  <1> QED
    BY <1>2, <1>3, BesideInv

LEMMA SyncStepInv ==
  ASSUME PagesSuffice, FindingsDiffer, CInv, NEW c \in Calls, SyncStep(c)
  PROVE  CInv'
  <1>1. CASE BeginActivity(c)
    BY <1>1, BeginActivityInv DEF SyncStep
  <1>2. CASE Step(c) \/ Break(c)
    <2>1. IInv'
      BY <1>2, StepInv, BreakInv DEF CInv, TInv
    <2>2. TInv' /\ Grows
      <3>1. CASE Step(c)
        BY <2>1, <3>1, StepTrue DEF CInv
      <3>2. CASE Break(c)
        BY <2>1, <3>2, BreakTrue, NothingForgotten DEF Break, CInv
      <3> QED
        BY <1>2, <3>1, <3>2
    <2>3. \A d \in Committers : frame'[d].batch = frame[d].batch
      BY <1>2, BatchStays, BatchesOK DEF CInv, TInv
    <2> QED
      BY <2>2, <2>3, BesideInv DEF SyncStep
  <1> QED
    BY <1>1, <1>2 DEF SyncStep

LEMMA CommitStepInv ==
  ASSUME CInv, NEW c \in Committers, CommitStep(c)
  PROVE  CInv'
  <1>1. CASE Claim(c) \/ ReadJournal(c) \/ LoadSnapshot(c) \/ PersistNew(c) \/ CheckHead(c)
    BY <1>1, ClaimInv, ReadJournalInv, LoadSnapshotInv, PersistNewInv, CheckHeadInv
  <1>2. CASE GetArtifacts(c) \/ SaveArtifact(c) \/ Add(c) \/ Added(c) \/ RecordDeletion(c)
    BY <1>2, GetArtifactsInv, SaveArtifactInv, AddInv, AddedInv, RecordDeletionInv
  <1>3. CASE ListComments(c) \/ UpdateSnapshot(c) \/ Finish(c)
    BY <1>3, ListCommentsInv, UpdateSnapshotInv, FinishInv
  <1>4. CASE \E lost \in BOOLEAN : Delete(c, lost)
    BY <1>4, DeleteInv
  <1> QED
    BY <1>1, <1>2, <1>3, <1>4 DEF CommitStep

LEMMA BNextInv ==
  ASSUME PagesSuffice, FindingsDiffer, CInv, [BNext]_allVars
  PROVE  CInv'
  <1>1. ASSUME NEW c \in Committers, CommitStep(c) \/ BreakCommit(c) PROVE CInv'
    BY <1>1, CommitStepInv, BreakCommitInv
  <1>2. ASSUME NEW c \in Calls, SyncStep(c) PROVE CInv'
    BY <1>2, SyncStepInv
  <1>3. CASE User /\ UNCHANGED batchVars
    BY <1>3, UserBesideInv
  <1>4. CASE Push
    BY <1>4, PushInv
  <1>5. CASE HostRestart
    BY <1>5, HostRestartInv
  <1>6. CASE UNCHANGED allVars
    <2>1. UNCHANGED <<sync, gate, pc, frame, githubVars, spent, batchVars>>
      BY <1>6 DEF allVars, vars, githubVars
    <2>2. TInv' /\ Grows
      BY <2>1, StutterTrue, SpentTyped DEF CInv
    <2> QED
      BY <2>1, <2>2, BesideInv
  <1> QED
    BY <1>1, <1>2, <1>3, <1>4, <1>5, <1>6 DEF BNext

(* The session starts with drafts of different findings, each in the       *)
(* review the store names.                                                 *)
LEMMA BInitInv ==
  ASSUME FindingsDiffer, BInit
  PROVE  CInv
  <1>1. \A r \in Reviews, a \in Artifacts : <<r, a>> \in Session =>
          a \in Findings /\ a \in Universe
    BY BatchesOK DEF Comments, Universe
  <1>2. \A a \in Artifacts :
          \/ sync[a] = LocalOnly
          \/ \E r \in Reviews : <<r, a>> \in Session /\ sync[a] = Pending(r)
    <2> SUFFICES ASSUME NEW a \in Artifacts
                 PROVE  \/ sync[a] = LocalOnly
                        \/ \E r \in Reviews : <<r, a>> \in Session /\ sync[a] = Pending(r)
      OBVIOUS
    <2>1. CASE \E r \in Reviews : <<r, a>> \in Session
      <3>1. PICK q : q = CHOOSE r \in Reviews : <<r, a>> \in Session
        OBVIOUS
      <3>2. q \in Reviews /\ <<q, a>> \in Session
        BY <2>1, <3>1
      <3>3. sync[a] = Pending(q)
        BY <2>1, <3>1 DEF BInit
      <3> QED
        BY <3>2, <3>3
    <2>2. CASE ~\E r \in Reviews : <<r, a>> \in Session
      BY <2>2 DEF BInit
    <2> QED
      BY <2>1, <2>2
  <1>3. /\ copies \in [Reviews -> [Artifacts -> Nat]]
        /\ \A r \in Reviews, a \in Artifacts :
             copies[r][a] = IF <<r, a>> \in Session THEN 1 ELSE 0
    BY DEF BInit
  <1>4. \A r \in Reviews, a \in Artifacts : copies[r][a] > 0 => <<r, a>> \in Session
    <2> SUFFICES ASSUME NEW r \in Reviews, NEW a \in Artifacts, <<r, a>> \notin Session
                 PROVE  ~(copies[r][a] > 0)
      OBVIOUS
    <2>1. copies[r][a] = 0
      BY <1>3
    <2> QED
      BY <2>1
  <1>5. TypeOK
    <2>1. sync \in [Artifacts -> SyncStates]
      <3>1. \A a \in Artifacts : sync[a] \in SyncStates
        BY <1>2, StatesTyped
      <3> QED
        BY <3>1 DEF BInit
    <2>2. /\ gate \in Calls \cup {None} /\ pc \in [Calls -> Pcs] /\ frame \in [Calls -> Frames]
          /\ spent \in [faults : Nat, restarts : Nat, user : Nat]
      BY IdleTyped DEF BInit, Pcs
    <2>3. /\ review \in [Reviews -> {"unused", "pending", "submitted", "gone"}]
          /\ body \in [Reviews -> Artifacts \cup {None, Manual}]
          /\ posted \in [Reviews -> SUBSET Artifacts] /\ manual \in [Reviews -> SUBSET Keys]
      BY DEF BInit
    <2> QED
      BY <1>3, <2>1, <2>2, <2>3 DEF TypeOK
  <1>6. IInv
    <2>1. GateExcludes
      BY NoneIsNone DEF BInit, GateExcludes, Inside
    <2>2. OneCopyPerFinding
      <3> SUFFICES ASSUME NEW r \in Reviews, NEW x \in Artifacts, NEW y \in Artifacts,
                          copies[r][x] > 0, copies[r][y] > 0
                   PROVE  copies[r][x] = 1 /\ (Key[x] = Key[y] => x = y)
        BY DEF OneCopyPerFinding, Present
      <3>1. <<r, x>> \in Session /\ <<r, y>> \in Session
        BY <1>4
      <3>2. x \in Universe \cap Findings /\ y \in Universe \cap Findings
        BY <1>1, <3>1
      <3>3. copies[r][x] = 1
        BY <1>3, <3>1
      <3> QED
        BY <3>2, <3>3 DEF FindingsDiffer, Distinct
    <2>3. FramesOK
      BY DEF BInit, FramesOK, FrameOK, Inside
    <2> QED
      BY <1>5, <2>1, <2>2, <2>3 DEF IInv
  <1>7. /\ \A r \in Reviews, a \in Artifacts : <<r, a>> \in Session =>
             review[r] = "pending" /\ a \in posted[r]
        /\ \A r \in Reviews : review[r] = "unused" => posted[r] = {}
    BY DEF BInit
  <1>8. CommentsPosted
    BY <1>4, <1>7 DEF CommentsPosted
  <1>9. \A a \in Artifacts : sync[a] \in Told(a)
    <2> SUFFICES ASSUME NEW a \in Artifacts, NEW r \in Reviews, <<r, a>> \in Session
                 PROVE  Pending(r) \in Told(a)
      BY <1>2 DEF Told
    <2>1. review[r] = "pending" /\ a \in posted[r] /\ a \notin Summaries
      BY <1>1, <1>7 DEF Findings
    <2>2. r \in Holding(a)
      BY <2>1 DEF Holding, WasIn
    <2> QED
      BY <2>2 DEF Told
  <1>10. Idle \in Sound("idle")
    BY IdleTyped, NoneIsNone DEF Idle, Sound, Told, Early, Inside
  <1>11. TInv
    BY <1>6, <1>8, <1>9, <1>10 DEF TInv, BInit
  <1>12. Blank \in Locals /\ Blank.left = {} /\ \A a \in Artifacts : Blank.copy[a] \in Told(a)
    BY StatesTyped DEF Blank, Locals, Told
  <1>13. BTypeOK
    <2>1. saved \subseteq Artifacts /\ snapshot \subseteq Comments
      BY BatchesOK DEF BInit
    <2> QED
      BY <1>5, <1>12, <2>1 DEF BInit, BTypeOK
  <1>14. saved \subseteq Universe
    BY <1>1 DEF BInit
  <1>15. Exclusive
    <2> SUFFICES ASSUME NEW c \in Committers PROVE guard[ask[c].id] # c
      BY DEF Exclusive, BInit, Working
    <2>1. ask[c].id \in Ids /\ c # None
      BY <1>13, AskTyped, NoneIsNone
    <2> QED
      BY <2>1 DEF BInit
  <1>16. JournalsOK
    BY DEF BInit, JournalsOK
  <1>17. ASSUME NEW c \in Committers PROVE Fits(c, mine[c], step[c])
    BY <1>12 DEF BInit, Fits, Committing, Posted
  <1> QED
    BY <1>11, <1>13, <1>14, <1>15, <1>16, <1>17 DEF CInv

(* When a page shows every finding of this program and the findings of the *)
(* session and the batches differ, the invariant of the commits holds.     *)
THEOREM BatchInvariant ==
  ASSUME PagesSuffice, FindingsDiffer
  PROVE  BSpec => []CInv
  <1>1. BInit => CInv
    BY BInitInv
  <1>2. CInv /\ [BNext]_allVars => CInv'
    BY BNextInv
  <1> QED
    BY <1>1, <1>2, PTL DEF BSpec

(* finish_review: journals, guards, snapshots and the commits' locals keep *)
(* their types, and what is left to add is what was asked for.             *)
THEOREM BatchTypesKept ==
  ASSUME PagesSuffice, FindingsDiffer
  PROVE  BSpec => []BTypeOK
  <1>1. CInv => BTypeOK
    BY DEF CInv
  <1> QED
    BY <1>1, BatchInvariant, PTL

(* Additions of batches, retries of them and synchronisations of the whole *)
(* activity, beside each other, never post a finding to a review twice.    *)
THEOREM BatchesNeverPostTwice ==
  ASSUME PagesSuffice, FindingsDiffer
  PROVE  BSpec => []OneCopyPerFinding
  <1>1. CInv => OneCopyPerFinding
    BY DEF CInv, TInv, IInv
  <1> QED
    BY <1>1, BatchInvariant, PTL

(* ensure_artifacts and the synchronisations write the store beside each   *)
(* other, and what it says of an artifact stays true of GitHub.            *)
THEOREM BatchesTellTheTruth ==
  ASSUME PagesSuffice, FindingsDiffer
  PROVE  BSpec => []StoreTellsTheTruth
  <1>1. CInv => StoreTellsTheTruth
    BY TellsTheTruth DEF CInv
  <1> QED
    BY <1>1, BatchInvariant, PTL

(* BatchCommitGuard and the journal: a commit that is past reading the     *)
(* journal works on a batch without a receipt.                             *)
THEOREM CommittedStaysQuiet ==
  ASSUME PagesSuffice, FindingsDiffer
  PROVE  BSpec => []CommittedIsQuiet
  <1>1. ASSUME CInv, NEW c \in Committers,
               journal[ask[c].id] # None, journal[ask[c].id].result
        PROVE  step[c] \in Ended \cup {"idle", "read"}
    <2>1. Fits(c, mine[c], step[c]) /\ step[c] \in Working \cup Ended \cup {"idle"}
      BY <1>1 DEF CInv, BTypeOK
    <2>2. step[c] \notin {"snapshot", "persist", "record"} \cup Committing
      BY <1>1, <2>1 DEF Fits, Uncommitted
    <2> QED
      BY <2>1, <2>2 DEF Working, Committing
  <1>2. CInv => CommittedIsQuiet
    BY <1>1 DEF CommittedIsQuiet
  <1> QED
    BY <1>2, BatchInvariant, PTL

-------------------------------------------------------------------------------
(* A batch is committed once *)

(* Whatever a step does, GitHub remembers what it ever held. *)
LEMMA BGrows ==
  ASSUME CInv, CInv', [BNext]_allVars
  PROVE  Grows
  <1>1. CASE UNCHANGED githubVars
    BY <1>1, NothingForgotten DEF CInv
  <1>2. ASSUME NEW c \in Committers, CommitStep(c) \/ BreakCommit(c)
        PROVE  Grows
    <2>1. CASE \E lost \in BOOLEAN : Delete(c, lost)
      BY <2>1 DEF Delete, Grows
    <2>2. CASE Claim(c) \/ ReadJournal(c) \/ LoadSnapshot(c) \/ PersistNew(c) \/ CheckHead(c)
               \/ GetArtifacts(c) \/ RecordDeletion(c)
               \/ ListComments(c) \/ UpdateSnapshot(c) \/ Finish(c)
      <3>1. UNCHANGED syncVars
        BY <2>2 DEF Claim, ReadJournal, LoadSnapshot, PersistNew, CheckHead, GetArtifacts,
                    RecordDeletion, ListComments, UpdateSnapshot, Finish
      <3> QED
        BY <1>1, <3>1, SyncVars
    <2>3. CASE SaveArtifact(c) \/ Add(c) \/ Added(c) \/ BreakCommit(c)
      BY <1>1, <2>3 DEF SaveArtifact, Add, Added, BreakCommit
    <2> QED
      BY <1>2, <2>1, <2>2, <2>3 DEF CommitStep
  <1>3. ASSUME NEW c \in Calls, SyncStep(c)
        PROVE  Grows
    <2>1. CASE Step(c)
      BY <2>1, StepTrue DEF CInv, TInv
    <2>2. CASE Break(c) \/ BeginActivity(c)
      BY <1>1, <2>2 DEF Break, BeginActivity
    <2> QED
      BY <1>3, <2>1, <2>2 DEF SyncStep
  <1>4. CASE User
    BY <1>4, UserTrue DEF CInv, TInv
  <1>5. CASE Push \/ HostRestart
    BY <1>1, <1>5 DEF Push, HostRestart
  <1>6. CASE UNCHANGED allVars
    BY <1>1, <1>6 DEF allVars, vars, githubVars
  <1> QED
    BY <1>2, <1>3, <1>4, <1>5, <1>6 DEF BNext

(* The three steps that write a journal. *)
Writes(c) == PersistNew(c) \/ RecordDeletion(c) \/ Finish(c)

LEMMA OnlyWrites ==
  ASSUME [BNext]_allVars
  PROVE  UNCHANGED journal \/ \E c \in Committers : Writes(c)
  <1>1. ASSUME NEW c \in Committers, CommitStep(c) \/ BreakCommit(c), ~Writes(c)
        PROVE  UNCHANGED journal
    BY <1>1 DEF Writes, CommitStep, BreakCommit, Claim, ReadJournal, LoadSnapshot, CheckHead,
                GetArtifacts, SaveArtifact, Add, Added, ListComments, UpdateSnapshot, Delete
  <1>2. CASE \E c \in Calls : SyncStep(c)
    BY <1>2 DEF SyncStep, batchVars
  <1>3. CASE User /\ UNCHANGED batchVars
    BY <1>3 DEF batchVars
  <1>4. CASE Push \/ HostRestart \/ UNCHANGED allVars
    BY <1>4 DEF Push, HostRestart, allVars, batchVars
  <1> QED
    BY <1>1, <1>2, <1>3, <1>4 DEF BNext

(* What CommitOnce sees of the journals and of GitHub. *)
Claims == [i \in Ids |-> IF journal[i] = None THEN None ELSE journal[i].request]
Removals == [i \in Ids |-> IF journal[i] = None THEN {} ELSE journal[i].deleted]
Receipts == {i \in Ids : journal[i] # None /\ journal[i].result}
Additions == {a \in UNION {q.adds : q \in Requests} : \E r \in Reviews : WasIn(a, r)}

LEMMA AdditionsGrow ==
  ASSUME Grows
  PROVE  Additions \subseteq Additions'
  BY ReachedGrows DEF Additions, Reached

LEMMA WrittenSeen ==
  ASSUME CInv, NEW c \in Committers, NEW j \in JournalType, Persist(c, j)
  PROVE  /\ Claims' = [Claims EXCEPT ![ask[c].id] = j.request]
         /\ Removals' = [Removals EXCEPT ![ask[c].id] = j.deleted]
         /\ j.result => Receipts' = Receipts \cup {ask[c].id}
         /\ ~j.result => Receipts' = Receipts \ {ask[c].id}
         /\ Claims[ask[c].id] = j.request => Claims' = Claims
         /\ Removals[ask[c].id] = j.deleted => Removals' = Removals
  <1>1. ask[c].id \in Ids /\ journal \in [Ids -> JournalType \cup {None}]
    BY AskTyped DEF CInv, BTypeOK
  <1>2. \A i \in Ids : journal'[i] = IF i = ask[c].id THEN j ELSE journal[i]
    BY <1>1 DEF Persist
  <1>3. j # None
    BY JournalTyped
  <1> QED
    BY <1>1, <1>2, <1>3 DEF Claims, Removals, Receipts

(* PersistNew claims the id, RecordDeletion removes a comment and Finish   *)
(* hands out the receipt; everything else posts, or is not seen.           *)
LEMMA ContractStep ==
  ASSUME CInv, CInv', [BNext]_allVars
  PROVE  [Contract!Next]_(Contract!vars)
  <1>1. Grows /\ Additions \subseteq Additions'
    BY BGrows, AdditionsGrow
  <1>2. CASE UNCHANGED journal
    <2>1. UNCHANGED <<Claims, Removals, Receipts>>
      BY <1>2 DEF Claims, Removals, Receipts
    <2>2. Contract!Post
      BY <1>1, <2>1 DEF Contract!Post, Claims, Removals, Receipts, Additions
    <2> QED
      BY <2>2 DEF Contract!Next
  <1>3. ASSUME NEW c \in Committers, Writes(c)
        PROVE  Contract!Next
    <2>0. PICK i \in Ids : i = ask[c].id
      BY AskTyped DEF CInv
    <2>1. /\ ask[c] \in Requests /\ ask[c] # None
          /\ ask[c].adds \subseteq UNION {q.adds : q \in Requests}
      BY AskTyped, JournalTyped DEF CInv
    <2>2. UNCHANGED Additions
      BY <1>3, SyncVars DEF Writes, PersistNew, RecordDeletion, Finish, Additions, WasIn, githubVars
    <2>3. CASE PersistNew(c)
      <3>1. journal[i] = None /\ mine[c].journal = NewJournal(ask[c])
        BY <2>0, <2>3 DEF PersistNew, CInv, Fits
      <3>2. PICK j \in JournalType : /\ j = NewJournal(ask[c]) /\ j.request = ask[c]
                                     /\ j.deleted = {} /\ ~j.result
        BY <2>1, JournalTyped
      <3>3. Persist(c, j)
        BY <2>3, <3>1, <3>2 DEF PersistNew
      <3>4. /\ Claims[i] = None /\ Claims' = [Claims EXCEPT ![i] = ask[c]]
            /\ Removals' = Removals /\ Receipts' = Receipts
        <4>1. Claims[i] = None /\ Removals[i] = {} /\ i \notin Receipts
          BY <3>1 DEF Claims, Removals, Receipts
        <4>2. /\ Claims' = [Claims EXCEPT ![i] = j.request]
              /\ Removals[i] = j.deleted => Removals' = Removals
              /\ Receipts' = Receipts \ {i}
          BY <2>0, <3>2, <3>3, WrittenSeen
        <4>3. Removals' = Removals
          BY <3>2, <4>1, <4>2
        <4>4. Receipts' = Receipts
          BY <4>1, <4>2
        <4> QED
          BY <3>2, <4>1, <4>2, <4>3, <4>4
      <3>5. Contract!Claim(i)
        BY <2>0, <2>1, <2>2, <3>4 DEF Contract!Claim, Claims, Removals, Receipts, Additions
      <3> QED
        BY <2>1, <3>5 DEF Contract!Next
    <2>4. CASE RecordDeletion(c)
      <3>1. Fits(c, mine[c], "record")
        BY <2>4 DEF RecordDeletion, CInv
      <3>2. PICK e \in JournalType : e = journal[i] /\ e.request = ask[c] /\ ~e.result
        BY <2>0, <3>1 DEF Fits, Uncommitted, CInv, BTypeOK
      <3>3. PICK d \in ask[c].dels \ e.deleted :
              mine[c].journal = [e EXCEPT !.deleted = e.deleted \cup {d}]
        BY <2>0, <3>1, <3>2 DEF Fits
      <3>4. PICK j : j = [e EXCEPT !.deleted = e.deleted \cup {d}]
        OBVIOUS
      <3>5. /\ j \in JournalType /\ j.request = ask[c] /\ ~j.result
            /\ j.deleted = e.deleted \cup {d}
        <4>1. PICK D \in SUBSET Comments : D = e.deleted \cup {d}
          BY AskTyped DEF CInv, JournalType
        <4>2. j = [e EXCEPT !.deleted = D]
          BY <3>4, <4>1
        <4> QED
          BY <3>2, <4>1, <4>2, JournalTyped
      <3>6. Persist(c, j)
        BY <2>4, <3>3, <3>4 DEF RecordDeletion
      <3>7. /\ Claims[i] = ask[c] /\ Claims' = Claims /\ i \notin Receipts
            /\ Removals[i] = e.deleted
            /\ Removals' = [Removals EXCEPT ![i] = e.deleted \cup {d}]
            /\ Receipts' = Receipts
        <4>1. Claims[i] = ask[c] /\ Removals[i] = e.deleted /\ i \notin Receipts
          BY <3>2, JournalTyped DEF Claims, Removals, Receipts
        <4> QED
          BY <2>0, <3>2, <3>5, <3>6, <4>1, WrittenSeen
      <3>8. ask[c].adds \subseteq Additions
        BY <2>1, <3>1 DEF Fits, Posted, Additions, Reached
      <3>9. Contract!Remove(i)
        BY <2>1, <2>2, <3>3, <3>7, <3>8
           DEF Contract!Remove, Claims, Removals, Receipts, Additions
      <3> QED
        BY <2>1, <3>9 DEF Contract!Next
    <2>5. CASE Finish(c)
      <3>1. step[c] = "finish"
        BY <2>5 DEF Finish
      <3>2. PICK e \in JournalType : /\ e = journal[i] /\ e = mine[c].journal
                                     /\ e.request = ask[c] /\ ~e.result
                                     /\ e.deleted = ask[c].dels
        BY <2>0, <3>1, AllDone
      <3>3. PICK j : j = [e EXCEPT !.result = TRUE]
        OBVIOUS
      <3>4. j \in JournalType /\ j.request = ask[c] /\ j.result /\ j.deleted = ask[c].dels
        BY <3>2, <3>3, JournalTyped
      <3>5. Persist(c, j)
        BY <2>5, <3>2, <3>3 DEF Finish
      <3>6. /\ Claims[i] = ask[c] /\ Claims' = Claims /\ i \notin Receipts
            /\ Removals[i] = ask[c].dels /\ Removals' = Removals
            /\ Receipts' = Receipts \cup {i}
        <4>1. Claims[i] = ask[c] /\ Removals[i] = ask[c].dels /\ i \notin Receipts
          BY <3>2, JournalTyped DEF Claims, Removals, Receipts
        <4> QED
          BY <2>0, <3>4, <3>5, <4>1, WrittenSeen
      <3>7. ask[c].adds \subseteq Additions
        BY <2>1, <3>1, AllDone DEF Additions, Reached
      <3>8. Contract!Commit(i)
        BY <2>1, <2>2, <3>6, <3>7
           DEF Contract!Commit, Claims, Removals, Receipts, Additions
      <3> QED
        BY <2>1, <3>8 DEF Contract!Next
    <2> QED
      BY <1>3, <2>3, <2>4, <2>5 DEF Writes
  <1> QED
    BY <1>2, <1>3, OnlyWrites

LEMMA ContractInit ==
  ASSUME BInit
  PROVE  Contract!Init
  BY DEF BInit, Contract!Init

(* finish_review: whatever fails, is lost, is retried or restarted, and    *)
(* whatever the user does, a batch id stays with its request, deletions    *)
(* wait for every addition, and the receipt is given once, when nothing of *)
(* the request is left to do.                                              *)
THEOREM BatchesCommitOnce ==
  ASSUME PagesSuffice, FindingsDiffer
  PROVE  BSpec => CommitsOnce
  <1>1. BInit => Contract!Init
    BY ContractInit
  <1>2. CInv /\ CInv' /\ [BNext]_allVars => [Contract!Next]_(Contract!vars)
    BY ContractStep
  <1> QED
    BY <1>1, <1>2, BatchInvariant, PTL DEF BSpec, CommitsOnce, Contract!Spec
================================================================================

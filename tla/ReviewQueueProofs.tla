-------------------------- MODULE ReviewQueueProofs --------------------------
(***************************************************************************)
(* Theorems about ReviewQueue for every number of requests, every set of   *)
(* calls and every configured limit.  The first part: types, slots, the    *)
(* running set and its wakeups.                                            *)
(***************************************************************************)
EXTENDS ReviewQueue, TLAPS, FiniteSetTheorems

USE DEF disk, local, host, budgets

-----------------------------------------------------------------------------
(* Records                                                                 *)

\* Saving a record of the right type keeps the store well typed.
LEMMA SavedStore ==
    ASSUME TypeOK, NEW c \in Record, Save(c)
    PROVE  /\ store' \in [Activity -> Record]
           /\ \A a \in Activity : store'[a].id = a
  BY DEF TypeOK, Save, Record

\* The copy a request holds of its own activity is a record.
LEMMA OwnRecord ==
    ASSUME TypeOK, NEW r \in Request, act[r] \in Activity,
           NEW st \in Status, NEW e \in Reason
    PROVE  /\ Mine(r, st, e) \in Record
           /\ Headless(Mine(r, st, e)) \in Record
  BY CallsTyped DEF TypeOK, Mine, Headless, Record, Call

\* A record marked as failed is a record.
LEMMA FailedRecord ==
    ASSUME NEW c \in Record, NEW e \in Reason
    PROVE  Failed(c, e) \in Record
  BY DEF Failed, Record, Status

-----------------------------------------------------------------------------
(* Types                                                                   *)

Inv1 == TypeOK /\ Placement

LEMMA InitTypes == Init => Inv1
  <1> SUFFICES ASSUME Init PROVE Inv1
    OBVIOUS
  <1>1. TypeOK
    BY IdsPositive DEF Init, TypeOK, Record, Status, Reason, Pc, Activity, NoActivity
  <1>2. Placement
    BY DEF Init, Placement, OwnPcs, ReviewPcs, AdmissionPcs, PolledPcs
  <1> QED
    BY <1>1, <1>2 DEF Inv1

\* Each step of a request leaves the variables well typed.
LEMMA RequestKeepsTypes ==
    ASSUME Inv1, NEW r \in Request, Submit(r) \/ Step(r) \/ StoreError(r)
    PROVE  TypeOK'
  <1> USE DEF Inv1, TypeOK, Goto, Keep, Pc, AdmissionPcs, ReviewPcs
  <1>1. CASE Submit(r)
    BY <1>1 DEF Submit, Entry
  <1>2. CASE CancelList(r)
    BY <1>2 DEF CancelList, ActiveForSamePr, OtherActive
  <1>3. CASE Cancel(r)
    <2>1. PICK c \in held[r] : Save(Failed(c, "superseded"))
      BY <1>3 DEF Cancel
    <2>2. Failed(c, "superseded") \in Record
      BY FailedRecord DEF Reason
    <2> QED
      BY <1>3, <2>1, <2>2, SavedStore DEF Cancel
  <1>4. CASE Lookup(r)
    <2>1. held' \in [Request -> SUBSET Record]
      <3>1. ActiveForInput(r) \subseteq Record
        BY DEF ActiveForInput, OtherActive
      <3>2. PICK S \in SUBSET ActiveForInput(r) : Keep(r, S)
        BY <1>4 DEF Lookup
      <3> QED
        BY <3>1, <3>2
    <2>2. /\ pc' \in [Request -> Pc]
          /\ outcome' \in [Request -> {"none", "Completed", "Error", "Reused"}]
      BY <1>4 DEF Lookup, Reuse
    <2> QED
      BY <1>4, <2>1, <2>2 DEF Lookup
  <1>5. CASE CheckRunning(r)
    BY <1>5 DEF CheckRunning, Reuse
  <1>6. CASE MarkStale(r)
    <2>1. PICK c \in held[r] : Save(Failed(c, "stale"))
      BY <1>6 DEF MarkStale
    <2>2. Failed(c, "stale") \in Record
      BY FailedRecord DEF Reason
    <2> QED
      BY <1>6, <2>1, <2>2, SavedStore DEF MarkStale
  <1>7. CASE MarkReused(r)
    <2>1. act[r] \in Activity
      BY <1>7 DEF MarkReused, Placement, OwnPcs
    <2> QED
      BY <1>7, <2>1, OwnRecord, SavedStore DEF MarkReused, Status, Reason
  <1>8. CASE CheckSamePr(r)
    BY <1>8 DEF CheckSamePr
  <1>9. CASE Create(r)
    <2>1. [id |-> nextId, status |-> "Queued", pr |-> NoPR, head |-> NoHead,
           error |-> "none"] \in Record
      BY <1>9 DEF Create, Record, Status, Reason
    <2> QED
      BY <1>9, <2>1, SavedStore, IdsPositive DEF Create
  <1>10. CASE Label(r)
    <2>1. act[r] \in Activity
      BY <1>10 DEF Label, Placement, OwnPcs
    <2> QED
      BY <1>10, <2>1, OwnRecord, SavedStore DEF Label, Status, Reason
  <1>11. CASE Prepare(r)
    <2>1. act[r] \in Activity
      BY <1>11 DEF Prepare, Placement, OwnPcs
    <2> QED
      BY <1>11, <2>1, OwnRecord, SavedStore DEF Prepare, Entry, Status, Reason
  <1>12. CASE PrepareFails(r)
    <2>1. act[r] \in Activity
      BY <1>12 DEF PrepareFails, Placement, OwnPcs
    <2> QED
      BY <1>12, <2>1, OwnRecord, SavedStore DEF PrepareFails, Status, Reason
  <1>13. CASE TrySlot(r)
    BY <1>13 DEF TrySlot
  <1>14. CASE MarkRunning(r)
    <2>1. act[r] \in Activity
      BY <1>14 DEF MarkRunning, Placement, OwnPcs
    <2> QED
      BY <1>14, <2>1, OwnRecord, SavedStore DEF MarkRunning, Status, Reason
  <1>15. CASE WaitPrior(r)
    BY <1>15 DEF WaitPrior
  <1>16. CASE Acquire(r)
    BY <1>16 DEF Acquire
  <1>17. CASE Block(r)
    BY <1>17 DEF Block
  <1>18. CASE Register(r)
    BY <1>18 DEF Register, Placement, OwnPcs
  <1>19. CASE StartReview(r)
    <2>1. act[r] \in Activity
      BY <1>19 DEF StartReview, Placement, OwnPcs
    <2> QED
      BY <1>19, <2>1, OwnRecord, SavedStore DEF StartReview, Status, Reason
  <1>20. CASE Relabel(r)
    <2>1. act[r] \in Activity
      BY <1>20 DEF Relabel, Placement, OwnPcs
    <2> QED
      BY <1>20, <2>1, OwnRecord, SavedStore DEF Relabel, Status, Reason
  <1>21. CASE LogRead(r)
    BY <1>21 DEF LogRead, Placement, OwnPcs
  <1>22. CASE LogSave(r)
    <2>1. PICK c \in held[r] : Save(c)
      BY <1>22 DEF LogSave
    <2> QED
      BY <1>22, <2>1, SavedStore DEF LogSave
  <1>23. CASE Finish(r)
    <2>1. act[r] \in Activity
      BY <1>23 DEF Finish, Complete, Fail, Placement, OwnPcs
    <2> QED
      BY <1>23, <2>1, OwnRecord, SavedStore
         DEF Finish, Complete, Fail, EndReview, Status, Reason
  <1>24. CASE Unregister(r)
    BY <1>24 DEF Unregister
  <1>25. CASE Release(r)
    BY <1>25 DEF Release, AfterRelease
  <1>26. CASE Sync(r)
    BY <1>26 DEF Sync, Placement, OwnPcs
  <1>27. CASE StoreError(r)
    BY <1>27 DEF StoreError
  <1> QED
    BY <1>1, <1>2, <1>3, <1>4, <1>5, <1>6, <1>7, <1>8, <1>9, <1>10, <1>11, <1>12,
       <1>13, <1>14, <1>15, <1>16, <1>17, <1>18, <1>19, <1>20, <1>21, <1>22,
       <1>23, <1>24, <1>25, <1>26, <1>27 DEF Step, Admission, Execution

\* Each step of a request keeps the requests where they may be.
LEMMA RequestKeepsPlacement ==
    ASSUME Inv1, NEW r \in Request, Submit(r) \/ Step(r) \/ StoreError(r)
    PROVE  Placement'
  <1> USE CallsTyped DEF Inv1, TypeOK, Placement, Goto, Pc, AdmissionPcs, ReviewPcs,
                         OwnPcs, PolledPcs, Polled, Remote, Call, Kind
  <1>1. CASE Submit(r)
    BY <1>1 DEF Submit, Entry
  <1>2. CASE CancelList(r)
    BY <1>2 DEF CancelList
  <1>3. CASE Cancel(r)
    BY <1>3 DEF Cancel
  <1>4. CASE Lookup(r)
    <2>1. PICK l \in {"samePr", "reuse", "done", "checkRunning"} :
            Goto(r, l) /\ (l = "reuse" => Remote(r))
      BY <1>4 DEF Lookup, Reuse
    <2> QED
      BY <1>4, <2>1 DEF Lookup
  <1>5. CASE CheckRunning(r)
    BY <1>5 DEF CheckRunning, Reuse
  <1>6. CASE MarkStale(r)
    BY <1>6 DEF MarkStale
  <1>7. CASE MarkReused(r)
    BY <1>7 DEF MarkReused
  <1>8. CASE CheckSamePr(r)
    BY <1>8 DEF CheckSamePr
  <1>9. CASE Create(r)
    BY <1>9 DEF Create
  <1>10. CASE Label(r)
    BY <1>10 DEF Label
  <1>11. CASE Prepare(r)
    BY <1>11 DEF Prepare, Entry
  <1>12. CASE PrepareFails(r)
    BY <1>12 DEF PrepareFails
  <1>13. CASE TrySlot(r)
    BY <1>13 DEF TrySlot
  <1>14. CASE MarkRunning(r)
    BY <1>14 DEF MarkRunning
  <1>15. CASE WaitPrior(r)
    BY <1>15 DEF WaitPrior
  <1>16. CASE Acquire(r)
    BY <1>16 DEF Acquire
  <1>17. CASE Block(r)
    BY <1>17 DEF Block
  <1>18. CASE Register(r)
    BY <1>18 DEF Register
  <1>19. CASE StartReview(r)
    BY <1>19 DEF StartReview
  <1>20. CASE Relabel(r)
    BY <1>20 DEF Relabel
  <1>21. CASE LogRead(r)
    BY <1>21 DEF LogRead
  <1>22. CASE LogSave(r)
    BY <1>22 DEF LogSave
  <1>23. CASE Finish(r)
    BY <1>23 DEF Finish, Complete, Fail, EndReview
  <1>24. CASE Unregister(r)
    BY <1>24 DEF Unregister
  <1>25. CASE Release(r)
    <2>1. CASE Goto(r, AfterRelease(r))
      BY <1>25, <2>1 DEF Release, AfterRelease
    <2>2. CASE \E w \in Request : /\ pc[w] = "blocked"
                                 /\ pc' = [pc EXCEPT ![r] = AfterRelease(r), ![w] = "acquire"]
      BY <1>25, <2>2 DEF Release, AfterRelease
    <2> QED
      BY <1>25, <2>1, <2>2 DEF Release
  <1>26. CASE Sync(r)
    BY <1>26 DEF Sync
  <1>27. CASE StoreError(r)
    BY <1>27 DEF StoreError
  <1> QED
    BY <1>1, <1>2, <1>3, <1>4, <1>5, <1>6, <1>7, <1>8, <1>9, <1>10, <1>11, <1>12,
       <1>13, <1>14, <1>15, <1>16, <1>17, <1>18, <1>19, <1>20, <1>21, <1>22,
       <1>23, <1>24, <1>25, <1>26, <1>27 DEF Step, Admission, Execution

\* The other actions keep both.
LEMMA HostKeepsTypes ==
    ASSUME Inv1, Restart \/ ForeignList \/ ForeignSave \/ Tick \/ UNCHANGED vars
    PROVE  Inv1'
  <1> USE DEF Inv1, TypeOK, Placement, Polled, Remote
  <1>1. CASE Restart
    <2>1. \A a \in Activity : Failed(store[a], "restarted") \in Record
      BY FailedRecord DEF Reason
    <2>2. /\ store' \in [Activity -> Record]
          /\ \A a \in Activity : store'[a].id = a
      BY <1>1, <2>1 DEF Restart, Recovered, Failed, Record
    <2> QED
      BY <1>1, <2>2 DEF Restart, Pc, OwnPcs, PolledPcs, ReviewPcs, AdmissionPcs
  <1>2. CASE ForeignList
    BY <1>2 DEF ForeignList
  <1>3. CASE ForeignSave
    <2>1. PICK c \in foreign : Save(Failed(c, "restarted")) /\ foreign' = foreign \ {c}
      BY <1>3 DEF ForeignSave
    <2>2. Failed(c, "restarted") \in Record
      BY FailedRecord DEF Reason
    <2> QED
      BY <1>3, <2>1, <2>2, SavedStore DEF ForeignSave
  <1>4. CASE Tick
    BY <1>4 DEF Tick
  <1>5. CASE UNCHANGED vars
    BY <1>5 DEF vars
  <1> QED
    BY <1>1, <1>2, <1>3, <1>4, <1>5

LEMMA StepKeepsInv1 == Inv1 /\ [Next]_vars => Inv1'
  BY RequestKeepsTypes, RequestKeepsPlacement, HostKeepsTypes DEF Inv1, Next, Quiet

\* Whatever the calls, failures and restarts, the variables keep their types.
THEOREM TypeCorrect == Spec => []TypeOK
  <1>1. Spec => []Inv1
    BY InitTypes, StepKeepsInv1, PTL DEF Spec
  <1> QED
    BY <1>1, PTL DEF Inv1

-----------------------------------------------------------------------------
(* Slots                                                                   *)

TakesSlot(r) ==
    /\ r \in Request \ SlotHolders /\ used < Limit
    /\ used' = used + 1 /\ SlotHolders' = SlotHolders \cup {r}

GivesSlot(r) ==
    /\ r \in SlotHolders
    /\ used' = (IF used = 0 THEN 0 ELSE used - 1) /\ SlotHolders' = SlotHolders \ {r}

SameSlots == used' = used /\ SlotHolders' = SlotHolders

NoSlots == used' = 0 /\ SlotHolders' = {}

\* The only steps that move the counter or the set of holders move both: a
\* request takes a free slot, gives its own back, or the host restarts.
LEMMA RequestSlotSteps ==
    ASSUME Inv1, NEW r \in Request, Submit(r) \/ Step(r) \/ StoreError(r)
    PROVE  TakesSlot(r) \/ GivesSlot(r) \/ SameSlots
  <1> USE DEF Inv1, TypeOK, Placement, Goto, Pc, AdmissionPcs, ReviewPcs, PolledPcs,
              SlotHolders, SlotPcs, SameSlots, TakesSlot, GivesSlot, Polled
  <1>1. CASE TrySlot(r)
    BY <1>1 DEF TrySlot
  <1>2. CASE Acquire(r)
    BY <1>2 DEF Acquire
  <1>3. CASE Release(r)
    <2>1. r \in SlotHolders
      BY <1>3 DEF Release
    <2>2. CASE Goto(r, AfterRelease(r))
      BY <1>3, <2>1, <2>2 DEF Release, AfterRelease
    <2>3. CASE \E w \in Request : /\ pc[w] = "blocked"
                                 /\ pc' = [pc EXCEPT ![r] = AfterRelease(r), ![w] = "acquire"]
      BY <1>3, <2>1, <2>3 DEF Release, AfterRelease
    <2> QED
      BY <1>3, <2>2, <2>3 DEF Release
  <1>4. CASE Submit(r)
    BY <1>4 DEF Submit, Entry
  <1>5. CASE CancelList(r)
    BY <1>5 DEF CancelList
  <1>6. CASE Cancel(r)
    BY <1>6 DEF Cancel
  <1>7. CASE Lookup(r)
    <2>1. PICK l \in {"samePr", "reuse", "done", "checkRunning"} : Goto(r, l)
      BY <1>7 DEF Lookup, Reuse
    <2> QED
      BY <1>7, <2>1 DEF Lookup
  <1>8. CASE CheckRunning(r)
    BY <1>8 DEF CheckRunning, Reuse
  <1>9. CASE MarkStale(r)
    BY <1>9 DEF MarkStale
  <1>10. CASE MarkReused(r)
    BY <1>10 DEF MarkReused
  <1>11. CASE CheckSamePr(r)
    BY <1>11 DEF CheckSamePr
  <1>12. CASE Create(r)
    BY <1>12 DEF Create
  <1>13. CASE Label(r)
    BY <1>13 DEF Label
  <1>14. CASE Prepare(r)
    BY <1>14 DEF Prepare, Entry
  <1>15. CASE PrepareFails(r)
    BY <1>15 DEF PrepareFails
  <1>16. CASE MarkRunning(r)
    BY <1>16 DEF MarkRunning
  <1>17. CASE WaitPrior(r)
    BY <1>17 DEF WaitPrior
  <1>18. CASE Block(r)
    BY <1>18 DEF Block
  <1>19. CASE Register(r)
    BY <1>19 DEF Register
  <1>20. CASE StartReview(r)
    BY <1>20 DEF StartReview
  <1>21. CASE Relabel(r)
    BY <1>21 DEF Relabel
  <1>22. CASE LogRead(r)
    BY <1>22 DEF LogRead
  <1>23. CASE LogSave(r)
    BY <1>23 DEF LogSave
  <1>24. CASE Finish(r)
    BY <1>24 DEF Finish, Complete, Fail, EndReview
  <1>25. CASE Unregister(r)
    BY <1>25 DEF Unregister
  <1>26. CASE Sync(r)
    BY <1>26 DEF Sync
  <1>27. CASE StoreError(r)
    BY <1>27 DEF StoreError
  <1> QED
    BY <1>1, <1>2, <1>3, <1>4, <1>5, <1>6, <1>7, <1>8, <1>9, <1>10, <1>11, <1>12,
       <1>13, <1>14, <1>15, <1>16, <1>17, <1>18, <1>19, <1>20, <1>21, <1>22,
       <1>23, <1>24, <1>25, <1>26, <1>27 DEF Step, Admission, Execution

LEMMA SlotSteps ==
    ASSUME Inv1, [Next]_vars
    PROVE  (\E r \in Request : TakesSlot(r) \/ GivesSlot(r)) \/ SameSlots \/ NoSlots
  <1>1. CASE \E r \in Request : Submit(r) \/ Step(r) \/ StoreError(r)
    BY <1>1, RequestSlotSteps
  <1>2. CASE Restart
    BY <1>2 DEF Restart, NoSlots, SlotHolders, SlotPcs, ReviewPcs, Inv1, TypeOK, Polled
  <1>3. CASE ForeignList \/ ForeignSave \/ Tick \/ UNCHANGED vars
    BY <1>3 DEF ForeignList, ForeignSave, Tick, vars, SameSlots, SlotHolders, Polled
  <1> QED
    BY <1>1, <1>2, <1>3 DEF Next, Quiet

\* The slot counter counts the requests that hold a slot, and stays within
\* max(1, max_concurrent_reviews).
THEOREM SlotsAlwaysAccounted == Spec => []SlotsAccounted
  <1>1. Init => SlotsAccounted
    <2> SUFFICES ASSUME Init PROVE SlotsAccounted
      OBVIOUS
    <2>1. SlotHolders = {}
      BY DEF Init, SlotHolders, SlotPcs, ReviewPcs
    <2> QED
      BY <2>1, FS_EmptySet, BoundsTyped DEF Init, SlotsAccounted, Limit
  <1>2. Inv1 /\ SlotsAccounted /\ [Next]_vars => SlotsAccounted'
    <2> SUFFICES ASSUME Inv1, SlotsAccounted, [Next]_vars PROVE SlotsAccounted'
      OBVIOUS
    <2>1. IsFiniteSet(SlotHolders)
      BY RequestFinite, FS_Subset DEF SlotHolders
    <2>2. Cardinality(SlotHolders) \in Nat
      BY <2>1, FS_CardinalityType
    <2>3. CASE \E r \in Request : TakesSlot(r)
      <3>1. PICK r \in Request : TakesSlot(r)
        BY <2>3
      <3>2. Cardinality(SlotHolders') = Cardinality(SlotHolders) + 1
        BY <2>1, <3>1, FS_AddElement DEF TakesSlot
      <3> QED
        BY <2>2, <3>1, <3>2, BoundsTyped DEF TakesSlot, SlotsAccounted, Limit
    <2>4. CASE \E r \in Request : GivesSlot(r)
      <3>1. PICK r \in Request : GivesSlot(r)
        BY <2>4
      <3>2. Cardinality(SlotHolders') = Cardinality(SlotHolders) - 1
        BY <2>1, <3>1, FS_RemoveElement DEF GivesSlot
      <3>3. Cardinality(SlotHolders') \in Nat
        BY <2>1, <3>1, FS_RemoveElement, FS_CardinalityType DEF GivesSlot
      <3> QED
        BY <2>2, <3>1, <3>2, <3>3, BoundsTyped DEF GivesSlot, SlotsAccounted, Limit
    <2>5. CASE SameSlots
      BY <2>5 DEF SameSlots, SlotsAccounted, Limit
    <2>6. CASE NoSlots
      BY <2>6, FS_EmptySet, BoundsTyped DEF NoSlots, SlotsAccounted, Limit
    <2> QED
      BY <2>3, <2>4, <2>5, <2>6, SlotSteps
  <1> QED
    BY <1>1, <1>2, InitTypes, StepKeepsInv1, PTL DEF Spec

\* The slots of the host are a pool: a request takes at most one slot, only
\* while one is free, and gives back only the slot it holds.
THEOREM SlotsImplementPool == Spec => ImplementsSlotPool
  <1>1. Init => Pool!PoolInit
    BY DEF Init, Pool!PoolInit, SlotHolders, SlotPcs, ReviewPcs
  <1>2. Inv1 /\ SlotsAccounted /\ [Next]_vars => [Pool!PoolNext]_SlotHolders
    <2> SUFFICES ASSUME Inv1, SlotsAccounted, [Next]_vars
                 PROVE  [Pool!PoolNext]_SlotHolders
      OBVIOUS
    <2>1. ASSUME NEW r \in Request, TakesSlot(r) PROVE Pool!TakeSlot(r)
      BY <2>1 DEF TakesSlot, SlotsAccounted, Pool!TakeSlot, Cardinality, Pool!Cardinality
    <2>2. ASSUME NEW r \in Request, GivesSlot(r) PROVE Pool!GiveBack(r)
      BY <2>2 DEF GivesSlot, Pool!GiveBack
    <2>3. ASSUME NoSlots PROVE Pool!EmptyPool
      BY <2>3 DEF NoSlots, Pool!EmptyPool
    <2>4. ASSUME SameSlots PROVE UNCHANGED SlotHolders
      BY <2>4 DEF SameSlots
    <2> QED
      BY <2>1, <2>2, <2>3, <2>4, SlotSteps DEF Pool!PoolNext
  <1>3. Spec => [](Inv1 /\ SlotsAccounted)
    <2>1. Spec => []Inv1
      BY InitTypes, StepKeepsInv1, PTL DEF Spec
    <2> QED
      BY <2>1, SlotsAlwaysAccounted, PTL
  <1> QED
    BY <1>1, <1>2, <1>3, PTL DEF Spec, ImplementsSlotPool, Pool!PoolSpec

-----------------------------------------------------------------------------
(* Activities: who answers for which record                                *)

Owned == ActsDistinct /\ LogCopyIsOwn

NewActivity(r) ==
    /\ act' = [act EXCEPT ![r] = nextId] /\ nextId' = nextId + 1
    /\ nextId \in Activity /\ pc[r] = "create" /\ pc' = [pc EXCEPT ![r] = "label"]
    /\ UNCHANGED running

SameActivities == act' = act /\ nextId' = nextId

\* Only Create hands out an id.
LEMMA ActivitySteps ==
    ASSUME Inv1, NEW r \in Request, Submit(r) \/ Step(r) \/ StoreError(r)
    PROVE  NewActivity(r) \/ SameActivities
  <1> USE DEF Goto, SameActivities
  <1>1. CASE Submit(r)
    BY <1>1 DEF Submit, Entry
  <1>2. CASE CancelList(r)
    BY <1>2 DEF CancelList
  <1>3. CASE Cancel(r)
    BY <1>3 DEF Cancel
  <1>4. CASE Lookup(r)
    BY <1>4 DEF Lookup
  <1>5. CASE CheckRunning(r)
    BY <1>5 DEF CheckRunning, Reuse
  <1>6. CASE MarkStale(r)
    BY <1>6 DEF MarkStale
  <1>7. CASE MarkReused(r)
    BY <1>7 DEF MarkReused
  <1>8. CASE CheckSamePr(r)
    BY <1>8 DEF CheckSamePr
  <1>9. CASE Create(r)
    BY <1>9 DEF Create, NewActivity
  <1>10. CASE Label(r)
    BY <1>10 DEF Label
  <1>11. CASE Prepare(r)
    BY <1>11 DEF Prepare, Entry
  <1>12. CASE PrepareFails(r)
    BY <1>12 DEF PrepareFails
  <1>13. CASE TrySlot(r)
    BY <1>13 DEF TrySlot
  <1>14. CASE MarkRunning(r)
    BY <1>14 DEF MarkRunning
  <1>15. CASE WaitPrior(r)
    BY <1>15 DEF WaitPrior
  <1>16. CASE Acquire(r)
    BY <1>16 DEF Acquire
  <1>17. CASE Block(r)
    BY <1>17 DEF Block
  <1>18. CASE Register(r)
    BY <1>18 DEF Register
  <1>19. CASE StartReview(r)
    BY <1>19 DEF StartReview
  <1>20. CASE Relabel(r)
    BY <1>20 DEF Relabel
  <1>21. CASE LogRead(r)
    BY <1>21 DEF LogRead
  <1>22. CASE LogSave(r)
    BY <1>22 DEF LogSave
  <1>23. CASE Finish(r)
    BY <1>23 DEF Finish, Complete, Fail, EndReview
  <1>24. CASE Unregister(r)
    BY <1>24 DEF Unregister
  <1>25. CASE Release(r)
    BY <1>25 DEF Release
  <1>26. CASE Sync(r)
    BY <1>26 DEF Sync
  <1>27. CASE StoreError(r)
    BY <1>27 DEF StoreError
  <1> QED
    BY <1>1, <1>2, <1>3, <1>4, <1>5, <1>6, <1>7, <1>8, <1>9, <1>10, <1>11, <1>12,
       <1>13, <1>14, <1>15, <1>16, <1>17, <1>18, <1>19, <1>20, <1>21, <1>22,
       <1>23, <1>24, <1>25, <1>26, <1>27 DEF Step, Admission, Execution

\* Whatever step request r takes, a request about to save a log holds a copy of
\* its own activity.
LEMMA RequestKeepsLogCopy ==
    ASSUME Inv1, LogCopyIsOwn, NEW r \in Request, Submit(r) \/ Step(r) \/ StoreError(r)
    PROVE  LogCopyIsOwn'
  <1> USE DEF Inv1, TypeOK, LogCopyIsOwn, Goto, Keep, Pc, AdmissionPcs, ReviewPcs
  <1>1. CASE Submit(r)
    BY <1>1 DEF Submit, Entry
  <1>2. CASE CancelList(r)
    BY <1>2 DEF CancelList
  <1>3. CASE Cancel(r)
    BY <1>3 DEF Cancel
  <1>4. CASE Lookup(r)
    <2>1. PICK l \in {"samePr", "reuse", "done", "checkRunning"} : Goto(r, l)
      BY <1>4 DEF Lookup, Reuse
    <2> QED
      BY <1>4, <2>1 DEF Lookup
  <1>5. CASE CheckRunning(r)
    BY <1>5 DEF CheckRunning, Reuse
  <1>6. CASE MarkStale(r)
    BY <1>6 DEF MarkStale
  <1>7. CASE MarkReused(r)
    BY <1>7 DEF MarkReused
  <1>8. CASE CheckSamePr(r)
    BY <1>8 DEF CheckSamePr
  <1>9. CASE Create(r)
    BY <1>9 DEF Create
  <1>10. CASE Label(r)
    BY <1>10 DEF Label
  <1>11. CASE Prepare(r)
    BY <1>11 DEF Prepare, Entry
  <1>12. CASE PrepareFails(r)
    BY <1>12 DEF PrepareFails
  <1>13. CASE TrySlot(r)
    BY <1>13 DEF TrySlot
  <1>14. CASE MarkRunning(r)
    BY <1>14 DEF MarkRunning
  <1>15. CASE WaitPrior(r)
    BY <1>15 DEF WaitPrior
  <1>16. CASE Acquire(r)
    BY <1>16 DEF Acquire
  <1>17. CASE Block(r)
    BY <1>17 DEF Block
  <1>18. CASE Register(r)
    BY <1>18 DEF Register
  <1>19. CASE StartReview(r)
    BY <1>19 DEF StartReview
  <1>20. CASE Relabel(r)
    BY <1>20 DEF Relabel
  <1>21. CASE LogRead(r)
    BY <1>21 DEF LogRead, Placement, OwnPcs
  <1>22. CASE LogSave(r)
    BY <1>22 DEF LogSave
  <1>23. CASE Finish(r)
    BY <1>23 DEF Finish, Complete, Fail, EndReview
  <1>24. CASE Unregister(r)
    BY <1>24 DEF Unregister
  <1>25. CASE Release(r)
    <2>1. CASE Goto(r, AfterRelease(r))
      BY <1>25, <2>1 DEF Release, AfterRelease
    <2>2. CASE \E w \in Request : /\ pc[w] = "blocked"
                                 /\ pc' = [pc EXCEPT ![r] = AfterRelease(r), ![w] = "acquire"]
      BY <1>25, <2>2 DEF Release, AfterRelease
    <2> QED
      BY <1>25, <2>1, <2>2 DEF Release
  <1>26. CASE Sync(r)
    BY <1>26 DEF Sync
  <1>27. CASE StoreError(r)
    BY <1>27 DEF StoreError
  <1> QED
    BY <1>1, <1>2, <1>3, <1>4, <1>5, <1>6, <1>7, <1>8, <1>9, <1>10, <1>11, <1>12,
       <1>13, <1>14, <1>15, <1>16, <1>17, <1>18, <1>19, <1>20, <1>21, <1>22,
       <1>23, <1>24, <1>25, <1>26, <1>27 DEF Step, Admission, Execution


LEMMA StepKeepsOwned ==
    ASSUME Inv1, Owned, [Next]_vars
    PROVE  Owned'
  <1> USE DEF Owned, Inv1, TypeOK
  <1>1. CASE \E r \in Request : Submit(r) \/ Step(r) \/ StoreError(r)
    <2>1. PICK r \in Request : Submit(r) \/ Step(r) \/ StoreError(r)
      BY <1>1
    <2>2. CASE NewActivity(r)
      BY <2>1, <2>2, RequestKeepsLogCopy, IdsPositive
         DEF NewActivity, ActsDistinct, Activity, NoActivity
    <2>3. CASE SameActivities
      BY <2>1, <2>3, RequestKeepsLogCopy DEF SameActivities, ActsDistinct
    <2> QED
      BY <2>1, <2>2, <2>3, ActivitySteps
  <1>2. CASE Restart
    BY <1>2 DEF Restart, ActsDistinct, LogCopyIsOwn
  <1>3. CASE ForeignList \/ ForeignSave \/ Tick \/ UNCHANGED vars
    BY <1>3 DEF ForeignList, ForeignSave, Tick, vars, ActsDistinct, LogCopyIsOwn
  <1> QED
    BY <1>1, <1>2, <1>3 DEF Next, Quiet

Inv2 == Inv1 /\ Owned

LEMMA OwnedInvariant == Spec => []Inv2
  <1>1. Init => Inv2
    <2>1. Init => Owned
      BY DEF Init, Owned, ActsDistinct, LogCopyIsOwn, NoActivity
    <2> QED
      BY <2>1, InitTypes DEF Inv2
  <1>2. Inv2 /\ [Next]_vars => Inv2'
    BY StepKeepsInv1, StepKeepsOwned DEF Inv2
  <1> QED
    BY <1>1, <1>2, PTL DEF Spec

-----------------------------------------------------------------------------
(* The running set                                                         *)

Registered == {r \in Request : ~Polled(r) /\ pc[r] \in RegisteredPcs}

Joins(r) ==
    /\ r \in Request \ Registered /\ UNCHANGED act
    /\ running' = running \cup {act[r]} /\ Registered' = Registered \cup {r}

Leaves(r) ==
    /\ r \in Registered /\ UNCHANGED act
    /\ running' = running \ {act[r]} /\ Registered' = Registered \ {r}

SameRunning ==
    /\ running' = running /\ Registered' = Registered
    /\ \A r \in Registered : act'[r] = act[r]

\* A step moves the running set exactly when it moves a request into or out of
\* the part of its thread between register_running and unregister_running.
LEMMA RequestRunningSteps ==
    ASSUME Inv1, NEW r \in Request, Submit(r) \/ Step(r) \/ StoreError(r)
    PROVE  Joins(r) \/ Leaves(r) \/ SameRunning
  <1> USE DEF Inv1, TypeOK, Placement, Goto, Pc, AdmissionPcs, ReviewPcs, PolledPcs,
              Registered, RegisteredPcs, SameRunning, Joins, Leaves, Polled
  <1>1. CASE Submit(r)
    BY <1>1 DEF Submit, Entry
  <1>2. CASE CancelList(r)
    BY <1>2 DEF CancelList
  <1>3. CASE Cancel(r)
    BY <1>3 DEF Cancel
  <1>4. CASE Lookup(r)
    <2>1. PICK l \in {"samePr", "reuse", "done", "checkRunning"} : Goto(r, l)
      BY <1>4 DEF Lookup, Reuse
    <2> QED
      BY <1>4, <2>1 DEF Lookup
  <1>5. CASE CheckRunning(r)
    BY <1>5 DEF CheckRunning, Reuse
  <1>6. CASE MarkStale(r)
    BY <1>6 DEF MarkStale
  <1>7. CASE MarkReused(r)
    BY <1>7 DEF MarkReused
  <1>8. CASE CheckSamePr(r)
    BY <1>8 DEF CheckSamePr
  <1>9. CASE Create(r)
    BY <1>9 DEF Create
  <1>10. CASE Label(r)
    BY <1>10 DEF Label
  <1>11. CASE Prepare(r)
    BY <1>11 DEF Prepare, Entry
  <1>12. CASE PrepareFails(r)
    BY <1>12 DEF PrepareFails
  <1>13. CASE TrySlot(r)
    BY <1>13 DEF TrySlot
  <1>14. CASE MarkRunning(r)
    BY <1>14 DEF MarkRunning
  <1>15. CASE WaitPrior(r)
    BY <1>15 DEF WaitPrior
  <1>16. CASE Acquire(r)
    BY <1>16 DEF Acquire
  <1>17. CASE Block(r)
    BY <1>17 DEF Block
  <1>18. CASE Register(r)
    BY <1>18 DEF Register
  <1>19. CASE StartReview(r)
    BY <1>19 DEF StartReview
  <1>20. CASE Relabel(r)
    BY <1>20 DEF Relabel
  <1>21. CASE LogRead(r)
    BY <1>21 DEF LogRead
  <1>22. CASE LogSave(r)
    BY <1>22 DEF LogSave
  <1>23. CASE Finish(r)
    BY <1>23 DEF Finish, Complete, Fail, EndReview
  <1>24. CASE Unregister(r)
    BY <1>24 DEF Unregister
  <1>25. CASE Release(r)
    <2>1. CASE Goto(r, AfterRelease(r))
      BY <1>25, <2>1 DEF Release, AfterRelease
    <2>2. CASE \E w \in Request : /\ pc[w] = "blocked"
                                 /\ pc' = [pc EXCEPT ![r] = AfterRelease(r), ![w] = "acquire"]
      BY <1>25, <2>2 DEF Release, AfterRelease
    <2> QED
      BY <1>25, <2>1, <2>2 DEF Release
  <1>26. CASE Sync(r)
    BY <1>26 DEF Sync
  <1>27. CASE StoreError(r)
    BY <1>27 DEF StoreError
  <1> QED
    BY <1>1, <1>2, <1>3, <1>4, <1>5, <1>6, <1>7, <1>8, <1>9, <1>10, <1>11, <1>12,
       <1>13, <1>14, <1>15, <1>16, <1>17, <1>18, <1>19, <1>20, <1>21, <1>22,
       <1>23, <1>24, <1>25, <1>26, <1>27 DEF Step, Admission, Execution

LEMMA RunningSetStep ==
    ASSUME Inv2, RunningSetExact, [Next]_vars
    PROVE  RunningSetExact'
  <1> USE DEF Inv2, Inv1, TypeOK
  <1>1. running = {act[r] : r \in Registered}
    BY DEF RunningSetExact, Registered
  <1>2. SUFFICES running' = {act'[r] : r \in Registered'}
    BY DEF RunningSetExact, Registered, Polled
  <1>3. CASE \E r \in Request : Submit(r) \/ Step(r) \/ StoreError(r)
    <2>1. PICK r \in Request : Joins(r) \/ Leaves(r) \/ SameRunning
      BY <1>3, RequestRunningSteps
    <2>2. CASE Joins(r)
      BY <1>1, <2>2 DEF Joins
    <2>3. CASE Leaves(r)
      <3>1. \A s \in Registered : act[s] = act[r] => s = r
        BY IdsPositive
           DEF Owned, ActsDistinct, Registered, RegisteredPcs, ReviewPcs, Placement,
               OwnPcs, Activity, NoActivity
      <3> QED
        BY <1>1, <2>3, <3>1 DEF Leaves
    <2>4. CASE SameRunning
      BY <1>1, <2>4 DEF SameRunning
    <2> QED
      BY <2>1, <2>2, <2>3, <2>4
  <1>4. CASE Restart
    BY <1>4 DEF Restart, Registered, RegisteredPcs, ReviewPcs, Polled
  <1>5. CASE ForeignList \/ ForeignSave \/ Tick \/ UNCHANGED vars
    BY <1>1, <1>5 DEF ForeignList, ForeignSave, Tick, vars, Registered, Polled
  <1> QED
    BY <1>3, <1>4, <1>5 DEF Next, Quiet

\* The set the queue consults to tell live reviews from stale ones is exact in
\* every reachable state.
THEOREM RunningSetAlwaysExact == Spec => []RunningSetExact
  <1>1. Init => RunningSetExact
    BY DEF Init, RunningSetExact, RegisteredPcs, ReviewPcs
  <1>2. Inv2 /\ RunningSetExact /\ [Next]_vars => RunningSetExact'
    BY RunningSetStep
  <1> QED
    BY <1>1, <1>2, OwnedInvariant, PTL DEF Spec

-----------------------------------------------------------------------------
(* Running records                                                         *)

Live == {r \in Request : pc[r] \in LivePcs}

\* What a step of a request may do to the records that say Running: a request
\* that ends its review first takes its own record out of them, and the only
\* record that may become Running is that of a live request.
Answered(r) ==
    /\ \A a \in Activity : store'[a].status = "Running" =>
          store[a].status = "Running" \/ (a = act[r] /\ r \in Live')
    /\ Live \ Live' \subseteq {r}
    /\ r \in Live \ Live' => store'[act[r]].status # "Running"
    /\ \A s \in Live : act'[s] = act[s]
    /\ r \in Live' => act'[r] = act[r]
    /\ errors' = errors

LEMMA SavedFailure ==
    ASSUME TypeOK, NEW c \in Record, NEW e \in Reason, Save(Failed(c, e))
    PROVE  \A a \in Activity : store'[a].status = "Running" => store[a].status = "Running"
  BY DEF TypeOK, Save, Failed, Record

LEMMA RequestAnswers ==
    ASSUME Inv1, LogCopyIsOwn, NEW r \in Request, Submit(r) \/ Step(r)
    PROVE  Answered(r)
  <1> USE DEF Inv1, TypeOK, Placement, Goto, Pc, AdmissionPcs, ReviewPcs, OwnPcs,
              PolledPcs, Live, LivePcs, Answered, Polled
  <1>1. CASE Submit(r)
    BY <1>1 DEF Submit, Entry
  <1>2. CASE CancelList(r)
    BY <1>2 DEF CancelList
  <1>3. CASE Cancel(r)
    <2>1. PICK c \in held[r] : Save(Failed(c, "superseded"))
      BY <1>3 DEF Cancel
    <2> QED
      BY <1>3, <2>1, SavedFailure DEF Cancel, Reason
  <1>4. CASE Lookup(r)
    <2>1. PICK l \in {"samePr", "reuse", "done", "checkRunning"} : Goto(r, l)
      BY <1>4 DEF Lookup, Reuse
    <2> QED
      BY <1>4, <2>1 DEF Lookup
  <1>5. CASE CheckRunning(r)
    BY <1>5 DEF CheckRunning, Reuse
  <1>6. CASE MarkStale(r)
    <2>1. PICK c \in held[r] : Save(Failed(c, "stale"))
      BY <1>6 DEF MarkStale
    <2> QED
      BY <1>6, <2>1, SavedFailure DEF MarkStale, Reason
  <1>7. CASE MarkReused(r)
    BY <1>7 DEF MarkReused, Save, Mine, Headless, Record
  <1>8. CASE CheckSamePr(r)
    BY <1>8 DEF CheckSamePr
  <1>9. CASE Create(r)
    BY <1>9 DEF Create, Save, Mine, Headless, Record
  <1>10. CASE Label(r)
    <2>1. PICK c \in {Mine(r, "Queued", "none"), Headless(Mine(r, "Queued", "none"))} : Save(c)
      BY <1>10 DEF Label
    <2>2. c.id = act[r] /\ c.status = "Queued"
      BY <2>1 DEF Mine, Headless
    <2> QED
      BY <1>10, <2>1, <2>2 DEF Label, Save, Record
  <1>11. CASE Prepare(r)
    BY <1>11 DEF Prepare, Entry, Save, Mine, Record
  <1>12. CASE PrepareFails(r)
    BY <1>12 DEF PrepareFails, Save, Mine, Headless, Record
  <1>13. CASE TrySlot(r)
    BY <1>13 DEF TrySlot
  <1>14. CASE MarkRunning(r)
    BY <1>14 DEF MarkRunning, Save, Mine, Headless, Record
  <1>15. CASE WaitPrior(r)
    BY <1>15 DEF WaitPrior
  <1>16. CASE Acquire(r)
    BY <1>16 DEF Acquire
  <1>17. CASE Block(r)
    BY <1>17 DEF Block
  <1>18. CASE Register(r)
    BY <1>18 DEF Register
  <1>19. CASE StartReview(r)
    BY <1>19 DEF StartReview, Save, Mine, Headless, Record
  <1>20. CASE Relabel(r)
    BY <1>20 DEF Relabel, Save, Mine, Headless, Record
  <1>21. CASE LogRead(r)
    BY <1>21 DEF LogRead
  <1>22. CASE LogSave(r)
    <2>1. PICK c \in held[r] : Save(c)
      BY <1>22 DEF LogSave
    <2>2. c \in Record /\ c.id = act[r]
      BY <1>22, <2>1 DEF LogSave, LogCopyIsOwn
    <2> QED
      BY <1>22, <2>1, <2>2 DEF LogSave, Save, Record
  <1>23. CASE Finish(r)
    BY <1>23 DEF Finish, Complete, Fail, EndReview, Save, Mine, Record
  <1>24. CASE Unregister(r)
    BY <1>24 DEF Unregister
  <1>25. CASE Release(r)
    <2>1. CASE Goto(r, AfterRelease(r))
      BY <1>25, <2>1 DEF Release, AfterRelease
    <2>2. CASE \E w \in Request : /\ pc[w] = "blocked"
                                 /\ pc' = [pc EXCEPT ![r] = AfterRelease(r), ![w] = "acquire"]
      BY <1>25, <2>2 DEF Release, AfterRelease
    <2> QED
      BY <1>25, <2>1, <2>2 DEF Release
  <1>26. CASE Sync(r)
    BY <1>26 DEF Sync
  <1> QED
    BY <1>1, <1>2, <1>3, <1>4, <1>5, <1>6, <1>7, <1>8, <1>9, <1>10, <1>11, <1>12,
       <1>13, <1>14, <1>15, <1>16, <1>17, <1>18, <1>19, <1>20, <1>21, <1>22,
       <1>23, <1>24, <1>25, <1>26 DEF Step, Admission, Execution

LEMMA NoOrphanRunningStep ==
    ASSUME Inv2, NoOrphanRunning, [Next]_vars
    PROVE  NoOrphanRunning'
  <1> USE DEF Inv2, Inv1, TypeOK
  <1> SUFFICES ASSUME errors' = 0, NEW a \in Activity, store'[a].status = "Running"
               PROVE  \E r \in Live' : act'[r] = a
    BY DEF NoOrphanRunning, Live
  <1>1. errors = 0 => \A b \in Activity : store[b].status = "Running" =>
                          \E r \in Live : act[r] = b
    BY DEF NoOrphanRunning, Live
  <1>2. CASE \E r \in Request : Submit(r) \/ Step(r)
    <2>1. PICK r \in Request : Answered(r)
      BY <1>2, RequestAnswers DEF Owned
    <2> QED
      BY <1>1, <2>1 DEF Answered
  <1>3. CASE \E r \in Request : StoreError(r)
    BY <1>3 DEF StoreError
  <1>4. CASE Restart
    <2>1. store'[a] = IF store[a].status = "Running" THEN Failed(store[a], "restarted")
                                                     ELSE store[a]
      BY <1>4 DEF Restart, Recovered
    <2>2. store[a] \in Record
      OBVIOUS
    <2>3. Failed(store[a], "restarted").status = "Error"
      BY <2>2 DEF Failed, Record
    <2> QED
      BY <2>1, <2>3
  <1>5. CASE ForeignSave
    <2>1. PICK c \in foreign : Save(Failed(c, "restarted"))
      BY <1>5 DEF ForeignSave
    <2>2. store[a].status = "Running"
      BY <2>1, SavedFailure DEF Reason
    <2> QED
      BY <1>1, <1>5, <2>2 DEF ForeignSave, Live
  <1>6. CASE ForeignList \/ Tick \/ UNCHANGED vars
    BY <1>1, <1>6 DEF ForeignList, Tick, vars, Live
  <1> QED
    BY <1>2, <1>3, <1>4, <1>5, <1>6 DEF Next, Quiet

\* As long as no store operation fails, a record that says Running has a thread
\* of this host behind it: neither restarts, nor a second host process, nor the
\* log saves that write back an old copy, leave a running review nobody runs.
THEOREM RunningAlwaysAnswered == Spec => []NoOrphanRunning
  <1>1. Init => NoOrphanRunning
    BY DEF Init, NoOrphanRunning
  <1>2. Inv2 /\ NoOrphanRunning /\ [Next]_vars => NoOrphanRunning'
    BY NoOrphanRunningStep
  <1> QED
    BY <1>1, <1>2, OwnedInvariant, PTL DEF Spec

-----------------------------------------------------------------------------
(* The condition variable                                                  *)

Acquiring == {r \in Request : pc[r] = "acquire"}
Blocked   == {r \in Request : pc[r] = "blocked"}

Arrives(r) ==
    /\ r \in Request \ Acquiring /\ UNCHANGED <<used, Blocked>>
    /\ Acquiring' = Acquiring \cup {r}

Acquires(r) ==
    /\ r \in Acquiring /\ used' = used + 1 /\ UNCHANGED Blocked
    /\ Acquiring' = Acquiring \ {r}

Sleeps == used >= Limit /\ UNCHANGED used

WakesNobody == Blocked' = {}

Wakes(r, w) ==
    /\ r \in SlotHolders /\ w \in Blocked
    /\ used' = (IF used = 0 THEN 0 ELSE used - 1)
    /\ Acquiring' = Acquiring \cup {w}

SameWaiters == used' >= used /\ UNCHANGED <<Acquiring, Blocked>>

\* What a step of a request may do to the threads waiting for a slot.
LEMMA RequestWaiterSteps ==
    ASSUME Inv1, NEW r \in Request, Submit(r) \/ Step(r) \/ StoreError(r)
    PROVE  \/ Arrives(r) \/ Acquires(r) \/ Sleeps \/ WakesNobody \/ SameWaiters
           \/ \E w \in Request : Wakes(r, w)
  <1> USE DEF Inv1, TypeOK, Placement, Goto, Pc, AdmissionPcs, ReviewPcs, PolledPcs,
              Acquiring, Blocked, SameWaiters, Polled
  <1>1. CASE Submit(r)
    BY <1>1 DEF Submit, Entry
  <1>2. CASE CancelList(r)
    BY <1>2 DEF CancelList
  <1>3. CASE Cancel(r)
    BY <1>3 DEF Cancel
  <1>4. CASE Lookup(r)
    <2>1. PICK l \in {"samePr", "reuse", "done", "checkRunning"} : Goto(r, l)
      BY <1>4 DEF Lookup, Reuse
    <2> QED
      BY <1>4, <2>1 DEF Lookup
  <1>5. CASE CheckRunning(r)
    BY <1>5 DEF CheckRunning, Reuse
  <1>6. CASE MarkStale(r)
    BY <1>6 DEF MarkStale
  <1>7. CASE MarkReused(r)
    BY <1>7 DEF MarkReused
  <1>8. CASE CheckSamePr(r)
    BY <1>8 DEF CheckSamePr
  <1>9. CASE Create(r)
    BY <1>9 DEF Create
  <1>10. CASE Label(r)
    BY <1>10 DEF Label
  <1>11. CASE Prepare(r)
    BY <1>11 DEF Prepare, Entry
  <1>12. CASE PrepareFails(r)
    BY <1>12 DEF PrepareFails
  <1>13. CASE TrySlot(r)
    BY <1>13 DEF TrySlot
  <1>14. CASE MarkRunning(r)
    BY <1>14 DEF MarkRunning
  <1>15. CASE WaitPrior(r)
    BY <1>15 DEF WaitPrior, Arrives
  <1>16. CASE Acquire(r)
    BY <1>16 DEF Acquire, Acquires
  <1>17. CASE Block(r)
    BY <1>17 DEF Block, Sleeps
  <1>18. CASE Register(r)
    BY <1>18 DEF Register
  <1>19. CASE StartReview(r)
    BY <1>19 DEF StartReview
  <1>20. CASE Relabel(r)
    BY <1>20 DEF Relabel
  <1>21. CASE LogRead(r)
    BY <1>21 DEF LogRead
  <1>22. CASE LogSave(r)
    BY <1>22 DEF LogSave
  <1>23. CASE Finish(r)
    BY <1>23 DEF Finish, Complete, Fail, EndReview
  <1>24. CASE Unregister(r)
    BY <1>24 DEF Unregister
  <1>25. CASE Release(r)
    <2>1. CASE Goto(r, AfterRelease(r)) /\ \A w \in Request : pc[w] # "blocked"
      BY <1>25, <2>1 DEF Release, AfterRelease, WakesNobody
    <2>2. CASE \E w \in Request : /\ pc[w] = "blocked"
                                 /\ pc' = [pc EXCEPT ![r] = AfterRelease(r), ![w] = "acquire"]
      BY <1>25, <2>2 DEF Release, AfterRelease, Wakes, SlotHolders, SlotPcs
    <2> QED
      BY <1>25, <2>1, <2>2 DEF Release
  <1>26. CASE Sync(r)
    BY <1>26 DEF Sync
  <1>27. CASE StoreError(r)
    BY <1>27 DEF StoreError
  <1> QED
    BY <1>1, <1>2, <1>3, <1>4, <1>5, <1>6, <1>7, <1>8, <1>9, <1>10, <1>11, <1>12,
       <1>13, <1>14, <1>15, <1>16, <1>17, <1>18, <1>19, <1>20, <1>21, <1>22,
       <1>23, <1>24, <1>25, <1>26, <1>27 DEF Step, Admission, Execution

LEMMA NoLostWakeupStep ==
    ASSUME Inv1, SlotsAccounted, NoLostWakeup, [Next]_vars
    PROVE  NoLostWakeup'
  <1> USE BoundsTyped DEF Inv1, TypeOK, Limit
  <1>1. Blocked # {} => Limit <= used + Cardinality(Acquiring)
    BY DEF NoLostWakeup, Acquiring, Blocked
  <1>2. SUFFICES ASSUME Blocked' # {}
                 PROVE  Limit <= used' + Cardinality(Acquiring')
    BY DEF NoLostWakeup, Acquiring, Blocked
  <1>3. IsFiniteSet(Acquiring) /\ IsFiniteSet(SlotHolders)
    BY RequestFinite, FS_Subset DEF Acquiring, SlotHolders
  <1>4. Cardinality(Acquiring) \in Nat /\ Cardinality(SlotHolders) \in Nat
    BY <1>3, FS_CardinalityType
  <1>5. CASE \E r \in Request : Submit(r) \/ Step(r) \/ StoreError(r)
    <2>1. CASE \E r \in Request : Arrives(r)
      <3>1. PICK r \in Request : Arrives(r)
        BY <2>1
      <3>2. Cardinality(Acquiring') = Cardinality(Acquiring) + 1
        BY <1>3, <3>1, FS_AddElement DEF Arrives
      <3> QED
        BY <1>1, <1>2, <1>4, <3>1, <3>2 DEF Arrives
    <2>2. CASE \E r \in Request : Acquires(r)
      <3>1. PICK r \in Request : Acquires(r)
        BY <2>2
      <3>2. Cardinality(Acquiring') = Cardinality(Acquiring) - 1
        BY <1>3, <3>1, FS_RemoveElement DEF Acquires
      <3> QED
        BY <1>1, <1>2, <1>4, <3>1, <3>2 DEF Acquires
    <2>3. CASE Sleeps
      <3>1. IsFiniteSet(Acquiring')
        BY RequestFinite, FS_Subset DEF Acquiring
      <3>2. Cardinality(Acquiring') \in Nat
        BY <3>1, FS_CardinalityType
      <3> QED
        BY <2>3, <3>2 DEF Sleeps
    <2>4. CASE WakesNobody
      BY <1>2, <2>4 DEF WakesNobody
    <2>5. CASE SameWaiters
      <3>1. used' \in Nat
        BY StepKeepsInv1
      <3>2. Cardinality(Acquiring') = Cardinality(Acquiring)
        BY <2>5 DEF SameWaiters
      <3> QED
        BY <1>1, <1>2, <1>4, <2>5, <3>1, <3>2 DEF SameWaiters
    <2>6. CASE \E r, w \in Request : Wakes(r, w)
      <3>1. PICK r \in Request, w \in Request : Wakes(r, w)
        BY <2>6
      <3>2. Cardinality(Acquiring') = Cardinality(Acquiring) + 1
        BY <1>3, <3>1, FS_AddElement DEF Wakes, Acquiring, Blocked
      <3>3. Cardinality(SlotHolders) # 0
        BY <1>3, <3>1, FS_EmptySet DEF Wakes
      <3> QED
        BY <1>1, <1>4, <3>1, <3>2, <3>3 DEF Wakes, SlotsAccounted
    <2> QED
      BY <1>5, <2>1, <2>2, <2>3, <2>4, <2>5, <2>6, RequestWaiterSteps
  <1>6. CASE Restart
    BY <1>2, <1>6 DEF Restart, Blocked
  <1>7. CASE ForeignList \/ ForeignSave \/ Tick \/ UNCHANGED vars
    BY <1>1, <1>2, <1>7 DEF ForeignList, ForeignSave, Tick, vars, Acquiring, Blocked
  <1> QED
    BY <1>5, <1>6, <1>7 DEF Next, Quiet

\* No wakeup is lost: while a thread sleeps on the condition variable, every
\* free slot has a thread awake that is going to look at the counter.
THEOREM WakeupsNeverLost == Spec => []NoLostWakeup
  <1>1. Init => NoLostWakeup
    BY DEF Init, NoLostWakeup
  <1>2. Inv1 /\ SlotsAccounted /\ NoLostWakeup /\ [Next]_vars => NoLostWakeup'
    BY NoLostWakeupStep
  <1>3. Spec => []Inv1
    BY InitTypes, StepKeepsInv1, PTL DEF Spec
  <1> QED
    BY <1>1, <1>2, <1>3, SlotsAlwaysAccounted, PTL DEF Spec

-----------------------------------------------------------------------------
(***************************************************************************)
(* The second part: the serialisation of the reviews, for every number of  *)
(* requests, pull requests, heads and slots, and whatever store operations *)
(* fail and restarts happen.  The reviews of one pull request run one      *)
(* after the other, and one head is under review once.  This is about      *)
(* calls that do not overlap, poll or force, served by one host whose ids  *)
(* sort as they are numbered; README.md says what happens otherwise.       *)
(***************************************************************************)

-----------------------------------------------------------------------------
(* What the theorems assume                                                *)

CalmCalls ==
    /\ OneCallAtATime /\ MaxCommands = 0
    /\ \A c \in Calls : c.kind # "poll" /\ ~c.force

IdsInOrder == \A a, b \in Activity : a < b => IdOrder[a] < IdOrder[b]

-----------------------------------------------------------------------------
(* The inductive invariant                                                 *)

\* From the admission of a request to the end of its review.
Joined(r) == pc[r] = "markRunning" \/ Admitted(r)

\* Past the wait for the earlier reviews of its pull request.
Past(r) == Joined(r) /\ pc[r] # "waitPrior"

\* A request that has been given a slot at once registers within its call.
Entering(r) ==
    pc[r] \in AdmissionPcs \/ (pc[r] = "register" /\ store[act[r]].status = "Running")

\* The records of a pull request and of a head.
Of(c, r) == c.pr = req[r].pr /\ c.head = req[r].head

\* The activity of this record is being reviewed, or was when its thread died.
Settled(a) ==
    \/ store[a].status = "Running"
    \/ \E s \in Request : Joined(s) /\ act[s] = a

\* The activity of a request that waits or is prepared is queued and labelled.
Prepared(r) ==
    \/ pc[r] \in {"slot", "markRunning", "waitPrior", "acquire", "blocked"}
    \/ Remote(r) /\ pc[r] \in {"lookup", "checkRunning", "markStale", "samePr", "reuse"}

\* A request that has looked for an active review of its head.
Looked(r) ==
    \/ pc[r] \in {"checkRunning", "markStale", "samePr", "slot"}
    \/ pc[r] \in {"create", "label"} /\ ~Remote(r)

\* A request that knows whether another of its pull request is active.
Checked(r) ==
    \/ pc[r] = "slot"
    \/ pc[r] \in {"create", "label"} /\ ~Remote(r)

\* One request at a time is admitted, and none forces or is recovered by others.
Alone ==
    /\ \A r, s \in Request : r # s /\ Entering(r) => ~Entering(s)
    /\ \A r \in Request : pc[r] \notin {"cancelList", "cancel"}
    /\ foreign = {}

\* Ids are in the order of their creation, and the rest have no record.
Clocked ==
    /\ \A a, b \in Activity : a < b /\ b < nextId => created[a] <= created[b]
    /\ \A a \in Activity : a < nextId => created[a] <= now
    /\ \A a \in Activity : a >= nextId => store[a].status = "Absent"

\* A request that has no activity yet.
Unnumbered(r) ==
    \/ pc[r] \in {"idle", "create"}
    \/ ~Remote(r) /\ pc[r] \in {"lookup", "checkRunning", "markStale", "samePr"}

\* The request that is being admitted has the latest activity, if it has one.
Newest ==
    \A r \in Request :
        /\ Unnumbered(r) => act[r] = NoActivity
        /\ Entering(r) /\ act[r] # NoActivity => \A s \in Request \ {r} : act[s] < act[r]

\* The activity of a request that is being admitted is queued; a review that waits
\* or runs has an active record with its labels.
LabelledAt(r) ==
    /\ Joined(r) => IsActive(store[act[r]]) /\ Of(store[act[r]], r)
    /\ Prepared(r) => store[act[r]].status = "Queued" /\ Of(store[act[r]], r)
    /\ pc[r] \in AdmissionPcs /\ act[r] # NoActivity => store[act[r]].status = "Queued"
    /\ pc[r] = "logSave" => \A c \in held[r] : IsActive(c) /\ Of(c, r)
Labelled == \A r \in Request : LabelledAt(r)

\* A request past its wait is the earliest of its pull request; one that has
\* found no other of its pull request is the only one.
Behind ==
    /\ \A r, s \in Request :
         r # s /\ Past(s) /\ Joined(r) /\ req[r].pr = req[s].pr => act[s] < act[r]
    /\ \A r, s \in Request :
         r # s /\ Checked(r) /\ ~samePr[r] /\ Joined(s) => req[r].pr # req[s].pr

\* A head of a pull request is settled once; one that is to be admitted is not
\* settled by another, unless by the record it still looks at.
Single ==
    /\ \A a, b \in Activity :
         a # b /\ Settled(a) /\ Settled(b) /\ store[a].pr = store[b].pr =>
             store[a].head # store[b].head
    /\ \A r \in Request, a \in Activity :
         Looked(r) /\ Settled(a) /\ a # act[r] /\ Of(store[a], r) =>
             pc[r] \in {"checkRunning", "markStale"} /\ \E c \in held[r] : c.id = a

\* A record taken for stale has no thread; one taken for running has one that
\* is registered, if it has one at all.
Dead ==
    \A r, s \in Request : \A c \in held[r] : act[s] = c.id =>
        /\ pc[r] = "checkRunning" /\ Joined(s) => pc[s] \in ReviewPcs
        /\ pc[r] = "markStale" => ~Joined(s)

\* The record a caller looks at is one, and the one it was sent to is none that
\* could still give way.
Firm ==
    \A r \in Request :
        /\ outcome[r] = "Reused" => pc[r] = "done"
        /\ pc[r] \in {"checkRunning", "markStale"} => \A c, d \in held[r] : c = d
        /\ pc[r] \in {"checkRunning", "markStale", "reuse"} \/ outcome[r] = "Reused" =>
             \A c \in held[r] :
                 /\ c.id < nextId /\ store[c.id].status # "Cancelled"
                 /\ \A s \in Request : act[s] = c.id => pc[s] \notin AdmissionPcs

Serial == Alone /\ Clocked /\ Newest /\ Labelled /\ Behind /\ Single /\ Dead /\ Firm

-----------------------------------------------------------------------------
(* A request that waits, runs or ends                                      *)

\* What the types and the ownership of activities say of a state.
LEMMA Basics ==
    ASSUME Inv2
    PROVE  /\ nextId \in Nat \ {0} /\ FirstId \in Nat \ {0} /\ LastId \in Nat /\ now \in Nat
           /\ \A a \in Activity : /\ a \in Nat \ {0} /\ created[a] \in Nat /\ store[a].id = a
                                  /\ store[a] \in Record
           /\ \A s \in Request : act[s] \in Nat /\ (act[s] # NoActivity => act[s] \in Activity)
           /\ \A s, t \in Request : act[s] # NoActivity => act[s] < nextId /\ (act[s] = act[t] => s = t)
           /\ NoActivity = 0
  BY IdsPositive DEF Inv2, Inv1, Owned, TypeOK, ActsDistinct, Activity, NoActivity

\* Where the parts of a request's way overlap, and which of them have an activity.
LEMMA Ways ==
    ASSUME Inv2, NEW s \in Request
    PROVE  /\ Joined(s) => act[s] \in Activity
           /\ Prepared(s) => act[s] \in Activity
           /\ pc[s] = "logSave" => Joined(s) /\ \A c \in held[s] : c.id = act[s]
           /\ Looked(s) \/ Checked(s) => pc[s] \in AdmissionPcs
           /\ Past(s) => Joined(s)
           /\ pc[s] \in AdmissionPcs => Entering(s)
  <1>1. Joined(s) \/ Prepared(s) => pc[s] \in OwnPcs \/ (Remote(s) /\ pc[s] \in AdmissionPcs \ {"create"})
    BY DEF Joined, Admitted, Prepared, OwnPcs, ReviewPcs, AdmissionPcs
  <1>2. Joined(s) \/ Prepared(s) => act[s] \in Activity
    BY <1>1 DEF Inv2, Inv1, Placement
  <1>3. pc[s] = "logSave" => Joined(s) /\ \A c \in held[s] : c.id = act[s]
    BY DEF Joined, Admitted, ReviewPcs, Inv2, Owned, LogCopyIsOwn
  <1> QED
    BY <1>2, <1>3 DEF Looked, Checked, Past, Entering, AdmissionPcs

\* The steps of a request after its admission: it may leave the queue, it writes
\* at most its own record, and it goes past the others only when it is earlier.
LEMMA OnwardKeeps ==
    ASSUME Inv2, Serial, NEW r \in Request,
           UNCHANGED <<act, nextId, created, now, req, samePr, foreign>>,
           \A s \in Request \ {r} : /\ pc'[s] = pc[s] \/ (pc[s] = "blocked" /\ pc'[s] = "acquire")
                                    /\ held'[s] = held[s] /\ outcome'[s] = outcome[s],
           act[r] \in Activity, \A a \in Activity \ {act[r]} : store'[a] = store[a],
           store'[act[r]].status # "Cancelled" \/ store' = store,
           pc[r] \notin AdmissionPcs \ {"markRunning"},
           pc'[r] \notin AdmissionPcs \cup {"idle"}, outcome'[r] # "Reused",
           Joined(r)' => Joined(r), Entering(r)' => Entering(r),
           Past(r)' => \/ Past(r)
                       \/ \A s \in Request \ {r} : Joined(s) /\ req[s].pr = req[r].pr => act[r] < act[s],
           Joined(r)' /\ pc[r] \in ReviewPcs => pc'[r] \in ReviewPcs,
           LabelledAt(r)',
           Settled(act[r])' => Settled(act[r]) /\ store'[act[r]].pr = store[act[r]].pr
                                               /\ store'[act[r]].head = store[act[r]].head
    PROVE  Serial'
  <1> DEFINE Others == Request \ {r}
  <1>1. \A s \in Others : /\ Joined(s)' <=> Joined(s)
                          /\ Past(s)' <=> Past(s)
                          /\ pc'[s] = pc[s] \/ (pc[s] = "blocked" /\ pc'[s] = "acquire")
    BY DEF Joined, Admitted, Past, ReviewPcs
  <1>2. \A s \in Others : /\ Prepared(s)' <=> Prepared(s)
                          /\ Looked(s)' <=> Looked(s)
                          /\ Checked(s)' <=> Checked(s)
                          /\ pc'[s] \in AdmissionPcs <=> pc[s] \in AdmissionPcs
    BY DEF Prepared, Looked, Checked, Remote, AdmissionPcs
  <1>3. \A s \in Others : act[s] \in Activity => store'[act[s]] = store[act[s]]
    BY Basics
  <1>4. \A s \in Others : Entering(s)' => Entering(s)
    <2>1. \A s \in Others : pc'[s] = "register" => pc[s] = "register" /\ Joined(s)
      BY DEF Joined, Admitted
    <2>2. \A s \in Others : pc'[s] = "register" => store'[act[s]] = store[act[s]]
      BY <2>1, <1>3, Ways
    <2> QED
      BY <1>2, <2>1, <2>2 DEF Entering
  <1>5. ~Looked(r)' /\ ~Checked(r)' /\ ~Looked(r) /\ ~Checked(r)
    BY DEF Looked, Checked, AdmissionPcs
  <1>6. \A a \in Activity : Settled(a)' => /\ Settled(a) /\ store'[a].pr = store[a].pr
                                           /\ store'[a].head = store[a].head
    <2>1. \A a \in Activity \ {act[r]} : Settled(a)' => Settled(a)
      BY <1>1 DEF Settled
    <2> QED
      BY <2>1
  <1>7. Alone'
    <2>1. \A s \in Request : Entering(s)' => Entering(s)
      BY <1>4
    <2>2. \A s \in Request : pc'[s] \notin {"cancelList", "cancel"}
      BY <1>1 DEF Serial, Alone, AdmissionPcs
    <2> QED
      BY <2>1, <2>2 DEF Serial, Alone
  <1>8. Clocked'
    BY Basics DEF Serial, Clocked
  <1>9. Newest'
    <2>1. \A s \in Request : Unnumbered(s)' => Unnumbered(s)
      BY <1>1 DEF Unnumbered, Remote, AdmissionPcs
    <2> QED
      BY <1>4, <2>1 DEF Serial, Newest
  <1>10. Labelled'
    <2>1. ASSUME NEW s \in Others PROVE LabelledAt(s)'
      <3>1. (Joined(s) \/ Prepared(s)) => store'[act[s]] = store[act[s]]
        BY <1>3, Ways
      <3>2. pc'[s] = "logSave" => pc[s] = "logSave" /\ held'[s] = held[s]
        OBVIOUS
      <3>3. LabelledAt(s)
        BY DEF Serial, Labelled
      <3>4. pc'[s] \in AdmissionPcs /\ act[s] # NoActivity => store'[act[s]].status = "Queued"
        BY <1>2, <1>3, <3>3, Basics DEF LabelledAt
      <3> QED
        BY <1>1, <1>2, <3>1, <3>2, <3>3, <3>4 DEF LabelledAt, IsActive, Of
    <2> QED
      BY <2>1 DEF Labelled
  <1>11. Behind'
    <2>1. \A s, t \in Request : s # t /\ Past(t)' /\ Joined(s)' /\ req[s].pr = req[t].pr => act[t] < act[s]
      BY <1>1 DEF Serial, Behind
    <2>2. \A s, t \in Request : s # t /\ Checked(s)' /\ ~samePr[s] /\ Joined(t)' => req[s].pr # req[t].pr
      BY <1>1, <1>2, <1>5 DEF Serial, Behind
    <2> QED
      BY <2>1, <2>2 DEF Behind
  <1>12. Single'
    <2>1. \A a, b \in Activity : a # b /\ Settled(a)' /\ Settled(b)' /\ store'[a].pr = store'[b].pr =>
            store'[a].head # store'[b].head
      BY <1>6 DEF Serial, Single
    <2>2. \A s \in Request, a \in Activity :
            Looked(s)' /\ Settled(a)' /\ a # act[s] /\ store'[a].pr = req[s].pr /\ store'[a].head = req[s].head =>
              pc'[s] \in {"checkRunning", "markStale"} /\ \E c \in held'[s] : c.id = a
      <3> SUFFICES ASSUME NEW s \in Request, NEW a \in Activity, Looked(s)', Settled(a)', a # act[s],
                          store'[a].pr = req[s].pr, store'[a].head = req[s].head
                   PROVE  pc'[s] \in {"checkRunning", "markStale"} /\ \E c \in held'[s] : c.id = a
        OBVIOUS
      <3>1. s # r /\ Looked(s)
        BY <1>2, <1>5
      <3>2. pc[s] \in {"checkRunning", "markStale"} /\ \E c \in held[s] : c.id = a
        BY <1>6, <3>1 DEF Serial, Single, Of
      <3> QED
        BY <3>1, <3>2
    <2> QED
      BY <2>1, <2>2 DEF Single, Of
  <1>13. Dead'
    <2> SUFFICES ASSUME NEW t \in Request, NEW s \in Request, NEW c \in held'[t], act[s] = c.id,
                        pc'[t] \in {"checkRunning", "markStale"}
                 PROVE  /\ pc'[t] = "checkRunning" /\ Joined(s)' => pc'[s] \in ReviewPcs
                        /\ pc'[t] = "markStale" => ~Joined(s)'
      BY DEF Dead
    <2>1. t # r /\ pc[t] = pc'[t] /\ c \in held[t]
      BY <1>1 DEF AdmissionPcs
    <2>2. /\ pc[t] = "checkRunning" /\ Joined(s) => pc[s] \in ReviewPcs
          /\ pc[t] = "markStale" => ~Joined(s)
      BY <2>1 DEF Serial, Dead
    <2>3. Joined(s)' => Joined(s)
      BY <1>1
    <2>4. Joined(s)' /\ pc[s] \in ReviewPcs => pc'[s] \in ReviewPcs
      BY <1>1 DEF ReviewPcs
    <2> QED
      BY <2>1, <2>2, <2>3, <2>4
  <1>14. Firm'
    <2>1. \A s \in Request : outcome'[s] = "Reused" => pc'[s] = "done"
      BY <1>1 DEF Serial, Firm
    <2>2. \A s \in Request : pc'[s] \in {"checkRunning", "markStale"} => \A c, d \in held'[s] : c = d
      BY <1>1 DEF Serial, Firm, AdmissionPcs
    <2>3. ASSUME NEW t \in Request, NEW c \in held'[t],
                 pc'[t] \in {"checkRunning", "markStale", "reuse"} \/ outcome'[t] = "Reused"
          PROVE  /\ c.id < nextId /\ store'[c.id].status # "Cancelled"
                 /\ \A s \in Request : act[s] = c.id => pc'[s] \notin AdmissionPcs
      <3>1. t # r /\ c \in held[t]
            /\ (pc[t] \in {"checkRunning", "markStale", "reuse"} \/ outcome[t] = "Reused")
        BY <2>3, <1>1 DEF AdmissionPcs
      <3>2. /\ c.id < nextId /\ store[c.id].status # "Cancelled"
            /\ \A s \in Request : act[s] = c.id => pc[s] \notin AdmissionPcs
        BY <3>1 DEF Serial, Firm
      <3>3. c.id \in Activity
        BY <3>1 DEF Inv2, Inv1, TypeOK, Record
      <3> QED
        BY <1>2, <3>2, <3>3
    <2> QED
      BY <2>1, <2>2, <2>3 DEF Firm
  <1> QED
    BY <1>7, <1>8, <1>9, <1>10, <1>11, <1>12, <1>13, <1>14 DEF Serial

\* What Save does to the records.
LEMMA Saved ==
    ASSUME Inv2, NEW c, c.id \in Activity, Save(c)
    PROVE  store'[c.id] = c /\ \A a \in Activity \ {c.id} : store'[a] = store[a]
  BY DEF Save, Inv2, Inv1, TypeOK

\* The labels of the record a request saves of its own.
LEMMA MineLabels ==
    ASSUME NEW r \in Request, NEW st, NEW e
    PROVE  LET c == Mine(r, st, e)
           IN  c.id = act[r] /\ c.status = st /\ Of(c, r)
  BY DEF Mine, Of

\* The steps of a review that has been admitted.
LEMMA AdvanceKeeps ==
    ASSUME Inv2, Serial, CalmCalls, NEW r \in Request,
           MarkRunning(r) \/ Register(r) \/ StartReview(r) \/ Relabel(r) \/ LogRead(r) \/ LogSave(r)
    PROVE  Serial'
  <1>0. /\ ~Polled(r) /\ act[r] \in Activity
        /\ pc[r] \in {"markRunning", "register"} \cup ReviewPcs
        /\ pc \in [Request -> Pc] /\ held \in [Request -> SUBSET Record]
    <2>1. ~Polled(r)
      BY DEF CalmCalls, Polled, Inv2, Inv1, TypeOK
    <2>2. pc[r] \in {"markRunning", "register"} \cup ReviewPcs
      BY DEF MarkRunning, Register, StartReview, Relabel, LogRead, LogSave, ReviewPcs
    <2> QED
      BY <2>1, <2>2 DEF Inv2, Inv1, TypeOK, Placement, OwnPcs
  <1>1. /\ UNCHANGED <<act, nextId, created, now, req, samePr, foreign, outcome>>
        /\ \A s \in Request \ {r} : pc'[s] = pc[s] /\ held'[s] = held[s]
    BY <1>0 DEF MarkRunning, Register, StartReview, Relabel, LogRead, LogSave, Goto, Keep
  <1>2. /\ pc'[r] \in {"register"} \cup ReviewPcs
        /\ pc[r] \in ReviewPcs => pc'[r] \in ReviewPcs
        /\ pc'[r] = "register" => pc[r] = "markRunning"
        /\ pc'[r] = "logSave" => pc[r] = "provider" /\ held'[r] = {store[act[r]]} /\ store' = store
    BY <1>0 DEF MarkRunning, Register, StartReview, Relabel, LogRead, LogSave, Goto, Keep, ReviewPcs
  <1>3. Joined(r) /\ Joined(r)' /\ Past(r) /\ Past(r)'
    BY <1>0, <1>2 DEF Joined, Admitted, Past, ReviewPcs
  <1>4. LabelledAt(r) /\ Firm /\ IsActive(store[act[r]]) /\ Of(store[act[r]], r)
    BY <1>3 DEF Serial, Labelled, LabelledAt
  <1>5. /\ \A a \in Activity \ {act[r]} : store'[a] = store[a]
        /\ IsActive(store'[act[r]]) /\ Of(store'[act[r]], r)
    <2>1. CASE store' = store
      BY <1>4, <2>1
    <2>2. CASE Save(Mine(r, "Running", "none"))
      BY <1>0, <2>2, Saved, MineLabels DEF IsActive
    <2>3. CASE LogSave(r)
      <3>1. PICK c \in held[r] : Save(c)
        BY <2>3 DEF LogSave
      <3>2. c.id = act[r] /\ IsActive(c) /\ Of(c, r)
        BY <2>3, <1>4, Ways DEF LogSave, LabelledAt
      <3> QED
        BY <1>0, <3>1, <3>2, Saved
    <2> QED
      BY <2>1, <2>2, <2>3 DEF MarkRunning, Register, StartReview, Relabel, LogRead
  <1>6. pc'[r] \notin AdmissionPcs \cup {"idle"} /\ ~Prepared(r)' /\ pc[r] \notin AdmissionPcs \ {"markRunning"}
    BY <1>0, <1>1, <1>2 DEF Prepared, Remote, AdmissionPcs, ReviewPcs
  <1>7. Entering(r)' => Entering(r)
    BY <1>2, <1>6 DEF Entering, AdmissionPcs, ReviewPcs
  <1>8. LabelledAt(r)'
    <2>1. pc'[r] = "logSave" => \A c \in held'[r] : IsActive(c) /\ Of(c, r)
      BY <1>2, <1>4
    <2> QED
      BY <1>1, <1>5, <1>6, <2>1 DEF LabelledAt, IsActive, Of
  <1>9. store'[act[r]].status # "Cancelled"
    BY <1>5 DEF IsActive
  <1>10. /\ Settled(act[r])
         /\ store'[act[r]].pr = store[act[r]].pr /\ store'[act[r]].head = store[act[r]].head
    BY <1>3, <1>4, <1>5 DEF Settled, Of
  <1>11. outcome'[r] # "Reused"
    BY <1>0, <1>1, <1>4 DEF Firm, ReviewPcs
  <1> QED
    BY <1>0, <1>1, <1>2, <1>3, <1>5, <1>6, <1>7, <1>8, <1>9, <1>10, <1>11, OnwardKeeps

\* The steps that end a review, or its thread.
LEMMA LeaveKeeps ==
    ASSUME Inv2, Serial, CalmCalls, NEW r \in Request,
           Finish(r) \/ Unregister(r) \/ Release(r) \/ Sync(r)
    PROVE  Serial'
  <1>0. /\ ~Polled(r) /\ act[r] \in Activity
        /\ pc[r] \in {"unregister", "release", "sync", "provider", "failReview"}
        /\ pc \in [Request -> Pc] /\ outcome \in [Request -> {"none", "Completed", "Error", "Reused"}]
    <2>1. ~Polled(r)
      BY DEF CalmCalls, Polled, Inv2, Inv1, TypeOK
    <2>2. pc[r] \in {"unregister", "release", "sync", "provider", "failReview"}
      BY DEF Finish, Complete, Fail, Unregister, Release, Sync
    <2> QED
      BY <2>1, <2>2 DEF Inv2, Inv1, TypeOK, Placement, OwnPcs, ReviewPcs
  <1>1. /\ UNCHANGED <<act, nextId, created, now, req, samePr, foreign, held>>
        /\ \A s \in Request \ {r} : /\ outcome'[s] = outcome[s]
                                    /\ pc'[s] = pc[s] \/ (pc[s] = "blocked" /\ pc'[s] = "acquire")
    BY <1>0 DEF Finish, Complete, Fail, EndReview, Unregister, Release, Sync, Goto
  <1>2. pc'[r] \in {"unregister", "release", "sync", "done"}
    BY <1>0 DEF Finish, Complete, Fail, EndReview, Unregister, Release, AfterRelease, Sync, Goto
  <1>3. ~Joined(r)' /\ ~Past(r)' /\ ~Entering(r)' /\ ~Prepared(r)'
        /\ pc'[r] \notin AdmissionPcs \cup {"idle"}
    BY <1>2 DEF Joined, Admitted, Past, Entering, Prepared, AdmissionPcs, ReviewPcs
  <1>4. LabelledAt(r)'
    BY <1>2, <1>3 DEF LabelledAt
  <1>5. \/ store' = store
        \/ /\ \A a \in Activity \ {act[r]} : store'[a] = store[a]
           /\ store'[act[r]].status \in {"Completed", "Error"}
    <2>1. CASE store' = store
      BY <2>1
    <2>2. CASE \E st \in {"Completed", "Error"}, e \in Reason : Save(Mine(r, st, e))
      BY <1>0, <2>2, Saved, MineLabels
    <2> QED
      BY <2>1, <2>2 DEF Finish, Complete, Fail, EndReview, Unregister, Release, Sync, Reason
  <1>6. Settled(act[r])' => store' = store /\ Settled(act[r])
    <2>1. \A s \in Request \ {r} : act[s] # act[r]
      BY <1>0, Basics
    <2>2. Settled(act[r])' => store'[act[r]].status = "Running"
      BY <1>1, <1>3, <2>1 DEF Settled
    <2> QED
      BY <1>5, <2>2 DEF Settled
  <1>7. outcome'[r] # "Reused"
    BY <1>0 DEF Serial, Firm, Finish, Complete, Fail, EndReview, Unregister, Release, Sync
  <1>8. pc[r] \notin AdmissionPcs \ {"markRunning"}
    BY <1>0 DEF AdmissionPcs
  <1> QED
    BY <1>0, <1>1, <1>2, <1>3, <1>4, <1>5, <1>6, <1>7, <1>8, OnwardKeeps

\* The steps of a review that waits: when it goes past the others it is earlier.
LEMMA WaitKeeps ==
    ASSUME Inv2, Serial, CalmCalls, IdsInOrder, NEW r \in Request,
           WaitPrior(r) \/ Acquire(r) \/ Block(r)
    PROVE  Serial'
  <1>0. act[r] \in Activity /\ pc[r] \in {"waitPrior", "acquire"} /\ pc \in [Request -> Pc]
    BY DEF WaitPrior, Acquire, Block, Inv2, Inv1, TypeOK, Placement, OwnPcs
  <1>1. /\ UNCHANGED <<act, nextId, created, now, req, samePr, foreign, held, outcome, store>>
        /\ \A s \in Request \ {r} : pc'[s] = pc[s]
        /\ pc'[r] \in {"acquire", "blocked", "register"}
    BY <1>0 DEF WaitPrior, Acquire, Block, Goto
  <1>2. Joined(r) /\ Prepared(r) /\ Joined(r)' /\ pc'[r] \notin AdmissionPcs \cup {"idle"}
    BY <1>0, <1>1 DEF Joined, Admitted, Prepared, AdmissionPcs
  <1>3. LabelledAt(r)
    BY DEF Serial, Labelled
  <1>4. LabelledAt(r)' /\ ~Entering(r)'
    BY <1>1, <1>2, <1>3 DEF LabelledAt, Entering, IsActive, Of, Prepared, Remote
  <1>5. Past(r) \/ \A s \in Request \ {r} : Joined(s) /\ req[s].pr = req[r].pr => act[r] < act[s]
    <2>1. CASE ~WaitPrior(r)
      BY <1>0, <1>2, <2>1 DEF Past, Acquire, Block
    <2>2. CASE WaitPrior(r)
      <3> SUFFICES ASSUME NEW s \in Request \ {r}, Joined(s), req[s].pr = req[r].pr
                   PROVE  act[r] < act[s]
        OBVIOUS
      <3>1. act[s] \in Activity /\ IsActive(store[act[s]]) /\ store[act[s]].pr = req[r].pr
        BY Ways DEF Serial, Labelled, LabelledAt, Of
      <3>2. act[s] # act[r] /\ store[act[s]].id = act[s]
        BY <1>0, <3>1, Basics
      <3>3. ~StartedBefore(act[s], act[r])
        BY <2>2, <3>1, <3>2 DEF WaitPrior, Prior, ActiveForSamePr, OtherActive, MatchesTarget
      <3>4. act[s] < act[r] => created[act[s]] <= created[act[r]] /\ IdOrder[act[s]] < IdOrder[act[r]]
        <4>1. act[r] < nextId
          BY <1>0, Basics
        <4> QED
          BY <1>0, <3>1, <4>1 DEF IdsInOrder, Serial, Clocked
      <3>5. created[act[s]] \in Nat /\ created[act[r]] \in Nat /\ act[s] \in Nat /\ act[r] \in Nat
        BY <1>0, <3>1, Basics
      <3> QED
        BY <3>2, <3>3, <3>4, <3>5 DEF StartedBefore
    <2> QED
      BY <2>1, <2>2
  <1>6. outcome'[r] # "Reused" /\ pc[r] \notin AdmissionPcs
    BY <1>0, <1>1 DEF Serial, Firm, AdmissionPcs
  <1>7. Settled(act[r]) /\ pc[r] \notin ReviewPcs
    BY <1>0, <1>2 DEF Settled, ReviewPcs
  <1> QED
    BY <1>0, <1>1, <1>2, <1>4, <1>5, <1>6, <1>7, OnwardKeeps

\* An error of the store outside the admission.
LEMMA ErrorKeeps ==
    ASSUME Inv2, Serial, CalmCalls, NEW r \in Request, StoreError(r),
           pc[r] \notin AdmissionPcs \ {"markRunning"}
    PROVE  Serial'
  <1>0. /\ ~Polled(r) /\ act[r] \in Activity /\ pc \in [Request -> Pc]
        /\ pc[r] \in {"markRunning", "waitPrior"} \cup ReviewPcs
        /\ outcome \in [Request -> {"none", "Completed", "Error", "Reused"}]
        /\ held \in [Request -> SUBSET Record]
    <2>1. ~Polled(r)
      BY DEF CalmCalls, Polled, Inv2, Inv1, TypeOK
    <2>2. pc[r] \in {"markRunning", "waitPrior"} \cup ReviewPcs
      BY DEF StoreError, ReviewPcs
    <2> QED
      BY <2>1, <2>2 DEF Inv2, Inv1, TypeOK, Placement, OwnPcs
  <1>1. /\ UNCHANGED <<act, nextId, created, now, req, samePr, foreign, store>>
        /\ \A s \in Request \ {r} : pc'[s] = pc[s] /\ outcome'[s] = outcome[s] /\ held'[s] = held[s]
    BY <1>0 DEF StoreError, Goto, Keep
  <1>2. /\ pc'[r] \in {"done", "leaked", "failReview", "unregister"}
        /\ pc'[r] = "failReview" => pc[r] = "logSave"
    BY <1>0 DEF StoreError, Goto
  <1>3. /\ Joined(r) /\ (Joined(r)' => pc'[r] = "failReview")
        /\ (Past(r)' => Past(r)) /\ ~Prepared(r)' /\ ~Entering(r)'
        /\ pc'[r] \notin AdmissionPcs \cup {"idle"}
    BY <1>0, <1>2 DEF Joined, Admitted, Past, Prepared, Entering, AdmissionPcs, ReviewPcs
  <1>4. LabelledAt(r)'
    <2>1. LabelledAt(r)
      BY DEF Serial, Labelled
    <2> QED
      BY <1>1, <1>2, <1>3, <2>1 DEF LabelledAt, IsActive, Of
  <1>5. outcome'[r] # "Reused"
    <2>1. outcome[r] # "Reused"
      BY <1>0 DEF Serial, Firm, ReviewPcs
    <2> QED
      BY <1>0, <2>1 DEF StoreError
  <1>6. Settled(act[r])
    BY <1>3 DEF Settled
  <1>7. Joined(r)' /\ pc[r] \in ReviewPcs => pc'[r] \in ReviewPcs
    BY <1>3 DEF ReviewPcs
  <1> QED
    BY <1>0, <1>1, <1>2, <1>3, <1>4, <1>5, <1>6, <1>7, OnwardKeeps

-----------------------------------------------------------------------------
(* A request that is being admitted                                        *)

\* A step of the one request that is being admitted: the others neither change
\* nor look, so only what it comes to know and to be is to be shown.
LEMMA AdmitKeeps ==
    ASSUME Inv2, Serial, NEW r \in Request, NEW x \in Nat, x = act'[r],
           \A s \in Request \ {r} : ~Entering(s),
           pc[r] \in AdmissionPcs \cup {"idle"}, pc'[r] \notin {"idle", "cancelList", "cancel"},
           UNCHANGED <<req, foreign>>, nextId' \in {nextId, nextId + 1},
           \A s \in Request \ {r} : /\ pc'[s] = pc[s] /\ held'[s] = held[s] /\ outcome'[s] = outcome[s]
                                    /\ samePr'[s] = samePr[s] /\ act'[s] = act[s]
                                    /\ Joined(s) => store'[act[s]] = store[act[s]],
           x \in {act[r], nextId}, Clocked', LabelledAt(r)',
           Joined(r)' => Entering(r) /\ x = act[r] /\ act[r] # NoActivity,
           (Past(r)' \/ (Checked(r)' /\ ~samePr'[r])) =>
              \A s \in Request \ {r} : Joined(s) => req[s].pr # req[r].pr,
           \A a \in Activity \ {x} : Settled(a)' => /\ Settled(a) /\ store'[a].pr = store[a].pr
                                                          /\ store'[a].head = store[a].head,
           Looked(r)' =>
              \A a \in Activity \ {x} : Settled(a)' /\ Of(store'[a], r) =>
                 pc'[r] \in {"checkRunning", "markStale"} /\ \E c \in held'[r] : c.id = a,
           x \in Activity /\ Settled(x)' =>
              /\ Of(store'[x], r)
              /\ \A a \in Activity \ {x} : Settled(a)' => ~Of(store'[a], r),
           \A s \in Request : \A c \in held'[r] : act'[s] = c.id =>
              /\ pc'[r] = "checkRunning" /\ Joined(s)' => pc'[s] \in ReviewPcs
              /\ pc'[r] = "markStale" => ~Joined(s)',
           Unnumbered(r)' => x = NoActivity,
           outcome'[r] = "Reused" => pc'[r] = "done",
           pc'[r] \in {"checkRunning", "markStale"} => \A c, d \in held'[r] : c = d,
           pc'[r] \in {"checkRunning", "markStale", "reuse"} \/ outcome'[r] = "Reused" =>
             \A c \in held'[r] :
                 /\ c.id \in Nat /\ c.id < nextId /\ store'[c.id].status # "Cancelled"
                 /\ \A s \in Request : act'[s] = c.id => pc'[s] \notin AdmissionPcs,
           \A a \in Activity : store'[a].status = "Cancelled" =>
              store[a].status = "Cancelled" \/ (a = act[r] /\ pc[r] \in AdmissionPcs)
    PROVE  Serial'
  <1> DEFINE Others == Request \ {r}
  <1>1. \A s \in Others : /\ Joined(s)' <=> Joined(s)
                          /\ Past(s)' <=> Past(s)
                          /\ ~Looked(s)' /\ ~Checked(s)' /\ pc[s] \notin AdmissionPcs
                          /\ pc'[s] \notin AdmissionPcs
    BY DEF Joined, Admitted, Past, ReviewPcs, Looked, Checked, Entering, AdmissionPcs
  <1>2. \A s \in Others : ~Entering(s)'
    <2>1. \A s \in Others : pc'[s] = "register" => store'[act'[s]] = store[act[s]]
      BY DEF Joined, Admitted
    <2> QED
      BY <1>1, <2>1 DEF Entering
  <1>3. /\ \A s \in Others : act[s] # NoActivity => act[s] < nextId
        /\ \A s \in Others : act'[s] < act'[r] \/ act'[r] = NoActivity
    <2>1. \A s \in Others : act[s] < nextId
      BY Basics
    <2>2. Entering(r) \/ act[r] = NoActivity
      BY Ways DEF Serial, Newest, Unnumbered
    <2>3. \A s \in Others : act[s] < act[r] \/ act[r] = NoActivity
      BY <2>2 DEF Serial, Newest
    <2> QED
      BY <2>1, <2>3
  <1>4. Alone'
    <2>1. \A s \in Request : pc'[s] \notin {"cancelList", "cancel"}
      BY <1>1 DEF AdmissionPcs
    <2> QED
      BY <1>2, <2>1 DEF Serial, Alone
  <1>5. Newest'
    <2>1. \A s \in Request \ {r} : Unnumbered(s)' => Unnumbered(s)
      BY DEF Unnumbered, Remote
    <2> QED
      BY <1>2, <1>3, <2>1 DEF Serial, Newest
  <1>6. Labelled'
    <2>1. ASSUME NEW s \in Others PROVE LabelledAt(s)'
      <3>1. Joined(s)' => store'[act'[s]] = store[act[s]]
        BY <1>1
      <3>2. pc'[s] = "logSave" => pc[s] = "logSave" /\ held'[s] = held[s]
        OBVIOUS
      <3>3. LabelledAt(s)
        BY DEF Serial, Labelled
      <3>4. (Prepared(s)' => Joined(s) /\ Prepared(s))
        BY <1>1 DEF Prepared, Joined, Admitted, AdmissionPcs
      <3> QED
        BY <1>1, <3>1, <3>2, <3>3, <3>4 DEF LabelledAt, IsActive, Of
    <2> QED
      BY <2>1 DEF Labelled
  <1>7. Behind'
    <2>1. ASSUME NEW s \in Request, NEW t \in Request, s # t, Past(t)', Joined(s)',
                 req[s].pr = req[t].pr
          PROVE  act'[t] < act'[s]
      <3>1. CASE s = r
        BY <1>1, <1>3, <2>1, <3>1
      <3>2. CASE t = r
        BY <1>1, <2>1, <3>2
      <3>3. CASE s # r /\ t # r
        BY <1>1, <2>1, <3>3 DEF Serial, Behind
      <3> QED
        BY <3>1, <3>2, <3>3
    <2>2. \A s, t \in Request : s # t /\ Checked(s)' /\ ~samePr'[s] /\ Joined(t)' => req[s].pr # req[t].pr
      BY <1>1
    <2> QED
      BY <2>1, <2>2 DEF Behind
  <1>8. Single'
    <2>1. ASSUME NEW a \in Activity, NEW b \in Activity, a # b, Settled(a)', Settled(b)',
                 store'[a].pr = store'[b].pr, store'[a].head = store'[b].head
          PROVE  FALSE
      <3>1. CASE a # x /\ b # x
        BY <2>1, <3>1 DEF Serial, Single
      <3>2. CASE a = x
        <4>1. Of(store'[x], r) /\ Of(store'[b], r)
          BY <2>1, <3>2 DEF Of
        <4> QED
          BY <2>1, <3>2, <4>1
      <3>3. CASE b = x
        <4>1. Of(store'[x], r) /\ Of(store'[a], r)
          BY <2>1, <3>3 DEF Of
        <4> QED
          BY <2>1, <3>3, <4>1
      <3> QED
        BY <3>1, <3>2, <3>3
    <2>2. \A s \in Request, a \in Activity :
            Looked(s)' /\ Settled(a)' /\ a # act'[s] /\ Of(store'[a], s) =>
              pc'[s] \in {"checkRunning", "markStale"} /\ \E c \in held'[s] : c.id = a
      BY <1>1
    <2> QED
      BY <2>1, <2>2 DEF Single, Of
  <1>9. Dead'
    <2>1. \A t \in Others : pc'[t] \notin {"checkRunning", "markStale"}
      BY <1>1 DEF AdmissionPcs
    <2> QED
      BY <2>1 DEF Dead
  <1>10. Firm'
    <2>1. \A s \in Request : outcome'[s] = "Reused" => pc'[s] = "done"
      BY DEF Serial, Firm
    <2>2. \A s \in Request : pc'[s] \in {"checkRunning", "markStale"} => \A c, d \in held'[s] : c = d
      BY <1>1 DEF AdmissionPcs
    <2>3. ASSUME NEW t \in Request, NEW c \in held'[t],
                 pc'[t] \in {"checkRunning", "markStale", "reuse"} \/ outcome'[t] = "Reused"
          PROVE  /\ c.id < nextId' /\ store'[c.id].status # "Cancelled"
                 /\ \A s \in Request : act'[s] = c.id => pc'[s] \notin AdmissionPcs
      <3>1. CASE t = r
        BY <2>3, <3>1, Basics
      <3>2. CASE t # r
        <4>1. c \in held[t] /\ outcome[t] = "Reused"
          BY <1>1, <2>3, <3>2 DEF AdmissionPcs
        <4>2. /\ c.id < nextId /\ store[c.id].status # "Cancelled"
              /\ \A s \in Request : act[s] = c.id => pc[s] \notin AdmissionPcs
          BY <3>2, <4>1 DEF Serial, Firm
        <4>3. c.id \in Activity /\ c.id \in Nat \ {0}
          <5>1. c.id \in Activity
            BY <4>1 DEF Inv2, Inv1, TypeOK, Record
          <5> QED
            BY <5>1, Basics
        <4>4. store'[c.id].status # "Cancelled"
          BY <4>2, <4>3
        <4>5. act'[r] # c.id \/ pc[r] \in AdmissionPcs => act'[r] # c.id
          BY <4>2, <4>3, Basics
        <4>6. pc[r] = "idle" => act[r] = 0
          BY Basics DEF Serial, Newest, Unnumbered
        <4> QED
          BY <1>1, <4>2, <4>3, <4>4, <4>5, <4>6, Basics
      <3> QED
        BY <3>1, <3>2
    <2> QED
      BY <2>1, <2>2, <2>3 DEF Firm
  <1> QED
    BY <1>4, <1>5, <1>6, <1>7, <1>8, <1>9, <1>10 DEF Serial

\* A step of the admission that leaves the records alone.
LEMMA LookKeeps ==
    ASSUME Inv2, Serial, NEW r \in Request,
           \A s \in Request \ {r} : ~Entering(s),
           pc[r] \in (AdmissionPcs \ {"markRunning"}) \cup {"idle"},
           pc'[r] \notin {"idle", "cancelList", "cancel"},
           UNCHANGED <<store, act, nextId, created, now, req, foreign>>,
           \A s \in Request \ {r} : /\ pc'[s] = pc[s] /\ held'[s] = held[s] /\ outcome'[s] = outcome[s]
                                    /\ samePr'[s] = samePr[s],
           LabelledAt(r)', Unnumbered(r)' => Unnumbered(r),
           Joined(r)' => pc[r] = "slot",
           (Past(r)' \/ (Checked(r)' /\ ~samePr'[r])) =>
              \A s \in Request \ {r} : Joined(s) => req[s].pr # req[r].pr,
           Looked(r)' =>
              \A a \in Activity \ {act[r]} : Settled(a) /\ Of(store[a], r) =>
                 pc'[r] \in {"checkRunning", "markStale"} /\ \E c \in held'[r] : c.id = a,
           \A s \in Request : \A c \in held'[r] : act[s] = c.id =>
              /\ pc'[r] = "checkRunning" /\ Joined(s) => pc[s] \in ReviewPcs
              /\ pc'[r] = "markStale" => ~Joined(s),
           outcome'[r] = "Reused" => pc'[r] = "done",
           pc'[r] \in {"checkRunning", "markStale"} => \A c, d \in held'[r] : c = d,
           pc'[r] \in {"checkRunning", "markStale", "reuse"} \/ outcome'[r] = "Reused" =>
             \A c \in held'[r] :
                 /\ c.id \in Nat /\ c.id < nextId /\ store[c.id].status # "Cancelled"
                 /\ \A s \in Request : act[s] = c.id => s # r /\ pc[s] \notin AdmissionPcs
    PROVE  Serial'
  <1>1. PICK x \in Nat : x = act'[r]
    BY Basics
  <1>2. /\ ~Joined(r) /\ \A s \in Request \ {r} : Joined(s)' <=> Joined(s)
        /\ pc[r] = "slot" => act[r] # NoActivity /\ Looked(r)
    BY Basics DEF Joined, Admitted, ReviewPcs, AdmissionPcs, Looked, Inv2, Inv1, Placement, OwnPcs
  <1>3. \A a \in Activity \ {x} : Settled(a)' <=> Settled(a)
    BY <1>1, <1>2 DEF Settled
  <1>4. Clocked'
    BY DEF Serial, Clocked
  <1>5. Joined(r)' => Entering(r) /\ x = act[r] /\ act[r] # NoActivity
    BY <1>1, <1>2, Ways DEF AdmissionPcs
  <1>6. Looked(r)' =>
              \A a \in Activity \ {x} : Settled(a)' /\ Of(store'[a], r) =>
                 pc'[r] \in {"checkRunning", "markStale"} /\ \E c \in held'[r] : c.id = a
    BY <1>1, <1>3
  <1>7. x \in Activity /\ Settled(x)' =>
              /\ Of(store'[x], r)
              /\ \A a \in Activity \ {x} : Settled(a)' => ~Of(store'[a], r)
    <2>1. SUFFICES ASSUME x \in Activity, Settled(x)'
                   PROVE  /\ Of(store'[x], r)
                          /\ \A a \in Activity \ {x} : Settled(a)' => ~Of(store'[a], r)
      OBVIOUS
    <2>2. pc[r] \in AdmissionPcs /\ store[act[r]].status = "Queued" /\ act[r] # NoActivity
      BY <1>1, <2>1, Basics DEF Serial, Newest, Unnumbered, Labelled, LabelledAt
    <2>3. Joined(r)'
      BY <1>1, <1>2, <2>1, <2>2, Basics DEF Settled
    <2>4. Of(store[act[r]], r) /\ Looked(r) /\ pc[r] = "slot"
      BY <1>2, <2>3 DEF Serial, Labelled, LabelledAt, Prepared
    <2>5. \A a \in Activity \ {x} : Settled(a) => ~Of(store[a], r)
      BY <1>1, <2>4 DEF Serial, Single
    <2> QED
      BY <1>1, <1>3, <2>4, <2>5
  <1>8. \A s \in Request : \A c \in held'[r] : act'[s] = c.id =>
              /\ pc'[r] = "checkRunning" /\ Joined(s)' => pc'[s] \in ReviewPcs
              /\ pc'[r] = "markStale" => ~Joined(s)'
    <2>1. pc'[r] \in {"checkRunning", "markStale"} => ~Joined(r)'
      BY DEF Joined, Admitted, ReviewPcs
    <2> QED
      BY <1>2, <2>1
  <1>9. Unnumbered(r)' => x = NoActivity
    BY <1>1 DEF Serial, Newest
  <1>10. pc'[r] \in {"checkRunning", "markStale", "reuse"} \/ outcome'[r] = "Reused" =>
             \A c \in held'[r] :
                 /\ c.id \in Nat /\ c.id < nextId /\ store'[c.id].status # "Cancelled"
                 /\ \A s \in Request : act'[s] = c.id => pc'[s] \notin AdmissionPcs
    OBVIOUS
  <1> QED
    BY <1>1, <1>2, <1>3, <1>4, <1>5, <1>6, <1>7, <1>8, <1>9, <1>10, AdmitKeeps

\* The others while one is admitted: those that wait or run have active records.
LEMMA Others ==
    ASSUME Inv2, Serial, NEW r \in Request, pc[r] \in AdmissionPcs
    PROVE  \A s \in Request \ {r} :
              /\ ~Entering(s) /\ pc[s] \notin AdmissionPcs
              /\ Joined(s) => /\ act[s] \in Activity /\ act[s] # act[r]
                              /\ IsActive(store[act[s]]) /\ store[act[s]].pr = req[s].pr
  <1>1. \A s \in Request \ {r} : ~Entering(s) /\ pc[s] \notin AdmissionPcs
    BY Ways DEF Serial, Alone
  <1>2. \A s \in Request \ {r} : Joined(s) => act[s] \in Activity /\ act[s] # act[r]
    BY Ways, Basics
  <1>3. \A s \in Request : Joined(s) => IsActive(store[act[s]]) /\ store[act[s]].pr = req[s].pr
    BY DEF Serial, Labelled, LabelledAt, Of
  <1> QED
    BY <1>1, <1>2, <1>3

\* What is settled is active.
LEMMA SettledActive ==
    ASSUME Inv2, Serial, NEW a \in Activity, Settled(a)
    PROVE  IsActive(store[a])
  BY DEF Serial, Labelled, LabelledAt, Settled, IsActive

\* A new request keeps the invariant, because no other call is under way.
LEMMA SubmitKeeps ==
    ASSUME Inv2, Serial, CalmCalls, NEW r \in Request, Submit(r)
    PROVE  Serial'
  <1>1. /\ pc[r] = "idle" /\ pc'[r] \in {"lookup", "create"}
        /\ pc'[r] = "lookup" => ~Remote(r)
        /\ UNCHANGED <<store, act, nextId, created, now, req, foreign, held, outcome, samePr>>
        /\ \A s \in Request \ {r} : pc'[s] = pc[s]
    <2>1. ~req[r].force
      BY DEF CalmCalls, Inv2, Inv1, TypeOK
    <2> QED
      BY <2>1 DEF Submit, Goto, Entry, Remote, Inv2, Inv1, TypeOK
  <1>2. \A s \in Request \ {r} : ~Entering(s)
    BY DEF Submit, CalmCalls, Admitting, Entering
  <1>3. act[r] = NoActivity
    BY <1>1 DEF Serial, Newest, Unnumbered
  <1>4. LabelledAt(r)' /\ (Unnumbered(r)' => Unnumbered(r))
    BY <1>1, <1>3 DEF LabelledAt, Unnumbered, Joined, Admitted, Prepared, Remote, ReviewPcs
  <1>5. ~Joined(r)' /\ ~Past(r)' /\ outcome[r] # "Reused"
    BY <1>1 DEF Joined, Admitted, Past, ReviewPcs, Serial, Firm
  <1>6. pc'[r] = "create" => Remote(r)
    <2>1. req[r] \in Call /\ req[r].kind # "poll"
      BY CallsTyped DEF CalmCalls, Inv2, Inv1, TypeOK
    <2> QED
      BY <1>1, <2>1 DEF Submit, Goto, Entry, Remote, Inv2, Inv1, TypeOK, Call, Kind
  <1>7. ~Checked(r)' /\ ~Looked(r)'
    BY <1>1, <1>6 DEF Checked, Looked, Remote
  <1> QED
    BY <1>1, <1>2, <1>4, <1>5, <1>7, LookKeeps

\* The first active review of the head, if it runs, is the only settled one, and
\* its thread, if there is one, is beyond its registration.
LEMMA LookupKeeps ==
    ASSUME Inv2, Serial, NEW r \in Request, Lookup(r)
    PROVE  Serial'
  <1>1. /\ pc[r] = "lookup" /\ pc'[r] \in {"samePr", "done", "reuse", "checkRunning"}
        /\ UNCHANGED <<store, act, nextId, created, now, req, foreign, samePr>>
        /\ \A s \in Request \ {r} : pc'[s] = pc[s] /\ held'[s] = held[s] /\ outcome'[s] = outcome[s]
        /\ outcome'[r] # outcome[r] => pc'[r] = "done"
    BY DEF Lookup, Reuse, Goto, Keep, Inv2, Inv1, TypeOK
  <1>2. /\ pc'[r] = "samePr" /\ ActiveForInput(r) = {} /\ held'[r] = {}
        \/ \E c \in ActiveForInput(r) : held'[r] = {c} /\ (pc'[r] = "checkRunning" => c.status = "Running")
                                        /\ pc'[r] # "samePr"
    BY DEF Lookup, Reuse, Goto, Keep, Inv2, Inv1, TypeOK
  <1>3. LabelledAt(r)' /\ (Unnumbered(r)' => Unnumbered(r))
    <2>1. LabelledAt(r)
      BY DEF Serial, Labelled
    <2> QED
      BY <1>1, <2>1 DEF LabelledAt, Unnumbered, Joined, Admitted, Prepared, Remote, ReviewPcs, Of, AdmissionPcs
  <1>4. ~Joined(r)' /\ ~Past(r)' /\ ~Checked(r)' /\ outcome[r] # "Reused"
    BY <1>1 DEF Joined, Admitted, Past, Checked, ReviewPcs, Serial, Firm
  <1>5. \A c \in ActiveForInput(r) :
           /\ c.id \in Activity /\ c.id # act[r] /\ c = store[c.id] /\ IsActive(c) /\ Of(c, r)
    BY Basics DEF ActiveForInput, OtherActive, MatchesInput, MatchesTarget, Of
  <1>6. \A a \in Activity \ {act[r]} : Settled(a) /\ Of(store[a], r) => store[a] \in ActiveForInput(r)
    BY SettledActive DEF ActiveForInput, OtherActive, MatchesInput, MatchesTarget, Of
  <1>7. ASSUME Looked(r)', NEW a \in Activity \ {act[r]}, Settled(a), Of(store[a], r)
        PROVE  pc'[r] = "checkRunning" /\ \E c \in held'[r] : c.id = a
    <2>1. pc'[r] \in {"samePr", "checkRunning"}
      BY <1>1, <1>7 DEF Looked
    <2>2. PICK c \in ActiveForInput(r) : held'[r] = {c} /\ pc'[r] = "checkRunning" /\ c.status = "Running"
      BY <1>2, <1>6, <1>7, <2>1
    <2>3. Settled(c.id) /\ store[c.id].pr = store[a].pr /\ store[c.id].head = store[a].head
      BY <1>5, <1>7, <2>2 DEF Settled, Of
    <2>4. c.id = a
      BY <1>5, <1>7, <2>2, <2>3 DEF Serial, Single
    <2> QED
      BY <2>2, <2>4
  <1>8. ASSUME NEW s \in Request, NEW c \in held'[r], act[s] = c.id, pc'[r] = "checkRunning", Joined(s)
        PROVE  pc[s] \in ReviewPcs
    <2>1. c \in ActiveForInput(r) /\ c.status = "Running"
      BY <1>2, <1>8
    <2>2. s # r /\ store[act[s]].status = "Running"
      BY <1>5, <1>8, <2>1
    <2>3. ~Prepared(s) /\ ~Entering(s) /\ pc[s] # "markRunning"
      BY <1>1, <2>2, Others DEF Serial, Labelled, LabelledAt, AdmissionPcs
    <2> QED
      BY <1>8, <2>2, <2>3 DEF Joined, Admitted, Prepared, Entering, AdmissionPcs
  <1>9. \A c \in held'[r] :
           /\ c.id \in Nat /\ c.id < nextId /\ store[c.id].status # "Cancelled"
           /\ \A s \in Request : act[s] = c.id => s # r /\ pc[s] \notin AdmissionPcs
    <2>1. SUFFICES ASSUME NEW c \in ActiveForInput(r)
                   PROVE  /\ c.id \in Nat /\ c.id < nextId /\ store[c.id].status # "Cancelled"
                          /\ \A s \in Request : act[s] = c.id => s # r /\ pc[s] \notin AdmissionPcs
      BY <1>2
    <2>2. store[c.id].status \in {"Queued", "Running"} /\ c.id \in Activity
      BY <1>5 DEF IsActive
    <2>3. c.id < nextId /\ c.id \in Nat
      BY <2>2, Basics DEF Serial, Clocked
    <2> QED
      BY <1>1, <1>5, <2>2, <2>3, Others DEF AdmissionPcs
  <1>10. pc'[r] \in {"checkRunning", "markStale"} => \A c, d \in held'[r] : c = d
    BY <1>2
  <1>11. \A s \in Request \ {r} : ~Entering(s)
    BY <1>1, Others DEF AdmissionPcs
  <1>12. pc[r] \in AdmissionPcs \ {"markRunning"}
    BY <1>1 DEF AdmissionPcs
  <1> QED
    BY <1>1, <1>3, <1>4, <1>7, <1>8, <1>9, <1>10, <1>11, <1>12, LookKeeps

\* A record that is not in the running set has no thread beyond its registration.
LEMMA CheckRunningKeeps ==
    ASSUME Inv2, RunningSetExact, Serial, CalmCalls, NEW r \in Request, CheckRunning(r)
    PROVE  Serial'
  <1>1. /\ pc[r] = "checkRunning" /\ pc'[r] \in {"markStale", "done", "reuse"}
        /\ UNCHANGED <<store, act, nextId, created, now, req, foreign, samePr, held>>
        /\ \A s \in Request \ {r} : pc'[s] = pc[s] /\ outcome'[s] = outcome[s]
        /\ outcome'[r] # outcome[r] => pc'[r] = "done"
        /\ pc'[r] = "markStale" => \E c \in held[r] : c.id \notin running
    BY DEF CheckRunning, Reuse, Goto, Inv2, Inv1, TypeOK
  <1>2. LabelledAt(r)' /\ (Unnumbered(r)' => Unnumbered(r))
    <2>1. LabelledAt(r)
      BY DEF Serial, Labelled
    <2> QED
      BY <1>1, <2>1 DEF LabelledAt, Unnumbered, Joined, Admitted, Prepared, Remote, ReviewPcs, Of, AdmissionPcs
  <1>3. ~Joined(r)' /\ ~Past(r)' /\ ~Checked(r)' /\ outcome[r] # "Reused"
    BY <1>1 DEF Joined, Admitted, Past, Checked, ReviewPcs, Serial, Firm
  <1>4. \A c, d \in held[r] : c = d
    BY <1>1 DEF Serial, Firm
  <1>5. ASSUME Looked(r)', NEW a \in Activity \ {act[r]}, Settled(a), Of(store[a], r)
        PROVE  pc'[r] = "markStale" /\ \E c \in held'[r] : c.id = a
    <2>1. Looked(r) /\ pc'[r] = "markStale"
      BY <1>1, <1>5 DEF Looked
    <2> QED
      BY <1>1, <1>5, <2>1 DEF Serial, Single
  <1>6. ASSUME NEW s \in Request, NEW c \in held'[r], act[s] = c.id, pc'[r] = "markStale"
        PROVE  ~Joined(s)
    <2>1. c \in held[r] /\ c.id \notin running
      BY <1>1, <1>4, <1>6
    <2>2. Joined(s) => pc[s] \in ReviewPcs
      BY <1>1, <1>6, <2>1 DEF Serial, Dead
    <2>3. ~Polled(s)
      BY DEF CalmCalls, Polled, Inv2, Inv1, TypeOK
    <2> QED
      BY <1>6, <2>1, <2>2, <2>3 DEF RunningSetExact, RegisteredPcs
  <1>7. \A c \in held'[r] :
           /\ c.id \in Nat /\ c.id < nextId /\ store[c.id].status # "Cancelled"
           /\ \A s \in Request : act[s] = c.id => s # r /\ pc[s] \notin AdmissionPcs
    <2>1. \A c \in held[r] : c.id \in Nat
      BY Basics DEF Inv2, Inv1, TypeOK, Record
    <2> QED
      BY <1>1, <2>1 DEF Serial, Firm, AdmissionPcs
  <1>8. \A s \in Request \ {r} : ~Entering(s)
    BY <1>1, Others DEF AdmissionPcs
  <1>9. pc[r] \in AdmissionPcs \ {"markRunning"}
    BY <1>1 DEF AdmissionPcs
  <1> QED
    BY <1>1, <1>2, <1>3, <1>4, <1>5, <1>6, <1>7, <1>8, <1>9, LookKeeps

\* When no other of the pull request is active, none waits or runs.
LEMMA CheckSamePrKeeps ==
    ASSUME Inv2, Serial, NEW r \in Request, CheckSamePr(r)
    PROVE  Serial'
  <1>1. /\ pc[r] = "samePr" /\ pc'[r] = (IF Remote(r) THEN "slot" ELSE "create")
        /\ UNCHANGED <<store, act, nextId, created, now, req, foreign, held, outcome>>
        /\ \A s \in Request \ {r} : pc'[s] = pc[s] /\ samePr'[s] = samePr[s]
        /\ samePr'[r] = (ActiveForSamePr(r) # {})
    BY DEF CheckSamePr, Goto, Inv2, Inv1, TypeOK
  <1>2. Unnumbered(r)' => Unnumbered(r)
    BY <1>1 DEF Unnumbered, Remote
  <1>3. LabelledAt(r)'
    <2>1. LabelledAt(r)
      BY DEF Serial, Labelled
    <2>2. pc'[r] = "slot" => Prepared(r)
      BY <1>1 DEF Prepared
    <2>3. ~Joined(r)' /\ (Prepared(r)' => pc'[r] = "slot") /\ pc'[r] # "logSave" /\ pc[r] \in AdmissionPcs
      BY <1>1 DEF Joined, Admitted, Prepared, ReviewPcs, AdmissionPcs
    <2> QED
      BY <1>1, <2>1, <2>2, <2>3 DEF LabelledAt, Of
  <1>4. ~Joined(r)' /\ ~Past(r)' /\ outcome[r] # "Reused" /\ Looked(r)
    BY <1>1 DEF Joined, Admitted, Past, ReviewPcs, Serial, Firm, Looked
  <1>5. ~samePr'[r] => \A s \in Request \ {r} : Joined(s) => req[s].pr # req[r].pr
    <2>1. SUFFICES ASSUME NEW s \in Request \ {r}, Joined(s), req[s].pr = req[r].pr
                   PROVE  store[act[s]] \in ActiveForSamePr(r)
      BY <1>1
    <2>2. act[s] \in Activity \ {act[r]} /\ IsActive(store[act[s]]) /\ store[act[s]].pr = req[s].pr
      BY <1>1, <2>1, Others DEF AdmissionPcs
    <2> QED
      BY <2>1, <2>2 DEF ActiveForSamePr, OtherActive, MatchesTarget
  <1>6. \A a \in Activity \ {act[r]} : Settled(a) => ~Of(store[a], r)
    BY <1>1, <1>4 DEF Serial, Single
  <1>7. \A s \in Request \ {r} : ~Entering(s)
    BY <1>1, Others DEF AdmissionPcs
  <1>8. pc[r] \in AdmissionPcs \ {"markRunning"} /\ pc'[r] \in {"slot", "create"}
    BY <1>1 DEF AdmissionPcs
  <1> QED
    BY <1>1, <1>2, <1>3, <1>4, <1>5, <1>6, <1>7, <1>8, LookKeeps

\* A request that goes past the wait at once is the only one of its pull request.
LEMMA TrySlotKeeps ==
    ASSUME Inv2, Serial, NEW r \in Request, TrySlot(r)
    PROVE  Serial'
  <1>1. /\ pc[r] = "slot" /\ pc'[r] \in {"markRunning", "waitPrior"}
        /\ UNCHANGED <<store, act, nextId, created, now, req, foreign, held, outcome, samePr>>
        /\ \A s \in Request \ {r} : pc'[s] = pc[s]
        /\ pc'[r] = "markRunning" => ~samePr[r]
    BY DEF TrySlot, Goto, Inv2, Inv1, TypeOK
  <1>2. ~Unnumbered(r)' /\ ~Looked(r)' /\ ~Checked(r)' /\ (Past(r)' => pc'[r] = "markRunning")
    BY <1>1 DEF Unnumbered, Looked, Checked, Past
  <1>3. LabelledAt(r)'
    <2>1. LabelledAt(r) /\ Prepared(r)
      BY <1>1 DEF Serial, Labelled, Prepared
    <2> QED
      BY <1>1, <2>1 DEF LabelledAt, Of, IsActive
  <1>4. Checked(r) /\ outcome[r] # "Reused"
    BY <1>1 DEF Checked, Serial, Firm
  <1>5. Past(r)' => \A s \in Request \ {r} : Joined(s) => req[s].pr # req[r].pr
    BY <1>1, <1>2, <1>4 DEF Serial, Behind
  <1>6. \A s \in Request \ {r} : ~Entering(s)
    BY <1>1, Others DEF AdmissionPcs
  <1>7. pc[r] \in AdmissionPcs \ {"markRunning"}
    BY <1>1 DEF AdmissionPcs
  <1> QED
    BY <1>1, <1>2, <1>3, <1>4, <1>5, <1>6, <1>7, LookKeeps

\* An error of the store during the admission.
LEMMA AdmissionErrorKeeps ==
    ASSUME Inv2, Serial, NEW r \in Request, StoreError(r), pc[r] \in AdmissionPcs \ {"markRunning"}
    PROVE  Serial'
  <1>1. /\ pc'[r] = "done" /\ outcome'[r] = "Error" /\ held'[r] = {}
        /\ UNCHANGED <<store, act, nextId, created, now, req, foreign, samePr>>
        /\ \A s \in Request \ {r} : pc'[s] = pc[s] /\ held'[s] = held[s] /\ outcome'[s] = outcome[s]
    BY DEF StoreError, Goto, Keep, ReviewPcs, AdmissionPcs, Inv2, Inv1, TypeOK
  <1>2. /\ ~Unnumbered(r)' /\ ~Looked(r)' /\ ~Checked(r)' /\ ~Past(r)' /\ ~Joined(r)' /\ ~Prepared(r)'
        /\ pc'[r] \notin AdmissionPcs
    BY <1>1 DEF Unnumbered, Looked, Checked, Past, Joined, Admitted, Prepared, ReviewPcs, AdmissionPcs
  <1>3. LabelledAt(r)'
    BY <1>1, <1>2 DEF LabelledAt
  <1>4. \A s \in Request \ {r} : ~Entering(s)
    BY Others
  <1> QED
    BY <1>1, <1>2, <1>3, <1>4, LookKeeps

-----------------------------------------------------------------------------
(* The steps of the admission that write a record                          *)

\* The activity of the request itself is labelled, or ends before it waits.
LEMMA OwnWriteKeeps ==
    ASSUME Inv2, Serial, CalmCalls, NEW r \in Request,
           Label(r) \/ Prepare(r) \/ PrepareFails(r) \/ MarkReused(r)
    PROVE  Serial'
  <1>0. /\ ~Polled(r) /\ act[r] \in Activity /\ pc[r] \in {"label", "prepare", "reuse"}
        /\ pc[r] \in {"prepare", "reuse"} => Remote(r)
    <2>1. ~Polled(r)
      BY DEF CalmCalls, Polled, Inv2, Inv1, TypeOK
    <2>2. pc[r] \in {"label", "prepare", "reuse"}
      BY DEF Label, Prepare, PrepareFails, MarkReused
    <2> QED
      BY <2>1, <2>2 DEF Inv2, Inv1, TypeOK, Placement, OwnPcs
  <1>1. /\ UNCHANGED <<act, nextId, created, now, req, foreign, samePr, held>>
        /\ \A s \in Request \ {r} : pc'[s] = pc[s] /\ outcome'[s] = outcome[s]
        /\ outcome'[r] = "Reused" => outcome[r] = "Reused" \/ (pc[r] = "reuse" /\ pc'[r] = "done")
        /\ pc'[r] \in {"prepare", "slot", "lookup", "done"}
    <2>1. ~req[r].force
      BY DEF CalmCalls, Inv2, Inv1, TypeOK
    <2> QED
      BY <1>0, <2>1 DEF Label, Prepare, PrepareFails, MarkReused, Entry, Goto, Inv2, Inv1, TypeOK
  <1>2. /\ \A a \in Activity \ {act[r]} : store'[a] = store[a]
        /\ store'[act[r]].status \in {"Queued", "Error", "Cancelled"}
        /\ pc'[r] # "done" => store'[act[r]].status = "Queued"
        /\ pc'[r] \in {"slot", "lookup"} => Of(store'[act[r]], r)
    <2>0. ASSUME NEW st \in Status, NEW e
          PROVE  LET c == Headless(Mine(r, st, e)) IN c.id = act[r] /\ c.status = st
      BY DEF Headless, Mine
    <2>1. CASE Label(r)
      <3>1. CASE Remote(r) /\ Save(Headless(Mine(r, "Queued", "none"))) /\ pc'[r] = "prepare"
        BY <1>0, <2>0, <3>1, Saved DEF Status
      <3>2. CASE ~Remote(r) /\ Save(Mine(r, "Queued", "none")) /\ pc'[r] = "slot"
        BY <1>0, <3>2, Saved, MineLabels
      <3> QED
        BY <1>0, <2>1, <3>1, <3>2 DEF Label, Goto, Inv2, Inv1, TypeOK
    <2>2. CASE Prepare(r)
      BY <1>0, <2>2, Saved, MineLabels DEF Prepare
    <2>3. CASE PrepareFails(r)
      <3>1. pc'[r] = "done"
        BY <2>3 DEF PrepareFails, Goto, Inv2, Inv1, TypeOK
      <3> QED
        BY <1>0, <2>0, <2>3, <3>1, Saved DEF PrepareFails, Status
    <2>4. CASE MarkReused(r)
      <3>1. pc'[r] = "done"
        BY <2>4 DEF MarkReused, Goto, Inv2, Inv1, TypeOK
      <3> QED
        BY <1>0, <2>4, <3>1, Saved, MineLabels DEF MarkReused
    <2> QED
      BY <2>1, <2>2, <2>3, <2>4
  <1>3. /\ ~Joined(r) /\ ~Joined(r)' /\ ~Past(r)' /\ pc'[r] # "logSave"
        /\ \A s \in Request \ {r} : Joined(s)' <=> Joined(s)
        /\ Looked(r)' \/ Checked(r)' => pc'[r] = "slot"
        /\ Prepared(r)' => pc'[r] \in {"slot", "lookup"}
        /\ ~Unnumbered(r)'
        /\ pc[r] \in AdmissionPcs \ {"markRunning"} /\ pc[r] # "done"
    <2>1. pc'[r] = "lookup" => Remote(r)
      BY <1>0 DEF Label, Prepare, PrepareFails, MarkReused, Goto, Inv2, Inv1, TypeOK
    <2> QED
      BY <1>0, <1>1, <2>1 DEF Joined, Admitted, Past, ReviewPcs, Looked, Checked, Prepared, Unnumbered, Remote, AdmissionPcs
  <1>4. pc'[r] = "slot" => Looked(r) /\ Checked(r)
    <2>1. pc'[r] = "slot" => pc[r] = "label" /\ ~Remote(r)
      BY <1>0 DEF Label, Prepare, PrepareFails, MarkReused, Goto, Entry, Inv2, Inv1, TypeOK
    <2> QED
      BY <2>1 DEF Looked, Checked
  <1>5. LabelledAt(r)'
    <2>1. pc'[r] \in AdmissionPcs => pc'[r] # "done"
      BY DEF AdmissionPcs
    <2> QED
      BY <1>1, <1>2, <1>3, <2>1 DEF LabelledAt, Of
  <1>6. PICK x \in Nat : x = act'[r]
    BY <1>1, Basics
  <1>7. x = act[r] /\ ~Settled(x)' /\ \A a \in Activity \ {x} : Settled(a)' <=> Settled(a)
    <2>1. x = act[r]
      BY <1>1, <1>6
    <2>2. \A s \in Request \ {r} : act[s] # act[r]
      BY <1>0, Basics
    <2>3. ~Settled(x)'
      BY <1>1, <1>2, <1>3, <2>1, <2>2 DEF Settled
    <2> QED
      BY <1>1, <1>2, <1>3, <2>1, <2>3 DEF Settled
  <1>8. Clocked'
    BY <1>0, <1>1, <1>2, Basics DEF Serial, Clocked
  <1>9. \A s \in Request \ {r} : /\ ~Entering(s) /\ pc[s] \notin AdmissionPcs
                                 /\ Joined(s) => store'[act[s]] = store[act[s]]
    BY <1>2, <1>3, Others
  <1>10. pc'[r] = "slot" =>
            /\ \A a \in Activity \ {act[r]} : Settled(a) => ~Of(store[a], r)
            /\ samePr[r] \/ \A s \in Request \ {r} : Joined(s) => req[s].pr # req[r].pr
    <2>1. pc'[r] = "slot" => pc[r] \notin {"checkRunning", "markStale"}
      BY <1>0
    <2> QED
      BY <1>4, <2>1 DEF Serial, Single, Behind
  <1>11. outcome'[r] = "Reused" => pc'[r] = "done" /\ pc[r] = "reuse"
    BY <1>1, <1>3 DEF Serial, Firm
  <1>12. outcome'[r] = "Reused" => \A c \in held'[r] :
            /\ c.id \in Nat /\ c.id < nextId /\ store'[c.id].status # "Cancelled"
            /\ \A s \in Request : act'[s] = c.id => pc'[s] \notin AdmissionPcs
    <2>1. \A c \in held[r] : c.id \in Activity /\ c.id \in Nat
      BY Basics DEF Inv2, Inv1, TypeOK, Record
    <2>2. outcome'[r] = "Reused" => \A c \in held[r] :
            /\ c.id < nextId /\ store[c.id].status # "Cancelled"
            /\ \A s \in Request : act[s] = c.id => pc[s] \notin AdmissionPcs
      BY <1>11 DEF Serial, Firm
    <2>3. outcome'[r] = "Reused" => \A c \in held[r] : c.id # act[r]
      BY <1>3, <2>2
    <2> QED
      BY <1>1, <1>2, <1>9, <2>1, <2>2, <2>3
  <1> QED
    BY <1>1, <1>2, <1>3, <1>5, <1>6, <1>7, <1>8, <1>9, <1>10, <1>11, <1>12, AdmitKeeps

\* The record taken for stale has no thread, and was the only one of its head.
LEMMA MarkStaleKeeps ==
    ASSUME Inv2, Serial, NEW r \in Request, MarkStale(r)
    PROVE  Serial'
  <1>1. /\ pc[r] = "markStale" /\ pc'[r] = "samePr" /\ held'[r] = {}
        /\ UNCHANGED <<act, nextId, created, now, req, foreign, samePr, outcome>>
        /\ \A s \in Request \ {r} : pc'[s] = pc[s] /\ held'[s] = held[s]
    BY DEF MarkStale, Goto, Keep, Inv2, Inv1, TypeOK
  <1>2. PICK c \in held[r] : Save(Failed(c, "stale"))
    BY DEF MarkStale
  <1>3. /\ c.id \in Activity /\ c.id < nextId
        /\ \A d \in held[r] : c = d
        /\ \A s \in Request : act[s] = c.id => pc[s] \notin AdmissionPcs /\ ~Joined(s)
    <2>1. c.id \in Activity
      BY DEF Inv2, Inv1, TypeOK, Record
    <2> QED
      BY <1>1, <2>1 DEF Serial, Firm, Dead
  <1>4. store'[c.id].status = "Error" /\ \A a \in Activity \ {c.id} : store'[a] = store[a]
    <2>1. Failed(c, "stale").id = c.id /\ Failed(c, "stale").status = "Error"
      BY DEF Failed, Inv2, Inv1, TypeOK, Record
    <2> QED
      BY <1>2, <1>3, <2>1, Saved
  <1>5. /\ ~Joined(r) /\ ~Joined(r)' /\ ~Past(r)' /\ ~Checked(r)' /\ Looked(r) /\ outcome[r] # "Reused"
        /\ \A s \in Request \ {r} : Joined(s)' <=> Joined(s)
        /\ pc[r] \in AdmissionPcs \ {"markRunning"} /\ pc'[r] # "logSave"
        /\ Unnumbered(r)' => Unnumbered(r)
        /\ Prepared(r)' => Prepared(r)
    BY <1>1 DEF Joined, Admitted, Past, ReviewPcs, Looked, Checked, Prepared, Unnumbered, Remote, AdmissionPcs,
                Serial, Firm
  <1>6. c.id # act[r]
    BY <1>3, <1>5
  <1>7. LabelledAt(r)'
    <2>1. LabelledAt(r)
      BY DEF Serial, Labelled
    <2>2. act[r] \in Activity => store'[act[r]] = store[act[r]]
      BY <1>4, <1>6
    <2>3. Prepared(r)' => act[r] \in Activity
      BY <1>5, Ways
    <2>4. act[r] # NoActivity => act[r] \in Activity
      BY Basics
    <2> QED
      BY <1>1, <1>5, <2>1, <2>2, <2>3, <2>4 DEF LabelledAt, Of
  <1>8. PICK x \in Nat : x = act'[r] /\ x = act[r]
    BY <1>1, Basics
  <1>9. \A a \in Activity : Settled(a)' => Settled(a) /\ a # c.id
    BY <1>1, <1>3, <1>4, <1>5 DEF Settled
  <1>10. x \in Activity => ~Settled(x)'
    <2>1. x \in Activity => store[x].status = "Queued"
      BY <1>5, <1>8, Basics DEF Serial, Labelled, LabelledAt
    <2>2. x \in Activity => store'[x].status = "Queued"
      BY <1>4, <1>6, <1>8, <2>1
    <2>3. x \in Activity => \A s \in Request \ {r} : act[s] # x
      BY <1>8, Basics
    <2> QED
      BY <1>1, <1>5, <1>8, <2>2, <2>3 DEF Settled
  <1>11. \A a \in Activity \ {x} : Settled(a)' => ~Of(store'[a], r)
    <2>1. \A a \in Activity \ {x} : Settled(a) /\ Of(store[a], r) => a = c.id
      BY <1>3, <1>5, <1>8 DEF Serial, Single
    <2> QED
      BY <1>4, <1>9, <2>1
  <1>12. Clocked'
    <2>1. \A a \in Activity : a >= nextId => a # c.id
      BY <1>3, Basics
    <2> QED
      BY <1>1, <1>4, <2>1 DEF Serial, Clocked
  <1>13. \A s \in Request \ {r} : ~Entering(s) /\ (Joined(s) => store'[act[s]] = store[act[s]])
    BY <1>3, <1>4, <1>5, Others
  <1>14. Unnumbered(r)' => x = NoActivity
    BY <1>5, <1>8 DEF Serial, Newest
  <1> QED
    BY <1>1, <1>4, <1>5, <1>7, <1>8, <1>9, <1>10, <1>11, <1>12, <1>13, <1>14, AdmitKeeps

\* The new activity is later than all others, and of no pull request yet.
LEMMA CreateKeeps ==
    ASSUME Inv2, Serial, NEW r \in Request, Create(r)
    PROVE  Serial'
  <1>1. /\ pc[r] = "create" /\ pc'[r] = "label" /\ nextId \in Activity
        /\ UNCHANGED <<now, req, foreign, samePr, outcome, held>>
        /\ \A s \in Request \ {r} : pc'[s] = pc[s] /\ act'[s] = act[s]
        /\ act'[r] = nextId /\ nextId' = nextId + 1
        /\ created'[nextId] = now /\ \A a \in Activity \ {nextId} : created'[a] = created[a]
    BY DEF Create, Goto, Inv2, Inv1, TypeOK
  <1>2. store'[nextId].status = "Queued" /\ \A a \in Activity \ {nextId} : store'[a] = store[a]
    BY <1>1, Saved DEF Create
  <1>3. /\ ~Joined(r) /\ ~Joined(r)' /\ ~Past(r)' /\ outcome[r] # "Reused"
        /\ \A s \in Request \ {r} : Joined(s)' <=> Joined(s)
        /\ pc[r] \in AdmissionPcs \ {"markRunning"} /\ pc'[r] # "logSave"
        /\ ~Unnumbered(r)' /\ ~Prepared(r)'
        /\ Looked(r)' => Looked(r)
        /\ Checked(r)' => Checked(r)
    BY <1>1 DEF Joined, Admitted, Past, ReviewPcs, Looked, Checked, Prepared, Unnumbered, Remote, AdmissionPcs,
                Serial, Firm
  <1>4. act[r] = NoActivity /\ \A s \in Request \ {r} : act[s] # nextId
    <2>1. act[r] = NoActivity
      BY <1>1 DEF Serial, Newest, Unnumbered
    <2>2. \A s \in Request : act[s] # NoActivity => act[s] < nextId
      BY Basics
    <2> QED
      BY <2>1, <2>2, Basics
  <1>5. LabelledAt(r)'
    BY <1>1, <1>2, <1>3 DEF LabelledAt
  <1>6. PICK x \in Nat : x = act'[r] /\ x = nextId
    BY <1>1, Basics
  <1>7. ~Settled(x)' /\ \A a \in Activity \ {x} : Settled(a)' => Settled(a)
    <2>1. ~Settled(x)'
      BY <1>1, <1>2, <1>3, <1>4, <1>6 DEF Settled
    <2> QED
      BY <1>1, <1>2, <1>3, <1>6, <2>1 DEF Settled
  <1>8. Looked(r)' => \A a \in Activity \ {x} : Settled(a)' => ~Of(store'[a], r)
    <2>1. \A a \in Activity : a # act[r]
      BY <1>4, Basics
    <2>2. Looked(r)' => \A a \in Activity : Settled(a) => ~Of(store[a], r)
      BY <1>1, <1>3, <2>1 DEF Serial, Single
    <2> QED
      BY <1>2, <1>6, <1>7, <2>2
  <1>9. Clocked'
    <2>1. \A a, b \in Activity : a < b /\ b < nextId' => created'[a] <= created'[b]
      <3>1. \A a, b \in Activity : a < b /\ b < nextId => created'[a] <= created'[b]
        BY <1>1, Basics DEF Serial, Clocked
      <3>2. \A a \in Activity : a < nextId => created'[a] <= created'[nextId]
        BY <1>1, Basics DEF Serial, Clocked
      <3> QED
        BY <1>1, <3>1, <3>2, Basics
    <2>2. \A a \in Activity : a < nextId' => created'[a] <= now
      BY <1>1, Basics DEF Serial, Clocked
    <2>3. \A a \in Activity : a >= nextId' => store'[a].status = "Absent"
      BY <1>1, <1>2, Basics DEF Serial, Clocked
    <2> QED
      BY <1>1, <2>1, <2>2, <2>3 DEF Clocked
  <1>10. \A s \in Request \ {r} : ~Entering(s) /\ (Joined(s) => store'[act[s]] = store[act[s]])
    BY <1>2, <1>3, <1>4, Others
  <1>11. Checked(r)' /\ ~samePr'[r] => \A s \in Request \ {r} : Joined(s) => req[s].pr # req[r].pr
    BY <1>1, <1>3 DEF Serial, Behind
  <1>12. pc'[r] \notin {"idle", "cancelList", "cancel", "checkRunning", "markStale", "reuse"}
    BY <1>1
  <1> QED
    BY <1>1, <1>2, <1>3, <1>5, <1>6, <1>7, <1>8, <1>9, <1>10, <1>11, <1>12, AdmitKeeps

-----------------------------------------------------------------------------
(* The host, and the theorems                                              *)

\* After a restart nothing waits or runs.
LEMMA RestartKeeps ==
    ASSUME Inv2, Serial, Restart
    PROVE  Serial'
  <1>1. /\ UNCHANGED <<act, nextId, created, now, req, foreign, samePr, outcome>>
        /\ \A s \in Request : /\ pc'[s] \in {"idle", "done"} /\ held'[s] = {}
                              /\ pc'[s] = "idle" => pc[s] = "idle"
                              /\ pc[s] = "done" => pc'[s] = "done"
    BY DEF Restart
  <1>2. \A a \in Activity : /\ store'[a].status # "Running"
                            /\ store[a].status = "Absent" => store'[a].status = "Absent"
    <2>1. \A a \in Activity : Failed(store[a], "restarted").status = "Error"
      BY DEF Failed, Inv2, Inv1, TypeOK, Record
    <2> QED
      BY <2>1 DEF Restart, Recovered
  <1>3. \A s \in Request : /\ ~Joined(s)' /\ ~Entering(s)' /\ ~Past(s)' /\ ~Looked(s)' /\ ~Checked(s)'
                           /\ ~Prepared(s)' /\ (Unnumbered(s)' => Unnumbered(s))
                           /\ pc'[s] \notin AdmissionPcs \cup {"logSave"}
    BY <1>1 DEF Joined, Admitted, Entering, Past, Looked, Checked, Prepared, Unnumbered, AdmissionPcs, ReviewPcs
  <1>4. \A a \in Activity : ~Settled(a)'
    BY <1>2, <1>3 DEF Settled
  <1>5. Alone'
    BY <1>1, <1>3 DEF Serial, Alone
  <1>6. Clocked'
    BY <1>1, <1>2 DEF Serial, Clocked
  <1>7. Newest'
    BY <1>1, <1>3 DEF Serial, Newest
  <1>8. Labelled'
    <2>1. \A s \in Request : LabelledAt(s)'
      BY <1>3 DEF LabelledAt
    <2> QED
      BY <2>1 DEF Labelled
  <1>9. Behind' /\ Single'
    BY <1>3, <1>4 DEF Behind, Single
  <1>10. Dead' /\ Firm'
    BY <1>1 DEF Dead, Firm, Serial
  <1> QED
    BY <1>5, <1>6, <1>7, <1>8, <1>9, <1>10 DEF Serial

\* Only the order of creation looks at the clock.
LEMMA TickKeeps ==
    ASSUME Inv2, Serial, UNCHANGED <<disk, req, pc, local, foreign>> \/ Tick
    PROVE  Serial'
  <1>1. /\ UNCHANGED <<store, nextId, created, req, pc, act, samePr, held, outcome, foreign>>
        /\ now' = now \/ now' = now + 1
    BY DEF Tick
  <1>2. Clocked'
    BY <1>1, Basics DEF Serial, Clocked
  <1>3. Alone' /\ Newest' /\ Labelled'
    BY <1>1 DEF Serial, Alone, Newest, Labelled, LabelledAt, Entering, Unnumbered, Remote, Joined, Admitted,
                Prepared, IsActive, Of
  <1>4. Behind' /\ Dead' /\ Firm'
    BY <1>1 DEF Serial, Behind, Dead, Firm, Past, Joined, Admitted, Checked, Remote
  <1>5. Single'
    <2>1. \A a : Settled(a)' <=> Settled(a)
      BY <1>1 DEF Settled, Joined, Admitted
    <2>2. \A s \in Request : Looked(s)' <=> Looked(s)
      BY <1>1 DEF Looked, Remote
    <2> QED
      BY <1>1, <2>1, <2>2 DEF Serial, Single, Of
  <1> QED
    BY <1>2, <1>3, <1>4, <1>5 DEF Serial

\* Every step keeps the invariant.
LEMMA StepKeepsSerial ==
    ASSUME CalmCalls, IdsInOrder, Inv2, RunningSetExact, Serial, [Next]_vars
    PROVE  Serial'
  <1>1. ASSUME NEW r \in Request, Step(r)
        PROVE  Serial'
    <2>1. CASE Lookup(r) \/ CheckRunning(r)
      BY <2>1, LookupKeeps, CheckRunningKeeps
    <2>2. CASE CheckSamePr(r) \/ TrySlot(r)
      BY <2>2, CheckSamePrKeeps, TrySlotKeeps
    <2>3. CASE MarkStale(r) \/ Create(r)
      BY <2>3, MarkStaleKeeps, CreateKeeps
    <2>4. CASE Label(r) \/ Prepare(r) \/ PrepareFails(r) \/ MarkReused(r)
      BY <2>4, OwnWriteKeeps
    <2>5. CASE MarkRunning(r) \/ Register(r) \/ StartReview(r) \/ Relabel(r) \/ LogRead(r) \/ LogSave(r)
      BY <2>5, AdvanceKeeps
    <2>6. CASE Finish(r) \/ Unregister(r) \/ Release(r) \/ Sync(r)
      BY <2>6, LeaveKeeps
    <2>7. CASE WaitPrior(r) \/ Acquire(r) \/ Block(r)
      BY <2>7, WaitKeeps
    <2>8. ~CancelList(r) /\ ~Cancel(r)
      BY DEF CancelList, Cancel, Serial, Alone
    <2> QED
      BY <1>1, <2>1, <2>2, <2>3, <2>4, <2>5, <2>6, <2>7, <2>8 DEF Step, Admission, Execution
  <1>2. ASSUME NEW r \in Request, StoreError(r)
        PROVE  Serial'
    BY <1>2, ErrorKeeps, AdmissionErrorKeeps
  <1>3. ~ForeignList /\ ~ForeignSave
    BY DEF ForeignList, ForeignSave, CalmCalls, Serial, Alone, Inv2, Inv1, TypeOK
  <1>4. CASE Tick \/ Quiet \/ UNCHANGED vars
    BY <1>4, TickKeeps DEF Quiet, vars
  <1> QED
    BY <1>1, <1>2, <1>3, <1>4, SubmitKeeps, RestartKeeps DEF Next

\* For every number of requests, pull requests, heads and slots, and whatever
\* fails, reviews of calls that do not overlap, force or poll are serialised.
THEOREM AlwaysSerial ==
    ASSUME CalmCalls, IdsInOrder
    PROVE  Spec => []Serial
  <1>1. Init => Serial
    <2> SUFFICES ASSUME Init PROVE Serial
      OBVIOUS
    <2>1. \A r \in Request : /\ ~Joined(r) /\ ~Entering(r) /\ ~Past(r) /\ ~Looked(r) /\ ~Checked(r) /\ ~Prepared(r)
                             /\ pc[r] = "idle" /\ act[r] = NoActivity /\ outcome[r] = "none"
      BY DEF Init, Joined, Admitted, Entering, Past, Looked, Checked, Prepared, AdmissionPcs, ReviewPcs
    <2>2. \A a \in Activity : store[a].status = "Absent" /\ a >= nextId /\ ~(a < nextId)
      BY IdsPositive DEF Init, Activity
    <2>3. \A a \in Activity : ~Settled(a)
      BY <2>1, <2>2 DEF Settled
    <2>4. Alone /\ Clocked /\ Newest
      <3>1. \A a, b \in Activity : ~(b < nextId)
        BY <2>2
      <3> QED
        BY <2>1, <2>2, <3>1 DEF Alone, Clocked, Newest, Init
    <2>5. Labelled
      BY <2>1 DEF Labelled, LabelledAt, AdmissionPcs
    <2>6. Behind /\ Single /\ Dead /\ Firm
      BY <2>1, <2>3 DEF Behind, Single, Dead, Firm
    <2> QED
      BY <2>4, <2>5, <2>6 DEF Serial
  <1>2. Inv2 /\ RunningSetExact /\ Serial /\ [Next]_vars => Serial'
    BY StepKeepsSerial
  <1> QED
    BY <1>1, <1>2, OwnedInvariant, RunningSetAlwaysExact, PTL DEF Spec

\* A review that executes is past its wait.
LEMMA ExecutingIsPast ==
    ASSUME NEW r \in Request, Executing(r)
    PROVE  Joined(r) /\ Past(r)
  BY DEF Executing, Joined, Past, Admitted, ReviewPcs

\* Two reviews of one pull request would share a checkout: each of two that run
\* would be past its wait and earlier than the other.
THEOREM SerialReviews ==
    ASSUME CalmCalls, IdsInOrder
    PROVE  Spec => []SerialPerPr
  <1>1. Inv2 /\ Serial => SerialPerPr
    <2> SUFFICES ASSUME Inv2, Serial, NEW r \in Request, NEW s \in Request, r # s,
                        Executing(r), Executing(s), req[r].pr = req[s].pr
                 PROVE  FALSE
      BY DEF SerialPerPr
    <2>1. act[r] < act[s] /\ act[s] < act[r]
      BY ExecutingIsPast DEF Serial, Behind
    <2> QED
      BY <2>1, Basics
  <1> QED
    BY <1>1, AlwaysSerial, OwnedInvariant, PTL

\* One head of a pull request is reviewed by one admitted request: two would both
\* have settled it.
THEOREM HeadReviewedOnce ==
    ASSUME CalmCalls, IdsInOrder
    PROVE  Spec => []OneReviewPerHead
  <1>1. Inv2 /\ Serial => OneReviewPerHead
    <2> SUFFICES ASSUME Inv2, Serial, NEW r \in Request, NEW s \in Request, r # s,
                        Admitted(r), Admitted(s), req[r].pr = req[s].pr, req[r].head = req[s].head
                 PROVE  FALSE
      BY DEF OneReviewPerHead
    <2>1. Joined(r) /\ Joined(s)
      BY DEF Joined
    <2>2. act[r] \in Activity /\ act[s] \in Activity /\ act[r] # act[s]
      BY <2>1, Ways, Basics
    <2>3. Settled(act[r]) /\ Settled(act[s])
      BY <2>1 DEF Settled
    <2>4. Of(store[act[r]], r) /\ Of(store[act[s]], s)
      BY <2>1 DEF Serial, Labelled, LabelledAt
    <2> QED
      BY <2>2, <2>3, <2>4 DEF Serial, Single, Of
  <1> QED
    BY <1>1, AlwaysSerial, OwnedInvariant, PTL

\* Nobody is sent to an activity that gives way to another: only one that is
\* still being admitted gives way, and no one is sent to such a one.
THEOREM ReusedStands ==
    ASSUME CalmCalls, IdsInOrder
    PROVE  Spec => []ReusedReviewIsNotCancelled
  <1>1. Serial => ReusedReviewIsNotCancelled
    BY DEF Serial, Firm, ReusedReviewIsNotCancelled
  <1> QED
    BY <1>1, AlwaysSerial, PTL

\* A review that the queue declares stale has no thread in this host.
THEOREM StaleIsDead ==
    ASSUME CalmCalls, IdsInOrder
    PROVE  Spec => OnlyDeadReviewsAreStale
  <1>1. Serial => [\A r \in Request : pc[r] = "markStale" /\ pc'[r] = "samePr" =>
                     \A c \in held[r] : \A s \in Request : act[s] = c.id => ~Executing(s)]_vars
    BY ExecutingIsPast DEF Serial, Dead
  <1> QED
    BY <1>1, AlwaysSerial, PTL DEF OnlyDeadReviewsAreStale
=============================================================================

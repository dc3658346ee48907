-------------------------- MODULE HousekeepingProofs --------------------------
(***************************************************************************)
(* Theorems about Housekeeping for every bound: new ids are unused, and a  *)
(* failed review is enqueued again once.                                   *)
(***************************************************************************)
EXTENDS Housekeeping, TLAPS, WellFoundedInduction

-----------------------------------------------------------------------------
(* The largest id among the files                                          *)

\* A bounded set of naturals has a largest element, and Max is it.
LEMMA MaxOfBounded ==
    ASSUME NEW n \in Nat, NEW S \in SUBSET (0..n), S # {}
    PROVE  Max(S) \in S /\ \A y \in S : y <= Max(S)
  <1> DEFINE T == {n - x : x \in S}
             R == OpToRel(<, Nat)
  <1>1. T \subseteq Nat /\ T # {}
    <2>1. PICK x \in S : TRUE
      OBVIOUS
    <2>2. n - x \in T
      BY <2>1
    <2>3. T \subseteq Nat
      OBVIOUS
    <2> QED
      BY <2>2, <2>3
  <1>2. PICK t \in T : \A u \in T : ~(<<u, t>> \in R)
    <2> HIDE DEF R, T
    <2> QED
      BY <1>1, NatLessThanWellFounded, WFMin DEF R
  <1>3. \A u \in T : ~(u < t)
    BY <1>1, <1>2 DEF OpToRel
  <1>4. PICK x \in S : t = n - x
    BY <1>2
  <1>5. \A y \in S : x >= y
    BY <1>1, <1>3, <1>4
  <1> QED
    BY <1>5 DEF Max

-----------------------------------------------------------------------------
(* The inductive invariant                                                 *)

Thread == [review : 1..MaxReviews, activity : 1..MaxReviews, at : {"run", "completed", "sync"}]
ArtifactFile == [review : 1..MaxArtifacts, activity : 1..MaxReviews, synced : BOOLEAN]
ActivityFile == [review : 1..MaxReviews, status : Statuses, old : BOOLEAN,
                 resolved : 0..MaxReviews]
FailureCopy == [id : 1..MaxReviews,
                copy : {x \in ActivityFile : x.status = "Error" /\ x.resolved = 0}]

\* The copies a retry call holds: those it has not come to, and the one whose
\* new review it has enqueued and which it has still to mark.
Saving == retrying.at = "save"
Copies == retrying.left \cup (IF Saving THEN {retrying.of} ELSE {})

ActivitiesTyped == \A i \in DOMAIN activities : i \in 1..MaxReviews /\ activities[i] \in ActivityFile
ArtifactsTyped == \A a \in DOMAIN artifacts : a \in 1..MaxArtifacts /\ artifacts[a] \in ArtifactFile

\* TypeOK, the variables that it leaves out, and what bounds the ids.
Types ==
  /\ ActivitiesTyped /\ ArtifactsTyped /\ threads \subseteq Thread
  /\ pruning \subseteq 1..MaxReviews /\ half \in {0} \cup pruning
  /\ reset \in {"idle", "artifacts", "activities"}
  /\ markers \subseteq [artifact : 1..MaxArtifacts, finding : 1..MaxArtifacts]
  /\ nextId \in Nat /\ reviews \in Nat /\ nextId <= reviews /\ reviews <= MaxReviews
  /\ nextArtifactId \in Nat /\ findings \in Nat
  /\ nextArtifactId <= findings /\ findings <= MaxArtifacts
  /\ retried \in [1..MaxReviews -> Nat] /\ faults \in Nat
  /\ retrying.at \in {"idle", "next", "save"}
  /\ retrying.left \subseteq FailureCopy
  /\ retrying.at = "idle" => retrying.left = {}
  /\ Saving => retrying.of \in FailureCopy /\ retrying.new \in 1..MaxReviews
  /\ DOMAIN retrying = {"at", "left", "of", "new"}

\* No id is ahead of the counters, the copies' ids included.
FileIds == \A i \in DOMAIN activities : i <= nextId
ArtifactIds == \A a \in DOMAIN artifacts : a <= nextArtifactId
ThreadIds == \A t, u \in threads : t.activity <= nextId /\ (t.activity = u.activity => t = u)
CopyIds == \A f \in Copies : f.id <= nextId
Ids == FileIds /\ ArtifactIds /\ ThreadIds /\ CopyIds

\* A review has one activity, one thread or none, and at most one copy in a
\* retry call, which then has no thread: all of them agree on the activity.
OneFile == \A i, j \in DOMAIN activities : activities[i].review = activities[j].review => i = j
FileOfCopy == \A i \in DOMAIN activities, f \in Copies : activities[i].review = f.copy.review => i = f.id
OneCopy ==
  /\ \A f, g \in Copies : f.copy.review = g.copy.review => f = g
  /\ \A f \in retrying.left : Saving => f # retrying.of
FileOfThread == \A i \in DOMAIN activities, t \in threads :
  activities[i].review = t.review => i = t.activity /\ activities[i].status # "Error"
OneThread == \A t, u \in threads : t.review = u.review => t = u
ThreadOrCopy == \A t \in threads, f \in Copies : t.review # f.copy.review
OneActivityPerReview ==
  OneFile /\ FileOfCopy /\ OneCopy /\ FileOfThread /\ OneThread /\ ThreadOrCopy

\* Reviews that have not been started leave no trace.
FreshFiles == \A i \in DOMAIN activities : activities[i].review <= reviews
FreshThreads == \A t \in threads : t.review <= reviews
FreshCopies == \A f \in Copies : f.copy.review <= reviews
Fresh ==
  /\ FreshFiles /\ FreshThreads /\ FreshCopies
  /\ \A r \in 1..MaxReviews : r > reviews => retried[r] = 0

\* A review that may be retried again has been retried no more often than
\* there were faults: a file that is not marked, a review at work, a copy.
MayBeRetried(r) ==
  \/ \E i \in DOMAIN activities :
       /\ activities[i].review = r /\ activities[i].resolved = 0
       /\ activities[i].status # "Completed"
       /\ ~(Saving /\ retrying.of.copy.review = r)
  \/ \E t \in threads : t.review = r
  \/ \E f \in retrying.left : f.copy.review = r
Retries == \A r \in 1..MaxReviews :
  retried[r] <= 1 + faults /\ (MayBeRetried(r) => retried[r] <= faults)

IInv == Types /\ Ids /\ OneActivityPerReview /\ Fresh /\ Retries

USE DEF fileVars, idVars, pruneVars, countVars

-----------------------------------------------------------------------------
(* Files and threads                                                       *)

\* One activity is written, the others are as they were.
Written(k, v) ==
  /\ DOMAIN activities' = DOMAIN activities \cup {k}
  /\ activities'[k] = v
  /\ \A x \in DOMAIN activities : x # k => activities'[x] = activities[x]

\* A file written at an id is there with its contents, and the others are as they were.
LEMMA WrittenFile ==
    ASSUME NEW k, NEW v, activities' = Put(activities, k, v)
    PROVE  Written(k, v)
  BY DEF Put, Written

\* A thread that moves on keeps its review and its activity.
LEMMA MovedThread ==
    ASSUME Types, NEW t \in threads, NEW at \in {"completed", "sync"}, MoveTo(t, at)
    PROVE  \E m \in Thread :
             /\ m.review = t.review /\ m.activity = t.activity
             /\ threads' = (threads \ {t}) \cup {m}
  <1>1. t \in Thread
    BY DEF Types
  <1>2. [t EXCEPT !.at = at] \in Thread
    BY <1>1 DEF Thread
  <1>3. /\ [t EXCEPT !.at = at].review = t.review
        /\ [t EXCEPT !.at = at].activity = t.activity
    BY <1>1 DEF Thread
  <1> QED
    BY <1>2, <1>3 DEF MoveTo

\* What a thread leaves when it saves its activity: itself at its next step, or nothing.
LEMMA SavedThread ==
    ASSUME Types, NEW t \in threads, SaveActivity(t)
    PROVE  \E s \in {"Completed", "Error"}, v \in ActivityFile :
             /\ v.review = t.review /\ v.status = s /\ v.resolved = 0
             /\ Written(t.activity, v)
             /\ \/ /\ s = "Completed"
                   /\ \E m \in Thread : /\ m.review = t.review /\ m.activity = t.activity
                                        /\ threads' = (threads \ {t}) \cup {m}
                \/ s = "Error" /\ threads' = threads \ {t}
  <1> DEFINE v(s) == [review |-> t.review, status |-> s, old |-> FALSE, resolved |-> 0]
  <1>1. PICK s \in {"Completed", "Error"} :
          /\ activities' = Put(activities, t.activity, v(s))
          /\ IF s = "Completed" THEN MoveTo(t, "sync") ELSE threads' = threads \ {t}
    BY DEF SaveActivity
  <1>2. v(s) \in ActivityFile /\ v(s).review = t.review /\ v(s).status = s /\ v(s).resolved = 0
    BY BoundsOK DEF Types, Thread, ActivityFile, Statuses
  <1>3. Written(t.activity, v(s))
    BY <1>1, WrittenFile
  <1> HIDE DEF v
  <1>4. CASE s = "Completed"
    BY <1>1, <1>2, <1>3, <1>4, MovedThread
  <1>5. CASE s = "Error"
    BY <1>1, <1>2, <1>3, <1>5
  <1> QED
    BY <1>4, <1>5

\* Marking the copy of a failure: the file it is saved in.
LEMMA SavedCopy ==
    ASSUME Types, SaveResolved
    PROVE  \E v \in ActivityFile :
             /\ v.review = retrying.of.copy.review /\ v.status = "Error" /\ v.resolved # 0
             /\ Written(retrying.of.id, v)
  <1>1. retrying.of \in FailureCopy /\ retrying.new \in 1..MaxReviews
    BY DEF SaveResolved, Types, Saving
  <1> DEFINE v == [retrying.of.copy EXCEPT !.resolved = retrying.new]
  <1>2. v \in ActivityFile
    BY <1>1, BoundsOK DEF FailureCopy, ActivityFile
  <1>3. v.review = retrying.of.copy.review /\ v.status = "Error" /\ v.resolved # 0
    BY <1>1, BoundsOK DEF FailureCopy, ActivityFile
  <1>4. Written(retrying.of.id, v)
    BY WrittenFile DEF SaveResolved
  <1> QED
    BY <1>2, <1>3, <1>4

\* A review that starts: its activity and its thread are new.
LEMMA Created ==
    ASSUME Types, Create
    PROVE  \E v \in ActivityFile, t \in Thread :
             /\ v.review = reviews + 1 /\ v.status = "Running" /\ v.resolved = 0
             /\ t.review = reviews + 1 /\ t.activity = nextId + 1
             /\ Written(nextId + 1, v)
             /\ threads' = threads \cup {t}
             /\ nextId' = nextId + 1 /\ reviews' = reviews + 1 /\ reviews < MaxReviews
  <1> DEFINE v == [review |-> reviews + 1, status |-> "Running", old |-> FALSE, resolved |-> 0]
             t == [review |-> reviews + 1, activity |-> nextId + 1, at |-> "run"]
  <1>1. v \in ActivityFile /\ t \in Thread
    BY BoundsOK DEF Create, Types, ActivityFile, Thread, Statuses
  <1>2. Written(nextId + 1, v)
    BY WrittenFile DEF Create
  <1>3. v.review = reviews + 1 /\ v.status = "Running" /\ v.resolved = 0
    OBVIOUS
  <1>4. /\ t.review = reviews + 1 /\ t.activity = nextId + 1
        /\ threads' = threads \cup {t}
        /\ nextId' = nextId + 1 /\ reviews' = reviews + 1 /\ reviews < MaxReviews
    BY DEF Create
  <1> QED
    BY <1>1, <1>2, <1>3, <1>4

\* Files that are as they were, but for their age and an interruption.
SameFiles ==
  /\ DOMAIN activities' = DOMAIN activities
  /\ \A i \in DOMAIN activities : /\ activities'[i].review = activities[i].review
                                  /\ activities'[i].resolved = activities[i].resolved

\* A day changes nothing of an activity but its age.
LEMMA AgedFiles ==
    ASSUME Types, NEW i \in DOMAIN activities, Age(i)
    PROVE  SameFiles /\ \A j \in DOMAIN activities : activities'[j].status = activities[j].status
  <1>1. [activities[i] EXCEPT !.old = TRUE].review = activities[i].review
    BY DEF Types, ActivitiesTyped, ActivityFile
  <1>2. [activities[i] EXCEPT !.old = TRUE].status = activities[i].status
    BY DEF Types, ActivitiesTyped, ActivityFile
  <1>3. [activities[i] EXCEPT !.old = TRUE].resolved = activities[i].resolved
    BY DEF Types, ActivitiesTyped, ActivityFile
  <1>4. activities' = [activities EXCEPT ![i] = [activities[i] EXCEPT !.old = TRUE]]
    BY DEF Age
  <1> QED
    BY <1>1, <1>2, <1>3, <1>4 DEF SameFiles

\* No file is beyond the last id, and the last id is not beyond the counter.
LEMMA LastIds ==
    ASSUME Types, FileIds, ArtifactIds
    PROVE  /\ LastIdOf(activities) \in 0..nextId
           /\ \A i \in DOMAIN activities : i <= LastIdOf(activities)
           /\ LastIdOf(artifacts) \in 0..nextArtifactId
           /\ \A a \in DOMAIN artifacts : a <= LastIdOf(artifacts)
  <1>1. DOMAIN activities \subseteq 0..nextId /\ DOMAIN artifacts \subseteq 0..nextArtifactId
    BY BoundsOK DEF Types, FileIds, ArtifactIds, ActivitiesTyped, ArtifactsTyped
  <1>2. nextId \in Nat /\ nextArtifactId \in Nat /\ 0 \in 0..nextId /\ 0 \in 0..nextArtifactId
    BY DEF Types
  <1>3. DOMAIN activities # {} => /\ Max(DOMAIN activities) \in 0..nextId
                                  /\ \A i \in DOMAIN activities : i <= Max(DOMAIN activities)
    BY <1>1, <1>2, MaxOfBounded
  <1>4. DOMAIN artifacts # {} => /\ Max(DOMAIN artifacts) \in 0..nextArtifactId
                                 /\ \A a \in DOMAIN artifacts : a <= Max(DOMAIN artifacts)
    BY <1>1, <1>2, MaxOfBounded
  <1> QED
    BY <1>2, <1>3, <1>4, Zenon DEF LastIdOf

\* The start of the host: the files are those that were there, none of them is
\* at work, and nothing is left of threads and calls.
LEMMA Restarted ==
    ASSUME Types, FileIds, ArtifactIds, Restart
    PROVE  /\ SameFiles
           /\ \A i \in DOMAIN activities :
                activities'[i].status = "Completed" <=> activities[i].status = "Completed"
           /\ ActivitiesTyped'
           /\ threads' = {} /\ pruning' = {} /\ half' = 0 /\ retrying' = Idle /\ reset' = "idle"
           /\ UNCHANGED <<artifacts, markers, reviews, findings, retried>> /\ Fault
           /\ nextId' \in 0..nextId /\ \A i \in DOMAIN activities : i <= nextId'
           /\ nextArtifactId' \in 0..nextArtifactId
           /\ \A a \in DOMAIN artifacts : a <= nextArtifactId'
  <1>1. \A i \in DOMAIN activities :
          LET new == [activities[i] EXCEPT !.status = "Error", !.old = FALSE]
          IN  /\ new \in ActivityFile
              /\ new.review = activities[i].review /\ new.resolved = activities[i].resolved
              /\ new.status = "Error"
    BY DEF Types, ActivitiesTyped, ActivityFile, Statuses
  <1>2. activities' = [i \in DOMAIN activities |->
           IF activities[i].status = "Running" THEN [activities[i] EXCEPT !.status = "Error", !.old = FALSE]
           ELSE activities[i]]
    BY Zenon DEF Restart
  <1>3. /\ threads' = {} /\ pruning' = {} /\ half' = 0 /\ retrying' = Idle /\ reset' = "idle"
        /\ UNCHANGED <<artifacts, markers, reviews, findings, retried>> /\ Fault
        /\ nextId' = LastIdOf(activities) /\ nextArtifactId' = LastIdOf(artifacts)
    BY Zenon DEF Restart
  <1>4. /\ SameFiles /\ ActivitiesTyped'
        /\ \A i \in DOMAIN activities :
             activities'[i].status = "Completed" <=> activities[i].status = "Completed"
    BY <1>1, <1>2 DEF SameFiles, Types, ActivitiesTyped
  <1> QED
    BY <1>3, <1>4, LastIds

-----------------------------------------------------------------------------
(* Types                                                                   *)

\* The types are those that TypeOK states.
LEMMA TypesHold == Types => TypeOK
  BY DEF Types, TypeOK, ActivitiesTyped, ArtifactsTyped, ActivityFile, ArtifactFile, Thread

\* Each step keeps the types.
LEMMA TypesKept ==
    ASSUME Types, Ids, [Next]_vars
    PROVE  Types'
  <1> USE BoundsOK DEF Types, Saving
  <1>1. CASE Start
    <2>1. PICK v \in ActivityFile, t \in Thread :
            /\ Written(nextId + 1, v)
            /\ threads' = threads \cup {t}
            /\ nextId' = nextId + 1 /\ reviews' = reviews + 1 /\ reviews < MaxReviews
      BY <1>1, Created DEF Start
    <2>2. ActivitiesTyped'
      BY <2>1 DEF Written, ActivitiesTyped
    <2>3. ArtifactsTyped' /\ (threads \subseteq Thread)'
      BY <1>1, <2>1 DEF Start, ArtifactsTyped
    <2> QED
      BY <1>1, <2>1, <2>2, <2>3 DEF Start
  <1>2. CASE \E t \in threads : SaveArtifact(t)
    <2>1. PICK t \in threads : SaveArtifact(t)
      BY <1>2
    <2>2. threads' \subseteq Thread
      BY <2>1, MovedThread DEF SaveArtifact
    <2>3. [review |-> findings + 1, activity |-> t.activity, synced |-> FALSE] \in ArtifactFile
      BY <2>1 DEF SaveArtifact, ArtifactFile, Thread
    <2>4. ArtifactsTyped'
      BY <2>1, <2>3 DEF Put, SaveArtifact, ArtifactsTyped
    <2>5. ActivitiesTyped'
      BY <2>1 DEF SaveArtifact, ActivitiesTyped
    <2> QED
      BY <2>1, <2>2, <2>4, <2>5 DEF SaveArtifact
  <1>3. CASE \E t \in threads : SaveActivity(t)
    <2>1. PICK t \in threads : SaveActivity(t)
      BY <1>3
    <2>2. PICK s \in {"Completed", "Error"}, v \in ActivityFile :
            /\ Written(t.activity, v)
            /\ \/ \E m \in Thread : threads' = (threads \ {t}) \cup {m}
               \/ threads' = threads \ {t}
      BY <2>1, SavedThread
    <2>4. t.activity \in 1..MaxReviews
      BY DEF Thread
    <2>5. ActivitiesTyped' /\ threads' \subseteq Thread
      BY <2>2, <2>4 DEF Written, ActivitiesTyped
    <2>3. ArtifactsTyped'
      BY <2>1 DEF SaveActivity, ArtifactsTyped
    <2> QED
      BY <2>1, <2>3, <2>5 DEF SaveActivity
  <1>4. CASE \E t \in threads : Sync(t)
    <2>1. PICK t \in threads : Sync(t)
      BY <1>4
    <2> DEFINE mine == {a \in DOMAIN artifacts : artifacts[a].activity = t.activity /\ ~artifacts[a].synced}
    <2>2. \A a \in DOMAIN artifacts : [artifacts[a] EXCEPT !.synced = TRUE] \in ArtifactFile
      BY DEF ArtifactsTyped, ArtifactFile
    <2>3. ArtifactsTyped'
      BY <2>1, <2>2 DEF Sync, ArtifactsTyped
    <2>4. (markers \subseteq [artifact : 1..MaxArtifacts, finding : 1..MaxArtifacts])'
      BY <2>1 DEF Sync, ArtifactsTyped, ArtifactFile
    <2>5. ActivitiesTyped' /\ threads' \subseteq Thread
      BY <2>1 DEF Sync, ActivitiesTyped
    <2> QED
      BY <2>1, <2>3, <2>4, <2>5 DEF Sync
  <1>5. CASE \E i \in DOMAIN activities : Age(i)
    <2>1. PICK i \in DOMAIN activities : Age(i)
      BY <1>5
    <2>2. [activities[i] EXCEPT !.old = TRUE] \in ActivityFile
      BY DEF ActivitiesTyped, ActivityFile
    <2>3. ActivitiesTyped'
      BY <2>1, <2>2 DEF Age, ActivitiesTyped
    <2> QED
      BY <2>1, <2>3 DEF Age, ArtifactsTyped
  <1>6. CASE Prune
    <2>1. CASE ListOld
      BY <2>1 DEF ListOld, OldActivities, ActivitiesTyped, ArtifactsTyped
    <2>2. CASE \E i \in pruning : DeleteActivity(i)
      BY <2>2 DEF DeleteActivity, Drop, ActivitiesTyped, ArtifactsTyped
    <2>3. CASE DeleteArtifacts
      BY <2>3 DEF DeleteArtifacts, Drop, ActivitiesTyped, ArtifactsTyped
    <2> QED
      BY <1>6, <2>1, <2>2, <2>3 DEF Prune
  <1>15. CASE PruneFails
    BY <1>15 DEF PruneFails, Fault, ActivitiesTyped, ArtifactsTyped
  <1>7. CASE ListFailures
    <2>1. {[id |-> i, copy |-> activities[i]] : i \in Failures} \subseteq FailureCopy
      BY DEF Failures, FailureCopy, ActivitiesTyped, ActivityFile
    <2> QED
      BY <1>7, <2>1 DEF ListFailures, Idle, ActivitiesTyped, ArtifactsTyped
  <1>8. CASE EndRetry
    BY <1>8 DEF EndRetry, Idle, ActivitiesTyped, ArtifactsTyped
  <1>16. CASE RetryFails
    BY <1>16 DEF RetryFails, Fault, Idle, ActivitiesTyped, ArtifactsTyped
  <1>9. CASE SaveResolved
    <2>1. retrying.of \in FailureCopy
      BY <1>9 DEF SaveResolved
    <2>2. ActivitiesTyped'
      BY <1>9, <2>1, SavedCopy DEF Written, ActivitiesTyped, FailureCopy
    <2> QED
      BY <1>9, <2>2 DEF SaveResolved, Idle, ArtifactsTyped
  <1>10. CASE \E f \in retrying.left : SkipFailure(f)
    <2>1. PICK f \in retrying.left : SkipFailure(f)
      BY <1>10
    <2>2. /\ retrying'.at = "next" /\ retrying'.left \subseteq FailureCopy
          /\ DOMAIN retrying' = {"at", "left", "of", "new"} /\ faults' \in Nat
      BY <2>1 DEF SkipFailure, Fault
    <2> QED
      BY <2>1, <2>2 DEF SkipFailure, ActivitiesTyped, ArtifactsTyped
  <1>11. CASE \E f \in retrying.left : RetryFailure(f)
    <2>1. PICK f \in retrying.left : RetryFailure(f)
      BY <1>11
    <2>2. PICK v \in ActivityFile, t \in Thread :
            /\ Written(nextId + 1, v)
            /\ threads' = threads \cup {t}
            /\ nextId' = nextId + 1 /\ reviews' = reviews + 1 /\ reviews < MaxReviews
      BY <2>1, Created DEF RetryFailure
    <2>3. ActivitiesTyped' /\ ArtifactsTyped'
      BY <2>1, <2>2 DEF Written, RetryFailure, ActivitiesTyped, ArtifactsTyped
    <2>4. f.copy.review \in 1..MaxReviews
      BY DEF FailureCopy, ActivityFile
    <2>5. retried' \in [1..MaxReviews -> Nat]
      BY <2>1, <2>4 DEF RetryFailure
    <2>6. /\ retrying'.at = "save" /\ retrying'.left \subseteq FailureCopy
          /\ retrying'.of \in FailureCopy /\ retrying'.new \in 1..MaxReviews
          /\ DOMAIN retrying' = {"at", "left", "of", "new"}
      BY <2>1, <2>2 DEF RetryFailure
    <2> QED
      BY <2>1, <2>2, <2>3, <2>5, <2>6 DEF RetryFailure
  <1>12. CASE ResetStarts
    BY <1>12 DEF ResetStarts, ActivitiesTyped, ArtifactsTyped
  <1>17. CASE ClearArtifacts
    BY <1>17 DEF ClearArtifacts, ActivitiesTyped, ArtifactsTyped
  <1>18. CASE ClearActivities
    BY <1>18 DEF ClearActivities, ActivitiesTyped, ArtifactsTyped
  <1>13. CASE Restart
    <2>1. /\ ActivitiesTyped'
          /\ threads' = {} /\ pruning' = {} /\ half' = 0 /\ retrying' = Idle /\ reset' = "idle"
          /\ UNCHANGED <<artifacts, markers, reviews, findings, retried>> /\ Fault
          /\ nextId' \in 0..nextId /\ nextArtifactId' \in 0..nextArtifactId
      BY <1>13, Restarted DEF Ids
    <2> QED
      BY <2>1 DEF Fault, Idle, ArtifactsTyped
  <1>14. CASE UNCHANGED vars
    BY <1>14 DEF vars, ActivitiesTyped, ArtifactsTyped
  <1> QED
    BY <1>1, <1>2, <1>3, <1>4, <1>5, <1>6, <1>7, <1>8, <1>9, <1>10, <1>11, <1>12, <1>13, <1>14,
       <1>15, <1>16, <1>17, <1>18 DEF Next

-----------------------------------------------------------------------------
(* What a step of a review, or of a retry call, keeps                       *)

\* What the types say of the elements.
LEMMA Elements ==
    ASSUME Types
    PROVE  /\ \A i \in DOMAIN activities : /\ i \in 1..MaxReviews /\ activities[i] \in ActivityFile
                                           /\ activities[i].review \in 1..MaxReviews
           /\ \A t \in threads : t \in Thread /\ t.review \in 1..MaxReviews /\ t.activity \in 1..MaxReviews
           /\ \A f \in Copies : /\ f.id \in 1..MaxReviews /\ f.copy.review \in 1..MaxReviews
                                /\ f.copy.status = "Error" /\ f.copy.resolved = 0
           /\ nextId \in Nat /\ reviews \in Nat /\ MaxReviews \in Nat
  <1>1. Copies \subseteq FailureCopy
    BY DEF Copies, Types
  <1> QED
    BY <1>1, BoundsOK DEF Types, ActivitiesTyped, ActivityFile, FailureCopy, Thread

\* A new review is at odds with none of the others.
LEMMA CreateKeeps ==
    ASSUME IInv, Create, Copies' = Copies
    PROVE  /\ FileIds' /\ ThreadIds' /\ CopyIds'
           /\ FreshFiles' /\ FreshThreads' /\ FreshCopies'
           /\ OneFile' /\ FileOfCopy' /\ FileOfThread' /\ OneThread' /\ ThreadOrCopy'
  <1>1. PICK v \in ActivityFile, t \in Thread :
          /\ v.review = reviews + 1 /\ v.status = "Running" /\ v.resolved = 0
          /\ t.review = reviews + 1 /\ t.activity = nextId + 1
          /\ Written(nextId + 1, v)
          /\ threads' = threads \cup {t}
          /\ nextId' = nextId + 1 /\ reviews' = reviews + 1 /\ reviews < MaxReviews
    BY Created DEF IInv
  <1>2. /\ \A i \in DOMAIN activities : i \in 1..MaxReviews /\ activities[i].review \in 1..MaxReviews
        /\ \A u \in threads : u.review \in 1..MaxReviews /\ u.activity \in 1..MaxReviews
        /\ \A f \in Copies : f.id \in 1..MaxReviews /\ f.copy.review \in 1..MaxReviews
        /\ nextId \in Nat /\ reviews \in Nat /\ MaxReviews \in Nat
    BY Elements DEF IInv
  <1>3. /\ \A i \in DOMAIN activities : i <= nextId /\ activities[i].review <= reviews
        /\ \A u \in threads : u.activity <= nextId /\ u.review <= reviews
        /\ \A f \in Copies : f.id <= nextId /\ f.copy.review <= reviews
    BY DEF IInv, Ids, Fresh, FileIds, ThreadIds, CopyIds, FreshFiles, FreshThreads, FreshCopies
  <1>4. DOMAIN activities' = DOMAIN activities \cup {nextId + 1}
    BY <1>1 DEF Written
  <1>5. /\ activities'[nextId + 1] = v
        /\ \A i \in DOMAIN activities : activities'[i] = activities[i] /\ i # nextId + 1
    BY <1>1, <1>2, <1>3 DEF Written
  <1>6. FileIds' /\ CopyIds'
    BY <1>1, <1>2, <1>3, <1>4 DEF FileIds, CopyIds
  <1>7. ThreadIds'
    BY <1>1, <1>2, <1>3 DEF ThreadIds, IInv, Ids
  <1>8. FreshFiles' /\ FreshThreads' /\ FreshCopies'
    BY <1>1, <1>2, <1>3, <1>4, <1>5 DEF FreshFiles, FreshThreads, FreshCopies
  <1>9. OneFile'
    BY <1>1, <1>2, <1>3, <1>4, <1>5 DEF OneFile, IInv, OneActivityPerReview
  <1>10. FileOfCopy'
    BY <1>1, <1>2, <1>3, <1>4, <1>5 DEF FileOfCopy, IInv, OneActivityPerReview
  <1>11. FileOfThread'
    BY <1>1, <1>2, <1>3, <1>4, <1>5 DEF FileOfThread, IInv, OneActivityPerReview
  <1>12. OneThread' /\ ThreadOrCopy'
    BY <1>1, <1>2, <1>3 DEF OneThread, ThreadOrCopy, IInv, OneActivityPerReview
  <1> QED
    BY <1>6, <1>7, <1>8, <1>9, <1>10, <1>11, <1>12

\* A thread saves its activity under its own id: the file of its review, if any.
LEMMA SaveActivityKeeps ==
    ASSUME IInv, NEW t \in threads, SaveActivity(t)
    PROVE  /\ FileIds' /\ ThreadIds' /\ FreshFiles' /\ FreshThreads'
           /\ OneFile' /\ FileOfCopy' /\ FileOfThread' /\ OneThread' /\ ThreadOrCopy'
  <1>1. PICK s \in {"Completed", "Error"}, v \in ActivityFile :
          /\ v.review = t.review /\ v.status = s /\ v.resolved = 0
          /\ Written(t.activity, v)
          /\ \/ /\ s = "Completed"
                /\ \E m \in Thread : /\ m.review = t.review /\ m.activity = t.activity
                                     /\ threads' = (threads \ {t}) \cup {m}
             \/ s = "Error" /\ threads' = threads \ {t}
    BY SavedThread DEF IInv
  <1>2. nextId' = nextId /\ reviews' = reviews /\ retrying' = retrying
    BY DEF SaveActivity
  <1>3. /\ \A u \in threads' : \E w \in threads : u.review = w.review /\ u.activity = w.activity
        /\ \A u, w \in threads' : u.review = w.review => u = w
        /\ \A u \in threads' : u.review = t.review => v.status # "Error"
    BY <1>1 DEF IInv, OneActivityPerReview, OneThread
  <1>4. \A u, w \in threads' : u.activity = w.activity => u = w
    BY <1>1 DEF IInv, Ids, ThreadIds
  <1>5. FileIds' /\ ThreadIds'
    BY <1>1, <1>2, <1>3, <1>4 DEF IInv, Ids, FileIds, ThreadIds, Written
  <1>6. FreshFiles' /\ FreshThreads'
    BY <1>1, <1>2, <1>3 DEF IInv, Fresh, FreshFiles, FreshThreads, Written
  <1>7. OneFile'
    BY <1>1 DEF IInv, OneActivityPerReview, OneFile, FileOfThread, Written
  <1>8. Copies' = Copies
    BY <1>2 DEF Copies, Saving
  <1>9. FileOfCopy'
    BY <1>1, <1>8 DEF IInv, OneActivityPerReview, FileOfCopy, ThreadOrCopy, Written
  <1>10. FileOfThread'
    <2> SUFFICES ASSUME NEW i \in DOMAIN activities', NEW u \in threads',
                        activities'[i].review = u.review
                 PROVE  i = u.activity /\ activities'[i].status # "Error"
      BY DEF FileOfThread
    <2>1. PICK w \in threads : u.review = w.review /\ u.activity = w.activity
      BY <1>3
    <2>2. CASE i = t.activity
      <3>1. activities'[i] = v /\ u.review = t.review
        BY <1>1, <2>2 DEF Written
      <3>2. w = t
        BY <2>1, <3>1 DEF IInv, OneActivityPerReview, OneThread
      <3> QED
        BY <1>3, <2>1, <2>2, <3>1, <3>2
    <2>3. CASE i # t.activity
      <3>1. i \in DOMAIN activities /\ activities'[i] = activities[i]
        BY <1>1, <2>3 DEF Written
      <3> QED
        BY <2>1, <3>1 DEF IInv, OneActivityPerReview, FileOfThread
    <2> QED
      BY <2>2, <2>3
  <1>11. OneThread' /\ ThreadOrCopy'
    BY <1>3, <1>8 DEF IInv, OneActivityPerReview, OneThread, ThreadOrCopy
  <1> QED
    BY <1>5, <1>6, <1>7, <1>9, <1>10, <1>11

\* A retry call marks the copy it holds: the file of that review, if any.
LEMMA SaveResolvedKeeps ==
    ASSUME IInv, SaveResolved
    PROVE  /\ FileIds' /\ CopyIds' /\ FreshFiles' /\ FreshCopies'
           /\ OneFile' /\ FileOfCopy' /\ OneCopy' /\ FileOfThread' /\ ThreadOrCopy'
  <1>1. PICK v \in ActivityFile :
          /\ v.review = retrying.of.copy.review /\ v.status = "Error" /\ v.resolved # 0
          /\ Written(retrying.of.id, v)
    BY SavedCopy DEF IInv
  <1>2. nextId' = nextId /\ reviews' = reviews /\ threads' = threads
    BY DEF SaveResolved
  <1>3. /\ retrying.of \in Copies /\ retrying'.left = retrying.left /\ ~Saving' /\ Saving
        /\ Copies' = retrying.left /\ Copies' \subseteq Copies
    BY DEF SaveResolved, Copies, Saving, Idle
  <1>4. FileIds' /\ CopyIds'
    BY <1>1, <1>2, <1>3 DEF IInv, Ids, FileIds, CopyIds, Written
  <1>5. FreshFiles' /\ FreshCopies'
    BY <1>1, <1>2, <1>3 DEF IInv, Fresh, FreshFiles, FreshCopies, Written
  <1>6. OneFile'
    BY <1>1, <1>3 DEF IInv, OneActivityPerReview, OneFile, FileOfCopy, Written
  <1>7. FileOfCopy'
    BY <1>1, <1>3 DEF IInv, OneActivityPerReview, FileOfCopy, OneCopy, Written
  <1>8. OneCopy'
    BY <1>3 DEF IInv, OneActivityPerReview, OneCopy
  <1>9. FileOfThread' /\ ThreadOrCopy'
    BY <1>1, <1>2, <1>3 DEF IInv, OneActivityPerReview, FileOfThread, ThreadOrCopy, Written
  <1> QED
    BY <1>4, <1>5, <1>6, <1>7, <1>8, <1>9

-----------------------------------------------------------------------------
(* The steps                                                               *)

\* The counters are numbers.
LEMMA Counters == Types =>
    /\ nextId \in Nat /\ nextArtifactId \in Nat /\ reviews \in Nat /\ faults \in Nat
    /\ MaxReviews \in Nat /\ retried \in [1..MaxReviews -> Nat]
    /\ (\A a \in DOMAIN artifacts : a \in Nat) /\ (\A i \in DOMAIN activities : i \in Nat)
  BY BoundsOK DEF Types, ActivitiesTyped, ArtifactsTyped

\* The files and threads after a review has started are those before, and its own.
LEMMA CreatedFiles ==
    ASSUME Types, Create
    PROVE  /\ \A i \in DOMAIN activities' :
                activities'[i].review = reviews + 1 \/ (i \in DOMAIN activities /\ activities'[i] = activities[i])
           /\ \A t \in threads' : t.review = reviews + 1 \/ t \in threads
  BY Created DEF Written

\* Each step keeps the ids behind the counters.
LEMMA IdsKept ==
    ASSUME IInv, [Next]_vars
    PROVE  Ids'
  <1>1. CASE Start
    <2>1. Create /\ Copies' = Copies
      BY <1>1 DEF Start, Copies, Saving
    <2> QED
      BY <1>1, <2>1, CreateKeeps DEF Start, IInv, Ids, ArtifactIds
  <1>2. CASE \E t \in threads : SaveArtifact(t)
    <2>1. PICK t \in threads : SaveArtifact(t)
      BY <1>2
    <2>2. PICK m \in Thread : /\ m.review = t.review /\ m.activity = t.activity
                              /\ threads' = (threads \ {t}) \cup {m}
      BY <2>1, MovedThread DEF SaveArtifact, IInv
    <2>3. ArtifactIds'
      BY <2>1, Counters DEF SaveArtifact, Put, ArtifactIds, IInv, Ids
    <2>4. ThreadIds'
      BY <2>1, <2>2 DEF SaveArtifact, ThreadIds, IInv, Ids
    <2>5. FileIds' /\ CopyIds'
      BY <2>1 DEF SaveArtifact, FileIds, CopyIds, Copies, Saving, IInv, Ids
    <2> QED
      BY <2>3, <2>4, <2>5 DEF Ids
  <1>3. CASE \E t \in threads : SaveActivity(t)
    <2>1. PICK t \in threads : SaveActivity(t)
      BY <1>3
    <2> QED
      BY <2>1, SaveActivityKeeps DEF SaveActivity, Ids, ArtifactIds, CopyIds, Copies, Saving, IInv
  <1>4. CASE \E t \in threads : Sync(t)
    BY <1>4 DEF Sync, IInv, Ids, FileIds, ArtifactIds, ThreadIds, CopyIds, Copies, Saving
  <1>5. CASE \E i \in DOMAIN activities : Age(i)
    <2>1. PICK i \in DOMAIN activities : Age(i)
      BY <1>5
    <2>2. SameFiles /\ \A j \in DOMAIN activities : activities'[j].status = activities[j].status
      BY <2>1, AgedFiles DEF IInv
    <2> QED
      BY <2>1, <2>2 DEF Age, SameFiles, IInv, Ids, FileIds, ArtifactIds, ThreadIds, CopyIds, Copies, Saving
  <1>6. CASE ListOld
    BY <1>6 DEF ListOld, IInv, Ids, FileIds, ArtifactIds, ThreadIds, CopyIds, Copies, Saving
  <1>7. CASE \E i \in pruning : DeleteActivity(i)
    BY <1>7 DEF DeleteActivity, Drop, IInv, Ids, FileIds, ArtifactIds, ThreadIds, CopyIds, Copies, Saving
  <1>8. CASE DeleteArtifacts
    BY <1>8 DEF DeleteArtifacts, Drop, IInv, Ids, FileIds, ArtifactIds, ThreadIds, CopyIds, Copies, Saving
  <1>9. CASE PruneFails
    BY <1>9 DEF PruneFails, Fault, IInv, Ids, FileIds, ArtifactIds, ThreadIds, CopyIds, Copies, Saving
  <1>10. CASE ListFailures
    <2>1. \A f \in Copies' : f.id \in DOMAIN activities
      BY <1>10 DEF ListFailures, Failures, Idle, Copies, Saving
    <2> QED
      BY <1>10, <2>1 DEF ListFailures, IInv, Ids, FileIds, ArtifactIds, ThreadIds, CopyIds
  <1>11. CASE EndRetry
    BY <1>11 DEF EndRetry, Idle, IInv, Ids, FileIds, ArtifactIds, ThreadIds, CopyIds, Copies, Saving
  <1>12. CASE SaveResolved
      BY <1>12, SaveResolvedKeeps DEF SaveResolved, Ids, ArtifactIds, ThreadIds, IInv
  <1>13. CASE RetryFails
    BY <1>13 DEF RetryFails, Fault, Idle, IInv, Ids, FileIds, ArtifactIds, ThreadIds, CopyIds, Copies, Saving
  <1>14. CASE \E f \in retrying.left : SkipFailure(f)
    BY <1>14 DEF SkipFailure, Fault, IInv, Ids, FileIds, ArtifactIds, ThreadIds, CopyIds, Copies, Saving
  <1>15. CASE \E f \in retrying.left : RetryFailure(f)
    <2>1. PICK f \in retrying.left : RetryFailure(f)
      BY <1>15
    <2>2. Create /\ Copies' = Copies
      BY <2>1 DEF RetryFailure, Copies, Saving
    <2> QED
      BY <2>1, <2>2, CreateKeeps DEF RetryFailure, Ids, ArtifactIds, IInv
  <1>16. CASE ResetStarts
    BY <1>16 DEF ResetStarts, IInv, Ids, FileIds, ArtifactIds, ThreadIds, CopyIds, Copies, Saving
  <1>17. CASE ClearArtifacts
    BY <1>17 DEF ClearArtifacts, IInv, Ids, FileIds, ArtifactIds, ThreadIds, CopyIds, Copies, Saving
  <1>18. CASE ClearActivities
    BY <1>18 DEF ClearActivities, IInv, Ids, FileIds, ArtifactIds, ThreadIds, CopyIds, Copies, Saving
  <1>19. CASE Restart
    <2>1. /\ SameFiles /\ threads' = {} /\ retrying' = Idle
          /\ UNCHANGED <<artifacts, reviews, retried>>
          /\ nextId' \in 0..nextId /\ \A i \in DOMAIN activities : i <= nextId'
          /\ nextArtifactId' \in 0..nextArtifactId
          /\ \A a \in DOMAIN artifacts : a <= nextArtifactId'
      BY <1>19, Restarted DEF Ids, IInv
    <2>2. Copies' = {}
      BY <2>1 DEF Copies, Saving, Idle
    <2> QED
      BY <2>1, <2>2 DEF SameFiles, Ids, FileIds, ArtifactIds, ThreadIds, CopyIds, IInv
  <1>20. CASE UNCHANGED vars
    BY <1>20 DEF vars, IInv, Ids, FileIds, ArtifactIds, ThreadIds, CopyIds, Copies, Saving
  <1> QED
    BY <1>1, <1>2, <1>3, <1>4, <1>5, <1>6, <1>7, <1>8, <1>9, <1>10, <1>11, <1>12, <1>13, <1>14, <1>15, <1>16, <1>17, <1>18, <1>19, <1>20 DEF Next, Prune

\* Each step leaves the reviews to come without a trace.
LEMMA FreshKept ==
    ASSUME IInv, [Next]_vars
    PROVE  Fresh'
  <1>1. CASE Start
    <2>1. Create /\ Copies' = Copies
      BY <1>1 DEF Start, Copies, Saving
    <2>2. \A r \in 1..MaxReviews : r > reviews' => retried'[r] = 0
      BY <1>1, Counters DEF Start, Create, IInv, Fresh
    <2> QED
      BY <1>1, <2>1, <2>2, CreateKeeps DEF Fresh
  <1>2. CASE \E t \in threads : SaveArtifact(t)
    <2>1. PICK t \in threads : SaveArtifact(t)
      BY <1>2
    <2>2. PICK m \in Thread : /\ m.review = t.review /\ m.activity = t.activity
                              /\ threads' = (threads \ {t}) \cup {m}
      BY <2>1, MovedThread DEF SaveArtifact, IInv
    <2> QED
      BY <2>1, <2>2 DEF SaveArtifact, Fresh, FreshFiles, FreshThreads, FreshCopies, Copies, Saving, IInv
  <1>3. CASE \E t \in threads : SaveActivity(t)
    <2>1. PICK t \in threads : SaveActivity(t)
      BY <1>3
    <2> QED
      BY <2>1, SaveActivityKeeps DEF SaveActivity, Fresh, FreshCopies, Copies, Saving, IInv
  <1>4. CASE \E t \in threads : Sync(t)
    BY <1>4 DEF Sync, IInv, Fresh, FreshFiles, FreshThreads, FreshCopies, Copies, Saving
  <1>5. CASE \E i \in DOMAIN activities : Age(i)
    <2>1. PICK i \in DOMAIN activities : Age(i)
      BY <1>5
    <2>2. SameFiles /\ \A j \in DOMAIN activities : activities'[j].status = activities[j].status
      BY <2>1, AgedFiles DEF IInv
    <2> QED
      BY <2>1, <2>2 DEF Age, SameFiles, IInv, Fresh, FreshFiles, FreshThreads, FreshCopies, Copies, Saving
  <1>6. CASE ListOld
    BY <1>6 DEF ListOld, IInv, Fresh, FreshFiles, FreshThreads, FreshCopies, Copies, Saving
  <1>7. CASE \E i \in pruning : DeleteActivity(i)
    BY <1>7 DEF DeleteActivity, Drop, IInv, Fresh, FreshFiles, FreshThreads, FreshCopies, Copies, Saving
  <1>8. CASE DeleteArtifacts
    BY <1>8 DEF DeleteArtifacts, Drop, IInv, Fresh, FreshFiles, FreshThreads, FreshCopies, Copies, Saving
  <1>9. CASE PruneFails
    BY <1>9 DEF PruneFails, Fault, IInv, Fresh, FreshFiles, FreshThreads, FreshCopies, Copies, Saving
  <1>10. CASE ListFailures
    <2>1. \A f \in Copies' : \E i \in DOMAIN activities : f.copy.review = activities[i].review
      BY <1>10 DEF ListFailures, Failures, Idle, Copies, Saving
    <2> QED
      BY <1>10, <2>1 DEF ListFailures, IInv, Fresh, FreshFiles, FreshThreads, FreshCopies
  <1>11. CASE EndRetry
    BY <1>11 DEF EndRetry, Idle, IInv, Fresh, FreshFiles, FreshThreads, FreshCopies, Copies, Saving
  <1>12. CASE SaveResolved
      BY <1>12, SaveResolvedKeeps DEF SaveResolved, Fresh, FreshThreads, IInv
  <1>13. CASE RetryFails
    BY <1>13 DEF RetryFails, Fault, Idle, IInv, Fresh, FreshFiles, FreshThreads, FreshCopies, Copies, Saving
  <1>14. CASE \E f \in retrying.left : SkipFailure(f)
    BY <1>14 DEF SkipFailure, Fault, IInv, Fresh, FreshFiles, FreshThreads, FreshCopies, Copies, Saving
  <1>15. CASE \E f \in retrying.left : RetryFailure(f)
    <2>1. PICK f \in retrying.left : RetryFailure(f)
      BY <1>15
    <2>2. Create /\ Copies' = Copies
      BY <2>1 DEF RetryFailure, Copies, Saving
    <2>3. f.copy.review \in 1..MaxReviews /\ f.copy.review <= reviews
      BY <2>1, Elements DEF IInv, Fresh, FreshCopies, Copies
    <2>4. \A r \in 1..MaxReviews : r > reviews' => retried'[r] = 0
      BY <2>1, <2>3, Counters DEF RetryFailure, Create, IInv, Fresh
    <2> QED
      BY <2>2, <2>4, CreateKeeps DEF Fresh
  <1>16. CASE ResetStarts
    BY <1>16 DEF ResetStarts, IInv, Fresh, FreshFiles, FreshThreads, FreshCopies, Copies, Saving
  <1>17. CASE ClearArtifacts
    BY <1>17 DEF ClearArtifacts, IInv, Fresh, FreshFiles, FreshThreads, FreshCopies, Copies, Saving
  <1>18. CASE ClearActivities
    BY <1>18 DEF ClearActivities, IInv, Fresh, FreshFiles, FreshThreads, FreshCopies, Copies, Saving
  <1>19. CASE Restart
    <2>1. /\ SameFiles /\ threads' = {} /\ retrying' = Idle
          /\ UNCHANGED <<artifacts, reviews, retried>>
          /\ nextId' \in 0..nextId /\ \A i \in DOMAIN activities : i <= nextId'
          /\ nextArtifactId' \in 0..nextArtifactId
          /\ \A a \in DOMAIN artifacts : a <= nextArtifactId'
      BY <1>19, Restarted DEF Ids, IInv
    <2>2. Copies' = {}
      BY <2>1 DEF Copies, Saving, Idle
    <2> QED
      BY <2>1, <2>2 DEF SameFiles, Fresh, FreshFiles, FreshThreads, FreshCopies, IInv
  <1>20. CASE UNCHANGED vars
    BY <1>20 DEF vars, IInv, Fresh, FreshFiles, FreshThreads, FreshCopies, Copies, Saving
  <1> QED
    BY <1>1, <1>2, <1>3, <1>4, <1>5, <1>6, <1>7, <1>8, <1>9, <1>10, <1>11, <1>12, <1>13, <1>14, <1>15, <1>16, <1>17, <1>18, <1>19, <1>20 DEF Next, Prune

\* Each step keeps a review at one activity.
LEMMA OneKept ==
    ASSUME IInv, [Next]_vars
    PROVE  OneActivityPerReview'
  <1>1. CASE Start
    <2>1. Create /\ Copies' = Copies
      BY <1>1 DEF Start, Copies, Saving
    <2> QED
      BY <1>1, <2>1, CreateKeeps DEF Start, OneActivityPerReview, OneCopy, Copies, Saving, IInv
  <1>2. CASE \E t \in threads : SaveArtifact(t)
    <2>1. PICK t \in threads : SaveArtifact(t)
      BY <1>2
    <2>2. PICK m \in Thread : /\ m.review = t.review /\ m.activity = t.activity
                              /\ threads' = (threads \ {t}) \cup {m}
      BY <2>1, MovedThread DEF SaveArtifact, IInv
    <2>3. activities' = activities /\ retrying' = retrying /\ Copies' = Copies
      BY <2>1 DEF SaveArtifact, Copies, Saving
    <2> QED
      BY <2>2, <2>3 DEF Saving, IInv, OneActivityPerReview, OneFile, FileOfCopy, OneCopy, FileOfThread, OneThread, ThreadOrCopy
  <1>3. CASE \E t \in threads : SaveActivity(t)
    <2>1. PICK t \in threads : SaveActivity(t)
      BY <1>3
    <2>2. retrying' = retrying /\ Copies' = Copies /\ (Saving' <=> Saving)
      BY <2>1 DEF SaveActivity, Copies, Saving
    <2> QED
      BY <2>1, <2>2, SaveActivityKeeps DEF OneActivityPerReview, OneCopy, IInv
  <1>4. CASE \E t \in threads : Sync(t)
    BY <1>4 DEF Sync, IInv, OneActivityPerReview, OneFile, FileOfCopy, OneCopy, FileOfThread, OneThread, ThreadOrCopy, Copies, Saving
  <1>5. CASE \E i \in DOMAIN activities : Age(i)
    <2>1. PICK i \in DOMAIN activities : Age(i)
      BY <1>5
    <2>2. SameFiles /\ \A j \in DOMAIN activities : activities'[j].status = activities[j].status
      BY <2>1, AgedFiles DEF IInv
    <2> QED
      BY <2>1, <2>2 DEF Age, SameFiles, IInv, OneActivityPerReview, OneFile, FileOfCopy, OneCopy, FileOfThread, OneThread, ThreadOrCopy, Copies, Saving
  <1>6. CASE ListOld
    BY <1>6 DEF ListOld, IInv, OneActivityPerReview, OneFile, FileOfCopy, OneCopy, FileOfThread, OneThread, ThreadOrCopy, Copies, Saving
  <1>7. CASE \E i \in pruning : DeleteActivity(i)
    BY <1>7 DEF DeleteActivity, Drop, IInv, OneActivityPerReview, OneFile, FileOfCopy, OneCopy, FileOfThread, OneThread, ThreadOrCopy, Copies, Saving
  <1>8. CASE DeleteArtifacts
    BY <1>8 DEF DeleteArtifacts, Drop, IInv, OneActivityPerReview, OneFile, FileOfCopy, OneCopy, FileOfThread, OneThread, ThreadOrCopy, Copies, Saving
  <1>9. CASE PruneFails
    BY <1>9 DEF PruneFails, Fault, IInv, OneActivityPerReview, OneFile, FileOfCopy, OneCopy, FileOfThread, OneThread, ThreadOrCopy, Copies, Saving
  <1>10. CASE ListFailures
    <2>1. /\ ~Saving' /\ activities' = activities /\ threads' = threads
          /\ \A f \in Copies' : /\ f.id \in DOMAIN activities /\ f.copy = activities[f.id]
                                /\ f.copy.status = "Error" /\ f = [id |-> f.id, copy |-> f.copy]
      BY <1>10 DEF ListFailures, Failures, Idle, Copies, Saving
    <2> QED
      BY <2>1 DEF IInv, OneActivityPerReview, OneFile, FileOfCopy, OneCopy, FileOfThread, OneThread, ThreadOrCopy
  <1>11. CASE EndRetry
    BY <1>11 DEF EndRetry, Idle, IInv, OneActivityPerReview, OneFile, FileOfCopy, OneCopy, FileOfThread, OneThread, ThreadOrCopy, Copies, Saving
  <1>12. CASE SaveResolved
    <2>1. threads' = threads
      BY <1>12 DEF SaveResolved
    <2> QED
      BY <1>12, <2>1, SaveResolvedKeeps DEF OneActivityPerReview, OneThread, IInv
  <1>13. CASE RetryFails
    BY <1>13 DEF RetryFails, Fault, Idle, IInv, OneActivityPerReview, OneFile, FileOfCopy, OneCopy, FileOfThread, OneThread, ThreadOrCopy, Copies, Saving
  <1>14. CASE \E f \in retrying.left : SkipFailure(f)
    BY <1>14 DEF SkipFailure, Fault, IInv, OneActivityPerReview, OneFile, FileOfCopy, OneCopy, FileOfThread, OneThread, ThreadOrCopy, Copies, Saving
  <1>15. CASE \E f \in retrying.left : RetryFailure(f)
    <2>1. PICK f \in retrying.left : RetryFailure(f)
      BY <1>15
    <2>2. Create /\ Copies' = Copies
      BY <2>1 DEF RetryFailure, Copies, Saving
    <2>3. OneCopy'
      BY <2>1, <2>2 DEF RetryFailure, IInv, OneActivityPerReview, OneCopy
    <2> QED
      BY <2>2, <2>3, CreateKeeps DEF OneActivityPerReview
  <1>16. CASE ResetStarts
    BY <1>16 DEF ResetStarts, IInv, OneActivityPerReview, OneFile, FileOfCopy, OneCopy, FileOfThread, OneThread, ThreadOrCopy, Copies, Saving
  <1>17. CASE ClearArtifacts
    BY <1>17 DEF ClearArtifacts, IInv, OneActivityPerReview, OneFile, FileOfCopy, OneCopy, FileOfThread, OneThread, ThreadOrCopy, Copies, Saving
  <1>18. CASE ClearActivities
    BY <1>18 DEF ClearActivities, IInv, OneActivityPerReview, OneFile, FileOfCopy, OneCopy, FileOfThread, OneThread, ThreadOrCopy, Copies, Saving
  <1>19. CASE Restart
    <2>1. /\ SameFiles /\ threads' = {} /\ retrying' = Idle
          /\ UNCHANGED <<artifacts, reviews, retried>>
          /\ nextId' \in 0..nextId /\ \A i \in DOMAIN activities : i <= nextId'
          /\ nextArtifactId' \in 0..nextArtifactId
          /\ \A a \in DOMAIN artifacts : a <= nextArtifactId'
      BY <1>19, Restarted DEF Ids, IInv
    <2>2. Copies' = {}
      BY <2>1 DEF Copies, Saving, Idle
    <2>3. ~Saving' /\ retrying'.left = {}
      BY <2>1 DEF Saving, Idle
    <2> QED
      BY <2>1, <2>2, <2>3 DEF SameFiles, IInv, OneActivityPerReview, OneFile, FileOfCopy, OneCopy, FileOfThread, OneThread, ThreadOrCopy
  <1>20. CASE UNCHANGED vars
    BY <1>20 DEF vars, IInv, OneActivityPerReview, OneFile, FileOfCopy, OneCopy, FileOfThread, OneThread, ThreadOrCopy, Copies, Saving
  <1> QED
    BY <1>1, <1>2, <1>3, <1>4, <1>5, <1>6, <1>7, <1>8, <1>9, <1>10, <1>11, <1>12, <1>13, <1>14, <1>15, <1>16, <1>17, <1>18, <1>19, <1>20 DEF Next, Prune

\* Each step keeps the number of retries under that of the faults.
LEMMA RetriesKept ==
    ASSUME IInv, [Next]_vars
    PROVE  Retries'
  <1>1. CASE Start
    <2>1. \A r \in 1..MaxReviews : MayBeRetried(r)' => MayBeRetried(r) \/ r = reviews + 1
      <3>1. Create /\ retrying' = retrying
        BY <1>1 DEF Start
      <3> QED
        BY <3>1, CreatedFiles DEF MayBeRetried, Saving, IInv
    <2>2. \A r \in 1..MaxReviews : r = reviews + 1 => retried[r] = 0
      BY Counters DEF IInv, Fresh
    <2>3. retried' = retried /\ faults' = faults
      BY <1>1 DEF Start
    <2> QED
      BY <2>1, <2>2, <2>3, Counters DEF IInv, Retries
  <1>2. CASE \E t \in threads : SaveArtifact(t)
    <2>1. PICK t \in threads : SaveArtifact(t)
      BY <1>2
    <2>2. PICK m \in Thread : /\ m.review = t.review /\ m.activity = t.activity
                              /\ threads' = (threads \ {t}) \cup {m}
      BY <2>1, MovedThread DEF SaveArtifact, IInv
    <2>3. activities' = activities /\ retrying' = retrying /\ retried' = retried /\ faults' = faults
      BY <2>1 DEF SaveArtifact
    <2> QED
      BY <2>2, <2>3 DEF Retries, MayBeRetried, Saving, IInv
  <1>3. CASE \E t \in threads : SaveActivity(t)
    <2>1. PICK t \in threads : SaveActivity(t)
      BY <1>3
    <2>2. retrying' = retrying /\ retried' = retried /\ faults' = faults
      BY <2>1 DEF SaveActivity
    <2>3. PICK v \in ActivityFile : v.review = t.review /\ Written(t.activity, v)
      BY <2>1, SavedThread DEF IInv
    <2>4. \A u \in threads' : \E w \in threads : u.review = w.review
      BY <2>1, SavedThread DEF IInv
    <2>5. \A r \in 1..MaxReviews : MayBeRetried(r)' => MayBeRetried(r)
      BY <2>2, <2>3, <2>4 DEF MayBeRetried, Saving, Written
    <2> QED
      BY <2>2, <2>5 DEF Retries, IInv
  <1>4. CASE \E t \in threads : Sync(t)
    BY <1>4, Counters DEF Sync, IInv, Retries, MayBeRetried, Copies, Saving
  <1>5. CASE \E i \in DOMAIN activities : Age(i)
    <2>1. PICK i \in DOMAIN activities : Age(i)
      BY <1>5
    <2>2. SameFiles /\ \A j \in DOMAIN activities : activities'[j].status = activities[j].status
      BY <2>1, AgedFiles DEF IInv
    <2> QED
      BY <2>1, <2>2 DEF Age, SameFiles, IInv, Retries, MayBeRetried, Copies, Saving
  <1>6. CASE ListOld
    BY <1>6, Counters DEF ListOld, IInv, Retries, MayBeRetried, Copies, Saving
  <1>7. CASE \E i \in pruning : DeleteActivity(i)
    BY <1>7, Counters DEF DeleteActivity, Drop, IInv, Retries, MayBeRetried, Copies, Saving
  <1>8. CASE DeleteArtifacts
    BY <1>8, Counters DEF DeleteArtifacts, Drop, IInv, Retries, MayBeRetried, Copies, Saving
  <1>9. CASE PruneFails
    <2>1. retried' = retried /\ faults' = faults + 1
      BY <1>9 DEF PruneFails, Fault
    <2> QED
      BY <2>1, Counters DEF Retries, IInv
  <1>10. CASE ListFailures
    <2>1. \A f \in retrying'.left : f.copy.status = "Error" /\ f.copy.resolved = 0
                                   /\ \E i \in DOMAIN activities : f.copy = activities[i]
      BY <1>10 DEF ListFailures, Failures, Idle
    <2>2. ~Saving /\ ~Saving' /\ UNCHANGED <<activities, threads, retried, faults>>
      BY <1>10 DEF ListFailures, Saving, Idle
    <2>3. \A r \in 1..MaxReviews : MayBeRetried(r)' => MayBeRetried(r)
      BY <2>1, <2>2 DEF MayBeRetried
    <2> QED
      BY <2>2, <2>3 DEF Retries, IInv
  <1>11. CASE EndRetry
    BY <1>11, Counters DEF EndRetry, Idle, IInv, Retries, MayBeRetried, Copies, Saving
  <1>12. CASE SaveResolved
    <2>1. PICK v \in ActivityFile :
            /\ v.review = retrying.of.copy.review /\ v.status = "Error" /\ v.resolved # 0
            /\ Written(retrying.of.id, v)
      BY <1>12, SavedCopy DEF IInv
    <2>2. /\ retrying'.left = retrying.left /\ Saving /\ ~Saving' /\ retrying.of \in Copies
          /\ UNCHANGED <<threads, retried, faults>>
      BY <1>12 DEF SaveResolved, Saving, Idle, Copies
    <2>3. \A r \in 1..MaxReviews : MayBeRetried(r)' => MayBeRetried(r)
      BY <2>1, <2>2 DEF MayBeRetried, Written, IInv, OneActivityPerReview, FileOfCopy
    <2> QED
      BY <2>2, <2>3 DEF Retries, IInv
  <1>13. CASE RetryFails
    <2>1. /\ retrying'.left = {} /\ ~Saving' /\ UNCHANGED <<activities, threads, retried>> /\ faults' = faults + 1
      BY <1>13 DEF RetryFails, Fault, Idle, Saving
    <2> QED
      BY <2>1, Counters DEF Retries, IInv
  <1>14. CASE \E f \in retrying.left : SkipFailure(f)
    BY <1>14, Counters DEF SkipFailure, Fault, IInv, Retries, MayBeRetried, Copies, Saving
  <1>15. CASE \E f \in retrying.left : RetryFailure(f)
    <2>1. PICK f \in retrying.left : RetryFailure(f)
      BY <1>15
    <2>2. Create /\ Copies' = Copies
      BY <2>1 DEF RetryFailure, Copies, Saving
    <2>3. /\ retried' = [retried EXCEPT ![f.copy.review] = @ + 1] /\ faults' = faults
          /\ retrying'.left = retrying.left \ {f} /\ retrying'.of = f /\ Saving' /\ ~Saving
      BY <2>1 DEF RetryFailure, Saving
    <2>4. f.copy.review \in 1..MaxReviews /\ f.copy.review <= reviews /\ f \in Copies
      BY Elements DEF IInv, Fresh, FreshCopies, Copies
    <2>5. retried[f.copy.review] <= faults
      BY <2>4 DEF IInv, Retries, MayBeRetried
    <2>6. \A r \in 1..MaxReviews :
            MayBeRetried(r)' => r # f.copy.review /\ (MayBeRetried(r) \/ r = reviews + 1)
      <3> SUFFICES ASSUME NEW r \in 1..MaxReviews, MayBeRetried(r)'
                   PROVE  r # f.copy.review /\ (MayBeRetried(r) \/ r = reviews + 1)
        OBVIOUS
      <3>1. CASE \E i \in DOMAIN activities' :
                   /\ activities'[i].review = r /\ activities'[i].resolved = 0
                   /\ activities'[i].status # "Completed" /\ r # f.copy.review
        BY <2>2, <2>3, <3>1, CreatedFiles DEF MayBeRetried, IInv
      <3>2. CASE \E t \in threads' : t.review = r
        BY <2>2, <2>4, <3>2, CreatedFiles, Counters DEF MayBeRetried, IInv, OneActivityPerReview, ThreadOrCopy
      <3>3. CASE \E g \in retrying'.left : g.copy.review = r
        BY <2>3, <2>4, <3>3 DEF MayBeRetried, IInv, OneActivityPerReview, OneCopy, Copies
      <3> QED
        BY <2>3, <3>1, <3>2, <3>3 DEF MayBeRetried
    <2>7. \A r \in 1..MaxReviews : r = reviews + 1 => retried[r] = 0
      BY Counters DEF IInv, Fresh
    <2> QED
      BY <2>3, <2>4, <2>5, <2>6, <2>7, Counters DEF Retries, IInv
  <1>16. CASE ResetStarts
    BY <1>16, Counters DEF ResetStarts, IInv, Retries, MayBeRetried, Copies, Saving
  <1>17. CASE ClearArtifacts
    BY <1>17, Counters DEF ClearArtifacts, IInv, Retries, MayBeRetried, Copies, Saving
  <1>18. CASE ClearActivities
    BY <1>18, Counters DEF ClearActivities, IInv, Retries, MayBeRetried, Copies, Saving
  <1>19. CASE Restart
    <2>1. retried' = retried /\ faults' = faults + 1
      BY <1>19, Restarted DEF Fault, Ids, IInv
    <2> QED
      BY <2>1, Counters DEF Retries, IInv
  <1>20. CASE UNCHANGED vars
    BY <1>20, Counters DEF vars, IInv, Retries, MayBeRetried, Copies, Saving
  <1> QED
    BY <1>1, <1>2, <1>3, <1>4, <1>5, <1>6, <1>7, <1>8, <1>9, <1>10, <1>11, <1>12, <1>13, <1>14, <1>15, <1>16, <1>17, <1>18, <1>19, <1>20 DEF Next, Prune

-----------------------------------------------------------------------------
(* The theorems                                                            *)

\* A store without files has the invariant.
LEMMA InitInv == Init => IInv
  <1> SUFFICES ASSUME Init
               PROVE  IInv
    OBVIOUS
  <1>1. Copies = {} /\ ~Saving
    BY DEF Init, Idle, Copies, Saving
  <1>2. DOMAIN activities = {} /\ DOMAIN artifacts = {}
    BY DEF Init
  <1>3. Types
    BY <1>1, <1>2, BoundsOK DEF Init, Idle, Types, ActivitiesTyped, ArtifactsTyped
  <1>4. Ids
    BY <1>1, <1>2 DEF Init, Ids, FileIds, ArtifactIds, ThreadIds, CopyIds
  <1>5. OneActivityPerReview
    BY <1>1, <1>2 DEF Init, OneActivityPerReview, OneFile, FileOfCopy, OneCopy, FileOfThread,
                      OneThread, ThreadOrCopy
  <1>6. Fresh
    BY <1>1, <1>2 DEF Init, Fresh, FreshFiles, FreshThreads, FreshCopies
  <1>7. Retries
    BY <1>2, BoundsOK DEF Init, Idle, Retries, MayBeRetried
  <1> QED
    BY <1>3, <1>4, <1>5, <1>6, <1>7 DEF IInv

\* Each step keeps the invariant.
LEMMA NextInv == IInv /\ [Next]_vars => IInv'
  BY TypesKept, IdsKept, FreshKept, OneKept, RetriesKept DEF IInv

\* The invariant holds in every state.
LEMMA Inductive == Spec => []IInv
  BY InitInv, NextInv, PTL DEF Spec

\* Every file, thread and counter has its type, under all operations.
THEOREM TypeCorrect == Spec => []TypeOK
  <1>1. IInv => TypeOK
    BY TypesHold DEF IInv
  <1> QED
    BY <1>1, Inductive, PTL

\* An id that create or create_artifact gives next is on no file and on no
\* review at work, also after a restart, a reset and a pruning.
THEOREM NewIdsUnused == Spec => []NewIdsAreUnused
  <1>1. IInv => NewIdsAreUnused
    BY DEF IInv, Ids, FileIds, ArtifactIds, ThreadIds, NewIdsAreUnused
  <1> QED
    BY <1>1, Inductive, PTL

\* A failed review is enqueued again once, however many calls ask for it: again
\* only when a call failed, or the host restarted, between the new review and
\* the mark on the old one.
THEOREM RetryOnce == Spec => []RetriedOnce
  <1>1. IInv => RetriedOnce
    BY DEF IInv, Retries, RetriedOnce
  <1> QED
    BY <1>1, Inductive, PTL
===============================================================================

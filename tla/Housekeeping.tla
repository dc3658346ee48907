----------------------------- MODULE Housekeeping -----------------------------
(***************************************************************************)
(* The store of activities and artifacts under the operations that clean   *)
(* it up while reviews work in it: the hourly pruning, the retry of failed *)
(* activities, the reset of the local state, and the start of the host,    *)
(* which takes the next ids from the files it finds.  Artifacts carry      *)
(* their id to GitHub in a marker, and the markers there stay.  All        *)
(* reviews are of one pull request; a queued one counts as running.        *)
(***************************************************************************)
EXTENDS Naturals, FiniteSets, FiniteSetsExt

CONSTANTS
  MaxReviews,   \* bound: reviews started, retries included
  MaxArtifacts, \* bound: findings
  MaxRetries,   \* bound: calls of retry_failed_activities
  MaxFaults,    \* bound: failing calls and restarts
  MaxResets     \* bound: resets

ASSUME BoundsOK == {MaxReviews, MaxArtifacts, MaxRetries, MaxFaults, MaxResets} \subseteq Nat

VARIABLES
  activities,   \* files: id -> [review, status, old, resolved]
  artifacts,    \* files: id -> [review, activity, synced]
  nextId, nextArtifactId,   \* the counters in memory: the last id given
  threads,      \* reviews at work: [review, activity, at]
  pruning,      \* activities the pruner has still to delete
  half,         \* the activity whose file it has removed and whose artifacts not yet, 0 for none
  retrying,     \* a retry call: where it is, the failures left, the new activity
  reset,        \* where a reset is
  markers,      \* comments of the pending review on GitHub: [artifact, finding]
  reviews, findings, retried, calls, faults, resets    \* counted, for the bounds and the properties

fileVars == <<activities, artifacts>>
idVars == <<nextId, nextArtifactId>>
pruneVars == <<pruning, half>>
countVars == <<reviews, findings, retried, calls, faults, resets>>
vars == <<fileVars, idVars, threads, pruneVars, retrying, reset, markers, countVars>>

Statuses == {"Running", "Completed", "Error"}
Idle == [at |-> "idle", left |-> {}, of |-> 0, new |-> 0]

Put(f, k, v) == [x \in DOMAIN f \cup {k} |-> IF x = k THEN v ELSE f[x]]
Drop(f, ks) == [x \in DOMAIN f \ ks |-> f[x]]

Init ==
  /\ activities = <<>> /\ artifacts = <<>> /\ nextId = 0 /\ nextArtifactId = 0
  /\ threads = {} /\ pruning = {} /\ half = 0 /\ retrying = Idle /\ reset = "idle"
  /\ markers = {}
  /\ reviews = 0 /\ findings = 0 /\ retried = [r \in 1..MaxReviews |-> 0]
  /\ calls = 0 /\ faults = 0 /\ resets = 0

Fault == faults < MaxFaults /\ faults' = faults + 1

-------------------------------------------------------------------------------
(* Reviews at work: AgentRuntime and the store *)

(* FsActivityStore.create and the running review's first save. *)
Create ==
  /\ reviews < MaxReviews /\ reviews' = reviews + 1
  /\ nextId' = nextId + 1
  /\ activities' = Put(activities, nextId + 1,
       [review |-> reviews + 1, status |-> "Running", old |-> FALSE, resolved |-> 0])
  /\ threads' = threads \cup {[review |-> reviews + 1, activity |-> nextId + 1, at |-> "run"]}

Start ==
  /\ Create
  /\ UNCHANGED <<artifacts, nextArtifactId, pruneVars, retrying, reset, markers, findings, retried,
                 calls, faults, resets>>

MoveTo(t, at) == threads' = (threads \ {t}) \cup {[t EXCEPT !.at = at]}

(* create_artifact and save_artifacts come before the activity is saved. *)
SaveArtifact(t) ==
  /\ t.at = "run" /\ findings < MaxArtifacts
  /\ findings' = findings + 1 /\ nextArtifactId' = nextArtifactId + 1
  /\ artifacts' = Put(artifacts, nextArtifactId + 1,
       [review |-> findings + 1, activity |-> t.activity, synced |-> FALSE])
  /\ MoveTo(t, "completed")
  /\ UNCHANGED <<activities, nextId, pruneVars, retrying, reset, markers, reviews, retried, calls,
                 faults, resets>>

(* The thread saves its own copy of the activity, whatever has become of the file. *)
SaveActivity(t) == \E s \in {"Completed", "Error"} :
  /\ t.at \in {"run", "completed"} /\ (t.at = "completed" => s = "Completed")
  /\ activities' = Put(activities, t.activity,
       [review |-> t.review, status |-> s, old |-> FALSE, resolved |-> 0])
  /\ IF s = "Completed" THEN MoveTo(t, "sync") ELSE threads' = threads \ {t}
  /\ UNCHANGED <<artifacts, idVars, pruneVars, retrying, reset, markers, countVars>>

(* sync_completed_enqueued_review: an artifact whose marker is in the      *)
(* pending review is there; the others are posted.                         *)
Posted(a) == \E m \in markers : m.artifact = a
Sync(t) ==
  LET mine == {a \in DOMAIN artifacts : artifacts[a].activity = t.activity /\ ~artifacts[a].synced} IN
  /\ t.at = "sync"
  /\ markers' = markers \cup {[artifact |-> a, finding |-> artifacts[a].review] :
                                a \in {b \in mine : ~Posted(b)}}
  /\ artifacts' = [a \in DOMAIN artifacts |->
                     IF a \in mine THEN [artifacts[a] EXCEPT !.synced = TRUE] ELSE artifacts[a]]
  /\ threads' = threads \ {t}
  /\ UNCHANGED <<activities, idVars, pruneVars, retrying, reset, countVars>>

-------------------------------------------------------------------------------
(* prune_old_activities *)

Terminal(i) == activities[i].status \in {"Completed", "Error"}
OldActivities == {i \in DOMAIN activities : Terminal(i) /\ activities[i].old}

(* A day has gone by since the last save; no review takes that long. *)
Age(i) ==
  /\ i \in DOMAIN activities /\ Terminal(i) /\ ~activities[i].old
  /\ \A t \in threads : t.activity # i
  /\ activities' = [activities EXCEPT ![i].old = TRUE]
  /\ UNCHANGED <<artifacts, idVars, threads, pruneVars, retrying, reset, markers, countVars>>

ListOld ==
  /\ pruning = {} /\ half = 0 /\ OldActivities # {}
  /\ pruning' = OldActivities
  /\ UNCHANGED <<fileVars, idVars, threads, half, retrying, reset, markers, countVars>>

DeleteCompleted(i) ==
  /\ i \in pruning /\ half = 0
  /\ activities' = Drop(activities, {i} \cap {j \in DOMAIN activities : activities[j].status = "Completed"})
  /\ half' = i
  /\ UNCHANGED <<artifacts, idVars, threads, pruning, retrying, reset, markers, countVars>>

(* delete: the file of the activity, then those of its artifacts. *)
DeleteActivity(i) ==
  /\ i \in pruning /\ half = 0
  /\ activities' = Drop(activities, {i})
  /\ half' = i
  /\ UNCHANGED <<artifacts, idVars, threads, pruning, retrying, reset, markers, countVars>>

DeleteArtifacts ==
  /\ half # 0
  /\ artifacts' = Drop(artifacts, {a \in DOMAIN artifacts : artifacts[a].activity = half})
  /\ pruning' = pruning \ {half} /\ half' = 0
  /\ UNCHANGED <<activities, idVars, threads, retrying, reset, markers, countVars>>

(* An error ends the pass; the next one starts from a new list. *)
PruneFails ==
  /\ pruning # {} /\ Fault
  /\ pruning' = {} /\ half' = 0
  /\ UNCHANGED <<fileVars, idVars, threads, retrying, reset, markers, reviews, findings, retried,
                 calls, resets>>

-------------------------------------------------------------------------------
(* retry_failed_activities *)

(* Failures a call retries: of one kind, retryable, and not yet resolved. *)
Failures == {i \in DOMAIN activities : activities[i].status = "Error" /\ activities[i].resolved = 0}
Active == {i \in DOMAIN activities : activities[i].status = "Running"}

ListFailures ==
  /\ retrying.at = "idle" /\ calls < MaxRetries /\ calls' = calls + 1
  /\ retrying' = [Idle EXCEPT !.at = "next",
                   !.left = {[id |-> i, copy |-> activities[i]] : i \in Failures}]
  /\ UNCHANGED <<fileVars, idVars, threads, pruneVars, reset, markers, reviews, findings, retried,
                 faults, resets>>

EndRetry ==
  /\ retrying.at = "next" /\ retrying.left = {}
  /\ retrying' = Idle
  /\ UNCHANGED <<fileVars, idVars, threads, pruneVars, reset, markers, countVars>>

(* With an active review of the pull request, or no input, it is skipped. *)
SkipFailure(f) ==
  /\ retrying.at = "next" /\ f \in retrying.left
  /\ retrying' = [retrying EXCEPT !.left = @ \ {f}]
  /\ \/ Active # {} /\ UNCHANGED faults
     \/ Active = {} /\ Fault
  /\ UNCHANGED <<fileVars, idVars, threads, pruneVars, reset, markers, reviews, findings, retried,
                 calls, resets>>

(* enqueue_review *)
RetryFailure(f) ==
  /\ retrying.at = "next" /\ f \in retrying.left
  /\ Active = {} /\ Create
  /\ retried' = [retried EXCEPT ![f.copy.review] = @ + 1]
  /\ retrying' = [at |-> "save", left |-> retrying.left \ {f}, of |-> f, new |-> nextId + 1]
  /\ UNCHANGED <<artifacts, nextArtifactId, pruneVars, reset, markers, findings, calls, faults,
                 resets>>

SaveListed ==
  /\ retrying.at = "save"
  /\ activities' = Put(activities, retrying.of.id, retrying.of.copy)
  /\ retrying' = [Idle EXCEPT !.at = "next", !.left = retrying.left]
  /\ UNCHANGED <<artifacts, idVars, threads, pruneVars, reset, markers, countVars>>

(* The copy that was listed is saved, marked resolved, without a touch. *)
SaveResolved ==
  /\ retrying.at = "save"
  /\ activities' = Put(activities, retrying.of.id, [retrying.of.copy EXCEPT !.resolved = retrying.new])
  /\ retrying' = [Idle EXCEPT !.at = "next", !.left = retrying.left]
  /\ UNCHANGED <<artifacts, idVars, threads, pruneVars, reset, markers, countVars>>

(* An error ends the call, also between the new review and the mark. *)
RetryFails ==
  /\ retrying.at # "idle" /\ Fault
  /\ retrying' = Idle
  /\ UNCHANGED <<fileVars, idVars, threads, pruneVars, reset, markers, reviews, findings, retried,
                 calls, resets>>

-------------------------------------------------------------------------------
(* reset_local_state, and the host's start *)

(* Without force it is refused while a review is active. *)
ResetStarts == \E force \in BOOLEAN :
  /\ reset = "idle" /\ resets < MaxResets /\ resets' = resets + 1
  /\ force \/ Active = {}
  /\ reset' = "artifacts"
  /\ UNCHANGED <<fileVars, idVars, threads, pruneVars, retrying, markers, reviews, findings,
                 retried, calls, faults>>

ClearArtifacts ==
  /\ reset = "artifacts" /\ artifacts' = <<>> /\ reset' = "activities"
  /\ UNCHANGED <<activities, idVars, threads, pruneVars, retrying, markers, countVars>>

ClearActivities ==
  /\ reset = "activities" /\ activities' = <<>> /\ reset' = "idle"
  /\ UNCHANGED <<artifacts, idVars, threads, pruneVars, retrying, markers, countVars>>

(* next_numeric_suffix: the largest id among the files. *)
CountFiles(f) == Cardinality(DOMAIN f)
LastIdOf(f) == IF DOMAIN f = {} THEN 0 ELSE Max(DOMAIN f)

(* FsActivityStore.new and recover_interrupted_activities. *)
Restart ==
  /\ Fault
  /\ nextId' = LastIdOf(activities) /\ nextArtifactId' = LastIdOf(artifacts)
  /\ activities' = [i \in DOMAIN activities |->
       IF activities[i].status = "Running" THEN [activities[i] EXCEPT !.status = "Error", !.old = FALSE]
       ELSE activities[i]]
  /\ threads' = {} /\ pruning' = {} /\ half' = 0 /\ retrying' = Idle /\ reset' = "idle"
  /\ UNCHANGED <<artifacts, markers, reviews, findings, retried, calls, resets>>

Prune == ListOld \/ (\E i \in pruning : DeleteActivity(i)) \/ DeleteArtifacts

Next ==
  \/ Start \/ \E t \in threads : SaveArtifact(t) \/ SaveActivity(t) \/ Sync(t)
  \/ \E i \in DOMAIN activities : Age(i)
  \/ Prune \/ PruneFails
  \/ ListFailures \/ EndRetry \/ SaveResolved \/ RetryFails
  \/ \E f \in retrying.left : SkipFailure(f) \/ RetryFailure(f)
  \/ ResetStarts \/ ClearArtifacts \/ ClearActivities
  \/ Restart

Spec == Init /\ [][Next]_vars

(* The pruner's thread comes round every hour. *)
LiveSpec == Spec /\ WF_vars(Prune)

-------------------------------------------------------------------------------
(* Properties *)

TypeOK ==
  /\ \A i \in DOMAIN activities :
       /\ i \in 1..MaxReviews
       /\ activities[i] \in [review : 1..MaxReviews, status : Statuses, old : BOOLEAN,
                             resolved : 0..MaxReviews]
  /\ \A a \in DOMAIN artifacts : a \in 1..MaxArtifacts
       /\ artifacts[a] \in [review : 1..MaxArtifacts, activity : 1..MaxReviews, synced : BOOLEAN]
  /\ threads \subseteq [review : 1..MaxReviews, activity : 1..MaxReviews,
                        at : {"run", "completed", "sync"}]
  /\ pruning \subseteq 1..MaxReviews /\ half \in {0} \cup pruning
  /\ reset \in {"idle", "artifacts", "activities"}
  /\ markers \subseteq [artifact : 1..MaxArtifacts, finding : 1..MaxArtifacts]

(* An id that create or create_artifact gives next is on no file and no    *)
(* review at work has it, also after a restart, a reset and a pruning:     *)
(* nothing stored is overwritten by a new activity or a new finding.       *)
NewIdsAreUnused ==
  /\ \A i \in DOMAIN activities : i <= nextId
  /\ \A a \in DOMAIN artifacts : a <= nextArtifactId
  /\ \A t, u \in threads : t.activity <= nextId /\ (t.activity = u.activity => t = u)

(* A failed review is enqueued again once, whatever the number of calls:   *)
(* again only when a fault came between the enqueuing and the mark.        *)
RetriedOnce == \A r \in 1..MaxReviews : retried[r] <= 1 + faults

(* An activity that ended a day ago goes in the end, after a pass that     *)
(* failed and after a retry that saved it again.                           *)
OldActivitiesGo == []<>(OldActivities = {})

(* "Use `review sync` to synchronize all review artifacts [...] it appends *)
(* only findings not already present" (README.md:88): a synchronized       *)
(* finding is in the pending review.                                       *)
SyncedFindingIsThere == \A a \in DOMAIN artifacts :
  artifacts[a].synced => [artifact |-> a, finding |-> artifacts[a].review] \in markers
===============================================================================

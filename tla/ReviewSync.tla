------------------------------ MODULE ReviewSync ------------------------------
(***************************************************************************)
(* How artifacts reach GitHub.  A call copies the artifacts it is asked    *)
(* for out of the store, waits for the gate of its pull request, brings    *)
(* the authenticated user's pending review up to date and then writes each *)
(* outcome back.  GitHub is shared with the user of the account, who       *)
(* comments, submits and discards on his own, and with requests whose      *)
(* answer is lost.                                                         *)
(*                                                                         *)
(* One pull request.  A finding's path, line and normalised body are its   *)
(* Key; an artifact is a finding or, in Summaries, the text of the review. *)
(* A review's findings are counted, in copies[r][a], so that a second copy *)
(* of a finding is visible.  The order of a call's artifacts, that of a    *)
(* directory listing, is left open.                                        *)
(***************************************************************************)
EXTENDS Integers, FiniteSets

CONSTANTS
  Calls,        \* synchronisations, each run by one thread
  Artifacts,    \* artifacts in the store of activities on this pull request
  Summaries,    \* those that hold the text of a review
  Keys,         \* what identifies a finding apart from its marker
  Key,          \* Key[a]: the finding of an artifact
  Reviews,      \* the review ids GitHub hands out
  Batches,      \* the sets of artifacts a call may be asked to synchronise
  None, Manual, \* no value; a review text the user wrote
  PageSize,     \* how many items a request lists: the code asks for one page
  MaxFaults,    \* requests and saves that fail, or whose answer is lost
  MaxRestarts,  \* restarts of the host
  MaxUserActs   \* what the user does on GitHub

LocalOnly == [kind |-> "local", review |-> None]
Pending(r) == [kind |-> "pending", review |-> r]
Synced(r) == [kind |-> "synced", review |-> r]
SyncStates == {LocalOnly} \cup {Pending(r) : r \in Reviews} \cup {Synced(r) : r \in Reviews}

ASSUME ParametersOK ==
  /\ Summaries \subseteq Artifacts
  /\ Key \in [Artifacts -> Keys]
  /\ Batches \subseteq (SUBSET Artifacts) \ {{}}
  /\ None \notin Calls \cup Artifacts \cup Reviews \cup SyncStates
  /\ Manual \notin Artifacts \cup {None}
  /\ {PageSize, MaxFaults, MaxRestarts, MaxUserActs} \subseteq Nat

VARIABLES
  sync,         \* the store: the sync state of each artifact
  gate,         \* TargetSyncGate: the call that holds this pull request
  pc, frame,    \* where each call is, and its locals
  review,       \* GitHub: the state of each review
  body,         \* GitHub: the text of each review
  copies,       \* GitHub: how many comments in a review carry an artifact's marker
  posted,       \* GitHub: the artifacts a review ever held a comment of
  manual,       \* GitHub: the findings the user commented on himself
  spent         \* how much of the bounds is used

storeVars == <<sync>>
githubVars == <<review, body, copies, posted, manual>>
vars == <<sync, gate, pc, frame, review, body, copies, posted, manual, spent>>

Findings == Artifacts \ Summaries

(* The locals of a call: the artifacts asked for, the copies it works on,  *)
(* the pending review it found and that review's text, the findings it     *)
(* knows to be in it by marker and by key, the outcomes, and the outcomes  *)
(* that are still to be written.                                           *)
Idle == [batch |-> {}, copy |-> [a \in Artifacts |-> LocalOnly], found |-> None,
         text |-> None, marked |-> {}, keys |-> {},
         out |-> [a \in Artifacts |-> None], todo |-> {}]

Inside == {"discover", "fetch", "create", "rediscover", "list", "stage"}
Ended == {"done", "failed"}

Init ==
  /\ sync = [a \in Artifacts |-> LocalOnly]
  /\ gate = None
  /\ pc = [c \in Calls |-> "idle"]
  /\ frame = [c \in Calls |-> Idle]
  /\ review = [r \in Reviews |-> "unused"]
  /\ body = [r \in Reviews |-> None]
  /\ copies = [r \in Reviews |-> [a \in Artifacts |-> 0]]
  /\ posted = [r \in Reviews |-> {}]
  /\ manual = [r \in Reviews |-> {}]
  /\ spent = [faults |-> 0, restarts |-> 0, user |-> 0]

-------------------------------------------------------------------------------
(* What a call computes from its locals *)

NeedsSync(s) == s.kind # "synced"
References(f, a, r) == f.copy[a] = Pending(r)
Remaining(f) == {a \in f.batch : f.out[a] = None}

(* Remembered reviews other than the one found: each must be fetched. *)
ToFetch(f) == {a \in Remaining(f) : f.copy[a].kind = "pending" /\ f.copy[a].review # f.found}

RemoteMatches(f, a) == a \in f.marked \/ Key[a] \in f.keys

(* The findings of the found review have to be listed first. *)
Unstaged(f) == {a \in Remaining(f) \cap Findings : ~References(f, a, f.found)}

(* What fails, is lost, or is done by the user takes from the bounds. *)
Risk(lost) ==
  IF lost THEN spent.faults < MaxFaults /\ spent' = [spent EXCEPT !.faults = @ + 1]
          ELSE UNCHANGED spent
Restarts == spent.restarts < MaxRestarts /\ spent' = [spent EXCEPT !.restarts = @ + 1]
UserActs == spent.user < MaxUserActs /\ spent' = [spent EXCEPT !.user = @ + 1]

(* Mutants of definitions follow the originals' names; each is a plausible *)
(* slip in the code, used to see that a property can fail.                 *)
GotoKeepsGate(c, f, to) ==
  /\ frame' = [frame EXCEPT ![c] = IF to = "apply" THEN [f EXCEPT !.todo = f.batch] ELSE f]
  /\ pc' = [pc EXCEPT ![c] = to]
  /\ gate' = IF gate = c /\ to = "apply" THEN None ELSE gate

(* The gate is released when synchronize returns, before the outcomes are written. *)
Goto(c, f, to) ==
  /\ frame' = [frame EXCEPT ![c] = IF to = "apply" THEN [f EXCEPT !.todo = f.batch] ELSE f]
  /\ pc' = [pc EXCEPT ![c] = to]
  /\ gate' = IF gate = c /\ to \notin Inside THEN None ELSE gate

Fail(c) == Goto(c, frame[c], "failed")

AfterDiscoveryTrustsMemory(f) ==
  IF ToFetch(f) # {} THEN "fetch"
  ELSE IF Remaining(f) = {} THEN "apply"
  ELSE IF f.found = None THEN "create" ELSE "stage"

AfterDiscovery(f) ==
  IF ToFetch(f) # {} THEN "fetch"
  ELSE IF Remaining(f) = {} THEN "apply"
  ELSE IF f.found = None THEN "create"
  ELSE IF Unstaged(f) # {} THEN "list" ELSE "stage"

Resolve(c, a, s) ==
  LET f == [frame[c] EXCEPT !.out[a] = s]
  IN  Goto(c, f, IF Remaining(f) = {} THEN "apply" ELSE "stage")

PendingReviews == {r \in Reviews : review[r] = "pending"}

(* What a list request may return of S: all of it, or one page. *)
Pages(S) ==
  IF Cardinality(S) <= PageSize THEN {S} ELSE {p \in SUBSET S : Cardinality(p) = PageSize}
ListedReviews == Pages({r \in Reviews : review[r] \in {"pending", "submitted"}})

Discovered(f, listed) ==
  IF PendingReviews \cap listed = {} THEN [f EXCEPT !.found = None, !.text = None]
  ELSE LET r == CHOOSE r \in PendingReviews : TRUE
       IN  [f EXCEPT !.found = r, !.text = body[r]]

Present(r) == {a \in Artifacts : copies[r][a] > 0}

(* review_comments_for: a page of what is in a review. *)
ListedComments(r) == Pages(Present(r))

(* create_pending_review: a new review with a text and findings. *)
CreatePendingReview(r, t, left) ==
  /\ review[r] = "unused"
  /\ review' = [review EXCEPT ![r] = "pending"]
  /\ body' = [body EXCEPT ![r] = t]
  /\ copies' = [copies EXCEPT ![r] = [a \in Artifacts |-> IF a \in left THEN 1 ELSE 0]]
  /\ posted' = [posted EXCEPT ![r] = left]

(* append_review_comment: nothing is added to a review that is not pending. *)
AppendReviewComment(r, a) ==
  IF review[r] = "pending"
  THEN /\ copies' = [copies EXCEPT ![r][a] = @ + 1]
       /\ posted' = [posted EXCEPT ![r] = @ \cup {a}]
  ELSE UNCHANGED <<copies, posted>>

-------------------------------------------------------------------------------
(* The steps of a call *)

(* The caller has copied the artifacts from the store. *)
BeginWith(c, b, copy) ==
  LET f == [Idle EXCEPT !.batch = b, !.copy = copy,
                        !.out = [a \in Artifacts |->
                                   IF a \in b /\ ~NeedsSync(copy[a]) THEN copy[a] ELSE None]]
  IN  Goto(c, f, IF Remaining(f) = {} THEN "apply" ELSE "gate")

Begin(c, b) ==
  /\ pc[c] = "idle"
  /\ BeginWith(c, b, sync)
  /\ UNCHANGED <<storeVars, githubVars, spent>>

Acquire(c) ==
  /\ pc[c] = "gate"
  /\ gate = None
  /\ gate' = c
  /\ pc' = [pc EXCEPT ![c] = "discover"]
  /\ UNCHANGED <<storeVars, githubVars, frame, spent>>

Discover(c) ==
  /\ pc[c] = "discover"
  /\ \E listed \in ListedReviews :
       LET f == Discovered(frame[c], listed) IN Goto(c, f, AfterDiscovery(f))
  /\ UNCHANGED <<storeVars, githubVars, spent>>

(* A remembered review: submitted, its artifacts are synced; gone, they    *)
(* are local again; still pending, it is not ours and the call fails.      *)
Fetch(c) ==
  /\ pc[c] = "fetch"
  /\ \E a \in ToFetch(frame[c]) :
       LET f == frame[c]
           r == f.copy[a].review
           mine == {x \in f.batch : References(f, x, r)}
           synced == [f EXCEPT !.out = [x \in Artifacts |->
                                          IF x \in mine THEN Synced(r) ELSE f.out[x]]]
           reset == [f EXCEPT !.copy = [x \in Artifacts |->
                                          IF x \in mine THEN LocalOnly ELSE f.copy[x]]]
       IN  CASE review[r] = "submitted" -> Goto(c, synced, AfterDiscovery(synced))
             [] review[r] = "gone" -> Goto(c, reset, AfterDiscovery(reset))
             [] OTHER -> Fail(c)
  /\ UNCHANGED <<storeVars, githubVars, spent>>

(* POST a review with everything that is left; 422 when there is one already. *)
Create(c, lost) ==
  LET f == frame[c]
      left == Remaining(f)
  IN  /\ pc[c] = "create"
      /\ PendingReviews = {}
      /\ \E r \in Reviews, t \in (left \cap Summaries) \cup {None} :
           /\ t = None <=> left \cap Summaries = {}
           /\ CreatePendingReview(r, t, left \cap Findings)
           /\ IF lost THEN Fail(c)
              ELSE Goto(c, [f EXCEPT !.out = [a \in Artifacts |->
                                  IF a \in left THEN Pending(r) ELSE f.out[a]]], "apply")
      /\ Risk(lost)
      /\ UNCHANGED <<storeVars, manual>>

CreateConflict(c) ==
  /\ pc[c] = "create"
  /\ PendingReviews # {}
  /\ Goto(c, frame[c], "rediscover")
  /\ UNCHANGED <<storeVars, githubVars, spent>>

Rediscover(c) ==
  /\ pc[c] = "rediscover"
  /\ \E listed \in ListedReviews :
       LET f == Discovered(frame[c], listed)
       IN  IF f.found = None THEN Fail(c)
           ELSE Goto(c, f, IF Unstaged(f) # {} THEN "list" ELSE "stage")
  /\ UNCHANGED <<storeVars, githubVars, spent>>

ListMarkersOnly(c) ==
  LET f == frame[c]
      r == f.found
  IN  /\ pc[c] = "list"
      /\ IF review[r] = "gone" THEN Fail(c)
         ELSE \E page \in ListedComments(r) : Goto(c, [f EXCEPT !.marked = page], "stage")
      /\ UNCHANGED <<storeVars, githubVars, spent>>

List(c) ==
  LET f == frame[c]
      r == f.found
  IN  /\ pc[c] = "list"
      /\ IF review[r] = "gone" THEN Fail(c)
         ELSE \E page \in ListedComments(r) :
                Goto(c, [f EXCEPT !.marked = page,
                                  !.keys = {Key[a] : a \in page} \cup manual[r]], "stage")
      /\ UNCHANGED <<storeVars, githubVars, spent>>

StageKnownSkipsManual(c) ==
  /\ pc[c] = "stage"
  /\ \E a \in Remaining(frame[c]) :
       LET f == frame[c]
       IN  /\ \/ References(f, a, f.found)
              \/ a \in Findings /\ RemoteMatches(f, a)
              \/ a \in Summaries /\ f.text \notin Artifacts
           /\ Resolve(c, a, Pending(f.found))
  /\ UNCHANGED <<storeVars, githubVars, spent>>

(* An artifact that is in the review already, or a summary that must not   *)
(* replace the user's.                                                     *)
StageKnown(c) ==
  /\ pc[c] = "stage"
  /\ \E a \in Remaining(frame[c]) :
       LET f == frame[c]
       IN  \/ /\ References(f, a, f.found) \/ (a \in Findings /\ RemoteMatches(f, a))
                                           \/ (a \in Summaries /\ f.text = a)
              /\ Resolve(c, a, Pending(f.found))
           \/ /\ a \in Summaries /\ f.text = Manual /\ ~References(f, a, f.found)
              /\ Resolve(c, a, LocalOnly)
  /\ UNCHANGED <<storeVars, githubVars, spent>>

(* Append a finding; GitHub takes no comment for a review that is not pending. *)
Append(c, lost) ==
  LET f == frame[c]
      r == f.found
  IN  /\ pc[c] = "stage"
      /\ lost => review[r] = "pending"
      /\ \E a \in Unstaged(f) :
           /\ ~RemoteMatches(f, a)
           /\ AppendReviewComment(r, a)
           /\ IF lost \/ review[r] # "pending" THEN Fail(c)
              ELSE LET g == [f EXCEPT !.keys = @ \cup {Key[a]}, !.out[a] = Pending(r)]
                   IN  Goto(c, g, IF Remaining(g) = {} THEN "apply" ELSE "stage")
      /\ Risk(lost)
      /\ UNCHANGED <<storeVars, review, body, manual>>

(* Replace a text that is empty or this program's own, as discovery saw it. *)
UpdateBody(c, lost) ==
  LET f == frame[c]
      r == f.found
  IN  /\ pc[c] = "stage"
      /\ lost => review[r] # "gone"
      /\ \E a \in Remaining(f) \cap Summaries :
           /\ ~References(f, a, r)
           /\ f.text \notin {a, Manual}
           /\ body' = IF review[r] = "gone" THEN body ELSE [body EXCEPT ![r] = a]
           /\ IF lost \/ review[r] = "gone" THEN Fail(c) ELSE Resolve(c, a, Pending(r))
      /\ Risk(lost)
      /\ UNCHANGED <<storeVars, review, copies, posted, manual>>

(* update_artifact_sync_state, one artifact at a time. *)
Apply(c) ==
  /\ pc[c] = "apply"
  /\ \E a \in frame[c].todo :
       /\ sync' = [sync EXCEPT ![a] = frame[c].out[a]]
       /\ frame' = [frame EXCEPT ![c].todo = @ \ {a}]
       /\ pc' = IF frame[c].todo = {a} THEN [pc EXCEPT ![c] = "done"] ELSE pc
  /\ UNCHANGED <<gate, githubVars, spent>>

(* A request that has no effect fails, or a save does. *)
Break(c) ==
  /\ pc[c] \in Inside \cup {"apply"}
  /\ Risk(TRUE)
  /\ Fail(c)
  /\ UNCHANGED <<storeVars, githubVars>>

Restart ==
  /\ \E c \in Calls : pc[c] \notin Ended \cup {"idle"}
  /\ Restarts
  /\ pc' = [c \in Calls |-> IF pc[c] = "idle" THEN "idle" ELSE
                            IF pc[c] \in Ended THEN pc[c] ELSE "failed"]
  /\ gate' = None
  /\ UNCHANGED <<storeVars, githubVars, frame>>

-------------------------------------------------------------------------------
(* The user of the account, on GitHub *)

Submit(r) ==
  /\ UserActs /\ review[r] = "pending"
  /\ review' = [review EXCEPT ![r] = "submitted"]
  /\ UNCHANGED <<sync, gate, pc, frame, body, copies, posted, manual>>

Discard(r) ==
  /\ UserActs /\ review[r] = "pending"
  /\ review' = [review EXCEPT ![r] = "gone"]
  /\ copies' = [copies EXCEPT ![r] = [a \in Artifacts |-> 0]]
  /\ UNCHANGED <<sync, gate, pc, frame, body, posted, manual>>

DeleteComment(r, a) ==
  /\ UserActs /\ copies[r][a] > 0
  /\ copies' = [copies EXCEPT ![r][a] = @ - 1]
  /\ UNCHANGED <<sync, gate, pc, frame, review, body, posted, manual>>

(* His own comment, in a review it starts when none is pending. *)
Comment(r, k) ==
  /\ UserActs
  /\ review[r] = "pending" \/ (review[r] = "unused" /\ PendingReviews = {})
  /\ review' = [review EXCEPT ![r] = "pending"]
  /\ manual' = [manual EXCEPT ![r] = @ \cup {k}]
  /\ UNCHANGED <<sync, gate, pc, frame, body, copies, posted>>

WriteBody(r) ==
  /\ UserActs /\ review[r] = "pending"
  /\ body' = [body EXCEPT ![r] = Manual]
  /\ UNCHANGED <<sync, gate, pc, frame, review, copies, posted, manual>>

-------------------------------------------------------------------------------
(* A call under way, whoever began it *)
Step(c) ==
  \/ Acquire(c) \/ Discover(c) \/ Fetch(c) \/ CreateConflict(c) \/ Rediscover(c)
  \/ List(c) \/ StageKnown(c) \/ Apply(c)
  \/ \E lost \in BOOLEAN : Create(c, lost) \/ Append(c, lost) \/ UpdateBody(c, lost)

User ==
  \E r \in Reviews :
    \/ Submit(r) \/ Discard(r) \/ WriteBody(r)
    \/ \E a \in Findings : DeleteComment(r, a)
    \/ \E k \in Keys : Comment(r, k)

Next ==
  \/ \E c \in Calls : Step(c) \/ Break(c) \/ \E b \in Batches : Begin(c, b)
  \/ Restart
  \/ User

Spec == Init /\ [][Next]_vars

(* Threads are scheduled and requests to GitHub return. *)
Fairness == \A c \in Calls : WF_vars(Step(c))
LiveSpec == Spec /\ Fairness

-------------------------------------------------------------------------------
(* Properties *)

Frames ==
  [batch : SUBSET Artifacts, copy : [Artifacts -> SyncStates],
   found : Reviews \cup {None}, text : Artifacts \cup {None, Manual},
   marked : SUBSET Artifacts, keys : SUBSET Keys,
   out : [Artifacts -> SyncStates \cup {None}], todo : SUBSET Artifacts]
Pcs == Inside \cup Ended \cup {"idle", "gate", "apply"}

(* The fields are of their types, and a finding is never counted below zero. *)
TypeOK ==
  /\ sync \in [Artifacts -> SyncStates]
  /\ gate \in Calls \cup {None}
  /\ pc \in [Calls -> Pcs]
  /\ frame \in [Calls -> Frames]
  /\ review \in [Reviews -> {"unused", "pending", "submitted", "gone"}]
  /\ body \in [Reviews -> Artifacts \cup {None, Manual}]
  /\ copies \in [Reviews -> [Artifacts -> Nat]]
  /\ posted \in [Reviews -> SUBSET Artifacts]
  /\ manual \in [Reviews -> SUBSET Keys]
  /\ spent \in [faults : Nat, restarts : Nat, user : Nat]

(* A review never holds two comments for one finding, neither two of one   *)
(* artifact nor two of artifacts with the same key: appending lists first, *)
(* and calls for one pull request exclude each other, also when answers    *)
(* are lost and calls are repeated.                                        *)
OneCopyPerFinding ==
  \A r \in Reviews : \A a, b \in Present(r) :
    copies[r][a] = 1 /\ (Key[a] = Key[b] => a = b)

(* The finding of artifact a is, or was, in review r. *)
WasIn(a, r) == Key[a] \in manual[r] \cup {Key[b] : b \in posted[r]}

(* The store says Pending of a finding only for a review that got it, of a *)
(* summary only for one that has a text (a later summary, or the user, may *)
(* have replaced it), and Synced only for one the user has submitted.      *)
StoreTellsTheTruth ==
  \A a \in Artifacts, r \in Reviews :
    /\ sync[a] \in {Pending(r), Synced(r)} =>
         IF a \in Summaries THEN body[r] # None ELSE WasIn(a, r)
    /\ sync[a] = Synced(r) => review[r] = "submitted"

(* What is inside synchronize holds the gate, alone. *)
GateExcludes ==
  \A c \in Calls : pc[c] \in Inside <=> gate = c

(* Every call comes to an end: none waits for the gate for good.           *)
EveryCallEnds == \A c \in Calls : pc[c] = "gate" ~> pc[c] \in Ended

(* README.md:88: manually authored draft summaries are preserved.          *)
ManualBodyKept == [][\A r \in Reviews : body[r] = Manual => body'[r] = Manual]_vars
================================================================================

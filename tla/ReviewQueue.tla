---------------------------- MODULE ReviewQueue ----------------------------
(***************************************************************************)
(* The review execution queue of the host: every request for a review, the *)
(* thread that runs it, the concurrency slots, the set of reviews running  *)
(* in this host, and the activity records on disk.                         *)
(*                                                                         *)
(* No lock is held across the steps of a request, so every access to the   *)
(* store, to the slots or to the running set is an action of its own.  A   *)
(* request keeps copies of the records it read and saves whole records.    *)
(***************************************************************************)
EXTENDS Naturals, FiniteSets

CONSTANTS
    Request,        \* the calls made to the host
    PR, Head,       \* pull requests and head commits
    NoPR, NoHead,   \* a record that is not labelled yet
    Calls,          \* what a request may ask for
    FirstId, LastId,\* numeric suffixes of the activity ids
    IdOrder,        \* position of an id in the order of the id strings
    MaxConcurrent,  \* max_concurrent_reviews of the configuration
    MaxTime,        \* bound: seconds the clock may advance
    MaxErrors,      \* bound: store operations that fail
    MaxRestarts,    \* bound: crashes of the host
    MaxCommands,    \* bound: bare `nitpick-agent-host` commands beside the daemon
    OneCallAtATime  \* TRUE when callers never overlap

Activity == FirstId .. LastId
NoActivity == 0

Kind == {"enqueue", "remote", "poll"}
Call == [kind : Kind, pr : PR, head : Head, force : BOOLEAN]

ASSUME RequestFinite == IsFiniteSet(Request)
ASSUME IdsPositive == FirstId \in Nat \ {0} /\ LastId \in Nat
ASSUME CallsTyped == Calls \subseteq Call
ASSUME IdOrderTyped ==
    /\ IdOrder \in [Activity -> Nat]
    /\ \A a, b \in Activity : IdOrder[a] = IdOrder[b] => a = b
ASSUME BoundsTyped ==
    /\ MaxConcurrent \in Nat
    /\ MaxTime \in Nat
    /\ MaxErrors \in Nat
    /\ MaxRestarts \in Nat
    /\ MaxCommands \in Nat
ASSUME OneCallTyped == OneCallAtATime \in BOOLEAN

Limit == IF MaxConcurrent > 1 THEN MaxConcurrent ELSE 1

Status == {"Absent", "Queued", "Running", "Completed", "Error", "Cancelled"}
Reason == {"none", "superseded", "stale", "reused", "restarted", "failed"}

Record == [id     : Activity,
           status : Status,
           pr     : PR \cup {NoPR},
           head   : Head \cup {NoHead},
           error  : Reason]

VARIABLES
    store,      \* the activity records on disk
    nextId,     \* the next activity id
    created,    \* created_at_unix of each activity
    now,        \* the clock, in seconds
    req,        \* what each request asks for
    pc,         \* where each request is
    act,        \* the activity of each request
    samePr,     \* the local same_pr_active of each request
    held,       \* the records each request read and has not used yet
    outcome,    \* how the call or the review of each request ended
    used,       \* the slot counter
    running,    \* the activities registered as running in this host
    published,  \* the activities whose artifacts were pushed to GitHub
    foreign,    \* the records another host process is recovering
    errors, restarts, commands

disk    == <<store, nextId, created, now>>
local   == <<act, samePr, held, outcome>>
host    == <<used, running>>
budgets == <<errors, restarts, commands>>
vars    == <<disk, req, pc, local, host, published, foreign, budgets>>

AdmissionPcs == {"cancelList", "cancel", "lookup", "checkRunning", "markStale",
                 "samePr", "create", "label", "prepare", "reuse", "slot",
                 "markRunning"}
ReviewPcs == {"startReview", "relabel", "provider", "logSave", "failReview"}
Pc == {"idle", "done", "leaked", "register", "waitPrior", "acquire", "blocked",
       "unregister", "release", "sync"} \cup AdmissionPcs \cup ReviewPcs

TypeOK ==
    /\ store \in [Activity -> Record]
    /\ \A a \in Activity : store[a].id = a
    /\ nextId \in Nat /\ nextId >= FirstId
    /\ created \in [Activity -> Nat]
    /\ now \in Nat
    /\ req \in [Request -> Calls]
    /\ pc \in [Request -> Pc]
    /\ act \in [Request -> Activity \cup {NoActivity}]
    /\ samePr \in [Request -> BOOLEAN]
    /\ held \in [Request -> SUBSET Record]
    /\ outcome \in [Request -> {"none", "Completed", "Error", "Reused"}]
    /\ used \in Nat
    /\ running \subseteq Activity
    /\ published \subseteq Activity
    /\ foreign \subseteq Record
    /\ errors \in Nat /\ restarts \in Nat /\ commands \in Nat

Init ==
    /\ store = [a \in Activity |-> [id |-> a, status |-> "Absent", pr |-> NoPR,
                                    head |-> NoHead, error |-> "none"]]
    /\ nextId = FirstId
    /\ created = [a \in Activity |-> 0]
    /\ now = 0
    /\ req \in [Request -> Calls]
    /\ pc = [r \in Request |-> "idle"]
    /\ act = [r \in Request |-> NoActivity]
    /\ samePr = [r \in Request |-> FALSE]
    /\ held = [r \in Request |-> {}]
    /\ outcome = [r \in Request |-> "none"]
    /\ used = 0
    /\ running = {}
    /\ published = {}
    /\ foreign = {}
    /\ errors = 0 /\ restarts = 0 /\ commands = 0

-----------------------------------------------------------------------------
(* Reads of the store                                                      *)

IsActive(c) == c.status \in {"Queued", "Running"}

MatchesTarget(c, r) == c.pr = req[r].pr

MatchesInput(c, r) == MatchesTarget(c, r) /\ c.head = req[r].head

\* Mutant: the request's own activity is not excepted.
OtherActiveWithOwn(r) == {store[a] : a \in {b \in Activity : IsActive(store[b])}}

\* The active records list() returns, without the request's own.
OtherActive(r) == {store[a] : a \in {b \in Activity \ {act[r]} : IsActive(store[b])}}

ActiveForSamePr(r) == {c \in OtherActive(r) : MatchesTarget(c, r)}
\* Mutant: a queued review is not reused.
RunningForInput(r) == {c \in OtherActive(r) : MatchesInput(c, r) /\ c.status = "Running"}

ActiveForInput(r) == {c \in OtherActive(r) : MatchesInput(c, r)}

\* list() is sorted by file name, that is by the id string.
FirstListed(c, S) == c \in S /\ \A d \in S : IdOrder[c.id] <= IdOrder[d.id]

\* Creation second, then the id as a string.
StartedBefore(a, b) ==
    \/ created[a] < created[b]
    \/ created[a] = created[b] /\ IdOrder[a] < IdOrder[b]

\* Mutant: every other active review of the pull request counts as earlier.
PriorUnordered(r) == ActiveForSamePr(r)

Prior(r) == {c \in ActiveForSamePr(r) : StartedBefore(c.id, act[r])}

-----------------------------------------------------------------------------
(* Steps of a request                                                      *)

Goto(r, label) == pc' = [pc EXCEPT ![r] = label]

Save(c) == store' = [store EXCEPT ![c.id] = c]

Keep(r, S) == held' = [held EXCEPT ![r] = S]

\* The request's own copy of its activity.
Mine(r, status, error) ==
    [id |-> act[r], status |-> status, pr |-> req[r].pr, head |-> req[r].head,
     error |-> error]

\* A record marked as failed, for the reason given.
Failed(c, reason) == [c EXCEPT !.status = "Error", !.error = reason]

\* A record whose head commit is not known yet.
Headless(c) == [c EXCEPT !.head = NoHead]

Polled(r) == req[r].kind = "poll"
Remote(r) == req[r].kind = "remote"

\* The first step of enqueue and of enqueue_existing after the update.
Entry(r) == IF req[r].force THEN "cancelList" ELSE "lookup"

Admitting(r) == pc[r] \in AdmissionPcs \cup {"register"}

Submit(r) ==
    /\ pc[r] = "idle"
    /\ OneCallAtATime => \A s \in Request : ~Admitting(s)
    /\ Goto(r, IF req[r].kind = "enqueue" THEN Entry(r) ELSE "create")
    /\ UNCHANGED <<disk, req, local, host, published, foreign, budgets>>

CancelList(r) ==
    /\ pc[r] = "cancelList"
    /\ Keep(r, ActiveForSamePr(r))
    /\ Goto(r, IF ActiveForSamePr(r) = {} THEN "lookup" ELSE "cancel")
    /\ UNCHANGED <<disk, req, act, samePr, outcome, host, published, foreign, budgets>>

Cancel(r) ==
    /\ pc[r] = "cancel"
    /\ \E c \in held[r] :
        /\ FirstListed(c, held[r])
        /\ Save(Failed(c, "superseded"))
        /\ Keep(r, held[r] \ {c})
        /\ Goto(r, IF held[r] = {c} THEN "lookup" ELSE "cancel")
    /\ UNCHANGED <<nextId, created, now, req, act, samePr, outcome, host,
                   published, foreign, budgets>>

Reuse(r) ==
    IF Remote(r)
    THEN Goto(r, "reuse") /\ UNCHANGED outcome
    ELSE Goto(r, "done") /\ outcome' = [outcome EXCEPT ![r] = "Reused"]

Lookup(r) ==
    /\ pc[r] = "lookup"
    /\ \/ /\ ActiveForInput(r) = {}
          /\ Keep(r, {})
          /\ Goto(r, "samePr")
          /\ UNCHANGED outcome
       \/ \E c \in ActiveForInput(r) :
            /\ FirstListed(c, ActiveForInput(r))
            /\ Keep(r, {c})
            /\ \/ c.status = "Queued" /\ Reuse(r)
               \/ c.status = "Running" /\ Goto(r, "checkRunning") /\ UNCHANGED outcome
    /\ UNCHANGED <<disk, req, act, samePr, host, published, foreign, budgets>>

\* Mutant: the running set is not consulted.
CheckRunningNever(r) ==
    /\ pc[r] = "checkRunning"
    /\ Goto(r, "markStale")
    /\ UNCHANGED <<disk, req, local, host, published, foreign, budgets>>

CheckRunning(r) ==
    /\ pc[r] = "checkRunning"
    /\ \E c \in held[r] :
        \/ c.id \in running /\ Reuse(r)
        \/ c.id \notin running /\ Goto(r, "markStale") /\ UNCHANGED outcome
    /\ UNCHANGED <<disk, req, act, samePr, held, host, published, foreign, budgets>>

MarkStale(r) ==
    /\ pc[r] = "markStale"
    /\ \E c \in held[r] : Save(Failed(c, "stale"))
    /\ Keep(r, {})
    /\ Goto(r, "samePr")
    /\ UNCHANGED <<nextId, created, now, req, act, samePr, outcome, host,
                   published, foreign, budgets>>

\* The prepared activity gives way to the active one it found.
MarkReused(r) ==
    /\ pc[r] = "reuse"
    /\ Save(Mine(r, "Cancelled", "reused"))
    /\ outcome' = [outcome EXCEPT ![r] = "Reused"]
    /\ Goto(r, "done")
    /\ UNCHANGED <<nextId, created, now, req, act, samePr, held, host,
                   published, foreign, budgets>>

CheckSamePr(r) ==
    /\ pc[r] = "samePr"
    /\ samePr' = [samePr EXCEPT ![r] = ActiveForSamePr(r) # {}]
    /\ Goto(r, IF Remote(r) THEN "slot" ELSE "create")
    /\ UNCHANGED <<disk, req, act, held, outcome, host, published, foreign, budgets>>

\* Mutant: the caller gets the next suffix, not the one it created.
CreateReturnsNextId(r) ==
    /\ pc[r] = "create"
    /\ nextId \in Activity
    /\ act' = [act EXCEPT ![r] = nextId + 1]
    /\ nextId' = nextId + 1
    /\ created' = [created EXCEPT ![nextId] = now]
    /\ Save([id |-> nextId, status |-> "Queued", pr |-> NoPR, head |-> NoHead,
             error |-> "none"])
    /\ Goto(r, "label")
    /\ UNCHANGED <<now, req, samePr, held, outcome, host, published, foreign, budgets>>

Create(r) ==
    /\ pc[r] = "create"
    /\ nextId \in Activity
    /\ act' = [act EXCEPT ![r] = nextId]
    /\ nextId' = nextId + 1
    /\ created' = [created EXCEPT ![nextId] = now]
    /\ Save([id |-> nextId, status |-> "Queued", pr |-> NoPR, head |-> NoHead,
             error |-> "none"])
    /\ Goto(r, "label")
    /\ UNCHANGED <<now, req, samePr, held, outcome, host, published, foreign, budgets>>

\* A remote request does not know the head yet; its call returns here.
Label(r) ==
    /\ pc[r] = "label"
    /\ \/ Remote(r)  /\ Save(Headless(Mine(r, "Queued", "none")))
       \/ ~Remote(r) /\ Save(Mine(r, "Queued", "none"))
    /\ Goto(r, IF Remote(r) THEN "prepare"
               ELSE IF Polled(r) THEN "markRunning" ELSE "slot")
    /\ UNCHANGED <<nextId, created, now, req, local, host, published, foreign, budgets>>

\* The preparation thread has the input: the queued activity gets its head.
Prepare(r) ==
    /\ pc[r] = "prepare"
    /\ Save(Mine(r, "Queued", "none"))
    /\ Goto(r, Entry(r))
    /\ UNCHANGED <<nextId, created, now, req, local, host, published, foreign, budgets>>

\* Mutant: the error of the preparation is only logged.
PrepareFailsSilently(r) ==
    /\ pc[r] = "prepare"
    /\ outcome' = [outcome EXCEPT ![r] = "Error"]
    /\ Goto(r, "done")
    /\ UNCHANGED <<disk, req, act, samePr, held, host, published, foreign, budgets>>

PrepareFails(r) ==
    /\ pc[r] = "prepare"
    /\ Save(Headless(Mine(r, "Error", "failed")))
    /\ outcome' = [outcome EXCEPT ![r] = "Error"]
    /\ Goto(r, "done")
    /\ UNCHANGED <<nextId, created, now, req, act, samePr, held, host,
                   published, foreign, budgets>>

-----------------------------------------------------------------------------
(* Slots: the counter under its mutex, and its condition variable          *)

\* Mutant: one slot too many.
TrySlotOffByOne(r) ==
    /\ pc[r] = "slot"
    /\ IF ~samePr[r] /\ used <= Limit
       THEN used' = used + 1 /\ Goto(r, "markRunning")
       ELSE UNCHANGED used /\ Goto(r, "waitPrior")
    /\ UNCHANGED <<disk, req, local, running, published, foreign, budgets>>

TrySlot(r) ==
    /\ pc[r] = "slot"
    /\ IF ~samePr[r] /\ used < Limit
       THEN used' = used + 1 /\ Goto(r, "markRunning")
       ELSE UNCHANGED used /\ Goto(r, "waitPrior")
    /\ UNCHANGED <<disk, req, local, running, published, foreign, budgets>>

MarkRunning(r) ==
    /\ pc[r] = "markRunning"
    /\ Save(Mine(r, "Running", "none"))
    /\ Goto(r, IF Polled(r) THEN "startReview" ELSE "register")
    /\ UNCHANGED <<nextId, created, now, req, local, host, published, foreign, budgets>>

\* Mutant: a queued review does not wait for the earlier ones.
WaitPriorSkipped(r) ==
    /\ pc[r] = "waitPrior"
    /\ Goto(r, "acquire")
    /\ UNCHANGED <<disk, req, local, host, published, foreign, budgets>>

WaitPrior(r) ==
    /\ pc[r] = "waitPrior"
    /\ Prior(r) = {}
    /\ Goto(r, "acquire")
    /\ UNCHANGED <<disk, req, local, host, published, foreign, budgets>>

Acquire(r) ==
    /\ pc[r] = "acquire"
    /\ used < Limit
    /\ used' = used + 1
    /\ Goto(r, "register")
    /\ UNCHANGED <<disk, req, local, running, published, foreign, budgets>>

Block(r) ==
    /\ pc[r] = "acquire"
    /\ used >= Limit
    /\ Goto(r, "blocked")
    /\ UNCHANGED <<disk, req, local, host, published, foreign, budgets>>

Register(r) ==
    /\ pc[r] = "register"
    /\ running' = running \cup {act[r]}
    /\ Goto(r, "startReview")
    /\ UNCHANGED <<disk, req, local, used, published, foreign, budgets>>

\* Mutant: only a completed review leaves the running set.
UnregisterCompleted(r) ==
    /\ pc[r] = "unregister"
    /\ running' = IF outcome[r] = "Completed" THEN running \ {act[r]} ELSE running
    /\ Goto(r, "release")
    /\ UNCHANGED <<disk, req, local, used, published, foreign, budgets>>

Unregister(r) ==
    /\ pc[r] = "unregister"
    /\ running' = running \ {act[r]}
    /\ Goto(r, "release")
    /\ UNCHANGED <<disk, req, local, used, published, foreign, budgets>>

AfterRelease(r) == IF outcome[r] = "Completed" THEN "sync" ELSE "done"

\* Mutant: nobody is notified.
ReleaseSilently(r) ==
    /\ pc[r] = "release"
    /\ used' = IF used = 0 THEN 0 ELSE used - 1
    /\ Goto(r, AfterRelease(r))
    /\ UNCHANGED <<disk, req, local, running, published, foreign, budgets>>

\* notify_one: some blocked thread, if there is one, looks at the counter again.
Release(r) ==
    /\ pc[r] = "release"
    /\ used' = IF used = 0 THEN 0 ELSE used - 1
    /\ \/ /\ \A w \in Request : pc[w] # "blocked"
          /\ Goto(r, AfterRelease(r))
       \/ \E w \in Request :
            /\ pc[w] = "blocked"
            /\ pc' = [pc EXCEPT ![r] = AfterRelease(r), ![w] = "acquire"]
    /\ UNCHANGED <<disk, req, local, running, published, foreign, budgets>>

-----------------------------------------------------------------------------
(* The review itself: AgentRuntime::run_review                             *)

StartReview(r) ==
    /\ pc[r] = "startReview"
    /\ Save(Mine(r, "Running", "none"))
    /\ Goto(r, "relabel")
    /\ UNCHANGED <<nextId, created, now, req, local, host, published, foreign, budgets>>

Relabel(r) ==
    /\ pc[r] = "relabel"
    /\ Save(Mine(r, "Running", "none"))
    /\ Goto(r, "provider")
    /\ UNCHANGED <<nextId, created, now, req, local, host, published, foreign, budgets>>

\* The sink reads the record, adds the log and saves it back.
LogRead(r) ==
    /\ pc[r] = "provider"
    /\ Keep(r, {store[act[r]]})
    /\ Goto(r, "logSave")
    /\ UNCHANGED <<disk, req, act, samePr, outcome, host, published, foreign, budgets>>

LogSave(r) ==
    /\ pc[r] = "logSave"
    /\ \E c \in held[r] : Save(c)
    /\ Keep(r, {})
    /\ Goto(r, "provider")
    /\ UNCHANGED <<nextId, created, now, req, act, samePr, outcome, host,
                   published, foreign, budgets>>

\* Mutant: a failed review returns before it gives its slot back.
EndReviewKeepsSlot(r, status, error) ==
    /\ Save(Mine(r, status, error))
    /\ outcome' = [outcome EXCEPT ![r] = status]
    /\ Goto(r, IF Polled(r) \/ status = "Error" THEN "done" ELSE "unregister")
    /\ UNCHANGED <<nextId, created, now, req, act, samePr, held, host,
                   published, foreign, budgets>>

\* The final save of the request's own copy.  A polled review holds no slot
\* and is not registered, so its thread is done.
EndReview(r, status, error) ==
    /\ Save(Mine(r, status, error))
    /\ outcome' = [outcome EXCEPT ![r] = status]
    /\ Goto(r, IF Polled(r) THEN "done" ELSE "unregister")
    /\ UNCHANGED <<nextId, created, now, req, act, samePr, held, host,
                   published, foreign, budgets>>

Complete(r) == pc[r] = "provider" /\ EndReview(r, "Completed", "none")

\* A provider error, a timeout or an observed cancellation.
Fail(r) == pc[r] \in {"provider", "failReview"} /\ EndReview(r, "Error", "failed")

Finish(r) == Complete(r) \/ Fail(r)

\* The artifacts of a completed review go to GitHub; a failure is only logged.
Sync(r) ==
    /\ pc[r] = "sync"
    /\ \/ published' = published \cup {act[r]}
       \/ UNCHANGED published
    /\ Goto(r, "done")
    /\ UNCHANGED <<disk, req, local, host, foreign, budgets>>

-----------------------------------------------------------------------------
(* Failures                                                                *)

\* A store operation of request r fails, and the error goes where ? sends it.
StoreError(r) ==
    /\ errors < MaxErrors
    /\ errors' = errors + 1
    /\ \/ /\ \/ pc[r] \in AdmissionPcs \ {"checkRunning", "slot", "markRunning"}
             \/ pc[r] = "markRunning" /\ Polled(r)
             \/ pc[r] = "waitPrior"
          /\ Goto(r, "done")
          /\ Keep(r, {})
          /\ outcome' = [outcome EXCEPT ![r] = "Error"]
       \/ /\ pc[r] = "markRunning" /\ ~Polled(r)
          /\ Goto(r, "leaked")
          /\ outcome' = [outcome EXCEPT ![r] = "Error"]
          /\ UNCHANGED held
       \/ /\ pc[r] = "logSave"
          /\ Goto(r, "failReview")
          /\ Keep(r, {})
          /\ UNCHANGED outcome
       \/ /\ pc[r] \in ReviewPcs \ {"logSave"}
          /\ Goto(r, IF Polled(r) THEN "done" ELSE "unregister")
          /\ outcome' = [outcome EXCEPT ![r] = "Error"]
          /\ UNCHANGED held
    /\ UNCHANGED <<disk, req, act, samePr, host, published, foreign, restarts, commands>>

\* Mutant: recovery takes the queued activities for the interrupted ones.
RecoveredQueued == [a \in Activity |->
                       IF store[a].status = "Queued" THEN Failed(store[a], "restarted")
                                                     ELSE store[a]]

\* Recovery at start-up marks what was running as failed.
Recovered == [a \in Activity |->
                 IF store[a].status = "Running" THEN Failed(store[a], "restarted")
                                               ELSE store[a]]

\* The host dies with all its threads; the next one recovers before it serves.
Restart ==
    /\ restarts < MaxRestarts
    /\ restarts' = restarts + 1
    /\ store' = Recovered
    /\ pc' = [r \in Request |-> IF pc[r] = "idle" THEN "idle" ELSE "done"]
    /\ held' = [r \in Request |-> {}]
    /\ used' = 0
    /\ running' = {}
    /\ UNCHANGED <<nextId, created, now, req, act, samePr, outcome, published,
                   foreign, errors, commands>>

\* A second process of the host binary runs the same recovery at start-up,
\* whatever the daemon is doing.
ForeignList ==
    /\ commands < MaxCommands
    /\ foreign = {}
    /\ commands' = commands + 1
    /\ foreign' = {store[a] : a \in {b \in Activity : store[b].status = "Running"}}
    /\ UNCHANGED <<disk, req, pc, local, host, published, errors, restarts>>

ForeignSave ==
    /\ \E c \in foreign :
        /\ FirstListed(c, foreign)
        /\ Save(Failed(c, "restarted"))
        /\ foreign' = foreign \ {c}
    /\ UNCHANGED <<nextId, created, now, req, pc, local, host, published, budgets>>

Tick ==
    /\ now < MaxTime
    /\ now' = now + 1
    /\ UNCHANGED <<store, nextId, created, req, pc, local, host, published,
                   foreign, budgets>>

-----------------------------------------------------------------------------
Admission(r) ==
    \/ CancelList(r) \/ Cancel(r) \/ Lookup(r) \/ CheckRunning(r) \/ MarkStale(r)
    \/ MarkReused(r) \/ CheckSamePr(r) \/ Create(r) \/ Label(r)
    \/ Prepare(r) \/ PrepareFails(r)

Execution(r) ==
    \/ TrySlot(r) \/ MarkRunning(r) \/ WaitPrior(r) \/ Acquire(r) \/ Block(r)
    \/ Register(r) \/ StartReview(r) \/ Relabel(r) \/ LogRead(r) \/ LogSave(r)
    \/ Finish(r) \/ Unregister(r) \/ Release(r) \/ Sync(r)

Step(r) == Admission(r) \/ Execution(r)

\* Every call has returned and no thread is left.
Quiet ==
    /\ \A r \in Request : pc[r] \in {"done", "leaked"}
    /\ UNCHANGED vars

Next ==
    \/ \E r \in Request : Submit(r) \/ Step(r) \/ StoreError(r)
    \/ Restart \/ ForeignList \/ ForeignSave \/ Tick
    \/ Quiet

Spec == Init /\ [][Next]_vars

\* Threads are scheduled; a provider run ends (it has a deadline) however
\* often its output is logged meanwhile.
Fairness == \A r \in Request : WF_vars(Step(r)) /\ SF_vars(Finish(r))

FairSpec == Spec /\ Fairness

-----------------------------------------------------------------------------
(* Properties                                                              *)

SlotPcs == {"markRunning", "register", "unregister", "release", "leaked"} \cup ReviewPcs

SlotHolders == {r \in Request : ~Polled(r) /\ pc[r] \in SlotPcs}

\* The counter of review_slots.rs counts the requests between their acquisition
\* and their release, and never exceeds max(1, max_concurrent): no path of the
\* queue releases twice, forgets to acquire or counts a request twice.
SlotsAccounted ==
    /\ used = Cardinality(SlotHolders)
    /\ used <= Limit

\* wait_and_acquire and notify_one lose no wakeup: while a thread sleeps on the
\* condition variable, every free slot has a woken thread on its way to it.
NoLostWakeup ==
    (\E r \in Request : pc[r] = "blocked") =>
        Limit <= used + Cardinality({r \in Request : pc[r] = "acquire"})

RegisteredPcs == {"unregister"} \cup ReviewPcs

\* The running set the queue consults to tell a live review from a stale one is
\* exactly the set of queued reviews that execute in this host.
RunningSetExact ==
    running = {act[r] : r \in {s \in Request : ~Polled(s) /\ pc[s] \in RegisteredPcs}}

LivePcs == {"register"} \cup ReviewPcs

\* While no store operation has failed, a record that says Running has a live
\* thread of this host behind it: restarts, supersession, log saves that write
\* back an old copy and reuse never leave a running review nobody runs.
NoOrphanRunning ==
    errors = 0 =>
        \A a \in Activity : store[a].status = "Running" =>
            \E r \in Request : act[r] = a /\ pc[r] \in LivePcs

UnfinishedPcs == Pc \ {"idle", "done", "leaked", "unregister", "release", "sync"}

\* Without failures and restarts every active record (queued or running), which
\* blocks later reviews of its pull request, still has a thread that will end it.
NoOrphanActive ==
    errors = 0 /\ restarts = 0 =>
        \A a \in Activity : IsActive(store[a]) =>
            \E r \in Request : act[r] = a /\ pc[r] \in UnfinishedPcs

Executing(r) == pc[r] \in {"relabel", "provider", "logSave", "failReview"}

\* Two reviews of one pull request never run at the same time: they share a
\* checkout.
SerialPerPr ==
    \A r, s \in Request :
        r # s /\ Executing(r) /\ Executing(s) => req[r].pr # req[s].pr

Admitted(r) == pc[r] \in {"waitPrior", "acquire", "blocked", "register"} \cup ReviewPcs

\* One head commit of a pull request is reviewed by one admitted request at a
\* time; the others reuse its activity.
OneReviewPerHead ==
    \A r, s \in Request :
        r # s /\ Admitted(r) /\ Admitted(s) =>
            <<req[r].pr, req[r].head>> # <<req[s].pr, req[s].head>>

\* A caller that was told to reuse an active review was not sent to one that
\* had itself given way to another.
ReusedReviewIsNotCancelled ==
    \A r \in Request : outcome[r] = "Reused" =>
        \A c \in held[r] : store[c.id].status # "Cancelled"

\* A record superseded by a forced review stays in error.
SupersededStaysError ==
    [][\A a \in Activity :
        store[a].error = "superseded" => store'[a].status = "Error"]_store

\* A queued review is declared stale only when no thread of this host executes
\* it: of calls that do not overlap and do not poll, none takes a live review for
\* the remains of a dead host.
OnlyDeadReviewsAreStale ==
    [][\A r \in Request : pc[r] = "markStale" /\ pc'[r] = "samePr" =>
        \A c \in held[r] : \A s \in Request : act[s] = c.id => ~Executing(s)]_vars

\* README.md:16: local storage is the source of truth.  A review whose artifacts
\* were pushed to GitHub is one the store holds as completed.
LocalStoreKnowsPublished ==
    \A a \in published : store[a].status = "Completed"

\* Slots implement the abstract pool.
Pool == INSTANCE SlotPool WITH holders <- SlotHolders
ImplementsSlotPool == Pool!PoolSpec

Uninterrupted == [](errors = 0 /\ restarts = 0)

AllReturn == <>[](\A r \in Request : pc[r] \in {"idle", "done"})

\* Without failures every call returns and every thread ends: nobody waits for a
\* slot or for an earlier review forever, also when another process of the
\* binary rewrites the records meanwhile.
EveryCallEnds == Uninterrupted => AllReturn

\* And every record the calls leave on disk leaves the active states for good.
EveryActivityEnds ==
    Uninterrupted => <>[](\A a \in Activity : ~IsActive(store[a]))

\* tests/daemon.rs:788: every review of a pull request gets its turn.  A
\* restart of the host is no store failure, and no reason to wait forever.
RestartStrandsNobody == [](errors = 0) => AllReturn

-----------------------------------------------------------------------------
(* What the invariants above rest on.  The slot counter needs Placement: it *)
(* would be wrong if a polled review released.  The running set needs       *)
(* ActsDistinct: a thread must not unregister the activity of another.  The *)
(* running records need LogCopyIsOwn: a log save must revive no other one.  *)

OwnPcs == {"label", "prepare", "reuse", "slot", "markRunning", "register",
           "waitPrior", "acquire", "blocked", "unregister", "release", "sync"}
          \cup ReviewPcs

PolledPcs == {"idle", "create", "label", "markRunning", "done"} \cup ReviewPcs

\* A step that saves the request's own activity has one; a prepared request has
\* one from its first step on; a polled request never touches the slots.
Placement ==
    \A r \in Request :
        /\ pc[r] \in OwnPcs => act[r] \in Activity
        /\ Remote(r) /\ pc[r] \in AdmissionPcs \ {"create"} => act[r] \in Activity
        /\ pc[r] \in {"prepare", "reuse"} => Remote(r)
        /\ Polled(r) => pc[r] \in PolledPcs

\* Ids are handed out once.
ActsDistinct ==
    \A r, s \in Request :
        act[r] # NoActivity => act[r] < nextId /\ (act[r] = act[s] => r = s)

\* The sink writes back the record of its own activity.
LogCopyIsOwn ==
    \A r \in Request : pc[r] = "logSave" => \A c \in held[r] : c.id = act[r]
=============================================================================

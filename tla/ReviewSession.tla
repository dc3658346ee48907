---------------------------- MODULE ReviewSession ----------------------------
(***************************************************************************)
(* The review session: the tools a provider calls while it reviews or      *)
(* chats.  The tool process keeps the session in a file that every call    *)
(* locks, loads, changes and replaces.  An automated review is finished    *)
(* once and its file is read when the provider has exited; a chat commits  *)
(* one batch after the other through the host, which keeps the promise of  *)
(* CommitOnce.                                                             *)
(*                                                                         *)
(* A comment is named after the call that adds it.                         *)
(***************************************************************************)
EXTENDS Naturals, FiniteSets

CONSTANTS
  Calls,        \* the tool calls of the session
  Valid,        \* those whose comment, when they add one, the validator takes
  Drafts,       \* the comments that are on the pull request from the start
  Robot,        \* those that are drafts by nitpick
  Batches,      \* what batch ids are drawn from
  None,
  MaxFaults     \* bound: host and GitHub calls that fail, tool processes that die

ASSUME SessionOK ==
  /\ Valid \subseteq Calls /\ Robot \subseteq Drafts
  /\ Calls \cap Drafts = {} /\ Batches # {}
  /\ MaxFaults \in Nat

Comments == Drafts \cup Calls
Requests == [id : Batches, adds : SUBSET Calls, dels : SUBSET Comments]
Tools == [tool : {"add", "finish", "existing"}] \cup [tool : {"delete"}, id : Comments]

VARIABLES
  chat,         \* whether this is a chat
  file,         \* session.json; None when the handle is dropped
  lock,         \* session.json.lock: the call that created it
  pc, op, copy, \* each call, what it is and what it loaded
  phase,        \* the review that started the provider
  todo, output, \* the deletions it still makes, the comments it returns
  spent,        \* faults so far
  claim, removed, committed, added     \* the host: see CommitOnce

callVars == <<pc, op, copy>>
reviewVars == <<phase, todo, output>>
hostVars == <<claim, removed, committed, added>>
vars == <<chat, file, lock, callVars, reviewVars, spent, hostVars>>

Host == INSTANCE CommitOnce WITH Ids <- Batches

(* What the pull request holds for nitpick to see. *)
Live == (Drafts \cup added) \ UNION {removed[b] : b \in Batches}

NewBatch == CHOOSE b \in Batches : claim[b] = None

State == [adds : SUBSET Calls, dels : SUBSET Comments, existing : SUBSET Comments,
          batch : Batches, finished : BOOLEAN]

ASSUME NoneOK == None \notin Requests /\ None \notin State /\ None \notin Tools /\ None \notin Calls

(* What the calls add is new to GitHub. *)
Init ==
  /\ chat \in BOOLEAN
  /\ added = {} /\ Host!Init
  /\ file = [adds |-> {}, dels |-> {}, existing |-> Drafts,
             batch |-> CHOOSE b \in Batches : TRUE, finished |-> FALSE]
  /\ lock = None
  /\ pc = [c \in Calls |-> "idle"]
  /\ op = [c \in Calls |-> None]
  /\ copy = [c \in Calls |-> None]
  /\ phase = "running" /\ todo = {} /\ output = None
  /\ spent = 0

Fault == spent < MaxFaults /\ spent' = spent + 1

-------------------------------------------------------------------------------
(* One tool call *)

To(c, where) == pc' = [pc EXCEPT ![c] = where]
Change(c, state) == copy' = [copy EXCEPT ![c] = state]
Active == {"lock", "update", "asked", "write", "accepted", "refused"}

(* The provider calls a tool.  *)
Call(c) ==
  /\ pc[c] = "idle" /\ phase = "running"
  /\ \E t \in Tools : op' = [op EXCEPT ![c] = t]
  /\ To(c, "lock")
  /\ UNCHANGED <<chat, file, lock, copy, reviewVars, spent, hostVars>>

MayAddWhenFinished(s, c) == c \in Valid

AcquireAnyway(c) ==
  /\ pc[c] = "lock" /\ file # None
  /\ lock' = c
  /\ To(c, "update") /\ Change(c, file)
  /\ UNCHANGED <<chat, file, op, reviewVars, spent, hostVars>>

(* create_new makes the lock file, or fails while there is one; whoever    *)
(* has it loads the state.                                                 *)
Acquire(c) ==
  /\ pc[c] = "lock" /\ lock = None /\ file # None
  /\ lock' = c
  /\ To(c, "update") /\ Change(c, file)
  /\ UNCHANGED <<chat, file, op, reviewVars, spent, hostVars>>

AcquirePatiently(c) ==
  /\ pc[c] = "lock" /\ file = None
  /\ To(c, "error")
  /\ UNCHANGED <<chat, file, lock, op, copy, reviewVars, spent, hostVars>>

(* After five seconds of waiting, or without a directory to lock in. *)
AcquireFails(c) ==
  /\ pc[c] = "lock" /\ (lock # None \/ file = None)
  /\ To(c, "error")
  /\ UNCHANGED <<chat, file, lock, op, copy, reviewVars, spent, hostVars>>

(* add_review_comment: not after the finish, and what the validator takes. *)
MayAdd(s, c) == ~s.finished /\ c \in Valid

AddComment(c) ==
  /\ pc[c] = "update" /\ op[c].tool = "add"
  /\ IF MayAdd(copy[c], c)
     THEN To(c, "write") /\ Change(c, [copy[c] EXCEPT !.adds = @ \cup {c}])
     ELSE To(c, "refused") /\ UNCHANGED copy
  /\ UNCHANGED <<chat, file, lock, op, reviewVars, spent, hostVars>>

(* Only listed drafts of nitpick's own. *)
Deletable(s, d) == d \in s.existing /\ d \in Robot \cup Calls

DeleteDraft(c) ==
  /\ pc[c] = "update" /\ op[c].tool = "delete"
  /\ IF Deletable(copy[c], op[c].id)
     THEN To(c, "write") /\ Change(c, [copy[c] EXCEPT !.dels = @ \cup {op[c].id}])
     ELSE To(c, "refused") /\ UNCHANGED copy
  /\ UNCHANGED <<chat, file, lock, op, reviewVars, spent, hostVars>>

(* A chat asks the host what there is now. *)
ListExisting(c) ==
  /\ pc[c] = "update" /\ op[c].tool = "existing"
  /\ To(c, "write")
  /\ IF chat THEN Change(c, [copy[c] EXCEPT !.existing = Live]) ELSE UNCHANGED copy
  /\ UNCHANGED <<chat, file, lock, op, reviewVars, spent, hostVars>>

BatchOf(s) == [id |-> s.batch, adds |-> s.adds, dels |-> s.dels]

(* finish_review: the end of a review; the current batch of a chat, which  *)
(* the host takes unless it knows the id for another request.              *)
FinishReview(c) ==
  LET q == BatchOf(copy[c]) IN
  /\ pc[c] = "update" /\ op[c].tool = "finish"
  /\ CASE ~chat -> /\ To(c, "write") /\ Change(c, [copy[c] EXCEPT !.finished = TRUE])
                   /\ UNCHANGED hostVars
       [] chat /\ q.adds \cup q.dels = {} -> To(c, "write") /\ UNCHANGED <<copy, hostVars>>
       [] OTHER -> /\ UNCHANGED copy
                   /\ \/ claim[q.id] = q /\ To(c, "asked") /\ UNCHANGED hostVars
                      \/ claim[q.id] \notin {q, None} /\ To(c, "refused") /\ UNCHANGED hostVars
                      \/ /\ claim[q.id] = None /\ To(c, "asked")
                         /\ claim' = [claim EXCEPT ![q.id] = q] /\ Host!Claim(q.id)
  /\ UNCHANGED <<chat, file, lock, op, reviewVars, spent>>

(* The answer must be the receipt of the batch; the next one gets a new    *)
(* id (bound: while Batches has one).                                      *)
TakeReceipt(c) ==
  /\ pc[c] = "asked" /\ copy[c].batch \in committed
  /\ \E b \in Batches : claim[b] = None
  /\ To(c, "write")
  /\ Change(c, [copy[c] EXCEPT !.adds = {}, !.dels = {}, !.existing = Live, !.batch = NewBatch])
  /\ UNCHANGED <<chat, file, lock, op, reviewVars, spent, hostVars>>

RenewBatch(c) ==
  /\ pc[c] \in {"update", "asked"} /\ chat /\ op[c].tool \in {"finish", "existing"}
  /\ Fault
  /\ Change(c, [copy[c] EXCEPT !.batch = NewBatch])
  /\ To(c, "write")
  /\ UNCHANGED <<chat, file, lock, op, reviewVars, hostVars>>

(* The call to the host fails, whatever the host does or has done; the     *)
(* update's error leaves the file as it is.                                *)
HostCallFails(c) ==
  /\ pc[c] \in {"update", "asked"} /\ chat /\ op[c].tool \in {"finish", "existing"}
  /\ Fault
  /\ To(c, "refused")
  /\ UNCHANGED <<chat, file, lock, op, copy, reviewVars, hostVars>>

(* A rename replaces the file; with the directory gone it fails. *)
Write(c) ==
  /\ pc[c] = "write"
  /\ IF file = None THEN To(c, "refused") /\ UNCHANGED file
     ELSE To(c, "accepted") /\ file' = copy[c]
  /\ UNCHANGED <<chat, lock, op, copy, reviewVars, spent, hostVars>>

(* Dropping the guard removes the lock file; the answer goes out. *)
Unlock(c) ==
  /\ pc[c] \in {"accepted", "refused"}
  /\ lock' = None
  /\ To(c, IF pc[c] = "accepted" THEN "ok" ELSE "error") /\ Change(c, None)
  /\ UNCHANGED <<chat, file, op, reviewVars, spent, hostVars>>

(* The tool process dies with its calls; the lock file stays. *)
ToolDies ==
  /\ \E c \in Calls : pc[c] \in Active
  /\ Fault
  /\ pc' = [c \in Calls |-> IF pc[c] \in Active THEN "error" ELSE pc[c]]
  /\ copy' = [c \in Calls |-> None]
  /\ UNCHANGED <<chat, file, lock, op, reviewVars, hostVars>>

HostWork ==
  /\ chat
  /\ \/ \E b \in Batches : /\ claim[b] # None /\ ~ claim[b].adds \subseteq added
                         /\ added' = added \cup claim[b].adds /\ Host!Post
     \/ \E b \in Batches : Host!Remove(b) \/ Host!Commit(b)
  /\ UNCHANGED <<chat, file, lock, callVars, reviewVars, spent>>

-------------------------------------------------------------------------------
(* HostReviewProvider.review, and the end of a chat *)

(* The provider exits, its tool process perhaps a little later. *)
Exit ==
  /\ phase = "running"
  /\ phase' = "exited"
  /\ UNCHANGED <<chat, file, lock, callVars, todo, output, spent, hostVars>>

ReadUnfinished ==
  /\ phase = "exited"
  /\ IF chat THEN phase' = "ended" /\ file' = None /\ lock' = None /\ UNCHANGED <<todo, output>>
     ELSE /\ phase' = "deleting" /\ todo' = file.dels /\ output' = file.adds
          /\ UNCHANGED <<file, lock>>
  /\ UNCHANGED <<chat, callVars, spent, hostVars>>

(* The session's state is read without the lock.  A chat only warns of     *)
(* what is staged; a review fails unless finish_review was called.  The    *)
(* handle, dropped, takes the files with it.                               *)
ReadSession ==
  /\ phase = "exited"
  /\ IF chat \/ ~file.finished
     THEN /\ phase' = IF chat THEN "ended" ELSE "failed"
          /\ file' = None /\ lock' = None
          /\ UNCHANGED <<todo, output>>
     ELSE /\ phase' = "deleting" /\ todo' = file.dels /\ output' = file.adds
          /\ UNCHANGED <<file, lock>>
  /\ UNCHANGED <<chat, callVars, spent, hostVars>>

(* delete_review_comments, one request each: an error ends the review. *)
DeleteOnGitHub ==
  /\ phase = "deleting" /\ todo # {}
  /\ \E d \in todo :
       \/ /\ removed' = [removed EXCEPT ![file.batch] = @ \cup {d}]
          /\ todo' = todo \ {d}
          /\ UNCHANGED <<file, lock, phase, output, spent>>
       \/ /\ Fault
          /\ phase' = "failed" /\ file' = None /\ lock' = None /\ output' = None
          /\ UNCHANGED <<todo, removed>>
  /\ UNCHANGED <<chat, callVars, claim, committed, added>>

Return ==
  /\ phase = "deleting" /\ todo = {}
  /\ phase' = "returned" /\ file' = None /\ lock' = None
  /\ UNCHANGED <<chat, callVars, todo, output, spent, hostVars>>

-------------------------------------------------------------------------------
CallStep(c) ==
  \/ Acquire(c) \/ AcquireFails(c) \/ AddComment(c) \/ DeleteDraft(c)
  \/ ListExisting(c) \/ FinishReview(c) \/ TakeReceipt(c) \/ Write(c) \/ Unlock(c)

Next ==
  \/ \E c \in Calls : Call(c) \/ CallStep(c) \/ HostCallFails(c)
  \/ ToolDies \/ HostWork
  \/ Exit \/ ReadSession \/ DeleteOnGitHub \/ Return

Spec == Init /\ [][Next]_vars

(* Threads run on and the host serves what it was asked; a provider need   *)
(* never exit.                                                             *)
Fairness == (\A c \in Calls : WF_vars(CallStep(c))) /\ WF_vars(HostWork)
LiveSpec == Spec /\ Fairness

-------------------------------------------------------------------------------
(* Properties *)

(* The fields are of their types.                                          *)
TypeOK ==
  /\ chat \in BOOLEAN
  /\ file \in State \cup {None}
  /\ lock \in Calls \cup {None}
  /\ pc \in [Calls -> Active \cup {"idle", "ok", "error"}]
  /\ op \in [Calls -> Tools \cup {None}]
  /\ copy \in [Calls -> State \cup {None}]
  /\ phase \in {"running", "exited", "deleting", "returned", "failed", "ended"}
  /\ todo \subseteq Comments /\ output \in (SUBSET Calls) \cup {None}
  /\ claim \in [Batches -> Requests \cup {None}]
  /\ removed \in [Batches -> SUBSET Comments]
  /\ committed \subseteq Batches /\ added \subseteq Calls

Said(tool) == {c \in Calls : pc[c] = "ok" /\ op[c].tool = tool}

(* A comment the provider was told is accepted is staged, in the review    *)
(* that is returned, or in a batch the host has committed: no concurrent   *)
(* call's write loses it (review_mcp.rs:655) and none is accepted that     *)
(* comes after the finish (492).                                           *)
NothingAcceptedIsLost ==
  \A c \in Said("add") :
    \/ phase \in {"failed", "ended"}
    \/ phase \in {"running", "exited"} /\ c \in file.adds
    \/ phase \in {"deleting", "returned"} /\ c \in output
    \/ \E b \in committed : c \in claim[b].adds

(* Until it is dropped, the file of a review goes through the states of a  *)
(* session that is kept in memory behind a mutex: no two calls interleave. *)
One == INSTANCE ActiveSession WITH
  Robot <- Robot \cup Calls,
  comments <- file.adds, deleted <- file.dels,
  existing <- file.existing, finished <- file.finished
FileIsOneSession ==
  One!Init /\ [][~chat /\ file # None /\ file' # None => One!Next]_file

(* A review returns only when finish_review was called, its comments are   *)
(* those the validator took, and only drafts of nitpick's that a tool call *)
(* named are deleted.                                                      *)
ReviewKeepsItsWord ==
  LET Asked(tool) == {c \in Calls : op[c] # None /\ op[c].tool = tool} IN
  /\ phase \in {"deleting", "returned"} =>
       /\ Asked("finish") # {}
       /\ output \subseteq Asked("add") \cap Valid
  /\ todo \cup UNION {removed[b] : b \in Batches}
       \subseteq (Robot \cup Calls) \cap {op[c].id : c \in Asked("delete")}

(* A finding is asked of the host under one batch id only, however often   *)
(* finish_review fails or its answer is lost: with another id it would be  *)
(* posted again.                                                           *)
OneBatchPerComment ==
  \A b, d \in Batches :
    b # d /\ claim[b] # None /\ claim[d] # None => claim[b].adds \cap claim[d].adds = {}

(* Every tool call is answered, even when a process that died has left the *)
(* lock file behind.                                                       *)
EveryCallAnswered == \A c \in Calls : [](pc[c] \in Active => <>(pc[c] \in {"ok", "error"}))

(* README.md:100, "A failed finish keeps the batch for retry": the host    *)
(* would take the staged batch under its id.                               *)
StagedBatchCanBeFinished ==
  chat /\ file # None /\ file.batch \notin committed
    => claim[file.batch] \in {BatchOf(file), None}
===============================================================================

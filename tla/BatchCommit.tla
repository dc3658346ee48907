----------------------------- MODULE BatchCommit -----------------------------
(***************************************************************************)
(* finish_review: a batch of staged additions and deletions is committed   *)
(* to the store and to GitHub.  A journal per batch id makes the commit    *)
(* resumable: it pins the request, records each deletion, and keeps the    *)
(* receipt that later calls are given.  Calls with the same id exclude     *)
(* each other; the additions go through the calls of ReviewSync, one at a  *)
(* time, beside synchronisations of the whole activity.                    *)
(*                                                                         *)
(* A committer c is a call that commits ask[c]; a retry is another one     *)
(* that asks for the same.  A comment on GitHub is <<review, artifact>>.   *)
(***************************************************************************)
EXTENDS ReviewSync

CONSTANTS
  Committers,   \* the calls that commit a batch
  Plans,        \* p[c]: the batch id, the additions and the deletions c is asked for
  Session       \* the drafts the chat session started with

Requests == {p[c] : p \in Plans, c \in Committers}
Ids == {q.id : q \in Requests}
Comments == Reviews \X Findings
JournalType == [request : Requests, deleted : SUBSET Comments, result : BOOLEAN]

ASSUME BatchesOK ==
  /\ Committers \subseteq Calls
  /\ Plans \subseteq [Committers -> Requests]
  /\ \A q \in Requests : q.adds \subseteq Findings /\ q.dels \subseteq Comments
  /\ None \notin Requests \cup JournalType
  /\ Session \subseteq Comments

VARIABLES
  ask,          \* what each committer was asked
  saved,        \* the store: the artifacts that exist
  journal,      \* the journal file of each batch id
  snapshot,     \* the session file: the robot drafts the session knows
  moved,        \* GitHub: the head is not the session's any more
  guard,        \* BatchCommitGuard: the committer that holds a batch id
  step, mine    \* where each commit is, and its locals

batchVars == <<ask, saved, journal, snapshot, moved, guard, step, mine>>
syncVars == vars
allVars == <<vars, batchVars>>

NewJournal(q) == [request |-> q, deleted |-> {}, result |-> FALSE]
Blank == [journal |-> None, copy |-> [a \in Artifacts |-> LocalOnly], left |-> {},
          drafts |-> {}]
Working == {"read", "snapshot", "persist", "head", "get", "save", "add", "adding",
            "delete", "record", "list", "update", "finish"}
IsEmpty(q) == q.adds = {} /\ q.dels = {}

(* The session's drafts are in a pending review, and in the store. *)
BInit ==
  /\ sync = [a \in Artifacts |->
               IF \E r \in Reviews : <<r, a>> \in Session
               THEN Pending(CHOOSE r \in Reviews : <<r, a>> \in Session) ELSE LocalOnly]
  /\ gate = None
  /\ pc = [c \in Calls |-> "idle"]
  /\ frame = [c \in Calls |-> Idle]
  /\ review = [r \in Reviews |->
                 IF \E a \in Artifacts : <<r, a>> \in Session THEN "pending" ELSE "unused"]
  /\ body = [r \in Reviews |-> None]
  /\ copies = [r \in Reviews |-> [a \in Artifacts |-> IF <<r, a>> \in Session THEN 1 ELSE 0]]
  /\ posted = [r \in Reviews |-> {a \in Artifacts : <<r, a>> \in Session}]
  /\ manual = [r \in Reviews |-> {}]
  /\ spent = [faults |-> 0, restarts |-> 0, user |-> 0]
  /\ ask \in Plans
  /\ saved = {a \in Artifacts : \E r \in Reviews : <<r, a>> \in Session}
  /\ journal = [i \in Ids |-> None]
  /\ snapshot = Session
  /\ moved = FALSE
  /\ guard = [i \in Ids |-> None]
  /\ step = [c \in Committers |-> "idle"]
  /\ mine = [c \in Committers |-> Blank]

-------------------------------------------------------------------------------
(* Mutants of definitions are named after them. *)
ToStepKeepsGuard(c, m, to) ==
  /\ mine' = [mine EXCEPT ![c] = m]
  /\ step' = [step EXCEPT ![c] = to]
  /\ guard' = IF to = "done" THEN [guard EXCEPT ![ask[c].id] = None] ELSE guard

ToStep(c, m, to) ==
  /\ mine' = [mine EXCEPT ![c] = m]
  /\ step' = [step EXCEPT ![c] = to]
  /\ guard' = IF to \in Ended THEN [guard EXCEPT ![ask[c].id] = None] ELSE guard

GiveUp(c) == ToStep(c, mine[c], "failed")

Deletions(m) == m.journal.request.dels \ m.journal.deleted

AfterAddsDeletesFirst(m) ==
  IF Deletions(m) # {} THEN "delete" ELSE IF m.left # {} THEN "add" ELSE "list"

(* What follows: the additions that are left, then the deletions. *)
AfterAdds(m) == IF m.left # {} THEN "add" ELSE IF Deletions(m) # {} THEN "delete" ELSE "list"

(* persist_journal writes the committer's own copy. *)
Persist(c, j) == journal' = [journal EXCEPT ![ask[c].id] = j]

Claim(c) ==
  /\ step[c] = "idle"
  /\ guard[ask[c].id] = None
  /\ guard' = [guard EXCEPT ![ask[c].id] = c]
  /\ step' = [step EXCEPT ![c] = "read"]
  /\ UNCHANGED <<ask, syncVars, saved, journal, snapshot, moved, mine>>

ReadJournalTrusting(c) ==
  LET q == ask[c]
      j == journal[q.id]
  IN  /\ step[c] = "read"
      /\ IF j # None /\ j.result THEN ToStep(c, mine[c], "done")
         ELSE ToStep(c, [mine[c] EXCEPT !.journal = NewJournal(q)],
                     IF IsEmpty(q) THEN "persist" ELSE "snapshot")
      /\ UNCHANGED <<ask, syncVars, saved, journal, snapshot, moved>>

(* The id of another request is refused; a receipt is handed out again. *)
ReadJournal(c) ==
  LET q == ask[c]
      j == journal[q.id]
  IN  /\ step[c] = "read"
      /\ IF j = None
         THEN ToStep(c, [mine[c] EXCEPT !.journal = NewJournal(q)],
                     IF IsEmpty(q) THEN "persist" ELSE "snapshot")
         ELSE IF j.request # q THEN GiveUp(c)
         ELSE IF j.result THEN ToStep(c, mine[c], "done")
         ELSE ToStep(c, [mine[c] EXCEPT !.journal = j],
                     IF IsEmpty(q) THEN "finish" ELSE "head")
      /\ UNCHANGED <<ask, syncVars, saved, journal, snapshot, moved>>

(* What is to be deleted must be a draft the session knows. *)
Deletable(q) == q.dels \subseteq snapshot
LoadSnapshot(c) ==
  /\ step[c] = "snapshot"
  /\ IF Deletable(ask[c]) THEN ToStep(c, mine[c], "persist") ELSE GiveUp(c)
  /\ UNCHANGED <<ask, syncVars, saved, journal, snapshot, moved>>

PersistNew(c) ==
  /\ step[c] = "persist"
  /\ Persist(c, mine[c].journal)
  /\ ToStep(c, mine[c], IF IsEmpty(ask[c]) THEN "finish" ELSE "head")
  /\ UNCHANGED <<ask, syncVars, saved, snapshot, moved>>

CheckHead(c) ==
  /\ step[c] = "head"
  /\ IF moved THEN GiveUp(c)
     ELSE IF ask[c].adds = {} THEN ToStep(c, mine[c], AfterAdds(mine[c]))
     ELSE ToStep(c, mine[c], "get")
  /\ UNCHANGED <<ask, syncVars, saved, journal, snapshot, moved>>

(* ensure_artifacts reads what there is, or makes it up, and saves it all. *)
GetArtifacts(c) ==
  /\ step[c] = "get"
  /\ ToStep(c, [mine[c] EXCEPT !.left = ask[c].adds,
                               !.copy = [a \in Artifacts |-> IF a \in saved THEN sync[a]
                                                             ELSE LocalOnly]], "save")
  /\ UNCHANGED <<ask, syncVars, saved, journal, snapshot, moved>>

SaveArtifact(c) ==
  /\ step[c] = "save"
  /\ \E a \in mine[c].left :
       /\ saved' = saved \cup {a}
       /\ sync' = [sync EXCEPT ![a] = mine[c].copy[a]]
       /\ IF mine[c].left = {a} THEN ToStep(c, [mine[c] EXCEPT !.left = ask[c].adds], "add")
          ELSE ToStep(c, [mine[c] EXCEPT !.left = @ \ {a}], "save")
  /\ UNCHANGED <<ask, gate, pc, frame, githubVars, spent, journal, snapshot, moved>>

(* synchronize one artifact, with the copy ensure_artifacts returned. *)
Add(c) ==
  /\ step[c] = "add"
  /\ \E a \in mine[c].left :
       /\ BeginWith(c, {a}, mine[c].copy)
       /\ ToStep(c, [mine[c] EXCEPT !.left = @ \ {a}], "adding")
  /\ UNCHANGED <<ask, storeVars, githubVars, spent, saved, journal, snapshot, moved>>

Added(c) ==
  /\ step[c] = "adding"
  /\ pc[c] \in Ended
  /\ IF pc[c] = "done" THEN ToStep(c, mine[c], AfterAdds(mine[c])) ELSE GiveUp(c)
  /\ pc' = [pc EXCEPT ![c] = "idle"]
  /\ UNCHANGED <<ask, storeVars, githubVars, gate, frame, spent, saved, journal, snapshot, moved>>

(* A deletion that finds nothing (404) counts. *)
Delete(c, lost) ==
  /\ step[c] = "delete"
  /\ \E d \in Deletions(mine[c]) :
       /\ copies' = [copies EXCEPT ![d[1]][d[2]] = IF @ > 0 THEN @ - 1 ELSE 0]
       /\ IF lost THEN GiveUp(c)
          ELSE ToStep(c, [mine[c] EXCEPT !.journal.deleted = @ \cup {d}], "record")
  /\ Risk(lost)
  /\ UNCHANGED <<ask, storeVars, gate, pc, frame, review, body, posted, manual,
                 saved, journal, snapshot, moved>>

RecordDeletion(c) ==
  /\ step[c] = "record"
  /\ Persist(c, mine[c].journal)
  /\ ToStep(c, mine[c], AfterAdds(mine[c]))
  /\ UNCHANGED <<ask, syncVars, saved, snapshot, moved>>

(* review_comments: a page of what is in pending reviews. *)
ListedDrafts == Pages({d \in Comments : review[d[1]] = "pending" /\ d[2] \in Present(d[1])})
ListComments(c) ==
  /\ step[c] = "list"
  /\ \E page \in ListedDrafts :
       ToStep(c, [mine[c] EXCEPT !.drafts = page], "update")
  /\ UNCHANGED <<ask, syncVars, saved, journal, snapshot, moved>>

UpdateSnapshot(c) ==
  /\ step[c] = "update"
  /\ snapshot' = mine[c].drafts
  /\ ToStep(c, mine[c], "finish")
  /\ UNCHANGED <<ask, syncVars, saved, journal, moved>>

Finish(c) ==
  /\ step[c] = "finish"
  /\ Persist(c, [mine[c].journal EXCEPT !.result = TRUE])
  /\ ToStep(c, mine[c], "done")
  /\ UNCHANGED <<ask, syncVars, saved, snapshot, moved>>

(* A request or a file access fails. *)
BreakCommit(c) ==
  /\ step[c] \in Working \ {"adding"}
  /\ Risk(TRUE)
  /\ GiveUp(c)
  /\ UNCHANGED <<ask, storeVars, gate, pc, frame, githubVars, saved, journal, snapshot, moved>>

(* The host dies: threads, gates and guards with it. *)
HostRestart ==
  /\ \/ \E c \in Committers : step[c] \in Working
     \/ \E c \in Calls : pc[c] \notin Ended \cup {"idle"}
  /\ Restarts
  /\ step' = [c \in Committers |-> IF step[c] \in Working THEN "failed" ELSE step[c]]
  /\ pc' = [c \in Calls |-> IF c \in Committers THEN "idle"
                            ELSE IF pc[c] = "idle" \/ pc[c] \in Ended THEN pc[c] ELSE "failed"]
  /\ gate' = None
  /\ guard' = [i \in Ids |-> None]
  /\ UNCHANGED <<ask, storeVars, githubVars, frame, saved, journal, snapshot, moved, mine>>

(* The author pushes to the pull request. *)
Push ==
  /\ UserActs /\ ~moved
  /\ moved' = TRUE
  /\ UNCHANGED <<ask, storeVars, gate, pc, frame, githubVars, saved, journal, snapshot,
                 guard, step, mine>>

(* `review sync` of the activity: the artifacts it has by now. *)
BeginActivity(c) ==
  /\ c \notin Committers
  /\ pc[c] = "idle"
  /\ saved # {}
  /\ BeginWith(c, saved, sync)
  /\ UNCHANGED <<storeVars, githubVars, spent>>

-------------------------------------------------------------------------------
CommitStep(c) ==
  \/ Claim(c) \/ ReadJournal(c) \/ LoadSnapshot(c) \/ PersistNew(c) \/ CheckHead(c)
  \/ GetArtifacts(c) \/ SaveArtifact(c) \/ Add(c) \/ Added(c) \/ RecordDeletion(c)
  \/ ListComments(c) \/ UpdateSnapshot(c) \/ Finish(c)
  \/ \E lost \in BOOLEAN : Delete(c, lost)

SyncStep(c) == (Step(c) \/ Break(c) \/ BeginActivity(c)) /\ UNCHANGED batchVars

BNext ==
  \/ \E c \in Committers : CommitStep(c) \/ BreakCommit(c)
  \/ \E c \in Calls : SyncStep(c)
  \/ User /\ UNCHANGED batchVars
  \/ Push
  \/ HostRestart

BSpec == BInit /\ [][BNext]_allVars

(* Threads are scheduled and requests return. *)
BFairness ==
  /\ \A c \in Committers : WF_allVars(CommitStep(c))
  /\ \A c \in Calls : WF_allVars(Step(c) /\ UNCHANGED batchVars)
BLiveSpec == BSpec /\ BFairness

-------------------------------------------------------------------------------
(* Properties *)

Locals == [journal : JournalType \cup {None}, copy : [Artifacts -> SyncStates],
           left : SUBSET Artifacts, drafts : SUBSET Comments]

(* The fields are of their types, and what is left is what was asked for.  *)
BTypeOK ==
  /\ TypeOK
  /\ ask \in Plans
  /\ saved \subseteq Artifacts
  /\ journal \in [Ids -> JournalType \cup {None}]
  /\ snapshot \subseteq Comments
  /\ moved \in BOOLEAN
  /\ guard \in [Ids -> Committers \cup {None}]
  /\ step \in [Committers -> Working \cup Ended \cup {"idle"}]
  /\ mine \in [Committers -> Locals]
  /\ \A c \in Committers : mine[c].left \subseteq ask[c].adds

(* The journal, the findings on GitHub and the receipts behave as          *)
(* CommitOnce: an id stays with its request, deletions wait for every      *)
(* addition, and the receipt is given when nothing is left to do.          *)
Contract == INSTANCE CommitOnce WITH
  claim <- [i \in Ids |-> IF journal[i] = None THEN None ELSE journal[i].request],
  removed <- [i \in Ids |-> IF journal[i] = None THEN {} ELSE journal[i].deleted],
  committed <- {i \in Ids : journal[i] # None /\ journal[i].result},
  added <- {a \in UNION {q.adds : q \in Requests} : \E r \in Reviews : WasIn(a, r)}
CommitsOnce == Contract!Spec

(* Once a batch has its receipt no commit of it is past reading the        *)
(* journal: a retry, late or concurrent, is answered from the receipt.     *)
CommittedIsQuiet ==
  \A c \in Committers :
    journal[ask[c].id] # None /\ journal[ask[c].id].result
      => step[c] \in Ended \cup {"idle", "read"}

(* Every commit that is called comes to an end: whoever fails, another that *)
(* waits for the guard of the batch or for the gate gets it.                *)
EveryCommitEnds == \A c \in Committers : <>[](step[c] \in Ended)

(* review_comment_batch_committer.rs:405: only drafts are deleted.  What   *)
(* the user does not do leaves a submitted review as it is.                *)
OnlyDraftsDeleted ==
  [][spent'.user = spent.user =>
       \A r \in Reviews : review[r] = "submitted" => copies'[r] = copies[r]]_allVars
================================================================================

----------------------------- MODULE CommandLine -----------------------------
(***************************************************************************)
(* The commands of the nitpick command line beside a host at work.  Each   *)
(* command is a process of its own that sends one request after the other; *)
(* between two answers the host goes on, reviews end, the store is reset   *)
(* and ids are handed out again, and an answer may fail to come.  A review *)
(* chat resumes the provider session of a review that has ended, with      *)
(* tools that stage comments, and tells what was left when it ends.        *)
(***************************************************************************)
EXTENDS Naturals, Sequences, FiniteSets, SequencesExt

CONSTANTS
  Callers,       \* commands, each run once
  Commands,      \* what a caller may run
  Prs,           \* pull requests
  Limit,         \* --limit
  InboxLimit,    \* the limit of the inbox's query, 1000 in the code
  MaxMade,       \* bound: activities ever created
  MaxEvents      \* bound: failing requests, new requests, lost sessions


VARIABLES
  records,    \* the host's activities: id -> [pr, status, session]
  recent,     \* their ids, the last updated one last
  nextId,     \* the last id handed out, in the host's memory
  requests,   \* the pull requests whose review GitHub asks for
  lost,       \* provider sessions that the provider has no more
  calls,      \* caller -> [cmd, target, at, ...]
  made, events    \* counted

storeVars == <<records, recent>>
hostVars == <<storeVars, nextId>>
vars == <<hostVars, requests, lost, calls, made, events>>

NoPr == "none"      \* of a provider diagnostic
NoSession == 0

ASSUME ParametersOK ==
  /\ {Limit, InboxLimit, MaxMade, MaxEvents} \subseteq Nat
  /\ NoPr \notin Prs
  /\ Commands \subseteq {"start", "inbox", "requested", "active", "history", "chat", "reset", "diagnose"}

Lists == {"inbox", "requested", "active", "history"}
Id == DOMAIN records
Active(r) == r.status \in {"Queued", "Running"}
IsReview(r) == r.pr # NoPr

NoRecord == [pr |-> NoPr, status |-> "Ended", session |-> NoSession]
NoCall == [cmd |-> "none", target |-> NoPr, at |-> "idle", offered |-> {},
           picked |-> NoRecord, id |-> 0, copy |-> NoRecord,
           checkout |-> NoPr, staged |-> FALSE, error |-> "none", says |-> {}]

Event == events < MaxEvents /\ events' = events + 1
At(c, p) == calls[c].at = p
Goes(c, p) == calls' = [calls EXCEPT ![c].at = p]
Ends(c, s) == calls' = [calls EXCEPT ![c] = [NoCall EXCEPT !.at = "done", !.says = s, !.staged = calls[c].staged]]

-------------------------------------------------------------------------------
(* The host *)

Touch(i) == recent' = Append(Remove(recent, i), i)

Save(i, r) ==
  /\ records' = [j \in Id \cup {i} |-> IF j = i THEN r ELSE records[j]]
  /\ Touch(i)

(* A review gets a provider session of its own.  Past the bound nothing is *)
(* created.                                                                *)
Create(pr) ==
  IF made = MaxMade THEN UNCHANGED <<hostVars, made>>
  ELSE /\ Save(nextId + 1, [pr |-> pr, status |-> "Queued", session |-> made + 1])
       /\ nextId' = nextId + 1 /\ made' = made + 1

(* has_active_review_activity *)
UnderReview == \E i \in Id : IsReview(records[i]) /\ Active(records[i])

(* reset_local_state without --force; the next id stays. *)
Clear ==
  /\ ~UnderReview
  /\ records' = <<>> /\ recent' = <<>> /\ UNCHANGED nextId

HostEnqueue(pr) ==
  /\ made < MaxMade /\ Create(pr)
  /\ UNCHANGED <<requests, lost, calls, events>>

HostBegin(i) ==
  /\ i \in Id /\ records[i].status = "Queued"
  /\ Save(i, [records[i] EXCEPT !.status = "Running"])
  /\ UNCHANGED <<nextId, requests, lost, calls, made, events>>

HostEnd(i) ==
  /\ i \in Id /\ records[i].status = "Running"
  /\ Save(i, [records[i] EXCEPT !.status = "Ended"])
  /\ UNCHANGED <<nextId, requests, lost, calls, made, events>>

(* The ids go on after the largest one on disk, and what ran has ended     *)
(* (recover_interrupted_activities).  That what was queued never begins    *)
(* then only takes steps away, see ReviewQueue.                            *)
HostRestart ==
  /\ Event
  /\ nextId' = IF Id = {} THEN 0 ELSE Max(Id)
  /\ records' = [i \in Id |-> IF records[i].status = "Running" THEN [records[i] EXCEPT !.status = "Ended"] ELSE records[i]]
  /\ recent' = SelectSeq(recent, LAMBDA i : records[i].status # "Running")
                  \o SelectSeq(recent, LAMBDA i : records[i].status = "Running")
  /\ UNCHANGED <<requests, lost, calls, made>>

AskForReview(pr) ==
  /\ Event /\ pr \notin requests /\ requests' = requests \cup {pr}
  /\ UNCHANGED <<hostVars, lost, calls, made>>

LoseSession(s) ==
  /\ Event /\ s \in {records[i].session : i \in Id} \ (lost \cup {NoSession})
  /\ lost' = lost \cup {s}
  /\ UNCHANGED <<hostVars, requests, calls, made>>

(* GET /activities: filtered, the last updated first, cut at the limit. *)
Matches(r, status) ==
  CASE status = "active" -> Active(r) [] status = "history" -> ~Active(r) [] OTHER -> TRUE

(* What was updated later than a review takes its place on the page. *)
Position(i) == CHOOSE n \in DOMAIN recent : recent[n] = i
Listed(status, limit) ==
  LET matching == {i \in Id : IsReview(records[i]) /\ Matches(records[i], status)}
      later(i) == {j \in matching \ {i} : Position(j) > Position(i)}
  IN  {i \in matching : Cardinality(later(i)) < IF limit = 0 THEN 1 ELSE limit}

-------------------------------------------------------------------------------
(* Requests *)

(* No host, or no answer within the client's timeout: the host may have    *)
(* done what it was asked for, or does it late.                            *)
Requesting == {"start", "reset", "requests", "activities", "prepare", "diagnose", "wait"}

RequestFails(c) ==
  /\ calls[c].at \in Requesting /\ Event /\ Ends(c, {"error"})
  /\ \/ UNCHANGED <<hostVars, made>>
     \/ At(c, "start") /\ Create(calls[c].target)
     \/ At(c, "diagnose") /\ Create(NoPr)
     \/ At(c, "reset") /\ Clear /\ UNCHANGED made
  /\ UNCHANGED <<requests, lost>>

(* What a command sends first. *)
FirstStep(cmd) ==
  CASE cmd \in {"inbox", "requested"} -> "requests"
    [] cmd \in {"active", "history", "chat"} -> "activities"
    [] OTHER -> cmd

(* A start names a pull request, a chat a pull request or an id. *)
Run(c, cmd, pr, i) ==
  /\ At(c, "idle")
  /\ (pr # NoPr) = (cmd = "start" \/ (cmd = "chat" /\ i = 0)) /\ (i # 0 => cmd = "chat")
  /\ calls' = [calls EXCEPT ![c] = [NoCall EXCEPT !.cmd = cmd, !.target = pr, !.id = i, !.at = FirstStep(cmd)]]
  /\ UNCHANGED <<hostVars, requests, lost, made, events>>

(* review start *)
Start(c) ==
  /\ At(c, "start") /\ Create(calls[c].target) /\ Ends(c, {"ok"})
  /\ UNCHANGED <<requests, lost, events>>

(* system reset, after the confirmation and without --force. *)
Reset(c) ==
  /\ At(c, "reset")
  /\ \/ Clear /\ Ends(c, {"ok"})
     \/ UnderReview /\ Ends(c, {"error"}) /\ UNCHANGED hostVars
  /\ UNCHANGED <<requests, lost, made, events>>

-------------------------------------------------------------------------------
(* review list *)

(* review_activity_status_filter and review_activity_query_limit *)
Status(cmd) == IF cmd = "history" THEN "history" ELSE "active"
QueryLimitOfUser(cmd) == Limit
QueryLimit(cmd) == IF cmd = "inbox" THEN InboxLimit ELSE Limit

RequestsArrive(c) ==
  /\ At(c, "requests")
  /\ calls' = [calls EXCEPT ![c].offered = requests,
                            ![c].at = IF calls[c].cmd = "requested" THEN "done" ELSE "activities"]
  /\ UNCHANGED <<hostVars, requests, lost, made, events>>

(* format_review_list: the inbox leaves out the requests under review. *)
ListArrives(c) ==
  LET listed == Listed(Status(calls[c].cmd), QueryLimit(calls[c].cmd))
      busy == {records[i].pr : i \in {j \in listed : Active(records[j])}}
  IN
  /\ At(c, "activities") /\ calls[c].cmd \in Lists
  /\ calls' = [calls EXCEPT ![c].offered = @ \ busy, ![c].at = "done"]
  /\ UNCHANGED <<hostVars, requests, lost, made, events>>

-------------------------------------------------------------------------------
(* review chat *)

(* resolve_log_activity: an id, or the last updated review of the target. *)
Resolve(c) ==
  LET of == SelectSeq(recent, LAMBDA i : records[i].pr = calls[c].target)
  IN IF calls[c].target = NoPr THEN {calls[c].id} \cap Id ELSE IF of = <<>> THEN {} ELSE {Last(of)}

Resumable(i) == i \in Id /\ IsReview(records[i]) /\ ~Active(records[i]) /\ records[i].session # NoSession

(* ensure_review_chat_available, on the activity as it was listed. *)
ChatResolves(c) ==
  /\ At(c, "activities") /\ calls[c].cmd = "chat"
  /\ IF \E i \in Resolve(c) : Resumable(i)
     THEN \E i \in Resolve(c) :
            calls' = [calls EXCEPT ![c].id = i, ![c].picked = records[i], ![c].at = "prepare"]
     ELSE Ends(c, {"error"})
  /\ UNCHANGED <<hostVars, requests, lost, made, events>>

(* prepare_review_chat_session: the host checks the activity of the id     *)
(* again, and that it is a review of the pull request that was asked for.  *)
(* A head that moves meanwhile is a request that fails.                    *)
Prepared(c, ok) ==
  /\ At(c, "prepare")
  /\ IF ok THEN calls' = [calls EXCEPT ![c].checkout = records[calls[c].id].pr, ![c].at = "chat"]
     ELSE Ends(c, {"error"})
  /\ UNCHANGED <<hostVars, requests, lost, made, events>>

ChatPreparesAny(c) == Prepared(c, Resumable(calls[c].id))

ChatPrepares(c) ==
  Prepared(c, Resumable(calls[c].id) /\ records[calls[c].id].pr = calls[c].picked.pr)

InChat(c) == At(c, "chat") /\ calls[c].picked.session \notin lost

(* The tools of the chat, see ReviewSession. *)
Stage(c) ==
  /\ InChat(c) /\ calls' = [calls EXCEPT ![c].staged = TRUE]
  /\ UNCHANGED <<hostVars, requests, lost, made, events>>

Publish(c) ==
  /\ InChat(c) /\ calls' = [calls EXCEPT ![c].staged = FALSE]
  /\ UNCHANGED <<hostVars, requests, lost, made, events>>

(* attach_session_in_repo_with_tools *)
ProviderEnds(c) ==
  /\ At(c, "chat")
  /\ IF InChat(c)
     THEN \E e \in {"none", "error"} : calls' = [calls EXCEPT ![c].error = e, ![c].at = "count"]
     ELSE calls' = [calls EXCEPT ![c].error = "missing", ![c].at = "clear"]
  /\ UNCHANGED <<hostVars, requests, lost, made, events>>

(* clear_provider_session_id works on the files beside the host: it gets   *)
(* the activity of the id, and saves it without the session.               *)
ClearGets(c) ==
  LET i == calls[c].id IN
  /\ At(c, "clear")
  /\ IF i \in Id
     THEN calls' = [calls EXCEPT ![c].copy = [records[i] EXCEPT !.session = NoSession], ![c].at = "save"]
     ELSE Goes(c, "count")
  /\ UNCHANGED <<hostVars, requests, lost, made, events>>

ClearSaves(c) ==
  /\ At(c, "save") /\ Goes(c, "count") /\ Save(calls[c].id, calls[c].copy)
  /\ UNCHANGED <<nextId, requests, lost, made, events>>

Problems(c) == {calls[c].error} \ {"none"}
Left(c) == IF calls[c].staged THEN {"staged"} ELSE {}

(* uncommitted_counts: both problems go into one message. *)
Count(c) ==
  /\ At(c, "count")
  /\ Ends(c, IF Problems(c) \cup Left(c) = {} THEN {"ok"} ELSE Problems(c) \cup Left(c))
  /\ UNCHANGED <<hostVars, requests, lost, made, events>>

-------------------------------------------------------------------------------
(* debug provider *)

Diagnose(c) ==
  /\ At(c, "diagnose") /\ Create(NoPr)
  /\ IF made = MaxMade THEN Ends(c, {"error"})
     ELSE calls' = [calls EXCEPT ![c].id = nextId + 1, ![c].at = "wait"]
  /\ UNCHANGED <<requests, lost, events>>

(* wait_for_provider_diagnostic asks until the activity has ended, or is   *)
(* gone, or for a minute.                                                  *)
Poll(c) ==
  /\ At(c, "wait") /\ (calls[c].id \in Id => ~Active(records[calls[c].id]))
  /\ Ends(c, {IF calls[c].id \in Id THEN "ok" ELSE "error"})
  /\ UNCHANGED <<hostVars, requests, lost, made, events>>

Deadline(c) ==
  /\ At(c, "wait") /\ Ends(c, {"still running"})
  /\ UNCHANGED <<hostVars, requests, lost, made, events>>

-------------------------------------------------------------------------------

Init ==
  /\ records = <<>> /\ recent = <<>> /\ nextId = 0 /\ requests = {} /\ lost = {}
  /\ calls = [c \in Callers |-> NoCall] /\ made = 0 /\ events = 0

Step(c) ==
  \/ RequestFails(c) \/ Start(c) \/ Reset(c) \/ RequestsArrive(c) \/ ListArrives(c)
  \/ ChatResolves(c) \/ ChatPrepares(c) \/ ProviderEnds(c) \/ ClearGets(c) \/ ClearSaves(c) \/ Count(c)
  \/ Diagnose(c) \/ Poll(c) \/ Deadline(c)

Next ==
  \/ \E c \in Callers : Step(c) \/ Stage(c) \/ Publish(c)
  \/ \E c \in Callers, cmd \in Commands, pr \in Prs \cup {NoPr}, i \in Id \cup {0} : Run(c, cmd, pr, i)
  \/ \E pr \in Prs : HostEnqueue(pr) \/ AskForReview(pr)
  \/ HostRestart
  \/ \E i \in Id : HostBegin(i) \/ HostEnd(i) \/ LoseSession(records[i].session)

Spec == Init /\ [][Next]_vars

-------------------------------------------------------------------------------
(* Properties *)

Places == Requesting \cup {"idle", "chat", "clear", "save", "count", "done"}
Records == [pr : Prs \cup {NoPr}, status : {"Queued", "Running", "Ended"}, session : Nat]
CallRecords ==
  [cmd : Commands \cup {"none"}, target : Prs \cup {NoPr}, at : Places, offered : SUBSET Prs,
   picked : Records, id : Nat, copy : Records, checkout : Prs \cup {NoPr},
   staged : BOOLEAN, error : {"none", "error", "missing"},
   says : SUBSET {"ok", "error", "missing", "staged", "still running"}]

(* The fields are of their types, and recent lists the activities.         *)
TypeOK ==
  /\ Id \subseteq 1..made /\ made \in 0..MaxMade /\ nextId \in 0..made
  /\ ToSet(recent) = Id /\ Len(recent) = Cardinality(Id)
  /\ records \in [Id -> Records]
  /\ requests \subseteq Prs /\ lost \subseteq 1..MaxMade
  /\ calls \in [Callers -> CallRecords]

(* The inbox offers a request for review only when nothing of its pull     *)
(* request is queued or running on the host as it answers, however many    *)
(* reviews there are and whichever were updated last: the filter sees all  *)
(* of them, not the few that are printed.                                  *)
InboxOffersNothingUnderReview ==
  [][\A c \in Callers :
       (calls[c].cmd = "inbox" /\ At(c, "activities") /\ calls'[c].at = "done"
          /\ "error" \notin calls'[c].says)
         => \A i \in Id : Active(records[i]) => records[i].pr \notin calls'[c].offered]_vars

(* What README.md:100 says of a chat.  It resumes the session of a review  *)
(* in the checkout of that review's own pull request, also when the store  *)
(* was reset after it was listed and its id belongs to the review of       *)
(* another one by now; and one that ends with changes that were never      *)
(* published says so, also when the resume failed or the session was lost. *)
StaysOnItsPr(c) == calls[c].checkout # NoPr => calls[c].checkout = calls[c].picked.pr
StagedWorkIsReported(c) == At(c, "done") /\ calls[c].staged => "staged" \in calls[c].says
ChatKeepsItsWord == \A c \in Callers : StaysOnItsPr(c) /\ StagedWorkIsReported(c)

(* A review forgets its session only when the provider has it no more:     *)
(* "its provider session was not found; cleared the stored session" is     *)
(* what the command says (support.rs:112-115).                             *)
ForgottenOnlyWhenMissing ==
  [][\A i \in Id \cap DOMAIN records' :
       records'[i].session = NoSession => records[i].session \in lost \cup {NoSession}]_vars
===============================================================================

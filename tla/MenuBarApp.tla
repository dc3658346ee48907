------------------------------ MODULE MenuBarApp ------------------------------
(***************************************************************************)
(* The macOS menu bar app and the host process it keeps.  The app starts   *)
(* the host, asks it for its status and its activities every five seconds  *)
(* in tasks of their own, shows what the last answer said, and offers      *)
(* actions on a failure in a dialog.  All of it runs on the main actor: a  *)
(* step of a task lasts from one await to the next, the answers of two     *)
(* tasks may come in any order, also while a dialog is open, and a reload  *)
(* or a crash comes between any two steps.                                 *)
(***************************************************************************)
EXTENDS Naturals, Sequences, FiniteSets, FiniteSetsExt

CONSTANTS
  MaxReviews,     \* bound: reviews that the poller and the command line bring
  MaxActivities,  \* bound: records of the host, those that the app asks for included
  MaxTasks,       \* bound: tasks of the app at a time
  Kinds,          \* provider failures, by their priority
  MaxEvents       \* bound: failing requests and starts, crashes, reloads, dialogs

ASSUME BoundsOK == /\ {MaxReviews, MaxActivities, MaxTasks, MaxEvents} \subseteq Nat
                   /\ MaxTasks > 0 /\ Kinds # {} /\ Kinds \subseteq Nat \ {0}

VARIABLES
  records,   \* the host's files: activity -> [status, review, failure, resolved]
  threads,   \* activities a host process works on
  proc,      \* HostProcess.process: "none", "starting", "serving" or "exited"
  orphan,    \* a host that serves and that no app holds
  tasks,     \* the app's tasks: [at, kind, answer]
  latest,    \* latestHostStatus, latestActivities, latestStatusIssue
  shown,     \* what updateMenu last put into the menu; currentAttention
  dialog,    \* the buttons of the open dialog, empty for none
  pressed,   \* the last button: its label, and the action taken
  events, appCrashes    \* counted: all of those, and the ends of the app

hostVars == <<records, threads, proc, orphan>>
appVars == <<tasks, latest, shown, dialog, pressed>>
countVars == <<events, appCrashes>>
vars == <<hostVars, appVars, countVars>>

Task == 1..MaxTasks
NoFailure == 0
Interrupted == Max(Kinds) + 1
Waiting == [is |-> "waiting"]
Failed == [is |-> "failed"]
NoAttention == [kind |-> NoFailure, retryable |-> 0]
NoStatus == [attention |-> NoAttention, running |-> 0, known |-> FALSE]
NoTask == [at |-> "idle", kind |-> NoFailure, answer |-> Waiting]
Refresh == [NoTask EXCEPT !.at = "status"]
Nothing == [status |-> NoStatus, activities |-> <<>>, issue |-> "none"]

Event == events < MaxEvents /\ events' = events + 1

-------------------------------------------------------------------------------
(* What the host answers *)

Review == [status |-> "Queued", review |-> TRUE, failure |-> NoFailure, resolved |-> FALSE]
Diagnostic == [status |-> "Queued", review |-> FALSE, failure |-> NoFailure, resolved |-> FALSE]

(* classify_provider_failure: what the text of an error names, if it names a kind. *)
Classified(r) == IF r.status = "Error" /\ r.failure \in Kinds THEN r.failure ELSE NoFailure

Unresolved(k) == {i \in DOMAIN records : Classified(records[i]) = k /\ ~records[i].resolved}
Retryable(k) == {i \in Unresolved(k) : records[i].review}

(* provider_attention: the most urgent kind of the failures that are left. *)
Attention ==
  LET there == {k \in Kinds : Unresolved(k) # {}} IN
  IF there = {} THEN NoAttention
  ELSE [kind |-> Min(there), retryable |-> Cardinality(Retryable(Min(there)))]

(* HostStatusProjection.project *)
Status == [attention |-> Attention, known |-> TRUE,
           running |-> Cardinality({i \in DOMAIN records : records[i].status = "Running"})]

Serving == proc = "serving" \/ orphan
isRunning == proc \in {"starting", "serving"}

-------------------------------------------------------------------------------
(* The menu *)

(* MenuPresentation; its lists hold more rows than MaxActivities. *)
StatusTitle(l, running) ==
  CASE l.status.attention # NoAttention -> "provider needs attention"
    [] l.status.attention = NoAttention /\ l.issue # "none" -> l.issue
    [] l.status.attention = NoAttention /\ l.issue = "none" /\ ~running -> "agent stopped"
    [] OTHER -> IF l.status.running > 0 THEN "running" ELSE "idle"

Details(l) == IF l.status.attention # NoAttention THEN "attention" ELSE l.issue

Present(l, running) ==
  [title |-> StatusTitle(l, running), details |-> Details(l), attention |-> l.status.attention,
   running |-> l.status.running, rows |-> l.activities]

(* updateMenu *)
Update(l, running) == latest' = l /\ shown' = Present(l, running)

(* statusDetailAlertButtons *)
Buttons(a) ==
  IF a = NoAttention THEN <<"dismiss">>
  ELSE <<"dismiss", "diagnostic">> \o (IF a.retryable > 0 THEN <<"retry">> ELSE <<>>) \o <<"logs">>

Free == {t \in Task : tasks[t] = NoTask}
Spawn(k) == Free # {} /\ tasks' = [tasks EXCEPT ![Min(Free)] = k]

-------------------------------------------------------------------------------
(* The host process *)

(* Each new activity has a thread of the serving host; done are resolved.  *)
(* Past the bound nothing is added.                                        *)
Enqueue(n, new, done) ==
  IF Len(records) + n > MaxActivities THEN UNCHANGED <<records, threads>> ELSE
  /\ records' = [i \in 1..Len(records) + n |->
       IF i > Len(records) THEN new ELSE [records[i] EXCEPT !.resolved = @ \/ i \in done]]
  /\ threads' = threads \cup (Len(records) + 1..Len(records) + n)

(* stop: SIGTERM, and SIGKILL for a process that is left after five        *)
(* seconds; a process that stays may serve on.                             *)
StopAsking == /\ threads' \in {threads, {}}
              /\ orphan' = (orphan \/ (proc = "serving" /\ threads' # {}))
Stop == /\ threads' = IF orphan THEN threads ELSE {}
        /\ UNCHANGED orphan

(* start; without the executable there is no process. *)
Start == proc' \in {"starting", "none"}

(* build_daemon recovers the activities before the port is bound; with a   *)
(* host on the port already the process ends.                              *)
Launch ==
  /\ proc = "starting"
  /\ records' = [i \in DOMAIN records |->
       IF records[i].status = "Running" THEN [records[i] EXCEPT !.status = "Error", !.failure = Interrupted]
       ELSE records[i]]
  /\ proc' = IF orphan THEN "exited" ELSE "serving"
  /\ UNCHANGED <<threads, orphan, appVars, countVars>>

HostCrash ==
  /\ isRunning /\ Event
  /\ proc' = "exited"
  /\ threads' = IF orphan THEN threads ELSE {}
  /\ UNCHANGED <<records, orphan, appVars, appCrashes>>

(* Reviews come from the poller and the command line. *)
HostEnqueue ==
  /\ Serving /\ Len(records) < MaxReviews /\ Enqueue(1, Review, {})
  /\ UNCHANGED <<proc, orphan, appVars, countVars>>

HostBegin(i) ==
  /\ i \in threads /\ records[i].status = "Queued"
  /\ records' = [records EXCEPT ![i].status = "Running"]
  /\ UNCHANGED <<threads, proc, orphan, appVars, countVars>>

(* The thread saves its own copy of the activity. *)
HostEnd(i) == \E k \in Kinds \cup {NoFailure} :
  /\ i \in threads /\ records[i].status # "Queued"
  /\ records' = [records EXCEPT ![i].status = IF k = NoFailure THEN "Completed" ELSE "Error",
                                ![i].failure = k]
  /\ threads' = threads \ {i}
  /\ UNCHANGED <<proc, orphan, appVars, countVars>>

-------------------------------------------------------------------------------
(* Requests of the app's tasks *)

(* retry_failed_activities: each failure gets a new review and is resolved. *)
RetryFailed(k) == Enqueue(Cardinality(Retryable(k)), Review, Retryable(k))

Perform(t) ==
  CASE tasks[t].at = "retry" -> RetryFailed(tasks[t].kind)
    [] tasks[t].at = "diagnose" -> Enqueue(1, Diagnostic, {})
    [] OTHER -> UNCHANGED <<records, threads>>

Answers(t, a) == tasks' = [tasks EXCEPT ![t].answer = a]
Asking(t) == tasks[t].at \in {"status", "activities", "retry", "diagnose"} /\ tasks[t].answer = Waiting

(* The host answers with what its files say now. *)
HostAnswers(t) ==
  /\ Asking(t) /\ Serving /\ Perform(t)
  /\ Answers(t, [is |-> "ok", status |-> IF tasks[t].at = "status" THEN Status ELSE NoStatus,
                 activities |-> IF tasks[t].at = "activities" THEN records ELSE <<>>])
  /\ UNCHANGED <<proc, orphan, latest, shown, dialog, pressed, countVars>>

(* No host, a connection that breaks, a timeout, an error of the store: an *)
(* action may have been performed.                                         *)
RequestFails(t) ==
  /\ Asking(t) /\ Answers(t, Failed)
  /\ \/ ~Serving /\ UNCHANGED <<records, threads, events>>
     \/ Serving /\ Event /\ (Perform(t) \/ UNCHANGED <<records, threads>>)
  /\ UNCHANGED <<proc, orphan, latest, shown, dialog, pressed, appCrashes>>

-------------------------------------------------------------------------------
(* Steps of the app's tasks on the main actor *)

Ask(t, at) == tasks' = [tasks EXCEPT ![t].at = at, ![t].answer = Waiting]
Done(t) == tasks' = [tasks EXCEPT ![t] = NoTask]
AgentError == [Nothing EXCEPT !.issue = "agent error"]

(* The status is stored, and the menu is left until the activities are there. *)
StatusArrives(t) ==
  /\ tasks[t].at = "status" /\ tasks[t].answer # Waiting
  /\ IF tasks[t].answer = Failed THEN Done(t) /\ Update(AgentError, isRunning)
     ELSE /\ Ask(t, "activities")
          /\ latest' = [latest EXCEPT !.status = tasks[t].answer.status]
          /\ UNCHANGED shown
  /\ UNCHANGED <<hostVars, dialog, pressed, countVars>>

ActivitiesArriveOnly(t) ==
  /\ tasks[t].at = "activities" /\ tasks[t].answer # Waiting
  /\ Done(t)
  /\ Update([latest EXCEPT !.activities = IF tasks[t].answer = Failed THEN <<>> ELSE tasks[t].answer.activities], isRunning)
  /\ UNCHANGED <<hostVars, dialog, pressed, countVars>>

ActivitiesArrive(t) ==
  /\ tasks[t].at = "activities" /\ tasks[t].answer # Waiting
  /\ Done(t)
  /\ Update([latest EXCEPT !.issue = "none",
       !.activities = IF tasks[t].answer = Failed THEN <<>> ELSE tasks[t].answer.activities], isRunning)
  /\ UNCHANGED <<hostVars, dialog, pressed, countVars>>

(* After an action the task refreshes, or shows the failure. *)
ActionArrives(t) ==
  /\ tasks[t].at \in {"retry", "diagnose"} /\ tasks[t].answer # Waiting
  /\ IF tasks[t].answer = Failed THEN Done(t) /\ Update([Nothing EXCEPT !.issue = "action failed"], isRunning)
     ELSE IF isRunning THEN Ask(t, "status") /\ UNCHANGED <<latest, shown>>
     ELSE Done(t) /\ Update(AgentError, isRunning)
  /\ UNCHANGED <<hostVars, dialog, pressed, countVars>>

TaskStep(t) ==
  \/ HostAnswers(t) \/ RequestFails(t)
  \/ StatusArrives(t) \/ ActivitiesArrive(t) \/ ActionArrives(t)

-------------------------------------------------------------------------------
(* The timer and the user; a dialog keeps both from the menu *)

(* refreshMenu: the menu is drawn again from what is there, and a task     *)
(* begins, which asks the host if its process runs.                        *)
Tick ==
  /\ dialog = <<>>
  /\ IF isRunning THEN Spawn(Refresh) /\ Update(latest, isRunning)
     ELSE UNCHANGED tasks /\ Update(AgentError, isRunning)
  /\ UNCHANGED <<hostVars, dialog, pressed, countVars>>

(* The issue of the last refresh stays. *)
ReloadConfig ==
  /\ dialog = <<>> /\ Event
  /\ Stop /\ Start
  /\ IF proc' = "starting" THEN Spawn(Refresh) /\ Update([Nothing EXCEPT !.issue = latest.issue], TRUE)
     ELSE UNCHANGED tasks /\ Update(AgentError, FALSE)
  /\ UNCHANGED <<records, dialog, pressed, appCrashes>>

(* showStatusDetails: the buttons are those of the attention shown. *)
OpenDetails ==
  /\ dialog = <<>> /\ shown.details # "none" /\ Event
  /\ dialog' = Buttons(shown.attention)
  /\ UNCHANGED <<hostVars, tasks, latest, shown, pressed, appCrashes>>

(* handleStatusDetailsResponse: the buttons are listed again, for the      *)
(* attention shown by now, and the index picks one of them.                *)
ActionAt(i) ==
  LET now == Buttons(shown.attention) IN IF i \in DOMAIN now THEN now[i] ELSE "dismiss"

Press(i) ==
  /\ i \in DOMAIN dialog
  /\ dialog' = <<>> /\ pressed' = [label |-> dialog[i], action |-> ActionAt(i)]
  /\ CASE ActionAt(i) = "retry" ->
            Spawn([NoTask EXCEPT !.at = "retry", !.kind = shown.attention.kind])
       [] ActionAt(i) = "diagnostic" -> Spawn([NoTask EXCEPT !.at = "diagnose"])
       [] OTHER -> UNCHANGED tasks
  /\ UNCHANGED <<hostVars, latest, shown, countVars>>

(* The app ends without applicationWillTerminate and is opened again. *)
AppCrash ==
  /\ Event /\ appCrashes' = appCrashes + 1
  /\ proc # "starting" /\ orphan' = (orphan \/ proc = "serving") /\ proc' = "starting"
  /\ tasks' = [t \in Task |-> IF t = 1 THEN Refresh ELSE NoTask]
  /\ Update(Nothing, TRUE) /\ dialog' = <<>>
  /\ UNCHANGED <<records, threads, pressed>>

(* applicationDidFinishLaunching *)
Init ==
  /\ records = <<>> /\ threads = {} /\ proc = "starting" /\ orphan = FALSE
  /\ tasks = [t \in Task |-> IF t = 1 THEN Refresh ELSE NoTask]
  /\ latest = Nothing /\ shown = Present(Nothing, TRUE)
  /\ dialog = <<>> /\ pressed = [label |-> "dismiss", action |-> "dismiss"]
  /\ events = 0 /\ appCrashes = 0

Next ==
  \/ Launch \/ HostCrash \/ HostEnqueue
  \/ \E i \in DOMAIN records : HostBegin(i) \/ HostEnd(i)
  \/ \E t \in Task : TaskStep(t)
  \/ Tick \/ ReloadConfig \/ OpenDetails \/ (\E i \in DOMAIN dialog : Press(i)) \/ AppCrash

Spec == Init /\ [][Next]_vars

(* The timer fires, answers and failures come, tasks go on, a process that *)
(* starts gets to serve or ends, and a dialog is answered in the end.      *)
FairSpec ==
  /\ Spec /\ WF_vars(Launch) /\ WF_vars(Tick) /\ WF_vars(\E i \in DOMAIN dialog : Press(i))
  /\ \A t \in Task : WF_vars(TaskStep(t))

-------------------------------------------------------------------------------
(* Properties *)

TypeOK ==
  /\ DOMAIN records \subseteq 1..MaxActivities /\ threads \subseteq DOMAIN records
  /\ proc \in {"none", "starting", "serving", "exited"} /\ orphan \in BOOLEAN
  /\ latest.issue \in {"none", "agent error", "action failed"}
  /\ shown.details \in {"none", "attention", "agent error", "action failed"}
  /\ \A t \in Task : tasks[t].at \in {"idle", "status", "activities", "retry", "diagnose"}

(* Once nothing changes any more the menu shows the host as it is: its     *)
(* attention and its activities when it serves, and an agent error when    *)
(* the process is gone, whatever refreshes overlapped, failed or belonged  *)
(* to the host before a reload, and whatever an action's failure showed.   *)
MenuIsTrue ==
  shown = CASE proc = "serving" -> Present([status |-> Status, activities |-> records, issue |-> "none"], TRUE)
            [] proc # "serving" -> Present(AgentError, FALSE)
MenuCatchesUp == <>[]MenuIsTrue

(* An activity that a starting host marks as interrupted has no thread any *)
(* more: no reload leaves the old host at work beside the new one.  Only   *)
(* an app that ended without stopping its host does.                       *)
InterruptedAreDead ==
  [][\A i \in DOMAIN records :
       (records[i].status = "Running" /\ records'[i].failure = Interrupted)
         => i \notin threads \/ appCrashes > 0]_vars

(* The third button of a dialog with retryable failures retries and that   *)
(* of one without opens the logs (AppDelegateMenuTests.swift:136-150): a   *)
(* button does what its label says.                                        *)
ButtonDoesWhatItSays == pressed.action = pressed.label
===============================================================================

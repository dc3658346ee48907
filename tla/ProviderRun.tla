----------------------------- MODULE ProviderRun -----------------------------
(***************************************************************************)
(* One provider command: the host starts it in a process group of its own, *)
(* writes the prompt, and collects what two reader threads take from the   *)
(* pipes until the command has exited and the pipes are closed.  A         *)
(* deadline or a cancellation kills the group.  The sink keeps the output  *)
(* in the stored activity while it comes in.  A helper the command starts  *)
(* inherits the pipes.                                                     *)
(***************************************************************************)
EXTENDS Naturals, Sequences, SequencesExt

CONSTANTS
  Streams,      \* stdout and stderr
  PromptSize,   \* bound: chunks of the prompt
  MaxChunks,    \* bound: chunks written to a stream
  PipeSize,     \* chunks a pipe holds
  Timeouts,     \* whether there is a deadline: it differs from run to run
  MaxFaults     \* bound: failing accesses of the store

ASSUME SizesOK ==
  /\ {PromptSize, MaxChunks, PipeSize} \subseteq Nat \ {0}
  /\ MaxFaults \in Nat
  /\ Timeouts \subseteq BOOLEAN

VARIABLES
  timed,        \* the run has a deadline
  host,         \* where the host is
  prompt,       \* chunks of the prompt still to write
  stdin,        \* chunks in the pipe to the command
  child,        \* the command
  helper,       \* the process it started, in its group or detached from it
  written, pipe,          \* what was written to each stream; what is in the pipe
  reader,       \* the reader threads
  channel,      \* what they have sent
  output,       \* what the host has collected
  stored,       \* what the activity holds of it
  expired,      \* the deadline has passed
  activity,     \* the status of the stored activity
  flags,        \* timed_out, cancelled
  status,       \* the exit status the host has seen
  verdict,      \* how the run went, for the caller
  faults

procVars == <<stdin, child, helper, written, pipe>>
readVars == <<reader, channel>>
logVars == <<output, stored>>
envVars == <<expired, activity>>
verdictVars == <<flags, status, verdict>>
vars == <<timed, host, prompt, procVars, readVars, logVars, envVars, verdictVars, faults>>

Chunks == 1..MaxChunks
Message == [stream : Streams, chunk : Chunks]
Verdicts == {"ok", "failed", "timedOut", "cancelled", "error"}

Init ==
  /\ timed \in Timeouts
  /\ host = "spawn" /\ prompt = PromptSize
  /\ stdin = 0 /\ child = "none" /\ helper = "none"
  /\ written = [s \in Streams |-> 0] /\ pipe = [s \in Streams |-> <<>>]
  /\ reader = [s \in Streams |-> "none"] /\ channel = <<>>
  /\ output = [s \in Streams |-> <<>>] /\ stored = [s \in Streams |-> <<>>]
  /\ expired = FALSE /\ activity = "Running"
  /\ flags = {} /\ status = "none" /\ verdict = "none"
  /\ faults = 0

Fault == faults < MaxFaults /\ faults' = faults + 1
GivesUp == host' = "record" /\ verdict' = "error"
Writers == {child, helper} \cap {"running", "detached"}

-------------------------------------------------------------------------------
(* ProviderCommandRunner.run *)

(* The start diagnostic is stored, the command and the readers are started. *)
Spawn ==
  /\ host = "spawn"
  /\ \/ /\ host' = "prompt" /\ child' = "running" /\ reader' = [s \in Streams |-> "reading"]
        /\ UNCHANGED verdict
     \/ GivesUp /\ UNCHANGED <<child, reader>>
  /\ UNCHANGED <<timed, prompt, stdin, helper, written, pipe, channel, logVars, envVars,
                 flags, status, faults>>

(* write_all blocks while the pipe is full and fails when nobody is there  *)
(* to read; then the run ends at once.                                     *)
WritePrompt ==
  /\ host = "prompt"
  /\ \/ /\ Writers = {} /\ prompt > 0
        /\ GivesUp /\ UNCHANGED <<prompt, stdin>>
     \/ /\ Writers # {} /\ prompt > 0 /\ stdin < PipeSize
        /\ prompt' = prompt - 1 /\ stdin' = stdin + 1 /\ UNCHANGED <<host, verdict>>
     \/ /\ prompt = 0
        /\ host' = "collect" /\ UNCHANGED <<prompt, stdin, verdict>>
  /\ UNCHANGED <<timed, child, helper, written, pipe, readVars, logVars, envVars, flags, status,
                 faults>>

(* The sink saves the first chunk of a stream and then one per interval:   *)
(* what is saved is all there is by then.                                  *)
SaveLog(s) ==
  \/ stored' = output'
  \/ output[s] # <<>> /\ UNCHANGED stored

(* append_provider_stream_chunk; an error of the sink ends the run. *)
AppendChunk ==
  LET c == Head(channel) IN
  /\ host \in {"collect", "drain"} /\ channel # <<>>
  /\ channel' = Tail(channel)
  /\ output' = [output EXCEPT ![c.stream] = Append(@, c.chunk)]
  /\ \/ SaveLog(c.stream) /\ UNCHANGED <<host, verdict, faults>>
     \/ Fault /\ GivesUp /\ UNCHANGED stored
  /\ UNCHANGED <<timed, prompt, procVars, reader, envVars, flags, status>>

(* try_wait, once the channel is empty: the command has exited. *)
Reap ==
  /\ host = "collect" /\ channel = <<>>
  /\ child \notin {"none", "running"}
  /\ status' = child /\ host' = "drain"
  /\ UNCHANGED <<timed, prompt, procVars, readVars, logVars, envVars, flags, verdict, faults>>

Dies(p) == IF p = "running" THEN "killed" ELSE p

KillChildOnly(why) ==
  /\ host = "collect" /\ channel = <<>>
  /\ CASE why = "timedOut" -> timed /\ expired
       [] why = "cancelled" -> activity # "Running" /\ ~(timed /\ expired)
  /\ flags' = {why}
  /\ child' = Dies(child)
  /\ status' = Dies(child) /\ host' = "drain"
  /\ UNCHANGED <<timed, prompt, stdin, helper, written, pipe, readVars, logVars, envVars, verdict, faults>>

(* The group is killed and the command waited for; it may have exited      *)
(* since try_wait.  The deadline is looked at before the cancellation.     *)
Kill(why) ==
  /\ host = "collect" /\ channel = <<>>
  /\ CASE why = "timedOut" -> timed /\ expired
       [] why = "cancelled" -> activity # "Running" /\ ~(timed /\ expired)
  /\ flags' = {why}
  /\ child' = Dies(child) /\ helper' = Dies(helper)
  /\ status' = Dies(child) /\ host' = "drain"
  /\ UNCHANGED <<timed, prompt, stdin, written, pipe, readVars, logVars, envVars, verdict, faults>>

(* is_cancelled reads the activity. *)
CancelCheckFails ==
  /\ host = "collect" /\ channel = <<>>
  /\ Fault
  /\ GivesUp
  /\ UNCHANGED <<timed, prompt, procVars, readVars, logVars, envVars, flags, status>>

DrainNothing ==
  /\ host = "drain"
  /\ host' = "join"
  /\ stored' = output
  /\ UNCHANGED <<timed, prompt, procVars, readVars, output, envVars, verdictVars, faults>>

(* recv returns an error only when both readers are gone; then the sink is *)
(* flushed.                                                                *)
Drained ==
  /\ host = "drain" /\ channel = <<>>
  /\ \A s \in Streams : reader[s] = "ended"
  /\ host' = "join"
  /\ stored' = output
  /\ UNCHANGED <<timed, prompt, procVars, readVars, output, envVars, verdictVars, faults>>

VerdictByStatus == IF status = "exited" THEN "ok" ELSE "failed"

(* run_prompt: a timeout before a cancellation before the exit status. *)
Verdict ==
  IF "timedOut" \in flags THEN "timedOut"
  ELSE IF "cancelled" \in flags THEN "cancelled"
  ELSE IF status = "exited" THEN "ok" ELSE "failed"

Conclude ==
  /\ host = "join"
  /\ host' = "record" /\ verdict' = Verdict
  /\ UNCHANGED <<timed, prompt, procVars, readVars, logVars, envVars, flags, status, faults>>

(* run_chat, run_review: the sink is flushed and the activity ends as the  *)
(* run did; unless that fails.                                             *)
Record ==
  /\ host = "record"
  /\ host' = "over"
  /\ \/ /\ stored' = output
        /\ activity' = IF verdict = "ok" THEN "Completed" ELSE "Error"
        /\ UNCHANGED faults
     \/ Fault /\ UNCHANGED <<stored, activity>>
  /\ UNCHANGED <<timed, prompt, procVars, readVars, output, expired, verdictVars>>

-------------------------------------------------------------------------------
(* The reader threads *)

Read(s) ==
  /\ reader[s] = "reading"
  /\ IF pipe[s] # <<>>
     THEN /\ pipe' = [pipe EXCEPT ![s] = Tail(@)]
          /\ channel' = Append(channel, [stream |-> s, chunk |-> Head(pipe[s])])
          /\ UNCHANGED reader
     ELSE /\ Writers = {}
          /\ reader' = [reader EXCEPT ![s] = "ended"]
          /\ UNCHANGED <<pipe, channel>>
  /\ UNCHANGED <<timed, host, prompt, stdin, child, helper, written, logVars, envVars,
                 verdictVars, faults>>

(* The command and what it starts *)

ReadStdin ==
  /\ child = "running" /\ stdin > 0
  /\ stdin' = stdin - 1
  /\ UNCHANGED <<timed, host, prompt, child, helper, written, pipe, readVars, logVars, envVars,
                 verdictVars, faults>>

WriteStream(s) ==
  /\ Writers # {}
  /\ written[s] < MaxChunks /\ Len(pipe[s]) < PipeSize
  /\ written' = [written EXCEPT ![s] = @ + 1]
  /\ pipe' = [pipe EXCEPT ![s] = Append(@, written[s] + 1)]
  /\ UNCHANGED <<timed, host, prompt, stdin, child, helper, readVars, logVars, envVars,
                 verdictVars, faults>>

Fork ==
  /\ child = "running" /\ helper = "none"
  /\ helper' \in {"running", "detached"}
  /\ UNCHANGED <<timed, host, prompt, stdin, child, written, pipe, readVars, logVars, envVars,
                 verdictVars, faults>>

ChildExits ==
  /\ child = "running"
  /\ child' \in {"exited", "crashed"}
  /\ UNCHANGED <<timed, host, prompt, stdin, helper, written, pipe, readVars, logVars, envVars,
                 verdictVars, faults>>

HelperExits ==
  /\ helper \in {"running", "detached"}
  /\ helper' = "exited"
  /\ UNCHANGED <<timed, host, prompt, stdin, child, written, pipe, readVars, logVars, envVars,
                 verdictVars, faults>>

(* Time passes; a forced review or a retry ends the activity. *)
Expire ==
  /\ timed /\ ~expired /\ host \notin {"spawn", "prompt"}
  /\ expired' = TRUE
  /\ UNCHANGED <<timed, host, prompt, procVars, readVars, logVars, activity, verdictVars, faults>>

Cancel ==
  /\ activity = "Running" /\ host # "over"
  /\ activity' = "Error"
  /\ UNCHANGED <<timed, host, prompt, procVars, readVars, logVars, expired, verdictVars, faults>>

-------------------------------------------------------------------------------
HostStep ==
  \/ Spawn \/ WritePrompt \/ AppendChunk \/ Reap \/ Drained \/ Conclude \/ Record
  \/ \E why \in {"timedOut", "cancelled"} : Kill(why)

Command == ReadStdin \/ Fork \/ ChildExits \/ HelperExits \/ \E s \in Streams : WriteStream(s)

Next == HostStep \/ CancelCheckFails \/ (\E s \in Streams : Read(s)) \/ Command \/ Expire \/ Cancel

Spec == Init /\ [][Next]_vars

(* The host's threads run and time passes; the command may do as it likes. *)
LiveSpec ==
  Spec /\ WF_vars(HostStep) /\ WF_vars(Expire) /\ \A s \in Streams : WF_vars(Read(s))
-------------------------------------------------------------------------------
(* Properties *)

(* The fields are of their types.                                          *)
TypeOK ==
  /\ timed \in BOOLEAN /\ expired \in BOOLEAN
  /\ host \in {"spawn", "prompt", "collect", "drain", "join", "record", "over"}
  /\ prompt \in 0..PromptSize /\ stdin \in 0..PipeSize
  /\ child \in {"none", "running", "exited", "crashed", "killed"}
  /\ helper \in {"none", "running", "detached", "exited", "killed"}
  /\ written \in [Streams -> 0..MaxChunks]
  /\ pipe \in [Streams -> Seq(Chunks)] /\ \A s \in Streams : Len(pipe[s]) <= PipeSize
  /\ output \in [Streams -> Seq(Chunks)] /\ stored \in [Streams -> Seq(Chunks)]
  /\ reader \in [Streams -> {"none", "reading", "ended"}]
  /\ channel \in Seq(Message)
  /\ activity \in {"Running", "Completed", "Error"}
  /\ flags \subseteq {"timedOut", "cancelled"}
  /\ status \in {"none", "exited", "crashed", "killed"}
  /\ verdict \in Verdicts \cup {"none"}
  /\ faults \in 0..MaxFaults

(* However the readers, the command and its helper interleave, a run that  *)
(* is concluded has collected all that was written, in the order it was,   *)
(* and unless the store fails the activity shows it                        *)
(* (provider_command_runner.rs:183).                                       *)
OutputIsComplete ==
  /\ \A s \in Streams : IsPrefix(stored[s], output[s])
  /\ verdict \in Verdicts \ {"error"} =>
       \A s \in Streams : output[s] = [i \in 1..written[s] |-> i] /\ stored[s] = output[s]

(* After a timeout or a cancellation only what left the group is alive; a  *)
(* run that is reported as completed was not killed.                       *)
KilledGroupIsGone ==
  /\ flags # {} => "running" \notin {child, helper}
  /\ verdict = "ok" => child = "exited" /\ flags = {}

(* A kill is followed by the end of the run when no helper has left the    *)
(* group: the readers see the pipes closed.                                *)
KilledRunEnds == [](flags # {} => <>(host = "over" \/ helper = "detached"))

(* provider_command_runner.rs:194: the process group is there "so          *)
(* cancellation and timeout can terminate helper processes that inherit    *)
(* stdout/stderr pipes": a run with a deadline that has begun to collect   *)
(* ends, unless a helper has left the group.                               *)
TimeoutEndsTheRun ==
  [](timed /\ host \in {"collect", "drain"} => <>(host = "over" \/ helper = "detached"))
===============================================================================

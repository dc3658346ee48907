---------------------------- MODULE ProviderRunProofs ----------------------------
(***************************************************************************)
(* Theorems about ProviderRun for every set of streams, every size of the  *)
(* prompt and of the pipes, and every number of chunks and failures: a     *)
(* concluded run has collected all that was written, in order, and a run   *)
(* that was killed leaves nothing of its process group.                    *)
(***************************************************************************)
EXTENDS ProviderRun, TLAPS, SequenceTheorems

-----------------------------------------------------------------------------
(* The inductive invariant                                                 *)

\* Chunks of a stream that its reader has taken from the pipe.
Taken(s) == written[s] - Len(pipe[s])

\* What is collected and what is stored begins with the first chunk, and the
\* pipe holds the last ones.
Order ==
  \A s \in Streams :
    /\ \A i \in 1..Len(output[s]) : output[s][i] = i
    /\ \A i \in 1..Len(stored[s]) : stored[s][i] = i
    /\ \A i \in 1..Len(pipe[s]) : pipe[s][i] = Taken(s) + i
    /\ Len(stored[s]) <= Len(output[s]) /\ Len(output[s]) <= Taken(s)

\* The channel holds the chunks between, those of one stream in their order.
Transit ==
  /\ \A j \in 1..Len(channel) :
       Len(output[channel[j].stream]) < channel[j].chunk /\ channel[j].chunk <= Taken(channel[j].stream)
  /\ \A i, j \in 1..Len(channel) :
       i < j /\ channel[i].stream = channel[j].stream => channel[i].chunk < channel[j].chunk
  /\ \A s \in Streams, k \in Chunks :
       Len(output[s]) < k /\ k <= Taken(s) =>
         \E j \in 1..Len(channel) : channel[j].stream = s /\ channel[j].chunk = k

Before == {"prompt", "collect", "drain", "join"}

\* Nobody writes to a stream whose reader has ended, and a run is concluded when
\* all have; before that there is no verdict.
Ends ==
  /\ \A s \in Streams : reader[s] = "ended" => pipe[s] = <<>> /\ Writers = {}
  /\ host = "spawn" => /\ child = "none" /\ flags = {} /\ status = "none" /\ verdict = "none"
                       /\ \A s \in Streams : reader[s] = "none"
  /\ host \in Before => verdict = "none"
  /\ host = "join" \/ verdict \in Verdicts \ {"error"} =>
       channel = <<>> /\ stored = output /\ \A s \in Streams : reader[s] = "ended"

\* What was killed stays dead, and what has exited stays so.
Killed ==
  /\ flags # {} => "running" \notin {child, helper}
  /\ status = "exited" => child = "exited"
  /\ verdict = "ok" => status = "exited" /\ flags = {}

IInv == TypeOK /\ Order /\ Transit /\ Ends /\ Killed

-----------------------------------------------------------------------------
(* Types                                                                   *)

FlowTypes ==
  /\ written \in [Streams -> 0..MaxChunks]
  /\ pipe \in [Streams -> Seq(Chunks)] /\ \A s \in Streams : Len(pipe[s]) <= PipeSize
  /\ output \in [Streams -> Seq(Chunks)] /\ stored \in [Streams -> Seq(Chunks)]
  /\ channel \in Seq(Message)

PlainTypes ==
  /\ timed \in BOOLEAN /\ expired \in BOOLEAN
  /\ host \in {"spawn", "prompt", "collect", "drain", "join", "record", "over"}
  /\ prompt \in 0..PromptSize /\ stdin \in 0..PipeSize
  /\ child \in {"none", "running", "exited", "crashed", "killed"}
  /\ helper \in {"none", "running", "detached", "exited", "killed"}
  /\ reader \in [Streams -> {"none", "reading", "ended"}]
  /\ activity \in {"Running", "Completed", "Error"}
  /\ flags \subseteq {"timedOut", "cancelled"}
  /\ status \in {"none", "exited", "crashed", "killed"}
  /\ verdict \in Verdicts \cup {"none"}
  /\ faults \in 0..MaxFaults

\* The type invariant is that of the chunks on their way and that of the rest.
LEMMA TypesParted == (TypeOK <=> FlowTypes /\ PlainTypes) /\ (TypeOK' <=> FlowTypes' /\ PlainTypes')
  BY DEF TypeOK, FlowTypes, PlainTypes

\* The sizes are natural numbers.
LEMMA Sizes == PromptSize \in Nat /\ MaxChunks \in Nat /\ PipeSize \in Nat /\ MaxFaults \in Nat
  BY SizesOK

\* The types hold at first.
LEMMA InitTypes == Init => TypeOK
  <1> SUFFICES ASSUME Init PROVE FlowTypes /\ PlainTypes
    BY TypesParted
  <1>1. <<>> \in Seq(Chunks) /\ Len(<<>>) = 0 /\ <<>> \in Seq(Message)
    BY EmptySeq
  <1>2. FlowTypes
    BY <1>1, Sizes DEF Init, FlowTypes
  <1>3. prompt \in 0..PromptSize /\ stdin \in 0..PipeSize /\ faults \in 0..MaxFaults /\ timed \in BOOLEAN
    BY Sizes, SizesOK DEF Init
  <1>4. PlainTypes
    BY <1>3 DEF Init, PlainTypes
  <1> QED
    BY <1>2, <1>4

\* What is written, read, collected and stored.
LEMMA StepKeepsFlowTypes ==
    ASSUME FlowTypes, [Next]_vars
    PROVE  FlowTypes'
  <1>1. CASE UNCHANGED <<written, pipe, channel, output, stored>>
    BY <1>1 DEF FlowTypes
  <1>2. CASE AppendChunk
    <2> DEFINE c == Head(channel)
    <2>1. c \in Message /\ channel' \in Seq(Message)
      BY <1>2, HeadTailProperties DEF AppendChunk, FlowTypes
    <2>2. c.stream \in Streams /\ c.chunk \in Chunks
      BY <2>1 DEF Message
    <2>3. output' \in [Streams -> Seq(Chunks)]
      <3>1. Append(output[c.stream], c.chunk) \in Seq(Chunks)
        BY <2>2, AppendProperties DEF FlowTypes
      <3> QED
        BY <1>2, <2>2, <3>1 DEF AppendChunk, FlowTypes
    <2>4. stored' \in {stored, output'} /\ UNCHANGED <<written, pipe>>
      BY <1>2 DEF AppendChunk, SaveLog, procVars
    <2> QED
      BY <2>1, <2>3, <2>4 DEF FlowTypes
  <1>3. CASE Drained \/ Record
    <2>1. stored' \in {stored, output} /\ UNCHANGED <<written, pipe, channel, output>>
      BY <1>3 DEF Drained, Record, procVars, readVars
    <2> QED
      BY <2>1 DEF FlowTypes
  <1>4. ASSUME NEW s \in Streams, Read(s), pipe[s] # <<>>
        PROVE  FlowTypes'
    <2>1. /\ Head(pipe[s]) \in Chunks /\ Tail(pipe[s]) \in Seq(Chunks)
          /\ Len(Tail(pipe[s])) <= PipeSize
      BY <1>4, HeadTailProperties, Sizes DEF FlowTypes
    <2>2. [stream |-> s, chunk |-> Head(pipe[s])] \in Message
      BY <2>1 DEF Message
    <2>3. pipe' = [pipe EXCEPT ![s] = Tail(pipe[s])] /\ UNCHANGED <<written, output, stored>>
          /\ channel' = Append(channel, [stream |-> s, chunk |-> Head(pipe[s])])
      BY <1>4 DEF Read, logVars
    <2>4. channel' \in Seq(Message)
      BY <2>2, <2>3, AppendProperties DEF FlowTypes
    <2> QED
      BY <2>1, <2>3, <2>4 DEF FlowTypes
  <1>5. ASSUME NEW s \in Streams, WriteStream(s)
        PROVE  FlowTypes'
    <2>1. /\ written[s] + 1 \in 0..MaxChunks
          /\ Len(Append(pipe[s], written[s] + 1)) <= PipeSize
          /\ Append(pipe[s], written[s] + 1) \in Seq(Chunks)
      <3>1. written[s] + 1 \in Chunks /\ written[s] + 1 \in 0..MaxChunks
        BY <1>5, Sizes DEF WriteStream, Chunks, FlowTypes
      <3>2. Len(pipe[s]) + 1 <= PipeSize /\ pipe[s] \in Seq(Chunks)
        BY <1>5, Sizes DEF WriteStream, FlowTypes
      <3> QED
        BY <3>1, <3>2, AppendProperties
    <2>2. /\ pipe' = [pipe EXCEPT ![s] = Append(pipe[s], written[s] + 1)]
          /\ written' = [written EXCEPT ![s] = written[s] + 1] /\ UNCHANGED <<channel, output, stored>>
      BY <1>5 DEF WriteStream, readVars, logVars
    <2> QED
      BY <2>1, <2>2 DEF FlowTypes
  <1>6. CASE \/ Spawn \/ WritePrompt \/ Reap \/ Conclude \/ CancelCheckFails \/ Expire \/ Cancel
             \/ ReadStdin \/ Fork \/ ChildExits \/ HelperExits \/ UNCHANGED vars
             \/ \E why \in {"timedOut", "cancelled"} : Kill(why)
    BY <1>1, <1>6 DEF Spawn, WritePrompt, Reap, Conclude, CancelCheckFails, Expire, Cancel, ReadStdin, Fork,
       ChildExits, HelperExits, Kill, vars, procVars, readVars, logVars
  <1>7. ASSUME NEW s \in Streams, Read(s), pipe[s] = <<>>
        PROVE  FlowTypes'
    BY <1>1, <1>7 DEF Read, logVars
  <1> QED
    BY <1>2, <1>3, <1>4, <1>5, <1>6, <1>7 DEF Next, HostStep, Command

\* The rest: flags, places and counts.
LEMMA StepKeepsPlainTypes ==
    ASSUME PlainTypes, [Next]_vars
    PROVE  PlainTypes'
  <1> USE Sizes DEF PlainTypes, Verdicts
  <1>1. CASE Spawn \/ WritePrompt
    <2>1. /\ host' \in {host, "prompt", "record", "collect"} /\ verdict' \in {verdict, "error"}
          /\ child' \in {child, "running"}
          /\ UNCHANGED <<timed, helper, expired, activity, flags, status, faults>>
      BY <1>1 DEF Spawn, WritePrompt, GivesUp, envVars
    <2>2. prompt' \in 0..PromptSize /\ stdin' \in 0..PipeSize
      BY <1>1 DEF Spawn, WritePrompt
    <2>3. reader' \in [Streams -> {"none", "reading", "ended"}]
      BY <1>1 DEF Spawn, WritePrompt, readVars
    <2> QED
      BY <2>1, <2>2, <2>3
  <1>2. CASE AppendChunk
    <2>1. /\ host' \in {host, "record"} /\ verdict' \in {verdict, "error"} /\ faults' \in 0..MaxFaults
          /\ UNCHANGED <<timed, prompt, stdin, child, helper, reader, expired, activity, flags, status>>
      BY <1>2 DEF AppendChunk, Fault, GivesUp, procVars, envVars
    <2> QED
      BY <2>1
  <1>3. CASE Reap \/ Conclude
    <2>1. /\ host' \in {"drain", "record"} /\ status' \in {status, "exited", "crashed", "killed"}
          /\ verdict' \in {verdict, "ok", "failed", "timedOut", "cancelled"}
          /\ UNCHANGED <<timed, prompt, stdin, child, helper, reader, expired, activity, flags, faults>>
      BY <1>3 DEF Reap, Conclude, Verdict, procVars, readVars, envVars
    <2> QED
      BY <2>1
  <1>4. CASE Drained \/ Record
    <2>1. /\ host' \in {"join", "over"} /\ activity' \in {activity, "Completed", "Error"}
          /\ UNCHANGED <<timed, prompt, stdin, child, helper, reader, expired, flags, status, verdict>>
      BY <1>4 DEF Drained, Record, procVars, readVars, envVars, verdictVars
    <2>2. faults' \in 0..MaxFaults
      BY <1>4 DEF Drained, Record, Fault
    <2> QED
      BY <2>1, <2>2
  <1>5. ASSUME NEW why \in {"timedOut", "cancelled"}, Kill(why)
        PROVE  PlainTypes'
    BY <1>5 DEF Kill, Dies, readVars, envVars
  <1>6. CASE CancelCheckFails
    BY <1>6 DEF CancelCheckFails, Fault, GivesUp, procVars, readVars, envVars
  <1>7. ASSUME NEW s \in Streams, Read(s)
        PROVE  PlainTypes'
    <2>1. /\ reader' = reader \/ reader' = [reader EXCEPT ![s] = "ended"]
          /\ UNCHANGED <<timed, host, prompt, stdin, child, helper, expired, activity, flags, status, verdict, faults>>
      BY <1>7 DEF Read, envVars, verdictVars
    <2> QED
      BY <2>1
  <1>8. ASSUME NEW s \in Streams, WriteStream(s)
        PROVE  PlainTypes'
    BY <1>8 DEF WriteStream, readVars, envVars, verdictVars
  <1>9. CASE ReadStdin \/ Fork \/ ChildExits \/ HelperExits
    <2>1. /\ child' \in {child, "exited", "crashed"} /\ helper' \in {helper, "running", "detached", "exited"}
          /\ UNCHANGED <<timed, host, prompt, reader, expired, activity, flags, status, verdict, faults>>
      BY <1>9 DEF ReadStdin, Fork, ChildExits, HelperExits, readVars, envVars, verdictVars
    <2>2. stdin' \in 0..PipeSize
      BY <1>9 DEF ReadStdin, Fork, ChildExits, HelperExits
    <2> QED
      BY <2>1, <2>2
  <1>10. CASE Expire \/ Cancel
    <2>1. /\ activity' \in {activity, "Error"}
          /\ UNCHANGED <<timed, host, prompt, stdin, child, helper, reader, flags, status, verdict, faults>>
      BY <1>10 DEF Expire, Cancel, procVars, readVars, verdictVars
    <2>2. expired' = TRUE \/ expired' = expired
      BY <1>10 DEF Expire, Cancel
    <2>3. expired' \in BOOLEAN
      BY <2>2, Zenon
    <2> QED
      BY <2>1, <2>3
  <1>11. CASE UNCHANGED vars
    BY <1>11 DEF vars, procVars, readVars, envVars, verdictVars
  <1> QED
    BY <1>1, <1>2, <1>3, <1>4, <1>5, <1>6, <1>7, <1>8, <1>9, <1>10, <1>11 DEF Next, HostStep, Command

\* Every step keeps the types.
LEMMA StepKeepsTypes == TypeOK /\ [Next]_vars => TypeOK'
  BY TypesParted, StepKeepsFlowTypes, StepKeepsPlainTypes

\* The fields are of their types, whatever the bounds are.
THEOREM TypeCorrect == Spec => []TypeOK
  BY InitTypes, StepKeepsTypes, PTL DEF Spec

-----------------------------------------------------------------------------
(* The output                                                              *)

\* The lengths and the elements the steps of the output speak about.
LEMMA Lengths ==
    ASSUME FlowTypes
    PROVE  /\ \A s \in Streams : /\ Len(pipe[s]) \in Nat /\ Len(output[s]) \in Nat /\ Len(stored[s]) \in Nat
                                 /\ written[s] \in Nat /\ written[s] <= MaxChunks
                                 /\ pipe[s] \in Seq(Chunks) /\ output[s] \in Seq(Chunks)
                                 /\ stored[s] \in Seq(Chunks)
           /\ Len(channel) \in Nat /\ DOMAIN channel = 1..Len(channel)
           /\ \A j \in 1..Len(channel) : channel[j].stream \in Streams /\ channel[j].chunk \in Chunks
           /\ \A j \in 1..Len(channel) : channel[j].chunk \in Nat
           /\ \A k \in Nat : k \in Chunks <=> 1 <= k /\ k <= MaxChunks
           /\ \A k \in Chunks : k \in Nat
           /\ \A s \in Streams : Taken(s) \in Int /\ Taken(s) <= MaxChunks
           /\ channel \in Seq(Message) /\ MaxChunks \in Nat
  <1>1. channel \in Seq(Message)
    BY DEF FlowTypes
  <1>2. \A j \in 1..Len(channel) : channel[j] \in Message
    BY <1>1
  <1>3. \A j \in 1..Len(channel) : channel[j].stream \in Streams /\ channel[j].chunk \in Chunks
    BY <1>2 DEF Message
  <1>4. Len(channel) \in Nat /\ DOMAIN channel = 1..Len(channel)
    BY <1>1
  <1>5. /\ \A k \in Nat : k \in Chunks <=> 1 <= k /\ k <= MaxChunks
        /\ \A k \in Chunks : k \in Nat
        /\ MaxChunks \in Nat
    BY Sizes DEF Chunks
  <1>6. \A s \in Streams : pipe[s] \in Seq(Chunks) /\ output[s] \in Seq(Chunks) /\ stored[s] \in Seq(Chunks)
    BY DEF FlowTypes
  <1>7. \A s \in Streams : written[s] \in Nat /\ written[s] <= MaxChunks
    BY Sizes DEF FlowTypes
  <1>8. \A s \in Streams : Taken(s) \in Int /\ Taken(s) <= MaxChunks
    BY <1>5, <1>6, <1>7 DEF Taken
  <1> QED
    BY <1>1, <1>3, <1>4, <1>5, <1>6, <1>7, <1>8

\* The chunk the host takes next is the one that follows what it has.
LEMMA NextChunk ==
    ASSUME FlowTypes, Order, Transit, channel # <<>>
    PROVE  LET c == Head(channel) IN c.stream \in Streams /\ c.chunk = Len(output[c.stream]) + 1
  <1> DEFINE c == channel[1]
  <1>1. 1 \in 1..Len(channel) /\ Head(channel) = c
    BY Lengths
  <1>2. c.stream \in Streams /\ Len(output[c.stream]) < c.chunk /\ c.chunk <= Taken(c.stream) /\ c.chunk \in Chunks
    BY <1>1, Lengths DEF Transit
  <1> DEFINE k == Len(output[c.stream]) + 1
  <1>3. k \in Chunks /\ k <= Taken(c.stream) /\ k <= c.chunk /\ Len(output[c.stream]) < k
    <2>1. Len(output[c.stream]) \in Nat /\ c.chunk \in Nat /\ Taken(c.stream) \in Int
          /\ Taken(c.stream) <= MaxChunks /\ MaxChunks \in Nat
      BY <1>1, <1>2, Lengths
    <2>2. k \in Nat /\ 1 <= k /\ k <= c.chunk /\ k <= Taken(c.stream) /\ k <= MaxChunks
      BY <1>2, <2>1
    <2> QED
      BY <2>1, <2>2, Lengths
  <1>4. PICK j \in 1..Len(channel) : channel[j].stream = c.stream /\ channel[j].chunk = k
    <2> HIDE DEF c, k
    <2> QED
      BY <1>2, <1>3 DEF Transit
  <1>5. j # 1 => c.chunk < k
    BY <1>1, <1>4 DEF Transit
  <1> QED
    BY <1>1, <1>2, <1>3, <1>4, <1>5, Lengths

\* Storing a chunk that was collected, or failing to, keeps the order of the chunks.
LEMMA AppendKeepsFlow ==
    ASSUME FlowTypes, Order, Transit, AppendChunk
    PROVE  Order' /\ Transit'
  <1> DEFINE c == Head(channel)
             t == c.stream
  <1>1. c.stream \in Streams /\ c.chunk = Len(output[t]) + 1 /\ Head(channel) = channel[1] /\ channel # <<>>
    BY NextChunk, Lengths DEF AppendChunk
  <1>2. /\ UNCHANGED <<written, pipe>> /\ channel' = Tail(channel)
        /\ output' = [output EXCEPT ![t] = Append(@, c.chunk)]
        /\ stored' = output' \/ stored' = stored
    BY DEF AppendChunk, SaveLog, procVars
  <1>3. /\ Len(channel') = Len(channel) - 1 /\ \A j \in 1..Len(channel') : channel'[j] = channel[j + 1]
        /\ Len(channel) >= 1
    BY <1>1, <1>2, Lengths, HeadTailProperties
  <1>4. /\ Len(output'[t]) = Len(output[t]) + 1 /\ output'[t][Len(output[t]) + 1] = c.chunk
        /\ \A i \in 1..Len(output[t]) : output'[t][i] = output[t][i]
        /\ \A s \in Streams \ {t} : output'[s] = output[s]
    <2>1. output'[t] = Append(output[t], c.chunk) /\ \A s \in Streams \ {t} : output'[s] = output[s]
      BY <1>1, <1>2 DEF FlowTypes
    <2>2. c.chunk \in Chunks /\ output[t] \in Seq(Chunks)
      BY <1>1, <1>3, Lengths
    <2> QED
      BY <2>1, <2>2, AppendProperties
  <1>5. c.chunk <= Taken(t)
    BY <1>1, <1>3, Lengths DEF Transit
  <1>6. Order'
    <2>1. \A s \in Streams : /\ \A i \in 1..Len(output'[s]) : output'[s][i] = i
                             /\ Len(output'[s]) <= Taken(s) /\ Len(output[s]) <= Len(output'[s])
      <3>1. \A s \in Streams : /\ \A i \in 1..Len(output[s]) : output[s][i] = i
                               /\ Len(output[s]) <= Taken(s) /\ Len(output[s]) \in Nat
        BY Lengths DEF Order
      <3>2. \A i \in 1..Len(output'[t]) : output'[t][i] = i
        BY <1>1, <1>4, <3>1
      <3>3. Len(output'[t]) <= Taken(t)
        BY <1>1, <1>4, <1>5
      <3> QED
        BY <1>1, <1>4, <3>1, <3>2, <3>3
    <2>2. \A s \in Streams : /\ \A i \in 1..Len(stored'[s]) : stored'[s][i] = i
                             /\ Len(stored'[s]) <= Len(output'[s])
      <3>1. \A s \in Streams : /\ \A i \in 1..Len(stored[s]) : stored[s][i] = i
                               /\ Len(stored[s]) <= Len(output[s])
        BY DEF Order
      <3>2. \A s \in Streams : Len(output'[s]) \in Nat
        BY <1>4, Lengths
      <3> QED
        <4>1. \A s \in Streams : Len(stored[s]) \in Nat /\ Len(output[s]) \in Nat
          BY Lengths
        <4>2. CASE stored' = output'
          BY <2>1, <3>2, <4>2
        <4>3. CASE stored' = stored
          BY <2>1, <3>1, <3>2, <4>1, <4>3
        <4> QED
          BY <1>2, <4>2, <4>3
    <2> QED
      BY <1>2, <2>1, <2>2 DEF Order, Taken
  <1>7. Transit'
    <2>1. \A j \in 1..Len(channel') : Len(output'[channel'[j].stream]) < channel'[j].chunk
                                      /\ channel'[j].chunk <= Taken(channel'[j].stream)
      <3> SUFFICES ASSUME NEW j \in 1..Len(channel')
                   PROVE  /\ Len(output'[channel'[j].stream]) < channel'[j].chunk
                          /\ channel'[j].chunk <= Taken(channel'[j].stream)
        OBVIOUS
      <3>1. j + 1 \in 1..Len(channel) /\ 1 \in 1..Len(channel) /\ 1 < j + 1 /\ channel'[j] = channel[j + 1]
        BY <1>3, Lengths
      <3>2. channel'[j].stream = t => c.chunk < channel'[j].chunk
        BY <1>1, <3>1 DEF Transit
      <3>3. /\ Len(output[channel[j + 1].stream]) < channel[j + 1].chunk
            /\ channel[j + 1].chunk <= Taken(channel[j + 1].stream)
            /\ channel[j + 1].stream \in Streams /\ channel[j + 1].chunk \in Nat
        BY <3>1, Lengths DEF Transit
      <3> QED
        BY <1>1, <1>4, <3>1, <3>2, <3>3, Lengths
    <2>2. \A i, j \in 1..Len(channel') : i < j /\ channel'[i].stream = channel'[j].stream =>
            channel'[i].chunk < channel'[j].chunk
      <3> SUFFICES ASSUME NEW i \in 1..Len(channel'), NEW j \in 1..Len(channel'), i < j,
                          channel'[i].stream = channel'[j].stream
                   PROVE  channel'[i].chunk < channel'[j].chunk
        OBVIOUS
      <3>1. i + 1 \in 1..Len(channel) /\ j + 1 \in 1..Len(channel) /\ i + 1 < j + 1
        BY <1>3, Lengths
      <3>2. channel'[i] = channel[i + 1] /\ channel'[j] = channel[j + 1]
        BY <1>3
      <3> QED
        BY <3>1, <3>2 DEF Transit
    <2>3. ASSUME NEW s \in Streams, NEW k \in Chunks, Len(output'[s]) < k, k <= Taken(s)
          PROVE  \E j \in 1..Len(channel') : channel'[j].stream = s /\ channel'[j].chunk = k
      <3>1. Len(output[s]) < k /\ (s = t => k # c.chunk)
        BY <1>1, <1>4, <2>3, Lengths
      <3>2. PICK j \in 1..Len(channel) : channel[j].stream = s /\ channel[j].chunk = k
        BY <2>3, <3>1 DEF Transit
      <3>3. j # 1
        BY <1>1, <3>1, <3>2
      <3>4. j - 1 \in 1..Len(channel') /\ channel'[j - 1] = channel[j]
        BY <1>3, <3>3, Lengths
      <3> QED
        BY <3>2, <3>4
    <2>4. \A s : Taken(s)' = Taken(s)
      BY <1>2 DEF Taken
    <2> QED
      BY <2>1, <2>2, <2>3, <2>4 DEF Transit
  <1> QED
    BY <1>6, <1>7

\* A reader that sends a chunk, or ends, keeps the order of the chunks.
LEMMA ReadKeepsFlow ==
    ASSUME FlowTypes, Order, Transit, NEW t \in Streams, Read(t), pipe[t] # <<>>
    PROVE  Order' /\ Transit'
  <1> DEFINE n == Len(channel)
             c == [stream |-> t, chunk |-> pipe[t][1]]
             Then(s) == written'[s] - Len(pipe'[s])
  <1>1. UNCHANGED <<written, output, stored>>
    BY DEF Read, logVars
  <1>2. /\ pipe' = [pipe EXCEPT ![t] = Tail(pipe[t])] /\ Head(pipe[t]) = pipe[t][1]
        /\ channel' = Append(channel, c)
    BY Lengths, HeadTailProperties DEF Read
  <1>3. /\ Len(pipe[t]) \in Nat /\ Len(pipe[t]) >= 1
        /\ Len(pipe'[t]) = Len(pipe[t]) - 1 /\ \A i \in 1..Len(pipe'[t]) : pipe'[t][i] = pipe[t][i + 1]
        /\ \A s \in Streams \ {t} : pipe'[s] = pipe[s]
    <2>1. pipe'[t] = Tail(pipe[t]) /\ \A s \in Streams \ {t} : pipe'[s] = pipe[s]
      BY <1>2 DEF FlowTypes
    <2>2. pipe[t] \in Seq(Chunks) /\ pipe[t] # <<>>
      BY Lengths
    <2> QED
      BY <2>1, <2>2, HeadTailProperties
  <1>4. pipe[t][1] = Taken(t) + 1 /\ pipe[t][1] \in Chunks /\ Then(t) = Taken(t) + 1
        /\ \A s \in Streams \ {t} : Then(s) = Taken(s)
    <2>1. 1 \in 1..Len(pipe[t]) /\ pipe[t] \in Seq(Chunks)
      BY <1>3, Lengths
    <2>2. Then(t) = Taken(t) + 1
      BY <1>1, <1>3, Lengths DEF Taken
    <2> QED
      BY <1>1, <1>3, <2>1, <2>2 DEF Order, Taken
  <1>5. /\ n \in Nat /\ Len(channel') = n + 1 /\ channel'[n + 1] = c
        /\ \A j \in 1..n : channel'[j] = channel[j]
    <2>1. c \in Message /\ channel \in Seq(Message) /\ n \in Nat
      BY <1>4, Lengths DEF Message
    <2> QED
      BY <1>2, <2>1, AppendProperties
  <1>6. Order'
    <2>1. \A i \in 1..Len(pipe'[t]) : pipe'[t][i] = Then(t) + i
      <3> SUFFICES ASSUME NEW i \in 1..Len(pipe'[t])
                   PROVE  pipe'[t][i] = Then(t) + i
        OBVIOUS
      <3>1. i + 1 \in 1..Len(pipe[t]) /\ pipe'[t][i] = pipe[t][i + 1]
        BY <1>3
      <3>2. pipe[t][i + 1] = Taken(t) + (i + 1)
        BY <3>1 DEF Order
      <3>3. Taken(t) \in Int /\ i \in Nat
        BY <1>3, Lengths
      <3> HIDE DEF Then
      <3> QED
        BY <1>4, <3>1, <3>2, <3>3
    <2>2. Len(output[t]) <= Then(t)
      BY <1>4, Lengths DEF Order
    <2> QED
      BY <1>1, <1>3, <1>4, <2>1, <2>2 DEF Order, Taken
  <1>7. Transit'
    <2>1. ASSUME NEW j \in 1..Len(channel')
          PROVE  /\ Len(output[channel'[j].stream]) < channel'[j].chunk
                 /\ channel'[j].chunk <= Then(channel'[j].stream)
      <3>1. CASE j = n + 1
        <4>1. channel'[j].stream = t /\ channel'[j].chunk = Taken(t) + 1
          BY <1>4, <1>5, <3>1
        <4> QED
          <5>1. Len(output[t]) <= Taken(t) /\ Len(output[t]) \in Nat /\ Taken(t) \in Int
            BY Lengths DEF Order
          <5> HIDE DEF Then
          <5> QED
            BY <1>4, <4>1, <5>1
      <3>2. CASE j \in 1..n
        <4>1. /\ Len(output[channel[j].stream]) < channel[j].chunk /\ channel[j].chunk <= Taken(channel[j].stream)
              /\ channel[j].stream \in Streams /\ channel[j].chunk \in Nat /\ channel'[j] = channel[j]
          BY <1>5, <3>2, Lengths DEF Transit
        <4>2. \A s \in Streams : Taken(s) \in Int /\ Taken(s) <= Then(s) /\ Then(s) \in Int
          BY <1>4, Lengths
        <4> QED
          <5> HIDE DEF Then
          <5> QED
            BY <4>1, <4>2, Lengths
      <3> QED
        BY <1>5, <3>1, <3>2
    <2>2. ASSUME NEW i \in 1..Len(channel'), NEW j \in 1..Len(channel'), i < j,
                 channel'[i].stream = channel'[j].stream
          PROVE  channel'[i].chunk < channel'[j].chunk
      <3>1. i \in 1..n /\ channel'[i] = channel[i] /\ channel[i].chunk \in Nat
        BY <1>5, <2>2, Lengths
      <3>2. CASE j = n + 1
        <4>1. channel'[j].stream = t /\ channel'[j].chunk = Taken(t) + 1
          BY <1>4, <1>5, <3>2
        <4> QED
          BY <2>2, <3>1, <4>1, Lengths DEF Transit
      <3>3. CASE j \in 1..n
        BY <1>5, <2>2, <3>1, <3>3 DEF Transit
      <3> QED
        BY <1>5, <3>2, <3>3
    <2>3. ASSUME NEW s \in Streams, NEW k \in Chunks, Len(output[s]) < k, k <= Then(s)
          PROVE  \E j \in 1..Len(channel') : channel'[j].stream = s /\ channel'[j].chunk = k
      <3>1. CASE k <= Taken(s)
        <4>1. PICK j \in 1..n : channel[j].stream = s /\ channel[j].chunk = k
          BY <2>3, <3>1 DEF Transit
        <4>2. j \in 1..Len(channel') /\ channel'[j] = channel[j]
          BY <1>5
        <4> QED
          BY <4>1, <4>2
      <3>2. CASE s = t /\ k = Taken(t) + 1
        <4>1. n + 1 \in 1..Len(channel') /\ channel'[n + 1].stream = t /\ channel'[n + 1].chunk = Taken(t) + 1
          BY <1>4, <1>5
        <4> QED
          BY <3>2, <4>1
      <3> QED
        BY <1>4, <2>3, <3>1, <3>2, Lengths
    <2> QED
      BY <1>1, <2>1, <2>2, <2>3 DEF Transit, Taken
  <1> QED
    BY <1>6, <1>7

\* A process that writes a chunk keeps the order of the chunks.
LEMMA WriteKeepsFlow ==
    ASSUME FlowTypes, Order, Transit, NEW t \in Streams, WriteStream(t)
    PROVE  Order' /\ Transit'
  <1> DEFINE Then(s) == written'[s] - Len(pipe'[s])
  <1>1. UNCHANGED <<channel, output, stored>>
    BY DEF WriteStream, readVars, logVars
  <1>2. /\ written' = [written EXCEPT ![t] = written[t] + 1]
        /\ pipe' = [pipe EXCEPT ![t] = Append(pipe[t], written[t] + 1)]
        /\ written[t] < MaxChunks
    BY DEF WriteStream
  <1>3. /\ written'[t] = written[t] + 1 /\ \A s \in Streams \ {t} : written'[s] = written[s] /\ pipe'[s] = pipe[s]
        /\ Len(pipe'[t]) = Len(pipe[t]) + 1 /\ pipe'[t][Len(pipe[t]) + 1] = written[t] + 1
        /\ \A i \in 1..Len(pipe[t]) : pipe'[t][i] = pipe[t][i]
    <2>1. /\ written'[t] = written[t] + 1 /\ pipe'[t] = Append(pipe[t], written[t] + 1)
          /\ \A s \in Streams \ {t} : written'[s] = written[s] /\ pipe'[s] = pipe[s]
      BY <1>2 DEF FlowTypes
    <2>2. written[t] + 1 \in Chunks /\ pipe[t] \in Seq(Chunks)
      BY <1>2, Lengths
    <2> QED
      BY <2>1, <2>2, AppendProperties
  <1>4. \A s \in Streams : Then(s) = Taken(s)
    <2>1. \A s \in Streams : Len(pipe[s]) \in Nat /\ written[s] \in Nat
      BY Lengths
    <2>2. written'[t] - Len(pipe'[t]) = written[t] - Len(pipe[t])
      BY <1>3, <2>1
    <2> QED
      BY <1>3, <2>2 DEF Taken
  <1>5. Order'
    <2>1. \A i \in 1..Len(pipe'[t]) : pipe'[t][i] = Taken(t) + i
      <3> SUFFICES ASSUME NEW i \in 1..Len(pipe'[t]) PROVE pipe'[t][i] = Taken(t) + i
        OBVIOUS
      <3>1. CASE i \in 1..Len(pipe[t])
        BY <1>3, <3>1 DEF Order
      <3>2. CASE i = Len(pipe[t]) + 1
        BY <1>3, <3>2, Lengths DEF Taken
      <3> QED
        BY <1>3, <3>1, <3>2, Lengths
    <2> QED
      BY <1>1, <1>3, <1>4, <2>1 DEF Order, Taken
  <1>6. Transit'
    <2>1. \A j \in 1..Len(channel) : channel[j].stream \in Streams
      BY Lengths
    <2> QED
      BY <1>1, <1>4, <2>1 DEF Transit, Taken
  <1> QED
    BY <1>5, <1>6

\* Every step keeps the order of the chunks and what the channel holds.
LEMMA StepKeepsFlow ==
    ASSUME FlowTypes, Order, Transit, [Next]_vars
    PROVE  Order' /\ Transit'
  <1>1. CASE UNCHANGED <<written, pipe, channel, output>> /\ stored' \in {stored, output}
    <2>1. Order'
      BY <1>1, Lengths DEF Order, Taken
    <2>2. Transit'
      BY <1>1 DEF Transit, Taken
    <2> QED
      BY <2>1, <2>2
  <1>2. CASE \/ Spawn \/ WritePrompt \/ Reap \/ Conclude \/ CancelCheckFails \/ Expire \/ Cancel
             \/ ReadStdin \/ Fork \/ ChildExits \/ HelperExits \/ UNCHANGED vars
             \/ \E why \in {"timedOut", "cancelled"} : Kill(why)
    BY <1>1, <1>2 DEF Spawn, WritePrompt, Reap, Conclude, CancelCheckFails, Expire, Cancel, ReadStdin, Fork,
       ChildExits, HelperExits, Kill, vars, procVars, readVars, logVars
  <1>3. CASE Drained \/ Record
    BY <1>1, <1>3 DEF Drained, Record, procVars, readVars
  <1>4. ASSUME NEW s \in Streams, Read(s), pipe[s] = <<>>
        PROVE  Order' /\ Transit'
    BY <1>1, <1>4 DEF Read, logVars
  <1> QED
    BY <1>2, <1>3, <1>4, AppendKeepsFlow, ReadKeepsFlow, WriteKeepsFlow DEF Next, HostStep, Command

-----------------------------------------------------------------------------
(* The end of the run                                                      *)

\* The processes change only while they live, and one that has ended stays so.
LEMMA ProcessSteps ==
    ASSUME PlainTypes, [Next]_vars, host # "spawn"
    PROVE  /\ Writers = {} => Writers' = {}
           /\ child = "exited" => child' = "exited"
           /\ "running" \notin {child, helper} => "running" \notin {child', helper'}
  <1>1. CASE UNCHANGED <<child, helper>>
    BY <1>1 DEF Writers
  <1>2. CASE Fork \/ ChildExits \/ HelperExits
    BY <1>2 DEF Fork, ChildExits, HelperExits, Writers
  <1>3. ASSUME NEW why \in {"timedOut", "cancelled"}, Kill(why)
        PROVE  /\ Writers = {} => Writers' = {}
               /\ child = "exited" => child' = "exited"
               /\ "running" \notin {child, helper} => "running" \notin {child', helper'}
    BY <1>3 DEF Kill, Dies, Writers
  <1>4. CASE \/ WritePrompt \/ Reap \/ Conclude \/ CancelCheckFails \/ Expire \/ Cancel \/ AppendChunk
             \/ Drained \/ Record \/ ReadStdin \/ UNCHANGED vars
             \/ \E s \in Streams : Read(s) \/ WriteStream(s)
    BY <1>1, <1>4 DEF WritePrompt, Reap, Conclude, CancelCheckFails, Expire, Cancel, AppendChunk, Drained,
       Record, ReadStdin, Read, WriteStream, vars, procVars
  <1>5. ~Spawn
    BY DEF Spawn
  <1> QED
    BY <1>2, <1>3, <1>4, <1>5 DEF Next, HostStep, Command

\* Every step keeps that a conclusion waited for the readers and the command.
LEMMA StepKeepsEnds ==
    ASSUME FlowTypes, PlainTypes, Ends, [Next]_vars
    PROVE  Ends'
  <1> DEFINE Stays == \A s \in Streams : reader[s] = "ended" => pipe[s] = <<>> /\ Writers = {}
             Start == host = "spawn" => /\ child = "none" /\ flags = {} /\ status = "none" /\ verdict = "none"
                                        /\ \A s \in Streams : reader[s] = "none"
             Early == host \in Before => verdict = "none"
             Late == host = "join" \/ verdict \in Verdicts \ {"error"} =>
                       channel = <<>> /\ stored = output /\ \A s \in Streams : reader[s] = "ended"
  <1>1. Stays'
    <2>1. CASE Spawn
      <3>1. \A s \in Streams : reader'[s] # "ended"
        BY <2>1 DEF Spawn, Ends, GivesUp
      <3> QED
        BY <3>1
    <2>2. CASE host # "spawn" /\ UNCHANGED <<reader, pipe>>
      BY <2>2, ProcessSteps DEF Ends
    <2>3. ASSUME NEW s \in Streams, Read(s)
          PROVE  Stays'
      <3>1. Writers' = Writers
        BY <2>3 DEF Read, Writers
      <3>2. CASE pipe[s] # <<>>
        BY <2>3, <3>1, <3>2 DEF Read, Ends, FlowTypes
      <3>3. CASE pipe[s] = <<>>
        BY <2>3, <3>1, <3>3 DEF Read, Ends, PlainTypes
      <3> QED
        BY <3>2, <3>3
    <2>4. ASSUME NEW s \in Streams, WriteStream(s)
          PROVE  Stays'
      BY <2>4 DEF WriteStream, Ends, Writers, readVars
    <2>5. CASE Command \/ Expire \/ Cancel \/ UNCHANGED vars
      <3>1. CASE \E s \in Streams : WriteStream(s)
        BY <2>4, <3>1
      <3>2. CASE host = "spawn" /\ UNCHANGED reader
        BY <3>2 DEF Ends
      <3>3. CASE UNCHANGED <<reader, pipe>>
        BY <2>2, <3>2, <3>3
      <3> QED
        BY <2>5, <3>1, <3>3 DEF Command, Expire, Cancel, ReadStdin, Fork, ChildExits, HelperExits, vars,
           procVars, readVars
    <2>6. CASE CancelCheckFails \/ (HostStep /\ ~Spawn)
      <3>1. host # "spawn" /\ UNCHANGED <<reader, pipe>>
        BY <2>6 DEF HostStep, CancelCheckFails, WritePrompt, AppendChunk, Reap, Drained, Conclude, Record, Kill,
           procVars, readVars
      <3> QED
        BY <2>2, <3>1
    <2> QED
      BY <2>1, <2>3, <2>5, <2>6 DEF Next
  <1>2. Start'
    BY DEF Ends, Next, HostStep, Command, Spawn, GivesUp, WritePrompt, AppendChunk, Reap, Drained, Conclude, Record,
       Kill, CancelCheckFails, Read, ReadStdin, WriteStream, Fork, ChildExits, HelperExits, Expire, Cancel, vars,
       procVars, readVars, logVars, verdictVars
  <1>3. Early'
    BY DEF Ends, Before, Next, HostStep, Command, Spawn, GivesUp, WritePrompt, AppendChunk, Reap, Drained, Conclude,
       Record, Kill, CancelCheckFails, Read, ReadStdin, WriteStream, Fork, ChildExits, HelperExits, Expire, Cancel,
       vars, verdictVars
  <1>4. Late'
    <2>1. CASE Spawn \/ WritePrompt \/ AppendChunk \/ Reap \/ CancelCheckFails
               \/ \E why \in {"timedOut", "cancelled"} : Kill(why)
      <3>1. host' # "join" /\ verdict' \in {verdict, "error"} /\ host \in Before \cup {"spawn"}
        BY <2>1 DEF Spawn, WritePrompt, AppendChunk, Reap, CancelCheckFails, Kill, GivesUp, Before
      <3> QED
        BY <3>1 DEF Ends, Verdicts
    <2>2. CASE Drained
      BY <2>2 DEF Drained, readVars
    <2>3. CASE Conclude
      BY <2>3 DEF Conclude, Ends, readVars, logVars
    <2>4. CASE Record
      BY <2>4 DEF Record, Ends, readVars, verdictVars
    <2>5. ASSUME NEW s \in Streams, Read(s)
          PROVE  Late'
      BY <2>5 DEF Read, Ends, logVars, verdictVars
    <2>6. CASE Command \/ Expire \/ Cancel \/ UNCHANGED vars
      <3>1. UNCHANGED <<host, verdict, channel, stored, output, reader>>
        BY <2>6 DEF Command, Expire, Cancel, ReadStdin, Fork, ChildExits, HelperExits, WriteStream, vars,
           readVars, logVars, verdictVars
      <3> QED
        BY <3>1 DEF Ends
    <2> QED
      BY <2>1, <2>2, <2>3, <2>4, <2>5, <2>6 DEF Next, HostStep
  <1> QED
    BY <1>1, <1>2, <1>3, <1>4 DEF Ends

\* Every step keeps that what was killed stays dead.
LEMMA StepKeepsKilled ==
    ASSUME PlainTypes, Ends, Killed, [Next]_vars
    PROVE  Killed'
  <1>1. CASE Spawn
    BY <1>1 DEF Spawn, GivesUp, Ends, Killed
  <1>2. CASE host # "spawn" /\ UNCHANGED <<flags, status, verdict>>
    BY <1>2, ProcessSteps DEF Killed
  <1>3. CASE host # "spawn" /\ UNCHANGED <<flags, status>> /\ verdict' = "error"
    BY <1>3, ProcessSteps DEF Killed
  <1>4. CASE Reap
    BY <1>4 DEF Reap, Ends, Before, Killed, procVars
  <1>5. ASSUME NEW why \in {"timedOut", "cancelled"}, Kill(why)
        PROVE  Killed'
    BY <1>5 DEF Kill, Dies, Ends, Before, Killed
  <1>6. CASE Conclude
    <2>1. verdict' = "ok" => flags = {} /\ status = "exited"
      BY <1>6 DEF Conclude, Verdict, PlainTypes
    <2> QED
      BY <1>6, <2>1 DEF Conclude, Killed, procVars
  <1>7. CASE host = "spawn" /\ UNCHANGED <<host, flags, status, verdict, child>> /\ ~Spawn
    BY <1>7 DEF Ends, Killed
  <1>8. CASE WritePrompt \/ AppendChunk \/ Drained \/ Record \/ CancelCheckFails
    <2>1. host # "spawn" /\ UNCHANGED <<flags, status>> /\ verdict' \in {verdict, "error"}
      BY <1>8 DEF WritePrompt, AppendChunk, Drained, Record, CancelCheckFails, GivesUp, verdictVars
    <2> QED
      BY <1>2, <1>3, <2>1
  <1>9. CASE (\E s \in Streams : Read(s)) \/ Command \/ Expire \/ Cancel \/ UNCHANGED vars
    <2>1. UNCHANGED <<host, flags, status, verdict>>
      BY <1>9 DEF Command, Expire, Cancel, Read, ReadStdin, Fork, ChildExits, HelperExits, WriteStream, vars,
         verdictVars
    <2>2. CASE host = "spawn"
      BY <2>1, <2>2 DEF Ends, Killed
    <2> QED
      BY <1>2, <2>1, <2>2
  <1> QED
    BY <1>1, <1>4, <1>5, <1>6, <1>8, <1>9 DEF Next, HostStep

-----------------------------------------------------------------------------
(* The theorems                                                            *)

\* The inductive invariant holds in every behaviour of the run.
LEMMA Invariant == Spec => []IInv
  <1>1. Init => IInv
    <2> SUFFICES ASSUME Init PROVE IInv
      OBVIOUS
    <2>1. /\ Len(<<>>) = 0 /\ \A k \in Nat : k > 0 => ~(0 < k /\ k <= 0)
          /\ \A s \in Streams : pipe[s] = <<>> /\ output[s] = <<>> /\ stored[s] = <<>> /\ Taken(s) = 0
          /\ channel = <<>>
      BY DEF Init, Taken
    <2>2. Order /\ Transit
      <3>1. Order
        BY <2>1 DEF Order
      <3>2. \A k \in Chunks : k \in Nat /\ k > 0
        BY Sizes DEF Chunks
      <3>3. Transit
        BY <2>1, <3>2 DEF Transit
      <3> QED
        BY <3>1, <3>3
    <2>3. Ends /\ Killed
      BY DEF Init, Ends, Killed, Before, Verdicts
    <2> QED
      BY <2>2, <2>3, InitTypes DEF IInv
  <1>2. IInv /\ [Next]_vars => IInv'
    <2>1. TypeOK => FlowTypes /\ PlainTypes
      BY TypesParted
    <2> QED
      BY <2>1, StepKeepsTypes, StepKeepsFlow, StepKeepsEnds, StepKeepsKilled DEF IInv
  <1> QED
    BY <1>1, <1>2, PTL DEF Spec

\* What the host has stored of a stream is always the beginning of what it has
\* collected, and a run with a verdict has collected all that was written.
THEOREM OutputComplete == Spec => []OutputIsComplete
  <1>1. IInv => OutputIsComplete
    <2> SUFFICES ASSUME IInv PROVE OutputIsComplete
      OBVIOUS
    <2>0. FlowTypes /\ Order /\ Transit /\ Ends
      BY TypesParted DEF IInv
    <2>1. ASSUME NEW s \in Streams PROVE IsPrefix(stored[s], output[s])
      <3>1. /\ stored[s] \in Seq(Chunks) /\ output[s] \in Seq(Chunks) /\ Len(stored[s]) <= Len(output[s])
            /\ Len(stored[s]) \in Nat /\ Len(output[s]) \in Nat
            /\ \A i \in 1..Len(stored[s]) : stored[s][i] = output[s][i]
        <4>1. /\ stored[s] \in Seq(Chunks) /\ output[s] \in Seq(Chunks)
              /\ Len(stored[s]) \in Nat /\ Len(output[s]) \in Nat
          BY <2>0, Lengths
        <4>2. /\ Len(stored[s]) <= Len(output[s])
              /\ \A i \in 1..Len(output[s]) : output[s][i] = i
              /\ \A i \in 1..Len(stored[s]) : stored[s][i] = i
          BY <2>0 DEF Order
        <4> QED
          BY <4>1, <4>2
      <3>2. SubSeq(stored[s], 1, Len(stored[s])) = SubSeq(output[s], 1, Len(stored[s]))
        BY <3>1
      <3> QED
        BY <3>1, <3>2 DEF IsPrefix
    <2>2. ASSUME verdict \in Verdicts \ {"error"}, NEW s \in Streams
          PROVE  output[s] = [i \in 1..written[s] |-> i] /\ stored[s] = output[s]
      <3>1. channel = <<>> /\ stored = output /\ pipe[s] = <<>>
        BY <2>0, <2>2 DEF Ends
      <3>2. Taken(s) = written[s] /\ written[s] \in Nat /\ written[s] <= MaxChunks
        BY <2>0, <3>1, Lengths DEF Taken
      <3>3. Len(output[s]) = written[s]
        <4>1. ~(Len(output[s]) < written[s])
          <5> SUFFICES ASSUME Len(output[s]) < written[s] PROVE FALSE
            OBVIOUS
          <5>1. written[s] \in Chunks
            BY <2>0, <3>2, Lengths
          <5>2. \E j \in 1..Len(channel) : channel[j].stream = s /\ channel[j].chunk = written[s]
            BY <2>0, <3>2, <5>1 DEF Transit
          <5> QED
            BY <3>1, <5>2
        <4> QED
          BY <2>0, <3>2, <4>1, Lengths DEF Order
      <3>4. output[s] \in Seq(Chunks) /\ \A i \in 1..Len(output[s]) : output[s][i] = i
        <4>1. output[s] \in Seq(Chunks)
          BY <2>0, Lengths
        <4> QED
          BY <2>0, <4>1 DEF Order
      <3> QED
        BY <3>1, <3>3, <3>4
    <2> QED
      BY <2>1, <2>2 DEF OutputIsComplete
  <1> QED
    BY <1>1, Invariant, PTL

\* After a timeout or a cancellation neither the command nor a helper in its
\* group runs, and a run that is reported as completed was not killed.
THEOREM GroupGone == Spec => []KilledGroupIsGone
  <1>1. IInv => KilledGroupIsGone
    BY DEF IInv, Killed, KilledGroupIsGone
  <1> QED
    BY <1>1, Invariant, PTL
=============================================================================

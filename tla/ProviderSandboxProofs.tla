------------------------- MODULE ProviderSandboxProofs -------------------------
(***************************************************************************)
(* Theorems about ProviderSandbox for every set of runs, every sequence of *)
(* profiles and every bound: a profile that is used was published, a run   *)
(* fails for a reason, an old profile is used only when a refresh has      *)
(* failed, and what a run may write it may remove.                         *)
(***************************************************************************)
EXTENDS ProviderSandbox, TLAPS, SequenceTheorems

USE DEF envVars, cacheVars, historyVars

-----------------------------------------------------------------------------
(* The inductive invariant                                                 *)

Writing == {"cutPolicy", "putPolicy", "cutMeta", "putMeta"}
Using == {"readPolicy", "readMeta", "pull"} \cup Writing

\* What was written to a file, or read from one, that is there.
Known == {Torn} \cup {Whole(v) : v \in 1..registry}

\* A run has something to write or to plan for, and it was published; the
\* policy is there whenever the metadata are.
HoldsKnown(r) ==
  /\ {run[r].cached, run[r].text} \subseteq Known \cup {Absent}
  /\ run[r].at \in {"readPolicy", "putPolicy", "cutMeta", "putMeta"} => policy # Absent
  /\ run[r].at = "readMeta" => run[r].cached # Absent
  /\ run[r].at \in Writing => run[r].text # Absent
  /\ run[r].mode = "profile" /\ run[r].at \in {"plan", "apply"} => run[r].text # Absent
  /\ Planned(r) => run[r].text # Torn
Sound ==
  /\ policy \in Known \cup {Absent}
  /\ metadata # Absent => policy # Absent
  /\ \A r \in Runs : HoldsKnown(r)

\* Without a race one run uses the cache; it pulls with nothing to fall back on
\* only when a file is missing, and reads no file that is being written.
Solo == ~raced => \A r, s \in Runs : run[r].at \in Using /\ run[s].at \in Using => r = s
Missing ==
  ~raced => \A r \in Runs :
    run[r].at = "pull" /\ run[r].cached = Absent => Absent \in {policy, metadata}
Readable ==
  ~raced /\ ~torn =>
    /\ policy = Torn => \E s \in Runs : run[s].at = "putPolicy"
    /\ metadata = Torn => \E s \in Runs : run[s].at = "putMeta"
    /\ \A r \in Runs : Torn \notin {run[r].cached, run[r].text}
Trying == \A r \in Runs : run[r].at \in Using \cup {"plan"} => run[r].failed = "no"

\* A profile of version v that was checked at c: the next version came later, or a
\* refresh has failed since.  What a run that began at b may use of it.
Checked(v, c) == v < registry => published[v + 1] >= c \/ failedAt > c
Excused(v, b) ==
  v < registry /\ published[v + 1] + Interval <= b => failedAt + Interval > b + 1

IsWhole(file) == file.state = "whole"
Aged(b) == IsWhole(metadata) => metadata.value + Interval <= b
CacheFor(b) == IsWhole(policy) /\ IsWhole(metadata) => Checked(policy.value, metadata.value) \/ Aged(b)

\* A run that has read the date, or found none, has the cache to itself until it
\* has written a new one.
AgingAt(r) ==
  /\ run[r].at \in {"readPolicy", "readMeta"} => metadata # Absent /\ CacheFor(run[r].began)
  /\ run[r].at = "readMeta" => run[r].cached = policy
  /\ run[r].at \in {"pull", "cutPolicy", "putPolicy", "cutMeta"} => Aged(run[r].began)
  /\ run[r].at \in Writing /\ IsWhole(run[r].text) => Checked(run[r].text.value, run[r].began)
  /\ run[r].at = "putPolicy" => policy = Torn
  /\ run[r].at \in {"cutMeta", "putMeta"} => policy = run[r].text
  /\ run[r].at = "putMeta" => metadata = Torn
  /\ run[r].mode = "profile" /\ run[r].at \in {"plan", "apply"} /\ IsWhole(run[r].text) =>
       Excused(run[r].text.value, run[r].began)
Clock ==
  /\ IsWhole(metadata) => metadata.value <= now
  /\ \A r \in Runs : run[r].began <= now
Aging == ~raced => CacheFor(now) /\ \A r \in Runs : AgingAt(r)

IInv == TypeOK /\ Sound /\ Solo /\ Missing /\ Readable /\ Trying /\ Clock /\ Aging

-----------------------------------------------------------------------------
(* Types                                                                   *)

\* The constants and the files are of their types.
LEMMA Constants ==
  /\ Interval \in Nat \ {0} /\ MaxTime \in Nat /\ MaxFaults \in Nat /\ N \in Nat \ {0}
  /\ \A v \in Versions : v \in Nat /\ Profiles[v].allow \subseteq Paths /\ Profiles[v].read \subseteq Paths
  <1>1. Len(Profiles) \in Nat /\ Len(Profiles) # 0
    BY ProfilesOK, EmptySeq, LenProperties
  <1>2. \A v \in 1..Len(Profiles) : Profiles[v].allow \subseteq Paths /\ Profiles[v].read \subseteq Paths
    <2> SUFFICES ASSUME NEW v \in 1..Len(Profiles)
                 PROVE  Profiles[v].allow \subseteq Paths /\ Profiles[v].read \subseteq Paths
      OBVIOUS
    <2>1. Profiles[v] \in Profile
      BY ProfilesOK, ElementOfSeq
    <2> QED
      BY <2>1 DEF Profile
  <1> QED
    BY <1>1, <1>2, BoundsOK DEF N, Versions

\* The three states of a file differ.
LEMMA States ==
  /\ Absent # Torn /\ ~IsWhole(Absent) /\ ~IsWhole(Torn)
  /\ \A v : Whole(v) # Absent /\ Whole(v) # Torn /\ IsWhole(Whole(v)) /\ Whole(v).value = v
  BY DEF Absent, Torn, Whole, IsWhole

\* What is accepted of the registry is its latest version.
LEMMA AcceptedIsLatest ==
    ASSUME registry \in Versions, NEW reply \in Replies, Accepts(reply)
    PROVE  reply.text = registry
  <1>1. reply.digest \in reply.signed /\ reply.text = reply.digest
    BY DEF Accepts
  <1>2. \/ reply.digest = registry /\ reply.text \in {registry, Other}
                                   /\ reply.signed \in {{}, {registry}, {Other}}
        \/ reply.digest = Other /\ reply.text = Other /\ reply.signed = {registry}
    <2>1. CASE reply \in {Served, [Served EXCEPT !.answered = FALSE],
                          [Served EXCEPT !.package = "other"], [Served EXCEPT !.scanPassed = FALSE]}
      BY <2>1 DEF Served
    <2>2. CASE reply \in {[Served EXCEPT !.filenames = "duplicate"],
                          [Served EXCEPT !.filenames = "outside"],
                          [Served EXCEPT !.policyFile = FALSE], [Served EXCEPT !.signed = {}]}
      BY <2>2 DEF Served
    <2>3. CASE reply = [Served EXCEPT !.signed = {Other}]
      BY <2>3 DEF Served
    <2>4. CASE reply = [Served EXCEPT !.text = Other]
      BY <2>4 DEF Served
    <2>5. CASE reply = [Served EXCEPT !.digest = Other, !.text = Other]
      BY <2>5 DEF Served
    <2> QED
      BY <2>1, <2>2, <2>3, <2>4, <2>5 DEF Replies
  <1> QED
    BY <1>1, <1>2

\* The profile of a version, and none, give paths of their types.
LEMMA ProfileTyped ==
    ASSUME NEW p, p.allow \subseteq Paths, p.read \subseteq Paths
    PROVE  ProfileSpec(p) \in [read : SUBSET Paths, readWrite : SUBSET Paths, deny : BOOLEAN]
  <1> DEFINE known == {g \in BuiltinGroups : g.name \in p.include /\ g.here}
  <1>1. \A g \in known : g.read \subseteq Paths /\ g.readWrite \subseteq Paths
    BY DEF BuiltinGroups, Paths, Dirs
  <1>2. "repo" \in Paths
    BY DEF Paths, Dirs
  <1>3. \A ps : Existing(ps) \subseteq ps
    BY DEF Existing
  <1>4. (UNION {g.read : g \in known}) \cup p.read \subseteq Paths
    BY <1>1
  <1>5. (UNION {g.readWrite : g \in known}) \cup p.allow \subseteq Paths
    BY <1>1
  <1>6. (\E g \in known : g.deny) \in BOOLEAN
    OBVIOUS
  <1> QED
    BY <1>2, <1>3, <1>4, <1>5, <1>6 DEF ProfileSpec

\* What is planned is of its type.
LEMMA SpecTyped ==
    ASSUME NEW p \in [read : SUBSET Paths, readWrite : SUBSET Paths, deny : BOOLEAN]
    PROVE  SandboxSpec(p) \in Specs
  <1> DEFINE rw == BaseReadWrite \cup p.readWrite
             ones == {Rule("readWrite", "literal", q) : q \in Literals}
             twos == IF p.deny THEN {DenyUnlink} ELSE {}
             threes == IF p.deny THEN UnlinkOverrides(rw) ELSE {}
             fours == UnlinkOverrides(Literals)
  <1>1. rw \subseteq Paths /\ Literals \subseteq Paths
    BY DEF BaseReadWrite, Paths, Dirs, Literals
  <1>2. ones \in SUBSET Rules /\ twos \in SUBSET Rules
    BY <1>1 DEF Rules, Rule
  <1>3. \A ps \in SUBSET Paths : UnlinkOverrides(ps) \in SUBSET Rules
    BY DEF UnlinkOverrides, Rules, Rule
  <1>4. threes \in SUBSET Rules /\ fours \in SUBSET Rules
    BY <1>1, <1>3
  <1>5. <<ones, twos, threes, fours>> \in Seq(SUBSET Rules)
    <2> HIDE DEF ones, twos, threes, fours
    <2> QED
      BY <1>2, <1>4
  <1>6. {"repo", "command", "system"} \cup p.read \subseteq Paths
    BY DEF Paths, Dirs
  <1>7. SandboxSpec(p) =
          [read |-> {"repo", "command", "system"} \cup p.read, readWrite |-> rw,
           rules |-> <<ones, twos, threes, fours>>, dirs |-> Dirs \cap (Static \cup present)]
    BY DEF SandboxSpec
  <1> HIDE DEF rw, ones, twos, threes, fours
  <1> QED
    BY <1>1, <1>5, <1>6, <1>7 DEF Specs

\* What was planned without a sandbox, and with what has gone since.
LEMMA SpecsKept ==
  /\ NoSpec \in Specs /\ NoProfile \in [read : SUBSET Paths, readWrite : SUBSET Paths, deny : BOOLEAN]
  /\ \A s \in Specs : [s EXCEPT !.read = Existing(@), !.readWrite = Existing(@)] \in Specs
  <1>1. \A ps \in SUBSET Paths : Existing(ps) \in SUBSET Paths
    BY DEF Existing
  <1>2. <<>> \in Seq(SUBSET Rules)
    OBVIOUS
  <1> QED
    BY <1>1, <1>2 DEF NoSpec, NoProfile, Specs

\* A run that has ended keeps its type.
LEMMA IdleTyped == \A why \in {"no", "unreadable", "registry"} : Idle(why) \in Run
  <1>1. Absent \in File(Versions) /\ 0 \in 0..MaxTime
    BY Constants DEF File
  <1> QED
    BY <1>1, SpecsKept DEF Idle, Run

\* What the files may become is of their type.
LEMMA FileTyped ==
  /\ \A S : Absent \in File(S) /\ Torn \in File(S)
  /\ \A S : \A v \in S : Whole(v) \in File(S)
  /\ \A S : \A x \in File(S) : x = Absent \/ x = Torn \/ \E v \in S : x = Whole(v)
  BY DEF File

\* The types hold at first.
LEMMA InitTypes == Init => TypeOK
  <1> SUFFICES ASSUME Init PROVE TypeOK
    OBVIOUS
  <1>1. run \in [Runs -> Run]
    BY IdleTyped DEF Init
  <1>2. 1 \in Versions /\ 0 \in 0..MaxTime
    BY Constants DEF Versions
  <1>3. Absent \in File(Versions) /\ Absent \in File(0..MaxTime)
    BY FileTyped
  <1>4. published \in [Versions -> 0..MaxTime]
    BY <1>2 DEF Init
  <1>5. 0 \in 0..MaxFaults /\ 0 \in 0..(0 + 1)
    BY Constants
  <1> QED
    BY <1>1, <1>2, <1>3, <1>4, <1>5 DEF Init, TypeOK

\* A run that is given up, goes on, or stores a file keeps its type.
LEMMA RunTyped ==
    ASSUME TypeOK, NEW r \in Runs
    PROVE  /\ \A why \in {"no", "unreadable", "registry"} : Fails(r, why) => run' \in [Runs -> Run]
           /\ \A at \in Using \cup {"plan", "apply", "running"} : Goes(r, at) => run' \in [Runs -> Run]
           /\ \A file, kept \in File(Versions) : Store(r, file, kept) => run' \in [Runs -> Run]
  <1>1. run[r] \in Run /\ run \in [Runs -> Run]
    BY DEF TypeOK
  <1>2. \A x \in Run : [run EXCEPT ![r] = x] \in [Runs -> Run]
    BY <1>1
  <1>3. ASSUME NEW why \in {"no", "unreadable", "registry"}, Fails(r, why)
        PROVE  run' \in [Runs -> Run]
    BY <1>2, <1>3, IdleTyped DEF Fails
  <1>4. ASSUME NEW at \in Using \cup {"plan", "apply", "running"}, Goes(r, at)
        PROVE  run' \in [Runs -> Run]
    <2>1. [run[r] EXCEPT !.at = at] \in Run
      BY <1>1 DEF Run, Using, Writing
    <2>2. run' = [run EXCEPT ![r] = [run[r] EXCEPT !.at = at]]
      BY <1>1, <1>4 DEF Goes
    <2> QED
      BY <1>2, <2>1, <2>2
  <1>5. ASSUME NEW file \in File(Versions), NEW kept \in File(Versions), Store(r, file, kept)
        PROVE  run' \in [Runs -> Run]
    <2>1. [run[r] EXCEPT !.at = "cutPolicy", !.text = file, !.cached = kept] \in Run
      BY <1>1 DEF Run
    <2>2. run' = [run EXCEPT ![r] = [run[r] EXCEPT !.at = "cutPolicy", !.text = file, !.cached = kept]]
      BY <1>1, <1>5 DEF Store
    <2> QED
      BY <1>2, <2>1, <2>2
  <1> QED
    BY <1>3, <1>4, <1>5

\* Every step of a run keeps the types.
LEMMA RunStepTypes ==
    ASSUME TypeOK, Sound, NEW r \in Runs, RunStep(r)
    PROVE  TypeOK'
  <1> USE RunTyped, FileTyped, Constants
  <1>1. now' = now /\ registry' = registry /\ published' = published
    BY DEF RunStep, StartRun, ReadPolicy, ReadMetadata, Pull, WritePolicy, WriteMetadata,
           WriteFails, PlanSandbox, Apply, ProviderEnds, Crash
  <1>2. /\ run[r] \in Run /\ now \in 0..MaxTime /\ run[r].text \in File(Versions)
        /\ run[r].cached \in File(Versions) /\ run[r].began \in 0..MaxTime
    BY DEF TypeOK, Run
  <1>3. CASE StartRun(r)
    <2>1. PICK mode \in {"profile", "base", "off"},
               at \in {"running", "plan", "pull", "readPolicy"} :
            run' = [run EXCEPT ![r] =
                      [Idle("no") EXCEPT !.mode = mode, !.began = now, !.at = at]]
      BY <1>3, Zenon DEF StartRun
    <2>2. Idle("no") \in Run
      BY IdleTyped
    <2>3. [Idle("no") EXCEPT !.mode = mode, !.began = now, !.at = at] \in Run
      BY <1>2, <2>2 DEF Run
    <2>4. run' \in [Runs -> Run]
      BY <2>1, <2>3 DEF TypeOK
    <2> QED
      BY <1>1, <1>3, <2>4 DEF StartRun, TypeOK
  <1>4. CASE ReadPolicy(r)
    <2>1. run' \in [Runs -> Run]
      <3>1. [run[r] EXCEPT !.at = "readMeta", !.cached = policy] \in Run
        BY <1>2 DEF TypeOK, Run
      <3> QED
        BY <1>4, <3>1 DEF ReadPolicy, TypeOK
    <2> QED
      BY <1>1, <1>4, <2>1 DEF ReadPolicy, TypeOK
  <1>5. CASE ReadMetadata(r)
    <2>1. run' \in [Runs -> Run]
      <3>1. CASE Fails(r, "unreadable") \/ Goes(r, "pull")
        BY <3>1 DEF Using
      <3>2. CASE run' = [run EXCEPT ![r].at = "plan", ![r].text = run[r].cached, ![r].cached = Absent]
        BY <1>2, <3>2 DEF TypeOK, Run
      <3> QED
        BY <1>5, <3>1, <3>2 DEF ReadMetadata
    <2> QED
      BY <1>1, <1>5, <2>1 DEF ReadMetadata, TypeOK
  <1>6. CASE Pull(r)
    <2>1. PICK reply \in Replies :
            \/ Accepts(reply) /\ Store(r, Whole(reply.text), run[r].cached) /\ failedAt' = failedAt
            \/ failedAt' = now + 1 /\ (Fails(r, "registry") \/ Store(r, run[r].cached, Absent))
      BY <1>6 DEF Pull, RefreshFails
    <2>2. Accepts(reply) => Whole(reply.text) \in File(Versions)
      BY AcceptedIsLatest DEF TypeOK
    <2>3. run' \in [Runs -> Run]
      BY <1>2, <2>1, <2>2
    <2>4. failedAt' \in 0..(now + 1)
      BY <1>2, <2>1 DEF TypeOK
    <2> QED
      BY <1>1, <1>6, <2>3, <2>4 DEF Pull, TypeOK
  <1>7. CASE WritePolicy(r)
    <2>1. run' \in [Runs -> Run]
      BY <1>7 DEF WritePolicy, Using, Writing
    <2>2. policy' \in File(Versions)
      BY <1>2, <1>7 DEF WritePolicy, Filled
    <2> QED
      BY <1>1, <1>7, <2>1, <2>2 DEF WritePolicy, TypeOK
  <1>8. CASE WriteMetadata(r)
    <2>1. run' \in [Runs -> Run]
      <3>1. CASE Goes(r, "putMeta")
        BY <3>1 DEF Using, Writing
      <3>2. CASE run' = [run EXCEPT ![r].at = "plan", ![r].cached = Absent]
        BY <1>2, <3>2 DEF TypeOK, Run
      <3> QED
        BY <1>8, <3>1, <3>2 DEF WriteMetadata
    <2>2. metadata' \in File(0..MaxTime)
      BY <1>2, <1>8 DEF WriteMetadata
    <2> QED
      BY <1>1, <1>8, <2>1, <2>2 DEF WriteMetadata, TypeOK
  <1>9. CASE WriteFails(r)
    <2>1. run' \in [Runs -> Run] /\ failedAt' \in 0..(now + 1)
      BY <1>2, <1>9 DEF WriteFails, RefreshFails, TypeOK
    <2>2. faults' \in 0..MaxFaults /\ torn' \in BOOLEAN
      BY <1>9 DEF WriteFails, Fault, CutsOff, TypeOK
    <2> QED
      BY <1>1, <1>9, <2>1, <2>2 DEF WriteFails, TypeOK
  <1>10. CASE PlanSandbox(r)
    <2>1. run' \in [Runs -> Run]
      <3>1. CASE Fails(r, "unreadable")
        BY <3>1
      <3>2. CASE ~Fails(r, "unreadable")
        <4> DEFINE p == IF run[r].mode = "profile" THEN ProfileSpec(Profiles[run[r].text.value])
                                                  ELSE NoProfile
        <4>1. run' = [run EXCEPT ![r].at = "apply", ![r].spec = SandboxSpec(p)]
          BY <1>10, <3>2 DEF PlanSandbox
        <4>2. SandboxSpec(p) \in Specs
          <5>1. CASE run[r].mode = "profile"
            <6>1. run[r].text # Torn /\ run[r].text # Absent
              BY <1>10, <3>2, <5>1 DEF PlanSandbox, Sound, HoldsKnown, Torn
            <6>2. PICK v \in Versions : run[r].text = Whole(v)
              BY <1>2, <6>1
            <6>3. p = ProfileSpec(Profiles[v])
              BY <5>1, <6>2, States
            <6> QED
              BY <6>3, ProfileTyped, SpecTyped
          <5>2. CASE run[r].mode # "profile"
            BY <5>2, SpecsKept, SpecTyped
          <5> QED
            BY <5>1, <5>2
        <4> HIDE DEF p
        <4> QED
          BY <1>2, <4>1, <4>2 DEF TypeOK, Run
      <3> QED
        BY <3>1, <3>2
    <2> QED
      BY <1>1, <1>10, <2>1 DEF PlanSandbox, TypeOK
  <1>11. CASE Apply(r)
    <2>1. [run[r].spec EXCEPT !.read = Existing(@), !.readWrite = Existing(@)] \in Specs
      BY <1>2, SpecsKept DEF Run
    <2>2. [Idle("no") EXCEPT !.at = "running",
            !.spec = [run[r].spec EXCEPT !.read = Existing(@), !.readWrite = Existing(@)]] \in Run
      BY <2>1, IdleTyped DEF Run
    <2>3. run' \in [Runs -> Run]
      <3>1. CASE Fails(r, "no")
        BY <3>1
      <3> QED
        BY <1>11, <2>2, <3>1 DEF Apply, TypeOK
    <2> QED
      BY <1>1, <1>11, <2>3 DEF Apply, TypeOK
  <1>12. CASE ProviderEnds(r)
    <2>1. run' \in [Runs -> Run] /\ present' \subseteq Dirs
      BY <1>12 DEF ProviderEnds, TypeOK, Dirs
    <2> QED
      BY <1>1, <1>12, <2>1 DEF ProviderEnds, TypeOK
  <1>13. CASE Crash(r)
    <2>1. run' \in [Runs -> Run] /\ faults' \in 0..MaxFaults /\ torn' \in BOOLEAN
      BY <1>13 DEF Crash, Fault, CutsOff, TypeOK
    <2> QED
      BY <1>1, <1>13, <2>1 DEF Crash, TypeOK
  <1> QED
    BY <1>3, <1>4, <1>5, <1>6, <1>7, <1>8, <1>9, <1>10, <1>11, <1>12, <1>13 DEF RunStep

-----------------------------------------------------------------------------
(* What a step does to its run                                             *)

Moved(r, at, cached, text) ==
  /\ run'[r].at = at /\ run'[r].cached = cached /\ run'[r].text = text
  /\ run'[r].mode = run[r].mode /\ run'[r].began = run[r].began /\ run'[r].failed = run[r].failed
Ended(r, why) ==
  /\ run'[r].at = "idle" /\ run'[r].cached = Absent /\ run'[r].text = Absent
  /\ run'[r].mode = "none" /\ run'[r].began = 0 /\ run'[r].failed = why

\* The others keep where they are and what they hold.
LEMMA OthersWait ==
    ASSUME TypeOK, NEW r \in Runs, RunStep(r)
    PROVE  \A s \in Runs \ {r} : run'[s] = run[s]
  BY DEF TypeOK, RunStep, StartRun, ReadPolicy, ReadMetadata, Pull, WritePolicy, WriteMetadata,
         WriteFails, PlanSandbox, Apply, ProviderEnds, Crash, Fails, Goes, Store

\* A run that is given up, goes on, or stores a file.
LEMMA Outcomes ==
    ASSUME TypeOK, NEW r \in Runs
    PROVE  /\ \A why : Fails(r, why) => Ended(r, why)
           /\ \A at : Goes(r, at) => Moved(r, at, run[r].cached, run[r].text)
           /\ \A file, kept : Store(r, file, kept) => Moved(r, "cutPolicy", kept, file)
  <1>1. \A x : run' = [run EXCEPT ![r] = x] => run'[r] = x
    BY DEF TypeOK
  <1>2. run[r] \in Run
    BY DEF TypeOK
  <1>3. ASSUME NEW why, Fails(r, why) PROVE Ended(r, why)
    <2>1. run'[r] = Idle(why)
      BY <1>1, <1>3 DEF Fails
    <2> QED
      BY <2>1 DEF Idle, Ended
  <1>4. ASSUME NEW at, Goes(r, at) PROVE Moved(r, at, run[r].cached, run[r].text)
    <2>1. run'[r] = [run[r] EXCEPT !.at = at]
      BY <1>4 DEF Goes, TypeOK
    <2> QED
      BY <1>2, <2>1 DEF Moved, Run
  <1>5. ASSUME NEW file, NEW kept, Store(r, file, kept) PROVE Moved(r, "cutPolicy", kept, file)
    <2>1. run'[r] = [run[r] EXCEPT !.at = "cutPolicy", !.text = file, !.cached = kept]
      BY <1>2, <1>5 DEF Store, TypeOK
    <2> QED
      BY <1>2, <2>1 DEF Moved, Run
  <1> QED
    BY <1>3, <1>4, <1>5

\* A new run begins with nothing in hand.
LEMMA StartEffect ==
    ASSUME TypeOK, NEW r \in Runs, StartRun(r)
    PROVE  /\ run[r].at = "idle" /\ run'[r].cached = Absent /\ run'[r].text = Absent
           /\ run'[r].began = now /\ run'[r].failed = "no"
           /\ run'[r].at \in {"running", "plan", "pull", "readPolicy"}
           /\ run'[r].at = "plan" => run'[r].mode = "base"
           /\ run'[r].at = "pull" => Absent \in {policy, metadata}
           /\ run'[r].at = "readPolicy" => Absent \notin {policy, metadata}
  <1>1. PICK mode \in {"profile", "base", "off"} :
          run'[r] = [Idle("no") EXCEPT !.mode = mode, !.began = now,
            !.at = CASE mode = "off" -> "running"
                     [] mode = "base" -> "plan"
                     [] mode = "profile" /\ Absent \in {policy, metadata} -> "pull"
                     [] OTHER -> "readPolicy"]
    BY DEF StartRun, TypeOK
  <1> QED
    BY <1>1 DEF StartRun, Idle

\* What each other step does.
LEMMA ReadEffects ==
    ASSUME TypeOK, NEW r \in Runs
    PROVE  /\ ReadPolicy(r) =>
                run[r].at = "readPolicy" /\ Moved(r, "readMeta", policy, run[r].text)
           /\ ReadMetadata(r) =>
                /\ run[r].at = "readMeta"
                /\ \/ metadata.state = "torn" /\ Ended(r, "unreadable")
                   \/ /\ metadata.state # "torn" /\ IsStale(metadata.value, run[r].began)
                      /\ Moved(r, "pull", run[r].cached, run[r].text)
                   \/ /\ metadata.state # "torn" /\ ~IsStale(metadata.value, run[r].began)
                      /\ Moved(r, "plan", Absent, run[r].cached)
  <1>1. run[r] \in Run /\ run \in [Runs -> Run]
    BY DEF TypeOK
  <1>2. ASSUME ReadPolicy(r) PROVE Moved(r, "readMeta", policy, run[r].text)
    <2>1. run'[r] = [run[r] EXCEPT !.at = "readMeta", !.cached = policy]
      BY <1>1, <1>2 DEF ReadPolicy
    <2> QED
      BY <1>1, <2>1 DEF Moved, Run
  <1>3. ASSUME run' = [run EXCEPT ![r].at = "plan", ![r].text = run[r].cached, ![r].cached = Absent]
        PROVE  Moved(r, "plan", Absent, run[r].cached)
    <2>1. run'[r] = [run[r] EXCEPT !.at = "plan", !.text = run[r].cached, !.cached = Absent]
      BY <1>1, <1>3
    <2> QED
      BY <1>1, <2>1 DEF Moved, Run
  <1> QED
    BY <1>2, <1>3, Outcomes DEF ReadPolicy, ReadMetadata

\* A refresh gets the latest version, falls back on what was read, or fails.
LEMMA PullEffect ==
    ASSUME TypeOK, NEW r \in Runs, Pull(r)
    PROVE  /\ run[r].at = "pull"
           /\ \/ /\ failedAt' = failedAt
                 /\ Moved(r, "cutPolicy", run[r].cached, Whole(registry))
              \/ failedAt' = now + 1 /\ run[r].cached = Absent /\ Ended(r, "registry")
              \/ /\ failedAt' = now + 1 /\ run[r].cached # Absent
                 /\ Moved(r, "cutPolicy", Absent, run[r].cached)
  <1>1. PICK reply \in Replies :
          \/ Accepts(reply) /\ Store(r, Whole(reply.text), run[r].cached) /\ failedAt' = failedAt
          \/ failedAt' = now + 1 /\ run[r].cached = Absent /\ Fails(r, "registry")
          \/ failedAt' = now + 1 /\ run[r].cached # Absent /\ Store(r, run[r].cached, Absent)
    BY DEF Pull, RefreshFails
  <1>2. Accepts(reply) => reply.text = registry
    BY AcceptedIsLatest DEF TypeOK
  <1> QED
    BY <1>1, <1>2, Outcomes DEF Pull

\* The four writes, and what becomes of one that fails.
LEMMA WriteEffects ==
    ASSUME TypeOK, NEW r \in Runs
    PROVE  /\ WritePolicy(r) =>
                \/ /\ run[r].at = "cutPolicy" /\ policy' = Torn
                   /\ Moved(r, "putPolicy", run[r].cached, run[r].text)
                \/ /\ run[r].at = "putPolicy" /\ policy' \in {Torn, run[r].text}
                   /\ policy = Torn => policy' = run[r].text
                   /\ Moved(r, "cutMeta", run[r].cached, run[r].text)
           /\ WriteMetadata(r) =>
                \/ /\ run[r].at = "cutMeta" /\ metadata' = Torn
                   /\ Moved(r, "putMeta", run[r].cached, run[r].text)
                \/ /\ run[r].at = "putMeta" /\ metadata' = Whole(run[r].began)
                   /\ Moved(r, "plan", Absent, run[r].text)
           /\ WriteFails(r) =>
                /\ run[r].at \in Writing
                /\ \/ failedAt' = failedAt /\ run[r].cached = Absent /\ Ended(r, "no")
                   \/ /\ failedAt' = now + 1 /\ run[r].cached # Absent
                      /\ Moved(r, "cutPolicy", Absent, run[r].cached)
  <1>1. run[r] \in Run /\ run \in [Runs -> Run]
    BY DEF TypeOK
  <1>2. ASSUME run' = [run EXCEPT ![r].at = "plan", ![r].cached = Absent]
        PROVE  Moved(r, "plan", Absent, run[r].text)
    <2>1. run'[r] = [run[r] EXCEPT !.at = "plan", !.cached = Absent]
      BY <1>1, <1>2
    <2> QED
      BY <1>1, <2>1 DEF Moved, Run
  <1>3. ASSUME WritePolicy(r), run[r].at = "putPolicy"
        PROVE  policy' \in {Torn, run[r].text} /\ (policy = Torn => policy' = run[r].text)
    BY <1>3 DEF WritePolicy, Filled, Torn
  <1> QED
    BY <1>2, <1>3, Outcomes DEF WritePolicy, WriteMetadata, WriteFails, RefreshFails, Writing

\* The end of the preparation, of the provider, and of a killed run.
LEMMA EndEffects ==
    ASSUME TypeOK, NEW r \in Runs
    PROVE  /\ PlanSandbox(r) =>
                /\ run[r].at = "plan"
                /\ \/ run[r].text = Torn /\ Ended(r, "unreadable")
                   \/ run[r].text # Torn /\ Moved(r, "apply", run[r].cached, run[r].text)
           /\ Apply(r) =>
                /\ run[r].at = "apply"
                /\ run'[r].at \in {"idle", "running"} /\ run'[r].cached = Absent /\ run'[r].text = Absent
                /\ run'[r].began = 0 /\ run'[r].failed = "no"
           /\ ProviderEnds(r) => run[r].at = "running" /\ Ended(r, "no")
           /\ Crash(r) => run[r].at \in Using /\ Ended(r, "no")
  <1>1. run[r] \in Run /\ run \in [Runs -> Run]
    BY DEF TypeOK
  <1>2. run[r].text.state = "torn" <=> run[r].text = Torn
    BY <1>1 DEF Run, File, Absent, Torn, Whole
  <1>3. ASSUME PlanSandbox(r), run[r].text # Torn
        PROVE  Moved(r, "apply", run[r].cached, run[r].text)
    <2>1. PICK x : run' = [run EXCEPT ![r].at = "apply", ![r].spec = x]
      BY <1>2, <1>3 DEF PlanSandbox
    <2>2. run'[r] = [run[r] EXCEPT !.at = "apply", !.spec = x]
      BY <1>1, <2>1
    <2> QED
      BY <1>1, <2>2 DEF Moved, Run
  <1>4. PlanSandbox(r) /\ run[r].text = Torn => Ended(r, "unreadable")
    BY <1>2, Outcomes DEF PlanSandbox
  <1>5. ASSUME Apply(r)
        PROVE  /\ run'[r].at \in {"idle", "running"} /\ run'[r].cached = Absent
               /\ run'[r].text = Absent /\ run'[r].began = 0 /\ run'[r].failed = "no"
    <2>1. CASE Fails(r, "no")
      BY <2>1, Outcomes DEF Ended
    <2>2. CASE ~Fails(r, "no")
      <3>1. PICK x : run'[r] = [Idle("no") EXCEPT !.at = "running", !.spec = x]
        BY <1>1, <1>5, <2>2 DEF Apply
      <3> QED
        BY <3>1 DEF Idle
    <2> QED
      BY <2>1, <2>2
  <1>6. UsesCache(r) <=> run[r].at \in Using
    BY DEF UsesCache, Using, Writing
  <1> QED
    BY <1>3, <1>4, <1>5, <1>6, Outcomes DEF PlanSandbox, Apply, ProviderEnds, Crash

-----------------------------------------------------------------------------
(* A profile that is used was published                                    *)

\* Files change from what is published to what is, and the policy stays.
LEMMA FilesSound ==
    ASSUME TypeOK, Sound, NEW r \in Runs, RunStep(r)
    PROVE  /\ registry' = registry /\ policy' \in Known \cup {Absent}
           /\ policy # Absent => policy' # Absent
           /\ metadata' # Absent => policy' # Absent
           /\ run[r].at \in Writing /\ run'[r].at \in {"putPolicy", "cutMeta", "putMeta"} =>
                policy' # Absent
  <1>1. registry' = registry
    BY DEF RunStep, StartRun, ReadPolicy, ReadMetadata, Pull, WritePolicy, WriteMetadata,
           WriteFails, PlanSandbox, Apply, ProviderEnds, Crash
  <1>2. HoldsKnown(r) /\ Torn \in Known /\ Torn # Absent
    BY States DEF Sound, Known
  <1>3. CASE WritePolicy(r)
    <2>1. policy' \in {Torn, run[r].text} /\ run[r].at \in Writing
      BY <1>3, WriteEffects DEF Writing
    <2> QED
      BY <1>1, <1>2, <2>1 DEF HoldsKnown
  <1>4. CASE WriteMetadata(r)
    BY <1>1, <1>2, <1>4, WriteEffects DEF WriteMetadata, Sound, HoldsKnown
  <1>5. CASE UNCHANGED cacheVars /\ ~WritePolicy(r) /\ ~WriteMetadata(r)
    <2>1. run'[r].at \notin {"putPolicy", "cutMeta", "putMeta"} \/ run[r].at \notin Writing
      BY <1>5, StartEffect, ReadEffects, PullEffect, WriteEffects, EndEffects
         DEF Moved, Ended, RunStep, Using, Writing
    <2> QED
      BY <1>1, <1>5, <2>1 DEF Sound, Writing
  <1> QED
    BY <1>3, <1>4, <1>5 DEF RunStep, StartRun, ReadPolicy, ReadMetadata, Pull,
           WriteFails, PlanSandbox, Apply, ProviderEnds, Crash

\* A run that takes a step holds what it should.
LEMMA StepperSound ==
    ASSUME TypeOK, Sound, NEW r \in Runs, RunStep(r)
    PROVE  HoldsKnown(r)'
  <1>1. /\ HoldsKnown(r) /\ policy \in Known \cup {Absent}
        /\ Torn \in Known /\ Torn # Absent
        /\ Whole(registry) \in Known /\ Whole(registry) # Absent
    BY States DEF Sound, Known, TypeOK, Versions
  <1>2. Known' = Known
    BY FilesSound DEF Known
  <1>3. CASE StartRun(r)
    <2>1. /\ run'[r].cached = Absent /\ run'[r].text = Absent
          /\ run'[r].at \in {"running", "plan", "pull", "readPolicy"}
          /\ run'[r].at = "plan" => run'[r].mode = "base"
          /\ run'[r].at = "readPolicy" => policy' # Absent
      BY <1>3, StartEffect, FilesSound
    <2> QED
      BY <1>2, <2>1 DEF HoldsKnown, Planned, Writing
  <1>4. CASE ReadPolicy(r)
    BY <1>1, <1>2, <1>4, ReadEffects DEF Moved, HoldsKnown, Planned, Writing
  <1>5. CASE ReadMetadata(r)
    BY <1>1, <1>2, <1>5, ReadEffects DEF Moved, Ended, HoldsKnown, Planned, Writing
  <1>6. CASE Pull(r)
    BY <1>1, <1>2, <1>6, PullEffect DEF Moved, Ended, HoldsKnown, Planned, Writing
  <1>7. CASE WritePolicy(r)
    BY <1>1, <1>2, <1>7, WriteEffects, FilesSound DEF Moved, HoldsKnown, Planned, Writing
  <1>8. CASE WriteMetadata(r)
    BY <1>1, <1>2, <1>8, WriteEffects, FilesSound DEF Moved, HoldsKnown, Planned, Writing
  <1>9. CASE WriteFails(r)
    BY <1>1, <1>2, <1>9, WriteEffects DEF Moved, Ended, HoldsKnown, Planned, Writing
  <1>10. CASE PlanSandbox(r)
    BY <1>1, <1>2, <1>10, EndEffects DEF Moved, Ended, HoldsKnown, Planned, Writing
  <1>11. CASE Apply(r) \/ ProviderEnds(r) \/ Crash(r)
    <2>1. run'[r].at \in {"idle", "running"} /\ run'[r].cached = Absent /\ run'[r].text = Absent
      BY <1>11, EndEffects DEF Ended
    <2> QED
      BY <1>2, <2>1 DEF HoldsKnown, Planned, Writing
  <1> QED
    BY <1>3, <1>4, <1>5, <1>6, <1>7, <1>8, <1>9, <1>10, <1>11 DEF RunStep

\* Every step keeps what the files and the runs hold.
LEMMA StepKeepsSound ==
    ASSUME TypeOK, Sound, [Next]_vars
    PROVE  Sound'
  <1>1. ASSUME NEW r \in Runs, RunStep(r)
        PROVE  Sound'
    <2>1. Known' = Known
      BY <1>1, FilesSound DEF Known
    <2>2. \A s \in Runs \ {r} : HoldsKnown(s)'
      BY <1>1, <2>1, OthersWait, FilesSound DEF Sound, HoldsKnown, Planned
    <2> QED
      BY <1>1, <2>1, <2>2, FilesSound, StepperSound DEF Sound
  <1>2. CASE Tick \/ Publish \/ UNCHANGED vars
    <2>1. Known \subseteq Known'
      BY <1>2, Constants DEF Known, Tick, Publish, vars, TypeOK, Versions
    <2>2. policy' = policy /\ metadata' = metadata /\ run' = run
      BY <1>2 DEF Tick, Publish, vars
    <2> QED
      BY <2>1, <2>2 DEF Sound, HoldsKnown, Planned
  <1> QED
    BY <1>1, <1>2 DEF Next

-----------------------------------------------------------------------------
(* A run that fails does so for a reason                                   *)

\* A step of a run never ends a race, and starts one when another uses the cache.
LEMMA RacedStays ==
    ASSUME TypeOK, NEW r \in Runs, RunStep(r)
    PROVE  /\ raced => raced'
           /\ torn => torn'
           /\ ~raced' /\ StartRun(r) => \A s \in Runs \ {r} : run[s].at \notin Using
           /\ run'[r].at \in Using => run[r].at \in Using \/ StartRun(r)
           /\ run[r].at \in {"putPolicy", "putMeta"} /\ (WriteFails(r) \/ Crash(r)) => torn'
  <1>1. \A s : UsesCache(s) <=> run[s].at \in Using
    BY DEF UsesCache, Using, Writing
  <1>2. /\ raced => raced'
        /\ ~raced' /\ StartRun(r) => \A s \in Runs \ {r} : run[s].at \notin Using
    <2>1. CASE StartRun(r)
      <3>1. raced' <=> raced \/ \E s \in Runs \ {r} : run[s].at \in Using
        BY <1>1, <2>1, Zenon DEF StartRun
      <3> QED
        BY <3>1
    <2>2. CASE ~StartRun(r)
      <3>1. raced' = raced
        BY <2>2 DEF RunStep, ReadPolicy, ReadMetadata, Pull, WritePolicy, WriteMetadata,
           WriteFails, PlanSandbox, Apply, ProviderEnds, Crash
      <3> QED
        BY <2>2, <3>1
    <2> QED
      BY <2>1, <2>2
  <1>3. /\ torn => torn'
        /\ run[r].at \in {"putPolicy", "putMeta"} /\ (WriteFails(r) \/ Crash(r)) => torn'
    <2>1. CASE WriteFails(r) \/ Crash(r)
      <3>1. torn' <=> torn \/ run[r].at \in {"putPolicy", "putMeta"}
        BY <2>1, Zenon DEF WriteFails, Crash, CutsOff
      <3> QED
        BY <3>1
    <2>2. CASE ~WriteFails(r) /\ ~Crash(r)
      <3>1. torn' = torn
        BY <2>2 DEF RunStep, StartRun, ReadPolicy, ReadMetadata, Pull, WritePolicy, WriteMetadata,
           PlanSandbox, Apply, ProviderEnds
      <3> QED
        BY <2>2, <3>1
    <2> QED
      BY <2>1, <2>2
  <1>4. run'[r].at \in Using => run[r].at \in Using \/ StartRun(r)
    BY ReadEffects, PullEffect, WriteEffects, EndEffects DEF Moved, Ended, RunStep, Using, Writing
  <1> QED
    BY <1>2, <1>3, <1>4

\* One run at a time uses the cache while there is no race.
LEMMA StepKeepsSolo ==
    ASSUME TypeOK, Solo, NEW r \in Runs, RunStep(r)
    PROVE  Solo'
  <1> SUFFICES ASSUME ~raced', NEW s \in Runs, run'[r].at \in Using, run'[s].at \in Using, r # s
               PROVE  FALSE
    BY OthersWait, RacedStays DEF Solo
  <1>1. run'[s] = run[s]
    BY OthersWait
  <1> QED
    BY <1>1, RacedStays DEF Solo

\* Files change only under a run that writes them.
LEMMA OnlyWritersWrite ==
    ASSUME NEW r \in Runs, RunStep(r)
    PROVE  /\ policy' = policy \/ WritePolicy(r)
           /\ metadata' = metadata \/ WriteMetadata(r)
  BY DEF RunStep, StartRun, ReadPolicy, ReadMetadata, Pull, WritePolicy, WriteMetadata,
         WriteFails, PlanSandbox, Apply, ProviderEnds, Crash

\* Who pulls with nothing in hand has found a file missing.
LEMMA StepKeepsMissing ==
    ASSUME TypeOK, Sound, Solo, Missing, NEW r \in Runs, RunStep(r)
    PROVE  Missing'
  <1> SUFFICES ASSUME ~raced', NEW s \in Runs, run'[s].at = "pull", run'[s].cached = Absent
               PROVE  Absent \in {policy', metadata'}
    BY DEF Missing
  <1>1. ~raced
    BY RacedStays
  <1>2. CASE s = r
    <2>1. run[r].at = "readMeta" => run[r].cached # Absent
      BY DEF Sound, HoldsKnown
    <2>2. StartRun(r)
      BY <1>2, <2>1, ReadEffects, PullEffect, WriteEffects, EndEffects
         DEF Moved, Ended, RunStep, Writing
    <2> QED
      BY <1>2, <2>2, StartEffect DEF StartRun
  <1>3. CASE s # r
    <2>1. run'[s] = run[s] /\ Absent \in {policy, metadata} /\ run[s].at \in Using
      BY <1>1, <1>3, OthersWait DEF Missing, Using
    <2>2. run[r].at \notin Using
      BY <1>1, <1>3, <2>1 DEF Solo
    <2>3. ~WritePolicy(r) /\ ~WriteMetadata(r)
      BY <2>2, WriteEffects DEF Using, Writing
    <2> QED
      BY <2>1, <2>3, OnlyWritersWrite
  <1> QED
    BY <1>2, <1>3

\* A file is torn only while it is being written, unless a write was cut off.
LEMMA StepKeepsReadable ==
    ASSUME TypeOK, Solo, Readable, Aging, NEW r \in Runs, RunStep(r)
    PROVE  Readable'
  <1> SUFFICES ASSUME ~raced', ~torn'
               PROVE  /\ policy' = Torn => \E s \in Runs : run'[s].at = "putPolicy"
                      /\ metadata' = Torn => \E s \in Runs : run'[s].at = "putMeta"
                      /\ \A s \in Runs : Torn \notin {run'[s].cached, run'[s].text}
    BY DEF Readable
  <1>1. ~raced /\ ~torn
    BY RacedStays
  <1>2. /\ policy = Torn => \E s \in Runs : run[s].at = "putPolicy"
        /\ metadata = Torn => \E s \in Runs : run[s].at = "putMeta"
        /\ \A s \in Runs : Torn \notin {run[s].cached, run[s].text}
    BY <1>1 DEF Readable
  <1>3. \A s \in Runs : run[r].at \in Using /\ run[s].at \in Using => s = r
    BY <1>1 DEF Solo
  <1>4. Torn # Absent /\ \A v : Whole(v) # Torn
    BY States
  <1>5. ReadPolicy(r) => policy # Torn
    BY <1>2, <1>3, ReadEffects DEF Using, Writing
  <1>6. Torn \notin {run'[r].cached, run'[r].text}
    BY <1>2, <1>4, <1>5, StartEffect, ReadEffects, PullEffect, WriteEffects, EndEffects
       DEF Moved, Ended, RunStep
  <1>7. ASSUME policy' = Torn PROVE \E s \in Runs : run'[s].at = "putPolicy"
    <2>1. CASE WritePolicy(r)
      <3>1. run[r].at = "putPolicy" => policy = Torn
        BY <1>1 DEF Aging, AgingAt
      <3>2. run[r].at # "putPolicy"
        BY <1>2, <1>7, <2>1, <3>1, WriteEffects
      <3> QED
        BY <2>1, <3>2, WriteEffects DEF Moved
    <2>2. CASE ~WritePolicy(r)
      <3>1. PICK s \in Runs : run[s].at = "putPolicy"
        BY <1>2, <1>7, <2>2, OnlyWritersWrite
      <3>2. s # r
        BY <2>2, <3>1, RacedStays, StartEffect, ReadEffects, PullEffect, WriteEffects, EndEffects DEF RunStep
      <3> QED
        BY <3>1, <3>2, OthersWait
    <2> QED
      BY <2>1, <2>2
  <1>8. ASSUME metadata' = Torn PROVE \E s \in Runs : run'[s].at = "putMeta"
    <2>1. CASE WriteMetadata(r)
      BY <1>4, <1>8, <2>1, WriteEffects DEF Moved
    <2>2. CASE ~WriteMetadata(r)
      <3>1. PICK s \in Runs : run[s].at = "putMeta"
        BY <1>2, <1>8, <2>2, OnlyWritersWrite
      <3>2. s # r
        BY <2>2, <3>1, RacedStays, StartEffect, ReadEffects, PullEffect, WriteEffects, EndEffects DEF RunStep
      <3> QED
        BY <3>1, <3>2, OthersWait
    <2> QED
      BY <2>1, <2>2
  <1> QED
    BY <1>2, <1>6, <1>7, <1>8, OthersWait

\* A run at work has not failed.
LEMMA StepKeepsTrying ==
    ASSUME TypeOK, Trying, NEW r \in Runs, RunStep(r)
    PROVE  Trying'
  <1>1. run'[r].at \in Using \cup {"plan"} => run'[r].failed = "no"
    BY StartEffect, ReadEffects, PullEffect, WriteEffects, EndEffects
       DEF Trying, Moved, Ended, RunStep, Using, Writing
  <1> QED
    BY <1>1, OthersWait DEF Trying

-----------------------------------------------------------------------------
(* An old profile is used only after a refresh has failed                  *)

\* Versions and times are numbers, and a file that is whole has one.
LEMMA Numbers ==
    ASSUME TypeOK
    PROVE  /\ now \in Nat /\ failedAt \in Nat /\ failedAt <= now + 1 /\ registry \in Nat
           /\ \A v \in Nat : v < registry => v + 1 \in Versions /\ published[v + 1] \in Nat
           /\ policy.value \in Nat /\ metadata.value \in Nat
           /\ \A r \in Runs : run[r].text.value \in Nat /\ run[r].began \in Nat
                            /\ run[r].cached.value \in Nat
           /\ metadata = Absent \/ metadata.state = "torn" \/ IsWhole(metadata)
  <1>1. \A S \in SUBSET Nat : \A x \in File(S) : x.value \in Nat
    BY DEF File, Absent, Torn, Whole
  <1>2. /\ Versions \subseteq Nat /\ 0..MaxTime \subseteq Nat
    BY Constants DEF Versions
  <1>3. registry \in 1..N /\ N \in Nat
    BY Constants DEF TypeOK, Versions
  <1>4. \A v \in Nat : v < registry => v + 1 \in Versions
    BY <1>3 DEF Versions
  <1>5. \A r \in Runs : /\ run[r].text \in File(Versions) /\ run[r].cached \in File(Versions)
                        /\ run[r].began \in 0..MaxTime
    BY DEF TypeOK, Run
  <1>6. metadata = Absent \/ metadata.state = "torn" \/ IsWhole(metadata)
    BY DEF TypeOK, File, Torn, Whole, IsWhole
  <1>7. \A x \in Versions : published[x] \in Nat
    BY <1>2 DEF TypeOK
  <1>8. policy.value \in Nat /\ metadata.value \in Nat
    BY <1>1, <1>2 DEF TypeOK
  <1>9. \A r \in Runs : run[r].text.value \in Nat /\ run[r].began \in Nat /\ run[r].cached.value \in Nat
    BY <1>1, <1>2, <1>5
  <1>10. now \in Nat /\ failedAt \in Nat /\ failedAt <= now + 1 /\ registry \in Nat
    BY <1>3, Constants DEF TypeOK
  <1> QED
    BY <1>4, <1>6, <1>7, <1>8, <1>9, <1>10

\* A profile checked within the interval may be used.
LEMMA CheckedIsExcused ==
    ASSUME TypeOK, NEW v \in Nat, NEW c \in Nat, NEW b \in Nat, Checked(v, c), b < c + Interval
    PROVE  Excused(v, b)
  BY Numbers, Constants DEF Checked, Excused

\* What was true of a profile when it was checked stays so.
LEMMA StaysChecked ==
    ASSUME TypeOK, (\E r \in Runs : RunStep(r)) \/ Tick \/ Publish,
           NEW v \in Nat, NEW c \in Nat, c <= now
    PROVE  /\ Checked(v, c) => Checked(v, c)'
           /\ Excused(v, c) => Excused(v, c)'
           /\ failedAt' = now + 1 => Checked(v, c)'
  <1> USE Numbers, Constants
  <1>1. CASE Publish
    <2>1. failedAt' = failedAt /\ registry' = registry + 1 /\ now' = now
          /\ registry + 1 \in Versions
          /\ published' = [published EXCEPT ![registry + 1] = now]
      BY <1>1 DEF Publish, Versions
    <2>2. /\ published'[registry + 1] = now
          /\ \A x \in Nat : x < registry => published'[x + 1] = published[x + 1]
      BY <2>1 DEF TypeOK
    <2>3. CASE v < registry
      BY <2>1, <2>2, <2>3 DEF Checked, Excused
    <2>4. CASE v = registry
      BY <2>1, <2>2, <2>4 DEF Checked, Excused
    <2>5. CASE v > registry
      BY <2>1, <2>5 DEF Checked, Excused
    <2> QED
      BY <2>3, <2>4, <2>5
  <1>2. CASE Tick \/ \E r \in Runs : RunStep(r)
    <2>1. registry' = registry /\ published' = published /\ failedAt' \in {failedAt, now + 1}
      BY <1>2 DEF Tick, RunStep, StartRun, ReadPolicy, ReadMetadata, Pull, WritePolicy, WriteMetadata,
           WriteFails, PlanSandbox, Apply, ProviderEnds, Crash, RefreshFails
    <2> QED
      BY <2>1 DEF Checked, Excused
  <1> QED
    BY <1>1, <1>2

\* Times that are noted have passed.
LEMMA StepKeepsClock ==
    ASSUME TypeOK, Clock, NEW r \in Runs, RunStep(r)
    PROVE  Clock' /\ now' = now
  <1>1. now' = now
    BY DEF RunStep, StartRun, ReadPolicy, ReadMetadata, Pull, WritePolicy, WriteMetadata,
           WriteFails, PlanSandbox, Apply, ProviderEnds, Crash
  <1>2. run'[r].began \in {0, now, run[r].began}
    BY StartEffect, ReadEffects, PullEffect, WriteEffects, EndEffects DEF Moved, Ended, RunStep
  <1>3. metadata' = metadata \/ metadata' = Torn \/ metadata' = Whole(run[r].began)
    BY OnlyWritersWrite, WriteEffects
  <1> QED
    BY <1>1, <1>2, <1>3, OthersWait, Numbers, States DEF Clock

\* A cache that may be used now may be used later.
LEMMA CacheLasts ==
    ASSUME TypeOK, Clock, (\E r \in Runs : RunStep(r)) \/ Tick \/ Publish,
           policy' = policy, metadata' = metadata, NEW b \in Nat, CacheFor(b)
    PROVE  \A d \in Nat : b <= d => CacheFor(d)'
  BY Numbers, StaysChecked, Constants DEF CacheFor, Aged, Clock

\* The others are not disturbed.
LEMMA OthersAge ==
    ASSUME TypeOK, Solo, Clock, Aging, NEW r \in Runs, RunStep(r), ~raced', NEW s \in Runs \ {r}
    PROVE  AgingAt(s)'
  <1>1. run'[s] = run[s] /\ ~raced /\ AgingAt(s)
    BY OthersWait, RacedStays DEF Aging
  <1>2. run[s].began <= now /\ run[s].began \in Nat /\ run[s].text.value \in Nat
    BY Numbers DEF Clock
  <1>3. CASE run[s].at \in Using
    <2>1. run[r].at \notin Using
      BY <1>1, <1>3 DEF Solo
    <2>2. policy' = policy /\ metadata' = metadata
      BY <2>1, OnlyWritersWrite, WriteEffects DEF Using, Writing
    <2>3. CacheFor(run[s].began) => CacheFor(run[s].began)'
      BY <1>1, <1>2, <2>2, CacheLasts
    <2>4. Aged(run[s].began) => Aged(run[s].began)'
      BY <1>1, <2>2 DEF Aged
    <2>5. Checked(run[s].text.value, run[s].began) => Checked(run[s].text.value, run[s].began)'
      BY <1>1, <1>2, StaysChecked
    <2> QED
      BY <1>1, <1>3, <2>2, <2>3, <2>4, <2>5 DEF AgingAt, Using, Writing
  <1>4. CASE run[s].at \notin Using
    <2>1. Excused(run[s].text.value, run[s].began) => Excused(run[s].text.value, run[s].began)'
      BY <1>1, <1>2, StaysChecked
    <2> QED
      BY <1>1, <1>4, <2>1 DEF AgingAt, Using, Writing
  <1> QED
    BY <1>3, <1>4

\* What a run leaves in the cache may be used when it should be.
LEMMA CacheAges ==
    ASSUME TypeOK, Clock, Aging, NEW r \in Runs, RunStep(r), ~raced'
    PROVE  CacheFor(now)'
  <1> PICK b \in Nat, v \in Nat : b = run[r].began /\ v = run[r].text.value
    BY Numbers
  <1>1. ~raced /\ AgingAt(r) /\ CacheFor(now)
    BY RacedStays DEF Aging
  <1>2. now' = now /\ now \in Nat /\ b <= now
    BY StepKeepsClock, Numbers DEF Clock
  <1>3. CASE WritePolicy(r)
    <2>1. CASE policy' = Torn
      BY <2>1, States DEF CacheFor
    <2>2. CASE run[r].at = "putPolicy"
      <3>1. Aged(b) /\ metadata' = metadata
        BY <1>1, <1>3, <2>2 DEF AgingAt, WritePolicy
      <3>2. Aged(now)'
        BY <1>2, <3>1, Numbers, Constants DEF Aged
      <3> QED
        BY <1>2, <3>2 DEF CacheFor
    <2> QED
      BY <1>3, <2>1, <2>2, WriteEffects
  <1>4. CASE WriteMetadata(r)
    <2>1. CASE metadata' = Torn
      BY <2>1, States DEF CacheFor
    <2>2. CASE run[r].at = "putMeta"
      <3>1. /\ metadata' = Whole(b) /\ policy' = run[r].text
            /\ IsWhole(policy') => Checked(v, b)
        BY <1>1, <1>4, <2>2, WriteEffects DEF AgingAt, WriteMetadata, Writing
      <3>2. IsWhole(policy') => Checked(v, b)'
        BY <1>2, <3>1, StaysChecked
      <3>3. metadata'.value = b /\ policy'.value = v
        BY <3>1, States
      <3> QED
        BY <3>1, <3>2, <3>3 DEF CacheFor, Checked
    <2> QED
      BY <1>4, <2>1, <2>2, WriteEffects
  <1>5. CASE ~WritePolicy(r) /\ ~WriteMetadata(r)
    BY <1>1, <1>2, <1>5, OnlyWritersWrite, CacheLasts
  <1> QED
    BY <1>3, <1>4, <1>5

\* A run knows how old what it holds is.
LEMMA StepperAges ==
    ASSUME TypeOK, Sound, Clock, Aging, NEW r \in Runs, RunStep(r), ~raced'
    PROVE  AgingAt(r)'
  <1> PICK b \in Nat, v \in Nat, k \in Nat, q \in Nat :
        b = run[r].began /\ v = run[r].text.value /\ k = run[r].cached.value /\ q = policy.value
    BY Numbers
  <1>1. ~raced /\ AgingAt(r) /\ CacheFor(now)
    BY RacedStays DEF Aging
  <1>2. now' = now /\ now \in Nat /\ b <= now
    BY StepKeepsClock, Numbers DEF Clock
  <1>3. CASE StartRun(r)
    <2>1. /\ run'[r].at \in {"running", "plan", "pull", "readPolicy"} /\ run'[r].began = now
          /\ run'[r].at = "plan" => run'[r].mode = "base"
          /\ run'[r].at = "pull" => metadata = Absent
          /\ run'[r].at = "readPolicy" => metadata # Absent
          /\ policy' = policy /\ metadata' = metadata
      BY <1>3, StartEffect DEF StartRun, Sound
    <2>2. CacheFor(now)'
      BY <1>1, <1>2, <2>1, CacheLasts
    <2>3. metadata = Absent => Aged(now)'
      BY <2>1, States DEF Aged
    <2> QED
      BY <1>2, <2>1, <2>2, <2>3 DEF AgingAt, Writing, CacheFor, Aged
  <1>4. CASE ReadPolicy(r)
    <2>1. /\ Moved(r, "readMeta", policy, run[r].text) /\ run[r].at = "readPolicy"
          /\ policy' = policy /\ metadata' = metadata
      BY <1>4, ReadEffects DEF ReadPolicy
    <2>2. CacheFor(b)'
      BY <1>1, <1>2, <2>1, CacheLasts DEF AgingAt
    <2> QED
      BY <1>1, <2>1, <2>2 DEF AgingAt, Moved, Writing, CacheFor, Aged
  <1>5. CASE ReadMetadata(r)
    <2>1. run[r].at = "readMeta" /\ policy' = policy /\ metadata' = metadata
      BY <1>5 DEF ReadMetadata
    <2>2. CASE Ended(r, "unreadable")
      BY <2>2 DEF Ended, AgingAt, Writing
    <2>3. CASE IsStale(metadata.value, b) /\ Moved(r, "pull", run[r].cached, run[r].text)
      <3>1. Aged(b)'
        BY <1>2, <2>1, <2>3, Numbers, Constants DEF Aged, IsStale
      <3> QED
        BY <2>3, <3>1 DEF AgingAt, Moved, Writing, Aged
    <2>4. CASE /\ metadata.state # "torn" /\ ~IsStale(metadata.value, b)
               /\ Moved(r, "plan", Absent, run[r].cached)
      <3>1. IsWhole(metadata) /\ b < metadata.value + Interval /\ metadata.value \in Nat
        BY <1>1, <1>2, <2>1, <2>4, Numbers, Constants DEF AgingAt, IsStale
      <3>2. ~Aged(b)
        BY <1>2, <3>1, Constants DEF Aged
      <3>3. run[r].cached = policy /\ CacheFor(b)
        BY <1>1, <2>1 DEF AgingAt
      <3>4. IsWhole(policy) => Excused(q, b)
        BY <1>2, <3>1, <3>2, <3>3, CheckedIsExcused, Numbers DEF CacheFor
      <3>5. IsWhole(policy) => Excused(q, b)'
        BY <1>2, <1>5, <3>4, StaysChecked
      <3> QED
        BY <2>1, <2>4, <3>3, <3>5 DEF AgingAt, Moved, Writing, Excused
    <2> QED
      BY <1>5, <2>2, <2>3, <2>4, ReadEffects
  <1>6. CASE Pull(r)
    <2>1. run[r].at = "pull" /\ policy' = policy /\ metadata' = metadata /\ registry' = registry
      BY <1>6 DEF Pull
    <2>2. Aged(b)'
      BY <1>1, <2>1 DEF AgingAt, Aged
    <2>3. CASE Ended(r, "registry")
      BY <2>3 DEF Ended, AgingAt, Writing
    <2>4. CASE Moved(r, "cutPolicy", run[r].cached, Whole(registry))
      <3>1. run'[r].text.value = registry' /\ ~(registry' < registry')
        BY <2>1, <2>4, States, Numbers DEF Checked, Moved
      <3> QED
        BY <2>2, <2>4, <3>1 DEF AgingAt, Moved, Writing, Aged, Checked
    <2>5. CASE failedAt' = now + 1 /\ Moved(r, "cutPolicy", Absent, run[r].cached)
      <3>1. Checked(k, b)'
        BY <1>2, <1>6, <2>5, StaysChecked
      <3> QED
        BY <2>2, <2>5, <3>1 DEF AgingAt, Moved, Writing, Aged, Checked
    <2> QED
      BY <1>6, <2>3, <2>4, <2>5, PullEffect
  <1>7. CASE WritePolicy(r) \/ WriteMetadata(r)
    <2>1. /\ run[r].at \in Writing /\ run'[r].text = run[r].text /\ run'[r].began = b
      BY <1>7, WriteEffects DEF Moved, Writing
    <2>2. IsWhole(run[r].text) => /\ Checked(v, b)'
                                 /\ Excused(v, b)'
      <3>1. Checked(v, b) => Excused(v, b)
        BY CheckedIsExcused, Constants
      <3> QED
        BY <1>1, <1>2, <2>1, <3>1, StaysChecked DEF AgingAt
    <2>3. CASE WritePolicy(r)
      <3>1. metadata' = metadata /\ Aged(b)
        BY <1>1, <2>3, WriteEffects DEF AgingAt, WritePolicy
      <3>2. Aged(b)'
        BY <3>1 DEF Aged
      <3>3. \/ run'[r].at = "putPolicy" /\ policy' = Torn
            \/ run'[r].at = "cutMeta" /\ policy' = run[r].text
        BY <1>1, <2>3, WriteEffects DEF AgingAt, Moved
      <3> QED
        BY <2>1, <2>2, <3>2, <3>3 DEF AgingAt, Writing, Aged, Checked
    <2>4. CASE WriteMetadata(r)
      <3>1. policy' = policy /\ policy = run[r].text
        BY <1>1, <2>4, WriteEffects DEF AgingAt, WriteMetadata
      <3>2. \/ run'[r].at = "putMeta" /\ metadata' = Torn
            \/ run'[r].at = "plan"
        BY <2>4, WriteEffects DEF Moved
      <3> QED
        BY <2>1, <2>2, <3>1, <3>2 DEF AgingAt, Writing, Checked, Excused
    <2> QED
      BY <1>7, <2>3, <2>4
  <1>8. CASE WriteFails(r)
    <2>1. run[r].at \in Writing /\ policy' = policy /\ metadata' = metadata
      BY <1>8, WriteEffects DEF WriteFails
    <2>2. CASE Ended(r, "no")
      BY <2>2 DEF Ended, AgingAt, Writing
    <2>3. CASE failedAt' = now + 1 /\ Moved(r, "cutPolicy", Absent, run[r].cached)
      <3>1. Checked(k, b)'
        BY <1>2, <1>8, <2>3, StaysChecked
      <3>2. Aged(b)'
        BY <1>1, <2>1, States DEF AgingAt, Writing, Aged
      <3> QED
        BY <2>3, <3>1, <3>2 DEF AgingAt, Moved, Writing, Aged, Checked
    <2> QED
      BY <1>8, <2>2, <2>3, WriteEffects
  <1>9. CASE PlanSandbox(r)
    <2>1. CASE Ended(r, "unreadable")
      BY <2>1 DEF Ended, AgingAt, Writing
    <2>2. CASE Moved(r, "apply", run[r].cached, run[r].text) /\ run[r].at = "plan"
      <3>1. Excused(v, b) => Excused(v, b)'
        BY <1>2, <1>9, StaysChecked
      <3> QED
        BY <1>1, <2>2, <3>1 DEF AgingAt, Moved, Writing, Excused
    <2> QED
      BY <1>9, <2>1, <2>2, EndEffects
  <1>10. CASE Apply(r) \/ ProviderEnds(r) \/ Crash(r)
    <2>1. run'[r].at \in {"idle", "running"}
      BY <1>10, EndEffects DEF Ended
    <2> QED
      BY <2>1 DEF AgingAt, Writing
  <1> QED
    BY <1>3, <1>4, <1>5, <1>6, <1>7, <1>8, <1>9, <1>10 DEF RunStep

-----------------------------------------------------------------------------
(* The theorems                                                            *)

\* The inductive invariant holds at first.
LEMMA InitInvariant == Init => IInv
  <1> SUFFICES ASSUME Init PROVE IInv
    OBVIOUS
  <1>1. TypeOK
    BY InitTypes
  <1>2. \A r \in Runs : /\ run[r].at = "idle" /\ run[r].mode = "none" /\ run[r].began = 0
                        /\ run[r].cached = Absent /\ run[r].text = Absent
    BY DEF Init, Idle
  <1>3. policy = Absent /\ metadata = Absent /\ now = 0
    BY DEF Init
  <1>4. Sound
    BY <1>2, <1>3 DEF Sound, HoldsKnown, Planned, Writing
  <1>5. Solo /\ Missing /\ Readable /\ Trying
    BY <1>2, <1>3, States DEF Solo, Missing, Readable, Trying, Using, Writing
  <1>6. Clock
    BY <1>2, <1>3, States DEF Clock
  <1>7. CacheFor(now) /\ \A r \in Runs : AgingAt(r)
    BY <1>2, <1>3, States DEF CacheFor, AgingAt, Writing
  <1> QED
    BY <1>1, <1>4, <1>5, <1>6, <1>7 DEF IInv, Aging

\* The clock and the registry keep the invariant, but for what is published.
LEMMA EnvironmentKeeps ==
    ASSUME IInv, Tick \/ Publish
    PROVE  TypeOK' /\ Solo' /\ Missing' /\ Readable' /\ Trying' /\ Clock' /\ Aging'
  <1>1. /\ TypeOK /\ policy' = policy /\ metadata' = metadata /\ run' = run
        /\ raced' = raced /\ torn' = torn /\ now' \in Nat /\ now <= now'
    BY Numbers DEF IInv, Tick, Publish
  <1>2. TypeOK'
    <2>1. CASE Tick
      BY <1>1, <2>1, Constants DEF Tick, TypeOK
    <2>2. CASE Publish
      <3>1. registry + 1 \in Versions /\ now \in 0..MaxTime
        BY <1>1, <2>2, Constants DEF Publish, TypeOK, Versions
      <3>2. published' \in [Versions -> 0..MaxTime]
        BY <1>1, <2>2, <3>1 DEF Publish, TypeOK
      <3> QED
        BY <1>1, <2>2, <3>1, <3>2 DEF Publish, TypeOK
    <2> QED
      BY <2>1, <2>2
  <1>3. Solo' /\ Missing' /\ Readable' /\ Trying'
    BY <1>1 DEF IInv, Solo, Missing, Readable, Trying
  <1>4. Clock'
    BY <1>1, Numbers DEF IInv, Clock
  <1>5. Aging'
    <2> SUFFICES ASSUME ~raced PROVE CacheFor(now)' /\ \A r \in Runs : AgingAt(r)'
      BY <1>1 DEF Aging
    <2>1. CacheFor(now)'
      BY <1>1, CacheLasts, Numbers DEF IInv, Aging
    <2>2. ASSUME NEW r \in Runs PROVE AgingAt(r)'
      <3>1. AgingAt(r) /\ run[r].began <= now /\ run[r].began \in Nat /\ run[r].text.value \in Nat
        BY Numbers DEF IInv, Aging, Clock
      <3>2. CacheFor(run[r].began) => CacheFor(run[r].began)'
        BY <1>1, <3>1, CacheLasts DEF IInv
      <3>3. Aged(run[r].began) => Aged(run[r].began)'
        BY <1>1 DEF Aged
      <3>4. /\ Checked(run[r].text.value, run[r].began) => Checked(run[r].text.value, run[r].began)'
            /\ Excused(run[r].text.value, run[r].began) => Excused(run[r].text.value, run[r].began)'
        BY <1>1, <3>1, StaysChecked
      <3> QED
        BY <1>1, <3>1, <3>2, <3>3, <3>4 DEF AgingAt
    <2> QED
      BY <2>1, <2>2
  <1> QED
    BY <1>2, <1>3, <1>4, <1>5

\* Every step keeps it.
LEMMA StepKeepsInvariant == IInv /\ [Next]_vars => IInv'
  <1> SUFFICES ASSUME IInv, [Next]_vars PROVE IInv'
    OBVIOUS
  <1>1. Sound'
    BY StepKeepsSound DEF IInv
  <1>2. ASSUME NEW r \in Runs, RunStep(r)
        PROVE  IInv'
    <2>1. TypeOK' /\ Clock'
      BY <1>2, RunStepTypes, StepKeepsClock DEF IInv
    <2>2. Solo' /\ Missing' /\ Readable' /\ Trying'
      BY <1>2, StepKeepsSolo, StepKeepsMissing, StepKeepsReadable, StepKeepsTrying DEF IInv
    <2>3. Aging'
      <3>1. ASSUME ~raced' PROVE CacheFor(now)'
        BY <1>2, <3>1, CacheAges DEF IInv
      <3>2. ASSUME ~raced', NEW s \in Runs PROVE AgingAt(s)'
        BY <1>2, <3>2, OthersAge, StepperAges DEF IInv
      <3> QED
        BY <3>1, <3>2 DEF Aging
    <2> QED
      BY <1>1, <2>1, <2>2, <2>3 DEF IInv
  <1>3. CASE Tick \/ Publish
    BY <1>1, <1>3, EnvironmentKeeps DEF IInv
  <1>4. CASE UNCHANGED vars
    BY <1>4 DEF vars, IInv, TypeOK, Sound, HoldsKnown, Known, Planned, Solo, Missing, Readable,
         Trying, Clock, Aging, AgingAt, CacheFor, Aged, Checked, Excused
  <1> QED
    BY <1>2, <1>3, <1>4 DEF Next

\* It holds in every behaviour.
LEMMA Invariant == Spec => []IInv
  BY InitInvariant, StepKeepsInvariant, PTL DEF Spec

(* The variables keep their types, for every set of runs, every sequence of  *)
(* profiles and every bound.                                               *)
THEOREM TypeCorrect == Spec => []TypeOK
  <1>1. IInv => TypeOK
    BY DEF IInv
  <1> QED
    BY Invariant, <1>1, PTL

(* A profile that is planned for was published, also when runs race for    *)
(* the cache and writes are cut off (nono_profile.rs:312).                 *)
THEOREM UsedIsPublished == Spec => []UsedProfileIsPublished
  <1>1. IInv => UsedProfileIsPublished
    <2> SUFFICES ASSUME IInv, NEW r \in Runs, Planned(r)
                 PROVE  run[r].text \in {Whole(v) : v \in 1..registry}
      BY DEF UsedProfileIsPublished
    <2>1. HoldsKnown(r)
      BY DEF IInv, Sound
    <2> QED
      BY <2>1 DEF HoldsKnown, Planned, Known
  <1> QED
    BY Invariant, <1>1, PTL

(* Runs that do not overlap use a profile older than the interval only     *)
(* when a refresh has failed within it (nono_profile.rs:81, 155).          *)
THEOREM OldIsExcused == Spec => []OldProfileIsExcused
  <1>1. IInv => OldProfileIsExcused
    <2> SUFFICES ASSUME IInv, NEW r \in Runs, Planned(r), ~raced
                 PROVE  Excused(run[r].text.value, run[r].began)
      BY DEF OldProfileIsExcused, Excused
    <2>1. HoldsKnown(r) /\ AgingAt(r)
      BY DEF IInv, Sound, Aging
    <2>2. IsWhole(run[r].text)
      BY <2>1, States DEF HoldsKnown, Planned, Known
    <2> QED
      BY <2>1, <2>2 DEF AgingAt, Planned
  <1> QED
    BY Invariant, <1>1, PTL

(* A run fails for the registry only with no profile to fall back on, and  *)
(* for an unreadable cache only after a write was cut off or two runs      *)
(* raced (nono_profile.rs:76, 889).                                        *)
THEOREM FailuresExplained == Spec => FailuresAreExplained
  <1> DEFINE Explained ==
        \A r \in Runs : UsesCache(r) \/ run[r].at = "plan" =>
          /\ run'[r].failed = "registry" => Absent \in {policy, metadata} \/ raced
          /\ run'[r].failed = "unreadable" => raced \/ torn
  <1>1. IInv /\ [Next]_vars => [Explained]_vars
    <2> SUFFICES ASSUME IInv, Next, NEW r \in Runs, run[r].at \in Using \cup {"plan"}
                 PROVE  /\ run'[r].failed = "registry" => Absent \in {policy, metadata} \/ raced
                        /\ run'[r].failed = "unreadable" => raced \/ torn
      BY DEF UsesCache, Using, Writing
    <2>1. run[r].failed = "no" /\ TypeOK
      BY DEF IInv, Trying
    <2>2. CASE run'[r] = run[r]
      BY <2>1, <2>2
    <2>3. CASE RunStep(r)
      <3>1. run'[r].failed = "registry" => run[r].at = "pull" /\ run[r].cached = Absent
        BY <2>1, <2>3, StartEffect, ReadEffects, PullEffect, WriteEffects, EndEffects
           DEF Moved, Ended, RunStep
      <3>2. run'[r].failed = "unreadable" =>
              \/ run[r].at = "readMeta" /\ metadata.state = "torn"
              \/ run[r].at = "plan" /\ run[r].text = Torn
        BY <2>1, <2>3, StartEffect, ReadEffects, PullEffect, WriteEffects, EndEffects
           DEF Moved, Ended, RunStep
      <3>3. metadata.state = "torn" => metadata = Torn
        BY <2>1 DEF TypeOK, File, Absent, Torn, Whole
      <3>4. run[r].at = "readMeta" /\ metadata = Torn => raced \/ torn
        BY DEF IInv, Readable, Solo, Using, Writing
      <3>5. run[r].text = Torn => raced \/ torn
        BY DEF IInv, Readable
      <3>6. run[r].at = "pull" /\ run[r].cached = Absent => Absent \in {policy, metadata} \/ raced
        BY DEF IInv, Missing
      <3> QED
        BY <3>1, <3>2, <3>3, <3>4, <3>5, <3>6
    <2>4. CASE Tick \/ Publish
      BY <2>2, <2>4 DEF Tick, Publish
    <2>5. CASE \E s \in Runs \ {r} : RunStep(s)
      BY <2>1, <2>2, <2>5, OthersWait
    <2> QED
      BY <2>3, <2>4, <2>5 DEF Next
  <1> QED
    BY Invariant, <1>1, PTL DEF FailuresAreExplained, Spec

-----------------------------------------------------------------------------
(* What may be written may be removed                                      *)

\* WritableCanBeUnlinked of one plan: a plan keeps it as it grows smaller.
Removable(s) ==
  \A p \in s.readWrite \cap s.dirs : \A i \in DOMAIN s.rules : DenyUnlink \in s.rules[i] =>
    \E j \in DOMAIN s.rules : j > i /\ Rule("unlink", "subpath", p) \in s.rules[j]
AllRemovable == \A r \in Runs : Removable(run[r].spec)

\* The rules of a plan are in their order: the overrides come after the one that denies.
LEMMA PlanRemovable == \A profile : Removable(SandboxSpec(profile))
  <1> SUFFICES ASSUME NEW profile, NEW p \in SandboxSpec(profile).readWrite \cap SandboxSpec(profile).dirs,
                      NEW i \in DOMAIN SandboxSpec(profile).rules,
                      DenyUnlink \in SandboxSpec(profile).rules[i]
               PROVE  \E j \in DOMAIN SandboxSpec(profile).rules :
                        j > i /\ Rule("unlink", "subpath", p) \in SandboxSpec(profile).rules[j]
    BY DEF Removable
  <1> DEFINE rw == BaseReadWrite \cup profile.readWrite
             ones == {Rule("readWrite", "literal", q) : q \in Literals}
             twos == IF profile.deny THEN {DenyUnlink} ELSE {}
             threes == IF profile.deny THEN UnlinkOverrides(rw) ELSE {}
             fours == UnlinkOverrides(Literals)
             rules == <<ones, twos, threes, fours>>
  <1>1. /\ SandboxSpec(profile).rules = rules /\ SandboxSpec(profile).readWrite = rw
        /\ SandboxSpec(profile).dirs = Dirs \cap (Static \cup present)
    BY DEF SandboxSpec
  <1>2. \A kind, filter, q : kind # "denyUnlink" => Rule(kind, filter, q) # DenyUnlink
    BY DEF Rule, DenyUnlink
  <1>3. \A ps : DenyUnlink \notin UnlinkOverrides(ps)
    BY <1>2 DEF UnlinkOverrides
  <1>4. DenyUnlink \notin ones /\ DenyUnlink \notin threes /\ DenyUnlink \notin fours
    BY <1>2, <1>3
  <1>5. p \in rw /\ p \in Dirs \cap (Static \cup present)
    BY <1>1
  <1>6. profile.deny => Rule("unlink", "subpath", p) \in threes
    BY <1>5 DEF UnlinkOverrides
  <1>7. DenyUnlink \in twos => profile.deny
    OBVIOUS
  <1> HIDE DEF rw, ones, twos, threes, fours
  <1>8. /\ DOMAIN rules = 1..4 /\ rules[1] = ones /\ rules[2] = twos
        /\ rules[3] = threes /\ rules[4] = fours
    OBVIOUS
  <1> HIDE DEF rules
  <1>9. i = 2 /\ profile.deny
    BY <1>1, <1>4, <1>7, <1>8
  <1> QED
    BY <1>1, <1>6, <1>8, <1>9

\* A run keeps its plan, gets one, gives it up, or applies what is there of it.
LEMMA PlanEffect ==
    ASSUME TypeOK, NEW r \in Runs, RunStep(r)
    PROVE  \/ run'[r].spec \in {run[r].spec, NoSpec}
           \/ \E profile : run'[r].spec = SandboxSpec(profile)
           \/ run'[r].spec = [run[r].spec EXCEPT !.read = Existing(@), !.readWrite = Existing(@)]
  <1>1. run[r] \in Run /\ run \in [Runs -> Run]
    BY DEF TypeOK
  <1>2. ASSUME NEW why, Fails(r, why) PROVE run'[r].spec = NoSpec
    BY <1>1, <1>2 DEF Fails, Idle
  <1>3. ASSUME NEW at, Goes(r, at) PROVE run'[r].spec = run[r].spec
    BY <1>1, <1>3 DEF Goes, Run
  <1>4. ASSUME NEW file, NEW kept, Store(r, file, kept) PROVE run'[r].spec = run[r].spec
    BY <1>1, <1>4 DEF Store, Run
  <1>5. CASE StartRun(r)
    <2> DEFINE Begun(mode, at) == [Idle("no") EXCEPT !.mode = mode, !.began = now, !.at = at]
    <2>1. \A mode, at : Begun(mode, at).spec = NoSpec
      BY DEF Idle
    <2>2. PICK mode \in {"profile", "base", "off"} :
            run' = [run EXCEPT ![r] =
              Begun(mode, CASE mode = "off" -> "running"
                            [] mode = "base" -> "plan"
                            [] mode = "profile" /\ Absent \in {policy, metadata} -> "pull"
                            [] OTHER -> "readPolicy")]
      BY <1>5 DEF StartRun
    <2> HIDE DEF Begun
    <2> QED
      BY <1>1, <2>1, <2>2
  <1>6. CASE ReadPolicy(r) \/ ReadMetadata(r)
    BY <1>1, <1>2, <1>3, <1>6 DEF ReadPolicy, ReadMetadata, Run
  <1>7. CASE Pull(r) \/ WriteFails(r)
    BY <1>2, <1>4, <1>7 DEF Pull, WriteFails
  <1>8. CASE WritePolicy(r) \/ WriteMetadata(r)
    BY <1>1, <1>3, <1>8 DEF WritePolicy, WriteMetadata, Run
  <1>9. CASE PlanSandbox(r)
    <2>1. CASE run[r].text.state = "torn"
      BY <1>2, <1>9, <2>1 DEF PlanSandbox
    <2>2. CASE run[r].text.state # "torn"
      <3>1. PICK profile : run' = [run EXCEPT ![r].at = "apply", ![r].spec = SandboxSpec(profile)]
        BY <1>9, <2>2 DEF PlanSandbox
      <3>2. run'[r] = [run[r] EXCEPT !.at = "apply", !.spec = SandboxSpec(profile)]
        BY <1>1, <3>1
      <3> QED
        BY <1>1, <3>2 DEF Run
    <2> QED
      BY <2>1, <2>2
  <1>10. CASE Apply(r)
    <2> DEFINE applied == [run[r].spec EXCEPT !.read = Existing(@), !.readWrite = Existing(@)]
    <2>1. CASE run' = [run EXCEPT ![r] = [Idle("no") EXCEPT !.at = "running", !.spec = applied]]
      <3> HIDE DEF applied
      <3>1. run'[r].spec = applied
        BY <1>1, <2>1 DEF Idle
      <3> QED
        BY <3>1 DEF applied
    <2> QED
      BY <1>2, <1>10, <2>1 DEF Apply
  <1>11. CASE ProviderEnds(r) \/ Crash(r)
    BY <1>2, <1>11 DEF ProviderEnds, Crash
  <1> QED
    BY <1>5, <1>6, <1>7, <1>8, <1>9, <1>10, <1>11 DEF RunStep

\* Every step leaves plans as they should be.
LEMMA StepKeepsRemovable == TypeOK /\ AllRemovable /\ [Next]_vars => AllRemovable'
  <1> SUFFICES ASSUME TypeOK, AllRemovable, [Next]_vars PROVE AllRemovable'
    OBVIOUS
  <1>1. CASE run' = run
    BY <1>1 DEF AllRemovable, Removable
  <1>2. ASSUME NEW r \in Runs, RunStep(r) PROVE AllRemovable'
    <2>1. Removable(run[r].spec)
      BY DEF AllRemovable
    <2>2. Removable(NoSpec)
      BY DEF Removable, NoSpec
    <2>3. Removable([run[r].spec EXCEPT !.read = Existing(@), !.readWrite = Existing(@)])
      <3>1. run[r].spec \in Specs
        BY DEF TypeOK, Run
      <3>2. \A ps : Existing(ps) \subseteq ps
        BY DEF Existing
      <3> DEFINE s == [run[r].spec EXCEPT !.read = Existing(@), !.readWrite = Existing(@)]
      <3>3. /\ s.readWrite \subseteq run[r].spec.readWrite
            /\ s.dirs = run[r].spec.dirs /\ s.rules = run[r].spec.rules
        BY <3>1, <3>2 DEF Specs
      <3> HIDE DEF s
      <3>4. Removable(s)
        BY <2>1, <3>3 DEF Removable
      <3> QED
        BY <3>4 DEF s
    <2>4. Removable(run'[r].spec)
      BY <1>2, <2>1, <2>2, <2>3, PlanEffect, PlanRemovable
    <2>5. \A s \in Runs \ {r} : Removable(run'[s].spec)
      BY <1>2, OthersWait DEF AllRemovable
    <2> QED
      BY <2>4, <2>5 DEF AllRemovable, Removable
  <1>3. CASE Tick \/ Publish \/ UNCHANGED vars
    BY <1>1, <1>3 DEF Tick, Publish, vars
  <1> QED
    BY <1>2, <1>3 DEF Next

(* With unlink protection in force, files can still be removed in every    *)
(* writable directory that was there when the run was planned              *)
(* (provider_sandbox.rs:177).                                              *)
THEOREM WritableIsRemovable == Spec => []WritableCanBeUnlinked
  <1>1. Init => AllRemovable
    BY DEF Init, Idle, NoSpec, AllRemovable, Removable
  <1>2. AllRemovable => WritableCanBeUnlinked
    BY DEF AllRemovable, Removable, WritableCanBeUnlinked
  <1> QED
    BY <1>1, <1>2, StepKeepsRemovable, TypeCorrect, PTL DEF Spec
================================================================================

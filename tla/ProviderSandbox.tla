---------------------------- MODULE ProviderSandbox ----------------------------
(***************************************************************************)
(* The sandbox of a provider run: the profile of the provider is taken     *)
(* from a cache of two files that all runs share, refreshed from a         *)
(* registry when it is stale, and turned into the capabilities a helper    *)
(* process applies to itself before it becomes the provider.  Runs of the  *)
(* host and of a chat use the cache side by side, with no lock, and files  *)
(* are written in place: truncated, then filled.                           *)
(***************************************************************************)
EXTENDS Naturals, Sequences

CONSTANTS
  Runs,         \* provider runs that may be under way together
  Profiles,     \* what each version of the profile says (bound: the versions there will be)
  Interval,     \* hours a cached profile is used before it is checked again
  MaxTime,      \* bound: the clock
  MaxFaults,    \* bound: failing writes and runs killed half way
  OnMac         \* whether the host is built for macOS

VARIABLES
  now, registry,    \* the time; the latest version in the registry
  published,        \* when each version was published
  policy, metadata, \* the files of the cache: policy.json and metadata.json
  run,              \* the runs
  present,          \* directories of the provider that exist
  faults,
  failedAt,         \* when a refresh failed last, one later
  raced, torn       \* two runs have used the cache at once; a write was cut off

envVars == <<now, registry, published>>
cacheVars == <<policy, metadata>>
historyVars == <<failedAt, raced, torn>>
vars == <<envVars, cacheVars, run, present, faults, historyVars>>

N == Len(Profiles)
Versions == 1..N
Absent == [state |-> "absent", value |-> 0]
Torn == [state |-> "torn", value |-> 0]
Whole(v) == [state |-> "whole", value |-> v]

-------------------------------------------------------------------------------
(* What a profile grants: paths are named by what is there. *)

Dirs == {"repo", "runtime", "tools", "provider", "caches", "keychains"}
Literals == {"claudeJson"}
Static == {"repo", "runtime", "tools", "keychains"}

Paths == Dirs \cup Literals \cup {"devNull", "command", "system", "node"}

Profile == [include : SUBSET STRING, allow : SUBSET Paths, read : SUBSET Paths,
            workdir : {"none", "read", "write", "readwrite"}]

ASSUME BoundsOK ==
  /\ {Interval, MaxTime} \subseteq Nat \ {0}
  /\ MaxFaults \in Nat /\ OnMac \in BOOLEAN
ASSUME ProfilesOK == Profiles \in Seq(Profile) /\ Profiles # <<>>

(* builtin_group: a group of another platform is not there.                *)
BuiltinGroups ==
  {[name |-> "codex_macos", read |-> {}, readWrite |-> {"keychains"}, deny |-> FALSE, here |-> OnMac],
   [name |-> "node_runtime", read |-> {"node"}, readWrite |-> {}, deny |-> FALSE, here |-> TRUE],
   [name |-> "unlink_protection", read |-> {}, readWrite |-> {}, deny |-> TRUE, here |-> TRUE]}

Existing(paths) == {p \in paths : p \in Dirs => p \in Static \cup present}

(* resolve_profile_spec; unknown groups are left out. *)
ProfileSpec(p) ==
  LET known == {g \in BuiltinGroups : g.name \in p.include /\ g.here}
  IN [read |-> Existing((UNION {g.read : g \in known}) \cup p.read)
                 \cup IF p.workdir = "read" THEN {"repo"} ELSE {},
      readWrite |-> Existing((UNION {g.readWrite : g \in known}) \cup p.allow)
                 \cup IF p.workdir = "readwrite" THEN {"repo"} ELSE {},
      deny |-> \E g \in known : g.deny]

NoProfile == [read |-> {}, readWrite |-> {}, deny |-> FALSE]

DenyUnlink == [kind |-> "denyUnlink", filter |-> "all", path |-> "all"]
Rule(kind, filter, p) == [kind |-> kind, filter |-> filter, path |-> p]

(* nono_unlink_override_rules: what is no directory yet gets a literal rule. *)
UnlinkOverrides(paths) ==
  {Rule("unlink", IF p \in Dirs \cap (Static \cup present) THEN "subpath" ELSE "literal", p) :
     p \in paths}

BaseReadWrite == {"runtime", "devNull", "provider", "tools"} \cup Literals

(* nono_sandbox_spec: the rules in their order, and, for the properties,   *)
(* the directories there were.                                             *)
SandboxSpec(profile) ==
  LET rw == BaseReadWrite \cup profile.readWrite
  IN [read |-> {"repo", "command", "system"} \cup profile.read,
      readWrite |-> rw,
      rules |-> << {Rule("readWrite", "literal", p) : p \in Literals},
                   IF profile.deny THEN {DenyUnlink} ELSE {},
                   IF profile.deny THEN UnlinkOverrides(rw) ELSE {},
                   UnlinkOverrides(Literals) >>,
      dirs |-> Dirs \cap (Static \cup present)]

NoSpec == [read |-> {}, readWrite |-> {}, rules |-> <<>>, dirs |-> {}]

-------------------------------------------------------------------------------
Idle(why) ==
  [at |-> "idle", mode |-> "none", began |-> 0, cached |-> Absent, text |-> Absent,
   failed |-> why, spec |-> NoSpec]

Init ==
  /\ now = 0 /\ registry = 1 /\ published = [v \in Versions |-> 0]
  /\ policy = Absent /\ metadata = Absent
  /\ run = [r \in Runs |-> Idle("no")]
  /\ present = {}
  /\ faults = 0 /\ failedAt = 0 /\ raced = FALSE /\ torn = FALSE

Goes(r, at) == run' = [run EXCEPT ![r].at = at]
Fails(r, why) == run' = [run EXCEPT ![r] = Idle(why)]
Fault == faults < MaxFaults /\ faults' = faults + 1

UsesCache(r) == run[r].at \in {"readPolicy", "readMeta", "pull", "cutPolicy", "putPolicy",
                                "cutMeta", "putMeta"}

(* command_for_with_sandbox: without the sandbox the provider is started   *)
(* as it is; without profile updates the base capabilities are planned.    *)
StartRun(r) ==
  /\ run[r].at = "idle"
  /\ \E mode \in {"profile", "base", "off"} :
       run' = [run EXCEPT ![r] =
         [Idle("no") EXCEPT !.mode = mode, !.began = now,
            !.at = CASE mode = "off" -> "running"
                     [] mode = "base" -> "plan"
                     [] mode = "profile" /\ Absent \in {policy, metadata} -> "pull"
                     [] OTHER -> "readPolicy"]]
  /\ raced' = (raced \/ \E s \in Runs \ {r} : UsesCache(s))
  /\ UNCHANGED <<envVars, cacheVars, present, faults, failedAt, torn>>

(* read_cached_profile: the two files one after the other; metadata that   *)
(* cannot be parsed fails the run, a policy that cannot is noticed later.  *)
ReadPolicy(r) ==
  /\ run[r].at = "readPolicy"
  /\ run' = [run EXCEPT ![r].at = "readMeta", ![r].cached = policy]
  /\ UNCHANGED <<envVars, cacheVars, present, faults, historyVars>>

IsStale(checked, t) == t >= checked + Interval

ReadMetadata(r) ==
  /\ run[r].at = "readMeta"
  /\ IF metadata.state = "torn" THEN Fails(r, "unreadable")
     ELSE IF IsStale(metadata.value, run[r].began) THEN Goes(r, "pull")
     ELSE run' = [run EXCEPT ![r].at = "plan", ![r].text = run[r].cached,
                             ![r].cached = Absent]
  /\ UNCHANGED <<envVars, cacheVars, present, faults, historyVars>>

(* What the registry may answer: the latest version as it should be, or    *)
(* with something wrong about it, or nothing.                              *)
Served == [answered |-> TRUE, package |-> "ours", scanPassed |-> TRUE, filenames |-> "contained",
           policyFile |-> TRUE, signed |-> {registry}, digest |-> registry, text |-> registry]
Other == (registry % N) + 1
Replies ==
  { Served, [Served EXCEPT !.answered = FALSE], [Served EXCEPT !.package = "other"],
    [Served EXCEPT !.scanPassed = FALSE], [Served EXCEPT !.filenames = "duplicate"],
    [Served EXCEPT !.filenames = "outside"], [Served EXCEPT !.policyFile = FALSE],
    [Served EXCEPT !.signed = {}], [Served EXCEPT !.signed = {Other}],
    [Served EXCEPT !.text = Other], [Served EXCEPT !.digest = Other, !.text = Other] }

AcceptsUnhashed(reply) ==
  /\ reply.answered
  /\ reply.package = "ours" /\ reply.scanPassed /\ reply.filenames = "contained"
  /\ reply.policyFile
  /\ reply.signed # {} /\ reply.digest \in reply.signed

(* pull_profile, validate_pull_response, verify_bundle_subjects. *)
Accepts(reply) ==
  /\ reply.answered
  /\ reply.package = "ours" /\ reply.scanPassed /\ reply.filenames = "contained"
  /\ reply.policyFile
  /\ reply.signed # {} /\ reply.digest \in reply.signed
  /\ reply.text = reply.digest

Store(r, file, kept) == run' = [run EXCEPT ![r].at = "cutPolicy", ![r].text = file, ![r].cached = kept]
RefreshFails == failedAt' = now + 1

PullOrGiveUp(r) ==
  /\ run[r].at = "pull"
  /\ \E reply \in Replies :
       IF Accepts(reply) THEN Store(r, Whole(reply.text), run[r].cached) /\ UNCHANGED failedAt
       ELSE RefreshFails /\ Fails(r, "registry")
  /\ UNCHANGED <<envVars, cacheVars, present, faults, raced, torn>>

(* resolve_for_provider: what was pulled is stored, and used; when it      *)
(* cannot be pulled the cached profile is, as if it had just been checked. *)
Pull(r) ==
  /\ run[r].at = "pull"
  /\ \E reply \in Replies :
       IF Accepts(reply) THEN Store(r, Whole(reply.text), run[r].cached) /\ UNCHANGED failedAt
       ELSE /\ RefreshFails
            /\ IF run[r].cached = Absent THEN Fails(r, "registry")
               ELSE Store(r, run[r].cached, Absent)
  /\ UNCHANGED <<envVars, cacheVars, present, faults, raced, torn>>

(* write_cached_profile: policy.json and then metadata.json, in place.     *)
(* What a longer text has left behind a shorter one makes the file torn.   *)
Filled(file, v, longer) == IF file.state = "whole" /\ longer THEN Torn ELSE v

PolicyAfterMetadata(r) ==
  /\ \/ /\ run[r].at = "cutPolicy"
        /\ metadata' = Whole(run[r].began) /\ Goes(r, "putPolicy") /\ UNCHANGED policy
     \/ /\ run[r].at = "putPolicy"
        /\ policy' = run[r].text /\ UNCHANGED metadata
        /\ run' = [run EXCEPT ![r].at = "plan", ![r].cached = Absent]
  /\ UNCHANGED <<envVars, present, faults, historyVars>>

WritePolicy(r) ==
  /\ \/ /\ run[r].at = "cutPolicy"
        /\ policy' = Torn /\ Goes(r, "putPolicy")
     \/ /\ run[r].at = "putPolicy"
        /\ policy' = Filled(policy, run[r].text, policy.value > run[r].text.value)
        /\ Goes(r, "cutMeta")
  /\ UNCHANGED <<envVars, metadata, present, faults, historyVars>>

WriteMetadata(r) ==
  /\ \/ /\ run[r].at = "cutMeta"
        /\ metadata' = Torn /\ Goes(r, "putMeta")
     \/ /\ run[r].at = "putMeta"
        /\ metadata' = Whole(run[r].began)
        /\ run' = [run EXCEPT ![r].at = "plan", ![r].cached = Absent]
  /\ UNCHANGED <<envVars, policy, present, faults, historyVars>>

CutsOff(r) == torn' = (torn \/ run[r].at \in {"putPolicy", "putMeta"})

(* What was pulled cannot be stored: the cached profile is used here, too. *)
WriteFails(r) ==
  /\ run[r].at \in {"cutPolicy", "putPolicy", "cutMeta", "putMeta"}
  /\ Fault /\ CutsOff(r)
  /\ IF run[r].cached = Absent THEN Fails(r, "no") /\ UNCHANGED failedAt
     ELSE RefreshFails /\ Store(r, run[r].cached, Absent)
  /\ UNCHANGED <<envVars, cacheVars, present, raced>>

(* ProviderSandboxPlan.prepare: the runtime directories are made, and the  *)
(* profile is parsed.                                                      *)
PlanSandbox(r) ==
  /\ run[r].at = "plan"
  /\ IF run[r].text.state = "torn" THEN Fails(r, "unreadable")
     ELSE run' = [run EXCEPT ![r].at = "apply", ![r].spec =
            SandboxSpec(IF run[r].mode = "profile" THEN ProfileSpec(Profiles[run[r].text.value])
                                                   ELSE NoProfile)]
  /\ UNCHANGED <<envVars, cacheVars, present, faults, historyVars>>

(* run_nono_sandbox_helper: paths that are not there are passed over; when *)
(* the sandbox cannot be applied the provider is not started.              *)
Apply(r) ==
  /\ run[r].at = "apply"
  /\ \/ run' = [run EXCEPT ![r] = [Idle("no") EXCEPT !.at = "running",
            !.spec = [run[r].spec EXCEPT !.read = Existing(@), !.readWrite = Existing(@)]]]
     \/ Fails(r, "no")
  /\ UNCHANGED <<envVars, cacheVars, present, faults, historyVars>>

(* A provider may have made its directories. *)
ProviderEnds(r) ==
  /\ run[r].at = "running"
  /\ Fails(r, "no")
  /\ present' \in {present, {"provider"}}
  /\ UNCHANGED <<envVars, cacheVars, faults, historyVars>>

(* The process of the run is killed. *)
Crash(r) ==
  /\ UsesCache(r)
  /\ Fault /\ Fails(r, "no") /\ CutsOff(r)
  /\ UNCHANGED <<envVars, cacheVars, present, failedAt, raced>>

Tick ==
  /\ now < MaxTime
  /\ now' = now + 1
  /\ UNCHANGED <<registry, published, cacheVars, run, present, faults, historyVars>>

Publish ==
  /\ registry < N
  /\ registry' = registry + 1
  /\ published' = [published EXCEPT ![registry + 1] = now]
  /\ UNCHANGED <<now, cacheVars, run, present, faults, historyVars>>

RunStep(r) ==
  \/ StartRun(r) \/ ReadPolicy(r) \/ ReadMetadata(r) \/ Pull(r)
  \/ WritePolicy(r) \/ WriteMetadata(r) \/ WriteFails(r)
  \/ PlanSandbox(r) \/ Apply(r) \/ ProviderEnds(r) \/ Crash(r)

Next == (\E r \in Runs : RunStep(r)) \/ Tick \/ Publish

Spec == Init /\ [][Next]_vars

-------------------------------------------------------------------------------
(* Properties *)

File(values) == {Absent, Torn} \cup {Whole(v) : v \in values}
Rules == [kind : {"readWrite", "unlink"}, filter : {"subpath", "literal"}, path : Paths]
            \cup {DenyUnlink}
Specs == [read : SUBSET Paths, readWrite : SUBSET Paths, rules : Seq(SUBSET Rules), dirs : SUBSET Dirs]
Run ==
  [at : {"idle", "readPolicy", "readMeta", "pull", "cutPolicy", "putPolicy", "cutMeta", "putMeta",
         "plan", "apply", "running"},
   mode : {"none", "profile", "base", "off"}, began : 0..MaxTime,
   cached : File(Versions), text : File(Versions),
   failed : {"no", "unreadable", "registry"}, spec : Specs]

(* The fields are of their types.                                          *)
TypeOK ==
  /\ now \in 0..MaxTime /\ registry \in Versions
  /\ published \in [Versions -> 0..MaxTime]
  /\ policy \in File(Versions) /\ metadata \in File(0..MaxTime)
  /\ run \in [Runs -> Run]
  /\ present \subseteq Dirs /\ faults \in 0..MaxFaults /\ failedAt \in 0..(now + 1)
  /\ raced \in BOOLEAN /\ torn \in BOOLEAN

Planned(r) == run[r].mode = "profile" /\ run[r].at = "apply"

(* Whatever the registry serves and however the writes of two runs         *)
(* overlap, a profile that is used is one the registry has published and   *)
(* signed (nono_profile.rs:312).                                           *)
UsedProfileIsPublished ==
  \A r \in Runs : Planned(r) => run[r].text \in {Whole(v) : v \in 1..registry}

(* Runs that do not overlap, some of them killed at any point, use a       *)
(* profile older than the interval only when a refresh has failed within   *)
(* the interval: the cache is not taken for newer than it is               *)
(* (nono_profile.rs:81, 155).                                              *)
OldProfileIsExcused ==
  \A r \in Runs : Planned(r) /\ ~raced =>
    LET v == run[r].text.value IN
      v < registry /\ published[v + 1] + Interval <= run[r].began =>
        failedAt + Interval > run[r].began + 1

(* A run fails for the registry only when there is no cached profile, and  *)
(* for an unreadable cache only after a write was cut off or two runs      *)
(* overlapped (nono_profile.rs:76, 889).                                   *)
FailuresAreExplained ==
  [][\A r \in Runs : UsesCache(r) \/ run[r].at = "plan" =>
       /\ run'[r].failed = "registry" => Absent \in {policy, metadata} \/ raced
       /\ run'[r].failed = "unreadable" => raced \/ torn]_vars

(* With unlink protection in force, files can still be removed in every    *)
(* writable directory that was there when the run was planned: its rule    *)
(* comes after the rule that denies (provider_sandbox.rs:177).             *)
WritableCanBeUnlinked ==
  \A r \in Runs : run[r].at \in {"apply", "running"} =>
    \A p \in run[r].spec.readWrite \cap run[r].spec.dirs :
      \A i \in DOMAIN run[r].spec.rules : DenyUnlink \in run[r].spec.rules[i] =>
        \E j \in DOMAIN run[r].spec.rules :
          j > i /\ Rule("unlink", "subpath", p) \in run[r].spec.rules[j]
===============================================================================

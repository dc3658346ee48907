-------------------------- MODULE CommandLineProofs --------------------------
(***************************************************************************)
(* Proofs about CommandLine.  Both theorems rest on what a command may     *)
(* hold at each place: a chat has its checkout, and staged work, only from *)
(* its preparation to its last message, and its pull request is the one of *)
(* the activity it picked.  That the inbox sees every review is counted:   *)
(* activities have ids of 1..made, so that a page as long as all there can *)
(* be leaves none out.                                                     *)
(***************************************************************************)
EXTENDS CommandLine, TLAPS, FiniteSetTheorems, WellFoundedInduction

(* Where a chat has its checkout. *)
Open == {"chat", "clear", "save", "count"}
Words == {"ok", "error", "missing", "staged", "still running"}

(* What a command may hold while m activities have been made. *)
Sound(m) ==
  {r \in CallRecords :
     /\ r.id <= m
     /\ r.at = "save" => r.id # 0
     /\ r.checkout # NoPr => r.at \in Open /\ r.checkout = r.picked.pr
     /\ r.staged => r.at \in Open \cup {"done"}
     /\ r.at = "done" /\ r.staged => "staged" \in r.says}

HostOK ==
  /\ made \in 0..MaxMade /\ nextId \in 0..made
  /\ Id \subseteq 1..made
  /\ records \in [Id -> Records]
  /\ requests \subseteq Prs

(* The invariant the theorems rest on. *)
IInv == HostOK /\ calls \in [Callers -> Sound(made)]

-------------------------------------------------------------------------------
(* The host *)

(* A bounded set of ids has a largest one, and Max is it. *)
LEMMA MaxOfIds ==
  ASSUME NEW n \in Nat, NEW S \in SUBSET (1..n), S # {}
  PROVE  Max(S) \in S
  <1> DEFINE T == {n - x : x \in S}
             R == OpToRel(<, Nat)
  <1>1. T \subseteq Nat /\ T # {}
    <2>1. PICK x \in S : TRUE
      OBVIOUS
    <2>2. n - x \in T
      BY <2>1
    <2>3. T \subseteq Nat
      OBVIOUS
    <2> QED
      BY <2>2, <2>3
  <1>2. PICK t \in T : \A u \in T : ~(<<u, t>> \in R)
    <2> HIDE DEF R, T
    <2> QED
      BY <1>1, NatLessThanWellFounded, WFMin DEF R
  <1>3. \A u \in T : ~(u < t)
    BY <1>1, <1>2 DEF OpToRel
  <1>4. PICK x \in S : t = n - x
    BY <1>2
  <1>5. \A y \in S : x >= y
    BY <1>1, <1>3, <1>4
  <1> QED
    BY <1>5 DEF Max

LEMMA BoundsNat == Limit \in Nat /\ InboxLimit \in Nat /\ MaxMade \in Nat /\ MaxEvents \in Nat
  BY ParametersOK

(* Saving keeps the activities typed, and their ids among those made. *)
LEMMA SaveOK ==
  ASSUME HostOK, NEW m \in 0..MaxMade, made <= m, NEW i \in 1..m, NEW r \in Records, Save(i, r)
  PROVE  Id' \subseteq 1..m /\ records' \in [Id' -> Records]
  <1>1. records' = [j \in Id \cup {i} |-> IF j = i THEN r ELSE records[j]]
    BY DEF Save
  <1>2. Id' = Id \cup {i}
    BY <1>1 DEF Id
  <1>3. Id \subseteq 1..m
    BY BoundsNat DEF HostOK
  <1>4. \A j \in Id : records[j] \in Records
    BY DEF HostOK
  <1> QED
    BY <1>1, <1>2, <1>3, <1>4

LEMMA CreateOK ==
  ASSUME HostOK, NEW pr \in Prs \cup {NoPr}, Create(pr), UNCHANGED requests
  PROVE  HostOK' /\ made <= made'
  <1>1. CASE made = MaxMade
    BY <1>1, BoundsNat DEF Create, HostOK, hostVars, storeVars, Id
  <1>2. CASE made # MaxMade
    <2> DEFINE r == [pr |-> pr, status |-> "Queued", session |-> made + 1]
    <2>1. Save(nextId + 1, r) /\ nextId' = nextId + 1 /\ made' = made + 1
      BY <1>2 DEF Create
    <2>2. made' \in 0..MaxMade /\ made <= made' /\ nextId' \in 1..made'
      BY <1>2, <2>1, BoundsNat DEF HostOK
    <2>3. r \in Records
      BY <2>1, <2>2 DEF Records
    <2> HIDE DEF r
    <2>4. Id' \subseteq 1..made' /\ records' \in [Id' -> Records]
      BY <2>1, <2>2, <2>3, SaveOK
    <2> QED
      BY <2>2, <2>4 DEF HostOK
  <1> QED
    BY <1>1, <1>2

LEMMA ClearOK ==
  ASSUME HostOK, Clear, UNCHANGED <<made, requests>>
  PROVE  HostOK'
  <1>1. Id' = {} /\ records' \in [{} -> Records]
    BY DEF Clear, Id
  <1> QED
    BY <1>1 DEF HostOK, Clear

LEMMA RestartOK ==
  ASSUME HostOK, HostRestart
  PROVE  HostOK'
  <1>1. /\ records' = [i \in Id |-> IF records[i].status = "Running"
                                    THEN [records[i] EXCEPT !.status = "Ended"] ELSE records[i]]
        /\ nextId' = IF Id = {} THEN 0 ELSE Max(Id)
        /\ made' = made /\ requests' = requests
    BY DEF HostRestart
  <1>2. \A i \in Id : records[i] \in Records /\ [records[i] EXCEPT !.status = "Ended"] \in Records
    BY DEF HostOK, Records
  <1>3. Id' = Id /\ records' \in [Id -> Records]
    BY <1>1, <1>2 DEF Id
  <1>4. nextId' \in 0..made
    <2>1. CASE Id = {}
      BY <1>1, <2>1, BoundsNat DEF HostOK
    <2>2. CASE Id # {}
      <3>1. made \in Nat
        BY BoundsNat DEF HostOK
      <3>2. Max(Id) \in Id
        BY <2>2, <3>1, MaxOfIds DEF HostOK
      <3> QED
        BY <1>1, <2>2, <3>1, <3>2 DEF HostOK
    <2> QED
      BY <2>1, <2>2
  <1> QED
    BY <1>1, <1>3, <1>4 DEF HostOK

-------------------------------------------------------------------------------
(* Commands *)

LEMMA NoCallTyped == NoCall \in CallRecords
  BY DEF NoCall, NoRecord, CallRecords, Records, Places, Requesting, NoSession

LEMMA NoCallSound == \A m \in Nat : NoCall \in Sound(m)
  BY NoCallTyped DEF NoCall, Sound

LEMMA SoundGrows ==
  ASSUME NEW m \in Nat, NEW n \in Nat, m <= n
  PROVE  Sound(m) \subseteq Sound(n)
  <1> SUFFICES ASSUME NEW r \in Sound(m) PROVE r \in Sound(n)
    OBVIOUS
  <1>1. r \in CallRecords
    BY DEF Sound
  <1>2. r.id \in Nat
    BY <1>1, BoundsNat DEF CallRecords
  <1> QED
    BY <1>1, <1>2 DEF Sound

(* A command that moves leaves the others sound. *)
LEMMA CallMoves ==
  ASSUME IInv, HostOK', made <= made', NEW c \in Callers, NEW r \in Sound(made'),
         calls' = [calls EXCEPT ![c] = r]
  PROVE  IInv'
  <1>1. Sound(made) \subseteq Sound(made')
    BY SoundGrows, BoundsNat DEF IInv, HostOK
  <1> QED
    BY <1>1 DEF IInv

LEMMA CallsStay ==
  ASSUME IInv, HostOK', made <= made', UNCHANGED calls
  PROVE  IInv'
  <1>1. Sound(made) \subseteq Sound(made')
    BY SoundGrows, BoundsNat DEF IInv, HostOK
  <1> QED
    BY <1>1 DEF IInv

LEMMA HostStays ==
  ASSUME IInv, UNCHANGED <<hostVars, requests, made>>
  PROVE  HostOK' /\ made <= made'
  BY BoundsNat DEF IInv, HostOK, hostVars, storeVars, Id

LEMMA Typed ==
  ASSUME IInv, NEW c \in Callers
  PROVE  calls[c] \in Sound(made) /\ calls[c] \in CallRecords
  BY DEF IInv, Sound

(* A command that ends tells of what is staged. *)
LEMMA EndsInv ==
  ASSUME IInv, HostOK', made <= made', NEW c \in Callers, NEW s \in SUBSET Words,
         calls[c].staged => "staged" \in s, Ends(c, s)
  PROVE  IInv'
  <1> DEFINE r == [NoCall EXCEPT !.at = "done", !.says = s, !.staged = calls[c].staged]
  <1>1. made' \in Nat
    BY BoundsNat DEF HostOK
  <1>2. PICK b \in BOOLEAN : b = calls[c].staged
    <2>1. PICK q \in CallRecords : q = calls[c]
      BY Typed
    <2>2. q.staged \in BOOLEAN
      BY DEF CallRecords
    <2> QED
      BY <2>1, <2>2
  <1>3. r \in CallRecords
    BY <1>2, NoCallTyped DEF CallRecords, Places, Words
  <1>4. r.id = 0 /\ r.at = "done" /\ r.checkout = NoPr /\ r.says = s /\ r.staged = b
    BY <1>2 DEF NoCall
  <1> HIDE DEF r
  <1>5. r \in Sound(made')
    BY <1>1, <1>2, <1>3, <1>4 DEF Sound
  <1> QED
    BY <1>5, CallMoves DEF Ends, r

(* Nothing is staged before a chat. *)
LEMMA NothingStaged ==
  ASSUME IInv, NEW c \in Callers, calls[c].at \notin Open \cup {"done"}
  PROVE  ~calls[c].staged /\ calls[c].checkout = NoPr
  BY Typed DEF Sound

LEMMA RequestFailsInv ==
  ASSUME IInv, NEW c \in Callers, RequestFails(c)
  PROVE  IInv'
  <1>1. ~calls[c].staged
    BY NothingStaged DEF RequestFails, Requesting, Open
  <1>2. UNCHANGED requests /\ Ends(c, {"error"}) /\ HostOK
    BY DEF RequestFails, IInv
  <1>3. HostOK' /\ made <= made'
    <2>1. CASE UNCHANGED <<hostVars, made>>
      BY <1>2, <2>1, HostStays
    <2>2. CASE Create(calls[c].target)
      BY <1>2, <2>2, CreateOK, Typed DEF CallRecords
    <2>3. CASE Create(NoPr)
      BY <1>2, <2>3, CreateOK
    <2>4. CASE Clear /\ UNCHANGED made
      BY <1>2, <2>4, ClearOK, BoundsNat DEF HostOK
    <2> QED
      BY <2>1, <2>2, <2>3, <2>4 DEF RequestFails
  <1> QED
    BY <1>1, <1>2, <1>3, EndsInv DEF Words

LEMMA StartInv ==
  ASSUME IInv, NEW c \in Callers, Start(c)
  PROVE  IInv'
  <1>1. ~calls[c].staged
    BY NothingStaged DEF Start, At, Open
  <1>2. HostOK' /\ made <= made'
    BY CreateOK, Typed DEF Start, IInv, CallRecords
  <1> QED
    BY <1>1, <1>2, EndsInv DEF Start, Words

LEMMA ResetInv ==
  ASSUME IInv, NEW c \in Callers, Reset(c)
  PROVE  IInv'
  <1>1. ~calls[c].staged
    BY NothingStaged DEF Reset, At, Open
  <1>2. HostOK' /\ made <= made'
    BY ClearOK, HostStays, BoundsNat DEF Reset, IInv, HostOK
  <1>3. PICK s \in {{"ok"}, {"error"}} : Ends(c, s)
    BY DEF Reset
  <1> QED
    BY <1>1, <1>2, <1>3, EndsInv DEF Words

LEMMA DiagnoseInv ==
  ASSUME IInv, NEW c \in Callers, Diagnose(c)
  PROVE  IInv'
  <1>1. ~calls[c].staged /\ calls[c].checkout = NoPr /\ calls[c] \in CallRecords
    BY NothingStaged, Typed DEF Diagnose, At, Open
  <1>2. HostOK' /\ made <= made'
    BY CreateOK DEF Diagnose, IInv
  <1>3. CASE made = MaxMade
    BY <1>1, <1>2, <1>3, EndsInv DEF Diagnose, Words
  <1>4. CASE made # MaxMade
    <2> DEFINE r == [calls[c] EXCEPT !.id = nextId + 1, !.at = "wait"]
    <2>1. calls' = [calls EXCEPT ![c] = r] /\ nextId' = nextId + 1
      BY <1>4 DEF Diagnose, Create
    <2>2. nextId + 1 \in 0..made' /\ made' \in 0..MaxMade
      BY <1>2, <2>1 DEF HostOK
    <2>3. r \in CallRecords
      <3>1. PICK q \in CallRecords : q = calls[c]
        BY <1>1
      <3>2. nextId + 1 \in Nat
        BY <2>2
      <3> QED
        BY <3>1, <3>2 DEF CallRecords, Places, Requesting
    <2>4. /\ r.id = nextId + 1 /\ r.at = "wait" /\ r.checkout = calls[c].checkout
          /\ r.staged = calls[c].staged
      BY <1>1 DEF CallRecords
    <2> HIDE DEF r
    <2>5. r \in Sound(made')
      BY <1>1, <2>2, <2>3, <2>4 DEF Sound
    <2> QED
      BY <1>2, <2>1, <2>5, CallMoves DEF r
  <1> QED
    BY <1>3, <1>4

LEMMA RunInv ==
  ASSUME IInv, NEW c \in Callers, NEW cmd \in Commands, NEW pr \in Prs \cup {NoPr},
         NEW i \in Id \cup {0}, Run(c, cmd, pr, i)
  PROVE  IInv'
  <1> DEFINE r == [NoCall EXCEPT !.cmd = cmd, !.target = pr, !.id = i, !.at = FirstStep(cmd)]
  <1>1. HostOK' /\ made <= made' /\ calls' = [calls EXCEPT ![c] = r]
    BY HostStays DEF Run
  <1>2. i \in 0..made' /\ made' \in 0..MaxMade
    BY <1>1, BoundsNat DEF Run, IInv, HostOK
  <1>3. FirstStep(cmd) \in Requesting
    BY ParametersOK DEF FirstStep, Requesting
  <1>4. r \in CallRecords
    <2>1. PICK p \in Requesting : p = FirstStep(cmd)
      BY <1>3
    <2>2. i \in Nat
      BY <1>2
    <2> QED
      BY <2>1, <2>2, NoCallTyped DEF CallRecords, Places
  <1>5. r.id = i /\ r.at \in Requesting /\ r.checkout = NoPr /\ r.staged = FALSE
    BY <1>3 DEF NoCall
  <1> HIDE DEF r
  <1>6. r \in Sound(made')
    BY <1>2, <1>4, <1>5 DEF Sound, Requesting
  <1> QED
    BY <1>1, <1>6, CallMoves DEF r

(* Only a command's own record changes. *)
LEMMA OwnMove ==
  ASSUME IInv, UNCHANGED <<hostVars, requests, made>>, NEW c \in Callers,
         NEW r \in Sound(made), calls' = [calls EXCEPT ![c] = r]
  PROVE  IInv'
  <1>1. HostOK' /\ made' = made /\ made <= made'
    BY HostStays
  <1> QED
    BY <1>1, CallMoves

LEMMA OwnEnd ==
  ASSUME IInv, UNCHANGED <<hostVars, requests, made>>, NEW c \in Callers,
         NEW s \in SUBSET Words, calls[c].staged => "staged" \in s, Ends(c, s)
  PROVE  IInv'
  BY HostStays, EndsInv

LEMMA ListInv ==
  ASSUME IInv, NEW c \in Callers, RequestsArrive(c) \/ ListArrives(c)
  PROVE  IInv'
  <1>1. PICK q \in Sound(made) : q = calls[c] /\ q \in CallRecords
    BY Typed
  <1>2. ~q.staged /\ q.checkout = NoPr
    BY <1>1, NothingStaged DEF RequestsArrive, ListArrives, At, Open
  <1>3. PICK o \in SUBSET Prs, p \in {"done", "activities"} :
          calls' = [calls EXCEPT ![c] = [q EXCEPT !.offered = o, !.at = p]]
    <2>1. CASE RequestsArrive(c)
      <3>1. calls' = [calls EXCEPT ![c] = [q EXCEPT !.offered = requests,
                        !.at = IF q.cmd = "requested" THEN "done" ELSE "activities"]]
        BY <1>1, <2>1 DEF RequestsArrive
      <3>2. requests \in SUBSET Prs
        BY DEF IInv, HostOK
      <3> QED
        BY <3>1, <3>2
    <2>2. CASE ListArrives(c)
      <3>1. PICK busy : calls' = [calls EXCEPT ![c] = [q EXCEPT !.offered = q.offered \ busy,
                                                                !.at = "done"]]
        BY <1>1, <2>2 DEF ListArrives
      <3>2. q.offered \ busy \in SUBSET Prs
        BY <1>1 DEF CallRecords
      <3> QED
        BY <3>1, <3>2
    <2> QED
      BY <2>1, <2>2
  <1> DEFINE r == [q EXCEPT !.offered = o, !.at = p]
  <1>4. r \in CallRecords
    BY <1>1 DEF CallRecords, Places, Requesting
  <1>5. r.id = q.id /\ r.at = p /\ r.checkout = q.checkout /\ r.staged = q.staged
    BY <1>1 DEF CallRecords
  <1> HIDE DEF r
  <1>6. r \in Sound(made)
    BY <1>2, <1>4, <1>5 DEF Sound
  <1>7. UNCHANGED <<hostVars, requests, made>>
    BY DEF RequestsArrive, ListArrives
  <1> QED
    BY <1>3, <1>6, <1>7, OwnMove DEF r

-------------------------------------------------------------------------------
(* The chat *)

LEMMA ChatResolvesInv ==
  ASSUME IInv, NEW c \in Callers, ChatResolves(c)
  PROVE  IInv'
  <1>1. PICK q \in Sound(made) : q = calls[c] /\ q \in CallRecords
    BY Typed
  <1>2. ~q.staged /\ q.checkout = NoPr
    BY <1>1, NothingStaged DEF ChatResolves, At, Open
  <1>3. UNCHANGED <<hostVars, requests, made>>
    BY DEF ChatResolves
  <1>4. CASE Ends(c, {"error"})
    BY <1>1, <1>2, <1>3, <1>4, OwnEnd DEF Words
  <1>5. CASE \E i \in Resolve(c) : Resumable(i)
    <2>1. PICK i \in Resolve(c) :
            calls' = [calls EXCEPT ![c] = [q EXCEPT !.id = i, !.picked = records[i], !.at = "prepare"]]
      BY <1>1, <1>5 DEF ChatResolves
    <2>2. i \in Id
      <3>1. \A j, k \in Resolve(c) : j = k
        BY DEF Resolve
      <3> QED
        BY <1>5, <3>1 DEF Resumable
    <2>3. PICK w \in Records : w = records[i]
      BY <2>2 DEF IInv, HostOK
    <2>4. i \in Nat /\ i <= made
      BY <2>2, BoundsNat DEF IInv, HostOK
    <2> DEFINE r == [q EXCEPT !.id = i, !.picked = w, !.at = "prepare"]
    <2>5. r \in CallRecords
      BY <1>1, <2>4 DEF CallRecords, Places, Requesting
    <2>6. r.id = i /\ r.at = "prepare" /\ r.checkout = q.checkout /\ r.staged = q.staged
      BY <1>1 DEF CallRecords
    <2> HIDE DEF r
    <2>7. r \in Sound(made)
      BY <1>2, <2>4, <2>5, <2>6 DEF Sound
    <2> QED
      BY <1>3, <2>1, <2>3, <2>7, OwnMove DEF r
  <1> QED
    BY <1>4, <1>5 DEF ChatResolves

(* The checkout of a chat is the one of the activity it picked. *)
LEMMA ChatPreparesInv ==
  ASSUME IInv, NEW c \in Callers, ChatPrepares(c)
  PROVE  IInv'
  <1>1. PICK q \in Sound(made) : q = calls[c] /\ q \in CallRecords
    BY Typed
  <1>2. ~q.staged
    BY <1>1, NothingStaged DEF ChatPrepares, Prepared, At, Open
  <1>3. UNCHANGED <<hostVars, requests, made>>
    BY DEF ChatPrepares, Prepared
  <1>4. CASE Ends(c, {"error"})
    BY <1>1, <1>2, <1>3, <1>4, OwnEnd DEF Words
  <1>5. CASE ~Ends(c, {"error"})
    <2>1. /\ calls' = [calls EXCEPT ![c] = [q EXCEPT !.checkout = records[q.id].pr, !.at = "chat"]]
          /\ q.id \in Id /\ IsReview(records[q.id]) /\ records[q.id].pr = q.picked.pr
      BY <1>1, <1>5 DEF ChatPrepares, Prepared, Resumable
    <2>2. PICK w \in Records : w = records[q.id]
      BY <2>1 DEF IInv, HostOK
    <2>3. w.pr \in Prs \cup {NoPr}
      BY DEF Records
    <2> DEFINE r == [q EXCEPT !.checkout = w.pr, !.at = "chat"]
    <2>4. r \in CallRecords
      BY <1>1, <2>3 DEF CallRecords, Places
    <2>5. /\ r.id = q.id /\ r.at = "chat" /\ r.checkout = w.pr /\ r.picked = q.picked
          /\ r.staged = q.staged
      BY <1>1 DEF CallRecords
    <2>6. q.id <= made
      BY DEF Sound
    <2> HIDE DEF r
    <2>7. r \in Sound(made)
      BY <1>2, <2>1, <2>2, <2>4, <2>5, <2>6 DEF Sound, Open
    <2> QED
      BY <1>3, <2>1, <2>2, <2>7, OwnMove DEF r
  <1> QED
    BY <1>4, <1>5

Placed(q, p, e, b) == [q EXCEPT !.error = e, !.at = p, !.staged = b]

LEMMA PlaceTyped ==
  ASSUME NEW q \in CallRecords, NEW p \in Places, NEW e \in {"none", "error", "missing"},
         NEW b \in BOOLEAN
  PROVE  /\ Placed(q, p, e, b) \in CallRecords
         /\ Placed(q, p, e, b).id = q.id
         /\ Placed(q, p, e, b).at = p
         /\ Placed(q, p, e, b).checkout = q.checkout
         /\ Placed(q, p, e, b).picked = q.picked
  BY DEF CallRecords, Placed

(* A chat goes from one place to the next with its checkout and what is staged. *)
LEMMA ChatGoesOn ==
  ASSUME IInv, UNCHANGED <<hostVars, requests, made>>, NEW c \in Callers, calls[c].at \in Open,
         NEW p \in Open \ {"save"}, NEW e \in {"none", "error", "missing"}, NEW b \in BOOLEAN,
         calls' = [calls EXCEPT ![c] = Placed(calls[c], p, e, b)]
  PROVE  IInv'
  <1>1. PICK q \in Sound(made) : q = calls[c] /\ q \in CallRecords
    BY Typed
  <1> PICK r : r = Placed(q, p, e, b)
    OBVIOUS
  <1>2. p \in Places
    BY DEF Open, Places
  <1>3. /\ r \in CallRecords
        /\ r.id = q.id /\ r.at = p /\ r.checkout = q.checkout /\ r.picked = q.picked
    BY <1>1, <1>2, PlaceTyped
  <1>4. r \in Sound(made)
    BY <1>1, <1>3 DEF Sound, Open
  <1> QED
    BY <1>1, <1>4, OwnMove

LEMMA ToolsInv ==
  ASSUME IInv, NEW c \in Callers, Stage(c) \/ Publish(c) \/ ProviderEnds(c)
  PROVE  IInv'
  <1>1. PICK q \in CallRecords : q = calls[c]
    BY Typed
  <1>2. q.staged \in BOOLEAN /\ q.error \in {"none", "error", "missing"} /\ q.at = "chat"
    BY <1>1 DEF CallRecords, Stage, Publish, ProviderEnds, InChat, At
  <1>3. UNCHANGED <<hostVars, requests, made>>
    BY DEF Stage, Publish, ProviderEnds
  <1>4. PICK p \in Open \ {"save"}, e \in {"none", "error", "missing"}, b \in BOOLEAN :
          calls' = [calls EXCEPT ![c] = Placed(q, p, e, b)]
    <2>1. CASE Stage(c) \/ Publish(c)
      <3>1. PICK b \in BOOLEAN : calls' = [calls EXCEPT ![c] = [q EXCEPT !.staged = b]]
        BY <1>1, <2>1 DEF Stage, Publish
      <3>2. [q EXCEPT !.staged = b] = Placed(q, "chat", q.error, b)
        BY <1>2 DEF CallRecords, Placed
      <3> QED
        BY <1>2, <3>1, <3>2 DEF Open
    <2>2. CASE ProviderEnds(c)
      <3>1. PICK p \in {"count", "clear"}, e \in {"none", "error", "missing"} :
              calls' = [calls EXCEPT ![c] = [q EXCEPT !.error = e, !.at = p]]
        BY <1>1, <2>2 DEF ProviderEnds
      <3>2. [q EXCEPT !.error = e, !.at = p] = Placed(q, p, e, q.staged)
        BY DEF CallRecords, Placed
      <3> QED
        BY <1>2, <3>1, <3>2 DEF Open
    <2> QED
      BY <2>1, <2>2
  <1> QED
    BY <1>1, <1>2, <1>3, <1>4, ChatGoesOn DEF Open

LEMMA ClearGetsInv ==
  ASSUME IInv, NEW c \in Callers, ClearGets(c)
  PROVE  IInv'
  <1>1. PICK q \in Sound(made) : q = calls[c] /\ q \in CallRecords
    BY Typed
  <1>2. UNCHANGED <<hostVars, requests, made>> /\ q.at = "clear"
    BY <1>1 DEF ClearGets, At
  <1>3. CASE q.id \in Id
    <2>1. PICK w \in Records : w = records[q.id]
      BY <1>3 DEF IInv, HostOK
    <2> DEFINE k == [w EXCEPT !.session = NoSession]
               r == [q EXCEPT !.copy = k, !.at = "save"]
    <2>2. calls' = [calls EXCEPT ![c] = r]
      BY <1>1, <1>3, <2>1 DEF ClearGets
    <2>3. k \in Records
      BY DEF Records, NoSession
    <2>4. q.id # 0
      BY <1>3, BoundsNat DEF IInv, HostOK
    <2> HIDE DEF k
    <2>5. r \in CallRecords
      BY <1>1, <2>3 DEF CallRecords, Places
    <2>6. /\ r.id = q.id /\ r.at = "save" /\ r.checkout = q.checkout /\ r.picked = q.picked
          /\ r.staged = q.staged
      BY <1>1 DEF CallRecords
    <2> HIDE DEF r
    <2>7. r \in Sound(made)
      BY <2>4, <2>5, <2>6 DEF Sound, Open
    <2> QED
      BY <1>2, <2>2, <2>7, OwnMove
  <1>4. CASE q.id \notin Id
    <2>1. q.staged \in BOOLEAN /\ q.error \in {"none", "error", "missing"}
      BY <1>1 DEF CallRecords
    <2>2. calls' = [calls EXCEPT ![c] = [q EXCEPT !.at = "count"]]
      BY <1>1, <1>4 DEF ClearGets, Goes
    <2>3. [q EXCEPT !.at = "count"] = Placed(q, "count", q.error, q.staged)
      BY <1>1 DEF CallRecords, Placed
    <2>4. PICK e \in {"none", "error", "missing"}, b \in BOOLEAN : e = q.error /\ b = q.staged
      BY <2>1
    <2>5. calls' = [calls EXCEPT ![c] = Placed(calls[c], "count", e, b)]
      BY <1>1, <2>2, <2>3, <2>4
    <2> QED
      BY <1>1, <1>2, <2>5, ChatGoesOn DEF Open
  <1> QED
    BY <1>3, <1>4

(* What is saved beside the host has an id that was handed out. *)
LEMMA ClearSavesInv ==
  ASSUME IInv, NEW c \in Callers, ClearSaves(c)
  PROVE  IInv'
  <1>1. PICK q \in Sound(made) : q = calls[c] /\ q \in CallRecords
    BY Typed
  <1>2. q.at = "save" /\ q.id \in 1..made /\ made \in 0..MaxMade
    <2>1. q.at = "save" /\ made \in 0..MaxMade
      BY <1>1 DEF ClearSaves, At, IInv, HostOK
    <2>2. q.id \in Nat
      BY <1>1 DEF CallRecords
    <2>3. q.id # 0 /\ q.id <= made
      BY <2>1 DEF Sound
    <2> QED
      BY <2>1, <2>2, <2>3, BoundsNat
  <1>3. q.copy \in Records /\ q.staged \in BOOLEAN /\ q.error \in {"none", "error", "missing"}
    BY <1>1 DEF CallRecords
  <1>4. UNCHANGED <<nextId, requests, made>> /\ Save(q.id, q.copy)
    BY <1>1 DEF ClearSaves
  <1>5. Id' \subseteq 1..made /\ records' \in [Id' -> Records]
    BY <1>2, <1>3, <1>4, SaveOK, BoundsNat DEF IInv
  <1>6. HostOK' /\ made <= made'
    BY <1>2, <1>4, <1>5, BoundsNat DEF IInv, HostOK
  <1> PICK r : r = Placed(q, "count", q.error, q.staged)
    OBVIOUS
  <1>7. calls' = [calls EXCEPT ![c] = r]
    <2>1. calls' = [calls EXCEPT ![c] = [q EXCEPT !.at = "count"]]
      BY <1>1 DEF ClearSaves, Goes
    <2>2. [q EXCEPT !.at = "count"] = Placed(q, "count", q.error, q.staged)
      BY <1>1 DEF CallRecords, Placed
    <2> QED
      BY <2>1, <2>2
  <1>8. /\ r \in CallRecords
        /\ r.id = q.id /\ r.at = "count" /\ r.checkout = q.checkout /\ r.picked = q.picked
    <2>1. "count" \in Places
      BY DEF Places
    <2> QED
      BY <1>1, <1>3, <2>1, PlaceTyped
  <1>9. r \in Sound(made')
    BY <1>2, <1>4, <1>8 DEF Sound, Open
  <1> QED
    BY <1>6, <1>7, <1>9, CallMoves

LEMMA CountInv ==
  ASSUME IInv, NEW c \in Callers, Count(c)
  PROVE  IInv'
  <1>1. PICK q \in CallRecords : q = calls[c]
    BY Typed
  <1>2. q.error \in {"none", "error", "missing"}
    BY DEF CallRecords
  <1> DEFINE all == Problems(c) \cup Left(c)
             s == IF all = {} THEN {"ok"} ELSE all
  <1>3. Ends(c, s) /\ UNCHANGED <<hostVars, requests, made>>
    BY DEF Count
  <1>4. s \in SUBSET Words
    BY <1>1, <1>2 DEF Problems, Left, Words
  <1>5. calls[c].staged => "staged" \in s
    BY DEF Left
  <1> HIDE DEF s
  <1> QED
    BY <1>3, <1>4, <1>5, OwnEnd

LEMMA WaitInv ==
  ASSUME IInv, NEW c \in Callers, Poll(c) \/ Deadline(c)
  PROVE  IInv'
  <1>1. ~calls[c].staged
    BY NothingStaged DEF Poll, Deadline, At, Open
  <1>2. PICK w \in Words : Ends(c, {w})
    BY DEF Poll, Deadline, Words
  <1>3. UNCHANGED <<hostVars, requests, made>>
    BY DEF Poll, Deadline
  <1> QED
    BY <1>1, <1>2, <1>3, OwnEnd

-------------------------------------------------------------------------------
(* The theorems *)

(* The host goes on: no command moves. *)
LEMMA HostInv ==
  ASSUME IInv,
         \/ \E pr \in Prs : HostEnqueue(pr) \/ AskForReview(pr)
         \/ HostRestart
         \/ \E i \in Id : HostBegin(i) \/ HostEnd(i) \/ LoseSession(records[i].session)
         \/ UNCHANGED vars
  PROVE  IInv'
  <1>1. ASSUME NEW pr \in Prs, HostEnqueue(pr)
        PROVE  HostOK' /\ made <= made' /\ UNCHANGED calls
    BY <1>1, CreateOK DEF HostEnqueue, IInv
  <1>2. ASSUME NEW pr \in Prs, AskForReview(pr)
        PROVE  HostOK' /\ made <= made' /\ UNCHANGED calls
    BY <1>2, BoundsNat DEF AskForReview, IInv, HostOK, hostVars, storeVars, Id
  <1>3. ASSUME HostRestart
        PROVE  HostOK' /\ made <= made' /\ UNCHANGED calls
    BY <1>3, RestartOK, BoundsNat DEF HostRestart, IInv, HostOK
  <1>4. ASSUME NEW i \in Id, HostBegin(i) \/ HostEnd(i)
        PROVE  HostOK' /\ made <= made' /\ UNCHANGED calls
    <2>1. PICK w \in Records : w = records[i]
      BY DEF IInv, HostOK
    <2>2. PICK st \in {"Running", "Ended"} : Save(i, [w EXCEPT !.status = st])
      BY <1>4, <2>1 DEF HostBegin, HostEnd
    <2>3. [w EXCEPT !.status = st] \in Records
      BY DEF Records
    <2>4. HostOK /\ i \in 1..made /\ made \in 0..MaxMade /\ made <= made
      <3>1. HostOK
        BY DEF IInv
      <3>2. i \in 1..made /\ made \in 0..MaxMade
        BY <3>1 DEF HostOK
      <3> QED
        BY <3>1, <3>2, BoundsNat
    <2>5. Id' \subseteq 1..made /\ records' \in [Id' -> Records]
      BY <2>2, <2>3, <2>4, SaveOK
    <2>6. UNCHANGED <<nextId, requests, made, calls>>
      BY <1>4 DEF HostBegin, HostEnd
    <2> QED
      BY <2>4, <2>5, <2>6 DEF HostOK
  <1>5. ASSUME UNCHANGED <<hostVars, requests, made, calls>>
        PROVE  HostOK' /\ made <= made' /\ UNCHANGED calls
    BY <1>5, HostStays
  <1> QED
    BY <1>1, <1>2, <1>3, <1>4, <1>5, CallsStay DEF LoseSession, vars

LEMMA InitInv == Init => IInv
  <1> SUFFICES ASSUME Init PROVE IInv
    OBVIOUS
  <1>1. Id = {} /\ records \in [{} -> Records]
    BY DEF Init, Id
  <1>2. HostOK
    BY <1>1, BoundsNat DEF Init, HostOK
  <1> QED
    BY <1>2, NoCallSound DEF Init, IInv

LEMMA NextInv ==
  ASSUME IInv, [Next]_vars
  PROVE  IInv'
  <1>1. ASSUME NEW c \in Callers, Step(c) \/ Stage(c) \/ Publish(c) PROVE IInv'
    BY <1>1, RequestFailsInv, StartInv, ResetInv, ListInv, ChatResolvesInv, ChatPreparesInv,
       ToolsInv, ClearGetsInv, ClearSavesInv, CountInv, DiagnoseInv, WaitInv DEF Step
  <1>2. ASSUME NEW c \in Callers, NEW cmd \in Commands, NEW pr \in Prs \cup {NoPr},
               NEW i \in Id \cup {0}, Run(c, cmd, pr, i)
        PROVE  IInv'
    BY <1>2, RunInv
  <1> QED
    BY <1>1, <1>2, HostInv DEF Next

(* The strengthened invariant always holds.                                *)
THEOREM StrongInvariant == Spec => []IInv
  BY InitInv, NextInv, PTL DEF Spec

(* `review chat`: whatever the host, the reset and other commands do in    *)
(* between, a chat works in the checkout of the pull request it was asked  *)
(* for, and tells of staged work when it ends.                             *)
THEOREM ChatAlwaysKeepsItsWord == Spec => []ChatKeepsItsWord
  <1>1. IInv => ChatKeepsItsWord
    BY Typed DEF Sound, ChatKeepsItsWord, StaysOnItsPr, StagedWorkIsReported, At
  <1> QED
    BY <1>1, StrongInvariant, PTL

(* With no more activities than the query's limit the page has all of      *)
(* those that are queued or running.                                       *)
LEMMA PageShowsAll ==
  ASSUME IInv, MaxMade <= InboxLimit, NEW i \in Id, IsReview(records[i]), Active(records[i])
  PROVE  i \in Listed("active", InboxLimit)
  <1> DEFINE matching == {j \in Id : IsReview(records[j]) /\ Matches(records[j], "active")}
             later == {j \in matching \ {i} : Position(j) > Position(i)}
  <1>1. i \in matching
    BY DEF Matches
  <1>2. later \subseteq 1..made \ {i} /\ i \in 1..made /\ made \in Nat /\ made <= MaxMade
    <2>1. made \in 0..MaxMade /\ Id \subseteq 1..made
      BY DEF IInv, HostOK
    <2>2. made \in Nat /\ made <= MaxMade
      BY <2>1, BoundsNat
    <2> QED
      BY <2>1, <2>2
  <1>3. IsFiniteSet(1..made) /\ Cardinality(1..made) = made
    BY <1>2, FS_Interval
  <1>4. IsFiniteSet(1..made \ {i}) /\ Cardinality(1..made \ {i}) = made - 1
    BY <1>2, <1>3, FS_RemoveElement
  <1>5. Cardinality(later) <= made - 1 /\ Cardinality(later) \in Nat
    BY <1>2, <1>4, FS_Subset, FS_CardinalityType
  <1>6. Cardinality(later) < InboxLimit
    BY <1>2, <1>5, BoundsNat
  <1>7. InboxLimit # 0
    BY <1>2, BoundsNat
  <1> QED
    BY <1>1, <1>6, <1>7 DEF Listed

LEMMA OthersStay ==
  ASSUME IInv, NEW c \in Callers, NEW d \in Callers \ {c}, Step(d) \/ Stage(d) \/ Publish(d)
  PROVE  calls'[c] = calls[c]
  <1>1. calls \in [Callers -> Sound(made)]
    BY DEF IInv
  <1>2. ASSUME NEW s, Ends(d, s) PROVE calls'[c] = calls[c]
    BY <1>1, <1>2 DEF Ends
  <1>3. CASE RequestFails(d) \/ Start(d) \/ Reset(d) \/ Count(d) \/ Poll(d) \/ Deadline(d)
    BY <1>2, <1>3 DEF RequestFails, Start, Reset, Count, Poll, Deadline
  <1>4. CASE RequestsArrive(d) \/ ListArrives(d) \/ Stage(d) \/ Publish(d) \/ ProviderEnds(d)
    BY <1>1, <1>4 DEF RequestsArrive, ListArrives, Stage, Publish, ProviderEnds
  <1>5. CASE ChatResolves(d) \/ ChatPrepares(d) \/ Diagnose(d)
    BY <1>1, <1>2, <1>5 DEF ChatResolves, ChatPrepares, Prepared, Diagnose
  <1>6. CASE ClearGets(d) \/ ClearSaves(d)
    BY <1>1, <1>6 DEF ClearGets, ClearSaves, Goes
  <1> QED
    BY <1>3, <1>4, <1>5, <1>6 DEF Step

(* A list that has come to an end without an error got its answer. *)
LEMMA OnlyTheAnswerEnds ==
  ASSUME IInv, Next, NEW c \in Callers, calls[c].cmd = "inbox", At(c, "activities"),
         calls'[c].at = "done", "error" \notin calls'[c].says
  PROVE  ListArrives(c)
  <1>1. calls \in [Callers -> Sound(made)] /\ calls'[c] # calls[c]
    BY DEF IInv, At
  <1>2. ~UNCHANGED calls
    BY <1>1
  <1>3. ASSUME NEW d \in Callers, NEW cmd, NEW pr, NEW i, Run(d, cmd, pr, i) PROVE FALSE
    BY <1>1, <1>3 DEF Run, At
  <1>4. PICK d \in Callers : Step(d) \/ Stage(d) \/ Publish(d)
    BY <1>2, <1>3 DEF Next, HostEnqueue, AskForReview, HostRestart, HostBegin, HostEnd, LoseSession
  <1>5. d = c
    BY <1>1, <1>4, OthersStay
  <1>6. ~Ends(c, {"error"})
    <2>1. \A b, e : [NoCall EXCEPT !.at = "done", !.says = e, !.staged = b].says = e
      BY DEF NoCall
    <2> SUFFICES ASSUME Ends(c, {"error"}) PROVE FALSE
      OBVIOUS
    <2>2. calls'[c] = [NoCall EXCEPT !.at = "done", !.says = {"error"}, !.staged = calls[c].staged]
      BY <1>1 DEF Ends
    <2>3. calls'[c].says = {"error"}
      BY <2>1, <2>2
    <2> QED
      BY <2>3
  <1>7. ~RequestFails(c) /\ ~ChatResolves(c)
    BY <1>6 DEF RequestFails, ChatResolves
  <1> QED
    BY <1>4, <1>5, <1>7 DEF Step, Stage, Publish, InChat, At, Start, Reset, RequestsArrive,
       ChatPrepares, Prepared, ProviderEnds, ClearGets, ClearSaves, Count, Diagnose, Poll, Deadline

(* `review list` of the inbox, format_review_list: as long as there are    *)
(* not more activities than the query's limit (1000 in the code), no       *)
(* request is offered whose pull request has a review queued or running on *)
(* the host as it answers, whatever --limit says.                          *)
THEOREM InboxNeverOffersWhatIsUnderReview ==
  ASSUME MaxMade <= InboxLimit
  PROVE  Spec => InboxOffersNothingUnderReview
  <1> DEFINE A == \A c \in Callers :
                    (calls[c].cmd = "inbox" /\ At(c, "activities") /\ calls'[c].at = "done"
                       /\ "error" \notin calls'[c].says)
                      => \A i \in Id : Active(records[i]) => records[i].pr \notin calls'[c].offered
  <1>1. IInv /\ [Next]_vars => [A]_vars
    <2> SUFFICES ASSUME IInv, IInv', Next, NEW c \in Callers, calls[c].cmd = "inbox",
                        At(c, "activities"), calls'[c].at = "done", "error" \notin calls'[c].says,
                        NEW i \in Id, Active(records[i])
                 PROVE  records[i].pr \notin calls'[c].offered
      BY NextInv
    <2>1. ListArrives(c)
      BY OnlyTheAnswerEnds
    <2>2. PICK q \in CallRecords : q = calls[c]
      BY Typed
    <2> DEFINE listed == Listed("active", InboxLimit)
               busy == {records[j].pr : j \in {k \in listed : Active(records[k])}}
    <2>3. calls'[c].offered = q.offered \ busy
      BY <2>1, <2>2 DEF ListArrives, Status, QueryLimit, IInv, CallRecords
    <2>4. CASE IsReview(records[i])
      <3>1. i \in listed
        BY <2>4, PageShowsAll
      <3> QED
        BY <2>3, <3>1
    <2>5. CASE ~IsReview(records[i])
      <3>1. q.offered \subseteq Prs
        BY DEF CallRecords
      <3> QED
        BY <2>3, <2>5, <3>1, ParametersOK DEF IsReview
    <2> QED
      BY <2>4, <2>5
  <1> QED
    BY <1>1, StrongInvariant, PTL DEF Spec, InboxOffersNothingUnderReview
================================================================================

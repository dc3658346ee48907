-------------------------- MODULE ReviewSessionProofs --------------------------
(***************************************************************************)
(* Theorems about ReviewSession for every set of calls and comments: what  *)
(* a tool call accepted is not lost, a review returns what it was told,    *)
(* no comment is in two batches, and the file goes through the states of   *)
(* ActiveSession.                                                          *)
(***************************************************************************)
EXTENDS ReviewSession, TLAPS

USE DEF callVars, reviewVars, hostVars

-----------------------------------------------------------------------------
(* The inductive invariant                                                 *)

Is(c, tool) == op[c] # None /\ op[c].tool = tool
Asked(tool) == {c \in Calls : Is(c, tool)}
Named == (Robot \cup Calls) \cap {op[c].id : c \in Asked("delete")}

\* Additions whose file has been written, whatever became of the call.
Added == {c \in Asked("add") \cap Valid : pc[c] \in {"accepted", "ok", "error"}}

Loaded == {"update", "asked"}
Holding == Loaded \cup {"write", "accepted", "refused"}

Types ==
  /\ TypeOK
  /\ \A c \in Calls : /\ pc[c] = "idle" <=> op[c] = None
                      /\ pc[c] \in Loaded \cup {"write"} => copy[c] \in State

\* The file is there until the end of the review or the chat.
Phases ==
  /\ file = None <=> phase \in {"returned", "failed", "ended"}
  /\ phase = "deleting" => file.finished /\ output = file.adds

\* One call is between its load and its answer; while the file is there it
\* has the lock.
Mutex ==
  /\ \A c, d \in Calls : pc[c] \in Holding /\ pc[d] \in Holding => c = d
  /\ \A c \in Calls : file # None /\ pc[c] \in Holding => lock = c

\* What a session holds, in the file or in the copy of a call.
Sound(s) ==
  /\ s.adds \subseteq Added /\ s.dels \subseteq Named
  /\ s.finished => ~chat /\ Asked("finish") # {}
  /\ \A b \in Batches : claim[b] # None /\ claim[b].adds \cap s.adds # {} => b = s.batch
Sessions ==
  /\ file # None => Sound(file)
  /\ \A c \in Calls : pc[c] \in Loaded => Sound(copy[c])

\* A batch at the host is the one that a call asks it to finish.
Claims ==
  /\ \A b \in Batches : claim[b] # None =>
       claim[b].id = b /\ claim[b].adds \subseteq Added /\ claim[b].dels \subseteq Named
  /\ \A c \in Calls : pc[c] = "asked" =>
       chat /\ Is(c, "finish") /\ claim[copy[c].batch] = BatchOf(copy[c])
  /\ OneBatchPerComment

\* What a call writes: the file with the change its tool makes.
Receipt(c) ==
  /\ chat /\ file.batch \in committed /\ claim[file.batch] = BatchOf(file)
  /\ claim[copy[c].batch] = None
  /\ copy[c] = [file EXCEPT !.adds = {}, !.dels = {}, !.existing = copy[c].existing,
                            !.batch = copy[c].batch]
Change1(c) ==
  \/ Is(c, "add") /\ MayAdd(file, c) /\ copy[c] = [file EXCEPT !.adds = @ \cup {c}]
  \/ /\ Is(c, "delete") /\ Deletable(file, op[c].id)
     /\ copy[c] = [file EXCEPT !.dels = @ \cup {op[c].id}]
  \/ Is(c, "existing") /\ chat /\ copy[c] = [file EXCEPT !.existing = copy[c].existing]
  \/ Is(c, "existing") /\ copy[c] = file
  \/ Is(c, "finish") /\ ~chat /\ copy[c] = [file EXCEPT !.finished = TRUE]
  \/ Is(c, "finish") /\ chat /\ copy[c] = file
  \/ Is(c, "finish") /\ Receipt(c)
Changes == \A c \in Calls : file # None =>
  /\ pc[c] \in Loaded => copy[c] = file
  /\ pc[c] = "write" => Change1(c)

\* An accepted addition is where NothingAcceptedIsLost says, from the write on.
Kept == \A c \in Asked("add") : pc[c] \in {"accepted", "ok"} =>
  \/ phase \in {"failed", "ended"}
  \/ phase \in {"running", "exited", "deleting"} /\ c \in file.adds
  \/ phase = "returned" /\ c \in output
  \/ \E b \in committed : claim[b] # None /\ c \in claim[b].adds

\* What a review has read, and what has been removed.
Word ==
  /\ phase \in {"deleting", "returned"} =>
       Asked("finish") # {} /\ output \subseteq Asked("add") \cap Valid
  /\ todo \subseteq Named /\ \A b \in Batches : removed[b] \subseteq Named

IInv ==
  Types /\ Phases /\ Mutex /\ Sessions /\ Claims /\ Changes /\ Kept /\ Word

-----------------------------------------------------------------------------
(* What a step leaves alone                                                *)

CallAction(c) ==
  \/ Call(c) \/ Acquire(c) \/ AcquireFails(c) \/ AddComment(c) \/ DeleteDraft(c) \/ ListExisting(c)
  \/ FinishReview(c) \/ TakeReceipt(c) \/ HostCallFails(c) \/ Write(c) \/ Unlock(c)
Others == ToolDies \/ HostWork \/ Exit \/ ReadSession \/ DeleteOnGitHub \/ Return

\* A step is a call's, another's, or a stutter.
LEMMA Actions == [Next]_vars => (\E c \in Calls : CallAction(c)) \/ Others \/ UNCHANGED vars
  BY DEF Next, CallStep, CallAction, Others

\* The functions of the calls.
LEMMA Functions ==
    ASSUME Types
    PROVE  /\ pc \in [Calls -> Holding \cup {"idle", "lock", "ok", "error"}]
           /\ op \in [Calls -> Tools \cup {None}]
           /\ copy \in [Calls -> State \cup {None}]
           /\ claim \in [Batches -> Requests \cup {None}]
           /\ removed \in [Batches -> SUBSET Comments]
           /\ file \in State \cup {None}
  BY DEF Types, TypeOK, Active, Holding, Loaded

\* A call changes nothing of the others.
LEMMA Frame ==
    ASSUME Types, NEW c \in Calls, CallAction(c)
    PROVE  /\ \A d \in Calls \ {c} : pc'[d] = pc[d] /\ op'[d] = op[d] /\ copy'[d] = copy[d]
           /\ pc[c] # "idle" => op' = op
           /\ chat' = chat /\ phase' = phase /\ todo' = todo /\ output' = output
           /\ removed' = removed /\ committed' = committed
           /\ \A b \in Batches : claim[b] # None => claim'[b] = claim[b]
  <1>1. \A d \in Calls \ {c} : pc'[d] = pc[d]
    BY Functions DEF CallAction, Call, Acquire, AcquireFails, AddComment, DeleteDraft, ListExisting,
       FinishReview, TakeReceipt, HostCallFails, Write, Unlock, To
  <1>2. \A d \in Calls \ {c} : op'[d] = op[d]
    BY Functions DEF CallAction, Call, Acquire, AcquireFails, AddComment, DeleteDraft, ListExisting,
       FinishReview, TakeReceipt, HostCallFails, Write, Unlock
  <1>3. \A d \in Calls \ {c} : copy'[d] = copy[d]
    BY Functions DEF CallAction, Call, Acquire, AcquireFails, AddComment, DeleteDraft, ListExisting,
       FinishReview, TakeReceipt, HostCallFails, Write, Unlock, Change
  <1>4. pc[c] # "idle" => op' = op
    BY DEF CallAction, Call, Acquire, AcquireFails, AddComment, DeleteDraft, ListExisting,
       FinishReview, TakeReceipt, HostCallFails, Write, Unlock
  <1>5. /\ chat' = chat /\ phase' = phase /\ todo' = todo /\ output' = output
        /\ removed' = removed /\ committed' = committed
    BY DEF CallAction, Call, Acquire, AcquireFails, AddComment, DeleteDraft, ListExisting,
       FinishReview, TakeReceipt, HostCallFails, Write, Unlock, Host!Claim
  <1>6. \A b \in Batches : claim[b] # None => claim'[b] = claim[b]
    <2>1. CASE FinishReview(c)
      BY <2>1, Functions DEF FinishReview
    <2>2. CASE ~FinishReview(c)
      BY <2>2 DEF CallAction, Call, Acquire, AcquireFails, AddComment, DeleteDraft, ListExisting,
         TakeReceipt, HostCallFails, Write, Unlock
    <2> QED
      BY <2>1, <2>2
  <1> QED
    BY <1>1, <1>2, <1>3, <1>4, <1>5, <1>6

\* What has been asked, named and added stays so; claims and receipts are for good.
LEMMA Grows ==
    ASSUME Types, [Next]_vars
    PROVE  /\ chat' = chat
           /\ \A c \in Calls : pc[c] # "idle" => op'[c] = op[c] /\ pc'[c] # "idle"
           /\ \A c \in Calls : op[c] # None => op'[c] = op[c]
           /\ \A t \in {"add", "finish", "delete"} : Asked(t) \subseteq Asked(t)'
           /\ Named \subseteq Named' /\ Added \subseteq Added'
           /\ \A b \in Batches : claim[b] # None => claim'[b] = claim[b]
           /\ committed \subseteq committed'
  <1>1. /\ chat' = chat /\ committed \subseteq committed'
        /\ \A b \in Batches : claim[b] # None => claim'[b] = claim[b]
    <2>1. CASE \E c \in Calls : CallAction(c)
      BY <2>1, Frame
    <2>2. CASE Others \/ UNCHANGED vars
      BY <2>2 DEF Others, ToolDies, HostWork, Exit, ReadSession, DeleteOnGitHub, Return, vars,
         Host!Post, Host!Remove, Host!Commit
    <2> QED
      BY <2>1, <2>2, Actions
  <1>2. \A c \in Calls : /\ pc[c] # "idle" => op'[c] = op[c] /\ pc'[c] # "idle"
                         /\ pc[c] \in {"accepted", "ok", "error"} => pc'[c] \in {"accepted", "ok", "error"}
    <2>1. CASE \E c \in Calls : CallAction(c)
      <3>1. PICK c \in Calls : CallAction(c)
        BY <2>1
      <3>2. pc[c] # "idle" => pc'[c] # "idle"
        BY <3>1, Functions DEF CallAction, Call, Acquire, AcquireFails, AddComment, DeleteDraft,
           ListExisting, FinishReview, TakeReceipt, HostCallFails, Write, Unlock, To
      <3>3. pc[c] \in {"accepted", "ok", "error"} => pc'[c] \in {"accepted", "ok", "error"}
        BY <3>1, Functions DEF CallAction, Call, Acquire, AcquireFails, AddComment, DeleteDraft,
           ListExisting, FinishReview, TakeReceipt, HostCallFails, Write, Unlock, To
      <3> QED
        BY <3>1, <3>2, <3>3, Frame
    <2>2. CASE Others \/ UNCHANGED vars
      BY <2>2, Functions DEF Others, ToolDies, HostWork, Exit, ReadSession, DeleteOnGitHub, Return, vars
    <2> QED
      BY <2>1, <2>2, Actions
  <1>3. \A c \in Calls : op[c] # None => op'[c] = op[c]
    BY <1>2 DEF Types
  <1>4. \A t \in {"add", "finish", "delete"} : Asked(t) \subseteq Asked(t)'
    BY <1>3 DEF Asked, Is
  <1>5. Named \subseteq Named'
    BY <1>3, <1>4 DEF Named, Asked, Is
  <1>6. Added \subseteq Added'
    BY <1>2, <1>3 DEF Added, Asked, Is
  <1> QED
    BY <1>1, <1>2, <1>3, <1>4, <1>5, <1>6

-----------------------------------------------------------------------------
(* Types                                                                   *)

\* The parts of a session keep their types when a field is changed.
LEMMA States ==
    ASSUME NEW s \in State
    PROVE  /\ \A x \in SUBSET Calls : [s EXCEPT !.adds = x] \in State
           /\ \A x \in SUBSET Comments : [s EXCEPT !.dels = x] \in State
           /\ \A x \in SUBSET Comments : [s EXCEPT !.existing = x] \in State
           /\ \A x \in SUBSET Comments, b \in Batches :
                [s EXCEPT !.adds = {}, !.dels = {}, !.existing = x, !.batch = b] \in State
           /\ [s EXCEPT !.finished = TRUE] \in State
           /\ s.adds \subseteq Calls /\ s.dels \subseteq Comments /\ s.existing \subseteq Comments
           /\ s.batch \in Batches /\ BatchOf(s) \in Requests
  BY DEF State, Requests, BatchOf

\* What the pull request holds are comments.
LEMMA LiveTyped == Types => Live \subseteq Comments
  BY SessionOK DEF Types, TypeOK, Live, Comments

\* A new batch has an id that nothing has claimed.
LEMMA NewBatchIs == (\E b \in Batches : claim[b] = None) => NewBatch \in Batches /\ claim[NewBatch] = None
  BY DEF NewBatch

\* The types of what a call changes.
CallTyped(c) ==
  /\ pc' = [pc EXCEPT ![c] = pc'[c]] /\ pc'[c] \in Active \cup {"ok", "error"}
  /\ copy' = [copy EXCEPT ![c] = copy'[c]] /\ copy'[c] \in State \cup {None}
  /\ pc'[c] \in Loaded \cup {"write"} => copy'[c] \in State
  /\ op' = [op EXCEPT ![c] = op'[c]] /\ op'[c] \in Tools
  /\ UNCHANGED <<chat, reviewVars, removed, committed, added>>
  /\ lock' \in Calls \cup {None} /\ file' \in State \cup {None}
  /\ claim' \in [Batches -> Requests \cup {None}]

\* Each action of a call changes only what CallTyped says.
LEMMA CallTypes ==
    ASSUME Types, NEW c \in Calls, CallAction(c)
    PROVE  CallTyped(c)
  <1> USE Functions DEF To, Change, CallTyped
  <1>0. /\ pc[c] # "idle" => op[c] \in Tools
        /\ pc[c] \in Loaded \cup {"write"} => copy[c] \in State
        /\ lock \in Calls \cup {None}
    BY DEF Types, TypeOK
  <1>1. CASE Call(c)
    BY <1>0, <1>1 DEF Call, Active, Loaded
  <1>2. CASE Acquire(c)
    BY <1>0, <1>2 DEF Acquire, Active, Loaded
  <1>3. CASE AcquireFails(c)
    BY <1>0, <1>3 DEF AcquireFails, Active, Loaded
  <1>4. CASE AddComment(c)
    <2>1. copy[c] \in State /\ [copy[c] EXCEPT !.adds = @ \cup {c}] \in State
      BY <1>0, <1>4 DEF AddComment, Loaded, State
    <2> QED
      BY <1>0, <1>4, <2>1 DEF AddComment, Active, Loaded
  <1>5. CASE DeleteDraft(c)
    <2>1. op[c].tool = "delete" => op[c].id \in Comments
      BY <1>0, <1>5 DEF DeleteDraft, Tools
    <2>2. copy[c] \in State /\ (op[c].tool = "delete" => [copy[c] EXCEPT !.dels = @ \cup {op[c].id}] \in State)
      BY <1>0, <1>5, <2>1 DEF DeleteDraft, Loaded, State
    <2> QED
      BY <1>0, <1>5, <2>2 DEF DeleteDraft, Active, Loaded
  <1>6. CASE ListExisting(c)
    <2>1. copy[c] \in State /\ [copy[c] EXCEPT !.existing = Live] \in State
      BY <1>0, <1>6, States, LiveTyped DEF ListExisting, Loaded
    <2> QED
      BY <1>0, <1>6, <2>1 DEF ListExisting, Active, Loaded
  <1>7. CASE FinishReview(c)
    <2>1. /\ copy[c] \in State /\ [copy[c] EXCEPT !.finished = TRUE] \in State
          /\ BatchOf(copy[c]) \in Requests
      BY <1>0, <1>7, States DEF FinishReview, Loaded
    <2>2. UNCHANGED <<removed, committed, added>>
      BY <1>7 DEF FinishReview, Host!Claim
    <2>3. claim' \in [Batches -> Requests \cup {None}]
      BY <1>7, <2>1 DEF FinishReview
    <2>4. /\ pc' = [pc EXCEPT ![c] = pc'[c]] /\ pc'[c] \in {"write", "asked", "refused"}
      BY <1>7 DEF FinishReview
    <2>5. copy' = [copy EXCEPT ![c] = copy'[c]] /\ copy'[c] \in State
      BY <1>7, <2>1 DEF FinishReview
    <2> QED
      BY <1>0, <1>7, <2>2, <2>3, <2>4, <2>5 DEF FinishReview, Active, Loaded
  <1>8. CASE TakeReceipt(c)
    <2>1. /\ copy[c] \in State
          /\ [copy[c] EXCEPT !.adds = {}, !.dels = {}, !.existing = Live, !.batch = NewBatch] \in State
      BY <1>0, <1>8, States, LiveTyped, NewBatchIs DEF TakeReceipt, Loaded
    <2> QED
      BY <1>0, <1>8, <2>1 DEF TakeReceipt, Active, Loaded
  <1>9. CASE HostCallFails(c)
    BY <1>0, <1>9 DEF HostCallFails, Active, Loaded
  <1>10. CASE Write(c)
    BY <1>0, <1>10 DEF Write, Active, Loaded
  <1>11. CASE Unlock(c)
    BY <1>0, <1>11 DEF Unlock, Active, Loaded
  <1> QED
    BY <1>1, <1>2, <1>3, <1>4, <1>5, <1>6, <1>7, <1>8, <1>9, <1>10, <1>11 DEF CallAction

\* Each step keeps the types.
LEMMA TypesKept ==
    ASSUME Types, Phases, [Next]_vars
    PROVE  Types'
  <1>1. CASE \E c \in Calls : CallAction(c)
    <2>1. PICK c \in Calls : CallAction(c)
      BY <1>1
    <2>2. CallTyped(c)
      BY <2>1, CallTypes
    <2>3. TypeOK'
      BY <2>2 DEF Types, TypeOK, CallTyped, Active
    <2>4. \A d \in Calls : /\ pc'[d] = "idle" <=> op'[d] = None
                           /\ pc'[d] \in Loaded \cup {"write"} => copy'[d] \in State
      BY <2>2, Functions, NoneOK DEF Types, CallTyped, Active, Loaded
    <2> QED
      BY <2>3, <2>4 DEF Types
  <1>2. CASE ToolDies
    BY <1>2 DEF ToolDies, Types, TypeOK, Active, Loaded
  <1>3. CASE HostWork
    <2>1. UNCHANGED <<chat, file, lock, callVars, reviewVars>> /\ claim' = claim
      BY <1>3 DEF HostWork, Host!Post, Host!Remove, Host!Commit
    <2>2. removed' \in [Batches -> SUBSET Comments]
      <3>1. CASE removed' = removed
        BY <3>1, Functions
      <3>2. CASE \E b \in Batches : Host!Remove(b)
        <4>1. PICK b \in Batches : Host!Remove(b)
          BY <3>2
        <4>2. claim[b].dels \subseteq Comments
          BY <4>1, Functions DEF Host!Remove, Requests
        <4> QED
          BY <4>1, <4>2, Functions DEF Host!Remove
      <3> QED
        BY <1>3, <3>1, <3>2 DEF HostWork, Host!Post, Host!Commit
    <2>3. committed' \subseteq Batches
      BY <1>3 DEF HostWork, Host!Post, Host!Remove, Host!Commit, Types, TypeOK
    <2>4. added' \subseteq Calls
      BY <1>3, Functions DEF HostWork, Host!Remove, Host!Commit, Types, TypeOK, Requests
    <2> QED
      BY <2>1, <2>2, <2>3, <2>4 DEF Types, TypeOK
  <1>4. CASE Exit
    BY <1>4 DEF Exit, Types, TypeOK
  <1>5. CASE ReadSession
    <2>1. file # None => file.dels \subseteq Comments /\ file.adds \subseteq Calls
      BY Functions, States
    <2>2. todo' \subseteq Comments /\ output' \in (SUBSET Calls) \cup {None}
      BY <1>5, <2>1 DEF ReadSession, Types, TypeOK, Phases
    <2> QED
      BY <1>5, <2>2 DEF ReadSession, Types, TypeOK
  <1>6. CASE DeleteOnGitHub
    <2>1. UNCHANGED <<chat, callVars, claim, committed, added>>
      BY <1>6 DEF DeleteOnGitHub
    <2>2. /\ file' \in {file, None} /\ lock' \in {lock, None} /\ output' \in {output, None}
          /\ phase' \in {phase, "failed"} /\ todo' \subseteq todo
      BY <1>6 DEF DeleteOnGitHub
    <2>3. removed' \in [Batches -> SUBSET Comments]
      <3>1. PICK d \in todo : \/ removed' = [removed EXCEPT ![file.batch] = @ \cup {d}]
                              \/ removed' = removed
        BY <1>6 DEF DeleteOnGitHub
      <3>2. d \in Comments
        BY DEF Types, TypeOK
      <3> QED
        BY <3>1, <3>2, Functions
    <2>4. /\ file' \in State \cup {None} /\ lock' \in Calls \cup {None}
          /\ output' \in (SUBSET Calls) \cup {None} /\ todo' \subseteq Comments
      BY <2>2 DEF Types, TypeOK
    <2>5. phase' \in {"running", "exited", "deleting", "returned", "failed", "ended"}
      BY <2>2 DEF Types, TypeOK
    <2> QED
      BY <2>1, <2>3, <2>4, <2>5 DEF Types, TypeOK
  <1>7. CASE Return
    BY <1>7 DEF Return, Types, TypeOK
  <1>8. CASE UNCHANGED vars
    BY <1>8 DEF vars, Types, TypeOK
  <1> QED
    BY <1>1, <1>2, <1>3, <1>4, <1>5, <1>6, <1>7, <1>8, Actions DEF Others

-----------------------------------------------------------------------------
(* The steps of a call                                                     *)

\* Each step keeps the file until the end.
LEMMA PhasesKept ==
    ASSUME IInv, [Next]_vars
    PROVE  Phases'
  <1>1. CASE \E c \in Calls : CallAction(c)
    <2>1. PICK c \in Calls : CallAction(c)
      BY <1>1
    <2>2. phase' = phase /\ output' = output
      BY <2>1, Frame DEF IInv
    <2>3. CASE ~Write(c)
      <3>1. file' = file
        BY <2>1, <2>3 DEF CallAction, Call, Acquire, AcquireFails, AddComment, DeleteDraft,
           ListExisting, FinishReview, TakeReceipt, HostCallFails, Unlock
      <3> QED
        BY <2>2, <3>1 DEF IInv, Phases
    <2>4. CASE Write(c) /\ file = None
      BY <2>2, <2>4 DEF IInv, Phases, Write
    <2>5. CASE Write(c) /\ file # None
      <3>1. file' = copy[c] /\ copy[c] \in State /\ Change1(c) /\ file \in State
        BY <2>5, Functions DEF Write, IInv, Types, Changes
      <3>2. phase = "deleting" => file.finished /\ ~chat
        BY <2>5 DEF IInv, Phases, Sessions, Sound
      <3>3. phase = "deleting" => copy[c].finished /\ copy[c].adds = file.adds
        BY <3>1, <3>2 DEF Change1, Receipt, MayAdd, State
      <3> QED
        BY <2>2, <2>5, <3>1, <3>3, NoneOK DEF IInv, Phases
    <2> QED
      BY <2>3, <2>4, <2>5
  <1>2. CASE Others \/ UNCHANGED vars
    BY <1>2 DEF Others, ToolDies, HostWork, Exit, ReadSession, DeleteOnGitHub, Return, vars,
       IInv, Phases, Types, TypeOK
  <1> QED
    BY <1>1, <1>2, Actions

\* Each step keeps one call between its load and its answer.
LEMMA MutexKept ==
    ASSUME IInv, [Next]_vars
    PROVE  Mutex'
  <1>1. CASE \E c \in Calls : CallAction(c)
    <2>1. PICK c \in Calls : CallAction(c)
      BY <1>1
    <2>2. \A d \in Calls \ {c} : pc'[d] = pc[d]
      BY <2>1, Frame DEF IInv
    <2>3. CASE Acquire(c)
      <3>1. \A d \in Calls : pc[d] \notin Holding
        BY <2>3, NoneOK DEF Acquire, IInv, Mutex
      <3> QED
        BY <2>2, <2>3, <3>1 DEF Acquire, Mutex
    <2>4. CASE Unlock(c)
      <3>1. \A d \in Calls : pc'[d] \notin Holding
        BY <2>2, <2>4, Functions DEF Unlock, To, IInv, Mutex, Holding, Loaded
      <3> QED
        BY <3>1 DEF Mutex
    <2>5. CASE ~Acquire(c) /\ ~Unlock(c)
      <3>1. lock' = lock
        BY <2>1, <2>5 DEF CallAction, Call, AcquireFails, AddComment, DeleteDraft,
           ListExisting, FinishReview, TakeReceipt, HostCallFails, Write
      <3>2. pc'[c] \in Holding => pc[c] \in Holding
        BY <2>1, <2>5, Functions DEF CallAction, Call, AcquireFails, AddComment, DeleteDraft,
           ListExisting, FinishReview, TakeReceipt, HostCallFails, Write, To, Holding, Loaded, IInv
      <3>3. file' # None => file # None
        BY <2>1, <2>5 DEF CallAction, Call, AcquireFails, AddComment, DeleteDraft,
           ListExisting, FinishReview, TakeReceipt, HostCallFails, Write
      <3> QED
        BY <2>2, <3>1, <3>2, <3>3 DEF IInv, Mutex
    <2> QED
      BY <2>3, <2>4, <2>5
  <1>2. CASE ToolDies
    <2>1. \A c \in Calls : pc'[c] \notin Holding
      BY <1>2, Functions DEF ToolDies, Active, Holding, Loaded
    <2> QED
      BY <2>1 DEF Mutex
  <1>3. CASE HostWork \/ Exit \/ ReadSession \/ DeleteOnGitHub \/ Return \/ UNCHANGED vars
    BY <1>3 DEF HostWork, Exit, ReadSession, DeleteOnGitHub, Return, vars, IInv, Mutex
  <1> QED
    BY <1>1, <1>2, <1>3, Actions DEF Others

\* What is sound stays sound, unless its additions are claimed under another id.
LEMMA StaysSound ==
    ASSUME IInv, [Next]_vars, NEW s, Sound(s),
           \A b \in Batches : claim[b] = None /\ claim'[b] # None /\ claim'[b].adds \cap s.adds # {}
                                => b = s.batch
    PROVE  Sound(s)'
  <1>1. /\ Asked("finish") \subseteq Asked("finish")' /\ Named \subseteq Named'
        /\ Added \subseteq Added' /\ chat' = chat
        /\ \A b \in Batches : claim[b] # None => claim'[b] = claim[b]
    BY Grows DEF IInv
  <1> QED
    BY <1>1 DEF Sound

\* What a call writes is sound, with its own addition.
LEMMA WriteSound ==
    ASSUME IInv, NEW c \in Calls, Write(c), file # None
    PROVE  file' = copy[c] /\ Change1(c) /\ file' # None /\ Sound(file)'
  <1>1. /\ file' = copy[c] /\ claim' = claim /\ op' = op /\ chat' = chat
        /\ pc[c] = "write" /\ pc'[c] = "accepted" /\ copy[c] \in State /\ file \in State
    BY Functions DEF Write, To, IInv, Types
  <1>2. Change1(c) /\ Sound(file)
    BY <1>1 DEF IInv, Changes, Sessions
  <1>3. /\ Asked("finish") = Asked("finish")' /\ Named = Named' /\ Added \subseteq Added'
    <2>1. \A d \in Calls \ {c} : pc'[d] = pc[d]
      BY Frame DEF IInv, CallAction
    <2> QED
      BY <1>1, <2>1 DEF Asked, Is, Named, Added
  <1>4. CASE Is(c, "add") /\ MayAdd(file, c) /\ copy[c] = [file EXCEPT !.adds = @ \cup {c}]
    <2>1. c \in Added'
      BY <1>1, <1>4 DEF Added, Asked, Is, MayAdd
    <2>2. /\ file'.adds = file.adds \cup {c} /\ file'.dels = file.dels
          /\ file'.finished = file.finished /\ file'.batch = file.batch
      BY <1>1, <1>4 DEF State
    <2>3. \A b \in Batches : claim[b] # None => c \notin claim[b].adds
      BY <1>1 DEF IInv, Claims, Added
    <2> QED
      BY <1>1, <1>2, <1>3, <2>1, <2>2, <2>3, NoneOK DEF Sound
  <1>5. CASE /\ Is(c, "delete") /\ Deletable(file, op[c].id)
             /\ copy[c] = [file EXCEPT !.dels = @ \cup {op[c].id}]
    <2>1. op[c].id \in Named
      BY <1>5 DEF Named, Asked, Deletable
    <2>2. /\ file'.adds = file.adds /\ file'.dels = file.dels \cup {op[c].id}
          /\ file'.finished = file.finished /\ file'.batch = file.batch
      BY <1>1, <1>5 DEF State
    <2> QED
      BY <1>1, <1>2, <1>3, <2>1, <2>2, NoneOK DEF Sound
  <1>6. CASE Is(c, "finish") /\ ~chat /\ copy[c] = [file EXCEPT !.finished = TRUE]
    <2>1. /\ file'.adds = file.adds /\ file'.dels = file.dels /\ file'.batch = file.batch
      BY <1>1, <1>6 DEF State
    <2>2. c \in Asked("finish")
      BY <1>6 DEF Asked
    <2> QED
      BY <1>1, <1>2, <1>3, <1>6, <2>1, <2>2, NoneOK DEF Sound
  <1>7. CASE Receipt(c)
    <2>1. /\ file'.adds = {} /\ file'.dels = {} /\ file'.finished = file.finished
      BY <1>1, <1>7 DEF Receipt, State
    <2> QED
      BY <1>1, <1>2, <1>3, <2>1, NoneOK DEF Sound
  <1>8. CASE copy[c] = file \/ copy[c] = [file EXCEPT !.existing = copy[c].existing]
    <2>1. /\ file'.adds = file.adds /\ file'.dels = file.dels
          /\ file'.finished = file.finished /\ file'.batch = file.batch
      BY <1>1, <1>8 DEF State
    <2> QED
      BY <1>1, <1>2, <1>3, <2>1, NoneOK DEF Sound
  <1> QED
    BY <1>2, <1>4, <1>5, <1>6, <1>7, <1>8 DEF Change1

\* A call claims an id for the batch of its copy.
LEMMA NewClaim ==
    ASSUME IInv, NEW c \in Calls, CallAction(c), claim' # claim
    PROVE  /\ FinishReview(c) /\ chat /\ Is(c, "finish") /\ copy' = copy /\ file' = file
           /\ pc[c] = "update" /\ pc'[c] = "asked" /\ copy[c] \in State
           /\ copy[c].batch \in Batches /\ claim[copy[c].batch] = None
           /\ claim' = [claim EXCEPT ![copy[c].batch] = BatchOf(copy[c])]
  <1>1. FinishReview(c)
    BY DEF CallAction, Call, Acquire, AcquireFails, AddComment, DeleteDraft, ListExisting,
       TakeReceipt, HostCallFails, Write, Unlock
  <1>2. pc[c] = "update" /\ op[c].tool = "finish" /\ op[c] # None /\ file' = file
    BY <1>1 DEF FinishReview, IInv, Types
  <1>3. copy[c] \in State
    BY <1>2 DEF IInv, Types, Loaded
  <1>4. BatchOf(copy[c]).id = copy[c].batch /\ copy[c].batch \in Batches
    BY <1>3 DEF BatchOf, State
  <1>5. /\ chat /\ copy' = copy /\ To(c, "asked") /\ claim[copy[c].batch] = None
        /\ claim' = [claim EXCEPT ![copy[c].batch] = BatchOf(copy[c])]
    BY <1>1, <1>4 DEF FinishReview
  <1> QED
    BY <1>1, <1>2, <1>3, <1>4, <1>5, Functions DEF To, Is, IInv

\* Each step keeps the file and the copies sound.
LEMMA SessionsKept ==
    ASSUME IInv, [Next]_vars
    PROVE  Sessions'
  <1>1. CASE \E c \in Calls : CallAction(c)
    <2>1. PICK c \in Calls : CallAction(c)
      BY <1>1
    <2>2. CASE claim' # claim
      <3>1. /\ pc[c] \in Loaded /\ pc'[c] \in Loaded /\ copy' = copy /\ file' = file
            /\ claim' = [claim EXCEPT ![copy[c].batch] = BatchOf(copy[c])]
        BY <2>1, <2>2, NewClaim DEF Loaded
      <3>2. \A b \in Batches : claim[b] = None /\ claim'[b] # None => b = copy[c].batch
        BY <3>1, Functions DEF IInv
      <3>3. Sound(copy[c])'
        BY <3>1, <3>2, StaysSound DEF IInv, Sessions
      <3>4. file # None => Sound(file)'
        BY <3>1, <3>2, StaysSound DEF IInv, Sessions, Changes
      <3>5. \A d \in Calls : pc'[d] \in Loaded => d = c
        BY <2>1, <3>1, Frame DEF IInv, Mutex, Holding
      <3> QED
        BY <3>1, <3>3, <3>4, <3>5 DEF Sessions
    <2>3. CASE claim' = claim
      <3>1. \A s : Sound(s) => Sound(s)'
        BY <2>3, StaysSound
      <3>2. file' # None => Sound(file)'
        <4>1. CASE Write(c) /\ file # None
          BY <4>1, WriteSound
        <4>2. CASE ~Write(c) \/ file = None
          <5>1. file' = file
            BY <2>1, <4>2 DEF CallAction, Call, Acquire, AcquireFails, AddComment, DeleteDraft,
               ListExisting, FinishReview, TakeReceipt, HostCallFails, Write, Unlock
          <5> QED
            BY <3>1, <5>1 DEF IInv, Sessions, Sound
        <4> QED
          BY <4>1, <4>2
      <3>3. pc'[c] \in Loaded => Sound(copy[c])'
        <4>1. CASE Acquire(c)
          <5>1. copy'[c] = file /\ file # None
            BY <4>1, Functions DEF Acquire, Change, IInv
          <5> QED
            BY <3>1, <5>1 DEF IInv, Sessions, Sound
        <4>2. CASE ~Acquire(c) /\ pc'[c] \in Loaded
          <5>1. pc[c] \in Loaded /\ copy'[c] = copy[c]
            BY <2>1, <4>2, Functions DEF CallAction, Call, AcquireFails, AddComment, DeleteDraft,
               ListExisting, FinishReview, TakeReceipt, HostCallFails, Write, Unlock, To, Change,
               Loaded, IInv
          <5> QED
            BY <3>1, <5>1 DEF IInv, Sessions, Sound
        <4> QED
          BY <4>1, <4>2
      <3>4. \A d \in Calls \ {c} : pc'[d] \in Loaded => Sound(copy[d])'
        BY <2>1, <3>1, Frame DEF IInv, Sessions, Sound
      <3> QED
        BY <3>2, <3>3, <3>4 DEF Sessions
    <2> QED
      BY <2>2, <2>3
  <1>2. CASE Others \/ UNCHANGED vars
    <2>1. /\ claim' = claim /\ file' \in {file, None}
          /\ \A d \in Calls : pc'[d] \in Loaded => pc[d] \in Loaded /\ copy'[d] = copy[d]
      BY <1>2, Functions DEF Others, ToolDies, HostWork, Exit, ReadSession, DeleteOnGitHub, Return,
         vars, Host!Post, Host!Remove, Host!Commit, Loaded, Active, IInv
    <2>2. \A s : Sound(s) => Sound(s)'
      BY <2>1, StaysSound
    <2> QED
      BY <2>1, <2>2 DEF IInv, Sessions, Sound
  <1> QED
    BY <1>1, <1>2, Actions

\* Each step keeps the claims apart.
LEMMA ClaimsKept ==
    ASSUME IInv, [Next]_vars
    PROVE  Claims'
  <1>1. /\ Named \subseteq Named' /\ Added \subseteq Added' /\ chat' = chat
        /\ \A b \in Batches : claim[b] # None => claim'[b] = claim[b]
    BY Grows DEF IInv
  <1>2. CASE \E c \in Calls : CallAction(c) /\ claim' # claim
    <2>1. PICK c \in Calls : CallAction(c) /\ claim' # claim
      BY <1>2
    <2>2. /\ chat /\ Is(c, "finish") /\ copy' = copy /\ op' = op
          /\ pc[c] \in Loaded /\ copy[c] \in State
          /\ copy[c].batch \in Batches /\ claim[copy[c].batch] = None
          /\ claim' = [claim EXCEPT ![copy[c].batch] = BatchOf(copy[c])]
      BY <2>1, NewClaim, Frame DEF Loaded, IInv
    <2>3. Sound(copy[c])
      BY <2>2 DEF IInv, Sessions
    <2> DEFINE new == copy[c].batch
    <2>4. /\ claim'[new] = BatchOf(copy[c]) /\ claim'[new].id = new
          /\ claim'[new].adds = copy[c].adds /\ claim'[new].dels = copy[c].dels
      BY <2>2, Functions DEF IInv, BatchOf
    <2>5. \A b \in Batches : b # new => claim'[b] = claim[b]
      BY <2>2, Functions DEF IInv
    <2>6. \A b \in Batches : claim'[b] # None =>
            claim'[b].id = b /\ claim'[b].adds \subseteq Added' /\ claim'[b].dels \subseteq Named'
      BY <1>1, <2>3, <2>4, <2>5 DEF IInv, Claims, Sound
    <2>7. \A d \in Calls : pc'[d] = "asked" => d = c
      BY <2>1, <2>2, Frame DEF IInv, Mutex, Holding, Loaded
    <2>8. \A b \in Batches : b # new /\ claim[b] # None => claim[b].adds \cap copy[c].adds = {}
      BY <2>3 DEF Sound
    <2>9. OneBatchPerComment'
      BY <2>4, <2>5, <2>8 DEF IInv, Claims, OneBatchPerComment
    <2>10. \A d \in Calls : pc'[d] = "asked" =>
             chat' /\ Is(d, "finish")' /\ claim'[copy'[d].batch] = BatchOf(copy[d])'
      BY <1>1, <2>2, <2>4, <2>7 DEF Is, BatchOf
    <2> QED
      BY <2>6, <2>9, <2>10 DEF Claims
  <1>3. CASE claim' = claim
    <2>1. \A d \in Calls : pc'[d] = "asked" =>
            \/ pc[d] = "asked" /\ copy'[d] = copy[d] /\ op'[d] = op[d]
            \/ chat /\ Is(d, "finish") /\ claim[copy[d].batch] = BatchOf(copy[d]) /\ copy'[d] = copy[d]
               /\ op'[d] = op[d]
      <3>1. CASE \E c \in Calls : CallAction(c)
        <4>1. PICK c \in Calls : CallAction(c)
          BY <3>1
        <4>2. CASE FinishReview(c) /\ pc'[c] = "asked"
          <5>1. /\ chat /\ copy' = copy /\ op' = op /\ pc[c] = "update" /\ op[c].tool = "finish"
                /\ claim'[BatchOf(copy[c]).id] = BatchOf(copy[c])
            <6>1. copy[c] \in State
              BY <4>2 DEF FinishReview, IInv, Types, Loaded
            <6>2. BatchOf(copy[c]).id \in Batches
              BY <6>1 DEF State, BatchOf
            <6> QED
              BY <4>2, <6>2, Functions, <1>3 DEF FinishReview, To, IInv
          <5>2. op[c] # None /\ BatchOf(copy[c]).id = copy[c].batch
            BY <5>1 DEF IInv, Types, BatchOf
          <5> QED
            BY <1>3, <4>1, <5>1, <5>2, Frame DEF Is, IInv
        <4>3. CASE ~(FinishReview(c) /\ pc'[c] = "asked")
          <5>1. pc'[c] # "asked"
            BY <4>1, <4>3, Functions DEF CallAction, Call, Acquire, AcquireFails, AddComment,
               DeleteDraft, ListExisting, TakeReceipt, HostCallFails, Write, Unlock, To, IInv
          <5> QED
            BY <4>1, <5>1, Frame DEF IInv
        <4> QED
          BY <4>2, <4>3
      <3>2. CASE Others \/ UNCHANGED vars
        BY <3>2, Functions DEF Others, ToolDies, HostWork, Exit, ReadSession, DeleteOnGitHub,
           Return, vars, Active, IInv
      <3> QED
        BY <3>1, <3>2, Actions
    <2>2. \A d \in Calls : pc'[d] = "asked" =>
            chat' /\ Is(d, "finish")' /\ claim'[copy'[d].batch] = BatchOf(copy[d])'
      BY <1>1, <1>3, <2>1 DEF IInv, Claims, Is, BatchOf
    <2>3. \A b \in Batches : claim'[b] # None =>
            claim'[b].id = b /\ claim'[b].adds \subseteq Added' /\ claim'[b].dels \subseteq Named'
      BY <1>1, <1>3 DEF IInv, Claims
    <2>4. OneBatchPerComment'
      BY <1>3 DEF IInv, Claims, OneBatchPerComment
    <2> QED
      BY <2>2, <2>3, <2>4 DEF Claims
  <1>4. CASE Others \/ UNCHANGED vars
    <2>1. claim' = claim
      BY <1>4 DEF Others, ToolDies, HostWork, Exit, ReadSession, DeleteOnGitHub, Return, vars,
         Host!Post, Host!Remove, Host!Commit
    <2> QED
      BY <1>3, <2>1
  <1> QED
    BY <1>2, <1>3, <1>4, Actions

\* Each step keeps what a call has loaded, and the change it will write.
LEMMA ChangesKept ==
    ASSUME IInv, [Next]_vars
    PROVE  Changes'
  <1>1. CASE \E c \in Calls : CallAction(c) /\ pc[c] \in Holding
    <2>1. PICK c \in Calls : CallAction(c) /\ pc[c] \in Holding
      BY <1>1
    <2>2. \A d \in Calls : pc'[d] \in Holding => d = c
      BY <2>1, Frame DEF IInv, Mutex
    <2>3. op' = op /\ chat' = chat /\ committed' = committed /\ op[c] # None
      BY <2>1, Frame DEF IInv, Types, Holding, Loaded
    <2> SUFFICES ASSUME file' # None
                 PROVE  /\ pc'[c] \in Loaded => copy'[c] = file'
                        /\ pc'[c] = "write" => Change1(c)'
      BY <2>2 DEF Changes, Holding
    <2>4. CASE Write(c) \/ Unlock(c) \/ HostCallFails(c)
      <3>1. pc'[c] \notin Loaded \cup {"write"}
        BY <2>4, Functions DEF Write, Unlock, HostCallFails, To, Loaded, IInv
      <3> QED
        BY <3>1
    <2>5. CASE AddComment(c) \/ DeleteDraft(c) \/ ListExisting(c)
      <3>1. /\ pc[c] = "update" /\ file' = file /\ claim' = claim
            /\ pc'[c] \in {"write", "refused"} /\ copy[c] = file /\ file \in State
        BY <2>5, Functions DEF AddComment, DeleteDraft, ListExisting, To, IInv, Changes, Loaded
      <3>2. CASE AddComment(c)
        <4>1. pc'[c] = "write" => /\ Is(c, "add")' /\ MayAdd(file, c)
                                  /\ copy'[c] = [file EXCEPT !.adds = @ \cup {c}]
          BY <2>3, <3>1, <3>2, Functions DEF AddComment, To, Change, Is, IInv
        <4> QED
          BY <3>1, <4>1 DEF Change1, MayAdd, Loaded
      <3>3. CASE DeleteDraft(c)
        <4>1. pc'[c] = "write" => /\ Is(c, "delete")' /\ Deletable(file, op[c].id)
                                  /\ copy'[c] = [file EXCEPT !.dels = @ \cup {op[c].id}]
          BY <2>3, <3>1, <3>3, Functions DEF DeleteDraft, To, Change, Is, IInv
        <4> QED
          BY <2>3, <3>1, <4>1 DEF Change1, Deletable, Loaded
      <3>4. CASE ListExisting(c)
        <4>1. chat => copy'[c] = [file EXCEPT !.existing = Live]
          BY <3>1, <3>4, Functions DEF ListExisting, Change, IInv
        <4>2. chat => copy'[c] = [file EXCEPT !.existing = copy'[c].existing]
          BY <3>1, <4>1 DEF State
        <4>3. ~chat => copy'[c] = file
          BY <3>1, <3>4 DEF ListExisting
        <4>4. Is(c, "existing")
          BY <2>3, <3>4 DEF ListExisting, Is
        <4> QED
          BY <2>3, <3>1, <4>2, <4>3, <4>4 DEF Change1, Is, Loaded
      <3> QED
        BY <2>5, <3>2, <3>3, <3>4
    <2>6. CASE FinishReview(c)
      <3>1. /\ pc[c] = "update" /\ file' = file /\ copy[c] = file /\ Is(c, "finish")
        BY <2>3, <2>6 DEF FinishReview, IInv, Changes, Loaded, Is
      <3>2. \/ ~chat /\ pc'[c] = "write" /\ copy'[c] = [file EXCEPT !.finished = TRUE]
            \/ chat /\ copy' = copy
        BY <2>6, <3>1, Functions DEF FinishReview, To, Change, IInv
      <3> QED
        BY <2>3, <3>1, <3>2 DEF Change1, Is, Loaded
    <2>7. CASE TakeReceipt(c)
      <3>1. /\ pc[c] = "asked" /\ pc'[c] = "write" /\ file' = file /\ copy[c] = file
            /\ claim' = claim /\ file \in State /\ copy[c].batch \in committed
        BY <2>7, Functions DEF TakeReceipt, To, IInv, Changes, Loaded
      <3>2. /\ chat /\ Is(c, "finish") /\ claim[file.batch] = BatchOf(file)
        BY <3>1 DEF IInv, Claims
      <3>3. copy'[c] = [file EXCEPT !.adds = {}, !.dels = {}, !.existing = Live, !.batch = NewBatch]
        BY <2>7, <3>1, Functions DEF TakeReceipt, Change, IInv
      <3>4. /\ copy'[c] = [file EXCEPT !.adds = {}, !.dels = {}, !.existing = copy'[c].existing,
                                       !.batch = copy'[c].batch]
            /\ copy'[c].batch = NewBatch
        BY <3>1, <3>3 DEF State
      <3>5. claim[NewBatch] = None
        BY <2>7, NewBatchIs DEF TakeReceipt
      <3>6. Receipt(c)'
        BY <2>3, <3>1, <3>2, <3>4, <3>5 DEF Receipt, BatchOf
      <3> QED
        BY <2>3, <3>1, <3>2, <3>6 DEF Change1, Is, Loaded
    <2> QED
      BY <2>1, <2>4, <2>5, <2>6, <2>7 DEF CallAction, Call, Acquire, AcquireFails, Holding, Loaded
  <1>2. CASE \E c \in Calls : CallAction(c) /\ pc[c] \notin Holding
    <2>1. PICK c \in Calls : CallAction(c) /\ pc[c] \notin Holding
      BY <1>2
    <2>2. Call(c) \/ Acquire(c) \/ AcquireFails(c)
      BY <2>1 DEF CallAction, AddComment, DeleteDraft, ListExisting, FinishReview, TakeReceipt,
         HostCallFails, Write, Unlock, Holding, Loaded
    <2>3. file' = file /\ claim' = claim /\ committed' = committed /\ chat' = chat
      BY <2>2 DEF Call, Acquire, AcquireFails
    <2>4. \A d \in Calls \ {c} : /\ pc'[d] = pc[d] /\ op'[d] = op[d] /\ copy'[d] = copy[d]
                                 /\ Change1(d) => Change1(d)'
      <3> SUFFICES ASSUME NEW d \in Calls \ {c}
                   PROVE  /\ pc'[d] = pc[d] /\ op'[d] = op[d] /\ copy'[d] = copy[d]
                          /\ Change1(d) => Change1(d)'
        OBVIOUS
      <3>1. pc'[d] = pc[d] /\ op'[d] = op[d] /\ copy'[d] = copy[d]
        BY <2>1, Frame DEF IInv
      <3>2. Receipt(d)' <=> Receipt(d)
        BY <2>3, <3>1 DEF Receipt, BatchOf
      <3> QED
        BY <2>3, <3>1, <3>2 DEF Change1, Is, MayAdd, Deletable
    <2>5. pc'[c] \in Loaded => copy'[c] = file
      BY <2>2, Functions DEF Call, Acquire, AcquireFails, To, Change, Loaded, IInv
    <2>6. pc'[c] # "write"
      BY <2>2, Functions DEF Call, Acquire, AcquireFails, To, IInv
    <2> QED
      BY <2>3, <2>4, <2>5, <2>6 DEF IInv, Changes
  <1>3. CASE Others \/ UNCHANGED vars
    <2>1. /\ claim' = claim /\ op' = op /\ chat' = chat /\ committed \subseteq committed'
          /\ file' \in {file, None}
          /\ \A d \in Calls : pc'[d] \in Loaded \cup {"write"} => pc[d] = pc'[d] /\ copy'[d] = copy[d]
      BY <1>3, Functions DEF Others, ToolDies, HostWork, Exit, ReadSession, DeleteOnGitHub, Return,
         vars, Host!Post, Host!Remove, Host!Commit, Active, Loaded, IInv
    <2>2. \A d \in Calls : pc'[d] = "write" /\ file' # None /\ Change1(d) => Change1(d)'
      BY <2>1 DEF Change1, Is, Receipt, BatchOf
    <2> QED
      BY <2>1, <2>2 DEF IInv, Changes
  <1> QED
    BY <1>1, <1>2, <1>3, Actions

\* Each step keeps what has been accepted.
LEMMA KeptKept ==
    ASSUME IInv, [Next]_vars
    PROVE  Kept'
  <1>1. /\ committed \subseteq committed' /\ \A d \in Calls : op[d] # None => op'[d] = op[d]
        /\ \A b \in Batches : claim[b] # None => claim'[b] = claim[b]
        /\ committed \subseteq Batches
    BY Grows DEF IInv, Types, TypeOK
  <1>2. CASE \E c \in Calls : CallAction(c)
    <2>1. PICK c \in Calls : CallAction(c)
      BY <1>2
    <2>2. phase' = phase /\ output' = output /\ phase \in {"running", "exited", "deleting",
                                                           "returned", "failed", "ended"}
      BY <2>1, Frame DEF IInv, Types, TypeOK
    <2>3. CASE ~Write(c) \/ file = None
      <3>1. file' = file
        BY <2>1, <2>3 DEF CallAction, Call, Acquire, AcquireFails, AddComment, DeleteDraft,
           ListExisting, FinishReview, TakeReceipt, HostCallFails, Write, Unlock
      <3>2. \A d \in Calls : pc'[d] \in {"accepted", "ok"} => pc[d] \in {"accepted", "ok"}
        BY <2>1, <2>3, Frame, Functions DEF CallAction, Call, Acquire, AcquireFails, AddComment,
           DeleteDraft, ListExisting, FinishReview, TakeReceipt, HostCallFails, Write, Unlock, To, IInv
      <3>3. \A d \in Calls : pc'[d] \in {"accepted", "ok"} => op'[d] = op[d] /\ op[d] # None
        BY <1>1, <3>2 DEF IInv, Types
      <3> QED
        BY <1>1, <2>2, <3>1, <3>2, <3>3 DEF IInv, Kept, Asked, Is
    <2>4. CASE Write(c) /\ file # None
      <3>1. file' = copy[c] /\ Change1(c) /\ file' # None
        BY <2>4, WriteSound
      <3>2. phase \in {"running", "exited", "deleting"}
        BY <2>2, <2>4 DEF IInv, Phases
      <3>3. copy[c] \in State /\ file \in State /\ op' = op /\ claim' = claim /\ committed' = committed
        BY <2>4, Functions DEF Write, IInv, Types
      <3>4. \A d \in Calls \ {c} : pc'[d] = pc[d]
        BY <2>1, Frame DEF IInv
      <3>5. Is(c, "add") => c \in file'.adds
        BY <3>1, <3>3 DEF Change1, Is, State
      <3>6. \/ file.adds \subseteq file'.adds
            \/ file.batch \in committed /\ claim[file.batch] # None /\ file.adds = claim[file.batch].adds
        <4>1. CASE Receipt(c)
          <5>1. BatchOf(file) # None /\ BatchOf(file).adds = file.adds
            BY <3>3, NoneOK DEF BatchOf, Requests, State
          <5> QED
            BY <4>1, <5>1 DEF Receipt
        <4>2. CASE ~Receipt(c)
          BY <3>1, <3>3, <4>2 DEF Change1, State
        <4> QED
          BY <4>1, <4>2
      <3> QED
        <4> SUFFICES ASSUME NEW d \in Calls, Is(d, "add")', pc'[d] \in {"accepted", "ok"}
                     PROVE  d \in file'.adds \/ \E b \in committed : claim[b] # None /\ d \in claim[b].adds
          BY <2>2, <3>2, <3>3 DEF Kept, Asked
        <4>1. Is(d, "add")
          BY <3>3 DEF Is
        <4>2. CASE d = c
          BY <3>5, <4>1, <4>2
        <4>3. CASE d # c
          <5>1. d \in file.adds \/ \E b \in committed : claim[b] # None /\ d \in claim[b].adds
            BY <3>2, <3>4, <4>1, <4>3 DEF IInv, Kept, Asked
          <5> QED
            BY <3>6, <5>1
        <4> QED
          BY <4>2, <4>3
    <2> QED
      BY <2>3, <2>4
  <1>3. CASE Others \/ UNCHANGED vars
    <2>1. /\ op' = op
          /\ \A d \in Calls : pc'[d] \in {"accepted", "ok"} => pc[d] \in {"accepted", "ok"}
      BY <1>3, Functions DEF Others, ToolDies, HostWork, Exit, ReadSession, DeleteOnGitHub, Return,
         vars, Active, IInv
    <2>2. \/ phase' \in {"failed", "ended"}
          \/ phase' = phase /\ file' = file /\ output' = output
          \/ phase \in {"running", "exited"} /\ phase' \in {"exited", "deleting"} /\ file' = file
          \/ phase = "deleting" /\ phase' = "returned" /\ output' = file.adds
      BY <1>3 DEF Others, ToolDies, HostWork, Exit, ReadSession, DeleteOnGitHub, Return, vars,
         IInv, Phases
    <2>3. phase' = "deleting" /\ phase # "deleting" => file' = file
      BY <1>3 DEF Others, ToolDies, HostWork, Exit, ReadSession, DeleteOnGitHub, Return, vars
    <2> SUFFICES ASSUME NEW d \in Calls, Is(d, "add")', pc'[d] \in {"accepted", "ok"}
                 PROVE  \/ phase' \in {"failed", "ended"}
                        \/ phase' \in {"running", "exited", "deleting"} /\ d \in file'.adds
                        \/ phase' = "returned" /\ d \in output'
                        \/ \E b \in committed' : claim'[b] # None /\ d \in claim'[b].adds
      BY DEF Kept, Asked
    <2>4. \/ phase \in {"failed", "ended"}
          \/ phase \in {"running", "exited", "deleting"} /\ d \in file.adds
          \/ phase = "returned" /\ d \in output
          \/ \E b \in committed : claim[b] # None /\ d \in claim[b].adds
      BY <2>1 DEF IInv, Kept, Asked, Is
    <2>5. CASE \E b \in committed : claim[b] # None /\ d \in claim[b].adds
      BY <1>1, <2>5
    <2>6. CASE ~ \E b \in committed : claim[b] # None /\ d \in claim[b].adds
      BY <2>2, <2>3, <2>4, <2>6
    <2> QED
      BY <2>5, <2>6
  <1> QED
    BY <1>2, <1>3, Actions

\* Each step keeps the review's word.
LEMMA WordKept ==
    ASSUME IInv, [Next]_vars
    PROVE  Word'
  <1>1. Asked("finish") \subseteq Asked("finish")' /\ Asked("add") \subseteq Asked("add")'
        /\ Named \subseteq Named'
    BY Grows DEF IInv
  <1>2. CASE \E c \in Calls : CallAction(c)
    <2>1. UNCHANGED <<phase, todo, output, removed>>
      BY <1>2, Frame DEF IInv
    <2> QED
      BY <1>1, <2>1 DEF IInv, Word
  <1>3. CASE ToolDies \/ Exit \/ Return \/ UNCHANGED vars
    BY <1>1, <1>3 DEF ToolDies, Exit, Return, vars, IInv, Word
  <1>4. CASE HostWork
    <2>1. UNCHANGED <<phase, todo, output>>
      BY <1>4 DEF HostWork
    <2>2. \A b \in Batches : removed'[b] \subseteq Named
      <3>1. CASE \E b \in Batches : Host!Remove(b)
        <4>1. PICK b \in Batches : Host!Remove(b)
          BY <3>1
        <4>2. claim[b].dels \subseteq Named
          BY <4>1 DEF Host!Remove, IInv, Claims
        <4> QED
          BY <4>1, <4>2, Functions DEF Host!Remove, IInv, Word
      <3>2. CASE removed' = removed
        BY <3>2 DEF IInv, Word
      <3> QED
        BY <1>4, <3>1, <3>2 DEF HostWork, Host!Post, Host!Commit
    <2> QED
      BY <1>1, <2>1, <2>2 DEF IInv, Word
  <1>5. CASE ReadSession
    <2>1. file # None /\ Sound(file)
      BY <1>5 DEF ReadSession, IInv, Phases, Sessions
    <2>2. removed' = removed
      BY <1>5 DEF ReadSession
    <2>3. \/ phase' \in {"ended", "failed"} /\ todo' = todo
          \/ phase' = "deleting" /\ todo' = file.dels /\ output' = file.adds /\ file.finished
      BY <1>5 DEF ReadSession
    <2> QED
      BY <1>1, <2>1, <2>2, <2>3 DEF IInv, Word, Sound, Added
  <1>6. CASE DeleteOnGitHub
    <2>1. PICK d \in todo :
            \/ /\ removed' = [removed EXCEPT ![file.batch] = @ \cup {d}]
               /\ phase' = phase /\ output' = output /\ todo' \subseteq todo
            \/ phase' = "failed" /\ todo' = todo /\ removed' = removed
      BY <1>6 DEF DeleteOnGitHub
    <2>2. \A b \in Batches : removed'[b] \subseteq Named
      BY <2>1, Functions DEF IInv, Word
    <2> QED
      BY <1>1, <2>1, <2>2 DEF IInv, Word
  <1> QED
    BY <1>2, <1>3, <1>4, <1>5, <1>6, Actions DEF Others

-----------------------------------------------------------------------------
(* The theorems                                                            *)

\* A session that starts has the invariant.
LEMMA InitInv == Init => IInv
  <1> SUFFICES ASSUME Init
               PROVE  IInv
    OBVIOUS
  <1>1. \E b \in Batches : file = [adds |-> {}, dels |-> {}, existing |-> Drafts, batch |-> b,
                                  finished |-> FALSE]
    BY SessionOK DEF Init
  <1>2. file \in State /\ file.adds = {} /\ file.dels = {} /\ ~file.finished
    BY <1>1 DEF State, Comments
  <1>3. file # None
    BY <1>2, NoneOK
  <1>4. /\ chat \in BOOLEAN /\ lock = None /\ phase = "running" /\ todo = {} /\ output = None
        /\ pc = [c \in Calls |-> "idle"] /\ op = [c \in Calls |-> None]
        /\ copy = [c \in Calls |-> None]
        /\ claim = [b \in Batches |-> None] /\ removed = [b \in Batches |-> {}]
        /\ committed = {} /\ added = {}
    BY DEF Init, Host!Init
  <1>5. Types
    BY <1>2, <1>4 DEF Types, TypeOK, Loaded
  <1>6. \A c \in Calls : pc[c] = "idle" /\ op[c] = None
    BY <1>4
  <1>7. Phases /\ Mutex /\ Changes /\ Kept
    <2>1. Phases
      BY <1>3, <1>4 DEF Phases
    <2>2. Mutex /\ Changes
      BY <1>6 DEF Mutex, Changes, Holding, Loaded
    <2>3. Kept
      BY <1>6 DEF Kept, Asked
    <2> QED
      BY <2>1, <2>2, <2>3
  <1>8. Sessions /\ Claims /\ Word
    BY <1>2, <1>4, <1>6 DEF Sessions, Sound, Claims, OneBatchPerComment, Word, Loaded
  <1> QED
    BY <1>5, <1>7, <1>8 DEF IInv

\* Each step keeps the invariant.
LEMMA NextInv == IInv /\ [Next]_vars => IInv'
  BY TypesKept, PhasesKept, MutexKept, SessionsKept, ClaimsKept, ChangesKept, KeptKept, WordKept
     DEF IInv

\* The invariant holds in every state.
LEMMA Inductive == Spec => []IInv
  BY InitInv, NextInv, PTL DEF Spec

\* The file, the calls and the host's batches have their types.
THEOREM TypeCorrect == Spec => []TypeOK
  <1>1. IInv => TypeOK
    BY DEF IInv, Types
  <1> QED
    BY <1>1, Inductive, PTL

\* A comment that the provider was told is accepted is in the file, in the
\* review that is returned, or in a committed batch, however the calls
\* interleave and whichever of them fail.
THEOREM AcceptedIsKept == Spec => []NothingAcceptedIsLost
  <1>1. IInv => NothingAcceptedIsLost
    <2> SUFFICES ASSUME IInv, NEW c \in Said("add")
                 PROVE  \/ phase \in {"failed", "ended"}
                        \/ phase \in {"running", "exited"} /\ c \in file.adds
                        \/ phase \in {"deleting", "returned"} /\ c \in output
                        \/ \E b \in committed : c \in claim[b].adds
      BY DEF NothingAcceptedIsLost
    <2>1. c \in Asked("add") /\ pc[c] = "ok"
      BY DEF Said, Asked, Is, IInv, Types
    <2> QED
      BY <2>1 DEF IInv, Kept, Phases
  <1> QED
    BY <1>1, Inductive, PTL

\* A review returns what the validator took and deletes drafts of nitpick's
\* that a tool call named, and it returns only after finish_review.
THEOREM WordIsKept == Spec => []ReviewKeepsItsWord
  <1>1. IInv => ReviewKeepsItsWord
    BY DEF IInv, Word, ReviewKeepsItsWord, Asked, Is, Named
  <1> QED
    BY <1>1, Inductive, PTL

\* No finding is asked of the host under two batch ids.
THEOREM OneBatch == Spec => []OneBatchPerComment
  <1>1. IInv => OneBatchPerComment
    BY DEF IInv, Claims
  <1> QED
    BY <1>1, Inductive, PTL

\* The file of a review goes through the states of ActiveSession: whatever
\* the calls do beside each other, what reaches the file is a session that is
\* kept in memory behind one mutex.
THEOREM FileRefines == Spec => FileIsOneSession
  <1>1. Init => One!Init
    BY DEF Init, One!Init
  <1>2. ASSUME IInv, [Next]_vars
        PROVE  [~chat /\ file # None /\ file' # None => One!Next]_file
    <2> SUFFICES ASSUME ~chat, file # None, file' # None, file' # file
                 PROVE  One!Next
      OBVIOUS
    <2>1. PICK c \in Calls : Write(c)
      BY <1>2, Actions DEF CallAction, Others, Call, Acquire, AcquireFails, AddComment, DeleteDraft,
         ListExisting, FinishReview, TakeReceipt, HostCallFails, Unlock, ToolDies, HostWork, Exit,
         ReadSession, DeleteOnGitHub, Return, vars
    <2>2. file' = copy[c] /\ Change1(c) /\ file \in State
      BY <1>2, <2>1, WriteSound, Functions DEF IInv
    <2>3. CASE MayAdd(file, c) /\ file' = [file EXCEPT !.adds = @ \cup {c}]
      <3>1. One!AddReviewComment(c) /\ c \in Valid
        BY <2>2, <2>3 DEF MayAdd, One!AddReviewComment, State
      <3> QED
        BY <3>1 DEF One!Next
    <2>4. CASE Deletable(file, op[c].id) /\ file' = [file EXCEPT !.dels = @ \cup {op[c].id}]
      <3>1. One!DeleteDraftComment(op[c].id) /\ op[c].id \in file.existing
        BY <2>2, <2>4 DEF Deletable, One!DeleteDraftComment, State
      <3> QED
        BY <3>1 DEF One!Next
    <2>5. CASE file' = [file EXCEPT !.finished = TRUE]
      BY <2>2, <2>5 DEF One!Next, One!FinishReview, State
    <2> QED
      BY <2>2, <2>3, <2>4, <2>5 DEF Change1, Receipt
  <1> QED
    BY <1>1, <1>2, Inductive, PTL DEF Spec, FileIsOneSession
===============================================================================

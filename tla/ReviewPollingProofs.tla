-------------------------- MODULE ReviewPollingProofs --------------------------
(***************************************************************************)
(* Theorems about ReviewPolling for every set of pull requests and every   *)
(* bound: a marked head was reviewed or recorded, and one head is reviewed *)
(* no more than twice and once more for each mishap.                       *)
(***************************************************************************)
EXTENDS ReviewPolling, TLAPS, FiniteSetTheorems, SequenceTheorems

-----------------------------------------------------------------------------
(* The inductive invariant                                                 *)

In(s) == {s[i] : i \in DOMAIN s}
OnePerPr(s) == \A i, j \in DOMAIN s : s[i].pr = s[j].pr => i = j
Apart(s, t) == \A r \in In(s), q \in In(t) : r.pr # q.pr

Handling == {"details", "checkout", "review", "mark"}

\* Requests of this poll whose head is known and which have not been reviewed.
Pending ==
  CASE pc \in {"heads", "detect"} -> In(found)
    [] pc = "filter" -> In(found) \cup In(todo)
    [] pc \in Handling \ {"mark"} -> In(todo)
    [] pc = "mark" -> In(Tail(todo))
    [] OTHER -> {}

\* Those of them that the filter has let through.
Passed == IF pc = "filter" THEN In(found) ELSE IF pc = "heads" THEN {} ELSE Pending

\* A poll has at most one request of a pull request.
Lists ==
  /\ pc \in Handling \cup {"heads", "filter", "detect"} => OnePerPr(todo) /\ OnePerPr(found)
  /\ pc \in {"heads", "filter"} => Apart(todo, found)
  /\ pc = "detect" => In(todo) \subseteq In(found)
  /\ pc \in Handling => auto

\* No head is ahead of GitHub's, and none that is there is 0.
Heading ==
  /\ \A r \in Pending : r.head \in 1..head[r.pr]
  /\ pc \in Handling => Head(todo).head \in 1..head[Head(todo).pr]
  /\ pc \in {"checkout", "review", "mark"} => fresh \in Head(todo).head..head[Head(todo).pr]
  /\ \A p \in PRs, h \in Heads : h > head[p] => times[p][h] = 0

\* The head under review has been reviewed when its request is to be marked.
Reviewed == pc = "mark" => times[Head(todo).pr][fresh] > 0

\* A head later than that of a request that waits has had no review: it was
\* pushed since the request was found; and at most one when it is marked.
Later ==
  /\ \A r \in Pending, h \in Heads : h > r.head => times[r.pr][h] = 0
  /\ pc = "mark" => \A h \in Heads : h > Head(todo).head => times[Head(todo).pr][h] <= 1

New == auto => \A r \in Passed : processed[r.pr] # r.head

\* A head that may still be reviewed and is not marked has had at most one
\* review, besides one for each mishap.
Reviewable(p, h) ==
  \/ head[p] = h
  \/ pc \in {"checkout", "review"} /\ Head(todo).pr = p /\ fresh = h
Accounted ==
  /\ RepeatsAreAccounted
  /\ \A p \in PRs, h \in Heads :
       /\ Reviewable(p, h) /\ processed[p] # h
       /\ ~(pc = "mark" /\ Head(todo).pr = p)
       => times[p][h] <= 1 + mishaps

\* Without auto_review nothing is reviewed.
Unreviewed == ~auto => \A p \in PRs, h \in Heads : times[p][h] = 0

Rest ==
  Lists /\ Heading /\ Reviewed /\ MarksAreEarned /\ Later /\ New /\ Accounted /\ Unreviewed
IInv == TypeOK /\ mishaps \in Nat /\ Rest

USE DEF githubVars, diskVars, pollVars, doneVars, countVars

-----------------------------------------------------------------------------
(* Lists of requests                                                       *)

\* The head and the tail of a list are apart.
LEMMA ListTail ==
    ASSUME NEW S, NEW s \in Seq(S), s # <<>>
    PROVE  /\ Head(s) \in S /\ Head(s) \in In(s) /\ Tail(s) \in Seq(S)
           /\ In(s) = {Head(s)} \cup In(Tail(s))
           /\ OnePerPr(s) => /\ OnePerPr(Tail(s))
                             /\ \A r \in In(Tail(s)) : r.pr # Head(s).pr
  <1>1. /\ Len(s) \in Nat \ {0} /\ DOMAIN s = 1..Len(s) /\ 1 \in DOMAIN s
    BY EmptySeq, LenProperties
  <1>2. /\ Head(s) = s[1] /\ Head(s) \in S /\ Tail(s) \in Seq(S) /\ Len(Tail(s)) = Len(s) - 1
        /\ \A i \in 1..Len(Tail(s)) : Tail(s)[i] = s[i + 1]
    BY HeadTailProperties
  <1>3. DOMAIN Tail(s) = 1..(Len(s) - 1)
    BY <1>2, LenProperties
  <1>4. In(s) = {Head(s)} \cup In(Tail(s))
    <2>1. \A i \in DOMAIN s : i = 1 \/ (i - 1 \in DOMAIN Tail(s) /\ Tail(s)[i - 1] = s[i])
      BY <1>1, <1>2, <1>3
    <2>2. \A i \in DOMAIN Tail(s) : i + 1 \in DOMAIN s /\ Tail(s)[i] = s[i + 1]
      BY <1>1, <1>2, <1>3
    <2>3. \A i \in DOMAIN s : s[i] = Head(s) \/ \E j \in DOMAIN Tail(s) : Tail(s)[j] = s[i]
      BY <1>2, <2>1
    <2>4. \A i \in DOMAIN Tail(s) : \E j \in DOMAIN s : Tail(s)[i] = s[j]
      BY <2>2
    <2>5. \E i \in DOMAIN s : Head(s) = s[i]
      BY <1>1, <1>2
    <2> QED
      BY <2>3, <2>4, <2>5 DEF In
  <1>5. ASSUME OnePerPr(s)
        PROVE  OnePerPr(Tail(s)) /\ \A r \in In(Tail(s)) : r.pr # Head(s).pr
    BY <1>1, <1>2, <1>3, <1>5 DEF OnePerPr, In
  <1> QED
    BY <1>1, <1>2, <1>4, <1>5 DEF In

\* A list that is longer by one request.
LEMMA ListAppend ==
    ASSUME NEW S, NEW s \in Seq(S), NEW e \in S
    PROVE  /\ Append(s, e) \in Seq(S) /\ Append(s, e) # <<>>
           /\ In(Append(s, e)) = In(s) \cup {e}
           /\ OnePerPr(s) /\ (\A r \in In(s) : r.pr # e.pr) => OnePerPr(Append(s, e))
  <1>1. /\ Append(s, e) \in Seq(S) /\ Append(s, e) # <<>>
        /\ Len(Append(s, e)) = Len(s) + 1
        /\ \A i \in 1..Len(s) : Append(s, e)[i] = s[i]
        /\ Append(s, e)[Len(s) + 1] = e
    BY AppendProperties
  <1>2. Len(s) \in Nat /\ DOMAIN s = 1..Len(s) /\ DOMAIN Append(s, e) = 1..(Len(s) + 1)
    BY <1>1, LenProperties
  <1>3. DOMAIN Append(s, e) = DOMAIN s \cup {Len(s) + 1}
    BY <1>2
  <1>4. In(Append(s, e)) = In(s) \cup {e}
    BY <1>1, <1>2, <1>3 DEF In
  <1>5. ASSUME OnePerPr(s), \A r \in In(s) : r.pr # e.pr
        PROVE  OnePerPr(Append(s, e))
    BY <1>1, <1>2, <1>3, <1>5 DEF OnePerPr, In
  <1> QED
    BY <1>1, <1>4, <1>5

\* The empty list.
LEMMA ListEmpty == In(<<>>) = {} /\ OnePerPr(<<>>) /\ \A S : <<>> \in Seq(S)
  BY EmptySeq DEF In, OnePerPr

\* A search finds each open pull request once.
LEMMA ListSearch ==
    ASSUME TypeOK, NEW s \in SetToSeqs(open)
    PROVE  LET l == [i \in DOMAIN s |-> [pr |-> s[i], head |-> 0]]
           IN  l \in Seq(Requests) /\ OnePerPr(l)
  <1>1. Cardinality(open) \in Nat
    BY BoundsOK, FS_Subset, FS_CardinalityType DEF TypeOK
  <1>2. /\ s \in [1..Cardinality(open) -> open]
        /\ \A i, j \in 1..Cardinality(open) : i # j => s[i] # s[j]
    BY DEF SetToSeqs
  <1> DEFINE l == [i \in DOMAIN s |-> [pr |-> s[i], head |-> 0]]
  <1>3. \A i \in DOMAIN s : [pr |-> s[i], head |-> 0] \in Requests
    <2>1. \A i \in DOMAIN s : s[i] \in PRs
      BY <1>2 DEF TypeOK
    <2> QED
      BY <2>1, BoundsOK DEF Requests
  <1>4. l \in [1..Cardinality(open) -> Requests]
    BY <1>2, <1>3
  <1>5. l \in Seq(Requests)
    BY <1>1, <1>4, SeqDef
  <1>6. OnePerPr(l)
    BY <1>2 DEF OnePerPr
  <1> QED
    BY <1>5, <1>6

-----------------------------------------------------------------------------
(* Types                                                                   *)

Places == {"sleep", "search", "heads", "filter", "detect", "details", "checkout", "review",
           "mark", "cleanup"}
Asking == [at : {"none", "queued", "running"}, head : 0..MaxHead]

\* TypeOK for the variables of the poll, and for the others.
PollTyped ==
  /\ pc \in Places /\ found \in Seq(Requests) /\ todo \in Seq(Requests) /\ fresh \in 0..MaxHead
  /\ cancelled \in BOOLEAN /\ recent \in BOOLEAN
  /\ pc \in {"sleep", "search", "cleanup"} <=> todo = <<>>
RestTyped ==
  /\ auto \in AutoReview
  /\ head \in [PRs -> Heads] /\ open \subseteq PRs /\ published \subseteq PRs \X Heads
  /\ processed \in [PRs -> 0..MaxHead] /\ checkout \in [PRs -> 0..MaxHead]
  /\ asked \in [PRs -> Asking]
  /\ detected \subseteq PRs \X Heads /\ times \in [PRs -> [Heads -> Nat]]

\* TypeOK is both.
LEMMA Typed == TypeOK <=> PollTyped /\ RestTyped
  BY DEF TypeOK, PollTyped, RestTyped, Places, Asking

\* A poll that fails leaves nothing behind.
LEMMA FailsTyped ==
    ASSUME PollTyped, mishaps \in Nat, PollFails
    PROVE  PollTyped' /\ mishaps' \in Nat
  <1>1. <<>> \in Seq(Requests) /\ 0 \in 0..MaxHead
    BY ListEmpty, BoundsOK
  <1>2. /\ mishaps' = mishaps + 1 /\ recent' = TRUE /\ pc' = "sleep"
        /\ found' = <<>> /\ todo' = <<>> /\ fresh' = 0 /\ cancelled' = FALSE
    BY DEF PollFails, Mishap
  <1>3. PollTyped'
    BY <1>1, <1>2 DEF PollTyped, Places
  <1> QED
    BY <1>2, <1>3

\* What a poll step may write.
LEMMA Requested ==
    ASSUME TypeOK, todo # <<>>
    PROVE  /\ Head(todo) \in Requests /\ Head(todo).pr \in PRs /\ Head(todo).head \in 0..MaxHead
           /\ Tail(todo) \in Seq(Requests)
  <1>1. Head(todo) \in Requests /\ Tail(todo) \in Seq(Requests)
    BY ListTail DEF TypeOK
  <1> QED
    BY <1>1 DEF Requests

\* Each step keeps the types.
LEMMA TypesKept ==
    ASSUME IInv, [Next]_vars
    PROVE  TypeOK' /\ mishaps' \in Nat
  <1>0. /\ PollTyped /\ RestTyped /\ mishaps \in Nat /\ TypeOK
        /\ todo # <<>> => /\ Head(todo) \in Requests /\ Head(todo).pr \in PRs
                          /\ Head(todo).head \in 0..MaxHead /\ Tail(todo) \in Seq(Requests)
        /\ MaxHead \in Nat \ {0} /\ 0 \in 0..MaxHead /\ <<>> \in Seq(Requests)
    BY Typed, Requested, BoundsOK, ListEmpty DEF IInv
  <1> USE <1>0
  <1> SUFFICES PollTyped' /\ RestTyped' /\ mishaps' \in Nat
    BY DEF TypeOK, PollTyped, RestTyped, Places, Asking
  <1>1. CASE StartPoll
    BY <1>1 DEF StartPoll, PollTyped, RestTyped, Places
  <1>2. CASE Search
    <2>1. RestTyped'
      BY <1>2 DEF Search, RestTyped
    <2>2. CASE PollFails
      BY <2>1, <2>2, FailsTyped
    <2>3. CASE \E s \in SetToSeqs(open) :
                 /\ NextRequest([i \in DOMAIN s |-> [pr |-> s[i], head |-> 0]], "heads", "cleanup")
                 /\ found' = <<>> /\ UNCHANGED <<recent, fresh, cancelled, countVars>>
      <3>1. PICK s \in SetToSeqs(open) :
                 /\ NextRequest([i \in DOMAIN s |-> [pr |-> s[i], head |-> 0]], "heads", "cleanup")
                 /\ found' = <<>> /\ UNCHANGED <<recent, fresh, cancelled, countVars>>
        BY <2>3
      <3>2. todo' \in Seq(Requests) /\ pc' = IF todo' = <<>> THEN "cleanup" ELSE "heads"
        BY <3>1, ListSearch DEF NextRequest
      <3> QED
        BY <2>1, <3>1, <3>2, ListEmpty DEF PollTyped, Places
    <2> QED
      BY <1>2, <2>2, <2>3 DEF Search
  <1>3. CASE ReadHead
    <2>1. RestTyped'
      BY <1>3 DEF ReadHead, RestTyped
    <2> DEFINE r == [Head(todo) EXCEPT !.head = head[Head(todo).pr]]
    <2>2. r \in Requests
      <3>1. Head(todo) \in Requests /\ head[Head(todo).pr] \in 0..MaxHead
        BY <1>3 DEF ReadHead, PollTyped, RestTyped, Heads
      <3> QED
        BY <3>1 DEF Requests
    <2>3. Append(found, r) \in Seq(Requests) /\ Append(found, r) # <<>> /\ <<>> \in Seq(Requests)
      BY <2>2, ListAppend, ListEmpty DEF PollTyped
    <2> HIDE DEF r
    <2>4. CASE PollFails
      BY <2>1, <2>4, FailsTyped
    <2>5. CASE ~PollFails
      BY <1>3, <2>1, <2>3, <2>5 DEF ReadHead, PollTyped, Places, r
    <2> QED
      BY <2>4, <2>5
  <1>4. CASE FilterRequest
    <2>1. RestTyped'
      BY <1>4 DEF FilterRequest, RestTyped
    <2>2. todo # <<>>
      BY <1>4 DEF FilterRequest, PollTyped
    <2>3. Append(found, Head(todo)) \in Seq(Requests) /\ Append(found, Head(todo)) # <<>>
      BY <2>2, ListAppend DEF PollTyped
    <2>4. CASE PollFails
      BY <2>1, <2>4, FailsTyped
    <2>5. CASE ~PollFails
      BY <1>4, <2>1, <2>2, <2>3, <2>5 DEF FilterRequest, PollTyped, Places
    <2> QED
      BY <2>4, <2>5
  <1>5. CASE Detect
    <2>1. todo # <<>> /\ Head(todo).pr \in PRs /\ Head(todo).head \in Heads
      BY <1>5, ListTail DEF Detect, PollTyped, IInv, Rest, Lists, Heading, Pending, RestTyped, Heads
    <2>2. processed' \in [PRs -> 0..MaxHead] /\ detected' \subseteq PRs \X Heads
      <3>1. Head(todo).head \in 0..MaxHead /\ <<Head(todo).pr, Head(todo).head>> \in PRs \X Heads
        BY <2>1
      <3>2. processed' = processed \/ processed' = [processed EXCEPT ![Head(todo).pr] = Head(todo).head]
        BY <1>5 DEF Detect, MarkProcessed
      <3>3. detected' = detected \/ detected' = detected \cup {<<Head(todo).pr, Head(todo).head>>}
        BY <1>5 DEF Detect
      <3> QED
        BY <3>1, <3>2, <3>3 DEF RestTyped
    <2>3. RestTyped'
      BY <1>5, <2>2 DEF Detect, RestTyped
    <2>4. CASE PollFails
      BY <2>3, <2>4, FailsTyped
    <2>5. CASE ~PollFails
      <3>1. found # <<>>
        BY <1>5, <2>1, ListTail, ListEmpty DEF Detect, IInv, Rest, Lists, PollTyped
      <3> QED
        BY <1>5, <2>1, <2>3, <2>5, <3>1, ListEmpty DEF Detect, PollTyped, Places
    <2> QED
      BY <2>4, <2>5
  <1>6. CASE ReadDetails
    <2>1. RestTyped'
      BY <1>6 DEF ReadDetails, RestTyped
    <2>2. CASE PollFails
      BY <2>1, <2>2, FailsTyped
    <2>3. CASE ~PollFails
      <3>1. todo # <<>> /\ fresh' = head[Head(todo).pr] /\ pc' = "checkout" /\ mishaps' = mishaps
            /\ UNCHANGED <<recent, found, todo, cancelled>>
        BY <1>6, <2>3 DEF ReadDetails, PollTyped
      <3>2. fresh' \in 0..MaxHead
        BY <3>1 DEF RestTyped, Heads
      <3> QED
        BY <2>1, <3>1, <3>2 DEF PollTyped, Places
    <2> QED
      BY <2>2, <2>3
  <1>7. CASE EnsureCheckout
    <2>1. RestTyped'
      BY <1>7 DEF EnsureCheckout, RestTyped, PollTyped
    <2>2. CASE PollFails
      BY <2>1, <2>2, FailsTyped
    <2>3. CASE ~PollFails
      BY <1>7, <2>1, <2>3 DEF EnsureCheckout, PollTyped, Places
    <2> QED
      BY <2>2, <2>3
  <1>8. CASE Review
    <2>1. times' \in [PRs -> [Heads -> Nat]]
      <3>1. times' = times \/ times' = [times EXCEPT ![Head(todo).pr][fresh] = @ + 1]
        BY <1>8 DEF Review
      <3>2. Head(todo).pr \in PRs /\ fresh \in Heads
        BY <1>8, BoundsOK DEF Review, PollTyped, RestTyped, IInv, Rest, Heading, Handling, Heads
      <3>3. times[Head(todo).pr] \in [Heads -> Nat]
        BY <3>2 DEF RestTyped
      <3>4. [times[Head(todo).pr] EXCEPT ![fresh] = @ + 1] \in [Heads -> Nat]
        BY <3>2, <3>3
      <3> QED
        BY <3>1, <3>2, <3>4 DEF RestTyped
    <2>2. RestTyped'
      BY <1>8, <2>1 DEF Review, RestTyped
    <2>3. CASE PollFails
      BY <2>2, <2>3, FailsTyped
    <2>4. CASE ~PollFails
      <3>1. mishaps' \in Nat
        BY <1>8, <2>4 DEF Review, Mishap
      <3>2. PollTyped'
        <4>1. todo # <<>> /\ found' = found /\ recent' = recent
          BY <1>8, <2>4 DEF Review, PollTyped
        <4>2. \/ pc' = "mark" /\ todo' = todo /\ fresh' = fresh /\ cancelled' = cancelled
              \/ /\ todo' = Tail(todo) /\ pc' = IF todo' = <<>> THEN "cleanup" ELSE "details"
                 /\ fresh' = 0 /\ cancelled' = FALSE
          BY <1>8, <2>4 DEF Review, NextRequest
        <4> QED
          BY <4>1, <4>2 DEF PollTyped, Places
      <3> QED
        BY <2>2, <3>1, <3>2
    <2> QED
      BY <2>3, <2>4
  <1>9. CASE Mark
    <2>1. processed' \in [PRs -> 0..MaxHead]
      BY <1>9 DEF Mark, MarkProcessed, RestTyped, PollTyped
    <2>2. RestTyped'
      BY <1>9, <2>1 DEF Mark, RestTyped
    <2>3. CASE PollFails
      BY <2>2, <2>3, FailsTyped
    <2>4. CASE ~PollFails
      <3>1. /\ todo # <<>> /\ found' = found /\ recent' = recent /\ cancelled' = cancelled
            /\ todo' = Tail(todo) /\ pc' = IF todo' = <<>> THEN "cleanup" ELSE "details"
            /\ fresh' = 0 /\ mishaps' = mishaps
        BY <1>9, <2>4 DEF Mark, NextRequest, PollTyped
      <3> QED
        BY <2>2, <3>1 DEF PollTyped, Places
    <2> QED
      BY <2>3, <2>4
  <1>10. CASE CleanUp
    <2>1. checkout' \in [PRs -> 0..MaxHead] /\ mishaps' \in Nat
      <3>1. \E ps : RemoveCheckouts(ps)
        BY <1>10 DEF CleanUp
      <3>2. checkout' \in [PRs -> 0..MaxHead]
        BY <3>1 DEF RemoveCheckouts, RestTyped
      <3>3. mishaps' = mishaps \/ mishaps' = mishaps + 1
        BY <1>10 DEF CleanUp, Mishap
      <3> QED
        BY <3>2, <3>3
    <2> QED
      BY <1>10, <2>1, ListEmpty DEF CleanUp, PollTyped, RestTyped, Places
  <1>11. CASE Tick
    BY <1>11 DEF Tick, PollTyped, RestTyped
  <1>12. CASE Reset
    <2>1. /\ processed' = [p \in PRs |-> 0] /\ checkout' = [p \in PRs |-> 0] /\ recent' = FALSE
          /\ UNCHANGED <<auto, githubVars, pollVars, asked, doneVars>> /\ mishaps' = mishaps + 1
      BY <1>12 DEF Reset, Mishap
    <2>2. processed' \in [PRs -> 0..MaxHead] /\ checkout' \in [PRs -> 0..MaxHead]
      BY <2>1
    <2>3. PollTyped'
      BY <2>1 DEF PollTyped
    <2>4. RestTyped'
      BY <2>1, <2>2 DEF RestTyped
    <2> QED
      BY <2>1, <2>3, <2>4
  <1>13. CASE Crash
    <2>1. NoUserReview \in Asking
      BY DEF NoUserReview, Asking
    <2> QED
      <3>1. /\ mishaps' = mishaps + 1 /\ recent' = FALSE /\ pc' = "sleep"
            /\ found' = <<>> /\ todo' = <<>> /\ fresh' = 0 /\ cancelled' = FALSE
            /\ asked' = [p \in PRs |-> NoUserReview]
            /\ UNCHANGED <<auto, githubVars, diskVars, doneVars>>
        BY <1>13 DEF Crash, Mishap
      <3>2. PollTyped'
        BY <3>1 DEF PollTyped, Places
      <3>3. RestTyped'
        BY <2>1, <3>1 DEF RestTyped
      <3> QED
        BY <3>1, <3>2, <3>3
  <1>14. CASE CleanUpAsked
    BY <1>14 DEF CleanUpAsked, RemoveCheckouts, PollTyped, RestTyped
  <1>15. CASE \E p \in PRs : Push(p) \/ Close(p) \/ Publish(p)
    <2>1. PICK p \in PRs : Push(p) \/ Close(p) \/ Publish(p)
      BY <1>15
    <2>2. /\ UNCHANGED <<auto, diskVars, recent, pollVars, asked, doneVars>> /\ mishaps' = mishaps
      BY <2>1 DEF Push, Close, Publish
    <2>3. head' \in [PRs -> Heads]
      <3>1. head' = head \/ (head[p] < MaxHead /\ head' = [head EXCEPT ![p] = @ + 1])
        BY <2>1 DEF Push, Close, Publish
      <3>2. head[p] \in Heads /\ (head[p] < MaxHead => head[p] + 1 \in Heads)
        BY DEF RestTyped, Heads
      <3> QED
        BY <3>1, <3>2 DEF RestTyped
    <2>4. open' \subseteq PRs /\ published' \subseteq PRs \X Heads
      BY <2>1 DEF Push, Close, Publish, RestTyped
    <2>5. PollTyped'
      BY <2>2 DEF PollTyped
    <2>6. RestTyped'
      BY <2>2, <2>3, <2>4 DEF RestTyped
    <2> QED
      BY <2>2, <2>5, <2>6
  <1>16. CASE \E p \in PRs : Ask(p) \/ RunAsked(p) \/ EndAsked(p)
    <2>1. PICK p \in PRs : Ask(p) \/ RunAsked(p) \/ EndAsked(p)
      BY <1>16
    <2>2. NoUserReview \in Asking /\ [at |-> "queued", head |-> head[p]] \in Asking
      BY DEF NoUserReview, Asking, RestTyped, Heads
    <2>3. [asked[p] EXCEPT !.at = "running"] \in Asking
      BY DEF Asking, RestTyped
    <2>4. asked' \in [PRs -> Asking]
      BY <2>1, <2>2, <2>3 DEF Ask, RunAsked, EndAsked, RestTyped
    <2>5. checkout' \in [PRs -> 0..MaxHead] /\ cancelled' \in BOOLEAN
      <3>1. checkout' = checkout \/ checkout' = [checkout EXCEPT ![p] = head[p]]
        BY <2>1 DEF Ask, RunAsked, EndAsked
      <3>2. cancelled' \in BOOLEAN
        BY <2>1 DEF Ask, RunAsked, EndAsked, PollTyped
      <3> QED
        <4>1. head[p] \in 0..MaxHead
          BY DEF RestTyped, Heads
        <4> QED
          BY <3>1, <3>2, <4>1 DEF RestTyped
    <2> QED
      BY <2>1, <2>4, <2>5 DEF Ask, RunAsked, EndAsked, UserActs, PollTyped, RestTyped
  <1>17. CASE UNCHANGED vars
    BY <1>17 DEF vars, PollTyped, RestTyped
  <1> QED
    BY <1>1, <1>2, <1>3, <1>4, <1>5, <1>6, <1>7, <1>8, <1>9, <1>10, <1>11, <1>12, <1>13, <1>14,
       <1>15, <1>16, <1>17 DEF Next, Poll

-----------------------------------------------------------------------------
(* The steps                                                               *)

\* What the types say of the numbers.
LEMMA Numbers ==
    ASSUME TypeOK, mishaps \in Nat
    PROVE  /\ \A p \in PRs : head[p] \in Nat /\ head[p] \in 1..MaxHead /\ processed[p] \in 0..MaxHead
           /\ \A p \in PRs, h \in Heads : times[p][h] \in Nat
           /\ Heads \subseteq Nat /\ MaxHead \in Nat
  BY BoundsOK DEF TypeOK, Heads

\* Requests that wait, and the one in hand, are requests.
LEMMA Waiting ==
    ASSUME IInv
    PROVE  /\ \A r \in Pending : r \in Requests /\ r.pr \in PRs /\ r.head \in Heads
           /\ pc \in Handling => /\ todo # <<>> /\ Head(todo).pr \in PRs /\ Head(todo).head \in Heads
                                 /\ Head(todo) \in In(todo) /\ Tail(todo) \in Seq(Requests)
                                 /\ In(todo) = {Head(todo)} \cup In(Tail(todo))
                                 /\ \A r \in In(Tail(todo)) : r.pr # Head(todo).pr
           /\ pc \in {"checkout", "review", "mark"} => fresh \in Heads
  <1>1. todo \in Seq(Requests) /\ found \in Seq(Requests) /\ (pc \in Handling => todo # <<>>)
    BY DEF IInv, TypeOK, Handling
  <1>2. \A s \in Seq(Requests) : In(s) \subseteq Requests
    BY ElementOfSeq, LenProperties DEF In
  <1>3. pc \in Handling => /\ Head(todo) \in Requests /\ Head(todo) \in In(todo)
                           /\ Tail(todo) \in Seq(Requests)
                           /\ In(todo) = {Head(todo)} \cup In(Tail(todo))
                           /\ \A r \in In(Tail(todo)) : r.pr # Head(todo).pr
    BY <1>1, ListTail DEF IInv, Rest, Lists
  <1>4. Pending \subseteq Requests
    BY <1>1, <1>2, <1>3 DEF Pending, Handling
  <1>5. \A r \in Requests : r.pr \in PRs
    BY DEF Requests
  <1>6. \A r \in Pending : r.head \in 1..head[r.pr]
    BY DEF IInv, Rest, Heading
  <1>7. \A p \in PRs : head[p] \in 1..MaxHead
    BY Numbers DEF IInv
  <1>8. \A r \in Pending : r \in Requests /\ r.pr \in PRs /\ r.head \in Heads
    BY <1>4, <1>5, <1>6, <1>7, BoundsOK DEF Heads
  <1>9. pc \in Handling => Head(todo).pr \in PRs /\ Head(todo).head \in Heads
    BY <1>3, <1>5, <1>7, BoundsOK DEF Heads, IInv, Rest, Heading
  <1>10. pc \in {"checkout", "review", "mark"} => fresh \in Heads
    BY <1>7, <1>9, BoundsOK DEF Heads, IInv, Rest, Heading, Handling
  <1> QED
    BY <1>1, <1>3, <1>8, <1>9, <1>10

\* A poll that ends, well or not, marks and reviews nothing.
LEMMA EndKeeps ==
    ASSUME IInv, TypeOK', pc' = "sleep", found' = <<>>, todo' = <<>>,
           UNCHANGED <<auto, head, processed, doneVars>>,
           mishaps' = mishaps + 1 \/ (mishaps' = mishaps /\ pc # "mark")
    PROVE  Rest'
  <1>1. Pending' = {} /\ Passed' = {} /\ pc' \notin Handling \cup {"heads", "filter", "detect"}
    BY DEF Pending, Passed, Handling
  <1>2. Lists' /\ Heading' /\ Reviewed' /\ Later' /\ New'
    BY <1>1 DEF Lists, Heading, Reviewed, Later, New, IInv, Rest, Handling
  <1>3. MarksAreEarned' /\ Unreviewed'
    BY DEF MarksAreEarned, Unreviewed, IInv, Rest
  <1>4. Accounted'
    <2>1. \A p \in PRs, h \in Heads : times[p][h] \in Nat /\ times[p][h] <= 2 + mishaps
      BY Numbers DEF IInv, Rest, Accounted, RepeatsAreAccounted
    <2>2. \A p \in PRs, h \in Heads : Reviewable(p, h)' => Reviewable(p, h)
      BY DEF Reviewable
    <2>3. RepeatsAreAccounted'
      BY <2>1 DEF RepeatsAreAccounted, IInv
    <2>4. CASE mishaps' = mishaps + 1
      BY <2>1, <2>3, <2>4 DEF Accounted, IInv
    <2>5. CASE mishaps' = mishaps /\ pc # "mark"
      BY <2>2, <2>3, <2>5 DEF Accounted, IInv, Rest
    <2> QED
      BY <2>4, <2>5
  <1> QED
    BY <1>2, <1>3, <1>4 DEF Rest

\* A step of the poll that marks and reviews nothing: it reads heads, filters,
\* or goes on to the next request.
LEMMA MoveKeeps ==
    ASSUME IInv, TypeOK', pc # "mark", pc' # "mark", Lists',
           UNCHANGED <<auto, head, processed, doneVars>>, mishaps' \in {mishaps, mishaps + 1},
           \A r \in Pending' : r \in Pending \/ (r.pr \in PRs /\ r.head = head[r.pr]),
           auto => \A r \in Passed' : r \in Passed \/ processed[r.pr] # r.head,
           pc' \in Handling => Head(todo') \in Pending',
           pc' \in {"checkout", "review"} => \/ fresh' = head[Head(todo').pr]
                                             \/ pc = "checkout" /\ fresh' = fresh /\ todo' = todo
    PROVE  Rest'
  <1>1. \A p \in PRs : head[p] \in 1..MaxHead /\ head[p] \in Nat
    BY Numbers DEF IInv
  <1>2. \A r \in Pending' : r.pr \in PRs /\ r.head \in 1..head[r.pr]
    BY <1>1, Waiting DEF IInv, Rest, Heading
  <1>3. pc' \in {"checkout", "review"} => fresh' \in Head(todo').head..head[Head(todo').pr]
    <2>1. CASE fresh' = head[Head(todo').pr] /\ pc' \in Handling
      BY <1>1, <1>2, <2>1
    <2>2. CASE pc = "checkout" /\ fresh' = fresh /\ todo' = todo
      BY <2>2 DEF IInv, Rest, Heading
    <2> QED
      BY <2>1, <2>2 DEF Handling
  <1>4. Heading'
    BY <1>2, <1>3 DEF Heading, IInv, Rest
  <1>5. Later'
    BY <1>1 DEF Later, Heading, IInv, Rest, Heads
  <1>6. New' /\ Reviewed' /\ MarksAreEarned' /\ Unreviewed'
    BY DEF New, Reviewed, MarksAreEarned, Unreviewed, IInv, Rest
  <1>7. \A p \in PRs, h \in Heads : Reviewable(p, h)' => Reviewable(p, h)
    BY DEF Reviewable
  <1>8. Accounted'
    <2>1. \A p \in PRs, h \in Heads : times[p][h] \in Nat
      BY Numbers DEF IInv
    <2> QED
      BY <1>7, <2>1 DEF Accounted, RepeatsAreAccounted, IInv, Rest
  <1> QED
    BY <1>4, <1>5, <1>6, <1>8 DEF Rest

\* A failing poll.
LEMMA FailKeeps ==
    ASSUME IInv, TypeOK', PollFails, UNCHANGED <<auto, head, processed, doneVars>>
    PROVE  Rest'
  BY EndKeeps DEF PollFails, Mishap

\* Steps of the poll that read and filter.
LEMMA SearchKeeps ==
    ASSUME IInv, TypeOK', StartPoll \/ Search
    PROVE  Rest'
  <1>1. UNCHANGED <<auto, head, processed, doneVars>> /\ pc # "mark"
    BY DEF StartPoll, Search
  <1>2. CASE PollFails
    BY <1>1, <1>2, FailKeeps
  <1>3. CASE ~PollFails
    <2>1. mishaps' = mishaps /\ pc' \in {"search", "heads", "cleanup"}
      BY <1>3 DEF StartPoll, Search, NextRequest
    <2>2. pc' = "heads" => OnePerPr(todo') /\ found' = <<>>
      <3>1. ASSUME pc' = "heads"
            PROVE  \E s \in SetToSeqs(open) :
                     /\ todo' = [i \in DOMAIN s |-> [pr |-> s[i], head |-> 0]] /\ found' = <<>>
        BY <1>3, <3>1 DEF StartPoll, Search, NextRequest
      <3> QED
        BY <3>1, ListSearch DEF IInv
    <2>3. pc' = "heads" => In(found)' = {}
      BY <2>2, ListEmpty DEF In
    <2>4. Lists'
      BY <2>1, <2>2, <2>3, ListEmpty DEF Lists, Apart, OnePerPr, In, Handling
    <2>5. Pending' = {} /\ Passed' = {}
      BY <2>1, <2>3 DEF Pending, Passed, Handling, In
    <2> QED
      BY <1>1, <2>1, <2>4, <2>5, MoveKeeps DEF Handling
  <1> QED
    BY <1>2, <1>3

\* The head of a request is read.
LEMMA ReadHeadKeeps ==
    ASSUME IInv, TypeOK', ReadHead
    PROVE  Rest'
  <1>1. UNCHANGED <<auto, head, processed, doneVars>> /\ pc = "heads"
    BY DEF ReadHead
  <1>2. CASE PollFails
    BY <1>1, <1>2, FailKeeps
  <1>3. CASE ~PollFails
    <2> DEFINE r == [Head(todo) EXCEPT !.head = head[Head(todo).pr]]
    <2>1. /\ mishaps' = mishaps
          /\ \/ pc' = "heads" /\ todo' = Tail(todo) /\ found' = Append(found, r)
             \/ pc' = "filter" /\ todo' = Append(found, r) /\ found' = <<>>
      BY <1>3 DEF ReadHead
    <2>2. todo # <<>> /\ todo \in Seq(Requests) /\ found \in Seq(Requests)
      BY <1>1 DEF IInv, TypeOK
    <2>3. /\ Head(todo) \in Requests /\ Head(todo) \in In(todo)
          /\ In(todo) = {Head(todo)} \cup In(Tail(todo))
          /\ OnePerPr(Tail(todo)) /\ \A q \in In(Tail(todo)) : q.pr # Head(todo).pr
      BY <1>1, <2>2, ListTail DEF IInv, Rest, Lists
    <2>4. OnePerPr(found) /\ Apart(todo, found) /\ In(found) = Pending
      <3>1. In(found) = Pending
        BY <1>1 DEF Pending, Handling
      <3>2. OnePerPr(found) /\ Apart(todo, found)
        BY <1>1 DEF IInv, Rest, Lists
      <3> QED
        BY <3>1, <3>2
    <2>5. r \in Requests /\ r.pr = Head(todo).pr /\ r.pr \in PRs /\ r.head = head[r.pr]
      <3>1. Head(todo).pr \in PRs /\ head[Head(todo).pr] \in 0..MaxHead
        BY <2>3, Numbers DEF Requests, IInv
      <3> QED
        BY <2>3, <3>1 DEF Requests
    <2> HIDE DEF r
    <2>6. /\ In(Append(found, r)) = In(found) \cup {r}
          /\ OnePerPr(Append(found, r))
      <3>1. \A q \in In(found) : q.pr # r.pr
        BY <2>3, <2>4, <2>5 DEF Apart
      <3> QED
        BY <2>2, <2>4, <2>5, <3>1, ListAppend
    <2>7. Apart(Tail(todo), Append(found, r))
      BY <2>3, <2>4, <2>5, <2>6 DEF Apart
    <2>8. In(<<>>) = {} /\ OnePerPr(<<>>)
      BY ListEmpty
    <2>9. Lists'
      <3>1. OnePerPr(todo') /\ OnePerPr(found')
        BY <2>1, <2>3, <2>6, <2>8
      <3>2. Apart(todo', found')
        BY <2>1, <2>7, <2>8 DEF Apart
      <3>3. pc' \in {"heads", "filter"}
        BY <2>1
      <3>4. OnePerPr(todo)' /\ OnePerPr(found)' /\ Apart(todo, found)'
        BY <3>1, <3>2 DEF OnePerPr, Apart, In
      <3> QED
        BY <3>3, <3>4 DEF Lists, Handling
    <2>10. Pending' = In(found) \cup {r} /\ Passed' = {}
      BY <2>1, <2>6, <2>8 DEF Pending, Passed, In, Handling
    <2> QED
      BY <1>1, <2>1, <2>4, <2>5, <2>9, <2>10, MoveKeeps DEF Handling
  <1> QED
    BY <1>2, <1>3

\* A request is filtered: one that passes is not the marked one.
LEMMA FilterKeeps ==
    ASSUME IInv, TypeOK', FilterRequest
    PROVE  Rest'
  <1>1. UNCHANGED <<auto, head, processed, doneVars>> /\ pc = "filter"
    BY DEF FilterRequest
  <1>2. CASE PollFails
    BY <1>1, <1>2, FailKeeps
  <1>3. CASE ~PollFails
    <2> DEFINE r == Head(todo)
               new == NeedsReview(r) /\ ~AlreadyReviewed(r)
    <2>1. /\ mishaps' = mishaps
          /\ found' = IF new THEN Append(found, r) ELSE found
          /\ \/ pc' = "filter" /\ todo' = Tail(todo)
             \/ pc' = "cleanup"
             \/ pc' = "detect" /\ todo' = found'
      BY <1>3 DEF FilterRequest
    <2>2. todo # <<>> /\ todo \in Seq(Requests) /\ found \in Seq(Requests)
      BY <1>1 DEF IInv, TypeOK
    <2>3. /\ r \in Requests /\ r \in In(todo)
          /\ In(todo) = {r} \cup In(Tail(todo))
          /\ OnePerPr(Tail(todo)) /\ \A q \in In(Tail(todo)) : q.pr # r.pr
      BY <1>1, <2>2, ListTail DEF IInv, Rest, Lists
    <2>4. OnePerPr(found) /\ Apart(todo, found) /\ Pending = In(found) \cup In(todo)
          /\ Passed = In(found)
      BY <1>1 DEF IInv, Rest, Lists, Pending, Passed, Handling
    <2>5. new => processed[r.pr] # r.head
      BY DEF NeedsReview
    <2> HIDE DEF r, new
    <2>6. /\ In(Append(found, r)) = In(found) \cup {r}
          /\ OnePerPr(Append(found, r))
      <3>1. \A q \in In(found) : q.pr # r.pr
        BY <2>3, <2>4 DEF Apart
      <3> QED
        BY <2>2, <2>3, <2>4, <3>1, ListAppend
    <2>7. Apart(Tail(todo), Append(found, r)) /\ Apart(Tail(todo), found)
      BY <2>3, <2>4, <2>6 DEF Apart
    <2>8. /\ OnePerPr(found') /\ Apart(Tail(todo), found')
          /\ In(found') \subseteq In(found) \cup {r}
          /\ \A q \in In(found') : q \in Passed \/ processed[q.pr] # q.head
      BY <2>1, <2>4, <2>5, <2>6, <2>7
    <2>9. Lists'
      <3>1. /\ pc' \in {"filter", "detect"} => OnePerPr(todo') /\ OnePerPr(found')
            /\ pc' = "filter" => Apart(todo', found')
            /\ pc' = "detect" => todo' = found'
            /\ pc' \in {"filter", "cleanup", "detect"}
        BY <2>1, <2>3, <2>8
      <3>2. /\ pc' \in {"filter", "detect"} => OnePerPr(todo)' /\ OnePerPr(found)'
            /\ pc' = "filter" => Apart(todo, found)'
            /\ pc' = "detect" => (In(todo) \subseteq In(found))'
        BY <3>1 DEF OnePerPr, Apart, In
      <3> QED
        BY <3>1, <3>2 DEF Lists, Handling
    <2>10. Pending' \subseteq Pending
      <3>1. CASE pc' = "filter"
        BY <2>1, <2>3, <2>4, <2>8, <3>1 DEF Pending, In, Handling
      <3>2. CASE pc' # "filter"
        BY <2>1, <2>3, <2>4, <2>8, <3>2 DEF Pending, In, Handling
      <3> QED
        BY <3>1, <3>2
    <2>11. Passed' \subseteq In(found')
      BY <2>1 DEF Passed, Pending, In, Handling
    <2> QED
      BY <1>1, <2>1, <2>8, <2>9, <2>10, <2>11, MoveKeeps DEF Handling
  <1> QED
    BY <1>2, <1>3

\* A request is recorded; without auto_review its head is marked.
LEMMA DetectKeeps ==
    ASSUME IInv, TypeOK', Detect
    PROVE  Rest'
  <1>1. UNCHANGED <<auto, head, times>> /\ pc = "detect"
    BY DEF Detect
  <1>2. CASE PollFails /\ UNCHANGED <<detected, processed>>
    BY <1>1, <1>2, FailKeeps
  <1>3. CASE ~(PollFails /\ UNCHANGED <<detected, processed>>)
    <2> DEFINE r == Head(todo)
    <2>1. /\ mishaps' = mishaps /\ found' = found
          /\ IF auto THEN UNCHANGED <<detected, processed>>
             ELSE detected' = detected \cup {<<r.pr, r.head>>} /\ MarkProcessed(r)
          /\ \/ pc' = "detect" /\ todo' = Tail(todo)
             \/ pc' = "details" /\ auto /\ todo' = found
             \/ pc' = "cleanup" /\ ~auto
      BY <1>3 DEF Detect
    <2>2. todo # <<>> /\ todo \in Seq(Requests) /\ found \in Seq(Requests)
      BY <1>1 DEF IInv, TypeOK
    <2>3. /\ r \in In(todo) /\ r \in Requests /\ In(todo) = {r} \cup In(Tail(todo))
          /\ OnePerPr(Tail(todo))
      BY <1>1, <2>2, ListTail DEF IInv, Rest, Lists
    <2>4. Pending = In(found) /\ Passed = Pending
      BY <1>1 DEF Pending, Passed, Handling
    <2>5. OnePerPr(found) /\ In(todo) \subseteq In(found)
      BY <1>1 DEF IInv, Rest, Lists
    <2> HIDE DEF r
    <2>6. found # <<>>
      BY <2>3, <2>5, ListEmpty
    <2>7. Head(found) \in In(found)
      BY <2>2, <2>6, ListTail
    <2>8. Lists'
      <3>1. /\ pc' \in {"detect", "details"} => OnePerPr(todo') /\ OnePerPr(found')
            /\ pc' = "detect" => In(todo') \subseteq In(found')
            /\ pc' \in {"detect", "details", "cleanup"} /\ (pc' = "details" => auto')
        BY <1>1, <2>1, <2>3, <2>5
      <3>2. /\ pc' \in {"detect", "details"} => OnePerPr(todo)' /\ OnePerPr(found)'
            /\ pc' = "detect" => (In(todo) \subseteq In(found))'
        BY <3>1 DEF OnePerPr, In
      <3> QED
        BY <3>1, <3>2 DEF Lists, Handling
    <2>9. Pending' \subseteq Pending
      <3>1. CASE pc' = "detect"
        BY <2>1, <2>4, <3>1 DEF Pending, In, Handling
      <3>2. CASE pc' = "details"
        BY <2>1, <2>4, <3>2 DEF Pending, In, Handling
      <3>3. CASE pc' = "cleanup"
        BY <3>3 DEF Pending, Handling
      <3> QED
        BY <2>1, <3>1, <3>2, <3>3
    <2>10. CASE auto
      <3>1. Passed' = Pending'
        BY <2>1 DEF Passed, Pending
      <3>2. pc' \in Handling => Head(todo') \in Pending'
        BY <2>1, <2>7, <2>10 DEF Pending, Handling, In
      <3> QED
        BY <1>1, <2>1, <2>4, <2>8, <2>9, <2>10, <3>1, <3>2, MoveKeeps DEF Handling
    <2>11. CASE ~auto
      <3>1. \A p \in PRs, h \in Heads : times[p][h] = 0
        BY <2>11 DEF IInv, Rest, Unreviewed
      <3>2. pc' \in {"detect", "cleanup"} /\ auto' = auto /\ times' = times /\ head' = head
        BY <1>1, <2>1, <2>11
      <3>3. Heading'
        BY <2>9, <3>1, <3>2 DEF Heading, Handling, IInv, Rest
      <3>4. Reviewed' /\ New' /\ Unreviewed'
        BY <2>11, <3>1, <3>2 DEF Reviewed, New, Unreviewed
      <3>7. Later'
        <4>1. \A q \in Pending, h \in Heads : times'[q.pr][h] = 0
          BY <3>1, <3>2, Waiting
        <4> QED
          BY <2>9, <3>2, <4>1 DEF Later
      <3>5. Accounted'
        BY <2>1, <3>1, <3>2 DEF Accounted, RepeatsAreAccounted, IInv
      <3>6. MarksAreEarned'
        <4>1. r.pr \in PRs /\ detected' = detected \cup {<<r.pr, r.head>>}
              /\ processed' = [processed EXCEPT ![r.pr] = r.head] /\ processed \in [PRs -> 0..MaxHead]
          BY <2>1, <2>3, <2>11 DEF MarkProcessed, Requests, IInv, TypeOK
        <4>2. \A p \in PRs : processed[p] # 0 => <<p, processed[p]>> \in detected
          BY <2>11 DEF MarksAreEarned, IInv, Rest
        <4>3. \A p \in PRs : processed'[p] # 0 => <<p, processed'[p]>> \in detected'
          BY <4>1, <4>2
        <4> QED
          BY <2>11, <3>2, <4>3 DEF MarksAreEarned
      <3> QED
        BY <2>8, <3>3, <3>4, <3>5, <3>6, <3>7 DEF Rest
    <2> QED
      BY <2>10, <2>11
  <1> QED
    BY <1>2, <1>3

\* The details are read again, and the checkout is prepared.
LEMMA PrepareKeeps ==
    ASSUME IInv, TypeOK', ReadDetails \/ EnsureCheckout
    PROVE  Rest'
  <1>1. UNCHANGED <<auto, head, processed, doneVars>> /\ pc \in {"details", "checkout"}
    BY DEF ReadDetails, EnsureCheckout
  <1>2. CASE PollFails
    BY <1>1, <1>2, FailKeeps
  <1>3. CASE ~PollFails
    <2>1. /\ mishaps' = mishaps /\ todo' = todo /\ found' = found
          /\ \/ pc' = "checkout" /\ fresh' = head[Head(todo).pr]
             \/ pc' = "review" /\ fresh' = fresh /\ pc = "checkout"
      BY <1>3 DEF ReadDetails, EnsureCheckout
    <2>2. Pending = In(todo) /\ Pending' = In(todo) /\ Passed = Pending /\ Passed' = Pending'
      BY <1>1, <2>1 DEF Pending, Passed, Handling, In
    <2>3. Head(todo) \in In(todo)
      BY <1>1, Waiting DEF Handling
    <2>4. Lists'
      BY <1>1, <2>1 DEF Lists, OnePerPr, Handling, IInv, Rest
    <2> QED
      BY <1>1, <2>1, <2>2, <2>3, <2>4, MoveKeeps DEF Handling
  <1> QED
    BY <1>2, <1>3

\* A review completes: its head has one more review, and had none if it is
\* later than the one the request was found with.
LEMMA ReviewKeeps ==
    ASSUME IInv, TypeOK', Review
    PROVE  Rest'
  <1>1. UNCHANGED <<auto, head, processed, detected>> /\ pc = "review"
    BY DEF Review
  <1>2. CASE PollFails /\ UNCHANGED times
    BY <1>1, <1>2, FailKeeps
  <1> DEFINE r == Head(todo)
  <1>3. /\ auto /\ todo # <<>> /\ r.pr \in PRs /\ r.head \in Heads /\ fresh \in Heads
        /\ r.head \in 1..head[r.pr] /\ fresh \in r.head..head[r.pr]
        /\ In(todo) = {r} \cup In(Tail(todo)) /\ r \in In(todo)
        /\ \A q \in In(Tail(todo)) : q.pr # r.pr
        /\ Tail(todo) \in Seq(Requests) /\ OnePerPr(Tail(todo)) /\ OnePerPr(found)
    BY <1>1, Waiting, ListTail DEF IInv, Rest, Lists, Heading, Handling, TypeOK
  <1>4. Pending = In(todo) /\ Passed = Pending
    BY <1>1 DEF Pending, Passed, Handling
  <1>5. CASE /\ NextRequest(Tail(todo), "details", "cleanup") /\ mishaps' \in {mishaps, mishaps + 1}
             /\ UNCHANGED <<found, times>>
    <2>1. /\ todo' = Tail(todo) /\ pc' \in {"details", "cleanup"}
          /\ pc' = "details" => Tail(todo) # <<>>
      BY <1>5 DEF NextRequest
    <2>2. Lists'
      BY <1>1, <1>3, <1>5, <2>1 DEF Lists, OnePerPr, Handling
    <2>3. pc' = "details" => Pending' = In(Tail(todo)) /\ Head(todo') \in In(Tail(todo))
      <3>1. pc' = "details" => Head(Tail(todo)) \in In(Tail(todo))
        BY <1>3, <2>1, ListTail
      <3> QED
        BY <2>1, <3>1 DEF Pending, Handling, In
    <2>4. pc' = "cleanup" => Pending' = {}
      BY DEF Pending, Handling
    <2>5. Passed' = Pending'
      BY <2>1 DEF Passed, Pending
    <2>6. Pending' \subseteq Pending
      BY <1>3, <1>4, <2>1, <2>3, <2>4
    <2> QED
      BY <1>1, <1>4, <1>5, <2>1, <2>2, <2>3, <2>5, <2>6, MoveKeeps DEF Handling
  <1>6. CASE /\ times' = [times EXCEPT ![r.pr][fresh] = @ + 1] /\ pc' = "mark"
             /\ UNCHANGED <<found, todo, fresh, mishaps>>
    <2>1. /\ times \in [PRs -> [Heads -> Nat]] /\ mishaps \in Nat
          /\ Heads \subseteq Nat /\ \A p \in PRs : head[p] \in Nat /\ times[p] \in [Heads -> Nat]
      BY Numbers DEF IInv, TypeOK
    <2>2. \A p \in PRs, h \in Heads :
            times'[p][h] = IF p = r.pr /\ h = fresh THEN times[p][h] + 1 ELSE times[p][h]
      BY <1>3, <1>6, <2>1
    <2> HIDE DEF r
    <2>3. /\ Pending' = In(Tail(todo)) /\ Passed' = Pending' /\ Pending' \subseteq Pending
          /\ \A q \in Pending' : q.pr # r.pr /\ q.pr \in PRs
      <3>1. Pending' = In(Tail(todo)) /\ Passed' = Pending'
        BY <1>6 DEF Pending, Passed, Handling, In
      <3> QED
        BY <1>3, <1>4, <3>1, Waiting
    <2>4. Head(todo') = r
      BY <1>6 DEF r
    <2>5. Lists'
      BY <1>1, <1>6 DEF Lists, OnePerPr, Handling, IInv, Rest
    <2>6. Heading'
      <3>1. \A p \in PRs, h \in Heads : h > head[p] => times'[p][h] = 0
        <4>1. \A p \in PRs, h \in Heads : h > head[p] => times[p][h] = 0
          BY DEF IInv, Rest, Heading
        <4>2. ~(fresh > head[r.pr])
          BY <1>3, <2>1
        <4> QED
          BY <2>2, <4>1, <4>2
      <3>2. \A q \in Pending' : q.head \in 1..head[q.pr]
        BY <2>3 DEF IInv, Rest, Heading
      <3> QED
        BY <1>1, <1>3, <1>6, <2>4, <3>1, <3>2 DEF Heading
    <2>7. Reviewed'
      BY <1>3, <1>6, <2>1, <2>2, <2>4 DEF Reviewed
    <2>8. MarksAreEarned'
      <3>1. \A p \in PRs : processed[p] # 0 => \E h \in processed[p]..MaxHead : times[p][h] > 0
        BY <1>3 DEF IInv, Rest, MarksAreEarned
      <3>2. \A p \in PRs : processed[p] \in 0..MaxHead
        BY Numbers DEF IInv
      <3>3. \A p \in PRs, h \in Heads : times[p][h] > 0 => times'[p][h] > 0
        BY <2>1, <2>2
      <3>4. \A p \in PRs : processed[p] # 0 => \E h \in processed[p]..MaxHead : times'[p][h] > 0
        <4> SUFFICES ASSUME NEW p \in PRs, processed[p] # 0
                     PROVE  \E h \in processed[p]..MaxHead : times'[p][h] > 0
          OBVIOUS
        <4>1. PICK h \in processed[p]..MaxHead : times[p][h] > 0
          BY <3>1
        <4>2. h \in Heads
          BY <3>2, BoundsOK DEF Heads
        <4> QED
          BY <3>3, <4>1, <4>2
      <3> QED
        BY <1>1, <1>3, <3>4 DEF MarksAreEarned
    <2>9. \A h \in Heads : h > r.head => times[r.pr][h] = 0
      BY <1>3, <1>4 DEF IInv, Rest, Later
    <2>10. Later'
      <3>1. \A q \in Pending', h \in Heads : h > q.head => times'[q.pr][h] = 0
        BY <2>2, <2>3 DEF IInv, Rest, Later
      <3>2. \A h \in Heads : h > r.head => times'[r.pr][h] <= 1
        BY <1>3, <2>2, <2>9
      <3> QED
        BY <2>4, <3>1, <3>2 DEF Later
    <2>11. New'
      BY <1>1, <1>4, <2>3 DEF New, IInv, Rest
    <2>12. Accounted'
      <3>1. times[r.pr][fresh] <= 1 + mishaps
        <4>1. CASE processed[r.pr] # fresh
          BY <1>1, <1>3, <4>1 DEF IInv, Rest, Accounted, Reviewable, r
        <4>2. CASE processed[r.pr] = fresh
          <5>1. fresh # r.head
            BY <1>3, <1>4, <4>2 DEF New, IInv, Rest
          <5>2. fresh > r.head
            BY <1>3, <2>1, <5>1
          <5> QED
            BY <1>3, <2>1, <2>9, <5>2
        <4> QED
          BY <4>1, <4>2
      <3>2. RepeatsAreAccounted'
        <4>1. \A p \in PRs, h \in Heads : times[p][h] \in Nat /\ times[p][h] <= 2 + mishaps
          BY <2>1 DEF RepeatsAreAccounted, IInv, Rest, Accounted
        <4>2. \A p \in PRs, h \in Heads : times'[p][h] <= 2 + mishaps
          BY <1>3, <2>1, <2>2, <3>1, <4>1
        <4> QED
          BY <1>6, <4>2 DEF RepeatsAreAccounted
      <3>3. \A p \in PRs, h \in Heads : p # r.pr => times'[p][h] = times[p][h]
        BY <2>2
      <3>4. \A p \in PRs, h \in Heads : Reviewable(p, h)' => Reviewable(p, h)
        BY <1>1, <1>6 DEF Reviewable
      <3>5. \A p \in PRs, h \in Heads : Reviewable(p, h)' /\ processed[p] # h /\ p # r.pr
                                        => times[p][h] <= 1 + mishaps
        BY <1>1, <3>4 DEF Accounted, IInv, Rest
      <3> QED
        BY <1>1, <1>6, <2>4, <3>2, <3>3, <3>5 DEF Accounted
    <2>13. Unreviewed'
      BY <1>1, <1>3 DEF Unreviewed
    <2> QED
      BY <2>5, <2>6, <2>7, <2>8, <2>10, <2>11, <2>12, <2>13 DEF Rest
  <1> QED
    <2>1. \/ PollFails /\ UNCHANGED times
          \/ /\ times' = [times EXCEPT ![r.pr][fresh] = @ + 1] /\ pc' = "mark"
             /\ UNCHANGED <<found, todo, fresh, mishaps>>
          \/ /\ NextRequest(Tail(todo), "details", "cleanup") /\ mishaps' \in {mishaps, mishaps + 1}
             /\ UNCHANGED <<found, times>>
      BY DEF Review, Mishap
    <2> QED
      BY <1>2, <1>5, <1>6, <2>1

\* A head is marked: it, or a later one, has just been reviewed.
LEMMA MarkKeeps ==
    ASSUME IInv, TypeOK', Mark
    PROVE  Rest'
  <1>1. UNCHANGED <<auto, head, doneVars>> /\ pc = "mark"
    BY DEF Mark
  <1>2. CASE PollFails /\ UNCHANGED processed
    BY <1>1, <1>2, FailKeeps
  <1>3. CASE ~(PollFails /\ UNCHANGED processed)
    <2> DEFINE r == Head(todo)
    <2>1. /\ MarkProcessed(r) /\ mishaps' = mishaps /\ found' = found
          /\ todo' = Tail(todo) /\ pc' \in {"details", "cleanup"}
          /\ pc' = "details" => Tail(todo) # <<>>
      BY <1>3 DEF Mark, NextRequest
    <2>2. /\ auto /\ todo # <<>> /\ r.pr \in PRs /\ r.head \in Heads /\ fresh \in Heads
          /\ r.head \in 1..head[r.pr] /\ fresh \in r.head..head[r.pr]
          /\ \A q \in In(Tail(todo)) : q.pr # r.pr
          /\ Tail(todo) \in Seq(Requests) /\ OnePerPr(Tail(todo)) /\ OnePerPr(found)
      BY <1>1, Waiting, ListTail DEF IInv, Rest, Lists, Heading, Handling, TypeOK
    <2>3. Pending = In(Tail(todo)) /\ Passed = Pending
      BY <1>1 DEF Pending, Passed, Handling
    <2>4. times[r.pr][fresh] > 0
      BY <1>1 DEF Reviewed, IInv, Rest
    <2>5. \A h \in Heads : h > r.head => times[r.pr][h] <= 1
      BY <1>1 DEF Later, IInv, Rest
    <2>6. /\ processed \in [PRs -> 0..MaxHead] /\ mishaps \in Nat /\ Heads = 1..MaxHead
          /\ MaxHead \in Nat /\ \A p \in PRs : head[p] \in 1..MaxHead
          /\ \A p \in PRs, h \in Heads : times[p][h] \in Nat
      BY Numbers DEF IInv, TypeOK, Heads
    <2>7. \A p \in PRs : processed'[p] = IF p = r.pr THEN r.head ELSE processed[p]
      BY <2>1, <2>2, <2>6 DEF MarkProcessed
    <2>8. Lists'
      BY <2>1, <2>2, <1>1 DEF Lists, OnePerPr, Handling
    <2>9. /\ Pending' \subseteq Pending /\ Passed' = Pending'
          /\ pc' = "details" => Head(todo') \in Pending'
      <3>1. pc' = "details" => Head(Tail(todo)) \in In(Tail(todo))
        BY <2>1, <2>2, ListTail
      <3>2. pc' = "details" => Pending' = In(Tail(todo))
        BY <2>1 DEF Pending, Handling, In
      <3>3. pc' = "cleanup" => Pending' = {}
        BY DEF Pending, Handling
      <3>4. Passed' = Pending'
        BY <2>1 DEF Passed, Pending
      <3> QED
        BY <2>1, <2>3, <3>1, <3>2, <3>3, <3>4
    <2> HIDE DEF r
    <2>10. Heading'
      <3>1. \A q \in Pending : q.head \in 1..head[q.pr]
        BY DEF IInv, Rest, Heading
      <3>2. \A p \in PRs, h \in Heads : h > head[p] => times[p][h] = 0
        BY DEF IInv, Rest, Heading
      <3> QED
        BY <1>1, <2>1, <2>9, <3>1, <3>2 DEF Heading, Handling
    <2>11. Reviewed' /\ Unreviewed'
      BY <1>1, <2>1, <2>2 DEF Reviewed, Unreviewed
    <2>12. Later'
      BY <1>1, <2>1, <2>9 DEF Later, IInv, Rest
    <2>13. New'
      <3>1. \A q \in Pending : q.pr \in PRs /\ q.pr # r.pr /\ processed[q.pr] # q.head
        BY <2>2, <2>3, Waiting DEF New, IInv, Rest
      <3> QED
        BY <2>7, <2>9, <3>1 DEF New
    <2>14. MarksAreEarned'
      <3>1. \A p \in PRs : processed[p] # 0 => \E h \in processed[p]..MaxHead : times[p][h] > 0
        BY <2>2 DEF IInv, Rest, MarksAreEarned
      <3>2. fresh \in r.head..MaxHead
        BY <2>2, <2>6
      <3>3. \A p \in PRs : processed'[p] # 0 => \E h \in processed'[p]..MaxHead : times[p][h] > 0
        BY <2>4, <2>7, <3>1, <3>2 DEF r
      <3> QED
        BY <1>1, <2>2, <3>3 DEF MarksAreEarned
    <2>15. Accounted'
      <3>1. RepeatsAreAccounted'
        BY <1>1, <2>1 DEF RepeatsAreAccounted, Accounted, IInv, Rest
      <3> SUFFICES ASSUME NEW p \in PRs, NEW h \in Heads, Reviewable(p, h)', processed'[p] # h
                   PROVE  times[p][h] <= 1 + mishaps
        BY <1>1, <2>1, <3>1 DEF Accounted
      <3>2. head[p] = h
        BY <1>1, <2>1 DEF Reviewable
      <3>3. CASE p = r.pr
        <4>1. h > r.head
          BY <2>2, <2>6, <2>7, <3>2, <3>3
        <4> QED
          BY <2>5, <2>6, <3>3, <4>1 DEF r
      <3>4. CASE p # r.pr
        BY <2>7, <3>2, <3>4 DEF Accounted, Reviewable, IInv, Rest, r
      <3> QED
        BY <3>3, <3>4
    <2> QED
      BY <2>8, <2>10, <2>11, <2>12, <2>13, <2>14, <2>15 DEF Rest
  <1> QED
    BY <1>2, <1>3

\* A push: nothing has been reviewed of the new head.
LEMMA PushKeeps ==
    ASSUME IInv, TypeOK', NEW p \in PRs, Push(p)
    PROVE  Rest'
  <1>1. /\ head[p] < MaxHead /\ head' = [head EXCEPT ![p] = @ + 1]
        /\ UNCHANGED <<auto, processed, pollVars, doneVars, mishaps>>
    BY DEF Push
  <1>2. /\ head \in [PRs -> 1..MaxHead] /\ MaxHead \in Nat /\ mishaps \in Nat
        /\ Heads = 1..MaxHead /\ \A q \in PRs, h \in Heads : times[q][h] \in Nat
    BY Numbers DEF IInv, TypeOK, Heads
  <1>3. \A q \in PRs : head'[q] = IF q = p THEN head[q] + 1 ELSE head[q]
    BY <1>1, <1>2
  <1>4. \A q \in PRs : head[q] \in Nat /\ head'[q] \in Nat /\ head[q] <= head'[q]
    BY <1>2, <1>3
  <1>5. Pending' = Pending /\ Passed' = Passed
    BY <1>1 DEF Pending, Passed, Handling, In
  <1>6. Lists' /\ Reviewed' /\ MarksAreEarned' /\ Unreviewed'
    BY <1>1 DEF Lists, Reviewed, MarksAreEarned, Unreviewed, OnePerPr, Apart, In, Handling, IInv, Rest
  <1>7. New' /\ Later'
    BY <1>1, <1>5 DEF New, Later, IInv, Rest
  <1>8. Heading'
    <2>1. \A r \in Pending : r.head \in 1..head'[r.pr]
      BY <1>4, Waiting DEF IInv, Rest, Heading, Heads
    <2>2. pc \in Handling => Head(todo).head \in 1..head'[Head(todo).pr]
      BY <1>4, Waiting DEF IInv, Rest, Heading
    <2>3. pc \in {"checkout", "review", "mark"} =>
            fresh \in Head(todo).head..head'[Head(todo).pr]
      <3>1. pc \in {"checkout", "review", "mark"} => Head(todo).pr \in PRs /\ Head(todo).head \in Nat
        BY Waiting, Numbers DEF Handling, IInv
      <3> QED
        BY <1>4, <3>1 DEF IInv, Rest, Heading
    <2>4. \A q \in PRs, h \in Heads : h > head'[q] => times[q][h] = 0
      BY <1>2, <1>4 DEF IInv, Rest, Heading
    <2> QED
      BY <1>1, <1>5, <2>1, <2>2, <2>3, <2>4 DEF Heading
  <1>9. Accounted'
    <2>1. RepeatsAreAccounted'
      BY <1>1 DEF RepeatsAreAccounted, Accounted, IInv, Rest
    <2> SUFFICES ASSUME NEW q \in PRs, NEW h \in Heads, Reviewable(q, h)', processed[q] # h,
                        ~(pc = "mark" /\ Head(todo).pr = q)
                 PROVE  times[q][h] <= 1 + mishaps
      BY <1>1, <2>1 DEF Accounted
    <2>2. CASE Reviewable(q, h)
      BY <2>2 DEF Accounted, IInv, Rest
    <2>3. CASE ~Reviewable(q, h)
      <3>1. head'[q] = h /\ head[q] # h
        BY <1>1, <2>3 DEF Reviewable
      <3>2. h > head[q]
        BY <1>2, <1>3, <3>1
      <3>3. times[q][h] = 0
        BY <3>2 DEF IInv, Rest, Heading
      <3> QED
        BY <1>2, <3>3
    <2> QED
      BY <2>2, <2>3
  <1> QED
    BY <1>6, <1>7, <1>8, <1>9 DEF Rest

\* A reset: all marks are gone, and it is a mishap.
LEMMA ResetKeeps ==
    ASSUME IInv, TypeOK', Reset
    PROVE  Rest'
  <1>1. /\ mishaps' = mishaps + 1 /\ processed' = [p \in PRs |-> 0]
        /\ UNCHANGED <<auto, head, pollVars, doneVars>>
    BY DEF Reset, Mishap
  <1>2. Pending' = Pending /\ Passed' = Passed /\ Passed \subseteq Pending
    BY <1>1 DEF Pending, Passed, Handling, In
  <1>3. Lists' /\ Reviewed' /\ Unreviewed'
    BY <1>1 DEF Lists, Reviewed, Unreviewed, OnePerPr, Apart, In, Handling, IInv, Rest
  <1>4. Heading' /\ Later'
    BY <1>1, <1>2 DEF Heading, Later, IInv, Rest
  <1>5. MarksAreEarned'
    BY <1>1 DEF MarksAreEarned
  <1>6. New'
    <2>1. \A r \in Pending : r.pr \in PRs /\ r.head # 0
      BY Waiting, BoundsOK DEF Heads
    <2> QED
      BY <1>1, <1>2, <2>1 DEF New
  <1>7. Accounted'
    <2>1. \A p \in PRs, h \in Heads : times[p][h] \in Nat /\ times[p][h] <= 2 + mishaps
      BY Numbers DEF IInv, Rest, Accounted, RepeatsAreAccounted
    <2>2. mishaps \in Nat
      BY DEF IInv
    <2> QED
      BY <1>1, <2>1, <2>2 DEF Accounted, RepeatsAreAccounted
  <1> QED
    BY <1>3, <1>4, <1>5, <1>6, <1>7 DEF Rest

\* Steps that are not of the poll, and leave what it knows alone.
LEMMA BesideKeeps ==
    ASSUME IInv, UNCHANGED <<auto, head, processed, pc, found, todo, fresh, doneVars, mishaps>>
    PROVE  Rest'
  <1>1. Pending' = Pending /\ Passed' = Passed
    BY DEF Pending, Passed, Handling, In
  <1>2. Lists' /\ Reviewed' /\ MarksAreEarned' /\ Unreviewed'
    BY DEF Lists, Reviewed, MarksAreEarned, Unreviewed, OnePerPr, Apart, In, Handling, IInv, Rest
  <1>3. Heading' /\ Later' /\ New'
    BY <1>1 DEF Heading, Later, New, IInv, Rest
  <1>4. Accounted'
    BY DEF Accounted, RepeatsAreAccounted, Reviewable, IInv, Rest
  <1> QED
    BY <1>2, <1>3, <1>4 DEF Rest

-----------------------------------------------------------------------------
(* The theorems                                                            *)

\* At the start nothing is marked and nothing is reviewed.
LEMMA InitInv == Init => IInv
  <1> SUFFICES ASSUME Init PROVE IInv
    OBVIOUS
  <1>1. /\ MaxHead \in Nat \ {0} /\ <<>> \in Seq(Requests) /\ 0 \in 0..MaxHead /\ 1 \in Heads
        /\ NoUserReview \in Asking
    BY BoundsOK, ListEmpty DEF Heads, NoUserReview, Asking
  <1>2. /\ pc = "sleep" /\ found = <<>> /\ todo = <<>> /\ fresh = 0 /\ cancelled = FALSE
        /\ recent = FALSE /\ mishaps = 0 /\ auto \in AutoReview
        /\ head = [p \in PRs |-> 1] /\ open = PRs /\ published = {}
        /\ processed = [p \in PRs |-> 0] /\ checkout = [p \in PRs |-> 0]
        /\ asked = [p \in PRs |-> NoUserReview] /\ detected = {}
        /\ times = [p \in PRs |-> [h \in Heads |-> 0]]
    BY DEF Init
  <1>3. PollTyped
    BY <1>1, <1>2 DEF PollTyped, Places
  <1>4. RestTyped
    <2>1. [h \in Heads |-> 0] \in [Heads -> Nat]
      OBVIOUS
    <2> QED
      BY <1>1, <1>2, <2>1 DEF RestTyped
  <1>5. TypeOK /\ mishaps \in Nat
    BY <1>2, <1>3, <1>4, Typed
  <1>6. \A p \in PRs, h \in Heads : times[p][h] = 0
    BY <1>2
  <1>7. Pending = {} /\ Passed = {}
    BY <1>2 DEF Pending, Passed, Handling
  <1>8. Lists /\ Heading /\ Reviewed /\ Later /\ New
    BY <1>2, <1>6, <1>7 DEF Lists, Heading, Reviewed, Later, New, Handling
  <1>9. MarksAreEarned /\ Accounted /\ Unreviewed
    BY <1>2, <1>6 DEF MarksAreEarned, Accounted, RepeatsAreAccounted, Unreviewed
  <1> QED
    BY <1>5, <1>8, <1>9 DEF IInv, Rest

\* Every step keeps the invariant.
LEMMA NextInv == IInv /\ [Next]_vars => IInv'
  <1> SUFFICES ASSUME IInv, [Next]_vars PROVE IInv'
    OBVIOUS
  <1>1. TypeOK' /\ mishaps' \in Nat
    BY TypesKept
  <1>2. CASE StartPoll \/ Search
    BY <1>1, <1>2, SearchKeeps DEF IInv
  <1>3. CASE ReadHead
    BY <1>1, <1>3, ReadHeadKeeps DEF IInv
  <1>4. CASE FilterRequest
    BY <1>1, <1>4, FilterKeeps DEF IInv
  <1>5. CASE Detect
    BY <1>1, <1>5, DetectKeeps DEF IInv
  <1>6. CASE ReadDetails \/ EnsureCheckout
    BY <1>1, <1>6, PrepareKeeps DEF IInv
  <1>7. CASE Review
    BY <1>1, <1>7, ReviewKeeps DEF IInv
  <1>8. CASE Mark
    BY <1>1, <1>8, MarkKeeps DEF IInv
  <1>9. CASE CleanUp
    <2>1. /\ pc' = "sleep" /\ found' = <<>> /\ todo' = <<>> /\ pc # "mark"
          /\ UNCHANGED <<auto, head, processed, doneVars>>
          /\ mishaps' = mishaps \/ mishaps' = mishaps + 1
      BY <1>9 DEF CleanUp, Mishap
    <2> QED
      BY <1>1, <2>1, EndKeeps DEF IInv
  <1>10. CASE Crash
    <2>1. /\ pc' = "sleep" /\ found' = <<>> /\ todo' = <<>>
          /\ UNCHANGED <<auto, head, processed, doneVars>> /\ mishaps' = mishaps + 1
      BY <1>10 DEF Crash, Mishap
    <2> QED
      BY <1>1, <2>1, EndKeeps DEF IInv
  <1>11. CASE Reset
    BY <1>1, <1>11, ResetKeeps DEF IInv
  <1>12. CASE \E p \in PRs : Push(p)
    BY <1>1, <1>12, PushKeeps DEF IInv
  <1>13. CASE \/ Tick \/ CleanUpAsked \/ UNCHANGED vars
              \/ \E p \in PRs : Close(p) \/ Publish(p) \/ Ask(p) \/ RunAsked(p) \/ EndAsked(p)
    <2>1. UNCHANGED <<auto, head, processed, pc, found, todo, fresh, doneVars, mishaps>>
      BY <1>13 DEF Tick, CleanUpAsked, Close, Publish, Ask, RunAsked, EndAsked, UserActs, vars
    <2> QED
      BY <1>1, <2>1, BesideKeeps DEF IInv
  <1> QED
    BY <1>2, <1>3, <1>4, <1>5, <1>6, <1>7, <1>8, <1>9, <1>10, <1>11, <1>12, <1>13 DEF Next, Poll

\* The invariant holds in every behaviour.
LEMMA Inductive == Spec => []IInv
  BY InitInv, NextInv, PTL DEF Spec

\* The variables of the poller have their types: a request in hand has a head
\* of its pull request, and a poll that sleeps, searches or cleans up has none.
THEOREM TypeCorrect == Spec => []TypeOK
  <1>1. IInv => TypeOK
    BY DEF IInv
  <1> QED
    BY <1>1, Inductive, PTL

\* A head is marked only when it, or a later one of the same pull request, has
\* had a completed review, or, without auto_review, when the request has been
\* recorded (ReviewRequestIntake::run_poll, mark_processed_at).
THEOREM MarksEarned == Spec => []MarksAreEarned
  <1>1. IInv => MarksAreEarned
    BY DEF IInv, Rest
  <1> QED
    BY <1>1, Inductive, PTL

\* However many pushes, closings and reviews of the user there are, the poller
\* reviews one head at most twice, and once more for each failing call,
\* restart and reset.
THEOREM RepeatsAccounted == Spec => []RepeatsAreAccounted
  <1>1. IInv => RepeatsAreAccounted
    BY DEF IInv, Rest, Accounted
  <1> QED
    BY <1>1, Inductive, PTL

=============================================================================

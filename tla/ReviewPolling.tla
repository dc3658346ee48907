---------------------------- MODULE ReviewPolling ----------------------------
(***************************************************************************)
(* The poller: a thread of the host asks GitHub which pull requests wait   *)
(* for a review, leaves out the heads it has marked and those with a       *)
(* published review, prepares a checkout for each of the others, reviews   *)
(* it, marks its head and removes the checkouts of closed pull requests.   *)
(* Beside it the authors push and close, the user asks for reviews of      *)
(* their own and resets the local state, and the host stops and restarts.  *)
(***************************************************************************)
EXTENDS Naturals, FiniteSets, Sequences, SequencesExt

CONSTANTS
  PRs,          \* pull requests of allowed repositories whose review was requested
  MaxHead,      \* bound: heads of a pull request, numbered as they are pushed
  AutoReview,   \* auto_review of the configuration: it differs from run to run
  MaxMishaps,   \* bound: failing calls of GitHub, git, the provider or the store,
                \* restarts of the host and resets of the local state
  MaxPushes,    \* bound: pushes
  MaxUserActs   \* bound: reviews the user asks for or publishes

ASSUME BoundsOK ==
  /\ IsFiniteSet(PRs) /\ MaxHead \in Nat \ {0} /\ AutoReview \subseteq BOOLEAN
  /\ {MaxMishaps, MaxPushes, MaxUserActs} \subseteq Nat

VARIABLES
  auto,
  head, open, published,        \* GitHub: heads, open pull requests, heads with a nitpick review
  processed, checkout,          \* disk: the marked head and the head checked out, 0 for none
  recent,                       \* last_poll is less than an interval ago
  pc, found, todo, fresh,       \* the poll: requests found and left to handle, head prepared
  cancelled,                    \* the activity of the running review has been ended by the queue
  asked,                        \* the user's review of a pull request: where it is, its head
  detected, times,              \* without auto: requests recorded; completed polled reviews of a head
  mishaps, pushes, calls

githubVars == <<head, open, published>>
diskVars == <<processed, checkout>>
pollVars == <<pc, found, todo, fresh, cancelled>>
doneVars == <<detected, times>>
countVars == <<mishaps, pushes, calls>>
vars == <<auto, githubVars, diskVars, recent, pollVars, asked, doneVars, countVars>>

Heads == 1..MaxHead
NoUserReview == [at |-> "none", head |-> 0]

Init ==
  /\ auto \in AutoReview
  /\ head = [p \in PRs |-> 1] /\ open = PRs /\ published = {}
  /\ processed = [p \in PRs |-> 0] /\ checkout = [p \in PRs |-> 0]
  /\ recent = FALSE
  /\ pc = "sleep" /\ found = <<>> /\ todo = <<>> /\ fresh = 0 /\ cancelled = FALSE
  /\ asked = [p \in PRs |-> NoUserReview]
  /\ detected = {} /\ times = [p \in PRs |-> [h \in Heads |-> 0]]
  /\ mishaps = 0 /\ pushes = 0 /\ calls = 0

Mishap ==
  /\ mishaps < MaxMishaps
  /\ mishaps' = mishaps + 1 /\ UNCHANGED <<pushes, calls>>

UserActs == calls < MaxUserActs /\ calls' = calls + 1

(* record_error: any error of the poll ends it and moves last_poll. *)
PollFails ==
  /\ Mishap
  /\ recent' = TRUE /\ pc' = "sleep"
  /\ found' = <<>> /\ todo' = <<>> /\ fresh' = 0 /\ cancelled' = FALSE

(* FsProcessedReviewStore: one file per pull request holds the marked head. *)
MarkProcessed(r) == processed' = [processed EXCEPT ![r.pr] = r.head]

(* The requests left are handled one by one, then the poll goes on. *)
NextRequest(rest, again, done) ==
  /\ todo' = rest
  /\ pc' = IF rest = <<>> THEN done ELSE again

-------------------------------------------------------------------------------
(* poll_review_requests *)

(* last_poll moves before anything is asked of GitHub. *)
StartPoll ==
  /\ pc = "sleep" /\ ~recent
  /\ recent' = TRUE /\ pc' = "search"
  /\ UNCHANGED <<auto, githubVars, diskVars, found, todo, fresh, cancelled, asked, doneVars, countVars>>

(* search_pull_requests, in GitHub's order. *)
Search ==
  /\ pc = "search"
  /\ \/ \E s \in SetToSeqs(open) :
          /\ NextRequest([i \in DOMAIN s |-> [pr |-> s[i], head |-> 0]], "heads", "cleanup")
          /\ found' = <<>>
          /\ UNCHANGED <<recent, fresh, cancelled, countVars>>
     \/ PollFails
  /\ UNCHANGED <<auto, githubVars, diskVars, asked, doneVars>>

(* discover_with_head_sha: the head of each one is read by a call of its own. *)
ReadHead ==
  /\ pc = "heads"
  /\ LET r == [Head(todo) EXCEPT !.head = head[Head(todo).pr]] IN
     \/ /\ IF Tail(todo) # <<>>
           THEN pc' = "heads" /\ todo' = Tail(todo) /\ found' = Append(found, r)
           ELSE pc' = "filter" /\ todo' = Append(found, r) /\ found' = <<>>
        /\ UNCHANGED <<recent, fresh, cancelled, countVars>>
     \/ PollFails
  /\ UNCHANGED <<auto, githubVars, diskVars, asked, doneVars>>

NeedsReviewOnce(r) == processed[r.pr] = 0
NeedsReviewUpTo(r) == processed[r.pr] <= r.head

NeedsReview(r) == processed[r.pr] # r.head
AlreadyReviewed(r) == <<r.pr, r.head>> \in published

(* filter_new_review_requests; found collects the new requests. *)
FilterRequest ==
  /\ pc = "filter"
  /\ LET r == Head(todo)
         new == NeedsReview(r) /\ ~AlreadyReviewed(r)
     IN
     \/ /\ found' = IF new THEN Append(found, r) ELSE found
        /\ IF Tail(todo) # <<>> THEN pc' = "filter" /\ todo' = Tail(todo)
           ELSE /\ todo' = found'
                /\ pc' = IF found' = <<>> THEN "cleanup" ELSE "detect"
        /\ UNCHANGED <<recent, fresh, cancelled, countVars>>
     \/ PollFails
  /\ UNCHANGED <<auto, githubVars, diskVars, asked, doneVars>>

(* An activity records the request; without auto_review that is all, and   *)
(* the head is marked.                                                     *)
Detect ==
  /\ pc = "detect"
  /\ LET r == Head(todo) IN
     \/ /\ IF auto THEN UNCHANGED <<detected, processed>>
           ELSE /\ detected' = detected \cup {<<r.pr, r.head>>}
                /\ MarkProcessed(r)
        /\ IF Tail(todo) # <<>> THEN pc' = "detect" /\ todo' = Tail(todo)
           ELSE /\ todo' = IF auto THEN found ELSE <<>>
                /\ pc' = IF auto THEN "details" ELSE "cleanup"
        /\ UNCHANGED <<recent, found, fresh, cancelled, countVars>>
     \/ PollFails /\ UNCHANGED <<detected, processed>>
  /\ UNCHANGED <<auto, githubVars, checkout, asked, times>>

(* review_input reads the pull request again: its head may have moved. *)
ReadDetails ==
  /\ pc = "details"
  /\ \/ fresh' = head[Head(todo).pr] /\ pc' = "checkout"
        /\ UNCHANGED <<recent, found, todo, cancelled, countVars>>
     \/ PollFails
  /\ UNCHANGED <<auto, githubVars, diskVars, asked, doneVars>>

(* ensure_checkout: clone if there is none, fetch, check out; and the diff. *)
EnsureCheckout ==
  /\ pc = "checkout"
  /\ \/ /\ checkout' = [checkout EXCEPT ![Head(todo).pr] = fresh]
        /\ pc' = "review" /\ cancelled' = FALSE
        /\ UNCHANGED <<recent, found, todo, fresh, countVars>>
     \/ PollFails /\ UNCHANGED checkout
  /\ UNCHANGED <<auto, githubVars, processed, asked, doneVars>>

ReviewMarksAnyway ==
  /\ pc = "review"
  /\ LET r == Head(todo) IN
     \/ /\ times' = [times EXCEPT ![r.pr][fresh] = @ + 1]
        /\ pc' = "mark" /\ UNCHANGED <<recent, found, todo, fresh, cancelled, countVars>>
     \/ /\ IF cancelled THEN UNCHANGED countVars ELSE Mishap
        /\ pc' = "mark" /\ UNCHANGED <<recent, found, todo, fresh, cancelled, times>>
     \/ PollFails /\ UNCHANGED times
  /\ UNCHANGED <<auto, githubVars, diskVars, asked, detected>>

(* start_review: the activity ends completed, or not, or the store fails.  *)
(* One the queue has ended may still complete, if its provider was done.   *)
Review ==
  /\ pc = "review"
  /\ LET r == Head(todo) IN
     \/ /\ times' = [times EXCEPT ![r.pr][fresh] = @ + 1]
        /\ pc' = "mark" /\ UNCHANGED <<recent, found, todo, fresh, cancelled, countVars>>
     \/ /\ IF cancelled THEN UNCHANGED countVars ELSE Mishap
        /\ NextRequest(Tail(todo), "details", "cleanup")
        /\ fresh' = 0 /\ cancelled' = FALSE /\ UNCHANGED <<recent, found, times>>
     \/ PollFails /\ UNCHANGED times
  /\ UNCHANGED <<auto, githubVars, diskVars, asked, detected>>

(* mark_processed_at of the request, with the head it was found with. *)
Mark ==
  /\ pc = "mark"
  /\ LET r == Head(todo) IN
     \/ /\ MarkProcessed(r)
        /\ NextRequest(Tail(todo), "details", "cleanup")
        /\ fresh' = 0 /\ UNCHANGED <<recent, found, cancelled, countVars>>
     \/ PollFails /\ UNCHANGED processed
  /\ UNCHANGED <<auto, githubVars, checkout, asked, doneVars>>

RemoveFoundCheckouts(ps) ==
  checkout' = [p \in PRs |-> IF p \in ps /\ \E i \in DOMAIN found : found[i].pr = p
                             THEN 0 ELSE checkout[p]]

(* cleanup_checkouts: one by one, unless the pull request is open. *)
RemoveCheckouts(ps) == checkout' = [p \in PRs |-> IF p \in ps THEN 0 ELSE checkout[p]]

(* An error ends the clean-up, not the poll; record_result ends the poll. *)
CleanUp ==
  /\ pc = "cleanup"
  /\ \/ RemoveCheckouts(PRs \ open) /\ UNCHANGED countVars
     \/ Mishap /\ \E done \in SUBSET (PRs \ open) : RemoveCheckouts(done)
  /\ recent' = TRUE /\ pc' = "sleep"
  /\ found' = <<>> /\ todo' = <<>>
  /\ UNCHANGED <<auto, githubVars, processed, fresh, cancelled, asked, doneVars>>

-------------------------------------------------------------------------------
(* What happens beside the poll *)

(* The interval is over; only the sleeping poller looks at it. *)
Tick ==
  /\ pc = "sleep" /\ recent /\ recent' = FALSE
  /\ UNCHANGED <<auto, githubVars, diskVars, pollVars, asked, doneVars, countVars>>

Push(p) ==
  /\ p \in open /\ head[p] < MaxHead
  /\ pushes < MaxPushes /\ pushes' = pushes + 1
  /\ head' = [head EXCEPT ![p] = @ + 1]
  /\ UNCHANGED <<auto, open, published, diskVars, recent, pollVars, asked, doneVars, mishaps, calls>>

Close(p) ==
  /\ p \in open /\ open' = open \ {p}
  /\ UNCHANGED <<auto, head, published, diskVars, recent, pollVars, asked, doneVars, countVars>>

(* A completed review is synchronized and then submitted by the user. *)
Publish(p) == \E h \in Heads :
  /\ times[p][h] > 0 /\ UserActs
  /\ published' = published \cup {<<p, h>>}
  /\ UNCHANGED <<auto, head, open, diskVars, recent, pollVars, asked, doneVars, mishaps, pushes>>

(* prepare_and_enqueue_remote_review: the checkout is prepared before any  *)
(* other review is looked at.  A polled review of the same head is not in  *)
(* the running set, so the queue ends it as stale; force ends it as well.  *)
Ask(p) == \E force \in BOOLEAN :
  /\ asked[p].at = "none" /\ UserActs
  /\ checkout' = [checkout EXCEPT ![p] = head[p]]
  /\ asked' = [asked EXCEPT ![p] = [at |-> "queued", head |-> head[p]]]
  /\ cancelled' = \/ cancelled
                  \/ pc = "review" /\ Head(todo).pr = p /\ (force \/ fresh = head[p])
  /\ UNCHANGED <<auto, githubVars, processed, recent, pc, found, todo, fresh, doneVars,
                 mishaps, pushes>>

(* It waits until no earlier review of the pull request is active. *)
RunAsked(p) ==
  /\ asked[p].at = "queued"
  /\ ~(pc = "review" /\ Head(todo).pr = p /\ ~cancelled)
  /\ asked' = [asked EXCEPT ![p].at = "running"]
  /\ UNCHANGED <<auto, githubVars, diskVars, recent, pollVars, doneVars, countVars>>

EndAsked(p) ==
  /\ asked[p].at = "running"
  /\ asked' = [asked EXCEPT ![p] = NoUserReview]
  /\ UNCHANGED <<auto, githubVars, diskVars, recent, pollVars, doneVars, countVars>>

(* The user asks for the clean-up. *)
CleanUpAsked ==
  /\ RemoveCheckouts(PRs \ open)
  /\ UNCHANGED <<auto, githubVars, processed, recent, pollVars, asked, doneVars, countVars>>

(* reset_local_state; force clears beside active reviews. *)
Reset ==
  /\ Mishap
  /\ processed' = [p \in PRs |-> 0]
  /\ checkout' = [p \in PRs |-> 0]
  /\ recent' = FALSE
  /\ UNCHANGED <<auto, githubVars, pollVars, asked, doneVars>>

(* The host stops and starts again: last_poll and the poll are in memory. *)
Crash ==
  /\ Mishap
  /\ recent' = FALSE /\ pc' = "sleep"
  /\ found' = <<>> /\ todo' = <<>> /\ fresh' = 0 /\ cancelled' = FALSE
  /\ asked' = [p \in PRs |-> NoUserReview]
  /\ UNCHANGED <<auto, githubVars, diskVars, doneVars>>

Poll ==
  \/ StartPoll \/ Search \/ ReadHead \/ FilterRequest \/ Detect
  \/ ReadDetails \/ EnsureCheckout \/ Review \/ Mark \/ CleanUp

Next ==
  \/ Poll \/ Tick \/ Reset \/ Crash \/ CleanUpAsked
  \/ \E p \in PRs : Push(p) \/ Close(p) \/ Publish(p) \/ Ask(p) \/ RunAsked(p) \/ EndAsked(p)

Spec == Init /\ [][Next]_vars

(* The thread goes on and time passes. *)
LiveSpec == Spec /\ WF_vars(Poll) /\ WF_vars(Tick)

-------------------------------------------------------------------------------
(* Properties *)

Requests == [pr : PRs, head : 0..MaxHead]

TypeOK ==
  /\ auto \in AutoReview /\ recent \in BOOLEAN /\ cancelled \in BOOLEAN
  /\ head \in [PRs -> Heads] /\ open \subseteq PRs /\ published \subseteq PRs \X Heads
  /\ processed \in [PRs -> 0..MaxHead] /\ checkout \in [PRs -> 0..MaxHead]
  /\ pc \in {"sleep", "search", "heads", "filter", "detect", "details", "checkout", "review",
             "mark", "cleanup"}
  /\ found \in Seq(Requests) /\ todo \in Seq(Requests) /\ fresh \in 0..MaxHead
  /\ pc \in {"sleep", "search", "cleanup"} <=> todo = <<>>
  /\ asked \in [PRs -> [at : {"none", "queued", "running"}, head : 0..MaxHead]]
  /\ detected \subseteq PRs \X Heads /\ times \in [PRs -> [Heads -> Nat]]

(* A marked head, or a later one of the same pull request, has had a       *)
(* completed review; without auto_review the request has been recorded.    *)
(* Nothing is skipped by a mark that no review stands behind: not after a  *)
(* failure, a cancellation, a restart or a reset in the middle of a poll   *)
(* (ReviewRequestIntake::run_poll marks what was found, not what was read).*)
MarksAreEarned == \A p \in PRs : processed[p] # 0 =>
  IF auto THEN \E h \in processed[p]..MaxHead : times[p][h] > 0
          ELSE <<p, processed[p]>> \in detected

(* The poller reviews one head at most twice, once more for each fault,    *)
(* restart and reset: once when it was pushed between discovery and        *)
(* preparation and the mark went to the head before it, once with its own  *)
(* mark.                                                                   *)
RepeatsAreAccounted == \A p \in PRs, h \in Heads :
  times[p][h] <= 2 + mishaps

(* The head of an open request is reviewed, or recorded, or published in   *)
(* the end, unless it is replaced or the pull request is closed: an error  *)
(* of a poll puts it off and never drops it (PollFails marks nothing).     *)
Handled(p, h) == IF auto THEN times[p][h] > 0 \/ <<p, h>> \in published
                         ELSE <<p, h>> \in detected
EveryRequestIsHandled == \A p \in PRs :
  []<>(p \notin open \/ Handled(p, head[p]))

(* The checkout of a closed pull request is removed in the end, also one   *)
(* prepared again after it was closed (automatic_checkout_cleanup).        *)
ClosedCheckoutGoes == \A p \in PRs : []<>(p \in open \/ checkout[p] = 0)

(* "a review request is not reviewed again until its head SHA changes"     *)
(* (README.md:74): no head has two completed polled reviews.               *)
NotReviewedAgain == \A p \in PRs, h \in Heads : times[p][h] <= 1

(* "must provide a local checkout of the PR head when an agent reviews"    *)
(* (plan.md:58): while a review runs its head is checked out.              *)
CheckoutHoldsTheHead ==
  /\ pc = "review" /\ ~cancelled => checkout[Head(todo).pr] = fresh
  /\ \A p \in PRs : asked[p].at = "running" => checkout[p] = asked[p].head

===============================================================================

---------------------------- MODULE ActiveSession ----------------------------
(* A review session behind one mutex: comments are taken until it is       *)
(* finished, and only listed robot drafts can be marked for deletion.      *)
(* ReviewSession keeps the same state in a file.                           *)
CONSTANTS
  Valid,        \* the comments the validator takes
  Robot         \* the robot drafts among the existing comments

VARIABLES comments, deleted, existing, finished

vars == <<comments, deleted, existing, finished>>

Init == comments = {} /\ deleted = {} /\ finished = FALSE

AddReviewComment(c) ==
  /\ ~finished /\ c \in Valid
  /\ comments' = comments \cup {c}
  /\ UNCHANGED <<deleted, existing, finished>>

FinishReview ==
  /\ finished' = TRUE
  /\ UNCHANGED <<comments, deleted, existing>>

(* Once, however often it is asked for. *)
DeleteDraftComment(d) ==
  /\ d \in existing \cap Robot
  /\ deleted' = deleted \cup {d}
  /\ UNCHANGED <<comments, existing, finished>>

Next ==
  \/ \E c \in Valid : AddReviewComment(c)
  \/ FinishReview
  \/ \E d \in existing : DeleteDraftComment(d)

Spec == Init /\ [][Next]_vars
===============================================================================

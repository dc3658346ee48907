--------------------------- MODULE ReviewQueueMC ---------------------------
(***************************************************************************)
(* Instances of ReviewQueue for TLC.                                       *)
(***************************************************************************)
EXTENDS ReviewQueue, TLC

CONSTANTS p1, p2, h1, h2

Symmetry == Permutations(Request)

New(p, h)    == [kind |-> "enqueue", pr |-> p, head |-> h, force |-> FALSE]
Forced(p, h) == [kind |-> "enqueue", pr |-> p, head |-> h, force |-> TRUE]
ByUrl(p, h)  == [kind |-> "remote", pr |-> p, head |-> h, force |-> FALSE]
ByPoll(p, h) == [kind |-> "poll", pr |-> p, head |-> h, force |-> FALSE]

\* Two heads of one pull request and another pull request.
PlainCalls == {New(p1, h1), New(p1, h2), New(p2, h1)}

\* Calls on one pull request that neither force nor poll.
SerialCalls == {New(p1, h1), New(p1, h2), ByUrl(p1, h1)}

\* Every kind of call on one head.
MixedCalls == {New(p1, h1), Forced(p1, h1), ByUrl(p1, h1), ByPoll(p1, h1)}

\* The order of the ids activity-1 .. activity-9.
NumericOrder == [a \in Activity |-> a]

\* The order of the strings activity-1 .. activity-99: one digit sorts after
\* the two-digit ids that begin with it or with a smaller digit.
StringOrder == [a \in Activity |-> IF a < 10 THEN 20 * a - 1 ELSE 2 * a]
=============================================================================

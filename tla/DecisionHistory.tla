--------------------------- MODULE DecisionHistory ---------------------------
(***************************************************************************)
(* What the decisions and revisions tables promise together, with no       *)
(* requests, no transactions and no lock: a decision and the log of its    *)
(* snapshots change in one step, the log only grows, and it never grows    *)
(* for a decision that does not exist.  Moving a card on the Kanban board  *)
(* is the one change the log does not see.                                 *)
(***************************************************************************)
EXTENDS DecisionData, Sequences

CONSTANT Decision

VARIABLES
  decisions,   \* the decisions table: a row, or None
  revisions    \* the revisions table: the log of snapshots of each decision

HInit ==
  /\ decisions \in [Decision -> Row \cup {None}]
  /\ revisions = [d \in Decision |-> IF decisions[d] = None
                                     THEN << >>
                                     ELSE <<Snapshot(decisions[d])>>]

(* A decision is created, or its content changes, and the log says so. *)
Record(d, r) ==
  /\ decisions[d] = None => revisions[d] = << >>
  /\ decisions' = [decisions EXCEPT ![d] = r]
  /\ revisions' = [revisions EXCEPT ![d] = Append(@, Snapshot(r))]

(* A card moves to another column: the status alone changes, unrecorded. *)
Move(d, s) ==
  /\ decisions[d] # None
  /\ decisions' = [decisions EXCEPT ![d] = Moved(@, s)]
  /\ UNCHANGED revisions

(* Decisions are deleted, one by its page or all with their project. *)
Forget(D) ==
  /\ decisions' = [d \in Decision |-> IF d \in D THEN None ELSE decisions[d]]
  /\ UNCHANGED revisions

HNext ==
  \/ \E d \in Decision, r \in Row : Record(d, r)
  \/ \E d \in Decision, s \in Status : Move(d, s)
  \/ \E D \in SUBSET Decision : Forget(D)

hvars == <<decisions, revisions>>
HSpec == HInit /\ [][HNext]_hvars
=============================================================================

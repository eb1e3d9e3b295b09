---------------------------- MODULE DecisionData ----------------------------
(***************************************************************************)
(* The columns of a row of the decisions table that its handlers read and  *)
(* write, the three ways a statement changes a row, and the snapshot a     *)
(* revision keeps of it (crates/server/src/repository.rs, pages.rs).       *)
(*                                                                         *)
(* Texts are opaque: a title, a context and a rationale are members of     *)
(* small sets and an option is its id.  review_at_ms is written and        *)
(* snapshotted together with the resolution and is left out.  decided_at_ms*)
(* is abstracted to whether it is set.                                     *)
(***************************************************************************)
CONSTANTS
  Title,       \* decision titles (never blank: the handlers refuse those)
  Context,     \* Markdown contexts
  OptionId,    \* ids of the option slots of the form, "o1", "o2", ...
  Rationale,   \* resolution rationales, Blank among them
  Blank,       \* the empty text
  None         \* SQL NULL, a missing row, an absent JSON field

Status == {"open", "decided", "rejected"}

Row == [title : Title, context : Context, options : SUBSET OptionId,
        status : Status, chosen : OptionId \cup {None},
        rationale : Rationale, dated : BOOLEAN]

Snapshots == [title : Title, context : Context, options : SUBSET OptionId,
              status : Status, chosen : OptionId \cup {None},
              rationale : Rationale]

ASSUME BlankIsRationale == Blank \in Rationale
ASSUME NoneIsNoValue ==
  /\ None \notin Title \cup Context \cup OptionId
  /\ None \notin Row
  /\ None \notin Snapshots

-----------------------------------------------------------------------------
(***************************************************************************)
(* decision_snapshot_md: the rationale is written under "## Decision", and *)
(* that section exists only when an option was chosen.                     *)
(***************************************************************************)
Snapshot(r) ==
  [title |-> r.title, context |-> r.context, options |-> r.options,
   status |-> r.status, chosen |-> r.chosen,
   rationale |-> IF r.chosen = None THEN Blank ELSE r.rationale]

(* The row INSERT writes: open, unresolved. *)
NewRow(t, c, os) ==
  [title |-> t, context |-> c, options |-> os, status |-> "open",
   chosen |-> None, rationale |-> Blank, dated |-> FALSE]

(* UPDATE decisions SET title, context, options *)
Edited(r, p) ==
  [r EXCEPT !.title = p.title, !.context = p.context, !.options = p.options]

(* Mutant: the date is only written when the decision leaves "open". *)
ResolvedDatedOnce(r, p) ==
  [r EXCEPT !.status = p.status, !.chosen = p.chosen, !.rationale = p.rationale,
            !.dated = IF r.status = "open" THEN p.status # "open" ELSE @]

(* UPDATE decisions SET status, decided_option, rationale, decided_at_ms *)
Resolved(r, p) ==
  [r EXCEPT !.status = p.status, !.chosen = p.chosen,
            !.rationale = p.rationale, !.dated = p.status # "open"]

(* UPDATE decisions SET status: the Kanban board's statement *)
Moved(r, s) == [r EXCEPT !.status = s]

(***************************************************************************)
(* What a resolve request asks for becomes a status and a chosen option.   *)
(* The form may reject; the inline endpoint turns everything that is not a *)
(* decision for an option into "open".                                     *)
(***************************************************************************)
ChosenOption(requested, option) ==
  IF requested = "decided" THEN option ELSE None

FormStatus(requested, option) ==
  CASE ChosenOption(requested, option) # None -> "decided"
    [] ChosenOption(requested, option) = None /\ requested = "rejected" -> "rejected"
    [] OTHER -> "open"

InlineStatus(requested, option) ==
  IF ChosenOption(requested, option) # None THEN "decided" ELSE "open"
=============================================================================

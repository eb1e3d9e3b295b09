------------------------------ MODULE MCEditing ------------------------------
EXTENDS Editing, TLC

CONSTANTS p1, g1, n1, x1, d1, blank, t1, t2, u1

Kinds == (p1 :> "project") @@ (g1 :> "goal") @@ (n1 :> "note") @@ (x1 :> "experiment") @@ (d1 :> "decision")

First(kind) ==
  [c \in Columns(kind) |->
     CASE c = "status" -> IF kind = "project" THEN "paused" ELSE FirstStatus(kind)
       [] c \in {"assigned_to", "source"} -> None
       [] c = "lesson" -> blank [] c = "hypothesis" -> t2
       [] OTHER -> t1]

(* A paused project with a goal and a decision; and one with an experiment. *)
Tables ==
  {[id \in Record |-> IF id \in there THEN First(Kinds[id]) ELSE None] :
     there \in {{p1, g1, d1}, {p1, x1}}}

Edit(c) ==
  CASE c = "status" -> {"done"} [] c = "assigned_to" -> {u1} [] OTHER -> {t2}

(* One column, as the inline editor sends it, new or blank; whole forms; and *)
(* a goal's form without an assignee.                                        *)
Requests ==
  UNION {{[x \in {c} |-> v] : v \in Edit(c)} : c \in Column \ {"source", "options"}}
  \cup {[x \in {c} |-> blank] : c \in {"title", "lesson", "assigned_to"}}
  \cup {[x \in FormColumns(kind) |->
           CASE x = "status" -> FirstStatus(kind) [] x = "title" -> t1
             [] x = "assigned_to" -> blank [] OTHER -> t] :
          kind \in Kind, t \in {t2}}
  \cup {[x \in FormColumns("goal") \ {"assigned_to"} |->
           CASE x = "status" -> "open" [] x = "title" -> t1 [] x = "body" -> t1]}

Symmetry == Permutations(Worker)
==============================================================================

------------------------------- MODULE MCExport -------------------------------
EXTENDS Export

CONSTANTS g1, d1, d2, x1, e1

(* A project with a decided decision, an experiment on it, and an event;    *)
(* and one with nothing in it yet.                                          *)
Projects ==
  {[Nothing EXCEPT !.project = TRUE],
   [Nothing EXCEPT
      !.project = TRUE, !.goals = {g1},
      !.decisions = [d \in Decision |->
         IF d = d1 THEN [goal |-> g1, decided |-> TRUE] ELSE None],
      !.experiments = [x \in Experiment |->
         [goal |-> g1, decision |-> d1, outcome |-> "open"]],
      !.revisions = {d1}, !.events = [e \in Event |-> x1]]}
=============================================================================

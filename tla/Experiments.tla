----------------------------- MODULE Experiments -----------------------------
(***************************************************************************)
(* Experiments, their events and their dates.  update_experiment works out *)
(* started_at and ended_at from a row it reads outside its UPDATE, so it   *)
(* is taken read by read and write by write; every other change is one     *)
(* statement that uses nothing its handler has read, and is one action.    *)
(* Deleting the project, a goal or a decision reaches experiments through  *)
(* their foreign keys.  timeline() is derived from the dates.              *)
(*                                                                         *)
(* Titles, hypotheses, results and lessons are left out.  The clock is the *)
(* server's; it is assumed not to step back.                               *)
(***************************************************************************)
EXTENDS Naturals, FiniteSets

CONSTANTS
  Experiment, Event, Goal, Decision,   \* uuids
  Worker,     \* the updates the server is serving at one time
  MaxTime,    \* bound: the clock stops here
  None        \* SQL NULL, a missing row, an absent field

ASSUME MaxTimeAssumption == MaxTime \in Nat
Time == 0..MaxTime

Status == {"planned", "ongoing", "done", "abandoned"}
Row == [status : Status, started : Time \cup {None}, ended : Time \cup {None},
        goal : Goal \cup {None}, decision : Decision \cup {None}]

ASSUME NoneIsNothing ==
  None \notin Row \cup Time \cup Status \cup Experiment \cup Goal \cup Decision

VARIABLES
  experiments,   \* the experiments table: a row, or None
  events,        \* the events table: the experiment of an event, or None
  goals,         \* the goals that exist
  decisions,     \* the decisions that exist
  project,       \* whether the project's row exists
  clock,
  pc,            \* where each update is
  target,        \* the experiment it is about
  status,        \* the status it will write; None until the handler has read it
  was            \* the dates update_experiment has read, and when; or None

tables == <<experiments, events, goals, decisions, project>>
locals == <<pc, target, status, was>>
vars   == <<experiments, events, goals, decisions, project, clock,
            pc, target, status, was>>

Dates == [started : Time \cup {None}, ended : Time \cup {None}, at : Time]
ASSUME NoneIsNoDates == None \notin Dates

TypeOK ==
  /\ experiments \in [Experiment -> Row \cup {None}]
  /\ events \in [Event -> Experiment \cup {None}]
  /\ goals \in SUBSET Goal /\ decisions \in SUBSET Decision
  /\ project \in BOOLEAN
  /\ clock \in Time
  /\ pc \in [Worker -> {"idle", "asked", "found"}]
  /\ target \in [Worker -> Experiment \cup {None}]
  /\ status \in [Worker -> Status \cup {None}]
  /\ was \in [Worker -> Dates \cup {None}]

Init ==
  /\ experiments = [x \in Experiment |-> None]
  /\ events = [e \in Event |-> None]
  /\ goals = Goal /\ decisions = Decision
  /\ project = TRUE
  /\ clock = 0
  /\ pc = [w \in Worker |-> "idle"]
  /\ target = [w \in Worker |-> None]
  /\ status = [w \in Worker |-> None]
  /\ was = [w \in Worker |-> None]

-----------------------------------------------------------------------------
(* A new uuid: no row and no request knows it. *)
FreshId(x) ==
  /\ experiments[x] = None
  /\ \A w \in Worker : target[w] # x
  /\ \A e \in Event : events[e] # x

(* experiment_create: goal and decision are foreign keys, or none. *)
Create(x, g, d) ==
  /\ FreshId(x)
  /\ project /\ g \in goals \cup {None} /\ d \in decisions \cup {None}
  /\ experiments' = [experiments EXCEPT ![x] =
       [status |-> "planned", started |-> None, ended |-> None,
        goal |-> g, decision |-> d]]
  /\ UNCHANGED <<events, goals, decisions, project, clock, locals>>

(* The experiments of X go, and their events with them. *)
Forget(X) ==
  /\ experiments' = [x \in Experiment |-> IF x \in X THEN None ELSE experiments[x]]
  /\ events' = [e \in Event |-> IF events[e] \in X THEN None ELSE events[e]]

(* experiment_delete *)
Delete(x) ==
  /\ experiments[x] # None
  /\ Forget({x})
  /\ UNCHANGED <<goals, decisions, project, clock, locals>>

(* project_delete, of the project all this is part of *)
DeleteProject ==
  /\ project' = FALSE /\ goals' = {} /\ decisions' = {}
  /\ Forget(Experiment)
  /\ UNCHANGED <<clock, locals>>

(* Mutant: goal_id has no ON DELETE SET NULL. *)
DeleteGoalAlone(g) ==
  /\ goals' = goals \ {g}
  /\ UNCHANGED <<experiments, events, decisions, project, clock, locals>>

(* goal_delete, with ON DELETE SET NULL *)
DeleteGoal(g) ==
  /\ goals' = goals \ {g}
  /\ experiments' = [x \in Experiment |->
       IF experiments[x] # None /\ experiments[x].goal = g
       THEN [experiments[x] EXCEPT !.goal = None] ELSE experiments[x]]
  /\ UNCHANGED <<events, decisions, project, clock, locals>>

(* decision_delete, with ON DELETE SET NULL *)
DeleteDecision(d) ==
  /\ decisions' = decisions \ {d}
  /\ experiments' = [x \in Experiment |->
       IF experiments[x] # None /\ experiments[x].decision = d
       THEN [experiments[x] EXCEPT !.decision = None] ELSE experiments[x]]
  /\ UNCHANGED <<events, goals, project, clock, locals>>

(* api_status_change of an experiment: update_experiment_status *)
MoveCard(x, s) ==
  /\ experiments[x] # None
  /\ experiments' = [experiments EXCEPT ![x].status = s]
  /\ UNCHANGED <<events, goals, decisions, project, clock, locals>>

(* Mutant: the experiment the handler found is taken to be there still. *)
CreateEventUnchecked(e, x) ==
  /\ events[e] = None
  /\ events' = [events EXCEPT ![e] = x]
  /\ UNCHANGED <<experiments, goals, decisions, project, clock, locals>>

(* event_create: the experiment is a foreign key. *)
CreateEvent(e, x) ==
  /\ events[e] = None /\ experiments[x] # None
  /\ events' = [events EXCEPT ![e] = x]
  /\ UNCHANGED <<experiments, goals, decisions, project, clock, locals>>

(* event_delete, by the event's id alone; the experiment of the URL is only *)
(* looked up.                                                               *)
DeleteEvent(e, x) ==
  /\ events[e] # None /\ experiments[x] # None
  /\ events' = [events EXCEPT ![e] = None]
  /\ UNCHANGED <<experiments, goals, decisions, project, clock, locals>>

-----------------------------------------------------------------------------
(* The updates. *)

Answer(w) ==
  /\ pc' = [pc EXCEPT ![w] = "idle"]
  /\ target' = [target EXCEPT ![w] = None]
  /\ status' = [status EXCEPT ![w] = None]
  /\ was' = [was EXCEPT ![w] = None]

(* experiment_update takes the status from its form ("planned" if that is   *)
(* none); api_experiment_update takes it from the request or, when that     *)
(* names none, from the row it reads here.                                  *)
Ask(w, x, s) ==
  /\ pc[w] = "idle" /\ experiments[x] # None
  /\ pc' = [pc EXCEPT ![w] = "asked"]
  /\ target' = [target EXCEPT ![w] = x]
  /\ status' = [status EXCEPT ![w] = IF s = None THEN experiments[x].status ELSE s]
  /\ UNCHANGED <<tables, clock, was>>

(* update_experiment's find_experiment *)
Find(w) ==
  /\ pc[w] = "asked"
  /\ LET r == experiments[target[w]] IN
     IF r = None
     THEN Answer(w)
     ELSE /\ pc' = [pc EXCEPT ![w] = "found"]
          /\ was' = [was EXCEPT ![w] =
               [started |-> r.started, ended |-> r.ended, at |-> clock]]
          /\ UNCHANGED <<target, status>>
  /\ UNCHANGED <<tables, clock>>

(* Mutant: every update to "ongoing" is taken for a start. *)
StartedAgain(d, s, now) == IF s = "ongoing" THEN now ELSE d.started

Started(d, s, now) == IF s = "ongoing" /\ d.started = None THEN now ELSE d.started

(* Mutant: an experiment that goes on keeps the date of its end. *)
EndedKept(d, s, now) ==
  IF s \in {"done", "abandoned"} /\ d.ended = None THEN now ELSE d.ended

Ended(d, s, now) ==
  CASE s = "ongoing" -> None
    [] s \in {"done", "abandoned"} /\ d.ended = None -> now
    [] OTHER -> d.ended

(* Mutant: INSERT OR REPLACE. *)
WriteAnyway(w) ==
  /\ pc[w] = "found"
  /\ \E now \in was[w].at .. clock :
       experiments' = [experiments EXCEPT ![target[w]] =
         [status |-> status[w],
          started |-> Started(was[w], status[w], now),
          ended |-> Ended(was[w], status[w], now), goal |-> None, decision |-> None]]
  /\ Answer(w)
  /\ UNCHANGED <<events, goals, decisions, project, clock>>

(* ... its now and its UPDATE, which matches no row if the experiment has   *)
(* gone; its last find_experiment only serves the answer.                   *)
Write(w) ==
  /\ pc[w] = "found"
  /\ \E now \in was[w].at .. clock :
       experiments' = [experiments EXCEPT ![target[w]] =
         IF @ = None THEN None
         ELSE [@ EXCEPT !.status = status[w],
                        !.started = Started(was[w], status[w], now),
                        !.ended = Ended(was[w], status[w], now)]]
  /\ Answer(w)
  /\ UNCHANGED <<events, goals, decisions, project, clock>>

(* The update is refused, dropped, or dies with the server. *)
GiveUp(w) ==
  /\ pc[w] # "idle"
  /\ Answer(w)
  /\ UNCHANGED <<tables, clock>>

Tick ==
  /\ clock < MaxTime
  /\ clock' = clock + 1
  /\ UNCHANGED <<tables, locals>>

Next ==
  \/ \E x \in Experiment :
       \/ \E g \in Goal \cup {None}, d \in Decision \cup {None} : Create(x, g, d)
       \/ Delete(x)
       \/ \E s \in Status : MoveCard(x, s)
       \/ \E e \in Event : CreateEvent(e, x) \/ DeleteEvent(e, x)
  \/ DeleteProject
  \/ \E g \in Goal : DeleteGoal(g)
  \/ \E d \in Decision : DeleteDecision(d)
  \/ \E w \in Worker :
       \/ \E x \in Experiment, s \in Status \cup {None} : Ask(w, x, s)
       \/ Find(w) \/ Write(w) \/ GiveUp(w)
  \/ Tick

Spec == Init /\ [][Next]_vars

-----------------------------------------------------------------------------
(* The markers timeline() makes of an experiment's dates. *)
Timeline(r) ==
  {[kind |-> "Started", at |-> t] : t \in {r.started} \ {None}} \cup
  {[kind |-> IF r.status = "done" THEN "Completed" ELSE "Abandoned", at |-> t] :
     t \in {r.ended} \ {None}}

(* However updates overtake each other, an experiment does not end before   *)
(* it started: every UPDATE writes both dates from one read.                *)
EndsAfterItStarts ==
  \A x \in Experiment : experiments[x] # None =>
    \A a, b \in Timeline(experiments[x]) :
      a.kind = "Started" /\ b.kind # "Started" => a.at <= b.at

(* No event is left of an experiment that is gone and no experiment points  *)
(* to a goal or a decision that is gone, though the handlers that add them  *)
(* looked earlier.                                                          *)
NothingDangles ==
  /\ \A e \in Event : events[e] # None => experiments[events[e]] # None
  /\ \A x \in Experiment : experiments[x] # None =>
       /\ experiments[x].goal \in goals \cup {None}
       /\ experiments[x].decision \in decisions \cup {None}

(* An update that was under way when its experiment was deleted does not    *)
(* bring it back.                                                           *)
GoneIsGone ==
  [][\A w \in Worker :
       target[w] # None /\ experiments[target[w]] = None =>
         experiments'[target[w]] = None]_vars

(* repository.rs:237 "`started_at`/`ended_at` are set the first time status *)
(* moves to": a start that was recorded is replaced, or erased, only by an  *)
(* update that read the experiment before it was recorded.                  *)
StartLostToStaleRead ==
  [][\A x \in Experiment :
       /\ experiments[x] # None /\ experiments[x].started # None
       /\ experiments'[x] # None
       /\ experiments'[x].started # experiments[x].started
       => \E w \in Worker :
            /\ pc[w] = "found" /\ pc'[w] = "idle" /\ target[w] = x
            /\ was[w].started # experiments[x].started]_vars
=============================================================================

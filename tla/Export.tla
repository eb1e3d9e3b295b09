-------------------------------- MODULE Export --------------------------------
(***************************************************************************)
(* What a project looks like to the code that reads all of it while other  *)
(* requests write to it.  There are three such readers:                    *)
(*                                                                         *)
(*   Archive  collect_project_snapshot, in one read transaction: the       *)
(*            downloads and the export command;                            *)
(*   Page     collect, the same queries one by one on the pool: the        *)
(*            project page and the story editor;                           *)
(*   Graph    graph, five queries on the pool.                             *)
(*                                                                         *)
(* A reader's first query is for the project's row; in a transaction it    *)
(* also fixes the state that the later queries see.  A write here is one   *)
(* transaction with what its foreign keys do; the handlers it comes from   *)
(* are in Decisions and Experiments.  Texts are left out, and so are links *)
(* other than those by which a decision follows another; of the revisions  *)
(* the model keeps only which records have any.                            *)
(***************************************************************************)
EXTENDS Naturals, Sequences, FiniteSets

CONSTANTS
  Goal, Decision, Experiment, Note, Event, Link,   \* uuids
  Archive, Page, Graph,                      \* requests, by what they read with
  Start,                                     \* the contents to begin with
  MaxWrites,                                 \* bound: writes in a behaviour
  MaxRequests,                               \* bound: requests at one time
  None                                       \* SQL NULL, a missing row

Reader == Archive \cup Page \cup Graph
Entity == Goal \cup Decision \cup Experiment \cup Note \cup Event \cup Link

(* What became of an experiment, as far as knowledge states tell: "taught"  *)
(* is done with a lesson, "open" is neither done nor abandoned.             *)
Outcome == {"open", "abandoned", "done", "taught"}
State   == {"superseded", "invalidated", "validated", "unvalidated"}

DecisionRow   == [goal : Goal \cup {None}, decided : BOOLEAN]
ExperimentRow == [goal : Goal \cup {None}, decision : Decision \cup {None},
                  outcome : Outcome]
Pair == {p \in Decision \X Decision : p[1] # p[2]}

Content ==
  [project : BOOLEAN,
   goals : SUBSET Goal,
   decisions : [Decision -> DecisionRow \cup {None}],
   experiments : [Experiment -> ExperimentRow \cup {None}],
   notes : SUBSET Note,
   links : [Link -> Pair \cup {None}],
   revisions : SUBSET (Decision \cup Note),
   events : [Event -> Experiment \cup {None}]]

Nothing ==
  [project |-> FALSE, goals |-> {}, decisions |-> [d \in Decision |-> None],
   experiments |-> [x \in Experiment |-> None], notes |-> {},
   links |-> [k \in Link |-> None],
   revisions |-> {}, events |-> [e \in Event |-> None]]

(* The entities a content has. *)
Entities(c) ==
  c.goals \cup {d \in Decision : c.decisions[d] # None} \cup
  {x \in Experiment : c.experiments[x] # None} \cup c.notes \cup
  {e \in Event : c.events[e] # None} \cup
  {k \in Link : c.links[k] # None}

(* The foreign keys of migrations 0003, 0005 and 0006. *)
KeysHold(c) ==
  /\ \A d \in Decision : c.decisions[d] # None =>
       c.decisions[d].goal \in c.goals \cup {None}
  /\ \A x \in Experiment : c.experiments[x] # None =>
       /\ c.experiments[x].goal \in c.goals \cup {None}
       /\ c.experiments[x].decision \in Entities(c) \cup {None}
  /\ \A e \in Event : c.events[e] \in Entities(c) \cup {None}
  /\ ~c.project => Entities(c) = {}

ASSUME NoneIsNothing ==
  None \notin DecisionRow \cup ExperimentRow \cup Pair \cup Entity \cup State
ASSUME UuidsDiffer ==
  /\ Goal \cap (Decision \cup Experiment \cup Note \cup Event \cup Link) = {}
  /\ Decision \cap (Experiment \cup Note \cup Event \cup Link) = {}
  /\ Experiment \cap (Note \cup Event \cup Link) = {}
  /\ Note \cap (Event \cup Link) = {}
  /\ Event \cap Link = {}
ASSUME StartAssumption == \A c \in Start : c \in Content /\ KeysHold(c)
ASSUME BoundAssumption == MaxWrites \in Nat /\ MaxRequests \in Nat

VARIABLES
  db,      \* the project's rows
  used,    \* the uuids that have been given out
  writes,  \* counts to MaxWrites
  step,    \* how many queries a request has had answered; 0 is idle
  snap,    \* the content at its first query, or None
  answer   \* what each later query returned, or None

requests == <<step, snap, answer>>
vars == <<db, used, writes, step, snap, answer>>

-----------------------------------------------------------------------------
(* What the queries return. *)

Field == {"goals", "decisions", "states", "experiments", "notes", "links",
          "revisions", "events"}

(* A link that follows d, whether or not the decision it comes from is      *)
(* still there.                                                             *)
Followed(c, d) == \E k \in Link : c.links[k] # None /\ c.links[k][2] = d

(* knowledge_states_from_rows, of a decided decision *)
KnowledgeState(c, d) ==
  LET tests(o) == \E x \in Experiment : /\ c.experiments[x] # None
                                        /\ c.experiments[x].decision = d
                                        /\ c.experiments[x].outcome = o
  IN IF Followed(c, d) THEN "superseded"
     ELSE IF tests("abandoned") THEN "invalidated"
     ELSE IF tests("taught") THEN "validated"
     ELSE "unvalidated"

(* decision_knowledge_states *)
States(c) ==
  [d \in Decision |-> IF c.decisions[d] # None /\ c.decisions[d].decided
                      THEN KnowledgeState(c, d) ELSE None]

(* The revisions of what is still there; the other queries return tables. *)
View(c, f) ==
  CASE f = "states"    -> States(c)
    [] f = "revisions" -> c.revisions \cap Entities(c)
    [] OTHER           -> c[f]

CollectOrder == <<"goals", "decisions", "states", "experiments", "notes",
                  "links", "revisions", "events">>
GraphOrder == <<"goals", "decisions", "experiments", "notes", "links">>

(* Mutant: experiments are collected before the decisions they test. *)
OrderExperimentsFirst(r) ==
  <<"experiments", "goals", "decisions", "states", "notes", "links",
    "revisions", "events">>

Order(r) == IF r \in Graph THEN GraphOrder ELSE CollectOrder

-----------------------------------------------------------------------------
TypeOK ==
  /\ db \in Content
  /\ used \in SUBSET Entity
  /\ writes \in 0..MaxWrites
  /\ step \in [Reader -> 0..9]
  /\ \A r \in Reader : step[r] <= Len(Order(r)) + 1
  /\ snap \in [Reader -> Content \cup {None}]
  /\ DOMAIN answer = Reader
  /\ \A r \in Reader : DOMAIN answer[r] = Field

Unasked == [f \in Field |-> None]

Init ==
  /\ db \in Start
  /\ used = Entities(db)
  /\ writes = 0
  /\ step = [r \in Reader |-> 0]
  /\ snap = [r \in Reader |-> None]
  /\ answer = [r \in Reader |-> Unasked]

(* Q_PROJECT and find_project: no project, no answer. *)
Ask(r) ==
  /\ step[r] = 0 /\ db.project
  /\ Cardinality({q \in Reader : step[q] > 0}) < MaxRequests
  /\ step' = [step EXCEPT ![r] = 1]
  /\ snap' = [snap EXCEPT ![r] = db]
  /\ UNCHANGED <<db, used, writes, answer>>

(* Mutant: the queries of an archive run on the pool. *)
ReadPool(r) ==
  /\ step[r] \in 1..Len(Order(r))
  /\ LET f == Order(r)[step[r]] IN
     answer' = [answer EXCEPT ![r][f] = View(db, f)]
  /\ step' = [step EXCEPT ![r] = @ + 1]
  /\ UNCHANGED <<db, used, writes, snap>>

(* The next query: in a transaction, of the content it began with. *)
Read(r) ==
  /\ step[r] \in 1..Len(Order(r))
  /\ LET f == Order(r)[step[r]] IN
     answer' = [answer EXCEPT ![r][f] =
                  View(IF r \in Archive THEN snap[r] ELSE db, f)]
  /\ step' = [step EXCEPT ![r] = @ + 1]
  /\ UNCHANGED <<db, used, writes, snap>>

Complete(r) == step[r] = Len(Order(r)) + 1

(* The answer is sent; or a query fails, and the request with it. *)
End(r) ==
  /\ step[r] > 0
  /\ step' = [step EXCEPT ![r] = 0]
  /\ snap' = [snap EXCEPT ![r] = None]
  /\ answer' = [answer EXCEPT ![r] = Unasked]
  /\ UNCHANGED <<db, used, writes>>

-----------------------------------------------------------------------------
(* The writes. *)

Write(c) ==
  /\ writes < MaxWrites
  /\ writes' = writes + 1
  /\ db' = c
  /\ UNCHANGED requests

Insert(id, c) == db.project /\ id \notin used /\ used' = used \cup {id} /\ Write(c)
Update(c) == UNCHANGED used /\ Write(c)

CreateGoal(g) == Insert(g, [db EXCEPT !.goals = @ \cup {g}])

CreateDecision(d, g) ==
  /\ g \in db.goals \cup {None}
  /\ Insert(d, [db EXCEPT !.decisions[d] = [goal |-> g, decided |-> FALSE],
                          !.revisions = @ \cup {d}])

CreateExperiment(x, g, d) ==
  /\ g \in db.goals \cup {None} /\ d \in Entities(db) \cup {None}
  /\ Insert(x, [db EXCEPT !.experiments[x] =
                  [goal |-> g, decision |-> d, outcome |-> "open"]])

CreateNote(n) ==
  Insert(n, [db EXCEPT !.notes = @ \cup {n}, !.revisions = @ \cup {n}])

CreateEvent(e, x) ==
  /\ db.experiments[x] # None
  /\ Insert(e, [db EXCEPT !.events[e] = x])

(* A decision is decided, or opened again. *)
Decide(d, yes) ==
  /\ db.decisions[d] # None /\ db.decisions[d].decided # yes
  /\ Update([db EXCEPT !.decisions[d].decided = yes])

(* A new status, or a new lesson, of an experiment. *)
Conclude(x, o) ==
  /\ db.experiments[x] # None /\ db.experiments[x].outcome # o
  /\ Update([db EXCEPT !.experiments[x].outcome = o])

(* link_create looks up neither end, it only refuses a link from an entity  *)
(* to itself; the ids are those the graph page offered.                     *)
CreateLink(k, p) ==
  /\ {p[1], p[2]} \subseteq used
  /\ Insert(k, [db EXCEPT !.links[k] = p])

DeleteLink(k) == db.links[k] # None /\ Update([db EXCEPT !.links[k] = None])

(* ON DELETE SET NULL: what is left of a row when its goal or its decision  *)
(* has gone.                                                                *)
Detached(row, field, id) ==
  IF row # None /\ row[field] = id THEN [row EXCEPT ![field] = None] ELSE row

DeleteGoal(g) ==
  /\ g \in db.goals
  /\ Update([db EXCEPT
       !.goals = @ \ {g},
       !.decisions = [d \in Decision |-> Detached(@[d], "goal", g)],
       !.experiments = [x \in Experiment |-> Detached(@[x], "goal", g)]])

(* Mutant: the links of a decision go with it. *)
DeleteDecisionAndLinks(d) ==
  /\ db.decisions[d] # None
  /\ Update([db EXCEPT
       !.decisions[d] = None,
       !.links = [k \in Link |->
                    IF @[k] # None /\ (@[k][1] = d \/ @[k][2] = d)
                    THEN None ELSE @[k]],
       !.experiments = [x \in Experiment |-> Detached(@[x], "decision", d)]])

(* Its links and its revisions stay. *)
DeleteDecision(d) ==
  /\ db.decisions[d] # None
  /\ Update([db EXCEPT
       !.decisions[d] = None,
       !.experiments = [x \in Experiment |-> Detached(@[x], "decision", d)]])

DeleteExperiment(x) ==
  /\ db.experiments[x] # None
  /\ Update([db EXCEPT
       !.experiments[x] = None,
       !.events = [e \in Event |-> IF @[e] = x THEN None ELSE @[e]]])

DeleteNote(n) == n \in db.notes /\ Update([db EXCEPT !.notes = @ \ {n}])

DeleteEvent(e) == db.events[e] # None /\ Update([db EXCEPT !.events[e] = None])

(* Everything of the project is deleted with it; revisions have no key.     *)
DeleteProject ==
  /\ db.project
  /\ Update([Nothing EXCEPT !.revisions = db.revisions])

Next ==
  \/ \E r \in Reader : Ask(r) \/ Read(r) \/ End(r)
  \/ \E g \in Goal : CreateGoal(g) \/ DeleteGoal(g)
  \/ \E d \in Decision :
       \/ \E g \in Goal \cup {None} : CreateDecision(d, g)
       \/ \E yes \in BOOLEAN : Decide(d, yes)
       \/ DeleteDecision(d)
  \/ \E x \in Experiment :
       \/ \E g \in Goal \cup {None}, d \in Decision \cup {None} : CreateExperiment(x, g, d)
       \/ \E o \in Outcome : Conclude(x, o)
       \/ \E e \in Event : CreateEvent(e, x)
       \/ DeleteExperiment(x)
  \/ \E n \in Note : CreateNote(n) \/ DeleteNote(n)
  \/ \E e \in Event : DeleteEvent(e)
  \/ \E k \in Link : (\E p \in Pair : CreateLink(k, p)) \/ DeleteLink(k)
  \/ DeleteProject

Spec == Init /\ [][Next]_vars

-----------------------------------------------------------------------------
(* What an answer lists, and what it names by a foreign key or as the       *)
(* subject of a revision.  (Links and the sources of notes are not keys and *)
(* may name what is long gone.)                                             *)
Rows(table) == {table[i] : i \in DOMAIN table} \ {None}
Listed(a) ==
  a.goals \cup a.notes \cup {d \in Decision : a.decisions[d] # None}
          \cup {x \in Experiment : a.experiments[x] # None}
Named(a) ==
  (({w.goal : w \in Rows(a.decisions) \cup Rows(a.experiments)} \cup
    {w.decision : w \in Rows(a.experiments)}) \ {None}) \cup
  (IF a.events = None THEN {} ELSE Rows(a.events)) \cup
  (IF a.revisions = None THEN {} ELSE a.revisions)

(* A page or a graph is put together from different moments, and what it    *)
(* shows may refer to something it does not show: an experiment under a     *)
(* decision that is not there is then left out of a configured story.  But  *)
(* whatever is missing is new, created after the request began: the queries *)
(* go from the tables referred to to those that refer, and a deletion       *)
(* clears or deletes what refers to it.                                     *)
DanglingIsNew ==
  \A r \in Reader : Complete(r) =>
    Named(answer[r]) \cap Entities(snap[r]) \subseteq Listed(answer[r])

(* A decision that another one follows stays superseded as long as it is    *)
(* decided, until the link itself is deleted: nothing that happens to the   *)
(* experiments of either, nor the end of the decision that follows, brings  *)
(* it back.                                                                 *)
SupersededUntilUnlinked ==
  [][\A d \in Decision :
       States(db)[d] = "superseded" /\ States(db')[d] # None =>
         \/ States(db')[d] = "superseded"
         \/ \E k \in Link : /\ db.links[k] # None /\ db.links[k][2] = d
                            /\ Entities(db') = Entities(db) \ {k}]_vars

(* collect_project_snapshot promises one logical state of the project       *)
(* (repository.rs, "Consistent export snapshot"): the archive is taken at   *)
(* one moment, however the queries that fill it in are interleaved with     *)
(* writes.  What is still to be read is already settled by the snapshot.    *)
Settled ==
  [r \in Archive |->
     IF step[r] = 0 THEN None
     ELSE [f \in Field |->
             IF \E i \in 1..(step[r] - 1) : Order(r)[i] = f
             THEN answer[r][f] ELSE View(snap[r], f)]]

AtomicExport == INSTANCE ExportAbstract
  WITH content <- [f \in Field |-> View(db, f)], exists <- db.project,
       archive <- Settled, Reader <- Archive
ArchivesAreAtomic == AtomicExport!Spec
=============================================================================

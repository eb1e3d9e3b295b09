----------------------------- MODULE ExportProofs -----------------------------
(***************************************************************************)
(* The archives are atomic: Export implements ExportAbstract, whatever the *)
(* ids, the requests, the contents and the bounds.  Then: the variables    *)
(* keep their types, a superseded decision stays superseded, and what an   *)
(* answer names without showing it is newer than the request.              *)
(*                                                                         *)
(* The refinement mapping Settled shows an archive whole from its first    *)
(* query on.  That it does not change while the queries fill it in needs   *)
(* FromSnapshot: what has been read is what the snapshot holds.            *)
(***************************************************************************)
EXTENDS Export, TLAPS

(* The requests' variables are functions. *)
Shape ==
  /\ step \in [Reader -> Nat]
  /\ snap = [r \in Reader |-> snap[r]]
  /\ answer = [r \in Reader |-> [f \in Field |-> answer[r][f]]]

FromSnapshot ==
  \A r \in Archive : \A i \in 1..(step[r] - 1) :
    answer[r][Order(r)[i]] = View(snap[r], Order(r)[i])

Inv == Shape /\ FromSnapshot

(* Every query of every reader is for a field.                              *)
LEMMA OrderFields ==
  ASSUME NEW r \in Reader, NEW i \in 1..Len(Order(r))
  PROVE  Order(r)[i] \in Field
BY DEF Order, CollectOrder, GraphOrder, Field

LEMMA OrderLength ==
  ASSUME NEW r \in Reader
  PROVE  Len(Order(r)) \in {5, 8}
BY DEF Order, CollectOrder, GraphOrder

(* Arithmetic of the steps. *)
LEMMA BelowTop == \A n \in Nat : \A i \in 1..n : i # n => i \in 1..(n - 1)
OBVIOUS

(* With the invariant, Settled is the view of the snapshot. *)
Shown == [r \in Archive |->
  IF step[r] = 0 THEN None ELSE [f \in Field |-> View(snap[r], f)]]

LEMMA SettledIsSnapshot == Inv => Settled = Shown
<1> SUFFICES ASSUME Inv PROVE Settled = Shown
  OBVIOUS
<1>1. ASSUME NEW r \in Archive, step[r] # 0, NEW f \in Field
      PROVE  (IF \E i \in 1..(step[r] - 1) : Order(r)[i] = f
              THEN answer[r][f] ELSE View(snap[r], f)) = View(snap[r], f)
  BY <1>1 DEF Inv, FromSnapshot
<1> QED BY <1>1 DEF Settled, Shown

(* A write leaves the requests alone. *)
LEMMA WritesLeaveRequests ==
  ASSUME Next, ~ \E r \in Reader : Ask(r) \/ Read(r) \/ End(r)
  PROVE  UNCHANGED requests
BY DEF Next, Write, Insert, Update, requests, CreateGoal, CreateDecision,
       CreateExperiment, CreateNote, CreateEvent, Decide, Conclude,
       CreateLink, DeleteLink, DeleteGoal, DeleteDecision, DeleteExperiment,
       DeleteNote, DeleteEvent, DeleteProject

LEMMA InvInit == Init => Inv
<1> SUFFICES ASSUME Init PROVE Inv
  OBVIOUS
<1>1. Shape BY DEF Init, Shape, Unasked
<1>2. FromSnapshot
  <2>1. \A r \in Archive : 1..(step[r] - 1) = {} BY DEF Init, Reader
  <2> QED BY <2>1 DEF FromSnapshot
<1> QED BY <1>1, <1>2 DEF Inv

LEMMA InvStep == Inv /\ [Next]_vars => Inv'
<1> SUFFICES ASSUME Inv, [Next]_vars PROVE Inv'
  OBVIOUS
<1> USE DEF Inv, Shape, FromSnapshot
<1>1. ASSUME NEW r \in Reader, Ask(r) PROVE Inv'
  <2>1. Shape' BY <1>1 DEF Ask
  <2>2. ASSUME NEW q \in Archive, NEW i \in 1..(step'[q] - 1)
        PROVE  answer'[q][Order(q)[i]] = View(snap'[q], Order(q)[i])
    <3>1. CASE q = r BY <1>1, <2>2, <3>1 DEF Ask
    <3>2. CASE q # r BY <1>1, <2>2, <3>2 DEF Ask, Reader
    <3> QED BY <3>1, <3>2
  <2> QED BY <2>1, <2>2
<1>2. ASSUME NEW r \in Reader, Read(r) PROVE Inv'
  <2> DEFINE f == Order(r)[step[r]]
  <2>0. f \in Field BY <1>2, OrderFields DEF Read
  <2>1. Shape'
    <3>1. step' \in [Reader -> Nat] /\ snap' = [q \in Reader |-> snap'[q]]
      BY <1>2 DEF Read
    <3>2. answer' = [q \in Reader |-> [g \in Field |-> answer'[q][g]]]
      BY <1>2, <2>0 DEF Read
    <3> QED BY <3>1, <3>2
  <2>2. ASSUME NEW q \in Archive, NEW i \in 1..(step'[q] - 1)
        PROVE  answer'[q][Order(q)[i]] = View(snap'[q], Order(q)[i])
    <3>1. CASE q # r BY <1>2, <2>2, <3>1 DEF Read, Reader
    <3>2. CASE q = r
      <4>1. answer'[q] = [answer[q] EXCEPT ![f] = View(snap[q], f)]
        BY <1>2, <3>2 DEF Read, Reader
      <4>2. snap' = snap /\ i \in 1..step[q]
        BY <1>2, <2>2, <3>2 DEF Read, Reader
      <4>0. step[q] \in Nat /\ DOMAIN answer[q] = Field BY <3>2
      <4>3. CASE i = step[q] BY <4>0, <4>1, <4>2, <4>3, <2>0, <3>2
      <4>4. CASE i # step[q]
        <5>1. i \in 1..(step[q] - 1) BY <4>0, <4>2, <4>4, BelowTop
        <5>2. answer[q][Order(q)[i]] = View(snap[q], Order(q)[i]) BY <5>1
        <5>3. CASE Order(q)[i] = f BY <4>0, <4>1, <4>2, <5>3, <2>0
        <5>4. CASE Order(q)[i] # f BY <4>0, <4>1, <4>2, <5>2, <5>4
        <5> QED BY <5>3, <5>4
      <4> QED BY <4>3, <4>4
    <3> QED BY <3>1, <3>2
  <2> QED BY <2>1, <2>2
<1>3. ASSUME NEW r \in Reader, End(r) PROVE Inv'
  <2>1. Shape' BY <1>3 DEF End, Unasked
  <2>2. ASSUME NEW q \in Archive, NEW i \in 1..(step'[q] - 1)
        PROVE  answer'[q][Order(q)[i]] = View(snap'[q], Order(q)[i])
    <3>1. CASE q = r BY <1>3, <2>2, <3>1 DEF End
    <3>2. CASE q # r BY <1>3, <2>2, <3>2 DEF End, Reader
    <3> QED BY <3>1, <3>2
  <2> QED BY <2>1, <2>2
<1>4. CASE UNCHANGED requests
  BY <1>4 DEF requests
<1> QED BY <1>1, <1>2, <1>3, <1>4, WritesLeaveRequests DEF vars, requests

(* What each step is in the abstract specification: the first query takes  *)
(* the archive, the end of the request hands it over, and nothing else that *)
(* happens changes it.                                                      *)
LEMMA StepMaps ==
  Inv /\ Inv' /\ [Next]_vars =>
    [AtomicExport!Next]_<<[f \in Field |-> View(db, f)], db.project, Settled>>
<1>0. Inv' => (Settled = Shown)' BY SettledIsSnapshot, PTL
<1> SUFFICES ASSUME Inv, Inv', [Next]_vars
             PROVE  AtomicExport!Next
  OBVIOUS
<1>1. Settled = Shown BY SettledIsSnapshot
<1>2. Settled' = Shown' BY <1>0
<1>3. step \in [Reader -> Nat] /\ snap = [r \in Reader |-> snap[r]]
  BY DEF Inv, Shape
<1>4. ASSUME NEW r \in Reader, Ask(r) PROVE AtomicExport!Next
  <2>1. db' = db BY <1>4 DEF Ask
  <2>2. CASE r \in Archive
    <3> DEFINE taken == [f \in Field |-> View(db, f)]
    <3>0. /\ step[r] = 0 /\ step'[r] = 1 /\ snap'[r] = db
          /\ \A q \in Archive : q # r => step'[q] = step[q] /\ snap'[q] = snap[q]
      BY <1>3, <1>4 DEF Ask, Reader
    <3>1. Shown[r] = None /\ Shown' = [Shown EXCEPT ![r] = taken]
      <4>1. Shown'[r] = taken BY <3>0, <2>2 DEF Shown
      <4>2. \A q \in Archive : q # r => Shown'[q] = Shown[q] BY <3>0 DEF Shown
      <4>3. Shown[r] = None BY <3>0, <2>2 DEF Shown
      <4> QED BY <4>1, <4>2, <4>3 DEF Shown
    <3>2. AtomicExport!Take(r)
      BY <1>1, <1>2, <1>4, <2>1, <3>1 DEF AtomicExport!Take, Ask
    <3> QED BY <2>2, <3>2 DEF AtomicExport!Next
  <2>3. CASE r \notin Archive
    <3>1. Shown' = Shown BY <1>3, <1>4, <2>3 DEF Ask, Shown, Reader
    <3> QED BY <1>1, <1>2, <3>1 DEF AtomicExport!Next, AtomicExport!Change
  <2> QED BY <2>2, <2>3
<1>5. ASSUME NEW r \in Reader, Read(r) PROVE AtomicExport!Next
  <2>1. Shown' = Shown BY <1>3, <1>5 DEF Read, Shown, Reader
  <2> QED BY <1>1, <1>2, <2>1 DEF AtomicExport!Next, AtomicExport!Change
<1>6. ASSUME NEW r \in Reader, End(r) PROVE AtomicExport!Next
  <2>1. db' = db BY <1>6 DEF End
  <2>2. CASE r \in Archive
    <3>1. Shown' = [Shown EXCEPT ![r] = None]
      BY <1>3, <1>6, <2>2 DEF End, Shown, Reader
    <3>2. AtomicExport!Hand(r)
      BY <1>1, <1>2, <2>1, <3>1 DEF AtomicExport!Hand
    <3> QED BY <2>2, <3>2 DEF AtomicExport!Next
  <2>3. CASE r \notin Archive
    <3>1. Shown' = Shown BY <1>3, <1>6, <2>3 DEF End, Shown, Reader
    <3> QED BY <1>1, <1>2, <3>1 DEF AtomicExport!Next, AtomicExport!Change
  <2> QED BY <2>2, <2>3
<1>7. CASE UNCHANGED requests
  <2>1. Shown' = Shown BY <1>7 DEF requests, Shown
  <2> QED BY <1>1, <1>2, <2>1 DEF AtomicExport!Next, AtomicExport!Change
<1> QED
  BY <1>4, <1>5, <1>6, <1>7, WritesLeaveRequests DEF vars, requests

(* What was read of an archive is what the snapshot holds: the transaction  *)
(* of collect_project_snapshot, seen from inside.                           *)
THEOREM ArchiveReadsSnapshot == Spec => []Inv
BY InvInit, InvStep, PTL DEF Spec

(* Every archive is the project at one moment of its request, whatever is   *)
(* written meanwhile (repository.rs, collect_project_snapshot).             *)
THEOREM ArchivesImplement == Spec => ArchivesAreAtomic
<1>1. Init => AtomicExport!Init
  BY DEF Init, AtomicExport!Init, Settled, Reader
<1>2. Inv /\ Inv' /\ [Next]_vars =>
        [AtomicExport!Next]_<<[f \in Field |-> View(db, f)], db.project, Settled>>
  BY StepMaps
<1> QED BY <1>1, <1>2, ArchiveReadsSnapshot, PTL DEF Spec, ArchivesAreAtomic, AtomicExport!Spec

-----------------------------------------------------------------------------
(* What superseding rests on: the rows are rows, and the identifiers in use *)
(* have been given out, so a new link never takes the place of an old one.  *)
RowsOK == db \in Content /\ Entities(db) \subseteq used /\ used \subseteq Entity

(* An identifier that was given out never comes back with another row. *)
GoneStaysGone == used \subseteq used' /\ Entities(db') \cap used \subseteq Entities(db)

LEMMA RowsInit == Init => RowsOK
BY StartAssumption DEF Init, RowsOK, Entities, Entity, Content

LEMMA InsertKeepsRows ==
  ASSUME NEW id \in Entity, NEW c, Insert(id, c), RowsOK,
         c \in Content, Entities(c) \subseteq Entities(db) \cup {id}
  PROVE  RowsOK' /\ GoneStaysGone
BY DEF Insert, Write, RowsOK, GoneStaysGone, Entities

LEMMA UpdateKeepsRows ==
  ASSUME NEW c, Update(c), RowsOK, c \in Content, Entities(c) \subseteq Entities(db)
  PROVE  RowsOK' /\ GoneStaysGone
BY DEF Update, Write, RowsOK, GoneStaysGone, Entities

LEMMA DetachedRows ==
  /\ \A row \in DecisionRow \cup {None} : \A g :
       Detached(row, "goal", g) \in DecisionRow \cup {None}
  /\ \A row \in ExperimentRow \cup {None} : \A g :
       /\ Detached(row, "goal", g) \in ExperimentRow \cup {None}
       /\ Detached(row, "decision", g) \in ExperimentRow \cup {None}
BY DEF Detached, DecisionRow, ExperimentRow

LEMMA DetachedStays ==
  \A row \in DecisionRow \cup ExperimentRow \cup {None} : \A g :
    \A f \in {"goal", "decision"} : row = None <=> Detached(row, f, g) = None
BY NoneIsNothing DEF Detached, DecisionRow, ExperimentRow

LEMMA RowsStep == RowsOK /\ [Next]_vars => RowsOK' /\ GoneStaysGone
<1> SUFFICES ASSUME RowsOK, [Next]_vars PROVE RowsOK' /\ GoneStaysGone
  OBVIOUS
<1> USE DEF RowsOK
<1>1. ASSUME NEW r \in Reader, Ask(r) \/ Read(r) \/ End(r) PROVE RowsOK' /\ GoneStaysGone
  BY <1>1 DEF Ask, Read, End, Entities, GoneStaysGone
<1>2. ASSUME NEW g \in Goal, CreateGoal(g) PROVE RowsOK' /\ GoneStaysGone
  <2> DEFINE c == [db EXCEPT !.goals = @ \cup {g}]
  <2>1. c \in Content /\ Entities(c) = Entities(db) \cup {g} BY DEF Content, Entities
  <2> QED BY <1>2, <2>1, InsertKeepsRows DEF CreateGoal, Entity
<1>3. ASSUME NEW d \in Decision, NEW g \in Goal \cup {None}, CreateDecision(d, g)
      PROVE  RowsOK' /\ GoneStaysGone
  <2> DEFINE c == [db EXCEPT !.decisions[d] = [goal |-> g, decided |-> FALSE],
                             !.revisions = @ \cup {d}]
  <2>1. c \in Content BY DEF Content, DecisionRow
  <2>2. Entities(c) \subseteq Entities(db) \cup {d} BY DEF Content, Entities
  <2> QED BY <1>3, <2>1, <2>2, InsertKeepsRows DEF CreateDecision, Entity
<1>4. ASSUME NEW x \in Experiment, NEW g \in Goal \cup {None},
             NEW d \in Decision \cup {None}, CreateExperiment(x, g, d)
      PROVE  RowsOK' /\ GoneStaysGone
  <2> DEFINE c == [db EXCEPT !.experiments[x] =
                     [goal |-> g, decision |-> d, outcome |-> "open"]]
  <2>1. c \in Content BY DEF Content, ExperimentRow, Outcome
  <2>2. Entities(c) \subseteq Entities(db) \cup {x} BY DEF Content, Entities
  <2> QED BY <1>4, <2>1, <2>2, InsertKeepsRows DEF CreateExperiment, Entity
<1>5. ASSUME NEW n \in Note, CreateNote(n) PROVE RowsOK' /\ GoneStaysGone
  <2> DEFINE c == [db EXCEPT !.notes = @ \cup {n}, !.revisions = @ \cup {n}]
  <2>1. c \in Content /\ Entities(c) = Entities(db) \cup {n} BY DEF Content, Entities
  <2> QED BY <1>5, <2>1, InsertKeepsRows DEF CreateNote, Entity
<1>6. ASSUME NEW e \in Event, NEW x \in Experiment, CreateEvent(e, x) PROVE RowsOK' /\ GoneStaysGone
  <2> DEFINE c == [db EXCEPT !.events[e] = x]
  <2>1. c \in Content BY DEF Content
  <2>2. Entities(c) \subseteq Entities(db) \cup {e} BY DEF Content, Entities
  <2> QED BY <1>6, <2>1, <2>2, InsertKeepsRows DEF CreateEvent, Entity
<1>7. ASSUME NEW k \in Link, NEW p \in Pair, CreateLink(k, p) PROVE RowsOK' /\ GoneStaysGone
  <2> DEFINE c == [db EXCEPT !.links[k] = p]
  <2>1. c \in Content BY DEF Content
  <2>2. Entities(c) \subseteq Entities(db) \cup {k} BY DEF Content, Entities
  <2> QED BY <1>7, <2>1, <2>2, InsertKeepsRows DEF CreateLink, Entity
<1>8. ASSUME NEW d \in Decision, NEW yes \in BOOLEAN, Decide(d, yes) PROVE RowsOK' /\ GoneStaysGone
  <2> DEFINE c == [db EXCEPT !.decisions[d].decided = yes]
  <2>1. db.decisions[d] \in DecisionRow BY <1>8 DEF Decide, Content
  <2>2. [db.decisions[d] EXCEPT !.decided = yes] \in DecisionRow BY <2>1 DEF DecisionRow
  <2>3. c \in Content BY <2>2 DEF Content
  <2>4. Entities(c) \subseteq Entities(db) BY <1>8 DEF Decide, Content, Entities
  <2> QED BY <1>8, <2>3, <2>4, UpdateKeepsRows DEF Decide
<1>9. ASSUME NEW x \in Experiment, NEW o \in Outcome, Conclude(x, o) PROVE RowsOK' /\ GoneStaysGone
  <2> DEFINE c == [db EXCEPT !.experiments[x].outcome = o]
  <2>1. db.experiments[x] \in ExperimentRow BY <1>9 DEF Conclude, Content
  <2>2. [db.experiments[x] EXCEPT !.outcome = o] \in ExperimentRow BY <2>1 DEF ExperimentRow
  <2>3. c \in Content BY <2>2 DEF Content
  <2>4. Entities(c) \subseteq Entities(db) BY <1>9 DEF Conclude, Content, Entities
  <2> QED BY <1>9, <2>3, <2>4, UpdateKeepsRows DEF Conclude
<1>10. ASSUME NEW g \in Goal, DeleteGoal(g) PROVE RowsOK' /\ GoneStaysGone
  <2> DEFINE c == [db EXCEPT
       !.goals = @ \ {g},
       !.decisions = [d \in Decision |-> Detached(@[d], "goal", g)],
       !.experiments = [x \in Experiment |-> Detached(@[x], "goal", g)]]
  <2>1. c \in Content BY DetachedRows DEF Content
  <2>2. Entities(c) \subseteq Entities(db)
    <3>1. \A d \in Decision : c.decisions[d] # None => db.decisions[d] # None
      BY DetachedStays DEF Content
    <3>2. \A x \in Experiment : c.experiments[x] # None => db.experiments[x] # None
      BY DetachedStays DEF Content
    <3>3. /\ c.goals \subseteq db.goals /\ c.notes = db.notes
          /\ c.events = db.events /\ c.links = db.links
      BY DEF Content
    <3> HIDE DEF c
    <3> QED BY <3>1, <3>2, <3>3 DEF Entities
  <2> QED BY <1>10, <2>1, <2>2, UpdateKeepsRows DEF DeleteGoal
<1>11. ASSUME NEW d \in Decision, DeleteDecision(d) PROVE RowsOK' /\ GoneStaysGone
  <2> DEFINE c == [db EXCEPT
       !.decisions[d] = None,
       !.experiments = [x \in Experiment |-> Detached(@[x], "decision", d)]]
  <2>1. c \in Content BY DetachedRows DEF Content
  <2>2. Entities(c) \subseteq Entities(db)
    <3>1. \A y \in Decision : c.decisions[y] # None => db.decisions[y] # None
      BY DEF Content
    <3>2. \A x \in Experiment : c.experiments[x] # None => db.experiments[x] # None
      BY DetachedStays DEF Content
    <3>3. /\ c.goals = db.goals /\ c.notes = db.notes
          /\ c.events = db.events /\ c.links = db.links
      BY DEF Content
    <3> HIDE DEF c
    <3> QED BY <3>1, <3>2, <3>3 DEF Entities
  <2> QED BY <1>11, <2>1, <2>2, UpdateKeepsRows DEF DeleteDecision
<1>12. ASSUME NEW x \in Experiment, DeleteExperiment(x) PROVE RowsOK' /\ GoneStaysGone
  <2> DEFINE c == [db EXCEPT
       !.experiments[x] = None,
       !.events = [e \in Event |-> IF @[e] = x THEN None ELSE @[e]]]
  <2>1. c \in Content BY DEF Content
  <2>2. Entities(c) \subseteq Entities(db) BY DEF Content, Entities
  <2> QED BY <1>12, <2>1, <2>2, UpdateKeepsRows DEF DeleteExperiment
<1>13. ASSUME NEW n \in Note, DeleteNote(n) PROVE RowsOK' /\ GoneStaysGone
  <2> DEFINE c == [db EXCEPT !.notes = @ \ {n}]
  <2>1. c \in Content /\ Entities(c) \subseteq Entities(db) BY DEF Content, Entities
  <2> QED BY <1>13, <2>1, UpdateKeepsRows DEF DeleteNote
<1>14. ASSUME NEW e \in Event, DeleteEvent(e) PROVE RowsOK' /\ GoneStaysGone
  <2> DEFINE c == [db EXCEPT !.events[e] = None]
  <2>1. c \in Content /\ Entities(c) \subseteq Entities(db) BY DEF Content, Entities
  <2> QED BY <1>14, <2>1, UpdateKeepsRows DEF DeleteEvent
<1>15. ASSUME NEW k \in Link, DeleteLink(k) PROVE RowsOK' /\ GoneStaysGone
  <2> DEFINE c == [db EXCEPT !.links[k] = None]
  <2>1. c \in Content /\ Entities(c) \subseteq Entities(db) BY DEF Content, Entities
  <2> QED BY <1>15, <2>1, UpdateKeepsRows DEF DeleteLink
<1>16. ASSUME DeleteProject PROVE RowsOK' /\ GoneStaysGone
  <2> DEFINE c == [Nothing EXCEPT !.revisions = db.revisions]
  <2>1. c \in Content BY DEF Content, Nothing
  <2>2. Entities(c) = {} BY DEF Entities, Nothing
  <2> QED BY <1>16, <2>1, <2>2, UpdateKeepsRows DEF DeleteProject
<1>17. CASE UNCHANGED vars BY <1>17 DEF vars, Entities, GoneStaysGone
<1> QED BY <1>1, <1>2, <1>3, <1>4, <1>5, <1>6, <1>7, <1>8, <1>9, <1>10, <1>11,
           <1>12, <1>13, <1>14, <1>15, <1>16, <1>17 DEF Next

LEMMA SupersededIsFollowed ==
  ASSUME NEW d \in Decision, States(db)[d] = "superseded"
  PROVE  Followed(db, d)
BY NoneIsNothing DEF States, KnowledgeState, State

(* A write that keeps the links keeps a decision superseded, if it is still *)
(* decided; one that deletes them all leaves no decision.                   *)
LEMMA LinksKept ==
  ASSUME NEW d \in Decision, States(db)[d] = "superseded", States(db')[d] # None,
         \A k \in Link : db.links[k] # None => db'.links[k] = db.links[k]
  PROVE  States(db')[d] = "superseded"
<1>1. Followed(db, d) BY SupersededIsFollowed
<1>2. Followed(db', d) BY <1>1 DEF Followed
<1> QED BY <1>2 DEF States, KnowledgeState

Unlinked(d) ==
  \E k \in Link : /\ db.links[k] # None /\ db.links[k][2] = d
                  /\ Entities(db') = Entities(db) \ {k}

LEMMA SupersededStep ==
  ASSUME RowsOK, [Next]_vars, NEW d \in Decision,
         States(db)[d] = "superseded", States(db')[d] # None
  PROVE  States(db')[d] = "superseded" \/ Unlinked(d)
<1> DEFINE kept == \A k \in Link : db.links[k] # None => db'.links[k] = db.links[k]
<1>1. CASE \E k \in Link : DeleteLink(k)
  <2>1. PICK k \in Link : DeleteLink(k) BY <1>1
  <2>2. db' = [db EXCEPT !.links[k] = None] /\ db.links[k] # None
    BY <2>1 DEF DeleteLink, Update, Write
  <2>3. db' \in Content /\ db \in Content BY RowsStep DEF RowsOK
  <2>4. CASE db.links[k][2] = d
    <3>1. Entities(db') = Entities(db) \ {k}
      BY <2>2, <2>3, UuidsDiffer DEF Entities, Content
    <3> QED BY <2>2, <2>4, <3>1 DEF Unlinked
  <2>5. CASE db.links[k][2] # d
    <3>1. Followed(db, d) BY SupersededIsFollowed
    <3>2. Followed(db', d) BY <2>2, <2>3, <2>5, <3>1 DEF Followed, Content
    <3>3. States(db')[d] = "superseded" BY <3>2 DEF States, KnowledgeState
    <3> QED BY <3>3
  <2> QED BY <2>4, <2>5
<1>2. CASE \E k \in Link, p \in Pair : CreateLink(k, p)
  <2>1. PICK k \in Link, p \in Pair : CreateLink(k, p) BY <1>2
  <2>2. db' = [db EXCEPT !.links[k] = p] /\ k \notin used
    BY <2>1 DEF CreateLink, Insert, Write
  <2>3. db.links[k] = None BY <2>2 DEF RowsOK, Entities
  <2>4. kept BY <2>2, <2>3 DEF RowsOK, Content
  <2> QED BY <2>4, LinksKept
<1>3. CASE DeleteProject
  <2>1. db'.decisions[d] = None BY <1>3 DEF DeleteProject, Update, Write, Nothing
  <2> QED BY <2>1 DEF States
<1>4. CASE db'.links = db.links
  <2> QED BY <1>4, LinksKept
<1>5. ASSUME Next, ~ (\E k \in Link : DeleteLink(k)),
             ~ (\E k \in Link, p \in Pair : CreateLink(k, p)), ~ DeleteProject
      PROVE  db'.links = db.links
  BY <1>5 DEF Next, RowsOK, Content, Write, Insert, Update, CreateGoal,
     CreateDecision, CreateExperiment, CreateNote, CreateEvent, Decide, Conclude,
     DeleteGoal, DeleteDecision, DeleteExperiment, DeleteNote, DeleteEvent,
     Ask, Read, End
<1> QED BY <1>1, <1>2, <1>3, <1>4, <1>5 DEF vars

(* A superseded decision stays so until one of the links that supersede it  *)
(* is deleted, for any contents and writes.                                 *)
THEOREM SupersededStays == Spec => SupersededUntilUnlinked
<1>1. Spec => []RowsOK BY RowsInit, RowsStep, PTL DEF Spec
<1>2. RowsOK /\ [Next]_vars =>
        [\A d \in Decision :
           States(db)[d] = "superseded" /\ States(db')[d] # None =>
             \/ States(db')[d] = "superseded"
             \/ \E k \in Link : /\ db.links[k] # None /\ db.links[k][2] = d
                                /\ Entities(db') = Entities(db) \ {k}]_vars
  BY SupersededStep DEF Unlinked
<1> QED BY <1>1, <1>2, PTL DEF Spec, SupersededUntilUnlinked

-----------------------------------------------------------------------------
(* Whatever dangles is new.  First the foreign keys, row by row: an         *)
(* identifier is of one table only.                                         *)
Keys(c) ==
  /\ \A d \in Decision : c.decisions[d] # None =>
       c.decisions[d].goal \in c.goals \cup {None}
  /\ \A x \in Experiment : c.experiments[x] # None =>
       /\ c.experiments[x].goal \in c.goals \cup {None}
       /\ c.experiments[x].decision # None => c.decisions[c.experiments[x].decision] # None
  /\ \A e \in Event : c.events[e] # None => c.experiments[c.events[e]] # None

(* The entities of each table. *)
LEMMA EntitiesByTable ==
  ASSUME NEW c \in Content
  PROVE  /\ \A g \in Goal : g \in Entities(c) <=> g \in c.goals
         /\ \A d \in Decision : d \in Entities(c) <=> c.decisions[d] # None
         /\ \A x \in Experiment : x \in Entities(c) <=> c.experiments[x] # None
         /\ \A n \in Note : n \in Entities(c) <=> n \in c.notes
BY UuidsDiffer DEF Entities, Content

LEMMA KeysByRow ==
  ASSUME NEW c \in Content
  PROVE  KeysHold(c) <=> Keys(c) /\ (~c.project => Entities(c) = {})
<1>1. \A x \in Experiment : c.experiments[x] # None =>
        c.experiments[x].decision \in Decision \cup {None}
  BY DEF Content, ExperimentRow
<1>2. \A e \in Event : c.events[e] \in Experiment \cup {None}
  BY DEF Content
<1>. QED  BY <1>1, <1>2, EntitiesByTable DEF KeysHold, Keys

LEMMA KeysStep ==
  ASSUME RowsOK, RowsOK', KeysHold(db), [Next]_vars
  PROVE  KeysHold(db')
<1> USE DEF RowsOK
<1>0. Keys(db) /\ (~db.project => Entities(db) = {})
  BY KeysByRow
<1>1. ASSUME Keys(db'), db'.project = db.project,
             Entities(db') \subseteq Entities(db) \/ db.project
      PROVE  KeysHold(db')
  BY <1>0, <1>1, KeysByRow
<1>2. ASSUME NEW r \in Reader, Ask(r) \/ Read(r) \/ End(r) PROVE KeysHold(db')
  BY <1>2 DEF Ask, Read, End
<1>3. ASSUME NEW g \in Goal, CreateGoal(g) PROVE KeysHold(db')
  <2>1. db' = [db EXCEPT !.goals = @ \cup {g}] /\ db.project
    BY <1>3 DEF CreateGoal, Insert, Write
  <2>. QED  BY <1>0, <1>1, <2>1 DEF Keys, Content
<1>4. ASSUME NEW d \in Decision, NEW g \in Goal \cup {None}, CreateDecision(d, g)
      PROVE  KeysHold(db')
  <2>1. /\ db' = [db EXCEPT !.decisions[d] = [goal |-> g, decided |-> FALSE],
                            !.revisions = @ \cup {d}]
        /\ db.project /\ g \in db.goals \cup {None}
    BY <1>4 DEF CreateDecision, Insert, Write
  <2>2. /\ db'.decisions = [db.decisions EXCEPT ![d] = [goal |-> g, decided |-> FALSE]]
        /\ db'.goals = db.goals /\ db'.experiments = db.experiments
        /\ db'.events = db.events /\ db'.project = db.project
    BY <2>1 DEF Content
  <2>3. [goal |-> g, decided |-> FALSE] # None
    <3>1. [goal |-> g, decided |-> FALSE] \in DecisionRow
      BY DEF DecisionRow
    <3>. QED  BY <3>1, NoneIsNothing
  <2>4. \A b \in Decision : db'.decisions[b] = IF b = d THEN [goal |-> g, decided |-> FALSE]
                                                        ELSE db.decisions[b]
    BY <2>2 DEF Content
  <2>5. \A x \in Experiment : db.experiments[x] # None =>
          db.experiments[x].decision \in Decision \cup {None}
    BY DEF Content, ExperimentRow
  <2>. QED  BY <1>0, <1>1, <2>1, <2>2, <2>3, <2>4, <2>5 DEF Keys
<1>5. ASSUME NEW x \in Experiment, NEW g \in Goal \cup {None},
             NEW d \in Decision \cup {None}, CreateExperiment(x, g, d)
      PROVE  KeysHold(db')
  <2> DEFINE row == [goal |-> g, decision |-> d, outcome |-> "open"]
  <2>1. /\ db' = [db EXCEPT !.experiments[x] = row]
        /\ db.project /\ g \in db.goals \cup {None} /\ d \in Entities(db) \cup {None}
    BY <1>5 DEF CreateExperiment, Insert, Write
  <2>2. /\ db'.experiments = [db.experiments EXCEPT ![x] = row]
        /\ db'.goals = db.goals /\ db'.decisions = db.decisions
        /\ db'.events = db.events /\ db'.project = db.project
    BY <2>1 DEF Content
  <2>3. row # None /\ row.goal = g /\ row.decision = d
    BY NoneIsNothing DEF ExperimentRow, Outcome
  <2>4. \A y \in Experiment : db'.experiments[y] = IF y = x THEN row ELSE db.experiments[y]
    BY <2>2 DEF Content
  <2>5. d # None => db.decisions[d] # None
    BY <2>1, EntitiesByTable
  <2>6. \A e \in Event : db.events[e] \in Experiment \cup {None}
    BY DEF Content
  <2> HIDE DEF row
  <2>. QED  BY <1>0, <1>1, <2>1, <2>2, <2>3, <2>4, <2>5, <2>6 DEF Keys
<1>6. ASSUME NEW n \in Note, CreateNote(n) PROVE KeysHold(db')
  <2>1. db' = [db EXCEPT !.notes = @ \cup {n}, !.revisions = @ \cup {n}] /\ db.project
    BY <1>6 DEF CreateNote, Insert, Write
  <2>. QED  BY <1>0, <1>1, <2>1 DEF Keys, Content
<1>7. ASSUME NEW e \in Event, NEW x \in Experiment, CreateEvent(e, x) PROVE KeysHold(db')
  <2>1. db' = [db EXCEPT !.events[e] = x] /\ db.project /\ db.experiments[x] # None
    BY <1>7 DEF CreateEvent, Insert, Write
  <2>. QED  BY <1>0, <1>1, <2>1 DEF Keys, Content
<1>8. ASSUME NEW k \in Link, NEW p \in Pair, CreateLink(k, p) PROVE KeysHold(db')
  <2>1. db' = [db EXCEPT !.links[k] = p] /\ db.project
    BY <1>8 DEF CreateLink, Insert, Write
  <2>. QED  BY <1>0, <1>1, <2>1 DEF Keys, Content
<1>9. ASSUME NEW d \in Decision, NEW yes \in BOOLEAN, Decide(d, yes) PROVE KeysHold(db')
  <2>1. db' = [db EXCEPT !.decisions[d].decided = yes] /\ db.decisions[d] # None
    BY <1>9 DEF Decide, Update, Write
  <2>2. db.decisions[d] \in DecisionRow
    BY <2>1 DEF Content
  <2> DEFINE row == [db.decisions[d] EXCEPT !.decided = yes]
  <2>3. row \in DecisionRow /\ row.goal = db.decisions[d].goal
    BY <2>2 DEF DecisionRow
  <2>4. /\ db'.decisions = [db.decisions EXCEPT ![d] = row]
        /\ db'.goals = db.goals /\ db'.experiments = db.experiments
        /\ db'.events = db.events /\ db'.project = db.project
    BY <2>1 DEF Content
  <2>5. \A b \in Decision : db'.decisions[b] = IF b = d THEN row ELSE db.decisions[b]
    BY <2>4 DEF Content
  <2>6. \A x \in Experiment : db.experiments[x] # None =>
          db.experiments[x].decision \in Decision \cup {None}
    BY DEF Content, ExperimentRow
  <2>7. d \in Entities(db)
    BY <2>1, EntitiesByTable
  <2> HIDE DEF row
  <2>8. row # None
    BY <2>3, NoneIsNothing
  <2>. QED  BY <1>0, <1>1, <2>1, <2>3, <2>4, <2>5, <2>6, <2>7, <2>8 DEF Keys
<1>10. ASSUME NEW x \in Experiment, NEW o \in Outcome, Conclude(x, o) PROVE KeysHold(db')
  <2>1. db' = [db EXCEPT !.experiments[x].outcome = o] /\ db.experiments[x] # None
    BY <1>10 DEF Conclude, Update, Write
  <2>2. db.experiments[x] \in ExperimentRow
    BY <2>1 DEF Content
  <2> DEFINE row == [db.experiments[x] EXCEPT !.outcome = o]
  <2>3. /\ row \in ExperimentRow /\ row.goal = db.experiments[x].goal
        /\ row.decision = db.experiments[x].decision
    BY <2>2 DEF ExperimentRow
  <2>4. /\ db'.experiments = [db.experiments EXCEPT ![x] = row]
        /\ db'.goals = db.goals /\ db'.decisions = db.decisions
        /\ db'.events = db.events /\ db'.project = db.project
    BY <2>1 DEF Content
  <2>5. \A y \in Experiment : db'.experiments[y] = IF y = x THEN row ELSE db.experiments[y]
    BY <2>4 DEF Content
  <2>6. \A e \in Event : db.events[e] \in Experiment \cup {None}
    BY DEF Content
  <2>7. x \in Entities(db)
    BY <2>1, EntitiesByTable
  <2> HIDE DEF row
  <2>8. row # None
    BY <2>3, NoneIsNothing
  <2>. QED  BY <1>0, <1>1, <2>1, <2>3, <2>4, <2>5, <2>6, <2>7, <2>8 DEF Keys
<1>11. ASSUME NEW g \in Goal, DeleteGoal(g) PROVE KeysHold(db')
  <2>1. /\ g \in db.goals /\ db'.goals = db.goals \ {g} /\ db'.events = db.events
        /\ db'.decisions = [d \in Decision |-> Detached(db.decisions[d], "goal", g)]
        /\ db'.experiments = [x \in Experiment |-> Detached(db.experiments[x], "goal", g)]
        /\ db'.project = db.project
    BY <1>11 DEF DeleteGoal, Update, Write, Content
  <2>2. g \in Entities(db)
    BY <2>1, EntitiesByTable
  <2>3. \A d \in Decision : db'.decisions[d] # None =>
          /\ db.decisions[d] # None
          /\ db'.decisions[d].goal \in {db.decisions[d].goal, None} \ {g}
    <3>1. g # None
      BY NoneIsNothing DEF Entity
    <3>. QED  BY <2>1, <3>1 DEF Detached, Content, DecisionRow
  <2>4. \A x \in Experiment : db'.experiments[x] # None =>
          /\ db.experiments[x] # None
          /\ db'.experiments[x].goal \in {db.experiments[x].goal, None} \ {g}
          /\ db'.experiments[x].decision = db.experiments[x].decision
    <3>1. g # None
      BY NoneIsNothing DEF Entity
    <3>. QED  BY <2>1, <3>1 DEF Detached, Content, ExperimentRow
  <2>5. /\ \A d \in Decision : db.decisions[d] # None => db'.decisions[d] # None
        /\ \A x \in Experiment : db.experiments[x] # None => db'.experiments[x] # None
    BY <2>1, DetachedStays DEF Content
  <2>6. /\ \A x \in Experiment : db.experiments[x] # None =>
             db.experiments[x].decision \in Decision \cup {None}
        /\ \A e \in Event : db.events[e] \in Experiment \cup {None}
    BY DEF Content, ExperimentRow
  <2>. QED  BY <1>0, <1>1, <2>1, <2>2, <2>3, <2>4, <2>5, <2>6 DEF Keys
<1>12. ASSUME NEW d \in Decision, DeleteDecision(d) PROVE KeysHold(db')
  <2>1. /\ db.decisions[d] # None /\ db'.goals = db.goals /\ db'.events = db.events
        /\ db'.decisions = [db.decisions EXCEPT ![d] = None]
        /\ db'.experiments = [x \in Experiment |-> Detached(db.experiments[x], "decision", d)]
        /\ db'.project = db.project
    BY <1>12 DEF DeleteDecision, Update, Write, Content
  <2>2. d \in Entities(db)
    BY <2>1, EntitiesByTable
  <2>3. \A b \in Decision : db'.decisions[b] = IF b = d THEN None ELSE db.decisions[b]
    BY <2>1 DEF Content
  <2>4. \A x \in Experiment : db'.experiments[x] # None =>
          /\ db.experiments[x] # None
          /\ db'.experiments[x].goal = db.experiments[x].goal
          /\ db'.experiments[x].decision \in {db.experiments[x].decision, None} \ {d}
    <3>1. d # None
      BY NoneIsNothing DEF Entity
    <3>. QED  BY <2>1, <3>1 DEF Detached, Content, ExperimentRow
  <2>5. \A x \in Experiment : db.experiments[x] # None => db'.experiments[x] # None
    BY <2>1, DetachedStays DEF Content
  <2>6. /\ \A x \in Experiment : db.experiments[x] # None =>
             db.experiments[x].decision \in Decision \cup {None}
        /\ \A e \in Event : db.events[e] \in Experiment \cup {None}
    BY DEF Content, ExperimentRow
  <2>. QED  BY <1>0, <1>1, <2>1, <2>2, <2>3, <2>4, <2>5, <2>6 DEF Keys
<1>13. ASSUME NEW x \in Experiment, DeleteExperiment(x) PROVE KeysHold(db')
  <2>1. /\ db.experiments[x] # None /\ db'.goals = db.goals
        /\ db'.decisions = db.decisions
        /\ db'.experiments = [db.experiments EXCEPT ![x] = None]
        /\ db'.events = [e \in Event |-> IF db.events[e] = x THEN None ELSE db.events[e]]
        /\ db'.project = db.project
    BY <1>13 DEF DeleteExperiment, Update, Write, Content
  <2>2. x \in Entities(db)
    BY <2>1, EntitiesByTable
  <2>3. \A y \in Experiment : db'.experiments[y] = IF y = x THEN None ELSE db.experiments[y]
    BY <2>1 DEF Content
  <2>4. \A e \in Event : db.events[e] \in Experiment \cup {None}
    BY DEF Content
  <2>. QED  BY <1>0, <1>1, <2>1, <2>2, <2>3, <2>4 DEF Keys
<1>14. ASSUME NEW n \in Note, DeleteNote(n) PROVE KeysHold(db')
  <2>1. db' = [db EXCEPT !.notes = @ \ {n}]
    BY <1>14 DEF DeleteNote, Update, Write
  <2>2. Entities(db') \subseteq Entities(db)
    BY <2>1 DEF Entities, Content
  <2>. QED  BY <1>0, <1>1, <2>1, <2>2 DEF Keys, Content
<1>15. ASSUME NEW e \in Event, DeleteEvent(e) PROVE KeysHold(db')
  <2>1. db' = [db EXCEPT !.events[e] = None]
    BY <1>15 DEF DeleteEvent, Update, Write
  <2>2. Entities(db') \subseteq Entities(db)
    BY <2>1 DEF Entities, Content
  <2>. QED  BY <1>0, <1>1, <2>1, <2>2 DEF Keys, Content
<1>16. ASSUME NEW k \in Link, DeleteLink(k) PROVE KeysHold(db')
  <2>1. db' = [db EXCEPT !.links[k] = None]
    BY <1>16 DEF DeleteLink, Update, Write
  <2>2. Entities(db') \subseteq Entities(db)
    BY <2>1 DEF Entities, Content
  <2>. QED  BY <1>0, <1>1, <2>1, <2>2 DEF Keys, Content
<1>17. ASSUME DeleteProject PROVE KeysHold(db')
  <2>1. db' = [Nothing EXCEPT !.revisions = db.revisions]
    BY <1>17 DEF DeleteProject, Update, Write
  <2>. QED  BY <2>1 DEF KeysHold, Entities, Nothing
<1>18. CASE UNCHANGED vars
  BY <1>18 DEF vars
<1>. QED
  BY <1>2, <1>3, <1>4, <1>5, <1>6, <1>7, <1>8, <1>9, <1>10, <1>11, <1>12, <1>13,
     <1>14, <1>15, <1>16, <1>17, <1>18 DEF Next

(* The tables a request has read, and where it reads them: a transaction    *)
(* its snapshot, the others what the tables hold.                           *)
Asked(r) == {Order(r)[i] : i \in 1..(step[r] - 1)}
Source(r) == IF r \in Archive THEN snap[r] ELSE db

(* What there was when the request began. *)
Old(r) == Entities(snap[r])

AnswersTyped(r) ==
  /\ "goals" \in Asked(r) => answer[r].goals \subseteq Goal
  /\ "decisions" \in Asked(r) =>
       answer[r].decisions \in [Decision -> DecisionRow \cup {None}]
  /\ "experiments" \in Asked(r) =>
       answer[r].experiments \in [Experiment -> ExperimentRow \cup {None}]
  /\ "notes" \in Asked(r) => answer[r].notes \subseteq Note
  /\ "events" \in Asked(r) => answer[r].events \in [Event -> Experiment \cup {None}]
  /\ "revisions" \in Asked(r) => answer[r].revisions \subseteq Decision \cup Note
  /\ \A f \in Field \ Asked(r) : answer[r][f] = None

(* What is old and still there is listed in every table that has been read. *)
StillListed(r) ==
  LET left == Entities(Source(r)) \cap Old(r) IN
  /\ "goals" \in Asked(r) => left \cap Goal \subseteq answer[r].goals
  /\ "decisions" \in Asked(r) =>
       \A d \in left \cap Decision : answer[r].decisions[d] # None
  /\ "experiments" \in Asked(r) =>
       \A x \in left \cap Experiment : answer[r].experiments[x] # None
  /\ "notes" \in Asked(r) => left \cap Note \subseteq answer[r].notes

(* What is old and named by a table that has been read is listed. *)
NamesListed(r) ==
  LET a == answer[r] IN
  /\ "decisions" \in Asked(r) => \A d \in Decision :
       a.decisions[d] # None /\ a.decisions[d].goal \in Old(r) =>
         a.decisions[d].goal \in a.goals
  /\ "experiments" \in Asked(r) => \A x \in Experiment : a.experiments[x] # None =>
       /\ a.experiments[x].goal \in Old(r) => a.experiments[x].goal \in a.goals
       /\ a.experiments[x].decision \in Old(r) =>
            a.decisions[a.experiments[x].decision] # None
  /\ "events" \in Asked(r) => \A e \in Event :
       a.events[e] \in Old(r) => a.experiments[a.events[e]] # None
  /\ "revisions" \in Asked(r) => \A i \in a.revisions \cap Old(r) :
       \/ i \in Decision /\ a.decisions[i] # None
       \/ i \in a.notes

Reading(r) ==
  step[r] > 0 =>
    /\ snap[r] \in Content /\ KeysHold(snap[r]) /\ Old(r) \subseteq used
    /\ StillListed(r) /\ NamesListed(r)

ReadInv == KeysHold(db) /\ \A r \in Reader : AnswersTyped(r) /\ Reading(r)

(* The orders of the queries: what refers to a table is read after it. *)
Before(f) ==
  CASE f = "goals"       -> {}
    [] f = "decisions"   -> {"goals"}
    [] f = "states"      -> {"goals", "decisions"}
    [] f = "experiments" -> {"goals", "decisions"}
    [] f = "notes"       -> {"goals", "decisions", "experiments"}
    [] f = "links"       -> {"goals", "decisions", "experiments", "notes"}
    [] f = "revisions"   -> {"goals", "decisions", "experiments", "notes", "links"}
    [] f = "events"      -> {"goals", "decisions", "experiments", "notes", "links",
                             "revisions"}

LEMMA OrderRespected ==
  ASSUME NEW r \in Reader, step[r] \in 1..Len(Order(r))
  PROVE  LET f == Order(r)[step[r]] IN
         /\ f \in Field /\ f \notin Asked(r)
         /\ Before(f) \subseteq Asked(r) /\ Asked(r) \subseteq Before(f) \cup {"states"}
<1>1. CASE Order(r) = GraphOrder
  <2>1. Len(Order(r)) = 5
    BY <1>1 DEF GraphOrder
  <2>2. step[r] \in {1, 2, 3, 4, 5}
    BY <2>1
  <2>. QED  BY <1>1, <2>2 DEF GraphOrder, Asked, Field, Before
<1>2. CASE Order(r) = CollectOrder
  <2>1. Len(Order(r)) = 8
    BY <1>2 DEF CollectOrder
  <2>2. step[r] \in {1, 2, 3, 4, 5, 6, 7, 8}
    BY <2>1
  <2>. QED  BY <1>2, <2>2 DEF CollectOrder, Asked, Field, Before
<1>. QED  BY <1>1, <1>2 DEF Order

LEMMA WriteKeepsReading ==
  ASSUME ReadInv, RowsOK', KeysHold(db'), GoneStaysGone, UNCHANGED requests
  PROVE  ReadInv'
<1>1. step' = step /\ snap' = snap /\ answer' = answer
  BY DEF requests
<1>2. ASSUME NEW r \in Reader
      PROVE  Asked(r)' = Asked(r) /\ Old(r)' = Old(r)
  BY <1>1 DEF Asked, Old, Entities
<1>3. ASSUME NEW r \in Reader PROVE AnswersTyped(r)'
  BY <1>1, <1>2 DEF ReadInv, AnswersTyped
<1>4. ASSUME NEW r \in Reader, step[r] > 0
      PROVE  StillListed(r)' /\ NamesListed(r)' /\ Old(r)' \subseteq used'
  <2>1. Old(r) \subseteq used /\ StillListed(r) /\ NamesListed(r)
    BY <1>4 DEF ReadInv, Reading
  <2>2. Entities(Source(r))' \cap Old(r) \subseteq Entities(Source(r)) \cap Old(r)
    <3>1. CASE r \in Archive
      BY <1>1, <3>1 DEF Source, Entities
    <3>2. CASE r \notin Archive
      BY <2>1, <3>2 DEF Source, GoneStaysGone, Entities
    <3>. QED  BY <3>1, <3>2
  <2>3. StillListed(r)'
    BY <1>1, <1>2, <2>1, <2>2 DEF StillListed
  <2>4. NamesListed(r)'
    BY <1>1, <1>2, <2>1 DEF NamesListed
  <2>. QED  BY <1>2, <2>1, <2>3, <2>4 DEF GoneStaysGone
<1>5. ASSUME NEW r \in Reader PROVE Reading(r)'
  BY <1>1, <1>4 DEF ReadInv, Reading, KeysHold, Entities
<1>. QED  BY <1>3, <1>5 DEF ReadInv

LEMMA ReadsTable ==
  ASSUME ReadInv, RowsOK, Shape, NEW r \in Reader, Read(r)
  PROVE  AnswersTyped(r)' /\ Reading(r)'
<1> DEFINE f == Order(r)[step[r]]
           c == Source(r)
           a == answer'[r]
<1>1. /\ step[r] \in 1..Len(Order(r)) /\ step'[r] = step[r] + 1
      /\ db' = db /\ used' = used /\ snap' = snap
  BY DEF Read, Shape
<1>2. /\ f \in Field /\ f \notin Asked(r)
      /\ Before(f) \subseteq Asked(r) /\ Asked(r) \subseteq Before(f) \cup {"states"}
  BY <1>1, OrderRespected
<1>3. a = [answer[r] EXCEPT ![f] = View(c, f)] /\ DOMAIN answer[r] = Field
  BY DEF Read, Shape, Source
<1>4. Asked(r)' = Asked(r) \cup {f}
  <2>1. step[r] \in Nat \ {0} /\ step'[r] - 1 = step[r]
    BY <1>1, OrderLength
  <2>2. \A n \in Nat \ {0} : 1..n = 1..(n - 1) \cup {n}
    OBVIOUS
  <2>3. 1..(step'[r] - 1) = 1..(step[r] - 1) \cup {step[r]}
    BY <2>1, <2>2
  <2>. QED  BY <2>3 DEF Asked, f
<1>5. Old(r)' = Old(r) /\ Source(r)' = c
  BY <1>1 DEF Old, Source, Entities
<1>6. c \in Content /\ Keys(c)
  <2>1. c \in Content /\ KeysHold(c)
    BY <1>1, OrderLength DEF ReadInv, Reading, Source, RowsOK
  <2>. QED  BY <2>1, KeysByRow
<1>7. /\ a[f] = View(c, f)
      /\ \A g \in Field : g # f => a[g] = answer[r][g]
  BY <1>2, <1>3
<1>8. /\ snap[r] \in Content /\ KeysHold(snap[r]) /\ Old(r) \subseteq used
      /\ StillListed(r) /\ NamesListed(r) /\ AnswersTyped(r)
  BY <1>1, OrderLength DEF ReadInv, Reading
<1> HIDE DEF f, c, a
<1>9. /\ f = "goals" => a.goals = c.goals
      /\ f = "decisions" => a.decisions = c.decisions
      /\ f = "experiments" => a.experiments = c.experiments
      /\ f = "notes" => a.notes = c.notes
      /\ f = "events" => a.events = c.events
      /\ f = "revisions" => a.revisions = c.revisions \cap Entities(c)
  BY <1>7 DEF View
<1>10. /\ f # "goals" => a.goals = answer[r].goals
       /\ f # "decisions" => a.decisions = answer[r].decisions
       /\ f # "experiments" => a.experiments = answer[r].experiments
       /\ f # "notes" => a.notes = answer[r].notes
       /\ f # "events" => a.events = answer[r].events
       /\ f # "revisions" => a.revisions = answer[r].revisions
  BY <1>7 DEF Field
<1>11. AnswersTyped(r)'
  <2>1. /\ c.goals \subseteq Goal /\ c.notes \subseteq Note
        /\ c.decisions \in [Decision -> DecisionRow \cup {None}]
        /\ c.experiments \in [Experiment -> ExperimentRow \cup {None}]
        /\ c.events \in [Event -> Experiment \cup {None}]
        /\ c.revisions \subseteq Decision \cup Note
    BY <1>6 DEF Content
  <2>2. answer'[r] = a
    BY DEF a
  <2>3. \A g \in Field \ Asked(r)' : a[g] = None
    BY <1>4, <1>7, <1>8 DEF AnswersTyped
  <2>. QED  BY <1>4, <1>8, <1>9, <1>10, <2>1, <2>2, <2>3 DEF AnswersTyped
<1>12. StillListed(r)'
  <2>1. /\ \A g \in Goal : g \in Entities(c) <=> g \in c.goals
        /\ \A d \in Decision : d \in Entities(c) <=> c.decisions[d] # None
        /\ \A x \in Experiment : x \in Entities(c) <=> c.experiments[x] # None
        /\ \A n \in Note : n \in Entities(c) <=> n \in c.notes
    BY <1>6, EntitiesByTable
  <2>2. Entities(Source(r))' = Entities(c)
    BY <1>5 DEF Entities
  <2>3. answer'[r] = a /\ Source(r) = c
    BY DEF a, c
  <2>. QED  BY <1>4, <1>5, <1>8, <1>9, <1>10, <2>1, <2>2, <2>3 DEF StillListed
<1>13. NamesListed(r)'
  <2>1. /\ "goals" \in Asked(r) =>
             \A g \in Goal : g \in Entities(c) \cap Old(r) => g \in answer[r].goals
        /\ "decisions" \in Asked(r) =>
             \A d \in Decision : d \in Entities(c) \cap Old(r) => answer[r].decisions[d] # None
        /\ "experiments" \in Asked(r) =>
             \A x \in Experiment : x \in Entities(c) \cap Old(r) => answer[r].experiments[x] # None
        /\ "notes" \in Asked(r) =>
             \A n \in Note : n \in Entities(c) \cap Old(r) => n \in answer[r].notes
    BY <1>8 DEF StillListed, c
  <2>2. None \notin Old(r)
    BY <1>8, NoneIsNothing DEF Old, Entities, Content, Entity
  <2>3. answer'[r] = a
    BY DEF a
  <2>4. CASE f = "goals"
    BY <1>2, <1>4, <2>4 DEF NamesListed, Before
  <2>5. CASE f = "decisions"
    BY <1>2, <1>4, <1>5, <1>6, <1>9, <1>10, <2>1, <2>2, <2>3, <2>5, EntitiesByTable
       DEF NamesListed, Before, Keys, Content
  <2>6. CASE f = "experiments"
    <3>1. /\ {"goals", "decisions"} \subseteq Asked(r)
          /\ Asked(r)' \subseteq {"goals", "decisions", "states", "experiments"}
      BY <1>2, <1>4, <2>6 DEF Before
    <3>2. /\ a.experiments = c.experiments /\ a.goals = answer[r].goals
          /\ a.decisions = answer[r].decisions
      BY <1>9, <1>10, <2>6
    <3>3. ASSUME NEW x \in Experiment, c.experiments[x] # None
          PROVE  /\ c.experiments[x].goal \in Old(r) => c.experiments[x].goal \in a.goals
                 /\ c.experiments[x].decision \in Old(r) =>
                      a.decisions[c.experiments[x].decision] # None
      <4>1. /\ c.experiments[x].goal \in Goal \cup {None}
            /\ c.experiments[x].decision \in Decision \cup {None}
        BY <1>6, <3>3 DEF Content, ExperimentRow
      <4>2. /\ c.experiments[x].goal \in Goal => c.experiments[x].goal \in Entities(c)
            /\ c.experiments[x].decision \in Decision =>
                 c.experiments[x].decision \in Entities(c)
        BY <1>6, <3>3, <4>1, EntitiesByTable, NoneIsNothing DEF Keys, Entity
      <4>. QED  BY <2>1, <2>2, <3>1, <3>2, <4>1, <4>2
    <3>4. \A d \in Decision : a.decisions[d] # None /\ a.decisions[d].goal \in Old(r) =>
            a.decisions[d].goal \in a.goals
      BY <1>8, <3>1, <3>2 DEF NamesListed
    <3>. QED  BY <1>5, <2>3, <3>1, <3>2, <3>3, <3>4 DEF NamesListed
  <2>7. CASE f = "events"
    BY <1>2, <1>4, <1>5, <1>6, <1>8, <1>9, <1>10, <2>1, <2>2, <2>3, <2>7, EntitiesByTable
       DEF NamesListed, Before, Keys, Content
  <2>8. CASE f = "revisions"
    BY <1>2, <1>4, <1>5, <1>6, <1>8, <1>9, <1>10, <2>1, <2>2, <2>3, <2>8, EntitiesByTable
       DEF NamesListed, Before, Keys, Content
  <2>9. CASE f \in {"notes", "states", "links"}
    BY <1>2, <1>4, <1>5, <1>8, <1>10, <2>3, <2>9 DEF NamesListed, Before
  <2>. QED  BY <1>2, <2>4, <2>5, <2>6, <2>7, <2>8, <2>9 DEF Field
<1>. QED  BY <1>1, <1>5, <1>8, <1>11, <1>12, <1>13 DEF Reading, KeysHold, Entities

LEMMA ReadInvStep ==
  ASSUME ReadInv, RowsOK, RowsOK', Shape, Shape', GoneStaysGone, [Next]_vars
  PROVE  ReadInv'
<1>1. KeysHold(db')
  BY KeysStep DEF ReadInv
<1>2. ASSUME NEW r \in Reader, NEW q \in Reader, q # r,
             step'[q] = step[q], snap'[q] = snap[q], answer'[q] = answer[q],
             db' = db, used' = used
      PROVE  AnswersTyped(q)' /\ Reading(q)'
  <2>1. AnswersTyped(q) /\ Reading(q)
    BY DEF ReadInv
  <2>2. Asked(q)' = Asked(q) /\ Old(q)' = Old(q) /\ Entities(Source(q))' = Entities(Source(q))
    BY <1>2 DEF Asked, Old, Source, Entities
  <2>. QED
    BY <1>2, <2>1, <2>2 DEF AnswersTyped, Reading, StillListed, NamesListed, KeysHold, Entities
<1>3. ASSUME NEW r \in Reader, Ask(r) PROVE ReadInv'
  <2>1. /\ step[r] = 0 /\ step'[r] = 1 /\ snap'[r] = db /\ answer' = answer
        /\ db' = db /\ used' = used
        /\ \A q \in Reader : q # r => step'[q] = step[q] /\ snap'[q] = snap[q]
    BY <1>3 DEF Ask, Shape
  <2>2. Asked(r) = {} /\ Asked(r)' = {}
    BY <2>1 DEF Asked
  <2>3. AnswersTyped(r)'
    BY <2>1, <2>2 DEF ReadInv, AnswersTyped
  <2>4. StillListed(r)' /\ NamesListed(r)'
    BY <2>2 DEF StillListed, NamesListed
  <2>5. Reading(r)'
    BY <1>1, <2>1, <2>4 DEF Reading, RowsOK, Old, KeysHold, Entities
  <2>. QED  BY <1>1, <1>2, <2>1, <2>3, <2>5 DEF ReadInv
<1>4. ASSUME NEW r \in Reader, Read(r) PROVE ReadInv'
  <2>1. /\ db' = db /\ used' = used
        /\ \A q \in Reader : q # r =>
             step'[q] = step[q] /\ snap'[q] = snap[q] /\ answer'[q] = answer[q]
    BY <1>4 DEF Read, Shape
  <2>. QED  BY <1>1, <1>2, <1>4, <2>1, ReadsTable DEF ReadInv
<1>5. ASSUME NEW r \in Reader, End(r) PROVE ReadInv'
  <2>1. /\ step'[r] = 0 /\ answer'[r] = Unasked /\ db' = db /\ used' = used
        /\ \A q \in Reader : q # r =>
             step'[q] = step[q] /\ snap'[q] = snap[q] /\ answer'[q] = answer[q]
    BY <1>5 DEF End, Shape
  <2>2. Asked(r)' = {}
    BY <2>1 DEF Asked
  <2>3. AnswersTyped(r)' /\ Reading(r)'
    BY <2>1, <2>2 DEF AnswersTyped, Reading, Unasked
  <2>. QED  BY <1>1, <1>2, <2>1, <2>3 DEF ReadInv
<1>6. CASE UNCHANGED requests
  BY <1>1, <1>6, WriteKeepsReading
<1>. QED
  BY <1>3, <1>4, <1>5, <1>6, WritesLeaveRequests DEF vars, requests

LEMMA ReadInvInit == Init => ReadInv
<1> SUFFICES ASSUME Init PROVE ReadInv  OBVIOUS
<1>1. KeysHold(db)
  BY StartAssumption DEF Init
<1>2. ASSUME NEW r \in Reader PROVE AnswersTyped(r) /\ Reading(r)
  <2>1. Asked(r) = {} /\ step[r] = 0
    BY DEF Asked, Init
  <2>. QED  BY <2>1 DEF AnswersTyped, Reading, Init, Unasked
<1>. QED  BY <1>1, <1>2 DEF ReadInv

(* A complete answer: whatever it names and does not list is new. *)
LEMMA CompleteAnswer ==
  ASSUME ReadInv, Shape, NEW r \in Reader, Complete(r)
  PROVE  Named(answer[r]) \cap Old(r) \subseteq Listed(answer[r])
<1> DEFINE a == answer[r]
<1>1. {"goals", "decisions", "experiments", "notes"} \subseteq Asked(r)
  <2>1. CASE Order(r) = GraphOrder
    <3>1. step[r] = 6
      BY <2>1 DEF Complete, GraphOrder
    <3>2. 1 \in 1..5 /\ 2 \in 1..5 /\ 3 \in 1..5 /\ 4 \in 1..5
      OBVIOUS
    <3>. QED  BY <2>1, <3>1, <3>2 DEF Asked, GraphOrder
  <2>2. CASE Order(r) = CollectOrder
    <3>1. step[r] = 9
      BY <2>2 DEF Complete, CollectOrder
    <3>2. 1 \in 1..8 /\ 2 \in 1..8 /\ 4 \in 1..8 /\ 5 \in 1..8
      OBVIOUS
    <3>. QED  BY <2>2, <3>1, <3>2 DEF Asked, CollectOrder
  <2>. QED  BY <2>1, <2>2 DEF Order
<1>2. step[r] > 0
  BY OrderLength DEF Complete
<1>3. /\ AnswersTyped(r) /\ NamesListed(r) /\ snap[r] \in Content
      /\ None \notin Old(r)
  <2>1. AnswersTyped(r) /\ NamesListed(r) /\ snap[r] \in Content
    BY <1>2 DEF ReadInv, Reading
  <2>2. None \notin Old(r)
    BY <2>1, NoneIsNothing DEF Old, Entities, Content, Entity
  <2>. QED  BY <2>1, <2>2
<1>4. /\ a.decisions \in [Decision -> DecisionRow \cup {None}]
      /\ a.experiments \in [Experiment -> ExperimentRow \cup {None}]
  BY <1>1, <1>3 DEF AnswersTyped
<1>5. ASSUME NEW i \in Old(r), i \in {w.goal : w \in Rows(a.decisions) \cup Rows(a.experiments)}
      PROVE  i \in a.goals
  <2>1. PICK w \in Rows(a.decisions) \cup Rows(a.experiments) : i = w.goal
    BY <1>5
  <2>2. \/ \E d \in Decision : w = a.decisions[d] /\ w # None
        \/ \E x \in Experiment : w = a.experiments[x] /\ w # None
    BY <1>4, <2>1 DEF Rows
  <2>. QED  BY <1>1, <1>3, <2>1, <2>2 DEF NamesListed
<1>6. ASSUME NEW i \in Old(r), i \in {w.decision : w \in Rows(a.experiments)}
      PROVE  i \in Listed(a)
  <2>1. PICK x \in Experiment : a.experiments[x] # None /\ i = a.experiments[x].decision
    BY <1>4, <1>6 DEF Rows
  <2>2. i \in Decision
    BY <1>3, <1>4, <2>1 DEF ExperimentRow
  <2>. QED  BY <1>1, <1>3, <2>1, <2>2 DEF NamesListed, Listed
<1>7. ASSUME NEW i \in Old(r), a.events # None, i \in Rows(a.events)
      PROVE  i \in Listed(a)
  <2>1. "events" \in Asked(r)
    BY <1>3, <1>7 DEF AnswersTyped, Field
  <2>2. a.events \in [Event -> Experiment \cup {None}]
    BY <1>3, <2>1 DEF AnswersTyped
  <2>3. PICK e \in Event : i = a.events[e] /\ i # None
    BY <1>7, <2>2 DEF Rows
  <2>. QED  BY <1>3, <2>1, <2>2, <2>3 DEF NamesListed, Listed
<1>8. ASSUME NEW i \in Old(r), a.revisions # None, i \in a.revisions
      PROVE  i \in Listed(a)
  <2>1. "revisions" \in Asked(r)
    BY <1>3, <1>8 DEF AnswersTyped, Field
  <2>. QED  BY <1>3, <1>8, <2>1 DEF NamesListed, Listed
<1>. QED  BY <1>5, <1>6, <1>7, <1>8 DEF Named, Listed

(* However the queries of a page, a graph or an archive are interleaved     *)
(* with writes, what the answer names and does not list was created after   *)
(* the request began: collect and graph read the tables referred to before  *)
(* those that refer to them, and the foreign keys do the rest.              *)
THEOREM OnlyNewDangles == Spec => []DanglingIsNew
<1>1. Init => RowsOK /\ Shape /\ ReadInv
  BY RowsInit, InvInit, ReadInvInit DEF Inv
<1>2. RowsOK /\ Shape /\ ReadInv /\ Shape' /\ [Next]_vars => RowsOK' /\ ReadInv'
  BY RowsStep, ReadInvStep
<1>3. ReadInv /\ Shape => DanglingIsNew
  BY CompleteAnswer DEF DanglingIsNew, Old
<1>4. Inv => Shape
  BY DEF Inv
<1>. QED  BY <1>1, <1>2, <1>3, <1>4, ArchiveReadsSnapshot, PTL DEF Spec

-----------------------------------------------------------------------------
(* The types. *)
LEMMA QueryCount ==
  \A n \in {5, 8} : \A i \in 1..n : i + 1 \in 0..9 /\ i + 1 <= n + 1
OBVIOUS

RequestsTyped ==
  /\ writes \in 0..MaxWrites
  /\ step \in [Reader -> 0..9]
  /\ \A r \in Reader : step[r] <= Len(Order(r)) + 1
  /\ snap \in [Reader -> Content \cup {None}]
  /\ DOMAIN answer = Reader
  /\ \A r \in Reader : DOMAIN answer[r] = Field

LEMMA TypedStep == RowsOK /\ RequestsTyped /\ [Next]_vars => RequestsTyped'
<1> SUFFICES ASSUME RowsOK, RequestsTyped, [Next]_vars PROVE RequestsTyped'
  OBVIOUS
<1> USE DEF RequestsTyped
<1>1. ASSUME NEW r \in Reader, Ask(r) PROVE RequestsTyped'
  BY <1>1, OrderLength DEF Ask, RowsOK
<1>2. ASSUME NEW r \in Reader, Read(r) PROVE RequestsTyped'
  <2>1. ASSUME NEW q \in Reader
        PROVE  step'[q] \in 0..9 /\ step'[q] <= Len(Order(q)) + 1
    <3>1. Len(Order(q)) \in {5, 8} BY OrderLength
    <3>2. CASE q = r
      <4>1. step'[q] = step[q] + 1 /\ step[q] \in 1..Len(Order(q)) BY <1>2, <3>2 DEF Read
      <4> QED BY <3>1, <4>1, QueryCount
    <3>3. CASE q # r
      <4>1. step'[q] = step[q] BY <1>2, <3>3 DEF Read
      <4> QED BY <3>1, <4>1
    <3> QED BY <3>2, <3>3
  <2>2. DOMAIN answer' = Reader /\ \A q \in Reader : DOMAIN answer'[q] = Field
    BY <1>2 DEF Read
  <2>3. step' = [q \in Reader |-> step'[q]] BY <1>2 DEF Read
  <2> QED BY <1>2, <2>1, <2>2, <2>3 DEF Read
<1>3. ASSUME NEW r \in Reader, End(r) PROVE RequestsTyped'
  BY <1>3, OrderLength DEF End, Unasked
<1>4. CASE UNCHANGED requests /\ writes' \in 0..MaxWrites
  BY <1>4 DEF requests
<1>5. ASSUME Next, ~ \E r \in Reader : Ask(r) \/ Read(r) \/ End(r)
      PROVE  writes' \in 0..MaxWrites
  <2>1. writes < MaxWrites /\ writes' = writes + 1
    BY <1>5 DEF Next, Write, Insert, Update, CreateGoal,
       CreateDecision, CreateExperiment, CreateNote, CreateEvent, Decide, Conclude,
       CreateLink, DeleteLink, DeleteGoal, DeleteDecision, DeleteExperiment,
       DeleteNote, DeleteEvent, DeleteProject
  <2> QED BY <2>1, BoundAssumption
<1> QED BY <1>1, <1>2, <1>3, <1>4, <1>5, WritesLeaveRequests DEF vars, requests

(* The variables keep their types: the rows are rows of the tables, no      *)
(* request asks more than its queries, and nothing is written past the bound.*)
THEOREM TypeCorrect == Spec => []TypeOK
<1>1. Init => RowsOK /\ RequestsTyped
  BY RowsInit, OrderLength, BoundAssumption DEF Init, RequestsTyped, Unasked
<1>2. RowsOK /\ RequestsTyped /\ [Next]_vars => RowsOK' /\ RequestsTyped'
  BY RowsStep, TypedStep
<1>3. RowsOK /\ RequestsTyped => TypeOK BY DEF RowsOK, RequestsTyped, TypeOK
<1> QED BY <1>1, <1>2, <1>3, PTL DEF Spec
=============================================================================

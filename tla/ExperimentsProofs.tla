-------------------------- MODULE ExperimentsProofs --------------------------
(***************************************************************************)
(* Theorems about Experiments, for any numbers of experiments, events and  *)
(* updates under way.  The dates an update has read are a state the row    *)
(* was once in: they are in order and not later than the read, so whatever *)
(* the row has become, both dates of the UPDATE are in order again.        *)
(***************************************************************************)
EXTENDS Experiments, TLAPS

(* The dates of a row or of a read, of which none is later than t. *)
InOrder(d, t) ==
  /\ d.started # None => d.started <= t
  /\ d.ended # None => d.ended <= t
  /\ d.started # None /\ d.ended # None => d.started <= d.ended

RowsInOrder == \A x \in Experiment :
  experiments[x] # None => InOrder(experiments[x], clock)

(* What an update carries, by the place it has reached. *)
Holds(w) ==
  /\ pc[w] # "idle" => target[w] # None /\ status[w] # None
  /\ pc[w] = "found" => was[w] # None
  /\ was[w] # None => InOrder(was[w], was[w].at) /\ was[w].at <= clock

IInv ==
  /\ TypeOK
  /\ NothingDangles
  /\ RowsInOrder
  /\ \A w \in Worker : Holds(w)

-----------------------------------------------------------------------------
LEMMA InitInv == Init => IInv
<1> SUFFICES ASSUME Init PROVE IInv  OBVIOUS
<1>. QED
  BY NoneIsNothing, MaxTimeAssumption
  DEF Init, IInv, TypeOK, NothingDangles, RowsInOrder, Holds, Time

(* What a time later does to dates in order. *)
LEMMA Later ==
  ASSUME NEW d, NEW t \in Time, NEW u \in Time, InOrder(d, t), t <= u,
         d.started \in Time \cup {None}, d.ended \in Time \cup {None}
  PROVE  InOrder(d, u)
BY MaxTimeAssumption, NoneIsNothing DEF InOrder, Time

(* The dates update_experiment makes of dates in order are in order. *)
LEMMA NewDates ==
  ASSUME NEW d \in Dates, InOrder(d, d.at), NEW s \in Status,
         NEW now \in Time, d.at <= now
  PROVE  /\ Started(d, s, now) \in Time \cup {None}
         /\ Ended(d, s, now) \in Time \cup {None}
         /\ \A r : r.started = Started(d, s, now) /\ r.ended = Ended(d, s, now)
                     => InOrder(r, now)
<1> USE MaxTimeAssumption, NoneIsNothing
<1>1. /\ d.started \in Time \cup {None} /\ d.ended \in Time \cup {None}
      /\ d.at \in Time
  BY DEF Dates
<1>2. CASE s = "ongoing"
  BY <1>1, <1>2 DEF Started, Ended, InOrder, Time
<1>3. CASE s \in {"done", "abandoned"} /\ d.ended = None
  BY <1>1, <1>3 DEF Started, Ended, InOrder, Time
<1>4. CASE s # "ongoing" /\ ~(s \in {"done", "abandoned"} /\ d.ended = None)
  <2>1. Started(d, s, now) = d.started /\ Ended(d, s, now) = d.ended
    BY <1>4 DEF Started, Ended
  <2>. QED  BY <1>1, <2>1 DEF InOrder, Time
<1>. QED  BY <1>2, <1>3, <1>4

-----------------------------------------------------------------------------
(* The steps of the tables alone: rows come, go, move and lose a pointer,   *)
(* and no date changes.                                                     *)
TableStep ==
  \/ \E x \in Experiment :
       \/ \E g \in Goal \cup {None}, d \in Decision \cup {None} : Create(x, g, d)
       \/ Delete(x)
       \/ \E s \in Status : MoveCard(x, s)
       \/ \E e \in Event : CreateEvent(e, x) \/ DeleteEvent(e, x)
  \/ DeleteProject
  \/ \E g \in Goal : DeleteGoal(g)
  \/ \E d \in Decision : DeleteDecision(d)

LEMMA TableStepInv ==
  ASSUME IInv, TableStep
  PROVE  IInv'
<1> USE NoneIsNothing DEF IInv
<1>1. UNCHANGED <<clock, locals>>
  BY DEF TableStep, Create, Delete, MoveCard, CreateEvent, DeleteEvent,
         DeleteProject, DeleteGoal, DeleteDecision
<1>2. \A w \in Worker : Holds(w)'
  BY <1>1 DEF Holds, locals
<1>3. ASSUME /\ experiments' \in [Experiment -> Row \cup {None}]
             /\ events' \in [Event -> Experiment \cup {None}]
             /\ goals' \in SUBSET Goal /\ decisions' \in SUBSET Decision
             /\ project' \in BOOLEAN
             /\ NothingDangles'
             /\ \A x \in Experiment : experiments'[x] # None =>
                  \/ /\ experiments[x] # None
                     /\ experiments'[x].started = experiments[x].started
                     /\ experiments'[x].ended = experiments[x].ended
                  \/ experiments'[x].started = None /\ experiments'[x].ended = None
      PROVE  IInv'
  <2>1. TypeOK'
    BY <1>1, <1>3 DEF TypeOK, locals
  <2>2. RowsInOrder'
    BY <1>1, <1>3 DEF RowsInOrder, InOrder
  <2>. QED  BY <1>2, <1>3, <2>1, <2>2
<1>4. ASSUME NEW x \in Experiment, NEW g \in Goal \cup {None},
             NEW d \in Decision \cup {None}, Create(x, g, d)
      PROVE  IInv'
  <2>1. [status |-> "planned", started |-> None, ended |-> None,
         goal |-> g, decision |-> d] \in Row
    BY DEF Row, Status
  <2>. QED  BY <1>3, <1>4, <2>1 DEF Create, FreshId, TypeOK, NothingDangles, locals
<1>5. ASSUME NEW X \in SUBSET Experiment, Forget(X),
             UNCHANGED <<goals, decisions>> \/ X = Experiment,
             goals' \in SUBSET Goal, decisions' \in SUBSET Decision,
             project' \in BOOLEAN
      PROVE  IInv'
  BY <1>3, <1>5 DEF Forget, TypeOK, NothingDangles
<1>6. ASSUME NEW x \in Experiment, Delete(x) PROVE IInv'
  BY <1>5, <1>6 DEF Delete, TypeOK
<1>7. CASE DeleteProject
  BY <1>5, <1>7 DEF DeleteProject, TypeOK
<1>8. ASSUME NEW x \in Experiment, NEW s \in Status, MoveCard(x, s) PROVE IInv'
  <2>1. [experiments[x] EXCEPT !.status = s] \in Row
    BY <1>8 DEF MoveCard, TypeOK, Row
  <2>. QED  BY <1>3, <1>8, <2>1 DEF MoveCard, TypeOK, NothingDangles, Row
<1>9. ASSUME NEW e \in Event, NEW x \in Experiment,
             CreateEvent(e, x) \/ DeleteEvent(e, x)
      PROVE  IInv'
  BY <1>3, <1>9 DEF CreateEvent, DeleteEvent, TypeOK, NothingDangles
<1>10. ASSUME NEW g \in Goal, DeleteGoal(g) PROVE IInv'
  <2>1. ASSUME NEW x \in Experiment, experiments[x] # None
        PROVE  /\ experiments[x] \in Row
               /\ [experiments[x] EXCEPT !.goal = None] \in Row
    BY <2>1 DEF TypeOK, Row
  <2>. QED  BY <1>3, <1>10, <2>1 DEF DeleteGoal, TypeOK, NothingDangles, Row
<1>11. ASSUME NEW d \in Decision, DeleteDecision(d) PROVE IInv'
  <2>1. ASSUME NEW x \in Experiment, experiments[x] # None
        PROVE  /\ experiments[x] \in Row
               /\ [experiments[x] EXCEPT !.decision = None] \in Row
    BY <2>1 DEF TypeOK, Row
  <2>. QED  BY <1>3, <1>11, <2>1 DEF DeleteDecision, TypeOK, NothingDangles, Row
<1>. QED
  BY <1>4, <1>6, <1>7, <1>8, <1>9, <1>10, <1>11 DEF TableStep

-----------------------------------------------------------------------------
(* The steps of an update before its UPDATE. *)
LEMMA ReadInv ==
  ASSUME IInv, NEW w \in Worker,
         \/ \E x \in Experiment, s \in Status \cup {None} : Ask(w, x, s)
         \/ Find(w)
         \/ GiveUp(w)
  PROVE  IInv'
<1> USE NoneIsNothing, NoneIsNoDates DEF IInv
<1>1. UNCHANGED <<tables, clock>>
  BY DEF Ask, Find, GiveUp
<1>2. NothingDangles' /\ RowsInOrder'
  BY <1>1 DEF NothingDangles, RowsInOrder, InOrder, tables
<1>3. ASSUME NEW v \in Worker, v # w PROVE Holds(v)'
  BY <1>1, <1>3 DEF Ask, Find, GiveUp, Answer, Holds, TypeOK
<1>4. TypeOK' /\ Holds(w)'
  <2>1. ASSUME NEW x \in Experiment, NEW s \in Status \cup {None}, Ask(w, x, s)
        PROVE  TypeOK' /\ Holds(w)'
    <3>1. experiments[x].status \in Status
      BY <2>1 DEF Ask, TypeOK, Row
    <3>. QED  BY <2>1, <3>1 DEF Ask, TypeOK, Holds, tables
  <2>2. CASE GiveUp(w)
    BY <2>2 DEF GiveUp, Answer, TypeOK, Holds, tables
  <2>3. CASE Find(w)
    <3>1. target[w] \in Experiment
      BY <2>3 DEF Find, Holds, TypeOK
    <3>2. CASE experiments[target[w]] = None
      BY <2>3, <3>2 DEF Find, Answer, TypeOK, Holds, tables
    <3>3. CASE experiments[target[w]] # None
      <4> DEFINE r == experiments[target[w]]
                 d == [started |-> r.started, ended |-> r.ended, at |-> clock]
      <4>1. r \in Row /\ InOrder(r, clock)
        BY <3>1, <3>3 DEF TypeOK, RowsInOrder
      <4>2. d \in Dates /\ InOrder(d, d.at) /\ d.at <= clock
        BY <4>1, MaxTimeAssumption DEF Row, Dates, InOrder, TypeOK, Time
      <4>3. /\ pc' = [pc EXCEPT ![w] = "found"]
            /\ was' = [was EXCEPT ![w] = d]
            /\ UNCHANGED <<target, status>>
        BY <2>3, <3>3 DEF Find
      <4> HIDE DEF d
      <4>. QED  BY <1>1, <2>3, <4>2, <4>3 DEF Find, TypeOK, Holds, tables
    <3>. QED  BY <3>2, <3>3
  <2>. QED  BY <2>1, <2>2, <2>3
<1>. QED  BY <1>2, <1>3, <1>4

LEMMA WriteInv ==
  ASSUME IInv, NEW w \in Worker, Write(w)
  PROVE  IInv'
<1> USE NoneIsNothing, NoneIsNoDates, MaxTimeAssumption DEF IInv
<1> DEFINE x == target[w]
<1>1. /\ x \in Experiment /\ status[w] \in Status /\ was[w] \in Dates
      /\ InOrder(was[w], was[w].at) /\ was[w].at <= clock /\ clock \in Time
  BY DEF Write, Holds, TypeOK
<1>2. PICK now \in was[w].at .. clock :
        experiments' = [experiments EXCEPT ![x] =
          IF @ = None THEN None
          ELSE [@ EXCEPT !.status = status[w],
                         !.started = Started(was[w], status[w], now),
                         !.ended = Ended(was[w], status[w], now)]]
  BY DEF Write
<1>3. now \in Time /\ was[w].at <= now /\ now <= clock
  BY <1>1, <1>2 DEF Dates, Time
<1>4. /\ Started(was[w], status[w], now) \in Time \cup {None}
      /\ Ended(was[w], status[w], now) \in Time \cup {None}
      /\ \A r : /\ r.started = Started(was[w], status[w], now)
                /\ r.ended = Ended(was[w], status[w], now)
                => InOrder(r, now)
  BY <1>1, <1>3, NewDates
<1>5. experiments[x] # None =>
        /\ experiments'[x] \in Row
        /\ experiments'[x].started = Started(was[w], status[w], now)
        /\ experiments'[x].ended = Ended(was[w], status[w], now)
        /\ experiments'[x].goal = experiments[x].goal
        /\ experiments'[x].decision = experiments[x].decision
  <2> SUFFICES ASSUME experiments[x] # None
      PROVE  /\ experiments'[x] \in Row
             /\ experiments'[x].started = Started(was[w], status[w], now)
             /\ experiments'[x].ended = Ended(was[w], status[w], now)
             /\ experiments'[x].goal = experiments[x].goal
             /\ experiments'[x].decision = experiments[x].decision
    OBVIOUS
  <2> DEFINE r == experiments[x]
  <2>1. r \in Row
    BY <1>1 DEF TypeOK
  <2>2. experiments'[x] = [r EXCEPT !.status = status[w],
                                    !.started = Started(was[w], status[w], now),
                                    !.ended = Ended(was[w], status[w], now)]
    BY <1>1, <1>2, Zenon DEF TypeOK
  <2> HIDE DEF r
  <2>3. experiments'[x] = [status |-> status[w],
                           started |-> Started(was[w], status[w], now),
                           ended |-> Ended(was[w], status[w], now),
                           goal |-> r.goal, decision |-> r.decision]
    BY <2>1, <2>2 DEF Row
  <2>. QED  BY <1>1, <1>4, <2>1, <2>3 DEF Row, r
<1>6. /\ experiments' \in [Experiment -> Row \cup {None}]
      /\ experiments[x] = None => experiments'[x] = None
      /\ \A y \in Experiment : y # x => experiments'[y] = experiments[y]
  BY <1>1, <1>2, <1>5 DEF TypeOK
<1>7. UNCHANGED <<events, goals, decisions, project, clock>> /\ Answer(w)
  BY DEF Write
<1>8. TypeOK'
  BY <1>6, <1>7 DEF TypeOK, Answer
<1>9. NothingDangles'
  BY <1>1, <1>5, <1>6, <1>7 DEF NothingDangles, TypeOK, Row
<1>10. RowsInOrder'
  <2>1. experiments'[x] # None => InOrder(experiments'[x], clock)
    BY <1>1, <1>3, <1>4, <1>5, <1>6, Later
  <2>. QED  BY <1>6, <1>7, <2>1 DEF RowsInOrder
<1>11. \A v \in Worker : Holds(v)'
  BY <1>7 DEF Answer, Holds, TypeOK
<1>. QED  BY <1>8, <1>9, <1>10, <1>11

LEMMA TickInv ==
  ASSUME IInv, Tick
  PROVE  IInv'
<1> USE NoneIsNothing, NoneIsNoDates, MaxTimeAssumption DEF IInv
<1>1. clock \in Time /\ clock' \in Time /\ clock <= clock'
      /\ UNCHANGED <<tables, locals>>
  BY DEF Tick, TypeOK, Time
<1>2. TypeOK' /\ NothingDangles'
  BY <1>1 DEF TypeOK, NothingDangles, tables, locals
<1>3. RowsInOrder'
  <2>1. ASSUME NEW x \in Experiment, experiments[x] # None
        PROVE  InOrder(experiments[x], clock')
    BY <1>1, <2>1, Later DEF RowsInOrder, TypeOK, Row
  <2>. QED  BY <1>1, <2>1 DEF RowsInOrder, tables
<1>4. ASSUME NEW w \in Worker PROVE Holds(w)'
  <2>1. was[w] # None => was[w].at \in Time
    BY DEF TypeOK, Dates
  <2>. QED  BY <1>1, <2>1 DEF Holds, locals, Time, InOrder
<1>. QED  BY <1>2, <1>3, <1>4

LEMMA NextInv == IInv /\ [Next]_vars => IInv'
<1> SUFFICES ASSUME IInv, [Next]_vars PROVE IInv'  OBVIOUS
<1>1. CASE TableStep  BY <1>1, TableStepInv
<1>2. ASSUME NEW w \in Worker,
             \/ \E x \in Experiment, s \in Status \cup {None} : Ask(w, x, s)
             \/ Find(w) \/ GiveUp(w)
      PROVE  IInv'
  BY <1>2, ReadInv
<1>3. ASSUME NEW w \in Worker, Write(w) PROVE IInv'  BY <1>3, WriteInv
<1>4. CASE Tick  BY <1>4, TickInv
<1>5. CASE UNCHANGED vars
  BY <1>5 DEF vars, IInv, TypeOK, NothingDangles, RowsInOrder, InOrder, Holds
<1>. QED  BY <1>1, <1>2, <1>3, <1>4, <1>5 DEF Next, TableStep

(* The invariant the other theorems rest on. *)
THEOREM InductiveInvariant == Spec => []IInv
BY InitInv, NextInv, PTL DEF Spec

(* Type correctness. *)
THEOREM TypeCorrect == Spec => []TypeOK
<1>1. IInv => TypeOK  BY DEF IInv
<1>. QED  BY <1>1, InductiveInvariant, PTL

(* No experiment ends before it started, whatever updates race. *)
THEOREM DatesInOrder == Spec => []EndsAfterItStarts
<1>1. IInv => EndsAfterItStarts
  <2> SUFFICES ASSUME IInv, NEW x \in Experiment, experiments[x] # None,
                      NEW a \in Timeline(experiments[x]),
                      NEW b \in Timeline(experiments[x]),
                      a.kind = "Started", b.kind # "Started"
               PROVE  a.at <= b.at
    BY DEF EndsAfterItStarts
  <2>1. a.at = experiments[x].started /\ a.at # None
    BY DEF Timeline
  <2>2. b.at = experiments[x].ended /\ b.at # None
    BY DEF Timeline
  <2>. QED  BY <2>1, <2>2 DEF IInv, RowsInOrder, InOrder
<1>. QED  BY <1>1, InductiveInvariant, PTL

(* Events and pointers never outlive what they belong to. *)
THEOREM NoDanglers == Spec => []NothingDangles
<1>1. IInv => NothingDangles  BY DEF IInv
<1>. QED  BY <1>1, InductiveInvariant, PTL

(* No update brings a deleted experiment back. *)
THEOREM GoneForGood == Spec => GoneIsGone
<1> DEFINE A == \A w \in Worker :
       target[w] # None /\ experiments[target[w]] = None =>
         experiments'[target[w]] = None
<1>1. IInv /\ [Next]_vars => A
  <2> SUFFICES ASSUME IInv, [Next]_vars, NEW w \in Worker, target[w] # None,
                      experiments[target[w]] = None
               PROVE  experiments'[target[w]] = None
    OBVIOUS
  <2> USE DEF IInv, TypeOK
  <2>1. target[w] \in Experiment
    OBVIOUS
  <2>2. CASE TableStep
    BY <2>1, <2>2 DEF TableStep, Create, FreshId, Delete, Forget, MoveCard,
                      CreateEvent, DeleteEvent, DeleteProject, DeleteGoal,
                      DeleteDecision
  <2>3. ASSUME NEW v \in Worker, Write(v) PROVE experiments'[target[w]] = None
    <3>1. target[v] \in Experiment
      BY <2>3 DEF Write, Holds
    <3>. QED  BY <2>1, <2>3, <3>1 DEF Write
  <2>4. ASSUME \/ \E v \in Worker :
                    \/ \E x \in Experiment, s \in Status \cup {None} : Ask(v, x, s)
                    \/ Find(v) \/ GiveUp(v)
               \/ Tick \/ UNCHANGED vars
        PROVE  experiments' = experiments
    BY <2>4 DEF Ask, Find, GiveUp, Tick, tables, vars
  <2>. QED  BY <2>2, <2>3, <2>4 DEF Next, TableStep
<1>2. IInv /\ [Next]_vars => [A]_vars  BY <1>1
<1>. QED  BY <1>2, InductiveInvariant, PTL DEF Spec, GoneIsGone

(* A recorded start is lost only to an update whose read was overtaken.    *)
THEOREM StartKeptUnlessStale == Spec => StartLostToStaleRead
<1> DEFINE A == \A x \in Experiment :
       /\ experiments[x] # None /\ experiments[x].started # None
       /\ experiments'[x] # None
       /\ experiments'[x].started # experiments[x].started
       => \E w \in Worker :
            /\ pc[w] = "found" /\ pc'[w] = "idle" /\ target[w] = x
            /\ was[w].started # experiments[x].started
<1>1. IInv /\ [Next]_vars => A
  <2> SUFFICES ASSUME IInv, [Next]_vars, NEW x \in Experiment,
                      experiments[x] # None, experiments[x].started # None,
                      experiments'[x] # None,
                      experiments'[x].started # experiments[x].started
               PROVE  \E w \in Worker :
                        /\ pc[w] = "found" /\ pc'[w] = "idle" /\ target[w] = x
                        /\ was[w].started # experiments[x].started
    OBVIOUS
  <2> USE NoneIsNothing, NoneIsNoDates DEF IInv, TypeOK
  <2>1. experiments[x] \in Row
    OBVIOUS
  <2>2. CASE TableStep
    <3>1. experiments' \in [Experiment -> Row \cup {None}]
      BY <2>2, TableStepInv
    <3>. QED
      BY <2>1, <2>2, <3>1
      DEF TableStep, Create, FreshId, Delete, Forget, MoveCard, CreateEvent,
          DeleteEvent, DeleteProject, DeleteGoal, DeleteDecision, Row
  <2>3. ASSUME NEW w \in Worker, Write(w)
        PROVE  /\ pc[w] = "found" /\ pc'[w] = "idle" /\ target[w] = x
               /\ was[w].started # experiments[x].started
    <3>1. /\ target[w] \in Experiment /\ pc[w] = "found" /\ pc'[w] = "idle"
      BY <2>3 DEF Write, Holds, Answer
    <3>2. target[w] = x
      BY <2>3, <3>1 DEF Write
    <3>3. PICK now \in was[w].at .. clock :
            experiments'[x] =
              [experiments[x] EXCEPT !.status = status[w],
                                     !.started = Started(was[w], status[w], now),
                                     !.ended = Ended(was[w], status[w], now)]
      BY <2>3, <3>2 DEF Write
    <3>4. experiments'[x].started = Started(was[w], status[w], now)
      BY <2>1, <3>3 DEF Row
    <3>. QED  BY <3>1, <3>2, <3>4 DEF Started
  <2>4. ASSUME \/ \E v \in Worker :
                    \/ \E y \in Experiment, s \in Status \cup {None} : Ask(v, y, s)
                    \/ Find(v) \/ GiveUp(v)
               \/ Tick \/ UNCHANGED vars
        PROVE  experiments' = experiments
    BY <2>4 DEF Ask, Find, GiveUp, Tick, tables, vars
  <2>. QED  BY <2>2, <2>3, <2>4 DEF Next, TableStep
<1>2. IInv /\ [Next]_vars => [A]_vars  BY <1>1
<1>. QED  BY <1>2, InductiveInvariant, PTL DEF Spec, StartLostToStaleRead
=============================================================================

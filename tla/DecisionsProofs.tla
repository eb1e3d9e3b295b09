--------------------------- MODULE DecisionsProofs ---------------------------
(***************************************************************************)
(* Theorems about Decisions, for any number of requests, decisions and     *)
(* texts.  The inductive invariant says what a request may hold at each    *)
(* point of its handler: who owns the write lock is in a transaction, and  *)
(* nobody else is; a transaction's row and revision are already the pair   *)
(* that may be published; the log of an absent decision may only be        *)
(* started, never continued.                                               *)
(***************************************************************************)
EXTENDS Decisions, TLAPS

(* The lock has exactly one owner, the worker inside a transaction. *)
LockOwner ==
  /\ \A w \in Worker : pc[w] \in {"written", "revised"} <=> writer = w
  /\ writer = None => txRow = None /\ txRev = None

(* What a handler carries into its repository call. *)
CallOK(w) ==
  /\ op[w] \in {"update", "inline", "resolve", "status", "delete"}
       => target[w] \in Decision
  /\ op[w] \in {"create", "update", "inline", "resolve", "status"}
       => patch[w] \in Row
  /\ op[w] \in {"create", "resolve"}
       => (patch[w].chosen # None => patch[w].status # "open")
  /\ op[w] = "create" => patch[w].chosen = None

(* What a transaction holds before it commits. *)
TxOK(w) ==
  /\ target[w] \in Decision
  /\ txRow # None => (txRow.chosen # None => txRow.dated)
  /\ txRow # None /\ decisions[target[w]] = None => revisions[target[w]] = << >>
  /\ pc[w] = "revised" => txRow # None /\ txRev = Snapshot(txRow)

IInv ==
  /\ TypeOK
  /\ LockOwner
  /\ \A w \in Worker : pc[w] = "read" => CallOK(w)
  /\ \A w \in Worker : writer = w => TxOK(w)
  /\ HistoryDescribesRow
  /\ ChosenIsDated

-----------------------------------------------------------------------------
(* The rows the statements write are rows, and say what they should. *)
LEMMA NewRowType ==
  ASSUME NEW t \in Title, NEW c \in Context, NEW os \in SUBSET OptionId
  PROVE  /\ NewRow(t, c, os) \in Row
         /\ NewRow(t, c, os).chosen = None
  BY BlankIsRationale DEF NewRow, Row, Status

LEMMA EditedType ==
  ASSUME NEW r \in Row, NEW p \in Row
  PROVE  /\ Edited(r, p) \in Row
         /\ Edited(r, p).chosen = r.chosen
         /\ Edited(r, p).dated = r.dated
  BY DEF Edited, Row

LEMMA ResolvedType ==
  ASSUME NEW r \in Row, NEW p \in Row
  PROVE  /\ Resolved(r, p) \in Row
         /\ Resolved(r, p).chosen = p.chosen
         /\ Resolved(r, p).dated = (p.status # "open")
  BY DEF Resolved, Row

LEMMA MovedType ==
  ASSUME NEW r \in Row, NEW s \in Status
  PROVE  /\ Moved(r, s) \in Row
         /\ Moved(r, s).chosen = r.chosen
         /\ Moved(r, s).dated = r.dated
         /\ Moved(r, s).status = s
         /\ Snapshot(Moved(r, s)) = [Snapshot(r) EXCEPT !.status = s]
  BY DEF Moved, Row, Snapshot

LEMMA SnapshotType ==
  ASSUME NEW r \in Row
  PROVE  Snapshot(r) \in Snapshots /\ Snapshot(r).status = r.status
  BY BlankIsRationale DEF Snapshot, Snapshots, Row

(* A request form asks for a chosen option only together with "decided". *)
LEMMA ResolutionType ==
  ASSUME NEW s \in Status, NEW o \in OptionId \cup {None}, NEW y \in Rationale,
         NEW r \in Row
  PROVE  /\ Resolution(s, o, y) \in Row
         /\ Resolution(s, o, y).status = s
         /\ Resolution(s, o, y).chosen = o
<1>1. (CHOOSE x \in Row : TRUE) \in Row  OBVIOUS
<1>2. QED  BY <1>1 DEF Resolution, Row

LEMMA StatusType ==
  ASSUME NEW q \in Status, NEW o \in OptionId \cup {None}
  PROVE  /\ FormStatus(q, o) \in Status /\ InlineStatus(q, o) \in Status
         /\ ChosenOption(q, o) \in OptionId \cup {None}
         /\ ChosenOption(q, o) # None =>
              FormStatus(q, o) # "open" /\ InlineStatus(q, o) # "open"
  BY DEF FormStatus, InlineStatus, ChosenOption, Status

(* The newest entry of a log. *)
LEMMA LastOfAppend ==
  ASSUME NEW S, NEW q \in Seq(S), NEW x \in S
  PROVE  /\ Append(q, x) # << >>
         /\ Append(q, x)[Len(Append(q, x))] = x
<1>1. Len(Append(q, x)) = Len(q) + 1 /\ Len(q) \in Nat
  OBVIOUS
<1>2. Append(q, x)[Len(q) + 1] = x
  OBVIOUS
<1>. QED  BY <1>1, <1>2

LEMMA LastType ==
  ASSUME NEW S, NEW q \in Seq(S), q # << >>
  PROVE  q[Len(q)] \in S
<1>1. Len(q) \in Nat /\ Len(q) # 0
  OBVIOUS
<1>. QED  BY <1>1

-----------------------------------------------------------------------------
LEMMA InitInv == Init => IInv
<1> SUFFICES ASSUME Init PROVE IInv  OBVIOUS
<1> USE DEF Init
<1>1. ASSUME NEW d \in Decision, decisions[d] # None
      PROVE  /\ decisions[d] \in Row
             /\ decisions[d].chosen = None
             /\ revisions[d] = <<Snapshot(decisions[d])>>
             /\ Snapshot(decisions[d]) \in Snapshots
  <2>1. PICK t \in Title, c \in Context, os \in SUBSET OptionId :
          decisions[d] = NewRow(t, c, os)
    BY <1>1
  <2>2. decisions[d] \in Row /\ decisions[d].chosen = None
    BY <2>1, NewRowType
  <2>. QED  BY <1>1, <2>2, SnapshotType
<1>2. TypeOK
  <2>1. decisions \in [Decision -> Row \cup {None}]
    BY NewRowType
  <2>2. revisions \in [Decision -> Seq(Snapshots)]
    <3>1. ASSUME NEW d \in Decision PROVE revisions[d] \in Seq(Snapshots)
      <4>1. CASE decisions[d] = None  BY <4>1
      <4>2. CASE decisions[d] # None  BY <4>2, <1>1
      <4>. QED  BY <4>1, <4>2
    <3>. QED  BY <3>1
  <2>. QED  BY <2>1, <2>2 DEF TypeOK
<1>3. LockOwner
  BY NoneIsNobody DEF LockOwner
<1>4. \A w \in Worker : (pc[w] = "read" => CallOK(w)) /\ (writer = w => TxOK(w))
  BY NoneIsNobody
<1>5. HistoryDescribesRow
  <2> SUFFICES ASSUME NEW d \in Decision, decisions[d] # None
               PROVE  /\ revisions[d] # << >>
                      /\ [revisions[d][Len(revisions[d])]
                            EXCEPT !.status = decisions[d].status]
                           = Snapshot(decisions[d])
    BY DEF HistoryDescribesRow
  <2>1. /\ revisions[d] # << >> /\ Len(revisions[d]) = 1
        /\ revisions[d][1] = Snapshot(decisions[d])
    BY <1>1
  <2>2. Snapshot(decisions[d]).status = decisions[d].status
    BY <1>1, SnapshotType
  <2>3. Snapshot(decisions[d]) = [Snapshot(decisions[d]) EXCEPT !.status = @]
    BY <1>1 DEF Snapshots
  <2>. QED  BY <2>1, <2>2, <2>3
<1>6. ChosenIsDated
  BY <1>1 DEF ChosenIsDated
<1>. QED  BY <1>2, <1>3, <1>4, <1>5, <1>6 DEF IInv

-----------------------------------------------------------------------------
(* A handler reaches its repository call with arguments that fit the call. *)
LEMMA StartKeepsInv ==
  ASSUME IInv, NEW w \in Worker, NEW o \in Ops,
         NEW d \in Decision \cup {None}, NEW p \in Row \cup {None},
         o # "create" => d \in Decision,
         o # "delete" => p \in Row,
         o \in {"create", "resolve"} => (p.chosen # None => p.status # "open"),
         o = "create" => p.chosen = None,
         Start(w, o, d, p)
  PROVE  IInv'
<1> USE DEF IInv, Start, tables, tx
<1>1. TypeOK'
  BY DEF TypeOK, Ops
<1>2. LockOwner'
  BY DEF LockOwner, TypeOK
<1>3. ASSUME NEW v \in Worker, (pc[v] = "read")' PROVE CallOK(v)'
  <2>1. CASE v = w  BY <2>1 DEF CallOK, TypeOK, Ops
  <2>2. CASE v # w  BY <1>3, <2>2 DEF CallOK, TypeOK
  <2>. QED  BY <2>1, <2>2
<1>4. ASSUME NEW v \in Worker, (writer = v)' PROVE TxOK(v)'
  <2>1. v # w  BY <1>4 DEF LockOwner
  <2>. QED  BY <1>4, <2>1 DEF TxOK, TypeOK
<1>5. HistoryDescribesRow' /\ ChosenIsDated'
  BY DEF HistoryDescribesRow, ChosenIsDated
<1>. QED  BY <1>1, <1>2, <1>3, <1>4, <1>5

LEMMA RequestsKeepInv ==
  ASSUME IInv, NEW w \in Worker, Requests(w)
  PROVE  IInv'
<1> USE DEF IInv, Ops
<1>1. ASSUME NEW t \in Title, NEW c \in Context, NEW os \in SUBSET OptionId,
             CreateForm(w, t, c, os)
      PROVE  IInv'
  BY <1>1, NewRowType, StartKeepsInv DEF CreateForm
<1>2. ASSUME NEW t \in Title, NEW c \in Context, NEW os \in SUBSET OptionId,
             NEW d \in Decision, EditForm(w, d, t, c, os)
      PROVE  IInv'
  BY <1>2, NewRowType, StartKeepsInv DEF EditForm
<1>3. ASSUME NEW d \in Decision, NEW t \in Title \cup {None},
             NEW c \in Context \cup {None}, EditInline(w, d, t, c)
      PROVE  IInv'
  <2> DEFINE r == decisions[d]
             p == NewRow(IF t = None THEN r.title ELSE t,
                         IF c = None THEN r.context ELSE c, r.options)
  <2>1. r \in Row  BY <1>3 DEF EditInline, TypeOK
  <2>2. p \in Row
    <3>1. /\ (IF t = None THEN r.title ELSE t) \in Title
          /\ (IF c = None THEN r.context ELSE c) \in Context
          /\ r.options \in SUBSET OptionId
      BY <2>1 DEF Row
    <3>. QED  BY <3>1, NewRowType
  <2>3. Start(w, "inline", d, p)  BY <1>3 DEF EditInline
  <2> HIDE DEF p
  <2>. QED  BY <2>2, <2>3, StartKeepsInv
<1>4. ASSUME NEW d \in Decision, NEW s \in Status, NEW o \in OptionId \cup {None},
             NEW y \in Rationale,
             \/ ResolveForm(w, d, s, o, y) \/ ResolveInline(w, d, s, o, y)
      PROVE  IInv'
  <2>1. decisions[d] \in Row
    BY <1>4 DEF ResolveForm, ResolveInline, TypeOK
  <2>2. PICK st \in Status :
          /\ ChosenOption(s, o) # None => st # "open"
          /\ Start(w, "resolve", d, Resolution(st, ChosenOption(s, o), y))
    BY <1>4, StatusType DEF ResolveForm, ResolveInline
  <2>3. ChosenOption(s, o) \in OptionId \cup {None}
    BY StatusType
  <2> DEFINE p == Resolution(st, ChosenOption(s, o), y)
  <2>4. p \in Row /\ p.status = st /\ p.chosen = ChosenOption(s, o)
    BY <2>1, <2>3, ResolutionType
  <2>5. Start(w, "resolve", d, p)  BY <2>2
  <2> HIDE DEF p
  <2>. QED  BY <2>2, <2>4, <2>5, StartKeepsInv
<1>5. ASSUME NEW d \in Decision, NEW s \in Status, MoveCard(w, d, s)
      PROVE  IInv'
  <2>1. decisions[d] \in Row
    BY <1>5 DEF MoveCard, TypeOK
  <2> DEFINE p == Resolution(s, None, Blank)
  <2>2. p \in Row
    BY <2>1, BlankIsRationale, ResolutionType
  <2>3. Start(w, "status", d, p)  BY <1>5 DEF MoveCard
  <2> HIDE DEF p
  <2>. QED  BY <2>2, <2>3, StartKeepsInv
<1>6. ASSUME NEW d \in Decision, DeleteForm(w, d)
      PROVE  IInv'
  BY <1>6, StartKeepsInv DEF DeleteForm
<1>7. ASSUME NEW d \in Decision, Refuse(w, d)
      PROVE  IInv'
  BY <1>7 DEF Refuse, vars, TypeOK, LockOwner, CallOK, TxOK,
              HistoryDescribesRow, ChosenIsDated
<1>. QED
  BY <1>1, <1>2, <1>3, <1>4, <1>5, <1>6, <1>7 DEF Requests

-----------------------------------------------------------------------------
(* Statements that take the lock and open a transaction. *)
LEMMA TxInsertKeepsInv ==
  ASSUME IInv, NEW w \in Worker, TxInsert(w)
  PROVE  IInv'
<1> USE DEF IInv, TxInsert, CanWrite, Calls, tables
<1>0. PICK d \in Decision :
        /\ decisions[d] = None /\ revisions[d] = << >>
        /\ target' = [target EXCEPT ![w] = d]
  BY DEF Fresh
<1>1. CallOK(w) /\ patch[w] \in Row /\ patch[w].chosen = None
  BY DEF CallOK
<1>2. TypeOK'
  BY <1>0, <1>1 DEF TypeOK
<1>3. LockOwner'
  BY NoneIsNobody, NoneIsNoValue, <1>1 DEF LockOwner, TypeOK
<1>4. ASSUME NEW v \in Worker, (pc[v] = "read")' PROVE CallOK(v)'
  <2>1. v # w  BY <1>4 DEF TypeOK
  <2>. QED  BY <1>0, <1>4, <2>1 DEF CallOK, TypeOK
<1>5. ASSUME NEW v \in Worker, (writer = v)' PROVE TxOK(v)'
  <2>1. v = w  BY <1>5
  <2>. QED  BY <1>0, <1>1, <2>1 DEF TxOK, TypeOK
<1>6. HistoryDescribesRow' /\ ChosenIsDated'
  BY DEF HistoryDescribesRow, ChosenIsDated
<1>. QED  BY <1>2, <1>3, <1>4, <1>5, <1>6

LEMMA TxUpdateKeepsInv ==
  ASSUME IInv, NEW w \in Worker, TxUpdate(w)
  PROVE  IInv'
<1> USE DEF IInv, TxUpdate, CanWrite, Calls, tables
<1> DEFINE old == decisions[target[w]]
<1>1. CallOK(w) /\ patch[w] \in Row /\ target[w] \in Decision
      /\ old \in Row \cup {None}
  BY DEF CallOK, TypeOK
<1>2. txRow' # None => /\ old # None
                       /\ txRow' \in Row
                       /\ txRow'.chosen # None => txRow'.dated
  <2> SUFFICES ASSUME txRow' # None
               PROVE  /\ old # None /\ txRow' \in Row
                      /\ txRow'.chosen # None => txRow'.dated
    OBVIOUS
  <2>1. old \in Row /\ (old.chosen # None => old.dated)
    BY <1>1 DEF ChosenIsDated
  <2>2. CASE op[w] = "resolve"
    BY <1>1, <2>1, <2>2, ResolvedType DEF CallOK
  <2>3. CASE op[w] # "resolve"
    BY <1>1, <2>1, <2>3, EditedType
  <2>. QED  BY <2>1, <2>2, <2>3
<1>3. txRow' \in Row \cup {None}
  BY <1>2
<1>4. TypeOK'
  BY <1>3 DEF TypeOK
<1>5. LockOwner'
  BY NoneIsNobody DEF LockOwner, TypeOK
<1>6. ASSUME NEW v \in Worker, (pc[v] = "read")' PROVE CallOK(v)'
  <2>1. v # w  BY <1>6 DEF TypeOK
  <2>. QED  BY <1>6, <2>1 DEF CallOK, TypeOK
<1>7. ASSUME NEW v \in Worker, (writer = v)' PROVE TxOK(v)'
  <2>1. v = w  BY <1>7
  <2>. QED  BY <1>1, <1>2, <2>1 DEF TxOK, TypeOK
<1>8. HistoryDescribesRow' /\ ChosenIsDated'
  BY DEF HistoryDescribesRow, ChosenIsDated
<1>. QED  BY <1>4, <1>5, <1>6, <1>7, <1>8

(* fetch_decision and insert_revision, inside the owner's transaction. *)
LEMMA TxReviseKeepsInv ==
  ASSUME IInv, NEW w \in Worker, TxRevise(w)
  PROVE  IInv'
<1> USE DEF IInv, TxRevise, tables
<1>1. writer = w /\ TxOK(w) /\ txRow \in Row
  BY DEF LockOwner, TypeOK
<1>2. TypeOK'
  BY <1>1, SnapshotType DEF TypeOK
<1>3. LockOwner'
  BY <1>1, NoneIsNobody DEF LockOwner, TypeOK
<1>4. ASSUME NEW v \in Worker, (pc[v] = "read")' PROVE CallOK(v)'
  <2>1. v # w  BY <1>4 DEF TypeOK
  <2>. QED  BY <1>4, <2>1 DEF CallOK, TypeOK
<1>5. ASSUME NEW v \in Worker, (writer = v)' PROVE TxOK(v)'
  <2>1. v = w  BY <1>1, <1>5
  <2>. QED  BY <1>1, <2>1 DEF TxOK, TypeOK
<1>6. HistoryDescribesRow' /\ ChosenIsDated'
  BY DEF HistoryDescribesRow, ChosenIsDated
<1>. QED  BY <1>2, <1>3, <1>4, <1>5, <1>6

-----------------------------------------------------------------------------
(* Steps that end a handler: the tables' part of the invariant is theirs.  *)
LEMMA AnswerKeepsInv ==
  ASSUME IInv, NEW w \in Worker, Answer(w),
         \/ writer # w /\ UNCHANGED tx
         \/ writer \in {w, None} /\ Unlock,
         decisions' \in [Decision -> Row \cup {None}],
         revisions' \in [Decision -> Seq(Snapshots)],
         project' \in BOOLEAN,
         writer \notin {w, None} => UNCHANGED <<decisions, revisions>>,
         HistoryDescribesRow', ChosenIsDated'
  PROVE  IInv'
<1> USE DEF IInv, Answer, Unlock, tx
<1>1. TypeOK'
  BY DEF TypeOK
<1>2. LockOwner'
  BY NoneIsNobody DEF LockOwner, TypeOK
<1>3. ASSUME NEW v \in Worker, (pc[v] = "read")' PROVE CallOK(v)'
  <2>1. v # w  BY <1>3 DEF TypeOK
  <2>. QED  BY <1>3, <2>1 DEF CallOK, TypeOK
<1>4. ASSUME NEW v \in Worker, (writer = v)' PROVE TxOK(v)'
  <2>1. v # w /\ writer = v /\ UNCHANGED tx
    BY <1>4, NoneIsNobody
  <2>2. UNCHANGED <<decisions, revisions>>
    BY <2>1, NoneIsNobody
  <2>. QED  BY <2>1, <2>2 DEF TxOK, TypeOK
<1>. QED  BY <1>1, <1>2, <1>3, <1>4

LEMMA QuietAnswerKeepsInv ==
  ASSUME IInv, NEW w \in Worker, UNCHANGED tables, Answer(w),
         \/ writer # w /\ UNCHANGED tx
         \/ writer \in {w, None} /\ Unlock
  PROVE  IInv'
<1>1. HistoryDescribesRow' /\ ChosenIsDated'
  BY DEF IInv, tables, HistoryDescribesRow, ChosenIsDated
<1>2. /\ decisions' \in [Decision -> Row \cup {None}]
      /\ revisions' \in [Decision -> Seq(Snapshots)]
      /\ project' \in BOOLEAN
  BY DEF IInv, TypeOK, tables
<1>. QED  BY <1>1, <1>2, AnswerKeepsInv DEF tables

(* COMMIT publishes the row and its revision as the pair TxOK promised. *)
LEMMA TxCommitKeepsInv ==
  ASSUME IInv, NEW w \in Worker, TxCommit(w)
  PROVE  IInv'
<1> USE DEF IInv, TxCommit
<1> DEFINE d == target[w]
<1>1. /\ writer = w /\ d \in Decision /\ txRow \in Row
      /\ txRow.chosen # None => txRow.dated
      /\ txRev = Snapshot(txRow) /\ txRev \in Snapshots
      /\ Snapshot(txRow).status = txRow.status
  BY SnapshotType DEF LockOwner, TypeOK, TxOK
<1>2. /\ decisions' \in [Decision -> Row \cup {None}]
      /\ revisions' \in [Decision -> Seq(Snapshots)]
      /\ decisions'[d] = txRow
      /\ revisions'[d] = Append(revisions[d], txRev)
      /\ \A e \in Decision \ {d} : /\ decisions'[e] = decisions[e]
                                  /\ revisions'[e] = revisions[e]
  BY <1>1 DEF TypeOK
<1>3. HistoryDescribesRow'
  <2> SUFFICES ASSUME NEW e \in Decision, decisions'[e] # None
               PROVE  /\ revisions'[e] # << >>
                      /\ [revisions'[e][Len(revisions'[e])]
                            EXCEPT !.status = decisions'[e].status]
                           = Snapshot(decisions'[e])
    BY DEF HistoryDescribesRow
  <2>1. CASE e = d
    <3>1. revisions'[d] # << >> /\ revisions'[d][Len(revisions'[d])] = txRev
      BY <1>1, <1>2, LastOfAppend DEF TypeOK
    <3>2. [txRev EXCEPT !.status = txRow.status] = Snapshot(txRow)
      BY <1>1 DEF Snapshots
    <3>. QED  BY <1>2, <2>1, <3>1, <3>2
  <2>2. CASE e # d
    BY <1>2, <2>2 DEF HistoryDescribesRow
  <2>. QED  BY <2>1, <2>2
<1>4. ChosenIsDated'
  <2> SUFFICES ASSUME NEW e \in Decision, decisions'[e] # None
               PROVE  decisions'[e].chosen # None => decisions'[e].dated
    BY DEF ChosenIsDated
  <2>. QED  BY <1>1, <1>2 DEF ChosenIsDated
<1>5. project' \in BOOLEAN  BY DEF TypeOK
<1>6. Answer(w) /\ Unlock  OBVIOUS
<1>. QED  BY <1>1, <1>2, <1>3, <1>4, <1>5, <1>6, AnswerKeepsInv

(* The Kanban board's statement moves the status and nothing else. *)
LEMMA SetStatusKeepsInv ==
  ASSUME IInv, NEW w \in Worker, SetStatus(w)
  PROVE  IInv'
<1> USE DEF IInv, SetStatus, CanWrite, Calls
<1> DEFINE d == target[w]
           r == decisions[d]
           s == patch[w].status
<1>1. d \in Decision /\ s \in Status /\ r \in Row \cup {None}
  BY DEF CallOK, TypeOK, Row
<1>2. /\ decisions' \in [Decision -> Row \cup {None}]
      /\ decisions'[d] = (IF r = None THEN None ELSE Moved(r, s))
      /\ \A e \in Decision \ {d} : decisions'[e] = decisions[e]
  BY <1>1, MovedType DEF TypeOK
<1>3. HistoryDescribesRow'
  <2> SUFFICES ASSUME NEW e \in Decision, decisions'[e] # None
               PROVE  /\ revisions[e] # << >>
                      /\ [revisions[e][Len(revisions[e])]
                            EXCEPT !.status = decisions'[e].status]
                           = Snapshot(decisions'[e])
    BY DEF HistoryDescribesRow
  <2>1. CASE e = d
    <3>1. r \in Row /\ decisions'[e] = Moved(r, s)
      BY <1>1, <1>2, <2>1
    <3> DEFINE last == revisions[d][Len(revisions[d])]
    <3>2. /\ revisions[d] # << >>
          /\ [last EXCEPT !.status = r.status] = Snapshot(r)
      BY <1>1, <3>1, NoneIsNoValue DEF HistoryDescribesRow
    <3>5. last \in Snapshots
      BY <1>1, <3>2, LastType DEF TypeOK
    <3> HIDE DEF last
    <3>3. [last EXCEPT !.status = s] = [Snapshot(r) EXCEPT !.status = s]
      BY <3>2, <3>5 DEF Snapshots
    <3>4. /\ Snapshot(Moved(r, s)) = [Snapshot(r) EXCEPT !.status = s]
          /\ Moved(r, s).status = s
      BY <1>1, <3>1, MovedType
    <3>. QED  BY <2>1, <3>1, <3>2, <3>3, <3>4 DEF last
  <2>2. CASE e # d
    BY <1>2, <2>2 DEF HistoryDescribesRow
  <2>. QED  BY <2>1, <2>2
<1>4. ChosenIsDated'
  <2> SUFFICES ASSUME NEW e \in Decision, decisions'[e] # None
               PROVE  decisions'[e].chosen # None => decisions'[e].dated
    BY DEF ChosenIsDated
  <2>1. CASE e = d
    BY <1>1, <1>2, <2>1, MovedType DEF ChosenIsDated
  <2>2. CASE e # d
    BY <1>2, <2>2 DEF ChosenIsDated
  <2>. QED  BY <2>1, <2>2
<1>5. revisions' \in [Decision -> Seq(Snapshots)] /\ project' \in BOOLEAN
  BY DEF TypeOK
<1>6. Answer(w) /\ writer # w /\ UNCHANGED tx /\ writer = None
  BY NoneIsNobody
<1>. QED  BY <1>2, <1>3, <1>4, <1>5, <1>6, AnswerKeepsInv

(* A deletion, of one decision or of all, leaves the log where it was. *)
LEMMA DeleteKeepsInv ==
  ASSUME IInv, NEW w \in Worker, Delete(w)
  PROVE  IInv'
<1> USE DEF IInv, Delete, CanWrite, Calls
<1>1. target[w] \in Decision
  BY DEF CallOK
<1>2. /\ decisions' \in [Decision -> Row \cup {None}]
      /\ \A e \in Decision : decisions'[e] # None => decisions'[e] = decisions[e]
  BY <1>1 DEF TypeOK
<1>3. HistoryDescribesRow' /\ ChosenIsDated'
  BY <1>2 DEF HistoryDescribesRow, ChosenIsDated
<1>4. revisions' \in [Decision -> Seq(Snapshots)] /\ project' \in BOOLEAN
  BY DEF TypeOK
<1>5. Answer(w) /\ writer # w /\ UNCHANGED tx /\ writer = None
  BY NoneIsNobody
<1>. QED  BY <1>2, <1>3, <1>4, <1>5, AnswerKeepsInv

LEMMA DeleteProjectKeepsInv ==
  ASSUME IInv, DeleteProject
  PROVE  IInv'
<1> USE DEF IInv, DeleteProject, locals, tx
<1>1. \A e \in Decision : decisions'[e] = None
  OBVIOUS
<1>2. HistoryDescribesRow' /\ ChosenIsDated'
  BY <1>1 DEF HistoryDescribesRow, ChosenIsDated
<1>3. TypeOK'
  BY DEF TypeOK
<1>4. LockOwner' /\ \A w \in Worker : writer' # w
  BY NoneIsNobody DEF LockOwner
<1>5. ASSUME NEW w \in Worker, (pc[w] = "read")' PROVE CallOK(w)'
  BY <1>5 DEF CallOK
<1>. QED  BY <1>2, <1>3, <1>4, <1>5

LEMMA CrashKeepsInv ==
  ASSUME IInv, Crash
  PROVE  IInv'
<1> USE DEF IInv, Crash, Unlock, tables
<1>1. TypeOK'
  BY DEF TypeOK
<1>2. LockOwner' /\ \A w \in Worker : writer' # w /\ pc'[w] # "read"
  BY NoneIsNobody DEF LockOwner
<1>3. HistoryDescribesRow' /\ ChosenIsDated'
  BY DEF HistoryDescribesRow, ChosenIsDated
<1>. QED  BY <1>1, <1>2, <1>3

LEMMA ServeKeepsInv ==
  ASSUME IInv, NEW w \in Worker, Serve(w) \/ Cancel(w)
  PROVE  IInv'
<1>1. CASE TxInsertFails(w)
  BY <1>1, QuietAnswerKeepsInv, NoneIsNobody DEF TxInsertFails, CanWrite
<1>2. CASE TxNotFound(w)
  <2>1. writer = w  BY <1>2 DEF TxNotFound, IInv, LockOwner
  <2>. QED  BY <1>2, <2>1, QuietAnswerKeepsInv DEF TxNotFound
<1>3. CASE BusyTimeout(w)
  <2>1. writer # w  BY <1>3 DEF BusyTimeout, Calls, IInv, LockOwner
  <2>. QED  BY <1>3, <2>1, QuietAnswerKeepsInv DEF BusyTimeout
<1>4. CASE Cancel(w)
  BY <1>4, QuietAnswerKeepsInv DEF Cancel
<1>. QED
  BY <1>1, <1>2, <1>3, <1>4, TxInsertKeepsInv, TxUpdateKeepsInv, TxReviseKeepsInv,
     TxCommitKeepsInv, SetStatusKeepsInv, DeleteKeepsInv DEF Serve

LEMMA NextKeepsInv == IInv /\ [Next]_vars => IInv'
<1> SUFFICES ASSUME IInv, [Next]_vars PROVE IInv'  OBVIOUS
<1>1. ASSUME NEW w \in Worker, Requests(w) \/ Serve(w) \/ Cancel(w)
      PROVE  IInv'
  BY <1>1, RequestsKeepInv, ServeKeepsInv
<1>2. CASE UNCHANGED vars
  BY <1>2 DEF vars, IInv, TypeOK, LockOwner, CallOK, TxOK,
              HistoryDescribesRow, ChosenIsDated
<1>. QED  BY <1>1, <1>2, DeleteProjectKeepsInv, CrashKeepsInv DEF Next

-----------------------------------------------------------------------------
(* Everything the handlers do keeps the inductive invariant.               *)
THEOREM InductiveInvariant == Spec => []IInv
  BY InitInv, NextKeepsInv, PTL DEF Spec

(* Rows, revisions and handler states keep their types.                    *)
THEOREM TypeCorrect == Spec => []TypeOK
<1>1. IInv => TypeOK  BY DEF IInv
<1>. QED  BY <1>1, InductiveInvariant, PTL

(* The newest revision of every existing decision is that decision, but    *)
(* for a status moved on the board: no crash, dropped request, deletion or *)
(* concurrent edit can leave them apart.                                   *)
THEOREM HistoryCorrect == Spec => []HistoryDescribesRow
<1>1. IInv => HistoryDescribesRow  BY DEF IInv
<1>. QED  BY <1>1, InductiveInvariant, PTL

(* A decision with a chosen option has a decision date, whatever happened  *)
(* to it after it was resolved.                                            *)
THEOREM ChosenDated == Spec => []ChosenIsDated
<1>1. IInv => ChosenIsDated  BY DEF IInv
<1>. QED  BY <1>1, InductiveInvariant, PTL

-----------------------------------------------------------------------------
(* The tables change in four places only. *)
LEMMA TableSteps ==
  ASSUME [Next]_vars
  PROVE  \/ UNCHANGED <<decisions, revisions>>
         \/ \E w \in Worker : TxCommit(w) \/ SetStatus(w) \/ Delete(w)
         \/ DeleteProject
<1>1. ASSUME NEW w \in Worker, Requests(w)
      PROVE  UNCHANGED <<decisions, revisions>>
  BY <1>1 DEF Requests, CreateForm, EditForm, EditInline, ResolveForm,
              ResolveInline, MoveCard, DeleteForm, Refuse, Start, tables, vars
<1>2. ASSUME NEW w \in Worker, Serve(w) \/ Cancel(w)
      PROVE  \/ UNCHANGED <<decisions, revisions>>
             \/ TxCommit(w) \/ SetStatus(w) \/ Delete(w)
  BY <1>2 DEF Serve, Cancel, TxInsert, TxInsertFails, TxUpdate, TxRevise,
              TxNotFound, BusyTimeout, tables
<1>3. Crash => UNCHANGED <<decisions, revisions>>
  BY DEF Crash, tables
<1>4. UNCHANGED vars => UNCHANGED <<decisions, revisions>>
  BY DEF vars
<1>. QED  BY <1>1, <1>2, <1>3, <1>4 DEF Next

(* What a commit finds: a row, its snapshot, and no log of an absent row. *)
LEMMA CommitShape ==
  ASSUME IInv, NEW w \in Worker, TxCommit(w)
  PROVE  /\ target[w] \in Decision /\ txRow \in Row /\ txRow # None
         /\ txRev = Snapshot(txRow)
         /\ decisions[target[w]] = None => revisions[target[w]] = << >>
  BY NoneIsNoValue DEF IInv, TxCommit, LockOwner, TypeOK, TxOK

(* No revision is logged for a decision that does not exist when the log   *)
(* grows, however long ago its request looked the decision up.             *)
THEOREM DeletedStaysUnlogged == Spec => NoRevisionOfTheDeleted
<1> DEFINE A == \A d \in Decision : revisions'[d] # revisions[d] => decisions'[d] # None
<1>1. IInv /\ [Next]_vars => A
  <2> SUFFICES ASSUME IInv, [Next]_vars PROVE A  OBVIOUS
  <2>1. ASSUME NEW w \in Worker, TxCommit(w) PROVE A
    <3>1. ASSUME NEW d \in Decision, d # target[w]
          PROVE  revisions'[d] = revisions[d]
      BY <2>1, <3>1 DEF TxCommit, IInv, TypeOK
    <3>2. decisions'[target[w]] # None
      BY <2>1, CommitShape DEF TxCommit, IInv, TypeOK
    <3>. QED  BY <3>1, <3>2
  <2>2. ASSUME NEW w \in Worker, SetStatus(w) \/ Delete(w) PROVE A
    BY <2>2 DEF SetStatus, Delete
  <2>3. CASE DeleteProject
    BY <2>3 DEF DeleteProject
  <2>. QED  BY <2>1, <2>2, <2>3, TableSteps
<1>2. IInv /\ [Next]_vars => [A]_vars
  BY <1>1
<1>. QED  BY <1>2, InductiveInvariant, PTL DEF Spec, NoRevisionOfTheDeleted

(* The detailed handlers implement the abstract history: a transaction, or *)
(* a statement of its own, is one abstract step, everything else stutters. *)
THEOREM HistoryRefined == Spec => HistoryIsAtomic
<1> USE DEF History!Snapshot, Snapshot
<1>1. Init => History!HInit
  <2> SUFFICES ASSUME Init PROVE History!HInit  OBVIOUS
  <2>1. decisions \in [Decision -> Row \cup {None}]
    BY InitInv DEF IInv, TypeOK
  <2>. QED  BY <2>1 DEF Init, History!HInit, Row, History!Row, Status, History!Status
<1>2. IInv /\ [Next]_vars => [History!HNext]_(History!hvars)
  <2> SUFFICES ASSUME IInv, [Next]_vars
               PROVE  History!HNext \/ UNCHANGED <<decisions, revisions>>
    BY DEF History!hvars
  <2>0. decisions \in [Decision -> Row \cup {None}] /\ Row = History!Row
        /\ Status = History!Status
    BY DEF IInv, TypeOK, Row, History!Row, Status, History!Status
  <2>1. ASSUME NEW w \in Worker, TxCommit(w) PROVE History!HNext
    <3> DEFINE d == target[w]
    <3>1. History!Record(d, txRow)
      BY <2>1, CommitShape DEF TxCommit, History!Record
    <3>. QED  BY <2>0, <2>1, <3>1, CommitShape DEF History!HNext
  <2>2. ASSUME NEW w \in Worker, SetStatus(w)
        PROVE  History!HNext \/ UNCHANGED <<decisions, revisions>>
    <3> DEFINE d == target[w]
               s == patch[w].status
    <3>1. d \in Decision /\ s \in Status
      BY <2>2 DEF SetStatus, CanWrite, Calls, IInv, CallOK, Row
    <3>2. CASE decisions[d] = None
      <4>1. decisions' = decisions
        BY <2>0, <2>2, <3>1, <3>2 DEF SetStatus
      <4>. QED  BY <2>2, <4>1 DEF SetStatus
    <3>3. CASE decisions[d] # None
      <4>1. History!Move(d, s)
        BY <2>2, <3>3 DEF SetStatus, History!Move, Moved, History!Moved
      <4>. QED  BY <2>0, <3>1, <4>1 DEF History!HNext
    <3>. QED  BY <3>2, <3>3
  <2>3. ASSUME NEW w \in Worker, Delete(w) PROVE History!HNext
    <3>1. target[w] \in Decision
      BY <2>3 DEF Delete, CanWrite, Calls, IInv, CallOK
    <3>2. decisions' = [d \in Decision |-> IF d \in {target[w]} THEN None ELSE decisions[d]]
      BY <2>0, <2>3, <3>1 DEF Delete
    <3>3. History!Forget({target[w]})
      BY <2>3, <3>2 DEF Delete, History!Forget
    <3>. QED  BY <3>1, <3>3 DEF History!HNext
  <2>4. CASE DeleteProject
    <3>1. History!Forget(Decision)
      BY <2>4 DEF DeleteProject, History!Forget
    <3>. QED  BY <3>1 DEF History!HNext
  <2>. QED  BY <2>1, <2>2, <2>3, <2>4, TableSteps
<1>. QED
  BY <1>1, <1>2, InductiveInvariant, PTL DEF Spec, HistoryIsAtomic, History!HSpec
=============================================================================

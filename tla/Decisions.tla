------------------------------ MODULE Decisions ------------------------------
(***************************************************************************)
(* Decisions and their revision history, request by request and statement  *)
(* by statement.  A handler of pages.rs first reads the decision on its    *)
(* own (find_decision) and later writes it with one call of repository.rs; *)
(* other requests run in between.  update_decision, resolve_decision and   *)
(* create_decision are transactions of several statements: the first one   *)
(* takes SQLite's only write lock, COMMIT publishes, and a request that is *)
(* dropped (the client hung up), a NotFound, or a crash of the server      *)
(* rolls back.  Pool, lock and rollback are sqlx's and SQLite's (WAL mode),*)
(* modelled as repository.rs uses them.                                    *)
(*                                                                         *)
(* All decisions belong to one project, which an admin or a member edits.  *)
(***************************************************************************)
EXTENDS DecisionData, Naturals, Sequences, FiniteSets

CONSTANTS
  Decision,      \* the uuids a decision may get
  Worker,        \* the requests the server is serving at one time
  MaxRevisions   \* bound: no request starts that could log more than this

ASSUME NoneIsNobody == None \notin Decision \cup Worker

VARIABLES
  decisions,   \* committed decisions table: a row, or None
  revisions,   \* committed revisions of each decision, oldest first
  project,     \* whether the project's row exists
  writer,      \* the worker whose transaction holds the write lock, or None
  txRow,       \* that transaction's view of its decision: a row, or None
  txRev,       \* the revision it has inserted, or None
  pc,          \* where each worker is in its handler
  op,          \* the repository call it is about to make
  target,      \* the decision it is about (None until create_decision picks)
  patch        \* the column values it will write

tx      == <<writer, txRow, txRev>>
tables  == <<decisions, revisions, project>>
locals  == <<pc, op, target, patch>>
vars    == <<decisions, revisions, project, writer, txRow, txRev,
             pc, op, target, patch>>

Ops == {"create", "update", "inline", "resolve", "status", "delete"}

TypeOK ==
  /\ decisions \in [Decision -> Row \cup {None}]
  /\ revisions \in [Decision -> Seq(Snapshots)]
  /\ project \in BOOLEAN
  /\ writer \in Worker \cup {None}
  /\ txRow \in Row \cup {None}
  /\ txRev \in Snapshots \cup {None}
  /\ pc \in [Worker -> {"idle", "read", "written", "revised"}]
  /\ op \in [Worker -> Ops \cup {None}]
  /\ target \in [Worker -> Decision \cup {None}]
  /\ patch \in [Worker -> Row \cup {None}]

-----------------------------------------------------------------------------
Init ==
  /\ decisions \in [Decision -> {None} \cup
       {NewRow(t, c, os) : t \in Title, c \in Context, os \in SUBSET OptionId}]
  /\ revisions = [d \in Decision |-> IF decisions[d] = None
                                     THEN << >>
                                     ELSE <<Snapshot(decisions[d])>>]
  /\ project = TRUE
  /\ writer = None /\ txRow = None /\ txRev = None
  /\ pc = [w \in Worker |-> "idle"]
  /\ op = [w \in Worker |-> None]
  /\ target = [w \in Worker |-> None]
  /\ patch = [w \in Worker |-> None]

(* Bound: requests in flight count as if each were to log a revision. *)
Room(d) ==
  Len(revisions[d]) + Cardinality({v \in Worker : target[v] = d}) < MaxRevisions

(* Bound: every create in flight finds a uuid. *)
Fresh == {d \in Decision : decisions[d] = None /\ revisions[d] = << >>}
UuidLeft ==
  Cardinality({v \in Worker : op[v] = "create"}) < Cardinality(Fresh)

(* A handler has passed its checks and will call o on decision d with p. *)
Start(w, o, d, p) ==
  /\ pc[w] = "idle"
  /\ pc' = [pc EXCEPT ![w] = "read"]
  /\ op' = [op EXCEPT ![w] = o]
  /\ target' = [target EXCEPT ![w] = d]
  /\ patch' = [patch EXCEPT ![w] = p]
  /\ UNCHANGED <<tables, tx>>

(* The handler returns, with a page or with an error. *)
Answer(w) ==
  /\ pc' = [pc EXCEPT ![w] = "idle"]
  /\ op' = [op EXCEPT ![w] = None]
  /\ target' = [target EXCEPT ![w] = None]
  /\ patch' = [patch EXCEPT ![w] = None]

Unlock == writer' = None /\ txRow' = None /\ txRev' = None

-----------------------------------------------------------------------------
(* The handlers up to their repository call: every read they base it on.   *)

(* decision_create: no read of the decision, membership only. *)
CreateForm(w, t, c, os) ==
  /\ UuidLeft
  /\ Start(w, "create", None, NewRow(t, c, os))

(* decision_update: the whole content comes from the form. *)
EditForm(w, d, t, c, os) ==
  /\ decisions[d] # None /\ Room(d)
  /\ Start(w, "update", d, NewRow(t, c, os))

(* api_decision_update: what the request leaves out, the options always,   *)
(* is copied from the row read here.                                       *)
EditInline(w, d, t, c) ==
  /\ decisions[d] # None /\ Room(d)
  /\ LET r == decisions[d] IN
     Start(w, "inline", d, NewRow(IF t = None THEN r.title ELSE t,
                                  IF c = None THEN r.context ELSE c,
                                  r.options))

(* Only status, option and rationale are written: the rest is any fixed row. *)
Resolution(s, option, why) ==
  [(CHOOSE r \in Row : TRUE) EXCEPT !.status = s, !.chosen = option,
                                    !.rationale = why]

(* decision_resolve *)
ResolveForm(w, d, requested, option, why) ==
  /\ decisions[d] # None /\ Room(d)
  /\ Start(w, "resolve", d,
           Resolution(FormStatus(requested, option),
                      ChosenOption(requested, option), why))

(* api_decision_resolve *)
ResolveInline(w, d, requested, option, why) ==
  /\ decisions[d] # None /\ Room(d)
  /\ Start(w, "resolve", d,
           Resolution(InlineStatus(requested, option),
                      ChosenOption(requested, option), why))

(* api_status_change, for a decision *)
MoveCard(w, d, s) ==
  /\ decisions[d] # None
  /\ Start(w, "status", d, Resolution(s, None, Blank))

(* Every handler but the first: find_decision finds nothing, 404. *)
Refuse(w, d) == pc[w] = "idle" /\ decisions[d] = None /\ UNCHANGED vars

(* decision_delete *)
DeleteForm(w, d) ==
  /\ decisions[d] # None
  /\ Start(w, "delete", d, None)

-----------------------------------------------------------------------------
(***************************************************************************)
(* The repository calls.  A statement outside a transaction commits as it  *)
(* runs; the first statement of a transaction takes the write lock.  Both  *)
(* wait for the lock: see BusyTimeout.                                     *)
(***************************************************************************)
Calls(w, ops) == pc[w] = "read" /\ op[w] \in ops
CanWrite(w, ops) == Calls(w, ops) /\ writer = None

(* create_decision's INSERT: a fresh uuid, the project's row must exist. *)
TxInsert(w) ==
  /\ CanWrite(w, {"create"}) /\ project
  /\ \E d \in Decision :
       /\ d \in Fresh
       /\ \A v \in Worker : target[v] # d
       /\ target' = [target EXCEPT ![w] = d]
  /\ writer' = w
  /\ txRow' = patch[w]
  /\ pc' = [pc EXCEPT ![w] = "written"]
  /\ UNCHANGED <<tables, txRev, op, patch>>

(* FOREIGN KEY constraint failed: the project was deleted meanwhile. *)
TxInsertFails(w) ==
  /\ CanWrite(w, {"create"}) /\ ~project
  /\ Answer(w)
  /\ UNCHANGED <<tables, tx>>

(* Mutant: the UPDATE runs on the pool and commits on its own. *)
UpdateOutsideTx(w) ==
  /\ CanWrite(w, {"update", "inline", "resolve"})
  /\ writer' = w
  /\ LET old == decisions[target[w]] IN
     /\ txRow' = IF old = None THEN None
                 ELSE IF op[w] = "resolve" THEN Resolved(old, patch[w])
                 ELSE Edited(old, patch[w])
     /\ decisions' = [decisions EXCEPT ![target[w]] = txRow']
  /\ pc' = [pc EXCEPT ![w] = "written"]
  /\ UNCHANGED <<revisions, project, txRev, op, target, patch>>

(* update_decision's and resolve_decision's UPDATE; it may match no row. *)
TxUpdate(w) ==
  /\ CanWrite(w, {"update", "inline", "resolve"})
  /\ writer' = w
  /\ LET old == decisions[target[w]] IN
     txRow' = IF old = None THEN None
              ELSE IF op[w] = "resolve" THEN Resolved(old, patch[w])
              ELSE Edited(old, patch[w])
  /\ pc' = [pc EXCEPT ![w] = "written"]
  /\ UNCHANGED <<tables, txRev, op, target, patch>>

(* Mutant: the row is fetched from the pool, not inside the transaction. *)
ReviseFromPool(w) ==
  /\ pc[w] = "written" /\ txRow # None
  /\ txRev' = Snapshot(IF decisions[target[w]] = None THEN txRow
                       ELSE decisions[target[w]])
  /\ pc' = [pc EXCEPT ![w] = "revised"]
  /\ UNCHANGED <<tables, writer, txRow, op, target, patch>>

(* fetch_decision, then insert_revision of what it returned. *)
TxRevise(w) ==
  /\ pc[w] = "written" /\ txRow # None
  /\ txRev' = Snapshot(txRow)
  /\ pc' = [pc EXCEPT ![w] = "revised"]
  /\ UNCHANGED <<tables, writer, txRow, op, target, patch>>

(* Mutant: the handler returns and leaves its transaction open. *)
LeakTransaction(w) ==
  /\ pc[w] = "written" /\ txRow = None
  /\ Answer(w)
  /\ UNCHANGED <<tables, tx>>

(* fetch_decision finds nothing: NotFound, and the transaction is dropped. *)
TxNotFound(w) ==
  /\ pc[w] = "written" /\ txRow = None
  /\ Unlock /\ Answer(w)
  /\ UNCHANGED tables

TxCommit(w) ==
  /\ pc[w] = "revised"
  /\ decisions' = [decisions EXCEPT ![target[w]] = txRow]
  /\ revisions' = [revisions EXCEPT ![target[w]] = Append(@, txRev)]
  /\ Unlock /\ Answer(w)
  /\ UNCHANGED project

(* update_decision_status: no transaction, no revision. *)
SetStatus(w) ==
  /\ CanWrite(w, {"status"})
  /\ LET d == target[w] IN
     decisions' = [decisions EXCEPT ![d] =
                     IF @ = None THEN None ELSE Moved(@, patch[w].status)]
  /\ Answer(w)
  /\ UNCHANGED <<revisions, project, tx>>

(* delete_decision: the revisions have no foreign key and stay. *)
Delete(w) ==
  /\ CanWrite(w, {"delete"})
  /\ decisions' = [decisions EXCEPT ![target[w]] = None]
  /\ Answer(w)
  /\ UNCHANGED <<revisions, project, tx>>

(* delete_project: ON DELETE CASCADE takes every decision with it. *)
DeleteProject ==
  /\ project /\ writer = None
  /\ project' = FALSE
  /\ decisions' = [d \in Decision |-> None]
  /\ UNCHANGED <<revisions, tx, locals>>

-----------------------------------------------------------------------------
(* Mutant: a writer waits for the lock without a limit. *)
WaitForEver(w) == Calls(w, Ops) /\ writer # None /\ UNCHANGED vars

(* "database is locked": SQLite's busy timeout expired for a waiting writer. *)
BusyTimeout(w) ==
  /\ Calls(w, Ops) /\ writer # None
  /\ Answer(w)
  /\ UNCHANGED <<tables, tx>>

(* The client hung up: the handler is dropped, its transaction rolled back. *)
Cancel(w) ==
  /\ pc[w] # "idle"
  /\ IF writer = w THEN Unlock ELSE UNCHANGED tx
  /\ Answer(w)
  /\ UNCHANGED tables

(* The server is killed and restarted on the same database file. *)
Crash ==
  /\ \E w \in Worker : pc[w] # "idle"
  /\ Unlock
  /\ pc' = [w \in Worker |-> "idle"]
  /\ op' = [w \in Worker |-> None]
  /\ target' = [w \in Worker |-> None]
  /\ patch' = [w \in Worker |-> None]
  /\ UNCHANGED tables

-----------------------------------------------------------------------------
Requests(w) ==
  \/ \E t \in Title, c \in Context, os \in SUBSET OptionId :
       \/ CreateForm(w, t, c, os)
       \/ \E d \in Decision : EditForm(w, d, t, c, os)
  \/ \E d \in Decision :
       \/ \E t \in Title \cup {None}, c \in Context \cup {None} :
            EditInline(w, d, t, c)
       \/ \E s \in Status, option \in OptionId \cup {None}, why \in Rationale :
            \/ ResolveForm(w, d, s, option, why)
            \/ ResolveInline(w, d, s, option, why)
       \/ \E s \in Status : MoveCard(w, d, s)
       \/ DeleteForm(w, d)
       \/ Refuse(w, d)

(* What the server does for a request on its own, without a client. *)
Serve(w) ==
  \/ TxInsert(w) \/ TxInsertFails(w) \/ TxUpdate(w)
  \/ TxRevise(w) \/ TxNotFound(w) \/ TxCommit(w)
  \/ SetStatus(w) \/ Delete(w) \/ BusyTimeout(w)

Next ==
  \/ \E w \in Worker : Requests(w) \/ Serve(w) \/ Cancel(w)
  \/ DeleteProject
  \/ Crash

Spec == Init /\ [][Next]_vars

(* tokio polls every handler that can go on, and SQLite's busy handler      *)
(* gives up: a request the server can serve is not left alone for ever.     *)
FairSpec == Spec /\ \A w \in Worker : WF_vars(Serve(w))

-----------------------------------------------------------------------------
(* insert_revision and the statement before it are one transaction: for a  *)
(* decision that exists, the newest revision is the decision as it is now, *)
(* whatever ran in between, except for a status the Kanban board moved.    *)
HistoryDescribesRow ==
  \A d \in Decision : decisions[d] # None =>
    /\ revisions[d] # << >>
    /\ [revisions[d][Len(revisions[d])] EXCEPT !.status = decisions[d].status]
         = Snapshot(decisions[d])

(* A request that read a decision before someone deleted it must not log a *)
(* revision for it: fetch_decision's NotFound takes the transaction down.  *)
NoRevisionOfTheDeleted ==
  [][\A d \in Decision : revisions'[d] # revisions[d] => decisions'[d] # None]_vars

(* decided_option and decided_at_ms are written by one statement from one  *)
(* status, and no later edit, move or reopening tears them apart.          *)
ChosenIsDated ==
  \A d \in Decision : decisions[d] # None =>
    (decisions[d].chosen # None => decisions[d].dated)

(* The tables, seen at the commits, behave as the abstract history: every  *)
(* transaction is one step of it or none, whoever crashes or hangs up.     *)
History == INSTANCE DecisionHistory
HistoryIsAtomic == History!HSpec

(* Every request the server has begun to serve is answered.                *)
RequestsAnswered == \A w \in Worker : pc[w] # "idle" ~> pc[w] = "idle"

(* The write lock is always given back: no path leaves its transaction open.*)
LockReleased == writer # None ~> writer = None
=============================================================================

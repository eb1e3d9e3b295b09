------------------------------- MODULE Editing -------------------------------
(***************************************************************************)
(* Editing a project and what is in it while others do: the forms, the     *)
(* inline editor of the pages, which sends one field and has the handler   *)
(* write the whole row, the Kanban board, and notes, which are written,    *)
(* captured or extracted from an experiment and keep a history.  A handler *)
(* reads the record on its own and writes it with one call of              *)
(* repository.rs, in one statement or one transaction (module Decisions    *)
(* tells them apart); other requests run in between.  An experiment's      *)
(* dates and a decision's resolution are other columns, which these        *)
(* requests do not carry (modules Experiments and Decisions).              *)
(*                                                                         *)
(* All records belong to one project, which is a record itself.            *)
(***************************************************************************)
EXTENDS Naturals, Sequences, FiniteSets

CONSTANTS
  Record,        \* the uuids records have or may get
  KindOf,        \* the table of each
  Text,          \* texts, Blank among them
  Blank,         \* the empty text
  User,          \* who may be assigned a goal
  None,          \* no row, NULL, no request
  Start,         \* the tables to begin with
  Asked,         \* what requests carry: functions of columns to values
  Worker,        \* the requests the server is serving at one time
  MaxRequests    \* bound: requests that are served

Kind == {"project", "goal", "note", "experiment", "decision"}
Column == {"title", "summary", "body", "status", "assigned_to", "source",
           "hypothesis", "result", "lesson", "context", "options"}

(* The columns a form carries. *)
FormColumns(kind) ==
  CASE kind = "project" -> {"title", "summary", "status"}
    [] kind = "goal" -> {"title", "body", "status", "assigned_to"}
    [] kind = "note" -> {"title", "body"}
    [] kind = "experiment" -> {"title", "hypothesis", "status", "result", "lesson"}
    [] kind = "decision" -> {"title", "context", "options"}

(* The columns the inline editor may carry: a decision's options are the    *)
(* ones its endpoint copies back.                                           *)
InlineColumns(kind) == FormColumns(kind) \ {"options"}

Columns(kind) ==
  FormColumns(kind) \cup (IF kind = "note" THEN {"source"} ELSE {})

Statuses(kind) ==
  CASE kind = "project" -> {"active", "paused", "archived"}
    [] kind = "goal" -> {"open", "ongoing", "done", "dropped"}
    [] kind = "experiment" -> {"planned", "ongoing", "done", "abandoned"}
    [] OTHER -> {}

FirstStatus(kind) ==
  CASE kind = "project" -> "active" [] kind = "goal" -> "open" [] OTHER -> "planned"

Legal(kind, column) ==
  CASE column = "title" -> Text \ {Blank}
    [] column = "status" -> Statuses(kind)
    [] column = "assigned_to" -> User \cup {None}
    [] column = "source" -> {x \in Record : KindOf[x] = "experiment"} \cup {None}
    [] OTHER -> Text

Row(kind) ==
  {row \in [Columns(kind) -> UNION {Legal(kind, c) : c \in Columns(kind)}] :
     \A c \in Columns(kind) : row[c] \in Legal(kind, c)}

ASSUME KindAssumption == KindOf \in [Record -> Kind]
ASSUME BlankAssumption == Blank \in Text /\ Blank \notin User
ASSUME NoneAssumption ==
  /\ None \notin Text \cup User \cup Record
  /\ \A kind \in Kind : None \notin Row(kind)
ASSUME AskedAssumption ==
  \A p \in Asked : /\ DOMAIN p \subseteq Column
                   /\ \A c \in DOMAIN p :
                        /\ c \notin {"status", "assigned_to"} => p[c] \in Text
                        /\ c = "assigned_to" => p[c] \in User \cup {Blank}
ASSUME StartAssumption ==
  \A t \in Start : /\ DOMAIN t = Record
                   /\ \A id \in Record : t[id] # None =>
                        /\ t[id] \in Row(KindOf[id])
                        /\ KindOf[id] = "note" => t[id]["source"] = None
ASSUME BoundAssumption == MaxRequests \in Nat

-----------------------------------------------------------------------------
(* What a handler makes of what it is asked. *)

OrFirst(kind, status) ==
  IF status \in Statuses(kind) THEN status ELSE FirstStatus(kind)

(* api_experiment_update, and the other endpoints alike, of its texts: what *)
(* is left out counts as blank                                              *)
OrKept(old, new) == IF new = Blank THEN old ELSE new

(* The forms that are accepted: all of a form's fields, but a goal's        *)
(* assignee (GoalForm's is an Option).                                      *)
IsForm(kind, p) ==
  /\ DOMAIN p \subseteq FormColumns(kind)
  /\ FormColumns(kind) \ DOMAIN p \subseteq IF kind = "goal" THEN {"assigned_to"} ELSE {}

(* project_update, goal_update, note_update, experiment_update and          *)
(* decision_update: every column of the form is written.  An assignee that  *)
(* is blank, or left out, is none (parse_assigned_to).                      *)
FromForm(kind, p) ==
  [c \in FormColumns(kind) |->
     CASE c = "status" -> OrFirst(kind, p[c])
       [] c = "assigned_to" -> IF c \in DOMAIN p /\ p[c] # Blank THEN p[c] ELSE None
       [] OTHER -> p[c]]

(* Mutant: a field that is sent blank is cleared, as in the forms. *)
MergedBlank(kind, row, p) ==
  [c \in InlineColumns(kind) |-> IF c \in DOMAIN p THEN p[c] ELSE row[c]]

(* Mutant: a status that is left out is reset, of any record. *)
MergedReset(kind, row, p) ==
  [c \in FormColumns(kind) |->
     CASE c = "status" -> IF c \in DOMAIN p THEN OrFirst(kind, p[c]) ELSE FirstStatus(kind)
       [] c # "status" /\ c \in DOMAIN p -> OrKept(row[c], p[c])
       [] OTHER -> row[c]]

(* api_project_update, api_goal_update, api_note_update, ...: a field that  *)
(* is left out, or blank, keeps what was read; but a project's status does  *)
(* not, and a blank status is none the table allows.                        *)
Merged(kind, row, p) ==
  [c \in FormColumns(kind) |->
     CASE c = "status" /\ c \in DOMAIN p -> OrFirst(kind, p[c])
       [] c = "status" /\ c \notin DOMAIN p /\ kind = "project" -> "active"
       [] c # "status" /\ c \in DOMAIN p -> OrKept(row[c], p[c])
       [] OTHER -> row[c]]

(* What an inline request asks to change. *)
Sent(p) == {c \in DOMAIN p : c = "status" \/ p[c] # Blank}

(* note_snapshot_md *)
Snapshot(row) == [title |-> row["title"], body |-> row["body"]]

(* Mutant: the hypothesis stands in for a lesson. *)
ExtractedHypothesis(row) == IF row["lesson"] = Blank THEN row["hypothesis"] ELSE row["lesson"]

(* note_extract: the lesson, or else the result *)
Extracted(row) == IF row["lesson"] = Blank THEN row["result"] ELSE row["lesson"]

(* note_extract's title is "Lesson: ..." and is taken for the title here. *)
NoteOf(title, body, source) ==
  [c \in Columns("note") |->
     CASE c = "title" -> title [] c = "body" -> body [] c = "source" -> source]

-----------------------------------------------------------------------------
VARIABLES
  rows,       \* the tables: of every record its row, or None
  revisions,  \* of every record its revisions (notes have them), oldest first
  used,       \* the uuids that have been given out
  request,    \* what each worker is about to write, or None
  served,     \* counts to MaxRequests
  missed,     \* observed: of each worker, the columns of its record that
              \* others changed since it read the record
  told        \* observed: of each record, every text its row had as lesson
              \* or result

vars == <<rows, revisions, used, request, served, missed, told>>

(* The columns a request sets, of a row or of a new one; carries are those  *)
(* its client sent.                                                         *)
IsRequest(r) ==
  /\ r = [id |-> r.id, carries |-> r.carries, insert |-> r.insert, set |-> r.set]
  /\ r.id \in Record /\ r.insert \in BOOLEAN
  /\ DOMAIN r.set \subseteq Columns(KindOf[r.id])
  /\ \A c \in DOMAIN r.set : r.set[c] \in Legal(KindOf[r.id], c)
  /\ r.insert => r.set \in Row(KindOf[r.id])

(* Titles are not blank, a status is one the table allows, a note's source  *)
(* is an experiment: in every row, and in whatever a request may yet write. *)
TypeOK ==
  /\ DOMAIN rows = Record
  /\ \A id \in Record : rows[id] # None => rows[id] \in Row(KindOf[id])
  /\ \A id \in Record : rows[id] # None => id \in used
  /\ revisions \in [Record -> Seq([title : Text, body : Text])]
  /\ DOMAIN request = Worker
  /\ \A w \in Worker : request[w] # None => IsRequest(request[w])
  /\ missed \in [Worker -> SUBSET Column]
  /\ told \in [Record -> SUBSET Text]
  /\ served \in 0..MaxRequests

Told(row) == {row[c] : c \in DOMAIN row \cap {"lesson", "result"}}

Init ==
  /\ rows \in Start
  /\ used = {id \in Record : rows[id] # None}
  /\ revisions = [id \in Record |->
                    IF rows[id] # None /\ KindOf[id] = "note"
                    THEN <<Snapshot(rows[id])>> ELSE << >>]
  /\ request = [w \in Worker |-> None]
  /\ served = 0
  /\ missed = [w \in Worker |-> {}]
  /\ told = [id \in Record |-> IF rows[id] = None THEN {} ELSE Told(rows[id])]

-----------------------------------------------------------------------------
(* The handlers up to their repository call: every read they base it on.    *)

Take(w, id, carries, insert, set) ==
  /\ request[w] = None
  /\ served < MaxRequests /\ served' = served + 1
  /\ request' = [request EXCEPT ![w] =
       [id |-> id, carries |-> carries, insert |-> insert, set |-> set]]
  /\ missed' = [missed EXCEPT ![w] = {}]
  /\ UNCHANGED <<rows, revisions, told>>

(* An edit of a record that is there (of one that is gone, nothing would be *)
(* written); the title must not be blank.                                   *)
Form(w, id, p) ==
  /\ rows[id] # None
  /\ IsForm(KindOf[id], p) /\ p["title"] # Blank
  /\ Take(w, id, DOMAIN p, FALSE, FromForm(KindOf[id], p))
  /\ UNCHANGED used

Inline(w, id, p) ==
  /\ rows[id] # None
  /\ DOMAIN p \subseteq InlineColumns(KindOf[id])
  /\ Take(w, id, Sent(p), FALSE, Merged(KindOf[id], rows[id], p))
  /\ UNCHANGED used

(* api_status_change; a decision's status is not a column of this module *)
MoveCard(w, id, status) ==
  /\ rows[id] # None
  /\ KindOf[id] \in {"goal", "experiment"} /\ status \in Statuses(KindOf[id])
  /\ Take(w, id, {"status"}, FALSE, [c \in {"status"} |-> status])
  /\ UNCHANGED used

(* A uuid is drawn, and nothing shows it before the row is there. *)
New(w, id, row) ==
  /\ id \notin used /\ used' = used \cup {id}
  /\ Take(w, id, DOMAIN row, TRUE, row)

(* goal_create *)
NewGoal(w, id, title, body, who) ==
  /\ KindOf[id] = "goal" /\ title # Blank
  /\ New(w, id, [c \in Columns("goal") |->
                   CASE c = "title" -> title [] c = "body" -> body
                     [] c = "status" -> "open" [] c = "assigned_to" -> who])

(* note_create *)
NewNote(w, id, title, body) ==
  /\ KindOf[id] = "note" /\ title # Blank
  /\ New(w, id, NoteOf(title, body, None))

(* capture_form, of a text and its first line *)
Capture(w, id, first, text) == text # Blank /\ NewNote(w, id, first, text)

(* note_extract *)
Extract(w, id, x) ==
  /\ KindOf[id] = "note" /\ KindOf[x] = "experiment"
  /\ rows[x] # None /\ Extracted(rows[x]) # Blank
  /\ New(w, id, NoteOf(rows[x]["title"], Extracted(rows[x]), x))

-----------------------------------------------------------------------------
(* The repository calls. *)

(* The row of a record once a request is served: nothing is made of a row   *)
(* that is gone, and without the project's row nothing is inserted.         *)
Result(r) ==
  LET old == rows[r.id] IN
  IF r.insert
  THEN IF \E p \in Record : KindOf[p] = "project" /\ rows[p] # None THEN r.set ELSE None
  ELSE IF old = None THEN None
  ELSE [c \in DOMAIN old |-> IF c \in DOMAIN r.set THEN r.set[c] ELSE old[c]]

(* Mutant: the revision tells what the request set out from. *)
LoggedBefore(r) == IF rows[r.id] = None THEN Result(r) ELSE rows[r.id]

(* fetch_note: the row a note's revision is made of *)
Logged(r) == Result(r)

(* update_project, update_goal, update_note, ..., create_goal, create_note  *)
Write(w) ==
  LET r == request[w] new == Result(r) IN
  /\ r # None
  /\ rows' = [rows EXCEPT ![r.id] = new]
  /\ revisions' = IF KindOf[r.id] = "note" /\ new # None
                  THEN [revisions EXCEPT ![r.id] = Append(@, Snapshot(Logged(r)))]
                  ELSE revisions
  /\ request' = [request EXCEPT ![w] = None]
  /\ missed' = [v \in Worker |->
       IF v = w THEN {}
       ELSE IF request[v] = None \/ request[v].id # r.id \/ new = None THEN missed[v]
       ELSE missed[v] \cup
            {c \in DOMAIN new : rows[r.id] = None \/ new[c] # rows[r.id][c]}]
  /\ told' = IF new = None THEN told ELSE [told EXCEPT ![r.id] = @ \cup Told(new)]
  /\ UNCHANGED <<used, served>>

(* The client hangs up, or the server stops, before the call is made. *)
Drop(w) ==
  /\ request[w] # None
  /\ request' = [request EXCEPT ![w] = None]
  /\ missed' = [missed EXCEPT ![w] = {}]
  /\ UNCHANGED <<rows, revisions, used, served, told>>

(* goal_delete, note_delete, ...: revisions stay; a project takes all. *)
Delete(id) ==
  /\ rows[id] # None
  /\ rows' = [i \in Record |-> IF i = id \/ KindOf[id] = "project" THEN None ELSE rows[i]]
  /\ UNCHANGED <<revisions, used, request, served, missed, told>>

Next ==
  \/ \E w \in Worker, id \in Record :
       \/ \E p \in Asked : Form(w, id, p) \/ Inline(w, id, p)
       \/ \E status \in Statuses(KindOf[id]) : MoveCard(w, id, status)
       \/ \E title, body \in Text, who \in User \cup {None} : NewGoal(w, id, title, body, who)
       \/ \E title, body \in Text : NewNote(w, id, title, body) \/ Capture(w, id, title, body)
       \/ \E x \in Record : Extract(w, id, x)
  \/ \E w \in Worker : Write(w) \/ Drop(w)
  \/ \E id \in Record : Delete(id)

Spec == Init /\ [][Next]_vars

-----------------------------------------------------------------------------
(* What is written to a column although its client did not send it: every   *)
(* inline edit of a project makes it active, and a goal's form that names   *)
(* no assignee clears the one the goal has.                                 *)
Unsent(kind, c, value, carries) ==
  \/ kind = "project" /\ c = "status" /\ value = "active"
  \/ /\ kind = "goal" /\ c = "assigned_to" /\ value = None
     /\ FormColumns(kind) \ {c} \subseteq carries

(* A column of a record changes only through a request whose client sent    *)
(* that column, or one that read the record before the column was changed   *)
(* by another and now writes back what it read: edits of different fields   *)
(* are only lost when they overlap.  Two columns are not treated so, and    *)
(* change in the ways Unsent names.                                         *)
OnlySentOrMissed ==
  [][\A id \in Record : rows[id] # None /\ rows'[id] # None =>
       \A c \in Columns(KindOf[id]) : rows'[id][c] # rows[id][c] =>
         \E w \in Worker :
           /\ request[w] # None /\ request'[w] = None
           /\ request[w].id = id
           /\ \/ c \in request[w].carries \cup missed[w]
              \/ Unsent(KindOf[id], c, rows'[id][c], request[w].carries)]_vars

(* The newest revision of a note that exists is the note as it is now,      *)
(* whichever of the form, the inline editor, the capture page and the       *)
(* extraction wrote it.                                                     *)
HistoryDescribesNote ==
  \A id \in Record : KindOf[id] = "note" /\ rows[id] # None =>
    /\ revisions[id] # << >>
    /\ revisions[id][Len(revisions[id])] = Snapshot(rows[id])

(* A note that names an experiment as its source began as something that    *)
(* experiment's lesson or result once said, and it said something: though   *)
(* the experiment is changed or deleted meanwhile, and the note edited.     *)
ExtractsQuote ==
  \A id \in Record : KindOf[id] = "note" /\ rows[id] # None =>
    LET x == rows[id]["source"] IN
    x # None => revisions[id][1].body \in told[x] \ {Blank}
=============================================================================

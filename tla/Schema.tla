-------------------------------- MODULE Schema --------------------------------
(***************************************************************************)
(* The full-text index and the migrations that change it: triggers keep    *)
(* index rows beside the rows of each table (0007), the index is renamed   *)
(* (0011), and two tables are rebuilt (0012).  Between migrations servers  *)
(* insert, edit and delete rows; a server older than a migration is known  *)
(* by its schema alone.  sqlx runs a migration in a transaction, before    *)
(* the server listens, on a connection that enforces foreign keys.         *)
(*                                                                         *)
(* All rows belong to one project.  Its own row is indexed like a note.    *)
(***************************************************************************)
EXTENDS Naturals, Sequences

CONSTANTS
  Id,      \* the uuids a row may get
  Text,    \* what is indexed of a row
  None     \* SQL NULL, a missing row

VARIABLES
  version,    \* the last migration that ran, of those modelled
  rows,       \* the content tables: a row, or None
  index,      \* kaizen_search, then causelog_search: by the kind and id its
              \* rows name, their texts
  triggers    \* the kinds of row whose triggers exist

schemaVars == <<version, rows, index, triggers>>

Indexed  == {"goal", "decision", "experiment", "note"}
Kind     == Indexed \cup {"event"}
Status   == {"planned", "running", "ongoing"}
Versions == {6, 7, 11, 12}

(* up is goal_id of a decision or an experiment, experiment_id of an event. *)
Row == [kind : Kind, text : Text, status : Status \cup {None}, up : Id \cup {None}]

ASSUME NoneIsNoRow == None \notin Row \cup Id

SchemaTypeOK ==
  /\ version \in Versions
  /\ rows \in [Id -> Row \cup {None}]
  /\ index \in [Indexed -> [Id -> Seq(Text)]]
  /\ triggers \in SUBSET Indexed

Rows(K) == {i \in Id : rows[i] # None /\ rows[i].kind \in K}

(* FTS5 knows no key: what is inserted twice is there twice. *)
NoEntries == [k \in Indexed |-> [i \in Id |-> <<>>]]

(* A database before the index existed. *)
SchemaInit ==
  /\ version = 6
  /\ rows = [i \in Id |-> None]
  /\ index = NoEntries /\ triggers = {}

-----------------------------------------------------------------------------
(* The statements of a server. *)

FreshId(i) ==
  /\ rows[i] = None
  /\ \A k \in Indexed : index[k][i] = <<>>
  /\ \A j \in Id : rows[j] # None => rows[j].up # i

(* What the schema's CHECKs and foreign keys let a server insert. *)
Allowed(r) ==
  /\ r.status # None <=> r.kind = "experiment"
  /\ r.status = "running" => version < 12
  /\ r.status = "ongoing" => version >= 12
  /\ CASE r.kind = "event" -> r.up \in Rows({"experiment"})
       [] r.kind \in {"decision", "experiment"} -> r.up \in Rows({"goal"}) \cup {None}
       [] OTHER -> r.up = None

(* create_goal, create_decision, create_experiment, create_note,            *)
(* create_event; trg_*_ai.                                                  *)
Insert(i, r) ==
  /\ FreshId(i) /\ Allowed(r)
  /\ rows' = [rows EXCEPT ![i] = r]
  /\ index' = IF r.kind \in triggers
              THEN [index EXCEPT ![r.kind][i] = Append(@, r.text)] ELSE index
  /\ UNCHANGED <<version, triggers>>

(* update_goal and its like; trg_*_au updates every entry of the row. *)
Edit(i, t) ==
  /\ i \in Rows(Indexed)
  /\ rows' = [rows EXCEPT ![i].text = t]
  /\ index' = IF rows[i].kind \in triggers
              THEN [index EXCEPT ![rows[i].kind][i] = [n \in 1..Len(@) |-> t]]
              ELSE index
  /\ UNCHANGED <<version, triggers>>

(* What the tables are once the rows of D are deleted: events go with their *)
(* experiment, the other pointers are set to NULL.                          *)
Without(D) ==
  [i \in Id |->
     IF rows[i] = None \/ i \in D \/ (rows[i].kind = "event" /\ rows[i].up \in D)
     THEN None
     ELSE [rows[i] EXCEPT !.up = IF @ \in D THEN None ELSE @]]

(* A row is deleted, or the project with every row; trg_*_ad deletes every  *)
(* entry of it.                                                             *)
Delete(D) ==
  /\ rows' = Without(D)
  /\ index' = [k \in Indexed |-> [i \in Id |->
                 IF k \in triggers /\ i \in D THEN <<>> ELSE index[k][i]]]
  /\ UNCHANGED <<version, triggers>>

-----------------------------------------------------------------------------
(* The migrations. *)

(* INSERT INTO ... SELECT, of the rows of each table *)
Backfilled(table) ==
  [k \in Indexed |-> [i \in Id |->
     IF i \in Rows({k}) THEN Append(table[k][i], rows[i].text) ELSE table[k][i]]]

(* INSERT INTO ... SELECT, of the entries of another index *)
Copied(from, table) == [k \in Indexed |-> [i \in Id |-> table[k][i] \o from[k][i]]]

(* 0007_search.sql: the index, its triggers, and a backfill. *)
AddSearch ==
  /\ version = 6 /\ version' = 7
  /\ index' = Backfilled(index) /\ triggers' = Indexed
  /\ UNCHANGED rows

(* Mutant: nothing is copied to the new index. *)
RenameSearchEmpty ==
  /\ version = 7 /\ version' = 11
  /\ index' = NoEntries /\ triggers' = Indexed
  /\ UNCHANGED rows

(* Mutant: the new index gets a copy of the old and a backfill. *)
RenameSearchDoubled ==
  /\ version = 7 /\ version' = 11
  /\ index' = Backfilled(Copied(index, NoEntries)) /\ triggers' = Indexed
  /\ UNCHANGED rows

(* 0011_rename_search_table.sql: another index, the entries of the old one  *)
(* copied to it, and the triggers anew; the old one is dropped.             *)
RenameSearch ==
  /\ version = 7 /\ version' = 11
  /\ index' = Copied(index, NoEntries) /\ triggers' = Indexed
  /\ UNCHANGED rows

(* Mutant: the table is dropped before it is copied. *)
RebuildUncopied ==
  /\ version = 11 /\ \A i \in Rows({"experiment"}) : rows[i].status # "running"
  /\ version' = 12
  /\ rows' = Without(Rows({"goal", "experiment"}))
  /\ triggers' = triggers \ {"goal", "experiment"}
  /\ UNCHANGED index

(* 0012_ongoing_status.sql: experiments and goals are copied, dropped and   *)
(* renamed.  A DROP TABLE takes the table's triggers along, and first       *)
(* deletes every row without firing them: ON DELETE CASCADE empties events, *)
(* ON DELETE SET NULL clears goal_id.  Its first statement renames a status *)
(* under the CHECK of the old table, which does not know the new one.       *)
Rebuild ==
  /\ version = 11 /\ \A i \in Rows({"experiment"}) : rows[i].status # "running"
  /\ version' = 12
  /\ rows' = [i \in Id |->
       IF i \in Rows({"goal", "experiment"})
       THEN [rows[i] EXCEPT !.up = None]
       ELSE Without(Rows({"goal", "experiment"}))[i]]
  /\ triggers' = triggers \ {"goal", "experiment"}
  /\ UNCHANGED index

(* ... so with one running experiment it is rolled back, and the server    *)
(* does not start; an older one may go on.                                  *)
RebuildFails ==
  /\ version = 11 /\ \E i \in Rows({"experiment"}) : rows[i].status = "running"
  /\ UNCHANGED schemaVars

SchemaNext ==
  \/ \E i \in Id : \/ \E r \in Row : Insert(i, r)
                   \/ \E t \in Text : Edit(i, t)
                   \/ i \in Rows(Kind) /\ Delete({i})
  \/ Delete(Id)
  \/ AddSearch \/ RenameSearch \/ Rebuild \/ RebuildFails

SchemaSpec == SchemaInit /\ [][SchemaNext]_schemaVars

-----------------------------------------------------------------------------
(* The entries a record should have: one, if it exists. *)
EntriesDue(k, i) == IF i \in Rows({k}) THEN <<rows[i].text>> ELSE <<>>

(* A row of a kind that has triggers is in the index once, with its text:   *)
(* whether it was written before the index existed, edited, or deleted with *)
(* its project, no entry of it is lost, left over or doubled, by a          *)
(* migration or by the triggers between them.                               *)
TriggersKeepSync ==
  \A k \in triggers, i \in Id : index[k][i] = EntriesDue(k, i)

(* No migration loses a row of an indexed table or changes its text.        *)
UpgradeKeepsContent ==
  [][version' # version =>
       \A i \in Rows(Indexed) : /\ rows'[i] # None
                                /\ rows'[i].kind = rows[i].kind
                                /\ rows'[i].text = rows[i].text]_schemaVars

-----------------------------------------------------------------------------
(* README.md:167 "Everything is searchable through an FTS5 index kept in    *)
(* sync by database triggers, including content written before the index    *)
(* existed."                                                                *)
EverythingSearchable ==
  version >= 7 => \A k \in Indexed, i \in Id : index[k][i] = EntriesDue(k, i)
=============================================================================

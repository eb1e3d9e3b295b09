# A TLA+ verification of Causelog

Causelog is a self-hosted notebook for engineering decisions: projects hold
goals, decisions with an immutable revision history, experiments with events,
and knowledge notes, all linked in a graph and exported as archives. It is one
axum server over one SQLite database in WAL mode, reached through a `sqlx` pool
of five connections. The server keeps almost no state in memory: what can go
wrong goes wrong between the statements of two requests, or between a request
and a crash.

This directory holds TLA+ modules translated from the Rust source, the TLC
configurations that check them on small instances, and proofs TLAPS checks.
File and line references are to the repository's `crates/`, `migrations/` and
`README.md`.

## 1. Inventory

| Part | State it keeps | Operations | What is hard | What makes it right |
|---|---|---|---|---|
| Decisions and revisions (`repository.rs`, `pages.rs`) | `decisions`, `revisions` | create, edit (form, inline), resolve (form, inline), move a card, delete | handlers read first and write later; writes are transactions that can be dropped, time out or crash | row and revision change together; the newest revision describes the row |
| Notes and revisions | `notes`, `revisions` | create, edit (form, inline), extract from an experiment, delete | same, and extraction reads the experiment first | the newest revision is the note; an extracted note quotes its experiment |
| Goals and projects | `projects`, `goals` | create, edit, move, assign, delete with cascades | the inline endpoints write the whole row for one field, "Edit all" sends field after field; cascades | a field changes only by who sends it, or in an overlap |
| Experiments and events | `experiments`, `experiment_events` | create, edit, move a card, delete, add/delete events | the lifecycle dates are derived from a read outside the write | a started experiment keeps its start |
| Links, graph, knowledge state | `links` | create, delete; graph and state are derived | links have no foreign key on their ends | superseding and validation are what the links say; pages and exports cope with what is gone |
| Accounts, sessions, set-up | `users`, `sessions`, `settings` | set-up, register, log in, log out, approve, reject, role, delete | check-then-act between handlers; a session outliving its reading | one first admin; there is always an admin; nobody unapproved acts |
| Membership and authorization | `project_members` | create project, add, remove | check-then-act on the last owner | a project keeps an owner |
| Login rate limiter (`lib.rs`) | attempts per client, in memory | one check per login | one mutex; time moves between attempts | never more than the limit in any window |
| Search index | `search_fts` | triggers on every table; queries | a migration drops tables and their triggers | what exists is found, what is gone is not |
| Migrations | the schema | run once at start | table rebuilds with foreign keys on | no data lost |
| Export (`crates/export`, `export_adapter.rs`, `collect_project_snapshot`) | none | collect in one read transaction, render | a snapshot across many tables while others write | an archive is one state of the database |
| Story (`story.rs`, `story_config.rs`, pages) | `story_config` | derive chapters, apply and save order | the saved configuration outlives the entities it names | every entity appears once |
| TLS, certificate reload, serving (`main.rs`) | the served pair, two remembered times | load, poll, reload | two files replaced one after the other, between any two reads | a pair that stays on disk is served |
| Export trees: Markdown, static site, archive (`markdown.rs`, `html.rs`, `archive.rs`, `export_cli.rs`) | the output directory | render, write file by file | files of earlier exports stay; names come from titles; an export may break off | links lead to the right pages; a name is used twice by namesakes only |
| One-file renderers (ODP, one-pager, JSON), templates, JavaScript | none | formatting | none | not modelled: layout |
| Seed and example data, deployment files | none of their own | call the operations above | a partial seed | not modelled |

A handler of `pages.rs` has this shape: find the session and the user, check the
CSRF token, read the entity, check membership, then make **one** repository call.
(A few leave a check out: `experiment_create`, pages.rs:3953, asks for no
membership, `api_status_change`, pages.rs:5527, for no CSRF token, and
`goal_update` and `goal_delete` check the project the URL names, not the goal's.) The reads are separate statements on the pool; a repository
call is one statement or one transaction. Components interact only through the
database: foreign keys with `ON DELETE CASCADE` or `SET NULL`, the FTS triggers,
and the soft references (`revisions.entity_id`, both ends of `links`) that
nothing cleans up.

## 2. Modules and plan

In this order, most important first:

| Module | Models | Theorems |
|---|---|---|
| `DecisionData` | a row of `decisions`, its snapshot, and the pure functions of the handlers on them | |
| `DecisionHistory` | the abstract promise: a decision and its history change together | |
| `Decisions` | every handler and statement that touches them; implements `DecisionHistory` | `DecisionsProofs` |
| `Accounts` | set-up, registration, sessions, the admins' page | `AccountsProofs` |
| `Membership` | members of projects and the reads that authorize changing them | `MembershipProofs` |
| `Experiments` | experiments, events, lifecycle dates, timeline markers | `ExperimentsProofs` |
| `LoginLimiter` | `RateLimiter::is_rate_limited` and the clock | `ServeProofs` |
| `Schema` | the search index, its triggers, and migrations 0007, 0011, 0012 | `ServeProofs` |
| `ExportAbstract` | the abstract promise: an archive is the project at one moment | |
| `Export` | a whole project read query by query (archive, page, graph) while it is written to, and the derived knowledge states; implements `ExportAbstract` | `ExportProofs` |
| `Story` | the derived story, its saved configuration, and the editor's page and form | `ServeProofs` |
| `Editing` | projects, goals, notes, experiments and decisions edited by forms, the inline editor and the board; notes and their history, extraction | `EditingProofs` |
| `Site` | the trees an export writes, their names and links, over what earlier exports left | `SiteProofs` |
| `CertReload` | the certificate and key files, their polling and reload | `ServeProofs` |

Every component has an `MC` module that only declares symmetry sets and the
contents to begin with, and one `.cfg` per run. A component's theorems are in a
module of their own that extends it; `ServeProofs` holds those of four components
that share no state and no name, a part for each.

What composes what: `Decisions` uses `DecisionData` and is shown to implement
`DecisionHistory`; `Export` is shown to implement `ExportAbstract`. The modules
overlap where components share a table, each at the grain its properties need:
a decision's edit is one step of `Site` and `Export`, a read and a write in
`Editing`, and a transaction statement by statement in `Decisions`; the lifecycle dates are in `Experiments`, an experiment's texts in
`Editing`.

Every safety property and every action property a run checks is stated by a
theorem. Components still worth a module: the search queries (the membership
filter) and the sections of the one-pager.

## 3. How the models read the code

**Requests.** A `Worker` is an axum handler: `pc[w]` is how far it is. Its reads
are folded into one step where nothing between them changes what they find or
where only the last one matters, and are steps of their own where the code can be
overtaken between them; each module's header says which. Whatever a handler has
read it carries in variables (`arg`, `dates`, `target`, ...), so it may be stale
when it is used. A request that is refused (no session, bad CSRF token, unknown
identifier, wrong form) and so changes nothing appears only where its refusal is
an alternative the properties see. Handlers can be dropped at any await
(`Cancel`, `GiveUp`): hyper drops the future when its client hangs up.

**The database.** `Decisions` models SQLite's single writer: a transaction takes
the write lock with its first write, others wait or time out (`BusyTimeout`), a
drop rolls back, a crash loses what was
not committed. The other modules take single-statement repository calls as
atomic, which SQLite grants. `Accounts` adds the one transaction that reads
before it writes (`create_first_user`): a commit of somebody else makes its
snapshot stale (`fresh`), and its write then fails.

**Identifiers** are fresh (v4 UUIDs): an id once used is never used again.
**Values** (titles, contexts, options, rationales, texts) are members of small
sets; only an empty rationale (`Blank`) is told apart.

| Module | State | Actions and their code |
|---|---|---|
| `Decisions` | `decisions`, `revisions` tables; `writer`, `txRow`, `txRev` the open transaction; `pc`, `op`, `target`, `arg` the handlers | `CreateForm`, `EditForm`, `EditInline`, `ResolveForm`, `ResolveInline`, `MoveCard`, `DeleteForm` are the handlers up to their repository call; `TxInsert`, `TxUpdate`, `TxRevise`, `TxNotFound`, `TxCommit`, `SetStatus`, `Delete` the statements; `DeleteProject`, `BusyTimeout`, `Cancel`, `Crash` what happens to them |
| `Accounts` | `users`, `sessions`, `setup`, `authored` (who a `created_by` names and so cannot be deleted); `fresh` the set-up snapshots; `seen` a history of what a request last saw of the admins | one action per read and per write of set-up, register, login, logout and the four actions of `/admin/users` |
| `Membership` | `account`, `creator`, `members` | `Request`, `ReadRole`, `ReadMember`, `CountOwners` are the reads; `Add`, `AddOrReplace`, `Remove`, `CreateProject`, `DeleteProject` the writes; `Register`, `SetRole`, `DeleteUser` the accounts |
| `Experiments` | `experiments`, `events`, `clock` | `Ask`, `Find`, `Write` are the update in its three steps; `MoveCard`, `Create`, `Delete...`, `CreateEvent`, `DeleteEvent` one statement each |
| `LoginLimiter` | `attempts`, the tally of each address; `passed` (a history of what passed, by age) and `answered` (whose attempt was answered last, and how) | `Attempt`, `Tick` |
| `Schema` | `rows` of all tables, `index`, `triggers`, `version` | `Insert`, `Edit`, `Delete` with their triggers and cascades; `AddSearch`, `RenameSearch`, `Rebuild`, `RebuildFails` the migrations |
| `Export` | `db` the project's rows; `step`, `snap`, `answer` how far each reader is, what its transaction sees and what its queries returned; `used` the identifiers given out | `Ask` is a reader's first query, `Read` each later one in the order of the code (`Order`), `End` the answer or a failure; the rest are the writes of the other modules with what their foreign keys do, one step each |
| `Editing` | `rows` of all tables, `revisions` of notes; `request` what each handler has made of its reads and is about to write; `missed` (what others changed since it read) and `told` (what experiments ever said) are observations | `Form`, `Inline`, `MoveCard`, `NewGoal`, `NewNote`, `Capture`, `Extract` are the handlers up to their repository call; `Write` the call; `Drop`, `Delete` |
| `Site` | `project` with its links and configuration; `disk` the output directory, `job` the export under way with its snapshot, `tree` what the last completed one wrote | `CreateAny`, `Rename`, `Learn`, `Delete`, `AddLink`, `RemoveLink`, `Configure` change the project; `Collect` takes the snapshot, `WriteTree` writes all of its files or the first few |
| `CertReload` | `file` what is on disk and since when; `pc`, `cert`, `now`, `last` the server's task, `served` what connections get; `overlooked` an observation | one action per read of a file or its time: `ReadCert`, `Load`, `Reload`, `LookCert`, `FirstLook`, `Poll`; `Begin`, `Stop`; `Change` whoever renews the files |
| `Story` | `decisions`, `experiments` with their lessons, `config` the row of `story_config`, `page` an open editor, `sent` a configuration about to be stored | `Open`, `Post`, `Store`, `Reset` are the handlers' database calls; `Click`, `Summarise`, `Drag`, `Close` the browser's; the rest change the project |

Points where the code is not what one would guess:

* `event_delete` deletes by the event's identifier whatever experiment the URL
  names, and only after authorizing the experiment's project.
* In `project_member_remove` an owner is refused whenever the owner count is at
  most one, and there never are two owners (theorem `OwnerCreated`): the branch
  for more is dead. The theorem is about projects made since migration 0008;
  older ones have no recorded creator.
* The limiter's key is "unknown" for every client when no proxy sets a header;
  all of them then share one limit. Its map never shrinks. Its `u32` count is
  modelled saturating just above the limit, which cannot be told apart from
  counting on (an overflow takes 2^32 attempts in a window).
* Only archives are read in a transaction. collect.rs:20-22 says the server's
  source reads in one; the project page, the story editor and its form
  (pages.rs:1817, 2010, 2164) call `collect` on the pool. `Export` has both, and
  `DanglingIsNew` says what the difference amounts to.
* `link_create` looks up neither end, so a link may name what was deleted.
* The form of the story editor carries the dragged order in a field of its own,
  and `story_edit_post` uses it as a set only ("Apply drag ordering",
  pages.rs:2228): records are stored in the order of the export. `Merged` does
  the same, so `Drag` never reaches the configuration.
* The inline endpoints read a record, replace the fields they were sent and
  write back all of them; what is sent blank counts as not sent. The exception
  is `api_project_update`, where a missing status becomes 'active'.
* A command-line export writes its snapshot file by file over the directory; a file's name is a slug of its title and the head of its uuid, the
  first eight of its digits (`IdHead`), which two uuids may have in common.
* `GoalForm.assigned_to` is optional (pages.rs:3405), and `goal_update` writes no
  assignee when the form does not name one. `Form` has such goal forms.
* FTS5 has no unique keys: a row put into the index twice is in it twice. `Schema`
  keeps the sequence of entries of each record.
* The reloader compares times for equality and remembers them before it tries to
  reload; a failed reload needs no retry because the missing file's arrival
  changes a time (`QuietServesDisk`).
* Older servers appear in `Schema` only by the schema they wrote under.

An operator whose comment begins with "Mutant" is not part of any specification:
it is the form a definition would take with a plausible bug, and `PROJECT.json`
says which property notices it.

## 4. What the runs check

### Runs that pass

| Run | Question | Properties | Instance, and why it is enough |
|---|---|---|---|
| `decisions` | Do a decision and its history stay together, whatever overlaps, is dropped or crashes, and does every request end? | `HistoryDescribesRow`, `ChosenIsDated`, refinement `HistoryIsAtomic`, liveness `RequestsAnswered` and `LockReleased` | one decision, two requests, up to three revisions (`MaxRevisions`), one option, a blank and a real rationale. Two requests make every overlap of a writer with the holder of the lock; three revisions allow create, change, change |
| `accounts` | Who can hold a session, become or remove an admin, while requests race? | `SessionsAreApproved`, `SetupCreatesTheAdmin`, `ApprovedGoOnlyByDelete`, `LastAdminLostToStaleRead` | two accounts, two sessions, two requests: an admin and a second account, with one request overtaking the other at every await |
| `membership` | Can a project lose its owner or keep members that do not exist? | `MembersExist`, `OwnerIsCreator`, `OwnerLostByAdminsOnly` | two users, two projects, two requests |
| `experiments` | Do lifecycle dates survive overlapping updates and deletions? | `EndsAfterItStarts`, `NothingDangles`, `GoneIsGone`, `StartLostToStaleRead` | one experiment, event, goal and decision, two updates, clock 0..2 (`MaxTime`): a start, an end and a later time to confuse them with |
| `login_limiter` | How many attempts does an address get, and does a refusal end? | `TwiceTheLimitAtMost`, `RefusedAfterTheLimit`, liveness `KeepsTryingPasses` | two addresses, a limit of two, a window of three ticks: two windows touch inside one stretch |
| `schema` | Is the index what the tables are, across three migrations? | `TriggersKeepSync`, `UpgradeKeepsContent` | four rows of any kinds, two texts: an experiment with an event and its goal and decision at once |
| `export` | What can an archive, a page or a graph show of a project that is being written to? | `DanglingIsNew`, `SupersededUntilUnlinked`, refinement `ArchivesAreAtomic` | one request at a time (readers do not affect each other), four writes (`MaxWrites`) in between, from an empty project and from one with a goal, a decided decision, an experiment on it and an event: enough to create a row, one that refers to it, and delete both |
| `story` | Does the editor show the story, and does saving it change only what was chosen? | `TypeOK`, `NoopSaveKeepsStory`, `EditorMatchesStory`, `VisibilityIsChosen` | two decisions, two experiments, two texts of lessons, one editor page, six changes (`MaxChanges`, clicks and saves included): a record older and one newer than the page, equal lessons, an experiment under a decision that goes |
| `editing` | Whose edit can undo whose, and do notes and their history stay true? | `TypeOK`, `OnlySentOrMissed`, `HistoryDescribesNote`, `ExtractsQuote` | a project, a goal, a note, an experiment and a decision, three requests of which two overlap (`MaxRequests`), each one field, blank or not, or a whole form: two edits that overlap and a third after them, or an experiment that is edited, extracted and edited again |
| `site` | Do the files of an export lead to each other, after renames, deletions and broken-off exports? | `TypeOK`, `TreeIsClosed`, `ArchivePacks`, `CrossReferencesAgree`, `PagesKeepTheirSubject` | a project of a goal, a decision, an experiment and a note that share a title and refer to each other, and an empty one, over two decisions, two notes and one record of each other kind: the uuids of the decisions begin alike and those of the notes do not; two changes and two exports (`MaxChanges`, `MaxExports`), which may break off before the first file, between the pages of the root and among those of the records (`Stops`): an old page under a new name, a name freed and taken, a link to what is gone |
| `certs` | Is a renewed certificate served in the end? | `QuietServesDisk`, liveness `NewPairServed` | two pairs, four writes of either file (`MaxWrites`), also half written: both files replaced and both put back, at any point of a load or a poll |

Every component has a type invariant, and all of them are proved (section 6);
runs check it where it says more than types: in `editing` what requests may still
write, in `story` that no form lists a record twice, in `site` what the directory
holds. Symmetry is used where rows, requests or users are interchangeable
and no liveness is checked (`decisions`, `login_limiter` and `certs` use none).
Deadlock is not checked in `export`, `editing` and `site`, where the last write
may leave nothing to do.

Some properties state exactly how far the code keeps a promise. The history
describes the row *except for a status the Kanban board moved*; an owner is lost
*on the admins' user page only*; the last admin, and a recorded start, are lost
*only to a request whose own read had been overtaken*. A page
put together from several moments misses *only what is newer than its request*;
an untouched record leaves the story *only with its decision, or by a form older
than it*. A field changes *by who sends it, or by who read it before another
changed it; a project's status with every inline edit, and a goal's assignee by a
form that names none*. An archive repeats no name *unless two records of one kind
and slug have uuids that begin alike*, and a page in the
directory gives way only to that of a record of its kind whose uuid begins alike. A renewed pair is served
*unless it came between the server's first read and the reloader's first look*.

### A run that shows a disagreement

| Run | Promise | What the code does |
|---|---|---|
| `search_stale` | README.md:167: everything is searchable, in sync by triggers | migration 0012 drops the triggers of goals and experiments with their tables |

Further disagreements met while modelling, which need no model checker to see:

* Migration 0012 says of itself (line 1) that it adds a status; with foreign
  keys on (repository.rs:459), dropping the old `experiments` deletes every event
  by cascade, and dropping `goals` clears the pointers to goals.
* A card moved on the board changes the status and adds no revision
  (repository.rs:1322), against README.md:16, "Every change is kept as an
  immutable revision". `HistoryDescribesRow` and the abstract `Move` say so.
* `POST /register` does not ask whether set-up is complete, as the page does
  (pages.rs:1384): an account registered before makes set-up a conflict for ever,
  against README.md:160.
* A note's revision names the note's creator, whoever edited it
  (repository.rs:1904-1929).
* A request of the inline editor sends one field (editable.js:95); for a project
  that makes an archived or paused one active (pages.rs:5846). The goal page's
  "unassigned" option is sent blank, which keeps the assignment.
* The reloader's times are first taken after the files were loaded, in a task of
  its own (main.rs:310-314): a renewal in between is served only after the next
  one, against main.rs:308, "whenever either file changes on disk".
* html.rs:1-4 says all links of the exported site are relative to be opened from
  disk; on pages below the root the style sheet and the related records are
  linked to as from the root (html.rs:157, 580), and the navigation links to
  directories without an index and to `misc/`, which has no files. `TreeIsClosed`
  leaves exactly these out.
* model.rs:163 calls a file's stem unique. It has eight digits of the uuid, so two
  records of one kind and slug may share it (one pair in 2^32): the site then has
  one page for both, and the archive is refused. `ArchivePacks` and
  `PagesKeepTheirSubject` name the case.
* howto/usage.md:76 counts observations among the search results; no migration
  gives `experiment_events` a trigger or an entry.
* A goal form without `assigned_to` clears the assignment (pages.rs:3405, 3493),
  where the inline editor keeps what it is not sent; `OnlySentOrMissed` names it.
* An export into a directory removes nothing that an earlier export wrote there,
  so pages of renamed and deleted records stay, unreferenced.
* export_cli.rs:5-7 says formats share a single snapshot; the configuration is
  read by a query of its own after it.
* With no known section named, the one-pager's preview shows all sections and its
  download none (pages.rs, one_pager_page and one_pager_download).
* An inline rename of a decision (pages.rs:5908) writes back the context and
  options it read before its statement; a concurrent edit of those is lost,
  though pages.rs:5907 says they are preserved.
* Two admins' requests that each count two admins remove both, against
  howto/usage.md:21 (at least one admin); `LastAdminLostToStaleRead` says that
  this is the only way.
* A record created while an editor page is open has no box on the form, and
  saving stores it as hidden, though story_config.rs:101-102 lets new records
  default to visible; `VisibilityIsChosen` names this case.
* Records the configuration does not list come after those it lists, not at
  "their canonical position" (story_config.rs:128-129).
* The editor fills in the derived problem statement, so saving it unchanged
  freezes that text as if it had been written by hand (pages.rs:2120-2127).
* `decision_snapshot_md` (repository.rs:2379) writes the rationale only under a
  chosen option; the rationale of a rejected decision is in no revision.
* The Kanban board makes a decision "decided" without a chosen option, which
  pages.rs:3887 rules out for the form.
* An experiment moved to 'ongoing' on the board has no start and is missing from
  the timeline; one that ended and is planned again is told as "Abandoned"
  (repository.rs:1664).
* An admin can detach a project's only owner (pages.rs:5327), and can delete the
  account of `/setup` once it owns no content, against howto/usage.md:10.
* `count_admins` counts admins nobody approved: promote a pending account,
  demote yourself, and the only admin cannot log in.
* The limiter counts successful logins too, against the comment at lib.rs:20.
* Migration 0012 sets 'ongoing' under the old CHECK: with one experiment
  'running' it fails, and the server does not start (`RebuildFails`).

## 5. Fairness

Clients are never fair: nobody has to send a request, and one may hang up at any
time. `Decisions` assumes weak fairness of `Serve(w)` alone: tokio polls a
handler that can go on, and SQLite's busy handler gives up after its timeout, so
a request that can make a step makes one, be it the error of `BusyTimeout`.
`LoginLimiter` assumes weak fairness of `Tick` alone: time passes; that the
client keeps trying is a premise of the property. `CertReload` assumes weak
fairness of the server's own steps: tokio polls the task and its ticker fires
every 30 seconds; that the server stays up and the files stay as they are is a
premise, and nobody has to renew or restart anything. The other specifications are
safety only and state no fairness.

## 6. What is proved

TLAPS proves, for any sets of rows, users, values and concurrent requests:

* **`DecisionsProofs`**: `TypeOK`, `HistoryDescribesRow`, `ChosenIsDated`,
  `NoRevisionOfTheDeleted`, and that `Decisions` implements `DecisionHistory`.
  The properties alone are not inductive: in the middle of a transaction the
  tables say nothing of what it will commit. The invariant adds that the holder of the
  lock is inside a transaction, that what a handler carries is a proper request,
  and that the buffered row and revision of the open transaction belong together
  and suit the row in the table. Each statement then preserves it, and only a
  commit, a status move, or a deletion is a step of the abstract history.
* **`AccountsProofs`**: `TypeOK`, `SessionsAreApproved`, `SetupCreatesTheAdmin`,
  `ApprovedGoOnlyByDelete`, `LastAdminLostToStaleRead`. The invariant says what a
  handler still knows when it writes: the account it will log in is approved if
  it still exists (approval is never taken back and a uuid never reused), its
  delete is of somebody else, a request that may take an admin away has seen
  another admin than its target, and a set-up whose snapshot is the newest has
  counted nobody.
* **`MembershipProofs`**: `TypeOK`, `MembersExist`, `OwnerIsCreator`,
  `OwnerLostByAdminsOnly`. The count of owners protects the owner because there
  is never a second one; the invariant says that a remove request past the count
  is not about an owner. Assumes a finite set of users (for the count).
* **`ExperimentsProofs`**: `TypeOK`, `EndsAfterItStarts`, `NothingDangles`,
  `GoneIsGone`, `StartLostToStaleRead`. The invariant extends the order of the
  dates to the copies updates have read: each is in order and not later than its
  read. Assumes a clock that does not step back.
* **`ExportProofs`**: what an archive has read is what its snapshot holds
  (`ArchiveReadsSnapshot`), and `Export` implements `ExportAbstract`
  (`ArchivesImplement`). The invariant: every query a transaction has answered so
  far returned the snapshot's view. The refinement mapping shows the archive whole from the first query on, filled
  up with what the snapshot will still answer; so the first query is the abstract
  `Take`, later ones stutter, and a write changes only the abstract content.
  Also `TypeOK` and `SupersededUntilUnlinked`: the invariant says that every
  identifier in use was given out, so a new link never replaces an old one.
  And `DanglingIsNew` of pages, which read in no transaction: a query answers
  with rows of its own moment, so a reference to what an earlier query did not
  find is either to what the page's first query could not see, or to what was
  deleted, and then an `ON DELETE` had cleared the reference before it could be
  read. The invariant (`ReadInv`) says, of every query answered so far, that each
  row in existence when the request began is in the answer or gone for good, and
  that of those rows an answer names none that the answers do not have.
  Assumes that rows of different tables have different uuids.
* **`SiteProofs`**: `TypeOK`, `TreeIsClosed`, `ArchivePacks`,
  `CrossReferencesAgree`, `PagesKeepTheirSubject`. First, of one project: the
  places of its files are apart but for namesakes (two records of one kind and
  slug whose uuids begin alike), a place tells what its page is about as far as
  the name does (`Tells`: the kind and the head of the uuid), and links lead to
  places that are written. Then, of the directory: a completed tree still has, at
  each of its places, a page of that tree (`Laid`; of namesakes the one written
  last), because the other format has places of its own, and a later tree of the
  same format replaces it or leaves it unfinished. Assumes that records of
  different kinds have different uuids, and that tables are finite; nothing is
  assumed of how uuids begin.
* **`ServeProofs`**, four parts:
  * `Schema`: `SchemaTypeOK`, `TriggersKeepSync`, `UpgradeKeepsContent`. The
    invariant states, of every record, the sequence of its entries in the index
    (one, as it is, or none), that the index is empty before migration 0007 makes
    it, and which triggers each version has.
  * `CertReload`: `CertTypeOK` and `QuietServesDisk`. The invariant says of
    each file what its reader still knows: before the first look it holds what was
    read unless overlooked, afterwards it does as long as its time is the
    remembered one. Assumes that every write gives a file a new time.
  * `LoginLimiter`: its type invariant, `TwiceTheLimitAtMost`,
    `RefusedAfterTheLimit`. The invariant (`WindowTold`) ties a tally to the
    history: what passed since its window began is its count, capped, and what
    passed before it and is not older than a window is at most the limit. A stretch
    as long as the window then meets at most two windows.
  * `Story`: `TypeOK`, `NoopSaveKeepsStory`, `EditorMatchesStory`,
    `VisibilityIsChosen`. Lemmas about `Only` (which members it keeps, in which
    order, none twice) come first; they are proved by induction on the length, in a
    first-order form (a least counterexample of a well-founded order). From them
    follows, record by record, what is told, shown and stored. The invariant says
    that a form lists each record once and none that was not created, so that a new
    record is on no form, and that a request about to store has the boxes of its
    page.
* **`EditingProofs`**: `TypeOK`, `HistoryDescribesNote`, `ExtractsQuote`,
  `OnlySentOrMissed`. The invariant follows every request from its read to its
  write: whatever it will set beyond what its client sent is what the row holds,
  or is missed (`Edits`); one that inserts has a uuid of its own, without row,
  revisions or rival (`Inserts`). `ToldAll` carries the quotation over the deletion
  of the experiment.

The other assumptions say that `None` (`Absent`, `Nothing`) is not a value, that
bounds are numbers, and what the constants of a module hold (the blank rationale,
the rows to begin with); TLC evaluates them in every run.

Only model-checked: liveness (`RequestsAnswered`, `LockReleased`,
`KeepsTryingPasses`, `NewPairServed`), since what rests on fairness and ENABLED is
outside the prover. `EverythingSearchable` is violated, so there is nothing to
prove.

## 7. Not modelled

The one-file renderers (slides, one-pager, JSON), templates, most browser code
and the Markdown pipeline keep no state and take no decisions a property could be
about. The calendar arithmetic of `crates/content` is a function of one number.
Demo data only calls what is modelled; deployment files are shell around SQLite's
own backup. Certificates obtained from Let's Encrypt (rustls-acme), the redirect
listener and the shutdown channel are library code around one call. Search
queries (ranking, the membership filter), the graph page's focus and filters, and
the collections of single lists are not modelled.
Left out of what is modelled: the text of titles and bodies, passwords,
CSRF tokens, cookies, review dates, ranking of search results, and the
configuration of SQLite beyond foreign keys, WAL and the busy timeout.
`PROJECT.json` lists each part with its status, and the hazards no property
covers yet with the reason.

-------------------------------- MODULE Story --------------------------------
(***************************************************************************)
(* The story of a project and its editor.  The story is derived from the   *)
(* project's decisions, experiments and lessons; a saved configuration     *)
(* hides some of them and changes their order.  The editor shows the whole *)
(* list with check boxes; what it sends back is merged with the project as *)
(* it is by then, and replaces the configuration.  Meanwhile the project   *)
(* changes, and other tabs save.                                           *)
(*                                                                         *)
(* Uuids are numbers, in the order in which the records were created: the  *)
(* order of an export.  Sections, goals and the problem statement are left *)
(* out.  Reading the project is one step here (Export has its steps).      *)
(***************************************************************************)
EXTENDS Naturals, FiniteSets, SequencesExt

CONSTANTS
  NumDecisions, NumExperiments,   \* bounds: records ever created
  Wording,                        \* what a lesson may say
  Tab,                            \* the editor pages that are open at a time
  MaxChanges,                     \* bound: changes to the project, and saves
  Nothing                         \* no row, no configuration, NULL

ASSUME Bounds ==
  NumDecisions \in Nat /\ NumExperiments \in Nat /\ MaxChanges \in Nat

Decision   == 1..NumDecisions
Experiment == 1..NumExperiments
Part       == {"decisions", "experiments", "lessons"}

VARIABLES
  decisions,     \* the decisions there are
  experiments,   \* an experiment's decision and its lesson, or Nothing
  created,       \* how many decisions and experiments were ever created
  config,        \* story_config: the items of each part, or Nothing
  page,          \* what a tab shows: the items of each part, or Nothing
  sent,          \* the configuration a tab's request is about to store, or Nothing
  changes        \* counts to MaxChanges

project == <<decisions, experiments, created>>
records == [decisions |-> decisions, experiments |-> experiments]
vars == <<decisions, experiments, created, config, page, sent, changes>>

ExperimentRow == [decision : Decision \cup {Nothing}, lesson : Wording \cup {Nothing}]
RecordId == Decision \cup Experiment
Item     == [id : RecordId, on : BOOLEAN, summary : Wording \cup {Nothing}]
ASSUME NothingIsNothing ==
  Nothing \notin ExperimentRow \cup Wording \cup RecordId \cup [Part -> Seq(Item)]

-----------------------------------------------------------------------------
(* The derived story, and what a configuration makes of it. *)

(* The members of a sequence that are in a set, in their order. *)
Only(ids, S) ==
  LET upto[n \in 0..Len(ids)] ==
        IF n = 0 THEN <<>>
        ELSE IF ids[n] \in S THEN Append(upto[n - 1], ids[n]) ELSE upto[n - 1]
  IN upto[Len(ids)]

Ids(S) == Only([i \in 1..(NumDecisions + NumExperiments) |-> i], S)
IdsOf(items) == [n \in DOMAIN items |-> items[n].id]
ItemOf(items, id) == {items[i] : i \in {j \in DOMAIN items : items[j].id = id}}

(* A lesson has the id of the first experiment that taught it. *)
Lessons(xs) ==
  {x \in Experiment :
     /\ xs[x] # Nothing /\ xs[x].lesson # Nothing
     /\ \A y \in 1..(x - 1) : xs[y] # Nothing => xs[y].lesson # xs[x].lesson}

(* build_story *)
Derived(p, k) ==
  CASE k = "decisions"   -> Ids(p.decisions)
    [] k = "experiments" -> Ids({x \in Experiment : p.experiments[x] # Nothing})
    [] k = "lessons"     -> Ids(Lessons(p.experiments))

(* order_ids; story_order in the server is the same function. *)
OrderIds(ids, items) ==
  LET asked == Only(IdsOf(items), ToSet(ids))
  IN asked \o Only(ids, ToSet(ids) \ ToSet(asked))

(* Mutant: a record that the editor has never seen is hidden. *)
OnIfListed(items, id) == \E i \in ItemOf(items, id) : i.on

(* StoryConfig::on *)
On(items, id) == \A i \in ItemOf(items, id) : i.on

(* StoryConfig::summary *)
Summary(items, id) ==
  IF \E i \in ItemOf(items, id) : i.summary # Nothing
  THEN (CHOOSE i \in ItemOf(items, id) : TRUE).summary ELSE Nothing

Saved(c) == IF c = Nothing THEN [k \in Part |-> <<>>] ELSE c

Chosen(p, c, k) ==
  LET items == Saved(c)[k]
      ids == OrderIds(Derived(p, k), items)
  IN Only(ids, {i \in ToSet(ids) : On(items, i)})

(* The parent rule: no experiment without the decision it tests. *)
ParentShown(p, c, x) ==
  p.experiments[x].decision # Nothing =>
    p.experiments[x].decision \in ToSet(Chosen(p, c, "decisions"))

(* build_story_with_config: the ids of a part, in the story's order. *)
Told(p, c, k) ==
  CASE c = Nothing -> Derived(p, k)
    [] c # Nothing /\ k = "experiments" ->
         Only(Chosen(p, c, k), {x \in ToSet(Chosen(p, c, k)) : ParentShown(p, c, x)})
    [] c # Nothing /\ k # "experiments" -> Chosen(p, c, k)

(* The text of a lesson that is told: its summary, if it has one. *)
TextTold(p, c, x) ==
  IF c # Nothing /\ Summary(c.lessons, x) # Nothing
  THEN Summary(c.lessons, x) ELSE p.experiments[x].lesson

-----------------------------------------------------------------------------
(* The editor. *)

(* Some records, each with its box and its summary as some items have them. *)
Boxes(ids, items) ==
  [n \in DOMAIN ids |->
     [id |-> ids[n], on |-> On(items, ids[n]), summary |-> Summary(items, ids[n])]]

(* Mutant: the boxes are not set from the saved configuration. *)
EditorFresh(p, c) == [k \in Part |-> Boxes(Derived(p, k), <<>>)]

(* Mutant: the editor lists the records in the order of the export. *)
EditorCanonical(p, c) == [k \in Part |-> Boxes(Derived(p, k), Saved(c)[k])]

(* story_edit_page: every record there is, with its box. *)
Editor(p, c) ==
  [k \in Part |-> Boxes(OrderIds(Derived(p, k), Saved(c)[k]), Saved(c)[k])]

(* What a form makes of some records: those without a box are off. *)
Checked(ids, items) ==
  [n \in DOMAIN ids |->
     [id |-> ids[n], on |-> \E f \in ItemOf(items, ids[n]) : f.on,
      summary |-> Summary(items, ids[n])]]

(* Mutant: the records on the form are appended once more. *)
MergedTwice(p, form) ==
  [k \in Part |->
     Checked(Only(Derived(p, k), ToSet(IdsOf(form[k]))) \o Derived(p, k), form[k])]

(* The configuration that story_edit_post makes of a form: of every record  *)
(* there is by then, in the order of the export, those on the form first.   *)
(* The order of the ids on the form changes nothing.                        *)
Merged(p, form) ==
  [k \in Part |->
     LET shown == ToSet(IdsOf(form[k])) IN
     Checked(Only(Derived(p, k), shown) \o Only(Derived(p, k), RecordId \ shown), form[k])]

(* The items of each part, no record twice. *)
WellFormed(c) ==
  c # Nothing => \A k \in Part :
    /\ c[k] \in Seq(Item)
    /\ Cardinality(ToSet(IdsOf(c[k]))) = Len(c[k])

TypeOK ==
  /\ decisions \in SUBSET Decision
  /\ experiments \in [Experiment -> ExperimentRow \cup {Nothing}]
  /\ \A x \in Experiment : experiments[x] # Nothing =>
       experiments[x].decision \in decisions \cup {Nothing}
  /\ created \in [decisions : 0..NumDecisions, experiments : 0..NumExperiments]
  /\ WellFormed(config)
  /\ DOMAIN page = Tab /\ DOMAIN sent = Tab
  /\ \A t \in Tab : WellFormed(page[t]) /\ WellFormed(sent[t])
  /\ changes \in 0..MaxChanges

Init ==
  /\ decisions = {}
  /\ experiments = [x \in Experiment |-> Nothing]
  /\ created = [decisions |-> 0, experiments |-> 0]
  /\ config = Nothing
  /\ page = [t \in Tab |-> Nothing]
  /\ sent = [t \in Tab |-> Nothing]
  /\ changes = 0

Counted == changes < MaxChanges /\ changes' = changes + 1

CreateDecision ==
  /\ Counted /\ created.decisions < NumDecisions
  /\ created' = [created EXCEPT !.decisions = @ + 1]
  /\ decisions' = decisions \cup {created.decisions + 1}
  /\ UNCHANGED <<experiments, config, page, sent>>

CreateExperiment(d) ==
  /\ Counted /\ created.experiments < NumExperiments
  /\ d \in decisions \cup {Nothing}
  /\ created' = [created EXCEPT !.experiments = @ + 1]
  /\ experiments' = [experiments EXCEPT ![created.experiments + 1] =
                       [decision |-> d, lesson |-> Nothing]]
  /\ UNCHANGED <<decisions, config, page, sent>>

(* The lesson of an experiment is written, changed or erased. *)
Learn(x, text) ==
  /\ Counted
  /\ experiments[x] # Nothing /\ experiments[x].lesson # text
  /\ experiments' = [experiments EXCEPT ![x].lesson = text]
  /\ UNCHANGED <<decisions, created, config, page, sent>>

(* ... with ON DELETE SET NULL *)
DeleteDecision(d) ==
  /\ Counted /\ d \in decisions
  /\ decisions' = decisions \ {d}
  /\ experiments' = [x \in Experiment |->
       IF experiments[x] # Nothing /\ experiments[x].decision = d
       THEN [experiments[x] EXCEPT !.decision = Nothing] ELSE experiments[x]]
  /\ UNCHANGED <<created, config, page, sent>>

DeleteExperiment(x) ==
  /\ Counted /\ experiments[x] # Nothing
  /\ experiments' = [experiments EXCEPT ![x] = Nothing]
  /\ UNCHANGED <<decisions, created, config, page, sent>>

Open(t) ==
  /\ page[t] = Nothing
  /\ page' = [page EXCEPT ![t] = Editor(records, config)]
  /\ UNCHANGED <<project, config, sent, changes>>

(* A box is clicked. *)
Click(t, k, n) ==
  /\ page[t] # Nothing /\ sent[t] = Nothing /\ n \in DOMAIN page[t][k]
  /\ Counted
  /\ page' = [page EXCEPT ![t][k][n].on = ~@]
  /\ UNCHANGED <<project, config, sent>>

(* A summary is typed in or erased. *)
Summarise(t, n, text) ==
  /\ page[t] # Nothing /\ sent[t] = Nothing /\ n \in DOMAIN page[t].lessons
  /\ page[t].lessons[n].summary # text
  /\ Counted
  /\ page' = [page EXCEPT ![t].lessons[n].summary = text]
  /\ UNCHANGED <<project, config, sent>>

(* A record is dragged one place up. *)
Drag(t, k, n) ==
  /\ page[t] # Nothing /\ sent[t] = Nothing /\ n \in 2..Len(page[t][k])
  /\ Counted
  /\ page' = [page EXCEPT ![t][k][n] = page[t][k][n - 1],
                          ![t][k][n - 1] = page[t][k][n]]
  /\ UNCHANGED <<project, config, sent>>

(* story_edit_post reads the project ... *)
Post(t) ==
  /\ page[t] # Nothing /\ sent[t] = Nothing
  /\ sent' = [sent EXCEPT ![t] = Merged(records, page[t])]
  /\ UNCHANGED <<project, config, page, changes>>

(* ... and stores the configuration: set_story_config *)
Store(t) ==
  /\ sent[t] # Nothing
  /\ Counted
  /\ config' = sent[t]
  /\ page' = [page EXCEPT ![t] = Nothing]
  /\ sent' = [sent EXCEPT ![t] = Nothing]
  /\ UNCHANGED project

(* The tab is closed, or the request fails. *)
Close(t) ==
  /\ page[t] # Nothing
  /\ page' = [page EXCEPT ![t] = Nothing]
  /\ sent' = [sent EXCEPT ![t] = Nothing]
  /\ UNCHANGED <<project, config, changes>>

(* delete_story_config *)
Reset(t) ==
  /\ page[t] # Nothing /\ sent[t] = Nothing
  /\ config' = Nothing
  /\ page' = [page EXCEPT ![t] = Nothing]
  /\ UNCHANGED <<project, sent, changes>>

Next ==
  \/ CreateDecision
  \/ \E d \in Decision \cup {Nothing} : CreateExperiment(d)
  \/ \E x \in Experiment, text \in Wording \cup {Nothing} : Learn(x, text)
  \/ \E d \in Decision : DeleteDecision(d)
  \/ \E x \in Experiment : DeleteExperiment(x)
  \/ \E t \in Tab :
       \/ Open(t) \/ Post(t) \/ Store(t) \/ Close(t) \/ Reset(t)
       \/ \E k \in Part, n \in 1..(NumDecisions + NumExperiments) :
            Click(t, k, n) \/ Drag(t, k, n)
       \/ \E n \in Experiment, text \in Wording \cup {Nothing} : Summarise(t, n, text)

Spec == Init /\ [][Next]_vars

-----------------------------------------------------------------------------
(* Opening the editor and saving what it shows changes nothing in the       *)
(* story but its order: the same records are told, with the same texts,     *)
(* whatever has happened to the project since the configuration was saved.  *)
NoopSaveKeepsStory ==
  LET saved == Merged(records, Editor(records, config))
  IN /\ \A k \in Part : ToSet(Told(records, saved, k)) = ToSet(Told(records, config, k))
     /\ \A x \in ToSet(Told(records, config, "lessons")) : TextTold(records, saved, x) = TextTold(records, config, x)

(* What the editor shows, checked and in its order, is the story; but for   *)
(* the experiments whose decision is not told.  No record is told twice and *)
(* none that is gone.                                                       *)
EditorMatchesStory ==
  \A k \in Part :
    LET told == Told(records, config, k)
        boxes == Editor(records, config)[k]
        checked == Only(IdsOf(boxes), {b.id : b \in {b \in ToSet(boxes) : b.on}})
        parent(i) == IF k = "experiments" THEN experiments[i].decision ELSE Nothing
    IN /\ Cardinality(ToSet(told)) = Len(told)
       /\ told = Only(checked, {i \in ToSet(checked) :
            parent(i) # Nothing => parent(i) \in ToSet(Told(records, config, "decisions"))})

(* A record that stays changes between told and untold only when somebody   *)
(* chose so.  It goes when a form is stored that has its box unchecked, or  *)
(* has no box for it because the page is older than the record; it comes    *)
(* back when a form is stored or the configuration is reset.  An experiment *)
(* goes and comes with its decision, and comes back when its decision is    *)
(* deleted.  A new record is told, unless it is an experiment of a decision *)
(* that is not.                                                             *)
ChosenChange ==
  \A k \in Part :
    LET before == ToSet(Derived(records, k))     after == ToSet(Derived(records', k))
        told == ToSet(Told(records, config, k))  tells == ToSet(Told(records', config', k))
        parent(x) == IF k = "experiments" THEN experiments[x].decision ELSE Nothing
        parentUntold(x) ==
          parent(x)' # Nothing /\ parent(x)' \notin ToSet(Told(records', config', "decisions"))
        stored(t) == sent[t] # Nothing /\ config' = sent[t] /\ sent'[t] = Nothing
        checked(t, i) == \E b \in ItemOf(page[t][k], i) : b.on
    IN /\ \A i \in (before \cap after) \cap (told \ tells) :
            parentUntold(i) \/ \E t \in Tab : stored(t) /\ ~checked(t, i)
       /\ \A i \in (before \cap after) \cap (tells \ told) :
            \/ parent(i)' # parent(i)
            \/ config' = Nothing
            \/ \E t \in Tab : stored(t)
       /\ k # "lessons" => \A i \in after \ before : i \in tells \/ parentUntold(i)

VisibilityIsChosen == [][ChosenChange]_<<decisions, experiments, config>>
=============================================================================

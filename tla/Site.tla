--------------------------------- MODULE Site ---------------------------------
(***************************************************************************)
(* The trees of files that `causelog export` writes: Markdown, and the     *)
(* static HTML site.  A renderer makes a list of files of a project; the   *)
(* command writes them one by one into a directory, which may hold what    *)
(* earlier exports left there, and never removes a file.                   *)
(*                                                                         *)
(* A page is modelled by what it is about and by where its links lead;     *)
(* text, escaping and layout are left out, and of the links those to the   *)
(* stylesheet, to the directories, and README.md's to timeline.md and      *)
(* relationships.md.  A link names its target relative to the directory of *)
(* its page: "../" and a directory are optional.                           *)
(***************************************************************************)
EXTENDS Naturals, FiniteSets, SequencesExt

CONSTANTS
  Goal, Decision, Experiment, Note,   \* uuids
  Title, Slug,       \* titles, and slugify of each
  IdHead,            \* of each uuid: the first 8 of its hexadecimal digits
  Start,             \* the projects to begin with
  MaxChanges,        \* bound: changes to the project
  MaxExports,        \* bound: exports that are begun
  Stops,             \* bound: after how many files an export may break off
  None               \* no row, NULL, no file

Entity == Goal \cup Decision \cup Experiment \cup Note
Format == {"md", "html"}

GoalRow       == [title : Title]
DecisionRow   == [title : Title, goal : Goal \cup {None}]
ExperimentRow == [title : Title, goal : Goal \cup {None},
                  decision : Decision \cup {None}, lesson : Title \cup {None}]
NoteRow       == [title : Title, source : Decision \cup Experiment \cup {None}]

(* A link may name what is gone.  The configured story (module Story) tells *)
(* what is not hidden; a goal that is not open counts as hidden, and        *)
(* lessons are always told.  The text of a lesson is taken from the titles. *)
Project ==
  [goal : [Goal -> GoalRow \cup {None}],
   decision : [Decision -> DecisionRow \cup {None}],
   experiment : [Experiment -> ExperimentRow \cup {None}],
   note : [Note -> NoteRow \cup {None}],
   links : SUBSET (Entity \X Entity),
   hidden : SUBSET (Goal \cup Decision \cup Experiment)]

KindOf(e) ==
  CASE e \in Goal -> "goal" [] e \in Decision -> "decision"
    [] e \in Experiment -> "experiment" [] e \in Note -> "note"

RowOf(p, e) == p[KindOf(e)][e]
Exists(p, e) == e # None /\ RowOf(p, e) # None
Rows(p, kind) == {e \in DOMAIN p[kind] : p[kind][e] # None}

ASSUME SlugAssumption == DOMAIN Slug = Title
ASSUME IdHeadAssumption == DOMAIN IdHead = Entity
ASSUME NoneIsNothing ==
  None \notin Title \cup Entity \cup GoalRow \cup DecisionRow \cup ExperimentRow \cup NoteRow
ASSUME UuidsDiffer ==
  /\ Goal \cap (Decision \cup Experiment \cup Note) = {}
  /\ Decision \cap (Experiment \cup Note) = {}
  /\ Experiment \cap Note = {}
ASSUME TablesAreFinite == IsFiniteSet(Entity)
ASSUME StartAssumption == Start \subseteq Project
ASSUME BoundAssumption == MaxChanges \in Nat /\ MaxExports \in Nat /\ Stops \subseteq Nat

-----------------------------------------------------------------------------
(* Names of files, places in the tree, and relative links. *)

(* dir_of *)
DirOf(kind) ==
  CASE kind = "goal" -> "goals" [] kind = "decision" -> "decisions"
    [] kind = "experiment" -> "experiments" [] kind = "note" -> "notes"
    [] OTHER -> "misc"

(* Mutant: the stem is the slug alone. *)
FileStemPlain(title, e) == <<Slug[title], "">>

(* file_stem: the slug, which titles may share, and the head of the uuid,   *)
(* which uuids may share.                                                   *)
FileStem(title, e) == <<Slug[title], IdHead[e]>>

Place(dir, stem, format) == [dir |-> dir, stem |-> stem, format |-> format]
Root(name, format) == Place("", <<name, "">>, format)
Style == Place("assets", <<"styles", "">>, "css")

(* Mutant: a link to another directory does not leave its own. *)
PathDown(root, dir, stem, format) ==
  [up |-> FALSE, dir |-> IF root = dir THEN "" ELSE dir, stem |-> stem, format |-> format]

(* path_in, html_path: from a page in root to a stem in dir *)
PathIn(root, dir, stem, format) ==
  [up |-> root # "" /\ root # dir,
   dir |-> IF root = dir THEN "" ELSE dir, stem |-> stem, format |-> format]

(* Where a link on a page in dir leads: None when that is in a directory    *)
(* within a directory.                                                      *)
Target(dir, url) ==
  IF url.up \/ dir = "" THEN Place(url.dir, url.stem, url.format)
  ELSE IF url.dir = "" THEN Place(dir, url.stem, url.format)
  ELSE None

(* href *)
Href(root, kind, title, e, format) ==
  PathIn(root, DirOf(kind), FileStem(title, e), format)

(* entity_label and label, and the link made of them *)
LinkTo(p, root, e, format) == Href(root, KindOf(e), RowOf(p, e).title, e, format)

(* A foreign key, or a source, as a link: none if nothing is found. *)
LinkIfThere(p, root, e, format) ==
  IF Exists(p, e) THEN {LinkTo(p, root, e, format)} ELSE {}

-----------------------------------------------------------------------------
(* The renderers: the files of a project, in the order they are written.    *)

(* Mutant: only the links that begin at an entity are its references. *)
LinkedOneWay(p, e) == {f \in Entity : Exists(p, f) /\ <<e, f>> \in p.links}

(* references_for, list_related: what a link connects e to, if it is found  *)
Linked(p, e) ==
  {f \in Entity : Exists(p, f) /\ (<<e, f>> \in p.links \/ <<f, e>> \in p.links)}

(* story_chain, of the configured story: links by the kinds of the entries  *)
Chain(p, format) ==
  LET told(kind) == Rows(p, kind) \ p.hidden
      shown == {x \in told("experiment") :
                  p.experiment[x].decision \notin Rows(p, "decision") \cap p.hidden}
      goal == IF Cardinality(told("goal")) = 1 THEN told("goal") ELSE {}
      lessons == {x \in Rows(p, "experiment") : p.experiment[x].lesson # None}
  IN {LinkTo(p, "", e, format) : e \in goal \cup told("decision") \cup shown} \cup
     {Href("", "lesson", p.experiment[x].lesson, x, format) : x \in lessons}

Page(about, links) == [about |-> about, links |-> links]
File(place, page) == [at |-> place, page |-> page]

(* list_goals, list_decisions, list_experiments and list_notes *)
Records(p, format) == {LinkTo(p, "", e, format) : e \in {f \in Entity : Exists(p, f)}}

(* Every record of the project, and the story *)
Readme(p) == Page("README", Records(p, "md") \cup Chain(p, "md"))
IndexBody(p) == Page("index", Records(p, "html") \cup Chain(p, "html"))

(* goal_md, decision_md, experiment_md and note_md *)
MdPage(p, e) ==
  LET row == RowOf(p, e)
      dir == DirOf(KindOf(e))
      related == {LinkTo(p, dir, f, "md") : f \in Linked(p, e)}
      key(f) == LinkIfThere(p, dir, f, "md")
  IN Page(e, CASE e \in Goal -> {}
               [] e \in Decision -> key(row.goal) \cup related
               [] e \in Experiment -> key(row.goal) \cup key(row.decision) \cup related
               [] e \in Note -> key(row.source))

(* Related records are linked to as from the root. *)
ListRelated(p, e) == {LinkTo(p, "", f, "html") : f \in Linked(p, e)}

(* goal_page, decision_page, experiment_page and note_page *)
HtmlEntity(p, e) == Page(e, IF e \in Note THEN {} ELSE ListRelated(p, e))

EntityPage(p, e, format) == IF format = "md" THEN MdPage(p, e) ELSE HtmlEntity(p, e)

(* The file of a record *)
EntityFile(p, e, format) ==
  File(Place(DirOf(KindOf(e)), FileStem(RowOf(p, e).title, e), format),
       EntityPage(p, e, format))

(* The files of all records; the tables are listed last updated first, here *)
(* in any one order.                                                        *)
EntityFiles(p, format) ==
  LET files(kind) == SetToSeq({EntityFile(p, e, format) : e \in Rows(p, kind)})
  IN files("goal") \o files("decision") \o files("experiment") \o files("note")

(* nav: of its links, those to the three pages in the root *)
Nav(dir) ==
  {[up |-> dir # "", dir |-> "", stem |-> <<name, "">>, format |-> "html"] :
     name \in {"index", "timeline", "relationships"}}

(* render_markdown and render_html *)
Tree(p, format) ==
  LET root(page) == File(Root(page.about, format), page)
      index == IF format = "md" THEN Readme(p) ELSE IndexBody(p)
      style == IF format = "md" THEN <<>> ELSE <<File(Style, Page("styles", {}))>>
  IN style
     \o <<root(index), root(Page("timeline", {})), root(Page("relationships", {}))>>
     \o EntityFiles(p, format)

(* archive: the entries of a ZIP, which must not repeat *)
Archive(p) ==
  <<File(Root("project", "json"), Page("project", {})),
    File(Root("manifest", "json"), Page("manifest", {}))>>
  \o Tree(p, "md") \o Tree(p, "html")

Places(files) == {files[i].at : i \in DOMAIN files}

-----------------------------------------------------------------------------
(* The project changes, and exports are written.                            *)

VARIABLES
  project,   \* the tables, and the saved configuration
  used,      \* the uuids that have been given out
  disk,      \* the output directory: a function from places to pages
  job,       \* the export under way: its format, and its snapshot; or None
  tree,      \* by format: where the last export wrote, if it was completed
  changes,   \* counts to MaxChanges
  exports    \* counts to MaxExports

vars == <<project, used, disk, job, tree, changes, exports>>

TypeOK ==
  /\ project \in Project
  /\ {e \in Entity : Exists(project, e)} \subseteq used /\ used \subseteq Entity
  /\ \A at \in DOMAIN disk : disk[at].about \in Entity \cup
       {"README", "index", "timeline", "relationships", "styles"}
  /\ job # None => job.format \in Format /\ job.snapshot \in Project
  /\ \A f \in Format : tree[f] # None => tree[f] \subseteq DOMAIN disk
  /\ changes \in 0..MaxChanges /\ exports \in 0..MaxExports

Init ==
  /\ project \in Start
  /\ used = {e \in Entity : Exists(project, e)}
  /\ disk = [at \in {} |-> None]
  /\ job = None
  /\ tree = [f \in Format |-> None]
  /\ changes = 0 /\ exports = 0

Store(p) ==
  /\ changes < MaxChanges /\ changes' = changes + 1
  /\ p # project /\ project' = p
  /\ UNCHANGED <<disk, job, tree, exports>>

Change(p) == Store(p) /\ UNCHANGED used

Create(e, row) ==
  /\ e \notin used /\ used' = used \cup {e}
  /\ Store([project EXCEPT ![KindOf(e)][e] = row])

CreateAny(title) ==
  \/ \E g \in Goal : Create(g, [title |-> title])
  \/ \E d \in Decision, g \in Rows(project, "goal") \cup {None} :
       Create(d, [title |-> title, goal |-> g])
  \/ \E x \in Experiment, g \in Rows(project, "goal") \cup {None},
        d \in Rows(project, "decision") \cup {None} :
       Create(x, [title |-> title, goal |-> g, decision |-> d, lesson |-> None])
  \/ \E n \in Note, e \in Rows(project, "decision") \cup Rows(project, "experiment") \cup {None} :
       Create(n, [title |-> title, source |-> e])

Rename(e, title) ==
  /\ Exists(project, e)
  /\ Change([project EXCEPT ![KindOf(e)][e].title = title])

Learn(x, text) ==
  /\ Exists(project, x)
  /\ Change([project EXCEPT !.experiment[x].lesson = text])

(* A row goes: foreign keys to it are nulled; links and sources stay. *)
Delete(e) ==
  LET detach(row, key) == IF row # None /\ row[key] = e THEN [row EXCEPT ![key] = None] ELSE row
      gone == [project EXCEPT ![KindOf(e)][e] = None]
  IN /\ Exists(project, e)
     /\ Change([gone EXCEPT
          !.decision = [d \in Decision |-> detach(@[d], "goal")],
          !.experiment = [x \in Experiment |-> detach(detach(@[x], "goal"), "decision")]])

AddLink(e, f) ==
  /\ e # f
  /\ Change([project EXCEPT !.links = @ \cup {<<e, f>>}])

RemoveLink(l) == Change([project EXCEPT !.links = @ \ {l}])

(* set_story_config, of one record at a time; or a goal's status changes *)
Configure(e) ==
  Change([project EXCEPT !.hidden = IF e \in @ THEN @ \ {e} ELSE @ \cup {e}])

-----------------------------------------------------------------------------
(* export_cli::run *)

(* ... collect_project_snapshot *)
Collect(format) ==
  /\ job = None
  /\ exports < MaxExports /\ exports' = exports + 1
  /\ job' = [format |-> format, snapshot |-> project]
  /\ UNCHANGED <<project, used, disk, tree, changes>>

(* Mutant: the directory is emptied first. *)
WrittenFresh(files, n) ==
  [at \in Places(SubSeq(files, 1, n)) |->
     files[CHOOSE i \in 1..n : files[i].at = at].page]

(* The directory once the first n of some files are written over it. *)
Written(files, n) ==
  LET new == Places(SubSeq(files, 1, n))
      last(at) == CHOOSE i \in 1..n :
        files[i].at = at /\ \A k \in i+1..n : files[k].at # at
  IN [at \in DOMAIN disk \cup new |->
        IF at \in new THEN files[last(at)].page ELSE disk[at]]

(* ... get_story_config, the renderer, and write_tree, which may not come   *)
(* to its end: a file cannot be written, or the command is stopped          *)
WriteTree ==
  /\ job # None
  /\ LET p == [job.snapshot EXCEPT !.hidden = project.hidden]
         files == Tree(p, job.format)
     IN \E n \in {Len(files)} \cup (Stops \cap 0..Len(files)) :
          /\ disk' = Written(files, n)
          /\ tree' = [tree EXCEPT ![job.format] =
                        IF n = Len(files) THEN Places(files) ELSE None]
  /\ job' = None
  /\ UNCHANGED <<project, used, changes, exports>>

Next ==
  \/ \E title \in Title : CreateAny(title)
  \/ \E e \in Entity : Delete(e) \/ \E title \in Title : Rename(e, title)
  \/ \E x \in Experiment, text \in Title \cup {None} : Learn(x, text)
  \/ \E e, f \in used : AddLink(e, f)
  \/ \E l \in project.links : RemoveLink(l)
  \/ \E e \in used \ Note : Configure(e)
  \/ \E format \in Format : Collect(format)
  \/ WriteTree

Spec == Init /\ [][Next]_vars

-----------------------------------------------------------------------------
(* The links of the page at a place, with its navigation; and where they lead. *)
LinksAt(at) == disk[at].links \cup (IF at.format = "html" THEN Nav(at.dir) ELSE {})
Leads(at, url) == Target(at.dir, url)

(* The uuids of two records of one kind that begin alike; and two records   *)
(* of a project whose files have one name.                                  *)
Alike(e, f) == {e, f} \subseteq Entity /\ KindOf(e) = KindOf(f) /\ IdHead[e] = IdHead[f]
Namesakes(p, e, f) ==
  /\ e # f /\ Alike(e, f) /\ Exists(p, e) /\ Exists(p, f)
  /\ Slug[RowOf(p, e).title] = Slug[RowOf(p, f).title]

(* What a place tells of its page: its subject in the root and the assets,  *)
(* and of a record its kind and how its uuid begins.                        *)
Tells(at, about) ==
  IF at.dir \in {"", "assets"} THEN about = at.stem[1]
  ELSE about \in Entity /\ at.dir = DirOf(KindOf(about)) /\ at.stem[2] = IdHead[about]

(* After a completed export the links of the tree lead to pages the same    *)
(* export wrote, each about what the link is for as far as the link tells   *)
(* (the kind and the head of the uuid), whatever was renamed or deleted and *)
(* still lies in the directory, and whatever the export of the other format *)
(* wrote: every link of a Markdown page, every link of the site's root and  *)
(* the navigation of all its pages.  Left out are the links to lessons,     *)
(* which have no page, and the related records on the site's other pages,   *)
(* which are linked to as from the root.                                    *)
TreeIsClosed ==
  \A format \in Format : tree[format] # None =>
    \A at \in tree[format] :
      \A url \in IF format = "md" \/ at.dir = "" THEN LinksAt(at) ELSE Nav(at.dir) :
        url.dir # "misc" =>
          /\ Leads(at, url) \in tree[format]
          /\ Tells(Leads(at, url), disk[Leads(at, url)].about)

(* An archive has an entry twice, which the ZIP writer refuses, exactly if  *)
(* the project has namesakes: two records of one kind, with one slug, whose *)
(* uuids begin alike (model.rs calls the stem unique).  Of anything else in *)
(* the tables no two files meet: not those of two kinds, formats or titles, *)
(* and not a record's with a page of the root.                              *)
ArchivePacks ==
  job # None =>
    LET p == job.snapshot  files == Archive(p) IN
    (\A i, j \in DOMAIN files : files[i].at = files[j].at => i = j)
      <=> ~ \E e, f \in Entity : Namesakes(p, e, f)

(* A page in the directory is never removed, and never overwritten by a     *)
(* page about something else, through renaming, deleting, and exports that  *)
(* break off, but by that of a record of the same kind whose uuid begins    *)
(* alike.                                                                   *)
PagesKeepTheirSubject ==
  [][\A at \in DOMAIN disk :
       /\ at \in DOMAIN disk'
       /\ \/ disk'[at].about = disk[at].about
          \/ Alike(disk[at].about, disk'[at].about)]_disk

(* What a page of a decision or an experiment says of its links the other   *)
(* page says too, in either format: "so a decision page points at the       *)
(* experiment that validated it and vice versa" (references_for).           *)
CrossReferencesAgree ==
  job # None => \A l \in job.snapshot.links :
    LET p == job.snapshot
        cites(e, f) == \E dir \in {"", DirOf(KindOf(e))} :
          LinkTo(p, dir, f, job.format) \in EntityPage(p, e, job.format).links
    IN /\ {l[1], l[2]} \subseteq Decision \cup Experiment
       /\ Exists(p, l[1]) /\ Exists(p, l[2])
       => cites(l[1], l[2]) /\ cites(l[2], l[1])

=============================================================================

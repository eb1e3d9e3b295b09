------------------------------ MODULE SiteProofs ------------------------------
(***************************************************************************)
(* Theorems about Site, for any tables, titles, slugs and numbers of       *)
(* changes and exports, whichever uuids begin alike.  First what the       *)
(* renderers make of a project: only namesakes' files share a place, each  *)
(* place tells what its page is about, as far as a name does, and links    *)
(* lead from file to file.  Then what of it lasts in the directory: a      *)
(* completed tree still has a page as rendered at each of its places,      *)
(* however often the other format was written over it since.               *)
(***************************************************************************)
EXTENDS Site, FiniteSetTheorems, WellFoundedInduction, TLAPS

(* A finite set as a sequence. *)
LEMMA Enumerated ==
  ASSUME NEW S, IsFiniteSet(S)
  PROVE  LET s == SetToSeq(S) IN
         /\ s \in Seq(S) /\ ToSet(s) = S
         /\ \A i, j \in DOMAIN s : s[i] = s[j] => i = j
<1> DEFINE s == SetToSeq(S)  n == Cardinality(S)
<1>1. n \in Nat /\ ExistsBijection(1..n, S)
  BY FS_CardinalityType
<1>2. \E f \in [1..n -> S] : IsInjective(f)
  BY <1>1 DEF ExistsBijection, Bijection, Injection
<1>3. s \in [1..n -> S] /\ IsInjective(s)
  BY <1>2 DEF SetToSeq
<1> HIDE DEF s
<1>4. s \in Injection(1..n, S)
  BY <1>3 DEF Injection
<1>5. Cardinality(1..n) = n
  BY <1>1, FS_Interval
<1>6. s \in Surjection(1..n, S)
  BY <1>4, <1>5, FS_Injection
<1>7. s \in Seq(S) /\ DOMAIN s = 1..n
  BY <1>1, <1>3
<1>8. ToSet(s) = S
  BY <1>6, <1>7 DEF ToSet, Surjection
<1>. QED  BY <1>3, <1>7, <1>8 DEF s, IsInjective

(* Files that follow each other, of which only namesakes' share a place. *)
Apart(p, files) ==
  \A i, j \in DOMAIN files : files[i].at = files[j].at =>
    i = j \/ Namesakes(p, files[i].page.about, files[j].page.about)

LEMMA Concatenated ==
  ASSUME NEW p, NEW A, NEW s \in Seq(A), NEW t \in Seq(A), Apart(p, s), Apart(p, t),
         \A f \in ToSet(s), g \in ToSet(t) : f.at # g.at
  PROVE  s \o t \in Seq(A) /\ ToSet(s \o t) = ToSet(s) \cup ToSet(t) /\ Apart(p, s \o t)
<1>1. /\ s \o t \in Seq(A) /\ DOMAIN (s \o t) = 1..(Len(s) + Len(t))
      /\ \A i \in 1..Len(s) : (s \o t)[i] = s[i]
      /\ \A i \in 1..Len(t) : (s \o t)[Len(s) + i] = t[i]
      /\ DOMAIN s = 1..Len(s) /\ DOMAIN t = 1..Len(t)
      /\ Len(s) \in Nat /\ Len(t) \in Nat
  OBVIOUS
<1>2. ASSUME NEW i \in 1..(Len(s) + Len(t))
      PROVE  \/ i \in 1..Len(s) /\ (s \o t)[i] = s[i]
             \/ /\ i - Len(s) \in 1..Len(t) /\ (s \o t)[i] = t[i - Len(s)]
                /\ i = Len(s) + (i - Len(s))
  BY <1>1
<1>3. ToSet(s \o t) = ToSet(s) \cup ToSet(t)
  <2>1. ToSet(s \o t) \subseteq ToSet(s) \cup ToSet(t)
    BY <1>1, <1>2 DEF ToSet
  <2>2. ToSet(s) \subseteq ToSet(s \o t)
    BY <1>1 DEF ToSet
  <2>3. ASSUME NEW i \in 1..Len(t) PROVE t[i] \in ToSet(s \o t)
    <3>1. Len(s) + i \in DOMAIN (s \o t)
      BY <1>1
    <3>. QED  BY <1>1, <3>1 DEF ToSet
  <2>. QED  BY <1>1, <2>1, <2>2, <2>3 DEF ToSet
<1>4. ASSUME NEW i \in DOMAIN (s \o t), NEW j \in DOMAIN (s \o t),
             (s \o t)[i].at = (s \o t)[j].at
      PROVE  i = j \/ Namesakes(p, (s \o t)[i].page.about, (s \o t)[j].page.about)
  <2>1. \A k \in 1..Len(s) : s[k] \in ToSet(s)
    BY <1>1 DEF ToSet
  <2>2. \A k \in 1..Len(t) : t[k] \in ToSet(t)
    BY <1>1 DEF ToSet
  <2>3. CASE (s \o t)[i] = s[i] /\ i \in 1..Len(s)
    <3>1. CASE (s \o t)[j] = s[j] /\ j \in 1..Len(s)
      <4>1. i \in DOMAIN s /\ j \in DOMAIN s /\ s[i].at = s[j].at
        BY <1>1, <1>4, <2>3, <3>1
      <4>2. i = j \/ Namesakes(p, s[i].page.about, s[j].page.about)
        BY <4>1 DEF Apart
      <4>. QED  BY <2>3, <3>1, <4>2
    <3>2. CASE j - Len(s) \in 1..Len(t) /\ (s \o t)[j] = t[j - Len(s)]
      BY <1>4, <2>1, <2>2, <2>3, <3>2
    <3>. QED  BY <1>1, <1>2, <3>1, <3>2
  <2>4. CASE i - Len(s) \in 1..Len(t) /\ (s \o t)[i] = t[i - Len(s)]
    <3>1. CASE (s \o t)[j] = s[j] /\ j \in 1..Len(s)
      BY <1>4, <2>1, <2>2, <2>4, <3>1
    <3>2. CASE j - Len(s) \in 1..Len(t) /\ (s \o t)[j] = t[j - Len(s)]
      <4> DEFINE k == i - Len(s)  l == j - Len(s)
      <4>1. k \in DOMAIN t /\ l \in DOMAIN t /\ t[k].at = t[l].at
        BY <1>1, <1>4, <2>4, <3>2
      <4>2. (s \o t)[i] = t[k] /\ (s \o t)[j] = t[l]
        BY <2>4, <3>2
      <4>3. k = l => i = j
        BY <1>1
      <4> HIDE DEF k, l
      <4>4. k = l \/ Namesakes(p, t[k].page.about, t[l].page.about)
        BY <4>1 DEF Apart
      <4>. QED  BY <4>2, <4>3, <4>4
    <3>. QED  BY <1>1, <1>2, <3>1, <3>2
  <2>. QED  BY <1>1, <1>2, <2>3, <2>4
<1>. QED  BY <1>1, <1>3, <1>4 DEF Apart

-----------------------------------------------------------------------------
(* What is rendered.                                                        *)
Kind == {"goal", "decision", "experiment", "note"}

LEMMA RowsByKind ==
  ASSUME NEW p \in Project
  PROVE  /\ Rows(p, "goal") = {e \in Goal : p.goal[e] # None}
         /\ Rows(p, "decision") = {e \in Decision : p.decision[e] # None}
         /\ Rows(p, "experiment") = {e \in Experiment : p.experiment[e] # None}
         /\ Rows(p, "note") = {e \in Note : p.note[e] # None}
BY DEF Rows, Project

LEMMA KindByTable ==
  /\ \A e \in Goal : KindOf(e) = "goal"
  /\ \A e \in Decision : KindOf(e) = "decision"
  /\ \A e \in Experiment : KindOf(e) = "experiment"
  /\ \A e \in Note : KindOf(e) = "note"
BY UuidsDiffer DEF KindOf

(* A row of a table, and the row of an entity that exists. *)
LEMMA RowsExist ==
  ASSUME NEW p \in Project
  PROVE  /\ \A kind \in Kind : \A e \in Rows(p, kind) :
              /\ e \in Entity /\ Exists(p, e) /\ KindOf(e) = kind
         /\ \A e \in Entity : Exists(p, e) => KindOf(e) \in Kind /\ e \in Rows(p, KindOf(e))
<1>1. ASSUME NEW kind \in Kind, NEW e \in Rows(p, kind)
      PROVE  e \in Entity /\ Exists(p, e) /\ KindOf(e) = kind
  <2>1. e \in Entity /\ KindOf(e) = kind
    BY <1>1, RowsByKind, KindByTable DEF Kind, Entity
  <2>. QED  BY <1>1, <2>1, NoneIsNothing DEF Exists, RowOf, Rows
<1>2. ASSUME NEW e \in Entity, Exists(p, e)
      PROVE  KindOf(e) \in Kind /\ e \in Rows(p, KindOf(e))
  <2>1. KindOf(e) \in Kind /\ e \in DOMAIN p[KindOf(e)]
    BY KindByTable DEF Kind, Entity, Project
  <2>. QED  BY <1>2, <2>1 DEF Exists, RowOf, Rows
<1>. QED  BY <1>1, <1>2

(* What is known of a row. *)
LEMMA RowTypes ==
  ASSUME NEW p \in Project, NEW e \in Entity, Exists(p, e)
  PROVE  /\ RowOf(p, e).title \in Title
         /\ e \in Decision => RowOf(p, e) \in DecisionRow
         /\ e \in Experiment => RowOf(p, e) \in ExperimentRow
         /\ e \in Note => RowOf(p, e) \in NoteRow
BY KindByTable DEF Exists, RowOf, Entity, Project, GoalRow, DecisionRow, ExperimentRow, NoteRow

LEMMA Directories ==
  /\ \A kind \in Kind : DirOf(kind) \notin {"", "assets", "misc"}
  /\ \A k, l \in Kind : DirOf(k) = DirOf(l) => k = l
BY DEF Kind, DirOf

(* The place of a record, and what it tells of the page. *)
RecordPlace(p, e, format) ==
  Place(DirOf(KindOf(e)), FileStem(RowOf(p, e).title, e), format)

LEMMA RecordFile ==
  ASSUME NEW p \in Project, NEW e \in Entity, NEW format \in Format
  PROVE  LET f == EntityFile(p, e, format) IN
         /\ f.at = RecordPlace(p, e, format)
         /\ f.at.dir = DirOf(KindOf(e)) /\ f.at.format = format /\ f.at.stem[2] = IdHead[e]
         /\ f.at.stem[1] = Slug[RowOf(p, e).title]
         /\ f.page = EntityPage(p, e, format) /\ f.page.about = e
BY DEF EntityFile, File, RecordPlace, Place, FileStem, EntityPage, MdPage, HtmlEntity, Page

(* The files of a tree as a set: those in the root, and a file for each row.*)
RootFiles(p, format) ==
  LET root(page) == File(Root(page.about, format), page) IN
  {root(IF format = "md" THEN Readme(p) ELSE IndexBody(p)),
   root(Page("timeline", {})), root(Page("relationships", {}))}
StyleFiles(format) == IF format = "md" THEN {} ELSE {File(Style, Page("styles", {}))}
RowFiles(p, kind, format) == {EntityFile(p, e, format) : e \in Rows(p, kind)}
TreeFiles(p, format) ==
  StyleFiles(format) \cup RootFiles(p, format)
    \cup RowFiles(p, "goal", format) \cup RowFiles(p, "decision", format)
    \cup RowFiles(p, "experiment", format) \cup RowFiles(p, "note", format)

LEMMA RowFilesInOrder ==
  ASSUME NEW p \in Project, NEW format \in Format, NEW kind \in Kind
  PROVE  LET s == SetToSeq(RowFiles(p, kind, format)) IN
         s \in Seq(TreeFiles(p, format)) /\ ToSet(s) = RowFiles(p, kind, format) /\ Apart(p, s)
<1> DEFINE S == RowFiles(p, kind, format)  s == SetToSeq(S)
<1>1. \A e \in Rows(p, kind) : e \in Entity /\ KindOf(e) = kind
  BY RowsExist
<1>2. IsFiniteSet(Rows(p, kind))
  <2>1. Rows(p, kind) \in SUBSET Entity
    BY <1>1
  <2>. QED  BY <2>1, TablesAreFinite, FS_Subset
<1>3. IsFiniteSet(S)
  <2> DEFINE file == [e \in Rows(p, kind) |-> EntityFile(p, e, format)]
  <2>1. file \in Surjection(Rows(p, kind), S)
    BY DEF Surjection, RowFiles
  <2>. QED  BY <1>2, <2>1, FS_Surjection
<1>4. s \in Seq(S) /\ ToSet(s) = S /\ \A i, j \in DOMAIN s : s[i] = s[j] => i = j
  BY <1>3, Enumerated
<1>5. ASSUME NEW f \in S, NEW g \in S, f.at = g.at
      PROVE  f = g \/ Namesakes(p, f.page.about, g.page.about)
  <2>1. PICK e \in Rows(p, kind) : f = EntityFile(p, e, format)
    BY DEF RowFiles
  <2>2. PICK d \in Rows(p, kind) : g = EntityFile(p, d, format)
    BY DEF RowFiles
  <2>3. /\ f.page.about = e /\ g.page.about = d /\ IdHead[e] = IdHead[d]
        /\ Slug[RowOf(p, e).title] = Slug[RowOf(p, d).title]
    BY <1>1, <1>5, <2>1, <2>2, RecordFile
  <2>4. {e, d} \subseteq Entity /\ KindOf(e) = KindOf(d) /\ Exists(p, e) /\ Exists(p, d)
    BY RowsExist
  <2>. QED  BY <2>1, <2>2, <2>3, <2>4 DEF Namesakes, Alike
<1> HIDE DEF s
<1>6. \A i \in DOMAIN s : s[i] \in S
  BY <1>4
<1>7. Apart(p, s)
  BY <1>4, <1>5, <1>6 DEF Apart
<1>8. S \subseteq TreeFiles(p, format)
  BY DEF TreeFiles, Kind
<1>9. s \in Seq(TreeFiles(p, format))
  BY <1>4, <1>8
<1>. QED  BY <1>4, <1>7, <1>9 DEF s

(* Where the files of each part are. *)
LEMMA RowPlaces ==
  ASSUME NEW p \in Project, NEW format \in Format, NEW kind \in Kind,
         NEW f \in RowFiles(p, kind, format)
  PROVE  f.at.dir = DirOf(kind) /\ f.at.format = format
<1>1. PICK e \in Rows(p, kind) : f = EntityFile(p, e, format)
  BY DEF RowFiles
<1>2. e \in Entity /\ KindOf(e) = kind
  BY RowsExist
<1>. QED  BY <1>1, <1>2, RecordFile

LEMMA PartPlaces ==
  ASSUME NEW p \in Project, NEW format \in Format
  PROVE  /\ \A f \in StyleFiles(format) : f.at.dir = "assets" /\ f.at.format = "css"
         /\ \A f \in RootFiles(p, format) : f.at.dir = "" /\ f.at.format = format
<1>2. \A f \in StyleFiles(format) : f.at.dir = "assets" /\ f.at.format = "css"
  <2>1. Style.dir = "assets" /\ Style.format = "css"
    BY DEF Style, Place
  <2>2. \A f \in StyleFiles(format) : f.at = Style
    BY DEF StyleFiles, File
  <2>. QED  BY <2>1, <2>2
<1>3. ASSUME NEW page
      PROVE  LET f == File(Root(page.about, format), page) IN
             f.at.dir = "" /\ f.at.format = format
  BY DEF File, Root, Place
<1>4. \A f \in RootFiles(p, format) : f.at.dir = "" /\ f.at.format = format
  BY <1>3 DEF RootFiles
<1>. QED  BY <1>2, <1>4

LEMMA StyleInOrder ==
  ASSUME NEW p, NEW A, NEW format \in Format, StyleFiles(format) \subseteq A
  PROVE  LET s == IF format = "md" THEN <<>> ELSE <<File(Style, Page("styles", {}))>> IN
         s \in Seq(A) /\ ToSet(s) = StyleFiles(format) /\ Apart(p, s)
<1>1. CASE format = "md"
  BY <1>1 DEF StyleFiles, ToSet, Apart
<1>2. CASE format # "md"
  <2> DEFINE f == File(Style, Page("styles", {}))  s == <<f>>
  <2>1. f \in A /\ StyleFiles(format) = {f}
    BY <1>2 DEF StyleFiles
  <2>2. s \in Seq(A) /\ DOMAIN s = {1} /\ s[1] = f
    BY <2>1
  <2>. QED  BY <1>2, <2>1, <2>2 DEF ToSet, Apart
<1>. QED  BY <1>1, <1>2

LEMMA RootsInOrder ==
  ASSUME NEW A, NEW p, NEW format \in Format, RootFiles(p, format) \subseteq A
  PROVE  LET root(page) == File(Root(page.about, format), page)
             index == IF format = "md" THEN Readme(p) ELSE IndexBody(p)
             s == <<root(index), root(Page("timeline", {})), root(Page("relationships", {}))>>
         IN s \in Seq(A) /\ ToSet(s) = RootFiles(p, format) /\ Apart(p, s)
<1> DEFINE root(page) == File(Root(page.about, format), page)
           index == IF format = "md" THEN Readme(p) ELSE IndexBody(p)
           a == root(index)
           b == root(Page("timeline", {}))
           c == root(Page("relationships", {}))
           s == <<a, b, c>>
<1>1. RootFiles(p, format) = {a, b, c}
  BY DEF RootFiles
<1>2. /\ a.at.stem[1] \in {"README", "index"} /\ b.at.stem[1] = "timeline"
      /\ c.at.stem[1] = "relationships"
  BY DEF File, Root, Place, Page, Readme, IndexBody
<1> HIDE DEF a, b, c
<1>3. s \in Seq(A) /\ DOMAIN s = {1, 2, 3} /\ s[1] = a /\ s[2] = b /\ s[3] = c
  <2>1. a \in A /\ b \in A /\ c \in A
    BY <1>1
  <2>2. 1..3 = {1, 2, 3}
    OBVIOUS
  <2>. QED  BY <2>1, <2>2
<1>4. a.at # b.at /\ a.at # c.at /\ b.at # c.at
  BY <1>2
<1> HIDE DEF s
<1>5. ToSet(s) = {a, b, c} /\ Apart(p, s)
  BY <1>3, <1>4 DEF ToSet, Apart
<1>. QED  BY <1>1, <1>3, <1>5 DEF s, a, b, c

(* Every tree is its files, of which only namesakes' share a place.         *)
LEMMA TreeInOrder ==
  ASSUME NEW p \in Project, NEW format \in Format
  PROVE  /\ Tree(p, format) \in Seq(TreeFiles(p, format))
         /\ ToSet(Tree(p, format)) = TreeFiles(p, format)
         /\ Apart(p, Tree(p, format))
<1> DEFINE A == TreeFiles(p, format)
           root(page) == File(Root(page.about, format), page)
           index == IF format = "md" THEN Readme(p) ELSE IndexBody(p)
           s0 == IF format = "md" THEN <<>> ELSE <<File(Style, Page("styles", {}))>>
           s1 == <<root(index), root(Page("timeline", {})), root(Page("relationships", {}))>>
           r(kind) == SetToSeq(RowFiles(p, kind, format))
<1>1. s0 \in Seq(A) /\ ToSet(s0) = StyleFiles(format) /\ Apart(p, s0)
  <2>1. StyleFiles(format) \subseteq A
    BY DEF TreeFiles
  <2>. QED  BY <2>1, StyleInOrder
<1>2. s1 \in Seq(A) /\ ToSet(s1) = RootFiles(p, format) /\ Apart(p, s1)
  <2>1. RootFiles(p, format) \subseteq A
    BY DEF TreeFiles
  <2>. QED  BY <2>1, RootsInOrder
<1>3. \A kind \in Kind :
        r(kind) \in Seq(A) /\ ToSet(r(kind)) = RowFiles(p, kind, format) /\ Apart(p, r(kind))
  BY RowFilesInOrder
<1>4. Tree(p, format) =
        s0 \o s1 \o (r("goal") \o r("decision") \o r("experiment") \o r("note"))
  BY DEF Tree, EntityFiles, RowFiles
<1> DEFINE g == r("goal")  d == r("decision")  x == r("experiment")  n == r("note")
<1>5. /\ g \in Seq(A) /\ d \in Seq(A) /\ x \in Seq(A) /\ n \in Seq(A)
      /\ Apart(p, g) /\ Apart(p, d) /\ Apart(p, x) /\ Apart(p, n)
      /\ ToSet(g) = RowFiles(p, "goal", format) /\ ToSet(d) = RowFiles(p, "decision", format)
      /\ ToSet(x) = RowFiles(p, "experiment", format) /\ ToSet(n) = RowFiles(p, "note", format)
  BY <1>3 DEF Kind
<1>6. /\ \A f \in ToSet(s0) : f.at.dir = "assets"
      /\ \A f \in ToSet(s1) : f.at.dir = ""
      /\ \A f \in ToSet(g) : f.at.dir = "goals"
      /\ \A f \in ToSet(d) : f.at.dir = "decisions"
      /\ \A f \in ToSet(x) : f.at.dir = "experiments"
      /\ \A f \in ToSet(n) : f.at.dir = "notes"
  <2>1. /\ \A f \in StyleFiles(format) : f.at.dir = "assets"
        /\ \A f \in RootFiles(p, format) : f.at.dir = ""
        /\ \A kind \in Kind : \A f \in RowFiles(p, kind, format) : f.at.dir = DirOf(kind)
    <3>1. ASSUME NEW f \in StyleFiles(format) PROVE f.at.dir = "assets"
      BY PartPlaces
    <3>2. ASSUME NEW f \in RootFiles(p, format) PROVE f.at.dir = ""
      BY PartPlaces
    <3>3. ASSUME NEW kind \in Kind, NEW f \in RowFiles(p, kind, format)
          PROVE  f.at.dir = DirOf(kind)
      BY RowPlaces
    <3>. QED  BY <3>1, <3>2, <3>3
  <2>2. /\ DirOf("goal") = "goals" /\ DirOf("decision") = "decisions"
        /\ DirOf("experiment") = "experiments" /\ DirOf("note") = "notes"
    BY DEF DirOf
  <2>3. {"goal", "decision", "experiment", "note"} \subseteq Kind
    BY DEF Kind
  <2> HIDE DEF g, d, x, n, s0, s1
  <2>. QED  BY <1>1, <1>2, <1>5, <2>1, <2>2, <2>3
<1> HIDE DEF A, s0, s1, g, d, x, n
<1> DEFINE top == s0 \o s1  gd == g \o d  gdx == gd \o x  e == gdx \o n
<1>7. top \in Seq(A) /\ ToSet(top) = ToSet(s0) \cup ToSet(s1) /\ Apart(p, top)
  <2>1. \A f \in ToSet(s0), h \in ToSet(s1) : f.at # h.at
    BY <1>6
  <2>. QED  BY <1>1, <1>2, <2>1, Concatenated
<1>8. gd \in Seq(A) /\ ToSet(gd) = ToSet(g) \cup ToSet(d) /\ Apart(p, gd)
  <2>1. \A f \in ToSet(g), h \in ToSet(d) : f.at # h.at
    BY <1>6
  <2>. QED  BY <1>5, <2>1, Concatenated
<1> HIDE DEF top, gd
<1>9. gdx \in Seq(A) /\ ToSet(gdx) = ToSet(gd) \cup ToSet(x) /\ Apart(p, gdx)
  <2>1. \A f \in ToSet(gd), h \in ToSet(x) : f.at # h.at
    BY <1>6, <1>8
  <2>. QED  BY <1>5, <1>8, <2>1, Concatenated
<1> HIDE DEF gdx
<1>10. e \in Seq(A) /\ ToSet(e) = ToSet(gdx) \cup ToSet(n) /\ Apart(p, e)
  <2>1. \A f \in ToSet(gdx), h \in ToSet(n) : f.at # h.at
    BY <1>6, <1>8, <1>9
  <2>. QED  BY <1>5, <1>9, <2>1, Concatenated
<1> HIDE DEF e
<1>12. /\ top \o e \in Seq(A) /\ ToSet(top \o e) = ToSet(top) \cup ToSet(e)
       /\ Apart(p, top \o e)
  <2>1. \A f \in ToSet(top), h \in ToSet(e) : f.at # h.at
    BY <1>6, <1>7, <1>8, <1>9, <1>10
  <2>. QED  BY <1>7, <1>10, <2>1, Concatenated
<1>13. Tree(p, format) = top \o e
  BY <1>4 DEF top, e, gdx, gd, s0, s1, g, d, x, n
<1>14. ToSet(top \o e) = A
  <2>1. ToSet(s0) = StyleFiles(format) /\ ToSet(s1) = RootFiles(p, format)
    BY <1>1, <1>2
  <2>. QED  BY <1>5, <1>7, <1>8, <1>9, <1>10, <1>12, <2>1 DEF TreeFiles, A
<1>. QED  BY <1>12, <1>13, <1>14 DEF A

-----------------------------------------------------------------------------
(* What a file of a tree is. *)
LEMMA FileOfTree ==
  ASSUME NEW p \in Project, NEW format \in Format
  PROVE  /\ \A f \in TreeFiles(p, format) :
              \/ f \in StyleFiles(format) \/ f \in RootFiles(p, format)
              \/ \E e \in Entity : Exists(p, e) /\ f = EntityFile(p, e, format)
         /\ \A e \in Entity : Exists(p, e) => EntityFile(p, e, format) \in TreeFiles(p, format)
<1>1. ASSUME NEW kind \in Kind, NEW f \in RowFiles(p, kind, format)
      PROVE  \E e \in Entity : Exists(p, e) /\ f = EntityFile(p, e, format)
  BY RowsExist DEF RowFiles
<1>2. ASSUME NEW e \in Entity, Exists(p, e)
      PROVE  EntityFile(p, e, format) \in TreeFiles(p, format)
  <2>1. KindOf(e) \in Kind /\ e \in Rows(p, KindOf(e))
    BY <1>2, RowsExist
  <2>2. EntityFile(p, e, format) \in RowFiles(p, KindOf(e), format)
    BY <2>1 DEF RowFiles
  <2>. QED  BY <2>1, <2>2 DEF TreeFiles, Kind
<1>. QED  BY <1>1, <1>2 DEF TreeFiles, Kind

LEMMA RootPage ==
  ASSUME NEW page, NEW format
  PROVE  LET f == File(Root(page.about, format), page) IN
         /\ f.at = Root(page.about, format) /\ f.page = page
         /\ f.at.dir = "" /\ f.at.format = format
         /\ f.at.stem[1] = page.about
BY DEF File, Root, Place

LEMMA AboutPages ==
  \A p : /\ Readme(p).about = "README" /\ IndexBody(p).about = "index"
         /\ Page("timeline", {}).about = "timeline"
         /\ Page("relationships", {}).about = "relationships"
         /\ Page("timeline", {}).links = {} /\ Page("relationships", {}).links = {}
         /\ Page("styles", {}).about = "styles"
BY DEF Readme, IndexBody, Page

(* What a page is about bears with its place. *)
LEMMA TellsSubject ==
  ASSUME NEW p \in Project, NEW format \in Format, NEW f \in TreeFiles(p, format)
  PROVE  /\ Tells(f.at, f.page.about)
         /\ f.page.about \in Entity \cup
              {"README", "index", "timeline", "relationships", "styles"}
<1>1. CASE f \in StyleFiles(format)
  <2>1. f.at = Style /\ f.page = Page("styles", {})
    BY <1>1 DEF StyleFiles, File
  <2>2. Style.dir = "assets" /\ Style.stem[1] = "styles"
    BY DEF Style, Place
  <2>. QED  BY <2>1, <2>2, AboutPages DEF Tells
<1>2. CASE f \in RootFiles(p, format)
  <2>1. PICK page \in {Readme(p), IndexBody(p), Page("timeline", {}), Page("relationships", {})} :
          f = File(Root(page.about, format), page)
    BY <1>2 DEF RootFiles
  <2>2. f.page = page /\ f.at.dir = "" /\ f.at.stem[1] = page.about
    BY <2>1, RootPage
  <2>. QED  BY <2>2, AboutPages DEF Tells
<1>3. ASSUME NEW e \in Entity, Exists(p, e), f = EntityFile(p, e, format)
      PROVE  Tells(f.at, f.page.about) /\ f.page.about = e
  <2>1. DirOf(KindOf(e)) \notin {"", "assets"}
    BY <1>3, RowsExist, Directories
  <2>2. /\ f.at.dir = DirOf(KindOf(e)) /\ f.at.stem[2] = IdHead[e] /\ f.page.about = e
    BY <1>3, RecordFile
  <2>. QED  BY <2>1, <2>2 DEF Tells
<1>. QED  BY <1>1, <1>2, <1>3, FileOfTree

-----------------------------------------------------------------------------
(* Links.  From whichever directory, a link to a record leads to its file.  *)
LEMMA LinkLeads ==
  ASSUME NEW p \in Project, NEW e \in Entity, Exists(p, e), NEW format \in Format,
         NEW root
  PROVE  LET url == LinkTo(p, root, e, format) IN
         Target(root, url) = RecordPlace(p, e, format)
<1> DEFINE dir == DirOf(KindOf(e))  stem == FileStem(RowOf(p, e).title, e)
           url == LinkTo(p, root, e, format)
<1>1. dir # ""
  BY RowsExist, Directories
<1>2. url = [up |-> root # "" /\ root # dir, dir |-> IF root = dir THEN "" ELSE dir,
             stem |-> stem, format |-> format]
  BY DEF LinkTo, Href, PathIn
<1>3. RecordPlace(p, e, format) = Place(dir, stem, format)
  BY DEF RecordPlace
<1> HIDE DEF dir, stem, url
<1>6. ASSUME root = "" PROVE Target(root, url) = Place(dir, stem, format)
  <2>1. url = [up |-> FALSE, dir |-> dir, stem |-> stem, format |-> format]
    BY <1>1, <1>2, <1>6
  <2>. QED  BY <1>6, <2>1 DEF Target
<1>7. ASSUME root # "", root = dir
      PROVE  Target(root, url) = Place(dir, stem, format)
  <2>1. url = [up |-> FALSE, dir |-> "", stem |-> stem, format |-> format]
    BY <1>2, <1>7
  <2>. QED  BY <1>7, <2>1 DEF Target
<1>8. ASSUME root # "", root # dir
      PROVE  Target(root, url) = Place(dir, stem, format)
  <2>1. url = [up |-> TRUE, dir |-> dir, stem |-> stem, format |-> format]
    BY <1>2, <1>8
  <2>. QED  BY <2>1 DEF Target
<1>. QED  BY <1>3, <1>6, <1>7, <1>8 DEF url

(* The navigation leads to pages of the root. *)
LEMMA NavLeads ==
  ASSUME NEW p \in Project, NEW dir, NEW url \in Nav(dir)
  PROVE  \E g \in TreeFiles(p, "html") : g.at = Target(dir, url)
<1>1. PICK name \in {"index", "timeline", "relationships"} :
        url = [up |-> dir # "", dir |-> "", stem |-> <<name, "">>, format |-> "html"]
  BY DEF Nav
<1>2. Target(dir, url) = Root(name, "html")
  BY <1>1 DEF Target, Root
<1>3. PICK page \in {IndexBody(p), Page("timeline", {}), Page("relationships", {})} :
        page.about = name
  BY AboutPages
<1>4. File(Root(page.about, "html"), page) \in RootFiles(p, "html")
  BY <1>3 DEF RootFiles
<1>5. File(Root(page.about, "html"), page) \in TreeFiles(p, "html")
  BY <1>4 DEF TreeFiles
<1>6. /\ File(Root(page.about, "html"), page).at = Root(name, "html")
      /\ File(Root(page.about, "html"), page).page = page
  BY <1>3 DEF File
<1>. QED  BY <1>2, <1>3, <1>5, <1>6

LEMMA MdLinks ==
  ASSUME NEW p \in Project, NEW e \in Entity, Exists(p, e), NEW url \in MdPage(p, e).links
  PROVE  \E f \in Entity : Exists(p, f) /\ url = LinkTo(p, DirOf(KindOf(e)), f, "md")
<1> DEFINE row == RowOf(p, e)
           dir == DirOf(KindOf(e))
           related == {LinkTo(p, dir, f, "md") : f \in Linked(p, e)}
           key(f) == LinkIfThere(p, dir, f, "md")
<1>1. MdPage(p, e).links =
        CASE e \in Goal -> {}
          [] e \in Decision -> key(row.goal) \cup related
          [] e \in Experiment -> key(row.goal) \cup key(row.decision) \cup related
          [] e \in Note -> key(row.source)
  BY DEF MdPage, Page
<1>2. /\ e \in Decision => row.goal \in Entity \cup {None}
      /\ e \in Experiment =>
           row.goal \in Entity \cup {None} /\ row.decision \in Entity \cup {None}
      /\ e \in Note => row.source \in Entity \cup {None}
  BY RowTypes DEF DecisionRow, ExperimentRow, NoteRow, Entity
<1>3. \A f \in Entity \cup {None} : \A u \in key(f) :
        f \in Entity /\ Exists(p, f) /\ u = LinkTo(p, dir, f, "md")
  BY DEF LinkIfThere, Exists
<1>4. \A u \in related : \E f \in Entity : Exists(p, f) /\ u = LinkTo(p, dir, f, "md")
  BY DEF Linked
<1> HIDE DEF key, related, row
<1>5. CASE e \in Goal
  BY <1>1, <1>5, UuidsDiffer
<1>6. CASE e \in Decision
  <2>1. MdPage(p, e).links = key(row.goal) \cup related
    BY <1>1, <1>6, UuidsDiffer
  <2>. QED  BY <1>2, <1>3, <1>4, <1>6, <2>1
<1>7. CASE e \in Experiment
  <2>1. MdPage(p, e).links = key(row.goal) \cup key(row.decision) \cup related
    BY <1>1, <1>7, UuidsDiffer
  <2>. QED  BY <1>2, <1>3, <1>4, <1>7, <2>1
<1>8. CASE e \in Note
  <2>1. MdPage(p, e).links = key(row.source)
    BY <1>1, <1>8, UuidsDiffer
  <2>. QED  BY <1>2, <1>3, <1>8, <2>1
<1>. QED  BY <1>5, <1>6, <1>7, <1>8 DEF Entity

(* The page of the root links to records, and to lessons. *)
LEMMA RootLinks ==
  ASSUME NEW p \in Project, NEW format \in Format,
         NEW url \in Records(p, format) \cup Chain(p, format)
  PROVE  \/ url.dir = "misc"
         \/ \E e \in Entity : Exists(p, e) /\ url = LinkTo(p, "", e, format)
<1>1. ASSUME NEW title, NEW x PROVE Href("", "lesson", title, x, format).dir = "misc"
  BY DEF Href, PathIn, DirOf
<1>2. ASSUME NEW u \in Chain(p, format)
      PROVE  \/ \E title, x : u = Href("", "lesson", title, x, format)
             \/ \E kind \in Kind : \E e \in Rows(p, kind) : u = LinkTo(p, "", e, format)
  BY DEF Chain, Kind
<1>3. CASE url \in Chain(p, format)
  BY <1>1, <1>2, <1>3, RowsExist
<1>4. CASE url \in Records(p, format)
  BY <1>4 DEF Records
<1>. QED  BY <1>3, <1>4

(* The links of a file that are promised to lead somewhere. *)
Promised(f, format) ==
  IF format = "md" \/ f.at.dir = ""
  THEN f.page.links \cup (IF f.at.format = "html" THEN Nav(f.at.dir) ELSE {})
  ELSE Nav(f.at.dir)

LEMMA TreesAreClosed ==
  ASSUME NEW p \in Project, NEW format \in Format, NEW f \in TreeFiles(p, format),
         NEW url \in Promised(f, format), url.dir # "misc"
  PROVE  \E g \in TreeFiles(p, format) : g.at = Target(f.at.dir, url)
<1>1. ASSUME NEW e \in Entity, Exists(p, e), url = LinkTo(p, f.at.dir, e, format)
      PROVE  \E g \in TreeFiles(p, format) : g.at = Target(f.at.dir, url)
  <2> DEFINE g == EntityFile(p, e, format)
  <2>1. g.at = RecordPlace(p, e, format)
    BY RecordFile
  <2>2. g \in TreeFiles(p, format)
    BY <1>1, FileOfTree
  <2>3. Target(f.at.dir, url) = RecordPlace(p, e, format)
    BY <1>1, LinkLeads
  <2> HIDE DEF g
  <2>. QED  BY <2>1, <2>2, <2>3
<1>2. ASSUME format = "html", url \in Nav(f.at.dir)
      PROVE  \E g \in TreeFiles(p, format) : g.at = Target(f.at.dir, url)
  BY <1>2, NavLeads
<1>3. format \in {"md", "html"}
  BY DEF Format
<1>4. CASE f \in StyleFiles(format)
  <2>1. format # "md" /\ f.at = Style
    BY <1>4 DEF StyleFiles, File
  <2>2. Style.dir = "assets"
    BY DEF Style, Place
  <2>. QED  BY <1>2, <1>3, <2>1, <2>2 DEF Promised
<1>5. CASE f \in RootFiles(p, format)
  <2>1. PICK page \in {IF format = "md" THEN Readme(p) ELSE IndexBody(p),
                       Page("timeline", {}), Page("relationships", {})} :
          f = File(Root(page.about, format), page)
    BY <1>5 DEF RootFiles
  <2>2. f.page = page /\ f.at.dir = "" /\ f.at.format = format
    BY <2>1 DEF File, Root, Place
  <2>3. page.links \subseteq Records(p, format) \cup Chain(p, format)
    <3>1. Readme(p).links = Records(p, "md") \cup Chain(p, "md")
      BY DEF Readme, Page
    <3>2. IndexBody(p).links = Records(p, "html") \cup Chain(p, "html")
      BY DEF IndexBody, Page
    <3>. QED  BY <1>3, <2>1, <3>1, <3>2, AboutPages
  <2>4. CASE url \in page.links
    BY <1>1, <2>2, <2>3, <2>4, RootLinks
  <2>5. CASE url \notin page.links
    BY <1>2, <2>2, <2>5 DEF Promised
  <2>. QED  BY <2>4, <2>5
<1>6. ASSUME NEW e \in Entity, Exists(p, e), f = EntityFile(p, e, format)
      PROVE  \E g \in TreeFiles(p, format) : g.at = Target(f.at.dir, url)
  <2>1. /\ f.at.dir = DirOf(KindOf(e)) /\ f.at.format = format
        /\ f.page = EntityPage(p, e, format)
    BY <1>6, RecordFile
  <2>2. f.at.dir # ""
    BY <1>6, <2>1, RowsExist, Directories
  <2>3. CASE format = "html"
    BY <1>2, <2>2, <2>3 DEF Promised
  <2>4. CASE format = "md"
    <3>1. url \in MdPage(p, e).links
      BY <2>1, <2>4 DEF Promised, EntityPage
    <3>2. PICK d \in Entity : Exists(p, d) /\ url = LinkTo(p, f.at.dir, d, format)
      BY <1>6, <2>1, <2>4, <3>1, MdLinks
    <3>. QED  BY <1>1, <3>2
  <2>. QED  BY <1>3, <2>3, <2>4
<1>. QED  BY <1>4, <1>5, <1>6, FileOfTree

-----------------------------------------------------------------------------
(* The archive: two trees and two more files, of which only namesakes'      *)
(* share a place, and those do.                                             *)
LEMMA TreeFormats ==
  ASSUME NEW p \in Project, NEW format \in Format, NEW f \in TreeFiles(p, format)
  PROVE  f.at.format = format \/ (format = "html" /\ f.at.format = "css")
<1>1. CASE f \in StyleFiles(format)
  BY <1>1, PartPlaces DEF StyleFiles, Format
<1>2. CASE f \in RootFiles(p, format)
  <2>1. PICK page : f = File(Root(page.about, format), page)
    BY <1>2 DEF RootFiles
  <2>. QED  BY <2>1 DEF File, Root, Place
<1>3. CASE \E e \in Entity : Exists(p, e) /\ f = EntityFile(p, e, format)
  <2>1. PICK e \in Entity : f = EntityFile(p, e, format)
    BY <1>3
  <2>2. f.at.format = format
    BY <2>1, RecordFile
  <2>. QED  BY <2>2
<1>. QED  BY <1>1, <1>2, <1>3, FileOfTree

LEMMA ArchiveInOrder ==
  ASSUME NEW p \in Project
  PROVE  /\ Apart(p, Archive(p))
         /\ TreeFiles(p, "md") \subseteq ToSet(Archive(p))
<1> DEFINE a == File(Root("project", "json"), Page("project", {}))
           b == File(Root("manifest", "json"), Page("manifest", {}))
           head == <<a, b>>
           md == Tree(p, "md")
           html == Tree(p, "html")
           A == {a, b} \cup TreeFiles(p, "md") \cup TreeFiles(p, "html")
<1>1. /\ a.at.format = "json" /\ b.at.format = "json"
      /\ a.at.stem[1] = "project" /\ b.at.stem[1] = "manifest"
  BY DEF File, Root, Place
<1>2. Archive(p) = (head \o md) \o html
  BY DEF Archive
<1>3. /\ md \in Seq(A) /\ ToSet(md) = TreeFiles(p, "md") /\ Apart(p, md)
      /\ html \in Seq(A) /\ ToSet(html) = TreeFiles(p, "html") /\ Apart(p, html)
  BY TreeInOrder DEF Format
<1> HIDE DEF a, b, md, html
<1>4. head \in Seq(A) /\ ToSet(head) = {a, b} /\ Apart(p, head)
  <2>1. a \in A /\ b \in A /\ a.at # b.at
    BY <1>1
  <2>2. head \in Seq(A) /\ DOMAIN head = {1, 2} /\ head[1] = a /\ head[2] = b
    <3>1. 1..2 = {1, 2}
      OBVIOUS
    <3>. QED  BY <2>1, <3>1
  <2>. QED  BY <2>1, <2>2 DEF ToSet, Apart
<1>5. /\ \A f \in TreeFiles(p, "md") : f.at.format = "md"
      /\ \A f \in TreeFiles(p, "html") : f.at.format \in {"html", "css"}
  BY TreeFormats DEF Format
<1> HIDE DEF A, head
<1>6. /\ head \o md \in Seq(A) /\ ToSet(head \o md) = ToSet(head) \cup ToSet(md)
      /\ Apart(p, head \o md)
  <2>1. \A f \in ToSet(head), h \in ToSet(md) : f.at # h.at
    BY <1>1, <1>3, <1>4, <1>5
  <2>. QED  BY <1>3, <1>4, <2>1, Concatenated
<1> DEFINE top == head \o md
<1> HIDE DEF top
<1>7. top \in Seq(A) /\ Apart(p, top) /\ ToSet(top) = {a, b} \cup TreeFiles(p, "md")
  BY <1>3, <1>4, <1>6 DEF top
<1>8. Apart(p, top \o html) /\ ToSet(top \o html) = ToSet(top) \cup ToSet(html)
  <2>1. \A f \in ToSet(top), h \in ToSet(html) : f.at # h.at
    BY <1>1, <1>3, <1>5, <1>7
  <2>. QED  BY <1>3, <1>7, <2>1, Concatenated
<1>. QED  BY <1>2, <1>7, <1>8 DEF top

LEMMA NamesakesMeet ==
  ASSUME NEW p \in Project, NEW e, NEW f, Namesakes(p, e, f)
  PROVE  LET files == Archive(p) IN
         \E i, j \in DOMAIN files : i # j /\ files[i].at = files[j].at
<1> DEFINE files == Archive(p)
           a == EntityFile(p, e, "md")
           b == EntityFile(p, f, "md")
<1>1. /\ e \in Entity /\ f \in Entity /\ Exists(p, e) /\ Exists(p, f) /\ e # f
      /\ KindOf(e) = KindOf(f)
      /\ FileStem(RowOf(p, e).title, e) = FileStem(RowOf(p, f).title, f)
  BY DEF Namesakes, Alike, FileStem
<1>2. a.page.about = e /\ b.page.about = f
  BY <1>1, RecordFile DEF Format
<1>3. a.at = b.at
  BY <1>1, RecordFile DEF Format, RecordPlace
<1>4. a \in TreeFiles(p, "md") /\ b \in TreeFiles(p, "md")
  BY <1>1, FileOfTree DEF Format
<1> HIDE DEF a, b, files
<1>5. TreeFiles(p, "md") \subseteq ToSet(files)
  BY ArchiveInOrder DEF files
<1>6. PICK i \in DOMAIN files : files[i] = a
  BY <1>4, <1>5 DEF ToSet
<1>7. PICK j \in DOMAIN files : files[j] = b
  BY <1>4, <1>5 DEF ToSet
<1>. QED  BY <1>1, <1>2, <1>3, <1>6, <1>7 DEF files

(* A page of a decision or an experiment cites what is linked with it, from *)
(* whichever end.                                                           *)
LEMMA PageCites ==
  ASSUME NEW p \in Project, NEW format \in Format,
         NEW e \in Decision \cup Experiment, NEW f \in Entity, Exists(p, e), Exists(p, f),
         <<e, f>> \in p.links \/ <<f, e>> \in p.links
  PROVE  \E dir \in {"", DirOf(KindOf(e))} :
           LinkTo(p, dir, f, format) \in EntityPage(p, e, format).links
<1>1. f \in Linked(p, e)
  BY DEF Linked
<1>2. CASE format = "md"
  <2> DEFINE row == RowOf(p, e)
             dir == DirOf(KindOf(e))
             related == {LinkTo(p, dir, g, "md") : g \in Linked(p, e)}
  <2>1. related \subseteq MdPage(p, e).links
    <3>1. CASE e \in Decision
      BY <3>1, UuidsDiffer DEF MdPage, Page
    <3>2. CASE e \in Experiment
      BY <3>2, UuidsDiffer DEF MdPage, Page
    <3>. QED  BY <3>1, <3>2
  <2>2. LinkTo(p, dir, f, "md") \in related
    BY <1>1
  <2>. QED  BY <1>2, <2>1, <2>2 DEF EntityPage
<1>3. CASE format # "md"
  <2>1. EntityPage(p, e, format).links = ListRelated(p, e)
    BY <1>3, UuidsDiffer DEF EntityPage, HtmlEntity, Page
  <2>2. LinkTo(p, "", f, "html") \in ListRelated(p, e) /\ format = "html"
    BY <1>1, <1>3 DEF ListRelated, Format
  <2>. QED  BY <2>1, <2>2
<1>. QED  BY <1>2, <1>3

-----------------------------------------------------------------------------
(* What lasts in the directory.                                             *)

(* The tree of a project is laid out: at the place of every file is a page, *)
(* as rendered, of this or another file of the tree with that place.        *)
Laid(p, format) ==
  /\ tree[format] = {f.at : f \in TreeFiles(p, format)}
  /\ \A f \in TreeFiles(p, format) :
       /\ f.at \in DOMAIN disk
       /\ \E g \in TreeFiles(p, format) : g.at = f.at /\ disk[f.at] = g.page

Present(p) == {e \in Entity : Exists(p, e)}

ProjectOK ==
  /\ project \in Project /\ Present(project) \subseteq used /\ used \subseteq Entity
  /\ changes \in 0..MaxChanges /\ exports \in 0..MaxExports
JobOK == job # None => job.format \in Format /\ job.snapshot \in Project
DiskOK ==
  \A at \in DOMAIN disk :
    /\ Tells(at, disk[at].about)
    /\ disk[at].about \in Entity \cup {"README", "index", "timeline", "relationships", "styles"}
TreesOK ==
  /\ DOMAIN tree = Format
  /\ \A format \in Format : tree[format] # None => \E p \in Project : Laid(p, format)

SiteInv == ProjectOK /\ JobOK /\ DiskOK /\ TreesOK

LEMMA SiteInitInv == Init => SiteInv
<1> SUFFICES ASSUME Init PROVE SiteInv  OBVIOUS
<1>1. ProjectOK
  BY StartAssumption, BoundAssumption DEF Init, ProjectOK, Present
<1>2. JobOK /\ DiskOK /\ TreesOK
  BY DEF Init, JobOK, DiskOK, TreesOK
<1>. QED  BY <1>1, <1>2 DEF SiteInv

LEMMA SiteInvTyped == SiteInv => TypeOK
<1> SUFFICES ASSUME SiteInv PROVE TypeOK  OBVIOUS
<1>1. ASSUME NEW f \in Format, tree[f] # None PROVE tree[f] \subseteq DOMAIN disk
  BY <1>1 DEF SiteInv, TreesOK, Laid
<1>. QED  BY <1>1 DEF SiteInv, ProjectOK, JobOK, DiskOK, TypeOK, Present

(* A row put into its table, or taken out of it. *)
LEMMA PutRow ==
  ASSUME NEW p \in Project, NEW e \in Entity, NEW row,
         e \in Goal => row \in GoalRow \cup {None},
         e \in Decision => row \in DecisionRow \cup {None},
         e \in Experiment => row \in ExperimentRow \cup {None},
         e \in Note => row \in NoteRow \cup {None}
  PROVE  LET q == [p EXCEPT ![KindOf(e)][e] = row] IN
         q \in Project /\ Present(q) \subseteq Present(p) \cup {e}
<1> DEFINE q == [p EXCEPT ![KindOf(e)][e] = row]
<1>1. CASE e \in Goal
  <2>1. q = [p EXCEPT !.goal = [p.goal EXCEPT ![e] = row]]
    BY <1>1, KindByTable DEF Project
  <2>2. [p.goal EXCEPT ![e] = row] \in [Goal -> GoalRow \cup {None}]
    BY <1>1 DEF Project
  <2>3. q \in Project
    BY <2>1, <2>2 DEF Project
  <2>4. Present(q) \subseteq Present(p) \cup {e}
    BY <1>1, <2>1, KindByTable DEF Present, Exists, RowOf, Project, Entity
  <2>. QED  BY <2>3, <2>4
<1>2. CASE e \in Decision
  <2>1. q = [p EXCEPT !.decision = [p.decision EXCEPT ![e] = row]]
    BY <1>2, KindByTable DEF Project
  <2>2. [p.decision EXCEPT ![e] = row] \in [Decision -> DecisionRow \cup {None}]
    BY <1>2 DEF Project
  <2>3. q \in Project
    BY <2>1, <2>2 DEF Project
  <2>4. Present(q) \subseteq Present(p) \cup {e}
    BY <1>2, <2>1, KindByTable DEF Present, Exists, RowOf, Project, Entity
  <2>. QED  BY <2>3, <2>4
<1>3. CASE e \in Experiment
  <2>1. q = [p EXCEPT !.experiment = [p.experiment EXCEPT ![e] = row]]
    BY <1>3, KindByTable DEF Project
  <2>2. [p.experiment EXCEPT ![e] = row] \in [Experiment -> ExperimentRow \cup {None}]
    BY <1>3 DEF Project
  <2>3. q \in Project
    BY <2>1, <2>2 DEF Project
  <2>4. Present(q) \subseteq Present(p) \cup {e}
    BY <1>3, <2>1, KindByTable DEF Present, Exists, RowOf, Project, Entity
  <2>. QED  BY <2>3, <2>4
<1>4. CASE e \in Note
  <2>1. q = [p EXCEPT !.note = [p.note EXCEPT ![e] = row]]
    BY <1>4, KindByTable DEF Project
  <2>2. [p.note EXCEPT ![e] = row] \in [Note -> NoteRow \cup {None}]
    BY <1>4 DEF Project
  <2>3. q \in Project
    BY <2>1, <2>2 DEF Project
  <2>4. Present(q) \subseteq Present(p) \cup {e}
    BY <1>4, <2>1, KindByTable DEF Present, Exists, RowOf, Project, Entity
  <2>. QED  BY <2>3, <2>4
<1>. QED  BY <1>1, <1>2, <1>3, <1>4 DEF Entity

(* A change of the project leaves the exports alone. *)
LEMMA StoreKeeps ==
  ASSUME SiteInv, NEW q \in Project, Store(q), Present(q) \subseteq used',
         used' \subseteq Entity
  PROVE  SiteInv'
<1>1. /\ project' = q /\ disk' = disk /\ job' = job /\ tree' = tree /\ exports' = exports
      /\ changes < MaxChanges /\ changes' = changes + 1
  BY DEF Store
<1>2. ProjectOK'
  BY <1>1, BoundAssumption DEF SiteInv, ProjectOK, Present
<1>3. JobOK' /\ DiskOK' /\ TreesOK'
  BY <1>1 DEF SiteInv, JobOK, DiskOK, TreesOK, Laid
<1>. QED  BY <1>2, <1>3 DEF SiteInv

LEMMA CreateKeeps ==
  ASSUME SiteInv, NEW e \in Entity, NEW row, Create(e, row),
         e \in Goal => row \in GoalRow \cup {None},
         e \in Decision => row \in DecisionRow \cup {None},
         e \in Experiment => row \in ExperimentRow \cup {None},
         e \in Note => row \in NoteRow \cup {None}
  PROVE  SiteInv'
<1> DEFINE q == [project EXCEPT ![KindOf(e)][e] = row]
<1>1. project \in Project /\ Present(project) \subseteq used /\ used \subseteq Entity
  BY DEF SiteInv, ProjectOK
<1>2. q \in Project /\ Present(q) \subseteq Present(project) \cup {e}
  BY <1>1, PutRow
<1>3. Store(q) /\ used' = used \cup {e}
  BY DEF Create
<1> HIDE DEF q
<1>. QED  BY <1>1, <1>2, <1>3, StoreKeeps

LEMMA CreateAnyKeeps ==
  ASSUME SiteInv, NEW title \in Title, CreateAny(title)
  PROVE  SiteInv'
<1>1. project \in Project
  BY DEF SiteInv, ProjectOK
<1>2. ASSUME NEW g \in Goal, Create(g, [title |-> title]) PROVE SiteInv'
  BY <1>2, CreateKeeps, UuidsDiffer DEF GoalRow, Entity
<1>3. ASSUME NEW d \in Decision, NEW g \in Rows(project, "goal") \cup {None},
             Create(d, [title |-> title, goal |-> g])
      PROVE  SiteInv'
  <2>1. [title |-> title, goal |-> g] \in DecisionRow
    BY <1>1, RowsByKind DEF DecisionRow
  <2>. QED  BY <1>3, <2>1, CreateKeeps, UuidsDiffer DEF Entity
<1>4. ASSUME NEW x \in Experiment, NEW g \in Rows(project, "goal") \cup {None},
             NEW d \in Rows(project, "decision") \cup {None},
             Create(x, [title |-> title, goal |-> g, decision |-> d, lesson |-> None])
      PROVE  SiteInv'
  <2>1. [title |-> title, goal |-> g, decision |-> d, lesson |-> None] \in ExperimentRow
    BY <1>1, RowsByKind DEF ExperimentRow
  <2>. QED  BY <1>4, <2>1, CreateKeeps, UuidsDiffer DEF Entity
<1>5. ASSUME NEW n \in Note,
             NEW e \in Rows(project, "decision") \cup Rows(project, "experiment") \cup {None},
             Create(n, [title |-> title, source |-> e])
      PROVE  SiteInv'
  <2>1. [title |-> title, source |-> e] \in NoteRow
    BY <1>1, RowsByKind DEF NoteRow
  <2>. QED  BY <1>5, <2>1, CreateKeeps, UuidsDiffer DEF Entity
<1>. QED  BY <1>2, <1>3, <1>4, <1>5 DEF CreateAny

LEMMA ChangeKeeps ==
  ASSUME SiteInv, NEW q \in Project, Change(q), Present(q) \subseteq Present(project)
  PROVE  SiteInv'
<1>1. Store(q) /\ used' = used
  BY DEF Change
<1>. QED  BY <1>1, StoreKeeps DEF SiteInv, ProjectOK

LEMMA RenameKeeps ==
  ASSUME SiteInv, NEW e \in Entity, NEW title \in Title, Rename(e, title)
  PROVE  SiteInv'
<1> DEFINE row == [RowOf(project, e) EXCEPT !.title = title]
           q == [project EXCEPT ![KindOf(e)][e] = row]
<1>1. Exists(project, e) /\ project \in Project
  BY DEF Rename, SiteInv, ProjectOK
<1>2. Change(q)
  BY DEF Rename, RowOf
<1>3. /\ e \in Goal => row \in GoalRow
      /\ e \in Decision => row \in DecisionRow
      /\ e \in Experiment => row \in ExperimentRow
      /\ e \in Note => row \in NoteRow
  <2>1. /\ e \in Goal => RowOf(project, e) \in GoalRow
        /\ e \in Decision => RowOf(project, e) \in DecisionRow
        /\ e \in Experiment => RowOf(project, e) \in ExperimentRow
        /\ e \in Note => RowOf(project, e) \in NoteRow
    BY <1>1, KindByTable DEF Exists, RowOf, Project
  <2>. QED  BY <2>1 DEF GoalRow, DecisionRow, ExperimentRow, NoteRow
<1> HIDE DEF row
<1>4. q \in Project /\ Present(q) \subseteq Present(project) \cup {e}
  BY <1>1, <1>3, PutRow
<1>5. e \in Present(project)
  BY <1>1 DEF Present
<1> HIDE DEF q
<1>. QED  BY <1>2, <1>4, <1>5, ChangeKeeps

LEMMA LearnKeeps ==
  ASSUME SiteInv, NEW x \in Experiment, NEW text \in Title \cup {None}, Learn(x, text)
  PROVE  SiteInv'
<1> DEFINE row == [project.experiment[x] EXCEPT !.lesson = text]
           q == [project EXCEPT !.experiment = [project.experiment EXCEPT ![x] = row]]
<1>1. Exists(project, x) /\ project \in Project
  BY DEF Learn, SiteInv, ProjectOK
<1>2. Change(q)
  BY DEF Learn
<1>3. project.experiment[x] \in ExperimentRow
  BY <1>1, KindByTable DEF Exists, RowOf, Project
<1>4. row \in ExperimentRow
  BY <1>3 DEF ExperimentRow
<1>5. q \in Project
  BY <1>1, <1>4 DEF Project
<1>6. Present(q) \subseteq Present(project)
  BY <1>1, KindByTable DEF Present, Exists, RowOf, Project, Entity
<1> HIDE DEF q
<1>. QED  BY <1>2, <1>5, <1>6, ChangeKeeps

LEMMA DeleteKeeps ==
  ASSUME SiteInv, NEW e \in Entity, Delete(e)
  PROVE  SiteInv'
<1> DEFINE detach(row, key) ==
             IF row # None /\ row[key] = e THEN [row EXCEPT ![key] = None] ELSE row
           gone == [project EXCEPT ![KindOf(e)][e] = None]
           ds == [d \in Decision |-> detach(gone.decision[d], "goal")]
           xs == [x \in Experiment |-> detach(detach(gone.experiment[x], "goal"), "decision")]
           q == [gone EXCEPT !.decision = ds, !.experiment = xs]
<1>1. Exists(project, e) /\ project \in Project
  BY DEF Delete, SiteInv, ProjectOK
<1>2. gone \in Project /\ Present(gone) \subseteq Present(project) \cup {e}
  BY <1>1, PutRow
<1>3. Change(q)
  BY DEF Delete
<1>4. e \in Present(project)
  BY <1>1 DEF Present
<1> HIDE DEF gone
<1>5. \A row \in DecisionRow \cup {None} :
        /\ detach(row, "goal") \in DecisionRow \cup {None}
        /\ detach(row, "goal") # None => row # None
  BY DEF DecisionRow
<1>6. \A row \in ExperimentRow \cup {None} : \A key \in {"goal", "decision"} :
        /\ detach(row, key) \in ExperimentRow \cup {None}
        /\ detach(row, key) # None => row # None
  BY DEF ExperimentRow
<1> HIDE DEF detach
<1>7. ds \in [Decision -> DecisionRow \cup {None}]
  BY <1>2, <1>5 DEF Project
<1>8. xs \in [Experiment -> ExperimentRow \cup {None}]
  BY <1>2, <1>6 DEF Project
<1>9. /\ \A d \in Decision : ds[d] # None => gone.decision[d] # None
      /\ \A x \in Experiment : xs[x] # None => gone.experiment[x] # None
  BY <1>2, <1>5, <1>6 DEF Project
<1> HIDE DEF ds, xs
<1>10. /\ q \in Project /\ q.goal = gone.goal /\ q.note = gone.note
       /\ q.decision = ds /\ q.experiment = xs
  BY <1>2, <1>7, <1>8 DEF Project
<1> HIDE DEF q
<1>11. Present(q) \subseteq Present(gone)
  <2>1. ASSUME NEW f \in Entity, Exists(q, f) PROVE Exists(gone, f)
    BY <1>9, <1>10, <2>1, KindByTable DEF Exists, RowOf, Entity
  <2>. QED  BY <2>1 DEF Present
<1>. QED  BY <1>2, <1>3, <1>4, <1>10, <1>11, ChangeKeeps

(* Links and the configuration leave the rows alone. *)
LEMMA NoRowChanges ==
  ASSUME SiteInv, NEW q \in Project, Change(q), q.goal = project.goal,
         q.decision = project.decision, q.experiment = project.experiment,
         q.note = project.note
  PROVE  SiteInv'
<1>1. Present(q) \subseteq Present(project)
  BY KindByTable DEF Present, Exists, RowOf, Entity
<1>. QED  BY <1>1, ChangeKeeps

(* Of the files with a place there is a last. *)
LEMMA LastOne ==
  ASSUME NEW files, NEW n \in Nat, NEW i \in 1..n
  PROVE  \E l \in 1..n :
           files[l].at = files[i].at /\ \A k \in l+1..n : files[k].at # files[i].at
<1> DEFINE B == {m \in 0..n : n - m \in 1..n /\ files[n - m].at = files[i].at}
<1>1. B \subseteq Nat
  OBVIOUS
<1>2. n - i \in B
  <2>1. n - i \in 0..n /\ n - (n - i) = i
    OBVIOUS
  <2>. QED  BY <2>1
<1>3. PICK m \in B : \A k \in B : ~(<<k, m>> \in OpToRel(<, Nat))
  BY <1>1, <1>2, NatLessThanWellFounded, WFMin
<1>4. ASSUME NEW k \in (n - m)+1..n, files[k].at = files[i].at PROVE FALSE
  <2> DEFINE l == n - m
  <2>0. l \in 1..n /\ k \in l+1..n /\ m = n - l
    OBVIOUS
  <2> HIDE DEF l
  <2>1. n - k \in 0..n /\ n - (n - k) = k /\ k \in 1..n /\ n - k < m
    BY <2>0
  <2>2. n - k \in B
    BY <1>4, <2>1
  <2>3. <<n - k, m>> \in OpToRel(<, Nat)
    BY <1>1, <1>3, <2>1, <2>2 DEF OpToRel
  <2>. QED  BY <1>3, <2>2, <2>3
<1>5. n - m \in 1..n /\ files[n - m].at = files[i].at
  BY <1>3
<1>. QED  BY <1>4, <1>5

(* What writing the first n of some files leaves in the directory. *)
LEMMA WrittenPages ==
  ASSUME NEW A, NEW files \in Seq(A), NEW n \in 0..Len(files)
  PROVE  LET d == Written(files, n)  new == {files[i].at : i \in 1..n} IN
         /\ DOMAIN d = DOMAIN disk \cup new
         /\ \A at \in DOMAIN disk \ new : d[at] = disk[at]
         /\ \A j \in 1..n : \E i \in 1..n :
              files[i].at = files[j].at /\ d[files[j].at] = files[i].page
<1> DEFINE new == Places(SubSeq(files, 1, n))
           last(at) == CHOOSE i \in 1..n :
             files[i].at = at /\ \A k \in i+1..n : files[k].at # at
           d == [at \in DOMAIN disk \cup new |->
                   IF at \in new THEN files[last(at)].page ELSE disk[at]]
<1>1. Written(files, n) = d
  BY DEF Written
<1>2. Len(files) \in Nat /\ DOMAIN files = 1..Len(files) /\ n \in Nat
  OBVIOUS
<1>3. new = {files[i].at : i \in 1..n}
  <2>1. /\ DOMAIN SubSeq(files, 1, n) = 1..n
        /\ \A i \in 1..n : SubSeq(files, 1, n)[i] = files[i]
    BY <1>2
  <2>. QED  BY <2>1 DEF Places
<1>4. ASSUME NEW at \in new PROVE last(at) \in 1..n /\ files[last(at)].at = at
  <2>1. PICK i \in 1..n : files[i].at = at
    BY <1>3
  <2>2. \E l \in 1..n :
          files[l].at = files[i].at /\ \A k \in l+1..n : files[k].at # files[i].at
    BY <1>2, LastOne
  <2>. QED  BY <2>1, <2>2
<1> HIDE DEF last
<1>5. ASSUME NEW j \in 1..n
      PROVE  \E i \in 1..n : files[i].at = files[j].at /\ d[files[j].at] = files[i].page
  <2>1. files[j].at \in new
    BY <1>3
  <2>. QED  BY <1>4, <2>1
<1> HIDE DEF new
<1>6. DOMAIN d = DOMAIN disk \cup new /\ \A at \in DOMAIN disk \ new : d[at] = disk[at]
  OBVIOUS
<1> HIDE DEF d
<1>. QED  BY <1>1, <1>3, <1>5, <1>6

LEMMA WrittenKeeps ==
  ASSUME SiteInv, NEW p \in Project, NEW format \in Format,
         NEW n \in 0..Len(Tree(p, format)), disk' = Written(Tree(p, format), n),
         tree' = [tree EXCEPT ![format] = IF n = Len(Tree(p, format))
                                          THEN Places(Tree(p, format)) ELSE None]
  PROVE  DiskOK' /\ TreesOK'
<1> DEFINE files == Tree(p, format)
           new == {files[i].at : i \in 1..n}
<1>1. files \in Seq(TreeFiles(p, format)) /\ ToSet(files) = TreeFiles(p, format)
  BY TreeInOrder
<1>2. /\ disk' = Written(files, n) /\ n \in 0..Len(files)
      /\ tree' = [tree EXCEPT ![format] = IF n = Len(files) THEN Places(files) ELSE None]
  OBVIOUS
<1> HIDE DEF files
<1>3. /\ Len(files) \in Nat /\ DOMAIN files = 1..Len(files)
      /\ \A i \in 1..n : i \in DOMAIN files
  BY <1>1, <1>2
<1>4. /\ DOMAIN Written(files, n) = DOMAIN disk \cup new
      /\ \A at \in DOMAIN disk \ new : Written(files, n)[at] = disk[at]
      /\ \A j \in 1..n : \E i \in 1..n :
           files[i].at = files[j].at /\ Written(files, n)[files[j].at] = files[i].page
  BY <1>1, <1>2, WrittenPages
<1>5. /\ DOMAIN disk' = DOMAIN disk \cup new
      /\ \A at \in DOMAIN disk \ new : disk'[at] = disk[at]
      /\ \A at \in new : \E i \in 1..n : files[i].at = at /\ disk'[at] = files[i].page
  <2>1. ASSUME NEW at \in new
        PROVE  \E i \in 1..n : files[i].at = at /\ disk'[at] = files[i].page
    <3>1. PICK j \in 1..n : at = files[j].at
      OBVIOUS
    <3>. QED  BY <1>2, <1>4, <3>1
  <2>. QED  BY <1>2, <1>4, <2>1
<1>6. \A i \in 1..n : files[i] \in TreeFiles(p, format)
  BY <1>1, <1>3 DEF ToSet
<1>7. DiskOK'
  <2>1. ASSUME NEW at \in DOMAIN disk'
        PROVE  /\ Tells(at, disk'[at].about)
               /\ disk'[at].about \in Entity \cup
                    {"README", "index", "timeline", "relationships", "styles"}
    <3>1. CASE at \in new
      <4>1. PICK i \in 1..n : files[i].at = at /\ disk'[at] = files[i].page
        BY <1>5, <3>1
      <4>. QED  BY <1>6, <4>1, TellsSubject
    <3>2. CASE at \notin new
      BY <1>5, <3>2 DEF SiteInv, DiskOK
    <3>. QED  BY <3>1, <3>2
  <2>. QED  BY <2>1 DEF DiskOK, Tells
<1>8. DOMAIN tree = Format /\ DOMAIN tree' = Format
  BY <1>2 DEF SiteInv, TreesOK
<1>9. ASSUME NEW f \in Format, tree'[f] # None PROVE \E q \in Project : Laid(q, f)'
  <2>1. CASE f # format
    <3>1. tree'[f] = tree[f]
      BY <1>2, <1>8, <2>1
    <3>2. PICK q \in Project : Laid(q, f)
      BY <1>9, <3>1 DEF SiteInv, TreesOK
    <3>3. ASSUME NEW g \in TreeFiles(q, f) PROVE g.at \notin new
      <4>1. g.at.format = f \/ (f = "html" /\ g.at.format = "css")
        BY TreeFormats
      <4>2. ASSUME NEW i \in 1..n
            PROVE  files[i].at.format = format \/ (format = "html" /\ files[i].at.format = "css")
        BY <1>6, TreeFormats
      <4>. QED  BY <2>1, <4>1, <4>2 DEF Format
    <3>4. \A g \in TreeFiles(q, f) : g.at \in DOMAIN disk' /\ disk'[g.at] = disk[g.at]
      BY <1>5, <3>2, <3>3 DEF Laid
    <3>. QED  BY <3>1, <3>2, <3>4 DEF Laid
  <2>2. CASE f = format
    <3>1. n = Len(files) /\ tree'[format] = Places(files)
      BY <1>2, <1>8, <1>9, <2>2
    <3>2. Places(files) = {g.at : g \in TreeFiles(p, format)}
      BY <1>1, <1>3 DEF Places, ToSet
    <3>3. ASSUME NEW g \in TreeFiles(p, format)
          PROVE  /\ g.at \in DOMAIN disk'
                 /\ \E h \in TreeFiles(p, format) : h.at = g.at /\ disk'[g.at] = h.page
      <4>1. g.at \in new
        BY <1>1, <1>3, <3>1, <3>2 DEF ToSet
      <4>. QED  BY <1>5, <1>6, <4>1
    <3>. QED  BY <2>2, <3>1, <3>2, <3>3 DEF Laid
  <2>. QED  BY <2>1, <2>2
<1>. QED  BY <1>7, <1>8, <1>9 DEF TreesOK

LEMMA WriteTreeKeeps == SiteInv /\ WriteTree => SiteInv'
<1> SUFFICES ASSUME SiteInv, WriteTree PROVE SiteInv'  OBVIOUS
<1>1. \E p \in Project, format \in Format : \E n \in 0..Len(Tree(p, format)) :
        /\ disk' = Written(Tree(p, format), n)
        /\ tree' = [tree EXCEPT ![format] = IF n = Len(Tree(p, format))
                                            THEN Places(Tree(p, format)) ELSE None]
  <2> DEFINE p == [job.snapshot EXCEPT !.hidden = project.hidden]
  <2>1. job.format \in Format /\ p \in Project
    BY DEF WriteTree, SiteInv, JobOK, ProjectOK, Project
  <2>2. PICK n \in {Len(Tree(p, job.format))} \cup (Stops \cap 0..Len(Tree(p, job.format))) :
          /\ disk' = Written(Tree(p, job.format), n)
          /\ tree' = [tree EXCEPT ![job.format] = IF n = Len(Tree(p, job.format))
                                     THEN Places(Tree(p, job.format)) ELSE None]
    BY DEF WriteTree
  <2> HIDE DEF p
  <2>3. Tree(p, job.format) \in Seq(TreeFiles(p, job.format))
    BY <2>1, TreeInOrder
  <2>4. n \in 0..Len(Tree(p, job.format))
    BY <2>2, <2>3
  <2>. QED  BY <2>1, <2>2, <2>4
<1>2. DiskOK' /\ TreesOK'
  BY <1>1, WrittenKeeps
<1>3. ProjectOK' /\ JobOK'
  BY DEF WriteTree, SiteInv, ProjectOK, JobOK, Present
<1>. QED  BY <1>2, <1>3 DEF SiteInv

LEMMA SiteStepInv == SiteInv /\ [Next]_vars => SiteInv'
<1> SUFFICES ASSUME SiteInv, [Next]_vars PROVE SiteInv'  OBVIOUS
<1>1. project \in Project /\ used \subseteq Entity
  BY DEF SiteInv, ProjectOK
<1>2. ASSUME NEW e \in used, NEW f \in used, AddLink(e, f) PROVE SiteInv'
  <2> DEFINE q == [project EXCEPT !.links = @ \cup {<<e, f>>}]
  <2>1. /\ q \in Project /\ q.goal = project.goal /\ q.decision = project.decision
        /\ q.experiment = project.experiment /\ q.note = project.note
    BY <1>1 DEF Project
  <2>2. Change(q)
    BY <1>2 DEF AddLink
  <2> HIDE DEF q
  <2>. QED  BY <2>1, <2>2, NoRowChanges
<1>3. ASSUME NEW l \in project.links, RemoveLink(l) PROVE SiteInv'
  <2> DEFINE q == [project EXCEPT !.links = @ \ {l}]
  <2>1. /\ q \in Project /\ q.goal = project.goal /\ q.decision = project.decision
        /\ q.experiment = project.experiment /\ q.note = project.note
    BY <1>1 DEF Project
  <2>2. Change(q)
    BY <1>3 DEF RemoveLink
  <2> HIDE DEF q
  <2>. QED  BY <2>1, <2>2, NoRowChanges
<1>4. ASSUME NEW e \in used \ Note, Configure(e) PROVE SiteInv'
  <2> DEFINE q == [project EXCEPT !.hidden = IF e \in @ THEN @ \ {e} ELSE @ \cup {e}]
  <2>1. /\ q \in Project /\ q.goal = project.goal /\ q.decision = project.decision
        /\ q.experiment = project.experiment /\ q.note = project.note
    BY <1>1 DEF Project, Entity
  <2>2. Change(q)
    BY <1>4 DEF Configure
  <2> HIDE DEF q
  <2>. QED  BY <2>1, <2>2, NoRowChanges
<1>5. ASSUME NEW format \in Format, Collect(format) PROVE SiteInv'
  <2>1. ProjectOK'
    BY <1>5, BoundAssumption DEF Collect, SiteInv, ProjectOK, Present
  <2>2. JobOK' /\ DiskOK' /\ TreesOK'
    BY <1>5 DEF Collect, SiteInv, ProjectOK, JobOK, DiskOK, TreesOK, Laid
  <2>. QED  BY <2>1, <2>2 DEF SiteInv
<1>6. CASE UNCHANGED vars
  BY <1>6 DEF vars, SiteInv, ProjectOK, JobOK, DiskOK, TreesOK, Laid, Present
<1>. QED
  BY <1>2, <1>3, <1>4, <1>5, <1>6, WriteTreeKeeps, CreateAnyKeeps, RenameKeeps,
     LearnKeeps, DeleteKeeps DEF Next

-----------------------------------------------------------------------------
(* The rows and what a job has read of them are typed; a place in the       *)
(* directory tells what its page is about, as far as a name does; and a     *)
(* tree that was completed still has, at each place of the tree of some     *)
(* project, a page of that tree.                                            *)
THEOREM SiteInvariant == Spec => []SiteInv
<1>1. Init => SiteInv
  BY SiteInitInv
<1>2. SiteInv /\ [Next]_vars => SiteInv'
  BY SiteStepInv
<1>. QED  BY <1>1, <1>2, PTL DEF Spec

(* The tables, the job and the directory hold what they are declared to.    *)
THEOREM TypeCorrect == Spec => []TypeOK
<1>1. SiteInv => TypeOK
  BY SiteInvTyped
<1>. QED  BY <1>1, SiteInvariant, PTL

(* Links of a completed tree lead to pages of the tree: what was rendered   *)
(* is closed, and none of it is overwritten but by a later tree of its own  *)
(* format, which then replaces it or leaves it marked as unfinished.        *)
THEOREM TreesStayClosed == Spec => []TreeIsClosed
<1>1. SiteInv => TreeIsClosed
  <2> SUFFICES ASSUME SiteInv, NEW format \in Format, tree[format] # None,
                      NEW at \in tree[format],
                      NEW url \in IF format = "md" \/ at.dir = "" THEN LinksAt(at) ELSE Nav(at.dir),
                      url.dir # "misc"
               PROVE  /\ Leads(at, url) \in tree[format]
                      /\ Tells(Leads(at, url), disk[Leads(at, url)].about)
    BY DEF TreeIsClosed
  <2>1. PICK p \in Project : Laid(p, format)
    BY DEF SiteInv, TreesOK
  <2>2. PICK f \in TreeFiles(p, format) : f.at = at /\ disk[at] = f.page
    BY <2>1 DEF Laid
  <2>3. url \in Promised(f, format)
    BY <2>2 DEF Promised, LinksAt
  <2>4. PICK g \in TreeFiles(p, format) : g.at = Target(at.dir, url)
    BY <2>2, <2>3, TreesAreClosed
  <2>5. g.at \in tree[format] /\ g.at \in DOMAIN disk
    BY <2>1 DEF Laid
  <2>6. Tells(g.at, disk[g.at].about)
    BY <2>5 DEF SiteInv, DiskOK
  <2>. QED  BY <2>4, <2>5, <2>6 DEF Leads
<1>. QED  BY <1>1, SiteInvariant, PTL

(* Whatever project an export has read, a name occurs twice among the       *)
(* entries of its archive exactly if two records are namesakes.             *)
THEOREM ArchivesPack == Spec => []ArchivePacks
<1>1. SiteInv => ArchivePacks
  <2> DEFINE p == job.snapshot
             files == Archive(p)
             once == \A i, j \in DOMAIN files : files[i].at = files[j].at => i = j
  <2> SUFFICES ASSUME SiteInv, job # None
               PROVE  once <=> ~ \E e, f \in Entity : Namesakes(p, e, f)
    BY DEF ArchivePacks
  <2>1. p \in Project
    BY DEF SiteInv, JobOK
  <2>2. ASSUME NEW i \in DOMAIN files, NEW j \in DOMAIN files,
               files[i].at = files[j].at, i # j
        PROVE  \E e, f \in Entity : Namesakes(p, e, f)
    <3>1. Namesakes(p, files[i].page.about, files[j].page.about)
      BY <2>1, <2>2, ArchiveInOrder DEF Apart
    <3>2. files[i].page.about \in Entity /\ files[j].page.about \in Entity
      BY <3>1 DEF Namesakes, Alike
    <3>. QED  BY <3>1, <3>2
  <2>3. ASSUME NEW e \in Entity, NEW f \in Entity, Namesakes(p, e, f)
        PROVE  \E i, j \in DOMAIN files : i # j /\ files[i].at = files[j].at
    BY <2>1, <2>3, NamesakesMeet
  <2> HIDE DEF files
  <2>. QED  BY <2>2, <2>3
<1>. QED  BY <1>1, SiteInvariant, PTL

(* A link between decisions and experiments that are both found is told of  *)
(* on the pages of both, in either format.                                  *)
THEOREM ReferencesAgree == Spec => []CrossReferencesAgree
<1>1. SiteInv => CrossReferencesAgree
  <2> DEFINE cites(e, f) == \E dir \in {"", DirOf(KindOf(e))} :
               LinkTo(job.snapshot, dir, f, job.format)
                 \in EntityPage(job.snapshot, e, job.format).links
  <2> SUFFICES ASSUME SiteInv, job # None, NEW l \in job.snapshot.links,
                      {l[1], l[2]} \subseteq Decision \cup Experiment,
                      Exists(job.snapshot, l[1]), Exists(job.snapshot, l[2])
               PROVE  cites(l[1], l[2]) /\ cites(l[2], l[1])
    BY DEF CrossReferencesAgree
  <2>1. job.snapshot \in Project /\ job.format \in Format
    BY DEF SiteInv, JobOK
  <2>2. l = <<l[1], l[2]>> /\ l[1] \in Entity /\ l[2] \in Entity
    BY <2>1 DEF Project
  <2>3. l[1] \in Decision \cup Experiment /\ l[2] \in Decision \cup Experiment
    OBVIOUS
  <2>4. /\ <<l[1], l[2]>> \in job.snapshot.links
        /\ Exists(job.snapshot, l[1]) /\ Exists(job.snapshot, l[2])
    BY <2>2
  <2>. QED  BY <2>1, <2>2, <2>3, <2>4, PageCites
<1>. QED  BY <1>1, SiteInvariant, PTL

(* Only the export writes to the directory, and it removes no page.         *)
LEMMA PagesStay ==
  SiteInv /\ [Next]_vars => disk' = disk \/ DOMAIN disk \subseteq DOMAIN disk'
<1> SUFFICES ASSUME SiteInv, [Next]_vars, disk' # disk
             PROVE  DOMAIN disk \subseteq DOMAIN disk'
  OBVIOUS
<1>1. WriteTree
  BY DEF Next, vars, CreateAny, Create, Delete, Rename, Learn, AddLink, RemoveLink,
         Configure, Change, Store, Collect
<1>2. \E files, n : disk' = Written(files, n)
  BY <1>1 DEF WriteTree
<1>. QED  BY <1>2 DEF Written

(* No page is ever removed, or overwritten by a page about something else   *)
(* but a record of the same kind whose uuid begins alike.                   *)
THEOREM SubjectsKept == Spec => PagesKeepTheirSubject
<1> DEFINE Kept == \A at \in DOMAIN disk :
                     /\ at \in DOMAIN disk'
                     /\ \/ disk'[at].about = disk[at].about
                        \/ Alike(disk[at].about, disk'[at].about)
<1>1. SiteInv /\ SiteInv' /\ [Next]_vars => [Kept]_disk
  <2> SUFFICES ASSUME SiteInv, SiteInv', [Next]_vars, disk' # disk,
                      NEW at \in DOMAIN disk
               PROVE  /\ at \in DOMAIN disk'
                      /\ \/ disk'[at].about = disk[at].about
                         \/ Alike(disk[at].about, disk'[at].about)
    OBVIOUS
  <2>1. at \in DOMAIN disk'
    BY PagesStay
  <2>2. Tells(at, disk[at].about)
    BY DEF SiteInv, DiskOK
  <2>3. Tells(at, disk'[at].about)
    BY <2>1 DEF SiteInv, DiskOK, Tells
  <2>4. ASSUME NEW a, NEW b, Tells(at, a), Tells(at, b) PROVE a = b \/ Alike(a, b)
    <3>1. CASE at.dir \in {"", "assets"}
      BY <2>4, <3>1 DEF Tells
    <3>2. CASE at.dir \notin {"", "assets"}
      <4>1. /\ a \in Entity /\ b \in Entity /\ DirOf(KindOf(a)) = DirOf(KindOf(b))
            /\ IdHead[a] = IdHead[b]
        BY <2>4, <3>2 DEF Tells
      <4>2. KindOf(a) \in Kind /\ KindOf(b) \in Kind
        BY <4>1, KindByTable DEF Entity, Kind
      <4>. QED  BY <4>1, <4>2, Directories DEF Alike
    <3>. QED  BY <3>1, <3>2
  <2>. QED  BY <2>1, <2>2, <2>3, <2>4
<1>. QED  BY <1>1, SiteInvariant, PTL DEF Spec, PagesKeepTheirSubject

=============================================================================

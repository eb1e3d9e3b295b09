---------------------------- MODULE EditingProofs ----------------------------
(***************************************************************************)
(* Theorems about Editing, for any records, requests and texts.  What a    *)
(* request is about to write and was not sent is what it read, but for the *)
(* two columns Unsent names, so the row differs from it only in columns    *)
(* the request missed; an insertion's uuid is its own and nothing is       *)
(* logged under it; and what an extraction is about to write has been a    *)
(* lesson or a result of its experiment.                                   *)
(***************************************************************************)
EXTENDS Editing, TLAPS

(* What a request that edits will write. *)
Edits(w) ==
  LET r == request[w] IN
  r # None /\ ~r.insert =>
    /\ "source" \notin DOMAIN r.set
    /\ rows[r.id] # None =>
         \A c \in DOMAIN r.set :
           \/ c \in r.carries \cup missed[w]
           \/ r.set[c] = rows[r.id][c]
           \/ Unsent(KindOf[r.id], c, r.set[c], r.carries)

(* What a request that inserts will write, under a uuid of its own. *)
Inserts(w) ==
  LET r == request[w] IN
  r # None /\ r.insert =>
    /\ rows[r.id] = None /\ revisions[r.id] = << >>
    /\ \A v \in Worker \ {w} : request[v] # None => request[v].id # r.id
    /\ DOMAIN r.set \subseteq r.carries
    /\ KindOf[r.id] = "note" /\ r.set["source"] # None =>
         r.set["body"] \in told[r.set["source"]] \ {Blank}

InUse ==
  /\ \A w \in Worker : request[w] # None => request[w].id \in used
  /\ \A id \in Record \ used : revisions[id] = << >>

ToldAll == \A id \in Record : rows[id] # None => Told(rows[id]) \subseteq told[id]

IInv ==
  /\ TypeOK
  /\ InUse
  /\ ToldAll
  /\ HistoryDescribesNote
  /\ ExtractsQuote
  /\ \A w \in Worker : Edits(w) /\ Inserts(w)

-----------------------------------------------------------------------------
LEMMA ColumnFacts ==
  ASSUME NEW kind \in Kind
  PROVE  /\ FormColumns(kind) \subseteq Columns(kind)
         /\ Columns(kind) \subseteq Column
         /\ "title" \in FormColumns(kind)
         /\ "source" \notin FormColumns(kind)
         /\ "status" \in FormColumns(kind) => kind \in {"project", "goal", "experiment"}
<1>1. CASE kind = "project"  BY <1>1 DEF FormColumns, Columns, Column
<1>2. CASE kind = "goal"  BY <1>2 DEF FormColumns, Columns, Column
<1>3. CASE kind = "note"  BY <1>3 DEF FormColumns, Columns, Column
<1>4. CASE kind = "experiment"  BY <1>4 DEF FormColumns, Columns, Column
<1>5. CASE kind = "decision"  BY <1>5 DEF FormColumns, Columns, Column
<1>. QED  BY <1>1, <1>2, <1>3, <1>4, <1>5 DEF Kind

LEMMA NoteColumns ==
  /\ Columns("note") = {"title", "body", "source"}
  /\ FormColumns("note") = {"title", "body"}
BY DEF Columns, FormColumns

LEMMA GoalColumns == Columns("goal") = {"title", "body", "status", "assigned_to"}
BY DEF Columns, FormColumns

(* Whatever status is asked, one the table allows is written. *)
LEMMA StatusLegal ==
  ASSUME NEW kind \in {"project", "goal", "experiment"}, NEW s
  PROVE  OrFirst(kind, s) \in Statuses(kind)
<1>1. CASE kind = "project"  BY <1>1 DEF OrFirst, Statuses, FirstStatus
<1>2. CASE kind = "goal"  BY <1>2 DEF OrFirst, Statuses, FirstStatus
<1>3. CASE kind = "experiment"  BY <1>3 DEF OrFirst, Statuses, FirstStatus
<1>. QED  BY <1>1, <1>2, <1>3

(* A function of a table's columns whose values are legal is a row of it. *)
LEMMA RowIntro ==
  ASSUME NEW kind \in Kind, NEW f, f = [c \in Columns(kind) |-> f[c]],
         \A c \in Columns(kind) : f[c] \in Legal(kind, c)
  PROVE  f \in Row(kind)
BY DEF Row

LEMMA RowElim ==
  ASSUME NEW kind \in Kind, NEW f \in Row(kind)
  PROVE  /\ f = [c \in Columns(kind) |-> f[c]]
         /\ DOMAIN f = Columns(kind)
         /\ \A c \in Columns(kind) : f[c] \in Legal(kind, c)
BY DEF Row

(* What the inline endpoints make of a row and a request is legal. *)
LEMMA MergedLegal ==
  ASSUME NEW kind \in Kind, NEW row \in Row(kind), NEW p \in Asked,
         DOMAIN p \subseteq InlineColumns(kind)
  PROVE  /\ DOMAIN Merged(kind, row, p) = FormColumns(kind)
         /\ \A c \in FormColumns(kind) : Merged(kind, row, p)[c] \in Legal(kind, c)
<1>1. DOMAIN Merged(kind, row, p) = FormColumns(kind)
  BY DEF Merged
<1>2. ASSUME NEW c \in FormColumns(kind)
      PROVE  Merged(kind, row, p)[c] \in Legal(kind, c)
  <2>1. row[c] \in Legal(kind, c) /\ c # "source"
    BY ColumnFacts, RowElim
  <2>2. CASE c = "status" /\ c \in DOMAIN p
    <3>1. Merged(kind, row, p)[c] = OrFirst(kind, p[c])
      BY <2>2 DEF Merged
    <3>. QED  BY <2>2, <3>1, StatusLegal, ColumnFacts DEF Legal
  <2>3. CASE c = "status" /\ c \notin DOMAIN p /\ kind = "project"
    <3>1. Merged(kind, row, p)[c] = "active"
      BY <2>3 DEF Merged
    <3>. QED  BY <2>3, <3>1 DEF Legal, Statuses
  <2>4. CASE c # "status" /\ c \in DOMAIN p
    <3>1. Merged(kind, row, p)[c] = OrKept(row[c], p[c])
      BY <2>4 DEF Merged
    <3>2. CASE p[c] = Blank
      BY <2>1, <3>1, <3>2 DEF OrKept
    <3>3. CASE p[c] # Blank /\ c = "assigned_to"
      BY <2>4, <3>1, <3>3, AskedAssumption DEF OrKept, Legal
    <3>4. CASE p[c] # Blank /\ c # "assigned_to"
      BY <2>1, <2>4, <3>1, <3>4, AskedAssumption DEF OrKept, Legal
    <3>. QED  BY <3>2, <3>3, <3>4
  <2>5. CASE c \notin DOMAIN p /\ ~(c = "status" /\ kind = "project")
    <3>1. Merged(kind, row, p)[c] = row[c]
      BY <2>5 DEF Merged
    <3>. QED  BY <2>1, <3>1
  <2>. QED  BY <2>2, <2>3, <2>4, <2>5
<1>. QED  BY <1>1, <1>2

(* What the inline endpoints were not sent is as they read it.              *)
LEMMA MergedKeeps ==
  ASSUME NEW kind \in Kind, NEW row, NEW p, NEW c \in FormColumns(kind),
         c \notin Sent(p)
  PROVE  \/ Merged(kind, row, p)[c] = row[c]
         \/ Unsent(kind, c, Merged(kind, row, p)[c], Sent(p))
<1>1. CASE c \in DOMAIN p
  BY <1>1 DEF Merged, Sent, OrKept
<1>2. CASE c \notin DOMAIN p /\ kind = "project" /\ c = "status"
  BY <1>2 DEF Merged, Unsent
<1>3. CASE c \notin DOMAIN p /\ ~(kind = "project" /\ c = "status")
  BY <1>3 DEF Merged
<1>. QED  BY <1>1, <1>2, <1>3

(* What a form was not sent is a goal's assignee, which it clears.          *)
LEMMA FormClears ==
  ASSUME NEW kind \in Kind, NEW p, IsForm(kind, p), NEW c \in FormColumns(kind),
         c \notin DOMAIN p
  PROVE  Unsent(kind, c, FromForm(kind, p)[c], DOMAIN p)
<1>1. kind = "goal" /\ c = "assigned_to" /\ FormColumns(kind) \ {c} \subseteq DOMAIN p
  BY DEF IsForm
<1>2. FromForm(kind, p)[c] = None
  BY <1>1 DEF FromForm
<1>. QED  BY <1>1, <1>2 DEF Unsent

(* What the forms write is legal. *)
LEMMA FormLegal ==
  ASSUME NEW kind \in Kind, NEW p \in Asked,
         IsForm(kind, p), p["title"] # Blank
  PROVE  /\ DOMAIN FromForm(kind, p) = FormColumns(kind)
         /\ \A c \in FormColumns(kind) : FromForm(kind, p)[c] \in Legal(kind, c)
<1>1. DOMAIN FromForm(kind, p) = FormColumns(kind)
  BY DEF FromForm
<1>2. ASSUME NEW c \in FormColumns(kind)
      PROVE  FromForm(kind, p)[c] \in Legal(kind, c)
  <2>1. CASE c = "status"
    <3>1. FromForm(kind, p)[c] = OrFirst(kind, p[c])
      BY <2>1 DEF FromForm
    <3>. QED  BY <2>1, <3>1, StatusLegal, ColumnFacts DEF Legal
  <2>2. CASE c = "assigned_to"
    <3>1. FromForm(kind, p)[c] = IF c \in DOMAIN p /\ p[c] # Blank THEN p[c] ELSE None
      BY <2>2 DEF FromForm
    <3>. QED  BY <2>2, <3>1, AskedAssumption DEF Legal
  <2>3. CASE c # "status" /\ c # "assigned_to"
    <3>1. FromForm(kind, p)[c] = p[c]
      BY <2>3 DEF FromForm
    <3>2. c \in DOMAIN p
      BY <2>3 DEF IsForm
    <3>3. p[c] \in Text /\ c # "source"
      BY <2>3, <3>2, AskedAssumption, ColumnFacts
    <3>. QED  BY <2>3, <3>1, <3>3 DEF Legal
  <2>. QED  BY <2>1, <2>2, <2>3
<1>. QED  BY <1>1, <1>2

-----------------------------------------------------------------------------
LEMMA ToldTexts ==
  ASSUME NEW kind \in Kind, NEW row \in Row(kind)
  PROVE  Told(row) \subseteq Text
<1> SUFFICES ASSUME NEW c \in DOMAIN row \cap {"lesson", "result"}
             PROVE  row[c] \in Text
  BY DEF Told
<1>1. row[c] \in Legal(kind, c)
  BY RowElim
<1>. QED  BY <1>1 DEF Legal

LEMMA NoteSnapshot ==
  ASSUME NEW row \in Row("note")
  PROVE  /\ Snapshot(row) \in [title : Text, body : Text]
         /\ Snapshot(row).body = row["body"]
         /\ row["source"] \in {x \in Record : KindOf[x] = "experiment"} \cup {None}
<1>1. \A c \in {"title", "body", "source"} : row[c] \in Legal("note", c)
  BY RowElim, NoteColumns DEF Kind
<1>2. row["title"] \in Legal("note", "title")
  BY <1>1
<1>3. row["body"] \in Legal("note", "body")
  BY <1>1
<1>4. row["source"] \in Legal("note", "source")
  BY <1>1
<1>5. row["title"] \in Text
  BY <1>2 DEF Legal
<1>6. row["body"] \in Text
  BY <1>3 DEF Legal
<1>7. row["source"] \in {x \in Record : KindOf[x] = "experiment"} \cup {None}
  BY <1>4 DEF Legal
<1>. QED  BY <1>5, <1>6, <1>7 DEF Snapshot

LEMMA InitInv == Init => IInv
<1> SUFFICES ASSUME Init PROVE IInv  OBVIOUS
<1>1. \A id \in Record : rows[id] # None => rows[id] \in Row(KindOf[id])
  BY StartAssumption DEF Init
<1>2. \A id \in Record : rows[id] # None => Told(rows[id]) \subseteq Text
  BY <1>1, ToldTexts, KindAssumption
<1>3. \A id \in Record : KindOf[id] = "note" /\ rows[id] # None =>
        Snapshot(rows[id]) \in [title : Text, body : Text] /\ rows[id]["source"] = None
  BY <1>1, NoteSnapshot, StartAssumption DEF Init
<1>4. DOMAIN rows = Record
  BY StartAssumption DEF Init
<1>5. TypeOK
  <2> DEFINE S == [title : Text, body : Text]
  <2>1. \A id \in Record : revisions[id] \in Seq(S)
    <3> SUFFICES ASSUME NEW id \in Record PROVE revisions[id] \in Seq(S)
      OBVIOUS
    <3>1. CASE rows[id] # None /\ KindOf[id] = "note"
      <4>1. revisions[id] = <<Snapshot(rows[id])>>
        BY <3>1 DEF Init
      <4>2. Snapshot(rows[id]) \in S
        BY <1>3, <3>1
      <4>. HIDE DEF S
      <4>. QED  BY <4>1, <4>2
    <3>2. CASE ~(rows[id] # None /\ KindOf[id] = "note")
      <4>. HIDE DEF S
      <4>. QED  BY <3>2 DEF Init
    <3>. QED  BY <3>1, <3>2
  <2>2. revisions \in [Record -> Seq(S)]
    <3>. HIDE DEF S
    <3>. QED  BY <2>1 DEF Init
  <2>3. told \in [Record -> SUBSET Text]
    BY <1>2 DEF Init
  <2>. HIDE DEF S
  <2>4. /\ \A id \in Record : rows[id] # None => id \in used
        /\ DOMAIN request = Worker /\ \A w \in Worker : request[w] = None
        /\ missed \in [Worker -> SUBSET Column]
        /\ served \in 0..MaxRequests
    BY BoundAssumption DEF Init
  <2>. QED  BY <1>1, <1>4, <2>2, <2>3, <2>4 DEF TypeOK, S
<1>6. HistoryDescribesNote
  BY DEF Init, HistoryDescribesNote
<1>7. ExtractsQuote
  BY <1>3 DEF ExtractsQuote
<1>8. InUse /\ ToldAll
  BY DEF Init, InUse, ToldAll
<1>9. \A w \in Worker : Edits(w) /\ Inserts(w)
  BY DEF Init, Edits, Inserts
<1>. QED  BY <1>5, <1>6, <1>7, <1>8, <1>9 DEF IInv

-----------------------------------------------------------------------------
(* A handler has read what it needs and is about to make its call.          *)
LEMMA TakeInv ==
  ASSUME IInv, NEW w \in Worker, NEW id \in Record, NEW carries, NEW insert \in BOOLEAN,
         NEW set, Take(w, id, carries, insert, set),
         DOMAIN set \subseteq Columns(KindOf[id]),
         \A c \in DOMAIN set : set[c] \in Legal(KindOf[id], c),
         insert => /\ set \in Row(KindOf[id])
                   /\ id \notin used /\ used' = used \cup {id}
                   /\ DOMAIN set \subseteq carries
                   /\ KindOf[id] = "note" /\ set["source"] # None =>
                        set["body"] \in told[set["source"]] \ {Blank},
         ~insert => /\ rows[id] # None /\ used' = used
                    /\ "source" \notin DOMAIN set
                    /\ \A c \in DOMAIN set :
                         \/ c \in carries
                         \/ set[c] = rows[id][c]
                         \/ Unsent(KindOf[id], c, set[c], carries)
  PROVE  IInv'
<1> DEFINE r == [id |-> id, carries |-> carries, insert |-> insert, set |-> set]
<1> USE DEF Take
<1>1. request' = [request EXCEPT ![w] = r] /\ DOMAIN request = Worker
  BY DEF IInv, TypeOK
<1>2. request'[w] = r /\ \A v \in Worker \ {w} : request'[v] = request[v]
  BY <1>1
<1>3. missed'[w] = {} /\ \A v \in Worker \ {w} : missed'[v] = missed[v]
  BY DEF IInv, TypeOK
<1>4. IsRequest(r)
  BY DEF IsRequest
<1>5. used \subseteq used' /\ id \in used'
  BY DEF IInv, TypeOK
<1>6. TypeOK'
  <2>1. \A v \in Worker : request'[v] # None => IsRequest(request'[v])
    BY <1>2, <1>4 DEF IInv, TypeOK
  <2>2. served' \in 0..MaxRequests
    BY BoundAssumption DEF IInv, TypeOK
  <2>3. missed' \in [Worker -> SUBSET Column]
    BY DEF IInv, TypeOK
  <2>4. DOMAIN request' = Worker
    BY <1>1
  <2>5. \A v \in Worker : IsRequest(request[v])' <=> IsRequest(request'[v])
    BY DEF IsRequest
  <2>. QED  BY <1>5, <2>1, <2>2, <2>3, <2>4, <2>5 DEF IInv, TypeOK
<1>7. InUse'
  BY <1>2, <1>5 DEF IInv, InUse
<1>8. ToldAll' /\ HistoryDescribesNote' /\ ExtractsQuote'
  BY DEF IInv, ToldAll, HistoryDescribesNote, ExtractsQuote
<1>9. Edits(w)' /\ Inserts(w)'
  <2>1. Edits(w)'
    BY <1>2 DEF Edits
  <2>2. ASSUME insert
        PROVE  /\ rows[id] = None /\ revisions[id] = << >>
               /\ \A v \in Worker \ {w} : request[v] # None => request[v].id # id
    BY <2>2 DEF IInv, TypeOK, InUse
  <2>3. Inserts(w)'
    BY <1>2, <2>2 DEF Inserts
  <2>. QED  BY <2>1, <2>3
<1>10. ASSUME NEW v \in Worker \ {w}
       PROVE  Edits(v)' /\ Inserts(v)'
  <2>1. Edits(v)'
    BY <1>2, <1>3 DEF IInv, Edits
  <2>2. request[v] # None /\ request[v].insert => request[v].id # id
    BY DEF IInv, Inserts, InUse
  <2>3. Inserts(v)'
    BY <1>2, <2>2 DEF IInv, Inserts
  <2>. QED  BY <2>1, <2>3
<1>. QED  BY <1>6, <1>7, <1>8, <1>9, <1>10 DEF IInv

-----------------------------------------------------------------------------
(* The handlers. *)

LEMMA FormInv ==
  ASSUME IInv, NEW w \in Worker, NEW id \in Record, NEW p \in Asked, Form(w, id, p)
  PROVE  IInv'
<1> DEFINE kind == KindOf[id]
<1> DEFINE set == FromForm(kind, p)
<1>1. kind \in Kind
  BY KindAssumption
<1>2. /\ Take(w, id, DOMAIN p, FALSE, set) /\ rows[id] # None /\ used' = used
      /\ IsForm(kind, p) /\ p["title"] # Blank
  BY DEF Form
<1>3. DOMAIN set = FormColumns(kind) /\ \A c \in FormColumns(kind) : set[c] \in Legal(kind, c)
  BY <1>1, <1>2, FormLegal
<1>4. FormColumns(kind) \subseteq Columns(kind) /\ "source" \notin FormColumns(kind)
  BY <1>1, ColumnFacts
<1>5. \A c \in FormColumns(kind) : c \in DOMAIN p \/ Unsent(kind, c, set[c], DOMAIN p)
  BY <1>1, <1>2, FormClears
<1>. HIDE DEF set
<1>. QED  BY <1>2, <1>3, <1>4, <1>5, TakeInv

LEMMA InlineInv ==
  ASSUME IInv, NEW w \in Worker, NEW id \in Record, NEW p \in Asked, Inline(w, id, p)
  PROVE  IInv'
<1> DEFINE kind == KindOf[id]
<1> DEFINE set == Merged(kind, rows[id], p)
<1>1. kind \in Kind
  BY KindAssumption
<1>2. /\ Take(w, id, Sent(p), FALSE, set) /\ rows[id] # None /\ used' = used
      /\ DOMAIN p \subseteq InlineColumns(kind)
  BY DEF Inline
<1>3. rows[id] \in Row(kind)
  BY <1>2 DEF IInv, TypeOK
<1>4. DOMAIN set = FormColumns(kind) /\ \A c \in FormColumns(kind) : set[c] \in Legal(kind, c)
  BY <1>1, <1>2, <1>3, MergedLegal
<1>5. FormColumns(kind) \subseteq Columns(kind) /\ "source" \notin FormColumns(kind)
  BY <1>1, ColumnFacts
<1>6. \A c \in FormColumns(kind) :
        \/ c \in Sent(p)
        \/ set[c] = rows[id][c]
        \/ Unsent(kind, c, set[c], Sent(p))
  BY <1>1, MergedKeeps
<1>. HIDE DEF set
<1>. QED  BY <1>2, <1>4, <1>5, <1>6, TakeInv

LEMMA MoveCardInv ==
  ASSUME IInv, NEW w \in Worker, NEW id \in Record, NEW status,
         MoveCard(w, id, status)
  PROVE  IInv'
<1> DEFINE set == [c \in {"status"} |-> status]
<1>1. /\ Take(w, id, {"status"}, FALSE, set) /\ rows[id] # None /\ used' = used
      /\ KindOf[id] \in {"goal", "experiment"} /\ status \in Statuses(KindOf[id])
  BY DEF MoveCard
<1>2. DOMAIN set = {"status"} /\ set["status"] = status
  OBVIOUS
<1>3. "status" \in Columns(KindOf[id])
  BY <1>1 DEF Columns, FormColumns
<1>4. status \in Legal(KindOf[id], "status")
  BY <1>1 DEF Legal
<1>. HIDE DEF set
<1>. QED  BY <1>1, <1>2, <1>3, <1>4, TakeInv

LEMMA NewInv ==
  ASSUME IInv, NEW w \in Worker, NEW id \in Record, NEW row \in Row(KindOf[id]),
         New(w, id, row),
         KindOf[id] = "note" /\ row["source"] # None =>
           row["body"] \in told[row["source"]] \ {Blank}
  PROVE  IInv'
<1>1. /\ Take(w, id, DOMAIN row, TRUE, row)
      /\ id \notin used /\ used' = used \cup {id}
  BY DEF New
<1>2. /\ DOMAIN row = Columns(KindOf[id])
      /\ \A c \in Columns(KindOf[id]) : row[c] \in Legal(KindOf[id], c)
  BY RowElim, KindAssumption
<1>. QED  BY <1>1, <1>2, TakeInv

LEMMA NewGoalInv ==
  ASSUME IInv, NEW w \in Worker, NEW id \in Record,
         NEW title \in Text, NEW body \in Text, NEW who \in User \cup {None},
         NewGoal(w, id, title, body, who)
  PROVE  IInv'
<1> DEFINE value(c) == CASE c = "title" -> title [] c = "body" -> body
                         [] c = "status" -> "open" [] c = "assigned_to" -> who
<1> DEFINE row == [c \in Columns("goal") |-> value(c)]
<1>1. KindOf[id] = "goal" /\ title # Blank /\ New(w, id, row)
  BY DEF NewGoal
<1>2. "goal" \in Kind
  BY DEF Kind
<1>3. row = [c \in Columns("goal") |-> row[c]]
  <2>. HIDE DEF value
  <2>. QED  OBVIOUS
<1>4. ASSUME NEW c \in Columns("goal")
      PROVE  row[c] \in Legal("goal", c)
  <2>1. CASE c = "title"  BY <1>1, <2>1 DEF Legal
  <2>2. CASE c = "body"  BY <2>2 DEF Legal
  <2>3. CASE c = "status"  BY <2>3 DEF Legal, Statuses
  <2>4. CASE c = "assigned_to"  BY <2>4 DEF Legal
  <2>. QED  BY <2>1, <2>2, <2>3, <2>4, GoalColumns
<1>. HIDE DEF row
<1>5. row \in Row(KindOf[id])
  BY <1>1, <1>2, <1>3, <1>4, RowIntro
<1>. QED  BY <1>1, <1>5, NewInv

(* A note of a title and a body. *)
LEMMA NoteOfRow ==
  ASSUME NEW title \in Text \ {Blank}, NEW body \in Text,
         NEW source \in {x \in Record : KindOf[x] = "experiment"} \cup {None}
  PROVE  /\ NoteOf(title, body, source) \in Row("note")
         /\ NoteOf(title, body, source)["body"] = body
         /\ NoteOf(title, body, source)["source"] = source
<1> DEFINE row == NoteOf(title, body, source)
<1> DEFINE value(c) == CASE c = "title" -> title [] c = "body" -> body [] c = "source" -> source
<1>1. row = [c \in Columns("note") |-> row[c]]
  <2>1. row = [c \in Columns("note") |-> value(c)]
    BY DEF NoteOf
  <2>. HIDE DEF value, row
  <2>. QED  BY <2>1
<1>2. row["title"] = title /\ row["body"] = body /\ row["source"] = source
  BY NoteColumns DEF NoteOf
<1>3. title \in Legal("note", "title")
  BY DEF Legal
<1>4. body \in Legal("note", "body")
  BY DEF Legal
<1>5. source \in Legal("note", "source")
  BY DEF Legal
<1>6. "note" \in Kind
  BY DEF Kind
<1>. HIDE DEF row
<1>7. \A c \in Columns("note") : row[c] \in Legal("note", c)
  BY <1>2, <1>3, <1>4, <1>5, NoteColumns
<1>8. row \in Row("note")
  BY <1>1, <1>6, <1>7, RowIntro
<1>. QED  BY <1>2, <1>8 DEF row

LEMMA NewNoteInv ==
  ASSUME IInv, NEW w \in Worker, NEW id \in Record,
         NEW title \in Text, NEW body \in Text, NewNote(w, id, title, body)
  PROVE  IInv'
<1>1. KindOf[id] = "note" /\ title # Blank /\ New(w, id, NoteOf(title, body, None))
  BY DEF NewNote
<1>2. /\ NoteOf(title, body, None) \in Row("note")
      /\ NoteOf(title, body, None)["source"] = None
  BY <1>1, NoteOfRow
<1>. QED  BY <1>1, <1>2, NewInv

LEMMA ExtractInv ==
  ASSUME IInv, NEW w \in Worker, NEW id \in Record, NEW x \in Record, Extract(w, id, x)
  PROVE  IInv'
<1> DEFINE title == rows[x]["title"]
<1> DEFINE body == Extracted(rows[x])
<1>1. /\ KindOf[id] = "note" /\ KindOf[x] = "experiment" /\ rows[x] # None
      /\ body # Blank /\ New(w, id, NoteOf(title, body, x))
  BY DEF Extract
<1>2. rows[x] \in Row("experiment") /\ Told(rows[x]) \subseteq told[x]
  BY <1>1 DEF IInv, TypeOK, ToldAll
<1>3. Columns("experiment") = {"title", "hypothesis", "status", "result", "lesson"}
  BY DEF Columns, FormColumns
<1>4. /\ DOMAIN rows[x] = Columns("experiment")
      /\ title \in Legal("experiment", "title")
  BY <1>2, <1>3, RowElim DEF Kind
<1>5. title \in Text \ {Blank}
  BY <1>4 DEF Legal
<1>6. body \in Told(rows[x])
  BY <1>3, <1>4 DEF Told, Extracted
<1>7. body \in told[x] \ {Blank} /\ body \in Text
  BY <1>1, <1>2, <1>6 DEF IInv, TypeOK
<1>. HIDE DEF title, body
<1>8. /\ NoteOf(title, body, x) \in Row("note")
      /\ NoteOf(title, body, x)["body"] = body
      /\ NoteOf(title, body, x)["source"] = x
  BY <1>1, <1>5, <1>7, NoteOfRow
<1>. QED  BY <1>1, <1>7, <1>8, NewInv

-----------------------------------------------------------------------------
(* What a request makes of its record is a row of the record's table, and   *)
(* an edit changes only the columns it sets.                                *)
LEMMA ResultRow ==
  ASSUME IInv, NEW w \in Worker, request[w] # None, Result(request[w]) # None
  PROVE  LET r == request[w] new == Result(r) IN
         /\ new \in Row(KindOf[r.id])
         /\ r.insert => new = r.set
         /\ ~r.insert => /\ rows[r.id] # None
                         /\ \A c \in Columns(KindOf[r.id]) :
                              new[c] = IF c \in DOMAIN r.set THEN r.set[c] ELSE rows[r.id][c]
<1> DEFINE r == request[w]
<1> DEFINE new == Result(r)
<1>1. IsRequest(r) /\ r.id \in Record /\ KindOf[r.id] \in Kind
  BY KindAssumption DEF IInv, TypeOK, IsRequest
<1>2. CASE r.insert
  BY <1>1, <1>2 DEF Result, IsRequest
<1>3. CASE ~r.insert
  <2>1. /\ rows[r.id] # None
        /\ new = [c \in DOMAIN rows[r.id] |->
                    IF c \in DOMAIN r.set THEN r.set[c] ELSE rows[r.id][c]]
    BY <1>3 DEF Result
  <2>2. rows[r.id] \in Row(KindOf[r.id])
    BY <1>1, <2>1 DEF IInv, TypeOK
  <2>3. /\ DOMAIN rows[r.id] = Columns(KindOf[r.id])
        /\ \A c \in Columns(KindOf[r.id]) : rows[r.id][c] \in Legal(KindOf[r.id], c)
    BY <1>1, <2>2, RowElim
  <2>4. \A c \in Columns(KindOf[r.id]) :
          /\ new[c] = IF c \in DOMAIN r.set THEN r.set[c] ELSE rows[r.id][c]
          /\ new[c] \in Legal(KindOf[r.id], c)
    BY <1>1, <2>1, <2>3 DEF IsRequest
  <2>5. new = [c \in Columns(KindOf[r.id]) |-> new[c]]
    BY <2>1, <2>3
  <2>6. new \in Row(KindOf[r.id])
    <3>. HIDE DEF new
    <3>. QED  BY <1>1, <2>4, <2>5, RowIntro
  <2>. QED  BY <1>3, <2>1, <2>4, <2>6
<1>. QED  BY <1>2, <1>3

(* One request is served. *)
LEMMA WriteInv ==
  ASSUME IInv, NEW w \in Worker, Write(w)
  PROVE  IInv'
<1> DEFINE r == request[w]
<1> DEFINE new == Result(r)
<1> DEFINE kind == KindOf[r.id]
<1>1. /\ r # None /\ IsRequest(r) /\ r.id \in Record /\ kind \in Kind
  BY KindAssumption DEF Write, IInv, TypeOK, IsRequest
<1>2. /\ rows' = [rows EXCEPT ![r.id] = new]
      /\ request' = [request EXCEPT ![w] = None]
      /\ used' = used /\ served' = served
  BY DEF Write
<1>3. /\ request'[w] = None
      /\ \A v \in Worker \ {w} : request'[v] = request[v]
  BY <1>2 DEF IInv, TypeOK
<1>4. /\ rows'[r.id] = new /\ DOMAIN rows' = Record
      /\ \A id \in Record \ {r.id} : rows'[id] = rows[id]
  BY <1>1, <1>2 DEF IInv, TypeOK
<1>5. new # None => new \in Row(kind) /\ DOMAIN new = Columns(kind) /\ Columns(kind) \subseteq Column
  BY <1>1, ResultRow, RowElim, ColumnFacts
<1>6. /\ \A id \in Record \ {r.id} : revisions'[id] = revisions[id]
      /\ kind = "note" /\ new # None => revisions'[r.id] = Append(revisions[r.id], Snapshot(new))
      /\ ~(kind = "note" /\ new # None) => revisions' = revisions
  BY <1>1 DEF Write, Logged, IInv, TypeOK
<1>7. /\ \A id \in Record : told[id] \subseteq told'[id]
      /\ \A id \in Record \ {r.id} : told'[id] = told[id]
      /\ new # None => told'[r.id] = told[r.id] \cup Told(new)
  BY <1>1 DEF Write, IInv, TypeOK
<1>8. \A v \in Worker \ {w} :
        /\ missed[v] \subseteq missed'[v]
        /\ request[v] # None /\ request[v].id = r.id /\ new # None =>
             \A c \in DOMAIN new : rows[r.id] # None /\ new[c] # rows[r.id][c] => c \in missed'[v]
  BY DEF Write, IInv, TypeOK
<1>9. TypeOK'
  <2>1. \A id \in Record : rows'[id] # None => rows'[id] \in Row(KindOf[id]) /\ id \in used'
    <3> SUFFICES ASSUME NEW id \in Record, rows'[id] # None
                 PROVE  rows'[id] \in Row(KindOf[id]) /\ id \in used
      BY <1>2
    <3>1. CASE id = r.id
      BY <1>1, <1>4, <1>5, <3>1 DEF IInv, InUse
    <3>2. CASE id # r.id
      BY <1>4, <3>2 DEF IInv, TypeOK
    <3>. QED  BY <3>1, <3>2
  <2>2. revisions' \in [Record -> Seq([title : Text, body : Text])]
    <3> DEFINE S == [title : Text, body : Text]
    <3>1. revisions \in [Record -> Seq(S)]
      BY DEF IInv, TypeOK
    <3>2. new # None /\ kind = "note" => Snapshot(new) \in S
      BY <1>5, NoteSnapshot
    <3>3. \/ revisions' = revisions
          \/ /\ kind = "note" /\ new # None
             /\ revisions' = [revisions EXCEPT ![r.id] = Append(@, Snapshot(new))]
      BY DEF Write, Logged
    <3>. HIDE DEF S, new
    <3>4. kind = "note" /\ new # None => Append(revisions[r.id], Snapshot(new)) \in Seq(S)
      BY <1>1, <3>1, <3>2
    <3>5. revisions' \in [Record -> Seq(S)]
      BY <3>1, <3>3, <3>4
    <3>. QED  BY <3>5 DEF S
  <2>3. DOMAIN request' = Worker /\ \A v \in Worker : request'[v] # None => IsRequest(request[v])
    BY <1>2, <1>3 DEF IInv, TypeOK
  <2>4. \A v \in Worker : request'[v] # None => IsRequest(request'[v])
    BY <1>3, <2>3
  <2>5. missed' \in [Worker -> SUBSET Column]
    BY <1>5 DEF Write, IInv, TypeOK
  <2>6. told' \in [Record -> SUBSET Text]
    <3>1. new # None => Told(new) \subseteq Text
      BY <1>1, <1>5, ToldTexts
    <3>. HIDE DEF new
    <3>2. told' = told \/ (new # None /\ told' = [told EXCEPT ![r.id] = @ \cup Told(new)])
      BY DEF Write, new
    <3>. QED  BY <1>1, <3>1, <3>2 DEF IInv, TypeOK
  <2>7. \A v \in Worker : IsRequest(request[v])' <=> IsRequest(request'[v])
    BY DEF IsRequest
  <2>. QED  BY <1>2, <1>4, <2>1, <2>2, <2>3, <2>4, <2>5, <2>6, <2>7 DEF IInv, TypeOK
<1>10. InUse'
  <2>1. r.id \in used
    BY <1>1 DEF IInv, InUse
  <2>. QED  BY <1>2, <1>3, <1>6, <2>1 DEF IInv, InUse
<1>11. ToldAll'
  BY <1>4, <1>7 DEF IInv, ToldAll
<1>12. HistoryDescribesNote'
  <2> SUFFICES ASSUME NEW id \in Record, KindOf[id] = "note", rows'[id] # None
               PROVE  /\ revisions'[id] # << >>
                      /\ revisions'[id][Len(revisions'[id])] = Snapshot(rows'[id])
    BY DEF HistoryDescribesNote, Snapshot
  <2>1. CASE id = r.id
    <3>1. revisions'[id] = Append(revisions[id], Snapshot(new)) /\ rows'[id] = new
      BY <1>4, <1>6, <2>1
    <3>2. revisions[id] \in Seq([title : Text, body : Text])
      BY DEF IInv, TypeOK
    <3>. HIDE DEF new
    <3>. QED  BY <3>1, <3>2
  <2>2. CASE id # r.id
    BY <1>4, <1>6, <2>2 DEF IInv, HistoryDescribesNote
  <2>. QED  BY <2>1, <2>2
<1>13. ExtractsQuote'
  <2> SUFFICES ASSUME NEW id \in Record, KindOf[id] = "note", rows'[id] # None,
                      rows'[id]["source"] # None
               PROVE  revisions'[id][1].body \in told'[rows'[id]["source"]] \ {Blank}
    BY DEF ExtractsQuote
  <2>1. CASE id # r.id
    <3>1. /\ rows'[id] = rows[id] /\ revisions'[id] = revisions[id]
          /\ rows[id] \in Row("note")
      BY <1>4, <1>6, <2>1 DEF IInv, TypeOK
    <3>2. rows[id]["source"] \in Record
      BY <3>1, NoteSnapshot
    <3>. QED  BY <1>7, <3>1, <3>2 DEF IInv, ExtractsQuote
  <2>2. CASE id = r.id /\ r.insert
    <3>1. new = r.set /\ revisions[id] = << >> /\ new \in Row("note")
      BY <1>1, <1>4, <1>5, <2>2, ResultRow DEF IInv, Inserts
    <3>2. new["body"] \in told[new["source"]] \ {Blank}
      BY <1>1, <1>4, <2>2, <3>1 DEF IInv, Inserts
    <3>3. new["source"] \in Record /\ Snapshot(new).body = new["body"]
      BY <1>4, <2>2, <3>1, NoteSnapshot
    <3>4. revisions'[id] = Append(<< >>, Snapshot(new)) /\ rows'[id] = new
      BY <1>4, <1>6, <2>2, <3>1
    <3>. HIDE DEF new
    <3>5. revisions'[id][1] = Snapshot(new)
      BY <3>4
    <3>. QED  BY <1>7, <3>2, <3>3, <3>4, <3>5
  <2>3. CASE id = r.id /\ ~r.insert
    <3>1. /\ rows[id] # None /\ new["source"] = rows[id]["source"]
      BY <1>1, <1>4, <2>3, ResultRow, NoteColumns DEF IInv, Edits
    <3>2. /\ revisions[id] # << >> /\ revisions[id] \in Seq([title : Text, body : Text])
          /\ revisions[id][1].body \in told[rows[id]["source"]] \ {Blank}
      BY <1>4, <2>3, <3>1 DEF IInv, TypeOK, HistoryDescribesNote, ExtractsQuote
    <3>3. revisions'[id] = Append(revisions[id], Snapshot(new)) /\ rows'[id] = new
      BY <1>4, <1>6, <2>3
    <3>4. rows[id]["source"] \in Record
      BY <1>4, <2>3, <3>1, NoteSnapshot DEF IInv, TypeOK
    <3>. HIDE DEF new
    <3>5. revisions'[id][1] = revisions[id][1]
      BY <3>2, <3>3
    <3>. QED  BY <1>7, <3>1, <3>2, <3>3, <3>4, <3>5
  <2>. QED  BY <2>1, <2>2, <2>3
<1>14. ASSUME NEW v \in Worker PROVE Edits(v)'
  <2>1. CASE v = w
    BY <1>3, <2>1 DEF Edits
  <2>2. CASE v # w /\ request[v] # None /\ ~request[v].insert
    <3> DEFINE u == request[v]
    <3>1. u.id \in Record /\ request'[v] = u /\ Edits(v)
      BY <1>3, <2>2 DEF IInv, TypeOK, IsRequest
    <3>2. CASE u.id # r.id
      BY <1>4, <1>8, <2>2, <3>1, <3>2 DEF Edits
    <3>3. CASE u.id = r.id /\ new = None
      BY <1>4, <2>2, <3>1, <3>3 DEF Edits
    <3>4. CASE u.id = r.id /\ new # None
      <4>1. ~r.insert
        BY <1>1, <2>2, <3>4 DEF IInv, Inserts
      <4>2. rows[r.id] # None
        BY <1>1, <3>4, <4>1, ResultRow
      <4>3. DOMAIN u.set \subseteq DOMAIN new
        BY <1>5, <2>2, <3>4 DEF IInv, TypeOK, IsRequest
      <4>. HIDE DEF new
      <4>4. \A c \in DOMAIN u.set : c \in missed'[v] \/ new[c] = rows[r.id][c]
        BY <1>8, <2>2, <3>4, <4>2, <4>3
      <4>. QED  BY <1>4, <1>8, <2>2, <3>1, <3>4, <4>2, <4>4 DEF Edits
    <3>. QED  BY <3>2, <3>3, <3>4
  <2>3. CASE v # w /\ (request[v] = None \/ request[v].insert)
    BY <1>3, <2>3 DEF Edits
  <2>. QED  BY <2>1, <2>2, <2>3
<1>15. ASSUME NEW v \in Worker PROVE Inserts(v)'
  <2>1. CASE request'[v] = None \/ ~request'[v].insert
    BY <2>1 DEF Inserts
  <2>2. CASE request'[v] # None /\ request'[v].insert
    <3> DEFINE u == request[v]
    <3>1. v # w /\ request'[v] = u /\ u.id \in Record /\ Inserts(v) /\ u.set \in Row(KindOf[u.id])
      BY <1>3, <2>2 DEF IInv, TypeOK, IsRequest
    <3>2. u.id # r.id
      BY <1>1, <2>2, <3>1 DEF Inserts
    <3>3. rows'[u.id] = rows[u.id] /\ revisions'[u.id] = revisions[u.id]
      BY <1>4, <1>6, <3>1, <3>2
    <3>4. KindOf[u.id] = "note" /\ u.set["source"] # None => u.set["source"] \in Record
      BY <3>1, NoteSnapshot
    <3>. QED  BY <1>3, <1>7, <2>2, <3>1, <3>3, <3>4 DEF Inserts
  <2>. QED  BY <2>1, <2>2
<1>. QED  BY <1>9, <1>10, <1>11, <1>12, <1>13, <1>14, <1>15 DEF IInv

(* A request is dropped. *)
LEMMA DropInv ==
  ASSUME IInv, NEW w \in Worker, Drop(w)
  PROVE  IInv'
<1>1. /\ request'[w] = None /\ DOMAIN request' = Worker
      /\ \A v \in Worker \ {w} : request'[v] = request[v]
  BY DEF Drop, IInv, TypeOK
<1>2. /\ missed' \in [Worker -> SUBSET Column]
      /\ \A v \in Worker \ {w} : missed'[v] = missed[v]
  BY DEF Drop, IInv, TypeOK
<1>3. TypeOK'
  <2>1. \A v \in Worker : request'[v] # None => IsRequest(request'[v])
    BY <1>1 DEF IInv, TypeOK
  <2>2. \A v \in Worker : IsRequest(request[v])' <=> IsRequest(request'[v])
    BY DEF IsRequest
  <2>. QED  BY <1>1, <1>2, <2>1, <2>2 DEF Drop, IInv, TypeOK
<1>4. InUse' /\ ToldAll' /\ HistoryDescribesNote' /\ ExtractsQuote'
  BY <1>1 DEF Drop, IInv, InUse, ToldAll, HistoryDescribesNote, ExtractsQuote
<1>5. ASSUME NEW v \in Worker PROVE Edits(v)' /\ Inserts(v)'
  <2>1. Edits(v)'
    BY <1>1, <1>2 DEF Drop, IInv, Edits
  <2>2. Inserts(v)'
    BY <1>1 DEF Drop, IInv, Inserts
  <2>. QED  BY <2>1, <2>2
<1>. QED  BY <1>3, <1>4, <1>5 DEF IInv

(* Records are deleted. *)
LEMMA DeleteInv ==
  ASSUME IInv, NEW id \in Record, Delete(id)
  PROVE  IInv'
<1>1. /\ DOMAIN rows' = Record
      /\ \A i \in Record : rows'[i] = None \/ rows'[i] = rows[i]
  BY DEF Delete
<1>2. UNCHANGED <<revisions, used, request, served, missed, told>>
  BY DEF Delete
<1>3. TypeOK'
  BY <1>1, <1>2 DEF IInv, TypeOK, IsRequest
<1>4. InUse' /\ ToldAll' /\ HistoryDescribesNote' /\ ExtractsQuote'
  BY <1>1, <1>2 DEF IInv, InUse, ToldAll, HistoryDescribesNote, ExtractsQuote
<1>5. ASSUME NEW w \in Worker PROVE Edits(w)' /\ Inserts(w)'
  <2>1. request[w] # None => request[w].id \in Record
    BY DEF IInv, TypeOK, IsRequest
  <2>2. Edits(w)'
    BY <1>1, <1>2, <2>1 DEF IInv, Edits
  <2>3. Inserts(w)'
    BY <1>1, <1>2, <2>1 DEF IInv, Inserts
  <2>. QED  BY <2>2, <2>3
<1>. QED  BY <1>3, <1>4, <1>5 DEF IInv

LEMMA StepInv == IInv /\ [Next]_vars => IInv'
<1> SUFFICES ASSUME IInv, [Next]_vars PROVE IInv'  OBVIOUS
<1>1. ASSUME NEW w \in Worker, NEW id \in Record,
             \/ \E p \in Asked : Form(w, id, p) \/ Inline(w, id, p)
             \/ \E status \in Statuses(KindOf[id]) : MoveCard(w, id, status)
             \/ \E title, body \in Text, who \in User \cup {None} : NewGoal(w, id, title, body, who)
             \/ \E title, body \in Text : NewNote(w, id, title, body) \/ Capture(w, id, title, body)
             \/ \E x \in Record : Extract(w, id, x)
      PROVE  IInv'
  BY <1>1, FormInv, InlineInv, MoveCardInv, NewGoalInv, NewNoteInv, ExtractInv DEF Capture
<1>2. ASSUME NEW w \in Worker, Write(w) \/ Drop(w) PROVE IInv'
  BY <1>2, WriteInv, DropInv
<1>3. ASSUME NEW id \in Record, Delete(id) PROVE IInv'
  BY <1>3, DeleteInv
<1>4. CASE UNCHANGED vars
  <2>1. TypeOK'
    BY <1>4 DEF vars, IInv, TypeOK, IsRequest
  <2>2. InUse' /\ ToldAll' /\ HistoryDescribesNote' /\ ExtractsQuote'
    BY <1>4 DEF vars, IInv, InUse, ToldAll, HistoryDescribesNote, ExtractsQuote
  <2>3. \A w \in Worker : Edits(w)' /\ Inserts(w)'
    BY <1>4 DEF vars, IInv, Edits, Inserts
  <2>. QED  BY <2>1, <2>2, <2>3 DEF IInv
<1>. QED  BY <1>1, <1>2, <1>3, <1>4 DEF Next

-----------------------------------------------------------------------------
(* In whatever order requests read and write: titles are not blank, a       *)
(* status is one the table allows, a note's source is an experiment.        *)
THEOREM TypeCorrect == Spec => []TypeOK
<1>1. IInv => TypeOK
  BY DEF IInv
<1>. QED  BY InitInv, StepInv, <1>1, PTL DEF Spec

(* The newest revision of a note is the note, whoever wrote it and whatever *)
(* was written between its request's read and its write.                    *)
THEOREM NoteHistoryCorrect == Spec => []HistoryDescribesNote
<1>1. IInv => HistoryDescribesNote
  BY DEF IInv
<1>. QED  BY InitInv, StepInv, <1>1, PTL DEF Spec

(* A note extracted from an experiment began as what the experiment once    *)
(* said as its lesson or result.                                            *)
THEOREM ExtractionCorrect == Spec => []ExtractsQuote
<1>1. IInv => ExtractsQuote
  BY DEF IInv
<1>. QED  BY InitInv, StepInv, <1>1, PTL DEF Spec

(* The columns one request changes were sent by its client, or changed by   *)
(* another since it read the record, or are written unsent.                 *)
LEMMA WriteLoses ==
  ASSUME IInv, NEW w \in Worker, Write(w),
         NEW id \in Record, rows[id] # None, rows'[id] # None,
         NEW c \in Columns(KindOf[id]), rows'[id][c] # rows[id][c]
  PROVE  /\ request[w] # None /\ request'[w] = None /\ request[w].id = id
         /\ \/ c \in request[w].carries \cup missed[w]
            \/ Unsent(KindOf[id], c, rows'[id][c], request[w].carries)
<1> DEFINE r == request[w]
<1> DEFINE new == Result(r)
<1>1. /\ r # None /\ r.id \in Record /\ request'[w] = None
      /\ rows' = [rows EXCEPT ![r.id] = new]
  BY DEF Write, IInv, TypeOK, IsRequest
<1>2. r.id = id /\ rows'[id] = new /\ new # None
  BY <1>1 DEF IInv, TypeOK
<1>3. ~r.insert
  BY <1>1, <1>2 DEF IInv, Inserts
<1>4. new[c] = IF c \in DOMAIN r.set THEN r.set[c] ELSE rows[id][c]
  BY <1>1, <1>2, <1>3, ResultRow
<1>. HIDE DEF new
<1>5. c \in DOMAIN r.set /\ r.set[c] = rows'[id][c] /\ r.set[c] # rows[id][c]
  BY <1>2, <1>4
<1>6. Edits(w)
  BY DEF IInv
<1>. QED  BY <1>1, <1>2, <1>3, <1>5, <1>6 DEF Edits

(* Edits of different fields are lost only when they overlap, but for a     *)
(* project's status and a goal's assignee, in the ways Unsent names:        *)
(* whatever the records, what is sent and however many requests are being   *)
(* served.                                                                  *)
THEOREM EditsLoseOnlyOverlaps == Spec => OnlySentOrMissed
<1> DEFINE Keeps ==
      \A id \in Record : rows[id] # None /\ rows'[id] # None =>
        \A c \in Columns(KindOf[id]) : rows'[id][c] # rows[id][c] =>
          \E w \in Worker :
            /\ request[w] # None /\ request'[w] = None
            /\ request[w].id = id
            /\ \/ c \in request[w].carries \cup missed[w]
               \/ Unsent(KindOf[id], c, rows'[id][c], request[w].carries)
<1>1. ASSUME IInv, NEW w \in Worker, Write(w) PROVE Keeps
  BY <1>1, WriteLoses
<1>2. ASSUME NEW w \in Worker, Drop(w) PROVE Keeps
  BY <1>2 DEF Drop
<1>3. ASSUME NEW id \in Record, Delete(id) PROVE Keeps
  BY <1>3 DEF Delete
<1>4. ASSUME NEW w \in Worker, NEW id \in Record,
             \/ \E p \in Asked : Form(w, id, p) \/ Inline(w, id, p)
             \/ \E status \in Statuses(KindOf[id]) : MoveCard(w, id, status)
             \/ \E title, body \in Text, who \in User \cup {None} : NewGoal(w, id, title, body, who)
             \/ \E title, body \in Text : NewNote(w, id, title, body) \/ Capture(w, id, title, body)
             \/ \E x \in Record : Extract(w, id, x)
      PROVE  Keeps
  BY <1>4 DEF Form, Inline, MoveCard, NewGoal, NewNote, Capture, Extract, New, Take
<1>5. IInv /\ Next => Keeps
  BY <1>1, <1>2, <1>3, <1>4 DEF Next
<1>6. IInv /\ [Next]_vars => [Keeps]_vars
  BY <1>5
<1>. QED  BY InitInv, StepInv, <1>6, PTL DEF Spec, OnlySentOrMissed
=============================================================================

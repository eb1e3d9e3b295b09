----------------------------- MODULE ServeProofs ------------------------------
(***************************************************************************)
(* Theorems about parts of the server that stand by themselves, for any    *)
(* size: the search index and its migrations (Schema), the reload of the   *)
(* certificate (CertReload), the login limiter (LoginLimiter), and the     *)
(* story of a project with its editor (Story).  They share no state and no *)
(* name; each has a part of its own.                                       *)
(***************************************************************************)
EXTENDS Schema, CertReload, LoginLimiter, Story, FiniteSetTheorems,
        WellFoundedInduction, TLAPS

(***************************************************************************)
(* Schema.  That the triggers keep the index is inductive together with    *)
(* what each migration leaves of them, and with the index being empty as   *)
(* long as there is none: the backfill then doubles nothing.               *)
(***************************************************************************)

TriggersByVersion ==
  /\ version = 6 => triggers = {} /\ index = NoEntries
  /\ version \in {7, 11} => triggers = Indexed

SchemaInv ==
  /\ SchemaTypeOK
  /\ TriggersKeepSync
  /\ TriggersByVersion

-----------------------------------------------------------------------------
(* What EntriesDue says, without the set of rows.                           *)
LEMMA DueFacts ==
  ASSUME NEW k \in Kind, NEW i \in Id
  PROVE  /\ rows[i] # None /\ rows[i].kind = k => EntriesDue(k, i) = <<rows[i].text>>
         /\ ~(rows[i] # None /\ rows[i].kind = k) => EntriesDue(k, i) = <<>>
BY DEF EntriesDue, Rows

LEMMA SchemaInitInv == SchemaInit => SchemaInv
<1>. QED
  BY DEF SchemaInit, SchemaInv, SchemaTypeOK, Versions, NoEntries, TriggersKeepSync,
         TriggersByVersion

-----------------------------------------------------------------------------
LEMMA InsertInv ==
  ASSUME SchemaInv, NEW i \in Id, NEW r \in Row, Insert(i, r)
  PROVE  SchemaInv'
<1> USE NoneIsNoRow DEF SchemaInv
<1>1. /\ rows' = [rows EXCEPT ![i] = r] /\ rows[i] = None
      /\ index' = IF r.kind \in triggers
                  THEN [index EXCEPT ![r.kind][i] = Append(@, r.text)] ELSE index
      /\ UNCHANGED <<version, triggers>>
      /\ \A k \in Indexed : index[k][i] = <<>>
  BY DEF Insert, FreshId
<1>2. triggers \subseteq Indexed /\ r.text \in Text /\ r.kind \in Kind
  BY DEF SchemaTypeOK, Row
<1>3. rows' \in [Id -> Row \cup {None}]
  BY <1>1 DEF SchemaTypeOK
<1>4. \A j \in Id : rows'[j] = IF j = i THEN r ELSE rows[j]
  BY <1>1 DEF SchemaTypeOK
<1>5. ASSUME NEW k \in Indexed, NEW j \in Id
      PROVE  index'[k][j] = IF k = r.kind /\ k \in triggers /\ j = i
                            THEN <<r.text>> ELSE index[k][j]
  <2>1. /\ index[k] \in [Id -> Seq(Text)]
        /\ r.kind \in triggers => r.kind \in Indexed
    BY <1>2 DEF SchemaTypeOK
  <2>2. r.kind \in triggers => Append(index[r.kind][i], r.text) = <<r.text>>
    <3>1. r.kind \in triggers => index[r.kind][i] = <<>>
      BY <1>1, <2>1
    <3>2. Append(<<>>, r.text) = <<r.text>>
      OBVIOUS
    <3>. QED  BY <3>1, <3>2
  <2>3. index' = IF r.kind \in triggers
                 THEN [index EXCEPT ![r.kind][i] = <<r.text>>] ELSE index
    BY <1>1, <2>2
  <2>. QED  BY <2>1, <2>3 DEF SchemaTypeOK
<1>6. index' \in [Indexed -> [Id -> Seq(Text)]]
  <2>1. CASE r.kind \in triggers
    <3>1. Append(index[r.kind][i], r.text) \in Seq(Text)
      BY <1>2, <2>1 DEF SchemaTypeOK
    <3>. QED  BY <1>1, <2>1, <3>1 DEF SchemaTypeOK
  <2>2. CASE r.kind \notin triggers
    BY <1>1, <2>2 DEF SchemaTypeOK
  <2>. QED  BY <2>1, <2>2
<1>7. TriggersKeepSync'
  <2> SUFFICES ASSUME NEW k \in triggers, NEW j \in Id
               PROVE  index'[k][j] = EntriesDue(k, j)'
    BY <1>1 DEF TriggersKeepSync
  <2>1. k \in Indexed /\ k \in Kind /\ index[k][j] = EntriesDue(k, j)
    BY <1>2 DEF TriggersKeepSync, Kind
  <2>2. CASE j = i
    <3>1. index'[k][j] = IF k = r.kind THEN <<r.text>> ELSE <<>>
      BY <1>1, <1>5, <2>1, <2>2
    <3>2. EntriesDue(k, j)' = IF k = r.kind THEN <<r.text>> ELSE <<>>
      BY <1>3, <1>4, <2>2 DEF EntriesDue, Rows
    <3>. QED  BY <3>1, <3>2
  <2>3. CASE j # i
    <3>1. EntriesDue(k, j)' = EntriesDue(k, j)
      BY <1>4, <2>3 DEF EntriesDue, Rows
    <3>. QED  BY <1>5, <2>1, <2>3, <3>1
  <2>. QED  BY <2>2, <2>3
<1>8. TriggersByVersion'
  BY <1>1 DEF TriggersByVersion
<1>. QED  BY <1>1, <1>3, <1>6, <1>7, <1>8 DEF SchemaTypeOK

LEMMA EditInv ==
  ASSUME SchemaInv, NEW i \in Id, NEW t \in Text, Edit(i, t)
  PROVE  SchemaInv'
<1> USE NoneIsNoRow DEF SchemaInv
<1> DEFINE kind == rows[i].kind
<1>1. /\ rows' = [rows EXCEPT ![i].text = t] /\ rows[i] # None
      /\ kind \in Indexed
      /\ index' = IF kind \in triggers
                  THEN [index EXCEPT ![kind][i] = [n \in 1..Len(@) |-> t]] ELSE index
      /\ UNCHANGED <<version, triggers>>
  BY DEF Edit, Rows
<1>2. rows[i] \in Row
  BY <1>1 DEF SchemaTypeOK
<1>3. /\ rows'[i] = [rows[i] EXCEPT !.text = t]
      /\ \A j \in Id : j # i => rows'[j] = rows[j]
  BY <1>1, Zenon DEF SchemaTypeOK
<1>4. /\ rows'[i] \in Row /\ rows'[i].kind = kind /\ rows'[i].text = t
      /\ rows'[i] # None
  BY <1>2, <1>3 DEF Row
<1>5. rows' \in [Id -> Row \cup {None}]
  BY <1>1, <1>3, <1>4 DEF SchemaTypeOK
<1>6. kind \in triggers => [n \in 1..Len(index[kind][i]) |-> t] = <<t>>
  <2> SUFFICES ASSUME kind \in triggers
               PROVE  [n \in 1..Len(index[kind][i]) |-> t] = <<t>>
    OBVIOUS
  <2>1. index[kind][i] = <<rows[i].text>>
    BY <1>1, DueFacts DEF TriggersKeepSync, Kind
  <2>2. Len(index[kind][i]) = 1
    BY <2>1
  <2>. QED  BY <2>2
<1>7. index' = IF kind \in triggers THEN [index EXCEPT ![kind][i] = <<t>>] ELSE index
  BY <1>1, <1>6
<1>8. <<t>> \in Seq(Text)
  OBVIOUS
<1> HIDE DEF kind
<1>9. index' \in [Indexed -> [Id -> Seq(Text)]]
  BY <1>1, <1>7, <1>8 DEF SchemaTypeOK
<1>10. TriggersKeepSync'
  <2> SUFFICES ASSUME NEW k \in triggers, NEW j \in Id
               PROVE  index'[k][j] = EntriesDue(k, j)'
    BY <1>1 DEF TriggersKeepSync
  <2>1. k \in Indexed /\ k \in Kind /\ index[k][j] = EntriesDue(k, j)
    BY DEF TriggersKeepSync, SchemaTypeOK, Kind
  <2>2. CASE j = i /\ k = kind
    <3>1. index'[k][j] = <<t>>
      BY <1>7, <2>1, <2>2 DEF SchemaTypeOK
    <3>2. EntriesDue(k, j)' = <<t>>
      BY <1>4, <2>2 DEF EntriesDue, Rows
    <3>. QED  BY <3>1, <3>2
  <2>3. CASE ~(j = i /\ k = kind)
    <3>1. index'[k][j] = index[k][j]
      BY <1>1, <1>7, <2>1, <2>3 DEF SchemaTypeOK
    <3>2. EntriesDue(k, j)' = EntriesDue(k, j)
      BY <1>1, <1>3, <1>4, <2>3 DEF EntriesDue, Rows, kind
    <3>. QED  BY <2>1, <3>1, <3>2
  <2>. QED  BY <2>2, <2>3
<1>11. TriggersByVersion'
  BY <1>1, <1>7 DEF TriggersByVersion
<1>. QED  BY <1>1, <1>5, <1>9, <1>10, <1>11 DEF SchemaTypeOK

(* Deleting leaves the kind and the text of the rows it leaves. *)
LEMMA WithoutKeeps ==
  ASSUME SchemaTypeOK, NEW D \in SUBSET Id
  PROVE  /\ Without(D) \in [Id -> Row \cup {None}]
         /\ \A i \in Id : Without(D)[i] # None =>
              /\ rows[i] # None /\ i \notin D
              /\ Without(D)[i].kind = rows[i].kind
              /\ Without(D)[i].text = rows[i].text
         /\ \A i \in Id : rows[i] # None /\ i \notin D /\ rows[i].kind # "event" =>
              Without(D)[i] # None
<1> USE NoneIsNoRow
<1>1. ASSUME NEW i \in Id, rows[i] # None
      PROVE  LET r == [rows[i] EXCEPT !.up = IF @ \in D THEN None ELSE @]
             IN  r \in Row /\ r.kind = rows[i].kind /\ r.text = rows[i].text
  <2>1. rows[i] \in Row
    BY <1>1 DEF SchemaTypeOK
  <2>. QED  BY <2>1 DEF Row
<1>. QED  BY <1>1 DEF Without

LEMMA DeleteInv ==
  ASSUME SchemaInv, NEW D \in SUBSET Id, Delete(D)
  PROVE  SchemaInv'
<1> USE NoneIsNoRow DEF SchemaInv
<1>1. /\ rows' = Without(D)
      /\ index' = [k \in Indexed |-> [i \in Id |->
                    IF k \in triggers /\ i \in D THEN <<>> ELSE index[k][i]]]
      /\ UNCHANGED <<version, triggers>>
  BY DEF Delete
<1>2. index' \in [Indexed -> [Id -> Seq(Text)]]
  BY <1>1 DEF SchemaTypeOK
<1>3. SchemaTypeOK'
  BY <1>1, <1>2, WithoutKeeps DEF SchemaTypeOK
<1>4. TriggersKeepSync'
  <2> SUFFICES ASSUME NEW k \in triggers, NEW j \in Id
               PROVE  index'[k][j] = EntriesDue(k, j)'
    BY <1>1 DEF TriggersKeepSync
  <2>1. /\ k \in Indexed /\ k # "event" /\ k \in Kind
        /\ index[k][j] = EntriesDue(k, j)
    BY DEF TriggersKeepSync, SchemaTypeOK, Kind, Indexed
  <2>2. index'[k][j] = IF j \in D THEN <<>> ELSE index[k][j]
    BY <1>1, <2>1
  <2>3. EntriesDue(k, j)' = IF j \in D THEN <<>> ELSE EntriesDue(k, j)
    BY <1>1, <2>1, WithoutKeeps DEF EntriesDue, Rows
  <2>. QED  BY <2>1, <2>2, <2>3
<1>5. TriggersByVersion'
  <2>1. version = 6 => index' = NoEntries
    BY <1>1 DEF TriggersByVersion, NoEntries
  <2>. QED  BY <1>1, <2>1 DEF TriggersByVersion
<1>. QED  BY <1>3, <1>4, <1>5

-----------------------------------------------------------------------------
LEMMA AddSearchInv ==
  ASSUME SchemaInv, AddSearch
  PROVE  SchemaInv'
<1> USE NoneIsNoRow DEF SchemaInv
<1>1. /\ version = 6 /\ version' = 7 /\ rows' = rows
      /\ index' = Backfilled(index) /\ triggers' = Indexed
  BY DEF AddSearch
<1>2. index = NoEntries
  BY <1>1 DEF TriggersByVersion
<1>3. ASSUME NEW k \in Indexed, NEW i \in Id
      PROVE  index'[k][i] = EntriesDue(k, i) /\ EntriesDue(k, i) \in Seq(Text)
  <2>1. index[k][i] = <<>>
    BY <1>2 DEF NoEntries
  <2>2. index'[k][i] = IF i \in Rows({k}) THEN Append(index[k][i], rows[i].text)
                                          ELSE index[k][i]
    BY <1>1 DEF Backfilled
  <2>3. i \in Rows({k}) => rows[i].text \in Text
    BY DEF Rows, SchemaTypeOK, Row
  <2>. QED  BY <2>1, <2>2, <2>3 DEF EntriesDue
<1>4. index' \in [Indexed -> [Id -> Seq(Text)]]
  <2>1. index' = [k \in Indexed |-> [i \in Id |-> index'[k][i]]]
    BY <1>1 DEF Backfilled
  <2>2. \A k \in Indexed, i \in Id : index'[k][i] \in Seq(Text)
    BY <1>3
  <2>. QED  BY <2>1, <2>2
<1>5. SchemaTypeOK'
  BY <1>1, <1>4 DEF SchemaTypeOK, Versions
<1>6. TriggersKeepSync'
  BY <1>1, <1>3 DEF TriggersKeepSync, EntriesDue, Rows
<1>7. TriggersByVersion'
  BY <1>1 DEF TriggersByVersion
<1>. QED  BY <1>5, <1>6, <1>7

LEMMA RenameSearchInv ==
  ASSUME SchemaInv, RenameSearch
  PROVE  SchemaInv'
<1> USE DEF SchemaInv
<1>1. /\ version = 7 /\ version' = 11 /\ rows' = rows
      /\ index' = Copied(index, NoEntries) /\ triggers' = Indexed
  BY DEF RenameSearch
<1>2. index' = index
  <2>1. \A k \in Indexed, i \in Id : <<>> \o index[k][i] = index[k][i]
    BY DEF SchemaTypeOK
  <2>2. index' = [k \in Indexed |-> [i \in Id |-> index[k][i]]]
    BY <1>1, <2>1 DEF Copied, NoEntries
  <2>. QED  BY <2>2 DEF SchemaTypeOK
<1>3. triggers' = triggers
  BY <1>1 DEF TriggersByVersion
<1>4. SchemaTypeOK'
  BY <1>1, <1>2, <1>3 DEF SchemaTypeOK, Versions
<1>5. TriggersKeepSync'
  BY <1>1, <1>2, <1>3 DEF TriggersKeepSync, EntriesDue, Rows
<1>6. TriggersByVersion'
  BY <1>1 DEF TriggersByVersion
<1>. QED  BY <1>4, <1>5, <1>6

LEMMA RebuildInv ==
  ASSUME SchemaInv, Rebuild
  PROVE  /\ SchemaInv'
         /\ \A i \in Rows(Indexed) : /\ rows'[i] # None
                                     /\ rows'[i].kind = rows[i].kind
                                     /\ rows'[i].text = rows[i].text
<1> USE NoneIsNoRow DEF SchemaInv
<1> DEFINE D == Rows({"goal", "experiment"})
<1>1. /\ version' = 12 /\ index' = index
      /\ triggers' = triggers \ {"goal", "experiment"}
      /\ rows' = [i \in Id |-> IF i \in D THEN [rows[i] EXCEPT !.up = None]
                                          ELSE Without(D)[i]]
  BY DEF Rebuild
<1>2. D \in SUBSET Id /\ \A i \in D : rows[i] # None
  BY DEF Rows
<1>3. \A i \in D : /\ rows'[i] \in Row /\ rows'[i] # None
                   /\ rows'[i].kind = rows[i].kind /\ rows'[i].text = rows[i].text
  <2> SUFFICES ASSUME NEW i \in D
               PROVE  /\ rows'[i] \in Row /\ rows'[i] # None
                      /\ rows'[i].kind = rows[i].kind /\ rows'[i].text = rows[i].text
    OBVIOUS
  <2>1. rows'[i] = [rows[i] EXCEPT !.up = None] /\ rows[i] \in Row
    BY <1>1, <1>2 DEF SchemaTypeOK
  <2>. QED  BY <2>1 DEF Row
<1>4. \A i \in Id : i \notin D => rows'[i] = Without(D)[i]
  BY <1>1
<1> HIDE DEF D
<1>5. rows' \in [Id -> Row \cup {None}]
  <2>1. \A i \in Id : rows'[i] \in Row \cup {None}
    BY <1>2, <1>3, <1>4, WithoutKeeps
  <2>2. rows' = [i \in Id |-> rows'[i]]
    BY <1>1
  <2>. QED  BY <2>1, <2>2
<1>6. \A i \in Id : rows'[i] # None =>
        rows[i] # None /\ rows'[i].kind = rows[i].kind /\ rows'[i].text = rows[i].text
  BY <1>2, <1>3, <1>4, WithoutKeeps
<1>7. \A i \in Id : rows[i] # None /\ rows[i].kind # "event" => rows'[i] # None
  BY <1>2, <1>3, <1>4, WithoutKeeps
<1>8. \A k \in Indexed : k # "event"
  BY DEF Indexed
<1>9. SchemaTypeOK'
  BY <1>1, <1>5 DEF SchemaTypeOK, Versions
<1>10. TriggersKeepSync'
  <2> SUFFICES ASSUME NEW k \in triggers', NEW j \in Id
               PROVE  index'[k][j] = EntriesDue(k, j)'
    BY DEF TriggersKeepSync
  <2>1. k \in Indexed /\ k \in triggers /\ index[k][j] = EntriesDue(k, j)
    BY <1>1 DEF TriggersKeepSync, SchemaTypeOK
  <2>2. EntriesDue(k, j)' = EntriesDue(k, j)
    BY <1>6, <1>7, <1>8, <2>1 DEF EntriesDue, Rows
  <2>. QED  BY <1>1, <2>1, <2>2
<1>11. \A i \in Rows(Indexed) : i \in Id /\ rows[i] # None /\ rows[i].kind # "event"
  BY DEF Rows, Indexed
<1>. QED  BY <1>1, <1>6, <1>7, <1>9, <1>10, <1>11 DEF TriggersByVersion

LEMMA SchemaNextInv == SchemaInv /\ [SchemaNext]_schemaVars => SchemaInv'
<1> SUFFICES ASSUME SchemaInv, [SchemaNext]_schemaVars PROVE SchemaInv'  OBVIOUS
<1>1. ASSUME NEW i \in Id, NEW r \in Row, Insert(i, r) PROVE SchemaInv'
  BY <1>1, InsertInv
<1>2. ASSUME NEW i \in Id, NEW t \in Text, Edit(i, t) PROVE SchemaInv'
  BY <1>2, EditInv
<1>3. ASSUME NEW D \in SUBSET Id, Delete(D) PROVE SchemaInv'
  BY <1>3, DeleteInv
<1>4. CASE AddSearch
  BY <1>4, AddSearchInv
<1>5. CASE RenameSearch
  BY <1>5, RenameSearchInv
<1>6. CASE Rebuild
  BY <1>6, RebuildInv
<1>7. CASE RebuildFails \/ UNCHANGED schemaVars
  BY <1>7 DEF RebuildFails, schemaVars, SchemaInv, SchemaTypeOK, TriggersKeepSync,
              EntriesDue, Rows, TriggersByVersion
<1>. QED
  BY <1>1, <1>2, <1>3, <1>4, <1>5, <1>6, <1>7 DEF SchemaNext

(* The invariant the other theorems rest on. *)
THEOREM SchemaInvariant == SchemaSpec => []SchemaInv
BY SchemaInitInv, SchemaNextInv, PTL DEF SchemaSpec

(* Type correctness. *)
THEOREM SchemaTypeCorrect == SchemaSpec => []SchemaTypeOK
<1>1. SchemaInv => SchemaTypeOK  BY DEF SchemaInv
<1>. QED  BY <1>1, SchemaInvariant, PTL

(* What has triggers is in the index once, as it is, and nothing else is:   *)
(* across every migration, for any number of rows.                          *)
THEOREM IndexInSync == SchemaSpec => []TriggersKeepSync
<1>1. SchemaInv => TriggersKeepSync  BY DEF SchemaInv
<1>. QED  BY <1>1, SchemaInvariant, PTL

(* No migration loses or changes the content of an indexed table. *)
THEOREM ContentKept == SchemaSpec => UpgradeKeepsContent
<1> DEFINE A == version' # version =>
       \A i \in Rows(Indexed) : /\ rows'[i] # None
                                /\ rows'[i].kind = rows[i].kind
                                /\ rows'[i].text = rows[i].text
<1>1. SchemaInv /\ [SchemaNext]_schemaVars => A
  <2> SUFFICES ASSUME SchemaInv, [SchemaNext]_schemaVars, version' # version, NEW i \in Rows(Indexed)
               PROVE  /\ rows'[i] # None /\ rows'[i].kind = rows[i].kind
                      /\ rows'[i].text = rows[i].text
    OBVIOUS
  <2>1. AddSearch \/ RenameSearch \/ Rebuild
    BY DEF SchemaNext, Insert, Edit, Delete, RebuildFails, schemaVars
  <2>2. CASE AddSearch \/ RenameSearch
    BY <2>2 DEF AddSearch, RenameSearch, Rows
  <2>3. CASE Rebuild
    BY <2>3, RebuildInv
  <2>. QED  BY <2>1, <2>2, <2>3
<1>2. SchemaInv /\ [SchemaNext]_schemaVars => [A]_schemaVars  BY <1>1
<1>. QED  BY <1>2, SchemaInvariant, PTL DEF SchemaSpec, UpgradeKeepsContent

-----------------------------------------------------------------------------
(***************************************************************************)
(* CertReload: what the reloader's memory of two times is worth.  The      *)
(* invariant says of each file what its reader still knows: before the     *)
(* first look, that it holds what was read unless it was overlooked;       *)
(* afterwards, that it does as long as its time is the remembered one.     *)
(***************************************************************************)

(* No time that is remembered is later than the file's. *)
TimesPass ==
  /\ \A f \in File : last[f] <= writes /\ file[f].time <= writes
  /\ now <= writes

Started ==
  /\ pc = "load_key" /\ "cert" \notin overlooked => cert = file["cert"].holds
  /\ pc = "first_cert" => \A f \in File \ overlooked : file[f].holds = served
  /\ pc = "first_key" =>
       /\ "key" \notin overlooked => file["key"].holds = served
       /\ "cert" \notin overlooked /\ now = file["cert"].time => file["cert"].holds = served

Reloading ==
  pc = "reload_key" /\ last["cert"] = file["cert"].time => cert = file["cert"].holds

CertInv == CertTypeOK /\ TimesPass /\ Started /\ Reloading /\ QuietServesDisk

LEMMA CertInitInv == CertInit => CertInv
BY ValueAssumption, BoundAssumption
   DEF CertInit, CertInv, CertTypeOK, TimesPass, Started, Reloading, QuietServesDisk, File, Stage

LEMMA ReadCertInv == CertInv /\ ReadCert => CertInv'
<1> SUFFICES ASSUME CertInv, ReadCert PROVE CertInv'  OBVIOUS
<1>1. CertTypeOK'
  BY DEF ReadCert, CertInv, CertTypeOK, File, Stage
<1>2. TimesPass'
  BY DEF ReadCert, CertInv, TimesPass
<1>3. Started' /\ Reloading' /\ QuietServesDisk'
  BY DEF ReadCert, CertInv, Started, Reloading, QuietServesDisk
<1>. QED  BY <1>1, <1>2, <1>3 DEF CertInv

(* What is loaded is a pair, and what was read of both files. *)
LEMMA LoadInv == CertInv /\ Load => CertInv'
<1> SUFFICES ASSUME CertInv, Load PROVE CertInv'  OBVIOUS
<1>1. file["key"].holds \in Pair \cup {Broken}
  BY DEF CertInv, CertTypeOK, File
<1>2. CertTypeOK'
  BY <1>1, ValueAssumption DEF Load, Loads, CertInv, CertTypeOK, File, Stage
<1>3. TimesPass'
  BY DEF Load, CertInv, TimesPass
<1>4. Started'
  BY DEF Load, Loads, CertInv, Started, File
<1>5. Reloading' /\ QuietServesDisk'
  BY DEF Load, Reloading, QuietServesDisk
<1>. QED  BY <1>2, <1>3, <1>4, <1>5 DEF CertInv

LEMMA ReloadInv == CertInv /\ Reload => CertInv'
<1> SUFFICES ASSUME CertInv, Reload PROVE CertInv'  OBVIOUS
<1>1. file["key"].holds \in Pair \cup {Broken}
  BY DEF CertInv, CertTypeOK, File
<1>2. CertTypeOK'
  BY <1>1, ValueAssumption DEF Reload, Loads, CertInv, CertTypeOK, File, Stage
<1>3. TimesPass'
  BY DEF Reload, CertInv, TimesPass
<1>4. Started' /\ Reloading'
  BY DEF Reload, Started, Reloading
<1>5. QuietServesDisk'
  BY DEF Reload, Loads, CertInv, Reloading, QuietServesDisk, File
<1>. QED  BY <1>2, <1>3, <1>4, <1>5 DEF CertInv

LEMMA LookCertInv == CertInv /\ LookCert => CertInv'
<1> SUFFICES ASSUME CertInv, LookCert PROVE CertInv'  OBVIOUS
<1>1. CertTypeOK'
  BY DEF LookCert, CertInv, CertTypeOK, File, Stage
<1>2. TimesPass'
  BY DEF LookCert, CertInv, TimesPass, File
<1>3. Started' /\ Reloading' /\ QuietServesDisk'
  BY DEF LookCert, CertInv, Started, Reloading, QuietServesDisk, File
<1>. QED  BY <1>1, <1>2, <1>3 DEF CertInv

(* The remembered times, file by file. *)
LEMMA TimesOf ==
  /\ DOMAIN Times = File
  /\ Times["cert"] = now /\ Times["key"] = file["key"].time
BY DEF Times, File

LEMMA FirstLookInv == CertInv /\ FirstLook => CertInv'
<1> SUFFICES ASSUME CertInv, FirstLook PROVE CertInv'  OBVIOUS
<1>1. CertTypeOK'
  BY DEF FirstLook, Times, CertInv, CertTypeOK, File, Stage
<1>2. TimesPass'
  BY TimesOf DEF FirstLook, CertInv, TimesPass, File
<1>3. Started' /\ Reloading'
  BY DEF FirstLook, Started, Reloading
<1>4. QuietServesDisk'
  BY TimesOf DEF FirstLook, Loads, CertInv, Started, QuietServesDisk, File
<1>. QED  BY <1>1, <1>2, <1>3, <1>4 DEF CertInv

LEMMA PollInv == CertInv /\ Poll => CertInv'
<1> SUFFICES ASSUME CertInv, Poll PROVE CertInv'  OBVIOUS
<1>1. CertTypeOK'
  BY DEF Poll, Times, CertInv, CertTypeOK, File, Stage
<1>2. TimesPass'
  BY TimesOf DEF Poll, CertInv, TimesPass, File
<1>3. Started' /\ Reloading'
  BY DEF Poll, Started, Reloading
<1>4. QuietServesDisk'
  BY TimesOf DEF Poll, CertInv, QuietServesDisk
<1>. QED  BY <1>1, <1>2, <1>3, <1>4 DEF CertInv

LEMMA BeginStopInv == CertInv /\ (Begin \/ Stop) => CertInv'
<1> SUFFICES ASSUME CertInv, Begin \/ Stop PROVE CertInv'  OBVIOUS
<1>1. CertTypeOK'
  BY DEF Begin, Stop, CertInv, CertTypeOK, File, Stage
<1>2. TimesPass'
  BY DEF Begin, Stop, CertInv, TimesPass
<1>3. Started' /\ Reloading' /\ QuietServesDisk'
  BY DEF Begin, Stop, Started, Reloading, QuietServesDisk
<1>. QED  BY <1>1, <1>2, <1>3 DEF CertInv

(* A write has a time no one has seen yet. *)
LEMMA ChangeInv ==
  ASSUME CertInv, NEW f \in File, NEW holds \in Pair \cup {Broken}, Change(f, holds)
  PROVE  CertInv'
<1>1. /\ writes' = writes + 1 /\ writes \in Nat
      /\ file'[f].holds = holds /\ file'[f].time = writes'
      /\ \A g \in File \ {f} : file'[g] = file[g]
      /\ UNCHANGED <<pc, cert, now, last, served>>
  BY BoundAssumption DEF Change, CertInv, CertTypeOK
<1>2. CertTypeOK'
  <2>1. writes' \in 0..MaxWrites
    BY <1>1, BoundAssumption DEF Change, CertInv, CertTypeOK
  <2>2. file' \in [File -> [holds : Pair \cup {Broken}, time : 0..MaxWrites]]
    BY <2>1 DEF Change, CertInv, CertTypeOK
  <2>. QED  BY <1>1, <2>1, <2>2 DEF Change, CertInv, CertTypeOK
<1>3. TimesPass'
  BY <1>1, BoundAssumption DEF CertInv, CertTypeOK, TimesPass
<1>4. /\ file'[f].time # now /\ \A g \in File : file'[f].time # last[g]
  BY <1>1, BoundAssumption DEF CertInv, CertTypeOK, TimesPass
<1>5. /\ overlooked \subseteq overlooked'
      /\ f = "cert" /\ pc \in {"load_key", "first_cert"} => "cert" \in overlooked'
      /\ f = "key" /\ pc \in {"first_cert", "first_key"} => "key" \in overlooked'
  BY DEF Change
<1>6. Started'
  BY <1>1, <1>4, <1>5 DEF CertInv, Started, File
<1>7. Reloading'
  BY <1>1, <1>4 DEF CertInv, Reloading, File
<1>8. QuietServesDisk'
  BY <1>1, <1>4, <1>5 DEF CertInv, QuietServesDisk, File
<1>. QED  BY <1>2, <1>3, <1>6, <1>7, <1>8 DEF CertInv

LEMMA CertStepInv == CertInv /\ [CertNext]_certVars => CertInv'
<1>1. CertInv /\ UNCHANGED certVars => CertInv'
  BY DEF certVars, CertInv, CertTypeOK, TimesPass, Started, Reloading, QuietServesDisk
<1>. QED
  BY <1>1, ReadCertInv, LoadInv, ReloadInv, LookCertInv, FirstLookInv, PollInv,
     BeginStopInv, ChangeInv DEF CertNext, Serve

-----------------------------------------------------------------------------
(* A server that has started serves a pair, and never one it could not load. *)
THEOREM CertTypeCorrect == FairCertReload => []CertTypeOK
<1>1. CertInv => CertTypeOK
  BY DEF CertInv
<1>. QED  BY CertInitInv, CertStepInv, <1>1, PTL DEF FairCertReload

(* When the times are the remembered ones, what is on disk is what is       *)
(* served, whatever was written in whatever order: no reload is missing but *)
(* for a change before the first look.                                      *)
THEOREM QuietCorrect == FairCertReload => []QuietServesDisk
<1>1. CertInv => QuietServesDisk
  BY DEF CertInv
<1>. QED  BY CertInitInv, CertStepInv, <1>1, PTL DEF FairCertReload

-----------------------------------------------------------------------------
(***************************************************************************)
(* LoginLimiter: what a tally tells of the attempts that passed.           *)
(***************************************************************************)

(* What is_rate_limited has let through in a tally's window. *)
Granted(e) == IF e.count < max_attempts THEN e.count ELSE max_attempts

(* How many attempts of k passed, seen from its tally: since its window     *)
(* began, as many as are granted; before that, no more than one window      *)
(* grants.                                                                  *)
WindowTold(k) ==
  LET e == attempts[k] IN
  IF e = Absent THEN \A a \in Ages : passed[k][a] = 0
  ELSE /\ \A a \in Ages :
            /\ a <= e.age => passed[k][a] <= Granted(e)
            /\ a >= e.age => /\ passed[k][a] >= Granted(e)
                             /\ passed[k][a] <= Granted(e) + max_attempts
       /\ e.age = Expired => passed[k][0] = 0

LimiterInv == LimiterTypeOK /\ \A k \in Key : WindowTold(k)

LEMMA LimiterInitInv == LimiterInit => LimiterInv
BY DEF LimiterInit, LimiterInv, LimiterTypeOK, WindowTold, Ages

LEMMA GrantedInNat ==
  ASSUME NEW e \in Tally
  PROVE  Granted(e) \in 1..max_attempts
BY MaxAssumption DEF Granted, Tally

(* The tally that answers an attempt. *)
LEMMA NextTallyOf ==
  ASSUME NEW e \in Tally \cup {Absent}
  PROVE  LET t == NextTally(e) IN
         /\ t \in Tally /\ t.age \in Ages
         /\ e = Absent \/ e.age = Expired => t = [count |-> 1, age |-> 0]
         /\ ~(e = Absent \/ e.age = Expired) =>
              /\ e \in Tally /\ t.age = e.age
              /\ Limited(t) <=> Granted(e) = max_attempts
              /\ Granted(t) = IF Limited(t) THEN Granted(e) ELSE Granted(e) + 1
<1>1. CASE e = Absent \/ e.age = Expired
  BY <1>1, MaxAssumption, WindowAssumption DEF NextTally, Expired, Ages, Tally
<1>2. CASE ~(e = Absent \/ e.age = Expired)
  <2>1. e \in Tally /\ e.age \in Ages /\ e.count \in 1..(max_attempts + 1)
    BY <1>2, WindowAssumption DEF Tally, Ages, Expired
  <2>2. NextTally(e) = [count |-> Count(e.count), age |-> e.age]
    BY <1>2, <2>1, WindowAssumption DEF NextTally, Ages
  <2>. QED
    BY <1>2, <2>1, <2>2, MaxAssumption, WindowAssumption
       DEF Count, Limited, Granted, Tally, Ages, Expired
<1>. QED  BY <1>1, <1>2

LEMMA AttemptInv ==
  ASSUME LimiterInv, NEW k \in Key, Attempt(k)
  PROVE  LimiterInv'
<1> DEFINE e == attempts[k]  t == NextTally(e)
<1>1. /\ e \in Tally \cup {Absent} /\ WindowTold(k)
      /\ passed[k] \in [Ages -> Nat]
  BY DEF LimiterInv, LimiterTypeOK
<1>2. /\ attempts' = [attempts EXCEPT ![k] = t]
      /\ answered' = [key |-> k, passed |-> ~Limited(t)]
      /\ passed' = IF Limited(t) THEN passed
                   ELSE [passed EXCEPT ![k] = [a \in Ages |-> passed[k][a] + 1]]
  BY DEF Attempt
<1>3. /\ t \in Tally /\ t.age \in Ages
      /\ e = Absent \/ e.age = Expired => t = [count |-> 1, age |-> 0]
      /\ ~(e = Absent \/ e.age = Expired) =>
           /\ e \in Tally /\ t.age = e.age
           /\ Limited(t) <=> Granted(e) = max_attempts
           /\ Granted(t) = IF Limited(t) THEN Granted(e) ELSE Granted(e) + 1
  BY <1>1, NextTallyOf
<1> HIDE DEF t
<1>4. LimiterTypeOK'
  <2>1. attempts' \in [Key -> Tally \cup {Absent}]
    BY <1>2, <1>3 DEF LimiterInv, LimiterTypeOK
  <2>2. passed' \in [Key -> [Ages -> Nat]]
    BY <1>1, <1>2 DEF LimiterInv, LimiterTypeOK
  <2>3. answered' \in [key : Key, passed : BOOLEAN] \cup {Absent}
    BY <1>2 DEF Limited
  <2>. QED  BY <2>1, <2>2, <2>3 DEF LimiterTypeOK
<1>5. /\ attempts'[k] = t
      /\ \A a \in Ages : passed'[k][a] = IF Limited(t) THEN passed[k][a] ELSE passed[k][a] + 1
      /\ \A j \in Key : j # k => attempts'[j] = attempts[j] /\ passed'[j] = passed[j]
  BY <1>2 DEF LimiterInv, LimiterTypeOK
<1>6. t # Absent /\ t.age # Expired
  BY <1>3, AbsentAssumption, WindowAssumption DEF Ages, Expired
<1>7. WindowTold(k)'
  <2>1. CASE e = Absent \/ e.age = Expired
    <3>1. t.age = 0 /\ Granted(t) = 1 /\ ~Limited(t)
      BY <1>3, <2>1, MaxAssumption DEF Granted, Limited
    <3>2. passed[k][0] = 0 /\ \A a \in Ages : passed[k][a] <= max_attempts
      <4>1. CASE e = Absent
        BY <1>1, <4>1, MaxAssumption, WindowAssumption DEF WindowTold, Ages
      <4>2. CASE e # Absent
        <5>1. e.age = Expired /\ Granted(e) \in 1..max_attempts
          BY <1>1, <2>1, <4>2, GrantedInNat
        <5>2. passed[k][0] = 0 /\ \A a \in Ages : passed[k][a] <= Granted(e)
          BY <1>1, <4>2, <5>1, WindowAssumption DEF WindowTold, Ages, Expired
        <5>. QED  BY <1>1, <5>1, <5>2, MaxAssumption
      <4>. QED  BY <4>1, <4>2
    <3>3. \A a \in Ages : a <= 0 => a = 0
      BY WindowAssumption DEF Ages
    <3>. QED
      BY <1>1, <1>5, <1>6, <3>1, <3>2, <3>3, MaxAssumption, WindowAssumption
         DEF WindowTold, Granted
  <2>2. CASE ~(e = Absent \/ e.age = Expired)
    <3>1. /\ e \in Tally /\ t.age = e.age /\ Granted(e) \in 1..max_attempts
          /\ Limited(t) => Granted(t) = Granted(e)
          /\ ~Limited(t) => Granted(t) = Granted(e) + 1
      BY <1>3, <2>2, GrantedInNat
    <3>2. \A a \in Ages :
            /\ a <= e.age => passed[k][a] <= Granted(e)
            /\ a >= e.age => /\ passed[k][a] >= Granted(e)
                             /\ passed[k][a] <= Granted(e) + max_attempts
      BY <1>1, <2>2 DEF WindowTold
    <3>3. \A a \in Ages : passed[k][a] \in Nat
      BY <1>1
    <3>4. \A a \in Ages :
            /\ a <= t.age => passed'[k][a] <= Granted(t)
            /\ a >= t.age => /\ passed'[k][a] >= Granted(t)
                             /\ passed'[k][a] <= Granted(t) + max_attempts
      BY <1>5, <3>1, <3>2, <3>3, MaxAssumption
    <3>5. Granted(attempts'[k]) = Granted(t)
      BY <1>5
    <3>. QED  BY <1>5, <1>6, <3>4, <3>5 DEF WindowTold, Granted
  <2>. QED  BY <2>1, <2>2
<1>8. ASSUME NEW j \in Key, j # k PROVE WindowTold(j)'
  BY <1>5, <1>8 DEF LimiterInv, WindowTold, Granted
<1>. QED  BY <1>4, <1>7, <1>8 DEF LimiterInv

(* One unit of time shifts every stretch and the start of every window. *)
LEMMA TickInv == LimiterInv /\ Tick => LimiterInv'
<1> SUFFICES ASSUME LimiterInv, Tick PROVE LimiterInv'  OBVIOUS
<1>1. \A a \in Ages : a # 0 => a - 1 \in Ages
  BY WindowAssumption DEF Ages
<1>2. \A k \in Key : \A a \in Ages : passed'[k][a] = IF a = 0 THEN 0 ELSE passed[k][a - 1]
  BY DEF Tick
<1>3. \A k \in Key : attempts[k] \in Tally =>
        /\ attempts'[k] \in Tally /\ attempts'[k].count = attempts[k].count
        /\ attempts'[k].age = IF attempts[k].age = Expired THEN Expired
                                                            ELSE attempts[k].age + 1
  <2> SUFFICES ASSUME NEW k \in Key, attempts[k] \in Tally
               PROVE  /\ attempts'[k] \in Tally /\ attempts'[k].count = attempts[k].count
                      /\ attempts'[k].age = IF attempts[k].age = Expired THEN Expired
                                                            ELSE attempts[k].age + 1
    OBVIOUS
  <2>1. attempts'[k] = IF attempts[k].age = Expired THEN attempts[k]
                       ELSE [attempts[k] EXCEPT !.age = @ + 1]
    BY AbsentAssumption DEF Tick
  <2>. QED  BY <2>1, WindowAssumption DEF Tally, Expired
<1>4. \A k \in Key : attempts[k] = Absent => attempts'[k] = Absent
  BY DEF Tick
<1>5. LimiterTypeOK'
  <2>1. attempts' \in [Key -> Tally \cup {Absent}]
    <3>1. \A k \in Key : attempts'[k] \in Tally \cup {Absent}
      BY <1>3, <1>4 DEF LimiterInv, LimiterTypeOK
    <3>2. attempts' = [k \in Key |-> attempts'[k]]
      BY DEF Tick
    <3>. QED  BY <3>1, <3>2
  <2>2. passed' \in [Key -> [Ages -> Nat]]
    BY <1>1 DEF Tick, LimiterInv, LimiterTypeOK
  <2>3. answered' \in [key : Key, passed : BOOLEAN] \cup {Absent}
    BY DEF Tick
  <2>. QED  BY <2>1, <2>2, <2>3 DEF LimiterTypeOK
<1>6. ASSUME NEW k \in Key PROVE WindowTold(k)'
  <2>1. WindowTold(k) /\ passed[k] \in [Ages -> Nat]
    BY DEF LimiterInv, LimiterTypeOK
  <2>2. CASE attempts[k] = Absent
    BY <1>1, <1>2, <1>4, <2>1, <2>2 DEF WindowTold
  <2>3. CASE attempts[k] # Absent
    <3> DEFINE e == attempts[k]  f == attempts'[k]
    <3>1. /\ e \in Tally /\ f \in Tally /\ f.count = e.count /\ f # Absent
          /\ f.age = IF e.age = Expired THEN Expired ELSE e.age + 1
      BY <1>3, <2>3, AbsentAssumption DEF LimiterInv, LimiterTypeOK
    <3>2. Granted(f) = Granted(e) /\ Granted(e) \in 1..max_attempts
      BY <3>1, GrantedInNat DEF Granted
    <3>3. e.age \in 0..Expired
      BY <3>1 DEF Tally
    <3>4. \A a \in Ages :
            /\ a <= e.age => passed[k][a] <= Granted(e)
            /\ a >= e.age => /\ passed[k][a] >= Granted(e)
                             /\ passed[k][a] <= Granted(e) + max_attempts
      BY <2>1, <2>3 DEF WindowTold
    <3> HIDE DEF e, f
    <3>5. ASSUME NEW a \in Ages
          PROVE  /\ a <= f.age => passed'[k][a] <= Granted(f)
                 /\ a >= f.age => /\ passed'[k][a] >= Granted(f)
                                  /\ passed'[k][a] <= Granted(f) + max_attempts
      <4>1. CASE a = 0
        BY <1>2, <3>1, <3>2, <3>3, <4>1, MaxAssumption, WindowAssumption DEF Ages, Expired
      <4>2. CASE a # 0
        <5>1. a - 1 \in Ages /\ passed'[k][a] = passed[k][a - 1]
          BY <1>1, <1>2, <4>2
        <5>2. /\ a <= f.age => a - 1 <= e.age
              /\ a >= f.age => a - 1 >= e.age
          BY <3>1, <3>3, WindowAssumption DEF Ages, Expired
        <5>. QED  BY <3>2, <3>4, <5>1, <5>2
      <4>. QED  BY <4>1, <4>2
    <3>6. passed'[k][0] = 0
      BY <1>2, WindowAssumption DEF Ages
    <3>. QED  BY <3>1, <3>5, <3>6 DEF WindowTold, Granted, f
  <2>. QED  BY <2>2, <2>3
<1>. QED  BY <1>5, <1>6 DEF LimiterInv

LEMMA LimiterStepInv == LimiterInv /\ [LimiterNext]_limiterVars => LimiterInv'
<1>1. LimiterInv /\ UNCHANGED limiterVars => LimiterInv'
  BY DEF limiterVars, LimiterInv, LimiterTypeOK, WindowTold, Granted
<1>. QED  BY <1>1, AttemptInv, TickInv DEF LimiterNext

(* A tally tells what has passed since its window began and bounds what     *)
(* passed before it; with that the limiter's promises are inductive.        *)
THEOREM TalliesTell == LimiterSpec => []LimiterInv
BY LimiterInitInv, LimiterStepInv, PTL DEF LimiterSpec

(* is_rate_limited keeps a count and a start for each address that asked. *)
THEOREM LimiterTypeCorrect == LimiterSpec => []LimiterTypeOK
<1>1. LimiterInv => LimiterTypeOK
  BY DEF LimiterInv
<1>. QED  BY <1>1, TalliesTell, PTL

(* Whatever the limit, the window and the addresses: in no stretch of time  *)
(* as long as the window does more than twice the limit pass.               *)
THEOREM TwiceTheLimit == LimiterSpec => []TwiceTheLimitAtMost
<1>1. ASSUME LimiterInv, NEW k \in Key PROVE Passed(k) <= 2 * max_attempts
  <2>1. WindowTold(k) /\ window \in Ages /\ passed[k][window] \in Nat
    BY <1>1, WindowAssumption DEF LimiterInv, LimiterTypeOK, Ages
  <2>2. CASE attempts[k] = Absent
    BY <2>1, <2>2, MaxAssumption DEF WindowTold, Passed
  <2>3. CASE attempts[k] # Absent
    <3>1. attempts[k] \in Tally /\ Granted(attempts[k]) \in 1..max_attempts
      BY <1>1, <2>3, GrantedInNat DEF LimiterInv, LimiterTypeOK
    <3>2. attempts[k].age \in Nat
      BY <3>1, WindowAssumption DEF Tally, Expired
    <3>. QED  BY <2>1, <2>3, <3>1, <3>2, MaxAssumption, WindowAssumption DEF WindowTold, Passed
  <2>. QED  BY <2>2, <2>3
<1>2. LimiterInv => TwiceTheLimitAtMost
  BY <1>1 DEF TwiceTheLimitAtMost
<1>. QED  BY <1>2, TalliesTell, PTL

(* An address is refused only after the full limit of its own attempts      *)
(* passed within the last window.                                           *)
THEOREM RefusalIsEarned == LimiterSpec => RefusedAfterTheLimit
<1>1. ASSUME LimiterInv, LimiterNext, NEW k \in Key,
             answered' = [key |-> k, passed |-> FALSE]
      PROVE  Passed(k) >= max_attempts
  <2>1. answered' # Absent
    <3>1. [key |-> k, passed |-> FALSE] \in [key : Key, passed : BOOLEAN]
      OBVIOUS
    <3>. QED  BY <1>1, <3>1, AbsentAssumption
  <2>2. PICK j \in Key : Attempt(j)
    BY <1>1, <2>1 DEF LimiterNext, Tick
  <2> DEFINE e == attempts[j]  t == NextTally(e)
  <2>3. answered' = [key |-> j, passed |-> ~Limited(t)]
    BY <2>2 DEF Attempt
  <2>4. j = k /\ Limited(t)
    <3>1. Limited(t) \in BOOLEAN
      BY DEF Limited
    <3> HIDE DEF t
    <3>2. /\ [key |-> k, passed |-> FALSE].key = [key |-> j, passed |-> ~Limited(t)].key
          /\ [key |-> k, passed |-> FALSE].passed = [key |-> j, passed |-> ~Limited(t)].passed
      BY <1>1, <2>3
    <3>. QED  BY <3>1, <3>2
  <2>5. e \in Tally \cup {Absent} /\ WindowTold(k)
    BY <1>1 DEF LimiterInv, LimiterTypeOK
  <2>6. /\ t \in Tally /\ t.age \in Ages
        /\ e = Absent \/ e.age = Expired => t = [count |-> 1, age |-> 0]
        /\ ~(e = Absent \/ e.age = Expired) =>
             /\ e \in Tally /\ t.age = e.age
             /\ Limited(t) <=> Granted(e) = max_attempts
             /\ Granted(t) = IF Limited(t) THEN Granted(e) ELSE Granted(e) + 1
    BY <2>5, NextTallyOf
  <2> HIDE DEF t
  <2>7. ~(e = Absent \/ e.age = Expired)
    BY <2>4, <2>6, MaxAssumption DEF Limited
  <2>8. Granted(e) = max_attempts /\ e.age \in Ages
    BY <2>4, <2>6, <2>7
  <2>9. window \in Ages /\ e.age <= window
    BY <2>8, WindowAssumption DEF Ages
  <2>. QED  BY <2>4, <2>5, <2>7, <2>8, <2>9, WindowAssumption DEF WindowTold, Passed, Ages
<1>2. LimiterInv /\ [LimiterNext]_limiterVars =>
        [\A k \in Key :
           answered' = [key |-> k, passed |-> FALSE] /\ answered' # answered =>
             Passed(k) >= max_attempts]_limiterVars
  BY <1>1
<1>. QED  BY <1>2, TalliesTell, PTL DEF LimiterSpec, RefusedAfterTheLimit

(***************************************************************************)
(* Story.  Lists of records without repetition come first: what Only, the  *)
(* order and the boxes make of them, by induction on their length.  Then   *)
(* the story and the editor are described record by record, which is all   *)
(* that the properties are about; and then the invariant: the forms list   *)
(* each record once, and none that was not created, so that a new record   *)
(* is on no form.                                                          *)
(***************************************************************************)

(* What holds of 0, and of every number if of the one before, up to m. *)
LEMMA CountUp ==
  ASSUME NEW m \in Nat, NEW T, 0 \in T, \A n \in 1..m : n - 1 \in T => n \in T
  PROVE  \A n \in 0..m : n \in T
<1> DEFINE B == {n \in 0..m : n \notin T}
<1> SUFFICES ASSUME B # {} PROVE FALSE  OBVIOUS
<1>1. B \subseteq Nat
  OBVIOUS
<1>2. PICK n \in B : \A k \in B : ~(<<k, n>> \in OpToRel(<, Nat))
  BY <1>1, NatLessThanWellFounded, WFMin
<1>3. n # 0 /\ n - 1 \in 0..m /\ n \in 1..m /\ n - 1 < n
  BY <1>1
<1>4. n - 1 \in B
  BY <1>3
<1>5. <<n - 1, n>> \in OpToRel(<, Nat)
  BY <1>1, <1>3 DEF OpToRel
<1>. QED  BY <1>2, <1>4, <1>5

(* What Only has selected of the first n members, for every n. *)
LEMMA OnlyUpto ==
  ASSUME NEW ids, NEW S, Len(ids) \in Nat
  PROVE  \E upto :
           /\ Only(ids, S) = upto[Len(ids)]
           /\ upto[0] = <<>>
           /\ \A n \in 1..Len(ids) :
                upto[n] = IF ids[n] \in S THEN Append(upto[n - 1], ids[n]) ELSE upto[n - 1]
<1> DEFINE m == Len(ids)
           Step(g, n) == IF n = 0 THEN <<>>
                         ELSE IF ids[n] \in S THEN Append(g[n - 1], ids[n]) ELSE g[n - 1]
           T == {k \in 0..m : \E g : g = [n \in 0..k |-> Step(g, n)]}
           f == CHOOSE g : g = [n \in 0..m |-> Step(g, n)]
<1>1. Only(ids, S) = f[m]
  BY DEF Only
<1> HIDE DEF Step
<1>2. 0 \in T
  <2> DEFINE g == [n \in 0..0 |-> <<>>]
  <2>1. g = [n \in 0..0 |-> Step(g, n)]
    BY DEF Step
  <2> HIDE DEF g
  <2>2. \E h : h = [n \in 0..0 |-> Step(h, n)]
    BY <2>1
  <2>. QED  BY <2>2
<1>3. ASSUME NEW k \in 1..m, k - 1 \in T PROVE k \in T
  <2>1. PICK g : g = [n \in 0..(k - 1) |-> Step(g, n)]
    BY <1>3
  <2> DEFINE h == [n \in 0..k |-> IF n = k THEN Step(g, k) ELSE g[n]]
  <2>2. DOMAIN h = 0..k /\ h[k] = Step(g, k) /\ \A n \in 0..(k - 1) : h[n] = g[n]
    OBVIOUS
  <2>3. \A n \in 0..(k - 1) : g[n] = Step(g, n)
    BY <2>1
  <2>4. ASSUME NEW n \in 0..k PROVE h[n] = Step(h, n)
    <3>1. CASE n = 0
      BY <2>2, <2>3, <3>1 DEF Step
    <3>2. CASE n # 0
      <4>1. n - 1 \in 0..(k - 1) /\ h[n - 1] = g[n - 1]
        BY <2>2, <3>2
      <4>2. Step(h, n) = Step(g, n)
        BY <4>1 DEF Step
      <4>. QED  BY <2>2, <2>3, <4>2
    <3>. QED  BY <3>1, <3>2
  <2>5. h = [n \in 0..k |-> Step(h, n)]
    BY <2>4
  <2> HIDE DEF h
  <2>6. \E d : d = [n \in 0..k |-> Step(d, n)]
    BY <2>5
  <2>. QED  BY <2>6
<1>4. m \in T
  <2>1. m \in Nat
    OBVIOUS
  <2> HIDE DEF T, m
  <2>2. \A n \in 1..m : n - 1 \in T => n \in T
    BY <1>3
  <2>3. \A n \in 0..m : n \in T
    BY <1>2, <2>1, <2>2, CountUp
  <2>. QED  BY <2>1, <2>3
<1>5. f = [n \in 0..m |-> Step(f, n)]
  <2>1. \E g : g = [n \in 0..m |-> Step(g, n)]
    BY <1>4
  <2>. QED  BY <2>1
<1> HIDE DEF f
<1>6. f[0] = Step(f, 0) /\ \A n \in 1..m : f[n] = Step(f, n)
  BY <1>5
<1>. QED  BY <1>1, <1>6 DEF Step

LEMMA Appended ==
  ASSUME NEW A, NEW s \in Seq(A), NEW x \in A
  PROVE  /\ Append(s, x) \in Seq(A) /\ ToSet(Append(s, x)) = ToSet(s) \cup {x}
         /\ IsInjective(s) /\ x \notin ToSet(s) => IsInjective(Append(s, x))
<1>1. /\ DOMAIN s = 1..Len(s) /\ Len(s) \in Nat /\ DOMAIN Append(s, x) = 1..(Len(s) + 1)
      /\ \A i \in 1..Len(s) : Append(s, x)[i] = s[i]
      /\ Append(s, x)[Len(s) + 1] = x
  OBVIOUS
<1>2. \A i \in 1..(Len(s) + 1) : i \in 1..Len(s) \/ i = Len(s) + 1
  BY <1>1
<1>3. ToSet(Append(s, x)) = ToSet(s) \cup {x}
  <2>1. ToSet(Append(s, x)) \subseteq ToSet(s) \cup {x}
    BY <1>1, <1>2 DEF ToSet
  <2>2. ToSet(s) \subseteq ToSet(Append(s, x))
    BY <1>1 DEF ToSet
  <2>3. x \in ToSet(Append(s, x))
    BY <1>1 DEF ToSet
  <2>. QED  BY <2>1, <2>2, <2>3
<1>4. ASSUME IsInjective(s), x \notin ToSet(s) PROVE IsInjective(Append(s, x))
  <2> SUFFICES ASSUME NEW i \in 1..(Len(s) + 1), NEW j \in 1..(Len(s) + 1),
                      Append(s, x)[i] = Append(s, x)[j]
               PROVE  i = j
    BY <1>1 DEF IsInjective
  <2>1. \A n \in 1..Len(s) : s[n] # x
    BY <1>1, <1>4 DEF ToSet
  <2>. QED  BY <1>1, <1>2, <1>4, <2>1 DEF IsInjective
<1>. QED  BY <1>3, <1>4

(* Only keeps the members in the set, and repeats none that is not repeated. *)
LEMMA OnlySelects ==
  ASSUME NEW A, NEW ids \in Seq(A), NEW S
  PROVE  /\ Only(ids, S) \in Seq(A) /\ ToSet(Only(ids, S)) = ToSet(ids) \cap S
         /\ IsInjective(ids) => IsInjective(Only(ids, S))
<1> DEFINE m == Len(ids)
<1>1. m \in Nat /\ DOMAIN ids = 1..m /\ \A n \in 1..m : ids[n] \in A
  OBVIOUS
<1>2. PICK upto : /\ Only(ids, S) = upto[m]
                  /\ upto[0] = <<>>
                  /\ \A n \in 1..m :
                       upto[n] = IF ids[n] \in S THEN Append(upto[n - 1], ids[n]) ELSE upto[n - 1]
  <2>1. Len(ids) \in Nat
    BY <1>1
  <2>. QED  BY <2>1, OnlyUpto
<1> DEFINE Part1(n) == {ids[i] : i \in 1..n}
           Good(n) == /\ upto[n] \in Seq(A) /\ ToSet(upto[n]) = Part1(n) \cap S
                      /\ IsInjective(ids) => IsInjective(upto[n])
           T == {n \in 0..m : Good(n)}
<1>3. 0 \in T
  <2>1. <<>> \in Seq(A) /\ ToSet(<<>>) = {} /\ IsInjective(<<>>)
    BY DEF ToSet, IsInjective
  <2>2. Part1(0) = {}
    OBVIOUS
  <2> HIDE DEF Part1
  <2>3. Good(0)
    BY <1>2, <2>1, <2>2
  <2>. QED  BY <1>1, <2>3
<1>4. ASSUME NEW n \in 1..m, n - 1 \in T PROVE n \in T
  <2>1. Part1(n) = Part1(n - 1) \cup {ids[n]}
    <3>1. \A i \in 1..n : i \in 1..(n - 1) \/ i = n
      BY <1>1
    <3>. QED  BY <1>1, <3>1
  <2>2. IsInjective(ids) => ids[n] \notin Part1(n - 1)
    BY <1>1 DEF IsInjective
  <2>3. Good(n - 1)
    BY <1>4
  <2>4. upto[n] = IF ids[n] \in S THEN Append(upto[n - 1], ids[n]) ELSE upto[n - 1]
    BY <1>2
  <2> HIDE DEF Part1
  <2>5. CASE ids[n] \in S
    <3>1. upto[n - 1] \in Seq(A) /\ ids[n] \in A /\ upto[n] = Append(upto[n - 1], ids[n])
      BY <1>1, <2>3, <2>4, <2>5
    <3>2. upto[n] \in Seq(A) /\ ToSet(upto[n]) = Part1(n) \cap S
      BY <2>1, <2>3, <2>5, <3>1, Appended
    <3>3. IsInjective(ids) => IsInjective(upto[n])
      BY <2>2, <2>3, <3>1, Appended
    <3>. QED  BY <3>2, <3>3
  <2>6. CASE ids[n] \notin S
    BY <2>1, <2>3, <2>4, <2>6
  <2>. QED  BY <2>5, <2>6
<1>5. Good(m)
  <2> HIDE DEF T, m
  <2>1. \A n \in 0..m : n \in T
    BY <1>1, <1>3, <1>4, CountUp
  <2>2. m \in T
    BY <1>1, <2>1
  <2>. QED  BY <2>2 DEF T
<1>6. Part1(m) = ToSet(ids)
  BY <1>1 DEF ToSet
<1>. QED  BY <1>2, <1>5, <1>6

(* What is selected depends on the members alone; all of them are if all    *)
(* are in the set.                                                          *)
LEMMA OnlyAgrees ==
  ASSUME NEW A, NEW ids \in Seq(A), NEW S, NEW R,
         \A i \in ToSet(ids) : i \in S <=> i \in R
  PROVE  Only(ids, S) = Only(ids, R)
<1> DEFINE m == Len(ids)
<1>1. m \in Nat /\ \A n \in 1..m : ids[n] \in S <=> ids[n] \in R
  BY DEF ToSet
<1>2. PICK f : /\ Only(ids, S) = f[m]
               /\ f[0] = <<>>
               /\ \A n \in 1..m : f[n] = IF ids[n] \in S THEN Append(f[n - 1], ids[n]) ELSE f[n - 1]
  BY <1>1, OnlyUpto
<1>3. PICK g : /\ Only(ids, R) = g[m]
               /\ g[0] = <<>>
               /\ \A n \in 1..m : g[n] = IF ids[n] \in R THEN Append(g[n - 1], ids[n]) ELSE g[n - 1]
  BY <1>1, OnlyUpto
<1> DEFINE T == {n \in 0..m : f[n] = g[n]}
<1>4. 0 \in T
  BY <1>1, <1>2, <1>3
<1>5. ASSUME NEW n \in 1..m, n - 1 \in T PROVE n \in T
  BY <1>1, <1>2, <1>3, <1>5
<1>6. m \in T
  <2> HIDE DEF T, m
  <2>1. \A n \in 0..m : n \in T
    BY <1>1, <1>4, <1>5, CountUp
  <2>. QED  BY <1>1, <2>1
<1>. QED  BY <1>2, <1>3, <1>6

LEMMA OnlyAll ==
  ASSUME NEW A, NEW ids \in Seq(A), NEW S, ToSet(ids) \subseteq S
  PROVE  Only(ids, S) = ids
<1> DEFINE m == Len(ids)
<1>1. m \in Nat /\ \A n \in 1..m : ids[n] \in S
  BY DEF ToSet
<1>2. PICK f : /\ Only(ids, S) = f[m]
               /\ f[0] = <<>>
               /\ \A n \in 1..m : f[n] = IF ids[n] \in S THEN Append(f[n - 1], ids[n]) ELSE f[n - 1]
  BY <1>1, OnlyUpto
<1> DEFINE T == {n \in 0..m : f[n] = SubSeq(ids, 1, n)}
<1>3. 0 \in T
  <2>1. SubSeq(ids, 1, 0) = <<>>
    OBVIOUS
  <2>2. 0 \in 0..m
    BY <1>1
  <2>3. f[0] = <<>>
    BY <1>2
  <2>. QED  BY <2>1, <2>2, <2>3
<1>4. ASSUME NEW n \in 1..m, n - 1 \in T PROVE n \in T
  <2>1. f[n] = Append(SubSeq(ids, 1, n - 1), ids[n])
    BY <1>1, <1>2, <1>4
  <2>2. Append(SubSeq(ids, 1, n - 1), ids[n]) = SubSeq(ids, 1, n)
    OBVIOUS
  <2>. QED  BY <2>1, <2>2
<1>5. m \in T
  <2> HIDE DEF T, m
  <2>1. \A n \in 0..m : n \in T
    BY <1>1, <1>3, <1>4, CountUp
  <2>. QED  BY <1>1, <2>1
<1>6. SubSeq(ids, 1, m) = ids
  OBVIOUS
<1>. QED  BY <1>2, <1>5, <1>6

(* Sequences without a member in common, one after the other. *)
LEMMA Joined ==
  ASSUME NEW A, NEW s \in Seq(A), NEW t \in Seq(A), ToSet(s) \cap ToSet(t) = {},
         IsInjective(s), IsInjective(t)
  PROVE  s \o t \in Seq(A) /\ ToSet(s \o t) = ToSet(s) \cup ToSet(t) /\ IsInjective(s \o t)
<1>1. /\ s \o t \in Seq(A) /\ DOMAIN (s \o t) = 1..(Len(s) + Len(t))
      /\ \A i \in 1..Len(s) : (s \o t)[i] = s[i]
      /\ \A i \in 1..Len(t) : (s \o t)[Len(s) + i] = t[i]
      /\ DOMAIN s = 1..Len(s) /\ DOMAIN t = 1..Len(t)
      /\ Len(s) \in Nat /\ Len(t) \in Nat
  OBVIOUS
<1>2. ASSUME NEW i \in 1..(Len(s) + Len(t))
      PROVE  \/ i \in 1..Len(s) /\ (s \o t)[i] = s[i]
             \/ /\ i - Len(s) \in 1..Len(t) /\ (s \o t)[i] = t[i - Len(s)]
                /\ i = Len(s) + (i - Len(s))
  BY <1>1
<1>3. ToSet(s \o t) = ToSet(s) \cup ToSet(t)
  <2>1. ToSet(s \o t) \subseteq ToSet(s) \cup ToSet(t)
    BY <1>1, <1>2 DEF ToSet
  <2>2. ToSet(s) \subseteq ToSet(s \o t)
    BY <1>1 DEF ToSet
  <2>3. ToSet(t) \subseteq ToSet(s \o t)
    <3>1. \A i \in 1..Len(t) : Len(s) + i \in 1..(Len(s) + Len(t))
      BY <1>1
    <3>. QED  BY <1>1, <3>1 DEF ToSet
  <2>. QED  BY <2>1, <2>2, <2>3
<1>4. IsInjective(s \o t)
  <2>1. \A i \in 1..Len(s), j \in 1..Len(t) : s[i] # t[j]
    BY <1>1 DEF ToSet
  <2> SUFFICES ASSUME NEW i \in 1..(Len(s) + Len(t)), NEW j \in 1..(Len(s) + Len(t)),
                      (s \o t)[i] = (s \o t)[j]
               PROVE  i = j
    BY <1>1 DEF IsInjective
  <2>2. CASE i \in 1..Len(s) /\ j \in 1..Len(s)
    BY <1>1, <2>2 DEF IsInjective
  <2>3. CASE i \notin 1..Len(s) /\ j \notin 1..Len(s)
    <3>1. /\ i - Len(s) \in DOMAIN t /\ j - Len(s) \in DOMAIN t
          /\ t[i - Len(s)] = t[j - Len(s)]
      BY <1>1, <1>2, <2>3
    <3>2. i - Len(s) = j - Len(s)
      BY <3>1 DEF IsInjective
    <3>. QED  BY <1>1, <3>2
  <2>4. CASE i \in 1..Len(s) /\ j \notin 1..Len(s)
    BY <1>1, <1>2, <2>1, <2>4
  <2>5. CASE i \notin 1..Len(s) /\ j \in 1..Len(s)
    BY <1>1, <1>2, <2>1, <2>5
  <2>. QED  BY <2>2, <2>3, <2>4, <2>5
<1>. QED  BY <1>1, <1>3, <1>4

(* A sequence without repetition has as many members as places. *)
LEMMA MembersCount ==
  ASSUME NEW A, NEW s \in Seq(A), IsInjective(s)
  PROVE  Cardinality(ToSet(s)) = Len(s)
<1>1. Len(s) \in Nat /\ DOMAIN s = 1..Len(s)
  OBVIOUS
<1>2. s \in Bijection(1..Len(s), ToSet(s))
  BY <1>1 DEF ToSet, Bijection, Injection, Surjection, IsInjective
<1>3. ExistsBijection(1..Len(s), ToSet(s))
  BY <1>2 DEF ExistsBijection
<1>. QED  BY <1>1, <1>3, FS_CountingElements

-----------------------------------------------------------------------------
(* The records of a project, and items that list no record twice.           *)

Proper(p) ==
  /\ p.decisions \subseteq Decision
  /\ p.experiments \in [Experiment -> ExperimentRow \cup {Nothing}]
  /\ \A x \in Experiment : p.experiments[x] # Nothing =>
       p.experiments[x].decision \in p.decisions \cup {Nothing}

There(p, k) ==
  CASE k = "decisions"   -> p.decisions
    [] k = "experiments" -> {x \in Experiment : p.experiments[x] # Nothing}
    [] k = "lessons"     -> Lessons(p.experiments)

Listing(items) == items \in Seq(Item) /\ IsInjective(IdsOf(items))

Form(c) == c \in [Part -> Seq(Item)] /\ \A k \in Part : Listing(c[k])

LEMMA Retyped ==
  ASSUME NEW A, NEW s \in Seq(A), NEW B, ToSet(s) \subseteq B
  PROVE  s \in Seq(B)
<1>1. Len(s) \in Nat /\ DOMAIN s = 1..Len(s) /\ s = [n \in 1..Len(s) |-> s[n]]
  OBVIOUS
<1>2. \A n \in 1..Len(s) : s[n] \in B
  BY <1>1 DEF ToSet
<1>. QED  BY <1>1, <1>2

LEMMA IdsInOrder ==
  ASSUME NEW S, S \subseteq RecordId
  PROVE  Ids(S) \in Seq(RecordId) /\ IsInjective(Ids(S)) /\ ToSet(Ids(S)) = S
<1> DEFINE N == NumDecisions + NumExperiments
           all == [i \in 1..N |-> i]
<1>1. N \in Nat /\ RecordId \subseteq 1..N
  BY Bounds DEF RecordId, Decision, Experiment
<1>2. all \in Seq(Nat) /\ IsInjective(all) /\ ToSet(all) = 1..N
  BY <1>1 DEF IsInjective, ToSet
<1>3. Ids(S) = Only(all, S)
  BY DEF Ids
<1> HIDE DEF all, N
<1>4. /\ Ids(S) \in Seq(Nat) /\ ToSet(Ids(S)) = 1..N \cap S /\ IsInjective(Ids(S))
  <2>1. all \in Seq(Nat)
    BY <1>2
  <2>2. /\ Only(all, S) \in Seq(Nat) /\ ToSet(Only(all, S)) = ToSet(all) \cap S
        /\ IsInjective(all) => IsInjective(Only(all, S))
    BY <2>1, OnlySelects
  <2>. QED  BY <1>2, <1>3, <2>2
<1>5. ToSet(Ids(S)) = S
  BY <1>1, <1>4
<1>. QED  BY <1>4, <1>5, Retyped

LEMMA DerivedIs ==
  ASSUME NEW p, Proper(p), NEW k \in Part
  PROVE  /\ Derived(p, k) \in Seq(RecordId) /\ IsInjective(Derived(p, k))
         /\ ToSet(Derived(p, k)) = There(p, k) /\ There(p, k) \subseteq RecordId
<1>1. There(p, k) \subseteq RecordId
  BY DEF There, Part, Proper, RecordId, Lessons
<1>2. Derived(p, k) = Ids(There(p, k))
  BY DEF Derived, There, Part
<1>. QED  BY <1>1, <1>2, IdsInOrder

LEMMA ListingIds ==
  ASSUME NEW items, Listing(items)
  PROVE  /\ Len(items) \in Nat /\ DOMAIN items = 1..Len(items)
         /\ IdsOf(items) \in Seq(RecordId) /\ Len(IdsOf(items)) = Len(items)
         /\ DOMAIN IdsOf(items) = DOMAIN items
         /\ \A n \in DOMAIN items : items[n] \in Item /\ IdsOf(items)[n] = items[n].id
         /\ ToSet(IdsOf(items)) = {items[n].id : n \in DOMAIN items}
<1>1. /\ Len(items) \in Nat /\ DOMAIN items = 1..Len(items)
      /\ \A n \in DOMAIN items : items[n] \in Item
  BY DEF Listing
<1>2. \A n \in DOMAIN items : items[n].id \in RecordId
  BY <1>1 DEF Item
<1>3. IdsOf(items) = [n \in 1..Len(items) |-> items[n].id]
  BY <1>1 DEF IdsOf
<1>4. IdsOf(items) \in Seq(RecordId) /\ Len(IdsOf(items)) = Len(items)
  BY <1>1, <1>2, <1>3
<1>. QED  BY <1>1, <1>3, <1>4 DEF ToSet

(* Of a record on the list there is one item. *)
LEMMA OneItem ==
  ASSUME NEW items, Listing(items)
  PROVE  /\ \A n \in DOMAIN items : ItemOf(items, items[n].id) = {items[n]}
         /\ \A id : id \notin ToSet(IdsOf(items)) => ItemOf(items, id) = {}
<1>1. ASSUME NEW n \in DOMAIN items, NEW m \in DOMAIN items, items[m].id = items[n].id
      PROVE  m = n
  BY <1>1, ListingIds DEF Listing, IsInjective
<1>. QED  BY <1>1, ListingIds DEF ItemOf

LEMMA SummaryIs ==
  ASSUME NEW items, Listing(items)
  PROVE  /\ \A n \in DOMAIN items : Summary(items, items[n].id) = items[n].summary
         /\ \A id : Summary(items, id) \in Wording \cup {Nothing}
<1>1. ASSUME NEW n \in DOMAIN items
      PROVE  Summary(items, items[n].id) = items[n].summary
  <2>1. ItemOf(items, items[n].id) = {items[n]}
    BY OneItem
  <2>2. (CHOOSE i \in ItemOf(items, items[n].id) : TRUE) = items[n]
    BY <2>1
  <2>. QED  BY <2>1, <2>2 DEF Summary
<1>2. ASSUME NEW id PROVE Summary(items, id) \in Wording \cup {Nothing}
  <2>1. CASE id \in ToSet(IdsOf(items))
    <3>1. PICK n \in DOMAIN items : id = items[n].id
      BY <2>1, ListingIds
    <3>2. items[n].summary \in Wording \cup {Nothing}
      BY ListingIds DEF Item
    <3>. QED  BY <1>1, <3>1, <3>2
  <2>2. CASE id \notin ToSet(IdsOf(items))
    BY <2>2, OneItem DEF Summary
  <2>. QED  BY <2>1, <2>2
<1>. QED  BY <1>1, <1>2

(* Items made of some records, in whatever way, list them in their order.   *)
LEMMA ItemsMade ==
  ASSUME NEW ids \in Seq(RecordId), IsInjective(ids), NEW items,
         DOMAIN items = DOMAIN ids, items = [n \in DOMAIN ids |-> items[n]],
         \A n \in DOMAIN ids : items[n] \in Item /\ items[n].id = ids[n]
  PROVE  Listing(items) /\ IdsOf(items) = ids
<1>1. Len(ids) \in Nat /\ DOMAIN ids = 1..Len(ids) /\ ids = [n \in 1..Len(ids) |-> ids[n]]
  OBVIOUS
<1>2. items \in Seq(Item)
  BY <1>1
<1>3. IdsOf(items) = ids
  BY <1>1 DEF IdsOf
<1>. QED  BY <1>2, <1>3 DEF Listing

LEMMA BoxesAre ==
  ASSUME NEW ids \in Seq(RecordId), IsInjective(ids), NEW items, Listing(items)
  PROVE  LET b == Boxes(ids, items) IN
         /\ Listing(b) /\ IdsOf(b) = ids
         /\ \A n \in DOMAIN ids : b[n].on = On(items, ids[n]) /\ b[n].id = ids[n]
         /\ \A i \in ToSet(ids) :
              ItemOf(b, i) = {[id |-> i, on |-> On(items, i), summary |-> Summary(items, i)]}
<1> DEFINE b == Boxes(ids, items)
           item(i) == [id |-> i, on |-> On(items, i), summary |-> Summary(items, i)]
<1>1. b = [n \in DOMAIN ids |-> item(ids[n])] /\ DOMAIN b = DOMAIN ids
  BY DEF Boxes
<1>2. ASSUME NEW n \in DOMAIN ids PROVE item(ids[n]) \in Item /\ item(ids[n]).id = ids[n]
  <2>1. ids[n] \in RecordId
    OBVIOUS
  <2>2. Summary(items, ids[n]) \in Wording \cup {Nothing} /\ On(items, ids[n]) \in BOOLEAN
    BY SummaryIs DEF On
  <2>. QED  BY <2>1, <2>2 DEF Item
<1> HIDE DEF b
<1>3. Listing(b) /\ IdsOf(b) = ids
  <2> HIDE DEF item
  <2>1. \A n \in DOMAIN ids : b[n] \in Item /\ b[n].id = ids[n]
    BY <1>1, <1>2
  <2>2. b = [n \in DOMAIN ids |-> b[n]]
    BY <1>1
  <2>. QED  BY <1>1, <2>1, <2>2, ItemsMade
<1>4. ASSUME NEW n \in DOMAIN ids PROVE ItemOf(b, ids[n]) = {item(ids[n])}
  <2> HIDE DEF item
  <2>1. n \in DOMAIN b /\ b[n] = item(ids[n]) /\ b[n].id = ids[n]
    BY <1>1, <1>2
  <2>. QED  BY <1>3, <2>1, OneItem
<1>5. \A i \in ToSet(ids) : ItemOf(b, i) = {item(i)}
  <2> HIDE DEF item
  <2>. QED  BY <1>4 DEF ToSet
<1>6. \A n \in DOMAIN ids : b[n].on = On(items, ids[n]) /\ b[n].id = ids[n]
  BY <1>1
<1>. QED  BY <1>3, <1>5, <1>6 DEF b

LEMMA CheckedAre ==
  ASSUME NEW ids \in Seq(RecordId), IsInjective(ids), NEW items, Listing(items)
  PROVE  LET b == Checked(ids, items) IN
         /\ Listing(b) /\ IdsOf(b) = ids
         /\ \A i \in ToSet(ids) :
              ItemOf(b, i) = {[id |-> i, on |-> \E f \in ItemOf(items, i) : f.on,
                               summary |-> Summary(items, i)]}
<1> DEFINE b == Checked(ids, items)
           on(i) == \E f \in ItemOf(items, i) : f.on
           item(i) == [id |-> i, on |-> on(i), summary |-> Summary(items, i)]
<1>1. b = [n \in DOMAIN ids |-> item(ids[n])] /\ DOMAIN b = DOMAIN ids
  BY DEF Checked
<1>2. ASSUME NEW n \in DOMAIN ids PROVE item(ids[n]) \in Item /\ item(ids[n]).id = ids[n]
  <2>1. ids[n] \in RecordId /\ on(ids[n]) \in BOOLEAN
    OBVIOUS
  <2> HIDE DEF on
  <2>2. Summary(items, ids[n]) \in Wording \cup {Nothing}
    BY SummaryIs
  <2>. QED  BY <2>1, <2>2 DEF Item
<1> HIDE DEF b, item
<1>3. Listing(b) /\ IdsOf(b) = ids
  <2>1. \A n \in DOMAIN ids : b[n] \in Item /\ b[n].id = ids[n]
    BY <1>1, <1>2
  <2>2. b = [n \in DOMAIN ids |-> b[n]]
    BY <1>1
  <2>. QED  BY <1>1, <2>1, <2>2, ItemsMade
<1>4. ASSUME NEW n \in DOMAIN ids PROVE ItemOf(b, ids[n]) = {item(ids[n])}
  <2>1. n \in DOMAIN b /\ b[n] = item(ids[n]) /\ b[n].id = ids[n]
    BY <1>1, <1>2
  <2>. QED  BY <1>3, <2>1, OneItem
<1>5. \A i \in ToSet(ids) : ItemOf(b, i) = {item(i)}
  BY <1>4 DEF ToSet
<1>. QED  BY <1>3, <1>5 DEF b, item

-----------------------------------------------------------------------------
(* The story and the editor, record by record.                              *)

(* The box of a record, as a configuration sets it, and the records a       *)
(* configuration tells of.                                                  *)
Picked(c, k, i) == On(Saved(c)[k], i)
Shows(p, c, k, i) ==
  /\ Picked(c, k, i)
  /\ k = "experiments" /\ p.experiments[i].decision # Nothing =>
       Picked(c, "decisions", p.experiments[i].decision)

LEMMA SavedLists ==
  ASSUME NEW c, c = Nothing \/ Form(c), NEW k \in Part
  PROVE  Listing(Saved(c)[k])
<1>1. Listing(<<>>)
  BY DEF Listing, IdsOf, IsInjective
<1>. QED  BY <1>1 DEF Saved, Form

LEMMA AllPicked == \A k \in Part : \A i : Picked(Nothing, k, i)
BY DEF Picked, Saved, On, ItemOf

LEMMA Ordered ==
  ASSUME NEW ids \in Seq(RecordId), IsInjective(ids), NEW items, Listing(items)
  PROVE  LET o == OrderIds(ids, items) IN
         o \in Seq(RecordId) /\ IsInjective(o) /\ ToSet(o) = ToSet(ids)
<1> DEFINE asked == Only(IdsOf(items), ToSet(ids))
           others == Only(ids, ToSet(ids) \ ToSet(asked))
<1>1. IdsOf(items) \in Seq(RecordId) /\ IsInjective(IdsOf(items))
  BY ListingIds DEF Listing
<1>2. /\ asked \in Seq(RecordId) /\ IsInjective(asked)
      /\ ToSet(asked) = ToSet(IdsOf(items)) \cap ToSet(ids)
  BY <1>1, OnlySelects
<1>3. OrderIds(ids, items) = asked \o others
  BY DEF OrderIds
<1> HIDE DEF asked
<1>4. /\ others \in Seq(RecordId) /\ IsInjective(others)
      /\ ToSet(others) = ToSet(ids) \cap (ToSet(ids) \ ToSet(asked))
  BY OnlySelects
<1> HIDE DEF others
<1>5. ToSet(asked) \cap ToSet(others) = {}
  BY <1>4
<1>6. /\ asked \o others \in Seq(RecordId) /\ IsInjective(asked \o others)
      /\ ToSet(asked \o others) = ToSet(asked) \cup ToSet(others)
  BY <1>2, <1>4, <1>5, Joined
<1>7. ToSet(asked) \cup ToSet(others) = ToSet(ids)
  BY <1>2, <1>4
<1>. QED  BY <1>3, <1>6, <1>7

(* Without items the order is as it was. *)
LEMMA Unordered ==
  ASSUME NEW ids \in Seq(RecordId), IsInjective(ids)
  PROVE  OrderIds(ids, <<>>) = ids
<1>1. IdsOf(<<>>) \in Seq(RecordId) /\ ToSet(IdsOf(<<>>)) = {}
  BY DEF IdsOf, ToSet
<1> DEFINE asked == Only(IdsOf(<<>>), ToSet(ids))
<1>2. asked \in Seq(RecordId) /\ ToSet(asked) = {}
  BY <1>1, OnlySelects
<1>3. OrderIds(ids, <<>>) = asked \o Only(ids, ToSet(ids) \ ToSet(asked))
  BY DEF OrderIds
<1> HIDE DEF asked
<1>4. Only(ids, ToSet(ids) \ ToSet(asked)) = ids
  BY <1>2, OnlyAll
<1>5. asked = <<>>
  <2>1. \A n \in 1..Len(asked) : asked[n] \in ToSet(asked)
    BY <1>2 DEF ToSet
  <2>2. Len(asked) = 0
    BY <1>2, <2>1
  <2>. QED  BY <1>2, <2>2
<1>6. <<>> \o ids = ids
  OBVIOUS
<1>. QED  BY <1>3, <1>4, <1>5, <1>6

LEMMA EditorIs ==
  ASSUME NEW p, Proper(p), NEW c, c = Nothing \/ Form(c)
  PROVE  /\ Form(Editor(p, c))
         /\ \A k \in Part :
              /\ IdsOf(Editor(p, c)[k]) = OrderIds(Derived(p, k), Saved(c)[k])
              /\ ToSet(IdsOf(Editor(p, c)[k])) = There(p, k)
              /\ \A n \in DOMAIN Editor(p, c)[k] :
                   Editor(p, c)[k][n].on = Picked(c, k, Editor(p, c)[k][n].id)
              /\ \A i \in There(p, k) :
                   ItemOf(Editor(p, c)[k], i) =
                     {[id |-> i, on |-> Picked(c, k, i), summary |-> Summary(Saved(c)[k], i)]}
<1> DEFINE e == Editor(p, c)
<1>1. ASSUME NEW k \in Part
      PROVE  /\ Listing(e[k]) /\ IdsOf(e[k]) = OrderIds(Derived(p, k), Saved(c)[k])
             /\ ToSet(IdsOf(e[k])) = There(p, k)
             /\ \A n \in DOMAIN e[k] : e[k][n].on = Picked(c, k, e[k][n].id)
             /\ \A i \in There(p, k) : ItemOf(e[k], i) =
                  {[id |-> i, on |-> Picked(c, k, i), summary |-> Summary(Saved(c)[k], i)]}
  <2> DEFINE items == Saved(c)[k]
             o == OrderIds(Derived(p, k), items)
             b == Boxes(o, items)
  <2>1. Listing(items)
    BY SavedLists
  <2>2. e[k] = b
    BY DEF Editor
  <2> HIDE DEF items, e
  <2>3. o \in Seq(RecordId) /\ IsInjective(o) /\ ToSet(o) = There(p, k)
    BY <2>1, DerivedIs, Ordered
  <2> HIDE DEF o
  <2>4. /\ Listing(b) /\ IdsOf(b) = o
        /\ \A n \in DOMAIN o : b[n].on = On(items, o[n]) /\ b[n].id = o[n]
        /\ \A i \in ToSet(o) : ItemOf(b, i) =
             {[id |-> i, on |-> On(items, i), summary |-> Summary(items, i)]}
    BY <2>1, <2>3, BoxesAre
  <2> HIDE DEF b
  <2>5. DOMAIN b = DOMAIN o
    BY <2>4 DEF IdsOf
  <2>6. \A i : Picked(c, k, i) = On(items, i)
    BY DEF Picked, items
  <2>7. \A n \in DOMAIN b : b[n].on = Picked(c, k, b[n].id)
    BY <2>4, <2>5, <2>6
  <2>8. \A i \in There(p, k) : ItemOf(b, i) =
          {[id |-> i, on |-> Picked(c, k, i), summary |-> Summary(items, i)]}
    BY <2>3, <2>4, <2>6
  <2>. QED  BY <2>2, <2>3, <2>4, <2>7, <2>8 DEF o, items
<1>2. e = [k \in Part |-> e[k]]
  BY DEF Editor
<1> HIDE DEF e
<1>3. Form(e)
  BY <1>1, <1>2 DEF Form, Listing
<1>. QED  BY <1>1, <1>3 DEF e

LEMMA MergedIs ==
  ASSUME NEW p, Proper(p), NEW form, Form(form)
  PROVE  /\ Form(Merged(p, form))
         /\ \A k \in Part :
              /\ ToSet(IdsOf(Merged(p, form)[k])) = There(p, k)
              /\ \A i \in There(p, k) :
                   ItemOf(Merged(p, form)[k], i) =
                     {[id |-> i, on |-> \E f \in ItemOf(form[k], i) : f.on,
                       summary |-> Summary(form[k], i)]}
<1> DEFINE e == Merged(p, form)
           item(k, i) == [id |-> i, on |-> \E f \in ItemOf(form[k], i) : f.on,
                          summary |-> Summary(form[k], i)]
<1>1. ASSUME NEW k \in Part
      PROVE  /\ Listing(e[k]) /\ ToSet(IdsOf(e[k])) = There(p, k)
             /\ \A i \in There(p, k) : ItemOf(e[k], i) = {item(k, i)}
  <2> DEFINE shown == ToSet(IdsOf(form[k]))
             d == Derived(p, k)
             first == Only(d, shown)
             then == Only(d, RecordId \ shown)
             b == Checked(first \o then, form[k])
  <2>1. e[k] = b
    BY DEF Merged
  <2>2. Listing(form[k])
    BY DEF Form
  <2>3. /\ d \in Seq(RecordId) /\ IsInjective(d) /\ ToSet(d) = There(p, k)
        /\ There(p, k) \subseteq RecordId
    BY DerivedIs
  <2> HIDE DEF e, d, shown
  <2>4. first \in Seq(RecordId) /\ IsInjective(first) /\ ToSet(first) = ToSet(d) \cap shown
    BY <2>3, OnlySelects
  <2>5. /\ then \in Seq(RecordId) /\ IsInjective(then)
        /\ ToSet(then) = ToSet(d) \cap (RecordId \ shown)
    BY <2>3, OnlySelects
  <2> HIDE DEF first, then
  <2>6. ToSet(first) \cap ToSet(then) = {} /\ ToSet(first) \cup ToSet(then) = There(p, k)
    BY <2>3, <2>4, <2>5
  <2>7. /\ first \o then \in Seq(RecordId) /\ IsInjective(first \o then)
        /\ ToSet(first \o then) = There(p, k)
    BY <2>4, <2>5, <2>6, Joined
  <2> DEFINE both == first \o then
  <2>8. both \in Seq(RecordId) /\ IsInjective(both) /\ ToSet(both) = There(p, k)
    BY <2>7
  <2> HIDE DEF both
  <2>9. /\ Listing(Checked(both, form[k])) /\ IdsOf(Checked(both, form[k])) = both
        /\ \A i \in ToSet(both) : ItemOf(Checked(both, form[k]), i) = {item(k, i)}
    BY <2>2, <2>8, CheckedAre
  <2>10. b = Checked(both, form[k])
    BY DEF both
  <2> HIDE DEF b, item
  <2>. QED  BY <2>1, <2>8, <2>9, <2>10
<1>2. e = [k \in Part |-> e[k]]
  BY DEF Merged
<1> HIDE DEF e
<1>3. Form(e)
  <2> HIDE DEF item
  <2>. QED  BY <1>1, <1>2 DEF Form, Listing
<1>. QED  BY <1>1, <1>3 DEF e

LEMMA ChosenIs ==
  ASSUME NEW p, Proper(p), NEW c, c = Nothing \/ Form(c), NEW k \in Part
  PROVE  /\ Chosen(p, c, k) \in Seq(RecordId) /\ IsInjective(Chosen(p, c, k))
         /\ ToSet(Chosen(p, c, k)) = {i \in There(p, k) : Picked(c, k, i)}
<1> DEFINE items == Saved(c)[k]
           o == OrderIds(Derived(p, k), items)
           S == {i \in ToSet(o) : On(items, i)}
<1>1. o \in Seq(RecordId) /\ IsInjective(o) /\ ToSet(o) = There(p, k)
  BY SavedLists, DerivedIs, Ordered
<1>2. Chosen(p, c, k) = Only(o, S)
  BY DEF Chosen
<1>3. S = {i \in There(p, k) : Picked(c, k, i)}
  BY <1>1 DEF Picked
<1> HIDE DEF o, S, items
<1>4. /\ Only(o, S) \in Seq(RecordId) /\ IsInjective(Only(o, S))
      /\ ToSet(Only(o, S)) = ToSet(o) \cap S
  BY <1>1, OnlySelects
<1>. QED  BY <1>1, <1>2, <1>3, <1>4

(* What is told, record by record. *)
LEMMA ToldIs ==
  ASSUME NEW p, Proper(p), NEW c, c = Nothing \/ Form(c), NEW k \in Part
  PROVE  /\ Told(p, c, k) \in Seq(RecordId) /\ IsInjective(Told(p, c, k))
         /\ ToSet(Told(p, c, k)) = {i \in There(p, k) : Shows(p, c, k, i)}
<1>1. /\ Derived(p, k) \in Seq(RecordId) /\ IsInjective(Derived(p, k))
      /\ ToSet(Derived(p, k)) = There(p, k)
  BY DerivedIs
<1>2. /\ Chosen(p, c, k) \in Seq(RecordId) /\ IsInjective(Chosen(p, c, k))
      /\ ToSet(Chosen(p, c, k)) = {i \in There(p, k) : Picked(c, k, i)}
  BY ChosenIs
<1>3. CASE c = Nothing
  <2>1. \A i : Shows(p, c, k, i)
    BY <1>3, AllPicked DEF Shows, Part
  <2>. QED  BY <1>1, <1>3, <2>1 DEF Told
<1>4. CASE c # Nothing /\ k # "experiments"
  <2>1. Told(p, c, k) = Chosen(p, c, k)
    BY <1>4 DEF Told
  <2>2. \A i : Shows(p, c, k, i) <=> Picked(c, k, i)
    BY <1>4 DEF Shows
  <2>. QED  BY <1>2, <2>1, <2>2
<1>5. CASE c # Nothing /\ k = "experiments"
  <2> DEFINE S == {x \in ToSet(Chosen(p, c, k)) : ParentShown(p, c, x)}
  <2>1. Told(p, c, k) = Only(Chosen(p, c, k), S)
    BY <1>5 DEF Told
  <2>2. ToSet(Chosen(p, c, "decisions")) = {i \in p.decisions : Picked(c, "decisions", i)}
    BY ChosenIs DEF Part, There
  <2>3. ASSUME NEW x \in There(p, k) PROVE ParentShown(p, c, x) /\ Picked(c, k, x) <=> Shows(p, c, k, x)
    <3>1. p.experiments[x].decision \in p.decisions \cup {Nothing}
      BY <1>5, <2>3 DEF There, Proper
    <3>. QED  BY <1>5, <2>2, <3>1 DEF ParentShown, Shows
  <2>4. S = {x \in There(p, k) : Shows(p, c, k, x)}
    BY <1>2, <2>3
  <2> HIDE DEF S
  <2>5. /\ Only(Chosen(p, c, k), S) \in Seq(RecordId) /\ IsInjective(Only(Chosen(p, c, k), S))
        /\ ToSet(Only(Chosen(p, c, k), S)) = ToSet(Chosen(p, c, k)) \cap S
    BY <1>2, OnlySelects
  <2>6. S \subseteq ToSet(Chosen(p, c, k))
    BY <2>5 DEF S
  <2>. QED  BY <2>1, <2>4, <2>5, <2>6
<1>. QED  BY <1>3, <1>4, <1>5

(* What the editor shows and saves of every record is what it found.        *)
LEMMA NoopSaved ==
  ASSUME NEW p, Proper(p), NEW c, c = Nothing \/ Form(c)
  PROVE  LET saved == Merged(p, Editor(p, c)) IN
         /\ \A k \in Part : ToSet(Told(p, saved, k)) = ToSet(Told(p, c, k))
         /\ \A x \in ToSet(Told(p, c, "lessons")) : TextTold(p, saved, x) = TextTold(p, c, x)
<1> DEFINE e == Editor(p, c)
           saved == Merged(p, e)
<1>1. /\ Form(e)
      /\ \A k \in Part : \A i \in There(p, k) : ItemOf(e[k], i) =
           {[id |-> i, on |-> Picked(c, k, i), summary |-> Summary(Saved(c)[k], i)]}
  BY EditorIs
<1>2. \A k \in Part : \A i \in There(p, k) :
        (\E f \in ItemOf(e[k], i) : f.on) = Picked(c, k, i)
  <2> SUFFICES ASSUME NEW k \in Part, NEW i \in There(p, k)
               PROVE  (\E f \in ItemOf(e[k], i) : f.on) = Picked(c, k, i)
    OBVIOUS
  <2> DEFINE it == [id |-> i, on |-> Picked(c, k, i), summary |-> Summary(Saved(c)[k], i)]
  <2>1. ItemOf(e[k], i) = {it} /\ it.on = Picked(c, k, i)
    BY <1>1
  <2>2. Picked(c, k, i) \in BOOLEAN
    BY DEF Picked, On
  <2> HIDE DEF it, e
  <2>. QED  BY <2>1, <2>2
<1>3. \A k \in Part : \A i \in There(p, k) : Summary(e[k], i) = Summary(Saved(c)[k], i)
  <2> SUFFICES ASSUME NEW k \in Part, NEW i \in There(p, k)
               PROVE  Summary(e[k], i) = Summary(Saved(c)[k], i)
    OBVIOUS
  <2> DEFINE it == [id |-> i, on |-> Picked(c, k, i), summary |-> Summary(Saved(c)[k], i)]
  <2>1. ItemOf(e[k], i) = {it} /\ it.summary = Summary(Saved(c)[k], i)
    BY <1>1
  <2> HIDE DEF it, e
  <2>2. (CHOOSE j \in ItemOf(e[k], i) : TRUE) = it
    BY <2>1
  <2>. QED  BY <2>1, <2>2 DEF Summary
<1> HIDE DEF e
<1>4. /\ Form(saved)
      /\ \A k \in Part : \A i \in There(p, k) : ItemOf(saved[k], i) =
           {[id |-> i, on |-> \E f \in ItemOf(e[k], i) : f.on, summary |-> Summary(e[k], i)]}
  BY <1>1, MergedIs
<1> HIDE DEF saved
<1>5. saved # Nothing
  BY <1>4, NothingIsNothing DEF Form
<1>6. ASSUME NEW k \in Part, NEW i \in There(p, k)
      PROVE  Picked(saved, k, i) = Picked(c, k, i) /\ Summary(saved[k], i) = Summary(Saved(c)[k], i)
  <2> DEFINE it == [id |-> i, on |-> \E f \in ItemOf(e[k], i) : f.on, summary |-> Summary(e[k], i)]
  <2>1. ItemOf(saved[k], i) = {it}
    BY <1>4
  <2>2. it.on = Picked(c, k, i) /\ it.summary = Summary(Saved(c)[k], i)
    BY <1>2, <1>3
  <2> HIDE DEF it
  <2>3. (CHOOSE j \in ItemOf(saved[k], i) : TRUE) = it
    BY <2>1
  <2>4. Summary(saved[k], i) = it.summary
    BY <2>1, <2>3 DEF Summary
  <2>5. Picked(saved, k, i) = it.on
    <3>1. Picked(c, k, i) \in BOOLEAN
      BY DEF Picked, On
    <3>. QED  BY <1>5, <2>1, <2>2, <3>1 DEF Picked, On, Saved
  <2>. QED  BY <2>2, <2>4, <2>5
<1>7. ASSUME NEW k \in Part, NEW i \in There(p, k)
      PROVE  Shows(p, saved, k, i) <=> Shows(p, c, k, i)
  <2>1. k = "experiments" => p.experiments[i].decision \in There(p, "decisions") \cup {Nothing}
    BY DEF There, Proper
  <2>2. "decisions" \in Part
    BY DEF Part
  <2>. QED  BY <1>6, <2>1, <2>2 DEF Shows
<1>8. ASSUME NEW k \in Part PROVE ToSet(Told(p, saved, k)) = ToSet(Told(p, c, k))
  <2>1. ToSet(Told(p, saved, k)) = {i \in There(p, k) : Shows(p, saved, k, i)}
    BY <1>4, ToldIs
  <2>2. ToSet(Told(p, c, k)) = {i \in There(p, k) : Shows(p, c, k, i)}
    BY ToldIs
  <2>. QED  BY <1>7, <2>1, <2>2
<1>9. ASSUME NEW x \in ToSet(Told(p, c, "lessons"))
      PROVE  TextTold(p, saved, x) = TextTold(p, c, x)
  <2>1. "lessons" \in Part /\ x \in There(p, "lessons")
    <3>1. "lessons" \in Part
      BY DEF Part
    <3>. QED  BY <1>9, <3>1, ToldIs
  <2>2. Summary(saved.lessons, x) = Summary(Saved(c).lessons, x)
    BY <1>6, <2>1
  <2>3. c = Nothing => Summary(Saved(c).lessons, x) = Nothing
    BY <2>1 DEF Saved, Summary, ItemOf
  <2>. QED  BY <1>5, <2>2, <2>3 DEF TextTold, Saved
<1>. QED  BY <1>8, <1>9 DEF saved, e

(* What the editor shows with a check mark is what is told, but for the     *)
(* parent rule.                                                             *)
LEMMA EditorTells ==
  ASSUME NEW p, Proper(p), NEW c, c = Nothing \/ Form(c), NEW k \in Part
  PROVE  LET boxes == Editor(p, c)[k]
             checked == Only(IdsOf(boxes), {b.id : b \in {b \in ToSet(boxes) : b.on}})
             parent(i) == IF k = "experiments" THEN p.experiments[i].decision ELSE Nothing
         IN Told(p, c, k) = Only(checked, {i \in ToSet(checked) :
              parent(i) # Nothing => parent(i) \in ToSet(Told(p, c, "decisions"))})
<1> DEFINE boxes == Editor(p, c)[k]
           S == {b.id : b \in {b \in ToSet(boxes) : b.on}}
           o == OrderIds(Derived(p, k), Saved(c)[k])
           checked == Only(IdsOf(boxes), S)
           parent(i) == IF k = "experiments" THEN p.experiments[i].decision ELSE Nothing
           P == {i \in ToSet(checked) :
                   parent(i) # Nothing => parent(i) \in ToSet(Told(p, c, "decisions"))}
<1>1. /\ Listing(boxes) /\ IdsOf(boxes) = o
      /\ \A n \in DOMAIN boxes : boxes[n].on = Picked(c, k, boxes[n].id)
  BY EditorIs DEF Form
<1>2. o \in Seq(RecordId) /\ IsInjective(o) /\ ToSet(o) = There(p, k)
  BY SavedLists, DerivedIs, Ordered
<1>3. checked = Chosen(p, c, k)
  <2> DEFINE R == {i \in ToSet(o) : On(Saved(c)[k], i)}
  <2>1. Chosen(p, c, k) = Only(o, R)
    BY DEF Chosen
  <2> HIDE DEF boxes, o
  <2>2. ASSUME NEW i \in ToSet(o) PROVE i \in S <=> i \in R
    <3>1. PICK n \in DOMAIN boxes : i = boxes[n].id
      BY <1>1, <2>2, ListingIds
    <3>2. boxes[n].on = Picked(c, k, i) /\ boxes[n] \in ToSet(boxes)
      BY <1>1, <3>1 DEF ToSet
    <3>3. \A m \in DOMAIN boxes : boxes[m].id = i => boxes[m].on = Picked(c, k, i)
      BY <1>1
    <3>4. i \in S <=> Picked(c, k, i)
      BY <3>1, <3>2, <3>3 DEF ToSet
    <3>. QED  BY <2>2, <3>4 DEF Picked
  <2> HIDE DEF S, R
  <2>3. Only(o, S) = Only(o, R)
    BY <1>2, <2>2, OnlyAgrees
  <2>. QED  BY <1>1, <2>1, <2>3
<1> HIDE DEF checked
<1>4. /\ checked \in Seq(RecordId)
      /\ ToSet(checked) = {i \in There(p, k) : Picked(c, k, i)}
  BY <1>3, ChosenIs
<1>5. ToSet(Told(p, c, "decisions")) = ToSet(Chosen(p, c, "decisions"))
  <2>1. "decisions" \in Part
    BY DEF Part
  <2>2. \A i \in There(p, "decisions") : Shows(p, c, "decisions", i) <=> Picked(c, "decisions", i)
    BY DEF Shows
  <2>3. ToSet(Told(p, c, "decisions")) =
          {i \in There(p, "decisions") : Shows(p, c, "decisions", i)}
    BY <2>1, ToldIs
  <2>4. ToSet(Chosen(p, c, "decisions")) =
          {i \in There(p, "decisions") : Picked(c, "decisions", i)}
    BY <2>1, ChosenIs
  <2>. QED  BY <2>2, <2>3, <2>4
<1>6. CASE c = Nothing
  <2>1. Told(p, c, k) = Derived(p, k)
    BY <1>6 DEF Told
  <2>2. o = Derived(p, k)
    BY <1>6, DerivedIs, Unordered DEF Saved
  <2>3. {i \in ToSet(o) : On(Saved(c)[k], i)} = ToSet(o)
    BY <1>6, AllPicked DEF Picked
  <2>4. Chosen(p, c, k) = Only(o, ToSet(o))
    BY <2>3 DEF Chosen
  <2>5. checked = Derived(p, k)
    BY <1>2, <1>3, <2>2, <2>4, OnlyAll
  <2>6. ASSUME NEW i \in ToSet(checked), parent(i) # Nothing
        PROVE  parent(i) \in ToSet(Told(p, c, "decisions"))
    <3>1. k = "experiments" /\ i \in There(p, k)
      BY <1>4, <2>6
    <3>2. parent(i) \in There(p, "decisions")
      BY <2>6, <3>1 DEF There, Proper
    <3>3. ToSet(Chosen(p, c, "decisions")) = There(p, "decisions")
      <4>1. "decisions" \in Part
        BY DEF Part
      <4>2. ToSet(Chosen(p, c, "decisions")) =
              {j \in There(p, "decisions") : Picked(c, "decisions", j)}
        BY <4>1, ChosenIs
      <4>3. \A j : Picked(c, "decisions", j)
        BY <1>6, <4>1, AllPicked
      <4>. QED  BY <4>2, <4>3
    <3>. QED  BY <1>5, <3>2, <3>3
  <2>7. ToSet(checked) \subseteq P
    BY <2>6
  <2> HIDE DEF P
  <2>8. Only(checked, P) = checked
    BY <1>4, <2>7, OnlyAll
  <2>. QED  BY <2>1, <2>5, <2>8 DEF P, checked
<1>7. CASE c # Nothing /\ k # "experiments"
  <2>1. Told(p, c, k) = checked
    BY <1>3, <1>7 DEF Told
  <2>2. ToSet(checked) \subseteq P
    BY <1>7
  <2> HIDE DEF P
  <2>3. Only(checked, P) = checked
    BY <1>4, <2>2, OnlyAll
  <2>. QED  BY <2>1, <2>3 DEF P, checked
<1>8. CASE c # Nothing /\ k = "experiments"
  <2> DEFINE R == {x \in ToSet(Chosen(p, c, k)) : ParentShown(p, c, x)}
  <2>1. Told(p, c, k) = Only(checked, R)
    BY <1>3, <1>8 DEF Told
  <2>2. R = P
    BY <1>3, <1>5, <1>8 DEF ParentShown
  <2>. QED  BY <2>1, <2>2 DEF P, checked
<1>. QED  BY <1>6, <1>7, <1>8

-----------------------------------------------------------------------------
(* What holds in every state.  Forms are proper and name records that were  *)
(* created; what is about to be stored has the boxes of its page.           *)

Numbered(c, cr) ==
  \A k \in {"decisions", "experiments"} : \A i \in ToSet(IdsOf(c[k])) : i <= cr[k]

FormOK(c, cr) == c = Nothing \/ (Form(c) /\ Numbered(c, cr))

Fits(s, f) ==
  s # Nothing =>
    /\ f # Nothing
    /\ \A k \in Part : \A n \in DOMAIN s[k] :
         s[k][n].on = \E b \in ItemOf(f[k], s[k][n].id) : b.on

CreatedOK(p, cr) ==
  /\ cr \in [decisions : 0..NumDecisions, experiments : 0..NumExperiments]
  /\ \A k \in {"decisions", "experiments"} : \A i \in There(p, k) : i <= cr[k]

FormsOK(cr, cf, pg, sn) ==
  /\ FormOK(cf, cr)
  /\ pg = [t \in Tab |-> pg[t]] /\ sn = [t \in Tab |-> sn[t]]
  /\ \A t \in Tab : FormOK(pg[t], cr) /\ FormOK(sn[t], cr) /\ Fits(sn[t], pg[t])

StoryInv ==
  /\ Proper(records) /\ CreatedOK(records, created)
  /\ FormsOK(created, config, page, sent)
  /\ changes \in 0..MaxChanges

LEMMA StoryInvNext ==
  ASSUME Proper(records'), CreatedOK(records', created'),
         FormsOK(created', config', page', sent'), changes' \in 0..MaxChanges
  PROVE  StoryInv'
BY DEF StoryInv, Proper, CreatedOK, There, Lessons, FormsOK, FormOK, Form, Listing, Numbered,
       IdsOf, IsInjective, ToSet, Fits, ItemOf, records

LEMMA StoryInitInv == Init => StoryInv
<1> SUFFICES ASSUME Init PROVE StoryInv  OBVIOUS
<1>1. Proper(records)
  BY DEF Init, Proper, records
<1>2. CreatedOK(records, created)
  BY Bounds DEF Init, CreatedOK, There, records
<1>3. FormsOK(created, config, page, sent) /\ changes \in 0..MaxChanges
  BY Bounds DEF Init, FormsOK, FormOK, Fits
<1>. QED  BY <1>1, <1>2, <1>3 DEF StoryInv

LEMMA FormStaysOK ==
  ASSUME NEW c, NEW cr, NEW to, FormOK(c, cr),
         \A k \in {"decisions", "experiments"} : cr[k] \in Nat /\ to[k] \in Nat /\ cr[k] <= to[k]
  PROVE  FormOK(c, to)
<1>1. ASSUME Form(c), NEW k \in {"decisions", "experiments"}, NEW i \in ToSet(IdsOf(c[k]))
      PROVE  i \in Nat
  <2>1. Listing(c[k])
    BY <1>1 DEF Form, Part
  <2>2. IdsOf(c[k]) \in Seq(RecordId)
    BY <2>1, ListingIds
  <2>3. i \in RecordId
    BY <1>1, <2>2 DEF ToSet
  <2>. QED  BY <2>3, Bounds DEF RecordId, Decision, Experiment
<1>2. ASSUME Form(c), Numbered(c, cr) PROVE Numbered(c, to)
  <2> SUFFICES ASSUME NEW k \in {"decisions", "experiments"}, NEW i \in ToSet(IdsOf(c[k]))
               PROVE  i <= to[k]
    BY DEF Numbered
  <2>1. i <= cr[k] /\ cr[k] \in Nat /\ to[k] \in Nat /\ cr[k] <= to[k] /\ i \in Nat
    BY <1>1, <1>2 DEF Numbered
  <2>. QED  BY <2>1
<1>. QED  BY <1>2 DEF FormOK

(* The project changes; the forms stay as they are. *)
LEMMA ProjectMoves ==
  ASSUME StoryInv, Counted, Proper(records'), CreatedOK(records', created'),
         UNCHANGED <<config, page, sent>>,
         \A k \in {"decisions", "experiments"} : created[k] <= created'[k]
  PROVE  StoryInv'
<1>1. changes' \in 0..MaxChanges
  BY Bounds DEF StoryInv, Counted
<1>2. \A k \in {"decisions", "experiments"} :
        created[k] \in Nat /\ created'[k] \in Nat /\ created[k] <= created'[k]
  BY Bounds DEF StoryInv, CreatedOK
<1>3. FormsOK(created', config, page, sent)
  BY <1>2, FormStaysOK DEF StoryInv, FormsOK
<1>. QED  BY <1>1, <1>3, StoryInvNext

LEMMA CreatesKeep ==
  StoryInv /\ (CreateDecision \/ \E d \in Decision \cup {Nothing} : CreateExperiment(d)) => StoryInv'
<1> SUFFICES ASSUME StoryInv,
                    CreateDecision \/ \E d \in Decision \cup {Nothing} : CreateExperiment(d)
             PROVE  StoryInv'
  OBVIOUS
<1>1. /\ Proper(records) /\ CreatedOK(records, created)
      /\ created.decisions \in Nat /\ created.experiments \in Nat
  BY Bounds DEF StoryInv, CreatedOK
<1>2. CASE CreateDecision
  <2>1. Proper(records')
    BY <1>1, <1>2, Bounds DEF CreateDecision, Proper, records, Decision
  <2>2. CreatedOK(records', created')
    BY <1>1, <1>2, Bounds DEF CreateDecision, CreatedOK, records, There, Proper, Decision
  <2>3. \A k \in {"decisions", "experiments"} : created[k] <= created'[k]
    BY <1>1, <1>2 DEF CreateDecision, CreatedOK
  <2>. QED  BY <1>2, <2>1, <2>2, <2>3, ProjectMoves DEF CreateDecision
<1>3. ASSUME NEW d \in Decision \cup {Nothing}, CreateExperiment(d) PROVE StoryInv'
  <2>1. [decision |-> d, lesson |-> Nothing] \in ExperimentRow
    BY DEF ExperimentRow
  <2>2. Proper(records')
    BY <1>1, <1>3, <2>1, Bounds DEF CreateExperiment, Proper, records, Experiment
  <2>3. CreatedOK(records', created')
    BY <1>1, <1>3, Bounds DEF CreateExperiment, CreatedOK, records, There, Proper, Experiment
  <2>4. \A k \in {"decisions", "experiments"} : created[k] <= created'[k]
    BY <1>1, <1>3 DEF CreateExperiment, CreatedOK
  <2>. QED  BY <1>3, <2>2, <2>3, <2>4, ProjectMoves DEF CreateExperiment
<1>. QED  BY <1>2, <1>3

LEMMA ChangesKeep ==
  StoryInv /\ (\/ \E x \in Experiment, text \in Wording \cup {Nothing} : Learn(x, text)
               \/ \E d \in Decision : DeleteDecision(d)
               \/ \E x \in Experiment : DeleteExperiment(x)) => StoryInv'
<1> SUFFICES ASSUME StoryInv,
                    \/ \E x \in Experiment, text \in Wording \cup {Nothing} : Learn(x, text)
                    \/ \E d \in Decision : DeleteDecision(d)
                    \/ \E x \in Experiment : DeleteExperiment(x)
             PROVE  StoryInv'
  OBVIOUS
<1>1. /\ Proper(records) /\ CreatedOK(records, created)
      /\ created.decisions \in Nat /\ created.experiments \in Nat
  BY Bounds DEF StoryInv, CreatedOK
<1>2. Nothing \notin ExperimentRow
  BY NothingIsNothing
<1>3. ASSUME UNCHANGED created, Counted, UNCHANGED <<config, page, sent>>, Proper(records'),
             There(records', "decisions") \subseteq There(records, "decisions"),
             There(records', "experiments") \subseteq There(records, "experiments")
      PROVE  StoryInv'
  <2>1. CreatedOK(records', created')
    BY <1>1, <1>3 DEF CreatedOK
  <2>2. \A k \in {"decisions", "experiments"} : created[k] <= created'[k]
    BY <1>1, <1>3
  <2>. QED  BY <1>3, <2>1, <2>2, ProjectMoves
<1>4. ASSUME NEW x \in Experiment, NEW text \in Wording \cup {Nothing}, Learn(x, text)
      PROVE  StoryInv'
  <2>1. [experiments[x] EXCEPT !.lesson = text] \in ExperimentRow
    BY <1>1, <1>4 DEF Learn, Proper, records, ExperimentRow
  <2>2. Proper(records')
    BY <1>1, <1>2, <1>4, <2>1 DEF Learn, Proper, records, ExperimentRow
  <2>3. /\ There(records', "decisions") = There(records, "decisions")
        /\ There(records', "experiments") \subseteq There(records, "experiments")
    BY <1>1, <1>4 DEF Learn, There, records, Proper
  <2>. QED  BY <1>3, <1>4, <2>2, <2>3 DEF Learn
<1>5. ASSUME NEW d \in Decision, DeleteDecision(d) PROVE StoryInv'
  <2>1. ASSUME NEW x \in Experiment, experiments[x] # Nothing
        PROVE  /\ experiments'[x] \in ExperimentRow
               /\ experiments'[x].decision \in decisions' \cup {Nothing}
    BY <1>1, <1>5, <2>1 DEF DeleteDecision, Proper, records, ExperimentRow
  <2>2. ASSUME NEW x \in Experiment, experiments[x] = Nothing PROVE experiments'[x] = Nothing
    BY <1>5, <2>2 DEF DeleteDecision
  <2>3. /\ decisions' \subseteq decisions /\ DOMAIN experiments' = Experiment
        /\ experiments' = [x \in Experiment |-> experiments'[x]]
    BY <1>5 DEF DeleteDecision
  <2>4. Proper(records')
    BY <1>1, <2>1, <2>2, <2>3 DEF Proper, records
  <2>5. /\ There(records', "decisions") \subseteq There(records, "decisions")
        /\ There(records', "experiments") \subseteq There(records, "experiments")
    BY <2>2, <2>3 DEF There, records
  <2>. QED  BY <1>3, <1>5, <2>4, <2>5 DEF DeleteDecision
<1>6. ASSUME NEW x \in Experiment, DeleteExperiment(x) PROVE StoryInv'
  <2>1. Proper(records')
    BY <1>1, <1>6 DEF DeleteExperiment, Proper, records
  <2>2. /\ There(records', "decisions") = There(records, "decisions")
        /\ There(records', "experiments") \subseteq There(records, "experiments")
    BY <1>1, <1>6 DEF DeleteExperiment, There, records, Proper
  <2>. QED  BY <1>3, <1>6, <2>1, <2>2 DEF DeleteExperiment
<1>. QED  BY <1>4, <1>5, <1>6

(* A page and a request of one tab change; the project does not.            *)
LEMMA TabMoves ==
  ASSUME StoryInv, UNCHANGED project, changes' \in 0..MaxChanges,
         NEW t \in Tab, NEW f, NEW s, NEW cf,
         page' = [page EXCEPT ![t] = f], sent' = [sent EXCEPT ![t] = s], config' = cf,
         FormOK(f, created), FormOK(s, created), FormOK(cf, created), Fits(s, f)
  PROVE  StoryInv'
<1>1. records' = records /\ created' = created
  BY DEF project, records
<1>2. FormsOK(created, config', page', sent')
  BY DEF StoryInv, FormsOK
<1>. QED  BY <1>1, <1>2, StoryInvNext DEF StoryInv

LEMMA RequestsKeep ==
  ASSUME StoryInv, NEW t \in Tab, Open(t) \/ Post(t) \/ Store(t) \/ Close(t) \/ Reset(t)
  PROVE  StoryInv'
<1>1. /\ Proper(records) /\ CreatedOK(records, created) /\ FormOK(config, created)
      /\ FormOK(page[t], created) /\ FormOK(sent[t], created) /\ Fits(sent[t], page[t])
      /\ changes \in 0..MaxChanges
      /\ page = [u \in Tab |-> page[u]] /\ sent = [u \in Tab |-> sent[u]]
  BY DEF StoryInv, FormsOK
<1>2. FormOK(Nothing, created) /\ \A f : Fits(Nothing, f)
  BY DEF FormOK, Fits
<1>3. page = [page EXCEPT ![t] = page[t]] /\ sent = [sent EXCEPT ![t] = sent[t]]
  BY <1>1
<1>4. {"decisions", "experiments"} \subseteq Part
  BY DEF Part
<1>5. CASE Open(t)
  <2> DEFINE e == Editor(records, config)
  <2>1. config = Nothing \/ Form(config)
    BY <1>1 DEF FormOK
  <2>2. Form(e) /\ \A k \in Part : ToSet(IdsOf(e[k])) = There(records, k)
    BY <1>1, <2>1, EditorIs
  <2> HIDE DEF e
  <2>3. FormOK(e, created)
    BY <1>1, <1>4, <2>2 DEF FormOK, Numbered, CreatedOK
  <2>4. sent[t] = Nothing
    BY <1>1, <1>5 DEF Open, Fits
  <2>5. page' = [page EXCEPT ![t] = e]
    BY <1>5 DEF Open, e
  <2>. QED  BY <1>1, <1>2, <1>3, <1>5, <2>3, <2>4, <2>5, TabMoves DEF Open
<1>6. CASE Post(t)
  <2> DEFINE m == Merged(records, page[t])
  <2>1. Form(page[t]) /\ page[t] # Nothing
    BY <1>1, <1>6 DEF FormOK, Post
  <2>2. /\ Form(m)
        /\ \A k \in Part : ToSet(IdsOf(m[k])) = There(records, k)
        /\ \A k \in Part : \A i \in There(records, k) : ItemOf(m[k], i) =
             {[id |-> i, on |-> \E b \in ItemOf(page[t][k], i) : b.on,
               summary |-> Summary(page[t][k], i)]}
    BY <1>1, <2>1, MergedIs
  <2> HIDE DEF m
  <2>3. FormOK(m, created)
    BY <1>1, <1>4, <2>2 DEF FormOK, Numbered, CreatedOK
  <2>4. ASSUME NEW k \in Part, NEW n \in DOMAIN m[k]
        PROVE  m[k][n].on = \E b \in ItemOf(page[t][k], m[k][n].id) : b.on
    <3> DEFINE i == m[k][n].id
    <3>1. Listing(m[k])
      BY <2>2 DEF Form
    <3>2. i \in There(records, k)
      BY <2>2, <3>1, ListingIds
    <3>3. ItemOf(m[k], i) = {m[k][n]}
      BY <3>1, OneItem
    <3> DEFINE on == \E b \in ItemOf(page[t][k], i) : b.on
               it == [id |-> i, on |-> on, summary |-> Summary(page[t][k], i)]
    <3>4. ItemOf(m[k], i) = {it} /\ it.on = on
      BY <2>2, <3>2
    <3> HIDE DEF it, on
    <3>5. m[k][n] = it
      BY <3>3, <3>4
    <3>. QED  BY <3>4, <3>5 DEF on
  <2>5. Fits(m, page[t])
    BY <2>1, <2>4 DEF Fits
  <2>6. sent' = [sent EXCEPT ![t] = m]
    BY <1>6 DEF Post, m
  <2>. QED  BY <1>1, <1>3, <1>6, <2>3, <2>5, <2>6, TabMoves DEF Post
<1>7. CASE Store(t)
  <2>1. changes' \in 0..MaxChanges
    BY <1>1, <1>7, Bounds DEF Store, Counted
  <2>. QED  BY <1>1, <1>2, <1>7, <2>1, TabMoves DEF Store
<1>8. CASE Close(t)
  BY <1>1, <1>2, <1>8, TabMoves DEF Close
<1>9. CASE Reset(t)
  <2>1. sent[t] = Nothing
    BY <1>9 DEF Reset
  <2>. QED  BY <1>1, <1>2, <1>3, <1>9, <2>1, TabMoves DEF Reset
<1>. QED  BY <1>5, <1>6, <1>7, <1>8, <1>9

(* The items of a part are replaced by items of the same records. *)
LEMMA PutItems ==
  ASSUME NEW f, NEW cr, FormOK(f, cr), f # Nothing, NEW k \in Part, NEW items, Listing(items),
         ToSet(IdsOf(items)) \subseteq ToSet(IdsOf(f[k]))
  PROVE  FormOK([f EXCEPT ![k] = items], cr)
<1> DEFINE g == [f EXCEPT ![k] = items]
<1>1. f \in [Part -> Seq(Item)] /\ (\A j \in Part : Listing(f[j])) /\ Numbered(f, cr)
  BY DEF FormOK, Form
<1>2. g[k] = items /\ \A j \in Part : j # k => g[j] = f[j]
  BY <1>1
<1>3. g \in [Part -> Seq(Item)]
  BY <1>1 DEF Listing
<1> HIDE DEF g
<1>4. Form(g)
  BY <1>1, <1>2, <1>3 DEF Form
<1>5. ASSUME NEW j \in {"decisions", "experiments"}
      PROVE  ToSet(IdsOf(g[j])) \subseteq ToSet(IdsOf(f[j]))
  BY <1>2 DEF Part
<1>6. Numbered(g, cr)
  BY <1>1, <1>5 DEF Numbered
<1>. QED  BY <1>4, <1>6 DEF FormOK, g

(* A box or a summary changes; the record it is of does not. *)
LEMMA Relabelled ==
  ASSUME NEW items, Listing(items), NEW n \in DOMAIN items, NEW it \in Item,
         it.id = items[n].id
  PROVE  Listing([items EXCEPT ![n] = it]) /\ IdsOf([items EXCEPT ![n] = it]) = IdsOf(items)
<1>1. items \in Seq(Item) /\ Len(items) \in Nat /\ DOMAIN items = 1..Len(items)
  BY DEF Listing
<1>2. [items EXCEPT ![n] = it] \in Seq(Item)
  BY <1>1
<1>3. IdsOf([items EXCEPT ![n] = it]) = IdsOf(items)
  BY <1>1 DEF IdsOf
<1>. QED  BY <1>2, <1>3 DEF Listing

(* Two neighbours change places. *)
LEMMA Swapped ==
  ASSUME NEW items, Listing(items), NEW n \in 2..Len(items)
  PROVE  LET to == [items EXCEPT ![n] = items[n - 1], ![n - 1] = items[n]]
         IN Listing(to) /\ ToSet(IdsOf(to)) = ToSet(IdsOf(items))
<1> DEFINE to == [items EXCEPT ![n] = items[n - 1], ![n - 1] = items[n]]
           at(i) == IF i = n THEN n - 1 ELSE IF i = n - 1 THEN n ELSE i
<1>1. /\ items \in Seq(Item) /\ Len(items) \in Nat /\ DOMAIN items = 1..Len(items)
      /\ n \in 1..Len(items) /\ n - 1 \in 1..Len(items) /\ n - 1 # n
  BY DEF Listing
<1>2. /\ to \in Seq(Item) /\ DOMAIN to = DOMAIN items
      /\ \A i \in DOMAIN items : to[i] = items[at(i)] /\ at(i) \in DOMAIN items
  BY <1>1
<1>3. \A i, j \in DOMAIN items : at(i) = at(j) => i = j
  BY <1>1
<1>4. \A j \in DOMAIN items : \E i \in DOMAIN items : at(i) = j
  <2>1. at(n) = n - 1 /\ at(n - 1) = n /\ \A j \in DOMAIN items : j # n /\ j # n - 1 => at(j) = j
    BY <1>1
  <2>. QED  BY <1>1, <2>1
<1> HIDE DEF to, at
<1>5. DOMAIN IdsOf(to) = DOMAIN items /\ \A i \in DOMAIN items : IdsOf(to)[i] = IdsOf(items)[at(i)]
  BY <1>2 DEF IdsOf
<1>6. DOMAIN IdsOf(items) = DOMAIN items
  BY DEF IdsOf
<1>7. IsInjective(IdsOf(to))
  BY <1>2, <1>3, <1>5, <1>6 DEF Listing, IsInjective
<1>8. ToSet(IdsOf(to)) = ToSet(IdsOf(items))
  <2>1. ToSet(IdsOf(to)) \subseteq ToSet(IdsOf(items))
    BY <1>2, <1>5, <1>6 DEF ToSet
  <2>2. ToSet(IdsOf(items)) \subseteq ToSet(IdsOf(to))
    BY <1>4, <1>5, <1>6 DEF ToSet
  <2>. QED  BY <2>1, <2>2
<1>. QED  BY <1>2, <1>7, <1>8 DEF Listing, to

LEMMA EditsKeep ==
  ASSUME StoryInv, NEW t \in Tab,
         \/ \E k \in Part, n \in 1..(NumDecisions + NumExperiments) : Click(t, k, n) \/ Drag(t, k, n)
         \/ \E n \in Experiment, text \in Wording \cup {Nothing} : Summarise(t, n, text)
  PROVE  StoryInv'
<1>1. /\ FormOK(page[t], created) /\ FormOK(config, created) /\ changes \in 0..MaxChanges
      /\ page = [u \in Tab |-> page[u]] /\ sent = [u \in Tab |-> sent[u]]
  BY DEF StoryInv, FormsOK
<1>2. FormOK(Nothing, created) /\ \A f : Fits(Nothing, f)
  BY DEF FormOK, Fits
<1>3. sent = [sent EXCEPT ![t] = sent[t]]
  BY <1>1
<1>4. ASSUME page[t] # Nothing, sent[t] = Nothing, Counted, UNCHANGED <<project, config, sent>>,
             NEW k \in Part, NEW items, Listing(items),
             ToSet(IdsOf(items)) \subseteq ToSet(IdsOf(page[t][k])),
             page' = [page EXCEPT ![t] = [page[t] EXCEPT ![k] = items]]
      PROVE  StoryInv'
  <2>1. FormOK([page[t] EXCEPT ![k] = items], created)
    BY <1>1, <1>4, PutItems
  <2>2. changes' \in 0..MaxChanges
    BY <1>1, <1>4, Bounds DEF Counted
  <2>. QED  BY <1>1, <1>2, <1>3, <1>4, <2>1, <2>2, TabMoves
<1>5. ASSUME page[t] # Nothing, NEW k \in Part
      PROVE  /\ Listing(page[t][k]) /\ DOMAIN page[t][k] = 1..Len(page[t][k])
             /\ page[t] \in [Part -> Seq(Item)]
             /\ \A n \in DOMAIN page[t][k] : page[t][k][n] \in Item
  <2>1. Form(page[t])
    BY <1>1, <1>5 DEF FormOK
  <2>. QED  BY <2>1, ListingIds DEF Form
<1>6. ASSUME NEW k \in Part, NEW n \in 1..(NumDecisions + NumExperiments), Click(t, k, n)
      PROVE  StoryInv'
  <2> DEFINE it == [page[t][k][n] EXCEPT !.on = ~@]
             items == [page[t][k] EXCEPT ![n] = it]
  <2>1. page[t] # Nothing /\ n \in DOMAIN page[t][k] /\ page[t][k][n] \in Item
    BY <1>5, <1>6 DEF Click
  <2>2. it \in Item /\ it.id = page[t][k][n].id
    BY <2>1 DEF Item
  <2>3. page' = [page EXCEPT ![t] = [page[t] EXCEPT ![k] = items]]
    BY <1>6 DEF Click
  <2> HIDE DEF it
  <2>4. Listing(items) /\ IdsOf(items) = IdsOf(page[t][k])
    BY <1>5, <2>1, <2>2, Relabelled
  <2> HIDE DEF items
  <2>. QED  BY <1>4, <1>6, <2>3, <2>4 DEF Click
<1>7. ASSUME NEW n \in Experiment, NEW text \in Wording \cup {Nothing}, Summarise(t, n, text)
      PROVE  StoryInv'
  <2> DEFINE it == [page[t].lessons[n] EXCEPT !.summary = text]
             items == [page[t].lessons EXCEPT ![n] = it]
  <2>1. "lessons" \in Part
    BY DEF Part
  <2>2. page[t] # Nothing /\ n \in DOMAIN page[t].lessons /\ page[t].lessons[n] \in Item
    BY <1>5, <1>7, <2>1 DEF Summarise
  <2>3. it \in Item /\ it.id = page[t].lessons[n].id
    BY <2>2 DEF Item
  <2>4. page' = [page EXCEPT ![t] = [page[t] EXCEPT !.lessons = items]]
    BY <1>7 DEF Summarise
  <2> HIDE DEF it
  <2>5. Listing(items) /\ IdsOf(items) = IdsOf(page[t].lessons)
    BY <1>5, <2>1, <2>2, <2>3, Relabelled
  <2> HIDE DEF items
  <2>. QED  BY <1>4, <1>7, <2>1, <2>4, <2>5 DEF Summarise
<1>8. ASSUME NEW k \in Part, NEW n \in 1..(NumDecisions + NumExperiments), Drag(t, k, n)
      PROVE  StoryInv'
  <2> DEFINE items == [page[t][k] EXCEPT ![n] = page[t][k][n - 1], ![n - 1] = page[t][k][n]]
  <2>1. page[t] # Nothing /\ n \in 2..Len(page[t][k])
    BY <1>8 DEF Drag
  <2>2. Listing(items) /\ ToSet(IdsOf(items)) = ToSet(IdsOf(page[t][k]))
    BY <1>5, <2>1, Swapped
  <2>3. page' = [page EXCEPT ![t] = [page[t] EXCEPT ![k] = items]]
    <3>1. page' = [page EXCEPT ![t][k][n] = page[t][k][n - 1], ![t][k][n - 1] = page[t][k][n]]
      BY <1>8 DEF Drag
    <3>2. /\ t \in DOMAIN page /\ k \in DOMAIN page[t]
          /\ n \in DOMAIN page[t][k] /\ n - 1 \in DOMAIN page[t][k]
      BY <1>1, <1>5, <2>1
    <3>. QED  BY <3>1, <3>2
  <2> HIDE DEF items
  <2>. QED  BY <1>4, <1>8, <2>2, <2>3 DEF Drag
<1>. QED  BY <1>6, <1>7, <1>8

LEMMA StoryStepInv == StoryInv /\ [Next]_vars => StoryInv'
<1> SUFFICES ASSUME StoryInv, [Next]_vars PROVE StoryInv'  OBVIOUS
<1>1. CASE UNCHANGED vars
  <2>1. /\ records' = records /\ created' = created /\ config' = config
        /\ page' = page /\ sent' = sent /\ changes' = changes
    BY <1>1 DEF vars, records
  <2>. QED  BY <2>1, StoryInvNext DEF StoryInv
<1>2. CASE Next
  BY <1>2, CreatesKeep, ChangesKeep, RequestsKeep, EditsKeep DEF Next
<1>. QED  BY <1>1, <1>2

(* Every form the editor shows, is about to store or has stored lists the   *)
(* records of a part once, and only records that were ever created; a       *)
(* request about to store has the boxes of its page.                        *)
THEOREM StoryInvariant == Spec => []StoryInv
BY StoryInitInv, StoryStepInv, PTL DEF Spec

LEMMA FormIs ==
  ASSUME NEW c, NEW cr, FormOK(c, cr)
  PROVE  WellFormed(c) /\ (c = Nothing \/ Form(c))
<1>1. ASSUME Form(c), NEW k \in Part
      PROVE  c[k] \in Seq(Item) /\ Cardinality(ToSet(IdsOf(c[k]))) = Len(c[k])
  <2>1. Listing(c[k])
    BY <1>1 DEF Form
  <2>2. /\ IdsOf(c[k]) \in Seq(RecordId) /\ Len(IdsOf(c[k])) = Len(c[k])
        /\ IsInjective(IdsOf(c[k])) /\ c[k] \in Seq(Item)
    BY <2>1, ListingIds DEF Listing
  <2>. QED  BY <2>2, MembersCount
<1>. QED  BY <1>1 DEF FormOK, WellFormed

(* The variables of the story keep their types: an experiment has a         *)
(* decision that is there, and no form lists a record twice.                *)
THEOREM StoryTypeCorrect == Spec => []TypeOK
<1>1. StoryInv => TypeOK
  <2> SUFFICES ASSUME StoryInv PROVE TypeOK  OBVIOUS
  <2>1. FormsOK(created, config, page, sent)
    BY DEF StoryInv
  <2>2. WellFormed(config) /\ \A t \in Tab : WellFormed(page[t]) /\ WellFormed(sent[t])
    BY <2>1, FormIs DEF FormsOK
  <2>3. DOMAIN page = Tab /\ DOMAIN sent = Tab
    BY <2>1 DEF FormsOK
  <2>. QED  BY <2>2, <2>3 DEF StoryInv, TypeOK, Proper, CreatedOK, records
<1>. QED  BY <1>1, StoryInvariant, PTL

(* Saving what the editor shows, without a change, leaves every record told *)
(* or untold as it was, and every lesson with its text.                     *)
THEOREM SavingKeepsStory == Spec => []NoopSaveKeepsStory
<1>1. StoryInv => NoopSaveKeepsStory
  BY NoopSaved, FormIs DEF StoryInv, FormsOK, NoopSaveKeepsStory
<1>. QED  BY <1>1, StoryInvariant, PTL

(* The story is what the editor shows with a check mark, in its order,      *)
(* without the experiments whose decision is not told.                      *)
THEOREM EditorShowsStory == Spec => []EditorMatchesStory
<1>1. StoryInv => EditorMatchesStory
  <2> SUFFICES ASSUME StoryInv PROVE EditorMatchesStory  OBVIOUS
  <2>1. Proper(records) /\ (config = Nothing \/ Form(config))
    BY FormIs DEF StoryInv, FormsOK
  <2>2. records.experiments = experiments
    BY DEF records
  <2> HIDE DEF records
  <2>3. ASSUME NEW k \in Part
        PROVE  Cardinality(ToSet(Told(records, config, k))) = Len(Told(records, config, k))
    BY <2>1, ToldIs, MembersCount
  <2>4. ASSUME NEW k \in Part
        PROVE  LET boxes == Editor(records, config)[k]
                   checked == Only(IdsOf(boxes), {b.id : b \in {b \in ToSet(boxes) : b.on}})
                   parent(i) == IF k = "experiments" THEN experiments[i].decision ELSE Nothing
               IN Told(records, config, k) = Only(checked, {i \in ToSet(checked) :
                    parent(i) # Nothing => parent(i) \in ToSet(Told(records, config, "decisions"))})
    <3> DEFINE boxes == Editor(records, config)[k]
               checked == Only(IdsOf(boxes), {b.id : b \in {b \in ToSet(boxes) : b.on}})
               told == ToSet(Told(records, config, "decisions"))
               parent(i) == IF k = "experiments" THEN experiments[i].decision ELSE Nothing
               theirs(i) == IF k = "experiments" THEN records.experiments[i].decision ELSE Nothing
               P == {i \in ToSet(checked) : parent(i) # Nothing => parent(i) \in told}
               Q == {i \in ToSet(checked) : theirs(i) # Nothing => theirs(i) \in told}
    <3>1. Told(records, config, k) = Only(checked, Q)
      BY <2>1, EditorTells
    <3> HIDE DEF checked, told
    <3>2. P = Q
      BY <2>2
    <3> HIDE DEF P, Q
    <3>3. Told(records, config, k) = Only(checked, P)
      BY <3>1, <3>2
    <3>. QED  BY <3>3 DEF P, checked, told
  <2>. QED  BY <2>3, <2>4 DEF EditorMatchesStory
<1>. QED  BY <1>1, StoryInvariant, PTL

(* What a configuration shows is told: by the invariant's terms, before and *)
(* after a step.                                                            *)
LEMMA InvTells ==
  ASSUME StoryInv
  PROVE  /\ Proper(records) /\ (config = Nothing \/ Form(config))
         /\ \A k \in Part :
              /\ ToSet(Derived(records, k)) = There(records, k)
              /\ ToSet(Told(records, config, k)) =
                   {i \in There(records, k) : Shows(records, config, k, i)}
<1>1. Proper(records) /\ (config = Nothing \/ Form(config))
  BY FormIs DEF StoryInv, FormsOK
<1>. QED  BY <1>1, DerivedIs, ToldIs

LEMMA InvTellsNext ==
  ASSUME StoryInv'
  PROVE  \A k \in Part :
           /\ ToSet(Derived(records', k)) = There(records', k)
           /\ ToSet(Told(records', config', k)) =
                {i \in There(records', k) : Shows(records', config', k, i)}
<1>1. Proper(records')
  BY DEF StoryInv, Proper, records
<1>2. FormOK(config', created')
  BY DEF StoryInv, FormsOK, FormOK, Form, Listing, Numbered, IdsOf, IsInjective, ToSet
<1>3. config' = Nothing \/ Form(config')
  BY <1>2, FormIs
<1>. QED  BY <1>1, <1>3, DerivedIs, ToldIs

(* A step changes the project or the configuration; what the project gets   *)
(* has a new number.                                                        *)
LEMMA ConfigMoves ==
  ASSUME StoryInv, Next
  PROVE  \/ config' = config
         \/ records' = records /\ config' = Nothing
         \/ /\ records' = records
            /\ \E t \in Tab : sent[t] # Nothing /\ config' = sent[t] /\ sent'[t] = Nothing
<1>1. sent = [u \in Tab |-> sent[u]]
  BY DEF StoryInv, FormsOK
<1>2. ASSUME NEW t \in Tab, Store(t)
      PROVE  records' = records /\ sent[t] # Nothing /\ config' = sent[t] /\ sent'[t] = Nothing
  BY <1>1, <1>2 DEF Store, project, records
<1>3. ASSUME NEW t \in Tab, Reset(t) PROVE records' = records /\ config' = Nothing
  BY <1>3 DEF Reset, project, records
<1>4. ASSUME \/ CreateDecision \/ \E d : CreateExperiment(d) \/ \E x, text : Learn(x, text)
             \/ \E d : DeleteDecision(d) \/ \E x : DeleteExperiment(x)
      PROVE  config' = config
  BY <1>4 DEF CreateDecision, CreateExperiment, Learn, DeleteDecision, DeleteExperiment
<1>5. ASSUME NEW t \in Tab,
             \/ Open(t) \/ Post(t) \/ Close(t)
             \/ \E k, n : Click(t, k, n) \/ Drag(t, k, n)
             \/ \E n, text : Summarise(t, n, text)
      PROVE  config' = config
  BY <1>5 DEF Open, Click, Summarise, Drag, Post, Close
<1>. QED  BY <1>2, <1>3, <1>4, <1>5 DEF Next

LEMMA NewAreNumbered ==
  ASSUME StoryInv, Next, NEW k \in {"decisions", "experiments"},
         NEW i \in There(records', k) \ There(records, k)
  PROVE  i = created[k] + 1
<1>1. CASE CreateDecision
  BY <1>1 DEF CreateDecision, There, records
<1>2. ASSUME NEW d \in Decision \cup {Nothing}, CreateExperiment(d) PROVE i = created[k] + 1
  BY <1>2 DEF CreateExperiment, There, records
<1>3. ASSUME NEW x \in Experiment, NEW text \in Wording \cup {Nothing}, Learn(x, text) PROVE FALSE
  BY <1>3 DEF Learn, There, records
<1>4. ASSUME NEW d \in Decision, DeleteDecision(d) PROVE FALSE
  BY <1>4 DEF DeleteDecision, There, records
<1>5. ASSUME NEW x \in Experiment, DeleteExperiment(x) PROVE FALSE
  BY <1>5 DEF DeleteExperiment, There, records
<1>6. ASSUME UNCHANGED project PROVE FALSE
  BY <1>6 DEF project, There, records
<1>7. ASSUME NEW t \in Tab, Open(t) \/ Post(t) \/ Store(t) \/ Close(t) \/ Reset(t) PROVE FALSE
  BY <1>6, <1>7 DEF Open, Post, Store, Close, Reset
<1>8. ASSUME NEW t \in Tab, NEW j \in Part, NEW n, Click(t, j, n) \/ Drag(t, j, n) PROVE FALSE
  BY <1>6, <1>8 DEF Click, Drag
<1>9. ASSUME NEW t \in Tab, NEW n, NEW text, Summarise(t, n, text) PROVE FALSE
  BY <1>6, <1>9 DEF Summarise
<1>. QED  BY <1>1, <1>2, <1>3, <1>4, <1>5, <1>7, <1>8, <1>9 DEF Next

(* The box of a record in a request that is stored is the box of its page;  *)
(* a configuration has no box for a record that is still to come.           *)
LEMMA StoredUnpicked ==
  ASSUME StoryInv, NEW t \in Tab, sent[t] # Nothing, NEW k \in Part, NEW i,
         ~Picked(sent[t], k, i)
  PROVE  ~ \E b \in ItemOf(page[t][k], i) : b.on
<1>1. PICK it \in ItemOf(sent[t][k], i) : ~it.on
  BY DEF Picked, On, Saved
<1>2. PICK n \in DOMAIN sent[t][k] : it = sent[t][k][n] /\ sent[t][k][n].id = i
  BY DEF ItemOf
<1>3. sent[t][k][n].on = \E b \in ItemOf(page[t][k], sent[t][k][n].id) : b.on
  BY DEF StoryInv, FormsOK, Fits
<1>. QED  BY <1>1, <1>2, <1>3

LEMMA NewArePicked ==
  ASSUME StoryInv, NEW k \in {"decisions", "experiments"}
  PROVE  Picked(config, k, created[k] + 1)
<1>1. FormOK(config, created) /\ created[k] \in Nat /\ k \in Part
  BY Bounds DEF StoryInv, FormsOK, CreatedOK, Part
<1>2. CASE config = Nothing
  BY <1>1, <1>2, AllPicked
<1>3. CASE config # Nothing
  <2>1. Listing(config[k]) /\ Numbered(config, created)
    BY <1>1, <1>3 DEF FormOK, Form
  <2>2. created[k] + 1 \notin ToSet(IdsOf(config[k]))
    BY <1>1, <2>1 DEF Numbered
  <2>3. ItemOf(config[k], created[k] + 1) = {}
    BY <2>1, <2>2, OneItem
  <2>. QED  BY <1>3, <2>3 DEF Picked, On, Saved
<1>. QED  BY <1>2, <1>3

LEMMA VisibleStep == StoryInv /\ StoryInv' /\ Next => ChosenChange
<1> SUFFICES ASSUME StoryInv, StoryInv', Next, NEW k \in Part
             PROVE  LET before == ToSet(Derived(records, k))       after == ToSet(Derived(records', k))
                        told == ToSet(Told(records, config, k)) tells == ToSet(Told(records', config', k))
                        parent(x) == IF k = "experiments" THEN experiments[x].decision ELSE Nothing
                        parentUntold(x) ==
                          parent(x)' # Nothing /\ parent(x)' \notin ToSet(Told(records', config', "decisions"))
                        stored(t) == sent[t] # Nothing /\ config' = sent[t] /\ sent'[t] = Nothing
                        checked(t, i) == \E b \in ItemOf(page[t][k], i) : b.on
                    IN /\ \A i \in (before \cap after) \cap (told \ tells) :
                            parentUntold(i) \/ \E t \in Tab : stored(t) /\ ~checked(t, i)
                       /\ \A i \in (before \cap after) \cap (tells \ told) :
                            \/ parent(i)' # parent(i)
                            \/ config' = Nothing
                            \/ \E t \in Tab : stored(t)
                       /\ k # "lessons" => \A i \in after \ before : i \in tells \/ parentUntold(i)
  BY DEF ChosenChange
<1> DEFINE before == ToSet(Derived(records, k))       after == ToSet(Derived(records', k))
           told == ToSet(Told(records, config, k)) tells == ToSet(Told(records', config', k))
           theirs == ToSet(Told(records', config', "decisions"))
           parent(x) == IF k = "experiments" THEN experiments[x].decision ELSE Nothing
           stored(t) == sent[t] # Nothing /\ config' = sent[t] /\ sent'[t] = Nothing
           parentUntold(x) == parent(x)' # Nothing /\ parent(x)' \notin theirs
<1>1. /\ before = There(records, k) /\ told = {i \in There(records, k) : Shows(records, config, k, i)}
  BY InvTells
<1>2. /\ after = There(records', k)
      /\ tells = {i \in There(records', k) : Shows(records', config', k, i)}
      /\ theirs = {i \in There(records', "decisions") : Shows(records', config', "decisions", i)}
  BY InvTellsNext DEF Part
<1>3. \/ config' = config
      \/ records' = records /\ config' = Nothing
      \/ records' = records /\ \E t \in Tab : stored(t)
  BY ConfigMoves
<1>4. records.experiments = experiments /\ records'.experiments = experiments'
  BY DEF records
<1> HIDE DEF before, after, told, tells, theirs
<1>5. ASSUME NEW i \in after, Picked(config', k, i) PROVE i \in tells \/ parentUntold(i)
  BY <1>2, <1>4, <1>5 DEF Shows
<1>6. ASSUME NEW i \in before \cap after, i \in told, i \notin tells
      PROVE  parentUntold(i) \/ \E t \in Tab : stored(t) /\ ~ \E b \in ItemOf(page[t][k], i) : b.on
  <2>1. CASE Picked(config', k, i)
    BY <1>5, <1>6, <2>1
  <2>2. CASE ~Picked(config', k, i)
    <3>1. Picked(config, k, i)
      BY <1>1, <1>6 DEF Shows
    <3>2. config' # config /\ config' # Nothing
      BY <2>2, <3>1, AllPicked
    <3>3. PICK t \in Tab : stored(t)
      BY <1>3, <3>2
    <3>4. ~ \E b \in ItemOf(page[t][k], i) : b.on
      BY <2>2, <3>3, StoredUnpicked
    <3>. QED  BY <3>3, <3>4
  <2>. QED  BY <2>1, <2>2
<1>7. ASSUME NEW i \in before \cap after, i \in tells, i \notin told
      PROVE  parent(i)' # parent(i) \/ config' = Nothing \/ \E t \in Tab : stored(t)
  <2> SUFFICES ASSUME config' = config, parent(i)' = parent(i) PROVE FALSE
    BY <1>3
  <2>1. Shows(records', config, k, i) /\ ~Shows(records, config, k, i)
    BY <1>1, <1>2, <1>7
  <2>. QED  BY <1>4, <2>1 DEF Shows
<1>8. ASSUME k # "lessons", NEW i \in after \ before PROVE i \in tells \/ parentUntold(i)
  <2>1. config' = config
    BY <1>1, <1>2, <1>3, <1>8
  <2>2. k \in {"decisions", "experiments"}
    BY <1>8 DEF Part
  <2>3. i = created[k] + 1
    BY <1>1, <1>2, <1>8, <2>2, NewAreNumbered
  <2>. QED  BY <1>5, <1>8, <2>1, <2>2, <2>3, NewArePicked
<1>. QED  BY <1>6, <1>7, <1>8 DEF before, after, told, tells, theirs

(* A record stops being told only when a form is stored whose page has its  *)
(* box unchecked or no box for it, or when its decision is not told; it is  *)
(* told again only when a form is stored, the configuration reset or its    *)
(* decision changed; a new record is told unless its decision is not.       *)
THEOREM ChangesAreChosen == Spec => VisibilityIsChosen
<1>1. StoryInv /\ StoryInv' /\ [Next]_vars => [ChosenChange]_<<decisions, experiments, config>>
  BY VisibleStep DEF vars
<1>. QED  BY <1>1, StoryInvariant, PTL DEF Spec, VisibilityIsChosen
=============================================================================

------------------------ MODULE VaultContentsProofs ------------------------
(***************************************************************************)
(* What VaultContents promises, for any people, names, files and limits:   *)
(* the tables stay sound, an export always fits, imports destroy nothing,  *)
(* a restore brings back its file and restoring twice adds nothing, the    *)
(* rows of a CSV file do not collapse, and a backup leaves nothing out.    *)
(*                                                                         *)
(* What an import does to a file of any length is shown by induction: the  *)
(* function Progress exists, and the least row after which a claim about   *)
(* it failed would follow one after which it held.                         *)
(***************************************************************************)
EXTENDS VaultContents, FiniteSetTheorems, SequenceTheorems, WellFoundedInduction,
        TLAPS

EntryModel == [owner : Person, name : FullName, value : Content, deleted : Nat,
               folder : FolderName \union {"none"}, files : Nat,
               damaged : {"no", "document", "file"}]
Database == [entry : [Id -> EntryModel \union {NoEntry}], made : 0..MaxIds,
             clock : Nat, reach : SUBSET (Id \X Account)]

\* Two active entries do not share a name.
Distinct(d) ==
  \A e, f \in Id : (e # f /\ IsActive(d, e) /\ IsActive(d, f)) =>
                     d.entry[e].name # d.entry[f].name

\* Ids are given out in order, what is damaged is there, and so is what a grant
\* is for.
Sound(d) ==
  /\ d \in Database
  /\ \A e \in Id : Exists(d, e) =>
       /\ e <= d.made
       /\ d.entry[e].damaged = "file" => d.entry[e].files > 0
  /\ \A r \in d.reach : Exists(d, r[1])
  /\ Distinct(d)

\* Nothing was trashed later than at the last instant.
Dated(d) == \A e \in Id : Exists(d, e) => d.entry[e].deleted <= d.clock

\* The backup or import under way has what it needs.
JobFits ==
  /\ job = [kind |-> job.kind, user |-> job.user, mode |-> job.mode,
            ids |-> job.ids, rows |-> job.rows]
  /\ job.kind \in {"none", "deriving", "written", "restore", "zip", "migration"}
  /\ job.kind # "none" => job.user \in Person
  /\ job.mode \in Mode /\ job.ids \subseteq Id
  /\ job.kind \in {"written", "restore"} => job.rows \in Seq(FileRow)
  /\ job.kind = "zip" => job.rows \in Seq(FullName)
  /\ job.kind = "migration" => job.rows \in Archive

IInv ==
  /\ Sound(Db) /\ Dated(Db) /\ Frames(Db) <= MaxFrames
  /\ session \subseteq Person /\ misdirected \in BOOLEAN
  /\ file \in Seq(FileRow) /\ JobFits

-----------------------------------------------------------------------------
(***************************************************************************)
(* Induction, and the two functions that are defined by recursion.         *)
(***************************************************************************)
\* A set of numbers has a least one.
LEMMA Least ==
  ASSUME NEW S \in SUBSET Nat, S # {}
  PROVE  \E x \in S : \A y \in S : x <= y
<1> DEFINE R == OpToRel(<, Nat)
<1>1. IsWellFoundedOn(R, Nat)
  BY NatLessThanWellFounded
<1>2. \A a, b \in Nat : a < b => <<a, b>> \in R
  BY DEF OpToRel
<1> HIDE DEF R
<1>3. PICK x \in S : \A y \in S : ~(<<y, x>> \in R)
  BY <1>1, WFMin
<1>4. ASSUME NEW y \in S PROVE x <= y
  <2>1. x \in Nat /\ y \in Nat
    OBVIOUS
  <2>2. ~(y < x)
    BY <1>2, <1>3, <2>1
  <2>3. QED
    BY <2>1, <2>2
<1>5. QED
  BY <1>4

\* Induction: a set that holds 0 and, up to n, the next number of each of its
\* numbers, holds n.
LEMMA Induct ==
  ASSUME NEW n \in Nat, NEW S, 0 \in S, \A i \in 1..n : i - 1 \in S => i \in S
  PROVE  \A i \in 0..n : i \in S
<1> DEFINE Bad == {i \in 0..n : i \notin S}
<1> SUFFICES ASSUME Bad # {} PROVE FALSE
  OBVIOUS
<1>1. Bad \in SUBSET Nat
  OBVIOUS
<1>2. PICK i \in Bad : \A j \in Bad : i <= j
  BY <1>1, Least
<1>3. i \in 0..n /\ i # 0
  OBVIOUS
<1>4. i - 1 \in 0..n /\ i - 1 \notin Bad
  BY <1>2, <1>3
<1>5. i - 1 \in S /\ i \in 1..n
  BY <1>3, <1>4
<1>6. QED
  BY <1>5

\* FramesOf as a sum.
Sums(g, n, d, ids) ==
  g = [e \in 0..n |->
         IF e = 0 THEN 1
         ELSE g[e - 1] + IF e \in ids THEN 1 + d.entry[e].files ELSE 0]

LEMMA SumExists ==
  ASSUME NEW n \in Nat, NEW d, NEW ids
  PROVE  \E g : Sums(g, n, d, ids)
<1> DEFINE S == {m \in Nat : \E g : Sums(g, m, d, ids)}
<1>1. 0 \in S
  <2>1. Sums([e \in 0..0 |-> 1], 0, d, ids)
    BY DEF Sums
  <2>2. QED
    BY <2>1
<1>2. ASSUME NEW m \in 1..n, m - 1 \in S PROVE m \in S
  <2>1. PICK g : Sums(g, m - 1, d, ids)
    BY <1>2
  <2> DEFINE h == [e \in 0..m |->
                     IF e = m THEN g[m - 1] + IF m \in ids THEN 1 + d.entry[m].files ELSE 0
                     ELSE g[e]]
  <2>2. Sums(h, m, d, ids)
    BY <2>1 DEF Sums
  <2>3. QED
    BY <2>2
<1> HIDE DEF S
<1>3. \A i \in 0..n : i \in S
  BY <1>1, <1>2, Induct
<1>4. QED
  BY <1>3 DEF S

\* What FramesOf adds up.
LEMMA FramesSum ==
  ASSUME NEW d, NEW ids
  PROVE  \E g : /\ Sums(g, MaxIds, d, ids)
                /\ FramesOf(d, ids) = g[MaxIds]
<1> DEFINE g == CHOOSE h : Sums(h, MaxIds, d, ids)
<1>1. Sums(g, MaxIds, d, ids)
  BY SumExists, VaultContentsAssumption
<1>2. FramesOf(d, ids) = g[MaxIds]
  BY DEF FramesOf, Sums
<1>3. QED
  BY <1>1, <1>2

\* Fewer entries with fewer attachments have fewer frames.
LEMMA FramesMonotone ==
  ASSUME NEW d, NEW e, NEW S, NEW T,
         \A i \in S : i \in T /\ d.entry[i].files <= e.entry[i].files,
         \A i \in S : d.entry[i].files \in Nat,
         \A i \in T : e.entry[i].files \in Nat
  PROVE  /\ FramesOf(d, S) <= FramesOf(e, T)
         /\ FramesOf(d, S) \in Nat /\ FramesOf(e, T) \in Nat
<1>1. PICK g : Sums(g, MaxIds, d, S) /\ FramesOf(d, S) = g[MaxIds]
  BY FramesSum
<1>2. PICK h : Sums(h, MaxIds, e, T) /\ FramesOf(e, T) = h[MaxIds]
  BY FramesSum
<1> DEFINE U == {i \in Nat : g[i] \in Nat /\ h[i] \in Nat /\ g[i] <= h[i]}
<1>3. MaxIds \in Nat
  BY VaultContentsAssumption
<1>4. 0 \in U
  BY <1>1, <1>2, <1>3 DEF Sums
<1>5. ASSUME NEW i \in 1..MaxIds, i - 1 \in U PROVE i \in U
  <2>1. /\ g[i] = g[i - 1] + IF i \in S THEN 1 + d.entry[i].files ELSE 0
        /\ h[i] = h[i - 1] + IF i \in T THEN 1 + e.entry[i].files ELSE 0
    BY <1>1, <1>2, <1>3 DEF Sums
  <2>2. QED
    BY <1>5, <2>1
<1> HIDE DEF U
<1>6. \A i \in 0..MaxIds : i \in U
  BY <1>3, <1>4, <1>5, Induct
<1>7. QED
  BY <1>1, <1>2, <1>3, <1>6 DEF U

\* Progress as it is computed.
Computes(g, n, kind, d, u, mode, rows) ==
  g = [i \in 0..n |-> IF i = 0 THEN Begin(d)
                      ELSE ImportRow(kind, u, mode, g[i - 1], rows[i])]

LEMMA ProgressExists ==
  ASSUME NEW n \in Nat, NEW kind, NEW d, NEW u, NEW mode, NEW rows
  PROVE  \E g : Computes(g, n, kind, d, u, mode, rows)
<1> DEFINE S == {m \in Nat : \E g : Computes(g, m, kind, d, u, mode, rows)}
<1>1. 0 \in S
  <2>1. Computes([i \in 0..0 |-> Begin(d)], 0, kind, d, u, mode, rows)
    BY DEF Computes
  <2>2. QED
    BY <2>1
<1>2. ASSUME NEW m \in 1..n, m - 1 \in S PROVE m \in S
  <2>1. PICK g : Computes(g, m - 1, kind, d, u, mode, rows)
    BY <1>2
  <2> DEFINE h == [i \in 0..m |->
                     IF i = m THEN ImportRow(kind, u, mode, g[m - 1], rows[m]) ELSE g[i]]
  <2>2. Computes(h, m, kind, d, u, mode, rows)
    BY <2>1 DEF Computes
  <2>3. QED
    BY <2>2
<1> HIDE DEF S
<1>3. \A i \in 0..n : i \in S
  BY <1>1, <1>2, Induct
<1>4. QED
  BY <1>3 DEF S

\* Progress starts with what is there and goes on row by row.
LEMMA ProgressIs ==
  ASSUME NEW kind, NEW d, NEW u, NEW mode, NEW rows, Len(rows) \in Nat
  PROVE  LET after == Progress(kind, d, u, mode, rows)
         IN  /\ after[0] = Begin(d)
             /\ \A i \in 1..Len(rows) :
                  after[i] = ImportRow(kind, u, mode, after[i - 1], rows[i])
<1> DEFINE g == CHOOSE h : Computes(h, Len(rows), kind, d, u, mode, rows)
<1>1. Computes(g, Len(rows), kind, d, u, mode, rows)
  BY ProgressExists
<1>2. Progress(kind, d, u, mode, rows) = g
  BY DEF Progress, Computes
<1> HIDE DEF g
<1>3. QED
  BY <1>1, <1>2 DEF Computes

-----------------------------------------------------------------------------
(***************************************************************************)
(* Rows and databases.                                                     *)
(***************************************************************************)
\* A row that is not there is none of the rows that can be.
LEMMA NoRow ==
  /\ NoEntry \notin EntryModel
  /\ NoEntry.owner = "none" /\ NoEntry.files = 0 /\ NoEntry.deleted = 0
<1>1. NoEntry.owner = "none" /\ NoEntry.files = 0 /\ NoEntry.deleted = 0
  BY DEF NoEntry, Active
<1>2. "none" \notin Person
  BY VaultContentsAssumption DEF Account
<1>3. QED
  BY <1>1, <1>2 DEF EntryModel

\* The fields of a row.
LEMMA RowFields ==
  ASSUME NEW d \in Database, NEW e \in Id
  PROVE  /\ Exists(d, e) <=> d.entry[e] \in EntryModel
         /\ d.entry[e] \in EntryModel \union {NoEntry}
         /\ d.entry[e].files \in Nat /\ d.entry[e].deleted \in Nat
         /\ Exists(d, e) => /\ d.entry[e].owner \in Person
                            /\ d.entry[e].name \in FullName
<1>1. d.entry[e] \in EntryModel \union {NoEntry}
  BY DEF Database
<1>2. QED
  BY <1>1, NoRow DEF Exists, EntryModel

\* Adding a row.
LEMMA AddedIs ==
  ASSUME NEW d \in Database, NEW row \in EntryModel, d.made < MaxIds
  PROVE  /\ Added(d, row) \in Database
         /\ d.made + 1 \in Id
         /\ Added(d, row).entry = [d.entry EXCEPT ![d.made + 1] = row]
         /\ Added(d, row).made = d.made + 1
         /\ Added(d, row).clock = d.clock
         /\ Added(d, row).reach = d.reach
<1>1. d.made + 1 \in Id /\ d.made + 1 \in 0..MaxIds
  BY VaultContentsAssumption DEF Database, Id
<1>2. QED
  BY <1>1 DEF Added, Database

\* Moving a row to the trash.
LEMMA TrashedIs ==
  ASSUME NEW d \in Database, NEW e \in Id, Exists(d, e)
  PROVE  /\ Trashed(d, e) \in Database
         /\ Trashed(d, e).entry =
              [d.entry EXCEPT ![e] = [d.entry[e] EXCEPT !.deleted = d.clock + 1]]
         /\ Trashed(d, e).made = d.made
         /\ Trashed(d, e).clock = d.clock
         /\ Trashed(d, e).reach = d.reach
         /\ [d.entry[e] EXCEPT !.deleted = d.clock + 1] \in EntryModel
<1>1. d.entry[e] \in EntryModel /\ d.clock \in Nat
  BY RowFields DEF Database
<1>2. [d.entry[e] EXCEPT !.deleted = d.clock + 1] \in EntryModel
  BY <1>1 DEF EntryModel
<1>3. QED
  BY <1>2 DEF Trashed, Database

\* A row that is restored is a row.
LEMMA RestoredIs ==
  ASSUME NEW u \in Person, NEW row \in FileRow
  PROVE  /\ Restored(u, row) \in EntryModel
         /\ Restored(u, row).owner = u
         /\ Restored(u, row).name = row.name
         /\ Restored(u, row).deleted = row.deleted
         /\ Restored(u, row).damaged = "no"
BY DEF Restored, EntryModel, FileRow

\* So is one that is made.
LEMMA NewRowIs ==
  ASSUME NEW u \in Person, NEW n \in FullName, NEW v \in Content,
         NEW fo \in FolderName \union {"none"}
  PROVE  /\ NewRow(u, n, v, fo) \in EntryModel
         /\ NewRow(u, n, v, fo).owner = u
         /\ NewRow(u, n, v, fo).name = n
         /\ NewRow(u, n, v, fo).deleted = Active
         /\ NewRow(u, n, v, fo).damaged = "no"
         /\ NewRow(u, n, v, fo).files = 0
BY DEF NewRow, EntryModel, Active

\* A sound database stays sound when an entry goes to the trash.
LEMMA TrashedSound ==
  ASSUME NEW d, Sound(d), NEW e \in Id, Exists(d, e)
  PROVE  /\ Sound(Trashed(d, e))
         /\ \A f \in Id : Exists(Trashed(d, e), f) <=> Exists(d, f)
         /\ \A f \in Id : IsActive(Trashed(d, e), f) <=> IsActive(d, f) /\ f # e
         /\ \A f \in Id : Trashed(d, e).entry[f].name = d.entry[f].name
<1> DEFINE t == Trashed(d, e)
           row == [d.entry[e] EXCEPT !.deleted = d.clock + 1]
<1>1. /\ d \in Database /\ t \in Database
      /\ t.entry = [d.entry EXCEPT ![e] = row]
      /\ t.made = d.made /\ t.reach = d.reach
      /\ row \in EntryModel
      /\ d.entry[e] \in EntryModel /\ d.entry \in [Id -> EntryModel \union {NoEntry}]
      /\ d.clock \in Nat /\ d.reach \subseteq Id \X Account
  BY TrashedIs, RowFields DEF Sound, Database
<1>2. /\ row.name = d.entry[e].name /\ row.damaged = d.entry[e].damaged
      /\ row.files = d.entry[e].files /\ row.deleted = d.clock + 1
      /\ row.deleted # 0 /\ row # NoEntry
  BY <1>1, NoRow DEF EntryModel
<1> HIDE DEF row, t
<1>3. \A f \in Id : t.entry[f] = IF f = e THEN row ELSE d.entry[f]
  BY <1>1
<1>4. \A f \in Id : Exists(t, f) <=> Exists(d, f)
  BY <1>2, <1>3 DEF Exists
<1>5. \A f \in Id : IsActive(t, f) <=> IsActive(d, f) /\ f # e
  BY <1>2, <1>3, <1>4 DEF IsActive, Active
<1>6. \A f \in Id : /\ t.entry[f].name = d.entry[f].name
                    /\ t.entry[f].damaged = d.entry[f].damaged
                    /\ t.entry[f].files = d.entry[f].files
  BY <1>2, <1>3
<1>7. Distinct(t)
  BY <1>5, <1>6 DEF Sound, Distinct
<1>8. \A r \in t.reach : Exists(t, r[1])
  BY <1>1, <1>4 DEF Sound
<1>9. Sound(t)
  BY <1>1, <1>4, <1>6, <1>7, <1>8 DEF Sound
<1>10. QED
  BY <1>4, <1>5, <1>6, <1>9 DEF t

\* It stays sound when an entry is added whose name is free, or to the trash.
LEMMA AddedSound ==
  ASSUME NEW d, Sound(d), d.made < MaxIds, NEW row \in EntryModel,
         row.damaged = "no", row.deleted = Active => Named(d, row.name) = {}
  PROVE  /\ Sound(Added(d, row))
         /\ d.made + 1 \in Id /\ ~Exists(d, d.made + 1)
         /\ \A f \in Id : Exists(Added(d, row), f) <=> Exists(d, f) \/ f = d.made + 1
         /\ \A f \in Id : Added(d, row).entry[f] =
                            IF f = d.made + 1 THEN row ELSE d.entry[f]
<1> DEFINE t == Added(d, row)
           new == d.made + 1
<1>1. /\ d \in Database /\ t \in Database /\ new \in Id
      /\ t.entry = [d.entry EXCEPT ![new] = row]
      /\ t.made = new /\ t.reach = d.reach
      /\ d.entry \in [Id -> EntryModel \union {NoEntry}]
      /\ d.made \in Nat /\ d.reach \subseteq Id \X Account
  BY AddedIs, VaultContentsAssumption DEF Sound, Database
<1>2. ~Exists(d, new)
  BY <1>1 DEF Sound
<1> HIDE DEF t
<1>3. \A f \in Id : t.entry[f] = IF f = new THEN row ELSE d.entry[f]
  BY <1>1
<1>4. row # NoEntry
  BY NoRow
<1>5. \A f \in Id : Exists(t, f) <=> Exists(d, f) \/ f = new
  BY <1>3, <1>4 DEF Exists
<1>6. \A f \in Id : IsActive(t, f) <=>
                      IF f = new THEN row.deleted = Active ELSE IsActive(d, f)
  BY <1>2, <1>3, <1>5 DEF IsActive
<1>7. \A f \in Id : IsActive(d, f) /\ row.deleted = Active =>
                      f # new /\ d.entry[f].name # row.name
  BY <1>2 DEF Named, IsActive
<1> HIDE DEF new
<1>8. Distinct(t)
  <2> SUFFICES ASSUME NEW e \in Id, NEW f \in Id, e # f, IsActive(t, e), IsActive(t, f)
               PROVE  t.entry[e].name # t.entry[f].name
    BY DEF Distinct
  <2>1. CASE e # new /\ f # new
    <3>1. IsActive(d, e) /\ IsActive(d, f)
      BY <1>6, <2>1
    <3>2. t.entry[e] = d.entry[e] /\ t.entry[f] = d.entry[f]
      BY <1>3, <2>1
    <3>3. QED
      BY <3>1, <3>2 DEF Sound, Distinct
  <2>2. CASE e = new
    BY <1>3, <1>6, <1>7, <2>2
  <2>3. CASE f = new
    BY <1>3, <1>6, <1>7, <2>3
  <2>4. QED
    BY <2>1, <2>2, <2>3
<1>9. ASSUME NEW f \in Id, Exists(t, f)
      PROVE  f <= t.made /\ (t.entry[f].damaged = "file" => t.entry[f].files > 0)
  <2> USE DEF new
  <2>1. CASE f = new
    BY <1>1, <1>3, <2>1 DEF Id
  <2>2. CASE f # new
    <3>1. Exists(d, f) /\ f <= d.made /\ f \in Nat
      BY <1>5, <1>9, <2>2 DEF Sound, Id
    <3>2. QED
      BY <1>1, <1>3, <2>2, <3>1 DEF Sound
  <2>3. QED
    BY <2>1, <2>2
<1>10. \A r \in t.reach : Exists(t, r[1])
  BY <1>1, <1>5 DEF Sound
<1>11. Sound(t)
  BY <1>1, <1>8, <1>9, <1>10 DEF Sound
<1>12. QED
  BY <1>1, <1>2, <1>3, <1>5, <1>11 DEF t, new

-----------------------------------------------------------------------------
(***************************************************************************)
(* Greatest elements, and names that are free.                             *)
(***************************************************************************)
\* A bounded set of numbers has a greatest one.
LEMMA MaxIs ==
  ASSUME NEW S \in SUBSET Nat, S # {}, NEW n \in Nat, \A x \in S : x <= n
  PROVE  Max(S) \in S /\ \A x \in S : x <= Max(S)
<1> DEFINE Bounds == {b \in Nat : \A x \in S : x <= b}
<1>1. Bounds \in SUBSET Nat /\ Bounds # {}
  OBVIOUS
<1>2. PICK b \in Bounds : \A c \in Bounds : b <= c
  BY <1>1, Least
<1>3. b \in S
  <2> SUFFICES ASSUME b \notin S PROVE FALSE
    OBVIOUS
  <2>1. b \in Nat /\ \A x \in S : x \in Nat /\ x < b
    OBVIOUS
  <2>2. PICK x : x \in S
    OBVIOUS
  <2>3. b # 0
    BY <2>1, <2>2
  <2>4. b - 1 \in Bounds
    BY <2>1, <2>3
  <2>5. QED
    BY <1>2, <2>1, <2>4
<1>4. \A x \in S : b >= x
  OBVIOUS
<1>5. \E x \in S : \A y \in S : x >= y
  BY <1>3, <1>4
<1>6. Max(S) \in S /\ \A y \in S : Max(S) >= y
  BY <1>5 DEF Max
<1>7. QED
  BY <1>6

\* The instants of the trash are bounded, and Ticked finds the last one.
LEMMA TickedIs ==
  ASSUME NEW d, Sound(d)
  PROVE  /\ Sound(Ticked(d)) /\ Dated(Ticked(d))
         /\ Ticked(d).entry = d.entry /\ Ticked(d).made = d.made
         /\ Ticked(d).reach = d.reach
         /\ Ticked(d).clock \in Nat /\ d.clock <= Ticked(d).clock
<1> DEFINE At(e) == d.entry[e].deleted
           S == {m \in Nat : \E b \in Nat : \A e \in Id : e <= m => At(e) <= b}
           T == {At(e) : e \in Id} \union {d.clock}
<1>1. d \in Database /\ d.clock \in Nat /\ MaxIds \in Nat /\ Id \subseteq Nat
  BY VaultContentsAssumption DEF Sound, Database, Id
<1>2. \A e \in Id : At(e) \in Nat
  BY <1>1, RowFields
<1>3. 0 \in S
  BY <1>1 DEF Id
<1>4. ASSUME NEW m \in 1..MaxIds, m - 1 \in S PROVE m \in S
  <2>1. PICK b \in Nat : \A e \in Id : e <= m - 1 => At(e) <= b
    BY <1>4
  <2>2. m \in Id /\ At(m) \in Nat
    BY <1>2 DEF Id
  <2> DEFINE c == IF At(m) <= b THEN b ELSE At(m)
  <2>3. c \in Nat
    BY <2>2
  <2>4. ASSUME NEW e \in Id, e <= m PROVE At(e) <= c
    <3>1. CASE e = m
      BY <2>2, <3>1
    <3>2. CASE e # m
      BY <1>1, <1>2, <2>1, <2>2, <2>4, <3>2
    <3>3. QED
      BY <3>1, <3>2
  <2> HIDE DEF c
  <2>5. QED
    BY <2>3, <2>4
<1> HIDE DEF S
<1>5. MaxIds \in S
  BY <1>1, <1>3, <1>4, Induct
<1>6. PICK b \in Nat : \A e \in Id : e <= MaxIds => At(e) <= b
  BY <1>5 DEF S
<1> DEFINE c == IF d.clock <= b THEN b ELSE d.clock
<1>7. c \in Nat /\ T \in SUBSET Nat /\ d.clock \in T
  BY <1>1, <1>2
<1>8. \A x \in T : x <= c
  BY <1>1, <1>2, <1>6 DEF Id
<1> HIDE DEF T, c
<1>9. Max(T) \in T /\ \A x \in T : x <= Max(T)
  BY <1>7, <1>8, MaxIs
<1>10. Max(T) \in Nat /\ d.clock <= Max(T) /\ \A e \in Id : At(e) <= Max(T)
  BY <1>7, <1>9 DEF T
<1> DEFINE t == Ticked(d)
<1>11. t = [d EXCEPT !.clock = Max(T)]
  BY DEF Ticked, T
<1>12. /\ t \in Database /\ t.entry = d.entry /\ t.made = d.made
       /\ t.reach = d.reach /\ t.clock = Max(T)
  BY <1>1, <1>10, <1>11 DEF Database
<1> HIDE DEF t
<1>13. Sound(t)
  BY <1>12 DEF Sound, Distinct, IsActive, Exists
<1>14. Dated(t)
  BY <1>10, <1>12 DEF Dated
<1>15. QED
  BY <1>10, <1>12, <1>13, <1>14 DEF t

\* Numbers make different names of one.
LEMMA NumberedIs ==
  ASSUME NEW n \in FullName, NEW k \in Nat
  PROVE  /\ Numbered(n, k) \in FullName
         /\ \A j \in Nat : Numbered(n, j) = Numbered(n, k) => j = k
<1>1. n[1] \in Name /\ n[2] \in Seq(Nat)
  BY DEF FullName
<1>2. Append(n[2], k) \in Seq(Nat)
  BY <1>1
<1>3. ASSUME NEW j \in Nat, Numbered(n, j) = Numbered(n, k) PROVE j = k
  <2>1. Append(n[2], j) = Append(n[2], k)
    BY <1>3 DEF Numbered
  <2>2. /\ Append(n[2], j)[Len(n[2]) + 1] = j
        /\ Append(n[2], k)[Len(n[2]) + 1] = k
    BY <1>1
  <2>3. QED
    BY <2>1, <2>2
<1>4. QED
  BY <1>1, <1>2, <1>3 DEF FullName, Numbered

\* There is always a number that is free, and _unique_name() finds one.
LEMMA UniqueIsFree ==
  ASSUME NEW n \in FullName, NEW taken, IsFiniteSet(taken)
  PROVE  _unique_name(n, taken) \in FullName /\ _unique_name(n, taken) \notin taken
<1> DEFINE c == Cardinality(taken)
           K == {k \in 2..(c + 2) : Numbered(n, k) \notin taken}
<1>1. c \in Nat
  BY FS_CardinalityType
<1> HIDE DEF c
<1>2. K # {}
  <2> SUFFICES ASSUME K = {} PROVE FALSE
    OBVIOUS
  <2> DEFINE I == 2..(c + 2)
             f == [k \in I |-> Numbered(n, k)]
  <2>1. IsFiniteSet(I) /\ Cardinality(I) = c + 1
    BY <1>1, FS_Interval
  <2>2. f \in [I -> taken]
    OBVIOUS
  <2>3. \A j, k \in I : f[j] = f[k] => j = k
    BY <1>1, NumberedIs
  <2>4. Cardinality(taken) < Cardinality(I)
    BY <1>1, <2>1 DEF c
  <2> HIDE DEF I, f
  <2>5. QED
    BY <2>1, <2>2, <2>3, <2>4, FS_PigeonHole
<1>3. K \in SUBSET Nat
  BY <1>1
<1>4. PICK k \in K : \A j \in K : k <= j
  BY <1>2, <1>3, Least
<1>5. /\ k \in 2..(c + 2) /\ Numbered(n, k) \notin taken
      /\ \A j \in 2..(k - 1) : Numbered(n, j) \in taken
  BY <1>1, <1>3, <1>4
<1> DEFINE m == CHOOSE i \in 2..(c + 2) :
                  /\ Numbered(n, i) \notin taken
                  /\ \A j \in 2..(i - 1) : Numbered(n, j) \in taken
<1>6. m \in 2..(c + 2) /\ Numbered(n, m) \notin taken
  BY <1>5
<1>7. _unique_name(n, taken) = Numbered(n, m)
  BY DEF _unique_name, c
<1> HIDE DEF m
<1>8. QED
  BY <1>1, <1>6, <1>7, NumberedIs

-----------------------------------------------------------------------------
(***************************************************************************)
(* What a row of a file can do: nothing, be refused, be added, or be added *)
(* in place of an entry that goes to the trash.                            *)
(***************************************************************************)
Carried == [db : Database, seen : SUBSET FullName, ok : BOOLEAN,
            taken : SUBSET FullName]
Adds(acc, row) == [acc EXCEPT !.db = Added(acc.db, row)]
Replaces(acc, old, row) == [acc EXCEPT !.db = Added(Trashed(acc.db, old), row)]
Twins(d, row) == {e \in Id : /\ Exists(d, e) /\ d.entry[e].name = row.name
                             /\ d.entry[e].deleted = row.deleted}
Gone(d, e) == [d.entry[e] EXCEPT !.deleted = d.clock + 1]
Mine(d, u, n) == load_active(d, u) \intersect Named(d, n)

\* What is carried along stays right: the database is sound, and every name in
\* use is known to be taken.
Right(acc) ==
  /\ acc \in Carried /\ Sound(acc.db)
  /\ IsFiniteSet(acc.taken) /\ acc.seen \subseteq acc.taken
  /\ \A e \in Id : IsActive(acc.db, e) => acc.db.entry[e].name \in acc.taken

\* An import by u destroys nothing on the way from d to t.
Keeps(d, t, u) ==
  /\ t.clock = d.clock /\ d.made <= t.made
  /\ \A e \in Id : Exists(d, e) =>
       \/ t.entry[e] = d.entry[e]
       \/ /\ d.entry[e].deleted = Active /\ d.entry[e].owner = u
          /\ t.entry[e] = [d.entry[e] EXCEPT !.deleted = d.clock + 1]

\* The fields of what is carried along.
LEMMA CarriedFields ==
  ASSUME NEW acc \in Carried
  PROVE  /\ acc.db \in Database /\ acc.seen \in SUBSET FullName
         /\ acc.taken \in SUBSET FullName /\ acc.ok \in BOOLEAN
         /\ Refused(acc) \in Carried /\ Refused(acc).db = acc.db
         /\ Refused(acc).seen = acc.seen /\ Refused(acc).taken = acc.taken
         /\ ~Refused(acc).ok
         /\ \A d \in Database :
              LET t == [acc EXCEPT !.db = d]
              IN  /\ t \in Carried /\ t.db = d /\ t.seen = acc.seen
                  /\ t.taken = acc.taken /\ t.ok = acc.ok
         /\ \A n \in FullName :
              /\ Uses(acc, n) \in Carried /\ Uses(acc, n).db = acc.db
              /\ Uses(acc, n).ok = acc.ok
              /\ Uses(acc, n).seen = acc.seen \union {n}
              /\ Uses(acc, n).taken = acc.taken \union {n}
BY DEF Carried, Refused, Uses

\* BackupCRUD._restore_target(), case by case.
LEMMA TargetCases ==
  ASSUME NEW acc \in Carried, NEW u \in Person, NEW mode \in Mode, NEW row \in FileRow
  PROVE  LET next == _restore_target(acc, u, mode, row)
             T == Twins(acc.db, row)
             old == Max(T)
             new == Restored(u, row)
         IN  \/ next = Refused(acc)
             \/ /\ next = acc /\ T # {} /\ open_entry(acc.db, old)
                /\ IF row.deleted = Active THEN mode = "skip"
                   ELSE acc.db.entry[old].owner = u
             \/ /\ next = Adds(acc, new) /\ acc.db.made < MaxIds
                /\ T = {} \/ row.deleted # Active
             \/ /\ next = Replaces(acc, old, new) /\ acc.db.made < MaxIds
                /\ T # {} /\ row.deleted = Active /\ mode = "overwrite"
                /\ acc.db.entry[old].owner = u
<1> DEFINE d == acc.db
           T == Twins(d, row)
           old == Max(T)
           new == Restored(u, row)
           next == _restore_target(acc, u, mode, row)
<1>1. d \in Database
  BY CarriedFields
<1>2. T # {} => old \in Id /\ Exists(d, old)
  <2> SUFFICES ASSUME T # {} PROVE old \in Id /\ Exists(d, old)
    OBVIOUS
  <2>1. T \in SUBSET Nat /\ MaxIds \in Nat /\ \A x \in T : x <= MaxIds
    BY VaultContentsAssumption DEF Twins, Id
  <2>2. Max(T) \in T
    BY <2>1, MaxIs
  <2>3. QED
    BY <2>2 DEF Twins
<1>3. T # {} => Trashed(d, old).made = d.made
  BY <1>1, <1>2, TrashedIs
<1>4. /\ T = {} => next = Stored(acc, d, new)
      /\ T # {} /\ ~open_entry(d, old) => next = Refused(acc)
      /\ T # {} /\ open_entry(d, old) /\ row.deleted # Active =>
           next = IF d.entry[old].owner = u THEN acc ELSE Stored(acc, d, new)
      /\ T # {} /\ open_entry(d, old) /\ row.deleted = Active =>
           next = IF mode = "skip" THEN acc
                  ELSE IF d.entry[old].owner = u THEN Stored(acc, Trashed(d, old), new)
                  ELSE Refused(acc)
  BY DEF _restore_target, Twins
<1>5. mode # "skip" => mode = "overwrite"
  BY DEF Mode
<1> HIDE DEF d, T, old, new, next
<1>6. \/ Stored(acc, d, new) = Adds(acc, new) /\ d.made < MaxIds
      \/ Stored(acc, d, new) = Refused(acc)
  BY DEF Stored, Adds, d
<1>7. T # {} =>
        \/ Stored(acc, Trashed(d, old), new) = Refused(acc)
        \/ /\ Stored(acc, Trashed(d, old), new) = Replaces(acc, old, new)
           /\ d.made < MaxIds
  BY <1>3 DEF Stored, Replaces, d
<1>8. QED
  BY <1>4, <1>5, <1>6, <1>7 DEF d, T, old, new, next

\* PasswordCRUD._upsert_entry(), case by case.
LEMMA UpsertCases ==
  ASSUME NEW acc \in Carried, NEW u \in Person, NEW mode \in Mode,
         NEW row \in EntryModel
  PROVE  LET next == _upsert_entry(acc, u, mode, row)
             mine == Mine(acc.db, u, row.name)
         IN  \/ next = Refused(acc)
             \/ next = acc /\ mine # {} /\ mode = "skip"
             \/ next = Adds(acc, row) /\ acc.db.made < MaxIds /\ mine = {}
             \/ /\ mode = "overwrite" /\ acc.db.made < MaxIds
                /\ \E old \in mine : next = Replaces(acc, old, row)
<1> DEFINE d == acc.db
           mine == Mine(d, u, row.name)
           old == CHOOSE e \in mine : TRUE
           next == _upsert_entry(acc, u, mode, row)
<1>1. d \in Database
  BY CarriedFields
<1>2. mine # {} => old \in mine /\ old \in Id /\ Exists(d, old)
  BY DEF Mine, load_active, IsActive
<1>3. mine # {} => Trashed(d, old).made = d.made
  BY <1>1, <1>2, TrashedIs
<1>4. /\ mine = {} => next = Stored(acc, d, row)
      /\ mine # {} /\ ~open_entry(d, old) => next = Refused(acc)
      /\ mine # {} /\ open_entry(d, old) =>
           next = IF mode = "skip" THEN acc ELSE Stored(acc, Trashed(d, old), row)
  BY DEF _upsert_entry, Mine
<1>5. mode # "skip" => mode = "overwrite"
  BY DEF Mode
<1> HIDE DEF d, mine, old, next
<1>6. \/ Stored(acc, d, row) = Adds(acc, row) /\ d.made < MaxIds
      \/ Stored(acc, d, row) = Refused(acc)
  BY DEF Stored, Adds, d
<1>7. mine # {} =>
        \/ Stored(acc, Trashed(d, old), row) = Refused(acc)
        \/ /\ Stored(acc, Trashed(d, old), row) = Replaces(acc, old, row)
           /\ d.made < MaxIds
  BY <1>3 DEF Stored, Replaces, d
<1>8. QED
  BY <1>2, <1>4, <1>5, <1>6, <1>7 DEF d, mine, next

\* Nothing is destroyed by doing nothing, nor by one row after another.
LEMMA KeepsItself ==
  ASSUME NEW d, Sound(d), NEW u PROVE Keeps(d, d, u)
<1>1. d.made \in Nat
  BY VaultContentsAssumption DEF Sound, Database
<1>2. QED
  BY <1>1 DEF Keeps

LEMMA KeepsOn ==
  ASSUME NEW d, Sound(d), NEW s, Sound(s), NEW t, Sound(t), NEW u,
         Keeps(d, s, u), Keeps(s, t, u)
  PROVE  Keeps(d, t, u)
<1>1. d.made \in Nat /\ s.made \in Nat /\ t.made \in Nat /\ d.clock \in Nat
  BY VaultContentsAssumption DEF Sound, Database
<1>2. t.clock = d.clock /\ d.made <= t.made
  BY <1>1 DEF Keeps
<1>3. ASSUME NEW e \in Id, Exists(d, e)
      PROVE  \/ t.entry[e] = d.entry[e]
             \/ /\ d.entry[e].deleted = Active /\ d.entry[e].owner = u
                /\ t.entry[e] = [d.entry[e] EXCEPT !.deleted = d.clock + 1]
  <2> DEFINE row == [d.entry[e] EXCEPT !.deleted = d.clock + 1]
  <2>1. d.entry[e] \in EntryModel
    BY <1>3, RowFields DEF Sound
  <2>2. row \in EntryModel /\ row.deleted # Active /\ row # NoEntry
    BY <1>1, <2>1, NoRow DEF EntryModel, Active
  <2>3. s.clock = d.clock
    BY DEF Keeps
  <2>4. \/ s.entry[e] = d.entry[e]
        \/ /\ d.entry[e].deleted = Active /\ d.entry[e].owner = u
           /\ s.entry[e] = row
    BY <1>3 DEF Keeps
  <2>5. Exists(s, e)
    BY <2>1, <2>2, <2>4, NoRow DEF Exists
  <2>6. \/ t.entry[e] = s.entry[e]
        \/ /\ s.entry[e].deleted = Active /\ s.entry[e].owner = u
           /\ t.entry[e] = [s.entry[e] EXCEPT !.deleted = s.clock + 1]
    BY <2>5 DEF Keeps
  <2>7. QED
    BY <2>2, <2>3, <2>4, <2>6
<1>4. QED
  BY <1>2, <1>3 DEF Keeps

\* An added row is the only new one.
LEMMA AddsIsRight ==
  ASSUME NEW acc, Right(acc), acc.db.made < MaxIds,
         NEW row \in EntryModel, row.damaged = "no",
         row.deleted = Active => row.name \in acc.taken /\ Named(acc.db, row.name) = {}
  PROVE  LET next == Adds(acc, row)
         IN  /\ Right(next) /\ \A u : Keeps(acc.db, next.db, u)
             /\ next.db = Added(acc.db, row) /\ next.ok = acc.ok
             /\ next.seen = acc.seen /\ next.taken = acc.taken
             /\ next.db.made = acc.db.made + 1 /\ next.db.reach = acc.db.reach
             /\ acc.db.made + 1 \in Id /\ ~Exists(acc.db, acc.db.made + 1)
             /\ \A e \in Id : next.db.entry[e] = IF e = acc.db.made + 1 THEN row
                                                 ELSE acc.db.entry[e]
<1> DEFINE d == acc.db
           t == Added(d, row)
           next == Adds(acc, row)
<1>1. acc \in Carried /\ Sound(d) /\ d \in Database /\ d.made \in Nat
  BY VaultContentsAssumption, CarriedFields DEF Right, Sound, Database
<1>2. /\ t \in Database /\ t.made = d.made + 1 /\ t.clock = d.clock
      /\ t.reach = d.reach
  BY <1>1, AddedIs
<1>3. /\ Sound(t) /\ d.made + 1 \in Id /\ ~Exists(d, d.made + 1)
      /\ \A f \in Id : Exists(t, f) <=> Exists(d, f) \/ f = d.made + 1
      /\ \A f \in Id : t.entry[f] = IF f = d.made + 1 THEN row ELSE d.entry[f]
  BY <1>1, AddedSound
<1>4. /\ next \in Carried /\ next.db = t /\ next.seen = acc.seen
      /\ next.taken = acc.taken /\ next.ok = acc.ok
  BY <1>1, <1>2, CarriedFields DEF Adds
<1> HIDE DEF t, next
<1>5. ASSUME NEW e \in Id, IsActive(t, e) PROVE t.entry[e].name \in acc.taken
  <2>1. CASE e = d.made + 1
    BY <1>3, <1>5, <2>1 DEF IsActive
  <2>2. CASE e # d.made + 1
    BY <1>3, <1>5, <2>2 DEF IsActive, Right
  <2>3. QED
    BY <2>1, <2>2
<1>6. Right(next)
  BY <1>3, <1>4, <1>5 DEF Right
<1>7. \A u : Keeps(d, t, u)
  BY <1>1, <1>2, <1>3 DEF Keeps
<1>8. QED
  BY <1>2, <1>3, <1>4, <1>6, <1>7 DEF t, next

\* A row takes the name of an entry that goes to the trash.
LEMMA ReplacesIsRight ==
  ASSUME NEW acc, Right(acc), acc.db.made < MaxIds,
         NEW row \in EntryModel, row.damaged = "no", row.deleted = Active,
         NEW old \in Named(acc.db, row.name)
  PROVE  LET next == Replaces(acc, old, row)
         IN  /\ Right(next) /\ Keeps(acc.db, next.db, acc.db.entry[old].owner)
             /\ next.ok = acc.ok /\ next.seen = acc.seen /\ next.taken = acc.taken
             /\ next.db.made = acc.db.made + 1 /\ next.db.reach = acc.db.reach
             /\ acc.db.made + 1 \in Id /\ ~Exists(acc.db, acc.db.made + 1)
             /\ \A e \in Id : next.db.entry[e] =
                  IF e = acc.db.made + 1 THEN row
                  ELSE IF e = old
                  THEN Gone(acc.db, old) ELSE acc.db.entry[e]
<1> DEFINE d == acc.db
           s == Trashed(d, old)
           t == Added(s, row)
           next == Replaces(acc, old, row)
           gone == Gone(d, old)
<1>1. acc \in Carried /\ Sound(d) /\ d \in Database /\ d.made \in Nat
  BY VaultContentsAssumption, CarriedFields DEF Right, Sound, Database
<1>2. /\ old \in Id /\ IsActive(d, old) /\ Exists(d, old)
      /\ d.entry[old].name = row.name /\ d.entry[old].deleted = Active
  BY DEF Named, IsActive
<1>3. /\ s.made = d.made /\ s.clock = d.clock /\ s.reach = d.reach
      /\ s.entry = [d.entry EXCEPT ![old] = gone] /\ s \in Database
      /\ d.entry \in [Id -> EntryModel \union {NoEntry}]
  BY <1>1, <1>2, TrashedIs DEF Database, Gone
<1>4. /\ Sound(s)
      /\ \A f \in Id : Exists(s, f) <=> Exists(d, f)
      /\ \A f \in Id : IsActive(s, f) <=> IsActive(d, f) /\ f # old
      /\ \A f \in Id : s.entry[f].name = d.entry[f].name
  BY <1>1, <1>2, TrashedSound
<1> HIDE DEF s, gone
<1>5. Named(s, row.name) = {}
  BY <1>1, <1>2, <1>4 DEF Named, Sound, Distinct
<1>6. /\ t \in Database /\ t.made = d.made + 1 /\ t.clock = d.clock
      /\ t.reach = d.reach
  <2>1. s \in Database /\ s.made < MaxIds
    BY <1>3
  <2>2. /\ t \in Database /\ t.made = s.made + 1 /\ t.clock = s.clock
        /\ t.reach = s.reach
    BY <2>1, AddedIs
  <2>3. QED
    BY <1>3, <2>2
<1>7. /\ Sound(t) /\ d.made + 1 \in Id /\ ~Exists(d, d.made + 1)
      /\ \A f \in Id : t.entry[f] = IF f = d.made + 1 THEN row ELSE s.entry[f]
  BY <1>3, <1>4, <1>5, AddedSound
<1>8. \A f \in Id : s.entry[f] = IF f = old THEN gone ELSE d.entry[f]
  BY <1>2, <1>3
<1>9. /\ next \in Carried /\ next.db = t /\ next.seen = acc.seen
      /\ next.taken = acc.taken /\ next.ok = acc.ok
  BY <1>1, <1>6, CarriedFields DEF Replaces, s
<1> HIDE DEF t, next
<1>10. ASSUME NEW e \in Id, IsActive(t, e) PROVE t.entry[e].name \in acc.taken
  <2>1. row.name \in acc.taken
    BY <1>2 DEF Right
  <2>2. CASE e = d.made + 1
    BY <1>7, <2>1, <2>2
  <2>3. CASE e # d.made + 1
    <3>1. t.entry[e] = s.entry[e] /\ IsActive(s, e)
      BY <1>7, <1>10, <2>3 DEF IsActive, Exists
    <3>2. QED
      BY <1>4, <3>1 DEF Right
  <2>4. QED
    BY <2>2, <2>3
<1>11. Right(next)
  BY <1>7, <1>9, <1>10 DEF Right
<1>12. Keeps(d, t, d.entry[old].owner)
  <2>1. ASSUME NEW e \in Id, Exists(d, e)
        PROVE  \/ t.entry[e] = d.entry[e]
               \/ /\ d.entry[e].deleted = Active
                  /\ d.entry[e].owner = d.entry[old].owner
                  /\ t.entry[e] = [d.entry[e] EXCEPT !.deleted = d.clock + 1]
    BY <1>2, <1>7, <1>8, <2>1 DEF gone, Gone
  <2>2. QED
    BY <1>1, <1>6, <2>1 DEF Keeps
<1>13. \A e \in Id : t.entry[e] = IF e = d.made + 1 THEN row
                                  ELSE IF e = old THEN gone ELSE d.entry[e]
  BY <1>7, <1>8
<1>14. QED
  BY <1>6, <1>7, <1>9, <1>11, <1>12, <1>13 DEF gone, next

-----------------------------------------------------------------------------
(***************************************************************************)
(* One row of an import, and all of them, keep what is carried along right *)
(* and destroy nothing.                                                    *)
(***************************************************************************)
\* What a row may do to the vault: give out an id at most, for an entry that
\* is there then, and leave the grants alone.
Advances(acc, next, u) ==
  /\ Right(next) /\ Keeps(acc.db, next.db, u)
  /\ next.ok => acc.ok
  /\ next.db.reach = acc.db.reach
  /\ \/ next.db.made = acc.db.made
     \/ next.db.made \in Id /\ Exists(next.db, next.db.made)

LEMMA RefusedIsRight ==
  ASSUME NEW acc, Right(acc), NEW u
  PROVE  Advances(acc, Refused(acc), u) /\ Advances(acc, acc, u)
<1>1. acc \in Carried /\ Sound(acc.db)
  BY DEF Right
<1>2. Keeps(acc.db, acc.db, u)
  BY <1>1, KeepsItself
<1>3. /\ Refused(acc) \in Carried /\ Refused(acc).db = acc.db
      /\ Refused(acc).seen = acc.seen /\ Refused(acc).taken = acc.taken
      /\ ~Refused(acc).ok
  BY <1>1, CarriedFields
<1>4. QED
  BY <1>2, <1>3 DEF Right, Advances

LEMMA UsesIsRight ==
  ASSUME NEW acc, Right(acc), NEW n \in FullName
  PROVE  /\ Right(Uses(acc, n)) /\ Uses(acc, n).db = acc.db
         /\ Uses(acc, n).ok = acc.ok /\ n \in Uses(acc, n).taken
         /\ Uses(acc, n).seen = acc.seen \union {n}
         /\ Uses(acc, n).taken = acc.taken \union {n}
<1> DEFINE t == Uses(acc, n)
<1>1. acc \in Carried
  BY DEF Right
<1>2. /\ t \in Carried /\ t.db = acc.db /\ t.ok = acc.ok
      /\ t.seen = acc.seen \union {n} /\ t.taken = acc.taken \union {n}
  BY <1>1, CarriedFields
<1> HIDE DEF t
<1>3. IsFiniteSet(t.taken)
  BY <1>2, FS_AddElement DEF Right
<1>4. Right(t)
  BY <1>2, <1>3 DEF Right
<1>5. QED
  BY <1>2, <1>4 DEF t

\* BackupCRUD._restore_target().
LEMMA TargetIsRight ==
  ASSUME NEW acc, Right(acc), NEW u \in Person, NEW mode \in Mode,
         NEW row \in FileRow, row.deleted = Active => row.name \in acc.taken
  PROVE  Advances(acc, _restore_target(acc, u, mode, row), u)
<1> DEFINE next == _restore_target(acc, u, mode, row)
           T == Twins(acc.db, row)
           old == Max(T)
           new == Restored(u, row)
<1>1. acc \in Carried /\ Sound(acc.db) /\ acc.db \in Database
  BY CarriedFields DEF Right
<1>2. /\ new \in EntryModel /\ new.owner = u /\ new.name = row.name
      /\ new.deleted = row.deleted /\ new.damaged = "no"
  BY RestoredIs
<1>3. row.deleted = Active => T = Named(acc.db, row.name)
  BY DEF Twins, Named, IsActive
<1>4. T # {} => old \in T
  <2> SUFFICES ASSUME T # {} PROVE old \in T
    OBVIOUS
  <2>1. T \in SUBSET Nat /\ MaxIds \in Nat /\ \A x \in T : x <= MaxIds
    BY VaultContentsAssumption DEF Twins, Id
  <2>2. QED
    BY <2>1, MaxIs
<1>5. \/ next = Refused(acc)
      \/ next = acc
      \/ /\ next = Adds(acc, new) /\ acc.db.made < MaxIds
         /\ T = {} \/ row.deleted # Active
      \/ /\ next = Replaces(acc, old, new) /\ acc.db.made < MaxIds
         /\ T # {} /\ row.deleted = Active /\ acc.db.entry[old].owner = u
  BY <1>1, TargetCases
<1> HIDE DEF next, T, old, new
<1>6. CASE next = Refused(acc) \/ next = acc
  BY <1>6, RefusedIsRight DEF next
<1>7. CASE /\ next = Adds(acc, new) /\ acc.db.made < MaxIds
           /\ T = {} \/ row.deleted # Active
  <2>1. new.deleted = Active => new.name \in acc.taken /\ Named(acc.db, new.name) = {}
    BY <1>2, <1>3, <1>7
  <2>2. /\ Right(next) /\ Keeps(acc.db, next.db, u) /\ next.ok = acc.ok
        /\ next.db.reach = acc.db.reach /\ next.db.made = acc.db.made + 1
        /\ acc.db.made + 1 \in Id /\ next.db.entry[acc.db.made + 1] = new
    BY <1>2, <1>7, <2>1, AddsIsRight
  <2>3. QED
    BY <1>2, <2>2, NoRow DEF Advances, Exists, next
<1>8. CASE /\ next = Replaces(acc, old, new) /\ acc.db.made < MaxIds
           /\ T # {} /\ row.deleted = Active /\ acc.db.entry[old].owner = u
  <2>1. old \in Named(acc.db, new.name)
    BY <1>2, <1>3, <1>4, <1>8
  <2>2. /\ Right(next) /\ Keeps(acc.db, next.db, acc.db.entry[old].owner)
        /\ next.ok = acc.ok
        /\ next.db.reach = acc.db.reach /\ next.db.made = acc.db.made + 1
        /\ acc.db.made + 1 \in Id
    BY <1>2, <1>8, <2>1, ReplacesIsRight
  <2>3. \A e \in Id : e = acc.db.made + 1 => next.db.entry[e] = new
    BY <1>2, <1>8, <2>1, ReplacesIsRight
  <2>4. Keeps(acc.db, next.db, u)
    BY <1>8, <2>2
  <2>5. QED
    BY <1>2, <2>2, <2>3, <2>4, NoRow DEF Advances, Exists, next
<1>9. QED
  BY <1>5, <1>6, <1>7, <1>8

\* PasswordCRUD._upsert_entry(), for a name that is free or the importer's.
LEMMA UpsertIsRight ==
  ASSUME NEW acc, Right(acc), NEW u \in Person, NEW mode \in Mode,
         NEW row \in EntryModel, row.deleted = Active, row.damaged = "no",
         row.name \in acc.taken,
         Named(acc.db, row.name) = Mine(acc.db, u, row.name)
  PROVE  Advances(acc, _upsert_entry(acc, u, mode, row), u)
<1> DEFINE next == _upsert_entry(acc, u, mode, row)
           mine == Mine(acc.db, u, row.name)
<1>1. acc \in Carried
  BY DEF Right
<1>2. \/ next = Refused(acc)
      \/ next = acc
      \/ next = Adds(acc, row) /\ acc.db.made < MaxIds /\ mine = {}
      \/ acc.db.made < MaxIds /\ \E old \in mine : next = Replaces(acc, old, row)
  BY <1>1, UpsertCases
<1> HIDE DEF next, mine
<1>3. CASE next = Refused(acc) \/ next = acc
  BY <1>3, RefusedIsRight DEF next
<1>4. CASE next = Adds(acc, row) /\ acc.db.made < MaxIds /\ mine = {}
  <2>1. Named(acc.db, row.name) = {}
    BY <1>4 DEF mine
  <2>2. /\ Right(next) /\ Keeps(acc.db, next.db, u) /\ next.ok = acc.ok
        /\ next.db.reach = acc.db.reach /\ next.db.made = acc.db.made + 1
        /\ acc.db.made + 1 \in Id /\ next.db.entry[acc.db.made + 1] = row
    BY <1>4, <2>1, AddsIsRight
  <2>3. QED
    BY <2>2, NoRow DEF Advances, Exists, next
<1>5. ASSUME acc.db.made < MaxIds, NEW old \in mine, next = Replaces(acc, old, row)
      PROVE  Advances(acc, next, u)
  <2>1. old \in Named(acc.db, row.name) /\ acc.db.entry[old].owner = u
    BY DEF mine, Mine, load_active
  <2>2. /\ Right(next) /\ Keeps(acc.db, next.db, acc.db.entry[old].owner)
        /\ next.ok = acc.ok
        /\ next.db.reach = acc.db.reach /\ next.db.made = acc.db.made + 1
        /\ acc.db.made + 1 \in Id
    BY <1>5, <2>1, ReplacesIsRight
  <2>3. \A e \in Id : e = acc.db.made + 1 => next.db.entry[e] = row
    BY <1>5, <2>1, ReplacesIsRight
  <2>4. Keeps(acc.db, next.db, u)
    BY <2>1, <2>2
  <2>5. QED
    BY <2>2, <2>3, <2>4, NoRow DEF Advances, Exists
<1>6. QED
  BY <1>2, <1>3, <1>4, <1>5 DEF next

\* What every import does with a row.
Moves(acc, next, u) ==
  Right(next) /\ Keeps(acc.db, next.db, u) /\ (next.ok => acc.ok)

\* The name under which a row of a CSV file is stored.
StoreName(u, acc, n) ==
  IF n \in acc.seen \/ (n \in acc.taken /\ Mine(acc.db, u, n) = {})
  THEN _unique_name(n, acc.taken) ELSE n

LEMMA StoreNameIs ==
  ASSUME NEW acc, Right(acc), NEW u \in Person, NEW n \in FullName
  PROVE  LET name == StoreName(u, acc, n)
         IN  /\ name \in FullName
             /\ name = n \/ name \notin acc.taken
             /\ Named(acc.db, name) = Mine(acc.db, u, name)
             /\ name \in acc.taken => name = n /\ n \notin acc.seen /\ Mine(acc.db, u, n) # {}
<1> DEFINE name == StoreName(u, acc, n)
<1>1. IsFiniteSet(acc.taken) /\ acc.db \in Database /\ Sound(acc.db)
  BY CarriedFields DEF Right
<1>2. /\ _unique_name(n, acc.taken) \in FullName
      /\ _unique_name(n, acc.taken) \notin acc.taken
  BY <1>1, UniqueIsFree
<1>3. /\ name \in FullName
      /\ name = n \/ name \notin acc.taken
      /\ name \in acc.taken => name = n /\ n \notin acc.seen /\ Mine(acc.db, u, n) # {}
  BY <1>2 DEF StoreName
<1> HIDE DEF name
<1>4. CASE name \notin acc.taken
  <2>1. Named(acc.db, name) = {}
    BY <1>4 DEF Named, Right
  <2>2. QED
    BY <1>3, <2>1 DEF Mine, name
<1>5. CASE name \in acc.taken
  <2>1. PICK e : e \in Mine(acc.db, u, name)
    BY <1>3, <1>5
  <2>2. e \in Id /\ IsActive(acc.db, e) /\ acc.db.entry[e].name = name /\ acc.db.entry[e].owner = u
    BY <2>1 DEF Mine, Named, load_active
  <2>3. \A f \in Named(acc.db, name) : f = e
    BY <1>1, <2>2 DEF Named, Sound, Distinct
  <2>4. Named(acc.db, name) = Mine(acc.db, u, name)
    BY <2>1, <2>3 DEF Mine
  <2>5. QED
    BY <1>3, <2>4 DEF name
<1>6. QED
  BY <1>4, <1>5

LEMMA StoreRowIs ==
  ASSUME NEW acc, acc.ok, NEW u, NEW mode, NEW n
  PROVE  LET name == StoreName(u, acc, n)
         IN  StoreRow(u, mode, acc, n) =
               _upsert_entry(Uses(acc, name), u, mode, NewRow(u, name, "csv", "none"))
BY DEF StoreRow, StoreName, Mine

\* One row of _store_import().
LEMMA StoreRowIsRight ==
  ASSUME NEW acc, Right(acc), NEW u \in Person, NEW mode \in Mode, NEW n \in FullName
  PROVE  Moves(acc, StoreRow(u, mode, acc, n), u)
<1> DEFINE name == StoreName(u, acc, n)
           a == Uses(acc, name)
           row == NewRow(u, name, "csv", "none")
           next == StoreRow(u, mode, acc, n)
<1>1. CASE ~acc.ok
  <2>1. next = acc
    BY <1>1 DEF StoreRow
  <2>2. QED
    BY <2>1, RefusedIsRight DEF Moves, Advances
<1>2. CASE acc.ok
  <2>1. name \in FullName /\ Named(acc.db, name) = Mine(acc.db, u, name)
    BY StoreNameIs
  <2> HIDE DEF name
  <2>2. Right(a) /\ a.db = acc.db /\ a.ok = acc.ok /\ name \in a.taken
    BY <2>1, UsesIsRight
  <2>3. /\ row \in EntryModel /\ row.name = name /\ row.deleted = Active
        /\ row.damaged = "no"
    BY <2>1, NewRowIs DEF Content
  <2> HIDE DEF a, row
  <2>4. Advances(a, _upsert_entry(a, u, mode, row), u)
    BY <2>1, <2>2, <2>3, UpsertIsRight
  <2>5. next = _upsert_entry(a, u, mode, row)
    BY <1>2, StoreRowIs DEF name, a, row
  <2>6. QED
    BY <2>2, <2>4, <2>5 DEF Advances, Moves
<1>3. QED
  BY <1>1, <1>2

\* One row of _restore().
LEMMA RestoreRowIsRight ==
  ASSUME NEW acc, Right(acc), NEW u \in Person, NEW mode \in Mode, NEW row \in FileRow
  PROVE  Moves(acc, RestoreRow(u, mode, acc, row), u)
<1> DEFINE next == RestoreRow(u, mode, acc, row)
           a == Uses(acc, row.name)
<1>1. row.name \in FullName
  BY DEF FileRow
<1>2. Right(a) /\ a.db = acc.db /\ a.ok = acc.ok /\ row.name \in a.taken
  BY <1>1, UsesIsRight
<1>3. Advances(a, _restore_target(a, u, mode, row), u)
  BY <1>2, TargetIsRight
<1>4. row.deleted # Active => Advances(acc, _restore_target(acc, u, mode, row), u)
  BY TargetIsRight
<1>5. Advances(acc, acc, u) /\ Advances(acc, Refused(acc), u)
  BY RefusedIsRight
<1>6. \/ next = acc \/ next = Refused(acc)
      \/ row.deleted # Active /\ next = _restore_target(acc, u, mode, row)
      \/ next = _restore_target(a, u, mode, row)
  BY DEF RestoreRow
<1> HIDE DEF a
<1>7. QED
  BY <1>2, <1>3, <1>4, <1>5, <1>6 DEF Advances, Moves

\* The entry that was added is shared.
LEMMA SharedIsRight ==
  ASSUME NEW acc, Right(acc), NEW S \in SUBSET Account,
         acc.db.made \in Id, Exists(acc.db, acc.db.made)
  PROVE  LET next == [acc EXCEPT !.db.reach = @ \union {<<acc.db.made, v>> : v \in S}]
         IN  /\ Right(next) /\ next.ok = acc.ok
             /\ next.db.entry = acc.db.entry /\ next.db.made = acc.db.made
             /\ next.db.clock = acc.db.clock
<1> DEFINE d == acc.db
           new == {<<d.made, v>> : v \in S}
           t == [d EXCEPT !.reach = @ \union new]
           next == [acc EXCEPT !.db = t]
<1>1. acc \in Carried /\ d \in Database /\ Sound(d) /\ d.reach \subseteq Id \X Account
  BY CarriedFields DEF Right, Database
<1>2. new \subseteq Id \X Account /\ \A r \in new : r[1] = d.made
  OBVIOUS
<1> HIDE DEF new
<1>3. /\ t \in Database /\ t.entry = d.entry /\ t.made = d.made /\ t.clock = d.clock
      /\ t.reach = d.reach \union new
  BY <1>1, <1>2 DEF Database
<1> HIDE DEF t
<1>4. Sound(t)
  BY <1>1, <1>2, <1>3 DEF Sound, Distinct, IsActive, Exists
<1>5. /\ next \in Carried /\ next.db = t /\ next.seen = acc.seen
      /\ next.taken = acc.taken /\ next.ok = acc.ok
  BY <1>1, <1>3, CarriedFields
<1>6. [acc EXCEPT !.db.reach = @ \union {<<acc.db.made, v>> : v \in S}] = next
  BY <1>1 DEF Carried, t, new
<1> HIDE DEF next
<1>7. Right(next)
  BY <1>3, <1>4, <1>5 DEF Right, IsActive, Exists
<1>8. QED
  BY <1>3, <1>5, <1>6, <1>7

Item == [row : FileRow, shares : SUBSET Account]

\* One row of a 2.0 migration archive.
LEMMA MigrateRowIsRight ==
  ASSUME NEW acc, Right(acc), NEW u \in Person, NEW mode \in Mode, NEW item \in Item
  PROVE  Moves(acc, MigrateRow(u, mode, acc, item), u)
<1> DEFINE n == item.row.name
           foreign == \E e \in Named(acc.db, n) : acc.db.entry[e].owner # u
           name == IF n \in acc.seen \/ foreign THEN _unique_name(n, acc.taken) ELSE n
           row == [item.row EXCEPT !.name = name]
           a == Uses(acc, name)
           next == IF item.row.deleted = Active THEN _restore_target(a, u, mode, row)
                   ELSE _restore_target(acc, u, mode, item.row)
           out == MigrateRow(u, mode, acc, item)
<1>1. item.row \in FileRow /\ n \in FullName /\ item.shares \in SUBSET Account
  BY DEF Item, FileRow
<1>2. name \in FullName
  BY <1>1, UniqueIsFree DEF Right
<1>3. out = IF ~acc.ok THEN acc
            ELSE IF next.db.made = acc.db.made THEN next
            ELSE [next EXCEPT !.db.reach =
                    @ \union {<<next.db.made, v>> : v \in item.shares}]
  BY DEF MigrateRow
<1>4. row \in FileRow /\ row.name = name /\ row.deleted = item.row.deleted
  BY <1>1, <1>2 DEF FileRow
<1> HIDE DEF name, row
<1>5. Right(a) /\ a.db = acc.db /\ a.ok = acc.ok /\ name \in a.taken
  BY <1>2, UsesIsRight
<1>6. Advances(acc, next, u)
  <2>1. Advances(a, _restore_target(a, u, mode, row), u)
    BY <1>4, <1>5, TargetIsRight
  <2>2. Advances(acc, _restore_target(a, u, mode, row), u)
    BY <1>5, <2>1 DEF Advances
  <2>3. item.row.deleted # Active =>
          Advances(acc, _restore_target(acc, u, mode, item.row), u)
    BY <1>1, TargetIsRight
  <2>4. QED
    BY <2>2, <2>3
<1> HIDE DEF next, out
<1>7. CASE ~acc.ok
  BY <1>3, <1>7, RefusedIsRight DEF Moves, Advances, out
<1>8. CASE acc.ok /\ next.db.made = acc.db.made
  BY <1>3, <1>6, <1>8 DEF Moves, Advances, out
<1>9. CASE acc.ok /\ next.db.made # acc.db.made
  <2>1. Right(next) /\ next.db.made \in Id /\ Exists(next.db, next.db.made)
    BY <1>6, <1>9 DEF Advances
  <2>2. /\ Right(out) /\ out.ok = next.ok
        /\ out.db.entry = next.db.entry /\ out.db.made = next.db.made
        /\ out.db.clock = next.db.clock
    BY <1>1, <1>3, <1>9, <2>1, SharedIsRight
  <2>3. Keeps(acc.db, out.db, u)
    BY <1>6, <2>2 DEF Advances, Keeps
  <2>4. QED
    BY <1>9, <2>2, <2>3 DEF Moves, out
<1>10. QED
  BY <1>7, <1>8, <1>9

\* A file of one of the three kinds.
Fits(kind, rows) ==
  \/ kind = "zip" /\ rows \in Seq(FullName)
  \/ kind = "restore" /\ rows \in Seq(FileRow)
  \/ kind = "migration" /\ rows \in Seq(Item)

LEMMA ImportRowIsRight ==
  ASSUME NEW kind, NEW rows, Fits(kind, rows), NEW i \in 1..Len(rows),
         NEW acc, Right(acc), NEW u \in Person, NEW mode \in Mode
  PROVE  Moves(acc, ImportRow(kind, u, mode, acc, rows[i]), u)
<1>1. CASE kind = "zip" /\ rows \in Seq(FullName)
  BY <1>1, StoreRowIsRight DEF ImportRow
<1>2. CASE kind = "restore" /\ rows \in Seq(FileRow)
  BY <1>2, RestoreRowIsRight DEF ImportRow
<1>3. CASE kind = "migration" /\ rows \in Seq(Item)
  BY <1>3, MigrateRowIsRight DEF ImportRow
<1>4. QED
  BY <1>1, <1>2, <1>3 DEF Fits

\* What is there when an import begins.
LEMMA BeginIsRight ==
  ASSUME NEW d, Sound(d)
  PROVE  /\ Right(Begin(d)) /\ Begin(d).db = d /\ Begin(d).ok
         /\ Begin(d).seen = {}
         /\ \A n : n \in Begin(d).taken <=> \E e \in Id : IsActive(d, e) /\ d.entry[e].name = n
<1> DEFINE A == {e \in Id : IsActive(d, e)}
           N == {d.entry[e].name : e \in A}
           f == [e \in A |-> d.entry[e].name]
<1>1. IsFiniteSet(A)
  <2>1. IsFiniteSet(Id)
    BY FS_Interval, VaultContentsAssumption DEF Id
  <2>2. A \in SUBSET Id
    OBVIOUS
  <2>3. QED
    BY <2>1, <2>2, FS_Subset
<1>2. f \in Surjection(A, N)
  BY DEF Surjection
<1>3. IsFiniteSet(N)
  BY <1>1, <1>2, FS_Surjection
<1>4. N \in SUBSET FullName /\ d \in Database
  BY RowFields DEF IsActive, Sound
<1>5. /\ Begin(d).db = d /\ Begin(d).ok /\ Begin(d).seen = {}
      /\ Begin(d).taken = N
  BY DEF Begin
<1>6. Begin(d) \in Carried
  BY <1>4 DEF Begin, Carried
<1>7. Right(Begin(d))
  BY <1>3, <1>5, <1>6 DEF Right
<1>8. QED
  BY <1>5, <1>7

\* Every row of every file.
LEMMA ProgressIsRight ==
  ASSUME NEW kind, NEW rows, Fits(kind, rows), NEW d, Sound(d),
         NEW u \in Person, NEW mode \in Mode
  PROVE  LET after == Progress(kind, d, u, mode, rows)
         IN  /\ Len(rows) \in Nat
             /\ \A i \in 0..Len(rows) : Right(after[i]) /\ Keeps(d, after[i].db, u)
             /\ after[0] = Begin(d)
             /\ \A i \in 1..Len(rows) :
                  /\ after[i] = ImportRow(kind, u, mode, after[i - 1], rows[i])
                  /\ Moves(after[i - 1], after[i], u)
<1> DEFINE after == Progress(kind, d, u, mode, rows)
           S == {i \in 0..Len(rows) : Right(after[i]) /\ Keeps(d, after[i].db, u)}
<1>1. Len(rows) \in Nat
  BY DEF Fits
<1>2. /\ after[0] = Begin(d)
      /\ \A i \in 1..Len(rows) :
           after[i] = ImportRow(kind, u, mode, after[i - 1], rows[i])
  BY <1>1, ProgressIs
<1> HIDE DEF after
<1>3. 0 \in S
  BY <1>1, <1>2, BeginIsRight, KeepsItself
<1>4. ASSUME NEW i \in 1..Len(rows), Right(after[i - 1])
      PROVE  Moves(after[i - 1], after[i], u)
  BY <1>2, <1>4, ImportRowIsRight
<1>5. ASSUME NEW i \in 1..Len(rows), i - 1 \in S PROVE i \in S
  <2>1. Right(after[i - 1]) /\ Keeps(d, after[i - 1].db, u)
    BY <1>5
  <2>2. Moves(after[i - 1], after[i], u)
    BY <1>4, <2>1
  <2>3. Right(after[i]) /\ Keeps(after[i - 1].db, after[i].db, u)
    BY <2>2 DEF Moves
  <2>4. Sound(after[i - 1].db) /\ Sound(after[i].db)
    BY <2>1, <2>3 DEF Right
  <2>5. Keeps(d, after[i].db, u)
    BY <2>1, <2>3, <2>4, KeepsOn
  <2>6. QED
    BY <1>1, <2>3, <2>5
<1> HIDE DEF S
<1>6. \A i \in 0..Len(rows) : i \in S
  BY <1>1, <1>3, <1>5, Induct
<1>7. \A i \in 0..Len(rows) : Right(after[i]) /\ Keeps(d, after[i].db, u)
  BY <1>6 DEF S
<1>8. ASSUME NEW i \in 1..Len(rows)
      PROVE  Moves(after[i - 1], after[i], u)
  <2>1. i - 1 \in 0..Len(rows)
    BY <1>1
  <2>2. QED
    BY <1>4, <1>7, <2>1
<1>9. QED
  BY <1>1, <1>2, <1>7, <1>8 DEF after

\* What was refused stays refused.
LEMMA OkBefore ==
  ASSUME NEW kind, NEW rows, Fits(kind, rows), NEW d, Sound(d),
         NEW u \in Person, NEW mode \in Mode,
         Progress(kind, d, u, mode, rows)[Len(rows)].ok
  PROVE  \A i \in 0..Len(rows) : Progress(kind, d, u, mode, rows)[i].ok
<1> DEFINE after == Progress(kind, d, u, mode, rows)
           len == Len(rows)
           S == {i \in 0..len : after[len - i].ok}
<1>1. /\ len \in Nat
      /\ \A i \in 1..len : after[i].ok => after[i - 1].ok
  BY ProgressIsRight DEF Moves
<1> HIDE DEF after, len
<1>2. 0 \in S
  BY <1>1 DEF after, len
<1>3. ASSUME NEW i \in 1..len, i - 1 \in S PROVE i \in S
  <2>1. len - (i - 1) \in 1..len /\ after[len - (i - 1)].ok
    BY <1>1, <1>3
  <2>2. len - i = (len - (i - 1)) - 1
    BY <1>1
  <2>3. QED
    BY <1>1, <2>1, <2>2
<1> HIDE DEF S
<1>4. \A i \in 0..len : i \in S
  BY <1>1, <1>2, <1>3, Induct
<1>5. ASSUME NEW i \in 0..len PROVE after[i].ok
  <2>1. len - i \in 0..len /\ len - (len - i) = i
    BY <1>1
  <2>2. len - i \in S
    BY <1>4, <2>1
  <2>3. QED
    BY <2>1, <2>2 DEF S
<1>6. QED
  BY <1>5 DEF after, len

-----------------------------------------------------------------------------
(***************************************************************************)
(* The steps of the specification keep IInv.                               *)
(***************************************************************************)
\* A row is written again.
Put(d, e, row) == [d EXCEPT !.entry[e] = row]

LEMMA PutSound ==
  ASSUME NEW d, Sound(d), Dated(d), NEW e \in Id, Exists(d, e), NEW row \in EntryModel,
         row.damaged = "file" => row.files > 0, row.deleted <= d.clock,
         \A f \in Id : f # e /\ IsActive(d, f) /\ row.deleted = Active =>
                         d.entry[f].name # row.name
  PROVE  Sound(Put(d, e, row)) /\ Dated(Put(d, e, row))
<1> DEFINE t == Put(d, e, row)
<1>1. d \in Database /\ d.entry \in [Id -> EntryModel \union {NoEntry}]
  BY DEF Sound, Database
<1>2. /\ t \in Database /\ t.made = d.made /\ t.clock = d.clock /\ t.reach = d.reach
      /\ t.entry = [d.entry EXCEPT ![e] = row]
  BY <1>1 DEF Put, Database
<1> HIDE DEF t
<1>3. \A f \in Id : t.entry[f] = IF f = e THEN row ELSE d.entry[f]
  BY <1>1, <1>2
<1>4. \A f \in Id : Exists(t, f) <=> Exists(d, f)
  BY <1>3, NoRow DEF Exists
<1>5. \A f \in Id : IsActive(t, f) <=> IF f = e THEN row.deleted = Active ELSE IsActive(d, f)
  BY <1>3, <1>4 DEF IsActive
<1>6. Distinct(t)
  BY <1>3, <1>5 DEF Sound, Distinct
<1>7. \A r \in t.reach : Exists(t, r[1])
  BY <1>1, <1>2, <1>4 DEF Sound, Database
<1>8. \A f \in Id : Exists(t, f) =>
        f <= t.made /\ (t.entry[f].damaged = "file" => t.entry[f].files > 0)
  BY <1>2, <1>3, <1>4 DEF Sound
<1>9. Dated(t)
  BY <1>2, <1>3, <1>4 DEF Dated
<1>10. Sound(t)
  BY <1>2, <1>6, <1>7, <1>8 DEF Sound
<1>11. QED
  BY <1>9, <1>10 DEF t

\* A row is removed, and the grants for it.
LEMMA RemovedSound ==
  ASSUME NEW d, Sound(d), Dated(d), NEW e \in Id
  PROVE  Sound(Removed(d, e)) /\ Dated(Removed(d, e))
<1> DEFINE t == Removed(d, e)
<1>1. d \in Database /\ d.entry \in [Id -> EntryModel \union {NoEntry}]
  BY DEF Sound, Database
<1>2. /\ t \in Database /\ t.made = d.made /\ t.clock = d.clock
      /\ t.reach = {r \in d.reach : r[1] # e}
      /\ t.entry = [d.entry EXCEPT ![e] = NoEntry]
  BY <1>1 DEF Removed, Database
<1> HIDE DEF t
<1>3. \A f \in Id : t.entry[f] = IF f = e THEN NoEntry ELSE d.entry[f]
  BY <1>1, <1>2
<1>4. \A f \in Id : Exists(t, f) <=> Exists(d, f) /\ f # e
  BY <1>3 DEF Exists
<1>5. Distinct(t)
  BY <1>3, <1>4 DEF Sound, Distinct, IsActive
<1>6. \A r \in t.reach : Exists(t, r[1])
  BY <1>1, <1>2, <1>4 DEF Sound, Database
<1>7. Dated(t)
  BY <1>2, <1>3, <1>4 DEF Dated
<1>8. Sound(t)
  BY <1>2, <1>3, <1>4, <1>5, <1>6 DEF Sound
<1>9. QED
  BY <1>7, <1>8 DEF t

\* What a transaction commits is what there is then.
LEMMA CommitIs ==
  ASSUME NEW d, d \in Database, Commit(d)
  PROVE  Db' = d /\ Frames(d) <= MaxFrames
BY DEF Commit, Db, Database, _enforce_backup_capacity

LEMMA ChangeIInv ==
  ASSUME IInv, NEW d, Sound(d), Dated(d), Change(d), misdirected' \in BOOLEAN
  PROVE  IInv'
<1>1. Commit(d) /\ UNCHANGED <<session, file, job>>
  BY DEF Change
<1>2. Db' = d /\ Frames(d) <= MaxFrames
  BY <1>1, CommitIs DEF Sound
<1>3. Sound(Db)' /\ Dated(Db)' /\ (Frames(Db) <= MaxFrames)'
  BY <1>2
<1>4. JobFits'
  BY <1>1 DEF IInv, JobFits
<1>5. QED
  BY <1>1, <1>3, <1>4 DEF IInv

\* A step that leaves the vault alone.
LEMMA SameVault ==
  ASSUME IInv, UNCHANGED <<entry, made, clock, reach>>, session' \subseteq Person,
         misdirected' \in BOOLEAN, file' \in Seq(FileRow), JobFits'
  PROVE  IInv'
<1>1. Db' = Db
  BY DEF Db
<1>2. Sound(Db)' /\ Dated(Db)' /\ (Frames(Db) <= MaxFrames)'
  BY <1>1 DEF IInv
<1>3. QED
  BY <1>2 DEF IInv

\* The rows there are.
LEMMA DbFields ==
  ASSUME IInv
  PROVE  /\ Sound(Db) /\ Dated(Db) /\ Db \in Database
         /\ Db.entry = entry /\ Db.made = made /\ Db.clock = clock /\ Db.reach = reach
         /\ entry \in [Id -> EntryModel \union {NoEntry}]
         /\ made \in Nat /\ clock \in Nat /\ reach \subseteq Id \X Account
         /\ \A e \in Id : Exists(Db, e) => entry[e] \in EntryModel /\ entry[e].deleted <= clock
<1>1. Sound(Db) /\ Dated(Db) /\ Db \in Database
  BY DEF IInv, Sound
<1>2. Db.entry = entry /\ Db.made = made /\ Db.clock = clock /\ Db.reach = reach
  BY DEF Db
<1>3. /\ entry \in [Id -> EntryModel \union {NoEntry}]
      /\ made \in Nat /\ clock \in Nat /\ reach \subseteq Id \X Account
  BY <1>1, <1>2, VaultContentsAssumption DEF Database
<1>4. \A e \in Id : Exists(Db, e) => entry[e] \in EntryModel /\ entry[e].deleted <= clock
  BY <1>1, <1>2, RowFields DEF Dated
<1>5. QED
  BY <1>1, <1>2, <1>3, <1>4

LEMMA TypedIs ==
  ASSUME NEW n \in {Typed(m) : m \in Name} PROVE n \in FullName
<1>1. <<>> \in Seq(Nat)
  OBVIOUS
<1>2. PICK m \in Name : n = <<m, <<>>>>
  BY DEF Typed
<1>3. QED
  BY <1>1, <1>2 DEF FullName

LEMMA CreateIInv ==
  ASSUME IInv, NEW u \in Account, NEW n \in FullName, NEW v \in Value,
         NEW fo \in FolderName \union {"none"}, create_password(u, n, v, fo)
  PROVE  IInv'
<1> DEFINE row == NewRow(OwnerId(u), n, v, fo)
           s == Added(Db, row)
           new == {<<made + 1, u>>} \intersect (Id \X Service)
           t == [s EXCEPT !.reach = @ \union new]
<1>1. /\ Sound(Db) /\ Dated(Db) /\ Db \in Database /\ Db.made = made /\ made \in Nat
      /\ Db.clock = clock /\ clock \in Nat /\ Db.reach = reach
      /\ reach \subseteq Id \X Account
  BY DbFields
<1>2. OwnerId(u) \in Person
  BY VaultContentsAssumption DEF OwnerId, Account
<1>3. /\ row \in EntryModel /\ row.name = n /\ row.deleted = Active /\ row.damaged = "no"
  BY <1>2, NewRowIs DEF Content
<1>4. Named(Db, n) = {} /\ Db.made < MaxIds /\ Change(t)
  BY <1>1 DEF create_password, active_entry_exists
<1> HIDE DEF row
<1>5. /\ Sound(s) /\ made + 1 \in Id
      /\ \A f \in Id : Exists(s, f) <=> Exists(Db, f) \/ f = made + 1
      /\ \A f \in Id : s.entry[f] = IF f = made + 1 THEN row ELSE Db.entry[f]
  BY <1>1, <1>3, <1>4, AddedSound
<1>6. s \in Database /\ s.clock = clock /\ s.reach = reach
  BY <1>1, <1>3, <1>4, AddedIs
<1>7. new \subseteq Id \X Account /\ \A r \in new : r[1] = made + 1
  BY DEF Account
<1> HIDE DEF s, new
<1>8. /\ t \in Database /\ t.entry = s.entry /\ t.made = s.made /\ t.clock = s.clock
      /\ t.reach = s.reach \union new
  BY <1>1, <1>6, <1>7 DEF Database
<1> HIDE DEF t
<1>9. Sound(t)
  BY <1>5, <1>7, <1>8 DEF Sound, Distinct, IsActive, Exists
<1>10. ASSUME NEW f \in Id, Exists(t, f) PROVE t.entry[f].deleted <= t.clock
  <2>1. CASE f = made + 1
    BY <1>1, <1>3, <1>5, <1>6, <1>8, <2>1 DEF Active
  <2>2. CASE f # made + 1
    BY <1>1, <1>5, <1>6, <1>8, <1>10, <2>2 DEF Dated, Exists
  <2>3. QED
    BY <2>1, <2>2
<1>11. Dated(t)
  BY <1>10 DEF Dated
<1>12. misdirected' \in BOOLEAN
  BY DEF create_password, IInv
<1>13. QED
  BY <1>4, <1>9, <1>11, <1>12, ChangeIInv

\* A row of the vault is written again, and nothing else changes.
LEMMA PutIInv ==
  ASSUME IInv, NEW e \in Id, Exists(Db, e), NEW row \in EntryModel,
         row.damaged = "file" => row.files > 0, row.deleted <= clock,
         \A f \in Id : f # e /\ IsActive(Db, f) /\ row.deleted = Active =>
                         entry[f].name # row.name,
         Change(Put(Db, e, row)), misdirected' \in BOOLEAN
  PROVE  IInv'
<1>1. /\ Sound(Db) /\ Dated(Db) /\ Db.entry = entry /\ Db.clock = clock
  BY DbFields
<1>2. Sound(Put(Db, e, row)) /\ Dated(Put(Db, e, row))
  BY <1>1, PutSound
<1> DEFINE t == Put(Db, e, row)
<1> HIDE DEF t
<1>3. QED
  BY <1>2, ChangeIInv DEF t

LEMMA UpdateIInv ==
  ASSUME IInv, NEW u \in Account, NEW e \in Id, NEW n \in FullName, NEW v \in Value,
         NEW fo \in FolderName \union {"none"}, update_password(u, e, n, v, fo),
         misdirected' \in BOOLEAN
  PROVE  IInv'
<1> DEFINE row == [entry[e] EXCEPT !.name = n, !.value = v, !.folder = fo]
<1>1. /\ Sound(Db) /\ Db \in Database /\ Db.entry = entry
      /\ entry \in [Id -> EntryModel \union {NoEntry}]
      /\ \A f \in Id : Exists(Db, f) => entry[f] \in EntryModel /\ entry[f].deleted <= clock
  BY DbFields
<1>2. /\ IsActive(Db, e) /\ Exists(Db, e) /\ Change(Updated(e, n, v, fo))
      /\ n = entry[e].name \/ Named(Db, n) = {}
  BY DEF update_password, find_entry, IsActive, active_entry_exists
<1>3. entry[e] \in EntryModel /\ entry[e].deleted <= clock
  BY <1>1, <1>2
<1>4. /\ row \in EntryModel /\ row.name = n /\ row.deleted = entry[e].deleted
      /\ row.damaged = entry[e].damaged /\ row.files = entry[e].files
  BY <1>3 DEF EntryModel, Content
<1>5. Updated(e, n, v, fo) = Put(Db, e, row)
  BY <1>1 DEF Updated, Put, Database
<1> HIDE DEF row
<1>6. row.damaged = "file" => row.files > 0
  BY <1>1, <1>2, <1>4 DEF Sound
<1>7. ASSUME NEW f \in Id, f # e, IsActive(Db, f) PROVE entry[f].name # row.name
  BY <1>1, <1>2, <1>4, <1>7 DEF Named, Sound, Distinct
<1>8. QED
  BY <1>2, <1>3, <1>4, <1>5, <1>6, <1>7, PutIInv

LEMMA DeleteIInv ==
  ASSUME IInv, NEW u \in Account, NEW e \in Id, delete_password(u, e),
         misdirected' \in BOOLEAN
  PROVE  IInv'
<1> DEFINE t == Ticked(Trashed(Db, e))
<1>1. Exists(Db, e) /\ Change(t)
  BY DEF delete_password, find_entry, IsActive
<1>2. Sound(Trashed(Db, e))
  BY <1>1, TrashedSound, DbFields
<1>3. Sound(t) /\ Dated(t)
  BY <1>2, TickedIs
<1> HIDE DEF t
<1>4. QED
  BY <1>1, <1>3, ChangeIInv

LEMMA RestoreIInv ==
  ASSUME IInv, NEW u \in Person, NEW e \in Id, restore_password(u, e)
  PROVE  IInv'
<1> DEFINE row == [entry[e] EXCEPT !.deleted = Active]
<1>1. /\ Sound(Db) /\ Db \in Database /\ Db.entry = entry /\ clock \in Nat
      /\ entry \in [Id -> EntryModel \union {NoEntry}]
      /\ \A f \in Id : Exists(Db, f) => entry[f] \in EntryModel
  BY DbFields
<1>2. /\ Exists(Db, e) /\ Change([Db EXCEPT !.entry[e].deleted = Active])
      /\ Named(Db, entry[e].name) = {} /\ UNCHANGED misdirected
  BY DEF restore_password, InTrash, open_entry, active_entry_exists
<1>3. /\ row \in EntryModel /\ row.name = entry[e].name /\ row.deleted = Active
      /\ row.damaged = entry[e].damaged /\ row.files = entry[e].files
  BY <1>1, <1>2 DEF EntryModel, Active
<1>4. [Db EXCEPT !.entry[e].deleted = Active] = Put(Db, e, row)
  BY <1>1 DEF Put, Database
<1> HIDE DEF row
<1>5. row.damaged = "file" => row.files > 0
  BY <1>1, <1>2, <1>3 DEF Sound
<1>6. \A f \in Id : IsActive(Db, f) => entry[f].name # row.name
  BY <1>1, <1>2, <1>3 DEF Named
<1>7. row.deleted <= clock /\ misdirected' \in BOOLEAN
  BY <1>1, <1>2, <1>3 DEF Active, IInv
<1>8. QED
  BY <1>2, <1>3, <1>4, <1>5, <1>6, <1>7, PutIInv

LEMMA PurgeIInv ==
  ASSUME IInv, NEW u \in Person, NEW e \in Id, purge_password(u, e)
  PROVE  IInv'
<1> DEFINE t == Removed(Db, e)
<1>1. Change(t) /\ misdirected' \in BOOLEAN
  BY DEF purge_password, IInv
<1>2. Sound(t) /\ Dated(t)
  BY RemovedSound, DbFields
<1> HIDE DEF t
<1>3. QED
  BY <1>1, <1>2, ChangeIInv

\* The attachments of an entry are fewer or more.
LEMMA FilesIInv ==
  ASSUME IInv, NEW e \in Id, Exists(Db, e), NEW k \in Nat,
         NEW left \in {"no", "document", "file"}, left = "file" => k > 0,
         Change([Db EXCEPT !.entry[e].files = k, !.entry[e].damaged = left]),
         misdirected' \in BOOLEAN
  PROVE  IInv'
<1> DEFINE row == [entry[e] EXCEPT !.files = k, !.damaged = left]
<1>1. /\ Sound(Db) /\ Db \in Database /\ Db.entry = entry /\ clock \in Nat
      /\ entry \in [Id -> EntryModel \union {NoEntry}]
      /\ entry[e] \in EntryModel /\ entry[e].deleted <= clock
  BY DbFields
<1>2. /\ row \in EntryModel /\ row.name = entry[e].name
      /\ row.deleted = entry[e].deleted /\ row.damaged = left /\ row.files = k
  BY <1>1 DEF EntryModel
<1>3. [Db EXCEPT !.entry[e].files = k, !.entry[e].damaged = left] = Put(Db, e, row)
  BY <1>1 DEF Put, Database
<1> HIDE DEF row
<1>4. \A f \in Id : f # e /\ IsActive(Db, f) /\ row.deleted = Active =>
                      entry[f].name # row.name
  BY <1>1, <1>2 DEF Sound, Distinct, IsActive
<1>5. QED
  BY <1>1, <1>2, <1>3, <1>4, PutIInv

LEMMA AttachmentIInv ==
  ASSUME IInv, NEW u \in Person, NEW e \in Id,
         add_attachment(u, e) \/ delete_attachment(u, e) \/ remove_damaged(u, e)
  PROVE  IInv'
<1>1. /\ Sound(Db) /\ Db \in Database /\ Db.entry = entry
      /\ entry \in [Id -> EntryModel \union {NoEntry}]
      /\ Exists(Db, e) => entry[e] \in EntryModel
  BY DbFields
<1>2. misdirected' \in BOOLEAN
  BY DEF add_attachment, delete_attachment, remove_damaged, IInv
<1>3. Exists(Db, e)
  BY DEF add_attachment, delete_attachment, remove_damaged, find_entry, IsActive
<1>4. /\ entry[e].files \in Nat /\ entry[e].damaged \in {"no", "document", "file"}
      /\ entry[e].damaged = "file" => entry[e].files > 0
  BY <1>1, <1>3 DEF EntryModel, Sound
<1>5. CASE add_attachment(u, e)
  <2>1. Change([Db EXCEPT !.entry[e].files = @ + 1])
    BY <1>5 DEF add_attachment
  <2>2. [Db EXCEPT !.entry[e].files = @ + 1] =
          [Db EXCEPT !.entry[e].files = entry[e].files + 1,
                     !.entry[e].damaged = entry[e].damaged]
    BY <1>1, <1>3 DEF EntryModel, Database
  <2>3. entry[e].files + 1 \in Nat /\ entry[e].files + 1 > 0
    BY <1>4
  <2>4. QED
    BY <1>2, <1>3, <1>4, <2>1, <2>2, <2>3, FilesIInv
<1>6. CASE delete_attachment(u, e)
  <2>1. PICK left \in {"no", entry[e].damaged} :
          /\ left = "no" \/ entry[e].files > 1
          /\ Change([Db EXCEPT !.entry[e].files = @ - 1, !.entry[e].damaged = left])
    BY <1>6 DEF delete_attachment
  <2>2. [Db EXCEPT !.entry[e].files = @ - 1, !.entry[e].damaged = left] =
          [Db EXCEPT !.entry[e].files = entry[e].files - 1, !.entry[e].damaged = left]
    BY <1>1
  <2>3. entry[e].files - 1 \in Nat /\ (left = "file" => entry[e].files - 1 > 0)
    BY <1>4, <1>6, <2>1 DEF delete_attachment
  <2>4. QED
    BY <1>2, <1>3, <1>4, <2>1, <2>2, <2>3, FilesIInv
<1>7. CASE remove_damaged(u, e)
  <2>1. CASE entry[e].damaged = "document"
    <3> DEFINE t == Removed(Db, e)
    <3>1. Change(t)
      BY <1>7, <2>1 DEF remove_damaged
    <3>2. Sound(t) /\ Dated(t)
      BY RemovedSound, DbFields
    <3> HIDE DEF t
    <3>3. QED
      BY <1>2, <3>1, <3>2, ChangeIInv
  <2>2. CASE entry[e].damaged # "document"
    <3>1. Change([Db EXCEPT !.entry[e].files = @ - 1, !.entry[e].damaged = "no"])
      BY <1>7, <2>2 DEF remove_damaged
    <3>2. [Db EXCEPT !.entry[e].files = @ - 1, !.entry[e].damaged = "no"] =
            [Db EXCEPT !.entry[e].files = entry[e].files - 1, !.entry[e].damaged = "no"]
      BY <1>1
    <3>3. entry[e].files - 1 \in Nat
      BY <1>4, <1>7, <2>2 DEF remove_damaged
    <3>4. QED
      BY <1>2, <1>3, <3>1, <3>2, <3>3, FilesIInv
  <2>3. QED
    BY <2>1, <2>2
<1>8. QED
  BY <1>5, <1>6, <1>7

LEMMA ToolIInv ==
  ASSUME IInv, NEW s \in Service, NEW e \in Id, NEW t \in Id, NEW n \in FullName,
         NEW v \in Value, update_entry(s, e, t, n, v) \/ delete_entry(s, e, t)
  PROVE  IInv'
<1>1. s \in Account /\ misdirected' \in BOOLEAN
  BY DEF Account, update_entry, delete_entry, IInv
<1>2. CASE update_entry(s, e, t, n, v)
  <2>1. Exists(Db, e) /\ update_password(s, t, n, v, entry[e].folder)
    BY <1>2 DEF update_entry, _by_id, open_entry
  <2>2. entry[e].folder \in FolderName \union {"none"}
    BY <2>1, DbFields DEF EntryModel
  <2>3. QED
    BY <1>1, <2>1, <2>2, UpdateIInv
<1>3. CASE delete_entry(s, e, t)
  BY <1>1, <1>3, DeleteIInv DEF delete_entry
<1>4. QED
  BY <1>2, <1>3

LEMMA CsvIInv ==
  ASSUME IInv, NEW u \in Person, NEW mode \in Mode, NEW names \in CsvFile,
         import_passwords_csv(u, mode, names)
  PROVE  IInv'
<1> DEFINE done == _store_import(Db, u, mode, names)
           t == Ticked(done.db)
<1>1. Fits("zip", names)
  BY VaultContentsAssumption DEF Fits
<1>2. Sound(Db)
  BY DEF IInv
<1>3. Right(done)
  BY <1>1, <1>2, ProgressIsRight DEF _store_import
<1>4. Change(t) /\ misdirected' \in BOOLEAN
  BY DEF import_passwords_csv, IInv
<1>5. Sound(t) /\ Dated(t)
  BY <1>3, TickedIs DEF Right
<1> HIDE DEF t
<1>6. QED
  BY <1>4, <1>5, ChangeIInv

LEMMA RotIInv ==
  ASSUME IInv, NEW e \in Id, Rot(e)
  PROVE  IInv'
<1>1. PICK part \in {"document"} \union IF entry[e].files > 0 THEN {"file"} ELSE {} :
        entry' = [entry EXCEPT ![e].damaged = part]
  BY DEF Rot
<1> DEFINE row == [entry[e] EXCEPT !.damaged = part]
           t == Put(Db, e, row)
<1>2. /\ Sound(Db) /\ Dated(Db) /\ Db \in Database /\ Db.entry = entry /\ Db.clock = clock
      /\ entry \in [Id -> EntryModel \union {NoEntry}]
      /\ Exists(Db, e) => entry[e] \in EntryModel /\ entry[e].deleted <= clock
  BY DbFields
<1>3. Exists(Db, e) /\ UNCHANGED <<made, clock, reach, session, file, job, misdirected>>
  BY DEF Rot
<1>4. /\ row \in EntryModel /\ row.name = entry[e].name /\ row.files = entry[e].files
      /\ row.deleted = entry[e].deleted /\ row.damaged = part
      /\ part = "file" => entry[e].files > 0
  BY <1>2, <1>3 DEF EntryModel
<1>5. Db' = t
  BY <1>1, <1>2, <1>3 DEF Db, Put
<1> HIDE DEF row
<1>6. t \in Database /\ \A f \in Id : t.entry[f] = IF f = e THEN row ELSE entry[f]
  BY <1>2, <1>4 DEF Put, Database
<1>7. \A f \in Id : f # e /\ IsActive(Db, f) /\ row.deleted = Active =>
                      entry[f].name # row.name
  BY <1>2, <1>3, <1>4 DEF Sound, Distinct, IsActive
<1>8. Sound(t) /\ Dated(t)
  BY <1>2, <1>3, <1>4, <1>7, PutSound
<1> HIDE DEF t
<1>9. Frames(t) <= Frames(Db) /\ Frames(t) \in Nat /\ Frames(Db) \in Nat
  <2> DEFINE S == {f \in Id : Exists(t, f)}
             T == {f \in Id : Exists(Db, f)}
  <2>1. \A f \in S : f \in T /\ t.entry[f].files = Db.entry[f].files
    BY <1>2, <1>3, <1>4, <1>6 DEF Exists
  <2>2. /\ \A f \in S : t.entry[f].files \in Nat
        /\ \A f \in T : Db.entry[f].files \in Nat
    BY <1>2, <1>6, RowFields
  <2>3. \A f \in S : f \in T /\ t.entry[f].files <= Db.entry[f].files
    BY <2>1, <2>2
  <2> HIDE DEF S, T
  <2>4. /\ FramesOf(t, S) <= FramesOf(Db, T)
        /\ FramesOf(t, S) \in Nat /\ FramesOf(Db, T) \in Nat
    BY <2>2, <2>3, FramesMonotone
  <2>5. QED
    BY <2>4 DEF Frames, S, T
<1>10. Frames(t) <= MaxFrames
  BY <1>9, VaultContentsAssumption DEF IInv
<1>11. JobFits'
  BY <1>3 DEF IInv, JobFits
<1>12. Sound(Db)' /\ Dated(Db)' /\ (Frames(Db) <= MaxFrames)'
  BY <1>5, <1>8, <1>10
<1>13. QED
  BY <1>3, <1>11, <1>12 DEF IInv

LEMMA ShareIInv ==
  ASSUME IInv, NEW e \in Id, NEW v \in Account, Share(e, v)
  PROVE  IInv'
<1> DEFINE t == [Db EXCEPT !.reach = reach']
<1>1. /\ Sound(Db) /\ Dated(Db) /\ Db \in Database /\ Db.reach = reach
      /\ reach \subseteq Id \X Account
  BY DbFields
<1>2. /\ Exists(Db, e) /\ UNCHANGED <<entry, made, clock, session, file, job, misdirected>>
      /\ reach' \in {reach \union {<<e, v>>}, reach \ {<<e, v>>}}
  BY DEF Share
<1>3. /\ t \in Database /\ t.entry = Db.entry /\ t.made = Db.made /\ t.clock = Db.clock
      /\ t.reach = reach'
  BY <1>1, <1>2 DEF Database
<1>4. Db' = t
  BY <1>2 DEF Db
<1> HIDE DEF t
<1>5. \A r \in reach' : r \in reach \/ r[1] = e
  BY <1>2
<1>6. Sound(t) /\ Dated(t)
  BY <1>1, <1>2, <1>3, <1>5 DEF Sound, Dated, Distinct, IsActive, Exists
<1>7. Frames(t) <= MaxFrames
  <2> DEFINE S == {f \in Id : Exists(t, f)}
             T == {f \in Id : Exists(Db, f)}
  <2>1. S = T /\ \A f \in T : Db.entry[f].files \in Nat
    BY <1>1, <1>3, RowFields DEF Exists
  <2>2. \A f \in S : f \in T /\ t.entry[f].files <= Db.entry[f].files
    BY <1>3, <2>1
  <2> HIDE DEF S, T
  <2>3. /\ FramesOf(t, S) <= FramesOf(Db, T)
        /\ FramesOf(t, S) \in Nat /\ FramesOf(Db, T) \in Nat
    BY <1>3, <2>1, <2>2, FramesMonotone
  <2>4. FramesOf(Db, T) <= MaxFrames
    BY DEF IInv, Frames, T
  <2>5. QED
    BY <2>3, <2>4, VaultContentsAssumption DEF Frames, S
<1>8. JobFits'
  BY <1>2 DEF IInv, JobFits
<1>9. Sound(Db)' /\ Dated(Db)' /\ (Frames(Db) <= MaxFrames)'
  BY <1>4, <1>6, <1>7
<1>10. QED
  BY <1>2, <1>8, <1>9 DEF IInv

\* No backup and no import is under way.
LEMMA NoJobFits == ASSUME job' = NoJob PROVE JobFits'
BY DEF JobFits, NoJob, Mode

LEMMA EndSessionIInv ==
  ASSUME IInv, NEW u \in Person, EndSession(u)
  PROVE  IInv'
<1>1. /\ UNCHANGED <<entry, made, clock, reach, file, job, misdirected>>
      /\ session' \subseteq Person
  BY DEF EndSession, IInv
<1>2. JobFits'
  BY <1>1 DEF JobFits, IInv
<1>3. QED
  BY <1>1, <1>2, SameVault DEF IInv

LEMMA AnsweredIInv ==
  ASSUME IInv, Answered
  PROVE  IInv'
<1>1. /\ UNCHANGED <<entry, made, clock, reach, session, file, misdirected>>
      /\ job' = NoJob
  BY DEF Answered
<1>2. JobFits'
  BY <1>1, NoJobFits
<1>3. QED
  BY <1>1, <1>2, SameVault DEF IInv

LEMMA StartBackupIInv ==
  ASSUME IInv, NEW u \in Person, StartBackup(u)
  PROVE  IInv'
<1>1. /\ UNCHANGED <<entry, made, clock, reach, session, file, misdirected>>
      /\ job' = [NoJob EXCEPT !.kind = "deriving", !.user = u, !.ids = Visible(u)]
  BY DEF StartBackup
<1>2. Visible(u) \subseteq Id
  BY DEF Visible
<1>3. JobFits'
  BY <1>1, <1>2 DEF JobFits, NoJob, Mode
<1>4. QED
  BY <1>1, <1>3, SameVault DEF IInv

LEMMA StartImportIInv ==
  ASSUME IInv, NEW u \in Person, NEW mode \in Mode, NEW kind, NEW rows,
         \/ kind = "zip" /\ rows \in CsvFile
         \/ kind = "restore" /\ rows = file
         \/ kind = "migration" /\ rows \in MigrationFile,
         StartImport(u, mode, kind, rows)
  PROVE  IInv'
<1>1. /\ UNCHANGED <<entry, made, clock, reach, session, file, misdirected>>
      /\ job' = [NoJob EXCEPT !.kind = kind, !.user = u, !.mode = mode, !.rows = rows]
  BY DEF StartImport
<1>2. /\ kind = "zip" => rows \in Seq(FullName)
      /\ kind = "restore" => rows \in Seq(FileRow)
      /\ kind = "migration" => rows \in Archive
  BY VaultContentsAssumption DEF IInv
<1>3. JobFits'
  BY <1>1, <1>2 DEF JobFits, NoJob
<1>4. QED
  BY <1>1, <1>3, SameVault DEF IInv

\* The ranks of a set of ids go from 1 to its size.
LEMMA InOrderIs ==
  ASSUME NEW S \in SUBSET Id
  PROVE  /\ Cardinality(S) \in Nat
         /\ \A i \in 1..Cardinality(S) : InOrder(S, i) \in S
         /\ \A e \in S : \E i \in 1..Cardinality(S) : InOrder(S, i) = e
<1> DEFINE Below(e) == {f \in S : f <= e}
           c == Cardinality(S)
           rank == [e \in S |-> Cardinality(Below(e))]
<1>1. IsFiniteSet(S) /\ S \subseteq Nat
  <2>1. IsFiniteSet(Id) /\ Id \subseteq Nat
    BY FS_Interval, VaultContentsAssumption DEF Id
  <2>2. QED
    BY <2>1, FS_Subset
<1>2. c \in Nat
  BY <1>1, FS_CardinalityType
<1>3. \A e \in S : IsFiniteSet(Below(e)) /\ Cardinality(Below(e)) \in 1..c
  <2> SUFFICES ASSUME NEW e \in S
               PROVE  IsFiniteSet(Below(e)) /\ Cardinality(Below(e)) \in 1..c
    OBVIOUS
  <2> DEFINE B == Below(e)
  <2>1. B \in SUBSET S /\ e \in B
    BY <1>1
  <2> HIDE DEF B
  <2>2. IsFiniteSet(B) /\ Cardinality(B) <= Cardinality(S)
    BY <1>1, <2>1, FS_Subset
  <2>3. Cardinality(B) \in Nat /\ Cardinality(B) # 0
    BY <2>1, <2>2, FS_CardinalityType, FS_EmptySet
  <2>4. QED
    BY <1>2, <2>2, <2>3 DEF B
<1>4. ASSUME NEW e \in S, NEW f \in S, e < f
      PROVE  Cardinality(Below(e)) # Cardinality(Below(f))
  <2> DEFINE B == Below(e)
             C == Below(f)
  <2>1. B \in SUBSET C /\ f \in C /\ f \notin B
    <3>1. e \in Nat /\ f \in Nat /\ \A x \in S : x \in Nat
      BY <1>1
    <3>2. \A x \in S : x <= e => x <= f
      BY <1>4, <3>1
    <3>3. f <= f /\ ~(f <= e)
      BY <1>4, <3>1
    <3>4. QED
      BY <3>2, <3>3
  <2>2. IsFiniteSet(C)
    BY <1>3
  <2> HIDE DEF B, C
  <2>3. Cardinality(C) = Cardinality(B) => C = B
    BY <2>1, <2>2, FS_Subset
  <2>4. QED
    BY <2>1, <2>3 DEF B, C
<1>5. \A e, f \in S : Cardinality(Below(e)) = Cardinality(Below(f)) => e = f
  <2> SUFFICES ASSUME NEW e \in S, NEW f \in S, e # f
               PROVE  Cardinality(Below(e)) # Cardinality(Below(f))
    OBVIOUS
  <2>1. e < f \/ f < e
    BY <1>1
  <2>2. QED
    BY <1>4, <2>1
<1>6. rank \in Injection(S, 1..c)
  BY <1>3, <1>5 DEF Injection, IsInjective
<1>7. IsFiniteSet(1..c) /\ Cardinality(1..c) = c
  BY <1>2, FS_Interval
<1>8. rank \in Surjection(S, 1..c)
  <2> DEFINE T == 1..c
  <2>1. rank \in Injection(S, T) /\ IsFiniteSet(T) /\ Cardinality(S) = Cardinality(T)
    BY <1>6, <1>7
  <2> HIDE DEF T, rank
  <2>2. rank \in Surjection(S, T)
    BY <2>1, FS_Injection
  <2>3. QED
    BY <2>2 DEF T
<1>9. \A i \in 1..c : \E e \in S : Cardinality(Below(e)) = i
  BY <1>8 DEF Surjection
<1>10. \A i : InOrder(S, i) = CHOOSE e \in S : Cardinality(Below(e)) = i
  BY DEF InOrder
<1>11. \A i \in 1..c : InOrder(S, i) \in S /\ Cardinality(Below(InOrder(S, i))) = i
  <2> SUFFICES ASSUME NEW i \in 1..c
               PROVE  InOrder(S, i) \in S /\ Cardinality(Below(InOrder(S, i))) = i
    OBVIOUS
  <2>1. \E e \in S : Cardinality(Below(e)) = i
    BY <1>9
  <2> HIDE DEF Below
  <2>2. QED
    BY <1>10, <2>1
<1> HIDE DEF Below
<1>12. ASSUME NEW e \in S PROVE \E i \in 1..c : InOrder(S, i) = e
  BY <1>3, <1>5, <1>11
<1>13. QED
  BY <1>2, <1>11, <1>12 DEF c

LEMMA WriteBackupIInv ==
  ASSUME IInv, WriteBackup
  PROVE  IInv'
<1> DEFINE ids == job.ids
           rows == [i \in 1..Cardinality(ids) |-> BackupEntry(InOrder(ids, i))]
<1>1. CASE Answered
  BY <1>1, AnsweredIInv
<1>2. CASE ~Answered
  <2>1. /\ job.kind = "deriving" /\ job' = [job EXCEPT !.kind = "written", !.rows = rows]
        /\ UNCHANGED <<entry, made, clock, reach, session, file, misdirected>>
        /\ \A e \in ids : Exists(Db, e)
    BY <1>2 DEF WriteBackup, create_backup
  <2>2. ids \in SUBSET Id /\ JobFits
    BY DEF IInv, JobFits
  <2>3. \A e \in ids : BackupEntry(e) \in FileRow
    <3> SUFFICES ASSUME NEW e \in ids PROVE BackupEntry(e) \in FileRow
      OBVIOUS
    <3>1. entry[e] \in EntryModel
      BY <2>1, <2>2, DbFields
    <3>2. QED
      BY <3>1 DEF BackupEntry, EntryModel, FileRow
  <2>4. Cardinality(ids) \in Nat /\ \A i \in 1..Cardinality(ids) : InOrder(ids, i) \in ids
    BY <2>2, InOrderIs
  <2>5. rows \in Seq(FileRow)
    BY <2>3, <2>4
  <2> HIDE DEF rows
  <2>6. JobFits'
    BY <2>1, <2>2, <2>5 DEF JobFits
  <2>7. QED
    BY <2>1, <2>6, SameVault DEF IInv
<1>3. QED
  BY <1>1, <1>2

LEMMA SendBackupIInv ==
  ASSUME IInv, SendBackup
  PROVE  IInv'
<1>1. CASE Answered
  BY <1>1, AnsweredIInv
<1>2. CASE ~Answered
  <2>1. /\ job.kind = "written" /\ file' = job.rows /\ job' = NoJob
        /\ UNCHANGED <<entry, made, clock, reach, session, misdirected>>
    BY <1>2 DEF SendBackup
  <2>2. JobFits' /\ file' \in Seq(FileRow)
    BY <2>1, NoJobFits DEF IInv, JobFits
  <2>3. QED
    BY <2>1, <2>2, SameVault DEF IInv
<1>3. QED
  BY <1>1, <1>2

\* What the import under way would do.
LEMMA ImportedIs ==
  ASSUME IInv, job.kind \in {"restore", "zip", "migration"}
  PROVE  /\ Right(Imported) /\ Keeps(Db, Imported.db, job.user)
         /\ job.user \in Person /\ job.mode \in Mode
<1> DEFINE u == job.user
           m == job.mode
           rows == job.rows
<1>1. Sound(Db) /\ u \in Person /\ m \in Mode
  BY DEF IInv, JobFits
<1>2. CASE job.kind = "restore"
  <2>1. Fits("restore", rows)
    BY <1>2 DEF IInv, JobFits, Fits
  <2>2. Imported = Progress("restore", Db, u, m, rows)[Len(rows)]
    BY <1>2 DEF Imported, _restore
  <2>3. Len(rows) \in Nat /\ Len(rows) \in 0..Len(rows)
    BY <1>1, <2>1, ProgressIsRight
  <2>4. QED
    BY <1>1, <2>1, <2>2, <2>3, ProgressIsRight
<1>3. CASE job.kind = "zip"
  <2>1. Fits("zip", rows)
    BY <1>3 DEF IInv, JobFits, Fits
  <2>2. Imported = Progress("zip", Db, u, m, rows)[Len(rows)]
    BY <1>3 DEF Imported, _store_import
  <2>3. Len(rows) \in Nat /\ Len(rows) \in 0..Len(rows)
    BY <1>1, <2>1, ProgressIsRight
  <2>4. QED
    BY <1>1, <2>1, <2>2, <2>3, ProgressIsRight
<1>4. CASE job.kind = "migration"
  <2> DEFINE items == rows.items
  <2>1. Fits("migration", items)
    BY <1>4 DEF IInv, JobFits, Fits, Archive, Item
  <2>2. \/ Imported = Refused(Begin(Db))
        \/ Imported = Progress("migration", Db, u, m, items)[Len(items)]
    BY <1>4 DEF Imported, _import_legacy_migration
  <2>3. Len(items) \in Nat /\ Len(items) \in 0..Len(items)
    BY <1>1, <2>1, ProgressIsRight
  <2>4. Right(Begin(Db)) /\ Begin(Db).db = Db
    BY <1>1, BeginIsRight
  <2>5. Right(Refused(Begin(Db))) /\ Keeps(Db, Refused(Begin(Db)).db, u)
    BY <2>4, RefusedIsRight DEF Advances
  <2>6. QED
    BY <1>1, <2>1, <2>2, <2>3, <2>5, ProgressIsRight
<1>5. QED
  BY <1>2, <1>3, <1>4

LEMMA ImportIInv ==
  ASSUME IInv, import_backup
  PROVE  IInv'
<1>1. job.kind \in {"restore", "zip", "migration"}
  BY DEF import_backup
<1>2. Right(Imported)
  BY <1>1, ImportedIs
<1>3. CASE Answered
  BY <1>3, AnsweredIInv
<1>4. CASE ~Answered
  <2> DEFINE t == Ticked(Imported.db)
  <2>1. Commit(t) /\ job' = NoJob /\ UNCHANGED <<session, file, changes, misdirected>>
    BY <1>4 DEF import_backup
  <2>2. Sound(t) /\ Dated(t)
    BY <1>2, TickedIs DEF Right
  <2> HIDE DEF t
  <2>3. Db' = t /\ Frames(t) <= MaxFrames
    BY <2>1, <2>2, CommitIs DEF Sound
  <2>4. Sound(Db)' /\ Dated(Db)' /\ (Frames(Db) <= MaxFrames)'
    BY <2>2, <2>3
  <2>5. JobFits'
    BY <2>1, NoJobFits
  <2>6. QED
    BY <2>1, <2>4, <2>5 DEF IInv
<1>5. QED
  BY <1>3, <1>4

LEMMA NextIInv ==
  ASSUME IInv, [Next]_vars
  PROVE  IInv'
<1>1. CASE EntryRoutes
  <2>1. PICK u \in Person, e \in Id, n \in {Typed(m) : m \in Name}, v \in Value,
             fo \in FolderName \union {"none"} :
          \/ create_password(u, n, v, fo)
          \/ update_password(u, e, n, v, fo) /\ UNCHANGED misdirected
          \/ delete_password(u, e) /\ UNCHANGED misdirected
          \/ restore_password(u, e)
          \/ purge_password(u, e)
    BY <1>1 DEF EntryRoutes
  <2>2. u \in Account /\ n \in FullName /\ misdirected \in BOOLEAN
    BY TypedIs DEF Account, IInv
  <2>3. CASE create_password(u, n, v, fo)
    BY <2>2, <2>3, CreateIInv
  <2>4. CASE update_password(u, e, n, v, fo) /\ UNCHANGED misdirected
    BY <2>2, <2>4, UpdateIInv
  <2>5. CASE delete_password(u, e) /\ UNCHANGED misdirected
    BY <2>2, <2>5, DeleteIInv
  <2>6. CASE restore_password(u, e)
    BY <2>6, RestoreIInv
  <2>7. CASE purge_password(u, e)
    BY <2>7, PurgeIInv
  <2>8. QED
    BY <2>1, <2>3, <2>4, <2>5, <2>6, <2>7
<1>2. CASE AttachmentRoutes
  BY <1>2, AttachmentIInv DEF AttachmentRoutes
<1>3. CASE McpTools
  <2>1. PICK s \in Service, e \in Id, t \in Id, n \in {Typed(m) : m \in Name}, v \in Value :
          \/ create_password(s, n, v, "none")
          \/ update_entry(s, e, t, n, v)
          \/ delete_entry(s, e, t)
    BY <1>3 DEF McpTools
  <2>2. s \in Account /\ n \in FullName
    BY TypedIs DEF Account
  <2>3. CASE create_password(s, n, v, "none")
    BY <2>2, <2>3, CreateIInv
  <2>4. CASE update_entry(s, e, t, n, v) \/ delete_entry(s, e, t)
    BY <2>2, <2>4, ToolIInv
  <2>5. QED
    BY <2>1, <2>3, <2>4
<1>4. CASE Environment
  BY <1>4, RotIInv, ShareIInv, EndSessionIInv DEF Environment
<1>5. CASE Backups
  BY <1>5, StartBackupIInv, WriteBackupIInv, SendBackupIInv DEF Backups
<1>6. CASE Imports
  <2>1. CASE import_backup
    BY <2>1, ImportIInv
  <2>2. ASSUME NEW u \in Person, NEW mode \in Mode, NEW names \in CsvFile,
               import_passwords_csv(u, mode, names)
        PROVE  IInv'
    BY <2>2, CsvIInv
  <2>3. ASSUME NEW u \in Person, NEW mode \in Mode,
               \/ \E names \in CsvFile : StartImport(u, mode, "zip", names)
               \/ StartImport(u, mode, "restore", file)
               \/ \E a \in MigrationFile : StartImport(u, mode, "migration", a)
        PROVE  IInv'
    BY <2>3, StartImportIInv
  <2>4. QED
    BY <1>6, <2>1, <2>2, <2>3 DEF Imports
<1>7. CASE UNCHANGED vars
  <2>1. UNCHANGED <<entry, made, clock, reach, session, file, job, misdirected>>
    BY <1>7 DEF vars
  <2>2. JobFits'
    BY <2>1 DEF JobFits, IInv
  <2>3. QED
    BY <2>1, <2>2, SameVault DEF IInv
<1>8. QED
  BY <1>1, <1>2, <1>3, <1>4, <1>5, <1>6, <1>7 DEF Next

\* One or two entries at first.
LEMMA FirstRowsAre ==
  ASSUME NEW names \in SUBSET Name, NEW row \in FirstRows(names), row # NoEntry
  PROVE  /\ row \in EntryModel /\ row.deleted <= 1 /\ row.damaged = "no"
         /\ row.files = 0
<1>1. PICK u \in Person, n \in names, v \in Value, t \in {Active, 1} :
        row = [NewRow(u, Typed(n), v, "none") EXCEPT !.deleted = t]
  BY DEF FirstRows
<1> DEFINE new == NewRow(u, Typed(n), v, "none")
<1>2. Typed(n) \in FullName
  BY TypedIs
<1>3. new \in EntryModel /\ new.damaged = "no" /\ new.files = 0
  BY <1>2, NewRowIs DEF Content
<1> HIDE DEF new
<1>4. row = [new EXCEPT !.deleted = t] /\ t \in {0, 1}
  BY <1>1 DEF new, Active
<1>5. QED
  BY <1>3, <1>4 DEF EntryModel

LEMMA InitIInv ==
  ASSUME Init
  PROVE  IInv
<1>1. PICK a \in FirstRows({CHOOSE n \in Name : TRUE}) \ {NoEntry}, b \in FirstRows(Name) :
        entry = [e \in Id |-> IF e = 1 THEN a ELSE IF e = 2 THEN b ELSE NoEntry]
  BY DEF Init
<1>2. /\ made = 2 /\ clock = 1 /\ reach = {} /\ session = Person
      /\ file \in OtherFile \union {NoFile} /\ job = NoJob /\ misdirected = FALSE
      /\ \A e, f \in Id : (e # f /\ IsActive(Db, e) /\ IsActive(Db, f)) =>
                            entry[e].name # entry[f].name
  BY DEF Init
<1>3. MaxIds \in Nat /\ 2 <= MaxIds /\ MaxFrames \in Nat /\ 3 <= MaxFrames
  BY VaultContentsAssumption
<1>4. /\ a \in EntryModel /\ a.deleted <= 1 /\ a.damaged = "no" /\ a.files = 0
      /\ b # NoEntry => /\ b \in EntryModel /\ b.deleted <= 1 /\ b.damaged = "no"
                        /\ b.files = 0
  <2>1. {CHOOSE n \in Name : TRUE} \in SUBSET Name
    BY VaultContentsAssumption
  <2>2. QED
    BY <2>1, FirstRowsAre
<1>5. /\ Db.entry = entry /\ Db.made = made /\ Db.clock = clock /\ Db.reach = reach
  BY DEF Db
<1>6. Db \in Database
  <2>1. entry \in [Id -> EntryModel \union {NoEntry}]
    BY <1>1, <1>4
  <2>2. made \in 0..MaxIds /\ clock \in Nat /\ reach \in SUBSET (Id \X Account)
    BY <1>2, <1>3
  <2>3. QED
    BY <2>1, <2>2 DEF Db, Database
<1>7. \A e \in Id : Exists(Db, e) =>
        e \in {1, 2} /\ entry[e].deleted <= 1 /\ entry[e].damaged = "no" /\ entry[e].files = 0
  BY <1>1, <1>4, <1>5 DEF Exists
<1>8. Sound(Db)
  <2>1. Distinct(Db)
    BY <1>2, <1>5 DEF Distinct
  <2>2. \A e \in Id : Exists(Db, e) =>
          e <= Db.made /\ (Db.entry[e].damaged = "file" => Db.entry[e].files > 0)
    BY <1>2, <1>5, <1>7
  <2>3. QED
    BY <1>2, <1>5, <1>6, <2>1, <2>2 DEF Sound
<1>9. Dated(Db)
  BY <1>2, <1>5, <1>7 DEF Dated
<1>10. Frames(Db) <= MaxFrames
  <2> DEFINE S == {e \in Id : Exists(Db, e)}
  <2>1. PICK g : Sums(g, MaxIds, Db, S) /\ FramesOf(Db, S) = g[MaxIds]
    BY FramesSum
  <2>2. \A e \in S : e \in {1, 2} /\ Db.entry[e].files = 0
    BY <1>5, <1>7
  <2> HIDE DEF S
  <2> DEFINE U == {i \in Nat : g[i] \in Nat /\ g[i] <= 3 /\ g[i] <= i + 1}
  <2>3. 0 \in U
    BY <1>3, <2>1 DEF Sums
  <2>4. ASSUME NEW i \in 1..MaxIds, i - 1 \in U PROVE i \in U
    <3>1. g[i] = g[i - 1] + IF i \in S THEN 1 + Db.entry[i].files ELSE 0
      BY <1>3, <2>1 DEF Sums
    <3>2. QED
      BY <2>2, <2>4, <3>1
  <2> HIDE DEF U
  <2>5. MaxIds \in U
    BY <1>3, <2>3, <2>4, Induct
  <2>6. FramesOf(Db, S) <= MaxFrames
    BY <1>3, <2>1, <2>5 DEF U
  <2>7. QED
    BY <2>6 DEF Frames, S
<1>11. file \in Seq(FileRow)
  <2>1. NoFile \in Seq(FileRow)
    BY DEF NoFile
  <2>2. QED
    BY <1>2, <2>1, VaultContentsAssumption
<1>12. JobFits
  BY <1>2 DEF JobFits, NoJob, Mode
<1>13. QED
  BY <1>2, <1>8, <1>9, <1>10, <1>11, <1>12 DEF IInv

\* The rows and the work under way stay as IInv says, whatever happens.
THEOREM Invariance == Spec => []IInv
<1>1. Init => IInv
  BY InitIInv
<1>2. IInv /\ [Next]_vars => IInv'
  BY NextIInv
<1>3. QED
  BY <1>1, <1>2, PTL DEF Spec

\* The tables obey the schema after every request and every import: types,
\* references, and unique names among the active entries.
THEOREM TablesTheorem == Spec => []TablesAreSound
<1>1. ASSUME IInv PROVE TablesAreSound
  <2>1. /\ Sound(Db) /\ Dated(Db) /\ Db \in Database
        /\ Db.entry = entry /\ Db.made = made /\ Db.clock = clock /\ Db.reach = reach
        /\ reach \subseteq Id \X Account /\ clock \in Nat
        /\ \A e \in Id : Exists(Db, e) => entry[e] \in EntryModel /\ entry[e].deleted <= clock
    BY <1>1, DbFields
  <2>2. ActiveNamesAreUnique
    BY <2>1 DEF Sound, Distinct, ActiveNamesAreUnique
  <2>3. made \in 0..MaxIds
    BY <2>1 DEF Database
  <2>4. ASSUME NEW e \in Id, Exists(Db, e)
        PROVE  /\ e <= made /\ entry[e].owner \in Person
               /\ entry[e].deleted \in 0..clock
               /\ entry[e].folder \in FolderName \union {"none"}
               /\ entry[e].damaged \in {"no", "document", "file"}
               /\ entry[e].damaged = "file" => entry[e].files > 0
    <3>1. entry[e] \in EntryModel /\ entry[e].deleted <= clock
      BY <2>1, <2>4
    <3>2. e <= made /\ (entry[e].damaged = "file" => entry[e].files > 0)
      BY <2>1, <2>4 DEF Sound
    <3>3. entry[e].deleted \in 0..clock
      BY <2>1, <3>1 DEF EntryModel
    <3>4. QED
      BY <3>1, <3>2, <3>3 DEF EntryModel
  <2>5. \A r \in reach : Exists(Db, r[1]) /\ r[2] \in Account
    BY <2>1 DEF Sound
  <2>6. TypeOK
    BY <1>1, <2>3, <2>4, <2>5 DEF TypeOK, IInv
  <2>7. QED
    BY <2>2, <2>6 DEF TablesAreSound
<1>2. QED
  BY <1>1, Invariance, PTL

\* Whatever a commit let in, every person's export stays within the frames a
\* backup may have.
THEOREM ExportFitsTheorem == Spec => []ExportAlwaysFits
<1>1. ASSUME IInv PROVE ExportAlwaysFits
  <2> SUFFICES ASSUME NEW u \in Person PROVE FramesOf(Db, Visible(u)) <= MaxFrames
    BY DEF ExportAlwaysFits
  <2> DEFINE S == Visible(u)
             T == {e \in Id : Exists(Db, e)}
  <2>1. \A e \in S : e \in T
    BY DEF Visible
  <2>2. \A e \in T : Db.entry[e].files \in Nat
    BY <1>1, DbFields, RowFields
  <2>3. FramesOf(Db, T) <= MaxFrames
    BY <1>1 DEF IInv, Frames
  <2> HIDE DEF S, T
  <2>4. \A e \in S : e \in T /\ Db.entry[e].files <= Db.entry[e].files
    BY <2>1, <2>2
  <2>5. \A e \in S : Db.entry[e].files \in Nat
    BY <2>1, <2>2
  <2>6. /\ FramesOf(Db, S) <= FramesOf(Db, T)
        /\ FramesOf(Db, S) \in Nat /\ FramesOf(Db, T) \in Nat
    BY <2>2, <2>4, <2>5, FramesMonotone
  <2>7. QED
    BY <2>3, <2>6, VaultContentsAssumption DEF S
<1>2. QED
  BY <1>1, Invariance, PTL

\* Only a step of a backup or an import starts or ends one.
LEMMA OnlyJobs ==
  ASSUME [Next]_vars, job' # job
  PROVE  \/ Backups \/ import_backup
         \/ \E u, mode, kind, rows : StartImport(u, mode, kind, rows)
<1>1. \A d : ~Change(d)
  BY DEF Change
<1>2. \A u, n, v, fo : ~create_password(u, n, v, fo)
  BY <1>1 DEF create_password
<1>3. \A u, e, n, v, fo : ~update_password(u, e, n, v, fo)
  BY <1>1 DEF update_password
<1>4. \A u, e : ~delete_password(u, e)
  BY <1>1 DEF delete_password
<1>5. \A u, e : ~restore_password(u, e) /\ ~purge_password(u, e)
  BY <1>1 DEF restore_password, purge_password
<1>6. ~EntryRoutes
  BY <1>2, <1>3, <1>4, <1>5 DEF EntryRoutes
<1>7. ~AttachmentRoutes
  BY <1>1 DEF AttachmentRoutes, add_attachment, delete_attachment, remove_damaged
<1>8. ~McpTools
  BY <1>2, <1>3, <1>4 DEF McpTools, update_entry, delete_entry
<1>9. ~Environment
  BY DEF Environment, Rot, Share, EndSession
<1>10. \A u, mode, names : ~import_passwords_csv(u, mode, names)
  BY <1>1 DEF import_passwords_csv
<1>11. CASE Imports
  BY <1>10, <1>11 DEF Imports
<1>12. QED
  BY <1>6, <1>7, <1>8, <1>9, <1>11 DEF Next, vars

\* A step that ends an import, by its job.
LEMMA ImportEnds ==
  ASSUME IInv, [Next]_vars, job.kind \in {"restore", "zip", "migration"}, job' = NoJob
  PROVE  \/ Db' = Db
         \/ Imported.ok /\ Db' = Ticked(Imported.db)
<1>1. job # NoJob /\ job' # job
  BY DEF NoJob
<1>2. import_backup
  BY <1>1, OnlyJobs DEF Backups, StartBackup, WriteBackup, SendBackup, StartImport
<1>3. CASE Answered
  BY <1>3 DEF Answered, Db
<1>4. CASE ~Answered
  <2> DEFINE t == Ticked(Imported.db)
  <2>1. Commit(t) /\ Imported.ok
    BY <1>2, <1>4 DEF import_backup
  <2>2. Right(Imported)
    BY ImportedIs
  <2>3. t \in Database
    BY <2>2, TickedIs DEF Right, Sound
  <2> HIDE DEF t
  <2>4. Db' = t
    BY <2>1, <2>3, CommitIs
  <2>5. QED
    BY <2>1, <2>4 DEF t
<1>5. QED
  BY <1>3, <1>4

\* An import never destroys anything: what was there is there with what it
\* held, or in the trash since that moment and the importer's own.
THEOREM ImportsTheorem == Spec => ImportsDestroyNothing
<1>1. ASSUME IInv, [Next]_vars, job.kind \in {"restore", "zip", "migration"}, job' = NoJob,
             NEW e \in Id, Exists(Db, e)
      PROVE  \/ entry'[e] = entry[e]
             \/ /\ entry[e].deleted = Active /\ entry[e].owner = job.user
                /\ entry'[e] = [entry[e] EXCEPT !.deleted = clock + 1]
  <2>1. Db' = Db \/ Db' = Ticked(Imported.db)
    BY <1>1, ImportEnds
  <2>2. Right(Imported) /\ Keeps(Db, Imported.db, job.user)
    BY <1>1, ImportedIs
  <2>3. Ticked(Imported.db).entry = Imported.db.entry
    BY <2>2, TickedIs DEF Right
  <2>4. entry' = entry \/ entry' = Imported.db.entry
    <3>1. Db'.entry = entry' /\ Db.entry = entry
      BY DEF Db
    <3>2. QED
      BY <2>1, <2>3, <3>1
  <2>5. Db.entry = entry /\ Db.clock = clock
    BY DEF Db
  <2>6. CASE entry' = entry
    BY <2>6
  <2>7. CASE entry' = Imported.db.entry
    BY <1>1, <2>2, <2>5, <2>7 DEF Keeps
  <2>8. QED
    BY <2>4, <2>6, <2>7
<1>2. IInv /\ [Next]_vars =>
        [job.kind \in {"restore", "zip", "migration"} /\ job' = NoJob =>
           \A e \in Id : Exists(Db, e) =>
             \/ entry'[e] = entry[e]
             \/ /\ entry[e].deleted = Active /\ entry[e].owner = job.user
                /\ entry'[e] = [entry[e] EXCEPT !.deleted = clock + 1]]_vars
  BY <1>1
<1>3. QED
  BY <1>2, Invariance, PTL DEF Spec, ImportsDestroyNothing

\* A backup that is handed out leaves nothing out of what its account could
\* see when it asked.
THEOREM ExportTheorem == Spec => ExportLeavesNothingOut
<1>1. ASSUME IInv, [Next]_vars, job'.kind = "written", job.kind = "deriving"
      PROVE  /\ Len(job'.rows) = Cardinality(job.ids)
             /\ \A e \in job.ids : Exists(Db, e) /\ entry[e].damaged = "no"
                  /\ \E i \in DOMAIN job'.rows : job'.rows[i] = BackupEntry(e)
  <2> DEFINE ids == job.ids
             rows == [i \in 1..Cardinality(ids) |-> BackupEntry(InOrder(ids, i))]
  <2>1. job # NoJob /\ job' # job /\ job' # NoJob
    BY <1>1 DEF NoJob
  <2>2. WriteBackup /\ ~Answered
    BY <1>1, <2>1, OnlyJobs
       DEF Backups, StartBackup, SendBackup, Answered, StartImport, import_backup
  <2>3. /\ job' = [job EXCEPT !.kind = "written", !.rows = rows]
        /\ \A e \in ids : Exists(Db, e) /\ entry[e].damaged = "no"
    BY <2>2 DEF WriteBackup, create_backup
  <2>4. ids \in SUBSET Id /\ JobFits
    BY <1>1 DEF IInv, JobFits
  <2>5. /\ Cardinality(ids) \in Nat
         /\ \A e \in ids : \E i \in 1..Cardinality(ids) : InOrder(ids, i) = e
    BY <2>4, InOrderIs
  <2>6. job'.rows = rows
    BY <2>3, <2>4 DEF JobFits
  <2>7. Len(rows) = Cardinality(ids) /\ DOMAIN rows = 1..Cardinality(ids)
    BY <2>5
  <2>8. ASSUME NEW e \in ids PROVE \E i \in DOMAIN rows : rows[i] = BackupEntry(e)
    <3>1. PICK i \in 1..Cardinality(ids) : InOrder(ids, i) = e
      BY <2>5
    <3>2. rows[i] = BackupEntry(e)
      BY <3>1
    <3>3. QED
      BY <2>7, <3>2
  <2> HIDE DEF rows
  <2>9. QED
    BY <2>3, <2>6, <2>7, <2>8
<1>2. IInv /\ [Next]_vars =>
        [job'.kind = "written" /\ job.kind = "deriving" =>
           /\ Len(job'.rows) = Cardinality(job.ids)
           /\ \A e \in job.ids : Exists(Db, e) /\ entry[e].damaged = "no"
                /\ \E i \in DOMAIN job'.rows : job'.rows[i] = BackupEntry(e)]_vars
  BY <1>1
<1>3. QED
  BY <1>2, Invariance, PTL DEF Spec, ExportLeavesNothingOut

-----------------------------------------------------------------------------
(***************************************************************************)
(* What a restore leaves behind.                                           *)
(***************************************************************************)
\* On the way from d to t a row is added, and old, if there is one, goes to
\* the trash.
Grows(d, t, row, old) ==
  /\ t.made = d.made + 1 /\ d.made + 1 \in Id /\ ~Exists(d, d.made + 1)
  /\ \A e \in Id : t.entry[e] = IF e = d.made + 1 THEN row
                                ELSE IF e = old THEN Gone(d, old) ELSE d.entry[e]

\* A row of a backup is in the vault already, for an import by u.
Settled(d, u, row) ==
  LET T == Twins(d, row)
  IN  T # {} /\ open_entry(d, Max(T)) /\ (row.deleted # Active => d.entry[Max(T)].owner = u)

\* One row of _restore() that is not refused.
LEMMA RestoreStep ==
  ASSUME NEW acc, Right(acc), NEW u \in Person, NEW mode \in Mode, NEW row \in FileRow,
         RestoreRow(u, mode, acc, row).ok
  PROVE  LET next == RestoreRow(u, mode, acc, row)
         IN  /\ acc.ok
             /\ row.deleted = Active =>
                  row.name \notin acc.seen /\ next.seen = acc.seen \union {row.name}
             /\ row.deleted # Active => next.seen = acc.seen
             /\ \/ /\ next.db = acc.db /\ Settled(acc.db, u, row)
                   /\ row.deleted = Active => mode = "skip"
                \/ Grows(acc.db, next.db, Restored(u, row), 0)
                \/ /\ mode = "overwrite" /\ row.deleted = Active
                   /\ \E old \in Named(acc.db, row.name) :
                        Grows(acc.db, next.db, Restored(u, row), old)
<1> DEFINE next == RestoreRow(u, mode, acc, row)
           active == row.deleted = Active
           a == IF active THEN Uses(acc, row.name) ELSE acc
           T == Twins(acc.db, row)
           old == Max(T)
           new == Restored(u, row)
<1>1. row.name \in FullName
  BY DEF FileRow
<1>2. /\ Right(a) /\ a.db = acc.db /\ a.ok = acc.ok /\ (active => row.name \in a.taken)
      /\ a.seen = IF active THEN acc.seen \union {row.name} ELSE acc.seen
  BY <1>1, UsesIsRight
<1>3. acc \in Carried /\ ~Refused(acc).ok /\ a \in Carried /\ ~Refused(a).ok
  <2>1. acc \in Carried /\ a \in Carried
    BY <1>2 DEF Right
  <2> HIDE DEF a
  <2>2. QED
    BY <2>1, CarriedFields
<1>4. /\ acc.ok /\ next = _restore_target(a, u, mode, row)
      /\ active => row.name \notin acc.seen
  BY <1>3 DEF RestoreRow
<1> HIDE DEF a, next
<1>5. \/ next = Refused(a)
      \/ /\ next = a /\ T # {} /\ open_entry(acc.db, old)
         /\ IF active THEN mode = "skip" ELSE acc.db.entry[old].owner = u
      \/ /\ next = Adds(a, new) /\ acc.db.made < MaxIds
         /\ T = {} \/ ~active
      \/ /\ next = Replaces(a, old, new) /\ acc.db.made < MaxIds
         /\ T # {} /\ active /\ mode = "overwrite"
  BY <1>2, <1>3, <1>4, TargetCases
<1>6. active => T = Named(acc.db, row.name)
  BY DEF Twins, Named, IsActive
<1>7. T # {} => old \in T
  <2> SUFFICES ASSUME T # {} PROVE old \in T
    OBVIOUS
  <2>1. T \in SUBSET Nat /\ MaxIds \in Nat /\ \A x \in T : x <= MaxIds
    BY VaultContentsAssumption DEF Twins, Id
  <2>2. QED
    BY <2>1, MaxIs
<1>8. /\ new \in EntryModel /\ new.name = row.name
      /\ new.deleted = row.deleted /\ new.damaged = "no"
  BY RestoredIs
<1> HIDE DEF T, old, new
<1>9. next # Refused(a)
  BY <1>3 DEF next
<1>10. CASE /\ next = a /\ T # {} /\ open_entry(acc.db, old)
            /\ IF active THEN mode = "skip" ELSE acc.db.entry[old].owner = u
  BY <1>2, <1>4, <1>10 DEF Settled, T, old, next
<1>11. CASE next = Adds(a, new) /\ acc.db.made < MaxIds /\ (T = {} \/ ~active)
  <2>1. new.deleted = Active => new.name \in a.taken /\ Named(a.db, new.name) = {}
    BY <1>2, <1>6, <1>8, <1>11
  <2>2. /\ next.seen = a.seen /\ next.db.made = acc.db.made + 1
        /\ acc.db.made + 1 \in Id /\ ~Exists(acc.db, acc.db.made + 1)
        /\ \A e \in Id : next.db.entry[e] = IF e = acc.db.made + 1 THEN new
                                            ELSE acc.db.entry[e]
    BY <1>2, <1>8, <1>11, <2>1, AddsIsRight
  <2>3. Grows(acc.db, next.db, new, 0)
    BY <2>2 DEF Grows, Id
  <2>4. QED
    BY <1>2, <1>4, <2>2, <2>3 DEF new, next
<1>12. CASE /\ next = Replaces(a, old, new) /\ acc.db.made < MaxIds
            /\ T # {} /\ active /\ mode = "overwrite"
  <2>1. new.deleted = Active /\ old \in Named(a.db, new.name)
    BY <1>2, <1>6, <1>7, <1>8, <1>12
  <2>2. /\ next.seen = a.seen /\ next.db.made = acc.db.made + 1
        /\ acc.db.made + 1 \in Id /\ ~Exists(acc.db, acc.db.made + 1)
        /\ \A e \in Id : next.db.entry[e] =
             IF e = acc.db.made + 1 THEN new
             ELSE IF e = old THEN Gone(acc.db, old) ELSE acc.db.entry[e]
    BY <1>2, <1>8, <1>12, <2>1, ReplacesIsRight
  <2>3. Grows(acc.db, next.db, new, old)
    BY <2>2 DEF Grows
  <2>4. old \in Named(acc.db, row.name)
    BY <1>2, <1>8, <2>1
  <2>5. QED
    BY <1>2, <1>4, <1>12, <2>2, <2>3, <2>4 DEF new, next
<1>13. QED
  BY <1>5, <1>9, <1>10, <1>11, <1>12

\* A row that is in the vault stays there while rows are added, and one that is
\* added is there from then on.
LEMMA SettledOn ==
  ASSUME NEW d, Sound(d), NEW t, Sound(t), NEW u \in Person,
         NEW row \in FileRow, NEW other \in FileRow,
         Grows(d, t, Restored(u, other), 0),
         Settled(d, u, row) \/ row = other
  PROVE  Settled(t, u, row)
<1> DEFINE new == d.made + 1
           R == Restored(u, other)
           T == Twins(t, row)
           same == other.name = row.name /\ other.deleted = row.deleted
<1>1. /\ R \in EntryModel /\ R.owner = u /\ R.name = other.name
      /\ R.deleted = other.deleted /\ R.damaged = "no" /\ R # NoEntry
  BY RestoredIs, NoRow
<1>2. /\ t.made = new /\ new \in Id /\ ~Exists(d, new) /\ Id \subseteq Nat
      /\ \A e \in Id : t.entry[e] = IF e = new THEN R ELSE d.entry[e]
  BY DEF Grows, Id
<1> HIDE DEF new, R
<1>3. CASE same
  <2>1. new \in T
    BY <1>1, <1>2, <1>3 DEF Twins, Exists
  <2>2. \A x \in T : x <= new
    BY <1>2 DEF Twins, Sound
  <2>3. T \in SUBSET Nat /\ T # {} /\ new \in Nat
    BY <1>2, <2>1 DEF Twins
  <2> HIDE DEF T
  <2>4. Max(T) \in T /\ \A x \in T : x <= Max(T)
    BY <2>2, <2>3, MaxIs
  <2>5. Max(T) = new
    <3>1. Max(T) \in Nat /\ Max(T) <= new /\ new <= Max(T)
      BY <2>1, <2>2, <2>3, <2>4
    <3>2. QED
      BY <2>3, <3>1
  <2>6. t.entry[new] = R
    BY <1>2
  <2>7. QED
    BY <1>1, <2>3, <2>5, <2>6 DEF Settled, T, open_entry, Exists
<1>4. CASE ~same
  <2>1. Settled(d, u, row)
    BY <1>4
  <2>2. \A e \in Id : e \in T <=> e \in Twins(d, row)
    BY <1>1, <1>2, <1>4 DEF Twins, Exists
  <2>3. T = Twins(d, row)
    BY <2>2 DEF Twins
  <2>4. Max(T) \in T
    <3>1. T \in SUBSET Nat /\ MaxIds \in Nat /\ (\A x \in T : x <= MaxIds) /\ T # {}
      BY <2>1, <2>3, VaultContentsAssumption DEF Twins, Id, Settled
    <3> HIDE DEF T
    <3>2. QED
      BY <3>1, MaxIs
  <2>5. t.entry[Max(T)] = d.entry[Max(T)]
    BY <1>2, <2>3, <2>4 DEF Twins
  <2>6. QED
    BY <2>1, <2>3, <2>5 DEF Settled, open_entry, Exists
<1>5. QED
  BY <1>3, <1>4

\* A row that is in the vault is skipped.
LEMMA SettledStep ==
  ASSUME NEW acc, Right(acc), acc.ok, NEW u \in Person, NEW row \in FileRow,
         Settled(acc.db, u, row), row.deleted = Active => row.name \notin acc.seen
  PROVE  LET next == RestoreRow(u, "skip", acc, row)
         IN  /\ next.ok /\ next.db = acc.db
             /\ next.seen = IF row.deleted = Active THEN acc.seen \union {row.name}
                            ELSE acc.seen
<1> DEFINE a == IF row.deleted = Active THEN Uses(acc, row.name) ELSE acc
<1>1. /\ a.db = acc.db /\ a.ok
      /\ a.seen = IF row.deleted = Active THEN acc.seen \union {row.name} ELSE acc.seen
  <2>1. row.name \in FullName
    BY DEF FileRow
  <2>2. QED
    BY <2>1, UsesIsRight
<1>2. RestoreRow(u, "skip", acc, row) = _restore_target(a, u, "skip", row)
  BY DEF RestoreRow
<1> HIDE DEF a
<1>3. Settled(a.db, u, row)
  BY <1>1
<1>4. _restore_target(a, u, "skip", row) = a
  BY <1>3 DEF _restore_target, Settled, Twins
<1>5. QED
  BY <1>1, <1>2, <1>4

\* What a restore was not refused for.
LEMMA RestoreSteps ==
  ASSUME NEW d, Sound(d), NEW u \in Person, NEW mode \in Mode, NEW rows \in Seq(FileRow),
         Progress("restore", d, u, mode, rows)[Len(rows)].ok
  PROVE  LET after == Progress("restore", d, u, mode, rows)
         IN  /\ Len(rows) \in Nat
             /\ after[0] = Begin(d)
             /\ \A i \in 0..Len(rows) : Right(after[i]) /\ Sound(after[i].db) /\ after[i].ok
             /\ \A i \in 1..Len(rows) :
                  LET row == rows[i]
                      acc == after[i - 1]
                      next == after[i]
                  IN  /\ row \in FileRow
                      /\ row.deleted = Active =>
                           row.name \notin acc.seen /\ next.seen = acc.seen \union {row.name}
                      /\ row.deleted # Active => next.seen = acc.seen
                      /\ \/ /\ next.db = acc.db /\ Settled(acc.db, u, row)
                            /\ row.deleted = Active => mode = "skip"
                         \/ Grows(acc.db, next.db, Restored(u, row), 0)
                         \/ /\ mode = "overwrite" /\ row.deleted = Active
                            /\ \E old \in Named(acc.db, row.name) :
                                 Grows(acc.db, next.db, Restored(u, row), old)
<1> DEFINE after == Progress("restore", d, u, mode, rows)
<1>1. Fits("restore", rows)
  BY DEF Fits
<1>2. /\ Len(rows) \in Nat
      /\ \A i \in 0..Len(rows) : Right(after[i])
      /\ after[0] = Begin(d)
      /\ \A i \in 1..Len(rows) :
           after[i] = ImportRow("restore", u, mode, after[i - 1], rows[i])
  BY <1>1, ProgressIsRight
<1>3. \A i \in 0..Len(rows) : after[i].ok
  BY <1>1, OkBefore
<1> HIDE DEF after
<1>4. ASSUME NEW i \in 1..Len(rows)
      PROVE  /\ Right(after[i - 1]) /\ rows[i] \in FileRow
             /\ after[i] = RestoreRow(u, mode, after[i - 1], rows[i]) /\ after[i].ok
  <2>1. i - 1 \in 0..Len(rows) /\ i \in 0..Len(rows)
    BY <1>2
  <2>2. QED
    BY <1>2, <1>3, <2>1 DEF ImportRow
<1>5. \A i \in 0..Len(rows) : Sound(after[i].db)
  BY <1>2 DEF Right
<1>6. ASSUME NEW i \in 1..Len(rows)
      PROVE  LET row == rows[i]
                 acc == after[i - 1]
                 next == after[i]
             IN  /\ row \in FileRow
                 /\ row.deleted = Active =>
                      row.name \notin acc.seen /\ next.seen = acc.seen \union {row.name}
                 /\ row.deleted # Active => next.seen = acc.seen
                 /\ \/ /\ next.db = acc.db /\ Settled(acc.db, u, row)
                       /\ row.deleted = Active => mode = "skip"
                    \/ Grows(acc.db, next.db, Restored(u, row), 0)
                    \/ /\ mode = "overwrite" /\ row.deleted = Active
                       /\ \E old \in Named(acc.db, row.name) :
                            Grows(acc.db, next.db, Restored(u, row), old)
  BY <1>4, RestoreStep
<1>7. QED
  BY <1>2, <1>3, <1>5, <1>6 DEF after

\* A backup that was restored, keeping what is there, changes nothing when it is
\* restored again.
LEMMA RestoredTwice ==
  ASSUME NEW d, Sound(d), NEW u \in Person, NEW rows \in Seq(FileRow),
         _restore(d, u, "skip", rows).ok
  PROVE  LET once == _restore(d, u, "skip", rows)
             twice == _restore(once.db, u, "skip", rows)
         IN  twice.ok /\ twice.db = once.db
<1> DEFINE after == Progress("restore", d, u, "skip", rows)
           len == Len(rows)
           D == after[len].db
           again == Progress("restore", D, u, "skip", rows)
           S == {k \in 0..len : \A i \in 1..k : Settled(after[k].db, u, rows[i])}
           A == {k \in 0..len : /\ again[k].db = D /\ again[k].ok
                                /\ again[k].seen = after[k].seen}
<1>1. "skip" \in Mode /\ "skip" # "overwrite"
  BY DEF Mode
<1>2. after[len].ok
  BY DEF _restore
<1>3. /\ len \in Nat
      /\ after[0] = Begin(d)
      /\ \A i \in 0..len : Right(after[i]) /\ Sound(after[i].db)
      /\ \A i \in 1..len :
           LET row == rows[i]
               acc == after[i - 1]
               next == after[i]
           IN  /\ row \in FileRow
               /\ row.deleted = Active =>
                    row.name \notin acc.seen /\ next.seen = acc.seen \union {row.name}
               /\ row.deleted # Active => next.seen = acc.seen
               /\ \/ next.db = acc.db /\ Settled(acc.db, u, row)
                  \/ Grows(acc.db, next.db, Restored(u, row), 0)
  BY <1>1, <1>2, RestoreSteps
<1>4. Fits("restore", rows)
  BY DEF Fits
<1>5. Sound(D)
  BY <1>3
<1> HIDE DEF D
<1>6. /\ again[0] = Begin(D)
      /\ \A i \in 0..len : Right(again[i])
      /\ \A i \in 1..len : again[i] = RestoreRow(u, "skip", again[i - 1], rows[i])
  BY <1>1, <1>4, <1>5, ProgressIsRight DEF ImportRow
<1> HIDE DEF after, len, again
<1>7. 0 \in S
  BY <1>3
<1>8. ASSUME NEW k \in 1..len, k - 1 \in S PROVE k \in S
  <2> SUFFICES ASSUME NEW i \in 1..k PROVE Settled(after[k].db, u, rows[i])
    BY <1>3
  <2>1. k - 1 \in 0..len /\ k \in 0..len /\ i \in 1..len
    BY <1>3
  <2>2. Settled(after[k - 1].db, u, rows[i]) \/ i = k
    <3>1. i = k \/ i \in 1..(k - 1)
      BY <1>3
    <3>2. QED
      BY <1>8, <3>1
  <2>3. rows[i] \in FileRow /\ rows[k] \in FileRow
    BY <1>3, <2>1
  <2>4. CASE after[k].db = after[k - 1].db /\ Settled(after[k - 1].db, u, rows[k])
    BY <2>2, <2>4
  <2>5. CASE Grows(after[k - 1].db, after[k].db, Restored(u, rows[k]), 0)
    <3>1. Sound(after[k - 1].db) /\ Sound(after[k].db)
      BY <1>3, <2>1
    <3>2. Settled(after[k - 1].db, u, rows[i]) \/ rows[i] = rows[k]
      BY <2>2
    <3>3. QED
      BY <2>3, <2>5, <3>1, <3>2, SettledOn
  <2>6. QED
    BY <1>3, <2>4, <2>5
<1> HIDE DEF S
<1>9. len \in S
  <2>1. len \in Nat /\ len \in 0..len
    BY <1>3
  <2>2. \A k \in 0..len : k \in S
    BY <1>7, <1>8, <2>1, Induct
  <2>3. QED
    BY <2>1, <2>2
<1>10. \A i \in 1..len : Settled(D, u, rows[i])
  BY <1>9 DEF S, D
<1>11. 0 \in A
  <2>1. Begin(d).seen = {} /\ Begin(D).seen = {} /\ Begin(D).db = D /\ Begin(D).ok
    BY <1>5, BeginIsRight
  <2>2. 0 \in 0..len /\ after[0] = Begin(d) /\ again[0] = Begin(D)
    BY <1>3, <1>6
  <2>3. QED
    BY <2>1, <2>2
<1>12. ASSUME NEW k \in 1..len, k - 1 \in A PROVE k \in A
  <2> DEFINE acc == again[k - 1]
             row == rows[k]
             next == again[k]
  <2>1. k - 1 \in 0..len /\ k \in 0..len
    BY <1>3
  <2>2. Right(acc) /\ acc.ok /\ acc.db = D /\ acc.seen = after[k - 1].seen
    BY <1>6, <1>12, <2>1
  <2>3. Settled(acc.db, u, row) /\ row \in FileRow
    BY <1>3, <1>10, <2>2
  <2>4. row.deleted = Active => row.name \notin acc.seen
    BY <1>3, <2>2
  <2>5. /\ next.ok /\ next.db = acc.db
        /\ next.seen = IF row.deleted = Active THEN acc.seen \union {row.name}
                       ELSE acc.seen
    <3>1. next = RestoreRow(u, "skip", acc, row)
      BY <1>6
    <3> HIDE DEF acc, row, next
    <3>2. QED
      BY <2>2, <2>3, <2>4, <3>1, SettledStep
  <2>6. next.seen = after[k].seen
    BY <1>3, <2>2, <2>5
  <2>7. QED
    BY <2>1, <2>2, <2>5, <2>6
<1> HIDE DEF A
<1>13. len \in A
  <2>1. len \in Nat /\ len \in 0..len
    BY <1>3
  <2>2. \A k \in 0..len : k \in A
    BY <1>11, <1>12, <2>1, Induct
  <2>3. QED
    BY <2>1, <2>2
<1>14. again[len].ok /\ again[len].db = D
  BY <1>13 DEF A
<1>15. QED
  BY <1>14 DEF _restore, again, len, D, after

\* "skipped if the vault already has it": a backup restored twice by the same
\* account, keeping what is there, is restored once.
THEOREM RestoreTwiceTheorem == Spec => []RestoreTwiceAddsNothing
<1>1. ASSUME IInv PROVE RestoreTwiceAddsNothing
  <2>1. Sound(Db) /\ file \in Seq(FileRow)
    BY <1>1 DEF IInv
  <2> SUFFICES ASSUME NEW u \in Person, _restore(Db, u, "skip", file).ok
               PROVE  LET once == _restore(Db, u, "skip", file)
                          twice == _restore(once.db, u, "skip", file)
                      IN  twice.ok /\ twice.db = once.db
    BY DEF RestoreTwiceAddsNothing
  <2>2. QED
    BY <2>1, RestoredTwice
<1>2. QED
  BY <1>1, Invariance, PTL

\* A row of the file is in the vault, and in overwrite mode as it is in the file.
Found(d, u, mode, row) ==
  \E e \in Id : /\ Exists(d, e) /\ d.entry[e].name = row.name
                /\ d.entry[e].deleted = row.deleted
                /\ mode = "overwrite" /\ row.deleted = Active => d.entry[e] = Restored(u, row)

\* What a restore into d has done after k rows: the active names of the file so
\* far are used, its rows are found, and what is new is one of them.
Back(d, acc, u, mode, rows, k) ==
  /\ \A i \in 1..k : rows[i].deleted = Active => rows[i].name \in acc.seen
  /\ \A i \in 1..k : Found(acc.db, u, mode, rows[i])
  /\ \A e \in Id : d.made < e /\ e <= acc.db.made =>
                     \E i \in 1..k : acc.db.entry[e] = Restored(u, rows[i])

LEMMA BackSame ==
  ASSUME NEW d, NEW acc, Sound(acc.db), NEW next, NEW u, NEW mode \in Mode,
         NEW rows, NEW k \in Nat \ {0}, \A i \in 1..k : rows[i] \in FileRow,
         Back(d, acc, u, mode, rows, k - 1),
         next.db = acc.db, Settled(acc.db, u, rows[k]),
         rows[k].deleted = Active => mode = "skip",
         rows[k].deleted = Active => next.seen = acc.seen \union {rows[k].name},
         rows[k].deleted # Active => next.seen = acc.seen
  PROVE  Back(d, next, u, mode, rows, k)
<1> DEFINE row == rows[k]
           T == Twins(acc.db, row)
<1>1. \A i \in 1..k : i = k \/ i \in 1..(k - 1)
  OBVIOUS
<1>2. k \in 1..k /\ \A i \in 1..(k - 1) : i \in 1..k
  OBVIOUS
<1>3. \A i \in 1..k : rows[i].deleted = Active => rows[i].name \in next.seen
  BY <1>1 DEF Back
<1>4. Max(T) \in T
  <2>1. T \in SUBSET Nat /\ MaxIds \in Nat /\ (\A x \in T : x <= MaxIds) /\ T # {}
    BY VaultContentsAssumption DEF Twins, Id, Settled
  <2> HIDE DEF T
  <2>2. QED
    BY <2>1, MaxIs
<1>5. Found(acc.db, u, mode, row)
  BY <1>4 DEF Found, Twins
<1>6. \A i \in 1..k : Found(next.db, u, mode, rows[i])
  BY <1>1, <1>5 DEF Back
<1>7. \A e \in Id : d.made < e /\ e <= next.db.made =>
                      \E i \in 1..k : next.db.entry[e] = Restored(u, rows[i])
  BY <1>2 DEF Back
<1>8. QED
  BY <1>3, <1>6, <1>7 DEF Back

LEMMA BackGrows ==
  ASSUME NEW d, NEW acc, Sound(acc.db), NEW next, NEW u \in Person, NEW mode \in Mode,
         NEW rows, NEW k \in Nat \ {0}, \A i \in 1..k : rows[i] \in FileRow,
         Back(d, acc, u, mode, rows, k - 1),
         NEW old, Grows(acc.db, next.db, Restored(u, rows[k]), old),
         old \in Id => old \in Named(acc.db, rows[k].name) /\ rows[k].deleted = Active,
         rows[k].deleted = Active => /\ rows[k].name \notin acc.seen
                                     /\ next.seen = acc.seen \union {rows[k].name},
         rows[k].deleted # Active => next.seen = acc.seen
  PROVE  Back(d, next, u, mode, rows, k)
<1> DEFINE row == rows[k]
           new == acc.db.made + 1
           R == Restored(u, row)
<1>1. \A i \in 1..k : i = k \/ i \in 1..(k - 1)
  OBVIOUS
<1>2. k \in 1..k /\ \A i \in 1..(k - 1) : i \in 1..k
  OBVIOUS
<1>3. \A i \in 1..k : rows[i].deleted = Active => rows[i].name \in next.seen
  BY <1>1 DEF Back
<1>4. /\ next.db.made = new /\ new \in Id /\ ~Exists(acc.db, new) /\ Id \subseteq Nat
      /\ acc.db.made \in Nat
      /\ \A e \in Id : e = new => next.db.entry[e] = R
      /\ \A e \in Id : e # new /\ e # old => next.db.entry[e] = acc.db.entry[e]
  BY VaultContentsAssumption DEF Grows, Id, Sound, Database
<1>5. \A i \in 1..k : /\ Restored(u, rows[i]) \in EntryModel
                      /\ Restored(u, rows[i]).name = rows[i].name
                      /\ Restored(u, rows[i]).deleted = rows[i].deleted
  BY RestoredIs
<1> HIDE DEF new
<1>6. ASSUME NEW i \in 1..(k - 1) PROVE Found(next.db, u, mode, rows[i])
  <2>1. PICK e \in Id :
          /\ Exists(acc.db, e) /\ acc.db.entry[e].name = rows[i].name
          /\ acc.db.entry[e].deleted = rows[i].deleted
          /\ mode = "overwrite" /\ rows[i].deleted = Active =>
               acc.db.entry[e] = Restored(u, rows[i])
    BY DEF Back, Found
  <2>2. e # old
    <3> SUFFICES ASSUME e = old PROVE FALSE
      OBVIOUS
    <3>1. rows[i].name = row.name /\ rows[i].deleted = Active /\ row.name \notin acc.seen
      BY <2>1 DEF Named, IsActive
    <3>2. QED
      BY <3>1 DEF Back
  <2>3. next.db.entry[e] = acc.db.entry[e]
    BY <1>4, <2>1, <2>2
  <2>4. QED
    BY <2>1, <2>3 DEF Found, Exists
<1>7. Found(next.db, u, mode, row)
  <2>1. next.db.entry[new] = R /\ R # NoEntry
    BY <1>2, <1>4, <1>5, NoRow
  <2>2. QED
    BY <1>2, <1>4, <1>5, <2>1 DEF Found, Exists
<1>8. \A i \in 1..k : Found(next.db, u, mode, rows[i])
  BY <1>1, <1>6, <1>7
<1>9. ASSUME NEW e \in Id, d.made < e, e <= next.db.made
      PROVE  \E i \in 1..k : next.db.entry[e] = Restored(u, rows[i])
  <2>1. CASE e = new
    BY <1>2, <1>4, <2>1
  <2>2. CASE e # new
    <3>1. e <= acc.db.made
      <4>1. e \in Nat /\ e <= new /\ e # new /\ new = acc.db.made + 1
        BY <1>4, <1>9, <2>2 DEF new
      <4>2. QED
        BY <1>4, <4>1
    <3>2. PICK i \in 1..(k - 1) : acc.db.entry[e] = Restored(u, rows[i])
      BY <1>9, <3>1 DEF Back
    <3>3. e # old
      <4> SUFFICES ASSUME e = old PROVE FALSE
        OBVIOUS
      <4>1. rows[i].name = row.name /\ rows[i].deleted = Active /\ row.name \notin acc.seen
        BY <1>2, <1>5, <3>2 DEF Named, IsActive
      <4>2. QED
        BY <4>1 DEF Back
    <3>4. next.db.entry[e] = acc.db.entry[e]
      BY <1>4, <2>2, <3>3
    <3>5. QED
      BY <1>2, <3>2, <3>4
  <2>3. QED
    BY <2>1, <2>2
<1>10. QED
  BY <1>3, <1>8, <1>9 DEF Back

\* What a restore that went through leaves behind.
LEMMA RestoreIsBack ==
  ASSUME NEW d, Sound(d), NEW u \in Person, NEW mode \in Mode, NEW rows \in Seq(FileRow),
         _restore(d, u, mode, rows).ok
  PROVE  Back(d, _restore(d, u, mode, rows), u, mode, rows, Len(rows))
<1> DEFINE after == Progress("restore", d, u, mode, rows)
           len == Len(rows)
           S == {k \in 0..len : Back(d, after[k], u, mode, rows, k)}
<1>1. after[len].ok
  BY DEF _restore
<1>2. /\ len \in Nat
      /\ after[0] = Begin(d)
      /\ \A i \in 0..len : Sound(after[i].db)
      /\ \A i \in 1..len :
           LET row == rows[i]
               acc == after[i - 1]
               next == after[i]
           IN  /\ row \in FileRow
               /\ row.deleted = Active =>
                    row.name \notin acc.seen /\ next.seen = acc.seen \union {row.name}
               /\ row.deleted # Active => next.seen = acc.seen
               /\ \/ /\ next.db = acc.db /\ Settled(acc.db, u, row)
                     /\ row.deleted = Active => mode = "skip"
                  \/ Grows(acc.db, next.db, Restored(u, row), 0)
                  \/ /\ mode = "overwrite" /\ row.deleted = Active
                     /\ \E old \in Named(acc.db, row.name) :
                          Grows(acc.db, next.db, Restored(u, row), old)
  BY <1>1, RestoreSteps
<1> HIDE DEF after, len
<1>3. 0 \in S
  <2>1. after[0].db = d /\ 0 \in 0..len
    BY <1>2, BeginIsRight
  <2>2. d.made \in Nat /\ \A e \in Id : e \in Nat
    BY VaultContentsAssumption DEF Sound, Database, Id
  <2>3. \A e \in Id : ~(d.made < e /\ e <= d.made)
    BY <2>2
  <2>4. Back(d, after[0], u, mode, rows, 0)
    BY <2>1, <2>3 DEF Back
  <2>5. QED
    BY <2>1, <2>4
<1>4. ASSUME NEW k \in 1..len, k - 1 \in S PROVE k \in S
  <2> DEFINE acc == after[k - 1]
             next == after[k]
             row == rows[k]
  <2>1. k - 1 \in 0..len /\ k \in 0..len /\ k \in Nat \ {0} /\ \A i \in 1..k : i \in 1..len
    BY <1>2
  <2>2. Sound(acc.db) /\ Back(d, acc, u, mode, rows, k - 1)
    BY <1>2, <1>4, <2>1
  <2>3. \A i \in 1..k : rows[i] \in FileRow
    BY <1>2, <2>1
  <2>4. /\ row.deleted = Active =>
             row.name \notin acc.seen /\ next.seen = acc.seen \union {row.name}
        /\ row.deleted # Active => next.seen = acc.seen
    BY <1>2
  <2>5. \/ /\ next.db = acc.db /\ Settled(acc.db, u, row)
           /\ row.deleted = Active => mode = "skip"
        \/ Grows(acc.db, next.db, Restored(u, row), 0)
        \/ /\ mode = "overwrite" /\ row.deleted = Active
           /\ \E old \in Named(acc.db, row.name) :
                Grows(acc.db, next.db, Restored(u, row), old)
    BY <1>2
  <2> HIDE DEF acc, next
  <2>6. Back(d, next, u, mode, rows, k)
    <3>1. CASE /\ next.db = acc.db /\ Settled(acc.db, u, row)
               /\ row.deleted = Active => mode = "skip"
      BY <2>1, <2>2, <2>3, <2>4, <3>1, BackSame
    <3>2. CASE Grows(acc.db, next.db, Restored(u, row), 0)
      <4>1. 0 \notin Id
        BY DEF Id
      <4>2. QED
        BY <2>1, <2>2, <2>3, <2>4, <3>2, <4>1, BackGrows
    <3>3. ASSUME row.deleted = Active, NEW old \in Named(acc.db, row.name),
                 Grows(acc.db, next.db, Restored(u, row), old)
          PROVE  Back(d, next, u, mode, rows, k)
      BY <2>1, <2>2, <2>3, <2>4, <3>3, BackGrows
    <3>4. QED
      BY <2>5, <3>1, <3>2, <3>3
  <2>7. QED
    BY <2>1, <2>6 DEF next
<1> HIDE DEF S
<1>5. len \in Nat /\ len \in 0..len
  BY <1>2
<1>6. \A k \in 0..len : k \in S
  BY <1>3, <1>4, <1>5, Induct
<1>7. Back(d, after[len], u, mode, rows, len)
  BY <1>5, <1>6 DEF S
<1>8. QED
  BY <1>7 DEF _restore, after, len

\* After a restore went through, every row of the file is in the vault under its
\* name, and what is new is the importer's, as it is in the file.
THEOREM RestoreTheorem == Spec => RestoreBringsBackTheFile
<1>1. ASSUME IInv, [Next]_vars, job.kind = "restore", job' = NoJob, entry' # entry
      PROVE  /\ \A i \in DOMAIN job.rows : \E e \in Id :
                  /\ entry'[e].name = job.rows[i].name
                  /\ entry'[e].deleted = job.rows[i].deleted
                  /\ job.mode = "overwrite" /\ job.rows[i].deleted = Active =>
                       entry'[e] = Restored(job.user, job.rows[i])
             /\ \A e \in (made + 1)..made' : \E i \in DOMAIN job.rows :
                  entry'[e] = Restored(job.user, job.rows[i])
  <2> DEFINE u == job.user
             m == job.mode
             rows == job.rows
             done == _restore(Db, u, m, rows)
  <2>1. Sound(Db) /\ u \in Person /\ m \in Mode /\ rows \in Seq(FileRow)
    BY <1>1 DEF IInv, JobFits
  <2>2. Imported = done
    BY <1>1 DEF Imported
  <2>3. Right(done)
    BY <1>1, <2>2, ImportedIs
  <2>4. Db'.entry = entry' /\ Db.entry = entry /\ Db'.made = made' /\ Db.made = made
    BY DEF Db
  <2>5. done.ok /\ Db' = Ticked(done.db)
    BY <1>1, <2>2, <2>4, ImportEnds
  <2>6. Back(Db, done, u, m, rows, Len(rows))
    BY <2>1, <2>5, RestoreIsBack
  <2> HIDE DEF done
  <2>7. entry' = done.db.entry /\ made' = done.db.made
    BY <2>3, <2>4, <2>5, TickedIs DEF Right
  <2>8. DOMAIN rows = 1..Len(rows)
    BY <2>1
  <2>9. \A i \in DOMAIN rows : Found(done.db, u, m, rows[i])
    BY <2>6, <2>8 DEF Back
  <2>10. done.db.made \in 0..MaxIds /\ made \in Nat
    BY <1>1, <2>3, DbFields DEF Right, Sound, Database
  <2>11. ASSUME NEW e \in (made + 1)..made'
         PROVE  \E i \in DOMAIN rows : entry'[e] = Restored(u, rows[i])
    <3>1. e \in Id /\ Db.made < e /\ e <= done.db.made
      BY <2>4, <2>7, <2>10, VaultContentsAssumption DEF Id
    <3>2. QED
      BY <2>6, <2>7, <2>8, <3>1 DEF Back
  <2>12. QED
    BY <2>7, <2>9, <2>11 DEF Found
<1>2. IInv /\ [Next]_vars =>
        [(job.kind = "restore" /\ job' = NoJob /\ entry' # entry) =>
           /\ \A i \in DOMAIN job.rows : \E e \in Id :
                /\ entry'[e].name = job.rows[i].name
                /\ entry'[e].deleted = job.rows[i].deleted
                /\ job.mode = "overwrite" /\ job.rows[i].deleted = Active =>
                     entry'[e] = Restored(job.user, job.rows[i])
           /\ \A e \in (made + 1)..made' : \E i \in DOMAIN job.rows :
                entry'[e] = Restored(job.user, job.rows[i])]_vars
  BY <1>1
<1>3. QED
  BY <1>2, Invariance, PTL DEF Spec, RestoreBringsBackTheFile

-----------------------------------------------------------------------------
(***************************************************************************)
(* The rows of a CSV file.                                                 *)
(***************************************************************************)
\* The names under which an import by u finds entries of its own.
Owned(d, u) == {d.entry[e].name : e \in load_active(d, u)}

\* What an import of rows into d has done after k of them: a name that was not
\* used stands for what it stood for, the names the importer had are used when
\* they came up, and each other row made an entry.
Tally(d, acc, u, mode, names, k) ==
  /\ \A m : m \notin acc.seen => Mine(acc.db, u, m) = Mine(d, u, m)
  /\ Owned(d, u) \subseteq acc.taken
  /\ \A m \in Owned(d, u) : m \in acc.seen <=> \E j \in 1..k : names[j] = m
  /\ acc.db.made - d.made =
       k - IF mode = "skip" THEN Cardinality(Owned(d, u) \intersect acc.seen) ELSE 0

LEMMA OwnedIs ==
  ASSUME NEW d, Sound(d), NEW u
  PROVE  /\ \A m : m \in Owned(d, u) <=> Mine(d, u, m) # {}
         /\ Owned(d, u) \subseteq Begin(d).taken /\ IsFiniteSet(Owned(d, u))
<1>1. \A m : m \in Owned(d, u) <=> Mine(d, u, m) # {}
  BY DEF Owned, Mine, load_active, Named
<1>2. Owned(d, u) \subseteq Begin(d).taken
  BY BeginIsRight DEF Owned, load_active
<1>3. IsFiniteSet(Begin(d).taken)
  BY BeginIsRight DEF Right
<1> DEFINE O == Owned(d, u)
           B == Begin(d).taken
<1> HIDE DEF O, B
<1>4. O \in SUBSET B /\ IsFiniteSet(B)
  BY <1>2, <1>3 DEF O, B
<1>5. IsFiniteSet(O)
  BY <1>4, FS_Subset
<1>6. QED
  BY <1>1, <1>2, <1>5 DEF O

\* An entry that is added, or put in the place of another one of its name,
\* changes nothing for the other names.
LEMMA MineOfOthers ==
  ASSUME NEW d, Sound(d), NEW t, NEW u, NEW row \in EntryModel, NEW old,
         old \in Id => old \in Named(d, row.name), Grows(d, t, row, old), NEW m, m # row.name
  PROVE  Mine(t, u, m) = Mine(d, u, m)
<1>1. ASSUME NEW e \in Id
      PROVE  e \in Mine(t, u, m) <=> e \in Mine(d, u, m)
  <2>1. CASE e = d.made + 1
    BY <2>1 DEF Grows, Mine, load_active, Named, IsActive
  <2>2. CASE e # d.made + 1 /\ e = old
    <3>1. d.entry[e] \in EntryModel /\ d.entry[e].name = row.name
      BY <2>2, RowFields DEF Named, IsActive, Sound
    <3>2. t.entry[e] = Gone(d, e)
      BY <2>2 DEF Grows
    <3>3. Gone(d, e).name = row.name
      BY <3>1 DEF Gone, EntryModel
    <3>4. QED
      BY <3>1, <3>2, <3>3 DEF Mine, Named
  <2>3. CASE e # d.made + 1 /\ e # old
    BY <2>3 DEF Grows, Mine, load_active, Named, IsActive, Exists
  <2>4. QED
    BY <2>1, <2>2, <2>3
<1>2. QED
  BY <1>1 DEF Mine, Named

\* One row of _store_import() that is not refused.
LEMMA StoreStep ==
  ASSUME NEW acc, Right(acc), NEW u \in Person, NEW mode \in Mode, NEW n \in FullName,
         StoreRow(u, mode, acc, n).ok
  PROVE  LET next == StoreRow(u, mode, acc, n)
             name == StoreName(u, acc, n)
             mine == Mine(acc.db, u, name)
         IN  /\ next.seen = acc.seen \union {name}
             /\ next.taken = acc.taken \union {name}
             /\ \/ next.db = acc.db /\ mine # {} /\ mode = "skip"
                \/ /\ next.db.made = acc.db.made + 1
                   /\ mode = "skip" => mine = {}
                   /\ \A m : m # name => Mine(next.db, u, m) = Mine(acc.db, u, m)
<1> DEFINE name == StoreName(u, acc, n)
           a == Uses(acc, name)
           row == NewRow(u, name, "csv", "none")
           next == StoreRow(u, mode, acc, n)
           mine == Mine(acc.db, u, name)
<1>1. acc.ok
  BY DEF StoreRow
<1>2. name \in FullName /\ Named(acc.db, name) = mine
  BY StoreNameIs
<1>3. next = _upsert_entry(a, u, mode, row)
  BY <1>1, StoreRowIs
<1> HIDE DEF name
<1>4. /\ Right(a) /\ a.db = acc.db /\ a.ok = acc.ok /\ name \in a.taken
      /\ a.seen = acc.seen \union {name} /\ a.taken = acc.taken \union {name}
  BY <1>2, UsesIsRight
<1>5. /\ row \in EntryModel /\ row.name = name /\ row.deleted = Active
      /\ row.damaged = "no"
  BY <1>2, NewRowIs DEF Content
<1> HIDE DEF a, row, next
<1>6. a \in Carried /\ ~Refused(a).ok /\ Sound(acc.db)
  BY <1>4, CarriedFields DEF Right
<1>7. \/ next = a /\ mine # {} /\ mode = "skip"
      \/ next = Adds(a, row) /\ acc.db.made < MaxIds /\ mine = {}
      \/ /\ mode = "overwrite" /\ acc.db.made < MaxIds
         /\ \E old \in mine : next = Replaces(a, old, row)
  BY <1>3, <1>4, <1>5, <1>6, UpsertCases DEF next
<1>8. CASE next = a /\ mine # {} /\ mode = "skip"
  BY <1>4, <1>8 DEF next, name
<1>9. CASE next = Adds(a, row) /\ acc.db.made < MaxIds /\ mine = {}
  <2>1. Named(a.db, row.name) = {}
    BY <1>2, <1>4, <1>5, <1>9
  <2>2. /\ next.seen = a.seen /\ next.taken = a.taken
        /\ next.db.made = acc.db.made + 1
        /\ acc.db.made + 1 \in Id /\ ~Exists(acc.db, acc.db.made + 1)
        /\ \A e \in Id : next.db.entry[e] = IF e = acc.db.made + 1 THEN row
                                            ELSE acc.db.entry[e]
    BY <1>4, <1>5, <1>9, <2>1, AddsIsRight
  <2>3. Grows(acc.db, next.db, row, 0) /\ 0 \notin Id
    BY <2>2 DEF Grows, Id
  <2>4. \A m : m # name => Mine(next.db, u, m) = Mine(acc.db, u, m)
    BY <1>5, <1>6, <2>3, MineOfOthers
  <2>5. QED
    BY <1>4, <1>9, <2>2, <2>4 DEF next, name
<1>10. ASSUME mode = "overwrite", acc.db.made < MaxIds,
              NEW old \in mine, next = Replaces(a, old, row)
       PROVE  /\ next.seen = a.seen /\ next.taken = a.taken
              /\ next.db.made = acc.db.made + 1
              /\ \A m : m # name => Mine(next.db, u, m) = Mine(acc.db, u, m)
  <2>1. old \in Named(a.db, row.name)
    BY <1>2, <1>4, <1>5
  <2>2. /\ next.seen = a.seen /\ next.taken = a.taken
        /\ next.db.made = acc.db.made + 1
        /\ acc.db.made + 1 \in Id /\ ~Exists(acc.db, acc.db.made + 1)
        /\ \A e \in Id : next.db.entry[e] =
             IF e = acc.db.made + 1 THEN row
             ELSE IF e = old THEN Gone(acc.db, old) ELSE acc.db.entry[e]
    BY <1>4, <1>5, <1>10, <2>1, ReplacesIsRight
  <2>3. Grows(acc.db, next.db, row, old)
    BY <2>2 DEF Grows
  <2>4. \A m : m # name => Mine(next.db, u, m) = Mine(acc.db, u, m)
    BY <1>4, <1>5, <1>6, <2>1, <2>3, MineOfOthers
  <2>5. QED
    BY <2>2, <2>4
<1>11. CASE /\ mode = "overwrite" /\ acc.db.made < MaxIds
            /\ \E old \in mine : next = Replaces(a, old, row)
  <2>1. /\ next.seen = a.seen /\ next.taken = a.taken
        /\ next.db.made = acc.db.made + 1
        /\ \A m : m # name => Mine(next.db, u, m) = Mine(acc.db, u, m)
    BY <1>10, <1>11
  <2>2. QED
    BY <1>4, <1>11, <2>1 DEF next, name
<1>12. QED
  BY <1>7, <1>8, <1>9, <1>11

LEMMA TallyStep ==
  ASSUME NEW d, Sound(d), NEW acc, Right(acc), NEW u \in Person, NEW mode \in Mode,
         NEW names, NEW k \in Nat \ {0}, names[k] \in FullName,
         Tally(d, acc, u, mode, names, k - 1), StoreRow(u, mode, acc, names[k]).ok
  PROVE  Tally(d, StoreRow(u, mode, acc, names[k]), u, mode, names, k)
<1> DEFINE n == names[k]
           next == StoreRow(u, mode, acc, n)
           name == StoreName(u, acc, n)
           mine == Mine(acc.db, u, name)
           O == Owned(d, u)
<1>1. /\ next.seen = acc.seen \union {name}
      /\ next.taken = acc.taken \union {name}
      /\ \/ next.db = acc.db /\ mine # {} /\ mode = "skip"
         \/ /\ next.db.made = acc.db.made + 1
            /\ mode = "skip" => mine = {}
            /\ \A m : m # name => Mine(next.db, u, m) = Mine(acc.db, u, m)
  BY StoreStep
<1>2. /\ name = n \/ name \notin acc.taken
      /\ name \in acc.taken => name = n /\ n \notin acc.seen /\ Mine(acc.db, u, n) # {}
      /\ name # n => n \in acc.seen \/ Mine(acc.db, u, n) = {}
  BY StoreNameIs DEF StoreName
<1>3. /\ \A m : m \in O <=> Mine(d, u, m) # {}
      /\ IsFiniteSet(O)
  BY OwnedIs
<1>4. /\ \A m : m \notin acc.seen => Mine(acc.db, u, m) = Mine(d, u, m)
      /\ O \subseteq acc.taken
      /\ \A m \in O : m \in acc.seen <=> \E j \in 1..(k - 1) : names[j] = m
      /\ acc.db.made - d.made =
           (k - 1) - IF mode = "skip" THEN Cardinality(O \intersect acc.seen) ELSE 0
  BY DEF Tally
<1>5. acc.seen \subseteq acc.taken /\ (mine # {} => name \in acc.taken)
  BY DEF Right, Mine, Named
<1>6. acc.db.made \in Nat /\ d.made \in Nat
  BY VaultContentsAssumption DEF Right, Sound, Database
<1> HIDE DEF n, next, name, mine, O
<1>7. \A m : m \notin next.seen => Mine(next.db, u, m) = Mine(d, u, m)
  BY <1>1, <1>4
<1>8. O \subseteq next.taken
  BY <1>1, <1>4
<1>9. n \in O /\ n \notin acc.seen => name = n
  BY <1>2, <1>3, <1>4
<1>10. \A m \in O : m \in next.seen <=> m \in acc.seen \/ m = n
  BY <1>1, <1>2, <1>4, <1>9
<1>11. ASSUME NEW m \in O PROVE m \in next.seen <=> \E j \in 1..k : names[j] = m
  <2>1. \A j \in 1..k : j = k \/ j \in 1..(k - 1)
    OBVIOUS
  <2>2. k \in 1..k /\ \A j \in 1..(k - 1) : j \in 1..k
    OBVIOUS
  <2>3. QED
    BY <1>4, <1>10, <2>1, <2>2 DEF n
<1> DEFINE P == O \intersect acc.seen
           Q == O \intersect next.seen
<1>12. IsFiniteSet(P) /\ Cardinality(P) \in Nat
  <2>1. P \in SUBSET O
    OBVIOUS
  <2> HIDE DEF P
  <2>2. IsFiniteSet(P)
    BY <1>3, <2>1, FS_Subset
  <2>3. QED
    BY <2>2, FS_CardinalityType
<1>13. CASE next.db = acc.db /\ mine # {} /\ mode = "skip"
  <2>1. name = n /\ n \notin acc.seen /\ n \in O
    BY <1>2, <1>3, <1>4, <1>5, <1>13 DEF mine
  <2>2. Q = P \union {n} /\ n \notin P
    BY <1>1, <2>1
  <2> HIDE DEF P, Q
  <2>3. Cardinality(Q) = Cardinality(P) + 1
    BY <1>12, <2>2, FS_AddElement
  <2>4. acc.db.made - d.made = (k - 1) - Cardinality(P)
    BY <1>4, <1>13 DEF P
  <2>5. next.db.made - d.made = k - Cardinality(Q)
    BY <1>6, <1>12, <1>13, <2>3, <2>4
  <2>6. QED
    BY <1>7, <1>8, <1>11, <1>13, <2>5 DEF Tally, Q, O, next, n
<1>14. CASE next.db.made = acc.db.made + 1 /\ (mode = "skip" => mine = {})
  <2>1. mode = "skip" => Q = P
    <3> SUFFICES ASSUME mode = "skip" PROVE Q = P
      OBVIOUS
    <3>1. n \in O => n \in acc.seen
      BY <1>3, <1>4, <1>9, <1>14 DEF mine
    <3>2. QED
      BY <1>10, <3>1
  <2> HIDE DEF P, Q
  <2>2. next.db.made - d.made = k - IF mode = "skip" THEN Cardinality(Q) ELSE 0
    <3>1. acc.db.made - d.made = (k - 1) - IF mode = "skip" THEN Cardinality(P) ELSE 0
      BY <1>4 DEF P
    <3>2. QED
      BY <1>6, <1>12, <1>14, <2>1, <3>1
  <2>3. QED
    BY <1>7, <1>8, <1>11, <2>2 DEF Tally, Q, O, next, n
<1>15. QED
  BY <1>1, <1>13, <1>14

\* An import of rows that went through.
LEMMA StoredIsTally ==
  ASSUME NEW d, Sound(d), NEW u \in Person, NEW mode \in Mode, NEW names \in Seq(FullName),
         _store_import(d, u, mode, names).ok
  PROVE  Tally(d, _store_import(d, u, mode, names), u, mode, names, Len(names))
<1> DEFINE after == Progress("zip", d, u, mode, names)
           len == Len(names)
           S == {k \in 0..len : Tally(d, after[k], u, mode, names, k)}
<1>1. Fits("zip", names) /\ after[len].ok
  BY DEF _store_import, Fits
<1>2. /\ len \in Nat
      /\ after[0] = Begin(d)
      /\ \A i \in 0..len : Right(after[i])
      /\ \A i \in 1..len : after[i] = StoreRow(u, mode, after[i - 1], names[i])
  BY <1>1, ProgressIsRight DEF ImportRow
<1>3. \A i \in 0..len : after[i].ok
  BY <1>1, OkBefore
<1>4. \A i \in 1..len : names[i] \in FullName
  OBVIOUS
<1> HIDE DEF after, len
<1>5. 0 \in S
  <2>1. Begin(d).db = d /\ Begin(d).seen = {} /\ 0 \in 0..len
    BY <1>2, BeginIsRight
  <2>2. Owned(d, u) \subseteq Begin(d).taken
    BY OwnedIs
  <2>3. d.made - d.made = 0 /\ Cardinality({}) = 0 /\ d.made \in Nat
    BY FS_EmptySet, VaultContentsAssumption DEF Sound, Database
  <2>4. Owned(d, u) \intersect {} = {}
    OBVIOUS
  <2>5. Tally(d, Begin(d), u, mode, names, 0)
    BY <2>1, <2>2, <2>3, <2>4 DEF Tally
  <2>6. QED
    BY <1>2, <2>1, <2>5
<1>6. ASSUME NEW k \in 1..len, k - 1 \in S PROVE k \in S
  <2>1. k - 1 \in 0..len /\ k \in 0..len /\ k \in Nat \ {0}
    BY <1>2
  <2>2. /\ Right(after[k - 1]) /\ after[k].ok /\ names[k] \in FullName
        /\ after[k] = StoreRow(u, mode, after[k - 1], names[k])
        /\ Tally(d, after[k - 1], u, mode, names, k - 1)
    BY <1>2, <1>3, <1>4, <1>6, <2>1
  <2>3. Tally(d, after[k], u, mode, names, k)
    BY <2>1, <2>2, TallyStep
  <2>4. QED
    BY <2>1, <2>3
<1> HIDE DEF S
<1>7. len \in Nat /\ len \in 0..len
  BY <1>2
<1>8. \A k \in 0..len : k \in S
  BY <1>5, <1>6, <1>7, Induct
<1>9. Tally(d, after[len], u, mode, names, len)
  BY <1>7, <1>8 DEF S
<1>10. QED
  BY <1>9 DEF _store_import, after, len

\* An import of rows makes one entry per row, except for the names the importer
\* had and keeps: no two rows collapse into one.
THEOREM CsvTheorem == Spec => []CsvRowsDoNotCollapse
<1>1. ASSUME IInv PROVE CsvRowsDoNotCollapse
  <2> SUFFICES ASSUME NEW u \in Person, NEW mode \in Mode, NEW names \in CsvFile,
                      _store_import(Db, u, mode, names).ok
               PROVE  _store_import(Db, u, mode, names).db.made - made =
                        Len(names) - IF mode = "skip"
                        THEN Cardinality({entry[e].name : e \in load_active(Db, u)}
                                           \intersect Range(names))
                        ELSE 0
    BY DEF CsvRowsDoNotCollapse
  <2> DEFINE done == _store_import(Db, u, mode, names)
             O == Owned(Db, u)
  <2>1. Sound(Db) /\ names \in Seq(FullName) /\ Db.made = made
    BY <1>1, VaultContentsAssumption DEF IInv, Db
  <2>2. Tally(Db, done, u, mode, names, Len(names))
    BY <2>1, StoredIsTally
  <2> HIDE DEF done, O
  <2>3. O \intersect done.seen = O \intersect Range(names)
    <3>1. \A m : m \in Range(names) <=> \E j \in 1..Len(names) : names[j] = m
      BY <2>1 DEF Range
    <3>2. \A m \in O : m \in done.seen <=> \E j \in 1..Len(names) : names[j] = m
      BY <2>2 DEF Tally, O
    <3>3. QED
      BY <3>1, <3>2
  <2>4. O = {entry[e].name : e \in load_active(Db, u)}
    BY DEF O, Owned, Db
  <2>5. done.db.made - made =
          Len(names) - IF mode = "skip" THEN Cardinality(O \intersect done.seen) ELSE 0
    BY <2>1, <2>2 DEF Tally, O
  <2>6. QED
    BY <2>3, <2>4, <2>5 DEF done
<1>2. QED
  BY <1>1, Invariance, PTL

=============================================================================

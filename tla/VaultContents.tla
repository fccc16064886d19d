---------------------------- MODULE VaultContents ----------------------------
(***************************************************************************)
(* What the vault holds: entries under their names, the trash, attachments *)
(* and damaged rows, and the operations that move many of them at once:    *)
(* CSV imports, backups and restores (backend/crud/password.py, backup.py, *)
(* attachment.py, damage.py, the routes of api/endpoints/password.py and   *)
(* the writing tools of mcp_server.py).                                    *)
(*                                                                         *)
(* Everything but a backup or a restore is one write transaction and one   *)
(* step.  Those two derive a key first, with no lock held, and the vault   *)
(* changes meanwhile.  Their work on the rows happens in one snapshot or   *)
(* one write transaction; it takes the rows of the file one by one, and a  *)
(* row that is refused undoes the whole of it.                             *)
(*                                                                         *)
(* A name is what somebody typed and a sequence of numbers: importing "a"  *)
(* under a unique name appends the 2 of "a (2)".  The contents of an entry *)
(* are a value.  A folder is its name among its owner's folders, which     *)
(* _folder_named() finds or makes; who may do what is EntryAccess's        *)
(* subject, here an account either reaches an entry for writing or not at  *)
(* all.                                                                    *)
(***************************************************************************)
EXTENDS Integers, FiniteSets, Sequences, FiniteSetsExt

CONSTANTS
  Person, Admin,
  Service, ServiceOwner, \* service accounts and the person each belongs to
  Name,       \* names people type
  Value,      \* contents people type
  FolderName,
  CsvFile,    \* the rows of a CSV file or a 2.0 ZIP: sequences of names
  OtherFile,  \* backups made of another vault: sequences of FileRow
  MigrationFile, \* 2.0 migration archives
  MaxIds,     \* bound: entry ids ever given out (AUTOINCREMENT)
  MaxChanges, \* bound: requests, and rows damaged
  MaxFiles,   \* MAX_ATTACHMENTS_PER_ENTRY
  MaxFrames   \* MAX_FRAMES

Id == 1..MaxIds
Account == Person \union Service
Active == 0 \* deleted IS NULL; otherwise the instant it was trashed
Mode == {"skip", "overwrite"}

\* What is typed, and the numbers of " (2)" and the like after it.
FullName == Name \X Seq(Nat)
Typed(n) == <<n, <<>>>>

\* What an entry holds: something typed, or from a file.
Content == Value \union {"csv", "file"}

\* A row of a backup, and an archive: whose it was, rows and their shares.
FileRow == [name : FullName, value : Content, deleted : Nat,
            folder : FolderName \union {"none"}, files : Nat]
Archive == [owner : Person, items : Seq([row : FileRow, shares : SUBSET Account])]

ASSUME VaultContentsAssumption ==
  /\ Admin \subseteq Person /\ Person \intersect Service = {}
  /\ ServiceOwner \in [Service -> Person]
  /\ Name # {}
  /\ CsvFile \subseteq Seq(FullName)
  /\ OtherFile \subseteq Seq(FileRow)
  /\ MigrationFile \subseteq Archive
  /\ MaxIds \in Nat \ {0, 1} /\ MaxChanges \in Nat /\ MaxFiles \in Nat
  /\ MaxFrames \in Nat /\ MaxFrames >= 3
  /\ "none" \notin FolderName \union Account

VARIABLES
  entry,    \* rows of entries
  made,     \* entry ids given out so far
  clock,    \* the last instant something was trashed
  reach,    \* who may write an entry that is not theirs
  session,  \* the people whose session is open
  file,     \* the backup file at hand, or NoFile
  job,      \* the backup or restore under way
  changes,  \* requests so far
  misdirected \* ghost: a tool changed an entry it was not asked to change

vars == <<entry, made, clock, reach, session, file, job, changes, misdirected>>

\* A row: damaged is what no longer decrypts, its document or an attachment.
NoEntry == [owner |-> "none", name |-> Typed("none"), value |-> "none", deleted |-> Active,
            folder |-> "none", files |-> 0, damaged |-> "no"]
NoFile == <<>>
NoJob == [kind |-> "none", user |-> "none", mode |-> "skip", ids |-> {},
          rows |-> <<>>]

\* The rows that a transaction works on.
Db == [entry |-> entry, made |-> made, clock |-> clock, reach |-> reach]

-----------------------------------------------------------------------------
(***************************************************************************)
(* Reading.                                                                *)
(***************************************************************************)
Exists(d, e) == d.entry[e] # NoEntry
IsActive(d, e) == Exists(d, e) /\ d.entry[e].deleted = Active
open_entry(d, e) == Exists(d, e) /\ d.entry[e].damaged # "document"

Named(d, n) == {e \in Id : IsActive(d, e) /\ d.entry[e].name = n}
active_entry_exists(d, n) == Named(d, n) # {}

OwnerId(u) == IF u \in Service THEN ServiceOwner[u] ELSE u
Reaches(u, e) == entry[e].owner = u \/ <<e, u>> \in reach
Visible(u) == {e \in Id : Exists(Db, e) /\ Reaches(u, e)}

\* find_entry() and entry_by_name() for an active entry: u asks for it by its
\* name, it must decrypt, and u must be allowed to change it.
find_entry(u, e) == IsActive(Db, e) /\ open_entry(Db, e) /\ Reaches(u, e)

\* Mutant: the trash and the attachments are not counted.
FramesOfActive(d) == 1 + Cardinality({e \in Id : IsActive(d, e)})

\* The frames of a backup: the manifest, one per entry, one per attachment.
FramesOf(d, ids) ==
  LET upto[e \in 0..MaxIds] ==
        IF e = 0 THEN 1
        ELSE upto[e - 1] + IF e \in ids THEN 1 + d.entry[e].files ELSE 0
  IN  upto[MaxIds]

Frames(d) == FramesOf(d, {e \in Id : Exists(d, e)})

\* _enforce_backup_capacity(), before every commit.
_enforce_backup_capacity(d) == Frames(d) <= MaxFrames

\* The transaction commits d.
Commit(d) ==
  /\ _enforce_backup_capacity(d)
  /\ entry' = d.entry /\ made' = d.made /\ clock' = d.clock /\ reach' = d.reach

-----------------------------------------------------------------------------
(***************************************************************************)
(* Adding and trashing rows; every import is made of these.                *)
(***************************************************************************)
NewRow(owner, n, v, fo) == [owner |-> owner, name |-> n, value |-> v,
                            deleted |-> Active, folder |-> fo, files |-> 0,
                            damaged |-> "no"]
Added(d, row) == [d EXCEPT !.entry[d.made + 1] = row, !.made = @ + 1]
Trashed(d, e) == [d EXCEPT !.entry[e].deleted = d.clock + 1]

\* Mutant: the grants stay behind.
RemovedAlone(d, e) == [d EXCEPT !.entry[e] = NoEntry]

\* ON DELETE CASCADE takes the grants and the attachments along.
Removed(d, e) == [d EXCEPT !.entry[e] = NoEntry,
                           !.reach = {r \in @ : r[1] # e}]
Ticked(d) == [d EXCEPT !.clock = Max({d.entry[e].deleted : e \in Id} \union {@})]

\* What an import carries along: the rows so far, the names this file has used and the
\* names in use, and whether everything was accepted.
Begin(d) == [db |-> d, seen |-> {}, ok |-> TRUE,
             taken |-> {d.entry[e].name : e \in {i \in Id : IsActive(d, i)}}]
Refused(acc) == [acc EXCEPT !.ok = FALSE]
Stored(acc, d, row) ==
  IF d.made < MaxIds THEN [acc EXCEPT !.db = Added(d, row)] ELSE Refused(acc)
Uses(acc, n) == [acc EXCEPT !.seen = @ \union {n}, !.taken = @ \union {n}]

\* Mutant: the first number is taken without looking.
SecondName(n, taken) == <<n[1], Append(n[2], 2)>>

\* PasswordCRUD._unique_name(): the first of "n (2)", "n (3)"... not in use.
Numbered(n, k) == <<n[1], Append(n[2], k)>>
_unique_name(n, taken) ==
  Numbered(n, CHOOSE k \in 2..(Cardinality(taken) + 2) :
                /\ Numbered(n, k) \notin taken
                /\ \A j \in 2..(k - 1) : Numbered(n, j) \in taken)

\* load_active(): what an import may overwrite is the importer's own.
load_active(d, u) == {e \in Id : IsActive(d, e) /\ d.entry[e].owner = u}

\* Mutant: what is overwritten goes away.
UpsertInPlace(acc, u, mode, row) ==
  LET mine == load_active(acc.db, u) \intersect Named(acc.db, row.name)
  IN  IF mine # {} /\ mode = "overwrite"
      THEN [acc EXCEPT !.db.entry[CHOOSE e \in mine : TRUE] = row]
      ELSE IF mine # {} THEN acc ELSE Stored(acc, acc.db, row)

\* PasswordCRUD._upsert_entry(): an entry of u's under this name is kept, or
\* goes to the trash and the imported one takes its name.
_upsert_entry(acc, u, mode, row) ==
  LET mine == load_active(acc.db, u) \intersect Named(acc.db, row.name)
      old == CHOOSE e \in mine : TRUE
  IN  CASE mine = {} -> Stored(acc, acc.db, row)
        [] mine # {} /\ ~open_entry(acc.db, old) -> Refused(acc)
        [] mine # {} /\ open_entry(acc.db, old) /\ mode = "skip" -> acc
        [] OTHER -> Stored(acc, Trashed(acc.db, old), row)

\* Mutant: a name used earlier in the file is looked up again.
StoreRowAgain(u, mode, acc, n) ==
  IF acc.ok THEN _upsert_entry(Uses(acc, n), u, mode, NewRow(u, n, "csv", "none"))
  ELSE acc

\* One row of _store_import(): a name used earlier in the file, or by an entry
\* of somebody else, is replaced by a unique one.
StoreRow(u, mode, acc, n) ==
  LET mine == load_active(acc.db, u) \intersect Named(acc.db, n)
      name == IF n \in acc.seen \/ (n \in acc.taken /\ mine = {})
              THEN _unique_name(n, acc.taken) ELSE n
  IN  IF acc.ok
      THEN _upsert_entry(Uses(acc, name), u, mode, NewRow(u, name, "csv", "none"))
      ELSE acc

\* What a row of a backup becomes in the importer's vault.
Restored(u, row) == [owner |-> u, name |-> row.name, value |-> row.value,
                     deleted |-> row.deleted, folder |-> row.folder,
                     files |-> row.files, damaged |-> "no"]

\* Mutant: a trashed row is always added.
TrashAgain(acc, u, mode, row) ==
  IF active_entry_exists(acc.db, row.name) /\ row.deleted = Active THEN acc
  ELSE Stored(acc, acc.db, Restored(u, row))

\* Mutant: any entry of the name stands for a trashed row.
TrashByName(acc, u, mode, row) ==
  IF \E e \in Id : Exists(acc.db, e) /\ acc.db.entry[e].name = row.name THEN acc
  ELSE Stored(acc, acc.db, Restored(u, row))

\* BackupCRUD._restore_target(): a trashed row is there already when the last
\* trashed entry of its name and instant is the importer's; an active one meets
\* the active entry of its name, whoever owns it.
_restore_target(acc, u, mode, row) ==
  LET d == acc.db
      twins == {e \in Id : Exists(d, e) /\ d.entry[e].name = row.name
                             /\ d.entry[e].deleted = row.deleted}
      old == Max(twins)
      new == Restored(u, row)
      mine == d.entry[old].owner = u
  IN  CASE twins = {} -> Stored(acc, d, new)
        [] twins # {} /\ ~open_entry(d, old) -> Refused(acc)
        [] twins # {} /\ open_entry(d, old) /\ row.deleted # Active ->
             IF mine THEN acc ELSE Stored(acc, d, new)
        [] OTHER ->
             IF mode = "skip" THEN acc
             ELSE IF mine THEN Stored(acc, Trashed(d, old), new)
             ELSE Refused(acc)

\* One row of _restore(); a complete backup holds an active name once.
RestoreRow(u, mode, acc, row) ==
  CASE ~acc.ok -> acc
    [] acc.ok /\ row.deleted # Active -> _restore_target(acc, u, mode, row)
    [] OTHER -> IF row.name \in acc.seen THEN Refused(acc)
                ELSE _restore_target(Uses(acc, row.name), u, mode, row)

\* One row of a 2.0 migration archive: renamed like a CSV row, restored like a
\* row of a backup, and shared again with the same accounts.
MigrateRow(u, mode, acc, item) ==
  LET n == item.row.name
      foreign == \E e \in Named(acc.db, n) : acc.db.entry[e].owner # u
      name == IF n \in acc.seen \/ foreign THEN _unique_name(n, acc.taken) ELSE n
      active == item.row.deleted = Active
      next == IF active
              THEN _restore_target(Uses(acc, name), u, mode,
                                   [item.row EXCEPT !.name = name])
              ELSE _restore_target(acc, u, mode, item.row)
      shared == {<<next.db.made, v>> : v \in item.shares}
  IN  IF ~acc.ok THEN acc
      ELSE IF next.db.made = acc.db.made THEN next
      ELSE [next EXCEPT !.db.reach = @ \union shared]

\* The rows of a file one after the other: what there is after each of them.
ImportRow(kind, u, mode, acc, row) ==
  CASE kind = "zip" -> StoreRow(u, mode, acc, row)
    [] kind = "restore" -> RestoreRow(u, mode, acc, row)
    [] kind = "migration" -> MigrateRow(u, mode, acc, row)

Progress(kind, d, u, mode, rows) ==
  LET after[i \in 0..Len(rows)] ==
        IF i = 0 THEN Begin(d)
        ELSE ImportRow(kind, u, mode, after[i - 1], rows[i])
  IN  after

_store_import(d, u, mode, names) ==
  Progress("zip", d, u, mode, names)[Len(names)]

_restore(d, u, mode, rows) ==
  Progress("restore", d, u, mode, rows)[Len(rows)]

_import_legacy_migration(d, u, mode, archive) ==
  IF archive.owner # u \/ \E i \in DOMAIN archive.items : u \in archive.items[i].shares
  THEN Refused(Begin(d))
  ELSE Progress("migration", d, u, mode, archive.items)[Len(archive.items)]

-----------------------------------------------------------------------------
(***************************************************************************)
(* Single entries.  A person needs an open session; a service account      *)
(* sends its token with every call.                                        *)
(***************************************************************************)
SignedIn(u) == u \in session \union Service

\* A change that commits d, in one write transaction.
Change(d) ==
  /\ changes < MaxChanges
  /\ changes' = changes + 1
  /\ \E after \in {d} : Commit(after)
  /\ UNCHANGED <<session, file, job>>

\* A service's entry belongs to its owner, and the service may write it.
create_password(u, n, v, fo) ==
  /\ SignedIn(u)
  /\ made < MaxIds
  /\ ~active_entry_exists(Db, n)
  /\ Change([Added(Db, NewRow(OwnerId(u), n, v, fo)) EXCEPT
               !.reach = @ \union ({<<made + 1, u>>} \intersect (Id \X Service))])
  /\ UNCHANGED misdirected

\* The whole entry is sealed again; a new name must be free.
Updated(e, n, v, fo) ==
  [Db EXCEPT !.entry[e].name = n, !.entry[e].value = v, !.entry[e].folder = fo]

update_password(u, e, n, v, fo) ==
  /\ SignedIn(u) /\ find_entry(u, e)
  /\ n = entry[e].name \/ ~active_entry_exists(Db, n)
  /\ Change(Updated(e, n, v, fo))

delete_password(u, e) ==
  /\ SignedIn(u) /\ find_entry(u, e)
  /\ Change(Ticked(Trashed(Db, e)))

InTrash(u, e) ==
  SignedIn(u) /\ open_entry(Db, e) /\ entry[e].deleted # Active /\ Reaches(u, e)

restore_password(u, e) ==
  /\ u \in Person /\ InTrash(u, e)
  /\ ~active_entry_exists(Db, entry[e].name)
  /\ Change([Db EXCEPT !.entry[e].deleted = Active])
  /\ UNCHANGED misdirected

purge_password(u, e) ==
  /\ u \in Person /\ InTrash(u, e) /\ entry[e].owner = u
  /\ Change(Removed(Db, e))
  /\ UNCHANGED misdirected

add_attachment(u, e) ==
  /\ u \in Person /\ SignedIn(u) /\ find_entry(u, e)
  /\ entry[e].files < MaxFiles
  /\ Change([Db EXCEPT !.entry[e].files = @ + 1])
  /\ UNCHANGED misdirected

\* The attachment that goes may be the damaged one.
delete_attachment(u, e) ==
  /\ u \in Person /\ SignedIn(u) /\ find_entry(u, e)
  /\ entry[e].files > 0
  /\ \E left \in {"no", entry[e].damaged} :
       /\ left = "no" \/ entry[e].files > 1
       /\ Change([Db EXCEPT !.entry[e].files = @ - 1, !.entry[e].damaged = left])
  /\ UNCHANGED misdirected

\* DamageCRUD.remove(): an administrator anywhere, others among their own, and
\* only a row that cannot be read.
remove_damaged(u, e) ==
  /\ u \in session /\ Exists(Db, e) /\ entry[e].damaged # "no"
  /\ u \in Admin \/ entry[e].owner = u
  /\ Change(IF entry[e].damaged = "document" THEN Removed(Db, e)
            ELSE [Db EXCEPT !.entry[e].files = @ - 1, !.entry[e].damaged = "no"])
  /\ UNCHANGED misdirected

import_passwords_csv(u, mode, names) ==
  /\ u \in session
  /\ \E done \in {_store_import(Db, u, mode, names)} :
       done.ok /\ Change(Ticked(done.db))
  /\ UNCHANGED misdirected

\* The tools take the id of an entry, in the trash or not, and act on the
\* active entry that has its name.
_by_id(s, e) == s \in Service /\ open_entry(Db, e) /\ Reaches(s, e)

update_entry(s, e, t, n, v) ==
  /\ _by_id(s, e) /\ t \in Named(Db, entry[e].name)
  /\ update_password(s, t, n, v, entry[e].folder)
  /\ misdirected' = (misdirected \/ t # e)

delete_entry(s, e, t) ==
  /\ _by_id(s, e) /\ t \in Named(Db, entry[e].name)
  /\ delete_password(s, t)
  /\ misdirected' = (misdirected \/ t # e)

\* Environment: a stored row stops decrypting.
Rot(e) ==
  /\ changes < MaxChanges /\ Exists(Db, e) /\ entry[e].damaged = "no"
  /\ \E part \in {"document"} \union IF entry[e].files > 0 THEN {"file"} ELSE {} :
       entry' = [entry EXCEPT ![e].damaged = part]
  /\ changes' = changes + 1
  /\ UNCHANGED <<made, clock, reach, session, file, job, misdirected>>

\* EntryAccess's subject: somebody's access to an entry begins or ends.
Share(e, v) ==
  /\ changes < MaxChanges /\ Exists(Db, e) /\ entry[e].owner # v
  /\ reach' \in {reach \union {<<e, v>>}, reach \ {<<e, v>>}}
  /\ reach' # reach
  /\ changes' = changes + 1
  /\ UNCHANGED <<entry, made, clock, session, file, job, misdirected>>

\* Accounts' subject: a session ends.  It matters here while a backup or an
\* import of its is under way; otherwise its user just does nothing more.
EndSession(u) ==
  /\ u \in session /\ job.user = u
  /\ session' = session \ {u}
  /\ UNCHANGED <<entry, made, clock, reach, file, job, changes, misdirected>>

-----------------------------------------------------------------------------
(***************************************************************************)
(* Backups.  Which entries go into one is decided when the request is      *)
(* authorized; the password check and the key derivation follow, and only  *)
(* then the entries are read, in one snapshot.                             *)
(***************************************************************************)
Answered == job' = NoJob /\ UNCHANGED <<entry, made, clock, reach, session,
                                        file, changes, misdirected>>

StartBackup(u) ==
  /\ u \in session /\ job = NoJob
  /\ changes < MaxChanges /\ changes' = changes + 1
  /\ job' = [NoJob EXCEPT !.kind = "deriving", !.user = u, !.ids = Visible(u)]
  /\ UNCHANGED <<entry, made, clock, reach, session, file, misdirected>>

BackupEntry(e) == [name |-> entry[e].name, value |-> entry[e].value,
                   deleted |-> entry[e].deleted, folder |-> entry[e].folder,
                   files |-> entry[e].files]

\* The i-th of the entries, in the order of their ids.
InOrder(ids, i) == CHOOSE e \in ids : Cardinality({f \in ids : f <= e}) = i

\* Mutant: what cannot be read is left out.
RowsThatOpen(ids) ==
  <<[e \in ids |-> TRUE],
    [i \in 1..Cardinality({e \in ids : open_entry(Db, e)}) |->
       BackupEntry(InOrder({e \in ids : open_entry(Db, e)}, i))]>>

\* create_backup() reads every entry and every attachment it was asked for; one
\* that is gone or damaged ends it.
create_backup(ids) ==
  <<[e \in ids |-> Exists(Db, e) /\ entry[e].damaged = "no"],
    [i \in 1..Cardinality(ids) |-> BackupEntry(InOrder(ids, i))]>>

WriteBackup ==
  LET written == create_backup(job.ids)
  IN  /\ job.kind = "deriving"
      /\ IF \A e \in job.ids : written[1][e]
         THEN /\ job' = [job EXCEPT !.kind = "written", !.rows = written[2]]
              /\ UNCHANGED <<entry, made, clock, reach, session, file, changes,
                             misdirected>>
         ELSE Answered

\* backup_passwords() sends the file if the session is still open.
SendBackup ==
  /\ job.kind = "written"
  /\ IF job.user \in session
     THEN /\ file' = job.rows
          /\ job' = NoJob
          /\ UNCHANGED <<entry, made, clock, reach, session, changes, misdirected>>
     ELSE Answered

-----------------------------------------------------------------------------
(***************************************************************************)
(* Imports of a backup file: the transaction is given up for the key       *)
(* derivation, then the session is checked again and everything happens in *)
(* one write transaction, or nothing does.                                 *)
(***************************************************************************)
StartImport(u, mode, kind, rows) ==
  /\ u \in session /\ job = NoJob
  /\ changes < MaxChanges /\ changes' = changes + 1
  /\ job' = [NoJob EXCEPT !.kind = kind, !.user = u, !.mode = mode, !.rows = rows]
  /\ UNCHANGED <<entry, made, clock, reach, session, file, misdirected>>

Imported ==
  CASE job.kind = "restore" -> _restore(Db, job.user, job.mode, job.rows)
    [] job.kind = "zip" -> _store_import(Db, job.user, job.mode, job.rows)
    [] job.kind = "migration" ->
         _import_legacy_migration(Db, job.user, job.mode, job.rows)

\* import_backup() after the derivation.
import_backup ==
  /\ job.kind \in {"restore", "zip", "migration"}
  /\ \E done \in {Imported} :
         \/ /\ job.user \in session /\ done.ok
            /\ \E after \in {Ticked(done.db)} : Commit(after)
            /\ job' = NoJob
            /\ UNCHANGED <<session, file, changes, misdirected>>
         \/ /\ job.user \notin session \/ ~done.ok
              \/ ~_enforce_backup_capacity(done.db)
            /\ Answered

-----------------------------------------------------------------------------
EntryRoutes ==
  \E u \in Person, e \in Id, n \in {Typed(m) : m \in Name}, v \in Value,
     fo \in FolderName \union {"none"} :
    \/ create_password(u, n, v, fo)
    \/ update_password(u, e, n, v, fo) /\ UNCHANGED misdirected
    \/ delete_password(u, e) /\ UNCHANGED misdirected
    \/ restore_password(u, e)
    \/ purge_password(u, e)

AttachmentRoutes ==
  \E u \in Person, e \in Id :
    add_attachment(u, e) \/ delete_attachment(u, e) \/ remove_damaged(u, e)

McpTools ==
  \E s \in Service, e, t \in Id, n \in {Typed(m) : m \in Name}, v \in Value :
    \/ create_password(s, n, v, "none")
    \/ update_entry(s, e, t, n, v)
    \/ delete_entry(s, e, t)

Environment ==
  \/ \E e \in Id : Rot(e) \/ \E v \in Account : Share(e, v)
  \/ \E u \in Person : EndSession(u)

Backups ==
  \/ \E u \in Person : StartBackup(u)
  \/ WriteBackup
  \/ SendBackup

Imports ==
  \/ \E u \in Person, mode \in Mode :
       \/ \E names \in CsvFile : import_passwords_csv(u, mode, names)
       \/ \E names \in CsvFile : StartImport(u, mode, "zip", names)
       \/ file # NoFile /\ StartImport(u, mode, "restore", file)
       \/ \E a \in MigrationFile : StartImport(u, mode, "migration", a)
  \/ import_backup

\* At first there are one or two entries, and a backup of another vault at hand.
FirstRows(names) == {NoEntry} \union
  {[NewRow(u, Typed(n), v, "none") EXCEPT !.deleted = t] :
     u \in Person, n \in names, v \in Value, t \in {Active, 1}}

Init ==
  /\ \E a \in FirstRows({CHOOSE n \in Name : TRUE}) \ {NoEntry}, b \in FirstRows(Name) :
       entry = [e \in Id |-> IF e = 1 THEN a ELSE IF e = 2 THEN b ELSE NoEntry]
  /\ made = 2 /\ clock = 1
  /\ reach = {} /\ session = Person
  /\ file \in OtherFile \union {NoFile}
  /\ job = NoJob /\ changes = 0 /\ misdirected = FALSE
  /\ \A e, f \in Id : (e # f /\ IsActive(Db, e) /\ IsActive(Db, f)) =>
                        entry[e].name # entry[f].name

Next == EntryRoutes \/ AttachmentRoutes \/ McpTools \/ Environment
          \/ Backups \/ Imports

Spec == Init /\ [][Next]_vars

-----------------------------------------------------------------------------
(***************************************************************************)
(* Properties.                                                             *)
(***************************************************************************)
\* The tables have the rows models.py declares, and a grant is of an entry
\* that is there.
TypeOK ==
  /\ \A e \in Id : Exists(Db, e) =>
       /\ e <= made /\ entry[e].owner \in Person
       /\ entry[e].deleted \in 0..clock
       /\ entry[e].folder \in FolderName \union {"none"}
       /\ entry[e].damaged \in {"no", "document", "file"}
       /\ entry[e].damaged = "file" => entry[e].files > 0
  /\ made \in 0..MaxIds
  /\ \A r \in reach : Exists(Db, r[1]) /\ r[2] \in Account
  /\ session \subseteq Person
  /\ misdirected \in BOOLEAN

\* However names are typed, imported, restored and made unique, two active
\* entries never share one: an import finds it out by itself, before the
\* unique index on name_index would end it.
ActiveNamesAreUnique ==
  \A e, f \in Id : (e # f /\ IsActive(Db, e) /\ IsActive(Db, f)) =>
                     entry[e].name # entry[f].name

\* The tables obey the schema, types, references and unique names, after every
\* request and every import (models.py).
TablesAreSound == TypeOK /\ ActiveNamesAreUnique

\* Whatever a commit let in, every person's export stays within the frames a
\* backup may have: create_backup() never has to refuse a vault for its size.
ExportAlwaysFits == \A u \in Person : FramesOf(Db, Visible(u)) <= MaxFrames

\* "skipped if the vault already has it": a backup restored twice by the same
\* account, keeping what is there, is restored once.
RestoreTwiceAddsNothing ==
  \A u \in Person :
    job = NoJob =>
      \A once \in {_restore(Db, u, "skip", file)} :
        once.ok => \A twice \in {_restore(once.db, u, "skip", file)} :
                     twice.ok /\ twice.db = once.db

\* An import never destroys anything: an entry that was there before it is
\* there after it with what it held, and if it lost its place it is in the
\* trash, since that moment, and the importer's own.
ImportsDestroyNothing ==
  [][job.kind \in {"restore", "zip", "migration"} /\ job' = NoJob =>
       \A e \in Id : Exists(Db, e) =>
         \/ entry'[e] = entry[e]
         \/ /\ entry[e].deleted = Active /\ entry[e].owner = job.user
            /\ entry'[e] = [entry[e] EXCEPT !.deleted = clock + 1]]_vars

\* After a restore went through, every row of the file is in the vault under
\* its name, in the vault or in the trash as it was; and what is new belongs
\* to the account that imported it, with contents, folder and attachments.
RestoreBringsBackTheFile ==
  [][(job.kind = "restore" /\ job' = NoJob /\ entry' # entry) =>
       /\ \A i \in DOMAIN job.rows : \E e \in Id :
            /\ entry'[e].name = job.rows[i].name
            /\ entry'[e].deleted = job.rows[i].deleted
            /\ job.mode = "overwrite" /\ job.rows[i].deleted = Active =>
                 entry'[e] = Restored(job.user, job.rows[i])
       /\ \A e \in (made + 1)..made' : \E i \in DOMAIN job.rows :
            entry'[e] = Restored(job.user, job.rows[i])]_vars

\* Two accounts for one site never collapse into one entry: an import of rows
\* makes one entry per row, except for the names the importer had and keeps.
CsvRowsDoNotCollapse ==
  job = NoJob => \A u \in Person, mode \in Mode, names \in CsvFile :
    LET kept == {entry[e].name : e \in load_active(Db, u)} \intersect Range(names)
    IN  \A done \in {_store_import(Db, u, mode, names)} :
          done.ok => done.db.made - made =
            Len(names) - IF mode = "skip" THEN Cardinality(kept) ELSE 0

\* A backup that is handed out leaves nothing out: all that its account could
\* see when it asked, as it stood at one later moment, whatever was changed,
\* removed or damaged in between.
ExportLeavesNothingOut ==
  [][job'.kind = "written" /\ job.kind = "deriving" =>
       /\ Len(job'.rows) = Cardinality(job.ids)
       /\ \A e \in job.ids : Exists(Db, e) /\ entry[e].damaged = "no"
            /\ \E i \in DOMAIN job'.rows : job'.rows[i] = BackupEntry(e)]_vars

\* "Update fields on one entry", "Move one writable entry to Trash": a tool
\* changes the entry whose id it was given and no other one.
ToolsActOnTheirEntry == ~misdirected
=============================================================================

------------------------------ MODULE VaultFile ------------------------------
(***************************************************************************)
(* The files of the vault (backend/storage.py): vault.db with its          *)
(* write-ahead log, and what the server, a restore, a set-aside and the    *)
(* offline migrations do to them, one system call at a time.  A process    *)
(* may be killed, or meet an error, between any two of these steps.        *)
(*                                                                         *)
(* The content of a vault is the number of transactions committed to it; a *)
(* file is named by the vault it belongs to and the number of transactions *)
(* it holds.  A restored copy counts as a vault of its own, so that the    *)
(* vault it replaces keeps its name.  SQLite itself is external: a commit  *)
(* goes to the log, a checkpoint folds the log into the file.              *)
(***************************************************************************)
EXTENDS Integers, FiniteSets

CONSTANTS
  Process,     \* processes that use the data folder: servers, ciphermoth-admin
  MaxVaults,   \* bound: vaults ever created or restored
  MaxCommits,  \* bound: transactions committed to one vault
  MaxKept,     \* bound: folders of replaced vaults
  Ops          \* what the processes are started for, and "snapshot"

ASSUME VaultFileAssumption ==
  /\ MaxVaults \in Nat \ {0}
  /\ MaxCommits \in Nat \ {0, 1}
  /\ MaxKept \in Nat
  /\ 0 \notin Process
  /\ Ops \subseteq {"serve", "restore", "set_aside", "migrate", "reset", "snapshot"}

VARIABLES
  live,       \* vault.db
  wal,        \* vault.db-wal
  staged,     \* vault.db.restoring is there
  pending,    \* snapshots/set-aside-in-progress
  kept,       \* snapshots/replaced-* and snapshots/set-aside-*
  snapshots,  \* snapshots/*.db, each with the vault and the content it copies
  lock,       \* the process that holds vault.lock
  proc,       \* the processes
  committed,  \* how many transactions each vault was told are committed
  current,    \* from which transaction on its schema is the present one
  offline,    \* the transactions written by a migration or a settings reset
  away,       \* a vault.db somebody moved off without its log
  next        \* the next vault's name

vars == <<live, wal, staged, pending, kept, snapshots, lock, proc, committed,
          current, offline, away, next>>

Vault == 1..MaxVaults
NoProcess == 0
Content == 0..MaxCommits

\* A file that exists may still be empty; vault 0 then, and no content.
File == [exists : BOOLEAN, vault : 0..MaxVaults, upto : Content]
NoFile == [exists |-> FALSE, vault |-> 0, upto |-> 0]
EmptyFile == [NoFile EXCEPT !.exists = TRUE]
FileOf(v, n) == [exists |-> TRUE, vault |-> v, upto |-> n]

\* A folder with a vault file, its log, and the log moved in unfolded.
Folder == [exists : BOOLEAN, main : File, wal : File, unfolded : File]
NoFolder == [exists |-> FALSE, main |-> NoFile, wal |-> NoFile,
             unfolded |-> NoFile]
NewFolder == [NoFolder EXCEPT !.exists = TRUE]

Copy == [vault : Vault, upto : Content]

Steps == {"idle", "prepare", "schema", "serving", "stage", "retire",
          "keep_main", "keep_wal", "fold", "move_sidecars", "replace",
          "cleanup", "mark", "move_main", "move_wal", "publish", "copy",
          "write", "close"}
Idle == [op |-> "none", step |-> "idle", folder |-> NoFolder]

-----------------------------------------------------------------------------
\* What SQLite reads from a file with a log next to it.
Read(main, log) ==
  IF log.vault = main.vault /\ log.upto > main.upto THEN log.upto
                                                    ELSE main.upto

HasVault(file) == file.vault # 0

Data == Read(live, wal)

\* identity_problem(): the file was written for the schema of this release.
IsCurrent == HasVault(live) /\ current[live.vault] <= Data

\* Mutant: a log next to a missing or empty vault file is not noticed.
NothingOrphaned == FALSE

\* refuse_orphaned_journals()
OrphanedJournal == ~HasVault(live) /\ HasVault(wal)

Step(p, from, to) ==
  /\ proc[p].step = from
  /\ proc' = [proc EXCEPT ![p].step = to]

AtStep(p, op, step) == proc[p].op = op /\ proc[p].step = step

\* The last connection closes, or a restore folds the log before it goes on.
FoldLog ==
  /\ live' = [live EXCEPT !.upto = Data]
  /\ wal' = NoFile

\* A transaction of the open vault, acknowledged.
AppendCommit ==
  /\ Data < MaxCommits
  /\ wal' = FileOf(live.vault, Data + 1)
  /\ committed' = [committed EXCEPT ![live.vault] = Data + 1]

(***************************************************************************)
(* VaultLock.  It is not waited for, and the operating system releases it  *)
(* with the process.                                                       *)
(***************************************************************************)
FirstStep(op) ==
  CASE op = "serve" -> "prepare"
    [] op = "restore" -> "stage"
    [] op = "set_aside" -> "mark"
    [] op \in {"migrate", "reset"} -> "copy"

\* Mutant: the lock is taken whoever holds it.
AcquireAnyway(p, op) ==
  /\ op \in Ops
  /\ proc[p] = Idle
  /\ lock' = p
  /\ proc' = [proc EXCEPT ![p] = [Idle EXCEPT !.op = op,
                                             !.step = FirstStep(op)]]
  /\ UNCHANGED <<live, wal, staged, pending, kept, snapshots, committed,
                 current, offline, away, next>>

Acquire(p, op) ==
  /\ op \in Ops
  /\ proc[p] = Idle
  /\ lock = NoProcess
  /\ lock' = p
  /\ proc' = [proc EXCEPT ![p] = [Idle EXCEPT !.op = op,
                                             !.step = FirstStep(op)]]
  /\ UNCHANGED <<live, wal, staged, pending, kept, snapshots, committed,
                 current, offline, away, next>>

\* Another process has the lock.  restore() catches that error with all the
\* others and removes the staged copy on its way out.
RefuseRestore(p) ==
  /\ "restore" \in Ops
  /\ proc[p] = Idle
  /\ lock # NoProcess
  /\ proc' = [proc EXCEPT ![p] = [Idle EXCEPT !.op = "restore",
                                             !.step = "cleanup"]]
  /\ UNCHANGED <<live, wal, staged, pending, kept, snapshots, lock, committed,
                 current, offline, away, next>>

\* Mutant: a folder is counted that was never made.
KeptAnyway(p) == kept \union {proc[p].folder}

\* The folder a restore was filling is on disk, whatever becomes of the process.
KeptWith(p) ==
  kept \union {f \in {proc[p].folder} : f.exists}

Finish(p) ==
  /\ proc' = [proc EXCEPT ![p] = Idle]
  /\ lock' = NoProcess
  /\ kept' = KeptWith(p)

-----------------------------------------------------------------------------
(***************************************************************************)
(* The server: lifespan() around prepare_data_dir() and ensure_schema().   *)
(***************************************************************************)
Prepare(p) ==
  /\ AtStep(p, "serve", "prepare")
  /\ ~pending.exists
  /\ ~OrphanedJournal
  /\ HasVault(live) => Data = 0 \/ IsCurrent
  /\ live' = IF live.exists THEN live ELSE EmptyFile
  /\ Step(p, "prepare", "schema")
  /\ UNCHANGED <<wal, staged, pending, kept, snapshots, lock, committed,
                 current, offline, away, next>>

\* The first connection turns an empty file into an empty database.
OpenEmpty(p) ==
  /\ AtStep(p, "serve", "schema") /\ ~HasVault(live)
  /\ next <= MaxVaults
  /\ live' = FileOf(next, 0)
  /\ current' = [current EXCEPT ![next] = 1]
  /\ next' = next + 1
  /\ UNCHANGED <<wal, staged, pending, kept, snapshots, lock, proc, committed,
                 offline, away>>

\* One transaction creates the schema, unless it is there.
EnsureSchema(p) ==
  /\ AtStep(p, "serve", "schema") /\ HasVault(live)
  /\ IF Data = 0 THEN AppendCommit ELSE UNCHANGED <<wal, committed>>
  /\ Step(p, "schema", "serving")
  /\ UNCHANGED <<live, staged, pending, kept, snapshots, lock, current,
                 offline, away, next>>

Write(p) ==
  /\ AtStep(p, "serve", "serving")
  /\ AppendCommit
  /\ UNCHANGED <<live, staged, pending, kept, snapshots, lock, proc, current,
                 offline, away, next>>

\* SQLite's own checkpoint while the log stays in place.
AutoCheckpoint(p) ==
  /\ AtStep(p, "serve", "serving") /\ HasVault(wal)
  /\ live' = [live EXCEPT !.upto = Data]
  /\ UNCHANGED <<wal, staged, pending, kept, snapshots, lock, proc, committed,
                 current, offline, away, next>>

\* database.dispose()
StopServer(p) ==
  /\ AtStep(p, "serve", "serving")
  /\ FoldLog
  /\ Finish(p)
  /\ UNCHANGED <<staged, pending, snapshots, committed, current, offline,
                 away, next>>

\* snapshot(), next to whatever else runs: a partial copy gets its name at the
\* end.
Snapshot ==
  /\ "snapshot" \in Ops
  /\ IsCurrent
  /\ snapshots' = snapshots \union {[vault |-> live.vault, upto |-> Data]}
  /\ UNCHANGED <<live, wal, staged, pending, kept, lock, proc, committed,
                 current, offline, away, next>>

(***************************************************************************)
(* restore() and its _retire().  Every source is checked and copied in     *)
(* full; which one it is does not matter here.                             *)
(***************************************************************************)
\* Mutant: an interrupted set-aside does not stop a restore.
StageAnyway(p) ==
  /\ AtStep(p, "restore", "stage")
  /\ staged' = TRUE
  /\ Step(p, "stage", "retire")
  /\ UNCHANGED <<live, wal, pending, kept, snapshots, lock, committed,
                 current, offline, away, next>>

StageCopy(p) ==
  /\ AtStep(p, "restore", "stage")
  /\ ~pending.exists
  /\ staged' = TRUE
  /\ Step(p, "stage", "retire")
  /\ UNCHANGED <<live, wal, pending, kept, snapshots, lock, committed,
                 current, offline, away, next>>

\* _take_exclusively() and _kept_folder()
Retire(p) ==
  /\ AtStep(p, "restore", "retire")
  /\ Cardinality(kept) < MaxKept
  /\ proc' = [proc EXCEPT ![p] =
       IF HasVault(live)
       THEN [@ EXCEPT !.step = "keep_main", !.folder = NewFolder]
       ELSE IF wal.exists
       THEN [@ EXCEPT !.step = "move_sidecars", !.folder = NewFolder]
       ELSE [@ EXCEPT !.step = "replace"]]
  /\ UNCHANGED <<live, wal, staged, pending, kept, snapshots, lock, committed,
                 current, offline, away, next>>

KeepMain(p) ==
  /\ AtStep(p, "restore", "keep_main")
  /\ proc' = [proc EXCEPT ![p].step = "keep_wal", ![p].folder.main = live]
  /\ UNCHANGED <<live, wal, staged, pending, kept, snapshots, lock, committed,
                 current, offline, away, next>>

\* Mutant: the log is not copied with the file.
KeepMainOnly(p) ==
  /\ AtStep(p, "restore", "keep_wal")
  /\ proc' = [proc EXCEPT ![p].step = "fold"]
  /\ UNCHANGED <<live, wal, staged, pending, kept, snapshots, lock, committed,
                 current, offline, away, next>>

KeepWal(p) ==
  /\ AtStep(p, "restore", "keep_wal")
  /\ proc' = [proc EXCEPT ![p].step = "fold", ![p].folder.wal = wal]
  /\ UNCHANGED <<live, wal, staged, pending, kept, snapshots, lock, committed,
                 current, offline, away, next>>

\* wal_checkpoint(TRUNCATE) and journal_mode=DELETE; an error is suppressed,
\* and the log is then still there, folded or not.
Fold(p) ==
  /\ AtStep(p, "restore", "fold")
  /\ \/ FoldLog
     \/ /\ live' \in {live, [live EXCEPT !.upto = Data]}
        /\ UNCHANGED wal
  /\ Step(p, "fold", "move_sidecars")
  /\ UNCHANGED <<staged, pending, kept, snapshots, lock, committed, current,
                 offline, away, next>>

\* Mutant: what is left of the log stays next to the vault.
LeaveSidecars(p) ==
  /\ AtStep(p, "restore", "move_sidecars")
  /\ Step(p, "move_sidecars", "replace")
  /\ UNCHANGED <<live, wal, staged, pending, kept, snapshots, lock, committed,
                 current, offline, away, next>>

\* Mutant: a log that is still there is deleted.
DeleteSidecars(p) ==
  /\ AtStep(p, "restore", "move_sidecars")
  /\ wal' = NoFile
  /\ Step(p, "move_sidecars", "replace")
  /\ UNCHANGED <<live, staged, pending, kept, snapshots, lock, committed,
                 current, offline, away, next>>

\* _move_sidecars(): a log that is still there leaves before the new file comes.
MoveSidecars(p) ==
  /\ AtStep(p, "restore", "move_sidecars")
  /\ wal' = NoFile
  /\ proc' = [proc EXCEPT ![p].step = "replace", ![p].folder.unfolded = wal]
  /\ UNCHANGED <<live, staged, pending, kept, snapshots, lock, committed,
                 current, offline, away, next>>

Replace(p) ==
  /\ AtStep(p, "restore", "replace")
  /\ staged /\ next <= MaxVaults
  /\ live' = FileOf(next, 1)
  /\ staged' = FALSE
  /\ committed' = [committed EXCEPT ![next] = 1]
  /\ current' = [current EXCEPT ![next] = 1]
  /\ next' = next + 1
  /\ Finish(p)
  /\ UNCHANGED <<wal, pending, snapshots, offline, away>>

\* _discard(staged) of a failed restore, after its lock is gone.
Cleanup(p) ==
  /\ AtStep(p, "restore", "cleanup")
  /\ staged' = FALSE
  /\ proc' = [proc EXCEPT ![p] = Idle]
  /\ UNCHANGED <<live, wal, pending, kept, snapshots, lock, committed,
                 current, offline, away, next>>

(***************************************************************************)
(* set_aside()                                                             *)
(***************************************************************************)
\* The marker, unless an interrupted set-aside left it.
MarkPending(p) ==
  /\ AtStep(p, "set_aside", "mark")
  /\ Cardinality(kept) < MaxKept
  /\ pending.exists \/ live.exists \/ wal.exists
  /\ pending' = [pending EXCEPT !.exists = TRUE]
  /\ Step(p, "mark", "move_main")
  /\ UNCHANGED <<live, wal, staged, kept, snapshots, lock, committed,
                 current, offline, away, next>>

\* Two files of one name stop it: it never overwrites.
MoveMain(p) ==
  /\ AtStep(p, "set_aside", "move_main")
  /\ ~(live.exists /\ pending.main.exists)
  /\ IF live.exists THEN pending' = [pending EXCEPT !.main = live]
                    ELSE UNCHANGED pending
  /\ live' = NoFile
  /\ Step(p, "move_main", "move_wal")
  /\ UNCHANGED <<wal, staged, kept, snapshots, lock, committed, current,
                 offline, away, next>>

MoveWal(p) ==
  /\ AtStep(p, "set_aside", "move_wal")
  /\ ~(wal.exists /\ pending.wal.exists)
  /\ IF wal.exists THEN pending' = [pending EXCEPT !.wal = wal]
                   ELSE UNCHANGED pending
  /\ wal' = NoFile
  /\ Step(p, "move_wal", "publish")
  /\ UNCHANGED <<live, staged, kept, snapshots, lock, committed, current,
                 offline, away, next>>

Publish(p) ==
  /\ AtStep(p, "set_aside", "publish")
  /\ kept' = kept \union {pending}
  /\ pending' = NoFolder
  /\ proc' = [proc EXCEPT ![p] = Idle]
  /\ lock' = NoProcess
  /\ UNCHANGED <<live, wal, staged, snapshots, committed, current, offline,
                 away, next>>

(***************************************************************************)
(* migrate_users(), migrate_folders() and reset_settings(): a rollback     *)
(* snapshot, one transaction, and the connection closes.                   *)
(***************************************************************************)
\* Mutant: the transaction comes without the snapshot.
SkipRollbackCopy(p) ==
  /\ proc[p].op \in {"migrate", "reset"} /\ proc[p].step = "copy"
  /\ HasVault(live)
  /\ proc[p].op = "reset" <=> IsCurrent
  /\ Step(p, "copy", "write")
  /\ UNCHANGED <<live, wal, staged, pending, kept, snapshots, lock, committed,
                 current, offline, away, next>>

RollbackCopy(p) ==
  /\ proc[p].op \in {"migrate", "reset"} /\ proc[p].step = "copy"
  /\ HasVault(live) /\ Data > 0
  /\ proc[p].op = "reset" <=> IsCurrent
  /\ snapshots' = snapshots \union {[vault |-> live.vault, upto |-> Data]}
  /\ Step(p, "copy", "write")
  /\ UNCHANGED <<live, wal, staged, pending, kept, lock, committed, current,
                 offline, away, next>>

WriteOffline(p) ==
  /\ proc[p].step = "write"
  /\ AppendCommit
  /\ offline' = offline \union {[vault |-> live.vault, upto |-> Data + 1]}
  /\ current' = IF proc[p].op = "migrate"
                THEN [current EXCEPT ![live.vault] = Data + 1] ELSE current
  /\ Step(p, "write", "close")
  /\ UNCHANGED <<live, staged, pending, kept, snapshots, lock, away, next>>

CloseOffline(p) ==
  /\ proc[p].step = "close"
  /\ FoldLog
  /\ Finish(p)
  /\ UNCHANGED <<staged, pending, snapshots, committed, current, offline,
                 away, next>>

-----------------------------------------------------------------------------
(***************************************************************************)
(* A process ends before its work is done.                                 *)
(***************************************************************************)
\* Any StorageError or OSError; a copy that was being kept is removed again.
\* Whether a closing connection still folds the log makes no difference to what
\* can be read, and it may fail to: the log stays.
Fail(p) ==
  /\ proc[p].step \notin {"idle", "serving", "cleanup"}
  /\ proc' = [proc EXCEPT ![p] =
               IF @.op = "restore"
               THEN [Idle EXCEPT !.op = "restore", !.step = "cleanup"]
               ELSE Idle]
  /\ lock' = NoProcess
  /\ kept' = IF proc[p].step \in {"keep_main", "keep_wal"}
             THEN kept ELSE KeptWith(p)
  /\ UNCHANGED <<live, wal, staged, pending, snapshots, committed, current,
                 offline, away, next>>

\* A kill, a crash or a power cut: nothing is cleaned up.
Kill(p) ==
  /\ proc[p] # Idle
  /\ proc' = [proc EXCEPT ![p] = Idle]
  /\ lock' = IF lock = p THEN NoProcess ELSE lock
  /\ kept' = KeptWith(p)
  /\ UNCHANGED <<live, wal, staged, pending, snapshots, committed, current,
                 offline, away, next>>

\* A new folder; a vault of an older release, with transactions in its log; or
\* a log whose vault file was moved off ("a copy gone wrong").
Init ==
  /\ \/ /\ live = NoFile /\ wal = NoFile /\ away = NoFile
        /\ next = 1
        /\ committed = [v \in Vault |-> 0]
        /\ current = [v \in Vault |-> 0]
     \/ /\ live = FileOf(1, 1) /\ wal = FileOf(1, 2) /\ away = NoFile
        /\ next = 2
        /\ committed = [v \in Vault |-> IF v = 1 THEN 2 ELSE 0]
        /\ current = [v \in Vault |-> IF v = 1 THEN MaxCommits + 1 ELSE 0]
     \/ /\ live = NoFile /\ wal = FileOf(1, 2) /\ away = FileOf(1, 1)
        /\ next = 2
        /\ committed = [v \in Vault |-> IF v = 1 THEN 2 ELSE 0]
        /\ current = [v \in Vault |-> IF v = 1 THEN 1 ELSE 0]
  /\ staged = FALSE
  /\ pending = NoFolder
  /\ kept = {} /\ snapshots = {} /\ offline = {}
  /\ lock = NoProcess
  /\ proc = [p \in Process |-> Idle]

Serve(p) ==
  \/ Prepare(p) \/ OpenEmpty(p) \/ EnsureSchema(p)
  \/ Write(p) \/ AutoCheckpoint(p) \/ StopServer(p)

Restore(p) ==
  \/ RefuseRestore(p) \/ StageCopy(p) \/ Retire(p) \/ KeepMain(p)
  \/ KeepWal(p) \/ Fold(p) \/ MoveSidecars(p) \/ Replace(p) \/ Cleanup(p)

SetAside(p) == MarkPending(p) \/ MoveMain(p) \/ MoveWal(p) \/ Publish(p)

Offline(p) == RollbackCopy(p) \/ WriteOffline(p) \/ CloseOffline(p)

Next ==
  \/ \E p \in Process :
       \/ \E op \in Ops \ {"snapshot"} : Acquire(p, op)
       \/ Serve(p) \/ Restore(p) \/ SetAside(p) \/ Offline(p)
       \/ Fail(p) \/ Kill(p)
  \/ Snapshot

Spec == Init /\ [][Next]_vars

-----------------------------------------------------------------------------
\* The files, folders and processes are well formed, and a kept folder is one
\* that was made (storage.py:_kept_folder).
TypeOK ==
  /\ live \in File /\ wal \in File /\ away \in File
  /\ staged \in BOOLEAN
  /\ pending \in Folder /\ kept \subseteq {f \in Folder : f.exists}
  /\ snapshots \subseteq Copy /\ offline \subseteq Copy
  /\ lock \in Process \union {NoProcess}
  /\ proc \in [Process -> [op : {"none", "serve", "restore", "set_aside",
                                 "migrate", "reset"},
                           step : Steps, folder : Folder]]
  /\ committed \in [Vault -> Content]
  /\ current \in [Vault -> 0..(MaxCommits + 1)]
  /\ next \in 1..(MaxVaults + 1)

\* A log is never next to the file of another vault, where SQLite would replay
\* it, in the data folder or in a folder of kept files (storage.py:_retire).
NoForeignJournal ==
  /\ HasVault(live) /\ HasVault(wal) => live.vault = wal.vault
  /\ \A f \in kept \union {proc[p].folder : p \in Process} :
       HasVault(f.main) /\ HasVault(f.wal) => f.main.vault = f.wal.vault

\* The files are well formed and those that are together belong together, after
\* every system call of every process (storage.py).
FilesAreSound == TypeOK /\ NoForeignJournal

Logs == {wal, pending.wal}
          \union {f.wal : f \in kept} \union {f.unfolded : f \in kept}
          \union {proc[p].folder.unfolded : p \in Process}

\* Where a vault can be opened from: a file with the log that goes with it.  An
\* interrupted set-aside is finished first; a file that was moved off is put
\* back next to its log.
Places ==
  {<<live, wal>>, <<pending.main, pending.wal>>, <<pending.main, wal>>}
    \union {<<f.main, f.wal>> : f \in kept}
    \union {<<proc[p].folder.main, proc[p].folder.wal>> : p \in Process}
    \union {<<away, l>> : l \in Logs}

\* Every transaction that was ever acknowledged, of the vault in use and of all
\* that were replaced or set aside, can be read from somewhere, whatever was
\* killed in between (storage.py:restore, :set_aside).
NothingIsLost ==
  \A v \in Vault :
    committed[v] = 0 \/
    \E q \in Places : q[1].vault = v /\ Read(q[1], q[2]) >= committed[v]

\* A set-aside that was interrupted can be finished: no file is both in the
\* data folder and in the folder it is being moved to.
SetAsideCanResume ==
  /\ ~(live.exists /\ pending.main.exists)
  /\ ~(wal.exists /\ pending.wal.exists)

\* A migration or settings reset can be undone: the vault as it was just before
\* is in the snapshot folder (storage.py:migrate_folders, :reset_settings).
RollbackIsThere ==
  \A c \in offline : [c EXCEPT !.upto = @ - 1] \in snapshots

\* "If the restore is interrupted at any point, vault.db is a complete vault,
\* either the old one or the restored one" (UPDATING.md:106): whenever the server
\* works on a vault, or nobody does, everything that was committed to it is
\* there.  The exception is a log that SQLite failed to fold, which _retire()
\* moved into a kept folder.
InterruptedRestoreIsComplete ==
  (lock = NoProcess \/ \E p \in Process : AtStep(p, "serve", "serving"))
    /\ HasVault(live) /\ ~pending.exists =>
    \/ Data = committed[live.vault]
    \/ \E f \in kept \union {proc[p].folder : p \in Process} :
         f.unfolded.exists /\ f.unfolded.vault = live.vault

\* "An exclusive lock on the data folder" (storage.py:731): the copy a restore
\* has staged stays there until that restore renames it.  A second restore that
\* the lock turned away removes it.
StagedCopyStays ==
  \A p \in Process :
    proc[p].step \in {"retire", "keep_main", "keep_wal", "fold",
                      "move_sidecars", "replace"} => staged
=============================================================================

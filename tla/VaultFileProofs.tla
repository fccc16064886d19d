--------------------------- MODULE VaultFileProofs ---------------------------
(***************************************************************************)
(* What VaultFile promises, for any number of processes, vaults, commits   *)
(* and kept folders: the files stay sound, no acknowledged transaction is  *)
(* lost whatever is killed or fails between two system calls, an           *)
(* interrupted set-aside can be finished, and an offline rewrite undone.   *)
(*                                                                         *)
(* The argument: the lock has one holder, so whatever a process knows      *)
(* about the files at its step (ProcOK) stays true until its next step.    *)
(***************************************************************************)
EXTENDS VaultFile, TLAPS

\* The steps at which a process does not hold the lock.
Free == {"idle", "cleanup"}

\* The steps of a restore that has a folder for what it replaces.
Filling == {"keep_main", "keep_wal", "fold", "move_sidecars", "replace"}

Row == [op : {"none", "serve", "restore", "set_aside", "migrate", "reset"},
        step : Steps, folder : Folder]

Folders == kept \union {proc[p].folder : p \in Process}

LockIsHeld == \A p \in Process : proc[p].step \notin Free => lock = p

\* What a process at its step knows about its folder and about the files.
OwnFolder(r) ==
  /\ r.step = "idle" => r = Idle
  /\ r.step \notin Filling => r.folder = NoFolder
  /\ ~r.folder.exists => r.folder = NoFolder
  /\ r.step \in Filling \ {"replace"} =>
       r.folder.exists /\ r.folder.unfolded = NoFile
  /\ r.step = "keep_main" => r.folder.main = NoFile /\ r.folder.wal = NoFile
  /\ r.step = "keep_wal" => r.folder.wal = NoFile

ProcOK(r, l, w, pend, snaps) ==
  /\ OwnFolder(r)
  /\ r.step \in {"schema", "serving", "retire"} \union Filling => ~pend.exists
  /\ r.step = "schema" /\ ~HasVault(l) => ~HasVault(w)
  /\ r.step \in {"serving", "keep_main", "keep_wal", "fold", "write", "close"}
       => HasVault(l)
  /\ r.step = "keep_wal" => r.folder.main = l
  /\ r.step = "fold" => r.folder.main = l /\ r.folder.wal = w
  /\ r.step \in {"move_sidecars", "replace"} /\ HasVault(l) =>
       /\ r.folder.main.vault = l.vault
       /\ Read(r.folder.main, r.folder.wal) >= Read(l, w)
  /\ r.step = "replace" => w = NoFile
  /\ r.step \in {"move_main", "move_wal", "publish"} => pend.exists
  /\ r.step \in {"move_wal", "publish"} => l = NoFile
  /\ r.step = "publish" => w = NoFile
  /\ r.step = "write" => [vault |-> l.vault, upto |-> Read(l, w)] \in snaps

ProcsFit == \A p \in Process : ProcOK(proc[p], live, wal, pending, snapshots)

\* What is together belongs together, and nothing is in two places.
FilesFit ==
  /\ ~live.exists => live = NoFile
  /\ ~wal.exists => wal = NoFile
  /\ ~pending.main.exists => pending.main = NoFile
  /\ ~pending.wal.exists => pending.wal = NoFile
  /\ ~pending.exists => pending = NoFolder
  /\ pending.main.exists => ~live.exists
  /\ pending.wal.exists => ~live.exists /\ ~wal.exists
  /\ HasVault(live) /\ HasVault(wal) => live.vault = wal.vault
  /\ HasVault(pending.main) /\ HasVault(wal) => pending.main.vault = wal.vault
  /\ HasVault(pending.main) /\ HasVault(pending.wal) =>
       pending.main.vault = pending.wal.vault

FolderFits(f) == HasVault(f.main) /\ HasVault(f.wal) => f.main.vault = f.wal.vault

FoldersFit == \A f \in Folders : FolderFits(f)

Fresh ==
  /\ away.vault < next /\ live.vault < next
  /\ \A v \in Vault : v >= next => committed[v] = 0

\* The content c of vault v can be read from this file and this log.
Holds(main, log, v, c) == main.vault = v /\ Read(main, log) >= c

SafeAt(v) ==
  \/ Holds(live, wal, v, committed[v])
  \/ Holds(pending.main, pending.wal, v, committed[v])
  \/ Holds(pending.main, wal, v, committed[v])
  \/ \E f \in Folders : Holds(f.main, f.wal, v, committed[v])

\* The log l has what the file that was moved off lacks.
Completes(l) == l.vault = away.vault /\ Read(away, l) >= committed[away.vault]

\* A file that was moved off finds its log again; every other vault is whole
\* somewhere.
AwaySafe ==
  HasVault(away) =>
    /\ live.vault # away.vault
    /\ \E l \in Logs : Completes(l)

RestSafe == \A v \in Vault : v # away.vault /\ committed[v] # 0 => SafeAt(v)

Unfolded(v) == \E f \in Folders : f.unfolded.exists /\ f.unfolded.vault = v

Complete == HasVault(live) => Data = committed[live.vault] \/ Unfolded(live.vault)

IInv ==
  /\ TypeOK /\ LockIsHeld /\ ProcsFit /\ FilesFit /\ FoldersFit /\ Fresh
  /\ AwaySafe /\ RestSafe /\ Complete /\ RollbackIsThere

-----------------------------------------------------------------------------
(***************************************************************************)
(* The operators.                                                          *)
(***************************************************************************)
\* The files and folders that are not there are files and folders.
LEMMA Blanks ==
  /\ NoFile \in File /\ EmptyFile \in File
  /\ NoFile.vault = 0 /\ NoFile.upto = 0 /\ ~NoFile.exists
  /\ EmptyFile.vault = 0 /\ EmptyFile.upto = 0 /\ EmptyFile.exists
  /\ NoFolder \in Folder /\ ~NoFolder.exists
  /\ NoFolder.main = NoFile /\ NoFolder.wal = NoFile /\ NoFolder.unfolded = NoFile
  /\ NewFolder \in Folder /\ NewFolder.exists
  /\ NewFolder.main = NoFile /\ NewFolder.wal = NoFile
  /\ NewFolder.unfolded = NoFile
  /\ Idle \in Row /\ Idle.step = "idle" /\ Idle.folder = NoFolder
  /\ Idle.op = "none"
<1>1. 0 \in 0..MaxVaults /\ 0 \in Content
  BY VaultFileAssumption DEF Content
<1>2. NoFile \in File /\ NoFile.vault = 0 /\ NoFile.upto = 0 /\ ~NoFile.exists
  BY <1>1 DEF NoFile, File
<1>3. EmptyFile \in File /\ EmptyFile.vault = 0 /\ EmptyFile.upto = 0
      /\ EmptyFile.exists
  BY <1>1 DEF NoFile, EmptyFile, File
<1>4. /\ NoFolder \in Folder /\ ~NoFolder.exists
      /\ NoFolder.main = NoFile /\ NoFolder.wal = NoFile
      /\ NoFolder.unfolded = NoFile
  BY <1>2 DEF NoFolder, Folder
<1>5. /\ NewFolder \in Folder /\ NewFolder.exists
      /\ NewFolder.main = NoFile /\ NewFolder.wal = NoFile
      /\ NewFolder.unfolded = NoFile
  BY <1>4 DEF NewFolder, NoFolder, Folder
<1>6. /\ Idle \in Row /\ Idle.step = "idle" /\ Idle.folder = NoFolder
      /\ Idle.op = "none"
  BY <1>4 DEF Idle, Row, Steps
<1>7. QED
  BY <1>2, <1>3, <1>4, <1>5, <1>6

\* A file of a vault is a file.
LEMMA FileOfType ==
  ASSUME NEW v \in 0..MaxVaults, NEW n \in Content
  PROVE  /\ FileOf(v, n) \in File /\ FileOf(v, n).vault = v
         /\ FileOf(v, n).upto = n /\ FileOf(v, n).exists
BY DEF FileOf, File

\* What is read is content, and at least what the file itself has.
LEMMA ReadType ==
  ASSUME NEW m \in File, NEW l \in File
  PROVE  /\ Read(m, l) \in Content /\ Read(m, l) >= m.upto
         /\ l.vault # m.vault => Read(m, l) = m.upto
         /\ l = NoFile => Read(m, l) = m.upto
<1>1. /\ m.upto \in Content /\ l.upto \in Content
      /\ m.upto \in Nat /\ l.upto \in Nat
  BY VaultFileAssumption DEF File, Content
<1>2. Read(m, l) \in Content /\ Read(m, l) >= m.upto
  BY <1>1 DEF Read
<1>3. l.vault # m.vault => Read(m, l) = m.upto
  BY DEF Read
<1>4. l = NoFile => Read(m, l) = m.upto
  BY <1>1, Blanks DEF Read
<1>5. QED
  BY <1>2, <1>3, <1>4

\* The log folded into its file: a checkpoint.
Folded(m, l) == [m EXCEPT !.upto = Read(m, l)]

\* A checkpoint changes nothing that can be read.
LEMMA FoldedReads ==
  ASSUME NEW m \in File, NEW l \in File
  PROVE  /\ Folded(m, l) \in File /\ Folded(m, l).vault = m.vault
         /\ Folded(m, l).exists = m.exists
         /\ Folded(m, l).upto = Read(m, l)
         /\ Read(Folded(m, l), l) = Read(m, l)
         /\ Read(Folded(m, l), NoFile) = Read(m, l)
<1>1. Read(m, l) \in Content /\ Read(m, l) >= m.upto
  BY ReadType
<1>2. /\ Folded(m, l) \in File /\ Folded(m, l).vault = m.vault
      /\ Folded(m, l).exists = m.exists /\ Folded(m, l).upto = Read(m, l)
  BY <1>1 DEF Folded, File
<1>3. Read(Folded(m, l), NoFile) = Read(m, l)
  BY <1>2, Blanks, ReadType
<1>4. Read(Folded(m, l), l) = Read(m, l)
  <2>1. m.upto \in Nat /\ l.upto \in Nat
    BY VaultFileAssumption DEF File, Content
  <2>2. CASE l.vault = m.vault /\ l.upto > m.upto
    BY <1>2, <2>1, <2>2 DEF Read
  <2>3. CASE ~(l.vault = m.vault /\ l.upto > m.upto)
    BY <1>2, <2>1, <2>3 DEF Read
  <2>4. QED
    BY <2>2, <2>3
<1>5. QED
  BY <1>2, <1>3, <1>4

\* A transaction appended to the log is read.
LEMMA AppendReads ==
  ASSUME NEW m \in File, NEW l \in File, Read(m, l) < MaxCommits
  PROVE  /\ Read(m, l) + 1 \in Content
         /\ FileOf(m.vault, Read(m, l) + 1) \in File
         /\ Read(m, FileOf(m.vault, Read(m, l) + 1)) = Read(m, l) + 1
<1>1. /\ Read(m, l) \in Content /\ Read(m, l) >= m.upto
      /\ m.upto \in Nat /\ m.vault \in 0..MaxVaults
  BY ReadType, VaultFileAssumption DEF File, Content
<1>2. Read(m, l) + 1 \in Content
  BY <1>1, VaultFileAssumption DEF Content
<1>3. /\ FileOf(m.vault, Read(m, l) + 1) \in File
      /\ FileOf(m.vault, Read(m, l) + 1).vault = m.vault
      /\ FileOf(m.vault, Read(m, l) + 1).upto = Read(m, l) + 1
  BY <1>1, <1>2, FileOfType
<1>4. Read(m, FileOf(m.vault, Read(m, l) + 1)) = Read(m, l) + 1
  <2> DEFINE n == Read(m, l) + 1
  <2>1. n \in Nat /\ n > m.upto
    BY <1>1, <1>2, VaultFileAssumption DEF Content
  <2> HIDE DEF n
  <2>2. Read(m, FileOf(m.vault, n)) = n
    BY <2>1, <1>3 DEF Read, n
  <2>3. QED
    BY <2>2 DEF n
<1>5. QED
  BY <1>2, <1>3, <1>4

\* A process without the lock knows nothing about the files.
LEMMA FreeFits ==
  ASSUME NEW r, r.step \in Free, OwnFolder(r),
         NEW l, NEW w, NEW pend, NEW snaps
  PROVE  ProcOK(r, l, w, pend, snaps)
BY DEF ProcOK, Free, Filling

-----------------------------------------------------------------------------
(***************************************************************************)
(* One process takes a step: what the others know is still true.           *)
(***************************************************************************)
LEMMA ProcStep ==
  ASSUME TypeOK, LockIsHeld, ProcsFit,
         NEW p \in Process, NEW r \in Row,
         proc' = [proc EXCEPT ![p] = r],
         r.step \notin Free => lock' = p,
         ProcOK(r, live', wal', pending', snapshots'),
         \A q \in Process \ {p} :
           proc[q].step \in Free
             \/ UNCHANGED <<live, wal, pending, snapshots, lock>>
  PROVE  proc' \in [Process -> Row] /\ LockIsHeld' /\ ProcsFit'
<1>1. proc \in [Process -> Row]
  BY DEF TypeOK, Row
<1>2. proc'[p] = r /\ \A q \in Process \ {p} : proc'[q] = proc[q]
  BY <1>1
<1>3. proc' \in [Process -> Row]
  BY <1>1
<1>4. LockIsHeld'
  <2>1. SUFFICES ASSUME NEW q \in Process, proc'[q].step \notin Free
                 PROVE  lock' = q
    BY DEF LockIsHeld
  <2>2. CASE q = p
    BY <1>2, <2>1, <2>2
  <2>3. CASE q # p
    <3>1. proc[q].step \notin Free
      BY <1>2, <2>1, <2>3
    <3>2. lock' = lock
      BY <2>3, <3>1
    <3>3. QED
      BY <3>1, <3>2 DEF LockIsHeld
  <2>4. QED
    BY <2>2, <2>3
<1>5. ProcsFit'
  <2>1. SUFFICES ASSUME NEW q \in Process
                 PROVE  ProcOK(proc'[q], live', wal', pending', snapshots')
    BY DEF ProcsFit
  <2>2. CASE q = p
    BY <1>2, <2>2
  <2>3. CASE q # p
    <3>1. proc'[q] = proc[q]
      BY <1>2, <2>3
    <3>2. ProcOK(proc[q], live, wal, pending, snapshots)
      BY DEF ProcsFit
    <3>3. CASE proc[q].step \in Free
      <4>1. OwnFolder(proc[q])
        BY <3>2 DEF ProcOK
      <4>2. ProcOK(proc[q], live', wal', pending', snapshots')
        BY <3>3, <4>1, FreeFits
      <4>3. QED
        BY <3>1, <4>2
    <3>4. CASE UNCHANGED <<live, wal, pending, snapshots, lock>>
      BY <3>1, <3>2, <3>4
    <3>5. QED
      BY <2>3, <3>3, <3>4
  <2>4. QED
    BY <2>2, <2>3
<1>6. QED
  BY <1>3, <1>4, <1>5

\* The holder takes a step: nobody else holds the lock.
LEMMA HolderStep ==
  ASSUME TypeOK, LockIsHeld, ProcsFit,
         NEW p \in Process, proc[p].step \notin Free, NEW r \in Row,
         proc' = [proc EXCEPT ![p] = r],
         lock' = lock \/ (r.step \in Free /\ lock' = NoProcess),
         ProcOK(r, live', wal', pending', snapshots')
  PROVE  /\ proc' \in [Process -> Row] /\ LockIsHeld' /\ ProcsFit'
         /\ lock' \in Process \union {NoProcess}
<1>1. lock = p
  BY DEF LockIsHeld
<1>2. \A q \in Process \ {p} : proc[q].step \in Free
  BY <1>1 DEF LockIsHeld
<1>3. r.step \notin Free => lock' = p
  BY <1>1
<1>4. proc' \in [Process -> Row] /\ LockIsHeld' /\ ProcsFit'
  BY <1>2, <1>3, ProcStep
<1>5. lock' \in Process \union {NoProcess}
  BY DEF TypeOK
<1>6. QED
  BY <1>4, <1>5

\* A process whose record changes in its step only.
LEMMA StepRow ==
  ASSUME TypeOK, NEW p \in Process, NEW from \in Steps, NEW to \in Steps,
         Step(p, from, to)
  PROVE  \E r \in Row : /\ proc' = [proc EXCEPT ![p] = r]
                        /\ r.step = to /\ r.op = proc[p].op
                        /\ r.folder = proc[p].folder
<1>1. proc \in [Process -> Row]
  BY DEF TypeOK, Row
<1>2. proc[p] \in Row
  BY <1>1
<1> DEFINE r == [proc[p] EXCEPT !.step = to]
<1>3. r \in Row /\ r.step = to /\ r.op = proc[p].op /\ r.folder = proc[p].folder
  BY <1>2 DEF Row
<1>4. proc' = [proc EXCEPT ![p] = r]
  BY <1>1 DEF Step
<1> HIDE DEF r
<1>5. QED
  BY <1>3, <1>4

-----------------------------------------------------------------------------
(***************************************************************************)
(* The folders.                                                            *)
(***************************************************************************)
\* Nothing has been put into the folder yet.
Blank(f) == f.main = NoFile /\ f.unfolded = NoFile

\* What can be read from the folder f can be read from this file and this log.
ReadsAll(main, log, f) ==
  main.vault = f.main.vault /\ Read(main, log) >= Read(f.main, f.wal)

\* Nothing that is in a folder goes away, unless it is still in use.
FoldersStay ==
  /\ kept \subseteq kept'
  /\ \A f \in Folders :
       \/ Blank(f) \/ f \in Folders'
       \/ f.unfolded = NoFile /\ ReadsAll(live', wal', f)
       \/ f.unfolded = NoFile /\ \E g \in Folders' : ReadsAll(g.main, g.wal, f)

\* A process that keeps its folder changes none.
LEMMA SameFolders ==
  ASSUME proc \in [Process -> Row], NEW p \in Process, NEW r \in Row,
         proc' = [proc EXCEPT ![p] = r], r.folder = proc[p].folder,
         kept' = kept
  PROVE  Folders' = Folders /\ FoldersStay
<1>1. \A q \in Process : proc'[q].folder = proc[q].folder
  OBVIOUS
<1>2. Folders' = Folders
  BY <1>1 DEF Folders
<1>3. QED
  BY <1>2 DEF FoldersStay

\* A process that ends leaves its folder to the kept ones.
LEMMA EndFolders ==
  ASSUME proc \in [Process -> Row], kept \subseteq {f \in Folder : f.exists},
         NEW p \in Process, NEW r \in Row, OwnFolder(proc[p]),
         proc' = [proc EXCEPT ![p] = r], r.folder = NoFolder,
         kept' = KeptWith(p)
  PROVE  /\ kept' \subseteq {f \in Folder : f.exists}
         /\ FoldersStay
         /\ \A f \in Folders' : f = NoFolder \/ f \in Folders
<1>1. proc[p].folder \in Folder
  BY DEF Row
<1>2. kept' \subseteq {f \in Folder : f.exists} /\ kept \subseteq kept'
  BY <1>1 DEF KeptWith
<1>3. proc'[p].folder = NoFolder
      /\ \A q \in Process \ {p} : proc'[q].folder = proc[q].folder
  OBVIOUS
<1>4. proc[p].folder = NoFolder \/ proc[p].folder \in kept'
  BY DEF OwnFolder, KeptWith
<1>5. ASSUME NEW f \in Folders PROVE f = NoFolder \/ f \in Folders'
  <2>1. CASE f \in kept
    BY <1>2, <2>1 DEF Folders
  <2>2. ASSUME NEW q \in Process, f = proc[q].folder
        PROVE  f = NoFolder \/ f \in Folders'
    <3>1. CASE q = p
      BY <1>4, <2>2, <3>1 DEF Folders
    <3>2. CASE q # p
      BY <1>3, <2>2, <3>2 DEF Folders
    <3>3. QED
      BY <3>1, <3>2
  <2>3. QED
    BY <1>5, <2>1, <2>2 DEF Folders
<1>6. ASSUME NEW f \in Folders' PROVE f = NoFolder \/ f \in Folders
  <2>1. CASE f \in kept'
    BY <2>1 DEF Folders, KeptWith
  <2>2. ASSUME NEW q \in Process, f = proc'[q].folder
        PROVE  f = NoFolder \/ f \in Folders
    BY <1>3, <2>2 DEF Folders
  <2>3. QED
    BY <1>6, <2>1, <2>2 DEF Folders
<1>7. FoldersStay
  BY <1>2, <1>5, Blanks DEF FoldersStay, Blank
<1>8. QED
  BY <1>2, <1>6, <1>7

\* A process changes its own folder.
LEMMA SwapFolders ==
  ASSUME proc \in [Process -> Row], NEW p \in Process, NEW r \in Row,
         proc' = [proc EXCEPT ![p] = r], kept' = kept
  PROVE  /\ r.folder \in Folders'
         /\ \A f \in Folders : f = proc[p].folder \/ f \in Folders'
         /\ \A f \in Folders' : f = r.folder \/ f \in Folders
<1>1. proc'[p] = r /\ \A q \in Process \ {p} : proc'[q] = proc[q]
  OBVIOUS
<1>2. QED
  BY <1>1 DEF Folders

\* A log with something in it stays where it is, or is still among the logs.
LEMMA LogsStay ==
  ASSUME FoldersStay, NEW l \in Logs, HasVault(l),
         l = wal => l \in Logs', l = pending.wal => l \in Logs'
  PROVE  l \in Logs'
<1>1. Logs = {wal, pending.wal} \union {f.wal : f \in kept}
               \union {f.unfolded : f \in Folders}
  BY DEF Logs, Folders
<1>2. Logs' = {wal', pending'.wal} \union {f.wal : f \in kept'}
               \union {f.unfolded : f \in Folders'}
  BY DEF Logs, Folders
<1>3. CASE l \in {wal, pending.wal}
  BY <1>3
<1>4. CASE l \in {f.wal : f \in kept}
  BY <1>2, <1>4 DEF FoldersStay
<1>5. ASSUME NEW f \in Folders, l = f.unfolded PROVE l \in Logs'
  <2>1. f.unfolded # NoFile
    BY <1>5, Blanks DEF HasVault
  <2>2. f \in Folders'
    BY <2>1 DEF FoldersStay, Blank
  <2>3. QED
    BY <1>2, <1>5, <2>2
<1>6. QED
  BY <1>1, <1>3, <1>4, <1>5

\* A vault that can be read from a folder still can, or from the files in use.
LEMMA FolderPlaces ==
  ASSUME FoldersStay, Folders \subseteq Folder, (Folders \subseteq Folder)',
         live' \in File, wal' \in File,
         NEW v, v # 0, NEW c \in Content, NEW f \in Folders,
         Holds(f.main, f.wal, v, c)
  PROVE  \/ Holds(live', wal', v, c)
         \/ \E g \in Folders' : Holds(g.main, g.wal, v, c)
<1>1. Content \subseteq Nat
  BY VaultFileAssumption DEF Content
<1>2. f.main.vault = v /\ Read(f.main, f.wal) >= c
  BY DEF Holds
<1>3. ~Blank(f)
  BY <1>2, Blanks DEF Blank
<1>4. f.main \in File /\ f.wal \in File
  BY DEF Folder
<1>5. Read(f.main, f.wal) \in Nat /\ c \in Nat
  BY <1>1, <1>4, ReadType
<1>6. CASE f \in Folders'
  BY <1>6
<1>7. CASE ReadsAll(live', wal', f)
  <2>1. Read(live', wal') \in Nat
    BY <1>1, ReadType
  <2>2. live'.vault = v /\ Read(live', wal') >= Read(f.main, f.wal)
    BY <1>2, <1>7 DEF ReadsAll
  <2>3. Read(live', wal') >= c
    BY <1>2, <1>5, <2>1, <2>2
  <2>4. QED
    BY <2>2, <2>3 DEF Holds
<1>8. ASSUME NEW g \in Folders', ReadsAll(g.main, g.wal, f)
      PROVE  Holds(g.main, g.wal, v, c)
  <2>1. g.main \in File /\ g.wal \in File
    BY DEF Folder
  <2>2. Read(g.main, g.wal) \in Nat
    BY <1>1, <2>1, ReadType
  <2>3. g.main.vault = v /\ Read(g.main, g.wal) >= Read(f.main, f.wal)
    BY <1>2, <1>8 DEF ReadsAll
  <2>4. Read(g.main, g.wal) >= c
    BY <1>2, <1>5, <2>2, <2>3
  <2>5. QED
    BY <2>3, <2>4 DEF Holds
<1>9. QED
  BY <1>3, <1>6, <1>7, <1>8 DEF FoldersStay

\* The same of a log that was moved in unfolded.
LEMMA UnfoldedStays ==
  ASSUME FoldersStay, NEW v, Unfolded(v)
  PROVE  Unfolded(v)'
<1>1. PICK f \in Folders : f.unfolded.exists /\ f.unfolded.vault = v
  BY DEF Unfolded
<1>2. f.unfolded # NoFile
  BY <1>1, Blanks
<1>3. f \in Folders'
  BY <1>2 DEF FoldersStay, Blank
<1>4. QED
  BY <1>1, <1>3 DEF Unfolded

\* The folders are folders.
LEMMA FoldersType ==
  /\ TypeOK => Folders \subseteq Folder
  /\ TypeOK' => (Folders \subseteq Folder)'
<1>1. TypeOK => Folders \subseteq Folder
  BY DEF TypeOK, Folders
<1>2. TypeOK' => (Folders \subseteq Folder)'
  BY DEF TypeOK, Folders
<1>3. QED
  BY <1>1, <1>2

\* A step that leaves the files alone and loses no folder loses nothing.
LEMMA QuietFiles ==
  ASSUME IInv, FoldersStay, TypeOK',
         UNCHANGED <<live, wal, pending, away, committed, next>>
  PROVE  FilesFit' /\ Fresh' /\ AwaySafe' /\ RestSafe' /\ Complete'
<1>1. FilesFit'
  BY DEF IInv, FilesFit, HasVault
<1>2. Fresh'
  BY DEF IInv, Fresh
<1>3. AwaySafe'
  <2>1. SUFFICES ASSUME HasVault(away)
                 PROVE  \E l \in Logs' : Completes(l)
    BY DEF IInv, AwaySafe, HasVault, Completes
  <2>2. PICK l \in Logs : Completes(l)
    BY <2>1 DEF IInv, AwaySafe
  <2>3. HasVault(l)
    BY <2>1, <2>2 DEF Completes, HasVault
  <2>4. wal \in Logs' /\ pending.wal \in Logs'
    BY DEF Logs
  <2>5. l \in Logs'
    BY <2>3, <2>4, LogsStay
  <2>6. QED
    BY <2>2, <2>5
<1>4. RestSafe'
  <2>1. SUFFICES ASSUME NEW v \in Vault, v # away.vault, committed[v] # 0
                 PROVE  SafeAt(v)'
    BY DEF RestSafe
  <2>2. SafeAt(v) /\ v # 0
    BY <2>1 DEF IInv, RestSafe, Vault
  <2>3. ASSUME NEW f \in Folders, Holds(f.main, f.wal, v, committed[v])
        PROVE  \/ Holds(live', wal', v, committed[v])
               \/ \E g \in Folders' : Holds(g.main, g.wal, v, committed[v])
    <3>1. /\ Folders \subseteq Folder /\ (Folders \subseteq Folder)'
          /\ committed[v] \in Content /\ live' \in File /\ wal' \in File
      BY FoldersType DEF IInv, TypeOK
    <3>2. QED
      BY <2>2, <2>3, <3>1, FolderPlaces
  <2>4. QED
    BY <2>2, <2>3 DEF SafeAt
<1>5. Complete'
  <2>1. ASSUME NEW v, Unfolded(v) PROVE Unfolded(v)'
    BY <2>1, UnfoldedStays
  <2>2. QED
    BY <2>1 DEF IInv, Complete, HasVault, Data
<1>6. QED
  BY <1>1, <1>2, <1>3, <1>4, <1>5

-----------------------------------------------------------------------------
(***************************************************************************)
(* Steps that leave the files alone.                                       *)
(***************************************************************************)
LEMMA QuietStep ==
  ASSUME IInv, FoldersStay, FoldersFit',
         kept' \subseteq {f \in Folder : f.exists},
         proc' \in [Process -> Row], LockIsHeld', ProcsFit',
         lock' \in Process \union {NoProcess},
         UNCHANGED <<live, wal, pending, away, committed, next, current, offline>>,
         staged' \in BOOLEAN,
         snapshots \subseteq snapshots', snapshots' \subseteq Copy
  PROVE  IInv'
<1>1. TypeOK'
  BY DEF IInv, TypeOK, Row
<1>2. FilesFit' /\ Fresh' /\ AwaySafe' /\ RestSafe' /\ Complete'
  BY <1>1, QuietFiles
<1>3. RollbackIsThere'
  BY DEF IInv, RollbackIsThere
<1>4. QED
  BY <1>1, <1>2, <1>3 DEF IInv

\* The folders that are left fit when none is new.
LEMMA SameFit ==
  ASSUME FoldersFit, \A f \in Folders' : f = NoFolder \/ f \in Folders
  PROVE  FoldersFit'
<1>1. FolderFits(NoFolder)
  BY Blanks DEF FolderFits, HasVault
<1>2. QED
  BY <1>1 DEF FoldersFit

\* What IInv says of the process that takes the step.
LEMMA TheProcess ==
  ASSUME IInv, NEW p \in Process
  PROVE  /\ proc \in [Process -> Row] /\ proc[p] \in Row
         /\ kept \subseteq {f \in Folder : f.exists}
         /\ ProcOK(proc[p], live, wal, pending, snapshots)
         /\ OwnFolder(proc[p])
         /\ Data \in Content /\ live \in File /\ wal \in File
<1>1. proc \in [Process -> Row]
  BY DEF IInv, TypeOK, Row
<1>2. ProcOK(proc[p], live, wal, pending, snapshots)
  BY DEF IInv, ProcsFit
<1>3. Data \in Content /\ live \in File /\ wal \in File
  BY ReadType DEF IInv, TypeOK, Data
<1>4. QED
  BY <1>1, <1>2, <1>3 DEF IInv, TypeOK, ProcOK

LEMMA AcquireStep ==
  ASSUME IInv, NEW p \in Process, NEW op \in Ops \ {"snapshot"}, Acquire(p, op)
  PROVE  IInv'
<1>1. /\ proc \in [Process -> Row] /\ proc[p] = Idle
      /\ kept \subseteq {f \in Folder : f.exists}
  BY TheProcess DEF Acquire
<1> DEFINE r == [Idle EXCEPT !.op = op, !.step = FirstStep(op)]
<1>2. op \in {"serve", "restore", "set_aside", "migrate", "reset"}
  BY VaultFileAssumption
<1>3. FirstStep(op) \in {"prepare", "stage", "mark", "copy"}
  BY <1>2 DEF FirstStep
<1>4. /\ r \in Row /\ r.folder = NoFolder
      /\ r.step \in {"prepare", "stage", "mark", "copy"}
  <2>1. FirstStep(op) \in Steps
    BY <1>3 DEF Steps
  <2>2. r \in Row /\ r.folder = NoFolder /\ r.step = FirstStep(op)
    BY <1>2, <2>1, Blanks DEF Row, Idle
  <2>3. QED
    BY <1>3, <2>2
<1>5. proc' = [proc EXCEPT ![p] = r] /\ lock' = p /\ lock = NoProcess
  BY DEF Acquire
<1> HIDE DEF r
<1>6. UNCHANGED <<live, wal, staged, pending, kept, snapshots, committed,
                  current, offline, away, next>>
  BY DEF Acquire
<1>7. ProcOK(r, live', wal', pending', snapshots')
  BY <1>4, Blanks DEF ProcOK, OwnFolder, Filling
<1>8. \A q \in Process : proc[q].step \in Free
  BY <1>5, VaultFileAssumption DEF IInv, LockIsHeld, NoProcess
<1>9. proc' \in [Process -> Row] /\ LockIsHeld' /\ ProcsFit'
  BY <1>4, <1>5, <1>7, <1>8, ProcStep DEF IInv
<1>10. Folders' = Folders /\ FoldersStay
  BY <1>1, <1>4, <1>5, <1>6, Blanks, SameFolders
<1>11. FoldersFit'
  BY <1>10, SameFit DEF IInv
<1>12. staged' \in BOOLEAN /\ snapshots' \subseteq Copy
  BY <1>6 DEF IInv, TypeOK
<1>13. QED
  BY <1>1, <1>5, <1>6, <1>9, <1>10, <1>11, <1>12, QuietStep

LEMMA RefuseStep ==
  ASSUME IInv, NEW p \in Process, RefuseRestore(p)
  PROVE  IInv'
<1>1. /\ proc \in [Process -> Row] /\ proc[p] = Idle
      /\ kept \subseteq {f \in Folder : f.exists}
  BY TheProcess DEF RefuseRestore
<1> DEFINE r == [Idle EXCEPT !.op = "restore", !.step = "cleanup"]
<1>2. r \in Row /\ r.folder = NoFolder /\ r.step = "cleanup"
  BY Blanks DEF Row, Idle, Steps
<1>3. proc' = [proc EXCEPT ![p] = r]
  BY DEF RefuseRestore
<1> HIDE DEF r
<1>4. UNCHANGED <<live, wal, staged, pending, kept, snapshots, lock, committed,
                  current, offline, away, next>>
  BY DEF RefuseRestore
<1>5. ProcOK(r, live', wal', pending', snapshots') /\ r.step \in Free
  BY <1>2, Blanks DEF ProcOK, OwnFolder, Filling, Free
<1>6. proc' \in [Process -> Row] /\ LockIsHeld' /\ ProcsFit'
  BY <1>2, <1>3, <1>4, <1>5, ProcStep DEF IInv
<1>7. Folders' = Folders /\ FoldersStay
  BY <1>1, <1>2, <1>3, <1>4, Blanks, SameFolders
<1>8. FoldersFit'
  BY <1>7, SameFit DEF IInv
<1>9. /\ staged' \in BOOLEAN /\ snapshots' \subseteq Copy
      /\ lock' \in Process \union {NoProcess}
  BY <1>4 DEF IInv, TypeOK
<1>10. QED
  BY <1>1, <1>4, <1>6, <1>7, <1>8, <1>9, QuietStep

LEMMA CleanupStep ==
  ASSUME IInv, NEW p \in Process, Cleanup(p)
  PROVE  IInv'
<1>1. /\ proc \in [Process -> Row] /\ proc[p].step = "cleanup"
      /\ kept \subseteq {f \in Folder : f.exists}
      /\ proc[p].folder = NoFolder
  BY TheProcess DEF Cleanup, AtStep, OwnFolder, Filling
<1>2. proc' = [proc EXCEPT ![p] = Idle] /\ Idle \in Row /\ staged' \in BOOLEAN
  BY Blanks DEF Cleanup
<1>3. UNCHANGED <<live, wal, pending, kept, snapshots, lock, committed,
                  current, offline, away, next>>
  BY DEF Cleanup
<1>4. ProcOK(Idle, live', wal', pending', snapshots') /\ Idle.step \in Free
  BY Blanks DEF ProcOK, OwnFolder, Filling, Free
<1>5. proc' \in [Process -> Row] /\ LockIsHeld' /\ ProcsFit'
  BY <1>2, <1>3, <1>4, ProcStep DEF IInv
<1>6. Folders' = Folders /\ FoldersStay
  BY <1>1, <1>2, <1>3, Blanks, SameFolders
<1>7. FoldersFit'
  BY <1>6, SameFit DEF IInv
<1>8. snapshots' \subseteq Copy /\ lock' \in Process \union {NoProcess}
  BY <1>3 DEF IInv, TypeOK
<1>9. QED
  BY <1>1, <1>2, <1>3, <1>5, <1>6, <1>7, <1>8, QuietStep

\* The staged copy and the rollback copy: the process goes on to its next step.
LEMMA StageStep ==
  ASSUME IInv, NEW p \in Process, StageCopy(p)
  PROVE  IInv'
<1>1. /\ proc \in [Process -> Row] /\ proc[p].step = "stage" /\ ~pending.exists
      /\ kept \subseteq {f \in Folder : f.exists}
      /\ proc[p].folder = NoFolder
  BY TheProcess DEF StageCopy, AtStep, OwnFolder, Filling
<1>2. PICK r \in Row : /\ proc' = [proc EXCEPT ![p] = r] /\ r.step = "retire"
                       /\ r.folder = proc[p].folder
  BY StepRow DEF StageCopy, Steps, IInv
<1>3. /\ UNCHANGED <<live, wal, pending, kept, snapshots, lock, committed,
                     current, offline, away, next>>
      /\ staged' \in BOOLEAN
  BY DEF StageCopy
<1>4. ProcOK(r, live', wal', pending', snapshots')
  BY <1>1, <1>2, <1>3, Blanks DEF ProcOK, OwnFolder, Filling
<1>5. /\ proc' \in [Process -> Row] /\ LockIsHeld' /\ ProcsFit'
      /\ lock' \in Process \union {NoProcess}
  BY <1>1, <1>2, <1>3, <1>4, HolderStep DEF IInv, Free
<1>6. Folders' = Folders /\ FoldersStay
  BY <1>1, <1>2, <1>3, SameFolders
<1>7. FoldersFit'
  BY <1>6, SameFit DEF IInv
<1>8. snapshots' \subseteq Copy
  BY <1>3 DEF IInv, TypeOK
<1>9. QED
  BY <1>1, <1>3, <1>5, <1>6, <1>7, <1>8, QuietStep

LEMMA RollbackCopyStep ==
  ASSUME IInv, NEW p \in Process, RollbackCopy(p)
  PROVE  IInv'
<1>1. /\ proc \in [Process -> Row] /\ proc[p].step = "copy" /\ HasVault(live)
      /\ kept \subseteq {f \in Folder : f.exists}
      /\ proc[p].folder = NoFolder
      /\ Data \in Content /\ live \in File
  BY TheProcess DEF RollbackCopy, OwnFolder, Filling
<1>2. PICK r \in Row : /\ proc' = [proc EXCEPT ![p] = r] /\ r.step = "write"
                       /\ r.folder = proc[p].folder
  BY StepRow DEF RollbackCopy, Steps, IInv
<1>3. UNCHANGED <<live, wal, staged, pending, kept, lock, committed, current,
                  offline, away, next>>
  BY DEF RollbackCopy
<1>4. /\ snapshots \subseteq snapshots' /\ snapshots' \subseteq Copy
      /\ [vault |-> live.vault, upto |-> Data] \in snapshots'
  <2>1. live.vault \in Vault
    BY <1>1, VaultFileAssumption DEF File, Vault, HasVault
  <2>2. [vault |-> live.vault, upto |-> Data] \in Copy
    BY <1>1, <2>1 DEF Copy
  <2>3. QED
    BY <2>2 DEF IInv, TypeOK, RollbackCopy
<1>5. ProcOK(r, live', wal', pending', snapshots')
  BY <1>1, <1>2, <1>3, <1>4, Blanks DEF ProcOK, OwnFolder, Filling, Data
<1>6. /\ proc' \in [Process -> Row] /\ LockIsHeld' /\ ProcsFit'
      /\ lock' \in Process \union {NoProcess}
  BY <1>1, <1>2, <1>3, <1>5, HolderStep DEF IInv, Free
<1>7. Folders' = Folders /\ FoldersStay
  BY <1>1, <1>2, <1>3, SameFolders
<1>8. FoldersFit'
  BY <1>7, SameFit DEF IInv
<1>9. staged' \in BOOLEAN
  BY <1>3 DEF IInv, TypeOK
<1>10. QED
  BY <1>1, <1>3, <1>4, <1>6, <1>7, <1>8, <1>9, QuietStep

\* A snapshot next to whatever else runs.
LEMMA SnapshotStep ==
  ASSUME IInv, Snapshot
  PROVE  IInv'
<1>1. UNCHANGED <<live, wal, staged, pending, kept, lock, proc, committed,
                  current, offline, away, next>>
  BY DEF Snapshot
<1>2. snapshots \subseteq snapshots' /\ snapshots' \subseteq Copy
  <2>1. live \in File /\ HasVault(live) /\ Data \in Content
    BY ReadType DEF IInv, TypeOK, Data, Snapshot, IsCurrent
  <2>2. live.vault \in Vault
    BY <2>1, VaultFileAssumption DEF File, Vault, HasVault
  <2>3. [vault |-> live.vault, upto |-> Data] \in Copy
    BY <2>1, <2>2 DEF Copy
  <2>4. QED
    BY <2>3 DEF IInv, TypeOK, Snapshot
<1>3. LockIsHeld'
  BY <1>1 DEF IInv, LockIsHeld
<1>4. ProcsFit'
  <2>1. ASSUME NEW p \in Process
        PROVE  ProcOK(proc[p], live, wal, pending, snapshots')
    <3>1. ProcOK(proc[p], live, wal, pending, snapshots)
      BY DEF IInv, ProcsFit
    <3>2. QED
      BY <1>2, <3>1 DEF ProcOK
  <2>2. QED
    BY <1>1, <2>1 DEF ProcsFit
<1>5. Folders' = Folders
  BY <1>1 DEF Folders
<1>6. FoldersStay /\ FoldersFit'
  BY <1>1, <1>5 DEF FoldersStay, FoldersFit, IInv
<1>7. /\ staged' \in BOOLEAN /\ lock' \in Process \union {NoProcess}
      /\ kept' \subseteq {f \in Folder : f.exists} /\ proc' \in [Process -> Row]
  BY <1>1 DEF IInv, TypeOK, Row
<1>8. QED
  BY <1>1, <1>2, <1>3, <1>4, <1>6, <1>7, QuietStep

\* A process is killed: its folder is kept as it is.
LEMMA KillStep ==
  ASSUME IInv, NEW p \in Process, Kill(p)
  PROVE  IInv'
<1>1. /\ proc \in [Process -> Row] /\ OwnFolder(proc[p])
      /\ kept \subseteq {f \in Folder : f.exists}
  BY TheProcess
<1>2. /\ proc' = [proc EXCEPT ![p] = Idle] /\ Idle \in Row
      /\ kept' = KeptWith(p) /\ lock' = IF lock = p THEN NoProcess ELSE lock
      /\ Idle.folder = NoFolder
  BY Blanks DEF Kill
<1>3. UNCHANGED <<live, wal, staged, pending, snapshots, committed, current,
                  offline, away, next>>
  BY DEF Kill
<1>4. ProcOK(Idle, live', wal', pending', snapshots') /\ Idle.step \in Free
  BY Blanks DEF ProcOK, OwnFolder, Filling, Free
<1>5. \A q \in Process \ {p} :
        proc[q].step \in Free
          \/ UNCHANGED <<live, wal, pending, snapshots, lock>>
  BY <1>2, <1>3 DEF IInv, LockIsHeld
<1>6. proc' \in [Process -> Row] /\ LockIsHeld' /\ ProcsFit'
  BY <1>2, <1>4, <1>5, ProcStep DEF IInv
<1>7. /\ kept' \subseteq {f \in Folder : f.exists} /\ FoldersStay
      /\ \A f \in Folders' : f = NoFolder \/ f \in Folders
  BY <1>1, <1>2, EndFolders
<1>8. FoldersFit'
  BY <1>7, SameFit DEF IInv
<1>9. /\ staged' \in BOOLEAN /\ snapshots' \subseteq Copy
      /\ lock' \in Process \union {NoProcess}
  BY <1>2, <1>3 DEF IInv, TypeOK
<1>10. QED
  BY <1>3, <1>6, <1>7, <1>8, <1>9, QuietStep

\* A folder for what is about to be replaced, if there is anything.
LEMMA RetireStep ==
  ASSUME IInv, NEW p \in Process, Retire(p)
  PROVE  IInv'
<1>1. /\ proc \in [Process -> Row] /\ proc[p] \in Row
      /\ proc[p].step = "retire" /\ ~pending.exists
      /\ kept \subseteq {f \in Folder : f.exists}
      /\ proc[p].folder = NoFolder
  BY TheProcess DEF Retire, AtStep, ProcOK, OwnFolder, Filling
<1>2. \E r \in Row :
        /\ proc' = [proc EXCEPT ![p] = r]
        /\ r.step \in {"keep_main", "move_sidecars", "replace"}
        /\ r.step = "replace" => r.folder = NoFolder /\ ~wal.exists
        /\ r.step # "replace" => r.folder = NewFolder
        /\ HasVault(live) <=> r.step = "keep_main"
  <2>1. /\ [proc[p] EXCEPT !.step = "keep_main", !.folder = NewFolder] \in Row
        /\ [proc[p] EXCEPT !.step = "move_sidecars", !.folder = NewFolder] \in Row
        /\ [proc[p] EXCEPT !.step = "replace"] \in Row
    BY <1>1, Blanks DEF Row, Steps
  <2>2. CASE HasVault(live)
    <3>1. proc' = [proc EXCEPT ![p] = [proc[p] EXCEPT !.step = "keep_main",
                                                      !.folder = NewFolder]]
      BY <1>1, <2>2 DEF Retire
    <3>2. QED
      BY <1>1, <2>1, <2>2, <3>1 DEF Row
  <2>3. CASE ~HasVault(live) /\ wal.exists
    <3>1. proc' = [proc EXCEPT ![p] = [proc[p] EXCEPT !.step = "move_sidecars",
                                                      !.folder = NewFolder]]
      BY <1>1, <2>3 DEF Retire
    <3>2. QED
      BY <1>1, <2>1, <2>3, <3>1 DEF Row
  <2>4. CASE ~HasVault(live) /\ ~wal.exists
    <3>1. proc' = [proc EXCEPT ![p] = [proc[p] EXCEPT !.step = "replace"]]
      BY <1>1, <2>4 DEF Retire
    <3>2. QED
      BY <1>1, <2>1, <2>4, <3>1 DEF Row
  <2>5. QED
    BY <2>2, <2>3, <2>4
<1>3. PICK r \in Row :
        /\ proc' = [proc EXCEPT ![p] = r]
        /\ r.step \in {"keep_main", "move_sidecars", "replace"}
        /\ r.step = "replace" => r.folder = NoFolder /\ ~wal.exists
        /\ r.step # "replace" => r.folder = NewFolder
        /\ HasVault(live) <=> r.step = "keep_main"
  BY <1>2
<1>4. UNCHANGED <<live, wal, staged, pending, kept, snapshots, lock, committed,
                  current, offline, away, next>>
  BY DEF Retire
<1>5. ProcOK(r, live', wal', pending', snapshots')
  <2>1. OwnFolder(r)
    BY <1>3, Blanks DEF OwnFolder, Filling
  <2>2. ~wal.exists => wal = NoFile
    BY DEF IInv, FilesFit
  <2>3. QED
    BY <1>1, <1>3, <1>4, <2>1, <2>2 DEF ProcOK
<1>6. /\ proc' \in [Process -> Row] /\ LockIsHeld' /\ ProcsFit'
      /\ lock' \in Process \union {NoProcess}
  BY <1>1, <1>3, <1>4, <1>5, HolderStep DEF IInv, Free
<1>7. /\ \A f \in Folders : f = NoFolder \/ f \in Folders'
      /\ \A f \in Folders' : f = r.folder \/ f \in Folders
  BY <1>1, <1>3, <1>4, SwapFolders
<1>8. FoldersStay
  BY <1>4, <1>7, Blanks DEF FoldersStay, Blank
<1>9. FoldersFit'
  <2>1. FolderFits(r.folder)
    BY <1>3, Blanks DEF FolderFits, HasVault
  <2>2. QED
    BY <1>7, <2>1 DEF IInv, FoldersFit
<1>10. staged' \in BOOLEAN /\ snapshots' \subseteq Copy
  BY <1>4 DEF IInv, TypeOK
<1>11. QED
  BY <1>1, <1>4, <1>6, <1>8, <1>9, <1>10, QuietStep

\* The vault file is copied into the folder.
LEMMA KeepMainStep ==
  ASSUME IInv, NEW p \in Process, KeepMain(p)
  PROVE  IInv'
<1>1. /\ proc \in [Process -> Row] /\ proc[p] \in Row
      /\ proc[p].step = "keep_main" /\ ~pending.exists /\ HasVault(live)
      /\ kept \subseteq {f \in Folder : f.exists}
      /\ live \in File /\ wal \in File
  BY TheProcess DEF KeepMain, AtStep, ProcOK, Filling
<1>2. /\ proc[p].folder \in Folder /\ proc[p].folder.exists
      /\ proc[p].folder.main = NoFile /\ proc[p].folder.wal = NoFile
      /\ proc[p].folder.unfolded = NoFile
  BY <1>1, TheProcess DEF OwnFolder, Filling, Row
<1> DEFINE g == [proc[p].folder EXCEPT !.main = live]
           r == [proc[p] EXCEPT !.step = "keep_wal", !.folder = g]
<1>3. /\ g \in Folder /\ g.exists /\ g.main = live /\ g.wal = NoFile
      /\ g.unfolded = NoFile
  BY <1>1, <1>2 DEF Folder
<1>4. proc' = [proc EXCEPT ![p] = r]
  BY <1>1 DEF KeepMain, Row
<1> HIDE DEF g
<1>5. r \in Row /\ r.step = "keep_wal" /\ r.folder = g
  BY <1>1, <1>3 DEF Row, Steps
<1> HIDE DEF r
<1>6. UNCHANGED <<live, wal, staged, pending, kept, snapshots, lock, committed,
                  current, offline, away, next>>
  BY DEF KeepMain
<1>7. ProcOK(r, live', wal', pending', snapshots')
  <2>1. OwnFolder(r)
    BY <1>3, <1>5 DEF OwnFolder, Filling
  <2>2. QED
    BY <1>1, <1>3, <1>5, <1>6, <2>1 DEF ProcOK
<1>8. /\ proc' \in [Process -> Row] /\ LockIsHeld' /\ ProcsFit'
      /\ lock' \in Process \union {NoProcess}
  BY <1>1, <1>4, <1>5, <1>6, <1>7, HolderStep DEF IInv, Free
<1>9. /\ \A f \in Folders : f = proc[p].folder \/ f \in Folders'
      /\ \A f \in Folders' : f = g \/ f \in Folders
  BY <1>1, <1>4, <1>5, <1>6, SwapFolders
<1>10. FoldersStay
  BY <1>2, <1>6, <1>9 DEF FoldersStay, Blank
<1>11. FoldersFit'
  <2>1. FolderFits(g)
    BY <1>3, Blanks DEF FolderFits, HasVault
  <2>2. QED
    BY <1>9, <2>1 DEF IInv, FoldersFit
<1>12. staged' \in BOOLEAN /\ snapshots' \subseteq Copy
  BY <1>6 DEF IInv, TypeOK
<1>13. QED
  BY <1>1, <1>6, <1>8, <1>10, <1>11, <1>12, QuietStep

\* And its log.
LEMMA KeepWalStep ==
  ASSUME IInv, NEW p \in Process, KeepWal(p)
  PROVE  IInv'
<1>1. /\ proc \in [Process -> Row] /\ proc[p] \in Row
      /\ proc[p].step = "keep_wal" /\ ~pending.exists /\ HasVault(live)
      /\ kept \subseteq {f \in Folder : f.exists}
      /\ live \in File /\ wal \in File
  BY TheProcess DEF KeepWal, AtStep, ProcOK, Filling
<1>2. /\ proc[p].folder \in Folder /\ proc[p].folder.exists
      /\ proc[p].folder.main = live /\ proc[p].folder.wal = NoFile
      /\ proc[p].folder.unfolded = NoFile
  BY <1>1, TheProcess DEF OwnFolder, ProcOK, Filling, Row
<1> DEFINE g == [proc[p].folder EXCEPT !.wal = wal]
           r == [proc[p] EXCEPT !.step = "fold", !.folder = g]
<1>3. /\ g \in Folder /\ g.exists /\ g.main = live /\ g.wal = wal
      /\ g.unfolded = NoFile
  BY <1>1, <1>2 DEF Folder
<1>4. proc' = [proc EXCEPT ![p] = r]
  BY <1>1 DEF KeepWal, Row
<1> HIDE DEF g
<1>5. r \in Row /\ r.step = "fold" /\ r.folder = g
  BY <1>1, <1>3 DEF Row, Steps
<1> HIDE DEF r
<1>6. UNCHANGED <<live, wal, staged, pending, kept, snapshots, lock, committed,
                  current, offline, away, next>>
  BY DEF KeepWal
<1>7. ProcOK(r, live', wal', pending', snapshots')
  <2>1. OwnFolder(r)
    BY <1>3, <1>5 DEF OwnFolder, Filling
  <2>2. QED
    BY <1>1, <1>3, <1>5, <1>6, <2>1 DEF ProcOK
<1>8. /\ proc' \in [Process -> Row] /\ LockIsHeld' /\ ProcsFit'
      /\ lock' \in Process \union {NoProcess}
  BY <1>1, <1>4, <1>5, <1>6, <1>7, HolderStep DEF IInv, Free
<1>9. /\ \A f \in Folders : f = proc[p].folder \/ f \in Folders'
      /\ \A f \in Folders' : f = g \/ f \in Folders
      /\ g \in Folders'
  BY <1>1, <1>4, <1>5, <1>6, SwapFolders
<1>10. FoldersStay
  <2>1. Read(live, NoFile) = live.upto /\ Read(live, wal) >= live.upto
    BY <1>1, Blanks, ReadType
  <2>2. ReadsAll(g.main, g.wal, proc[p].folder)
    BY <1>2, <1>3, <2>1 DEF ReadsAll
  <2>3. QED
    BY <1>2, <1>6, <1>9, <2>2 DEF FoldersStay
<1>11. FoldersFit'
  <2>1. FolderFits(g)
    BY <1>3 DEF FolderFits, IInv, FilesFit
  <2>2. QED
    BY <1>9, <2>1 DEF IInv, FoldersFit
<1>12. staged' \in BOOLEAN /\ snapshots' \subseteq Copy
  BY <1>6 DEF IInv, TypeOK
<1>13. QED
  BY <1>1, <1>6, <1>8, <1>10, <1>11, <1>12, QuietStep

\* A process meets an error.  A folder it was still copying into is removed:
\* the vault is where it was.
LEMMA FailStep ==
  ASSUME IInv, NEW p \in Process, Fail(p)
  PROVE  IInv'
<1>1. /\ proc \in [Process -> Row] /\ OwnFolder(proc[p])
      /\ proc[p].step \notin Free
      /\ ProcOK(proc[p], live, wal, pending, snapshots)
      /\ kept \subseteq {f \in Folder : f.exists}
      /\ live \in File /\ wal \in File
  BY TheProcess DEF Fail, Free
<1>2. PICK r \in Row : /\ proc' = [proc EXCEPT ![p] = r] /\ OwnFolder(r)
                       /\ r.step \in Free /\ r.folder = NoFolder
  <2> DEFINE c == [Idle EXCEPT !.op = "restore", !.step = "cleanup"]
  <2>1. c \in Row /\ c.step = "cleanup" /\ c.folder = NoFolder
    BY Blanks DEF Row, Idle, Steps
  <2>2. proc' = [proc EXCEPT ![p] = c] \/ proc' = [proc EXCEPT ![p] = Idle]
    BY <1>1 DEF Fail
  <2> HIDE DEF c
  <2>3. OwnFolder(c) /\ OwnFolder(Idle)
    BY <2>1, Blanks DEF OwnFolder, Filling
  <2>4. QED
    BY <2>1, <2>2, <2>3, Blanks DEF Free
<1>3. /\ UNCHANGED <<live, wal, staged, pending, snapshots, committed, current,
                     offline, away, next>>
      /\ lock' = NoProcess
  BY DEF Fail
<1>4. ProcOK(r, live', wal', pending', snapshots')
  BY <1>2, FreeFits
<1>5. /\ proc' \in [Process -> Row] /\ LockIsHeld' /\ ProcsFit'
      /\ lock' \in Process \union {NoProcess}
  BY <1>1, <1>2, <1>3, <1>4, HolderStep DEF IInv
<1>6. /\ kept' \subseteq {f \in Folder : f.exists} /\ FoldersStay
      /\ \A f \in Folders' : f = NoFolder \/ f \in Folders
  <2>1. CASE proc[p].step \notin {"keep_main", "keep_wal"}
    <3>1. kept' = KeptWith(p)
      BY <2>1 DEF Fail
    <3>2. QED
      BY <1>1, <1>2, <3>1, EndFolders
  <2>2. CASE proc[p].step \in {"keep_main", "keep_wal"}
    <3>1. kept' = kept
      BY <2>2 DEF Fail
    <3>2. /\ \A f \in Folders : f = proc[p].folder \/ f \in Folders'
          /\ \A f \in Folders' : f = NoFolder \/ f \in Folders
      BY <1>1, <1>2, <3>1, SwapFolders
    <3>3. proc[p].folder.unfolded = NoFile /\ proc[p].folder.wal = NoFile
      BY <1>1, <2>2 DEF OwnFolder, Filling
    <3>4. Blank(proc[p].folder) \/ ReadsAll(live', wal', proc[p].folder)
      <4>1. CASE proc[p].step = "keep_main"
        BY <1>1, <3>3, <4>1 DEF OwnFolder, Blank
      <4>2. CASE proc[p].step = "keep_wal"
        <5>1. proc[p].folder.main = live
          BY <1>1, <4>2 DEF ProcOK
        <5>2. Read(live, NoFile) = live.upto /\ Read(live, wal) >= live.upto
          BY <1>1, Blanks, ReadType
        <5>3. QED
          BY <1>3, <3>3, <5>1, <5>2 DEF ReadsAll
      <4>3. QED
        BY <2>2, <4>1, <4>2
    <3>5. FoldersStay
      BY <3>1, <3>2, <3>3, <3>4 DEF FoldersStay
    <3>6. QED
      BY <1>1, <3>1, <3>2, <3>5
  <2>3. QED
    BY <2>1, <2>2
<1>7. FoldersFit'
  BY <1>6, SameFit DEF IInv
<1>8. staged' \in BOOLEAN /\ snapshots' \subseteq Copy
  BY <1>3 DEF IInv, TypeOK
<1>9. QED
  BY <1>3, <1>5, <1>6, <1>7, <1>8, QuietStep

-----------------------------------------------------------------------------
(***************************************************************************)
(* Steps that change the files: what each of them does to what can be      *)
(* read.                                                                   *)
(***************************************************************************)
\* Every vault but the one moved off: it is safe if what changed is.
LEMMA RestStays ==
  ASSUME IInv, TypeOK', FoldersStay, away' = away,
         \A v \in Vault : v # away.vault /\ committed'[v] # 0 =>
           \/ SafeAt(v)'
           \/ /\ committed'[v] = committed[v]
              /\ Holds(live, wal, v, committed[v]) => SafeAt(v)'
              /\ Holds(pending.main, pending.wal, v, committed[v]) => SafeAt(v)'
              /\ Holds(pending.main, wal, v, committed[v]) => SafeAt(v)'
  PROVE  RestSafe'
<1>1. SUFFICES ASSUME NEW v \in Vault, v # away.vault, committed'[v] # 0,
                      ~SafeAt(v)'
               PROVE  FALSE
  BY DEF RestSafe
<1>2. /\ committed'[v] = committed[v] /\ ~Holds(live, wal, v, committed[v])
      /\ ~Holds(pending.main, pending.wal, v, committed[v])
      /\ ~Holds(pending.main, wal, v, committed[v])
  BY <1>1
<1>3. SafeAt(v) /\ v # 0
  BY <1>1, <1>2 DEF IInv, RestSafe, Vault
<1>4. PICK f \in Folders : Holds(f.main, f.wal, v, committed[v])
  BY <1>2, <1>3 DEF SafeAt
<1>5. /\ Folders \subseteq Folder /\ (Folders \subseteq Folder)'
      /\ committed[v] \in Content /\ live' \in File /\ wal' \in File
  BY FoldersType DEF IInv, TypeOK
<1>6. \/ Holds(live', wal', v, committed[v])
      \/ \E g \in Folders' : Holds(g.main, g.wal, v, committed[v])
  BY <1>3, <1>4, <1>5, FolderPlaces
<1>7. SafeAt(v)'
  BY <1>2, <1>6 DEF SafeAt
<1>8. QED
  BY <1>1, <1>7

\* The file that was moved off: it is safe if its log is.
LEMMA AwayStays ==
  ASSUME IInv, FoldersStay, away' = away,
         HasVault(away) => /\ live'.vault # away.vault
                           /\ committed'[away.vault] = committed[away.vault]
                           /\ wal.vault = away.vault => wal \in Logs'
                           /\ pending.wal.vault = away.vault =>
                                pending.wal \in Logs'
  PROVE  AwaySafe'
<1>1. SUFFICES ASSUME HasVault(away)
               PROVE  \E l \in Logs' : Completes(l)
  BY DEF AwaySafe, HasVault, Completes
<1>2. PICK l \in Logs : Completes(l)
  BY <1>1 DEF IInv, AwaySafe
<1>3. HasVault(l) /\ l.vault = away.vault
  BY <1>1, <1>2 DEF Completes, HasVault
<1>4. l \in Logs'
  BY <1>1, <1>3, LogsStay
<1>5. QED
  BY <1>2, <1>4

\* A file with a vault is there; while it is, nothing has been set aside.
LEMMA InUse ==
  ASSUME IInv, HasVault(live)
  PROVE  /\ live.exists /\ pending.main = NoFile /\ pending.wal = NoFile
         /\ live.vault \in Vault /\ live.vault # away.vault
         /\ wal.vault \in {0, live.vault}
         /\ live.vault < next
<1>1. live.exists
  BY Blanks DEF IInv, FilesFit, HasVault
<1>2. pending.main = NoFile /\ pending.wal = NoFile
  BY <1>1 DEF IInv, FilesFit
<1>3. live.vault \in Vault
  BY VaultFileAssumption DEF IInv, TypeOK, File, Vault, HasVault
<1>4. live.vault # away.vault
  BY <1>3 DEF IInv, AwaySafe, HasVault, Vault
<1>5. wal.vault \in {0, live.vault}
  BY DEF IInv, FilesFit, HasVault
<1>6. live.vault < next
  BY DEF IInv, Fresh
<1>7. QED
  BY <1>1, <1>2, <1>3, <1>4, <1>5, <1>6

\* A transaction of the vault in use.
LEMMA AppendKeeps ==
  ASSUME IInv, HasVault(live), AppendCommit, FoldersStay, TypeOK',
         UNCHANGED <<live, pending, away, next>>
  PROVE  /\ FilesFit' /\ Fresh' /\ AwaySafe' /\ RestSafe' /\ Complete'
         /\ Data' = Data + 1
<1>1. /\ live.exists /\ pending.main = NoFile /\ pending.wal = NoFile
      /\ live.vault \in Vault /\ live.vault # away.vault
      /\ wal.vault \in {0, live.vault} /\ live.vault < next
  BY InUse
<1>2. live \in File /\ wal \in File /\ committed \in [Vault -> Content]
  BY DEF IInv, TypeOK
<1>3. /\ Data < MaxCommits /\ wal' = FileOf(live.vault, Data + 1)
      /\ committed' = [committed EXCEPT ![live.vault] = Data + 1]
  BY DEF AppendCommit
<1>4. Data' = Data + 1 /\ Data + 1 \in Content
  BY <1>2, <1>3, AppendReads DEF Data
<1>5. /\ committed'[live.vault] = Data'
      /\ \A v \in Vault \ {live.vault} : committed'[v] = committed[v]
  BY <1>1, <1>2, <1>3, <1>4
<1>6. wal'.vault = live.vault /\ wal'.exists
  BY <1>3 DEF FileOf
<1>7. FilesFit'
  BY <1>1, <1>6, Blanks DEF IInv, FilesFit, HasVault
<1>8. Fresh'
  BY <1>1, <1>5 DEF IInv, Fresh, TypeOK, Vault
<1>9. AwaySafe'
  <2>1. HasVault(away) => /\ wal.vault # away.vault /\ pending.wal.vault # away.vault
                          /\ away.vault \in Vault
    BY <1>1, Blanks, VaultFileAssumption DEF HasVault, IInv, TypeOK, File, Vault
  <2>2. QED
    BY <1>1, <1>5, <2>1, AwayStays
<1>10. RestSafe'
  <2>1. SafeAt(live.vault)'
    <3>1. Data' >= committed'[live.vault]
      BY <1>4, <1>5, VaultFileAssumption DEF Content
    <3>2. QED
      BY <3>1 DEF SafeAt, Holds, Data
  <2>2. ASSUME NEW v \in Vault, v # live.vault
        PROVE  /\ committed'[v] = committed[v]
               /\ ~Holds(live, wal, v, committed[v])
               /\ ~Holds(pending.main, pending.wal, v, committed[v])
               /\ ~Holds(pending.main, wal, v, committed[v])
    BY <1>1, <1>5, <2>2, Blanks DEF Holds, Vault
  <2>3. QED
    BY <2>1, <2>2, RestStays
<1>11. Complete'
  BY <1>5 DEF Complete
<1>12. QED
  BY <1>4, <1>7, <1>8, <1>9, <1>10, <1>11

\* A checkpoint of the vault in use; the log may stay.
LEMMA FoldKeeps ==
  ASSUME IInv, HasVault(live), FoldersStay, TypeOK',
         \/ live' = Folded(live, wal) /\ wal' \in {wal, NoFile}
         \/ UNCHANGED <<live, wal>>,
         UNCHANGED <<pending, away, next, committed>>
  PROVE  /\ FilesFit' /\ Fresh' /\ AwaySafe' /\ RestSafe' /\ Complete'
         /\ Data' = Data /\ live'.vault = live.vault
<1>1. /\ live.exists /\ pending.main = NoFile /\ pending.wal = NoFile
      /\ live.vault \in Vault /\ live.vault # away.vault
      /\ wal.vault \in {0, live.vault} /\ live.vault < next
  BY InUse
<1>2. live \in File /\ wal \in File /\ committed \in [Vault -> Content]
  BY DEF IInv, TypeOK
<1>3. Data' = Data
  BY <1>2, FoldedReads DEF Data
<1>4. live'.vault = live.vault /\ live'.exists = live.exists
  BY <1>2, FoldedReads
<1>5. wal' \in {wal, NoFile}
  OBVIOUS
<1>6. FilesFit'
  BY <1>1, <1>4, <1>5, Blanks DEF IInv, FilesFit, HasVault
<1>7. Fresh'
  BY <1>4 DEF IInv, Fresh
<1>8. AwaySafe'
  <2>1. HasVault(away) => wal.vault # away.vault /\ pending.wal.vault # away.vault
    BY <1>1, Blanks DEF HasVault
  <2>2. QED
    BY <1>1, <1>4, <2>1, AwayStays
<1>9. RestSafe'
  <2>1. ASSUME NEW v \in Vault
        PROVE  /\ Holds(live, wal, v, committed[v]) => SafeAt(v)'
               /\ ~Holds(pending.main, pending.wal, v, committed[v])
               /\ ~Holds(pending.main, wal, v, committed[v])
    <3>1. v # 0
      BY DEF Vault
    <3>2. ~Holds(pending.main, pending.wal, v, committed[v])
          /\ ~Holds(pending.main, wal, v, committed[v])
      BY <1>1, <3>1, Blanks DEF Holds
    <3>3. Holds(live, wal, v, committed[v]) => Holds(live', wal', v, committed'[v])
      BY <1>3, <1>4 DEF Holds, Data
    <3>4. QED
      BY <3>2, <3>3 DEF SafeAt
  <2>2. QED
    BY <2>1, RestStays
<1>10. Complete'
  <2>1. ASSUME NEW v, Unfolded(v) PROVE Unfolded(v)'
    BY <2>1, UnfoldedStays
  <2>2. Data = committed[live.vault] \/ Unfolded(live.vault)
    BY DEF IInv, Complete
  <2>3. CASE Data = committed[live.vault]
    BY <1>3, <1>4, <2>3 DEF Complete
  <2>4. CASE Unfolded(live.vault)
    BY <1>4, <2>1, <2>4 DEF Complete, Unfolded
  <2>5. QED
    BY <2>2, <2>3, <2>4
<1>11. QED
  BY <1>3, <1>4, <1>6, <1>7, <1>8, <1>9, <1>10

-----------------------------------------------------------------------------
(***************************************************************************)
(* The server's steps.                                                     *)
(***************************************************************************)
\* An empty file is made where there is none.
LEMMA PrepareStep ==
  ASSUME IInv, NEW p \in Process, Prepare(p)
  PROVE  IInv'
<1>1. /\ proc \in [Process -> Row] /\ proc[p].step = "prepare"
      /\ proc[p].folder = NoFolder /\ ~pending.exists
      /\ ~HasVault(live) => ~HasVault(wal)
  BY TheProcess DEF Prepare, AtStep, OwnFolder, Filling, OrphanedJournal
<1>2. PICK r \in Row : /\ proc' = [proc EXCEPT ![p] = r] /\ r.step = "schema"
                       /\ r.folder = proc[p].folder
  BY StepRow DEF Prepare, Steps, IInv
<1>3. UNCHANGED <<wal, staged, pending, kept, snapshots, lock, committed,
                  current, offline, away, next>>
  BY DEF Prepare
<1>4. live' = live \/ (live = NoFile /\ live' = EmptyFile)
  BY DEF Prepare, IInv, FilesFit
<1>5. live' \in File /\ live'.vault = live.vault /\ Data' = Data
      /\ live'.exists
  <2>1. live \in File
    BY DEF IInv, TypeOK
  <2>2. live' \in File /\ live'.vault = live.vault /\ live'.upto = live.upto
    BY <1>4, <2>1, Blanks
  <2>3. QED
    BY <1>3, <2>2, Blanks DEF Data, Read, Prepare
<1>6. ProcOK(r, live', wal', pending', snapshots')
  BY <1>1, <1>2, <1>3, <1>5, Blanks DEF ProcOK, OwnFolder, Filling, HasVault
<1>7. /\ proc' \in [Process -> Row] /\ LockIsHeld' /\ ProcsFit'
      /\ lock' \in Process \union {NoProcess}
  BY <1>1, <1>2, <1>3, <1>6, HolderStep DEF IInv, Free
<1>8. Folders' = Folders /\ FoldersStay
  BY <1>1, <1>2, <1>3, SameFolders
<1>9. FoldersFit'
  BY <1>8, SameFit DEF IInv
<1>10. TypeOK'
  BY <1>3, <1>5, <1>7 DEF IInv, TypeOK, Row
<1>11. FilesFit'
  BY <1>1, <1>3, <1>5, Blanks DEF IInv, FilesFit, HasVault
<1>12. Fresh'
  BY <1>3, <1>5 DEF IInv, Fresh
<1>13. AwaySafe'
  <2>1. wal \in Logs' /\ pending.wal \in Logs'
    BY <1>3 DEF Logs
  <2>2. HasVault(away) => live'.vault # away.vault
    BY <1>5 DEF IInv, AwaySafe
  <2>3. QED
    BY <1>3, <1>8, <2>1, <2>2, AwayStays
<1>14. RestSafe'
  <2>1. ASSUME NEW v \in Vault
        PROVE  /\ Holds(live, wal, v, committed[v]) => SafeAt(v)'
               /\ Holds(pending.main, pending.wal, v, committed[v]) => SafeAt(v)'
               /\ Holds(pending.main, wal, v, committed[v]) => SafeAt(v)'
    BY <1>3, <1>5 DEF SafeAt, Holds, Data
  <2>2. QED
    BY <1>3, <1>8, <1>10, <2>1, RestStays
<1>15. Complete'
  <2>1. ASSUME NEW v, Unfolded(v) PROVE Unfolded(v)'
    BY <1>8, <2>1, UnfoldedStays
  <2>2. HasVault(live) => Data = committed[live.vault] \/ Unfolded(live.vault)
    BY DEF IInv, Complete
  <2>3. QED
    BY <1>3, <1>5, <2>1, <2>2 DEF Complete, HasVault
<1>16. RollbackIsThere'
  BY <1>3 DEF IInv, RollbackIsThere
<1>17. QED
  BY <1>7, <1>9, <1>10, <1>11, <1>12, <1>13, <1>14, <1>15, <1>16 DEF IInv

\* A new vault, with nothing in it.
LEMMA OpenEmptyStep ==
  ASSUME IInv, NEW p \in Process, OpenEmpty(p)
  PROVE  IInv'
<1>1. /\ proc \in [Process -> Row] /\ proc[p].step = "schema" /\ proc[p] \in Row
      /\ proc[p].folder = NoFolder /\ ~pending.exists /\ OwnFolder(proc[p])
      /\ ~HasVault(live) /\ ~HasVault(wal)
  BY TheProcess DEF OpenEmpty, AtStep, ProcOK, OwnFolder, Filling
<1>2. /\ UNCHANGED <<wal, staged, pending, kept, snapshots, lock, proc, committed,
                     offline, away>>
      /\ next <= MaxVaults /\ live' = FileOf(next, 0) /\ next' = next + 1
      /\ current' = [current EXCEPT ![next] = 1]
  BY DEF OpenEmpty
<1>3. /\ next \in Vault /\ next' \in 1..(MaxVaults + 1) /\ next \in 0..MaxVaults
      /\ next # 0
  BY <1>2, VaultFileAssumption DEF IInv, TypeOK, Vault
<1>4. /\ live' \in File /\ live'.vault = next /\ live'.exists
      /\ live'.upto = 0
  BY <1>2, <1>3, FileOfType, Blanks, VaultFileAssumption DEF Content
<1>5. pending = NoFolder
  BY <1>1 DEF IInv, FilesFit
<1>6. Data' = 0
  <2>1. wal'.vault # live'.vault
    BY <1>1, <1>2, <1>3, <1>4 DEF HasVault
  <2>2. QED
    BY <1>4, <2>1 DEF Data, Read
<1>7. proc' = [proc EXCEPT ![p] = proc[p]]
  BY <1>1, <1>2
<1>8. ProcOK(proc[p], live', wal', pending', snapshots')
  BY <1>1, <1>2, <1>3, <1>4 DEF ProcOK, Filling, HasVault
<1>9. /\ proc' \in [Process -> Row] /\ LockIsHeld' /\ ProcsFit'
      /\ lock' \in Process \union {NoProcess}
  BY <1>1, <1>2, <1>7, <1>8, HolderStep DEF IInv, Free
<1>10. Folders' = Folders /\ FoldersStay
  BY <1>1, <1>2, <1>7, SameFolders
<1>11. FoldersFit'
  BY <1>10, SameFit DEF IInv
<1>12. TypeOK'
  <2>1. current' \in [Vault -> 0..(MaxCommits + 1)]
    BY <1>2, <1>3, VaultFileAssumption DEF IInv, TypeOK
  <2>2. QED
    BY <1>2, <1>3, <1>4, <1>9, <2>1 DEF IInv, TypeOK, Row
<1>13. FilesFit'
  BY <1>1, <1>2, <1>4, <1>5, Blanks DEF IInv, FilesFit, HasVault
<1>14. Fresh'
  BY <1>2, <1>3, <1>4, VaultFileAssumption DEF IInv, Fresh, TypeOK, Vault, File
<1>15. AwaySafe'
  <2>1. wal \in Logs' /\ pending.wal \in Logs'
    BY <1>2 DEF Logs
  <2>2. live'.vault # away.vault
    BY <1>3, <1>4 DEF IInv, Fresh, TypeOK
  <2>3. QED
    BY <1>2, <1>10, <2>1, <2>2, AwayStays
<1>16. RestSafe'
  <2>1. ASSUME NEW v \in Vault
        PROVE  /\ ~Holds(live, wal, v, committed[v])
               /\ ~Holds(pending.main, pending.wal, v, committed[v])
               /\ ~Holds(pending.main, wal, v, committed[v])
    BY <1>1, <1>5, Blanks DEF Holds, Vault, HasVault
  <2>2. QED
    BY <1>2, <1>10, <1>12, <2>1, RestStays
<1>17. Complete'
  <2>1. committed[next] = 0
    BY <1>3 DEF IInv, Fresh, Vault
  <2>2. QED
    BY <1>2, <1>4, <1>6, <2>1 DEF Complete
<1>18. RollbackIsThere'
  BY <1>2 DEF IInv, RollbackIsThere
<1>19. QED
  BY <1>9, <1>11, <1>12, <1>13, <1>14, <1>15, <1>16, <1>17, <1>18 DEF IInv

\* The types after a commit.
LEMMA AppendTypes ==
  ASSUME IInv, HasVault(live), AppendCommit
  PROVE  /\ wal' \in File /\ committed' \in [Vault -> Content]
         /\ Data + 1 \in Content /\ live.vault \in Vault
         /\ [vault |-> live.vault, upto |-> Data + 1] \in Copy
<1>1. live \in File /\ wal \in File /\ committed \in [Vault -> Content]
  BY DEF IInv, TypeOK
<1>2. Data + 1 \in Content /\ wal' \in File
  BY <1>1, AppendReads DEF AppendCommit, Data
<1>3. live.vault \in Vault
  BY InUse
<1>4. committed' \in [Vault -> Content]
  BY <1>1, <1>2, <1>3 DEF AppendCommit
<1>5. QED
  BY <1>2, <1>3, <1>4 DEF Copy

\* The schema, in one transaction.
LEMMA EnsureSchemaStep ==
  ASSUME IInv, NEW p \in Process, EnsureSchema(p)
  PROVE  IInv'
<1>1. /\ proc \in [Process -> Row] /\ proc[p].step = "schema" /\ HasVault(live)
      /\ proc[p].folder = NoFolder /\ ~pending.exists
      /\ kept \subseteq {f \in Folder : f.exists}
  BY TheProcess DEF EnsureSchema, AtStep, ProcOK, OwnFolder, Filling
<1>2. PICK r \in Row : /\ proc' = [proc EXCEPT ![p] = r] /\ r.step = "serving"
                       /\ r.folder = proc[p].folder
  BY StepRow DEF EnsureSchema, Steps, IInv
<1>3. UNCHANGED <<live, staged, pending, kept, snapshots, lock, current,
                  offline, away, next>>
  BY DEF EnsureSchema
<1>4. ProcOK(r, live', wal', pending', snapshots')
  BY <1>1, <1>2, <1>3, Blanks DEF ProcOK, OwnFolder, Filling
<1>5. /\ proc' \in [Process -> Row] /\ LockIsHeld' /\ ProcsFit'
      /\ lock' \in Process \union {NoProcess}
  BY <1>1, <1>2, <1>3, <1>4, HolderStep DEF IInv, Free
<1>6. Folders' = Folders /\ FoldersStay
  BY <1>1, <1>2, <1>3, SameFolders
<1>7. FoldersFit'
  BY <1>6, SameFit DEF IInv
<1>8. CASE AppendCommit
  <2>1. TypeOK'
    BY <1>1, <1>3, <1>5, <1>8, AppendTypes DEF IInv, TypeOK, Row
  <2>2. FilesFit' /\ Fresh' /\ AwaySafe' /\ RestSafe' /\ Complete'
    BY <1>1, <1>3, <1>6, <1>8, <2>1, AppendKeeps
  <2>3. RollbackIsThere'
    BY <1>3 DEF IInv, RollbackIsThere
  <2>4. QED
    BY <1>5, <1>7, <2>1, <2>2, <2>3 DEF IInv
<1>9. CASE UNCHANGED <<wal, committed>>
  <2>1. staged' \in BOOLEAN /\ snapshots' \subseteq Copy
    BY <1>3 DEF IInv, TypeOK
  <2>2. QED
    BY <1>1, <1>3, <1>5, <1>6, <1>7, <1>9, <2>1, QuietStep
<1>10. QED
  BY <1>8, <1>9 DEF EnsureSchema

\* A transaction of the server.
LEMMA WriteStep ==
  ASSUME IInv, NEW p \in Process, Write(p)
  PROVE  IInv'
<1>1. /\ proc \in [Process -> Row] /\ proc[p].step = "serving" /\ HasVault(live)
      /\ proc[p] \in Row /\ OwnFolder(proc[p]) /\ ~pending.exists
  BY TheProcess DEF Write, AtStep, ProcOK, Filling
<1>2. /\ UNCHANGED <<live, staged, pending, kept, snapshots, lock, proc, current,
                     offline, away, next>>
      /\ AppendCommit /\ proc' = [proc EXCEPT ![p] = proc[p]]
  BY <1>1 DEF Write
<1>3. ProcOK(proc[p], live', wal', pending', snapshots')
  BY <1>1, <1>2 DEF ProcOK, Filling
<1>4. /\ proc' \in [Process -> Row] /\ LockIsHeld' /\ ProcsFit'
      /\ lock' \in Process \union {NoProcess}
  BY <1>1, <1>2, <1>3, HolderStep DEF IInv, Free
<1>5. Folders' = Folders /\ FoldersStay
  BY <1>1, <1>2, SameFolders
<1>6. FoldersFit'
  BY <1>5, SameFit DEF IInv
<1>7. TypeOK'
  BY <1>1, <1>2, <1>4, AppendTypes DEF IInv, TypeOK, Row
<1>8. FilesFit' /\ Fresh' /\ AwaySafe' /\ RestSafe' /\ Complete'
  BY <1>1, <1>2, <1>5, <1>7, AppendKeeps
<1>9. RollbackIsThere'
  BY <1>2 DEF IInv, RollbackIsThere
<1>10. QED
  BY <1>4, <1>6, <1>7, <1>8, <1>9 DEF IInv

\* A checkpoint while the server runs.
LEMMA AutoCheckpointStep ==
  ASSUME IInv, NEW p \in Process, AutoCheckpoint(p)
  PROVE  IInv'
<1>1. /\ proc \in [Process -> Row] /\ proc[p].step = "serving" /\ HasVault(live)
      /\ proc[p] \in Row /\ OwnFolder(proc[p]) /\ ~pending.exists
      /\ live \in File /\ wal \in File
  BY TheProcess DEF AutoCheckpoint, AtStep, ProcOK, Filling
<1>2. /\ UNCHANGED <<wal, staged, pending, kept, snapshots, lock, proc, committed,
                     current, offline, away, next>>
      /\ live' = Folded(live, wal) /\ proc' = [proc EXCEPT ![p] = proc[p]]
  BY <1>1 DEF AutoCheckpoint, Folded, Data
<1>3. live' \in File /\ HasVault(live')
  BY <1>1, <1>2, FoldedReads DEF HasVault
<1>4. ProcOK(proc[p], live', wal', pending', snapshots')
  BY <1>1, <1>2, <1>3 DEF ProcOK, Filling
<1>5. /\ proc' \in [Process -> Row] /\ LockIsHeld' /\ ProcsFit'
      /\ lock' \in Process \union {NoProcess}
  BY <1>1, <1>2, <1>4, HolderStep DEF IInv, Free
<1>6. Folders' = Folders /\ FoldersStay
  BY <1>1, <1>2, SameFolders
<1>7. FoldersFit'
  BY <1>6, SameFit DEF IInv
<1>8. TypeOK'
  BY <1>2, <1>3, <1>5 DEF IInv, TypeOK, Row
<1>9. FilesFit' /\ Fresh' /\ AwaySafe' /\ RestSafe' /\ Complete'
  BY <1>1, <1>2, <1>6, <1>8, FoldKeeps
<1>10. RollbackIsThere'
  BY <1>2 DEF IInv, RollbackIsThere
<1>11. QED
  BY <1>5, <1>7, <1>8, <1>9, <1>10 DEF IInv

\* The last connection of a process closes: the server stops, or an offline
\* rewrite is done.
LEMMA CloseStep ==
  ASSUME IInv, NEW p \in Process, proc[p].step \in {"serving", "close"},
         FoldLog, Finish(p),
         UNCHANGED <<staged, pending, snapshots, committed, current, offline,
                     away, next>>
  PROVE  IInv'
<1>1. /\ proc \in [Process -> Row] /\ HasVault(live) /\ OwnFolder(proc[p])
      /\ kept \subseteq {f \in Folder : f.exists}
      /\ live \in File /\ wal \in File
  BY TheProcess DEF ProcOK
<1>2. /\ proc' = [proc EXCEPT ![p] = Idle] /\ Idle \in Row /\ lock' = NoProcess
      /\ kept' = KeptWith(p) /\ Idle.folder = NoFolder
  BY Blanks DEF Finish
<1>3. live' = Folded(live, wal) /\ wal' = NoFile
  BY DEF FoldLog, Folded, Data
<1>4. live' \in File /\ wal' \in File
  BY <1>1, <1>3, FoldedReads, Blanks
<1>5. ProcOK(Idle, live', wal', pending', snapshots') /\ Idle.step \in Free
  BY Blanks DEF ProcOK, OwnFolder, Filling, Free
<1>6. /\ proc' \in [Process -> Row] /\ LockIsHeld' /\ ProcsFit'
      /\ lock' \in Process \union {NoProcess}
  BY <1>1, <1>2, <1>5, HolderStep DEF IInv, Free
<1>7. /\ kept' \subseteq {f \in Folder : f.exists} /\ FoldersStay
      /\ \A f \in Folders' : f = NoFolder \/ f \in Folders
  BY <1>1, <1>2, EndFolders
<1>8. FoldersFit'
  BY <1>7, SameFit DEF IInv
<1>9. TypeOK'
  BY <1>4, <1>6, <1>7 DEF IInv, TypeOK, Row
<1>10. FilesFit' /\ Fresh' /\ AwaySafe' /\ RestSafe' /\ Complete'
  BY <1>1, <1>3, <1>7, <1>9, FoldKeeps
<1>11. RollbackIsThere'
  BY DEF IInv, RollbackIsThere
<1>12. QED
  BY <1>6, <1>8, <1>9, <1>10, <1>11 DEF IInv

-----------------------------------------------------------------------------
(***************************************************************************)
(* The steps of the offline rewrites, of a restore and of a set-aside.     *)
(***************************************************************************)
\* The one transaction of an offline rewrite, after its rollback copy.
LEMMA WriteOfflineStep ==
  ASSUME IInv, NEW p \in Process, WriteOffline(p)
  PROVE  IInv'
<1>1. /\ proc \in [Process -> Row] /\ proc[p].step = "write" /\ HasVault(live)
      /\ proc[p].folder = NoFolder /\ Data \in Content
      /\ [vault |-> live.vault, upto |-> Data] \in snapshots
  BY TheProcess DEF WriteOffline, ProcOK, OwnFolder, Filling, Data
<1>2. PICK r \in Row : /\ proc' = [proc EXCEPT ![p] = r] /\ r.step = "close"
                       /\ r.folder = proc[p].folder
  BY StepRow DEF WriteOffline, Steps, IInv
<1>3. /\ UNCHANGED <<live, staged, pending, kept, snapshots, lock, away, next>>
      /\ AppendCommit
      /\ offline' = offline \union {[vault |-> live.vault, upto |-> Data + 1]}
  BY DEF WriteOffline
<1>4. ProcOK(r, live', wal', pending', snapshots')
  BY <1>1, <1>2, <1>3, Blanks DEF ProcOK, OwnFolder, Filling
<1>5. /\ proc' \in [Process -> Row] /\ LockIsHeld' /\ ProcsFit'
      /\ lock' \in Process \union {NoProcess}
  BY <1>1, <1>2, <1>3, <1>4, HolderStep DEF IInv, Free
<1>6. Folders' = Folders /\ FoldersStay
  BY <1>1, <1>2, <1>3, SameFolders
<1>7. FoldersFit'
  BY <1>6, SameFit DEF IInv
<1>8. TypeOK'
  <2>1. /\ wal' \in File /\ committed' \in [Vault -> Content]
        /\ Data + 1 \in Content /\ live.vault \in Vault
        /\ [vault |-> live.vault, upto |-> Data + 1] \in Copy
    BY <1>1, <1>3, AppendTypes
  <2>2. Data + 1 \in 0..(MaxCommits + 1)
    BY <2>1, VaultFileAssumption DEF Content
  <2>3. current' \in [Vault -> 0..(MaxCommits + 1)]
    BY <2>1, <2>2 DEF WriteOffline, IInv, TypeOK
  <2>4. offline' \subseteq Copy
    BY <1>3, <2>1 DEF IInv, TypeOK
  <2>5. QED
    BY <1>3, <1>5, <2>1, <2>3, <2>4 DEF IInv, TypeOK, Row
<1>9. FilesFit' /\ Fresh' /\ AwaySafe' /\ RestSafe' /\ Complete'
  BY <1>1, <1>3, <1>6, <1>8, AppendKeeps
<1>10. RollbackIsThere'
  <2> DEFINE c == [vault |-> live.vault, upto |-> Data + 1]
  <2>1. [c EXCEPT !.upto = @ - 1] = [vault |-> live.vault, upto |-> Data]
    BY <1>1, VaultFileAssumption DEF Content
  <2>2. [c EXCEPT !.upto = @ - 1] \in snapshots
    BY <1>1, <2>1
  <2> HIDE DEF c
  <2>3. offline' = offline \union {c}
    BY <1>3 DEF c
  <2>4. QED
    BY <1>3, <2>2, <2>3 DEF IInv, RollbackIsThere
<1>11. QED
  BY <1>5, <1>7, <1>8, <1>9, <1>10 DEF IInv

\* The log is folded, or part of it, or not: the folder has what can be read.
LEMMA FoldStep ==
  ASSUME IInv, NEW p \in Process, Fold(p)
  PROVE  IInv'
<1>1. /\ proc \in [Process -> Row] /\ proc[p].step = "fold" /\ HasVault(live)
      /\ proc[p].folder.main = live /\ proc[p].folder.wal = wal
      /\ proc[p].folder.exists /\ proc[p].folder.unfolded = NoFile
      /\ ~pending.exists /\ live \in File /\ wal \in File /\ Data \in Content
  BY TheProcess DEF Fold, AtStep, ProcOK, OwnFolder, Filling
<1>2. PICK r \in Row : /\ proc' = [proc EXCEPT ![p] = r]
                       /\ r.step = "move_sidecars"
                       /\ r.folder = proc[p].folder
  BY StepRow DEF Fold, Steps, IInv
<1>3. /\ UNCHANGED <<staged, pending, kept, snapshots, lock, committed, current,
                     offline, away, next>>
      /\ \/ live' = Folded(live, wal) /\ wal' \in {wal, NoFile}
         \/ UNCHANGED <<live, wal>>
  BY DEF Fold, FoldLog, Folded, Data
<1>4. /\ live' \in File /\ wal' \in File /\ live'.vault = live.vault
      /\ Read(live', wal') = Data
  BY <1>1, <1>3, FoldedReads, Blanks DEF Data
<1>5. ProcOK(r, live', wal', pending', snapshots')
  <2>1. OwnFolder(r)
    BY <1>1, <1>2 DEF OwnFolder, Filling
  <2>2. Read(r.folder.main, r.folder.wal) >= Read(live', wal')
    BY <1>1, <1>2, <1>4, VaultFileAssumption DEF Data, Content
  <2>3. QED
    BY <1>1, <1>2, <1>3, <1>4, <2>1, <2>2 DEF ProcOK
<1>6. /\ proc' \in [Process -> Row] /\ LockIsHeld' /\ ProcsFit'
      /\ lock' \in Process \union {NoProcess}
  BY <1>1, <1>2, <1>3, <1>5, HolderStep DEF IInv, Free
<1>7. Folders' = Folders /\ FoldersStay
  BY <1>1, <1>2, <1>3, SameFolders
<1>8. FoldersFit'
  BY <1>7, SameFit DEF IInv
<1>9. TypeOK'
  BY <1>3, <1>4, <1>6 DEF IInv, TypeOK, Row
<1>10. FilesFit' /\ Fresh' /\ AwaySafe' /\ RestSafe' /\ Complete'
  BY <1>1, <1>3, <1>7, <1>9, FoldKeeps
<1>11. RollbackIsThere'
  BY <1>3 DEF IInv, RollbackIsThere
<1>12. QED
  BY <1>6, <1>8, <1>9, <1>10, <1>11 DEF IInv

\* A log that is still there goes into the folder.
LEMMA MoveSidecarsStep ==
  ASSUME IInv, NEW p \in Process, MoveSidecars(p)
  PROVE  IInv'
<1>1. /\ proc \in [Process -> Row] /\ proc[p] \in Row
      /\ proc[p].step = "move_sidecars" /\ ~pending.exists
      /\ live \in File /\ wal \in File
      /\ HasVault(live) => ReadsAll(proc[p].folder.main, proc[p].folder.wal,
                                    [main |-> live, wal |-> wal])
  BY TheProcess DEF MoveSidecars, AtStep, ProcOK, Filling, ReadsAll
<1>2. /\ proc[p].folder \in Folder /\ proc[p].folder.exists
      /\ proc[p].folder.unfolded = NoFile
  BY <1>1, TheProcess DEF OwnFolder, Filling, Row
<1> DEFINE g == [proc[p].folder EXCEPT !.unfolded = wal]
           r == [proc[p] EXCEPT !.step = "replace", !.folder = g]
<1>3. /\ g \in Folder /\ g.exists /\ g.main = proc[p].folder.main
      /\ g.wal = proc[p].folder.wal /\ g.unfolded = wal
  BY <1>1, <1>2 DEF Folder
<1>4. proc' = [proc EXCEPT ![p] = r]
  BY <1>1 DEF MoveSidecars, Row
<1> HIDE DEF g
<1>5. r \in Row /\ r.step = "replace" /\ r.folder = g
  BY <1>1, <1>3 DEF Row, Steps
<1> HIDE DEF r
<1>6. /\ UNCHANGED <<live, staged, pending, kept, snapshots, lock, committed,
                     current, offline, away, next>>
      /\ wal' = NoFile
  BY DEF MoveSidecars
<1>7. /\ g.main \in File /\ g.wal \in File
      /\ Read(g.main, g.wal) \in Nat /\ Data \in Nat /\ Data' \in Nat
      /\ Data >= Data'
  <2>1. g.main \in File /\ g.wal \in File
    BY <1>3 DEF Folder
  <2>2. Data' = live.upto /\ Data >= live.upto /\ live.upto \in Content
    BY <1>1, <1>6, Blanks, ReadType DEF Data, File
  <2>3. Read(g.main, g.wal) \in Content /\ Data \in Content
    BY <1>1, <2>1, ReadType DEF Data
  <2>4. QED
    BY <2>1, <2>2, <2>3, VaultFileAssumption DEF Content
<1>8. ProcOK(r, live', wal', pending', snapshots')
  <2>1. OwnFolder(r)
    BY <1>3, <1>5 DEF OwnFolder, Filling
  <2>2. ASSUME HasVault(live)
        PROVE  g.main.vault = live.vault /\ Read(g.main, g.wal) >= Data'
    <3>1. g.main.vault = live.vault /\ Read(g.main, g.wal) >= Data
      BY <1>1, <1>3, <2>2 DEF ReadsAll, Data
    <3>2. QED
      BY <1>7, <3>1
  <2>3. QED
    BY <1>1, <1>5, <1>6, <2>1, <2>2 DEF ProcOK, Data
<1>9. /\ proc' \in [Process -> Row] /\ LockIsHeld' /\ ProcsFit'
      /\ lock' \in Process \union {NoProcess}
  BY <1>1, <1>4, <1>5, <1>6, <1>8, HolderStep DEF IInv, Free
<1>10. /\ \A f \in Folders : f = proc[p].folder \/ f \in Folders'
       /\ \A f \in Folders' : f = g \/ f \in Folders
       /\ g \in Folders'
  BY <1>1, <1>4, <1>5, <1>6, SwapFolders
<1>11. FoldersStay
  <2>1. Read(g.main, g.wal) >= Read(g.main, g.wal)
    BY <1>7
  <2>2. ReadsAll(g.main, g.wal, proc[p].folder)
    BY <1>3, <2>1 DEF ReadsAll
  <2>3. QED
    BY <1>2, <1>6, <1>10, <2>2 DEF FoldersStay
<1>12. FoldersFit'
  <2>1. proc[p].folder \in Folders
    BY DEF Folders
  <2>2. FolderFits(g)
    BY <1>3, <2>1 DEF IInv, FoldersFit, FolderFits
  <2>3. QED
    BY <1>10, <2>2 DEF IInv, FoldersFit
<1>13. TypeOK'
  BY <1>6, <1>9, Blanks DEF IInv, TypeOK, Row
<1>14. FilesFit'
  BY <1>6, Blanks DEF IInv, FilesFit, HasVault
<1>15. Fresh'
  BY <1>6 DEF IInv, Fresh
<1>16. pending = NoFolder
  BY <1>1 DEF IInv, FilesFit
<1>17. AwaySafe'
  <2>1. wal \in Logs' /\ pending.wal \in Logs'
    <3>1. Logs' = {wal', pending'.wal} \union {f.wal : f \in kept'}
                    \union {f.unfolded : f \in Folders'}
      BY DEF Logs, Folders
    <3>2. QED
      BY <1>3, <1>6, <1>10, <3>1
  <2>2. HasVault(away) => live'.vault # away.vault
    BY <1>6 DEF IInv, AwaySafe
  <2>3. QED
    BY <1>6, <1>11, <2>1, <2>2, AwayStays
<1>18. RestSafe'
  <2>1. ASSUME NEW v \in Vault
        PROVE  /\ Holds(live, wal, v, committed[v]) => SafeAt(v)'
               /\ ~Holds(pending.main, pending.wal, v, committed[v])
               /\ ~Holds(pending.main, wal, v, committed[v])
    <3>1. v # 0 /\ committed[v] \in Nat
      BY VaultFileAssumption DEF Vault, IInv, TypeOK, Content
    <3>2. ~Holds(pending.main, pending.wal, v, committed[v])
          /\ ~Holds(pending.main, wal, v, committed[v])
      BY <1>16, <3>1, Blanks DEF Holds
    <3>3. ASSUME Holds(live, wal, v, committed[v])
          PROVE  Holds(g.main, g.wal, v, committed'[v])
      <4>1. live.vault = v /\ Data >= committed[v] /\ HasVault(live)
        BY <3>1, <3>3 DEF Holds, Data, HasVault
      <4>2. g.main.vault = v /\ Read(g.main, g.wal) >= Data
        BY <1>1, <1>3, <4>1 DEF ReadsAll, Data
      <4>3. Read(g.main, g.wal) >= committed[v]
        BY <1>7, <3>1, <4>1, <4>2
      <4>4. QED
        BY <1>6, <4>2, <4>3 DEF Holds
    <3>4. QED
      BY <1>10, <3>2, <3>3 DEF SafeAt
  <2>2. QED
    BY <1>6, <1>11, <1>13, <2>1, RestStays
<1>19. Complete'
  <2>1. SUFFICES ASSUME HasVault(live)
                 PROVE  Data' = committed[live.vault] \/ Unfolded(live.vault)'
    BY <1>6 DEF Complete, HasVault
  <2>2. ASSUME NEW v, Unfolded(v) PROVE Unfolded(v)'
    BY <1>11, <2>2, UnfoldedStays
  <2>3. CASE wal.vault = live.vault
    <3>1. wal.exists
      BY <2>1, <2>3, Blanks DEF IInv, FilesFit, HasVault
    <3>2. Unfolded(live.vault)'
      BY <1>3, <1>6, <1>10, <2>3, <3>1 DEF Unfolded
    <3>3. QED
      BY <3>2
  <2>4. CASE wal.vault # live.vault
    <3>1. Data' = Data
      BY <1>1, <1>6, <2>4, Blanks, ReadType DEF Data
    <3>2. Data = committed[live.vault] \/ Unfolded(live.vault)
      BY <2>1 DEF IInv, Complete
    <3>3. QED
      BY <1>6, <2>2, <3>1, <3>2
  <2>5. QED
    BY <2>3, <2>4
<1>20. RollbackIsThere'
  BY <1>6 DEF IInv, RollbackIsThere
<1>21. QED
  BY <1>9, <1>12, <1>13, <1>14, <1>15, <1>17, <1>18, <1>19, <1>20 DEF IInv

\* The staged copy becomes the vault; the folder has the one it replaces.
LEMMA ReplaceStep ==
  ASSUME IInv, NEW p \in Process, Replace(p)
  PROVE  IInv'
<1>1. /\ proc \in [Process -> Row] /\ proc[p] \in Row
      /\ proc[p].step = "replace" /\ ~pending.exists /\ wal = NoFile
      /\ OwnFolder(proc[p]) /\ kept \subseteq {f \in Folder : f.exists}
      /\ live \in File
      /\ HasVault(live) => ReadsAll(proc[p].folder.main, proc[p].folder.wal,
                                    [main |-> live, wal |-> wal])
  BY TheProcess DEF Replace, AtStep, ProcOK, Filling, ReadsAll
<1>2. /\ proc' = [proc EXCEPT ![p] = Idle] /\ Idle \in Row /\ lock' = NoProcess
      /\ kept' = KeptWith(p) /\ Idle.folder = NoFolder
  BY Blanks DEF Replace, Finish
<1>3. /\ UNCHANGED <<wal, pending, snapshots, offline, away>>
      /\ staged' = FALSE /\ next <= MaxVaults
      /\ live' = FileOf(next, 1) /\ next' = next + 1
      /\ committed' = [committed EXCEPT ![next] = 1]
      /\ current' = [current EXCEPT ![next] = 1]
  BY DEF Replace
<1>4. /\ next \in Vault /\ next' \in 1..(MaxVaults + 1) /\ next \in 0..MaxVaults
      /\ next # 0 /\ 1 \in Content
  BY <1>3, VaultFileAssumption DEF IInv, TypeOK, Vault, Content
<1>5. /\ live' \in File /\ live'.vault = next /\ live'.exists
      /\ live'.upto = 1
  BY <1>3, <1>4, FileOfType
<1>6. pending = NoFolder
  BY <1>1 DEF IInv, FilesFit
<1>7. Data' = 1
  BY <1>1, <1>3, <1>5, Blanks, ReadType DEF Data
<1>8. /\ committed'[next] = 1
      /\ \A v \in Vault \ {next} : committed'[v] = committed[v]
  BY <1>3, <1>4 DEF IInv, TypeOK
<1>9. ProcOK(Idle, live', wal', pending', snapshots') /\ Idle.step \in Free
  BY Blanks DEF ProcOK, OwnFolder, Filling, Free
<1>10. /\ proc' \in [Process -> Row] /\ LockIsHeld' /\ ProcsFit'
       /\ lock' \in Process \union {NoProcess}
  BY <1>1, <1>2, <1>9, HolderStep DEF IInv, Free
<1>11. /\ kept' \subseteq {f \in Folder : f.exists} /\ FoldersStay
       /\ \A f \in Folders' : f = NoFolder \/ f \in Folders
  BY <1>1, <1>2, EndFolders
<1>12. FoldersFit'
  BY <1>11, SameFit DEF IInv
<1>13. TypeOK'
  <2>1. current' \in [Vault -> 0..(MaxCommits + 1)]
        /\ committed' \in [Vault -> Content]
    BY <1>3, <1>4, VaultFileAssumption DEF IInv, TypeOK
  <2>2. QED
    BY <1>3, <1>4, <1>5, <1>10, <1>11, <2>1 DEF IInv, TypeOK, Row
<1>14. FilesFit'
  BY <1>1, <1>3, <1>5, <1>6, Blanks DEF IInv, FilesFit, HasVault
<1>15. Fresh'
  <2>1. away.vault < next'
    BY <1>3, <1>4 DEF IInv, Fresh, TypeOK, File
  <2>2. \A v \in Vault : v >= next' => committed'[v] = 0
    BY <1>3, <1>4, <1>8 DEF IInv, Fresh, Vault
  <2>3. QED
    BY <1>3, <1>4, <1>5, <2>1, <2>2 DEF Fresh
<1>16. AwaySafe'
  <2>1. wal \in Logs' /\ pending.wal \in Logs'
    BY <1>3 DEF Logs
  <2>2. live'.vault # away.vault
    BY <1>4, <1>5 DEF IInv, Fresh, TypeOK
  <2>3. HasVault(away) => away.vault \in Vault /\ away.vault # next
    BY <1>5, <2>2, VaultFileAssumption DEF HasVault, IInv, TypeOK, File, Vault
  <2>4. QED
    BY <1>3, <1>8, <1>11, <2>1, <2>2, <2>3, AwayStays
<1>17. RestSafe'
  <2>1. ASSUME NEW v \in Vault, v # next
        PROVE  /\ committed'[v] = committed[v]
               /\ Holds(live, wal, v, committed[v]) => SafeAt(v)'
               /\ ~Holds(pending.main, pending.wal, v, committed[v])
               /\ ~Holds(pending.main, wal, v, committed[v])
    <3>1. v # 0 /\ committed[v] \in Content /\ committed'[v] = committed[v]
      BY <1>8, <2>1 DEF Vault, IInv, TypeOK
    <3>2. ~Holds(pending.main, pending.wal, v, committed[v])
          /\ ~Holds(pending.main, wal, v, committed[v])
      BY <1>6, <3>1, Blanks DEF Holds
    <3>3. ASSUME Holds(live, wal, v, committed[v])
          PROVE  \E g \in Folders' : Holds(g.main, g.wal, v, committed'[v])
      <4> DEFINE f == proc[p].folder
      <4>1. f \in Folder /\ f \in Folders
        BY <1>1 DEF Folders, Row
      <4>2. f.main \in File /\ f.wal \in File /\ wal \in File
        BY <1>1, <4>1, Blanks DEF Folder
      <4>3. live.vault = v /\ HasVault(live)
        BY <3>1, <3>3 DEF Holds, HasVault
      <4>4. f.main.vault = v /\ Read(f.main, f.wal) >= Read(live, wal)
        BY <1>1, <4>3 DEF ReadsAll
      <4>5. Read(f.main, f.wal) >= committed[v]
        <5>1. /\ Read(f.main, f.wal) \in Nat /\ Read(live, wal) \in Nat
              /\ committed[v] \in Nat
          BY <1>1, <3>1, <4>2, ReadType, VaultFileAssumption DEF Content
        <5>2. Read(live, wal) >= committed[v]
          BY <3>3 DEF Holds
        <5>3. QED
          BY <4>4, <5>1, <5>2
      <4>6. f \in kept'
        <5>1. f.main # NoFile
          BY <3>1, <4>4, Blanks
        <5>2. f.exists
          BY <1>1, <5>1, Blanks DEF OwnFolder
        <5>3. QED
          BY <1>2, <5>2 DEF KeptWith
      <4>7. QED
        BY <3>1, <4>4, <4>5, <4>6 DEF Folders, Holds
    <3>4. QED
      BY <3>1, <3>2, <3>3 DEF SafeAt
  <2>2. ASSUME NEW v \in Vault, v = next PROVE SafeAt(v)'
    <3>1. Holds(live', wal', v, committed'[v])
      BY <1>5, <1>7, <1>8, <2>2 DEF Holds, Data
    <3>2. QED
      BY <3>1 DEF SafeAt
  <2>3. QED
    BY <1>3, <1>11, <1>13, <2>1, <2>2, RestStays
<1>18. Complete'
  BY <1>5, <1>7, <1>8 DEF Complete
<1>19. RollbackIsThere'
  BY <1>3 DEF IInv, RollbackIsThere
<1>20. QED
  BY <1>10, <1>12, <1>13, <1>14, <1>15, <1>16, <1>17, <1>18, <1>19 DEF IInv

\* The marker of a set-aside.
LEMMA MarkStep ==
  ASSUME IInv, NEW p \in Process, MarkPending(p)
  PROVE  IInv'
<1>1. /\ proc \in [Process -> Row] /\ proc[p].step = "mark"
      /\ proc[p].folder = NoFolder
  BY TheProcess DEF MarkPending, AtStep, OwnFolder, Filling
<1>2. PICK r \in Row : /\ proc' = [proc EXCEPT ![p] = r] /\ r.step = "move_main"
                       /\ r.folder = proc[p].folder
  BY StepRow DEF MarkPending, Steps, IInv
<1>3. /\ UNCHANGED <<live, wal, staged, kept, snapshots, lock, committed,
                     current, offline, away, next>>
      /\ pending' = [pending EXCEPT !.exists = TRUE]
  BY DEF MarkPending
<1>4. /\ pending' \in Folder /\ pending'.exists /\ pending'.main = pending.main
      /\ pending'.wal = pending.wal
  BY <1>3 DEF IInv, TypeOK, Folder
<1>5. ProcOK(r, live', wal', pending', snapshots')
  BY <1>1, <1>2, <1>3, <1>4, Blanks DEF ProcOK, OwnFolder, Filling
<1>6. /\ proc' \in [Process -> Row] /\ LockIsHeld' /\ ProcsFit'
      /\ lock' \in Process \union {NoProcess}
  BY <1>1, <1>2, <1>3, <1>5, HolderStep DEF IInv, Free
<1>7. Folders' = Folders /\ FoldersStay
  BY <1>1, <1>2, <1>3, SameFolders
<1>8. FoldersFit'
  BY <1>7, SameFit DEF IInv
<1>9. TypeOK'
  BY <1>3, <1>4, <1>6 DEF IInv, TypeOK, Row
<1>10. FilesFit'
  BY <1>3, <1>4 DEF IInv, FilesFit, HasVault
<1>11. Fresh'
  BY <1>3 DEF IInv, Fresh
<1>12. AwaySafe'
  <2>1. wal \in Logs' /\ pending.wal \in Logs'
    BY <1>3, <1>4 DEF Logs
  <2>2. HasVault(away) => live'.vault # away.vault
    BY <1>3 DEF IInv, AwaySafe
  <2>3. QED
    BY <1>3, <1>7, <2>1, <2>2, AwayStays
<1>13. RestSafe'
  <2>1. ASSUME NEW v \in Vault
        PROVE  /\ Holds(live, wal, v, committed[v]) => SafeAt(v)'
               /\ Holds(pending.main, pending.wal, v, committed[v]) => SafeAt(v)'
               /\ Holds(pending.main, wal, v, committed[v]) => SafeAt(v)'
    BY <1>3, <1>4 DEF SafeAt
  <2>2. QED
    BY <1>3, <1>7, <1>9, <2>1, RestStays
<1>14. Complete'
  BY <1>3, <1>7 DEF IInv, Complete, Data, Unfolded
<1>15. RollbackIsThere'
  BY <1>3 DEF IInv, RollbackIsThere
<1>16. QED
  BY <1>6, <1>8, <1>9, <1>10, <1>11, <1>12, <1>13, <1>14, <1>15 DEF IInv

\* The vault file is moved into the marker's folder, if it is still there.
LEMMA MoveMainStep ==
  ASSUME IInv, NEW p \in Process, MoveMain(p)
  PROVE  IInv'
<1>1. /\ proc \in [Process -> Row] /\ proc[p].step = "move_main"
      /\ proc[p].folder = NoFolder /\ pending.exists /\ live \in File
  BY TheProcess DEF MoveMain, AtStep, ProcOK, OwnFolder, Filling
<1>2. PICK r \in Row : /\ proc' = [proc EXCEPT ![p] = r] /\ r.step = "move_wal"
                       /\ r.folder = proc[p].folder
  BY StepRow DEF MoveMain, Steps, IInv
<1>3. /\ UNCHANGED <<wal, staged, kept, snapshots, lock, committed, current,
                     offline, away, next>>
      /\ live' = NoFile
      /\ live.exists => pending' = [pending EXCEPT !.main = live]
      /\ ~live.exists => pending' = pending
  BY DEF MoveMain
<1>4. /\ pending' \in Folder /\ pending'.exists
      /\ pending'.main = (IF live.exists THEN live ELSE pending.main)
      /\ pending'.wal = pending.wal
  BY <1>1, <1>3 DEF IInv, TypeOK, Folder
<1>5. ProcOK(r, live', wal', pending', snapshots')
  BY <1>1, <1>2, <1>3, <1>4, Blanks DEF ProcOK, OwnFolder, Filling
<1>6. /\ proc' \in [Process -> Row] /\ LockIsHeld' /\ ProcsFit'
      /\ lock' \in Process \union {NoProcess}
  BY <1>1, <1>2, <1>3, <1>5, HolderStep DEF IInv, Free
<1>7. Folders' = Folders /\ FoldersStay
  BY <1>1, <1>2, <1>3, SameFolders
<1>8. FoldersFit'
  BY <1>7, SameFit DEF IInv
<1>9. TypeOK'
  BY <1>3, <1>4, <1>6, Blanks DEF IInv, TypeOK, Row
<1>10. FilesFit'
  BY <1>3, <1>4, Blanks DEF IInv, FilesFit, HasVault
<1>11. Fresh'
  BY <1>3, Blanks DEF IInv, Fresh, TypeOK
<1>12. AwaySafe'
  <2>1. wal \in Logs' /\ pending.wal \in Logs'
    BY <1>3, <1>4 DEF Logs
  <2>2. HasVault(away) => live'.vault # away.vault
    BY <1>3, Blanks DEF HasVault
  <2>3. QED
    BY <1>3, <1>7, <2>1, <2>2, AwayStays
<1>13. RestSafe'
  <2>1. ASSUME NEW v \in Vault
        PROVE  /\ Holds(live, wal, v, committed[v]) => SafeAt(v)'
               /\ Holds(pending.main, pending.wal, v, committed[v]) => SafeAt(v)'
               /\ Holds(pending.main, wal, v, committed[v]) => SafeAt(v)'
    <3>1. v # 0
      BY DEF Vault
    <3>2. CASE live.exists
      <4>1. pending.main = NoFile
        BY <3>2 DEF IInv, FilesFit
      <4>2. pending'.main = live /\ wal' = wal
        BY <1>3, <1>4, <3>2
      <4>3. QED
        BY <1>3, <3>1, <4>1, <4>2, Blanks DEF SafeAt, Holds
    <3>3. CASE ~live.exists
      <4>1. live = NoFile
        BY <3>3 DEF IInv, FilesFit
      <4>2. QED
        BY <1>3, <3>1, <3>3, <4>1, Blanks DEF SafeAt, Holds
    <3>4. QED
      BY <3>2, <3>3
  <2>2. QED
    BY <1>3, <1>7, <1>9, <2>1, RestStays
<1>14. Complete'
  BY <1>3, Blanks DEF Complete, HasVault
<1>15. RollbackIsThere'
  BY <1>3 DEF IInv, RollbackIsThere
<1>16. QED
  BY <1>6, <1>8, <1>9, <1>10, <1>11, <1>12, <1>13, <1>14, <1>15 DEF IInv

\* Then its log.
LEMMA MoveWalStep ==
  ASSUME IInv, NEW p \in Process, MoveWal(p)
  PROVE  IInv'
<1>1. /\ proc \in [Process -> Row] /\ proc[p].step = "move_wal"
      /\ proc[p].folder = NoFolder /\ pending.exists /\ live = NoFile
      /\ wal \in File
  BY TheProcess DEF MoveWal, AtStep, ProcOK, OwnFolder, Filling
<1>2. PICK r \in Row : /\ proc' = [proc EXCEPT ![p] = r] /\ r.step = "publish"
                       /\ r.folder = proc[p].folder
  BY StepRow DEF MoveWal, Steps, IInv
<1>3. /\ UNCHANGED <<live, staged, kept, snapshots, lock, committed, current,
                     offline, away, next>>
      /\ wal' = NoFile
      /\ wal.exists => pending' = [pending EXCEPT !.wal = wal]
      /\ ~wal.exists => pending' = pending
  BY DEF MoveWal
<1>4. /\ pending' \in Folder /\ pending'.exists /\ pending'.main = pending.main
      /\ pending'.wal = (IF wal.exists THEN wal ELSE pending.wal)
  BY <1>1, <1>3 DEF IInv, TypeOK, Folder
<1>5. ProcOK(r, live', wal', pending', snapshots')
  BY <1>1, <1>2, <1>3, <1>4, Blanks DEF ProcOK, OwnFolder, Filling
<1>6. /\ proc' \in [Process -> Row] /\ LockIsHeld' /\ ProcsFit'
      /\ lock' \in Process \union {NoProcess}
  BY <1>1, <1>2, <1>3, <1>5, HolderStep DEF IInv, Free
<1>7. Folders' = Folders /\ FoldersStay
  BY <1>1, <1>2, <1>3, SameFolders
<1>8. FoldersFit'
  BY <1>7, SameFit DEF IInv
<1>9. TypeOK'
  BY <1>3, <1>4, <1>6, Blanks DEF IInv, TypeOK, Row
<1>10. FilesFit'
  BY <1>1, <1>3, <1>4, Blanks DEF IInv, FilesFit, HasVault
<1>11. Fresh'
  BY <1>3 DEF IInv, Fresh
<1>12. wal.exists => pending.wal = NoFile
  BY DEF IInv, FilesFit
<1>13. ~wal.exists => wal = NoFile
  BY DEF IInv, FilesFit
<1>14. AwaySafe'
  <2>1. pending'.wal \in Logs'
    BY DEF Logs
  <2>2. HasVault(away) => /\ live'.vault # away.vault
                          /\ wal.vault = away.vault => wal \in Logs'
                          /\ pending.wal.vault = away.vault =>
                               pending.wal \in Logs'
    BY <1>1, <1>3, <1>4, <1>12, <1>13, <2>1, Blanks DEF HasVault
  <2>3. QED
    BY <1>3, <1>7, <2>2, AwayStays
<1>15. RestSafe'
  <2>1. ASSUME NEW v \in Vault
        PROVE  /\ ~Holds(live, wal, v, committed[v])
               /\ Holds(pending.main, pending.wal, v, committed[v]) => SafeAt(v)'
               /\ Holds(pending.main, wal, v, committed[v]) => SafeAt(v)'
    <3>1. v # 0 /\ committed[v] \in Nat
      BY VaultFileAssumption DEF Vault, IInv, TypeOK, Content
    <3>2. ~Holds(live, wal, v, committed[v])
      BY <1>1, <3>1, Blanks DEF Holds
    <3>3. CASE wal.exists
      <4>1. pending.main \in File
        BY DEF IInv, TypeOK, Folder
      <4>2. /\ Read(pending.main, wal) \in Content
            /\ Read(pending.main, wal) >= Read(pending.main, pending.wal)
        BY <1>1, <1>12, <3>3, <4>1, Blanks, ReadType
      <4>3. Read(pending.main, pending.wal) \in Content
        BY <1>12, <3>3, <4>1, Blanks, ReadType
      <4>4. Read(pending.main, wal) \in Nat /\ Read(pending.main, pending.wal) \in Nat
        BY <4>2, <4>3, VaultFileAssumption DEF Content
      <4>5. Holds(pending.main, pending.wal, v, committed[v]) =>
              Holds(pending.main, wal, v, committed[v])
        BY <3>1, <4>2, <4>4 DEF Holds
      <4>6. Holds(pending.main, wal, v, committed[v]) =>
              Holds(pending'.main, pending'.wal, v, committed'[v])
        BY <1>3, <1>4, <3>3
      <4>7. QED
        BY <3>2, <4>5, <4>6 DEF SafeAt
    <3>4. CASE ~wal.exists
      BY <1>3, <1>13, <3>2, <3>4 DEF SafeAt
    <3>5. QED
      BY <3>3, <3>4
  <2>2. QED
    BY <1>3, <1>7, <1>9, <2>1, RestStays
<1>16. Complete'
  BY <1>1, <1>3, Blanks DEF Complete, HasVault
<1>17. RollbackIsThere'
  BY <1>3 DEF IInv, RollbackIsThere
<1>18. QED
  BY <1>6, <1>8, <1>9, <1>10, <1>11, <1>14, <1>15, <1>16, <1>17 DEF IInv

\* The folder gets its name.
LEMMA PublishStep ==
  ASSUME IInv, NEW p \in Process, Publish(p)
  PROVE  IInv'
<1>1. /\ proc \in [Process -> Row] /\ proc[p].step = "publish"
      /\ proc[p].folder = NoFolder /\ pending.exists /\ live = NoFile
      /\ wal = NoFile /\ kept \subseteq {f \in Folder : f.exists}
  BY TheProcess DEF Publish, AtStep, ProcOK, OwnFolder, Filling
<1>2. /\ proc' = [proc EXCEPT ![p] = Idle] /\ Idle \in Row /\ lock' = NoProcess
      /\ kept' = kept \union {pending} /\ pending' = NoFolder
      /\ Idle.folder = NoFolder
  BY Blanks DEF Publish
<1>3. UNCHANGED <<live, wal, staged, snapshots, committed, current, offline,
                  away, next>>
  BY DEF Publish
<1>4. ProcOK(Idle, live', wal', pending', snapshots') /\ Idle.step \in Free
  BY Blanks DEF ProcOK, OwnFolder, Filling, Free
<1>5. /\ proc' \in [Process -> Row] /\ LockIsHeld' /\ ProcsFit'
      /\ lock' \in Process \union {NoProcess}
  BY <1>1, <1>2, <1>4, HolderStep DEF IInv, Free
<1>6. /\ \A q \in Process : proc'[q].folder = proc[q].folder
      /\ pending \in Folder
  BY <1>1, <1>2 DEF IInv, TypeOK
<1>7. Folders' = Folders \union {pending} /\ pending \in Folders'
  BY <1>2, <1>6 DEF Folders
<1>8. FoldersStay
  BY <1>2, <1>7 DEF FoldersStay
<1>9. FoldersFit'
  BY <1>7 DEF IInv, FoldersFit, FolderFits, FilesFit
<1>10. TypeOK'
  BY <1>1, <1>2, <1>3, <1>5, <1>6, Blanks DEF IInv, TypeOK, Row
<1>11. FilesFit'
  BY <1>1, <1>2, <1>3, Blanks DEF FilesFit, HasVault
<1>12. Fresh'
  BY <1>3 DEF IInv, Fresh
<1>13. AwaySafe'
  <2>1. wal \in Logs' /\ pending.wal \in Logs'
    BY <1>2, <1>3 DEF Logs
  <2>2. HasVault(away) => live'.vault # away.vault
    BY <1>3 DEF IInv, AwaySafe
  <2>3. QED
    BY <1>3, <1>8, <2>1, <2>2, AwayStays
<1>14. RestSafe'
  <2>1. ASSUME NEW v \in Vault
        PROVE  /\ ~Holds(live, wal, v, committed[v])
               /\ Holds(pending.main, pending.wal, v, committed[v]) => SafeAt(v)'
               /\ Holds(pending.main, wal, v, committed[v]) => SafeAt(v)'
    <3>1. v # 0 /\ committed[v] \in Nat
      BY VaultFileAssumption DEF Vault, IInv, TypeOK, Content
    <3>2. ~Holds(live, wal, v, committed[v])
      BY <1>1, <3>1, Blanks DEF Holds
    <3>3. pending.main \in File /\ pending.wal \in File
      BY <1>6 DEF Folder
    <3>4. /\ Read(pending.main, wal) = pending.main.upto
          /\ Read(pending.main, pending.wal) >= pending.main.upto
          /\ pending.main.upto \in Nat /\ Read(pending.main, pending.wal) \in Content
      BY <1>1, <3>3, Blanks, ReadType, VaultFileAssumption DEF File, Content
    <3>5. Read(pending.main, pending.wal) \in Nat
      BY <3>4, VaultFileAssumption DEF Content
    <3>6. Holds(pending.main, wal, v, committed[v]) =>
            Holds(pending.main, pending.wal, v, committed[v])
      BY <3>1, <3>4, <3>5 DEF Holds
    <3>7. Holds(pending.main, pending.wal, v, committed[v]) => SafeAt(v)'
      BY <1>3, <1>7 DEF SafeAt
    <3>8. QED
      BY <3>2, <3>6, <3>7
  <2>2. QED
    BY <1>3, <1>8, <1>10, <2>1, RestStays
<1>15. Complete'
  BY <1>1, <1>3, Blanks DEF Complete, HasVault
<1>16. RollbackIsThere'
  BY <1>3 DEF IInv, RollbackIsThere
<1>17. QED
  BY <1>5, <1>9, <1>10, <1>11, <1>12, <1>13, <1>14, <1>15, <1>16 DEF IInv

-----------------------------------------------------------------------------
(***************************************************************************)
(* The inductive invariant.                                                *)
(***************************************************************************)
\* The three states a data folder can be found in.
LEMMA InitOK == Init => IInv
<1> SUFFICES ASSUME Init PROVE IInv
  OBVIOUS
<1>1. /\ staged = FALSE /\ pending = NoFolder /\ kept = {} /\ snapshots = {}
      /\ offline = {} /\ lock = NoProcess /\ proc = [p \in Process |-> Idle]
  BY DEF Init
<1>2. \A p \in Process : proc[p] = Idle
  BY <1>1
<1>3. /\ 0 \in Content /\ 1 \in Content /\ 2 \in Content
      /\ 1 \in 0..MaxVaults /\ 1 \in Vault
      /\ 1 \in 1..(MaxVaults + 1) /\ 2 \in 1..(MaxVaults + 1)
      /\ 0 \in 0..(MaxCommits + 1) /\ 1 \in 0..(MaxCommits + 1)
      /\ MaxCommits + 1 \in 0..(MaxCommits + 1)
  BY VaultFileAssumption DEF Content, Vault
<1>4. /\ FileOf(1, 1) \in File /\ FileOf(1, 1).vault = 1 /\ FileOf(1, 1).upto = 1
      /\ FileOf(1, 2) \in File /\ FileOf(1, 2).vault = 1 /\ FileOf(1, 2).upto = 2
      /\ FileOf(1, 1).exists /\ FileOf(1, 2).exists
  BY <1>3, FileOfType
<1>5. proc \in [Process -> Row] /\ lock \in Process \union {NoProcess}
  BY <1>1, Blanks
<1>6. LockIsHeld
  BY <1>2, Blanks DEF LockIsHeld, Free
<1>7. ProcsFit
  <2>1. ProcOK(Idle, live, wal, pending, snapshots)
    BY Blanks DEF ProcOK, OwnFolder, Filling
  <2>2. QED
    BY <1>2, <2>1 DEF ProcsFit
<1>8. FoldersFit
  <2>1. FolderFits(NoFolder)
    BY Blanks DEF FolderFits, HasVault
  <2>2. \A f \in Folders : f = NoFolder
    BY <1>1, <1>2, Blanks DEF Folders
  <2>3. QED
    BY <2>1, <2>2 DEF FoldersFit
<1>9. RollbackIsThere
  BY <1>1 DEF RollbackIsThere
<1>10. \A f : f \in kept => f \in Folder /\ f.exists
  BY <1>1
<1>11. CASE /\ live = NoFile /\ wal = NoFile /\ away = NoFile /\ next = 1
            /\ committed = [v \in Vault |-> 0] /\ current = [v \in Vault |-> 0]
  <2>1. TypeOK
    BY <1>1, <1>3, <1>5, <1>11, Blanks DEF TypeOK, Row
  <2>2. FilesFit /\ Fresh /\ Complete
    BY <1>1, <1>11, Blanks DEF FilesFit, Fresh, Complete, HasVault
  <2>3. AwaySafe /\ RestSafe
    BY <1>11, Blanks DEF AwaySafe, RestSafe, HasVault
  <2>4. QED
    BY <1>6, <1>7, <1>8, <1>9, <2>1, <2>2, <2>3 DEF IInv
<1>12. CASE /\ live = FileOf(1, 1) /\ wal = FileOf(1, 2) /\ away = NoFile
            /\ next = 2
            /\ committed = [v \in Vault |-> IF v = 1 THEN 2 ELSE 0]
            /\ current = [v \in Vault |-> IF v = 1 THEN MaxCommits + 1 ELSE 0]
  <2>1. TypeOK
    BY <1>1, <1>3, <1>4, <1>5, <1>12, Blanks DEF TypeOK, Row
  <2>2. Data = 2 /\ committed[1] = 2
    BY <1>3, <1>4, <1>12 DEF Data, Read
  <2>3. FilesFit
    BY <1>1, <1>4, <1>12, Blanks DEF FilesFit, HasVault
  <2>4. Fresh
    BY <1>4, <1>12, Blanks DEF Fresh, Vault
  <2>5. Complete
    BY <1>4, <1>12, <2>2 DEF Complete
  <2>6. AwaySafe
    BY <1>12, Blanks DEF AwaySafe, HasVault
  <2>7. RestSafe
    <3>1. \A v \in Vault : committed[v] # 0 => v = 1
      BY <1>12
    <3>2. SafeAt(1)
      BY <1>4, <1>12, <2>2 DEF SafeAt, Holds, Data
    <3>3. QED
      BY <3>1, <3>2 DEF RestSafe
  <2>8. QED
    BY <1>6, <1>7, <1>8, <1>9, <2>1, <2>3, <2>4, <2>5, <2>6, <2>7 DEF IInv
<1>13. CASE /\ live = NoFile /\ wal = FileOf(1, 2) /\ away = FileOf(1, 1)
            /\ next = 2
            /\ committed = [v \in Vault |-> IF v = 1 THEN 2 ELSE 0]
            /\ current = [v \in Vault |-> IF v = 1 THEN 1 ELSE 0]
  <2>1. TypeOK
    BY <1>1, <1>3, <1>4, <1>5, <1>13, Blanks DEF TypeOK, Row
  <2>2. Read(away, wal) = 2 /\ committed[1] = 2
    BY <1>3, <1>4, <1>13 DEF Read
  <2>3. FilesFit
    BY <1>1, <1>4, <1>13, Blanks DEF FilesFit, HasVault
  <2>4. Fresh
    BY <1>4, <1>13, Blanks DEF Fresh, Vault
  <2>5. Complete
    BY <1>13, Blanks DEF Complete, HasVault
  <2>6. AwaySafe
    <3>1. wal \in Logs /\ Completes(wal)
      BY <1>4, <1>13, <2>2 DEF Logs, Completes
    <3>2. QED
      BY <1>4, <1>13, <3>1, Blanks DEF AwaySafe
  <2>7. RestSafe
    BY <1>4, <1>13 DEF RestSafe
  <2>8. QED
    BY <1>6, <1>7, <1>8, <1>9, <2>1, <2>3, <2>4, <2>5, <2>6, <2>7 DEF IInv
<1>14. QED
  BY <1>11, <1>12, <1>13 DEF Init

\* Every step keeps it.
LEMMA NextOK == IInv /\ [Next]_vars => IInv'
<1> SUFFICES ASSUME IInv, [Next]_vars PROVE IInv'
  OBVIOUS
<1>1. ASSUME NEW p \in Process, NEW op \in Ops \ {"snapshot"}, Acquire(p, op)
      PROVE  IInv'
  BY <1>1, AcquireStep
<1>2. ASSUME NEW p \in Process, Serve(p) PROVE IInv'
  <2>1. CASE StopServer(p)
    BY <2>1, CloseStep DEF StopServer, AtStep
  <2>2. QED
    BY <1>2, <2>1, PrepareStep, OpenEmptyStep, EnsureSchemaStep, WriteStep,
       AutoCheckpointStep DEF Serve
<1>3. ASSUME NEW p \in Process, Restore(p) PROVE IInv'
  BY <1>3, RefuseStep, StageStep, RetireStep, KeepMainStep, KeepWalStep, FoldStep,
     MoveSidecarsStep, ReplaceStep, CleanupStep DEF Restore
<1>4. ASSUME NEW p \in Process, SetAside(p) PROVE IInv'
  BY <1>4, MarkStep, MoveMainStep, MoveWalStep, PublishStep DEF SetAside
<1>5. ASSUME NEW p \in Process, Offline(p) PROVE IInv'
  <2>1. CASE CloseOffline(p)
    BY <2>1, CloseStep DEF CloseOffline
  <2>2. QED
    BY <1>5, <2>1, RollbackCopyStep, WriteOfflineStep DEF Offline
<1>6. ASSUME NEW p \in Process, Fail(p) \/ Kill(p) PROVE IInv'
  BY <1>6, FailStep, KillStep
<1>7. CASE Snapshot
  BY <1>7, SnapshotStep
<1>8. CASE UNCHANGED vars
  <2>1. /\ TypeOK' /\ LockIsHeld' /\ Fresh' /\ RollbackIsThere'
    BY <1>8 DEF IInv, vars, TypeOK, LockIsHeld, Fresh, RollbackIsThere
  <2>2. ProcsFit' /\ FilesFit'
    BY <1>8 DEF IInv, vars, ProcsFit, FilesFit
  <2>3. Folders' = Folders /\ Logs' = Logs
    BY <1>8 DEF vars, Folders, Logs
  <2>4. FoldersFit' /\ AwaySafe' /\ RestSafe'
    BY <1>8, <2>3 DEF IInv, vars, FoldersFit, AwaySafe, Completes, RestSafe, SafeAt
  <2>5. Complete'
    BY <1>8, <2>3 DEF IInv, vars, Complete, Unfolded, Data
  <2>6. QED
    BY <2>1, <2>2, <2>4, <2>5 DEF IInv
<1>9. QED
  BY <1>1, <1>2, <1>3, <1>4, <1>5, <1>6, <1>7, <1>8 DEF Next

\* The invariant holds in every reachable state.
THEOREM Invariance == Spec => []IInv
BY InitOK, NextOK, PTL DEF Spec

-----------------------------------------------------------------------------
(***************************************************************************)
(* What follows.                                                           *)
(***************************************************************************)
\* After every system call of every process, the files are well formed and a
\* log is never next to another vault's file (storage.py:_retire).
THEOREM AlwaysSound == Spec => []FilesAreSound
<1>1. IInv => FilesAreSound
  BY DEF IInv, FilesAreSound, NoForeignJournal, FilesFit, FoldersFit, FolderFits,
         Folders
<1>2. QED
  BY <1>1, Invariance, PTL

\* Every acknowledged transaction of every vault can be read from somewhere,
\* whatever was killed or failed on the way (storage.py:restore, :set_aside).
THEOREM NeverLost == Spec => []NothingIsLost
<1>1. IInv => NothingIsLost
  <2> SUFFICES ASSUME IInv, NEW v \in Vault, committed[v] # 0
               PROVE  \E q \in Places : q[1].vault = v /\ Read(q[1], q[2]) >= committed[v]
    BY DEF NothingIsLost
  <2>1. v # 0
    BY DEF Vault
  <2>2. CASE v = away.vault
    <3>1. PICK l \in Logs : Completes(l)
      BY <2>1, <2>2 DEF IInv, AwaySafe, HasVault
    <3>2. <<away, l>> \in Places
      BY DEF Places
    <3>3. QED
      BY <2>2, <3>1, <3>2 DEF Completes
  <2>3. CASE v # away.vault
    <3>1. SafeAt(v)
      BY <2>3 DEF IInv, RestSafe
    <3>2. /\ <<live, wal>> \in Places /\ <<pending.main, pending.wal>> \in Places
          /\ <<pending.main, wal>> \in Places
      BY DEF Places
    <3>3. \A f \in Folders : <<f.main, f.wal>> \in Places
      BY DEF Places, Folders
    <3>4. QED
      BY <3>1, <3>2, <3>3 DEF SafeAt, Holds
  <2>4. QED
    BY <2>2, <2>3
<1>2. QED
  BY <1>1, Invariance, PTL

\* An interrupted set-aside can always be finished (storage.py:set_aside).
THEOREM AlwaysResumes == Spec => []SetAsideCanResume
<1>1. IInv => SetAsideCanResume
  BY DEF IInv, FilesFit, SetAsideCanResume
<1>2. QED
  BY <1>1, Invariance, PTL

\* A migration or settings reset can always be undone
\* (storage.py:migrate_folders, :reset_settings).
THEOREM AlwaysUndone == Spec => []RollbackIsThere
<1>1. IInv => RollbackIsThere
  BY DEF IInv
<1>2. QED
  BY <1>1, Invariance, PTL

\* Whenever the server works on a vault, or nobody does, everything committed to
\* it is there, but for a log that SQLite failed to fold (UPDATING.md:106).
THEOREM AlwaysComplete == Spec => []InterruptedRestoreIsComplete
<1>1. IInv => InterruptedRestoreIsComplete
  BY DEF IInv, Complete, Unfolded, Folders, InterruptedRestoreIsComplete
<1>2. QED
  BY <1>1, Invariance, PTL

=============================================================================

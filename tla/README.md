# CipherMoth in TLA+

A verification project for CipherMoth, a self-hosted password manager: a FastAPI
backend on one SQLite file (`src/backend`), a React client (`src/frontend`) and
a desktop application (`src/desktop`) that runs the same backend as a private
child process. TLC model-checks the modules on small instances; TLAPS proves the
theorems for every instance.

## 1. The system

| Part | State | Operations | Interacts with |
|---|---|---|---|
| Session store (`vault_sessions.py`) | ordered map token -> key, account, two timestamps; idle timeout | open, resolve, revoke (one, all, of a user, of a user but one), set the timeout, drop expired | called by every request; swept by a task of `main.py` |
| Accounts and sign-in (`crud/auth.py`) | rows `users` and `vault`; wrapped key material | bootstrap, login, unlock, context, password change, user administration, service tokens | database transactions, session store |
| Transactions (`crud/engine.py`, `api/endpoints/deps.py`) | SQLite's write lock, snapshots, hooks of a transaction | begin, commit, roll back, run hooks | all of `crud/` |
| Settings (`crud/settings.py`) | one row; its timeout is copied into the session store | read, update | session store |
| Vault file (`storage.py`, `vault_admin.py`, `main.py`) | `vault.db`, its log, staged and kept copies, the lock file | start, stop, snapshot, restore, set-aside, migrations, settings reset | SQLite, the operating system |
| Entries, folders, groups, sharing (`crud/access.py`, `folder.py`, `password.py`, `attachment.py`) | entries with owners, grants with expiry, folders, members, audit | create, update, trash, share, relinquish, move, import | accounts, backups |
| Backups (`crud/backup.py`, `backup_format.py`, `damage.py`) | none of their own | export, import by merge, legacy import, removal of damaged rows | entries, accounts |
| MCP server (`mcp_server.py`), CLI (`cli.py`) | none | authenticated calls | accounts, entries |
| Desktop core (`desktop/core`) | frames in flight, native file handles | read, dispatch, cancel, drain | supervisor over pipes |
| Desktop shell (`desktop/src-tauri`) | generation of the core, pending requests, lock deadline, clipboard, downloads | request, cancel, supervise, lock, copy, update | core, web view |
| Web client (`frontend/src`) | session token, timers, drafts | sign in, auto-logout, task routes | HTTP or the desktop shell |

What makes it hard: Argon2id takes long, so every operation that derives a key
commits first and goes on in a second transaction with whatever the world has
become; sessions live in memory and the accounts in SQLite, and hooks after the
commit or the rollback keep them together; `/unlock` runs on a read snapshot;
clocks stop in sleep and are set back; the offline tools move files that belong
together, and may be killed between any two of them. In the desktop application
there is a second process whose death, restart and late answers the shell must
sort out. `PROJECT.json` lists these hazards one by one, at their lines.

What makes each part correct: a session never outlives its limits and is never
revived; every commit is made for an account that may still make it; all
accounts wrap one vault key and an administrator remains; the timeout in force
never one that was not committed; no acknowledged transaction is lost, and no log
meets the file of another vault; access to an entry grows only by its owner's or
an administrator's doing, and all views of it agree; active names are unique, a
vault always fits its backup, and neither an import nor an export loses anything;
the desktop shell sends requests to a core that is ready, a lock ends the keys,
and what was cancelled stops.

## 2. The modules

| Module | Models | Kind |
|---|---|---|
| `SessionStore` | what a store of sessions promises | abstract specification |
| `VaultSessions` | `vault_sessions.py` and the sweeper | component; implements `SessionStore` |
| `VaultSessionsProofs` | theorems about `VaultSessions` | proofs |
| `Accounts` | `crud/auth.py` under `crud/engine.py`, with sessions | composition; its sessions implement `SessionStore` |
| `AccountsProofs` | theorems about `Accounts` | proofs |
| `IdleSetting` | the timeout in the database and in memory | composition |
| `IdleSettingProofs` | theorems about `IdleSetting` | proofs |
| `VaultFile` | `storage.py`: the files and the processes that use them | component |
| `VaultFileProofs` | theorems about `VaultFile` | proofs |
| `EntryAccess` | `crud/access.py`, `folder.py`, `password.py`, the imports of `backup.py` and their routes: who may do what | component |
| `EntryAccessProofs` | theorems about `EntryAccess` | proofs |
| `VaultContents` | `crud/password.py`, `backup.py`, `attachment.py`, `damage.py`: names, imports, backups | component |
| `VaultContentsProofs` | theorems about `VaultContents` | proofs |
| `DesktopCore` | `sidecar.rs`, `lock.rs`, `commands.rs` and `desktop_core/server.py` over two pipes | composition |
| `DesktopCoreProofs` | theorems about `DesktopCore` | proofs |
| `MC*` | instances for TLC | model checking |

Operators named in a comment `Mutant: ...` are not part of a specification: each
is a plausible mistake in the operator that follows it, and shows that a property
notices it.

### VaultSessions

`sessions` is the `OrderedDict`; an entry's place is the set of tokens `ahead`
of it, so that moving to the end and deleting are set operations. `clock` holds
both clocks; `Tick`, `Sleep` and `SetWallBack` are what they can do. Every method
runs on one event loop without suspension and reads the clock once: one method,
one action. `info`, `user_id` and `credential_fingerprint` do what
`resolve(refresh=False)` does. The `popitem` loop of `open` removes at most one
session, because `SessionsBounded` holds.

### Accounts

A request is a record with a phase: `resolved` (the session was looked up in
memory), `kdf` (deriving, lock free), `staged` (everything written, lock held),
`committed` and `rolled_back` (hooks not yet run). A write transaction takes the
lock with its first statement (`BEGIN IMMEDIATE`), so its reads and writes are
one step on `staged` and the commit is another. Material is a pair of a fresh
number (its salt) and the key it wraps; whether a typed password fits is a free
choice (`Refuse`). `Commit` is one step: that a request is cancelled inside
`session.commit()`, when SQLite has committed and only the rollback hooks run
(`engine.py:194-208`), is not a case of the model. `/unlock` runs on a snapshot: `UnlockSnapshot` reads,
`UnlockOpen` opens the session later. Sessions have no clock here; `SessionEnds`
may end any of them, which covers every reason `VaultSessions` has. The folder
links a sign-in makes (`migrate_folder_links`) are in `EntryAccess`.

### IdleSetting

The row, the number in memory and the requests that touch either: an update sets
the number in its hook, everything that opens a session reads the row and sets it
at once, a login under the lock and an unlock on a snapshot.

### VaultFile

A file is a pair of the vault it belongs to and the number of transactions it
holds; a log likewise. A restored copy is a vault of its own. One action is one
system call or one SQLite call; `Fail` (an error, with the handlers the code has)
and `Kill` may come between any two. SQLite is external: a commit goes to the
log, a checkpoint folds it, closing the last connection folds and deletes it. The
rollback snapshot of a migration is one step (`RollbackCopy`), although the file is
written under its final name: a kill in the middle of that copy is not a case.
Initially the folder is empty, or holds a vault of an older release with
transactions in its log, or a log whose file somebody moved off.

### EntryAccess

Every request is one write transaction, hence one action; the difficulty is the
sequence. An entry is its owner, its folder link, the folder name its sealed
document repeats, and whether it is in the trash. `grant` holds the rows of the
four grant tables (entry to person, folder to person, folder to group, membership)
by primary key, `trail` what the newest audit event says of each, and the ghost
`unaudited` names the rows that were written without one. `permission`,
`visible_ids`, `sources` and `user_access` are four queries of the code. The list,
`visible_ids`, is written out by itself; the other three share `FolderRows` and
`_strongest`, since their SQL selects the same rows and differs in what it makes of
them (expiry tested in the query or afterwards, the owner apart), which is what
`ViewsAgree` compares. An import is its rows, one after another in one transaction:
`import_row` adds an entry, files it under the folder its document names, may move
an entry of the importer to the trash, and, for a migration archive, adds the shares
the archive tells of, without an audit event (`SharedSilently`, as for a service's
grant on what it creates). A folder in a backup that no entry is in is
`create_folder`'s. The routes of
people and the tools of the MCP server call the same operations under different
guards. A vault starts new, or upgraded with its folder links still to be made.
Contents, favourites and entry names are left out here; a name that is taken only
refuses.

### VaultContents

The rows themselves: names (what was typed and the numbers appended to it, so that
making `a (2)` unique is what the code does; that a name near the length limit is
cut first is left out), the trash with its instants, attachments as a number, rows
that no longer decrypt. An import takes the rows of a file one by one: `Progress` is
what there is after each of them, a recursive function like the loops of the code;
one refused row undoes all of it. A backup or a restore is three steps: start, derivation without a lock,
then one snapshot or one write transaction; everything else may happen in between,
including the end of the session. A backup that was made is a file that can be
restored later, and there are foreign files: CSV, a backup of another vault, 2.0
archives. `Commit` contains `_enforce_backup_capacity`, as every commit of the code
does. `ImportsDestroyNothing` speaks of the imports that are jobs (restore, zip,
migration); a CSV file goes through the same `StoreRow` and `_upsert_entry`.

### DesktopCore

The supervisor thread handles one message of its queue at a time; writer and reader
threads, the tasks of the requests and the core's event loop interleave with it.
A request takes the running generation with it; the `PendingMap` of an older
generation is closed. Both pipes are queues and outlive the process that wrote
them. Whether a core is of this version is a choice at its start (the ghost
`sup.own`); the core reports it, and the supervisor believes the report. `keys` is
the request whose unlocking put keys into the core's memory. An answer tells of a
session or not, whatever the request did: `_session_info` (`server.py:286`) goes by
the token of the request and the two `master_password` routes, and a sign-in through
`auth/login` or `auth/bootstrap` is neither. `policy` is the lock policy: its epoch
and the request whose answer set the deadline. A lock resets it before the supervisor
hears of the lock (`BeginLock`, `lock`), and so does every status that is not "ready"
(`on_status`: starting, restarting, failed, stopped). A
shutdown is a request to the core, a grace in which it may drain while the
supervisor does nothing else, and its end (`Shutdown`, `GraceEnds`). Time is left
out: a timeout, a lock or a crash may come at any moment, as often as
`MaxFaults` says.

## 3. The runs

| Run | Question | Result |
|---|---|---|
| `sessions` | limits, order and eviction; implements `SessionStore`; ended keys are dropped (liveness) | holds |
| `accounts` | sign-in, password change, creating, changing and resetting accounts, two requests at once, from an empty or an old vault; its sessions implement `SessionStore` | holds |
| `two_admins` | two administrators against each other; an administrator against a service at work; deletion, rotation, revocation | holds |
| `unlock_race` | are all affected sessions gone once a revocation is through? | **violated** |
| `idle_setting` | the enforced timeout is one that was committed | holds |
| `vault_file` | all operations, killed or failing anywhere: nothing is lost, no foreign log, a set-aside can be resumed, rollback snapshots are there, an interrupted restore leaves a complete vault | holds |
| `two_restores` | does a staged copy stay until its restore renames it? | **violated** |
| `entry_access` | no dangling rows, names and links agree, four views agree, the audit tells the grants, access is granted only by whom it should | holds |
| `folder_link` | does an entry in a folder belong to the folder's owner? | **violated** |
| `vault_contents` | unique names, a vault fits its backup, restoring twice adds nothing, imports destroy nothing, exports leave nothing out | holds |
| `stale_tool_id` | does a tool change the entry whose id it was given? | **violated** |
| `desktop_core` | generations, one answer each, discarded and revoked requests, deadlines, locks; nothing goes on or is stuck for ever (liveness) | holds |

Several invariants are conjunctions of named parts, the type invariant among them:
`TablesAreSound`, `FilesAreSound`, `TimeoutIsSound`, `SupervisorIsSound`,
`HandledOnce`, `KeysAreWatched` and `AdministrationIsSafe`; each part has a mutant of
its own.

The four disagreements between the documents and the code:

- `unlock_race`: an unlock that read the account before a password reset opens
  its session after the reset's hook ran, so the session stays in memory
  (`docs/VAULT_FORMAT.md:71` says affected sessions are removed). It is useless:
  `context()` refuses it and ends it, which is why `StaleSessionsAreDoomed`
  excepts sessions opened on a snapshot and `CommitsAreAuthorized` holds.
- `two_restores`: a restore refused by the lock removes the other one's staged
  copy, because the `except` clauses are outside the lock (`storage.py:731`,
  `:902`).
- `folder_link`: an update that names a folder looks the name up among the
  caller's folders, not among those of the entry's owner; whoever may write an
  entry that is in no folder files it into a folder of their own, or, as a
  service, of its person. `access.py` says the alignment of owners is kept.
  `EntriesFollowUnlessStrayed` is the same statement for all other entries.
- `stale_tool_id`: the MCP tools resolve the id to a name and then act on the
  name. The id of a trashed entry changes the active entry of the same name.

Other places where a document says more than the code does; each is part of a
model, and the property next to it is stated around it:

- an unlock's snapshot, or two hooks in the other order, put back the timeout
  that a settings change has just replaced (`SECURITY.md:32`);
  `TimeoutIsSound` only says that it was committed once;
- `_retire` ignores a failed checkpoint and moves the log away; a restore that
  ends there leaves `vault.db` without the transactions of its log
  (`docs/UPDATING.md:106`). They are in the kept folder, so `NothingIsLost` holds
  and `InterruptedRestoreIsComplete` excepts that case;
- the entries of a backup are chosen before the derivation, so one whose grant
  is revoked meanwhile is still exported (`docs/VAULT_FORMAT.md:143`);
- a trashed row is recognised on import only among the importer's own rows
  (`docs/VAULT_FORMAT.md:194`);
- the shares a migration archive brings along are written without audit events
  (`backup.py:1101-1110`), and so is the grant a service keeps on an entry it
  creates outside folders; `docs/VAULT_FORMAT.md:95` says that the audit has the
  grants. `TrailTellsTheGrants` is what holds: only never-expiring direct shares of
  entries lack an event, the two kinds named and those older than the audit
  (`unaudited`), and every other row and its newest event agree;
- the login page signs in through `/auth/login` or `/auth/bootstrap`
  (`LoginPage.jsx:67`, `:92`), for which the core's answer tells of no session
  (`server.py:304`), so the native watchdog has no deadline until a later request
  with a token is answered; `desktop/README.md:52` says it enforces the core's
  expiry even when JavaScript cannot run. `KeysAreWatched` is what holds: once the
  present core told of a session, its keys have a deadline of this core and epoch or
  a lock is on its way, and no deadline outlives its core or a lock;
- a READY that arrives when the writer is gone makes the supervisor panic
  (`sidecar.rs:354`); this can only be on the way out;
- a cancellation that comes after a request is registered and before its frame is
  queued finds nothing to cancel (`sidecar.rs:190`); the request then ends by its
  own timeout.

### Bounds, and why they are enough

- `sessions`: three tokens for two places (an eviction and another one behind it),
  two accounts, two timeouts, and a clock that reaches and passes both limits. The
  desktop's single place is covered by the proofs, which hold for every limit.
- `accounts`: two requests; three materials (the old one, a change, a reset), two
  accounts and two sessions. Every race in this code is between one request that
  waits and one that overtakes it. `two_admins` starts from a later state, so that
  sessions and materials are spent on the race.
- `idle_setting`: three requests: two that change, one that reads in between.
- `vault_file`: two processes, two vaults (the old one and the restored one), two
  transactions each, two kept folders.
- `entry_access`: two people, a service and a group; one entry, since no operation
  on entries relates two of them except through their folder; two folders, so that
  an entry moves and names collide; two grants at a time, so that two sources of
  access combine and one expires at the only tick. With one id an import adds
  an entry and never replaces one; that it may is covered by the proofs, and was
  also checked with two people, two entries, two folders and two grants, without
  groups, services and expiry.
- `vault_contents`: two requests on one or two initial entries, of which one may be
  an import that is overtaken by the other; files of three rows with repeated
  names; eight frames and two attachments per entry, so that both limits are hit.
  `stale_tool_id` needs a third request.
- `desktop_core`: two requests, of which one unlocks, for queues of one frame and
  one task; two generations; one fault at a time. With a single request it was also
  checked with two faults.

Users, tokens, requests and processes are interchangeable where the properties do
not name them, and symmetry is used there; not in a run with a liveness property.
Deadlock is not checked in `entry_access`, `vault_contents` and `desktop_core`:
their bounds on ids, requests and faults end a behaviour.

### Fairness

`sessions` assumes fairness of `DropExpired` only: the task
`_drop_expired_sessions` (`main.py:59`) runs as long as the process serves. Time
is not assumed to advance: a session that has not ended may stay for ever.
`desktop_core` assumes that threads run (supervisor, writer, reader, the core's
loop), that the timer of a start goes off, that a caller whose time is up gives up,
and that a cancelled task ends. It assumes neither that a request is ever
finished nor that a core ever becomes ready.

## 4. The proofs

Seven modules hold theorems; each EXTENDS the component's module and proves about
its `Spec`, for every value of the constants that the component's named
assumption admits. Each has the same shape: an inductive invariant `IInv`,
`InitIInv`, one lemma per action that it keeps `IInv`, `NextIInv`, and then the
theorems. `IInv` contains what the listed properties say and what it takes to keep
them; TLC evaluated each `IInv` on the component's instance before it was proved.
The bounds of the models (`MaxCommits`, `MaxClock`, `MaxFaults`, ...) are
constants like the others: the theorems hold whatever they are.

### VaultSessionsProofs

| Theorem | Property |
|---|---|
| `TypeCorrect` | `TypeOK` |
| `Bounded` | `SessionsBounded` |
| `EvictionOrder` | `LeastRecentlyUsedFirst` |
| `NoRevival` | `EndedForGood`, of every step |
| `Eviction` | `EvictsOnlyWhenFull`, of every step |
| `Refinement` | `ImplementsStore`: `VaultSessions` implements `SessionStore` |

`SessionsAssumption`: the limits are natural numbers and there is room for one
session. `IInv` joins five parts because each needs the others. That eviction
makes room (`SessionsBounded`) needs a victim, an entry with nothing ahead; that
there is exactly one needs `StrictOrder`, a finite strict total order; that
deleting from the middle keeps it needs `TypeOK` (nothing ahead that is not
there); that the order is recency (`OrderIsRecency`) needs `UsedInThePast`, since
a session that moves to the end gets the present instant of a clock that never
runs backwards. `NoRevival` uses that the larger of the two elapsed times is at
least the monotonic one, so every check of the code is at least as strict as
`Ended`. `Eviction` adds that `open` purges first, so that what it then evicts
is evicted from a store full of usable sessions.

### AccountsProofs

| Theorem | Property |
|---|---|
| `VaultAlwaysMatches` | `VaultMatchesOwner` |
| `AlwaysOneVaultKey` | `OneVaultKey` |
| `AlwaysAnAdministrator` | `SomeAdministrator` |
| `CommitsAuthorized` | `CommitsAreAuthorized` |
| `NeverAnOrphan` | `NoOrphanSessions` |
| `StaleAreDoomed` | `StaleSessionsAreDoomed` |
| `AdministrationSafe` | `AdministrationIsSafe` |
| `SessionsRefineStore` | `SessionsAreAStore`: the sessions implement `SessionStore` |

`AccountsAssumption`: there may be an account, a derivation and a session, and a
request is not the number that stands for none. What holds of the database is
inductive only together with the same about `staged`, since a commit replaces
the one by the other (`Sound(db)`, `Sound(staged)`), and with `LockIsHeld`, since
nobody else writes in between. `Succeeds(db, staged)`, that ids are not given out
twice and nobody becomes a service account, carries what a request learned before
its derivation across the commits of the others (`RowOK`). Sessions: a commit that
would make sessions stale has the hook that revokes them (`StagedSpares`), and a
session opened before the commit fits the account as it will be committed
(`StagedSessionsFit`). `Doomed` is stronger than `StaleSessionsAreDoomed` by the
reason: the request of a stale session rolls back, or makes it fit, or a committed
hook is about to drop it. `FreshTokens` is why a new session replaces none.

### IdleSettingProofs

`TimeoutSound` states `TimeoutIsSound` from `IdleAssumption`: the default is one of
the timeouts, all of them positive. What a request carries in its hand is the
crux (`PromisesAreKept`): the value an update's hook enforces was committed before
the hook runs, and a snapshot holds a committed value however long ago it was
taken.

### VaultFileProofs

| Theorem | Property |
|---|---|
| `AlwaysSound` | `FilesAreSound` |
| `NeverLost` | `NothingIsLost` |
| `AlwaysResumes` | `SetAsideCanResume` |
| `AlwaysUndone` | `RollbackIsThere` |
| `AlwaysComplete` | `InterruptedRestoreIsComplete` |

`VaultFileAssumption`: a vault may hold two transactions, as the vault of an older
release in `Init` does, and the operations are among the six of the code. The
argument: the lock has one holder (`LockIsHeld`), so what a process knows about the
files at its step (`ProcsFit`: the folder has a copy of what the restore is about
to replace, the log is gone before the file is replaced, the snapshot of a rewrite
was taken) stays true until its next step, or until it is killed, when nobody needs
it. `FilesFit` and `FoldersFit` keep files and logs of one vault together and put
nothing in two places. `NothingIsLost` follows from two cases: a vault somebody
moved off still finds its log (`AwaySafe`), and every other one can be read in one
place (`RestSafe`), namely the data folder, the folder of an unfinished set-aside,
also with its log not yet moved, or a kept folder. `Fresh` is why a restored copy
takes no old vault's place.

### EntryAccessProofs

| Theorem | Property |
|---|---|
| `AlwaysSound` | `TablesAreSound` |
| `DocumentsAgree` | `DocumentNamesItsFolder` |
| `EntriesFollow` | `EntriesFollowUnlessStrayed` |
| `TrailTells` | `TrailTellsTheGrants` |
| `ViewsAlwaysAgree` | `ViewsAgree` |
| `AccessAlwaysGranted` | `AccessIsGranted`, of every step |

`EntryAccessAssumption`: services belong to people, and there may be one entry.
`IInv` has three parts, about the grant tables, about entries and folders, and
about the rest. Beyond the properties it says that ids are given out in order
(`FreshIds`, why a new row takes no old one's place), that the person a service belongs
to is not deleted before it (`OwnersStay`, why the entry a service creates has an
owner), and that what is shared is reading or writing (`GrantsFit`). An import needs
that an entry is new where its shares go: no row of its id can be there, so writing
shares without an event contradicts no event (`SilentStep`). That the
four queries agree is then a matter of the tables alone; that access grows only by
a step of an owner or an administrator compares the tables before and after, and
leaves out the filing of an entry that is in no folder, for which the code asks for
write access only.

### VaultContentsProofs

| Theorem | Property |
|---|---|
| `TablesTheorem` | `TablesAreSound` |
| `ExportFitsTheorem` | `ExportAlwaysFits` |
| `RestoreTwiceTheorem` | `RestoreTwiceAddsNothing` |
| `CsvTheorem` | `CsvRowsDoNotCollapse` |
| `ImportsTheorem` | `ImportsDestroyNothing`, of every step |
| `RestoreTheorem` | `RestoreBringsBackTheFile`, of every step |
| `ExportTheorem` | `ExportLeavesNothingOut`, of every step |

`VaultContentsAssumption`: the files are sequences of rows of their kind, somebody
can type a name, and `Init`, with up to two entries, is within the bounds (two ids,
three frames). Nothing is assumed about the length of a file, the names in it, or
their number.

Files of any length need an induction over their rows. It is done with sets instead
of predicates: a set of numbers that is not empty has a least one (`Least`, from the
well-foundedness of `<`), hence a set that holds 0 and the next of each of its numbers
holds them all (`Induct`). `ProgressExists` shows by `Induct` that the recursive
function is defined, so that `ProgressIs` may unfold it; `SumExists` does the same for
the frames of a backup.

What is carried from row to row stays `Right`: the database is `Sound`, and the
names in `taken` are finitely many, so that `_unique_name` finds a free one (a
pigeonhole, `UniqueIsFree`), and include every active one, so that what it finds is
free in the vault. Each kind of row does one of four things (`TargetCases`,
`UpsertCases`): nothing, be refused, add an entry, or add one in the place of an entry
that goes to the trash. Each keeps `Right` and destroys nothing (`Keeps`), and `Keeps` is
transitive because only an active entry is ever moved. `IInv` is then `Sound` and
`Dated` of the vault, the frames within the limit, and what the job under way has at
hand; `Dated` is restored by `Ticked` after an import brought later instants in.

The four deeper theorems have an invariant of the loop each. Restoring twice: a row is
`Settled` once it was taken, and rows that are added later leave it so, also one of
the same name and instant, which becomes the greatest of its twins and is the
importer's; so the second restore meets only rows that are settled. What a restore
brings back (`Back`): the active names so far are in `seen`, so that the entry a later
row puts in the trash is none of those found or made before. CSV rows (`Tally`): a name
not used yet stands for what it stood for at the beginning, so a row is skipped at most once per
name the importer had, and exactly those are missing in the count. An export
(`InOrderIs`): the ranks of a set of ids are different and as many as there are ids, so
every entry has its place.

### DesktopCoreProofs

| Theorem | Property |
|---|---|
| `AlwaysSound` | `SupervisorIsSound` |
| `AlwaysOnce` | `HandledOnce` |
| `AlwaysWatched` | `KeysAreWatched` |
| `LocksEndTheKeys` | `LockEndsTheKeys`, of every step |

`DesktopCoreAssumption`: request ids are positive and the limits are natural
numbers. `IInv` says what each queue may hold given the state at its other end.
`SupPart` relates the supervisor's picture, its child and the messages under way: a
child reports ready once, before its end, and nothing is left of one that was
reaped. `FramesPart` says where the frame of a request can be: queued once, and
as long as it is, neither written nor taken; a live core only has requests sent to its generation.
`TaskPart` ties the core's tasks to the requests it took, so that each is answered
once. `PolicyPart` is the crux for the keys: an epoch does not outlive its core, so
the deadline is the present core's, and a request of an earlier epoch that may still
reach a live core will meet a lock that is on its way (`LockComing`).

### Only model-checked

- Liveness (`EndedKeysAreDropped`, `RevokedRequestsStop`, `NeverStuck`): fairness is
  out of the prover's reach.
- The four runs that expect a violation show a counterexample each.

## 5. Not modelled

- SQLite, Argon2id, AES-GCM and the operating system are external, modelled by how
  the code uses them. In `VaultFile`, damaged files and the order in which directory
  entries reach the disk after a power cut are left out: a kill happens between
  system calls.
- The command line client (`cli.py`) is a sequential HTTP client without state of
  its own. HTTP middleware, headers and rate limits belong to a library or carry no
  state a property is about.
- The clipboard, native file dialogs and updates of the desktop shell each wrap a
  service of the operating system. Malformed frames end the core's loop like a
  crash and are not a case of their own.
- The web client: what its timers announce the server and the shell enforce.
- Favourites and the history of a password change neither access nor names; the
  other settings only reach the clients. Folders do not count in
  `_enforce_backup_capacity`, nor in the model's.

## 6. State of the work

All parts with core logic have a module, and every safety property a passing run
checks, invariants, action properties and the two refinements, is proved for every
instance. What could follow: a model of the updates and downloads of the desktop
shell, and the two races of section 3 on the way out of the supervisor, which no
property covers.

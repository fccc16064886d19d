----------------------------- MODULE EntryAccess -----------------------------
(***************************************************************************)
(* Who may do what with an entry: owners, direct shares, folders, folder   *)
(* grants to people and to groups, expiry, the audit trail, and the link   *)
(* between an entry and its folder (backend/crud/access.py, folder.py and  *)
(* password.py; the routes under backend/api/endpoints; mcp_server.py).    *)
(*                                                                         *)
(* Every request is one write transaction, which SQLite serializes, so     *)
(* every operation is one step.  What is hard is the sequence: shares,     *)
(* moves, renames, memberships and expiry combine, and an operation of one *)
(* person changes what another one may do next.                            *)
(*                                                                         *)
(* An entry is its owner, its folder link, the folder name its sealed      *)
(* document repeats, and whether it is in the trash.  Names of entries     *)
(* and their contents are left to VaultContents: a name that is taken only *)
(* refuses an operation, and every operation here may be refused.          *)
(***************************************************************************)
EXTENDS Integers, FiniteSets

CONSTANTS
  User, Group,
  Name,        \* names of folders
  GroupName,   \* names of groups
  Admin,       \* accounts with the administrator role
  Service,     \* service accounts, which only reach the MCP tools
  ServiceOwner, \* the person each service account belongs to
  MaxEntries,  \* bound: entry ids ever given out (AUTOINCREMENT)
  MaxFolders,  \* bound: folder ids ever given out (AUTOINCREMENT)
  MaxTime,     \* bound: the last instant of the clock
  MaxGrants,   \* bound: rows of the four grant tables at a time
  Managed,     \* bound: accounts that may be disabled, enabled or deleted
  Offered      \* the permission and expiry a sharing dialog may send

Never == 0  \* expires_at IS NULL
Permission == {"read", "write"}

ASSUME EntryAccessAssumption ==
  /\ Admin \subseteq User /\ Service \subseteq User
  /\ Admin \intersect Service = {}
  /\ ServiceOwner \in [Service -> User \ Service]
  /\ MaxEntries \in Nat \ {0} /\ MaxFolders \in Nat /\ MaxTime \in Nat
  /\ MaxGrants \in Nat
  /\ Offered \subseteq [permission : Permission, expires : Never..MaxTime]
  /\ Managed \subseteq User
  /\ Group \intersect User = {}
  /\ "none" \notin User \union Group \union Name \union GroupName

VARIABLES
  now,      \* utc_now()
  account,  \* the accounts: "active", "disabled" or "gone"
  entry,    \* rows of entries
  entries,  \* entry ids given out so far
  folder,   \* rows of folders
  folders,  \* folder ids given out so far
  group,    \* rows of groups: the group's name, or "none"
  grant,    \* rows of the four grant tables, by primary key
  trail,    \* for each row, what its newest audit event says
  ready,    \* vault.folder_links_ready
  unaudited, \* ghost: rows the code wrote without an audit event
  strayed   \* ghost: entries filed by name into another owner's folder

vars == <<now, account, entry, entries, folder, folders, group, grant,
          trail, ready, unaudited, strayed>>

Entry == 1..MaxEntries
Folder == 1..MaxFolders
NoFolder == 0

EntryModel == [owner : User, folder : 0..MaxFolders,
               text : Name \union {"none"}, trashed : BOOLEAN]
NoEntry == [owner |-> "none", folder |-> NoFolder, text |-> "none",
            trashed |-> FALSE]
FolderModel == [owner : User, name : Name]
NoFolderRow == [owner |-> "none", name |-> "none"]

\* The primary keys of entry_access, folder_user_access, folder_group_access
\* and group_members.
EntryAccessModel == {"entry"} \X Entry \X User
FolderUserAccessModel == {"folder_user"} \X Folder \X User
FolderGroupAccessModel == {"folder_group"} \X Folder \X Group
GroupMemberModel == {"group"} \X Group \X User
Row == EntryAccessModel \union FolderUserAccessModel
         \union FolderGroupAccessModel \union GroupMemberModel

Grant == [permission : Permission \union {"member"}, expires : Never..MaxTime]
Membership == [permission |-> "member", expires |-> Never]

IsEntry(e) == entry[e] # NoEntry
IsFolder(f) == f \in Folder /\ folder[f] # NoFolderRow
Has(row) == row \in DOMAIN grant

-----------------------------------------------------------------------------
(***************************************************************************)
(* The questions the code asks about access.                               *)
(***************************************************************************)
grant_active(g) == g.expires = Never \/ g.expires > now

\* AuthContext.owner_id: a service acts for the person it belongs to.
OwnerId(u) == IF u \in Service THEN ServiceOwner[u] ELSE u

\* Mutant: a group's grant counts for everyone.
AnyGroup(f, u) == {<<"folder_group", f, g>> : g \in Group}

\* The folder grants that reach u, directly or through a group.
FolderRows(f, u) ==
  {<<"folder_user", f, u>>} \union
  {<<"folder_group", f, g>> : g \in {h \in Group : Has(<<"group", h, u>>)}}

_strongest(permissions) ==
  IF "write" \in permissions THEN "write"
  ELSE IF "read" \in permissions THEN "read" ELSE "none"

Live(row) == Has(row) /\ grant_active(grant[row])
Active(rows) == {grant[r].permission : r \in {s \in rows : Live(s)}}

\* FolderCRUD.permission_for()
permission_for(f, u) ==
  IF folder[f].owner = u THEN "owner" ELSE _strongest(Active(FolderRows(f, u)))

\* EntryACL.permission(); "none" where the code raises NotFound.
permission(e, u) ==
  LET f == entry[e].folder
  IN  CASE ~IsEntry(e) -> "none"
        [] entry[e].owner = u \/ (f # NoFolder /\ folder[f].owner = u) -> "owner"
        [] OTHER -> _strongest(Active({<<"entry", e, u>>} \union
                      IF f = NoFolder THEN {} ELSE FolderRows(f, u)))

require(e, u, needed) ==
  permission(e, u) \in
    CASE needed = "owner" -> {"owner"}
      [] needed = "write" -> {"owner", "write"}
      [] OTHER -> {"owner", "write", "read"}

\* EntryACL.visible_ids(): the list the vault page, the backup and the damage
\* report start from is a query of its own.
visible_ids(u) ==
  {e \in Entry :
     /\ IsEntry(e)
     /\ \/ entry[e].owner = u
        \/ Live(<<"entry", e, u>>)
        \/ /\ entry[e].folder # NoFolder
           /\ \/ folder[entry[e].folder].owner = u
              \/ Live(<<"folder_user", entry[e].folder, u>>)
              \/ \E g \in Group :
                   /\ Live(<<"folder_group", entry[e].folder, g>>)
                   /\ Has(<<"group", g, u>>)}

\* One line of the access dialog: where an access comes from.
Source(kind, g) ==
  [source |-> kind, permission |-> g.permission, expired |-> ~grant_active(g)]
OwnerSource(kind) ==
  [source |-> kind, permission |-> "write", expired |-> FALSE]
RowSources(kind, rows) ==
  {Source(kind, grant[r]) : r \in {s \in rows : Has(s)}}

\* EntryACL.sources()
sources(e, u) ==
  IF entry[e].owner = u THEN {OwnerSource("owner")}
  ELSE RowSources("entry", {<<"entry", e, u>>}) \union
       IF entry[e].folder = NoFolder THEN {}
       ELSE RowSources("folder", FolderRows(entry[e].folder, u)) \union
            IF folder[entry[e].folder].owner = u
            THEN {OwnerSource("folder_owner")} ELSE {}

\* FolderCRUD.user_access(): what an administrator is shown as the effective
\* permission of a person in a folder.
user_access(f, v) ==
  IF folder[f].owner = v THEN "write"
  ELSE _strongest({s.permission : s \in
         {t \in RowSources("folder", FolderRows(f, v)) : ~t.expired}})

\* EntryACL.access_map(): the entries listed, each with its access and sources.
access_map(u) ==
  {[entry |-> e, access |-> permission(e, u), sources |-> sources(e, u)] :
     e \in visible_ids(u)}

_require_manage(f, u) == IsFolder(f) /\ (folder[f].owner = u \/ u \in Admin)

-----------------------------------------------------------------------------
(***************************************************************************)
(* Writing.  A grant table row and its audit event are written together;   *)
(* deleting a row of another table takes the rows that refer to it along,  *)
(* and their audit events no longer name an existing resource.             *)
(***************************************************************************)
With(rows, row, g) ==
  [r \in DOMAIN rows \union {row} |-> IF r = row THEN g ELSE rows[r]]
Without(rows, gone) == [r \in DOMAIN rows \ gone |-> rows[r]]

Audited(row, g) ==
  /\ Cardinality(DOMAIN grant \union {row}) <= MaxGrants
  /\ grant' = With(grant, row, g)
  /\ trail' = With(trail, row, g)
  /\ unaudited' = unaudited \ {row}

\* Shares of a new entry e that no audit event tells of: for each account in
\* the domain of shares, the permission it is given.
SharedSilently(e, shares) ==
  LET rows == {<<"entry", e, v>> : v \in DOMAIN shares}
  IN  /\ Cardinality(DOMAIN grant \union rows) <= MaxGrants
      /\ grant' = [r \in DOMAIN grant \union rows |->
                     IF r \in rows
                     THEN [permission |-> shares[r[3]], expires |-> Never]
                     ELSE grant[r]]
      /\ unaudited' = unaudited \union rows
      /\ UNCHANGED trail

\* The row goes.  With an event (a revocation, a removed member) or with the
\* resource the events are about (ON DELETE CASCADE), its trail ends.
Ended(rows) ==
  /\ grant' = Without(grant, rows)
  /\ trail' = Without(trail, rows)
  /\ unaudited' = unaudited \ rows

Grants == <<grant, trail, unaudited>>
Records == <<entry, entries, folder, folders, strayed>>

\* PasswordCRUD._folder_named(): the folder an owner has under a name, made
\* when there is none.  r is the folder and what the table holds afterwards.
_folder_named(owner, name) ==
  LET mine == {f \in Folder : folder[f] = [owner |-> owner, name |-> name]}
  IN  IF mine # {}
      THEN {[folder |-> f, rows |-> folder, made |-> folders] : f \in mine}
      ELSE {[folder |-> f, made |-> f, rows |->
               [folder EXCEPT ![f] = [owner |-> owner, name |-> name]]] :
              f \in {folders + 1} \intersect Folder}

\* Mutant: the folder is looked for among those of the account itself.
FolderOfActor(u, f, text) ==
  IF f # NoFolder \/ text = "none"
  THEN {[folder |-> f, rows |-> folder, made |-> folders]}
  ELSE _folder_named(u, text)

\* PasswordCRUD._folder_for(): a folder id wins and must agree with the text;
\* without one the text names a folder of the acting account's owner.
_folder_for(u, f, text) ==
  IF f # NoFolder
  THEN {[folder |-> f, rows |-> folder, made |-> folders] :
          g \in {h \in {f} : IsFolder(h) /\ text \in {"none", folder[h].name}}}
  ELSE IF text = "none"
  THEN {[folder |-> NoFolder, rows |-> folder, made |-> folders]}
  ELSE _folder_named(OwnerId(u), text)

\* Mutant: no folder is an empty name.
SealedBlank(r, text) == IF r.folder = NoFolder THEN "" ELSE r.rows[r.folder].name

\* What seal_entry() puts into the document: the name of the folder resolved.
SealedText(r, text) ==
  IF r.folder = NoFolder THEN text ELSE r.rows[r.folder].name

-----------------------------------------------------------------------------
(***************************************************************************)
(* EntryACL: sharing one entry.                                            *)
(***************************************************************************)
\* ShareUpdatePayload refuses an expiry that is not in the future.
MayOffer(g) == g \in Offered /\ (g.expires = Never \/ g.expires > now)

\* Mutant: anyone who may write the entry may share it on.
WritersShare(u, e, v, g) ==
  /\ require(e, u, "write") /\ MayOffer(g) /\ account[v] = "active"
  /\ v # entry[e].owner
  /\ Audited(<<"entry", e, v>>, g)
  /\ UNCHANGED <<now, account, Records, group, ready>>

set_share(u, e, v, g) ==
  /\ require(e, u, "owner")
  /\ MayOffer(g)
  /\ account[v] = "active"
  /\ v # entry[e].owner
  /\ Audited(<<"entry", e, v>>, g)
  /\ UNCHANGED <<now, account, Records, group, ready>>

revoke_share(u, e, v) ==
  /\ require(e, u, "owner")
  /\ Has(<<"entry", e, v>>)
  /\ Ended({<<"entry", e, v>>})
  /\ UNCHANGED <<now, account, Records, group, ready>>

\* Mutant: giving up an access leaves no audit event.
SilentRelinquish(u, e) ==
  /\ require(e, u, "read") /\ ~require(e, u, "owner")
  /\ Has(<<"entry", e, u>>)
  /\ grant' = Without(grant, {<<"entry", e, u>>})
  /\ UNCHANGED <<now, account, Records, group, ready, trail, unaudited>>

\* An expired grant cannot be given up, nor one that comes from a folder.
relinquish(u, e) ==
  /\ require(e, u, "read")
  /\ ~require(e, u, "owner")
  /\ Has(<<"entry", e, u>>)
  /\ Ended({<<"entry", e, u>>})
  /\ UNCHANGED <<now, account, Records, group, ready>>

(***************************************************************************)
(* AuthorizedPasswordCRUD: the entries themselves.                         *)
(***************************************************************************)
\* The entry belongs to the owner of the folder it is put into by id, and a
\* service keeps a grant on an entry outside folders.
create_password(u, f, text) ==
  /\ f # NoFolder => IsFolder(f) /\ permission_for(f, u) \in {"owner", "write"}
  /\ entries < MaxEntries
  /\ \E r \in _folder_for(u, f, text) :
       LET e == entries + 1
       IN  /\ folder' = r.rows /\ folders' = r.made
           /\ entry' = [entry EXCEPT ![e] =
                [owner |-> IF f # NoFolder THEN folder[f].owner ELSE OwnerId(u),
                 folder |-> r.folder, text |-> SealedText(r, text),
                 trashed |-> FALSE]]
           /\ entries' = e
           /\ IF u \in Service /\ r.folder = NoFolder
              THEN SharedSilently(e, [v \in {u} |-> "write"])
              ELSE UNCHANGED Grants
  /\ UNCHANGED <<now, account, group, ready, strayed>>

\* The folder an update asks for: the present one when only its name is sent.
AskedFolder(e, f, text) ==
  IF f = NoFolder /\ entry[e].folder # NoFolder /\ text = entry[e].text
  THEN entry[e].folder ELSE f

\* Mutant: the owner of the target folder is not compared with the entry's.
MoveIntoAnyFolder(u, e, f) ==
  /\ require(e, u, "owner")
  /\ f # NoFolder => IsFolder(f) /\ permission_for(f, u) \in {"owner", "write"}

\* What a change of the folder id needs.
MayMove(u, e, f) ==
  /\ require(e, u, "owner")
  /\ f # NoFolder =>
       /\ IsFolder(f)
       /\ permission_for(f, u) \in {"owner", "write"}
       /\ folder[f].owner = entry[e].owner

\* The folder id is checked only when it changes.  A name alone is resolved
\* afterwards, among the folders of the acting account's owner.
update_password(u, e, f, text) ==
  LET asked == AskedFolder(e, f, text)
  IN  /\ IsEntry(e) /\ ~entry[e].trashed
      /\ require(e, u, "write")
      /\ asked # entry[e].folder => MayMove(u, e, asked)
      /\ \E r \in _folder_for(u, asked, text) :
           /\ folder' = r.rows /\ folders' = r.made
           /\ entry' = [entry EXCEPT ![e].folder = r.folder,
                                     ![e].text = SealedText(r, text)]
           /\ strayed' = IF asked = NoFolder /\ r.folder # NoFolder
                            /\ OwnerId(u) # entry[e].owner
                         THEN strayed \union {e}
                         ELSE IF r.folder = entry[e].folder THEN strayed
                         ELSE strayed \ {e}
      /\ UNCHANGED <<now, account, entries, group, Grants, ready>>

delete_password(u, e) ==
  /\ IsEntry(e) /\ ~entry[e].trashed
  /\ require(e, u, "write")
  /\ entry' = [entry EXCEPT ![e].trashed = TRUE]
  /\ UNCHANGED <<now, account, entries, folder, folders, group, Grants, ready,
                 strayed>>

restore_password(u, e) ==
  /\ IsEntry(e) /\ entry[e].trashed
  /\ require(e, u, "write")
  /\ entry' = [entry EXCEPT ![e].trashed = FALSE]
  /\ UNCHANGED <<now, account, entries, folder, folders, group, Grants, ready,
                 strayed>>

purge_password(u, e) ==
  /\ IsEntry(e) /\ entry[e].trashed
  /\ require(e, u, "owner")
  /\ entry' = [entry EXCEPT ![e] = NoEntry]
  /\ Ended({r \in EntryAccessModel : r[2] = e})
  /\ strayed' = strayed \ {e}
  /\ UNCHANGED <<now, account, entries, folder, folders, group, ready>>

(***************************************************************************)
(* Imports: CSV and zip files, backups and migration archives.  A file is  *)
(* its rows, one after another in one transaction.  What a row does about  *)
(* a name that is taken is VaultContents'; here it is refused, or comes in *)
(* as a new entry that may replace one of the importer's (old, or 0).  A   *)
(* migration archive also says with whom the entry was shared.             *)
(***************************************************************************)
\* Mutant: an entry keeps the folder's name, and no link is made.
ImportUnfiled(u, old, text, trashed, shares) ==
  /\ entries < MaxEntries
  /\ old # 0 => /\ ~trashed /\ IsEntry(old) /\ ~entry[old].trashed
               /\ entry[old].owner = u
  /\ \A v \in DOMAIN shares : account[v] = "active"
  /\ entry' = [d \in Entry |->
       IF d = entries + 1
       THEN [owner |-> u, folder |-> NoFolder, text |-> text, trashed |-> trashed]
       ELSE IF d = old THEN [entry[d] EXCEPT !.trashed = TRUE] ELSE entry[d]]
  /\ entries' = entries + 1
  /\ SharedSilently(entries + 1, shares)
  /\ UNCHANGED <<now, account, folder, folders, group, ready, strayed>>

\* The entry replaced keeps its folder and its shares, in the trash.
import_row(u, old, text, trashed, shares) ==
  /\ entries < MaxEntries
  /\ old # 0 => /\ ~trashed /\ IsEntry(old) /\ ~entry[old].trashed
               /\ entry[old].owner = u
  /\ \A v \in DOMAIN shares : account[v] = "active"
  /\ \E r \in _folder_for(u, NoFolder, text) :
       /\ folder' = r.rows /\ folders' = r.made
       /\ entry' = [d \in Entry |->
            IF d = entries + 1
            THEN [owner |-> u, folder |-> r.folder, text |-> SealedText(r, text),
                  trashed |-> trashed]
            ELSE IF d = old THEN [entry[d] EXCEPT !.trashed = TRUE] ELSE entry[d]]
  /\ entries' = entries + 1
  /\ SharedSilently(entries + 1, shares)
  /\ UNCHANGED <<now, account, group, ready, strayed>>

-----------------------------------------------------------------------------
(***************************************************************************)
(* FolderCRUD and GroupCRUD.                                               *)
(***************************************************************************)
NameIsFree(owner, name) == [owner |-> owner, name |-> name] \notin
                             {folder[f] : f \in Folder}

create_folder(u, name) ==
  /\ folders < MaxFolders
  /\ NameIsFree(OwnerId(u), name)
  /\ folder' = [folder EXCEPT ![folders + 1] =
                  [owner |-> OwnerId(u), name |-> name]]
  /\ folders' = folders + 1
  /\ UNCHANGED <<now, account, entry, entries, group, Grants, ready, strayed>>

\* Mutant: trashed entries of the folder keep the old name.
RenameActiveOnly(u, f, name) ==
  /\ IsFolder(f) /\ folder[f].owner = u
  /\ folder[f].name # name => NameIsFree(u, name)
  /\ folder' = [folder EXCEPT ![f].name = name]
  /\ entry' = [e \in Entry |-> IF IsEntry(e) /\ entry[e].folder = f
                                   /\ ~entry[e].trashed
                                THEN [entry[e] EXCEPT !.text = name] ELSE entry[e]]
  /\ UNCHANGED <<now, account, entries, folders, group, Grants, ready, strayed>>

\* Mutant: the name is not compared with the owner's other folders.
RenameUnchecked(u, f, name) ==
  /\ IsFolder(f) /\ folder[f].owner = u
  /\ folder' = [folder EXCEPT ![f].name = name]
  /\ entry' = [e \in Entry |-> IF IsEntry(e) /\ entry[e].folder = f
                                THEN [entry[e] EXCEPT !.text = name] ELSE entry[e]]
  /\ UNCHANGED <<now, account, entries, folders, group, Grants, ready, strayed>>

\* Every document of the folder, in the trash too, is sealed again.
rename_folder(u, f, name) ==
  /\ IsFolder(f) /\ folder[f].owner = u
  /\ folder[f].name # name => NameIsFree(u, name)
  /\ folder' = [folder EXCEPT ![f].name = name]
  /\ entry' = [e \in Entry |-> IF IsEntry(e) /\ entry[e].folder = f
                                THEN [entry[e] EXCEPT !.text = name] ELSE entry[e]]
  /\ UNCHANGED <<now, account, entries, folders, group, Grants, ready, strayed>>

\* Mutant: only the entries outside the trash keep a folder.
RemoveIgnoringTrash(u, f) ==
  /\ IsFolder(f) /\ folder[f].owner = u
  /\ \A e \in Entry : entry[e].folder = f => entry[e].trashed
  /\ folder' = [folder EXCEPT ![f] = NoFolderRow]
  /\ Ended({r \in FolderUserAccessModel \union FolderGroupAccessModel : r[2] = f})
  /\ UNCHANGED <<now, account, entry, entries, folders, group, ready, strayed>>

remove_folder(u, f) ==
  /\ IsFolder(f) /\ folder[f].owner = u
  /\ \A e \in Entry : entry[e].folder # f
  /\ folder' = [folder EXCEPT ![f] = NoFolderRow]
  /\ Ended({r \in FolderUserAccessModel \union FolderGroupAccessModel : r[2] = f})
  /\ UNCHANGED <<now, account, entry, entries, folders, group, ready, strayed>>

set_user_grant(u, f, v, g) ==
  /\ _require_manage(f, u)
  /\ MayOffer(g)
  /\ account[v] = "active"
  /\ v # folder[f].owner
  /\ Audited(<<"folder_user", f, v>>, g)
  /\ UNCHANGED <<now, account, Records, group, ready>>

revoke_user_grant(u, f, v) ==
  /\ _require_manage(f, u)
  /\ Has(<<"folder_user", f, v>>)
  /\ Ended({<<"folder_user", f, v>>})
  /\ UNCHANGED <<now, account, Records, group, ready>>

set_group_grant(u, f, h, g) ==
  /\ _require_manage(f, u)
  /\ MayOffer(g)
  /\ group[h] # "none"
  /\ Audited(<<"folder_group", f, h>>, g)
  /\ UNCHANGED <<now, account, Records, group, ready>>

revoke_group_grant(u, f, h) ==
  /\ _require_manage(f, u)
  /\ Has(<<"folder_group", f, h>>)
  /\ Ended({<<"folder_group", f, h>>})
  /\ UNCHANGED <<now, account, Records, group, ready>>

create_group(u, h, name) ==
  /\ group[h] = "none"
  /\ \A k \in Group : group[k] # name
  /\ group' = [group EXCEPT ![h] = name]
  /\ UNCHANGED <<now, account, Records, Grants, ready>>

rename_group(u, h, name) ==
  /\ group[h] # "none"
  /\ \A k \in Group \ {h} : group[k] # name
  /\ group' = [group EXCEPT ![h] = name]
  /\ UNCHANGED <<now, account, Records, Grants, ready>>

\* Refused while a folder is shared with the group; its members go with it.
remove_group(u, h) ==
  /\ group[h] # "none"
  /\ \A f \in Folder : ~Has(<<"folder_group", f, h>>)
  /\ group' = [group EXCEPT ![h] = "none"]
  /\ Ended({r \in GroupMemberModel : r[2] = h})
  /\ UNCHANGED <<now, account, Records, ready>>

add_member(u, h, v) ==
  /\ group[h] # "none"
  /\ account[v] = "active"
  /\ ~Has(<<"group", h, v>>)
  /\ Audited(<<"group", h, v>>, Membership)
  /\ UNCHANGED <<now, account, Records, group, ready>>

remove_member(u, h, v) ==
  /\ group[h] # "none"
  /\ Has(<<"group", h, v>>)
  /\ Ended({<<"group", h, v>>})
  /\ UNCHANGED <<now, account, Records, group, ready>>

(***************************************************************************)
(* Accounts, as far as rows here refer to them.                            *)
(***************************************************************************)
\* update_user(): only the active flag; the last administrator stays.
update_user(u, v) ==
  /\ v \in Managed /\ account[v] # "gone"
  /\ v \in Admin => \E w \in Admin \ {v} : account[w] = "active"
  /\ account' = [account EXCEPT ![v] =
                   IF @ = "active" THEN "disabled" ELSE "active"]
  /\ UNCHANGED <<now, Records, group, Grants, ready>>

delete_user(u, v) ==
  /\ v \in Managed /\ account[v] # "gone" /\ u # v
  /\ \A e \in Entry : entry[e].owner # v
  /\ \A f \in Folder : folder[f].owner # v
  /\ \A w \in Service : ServiceOwner[w] = v => account[w] = "gone"
  /\ account' = [account EXCEPT ![v] = "gone"]
  /\ Ended({r \in Row : r[3] = v})
  /\ UNCHANGED <<now, Records, group, ready>>

(***************************************************************************)
(* migrate_folder_links(): in the transaction of the first sign-in after   *)
(* an upgrade every folder name in a document gets a folder of the entry's *)
(* owner.  A conflict refuses the whole sign-in.                           *)
(***************************************************************************)
Filed == {e \in Entry : IsEntry(e) /\ entry[e].text # "none"}
Wanted(e) == [owner |-> entry[e].owner, name |-> entry[e].text]
Missing == {Wanted(e) : e \in Filed} \ {folder[f] : f \in Folder}

\* Entries are visited by id, so folders are numbered by their first entry.
FirstEntry(w) == CHOOSE e \in Filed : Wanted(e) = w /\
                   \A d \in Filed : Wanted(d) = w => e <= d
NewFolderId(w) ==
  folders + Cardinality({v \in Missing : FirstEntry(v) <= FirstEntry(w)})
MigratedFolder(f) ==
  IF \E w \in Missing : NewFolderId(w) = f
  THEN CHOOSE w \in Missing : NewFolderId(w) = f ELSE folder[f]
HomeFolder(e) ==
  IF entry[e].text = "none" THEN NoFolder
  ELSE CHOOSE f \in Folder : MigratedFolder(f) = Wanted(e)

Conflicting(e) == IsEntry(e) /\ entry[e].folder \notin
                    {HomeFolder(e)} \union
                    (IF entry[e].text = "none" THEN {} ELSE {NoFolder})

migrate_folder_links ==
  /\ ~ready
  /\ folders + Cardinality(Missing) <= MaxFolders
  /\ \A e \in Entry : ~Conflicting(e)
  /\ folder' = [f \in Folder |-> MigratedFolder(f)]
  /\ folders' = folders + Cardinality(Missing)
  /\ entry' = [e \in Entry |->
       IF IsEntry(e) THEN [entry[e] EXCEPT !.folder = HomeFolder(e)] ELSE entry[e]]
  /\ ready' = TRUE
  /\ UNCHANGED <<now, account, entries, group, Grants, strayed>>

-----------------------------------------------------------------------------
(***************************************************************************)
(* The routes and tools, and who reaches them.  A person has a session     *)
(* only after a sign-in that found or made the folder links; a service     *)
(* token works without one.                                                *)
(***************************************************************************)
SignedIn(u) == u \notin Service /\ account[u] = "active" /\ ready

PasswordAccessRoutes(u) ==
  \E e \in Entry :
    \/ \E v \in User : \/ \E g \in Offered : set_share(u, e, v, g)
                      \/ revoke_share(u, e, v)
    \/ relinquish(u, e)

PasswordRoutes(u) ==
  \/ \E f \in Folder \union {NoFolder}, text \in Name \union {"none"} :
       \/ create_password(u, f, text)
       \/ \E e \in Entry : update_password(u, e, f, text)
  \/ \E e \in Entry : \/ delete_password(u, e)
                     \/ restore_password(u, e)
                     \/ purge_password(u, e)

ImportRoutes(u) ==
  \E old \in Entry \union {0}, text \in Name \union {"none"},
     trashed \in BOOLEAN, V \in SUBSET (User \ {u}) :
    \E shares \in [V -> Permission] : import_row(u, old, text, trashed, shares)

FolderRoutes(u) ==
  \/ \E name \in Name : \/ create_folder(u, name)
                       \/ \E f \in Folder : rename_folder(u, f, name)
  \/ \E f \in Folder :
       \/ remove_folder(u, f)
       \/ \E v \in User : \/ \E g \in Offered : set_user_grant(u, f, v, g)
                         \/ revoke_user_grant(u, f, v)
       \/ \E h \in Group : \/ \E g \in Offered : set_group_grant(u, f, h, g)
                          \/ revoke_group_grant(u, f, h)

GroupRoutes(u) ==
  /\ u \in Admin
  /\ \E h \in Group :
       \/ \E name \in GroupName :
            create_group(u, h, name) \/ rename_group(u, h, name)
       \/ remove_group(u, h)
       \/ \E v \in User : add_member(u, h, v) \/ remove_member(u, h, v)

UserRoutes(u) ==
  u \in Admin /\ \E v \in User : update_user(u, v) \/ delete_user(u, v)

\* create_entry, update_entry, delete_entry and relinquish_entry.  Creating and
\* updating end by reading the entry back as a writer (_by_id), which undoes
\* everything when the access is gone.
McpTools(s) ==
  \E e \in Entry :
    \/ \E f \in Folder \union {NoFolder}, text \in Name \union {"none"} :
         \/ e = entries + 1 /\ create_password(s, f, text) /\ require(e, s, "write")'
         \/ update_password(s, e, f, text) /\ require(e, s, "write")'
    \/ delete_password(s, e)
    \/ relinquish(s, e)

Act(u) ==
  \/ /\ SignedIn(u)
     /\ \/ PasswordAccessRoutes(u) \/ PasswordRoutes(u) \/ ImportRoutes(u)
        \/ FolderRoutes(u) \/ GroupRoutes(u) \/ UserRoutes(u)
  \/ u \in Service /\ account[u] = "active" /\ McpTools(u)

SignIn(u) == u \notin Service /\ account[u] = "active" /\ migrate_folder_links

Tick == /\ now < MaxTime
        /\ now' = now + 1
        /\ UNCHANGED <<account, Records, group, Grants, ready>>

Start ==
  /\ now = 0
  /\ account = [u \in User |-> "active"]
  /\ folder = [f \in Folder |-> NoFolderRow]
  /\ folders = 0
  /\ group = [h \in Group |-> "none"]
  /\ trail = <<>>
  /\ strayed = {}

\* A vault that has just been set up.
NewVault ==
  /\ Start
  /\ entry = [e \in Entry |-> NoEntry]
  /\ entries = 0
  /\ grant = trail
  /\ unaudited = {}
  /\ ready = TRUE

\* A vault upgraded from a version without folders and audit: one entry, whose
\* document may name a folder, perhaps trashed, perhaps shared.
UpgradedVault ==
  /\ Start
  /\ \E owner \in User \ Service, text \in Name \union {"none"},
        trashed \in BOOLEAN :
       entry = [e \in Entry |-> IF e = 1
                 THEN [owner |-> owner, folder |-> NoFolder, text |-> text,
                       trashed |-> trashed]
                 ELSE NoEntry]
  /\ entries = 1
  /\ \E v \in (User \ {entry[1].owner}) \union {"none"},
        p \in Permission :
       /\ unaudited = {<<"entry", 1, v>>} \intersect Row
       /\ grant = [r \in unaudited |-> [permission |-> p, expires |-> Never]]
  /\ ready = FALSE

Init == NewVault \/ UpgradedVault

Next == (\E u \in User : Act(u) \/ SignIn(u)) \/ Tick

Spec == Init /\ [][Next]_vars

-----------------------------------------------------------------------------
(***************************************************************************)
(* What the operations keep true.                                          *)
(***************************************************************************)
TypeOK ==
  /\ now \in 0..MaxTime
  /\ account \in [User -> {"active", "disabled", "gone"}]
  /\ entry \in [Entry -> EntryModel \union {NoEntry}]
  /\ entries \in 0..MaxEntries
  /\ folder \in [Folder -> FolderModel \union {NoFolderRow}]
  /\ folders \in 0..MaxFolders
  /\ group \in [Group -> GroupName \union {"none"}]
  /\ DOMAIN grant \subseteq Row /\ \A r \in DOMAIN grant : grant[r] \in Grant
  /\ DOMAIN trail \subseteq Row /\ \A r \in DOMAIN trail : trail[r] \in Grant
  /\ ready \in BOOLEAN
  /\ unaudited \subseteq Row
  /\ strayed \subseteq Entry

\* No row refers to a row that is gone: not an entry to its folder or owner,
\* not a folder to its owner, not a grant to either side (the foreign keys, and
\* the guards of remove() and delete_user() that keep the trash in mind).
NoDanglingRows ==
  /\ \A e \in Entry : IsEntry(e) =>
       /\ account[entry[e].owner] # "gone"
       /\ entry[e].folder # NoFolder => IsFolder(entry[e].folder)
  /\ \A f \in Folder : IsFolder(f) => account[folder[f].owner] # "gone"
  /\ \A r \in DOMAIN grant :
       /\ r \in EntryAccessModel => IsEntry(r[2])
       /\ r \in FolderUserAccessModel \union FolderGroupAccessModel => IsFolder(r[2])
       /\ r \in GroupMemberModel => group[r[2]] # "none"
       /\ IF r \in FolderGroupAccessModel THEN group[r[3]] # "none"
          ELSE account[r[3]] # "gone"

\* Nobody has two folders of one name, whichever way they came about.
FolderNamesAreUnique ==
  \A f, g \in Folder : IsFolder(f) /\ folder[f] = folder[g] => f = g

\* The tables obey the schema after every sequence of operations: columns of
\* their types, no reference to a row that is gone, unique folder names.  The
\* code checks these itself (folder.py, auth.py:delete_user), before a
\* constraint of SQLite would turn the request into an error.
TablesAreSound == TypeOK /\ NoDanglingRows /\ FolderNamesAreUnique

\* The folder name sealed in an entry's document is the name of the folder it
\* is linked to, in the trash too; once the links are ready, an entry names a
\* folder exactly when it is in one (rename(), _folder_for(), the migration).
\* While they are not, this and EntriesFollowUnlessStrayed are what lets the
\* next sign-in make them: migrate_folder_links() refuses anything else.
DocumentNamesItsFolder ==
  \A e \in Entry : IsEntry(e) =>
    /\ entry[e].folder # NoFolder => entry[e].text = folder[entry[e].folder].name
    /\ ready /\ entry[e].folder = NoFolder => entry[e].text = "none"

\* An entry in a folder belongs to the folder's owner ("This keeps folder
\* ownership and entry-owner-only operations aligned", access.py).
EntriesFollowTheirFolder ==
  \A e \in Entry : entry[e].folder # NoFolder =>
    folder[entry[e].folder].owner = entry[e].owner

\* The same, but for the entries that somebody else's update filed by name.
EntriesFollowUnlessStrayed ==
  \A e \in Entry \ strayed : entry[e].folder # NoFolder =>
    folder[entry[e].folder].owner = entry[e].owner

\* The list of entries, the permission check, the sources shown for an entry
\* and the folder overview of an administrator are four queries; they agree on
\* who has access, at every instant and for every mixture of grants.
ViewsAgree ==
  /\ \A u \in User, e \in Entry : IsEntry(e) =>
       LET shown == sources(e, u)
       IN  /\ e \in visible_ids(u) <=> permission(e, u) # "none"
           /\ permission(e, u) =
                IF \E s \in shown : s.source \in {"owner", "folder_owner"}
                THEN "owner"
                ELSE _strongest({s.permission : s \in {t \in shown : ~t.expired}})
  /\ \A u \in User, f \in Folder : IsFolder(f) =>
       user_access(f, u) = IF permission_for(f, u) = "owner" THEN "write"
                           ELSE permission_for(f, u)

\* The newest audit event about a grant or a membership says what the row says,
\* and where there is no row, that there is none.  Only direct shares of entries
\* may lack an event, and these never expire: the ones from before the audit, a
\* service's on an entry it creates outside folders (access.py), and the ones a
\* migration archive brings along (backup.py:1101-1110).  Sharing such an entry
\* again is audited; folder grants and memberships have no exception.
TrailTellsTheGrants ==
  /\ DOMAIN trail = DOMAIN grant \ unaudited
  /\ \A r \in DOMAIN trail : trail[r] = grant[r]
  /\ unaudited \subseteq DOMAIN grant \intersect EntryAccessModel
  /\ \A r \in unaudited : grant[r].expires = Never

Rank == [none |-> 0, read |-> 1, write |-> 2, owner |-> 3]

\* Nobody's access to an entry grows unless the step was taken by the owner of
\* the entry or of its folder, or by an administrator (who manages folder
\* grants and groups).  Filing an entry that is in no folder is the exception:
\* there the code asks for write access only.
AccessIsGranted ==
  [][\A e \in Entry, v \in User :
       /\ IsEntry(e) /\ (entry[e].folder # NoFolder \/ entry'[e].folder = NoFolder)
       /\ Rank[permission(e, v)'] > Rank[permission(e, v)]
       => \A u \in User : Act(u) => require(e, u, "owner") \/ u \in Admin]_vars

=============================================================================

-------------------------- MODULE EntryAccessProofs --------------------------
(***************************************************************************)
(* What EntryAccess promises, for any people, groups, folders and entries: *)
(* the tables stay sound, an entry's document names its folder, an entry   *)
(* belongs to its folder's owner unless it strayed, the audit trail tells  *)
(* the grants, the four views of who has access agree, and nobody's access *)
(* grows without the owner or an administrator.                            *)
(***************************************************************************)
EXTENDS EntryAccess, FiniteSetTheorems, WellFoundedInduction, TLAPS

\* Ids are given out in order.
FreshIds ==
  /\ \A e \in Entry : e > entries => entry[e] = NoEntry
  /\ \A f \in Folder : f > folders => folder[f] = NoFolderRow

\* The person a service belongs to is not deleted before the service.
OwnersStay ==
  \A s \in Service : account[s] # "gone" => account[ServiceOwner[s]] # "gone"

\* What a folder or an entry is shared for is reading or writing.
GrantsFit ==
  \A r \in DOMAIN grant : r \notin GroupMemberModel =>
                            grant[r].permission \in Permission

\* The rows one row of a grant table refers to are there.
RowRefs(r) ==
  /\ r \in EntryAccessModel => IsEntry(r[2])
  /\ r \in FolderUserAccessModel \union FolderGroupAccessModel => IsFolder(r[2])
  /\ r \in GroupMemberModel => group[r[2]] # "none"
  /\ IF r \in FolderGroupAccessModel THEN group[r[3]] # "none"
     ELSE account[r[3]] # "gone"

EntryRefs ==
  \A e \in Entry : IsEntry(e) =>
    /\ account[entry[e].owner] # "gone"
    /\ entry[e].folder # NoFolder => IsFolder(entry[e].folder)

FolderRefs == \A f \in Folder : IsFolder(f) => account[folder[f].owner] # "gone"

\* The invariant in three parts: the grant tables, the entries and folders, and
\* the rest.
GrantPart ==
  /\ DOMAIN grant \subseteq Row /\ \A r \in DOMAIN grant : grant[r] \in Grant
  /\ DOMAIN trail \subseteq Row /\ \A r \in DOMAIN trail : trail[r] \in Grant
  /\ unaudited \subseteq Row
  /\ \A r \in DOMAIN grant : RowRefs(r)
  /\ TrailTellsTheGrants
  /\ GrantsFit

RecordPart ==
  /\ entry \in [Entry -> EntryModel \union {NoEntry}]
  /\ entries \in 0..MaxEntries
  /\ folder \in [Folder -> FolderModel \union {NoFolderRow}]
  /\ folders \in 0..MaxFolders
  /\ strayed \subseteq Entry
  /\ EntryRefs /\ FolderRefs
  /\ FolderNamesAreUnique
  /\ DocumentNamesItsFolder
  /\ EntriesFollowUnlessStrayed
  /\ FreshIds

OtherPart ==
  /\ now \in 0..MaxTime
  /\ account \in [User -> {"active", "disabled", "gone"}]
  /\ group \in [Group -> GroupName \union {"none"}]
  /\ ready \in BOOLEAN
  /\ OwnersStay

IInv == GrantPart /\ RecordPart /\ OtherPart

-----------------------------------------------------------------------------
(***************************************************************************)
(* Rows.                                                                   *)
(***************************************************************************)
\* An entry that exists has an owner; so has a folder.
LEMMA Rows ==
  ASSUME RecordPart
  PROVE  /\ \A e \in Entry : IsEntry(e) => /\ entry[e] \in EntryModel
                                           /\ entry[e].owner \in User
         /\ \A e \in Entry : ~IsEntry(e) => /\ entry[e].folder = NoFolder
                                            /\ entry[e].owner = "none"
         /\ \A f \in Folder : IsFolder(f) => /\ folder[f] \in FolderModel
                                             /\ folder[f].owner \in User
                                             /\ folder[f].name \in Name
         /\ \A f \in Folder : ~IsFolder(f) => folder[f].owner = "none"
<1>1. ASSUME NEW e \in Entry
      PROVE  /\ IsEntry(e) => entry[e] \in EntryModel /\ entry[e].owner \in User
             /\ ~IsEntry(e) => entry[e].folder = NoFolder /\ entry[e].owner = "none"
  <2>1. entry[e] \in EntryModel \union {NoEntry}
    BY DEF RecordPart
  <2>2. NoEntry.folder = NoFolder /\ NoEntry.owner = "none"
    BY DEF NoEntry
  <2>3. ASSUME NEW x \in EntryModel PROVE x.owner \in User
    BY DEF EntryModel
  <2>4. QED
    BY <2>1, <2>2, <2>3 DEF IsEntry
<1>2. ASSUME NEW f \in Folder
      PROVE  /\ IsFolder(f) => /\ folder[f] \in FolderModel
                               /\ folder[f].owner \in User /\ folder[f].name \in Name
             /\ ~IsFolder(f) => folder[f].owner = "none"
  <2>1. folder[f] \in FolderModel \union {NoFolderRow}
    BY DEF RecordPart
  <2>2. QED
    BY <2>1 DEF IsFolder, FolderModel, NoFolderRow
<1>3. QED
  BY <1>1, <1>2

\* Where a row of each of the four tables belongs.
LEMMA RowKinds ==
  /\ \A e \in Entry, v \in User :
       /\ <<"entry", e, v>> \in Row
       /\ <<"entry", e, v>> \in EntryAccessModel
       /\ <<"entry", e, v>> \notin FolderUserAccessModel \union
            FolderGroupAccessModel \union GroupMemberModel
       /\ <<"entry", e, v>>[2] = e /\ <<"entry", e, v>>[3] = v
  /\ \A f \in Folder, v \in User :
       /\ <<"folder_user", f, v>> \in Row
       /\ <<"folder_user", f, v>> \in FolderUserAccessModel
       /\ <<"folder_user", f, v>> \notin EntryAccessModel \union
            FolderGroupAccessModel \union GroupMemberModel
       /\ <<"folder_user", f, v>>[2] = f /\ <<"folder_user", f, v>>[3] = v
  /\ \A f \in Folder, h \in Group :
       /\ <<"folder_group", f, h>> \in Row
       /\ <<"folder_group", f, h>> \in FolderGroupAccessModel
       /\ <<"folder_group", f, h>> \notin EntryAccessModel \union
            FolderUserAccessModel \union GroupMemberModel
       /\ <<"folder_group", f, h>>[2] = f /\ <<"folder_group", f, h>>[3] = h
  /\ \A h \in Group, v \in User :
       /\ <<"group", h, v>> \in Row
       /\ <<"group", h, v>> \in GroupMemberModel
       /\ <<"group", h, v>> \notin EntryAccessModel \union
            FolderUserAccessModel \union FolderGroupAccessModel
       /\ <<"group", h, v>>[2] = h /\ <<"group", h, v>>[3] = v
BY DEF Row, EntryAccessModel, FolderUserAccessModel, FolderGroupAccessModel,
       GroupMemberModel

\* And back: what a row of a table is made of.
LEMMA RowParts ==
  ASSUME NEW r \in Row
  PROVE  /\ r \in EntryAccessModel => r[2] \in Entry /\ r[3] \in User
         /\ r \in FolderUserAccessModel => r[2] \in Folder /\ r[3] \in User
         /\ r \in FolderGroupAccessModel => r[2] \in Folder /\ r[3] \in Group
         /\ r \in GroupMemberModel => r[2] \in Group /\ r[3] \in User
         /\ r \notin FolderGroupAccessModel => r[3] \in User
         /\ r \in FolderGroupAccessModel => r[3] \in Group
BY DEF Row, EntryAccessModel, FolderUserAccessModel, FolderGroupAccessModel,
       GroupMemberModel

-----------------------------------------------------------------------------
(***************************************************************************)
(* The grant tables.                                                       *)
(***************************************************************************)
\* A row is written with its audit event.
LEMMA AuditedStep ==
  ASSUME GrantPart, NEW row \in Row, NEW g \in Grant,
         row \notin GroupMemberModel => g.permission \in Permission,
         Audited(row, g), UNCHANGED <<entry, folder, group, account>>,
         RowRefs(row)
  PROVE  GrantPart'
<1>1. /\ DOMAIN grant' = DOMAIN grant \union {row}
      /\ \A r \in DOMAIN grant' : grant'[r] = IF r = row THEN g ELSE grant[r]
  BY DEF Audited, With
<1>2. /\ DOMAIN trail' = DOMAIN trail \union {row}
      /\ \A r \in DOMAIN trail' : trail'[r] = IF r = row THEN g ELSE trail[r]
  BY DEF Audited, With
<1>3. unaudited' = unaudited \ {row}
  BY DEF Audited
<1>4. \A r \in Row : RowRefs(r) => RowRefs(r)'
  BY DEF RowRefs, IsEntry, IsFolder
<1>5. DOMAIN grant' \subseteq Row /\ \A r \in DOMAIN grant' : grant'[r] \in Grant
  BY <1>1 DEF GrantPart
<1>6. DOMAIN trail' \subseteq Row /\ \A r \in DOMAIN trail' : trail'[r] \in Grant
  BY <1>2 DEF GrantPart
<1>7. \A r \in DOMAIN grant' : RowRefs(r)'
  BY <1>1, <1>4 DEF GrantPart
<1>8. TrailTellsTheGrants'
  BY <1>1, <1>2, <1>3 DEF GrantPart, TrailTellsTheGrants
<1>9. GrantsFit'
  BY <1>1 DEF GrantPart, GrantsFit
<1>10. QED
  BY <1>3, <1>5, <1>6, <1>7, <1>8, <1>9 DEF GrantPart

\* Rows go with their trail; what is left still refers to something.
LEMMA EndedStep ==
  ASSUME GrantPart, NEW rows, Ended(rows),
         \A r \in DOMAIN grant \ rows : RowRefs(r) => RowRefs(r)'
  PROVE  GrantPart'
<1>1. /\ DOMAIN grant' = DOMAIN grant \ rows
      /\ \A r \in DOMAIN grant' : grant'[r] = grant[r]
  BY DEF Ended, Without
<1>2. /\ DOMAIN trail' = DOMAIN trail \ rows
      /\ \A r \in DOMAIN trail' : trail'[r] = trail[r]
  BY DEF Ended, Without
<1>3. unaudited' = unaudited \ rows
  BY DEF Ended
<1>4. DOMAIN grant' \subseteq Row /\ \A r \in DOMAIN grant' : grant'[r] \in Grant
  BY <1>1 DEF GrantPart
<1>5. DOMAIN trail' \subseteq Row /\ \A r \in DOMAIN trail' : trail'[r] \in Grant
  BY <1>2 DEF GrantPart
<1>6. \A r \in DOMAIN grant' : RowRefs(r)'
  BY <1>1 DEF GrantPart
<1>7. TrailTellsTheGrants'
  BY <1>1, <1>2, <1>3 DEF GrantPart, TrailTellsTheGrants
<1>8. GrantsFit'
  BY <1>1 DEF GrantPart, GrantsFit
<1>9. QED
  BY <1>3, <1>4, <1>5, <1>6, <1>7, <1>8 DEF GrantPart

\* The tables are left alone, and what they refer to is still there.
LEMMA GrantsSame ==
  ASSUME GrantPart, UNCHANGED Grants,
         \A r \in DOMAIN grant : RowRefs(r) => RowRefs(r)'
  PROVE  GrantPart'
<1>1. grant' = grant /\ trail' = trail /\ unaudited' = unaudited
  BY DEF Grants
<1>2. \A r \in DOMAIN grant' : RowRefs(r)'
  BY <1>1 DEF GrantPart
<1>3. TrailTellsTheGrants' /\ GrantsFit'
  BY <1>1 DEF GrantPart, TrailTellsTheGrants, GrantsFit
<1>4. QED
  BY <1>1, <1>2, <1>3 DEF GrantPart

\* A new entry is shared, and no audit event says so.
LEMMA SilentStep ==
  ASSUME GrantPart, NEW e \in Entry, ~IsEntry(e), IsEntry(e)', account' = account,
         NEW shares, DOMAIN shares \subseteq User,
         \A v \in DOMAIN shares : shares[v] \in Permission /\ account[v] # "gone",
         SharedSilently(e, shares),
         \A r \in Row : RowRefs(r) => RowRefs(r)'
  PROVE  GrantPart'
<1> DEFINE rows == {<<"entry", e, v>> : v \in DOMAIN shares}
           new(r) == [permission |-> shares[r[3]], expires |-> Never]
<1>1. /\ grant' = [r \in DOMAIN grant \union rows |->
                      IF r \in rows THEN new(r) ELSE grant[r]]
      /\ unaudited' = unaudited \union rows /\ trail' = trail
  BY DEF SharedSilently
<1>2. ASSUME NEW r \in rows
      PROVE  /\ r \in Row /\ r \in EntryAccessModel /\ r[2] = e
             /\ r \notin FolderUserAccessModel \union FolderGroupAccessModel
             /\ r \notin GroupMemberModel
             /\ account[r[3]] # "gone" /\ shares[r[3]] \in Permission
  <2>1. PICK v \in DOMAIN shares : r = <<"entry", e, v>>
    OBVIOUS
  <2>2. v \in User /\ r[3] = v
    BY <2>1
  <2>3. QED
    BY <2>1, <2>2, RowKinds
<1>3. ASSUME NEW r \in rows
      PROVE  /\ new(r) \in Grant /\ new(r).permission \in Permission
             /\ new(r).expires = Never
  BY <1>2, EntryAccessAssumption DEF Grant, Never
<1>4. \A r \in rows : r \notin DOMAIN grant /\ RowRefs(r)'
  BY <1>2 DEF GrantPart, RowRefs
<1> HIDE DEF rows, new
<1>5. /\ DOMAIN grant' = DOMAIN grant \union rows
      /\ \A r \in rows : grant'[r] = new(r)
      /\ \A r \in DOMAIN grant : grant'[r] = grant[r]
  BY <1>1, <1>4
<1>6. /\ DOMAIN grant' \subseteq Row /\ \A r \in DOMAIN grant' : grant'[r] \in Grant
      /\ unaudited' \subseteq Row
  BY <1>1, <1>2, <1>3, <1>5 DEF GrantPart
<1>7. \A r \in DOMAIN grant' : RowRefs(r)'
  BY <1>4, <1>5 DEF GrantPart
<1>8. TrailTellsTheGrants'
  <2>1. DOMAIN trail' = DOMAIN grant' \ unaudited'
    BY <1>1, <1>4, <1>5 DEF GrantPart, TrailTellsTheGrants
  <2>2. \A r \in DOMAIN trail' : trail'[r] = grant'[r]
    BY <1>1, <1>5 DEF GrantPart, TrailTellsTheGrants
  <2>3. /\ unaudited' \subseteq DOMAIN grant' \intersect EntryAccessModel
        /\ \A r \in unaudited' : grant'[r].expires = Never
    BY <1>1, <1>2, <1>3, <1>5 DEF GrantPart, TrailTellsTheGrants
  <2>4. QED
    BY <2>1, <2>2, <2>3 DEF TrailTellsTheGrants
<1>9. GrantsFit'
  BY <1>3, <1>5 DEF GrantPart, GrantsFit
<1>10. QED
  BY <1>1, <1>6, <1>7, <1>8, <1>9 DEF GrantPart

\* Entries, folders, groups and accounts that stay keep their rows.
LEMMA RefsStay ==
  ASSUME NEW r \in Row, RowRefs(r),
         \A e \in Entry : IsEntry(e) => IsEntry(e)',
         \A f \in Folder : IsFolder(f) => IsFolder(f)',
         \A h \in Group : group[h] # "none" => group'[h] # "none",
         \A v \in User : account[v] # "gone" => account'[v] # "gone"
  PROVE  RowRefs(r)'
<1>1. CASE r \in FolderGroupAccessModel
  BY <1>1, RowParts DEF RowRefs
<1>2. CASE r \notin FolderGroupAccessModel
  BY <1>2, RowParts DEF RowRefs
<1>3. QED
  BY <1>1, <1>2

-----------------------------------------------------------------------------
(***************************************************************************)
(* The entries and folders.                                                *)
(***************************************************************************)
\* The folder r an operation of u files an entry under: there, of the right
\* name, and new only where no folder was.
Found(u, f, text, r) ==
  /\ r.rows \in [Folder -> FolderModel \union {NoFolderRow}]
  /\ r.made \in 0..MaxFolders /\ r.made >= folders
  /\ \A h \in Folder : IsFolder(h) => r.rows[h] = folder[h]
  /\ \A h \in Folder : h > r.made => r.rows[h] = NoFolderRow
  /\ \A h \in Folder : r.rows[h] # NoFolderRow =>
       r.rows[h] = folder[h] \/ r.rows[h].owner = OwnerId(u)
  /\ \A h, k \in Folder : r.rows[h] # NoFolderRow /\ r.rows[h] = r.rows[k]
       => h = k
  /\ r.folder \in 0..MaxFolders
  /\ r.folder # NoFolder =>
       r.folder \in Folder /\ r.rows[r.folder] # NoFolderRow
  /\ f # NoFolder => /\ r.folder = f /\ r.rows = folder /\ r.made = folders
                     /\ text # "none" => text = folder[f].name
  /\ f = NoFolder /\ text # "none" =>
       /\ r.folder # NoFolder
       /\ r.rows[r.folder] = [owner |-> OwnerId(u), name |-> text]
  /\ f = NoFolder /\ text = "none" => r.folder = NoFolder

\* That is what _folder_for() finds or makes.
LEMMA FolderFor ==
  ASSUME IInv, NEW u \in User, account[u] # "gone",
         NEW f \in Folder \union {NoFolder}, NEW text \in Name \union {"none"},
         NEW r \in _folder_for(u, f, text)
  PROVE  Found(u, f, text, r)
<1> USE DEF Found
<1>1. /\ folder \in [Folder -> FolderModel \union {NoFolderRow}]
      /\ folders \in 0..MaxFolders
      /\ \A h \in Folder : h > folders => folder[h] = NoFolderRow
      /\ \A h, k \in Folder : IsFolder(h) /\ folder[h] = folder[k] => h = k
  BY DEF IInv, RecordPart, FreshIds, FolderNamesAreUnique
<1>2. MaxFolders \in Nat /\ "none" \notin User /\ "none" \notin Name
      /\ NoFolder \notin Folder
  BY EntryAccessAssumption DEF Folder, NoFolder
<1>3. folders >= folders /\ folders \in Nat
  BY <1>1, <1>2
<1>4. OwnerId(u) \in User
  BY EntryAccessAssumption DEF OwnerId
<1>5. CASE f # NoFolder
  <2>1. r = [folder |-> f, rows |-> folder, made |-> folders]
        /\ IsFolder(f) /\ text \in {"none", folder[f].name}
    BY <1>5 DEF _folder_for
  <2>2. r.folder = f /\ r.rows = folder /\ r.made = folders
    BY <2>1
  <2>3. f \in 0..MaxFolders
    BY <1>2, <1>5 DEF Folder, NoFolder
  <2>4. QED
    BY <1>1, <1>2, <1>3, <1>5, <2>1, <2>2, <2>3 DEF IsFolder
<1>6. CASE f = NoFolder /\ text = "none"
  <2>1. r = [folder |-> NoFolder, rows |-> folder, made |-> folders]
    BY <1>6 DEF _folder_for
  <2>2. r.folder = NoFolder /\ r.rows = folder /\ r.made = folders
    BY <2>1
  <2>3. NoFolder \in 0..MaxFolders
    BY <1>2 DEF NoFolder
  <2>4. QED
    BY <1>1, <1>2, <1>3, <1>6, <2>2, <2>3 DEF IsFolder
<1>7. CASE f = NoFolder /\ text # "none"
  <2> DEFINE row == [owner |-> OwnerId(u), name |-> text]
  <2>1. r \in _folder_named(OwnerId(u), text)
    BY <1>7 DEF _folder_for
  <2>2. row \in FolderModel /\ row # NoFolderRow /\ row.owner = OwnerId(u)
    BY <1>2, <1>4, <1>7 DEF FolderModel, NoFolderRow
  <2>3. ASSUME NEW h \in Folder, folder[h] = row,
               r = [folder |-> h, rows |-> folder, made |-> folders]
        PROVE  /\ r.rows = folder /\ r.made = folders /\ r.folder = h
               /\ r.folder \in Folder /\ r.rows[r.folder] = row
    BY <2>3
  <2>4. ASSUME folders + 1 \in Folder, \A h \in Folder : folder[h] # row,
               r = [folder |-> folders + 1, made |-> folders + 1,
                    rows |-> [folder EXCEPT ![folders + 1] = row]]
        PROVE  /\ r.rows \in [Folder -> FolderModel \union {NoFolderRow}]
               /\ r.made = folders + 1 /\ r.folder = folders + 1
               /\ r.rows[folders + 1] = row
               /\ \A h \in Folder \ {folders + 1} : r.rows[h] = folder[h]
               /\ ~IsFolder(folders + 1)
    <3>1. /\ r.made = folders + 1 /\ r.folder = folders + 1
          /\ r.rows = [folder EXCEPT ![folders + 1] = row]
      BY <2>4
    <3>2. folder[folders + 1] = NoFolderRow
      BY <1>1, <1>3, <2>4
    <3>3. QED
      BY <1>1, <2>2, <2>4, <3>1, <3>2 DEF IsFolder
  <2>5. \/ \E h \in Folder : /\ folder[h] = row
                             /\ r = [folder |-> h, rows |-> folder, made |-> folders]
        \/ /\ folders + 1 \in Folder /\ \A h \in Folder : folder[h] # row
           /\ r = [folder |-> folders + 1, made |-> folders + 1,
                   rows |-> [folder EXCEPT ![folders + 1] = row]]
    BY <2>1 DEF _folder_named
  <2> HIDE DEF row
  <2>6. CASE \E h \in Folder :
               /\ folder[h] = row
               /\ r = [folder |-> h, rows |-> folder, made |-> folders]
    <3>1. PICK h \in Folder :
            /\ folder[h] = row
            /\ r = [folder |-> h, rows |-> folder, made |-> folders]
      BY <2>6
    <3>2. /\ r.rows = folder /\ r.made = folders /\ r.folder = h
          /\ r.folder \in Folder /\ r.rows[r.folder] = row
      BY <2>3, <3>1
    <3>3. h \in 0..MaxFolders /\ r.folder # NoFolder
      BY <1>2, <3>2 DEF Folder
    <3>4. r.rows[r.folder] = [owner |-> OwnerId(u), name |-> text]
      BY <3>2 DEF row
    <3>5. QED
      BY <1>1, <1>2, <1>3, <1>7, <2>2, <3>2, <3>3, <3>4 DEF IsFolder
  <2>7. CASE /\ folders + 1 \in Folder /\ \A h \in Folder : folder[h] # row
             /\ r = [folder |-> folders + 1, made |-> folders + 1,
                     rows |-> [folder EXCEPT ![folders + 1] = row]]
    <3>1. /\ r.rows \in [Folder -> FolderModel \union {NoFolderRow}]
          /\ r.made = folders + 1 /\ r.folder = folders + 1
          /\ r.rows[folders + 1] = row
          /\ \A h \in Folder \ {folders + 1} : r.rows[h] = folder[h]
          /\ ~IsFolder(folders + 1)
      BY <2>4, <2>7
    <3>2. r.made \in 0..MaxFolders /\ r.made >= folders /\ r.folder # NoFolder
      BY <1>2, <1>3, <2>7, <3>1 DEF Folder
    <3>3. \A h \in Folder : IsFolder(h) => r.rows[h] = folder[h]
      BY <3>1
    <3>4. \A h \in Folder : h > r.made => r.rows[h] = NoFolderRow
      BY <1>1, <1>3, <3>1 DEF Folder
    <3>5. \A h \in Folder : r.rows[h] # NoFolderRow =>
            r.rows[h] = folder[h] \/ r.rows[h].owner = OwnerId(u)
      BY <2>2, <3>1
    <3>6. \A h, k \in Folder : r.rows[h] # NoFolderRow /\ r.rows[h] = r.rows[k]
            => h = k
      BY <1>1, <2>7, <3>1 DEF IsFolder
    <3>7. r.rows[r.folder] = [owner |-> OwnerId(u), name |-> text]
      BY <3>1 DEF row
    <3>8. QED
      BY <1>7, <2>2, <2>7, <3>1, <3>2, <3>3, <3>4, <3>5, <3>6, <3>7
  <2>8. QED
    BY <2>5, <2>6, <2>7
<1>8. QED
  BY <1>5, <1>6, <1>7

\* Entries and folders are left alone, and their owners are still there.
LEMMA RecordsSame ==
  ASSUME RecordPart, UNCHANGED Records, ready' = ready,
         \A e \in Entry : IsEntry(e) => account'[entry[e].owner] # "gone",
         \A f \in Folder : IsFolder(f) => account'[folder[f].owner] # "gone"
  PROVE  RecordPart'
<1>1. /\ entry' = entry /\ entries' = entries /\ folder' = folder
      /\ folders' = folders /\ strayed' = strayed
  BY DEF Records
<1>2. /\ \A e : IsEntry(e)' <=> IsEntry(e)
      /\ \A f : IsFolder(f)' <=> IsFolder(f)
  BY <1>1 DEF IsEntry, IsFolder
<1>3. EntryRefs' /\ FolderRefs'
  BY <1>1, <1>2 DEF RecordPart, EntryRefs, FolderRefs
<1>4. FolderNamesAreUnique' /\ EntriesFollowUnlessStrayed'
  BY <1>1, <1>2 DEF RecordPart, FolderNamesAreUnique, EntriesFollowUnlessStrayed
<1>5. DocumentNamesItsFolder'
  BY <1>1, <1>2 DEF RecordPart, DocumentNamesItsFolder
<1>6. FreshIds'
  BY <1>1 DEF RecordPart, FreshIds
<1>7. QED
  BY <1>1, <1>3, <1>4, <1>5, <1>6 DEF RecordPart

\* An entry stays what it is, its place in or out of the trash apart.
Kept(d) ==
  /\ entry'[d].owner = entry[d].owner
  /\ entry'[d].folder = entry[d].folder
  /\ entry'[d].text = entry[d].text
  /\ entry'[d] = NoEntry <=> entry[d] = NoEntry

\* An entry is filed, a new one or one that was there, under the folder that
\* _folder_for() finds or makes.
LEMMA FiledStep ==
  ASSUME IInv, NEW u \in User, account[u] # "gone",
         NEW f \in Folder \union {NoFolder}, NEW text \in Name \union {"none"},
         NEW r \in _folder_for(u, f, text),
         NEW e \in Entry, NEW x \in EntryModel,
         x.folder = r.folder, x.text = SealedText(r, text),
         account[x.owner] # "gone",
         e \notin strayed' =>
           (x.folder # NoFolder => r.rows[x.folder].owner = x.owner),
         entry' \in [Entry -> EntryModel \union {NoEntry}], entry'[e] = x,
         \A d \in Entry \ {e} : Kept(d),
         folder' = r.rows, folders' = r.made,
         entries' \in 0..MaxEntries, entries' >= entries, e <= entries',
         strayed' \subseteq Entry, strayed \ {e} \subseteq strayed',
         UNCHANGED <<account, ready>>
  PROVE  /\ RecordPart'
         /\ \A d \in Entry : IsEntry(d) => IsEntry(d)'
         /\ \A h \in Folder : IsFolder(h) => IsFolder(h)'
<1>0. Found(u, f, text, r)
  BY FolderFor
<1>1. /\ r.rows \in [Folder -> FolderModel \union {NoFolderRow}]
      /\ r.made \in 0..MaxFolders /\ r.made >= folders
      /\ \A h \in Folder : IsFolder(h) => r.rows[h] = folder[h]
      /\ \A h \in Folder : h > r.made => r.rows[h] = NoFolderRow
      /\ \A h \in Folder : r.rows[h] # NoFolderRow =>
           r.rows[h] = folder[h] \/ r.rows[h].owner = OwnerId(u)
      /\ \A h, k \in Folder : r.rows[h] # NoFolderRow /\ r.rows[h] = r.rows[k]
           => h = k
  BY <1>0 DEF Found
<1>2. /\ r.folder \in 0..MaxFolders
      /\ r.folder # NoFolder =>
           r.folder \in Folder /\ r.rows[r.folder] # NoFolderRow
      /\ r.folder = NoFolder => text = "none"
  <2>1. f # NoFolder \/ text = "none" \/ r.folder # NoFolder
    BY <1>0 DEF Found
  <2>2. f # NoFolder => r.folder = f
    BY <1>0 DEF Found
  <2>3. QED
    BY <1>0, <2>1, <2>2 DEF Found
<1>3. x # NoEntry
  <2>1. NoEntry.owner = "none"
    BY DEF NoEntry
  <2>2. x.owner \in User
    BY DEF EntryModel
  <2>3. QED
    BY <2>1, <2>2, EntryAccessAssumption
<1>4. /\ entry \in [Entry -> EntryModel \union {NoEntry}]
      /\ \A d \in Entry \ {e} : /\ entry'[d].owner = entry[d].owner
                                 /\ entry'[d].folder = entry[d].folder
                                 /\ entry'[d].text = entry[d].text
  BY DEF IInv, RecordPart, Kept
<1>5. /\ IsEntry(e)' /\ \A d \in Entry \ {e} : IsEntry(d)' <=> IsEntry(d)
  BY <1>3 DEF IsEntry, Kept
<1>6. \A h \in Folder : IsFolder(h) => IsFolder(h)' /\ folder'[h] = folder[h]
  BY <1>1 DEF IsFolder
<1>7. \A h \in Folder : IsFolder(h)' <=> r.rows[h] # NoFolderRow
  BY DEF IsFolder
<1>8. \A d \in Entry \ {e} : IsEntry(d) /\ entry[d].folder # NoFolder =>
        entry[d].folder \in Folder /\ IsFolder(entry[d].folder)
  BY DEF IInv, RecordPart, EntryRefs, IsFolder
<1>9. EntryRefs'
  <2>1. SUFFICES ASSUME NEW d \in Entry, IsEntry(d)'
                 PROVE  /\ account[entry'[d].owner] # "gone"
                        /\ entry'[d].folder # NoFolder => IsFolder(entry[d].folder)'
    BY DEF EntryRefs
  <2>2. CASE d = e
    BY <1>2, <1>4, <1>7, <2>2
  <2>3. CASE d # e
    BY <1>4, <1>5, <1>6, <1>8, <2>1, <2>3 DEF IInv, RecordPart, EntryRefs
  <2>4. QED
    BY <2>2, <2>3
<1>10. FolderRefs'
  <2>1. SUFFICES ASSUME NEW h \in Folder, IsFolder(h)'
                 PROVE  account[folder'[h].owner] # "gone"
    BY DEF FolderRefs
  <2>2. account[OwnerId(u)] # "gone"
    BY EntryAccessAssumption DEF OwnerId, IInv, OtherPart, OwnersStay
  <2>3. r.rows[h] = folder[h] => IsFolder(h)
    BY <1>7, <2>1 DEF IsFolder
  <2>4. QED
    BY <1>1, <1>7, <2>1, <2>2, <2>3 DEF IInv, RecordPart, FolderRefs
<1>11. FolderNamesAreUnique'
  BY <1>1, <1>7 DEF FolderNamesAreUnique
<1>12. DocumentNamesItsFolder'
  <2>1. SUFFICES ASSUME NEW d \in Entry, IsEntry(d)'
                 PROVE  /\ entry'[d].folder # NoFolder =>
                             entry'[d].text = folder'[entry'[d].folder].name
                        /\ ready /\ entry'[d].folder = NoFolder =>
                             entry'[d].text = "none"
    BY DEF DocumentNamesItsFolder
  <2>2. CASE d = e
    BY <1>2, <1>4, <2>2 DEF SealedText
  <2>3. CASE d # e
    BY <1>4, <1>5, <1>6, <1>8, <2>1, <2>3
       DEF IInv, RecordPart, DocumentNamesItsFolder
  <2>4. QED
    BY <2>2, <2>3
<1>13. EntriesFollowUnlessStrayed'
  <2>1. SUFFICES ASSUME NEW d \in Entry \ strayed', entry'[d].folder # NoFolder
                 PROVE  folder'[entry'[d].folder].owner = entry'[d].owner
    BY DEF EntriesFollowUnlessStrayed
  <2>2. CASE d = e
    BY <1>4, <2>1, <2>2
  <2>3. CASE d # e
    <3>1. IsEntry(d)
      BY <1>4, <2>1, <2>3, Rows DEF IInv
    <3>2. d \notin strayed
      BY <2>1, <2>3
    <3>3. QED
      BY <1>4, <1>6, <1>8, <2>1, <2>3, <3>1, <3>2
         DEF IInv, RecordPart, EntriesFollowUnlessStrayed
  <2>4. QED
    BY <2>2, <2>3
<1>14. FreshIds'
  <2>1. ASSUME NEW d \in Entry, d > entries' PROVE entry'[d] = NoEntry
    <3>1. d # e /\ d > entries
      BY <2>1, EntryAccessAssumption DEF IInv, RecordPart, Entry
    <3>2. QED
      BY <3>1 DEF IInv, RecordPart, FreshIds, Kept
  <2>2. QED
    BY <1>1, <2>1 DEF FreshIds
<1>15. QED
  BY <1>1, <1>4, <1>5, <1>6, <1>9, <1>10, <1>11, <1>12, <1>13, <1>14 DEF RecordPart

-----------------------------------------------------------------------------
(***************************************************************************)
(* Sharing and membership.                                                 *)
(***************************************************************************)
\* A row is written and nothing else.
LEMMA GrantStep ==
  ASSUME IInv, NEW row \in Row, NEW g \in Grant,
         row \notin GroupMemberModel => g.permission \in Permission,
         Audited(row, g), RowRefs(row),
         UNCHANGED <<now, account, Records, group, ready>>
  PROVE  IInv'
<1>1. UNCHANGED <<entry, folder, group, account>>
  BY DEF Records
<1>2. GrantPart'
  BY <1>1, AuditedStep DEF IInv
<1>3. RecordPart'
  BY <1>1, RecordsSame DEF IInv, RecordPart, EntryRefs, FolderRefs
<1>4. OtherPart'
  BY DEF IInv, OtherPart, OwnersStay
<1>5. QED
  BY <1>2, <1>3, <1>4 DEF IInv

\* A row is removed and nothing else.
LEMMA RevokeStep ==
  ASSUME IInv, NEW rows, Ended(rows),
         UNCHANGED <<now, account, Records, group, ready>>
  PROVE  IInv'
<1>1. UNCHANGED <<entry, folder, group, account>>
  BY DEF Records
<1>2. GrantPart'
  <2>1. \A r \in DOMAIN grant \ rows : RowRefs(r) => RowRefs(r)'
    BY <1>1 DEF RowRefs, IsEntry, IsFolder
  <2>2. QED
    BY <2>1, EndedStep DEF IInv
<1>3. RecordPart'
  BY <1>1, RecordsSame DEF IInv, RecordPart, EntryRefs, FolderRefs
<1>4. OtherPart'
  BY DEF IInv, OtherPart, OwnersStay
<1>5. QED
  BY <1>2, <1>3, <1>4 DEF IInv

\* What may be offered is a grant, for reading or writing.
LEMMA Offers ==
  ASSUME NEW g, MayOffer(g)
  PROVE  g \in Grant /\ g.permission \in Permission
BY EntryAccessAssumption DEF MayOffer, Grant

\* Somebody with a permission for an entry finds it there.
LEMMA RequireEntry ==
  ASSUME IInv, NEW e \in Entry, NEW u \in User, NEW needed, require(e, u, needed)
  PROVE  IsEntry(e)
<1>1. SUFFICES ASSUME ~IsEntry(e) PROVE FALSE
  OBVIOUS
<1>2. entry[e].folder = NoFolder /\ entry[e].owner # u
  BY <1>1, Rows, EntryAccessAssumption DEF IInv
<1>3. permission(e, u) = "none"
  BY <1>1, <1>2 DEF permission
<1>4. QED
  BY <1>3 DEF require

LEMMA SharesOK ==
  ASSUME IInv, NEW u \in User, PasswordAccessRoutes(u)
  PROVE  IInv'
<1>1. ASSUME NEW e \in Entry, NEW v \in User, NEW g \in Offered, set_share(u, e, v, g)
      PROVE  IInv'
  <2> DEFINE row == <<"entry", e, v>>
  <2>1. g \in Grant /\ g.permission \in Permission
    BY <1>1, Offers DEF set_share
  <2>2. IsEntry(e) /\ account[v] # "gone"
    BY <1>1, RequireEntry DEF set_share
  <2>3. row \in Row /\ RowRefs(row)
    BY <2>2, RowKinds DEF RowRefs
  <2>4. Audited(row, g) /\ UNCHANGED <<now, account, Records, group, ready>>
    BY <1>1 DEF set_share
  <2> HIDE DEF row
  <2>5. QED
    BY <2>1, <2>3, <2>4, GrantStep
<1>2. ASSUME NEW e \in Entry, NEW v \in User, revoke_share(u, e, v)
      PROVE  IInv'
  BY <1>2, RevokeStep DEF revoke_share
<1>3. ASSUME NEW e \in Entry, relinquish(u, e)
      PROVE  IInv'
  BY <1>3, RevokeStep DEF relinquish
<1>4. QED
  BY <1>1, <1>2, <1>3 DEF PasswordAccessRoutes

LEMMA FolderGrantsOK ==
  ASSUME IInv, NEW u \in User, NEW f \in Folder
  PROVE  /\ \A v \in User, g \in Offered : set_user_grant(u, f, v, g) => IInv'
         /\ \A v \in User : revoke_user_grant(u, f, v) => IInv'
         /\ \A h \in Group, g \in Offered : set_group_grant(u, f, h, g) => IInv'
         /\ \A h \in Group : revoke_group_grant(u, f, h) => IInv'
<1>1. ASSUME NEW v \in User, NEW g \in Offered, set_user_grant(u, f, v, g)
      PROVE  IInv'
  <2> DEFINE row == <<"folder_user", f, v>>
  <2>1. g \in Grant /\ g.permission \in Permission
    BY <1>1, Offers DEF set_user_grant
  <2>2. IsFolder(f) /\ account[v] # "gone"
    BY <1>1 DEF set_user_grant, _require_manage
  <2>3. row \in Row /\ RowRefs(row)
    BY <2>2, RowKinds DEF RowRefs
  <2>4. Audited(row, g) /\ UNCHANGED <<now, account, Records, group, ready>>
    BY <1>1 DEF set_user_grant
  <2> HIDE DEF row
  <2>5. QED
    BY <2>1, <2>3, <2>4, GrantStep
<1>2. ASSUME NEW v \in User, revoke_user_grant(u, f, v) PROVE IInv'
  BY <1>2, RevokeStep DEF revoke_user_grant
<1>3. ASSUME NEW h \in Group, NEW g \in Offered, set_group_grant(u, f, h, g)
      PROVE  IInv'
  <2> DEFINE row == <<"folder_group", f, h>>
  <2>1. g \in Grant /\ g.permission \in Permission
    BY <1>3, Offers DEF set_group_grant
  <2>2. IsFolder(f) /\ group[h] # "none"
    BY <1>3 DEF set_group_grant, _require_manage
  <2>3. row \in Row /\ RowRefs(row)
    BY <2>2, RowKinds DEF RowRefs
  <2>4. Audited(row, g) /\ UNCHANGED <<now, account, Records, group, ready>>
    BY <1>3 DEF set_group_grant
  <2> HIDE DEF row
  <2>5. QED
    BY <2>1, <2>3, <2>4, GrantStep
<1>4. ASSUME NEW h \in Group, revoke_group_grant(u, f, h) PROVE IInv'
  BY <1>4, RevokeStep DEF revoke_group_grant
<1>5. QED
  BY <1>1, <1>2, <1>3, <1>4

\* A group gets a name, or another one.
LEMMA GroupNameStep ==
  ASSUME IInv, NEW h \in Group, NEW name \in GroupName,
         group' = [group EXCEPT ![h] = name],
         UNCHANGED <<now, account, Records, Grants, ready>>
  PROVE  IInv'
<1>1. /\ UNCHANGED <<entry, folder, account>>
      /\ \A k \in Group : group[k] # "none" => group'[k] # "none"
      /\ group' \in [Group -> GroupName \union {"none"}]
  BY EntryAccessAssumption DEF Records, IInv, OtherPart
<1>2. GrantPart'
  <2>1. \A r \in Row : RowRefs(r) => RowRefs(r)'
    BY <1>1, RefsStay DEF IsEntry, IsFolder
  <2>2. QED
    BY <2>1, GrantsSame DEF IInv, GrantPart
<1>3. RecordPart'
  BY <1>1, RecordsSame DEF IInv, RecordPart, EntryRefs, FolderRefs
<1>4. OtherPart'
  BY <1>1 DEF IInv, OtherPart, OwnersStay
<1>5. QED
  BY <1>2, <1>3, <1>4 DEF IInv

LEMMA GroupsOK ==
  ASSUME IInv, NEW u \in User, GroupRoutes(u)
  PROVE  IInv'
<1>1. ASSUME NEW h \in Group, NEW name \in GroupName,
             create_group(u, h, name) \/ rename_group(u, h, name)
      PROVE  IInv'
  BY <1>1, GroupNameStep DEF create_group, rename_group
<1>2. ASSUME NEW h \in Group, remove_group(u, h)
      PROVE  IInv'
  <2> DEFINE rows == {r \in GroupMemberModel : r[2] = h}
  <2>1. /\ UNCHANGED <<entry, folder, account, now, ready>> /\ UNCHANGED Records
        /\ group' = [group EXCEPT ![h] = "none"] /\ Ended(rows)
    BY <1>2 DEF remove_group, Records
  <2>2. group \in [Group -> GroupName \union {"none"}]
    BY DEF IInv, OtherPart
  <2>3. ASSUME NEW r \in DOMAIN grant \ rows, RowRefs(r) PROVE RowRefs(r)'
    <3>1. r \in Row
      BY DEF IInv, GrantPart
    <3>2. \A k \in Group \ {h} : group'[k] = group[k]
      BY <2>1, <2>2
    <3>3. CASE r \in FolderGroupAccessModel
      <4>1. r[2] \in Folder /\ r[3] \in Group
        BY <3>1, <3>3, RowParts
      <4>2. r = <<"folder_group", r[2], r[3]>>
        BY <3>3 DEF FolderGroupAccessModel
      <4>3. r[3] # h
        BY <1>2, <4>1, <4>2 DEF remove_group, Has
      <4>4. r \notin GroupMemberModel /\ r \notin EntryAccessModel
        BY <4>1, <4>2, RowKinds
      <4>5. QED
        BY <2>1, <2>3, <3>2, <3>3, <4>1, <4>3, <4>4 DEF RowRefs, IsFolder
    <3>4. CASE r \in GroupMemberModel
      <4>1. r[2] \in Group /\ r[2] # h
        BY <2>3, <3>1, <3>4, RowParts
      <4>2. r \notin FolderGroupAccessModel
        BY <3>4 DEF GroupMemberModel, FolderGroupAccessModel
      <4>3. QED
        BY <2>1, <2>3, <3>2, <4>1, <4>2 DEF RowRefs, IsFolder, IsEntry
    <3>5. CASE r \notin FolderGroupAccessModel /\ r \notin GroupMemberModel
      BY <2>1, <2>3, <3>5 DEF RowRefs, IsFolder, IsEntry
    <3>6. QED
      BY <3>3, <3>4, <3>5
  <2> HIDE DEF rows
  <2>4. GrantPart'
    BY <2>1, <2>3, EndedStep DEF IInv
  <2>5. RecordPart'
    BY <2>1, RecordsSame DEF IInv, RecordPart, EntryRefs, FolderRefs
  <2>6. OtherPart'
    BY <2>1, <2>2 DEF IInv, OtherPart, OwnersStay
  <2>7. QED
    BY <2>4, <2>5, <2>6 DEF IInv
<1>3. ASSUME NEW h \in Group, NEW v \in User, add_member(u, h, v)
      PROVE  IInv'
  <2> DEFINE row == <<"group", h, v>>
  <2>1. Membership \in Grant
    BY EntryAccessAssumption DEF Membership, Grant, Never
  <2>2. group[h] # "none" /\ account[v] # "gone"
    BY <1>3 DEF add_member
  <2>3. row \in Row /\ RowRefs(row) /\ row \in GroupMemberModel
    BY <2>2, RowKinds DEF RowRefs
  <2>4. Audited(row, Membership) /\ UNCHANGED <<now, account, Records, group, ready>>
    BY <1>3 DEF add_member
  <2> HIDE DEF row
  <2>5. QED
    BY <2>1, <2>3, <2>4, GrantStep
<1>4. ASSUME NEW h \in Group, NEW v \in User, remove_member(u, h, v)
      PROVE  IInv'
  BY <1>4, RevokeStep DEF remove_member
<1>5. QED
  BY <1>1, <1>2, <1>3, <1>4 DEF GroupRoutes

-----------------------------------------------------------------------------
(***************************************************************************)
(* Creating and updating entries.                                          *)
(***************************************************************************)
\* The row of an entry from its columns.
LEMMA NewRow ==
  ASSUME NEW o \in User, NEW ff \in 0..MaxFolders, NEW t \in Name \union {"none"},
         NEW b \in BOOLEAN, NEW x,
         x = [owner |-> o, folder |-> ff, text |-> t, trashed |-> b]
  PROVE  x \in EntryModel /\ x.owner = o /\ x.folder = ff /\ x.text = t
BY DEF EntryModel

\* The name that is sealed is a name, or none.
LEMMA SealedIsName ==
  ASSUME NEW u, NEW f, NEW text \in Name \union {"none"}, NEW r, Found(u, f, text, r)
  PROVE  SealedText(r, text) \in Name \union {"none"} /\ r.folder \in 0..MaxFolders
<1>1. r.folder \in 0..MaxFolders
  BY DEF Found
<1>2. ASSUME r.folder # NoFolder PROVE r.rows[r.folder].name \in Name
  <2>1. r.folder \in Folder /\ r.rows[r.folder] # NoFolderRow
    BY <1>2 DEF Found
  <2>2. r.rows[r.folder] \in FolderModel \union {NoFolderRow}
    BY <2>1 DEF Found
  <2>3. QED
    BY <2>1, <2>2 DEF FolderModel
<1>3. QED
  BY <1>1, <1>2 DEF SealedText

LEMMA CreateOK ==
  ASSUME IInv, NEW u \in User, account[u] # "gone",
         NEW f \in Folder \union {NoFolder}, NEW text \in Name \union {"none"},
         create_password(u, f, text)
  PROVE  IInv'
<1>0. PICK e, shares : e = entries + 1 /\ shares = [v \in {u} |-> "write"]
  OBVIOUS
<1> DEFINE owner == IF f # NoFolder THEN folder[f].owner ELSE OwnerId(u)
<1>b. PICK b \in BOOLEAN : b = FALSE
  OBVIOUS
<1>c. PICK r \in _folder_for(u, f, text) :
        /\ folder' = r.rows /\ folders' = r.made
        /\ entry' = [entry EXCEPT ![e] =
             [owner |-> owner, folder |-> r.folder, text |-> SealedText(r, text),
              trashed |-> b]]
        /\ entries' = e
        /\ IF u \in Service /\ r.folder = NoFolder
           THEN SharedSilently(e, shares)
           ELSE UNCHANGED Grants
  BY <1>0, <1>b DEF create_password
<1>d. PICK x : x = [owner |-> owner, folder |-> r.folder, text |-> SealedText(r, text),
                    trashed |-> b]
  OBVIOUS
<1>1. /\ folder' = r.rows /\ folders' = r.made /\ entries' = e
      /\ entry' = [entry EXCEPT ![e] = x]
  BY <1>c, <1>d
<1>2. /\ entries < MaxEntries
      /\ f # NoFolder => IsFolder(f)
      /\ UNCHANGED <<now, account, group, ready, strayed>>
  BY DEF create_password
<1>3. e \in Entry /\ e \in 0..MaxEntries /\ e > entries /\ e \in Nat
  BY <1>0, <1>2, EntryAccessAssumption DEF IInv, RecordPart, Entry
<1>4. Found(u, f, text, r)
  BY FolderFor
<1>5. owner \in User /\ account[owner] # "gone"
  <2>1. CASE f = NoFolder
    BY <2>1, EntryAccessAssumption DEF OwnerId, IInv, OtherPart, OwnersStay
  <2>2. CASE f # NoFolder
    BY <1>2, <2>2, Rows DEF IInv, RecordPart, FolderRefs
  <2>3. QED
    BY <2>1, <2>2
<1>6. SealedText(r, text) \in Name \union {"none"} /\ r.folder \in 0..MaxFolders
  BY <1>4, SealedIsName
<1>7. r.folder # NoFolder => r.rows[r.folder].owner = owner
  <2>1. CASE f # NoFolder
    BY <1>4, <2>1 DEF Found
  <2>2. CASE f = NoFolder /\ text # "none"
    <3>1. r.rows[r.folder] = [owner |-> OwnerId(u), name |-> text]
      BY <1>4, <2>2 DEF Found
    <3>2. QED
      BY <2>2, <3>1
  <2>3. CASE f = NoFolder /\ text = "none"
    BY <1>4, <2>3 DEF Found
  <2>4. QED
    BY <2>1, <2>2, <2>3
<1>8. ~IsEntry(e)
  BY <1>3 DEF IInv, RecordPart, FreshIds, IsEntry
<1> HIDE DEF owner
<1>9. /\ x \in EntryModel /\ x.owner = owner /\ x.folder = r.folder
      /\ x.text = SealedText(r, text)
  BY <1>d, <1>5, <1>6, NewRow
<1>10. /\ strayed' \subseteq Entry /\ strayed \ {e} \subseteq strayed'
       /\ UNCHANGED <<account, ready>>
       /\ entries' \in 0..MaxEntries /\ entries' >= entries /\ e <= entries'
  BY <1>1, <1>2, <1>3 DEF IInv, RecordPart
<1>a. /\ entry' \in [Entry -> EntryModel \union {NoEntry}] /\ entry'[e] = x
      /\ \A d \in Entry \ {e} : Kept(d)
  BY <1>1, <1>3, <1>9 DEF IInv, RecordPart, Kept
<1>11. /\ RecordPart'
       /\ \A d \in Entry : IsEntry(d) => IsEntry(d)'
       /\ \A h \in Folder : IsFolder(h) => IsFolder(h)'
  BY <1>a, <1>1, <1>3, <1>5, <1>7, <1>9, <1>10, FiledStep
<1>12. \A q \in Row : RowRefs(q) => RowRefs(q)'
  BY <1>2, <1>11, RefsStay
<1>13. GrantPart'
  <2>1. CASE UNCHANGED Grants
    BY <1>12, <2>1, GrantsSame DEF IInv, GrantPart
  <2>2. CASE SharedSilently(e, shares)
    <3>1. IsEntry(e)'
      <4>1. NoEntry.owner = "none"
        BY DEF NoEntry
      <4>2. QED
        BY <1>a, <1>5, <1>9, <4>1, EntryAccessAssumption DEF IsEntry
    <3>2. /\ DOMAIN shares \subseteq User
          /\ \A v \in DOMAIN shares : shares[v] \in Permission /\ account[v] # "gone"
      BY <1>0 DEF Permission
    <3>3. QED
      BY <1>2, <1>3, <1>8, <1>12, <2>2, <3>1, <3>2, SilentStep DEF IInv
  <2>3. QED
    BY <1>c, <2>1, <2>2
<1>14. OtherPart'
  BY <1>2 DEF IInv, OtherPart, OwnersStay
<1>15. QED
  BY <1>11, <1>13, <1>14 DEF IInv

\* An entry's columns change, its trash flag apart.
LEMMA ChangedRow ==
  ASSUME NEW y \in EntryModel, NEW ff \in 0..MaxFolders, NEW t \in Name \union {"none"},
         NEW x, x = [y EXCEPT !.folder = ff, !.text = t]
  PROVE  x \in EntryModel /\ x.owner = y.owner /\ x.folder = ff /\ x.text = t
BY DEF EntryModel

LEMMA UpdateOK ==
  ASSUME IInv, NEW u \in User, account[u] # "gone", NEW e \in Entry,
         NEW f \in Folder \union {NoFolder}, NEW text \in Name \union {"none"},
         update_password(u, e, f, text)
  PROVE  IInv'
<1>0. PICK asked : asked = AskedFolder(e, f, text)
  OBVIOUS
<1>1. PICK r \in _folder_for(u, asked, text) :
        /\ folder' = r.rows /\ folders' = r.made
        /\ entry' = [entry EXCEPT ![e].folder = r.folder,
                                  ![e].text = SealedText(r, text)]
        /\ strayed' = IF asked = NoFolder /\ r.folder # NoFolder
                         /\ OwnerId(u) # entry[e].owner
                      THEN strayed \union {e}
                      ELSE IF r.folder = entry[e].folder THEN strayed
                      ELSE strayed \ {e}
  BY <1>0 DEF update_password
<1>2. /\ IsEntry(e)
      /\ asked # entry[e].folder => MayMove(u, e, asked)
      /\ UNCHANGED <<now, account, entries, group, Grants, ready>>
  BY <1>0 DEF update_password
<1>3. entry[e] \in EntryModel /\ entry[e].owner \in User
  BY <1>2, Rows DEF IInv
<1>4. asked \in Folder \union {NoFolder}
  <2>1. entry[e].folder # NoFolder => entry[e].folder \in Folder
    BY <1>2 DEF IInv, RecordPart, EntryRefs, IsFolder
  <2>2. QED
    BY <1>0, <2>1 DEF AskedFolder
<1>5. f = NoFolder /\ asked # NoFolder => asked = entry[e].folder
  BY <1>0 DEF AskedFolder
<1>6. Found(u, asked, text, r)
  BY <1>4, FolderFor
<1>7. SealedText(r, text) \in Name \union {"none"} /\ r.folder \in 0..MaxFolders
  BY <1>6, SealedIsName
<1>a. PICK x : x = [entry[e] EXCEPT !.folder = r.folder, !.text = SealedText(r, text)]
  OBVIOUS
<1>8. entry' = [entry EXCEPT ![e] = x]
  BY <1>1, <1>a
<1>9. /\ x \in EntryModel /\ x.owner = entry[e].owner /\ x.folder = r.folder
      /\ x.text = SealedText(r, text)
  <2>1. PICK y \in EntryModel : y = entry[e]
    BY <1>3
  <2>2. PICK ff \in 0..MaxFolders, t \in Name \union {"none"} :
          ff = r.folder /\ t = SealedText(r, text)
    BY <1>7
  <2>3. x = [y EXCEPT !.folder = ff, !.text = t]
    BY <1>a, <2>1, <2>2, Zenon
  <2>4. x \in EntryModel /\ x.owner = y.owner /\ x.folder = ff /\ x.text = t
    BY <2>3 DEF EntryModel
  <2>5. QED
    BY <2>1, <2>2, <2>4
<1>10. account[x.owner] # "gone"
  BY <1>2, <1>9 DEF IInv, RecordPart, EntryRefs
<1>11. e \notin strayed' =>
         (r.folder # NoFolder => r.rows[r.folder].owner = entry[e].owner)
  <2>1. SUFFICES ASSUME e \notin strayed', r.folder # NoFolder
                 PROVE  r.rows[r.folder].owner = entry[e].owner
    OBVIOUS
  <2>2. CASE asked = NoFolder
    <3>1. text # "none"
      BY <1>6, <2>1, <2>2 DEF Found
    <3>2. r.rows[r.folder] = [owner |-> OwnerId(u), name |-> text]
      BY <1>6, <2>2, <3>1 DEF Found
    <3>3. OwnerId(u) = entry[e].owner
      BY <1>1, <2>1, <2>2
    <3>4. QED
      BY <3>2, <3>3
  <2>3. CASE asked # NoFolder
    <3>1. r.folder = asked /\ r.rows = folder
      BY <1>6, <2>3 DEF Found
    <3>2. CASE asked # entry[e].folder
      BY <1>2, <2>3, <3>1, <3>2 DEF MayMove
    <3>3. CASE asked = entry[e].folder
      <4>1. e \notin strayed
        BY <1>1, <2>1, <2>3, <3>1, <3>3
      <4>2. QED
        BY <2>3, <3>1, <3>3, <4>1 DEF IInv, RecordPart, EntriesFollowUnlessStrayed
    <3>4. QED
      BY <3>2, <3>3
  <2>4. QED
    BY <2>2, <2>3
<1>12. e <= entries
  BY <1>2, EntryAccessAssumption DEF IInv, RecordPart, FreshIds, IsEntry, Entry
<1>13. /\ strayed' \subseteq Entry /\ strayed \ {e} \subseteq strayed'
       /\ UNCHANGED <<account, ready>>
       /\ entries' \in 0..MaxEntries /\ entries' >= entries /\ e <= entries'
  BY <1>1, <1>2, <1>12, EntryAccessAssumption DEF IInv, RecordPart
<1>14. /\ RecordPart'
       /\ \A d \in Entry : IsEntry(d) => IsEntry(d)'
       /\ \A h \in Folder : IsFolder(h) => IsFolder(h)'
  <2>1. /\ x.folder = r.folder /\ x.text = SealedText(r, text) /\ x \in EntryModel
        /\ e \notin strayed' =>
             (x.folder # NoFolder => r.rows[x.folder].owner = x.owner)
        /\ folder' = r.rows /\ folders' = r.made
    BY <1>1, <1>9, <1>11
  <2>2. /\ entry' \in [Entry -> EntryModel \union {NoEntry}] /\ entry'[e] = x
        /\ \A d \in Entry \ {e} : Kept(d)
    BY <1>8, <1>9 DEF IInv, RecordPart, Kept
  <2>3. QED
    BY <1>4, <1>10, <1>13, <2>1, <2>2, FiledStep
<1>15. \A q \in Row : RowRefs(q) => RowRefs(q)'
  BY <1>2, <1>14, RefsStay
<1>16. GrantPart'
  BY <1>2, <1>15, GrantsSame DEF IInv, GrantPart
<1>17. OtherPart'
  BY <1>2 DEF IInv, OtherPart, OwnersStay
<1>18. QED
  BY <1>14, <1>16, <1>17 DEF IInv

-----------------------------------------------------------------------------
(***************************************************************************)
(* The trash.                                                              *)
(***************************************************************************)
\* An entry's trash flag changes.
LEMMA FlaggedRow ==
  ASSUME NEW y \in EntryModel, NEW b \in BOOLEAN, NEW x, x = [y EXCEPT !.trashed = b]
  PROVE  x \in EntryModel /\ x.owner = y.owner /\ x.folder = y.folder /\ x.text = y.text
BY DEF EntryModel

\* What import_row() does, with names for the new entry and its row.
LEMMA ImportParts ==
  ASSUME IInv, NEW u \in User, account[u] # "gone", u \notin Service,
         NEW old \in Entry \union {0},
         NEW text \in Name \union {"none"}, NEW b \in BOOLEAN, NEW shares,
         import_row(u, old, text, b, shares)
  PROVE  \E r \in _folder_for(u, NoFolder, text), e \in Entry, x \in EntryModel :
           /\ e = entries + 1 /\ entries' = e
           /\ x.owner = u /\ x.folder = r.folder /\ x.text = SealedText(r, text)
           /\ folder' = r.rows /\ folders' = r.made
           /\ entry' \in [Entry -> EntryModel \union {NoEntry}] /\ entry'[e] = x
           /\ \A d \in Entry \ {e} : Kept(d)
           /\ SharedSilently(e, shares)
<1>0. PICK e : e = entries + 1
  OBVIOUS
<1>1. PICK r \in _folder_for(u, NoFolder, text) :
        /\ folder' = r.rows /\ folders' = r.made
        /\ entry' = [d \in Entry |->
             IF d = e
             THEN [owner |-> u, folder |-> r.folder, text |-> SealedText(r, text),
                   trashed |-> b]
             ELSE IF d = old THEN [entry[d] EXCEPT !.trashed = TRUE] ELSE entry[d]]
  BY <1>0 DEF import_row
<1>2. e \in Entry
  BY <1>0, EntryAccessAssumption DEF import_row, IInv, RecordPart, Entry
<1>3. entries' = e /\ SharedSilently(e, shares)
  BY <1>0 DEF import_row
<1>4. Found(u, NoFolder, text, r)
  BY FolderFor
<1>5. SealedText(r, text) \in Name \union {"none"} /\ r.folder \in 0..MaxFolders
  BY <1>4, SealedIsName
<1>6. PICK x : x = [owner |-> u, folder |-> r.folder, text |-> SealedText(r, text),
                    trashed |-> b]
  OBVIOUS
<1>7. /\ x \in EntryModel /\ x.owner = u /\ x.folder = r.folder
      /\ x.text = SealedText(r, text)
  BY <1>5, <1>6, NewRow
<1>8. entry' = [d \in Entry |->
        IF d = e THEN x
        ELSE IF d = old THEN [entry[d] EXCEPT !.trashed = TRUE] ELSE entry[d]]
  BY <1>1, <1>6
<1>9. /\ entry' \in [Entry -> EntryModel \union {NoEntry}] /\ entry'[e] = x
      /\ \A d \in Entry \ {e} : Kept(d)
  <2>0. entry \in [Entry -> EntryModel \union {NoEntry}]
    BY DEF IInv, RecordPart
  <2>1. ASSUME NEW d \in Entry \ {e}
        PROVE  entry'[d] \in EntryModel \union {NoEntry} /\ Kept(d)
    <3>1. CASE d # old
      BY <1>8, <2>0, <3>1 DEF Kept
    <3>2. CASE d = old
      <4>1. IsEntry(d)
        BY <3>2 DEF import_row, Entry
      <4>2. PICK y \in EntryModel : y = entry[d] /\ y.owner \in User
        BY <4>1, Rows DEF IInv
      <4>a. PICK c \in BOOLEAN : c = TRUE
        BY Zenon
      <4>3. PICK z : z = [y EXCEPT !.trashed = c]
        OBVIOUS
      <4>4. /\ z \in EntryModel /\ z.owner = y.owner /\ z.folder = y.folder
            /\ z.text = y.text
        BY <4>3, FlaggedRow
      <4>5. entry'[d] = z
        <5>1. entry'[d] = [entry[d] EXCEPT !.trashed = TRUE]
          BY <1>8, <3>2, Zenon
        <5>2. QED
          BY <4>a, <4>2, <4>3, <5>1, Zenon
      <4>6. z # NoEntry /\ entry[d] # NoEntry
        <5>1. NoEntry.owner = "none"
          BY DEF NoEntry
        <5>2. QED
          BY <4>2, <4>4, <5>1, EntryAccessAssumption
      <4>7. QED
        BY <4>2, <4>4, <4>5, <4>6 DEF Kept
    <3>3. QED
      BY <3>1, <3>2
  <2>2. entry'[e] = x
    BY <1>2, <1>8
  <2>3. QED
    BY <1>2, <1>7, <1>8, <2>1, <2>2
<1>10. QED
  BY <1>0, <1>1, <1>2, <1>3, <1>7, <1>9

LEMMA ImportOK ==
  ASSUME IInv, NEW u \in User, account[u] # "gone", u \notin Service,
         NEW old \in Entry \union {0},
         NEW text \in Name \union {"none"}, NEW b \in BOOLEAN,
         NEW V \in SUBSET User, NEW shares \in [V -> Permission],
         import_row(u, old, text, b, shares)
  PROVE  IInv'
<1>1. PICK r \in _folder_for(u, NoFolder, text), e \in Entry, x \in EntryModel :
        /\ e = entries + 1 /\ entries' = e
        /\ x.owner = u /\ x.folder = r.folder /\ x.text = SealedText(r, text)
        /\ folder' = r.rows /\ folders' = r.made
        /\ entry' \in [Entry -> EntryModel \union {NoEntry}] /\ entry'[e] = x
        /\ \A d \in Entry \ {e} : Kept(d)
        /\ SharedSilently(e, shares)
  BY ImportParts
<1>2. /\ UNCHANGED <<now, account, group, ready, strayed>>
      /\ \A v \in V : account[v] # "gone"
  BY DEF import_row
<1>3. e \in 0..MaxEntries /\ e > entries
  BY <1>1, EntryAccessAssumption DEF IInv, RecordPart, Entry
<1>4. ~IsEntry(e)
  BY <1>3 DEF IInv, RecordPart, FreshIds, IsEntry
<1>5. r.folder # NoFolder => r.rows[r.folder].owner = u
  <2>1. Found(u, NoFolder, text, r)
    BY FolderFor
  <2>2. r.folder # NoFolder =>
          r.rows[r.folder] = [owner |-> OwnerId(u), name |-> text]
    BY <2>1 DEF Found
  <2>3. QED
    BY <2>2 DEF OwnerId
<1>6. /\ strayed' \subseteq Entry /\ strayed \ {e} \subseteq strayed'
      /\ UNCHANGED <<account, ready>>
      /\ entries' \in 0..MaxEntries /\ entries' >= entries /\ e <= entries'
  BY <1>1, <1>2, <1>3 DEF IInv, RecordPart
<1>7. /\ RecordPart'
      /\ \A d \in Entry : IsEntry(d) => IsEntry(d)'
      /\ \A h \in Folder : IsFolder(h) => IsFolder(h)'
  BY <1>1, <1>5, <1>6, FiledStep
<1>8. \A q \in Row : RowRefs(q) => RowRefs(q)'
  BY <1>2, <1>7, RefsStay
<1>9. IsEntry(e)'
  <2>1. NoEntry.owner = "none"
    BY DEF NoEntry
  <2>2. QED
    BY <1>1, <2>1, EntryAccessAssumption DEF IsEntry
<1>10. GrantPart'
  BY <1>1, <1>2, <1>4, <1>8, <1>9, SilentStep DEF IInv
<1>11. OtherPart'
  BY <1>2 DEF IInv, OtherPart, OwnersStay
<1>12. QED
  BY <1>7, <1>10, <1>11 DEF IInv

\* An entry in or out of the trash stays what it is otherwise.
LEMMA TrashStep ==
  ASSUME IInv, NEW e \in Entry, IsEntry(e), NEW b \in BOOLEAN,
         entry' = [entry EXCEPT ![e].trashed = b],
         UNCHANGED <<now, account, entries, folder, folders, group, Grants, ready,
                     strayed>>
  PROVE  IInv'
<1>1. PICK y \in EntryModel : y = entry[e] /\ y.owner \in User
  BY Rows DEF IInv
<1>2. PICK x : x = [y EXCEPT !.trashed = b]
  OBVIOUS
<1>3. /\ x \in EntryModel /\ x.owner = y.owner /\ x.folder = y.folder
      /\ x.text = y.text
  BY <1>2, FlaggedRow
<1>4. entry \in [Entry -> EntryModel \union {NoEntry}]
  BY DEF IInv, RecordPart
<1>5. entry' = [entry EXCEPT ![e] = x]
  BY <1>1, <1>2
<1>6. /\ entry' \in [Entry -> EntryModel \union {NoEntry}]
      /\ \A d \in Entry : d # e => entry'[d] = entry[d]
      /\ entry'[e] = x
  BY <1>3, <1>4, <1>5
<1>7. x # NoEntry
  <2>1. NoEntry.owner = "none"
    BY DEF NoEntry
  <2>2. QED
    BY <1>1, <1>3, <2>1, EntryAccessAssumption
<1>8. /\ \A d \in Entry : /\ entry'[d].owner = entry[d].owner
                          /\ entry'[d].folder = entry[d].folder
                          /\ entry'[d].text = entry[d].text
      /\ \A d \in Entry : IsEntry(d)' <=> IsEntry(d)
      /\ \A h : IsFolder(h)' <=> IsFolder(h)
  BY <1>1, <1>3, <1>6, <1>7 DEF IsEntry, IsFolder
<1>9. RecordPart'
  <2>1. EntryRefs'
    BY <1>8 DEF IInv, RecordPart, EntryRefs
  <2>2. FolderRefs' /\ FolderNamesAreUnique'
    BY <1>8 DEF IInv, RecordPart, FolderRefs, FolderNamesAreUnique
  <2>3. DocumentNamesItsFolder' /\ EntriesFollowUnlessStrayed'
    BY <1>8 DEF IInv, RecordPart, DocumentNamesItsFolder, EntriesFollowUnlessStrayed
  <2>4. FreshIds'
    BY <1>8 DEF IInv, RecordPart, FreshIds, IsEntry
  <2>5. QED
    BY <1>6, <2>1, <2>2, <2>3, <2>4 DEF IInv, RecordPart
<1>10. GrantPart'
  <2>1. \A q \in Row : RowRefs(q) => RowRefs(q)'
    BY <1>8, RefsStay
  <2>2. QED
    BY <2>1, GrantsSame DEF IInv, GrantPart
<1>11. OtherPart'
  BY DEF IInv, OtherPart, OwnersStay
<1>12. QED
  BY <1>9, <1>10, <1>11 DEF IInv

LEMMA TrashOK ==
  ASSUME IInv, NEW u \in User, NEW e \in Entry
  PROVE  /\ delete_password(u, e) => IInv'
         /\ restore_password(u, e) => IInv'
<1>1. PICK b \in BOOLEAN, c \in BOOLEAN : b = TRUE /\ c = FALSE
  OBVIOUS
<1>2. ASSUME delete_password(u, e) PROVE IInv'
  <2>1. /\ entry' = [entry EXCEPT ![e].trashed = b] /\ IsEntry(e)
        /\ UNCHANGED <<now, account, entries, folder, folders, group, Grants, ready,
                       strayed>>
    BY <1>1, <1>2 DEF delete_password
  <2>2. QED
    BY <2>1, TrashStep
<1>3. ASSUME restore_password(u, e) PROVE IInv'
  <2>1. /\ entry' = [entry EXCEPT ![e].trashed = c] /\ IsEntry(e)
        /\ UNCHANGED <<now, account, entries, folder, folders, group, Grants, ready,
                       strayed>>
    BY <1>1, <1>3 DEF restore_password
  <2>2. QED
    BY <2>1, TrashStep
<1>4. QED
  BY <1>2, <1>3

\* An entry goes with the shares of it.
LEMMA PurgeOK ==
  ASSUME IInv, NEW u \in User, NEW e \in Entry, purge_password(u, e)
  PROVE  IInv'
<1> DEFINE rows == {r \in EntryAccessModel : r[2] = e}
<1>1. /\ entry' = [entry EXCEPT ![e] = NoEntry] /\ Ended(rows)
      /\ strayed' = strayed \ {e}
      /\ UNCHANGED <<now, account, entries, folder, folders, group, ready>>
  BY DEF purge_password
<1>2. /\ entry \in [Entry -> EntryModel \union {NoEntry}]
      /\ entry' \in [Entry -> EntryModel \union {NoEntry}]
      /\ \A d \in Entry : d # e => entry'[d] = entry[d]
      /\ entry'[e] = NoEntry
  BY <1>1 DEF IInv, RecordPart
<1>3. NoEntry.folder = NoFolder
  BY DEF NoEntry
<1>4. /\ \A d \in Entry : d # e => (IsEntry(d)' <=> IsEntry(d))
      /\ ~IsEntry(e)'
      /\ \A h : IsFolder(h)' <=> IsFolder(h)
  BY <1>1, <1>2 DEF IsEntry, IsFolder
<1>5. RecordPart'
  <2>1. EntryRefs'
    BY <1>1, <1>2, <1>4 DEF IInv, RecordPart, EntryRefs
  <2>2. FolderRefs' /\ FolderNamesAreUnique'
    BY <1>1, <1>4 DEF IInv, RecordPart, FolderRefs, FolderNamesAreUnique
  <2>3. DocumentNamesItsFolder'
    BY <1>1, <1>2, <1>4 DEF IInv, RecordPart, DocumentNamesItsFolder
  <2>4. EntriesFollowUnlessStrayed'
    BY <1>1, <1>2, <1>3 DEF IInv, RecordPart, EntriesFollowUnlessStrayed
  <2>5. FreshIds'
    BY <1>1, <1>2 DEF IInv, RecordPart, FreshIds
  <2>6. QED
    BY <1>1, <1>2, <2>1, <2>2, <2>3, <2>4, <2>5 DEF IInv, RecordPart
<1>6. GrantPart'
  <2>1. ASSUME NEW q \in DOMAIN grant \ rows, RowRefs(q) PROVE RowRefs(q)'
    <3>1. q \in Row
      BY DEF IInv, GrantPart
    <3>2. q \in EntryAccessModel => q[2] \in Entry /\ q[2] # e
      BY <2>1, <3>1, RowParts
    <3>3. QED
      BY <1>1, <1>4, <2>1, <3>2 DEF RowRefs
  <2> HIDE DEF rows
  <2>2. QED
    BY <1>1, <2>1, EndedStep DEF IInv
<1>7. OtherPart'
  BY <1>1 DEF IInv, OtherPart, OwnersStay
<1>8. QED
  BY <1>5, <1>6, <1>7 DEF IInv

-----------------------------------------------------------------------------
(***************************************************************************)
(* Folders.                                                                *)
(***************************************************************************)
LEMMA CreateFolderOK ==
  ASSUME IInv, NEW u \in User, account[u] # "gone", NEW name \in Name,
         create_folder(u, name)
  PROVE  IInv'
<1>1. PICK k, row : k = folders + 1 /\ row = [owner |-> OwnerId(u), name |-> name]
  OBVIOUS
<1>2. /\ folder' = [folder EXCEPT ![k] = row] /\ folders' = k
      /\ folders < MaxFolders
      /\ \A h \in Folder : folder[h] # row
      /\ UNCHANGED <<now, account, entry, entries, group, Grants, ready, strayed>>
  BY <1>1 DEF create_folder, NameIsFree
<1>3. OwnerId(u) \in User /\ account[OwnerId(u)] # "gone"
  BY EntryAccessAssumption DEF OwnerId, IInv, OtherPart, OwnersStay
<1>4. row \in FolderModel /\ row # NoFolderRow /\ row.owner = OwnerId(u)
  BY <1>1, <1>3, EntryAccessAssumption DEF FolderModel, NoFolderRow
<1>5. /\ k \in Folder /\ k \in 0..MaxFolders /\ k > folders /\ folders \in Nat
      /\ folder \in [Folder -> FolderModel \union {NoFolderRow}]
  BY <1>1, <1>2, EntryAccessAssumption DEF IInv, RecordPart, Folder
<1>6. folder[k] = NoFolderRow
  BY <1>5 DEF IInv, RecordPart, FreshIds
<1>7. /\ folder' \in [Folder -> FolderModel \union {NoFolderRow}]
      /\ folder'[k] = row /\ \A h \in Folder : h # k => folder'[h] = folder[h]
  BY <1>2, <1>4, <1>5
<1>8. /\ \A h \in Folder : IsFolder(h)' <=> (h = k \/ IsFolder(h))
      /\ ~IsFolder(k) /\ \A e : IsEntry(e)' <=> IsEntry(e)
      /\ \A h : IsFolder(h) => h \in Folder
  BY <1>2, <1>4, <1>5, <1>6, <1>7 DEF IsFolder, IsEntry
<1>9. RecordPart'
  <2>1. EntryRefs'
    BY <1>2, <1>8 DEF IInv, RecordPart, EntryRefs
  <2>2. FolderRefs'
    BY <1>2, <1>3, <1>4, <1>7, <1>8 DEF IInv, RecordPart, FolderRefs
  <2>3. FolderNamesAreUnique'
    BY <1>2, <1>7, <1>8 DEF IInv, RecordPart, FolderNamesAreUnique
  <2>4. \A e \in Entry : IsEntry(e) /\ entry[e].folder # NoFolder =>
          folder'[entry[e].folder] = folder[entry[e].folder]
    BY <1>7, <1>8 DEF IInv, RecordPart, EntryRefs
  <2>5. DocumentNamesItsFolder'
    BY <1>2, <1>8, <2>4 DEF IInv, RecordPart, DocumentNamesItsFolder
  <2>6. EntriesFollowUnlessStrayed'
    BY <1>2, <2>4, Rows DEF IInv, RecordPart, EntriesFollowUnlessStrayed
  <2>7. FreshIds'
    <3>1. \A h \in Folder : h > k => h # k /\ h > folders
      BY <1>1, <1>5 DEF Folder
    <3>2. QED
      BY <1>2, <1>7, <3>1 DEF IInv, RecordPart, FreshIds
  <2>8. QED
    BY <1>2, <1>5, <1>7, <2>1, <2>2, <2>3, <2>5, <2>6, <2>7 DEF IInv, RecordPart
<1>10. GrantPart'
  <2>1. \A q \in Row : RowRefs(q) => RowRefs(q)'
    BY <1>2, <1>8, RefsStay
  <2>2. QED
    BY <1>2, <2>1, GrantsSame DEF IInv, GrantPart
<1>11. OtherPart'
  BY <1>2 DEF IInv, OtherPart, OwnersStay
<1>12. QED
  BY <1>9, <1>10, <1>11 DEF IInv

\* The new name of a folder is in its documents too.
LEMMA RenameFolderOK ==
  ASSUME IInv, NEW u \in User, NEW f \in Folder, NEW name \in Name,
         rename_folder(u, f, name)
  PROVE  IInv'
<1>1. /\ IsFolder(f) /\ folder[f].owner = u
      /\ folder[f].name # name => \A h \in Folder : folder[h] # [owner |-> u, name |-> name]
      /\ folder' = [folder EXCEPT ![f].name = name]
      /\ entry' = [e \in Entry |-> IF IsEntry(e) /\ entry[e].folder = f
                                   THEN [entry[e] EXCEPT !.text = name] ELSE entry[e]]
      /\ UNCHANGED <<now, account, entries, folders, group, Grants, ready, strayed>>
  BY DEF rename_folder, NameIsFree
<1>2. PICK row : row = [owner |-> u, name |-> name]
  OBVIOUS
<1>3. /\ folder \in [Folder -> FolderModel \union {NoFolderRow}]
      /\ folder[f] \in FolderModel
  BY <1>1, Rows DEF IInv, RecordPart
<1>4. row \in FolderModel /\ row # NoFolderRow /\ row.owner = u /\ row.name = name
  BY <1>2, EntryAccessAssumption DEF FolderModel, NoFolderRow
<1>5. [folder[f] EXCEPT !.name = name] = row
  BY <1>1, <1>2, <1>3 DEF FolderModel
<1>6. /\ folder' \in [Folder -> FolderModel \union {NoFolderRow}]
      /\ folder'[f] = row /\ \A h \in Folder : h # f => folder'[h] = folder[h]
  BY <1>1, <1>3, <1>4, <1>5
<1>7. \A h \in Folder : folder[h] = row => h = f
  <2>1. CASE folder[f].name # name
    BY <1>1, <1>2, <2>1
  <2>2. CASE folder[f].name = name
    <3>1. folder[f] = row
      BY <1>1, <1>2, <1>3, <2>2 DEF FolderModel
    <3>2. QED
      BY <1>1, <3>1 DEF IInv, RecordPart, FolderNamesAreUnique
  <2>3. QED
    BY <2>1, <2>2
<1>8. ASSUME NEW e \in Entry
      PROVE  /\ entry'[e] \in EntryModel \union {NoEntry}
             /\ IsEntry(e)' <=> IsEntry(e)
             /\ entry'[e].owner = entry[e].owner /\ entry'[e].folder = entry[e].folder
             /\ entry'[e].text = IF IsEntry(e) /\ entry[e].folder = f
                                 THEN name ELSE entry[e].text
  <2>1. CASE IsEntry(e) /\ entry[e].folder = f
    <3>1. PICK y \in EntryModel : y = entry[e]
      BY <2>1, Rows DEF IInv
    <3>2. PICK x : x = [y EXCEPT !.text = name]
      OBVIOUS
    <3>3. x \in EntryModel /\ x.owner = y.owner /\ x.folder = y.folder /\ x.text = name
      BY <3>2 DEF EntryModel
    <3>4. entry'[e] = x
      BY <1>1, <2>1, <3>1, <3>2
    <3>5. x # NoEntry
      <4>1. NoEntry.owner = "none"
        BY DEF NoEntry
      <4>2. y.owner \in User
        BY DEF EntryModel
      <4>3. QED
        BY <3>3, <4>1, <4>2, EntryAccessAssumption
    <3>6. QED
      BY <2>1, <3>1, <3>3, <3>4, <3>5 DEF IsEntry
  <2>2. CASE ~(IsEntry(e) /\ entry[e].folder = f)
    <3>1. entry'[e] = entry[e]
      BY <1>1, <2>2
    <3>2. QED
      BY <2>2, <3>1 DEF IInv, RecordPart, IsEntry
  <2>3. QED
    BY <2>1, <2>2
<1>9. entry' \in [Entry -> EntryModel \union {NoEntry}]
  BY <1>1, <1>8
<1>10. \A h : IsFolder(h)' <=> IsFolder(h)
  BY <1>1, <1>4, <1>6 DEF IsFolder
<1>11. RecordPart'
  <2>1. EntryRefs'
    BY <1>1, <1>8, <1>10 DEF IInv, RecordPart, EntryRefs
  <2>2. FolderRefs'
    BY <1>1, <1>4, <1>6, <1>10 DEF IInv, RecordPart, FolderRefs
  <2>3. FolderNamesAreUnique'
    BY <1>6, <1>7, <1>10 DEF IInv, RecordPart, FolderNamesAreUnique
  <2>4. \A e \in Entry : entry[e].folder # NoFolder =>
          IsEntry(e) /\ entry[e].folder \in Folder
    BY Rows DEF IInv, RecordPart, EntryRefs, IsFolder
  <2>5. DocumentNamesItsFolder'
    <3>1. SUFFICES ASSUME NEW e \in Entry, IsEntry(e)
                   PROVE  /\ entry[e].folder # NoFolder =>
                               entry'[e].text = folder'[entry[e].folder].name
                          /\ ready /\ entry[e].folder = NoFolder =>
                               entry'[e].text = "none"
      BY <1>1, <1>8 DEF DocumentNamesItsFolder
    <3>2. /\ entry[e].folder # NoFolder => entry[e].text = folder[entry[e].folder].name
          /\ ready /\ entry[e].folder = NoFolder => entry[e].text = "none"
      BY <3>1 DEF IInv, RecordPart, DocumentNamesItsFolder
    <3>3. f # NoFolder
      BY EntryAccessAssumption DEF Folder, NoFolder
    <3>4. CASE entry[e].folder = f
      BY <1>4, <1>6, <1>8, <3>1, <3>3, <3>4
    <3>5. CASE entry[e].folder # f
      BY <1>6, <1>8, <2>4, <3>2, <3>5
    <3>6. QED
      BY <3>4, <3>5
  <2>6. EntriesFollowUnlessStrayed'
    BY <1>1, <1>4, <1>6, <1>8, <2>4 DEF IInv, RecordPart, EntriesFollowUnlessStrayed
  <2>7. FreshIds'
    BY <1>1, <1>6, <1>8, <1>10 DEF IInv, RecordPart, FreshIds, IsEntry, IsFolder
  <2>8. QED
    BY <1>1, <1>6, <1>9, <2>1, <2>2, <2>3, <2>5, <2>6, <2>7 DEF IInv, RecordPart
<1>12. GrantPart'
  <2>1. \A q \in Row : RowRefs(q) => RowRefs(q)'
    BY <1>1, <1>8, <1>10, RefsStay
  <2>2. QED
    BY <1>1, <2>1, GrantsSame DEF IInv, GrantPart
<1>13. OtherPart'
  BY <1>1 DEF IInv, OtherPart, OwnersStay
<1>14. QED
  BY <1>11, <1>12, <1>13 DEF IInv

\* A folder goes with the grants on it; no entry is left in it.
LEMMA RemoveFolderOK ==
  ASSUME IInv, NEW u \in User, NEW f \in Folder, remove_folder(u, f)
  PROVE  IInv'
<1> DEFINE rows == {r \in FolderUserAccessModel \union FolderGroupAccessModel : r[2] = f}
<1>1. /\ folder' = [folder EXCEPT ![f] = NoFolderRow] /\ Ended(rows)
      /\ \A e \in Entry : entry[e].folder # f
      /\ UNCHANGED <<now, account, entry, entries, folders, group, ready, strayed>>
  BY DEF remove_folder
<1>2. /\ folder \in [Folder -> FolderModel \union {NoFolderRow}]
      /\ folder' \in [Folder -> FolderModel \union {NoFolderRow}]
      /\ folder'[f] = NoFolderRow /\ \A h \in Folder : h # f => folder'[h] = folder[h]
  BY <1>1 DEF IInv, RecordPart
<1>3. /\ \A h : IsFolder(h)' <=> h # f /\ IsFolder(h)
      /\ \A e : IsEntry(e)' <=> IsEntry(e)
  BY <1>1, <1>2 DEF IsEntry, IsFolder
<1>4. RecordPart'
  <2>1. EntryRefs'
    BY <1>1, <1>3 DEF IInv, RecordPart, EntryRefs
  <2>2. FolderRefs' /\ FolderNamesAreUnique'
    BY <1>1, <1>2, <1>3 DEF IInv, RecordPart, FolderRefs, FolderNamesAreUnique, IsFolder
  <2>3. \A e \in Entry : entry[e].folder # NoFolder =>
          folder'[entry[e].folder] = folder[entry[e].folder]
    BY <1>1, <1>2, Rows DEF IInv, RecordPart, EntryRefs, IsFolder
  <2>4. DocumentNamesItsFolder'
    BY <1>1, <1>3, <2>3 DEF IInv, RecordPart, DocumentNamesItsFolder
  <2>5. EntriesFollowUnlessStrayed'
    BY <1>1, <2>3 DEF IInv, RecordPart, EntriesFollowUnlessStrayed
  <2>6. FreshIds'
    BY <1>1, <1>2 DEF IInv, RecordPart, FreshIds
  <2>7. QED
    BY <1>1, <1>2, <2>1, <2>2, <2>4, <2>5, <2>6 DEF IInv, RecordPart
<1>5. GrantPart'
  <2>1. ASSUME NEW q \in DOMAIN grant \ rows, RowRefs(q) PROVE RowRefs(q)'
    <3>1. q \in FolderUserAccessModel \union FolderGroupAccessModel => q[2] # f
      BY <2>1
    <3>2. QED
      BY <1>1, <1>3, <2>1, <3>1 DEF RowRefs
  <2> HIDE DEF rows
  <2>2. QED
    BY <1>1, <2>1, EndedStep DEF IInv
<1>6. OtherPart'
  BY <1>1 DEF IInv, OtherPart, OwnersStay
<1>7. QED
  BY <1>4, <1>5, <1>6 DEF IInv

-----------------------------------------------------------------------------
(***************************************************************************)
(* Accounts and the clock.                                                 *)
(***************************************************************************)
\* An account is disabled or enabled: nothing refers to it less.
LEMMA UpdateUserOK ==
  ASSUME IInv, NEW u \in User, NEW v \in User, update_user(u, v)
  PROVE  IInv'
<1>1. /\ account' \in [User -> {"active", "disabled", "gone"}]
      /\ \A w \in User : account[w] # "gone" <=> account'[w] # "gone"
      /\ UNCHANGED <<now, group, ready>> /\ UNCHANGED Records /\ UNCHANGED Grants
  BY DEF update_user, IInv, OtherPart
<1>2. \A w : IsEntry(w)' <=> IsEntry(w)
  BY <1>1 DEF IsEntry, Records
<1>3. \A w : IsFolder(w)' <=> IsFolder(w)
  BY <1>1 DEF IsFolder, Records
<1>4. GrantPart'
  <2>1. \A q \in Row : RowRefs(q) => RowRefs(q)'
    BY <1>1, <1>2, <1>3, RefsStay
  <2>2. QED
    BY <1>1, <2>1, GrantsSame DEF IInv, GrantPart
<1>5. RecordPart'
  BY <1>1, Rows, RecordsSame DEF IInv, RecordPart, EntryRefs, FolderRefs
<1>6. OtherPart'
  BY <1>1, EntryAccessAssumption DEF IInv, OtherPart, OwnersStay
<1>7. QED
  BY <1>4, <1>5, <1>6 DEF IInv

\* An account that owns nothing goes with its grants and memberships.
LEMMA DeleteUserOK ==
  ASSUME IInv, NEW u \in User, NEW v \in User, delete_user(u, v)
  PROVE  IInv'
<1> DEFINE rows == {r \in Row : r[3] = v}
<1>1. /\ account' = [account EXCEPT ![v] = "gone"] /\ Ended(rows)
      /\ \A e \in Entry : entry[e].owner # v
      /\ \A f \in Folder : folder[f].owner # v
      /\ \A w \in Service : ServiceOwner[w] = v => account[w] = "gone"
      /\ UNCHANGED <<now, group, ready>> /\ UNCHANGED Records
  BY DEF delete_user
<1>2. /\ account' \in [User -> {"active", "disabled", "gone"}]
      /\ \A w \in User : w # v => account'[w] = account[w]
      /\ account'[v] = "gone"
  BY <1>1 DEF IInv, OtherPart
<1>3. /\ \A w : IsEntry(w)' <=> IsEntry(w)
      /\ \A w : IsFolder(w)' <=> IsFolder(w)
  BY <1>1 DEF IsEntry, IsFolder, Records
<1>4. GrantPart'
  <2>1. ASSUME NEW q \in DOMAIN grant \ rows, RowRefs(q) PROVE RowRefs(q)'
    <3>1. q \in Row /\ q[3] # v
      BY <2>1 DEF IInv, GrantPart
    <3>2. q \notin FolderGroupAccessModel => q[3] \in User
      BY <3>1, RowParts
    <3>3. QED
      BY <1>1, <1>2, <1>3, <2>1, <3>1, <3>2 DEF RowRefs
  <2> HIDE DEF rows
  <2>2. QED
    BY <1>1, <2>1, EndedStep DEF IInv
<1>5. RecordPart'
  <2>1. \A e \in Entry : IsEntry(e) => account'[entry[e].owner] # "gone"
    BY <1>1, <1>2, Rows DEF IInv, RecordPart, EntryRefs
  <2>2. \A f \in Folder : IsFolder(f) => account'[folder[f].owner] # "gone"
    BY <1>1, <1>2, Rows DEF IInv, RecordPart, FolderRefs
  <2>3. QED
    BY <1>1, <2>1, <2>2, RecordsSame DEF IInv
<1>6. OwnersStay'
  <2>1. SUFFICES ASSUME NEW s \in Service, account'[s] # "gone"
                 PROVE  account'[ServiceOwner[s]] # "gone"
    BY DEF OwnersStay
  <2>2. s \in User /\ ServiceOwner[s] \in User
    BY EntryAccessAssumption
  <2>3. s # v /\ account[s] # "gone"
    BY <1>2, <2>1, <2>2
  <2>4. QED
    BY <1>1, <1>2, <2>2, <2>3 DEF IInv, OtherPart, OwnersStay
<1>7. OtherPart'
  BY <1>1, <1>2, <1>6 DEF IInv, OtherPart
<1>8. QED
  BY <1>4, <1>5, <1>7 DEF IInv

LEMMA TickOK ==
  ASSUME IInv, Tick
  PROVE  IInv'
<1>1. /\ UNCHANGED <<account, group, ready>> /\ UNCHANGED Records /\ UNCHANGED Grants
      /\ now' \in 0..MaxTime
  BY EntryAccessAssumption DEF Tick, IInv, OtherPart
<1>2. /\ \A w : IsEntry(w)' <=> IsEntry(w)
      /\ \A w : IsFolder(w)' <=> IsFolder(w)
  BY <1>1 DEF IsEntry, IsFolder, Records
<1>3. GrantPart'
  <2>1. \A q \in DOMAIN grant : RowRefs(q) => RowRefs(q)'
    BY <1>1, <1>2 DEF RowRefs
  <2>2. QED
    BY <1>1, <2>1, GrantsSame DEF IInv
<1>4. RecordPart'
  BY <1>1, RecordsSame DEF IInv, RecordPart, EntryRefs, FolderRefs
<1>5. OtherPart'
  BY <1>1 DEF IInv, OtherPart, OwnersStay
<1>6. QED
  BY <1>3, <1>4, <1>5 DEF IInv

-----------------------------------------------------------------------------
(***************************************************************************)
(* The folder links of an upgraded vault.                                  *)
(***************************************************************************)
\* A set of numbers has a least one.
LEMMA Least ==
  ASSUME NEW S \in SUBSET Nat, S # {}
  PROVE  \E x \in S : \A y \in S : x <= y
<1> DEFINE R == OpToRel(<, Nat)
<1>1. IsWellFoundedOn(R, Nat)
  BY NatLessThanWellFounded
<1>2. \A a, b \in Nat : a < b => <<a, b>> \in R
  BY DEF OpToRel
<1> HIDE DEF R
<1>3. PICK x \in S : \A y \in S : ~(<<y, x>> \in R)
  BY <1>1, WFMin
<1>4. ASSUME NEW y \in S PROVE x <= y
  <2>1. x \in Nat /\ y \in Nat
    OBVIOUS
  <2>2. ~(y < x)
    BY <1>2, <1>3, <2>1
  <2>3. QED
    BY <2>1, <2>2
<1>5. QED
  BY <1>4

\* The folder an entry's document asks for is one somebody may own.
LEMMA WantedRows ==
  ASSUME IInv, NEW e \in Filed
  PROVE  /\ e \in Entry /\ IsEntry(e) /\ entry[e].text \in Name
         /\ Wanted(e) \in FolderModel /\ Wanted(e) # NoFolderRow
         /\ Wanted(e).owner = entry[e].owner /\ Wanted(e).name = entry[e].text
         /\ account[Wanted(e).owner] # "gone"
<1>1. e \in Entry /\ IsEntry(e) /\ entry[e].text # "none"
  BY DEF Filed
<1>2. entry[e] \in EntryModel /\ entry[e].owner \in User
  BY <1>1, Rows DEF IInv
<1>3. entry[e].text \in Name
  BY <1>1, <1>2 DEF EntryModel
<1>4. account[entry[e].owner] # "gone"
  BY <1>1 DEF IInv, RecordPart, EntryRefs
<1>5. QED
  BY <1>1, <1>2, <1>3, <1>4, EntryAccessAssumption DEF Wanted, FolderModel, NoFolderRow

\* Every folder that is missing has a first entry that asks for it.
LEMMA FirstAsks ==
  ASSUME NEW w \in Missing
  PROVE  FirstEntry(w) \in Filed /\ Wanted(FirstEntry(w)) = w
<1> DEFINE S == {e \in Filed : Wanted(e) = w}
<1>1. S # {} /\ S \subseteq Nat
  BY EntryAccessAssumption DEF Missing, Filed, Entry
<1>2. \E x \in S : \A y \in S : x <= y
  BY <1>1, Least
<1>3. \E e \in Filed : Wanted(e) = w /\ \A d \in Filed : Wanted(d) = w => e <= d
  BY <1>2
<1>4. QED
  BY <1>3 DEF FirstEntry

\* So there are finitely many.
LEMMA MissingFinite == IsFiniteSet(Missing)
<1> DEFINE first == [w \in Missing |-> FirstEntry(w)]
<1>1. IsFiniteSet(Entry) /\ Filed \subseteq Entry
  BY FS_Interval, EntryAccessAssumption DEF Entry, Filed
<1>2. first \in [Missing -> Entry]
  BY <1>1, FirstAsks
<1>3. \A v, w \in Missing : first[v] = first[w] => v = w
  BY FirstAsks
<1>4. first \in Injection(Missing, Entry)
  BY <1>2, <1>3 DEF Injection, IsInjective
<1>5. QED
  BY <1>1, <1>4, FS_Injection

\* Each gets an id of its own, next to the ones given out.
LEMMA NewIds ==
  ASSUME IInv
  PROVE  /\ Cardinality(Missing) \in Nat
         /\ \A w \in Missing : /\ NewFolderId(w) \in Nat
                               /\ NewFolderId(w) > folders
                               /\ NewFolderId(w) <= folders + Cardinality(Missing)
         /\ \A v, w \in Missing : NewFolderId(v) = NewFolderId(w) => v = w
<1> DEFINE Upto(w) == {v \in Missing : FirstEntry(v) <= FirstEntry(w)}
<1>1. IsFiniteSet(Missing) /\ Cardinality(Missing) \in Nat
  BY MissingFinite, FS_CardinalityType
<1>2. folders \in Nat
  BY EntryAccessAssumption DEF IInv, RecordPart
<1>3. \A w \in Missing : FirstEntry(w) \in Nat
  BY FirstAsks, EntryAccessAssumption DEF Filed, Entry
<1>4. ASSUME NEW w \in Missing
      PROVE  /\ IsFiniteSet(Upto(w)) /\ Cardinality(Upto(w)) \in Nat
             /\ Cardinality(Upto(w)) <= Cardinality(Missing)
             /\ Cardinality(Upto(w)) > 0
             /\ NewFolderId(w) = folders + Cardinality(Upto(w))
  <2>1. Upto(w) \in SUBSET Missing /\ w \in Upto(w)
    BY <1>3
  <2>2. NewFolderId(w) = folders + Cardinality(Upto(w))
    BY DEF NewFolderId
  <2> HIDE DEF Upto
  <2>3. IsFiniteSet(Upto(w)) /\ Cardinality(Upto(w)) <= Cardinality(Missing)
    BY <1>1, <2>1, FS_Subset
  <2>4. Cardinality(Upto(w)) \in Nat
    BY <2>3, FS_CardinalityType
  <2>5. Cardinality(Upto(w)) # 0
    BY <2>1, <2>3, FS_EmptySet
  <2>6. QED
    BY <2>2, <2>3, <2>4, <2>5
<1>5. ASSUME NEW v \in Missing, NEW w \in Missing, FirstEntry(v) < FirstEntry(w)
      PROVE  Cardinality(Upto(v)) # Cardinality(Upto(w))
  <2>1. Upto(v) \in SUBSET Upto(w) /\ w \notin Upto(v) /\ w \in Upto(w)
    BY <1>3, <1>5
  <2>2. IsFiniteSet(Upto(w))
    BY <1>4
  <2> HIDE DEF Upto
  <2>3. QED
    BY <2>1, <2>2, FS_Subset
<1> HIDE DEF Upto
<1>6. ASSUME NEW v \in Missing, NEW w \in Missing, NewFolderId(v) = NewFolderId(w)
      PROVE  v = w
  <2>1. Cardinality(Upto(v)) = Cardinality(Upto(w))
    BY <1>2, <1>4, <1>6
  <2>2. ~(FirstEntry(v) < FirstEntry(w)) /\ ~(FirstEntry(w) < FirstEntry(v))
    BY <1>5, <2>1
  <2>3. FirstEntry(v) = FirstEntry(w)
    BY <1>3, <2>2
  <2>4. QED
    BY <2>3, FirstAsks
<1>7. QED
  BY <1>1, <1>2, <1>4, <1>6

\* The table of folders afterwards: the old rows where they were, a new row for
\* each folder that was missing, and no two alike.
LEMMA MigratedRows ==
  ASSUME IInv, folders + Cardinality(Missing) <= MaxFolders
  PROVE  /\ \A f \in Folder : MigratedFolder(f) \in FolderModel \union {NoFolderRow}
         /\ \A f \in Folder : IsFolder(f) => MigratedFolder(f) = folder[f]
         /\ \A w \in Missing : /\ NewFolderId(w) \in Folder
                               /\ MigratedFolder(NewFolderId(w)) = w
         /\ \A f \in Folder : MigratedFolder(f) # folder[f] =>
              MigratedFolder(f) \in Missing /\ NewFolderId(MigratedFolder(f)) = f
         /\ \A f, g \in Folder : /\ MigratedFolder(f) # NoFolderRow
                                 /\ MigratedFolder(f) = MigratedFolder(g)
                                 => f = g
         /\ \A f \in Folder : f > folders + Cardinality(Missing) =>
              MigratedFolder(f) = NoFolderRow
<1>1. /\ folders \in Nat /\ MaxFolders \in Nat
      /\ folder \in [Folder -> FolderModel \union {NoFolderRow}]
      /\ \A f \in Folder : f > folders => folder[f] = NoFolderRow
      /\ \A f, g \in Folder : folder[f] # NoFolderRow /\ folder[f] = folder[g] => f = g
  BY EntryAccessAssumption
     DEF IInv, RecordPart, FreshIds, FolderNamesAreUnique, IsFolder
<1>2. /\ Cardinality(Missing) \in Nat
      /\ \A w \in Missing : /\ NewFolderId(w) \in Nat
                            /\ NewFolderId(w) > folders
                            /\ NewFolderId(w) <= folders + Cardinality(Missing)
      /\ \A v, w \in Missing : NewFolderId(v) = NewFolderId(w) => v = w
  BY NewIds
<1>3. \A w \in Missing : /\ w \in FolderModel /\ w # NoFolderRow
                         /\ \A f \in Folder : folder[f] # w
  BY WantedRows DEF Missing
<1>4. \A w \in Missing : NewFolderId(w) \in Folder
  BY <1>1, <1>2 DEF Folder
<1>5. \A w \in Missing : MigratedFolder(NewFolderId(w)) = w
  BY <1>2 DEF MigratedFolder
<1>6. ASSUME NEW f \in Folder
      PROVE  \/ MigratedFolder(f) = folder[f] /\ \A w \in Missing : NewFolderId(w) # f
             \/ MigratedFolder(f) \in Missing /\ NewFolderId(MigratedFolder(f)) = f
  BY <1>5 DEF MigratedFolder
<1>7. \A f \in Folder : IsFolder(f) => f <= folders /\ MigratedFolder(f) = folder[f]
  <2>1. ASSUME NEW f \in Folder, IsFolder(f) PROVE f <= folders
    BY <1>1, <2>1 DEF IsFolder, Folder
  <2>2. ASSUME NEW f \in Folder, IsFolder(f) PROVE MigratedFolder(f) = folder[f]
    <3>1. f \in Nat /\ f <= folders
      BY <2>1, <2>2, EntryAccessAssumption DEF Folder
    <3>2. \A w \in Missing : NewFolderId(w) # f
      BY <1>1, <1>2, <3>1
    <3>3. QED
      BY <3>2 DEF MigratedFolder
  <2>3. QED
    BY <2>1, <2>2
<1>8. ASSUME NEW f \in Folder, NEW g \in Folder, MigratedFolder(f) # NoFolderRow,
             MigratedFolder(f) = MigratedFolder(g)
      PROVE  f = g
  BY <1>1, <1>3, <1>6, <1>8
<1>9. ASSUME NEW f \in Folder, f > folders + Cardinality(Missing)
      PROVE  MigratedFolder(f) = NoFolderRow
  <2>1. f \in Nat /\ f > folders
    BY <1>1, <1>2, <1>9 DEF Folder
  <2>2. \A w \in Missing : NewFolderId(w) # f
    BY <1>1, <1>2, <1>9, <2>1
  <2>3. QED
    BY <1>1, <1>6, <2>1, <2>2
<1>10. \A f \in Folder : MigratedFolder(f) \in FolderModel \union {NoFolderRow}
  BY <1>1, <1>3, <1>6
<1>11. QED
  BY <1>4, <1>5, <1>6, <1>7, <1>8, <1>9, <1>10

\* Every entry that names a folder finds its own.
LEMMA HomeIsThere ==
  ASSUME IInv, folders + Cardinality(Missing) <= MaxFolders, NEW e \in Filed
  PROVE  HomeFolder(e) \in Folder /\ MigratedFolder(HomeFolder(e)) = Wanted(e)
<1>1. entry[e].text # "none" /\ Wanted(e) # NoFolderRow
  BY WantedRows DEF Filed
<1>2. \E f \in Folder : MigratedFolder(f) = Wanted(e)
  <2>1. CASE Wanted(e) \in Missing
    BY <2>1, MigratedRows
  <2>2. CASE Wanted(e) \notin Missing
    <3>1. PICK f \in Folder : folder[f] = Wanted(e)
      BY <2>2 DEF Missing
    <3>2. IsFolder(f)
      BY <1>1, <3>1 DEF IsFolder
    <3>3. QED
      BY <3>1, <3>2, MigratedRows
  <2>3. QED
    BY <2>1, <2>2
<1>3. QED
  BY <1>1, <1>2 DEF HomeFolder

LEMMA MigrateOK ==
  ASSUME IInv, migrate_folder_links
  PROVE  IInv'
<1>1. /\ folders + Cardinality(Missing) <= MaxFolders
      /\ folder' = [f \in Folder |-> MigratedFolder(f)]
      /\ folders' = folders + Cardinality(Missing)
      /\ entry' = [e \in Entry |->
           IF IsEntry(e) THEN [entry[e] EXCEPT !.folder = HomeFolder(e)] ELSE entry[e]]
      /\ UNCHANGED <<now, account, entries, group, strayed>> /\ UNCHANGED Grants
  BY DEF migrate_folder_links
<1>2. ready' \in BOOLEAN
  BY DEF migrate_folder_links
<1>3. /\ folder' \in [Folder -> FolderModel \union {NoFolderRow}]
      /\ \A f \in Folder : IsFolder(f) => folder'[f] = folder[f]
      /\ \A f, g \in Folder : folder'[f] # NoFolderRow /\ folder'[f] = folder'[g]
           => f = g
      /\ \A f \in Folder : f > folders' => folder'[f] = NoFolderRow
      /\ \A f \in Folder : folder'[f] # folder[f] => folder'[f] \in Missing
  <2>1. \A f \in Folder : folder'[f] = MigratedFolder(f)
    BY <1>1
  <2>2. folder' \in [Folder -> FolderModel \union {NoFolderRow}]
    BY <1>1, MigratedRows
  <2>3. QED
    BY <1>1, <2>1, <2>2, MigratedRows
<1>4. folders' \in 0..MaxFolders
  BY <1>1, NewIds, EntryAccessAssumption DEF IInv, RecordPart
<1>5. ASSUME NEW e \in Entry
      PROVE  /\ entry'[e] \in EntryModel \union {NoEntry}
             /\ IsEntry(e)' <=> IsEntry(e)
             /\ entry'[e].owner = entry[e].owner
             /\ ~IsEntry(e) => entry'[e].folder = NoFolder
             /\ IsEntry(e) => entry'[e].text = entry[e].text
             /\ IsEntry(e) /\ entry[e].text # "none" =>
                  /\ entry'[e].folder \in Folder
                  /\ folder'[entry'[e].folder] = Wanted(e)
             /\ IsEntry(e) /\ entry[e].text = "none" => entry'[e].folder = NoFolder
  <2>1. CASE IsEntry(e)
    <3>1. PICK y \in EntryModel : y = entry[e]
      BY <2>1, Rows DEF IInv
    <3>2. PICK h : h = HomeFolder(e)
      OBVIOUS
    <3>3. /\ entry[e].text = "none" => h = NoFolder
          /\ entry[e].text # "none" => h \in Folder /\ folder'[h] = Wanted(e)
      <4>1. CASE entry[e].text = "none"
        BY <3>2, <4>1 DEF HomeFolder
      <4>2. CASE entry[e].text # "none"
        <5>1. e \in Filed
          BY <2>1, <4>2 DEF Filed
        <5>2. HomeFolder(e) \in Folder /\ MigratedFolder(HomeFolder(e)) = Wanted(e)
          BY <1>1, <5>1, HomeIsThere
        <5>3. QED
          BY <1>1, <3>2, <4>2, <5>2
      <4>3. QED
        BY <4>1, <4>2
    <3>4. h \in 0..MaxFolders
      BY <3>3, EntryAccessAssumption DEF Folder, NoFolder
    <3>5. PICK x : x = [y EXCEPT !.folder = h]
      OBVIOUS
    <3>6. x \in EntryModel /\ x.owner = y.owner /\ x.folder = h /\ x.text = y.text
      BY <3>4, <3>5 DEF EntryModel
    <3>7. entry'[e] = x
      BY <1>1, <2>1, <3>1, <3>2, <3>5
    <3>8. x # NoEntry
      <4>1. NoEntry.owner = "none"
        BY DEF NoEntry
      <4>2. y.owner \in User
        BY DEF EntryModel
      <4>3. QED
        BY <3>6, <4>1, <4>2, EntryAccessAssumption
    <3>9. QED
      BY <2>1, <3>1, <3>3, <3>6, <3>7, <3>8 DEF IsEntry
  <2>2. CASE ~IsEntry(e)
    <3>1. entry'[e] = entry[e]
      BY <1>1, <2>2
    <3>2. entry[e].folder = NoFolder
      BY <2>2, Rows DEF IInv
    <3>3. QED
      BY <2>2, <3>1, <3>2 DEF IsEntry, IInv, RecordPart
  <2>3. QED
    BY <2>1, <2>2
<1>6. entry' \in [Entry -> EntryModel \union {NoEntry}]
  BY <1>1, <1>5
<1>7. NoFolder \notin Folder
  BY DEF Folder, NoFolder
<1>8. ASSUME NEW e \in Entry, IsEntry(e), entry[e].text # "none"
      PROVE  /\ IsFolder(entry[e].folder)'
             /\ folder'[entry'[e].folder].owner = entry[e].owner
             /\ folder'[entry'[e].folder].name = entry[e].text
  <2>1. e \in Filed
    BY <1>8 DEF Filed
  <2>2. /\ Wanted(e) # NoFolderRow
        /\ Wanted(e).owner = entry[e].owner /\ Wanted(e).name = entry[e].text
    BY <2>1, WantedRows
  <2>3. QED
    BY <1>5, <1>8, <2>2 DEF IsFolder
<1>9. RecordPart'
  <2>1. EntryRefs'
    BY <1>1, <1>5, <1>8 DEF IInv, RecordPart, EntryRefs
  <2>2. FolderRefs'
    <3>1. SUFFICES ASSUME NEW f \in Folder, IsFolder(f)'
                   PROVE  account[folder'[f].owner] # "gone"
      BY <1>1 DEF FolderRefs
    <3>2. CASE folder'[f] = folder[f]
      BY <3>1, <3>2 DEF IsFolder, IInv, RecordPart, FolderRefs
    <3>3. CASE folder'[f] # folder[f]
      <4>1. PICK e \in Filed : folder'[f] = Wanted(e)
        BY <1>3, <3>3 DEF Missing
      <4>2. QED
        BY <4>1, WantedRows
    <3>4. QED
      BY <3>2, <3>3
  <2>3. FolderNamesAreUnique'
    BY <1>3 DEF FolderNamesAreUnique, IsFolder
  <2>4. DocumentNamesItsFolder'
    BY <1>5, <1>7, <1>8 DEF DocumentNamesItsFolder
  <2>5. EntriesFollowUnlessStrayed'
    BY <1>5, <1>7, <1>8 DEF EntriesFollowUnlessStrayed
  <2>6. FreshIds'
    BY <1>1, <1>3, <1>5 DEF IInv, RecordPart, FreshIds, IsEntry
  <2>7. QED
    BY <1>1, <1>3, <1>4, <1>6, <2>1, <2>2, <2>3, <2>4, <2>5, <2>6 DEF IInv, RecordPart
<1>10. GrantPart'
  <2>1. \A f \in Folder : IsFolder(f) => IsFolder(f)'
    BY <1>3 DEF IsFolder
  <2>2. \A q \in Row : RowRefs(q) => RowRefs(q)'
    BY <1>1, <1>5, <2>1, RefsStay
  <2>3. QED
    BY <1>1, <2>2, GrantsSame DEF IInv, GrantPart
<1>11. OtherPart'
  BY <1>1, <1>2 DEF IInv, OtherPart, OwnersStay
<1>12. QED
  BY <1>9, <1>10, <1>11 DEF IInv

-----------------------------------------------------------------------------
(***************************************************************************)
(* The invariant.                                                          *)
(***************************************************************************)
LEMMA ActOK ==
  ASSUME IInv, NEW u \in User, Act(u)
  PROVE  IInv'
<1>1. account[u] # "gone"
  BY DEF Act, SignedIn
<1>2. CASE PasswordAccessRoutes(u)
  BY <1>2, SharesOK
<1>3. CASE PasswordRoutes(u)
  BY <1>1, <1>3, CreateOK, UpdateOK, TrashOK, PurgeOK DEF PasswordRoutes
<1>4. CASE FolderRoutes(u)
  BY <1>1, <1>4, CreateFolderOK, RenameFolderOK, RemoveFolderOK, FolderGrantsOK
     DEF FolderRoutes
<1>5. CASE GroupRoutes(u)
  BY <1>5, GroupsOK
<1>6. CASE UserRoutes(u)
  BY <1>6, UpdateUserOK, DeleteUserOK DEF UserRoutes
<1>7. CASE SignedIn(u) /\ ImportRoutes(u)
  BY <1>1, <1>7, ImportOK DEF ImportRoutes, SignedIn
<1>8. CASE McpTools(u)
  <2>1. PICK e \in Entry :
          \/ \E f \in Folder \union {NoFolder}, text \in Name \union {"none"} :
               create_password(u, f, text) \/ update_password(u, e, f, text)
          \/ delete_password(u, e)
          \/ relinquish(u, e)
    BY <1>8 DEF McpTools
  <2>2. CASE relinquish(u, e)
    BY <2>2, RevokeStep DEF relinquish
  <2>3. QED
    BY <1>1, <2>1, <2>2, CreateOK, UpdateOK, TrashOK
<1>9. QED
  BY <1>2, <1>3, <1>4, <1>5, <1>6, <1>7, <1>8 DEF Act

LEMMA StutterOK ==
  ASSUME IInv, UNCHANGED vars
  PROVE  IInv'
<1>1. UNCHANGED <<now, account, Records, group, ready>> /\ UNCHANGED Grants
  BY DEF vars, Records, Grants
<1>2. /\ \A w : IsEntry(w)' <=> IsEntry(w)
      /\ \A w : IsFolder(w)' <=> IsFolder(w)
  BY <1>1 DEF IsEntry, IsFolder, Records
<1>3. GrantPart'
  <2>1. \A q \in DOMAIN grant : RowRefs(q) => RowRefs(q)'
    BY <1>1, <1>2 DEF RowRefs
  <2>2. QED
    BY <1>1, <2>1, GrantsSame DEF IInv
<1>4. RecordPart'
  BY <1>1, RecordsSame DEF IInv, RecordPart, EntryRefs, FolderRefs
<1>5. OtherPart'
  BY <1>1 DEF IInv, OtherPart, OwnersStay
<1>6. QED
  BY <1>3, <1>4, <1>5 DEF IInv

LEMMA NextOK ==
  ASSUME IInv, [Next]_vars
  PROVE  IInv'
<1>1. ASSUME NEW u \in User, SignIn(u) PROVE IInv'
  BY <1>1, MigrateOK DEF SignIn
<1>2. QED
  BY <1>1, ActOK, TickOK, StutterOK DEF Next

\* What both kinds of vault start with.
LEMMA StartOK ==
  ASSUME Start, entry \in [Entry -> EntryModel \union {NoEntry}],
         entries \in 0..MaxEntries,
         \A e \in Entry : e > entries => entry[e] = NoEntry,
         \A e \in Entry : entry[e].folder = NoFolder,
         \A e \in Entry : IsEntry(e) => entry[e].owner \in User,
         \A e \in Entry : IsEntry(e) /\ ready => entry[e].text = "none",
         ready \in BOOLEAN
  PROVE  RecordPart /\ OtherPart
<1>1. /\ folder = [f \in Folder |-> NoFolderRow] /\ folders = 0 /\ strayed = {}
      /\ now = 0 /\ account = [u \in User |-> "active"]
      /\ group = [h \in Group |-> "none"]
  BY DEF Start
<1>2. \A f : ~IsFolder(f)
  BY <1>1 DEF IsFolder
<1>3. EntryRefs /\ FolderRefs
  BY <1>1, <1>2 DEF EntryRefs, FolderRefs
<1>4. FolderNamesAreUnique /\ DocumentNamesItsFolder /\ EntriesFollowUnlessStrayed
  BY <1>1, <1>2
     DEF FolderNamesAreUnique, DocumentNamesItsFolder, EntriesFollowUnlessStrayed
<1>5. FreshIds
  BY <1>1 DEF FreshIds
<1>6. RecordPart
  BY <1>1, <1>3, <1>4, <1>5, EntryAccessAssumption DEF RecordPart
<1>7. OtherPart
  <2>1. account \in [User -> {"active", "disabled", "gone"}]
        /\ group \in [Group -> GroupName \union {"none"}]
    BY <1>1
  <2>2. OwnersStay
    BY <1>1, EntryAccessAssumption DEF OwnersStay
  <2>3. QED
    BY <1>1, <2>1, <2>2, EntryAccessAssumption DEF OtherPart
<1>8. QED
  BY <1>6, <1>7

LEMMA InitOK ==
  ASSUME Init
  PROVE  IInv
<1>1. NoEntry.folder = NoFolder
  BY DEF NoEntry
<1>2. DOMAIN trail = {}
  BY DEF Init, NewVault, UpgradedVault, Start
<1>3. CASE NewVault
  <2>1. /\ Start /\ entry = [e \in Entry |-> NoEntry] /\ entries = 0
        /\ grant = trail /\ unaudited = {} /\ ready \in BOOLEAN
    BY <1>3 DEF NewVault
  <2>2. /\ entry \in [Entry -> EntryModel \union {NoEntry}]
        /\ \A e \in Entry : entry[e] = NoEntry /\ ~IsEntry(e)
    BY <2>1 DEF IsEntry
  <2>3. entries \in 0..MaxEntries
    BY <2>1, EntryAccessAssumption
  <2>4. RecordPart /\ OtherPart
    BY <1>1, <2>1, <2>2, <2>3, StartOK
  <2>5. GrantPart
    BY <1>2, <2>1 DEF GrantPart, TrailTellsTheGrants, GrantsFit
  <2>6. QED
    BY <2>4, <2>5 DEF IInv
<1>4. CASE UpgradedVault
  <2>1. PICK owner \in User \ Service, text \in Name \union {"none"}, b \in BOOLEAN :
          entry = [e \in Entry |-> IF e = 1
                    THEN [owner |-> owner, folder |-> NoFolder, text |-> text,
                          trashed |-> b]
                    ELSE NoEntry]
    BY <1>4 DEF UpgradedVault
  <2>2. PICK x : x = [owner |-> owner, folder |-> NoFolder, text |-> text,
                      trashed |-> b]
    OBVIOUS
  <2>3. NoFolder \in 0..MaxFolders
    BY EntryAccessAssumption DEF NoFolder
  <2>4. x \in EntryModel /\ x.owner = owner /\ x.folder = NoFolder /\ x.text = text
    BY <2>2, <2>3, NewRow
  <2>5. /\ \A e \in Entry : entry[e] = IF e = 1 THEN x ELSE NoEntry
        /\ entry \in [Entry -> EntryModel \union {NoEntry}]
    <3>1. entry = [e \in Entry |-> IF e = 1 THEN x ELSE NoEntry]
      BY <2>1, <2>2
    <3>2. QED
      BY <2>4, <3>1
  <2>6. /\ Start /\ entries = 1 /\ ready = FALSE
    BY <1>4 DEF UpgradedVault
  <2>7. PICK v \in (User \ {entry[1].owner}) \union {"none"}, p \in Permission :
          /\ unaudited = {<<"entry", 1, v>>} \intersect Row
          /\ grant = [r \in unaudited |-> [permission |-> p, expires |-> Never]]
    BY <1>4 DEF UpgradedVault
  <2>8. 1 \in Entry /\ entries \in 0..MaxEntries
    BY <2>6, EntryAccessAssumption DEF Entry
  <2>9. /\ \A e \in Entry : e > entries => entry[e] = NoEntry
        /\ \A e \in Entry : entry[e].folder = NoFolder
        /\ \A e \in Entry : IsEntry(e) => entry[e].owner \in User
        /\ \A e \in Entry : IsEntry(e) /\ ready => entry[e].text = "none"
        /\ ready \in BOOLEAN
    <3>1. \A e \in Entry : e > entries => e # 1
      BY <2>6 DEF Entry
    <3>2. ready \in BOOLEAN /\ ~ready
      BY <2>6, Zenon
    <3>3. QED
      BY <1>1, <2>4, <2>5, <3>1, <3>2 DEF IsEntry
  <2>10. RecordPart /\ OtherPart
    BY <2>5, <2>6, <2>8, <2>9, StartOK
  <2>11. IsEntry(1)
    <3>1. NoEntry.owner = "none"
      BY DEF NoEntry
    <3>2. QED
      BY <2>4, <2>5, <2>8, <3>1, EntryAccessAssumption DEF IsEntry
  <2>12. ASSUME NEW q \in unaudited PROVE RowRefs(q)
    <3>1. q = <<"entry", 1, v>> /\ q \in Row
      BY <2>7
    <3>2. q[2] = 1 /\ q[3] = v /\ q[1] = "entry"
      BY <3>1
    <3>3. /\ q \notin FolderUserAccessModel \union FolderGroupAccessModel
          /\ q \notin GroupMemberModel
      BY <3>2 DEF FolderUserAccessModel, FolderGroupAccessModel, GroupMemberModel
    <3>4. q[3] \in User
      BY <3>1, <3>3, RowParts
    <3>5. account[q[3]] # "gone"
      BY <2>6, <3>4 DEF Start
    <3>6. QED
      BY <2>11, <3>2, <3>3, <3>5 DEF RowRefs
  <2>13. GrantPart
    <3>1. [permission |-> p, expires |-> Never] \in Grant
      BY EntryAccessAssumption DEF Grant, Never
    <3>2. /\ DOMAIN grant = unaudited /\ unaudited \subseteq Row
          /\ \A q \in DOMAIN grant : grant[q] = [permission |-> p, expires |-> Never]
      BY <2>7
    <3>3. GrantsFit
      BY <3>2 DEF GrantsFit
    <3>4. TrailTellsTheGrants
      <4>1. unaudited \subseteq EntryAccessModel
        BY <2>7, <3>2 DEF Row, EntryAccessModel, FolderUserAccessModel,
                          FolderGroupAccessModel, GroupMemberModel
      <4>2. QED
        BY <1>2, <3>2, <4>1 DEF TrailTellsTheGrants
    <3>5. QED
      BY <1>2, <2>12, <3>1, <3>2, <3>3, <3>4 DEF GrantPart
  <2>14. QED
    BY <2>10, <2>13 DEF IInv
<1>5. QED
  BY <1>3, <1>4 DEF Init

\* Every reachable state of the tables satisfies the inductive invariant.
THEOREM Invariance == Spec => []IInv
<1>1. Init => IInv
  BY InitOK
<1>2. IInv /\ [Next]_vars => IInv'
  BY NextOK
<1>3. QED
  BY <1>1, <1>2, PTL DEF Spec

\* The tables obey the schema after every sequence of operations.
THEOREM AlwaysSound == Spec => []TablesAreSound
<1>1. IInv => TablesAreSound
  <2>1. IInv => TypeOK
    BY DEF IInv, GrantPart, RecordPart, OtherPart, TypeOK
  <2>2. IInv => NoDanglingRows
    BY DEF IInv, GrantPart, RecordPart, EntryRefs, FolderRefs, RowRefs, NoDanglingRows
  <2>3. QED
    BY <2>1, <2>2 DEF IInv, RecordPart, TablesAreSound
<1>2. QED
  BY <1>1, Invariance, PTL

\* The name sealed in a document is the name of the folder the entry is in.
THEOREM DocumentsAgree == Spec => []DocumentNamesItsFolder
<1>1. IInv => DocumentNamesItsFolder
  BY DEF IInv, RecordPart
<1>2. QED
  BY <1>1, Invariance, PTL

\* An entry belongs to the owner of its folder, but for the ones that somebody
\* else's update filed by name.
THEOREM EntriesFollow == Spec => []EntriesFollowUnlessStrayed
<1>1. IInv => EntriesFollowUnlessStrayed
  BY DEF IInv, RecordPart
<1>2. QED
  BY <1>1, Invariance, PTL

\* The newest audit event about a grant or a membership says what the row says.
\* Only never-expiring direct shares of entries may lack one: those from before
\* the audit, a service's on what it creates, a migration archive's.
THEOREM TrailTells == Spec => []TrailTellsTheGrants
<1>1. IInv => TrailTellsTheGrants
  BY DEF IInv, GrantPart
<1>2. QED
  BY <1>1, Invariance, PTL

-----------------------------------------------------------------------------
(***************************************************************************)
(* The four views of who has access.                                       *)
(***************************************************************************)
\* The rows of the grant tables that may give u access to an entry.
Reach(e, u) ==
  {<<"entry", e, u>>} \union
    IF entry[e].folder = NoFolder THEN {} ELSE FolderRows(entry[e].folder, u)

Granted == Row \ GroupMemberModel

\* They are rows of the three tables of grants.
LEMMA FolderReach ==
  ASSUME NEW f \in Folder, NEW u \in User
  PROVE  FolderRows(f, u) \subseteq Granted
<1>1. <<"folder_user", f, u>> \in Granted
  BY RowKinds DEF Granted
<1>2. \A g \in Group : <<"folder_group", f, g>> \in Granted
  BY RowKinds DEF Granted
<1>3. QED
  BY <1>1, <1>2 DEF FolderRows

LEMMA EntryReach ==
  ASSUME IInv, NEW e \in Entry, IsEntry(e), NEW u \in User
  PROVE  /\ Reach(e, u) \subseteq Granted
         /\ entry[e].folder # NoFolder => entry[e].folder \in Folder
<1>1. entry[e].folder # NoFolder => entry[e].folder \in Folder
  BY DEF IInv, RecordPart, EntryRefs, IsFolder
<1>2. <<"entry", e, u>> \in Granted
  BY RowKinds DEF Granted
<1>3. QED
  BY <1>1, <1>2, FolderReach DEF Reach

\* A permission is what the live rows say: reading, writing, or none at all.
LEMMA ActiveRows ==
  ASSUME IInv, NEW rows \in SUBSET Granted
  PROVE  /\ Active(rows) \subseteq Permission
         /\ _strongest(Active(rows)) \in {"none", "read", "write"}
         /\ _strongest(Active(rows)) # "none" <=> \E r \in rows : Live(r)
<1>1. \A r \in rows : Live(r) => grant[r].permission \in Permission
  BY DEF Live, Has, Granted, IInv, GrantPart, GrantsFit
<1>2. Active(rows) \subseteq Permission
  BY <1>1 DEF Active
<1>3. Active(rows) # {} <=> \E r \in rows : Live(r)
  BY DEF Active
<1>4. QED
  BY <1>2, <1>3 DEF _strongest, Permission

\* The columns of one line of the access dialog.
LEMMA SourceColumns ==
  ASSUME NEW kind, NEW g
  PROVE  /\ Source(kind, g).source = kind
         /\ Source(kind, g).permission = g.permission
         /\ Source(kind, g).expired <=> ~grant_active(g)
BY Zenon DEF Source

LEMMA OwnerColumns ==
  ASSUME NEW kind
  PROVE  OwnerSource(kind).source = kind
BY DEF OwnerSource

\* The lines that are not expired show the permissions of the live rows.
LEMMA ShownRows ==
  ASSUME NEW kind, NEW rows
  PROVE  /\ \A s \in RowSources(kind, rows) : s.source = kind
         /\ \A s \in RowSources(kind, rows) : ~s.expired =>
              s.permission \in Active(rows)
         /\ \A p \in Active(rows) : \E s \in RowSources(kind, rows) :
              ~s.expired /\ s.permission = p
<1>1. ASSUME NEW s \in RowSources(kind, rows)
      PROVE  s.source = kind /\ (~s.expired => s.permission \in Active(rows))
  <2>1. PICK r \in rows : Has(r) /\ s = Source(kind, grant[r])
    BY DEF RowSources
  <2>2. /\ s.source = kind /\ s.permission = grant[r].permission
        /\ s.expired <=> ~grant_active(grant[r])
    BY <2>1, SourceColumns, Zenon
  <2>3. QED
    BY <2>1, <2>2 DEF Active, Live
<1>2. ASSUME NEW p \in Active(rows)
      PROVE  \E s \in RowSources(kind, rows) : ~s.expired /\ s.permission = p
  <2>1. PICK r \in rows : Live(r) /\ p = grant[r].permission
    BY DEF Active
  <2>2. PICK s : s = Source(kind, grant[r])
    OBVIOUS
  <2>3. /\ s.permission = grant[r].permission
        /\ s.expired <=> ~grant_active(grant[r])
    BY <2>2, SourceColumns, Zenon
  <2>4. s \in RowSources(kind, rows)
    BY <2>1, <2>2 DEF RowSources, Live
  <2>5. QED
    BY <2>1, <2>3, <2>4 DEF Live
<1>3. QED
  BY <1>1, <1>2

\* Who is neither the owner nor the folder's has what the rows give.
LEMMA NotOwner ==
  ASSUME IInv, NEW e \in Entry, IsEntry(e), NEW u \in User, entry[e].owner # u,
         entry[e].folder # NoFolder => folder[entry[e].folder].owner # u
  PROVE  permission(e, u) = _strongest(Active(Reach(e, u)))
BY DEF permission, Reach

LEMMA IsOwner ==
  ASSUME IInv, NEW e \in Entry, IsEntry(e), NEW u \in User,
         entry[e].owner = u \/ (entry[e].folder # NoFolder /\
                                  folder[entry[e].folder].owner = u)
  PROVE  permission(e, u) = "owner"
BY DEF permission

\* The list of entries holds what one may read.
LEMMA ListAgrees ==
  ASSUME IInv, NEW e \in Entry, IsEntry(e), NEW u \in User
  PROVE  e \in visible_ids(u) <=> permission(e, u) # "none"
<1>1. CASE entry[e].owner = u \/ (entry[e].folder # NoFolder /\
                                    folder[entry[e].folder].owner = u)
  BY <1>1, IsOwner DEF visible_ids
<1>2. CASE ~(entry[e].owner = u \/ (entry[e].folder # NoFolder /\
                                      folder[entry[e].folder].owner = u))
  <2>1. permission(e, u) # "none" <=> \E r \in Reach(e, u) : Live(r)
    BY <1>2, NotOwner, EntryReach, ActiveRows
  <2>2. (\E r \in Reach(e, u) : Live(r)) <=>
          \/ Live(<<"entry", e, u>>)
          \/ /\ entry[e].folder # NoFolder
             /\ \/ Live(<<"folder_user", entry[e].folder, u>>)
                \/ \E g \in Group : /\ Live(<<"folder_group", entry[e].folder, g>>)
                                    /\ Has(<<"group", g, u>>)
    BY DEF Reach, FolderRows
  <2>3. QED
    BY <1>2, <2>1, <2>2 DEF visible_ids
<1>3. QED
  BY <1>1, <1>2

\* The sources shown for an entry add up to the permission.
LEMMA DialogAgrees ==
  ASSUME IInv, NEW e \in Entry, IsEntry(e), NEW u \in User, NEW shown,
         shown = sources(e, u)
  PROVE  permission(e, u) =
           IF \E s \in shown : s.source \in {"owner", "folder_owner"} THEN "owner"
           ELSE _strongest({s.permission : s \in {t \in shown : ~t.expired}})
<1>1. CASE entry[e].owner = u
  <2>1. OwnerSource("owner") \in shown
    BY <1>1 DEF sources
  <2>2. QED
    BY <1>1, <2>1, IsOwner, OwnerColumns
<1>2. CASE entry[e].owner # u /\ entry[e].folder # NoFolder /\
             folder[entry[e].folder].owner = u
  <2>1. OwnerSource("folder_owner") \in shown
    BY <1>2 DEF sources
  <2>2. QED
    BY <1>2, <2>1, IsOwner, OwnerColumns
<1>3. CASE entry[e].owner # u /\ ~(entry[e].folder # NoFolder /\
                                     folder[entry[e].folder].owner = u)
  <2> DEFINE direct == {<<"entry", e, u>>}
             through == IF entry[e].folder = NoFolder THEN {}
                        ELSE FolderRows(entry[e].folder, u)
             perms == {s.permission : s \in {t \in shown : ~t.expired}}
  <2>1. RowSources("folder", {}) = {}
    BY DEF RowSources
  <2>2. shown = RowSources("entry", direct) \union RowSources("folder", through)
    BY <1>3, <2>1 DEF sources
  <2>3. Active(Reach(e, u)) = Active(direct) \union Active(through)
    BY DEF Reach, Active
  <2> HIDE DEF direct, through
  <2>4. \A s \in shown : s.source \notin {"owner", "folder_owner"}
    BY <2>2, ShownRows
  <2>5. perms = Active(direct) \union Active(through)
    BY <2>2, ShownRows
  <2>6. QED
    BY <1>3, <2>3, <2>4, <2>5, NotOwner
<1>4. QED
  BY <1>1, <1>2, <1>3

\* So does the overview of a folder.
LEMMA OverviewAgrees ==
  ASSUME IInv, NEW f \in Folder, IsFolder(f), NEW u \in User
  PROVE  user_access(f, u) = IF permission_for(f, u) = "owner" THEN "write"
                             ELSE permission_for(f, u)
<1>1. CASE folder[f].owner = u
  BY <1>1 DEF user_access, permission_for
<1>2. CASE folder[f].owner # u
  <2> DEFINE shown == RowSources("folder", FolderRows(f, u))
             perms == {s.permission : s \in {t \in shown : ~t.expired}}
  <2>1. perms = Active(FolderRows(f, u))
    BY ShownRows
  <2>2. user_access(f, u) = _strongest(perms)
    BY <1>2 DEF user_access
  <2>3. _strongest(Active(FolderRows(f, u))) # "owner"
    BY FolderReach, ActiveRows
  <2> HIDE DEF perms
  <2>4. QED
    BY <1>2, <2>1, <2>2, <2>3 DEF permission_for
<1>3. QED
  BY <1>1, <1>2

\* The list, the permission check, the access dialog and the overview of an
\* administrator always agree on who has access.
THEOREM ViewsAlwaysAgree == Spec => []ViewsAgree
<1>1. ASSUME IInv PROVE ViewsAgree
  BY <1>1, ListAgrees, DialogAgrees, OverviewAgrees DEF ViewsAgree
<1>2. QED
  BY <1>1, Invariance, PTL

-----------------------------------------------------------------------------
(***************************************************************************)
(* Nobody's access grows without the owner or an administrator.            *)
(***************************************************************************)
\* A row that gives nobody access to the entry.
Elsewhere(r, e) ==
  \/ r \in EntryAccessModel /\ r[2] # e
  \/ r \in FolderUserAccessModel \union FolderGroupAccessModel /\ r[2] # entry[e].folder

\* A step that leaves the entry where it is, with its owner and its folder's,
\* and adds no row that leads to it.
Quiet(e) ==
  /\ now' = now
  /\ IsEntry(e)' => /\ entry'[e].owner = entry[e].owner
                    /\ entry'[e].folder = entry[e].folder
  /\ entry[e].folder # NoFolder =>
       folder'[entry[e].folder].owner = folder[entry[e].folder].owner
  /\ \A r \in DOMAIN grant' :
       \/ r \in DOMAIN grant /\ grant'[r] = grant[r]
       \/ Elsewhere(r, e)

\* More permissions are not fewer.
LEMMA StrongestMonotone ==
  ASSUME NEW P \in SUBSET Permission, NEW Q \in SUBSET P
  PROVE  Rank[_strongest(Q)] <= Rank[_strongest(P)]
<1>1. /\ Rank["none"] = 0 /\ Rank["read"] = 1 /\ Rank["write"] = 2
      /\ Rank["owner"] = 3
  BY DEF Rank
<1>2. QED
  BY <1>1 DEF _strongest

\* After such a step nobody can do more with the entry than before.
LEMMA QuietKeeps ==
  ASSUME IInv, IInv', NEW e \in Entry, IsEntry(e), NEW v \in User, Quiet(e)
  PROVE  ~(Rank[permission(e, v)'] > Rank[permission(e, v)])
<1>1. /\ Rank["none"] = 0 /\ Rank["read"] = 1 /\ Rank["write"] = 2
      /\ Rank["owner"] = 3
  BY DEF Rank
<1>2. CASE entry[e].owner = v \/ (entry[e].folder # NoFolder /\
                                    folder[entry[e].folder].owner = v)
  <2>1. permission(e, v) = "owner"
    BY <1>2, IsOwner
  <2>2. permission(e, v)' \in {"none", "read", "write", "owner"}
    BY DEF permission, _strongest
  <2>3. QED
    BY <1>1, <2>1, <2>2
<1>3. CASE entry[e].owner # v /\ (entry[e].folder # NoFolder =>
                                    folder[entry[e].folder].owner # v)
  <2>1. permission(e, v) = _strongest(Active(Reach(e, v)))
    BY <1>3, NotOwner
  <2>2. /\ Active(Reach(e, v)) \in SUBSET Permission
        /\ entry[e].folder # NoFolder => entry[e].folder \in Folder
    BY EntryReach, ActiveRows
  <2>3. CASE ~IsEntry(e)'
    <3>1. permission(e, v)' = "none"
      <4>1. NoEntry.folder = NoFolder /\ NoEntry.owner = "none"
        BY DEF NoEntry
      <4>2. entry'[e] = NoEntry
        BY <2>3 DEF IsEntry
      <4>3. entry'[e].folder = NoFolder /\ entry'[e].owner = "none"
        BY <4>1, <4>2
      <4>4. QED
        BY <2>3, <4>3, EntryAccessAssumption DEF permission
    <3>2. _strongest(Active(Reach(e, v))) \in {"none", "read", "write"}
      BY DEF _strongest
    <3>3. QED
      BY <1>1, <2>1, <3>1, <3>2
  <2>4. CASE IsEntry(e)'
    <3>1. /\ entry'[e].owner = entry[e].owner /\ entry'[e].folder = entry[e].folder
          /\ now' = now
          /\ entry[e].folder # NoFolder =>
               folder'[entry[e].folder].owner = folder[entry[e].folder].owner
      BY <2>4 DEF Quiet
    <3>2. permission(e, v)' = _strongest(Active(Reach(e, v))')
      BY <1>3, <2>4, <3>1 DEF permission, Reach, _strongest
    <3>3. ASSUME NEW r, ~Elsewhere(r, e), r \in DOMAIN grant'
          PROVE  r \in DOMAIN grant /\ grant'[r] = grant[r]
      BY <3>3 DEF Quiet
    <3>4. ASSUME NEW r \in Reach(e, v)', r \in DOMAIN grant'
          PROVE  /\ r \in Reach(e, v) /\ r \in DOMAIN grant /\ grant'[r] = grant[r]
      <4>1. CASE r = <<"entry", e, v>>
        <5>1. ~Elsewhere(r, e)
          BY <4>1, RowKinds DEF Elsewhere
        <5>2. QED
          BY <3>3, <3>4, <4>1, <5>1 DEF Reach
      <4>2. CASE entry[e].folder # NoFolder /\ r = <<"folder_user", entry[e].folder, v>>
        <5>1. ~Elsewhere(r, e)
          BY <2>2, <4>2, RowKinds DEF Elsewhere
        <5>2. QED
          BY <3>3, <3>4, <4>2, <5>1 DEF Reach, FolderRows
      <4>3. ASSUME NEW h \in Group, entry[e].folder # NoFolder,
                   r = <<"folder_group", entry[e].folder, h>>,
                   <<"group", h, v>> \in DOMAIN grant'
            PROVE  r \in Reach(e, v) /\ r \in DOMAIN grant /\ grant'[r] = grant[r]
        <5>1. ~Elsewhere(r, e)
          BY <2>2, <4>3, RowKinds DEF Elsewhere
        <5>2. ~Elsewhere(<<"group", h, v>>, e)
          BY RowKinds DEF Elsewhere
        <5>3. <<"group", h, v>> \in DOMAIN grant
          BY <3>3, <4>3, <5>2
        <5>4. QED
          BY <3>3, <3>4, <4>3, <5>1, <5>3 DEF Reach, FolderRows, Has
      <4>4. QED
        BY <3>1, <3>4, <4>1, <4>2, <4>3 DEF Reach, FolderRows, Has
    <3>5. Active(Reach(e, v))' \subseteq Active(Reach(e, v))
      <4>1. ASSUME NEW p \in Active(Reach(e, v))' PROVE p \in Active(Reach(e, v))
        <5>1. PICK r \in Reach(e, v)' : /\ r \in DOMAIN grant'
                                        /\ grant_active(grant[r])'
                                        /\ p = grant'[r].permission
          BY DEF Active, Live, Has
        <5>2. r \in Reach(e, v) /\ r \in DOMAIN grant /\ grant'[r] = grant[r]
          BY <3>4, <5>1
        <5>3. grant_active(grant[r])
          BY <3>1, <5>1, <5>2 DEF grant_active
        <5>4. QED
          BY <5>1, <5>2, <5>3 DEF Active, Live, Has
      <4>2. QED
        BY <4>1
    <3>6. Rank[permission(e, v)'] <= Rank[permission(e, v)]
      BY <2>1, <2>2, <3>2, <3>5, StrongestMonotone
    <3>7. /\ permission(e, v)' \in {"none", "read", "write"}
          /\ permission(e, v) \in {"none", "read", "write"}
      BY <2>1, <3>2 DEF _strongest
    <3>8. QED
      BY <1>1, <3>6, <3>7
  <2>5. QED
    BY <2>3, <2>4
<1>4. QED
  BY <1>2, <1>3

\* A row is written for an entry or a folder that is not this one.
LEMMA QuietGrant ==
  ASSUME NEW e \in Entry, NEW row, NEW g, Elsewhere(row, e), Audited(row, g),
         UNCHANGED <<now, account, Records, group, ready>>
  PROVE  Quiet(e)
BY DEF Quiet, Audited, With, Records

\* Rows go.
LEMMA QuietRevoke ==
  ASSUME NEW e \in Entry, NEW rows, Ended(rows), now' = now,
         IsEntry(e)' => entry'[e] = entry[e],
         entry[e].folder # NoFolder =>
           folder'[entry[e].folder].owner = folder[entry[e].folder].owner
  PROVE  Quiet(e)
<1>1. /\ DOMAIN grant' \subseteq DOMAIN grant
      /\ \A r \in DOMAIN grant' : grant'[r] = grant[r]
  BY DEF Ended, Without
<1>2. QED
  BY <1>1 DEF Quiet

\* The grants are left alone.
LEMMA QuietRecords ==
  ASSUME NEW e \in Entry, UNCHANGED Grants, now' = now,
         IsEntry(e)' => /\ entry'[e].owner = entry[e].owner
                        /\ entry'[e].folder = entry[e].folder,
         entry[e].folder # NoFolder =>
           folder'[entry[e].folder].owner = folder[entry[e].folder].owner
  PROVE  Quiet(e)
BY DEF Quiet, Grants

\* What an entry of somebody else looks like to u.
Foreign(e, u) ==
  /\ e \in Entry /\ IsEntry(e) /\ entry[e].owner # u
  /\ entry[e].folder # NoFolder =>
       /\ entry[e].folder \in Folder /\ IsFolder(entry[e].folder)
       /\ folder[entry[e].folder].owner # u

LEMMA NotRequired ==
  ASSUME IInv, NEW e \in Entry, IsEntry(e), NEW u \in User, ~require(e, u, "owner")
  PROVE  Foreign(e, u)
<1>1. permission(e, u) # "owner"
  BY DEF require
<1>2. entry[e].folder # NoFolder => entry[e].folder \in Folder /\ IsFolder(entry[e].folder)
  BY DEF IInv, RecordPart, EntryRefs, IsFolder
<1>3. QED
  BY <1>1, <1>2, IsOwner DEF Foreign

LEMMA SharesQuiet ==
  ASSUME IInv, NEW u \in User, NEW e \in Entry, Foreign(e, u), PasswordAccessRoutes(u)
  PROVE  Quiet(e)
<1>1. ASSUME NEW d \in Entry, NEW v \in User, NEW g \in Offered, set_share(u, d, v, g)
      PROVE  Quiet(e)
  <2>1. d # e
    <3>1. permission(d, u) = "owner"
      BY <1>1 DEF set_share, require
    <3>2. permission(e, u) # "owner"
      BY NotOwner DEF Foreign, _strongest
    <3>3. QED
      BY <3>1, <3>2
  <2>2. Elsewhere(<<"entry", d, v>>, e)
    BY <2>1, RowKinds DEF Elsewhere
  <2>3. QED
    BY <1>1, <2>2, QuietGrant DEF set_share
<1>2. ASSUME NEW d \in Entry, NEW v \in User, revoke_share(u, d, v)
      PROVE  Quiet(e)
  BY <1>2, QuietRevoke DEF revoke_share, Records
<1>3. ASSUME NEW d \in Entry, relinquish(u, d)
      PROVE  Quiet(e)
  BY <1>3, QuietRevoke DEF relinquish, Records
<1>4. QED
  BY <1>1, <1>2, <1>3 DEF PasswordAccessRoutes

\* Another entry is shared.
LEMMA QuietSilent ==
  ASSUME NEW e \in Entry, NEW d \in Entry, d # e, NEW shares,
         DOMAIN shares \subseteq User, SharedSilently(d, shares), now' = now,
         entry'[e].owner = entry[e].owner, entry'[e].folder = entry[e].folder,
         entry[e].folder # NoFolder =>
           folder'[entry[e].folder].owner = folder[entry[e].folder].owner
  PROVE  Quiet(e)
<1> DEFINE rows == {<<"entry", d, v>> : v \in DOMAIN shares}
<1>1. /\ DOMAIN grant' = DOMAIN grant \union rows
      /\ \A r \in DOMAIN grant \ rows : grant'[r] = grant[r]
  BY DEF SharedSilently
<1>2. \A r \in rows : Elsewhere(r, e)
  BY RowKinds DEF Elsewhere
<1> HIDE DEF rows
<1>3. QED
  BY <1>1, <1>2 DEF Quiet

LEMMA CreateQuiet ==
  ASSUME IInv, NEW u \in User, account[u] # "gone", NEW e \in Entry, Foreign(e, u),
         NEW f \in Folder \union {NoFolder}, NEW text \in Name \union {"none"},
         create_password(u, f, text)
  PROVE  Quiet(e)
<1>1. PICK d, shares : d = entries + 1 /\ shares = [v \in {u} |-> "write"]
  OBVIOUS
<1>2. PICK r \in _folder_for(u, f, text) :
        /\ folder' = r.rows
        /\ \E x : entry' = [entry EXCEPT ![d] = x]
        /\ SharedSilently(d, shares) \/ UNCHANGED Grants
  <2>1. PICK r \in _folder_for(u, f, text) :
          /\ folder' = r.rows
          /\ entry' = [entry EXCEPT ![d] =
               [owner |-> IF f # NoFolder THEN folder[f].owner ELSE OwnerId(u),
                folder |-> r.folder, text |-> SealedText(r, text),
                trashed |-> FALSE]]
          /\ IF u \in Service /\ r.folder = NoFolder
             THEN SharedSilently(d, shares)
             ELSE UNCHANGED Grants
    BY <1>1 DEF create_password
  <2>2. \E x : entry' = [entry EXCEPT ![d] = x]
    BY <2>1, Zenon
  <2>3. QED
    BY <2>1, <2>2
<1>3. now' = now /\ entries < MaxEntries
  BY DEF create_password
<1>4. d \in Entry /\ d # e
  BY <1>1, <1>3, EntryAccessAssumption
     DEF Foreign, IInv, RecordPart, FreshIds, IsEntry, Entry
<1>5. entry'[e] = entry[e]
  BY <1>2, <1>4 DEF IInv, RecordPart
<1>6. Found(u, f, text, r)
  BY FolderFor
<1>7. entry[e].folder # NoFolder => folder'[entry[e].folder] = folder[entry[e].folder]
  BY <1>2, <1>6 DEF Found, Foreign
<1>8. CASE UNCHANGED Grants
  BY <1>3, <1>5, <1>7, <1>8, QuietRecords
<1>9. CASE SharedSilently(d, shares)
  BY <1>1, <1>3, <1>4, <1>5, <1>7, <1>9, QuietSilent
<1>10. QED
  BY <1>2, <1>8, <1>9

LEMMA UpdateQuiet ==
  ASSUME IInv, NEW u \in User, account[u] # "gone", NEW e \in Entry, Foreign(e, u),
         entry[e].folder # NoFolder \/ entry'[e].folder = NoFolder, NEW d \in Entry,
         NEW f \in Folder \union {NoFolder}, NEW text \in Name \union {"none"},
         update_password(u, d, f, text)
  PROVE  Quiet(e)
<1>1. PICK asked : asked = AskedFolder(d, f, text)
  OBVIOUS
<1>2. PICK r \in _folder_for(u, asked, text) :
        /\ folder' = r.rows
        /\ entry' = [entry EXCEPT ![d].folder = r.folder,
                                  ![d].text = SealedText(r, text)]
  BY <1>1 DEF update_password
<1>3. /\ IsEntry(d)
      /\ asked # entry[d].folder => require(d, u, "owner")
      /\ now' = now /\ UNCHANGED Grants
  BY <1>1 DEF update_password, MayMove
<1>4. asked \in Folder \union {NoFolder}
  <2>1. entry[d].folder # NoFolder => entry[d].folder \in Folder
    BY <1>3 DEF IInv, RecordPart, EntryRefs, IsFolder
  <2>2. QED
    BY <1>1, <2>1 DEF AskedFolder
<1>5. Found(u, asked, text, r)
  BY <1>4, FolderFor
<1>6. entry[e].folder # NoFolder => folder'[entry[e].folder] = folder[entry[e].folder]
  BY <1>2, <1>5 DEF Found, Foreign
<1>7. /\ entry'[e].owner = entry[e].owner /\ entry'[e].folder = entry[e].folder
  <2>1. CASE d # e
    BY <1>2, <2>1 DEF IInv, RecordPart
  <2>2. CASE d = e
    <3>1. asked = entry[e].folder
      <4>1. permission(e, u) # "owner"
        BY NotOwner DEF Foreign, _strongest
      <4>2. QED
        BY <1>3, <2>2, <4>1 DEF require
    <3>2. entry[e] \in EntryModel
      BY Rows DEF Foreign, IInv
    <3>3. entry' = [entry EXCEPT ![e] = [entry[e] EXCEPT !.folder = r.folder,
                                                         !.text = SealedText(r, text)]]
      BY <1>2, <2>2
    <3>4. PICK y \in EntryModel : y = entry[e]
      BY <3>2
    <3>5. PICK ff, t : ff = r.folder /\ t = SealedText(r, text)
      OBVIOUS
    <3>6. PICK x : x = [y EXCEPT !.folder = ff, !.text = t]
      OBVIOUS
    <3>7. x.owner = y.owner /\ x.folder = ff
      BY <3>6 DEF EntryModel
    <3>8. entry'[e] = x
      BY <3>3, <3>4, <3>5, <3>6 DEF IInv, RecordPart
    <3>9. r.folder = entry[e].folder
      <4>1. CASE asked # NoFolder
        BY <1>5, <3>1, <4>1 DEF Found
      <4>2. CASE asked = NoFolder
        BY <3>1, <3>5, <3>7, <3>8, <4>2
      <4>3. QED
        BY <4>1, <4>2
    <3>10. QED
      BY <3>4, <3>5, <3>7, <3>8, <3>9
  <2>3. QED
    BY <2>1, <2>2
<1>8. QED
  BY <1>3, <1>6, <1>7, QuietRecords

LEMMA ImportQuiet ==
  ASSUME IInv, NEW u \in User, account[u] # "gone", u \notin Service,
         NEW e \in Entry, Foreign(e, u), NEW old \in Entry \union {0},
         NEW text \in Name \union {"none"}, NEW b \in BOOLEAN,
         NEW V \in SUBSET User, NEW shares \in [V -> Permission],
         import_row(u, old, text, b, shares)
  PROVE  Quiet(e)
<1>1. PICK r \in _folder_for(u, NoFolder, text), d \in Entry, x \in EntryModel :
        /\ d = entries + 1 /\ entries' = d
        /\ x.owner = u /\ x.folder = r.folder /\ x.text = SealedText(r, text)
        /\ folder' = r.rows /\ folders' = r.made
        /\ entry' \in [Entry -> EntryModel \union {NoEntry}] /\ entry'[d] = x
        /\ \A c \in Entry \ {d} : Kept(c)
        /\ SharedSilently(d, shares)
  BY ImportParts
<1>2. now' = now
  BY DEF import_row
<1>3. d # e
  BY <1>1, EntryAccessAssumption
     DEF Foreign, IInv, RecordPart, FreshIds, IsEntry, Entry
<1>4. entry'[e].owner = entry[e].owner /\ entry'[e].folder = entry[e].folder
  BY <1>1, <1>3 DEF Kept
<1>5. Found(u, NoFolder, text, r)
  BY FolderFor
<1>6. entry[e].folder # NoFolder => folder'[entry[e].folder] = folder[entry[e].folder]
  BY <1>1, <1>5 DEF Found, Foreign
<1>7. QED
  BY <1>1, <1>2, <1>3, <1>4, <1>6, QuietSilent

LEMMA TrashQuiet ==
  ASSUME IInv, NEW u \in User, NEW e \in Entry, Foreign(e, u), NEW d \in Entry,
         delete_password(u, d) \/ restore_password(u, d) \/ purge_password(u, d)
  PROVE  Quiet(e)
<1>1. ASSUME NEW b \in BOOLEAN, entry' = [entry EXCEPT ![d].trashed = b],
             UNCHANGED <<now, folder>>, UNCHANGED Grants, IsEntry(d)
      PROVE  Quiet(e)
  <2>1. CASE d # e
    BY <1>1, <2>1, QuietRecords DEF IInv, RecordPart
  <2>2. CASE d = e
    <3>1. PICK y \in EntryModel : y = entry[e]
      BY Rows DEF Foreign, IInv
    <3>2. PICK x : x = [y EXCEPT !.trashed = b]
      OBVIOUS
    <3>3. x.owner = y.owner /\ x.folder = y.folder
      BY <3>2, FlaggedRow
    <3>4. entry' = [entry EXCEPT ![e] = x]
      BY <1>1, <2>2, <3>1, <3>2
    <3>5. entry'[e] = x
      BY <3>4 DEF IInv, RecordPart
    <3>6. QED
      BY <1>1, <3>1, <3>3, <3>5, QuietRecords
  <2>3. QED
    BY <2>1, <2>2
<1>2. PICK b \in BOOLEAN, c \in BOOLEAN : b = TRUE /\ c = FALSE
  OBVIOUS
<1>3. CASE delete_password(u, d)
  <2>1. /\ entry' = [entry EXCEPT ![d].trashed = b] /\ IsEntry(d)
        /\ UNCHANGED <<now, folder>> /\ UNCHANGED Grants
    BY <1>2, <1>3 DEF delete_password
  <2>2. QED
    BY <1>1, <2>1
<1>4. CASE restore_password(u, d)
  <2>1. /\ entry' = [entry EXCEPT ![d].trashed = c] /\ IsEntry(d)
        /\ UNCHANGED <<now, folder>> /\ UNCHANGED Grants
    BY <1>2, <1>4 DEF restore_password
  <2>2. QED
    BY <1>1, <2>1
<1>5. CASE purge_password(u, d)
  <2>1. IsEntry(e)' => entry'[e] = entry[e]
    BY <1>5 DEF purge_password, IsEntry, IInv, RecordPart
  <2>2. QED
    BY <1>5, <2>1, QuietRevoke DEF purge_password
<1>6. QED
  BY <1>3, <1>4, <1>5

LEMMA FoldersQuiet ==
  ASSUME IInv, NEW u \in User, u \notin Admin, NEW e \in Entry, Foreign(e, u),
         FolderRoutes(u)
  PROVE  Quiet(e)
<1>0. folder \in [Folder -> FolderModel \union {NoFolderRow}]
  BY DEF IInv, RecordPart
<1>1. ASSUME NEW name \in Name, create_folder(u, name) PROVE Quiet(e)
  <2>1. entry[e].folder # NoFolder => entry[e].folder # folders + 1
    BY EntryAccessAssumption
       DEF Foreign, IInv, RecordPart, FreshIds, IsFolder, Folder
  <2>2. entry[e].folder # NoFolder => folder'[entry[e].folder] = folder[entry[e].folder]
    BY <1>0, <1>1, <2>1 DEF create_folder, Foreign
  <2>3. QED
    BY <1>1, <2>2, QuietRecords DEF create_folder
<1>2. ASSUME NEW f \in Folder, NEW name \in Name, rename_folder(u, f, name)
      PROVE  Quiet(e)
  <2>1. entry[e].folder # f
    BY <1>2, EntryAccessAssumption DEF rename_folder, Foreign, Folder, NoFolder
  <2>2. entry[e].folder # NoFolder => folder'[entry[e].folder] = folder[entry[e].folder]
    BY <1>0, <1>2, <2>1 DEF rename_folder, Foreign
  <2>3. entry'[e] = entry[e]
    BY <1>2, <2>1 DEF rename_folder
  <2>4. QED
    BY <1>2, <2>2, <2>3, QuietRecords DEF rename_folder
<1>3. ASSUME NEW f \in Folder, remove_folder(u, f) PROVE Quiet(e)
  <2>1. entry[e].folder # NoFolder => folder'[entry[e].folder] = folder[entry[e].folder]
    BY <1>0, <1>3 DEF remove_folder, Foreign
  <2>2. QED
    BY <1>3, <2>1, QuietRevoke DEF remove_folder
<1>4. ASSUME NEW f \in Folder, NEW v \in User, NEW g \in Offered,
             set_user_grant(u, f, v, g)
      PROVE  Quiet(e)
  <2>1. entry[e].folder # f
    BY <1>4 DEF set_user_grant, _require_manage, Foreign, Folder, NoFolder
  <2>2. Elsewhere(<<"folder_user", f, v>>, e)
    BY <2>1, RowKinds DEF Elsewhere
  <2>3. QED
    BY <1>4, <2>2, QuietGrant DEF set_user_grant
<1>5. ASSUME NEW f \in Folder, NEW h \in Group, NEW g \in Offered,
             set_group_grant(u, f, h, g)
      PROVE  Quiet(e)
  <2>1. entry[e].folder # f
    BY <1>5 DEF set_group_grant, _require_manage, Foreign, Folder, NoFolder
  <2>2. Elsewhere(<<"folder_group", f, h>>, e)
    BY <2>1, RowKinds DEF Elsewhere
  <2>3. QED
    BY <1>5, <2>2, QuietGrant DEF set_group_grant
<1>6. ASSUME NEW f \in Folder, NEW v \in User, revoke_user_grant(u, f, v)
      PROVE  Quiet(e)
  BY <1>6, QuietRevoke DEF revoke_user_grant, Records
<1>7. ASSUME NEW f \in Folder, NEW h \in Group, revoke_group_grant(u, f, h)
      PROVE  Quiet(e)
  BY <1>7, QuietRevoke DEF revoke_group_grant, Records
<1>8. QED
  BY <1>1, <1>2, <1>3, <1>4, <1>5, <1>6, <1>7 DEF FolderRoutes

LEMMA ActQuiet ==
  ASSUME IInv, NEW u \in User, u \notin Admin, Act(u), NEW e \in Entry, Foreign(e, u),
         entry[e].folder # NoFolder \/ entry'[e].folder = NoFolder
  PROVE  Quiet(e)
<1>1. account[u] # "gone"
  BY DEF Act, SignedIn
<1>2. CASE PasswordAccessRoutes(u)
  BY <1>2, SharesQuiet
<1>3. CASE PasswordRoutes(u)
  BY <1>1, <1>3, CreateQuiet, UpdateQuiet, TrashQuiet DEF PasswordRoutes
<1>4. CASE FolderRoutes(u)
  BY <1>4, FoldersQuiet
<1>5. CASE GroupRoutes(u) \/ UserRoutes(u)
  BY <1>5 DEF GroupRoutes, UserRoutes
<1>6. CASE McpTools(u)
  <2>1. PICK d \in Entry :
          \/ \E f \in Folder \union {NoFolder}, text \in Name \union {"none"} :
               create_password(u, f, text) \/ update_password(u, d, f, text)
          \/ delete_password(u, d)
          \/ relinquish(u, d)
    BY <1>6 DEF McpTools
  <2>2. CASE relinquish(u, d)
    BY <2>2, QuietRevoke DEF relinquish, Records
  <2>3. QED
    BY <1>1, <2>1, <2>2, CreateQuiet, UpdateQuiet, TrashQuiet
<1>7. CASE SignedIn(u) /\ ImportRoutes(u)
  BY <1>1, <1>7, ImportQuiet DEF ImportRoutes, SignedIn
<1>8. QED
  BY <1>2, <1>3, <1>4, <1>5, <1>6, <1>7 DEF Act

\* Nobody's access to an entry grows unless its owner, its folder's owner or an
\* administrator took the step (or an entry in no folder is filed).
THEOREM AccessAlwaysGranted == Spec => AccessIsGranted
<1>1. ASSUME IInv, IInv', NEW e \in Entry, NEW v \in User,
             IsEntry(e), entry[e].folder # NoFolder \/ entry'[e].folder = NoFolder,
             Rank[permission(e, v)'] > Rank[permission(e, v)],
             NEW u \in User, Act(u)
      PROVE  require(e, u, "owner") \/ u \in Admin
  <2>1. SUFFICES ASSUME ~require(e, u, "owner"), u \notin Admin PROVE FALSE
    OBVIOUS
  <2>2. Quiet(e)
    BY <1>1, <2>1, NotRequired, ActQuiet
  <2>3. QED
    BY <1>1, <2>2, QuietKeeps
<1>2. IInv /\ IInv' =>
        [\A e \in Entry, v \in User :
           /\ IsEntry(e) /\ (entry[e].folder # NoFolder \/ entry'[e].folder = NoFolder)
           /\ Rank[permission(e, v)'] > Rank[permission(e, v)]
           => \A u \in User : Act(u) => require(e, u, "owner") \/ u \in Admin]_vars
  BY <1>1
<1>3. QED
  BY <1>2, Invariance, PTL DEF AccessIsGranted

=============================================================================

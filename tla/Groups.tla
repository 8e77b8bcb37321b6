------------------------------- MODULE Groups -------------------------------
(***************************************************************************)
(* The handlers that change groups, departments and their members: for the *)
(* members themselves (api/v2/groups.go), for the administrators of the    *)
(* organisation (api/v2/org_admin_groups.go, org_admin_departments.go) and *)
(* of the platform (api/v2/admin_groups.go, departments.go), with the      *)
(* batches they share (api/v2/group_cleanup.go, write_helpers.go).  Every  *)
(* role is read from group_members before the batch is built, and no batch *)
(* has a condition.                                                        *)
(***************************************************************************)
EXTENDS Sharing

SharesKept == UNCHANGED <<lib, owner, shares, listed, custom>>
GroupsKept == UNCHANGED <<groups, byId, creator, parent, member, byMember, born>>
Fresh(S) == {x \in S : x \notin born /\ \A q \in Reqs : req[q].g # x /\ req[q].lib # x}

(* The libraries of the start belong to their owners; groups are made by requests. *)
InitWith(owners) ==
    /\ groups = {} /\ byId = {} /\ born = {l \in Libs : owners[l] # None}
    /\ creator = [g \in GroupIds |-> None] /\ parent = [g \in GroupIds |-> None]
    /\ member = [g \in GroupIds |-> [u \in Users |-> "none"]] /\ byMember = member
    /\ owner = owners /\ lib = [l \in Libs |-> IF owners[l] = None THEN "absent" ELSE "live"]
    /\ shares = {} /\ listed = {} /\ custom = [by |-> None, flags |-> {}]
    /\ req = [q \in Reqs |-> Done]

-----------------------------------------------------------------------------
(* Groups come and go. *)

CreateGroup(q) ==
    /\ Ask(q, "CreateGroup")
    /\ \E by \in Users, g \in Fresh(GroupIds) : Send(q, [kind |-> "create", g |-> g, u |-> by])

AdminCreateGroup(q) ==
    /\ Ask(q, "AdminCreateGroup")
    /\ \E by \in Staff, u \in Users, g \in Fresh(GroupIds) : Send(q, [kind |-> "create", g |-> g, u |-> u])

CreateDepartment(q) ==
    /\ Ask(q, "CreateDepartment")
    /\ \E by \in Staff, p \in groups \cup {None}, g \in Fresh(GroupIds) : Send(q, [kind |-> "create", g |-> g, u |-> by, v |-> p])

(* The parent is taken from the request as it is, and the staff become members. *)
AddOrgAddressBookGroup(q) ==
    /\ Ask(q, "AddOrgAddressBookGroup")
    /\ \E by \in Staff, u \in Users, us \in SUBSET Users, p \in (born \cap GroupIds) \cup {None}, g \in Fresh(GroupIds) :
         Send(q, [kind |-> "create", g |-> g, u |-> u, us |-> us \ {u}, v |-> p])

WriteGroup(q) ==
    LET r == req[q]
        roles == [u \in Users |-> IF u = r.u THEN "owner" ELSE IF u \in r.us THEN "member" ELSE "none"]
    IN  /\ Batch(q, "create")
        /\ groups' = groups \cup {r.g} /\ byId' = byId \cup {r.g} /\ born' = born \cup {r.g}
        /\ creator' = [creator EXCEPT ![r.g] = r.u] /\ parent' = [parent EXCEPT ![r.g] = r.v]
        /\ member' = [member EXCEPT ![r.g] = roles] /\ byMember' = [byMember EXCEPT ![r.g] = roles]
        /\ SharesKept

(* What a deletion finds: the members of the group and the shares that are listed for it. *)
loadGroupDeleteState(g) ==
    [kind |-> "deleteGroup", g |-> g, us |-> {u \in Users : member[g][u] # "none"},
     gone |-> {s \in listed : s.kind = "group" /\ s.to = g}]

DeleteGroup(q) ==
    /\ Ask(q, "DeleteGroup")
    /\ \E by \in Users, g \in groups : member[g][by] = "owner" /\ Send(q, loadGroupDeleteState(g))

AdminDeleteGroup(q) == Ask(q, "AdminDeleteGroup") /\ Staff # {} /\ \E g \in groups : Send(q, loadGroupDeleteState(g))
DeleteOrgGroup(q) == Ask(q, "DeleteOrgGroup") /\ Staff # {} /\ \E g \in groups : Send(q, loadGroupDeleteState(g))
DeleteOrgAddressBookGroup(q) == Ask(q, "DeleteOrgAddressBookGroup") /\ Staff # {} /\ \E g \in groups : Send(q, loadGroupDeleteState(g))

DeleteDepartment(q) ==
    /\ Ask(q, "DeleteDepartment") /\ Staff # {}
    /\ \E g \in groups : (\A h \in groups : parent[h] # g) /\ Send(q, loadGroupDeleteState(g))

(* The members go with their partition; the index and the shares lose the rows that were found. *)
addDeleteGroupMutationQueries(q) ==
    LET r == req[q]
    IN  /\ Batch(q, "deleteGroup")
        /\ groups' = groups \ {r.g} /\ byId' = byId \ {r.g} /\ creator' = [creator EXCEPT ![r.g] = None]
        /\ parent' = [parent EXCEPT ![r.g] = None] /\ member' = [member EXCEPT ![r.g] = [u \in Users |-> "none"]]
        /\ byMember' = [byMember EXCEPT ![r.g] = [u \in Users |-> IF u \in r.us THEN "none" ELSE @[u]]]
        /\ shares' = {s \in shares : \A t \in r.gone : s.id # t.id} /\ listed' = {s \in listed : \A t \in r.gone : s.id # t.id}
        /\ UNCHANGED <<lib, owner, custom, born>>

-----------------------------------------------------------------------------
(* Names and owners. *)

Renaming(g) == [kind |-> "rename", g |-> g, us |-> {u \in Users : member[g][u] # "none"}]

RenameGroup(q) ==
    /\ Ask(q, "RenameGroup")
    /\ \E by \in Users, g \in groups : member[g][by] \in {"owner", "admin"} /\ Send(q, Renaming(g))

UpdateDepartment(q) == Ask(q, "UpdateDepartment") /\ Staff # {} /\ \E g \in groups : Send(q, Renaming(g))
UpdateOrgAddressBookGroup(q) == Ask(q, "UpdateOrgAddressBookGroup") /\ Staff # {} /\ \E g \in groups : Send(q, Renaming(g))

(* A mutant: the members of the group lose their roles too. *)
renameMembers(q) ==
    LET r == req[q]
    IN  /\ Batch(q, "rename") /\ groups' = groups \cup {r.g} /\ byId' = byId \cup {r.g}
        /\ member' = [member EXCEPT ![r.g] = [u \in Users |-> IF u \in r.us THEN "blank" ELSE @[u]]]
        /\ UNCHANGED <<creator, parent, byMember, born>> /\ SharesKept

(* The update writes the name of the group for every member that was found, and makes the rows that are missing. *)
renameGroup(q) ==
    LET r == req[q]
    IN  /\ Batch(q, "rename") /\ groups' = groups \cup {r.g} /\ byId' = byId \cup {r.g}
        /\ byMember' = [byMember EXCEPT ![r.g] = [u \in Users |-> IF u \in r.us /\ @[u] = "none" THEN "blank" ELSE @[u]]]
        /\ UNCHANGED <<creator, parent, member, born>> /\ SharesKept

TransferGroup(q) ==
    /\ Ask(q, "TransferGroup")
    /\ \E by, u \in Users, g \in groups : member[g][by] = "owner" /\ Send(q, [kind |-> "transfer", g |-> g, u |-> by, v |-> u])

(* The administrators demote the creator that the group's row names. *)
AdminTransferGroup(q) ==
    /\ Ask(q, "AdminTransferGroup") /\ Staff # {}
    /\ \E u \in Users, g \in groups : creator[g] # None /\ Send(q, [kind |-> "transfer", g |-> g, u |-> creator[g], v |-> u])

TransferOrgGroup(q) ==
    /\ Ask(q, "TransferOrgGroup") /\ Staff # {}
    /\ \E u \in Users, g \in groups : creator[g] # None /\ Send(q, [kind |-> "transfer", g |-> g, u |-> creator[g], v |-> u])

WriteTransfer(q) ==
    LET r == req[q]
        roles == [u \in Users |-> IF u = r.v THEN "owner" ELSE IF u = r.u THEN "member" ELSE "same"]
        Put(f) == [f EXCEPT ![r.g] = [u \in Users |-> IF roles[u] = "same" THEN @[u] ELSE roles[u]]]
    IN  /\ Batch(q, "transfer") /\ groups' = groups \cup {r.g} /\ creator' = [creator EXCEPT ![r.g] = r.v]
        /\ member' = Put(member) /\ byMember' = Put(byMember)
        /\ UNCHANGED <<byId, parent, born>> /\ SharesKept

UpdateOrgGroup(q) == Ask(q, "UpdateOrgGroup") /\ Staff # {} /\ \E g \in groups : Send(q, [kind |-> "quota", g |-> g])
WriteQuota(q) == Batch(q, "quota") /\ UNCHANGED rows

-----------------------------------------------------------------------------
(* Members. *)

Put(g, u, role) == [kind |-> "upsert", g |-> g, u |-> u, role |-> role]

AddGroupMember(q) ==
    /\ Ask(q, "AddGroupMember")
    /\ \E by, u \in Users, g \in GroupIds, role \in Roles :
         member[g][by] \in {"owner", "admin"} /\ member[g][u] = "none" /\ Send(q, Put(g, u, role))

AdminAddGroupMember(q) == Ask(q, "AdminAddGroupMember") /\ Staff # {} /\ \E u \in Users, g \in byId : Send(q, Put(g, u, "member"))
AddOrgGroupMember(q) == Ask(q, "AddOrgGroupMember") /\ Staff # {} /\ \E u \in Users, g \in groups : Send(q, Put(g, u, "member"))

(* Neither looks whether the user is a member of the group, and the second not whether there is a group. *)
SetGroupAdmin(q) ==
    /\ Ask(q, "SetGroupAdmin")
    /\ \E by, u \in Users, g \in GroupIds, role \in {"member", "admin"} : member[g][by] = "owner" /\ Send(q, Put(g, u, role))

UpdateOrgGroupMember(q) ==
    /\ Ask(q, "UpdateOrgGroupMember") /\ Staff # {}
    /\ \E u \in Users, g \in born \cap GroupIds, role \in {"member", "admin"} : Send(q, Put(g, u, role))

upsertGroupMember(q) ==
    LET r == req[q]
    IN  /\ Batch(q, "upsert")
        /\ member' = [member EXCEPT ![r.g][r.u] = r.role] /\ byMember' = [byMember EXCEPT ![r.g][r.u] = r.role]
        /\ UNCHANGED <<groups, byId, creator, parent, born>> /\ SharesKept

Adding(g, us) == [kind |-> "bulk", g |-> g, us |-> us \ {u \in Users : member[g][u] # "none"}]

BulkAddGroupMembers(q) ==
    /\ Ask(q, "BulkAddGroupMembers")
    /\ \E by \in Users, us \in SUBSET Users, g \in GroupIds : member[g][by] \in {"owner", "admin"} /\ Send(q, Adding(g, us))

ImportGroupMembersViaFile(q) ==
    /\ Ask(q, "ImportGroupMembersViaFile")
    /\ \E by \in Users, us \in SUBSET Users, g \in GroupIds : member[g][by] \in {"owner", "admin"} /\ Send(q, Adding(g, us))

(* The batches of 25 rows are not logged: when one fails, any part of the rows may have been written. *)
bulkUpsertGroupMembers(q) ==
    LET r == req[q]
        Added(f, us) == [f EXCEPT ![r.g] = [u \in Users |-> IF u \in us THEN "member" ELSE @[u]]]
    IN  /\ Batch(q, "bulk") /\ member' = Added(member, r.us) /\ byMember' = Added(byMember, r.us)
        /\ UNCHANGED <<groups, byId, creator, parent, born>> /\ SharesKept

bulkUpsertFails(q) ==
    LET r == req[q]
        Added(f, us) == [f EXCEPT ![r.g] = [u \in Users |-> IF u \in us THEN "member" ELSE @[u]]]
    IN  /\ Batch(q, "bulk")
        /\ \E us, vs \in SUBSET r.us : member' = Added(member, us) /\ byMember' = Added(byMember, vs)
        /\ UNCHANGED <<groups, byId, creator, parent, born>> /\ SharesKept

RemoveGroupMember(q) ==
    /\ Ask(q, "RemoveGroupMember")
    /\ \E by, u \in Users, g \in GroupIds :
         /\ member[g][by] # "none" /\ (u = by \/ member[g][by] \in {"owner", "admin"})
         /\ member[g][u] \in {"member", "admin"} /\ Send(q, [kind |-> "remove", g |-> g, u |-> u])

AdminRemoveGroupMember(q) ==
    Ask(q, "AdminRemoveGroupMember") /\ Staff # {} /\ \E u \in Users, g \in byId : Send(q, [kind |-> "remove", g |-> g, u |-> u])
DeleteOrgGroupMember(q) ==
    Ask(q, "DeleteOrgGroupMember") /\ Staff # {} /\ \E u \in Users, g \in groups : Send(q, [kind |-> "remove", g |-> g, u |-> u])

deleteGroupMember(q) ==
    LET r == req[q]
    IN  /\ Batch(q, "remove")
        /\ member' = [member EXCEPT ![r.g][r.u] = "none"] /\ byMember' = [byMember EXCEPT ![r.g][r.u] = "none"]
        /\ UNCHANGED <<groups, byId, creator, parent, born>> /\ SharesKept

-----------------------------------------------------------------------------
(* Libraries of a group. *)

(* The rows of the library are written; its first commit and its share follow. *)
CreateGroupOwnedLibrary(q) ==
    /\ Ask(q, "CreateGroupOwnedLibrary")
    /\ \E by \in Users, g \in GroupIds, l \in Fresh(Libs) :
         /\ member[g][by] \in {"owner", "admin"}
         /\ lib' = [lib EXCEPT ![l] = "live"] /\ owner' = [owner EXCEPT ![l] = by] /\ born' = born \cup {l}
         /\ req' = [req EXCEPT ![q] = [Done EXCEPT !.kind = "init", !.g = g, !.u = by, !.lib = l]]
    /\ UNCHANGED <<groups, byId, creator, parent, member, byMember, shares, listed, custom>>

AddOrgGroupOwnedLibrary(q) ==
    /\ Ask(q, "AddOrgGroupOwnedLibrary")
    /\ \E by \in Staff, g \in groups, l \in Fresh(Libs) :
         /\ lib' = [lib EXCEPT ![l] = "live"] /\ owner' = [owner EXCEPT ![l] = by] /\ born' = born \cup {l}
         /\ req' = [req EXCEPT ![q] = [Done EXCEPT !.kind = "init", !.g = g, !.u = by, !.lib = l]]
    /\ UNCHANGED <<groups, byId, creator, parent, member, byMember, shares, listed, custom>>

(* The first commit is published and the share is next, or it is not and the rows are rolled back;
   an unknown outcome keeps the library without a share (BatchFails). *)
InitializeLibraryFS(q) ==
    /\ req[q].kind = "init" /\ "rw" \in Perms
    /\ \E i \in FreshIds :
         Send(q, [kind |-> "share", row |-> [id |-> i, lib |-> req[q].lib, by |-> req[q].u, kind |-> "group", to |-> req[q].g, perm |-> "rw"]])

rollbackNewLibrary(q) ==
    /\ Batch(q, "init") /\ lib' = [lib EXCEPT ![req[q].lib] = "absent"] /\ owner' = [owner EXCEPT ![req[q].lib] = None]
    /\ GroupsKept /\ UNCHANGED <<shares, listed, custom>>

(* The group of the request need not be the group of the library. *)
DeleteGroupOwnedLibrary(q) ==
    /\ Ask(q, "DeleteGroupOwnedLibrary")
    /\ \E by \in Users, g \in GroupIds, l \in Libs :
         /\ member[g][by] \in {"owner", "admin"} \/ owner[l] = by
         /\ lib[l] = "live" /\ Send(q, [kind |-> "trash", lib |-> l])

DeleteOrgGroupOwnedLibrary(q) ==
    Ask(q, "DeleteOrgGroupOwnedLibrary") /\ Staff # {} /\ \E l \in Libs : lib[l] = "live" /\ Send(q, [kind |-> "trash", lib |-> l])

softDeleteLibrary(q) ==
    /\ Batch(q, "trash") /\ lib' = [lib EXCEPT ![req[q].lib] = "trash"]
    /\ GroupsKept /\ UNCHANGED <<owner, shares, listed, custom>>

-----------------------------------------------------------------------------
Next == \E q \in Reqs :
    \/ BatchFails(q)
    \/ CreateShare(q) \/ createLibraryShare(q) \/ UpdateSharePermission(q) \/ updateLibrarySharePermission(q)
    \/ DeleteShare(q) \/ LeaveShareRepo(q) \/ deleteLibraryShare(q)
    \/ CreateCustomSharePermission(q) \/ UpdateCustomSharePermission(q) \/ DeleteCustomSharePermission(q) \/ WriteCustomSharePermission(q)
    \/ CreateGroup(q) \/ AdminCreateGroup(q) \/ CreateDepartment(q) \/ AddOrgAddressBookGroup(q) \/ WriteGroup(q)
    \/ DeleteGroup(q) \/ AdminDeleteGroup(q) \/ DeleteOrgGroup(q) \/ DeleteOrgAddressBookGroup(q) \/ DeleteDepartment(q)
    \/ addDeleteGroupMutationQueries(q)
    \/ RenameGroup(q) \/ UpdateDepartment(q) \/ UpdateOrgAddressBookGroup(q) \/ renameGroup(q)
    \/ TransferGroup(q) \/ AdminTransferGroup(q) \/ TransferOrgGroup(q) \/ WriteTransfer(q) \/ UpdateOrgGroup(q) \/ WriteQuota(q)
    \/ AddGroupMember(q) \/ AdminAddGroupMember(q) \/ AddOrgGroupMember(q) \/ SetGroupAdmin(q) \/ UpdateOrgGroupMember(q) \/ upsertGroupMember(q)
    \/ BulkAddGroupMembers(q) \/ ImportGroupMembersViaFile(q) \/ bulkUpsertGroupMembers(q) \/ bulkUpsertFails(q)
    \/ RemoveGroupMember(q) \/ AdminRemoveGroupMember(q) \/ DeleteOrgGroupMember(q) \/ deleteGroupMember(q)
    \/ CreateGroupOwnedLibrary(q) \/ AddOrgGroupOwnedLibrary(q) \/ InitializeLibraryFS(q) \/ rollbackNewLibrary(q)
    \/ DeleteGroupOwnedLibrary(q) \/ DeleteOrgGroupOwnedLibrary(q) \/ softDeleteLibrary(q)

-----------------------------------------------------------------------------
(* Properties. *)

(* Whoever may open a library that is not his own finds it in his list (permissions.go: GetUserLibraries against GetLibraryPermission). *)
AccessibleIsListed ==
    \A u \in Users \ Staff, l \in Libs : CanReadLibrary(u, l) => l \in GetUserLibraries(u)

(* What the lists show as shared, with a user, by a user or with a group, is shared by a row of that library, and the groups offered
   to a user are those he belongs to (file_shares.go: ListBeSharedRepos, ListSharedRepos; groups.go: getGroupRepos, ListShareableGroups). *)
ListedIsShared ==
    /\ \A u \in Users : \A l \in ListBeSharedRepos(u) : SharesFor(u, l) # {}
    /\ \A u \in Users : \A l \in ListSharedRepos(u) : \E s \in ListSharedItems(l) : s.by = u
    /\ \A g \in GroupIds : \A l \in getGroupRepos(g) : \E s \in ListSharedItems(l) : s.kind = "group" /\ s.to = g
    /\ \A u \in Users : ListShareableGroups(u) = {g \in groups : member[g][u] # "none"}

(* Whom the index by user lets in through a group is a member of that group (groups.go: RemoveGroupMember, DeleteGroup). *)
AdmittedIsMember == \A g \in GroupIds, u \in Users : byMember[g][u] # "none" => member[g][u] # "none"

(* A deletion leaves nothing shared with the group when no other request is under way (groups.go: DeleteGroup, "cleans up all related data"). *)
DeletionIsClean ==
    \A g \in groups \ groups' : (\A q \in Reqs : req'[q].kind = "none")
        => \A s \in shares' : ~(s.kind = "group" /\ s.to = g)

(* Not kept by the code (README, section 5). A group has an owner as long as it exists (groups.go: RemoveGroupMember refuses to remove the owner). *)
GroupHasOwner == \A g \in groups : \E u \in Users : member[g][u] = "owner"

(* The parent of a department exists (departments.go: CreateDepartment looks for it, DeleteDepartment refuses while there are sub-departments). *)
ParentExists == \A g \in groups : parent[g] \in groups \cup {None}

(* Not kept by the code (README, section 5). The flags of a user are the union of the flags of the shares that match him (permissions.go: GetLibraryPermissionWithFlags). *)
FlagsAreMerged ==
    \A u \in Users \ Staff, l \in Libs : lib[l] = "live" /\ owner[l] # u =>
        GetLibraryPermissionWithFlags(u, l).flags = UNION {FlagsOf(s) : s \in SharesFor(u, l)}

(* The two ways to read a permission agree on whether a user may write, and on whether he may read (permissions.go). *)
PermissionsAgree ==
    \A u \in Users, l \in Libs :
        /\ HasLibraryAccess(u, l, "rw") <=> GetLibraryPermissionRaw(u, l) >= 2
        /\ CanReadLibrary(u, l) <=> GetLibraryPermissionRaw(u, l) >= 1

(* After a share is taken back, when nothing else is under way, its recipient has no other share of that library (file_shares.go: DeleteShare). *)
RevokedIsRevoked ==
    \A q \in Reqs : req[q].kind = "unshare" /\ req'[q].kind = "none" /\ shares' # shares /\ (\A p \in Reqs : req'[p].kind = "none")
        => \A s \in shares' : ~(s.lib = req[q].row.lib /\ s.kind = req[q].row.kind /\ s.to = req[q].row.to)

=============================================================================

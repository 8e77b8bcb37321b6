------------------------------ MODULE Sharing ------------------------------
(***************************************************************************)
(* Who may open a library: the rows that the permission middleware reads   *)
(* (middleware/permissions.go) and the handlers that share a library       *)
(* (api/v2/file_shares.go, api/v2/write_helpers.go).  Groups extends this  *)
(* module with the handlers that change the groups.                        *)
(*                                                                         *)
(* A handler reads what it needs, decides, and then runs one batch: the    *)
(* reads are one step, the batch (Apply of its kind) is a later one, and   *)
(* other requests run in between.  A batch is applied whole or fails.      *)
(* Names, times and e-mail addresses are left out; the requests that       *)
(* clients make are those named in Calls.                                  *)
(***************************************************************************)
EXTENDS Integers, FiniteSets, FiniteSetsExt

CONSTANTS Users, Staff, GroupIds, Libs, Ids, Perms, CustomSets, Reqs, Calls, None

SharingAssumption == Staff \subseteq Users /\ Ids \subseteq Nat

VARIABLES groups,   \* rows of groups
          byId,     \* rows of groups_by_id
          creator,  \* creator_id of a group
          parent,   \* parent_group_id of a department
          member,   \* group_members: the role of each user in each group
          byMember, \* groups_by_member, the index by user ("blank": a row without a role)
          lib,      \* a library is absent, live or in the trash
          owner,    \* owner_id of a library
          shares,   \* rows of shares
          listed,   \* rows of shares_by_recipient and shares_by_group
          custom,   \* the custom permission: its creator and its flags
          born,     \* ghost: group and library ids that were handed out
          req       \* the batch each request is about to run

rows == <<groups, byId, creator, parent, member, byMember, lib, owner, shares, listed, custom, born>>
vars == <<rows, req>>

Flags == {"upload", "download", "create", "modify", "copy", "delete", "preview", "link"}
Roles == {"member", "admin", "owner"}
ShareRows == [id : Ids, lib : Libs, by : Users \cup {None}, kind : {"user", "group", "blank"}, to : Users \cup GroupIds \cup {None}, perm : Perms]
NoRow == [id |-> CHOOSE i \in Ids : TRUE, lib |-> CHOOSE l \in Libs : TRUE, by |-> None, kind |-> "blank", to |-> None, perm |-> CHOOSE p \in Perms : TRUE]
Done == [kind |-> "none", g |-> None, u |-> None, v |-> None, role |-> "none", us |-> {}, gone |-> {}, row |-> NoRow, lib |-> None, set |-> {}]

TypeOK ==
    /\ groups \subseteq GroupIds /\ byId \subseteq GroupIds /\ born \subseteq GroupIds \cup Libs
    /\ creator \in [GroupIds -> Users \cup {None}] /\ parent \in [GroupIds -> GroupIds \cup {None}]
    /\ member \in [GroupIds -> [Users -> Roles \cup {"none"}]]
    /\ byMember \in [GroupIds -> [Users -> Roles \cup {"none", "blank"}]]
    /\ lib \in [Libs -> {"absent", "live", "trash"}] /\ owner \in [Libs -> Users \cup {None}]
    /\ shares \subseteq ShareRows /\ listed \subseteq ShareRows
    /\ custom.by \in Users \cup {None} /\ custom.flags \subseteq Flags
    /\ req \in [Reqs -> [kind : {"none", "create", "transfer", "deleteGroup", "upsert", "remove", "bulk", "rename", "quota",
                                 "share", "update", "unshare", "trash", "init", "custom"},
                         g : GroupIds \cup {None}, u : Users \cup {None}, v : Users \cup GroupIds \cup {None}, role : Roles \cup {"none"},
                         us : SUBSET Users, gone : SUBSET ShareRows, row : ShareRows, lib : Libs \cup {None}, set : SUBSET Flags]]

-----------------------------------------------------------------------------
(* What the middleware reads. *)

Level(p) == CASE p = "owner" -> 3 [] p \in {"admin", "rw", "cloud-edit"} -> 2 [] p \in {"r", "preview"} -> 1 [] OTHER -> 0

FlagsForPermission(p) ==
    CASE p \in {"owner", "admin", "rw"} -> Flags
      [] p = "cloud-edit" -> {"upload", "create", "modify", "delete", "preview"}
      [] p = "r" -> {"download", "preview", "copy", "link"}
      [] p = "preview" -> {"preview"}
      [] OTHER -> {}

resolveCustomPermWithFlags(f) ==
    CASE f \cap {"upload", "modify", "delete"} # {} -> "rw"
      [] f \cap {"download", "copy"} # {} -> "r"
      [] "preview" \in f -> "preview"
      [] OTHER -> "none"

PermOf(s) == IF s.perm = "custom" THEN resolveCustomPermWithFlags(custom.flags) ELSE s.perm
FlagsOf(s) == IF s.perm = "custom" THEN custom.flags ELSE FlagsForPermission(s.perm)

Matches(s, u) == \/ s.kind = "user" /\ s.to = u
                 \/ s.kind = "group" /\ byMember[s.to][u] # "none"

SharesFor(u, l) == {s \in shares : s.lib = l /\ Matches(s, u)}
First(S) == CHOOSE s \in S : \A t \in S : s.id <= t.id
Last(S) == CHOOSE s \in S : \A t \in S : t.id <= s.id

(* The rows come in the order of their ids: the first full one ends the loop, and otherwise the last of the highest wins. *)
GetLibraryPermissionWithFlags(u, l) ==
    LET S == SharesFor(u, l)
        full == {s \in S : PermOf(s) \in {"rw", "admin"} /\ {"upload", "download"} \subseteq FlagsOf(s)}
        top == {s \in S : Level(PermOf(s)) > 0 /\ \A t \in S : Level(PermOf(t)) <= Level(PermOf(s))}
    IN  CASE lib[l] # "live" -> [perm |-> "none", flags |-> {}]
          [] lib[l] = "live" /\ (u \in Staff \/ owner[l] = u) -> [perm |-> "owner", flags |-> Flags]
          [] OTHER -> IF full # {} THEN [perm |-> PermOf(First(full)), flags |-> Flags]
                      ELSE IF top # {} THEN [perm |-> PermOf(Last(top)), flags |-> UNION {FlagsOf(s) : s \in S}]
                      ELSE [perm |-> "none", flags |-> {}]

HasLibraryAccess(u, l, p) == Level(GetLibraryPermissionWithFlags(u, l).perm) >= Level(p)
CanReadLibrary(u, l) == GetLibraryPermissionWithFlags(u, l).perm # "none"

RawLevel(p) == CASE p = "owner" -> 4 [] p \in {"admin", "rw"} -> 3 [] p = "cloud-edit" -> 2 [] p \in {"r", "preview"} -> 1 [] OTHER -> 0

(* The level of the permission that the library list shows for one library. *)
GetLibraryPermissionRaw(u, l) ==
    IF lib[l] # "live" THEN 0
    ELSE IF u \in Staff \/ owner[l] = u THEN 3
    ELSE Max({0} \cup {RawLevel(PermOf(s)) : s \in SharesFor(u, l)})

(* The libraries that the list of a user holds, taken from the rows by recipient. *)
addRecipientSharedLibraries(kind, to) == {s.lib : s \in {t \in listed : t.kind = kind /\ t.to = to}}
GetUserLibraries(u) ==
    {l \in Libs : owner[l] = u /\ lib[l] = "live"} \cup addRecipientSharedLibraries("user", u)
        \cup UNION {addRecipientSharedLibraries("group", g) : g \in {h \in GroupIds : byMember[h][u] # "none"}}

ListBeSharedRepos(u) == {l \in Libs : lib[l] # "absent" /\ \E s \in listed : s.lib = l /\ Matches(s, u)}
ListSharedRepos(u) == {s.lib : s \in {t \in listed : t.by = u /\ lib[t.lib] # "absent"}}
ListSharedItems(l) == {s \in shares : s.lib = l}
getGroupRepos(g) == {s.lib : s \in {t \in listed : t.kind = "group" /\ t.to = g}}
ListShareableGroups(u) == {g \in groups : byMember[g][u] # "none"}

-----------------------------------------------------------------------------
(* Requests. *)

Ask(q, name) == name \in Calls /\ req[q].kind = "none"
Send(q, batch) == /\ req' = [req EXCEPT ![q] = [f \in DOMAIN Done |-> IF f \in DOMAIN batch THEN batch[f] ELSE Done[f]]]
                  /\ UNCHANGED rows
Batch(q, kind) == req[q].kind = kind /\ req' = [req EXCEPT ![q] = Done]

(* The batch fails and nothing of it is applied: the request ends with an error. *)
BatchFails(q) == req[q].kind # "none" /\ req' = [req EXCEPT ![q] = Done] /\ UNCHANGED rows

(* Ids that no row has and no request speaks of. *)
FreshIds == Ids \ {s.id : s \in shares \cup listed \cup UNION {req[q].gone : q \in Reqs}
                                 \cup {req[q].row : q \in {p \in Reqs : req[p].kind \in {"share", "update", "unshare"}}}}

(* A share may name a group that is gone: nobody looks for it. *)
Recipients == [kind : {"user"}, to : Users] \cup [kind : {"group"}, to : GroupIds \cap born]
(* A client names a custom permission that exists. *)
Known(ps) == {p \in ps : p = "custom" => custom.by # None}

Held(l, r) == {s \in shares : s.lib = l /\ s.kind = r.kind /\ s.to = r.to}

(* A mutant: a library may be shared with a recipient again. *)
CreateShareAgain(q) ==
    /\ Ask(q, "CreateShare")
    /\ \E by \in Users, l \in Libs, r \in Recipients, p \in Known(Perms), i \in FreshIds :
         /\ HasLibraryAccess(by, l, "admin") /\ r.to # by
         /\ Send(q, [kind |-> "share", row |-> [id |-> i, lib |-> l, by |-> by, kind |-> r.kind, to |-> r.to, perm |-> p]])

(* One recipient of the request: the library is live, the caller may administer it, and nothing is shared with the recipient yet. *)
CreateShare(q) ==
    /\ Ask(q, "CreateShare")
    /\ \E by \in Users, l \in Libs, r \in Recipients, p \in Known(Perms), i \in FreshIds :
         /\ HasLibraryAccess(by, l, "admin") /\ r.to # by /\ Held(l, r) = {}
         /\ Send(q, [kind |-> "share", row |-> [id |-> i, lib |-> l, by |-> by, kind |-> r.kind, to |-> r.to, perm |-> p]])

(* The rows by recipient, creator and group of a share are written and deleted with it, in its batch. *)
AddUpsertShareReadModelQuery(s) == listed' = {t \in listed : t.id # s.id} \cup {s}
AddDeleteShareReadModelQuery(s) == listed' = {t \in listed : t.id # s.id}

(* A mutant: the share is written and its rows by recipient are not. *)
createLibraryShareOnly(q) ==
    /\ Batch(q, "share") /\ lib[req[q].row.lib] # "absent"
    /\ shares' = shares \cup {req[q].row}
    /\ UNCHANGED <<groups, byId, creator, parent, member, byMember, lib, owner, listed, custom, born>>

createLibraryShare(q) ==
    /\ Batch(q, "share") /\ lib[req[q].row.lib] # "absent"
    /\ shares' = shares \cup {req[q].row} /\ AddUpsertShareReadModelQuery(req[q].row)
    /\ UNCHANGED <<groups, byId, creator, parent, member, byMember, lib, owner, custom, born>>

UpdateSharePermission(q) ==
    /\ Ask(q, "UpdateSharePermission")
    /\ \E by \in Users, l \in Libs, r \in Recipients, p \in Known(Perms) :
         /\ HasLibraryAccess(by, l, "admin") /\ Held(l, r) # {}
         /\ Send(q, [kind |-> "update", row |-> [First(Held(l, r)) EXCEPT !.perm = p]])

(* The update sets one column: on a row deleted meanwhile it leaves a row with nothing but the permission. *)
updateLibrarySharePermission(q) ==
    LET r == req[q].row
        left == IF \E s \in shares : s.id = r.id THEN [(CHOOSE s \in shares : s.id = r.id) EXCEPT !.perm = r.perm]
                ELSE [r EXCEPT !.by = None, !.kind = "blank", !.to = None]
    IN  /\ Batch(q, "update")
        /\ shares' = {s \in shares : s.id # r.id} \cup {left}
        /\ AddUpsertShareReadModelQuery(r)
        /\ UNCHANGED <<groups, byId, creator, parent, member, byMember, lib, owner, custom, born>>

DeleteShare(q) ==
    /\ Ask(q, "DeleteShare")
    /\ \E by \in Users, l \in Libs, r \in Recipients :
         /\ HasLibraryAccess(by, l, "admin") /\ Held(l, r) # {}
         /\ Send(q, [kind |-> "unshare", row |-> First(Held(l, r))])

LeaveShareRepo(q) ==
    /\ Ask(q, "LeaveShareRepo")
    /\ \E by, from \in Users, l \in Libs :
         LET mine == {s \in Held(l, [kind |-> "user", to |-> by]) : s.by = from}
         IN  mine # {} /\ Send(q, [kind |-> "unshare", row |-> First(mine)])

deleteLibraryShare(q) ==
    /\ Batch(q, "unshare")
    /\ shares' = {s \in shares : s.id # req[q].row.id} /\ AddDeleteShareReadModelQuery(req[q].row)
    /\ UNCHANGED <<groups, byId, creator, parent, member, byMember, lib, owner, custom, born>>

(* Custom permissions: created by anyone, changed and deleted by their creator. *)
CreateCustomSharePermission(q) ==
    /\ Ask(q, "CustomSharePermission") /\ custom.by = None
    /\ \E u \in Users, f \in CustomSets : Send(q, [kind |-> "custom", u |-> u, set |-> f])

UpdateCustomSharePermission(q) ==
    /\ Ask(q, "CustomSharePermission") /\ custom.by # None
    /\ \E f \in CustomSets : Send(q, [kind |-> "custom", u |-> custom.by, set |-> f])

DeleteCustomSharePermission(q) ==
    Ask(q, "CustomSharePermission") /\ custom.by # None /\ Send(q, [kind |-> "custom"])

WriteCustomSharePermission(q) ==
    /\ Batch(q, "custom") /\ custom' = [by |-> req[q].u, flags |-> req[q].set]
    /\ UNCHANGED <<groups, byId, creator, parent, member, byMember, lib, owner, shares, listed, born>>

=============================================================================

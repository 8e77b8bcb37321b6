------------------------------ MODULE Accounts ------------------------------
(***************************************************************************)
(* Users and organizations: created by administrators or at the first      *)
(* login, changed, deactivated, deleted, restored and, after the grace     *)
(* period, purged by the GC.  A user is a canonical row, a row by email, a *)
(* row by OIDC subject, the rows of the administrators' lists, and, while  *)
(* deleted, a row by day of deletion that the GC scans.  An organization   *)
(* is a canonical row, the rows of the lists and a marker while deleted.   *)
(*                                                                         *)
(* A handler reads, decides, and writes one logged batch of upserts later; *)
(* an update of a row that is gone makes a row with the updated columns    *)
(* only (a ghost).  Only the restore of an organization and the start of   *)
(* its purge are conditional updates.  The quota stands for the other      *)
(* columns of a row (name, quotas, plan); readonly and guest roles are     *)
(* users here.                                                             *)
(***************************************************************************)
EXTENDS Integers, FiniteSets, FiniteSetsExt

CONSTANTS Users,     \* ids of users: numbers, for rows come in the order of their ids
          Orgs, Emails,
          Subs,      \* subjects of the OIDC provider
          Quotas,    \* values of the other columns: numbers from 0
          Claims,    \* roles the provider claims
          Platform,  \* the organization of the platform
          Super,     \* a superadmin of the platform who is not one of Users
          MaxUsers,  \* the limit of the plan
          MaxTime,   \* bound on the deletions
          DisableOrgUserWrites, \* the users of an organization are managed elsewhere
          Reqs, Calls, Faults, None,
          Dead       \* the holder of a lock that crashed

AccountsAssumption ==
    Users \subseteq Nat /\ 0 \in Quotas /\ MaxUsers \in Nat /\ MaxTime \in Nat /\ DisableOrgUserWrites \in BOOLEAN /\ Super \notin Users

VARIABLES user,     \* users
          byEmail,  \* users_by_email
          byOidc,   \* users_by_oidc
          found,    \* gc_deleted_users_by_deleted_day
          list,     \* users_admin_global_by_created
          byStatus, \* users_admin_global_by_status_created: the statuses under which a user has a row
          state,    \* user_admin_projection_state
          org,      \* organizations
          mark,     \* deleted_organizations
          orgList, orgByStatus, orgState, \* the same rows of an organization
          lock,     \* gc_user_hard_delete_locks and gc_org_hard_delete_locks
          items,    \* user and organization cascades of the GC queue
          time,     \* the last deletion
          begun,    \* ghost: organizations of which a purge has deleted users
          signedIn, \* ghost: the user of the last login that was accepted, and whether it was new
          req       \* what each request is about to do

lists == <<list, byStatus, state>>
orgLists == <<orgList, orgByStatus, orgState>>
users == <<user, byEmail, byOidc, found, lists>>
orgs == <<org, mark, orgLists>>
gc == <<lock, items, begun>>
vars == <<users, orgs, gc, time, signedIn, req>>

Roles == {"superadmin", "owner", "admin", "user"}
Admins == Roles \ {"user"}
Statuses == {"active", "deactivated", "deleted"}
NoUser == [is |-> "absent", org |-> None, email |-> None, role |-> "user", status |-> "active", del |-> 0, quota |-> 0]
NoOrg == [is |-> "absent", status |-> "active", del |-> 0, quota |-> 0]
NoRow == [status |-> "active", quota |-> 0, count |-> 0, owner |-> None]
NoNext == [role |-> "user", status |-> "active", del |-> 0, quota |-> 0]
NoItem == [id |-> None, at |-> 0]
Done == [kind |-> "none", c |-> None, u |-> None, v |-> None, o |-> None, email |-> None, sub |-> None, role |-> None,
         next |-> NoNext, seen |-> NoNext, prev |-> None, row |-> NoRow, from |-> "", at |-> 0, us |-> {}, item |-> NoItem, new |-> FALSE]

TypeOK ==
    /\ user \in [Users -> [is : {"absent", "whole", "ghost"}, org : Orgs \cup {None}, email : Emails \cup {None}, role : Roles,
                           status : Statuses, del : 0..MaxTime, quota : Quotas]]
    /\ byEmail \in [Emails -> Users \cup {None}] /\ byOidc \in [Subs -> Users \cup {None}]
    /\ found \subseteq Users \X (1..MaxTime)
    /\ list \in [Users -> [org : Orgs, email : Emails \cup {None}, role : Roles, status : Statuses, quota : Quotas] \cup {None}]
    /\ byStatus \in [Users -> SUBSET Statuses] /\ state \in [Users -> Statuses \cup {None}]
    /\ org \in [Orgs -> [is : {"absent", "whole", "ghost"}, status : Statuses \cup {"purging"}, del : 0..MaxTime, quota : Quotas]]
    /\ mark \in [Orgs -> 0..MaxTime]
    /\ orgList \in [Orgs -> [status : Statuses \cup {"purging"}, quota : Quotas, count : Nat, owner : Emails \cup {None}] \cup {None}]
    /\ orgByStatus \in [Orgs -> SUBSET (Statuses \cup {"purging"})] /\ orgState \in [Orgs -> Statuses \cup {"purging", None}]
    /\ lock \in [Users \cup Orgs -> Reqs \cup {None, Dead}] /\ items \subseteq [id : Users \cup Orgs, at : 1..MaxTime]
    /\ time \in 0..MaxTime /\ begun \subseteq Orgs

-----------------------------------------------------------------------------
(* Rows. *)

Exists(u) == user[u].is # "absent"
OrgExists(o) == org[o].is # "absent"
ListUsersByOrg(o) == {u \in Users : Exists(u) /\ user[u].org = o}
CountAdminOrganizationUsers(o) == Cardinality(ListUsersByOrg(o))
CheckMaxUsers(o) == ~OrgExists(o) \/ CountAdminOrganizationUsers(o) < MaxUsers
GetUserDeletedAt(u) == IF Exists(u) /\ user[u].status = "deleted" THEN user[u].del ELSE 0
GetOrgDeletedAt(o) == IF OrgExists(o) /\ org[o].status \in {"deleted", "purging"} THEN org[o].del ELSE 0

(* The owner a list shows: the first user, by id, who is at least an administrator, or else the first. *)
OwnerOf(S, role) ==
    LET admins == {u \in S : role[u] \in Admins}
    IN  IF S = {} THEN None ELSE user[Min(IF admins = {} THEN S ELSE admins)].email
RoleOf == [u \in Users |-> user[u].role]
ResolveAdminOrganizationOwnerFields(o) == OwnerOf(ListUsersByOrg(o), RoleOf)
ReadAdminOrganizationProjectionRow(o) ==
    [status |-> org[o].status, quota |-> org[o].quota, count |-> CountAdminOrganizationUsers(o), owner |-> ResolveAdminOrganizationOwnerFields(o)]
BuildAdminOrganizationProjectionRowForNewUser(o, email, role) ==
    LET r == ReadAdminOrganizationProjectionRow(o)
    IN  [r EXCEPT !.count = @ + 1, !.owner = IF @ = None \/ role = "owner" THEN email ELSE @]
BuildAdminOrganizationProjectionRowForUpdatedUser(o, u, role) ==
    [ReadAdminOrganizationProjectionRow(o) EXCEPT !.owner = OwnerOf(ListUsersByOrg(o), [RoleOf EXCEPT ![u] = role])]
buildAdminOrganizationProjectionRowAfterUserDelete(o, u) ==
    LET S == ListUsersByOrg(o) \ {u}
    IN  [ReadAdminOrganizationProjectionRow(o) EXCEPT !.count = Cardinality(S), !.owner = OwnerOf(S, RoleOf)]

(* The rows of a user in the lists; S are the statuses whose rows go in the same batch. *)
AddUpsertAdminUserReadModelQuery(u, r, S) ==
    /\ list' = [list EXCEPT ![u] = r] /\ state' = [state EXCEPT ![u] = r.status]
    /\ byStatus' = [byStatus EXCEPT ![u] = (@ \ S) \cup {r.status}]
AddDeleteAdminUserReadModelQuery(u) ==
    IF state[u] = None THEN UNCHANGED lists
    ELSE /\ list' = [list EXCEPT ![u] = None] /\ byStatus' = [byStatus EXCEPT ![u] = @ \ {state[u]}] /\ state' = [state EXCEPT ![u] = None]
AddUpsertAdminOrganizationReadModelQuery(o, r, S) ==
    /\ orgList' = [orgList EXCEPT ![o] = r] /\ orgState' = [orgState EXCEPT ![o] = r.status]
    /\ orgByStatus' = [orgByStatus EXCEPT ![o] = (@ \ S) \cup {r.status}]
AddDeleteAdminOrganizationReadModelQuery(o) ==
    IF orgState[o] = None THEN UNCHANGED orgLists
    ELSE /\ orgList' = [orgList EXCEPT ![o] = None] /\ orgByStatus' = [orgByStatus EXCEPT ![o] = @ \ {orgState[o]}]
         /\ orgState' = [orgState EXCEPT ![o] = None]
(* The entry of the earlier status goes when the status changes. *)
AddDeleteAdminUserStatusProjectionEntryQuery(prev, status) == {prev} \ {None, status}
adminUserProjectionRowFromWriteSpec(o, email, role) == [org |-> o, email |-> email, role |-> role, status |-> "active", quota |-> 0]
adminOrganizationProjectionRowFromWriteSpec(email) == [NoRow EXCEPT !.count = IF email = None THEN 0 ELSE 1, !.owner = email]

-----------------------------------------------------------------------------
(* What the handlers show. *)

ListAdminUserRows(status) == {u \in Users : status \in byStatus[u] /\ state[u] = status}
AllAdminUserRows == {u \in Users : list[u] # None /\ state[u] = list[u].status}
ListAllUsers(status) == {<<u, list[u].role, list[u].quota>> : u \in ListAdminUserRows(status)}
SearchUsers(e) == {u \in AllAdminUserRows : list[u].email = e}
ListAdminUsers == {u \in AllAdminUserRows : list[u].org = Platform /\ list[u].role = "superadmin"}
ListOrgUsers(o, status) == {u \in ListUsersByOrg(o) : user[u].status = status}
ListOrgUsersByAdmin(o, status) == {u \in ListUsersByOrg(o) : user[u].status = status}
SearchOrgUser(o, e) == {u \in ListUsersByOrg(o) : user[u].email = e}
GetUserByEmail(e) == IF byEmail[e] # None /\ Exists(byEmail[e]) THEN {byEmail[e]} ELSE {}
AdminGetOrgUser(o, e) == {u \in GetUserByEmail(e) : user[u].org = o}
GetOrgUser(o, e) == {u \in GetUserByEmail(e) : user[u].org = o}
ListAdminOrganizationRows(status) == {o \in Orgs : status \in orgByStatus[o] /\ orgState[o] = status}
ListOrganizations(status) == {<<o, orgList[o].count>> : o \in ListAdminOrganizationRows(status)}
AdminSearchOrganizations == {<<o, orgList[o].status, orgList[o].quota, orgList[o].count>> : o \in {p \in Orgs : orgList[p] # None}}
GetOrganization(o) == <<o, org[o].status, org[o].quota, CountAdminOrganizationUsers(o)>>
GetOrgInfo(o) == <<CountAdminOrganizationUsers(o), Cardinality(ListOrgUsers(o, "active"))>>

(* How many users a smaller plan would deactivate: those with a role in the organization's administration stay. *)
readOrgPlanPreviewMemberStats(o) ==
    LET active == ListOrgUsers(o, "active")
    IN  [protected |-> Cardinality({u \in active : user[u].role \in Admins}), regular |-> Cardinality({u \in active : user[u].role \notin Admins})]
calculateUsersToDeactivateForMaxUsers(max, stats) ==
    IF max <= 0 THEN 0
    ELSE IF stats.protected >= max THEN stats.regular
    ELSE IF stats.regular > max - stats.protected THEN stats.regular - (max - stats.protected) ELSE 0
PreviewOrganizationPlanChange(o, max) == calculateUsersToDeactivateForMaxUsers(max, readOrgPlanPreviewMemberStats(o))

-----------------------------------------------------------------------------
(* Requests. *)

Ask(q, name) == name \in Calls /\ req[q].kind = "none"
Record(b) == [f \in DOMAIN Done |-> IF f \in DOMAIN b THEN b[f] ELSE Done[f]]
Begin(q, b) == req' = [req EXCEPT ![q] = Record(b)]
Send(q, b) == Begin(q, b) /\ UNCHANGED <<users, orgs, gc, time, signedIn>>
End(q) == req' = [req EXCEPT ![q] = Done]
Then(q, kind) == req' = [req EXCEPT ![q].kind = kind]
(* A login goes on after the write it needed; other requests end. *)
Continue(q) == IF req[q].sub = None THEN End(q) ELSE Then(q, IF req[q].new THEN "accept" ELSE "userReady")
Fail(q) == End(q) /\ UNCHANGED <<users, orgs, gc, time, signedIn>>
FreshUsers == {u \in Users : ~Exists(u) /\ list[u] = None /\ (\A s \in Subs : byOidc[s] # u) /\ \A p \in Reqs : req[p].u # u}
FreshOrgs == {o \in Orgs : ~OrgExists(o) /\ \A p \in Reqs : req[p].o # o}

requireOrgAccess(c, o) == c = Super \/ (Exists(c) /\ user[c].org = o /\ user[c].role \in Admins)
rejectOrgUserWriteIfDisabled(c) == DisableOrgUserWrites /\ c # Super
OrgAdmins(o) == {c \in Users \cup {Super} : requireOrgAccess(c, o) /\ ~rejectOrgUserWriteIfDisabled(c)}
(* The index first, then the users, whom the index then gets again. *)
lookupUserByEmail(e) == IF byEmail[e] # None THEN {byEmail[e]} ELSE {u \in Users : Exists(u) /\ user[u].email = e}
lookupOrgUserByEmail(o, e) == {u \in lookupUserByEmail(e) : user[u].org = o}

Create(q, c, o, e, role) ==
    \E u \in FreshUsers :
        Send(q, [kind |-> "create", c |-> c, u |-> u, o |-> o, email |-> e, role |-> role,
                 row |-> IF OrgExists(o) THEN BuildAdminOrganizationProjectionRowForNewUser(o, e, role) ELSE NoRow, new |-> TRUE])
AdminCreateUser(q) ==
    /\ Ask(q, "AdminCreateUser") /\ Platform \in Orgs
    /\ \E e \in Emails, r \in {"admin", "user"} : byEmail[e] = None /\ CheckMaxUsers(Platform) /\ Create(q, Super, Platform, e, r)
AdminAddOrgUser(q) ==
    /\ Ask(q, "AdminAddOrgUser")
    /\ \E o \in Orgs, e \in Emails : byEmail[e] = None /\ CheckMaxUsers(o) /\ Create(q, Super, o, e, "user")
AddOrgUser(q) ==
    /\ Ask(q, "AddOrgUser")
    /\ \E o \in Orgs, e \in Emails : \E c \in OrgAdmins(o) : byEmail[e] = None /\ CheckMaxUsers(o) /\ Create(q, c, o, e, "user")
(* One line of the file; nothing asks for the limit. *)
ImportOrgUsers(q) ==
    /\ Ask(q, "ImportOrgUsers")
    /\ \E o \in Orgs, e \in Emails : \E c \in OrgAdmins(o) : byEmail[e] = None /\ Create(q, c, o, e, "user")

addCreateAdminUserQueries(q) ==
    LET r == req[q]
    IN  /\ user' = [user EXCEPT ![r.u] = [is |-> "whole", org |-> r.o, email |-> r.email, role |-> r.role, status |-> "active",
                                          del |-> user[r.u].del, quota |-> 0]]
        /\ byEmail' = [byEmail EXCEPT ![r.email] = r.u]
        /\ byOidc' = IF r.sub = None THEN byOidc ELSE [byOidc EXCEPT ![r.sub] = r.u]
        /\ UNCHANGED found
        /\ AddUpsertAdminUserReadModelQuery(r.u, adminUserProjectionRowFromWriteSpec(r.o, r.email, r.role), {})

(* The batch; without the row of the organization there is none. *)
CreateUserWithLookupsAndReadModels(q) ==
    /\ req[q].kind = "create"
    /\ IF req[q].row = NoRow THEN Fail(q)
       ELSE /\ addCreateAdminUserQueries(q)
            /\ AddUpsertAdminOrganizationReadModelQuery(req[q].o, req[q].row, {})
            /\ Continue(q) /\ UNCHANGED <<org, mark, gc, time, signedIn>>

-----------------------------------------------------------------------------
(* Changes of a user. *)

applyLegacyStaffToggle(role, staff) ==
    IF staff THEN IF role \in Admins THEN role ELSE "admin" ELSE IF role = "admin" THEN "user" ELSE role
Current(u) == [role |-> user[u].role, status |-> user[u].status, del |-> user[u].del, quota |-> user[u].quota]
(* A user who is made active is no longer deleted; one who is made inactive keeps the time of her deletion. *)
Edits(u, roles) ==
    {[role |-> r, quota |-> k, status |-> s[1], del |-> s[2]] :
        r \in roles \cup {user[u].role} \cup {applyLegacyStaffToggle(user[u].role, b) : b \in BOOLEAN}, k \in Quotas,
        s \in {<<user[u].status, user[u].del>>, <<"active", 0>>, <<"deactivated", user[u].del>>}} \ {Current(u)}
Update(q, c, u, next) == Send(q, [kind |-> "update", c |-> c, u |-> u, o |-> user[u].org, next |-> next])

UpdateUserByEmail(q) ==
    /\ Ask(q, "UpdateUserByEmail")
    /\ \E e \in Emails : \E u \in lookupUserByEmail(e) :
         /\ Exists(u)
         /\ \E n \in Edits(u, {"admin", "user"} \cup (IF user[u].org = Platform THEN {"superadmin"} ELSE {})) : Update(q, Super, u, n)
(* By id, in the organization of the caller. *)
UpdateUser(q) ==
    /\ Ask(q, "UpdateUser")
    /\ \E u \in ListUsersByOrg(Platform), r \in {"admin", "user", "superadmin"}, k \in Quotas :
         Update(q, Super, u, [Current(u) EXCEPT !.role = r, !.quota = k])
BatchAddAdmins(q) ==
    /\ Ask(q, "BatchAddAdmins")
    /\ \E e \in Emails : \E u \in lookupUserByEmail(e) :
         user[u].org = Platform /\ Exists(u) /\ Update(q, Super, u, [Current(u) EXCEPT !.role = "superadmin"])
(* The owner is changed by a superadmin only; of a deleted user only the traffic quotas. *)
UpdateOrgUser(q) ==
    /\ Ask(q, "UpdateOrgUser")
    /\ \E o \in Orgs, e \in Emails : \E u \in lookupOrgUserByEmail(o, e), c \in OrgAdmins(o) :
         /\ Exists(u) /\ (user[u].role = "owner" => c = Super)
         /\ \E n \in Edits(u, {}) : (user[u].status = "deleted" => n = [Current(u) EXCEPT !.quota = n.quota]) /\ Update(q, c, u, n)

(* Ownership goes over in one batch, from the first owner that is found. *)
buildOwnershipTransferPlan(c, owner, u, callerRole, role) ==
    /\ c # Super => callerRole = "owner" /\ u # c
    /\ u # owner /\ role \in Admins
ExistingOwner(o) == LET S == {u \in ListUsersByOrg(o) : user[u].role = "owner"} IN IF S = {} THEN None ELSE Min(S)
Transfer(q, c, o, u) ==
    Send(q, [kind |-> "transfer", c |-> c, u |-> u, v |-> ExistingOwner(o), o |-> o, next |-> Current(u),
             seen |-> IF ExistingOwner(o) = None THEN NoNext ELSE Current(ExistingOwner(o)),
             row |-> [ReadAdminOrganizationProjectionRow(o) EXCEPT !.owner = user[u].email]])
TransferOrgOwnership(q) ==
    /\ Ask(q, "TransferOrgOwnership")
    /\ \E o \in Orgs, e \in Emails : \E u \in lookupOrgUserByEmail(o, e), c \in OrgAdmins(o) :
         /\ Exists(u) /\ OrgExists(o)
         /\ buildOwnershipTransferPlan(c, ExistingOwner(o), u, IF c = Super THEN "owner" ELSE user[c].role, user[u].role)
         /\ Transfer(q, c, o, u)
AdminUpdateOrgUser(q) ==
    /\ Ask(q, "AdminUpdateOrgUser")
    /\ \E o \in Orgs, e \in Emails : \E u \in lookupUserByEmail(e) :
         /\ Exists(u) /\ user[u].org = o
         /\ \/ \E n \in Edits(u, {"admin", "user"}) : Update(q, Super, u, n)
            \/ OrgExists(o) /\ buildOwnershipTransferPlan(Super, ExistingOwner(o), u, "superadmin", "admin") /\ Transfer(q, Super, o, u)

SoftDelete(q, c, u) ==
    /\ time < MaxTime /\ time' = time + 1
    /\ Begin(q, [kind |-> "update", c |-> c, u |-> u, o |-> user[u].org, next |-> [Current(u) EXCEPT !.status = "deleted", !.del = time + 1]])
    /\ UNCHANGED <<users, orgs, gc, signedIn>>
DeleteUserByEmail(q) ==
    /\ Ask(q, "DeleteUserByEmail") /\ \E e \in Emails : \E u \in lookupUserByEmail(e) : Exists(u) /\ SoftDelete(q, Super, u)
SoftDeleteUser(q) == Ask(q, "SoftDeleteUser") /\ \E u \in ListUsersByOrg(Platform) : SoftDelete(q, Super, u)
AdminDeleteOrgUser(q) ==
    /\ Ask(q, "AdminDeleteOrgUser") /\ \E o \in Orgs, e \in Emails : \E u \in SearchOrgUser(o, e) : SoftDelete(q, Super, u)
DeleteOrgUser(q) ==
    /\ Ask(q, "DeleteOrgUser")
    /\ \E o \in Orgs, e \in Emails : \E u \in lookupOrgUserByEmail(o, e), c \in OrgAdmins(o) :
         Exists(u) /\ u # c /\ (user[u].role = "owner" => c = Super) /\ SoftDelete(q, c, u)

RestoreUser(q) ==
    /\ Ask(q, "RestoreUser")
    /\ \E e \in Emails : \E u \in lookupUserByEmail(e) : GetUserDeletedAt(u) > 0 /\ Send(q, [kind |-> "activate", c |-> Super, u |-> u])
RestoreOrgUser(q) ==
    /\ Ask(q, "RestoreOrgUser")
    /\ \E o \in Orgs, e \in Emails : \E u \in lookupOrgUserByEmail(o, e), c \in OrgAdmins(o) :
         GetUserDeletedAt(u) > 0 /\ Send(q, [kind |-> "activate", c |-> c, u |-> u])
(* A restore looks for the lock of a purge once, before it reads the row. *)
activateUser(q) ==
    LET r == req[q]
    IN  /\ r.kind = "activate"
        /\ IF lock[r.u] # None \/ ~Exists(r.u) THEN Fail(q) ELSE Update(q, r.c, r.u, [Current(r.u) EXCEPT !.status = "active", !.del = 0])

(* Before the batch the canonical state, the entry of the lists and the row of the organization are read. *)
readAdminCanonicalUserState(q) ==
    LET r == req[q]
    IN  /\ r.kind = "update"
        /\ IF ~Exists(r.u) \/ ~OrgExists(r.o) THEN IF r.sub = None THEN Fail(q) ELSE Then(q, "userReady") /\ UNCHANGED <<users, orgs, gc, time, signedIn>>
           ELSE /\ req' = [req EXCEPT ![q].kind = "write", ![q].seen = Current(r.u), ![q].prev = state[r.u], ![q].email = user[r.u].email,
                                      ![q].row = BuildAdminOrganizationProjectionRowForUpdatedUser(r.o, r.u, r.next.role)]
                /\ UNCHANGED <<users, orgs, gc, time, signedIn>>

(* The batch, with the rows by day of deletion that it leaves. *)
writeUser(q, rows) ==
    LET r == req[q]
    IN  /\ r.kind = "write" /\ found' = rows
        /\ user' = [user EXCEPT ![r.u] = [is |-> IF Exists(r.u) THEN @.is ELSE "ghost", org |-> r.o, email |-> @.email, role |-> r.next.role,
                                          status |-> r.next.status, del |-> r.next.del, quota |-> r.next.quota]]
        /\ AddUpsertAdminUserReadModelQuery(r.u, [org |-> r.o, email |-> r.email, role |-> r.next.role, status |-> r.next.status, quota |-> r.next.quota],
                                            AddDeleteAdminUserStatusProjectionEntryQuery(r.prev, r.next.status))
        /\ AddUpsertAdminOrganizationReadModelQuery(r.o, r.row, {})
        /\ Continue(q) /\ UNCHANGED <<byEmail, byOidc, org, mark, gc, time, signedIn>>
(* The row by day of an earlier deletion goes, that of this one is written. *)
UpdateUserAndAdminReadModels(q) ==
    LET r == req[q]
        old == IF r.seen.status = "deleted" /\ (r.next.status # "deleted" \/ r.seen.del # r.next.del) THEN {<<r.u, r.seen.del>>} ELSE {}
    IN  writeUser(q, (found \ old) \cup (IF r.next.status = "deleted" /\ r.next.del > 0 THEN {<<r.u, r.next.del>>} ELSE {}))

(* Both roles change in one batch, and the rows of both in the lists, with the other columns as they were read. *)
TransferOwnership(q) ==
    LET r == req[q]
        S == {r.u, r.v} \ {None}
        role == [w \in S |-> IF w = r.u THEN "owner" ELSE "admin"]
        read == [w \in S |-> IF w = r.u THEN r.next ELSE r.seen]
    IN  /\ r.kind = "transfer"
        /\ user' = [w \in Users |-> IF w \notin S THEN user[w]
                                    ELSE [user[w] EXCEPT !.role = role[w], !.is = IF Exists(w) THEN @ ELSE "ghost", !.org = r.o]]
        /\ list' = [w \in Users |-> IF w \notin S THEN list[w]
                                    ELSE [org |-> r.o, email |-> user[w].email, role |-> role[w], status |-> read[w].status, quota |-> read[w].quota]]
        /\ state' = [w \in Users |-> IF w \in S THEN read[w].status ELSE state[w]]
        /\ byStatus' = [w \in Users |-> IF w \in S THEN byStatus[w] \cup {read[w].status} ELSE byStatus[w]]
        /\ AddUpsertAdminOrganizationReadModelQuery(r.o, r.row, {})
        /\ End(q) /\ UNCHANGED <<byEmail, byOidc, found, org, mark, gc, time, signedIn>>

-----------------------------------------------------------------------------
(* Organizations. *)

CreateOrganization(q) ==
    /\ Ask(q, "CreateOrganization")
    /\ \E o \in FreshOrgs, u \in FreshUsers, e \in Emails \cup {None} :
         (e # None => byEmail[e] = None) /\ Send(q, [kind |-> "createOrg", o |-> o, u |-> IF e = None THEN None ELSE u, email |-> e, role |-> "owner"])
CreateOrganizationWithUsersAndReadModels(q) ==
    /\ req[q].kind = "createOrg"
    /\ org' = [org EXCEPT ![req[q].o] = [NoOrg EXCEPT !.is = "whole"]]
    /\ IF req[q].u = None THEN UNCHANGED users ELSE addCreateAdminUserQueries(q)
    /\ AddUpsertAdminOrganizationReadModelQuery(req[q].o, adminOrganizationProjectionRowFromWriteSpec(req[q].email), {})
    /\ End(q) /\ UNCHANGED <<mark, gc, time, signedIn>>

OrgUpdate(q, o) ==
    \E k \in Quotas \ {org[o].quota} : Send(q, [kind |-> "orgUpdate", o |-> o, row |-> [ReadAdminOrganizationProjectionRow(o) EXCEPT !.quota = k]])
UpdateOrganization(q) == Ask(q, "UpdateOrganization") /\ \E o \in Orgs : OrgExists(o) /\ OrgUpdate(q, o)
UpdateOrgInfo(q) ==
    /\ Ask(q, "UpdateOrgInfo") /\ \E o \in Orgs : \E c \in Users : requireOrgAccess(c, o) /\ OrgExists(o) /\ OrgUpdate(q, o)
writeOrganization(q) ==
    LET r == req[q]
    IN  /\ r.kind = "orgUpdate"
        /\ org' = [org EXCEPT ![r.o].quota = r.row.quota, ![r.o].is = IF OrgExists(r.o) THEN @ ELSE "ghost"]
        /\ AddUpsertAdminOrganizationReadModelQuery(r.o, r.row, {})
        /\ End(q) /\ UNCHANGED <<users, mark, gc, time, signedIn>>

Lifecycle(o, status, at) ==
    [kind |-> "orgLife", o |-> o, prev |-> orgState[o], row |-> [ReadAdminOrganizationProjectionRow(o) EXCEPT !.status = status], at |-> at]
SoftDeleteOrganization(q) ==
    /\ Ask(q, "SoftDeleteOrganization")
    /\ \E o \in Orgs \ {Platform} : OrgExists(o) /\ time < MaxTime /\ time' = time + 1 /\ Begin(q, Lifecycle(o, "deleted", time + 1))
    /\ UNCHANGED <<users, orgs, gc, signedIn>>
DeactivateOrganization(q) ==
    /\ Ask(q, "DeactivateOrganization")
    /\ \E o \in Orgs \ {Platform} : OrgExists(o) /\ org[o].status # "deleted" /\ Send(q, Lifecycle(o, "deactivated", 0))
(* Status, time of deletion and marker change in one batch that asks for nothing. *)
UpdateOrganizationLifecycleAndReadModel(q) ==
    LET r == req[q]
    IN  /\ r.kind = "orgLife"
        /\ org' = [org EXCEPT ![r.o].status = r.row.status, ![r.o].del = r.at, ![r.o].is = IF OrgExists(r.o) THEN @ ELSE "ghost"]
        /\ mark' = [mark EXCEPT ![r.o] = r.at]
        /\ AddUpsertAdminOrganizationReadModelQuery(r.o, r.row, AddDeleteAdminUserStatusProjectionEntryQuery(r.prev, r.row.status))
        /\ End(q) /\ UNCHANGED <<users, gc, time, signedIn>>

Activate(q, o, from) ==
    /\ OrgExists(o) /\ org[o].status \in {from, "active"}
    /\ Send(q, [kind |-> "activateOrg", o |-> o, prev |-> org[o].status, from |-> from, at |-> IF from = "deleted" THEN mark[o] ELSE 0])
RestoreOrganization(q) == Ask(q, "RestoreOrganization") /\ \E o \in Orgs : Activate(q, o, "deleted")
ReactivateOrganization(q) == Ask(q, "ReactivateOrganization") /\ \E o \in Orgs : Activate(q, o, "deactivated")
(* An activation that was interrupted has left its marker, or the entry of the earlier status in the lists. *)
hasInterruptedActivationRepairState(q) == (req[q].from = "deleted" /\ req[q].at > 0) \/ orgState[req[q].o] = req[q].from
(* The conditional update to active; one that finds the organization active goes on when it has something to repair. *)
activateOrg(q) ==
    LET r == req[q]
        known == r.prev = "active" => hasInterruptedActivationRepairState(q)
    IN  /\ r.kind = "activateOrg"
        /\ \/ /\ OrgExists(r.o) /\ org[r.o].status = r.prev /\ known
              /\ org' = [org EXCEPT ![r.o].status = "active", ![r.o].del = 0]
              /\ Then(q, "unmark") /\ UNCHANGED <<users, mark, orgLists, gc, time, signedIn>>
           \/ /\ OrgExists(r.o) /\ org[r.o].status # r.prev /\ org[r.o].status = "active" /\ hasInterruptedActivationRepairState(q)
              /\ Then(q, "unmark") /\ UNCHANGED <<users, orgs, gc, time, signedIn>>
           \/ /\ ~OrgExists(r.o) \/ (IF org[r.o].status = r.prev THEN ~known
                                     ELSE org[r.o].status # "active" \/ ~hasInterruptedActivationRepairState(q))
              /\ Fail(q)
(* The marker that was read goes, no later one. *)
unmark(q) ==
    LET r == req[q]
    IN  /\ r.kind = "unmark"
        /\ IF r.at > 0 /\ mark[r.o] # r.at THEN Fail(q)
           ELSE /\ mark' = [mark EXCEPT ![r.o] = IF r.at > 0 THEN 0 ELSE @]
                /\ Then(q, "repair") /\ UNCHANGED <<users, org, orgLists, gc, time, signedIn>>
repairActiveOrganizationReadModels(q) ==
    LET o == req[q].o
    IN  /\ req[q].kind = "repair"
        /\ IF ~OrgExists(o) \/ org[o].status # "active" THEN Fail(q)
           ELSE /\ AddUpsertAdminOrganizationReadModelQuery(o, ReadAdminOrganizationProjectionRow(o),
                                                            AddDeleteAdminUserStatusProjectionEntryQuery(orgState[o], "active"))
                /\ End(q) /\ UNCHANGED <<users, org, mark, gc, time, signedIn>>

-----------------------------------------------------------------------------
(* Login.  An organization the provider names is made at its first login. *)

provisionUser(q) ==
    /\ Ask(q, "login")
    /\ \E o \in Orgs, s \in Subs, e \in Emails, r \in Claims \cup {None} :
         LET b == [kind |-> "login", o |-> o, sub |-> s, email |-> e, role |-> r, new |-> ~OrgExists(o)]
         IN  IF OrgExists(o) THEN Send(q, b)
             ELSE /\ o \in FreshOrgs /\ Begin(q, b)
                  /\ org' = [org EXCEPT ![o] = [NoOrg EXCEPT !.is = "whole"]]
                  /\ AddUpsertAdminOrganizationReadModelQuery(o, adminOrganizationProjectionRowFromWriteSpec(None), {})
                  /\ UNCHANGED <<users, mark, gc, time, signedIn>>

normalizeRoleForOrg(o, role) == IF role = "superadmin" /\ o # Platform THEN "owner" ELSE role
(* A user who is known by subject gets the role the provider claims, unless she is a superadmin of the platform. *)
syncRole(q) ==
    LET r == req[q]
        u == byOidc[r.sub]
        role == IF r.role = None \/ (user[u].role = "superadmin" /\ user[u].org = Platform) THEN normalizeRoleForOrg(user[u].org, user[u].role) ELSE r.role
    IN  /\ r.kind = "login" /\ u # None
        /\ req' = [req EXCEPT ![q].u = u, ![q].o = user[u].org, ![q].new = FALSE,
                              ![q].kind = IF Exists(u) /\ role # user[u].role THEN "update" ELSE "userReady",
                              ![q].next = IF Exists(u) THEN [Current(u) EXCEPT !.role = role] ELSE NoNext]
        /\ UNCHANGED <<users, orgs, gc, time, signedIn>>
(* A user who is known by email is attached. *)
findByEmail(q) ==
    LET r == req[q]
    IN  /\ r.kind = "login" /\ byOidc[r.sub] = None
        /\ \E u \in lookupUserByEmail(r.email) : req' = [req EXCEPT ![q].kind = "attach", ![q].u = u, ![q].o = user[u].org, ![q].new = FALSE]
        /\ UNCHANGED <<users, orgs, gc, time, signedIn>>
attachOIDCIdentity(q) ==
    LET r == req[q]
    IN  /\ r.kind = "attach"
        /\ byOidc' = [byOidc EXCEPT ![r.sub] = r.u] /\ byEmail' = [byEmail EXCEPT ![r.email] = r.u]
        /\ user' = [user EXCEPT ![r.u].is = IF Exists(r.u) THEN @ ELSE "ghost", ![r.u].org = r.o]
        /\ Then(q, "userReady") /\ UNCHANGED <<found, lists, orgs, gc, time, signedIn>>
(* Any other is made; the first user of a new organization owns it. *)
createUser(q) ==
    LET r == req[q]
        role == IF r.new THEN "owner" ELSE IF r.role = None THEN "user" ELSE r.role
    IN  /\ r.kind = "login" /\ byOidc[r.sub] = None /\ lookupUserByEmail(r.email) = {}
        /\ IF ~r.new /\ ~CheckMaxUsers(r.o) THEN Fail(q)
           ELSE /\ \E u \in FreshUsers :
                     req' = [req EXCEPT ![q].kind = "create", ![q].u = u, ![q].role = role, ![q].new = TRUE,
                                        ![q].row = IF OrgExists(r.o) THEN BuildAdminOrganizationProjectionRowForNewUser(r.o, r.email, role) ELSE NoRow]
                /\ UNCHANGED <<users, orgs, gc, time, signedIn>>
(* Reads that find nothing do not refuse a login. *)
userReady(q) ==
    LET r == req[q]
    IN  /\ r.kind = "userReady"
        /\ IF (Exists(r.u) /\ user[r.u].status # "active") \/ (r.o # None /\ OrgExists(r.o) /\ org[r.o].status # "active") THEN Fail(q)
           ELSE signedIn' = [u |-> r.u, new |-> FALSE] /\ End(q) /\ UNCHANGED <<users, orgs, gc, time>>
(* A new user is not asked for a status. *)
acceptNew(q) == req[q].kind = "accept" /\ signedIn' = [u |-> req[q].u, new |-> TRUE] /\ End(q) /\ UNCHANGED <<users, orgs, gc, time>>

-----------------------------------------------------------------------------
(* The purge. *)

ListDeletedUsersExpired == {[id |-> f[1], at |-> f[2]] : f \in {g \in found : GetUserDeletedAt(g[1]) = g[2]}}
ListExpiredDeletedOrgs == {[id |-> o, at |-> mark[o]] : o \in {p \in Orgs : mark[p] > 0}}
(* What has passed its grace period and is not queued is queued. *)
scanExpiredDeletedUsers ==
    /\ "scan" \in Calls /\ ListDeletedUsersExpired \ items # {}
    /\ \E S \in SUBSET (ListDeletedUsersExpired \ items) : S # {} /\ items' = items \cup S
    /\ UNCHANGED <<users, orgs, lock, begun, time, signedIn, req>>
scanExpiredDeletedOrgs ==
    /\ "scan" \in Calls /\ ListExpiredDeletedOrgs \ items # {}
    /\ \E S \in SUBSET (ListExpiredDeletedOrgs \ items) : S # {} /\ items' = items \cup S
    /\ UNCHANGED <<users, orgs, lock, begun, time, signedIn, req>>

(* An item whose deletion is no longer the current one is dropped; another waits for the lock. *)
takeItem(q, i, at, b) ==
    IF at # i.at THEN items' = items \ {i} /\ UNCHANGED <<users, orgs, lock, begun, time, signedIn, req>>
    ELSE /\ lock[i.id] \in {None, Dead} /\ lock' = [lock EXCEPT ![i.id] = q]
         /\ Begin(q, b) /\ UNCHANGED <<users, orgs, items, begun, time, signedIn>>
(* The end of an item, done or stale. *)
finish(q) == lock' = [lock EXCEPT ![req[q].item.id] = None] /\ items' = items \ {req[q].item} /\ End(q)
(* An item that failed stays. *)
retry(q) == lock' = [lock EXCEPT ![req[q].item.id] = None] /\ End(q) /\ UNCHANGED <<users, orgs, items, begun, time, signedIn>>

processUserCascade(q) ==
    /\ Ask(q, "worker")
    /\ \E i \in items : i.id \in Users /\ takeItem(q, i, GetUserDeletedAt(i.id), [kind |-> "purgeUser", u |-> i.id, item |-> i])
(* The deletion is read again under the lock. *)
recheckUser(q) ==
    LET r == req[q]
    IN  /\ r.kind = "purgeUser"
        /\ IF GetUserDeletedAt(r.u) # r.item.at THEN finish(q) /\ UNCHANGED <<users, orgs, begun, time, signedIn>>
           ELSE /\ req' = [req EXCEPT ![q].kind = "hardDelete", ![q].email = user[r.u].email, ![q].o = user[r.u].org]
                /\ UNCHANGED <<users, orgs, gc, time, signedIn>>

(* The user, the row by email and the lists go; the row by OIDC subject stays. *)
HardDeleteUser(u, o, email) ==
    /\ user' = [user EXCEPT ![u] = NoUser]
    /\ byEmail' = IF email = None THEN byEmail ELSE [byEmail EXCEPT ![email] = None]
    /\ found' = IF user[u].del > 0 THEN found \ {<<u, user[u].del>>} ELSE found
    /\ AddDeleteAdminUserReadModelQuery(u)
    /\ IF OrgExists(o)
       THEN AddUpsertAdminOrganizationReadModelQuery(o, buildAdminOrganizationProjectionRowAfterUserDelete(o, u), {orgState[o]} \ {org[o].status})
       ELSE AddDeleteAdminOrganizationReadModelQuery(o)
    /\ UNCHANGED <<byOidc, org, mark>>
purgeUser(q) ==
    LET r == req[q]
    IN  r.kind = "hardDelete" /\ HardDeleteUser(r.u, r.o, r.email) /\ finish(q) /\ UNCHANGED <<begun, time, signedIn>>

processOrgCascade(q) ==
    /\ Ask(q, "worker")
    /\ \E i \in items : i.id \in Orgs /\ takeItem(q, i, GetOrgDeletedAt(i.id), [kind |-> "beginPurge", o |-> i.id, item |-> i])
(* From now on the organization cannot be restored. *)
BeginOrgPurge(q) ==
    LET r == req[q]
    IN  /\ r.kind = "beginPurge"
        /\ IF GetOrgDeletedAt(r.o) # r.item.at THEN finish(q) /\ UNCHANGED <<users, orgs, begun, time, signedIn>>
           ELSE /\ org' = [org EXCEPT ![r.o].status = "purging"]
                /\ Then(q, "listUsers") /\ UNCHANGED <<users, mark, orgLists, gc, time, signedIn>>
listOrgUsers(q) ==
    /\ req[q].kind = "listUsers" /\ req' = [req EXCEPT ![q].kind = "purgeUsers", ![q].us = ListUsersByOrg(req[q].o)]
    /\ UNCHANGED <<users, orgs, gc, time, signedIn>>
purgeOrgUser(q) ==
    LET r == req[q]
        u == Min(r.us)
    IN  /\ r.kind = "purgeUsers" /\ r.us # {}
        /\ HardDeleteUser(u, r.o, user[u].email) /\ begun' = begun \cup {r.o}
        /\ req' = [req EXCEPT ![q].us = @ \ {u}] /\ UNCHANGED <<lock, items, time, signedIn>>
ensureOrgHasNoLiveChildren(o) == ListUsersByOrg(o) = {}
(* An organization that is no longer purging, or has new users, is left to a later attempt. *)
HardDeleteOrgLocked(q) ==
    LET r == req[q]
    IN  /\ r.kind = "purgeUsers" /\ r.us = {}
        /\ IF ~OrgExists(r.o) \/ org[r.o].status # "purging" \/ ~ensureOrgHasNoLiveChildren(r.o) THEN retry(q)
           ELSE /\ AddDeleteAdminOrganizationReadModelQuery(r.o)
                /\ org' = [org EXCEPT ![r.o] = NoOrg] /\ mark' = [mark EXCEPT ![r.o] = 0]
                /\ begun' = begun \ {r.o} /\ finish(q) /\ UNCHANGED <<users, time, signedIn>>

(* A process dies; its lock is taken over when its lease has ended. *)
Crash(q) ==
    /\ "crash" \in Faults /\ req[q].kind # "none"
    /\ lock' = [x \in DOMAIN lock |-> IF lock[x] = q THEN Dead ELSE lock[x]]
    /\ End(q) /\ UNCHANGED <<users, orgs, items, begun, time, signedIn>>

-----------------------------------------------------------------------------
Init ==
    /\ user = [u \in Users |-> NoUser] /\ byEmail = [e \in Emails |-> None] /\ byOidc = [s \in Subs |-> None] /\ found = {}
    /\ list = [u \in Users |-> None] /\ byStatus = [u \in Users |-> {}] /\ state = [u \in Users |-> None]
    /\ org = [o \in Orgs |-> IF o = Platform THEN [NoOrg EXCEPT !.is = "whole"] ELSE NoOrg] /\ mark = [o \in Orgs |-> 0]
    /\ orgList = [o \in Orgs |-> IF o = Platform THEN NoRow ELSE None] /\ orgByStatus = [o \in Orgs |-> IF o = Platform THEN {"active"} ELSE {}]
    /\ orgState = [o \in Orgs |-> IF o = Platform THEN "active" ELSE None]
    /\ lock = [x \in Users \cup Orgs |-> None] /\ items = {} /\ time = 0 /\ begun = {} /\ signedIn = [u |-> None, new |-> FALSE]
    /\ req = [q \in Reqs |-> Done]

Handler(q) ==
    \/ AdminCreateUser(q) \/ AdminAddOrgUser(q) \/ AddOrgUser(q) \/ ImportOrgUsers(q)
    \/ UpdateUserByEmail(q) \/ UpdateUser(q) \/ BatchAddAdmins(q) \/ UpdateOrgUser(q) \/ AdminUpdateOrgUser(q) \/ TransferOrgOwnership(q)
    \/ DeleteUserByEmail(q) \/ SoftDeleteUser(q) \/ AdminDeleteOrgUser(q) \/ DeleteOrgUser(q) \/ RestoreUser(q) \/ RestoreOrgUser(q)
    \/ CreateOrganization(q) \/ UpdateOrganization(q) \/ UpdateOrgInfo(q)
    \/ SoftDeleteOrganization(q) \/ DeactivateOrganization(q) \/ RestoreOrganization(q) \/ ReactivateOrganization(q) \/ provisionUser(q)
Write(q) ==
    \/ CreateUserWithLookupsAndReadModels(q) \/ activateUser(q) \/ readAdminCanonicalUserState(q) \/ UpdateUserAndAdminReadModels(q) \/ TransferOwnership(q)
    \/ CreateOrganizationWithUsersAndReadModels(q) \/ writeOrganization(q) \/ UpdateOrganizationLifecycleAndReadModel(q)
    \/ activateOrg(q) \/ unmark(q) \/ repairActiveOrganizationReadModels(q)
    \/ syncRole(q) \/ findByEmail(q) \/ attachOIDCIdentity(q) \/ createUser(q) \/ userReady(q) \/ acceptNew(q)
Take(q) == processUserCascade(q) \/ processOrgCascade(q)
Purge(q) == recheckUser(q) \/ purgeUser(q) \/ BeginOrgPurge(q) \/ listOrgUsers(q) \/ purgeOrgUser(q) \/ HardDeleteOrgLocked(q)
Next ==
    \/ scanExpiredDeletedUsers \/ scanExpiredDeletedOrgs
    \/ \E q \in Reqs : Handler(q) \/ Write(q) \/ Take(q) \/ Purge(q) \/ Crash(q)
Spec == Init /\ [][Next]_vars

-----------------------------------------------------------------------------
Quiet == \A q \in Reqs : req[q] = Done

(* Every user is found by her email, and the index names no user who is gone (internal/db/admin_identity_write_helpers.go). *)
EmailsAgree ==
    Quiet => \A e \in Emails : {u \in Users : Exists(u) /\ user[u].email = e} = (IF byEmail[e] = None THEN {} ELSE {byEmail[e]})

(* The administrators' lists of users and of organizations, filtered or not, show what the canonical rows say: status, role, other     *)
(* columns, the number of users, and an owner who is a user of the organization; a purge that has begun may still be shown as a        *)
(* deletion (internal/db/admin_identity_read_models.go).                                                                               *)
ListsAgree ==
    Quiet =>
        /\ \A s \in Statuses : ListAllUsers(s) = {<<u, user[u].role, user[u].quota>> : u \in {v \in Users : Exists(v) /\ user[v].status = s}}
        /\ \A e \in Emails : SearchUsers(e) = GetUserByEmail(e)
        /\ \A o \in Orgs, e \in Emails : SearchOrgUser(o, e) = GetOrgUser(o, e) /\ AdminGetOrgUser(o, e) = GetOrgUser(o, e)
        /\ \A s \in Statuses : {u \in AllAdminUserRows : list[u].status = s} = UNION {ListOrgUsersByAdmin(o, s) : o \in Orgs}
        /\ ListAdminUsers \subseteq {u \in Users : user[u].org = Platform}
        /\ {[r EXCEPT ![2] = IF @ = "purging" THEN "deleted" ELSE @] : r \in AdminSearchOrganizations}
              = {[GetOrganization(o) EXCEPT ![2] = IF @ = "purging" THEN "deleted" ELSE @] : o \in {p \in Orgs : OrgExists(p)}}
        /\ \A s \in {"active", "deactivated"} : ListOrganizations(s) = {<<o, GetOrgInfo(o)[1]>> : o \in {p \in Orgs : OrgExists(p) /\ org[p].status = s}}
        /\ \A o \in Orgs : orgList[o] # None => orgList[o].owner \in {user[u].email : u \in ListUsersByOrg(o)} \cup (IF orgList[o].count = 0 THEN {None} ELSE {})

(* An organization has at most one owner as long as no provider claims that role (internal/api/v2/role_helpers.go: buildOwnershipTransferPlan). *)
OneOwner == \A o \in Orgs : Cardinality({u \in ListUsersByOrg(o) : user[u].role = "owner"}) <= 1

(* Only a superadmin, the owner herself, the provider's claim at a login, or the purge takes an active owner from an organization (UpdateOrgUser, DeleteOrgUser). *)
HasOwner(o) == \E u \in ListUsersByOrg(o) : user[u].role = "owner" /\ user[u].status = "active"
OwnerKept ==
    \A o \in Orgs : HasOwner(o) /\ ~HasOwner(o)' =>
        \E q \in Reqs : req[q] # req'[q] /\ (req[q].c = Super \/ req[q].item # NoItem \/ req[q].sub # None \/ (req[q].c \in Users /\ user[req[q].c].role = "owner"))

(* Not kept by the code (README, section 5). The list shows the owner of an organization that has one (internal/db/admin_identity_read_models.go: ResolveAdminOrganizationOwnerFields). *)
OwnerListed ==
    Quiet => \A o \in Orgs, u \in Users : u \in ListUsersByOrg(o) /\ user[u].role = "owner" => orgList[o].owner = user[u].email

(* A preview of a smaller plan names as many users as bring the organization under the limit, and no more (PreviewOrganizationPlanChange). *)
PreviewFits ==
    \A o \in Orgs, max \in 1..(MaxUsers + 1) :
        LET n == PreviewOrganizationPlanChange(o, max)
            s == readOrgPlanPreviewMemberStats(o)
            left == s.protected + s.regular - n
        IN  /\ n \in 0..s.regular /\ (left <= max \/ n = s.regular)
            /\ n > 0 => left + 1 > max

(* Every deleted user has the row by day that the GC finds her by, whatever requests meet (UpdateUserAndAdminReadModels). *)
DeletedFound == \A u \in Users : GetUserDeletedAt(u) > 0 => <<u, GetUserDeletedAt(u)>> \in found

(* A deleted organization keeps the marker of its deletion: without it the GC would never purge it (UpdateOrganizationLifecycleAndReadModel, *)
(* repairActiveOrganizationReadModels).                                                                                                   *)
DeletedMarked == \A o \in Orgs : GetOrgDeletedAt(o) > 0 => mark[o] = GetOrgDeletedAt(o)

(* Not kept by the code (README, section 5). An organization that has lost users to a purge is never in use again (internal/gc/store_cassandra.go: BeginOrgPurge; activateOrg). *)
PurgeNotUndone == \A o \in begun : org[o].status = "purging"

(* Not kept by the code (README, section 5). A user who was restored is there, whole, until she is deleted again (internal/gc/worker.go: processUserCascade; activateUser). *)
RestoredStays ==
    [][\A u \in Users : Exists(u) /\ ~Exists(u)' => user[u].status = "deleted" \/ org[user[u].org].status = "purging"]_vars
(* Not kept by the code (README, section 5). An update makes no user without an email (internal/db/admin_identity_write_helpers.go: UpdateUserAndAdminReadModels). *)
NoGhosts == \A u \in Users : user[u].is # "ghost"

(* Not kept by the code (README, section 5). A deleted user comes back only by a request that asked for it: a restore, or an edit that makes her active (activateUser, UpdateUserByEmail). *)
DeletedStays ==
    [][\A u \in Users : GetUserDeletedAt(u) > 0 /\ Exists(u)' /\ user'[u].status = "active" =>
         \E q \in Reqs : req[q].u = u /\ req[q].kind = "write" /\ req[q].seen.status = "deleted"]_vars

(* Not kept by the code (README, section 5). The user of an accepted login exists and is active, in an organization that is active (internal/auth/oidc.go: provisionUser). *)
LoginLive ==
    signedIn' # signedIn =>
        LET u == signedIn'.u IN Exists(u) /\ user[u].status = "active" /\ org[user[u].org].is = "whole" /\ org[user[u].org].status = "active"

(* No organization has more users than its plan allows, when ImportOrgUsers is not used (internal/traffic/checker.go: CheckMaxUsers). *)
WithinMaxUsers == \A o \in Orgs : CountAdminOrganizationUsers(o) <= MaxUsers
=============================================================================

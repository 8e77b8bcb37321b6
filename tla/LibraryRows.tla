---------------------------- MODULE LibraryRows ----------------------------
(***************************************************************************)
(* The life of a library: created, changed, put in the trash, restored,    *)
(* deleted for good, and purged by the GC.  A library is a canonical row   *)
(* (libraries), a row by id, the read models of the lists, a marker of its *)
(* deletion, its policies, its links, and its commits and file system      *)
(* objects.                                                                *)
(*                                                                         *)
(* Every change is one logged batch of upserts, made from rows that were   *)
(* read before it; an update of a canonical row that is gone makes a row   *)
(* with the updated columns only (a ghost).  Restores and purges hold the  *)
(* hard-delete lock of the library and renew it right before their batch;  *)
(* the renewal and the batch are one step here, for a lock goes stale only *)
(* 90 minutes after a renewal.                                             *)
(***************************************************************************)
EXTENDS Integers, FiniteSets

CONSTANTS Users, Libs, Names,
          MaxLibraries, \* the limit of the plan
          MaxTime,      \* bound on the deletions
          Reqs,         \* requests of clients and tasks of the GC worker
          Workers,      \* the ones among them that may take items of the GC queue: one, or two when two instances believe they lead
          Calls, Faults, None,
          Dead          \* the holder of a lock that crashed

LibraryAssumption == MaxLibraries \in Nat /\ MaxTime \in Nat

VARIABLES canon,    \* libraries
          byId,     \* libraries_by_id
          byOwner,  \* libraries_by_owner
          byOrg,    \* libraries_by_org_updated and libraries_admin_global_by_updated
          trash,    \* libraries_deleted_by_org: the deletion times of a library
          marker,   \* deleted_libraries
          policy,   \* the libraries of each GC policy
          contents, \* commits and file system objects
          links,    \* libraries with share links
          lock,     \* gc_library_hard_delete_locks
          pending,  \* library_rollback_pending, with the owner it was created for
          items,    \* GC queue
          time,     \* the last deletion
          purged,   \* ghost: libraries that were deleted for good or rolled back
          committed, \* ghost: libraries that got their first commit and were not deleted for good
          req       \* what each request is about to do

lists == <<byOwner, byOrg, trash>>
rows == <<canon, byId, lists, marker, policy>>
gc == <<contents, links, items>>
ghosts == <<purged, committed>>
vars == <<rows, gc, lock, pending, time, ghosts, req>>

(* The objects of a library: the commits, named for the request that made them, and the file system objects. *)
Objects == Reqs \cup {"fs"}
Days == {0, 1}
NoRow == [is |-> "absent", owner |-> None, name |-> None, del |-> 0, head |-> None, ttl |-> 0, auto |-> 0]
NoMark == [del |-> 0, purge |-> FALSE]
NoLock == [by |-> None, stale |-> FALSE]
NoPrev == [owner |-> None, name |-> None, del |-> 0]
Item == [id : Objects \cup {"cascade"}, l : Libs, at : 0..MaxTime, guard : {"identity", "absent"}]
NoItem == [id |-> None, l |-> None, at |-> 0, guard |-> "identity"]
Done == [kind |-> "none", l |-> None, u |-> None, name |-> None, at |-> 0, days |-> -1, auto |-> -1, opt |-> FALSE,
         prev |-> NoPrev, item |-> NoItem]

TypeOK ==
    /\ canon \in [Libs -> [is : {"absent", "whole", "ghost"}, owner : Users \cup {None}, name : Names \cup {None},
                           del : 0..MaxTime, head : Reqs \cup {None}, ttl : Days, auto : Days]]
    /\ byId \in [Libs -> [owner : Users \cup {None}, name : Names \cup {None}] \cup {None}]
    /\ byOwner \in [Users -> [Libs -> [name : Names \cup {None}, del : 0..MaxTime] \cup {None}]]
    /\ byOrg \in [Libs -> [owner : Users \cup {None}, name : Names \cup {None}, del : 0..MaxTime] \cup {None}]
    /\ trash \in [Libs -> SUBSET (1..MaxTime)] /\ marker \in [Libs -> [del : 0..MaxTime, purge : BOOLEAN]]
    /\ policy \in [{"ttl", "auto"} -> SUBSET Libs] /\ contents \in [Libs -> SUBSET Objects] /\ links \subseteq Libs
    /\ lock \in [Libs -> [by : Reqs \cup {None, Dead}, stale : BOOLEAN]] /\ pending \in [Libs -> Users \cup {None}]
    /\ items \subseteq Item /\ time \in 0..MaxTime /\ purged \subseteq Libs /\ committed \subseteq Libs

-----------------------------------------------------------------------------
(* Rows. *)

Exists(l) == canon[l].is # "absent"
ReadLiveLibraryState(l) == Exists(l) /\ canon[l].del = 0
CanonicalLibraryExists(l) == Exists(l)
GetLibraryDeletedAt(l) == marker[l].del
LibraryExists(l) == byId[l] # None
ReadAdminLibraryProjectionRow(l) == [owner |-> canon[l].owner, name |-> canon[l].name, del |-> canon[l].del]
CountActiveLibraries == Cardinality({l \in Libs : byOrg[l] # None /\ byOrg[l].del = 0})
ownerHasActiveLibraryNamed(u, n) == \E l \in Libs : byOwner[u][l] # None /\ byOwner[u][l].del = 0 /\ byOwner[u][l].name = n

(* What the lists show: to its owner (Sharing tells of the shares), to administrators, in the trash. *)
Live == {l \in Libs : Exists(l) /\ canon[l].del = 0}
GetLibrary(l) == l \in Live
GetLibraryV21(l) == l \in Live
ListLibraries(u) == {l \in Live : canon[l].owner = u}
ListLibrariesV21(u) == {l \in Live : canon[l].owner = u}
ListDeletedRepos(u) == {l \in Libs \ Live : Exists(l) /\ canon[l].owner = u}
ListAdminOwnerLibraryRows(u) == {l \in Libs : byOwner[u][l] # None}
ListAdminOrgLibraryRows == {l \in Libs : byOrg[l] # None}
AdminListAllLibraries(u) == {l \in ListAdminOwnerLibraryRows(u) : byOwner[u][l].del = 0}
AdminSearchLibraries(n) == {l \in ListAdminOrgLibraryRows : byOrg[l].del = 0 /\ byOrg[l].name = n}
ListOrgRepos == {l \in ListAdminOrgLibraryRows : byOrg[l].del = 0}
ListOrgTrashLibraries == UNION {{l} \X trash[l] : l \in Libs}
AdminListTrashLibraries == {r \in ListOrgTrashLibraries : Exists(r[1]) /\ canon[r[1]].del > 0}

(* An update of some columns of a canonical row, which is made when it is absent. *)
Update(l, cols) ==
    [canon EXCEPT ![l] = [f \in DOMAIN NoRow |-> IF f \in DOMAIN cols THEN cols[f]
                                                 ELSE IF f = "is" /\ canon[l].is = "absent" THEN "ghost" ELSE canon[l][f]]]
(* A row by id that is gone is made with the updated column only. *)
UpdateById(l, cols) ==
    [byId EXCEPT ![l] = [f \in {"owner", "name"} |-> IF f \in DOMAIN cols THEN cols[f] ELSE IF byId[l] = None THEN None ELSE byId[l][f]]]

Unlist(f, u, l) == [o \in Users |-> IF o = u THEN [f[o] EXCEPT ![l] = None] ELSE f[o]]
Enlist(f, l, r) == [o \in Users |-> IF o = r.owner THEN [f[o] EXCEPT ![l] = [name |-> r.name, del |-> r.del]] ELSE f[o]]

(* The read models of a changed row: the rows of the previous owner go, and the trash row when the library leaves the trash. *)
AddRefreshAdminLibraryReadModelQueries(l, r, prev) ==
    LET moved == prev.owner # r.owner
    IN  /\ byOwner' = Enlist(IF moved THEN Unlist(byOwner, prev.owner, l) ELSE byOwner, l, r)
        /\ byOrg' = [byOrg EXCEPT ![l] = [owner |-> r.owner, name |-> r.name, del |-> r.del]]
        /\ trash' = [trash EXCEPT ![l] = (IF moved \/ r.del = 0 THEN @ \ {prev.del} ELSE @) \cup ({r.del} \ {0})]

(* The rows of a library that goes: found by its canonical row, or by its trash row when that is gone. *)
AddDeleteAdminLibraryReadModelQueries(l) ==
    LET owner == IF Exists(l) THEN canon[l].owner ELSE IF byOrg[l] # None THEN byOrg[l].owner ELSE None
    IN  IF Exists(l) \/ trash[l] # {}
        THEN /\ byOwner' = Unlist(byOwner, owner, l) /\ byOrg' = [byOrg EXCEPT ![l] = None]
             /\ \E t \in IF Exists(l) THEN {canon[l].del} ELSE trash[l] : trash' = [trash EXCEPT ![l] = @ \ {t}]
        ELSE UNCHANGED lists

-----------------------------------------------------------------------------
(* Requests. *)

Ask(q, name) == name \in Calls /\ req[q].kind = "none"
Record(b) == [f \in DOMAIN Done |-> IF f \in DOMAIN b THEN b[f] ELSE Done[f]]
Send(q, b) == req' = [req EXCEPT ![q] = Record(b)] /\ UNCHANGED <<rows, gc, lock, pending, time, ghosts>>
End(q) == req' = [req EXCEPT ![q] = Done]
Then(q, kind) == req' = [req EXCEPT ![q].kind = kind]
Fresh == {l \in Libs : ~Exists(l) /\ l \notin purged /\ \A p \in Reqs : req[p].l # l}

CreateLibrary(q) ==
    /\ Ask(q, "CreateLibrary") /\ CountActiveLibraries < MaxLibraries
    /\ \E u \in Users, n \in Names, l \in Fresh :
         ~ownerHasActiveLibraryNamed(u, n) /\ Send(q, [kind |-> "create", l |-> l, u |-> u, name |-> n])
AdminCreateLibrary(q) ==
    /\ Ask(q, "AdminCreateLibrary")
    /\ \E u \in Users, n \in Names, l \in Fresh : Send(q, [kind |-> "create", l |-> l, u |-> u, name |-> n])
(* A library of a group (Groups) gets its rows first and its first commit later. *)
CreateGroupLibrary(q) ==
    /\ Ask(q, "CreateGroupLibrary") /\ CountActiveLibraries < MaxLibraries
    /\ \E u \in Users, n \in Names, l \in Fresh : Send(q, [kind |-> "create", l |-> l, u |-> u, name |-> n, opt |-> TRUE])

(* The batch of a new library; its retention policy is the default one. *)
insertLibrary(q) ==
    LET l == req[q].l   r == [owner |-> req[q].u, name |-> req[q].name, del |-> 0]   null == req[q].opt
    IN  /\ req[q].kind = "create"
        /\ canon' = [canon EXCEPT ![l] = [is |-> "whole", owner |-> r.owner, name |-> r.name, del |-> 0, head |-> IF null THEN None ELSE q,
                                          ttl |-> IF null THEN 0 ELSE 1, auto |-> 0]]
        /\ byId' = [byId EXCEPT ![l] = [owner |-> r.owner, name |-> r.name]]
        /\ AddRefreshAdminLibraryReadModelQueries(l, r, r)
        /\ policy' = IF null THEN policy ELSE [policy EXCEPT !["ttl"] = @ \cup {l}]
        /\ contents' = IF null THEN contents ELSE [contents EXCEPT ![l] = {q, "fs"}]
        /\ links' = IF "links" \in Calls THEN links \cup {l} ELSE links
        /\ committed' = IF null THEN committed ELSE committed \cup {l}
        /\ IF null THEN Then(q, "initfs") ELSE End(q)
        /\ UNCHANGED <<marker, items, lock, pending, time, purged>>

(* Changes by the owner or an administrator of the organisation; a column that is not given stays. *)
Change(q, name, live, cols) ==
    /\ Ask(q, name)
    /\ \E l \in Libs : /\ IF live THEN ReadLiveLibraryState(l) ELSE LibraryExists(l) /\ Exists(l)
                       /\ Send(q, [Record(cols) EXCEPT !.kind = "change", !.l = l, !.prev = ReadAdminLibraryProjectionRow(l)])

RenameLibrary(q) == \E n \in Names : Change(q, "RenameLibrary", TRUE, [name |-> n])
UpdateLibrary(q) == \E n \in Names \cup {None}, d \in Days \cup {-1} : Change(q, "UpdateLibrary", TRUE, [name |-> n, days |-> d])
ChangeStorageClass(q) == Change(q, "ChangeStorageClass", TRUE, [name |-> None])
SetHistoryLimit(q) == \E d \in Days : Change(q, "SetHistoryLimit", TRUE, [days |-> d])
AdminUpdateHistorySetting(q) == \E d \in Days : Change(q, "AdminUpdateHistorySetting", FALSE, [days |-> d])
SetAutoDelete(q) == \E d \in Days : Change(q, "SetAutoDelete", TRUE, [auto |-> d])
TransferLibrary(q) == \E u \in Users : Change(q, "TransferLibrary", TRUE, [u |-> u])
TransferOrgRepo(q) == \E u \in Users : Change(q, "TransferOrgRepo", TRUE, [u |-> u])
AdminTransferLibrary(q) == \E u \in Users : Change(q, "AdminTransferLibrary", FALSE, [u |-> u])

Given(r) == {f \in {"name", "owner", "ttl", "auto"} : CASE f = "name" -> r.name # None [] f = "owner" -> r.u # None
                                                       [] f = "ttl" -> r.days >= 0 [] f = "auto" -> r.auto >= 0}
Column(r, f) == CASE f = "name" -> r.name [] f = "owner" -> r.u [] f = "ttl" -> r.days [] f = "auto" -> r.auto

(* The policy row follows the setting. *)
AddLibraryPolicyQuery(p, r, f) == IF f \notin Given(r) THEN p ELSE IF Column(r, f) > 0 THEN p \cup {r.l} ELSE p \ {r.l}

(* The batch of a change. *)
updateLibraryOwner(q) ==
    LET r == req[q]   next == [f \in DOMAIN NoPrev |-> IF f \in Given(r) THEN Column(r, f) ELSE r.prev[f]]
    IN  /\ r.kind = "change"
        /\ canon' = Update(r.l, [f \in Given(r) |-> Column(r, f)])
        /\ byId' = IF Given(r) \cap {"name", "owner"} = {} THEN byId
                   ELSE UpdateById(r.l, [f \in Given(r) \cap {"name", "owner"} |-> Column(r, f)])
        /\ policy' = [f \in {"ttl", "auto"} |-> AddLibraryPolicyQuery(policy[f], r, f)]
        /\ AddRefreshAdminLibraryReadModelQueries(r.l, next, r.prev)
        /\ End(q) /\ UNCHANGED <<marker, gc, lock, pending, time, ghosts>>

-----------------------------------------------------------------------------
(* The trash. *)

(* The time of a deletion is taken before the rows are read. *)
SoftDelete(q, name, live) ==
    /\ Ask(q, name) /\ time < MaxTime
    /\ \E l \in Libs : /\ IF live THEN ReadLiveLibraryState(l) ELSE Exists(l)
                       /\ time' = time + 1
                       /\ req' = [req EXCEPT ![q] = Record([kind |-> "softDelete", l |-> l, at |-> time + 1,
                                                            prev |-> ReadAdminLibraryProjectionRow(l)])]
                       /\ UNCHANGED <<rows, gc, lock, pending, ghosts>>
DeleteLibrary(q) == SoftDelete(q, "DeleteLibrary", TRUE)
AdminDeleteLibrary(q) == SoftDelete(q, "AdminDeleteLibrary", TRUE)
DeleteOrgRepo(q) == SoftDelete(q, "DeleteOrgRepo", TRUE)
(* The libraries of a user whose account is purged, those in the trash too. *)
softDeleteUserLibraries(q) == SoftDelete(q, "softDeleteUserLibraries", FALSE)

softDeleteLibrary(q) ==
    /\ req[q].kind = "softDelete"
    /\ canon' = Update(req[q].l, [del |-> req[q].at])
    /\ marker' = [marker EXCEPT ![req[q].l].del = req[q].at]
    /\ AddRefreshAdminLibraryReadModelQueries(req[q].l, [req[q].prev EXCEPT !.del = req[q].at], req[q].prev)
    /\ End(q) /\ UNCHANGED <<byId, policy, gc, lock, pending, time, ghosts>>

(* Locks. *)
Free(l) == lock[l].by = None \/ lock[l].stale
AcquireLibraryHardDeleteLock(q, l) == Free(l) /\ lock' = [lock EXCEPT ![l] = [by |-> q, stale |-> FALSE]]
RenewLibraryHardDeleteLock(q, l) == lock[l].by = q
ReleaseLibraryHardDeleteLock(q, l) == IF lock[l].by = q THEN [lock EXCEPT ![l] = NoLock] ELSE lock

(* The end of whatever holds a lock; an item of the GC queue that is done with goes. *)
Release(q) ==
    /\ req[q].kind \in {"release", "ack"}
    /\ lock' = ReleaseLibraryHardDeleteLock(q, req[q].l)
    /\ items' = IF req[q].kind = "ack" THEN items \ {req[q].item} ELSE items
    /\ End(q) /\ UNCHANGED <<rows, contents, links, pending, time, ghosts>>

(* A restore and a permanent deletion start from a library in the trash. *)
FromTrash(q, name, kind, clean) ==
    /\ Ask(q, name)
    /\ \E l \in Libs : Exists(l) /\ canon[l].del > 0 /\ Send(q, [kind |-> kind, l |-> l, at |-> canon[l].del, opt |-> clean])
RestoreDeletedRepo(q) == FromTrash(q, "RestoreDeletedRepo", "restore", FALSE)
RestoreOrgTrashLibrary(q) == FromTrash(q, "RestoreOrgTrashLibrary", "restore", FALSE)
PermanentDeleteRepo(q) == FromTrash(q, "PermanentDeleteRepo", "purge", TRUE)
DeleteOrgTrashLibrary(q) == FromTrash(q, "DeleteOrgTrashLibrary", "purge", TRUE)
(* Each library of a cleaned trash is a candidate of its own. *)
CleanOrgTrashLibraries(q) == FromTrash(q, "CleanOrgTrashLibraries", "purge", TRUE)
AdminCleanTrashLibraries(q) == FromTrash(q, "AdminCleanTrashLibraries", "purge", FALSE)

(* The lock, and the canonical row under it. *)
restoreDeletedLibraryLock(q) ==
    LET l == req[q].l
    IN  /\ req[q].kind = "restore"
        /\ \/ /\ AcquireLibraryHardDeleteLock(q, l)
              /\ IF Exists(l) /\ canon[l].del > 0
                 THEN req' = [req EXCEPT ![q].kind = "restoring", ![q].prev = ReadAdminLibraryProjectionRow(l)]
                 ELSE Then(q, "release")
           \/ ~Free(l) /\ End(q) /\ UNCHANGED lock
        /\ UNCHANGED <<rows, gc, pending, time, ghosts>>

(* A mutant: the lock is not renewed before the batch. *)
restoreDeletedLibraryNoFence(q) ==
    LET l == req[q].l
    IN  /\ req[q].kind = "restoring"
        /\ canon' = Update(l, [del |-> 0]) /\ marker' = [marker EXCEPT ![l] = NoMark]
        /\ AddRefreshAdminLibraryReadModelQueries(l, [req[q].prev EXCEPT !.del = 0], req[q].prev)
        /\ Then(q, "release") /\ UNCHANGED <<byId, policy, gc, lock, pending, time, ghosts>>

restoreDeletedLibrary(q) ==
    LET l == req[q].l
    IN  /\ req[q].kind = "restoring"
        /\ \/ /\ RenewLibraryHardDeleteLock(q, l)
              /\ canon' = Update(l, [del |-> 0]) /\ marker' = [marker EXCEPT ![l] = NoMark]
              /\ AddRefreshAdminLibraryReadModelQueries(l, [req[q].prev EXCEPT !.del = 0], req[q].prev)
           \/ ~RenewLibraryHardDeleteLock(q, l) /\ UNCHANGED <<canon, lists, marker>>
        /\ Then(q, "release") /\ UNCHANGED <<byId, policy, gc, lock, pending, time, ghosts>>

permanentlyDeleteTrashedLibraryCandidate(q) ==
    LET l == req[q].l
    IN  /\ req[q].kind = "purge"
        /\ \/ /\ AcquireLibraryHardDeleteLock(q, l)
              /\ Then(q, IF ~Exists(l) \/ canon[l].del # req[q].at THEN "release" ELSE IF req[q].opt THEN "unlink" ELSE "purging")
           \/ ~Free(l) /\ End(q) /\ UNCHANGED lock
        /\ UNCHANGED <<rows, gc, pending, time, ghosts>>

(* The heartbeat may or may not have seen that the lock is lost. *)
cleanupLibraryLinks(q) ==
    /\ req[q].kind = "unlink"
    /\ \/ links' = links \ {req[q].l} /\ Then(q, "purging")
       \/ lock[req[q].l].by # q /\ Then(q, "release") /\ UNCHANGED links
    /\ UNCHANGED <<rows, contents, items, lock, pending, time, ghosts>>

(* The rows go and the marker asks for the purge; the cascade is queued in the background when that works. *)
hardDeleteLibraryRows(q) ==
    LET l == req[q].l
    IN  /\ req[q].kind = "purging"
        /\ \/ /\ RenewLibraryHardDeleteLock(q, l)
              /\ AddDeleteAdminLibraryReadModelQueries(l)
              /\ canon' = [canon EXCEPT ![l] = NoRow] /\ byId' = [byId EXCEPT ![l] = None]
              /\ marker' = [marker EXCEPT ![l] = [del |-> req[q].at, purge |-> TRUE]]
              /\ purged' = purged \cup {l} /\ committed' = committed \ {l}
              /\ \/ items' = items \cup {[id |-> "cascade", l |-> l, at |-> req[q].at, guard |-> "identity"]}
                 \/ "enqueue" \in Faults /\ UNCHANGED items
           \/ ~RenewLibraryHardDeleteLock(q, l) /\ UNCHANGED <<canon, byId, lists, marker, ghosts, items>>
        /\ Then(q, "release") /\ UNCHANGED <<policy, contents, links, lock, pending, time>>

(* The page of the administrators drops the trash rows of libraries that are not in the trash. *)
ReconcileDeletedAdminLibraryRowsByOrg ==
    /\ "Reconcile" \in Calls
    /\ trash' = [l \in Libs |-> IF Exists(l) /\ canon[l].del > 0 THEN trash[l] ELSE {}]
    /\ trash' # trash /\ UNCHANGED <<canon, byId, byOwner, byOrg, marker, policy, gc, lock, pending, time, ghosts, req>>

-----------------------------------------------------------------------------
(* The first commit, of a library whose rows were made without one; a client that reads the head makes it too. *)

InitializeLibraryFS(q) ==
    /\ req[q].kind = "initfs"
    /\ \/ contents' = [contents EXCEPT ![req[q].l] = @ \cup {q, "fs"}] /\ Then(q, "inithead")
       \/ "batch" \in Faults /\ Then(q, "rollback") /\ UNCHANGED contents
    /\ UNCHANGED <<rows, links, items, lock, pending, time, ghosts>>

GetHeadCommit(q) ==
    /\ Ask(q, "GetHeadCommit")
    /\ \E l \in Libs : ReadLiveLibraryState(l) /\ canon[l].head = None /\ Send(q, [kind |-> "read", l |-> l])
createInitialCommit(q) ==
    /\ req[q].kind = "read"
    /\ contents' = [contents EXCEPT ![req[q].l] = @ \cup {q, "fs"}]
    /\ Then(q, "readhead") /\ UNCHANGED <<rows, links, items, lock, pending, time, ghosts>>

(* What a failure means to the one who created the library, and to a reader. *)
Fail(q) == IF req[q].kind = "inithead" THEN Then(q, "rollback") ELSE End(q)
(* IF head_commit_id = null AND created_at != null; the one who comes second takes its commit back.
   A failure that leaves the outcome open forbids the rollback. *)
InitializeLibraryHeadIfUnset(q) ==
    LET l == req[q].l
    IN  /\ req[q].kind \in {"inithead", "readhead"}
        /\ \/ /\ canon[l].is = "whole" /\ canon[l].head = None
              /\ canon' = [canon EXCEPT ![l].head = q] /\ committed' = committed \cup {l} /\ End(q) /\ UNCHANGED contents
           \/ /\ ~(canon[l].is = "whole" /\ canon[l].head = None)
              /\ contents' = [contents EXCEPT ![l] = @ \ {q}]
              /\ IF canon[l].head # None THEN End(q) ELSE Fail(q)
              /\ UNCHANGED <<canon, committed>>
           \/ "cas" \in Faults /\ (Fail(q) \/ End(q)) /\ UNCHANGED <<canon, contents, committed>>
        /\ UNCHANGED <<byId, lists, marker, policy, links, items, lock, pending, time, purged>>

(* The rollback: a pending record, the canonical row while it has no head, the rows and objects that follow, the record. *)
rollbackNewLibrary(q) ==
    /\ req[q].kind = "rollback"
    /\ pending' = [pending EXCEPT ![req[q].l] = req[q].u]
    /\ Then(q, "unpublish") /\ UNCHANGED <<rows, gc, lock, time, ghosts>>
recoverPendingLibraryRollback(q) ==
    /\ Ask(q, "reaper")
    /\ \E l \in Libs : pending[l] # None /\ Send(q, [kind |-> "unpublish", l |-> l, u |-> pending[l]])
deleteUnpublishedLibraryRow(q) ==
    LET l == req[q].l
    IN  /\ req[q].kind = "unpublish"
        /\ \/ canon[l].head = None /\ canon' = [canon EXCEPT ![l] = NoRow] /\ purged' = purged \cup {l} /\ Then(q, "cleanup")
           \/ canon[l].head # None /\ Then(q, "settle") /\ UNCHANGED <<canon, purged>>
           \/ "cas" \in Faults /\ End(q) /\ UNCHANGED <<canon, purged>>
        /\ UNCHANGED <<byId, lists, marker, policy, gc, lock, pending, time, committed>>
cleanupRolledBackLibraryDerivedState(q) ==
    LET l == req[q].l
    IN  /\ req[q].kind = "cleanup"
        /\ policy' = [p \in DOMAIN policy |-> policy[p] \ {l}]
        /\ byOwner' = Unlist(byOwner, req[q].u, l) /\ byOrg' = [byOrg EXCEPT ![l] = None] /\ byId' = [byId EXCEPT ![l] = None]
        /\ contents' = [contents EXCEPT ![l] = {}]
        /\ Then(q, "settle") /\ UNCHANGED <<canon, trash, marker, links, items, lock, pending, time, ghosts>>
DeleteLibraryRollbackPending(q) ==
    /\ req[q].kind = "settle"
    /\ pending' = [pending EXCEPT ![req[q].l] = None]
    /\ End(q) /\ UNCHANGED <<rows, gc, lock, time, ghosts>>

-----------------------------------------------------------------------------
(* The GC: items are delivered at least once and carry the deletion they are about. *)

HasItem(l, id) == \E i \in items : i.l = l /\ i.id = id
Queue(l, ids, at, guard) == items' = items \cup [id : ids, l : {l}, at : {at}, guard : {guard}]

(* A mutant: only the retention counts. *)
scanExpiredOnly(l) ==
    /\ "scan" \in Calls /\ marker[l].del > 0 /\ "expire" \in Calls
    /\ Queue(l, {"cascade"}, marker[l].del, "identity")
    /\ items' # items /\ UNCHANGED <<rows, contents, links, lock, pending, time, ghosts, req>>
(* Deletions whose retention has passed, and those somebody asked to purge. *)
scanExpiredDeletedLibraries(l) ==
    /\ "scan" \in Calls /\ marker[l].del > 0 /\ (marker[l].purge \/ "expire" \in Calls)
    /\ Queue(l, {"cascade"}, marker[l].del, "identity")
    /\ items' # items /\ UNCHANGED <<rows, contents, links, lock, pending, time, ghosts, req>>
(* The objects of a library that has a marker and no row by id. *)
Orphans(l, kinds) ==
    /\ "scan" \in Calls /\ ~LibraryExists(l) /\ marker[l].del > 0
    /\ Queue(l, {id \in contents[l] \cap kinds : ~HasItem(l, id)}, 0, "absent")
    /\ items' # items /\ UNCHANGED <<rows, contents, links, lock, pending, time, ghosts, req>>
scanOrphanedCommits(l) == Orphans(l, Reqs)
scanOrphanedFSObjects(l) == Orphans(l, {"fs"})

Take(q, i, kind) == Send(q, [kind |-> kind, l |-> i.l, at |-> i.at, item |-> i])
DropItem(i) == items' = items \ {i} /\ UNCHANGED <<rows, contents, links, lock, pending, time, ghosts, req>>

processLibraryCascade(q) ==
    /\ q \in Workers /\ Ask(q, "worker")
    /\ \E i \in items : i.id = "cascade" /\ IF GetLibraryDeletedAt(i.l) = i.at THEN Take(q, i, "cascade") ELSE DropItem(i)
acquireLibraryCascadeLease(q) ==
    LET l == req[q].l
    IN  /\ req[q].kind = "cascade"
        /\ \/ AcquireLibraryHardDeleteLock(q, l) /\ Then(q, IF GetLibraryDeletedAt(l) = req[q].at THEN "enqueue" ELSE "ack")
           \/ ~Free(l) /\ End(q) /\ UNCHANGED lock
        /\ UNCHANGED <<rows, gc, pending, time, ghosts>>

(* A library of an organisation that is purged: it is put in the trash first when it is not there. *)
processOrgCascade(q) ==
    /\ q \in Workers /\ Ask(q, "orgCascade")
    /\ \E l \in Libs : Exists(l) /\ Send(q, [kind |-> "orgCascade", l |-> l])
processOrgCascadeLibrary(q) ==
    LET l == req[q].l
    IN  /\ req[q].kind = "orgCascade"
        /\ \/ /\ AcquireLibraryHardDeleteLock(q, l)
              /\ req' = [req EXCEPT ![q].kind = IF marker[l].del > 0 THEN "enqueue" ELSE IF Exists(l) THEN "trash" ELSE "release",
                                    ![q].at = marker[l].del, ![q].prev = ReadAdminLibraryProjectionRow(l)]
           \/ ~Free(l) /\ End(q) /\ UNCHANGED lock
        /\ UNCHANGED <<rows, gc, pending, time, ghosts>>
SoftDeleteLibrary(q) ==
    LET l == req[q].l
    IN  /\ req[q].kind = "trash" /\ time < MaxTime
        /\ time' = time + 1
        /\ canon' = Update(l, [del |-> time']) /\ marker' = [marker EXCEPT ![l].del = time']
        /\ AddRefreshAdminLibraryReadModelQueries(l, [req[q].prev EXCEPT !.del = time'], req[q].prev)
        /\ req' = [req EXCEPT ![q].kind = "enqueue", ![q].at = time']
        /\ UNCHANGED <<byId, policy, gc, lock, pending, ghosts>>

(* The objects are queued and what hangs on the library goes: links, shares, tags, tokens, locks, stars. *)
enqueueLibraryContentsAt(q) ==
    LET l == req[q].l
    IN  /\ req[q].kind = "enqueue"
        /\ Queue(l, contents[l], req[q].at, "identity") /\ links' = links \ {l}
        /\ Then(q, "hardDelete") /\ UNCHANGED <<rows, contents, lock, pending, time, ghosts>>

(* Fence and batch: every row goes, the marker last of all. *)
HardDeleteLibrary(q) ==
    LET l == req[q].l
    IN  /\ req[q].kind = "hardDelete"
        /\ \/ /\ RenewLibraryHardDeleteLock(q, l)
              /\ AddDeleteAdminLibraryReadModelQueries(l)
              /\ policy' = [p \in DOMAIN policy |-> policy[p] \ {l}]
              /\ canon' = [canon EXCEPT ![l] = NoRow] /\ byId' = [byId EXCEPT ![l] = None] /\ marker' = [marker EXCEPT ![l] = NoMark]
              /\ purged' = purged \cup {l} /\ committed' = committed \ {l} /\ Then(q, "ack")
           \/ ~RenewLibraryHardDeleteLock(q, l) /\ Then(q, "release") /\ UNCHANGED <<rows, ghosts>>
        /\ UNCHANGED <<gc, lock, pending, time>>

(* The guard of an item: the marker still tells of its deletion, or is gone with the canonical row. *)
Stale(i) == i.guard = "identity" /\ IF marker[i.l].del = 0 THEN Exists(i.l) ELSE marker[i.l].del # i.at
processObject(q) ==
    /\ q \in Workers /\ Ask(q, "worker")
    /\ \E i \in items :
         /\ i.id # "cascade"
         /\ IF i.id \notin contents[i.l] \/ Stale(i) THEN DropItem(i)
            ELSE IF i.guard = "identity" /\ marker[i.l].del = 0 THEN Send(q, [kind |-> "collect", l |-> i.l, at |-> i.at, item |-> i, opt |-> TRUE])
            ELSE Take(q, i, "guard")
acquireLibraryDeleteGuard(q) ==
    LET l == req[q].l   i == req[q].item
    IN  /\ req[q].kind = "guard"
        /\ \/ /\ AcquireLibraryHardDeleteLock(q, l)
              /\ Then(q, IF i.guard = "identity" /\ marker[l].del # i.at THEN "ack"
                         ELSE IF ~CanonicalLibraryExists(l) THEN "collect"
                         ELSE IF i.guard = "absent" THEN "ack" ELSE "release")
           \/ ~Free(l) /\ End(q) /\ UNCHANGED lock
        /\ UNCHANGED <<rows, gc, pending, time, ghosts>>
(* The root of a commit is queued with it. *)
processCommit(q) ==
    LET i == req[q].item
    IN  /\ req[q].kind = "collect" /\ i.id \in Reqs
        /\ IF HasItem(i.l, "fs") THEN UNCHANGED items ELSE Queue(i.l, {"fs"}, i.at, i.guard)
        /\ Then(q, "delete") /\ UNCHANGED <<rows, contents, links, lock, pending, time, ghosts>>
(* Its block references are the business of BlockLifecycle. *)
processFSObject(q) ==
    /\ req[q].kind = "collect" /\ req[q].item.id = "fs"
    /\ Then(q, "delete") /\ UNCHANGED <<rows, gc, lock, pending, time, ghosts>>
(* Fence and deletion; without a marker there was no lock to take. *)
DeleteObject(q) ==
    LET i == req[q].item
    IN  /\ req[q].kind = "delete"
        /\ \/ (req[q].opt \/ RenewLibraryHardDeleteLock(q, i.l)) /\ contents' = [contents EXCEPT ![i.l] = @ \ {i.id}] /\ Then(q, "ack")
           \/ ~(req[q].opt \/ RenewLibraryHardDeleteLock(q, i.l)) /\ Then(q, "release") /\ UNCHANGED contents
        /\ UNCHANGED <<rows, links, items, lock, pending, time, ghosts>>

(* Faults: a request is lost with its process, and a lock goes stale when its holder is gone or paused. *)
Crash(q) ==
    /\ "crash" \in Faults /\ req[q].kind # "none"
    /\ lock' = [l \in Libs |-> IF lock[l].by = q THEN [lock[l] EXCEPT !.by = Dead] ELSE lock[l]]
    /\ End(q) /\ UNCHANGED <<rows, gc, pending, time, ghosts>>
GoStale(l) ==
    /\ "stale" \in Faults /\ lock[l].by # None /\ ~lock[l].stale
    /\ lock' = [lock EXCEPT ![l].stale = TRUE] /\ UNCHANGED <<rows, gc, pending, time, ghosts, req>>

-----------------------------------------------------------------------------
Init ==
    /\ canon = [l \in Libs |-> NoRow] /\ byId = [l \in Libs |-> None] /\ byOwner = [u \in Users |-> [l \in Libs |-> None]]
    /\ byOrg = [l \in Libs |-> None] /\ trash = [l \in Libs |-> {}] /\ marker = [l \in Libs |-> NoMark]
    /\ policy = [p \in {"ttl", "auto"} |-> {}] /\ contents = [l \in Libs |-> {}] /\ links = {}
    /\ lock = [l \in Libs |-> NoLock] /\ pending = [l \in Libs |-> None] /\ items = {} /\ time = 0 /\ purged = {} /\ committed = {}
    /\ req = [q \in Reqs |-> Done]

Worker(q) ==
    \/ processLibraryCascade(q) \/ acquireLibraryCascadeLease(q) \/ enqueueLibraryContentsAt(q) \/ HardDeleteLibrary(q)
    \/ processObject(q) \/ acquireLibraryDeleteGuard(q) \/ processCommit(q) \/ processFSObject(q) \/ DeleteObject(q)
Client(q) ==
    \/ CreateLibrary(q) \/ AdminCreateLibrary(q) \/ CreateGroupLibrary(q) \/ insertLibrary(q)
    \/ RenameLibrary(q) \/ UpdateLibrary(q) \/ ChangeStorageClass(q) \/ SetHistoryLimit(q) \/ AdminUpdateHistorySetting(q)
    \/ SetAutoDelete(q) \/ TransferLibrary(q) \/ TransferOrgRepo(q) \/ DeleteOrgRepo(q) \/ AdminTransferLibrary(q) \/ updateLibraryOwner(q)
    \/ DeleteLibrary(q) \/ AdminDeleteLibrary(q) \/ softDeleteUserLibraries(q) \/ softDeleteLibrary(q)
    \/ RestoreDeletedRepo(q) \/ RestoreOrgTrashLibrary(q) \/ PermanentDeleteRepo(q) \/ DeleteOrgTrashLibrary(q)
    \/ CleanOrgTrashLibraries(q) \/ AdminCleanTrashLibraries(q)
    \/ restoreDeletedLibraryLock(q) \/ restoreDeletedLibrary(q)
    \/ permanentlyDeleteTrashedLibraryCandidate(q) \/ cleanupLibraryLinks(q) \/ hardDeleteLibraryRows(q)
    \/ InitializeLibraryFS(q) \/ GetHeadCommit(q) \/ createInitialCommit(q) \/ InitializeLibraryHeadIfUnset(q)
Rollback(q) ==
    \/ rollbackNewLibrary(q) \/ recoverPendingLibraryRollback(q) \/ deleteUnpublishedLibraryRow(q)
    \/ cleanupRolledBackLibraryDerivedState(q) \/ DeleteLibraryRollbackPending(q)
Scanner(l) == scanExpiredDeletedLibraries(l) \/ scanOrphanedCommits(l) \/ scanOrphanedFSObjects(l)

Next ==
    \/ \E q \in Reqs : \/ Client(q) \/ Rollback(q) \/ Worker(q) \/ Release(q) \/ Crash(q)
                        \/ processOrgCascade(q) \/ processOrgCascadeLibrary(q) \/ SoftDeleteLibrary(q)
    \/ \E l \in Libs : Scanner(l) \/ GoStale(l)
    \/ ReconcileDeletedAdminLibraryRowsByOrg

Spec == Init /\ [][Next]_vars

(* A request that was begun, by a client or the worker, goes on. *)
Begun(q) == req[q].kind # "none" /\ (Client(q) \/ Worker(q) \/ Release(q))

-----------------------------------------------------------------------------
(* Properties. *)

Idle == \A q \in Reqs : req[q].kind = "none"

(* Once no request is under way the row by id, the marker of the GC and the policies follow the canonical row
   (insertLibrary, updateLibraryOwner, softDeleteLibrary, restoreDeletedLibrary, HardDeleteLibrary: one batch each). *)
RowsAgree ==
    Idle => \A l \in Libs :
        LET c == canon[l]
        IN  /\ byId[l] = IF Exists(l) THEN [owner |-> c.owner, name |-> c.name] ELSE None
            /\ Exists(l) => marker[l] = [del |-> c.del, purge |-> FALSE]
            /\ Exists(l) => (l \in policy["ttl"] <=> c.ttl > 0) /\ (l \in policy["auto"] <=> c.auto > 0)

(* Once no request is under way owners and administrators see the same libraries, by owner and by name, and the trash has
   each deleted library once (AddRefreshAdminLibraryReadModelQueries, AddDeleteAdminLibraryReadModelQueries). *)
ListsAgree ==
    Idle => /\ \A u \in Users : /\ AdminListAllLibraries(u) = ListLibraries(u) /\ AdminListAllLibraries(u) = ListLibrariesV21(u)
                                /\ ListAdminOwnerLibraryRows(u) = ListLibraries(u) \cup ListDeletedRepos(u)
            /\ \A n \in Names : AdminSearchLibraries(n) = {l \in Live : canon[l].name = n}
            /\ \A l \in Libs : /\ GetLibrary(l) <=> l \in ListOrgRepos
                              /\ GetLibraryV21(l) <=> \E u \in Users : l \in AdminListAllLibraries(u)
            /\ ListOrgTrashLibraries = {<<l, canon[l].del>> : l \in UNION {ListDeletedRepos(u) : u \in Users}}
            /\ AdminListTrashLibraries = ListOrgTrashLibraries

(* The GC never collects the head of a library that has its row, in the trash or out of it, whatever crashes and
   takeovers of locks happen in between (acquireLibraryDeleteGuard, processLibraryCascade, restoreDeletedLibrary). *)
ContentsKept == \A l \in Libs : canon[l].is = "whole" /\ canon[l].head # None => {canon[l].head, "fs"} \subseteq contents[l]

(* When nothing of a library is left that the GC could start from, nothing of its contents is left either
   (HardDeleteLibrary removes the marker only after the objects are queued). *)
NothingLeaked ==
    \A l \in Libs : ~Exists(l) /\ marker[l].del = 0 /\ pending[l] = None /\ (\A i \in items : i.l # l) /\ (\A q \in Reqs : req[q].l # l)
                    => contents[l] = {} /\ (l \in purged => l \notin links)

(* A library that was deleted for good, or rolled back, has no canonical row again. *)
PurgedStays == \A l \in purged : ~Exists(l)

(* A library that got its first commit, from its creator or from a client that read its head, is whole until it is deleted for
   good: its row with its head, the row by id, the lists, and the objects of the head.  A rollback by the creator or by the reaper
   that was begun before the commit takes none of them, after a crash or an outcome left open too (InitializeLibraryHeadIfUnset,
   deleteUnpublishedLibraryRow, cleanupRolledBackLibraryDerivedState, recoverPendingLibraryRollback). *)
CommittedKept ==
    \A l \in committed :
        /\ canon[l].is = "whole" /\ canon[l].head # None /\ {canon[l].head, "fs"} \subseteq contents[l]
        /\ byId[l] # None /\ byOrg[l] # None /\ \E u \in Users : byOwner[u][l] # None
=============================================================================

------------------------------- MODULE Links -------------------------------
(***************************************************************************)
(* Public links: share links and upload links, the four tables that hold   *)
(* a link (share_links, share_links_by_creator, share_links_by_library and *)
(* the admin read model), the row by which the GC finds it when it has     *)
(* expired, and the count of an organisation that the plan limits.         *)
(*                                                                         *)
(* A handler reads and decides in one step; each batch is a later one.     *)
(* The inserts of a link that expires carry a TTL; the updates carry none, *)
(* and an update of a row that is gone makes a row of its own (a ghost)    *)
(* with the updated columns only.                                          *)
(***************************************************************************)
EXTENDS Integers, FiniteSets

CONSTANTS Users,     \* creators of links
          Tokens,    \* link tokens, random and never reused
          Libs,
          Passwords, \* password hashes
          LinkPerms, \* permissions that clients ask for
          MaxLinks,  \* max_share_links and max_upload_links of the plan
          MaxCount,  \* bound on the uses of a link
          Reqs, Calls, Faults, None

LinksAssumption == MaxLinks \in Nat /\ MaxCount \in Nat /\ LinkPerms \subseteq {"edit", "upload", "download", "preview"}

VARIABLES row,       \* share_links
          byCreator, \* share_links_by_creator
          admin,     \* admin_links_by_created and admin_links_by_org_created
          byLib,     \* share_links_by_library
          expiry,    \* gc_share_links_by_expiry
          passed,    \* tokens whose expiry time has passed
          count,     \* admin_link_counts_by_org (None: no row)
          refresh,   \* the recount of a count that runs in the background
          maker,     \* who created the link of a token (None: no link was inserted)
          status,    \* of a user
          org,       \* status of the organisation
          session,   \* users with a session that works
          lib,       \* live or trash
          cookie,    \* the password that the visitor has proved for a link
          gone,      \* ghost: tokens that a deletion has removed
          off,       \* ghost: tokens that were last switched off
          used,      \* ghost: how often a link was used since it was created
          req        \* what each request is about to do

tables == <<row, byCreator, admin, byLib, expiry>>
people == <<status, org, session, lib, cookie>>
rest == <<passed, maker, people, gone, off, used>>
vars == <<tables, count, refresh, rest, req>>

Kinds == {"share", "upload"}
RIdle == -2   \* no recount runs
RStart == -1  \* a recount was started; otherwise what it has counted
CanUpload == {"edit", "upload"}
CanDownload == {"edit", "download"}
LinkOf == [kind : Kinds, by : Users, lib : Libs, perm : LinkPerms \cup {None}, pw : Passwords \cup {None}, exp : BOOLEAN]
NoLink == [kind |-> None, by |-> None, lib |-> None, perm |-> None, pw |-> None, exp |-> FALSE]
(* A row: absent, whole, or a ghost; which of its columns were updated after the insert; its flag and its use counter. *)
RowOf == [is : {"absent", "whole", "ghost"}, touched : SUBSET {"active", "uses"}, active : BOOLEAN, uses : 0..MaxCount]
NoRow == [is |-> "absent", touched |-> {}, active |-> FALSE, uses |-> 0]
Done == [kind |-> "none", t |-> None, u |-> None, link |-> NoLink, set |-> {}, on |-> FALSE, uses |-> 0, more |-> 0, next |-> "none"]

TypeOK ==
    /\ row \in [Tokens -> {[link |-> l, r |-> x] : l \in LinkOf \cup {NoLink}, x \in RowOf}]
    /\ byCreator \in [Tokens -> RowOf] /\ admin \in [Kinds -> [Tokens -> RowOf]]
    /\ byLib \subseteq Tokens /\ expiry \subseteq Tokens \X Kinds /\ maker \in [Tokens -> Users \cup {None}] /\ org \in {"active", "off"} /\ passed \subseteq Tokens /\ gone \subseteq Tokens /\ off \subseteq Tokens
    /\ count \in [Kinds -> Int \cup {None}] /\ refresh \in [Kinds -> {RIdle, RStart} \cup Nat]
    /\ status \in [Users -> {"active", "off"}] /\ session \subseteq Users /\ lib \in [Libs -> {"live", "trash"}]
    /\ cookie \in [Tokens -> Passwords \cup {None}] /\ used \in [Tokens -> 0..MaxCount]
    /\ \A q \in Reqs : req[q].kind \in {"none", "insert", "delete", "removed", "setActive", "kill", "toggle", "orgToggle", "toggling", "count", "consume"}

-----------------------------------------------------------------------------
(* Rows. *)

(* The insert of a whole link; every link starts active and its earlier columns are overwritten. *)
Fresh(uses) == [is |-> "whole", touched |-> {}, active |-> TRUE, uses |-> uses]
(* An update of some columns: the row is made when it is absent. *)
Touch(r, cols, active, uses) ==
    [is |-> IF r.is = "absent" THEN "ghost" ELSE r.is, touched |-> r.touched \cup cols,
     active |-> IF "active" \in cols THEN active ELSE r.active, uses |-> IF "uses" \in cols THEN uses ELSE r.uses]
(* The TTL of the inserted columns runs out: the updated ones stay. *)
RunOut(r) == IF r.is = "whole" /\ r.touched # {}
             THEN [r EXCEPT !.is = "ghost", !.active = r.active /\ "active" \in r.touched, !.uses = IF "uses" \in r.touched THEN r.uses ELSE 0]
             ELSE IF r.is = "whole" THEN NoRow ELSE r

(* The columns of a link that a reader of share_links sees: a ghost has none. *)
Row(t) == row[t].link
Exists(t) == row[t].r.is # "absent"
Whole(t) == row[t].r.is = "whole"

-----------------------------------------------------------------------------
(* What the lists show. *)

ListLinks(u, k) == {t \in Tokens : byCreator[t].is = "whole" /\ maker[t] = u /\ Row(t).kind = k}
ListShareLinks(u) == ListLinks(u, "share")
ListUploadLinks(u) == ListLinks(u, "upload")
listAdminLinkProjectionRows(k) == {t \in Tokens : admin[k][t].is # "absent"}
AdminListShareLinks == listAdminLinkProjectionRows("share")
AdminListUploadLinks == listAdminLinkProjectionRows("upload")
listAdminLinkProjectionRowsByOrg(k) == {t \in Tokens : admin[k][t].is # "absent"}
ListOrgLinks == listAdminLinkProjectionRowsByOrg("share")
ListOrgUploadLinks == listAdminLinkProjectionRowsByOrg("upload")
(* The creator is a column: a ghost has none. *)
listAdminLinkProjectionRowsByCreator(u, k) == {t \in Tokens : admin[k][t].is = "whole" /\ maker[t] = u}
AdminListUserShareLinks(u) == listAdminLinkProjectionRowsByCreator(u, "share")
AdminListUserUploadLinks(u) == listAdminLinkProjectionRowsByCreator(u, "upload")

(* The count that the plan limit reads: a missing or negative one counts as none, and a recount is started. *)
CountAdminOrgLinks(k) == IF count[k] = None \/ count[k] < 0 THEN 0 ELSE count[k]
ScheduleAdminOrgLinkCountRefresh(k) == [refresh EXCEPT ![k] = IF @ = RIdle THEN RStart ELSE @]
recountAdminOrgLinks(k) == Cardinality(listAdminLinkProjectionRowsByOrg(k))

RefreshAdminOrgLinkCount(k) ==
    /\ refresh[k] = RStart /\ refresh' = [refresh EXCEPT ![k] = recountAdminOrgLinks(k)]
    /\ UNCHANGED <<tables, count, rest, req>>
ReplaceAdminOrgLinkCount(k) ==
    /\ refresh[k] >= 0
    /\ count' = [count EXCEPT ![k] = IF refresh[k] <= 0 THEN None ELSE refresh[k]]
    /\ refresh' = [refresh EXCEPT ![k] = RIdle]
    /\ UNCHANGED <<tables, rest, req>>

(* A counter without a row counts from zero; when the update fails the row is dropped and recounted. *)
BestEffortAdjustAdminOrgLinkCount(k, d) ==
    \/ /\ count' = [count EXCEPT ![k] = (IF @ = None THEN 0 ELSE @) + d]
       /\ UNCHANGED refresh
    \/ /\ "count" \in Faults
       /\ count' = [count EXCEPT ![k] = None]
       /\ refresh' = ScheduleAdminOrgLinkCountRefresh(k)

-----------------------------------------------------------------------------
(* Requests. *)

Ask(q, name) == name \in Calls /\ req[q].kind = "none"
Record(b) == [f \in DOMAIN Done |-> IF f \in DOMAIN b THEN b[f] ELSE Done[f]]
Send(q, b) == req' = [req EXCEPT ![q] = Record(b)] /\ UNCHANGED <<tables, count, refresh, rest>>
Unused == {t \in Tokens : ~Exists(t) /\ t \notin gone \cup passed /\ \A p \in Reqs : req[p].t # t /\ maker[t] = None}

(* A logged batch is applied whole or not at all. *)
BatchFails(q) ==
    /\ "logged" \in Faults /\ req[q].kind \in {"insert", "removed"}
    /\ req' = [req EXCEPT ![q] = Done] /\ UNCHANGED <<tables, count, refresh, rest>>

(* An unlogged batch may reach one table and not the others. *)
Partly(T) == IF "unlogged" \in Faults THEN SUBSET T ELSE {T}

MayCreate(u, l, k, n) == u \in session /\ lib[l] = "live" /\ CountAdminOrgLinks(k) + n <= MaxLinks
NewLink(u, l, k, perm, pw, exp) == [kind |-> k, by |-> u, lib |-> l, perm |-> perm, pw |-> pw, exp |-> exp]

(* The answer to a limit that has no count also starts the recount. *)
CreateLink(q, k, n, perms) ==
    \E u \in Users, l \in Libs, p \in perms, pw \in Passwords \cup {None}, t \in Unused :
      /\ MayCreate(u, l, k, n)
      /\ req' = [req EXCEPT ![q] = Record([kind |-> "insert", t |-> t, more |-> n - 1,
                                           link |-> NewLink(u, l, k, p, pw, "expiring" \in Calls)])]
      /\ refresh' = IF count[k] = None \/ count[k] < 0 THEN ScheduleAdminOrgLinkCountRefresh(k) ELSE refresh
      /\ UNCHANGED <<tables, count, rest>>

CreateShareLink(q) == Ask(q, "CreateShareLink") /\ CreateLink(q, "share", 1, LinkPerms)
CreateUploadLink(q) == Ask(q, "CreateUploadLink") /\ CreateLink(q, "upload", 1, {None})
BatchCreateShareLinks(q) == Ask(q, "BatchCreateShareLinks") /\ CreateLink(q, "share", 2, LinkPerms)

(* A mutant: the row of the admin pages is left out. *)
insertShareLinkNoAdmin(q) ==
    /\ req[q].kind = "insert"
    /\ row' = [row EXCEPT ![req[q].t] = [link |-> req[q].link, r |-> Fresh(req[q].uses)]]
    /\ byCreator' = [byCreator EXCEPT ![req[q].t] = Fresh(req[q].uses)]
    /\ byLib' = byLib \cup {req[q].t} /\ expiry' = IF req[q].link.exp THEN expiry \cup {<<req[q].t, req[q].link.kind>>} ELSE expiry
    /\ maker' = [maker EXCEPT ![req[q].t] = req[q].link.by]
    /\ BestEffortAdjustAdminOrgLinkCount(req[q].link.kind, 1)
    /\ req' = [req EXCEPT ![q] = Done]
    /\ UNCHANGED <<admin, passed, people, gone, off, used>>

(* One logged batch; a batch creation goes on with the next link. *)
insertShareLink(q) ==
    LET t == req[q].t
    IN  /\ req[q].kind = "insert"
        /\ row' = [row EXCEPT ![t] = [link |-> req[q].link, r |-> Fresh(req[q].uses)]]
        /\ byCreator' = [byCreator EXCEPT ![t] = Fresh(req[q].uses)]
        /\ admin' = [admin EXCEPT ![req[q].link.kind][t] = Fresh(req[q].uses)]
        /\ byLib' = byLib \cup {t} /\ expiry' = IF req[q].link.exp THEN expiry \cup {<<t, req[q].link.kind>>} ELSE expiry
        /\ maker' = [maker EXCEPT ![t] = req[q].link.by]
        /\ BestEffortAdjustAdminOrgLinkCount(req[q].link.kind, 1)
        /\ \/ req[q].more = 0 /\ req' = [req EXCEPT ![q] = Done]
           \/ req[q].more > 0 /\ \E n \in Unused : req' = [req EXCEPT ![q] = [@ EXCEPT !.t = n, !.more = @ - 1]]
        /\ UNCHANGED <<passed, people, gone, off, used>>

(* Deletions: the caller's own link, or any link of the right type for an administrator. *)
DeleteOwn(q, name) == Ask(q, name) /\ \E u \in session, t \in Tokens : Row(t).by = u /\ Send(q, [kind |-> "delete", t |-> t])
DeleteAny(q, name, k) == Ask(q, name) /\ \E t \in Tokens : Row(t).kind = k /\ Send(q, [kind |-> "delete", t |-> t])

DeleteShareLink(q) == DeleteOwn(q, "DeleteShareLink")
DeleteUploadLink(q) == DeleteOwn(q, "DeleteUploadLink")
BatchDeleteShareLinks(q) == DeleteOwn(q, "BatchDeleteShareLinks")
AdminDeleteShareLink(q) == DeleteAny(q, "AdminDeleteShareLink", "share")
AdminDeleteUploadLink(q) == DeleteAny(q, "AdminDeleteUploadLink", "upload")
DeleteOrgLink(q) == DeleteAny(q, "DeleteOrgLink", "share")
DeleteOrgUploadLink(q) == DeleteAny(q, "DeleteOrgUploadLink", "upload")

(* deleteShareLink reads the type and the expiry time again, and fails when the row is gone. *)
deleteShareLinkRead(q) ==
    /\ req[q].kind = "delete"
    /\ req' = [req EXCEPT ![q] = IF Exists(req[q].t) THEN [@ EXCEPT !.kind = "removed", !.on = Row(req[q].t).exp, !.u = Row(req[q].t).kind] ELSE Done]
    /\ UNCHANGED <<tables, count, refresh, rest>>

(* The rows of the link are deleted; an ambiguous type has no admin row. *)
DropRows(t, k, exp) ==
    /\ row' = [row EXCEPT ![t] = [link |-> NoLink, r |-> NoRow]]
    /\ byCreator' = [byCreator EXCEPT ![t] = NoRow]
    /\ admin' = IF k \in Kinds THEN [admin EXCEPT ![k][t] = NoRow] ELSE admin
    /\ byLib' = byLib \ {t} /\ expiry' = IF exp THEN expiry \ ({t} \X Kinds) ELSE expiry
    /\ IF k \in Kinds THEN BestEffortAdjustAdminOrgLinkCount(k, -1) ELSE UNCHANGED <<count, refresh>>

(* The batch; an update goes on with the insert of the changed link. *)
deleteShareLink(q) ==
    /\ req[q].kind = "removed"
    /\ DropRows(req[q].t, req[q].u, req[q].on)
    /\ req' = [req EXCEPT ![q] = IF @.next = "insert" THEN [@ EXCEPT !.kind = "insert", !.on = FALSE, !.next = "none"] ELSE Done]
    /\ gone' = IF req[q].next = "insert" THEN gone ELSE gone \cup {req[q].t}
    /\ UNCHANGED <<passed, maker, people, off, used>>

(* The owner changes a link, whose type the route decides: it is deleted and inserted again, active, with its creation time and with the counters read here. *)
UpdateLink(q, name, k, perms) ==
    /\ Ask(q, name)
    /\ \E u \in session, t \in Tokens, p \in perms, pw \in Passwords \cup {None} :
         /\ Whole(t) /\ Row(t).by = u /\ lib[Row(t).lib] = "live"
         /\ Send(q, [kind |-> "delete", t |-> t, next |-> "insert", uses |-> row[t].r.uses,
                     link |-> [Row(t) EXCEPT !.kind = k, !.perm = p, !.pw = pw]])

UpdateShareLink(q) == UpdateLink(q, "UpdateShareLink", "share", LinkPerms)
UpdateUploadLink(q) == UpdateLink(q, "UpdateUploadLink", "upload", {None})

-----------------------------------------------------------------------------
(* The active flag. *)

SetActive(q, name, k) ==
    /\ Ask(q, name)
    /\ \E t \in Tokens, b \in BOOLEAN : Row(t).kind = k /\ Send(q, [kind |-> "setActive", set |-> {<<t, k>>}, on |-> b])
AdminSetShareLinkActive(q) == SetActive(q, "AdminSetShareLinkActive", "share")
AdminSetUploadLinkActive(q) == SetActive(q, "AdminSetUploadLinkActive", "upload")

(* Updates of three tables that name no condition; T holds tokens with their types. *)
WriteActive(T, b) ==
    \E A \in Partly(T), B \in Partly(T), C \in Partly(T) :
      /\ row' = [t \in Tokens |-> IF \E x \in A : x[1] = t THEN [row[t] EXCEPT !.r = Touch(@, {"active"}, b, 0)] ELSE row[t]]
      /\ byCreator' = [t \in Tokens |-> IF \E x \in B : x[1] = t THEN Touch(byCreator[t], {"active"}, b, 0) ELSE byCreator[t]]
      /\ admin' = [k \in Kinds |-> [t \in Tokens |-> IF <<t, k>> \in C THEN Touch(admin[k][t], {"active"}, b, 0) ELSE admin[k][t]]]
      /\ UNCHANGED <<byLib, expiry>>

setAdminLinkActive(q) ==
    /\ req[q].kind \in {"setActive", "toggling"}
    /\ WriteActive(req[q].set, req[q].on)
    /\ off' = IF req[q].on THEN off \ {x[1] : x \in req[q].set} ELSE off \cup {x[1] : x \in req[q].set}
    /\ req' = [req EXCEPT ![q] = Done] /\ UNCHANGED <<count, refresh, passed, maker, people, gone, used>>

(* The status of the creator. The answer is sent once the status is written; sessions and links follow in a goroutine. *)
softDeleteUser(q) ==
    /\ Ask(q, "softDeleteUser")
    /\ \E u \in Users : /\ status[u] = "active" /\ status' = [status EXCEPT ![u] = "off"]
                        /\ req' = [req EXCEPT ![q] = Record([kind |-> "kill", u |-> u])]
    /\ UNCHANGED <<tables, count, refresh, passed, maker, org, session, lib, cookie, gone, off, used>>
activateUser(q) ==
    /\ Ask(q, "activateUser")
    /\ \E u \in Users : /\ status[u] = "off" /\ status' = [status EXCEPT ![u] = "active"]
                        /\ req' = [req EXCEPT ![q] = Record([kind |-> "toggle", u |-> u, on |-> TRUE])]
    /\ UNCHANGED <<tables, count, refresh, passed, maker, org, session, lib, cookie, gone, off, used>>
invalidateUserCredentials(q) ==
    /\ req[q].kind = "kill"
    /\ session' = session \ {req[q].u} /\ req' = [req EXCEPT ![q] = [@ EXCEPT !.kind = "toggle"]]
    /\ UNCHANGED <<tables, count, refresh, passed, maker, status, org, lib, cookie, gone, off, used>>
Login == /\ org = "active" /\ \E u \in Users \ session : status[u] = "active" /\ session' = session \cup {u}
         /\ UNCHANGED <<tables, count, refresh, passed, maker, status, org, lib, cookie, gone, off, used, req>>

(* The links of the creator whose flag, in the table by creator, is not yet the wanted one. *)
setUserShareLinksActive(q) ==
    /\ req[q].kind = "toggle"
    /\ LET mine == {t \in Tokens : byCreator[t].is # "absent" /\ maker[t] = req[q].u /\ byCreator[t].active # req[q].on}
       IN  req' = [req EXCEPT ![q] = [@ EXCEPT !.kind = "toggling", !.set = {<<t, Row(t).kind>> : t \in mine}]]
    /\ UNCHANGED <<tables, count, refresh, rest>>

deactivateOrg(q) ==
    /\ Ask(q, "deactivateOrg") /\ org = "active" /\ org' = "off"
    /\ req' = [req EXCEPT ![q] = Record([kind |-> "orgToggle", on |-> FALSE])]
    /\ UNCHANGED <<tables, count, refresh, passed, maker, status, session, lib, cookie, gone, off, used>>
activateOrg(q) ==
    /\ Ask(q, "activateOrg") /\ org = "off" /\ org' = "active"
    /\ req' = [req EXCEPT ![q] = Record([kind |-> "orgToggle", on |-> TRUE])]
    /\ UNCHANGED <<tables, count, refresh, passed, maker, status, session, lib, cookie, gone, off, used>>
(* The sessions end first; the links of the organisation are found in the admin read model, whoever made them. *)
setOrgShareLinksActive(q) ==
    /\ req[q].kind = "orgToggle" /\ session' = IF req[q].on THEN session ELSE {}
    /\ LET theirs == {x \in Tokens \X Kinds : admin[x[2]][x[1]].is # "absent" /\ admin[x[2]][x[1]].active # req[q].on}
       IN  req' = [req EXCEPT ![q] = [@ EXCEPT !.kind = "toggling", !.set = theirs]]
    /\ UNCHANGED <<tables, count, refresh, passed, maker, status, org, lib, cookie, gone, off, used>>

-----------------------------------------------------------------------------
(* Visitors. *)

(* A link answers a visitor: the row is active, its time has not passed, and its library is live where a tree is read. *)
resolveShareLink(t) == Exists(t) /\ row[t].r.active /\ ~(Row(t).exp /\ t \in passed)
Proved(t) == Row(t).pw = None \/ cookie[t] = Row(t).pw
parseShareLinkPermission(t) == [download |-> Row(t).perm \in CanDownload \cup {None}, upload |-> Row(t).perm \in CanUpload]

(* What each page or token of a visitor is for: the library, or nothing. Upload links look at the row only. *)
OpensTree(t) == resolveShareLink(t) /\ Whole(t) /\ lib[Row(t).lib] = "live"
ServeShareLinkPage(t) == IF OpensTree(t) /\ Proved(t) THEN {Row(t).lib} ELSE {}
ListShareLinkDirents(t) == IF OpensTree(t) /\ Proved(t) THEN {Row(t).lib} ELSE {}
GetShareLinkZipTask(t) == IF resolveShareLink(t) /\ Proved(t) /\ parseShareLinkPermission(t).download THEN {Row(t).lib} ELSE {}
GetShareLinkUploadURL(t) == IF resolveShareLink(t) /\ Proved(t) /\ parseShareLinkPermission(t).upload THEN {Row(t).lib} ELSE {}
GetUploadLinkUploadURL(t) == IF resolveShareLink(t) /\ Proved(t) THEN {Row(t).lib} ELSE {}
Opened(t) == ServeShareLinkPage(t) \cup ListShareLinkDirents(t) \cup GetShareLinkZipTask(t)
                 \cup GetShareLinkUploadURL(t) \cup GetUploadLinkUploadURL(t)

CheckPublicLinkPassword ==
    /\ "CheckPublicLinkPassword" \in Calls
    /\ \E t \in Tokens : resolveShareLink(t) /\ Row(t).pw # None /\ cookie' = [cookie EXCEPT ![t] = Row(t).pw]
    /\ UNCHANGED <<tables, count, refresh, passed, maker, status, org, session, lib, gone, off, used, req>>

(* The visitor is served; the use is counted in a goroutine: read the counter, add one, write it to three tables. *)
Serve(q, t) ==
    /\ used[t] < MaxCount /\ used' = [used EXCEPT ![t] = @ + 1]
    /\ req' = [req EXCEPT ![q] = Record([kind |-> "count", t |-> t])]
    /\ UNCHANGED <<tables, count, refresh, passed, maker, people, gone, off>>

handleShareLinkDownload(q) ==
    /\ Ask(q, "handleShareLinkDownload")
    /\ \E t \in Tokens : /\ resolveShareLink(t) /\ Whole(t) /\ lib[Row(t).lib] = "live" /\ Proved(t)
                         /\ Row(t).kind = "share" /\ parseShareLinkPermission(t).download /\ Serve(q, t)
PostShareLinkUploadDone(q) ==
    /\ Ask(q, "PostShareLinkUploadDone")
    /\ \E t \in Tokens : resolveShareLink(t) /\ Row(t).kind = "share" /\ Proved(t) /\ parseShareLinkPermission(t).upload /\ Serve(q, t)
PostUploadLinkDone(q) ==
    /\ Ask(q, "PostUploadLinkDone")
    /\ \E t \in Tokens : resolveShareLink(t) /\ Row(t).kind = "upload" /\ Proved(t) /\ Serve(q, t)
GetShareLinkBootstrap(q) ==
    /\ Ask(q, "GetShareLinkBootstrap")
    /\ \E t \in Tokens : resolveShareLink(t) /\ Whole(t) /\ lib[Row(t).lib] = "live" /\ Row(t).kind = "share" /\ Proved(t) /\ Serve(q, t)

incrementShareLinkCounterRead(q) ==
    /\ req[q].kind = "count"
    /\ req' = [req EXCEPT ![q] = IF Exists(req[q].t) /\ row[req[q].t].r.uses < MaxCount
                                 THEN [@ EXCEPT !.kind = "consume", !.uses = row[req[q].t].r.uses + 1, !.u = Row(req[q].t).kind] ELSE Done]
    /\ UNCHANGED <<tables, count, refresh, rest>>
incrementShareLinkCounterDualWrite(q) ==
    LET t == req[q].t
    IN  /\ req[q].kind = "consume"
        /\ \E A \in Partly({t}), B \in Partly({t}) :
             /\ row' = IF t \in A THEN [row EXCEPT ![t].r = Touch(@, {"uses"}, FALSE, req[q].uses)] ELSE row
             /\ byCreator' = IF t \in B THEN [byCreator EXCEPT ![t] = Touch(@, {"uses"}, FALSE, req[q].uses)] ELSE byCreator
             /\ admin' = IF t \in B /\ req[q].u \in Kinds THEN [admin EXCEPT ![req[q].u][t] = Touch(@, {"uses"}, FALSE, req[q].uses)] ELSE admin
        /\ req' = [req EXCEPT ![q] = Done] /\ UNCHANGED <<byLib, expiry, count, refresh, rest>>

-----------------------------------------------------------------------------
(* Time and the collector. *)

(* The expiry time of a link passes and its inserted columns run out. *)
Expire(t) ==
    /\ t \notin passed /\ \E k \in Kinds : <<t, k>> \in expiry
    /\ \A q \in Reqs : req[q].t # t
    /\ passed' = passed \cup {t}
    /\ row' = [row EXCEPT ![t] = [link |-> NoLink, r |-> RunOut(@.r)]]
    /\ byCreator' = [byCreator EXCEPT ![t] = RunOut(@)] /\ admin' = [k \in Kinds |-> [admin[k] EXCEPT ![t] = RunOut(@)]]
    /\ byLib' = byLib \ {t}
    /\ UNCHANGED <<expiry, count, refresh, maker, people, gone, off, used, req>>

(* The scanner follows the expiry row: a row of share_links that has no expiry time is taken for a link that was changed. *)
DeleteExpiredShareLink(t, k) ==
    /\ t \in passed /\ <<t, k>> \in expiry
    /\ IF Exists(t) /\ ~Row(t).exp
       THEN expiry' = expiry \ {<<t, k>>} /\ UNCHANGED <<row, byCreator, admin, byLib, count, refresh, gone>>
       ELSE DropRows(t, k, TRUE) /\ gone' = gone \cup {t}
    /\ UNCHANGED <<passed, maker, people, off, used, req>>

TrashLibrary(l) == /\ "TrashLibrary" \in Calls /\ lib[l] = "live" /\ lib' = [lib EXCEPT ![l] = "trash"]
                   /\ UNCHANGED <<tables, count, refresh, passed, maker, status, org, session, cookie, gone, off, used, req>>

-----------------------------------------------------------------------------
Init ==
    /\ row = [t \in Tokens |-> [link |-> NoLink, r |-> NoRow]]
    /\ byCreator = [t \in Tokens |-> NoRow] /\ admin = [k \in Kinds |-> [t \in Tokens |-> NoRow]] /\ byLib = {} /\ expiry = {}
    /\ passed = {} /\ maker = [t \in Tokens |-> None] /\ org = "active" /\ count = [k \in Kinds |-> None] /\ refresh = [k \in Kinds |-> RIdle]
    /\ status = [u \in Users |-> "active"] /\ session = Users /\ lib = [l \in Libs |-> "live"]
    /\ cookie = [t \in Tokens |-> None] /\ gone = {} /\ off = {} /\ used = [t \in Tokens |-> 0]
    /\ req = [q \in Reqs |-> Done]

Handler(q) ==
    \/ CreateShareLink(q) \/ CreateUploadLink(q) \/ BatchCreateShareLinks(q) \/ insertShareLink(q)
    \/ DeleteShareLink(q) \/ DeleteUploadLink(q) \/ BatchDeleteShareLinks(q) \/ AdminDeleteShareLink(q)
    \/ AdminDeleteUploadLink(q) \/ DeleteOrgLink(q) \/ DeleteOrgUploadLink(q)
    \/ deleteShareLinkRead(q) \/ deleteShareLink(q) \/ UpdateShareLink(q) \/ UpdateUploadLink(q)
    \/ AdminSetShareLinkActive(q) \/ AdminSetUploadLinkActive(q) \/ setAdminLinkActive(q)
    \/ softDeleteUser(q) \/ activateUser(q) \/ invalidateUserCredentials(q) \/ setUserShareLinksActive(q)
    \/ deactivateOrg(q) \/ activateOrg(q) \/ setOrgShareLinksActive(q)
    \/ handleShareLinkDownload(q) \/ PostShareLinkUploadDone(q) \/ PostUploadLinkDone(q) \/ GetShareLinkBootstrap(q)
    \/ incrementShareLinkCounterRead(q) \/ incrementShareLinkCounterDualWrite(q) \/ BatchFails(q)

Next ==
    \/ \E q \in Reqs : Handler(q)
    \/ \E k \in Kinds : RefreshAdminOrgLinkCount(k) \/ ReplaceAdminOrgLinkCount(k)
    \/ Login \/ CheckPublicLinkPassword
    \/ \E t \in Tokens : Expire(t)
    \/ \E t \in Tokens, k \in Kinds : DeleteExpiredShareLink(t, k)
    \/ \E l \in Libs : TrashLibrary(l)

Spec == Init /\ [][Next]_vars

-----------------------------------------------------------------------------
Idle == (\A q \in Reqs : req[q].kind = "none") /\ \A k \in Kinds : refresh[k] = RIdle
Links(k) == {t \in Tokens : Whole(t) /\ Row(t).kind = k}

(* When nothing is in flight every list names the links of share_links and no others, with the same flag and the same uses. *)
TablesAgree ==
    Idle => /\ \A t \in Tokens : byCreator[t] = row[t].r /\ \A k \in Kinds : admin[k][t] = IF Row(t).kind = k THEN row[t].r ELSE NoRow
            /\ byLib = {t \in Tokens : Whole(t)} /\ expiry = {<<t, Row(t).kind>> : t \in {s \in Tokens : Row(s).exp}}
            /\ AdminListShareLinks = Links("share") /\ ListOrgLinks = Links("share")
            /\ AdminListUploadLinks = Links("upload") /\ ListOrgUploadLinks = Links("upload")
            /\ \A u \in Users : ListShareLinks(u) = AdminListUserShareLinks(u) /\ ListUploadLinks(u) = AdminListUserUploadLinks(u)

(* Not kept by the code (README, section 5). An organisation never has more links of a type than its plan allows: the count is read before a link is inserted. *)
LimitHeld == \A k \in Kinds : Cardinality(Links(k)) <= MaxLinks

(* The links of a deactivated user, or of a deactivated organisation, do not answer once the deactivation has run to its end. *)
LinksFollowUser == Idle => \A t \in Tokens : Whole(t) /\ (org = "off" \/ status[Row(t).by] = "off") => ~row[t].r.active

(* No page and no token of a deleted link is for a library: only ghosts of the link may come back. *)
DeletedStays == \A t \in gone : Opened(t) \subseteq {None}

(* When nothing is in flight, every use of a link has been counted. *)
UsesAreCounted == Idle => \A t \in Tokens : Whole(t) => row[t].r.uses = used[t]

(* Not kept by the code (README, section 5). Once the collector has dealt with an expired link nothing of it is left in any table. *)
ExpiredIsClean ==
    Idle => \A t \in passed : (\A k \in Kinds : <<t, k>> \notin expiry)
                               => ~Exists(t) /\ byCreator[t].is = "absent" /\ \A k \in Kinds : admin[k][t].is = "absent"

(* A link that was created is still there when nothing is in flight, unless a deletion or its time has ended it. *)
LinkKept == Idle => \A t \in Tokens : maker[t] # None => Whole(t) \/ t \in gone \cup passed

(* A link that was switched off does not answer until an administrator, or an activation, has switched it on. *)
StaysOff == \A t \in off : Opened(t) = {}
=============================================================================

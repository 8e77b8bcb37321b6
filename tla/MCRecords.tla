------------------------------ MODULE MCRecords ------------------------------
(***************************************************************************)
(* The records the server keeps in Cassandra, each in several tables that  *)
(* batches of one request write together: groups and shares, links,        *)
(* libraries, accounts and credentials.  These parts share no state here,  *)
(* so a behaviour is one of one part and the variables of the others hold  *)
(* nothing.  Parts of one module have the same variables and other         *)
(* constants: which requests are made, how many at a time, what fails.     *)
(***************************************************************************)
EXTENDS Integers, TLC

CONSTANTS q1, q2, u1, u2, u3, g1, g2, g3, l1, l2, t1, t2, p1, n1, o1, e1, e2, s1, s2, k1, a1, y1, Super, Dead, None,
          w1, w2 \* a pair of values that are alike; in each part they stand for two requests, users, emails, keys...

VARIABLES part,
    \* groups and shares
    groups, gById, creator, parent, member, byMember, gLib, owner, shares, listed, custom, born, gReq,
    \* links
    row, byCreator, admin, byLib, expiry, passed, count, refresh, maker, status, kOrg, session, kLib, cookie, kGone, off, used, kReq,
    \* libraries
    canon, byId, byOwner, byOrg, trash, marker, policy, contents, links, lLock, pending, lItems, lTime, purged, committed, lReq,
    \* accounts
    user, byEmail, byOidc, found, list, byStatus, state, aOrg, mark, orgList, orgByStatus, orgState, aLock, aItems, aTime, begun, signedIn, aReq,
    \* credentials
    role, usable, orgUsable, sess, byUser, cByOrg, byKey, scache, expired, key, keyIdx, kcache, touches, app, repoTok, sync, cGone, cReq

-----------------------------------------------------------------------------
(* Groups and shares: u1 owns the first library, another is made by a request where there is one. *)

\* Every request of one client at a time.
AllGroupCalls == {"CreateShare", "UpdateSharePermission", "DeleteShare", "LeaveShareRepo", "CreateGroup", "AdminCreateGroup",
    "CreateDepartment", "AddOrgAddressBookGroup", "DeleteGroup", "AdminDeleteGroup", "DeleteOrgGroup", "DeleteOrgAddressBookGroup",
    "DeleteDepartment", "RenameGroup", "UpdateDepartment", "UpdateOrgAddressBookGroup", "TransferGroup", "AdminTransferGroup",
    "TransferOrgGroup", "UpdateOrgGroup", "AddGroupMember", "AdminAddGroupMember", "AddOrgGroupMember", "SetGroupAdmin",
    "UpdateOrgGroupMember", "RemoveGroupMember", "AdminRemoveGroupMember", "DeleteOrgGroupMember", "CreateGroupOwnedLibrary",
    "AddOrgGroupOwnedLibrary", "DeleteGroupOwnedLibrary", "DeleteOrgGroupOwnedLibrary"}
Sharing == INSTANCE Groups WITH
    Users <- {u1, u2}, Staff <- {u2}, GroupIds <- {g1}, Libs <- {l1, l2}, Ids <- {1}, Perms <- {"rw"}, CustomSets <- {{"preview"}},
    Reqs <- {q1}, Calls <- AllGroupCalls, byId <- gById, lib <- gLib, req <- gReq
\* Two clients.
SharingRace == INSTANCE Groups WITH
    Users <- {u1, u2}, Staff <- {}, GroupIds <- {g1}, Libs <- {l1}, Ids <- {1}, Perms <- {"rw"}, CustomSets <- {{"preview"}},
    Reqs <- {w1, w2}, Calls <- {"CreateGroup", "AddGroupMember", "RemoveGroupMember", "RenameGroup", "DeleteGroup", "CreateShare", "DeleteShare",
        "UpdateSharePermission", "BulkAddGroupMembers", "ImportGroupMembersViaFile", "LeaveShareRepo"},
    byId <- gById, lib <- gLib, req <- gReq
\* Two shares of one library, with custom permissions that are changed and deleted.
Permission == INSTANCE Groups WITH
    Users <- {u1, u2, u3}, Staff <- {}, GroupIds <- {g1}, Libs <- {l1}, Ids <- {1, 2}, Perms <- {"r", "cloud-edit", "custom"},
    CustomSets <- {{"preview"}, {"upload"}, {"upload", "download"}, {"download", "copy"}},
    Reqs <- {q1}, Calls <- {"CreateShare", "UpdateSharePermission", "DeleteShare", "CustomSharePermission"}, byId <- gById, lib <- gLib, req <- gReq
\* Departments of departments.
Departments == INSTANCE Groups WITH
    Users <- {u1, u2}, Staff <- {u2}, GroupIds <- {g1, g2, g3}, Libs <- {l1}, Ids <- {1}, Perms <- {"r"}, CustomSets <- {{"preview"}},
    Reqs <- {q1}, Calls <- {"CreateDepartment", "UpdateDepartment", "DeleteDepartment", "AdminAddGroupMember"},
    byId <- gById, lib <- gLib, req <- gReq

-----------------------------------------------------------------------------
(* Links: one link and every request, two links of two users, and two requests at a time whose batches may fail. *)
OneLink == INSTANCE Links WITH
    Users <- {u3}, Tokens <- {t1}, Libs <- {l1}, Passwords <- {p1}, LinkPerms <- {"download"}, MaxLinks <- 2, MaxCount <- 1,
    Reqs <- {q1}, Faults <- {},
    Calls <- {"CreateShareLink", "CreateUploadLink", "BatchCreateShareLinks", "DeleteShareLink", "DeleteUploadLink", "BatchDeleteShareLinks",
        "AdminDeleteShareLink", "AdminDeleteUploadLink", "DeleteOrgLink", "DeleteOrgUploadLink", "UpdateShareLink", "UpdateUploadLink",
        "AdminSetShareLinkActive", "AdminSetUploadLinkActive", "softDeleteUser", "activateUser", "CheckPublicLinkPassword",
        "handleShareLinkDownload", "PostShareLinkUploadDone", "PostUploadLinkDone", "GetShareLinkBootstrap", "TrashLibrary"},
    org <- kOrg, lib <- kLib, gone <- kGone, req <- kReq
LinkOwners == INSTANCE Links WITH
    Users <- {u1, u2}, Tokens <- {w1, w2}, Libs <- {l1}, Passwords <- {}, LinkPerms <- {"download"}, MaxLinks <- 2, MaxCount <- 1,
    Reqs <- {q1}, Faults <- {},
    Calls <- {"CreateShareLink", "BatchCreateShareLinks", "DeleteShareLink", "UpdateShareLink", "softDeleteUser", "activateUser"},
    org <- kOrg, lib <- kLib, gone <- kGone, req <- kReq
LinksRace == INSTANCE Links WITH
    Users <- {u3}, Tokens <- {t1}, Libs <- {l1}, Passwords <- {}, LinkPerms <- {"download"}, MaxLinks <- 2, MaxCount <- 1,
    Reqs <- {w1, w2}, Faults <- {"logged"},
    Calls <- {"CreateShareLink", "DeleteShareLink", "AdminDeleteShareLink", "AdminSetShareLinkActive", "softDeleteUser", "activateUser",
        "handleShareLinkDownload", "expiring"},
    org <- kOrg, lib <- kLib, gone <- kGone, req <- kReq
\* The same with requests that switch the organisation off and on.
LinksOrg == INSTANCE Links WITH
    Users <- {u3}, Tokens <- {t1}, Libs <- {l1}, Passwords <- {}, LinkPerms <- {"download"}, MaxLinks <- 2, MaxCount <- 1,
    Reqs <- {w1, w2}, Faults <- {"logged"},
    Calls <- {"CreateShareLink", "AdminSetShareLinkActive", "handleShareLinkDownload", "deactivateOrg", "activateOrg"},
    org <- kOrg, lib <- kLib, gone <- kGone, req <- kReq

-----------------------------------------------------------------------------
(* Libraries: every request of a client, one at a time, and the GC. softDeleteUserLibraries is not among them: it stamps a library that
   is in the trash already and leaves its first trash row, so that the lists disagree (README, section 5). *)
Rows == INSTANCE LibraryRows WITH
    Users <- {u1, u2}, Libs <- {l1}, Names <- {w1, w2}, MaxLibraries <- 1, MaxTime <- 2, Reqs <- {q1}, Workers <- {q1}, Faults <- {"enqueue"},
    Calls <- {"CreateLibrary", "AdminCreateLibrary", "RenameLibrary", "UpdateLibrary", "ChangeStorageClass", "SetHistoryLimit",
        "AdminUpdateHistorySetting", "SetAutoDelete", "TransferLibrary", "TransferOrgRepo", "DeleteOrgRepo", "AdminTransferLibrary",
        "DeleteLibrary", "AdminDeleteLibrary", "RestoreDeletedRepo", "RestoreOrgTrashLibrary", "PermanentDeleteRepo", "DeleteOrgTrashLibrary",
        "CleanOrgTrashLibraries", "AdminCleanTrashLibraries", "Reconcile", "scan", "expire", "worker", "links"},
    lock <- lLock, items <- lItems, time <- lTime, req <- lReq
\* A library that is deleted and restored twice while the GC works on its first deletion, with locks that go stale.
Restored == INSTANCE LibraryRows WITH
    Users <- {u3}, Libs <- {l1}, Names <- {n1}, MaxLibraries <- 1, MaxTime <- 2, Reqs <- {q1, q2}, Workers <- {q1}, Faults <- {"stale"},
    Calls <- {"CreateLibrary", "DeleteLibrary", "RestoreDeletedRepo", "scan", "expire", "worker"},
    lock <- lLock, items <- lItems, time <- lTime, req <- lReq
\* All the ways to delete one for good, with one worker, crashes and locks that go stale.
Purged == INSTANCE LibraryRows WITH
    Users <- {u3}, Libs <- {l1}, Names <- {n1}, MaxLibraries <- 1, MaxTime <- 1, Reqs <- {q1, q2}, Workers <- {q1},
    Faults <- {"crash", "stale", "enqueue"},
    Calls <- {"CreateLibrary", "DeleteLibrary", "RestoreDeletedRepo", "PermanentDeleteRepo", "AdminCleanTrashLibraries", "orgCascade",
        "softDeleteUserLibraries", "scan", "expire", "worker", "links"},
    lock <- lLock, items <- lItems, time <- lTime, req <- lReq
\* The rollback of a library whose first commit fails.
Rollback == INSTANCE LibraryRows WITH
    Users <- {u3}, Libs <- {l1}, Names <- {n1}, MaxLibraries <- 1, MaxTime <- 1, Reqs <- {w1, w2}, Workers <- {},
    Faults <- {"crash", "batch", "cas"}, Calls <- {"CreateGroupLibrary", "GetHeadCommit", "DeleteLibrary", "reaper"},
    lock <- lLock, items <- lItems, time <- lTime, req <- lReq

-----------------------------------------------------------------------------
(* Accounts: the users of an organization, the organization itself, and the platform's own users, one request at a time. *)
Members == INSTANCE Accounts WITH
    Orgs <- {o1}, Users <- {1, 2}, Emails <- {w1, w2}, Subs <- {s1}, Quotas <- {0}, Claims <- {"admin"}, Platform <- None, MaxUsers <- 2,
    MaxTime <- 1, DisableOrgUserWrites <- FALSE, Reqs <- {q1}, Faults <- {},
    Calls <- {"AdminAddOrgUser", "AddOrgUser", "ImportOrgUsers", "UpdateUserByEmail", "UpdateOrgUser", "AdminUpdateOrgUser",
        "TransferOrgOwnership", "DeleteUserByEmail", "AdminDeleteOrgUser", "DeleteOrgUser", "RestoreUser", "RestoreOrgUser",
        "CreateOrganization", "login"},
    org <- aOrg, lock <- aLock, items <- aItems, time <- aTime, req <- aReq
Organizations == INSTANCE Accounts WITH
    Orgs <- {o1}, Users <- {1, 2}, Emails <- {e1}, Subs <- {s1}, Quotas <- {0, 1}, Claims <- {}, Platform <- None, MaxUsers <- 2,
    MaxTime <- 2, DisableOrgUserWrites <- FALSE, Reqs <- {q1}, Faults <- {},
    Calls <- {"AdminAddOrgUser", "CreateOrganization", "UpdateOrganization", "UpdateOrgInfo", "SoftDeleteOrganization",
        "DeactivateOrganization", "RestoreOrganization", "ReactivateOrganization", "DeleteUserByEmail", "login", "scan", "worker"},
    org <- aOrg, lock <- aLock, items <- aItems, time <- aTime, req <- aReq
PlatformUsers == INSTANCE Accounts WITH
    Orgs <- {o1}, Users <- {1, 2}, Emails <- {w1, w2}, Subs <- {}, Quotas <- {0, 1}, Claims <- {}, Platform <- o1, MaxUsers <- 2,
    MaxTime <- 1, DisableOrgUserWrites <- TRUE, Reqs <- {q1}, Faults <- {},
    Calls <- {"AdminCreateUser", "UpdateUser", "BatchAddAdmins", "UpdateOrgUser", "AddOrgUser", "SoftDeleteUser", "RestoreOrgUser",
        "UpdateUserByEmail"},
    org <- aOrg, lock <- aLock, items <- aItems, time <- aTime, req <- aReq
\* Two requests, or the GC and a request, on one user, on one organization, and on an organization with users.
UserRace == INSTANCE Accounts WITH
    Orgs <- {o1}, Users <- {1}, Emails <- {e1}, Subs <- {s1}, Quotas <- {0}, Claims <- {}, Platform <- None, MaxUsers <- 2,
    MaxTime <- 2, DisableOrgUserWrites <- FALSE, Reqs <- {w1, w2}, Faults <- {"crash"},
    Calls <- {"CreateOrganization", "UpdateOrgUser", "DeleteUserByEmail", "RestoreUser", "scan", "worker"},
    org <- aOrg, lock <- aLock, items <- aItems, time <- aTime, req <- aReq
OrgRace == INSTANCE Accounts WITH
    Orgs <- {o1}, Users <- {1}, Emails <- {e1}, Subs <- {s1}, Quotas <- {0}, Claims <- {}, Platform <- None, MaxUsers <- 2,
    MaxTime <- 1, DisableOrgUserWrites <- FALSE, Reqs <- {w1, w2}, Faults <- {"crash"},
    Calls <- {"CreateOrganization", "UpdateOrganization", "SoftDeleteOrganization", "DeactivateOrganization", "RestoreOrganization",
        "ReactivateOrganization", "scan", "worker"},
    org <- aOrg, lock <- aLock, items <- aItems, time <- aTime, req <- aReq
OrgPurge == INSTANCE Accounts WITH
    Orgs <- {o1}, Users <- {1, 2}, Emails <- {e1, e2}, Subs <- {s1}, Quotas <- {0}, Claims <- {}, Platform <- None, MaxUsers <- 2,
    MaxTime <- 1, DisableOrgUserWrites <- FALSE, Reqs <- {w1, w2}, Faults <- {"crash"},
    Calls <- {"CreateOrganization", "AdminAddOrgUser", "SoftDeleteOrganization", "RestoreOrganization",
        "ReactivateOrganization", "scan", "worker"},
    org <- aOrg, lock <- aLock, items <- aItems, time <- aTime, req <- aReq
\* More users than the plan has seats.
Seats == INSTANCE Accounts WITH
    Orgs <- {o1}, Users <- {1, 2, 3}, Emails <- {w1, w2}, Subs <- {s1, s2}, Quotas <- {0}, Claims <- {}, Platform <- None, MaxUsers <- 1,
    MaxTime <- 1, DisableOrgUserWrites <- FALSE, Reqs <- {q1}, Faults <- {},
    Calls <- {"CreateOrganization", "AdminAddOrgUser", "AddOrgUser", "login", "DeleteUserByEmail", "UpdateUserByEmail", "RestoreUser"},
    org <- aOrg, lock <- aLock, items <- aItems, time <- aTime, req <- aReq

-----------------------------------------------------------------------------
(* Credentials: sessions and API keys of two users, and two keys of one; the tokens of a library and of sync clients. *)
SessionCalls == {"login", "authToken", "use", "smartLink", "syncAuth", "sessionInfo", "logout", "handleLogout", "deactivate", "activate",
    "demote", "deactivateOrg", "activateOrg", "createKey", "adminCreateKey", "revoke", "adminRevoke"}
Sessions == INSTANCE Credentials WITH
    Nodes <- {n1}, Users <- {w1, w2}, Tokens <- {t1}, Keys <- {k1}, Apps <- {}, RepoTokens <- {}, SyncTokens <- {}, Jwt <- FALSE,
    MaxKeysPerUser <- 1, Reqs <- {q1}, Faults <- {"expire"}, Calls <- SessionCalls, byOrg <- cByOrg, gone <- cGone, req <- cReq
TwoKeys == INSTANCE Credentials WITH
    Nodes <- {n1}, Users <- {u3}, Tokens <- {t1}, Keys <- {w1, w2}, Apps <- {}, RepoTokens <- {}, SyncTokens <- {}, Jwt <- FALSE,
    MaxKeysPerUser <- 1, Reqs <- {q1}, Faults <- {"expire"}, Calls <- SessionCalls, byOrg <- cByOrg, gone <- cGone, req <- cReq
LibraryTokens == INSTANCE Credentials WITH
    Nodes <- {n1}, Users <- {w1, w2}, Tokens <- {}, Keys <- {}, Apps <- {a1}, RepoTokens <- {t1, t2}, SyncTokens <- {y1}, Jwt <- FALSE,
    MaxKeysPerUser <- 1, Reqs <- {q1}, Faults <- {"expire", "fail"},
    Calls <- {"deactivate", "activate", "deactivateOrg", "activateOrg", "createToken", "deleteToken", "updateToken", "syncToken"},
    byOrg <- cByOrg, gone <- cGone, req <- cReq
\* Signed sessions with requests that fail in the middle: on two instances, and two at a time on one.
SignedCalls == {"login", "authToken", "use", "logout", "createKey", "revoke", "deactivate"}
SignedNodes == INSTANCE Credentials WITH
    Nodes <- {w1, w2}, Users <- {u3}, Tokens <- {t1}, Keys <- {k1}, Apps <- {}, RepoTokens <- {}, SyncTokens <- {}, Jwt <- TRUE,
    MaxKeysPerUser <- 1, Reqs <- {q1}, Faults <- {"fail", "crash", "touch"}, Calls <- SignedCalls,
    byOrg <- cByOrg, gone <- cGone, req <- cReq
SignedRace == INSTANCE Credentials WITH
    Nodes <- {n1}, Users <- {u3}, Tokens <- {t1}, Keys <- {k1}, Apps <- {}, RepoTokens <- {}, SyncTokens <- {}, Jwt <- TRUE,
    MaxKeysPerUser <- 1, Reqs <- {w1, w2}, Faults <- {"fail", "crash", "touch"}, Calls <- SignedCalls,
    byOrg <- cByOrg, gone <- cGone, req <- cReq

ASSUME Sharing!SharingAssumption /\ SharingRace!SharingAssumption /\ Permission!SharingAssumption /\ Departments!SharingAssumption
ASSUME OneLink!LinksAssumption /\ LinkOwners!LinksAssumption /\ LinksRace!LinksAssumption /\ LinksOrg!LinksAssumption
ASSUME Rows!LibraryAssumption /\ Restored!LibraryAssumption /\ Purged!LibraryAssumption /\ Rollback!LibraryAssumption
ASSUME Members!AccountsAssumption /\ Organizations!AccountsAssumption /\ PlatformUsers!AccountsAssumption /\ UserRace!AccountsAssumption
       /\ OrgRace!AccountsAssumption /\ OrgPurge!AccountsAssumption /\ Seats!AccountsAssumption
ASSUME Sessions!CredentialsAssumption /\ TwoKeys!CredentialsAssumption /\ LibraryTokens!CredentialsAssumption /\ SignedNodes!CredentialsAssumption /\ SignedRace!CredentialsAssumption

-----------------------------------------------------------------------------
groupVars == <<groups, gById, creator, parent, member, byMember, gLib, owner, shares, listed, custom, born, gReq>>
linkVars == <<row, byCreator, admin, byLib, expiry, passed, count, refresh, maker, status, kOrg, session, kLib, cookie, kGone, off, used, kReq>>
libraryVars == <<canon, byId, byOwner, byOrg, trash, marker, policy, contents, links, lLock, pending, lItems, lTime, purged, committed, lReq>>
accountVars == <<user, byEmail, byOidc, found, list, byStatus, state, aOrg, mark, orgList, orgByStatus, orgState, aLock, aItems, aTime, begun,
                 signedIn, aReq>>
credentialVars == <<role, usable, orgUsable, sess, byUser, cByOrg, byKey, scache, expired, key, keyIdx, kcache, touches, app, repoTok, sync,
                    cGone, cReq>>
vars == <<part, groupVars, linkVars, libraryVars, accountVars, credentialVars>>

GroupParts == {"sharing", "sharingRace", "permission", "departments"}
LinkParts == {"links", "linkOwners", "linksRace", "linksOrg"}
LibraryParts == {"rows", "restored", "purged", "rollback"}
AccountParts == {"members", "orgs", "platform", "userRace", "orgRace", "orgPurge", "seats"}
CredentialParts == {"sessions", "twoKeys", "tokens", "signedNodes", "signedRace"}

\* The variables of the records that are not there.
NoGroups ==
    /\ groups = None /\ gById = None /\ creator = None /\ parent = None /\ member = None /\ byMember = None /\ gLib = None
    /\ owner = None /\ shares = None /\ listed = None /\ custom = None /\ born = None /\ gReq = None
NoLinks ==
    /\ row = None /\ byCreator = None /\ admin = None /\ byLib = None /\ expiry = None /\ passed = None /\ count = None /\ refresh = None
    /\ maker = None /\ status = None /\ kOrg = None /\ session = None /\ kLib = None /\ cookie = None /\ kGone = None /\ off = None
    /\ used = None /\ kReq = None
NoLibraries ==
    /\ canon = None /\ byId = None /\ byOwner = None /\ byOrg = None /\ trash = None /\ marker = None /\ policy = None /\ contents = None
    /\ links = None /\ lLock = None /\ pending = None /\ lItems = None /\ lTime = None /\ purged = None /\ committed = None
    /\ lReq = None
NoAccounts ==
    /\ user = None /\ byEmail = None /\ byOidc = None /\ found = None /\ list = None /\ byStatus = None /\ state = None /\ aOrg = None
    /\ mark = None /\ orgList = None /\ orgByStatus = None /\ orgState = None /\ aLock = None /\ aItems = None /\ aTime = None
    /\ begun = None /\ signedIn = None /\ aReq = None
NoCredentials ==
    /\ role = None /\ usable = None /\ orgUsable = None /\ sess = None /\ byUser = None /\ cByOrg = None /\ byKey = None /\ scache = None
    /\ expired = None /\ key = None /\ keyIdx = None /\ kcache = None /\ touches = None /\ app = None /\ repoTok = None /\ sync = None
    /\ cGone = None /\ cReq = None

FirstOwner(libs) == [l \in libs |-> IF l = l1 THEN u1 ELSE None]
Init ==
    /\ part \in GroupParts \cup LinkParts \cup LibraryParts \cup AccountParts \cup CredentialParts
    /\ CASE part = "sharing" -> Sharing!InitWith(FirstOwner({l1, l2})) [] part = "permission" -> Permission!InitWith(FirstOwner({l1}))
         [] part = "departments" -> Departments!InitWith(FirstOwner({l1})) [] part = "sharingRace" -> SharingRace!InitWith(FirstOwner({l1}))
         [] OTHER -> NoGroups
    /\ CASE part = "links" -> OneLink!Init [] part = "linkOwners" -> LinkOwners!Init [] part = "linksRace" -> LinksRace!Init
         [] part = "linksOrg" -> LinksOrg!Init [] OTHER -> NoLinks
    /\ CASE part = "rows" -> Rows!Init [] part = "restored" -> Restored!Init [] part = "purged" -> Purged!Init
         [] part = "rollback" -> Rollback!Init [] OTHER -> NoLibraries
    /\ CASE part = "members" -> Members!Init [] part = "orgs" -> Organizations!Init [] part = "platform" -> PlatformUsers!Init
         [] part = "userRace" -> UserRace!Init [] part = "orgRace" -> OrgRace!Init [] part = "orgPurge" -> OrgPurge!Init
         [] part = "seats" -> Seats!Init [] OTHER -> NoAccounts
    /\ CASE part = "sessions" -> Sessions!Init [] part = "twoKeys" -> TwoKeys!Init [] part = "tokens" -> LibraryTokens!Init
         [] part = "signedNodes" -> SignedNodes!Init [] part = "signedRace" -> SignedRace!Init [] OTHER -> NoCredentials

OnlyGroups == UNCHANGED <<part, linkVars, libraryVars, accountVars, credentialVars>>
SharingStep == part = "sharing" /\ Sharing!Next /\ OnlyGroups
SharingRaceStep == part = "sharingRace" /\ SharingRace!Next /\ OnlyGroups
PermissionStep == part = "permission" /\ Permission!Next /\ OnlyGroups
DepartmentsStep == part = "departments" /\ Departments!Next /\ OnlyGroups

OnlyLinks == UNCHANGED <<part, groupVars, libraryVars, accountVars, credentialVars>>
LinksStep == part = "links" /\ OneLink!Next /\ OnlyLinks
LinkOwnersStep == part = "linkOwners" /\ LinkOwners!Next /\ OnlyLinks
LinksRaceStep == part = "linksRace" /\ LinksRace!Next /\ OnlyLinks
LinksOrgStep == part = "linksOrg" /\ LinksOrg!Next /\ OnlyLinks

OnlyLibraries == UNCHANGED <<part, groupVars, linkVars, accountVars, credentialVars>>
RowsStep == part = "rows" /\ Rows!Next /\ OnlyLibraries
RestoredStep == part = "restored" /\ Restored!Next /\ OnlyLibraries
PurgedStep == part = "purged" /\ Purged!Next /\ OnlyLibraries
RollbackStep == part = "rollback" /\ Rollback!Next /\ OnlyLibraries

OnlyAccounts == UNCHANGED <<part, groupVars, linkVars, libraryVars, credentialVars>>
MembersStep == part = "members" /\ Members!Next /\ OnlyAccounts
OrgsStep == part = "orgs" /\ Organizations!Next /\ OnlyAccounts
PlatformStep == part = "platform" /\ PlatformUsers!Next /\ OnlyAccounts
UserRaceStep == part = "userRace" /\ UserRace!Next /\ OnlyAccounts
OrgRaceStep == part = "orgRace" /\ OrgRace!Next /\ OnlyAccounts
OrgPurgeStep == part = "orgPurge" /\ OrgPurge!Next /\ OnlyAccounts
SeatsStep == part = "seats" /\ Seats!Next /\ OnlyAccounts

OnlyCredentials == UNCHANGED <<part, groupVars, linkVars, libraryVars, accountVars>>
SessionsStep == part = "sessions" /\ Sessions!Next /\ OnlyCredentials
TwoKeysStep == part = "twoKeys" /\ TwoKeys!Next /\ OnlyCredentials
TokensStep == part = "tokens" /\ LibraryTokens!Next /\ OnlyCredentials
SignedNodesStep == part = "signedNodes" /\ SignedNodes!Next /\ OnlyCredentials
SignedRaceStep == part = "signedRace" /\ SignedRace!Next /\ OnlyCredentials

Next ==
    \/ SharingStep \/ SharingRaceStep \/ PermissionStep \/ DepartmentsStep
    \/ LinksStep \/ LinkOwnersStep \/ LinksRaceStep \/ LinksOrgStep
    \/ RowsStep \/ RestoredStep \/ PurgedStep \/ RollbackStep
    \/ MembersStep \/ OrgsStep \/ PlatformStep \/ UserRaceStep \/ OrgRaceStep \/ OrgPurgeStep \/ SeatsStep
    \/ SessionsStep \/ TwoKeysStep \/ TokensStep \/ SignedNodesStep \/ SignedRaceStep

Spec == Init /\ [][Next]_vars

\* The values of the pair are used together or not at all.
Symmetric == Permutations({w1, w2})

-----------------------------------------------------------------------------
\* Every variable has its type.
TypeOK ==
    CASE part = "sharing" -> Sharing!TypeOK [] part = "sharingRace" -> SharingRace!TypeOK [] part = "permission" -> Permission!TypeOK
      [] part = "departments" -> Departments!TypeOK
      [] part = "links" -> OneLink!TypeOK [] part = "linkOwners" -> LinkOwners!TypeOK [] part = "linksRace" -> LinksRace!TypeOK [] part = "linksOrg" -> LinksOrg!TypeOK
      [] part = "rows" -> Rows!TypeOK [] part = "restored" -> Restored!TypeOK [] part = "purged" -> Purged!TypeOK
      [] part = "rollback" -> Rollback!TypeOK
      [] part = "members" -> Members!TypeOK [] part = "orgs" -> Organizations!TypeOK [] part = "platform" -> PlatformUsers!TypeOK
      [] part = "userRace" -> UserRace!TypeOK [] part = "orgRace" -> OrgRace!TypeOK [] part = "orgPurge" -> OrgPurge!TypeOK
      [] part = "seats" -> Seats!TypeOK
      [] part = "sessions" -> Sessions!TypeOK [] part = "twoKeys" -> TwoKeys!TypeOK [] part = "tokens" -> LibraryTokens!TypeOK [] part = "signedNodes" -> SignedNodes!TypeOK
      [] part = "signedRace" -> SignedRace!TypeOK

\* The tables of a record agree between the requests, made one at a time: what the lists of shares,
\* links, libraries, users, organizations, keys and tokens show is what the canonical rows say, and
\* every parent of a department exists. With two requests and failures in the middle too, every
\* session is in the indexes it is revoked by. Two requests on one record may leave the lists apart
\* (README, section 5).
TablesAgree ==
    /\ part = "sharing" => Sharing!ListedIsShared
    /\ part = "departments" => Departments!ParentExists
    /\ part = "links" => OneLink!TablesAgree /\ OneLink!LinkKept /\ OneLink!UsesAreCounted
    /\ part = "rows" => Rows!RowsAgree /\ Rows!ListsAgree
    /\ part = "members" => Members!EmailsAgree /\ Members!ListsAgree
    /\ part = "orgs" => Organizations!EmailsAgree /\ Organizations!ListsAgree
    /\ part = "platform" => PlatformUsers!EmailsAgree /\ PlatformUsers!ListsAgree
    /\ part = "sessions" => Sessions!KeysListed
    /\ part = "twoKeys" => TwoKeys!KeysListed
    /\ part = "tokens" => LibraryTokens!TokensListed
    /\ part = "signedNodes" => SignedNodes!SessionsIndexed
    /\ part = "signedRace" => SignedRace!SessionsIndexed

\* Access follows what was granted: whom a group lets in is its member (one request at a time, none of
\* them a bulk insert, which may fail half-way); whoever may open a library finds it in his list, with
\* two requests and failed bulk inserts too; the two ways to read a permission agree; the links of a user
\* who is switched off do not answer, as long as nobody switches the organization off and on; an
\* organization has at most one owner, as long as no identity provider claims that role for somebody, and
\* no more users than its plan allows when they come by the requests that ask CheckMaxUsers. The other
\* cases the code does not keep (README, section 5; permissions.go, file_shares.go, groups.go,
\* share_links.go, role_helpers.go, checker.go).
AccessFollowsGrants ==
    /\ part = "sharing" => Sharing!AdmittedIsMember
    /\ part = "sharingRace" => SharingRace!AccessibleIsListed
    /\ part = "permission" => Permission!PermissionsAgree
    /\ part = "linkOwners" => LinkOwners!LinksFollowUser
    /\ part = "members" => Members!OneOwner /\ Members!PreviewFits
    /\ part = "seats" => Seats!WithinMaxUsers

\* A credential ends with what it stands for. A signed session whose end was answered with success is
\* accepted by no instance, on two instances and with two requests, whatever fails. On one instance and
\* with one request at a time the same holds of opaque sessions and of keys, of the sessions made from a
\* key, and every accepted credential is of a user and an organization in use, with no higher a role than
\* the user has. Caches of other instances, a login during a revocation and the late touch of a key break
\* the latter (README, section 5; session.go: InvalidateSession; apikey.go: RevokeKey; write_helpers.go:
\* runUserStatusSideEffects).
CredentialsEnd ==
    /\ part = "sessions" => Sessions!LogoutHolds /\ Sessions!RevokedKeyRefused /\ Sessions!RevokedKeySessions
                            /\ Sessions!CredentialsCurrent
    /\ part = "twoKeys" => TwoKeys!RevokedKeyRefused /\ TwoKeys!RevokedKeySessions /\ TwoKeys!WithinMaxKeys
    /\ part = "tokens" => LibraryTokens!CredentialsCurrent
    /\ part = "signedNodes" => SignedNodes!LogoutHolds
    /\ part = "signedRace" => SignedRace!LogoutHolds

\* A deletion takes what was deleted and nothing else. The contents of a library that has its row are
\* not collected, with locks that go stale under a slow worker; a rollback takes nothing of a
\* library that got its first commit from somebody else, after crashes and outcomes left open; a purged
\* library has no row again and, as long as one worker runs (README, section 5, for two), leaves nothing
\* behind that nobody would find; a deleted link does not come back; a deleted user or organization
\* keeps the row the purge finds it by.
DeletionsExact ==
    /\ part = "linksRace" => LinksRace!DeletedStays /\ LinksRace!StaysOff
    /\ part = "linksOrg" => LinksOrg!StaysOff
    /\ part = "restored" => Restored!ContentsKept /\ Restored!CommittedKept
    /\ part = "purged" => Purged!ContentsKept /\ Purged!CommittedKept /\ Purged!PurgedStays /\ Purged!NothingLeaked
    /\ part = "rollback" => Rollback!ContentsKept /\ Rollback!CommittedKept
    /\ part = "userRace" => UserRace!DeletedFound
    /\ part = "orgRace" => OrgRace!DeletedMarked
    /\ part = "orgPurge" => OrgPurge!DeletedMarked

\* What no request does when no other is under way: leave a share behind that it was asked to take back,
\* that a second one of the same library would keep open, or that goes with a group; or take the last
\* active owner from an organization for somebody who may not (groups.go: DeleteGroup; file_shares.go:
\* DeleteShare; org_admin_users.go: UpdateOrgUser). Two requests that meet may (README, section 5).
StepsAllowed ==
    [][/\ part = "sharing" => Sharing!DeletionIsClean /\ Sharing!RevokedIsRevoked
       /\ part = "permission" => Permission!RevokedIsRevoked
       /\ part = "members" => Members!OwnerKept]_vars
=============================================================================

---------------------------- MODULE Credentials ----------------------------
(***************************************************************************)
(* What a request may sign itself with: sessions (opaque tokens or signed  *)
(* ones), API keys of users, API tokens of libraries, and sync tokens.     *)
(* Sessions and API keys have rows in the database, with rows by user, by  *)
(* organization and by the key a session was made from, and a cache in     *)
(* every instance of the server.  Logout, the end of a key, a demotion,    *)
(* and the deactivation of a user or of the organization revoke them:      *)
(* each lists what there is, deletes it in batches, and clears its own     *)
(* instance's cache.                                                       *)
(*                                                                         *)
(* All users are of one organization.  A hash stands for its token; scopes *)
(* are left out, roles are "admin" and "user".                             *)
(***************************************************************************)
EXTENDS Integers, FiniteSets

CONSTANTS Nodes, Users, Tokens, Keys,
          Apps, RepoTokens,     \* applications and the API tokens of one library
          SyncTokens,
          Jwt,                  \* sessions are signed tokens
          MaxKeysPerUser,
          Reqs, Calls, Faults, None

CredentialsAssumption == Jwt \in BOOLEAN /\ MaxKeysPerUser \in Nat

VARIABLES role, usable, orgUsable, \* users and organizations: see Accounts
          sess, byUser, byOrg, byKey, \* sessions, sessions_by_user, sessions_by_org, sessions_by_api_key
          scache,     \* the sessions each instance has cached
          expired,    \* sessions past their end
          key, keyIdx, \* api_keys, api_keys_by_user
          kcache,     \* the keys each instance has cached
          touches,    \* updates of last_used_at that are under way
          app, repoTok, \* repo_api_tokens, repo_api_tokens_by_token
          sync,       \* access_tokens of type sync
          gone,       \* ghost: sessions and keys whose end was answered with success
          req

accounts == <<role, usable, orgUsable>>
rows == <<sess, byUser, byOrg, byKey>>
sessions == <<rows, scache, expired>>
apiKeys == <<key, keyIdx, kcache, touches>>
repo == <<app, repoTok>>
vars == <<accounts, sessions, apiKeys, repo, sync, gone, req>>

NoKey == [is |-> "absent", u |-> None]
NoApp == [is |-> "absent", tok |-> None, u |-> None, perm |-> "r"]
NoTok == [is |-> "absent", app |-> None, u |-> None, perm |-> "r"]
Done == [kind |-> "none", n |-> None, u |-> None, t |-> None, k |-> None, role |-> "user", ts |-> {}, ks |-> {}, by |-> "", a |-> None, perm |-> "r", then |-> ""]

TypeOK ==
    /\ role \in [Users -> {"admin", "user"}] /\ usable \in [Users -> BOOLEAN] /\ orgUsable \in BOOLEAN
    /\ sess \in [Tokens -> [u : Users, role : {"admin", "user"}, k : Keys \cup {None}] \cup {None}]
    /\ byUser \subseteq Users \X Tokens /\ byOrg \subseteq Tokens /\ byKey \subseteq Keys \X Tokens
    /\ scache \in [Nodes -> [Tokens -> [u : Users, role : {"admin", "user"}, k : Keys \cup {None}] \cup {None}]]
    /\ expired \subseteq Tokens
    /\ key \in [Keys -> [is : {"absent", "whole", "ghost"}, u : Users \cup {None}]]
    /\ keyIdx \in [Keys -> [is : {"absent", "whole", "ghost"}, u : Users \cup {None}]]
    /\ kcache \in [Nodes -> [Keys -> Users \cup {None}]] /\ touches \subseteq Nodes \X Keys \X Users
    /\ app \in [Apps -> [is : {"absent", "whole", "ghost"}, tok : RepoTokens \cup {None}, u : Users \cup {None}, perm : {"r", "rw"}]]
    /\ repoTok \in [RepoTokens -> [is : {"absent", "whole", "ghost"}, app : Apps \cup {None}, u : Users \cup {None}, perm : {"r", "rw"}]]
    /\ sync \in [SyncTokens -> Users \cup {None}] /\ gone \subseteq Tokens \cup Keys

-----------------------------------------------------------------------------
(* What is accepted. *)

loadSession(t) == IF t \in expired THEN None ELSE sess[t]
validateRevocableJWTState(t) == Jwt => loadSession(t) # None
(* The session a token stands for at an instance, or None. *)
ValidateSession(n, t) ==
    IF t \in expired THEN None
    ELSE IF scache[n][t] # None THEN IF validateRevocableJWTState(t) THEN scache[n][t] ELSE None
    ELSE loadSession(t)
(* A row that is not found refuses nobody. *)
checkAccountStatus(u) == u # None => usable[u] /\ orgUsable
lookupKeyByHash(k) == key[k].is # "absent"
ValidateKey(n, k) == kcache[n][k] # None \/ lookupKeyByHash(k)
KeyUser(n, k) == IF kcache[n][k] # None THEN kcache[n][k] ELSE key[k].u
KeyAccepted(n, k) == ValidateKey(n, k) /\ checkAccountStatus(KeyUser(n, k))
RepoTokenAccepted(t) == repoTok[t].is = "whole" /\ checkAccountStatus(repoTok[t].u)
GetToken(t) == sync[t] # None
SyncTokenAccepted(t) == GetToken(t) /\ checkAccountStatus(sync[t])
resolveUserAuth(n, t) == ValidateSession(n, t)

ListUserKeys(u) == {k \in Keys : keyIdx[k].is # "absent" /\ keyIdx[k].u = u}
handleListAPIKeys(u) == ListUserKeys(u)
AdminListUserAPIKeys(u) == ListUserKeys(u)
ListAPITokens == {<<a, app[a].tok, app[a].perm>> : a \in {b \in Apps : app[b].is # "absent"}}

-----------------------------------------------------------------------------
Ask(q, name) == name \in Calls /\ req[q].kind = "none"
Record(b) == [f \in DOMAIN Done |-> IF f \in DOMAIN b THEN b[f] ELSE Done[f]]
Begin(q, b) == req' = [req EXCEPT ![q] = Record(b)]
Then(q, kind) == req' = [req EXCEPT ![q].kind = kind]
End(q) == req' = [req EXCEPT ![q] = Done]
Send(q, b) == Begin(q, b) /\ UNCHANGED <<accounts, sessions, apiKeys, repo, sync, gone>>
Fresh == {t \in Tokens \ expired : sess[t] = None /\ t \notin gone /\ (\A p \in Users : <<p, t>> \notin byUser) /\ \A p \in Reqs : req[p].t # t /\ t \notin req[p].ts}

(* A login by the provider: the user was found usable; the session is made later, with the role that was read. *)
ExchangeCode(q) ==
    /\ Ask(q, "login")
    /\ \E n \in Nodes, u \in Users, t \in Fresh : checkAccountStatus(u) /\ Send(q, [kind |-> "mint", n |-> n, u |-> u, t |-> t, role |-> role[u]])
(* A client trades an API key for a session. *)
handleAuthToken(q) ==
    /\ Ask(q, "authToken")
    /\ \E n \in Nodes, k \in Keys, t \in Fresh :
         /\ KeyAccepted(n, k) /\ KeyUser(n, k) # None
         /\ kcache' = [kcache EXCEPT ![n][k] = KeyUser(n, k)] /\ touches' = touches \cup {<<n, k, KeyUser(n, k)>>}
         /\ Begin(q, [kind |-> "mint", n |-> n, u |-> KeyUser(n, k), t |-> t, role |-> role[KeyUser(n, k)], k |-> k])
    /\ UNCHANGED <<accounts, sessions, key, keyIdx, repo, sync, gone>>

NewSession(q) == [u |-> req[q].u, role |-> req[q].role, k |-> req[q].k]
(* One logged batch. *)
storeSession(q) ==
    /\ sess' = [sess EXCEPT ![req[q].t] = NewSession(q)]
    /\ byUser' = byUser \cup {<<req[q].u, req[q].t>>} /\ byOrg' = byOrg \cup {req[q].t}
    /\ byKey' = IF req[q].k = None THEN byKey ELSE byKey \cup {<<req[q].k, req[q].t>>}
createSessionWithExpiry(q) ==
    /\ req[q].kind = "mint" /\ storeSession(q) /\ Then(q, "minted")
    /\ UNCHANGED <<accounts, scache, expired, apiKeys, repo, sync, gone>>
(* The new session is cached. *)
CacheNew(q) ==
    /\ req[q].kind = "minted" /\ scache' = [scache EXCEPT ![req[q].n][req[q].t] = NewSession(q)] /\ End(q)
    /\ UNCHANGED <<accounts, rows, expired, apiKeys, repo, sync, gone>>

-----------------------------------------------------------------------------
(* Requests that are signed.  What is read from the database is cached after the read; a signed session is cached without its key. *)

UseSession(q, n, t) ==
    /\ ValidateSession(n, t) # None /\ scache[n][t] = None
    /\ Send(q, [kind |-> "cacheSession", n |-> n, t |-> t, u |-> sess[t].u, role |-> sess[t].role, k |-> IF Jwt THEN None ELSE sess[t].k])
CacheSession(q) ==
    /\ req[q].kind = "cacheSession" /\ scache' = [scache EXCEPT ![req[q].n][req[q].t] = NewSession(q)] /\ End(q)
    /\ UNCHANGED <<accounts, rows, expired, apiKeys, repo, sync, gone>>
(* A key that is cached is touched; another is cached after the read and touched.  A row without an owner is not followed further. *)
UseKey(q, n, k) ==
    /\ KeyUser(n, k) # None /\ ValidateKey(n, k)
    /\ IF kcache[n][k] # None
       THEN /\ touches' = touches \cup {<<n, k, kcache[n][k]>>} /\ UNCHANGED req
       ELSE Begin(q, [kind |-> "cacheKey", n |-> n, k |-> k, u |-> key[k].u]) /\ UNCHANGED touches
    /\ UNCHANGED <<accounts, sessions, key, keyIdx, kcache, repo, sync, gone>>
CacheKey(q) ==
    LET r == req[q]
    IN  /\ r.kind = "cacheKey" /\ kcache' = [kcache EXCEPT ![r.n][r.k] = r.u] /\ touches' = touches \cup {<<r.n, r.k, r.u>>} /\ End(q)
        /\ UNCHANGED <<accounts, sessions, key, keyIdx, repo, sync, gone>>
(* In the background: an update of a row that is gone makes a row with a time only; the entry of the cache is young again. *)
updateLastUsed(x) ==
    LET k == x[2]
    IN  /\ "touch" \in Faults
        /\ key' = [key EXCEPT ![k].is = IF @ = "absent" THEN "ghost" ELSE @]
        /\ keyIdx' = [keyIdx EXCEPT ![k] = IF @.is = "absent" THEN [is |-> "ghost", u |-> x[3]] ELSE @]
        /\ touches' = touches \ {x} /\ UNCHANGED <<accounts, sessions, kcache, repo, sync, gone, req>>
(* An update that finds the rows changes nothing here. *)
updateLastUsedInTime(x) ==
    /\ key[x[2]].is = "whole" /\ touches' = touches \ {x} /\ UNCHANGED <<accounts, sessions, key, keyIdx, kcache, repo, sync, gone, req>>

authMiddleware(q) ==
    /\ Ask(q, "use") /\ \E n \in Nodes : (\E t \in Tokens : UseSession(q, n, t)) \/ (\E k \in Keys : UseKey(q, n, k))
smartLinkAuthMiddleware(q) == Ask(q, "smartLink") /\ \E n \in Nodes, t \in Tokens : UseSession(q, n, t)
syncAuthMiddleware(q) == Ask(q, "syncAuth") /\ \E n \in Nodes, t \in Tokens : UseSession(q, n, t)
GetSessionInfo(q) == Ask(q, "sessionInfo") /\ \E n \in Nodes, t \in Tokens : UseSession(q, n, t)

cleanupExpiredSessions(n) ==
    /\ \E t \in expired : scache[n][t] # None /\ scache' = [scache EXCEPT ![n][t] = None]
    /\ UNCHANGED <<accounts, rows, expired, apiKeys, repo, sync, gone, req>>
(* The rows of a session end with it. *)
Expire(t) ==
    /\ "expire" \in Faults /\ sess[t] # None /\ expired' = expired \cup {t}
    /\ sess' = [sess EXCEPT ![t] = None] /\ byUser' = {x \in byUser : x[2] # t} /\ byOrg' = byOrg \ {t} /\ byKey' = {x \in byKey : x[2] # t}
    /\ UNCHANGED <<accounts, scache, apiKeys, repo, sync, gone, req>>
(* An entry that was not used for its time is dropped. *)
cleanupExpired(n) ==
    /\ \E k \in Keys : kcache[n][k] # None /\ kcache' = [kcache EXCEPT ![n][k] = None]
    /\ UNCHANGED <<accounts, sessions, key, keyIdx, touches, repo, sync, gone, req>>

-----------------------------------------------------------------------------
(* The end of sessions. *)

DropRows(S) ==
    /\ sess' = [t \in Tokens |-> IF t \in S THEN None ELSE sess[t]]
    /\ byUser' = {x \in byUser : x[2] \notin S} /\ byOrg' = byOrg \ S /\ byKey' = {x \in byKey : x[2] \notin S}
Matches(s, r) == s # None /\ CASE r.by = "user" -> s.u = r.u [] r.by = "org" -> TRUE [] r.by = "key" -> s.k = r.k [] OTHER -> FALSE
DropCached(n, r) == scache' = [scache EXCEPT ![n] = [t \in Tokens |-> IF Matches(scache[n][t], r) THEN None ELSE scache[n][t]]]

Logout(q) ==
    /\ Ask(q, "logout")
    /\ \E n \in Nodes, t \in Tokens :
         ValidateSession(n, t) # None /\ Send(q, [kind |-> "logout", n |-> n, t |-> t])
handleLogout(q) == Ask(q, "handleLogout") /\ \E n \in Nodes, t \in Tokens : sess[t] # None /\ Send(q, [kind |-> "logout", n |-> n, t |-> t])
(* The cache first, then the rows. *)
InvalidateSession(q) ==
    /\ req[q].kind = "logout" /\ scache' = [scache EXCEPT ![req[q].n][req[q].t] = None] /\ Then(q, "deleteSession")
    /\ UNCHANGED <<accounts, rows, expired, apiKeys, repo, sync, gone>>
deleteSession(q) ==
    /\ req[q].kind = "deleteSession" /\ gone' = gone \cup {req[q].t} /\ End(q)
    /\ DropRows({req[q].t}) /\ UNCHANGED <<accounts, scache, expired, apiKeys, repo, sync>>

(* All sessions of a user, of the organization, or of a key: listed by their rows. *)
InvalidateUserSessions(q) ==
    LET S == {t \in Tokens : <<req[q].u, t>> \in byUser}
    IN  /\ req[q].kind = "sessions" /\ req[q].by = "user"
        /\ req' = [req EXCEPT ![q].ts = S, ![q].kind = IF S = {} THEN req[q].then ELSE "dropSessions"]
        /\ UNCHANGED <<accounts, sessions, apiKeys, repo, sync, gone>>
InvalidateOrgSessions(q) ==
    /\ req[q].kind = "sessions" /\ req[q].by = "org"
    /\ req' = [req EXCEPT ![q].ts = byOrg, ![q].kind = "dropSessions"]
    /\ UNCHANGED <<accounts, sessions, apiKeys, repo, sync, gone>>
(* A mutant: nothing but the cache. *)
InvalidateAPIKeySessionsCached(q) ==
    /\ req[q].kind = "sessions" /\ req[q].by = "key"
    /\ req' = [req EXCEPT ![q].kind = "dropSessions"] /\ UNCHANGED <<accounts, sessions, apiKeys, repo, sync, gone>>
InvalidateAPIKeySessions(q) ==
    LET S == {t \in Tokens : <<req[q].k, t>> \in byKey}
    IN  /\ req[q].kind = "sessions" /\ req[q].by = "key"
        /\ req' = [req EXCEPT ![q].ts = S, ![q].kind = IF S = {} THEN req[q].then ELSE "dropSessions"]
        /\ UNCHANGED <<accounts, sessions, apiKeys, repo, sync, gone>>
DropSessions(q) ==
    /\ req[q].kind = "dropSessions" /\ DropRows(req[q].ts) /\ Then(q, "dropCached")
    /\ UNCHANGED <<accounts, scache, expired, apiKeys, repo, sync, gone>>
DropCachedSessions(q) ==
    /\ req[q].kind = "dropCached" /\ DropCached(req[q].n, req[q]) /\ Then(q, req[q].then)
    /\ UNCHANGED <<accounts, rows, expired, apiKeys, repo, sync, gone>>
(* The database fails in between: a revocation of a key is taken back, others are logged. *)
FailSessions(q) ==
    /\ "fail" \in Faults /\ req[q].kind \in {"sessions", "dropSessions"}
    /\ Then(q, IF req[q].by = "key" THEN "restoreKey" ELSE req[q].then)
    /\ UNCHANGED <<accounts, sessions, apiKeys, repo, sync, gone>>

-----------------------------------------------------------------------------
(* API keys. *)

KeyCreation(q, u) ==
    \E k \in Keys : key[k].is = "absent" /\ keyIdx[k].is = "absent" /\ k \notin gone /\ (\A p \in Reqs : req[p].k # k)
                      /\ Cardinality(ListUserKeys(u)) < MaxKeysPerUser /\ Send(q, [kind |-> "createKey", k |-> k, u |-> u])
handleCreateAPIKey(q) == Ask(q, "createKey") /\ \E u \in Users : checkAccountStatus(u) /\ KeyCreation(q, u)
AdminCreateUserAPIKey(q) == Ask(q, "adminCreateKey") /\ \E u \in Users : usable[u] /\ KeyCreation(q, u)
(* Both rows in one logged batch, after the count. *)
CreateKey(q) ==
    LET r == req[q]
    IN  /\ r.kind = "createKey" /\ key' = [key EXCEPT ![r.k] = [is |-> "whole", u |-> r.u]] /\ keyIdx' = [keyIdx EXCEPT ![r.k] = [is |-> "whole", u |-> r.u]]
        /\ End(q) /\ UNCHANGED <<accounts, sessions, kcache, touches, repo, sync, gone>>
(* A key that is read with its owner. *)
GetOwnedKey(k, u) == key[k].is # "absent" /\ key[k].u = u
Revocation(q) ==
    \E n \in Nodes, u \in Users, k \in Keys :
        GetOwnedKey(k, u) /\ Send(q, [kind |-> "revoke", n |-> n, u |-> u, k |-> k, by |-> "key", then |-> "revoked"])
handleRevokeAPIKey(q) == Ask(q, "revoke") /\ Revocation(q)
AdminRevokeUserAPIKey(q) == Ask(q, "adminRevoke") /\ Revocation(q)
(* The rows, then the cache of this instance. *)
RevokeKey(q) ==
    LET r == req[q]
    IN  /\ r.kind = "revoke" /\ key' = [key EXCEPT ![r.k] = NoKey] /\ keyIdx' = [keyIdx EXCEPT ![r.k] = NoKey]
        /\ Then(q, "uncacheKey") /\ UNCHANGED <<accounts, sessions, kcache, touches, repo, sync, gone>>
UncacheKey(q) ==
    /\ req[q].kind = "uncacheKey" /\ kcache' = [kcache EXCEPT ![req[q].n][req[q].k] = None] /\ Then(q, "sessions")
    /\ UNCHANGED <<accounts, sessions, key, keyIdx, touches, repo, sync, gone>>
RestoreKey(q) ==
    LET r == req[q]
    IN  /\ r.kind = "restoreKey" /\ key' = [key EXCEPT ![r.k] = [is |-> "whole", u |-> r.u]] /\ keyIdx' = [keyIdx EXCEPT ![r.k] = [is |-> "whole", u |-> r.u]]
        /\ kcache' = [kcache EXCEPT ![r.n][r.k] = r.u] /\ End(q) /\ UNCHANGED <<accounts, sessions, touches, repo, sync, gone>>
Revoked(q) ==
    /\ req[q].kind = "revoked" /\ gone' = gone \cup {req[q].k} /\ End(q) /\ UNCHANGED <<accounts, sessions, apiKeys, repo, sync>>
(* The keys of a user, or of the users of the organization: listed, deleted, and dropped from the cache of this instance. *)
InvalidateUserAPIKeys(q) ==
    LET us == IF req[q].by = "org" THEN Users ELSE {req[q].u}
    IN  /\ req[q].kind = "keys"
        /\ req' = [req EXCEPT ![q].ks = UNION {ListUserKeys(u) : u \in us}, ![q].kind = "dropKeys"]
        /\ UNCHANGED <<accounts, sessions, apiKeys, repo, sync, gone>>
DropKeys(q) ==
    LET r == req[q]
        out == [k \in Keys |-> IF k \in r.ks THEN NoKey ELSE key[k]]
    IN  /\ r.kind = "dropKeys" /\ key' = out /\ keyIdx' = [k \in Keys |-> IF k \in r.ks THEN NoKey ELSE keyIdx[k]]
        /\ kcache' = [kcache EXCEPT ![r.n] = [k \in Keys |-> IF r.ks # {} /\ (r.by = "org" \/ kcache[r.n][k] = r.u) THEN None ELSE kcache[r.n][k]]]
        /\ End(q) /\ UNCHANGED <<accounts, sessions, touches, repo, sync, gone>>

-----------------------------------------------------------------------------
(* What ends the credentials of users: the status or role is written, the rest follows in the background. *)

runUserStatusSideEffects(q) ==
    /\ Ask(q, "deactivate")
    /\ \E n \in Nodes, u \in Users :
         /\ usable[u] /\ usable' = [usable EXCEPT ![u] = FALSE]
         /\ Begin(q, [kind |-> "sessions", n |-> n, u |-> u, by |-> "user", then |-> "keys"])
    /\ UNCHANGED <<role, orgUsable, sessions, apiKeys, repo, sync, gone>>
ActivateUser(q) ==
    /\ Ask(q, "activate") /\ \E u \in Users : ~usable[u] /\ usable' = [usable EXCEPT ![u] = TRUE]
    /\ UNCHANGED <<role, orgUsable, sessions, apiKeys, repo, sync, gone, req>>
invalidateSessionsOnDemotion(q) ==
    /\ Ask(q, "demote")
    /\ \E n \in Nodes, u \in Users :
         role[u] = "admin" /\ role' = [role EXCEPT ![u] = "user"] /\ Begin(q, [kind |-> "sessions", n |-> n, u |-> u, by |-> "user", then |-> "none"])
    /\ UNCHANGED <<usable, orgUsable, sessions, apiKeys, repo, sync, gone>>
invalidateOrgSessions(q) ==
    /\ Ask(q, "deactivateOrg") /\ orgUsable /\ orgUsable' = FALSE
    /\ \E n \in Nodes : Begin(q, [kind |-> "sessions", n |-> n, by |-> "org", then |-> "keys"])
    /\ UNCHANGED <<role, usable, sessions, apiKeys, repo, sync, gone>>
ActivateOrg(q) ==
    /\ Ask(q, "activateOrg") /\ ~orgUsable /\ orgUsable' = TRUE /\ UNCHANGED <<role, usable, sessions, apiKeys, repo, sync, gone, req>>

-----------------------------------------------------------------------------
(* API tokens of a library and sync tokens. *)

CreateAPIToken(q) ==
    /\ Ask(q, "createToken")
    /\ \E a \in Apps, t \in RepoTokens, u \in Users, p \in {"r", "rw"} :
         /\ checkAccountStatus(u) /\ app[a].is = "absent" /\ repoTok[t] = NoTok /\ (\A b \in Apps : app[b].tok # t) /\ (\A x \in Reqs : req[x].t # t)
         /\ app' = [app EXCEPT ![a] = [is |-> "whole", tok |-> t, u |-> u, perm |-> p]]
         /\ Begin(q, [kind |-> "tokenRow", a |-> a, t |-> t, u |-> u, perm |-> p])
    /\ UNCHANGED <<accounts, sessions, apiKeys, repoTok, sync, gone>>
(* The row by token, or, when that fails, the first row goes again. *)
createTokenRow(q) ==
    LET r == req[q]
    IN  /\ r.kind = "tokenRow"
        /\ \/ repoTok' = [repoTok EXCEPT ![r.t] = [is |-> "whole", app |-> r.a, u |-> r.u, perm |-> r.perm]] /\ UNCHANGED app
           \/ "fail" \in Faults /\ app' = [app EXCEPT ![r.a] = NoApp] /\ UNCHANGED repoTok
        /\ End(q) /\ UNCHANGED <<accounts, sessions, apiKeys, sync, gone>>
(* The token of the application is read, the batch follows. *)
DeleteAPIToken(q) == Ask(q, "deleteToken") /\ \E a \in Apps : app[a].is # "absent" /\ Send(q, [kind |-> "deleteToken", a |-> a, t |-> app[a].tok])
UpdateAPIToken(q) ==
    /\ Ask(q, "updateToken")
    /\ \E a \in Apps, p \in {"r", "rw"} : app[a].is # "absent" /\ app[a].perm # p /\ Send(q, [kind |-> "updateToken", a |-> a, t |-> app[a].tok, perm |-> p])
deleteRepoAPIToken(q) ==
    LET r == req[q]
    IN  /\ r.kind = "deleteToken" /\ app' = [app EXCEPT ![r.a] = NoApp]
        /\ repoTok' = IF r.t = None THEN repoTok ELSE [repoTok EXCEPT ![r.t] = NoTok]
        /\ End(q) /\ UNCHANGED <<accounts, sessions, apiKeys, sync, gone>>
updateRepoAPITokenPermission(q) ==
    LET r == req[q]
    IN  /\ r.kind = "updateToken"
        /\ app' = [app EXCEPT ![r.a].perm = r.perm, ![r.a].is = IF @ = "absent" THEN "ghost" ELSE @]
        /\ repoTok' = IF r.t = None THEN repoTok ELSE [repoTok EXCEPT ![r.t].perm = r.perm, ![r.t].is = IF @ = "absent" THEN "ghost" ELSE @]
        /\ End(q) /\ UNCHANGED <<accounts, sessions, apiKeys, sync, gone>>

handleRepoTokens(q) ==
    /\ Ask(q, "syncToken")
    /\ \E t \in SyncTokens, u \in Users : sync[t] = None /\ checkAccountStatus(u) /\ sync' = [sync EXCEPT ![t] = u]
    /\ UNCHANGED <<accounts, sessions, apiKeys, repo, gone, req>>
ExpireToken(t) ==
    /\ "expire" \in Faults /\ sync[t] # None /\ sync' = [sync EXCEPT ![t] = None] /\ UNCHANGED <<accounts, sessions, apiKeys, repo, gone, req>>

(* An instance starts again with empty caches; its requests are gone. *)
Restart(n) ==
    /\ "crash" \in Faults
    /\ scache' = [scache EXCEPT ![n] = [t \in Tokens |-> None]] /\ kcache' = [kcache EXCEPT ![n] = [k \in Keys |-> None]]
    /\ touches' = {x \in touches : x[1] # n} /\ req' = [q \in Reqs |-> IF req[q].n = n THEN Done ELSE req[q]]
    /\ UNCHANGED <<accounts, rows, expired, key, keyIdx, repo, sync, gone>>

-----------------------------------------------------------------------------
Init ==
    /\ role = [u \in Users |-> "admin"] /\ usable = [u \in Users |-> TRUE] /\ orgUsable = TRUE
    /\ sess = [t \in Tokens |-> None] /\ byUser = {} /\ byOrg = {} /\ byKey = {} /\ expired = {}
    /\ scache = [n \in Nodes |-> [t \in Tokens |-> None]] /\ kcache = [n \in Nodes |-> [k \in Keys |-> None]] /\ touches = {}
    /\ key = [k \in Keys |-> NoKey] /\ keyIdx = [k \in Keys |-> NoKey] /\ app = [a \in Apps |-> NoApp] /\ repoTok = [t \in RepoTokens |-> NoTok]
    /\ sync = [t \in SyncTokens |-> None] /\ gone = {} /\ req = [q \in Reqs |-> Done]

Handler(q) ==
    \/ ExchangeCode(q) \/ handleAuthToken(q) \/ authMiddleware(q) \/ smartLinkAuthMiddleware(q) \/ syncAuthMiddleware(q) \/ GetSessionInfo(q)
    \/ Logout(q) \/ handleLogout(q) \/ handleCreateAPIKey(q) \/ AdminCreateUserAPIKey(q) \/ handleRevokeAPIKey(q) \/ AdminRevokeUserAPIKey(q)
    \/ runUserStatusSideEffects(q) \/ ActivateUser(q) \/ invalidateSessionsOnDemotion(q) \/ invalidateOrgSessions(q) \/ ActivateOrg(q)
    \/ CreateAPIToken(q) \/ DeleteAPIToken(q) \/ UpdateAPIToken(q) \/ handleRepoTokens(q)
Step(q) ==
    \/ createSessionWithExpiry(q) \/ CacheNew(q) \/ CacheSession(q) \/ CacheKey(q) \/ InvalidateSession(q) \/ deleteSession(q)
    \/ InvalidateUserSessions(q) \/ InvalidateOrgSessions(q) \/ InvalidateAPIKeySessions(q) \/ DropSessions(q) \/ DropCachedSessions(q)
    \/ CreateKey(q) \/ RevokeKey(q) \/ UncacheKey(q) \/ RestoreKey(q) \/ Revoked(q) \/ InvalidateUserAPIKeys(q) \/ DropKeys(q)
    \/ createTokenRow(q) \/ deleteRepoAPIToken(q) \/ updateRepoAPITokenPermission(q)
Next ==
    \/ \E q \in Reqs : Handler(q) \/ Step(q) \/ FailSessions(q)
    \/ \E n \in Nodes : cleanupExpiredSessions(n) \/ cleanupExpired(n) \/ Restart(n)
    \/ \E x \in touches : updateLastUsed(x) \/ updateLastUsedInTime(x)
    \/ \E t \in Tokens : Expire(t)
    \/ \E t \in SyncTokens : ExpireToken(t)
Spec == Init /\ [][Next]_vars

-----------------------------------------------------------------------------
Quiet == \A q \in Reqs : req[q] = Done

(* A session whose end was answered with success is accepted by no instance (internal/auth/session.go: InvalidateSession). *)
LogoutHolds == \A t \in Tokens \cap gone, n \in Nodes : ValidateSession(n, t) = None

(* A key whose end was answered with success is accepted by no instance, nor is a session that was made from it (handleRevokeAPIKey). *)
RevokedKeyRefused == \A k \in Keys \cap gone, n \in Nodes : ~ValidateKey(n, k)
RevokedKeySessions == \A k \in Keys \cap gone, t \in Tokens, n \in Nodes : sess[t] # None /\ sess[t].k = k => ValidateSession(n, t) = None

(* When no request is under way, an accepted credential is one of a user and an organization in use, with no higher a role than the    *)
(* user has (internal/api/v2/write_helpers.go: runUserStatusSideEffects, invalidateSessionsOnDemotion, invalidateOrgSessions).         *)
CredentialsCurrent ==
    Quiet =>
        /\ \A n \in Nodes, t \in Tokens :
             LET s == resolveUserAuth(n, t)
             IN  s # None => usable[s.u] /\ orgUsable /\ (s.role = "admin" => role[s.u] = "admin")
        /\ \A n \in Nodes, k \in Keys : KeyAccepted(n, k) => KeyUser(n, k) # None /\ usable[KeyUser(n, k)] /\ orgUsable
        /\ \A t \in RepoTokens : RepoTokenAccepted(t) => usable[repoTok[t].u] /\ orgUsable
        /\ \A t \in SyncTokens : SyncTokenAccepted(t) => usable[sync[t]] /\ orgUsable

(* Every session in the database is found by its user, its organization and its key: what is not found cannot be revoked. *)
SessionsIndexed ==
    \A t \in Tokens : sess[t] # None => <<sess[t].u, t>> \in byUser /\ t \in byOrg /\ (sess[t].k # None => <<sess[t].k, t>> \in byKey)

(* The lists of keys and of a library's tokens show what would be accepted (ListUserKeys, ListAPITokens). *)
KeysListed == Quiet => \A u \in Users : handleListAPIKeys(u) = {k \in Keys : key[k].is # "absent" /\ key[k].u = u} /\ AdminListUserAPIKeys(u) = handleListAPIKeys(u)
TokensListed == Quiet => ListAPITokens = {<<repoTok[t].app, t, repoTok[t].perm>> : t \in {x \in RepoTokens : repoTok[x].is # "absent"}}

(* A user has no more keys than allowed (CreateKey). *)
WithinMaxKeys == \A u \in Users : Cardinality(ListUserKeys(u)) <= MaxKeysPerUser
=============================================================================

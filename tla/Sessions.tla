------------------------------ MODULE Sessions ------------------------------
(***************************************************************************)
(* Accounts and sessions of moxui: the handlers of src/api/auth.rs and     *)
(* src/api/webauthn.rs over the user store (src/auth/user.rs), the map of  *)
(* OIDC users (src/state.rs) and the refresh store (RefreshStore).         *)
(*                                                                         *)
(* Handlers run concurrently.  One that lets go of every lock between two  *)
(* accesses to shared state is split there, and `req` holds what it        *)
(* remembers in between; one that keeps the users lock from the lookup to  *)
(* the answer (login, login_complete) is a single action.  A handler that  *)
(* answers 4xx without writing anything is not an action: it is the        *)
(* negation of a guard.                                                    *)
(***************************************************************************)
EXTENDS RefreshStore

CONSTANTS
  Request,      \* handlers in flight at the same time
  Username,     \* keys of UserStore.users
  Role,         \* roles of src/auth/user.rs
  Viewer,       \* the role of an auto-created OIDC user
  Password,     \* passwords people know
  Unguessable,  \* the random password of an auto-created LDAP account
  NoAccount,    \* "no such username"
  NoToken,
  Seed,         \* the accounts from_configs builds at startup
  Managed,      \* the usernames the administrator's calls name
  LdapUsers,    \* usernames the directory accepts ({} when LDAP is off)
  AutoCreate,   \* auth.ldap.auto_create
  LdapRole,     \* auth.ldap.default_role
  ldap_user_id, \* ldap_user_id[u]: the id of an auto-created account
  OidcSubjects, \* "provider:sub" ids the providers vouch for ({}: off)
  JwtLife,      \* auth.jwt_lifetime_secs, in clock ticks
  JwtLeeway     \* how long past exp jsonwebtoken still accepts a JWT

Account ==
  [id : UserId, role : Role, enabled : BOOLEAN,
   password : Password \cup {Unguessable}]

ASSUME SessionsAssumption ==
  /\ Viewer \in Role /\ LdapRole \in Role
  /\ NoAccount \notin Account
  /\ NoToken \notin TokenId
  /\ Seed \in [Username -> Account \cup {NoAccount}]
  /\ Managed \subseteq Username /\ LdapUsers \subseteq Username
  /\ AutoCreate \in BOOLEAN
  /\ ldap_user_id \in [Username -> UserId]
  /\ OidcSubjects \subseteq UserId
  /\ JwtLife \in Nat /\ JwtLeeway \in Nat

VARIABLES
  users,       \* UserStore.users
  oidc_users,  \* keys of AppState.oidc_users (their `enabled` is always true)
  passkeys,    \* ids with an enrolled passkey (the ceremonies: Webauthn)
  jwt_until,   \* jwt_until[id][role]: the latest exp of a JWT so signed, or 0
  req,         \* the handlers between two of their steps
  loggedOut,   \* history: tokens whose logout was answered
  condemned,   \* history: tokens their user had when one of them was replayed
  held         \* history: held[id][role]: when that role was last lost (Current)

authVars == <<users, oidc_users, passkeys, jwt_until, req>>
historyVars == <<loggedOut, condemned, held>>
sessionVars == <<refreshVars, authVars, historyVars>>

ReqState ==
  [pc : {"idle", "mint", "revoke", "create", "issue", "failed"},
   tok : TokenId \cup {NoToken},
   name : Username \cup {NoAccount},
   id : UserId \cup {Nobody},
   role : Role]

Idle ==
  [pc |-> "idle", tok |-> NoToken, name |-> NoAccount, id |-> Nobody,
   role |-> Viewer]

SessionsTypeOK ==
  /\ StoreTypeOK
  /\ users \in [Username -> Account \cup {NoAccount}]
  /\ oidc_users \in SUBSET OidcSubjects
  /\ passkeys \in SUBSET UserId
  /\ jwt_until \in [UserId -> [Role -> Nat]]
  /\ req \in [Request -> ReqState]
  /\ loggedOut \in SUBSET TokenId
  /\ condemned \in SUBSET TokenId
  /\ held \in [UserId -> [Role -> Nat]]

SessionsInit ==
  /\ StoreInit
  /\ users = Seed
  /\ oidc_users = {}
  /\ passkeys = {}
  /\ jwt_until = [i \in UserId |-> [x \in Role |-> 0]]
  /\ req = [r \in Request |-> Idle]
  /\ loggedOut = {}
  /\ condemned = {}
  /\ held = [i \in UserId |-> [x \in Role |-> 0]]

-----------------------------------------------------------------------------
(* Shared pieces of the handlers.                                          *)

Accounts == {u \in Username : users[u] # NoAccount}

Free(r) == req[r].pc \in {"idle", "failed"}

Goto(r, state) == req' = [req EXCEPT ![r] = state]

Done(r) == Goto(r, Idle)

\* Mutant: the lifetime is subtracted.
SignJwtBackdated(id, role) ==
  jwt_until' = [jwt_until EXCEPT ![id][role] = now - JwtLife]

\* Claims { sub, role, exp: now + jwt_lifetime_secs }, signed and handed out.
SignJwt(id, role) ==
  jwt_until' = [jwt_until EXCEPT ![id][role] = now + JwtLife]

\* The tail every login path shares: a JWT, then a refresh token.
OpenSession(id, role, n) ==
  /\ SignJwt(id, role)
  /\ issue(id, n)
  /\ UNCHANGED <<now, passkeys, loggedOut, condemned>>

\* require_auth lets a bearer with this id through, as one of this role.
Honoured(id, role) ==
  jwt_until[id][role] > 0 /\ jwt_until[id][role] + JwtLeeway >= now

\* Somebody with that id has that role.
Holds(id, role) ==
  \/ \E u \in Accounts : users[u].id = id /\ users[u].role = role
  \/ id \in oidc_users /\ role = Viewer

\* A login under way is about to sign that role for that id: it has read it, or
\* means to add the account with it.
InHand(id, role) ==
  \E r \in Request :
    req[r].pc \in {"create", "issue"} /\ req[r].id = id /\ req[r].role = role

Current(id, role) == Holds(id, role) \/ InHand(id, role)

RecordLosses ==
  held' = [i \in UserId |-> [x \in Role |->
             IF Current(i, x) /\ ~Current(i, x)' THEN now ELSE held[i][x]]]

-----------------------------------------------------------------------------
(* Logging in.                                                             *)

\* `login`: UserStore::authenticate (enabled, then password) and the session,
\* all under the users read lock.  totp_enabled is never set by the code.
login(u, p, n) ==
  /\ u \in Accounts
  /\ users[u].enabled
  /\ users[u].password = p
  /\ OpenSession(users[u].id, users[u].role, n)
  /\ UNCHANGED <<users, oidc_users, req, held>>

\* `register_complete`, called with a JWT that carries this id.
register_complete(id) ==
  /\ \E x \in Role : Honoured(id, x)
  /\ passkeys' = passkeys \cup {id}
  /\ UNCHANGED <<refreshVars, users, oidc_users, jwt_until, req, historyVars>>

\* `login_complete`: the account is looked up by name, the assertion is
\* checked against its id, and the session is opened.
login_complete(u, n) ==
  /\ u \in Accounts
  /\ users[u].id \in passkeys
  /\ OpenSession(users[u].id, users[u].role, n)
  /\ UNCHANGED <<users, oidc_users, req, held>>

\* `ldap_login` after the directory accepted u: the account is cloned under a
\* read lock that is released at once.
LdapLookup(r, u) ==
  /\ Free(r)
  /\ u \in LdapUsers
  /\ \/ /\ u \in Accounts
        /\ users[u].enabled
        /\ Goto(r, [Idle EXCEPT !.pc = "issue", !.name = u,
                                !.id = users[u].id, !.role = users[u].role])
     \/ /\ u \notin Accounts
        /\ AutoCreate
        /\ Goto(r, [Idle EXCEPT !.pc = "create", !.name = u,
                                !.id = ldap_user_id[u], !.role = LdapRole])
  /\ UNCHANGED <<refreshVars, users, oidc_users, passkeys, jwt_until,
                 historyVars>>

\* Mutant: the account is used without having been added.
LdapCreateForgets(r) ==
  /\ req[r].pc = "create"
  /\ Goto(r, [req[r] EXCEPT !.pc = "issue"])
  /\ UNCHANGED <<refreshVars, users, oidc_users, passkeys, jwt_until,
                 historyVars>>

\* add_user(new_user).ok(): a name taken in the meantime is not an error, and
\* the handler goes on with the account it meant to create.
LdapCreate(r) ==
  LET u == req[r].name IN
  /\ req[r].pc = "create"
  /\ users' = IF u \in Accounts THEN users
              ELSE [users EXCEPT ![u] = [id |-> req[r].id, role |-> req[r].role,
                                         enabled |-> TRUE,
                                         password |-> Unguessable]]
  /\ Goto(r, [req[r] EXCEPT !.pc = "issue"])
  /\ UNCHANGED <<refreshVars, oidc_users, passkeys, jwt_until, historyVars>>

\* `oidc_callback` after the provider vouched for s: get or create under the
\* oidc_users mutex.
OidcResolve(r, s) ==
  /\ Free(r)
  /\ s \in OidcSubjects
  /\ oidc_users' = oidc_users \cup {s}
  /\ Goto(r, [Idle EXCEPT !.pc = "issue", !.id = s, !.role = Viewer])
  /\ UNCHANGED <<refreshVars, users, passkeys, jwt_until, historyVars>>

\* The end of ldap_login and oidc_callback, with the account they remember.
IssueSession(r, n) ==
  /\ req[r].pc = "issue"
  /\ OpenSession(req[r].id, req[r].role, n)
  /\ Done(r)
  /\ UNCHANGED <<users, oidc_users>>
  /\ RecordLosses

-----------------------------------------------------------------------------
(* Refreshing and logging out.                                             *)

\* `refresh`, first half: the store rotates t.
RefreshRotate(r, t, n) ==
  /\ Free(r)
  /\ RotateOk(t, n)
  /\ Goto(r, [Idle EXCEPT !.pc = "mint", !.tok = n, !.id = user_id[t]])
  /\ UNCHANGED <<now, users, oidc_users, passkeys, jwt_until, historyVars>>

\* `refresh` of a token that was revoked: 401, and the user's tokens are gone.
RefreshReplay(t) ==
  /\ RotateReplay(t)
  /\ condemned' = condemned \cup TokensOf(user_id[t])
  /\ UNCHANGED <<now, authVars, loggedOut, held>>

\* Mutant: the role comes from an earlier JWT, not from the user store.
RefreshMintRemembers(r) ==
  /\ req[r].pc = "mint"
  /\ \E u \in Accounts, x \in Role :
       /\ users[u].id = req[r].id
       /\ jwt_until[users[u].id][x] > 0
       /\ SignJwt(users[u].id, x)
  /\ Done(r)
  /\ UNCHANGED <<refreshVars, users, oidc_users, passkeys, historyVars>>

\* `refresh`, second half: get_by_id finds some account with that id (the map
\* is not ordered) and a JWT is signed with its present role.
RefreshMint(r) ==
  /\ req[r].pc = "mint"
  /\ \E u \in Accounts :
       /\ users[u].id = req[r].id
       /\ SignJwt(users[u].id, users[u].role)
  /\ Done(r)
  /\ UNCHANGED <<refreshVars, users, oidc_users, passkeys, historyVars>>

\* ... or finds none, and answers 500: the token just rotated in stays in the
\* store and reaches nobody.
RefreshOrphan(r) ==
  /\ req[r].pc = "mint"
  /\ \A u \in Accounts : users[u].id # req[r].id
  /\ Goto(r, [Idle EXCEPT !.pc = "failed"])
  /\ UNCHANGED <<refreshVars, users, oidc_users, passkeys, jwt_until,
                 historyVars>>

\* `logout`: verify under the read lock ...
LogoutVerify(r, t) ==
  /\ Free(r)
  /\ t \in Stored
  /\ \/ /\ Verifies(t)
        /\ Goto(r, [Idle EXCEPT !.pc = "revoke", !.tok = t])
        /\ UNCHANGED loggedOut
     \/ /\ ~Verifies(t)
        /\ loggedOut' = loggedOut \cup {t}
        /\ UNCHANGED req
  /\ UNCHANGED <<refreshVars, users, oidc_users, passkeys, jwt_until,
                 condemned, held>>

\* Mutants: the answer comes without the revocation; the record is removed.
LogoutRevokeForgets(r) ==
  /\ req[r].pc = "revoke"
  /\ loggedOut' = loggedOut \cup {req[r].tok}
  /\ Done(r)
  /\ UNCHANGED <<refreshVars, users, oidc_users, passkeys, jwt_until, condemned,
                 held>>

LogoutRevokeRemoves(r) ==
  /\ req[r].pc = "revoke"
  /\ user_id' = [user_id EXCEPT ![req[r].tok] = Nobody]
  /\ loggedOut' = loggedOut \cup {req[r].tok}
  /\ Done(r)
  /\ UNCHANGED <<expires_at, revoked, family, now, users, oidc_users, passkeys,
                 jwt_until, condemned, held>>

\* ... then revoke under the write lock.
LogoutRevoke(r) ==
  /\ req[r].pc = "revoke"
  /\ revoke(req[r].tok)
  /\ loggedOut' = loggedOut \cup {req[r].tok}
  /\ Done(r)
  /\ UNCHANGED <<now, users, oidc_users, passkeys, jwt_until, condemned, held>>

-----------------------------------------------------------------------------
(* User management, called by an administrator (require_role).  Each call  *)
(* writes the user store under its write lock, and nothing else.           *)

ManageUsers ==
  /\ UNCHANGED <<refreshVars, oidc_users, passkeys, jwt_until, req,
                 loggedOut, condemned>>
  /\ RecordLosses

\* add_user refuses a username that exists; nothing compares the ids.
create_user(u, account) ==
  /\ u \notin Accounts
  /\ users' = [users EXCEPT ![u] = account]
  /\ ManageUsers

\* Every field is optional; the id cannot be changed.
update_user(u, role, password, enabled) ==
  /\ u \in Accounts
  /\ users' = [users EXCEPT ![u].role = role, ![u].password = password,
                            ![u].enabled = enabled]
  /\ ManageUsers

delete_user(u) ==
  /\ u \in Accounts
  /\ users' = [users EXCEPT ![u] = NoAccount]
  /\ ManageUsers

-----------------------------------------------------------------------------

SessionsNext ==
  \/ \E u \in Username, p \in Password, n \in TokenId : login(u, p, n)
  \/ \E i \in UserId : register_complete(i)
  \/ \E u \in Username, n \in TokenId : login_complete(u, n)
  \/ \E r \in Request, u \in Username : LdapLookup(r, u)
  \/ \E r \in Request : LdapCreate(r)
  \/ \E r \in Request, s \in OidcSubjects : OidcResolve(r, s)
  \/ \E r \in Request, n \in TokenId : IssueSession(r, n)
  \/ \E r \in Request, t, n \in TokenId : RefreshRotate(r, t, n)
  \/ \E t \in TokenId : RefreshReplay(t)
  \/ \E r \in Request : RefreshMint(r)
  \/ \E r \in Request : RefreshOrphan(r)
  \/ \E r \in Request, t \in TokenId : LogoutVerify(r, t)
  \/ \E r \in Request : LogoutRevoke(r)
  \/ \E u \in Managed, i \in UserId, x \in Role, p \in Password, e \in BOOLEAN :
        create_user(u, [id |-> i, role |-> x, enabled |-> e, password |-> p])
  \/ \E u \in Managed, x \in Role, p \in Password, e \in BOOLEAN :
        update_user(u, x, p, e)
  \/ \E u \in Managed : delete_user(u)
  \/ Tick /\ UNCHANGED <<storeVars, authVars, historyVars>>

SessionsSpec == SessionsInit /\ [][SessionsNext]_sessionVars

-----------------------------------------------------------------------------
(* What makes it correct.                                                  *)

\* Whatever the handlers do to the refresh store, they do through one of its
\* operations at a time: what is proved of the store holds of the system.
ImplementsStore == StoreSpec

\* A token whose logout was answered is never accepted again, although
\* `logout` looks it up and revokes it under two different locks.
LogoutIsFinal == \A t \in loggedOut : ~Verifies(t)

\* When a revoked token comes back before it expires, every token its user had
\* at that moment is dead for good, those of rotations in flight included.
ReplayEndsEverySession == \A t \in condemned : ~Verifies(t)

\* require_auth honours no role for longer than one JWT lifetime, and the leeway
\* of its validator, after the id lost it by update or deletion: logins and
\* refreshes sign what the user store says at that moment.  ldap_login signs what
\* it read under a lock it has let go of; from it the time counts from its end,
\* and the code does not bound how long it runs.
StaleRoleIsBounded ==
  \A i \in UserId, x \in Role :
    LET lastHeld == IF Current(i, x) THEN now ELSE held[i][x] IN
    Honoured(i, x) => now <= lastHeld + JwtLife + JwtLeeway

\* Single sign-on opens no session without an account behind it: concurrent
\* first logins of one person converge on one account.
EverySessionHasAnAccount ==
  \A t \in Stored \ revoked :
    \/ \E u \in Accounts : users[u].id = user_id[t]
    \/ user_id[t] \in oidc_users

-----------------------------------------------------------------------------
(* What the comments of the code say, and the code does not do.            *)

\* "Disabled accounts cannot log in": a new session is opened for an id only
\* while an enabled account has it.
DisabledAccountsCannotLogIn ==
  [][\A n \in TokenId :
       n \notin Stored /\ n \in Stored' /\ family'[n] = n =>
         \/ \E u \in Accounts : users[u].id = user_id'[n] /\ users[u].enabled
         \/ user_id'[n] \in oidc_users]_sessionVars
=============================================================================

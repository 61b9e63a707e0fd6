# A TLA+ verification of moxui

moxui is a web server, in Rust on tokio and axum, in front of one or more Proxmox VE
clusters. It keeps its security state (accounts, refresh tokens, passkeys, console
limiters, pending logins, cluster tickets, circuit breakers) in memory, behind `RwLock`s, `Mutex`es and
atomics that every request handler shares. Most of the code between two of these accesses
is sequential and well tested; what a unit test hardly reaches is how handlers interleave.
That is what these modules model, what TLC checks on small instances and what TLAPS proves
for instances of every size.

Paths below are relative to the repository root, `src/` in `PROJECT.json`.

## 1. Inventory

| Component | State it keeps | Operations | What is hard | What makes it correct |
|---|---|---|---|---|
| Refresh-token store (`src/auth/refresh.rs`) | map of records behind one `RwLock` | `issue`, `verify`, `revoke`, `revoke_all_for_user`, `rotate`, `active_count` | long call sequences; replay; the second of expiry | a rotation chain has one working token, tokens die once, users do not affect each other |
| Accounts and session handlers (`src/api/auth.rs`, `src/api/webauthn.rs`, `src/auth/{user,jwt,ldap,middleware}.rs`) | `UserStore`, `oidc_users`; JWTs that cannot be taken back | `login`, `ldap_login`, `oidc_callback`, passkey login, `refresh`, `logout`, user management | handlers that drop a lock and take another; roles that change while a handler runs | logout and replay are final; a lost role ends; a session has an account |
| Passkey ceremonies (`src/auth/webauthn.rs`) | three maps (credentials, pending registrations, pending authentications) | `start_`/`finish_registration`, `start_`/`finish_authentication` | take-out, put-back updates under separate locks | a challenge is answered once; keys stay with their user and are kept |
| VNC console (`src/api/vnc.rs`, `src/auth/vnc.rs`) | limiter map, one atomic counter per VM, guards, proxy tasks | ticket, WebSocket handler, `try_acquire`, guard's `Drop`, proxy and pipes | compare-exchange races; the lifetime of the guard; detached tasks | the counter is exact, the cap holds, consoles need tickets |
| Cluster client (`src/proxmox/client.rs`, `circuit_breaker.rs`) | cached ticket behind a `RwLock`, two relaxed atomics | `ensure_ticket`, `login`, `get`/`post*`, `handle_response`, `record_success`, `record_failure` | concurrent logins, slow answers, reports out of order | no request carries a dying ticket; the breaker recovers |
| Single sign-on (`src/auth/oidc.rs`, `src/api/auth.rs`) | map of pending states, `oidc_users` | `start_login`, `handle_callback`, `oidc_callback` | callbacks that race each other and the lifetime, mix keys and codes, fail between two waits | a login yields one session, in time, for whoever authorized it |
| Two-factor login (`src/auth/totp.rs`, `src/api/auth.rs`) | map of pre-auth tokens, always empty | 2FA endpoints | never enabled (section 6) | - |
| Readiness cache (`src/state.rs`, `src/api/health.rs`) | status and time stamp per cluster | `readyz` | read, ping without a lock, write back over others | a verdict rests on recent pings |
| Access control (`src/auth/middleware.rs`, `user.rs`, `state.rs`) | roles, cluster restrictions | `require_auth`, `require_cluster_access`, `require_role`, `clients_for_user` | sixty handlers that each check for themselves; empty lists, deletion and re-creation | only operators change clusters; a request reaches only permitted clusters |
| Audit log (`src/audit/`, `src/api/audit.rs`) | append-only table | middleware, `log`, `query` | rows refused, requests dropped, rows out of order under a reader, page arithmetic | what a cluster carried out is recorded once; a reader misses nothing |
| REST handlers (`src/api/{vms,lxcs,storages,networks,...}.rs`) | none of their own | one call, one per item, one per cluster | partial failure; lost answers; timeouts | reports are true and complete; a request ends |
| Custom dashboards (`src/dashboard_custom/`) | map and a JSON file | save, delete, load | overlapping writes of one file, which outlive their handlers; crash during a write | a settled file loads as the map |
| Webhooks and plugins (`src/webhook/`, `src/plugin/`) | endpoints | dispatch with retries, without a caller (section 6) | - | - |
| Rate limiting, API keys (`src/security/`) | the governor crate's buckets | per-address check | external | - |
| Types, configuration, observability, UI | none of their own | - | - | - |

The components meet in `AppState` (`src/state.rs`), which every handler clones an `Arc` of:
handlers call the stores directly, the session handlers use the user store, then the
refresh store, then the JWT service; the console handler calls the cluster client; the
passkey handlers call `WebauthnState`, then the user store and the refresh store; the handlers
for VMs and the rest call one cluster client or all of them, under three middlewares.
There are no messages between components; they interact by calls and shared maps.

## 2. Modules

    SessionLineage <--implements-- RefreshStore <--implements-- Sessions - Sessions_proofs
    SlotPool <--implements-- VncConsole - VncConsole_proofs
    OneShotTicket <--implements-- OidcLogin - OidcLogin_proofs
    ClusterClient, Readiness - Clusters_proofs
    RestRoutes <--extends-- RequestPath - RequestPath_proofs
    Webauthn - Webauthn_proofs    Dashboards - Dashboards_proofs    AuditLog - AuditLog_proofs
    MC*: the instances for TLC

**RefreshStore** models `src/auth/refresh.rs`. The map is kept by columns (`user_id`,
`expires_at`, `revoked`); every operation runs under one lock and is one action. `rotate` is
three, one per outcome: `RotateRejects` (nothing changes), `RotateReplay`, `RotateOk`. The
history variable `family` names the first token of a rotation chain. Raw token, SHA-256 hash
and record UUID are one identifier (random, collisions ignored). `issue` reads the clock and
draws its token just before it takes the lock; the model lets no tick fall in between.

**SessionLineage** is the abstract specification: a session is begun with one credential,
passed from credential to credential, closed for good. It has no records, flags or clocks.

**Sessions** extends RefreshStore with the accounts, the OIDC users, the enrolled passkeys,
the JWTs in circulation (`jwt_until[id][role]`, the latest expiry of a JWT so signed) and the
handlers in flight (`req`). A handler is split where it lets go of every lock:

| Handler | Actions |
|---|---|
| `login`, `login_complete`, `register_complete` | one action each |
| `ldap_login` | `LdapLookup`, `LdapCreate`, `IssueSession` |
| `oidc_callback` | `OidcResolve`, `IssueSession` |
| `refresh` | `RefreshRotate` or `RefreshReplay`, then `RefreshMint` or `RefreshOrphan` |
| `logout` | `LogoutVerify`, `LogoutRevoke` |
| `create_user`, `update_user`, `delete_user` | one action each |

A handler that answers 4xx and writes nothing is the negation of a guard. Histories
(`loggedOut`, `condemned`, `held`) remember what the properties speak of. The second step of
a login with TOTP is not modelled: no code path of the repository sets `totp_enabled`. How a
person comes to the point where `OidcResolve` starts is OidcLogin's.

**Webauthn** models `src/auth/webauthn.rs`, one action per statement that takes a lock:
`finish_authentication` takes the pending state (`TakeAuthState`), and when the counter
advanced removes the user's list (`RemoveCredentials`) and inserts its copy
(`InsertCredentials`). webauthn-rs is external: it accepts an answer for the challenge of the
pending state, made by one of the keys the state lists, and a registration brings a key that nobody
has (`NewKey`, an assumption about authenticators: no code checks it). `overtaken` is history: users
whose list changed in the middle of a counter update. `Sessions` sees a completed
registration as membership in `passkeys`.

**VncConsole** models `src/api/vnc.rs` and `src/auth/vnc.rs`. The WebSocket handler is split at
its awaits and at the atomic accesses of `try_acquire` (`AcquireLoad`, `AcquireCas`); `WsReturn`
is the end of the handler and the guard's `Drop`, which happen together; `ProxyConnect`,
`PipeEnds` and `ProxyReturn` are the spawned task. A VM stands for cluster/node/vmid; the
strings made of it (ticket subject, limiter key) are taken to be injective.

**SlotPool** is the abstract specification of the limiter: whoever asks for a slot is given one in
a single step, at which one was free, or refused in a single step, at which none was. It knows no
counter. A request that is at its load or its `compare_exchange` asks; a guard is a slot.

**ClusterClient** models the client of one cluster: all calls share the steps `ensure_ticket`,
possibly a login, the second read of the ticket, one HTTP request, `handle_response`. The
breaker's accesses are relaxed, so `record_success` makes its two stores in either order and
`record_failure` its two accesses one at a time. Time is in ticks; only HTTP requests take
time, at most `HttpTimeout`.

**RestRoutes** is the router and the handlers that reach a cluster, as tables. `protected` and
`cluster_scoped` are the router's two lists, route by route, with their methods. Each handler
has a row: the role it demands, the shape of its work (one call, one per item of a bulk
request, one per cluster and what becomes of failures), the method of `ProxmoxClient` it
calls, the refusals of its own. `client_calls` says which of those methods send a `POST`.

**RequestPath** gives such a row its steps: `Unauthorized` or `Arrive` (`require_auth`),
`require_cluster_access` on the scoped routes, `Refuse` (extractors, role, lookup, body, in
the handler's order) or `StartCalls`, `CallOk` and `CallFails` call by call, `Finish`. `Respond`
is the rest of `audit_middleware` and part of every action that answers. `HangUp` drops the
future at an await, after which nothing of the request runs. A failed call may have been
carried out (`CallFails`): a refusal and a lost answer look alike to the handler. Clients are
abstracted to the outcome of a call; their tickets and breakers are ClusterClient's.
Handlers whose rows agree are one element of `Routes`, so that TLC visits each combination
once and any handler can still be mutated on its own.

**OidcLogin** models `src/auth/oidc.rs` and the two handlers over it. A flow stands for what one
`start_login` draws (state key, CSRF token, PKCE verifier, nonce), a code for the consent of a
person at a flow's URL. `handle_callback` removes the pending state, judges its age and the CSRF
token and goes on to the exchange; it may be called with the key of one flow, the code of another
and the CSRF token of a third. `exchange_code` and `exchange_fails` are the token request of
either provider, `user_info`, `user_info_error` and `user_info_fails` what GitHub is asked
afterwards, `oidc_callback` the account and its session. Nothing between has a time limit, and a
handler may be dropped at each wait (`HangUp`). External: a provider redeems a code once and for
the flow it was made for; in the model a person consents to a flow once.

**OneShotTicket** is the abstract specification of such a login: opened, claimed once and only
within a window, worth at most one session, never opened again.

**Dashboards** models `src/dashboard_custom/mod.rs`. A change of the map (`Change`) needs the write
lock, which `MapIsFree` says nobody keeps it from; `Persist` takes the read guard that lives until
the write is over, copies the map and hands the file to the blocking pool, where `Truncate` and
`Write` are the two operations of `tokio::fs::write`. When a handler is dropped its guard goes and
its write stays. Operations fail; two writes that both truncated may leave a torn file; the
process ends anywhere (`Restart`) and loads what is there. A small write is taken to be
indivisible. `behind` is history: a change may be missing in the file.

**Readiness** models `AppState::readiness` under `readyz`: `FindStale`, one `Pong` per cluster,
`WriteBack`, `Report`. Time is kept as ages that stop counting once no comparison tells them
apart, so behaviours are not bounded. An entry stamped exactly `TTL` ticks ago may be found stale
or not. Steps that wait for a lock only take no time.

**AuditLog** models the table and its readers. `Stamp` is the middleware making a row, `log` the
insertion under the mutex: two writers may come in the other order. `build_where`, `sorted`,
`offset`, `entries` and `pages` are what `query` computes; `Half` is 2^63, so that a `u64` product
wraps at twice it and an `i64` ends below it (`TLC` counts with a smaller one). `sorted` is the one
order of the matching rows that `ORDER BY ts, id` allows;
a reader (`StartWalk`, `list_audit`) asks for page after page up to the last it was told of.
`kind` stands for the columns that are compared with a parameter.

## 3. Runs

Sizes are distinct states. All bounds are constants of the `.cfg` files: `MaxTime` (clock),
`MaxFailures` (failure count), and the cardinalities of the sets of identifiers.

| Run | Instance | Shows |
|---|---|---|
| `refresh_store` | 4 tokens, 2 users, TTL 1, clock 0..3 (16k) | the store's invariants and its refinement of SessionLineage |
| `session_handlers` | 3 tokens, 2 handlers, a directory user and a provider's user (430k) | refinement of the store; logout and replay are final; every session has an account |
| `session_roles` | 2 tokens, 1 handler, one account, also known to the directory, an administrator, leeway 1, clock 0..3 (673k) | a lost role is honoured for one JWT lifetime and the leeway at most, from the loss or from the end of a directory login that had read it |
| `vnc_console` | 2 connections, 2 VMs, cap 1, clock 0..1 (446k) | exact counter, tickets, refinement of SlotPool, lock-freedom |
| `cluster_client` | 2 calls, ticket life 4, margin 2, timeout 1, clock 1..6 (202k) | ticket validity, ticket presence, recovery of the breaker |
| `request_path` | 1 request, every route, 2 clusters and an unknown name, 2 items, a restricted and a free user (51k) | roles, cluster lists, true and complete reports, audit, termination |
| `passkeys` | 2 users, 2 handlers, 5 challenges, 2 keys (4.0k up to symmetry) | single use of challenges; logins by enrolled keys; keys are kept but for changes in the middle of an update |
| `oidc_login` | 2 flows, 2 people, 2 providers, 2 callbacks, TTL 1 minute of 2 ticks, clock 0..4 (472k up to symmetry) | sessions belong to their authorizers; refinement of OneShotTicket |
| `dashboards` | 2 users, 3 handlers, 1 layout (14k up to symmetry) | writes that are waited for agree; a settled file is the map |
| `readiness` | 2 clusters, 2 probes, TTL 3, ping timeout 2 (2.2M up to symmetry) | no verdict rests on pings older than TTL and two timeouts |
| `audit_log` | 3 rows of 2 kinds and 2 times, 1 reader, page sizes 1 and 2, `Half` 8, as in 4-bit words (265k up to symmetry) | pages cut the table exactly; a reader misses nothing it asked for, ranges of times apart |

Why these bounds are enough to be interesting. Four tokens allow two chains of two, or one
chain of three with a replay beside it; TTL 1 with three ticks has tokens before, at and past
their expiry. Three tokens and two handlers let a replay or a logout fall between the halves
of a refresh. Two connections with a cap of one make every outcome of `compare_exchange`
happen, the retry included. Six ticks are more than one life of a ticket, with logins that
overlap its renewal. Five challenges allow a registration and two logins of one user beside
another user. One request is enough for `request_path`: requests share nothing but the
accounts, which change at any time in the model, and each client's cache, which is
ClusterClient's; two items give a bulk request every mix of outcomes. Two flows and two people
let a callback mix whatever can be mixed; four ticks pass the moment (`TTL + 1` minutes) from which
a state is refused. Three handlers let a write without a handler meet two with one. `TTL` larger
than the ping timeout, as in the code (10 s and 3 s), lets an entry be written late, over a younger
one, and be used to the end of its life: the bound of `VerdictsAreRecent` is reached for 200 and for
503. Three rows make two pages of which the last is not full, with equal times in either order;
four rows pass as well. The theorems of section 5 remove the bounds for every safety property.

`CHECK_DEADLOCK FALSE` is set where identifiers are drawn once and run out (store, sessions,
passkeys); the other systems never stop.

`session_roles` runs with an administrator and the directory, without single sign-on. A login or a
refresh signs the role of the moment, except `ldap_login`: it clones the account, lets the lock go and
signs the clone's role later. So `StaleRoleIsBounded` counts from when an id lost a role or, if a
login under way carried the role then, from when that login signed it (`held`, written by
`RecordLosses`). The code sets no limit to how long such a login takes, so there is no bound from
the loss itself. What is bounded is what `require_auth` honours, the leeway of `jsonwebtoken`
(60 s, which `jwt.rs` leaves at its default) included. `session_handlers` runs without an
administrator: `delete_user` does not touch the refresh store, so a deleted account leaves its
tokens behind. `SessionsHaveAccounts` admits the administrator and assumes what is needed instead
(`AccountsStay`): accounts are not deleted, and nobody makes by hand an account of a directory
user's name with another id. Both are needed: in the second case `ldap_login`, which missed the
account before, drops the error of its `add_user` and opens a session for an id no account has.

### Disagreements between code and comments

One run checks a property that quotes a comment, and TLC finds it violated: `disabled_accounts`.
"Disabled accounts cannot log in" (`user.rs:42`), and `login_complete` does not read `enabled`.

Met while modelling and kept in the models as the code has them, without a run of their own: an
administrator who creates a directory user's name, with another id, between the lookup of
`ldap_login` and its `add_user(new_user).ok()`, makes the handler open a session for the account
it meant to add and did not (`api/auth.rs:766`); `active_count` leaves out a token in the second
of its expiry, which `verify` accepts (`refresh.rs:254`); `update_user` does not revoke tokens on
a password change (`api/auth.rs:961`, against `refresh.rs:159`); `add_user` accepts an id that is
taken (`user.rs:291`, against `user.rs:29`); a VNC ticket opens any number of connections until it
expires (`vnc.rs:164`, against `vnc.rs:8`); `select!` over `JoinHandle`s detaches the pipe it
drops (`vnc.rs:323`); nothing on the request path asks `allow_request` (`client.rs:231`, against
`circuit_breaker.rs:3`); a request without an answer is not reported to the breaker
(`client.rs:238`, against `client.rs:614`); a success between the two accesses of `record_failure`
leaves the breaker open with nothing counted (`circuit_breaker.rs:83`, against
`circuit_breaker.rs:3`); `collect_aggregated` drops the errors its callers have a field for
(`api/cluster.rs:44`); the audit layer wraps `require_auth`, so its rows have no user
(`audit/middleware.rs:62`, against `:58`), and a request whose peer hangs up has no row at all
(`:66`, against `:3`); bulk and HA-group routes name clusters but are not `cluster_scoped`
(`api/mod.rs:80`), and a deleted user's restrictions are gone while a JWT lives, which
`user.rs:261` documents: `RestrictedUsersStayInside` says which requests it speaks of; `refresh`
rotates the token of an OIDC user and then answers 500, because `get_by_id` does not know OIDC
users (`api/auth.rs:220`, against `:198`); the limiter's guard is dropped when the WebSocket
handler returns, before the session starts, so that `MAX_VNC_CONNECTIONS_PER_VM` does not bound
sessions (`vnc.rs:201`, against `:333`); a passkey that is registered during another's counter
update is overwritten, and when the counter updates of two logins of one user overlap, the second
finds no list and puts an empty one over the first: all the user's passkeys are gone
(`webauthn.rs:211` and `:227`, against `api/webauthn.rs:88`); `KeysAreKept` leaves out the users
this happened to (`overtaken`); the dashboard of a user without restrictions is empty, because
`clients_for_user` takes the empty list literally (`state.rs:179`, against `:169`).

In single sign-on: `num_minutes` truncates, so that a pending state of five minutes is good for just
under six (`oidc.rs:282`, against `:19`); a state nobody comes back for is never removed
(`oidc.rs:92`); the requests to the providers have no timeout (`oidc.rs:114`); GitHub's answer to
`GET /user` is used whatever its status, and an error document makes the account `github:null`
(`oidc.rs:464`, against `:45`), which is why `SessionIsTheAuthorizers` has a case for it. In the
audit log: `from_ts` and `to_ts` are compared with `=` (`store.rs:308`, against `:66` and
`api/audit.rs:29`, which document an inclusive minimum and maximum), so a walk over a range of times
misses nearly all of its rows, and `WalkMissesNothing` is stated for the queries that find what their
documentation says (`FindsWhatItSays`: no time, or the same one twice); a page
number whose offset fits no `i64` shows the first page (`store.rs:257`). `/readyz` may rest on a
ping of `READINESS_CACHE_TTL` and twice `PING_TIMEOUT_SECS` ago (`state.rs:234`, against
`api/health.rs:56`). A dashboard file torn by a crash or by two writes loads as no dashboards at all
(`dashboard_custom/mod.rs:49`).

## 4. Fairness

Three of the specifications assume some, weak and per actor, and only of steps the runtime takes
by itself:

- `VncSpec`: `WF(ConnStep(c))`, the code between two awaits of a connection, which tokio runs
  once it is ready, and the end of the `vnc_proxy` request, which its timeout forces. Nothing
  is assumed of the browser, of `connect_async` or of the pipes, which have no timeout.
  `AcquireIsLockFree` says no more than lock-freedom: one request may starve while others
  take and give back slots.
- `ClientSpec`: `WF(CallerStep(c))`, sending once the ticket is read and finishing the
  breaker's stores. Nothing is assumed of the cluster; `BreakerRecovers` has what it does as
  its premise (from some moment no answer is a refusal, and successes keep coming).

- `RequestSpec`: `WF(RequestStep(r))`, the code between two awaits, the user store's lock,
  and the end of a call, which its timeout forces (30 s in reqwest, shorter ones around `post`
  and `list_vms`). `RequestsEnd` assumes nothing of the clusters.

OidcLogin, Dashboards, Readiness and AuditLog are about safety only. Callbacks wait for providers
without a timeout, so nothing can be promised of them; a save ends when the disk lets it.

## 5. Proofs

Checked by TLAPS for every value of the constants that satisfies the modules' `ASSUME`s
(evaluated by TLC in every run). The assumptions say that sentinels differ from data, that
lifetimes are naturals, that connections are finitely many, and for the client that
`HttpTimeout < Margin` and `Margin + HttpTimeout <= TicketLife` (30 s, 300 s and two hours in
the code), for the audit log that its rows times the largest page stay below `Half` (2^63).
The bounds `MaxTime` and `MaxFailures` are arbitrary, so they bound nothing.

- **Sessions_proofs**, the store. `StoreIndInv` adds to linearity (`OneLivePerFamily`) and ownership
  (`FamilyKeepsItsUser`) that revoked tokens are stored and that an unused identifier heads
  its own, empty chain. Without the last part a freshly drawn token could enter a chain that
  already has a live one. From it: type correctness, `RotationIsLinear`,
  `SessionsStayWithTheirUser`, the action properties `RevocationIsFinal` and
  `IsolationOfUsers`, and `StoreImplementsLineage`, one lemma per kind of step.
- **Sessions_proofs**, the handlers. `SessionsInv` is types, `StoreIndInv`, what handlers in flight
  remember (`ReqOK`: a token about to be revoked is stored, ids are ids) and why dead tokens
  stay dead (`HistoryOK`: flag or age). `HandlersAreStoreSteps` shows each handler step to be
  a store step or a stutter, which gives `HandlersImplementStore` and carries the store's
  theorems over to the concurrent system (`RotationIsLinearForHandlers`); `LoggedOutForGood` and
  `ReplayIsFinal` follow from the invariant. `LostRolesEnd` needs `RoleInv`: nothing signed
  for a role expires later than one lifetime after that role was last held (`LastHeld`), and a loss
  is never in the future. `SignedRolesAreBounded` reduces each step to two questions: does anybody
  lose a role without `held` noticing, and is a role signed that its id does not have and no login
  carries. `SessionsHaveAccounts` needs `LoginsOK`: a handler about to add an account knows the id that
  its name will have, whoever adds it first, and one about to open a session has an account.
- **VncConsole_proofs.** `VncInv` links the counter with the cardinality of the set of guards
  and adds that a request at its `compare_exchange` saw a counter below the cap; without it
  the step to `guarded` could exceed the cap. From it: `CounterIsExact`, `CapIsRespected`,
  `LimitersAreShared`. `ConsoleImplementsSlotPool` says that `try_acquire` is linearizable: a request
  takes effect at the `compare_exchange` that succeeds, when the counter it saw is the number of
  guards, or at the load that finds the cap reached; everything else leaves the pool alone.
  `ConsolesHaveTickets` needs `TicketInv`, which adds where pipes run (`PipesOK`): a handler that
  gives up leaves none.
- **Clusters_proofs**, the client. The point of `ClientInv` is that a call relies on the cached
  ticket, which others may replace: whatever is stored has `Margin` left, and a request is
  never older than `HttpTimeout`. From it: `RequestsCarryValidTickets`, `TicketIsThere`.
- **Clusters_proofs**, readiness. `ReadinessInv` says how old a ping may be, by where its answer is: in an
  entry (`EntriesOK`: age of the entry and one timeout), with a probe that still pings (`PingingOK`)
  or that is about to report (`ReportingOK`). The sum is the bound of `RecentVerdicts`; two probes
  may overlap at any point, so that an entry can be overwritten by an older answer.
- **AuditLog_proofs.** `sorted` exists and is unique because the number of matching rows before a row,
  its rank, is a bijection; so page `n` holds the rows of rank `(n-1) * per_page` to `n * per_page - 1`
  (`PagesCutTheTable`), as long as no offset in use reaches `Half`. `AuditInv` says of a reader that
  a row it is still owed has a rank no lower than the page it asks for next, and that this page is
  one it will ask for. Rows that come in between only raise ranks, and page counts with them, so
  nothing slips behind the reader (`WalksMissNothing`); it may see a row twice.
- **Webauthn_proofs.** `WebauthnInv` is types, `ChallengeInv` (an answered challenge is
  pending for nobody), `KeyInv` (every copy of a user's keys, wherever it is, holds keys that user
  enrolled) and `KeptInv` (of a user who was not overtaken, either the map or the copy of the one
  update that runs is all that was enrolled). From it: `ChallengesAreSingleUse`,
  `LoginsAreByEnrolledKeys`, `KeysStay`, and `KeysNeverMove`, that no key changes hands.
- **RequestPath_proofs.** First the tables: `TablesAreOK`, handler by handler, and `GettersGet`
  give `RoutesAreOK` (a route that sends a POST demands an operator and is no GET; a scoped
  route makes one call). Then `RequestInv`, in four parts per request: what its calls did
  (`CallsOK`: what was carried out is a POST whose role check the token passed, and a call
  still out has not been carried out), what the answer says (`ReportOK`), its audit row
  (`AuditOK`) and whose clusters it names (`InsideOK`: past the cluster check, the path names a
  cluster of the configured list, and the list of a standing account never changes). Steps of
  other requests cannot disturb any of it (`OthersStayOK`). From it: every invariant of the
  run. A route added to the tables without a role check breaks `TablesAreOK`.
- **Dashboards_proofs.** `DashboardsInv` adds to types and `GuardedWritesAgree` which handlers have
  a write (`JobsOK`) and, for as long as nothing was given up (`CleanOK`), that every write has a
  handler and that a file under a write that has truncated it is empty or already the map. The last
  part is what keeps two attached writers from tearing the file: they carry the same text. From it:
  `OverlappingSavesAgree`, `SettledSavesAreDurable`.
- **OidcLogin_proofs.** `OidcInv` says that a callback owns the flow it took (`WorkOK`: the pending
  state is gone, no session has come of it, past the exchange the code is the flow's; `OneWorker`:
  nobody else has it), that stored and unstarted flows have no sessions, and that sessions are
  rightful. `MinutesAreTruncated` is the arithmetic of the lifetime. The refinement has one lemma
  per kind of step (`StartOpens`, `CallbackClaims`, `GivenUpIsVoid`, `AccountGrants`,
  `RestartVoids`), which gives `OidcImplementsOneShot`.

Only model-checked are the liveness properties, `AcquireIsLockFree`, `BreakerRecovers` and
`RequestsEnd`: they rest on fairness, which the prover does not reason about. Every other property
of a passing run is stated by a theorem, one of them, `SessionsHaveAccounts`, under the premises
of section 3.

## 6. What is not modelled

Cryptography (hashes, HMAC, JWT signatures, argon2, the WebAuthn protocol) is external and
assumed sound. The clock does not go backwards. Logging, metrics, JSON, HTML and the frames of
a console are left out, and so are the parameters and answers of the REST handlers. Cluster
names in paths are plain (the middleware reads the raw path, handlers the decoded one) and
configured names are distinct, which nothing validates. Configuration and start-up run
before the first request and appear as
constants and initial states.

Code that nothing reaches is left out. `totp_enabled` is never set: `two_factor_verify` answers
"2fa_enabled" and changes nothing (against `api/auth.rs:446`), so `login` issues no pre-auth token
and `two_factor_complete` refuses everything; its backup codes would not be consumed either
(`api/auth.rs:335`, against `totp.rs:15`). `dispatch_event`, `dispatch_vm_action` and
`dispatch_audit_entry` of the webhooks and plugins have no caller. `RetryPolicy::execute`
(`src/proxmox/retry.rs`) has none. The rate limiter's buckets are the governor crate's, and what it
does is to refuse requests, which every module allows for by requests that do not come.

## 7. Plan

Done, in this order: RefreshStore with SessionLineage, Sessions, VncConsole, ClusterClient,
Webauthn, the REST surface (RestRoutes, RequestPath), then Dashboards, OidcLogin with OneShotTicket,
Readiness, AuditLog and SlotPool. Every safety property and every refinement is proved. What is left
of the repository keeps no state of its own, is external or is not reached (section 6).

Worth doing next:

- a bound for roles from the moment of the loss, with a directory too: it needs a limit on how long
  `ldap_login` may be out, which the code does not set;
- an abstract specification of the passkey store (a set of keys per user, updated atomically), which
  the code implements only as long as nothing changes a list in the middle of a counter update
  (`webauthn.rs:211`), as `KeysAreKept` does for the keys alone;
- the readiness cache against an abstract one that keeps, per cluster, its latest pings.

----------------------------- MODULE OidcLogin -----------------------------
(***************************************************************************)
(* Single sign-on of moxui: OidcService's store of pending states          *)
(* (src/auth/oidc.rs) and the two handlers that use it (oidc_login and     *)
(* oidc_callback of src/api/auth.rs).                                      *)
(*                                                                         *)
(* A flow is one call of start_login.  It stands for the random values     *)
(* drawn there: the state key, the CSRF token, the PKCE verifier and the   *)
(* nonce, which nobody else can guess or draw again.  A code is made by    *)
(* the provider when someone consents at a flow's URL, and remembers the   *)
(* flow (its PKCE challenge, and the nonce in the ID token) and the person. *)
(* Waiting for a provider has no time limit in the code: a request may     *)
(* stay in an exchange for as long as it likes.                            *)
(***************************************************************************)
EXTENDS Integers, Sequences

CONSTANTS
  Flow,           \* calls of start_login that succeed
  Provider,       \* "google" and "github"
  CoreProvider,   \* those with an ID token; the others are asked for the user
  Subject,        \* people at the providers
  NullId,         \* "null", the text of an id that an answer does not have
  Request,        \* callback handlers in flight
  NoProvider,     \* the flow has not been started
  NoCode,         \* the handler has none
  TTL,            \* PENDING_STATE_TTL_MINUTES
  TicksPerMinute,
  MaxTime         \* bound of the model: the clock stops here

Code == [flow : Flow, sub : Subject]
Account ==                                       \* "provider:sub"
  [provider : Provider, sub : Subject \cup {NullId}]

ASSUME OidcAssumption ==
  /\ CoreProvider \subseteq Provider
  /\ NoProvider \notin Provider
  /\ NoCode \notin Code /\ NullId \notin Subject
  /\ TTL \in Nat /\ TicksPerMinute \in Nat \ {0} /\ MaxTime \in Nat

VARIABLES
  now,          \* Utc::now(), in ticks
  state_store,  \* the flows whose pending state is stored
  provider,     \* provider[f]: PendingOidcState.provider_name
  created_at,   \* created_at[f]: PendingOidcState.created_at
  codes,        \* codes the provider has handed out and not yet redeemed
  consents,     \* history: every code ever handed out
  pc,           \* pc[r]: where the callback is
  flowOf,       \* flowOf[r]: the pending state it took
  code,         \* code[r]: the code it was called with
  oidc_users,   \* keys of AppState.oidc_users
  sessions      \* history, sessions[f]: the accounts f has logged in

storeVars == <<state_store, provider, created_at>>
externalVars == <<codes, consents>>
requestVars == <<pc, flowOf, code>>
oidcVars == <<now, storeVars, externalVars, requestVars, oidc_users, sessions>>

OidcTypeOK ==
  /\ now \in 0 .. MaxTime
  /\ state_store \in SUBSET Flow
  /\ provider \in [Flow -> Provider \cup {NoProvider}]
  /\ created_at \in [Flow -> 0 .. MaxTime]
  /\ codes \in SUBSET Code
  /\ consents \in SUBSET Code
  /\ pc \in [Request -> {"idle", "exchange", "userinfo", "account", "nameless"}]
  /\ flowOf \in [Request -> Flow]
  /\ code \in [Request -> Code \cup {NoCode}]
  /\ oidc_users \in SUBSET Account
  /\ sessions \in [Flow -> Seq(Account)]

OidcInit ==
  /\ now = 0
  /\ state_store = {}
  /\ provider = [f \in Flow |-> NoProvider]
  /\ created_at = [f \in Flow |-> 0]
  /\ codes = {}
  /\ consents = {}
  /\ pc = [r \in Request |-> "idle"]
  /\ flowOf \in [Request -> Flow]
  /\ code = [r \in Request |-> NoCode]
  /\ oidc_users = {}
  /\ sessions = [f \in Flow |-> <<>>]

\* The flows that oidc_login has answered with a URL and a state key.
Started == {f \in Flow : provider[f] # NoProvider}

-----------------------------------------------------------------------------
(* POST /api/v1/auth/oidc/login.                                           *)

\* Mutant: the time of expiry is stored as the time of creation.
start_login_expiry(f, p) ==
  /\ f \notin Started
  /\ state_store' = state_store \cup {f}
  /\ provider' = [provider EXCEPT ![f] = p]
  /\ created_at' = [created_at EXCEPT ![f] = now + TTL * TicksPerMinute]
  /\ UNCHANGED <<now, externalVars, requestVars, oidc_users, sessions>>

\* oidc_login, start_login: the pending state is stored once the URL is made.
\* A failed discovery or an unknown provider stores nothing.
start_login(f, p) ==
  /\ f \notin Started
  /\ state_store' = state_store \cup {f}
  /\ provider' = [provider EXCEPT ![f] = p]
  /\ created_at' = [created_at EXCEPT ![f] = now]
  /\ UNCHANGED <<now, externalVars, requestVars, oidc_users, sessions>>

\* Someone consents at a flow's URL, which may be passed on and opened again
\* (in the model once by each person).
Consent(f, s) ==
  /\ f \in Started
  /\ [flow |-> f, sub |-> s] \notin consents
  /\ codes' = codes \cup {[flow |-> f, sub |-> s]}
  /\ consents' = consents \cup {[flow |-> f, sub |-> s]}
  /\ UNCHANGED <<now, storeVars, requestVars, oidc_users, sessions>>

-----------------------------------------------------------------------------
(* POST /api/v1/auth/oidc/callback.                                        *)

\* chrono's num_minutes truncates.
num_minutes(elapsed) == elapsed \div TicksPerMinute

Expired(f) == num_minutes(now - created_at[f]) > TTL

Idle(r) ==
  /\ pc' = [pc EXCEPT ![r] = "idle"]
  /\ UNCHANGED <<flowOf, code>>

\* Mutant: the pending state is read where it should be removed.
handle_callback_keeps(r, f, c, g) ==
  /\ pc[r] = "idle"
  /\ f \in state_store
  /\ UNCHANGED <<now, storeVars, externalVars, oidc_users, sessions>>
  /\ ~Expired(f) /\ g = f
  /\ pc' = [pc EXCEPT ![r] = "exchange"]
  /\ flowOf' = [flowOf EXCEPT ![r] = f]
  /\ code' = [code EXCEPT ![r] = c]

\* handle_callback, called with the state key of f, a code c and the CSRF
\* token of g: the pending state is removed whatever comes of it.  A key that
\* is not stored is refused and changes nothing.
handle_callback(r, f, c, g) ==
  /\ pc[r] = "idle"
  /\ f \in state_store
  /\ state_store' = state_store \ {f}
  /\ UNCHANGED <<now, provider, created_at, externalVars, oidc_users, sessions>>
  /\ IF Expired(f) \/ g # f
       THEN Idle(r)
       ELSE /\ pc' = [pc EXCEPT ![r] = "exchange"]
            /\ flowOf' = [flowOf EXCEPT ![r] = f]
            /\ code' = [code EXCEPT ![r] = c]

\* Mutant: the exchange is asked for without the PKCE verifier.
RedeemableByAnyone(f, c) == c \in codes /\ provider[c.flow] = provider[f]

\* The provider redeems a code once, for the flow that it was made for: the
\* verifier must fit the code's challenge, and the nonce the ID token's.
Redeemable(f, c) == c \in codes /\ c.flow = f

\* exchange_code: handle_google_callback goes on to the account, and
\* handle_github_callback asks for the user first.
exchange_code(r) ==
  /\ pc[r] = "exchange"
  /\ Redeemable(flowOf[r], code[r])
  /\ codes' = codes \ {code[r]}
  /\ pc' = [pc EXCEPT ![r] =
       IF provider[flowOf[r]] \in CoreProvider THEN "account" ELSE "userinfo"]
  /\ UNCHANGED <<now, storeVars, consents, flowOf, code, oidc_users, sessions>>

\* Discovery, the exchange or the check of its answer fails, before the code
\* is redeemed or after.
exchange_fails(r) ==
  /\ pc[r] = "exchange"
  /\ codes' \in {codes, codes \ {code[r]}}
  /\ Idle(r)
  /\ UNCHANGED <<now, storeVars, consents, oidc_users, sessions>>

\* GET /user and /user/emails.
user_info(r) ==
  /\ pc[r] = "userinfo"
  /\ pc' = [pc EXCEPT ![r] = "account"]
  /\ UNCHANGED <<now, storeVars, externalVars, flowOf, code, oidc_users, sessions>>

\* An error document (a rate limit, say) is JSON too, and the status is not
\* looked at: the id of a user that it does not name is null.
user_info_error(r) ==
  /\ pc[r] = "userinfo"
  /\ pc' = [pc EXCEPT ![r] = "nameless"]
  /\ UNCHANGED <<now, storeVars, externalVars, flowOf, code, oidc_users, sessions>>

user_info_fails(r) ==
  /\ pc[r] = "userinfo"
  /\ Idle(r)
  /\ UNCHANGED <<now, storeVars, externalVars, oidc_users, sessions>>

oidc_key(r) ==
  [provider |-> provider[flowOf[r]],
   sub |-> IF pc[r] = "nameless" THEN NullId ELSE code[r].sub]

\* The account is looked up or created under the mutex, and its session is
\* opened without another wait; signing may fail once the account is there.
\* (What the session is worth afterwards is in Sessions.)
oidc_callback(r) ==
  /\ pc[r] \in {"account", "nameless"}
  /\ oidc_users' = oidc_users \cup {oidc_key(r)}
  /\ \/ sessions' = [sessions EXCEPT ![flowOf[r]] = Append(@, oidc_key(r))]
     \/ UNCHANGED sessions
  /\ Idle(r)
  /\ UNCHANGED <<now, storeVars, externalVars>>

\* The browser goes away and its handler is dropped where it waits.
HangUp(r) ==
  /\ pc[r] # "idle"
  /\ Idle(r)
  /\ UNCHANGED <<now, storeVars, externalVars, oidc_users, sessions>>

-----------------------------------------------------------------------------
(* The process and the clock.                                              *)

\* Pending states, accounts and handlers are in memory only.
Restart ==
  /\ state_store' = {}
  /\ oidc_users' = {}
  /\ pc' = [r \in Request |-> "idle"]
  /\ UNCHANGED <<now, provider, created_at, externalVars, flowOf, code, sessions>>

Tick ==
  /\ now < MaxTime
  /\ now' = now + 1
  /\ UNCHANGED <<storeVars, externalVars, requestVars, oidc_users, sessions>>

OidcNext ==
  \/ \E f \in Flow, p \in Provider : start_login(f, p)
  \/ \E f \in Flow, s \in Subject : Consent(f, s)
  \/ \E r \in Request, f \in Flow, c \in consents, g \in Started :
       handle_callback(r, f, c, g)
  \/ \E r \in Request : exchange_code(r)
  \/ \E r \in Request : exchange_fails(r)
  \/ \E r \in Request : user_info(r)
  \/ \E r \in Request : user_info_error(r)
  \/ \E r \in Request : user_info_fails(r)
  \/ \E r \in Request : oidc_callback(r)
  \/ \E r \in Request : HangUp(r)
  \/ Restart
  \/ Tick

OidcSpec == OidcInit /\ [][OidcNext]_oidcVars

-----------------------------------------------------------------------------
(* What makes it correct.                                                  *)

Working(f) == {r \in Request : pc[r] # "idle" /\ flowOf[r] = f}

Phase(f) ==
  IF f \notin Started THEN "fresh"
  ELSE IF sessions[f] # <<>> THEN "used"
  ELSE IF Working(f) # {} THEN "claimed"
  ELSE IF f \in state_store THEN "open"
  ELSE "void"

phases == [f \in Flow |-> Phase(f)]

OneShot == INSTANCE OneShotTicket WITH
  Ticket <- Flow,
  Holder <- Account,
  Window <- (TTL + 1) * TicksPerMinute,
  clock <- now,
  opened <- created_at,
  phase <- phases,
  granted <- sessions

\* A started login yields at most one session, however many callbacks carry its
\* state key, race each other, fail half-way or are given up; and it is taken up
\* less than TTL + 1 minutes after it was started, num_minutes being what it is.
ImplementsOneShot == OneShot!Spec

\* The account is that of someone who consented to the flow, at the provider it
\* was started with.  "github:null" is the one account that is nobody's: then
\* someone consented, and the provider is one that is asked for the user.
Rightful(f, a) ==
  /\ a.provider = provider[f]
  /\ IF a.sub = NullId
       THEN /\ a.provider \notin CoreProvider
            /\ \E s \in Subject : [flow |-> f, sub |-> s] \in consents
       ELSE [flow |-> f, sub |-> a.sub] \in consents

\* Whoever gets a session consented to this very flow: callbacks may mix state
\* keys, codes and CSRF tokens of different logins, and a code is carried over
\* two or three waits.
SessionIsTheAuthorizers ==
  \A f \in Flow : \A i \in 1 .. Len(sessions[f]) : Rightful(f, sessions[f][i])
=============================================================================

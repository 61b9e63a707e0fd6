------------------------------ MODULE Webauthn ------------------------------
(***************************************************************************)
(* The passkey ceremonies of moxui (src/auth/webauthn.rs, called by        *)
(* src/api/webauthn.rs).  WebauthnState keeps three maps, each behind a    *)
(* lock of its own that is held for one statement: every statement that    *)
(* takes a lock is an action, and req holds the locals in between.         *)
(*                                                                         *)
(* The cryptography is webauthn-rs's (external): it accepts an answer only *)
(* if it was made for the challenge of the pending state, by one of the    *)
(* keys that state lists.  Challenges and new keys are drawn at random,    *)
(* never twice (NewKey).                                                   *)
(***************************************************************************)

CONSTANTS
  User,       \* user ids
  Request,    \* handlers in flight at the same time
  Challenge,  \* challenges that may be drawn
  Passkey,    \* credentials that may be created
  None

ASSUME WebauthnAssumption ==
  None \notin Challenge \cup Passkey \cup User

VARIABLES
  credentials, \* the keys of each user; no entry and an empty one are {}
  reg_state,   \* the challenge of each user's pending registration, or None
  auth_state,  \* each user's pending authentication: challenge and keys
  drawn,       \* challenges drawn so far
  req,         \* the locals of each handler
  enrolled,    \* history: the keys each user's registrations completed with
  overtaken,   \* history: users whose keys changed in the middle of an update
  logins       \* history: completed assertions

webauthnVars ==
  <<credentials, reg_state, auth_state, drawn, req, enrolled, overtaken, logins>>

\* A pending authentication; challenge None when there is none.
AuthState == [challenge : Challenge \cup {None}, keys : SUBSET Passkey]
NoAuth == [challenge |-> None, keys |-> {}]

\* "push": a registration was validated; "store": start_authentication has read
\* the keys; "remove", "insert": the two halves of the counter's update.
ReqState ==
  [pc : {"idle", "push", "store", "remove", "insert"},
   user : User \cup {None},
   key : Passkey \cup {None},
   creds : SUBSET Passkey]

Handler(pc, u, k, creds) == [pc |-> pc, user |-> u, key |-> k, creds |-> creds]
Idle == Handler("idle", None, None, {})

Login == [user : User, key : Passkey, challenge : Challenge, by : Request]

WebauthnTypeOK ==
  /\ credentials \in [User -> SUBSET Passkey]
  /\ reg_state \in [User -> Challenge \cup {None}]
  /\ auth_state \in [User -> AuthState]
  /\ drawn \in SUBSET Challenge
  /\ req \in [Request -> ReqState]
  /\ enrolled \in [User -> SUBSET Passkey]
  /\ overtaken \in SUBSET User
  /\ logins \in SUBSET Login

WebauthnInit ==
  /\ credentials = [u \in User |-> {}]
  /\ reg_state = [u \in User |-> None]
  /\ auth_state = [u \in User |-> NoAuth]
  /\ drawn = {}
  /\ req = [r \in Request |-> Idle]
  /\ enrolled = [u \in User |-> {}]
  /\ overtaken = {}
  /\ logins = {}

Starts(r, state) ==
  /\ req[r].pc = "idle"
  /\ req' = [req EXCEPT ![r] = state]

Continues(r, from, state) ==
  /\ req[r].pc = from
  /\ req' = [req EXCEPT ![r] = state]

Draw(c) ==
  /\ c \notin drawn
  /\ drawn' = drawn \cup {c}

\* Authenticators make each key once (external: nothing in the code checks it).
NewKey(k) ==
  /\ \A u \in User : k \notin enrolled[u]
  /\ \A r \in Request : req[r].key # k

\* An update has u's keys out of the map.
Updating(u) == \E r \in Request : req[r].pc = "insert" /\ req[r].user = u

Overtakes(u) == overtaken' = IF Updating(u) THEN overtaken \cup {u} ELSE overtaken

-----------------------------------------------------------------------------
(* Registration.                                                           *)

\* A pending registration of the same user is overwritten.
start_registration(u, c) ==
  /\ Draw(c)
  /\ reg_state' = [reg_state EXCEPT ![u] = c]
  /\ UNCHANGED <<credentials, auth_state, req, enrolled, overtaken, logins>>

\* finish_registration takes the pending state out, whatever the answer is; an
\* answer to its challenge brings a new key.
FinishRegistration(r, u, c, k) ==
  /\ reg_state[u] # None
  /\ reg_state' = [reg_state EXCEPT ![u] = None]
  /\ \/ /\ c = reg_state[u]
        /\ NewKey(k)
        /\ Starts(r, Handler("push", u, k, {}))
     \/ /\ c # reg_state[u]
        /\ UNCHANGED req
  /\ UNCHANGED <<credentials, auth_state, drawn, enrolled, overtaken, logins>>

\* ... and pushes it on the user's list.
PushCredential(r) ==
  LET u == req[r].user IN
  /\ Continues(r, "push", Idle)
  /\ credentials' = [credentials EXCEPT ![u] = @ \cup {req[r].key}]
  /\ enrolled' = [enrolled EXCEPT ![u] = @ \cup {req[r].key}]
  /\ Overtakes(u)
  /\ UNCHANGED <<reg_state, auth_state, drawn, logins>>

-----------------------------------------------------------------------------
(* Authentication.                                                         *)

\* start_authentication copies the user's keys; it fails when there are none.
ReadCredentials(r, u) ==
  /\ credentials[u] # {}
  /\ Starts(r, Handler("store", u, None, credentials[u]))
  /\ UNCHANGED <<credentials, reg_state, auth_state, drawn, enrolled, overtaken,
                 logins>>

\* ... and stores the challenge made for them, over an earlier one.
StoreChallenge(r, c) ==
  /\ Continues(r, "store", Idle)
  /\ Draw(c)
  /\ auth_state' = [auth_state EXCEPT
                      ![req[r].user] = [challenge |-> c, keys |-> req[r].creds]]
  /\ UNCHANGED <<credentials, reg_state, enrolled, overtaken, logins>>

\* Mutants: the state is read but left in the map; a key, not an entry, is put
\* in its place.
LeaveAuthState(u) == UNCHANGED auth_state

TakeAuthStateBadly(u) == auth_state' = [auth_state EXCEPT ![u] = None]

\* The pending authentication that finish_authentication works with is out of
\* the map afterwards.
TakeAuthState(u) == auth_state' = [auth_state EXCEPT ![u] = NoAuth]

\* Mutant: the key is not looked up among those of the pending state.
FinishAuthenticationAnyKey(r, u, c, k) ==
  /\ auth_state[u] # NoAuth
  /\ req[r].pc = "idle"
  /\ TakeAuthState(u)
  /\ c = auth_state[u].challenge
  /\ logins' = logins \cup {[user |-> u, key |-> k, challenge |-> c, by |-> r]}
  /\ \/ UNCHANGED req
     \/ Starts(r, Handler("remove", u, k, {}))
  /\ UNCHANGED <<credentials, reg_state, drawn, enrolled, overtaken>>

\* finish_authentication with an assertion by key k for challenge c.  When the
\* authenticator counts its uses, the stored key is updated before the answer.
FinishAuthentication(r, u, c, k) ==
  /\ auth_state[u] # NoAuth
  /\ req[r].pc = "idle"
  /\ TakeAuthState(u)
  /\ \/ /\ c = auth_state[u].challenge /\ k \in auth_state[u].keys
        /\ logins' = logins \cup
             {[user |-> u, key |-> k, challenge |-> c, by |-> r]}
        /\ \/ UNCHANGED req
           \/ Starts(r, Handler("remove", u, k, {}))
     \/ /\ c # auth_state[u].challenge \/ k \notin auth_state[u].keys
        /\ UNCHANGED <<req, logins>>
  /\ UNCHANGED <<credentials, reg_state, drawn, enrolled, overtaken>>

\* The update: the user's list is removed from the map ...
RemoveCredentials(r) ==
  LET u == req[r].user IN
  /\ Continues(r, "remove", Handler("insert", u, req[r].key, credentials[u]))
  /\ credentials' = [credentials EXCEPT ![u] = {}]
  /\ Overtakes(u)
  /\ UNCHANGED <<reg_state, auth_state, drawn, enrolled, logins>>

\* Mutant: of the list only the key that was updated goes back.
InsertUpdatedOnly(r) ==
  /\ Continues(r, "insert", Idle)
  /\ credentials' = [credentials EXCEPT
                       ![req[r].user] = req[r].creds \cap {req[r].key}]
  /\ UNCHANGED <<reg_state, auth_state, drawn, enrolled, overtaken, logins>>

\* ... and inserted again, over whatever is there by now.
InsertCredentials(r) ==
  /\ Continues(r, "insert", Idle)
  /\ credentials' = [credentials EXCEPT ![req[r].user] = req[r].creds]
  /\ UNCHANGED <<reg_state, auth_state, drawn, enrolled, overtaken, logins>>

-----------------------------------------------------------------------------

WebauthnNext ==
  \/ \E u \in User, c \in Challenge : start_registration(u, c)
  \/ \E r \in Request, u \in User, c \in drawn, k \in Passkey :
       FinishRegistration(r, u, c, k)
  \/ \E r \in Request : PushCredential(r)
  \/ \E r \in Request, u \in User : ReadCredentials(r, u)
  \/ \E r \in Request, c \in Challenge : StoreChallenge(r, c)
  \/ \E r \in Request, u \in User, c \in drawn, k \in Passkey :
       FinishAuthentication(r, u, c, k)
  \/ \E r \in Request : RemoveCredentials(r)
  \/ \E r \in Request : InsertCredentials(r)

WebauthnSpec == WebauthnInit /\ [][WebauthnNext]_webauthnVars

-----------------------------------------------------------------------------
(* What makes it correct.                                                  *)

\* An assertion opens one session: no interleaving of two requests lets one
\* challenge be answered twice.
OneLoginPerChallenge ==
  \A a, b \in logins : a.challenge = b.challenge => a = b

\* Whoever logs in as u holds a key that a registration of u completed with,
\* although lists of keys are copied, taken out and put back around it.
LoginsUseEnrolledKeys == \A a \in logins : a.key \in enrolled[a.user]

\* A key that was enrolled stays: it is in its user's list, or in the hands of
\* the one update that will put it back, whatever ceremonies run.  Users are left
\* out whose list changed in the middle of an update, by a registration or by a
\* second update: the copy that is put back overwrites what came in between, or
\* is empty.
KeysAreKept ==
  \A u \in User \ overtaken : \A k \in enrolled[u] :
    \/ k \in credentials[u]
    \/ \E r \in Request :
         req[r].pc = "insert" /\ req[r].user = u /\ k \in req[r].creds

\* Every key listed for a user was enrolled by that user: no copy of a list is
\* put back under another user, and no two users share a key, given NewKey.
KeysStayWithTheirUser ==
  /\ \A u \in User : credentials[u] \subseteq enrolled[u]
  /\ \A u, v \in User : u # v => enrolled[u] \cap enrolled[v] = {}
=============================================================================

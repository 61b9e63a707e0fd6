-------------------------- MODULE Webauthn_proofs ---------------------------
(***************************************************************************)
(* Theorems about the passkey ceremonies, for any users, keys, challenges  *)
(* and number of handlers in flight.                                       *)
(***************************************************************************)
EXTENDS Webauthn, TLAPS

\* A challenge is pending for one user at most, and once it has been answered
\* it is pending for nobody.
ChallengeInv ==
  /\ \A u \in User : auth_state[u].challenge # None =>
        auth_state[u].challenge \in drawn
  /\ \A u, v \in User :
        auth_state[u].challenge # None
          /\ auth_state[u].challenge = auth_state[v].challenge => u = v
  /\ \A a \in logins : a.challenge \in drawn
  /\ \A a \in logins, u \in User : auth_state[u].challenge # a.challenge
  /\ OneLoginPerChallenge

\* Wherever a copy of a user's keys is (the map, a pending authentication, a
\* handler), the user enrolled them; a key about to be pushed is nobody's yet.
KeyInv ==
  /\ KeysStayWithTheirUser
  /\ LoginsUseEnrolledKeys
  /\ \A u \in User : auth_state[u].keys \subseteq enrolled[u]
  /\ \A r \in Request :
       /\ req[r].pc # "idle" => req[r].user \in User
       /\ req[r].pc \in {"store", "insert"} =>
            req[r].creds \subseteq enrolled[req[r].user]
       /\ req[r].pc = "push" =>
            /\ req[r].key \in Passkey
            /\ \A v \in User : req[r].key \notin enrolled[v]
            /\ \A s \in Request \ {r} :
                 req[s].pc = "push" => req[s].key # req[r].key

\* The copy that an update holds is all that its user enrolled, no other update
\* holds one, and the map has nothing; without an update the map has it all.
Kept(u) ==
  /\ ~Updating(u) => credentials[u] = enrolled[u]
  /\ \A r \in Request : req[r].pc = "insert" /\ req[r].user = u =>
       /\ req[r].creds = enrolled[u]
       /\ \A s \in Request :
            req[s].pc = "insert" /\ req[s].user = u => s = r

KeptInv == \A u \in User \ overtaken : Kept(u)

WebauthnInv == WebauthnTypeOK /\ ChallengeInv /\ KeyInv /\ KeptInv

\* Nothing is pending, enrolled or logged in at startup.
LEMMA WebauthnInitInv == WebauthnInit => WebauthnInv
BY WebauthnAssumption
   DEF WebauthnInit, WebauthnInv, WebauthnTypeOK, ChallengeInv, KeyInv, KeptInv,
       Kept, Updating, AuthState, NoAuth, ReqState, Idle, Handler,
       OneLoginPerChallenge, KeysStayWithTheirUser, LoginsUseEnrolledKeys

\* Every step keeps the types.
LEMMA WebauthnNextType ==
  ASSUME WebauthnInv, [WebauthnNext]_webauthnVars PROVE WebauthnTypeOK'
<1> USE WebauthnAssumption
    DEF WebauthnInv, WebauthnTypeOK, AuthState, NoAuth, ReqState, Idle, Handler, Login,
        Starts, Continues, Draw, TakeAuthState
<1>1. CASE UNCHANGED webauthnVars
  BY <1>1 DEF webauthnVars
<1>2. ASSUME NEW u \in User, NEW c \in Challenge, start_registration(u, c)
      PROVE  WebauthnTypeOK'
  BY <1>2 DEF start_registration
<1>3. ASSUME NEW r \in Request, NEW u \in User, NEW c \in drawn, NEW k \in Passkey,
             FinishRegistration(r, u, c, k)
      PROVE  WebauthnTypeOK'
  <2>1. Handler("push", u, k, {}) \in ReqState
    OBVIOUS
  <2>2. req' \in [Request -> ReqState]
    BY <1>3, <2>1 DEF FinishRegistration
  <2> QED
    BY <1>3, <2>2 DEF FinishRegistration
<1>4. ASSUME NEW r \in Request, PushCredential(r) PROVE WebauthnTypeOK'
  <2>1. req[r].user \in User /\ req[r].key \in Passkey
    BY <1>4 DEF PushCredential, KeyInv
  <2>2. Idle \in ReqState
    OBVIOUS
  <2>3. req' \in [Request -> ReqState]
    BY <1>4, <2>2 DEF PushCredential
  <2>4. /\ credentials' \in [User -> SUBSET Passkey]
        /\ enrolled' \in [User -> SUBSET Passkey]
    BY <1>4, <2>1 DEF PushCredential
  <2>5. overtaken' \in SUBSET User
    BY <1>4, <2>1 DEF PushCredential, Overtakes
  <2> QED
    BY <1>4, <2>3, <2>4, <2>5 DEF PushCredential
<1>5. ASSUME NEW r \in Request, NEW u \in User, ReadCredentials(r, u)
      PROVE  WebauthnTypeOK'
  BY <1>5 DEF ReadCredentials
<1>6. ASSUME NEW r \in Request, NEW c \in Challenge, StoreChallenge(r, c)
      PROVE  WebauthnTypeOK'
  BY <1>6 DEF StoreChallenge
<1>7. ASSUME NEW r \in Request, NEW u \in User, NEW c \in drawn, NEW k \in Passkey,
             FinishAuthentication(r, u, c, k)
      PROVE  WebauthnTypeOK'
  <2>1. Handler("remove", u, k, {}) \in ReqState
    OBVIOUS
  <2>2. req' \in [Request -> ReqState]
    BY <1>7, <2>1 DEF FinishAuthentication
  <2>3. logins' \in SUBSET Login
    BY <1>7 DEF FinishAuthentication
  <2>4. auth_state' \in [User -> AuthState]
    BY <1>7 DEF FinishAuthentication
  <2> QED
    BY <1>7, <2>2, <2>3, <2>4 DEF FinishAuthentication
<1>8. ASSUME NEW r \in Request, RemoveCredentials(r) PROVE WebauthnTypeOK'
  <2> DEFINE taken == Handler("insert", req[r].user, req[r].key, credentials[req[r].user])
  <2>1. req[r].user \in User
    BY <1>8 DEF RemoveCredentials, KeyInv
  <2>2. taken \in ReqState
    BY <2>1
  <2>3. req' \in [Request -> ReqState]
    <3>1. req' = [req EXCEPT ![r] = taken]
      BY <1>8 DEF RemoveCredentials
    <3> HIDE DEF taken
    <3> QED
      BY <2>2, <3>1
  <2>4. credentials' \in [User -> SUBSET Passkey]
    BY <1>8, <2>1 DEF RemoveCredentials
  <2>5. overtaken' \in SUBSET User
    BY <1>8, <2>1 DEF RemoveCredentials, Overtakes
  <2> QED
    BY <1>8, <2>3, <2>4, <2>5 DEF RemoveCredentials
<1>9. ASSUME NEW r \in Request, InsertCredentials(r) PROVE WebauthnTypeOK'
  <2>1. req[r].user \in User /\ req[r].creds \in SUBSET Passkey
    BY <1>9 DEF InsertCredentials, KeyInv
  <2>2. Idle \in ReqState
    OBVIOUS
  <2>3. req' \in [Request -> ReqState]
    BY <1>9, <2>2 DEF InsertCredentials
  <2>4. credentials' \in [User -> SUBSET Passkey]
    BY <1>9, <2>1 DEF InsertCredentials
  <2> QED
    BY <1>9, <2>3, <2>4 DEF InsertCredentials
<1> HIDE WebauthnAssumption DEF WebauthnInv, WebauthnTypeOK
<1> QED
  BY <1>1, <1>2, <1>3, <1>4, <1>5, <1>6, <1>7, <1>8, <1>9 DEF WebauthnNext

\* Every step keeps challenges single-use.  StoreChallenge makes a fresh one
\* pending, FinishAuthentication takes one out as it is answered.
LEMMA WebauthnNextChallenge ==
  ASSUME WebauthnInv, [WebauthnNext]_webauthnVars PROVE ChallengeInv'
<1> USE WebauthnAssumption
    DEF WebauthnInv, WebauthnTypeOK, AuthState, NoAuth, ChallengeInv,
        OneLoginPerChallenge, Draw
<1>1. ASSUME UNCHANGED <<auth_state, logins>>, drawn \subseteq drawn'
      PROVE  ChallengeInv'
  BY <1>1
<1>2. ASSUME NEW r \in Request, NEW c \in Challenge, StoreChallenge(r, c)
      PROVE  ChallengeInv'
  BY <1>2 DEF StoreChallenge, Continues
<1>3. ASSUME NEW r \in Request, NEW u \in User, NEW c \in drawn, NEW k \in Passkey,
             FinishAuthentication(r, u, c, k)
      PROVE  ChallengeInv'
  <2>1. auth_state' = [auth_state EXCEPT ![u] = NoAuth] /\ drawn' = drawn
    BY <1>3 DEF FinishAuthentication, TakeAuthState
  <2>2. CASE logins' = logins
    BY <2>1, <2>2 DEF Login
  <2>3. CASE /\ c = auth_state[u].challenge
             /\ logins' = logins \cup
                  {[user |-> u, key |-> k, challenge |-> c, by |-> r]}
    BY <2>1, <2>3 DEF Login
  <2> QED
    BY <1>3, <2>2, <2>3 DEF FinishAuthentication
<1>4. ASSUME \/ UNCHANGED webauthnVars
             \/ \E u \in User, c \in Challenge : start_registration(u, c)
             \/ \E r \in Request, u \in User, c \in drawn, k \in Passkey :
                  FinishRegistration(r, u, c, k)
             \/ \E r \in Request : PushCredential(r)
             \/ \E r \in Request, u \in User : ReadCredentials(r, u)
             \/ \E r \in Request : RemoveCredentials(r)
             \/ \E r \in Request : InsertCredentials(r)
      PROVE  ChallengeInv'
  <2>1. UNCHANGED <<auth_state, logins>> /\ drawn \subseteq drawn'
    BY <1>4 DEF webauthnVars, start_registration, FinishRegistration,
         PushCredential, ReadCredentials, RemoveCredentials, InsertCredentials
  <2> QED
    BY <1>1, <2>1
<1> HIDE DEF WebauthnInv, ChallengeInv
<1> QED
  BY <1>2, <1>3, <1>4 DEF WebauthnNext

\* What KeyInv says of one handler's locals.
LocalKeys(r) ==
  /\ req[r].pc # "idle" => req[r].user \in User
  /\ req[r].pc \in {"store", "insert"} =>
       req[r].creds \subseteq enrolled[req[r].user]
  /\ req[r].pc = "push" =>
       /\ req[r].key \in Passkey
       /\ \A v \in User : req[r].key \notin enrolled[v]
       /\ \A s \in Request \ {r} :
            req[s].pc = "push" => req[s].key # req[r].key

\* Every step keeps the keys with the user who enrolled them.
LEMMA WebauthnNextKey ==
  ASSUME WebauthnInv, [WebauthnNext]_webauthnVars PROVE KeyInv'
<1> USE DEF WebauthnInv, WebauthnTypeOK, KeyInv, KeysStayWithTheirUser,
            LoginsUseEnrolledKeys
<1>1. CASE UNCHANGED webauthnVars
  BY <1>1 DEF webauthnVars
<1>2. ASSUME NEW u \in User, NEW c \in Challenge, start_registration(u, c)
      PROVE  KeyInv'
  BY <1>2 DEF start_registration
<1>3. ASSUME NEW r \in Request, NEW u \in User, NEW c \in drawn, NEW k \in Passkey,
             FinishRegistration(r, u, c, k)
      PROVE  KeyInv'
  <2>1. UNCHANGED <<credentials, auth_state, enrolled, logins>>
    BY <1>3 DEF FinishRegistration
  <2>2. ASSUME NEW s \in Request PROVE LocalKeys(s)'
    <3>1. CASE UNCHANGED req
      BY <2>1, <3>1 DEF LocalKeys
    <3>2. CASE /\ \A v \in User : k \notin enrolled[v]
               /\ \A t \in Request : req[t].key # k
               /\ req' = [req EXCEPT ![r] = Handler("push", u, k, {})]
      <4>1. CASE s = r
        BY <2>1, <3>2, <4>1 DEF Handler, LocalKeys
      <4>2. CASE s # r
        BY <2>1, <3>2, <4>2 DEF Handler, LocalKeys
      <4> QED
        BY <4>1, <4>2
    <3> QED
      BY <1>3, <3>1, <3>2 DEF FinishRegistration, Starts, NewKey
  <2> QED
    BY <2>1, <2>2 DEF LocalKeys
<1>4. ASSUME NEW r \in Request, PushCredential(r) PROVE KeyInv'
  <2>1. /\ req[r].user \in User /\ req[r].key \in Passkey
        /\ \A v \in User : req[r].key \notin enrolled[v]
    BY <1>4 DEF PushCredential, Continues
  <2>2. /\ credentials' = [credentials EXCEPT ![req[r].user] = @ \cup {req[r].key}]
        /\ enrolled' = [enrolled EXCEPT ![req[r].user] = @ \cup {req[r].key}]
        /\ UNCHANGED <<auth_state, logins>>
    BY <1>4 DEF PushCredential
  <2>3. ASSUME NEW s \in Request PROVE LocalKeys(s)'
    BY <1>4, <2>1, <2>2 DEF PushCredential, Continues, Idle, Handler, LocalKeys, ReqState
  <2>4. \A u \in User : enrolled[u] \subseteq enrolled'[u]
    BY <2>1, <2>2
  <2>5. KeysStayWithTheirUser'
    BY <2>1, <2>2
  <2>6. LoginsUseEnrolledKeys'
    BY <2>2, <2>4 DEF Login
  <2>7. \A u \in User : auth_state'[u].keys \subseteq enrolled'[u]
    BY <2>2, <2>4
  <2> QED
    BY <2>3, <2>5, <2>6, <2>7 DEF LocalKeys
<1>5. ASSUME NEW r \in Request, NEW u \in User, ReadCredentials(r, u)
      PROVE  KeyInv'
  <2>1. UNCHANGED <<credentials, auth_state, enrolled, logins>>
    BY <1>5 DEF ReadCredentials
  <2>2. ASSUME NEW s \in Request PROVE LocalKeys(s)'
    BY <1>5 DEF ReadCredentials, Starts, Idle, Handler, LocalKeys, ReqState
  <2> QED
    BY <2>1, <2>2 DEF LocalKeys
<1>6. ASSUME NEW r \in Request, NEW c \in Challenge, StoreChallenge(r, c)
      PROVE  KeyInv'
  <2>1. UNCHANGED <<credentials, enrolled, logins>>
    BY <1>6 DEF StoreChallenge
  <2>2. ASSUME NEW s \in Request PROVE LocalKeys(s)'
    BY <1>6 DEF StoreChallenge, Continues, Idle, Handler, LocalKeys, ReqState
  <2>3. \A u \in User : auth_state'[u].keys \subseteq enrolled[u]
    BY <1>6 DEF StoreChallenge, Continues
  <2> QED
    BY <2>1, <2>2, <2>3 DEF LocalKeys
<1>7. ASSUME NEW r \in Request, NEW u \in User, NEW c \in drawn, NEW k \in Passkey,
             FinishAuthentication(r, u, c, k)
      PROVE  KeyInv'
  <2>1. UNCHANGED <<credentials, enrolled>>
    BY <1>7 DEF FinishAuthentication
  <2>2. ASSUME NEW s \in Request PROVE LocalKeys(s)'
    BY <1>7 DEF FinishAuthentication, Starts, Idle, Handler, LocalKeys, ReqState
  <2>3. LoginsUseEnrolledKeys'
    BY <1>7, <2>1 DEF FinishAuthentication
  <2>4. \A v \in User : auth_state'[v].keys \subseteq enrolled[v]
    BY <1>7 DEF FinishAuthentication, TakeAuthState, NoAuth
  <2> QED
    BY <2>1, <2>2, <2>3, <2>4 DEF LocalKeys
<1>8. ASSUME NEW r \in Request, RemoveCredentials(r) PROVE KeyInv'
  <2>1. UNCHANGED <<auth_state, enrolled, logins>>
    BY <1>8 DEF RemoveCredentials
  <2>2. ASSUME NEW s \in Request PROVE LocalKeys(s)'
    BY <1>8 DEF RemoveCredentials, Continues, Handler, LocalKeys, ReqState
  <2>3. KeysStayWithTheirUser'
    BY <1>8, <2>1 DEF RemoveCredentials, Continues
  <2> QED
    BY <2>1, <2>2, <2>3 DEF LocalKeys
<1>9. ASSUME NEW r \in Request, InsertCredentials(r) PROVE KeyInv'
  <2>1. UNCHANGED <<auth_state, enrolled, logins>>
    BY <1>9 DEF InsertCredentials
  <2>2. ASSUME NEW s \in Request PROVE LocalKeys(s)'
    BY <1>9 DEF InsertCredentials, Continues, Idle, Handler, LocalKeys, ReqState
  <2>3. KeysStayWithTheirUser'
    BY <1>9, <2>1 DEF InsertCredentials, Continues
  <2> QED
    BY <2>1, <2>2, <2>3 DEF LocalKeys
<1> HIDE DEF WebauthnInv, KeyInv
<1> QED
  BY <1>1, <1>2, <1>3, <1>4, <1>5, <1>6, <1>7, <1>8, <1>9 DEF WebauthnNext

\* Every step keeps the lists whole, or marks the user whose list it overtakes.
LEMMA WebauthnNextKept ==
  ASSUME WebauthnInv, [WebauthnNext]_webauthnVars PROVE KeptInv'
<1> USE DEF WebauthnInv, WebauthnTypeOK, KeptInv, Kept, Updating
\* The users whose list a step leaves alone, copies included.
<1>0. ASSUME NEW v \in User \ overtaken, NEW r \in Request,
             \A s \in Request \ {r} : req'[s] = req[s],
             req[r].pc = "insert" => req[r].user # v,
             req'[r].pc = "insert" => req'[r].user # v,
             credentials'[v] = credentials[v], enrolled'[v] = enrolled[v]
      PROVE  Kept(v)'
  <2>1. \A s \in Request :
          /\ req'[s].pc = "insert" /\ req'[s].user = v <=>
               req[s].pc = "insert" /\ req[s].user = v
          /\ req[s].pc = "insert" /\ req[s].user = v => req'[s] = req[s]
    BY <1>0
  <2> QED BY <1>0, <2>1
\* A handler goes on that neither holds a copy nor comes to hold one.
<1>1. ASSUME UNCHANGED <<credentials, enrolled, overtaken>>,
             \A r \in Request :
               \/ req'[r] = req[r]
               \/ req[r].pc # "insert" /\ req'[r].pc # "insert"
      PROVE  KeptInv'
  BY <1>1
<1>2. ASSUME NEW r \in Request, NEW state, req' = [req EXCEPT ![r] = state],
             req[r].pc # "insert", state.pc # "insert",
             UNCHANGED <<credentials, enrolled, overtaken>>
      PROVE  KeptInv'
  BY <1>1, <1>2
<1>3. ASSUME NEW r \in Request, PushCredential(r) PROVE KeptInv'
  <2>0. PICK u \in User : u = req[r].user
    BY <1>3 DEF PushCredential, Continues, KeyInv
  <2>1. /\ req[r].pc = "push" /\ Overtakes(u)
        /\ req' = [req EXCEPT ![r] = Idle]
        /\ credentials' = [credentials EXCEPT ![u] = @ \cup {req[r].key}]
        /\ enrolled' = [enrolled EXCEPT ![u] = @ \cup {req[r].key}]
    BY <1>3, <2>0 DEF PushCredential, Continues
  <2>2. /\ req'[r].pc # "insert"
        /\ \A s \in Request \ {r} : req'[s] = req[s]
    BY <2>1 DEF Idle, Handler
  <2>3. \A v \in User \ overtaken' : v \notin overtaken
    BY <2>1 DEF Overtakes
  <2>4. ASSUME NEW v \in User \ overtaken', v # u PROVE Kept(v)'
    <3>1. credentials'[v] = credentials[v] /\ enrolled'[v] = enrolled[v]
      BY <2>1, <2>4
    <3> HIDE DEF Kept
    <3> QED BY <1>0, <2>1, <2>2, <2>3, <3>1
  <2>5. ASSUME u \notin overtaken' PROVE Kept(u)'
    <3>1. u \notin overtaken /\ \A s \in Request :
            ~(req[s].pc = "insert" /\ req[s].user = u)
      BY <2>1, <2>5 DEF Overtakes
    <3>2. credentials'[u] = enrolled'[u]
      BY <2>1, <3>1
    <3>3. \A s \in Request : ~(req'[s].pc = "insert" /\ req'[s].user = u)
      BY <2>2, <3>1
    <3> QED BY <3>2, <3>3
  <2> QED BY <2>4, <2>5
<1>4. ASSUME NEW r \in Request, RemoveCredentials(r) PROVE KeptInv'
  <2>0. PICK u \in User : u = req[r].user
    BY <1>4 DEF RemoveCredentials, Continues, KeyInv
  <2>1. /\ req[r].pc = "remove" /\ Overtakes(u)
        /\ req' = [req EXCEPT ![r] =
                     Handler("insert", u, req[r].key, credentials[u])]
        /\ credentials' = [credentials EXCEPT ![u] = {}]
        /\ UNCHANGED enrolled
    BY <1>4, <2>0 DEF RemoveCredentials, Continues
  <2>2. /\ req'[r].pc = "insert" /\ req'[r].user = u
        /\ req'[r].creds = credentials[u]
        /\ \A s \in Request \ {r} : req'[s] = req[s]
    BY <2>1 DEF Handler
  <2>3. \A v \in User \ overtaken' : v \notin overtaken
    BY <2>1 DEF Overtakes
  <2>4. ASSUME NEW v \in User \ overtaken', v # u PROVE Kept(v)'
    <3>1. credentials'[v] = credentials[v]
      BY <2>1, <2>4
    <3> HIDE DEF Kept
    <3> QED BY <1>0, <2>1, <2>2, <2>3, <2>4, <3>1
  <2>5. ASSUME u \notin overtaken' PROVE Kept(u)'
    <3>1. u \notin overtaken /\ \A s \in Request :
            ~(req[s].pc = "insert" /\ req[s].user = u)
      BY <2>1, <2>5 DEF Overtakes
    <3>2. credentials[u] = enrolled'[u]
      BY <2>1, <3>1
    <3>3. \A s \in Request : req'[s].pc = "insert" /\ req'[s].user = u => s = r
      BY <2>2, <3>1
    <3> QED BY <2>2, <3>2, <3>3
  <2> QED BY <2>4, <2>5
<1>5. ASSUME NEW r \in Request, InsertCredentials(r) PROVE KeptInv'
  <2> DEFINE u == req[r].user
  <2>1. /\ u \in User /\ req[r].pc = "insert"
        /\ req' = [req EXCEPT ![r] = Idle]
        /\ credentials' = [credentials EXCEPT ![u] = req[r].creds]
        /\ UNCHANGED <<enrolled, overtaken>>
    BY <1>5 DEF InsertCredentials, Continues, KeyInv
  <2>2. /\ req'[r].pc # "insert"
        /\ \A s \in Request \ {r} : req'[s] = req[s]
    BY <2>1 DEF Idle, Handler
  <2> QED BY <2>1, <2>2
<1>6. ASSUME NEW r \in Request, NEW u \in User, NEW c \in drawn, NEW k \in Passkey,
             FinishRegistration(r, u, c, k) \/ FinishAuthentication(r, u, c, k)
      PROVE  KeptInv'
  BY <1>1, <1>2, <1>6
     DEF FinishRegistration, FinishAuthentication, Starts, Handler
<1>7. ASSUME NEW r \in Request, NEW u \in User, ReadCredentials(r, u)
      PROVE  KeptInv'
  BY <1>2, <1>7 DEF ReadCredentials, Starts, Handler
<1>8. ASSUME NEW r \in Request, NEW c \in Challenge, StoreChallenge(r, c)
      PROVE  KeptInv'
  BY <1>2, <1>8 DEF StoreChallenge, Continues, Idle, Handler
<1>9. ASSUME \/ UNCHANGED webauthnVars
             \/ \E u \in User, c \in Challenge : start_registration(u, c)
      PROVE  KeptInv'
  BY <1>1, <1>9 DEF webauthnVars, start_registration
<1> HIDE DEF WebauthnInv, WebauthnTypeOK, KeptInv, Kept, Updating
<1> QED
  BY <1>3, <1>4, <1>5, <1>6, <1>7, <1>8, <1>9 DEF WebauthnNext

\* The invariant holds in every reachable state.
THEOREM WebauthnInvariant == WebauthnSpec => []WebauthnInv
<1>1. ASSUME WebauthnInv, [WebauthnNext]_webauthnVars PROVE WebauthnInv'
  BY <1>1, WebauthnNextType, WebauthnNextChallenge, WebauthnNextKey,
     WebauthnNextKept DEF WebauthnInv
<1> QED
  BY WebauthnInitInv, <1>1, PTL DEF WebauthnSpec

\* The maps and the handlers' locals stay well typed.
THEOREM WebauthnTypeCorrect == WebauthnSpec => []WebauthnTypeOK
<1>1. WebauthnInv => WebauthnTypeOK
  BY DEF WebauthnInv
<1> QED
  BY WebauthnInvariant, <1>1, PTL

\* However many finish_authentication calls race, a challenge opens one session.
THEOREM ChallengesAreSingleUse == WebauthnSpec => []OneLoginPerChallenge
<1>1. WebauthnInv => OneLoginPerChallenge
  BY DEF WebauthnInv, ChallengeInv
<1> QED
  BY WebauthnInvariant, <1>1, PTL

\* Every assertion that finish_authentication accepts is by a key its user
\* enrolled.
THEOREM LoginsAreByEnrolledKeys == WebauthnSpec => []LoginsUseEnrolledKeys
<1>1. WebauthnInv => LoginsUseEnrolledKeys
  BY DEF WebauthnInv, KeyInv
<1> QED
  BY WebauthnInvariant, <1>1, PTL

\* An enrolled key is lost only to an update in whose middle the same user's list
\* was changed.
THEOREM KeysStay == WebauthnSpec => []KeysAreKept
<1>1. WebauthnInv => KeysAreKept
  <2> SUFFICES ASSUME WebauthnInv, NEW u \in User \ overtaken, NEW k \in enrolled[u]
               PROVE  \/ k \in credentials[u]
                      \/ \E r \in Request :
                           req[r].pc = "insert" /\ req[r].user = u
                             /\ k \in req[r].creds
    BY DEF KeysAreKept
  <2> QED BY DEF WebauthnInv, KeptInv, Kept, Updating
<1> QED
  BY WebauthnInvariant, <1>1, PTL

\* Taking lists of keys out of the map and putting them back never moves a key
\* from one user to another.
THEOREM KeysNeverMove == WebauthnSpec => []KeysStayWithTheirUser
<1>1. WebauthnInv => KeysStayWithTheirUser
  BY DEF WebauthnInv, KeyInv
<1> QED
  BY WebauthnInvariant, <1>1, PTL
=============================================================================

-------------------------- MODULE Sessions_proofs ---------------------------
(***************************************************************************)
(* Theorems about the refresh store and the session handlers over it, for  *)
(* any tokens, accounts and requests in flight, any lifetimes, and any     *)
(* settings of LDAP, OIDC and the JWTs where a theorem names none.         *)
(***************************************************************************)
EXTENDS Sessions, TLAPS

-----------------------------------------------------------------------------
(* The refresh store.                                                      *)

\* A freshly drawn identifier is nobody's family head but its own: the part of
\* the invariant that makes `issue` start a chain of its own.
LEMMA FreshIsNoHead ==
  ASSUME StoreIndInv, NEW n \in TokenId, n \notin Stored
  PROVE  n \notin revoked /\ \A t \in Stored : family[t] # n
BY DEF StoreIndInv, FamilyKeepsItsUser

\* The initial store satisfies the inductive invariant.
LEMMA StoreInitInv == StoreInit => StoreIndInv
BY StoreAssumption DEF StoreInit, StoreIndInv, StoreTypeOK, Stored,
     FamilyKeepsItsUser, OneLivePerFamily

\* Revoking records, one or all of a user's, preserves the invariant.
LEMMA RevokeKeepsInv ==
  ASSUME StoreIndInv, NEW S \in SUBSET Stored,
         revoked' = revoked \cup S,
         UNCHANGED <<user_id, expires_at, family, now>>
  PROVE  StoreIndInv'
<1>1. Stored' = Stored
  BY DEF Stored
<1>2. StoreTypeOK'
  BY DEF StoreIndInv, StoreTypeOK, Stored
<1>3. FamilyKeepsItsUser'
  BY <1>1 DEF StoreIndInv, FamilyKeepsItsUser
<1>4. OneLivePerFamily'
  BY <1>1 DEF StoreIndInv, OneLivePerFamily
<1> QED
  BY <1>1, <1>2, <1>3, <1>4 DEF StoreIndInv

\* Inserting a fresh record preserves the invariant, whether it heads a new
\* chain (`issue`) or replaces the live token of its chain (`rotate`).
LEMMA InsertKeepsInv ==
  ASSUME StoreIndInv, NEW u \in UserId, NEW n \in TokenId, NEW head \in TokenId,
         Insert(u, n, head), UNCHANGED now,
         revoked' = revoked \/ \E t \in Stored : revoked' = revoked \cup {t},
         \/ head = n
         \/ head \in Stored /\ family[head] = head /\ user_id[head] = u,
         \A s \in Stored \ revoked' : family[s] # head
  PROVE  StoreIndInv'
<1> USE StoreAssumption
<1>1. Stored' = Stored \cup {n} /\ n \notin Stored
  BY DEF Stored, Insert, StoreIndInv, StoreTypeOK
<1>2. n \notin revoked /\ \A t \in Stored : family[t] # n
  BY <1>1, FreshIsNoHead
<1>3. revoked' \in SUBSET Stored /\ n \notin revoked'
  BY <1>1, <1>2 DEF StoreIndInv, Stored
<1>4. StoreTypeOK'
  BY <1>3 DEF StoreIndInv, StoreTypeOK, Insert, Stored
<1>5. FamilyKeepsItsUser'
  BY <1>1, <1>2 DEF StoreIndInv, StoreTypeOK, FamilyKeepsItsUser, Insert
<1>6. OneLivePerFamily'
  <2> SUFFICES ASSUME NEW s \in Stored' \ revoked', NEW t \in Stored' \ revoked',
                      family'[s] = family'[t]
               PROVE  s = t
    BY DEF OneLivePerFamily
  <2>1. \A x \in Stored : family'[x] = family[x]
    BY <1>1 DEF Insert, StoreIndInv, StoreTypeOK, Stored
  <2>2. family'[n] = head
    BY DEF Insert, StoreIndInv, StoreTypeOK
  <2>3. revoked \subseteq revoked'
    OBVIOUS
  <2> QED
    BY <1>1, <1>2, <2>1, <2>2, <2>3 DEF StoreIndInv, OneLivePerFamily
<1>7. \A t \in TokenId : t \notin Stored' => family'[t] = t
  BY <1>1 DEF Insert, StoreIndInv, StoreTypeOK
<1> QED
  BY <1>1, <1>3, <1>4, <1>5, <1>6, <1>7 DEF StoreIndInv

\* Every operation of the store, and the clock, preserve the invariant.
LEMMA StoreNextInv == StoreIndInv /\ [StoreNext]_refreshVars => StoreIndInv'
<1> SUFFICES ASSUME StoreIndInv, [StoreNext]_refreshVars PROVE StoreIndInv'
  OBVIOUS
<1>1. ASSUME NEW u \in UserId, NEW n \in TokenId, issue(u, n), UNCHANGED now
      PROVE  StoreIndInv'
  <2>1. Insert(u, n, n) /\ revoked' = revoked
    BY <1>1 DEF issue
  <2>2. \A s \in Stored \ revoked' : family[s] # n
    BY <2>1, FreshIsNoHead DEF Insert
  <2> QED
    BY <1>1, <2>1, <2>2, InsertKeepsInv
<1>2. ASSUME NEW t \in TokenId, revoke(t), UNCHANGED now
      PROVE  StoreIndInv'
  BY <1>2, RevokeKeepsInv DEF revoke
<1>3. ASSUME NEW u, revoke_all_for_user(u), UNCHANGED now
      PROVE  StoreIndInv'
  BY <1>3, RevokeKeepsInv DEF revoke_all_for_user, TokensOf
<1>4. ASSUME NEW t \in TokenId, RotateReplay(t), UNCHANGED now
      PROVE  StoreIndInv'
  BY <1>3, <1>4 DEF RotateReplay
<1>5. ASSUME NEW t \in TokenId, NEW n \in TokenId, RotateOk(t, n), UNCHANGED now
      PROVE  StoreIndInv'
  <2>1. t \in Stored /\ t \notin revoked
    BY <1>5 DEF RotateOk, RotateRejects
  <2>2. user_id[t] \in UserId /\ family[t] \in TokenId
    BY <2>1 DEF StoreIndInv, StoreTypeOK, Stored
  <2>3. Insert(user_id[t], n, family[t]) /\ revoked' = revoked \cup {t}
    BY <1>5 DEF RotateOk
  <2>4. family[t] \in Stored /\ user_id[family[t]] = user_id[t]
    BY <2>1 DEF StoreIndInv, FamilyKeepsItsUser
  <2>5. family[family[t]] = family[t]
    BY <2>1 DEF StoreIndInv, FamilyKeepsItsUser
  <2>6. \A s \in Stored \ revoked' : family[s] # family[t]
    BY <2>1, <2>3 DEF StoreIndInv, OneLivePerFamily
  <2> QED
    BY <1>5, <2>1, <2>2, <2>3, <2>4, <2>5, <2>6, InsertKeepsInv
<1>6. CASE Tick /\ UNCHANGED storeVars
  BY <1>6 DEF Tick, storeVars, StoreIndInv, StoreTypeOK, Stored,
       FamilyKeepsItsUser, OneLivePerFamily
<1>7. CASE UNCHANGED refreshVars
  BY <1>7 DEF refreshVars, StoreIndInv, StoreTypeOK, Stored,
       FamilyKeepsItsUser, OneLivePerFamily
<1> QED
  BY <1>1, <1>2, <1>3, <1>4, <1>5, <1>6, <1>7 DEF StoreNext, StoreOp

-----------------------------------------------------------------------------

\* The inductive invariant holds throughout.
THEOREM StoreInvariant == StoreSpec => []StoreIndInv
BY StoreInitInv, StoreNextInv, PTL DEF StoreSpec

\* Type correctness of the refresh store.
THEOREM StoreTypeCorrect == StoreSpec => []StoreTypeOK
<1>1. StoreIndInv => StoreTypeOK
  BY DEF StoreIndInv
<1> QED
  BY <1>1, StoreInvariant, PTL

\* However long a session is rotated and by however many callers, at most one
\* token of its chain is not revoked (RefreshStore::rotate).
THEOREM RotationIsLinear == StoreSpec => []OneLivePerFamily
<1>1. StoreIndInv => OneLivePerFamily
  BY DEF StoreIndInv
<1> QED
  BY <1>1, StoreInvariant, PTL

\* Rotation never hands a session to another user.
THEOREM SessionsStayWithTheirUser == StoreSpec => []FamilyKeepsItsUser
<1>1. StoreIndInv => FamilyKeepsItsUser
  BY DEF StoreIndInv
<1> QED
  BY <1>1, StoreInvariant, PTL

\* One step of the store: records stay with their user and their expiry, flags
\* are only raised, and the clock does not go back.
LEMMA StoreStepKeeps ==
  ASSUME StoreIndInv, [StoreNext]_refreshVars
  PROVE  /\ revoked \subseteq revoked'
         /\ \A t \in Stored : /\ user_id'[t] = user_id[t]
                              /\ expires_at'[t] = expires_at[t]
         /\ now' \in Nat /\ now <= now'
<1> DEFINE A == /\ revoked \subseteq revoked'
                /\ \A t \in Stored : /\ user_id'[t] = user_id[t]
                                     /\ expires_at'[t] = expires_at[t]
<1>1. A
  <2>1. ASSUME NEW u, NEW n \in TokenId, NEW head, Insert(u, n, head),
               revoked \subseteq revoked'
        PROVE  A
    BY <2>1 DEF Insert, Stored, StoreIndInv, StoreTypeOK
  <2>2. ASSUME UNCHANGED <<user_id, expires_at, family>>,
               revoked \subseteq revoked'
        PROVE  A
    BY <2>2
  <2>3. ASSUME NEW u \in UserId, NEW n \in TokenId, issue(u, n) PROVE A
    BY <2>1, <2>3 DEF issue
  <2>4. ASSUME NEW t \in TokenId, revoke(t) PROVE A
    BY <2>2, <2>4 DEF revoke
  <2>5. ASSUME NEW u, revoke_all_for_user(u) PROVE A
    BY <2>2, <2>5 DEF revoke_all_for_user
  <2>6. ASSUME NEW t \in TokenId, RotateReplay(t) PROVE A
    BY <2>5, <2>6 DEF RotateReplay
  <2>7. ASSUME NEW t \in TokenId, NEW n \in TokenId, RotateOk(t, n) PROVE A
    BY <2>1, <2>7 DEF RotateOk
  <2>8. CASE UNCHANGED storeVars
    BY <2>2, <2>8 DEF storeVars
  <2> QED
    BY <2>3, <2>4, <2>5, <2>6, <2>7, <2>8
       DEF StoreNext, StoreOp, refreshVars, storeVars
<1>2. now' = now \/ now' = now + 1
  BY DEF StoreNext, Tick, refreshVars
<1> QED
  BY <1>1, <1>2 DEF StoreIndInv, StoreTypeOK

\* No operation of the store revives a token, changes its user or its expiry.
THEOREM RevocationIsFinal == StoreSpec => TokensDieOnce
<1>1. StoreIndInv /\ [StoreNext]_refreshVars =>
        [/\ revoked \subseteq revoked'
         /\ \A t \in Stored : /\ user_id'[t] = user_id[t]
                              /\ expires_at'[t] = expires_at[t]]_refreshVars
  BY StoreStepKeeps
<1> QED
  BY <1>1, StoreInvariant, PTL DEF StoreSpec, TokensDieOnce

\* One call changes the tokens of at most one user.
THEOREM IsolationOfUsers == StoreSpec => UsersAreIsolated
<1> DEFINE A == \E u \in UserId : \A t \in Stored :
                  user_id[t] # u => (t \in revoked' <=> t \in revoked)
<1>1. StoreIndInv /\ [StoreNext]_refreshVars => [A]_revoked
  <2> SUFFICES ASSUME StoreIndInv, StoreNext, revoked' # revoked PROVE A
    BY DEF refreshVars
  <2>1. ASSUME NEW u \in UserId, revoke_all_for_user(u) PROVE A
    BY <2>1 DEF revoke_all_for_user, TokensOf
  <2>2. ASSUME NEW t \in Stored, revoked' = revoked \cup {t} PROVE A
    <3>1. user_id[t] \in UserId
      BY DEF Stored, StoreIndInv, StoreTypeOK
    <3> QED
      BY <2>2, <3>1
  <2>3. ASSUME NEW t \in TokenId, revoke(t) PROVE A
    BY <2>2, <2>3 DEF revoke
  <2>4. ASSUME NEW t \in TokenId, RotateReplay(t) PROVE A
    <3>1. user_id[t] \in UserId
      BY <2>4 DEF RotateReplay, RotateRejects, Stored, StoreIndInv, StoreTypeOK
    <3> QED
      BY <2>1, <2>4, <3>1 DEF RotateReplay
  <2>5. ASSUME NEW t \in TokenId, NEW n \in TokenId, RotateOk(t, n) PROVE A
    BY <2>2, <2>5 DEF RotateOk, RotateRejects
  <2> QED
    BY <2>1, <2>3, <2>4, <2>5 DEF StoreNext, StoreOp, issue, storeVars
<1> QED
  BY <1>1, StoreInvariant, PTL DEF StoreSpec, UsersAreIsolated

-----------------------------------------------------------------------------
(* The store implements sessions that pass from one credential to the next. *)

\* The state functions of the refinement mapping.
live == [s \in TokenId |-> {t \in Stored \ revoked : family[t] = s}]
person == [s \in TokenId |-> IF family[s] = s THEN user_id[s] ELSE Nobody]

\* `issue` begins a session named after its token.
LEMMA IssueBegins ==
  ASSUME StoreIndInv, NEW u \in UserId, NEW n \in TokenId, issue(u, n)
  PROVE  Lineage!Begin(u, n)
<1>1. n \notin Stored /\ Stored' = Stored \cup {n}
  BY StoreAssumption DEF issue, Insert, Stored, StoreIndInv, StoreTypeOK
<1>2. n \notin revoked /\ \A t \in Stored : family[t] # n
  BY <1>1, FreshIsNoHead
<1>3. family' = family
  BY <1>1 DEF issue, Insert, StoreIndInv, StoreTypeOK
<1>4. revoked' = revoked
  BY DEF issue
<1>5. live' = [live EXCEPT ![n] = {n}]
  <2> SUFFICES ASSUME NEW s \in TokenId
               PROVE  live'[s] = [live EXCEPT ![n] = {n}][s]
    BY DEF live
  <2>1. family[n] = n
    BY <1>1 DEF StoreIndInv
  <2>2. CASE s = n
    BY <1>1, <1>2, <1>3, <1>4, <2>1, <2>2 DEF live
  <2>3. CASE s # n
    BY <1>1, <1>2, <1>3, <1>4, <2>1, <2>3 DEF live
  <2> QED
    BY <2>2, <2>3
<1>6. person' = [person EXCEPT ![n] = u]
  BY <1>1, <1>3 DEF person, issue, Insert, StoreIndInv, StoreTypeOK
<1> QED
  BY <1>1, <1>5, <1>6 DEF Lineage!Begin, live, person

\* A successful `rotate` passes the session on to the new token.
LEMMA RotatePasses ==
  ASSUME StoreIndInv, NEW t \in TokenId, NEW n \in TokenId, RotateOk(t, n)
  PROVE  Lineage!Pass(family[t], t, n)
<1>1. t \in Stored \ revoked /\ n \notin Stored /\ Stored' = Stored \cup {n}
  BY StoreAssumption DEF RotateOk, RotateRejects, Insert, Stored, StoreIndInv,
       StoreTypeOK
<1>2. n \notin revoked /\ n # t /\ \A x \in Stored : family[x] # n
  BY <1>1, FreshIsNoHead
<1>3. /\ family[t] \in TokenId
      /\ family' = [family EXCEPT ![n] = family[t]]
      /\ family \in [TokenId -> TokenId]
      /\ revoked' = revoked \cup {t}
  BY DEF RotateOk, Insert, StoreIndInv, StoreTypeOK
<1>4. live[family[t]] = {t}
  BY <1>1, <1>3 DEF live, StoreIndInv, OneLivePerFamily
<1>5. live' = [live EXCEPT ![family[t]] = {n}]
  <2> SUFFICES ASSUME NEW s \in TokenId
               PROVE  live'[s] = [live EXCEPT ![family[t]] = {n}][s]
    BY DEF live
  <2>1. CASE s = family[t]
    <3>1. \A x \in Stored \ revoked : family[x] = s => x = t
      BY <1>1, <2>1 DEF StoreIndInv, OneLivePerFamily
    <3> QED
      BY <1>1, <1>2, <1>3, <2>1, <3>1 DEF live
  <2>2. CASE s # family[t]
    BY <1>1, <1>2, <1>3, <2>2 DEF live
  <2> QED
    BY <2>1, <2>2
<1>6. person' = person
  <2>1. user_id' = [user_id EXCEPT ![n] = user_id[t]]
    BY DEF RotateOk, Insert
  <2>2. family[t] # n /\ user_id[n] = Nobody
    BY <1>1, <1>2 DEF Stored
  <2> QED
    BY <1>3, <2>1, <2>2 DEF person, StoreIndInv, StoreTypeOK
<1> QED
  BY <1>1, <1>4, <1>5, <1>6 DEF Lineage!Pass, live, person

\* `revoke_all_for_user`, and a replay, close every session of the user.
LEMMA RevokeAllCloses ==
  ASSUME StoreIndInv, NEW u \in UserId, revoke_all_for_user(u)
  PROVE  Lineage!CloseAll(u)
<1>1. Stored' = Stored /\ family' = family /\ person' = person
  BY DEF revoke_all_for_user, Stored, person
<1>2. \A s \in TokenId, t \in Stored : family[t] = s =>
         (person[s] = u <=> t \in TokensOf(u))
  BY DEF StoreIndInv, FamilyKeepsItsUser, TokensOf, person
<1>3. live' = [s \in TokenId |->
                 IF s \in {x \in TokenId : person[x] = u} THEN {} ELSE live[s]]
  <2> SUFFICES ASSUME NEW s \in TokenId
               PROVE  live'[s] = IF person[s] = u THEN {} ELSE live[s]
    BY DEF live
  <2> QED
    BY <1>1, <1>2 DEF live, revoke_all_for_user
<1> QED
  BY <1>1, <1>3 DEF Lineage!CloseAll, Lineage!Close, live, person

\* `revoke` closes the session its token opens, or changes nothing.
LEMMA RevokeCloses ==
  ASSUME StoreIndInv, NEW t \in TokenId, revoke(t)
  PROVE  Lineage!Close({family[t]}) \/ UNCHANGED <<person, live, Stored>>
<1>1. /\ Stored' = Stored /\ family' = family /\ person' = person
      /\ revoked' = revoked \cup {t} /\ t \in Stored
  BY DEF revoke, Stored, person
<1>2. CASE t \in revoked
  BY <1>1, <1>2 DEF live
<1>3. CASE t \notin revoked
  <2>1. \A x \in Stored \ revoked : family[x] = family[t] => x = t
    BY <1>1, <1>3 DEF StoreIndInv, OneLivePerFamily
  <2>2. live' = [s \in TokenId |-> IF s \in {family[t]} THEN {} ELSE live[s]]
    <3> SUFFICES ASSUME NEW s \in TokenId
                 PROVE  live'[s] = IF s = family[t] THEN {} ELSE live[s]
      BY DEF live
    <3>1. CASE s = family[t]
      BY <1>1, <2>1, <3>1 DEF live
    <3>2. CASE s # family[t]
      BY <1>1, <3>2 DEF live
    <3> QED
      BY <3>1, <3>2
  <2> QED
    BY <1>1, <2>2 DEF Lineage!Close, live, person
<1> QED
  BY <1>2, <1>3

\* The refresh store implements SessionLineage: every step of the store is a
\* step of the abstract sessions or leaves them as they are.
THEOREM StoreImplementsLineage == StoreSpec => ImplementsLineage
<1>1. StoreInit => Lineage!Init
  BY DEF StoreInit, Lineage!Init, Stored
<1>2. StoreIndInv /\ [StoreNext]_refreshVars => [Lineage!Next]_(Lineage!lineageVars)
  <2> SUFFICES ASSUME StoreIndInv, [StoreNext]_refreshVars
               PROVE  Lineage!Next \/ UNCHANGED <<person, live, Stored>>
    BY DEF Lineage!lineageVars, person, live
  <2>1. ASSUME NEW u \in UserId, NEW n \in TokenId, issue(u, n)
        PROVE  Lineage!Next
    BY <2>1, IssueBegins DEF Lineage!Next
  <2>2. ASSUME NEW t \in TokenId, revoke(t)
        PROVE  Lineage!Next \/ UNCHANGED <<person, live, Stored>>
    <3>1. family[t] \in TokenId
      BY DEF StoreIndInv, StoreTypeOK
    <3>2. Lineage!Close({family[t]}) \/ UNCHANGED <<person, live, Stored>>
      BY <2>2, RevokeCloses
    <3>3. ASSUME Lineage!Close({family[t]}) PROVE Lineage!Next
      BY <3>1, <3>3 DEF Lineage!Next, Lineage!Close
    <3> QED
      BY <3>2, <3>3
  <2>3. ASSUME NEW u \in UserId, revoke_all_for_user(u)
        PROVE  Lineage!Next
    BY <2>3, RevokeAllCloses DEF Lineage!Next
  <2>4. ASSUME NEW t \in TokenId, RotateReplay(t)
        PROVE  Lineage!Next
    <3>1. user_id[t] \in UserId
      BY <2>4 DEF RotateReplay, RotateRejects, Stored, StoreIndInv, StoreTypeOK
    <3> QED
      BY <2>3, <2>4, <3>1 DEF RotateReplay
  <2>5. ASSUME NEW t \in TokenId, NEW n \in TokenId, RotateOk(t, n)
        PROVE  Lineage!Next
    <3>1. family[t] \in TokenId
      BY DEF StoreIndInv, StoreTypeOK
    <3> QED
      BY <2>5, <3>1, RotatePasses DEF Lineage!Next
  <2>6. CASE UNCHANGED storeVars
    BY <2>6 DEF storeVars, person, live, Stored
  <2> QED
    BY <2>1, <2>2, <2>3, <2>4, <2>5, <2>6
       DEF StoreNext, StoreOp, refreshVars, storeVars
<1> QED
  BY <1>1, <1>2, StoreInvariant, PTL DEF StoreSpec, ImplementsLineage, Lineage!Spec

-----------------------------------------------------------------------------
(* The handlers.                                                           *)

\* What a handler in the middle remembers is what it once read.
ReqOK ==
  \A r \in Request :
    /\ req[r].pc \in {"create", "issue", "mint"} => req[r].id \in UserId
    /\ req[r].pc = "revoke" => req[r].tok \in Stored

\* Tokens that were logged out are dead by their flag or by their age, and
\* tokens lost to a replay are dead by their flag: both are for good.
HistoryOK ==
  /\ \A t \in loggedOut : t \in Stored /\ (t \in revoked \/ Expired(t))
  /\ condemned \subseteq revoked

SessionsInv ==
  /\ SessionsTypeOK
  /\ StoreIndInv
  /\ ReqOK
  /\ HistoryOK

\* An account that exists has an id.
LEMMA AccountsHaveIds ==
  ASSUME SessionsTypeOK, NEW u \in Username, u \in Accounts
  PROVE  users[u] \in Account /\ users[u].id \in UserId /\ users[u].role \in Role
BY DEF SessionsTypeOK, Accounts, Account

\* At startup nobody has a token and no handler runs.
LEMMA SessionsInitInv == SessionsInit => SessionsInv
<1> SUFFICES ASSUME SessionsInit PROVE SessionsInv
  OBVIOUS
<1>1. StoreIndInv
  BY StoreInitInv DEF SessionsInit
<1>2. SessionsTypeOK
  BY <1>1, SessionsAssumption
     DEF SessionsInit, SessionsTypeOK, StoreIndInv, ReqState, Idle
<1>3. ReqOK /\ HistoryOK
  BY DEF SessionsInit, ReqOK, HistoryOK, Idle
<1> QED
  BY <1>1, <1>2, <1>3 DEF SessionsInv

-----------------------------------------------------------------------------
(* Every handler uses the refresh store through one operation at a time.   *)

\* A step that opens a session issues one token.
LEMMA OpenSessionIsStoreStep ==
  ASSUME NEW id \in UserId, NEW role, NEW n \in TokenId,
         OpenSession(id, role, n)
  PROVE  StoreNext
BY DEF OpenSession, StoreNext, StoreOp

\* A step of the handlers is a step of the store or leaves it alone.
LEMMA HandlersAreStoreSteps ==
  SessionsInv /\ [SessionsNext]_sessionVars => [StoreNext]_refreshVars
<1> SUFFICES ASSUME SessionsInv, [SessionsNext]_sessionVars
             PROVE  [StoreNext]_refreshVars
  OBVIOUS
<1> USE DEF SessionsInv
<1>1. ASSUME NEW u \in Username, NEW p \in Password, NEW n \in TokenId,
             login(u, p, n)
      PROVE  StoreNext
  BY <1>1, AccountsHaveIds, OpenSessionIsStoreStep DEF login
<1>2. ASSUME NEW u \in Username, NEW n \in TokenId, login_complete(u, n)
      PROVE  StoreNext
  BY <1>2, AccountsHaveIds, OpenSessionIsStoreStep DEF login_complete
<1>3. ASSUME NEW r \in Request, NEW n \in TokenId, IssueSession(r, n)
      PROVE  StoreNext
  BY <1>3, OpenSessionIsStoreStep DEF IssueSession, ReqOK
<1>4. ASSUME NEW r \in Request, NEW t \in TokenId, NEW n \in TokenId,
             RefreshRotate(r, t, n)
      PROVE  StoreNext
  BY <1>4 DEF RefreshRotate, StoreNext, StoreOp
<1>5. ASSUME NEW t \in TokenId, RefreshReplay(t) PROVE StoreNext
  BY <1>5 DEF RefreshReplay, StoreNext, StoreOp
<1>6. ASSUME NEW r \in Request, LogoutRevoke(r) PROVE StoreNext
  BY <1>6 DEF LogoutRevoke, StoreNext, StoreOp, ReqOK, Stored
<1>7. ASSUME Tick /\ UNCHANGED <<storeVars, authVars, historyVars>>
      PROVE  StoreNext
  BY <1>7 DEF StoreNext
<1>8. ASSUME ManageUsers PROVE UNCHANGED refreshVars
  BY <1>8 DEF ManageUsers
<1>9. ASSUME UNCHANGED sessionVars PROVE UNCHANGED refreshVars
  BY <1>9 DEF sessionVars
<1>10. ASSUME NEW r \in Request,
              \/ LdapCreate(r) \/ RefreshMint(r) \/ RefreshOrphan(r)
              \/ \E u \in Username : LdapLookup(r, u)
              \/ \E s \in OidcSubjects : OidcResolve(r, s)
              \/ \E t \in TokenId : LogoutVerify(r, t)
       PROVE  UNCHANGED refreshVars
  BY <1>10 DEF LdapCreate, RefreshMint, RefreshOrphan, LdapLookup, OidcResolve,
       LogoutVerify
<1>11. ASSUME NEW i \in UserId, register_complete(i)
       PROVE  UNCHANGED refreshVars
  BY <1>11 DEF register_complete
<1> QED
  BY <1>1, <1>2, <1>3, <1>4, <1>5, <1>6, <1>7, <1>8, <1>9, <1>10, <1>11
     DEF SessionsNext, create_user, update_user, delete_user

-----------------------------------------------------------------------------
(* The handlers' own state.                                                *)

\* Signing a JWT records an expiry under an id and a role.
LEMMA SignJwtType ==
  ASSUME SessionsTypeOK, NEW id \in UserId, NEW role \in Role, SignJwt(id, role)
  PROVE  jwt_until' \in [UserId -> [Role -> Nat]]
BY SessionsAssumption DEF SessionsTypeOK, StoreTypeOK, SignJwt

\* Each step keeps the types of what the handlers own.
LEMMA HandlersKeepTypes ==
  ASSUME SessionsInv, [SessionsNext]_sessionVars, StoreIndInv'
  PROVE  SessionsTypeOK'
<1> USE SessionsAssumption DEF SessionsInv, SessionsTypeOK
<1>0. StoreTypeOK' /\ Idle \in ReqState
  BY DEF StoreIndInv, Idle, ReqState
<1>1. ASSUME UNCHANGED sessionVars PROVE SessionsTypeOK'
  BY <1>0, <1>1 DEF sessionVars, authVars, historyVars
<1>2. ASSUME NEW u \in Username, NEW n \in TokenId,
             OpenSession(users[u].id, users[u].role, n), u \in Accounts,
             UNCHANGED <<users, oidc_users, req, held>>
      PROVE  SessionsTypeOK'
  BY <1>0, <1>2, AccountsHaveIds, SignJwtType DEF OpenSession
<1>3. ASSUME NEW i \in UserId, register_complete(i) PROVE SessionsTypeOK'
  BY <1>0, <1>3 DEF register_complete, historyVars
<1>4. ASSUME NEW r \in Request, NEW u \in Username, LdapLookup(r, u)
      PROVE  SessionsTypeOK'
  <2>1. req' \in [Request -> ReqState]
    <3>1. ASSUME NEW x \in ReqState, Goto(r, x)
          PROVE  req' \in [Request -> ReqState]
      BY <3>1 DEF Goto
    <3>2. CASE u \in Accounts
      BY <1>4, <3>1, <3>2, AccountsHaveIds DEF LdapLookup, Idle, ReqState
    <3>3. CASE u \notin Accounts
      BY <1>4, <3>1, <3>3 DEF LdapLookup, Idle, ReqState
    <3> QED BY <3>2, <3>3
  <2> QED
    BY <1>0, <1>4, <2>1 DEF LdapLookup, historyVars
<1>5. ASSUME NEW r \in Request, LdapCreate(r) PROVE SessionsTypeOK'
  <2>1. req[r] \in ReqState /\ req[r].id \in UserId
    BY <1>5 DEF LdapCreate, ReqOK
  <2>2. req' \in [Request -> ReqState]
    BY <1>5, <2>1 DEF LdapCreate, Goto, ReqState
  <2>3. users' \in [Username -> Account \cup {NoAccount}]
    BY <1>5, <2>1 DEF LdapCreate, ReqState, Account
  <2> QED
    BY <1>0, <1>5, <2>2, <2>3 DEF LdapCreate, historyVars
<1>6. ASSUME NEW r \in Request, NEW s \in OidcSubjects, OidcResolve(r, s)
      PROVE  SessionsTypeOK'
  BY <1>0, <1>6 DEF OidcResolve, Goto, Idle, ReqState, historyVars
<1>7. ASSUME NEW r \in Request, NEW n \in TokenId, IssueSession(r, n)
      PROVE  SessionsTypeOK'
  <2>1. req[r].id \in UserId /\ req[r].role \in Role
    BY <1>7 DEF IssueSession, ReqOK, ReqState
  <2>2. held' \in [UserId -> [Role -> Nat]]
    BY <1>7 DEF IssueSession, RecordLosses, StoreTypeOK
  <2> QED
    BY <1>0, <1>7, <2>1, <2>2, SignJwtType
       DEF IssueSession, OpenSession, Done, Goto
<1>8. ASSUME NEW r \in Request, NEW t \in TokenId, NEW n \in TokenId,
             RefreshRotate(r, t, n)
      PROVE  SessionsTypeOK'
  BY <1>0, <1>8 DEF RefreshRotate, Goto, Idle, ReqState, historyVars, StoreTypeOK
<1>9. ASSUME NEW t \in TokenId, RefreshReplay(t) PROVE SessionsTypeOK'
  BY <1>0, <1>9 DEF RefreshReplay, authVars, TokensOf, Stored
<1>10. ASSUME NEW r \in Request, RefreshMint(r) PROVE SessionsTypeOK'
  <2>1. PICK u \in Accounts : SignJwt(users[u].id, users[u].role)
    BY <1>10 DEF RefreshMint
  <2> QED
    BY <1>0, <1>10, <2>1, AccountsHaveIds, SignJwtType
       DEF RefreshMint, Done, Goto, historyVars, Accounts
<1>11. ASSUME NEW r \in Request, RefreshOrphan(r) PROVE SessionsTypeOK'
  BY <1>0, <1>11 DEF RefreshOrphan, Goto, Idle, ReqState, historyVars
<1>12. ASSUME NEW r \in Request, NEW t \in TokenId, LogoutVerify(r, t)
       PROVE  SessionsTypeOK'
  <2>1. [Idle EXCEPT !.pc = "revoke", !.tok = t] \in ReqState
    BY DEF Idle, ReqState
  <2>2. req' \in [Request -> ReqState]
    BY <1>12, <2>1 DEF LogoutVerify, Goto
  <2>3. loggedOut' \in SUBSET TokenId
    BY <1>12 DEF LogoutVerify
  <2> QED
    BY <1>0, <1>12, <2>2, <2>3 DEF LogoutVerify
<1>13. ASSUME NEW r \in Request, LogoutRevoke(r) PROVE SessionsTypeOK'
  BY <1>0, <1>13 DEF LogoutRevoke, ReqOK, Stored, Done, Goto
<1>14. ASSUME ManageUsers, users' \in [Username -> Account \cup {NoAccount}]
       PROVE  SessionsTypeOK'
  BY <1>0, <1>14 DEF ManageUsers, RecordLosses, StoreTypeOK
<1>15. ASSUME NEW u \in Managed, NEW i \in UserId, NEW x \in Role,
              NEW p \in Password, NEW e \in BOOLEAN,
              create_user(u, [id |-> i, role |-> x, enabled |-> e, password |-> p])
       PROVE  SessionsTypeOK'
  BY <1>14, <1>15 DEF create_user, Account
<1>16. ASSUME NEW u \in Managed, NEW x \in Role, NEW p \in Password,
              NEW e \in BOOLEAN, update_user(u, x, p, e)
       PROVE  SessionsTypeOK'
  <2>1. users[u] \in Account
    BY <1>16, AccountsHaveIds DEF update_user
  <2>2. users' \in [Username -> Account \cup {NoAccount}]
    BY <1>16, <2>1 DEF update_user, Account
  <2> QED BY <1>14, <1>16, <2>2 DEF update_user
<1>17. ASSUME NEW u \in Managed, delete_user(u) PROVE SessionsTypeOK'
  <2>1. users' \in [Username -> Account \cup {NoAccount}]
    BY <1>17 DEF delete_user
  <2> QED BY <1>14, <1>17, <2>1 DEF delete_user
<1>18. ASSUME Tick /\ UNCHANGED <<storeVars, authVars, historyVars>>
       PROVE  SessionsTypeOK'
  BY <1>0, <1>18 DEF authVars, historyVars
<1>19. ASSUME NEW u \in Username, NEW p \in Password, NEW n \in TokenId,
              login(u, p, n)
       PROVE  SessionsTypeOK'
  BY <1>2, <1>19 DEF login
<1>20. ASSUME NEW u \in Username, NEW n \in TokenId, login_complete(u, n)
       PROVE  SessionsTypeOK'
  BY <1>2, <1>20 DEF login_complete
<1> HIDE SessionsAssumption DEF SessionsInv, SessionsTypeOK
<1> QED
  BY <1>1, <1>3, <1>4, <1>5, <1>6, <1>7, <1>8, <1>9, <1>10, <1>11, <1>12,
     <1>13, <1>15, <1>16, <1>17, <1>18, <1>19, <1>20 DEF SessionsNext

\* Each step keeps what the handlers remember true: a request that goes on
\* carries what was just read, and every other request keeps its own state
\* over a store that loses no record.
LEMMA HandlersKeepReqs ==
  ASSUME SessionsInv, [SessionsNext]_sessionVars, Stored \subseteq Stored'
  PROVE  ReqOK'
<1> USE SessionsAssumption DEF SessionsInv, ReqOK
<1>0. ASSUME NEW r \in Request, NEW x, Goto(r, x),
             x.pc \in {"create", "issue", "mint"} => x.id \in UserId,
             x.pc = "revoke" => x.tok \in Stored'
      PROVE  ReqOK'
  BY <1>0 DEF Goto, SessionsTypeOK
<1>1. ASSUME UNCHANGED req PROVE ReqOK'
  BY <1>1
<1>2. ASSUME NEW r \in Request, Done(r) PROVE ReqOK'
  BY <1>0, <1>2 DEF Done, Idle
<1>3. ASSUME NEW r \in Request, NEW u \in Username, LdapLookup(r, u) PROVE ReqOK'
  <2>1. CASE u \in Accounts
    BY <1>0, <1>3, <2>1, AccountsHaveIds DEF LdapLookup, Idle
  <2>2. CASE u \notin Accounts
    BY <1>0, <1>3, <2>2 DEF LdapLookup, Idle
  <2> QED BY <2>1, <2>2
<1>4. ASSUME NEW r \in Request, LdapCreate(r) PROVE ReqOK'
  <2> DEFINE next == [req[r] EXCEPT !.pc = "issue"]
  <2>1. Goto(r, next) /\ req[r].pc = "create"
    BY <1>4 DEF LdapCreate
  <2>2. req[r].id \in UserId /\ req[r] \in ReqState
    BY <2>1 DEF SessionsTypeOK
  <2>3. next.pc = "issue" /\ next.id \in UserId
    BY <2>2 DEF ReqState
  <2> HIDE DEF next
  <2> QED BY <1>0, <2>1, <2>3
<1>5. ASSUME NEW r \in Request, NEW s \in OidcSubjects, OidcResolve(r, s)
      PROVE  ReqOK'
  BY <1>0, <1>5 DEF OidcResolve, Idle
<1>6. ASSUME NEW r \in Request, NEW t \in TokenId, NEW n \in TokenId,
             RefreshRotate(r, t, n)
      PROVE  ReqOK'
  <2>1. user_id[t] \in UserId
    BY <1>6 DEF RefreshRotate, RotateOk, RotateRejects, Stored, StoreIndInv,
         StoreTypeOK
  <2> QED
    BY <1>0, <1>6, <2>1 DEF RefreshRotate, Idle
<1>7. ASSUME NEW r \in Request, RefreshOrphan(r) PROVE ReqOK'
  BY <1>0, <1>7 DEF RefreshOrphan, Idle
<1>8. ASSUME NEW r \in Request, NEW t \in TokenId, LogoutVerify(r, t) PROVE ReqOK'
  BY <1>0, <1>1, <1>8 DEF LogoutVerify, Idle
<1>9. ASSUME NEW r \in Request,
             \/ \E n \in TokenId : IssueSession(r, n)
             \/ RefreshMint(r) \/ LogoutRevoke(r)
      PROVE  ReqOK'
  BY <1>2, <1>9 DEF IssueSession, RefreshMint, LogoutRevoke
<1>10. ASSUME \/ \E u \in Username, p \in Password, n \in TokenId : login(u, p, n)
              \/ \E u \in Username, n \in TokenId : login_complete(u, n)
              \/ \E i \in UserId : register_complete(i)
              \/ \E t \in TokenId : RefreshReplay(t)
              \/ ManageUsers
              \/ UNCHANGED authVars
              \/ UNCHANGED sessionVars
       PROVE  ReqOK'
  <2>1. UNCHANGED req
    BY <1>10 DEF login, login_complete, register_complete, RefreshReplay,
         ManageUsers, authVars, sessionVars
  <2> QED BY <1>1, <2>1
<1> HIDE SessionsAssumption DEF SessionsInv, ReqOK
<1> QED
  BY <1>3, <1>4, <1>5, <1>6, <1>7, <1>8, <1>9, <1>10
     DEF SessionsNext, create_user, update_user, delete_user

\* Each step keeps the dead dead, and adds only the dead to them.
LEMMA HandlersKeepHistory ==
  ASSUME SessionsInv, [SessionsNext]_sessionVars, [StoreNext]_refreshVars
  PROVE  HistoryOK'
<1> USE DEF SessionsInv, HistoryOK
<1>1. /\ revoked \subseteq revoked' /\ Stored \subseteq Stored'
      /\ \A t \in Stored : expires_at'[t] = expires_at[t]
      /\ now \in Nat /\ now' \in Nat /\ now <= now'
  BY StoreStepKeeps DEF Stored, StoreIndInv, StoreTypeOK
<1>2. \A t \in Stored : Expired(t) => Expired(t)'
  BY <1>1 DEF Expired, StoreIndInv, StoreTypeOK, Stored
<1>3. ASSUME UNCHANGED <<loggedOut, condemned>> PROVE HistoryOK'
  BY <1>1, <1>2, <1>3
<1>4. ASSUME NEW t \in TokenId, RefreshReplay(t) PROVE HistoryOK'
  BY <1>1, <1>2, <1>4 DEF RefreshReplay, RotateReplay, revoke_all_for_user
<1>5. ASSUME NEW r \in Request, NEW t \in TokenId, LogoutVerify(r, t)
      PROVE  HistoryOK'
  BY <1>1, <1>2, <1>5 DEF LogoutVerify, Verifies
<1>6. ASSUME NEW r \in Request, LogoutRevoke(r) PROVE HistoryOK'
  BY <1>1, <1>2, <1>6 DEF LogoutRevoke, revoke
<1>7. ASSUME \/ ManageUsers
             \/ Tick /\ UNCHANGED <<storeVars, authVars, historyVars>>
             \/ UNCHANGED sessionVars
      PROVE  HistoryOK'
  BY <1>3, <1>7 DEF historyVars, ManageUsers, sessionVars
<1>8. ASSUME \/ \E u \in Username, p \in Password, n \in TokenId : login(u, p, n)
             \/ \E u \in Username, n \in TokenId : login_complete(u, n)
             \/ \E r \in Request, n \in TokenId : IssueSession(r, n)
             \/ \E i \in UserId : register_complete(i)
             \/ \E r \in Request, u \in Username : LdapLookup(r, u)
             \/ \E r \in Request, s \in OidcSubjects : OidcResolve(r, s)
             \/ \E r \in Request, t, n \in TokenId : RefreshRotate(r, t, n)
             \/ \E r \in Request :
                  LdapCreate(r) \/ RefreshMint(r) \/ RefreshOrphan(r)
      PROVE  UNCHANGED <<loggedOut, condemned>>
  BY <1>8 DEF login, login_complete, IssueSession, OpenSession,
       register_complete, LdapLookup, OidcResolve, RefreshRotate, LdapCreate,
       RefreshMint, RefreshOrphan, historyVars
<1> HIDE DEF SessionsInv, HistoryOK
<1> QED
  BY <1>3, <1>4, <1>5, <1>6, <1>7, <1>8
     DEF SessionsNext, create_user, update_user, delete_user

\* Every step preserves the invariant.
LEMMA SessionsNextInv ==
  SessionsInv /\ [SessionsNext]_sessionVars => SessionsInv'
<1> SUFFICES ASSUME SessionsInv, [SessionsNext]_sessionVars PROVE SessionsInv'
  OBVIOUS
<1>1. [StoreNext]_refreshVars
  BY HandlersAreStoreSteps
<1>2. StoreIndInv'
  BY <1>1, StoreNextInv DEF SessionsInv
<1>3. Stored \subseteq Stored'
  BY <1>1, StoreStepKeeps DEF SessionsInv, Stored
<1> QED
  BY <1>1, <1>2, <1>3, HandlersKeepTypes, HandlersKeepReqs, HandlersKeepHistory
     DEF SessionsInv

-----------------------------------------------------------------------------

\* The invariant holds in every reachable state.
THEOREM SessionsInvariant == SessionsSpec => []SessionsInv
BY SessionsInitInv, SessionsNextInv, PTL DEF SessionsSpec

\* Type correctness of accounts, tokens and handlers in flight.
THEOREM SessionsTypeCorrect == SessionsSpec => []SessionsTypeOK
<1>1. SessionsInv => SessionsTypeOK
  BY DEF SessionsInv
<1> QED
  BY <1>1, SessionsInvariant, PTL

\* The handlers implement the refresh store: every theorem about StoreSpec is
\* one about the running system.
THEOREM HandlersImplementStore == SessionsSpec => ImplementsStore
<1>1. SessionsInit => StoreInit
  BY DEF SessionsInit
<1> QED
  BY <1>1, HandlersAreStoreSteps, SessionsInvariant, PTL
     DEF SessionsSpec, StoreSpec, ImplementsStore

\* In the running system, at most one token of a rotation chain is live.
THEOREM RotationIsLinearForHandlers == SessionsSpec => []OneLivePerFamily
<1>1. SessionsInv => OneLivePerFamily
  BY DEF SessionsInv, StoreIndInv
<1> QED
  BY <1>1, SessionsInvariant, PTL

\* A token whose logout was answered is dead, whatever ran in between.
THEOREM LoggedOutForGood == SessionsSpec => []LogoutIsFinal
<1>1. SessionsInv => LogoutIsFinal
  BY DEF SessionsInv, HistoryOK, LogoutIsFinal, Verifies
<1> QED
  BY <1>1, SessionsInvariant, PTL

\* The tokens lost to a replay stay dead.
THEOREM ReplayIsFinal == SessionsSpec => []ReplayEndsEverySession
<1>1. SessionsInv => ReplayEndsEverySession
  BY DEF SessionsInv, HistoryOK, ReplayEndsEverySession, Verifies
<1> QED
  BY <1>1, SessionsInvariant, PTL

-----------------------------------------------------------------------------
(* Roles that were lost.                                                   *)

\* When that id last had that role, or a login that carried it last ran.
LastHeld(i, x) == IF Current(i, x) THEN now ELSE held[i][x]

\* What is signed expires one lifetime later at most.
JwtBounded ==
  \A i \in UserId, x \in Role :
    jwt_until[i][x] > 0 => jwt_until[i][x] <= LastHeld(i, x) + JwtLife

\* A loss is never in the future.
RoleInv ==
  /\ \A i \in UserId, x \in Role : held[i][x] <= now
  /\ JwtBounded

\* A step that loses no role, or records the ones it loses, makes none of them
\* held less recently.
LEMMA LastHeldGrows ==
  ASSUME SessionsTypeOK, RoleInv, now' \in Nat, now <= now',
         \/ /\ UNCHANGED held
            /\ \A i \in UserId, x \in Role : Current(i, x) => Current(i, x)'
         \/ RecordLosses /\ now' = now,
         NEW i \in UserId, NEW x \in Role
  PROVE  /\ LastHeld(i, x)' \in Nat /\ LastHeld(i, x) <= LastHeld(i, x)'
         /\ now' = now /\ Current(i, x) => LastHeld(i, x)' = now
         /\ held'[i][x] <= now'
<1>1. now \in Nat /\ held[i][x] \in Nat /\ held[i][x] <= now
  BY DEF SessionsTypeOK, StoreTypeOK, RoleInv
<1>2. CASE UNCHANGED held /\ (Current(i, x) => Current(i, x)')
  BY <1>1, <1>2 DEF LastHeld
<1>3. CASE RecordLosses /\ now' = now
  <2>1. held'[i][x] = IF Current(i, x) /\ ~Current(i, x)' THEN now ELSE held[i][x]
    BY <1>3 DEF RecordLosses
  <2> QED
    BY <1>1, <1>3, <2>1 DEF LastHeld
<1> QED
  BY <1>2, <1>3

\* If such a step signs, it is a role that its id has at that moment, or that a
\* login under way has read.
LEMMA SignedRolesAreBounded ==
  ASSUME SessionsTypeOK, RoleInv, now' \in Nat, now <= now',
         \/ /\ UNCHANGED held
            /\ \A i \in UserId, x \in Role : Current(i, x) => Current(i, x)'
         \/ RecordLosses /\ now' = now,
         \/ UNCHANGED jwt_until
         \/ \E id \in UserId, role \in Role :
              SignJwt(id, role) /\ Current(id, role) /\ now' = now
  PROVE  RoleInv'
<1>1. ASSUME NEW i \in UserId, NEW x \in Role
      PROVE  /\ held'[i][x] <= now'
             /\ jwt_until'[i][x] > 0 =>
                  jwt_until'[i][x] <= LastHeld(i, x)' + JwtLife
  <2>1. /\ JwtLife \in Nat /\ now \in Nat /\ jwt_until[i][x] \in Nat
        /\ LastHeld(i, x) \in Nat
    BY SessionsAssumption DEF SessionsTypeOK, StoreTypeOK, LastHeld
  <2>2. /\ LastHeld(i, x)' \in Nat /\ LastHeld(i, x) <= LastHeld(i, x)'
        /\ now' = now /\ Current(i, x) => LastHeld(i, x)' = now
        /\ held'[i][x] <= now'
    BY LastHeldGrows
  <2>3. jwt_until[i][x] > 0 => jwt_until[i][x] <= LastHeld(i, x) + JwtLife
    BY DEF RoleInv, JwtBounded
  <2>4. CASE jwt_until'[i][x] = jwt_until[i][x]
    BY <2>1, <2>2, <2>3, <2>4
  <2>5. CASE jwt_until'[i][x] = now + JwtLife /\ Current(i, x) /\ now' = now
    BY <2>1, <2>2, <2>5
  <2>6. ASSUME NEW id \in UserId, NEW role \in Role, SignJwt(id, role),
               Current(id, role), now' = now
        PROVE  \/ jwt_until'[i][x] = jwt_until[i][x]
               \/ /\ jwt_until'[i][x] = now + JwtLife
                  /\ Current(i, x) /\ now' = now
    <3>1. CASE i = id /\ x = role
      BY <2>6, <3>1 DEF SignJwt, SessionsTypeOK
    <3>2. CASE ~(i = id /\ x = role)
      BY <2>6, <3>2 DEF SignJwt, SessionsTypeOK
    <3> QED
      BY <3>1, <3>2
  <2> QED
    BY <2>2, <2>4, <2>5, <2>6
<1> QED
  BY <1>1 DEF RoleInv, JwtBounded

\* A login under way goes on until it signs what it carries: no other step
\* takes a role out of hand.
LEMMA RolesStayInHand ==
  ASSUME SessionsTypeOK, NEW r \in Request, NEW next, Goto(r, next),
         req[r].pc \in {"create", "issue"} =>
           next.pc = "issue" /\ next.id = req[r].id /\ next.role = req[r].role,
         NEW i \in UserId, NEW x \in Role, InHand(i, x)
  PROVE  InHand(i, x)'
<1>1. PICK q \in Request :
        req[q].pc \in {"create", "issue"} /\ req[q].id = i /\ req[q].role = x
  BY DEF InHand
<1>2. CASE q = r
  <2>1. req'[r] = next
    BY DEF Goto, SessionsTypeOK
  <2> QED
    BY <1>1, <1>2, <2>1 DEF InHand
<1>3. CASE q # r
  <2>1. req'[q] = req[q]
    BY <1>3 DEF Goto, SessionsTypeOK
  <2> QED
    BY <1>1, <2>1 DEF InHand
<1> QED
  BY <1>2, <1>3

\* Accounts that keep their ids and roles keep them held.
LEMMA RolesStayHeld ==
  ASSUME NEW i \in UserId, NEW x \in Role, Holds(i, x),
         \A u \in Accounts : u \in Accounts' /\ users'[u] = users[u],
         oidc_users \subseteq oidc_users'
  PROVE  Holds(i, x)'
BY DEF Holds

\* Every step preserves it.
LEMMA RoleNextInv ==
  ASSUME SessionsInv, RoleInv, [SessionsNext]_sessionVars
  PROVE  RoleInv'
<1> USE DEF SessionsInv
<1>0. now \in Nat
  BY DEF SessionsTypeOK, StoreTypeOK
\* A handler goes on, and no role is lost or signed.
<1>1. ASSUME NEW r \in Request, NEW next, Goto(r, next),
             req[r].pc \in {"create", "issue"} =>
               next.pc = "issue" /\ next.id = req[r].id /\ next.role = req[r].role,
             \A u \in Accounts : u \in Accounts' /\ users'[u] = users[u],
             oidc_users \subseteq oidc_users', UNCHANGED <<now, held>>,
             \/ UNCHANGED jwt_until
             \/ \E id \in UserId, role \in Role :
                  SignJwt(id, role) /\ Current(id, role)
      PROVE  RoleInv'
  <2>1. \A i \in UserId, x \in Role : Current(i, x) => Current(i, x)'
    BY <1>1, RolesStayInHand, RolesStayHeld DEF Current
  <2> QED
    BY <1>0, <1>1, <2>1, SignedRolesAreBounded
\* No handler goes on.
<1>2. ASSUME UNCHANGED <<users, oidc_users, req, held>>,
             now' \in Nat, now <= now',
             \/ UNCHANGED jwt_until
             \/ /\ now' = now
                /\ \E id \in UserId, role \in Role :
                     SignJwt(id, role) /\ Current(id, role)
      PROVE  RoleInv'
  <2>1. \A i \in UserId, x \in Role : Current(i, x) => Current(i, x)'
    BY <1>2 DEF Current, Holds, InHand, Accounts
  <2> QED
    BY <1>2, <2>1, SignedRolesAreBounded
\* A login that keeps the lock signs what the account has.
<1>3. ASSUME NEW u \in Username, u \in Accounts, NEW n \in TokenId,
             OpenSession(users[u].id, users[u].role, n),
             UNCHANGED <<users, oidc_users, req, held>>
      PROVE  RoleInv'
  <2>1. /\ users[u].id \in UserId /\ users[u].role \in Role
        /\ Current(users[u].id, users[u].role)
    BY <1>3, AccountsHaveIds DEF Current, Holds
  <2> QED
    BY <1>0, <1>2, <1>3, <2>1 DEF OpenSession
<1>4. ASSUME \/ \E u \in Username, p \in Password, n \in TokenId : login(u, p, n)
             \/ \E u \in Username, n \in TokenId : login_complete(u, n)
      PROVE  RoleInv'
  BY <1>3, <1>4 DEF login, login_complete
\* One that let go of it signs what it carries.
<1>5. ASSUME NEW r \in Request, NEW n \in TokenId, IssueSession(r, n)
      PROVE  RoleInv'
  <2>1. req[r].id \in UserId /\ req[r].role \in Role
    BY <1>5 DEF IssueSession, ReqOK, SessionsTypeOK, ReqState
  <2>2. Current(req[r].id, req[r].role)
    BY <1>5 DEF IssueSession, Current, InHand
  <2>3. /\ SignJwt(req[r].id, req[r].role) /\ now' = now /\ RecordLosses
    BY <1>5 DEF IssueSession, OpenSession
  <2> QED
    BY <1>0, <2>1, <2>2, <2>3, SignedRolesAreBounded
<1>6. ASSUME NEW r \in Request, RefreshMint(r) PROVE RoleInv'
  <2>1. PICK u \in Accounts : SignJwt(users[u].id, users[u].role)
    BY <1>6 DEF RefreshMint
  <2>2. /\ users[u].id \in UserId /\ users[u].role \in Role
        /\ Current(users[u].id, users[u].role)
    BY AccountsHaveIds DEF Accounts, Current, Holds
  <2>3. /\ Goto(r, Idle) /\ req[r].pc = "mint"
        /\ UNCHANGED <<now, users, oidc_users, held>>
    BY <1>6 DEF RefreshMint, Done, refreshVars, historyVars
  <2> QED
    BY <1>1, <2>1, <2>2, <2>3 DEF Accounts
<1>7. ASSUME NEW r \in Request, LdapCreate(r) PROVE RoleInv'
  <2> DEFINE next == [req[r] EXCEPT !.pc = "issue"]
  <2>1. Goto(r, next) /\ UNCHANGED <<now, oidc_users, jwt_until, held>>
    BY <1>7 DEF LdapCreate, refreshVars, historyVars
  <2>2. next.pc = "issue" /\ next.id = req[r].id /\ next.role = req[r].role
    BY DEF SessionsTypeOK, ReqState
  <2>3. \A u \in Accounts : u \in Accounts' /\ users'[u] = users[u]
    BY <1>7 DEF LdapCreate, Accounts, SessionsTypeOK
  <2> HIDE DEF next
  <2> QED
    BY <1>1, <2>1, <2>2, <2>3
<1>8. ASSUME NEW r \in Request,
             \/ \E u \in Username : LdapLookup(r, u)
             \/ \E s \in OidcSubjects : OidcResolve(r, s)
             \/ \E t, n \in TokenId : RefreshRotate(r, t, n)
             \/ RefreshOrphan(r)
             \/ LogoutRevoke(r)
      PROVE  RoleInv'
  <2>1. PICK next : Goto(r, next)
    BY <1>8 DEF LdapLookup, OidcResolve, RefreshRotate, RefreshOrphan,
       LogoutRevoke, Done
  <2>2. req[r].pc \notin {"create", "issue"}
    BY <1>8 DEF LdapLookup, OidcResolve, RefreshRotate, RefreshOrphan,
       LogoutRevoke, Free
  <2>3. /\ UNCHANGED <<now, users, jwt_until, held>>
        /\ oidc_users \subseteq oidc_users'
    BY <1>8 DEF LdapLookup, OidcResolve, RefreshRotate, RefreshOrphan,
       LogoutRevoke, refreshVars, historyVars
  <2> QED
    BY <1>1, <2>1, <2>2, <2>3 DEF Accounts
<1>9. ASSUME NEW r \in Request, NEW t \in TokenId, LogoutVerify(r, t)
      PROVE  RoleInv'
  <2>1. UNCHANGED <<now, users, oidc_users, jwt_until, held>> /\ Free(r)
    BY <1>9 DEF LogoutVerify, refreshVars
  <2>2. CASE UNCHANGED req
    BY <1>0, <1>2, <2>1, <2>2
  <2>3. CASE Goto(r, [Idle EXCEPT !.pc = "revoke", !.tok = t])
    BY <1>1, <2>1, <2>3 DEF Free, Accounts
  <2> QED
    BY <1>9, <2>2, <2>3 DEF LogoutVerify
<1>10. ASSUME \/ \E i \in UserId : register_complete(i)
              \/ \E t \in TokenId : RefreshReplay(t)
              \/ UNCHANGED sessionVars
       PROVE  RoleInv'
  BY <1>0, <1>2, <1>10 DEF register_complete, RefreshReplay, sessionVars,
     authVars, historyVars, refreshVars
<1>11. ASSUME Tick /\ UNCHANGED <<storeVars, authVars, historyVars>>
       PROVE  RoleInv'
  BY <1>0, <1>2, <1>11 DEF Tick, authVars, historyVars
\* What an administrator takes away is recorded.
<1>12. ASSUME ManageUsers PROVE RoleInv'
  BY <1>0, <1>12, SignedRolesAreBounded DEF ManageUsers, refreshVars
<1> HIDE DEF SessionsInv
<1> QED
  BY <1>4, <1>5, <1>6, <1>7, <1>8, <1>9, <1>10, <1>11, <1>12
     DEF SessionsNext, create_user, update_user, delete_user

\* require_auth honours no role for longer than one JWT lifetime and the leeway
\* after its id lost it, or a directory login that carried it ended, whatever an
\* administrator does and when.
THEOREM LostRolesEnd == SessionsSpec => []StaleRoleIsBounded
<1>1. SessionsInit => RoleInv
  BY DEF SessionsInit, StoreInit, RoleInv, JwtBounded
<1>2. SessionsInv /\ RoleInv /\ [SessionsNext]_sessionVars => RoleInv'
  BY RoleNextInv
<1>3. SessionsInv /\ RoleInv => StaleRoleIsBounded
  <2> SUFFICES ASSUME SessionsInv, RoleInv, NEW i \in UserId, NEW x \in Role,
                      Honoured(i, x)
               PROVE  now <= LastHeld(i, x) + JwtLife + JwtLeeway
    BY DEF StaleRoleIsBounded, LastHeld
  <2>1. /\ JwtLife \in Nat /\ JwtLeeway \in Nat /\ now \in Nat
        /\ jwt_until[i][x] \in Nat /\ LastHeld(i, x) \in Nat
    BY SessionsAssumption DEF SessionsInv, SessionsTypeOK, StoreTypeOK, LastHeld
  <2>2. jwt_until[i][x] <= LastHeld(i, x) + JwtLife
    BY DEF RoleInv, JwtBounded, Honoured
  <2> QED
    BY <2>1, <2>2 DEF Honoured
<1> QED
  BY <1>1, <1>2, <1>3, SessionsInvariant, PTL DEF SessionsSpec

-----------------------------------------------------------------------------
(* Sessions and the accounts behind them, for as long as nobody deletes an  *)
(* account, or creates under a directory user's name one with another id:  *)
(* ldap_login would go on with the account that it meant to create.        *)

AccountsStay ==
  /\ Accounts \subseteq Accounts'
  /\ \A u \in LdapUsers :
       u \in Accounts' \ Accounts => users'[u].id = ldap_user_id[u]

HasAccount(id) == (\E u \in Accounts : users[u].id = id) \/ id \in oidc_users

\* The same of the next state, for an id that is taken from this one.
WillHaveAccount(id) ==
  (\E u \in Accounts' : users'[u].id = id) \/ id \in oidc_users'

\* A handler that is about to create an account knows the id that the name will
\* have, whoever creates it first; one that is about to open a session does so
\* for an account that is there.
LoginsOK ==
  \A r \in Request :
    /\ req[r].pc = "create" =>
         /\ req[r].name \in LdapUsers
         /\ req[r].id = ldap_user_id[req[r].name]
         /\ req[r].name \in Accounts => users[req[r].name].id = req[r].id
    /\ req[r].pc = "issue" => HasAccount(req[r].id)

AccountInv == LoginsOK /\ EverySessionHasAnAccount

\* No step changes the id of an account that stays, or forgets a provider's user.
LEMMA IdsAreKept ==
  ASSUME SessionsTypeOK, [SessionsNext]_sessionVars
  PROVE  /\ \A u \in Accounts \cap Accounts' : users'[u].id = users[u].id
         /\ oidc_users \subseteq oidc_users'
<1>1. ASSUME UNCHANGED users PROVE \A u \in Accounts : users'[u].id = users[u].id
  BY <1>1
<1>2. ASSUME NEW r \in Request, LdapCreate(r)
      PROVE  \A u \in Accounts : users'[u].id = users[u].id
  BY <1>2 DEF LdapCreate, SessionsTypeOK, Accounts
<1>3. ASSUME NEW v \in Username, NEW a, create_user(v, a)
      PROVE  \A u \in Accounts : users'[u].id = users[u].id
  BY <1>3 DEF create_user, SessionsTypeOK, Accounts
<1>4. ASSUME NEW v \in Username, NEW x \in Role, NEW p \in Password,
             NEW e \in BOOLEAN, update_user(v, x, p, e)
      PROVE  \A u \in Accounts : users'[u].id = users[u].id
  <2>1. users[v] \in Account
    BY <1>4, AccountsHaveIds DEF update_user
  <2> QED
    BY <1>4, <2>1 DEF update_user, SessionsTypeOK, Accounts, Account
<1>5. ASSUME NEW v \in Username, delete_user(v)
      PROVE  \A u \in Accounts \cap Accounts' : users'[u].id = users[u].id
  BY <1>5 DEF delete_user, SessionsTypeOK, Accounts
<1>6. oidc_users \subseteq oidc_users'
  BY DEF SessionsNext, login, register_complete, login_complete, LdapLookup,
     LdapCreate, OidcResolve, IssueSession, RefreshRotate, RefreshReplay,
     RefreshMint, RefreshOrphan, LogoutVerify, LogoutRevoke, create_user,
     update_user, delete_user, ManageUsers, authVars, sessionVars
<1>7. ASSUME \/ \E u \in Username, p \in Password, n \in TokenId : login(u, p, n)
             \/ \E i \in UserId : register_complete(i)
             \/ \E u \in Username, n \in TokenId : login_complete(u, n)
             \/ \E r \in Request, u \in Username : LdapLookup(r, u)
             \/ \E r \in Request, s \in OidcSubjects : OidcResolve(r, s)
             \/ \E r \in Request, n \in TokenId : IssueSession(r, n)
             \/ \E r \in Request, t, n \in TokenId : RefreshRotate(r, t, n)
             \/ \E t \in TokenId : RefreshReplay(t)
             \/ \E r \in Request : RefreshMint(r)
             \/ \E r \in Request : RefreshOrphan(r)
             \/ \E r \in Request, t \in TokenId : LogoutVerify(r, t)
             \/ \E r \in Request : LogoutRevoke(r)
             \/ Tick /\ UNCHANGED <<storeVars, authVars, historyVars>>
             \/ UNCHANGED sessionVars
      PROVE  UNCHANGED users
  BY <1>7 DEF login, register_complete, login_complete, LdapLookup,
     OidcResolve, IssueSession, RefreshRotate, RefreshReplay, RefreshMint,
     RefreshOrphan, LogoutVerify, LogoutRevoke, authVars, sessionVars
<1>8. Managed \subseteq Username
  BY SessionsAssumption
<1> QED
  BY <1>1, <1>2, <1>3, <1>4, <1>5, <1>6, <1>7, <1>8 DEF SessionsNext

\* Whoever has an account keeps it.
LEMMA AccountsAreKept ==
  ASSUME SessionsTypeOK, [SessionsNext]_sessionVars, AccountsStay,
         NEW id, HasAccount(id)
  PROVE  WillHaveAccount(id)
<1>1. ASSUME NEW u \in Accounts, users[u].id = id
      PROVE  \E v \in Accounts' : users'[v].id = id
  <2>1. u \in Accounts' /\ users'[u].id = id
    BY <1>1, IdsAreKept DEF AccountsStay
  <2> QED BY <2>1
<1>2. ASSUME id \in oidc_users PROVE id \in oidc_users'
  BY <1>2, IdsAreKept
<1> QED BY <1>1, <1>2 DEF HasAccount, WillHaveAccount

\* The handlers keep what they rely on.
LEMMA LoginsStayOK ==
  ASSUME SessionsInv, LoginsOK, [SessionsNext]_sessionVars, AccountsStay
  PROVE  LoginsOK'
<1> USE DEF SessionsInv
<1> DEFINE CreateOK(x) ==
             x.pc = "create" =>
               /\ x.name \in LdapUsers /\ x.id = ldap_user_id[x.name]
               /\ x.name \in Accounts' => users'[x.name].id = x.id
           IssueOK(x) == x.pc = "issue" => WillHaveAccount(x.id)
<1>1. \A q \in Request : CreateOK(req[q]) /\ IssueOK(req[q])
  <2> SUFFICES ASSUME NEW q \in Request
               PROVE  CreateOK(req[q]) /\ IssueOK(req[q])
    OBVIOUS
  <2>1. CreateOK(req[q])
    BY IdsAreKept DEF LoginsOK, AccountsStay
  <2>2. IssueOK(req[q])
    BY AccountsAreKept DEF LoginsOK
  <2> QED BY <2>1, <2>2
<1>2. ASSUME UNCHANGED req PROVE LoginsOK'
  BY <1>1, <1>2 DEF LoginsOK, HasAccount, WillHaveAccount
<1>3. ASSUME NEW r \in Request, NEW x, Goto(r, x), CreateOK(x), IssueOK(x)
      PROVE  LoginsOK'
  <2>1. \A q \in Request : CreateOK(req'[q]) /\ IssueOK(req'[q])
    BY <1>1, <1>3 DEF Goto, SessionsTypeOK
  <2> QED BY <2>1 DEF LoginsOK, HasAccount, WillHaveAccount
<1>4. ASSUME NEW r \in Request, NEW x, Goto(r, x), x.pc \notin {"create", "issue"}
      PROVE  LoginsOK'
  BY <1>3, <1>4
<1>5. ASSUME NEW r \in Request, NEW u \in Username, LdapLookup(r, u)
      PROVE  LoginsOK'
  <2>1. UNCHANGED users /\ u \in LdapUsers
    BY <1>5 DEF LdapLookup
  <2>2. CASE u \in Accounts
    <3>1. HasAccount(users[u].id)
      BY <2>2 DEF HasAccount
    <3> QED
      BY <1>3, <1>5, <2>2, <3>1, AccountsAreKept DEF LdapLookup, Idle
  <2>3. CASE u \notin Accounts
    <3>1. u \notin Accounts'
      BY <2>1, <2>3 DEF Accounts
    <3> QED
      BY <1>3, <1>5, <2>1, <2>3, <3>1 DEF LdapLookup, Idle
  <2> QED BY <2>2, <2>3
<1>6. ASSUME NEW r \in Request, LdapCreate(r) PROVE LoginsOK'
  <2> DEFINE u == req[r].name
  <2>1. /\ u \in LdapUsers /\ req[r].id = ldap_user_id[u]
        /\ u \in Accounts' => users'[u].id = req[r].id
    BY <1>1, <1>6 DEF LdapCreate
  <2>2. u \in Username /\ req[r] \in ReqState /\ req[r].id \in UserId
    BY <1>6, <2>1, SessionsAssumption DEF SessionsTypeOK, LdapCreate, ReqOK
  <2>3. u \in Accounts'
    <3>1. CASE u \in Accounts
      BY <3>1 DEF AccountsStay
    <3>2. CASE u \notin Accounts
      <4> DEFINE new == [id |-> req[r].id, role |-> req[r].role,
                         enabled |-> TRUE, password |-> Unguessable]
      <4>1. req[r].id \in UserId /\ req[r].role \in Role
        BY <2>2 DEF ReqState
      <4>2. new \in Account
        BY <4>1 DEF Account
      <4>3. new # NoAccount
        BY <4>2, SessionsAssumption
      <4>4. users' = [users EXCEPT ![u] = new]
        BY <1>6, <3>2 DEF LdapCreate
      <4> QED
        BY <2>2, <4>3, <4>4 DEF Accounts, SessionsTypeOK
    <3> QED BY <3>1, <3>2
  <2>4. WillHaveAccount(req[r].id)
    BY <2>1, <2>3 DEF WillHaveAccount
  <2> QED
    BY <1>3, <1>6, <2>2, <2>4 DEF LdapCreate, ReqState
<1>7. ASSUME NEW r \in Request, NEW s \in OidcSubjects, OidcResolve(r, s)
      PROVE  LoginsOK'
  <2>1. WillHaveAccount(s)
    BY <1>7 DEF OidcResolve, WillHaveAccount
  <2> QED
    BY <1>3, <1>7, <2>1 DEF OidcResolve, Idle
<1>8. ASSUME NEW r \in Request,
             \/ \E n \in TokenId : IssueSession(r, n)
             \/ \E t, n \in TokenId : RefreshRotate(r, t, n)
             \/ RefreshMint(r) \/ RefreshOrphan(r) \/ LogoutRevoke(r)
      PROVE  LoginsOK'
  BY <1>4, <1>8 DEF IssueSession, RefreshRotate, RefreshMint, RefreshOrphan,
     LogoutRevoke, Done, Idle
<1>9. ASSUME NEW r \in Request, NEW t \in TokenId, LogoutVerify(r, t)
      PROVE  LoginsOK'
  BY <1>2, <1>4, <1>9 DEF LogoutVerify, Idle
<1>10. ASSUME \/ \E u \in Username, p \in Password, n \in TokenId : login(u, p, n)
              \/ \E u \in Username, n \in TokenId : login_complete(u, n)
              \/ \E i \in UserId : register_complete(i)
              \/ \E t \in TokenId : RefreshReplay(t)
              \/ ManageUsers
              \/ UNCHANGED authVars
              \/ UNCHANGED sessionVars
       PROVE  LoginsOK'
  <2>1. UNCHANGED req
    BY <1>10 DEF login, login_complete, register_complete, RefreshReplay,
       ManageUsers, authVars, sessionVars
  <2> QED BY <1>2, <2>1
<1> HIDE DEF SessionsInv, CreateOK, IssueOK
<1> QED
  BY <1>5, <1>6, <1>7, <1>8, <1>9, <1>10
     DEF SessionsNext, create_user, update_user, delete_user

\* A token that comes into the store belongs to somebody who has an account.
LEMMA NewTokensHaveAccounts ==
  ASSUME SessionsInv, AccountInv, [SessionsNext]_sessionVars,
         NEW n \in Stored' \ revoked', n \notin Stored
  PROVE  HasAccount(user_id'[n])
<1> USE DEF SessionsInv
<1>0. n \in TokenId /\ user_id \in [TokenId -> UserId \cup {Nobody}]
  BY DEF Stored, SessionsTypeOK, StoreTypeOK
<1>1. ASSUME NEW u, NEW m \in TokenId, NEW head, Insert(u, m, head), HasAccount(u)
      PROVE  HasAccount(user_id'[n])
  <2>1. m = n
    BY <1>0, <1>1 DEF Insert, Stored
  <2> QED BY <1>0, <1>1, <2>1 DEF Insert
<1>2. ASSUME NEW u \in Accounts, NEW m \in TokenId, NEW role,
             OpenSession(users[u].id, role, m)
      PROVE  HasAccount(user_id'[n])
  <2>1. HasAccount(users[u].id)
    BY DEF HasAccount
  <2> QED
    BY <1>1, <1>2, <2>1 DEF OpenSession, issue
<1>3. ASSUME \/ \E u \in Username, p \in Password, m \in TokenId : login(u, p, m)
             \/ \E u \in Username, m \in TokenId : login_complete(u, m)
      PROVE  HasAccount(user_id'[n])
  BY <1>2, <1>3 DEF login, login_complete
<1>4. ASSUME NEW r \in Request, NEW m \in TokenId, IssueSession(r, m)
      PROVE  HasAccount(user_id'[n])
  BY <1>1, <1>4 DEF IssueSession, OpenSession, issue, AccountInv, LoginsOK
<1>5. ASSUME NEW r \in Request, NEW t \in TokenId, NEW m \in TokenId,
             RefreshRotate(r, t, m)
      PROVE  HasAccount(user_id'[n])
  <2>1. t \in Stored \ revoked /\ Insert(user_id[t], m, family[t])
    BY <1>5 DEF RefreshRotate, RotateOk, RotateRejects
  <2>2. HasAccount(user_id[t])
    BY <2>1 DEF AccountInv, EverySessionHasAnAccount, HasAccount
  <2> QED BY <1>1, <2>1, <2>2
<1>6. ASSUME UNCHANGED user_id PROVE FALSE
  BY <1>6 DEF Stored
<1>7. ASSUME \/ \E i \in UserId : register_complete(i)
             \/ \E r \in Request, u \in Username : LdapLookup(r, u)
             \/ \E r \in Request : LdapCreate(r)
             \/ \E r \in Request, s \in OidcSubjects : OidcResolve(r, s)
             \/ \E t \in TokenId : RefreshReplay(t)
             \/ \E r \in Request : RefreshMint(r)
             \/ \E r \in Request : RefreshOrphan(r)
             \/ \E r \in Request, t \in TokenId : LogoutVerify(r, t)
             \/ \E r \in Request : LogoutRevoke(r)
             \/ ManageUsers
             \/ Tick /\ UNCHANGED <<storeVars, authVars, historyVars>>
             \/ UNCHANGED sessionVars
      PROVE  UNCHANGED user_id
  BY <1>7 DEF register_complete, LdapLookup, LdapCreate, OidcResolve,
     RefreshReplay, RotateReplay, revoke_all_for_user, RefreshMint,
     RefreshOrphan, LogoutVerify, LogoutRevoke, revoke, ManageUsers, storeVars,
     refreshVars, sessionVars
<1> HIDE DEF SessionsInv
<1> QED
  BY <1>3, <1>4, <1>5, <1>6, <1>7
     DEF SessionsNext, create_user, update_user, delete_user

\* Every step preserves it.
LEMMA AccountNextInv ==
  ASSUME SessionsInv, AccountInv, [SessionsNext]_sessionVars, AccountsStay
  PROVE  AccountInv'
<1>1. /\ revoked \subseteq revoked'
      /\ \A t \in Stored : user_id'[t] = user_id[t]
  BY HandlersAreStoreSteps, StoreStepKeeps DEF SessionsInv
<1>2. LoginsOK'
  BY LoginsStayOK DEF AccountInv
<1>3. ASSUME NEW t \in Stored' \ revoked' PROVE HasAccount(user_id[t])'
  <2>1. HasAccount(user_id'[t])
    <3>1. CASE t \in Stored
      BY <1>1, <3>1 DEF AccountInv, EverySessionHasAnAccount, HasAccount
    <3>2. CASE t \notin Stored
      BY <3>2, NewTokensHaveAccounts
    <3> QED BY <3>1, <3>2
  <2> QED
    BY <2>1, AccountsAreKept DEF SessionsInv, HasAccount, WillHaveAccount
<1> QED
  BY <1>2, <1>3 DEF AccountInv, EverySessionHasAnAccount, HasAccount

\* Single sign-on of either kind opens no session without an account behind it,
\* unless an administrator deletes accounts or takes a directory user's name.
THEOREM SessionsHaveAccounts ==
  SessionsSpec /\ [][AccountsStay]_sessionVars => []EverySessionHasAnAccount
<1>1. SessionsInit => AccountInv
  BY DEF SessionsInit, StoreInit, AccountInv, LoginsOK,
     EverySessionHasAnAccount, Stored, Idle
<1>2. AccountInv /\ UNCHANGED sessionVars => AccountInv'
  BY DEF AccountInv, LoginsOK, HasAccount, EverySessionHasAnAccount, Stored,
     Accounts, sessionVars, refreshVars, authVars
<1>3. SessionsInv /\ AccountInv /\ [SessionsNext]_sessionVars
        /\ [AccountsStay]_sessionVars => AccountInv'
  BY <1>2, AccountNextInv
<1>4. AccountInv => EverySessionHasAnAccount
  BY DEF AccountInv
<1> QED
  BY <1>1, <1>3, <1>4, SessionsInvariant, PTL DEF SessionsSpec
=============================================================================

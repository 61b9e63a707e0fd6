---------------------------- MODULE RefreshStore ----------------------------
(***************************************************************************)
(* The in-memory refresh-token store of moxui (src/auth/refresh.rs).       *)
(*                                                                         *)
(* The store is a map from record ids to records, behind one RwLock: every *)
(* operation below runs under that lock from its first read to its last    *)
(* write, so each is one atomic action (`issue` reads the clock and draws  *)
(* its token just before; no tick falls in between).  Raw token, hash and  *)
(* UUID of a record are in bijection (32 random bytes, collisions          *)
(* ignored), so one identifier stands for the three of them.               *)
(*                                                                         *)
(* The map is kept column by column: user_id[t] = Nobody says that t is    *)
(* not a key of the map.  Records are never removed by the code.           *)
(***************************************************************************)
EXTENDS Naturals

CONSTANTS
  TokenId,   \* the identifiers that may ever be drawn
  UserId,    \* ids of accounts
  Nobody,    \* "no record under this id"
  TTL,       \* DEFAULT_REFRESH_TTL_SECS, in clock ticks
  MaxTime    \* bound on the clock of a finite instance

ASSUME StoreAssumption ==
  /\ Nobody \notin UserId
  /\ TTL \in Nat
  /\ MaxTime \in Nat

VARIABLES
  user_id,     \* column user_id of the map
  expires_at,  \* column expires_at
  revoked,     \* the records whose flag `revoked` is set
  now,         \* chrono::Utc::now().timestamp()
  family       \* history: the token at the head of t's rotation chain

storeVars == <<user_id, expires_at, revoked, family>>
refreshVars == <<user_id, expires_at, revoked, now, family>>

StoreTypeOK ==
  /\ user_id \in [TokenId -> UserId \cup {Nobody}]
  /\ expires_at \in [TokenId -> Nat]
  /\ revoked \in SUBSET TokenId
  /\ now \in Nat
  /\ family \in [TokenId -> TokenId]

-----------------------------------------------------------------------------
(* Reading the store.                                                      *)

Stored == {t \in TokenId : user_id[t] # Nobody}

TokensOf(u) == {t \in Stored : user_id[t] = u}

Expired(t) == now > expires_at[t]

\* `verify` answers Some exactly for these tokens.
Verifies(t) == t \in Stored \ revoked /\ ~Expired(t)

-----------------------------------------------------------------------------
(* Changing the store.                                                     *)

StoreInit ==
  /\ user_id = [t \in TokenId |-> Nobody]
  /\ expires_at = [t \in TokenId |-> 0]
  /\ revoked = {}
  /\ now = 0
  /\ family = [t \in TokenId |-> t]

\* The record `issue` and `rotate` insert for a freshly drawn identifier n.
Insert(u, n, head) ==
  /\ n \notin Stored
  /\ user_id' = [user_id EXCEPT ![n] = u]
  /\ expires_at' = [expires_at EXCEPT ![n] = now + TTL]
  /\ family' = [family EXCEPT ![n] = head]

issue(u, n) ==
  /\ Insert(u, n, n)
  /\ UNCHANGED revoked

\* Mutant: the flag is toggled instead of raised.
revokeToggles(t) ==
  /\ t \in Stored
  /\ revoked' = IF t \in revoked THEN revoked \ {t} ELSE revoked \cup {t}
  /\ UNCHANGED <<user_id, expires_at, family>>

revoke(t) ==
  /\ t \in Stored
  /\ revoked' = revoked \cup {t}
  /\ UNCHANGED <<user_id, expires_at, family>>

\* Mutant: the comparison of user_id is missing.
revoke_all_of_everyone(u) ==
  /\ revoked' = revoked \cup Stored
  /\ UNCHANGED <<user_id, expires_at, family>>

revoke_all_for_user(u) ==
  /\ revoked' = revoked \cup TokensOf(u)
  /\ UNCHANGED <<user_id, expires_at, family>>

\* The three outcomes of `rotate`, in the order in which the code tests for
\* them: an unknown or expired token changes nothing; a revoked one costs its
\* user every token; any other is revoked and replaced by n.
RotateRejects(t) == t \notin Stored \/ Expired(t)

\* Mutant: a revoked token is refused and nothing else happens.
RotateReplayIgnored(t) ==
  /\ ~RotateRejects(t)
  /\ t \in revoked
  /\ UNCHANGED storeVars

RotateReplay(t) ==
  /\ ~RotateRejects(t)
  /\ t \in revoked
  /\ revoke_all_for_user(user_id[t])

\* Mutants: the old token is left alone; the user is not taken from the
\* record; the flag of the old token is not looked at.
RotateOkKeepsOld(t, n) ==
  /\ ~RotateRejects(t)
  /\ t \notin revoked
  /\ Insert(user_id[t], n, family[t])
  /\ UNCHANGED revoked

RotateOkAnyUser(t, n) ==
  /\ ~RotateRejects(t)
  /\ t \notin revoked
  /\ \E u \in UserId : Insert(u, n, family[t])
  /\ revoked' = revoked \cup {t}

RotateOkRevoked(t, n) ==
  /\ ~RotateRejects(t)
  /\ Insert(user_id[t], n, family[t])
  /\ revoked' = revoked \cup {t}

RotateOk(t, n) ==
  /\ ~RotateRejects(t)
  /\ t \notin revoked
  /\ Insert(user_id[t], n, family[t])
  /\ revoked' = revoked \cup {t}

Tick ==
  /\ now < MaxTime
  /\ now' = now + 1

-----------------------------------------------------------------------------
(* The store on its own: any caller may call any operation at any time.    *)

StoreOp ==
  \/ \E u \in UserId, n \in TokenId : issue(u, n)
  \/ \E t \in TokenId : revoke(t)
  \/ \E u \in UserId : revoke_all_for_user(u)
  \/ \E t \in TokenId : RotateReplay(t)
  \/ \E t, n \in TokenId : RotateOk(t, n)

StoreNext ==
  \/ StoreOp /\ UNCHANGED now
  \/ Tick /\ UNCHANGED storeVars

StoreSpec == StoreInit /\ [][StoreNext]_refreshVars

-----------------------------------------------------------------------------
(* What makes it correct.                                                  *)

\* A rotation chain has at most one token that is not revoked: a client and
\* a thief who copied its token can never both hold a working successor.
OneLivePerFamily ==
  \A s, t \in Stored \ revoked : family[s] = family[t] => s = t

\* A chain has one head, a record of the store that belongs to the same user
\* as every token rotated from it: rotation never moves a session to another
\* account, however many times it is repeated.
FamilyKeepsItsUser ==
  \A t \in Stored :
    /\ family[t] \in Stored
    /\ family[family[t]] = family[t]
    /\ user_id[family[t]] = user_id[t]

\* What every operation preserves, and the proofs carry from step to step: a
\* fresh identifier is not revoked and heads no chain but its own.
StoreIndInv ==
  /\ StoreTypeOK
  /\ revoked \subseteq Stored
  /\ \A t \in TokenId : t \notin Stored => family[t] = t
  /\ FamilyKeepsItsUser
  /\ OneLivePerFamily

\* A token dies once: no call brings a revoked record back, changes the user
\* of a record, or moves its expiry.  (Records are never removed either.)
TokensDieOnce ==
  [][/\ revoked \subseteq revoked'
     /\ \A t \in Stored : /\ user_id'[t] = user_id[t]
                          /\ expires_at'[t] = expires_at[t]]_refreshVars

\* One call touches the sessions of one user only: a replay, a logout or a
\* rotation of u's token leaves every other user's tokens as they were.
UsersAreIsolated ==
  [][\E u \in UserId : \A t \in Stored :
        user_id[t] # u => (t \in revoked' <=> t \in revoked)]_revoked

\* The store implements sessions that pass from one credential to the next:
\* the tokens of a family that are not revoked are what opens the session, and
\* a session belongs to the user of its first token.
Lineage == INSTANCE SessionLineage WITH
  Credential <- TokenId,
  Person <- UserId,
  None <- Nobody,
  person <- [s \in TokenId |-> IF family[s] = s THEN user_id[s] ELSE Nobody],
  live <- [s \in TokenId |-> {t \in Stored \ revoked : family[t] = s}],
  drawn <- Stored

ImplementsLineage == Lineage!Spec
=============================================================================

-------------------------- MODULE OidcLogin_proofs --------------------------
(***************************************************************************)
(* Single sign-on, for any number of flows, people, providers and          *)
(* callbacks in flight: the type invariant, whose session a login opens,   *)
(* and that the store of pending states implements OneShotTicket.          *)
(***************************************************************************)
EXTENDS OidcLogin, TLAPS

Busy(r) == pc[r] # "idle"

\* A callback owns the flow it took: the pending state is gone, no session has
\* come of it yet, and past the exchange the code is known to be the flow's.
WorkOK(r) ==
  Busy(r) =>
    /\ flowOf[r] \in Started
    /\ flowOf[r] \notin state_store
    /\ sessions[flowOf[r]] = <<>>
    /\ code[r] \in consents
    /\ pc[r] # "exchange" => code[r].flow = flowOf[r]
    /\ pc[r] \in {"userinfo", "nameless"} => provider[flowOf[r]] \notin CoreProvider

OneWorker ==
  \A r, q \in Request : Busy(r) /\ Busy(q) /\ flowOf[r] = flowOf[q] => r = q

StoreOK == \A f \in state_store : f \in Started /\ sessions[f] = <<>>

UnstartedOK == \A f \in Flow : f \notin Started => sessions[f] = <<>>

OidcInv ==
  /\ OidcTypeOK
  /\ \A f \in Flow : created_at[f] <= now
  /\ \A r \in Request : WorkOK(r)
  /\ OneWorker
  /\ StoreOK
  /\ UnstartedOK
  /\ SessionIsTheAuthorizers

-----------------------------------------------------------------------------

\* What `num_minutes() > TTL` lets through.
LEMMA MinutesAreTruncated ==
  ASSUME NEW x \in Nat, NEW d \in Nat \ {0}, NEW t \in Nat, ~(x \div d > t)
  PROVE  x < (t + 1) * d
<1> DEFINE q == x \div d
<1>1. q \in Nat /\ x = d * q + (x % d) /\ x % d \in 0 .. (d - 1)
  BY SMTT(30)
<1>2. q + 1 <= t + 1
  BY <1>1
<1>3. d * q + d <= (t + 1) * d
  <2> HIDE DEF q
  <2>1. ASSUME NEW a \in Nat, NEW b \in Nat, NEW c \in Nat, a <= b
        PROVE  a * c <= b * c
    <3>1. b - a \in Nat /\ b = a + (b - a)
      BY <2>1
    <3>2. ASSUME NEW k \in Nat PROVE (a + k) * c = a * c + k * c /\ k * c \in Nat
      BY SMTT(30)
    <3>3. a * c \in Nat
      BY SMTT(30)
    <3> QED BY <3>1, <3>2, <3>3
  <2>2. (q + 1) * d <= (t + 1) * d
    BY <1>1, <1>2, <2>1
  <2> QED BY <1>1, <2>2, SMTT(30)
<1> QED
  <2> HIDE DEF q
  <2> QED BY <1>1, <1>3

LEMMA ElementOfOne ==
  ASSUME NEW a \in Account
  PROVE  /\ Append(<<>>, a) \in Seq(Account)
         /\ Append(<<>>, a) # <<>>
         /\ Len(Append(<<>>, a)) = 1
         /\ Append(<<>>, a)[1] = a
OBVIOUS

LEMMA OidcInitially == OidcInit => OidcInv
<1> USE OidcAssumption
<1> QED
  BY DEF OidcInit, OidcInv, OidcTypeOK, WorkOK, Busy, OneWorker, StoreOK,
         UnstartedOK, SessionIsTheAuthorizers, Started

\* Steps that leave the store, the sessions and the flows alone.
Quiet ==
  /\ UNCHANGED <<now, storeVars, oidc_users, sessions, flowOf, code>>
  /\ consents \subseteq consents'

\* Further consents take nobody's session away.
LEMMA RightfulStays ==
  ASSUME NEW f \in Flow, NEW a, Rightful(f, a), consents \subseteq consents',
         provider'[f] = provider[f]
  PROVE  Rightful(f, a)'
BY DEF Rightful

LEMMA QuietPreserves ==
  ASSUME OidcInv, OidcTypeOK', Quiet,
         \A r \in Request : Busy(r)' => Busy(r),
         \A r \in Request : Busy(r)' /\ pc'[r] # "exchange" =>
           code[r].flow = flowOf[r],
         \A r \in Request : pc'[r] \in {"userinfo", "nameless"} =>
           provider[flowOf[r]] \notin CoreProvider
  PROVE  OidcInv'
<1>1. (\A f \in Flow : created_at[f] <= now)'
  BY DEF OidcInv, Quiet, storeVars
<1>2. (\A r \in Request : WorkOK(r))'
  BY DEF OidcInv, Quiet, storeVars, WorkOK, Busy, Started
<1>3. OneWorker'
  BY DEF OidcInv, Quiet, OneWorker, Busy
<1>4. StoreOK' /\ UnstartedOK'
  BY DEF OidcInv, Quiet, storeVars, StoreOK, UnstartedOK, Started
<1>5. SessionIsTheAuthorizers'
  BY RightfulStays DEF OidcInv, Quiet, storeVars, SessionIsTheAuthorizers
<1> QED BY <1>1, <1>2, <1>3, <1>4, <1>5 DEF OidcInv

LEMMA StartPreserves ==
  ASSUME OidcInv, NEW f \in Flow, NEW p \in Provider, start_login(f, p)
  PROVE  OidcInv'
<1> USE OidcAssumption
<1>1. OidcTypeOK'
  BY DEF OidcInv, OidcTypeOK, start_login, externalVars, requestVars
<1>2. Started' = Started \cup {f} /\ f \notin Started /\ sessions' = sessions
  BY DEF OidcInv, OidcTypeOK, start_login, Started
<1>3. (\A g \in Flow : created_at[g] <= now)'
  BY DEF OidcInv, OidcTypeOK, start_login
<1>4. (\A r \in Request : WorkOK(r))' /\ OneWorker'
  BY <1>2 DEF OidcInv, OidcTypeOK, start_login, externalVars, requestVars,
              WorkOK, OneWorker, Busy
<1>5. StoreOK' /\ UnstartedOK'
  BY <1>2 DEF OidcInv, StoreOK, UnstartedOK, start_login
<1>6. SessionIsTheAuthorizers'
  BY <1>2, RightfulStays DEF OidcInv, OidcTypeOK, SessionIsTheAuthorizers, UnstartedOK,
              start_login, externalVars
<1> QED BY <1>1, <1>3, <1>4, <1>5, <1>6 DEF OidcInv

LEMMA CallbackPreserves ==
  ASSUME OidcInv, NEW r \in Request, NEW f \in Flow, NEW c \in consents,
         NEW g \in Started, handle_callback(r, f, c, g)
  PROVE  OidcInv'
<1> USE OidcAssumption
<1>0. c \in Code
  BY DEF OidcInv, OidcTypeOK
<1>1. OidcTypeOK'
  BY <1>0 DEF OidcInv, OidcTypeOK, handle_callback, externalVars, Idle
<1>2. /\ UNCHANGED <<now, provider, created_at, consents, sessions>>
      /\ state_store' = state_store \ {f} /\ f \in state_store
      /\ ~Busy(r)
      /\ Started' = Started
  BY DEF handle_callback, externalVars, Busy, Started
<1>3. (\A h \in Flow : created_at[h] <= now)' /\ StoreOK' /\ UnstartedOK'
  BY <1>2 DEF OidcInv, StoreOK, UnstartedOK
<1>4. SessionIsTheAuthorizers'
  BY <1>2, RightfulStays DEF OidcInv, SessionIsTheAuthorizers
<1>5. (\A q \in Request : WorkOK(q))' /\ OneWorker'
  <2>1. CASE UNCHANGED <<flowOf, code>> /\ pc' = [pc EXCEPT ![r] = "idle"]
    <3>1. pc' = pc
      BY <2>1, <1>2 DEF OidcInv, OidcTypeOK, Busy
    <3> QED
      BY <2>1, <3>1, <1>2 DEF OidcInv, WorkOK, OneWorker, Busy
  <2>2. CASE /\ pc' = [pc EXCEPT ![r] = "exchange"]
             /\ flowOf' = [flowOf EXCEPT ![r] = f]
             /\ code' = [code EXCEPT ![r] = c]
    <3>1. \A q \in Request \ {r} : /\ pc'[q] = pc[q] /\ flowOf'[q] = flowOf[q]
                                   /\ code'[q] = code[q]
      BY <2>2 DEF OidcInv, OidcTypeOK
    <3>2. pc'[r] = "exchange" /\ flowOf'[r] = f /\ code'[r] = c
      BY <2>2 DEF OidcInv, OidcTypeOK
    <3>3. f \in Started /\ sessions[f] = <<>>
      BY <1>2 DEF OidcInv, StoreOK
    <3>4. \A q \in Request : Busy(q) => flowOf[q] # f
      BY <1>2 DEF OidcInv, WorkOK
    <3>5. ASSUME NEW q \in Request PROVE WorkOK(q)'
      <4>1. CASE q = r
        BY <4>1, <3>2, <3>3, <1>2 DEF WorkOK
      <4>2. CASE q # r
        BY <4>2, <3>1, <1>2 DEF OidcInv, WorkOK, Busy
      <4> QED BY <4>1, <4>2
    <3>6. OneWorker'
      BY <3>1, <3>2, <3>4, <1>2 DEF OidcInv, OneWorker, Busy
    <3> QED BY <3>5, <3>6
  <2> QED BY <2>1, <2>2 DEF handle_callback, Idle
<1> QED BY <1>1, <1>3, <1>4, <1>5 DEF OidcInv

\* What a handler that finds its account does to the sessions.
LEMMA AccountIsRightful ==
  ASSUME OidcInv, NEW r \in Request, pc[r] \in {"account", "nameless"}
  PROVE  /\ oidc_key(r) \in Account
         /\ Rightful(flowOf[r], oidc_key(r))
         /\ flowOf[r] \in Started /\ sessions[flowOf[r]] = <<>>
<1>1. /\ flowOf[r] \in Started /\ sessions[flowOf[r]] = <<>>
      /\ code[r] \in consents /\ code[r] \in Code
      /\ code[r].flow = flowOf[r]
  BY DEF OidcInv, OidcTypeOK, WorkOK, Busy
<1>2. provider[flowOf[r]] \in Provider
  BY <1>1 DEF OidcInv, OidcTypeOK, Started
<1>3. code[r] = [flow |-> flowOf[r], sub |-> code[r].sub] /\ code[r].sub \in Subject
  BY <1>1 DEF Code
<1>4. pc[r] = "nameless" => provider[flowOf[r]] \notin CoreProvider
  BY DEF OidcInv, WorkOK, Busy
<1>5. CASE pc[r] = "nameless"
  BY <1>1, <1>2, <1>3, <1>4, <1>5 DEF oidc_key, Account, Rightful
<1>6. CASE pc[r] = "account"
  BY <1>1, <1>2, <1>3, <1>6, OidcAssumption DEF oidc_key, Account, Rightful
<1> QED BY <1>5, <1>6

LEMMA AccountPreserves ==
  ASSUME OidcInv, NEW r \in Request, oidc_callback(r)
  PROVE  OidcInv'
<1> DEFINE f == flowOf[r]
           a == oidc_key(r)
<1>1. /\ a \in Account /\ Rightful(f, a) /\ f \in Started
      /\ sessions[f] = <<>>
  BY AccountIsRightful DEF oidc_callback
<1>2. /\ UNCHANGED <<now, storeVars, externalVars, flowOf, code>>
      /\ pc' = [pc EXCEPT ![r] = "idle"] /\ Busy(r)
      /\ Started' = Started
  BY DEF oidc_callback, Idle, Busy, Started, storeVars
<1>3. /\ sessions' \in [Flow -> Seq(Account)]
      /\ \A h \in Flow \ {f} : sessions'[h] = sessions[h]
      /\ \/ sessions'[f] = <<>>
         \/ Len(sessions'[f]) = 1 /\ sessions'[f][1] = a
  <2>1. CASE sessions' = [sessions EXCEPT ![f] = Append(@, a)]
    BY <2>1, <1>1, ElementOfOne DEF OidcInv, OidcTypeOK
  <2>2. CASE UNCHANGED sessions
    BY <2>2, <1>1 DEF OidcInv, OidcTypeOK
  <2> QED BY <2>1, <2>2 DEF oidc_callback
<1>4. OidcTypeOK'
  BY <1>1, <1>2, <1>3
     DEF OidcInv, OidcTypeOK, oidc_callback, storeVars, externalVars
<1>5. \A q \in Request : Busy(q)' => Busy(q) /\ q # r /\ flowOf[q] # f
                                     /\ pc'[q] = pc[q]
  BY <1>2 DEF OidcInv, OidcTypeOK, OneWorker, Busy
<1>6. (\A q \in Request : WorkOK(q))' /\ OneWorker'
  <2>1. ASSUME NEW q \in Request, Busy(q)' PROVE sessions'[flowOf[q]] = <<>>
    BY <2>1, <1>3, <1>5 DEF OidcInv, OidcTypeOK, WorkOK
  <2> QED
    BY <2>1, <1>2, <1>5 DEF OidcInv, WorkOK, OneWorker, storeVars, externalVars
<1>7. StoreOK' /\ UnstartedOK'
  <2>1. f \notin state_store
    BY <1>2 DEF OidcInv, WorkOK
  <2> QED
    BY <2>1, <1>1, <1>2, <1>3
       DEF OidcInv, OidcTypeOK, StoreOK, UnstartedOK, storeVars
<1>8. SessionIsTheAuthorizers'
  <2> SUFFICES ASSUME NEW h \in Flow, NEW i \in 1 .. Len(sessions'[h])
               PROVE  Rightful(h, sessions[h][i])'
    BY DEF SessionIsTheAuthorizers
  <2>1. CASE h = f
    <3>1. Len(sessions'[f]) = 1 /\ sessions'[f][1] = a
      BY <2>1, <1>3
    <3>2. i = 1
      BY <2>1, <3>1
    <3> QED
      BY <2>1, <3>1, <3>2, <1>1, <1>2 DEF Rightful, storeVars, externalVars
  <2>2. CASE h # f
    BY <2>2, <1>2, <1>3, RightfulStays
       DEF OidcInv, SessionIsTheAuthorizers, storeVars, externalVars
  <2> QED BY <2>1, <2>2
<1> QED BY <1>2, <1>4, <1>6, <1>7, <1>8 DEF OidcInv, storeVars

\* Callbacks that fail or go away, and those that only move on.
LEMMA MovesPreserve ==
  ASSUME OidcInv, NEW r \in Request,
         \/ exchange_code(r) \/ exchange_fails(r)
         \/ user_info(r) \/ user_info_error(r) \/ user_info_fails(r) \/ HangUp(r)
  PROVE  OidcInv'
<1>1. /\ Quiet /\ Busy(r)
      /\ \A q \in Request \ {r} : pc'[q] = pc[q]
  BY DEF OidcInv, OidcTypeOK, Quiet, Busy, externalVars, exchange_code,
         exchange_fails, user_info, user_info_error, user_info_fails, HangUp, Idle
<1>2. pc'[r] # "idle" /\ pc'[r] # "exchange" => code[r].flow = flowOf[r]
  BY DEF OidcInv, OidcTypeOK, WorkOK, Busy, exchange_code, Redeemable,
         exchange_fails, user_info, user_info_error, user_info_fails, HangUp, Idle
<1>3. OidcTypeOK'
  BY DEF OidcInv, OidcTypeOK, storeVars, externalVars, exchange_code,
         exchange_fails, user_info, user_info_error, user_info_fails, HangUp, Idle
<1>4. \A q \in Request : Busy(q)' => Busy(q)
  BY <1>1 DEF Busy
<1>5. \A q \in Request : Busy(q)' /\ pc'[q] # "exchange" => code[q].flow = flowOf[q]
  BY <1>1, <1>2 DEF OidcInv, WorkOK, Busy
<1>6. \A q \in Request : pc'[q] \in {"userinfo", "nameless"} =>
        provider[flowOf[q]] \notin CoreProvider
  <2>1. pc'[r] \in {"userinfo", "nameless"} => provider[flowOf[r]] \notin CoreProvider
    BY DEF OidcInv, OidcTypeOK, WorkOK, Busy, exchange_code, exchange_fails,
           user_info, user_info_error, user_info_fails, HangUp, Idle
  <2> QED BY <2>1, <1>1 DEF OidcInv, WorkOK, Busy
<1> QED BY <1>1, <1>3, <1>4, <1>5, <1>6, QuietPreserves

LEMMA OidcStep == OidcInv /\ [OidcNext]_oidcVars => OidcInv'
<1> SUFFICES ASSUME OidcInv, [OidcNext]_oidcVars PROVE OidcInv'
  OBVIOUS
<1>1. ASSUME NEW f \in Flow, NEW s \in Subject, Consent(f, s) PROVE OidcInv'
  <2>1. Quiet /\ pc' = pc
    BY <1>1 DEF Consent, Quiet, requestVars
  <2>2. OidcTypeOK'
    BY <1>1 DEF Consent, OidcInv, OidcTypeOK, Code, storeVars, requestVars
  <2> QED BY <2>1, <2>2, QuietPreserves DEF Busy, OidcInv, WorkOK
<1>2. ASSUME Restart PROVE OidcInv'
  <2>1. OidcTypeOK'
    BY <1>2 DEF Restart, OidcInv, OidcTypeOK, externalVars
  <2>2. (\A f \in Flow : created_at[f] <= now)'
    BY <1>2 DEF Restart, OidcInv
  <2>3. (\A r \in Request : WorkOK(r))' /\ OneWorker' /\ StoreOK'
    BY <1>2 DEF Restart, WorkOK, OneWorker, StoreOK, Busy
  <2>4. UnstartedOK' /\ SessionIsTheAuthorizers'
    BY <1>2, RightfulStays DEF Restart, OidcInv, UnstartedOK, SessionIsTheAuthorizers, Started,
                externalVars
  <2> QED BY <2>1, <2>2, <2>3, <2>4 DEF OidcInv
<1>3. ASSUME Tick PROVE OidcInv'
  <2>1. OidcTypeOK' /\ (\A f \in Flow : created_at[f] <= now)'
    BY <1>3, OidcAssumption
       DEF Tick, OidcInv, OidcTypeOK, storeVars, externalVars, requestVars
  <2>2. (\A r \in Request : WorkOK(r))' /\ OneWorker' /\ StoreOK'
    BY <1>3 DEF Tick, OidcInv, WorkOK, OneWorker, StoreOK, Busy, Started,
                storeVars, externalVars, requestVars
  <2>3. UnstartedOK' /\ SessionIsTheAuthorizers'
    BY <1>3, RightfulStays DEF Tick, OidcInv, UnstartedOK, SessionIsTheAuthorizers, Started,
                storeVars, externalVars
  <2> QED BY <2>1, <2>2, <2>3 DEF OidcInv
<1>4. ASSUME UNCHANGED oidcVars PROVE OidcInv'
  <2>1. Quiet /\ pc' = pc /\ codes' = codes /\ consents' = consents
    BY <1>4 DEF oidcVars, Quiet, storeVars, externalVars, requestVars
  <2>2. OidcTypeOK'
    BY <2>1 DEF OidcInv, OidcTypeOK, Quiet, storeVars
  <2> QED BY <2>1, <2>2, QuietPreserves DEF Busy, OidcInv, WorkOK
<1> QED
  BY <1>1, <1>2, <1>3, <1>4, StartPreserves, CallbackPreserves, MovesPreserve,
     AccountPreserves DEF OidcNext

THEOREM OidcInvariance == OidcSpec => []OidcInv
BY OidcInitially, OidcStep, PTL DEF OidcSpec

\* Every variable of single sign-on keeps its type, through refused, failed and
\* abandoned callbacks and restarts.
THEOREM OidcTypeCorrect == OidcSpec => []OidcTypeOK
<1>1. OidcInv => OidcTypeOK
  BY DEF OidcInv
<1> QED BY <1>1, OidcInvariance, PTL

\* handle_callback and oidc_callback, whatever state keys, codes and CSRF tokens
\* meet in them: a session goes to someone who consented to its flow.
THEOREM SessionsAreTheAuthorizers == OidcSpec => []SessionIsTheAuthorizers
<1>1. OidcInv => SessionIsTheAuthorizers
  BY DEF OidcInv
<1> QED BY <1>1, OidcInvariance, PTL

-----------------------------------------------------------------------------
(* The refinement.                                                         *)

LEMMA PhaseOfTaken ==
  ASSUME OidcInv, NEW r \in Request, Busy(r)
  PROVE  /\ flowOf[r] \in Flow
         /\ Phase(flowOf[r]) = "claimed"
         /\ Working(flowOf[r]) = {r}
<1>1. Working(flowOf[r]) = {r}
  BY DEF OidcInv, OneWorker, Working, Busy
<1> QED BY <1>1 DEF OidcInv, OidcTypeOK, WorkOK, Phase

LEMMA PhaseOfStored ==
  ASSUME OidcInv, NEW f \in state_store
  PROVE  f \in Flow /\ Phase(f) = "open" /\ Working(f) = {}
<1>1. Working(f) = {}
  BY DEF OidcInv, WorkOK, Working, Busy
<1> QED BY <1>1 DEF OidcInv, OidcTypeOK, StoreOK, Phase

LEMMA StartOpens ==
  ASSUME OidcInv, NEW f \in Flow, NEW p \in Provider, start_login(f, p)
  PROVE  OneShot!Open(f)
<1>1. Started' = Started \cup {f} /\ f \notin Started
  BY OidcAssumption DEF OidcInv, OidcTypeOK, start_login, Started
<1>2. \A g \in Flow : Working(g)' = Working(g)
  BY DEF start_login, requestVars, Working
<1>3. Working(f) = {} /\ sessions[f] = <<>>
  BY <1>1 DEF OidcInv, WorkOK, Working, Busy, UnstartedOK
<1>4. Phase(f) = "fresh" /\ Phase(f)' = "open"
  BY <1>1, <1>2, <1>3 DEF Phase, start_login
<1>5. \A g \in Flow \ {f} : Phase(g)' = Phase(g)
  BY <1>1, <1>2 DEF Phase, start_login
<1>6. phases' = [phases EXCEPT ![f] = "open"]
  BY <1>4, <1>5 DEF phases
<1> QED BY <1>4, <1>6 DEF OneShot!Open, start_login, phases

LEMMA CallbackClaims ==
  ASSUME OidcInv, NEW r \in Request, NEW f \in Flow, NEW c \in consents,
         NEW g \in Started, handle_callback(r, f, c, g)
  PROVE  OneShot!Claim(f) \/ OneShot!Void({f})
<1>1. f \in state_store /\ Phase(f) = "open" /\ Working(f) = {} /\ ~Busy(r)
  BY PhaseOfStored DEF handle_callback, Busy
<1>2. /\ Started' = Started /\ state_store' = state_store \ {f}
      /\ UNCHANGED <<now, created_at, sessions>>
  BY DEF handle_callback, Started
<1>3. f \in Started /\ sessions[f] = <<>>
  BY <1>1 DEF OidcInv, StoreOK
<1>4. CASE Expired(f) \/ g # f
  <2>1. pc' = pc /\ flowOf' = flowOf
    BY <1>1, <1>4 DEF handle_callback, Idle, OidcInv, OidcTypeOK, Busy
  <2>2. \A h \in Flow : Working(h)' = Working(h)
    BY <2>1 DEF Working
  <2>3. Phase(f)' = "void" /\ \A h \in Flow \ {f} : Phase(h)' = Phase(h)
    BY <1>1, <1>2, <1>3, <2>2 DEF Phase
  <2>4. phases' = [h \in Flow |-> IF h \in {f} THEN "void" ELSE phases[h]]
    BY <2>3 DEF phases
  <2> QED BY <1>1, <1>2, <2>4 DEF OneShot!Void, OneShot!Alive, phases
<1>5. CASE ~Expired(f) /\ g = f
  <2>1. /\ pc' = [pc EXCEPT ![r] = "exchange"]
        /\ flowOf' = [flowOf EXCEPT ![r] = f]
    BY <1>5 DEF handle_callback
  <2>2. /\ r \in Working(f)'
        /\ \A h \in Flow \ {f} : Working(h)' = Working(h)
    BY <1>1, <2>1 DEF Working, OidcInv, OidcTypeOK, Busy
  <2>3. Phase(f)' = "claimed" /\ \A h \in Flow \ {f} : Phase(h)' = Phase(h)
    BY <1>1, <1>2, <1>3, <2>2 DEF Phase
  <2>4. phases' = [phases EXCEPT ![f] = "claimed"]
    BY <2>3 DEF phases
  <2>5. now - created_at[f] \in Nat
    BY DEF OidcInv, OidcTypeOK
  <2>6. now - created_at[f] < (TTL + 1) * TicksPerMinute
    BY <1>5, <2>5, MinutesAreTruncated, OidcAssumption DEF Expired, num_minutes
  <2> QED BY <1>1, <1>2, <2>4, <2>6 DEF OneShot!Claim, phases
<1> QED BY <1>4, <1>5

\* Whatever ends a callback without a session ends its flow.
LEMMA GivenUpIsVoid ==
  ASSUME OidcInv, NEW r \in Request, Busy(r),
         pc' = [pc EXCEPT ![r] = "idle"],
         UNCHANGED <<now, storeVars, flowOf, sessions>>
  PROVE  OneShot!Void({flowOf[r]})
<1> DEFINE f == flowOf[r]
<1>1. f \in Flow /\ Phase(f) = "claimed" /\ Working(f) = {r}
  BY PhaseOfTaken
<1>2. Working(f)' = {} /\ \A h \in Flow \ {f} : Working(h)' = Working(h)
  BY <1>1 DEF Working, OidcInv, OidcTypeOK
<1>3. /\ f \in Started /\ f \notin state_store /\ sessions[f] = <<>>
      /\ Started' = Started
  BY DEF OidcInv, WorkOK, Started, storeVars
<1>4. Phase(f)' = "void" /\ \A h \in Flow \ {f} : Phase(h)' = Phase(h)
  BY <1>2, <1>3 DEF Phase, storeVars
<1>5. phases' = [h \in Flow |-> IF h \in {f} THEN "void" ELSE phases[h]]
  BY <1>4 DEF phases
<1> QED BY <1>1, <1>5 DEF OneShot!Void, OneShot!Alive, phases, storeVars

\* A callback that only moves on is not seen.
LEMMA MovingOnStutters ==
  ASSUME OidcInv, UNCHANGED <<now, storeVars, flowOf, sessions>>,
         \A q \in Request : pc'[q] = "idle" <=> pc[q] = "idle"
  PROVE  UNCHANGED <<now, created_at, phases, sessions>>
<1>1. \A h \in Flow : Working(h)' = Working(h)
  BY DEF Working
<1>2. Started' = Started
  BY DEF Started, storeVars
<1> QED BY <1>1, <1>2 DEF phases, Phase, storeVars

LEMMA AccountGrants ==
  ASSUME OidcInv, NEW r \in Request, oidc_callback(r)
  PROVE  \/ OneShot!Void({flowOf[r]})
         \/ oidc_key(r) \in Account /\ OneShot!Grant(flowOf[r], oidc_key(r))
<1> DEFINE f == flowOf[r]
           a == oidc_key(r)
<1>1. /\ Busy(r) /\ pc' = [pc EXCEPT ![r] = "idle"]
      /\ UNCHANGED <<now, storeVars, flowOf>>
  BY DEF oidc_callback, Idle, Busy
<1>2. f \in Flow /\ Phase(f) = "claimed" /\ Working(f) = {r}
  BY <1>1, PhaseOfTaken
<1>3. a \in Account /\ f \in Started /\ sessions[f] = <<>> /\ Started' = Started
  BY <1>1, AccountIsRightful DEF oidc_callback, Started, storeVars
<1>4. CASE UNCHANGED sessions
  BY <1>1, <1>4, GivenUpIsVoid
<1>5. CASE sessions' = [sessions EXCEPT ![f] = Append(@, a)]
  <2>1. \A h \in Flow \ {f} : Working(h)' = Working(h) /\ sessions'[h] = sessions[h]
    BY <1>1, <1>2, <1>5 DEF Working, OidcInv, OidcTypeOK
  <2>2. sessions'[f] # <<>>
    BY <1>2, <1>3, <1>5, ElementOfOne DEF OidcInv, OidcTypeOK
  <2>3. Phase(f)' = "used" /\ \A h \in Flow \ {f} : Phase(h)' = Phase(h)
    BY <1>1, <1>3, <2>1, <2>2 DEF Phase, storeVars
  <2>4. phases' = [phases EXCEPT ![f] = "used"]
    BY <1>1, <2>3 DEF phases
  <2> QED BY <1>1, <1>2, <1>3, <1>5, <2>4 DEF OneShot!Grant, phases, storeVars
<1> QED BY <1>4, <1>5 DEF oidc_callback

LEMMA RestartVoids ==
  ASSUME OidcInv, Restart
  PROVE  OneShot!Void({f \in Flow : Phase(f) \in {"open", "claimed"}})
<1>1. /\ \A f \in Flow : Working(f)' = {}
      /\ Started' = Started /\ state_store' = {} /\ sessions' = sessions
  BY DEF Restart, Working, Started
<1>2. \A f \in Flow : Phase(f)' =
        IF Phase(f) \in {"open", "claimed"} THEN "void" ELSE Phase(f)
  BY <1>1 DEF Phase
<1> QED
  BY <1>2 DEF OneShot!Void, OneShot!Alive, phases, Restart

\* start_login, handle_callback and oidc_callback together make a state key
\* good for one session, taken up less than TTL + 1 minutes after its start.
THEOREM OidcImplementsOneShot == OidcSpec => ImplementsOneShot
<1>1. OidcInit => OneShot!Init
  <2> SUFFICES ASSUME OidcInit PROVE OneShot!Init
    OBVIOUS
  <2>1. \A f \in Flow : Phase(f) = "fresh"
    BY DEF OidcInit, Phase, Started
  <2> QED BY <2>1 DEF OidcInit, OneShot!Init, phases
<1>2. OidcInv /\ [OidcNext]_oidcVars => [OneShot!Next]_(OneShot!ticketVars)
  <2> SUFFICES ASSUME OidcInv, [OidcNext]_oidcVars
               PROVE  OneShot!Next \/ UNCHANGED <<now, created_at, phases, sessions>>
    BY DEF OneShot!ticketVars
  <2>1. ASSUME NEW f \in Flow, OneShot!Void({f}) PROVE OneShot!Next
    BY <2>1 DEF OneShot!Next
  <2>2. ASSUME NEW f \in Flow, NEW p \in Provider, start_login(f, p)
        PROVE  OneShot!Next
    BY <2>2, StartOpens DEF OneShot!Next
  <2>3. ASSUME NEW r \in Request, NEW f \in Flow, NEW c \in consents,
               NEW g \in Started, handle_callback(r, f, c, g)
        PROVE  OneShot!Next
    BY <2>1, <2>3, CallbackClaims DEF OneShot!Next
  <2>4. ASSUME NEW r \in Request,
               exchange_fails(r) \/ user_info_fails(r) \/ HangUp(r)
        PROVE  OneShot!Next
    <3>1. Busy(r) /\ flowOf[r] \in Flow
      BY <2>4 DEF exchange_fails, user_info_fails, HangUp, Busy, OidcInv, OidcTypeOK
    <3>2. OneShot!Void({flowOf[r]})
      BY <2>4, <3>1, GivenUpIsVoid
         DEF exchange_fails, user_info_fails, HangUp, Idle
    <3> QED BY <2>1, <3>1, <3>2
  <2>5. ASSUME NEW r \in Request, exchange_code(r) \/ user_info(r) \/ user_info_error(r)
        PROVE  UNCHANGED <<now, created_at, phases, sessions>>
    <3>1. \A q \in Request : pc'[q] = "idle" <=> pc[q] = "idle"
      BY <2>5 DEF exchange_code, user_info, user_info_error, OidcInv, OidcTypeOK
    <3> QED BY <2>5, <3>1, MovingOnStutters DEF exchange_code, user_info, user_info_error
  <2>6. ASSUME NEW r \in Request, oidc_callback(r) PROVE OneShot!Next
    <3>1. flowOf[r] \in Flow
      BY DEF OidcInv, OidcTypeOK
    <3> QED BY <2>1, <2>6, <3>1, AccountGrants DEF OneShot!Next
  <2>7. ASSUME Restart PROVE OneShot!Next
    BY <2>7, RestartVoids DEF OneShot!Next
  <2>8. ASSUME Tick PROVE OneShot!Next
    <3>1. \A q \in Request : pc'[q] = "idle" <=> pc[q] = "idle"
      BY <2>8 DEF Tick, requestVars
    <3>2. phases' = phases
      BY <2>8 DEF Tick, phases, Phase, Working, Started, storeVars, requestVars
    <3> QED BY <2>8, <3>2 DEF Tick, OneShot!Next, OneShot!Tick, storeVars
  <2>9. ASSUME NEW f \in Flow, NEW s \in Subject, Consent(f, s)
        PROVE  UNCHANGED <<now, created_at, phases, sessions>>
    BY <2>9, MovingOnStutters DEF Consent, requestVars
  <2>10. ASSUME UNCHANGED oidcVars
         PROVE  UNCHANGED <<now, created_at, phases, sessions>>
    BY <2>10, MovingOnStutters DEF oidcVars, requestVars
  <2> QED
    BY <2>2, <2>3, <2>4, <2>5, <2>6, <2>7, <2>8, <2>9, <2>10 DEF OidcNext
<1> QED
  BY <1>1, <1>2, OidcInvariance, PTL DEF OidcSpec, ImplementsOneShot, OneShot!Spec
=============================================================================

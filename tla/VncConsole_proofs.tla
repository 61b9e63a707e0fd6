------------------------- MODULE VncConsole_proofs --------------------------
(***************************************************************************)
(* Theorems about the VNC console, for any set of VMs, any finite number   *)
(* of connections and any cap.                                             *)
(***************************************************************************)
EXTENDS VncConsole, FiniteSetTheorems, TLAPS

\* What every step preserves: the counter is the number of guards, a handler
\* about to compare_exchange has seen a counter below the cap, and it counts
\* on a limiter that is in the map.
VncInv ==
  /\ VncTypeOK
  /\ \A c \in Conn : pc[c] # "verify" => vm[c] \in Vm
  /\ \A c \in Conn : pc[c] = "cas" => cur[c] < Cap
  /\ \A v \in Vm : used[v] <= Cap
  /\ CounterIsGuards
  /\ OneLimiterPerVm

\* At startup every counter is zero and there is no guard.
LEMMA VncInitInv == VncInit => VncInv
<1> SUFFICES ASSUME VncInit PROVE VncInv
  OBVIOUS
<1>1. \A v \in Vm : Guards(v) = {}
  BY DEF VncInit, Guards
<1>2. CounterIsGuards
  BY <1>1, FS_EmptySet DEF CounterIsGuards, VncInit
<1> QED
  BY <1>2, VncAssumption DEF VncInit, VncInv, VncTypeOK, OneLimiterPerVm, Place

\* The guards of a VM are finitely many.
LEMMA GuardsAreFinite == ASSUME NEW v \in Vm PROVE IsFiniteSet(Guards(v))
<1>1. Guards(v) \subseteq Conn
  BY DEF Guards
<1> QED BY <1>1, FS_Subset, VncAssumption

\* Steps that touch neither a guard nor a counter keep the two equal.
LEMMA SameGuards ==
  ASSUME CounterIsGuards, used' = used, \A v \in Vm : Guards(v)' = Guards(v)
  PROVE  CounterIsGuards'
  BY DEF CounterIsGuards

\* A step that takes connection c from a place to another, neither of which
\* holds a guard, keeps every VM's set of guards.
LEMMA MoveKeepsGuards ==
  ASSUME NEW c \in Conn, VncTypeOK,
         pc[c] # "guarded", pc'[c] # "guarded",
         \A d \in Conn \ {c} : pc'[d] = pc[d] /\ vm'[d] = vm[d]
  PROVE  \A v \in Vm : Guards(v)' = Guards(v)
  BY DEF Guards, VncTypeOK

\* Every step preserves the invariant: only AcquireCas and WsReturn move the
\* counter, each together with the guard it counts.
LEMMA VncNextInv == VncInv /\ [VncNext]_vncVars => VncInv'
<1> SUFFICES ASSUME VncInv, [VncNext]_vncVars PROVE VncInv'
  OBVIOUS
<1> USE VncAssumption DEF VncInv, VncTypeOK, Place, Pipe, Ticket
<1>1. CASE UNCHANGED vncVars
  <2>1. \A v \in Vm : Guards(v)' = Guards(v)
    BY <1>1 DEF vncVars, Guards
  <2> QED BY <1>1, <2>1, SameGuards DEF vncVars, OneLimiterPerVm
<1>2. ASSUME NEW v \in Vm, TicketMint(v) PROVE VncInv'
  <2>1. \A w \in Vm : Guards(w)' = Guards(w)
    BY <1>2 DEF TicketMint, Guards
  <2> QED BY <1>2, <2>1, SameGuards DEF TicketMint, limiterVars, OneLimiterPerVm
<1>3. ASSUME NEW k \in minting, TicketAnswer(k) PROVE VncInv'
  <2>1. \A w \in Vm : Guards(w)' = Guards(w)
    BY <1>3 DEF TicketAnswer, Guards
  <2> QED
    BY <1>3, <2>1, SameGuards DEF TicketAnswer, limiterVars, OneLimiterPerVm
<1>4. ASSUME NEW c \in Conn, NEW v \in Vm, NEW k \in tickets, WsVerify(c, v, k)
      PROVE  VncInv'
  <2>1. \A w \in Vm : Guards(w)' = Guards(w)
    BY <1>4, MoveKeepsGuards DEF WsVerify
  <2> QED BY <1>4, <2>1, SameGuards DEF WsVerify, limiterVars, OneLimiterPerVm
<1>5. ASSUME NEW c \in Conn, WsUpstream(c) PROVE VncInv'
  <2>1. \A w \in Vm : Guards(w)' = Guards(w)
    BY <1>5, MoveKeepsGuards DEF WsUpstream, Goes
  <2> QED
    BY <1>5, <2>1, SameGuards DEF WsUpstream, Goes, limiterVars, OneLimiterPerVm
<1>6. ASSUME NEW c \in Conn, WsAbandon(c) PROVE VncInv'
  <2>1. \A w \in Vm : Guards(w)' = Guards(w)
    BY <1>6, MoveKeepsGuards DEF WsAbandon
  <2> QED BY <1>6, <2>1, SameGuards DEF WsAbandon, limiterVars, OneLimiterPerVm
<1>7. ASSUME NEW c \in Conn, WsLimiter(c) PROVE VncInv'
  \* A limiter that is inserted starts at the count its VM already has: zero.
  <2>1. vm[c] \in Vm /\ used' = used
    BY <1>7 DEF WsLimiter, Goes, OneLimiterPerVm
  <2>2. \A w \in Vm : Guards(w)' = Guards(w)
    BY <1>7, MoveKeepsGuards DEF WsLimiter, Goes
  <2> QED BY <1>7, <2>1, <2>2, SameGuards DEF WsLimiter, Goes, OneLimiterPerVm
<1>8. ASSUME NEW c \in Conn, AcquireLoad(c) PROVE VncInv'
  <2>1. used' = used
    BY <1>8 DEF AcquireLoad
  <2>2. \A w \in Vm : Guards(w)' = Guards(w)
    BY <1>8, MoveKeepsGuards DEF AcquireLoad
  <2> QED BY <1>8, <2>1, <2>2, SameGuards DEF AcquireLoad, OneLimiterPerVm
<1>9. ASSUME NEW c \in Conn, AcquireCas(c) PROVE VncInv'
  <2>1. CASE used[vm[c]] # cur[c]
    <3>1. \A w \in Vm : Guards(w)' = Guards(w)
      BY <1>9, <2>1, MoveKeepsGuards DEF AcquireCas
    <3> QED BY <1>9, <2>1, <3>1, SameGuards DEF AcquireCas, OneLimiterPerVm
  <2>2. CASE used[vm[c]] = cur[c]
    <3>1. /\ vm[c] \in Vm /\ vm' = vm
          /\ pc[c] = "cas" /\ pc' = [pc EXCEPT ![c] = "guarded"]
          /\ used' = [used EXCEPT ![vm[c]] = used[vm[c]] + 1]
      BY <1>9, <2>2 DEF AcquireCas
    <3>2. \A w \in Vm : Guards(w)' = IF w = vm[c] THEN Guards(w) \cup {c}
                                     ELSE Guards(w)
      BY <3>1 DEF Guards
    <3>3. c \notin Guards(vm[c])
      BY <3>1 DEF Guards
    <3>4. Cardinality(Guards(vm[c]) \cup {c}) = Cardinality(Guards(vm[c])) + 1
      BY <3>1, <3>3, GuardsAreFinite, FS_AddElement
    <3>5. CounterIsGuards'
      BY <3>1, <3>2, <3>4 DEF CounterIsGuards
    <3> QED BY <1>9, <2>2, <3>1, <3>5 DEF AcquireCas, OneLimiterPerVm
  <2> QED BY <2>1, <2>2
<1>10. ASSUME NEW c \in Conn, WsReturn(c) PROVE VncInv'
  <2>1. /\ vm[c] \in Vm /\ vm' = vm
        /\ pc[c] = "guarded" /\ pc' = [pc EXCEPT ![c] = "upgrade"]
        /\ used' = [used EXCEPT ![vm[c]] = used[vm[c]] - 1]
    BY <1>10 DEF WsReturn, Goes
  <2>2. \A w \in Vm : Guards(w)' = IF w = vm[c] THEN Guards(w) \ {c}
                                   ELSE Guards(w)
    BY <2>1 DEF Guards
  <2>3. c \in Guards(vm[c])
    BY <2>1 DEF Guards
  <2>4. /\ IsFiniteSet(Guards(vm[c]) \ {c})
        /\ Cardinality(Guards(vm[c]) \ {c}) = Cardinality(Guards(vm[c])) - 1
    <3>1. IsFiniteSet(Guards(vm[c]))
      BY <2>1, GuardsAreFinite
    <3> HIDE DEF VncInv
    <3> QED BY <3>1, <2>3, FS_RemoveElement
  <2>5. CounterIsGuards'
    BY <2>1, <2>2, <2>4 DEF CounterIsGuards
  <2>6. used[vm[c]] - 1 \in Nat
    BY <2>1, <2>4, FS_CardinalityType DEF CounterIsGuards
  <2> QED BY <1>10, <2>1, <2>5, <2>6 DEF WsReturn, OneLimiterPerVm
<1>11. ASSUME NEW c \in Conn, ProxyConnect(c) PROVE VncInv'
  <2>1. \A w \in Vm : Guards(w)' = Guards(w)
    BY <1>11, MoveKeepsGuards DEF ProxyConnect, Goes
  <2> QED
    BY <1>11, <2>1, SameGuards
       DEF ProxyConnect, Goes, limiterVars, OneLimiterPerVm
<1>12. ASSUME NEW c \in Conn, NEW p \in Pipe, PipeEnds(c, p) PROVE VncInv'
  <2>1. \A w \in Vm : Guards(w)' = Guards(w)
    BY <1>12 DEF PipeEnds, Guards
  <2> QED BY <1>12, <2>1, SameGuards DEF PipeEnds, limiterVars, OneLimiterPerVm
<1>13. ASSUME NEW c \in Conn, ProxyReturn(c) PROVE VncInv'
  <2>1. \A w \in Vm : Guards(w)' = Guards(w)
    BY <1>13, MoveKeepsGuards DEF ProxyReturn, Goes
  <2> QED
    BY <1>13, <2>1, SameGuards
       DEF ProxyReturn, Goes, limiterVars, OneLimiterPerVm
<1>14. CASE VncTick
  <2>1. \A w \in Vm : Guards(w)' = Guards(w)
    BY <1>14 DEF VncTick, Guards
  <2> QED BY <1>14, <2>1, SameGuards DEF VncTick, limiterVars, OneLimiterPerVm
<1> QED
  BY <1>1, <1>2, <1>3, <1>4, <1>5, <1>6, <1>7, <1>8, <1>9, <1>10, <1>11,
     <1>12, <1>13, <1>14 DEF VncNext, ConnStep

\* The invariant holds in every reachable state.
THEOREM VncInvariant == VncSpec => []VncInv
  BY VncInitInv, VncNextInv, PTL DEF VncSpec

\* Type correctness of the console's state.
THEOREM VncTypeCorrect == VncSpec => []VncTypeOK
<1>1. VncInv => VncTypeOK
  BY DEF VncInv
<1> QED BY <1>1, VncInvariant, PTL

\* The limiter's counter is the number of live guards, always.
THEOREM CounterIsExact == VncSpec => []CounterIsGuards
<1>1. VncInv => CounterIsGuards
  BY DEF VncInv
<1> QED BY <1>1, VncInvariant, PTL

\* try_acquire never gives out more slots than the cap.
THEOREM CapIsRespected == VncSpec => []GuardsWithinCap
<1>1. VncInv => GuardsWithinCap
  BY DEF VncInv, CounterIsGuards, GuardsWithinCap
<1> QED BY <1>1, VncInvariant, PTL

\* Every handler of a VM counts on the one limiter the map holds for it.
THEOREM LimitersAreShared == VncSpec => []OneLimiterPerVm
<1>1. VncInv => OneLimiterPerVm
  BY DEF VncInv
<1> QED BY <1>1, VncInvariant, PTL

-----------------------------------------------------------------------------
(* try_acquire is atomic.                                                  *)

\* Steps that take no connection into try_acquire or out of it, and none to a
\* guard or from one, change nothing of the pool.
LEMMA PoolStays ==
  ASSUME \A c \in Conn :
           /\ pc[c] \in {"load", "cas"} <=> pc'[c] \in {"load", "cas"}
           /\ pc[c] = "guarded" <=> pc'[c] = "guarded"
           /\ pc[c] \in {"load", "cas", "guarded"} => vm'[c] = vm[c]
  PROVE  UNCHANGED Slots!poolVars
BY DEF Slots!poolVars

\* The slots in use are the guards.
LEMMA SlotsAreGuards ==
  ASSUME VncInv, NEW v \in Vm
  PROVE  Slots!InUse(v) = used[v]
<1>1. {c \in Conn : [d \in Conn |-> IF pc[d] = "guarded" THEN vm[d] ELSE NoVm][c] = v}
        = Guards(v)
  BY VncAssumption DEF Guards
<1>2. Slots!InUse(v) = Cardinality(Guards(v))
  BY <1>1 DEF Slots!InUse, Slots!Cardinality, Cardinality
<1> QED BY <1>2 DEF VncInv, CounterIsGuards

\* The steps of the pool.
LEMMA PoolSteps ==
  ASSUME NEW c \in Conn, NEW v \in Vm,
         Slots!Ask(c, v) \/ Slots!Take(c, v) \/ Slots!Refuse(c, v)
  PROVE  Slots!Next
<1>1. \E p \in Vm : Slots!Ask(c, p) \/ Slots!Take(c, p) \/ Slots!Refuse(c, p)
  OBVIOUS
<1> QED BY <1>1 DEF Slots!Next

\* Every step of the console is a step of the pool or leaves it alone: a request
\* takes effect at the compare_exchange that succeeds, or at the load that finds
\* the counter at the cap.
LEMMA ConsoleStepsArePoolSteps ==
  VncInv /\ [VncNext]_vncVars => [Slots!Next]_(Slots!poolVars)
<1> SUFFICES ASSUME VncInv, [VncNext]_vncVars
             PROVE  Slots!Next \/ UNCHANGED Slots!poolVars
  OBVIOUS
<1> USE VncAssumption
<1>1. pc \in [Conn -> Place] /\ vm \in [Conn -> Vm \cup {NoVm}]
      /\ \A c \in Conn : pc[c] # "verify" => vm[c] \in Vm
  BY DEF VncInv, VncTypeOK
<1>2. ASSUME UNCHANGED <<pc, vm>> PROVE UNCHANGED Slots!poolVars
  BY <1>2, PoolStays
<1>3. ASSUME NEW c \in Conn,
             pc[c] \notin {"load", "cas", "guarded"},
             pc'[c] \notin {"load", "cas", "guarded"},
             \A d \in Conn \ {c} : pc'[d] = pc[d] /\ vm'[d] = vm[d]
      PROVE  UNCHANGED Slots!poolVars
  BY <1>3, PoolStays
<1>4. ASSUME NEW c \in Conn, WsLimiter(c) PROVE Slots!Next
  <2>1. /\ pc[c] = "limiter" /\ vm[c] \in Vm /\ vm' = vm
        /\ pc' = [pc EXCEPT ![c] = "load"]
    BY <1>1, <1>4 DEF WsLimiter, Goes
  <2>2. PICK v \in Vm : v = vm[c]
    BY <2>1
  <2>3. Slots!Ask(c, v)
    BY <1>1, <2>1, <2>2 DEF Slots!Ask
  <2> QED BY <2>3, PoolSteps
<1>5. ASSUME NEW c \in Conn, AcquireLoad(c)
      PROVE  Slots!Next \/ UNCHANGED Slots!poolVars
  <2>1. PICK v \in Vm : v = vm[c]
    BY <1>1, <1>5 DEF AcquireLoad
  <2>2. CASE used[v] < Cap
    <3>1. pc[c] = "load" /\ pc' = [pc EXCEPT ![c] = "cas"] /\ vm' = vm
      BY <1>5, <2>1, <2>2 DEF AcquireLoad, VncInv, VncTypeOK
    <3> QED BY <1>1, <3>1, PoolStays
  <2>3. CASE used[v] >= Cap
    <3>1. /\ pc[c] = "load"
          /\ pc' = [pc EXCEPT ![c] = "verify"] /\ vm' = [vm EXCEPT ![c] = NoVm]
      BY <1>5, <2>1, <2>3 DEF AcquireLoad, VncInv, VncTypeOK
    <3>2. Slots!InUse(v) >= Cap
      BY <2>3, SlotsAreGuards
    <3>3. Slots!Refuse(c, v)
      BY <1>1, <2>1, <3>1, <3>2 DEF Slots!Refuse
    <3> QED BY <3>3, PoolSteps
  <2> QED BY <1>5, <2>1, <2>2, <2>3 DEF AcquireLoad
<1>6. ASSUME NEW c \in Conn, AcquireCas(c)
      PROVE  Slots!Next \/ UNCHANGED Slots!poolVars
  <2>1. pc[c] = "cas" /\ vm[c] \in Vm /\ vm' = vm /\ cur[c] < Cap
    BY <1>1, <1>6 DEF AcquireCas, VncInv
  <2>2. PICK v \in Vm : v = vm[c]
    BY <2>1
  <2>3. CASE used[v] = cur[c]
    <3>1. pc' = [pc EXCEPT ![c] = "guarded"]
      BY <1>6, <2>2, <2>3 DEF AcquireCas
    <3>2. Slots!InUse(v) < Cap
      BY <2>1, <2>3, SlotsAreGuards
    <3>3. Slots!Take(c, v)
      BY <1>1, <2>1, <2>2, <3>1, <3>2 DEF Slots!Take
    <3> QED BY <3>3, PoolSteps
  <2>4. CASE used[v] # cur[c]
    <3>1. pc' = [pc EXCEPT ![c] = "load"]
      BY <1>6, <2>2, <2>4 DEF AcquireCas
    <3> QED BY <1>1, <2>1, <3>1, PoolStays
  <2> QED BY <2>3, <2>4
<1>7. ASSUME NEW c \in Conn, WsReturn(c) PROVE Slots!Next
  <2>1. /\ pc[c] = "guarded" /\ vm[c] \in Vm /\ vm' = vm
        /\ pc' = [pc EXCEPT ![c] = "upgrade"]
    BY <1>1, <1>7 DEF WsReturn, Goes
  <2>2. Slots!GiveBack(c)
    BY <1>1, <2>1 DEF Slots!GiveBack
  <2> QED BY <2>2 DEF Slots!Next
<1>8. ASSUME NEW c \in Conn, WsUpstream(c) \/ WsAbandon(c) \/ ProxyConnect(c) \/ ProxyReturn(c)
      PROVE  UNCHANGED Slots!poolVars
  BY <1>1, <1>3, <1>8 DEF WsUpstream, WsAbandon, ProxyConnect, ProxyReturn, Goes
<1>9. ASSUME NEW c \in Conn, NEW v \in Vm, NEW k \in tickets, WsVerify(c, v, k)
      PROVE  UNCHANGED Slots!poolVars
  BY <1>1, <1>3, <1>9 DEF WsVerify
<1>10. ASSUME \/ \E v \in Vm : TicketMint(v)
              \/ \E k \in minting : TicketAnswer(k)
              \/ \E c \in Conn, p \in Pipe : PipeEnds(c, p)
              \/ VncTick
              \/ UNCHANGED vncVars
       PROVE  UNCHANGED Slots!poolVars
  BY <1>2, <1>10 DEF TicketMint, TicketAnswer, PipeEnds, VncTick, vncVars
<1> QED
  BY <1>4, <1>5, <1>6, <1>7, <1>8, <1>9, <1>10 DEF VncNext, ConnStep

\* try_acquire and the drop of the guard implement a pool of MAX_VNC_CONNECTIONS
\* slots per VM, for any number of connections, VMs and slots.
THEOREM ConsoleImplementsSlotPool == VncSpec => ImplementsSlotPool
<1>1. VncInit => Slots!Init
  BY DEF VncInit, Slots!Init
<1> QED
  BY <1>1, ConsoleStepsArePoolSteps, VncInvariant, PTL
     DEF VncSpec, ImplementsSlotPool, Slots!Spec

-----------------------------------------------------------------------------
(* Who is let in.                                                          *)

\* Pipes run only for a connection that is being proxied or was: when a handler
\* gives up, nothing of its connection is left running.
PipesOK ==
  \A c \in Conn : pc[c] \notin {"piping", "returned"} => pipes[c] = {}

TicketInv == VncTypeOK /\ PipesOK /\ ConsoleNeedsTicket

\* Every step preserves it: tickets are never taken back, a connection takes up
\* its VM together with its ticket, and gives it up only while it has no pipes.
LEMMA TicketNextInv ==
  ASSUME TicketInv, VncTypeOK', [VncNext]_vncVars
  PROVE  TicketInv'
<1> USE DEF TicketInv, VncTypeOK, PipesOK, ConsoleNeedsTicket
<1>1. tickets \subseteq tickets'
  BY DEF VncNext, vncVars, ConnStep, TicketMint, TicketAnswer, WsVerify,
     WsUpstream, WsAbandon, WsLimiter, AcquireLoad, AcquireCas, WsReturn,
     ProxyConnect, PipeEnds, ProxyReturn, VncTick
<1>2. ASSUME UNCHANGED <<pc, vm, pipes, ticket>> PROVE TicketInv'
  BY <1>1, <1>2
<1>3. ASSUME NEW c \in Conn, NEW v \in Vm, NEW k \in tickets, WsVerify(c, v, k)
      PROVE  TicketInv'
  BY <1>1, <1>3 DEF WsVerify, Admits
\* The code between the check and the proxy: the connection keeps its VM and its
\* ticket and has no pipes, or it is back at the start.
<1>4. ASSUME NEW c \in Conn, NEW d \in Place,
             pc[c] \notin {"verify", "piping", "returned"},
             pc' = [pc EXCEPT ![c] = d],
             vm' = vm \/ (d = "verify" /\ vm' = [vm EXCEPT ![c] = NoVm]),
             UNCHANGED <<pipes, ticket>>
      PROVE  TicketInv'
  BY <1>1, <1>4
<1>5. ASSUME NEW c \in Conn, ConnStep(c), ~ProxyReturn(c) PROVE TicketInv'
  BY <1>4, <1>5 DEF ConnStep, Place, Goes, limiterVars, WsUpstream, WsAbandon,
     WsLimiter, AcquireLoad, AcquireCas, WsReturn
<1>6. ASSUME NEW c \in Conn, ProxyReturn(c) PROVE TicketInv'
  BY <1>1, <1>6 DEF ProxyReturn, Goes
<1>7. ASSUME NEW c \in Conn, ProxyConnect(c) PROVE TicketInv'
  BY <1>1, <1>7 DEF ProxyConnect, Goes
<1>8. ASSUME NEW c \in Conn, NEW p \in Pipe, PipeEnds(c, p) PROVE TicketInv'
  BY <1>1, <1>8 DEF PipeEnds
<1>9. ASSUME \/ \E v \in Vm : TicketMint(v)
             \/ \E k \in minting : TicketAnswer(k)
             \/ VncTick
             \/ UNCHANGED vncVars
      PROVE  TicketInv'
  BY <1>2, <1>9 DEF TicketMint, TicketAnswer, VncTick, vncVars
<1> HIDE DEF TicketInv, VncTypeOK, PipesOK, ConsoleNeedsTicket
<1> QED
  BY <1>3, <1>5, <1>6, <1>7, <1>8, <1>9 DEF VncNext

\* Whoever is past the check, pipes that outlive their proxy included, was let
\* in by a ticket that an operator received for that very VM.
THEOREM ConsolesHaveTickets == VncSpec => []ConsoleNeedsTicket
<1>1. VncInit => TicketInv
  BY VncInitInv DEF VncInit, VncInv, TicketInv, PipesOK, ConsoleNeedsTicket
<1>2. TicketInv /\ VncTypeOK' /\ [VncNext]_vncVars => TicketInv'
  BY TicketNextInv
<1>3. TicketInv => ConsoleNeedsTicket
  BY DEF TicketInv
<1> QED
  BY <1>1, <1>2, <1>3, VncTypeCorrect, PTL DEF VncSpec
=============================================================================

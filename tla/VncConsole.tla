----------------------------- MODULE VncConsole -----------------------------
(***************************************************************************)
(* The VNC console of moxui (src/api/vnc.rs, src/auth/vnc.rs): signed,     *)
(* short-lived tickets for one VM, the WebSocket handler that redeems      *)
(* them, the per-VM connection limiter, and the proxy task with its two    *)
(* pipes.                                                                  *)
(*                                                                         *)
(* A connection slot c runs one WebSocket request at a time: the handler,  *)
(* then the task it spawns.  The handler is split at every await and at    *)
(* every atomic access of try_acquire.  A ticket is its claims: the HMAC   *)
(* lets nobody else make one (external).  A VM stands for the triple       *)
(* cluster/node/vmid, of which both the ticket's subject and the limiter's *)
(* key are made.                                                           *)
(***************************************************************************)
EXTENDS Naturals, FiniteSets

CONSTANTS
  Vm,        \* VMs of the configured clusters
  Conn,      \* WebSocket requests and proxy tasks at the same time
  NoVm,
  Cap,       \* MAX_VNC_CONNECTIONS_PER_VM
  TicketTTL, \* VNC_TOKEN_TTL_SECS, in clock ticks
  MaxTime    \* bound on the clock of a finite instance

ASSUME VncAssumption ==
  /\ IsFiniteSet(Conn)
  /\ NoVm \notin Vm \cup [sub : Vm, exp : Nat]
  /\ Cap \in Nat
  /\ TicketTTL \in Nat
  /\ MaxTime \in Nat

Pipe == {"browser_to_upstream", "upstream_to_browser"}

VARIABLES
  clock,     \* SystemTime::now(), in ticks
  minting,   \* tickets signed by handlers that still await vnc_proxy
  tickets,   \* tickets that reached an operator
  limiters,  \* keys of AppState.vnc_limiters
  used,      \* VncConnectionLimiter.used, per VM
  pc,        \* where each connection's code is
  vm,        \* the VM it is for
  cur,       \* try_acquire's local variable
  pipes,     \* the pipe tasks of the connection that are running
  ticket     \* history: the ticket that let the connection in

limiterVars == <<limiters, used, cur>>
vncVars == <<clock, minting, tickets, limiters, used, pc, vm, cur, pipes,
             ticket>>

Ticket == [sub : Vm, exp : Nat]

\* "verify": no handler; "vncproxy": waiting for the upstream ticket;
\* "limiter": about to look the limiter up; "load", "cas": in try_acquire;
\* "guarded": holding a VncConnectionGuard; "upgrade": the handler returned,
\* the spawned task connects to the cluster; "piping": the proxy is in its
\* select!; "returned": the proxy's function returned.
Place == {"verify", "vncproxy", "limiter", "load", "cas", "guarded", "upgrade",
          "piping", "returned"}

VncTypeOK ==
  /\ clock \in Nat
  /\ minting \in SUBSET Ticket
  /\ tickets \in SUBSET Ticket
  /\ limiters \in SUBSET Vm
  /\ used \in [Vm -> Nat]
  /\ pc \in [Conn -> Place]
  /\ vm \in [Conn -> Vm \cup {NoVm}]
  /\ cur \in [Conn -> Nat]
  /\ pipes \in [Conn -> SUBSET Pipe]
  /\ ticket \in [Conn -> Ticket \cup {NoVm}]

VncInit ==
  /\ clock = 0
  /\ minting = {}
  /\ tickets = {}
  /\ limiters = {}
  /\ used = [v \in Vm |-> 0]
  /\ pc = [c \in Conn |-> "verify"]
  /\ vm = [c \in Conn |-> NoVm]
  /\ cur = [c \in Conn |-> 0]
  /\ pipes = [c \in Conn |-> {}]
  /\ ticket = [c \in Conn |-> NoVm]

-----------------------------------------------------------------------------
(* POST .../vnc/ticket                                                     *)

\* Mutant: the lifetime is subtracted.
TicketMintBackdated(v) ==
  /\ minting' = minting \cup {[sub |-> v, exp |-> clock - TicketTTL]}
  /\ UNCHANGED <<clock, tickets, limiterVars, pc, vm, pipes, ticket>>

\* An operator asks for a console of a configured VM, and VNC is enabled: the
\* ticket is signed before the upstream is asked.
TicketMint(v) ==
  /\ minting' = minting \cup {[sub |-> v, exp |-> clock + TicketTTL]}
  /\ UNCHANGED <<clock, tickets, limiterVars, pc, vm, pipes, ticket>>

\* The upstream answered (the ticket is sent) or failed (it is dropped).
TicketAnswer(k) ==
  /\ k \in minting
  /\ minting' = minting \ {k}
  /\ \/ tickets' = tickets \cup {k}
     \/ UNCHANGED tickets
  /\ UNCHANGED <<clock, limiterVars, pc, vm, pipes, ticket>>

-----------------------------------------------------------------------------
(* GET .../vnc/ws                                                          *)

Goes(c, from, to) ==
  /\ pc[c] = from
  /\ pc' = [pc EXCEPT ![c] = to]

\* Mutant: the subject is not compared.
AdmitsAnyVm(k, v) == k.exp > clock

\* What verify_vnc_token and the comparison of subjects let through.
Admits(k, v) == k.sub = v /\ k.exp > clock

\* The handler up to its first await.  A slot is taken when nothing of an
\* earlier connection runs in it.
WsVerify(c, v, k) ==
  /\ k \in tickets
  /\ Admits(k, v)
  /\ pc[c] \in {"verify", "returned"} /\ pipes[c] = {}
  /\ pc' = [pc EXCEPT ![c] = "vncproxy"]
  /\ vm' = [vm EXCEPT ![c] = v]
  /\ ticket' = [ticket EXCEPT ![c] = k]
  /\ UNCHANGED <<clock, minting, tickets, limiterVars, pipes>>

\* The upstream handed out its own ticket.
WsUpstream(c) ==
  /\ Goes(c, "vncproxy", "limiter")
  /\ UNCHANGED <<clock, minting, tickets, limiterVars, vm, pipes, ticket>>

\* The handler's future is dropped at one of its two awaits: the upstream
\* failed, or the browser went away.  Nothing is held there.
WsAbandon(c) ==
  /\ pc[c] \in {"vncproxy", "limiter"}
  /\ pc' = [pc EXCEPT ![c] = "verify"]
  /\ vm' = [vm EXCEPT ![c] = NoVm]
  /\ UNCHANGED <<clock, minting, tickets, limiterVars, pipes, ticket>>

\* Get or insert, under the mutex of the map.
WsLimiter(c) ==
  /\ Goes(c, "limiter", "load")
  /\ limiters' = limiters \cup {vm[c]}
  /\ used' = IF vm[c] \in limiters THEN used ELSE [used EXCEPT ![vm[c]] = 0]
  /\ UNCHANGED <<clock, minting, tickets, vm, cur, pipes, ticket>>

\* Mutant: `>` for `>=`.
AcquireLoadOffByOne(c) ==
  /\ pc[c] = "load"
  /\ \/ /\ used[vm[c]] > Cap
        /\ pc' = [pc EXCEPT ![c] = "verify"]
        /\ vm' = [vm EXCEPT ![c] = NoVm]
        /\ UNCHANGED cur
     \/ /\ used[vm[c]] <= Cap
        /\ pc' = [pc EXCEPT ![c] = "cas"]
        /\ cur' = [cur EXCEPT ![c] = used[vm[c]]]
        /\ UNCHANGED vm
  /\ UNCHANGED <<clock, minting, tickets, limiters, used, pipes, ticket>>

\* try_acquire: load, and give up at the cap (429) ...
AcquireLoad(c) ==
  /\ pc[c] = "load"
  /\ \/ /\ used[vm[c]] >= Cap
        /\ pc' = [pc EXCEPT ![c] = "verify"]
        /\ vm' = [vm EXCEPT ![c] = NoVm]
        /\ UNCHANGED cur
     \/ /\ used[vm[c]] < Cap
        /\ pc' = [pc EXCEPT ![c] = "cas"]
        /\ cur' = [cur EXCEPT ![c] = used[vm[c]]]
        /\ UNCHANGED vm
  /\ UNCHANGED <<clock, minting, tickets, limiters, used, pipes, ticket>>

\* Mutants: a plain store for compare_exchange; its two values swapped.
AcquireStore(c) ==
  /\ pc[c] = "cas"
  /\ used' = [used EXCEPT ![vm[c]] = cur[c] + 1]
  /\ pc' = [pc EXCEPT ![c] = "guarded"]
  /\ cur' = [cur EXCEPT ![c] = 0]
  /\ UNCHANGED <<clock, minting, tickets, limiters, vm, pipes, ticket>>

AcquireCasSwapped(c) ==
  /\ pc[c] = "cas"
  /\ \/ /\ used[vm[c]] = cur[c] + 1
        /\ used' = [used EXCEPT ![vm[c]] = cur[c]]
        /\ pc' = [pc EXCEPT ![c] = "guarded"]
     \/ /\ used[vm[c]] # cur[c] + 1
        /\ pc' = [pc EXCEPT ![c] = "load"]
        /\ UNCHANGED used
  /\ cur' = [cur EXCEPT ![c] = 0]
  /\ UNCHANGED <<clock, minting, tickets, limiters, vm, pipes, ticket>>

\* ... then compare_exchange: take the slot if nobody else moved the counter
\* in between, else start again.
AcquireCas(c) ==
  /\ pc[c] = "cas"
  /\ \/ /\ used[vm[c]] = cur[c]
        /\ used' = [used EXCEPT ![vm[c]] = cur[c] + 1]
        /\ pc' = [pc EXCEPT ![c] = "guarded"]
     \/ /\ used[vm[c]] # cur[c]
        /\ pc' = [pc EXCEPT ![c] = "load"]
        /\ UNCHANGED used
  /\ cur' = [cur EXCEPT ![c] = 0]
  /\ UNCHANGED <<clock, minting, tickets, limiters, vm, pipes, ticket>>

\* on_upgrade registers the proxy, and the handler returns: `_guard` is a
\* local of the handler, so its Drop runs here.
WsReturn(c) ==
  /\ Goes(c, "guarded", "upgrade")
  /\ used' = [used EXCEPT ![vm[c]] = @ - 1]
  /\ UNCHANGED <<clock, minting, tickets, limiters, vm, cur, pipes, ticket>>

-----------------------------------------------------------------------------
(* proxmox_vnc_proxy                                                       *)

\* The cluster's WebSocket accepts the connection and both pipes are spawned,
\* or it does not (or the upgrade itself fails) and the task ends.
ProxyConnect(c) ==
  /\ \/ Goes(c, "upgrade", "piping") /\ pipes' = [pipes EXCEPT ![c] = Pipe]
     \/ Goes(c, "upgrade", "returned") /\ UNCHANGED pipes
  /\ UNCHANGED <<clock, minting, tickets, limiterVars, vm, ticket>>

\* A pipe leaves its loop: its peer closed, or a send or a receive failed.
PipeEnds(c, p) ==
  /\ p \in pipes[c]
  /\ pipes' = [pipes EXCEPT ![c] = @ \ {p}]
  /\ UNCHANGED <<clock, minting, tickets, limiterVars, pc, vm, ticket>>

\* select! completes with the first handle and drops the other, which in
\* tokio detaches its task.
ProxyReturn(c) ==
  /\ pipes[c] # Pipe
  /\ Goes(c, "piping", "returned")
  /\ UNCHANGED <<clock, minting, tickets, limiterVars, vm, pipes, ticket>>

VncTick ==
  /\ clock < MaxTime
  /\ clock' = clock + 1
  /\ UNCHANGED <<minting, tickets, limiterVars, pc, vm, pipes, ticket>>

-----------------------------------------------------------------------------

\* What the runtime does with a connection without waiting for a peer: the
\* code between two awaits, and the end of vnc_proxy, which its timeout forces.
\* connect_async and the pipes have no timeout.
ConnStep(c) ==
  \/ WsUpstream(c)
  \/ WsAbandon(c)
  \/ WsLimiter(c)
  \/ AcquireLoad(c)
  \/ AcquireCas(c)
  \/ WsReturn(c)
  \/ ProxyReturn(c)

VncNext ==
  \/ \E v \in Vm : TicketMint(v)
  \/ \E k \in minting : TicketAnswer(k)
  \/ \E c \in Conn, v \in Vm, k \in tickets : WsVerify(c, v, k)
  \/ \E c \in Conn : ConnStep(c)
  \/ \E c \in Conn : ProxyConnect(c)
  \/ \E c \in Conn, p \in Pipe : PipeEnds(c, p)
  \/ VncTick

VncSpec ==
  /\ VncInit
  /\ [][VncNext]_vncVars
  /\ \A c \in Conn : WF_vncVars(ConnStep(c))

-----------------------------------------------------------------------------
(* What makes it correct.                                                  *)

Guards(v) == {c \in Conn : pc[c] = "guarded" /\ vm[c] = v}

\* The counter of a VM is the number of guards alive for it, at every point
\* of the races between load, compare_exchange and Drop: no slot leaks, none
\* is given out twice, and the counter never wraps below zero.
CounterIsGuards == \A v \in Vm : used[v] = Cardinality(Guards(v))

\* No VM has more guards than the cap.
GuardsWithinCap == \A v \in Vm : Cardinality(Guards(v)) <= Cap

\* A counter that is not zero belongs to a limiter that is in the map, so
\* every handler of that VM counts on the same one.
OneLimiterPerVm ==
  /\ \A v \in Vm : used[v] > 0 => v \in limiters
  /\ \A c \in Conn : pc[c] \in {"load", "cas", "guarded"} => vm[c] \in limiters

\* Every connection past the handler's check, its pipes included, was let in
\* by a ticket an operator received for that very VM.
ConsoleNeedsTicket ==
  \A c \in Conn : pc[c] # "verify" \/ pipes[c] # {} =>
    ticket[c] \in tickets /\ ticket[c].sub = vm[c]

\* A handler asks for a slot when it has its limiter, and has one for as long as
\* its guard lives.
Slots == INSTANCE SlotPool WITH
  Client <- Conn, Pool <- Vm, Size <- Cap, NoPool <- NoVm,
  wants <- [c \in Conn |-> IF pc[c] \in {"load", "cas"} THEN vm[c] ELSE NoVm],
  holds <- [c \in Conn |-> IF pc[c] = "guarded" THEN vm[c] ELSE NoVm]

\* "Returns Some(guard) when the counter is below the cap, or None if at
\* capacity": try_acquire looks atomic.  However its loads, its exchanges and
\* the drops of guards interleave, a handler is given a slot at a moment when
\* one was free and answered 429 at a moment when none was.
ImplementsSlotPool == Slots!Spec

\* try_acquire is lock-free: a request can only be kept in its loop for ever
\* by others that take and give back slots for ever.
AcquireIsLockFree ==
  \A c \in Conn :
    <>[](pc[c] \in {"load", "cas"}) => []<>(\E d \in Conn : pc[d] = "guarded")
=============================================================================

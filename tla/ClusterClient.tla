--------------------------- MODULE ClusterClient ----------------------------
(***************************************************************************)
(* The client of one Proxmox cluster (src/proxmox/client.rs): the cached   *)
(* ticket behind its RwLock, the HTTP calls that log in and carry it, and  *)
(* the circuit breaker (src/proxmox/circuit_breaker.rs) they report to.    *)
(*                                                                         *)
(* get, post, post_with_query and post_no_default run the same steps, as   *)
(* do the list_*, detail and ping calls built on get: current_ticket, one  *)
(* HTTP request, handle_response.  A call is split at its awaits, at its   *)
(* uses of the ticket lock, and at the breaker's atomic accesses: they are *)
(* Relaxed, so the two stores of record_success take effect in any order.  *)
(* The cluster (external) answers or not, and issues tickets of TicketLife.*)
(*                                                                         *)
(* Time is in ticks.  Code that awaits nothing takes none, and an HTTP     *)
(* request takes at most HttpTimeout (reqwest's, set in `new`); the        *)
(* shorter limits around some calls drop the call earlier.                 *)
(***************************************************************************)
EXTENDS Naturals

CONSTANTS
  Caller,       \* calls in flight at the same time
  NoTicket,     \* the cache holds None
  TicketLife,   \* lifetime of a ticket from the cluster
  Margin,       \* the 300 seconds of ensure_ticket
  HttpTimeout,  \* the 30 seconds of the HTTP client
  Threshold,    \* failure_threshold
  Cooldown,     \* cooldown
  MaxFailures,  \* bound on failure_count of a finite instance
  MaxTime       \* bound on the clock of a finite instance

ASSUME ClientAssumption ==
  /\ NoTicket \notin Nat
  /\ TicketLife \in Nat /\ Margin \in Nat /\ HttpTimeout \in Nat
  /\ HttpTimeout < Margin
  /\ Margin + HttpTimeout <= TicketLife
  /\ Threshold \in Nat \ {0} /\ Cooldown \in Nat
  /\ MaxFailures \in Nat /\ MaxTime \in Nat

VARIABLES
  clock,          \* wall clock; starts at 1, as 0 in opened_at means "never"
  ticket,         \* expires_at of the cached ticket, or NoTicket
  failure_count,
  opened_at,
  pc,             \* where each call is
  since,          \* when its HTTP request went out
  carried,        \* expires_at of the ticket its request carries
  pending         \* the stores its record_success still has to make

breakerVars == <<failure_count, opened_at>>
clientVars == <<clock, ticket, failure_count, opened_at, pc, since, carried,
                pending>>

\* "login": the login request is out; "stored": login holds the write lock and
\* is in record_success; "ticket": about to read the ticket back; "sending":
\* the request is out; "success", "failure": inside record_success of
\* handle_response, inside record_failure.
Place == {"idle", "login", "stored", "ticket", "sending", "success", "failure"}

Cell == {"failure_count", "opened_at"}

ClientTypeOK ==
  /\ clock \in Nat
  /\ ticket \in Nat \cup {NoTicket}
  /\ failure_count \in Nat
  /\ opened_at \in Nat
  /\ pc \in [Caller -> Place]
  /\ since \in [Caller -> Nat]
  /\ carried \in [Caller -> Nat]
  /\ pending \in [Caller -> SUBSET Cell]

ClientInit ==
  /\ clock = 1
  /\ ticket = NoTicket
  /\ failure_count = 0
  /\ opened_at = 0
  /\ pc = [c \in Caller |-> "idle"]
  /\ since = [c \in Caller |-> 0]
  /\ carried = [c \in Caller |-> 0]
  /\ pending = [c \in Caller |-> {}]

-----------------------------------------------------------------------------
(* The circuit breaker.                                                    *)

state ==
  IF opened_at = 0 THEN "Closed"
  ELSE IF clock - opened_at >= Cooldown THEN "HalfOpen" ELSE "Open"

\* record_failure, first access: fetch_add.  Below the threshold that is all.
record_failure(c) ==
  /\ failure_count < MaxFailures
  /\ failure_count' = failure_count + 1
  /\ pc' = [pc EXCEPT ![c] =
              IF failure_count + 1 >= Threshold THEN "failure" ELSE "idle"]
  /\ UNCHANGED opened_at

\* Second access: the time goes to opened_at.
OpenCircuit(c) ==
  /\ pc[c] = "failure"
  /\ opened_at' = clock
  /\ pc' = [pc EXCEPT ![c] = "idle"]
  /\ UNCHANGED <<clock, ticket, failure_count, since, carried, pending>>

\* Mutant: opened_at is not reset.
record_success_counts_only(c, where) ==
  /\ pc' = [pc EXCEPT ![c] = where]
  /\ pending' = [pending EXCEPT ![c] = {"failure_count"}]

\* record_success: both stores are due, one step each.
record_success(c, where) ==
  /\ pc' = [pc EXCEPT ![c] = where]
  /\ pending' = [pending EXCEPT ![c] = Cell]

ResetCell(c, cell) ==
  /\ cell \in pending[c]
  /\ failure_count' = IF cell = "failure_count" THEN 0 ELSE failure_count
  /\ opened_at' = IF cell = "opened_at" THEN 0 ELSE opened_at
  /\ pending' = [pending EXCEPT ![c] = @ \ {cell}]
  /\ pc' = [pc EXCEPT ![c] =
              IF pending[c] # {cell} THEN @
              ELSE IF @ = "stored" THEN "ticket" ELSE "idle"]
  /\ UNCHANGED <<clock, ticket, since, carried>>

-----------------------------------------------------------------------------
(* Tickets and calls.                                                      *)

\* login keeps the write lock to its end, record_success included.
WriteLocked == \E c \in Caller : pc[c] = "stored"

\* Mutants: no margin; None taken for a ticket.
refresh_when_expired == ticket = NoTicket \/ ticket < clock

refresh_if_present == ticket # NoTicket /\ ticket < clock + Margin

should_refresh == ticket = NoTicket \/ ticket < clock + Margin

\* ensure_ticket: look at the cached ticket; log in, outside the lock, when it
\* is missing or close to its end.
ensure_ticket(c) ==
  /\ pc[c] = "idle"
  /\ ~WriteLocked
  /\ pc' = [pc EXCEPT ![c] = IF should_refresh THEN "login" ELSE "ticket"]
  /\ since' = [since EXCEPT ![c] = clock]
  /\ UNCHANGED <<clock, ticket, breakerVars, carried, pending>>

\* Mutant: the lifetime is subtracted.
LoginOkBackdated(c) ==
  /\ pc[c] = "login"
  /\ ~WriteLocked
  /\ \E issued \in since[c] .. clock : ticket' = issued - TicketLife
  /\ record_success(c, "stored")
  /\ UNCHANGED <<clock, breakerVars, since, carried>>

\* The login request succeeded: the ticket the cluster issued at some moment
\* of the request is stored, over whatever another call may have stored.
LoginOk(c) ==
  /\ pc[c] = "login"
  /\ ~WriteLocked
  /\ \E issued \in since[c] .. clock : ticket' = issued + TicketLife
  /\ record_success(c, "stored")
  /\ UNCHANGED <<clock, breakerVars, since, carried>>

\* current_ticket reads the cache again, and the request goes out with it.
SendRequest(c) ==
  /\ pc[c] = "ticket"
  /\ ~WriteLocked
  /\ ticket # NoTicket
  /\ carried' = [carried EXCEPT ![c] = ticket]
  /\ since' = [since EXCEPT ![c] = clock]
  /\ pc' = [pc EXCEPT ![c] = "sending"]
  /\ UNCHANGED <<clock, ticket, breakerVars, pending>>

\* handle_response of a 2xx answer whose body decodes.
ResponseOk(c) ==
  /\ pc[c] = "sending"
  /\ record_success(c, "success")
  /\ UNCHANGED <<clock, ticket, breakerVars, since, carried>>

\* Any other status, of the login or of the call itself.
ResponseRefused(c) ==
  /\ pc[c] \in {"login", "sending"}
  /\ record_failure(c)
  /\ UNCHANGED <<clock, ticket, since, carried, pending>>

\* No answer (connection refused, a timeout, the caller gone, be it between
\* ensure_ticket and sending) or a 2xx answer whose body does not decode: an
\* error or a drop, and the breaker hears nothing of it.
CallLost(c) ==
  /\ pc[c] \in {"login", "ticket", "sending"}
  /\ pc' = [pc EXCEPT ![c] = "idle"]
  /\ UNCHANGED <<clock, ticket, breakerVars, since, carried, pending>>

Tick ==
  /\ clock < MaxTime
  /\ \A c \in Caller :
       \/ pc[c] = "idle"
       \/ pc[c] \in {"login", "sending"} /\ clock < since[c] + HttpTimeout
  /\ clock' = clock + 1
  /\ UNCHANGED <<ticket, breakerVars, pc, since, carried, pending>>

-----------------------------------------------------------------------------

\* The steps the runtime takes by itself once it can.
CallerStep(c) ==
  \/ SendRequest(c)
  \/ OpenCircuit(c)
  \/ \E cell \in Cell : ResetCell(c, cell)

ClientNext ==
  \/ \E c \in Caller : ensure_ticket(c)
  \/ \E c \in Caller : LoginOk(c)
  \/ \E c \in Caller : ResponseOk(c)
  \/ \E c \in Caller : ResponseRefused(c)
  \/ \E c \in Caller : CallLost(c)
  \/ \E c \in Caller : CallerStep(c)
  \/ Tick

ClientSpec ==
  /\ ClientInit
  /\ [][ClientNext]_clientVars
  /\ \A c \in Caller : WF_clientVars(CallerStep(c))

-----------------------------------------------------------------------------
(* What makes it correct.                                                  *)

\* The ticket a request carries is valid until the request ends, whatever
\* concurrent logins stored between the check, the login and the second read.
TicketOutlivesRequest ==
  \A c \in Caller : pc[c] = "sending" => carried[c] > clock

\* Between ensure_ticket and the second read the cache is never empty: the
\* error "ticket missing after ensure" cannot happen.
TicketPresentAfterEnsure ==
  \A c \in Caller : pc[c] \in {"stored", "ticket"} => ticket # NoTicket

\* A cluster that stops refusing calls, and keeps serving some, is not held
\* open for ever: the breaker ends up closed whatever was in flight.
BreakerRecovers ==
  /\ <>[][\A c \in Caller : ~ResponseRefused(c)]_clientVars
  /\ []<>(\E c \in Caller : pc[c] = "success")
  => <>[](state = "Closed")

=============================================================================

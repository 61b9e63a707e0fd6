----------------------------- MODULE Readiness -----------------------------
(***************************************************************************)
(* The readiness cache of moxui (AppState::readiness in src/state.rs) under *)
(* GET /readyz (src/api/health.rs).  A probe reads the cache, pings the    *)
(* clusters whose entry is stale, each for at most PingTimeout             *)
(* (ProxmoxClient::ping), waits for all of them, writes what they said and *)
(* then reports the whole cache.  Probes overlap freely: the lock is held  *)
(* for the reading, the writing and the reporting only.                    *)
(*                                                                         *)
(* Time is kept as ages, each of which stops counting when no comparison   *)
(* can tell it from a greater one; there is no bound on a behaviour's      *)
(* length.  Steps that wait for nothing but the lock take no time.         *)
(***************************************************************************)
EXTENDS Naturals

CONSTANTS
  Cluster,     \* the configured clusters
  Probe,       \* calls of readyz in flight
  TTL,         \* READINESS_CACHE_TTL
  PingTimeout  \* PING_TIMEOUT_SECS

Horizon == TTL + 2 * PingTimeout

Status == {"healthy", "unhealthy"}

ASSUME ReadinessAssumption == TTL \in Nat /\ PingTimeout \in Nat

VARIABLES
  status,  \* status[c]: the cached status, "none" before the first
  age,     \* age[c]: how long ago the entry was stamped, up to TTL + 1
  stage,      \* stage[p]: where the probe is
  ping,    \* ping[p][c]: "no", "waiting" or what the cluster's ping gave
  waited,  \* waited[p]: how long its pings have been out
  answer,  \* answer[p]: the HTTP status it reports
  passed,  \* history, passed[c]: how long ago c last passed a ping, and
  failed   \* failed[c]: last failed one, up to Horizon + 1

readinessVars == <<status, age, stage, ping, waited, answer, passed, failed>>

ReadinessInit ==
  /\ status = [c \in Cluster |-> "none"]
  /\ age = [c \in Cluster |-> 0]
  /\ stage = [p \in Probe |-> "idle"]
  /\ ping = [p \in Probe |-> [c \in Cluster |-> "no"]]
  /\ waited = [p \in Probe |-> 0]
  /\ answer = [p \in Probe |-> 0]
  /\ passed = [c \in Cluster |-> Horizon + 1]
  /\ failed = [c \in Cluster |-> Horizon + 1]

-----------------------------------------------------------------------------
(* GET /readyz.                                                            *)

\* `duration_since(ts) > TTL`.  An entry that was stamped TTL ticks ago may be a
\* little older than TTL or a little younger, and the entries of one probe are
\* stamped one after the other: each may fall on either side.
Stale == {c \in Cluster : status[c] = "none" \/ age[c] > TTL}
Borderline == {c \in Cluster : age[c] = TTL}

\* Step 1 of readiness, and the start of step 2.
FindStale(p, to_probe) ==
  /\ stage[p] = "idle"
  /\ ping' = [ping EXCEPT ![p] =
       [c \in Cluster |-> IF c \in to_probe THEN "waiting" ELSE "no"]]
  /\ stage' = [stage EXCEPT ![p] = IF to_probe # {} THEN "ping" ELSE "report"]
  /\ UNCHANGED <<status, age, waited, answer, passed, failed>>

\* ping: a ticket is had and /version answers, or either fails or is too slow.
Pong(p, c, s) ==
  /\ stage[p] = "ping" /\ ping[p][c] = "waiting"
  /\ ping' = [ping EXCEPT ![p][c] = s]
  /\ IF s = "healthy"
       THEN passed' = [passed EXCEPT ![c] = 0] /\ UNCHANGED failed
       ELSE failed' = [failed EXCEPT ![c] = 0] /\ UNCHANGED passed
  /\ UNCHANGED <<status, age, stage, waited, answer>>

AllIn(p) == stage[p] = "ping" /\ \A c \in Cluster : ping[p][c] # "waiting"

\* Mutant: a cluster that did not answer keeps the entry that it has.
WriteBackAnswers(p) ==
  /\ AllIn(p)
  /\ status' = [c \in Cluster |->
       IF ping[p][c] = "healthy" \/ (ping[p][c] # "no" /\ status[c] = "none")
         THEN ping[p][c] ELSE status[c]]
  /\ age' = [c \in Cluster |-> IF ping[p][c] = "healthy" THEN 0 ELSE age[c]]
  /\ stage' = [stage EXCEPT ![p] = "report"]
  /\ ping' = [ping EXCEPT ![p] = [c \in Cluster |-> "no"]]
  /\ UNCHANGED <<waited, answer, passed, failed>>

\* The end of step 2: what the pings gave, stamped with the present, over
\* whatever other probes have written since step 1.
WriteBack(p) ==
  /\ AllIn(p)
  /\ status' = [c \in Cluster |-> IF ping[p][c] = "no" THEN status[c] ELSE ping[p][c]]
  /\ age' = [c \in Cluster |-> IF ping[p][c] = "no" THEN age[c] ELSE 0]
  /\ stage' = [stage EXCEPT ![p] = "report"]
  /\ ping' = [ping EXCEPT ![p] = [c \in Cluster |-> "no"]]
  /\ UNCHANGED <<waited, answer, passed, failed>>

\* ReadinessSnapshot::all_healthy.
all_healthy == \A c \in Cluster : status[c] # "unhealthy"

\* Step 3, and readyz's answer.
Report(p) ==
  /\ stage[p] = "report"
  /\ answer' = [answer EXCEPT ![p] = IF all_healthy THEN 200 ELSE 503]
  /\ stage' = [stage EXCEPT ![p] = "done"]
  /\ UNCHANGED <<status, age, ping, waited, passed, failed>>

\* The handler ends, and what it kept is gone.
Ends(p) ==
  /\ stage' = [stage EXCEPT ![p] = "idle"]
  /\ ping' = [ping EXCEPT ![p] = [c \in Cluster |-> "no"]]
  /\ waited' = [waited EXCEPT ![p] = 0]
  /\ answer' = [answer EXCEPT ![p] = 0]
  /\ UNCHANGED <<status, age, passed, failed>>

Answered(p) == stage[p] = "done" /\ Ends(p)

\* The prober does not wait: its handler is dropped, and what its pings gave is
\* not written.
HangUp(p) == stage[p] \in {"ping", "report"} /\ Ends(p)

-----------------------------------------------------------------------------
(* The clock.                                                              *)

Older(a, most) == IF a < most THEN a + 1 ELSE a

\* tokio::time::timeout.
TimedOut(p) == waited[p] = PingTimeout

\* Nobody has anything to do but wait for a ping that may still be out.
Waiting(p) == stage[p] = "idle" \/ (stage[p] = "ping" /\ ~AllIn(p) /\ ~TimedOut(p))

ReadinessTick ==
  /\ \A p \in Probe : Waiting(p)
  /\ age' = [c \in Cluster |-> IF status[c] = "none" THEN 0 ELSE Older(age[c], TTL + 1)]
  /\ passed' = [c \in Cluster |-> Older(passed[c], Horizon + 1)]
  /\ failed' = [c \in Cluster |-> Older(failed[c], Horizon + 1)]
  /\ waited' = [p \in Probe |->
       IF stage[p] = "ping" THEN Older(waited[p], PingTimeout) ELSE 0]
  /\ UNCHANGED <<status, stage, ping, answer>>

ReadinessNext ==
  \/ \E p \in Probe, B \in SUBSET Borderline : FindStale(p, Stale \cup B)
  \/ \E p \in Probe, c \in Cluster, s \in Status : Pong(p, c, s)
  \/ \E p \in Probe : WriteBack(p)
  \/ \E p \in Probe : Report(p)
  \/ \E p \in Probe : Answered(p)
  \/ \E p \in Probe : HangUp(p)
  \/ ReadinessTick

ReadinessSpec == ReadinessInit /\ [][ReadinessNext]_readinessVars

-----------------------------------------------------------------------------
(* What makes it correct.                                                  *)

\* A probe that says 200 speaks for every configured cluster, and each of them
\* did pass a ping at most TTL + 2 * PingTimeout ago; one that says 503 has a
\* cluster that failed a ping as recently.  Another probe may have written the
\* entry late, over a younger one, and this one may have waited for others.
VerdictsAreRecent ==
  \A p \in Probe : stage[p] = "done" =>
    IF answer[p] = 200
      THEN \A c \in Cluster : passed[c] <= Horizon
      ELSE \E c \in Cluster : failed[c] <= Horizon
=============================================================================

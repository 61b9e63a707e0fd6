-------------------------- MODULE Clusters_proofs ---------------------------
(***************************************************************************)
(* Theorems about what moxui keeps of its clusters: the client's ticket    *)
(* and circuit breaker, for any number of concurrent calls, any times that *)
(* satisfy ClientAssumption, and a clock without a bound; and the          *)
(* readiness cache, for any clusters, overlapping probes and times.        *)
(***************************************************************************)
EXTENDS ClusterClient, Readiness, TLAPS

-----------------------------------------------------------------------------
(* One cluster's client.                                                   *)

\* What every step preserves.  A call between ensure_ticket and its second
\* read relies on the cached ticket, which another call may replace at any
\* moment: what it relies on is that the replacement, too, has Margin left.
\* A request in flight carries a ticket that had Margin left when it started,
\* and is no older than HttpTimeout.
ClientInv ==
  /\ ClientTypeOK
  /\ \A c \in Caller : pc[c] \in {"stored", "ticket"} =>
        ticket # NoTicket /\ ticket >= clock + Margin
  /\ \A c \in Caller : pc[c] \in {"login", "sending"} =>
        since[c] <= clock /\ clock <= since[c] + HttpTimeout
  /\ \A c \in Caller : pc[c] = "sending" => carried[c] >= since[c] + Margin

\* No call is in flight at startup, so the invariant asks for nothing but types.
LEMMA ClientInitInv == ClientInit => ClientInv
  BY ClientAssumption DEF ClientInit, ClientInv, ClientTypeOK, Place

\* Every step preserves the invariant.  LoginOk is the step that matters: the
\* ticket it stores was issued at most HttpTimeout ago.
LEMMA ClientNextInv == ClientInv /\ [ClientNext]_clientVars => ClientInv'
<1> SUFFICES ASSUME ClientInv, [ClientNext]_clientVars PROVE ClientInv'
  OBVIOUS
<1> USE ClientAssumption DEF ClientInv, ClientTypeOK, Place, Cell
<1>1. CASE UNCHANGED clientVars
  BY <1>1 DEF clientVars
<1>2. ASSUME NEW c \in Caller, ensure_ticket(c) PROVE ClientInv'
  BY <1>2 DEF ensure_ticket, should_refresh, breakerVars
<1>3. ASSUME NEW c \in Caller, LoginOk(c) PROVE ClientInv'
  <2>1. PICK issued \in since[c] .. clock : ticket' = issued + TicketLife
    BY <1>3 DEF LoginOk
  <2>2. issued \in Nat /\ since[c] <= issued /\ clock <= since[c] + HttpTimeout
    BY <1>3, <2>1 DEF LoginOk
  <2>3. ticket' \in Nat /\ ticket' >= clock + Margin
    BY <2>1, <2>2
  <2> QED
    BY <1>3, <2>3 DEF LoginOk, record_success, breakerVars
<1>4. ASSUME NEW c \in Caller, ResponseOk(c) PROVE ClientInv'
  BY <1>4 DEF ResponseOk, record_success, breakerVars
<1>5. ASSUME NEW c \in Caller, ResponseRefused(c) PROVE ClientInv'
  BY <1>5 DEF ResponseRefused, record_failure
<1>6. ASSUME NEW c \in Caller, CallLost(c) PROVE ClientInv'
  BY <1>6 DEF CallLost, breakerVars
<1>7. ASSUME NEW c \in Caller, SendRequest(c) PROVE ClientInv'
  BY <1>7 DEF SendRequest, breakerVars
<1>8. ASSUME NEW c \in Caller, OpenCircuit(c) PROVE ClientInv'
  BY <1>8 DEF OpenCircuit
<1>9. ASSUME NEW c \in Caller, NEW cell \in Cell, ResetCell(c, cell)
      PROVE  ClientInv'
  BY <1>9 DEF ResetCell
<1>10. CASE Tick
  BY <1>10 DEF Tick, breakerVars
<1> QED
  BY <1>1, <1>2, <1>3, <1>4, <1>5, <1>6, <1>7, <1>8, <1>9, <1>10
     DEF ClientNext, CallerStep

\* The invariant holds in every reachable state.
THEOREM ClientInvariant == ClientSpec => []ClientInv
  BY ClientInitInv, ClientNextInv, PTL DEF ClientSpec

\* Type correctness of the client's state.
THEOREM ClientTypeCorrect == ClientSpec => []ClientTypeOK
<1>1. ClientInv => ClientTypeOK
  BY DEF ClientInv
<1> QED BY <1>1, ClientInvariant, PTL

\* No request outlives the ticket it carries: the 300 seconds of ensure_ticket
\* cover the 30 seconds a request, and a login racing with it, may take.
THEOREM RequestsCarryValidTickets == ClientSpec => []TicketOutlivesRequest
<1>1. ClientInv => TicketOutlivesRequest
  BY ClientAssumption DEF ClientInv, ClientTypeOK, TicketOutlivesRequest
<1> QED BY <1>1, ClientInvariant, PTL

\* current_ticket never finds the cache empty after ensure_ticket.
THEOREM TicketIsThere == ClientSpec => []TicketPresentAfterEnsure
<1>1. ClientInv => TicketPresentAfterEnsure
  BY DEF ClientInv, TicketPresentAfterEnsure
<1> QED BY <1>1, ClientInvariant, PTL

-----------------------------------------------------------------------------
(* The readiness cache of all of them.                                     *)

\* Types.  waited stops at PingTimeout, the other ages one past what anything is
\* compared with.
ReadinessTypeOK ==
  /\ status \in [Cluster -> Status \cup {"none"}]
  /\ age \in [Cluster -> 0 .. TTL + 1]
  /\ stage \in [Probe -> {"idle", "ping", "report", "done"}]
  /\ ping \in [Probe -> [Cluster -> Status \cup {"no", "waiting"}]]
  /\ waited \in [Probe -> 0 .. PingTimeout]
  /\ answer \in [Probe -> {0, 200, 503}]
  /\ passed \in [Cluster -> 0 .. Horizon + 1]
  /\ failed \in [Cluster -> 0 .. Horizon + 1]

\* Status s is what a ping of c gave, at most d ago.
Within(c, s, d) ==
  /\ s = "healthy" => passed[c] <= d
  /\ s = "unhealthy" => failed[c] <= d

\* An entry is stamped when a probe has all its pings, at most PingTimeout after
\* the ping that it tells of.
EntriesOK ==
  \A c \in Cluster :
    /\ status[c] = "none" => age[c] = 0
    /\ age[c] <= TTL => Within(c, status[c], age[c] + PingTimeout)

\* A probe that pings has what its own pings gave since it began; the entries of
\* the other clusters were fresh then, and whatever replaced them is younger.
PingingOK ==
  \A p \in Probe : stage[p] = "ping" =>
    \A c \in Cluster :
      /\ Within(c, ping[p][c], waited[p])
      /\ ping[p][c] = "no" =>
           status[c] # "none" /\ Within(c, status[c], TTL + PingTimeout + waited[p])

\* A probe that reports finds an entry of every cluster, none too old.
ReportingOK ==
  \A p \in Probe : stage[p] = "report" =>
    \A c \in Cluster : status[c] # "none" /\ Within(c, status[c], Horizon)

\* What every step preserves.
ReadinessInv ==
  /\ ReadinessTypeOK
  /\ EntriesOK
  /\ PingingOK
  /\ ReportingOK
  /\ VerdictsAreRecent

\* The readiness cache is empty at startup.
LEMMA ReadinessInitInv == ReadinessInit => ReadinessInv
  BY ReadinessAssumption
     DEF ReadinessInit, ReadinessInv, ReadinessTypeOK, EntriesOK, PingingOK,
         ReportingOK, VerdictsAreRecent, Within, Status, Horizon

\* Step 1 of readiness: the entries that a probe does not ping again are younger
\* than TTL, or as old.
LEMMA FindStaleInv ==
  ASSUME ReadinessInv, NEW p \in Probe, NEW B \in SUBSET Borderline,
         FindStale(p, Stale \cup B)
  PROVE  ReadinessInv'
<1> USE ReadinessAssumption DEF ReadinessInv, FindStale, Status, Horizon
<1>1. ReadinessTypeOK'
  BY DEF ReadinessTypeOK
<1>2. EntriesOK'
  BY DEF EntriesOK, Within
<1>3. ASSUME NEW c \in Cluster, c \notin Stale \cup B
      PROVE  status[c] # "none" /\ Within(c, status[c], TTL + PingTimeout)
  <2>1. status[c] # "none" /\ age[c] <= TTL /\ age[c] \in Nat
    BY <1>3 DEF Stale, ReadinessTypeOK
  <2>2. passed[c] \in Nat /\ failed[c] \in Nat
    BY DEF ReadinessTypeOK
  <2> QED BY <2>1, <2>2 DEF EntriesOK, Within
<1>4. PingingOK'
  <2> SUFFICES ASSUME NEW q \in Probe, stage'[q] = "ping", NEW c \in Cluster
               PROVE  /\ Within(c, ping[q][c], waited[q])'
                      /\ ping'[q][c] = "no" =>
                           /\ status[c] # "none"
                           /\ Within(c, status[c], TTL + PingTimeout + waited[q])'
    BY DEF PingingOK
  <2>1. CASE q # p
    <3>1. stage[q] = "ping" /\ ping'[q] = ping[q]
      BY <2>1 DEF ReadinessTypeOK
    <3> QED BY <3>1 DEF PingingOK, Within
  <2>2. CASE q = p
    <3>1. ping'[p][c] = IF c \in Stale \cup B THEN "waiting" ELSE "no"
      BY DEF ReadinessTypeOK
    <3>2. waited[p] \in Nat /\ passed[c] \in Nat /\ failed[c] \in Nat
      BY DEF ReadinessTypeOK
    <3> QED BY <2>2, <3>1, <3>2, <1>3 DEF Within
  <2> QED BY <2>1, <2>2
<1>5. ReportingOK'
  <2> SUFFICES ASSUME NEW q \in Probe, stage'[q] = "report", NEW c \in Cluster
               PROVE  status[c] # "none" /\ Within(c, status[c], Horizon)
    BY DEF ReportingOK, Within
  <2>1. CASE q # p
    BY <2>1 DEF ReportingOK, ReadinessTypeOK
  <2>2. CASE q = p
    <3>1. c \notin Stale \cup B
      BY <2>2 DEF ReadinessTypeOK
    <3>2. passed[c] \in Nat /\ failed[c] \in Nat
      BY DEF ReadinessTypeOK
    <3> QED BY <3>1, <3>2, <1>3 DEF Within
  <2> QED BY <2>1, <2>2
<1>6. VerdictsAreRecent'
  BY DEF VerdictsAreRecent, ReadinessTypeOK
<1> QED BY <1>1, <1>2, <1>4, <1>5, <1>6

\* A ping that ends makes what is known of its cluster younger, of nothing older.
LEMMA PongInv ==
  ASSUME ReadinessInv, NEW p \in Probe, NEW c \in Cluster, NEW s \in Status,
         Pong(p, c, s)
  PROVE  ReadinessInv'
<1> USE ReadinessAssumption DEF ReadinessInv, Pong, Status, Horizon
<1>1. ReadinessTypeOK'
  BY DEF ReadinessTypeOK
<1>2. \A d \in Cluster :
        /\ passed[d] \in Nat /\ failed[d] \in Nat
        /\ passed'[d] \in Nat /\ failed'[d] \in Nat
        /\ passed'[d] <= passed[d] /\ failed'[d] <= failed[d]
  BY DEF ReadinessTypeOK
<1>3. \A d \in Cluster : \A u, n : n \in Nat /\ Within(d, u, n) => Within(d, u, n)'
  BY <1>2 DEF Within
<1>4. EntriesOK'
  <2> SUFFICES ASSUME NEW d \in Cluster, age[d] <= TTL
               PROVE  /\ status[d] = "none" => age[d] = 0
                      /\ Within(d, status[d], age[d] + PingTimeout)'
    BY DEF EntriesOK
  <2>1. age[d] + PingTimeout \in Nat
    BY DEF ReadinessTypeOK
  <2> QED BY <2>1, <1>3 DEF EntriesOK
<1>5. PingingOK'
  <2> SUFFICES ASSUME NEW q \in Probe, stage[q] = "ping", NEW d \in Cluster
               PROVE  /\ Within(d, ping[q][d], waited[q])'
                      /\ ping'[q][d] = "no" =>
                           /\ status[d] # "none"
                           /\ Within(d, status[d], TTL + PingTimeout + waited[q])'
    BY DEF PingingOK
  <2>1. waited[q] \in Nat /\ TTL + PingTimeout + waited[q] \in Nat
    BY DEF ReadinessTypeOK
  <2>2. CASE q = p /\ d = c
    <3>1. ping'[q][d] = s /\ (s = "healthy" => passed'[d] = 0)
                          /\ (s = "unhealthy" => failed'[d] = 0)
      BY <2>2 DEF ReadinessTypeOK
    <3> QED BY <3>1, <2>1 DEF Within
  <2>3. CASE ~(q = p /\ d = c)
    <3>1. ping'[q][d] = ping[q][d]
      BY <2>3 DEF ReadinessTypeOK
    <3> QED BY <3>1, <2>1, <1>3 DEF PingingOK
  <2> QED BY <2>2, <2>3
<1>6. ReportingOK'
  BY <1>3 DEF ReportingOK
<1>7. VerdictsAreRecent'
  <2> SUFFICES ASSUME NEW q \in Probe, stage[q] = "done"
               PROVE  IF answer[q] = 200
                        THEN \A d \in Cluster : passed'[d] <= Horizon
                        ELSE \E d \in Cluster : failed'[d] <= Horizon
    BY DEF VerdictsAreRecent
  <2> QED BY <1>2 DEF VerdictsAreRecent
<1> QED BY <1>1, <1>4, <1>5, <1>6, <1>7

\* Whatever another probe has written meanwhile, this one's pings are at most
\* PingTimeout old, so every entry it leaves is recent.
LEMMA WriteBackInv ==
  ASSUME ReadinessInv, NEW p \in Probe, WriteBack(p)
  PROVE  ReadinessInv'
<1> USE ReadinessAssumption DEF ReadinessInv, WriteBack, AllIn, Status, Horizon
<1>1. ReadinessTypeOK'
  BY DEF ReadinessTypeOK
<1>2. \A d \in Cluster : passed[d] \in Nat /\ failed[d] \in Nat
  BY DEF ReadinessTypeOK
<1>3. waited[p] \in Nat /\ waited[p] <= PingTimeout
  BY DEF ReadinessTypeOK
<1>4. \A d \in Cluster : ping[p][d] # "no" =>
        /\ status'[d] = ping[p][d] /\ status'[d] \in Status /\ age'[d] = 0
        /\ Within(d, status'[d], PingTimeout)
  BY <1>2, <1>3 DEF PingingOK, Within, ReadinessTypeOK
<1>5. \A d \in Cluster : ping[p][d] = "no" =>
        status'[d] = status[d] /\ age'[d] = age[d]
  OBVIOUS
<1>6. EntriesOK'
  <2> SUFFICES ASSUME NEW d \in Cluster
               PROVE  /\ status'[d] = "none" => age'[d] = 0
                      /\ age'[d] <= TTL => Within(d, status'[d], age'[d] + PingTimeout)
    BY DEF EntriesOK, Within
  <2>1. CASE ping[p][d] # "no"
    BY <2>1, <1>2, <1>4 DEF Within
  <2>2. CASE ping[p][d] = "no"
    BY <2>2, <1>5 DEF EntriesOK
  <2> QED BY <2>1, <2>2
<1>7. PingingOK'
  <2> SUFFICES ASSUME NEW q \in Probe, stage'[q] = "ping", NEW d \in Cluster
               PROVE  /\ Within(d, ping'[q][d], waited[q])
                      /\ ping'[q][d] = "no" =>
                           /\ status'[d] # "none"
                           /\ Within(d, status'[d], TTL + PingTimeout + waited[q])
    BY DEF PingingOK, Within
  <2>1. q # p /\ stage[q] = "ping" /\ ping'[q] = ping[q] /\ waited[q] \in Nat
    BY DEF ReadinessTypeOK
  <2>2. CASE ping[p][d] # "no"
    BY <2>1, <2>2, <1>2, <1>4 DEF PingingOK, Within
  <2>3. CASE ping[p][d] = "no"
    BY <2>1, <2>3, <1>5 DEF PingingOK
  <2> QED BY <2>2, <2>3
<1>8. ReportingOK'
  <2> SUFFICES ASSUME NEW q \in Probe, stage'[q] = "report", NEW d \in Cluster
               PROVE  status'[d] # "none" /\ Within(d, status'[d], Horizon)
    BY DEF ReportingOK, Within
  <2>1. CASE ping[p][d] # "no"
    BY <2>1, <1>2, <1>4 DEF Within
  <2>2. CASE ping[p][d] = "no" /\ q = p
    <3>1. status[d] # "none" /\ Within(d, status[d], TTL + PingTimeout + waited[p])
      BY <2>2 DEF PingingOK
    <3> QED BY <2>2, <3>1, <1>2, <1>3, <1>5 DEF Within
  <2>3. CASE ping[p][d] = "no" /\ q # p
    BY <2>3, <1>5 DEF ReportingOK, ReadinessTypeOK
  <2> QED BY <2>1, <2>2, <2>3
<1>9. VerdictsAreRecent'
  BY DEF VerdictsAreRecent, ReadinessTypeOK
<1> QED BY <1>1, <1>6, <1>7, <1>8, <1>9

\* readyz answers from entries that are all recent, whoever wrote them.
LEMMA ReportInv ==
  ASSUME ReadinessInv, NEW p \in Probe, Report(p)
  PROVE  ReadinessInv'
<1> USE ReadinessAssumption DEF ReadinessInv, Report, Status, Horizon
<1>1. ReadinessTypeOK'
  BY DEF ReadinessTypeOK
<1>2. EntriesOK' /\ PingingOK' /\ ReportingOK'
  BY DEF EntriesOK, PingingOK, ReportingOK, Within, ReadinessTypeOK
<1>3. VerdictsAreRecent'
  <2> SUFFICES ASSUME NEW q \in Probe, stage'[q] = "done"
               PROVE  IF answer'[q] = 200
                        THEN \A c \in Cluster : passed[c] <= Horizon
                        ELSE \E c \in Cluster : failed[c] <= Horizon
    BY DEF VerdictsAreRecent
  <2>1. CASE q # p
    BY <2>1 DEF VerdictsAreRecent, ReadinessTypeOK
  <2>2. CASE q = p
    <3>1. \A c \in Cluster : status[c] \in Status /\ Within(c, status[c], Horizon)
      BY DEF ReportingOK, ReadinessTypeOK
    <3>2. answer'[q] = IF all_healthy THEN 200 ELSE 503
      BY <2>2 DEF ReadinessTypeOK
    <3> QED BY <3>1, <3>2 DEF all_healthy, Within
  <2> QED BY <2>1, <2>2
<1> QED BY <1>1, <1>2, <1>3

\* A probe that has answered, or was dropped, leaves the cache as it is.
LEMMA EndsInv ==
  ASSUME ReadinessInv, NEW p \in Probe, Ends(p)
  PROVE  ReadinessInv'
<1> USE ReadinessAssumption DEF ReadinessInv, Ends, Status, Horizon
<1>1. ReadinessTypeOK'
  BY DEF ReadinessTypeOK
<1>2. EntriesOK'
  BY DEF EntriesOK, Within
<1>3. \A q \in Probe : stage'[q] # "idle" =>
        /\ stage'[q] = stage[q] /\ ping'[q] = ping[q]
        /\ waited'[q] = waited[q] /\ answer'[q] = answer[q]
  BY DEF ReadinessTypeOK
<1>4. PingingOK' /\ ReportingOK' /\ VerdictsAreRecent'
  BY <1>3 DEF PingingOK, ReportingOK, VerdictsAreRecent, Within
<1> QED BY <1>1, <1>2, <1>4

\* Time ages everything alike, and no ping beyond its timeout: while it passes,
\* every probe is idle or has a ping out that is not TimedOut.
LEMMA ReadinessTickInv ==
  ASSUME ReadinessInv, ReadinessTick
  PROVE  ReadinessInv'
<1> USE ReadinessAssumption DEF ReadinessInv, ReadinessTick, Status, Horizon
<1>1. ReadinessTypeOK'
  BY DEF ReadinessTypeOK, Older
<1>2. \A d \in Cluster :
        /\ passed[d] \in Nat /\ failed[d] \in Nat /\ age[d] \in Nat
        /\ passed'[d] \in Nat /\ failed'[d] \in Nat
        /\ passed'[d] <= passed[d] + 1 /\ failed'[d] <= failed[d] + 1
  BY DEF ReadinessTypeOK, Older
<1>3. \A d \in Cluster : \A u, n : n \in Nat /\ Within(d, u, n) => Within(d, u, n + 1)'
  BY <1>2 DEF Within
<1>4. EntriesOK'
  <2> SUFFICES ASSUME NEW d \in Cluster
               PROVE  /\ status[d] = "none" => age'[d] = 0
                      /\ age'[d] <= TTL => Within(d, status[d], age[d] + PingTimeout)'
    BY DEF EntriesOK
  <2>1. CASE status[d] = "none"
    BY <2>1 DEF Within
  <2>2. CASE status[d] # "none"
    <3> SUFFICES ASSUME age'[d] <= TTL
                 PROVE  Within(d, status[d], age[d] + PingTimeout)'
      BY <2>2
    <3>1. age'[d] = age[d] + 1 /\ age[d] <= TTL
      BY <2>2, <1>2 DEF Older, ReadinessTypeOK
    <3>2. Within(d, status[d], (age[d] + PingTimeout))
      BY <3>1 DEF EntriesOK
    <3>3. passed'[d] <= age'[d] + PingTimeout \/ status[d] # "healthy"
      BY <3>1, <3>2, <1>2 DEF Within
    <3>4. failed'[d] <= age'[d] + PingTimeout \/ status[d] # "unhealthy"
      BY <3>1, <3>2, <1>2 DEF Within
    <3> QED BY <3>3, <3>4 DEF Within
  <2> QED BY <2>1, <2>2
<1>5. PingingOK'
  <2> SUFFICES ASSUME NEW q \in Probe, stage[q] = "ping", NEW d \in Cluster
               PROVE  /\ Within(d, ping[q][d], waited[q])'
                      /\ ping[q][d] = "no" =>
                           /\ status[d] # "none"
                           /\ Within(d, status[d], TTL + PingTimeout + waited[q])'
    BY DEF PingingOK
  <2>1. waited[q] \in Nat /\ waited'[q] = waited[q] + 1
    <3>1. waited[q] # PingTimeout
      BY DEF Waiting, TimedOut
    <3>2. waited'[q] = Older(waited[q], PingTimeout)
      OBVIOUS
    <3>3. waited[q] \in 0 .. PingTimeout
      BY DEF ReadinessTypeOK
    <3> QED BY <3>1, <3>2, <3>3 DEF Older
  <2>2. Within(d, ping[q][d], waited[q])
    BY DEF PingingOK
  <2>3. Within(d, ping[q][d], waited[q])'
    BY <1>2, <2>1, <2>2 DEF Within
  <2>4. ASSUME ping[q][d] = "no"
        PROVE  /\ status[d] # "none"
               /\ Within(d, status[d], TTL + PingTimeout + waited[q])'
    <3>1. status[d] # "none" /\ Within(d, status[d], TTL + PingTimeout + waited[q])
      BY <2>4 DEF PingingOK
    <3> QED BY <1>2, <2>1, <3>1 DEF Within
  <2> QED BY <2>3, <2>4
<1>6. ReportingOK' /\ VerdictsAreRecent'
  BY DEF ReportingOK, VerdictsAreRecent, Waiting
<1> QED BY <1>1, <1>4, <1>5, <1>6

\* Every step preserves the invariant.
LEMMA ReadinessNextInv ==
  ReadinessInv /\ [ReadinessNext]_readinessVars => ReadinessInv'
<1> SUFFICES ASSUME ReadinessInv, [ReadinessNext]_readinessVars
             PROVE  ReadinessInv'
  OBVIOUS
<1>1. CASE UNCHANGED readinessVars
  BY <1>1 DEF readinessVars, ReadinessInv, ReadinessTypeOK, EntriesOK, PingingOK,
              ReportingOK, VerdictsAreRecent, Within
<1>2. ASSUME NEW p \in Probe, NEW B \in SUBSET Borderline, FindStale(p, Stale \cup B)
      PROVE  ReadinessInv'
  BY <1>2, FindStaleInv
<1>3. ASSUME NEW p \in Probe, NEW c \in Cluster, NEW s \in Status, Pong(p, c, s)
      PROVE  ReadinessInv'
  BY <1>3, PongInv
<1>4. ASSUME NEW p \in Probe, WriteBack(p)
      PROVE  ReadinessInv'
  BY <1>4, WriteBackInv
<1>5. ASSUME NEW p \in Probe, Report(p)
      PROVE  ReadinessInv'
  BY <1>5, ReportInv
<1>6. ASSUME NEW p \in Probe, Answered(p) \/ HangUp(p)
      PROVE  ReadinessInv'
  BY <1>6, EndsInv DEF Answered, HangUp
<1>7. CASE ReadinessTick
  BY <1>7, ReadinessTickInv
<1> QED
  BY <1>1, <1>2, <1>3, <1>4, <1>5, <1>6, <1>7 DEF ReadinessNext

\* The invariant holds in every reachable state.
THEOREM ReadinessInvariant == ReadinessSpec => []ReadinessInv
  BY ReadinessInitInv, ReadinessNextInv, PTL DEF ReadinessSpec

\* A 200 speaks for pings that every cluster passed at most TTL + 2 * PingTimeout
\* ago, a 503 for one that failed as recently, whatever the clusters, the probes
\* that overlap and the two times.
THEOREM RecentVerdicts == ReadinessSpec => []VerdictsAreRecent
<1>1. ReadinessInv => VerdictsAreRecent
  BY DEF ReadinessInv
<1> QED BY <1>1, ReadinessInvariant, PTL
=============================================================================

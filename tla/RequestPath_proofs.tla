------------------------- MODULE RequestPath_proofs -------------------------
(***************************************************************************)
(* Theorems about the way of a request, for the routes of RestRoutes, any  *)
(* number of requests, users, clusters and items, and any configuration.   *)
(***************************************************************************)
EXTENDS RequestPath, TLAPS

-----------------------------------------------------------------------------
(* The tables.                                                             *)

\* The methods of the client that only ask.
Getters ==
  {"get", "list_vms", "list_lxcs", "vm_config", "lxc_detail", "task_status",
   "list_ha_groups", "list_networks", "storage_content", "list_snapshots",
   "list_backups", "list_replication_jobs", "get_replication_status"}

\* A handler without a role check, and one behind a GET route, only asks; one
\* behind the cluster check makes one call.
TableOK(table) ==
  \A h \in DOMAIN table :
    /\ table[h].shape \in {"one", "bulk", "all", "silent", "mine"}
    /\ table[h].role = "operator" \/ table[h].call \in Getters
    /\ h \in DOMAIN protected =>
         /\ protected[h] \in Method
         /\ protected[h] = "GET" => table[h].call \in Getters
    /\ h \in DOMAIN cluster_scoped =>
         /\ cluster_scoped[h] \in Method
         /\ cluster_scoped[h] = "GET" => table[h].call \in Getters
         /\ table[h].shape = "one"

\* Read off handler by handler.
LEMMA TablesAreOK == \A table \in handlers : TableOK(table)
<1> USE DEF TableOK, protected, cluster_scoped, Method, Getters,
            Read, Operate, Bulk, Aggregate, MayFail
<1>1. TableOK(vm_reads)
  BY DEF vm_reads
<1>2. TableOK(vm_actions)
  BY DEF vm_actions
<1>3. TableOK(vm_bulk)
  BY DEF vm_bulk
<1>4. TableOK(vm_changes)
  BY DEF vm_changes
<1>5. TableOK(vm_snapshots)
  BY DEF vm_snapshots
<1>6. TableOK(vm_extras)
  BY DEF vm_extras
<1>7. TableOK(lxc_handlers)
  BY DEF lxc_handlers
<1>8. TableOK(lxc_config)
  BY DEF lxc_config
<1>9. TableOK(replication_handlers)
  BY DEF replication_handlers
<1>10. TableOK(hagroup_handlers)
  BY DEF hagroup_handlers
<1>11. TableOK(network_reads)
  BY DEF network_reads
<1>12. TableOK(network_changes)
  BY DEF network_changes
<1>13. TableOK(storage_handlers)
  BY DEF storage_handlers
<1>14. TableOK(task_handlers)
  BY DEF task_handlers
<1>15. TableOK(cluster_handlers)
  BY DEF cluster_handlers
<1>16. TableOK(ceph_handlers)
  BY DEF ceph_handlers
<1>17. TableOK(sdn_handlers)
  BY DEF sdn_handlers
<1>18. TableOK(firewall_handlers)
  BY DEF firewall_handlers
<1>19. TableOK(dashboard_handlers)
  BY DEF dashboard_handlers
<1> QED
  BY <1>1, <1>2, <1>3, <1>4, <1>5, <1>6, <1>7, <1>8, <1>9, <1>10, <1>11, <1>12, <1>13, <1>14, <1>15, <1>16, <1>17, <1>18, <1>19 DEF handlers, TableOK

\* A method of the client that only asks sends GET, whichever table has it.
LEMMA GettersGet == \A call \in Getters : Sends(call) = "GET"
<1> USE DEF client_calls, Getters, primitives, vm_calls, node_calls, group_calls,
            replication_calls, vm_write_calls, container_calls
<1>1. \A table \in client_calls : \A call \in DOMAIN table :
        call \in Getters => table[call] = "GET"
  OBVIOUS
<1>2. \A call \in Getters : \E table \in client_calls : call \in DOMAIN table
  OBVIOUS
<1> QED
  BY <1>1, <1>2 DEF Sends

\* What the proofs below need to know of a route.
RouteOK(rt) ==
  /\ rt.method \in Method
  /\ rt.shape \in {"one", "bulk", "all", "silent", "mine"}
  /\ rt.sends = "POST" => rt.role = "operator" /\ rt.method # "GET"
  /\ rt.scoped => rt.shape = "one"

\* Every route of the router is as demanded.
LEMMA RoutesAreOK == \A rt \in Routes : RouteOK(rt)
<1> SUFFICES ASSUME NEW table \in handlers
             PROVE  /\ \A rt \in Served(protected, FALSE, table) : RouteOK(rt)
                    /\ \A rt \in Served(cluster_scoped, TRUE, table) : RouteOK(rt)
  BY DEF Routes
<1>1. TableOK(table)
  BY TablesAreOK
<1>2. \A rt \in Served(protected, FALSE, table) : RouteOK(rt)
  BY <1>1, GettersGet DEF TableOK, Served, RouteOK
<1>3. \A rt \in Served(cluster_scoped, TRUE, table) : RouteOK(rt)
  BY <1>1, GettersGet DEF TableOK, Served, RouteOK
<1> QED
  BY <1>2, <1>3

\* What can be read off a request.
LEMMA AsksAreOK ==
  ASSUME NEW request \in Ask
  PROVE  /\ RouteOK(request.route)
         /\ request.user \in User
         /\ request.names \in [DOMAIN request.names -> Name]
         /\ request.route.shape = "one" =>
              \A n \in DOMAIN request.names : request.names[n] = n
<1>1. PICK rt \in Routes :
        request \in [route : {rt}, user : User, role : Role, fault : Faults(rt),
                     names : Named(rt.shape)]
  BY DEF Ask
<1>2. request.route = rt /\ request.user \in User /\ request.names \in Named(rt.shape)
  BY <1>1
<1>3. RouteOK(rt)
  BY RoutesAreOK
<1>4. ASSUME rt.shape = "one"
      PROVE  /\ request.names \in [DOMAIN request.names -> Name]
             /\ \A n \in DOMAIN request.names : request.names[n] = n
  <2>1. PICK n \in Name : request.names = [c \in {n} |-> c]
    BY <1>2, <1>4 DEF Named
  <2> QED
    BY <2>1
<1>5. ASSUME rt.shape = "bulk"
      PROVE  request.names \in [DOMAIN request.names -> Name]
  <2>1. Named(rt.shape) = UNION {[items -> Name] : items \in SUBSET Item}
    BY <1>5 DEF Named
  <2>2. PICK items \in SUBSET Item : request.names \in [items -> Name]
    BY <1>2, <2>1
  <2> QED
    BY <2>2
<1>6. ASSUME rt.shape \notin {"one", "bulk"}
      PROVE  request.names \in [DOMAIN request.names -> Name]
  BY <1>2, <1>6 DEF Named
<1> QED
  BY <1>2, <1>3, <1>4, <1>5, <1>6

-----------------------------------------------------------------------------
(* What every step preserves.                                              *)

\* What is known of a request where it stands.  Before the calls there are no
\* rows; a call that is out has not been carried out yet; what was carried out
\* was a POST of a handler whose role check the token passed.
CallsOK(r) ==
  /\ pc[r] \in {"access", "handler", "calling"} \/ DOMAIN targets[r] # {}
       => ask[r] \in Ask
  /\ pc[r] \in {"idle", "access", "handler"} => DOMAIN targets[r] = {}
  /\ \A t \in DOMAIN targets[r] :
       /\ effects[r][t] <= 1
       /\ rows[r][t] = "pending" /\ pc[r] = "calling" => effects[r][t] = 0
       /\ rows[r][t] = "ok" /\ ask[r].route.sends = "POST" => effects[r][t] = 1
       /\ effects[r][t] > 0 => /\ ask[r].route.sends = "POST"
                               /\ can(ask[r].role, ask[r].route.role)

\* What the calls were made for, and what the answer says of them.
ReportOK(r) ==
  /\ \A t \in data[r] : rows[r][t] = "ok"
  /\ pc[r] = "calling" =>
       /\ can(ask[r].role, ask[r].route.role)
       /\ ask[r].route.shape = "bulk" => DOMAIN targets[r] = DOMAIN ask[r].names
       /\ ask[r].route.shape = "all" => DOMAIN targets[r] = Cluster
  /\ pc[r] = "answered" /\ status[r] = 200 /\ ask[r].route.shape # "silent"
       => /\ data[r] \cup errors[r] = DOMAIN targets[r]
          /\ data[r] \cap errors[r] = {}
          /\ ask[r].route.shape = "bulk" => DOMAIN targets[r] = DOMAIN ask[r].names
          /\ ask[r].route.shape = "all" => DOMAIN targets[r] = Cluster

\* The row of an answered request that called a cluster.
AuditOK(r) ==
  /\ pc[r] # "answered" => audit[r] = <<>>
  /\ pc[r] = "answered" /\ DOMAIN targets[r] # {}
       => \/ r \in unlogged
          \/ audit[r] = <<[method |-> ask[r].route.method, status |-> status[r]]>>
          \/ ~should_log(ask[r].route.method, status[r])

\* A standing account's list stays as configured; past the cluster check, a
\* request names what the list of its user allows.
InsideOK(r) ==
  LET list == Configured[ask[r].user]
  IN ask[r] # Nothing /\ ask[r].user \notin deleted /\ list # {}
       => /\ pc[r] = "handler" /\ ask[r].route.scoped
               => \A n \in DOMAIN ask[r].names : ask[r].names[n] \in list
          /\ ask[r].route.scoped \/ ask[r].route.shape = "mine"
               => \A t \in DOMAIN targets[r] : targets[r][t] \in list

RequestOK(r) == CallsOK(r) /\ ReportOK(r) /\ AuditOK(r) /\ InsideOK(r)

\* The columns have an entry per request.
Columns ==
  /\ DOMAIN targets = Req /\ DOMAIN rows = Req /\ DOMAIN effects = Req
  /\ DOMAIN data = Req /\ DOMAIN errors = Req

RequestInv ==
  /\ RequestTypeOK
  /\ Columns
  /\ \A u \in User \ deleted : allowed[u] = Configured[u]
  /\ \A r \in Req : RequestOK(r)

\* Nothing has arrived at startup.
LEMMA RequestInitInv == RequestInit => RequestInv
<1> SUFFICES ASSUME RequestInit PROVE RequestInv
  OBVIOUS
<1>1. RequestTypeOK /\ Columns
  BY RequestAssumption DEF RequestInit, RequestTypeOK, Columns, Place, Status
<1>2. \A r \in Req : DOMAIN targets[r] = {} /\ data[r] = {}
  BY DEF RequestInit
<1>3. \A r \in Req : RequestOK(r)
  BY <1>2 DEF RequestInit, RequestOK, CallsOK, ReportOK, AuditOK, InsideOK
<1> QED
  BY <1>1, <1>3 DEF RequestInit, RequestInv

\* Steps of others leave a request as it is.
SameRequest(r) ==
  /\ pc'[r] = pc[r] /\ ask'[r] = ask[r] /\ status'[r] = status[r]
  /\ targets'[r] = targets[r] /\ rows'[r] = rows[r] /\ effects'[r] = effects[r]
  /\ data'[r] = data[r] /\ errors'[r] = errors[r]
  /\ audit'[r] = audit[r] /\ (r \in unlogged' <=> r \in unlogged)

LEMMA OthersStayOK ==
  ASSUME NEW r \in Req, RequestOK(r), SameRequest(r), deleted \subseteq deleted'
  PROVE  RequestOK(r)'
<1>1. CallsOK(r)'
  BY DEF RequestOK, SameRequest, CallsOK
<1>2. ReportOK(r)'
  BY DEF RequestOK, SameRequest, ReportOK
<1>3. AuditOK(r)'
  BY DEF RequestOK, SameRequest, AuditOK
<1>4. InsideOK(r)'
  BY DEF RequestOK, SameRequest, InsideOK
<1> QED
  BY <1>1, <1>2, <1>3, <1>4 DEF RequestOK

\* A step of one request is judged by that request alone.
LEMMA OneRequestMoves ==
  ASSUME NEW r \in Req, RequestInv, RequestTypeOK', Columns', UNCHANGED userVars,
         \A q \in Req \ {r} : SameRequest(q), RequestOK(r)'
  PROVE  RequestInv'
<1>1. \A q \in Req : RequestOK(q)'
  BY OthersStayOK DEF RequestInv, userVars
<1> QED
  BY <1>1 DEF RequestInv, userVars

-----------------------------------------------------------------------------
(* Answers.                                                                *)

\* What an answer leaves behind.
Answered(r, method, st) ==
  /\ pc' \in [Req -> Place] /\ pc'[r] = "answered"
  /\ status' \in [Req -> Status] /\ status'[r] = st
  /\ audit' \in [Req -> Seq(AuditEntry)] /\ unlogged' \subseteq Req
  /\ \/ r \in unlogged'
     \/ audit'[r] = <<[method |-> method, status |-> st]>>
     \/ ~should_log(method, st)
  /\ \A q \in Req \ {r} :
       /\ pc'[q] = pc[q] /\ status'[q] = status[q]
       /\ audit'[q] = audit[q] /\ (q \in unlogged' <=> q \in unlogged)

\* Respond does that, whether the store takes the row or not.
LEMMA RespondAnswers ==
  ASSUME NEW r \in Req, NEW method \in Method, NEW st \in Status,
         RequestTypeOK, audit[r] = <<>>, Respond(r, method, st)
  PROVE  Answered(r, method, st)
<1>1. pc' \in [Req -> Place] /\ pc'[r] = "answered"
      /\ \A q \in Req \ {r} : pc'[q] = pc[q]
  BY DEF Respond, RequestTypeOK, Place
<1>2. /\ status' \in [Req -> Status] /\ status'[r] = st
      /\ \A q \in Req \ {r} : status'[q] = status[q]
  BY DEF Respond, RequestTypeOK
<1> DEFINE row == [method |-> method, status |-> st]
<1>3. audit \in [Req -> Seq(AuditEntry)] /\ unlogged \subseteq Req
  BY DEF RequestTypeOK
<1>4. row \in AuditEntry /\ Append(audit[r], row) = <<row>>
  BY DEF AuditEntry
<1>5. /\ audit' \in [Req -> Seq(AuditEntry)] /\ unlogged' \subseteq Req
      /\ r \in unlogged' \/ audit'[r] = <<row>> \/ ~should_log(method, st)
      /\ \A q \in Req \ {r} :
           audit'[q] = audit[q] /\ (q \in unlogged' <=> q \in unlogged)
  <2> HIDE DEF row
  <2>1. CASE audit' = [audit EXCEPT ![r] = <<row>>] /\ UNCHANGED unlogged
    <3>1. <<row>> \in Seq(AuditEntry)
      BY <1>4
    <3> QED
      BY <1>3, <2>1, <3>1
  <2>2. CASE unlogged' = unlogged \cup {r} /\ UNCHANGED audit
    BY <1>3, <2>2
  <2>3. CASE ~should_log(method, st) /\ UNCHANGED <<audit, unlogged>>
    BY <1>3, <2>3
  <2> QED
    BY <1>4, <2>1, <2>2, <2>3 DEF Respond, row
<1> QED
  BY <1>1, <1>2, <1>5 DEF Answered

\* An answer before any call leaves the invariant in place: it is not a 200,
\* and there are no calls it could misreport.
LEMMA EarlyAnswerInv ==
  ASSUME NEW r \in Req, NEW method \in Method, NEW st \in {400, 401, 403, 404},
         RequestInv, pc[r] \in {"idle", "access", "handler"},
         Respond(r, method, st), UNCHANGED <<userVars, ask, callVars, reportVars>>
  PROVE  RequestInv'
<1>1. audit[r] = <<>> /\ DOMAIN targets[r] = {} /\ RequestOK(r) /\ RequestTypeOK
  BY DEF RequestInv, RequestOK, CallsOK, AuditOK
<1>2. Answered(r, method, st)
  BY <1>1, RespondAnswers DEF Status
<1> USE DEF callVars, reportVars, userVars
<1>3. RequestTypeOK' /\ Columns'
  <2>1. Columns' /\ RequestTypeOK
    BY DEF RequestInv, Columns
  <2> HIDE DEF RequestInv
  <2> QED
    BY <1>2, <2>1 DEF RequestTypeOK, Answered
<1>4. \A q \in Req \ {r} : SameRequest(q)
  BY <1>2 DEF SameRequest, Answered
<1>5. data[r] = {}
  BY <1>1 DEF RequestTypeOK
<1>6. CallsOK(r)'
  BY <1>1, <1>2 DEF Answered, RequestOK, CallsOK
<1>7. ReportOK(r)'
  BY <1>1, <1>2, <1>5 DEF Answered, RequestOK, ReportOK
<1>8. AuditOK(r)'
  BY <1>1, <1>2 DEF Answered, AuditOK
<1>9. InsideOK(r)'
  BY <1>1, <1>2 DEF Answered, RequestOK, InsideOK
<1> QED
  BY <1>3, <1>4, <1>6, <1>7, <1>8, <1>9, OneRequestMoves DEF RequestOK

\* A request that is in flight asks for something the router serves.
LEMMA InFlight ==
  ASSUME RequestInv, NEW r \in Req, pc[r] \in {"access", "handler", "calling"}
  PROVE  /\ ask[r] \in Ask /\ RouteOK(ask[r].route)
         /\ ask[r].route.method \in Method
         /\ ask[r].user \in User
         /\ ask[r].names \in [DOMAIN ask[r].names -> Name]
         /\ ask[r].route.shape = "one" =>
              \A n \in DOMAIN ask[r].names : ask[r].names[n] = n
<1>1. ask[r] \in Ask
  BY DEF RequestInv, RequestOK, CallsOK
<1> QED
  BY <1>1, AsksAreOK DEF RouteOK

-----------------------------------------------------------------------------
(* The steps, one by one.                                                  *)

LEMMA UnauthorizedInv ==
  ASSUME RequestInv, NEW r \in Req, Unauthorized(r) PROVE RequestInv'
<1>1. PICK method \in Method : Respond(r, method, 401)
  BY DEF Unauthorized
<1> QED
  BY <1>1, EarlyAnswerInv DEF Unauthorized

LEMMA ArriveInv ==
  ASSUME RequestInv, NEW r \in Req, Arrive(r) PROVE RequestInv'
<1>1. PICK request \in Ask :
        /\ ask' = [ask EXCEPT ![r] = request]
        /\ pc' = [pc EXCEPT ![r] =
                    IF request.route.scoped THEN "access" ELSE "handler"]
  BY DEF Arrive
<1>2. pc[r] = "idle" /\ UNCHANGED <<userVars, callVars, reportVars, answerVars>>
  BY DEF Arrive
<1> USE DEF userVars, callVars, reportVars, answerVars
<1>3. RequestOK(r) /\ DOMAIN targets[r] = {} /\ data[r] = {}
  BY <1>2 DEF RequestInv, RequestOK, CallsOK, RequestTypeOK
<1>4. ask'[r] = request /\ pc'[r] \in {"access", "handler"}
      /\ (pc'[r] = "handler" => ~request.route.scoped)
  BY <1>1 DEF RequestInv, RequestTypeOK
<1>5. RequestTypeOK' /\ Columns'
  <2>1. ask' \in [Req -> Ask \cup {Nothing}] /\ pc' \in [Req -> Place]
    BY <1>1 DEF RequestInv, RequestTypeOK, Place
  <2> QED
    BY <1>2, <2>1 DEF RequestInv, RequestTypeOK, Columns
<1>6. \A q \in Req \ {r} : SameRequest(q)
  BY <1>1, <1>2 DEF SameRequest, RequestInv, RequestTypeOK
<1>7. CallsOK(r)' /\ ReportOK(r)' /\ AuditOK(r)' /\ InsideOK(r)'
  BY <1>2, <1>3, <1>4 DEF RequestOK, CallsOK, ReportOK, AuditOK, InsideOK
<1> QED
  BY <1>2, <1>5, <1>6, <1>7, OneRequestMoves DEF RequestOK

\* The list consulted is the configured one as long as the account stands, and
\* a path names the cluster it is looked up by.
LEMMA ClusterAccessInv ==
  ASSUME RequestInv, NEW r \in Req, require_cluster_access(r) PROVE RequestInv'
<1>1. pc[r] = "access" /\ UNCHANGED <<userVars, ask, callVars, reportVars>>
  BY DEF require_cluster_access
<1>2. CASE Respond(r, ask[r].route.method, 403)
  BY <1>1, <1>2, InFlight, EarlyAnswerInv
<1>3. CASE /\ \A n \in DOMAIN ask[r].names : user_can_access_cluster(ask[r].user, n)
           /\ pc' = [pc EXCEPT ![r] = "handler"] /\ UNCHANGED answerVars
  <2> USE DEF userVars, callVars, reportVars, answerVars
  <2>1. RequestOK(r) /\ DOMAIN targets[r] = {} /\ data[r] = {}
    BY <1>1 DEF RequestInv, RequestOK, CallsOK, RequestTypeOK
  <2>2. pc'[r] = "handler" /\ pc' \in [Req -> Place]
    BY <1>3 DEF RequestInv, RequestTypeOK, Place
  <2>3. RequestTypeOK' /\ Columns'
    BY <1>1, <1>3, <2>2 DEF RequestInv, RequestTypeOK, Columns
  <2>4. \A q \in Req \ {r} : SameRequest(q)
    BY <1>1, <1>3 DEF SameRequest, RequestInv, RequestTypeOK
  <2>5. CallsOK(r)' /\ ReportOK(r)' /\ AuditOK(r)'
    BY <1>1, <1>3, <2>1, <2>2 DEF RequestOK, CallsOK, ReportOK, AuditOK
  <2>6. InsideOK(r)'
    <3>1. ask[r].user \in User /\ (ask[r].route.scoped => ask[r].route.shape = "one")
          /\ (ask[r].route.shape = "one" =>
                \A n \in DOMAIN ask[r].names : ask[r].names[n] = n)
      BY <1>1, InFlight DEF RouteOK
    <3>2. ASSUME ask[r].user \notin deleted, Configured[ask[r].user] # {},
                 NEW n \in DOMAIN ask[r].names
          PROVE  n \in Configured[ask[r].user]
      <4>1. allowed[ask[r].user] = Configured[ask[r].user]
        BY <3>1, <3>2 DEF RequestInv
      <4>2. allowed[ask[r].user] # NoList
        BY <3>1, <4>1, RequestAssumption
      <4> QED
        BY <1>3, <3>2, <4>1, <4>2 DEF user_can_access_cluster
    <3> QED
      BY <1>1, <1>3, <2>1, <3>1, <3>2 DEF InsideOK
  <2> QED
    BY <1>1, <2>3, <2>4, <2>5, <2>6, OneRequestMoves DEF RequestOK
<1> QED
  BY <1>2, <1>3 DEF require_cluster_access

LEMMA RefuseInv ==
  ASSUME RequestInv, NEW r \in Req, Refuse(r) PROVE RequestInv'
<1>1. Refusal(r) \in {400, 403, 404}
  BY DEF Refuse, Refusal
<1> QED
  BY <1>1, InFlight, EarlyAnswerInv DEF Refuse

\* A call per item or per cluster, to clusters the user's list names.  Only a
\* token whose role is enough gets here.
LEMMA StartCallsInv ==
  ASSUME RequestInv, NEW r \in Req, StartCalls(r) PROVE RequestInv'
<1> DEFINE shape == ask[r].route.shape
           calls == CASE shape \in {"one", "bulk"} -> ask[r].names
                      [] shape \in {"all", "silent"} -> [c \in Cluster |-> c]
                      [] shape = "mine" ->
                           [c \in clients_for_user(ask[r].user) |-> c]
           standing == ask[r].user \notin deleted /\ Configured[ask[r].user] # {}
           first == [t \in DOMAIN calls |->
                       IF calls[t] \in Cluster THEN "pending" ELSE "error"]
           none == [t \in DOMAIN calls |-> 0]
<1>1. /\ pc[r] = "handler" /\ Refusal(r) = 0
      /\ pc' = [pc EXCEPT ![r] = "calling"]
      /\ targets' = [targets EXCEPT ![r] = calls]
      /\ rows' = [rows EXCEPT ![r] = first]
      /\ effects' = [effects EXCEPT ![r] = none]
      /\ UNCHANGED <<userVars, ask, reportVars, answerVars>>
  BY DEF StartCalls
<1>2. /\ ask[r] \in Ask /\ RouteOK(ask[r].route) /\ ask[r].user \in User
      /\ ask[r].names \in [DOMAIN ask[r].names -> Name]
      /\ shape = "one" => \A n \in DOMAIN ask[r].names : ask[r].names[n] = n
  BY <1>1, InFlight
<1>3. /\ RequestOK(r) /\ DOMAIN targets[r] = {} /\ data[r] = {} /\ errors[r] = {}
      /\ RequestTypeOK /\ Columns
  BY <1>1 DEF RequestInv, RequestOK, CallsOK, RequestTypeOK
<1>4. clients_for_user(ask[r].user) \subseteq Cluster
      /\ (standing => clients_for_user(ask[r].user) \subseteq Configured[ask[r].user])
  <2>1. clients_for_user(ask[r].user) \subseteq Cluster
    BY DEF clients_for_user
  <2>2. ASSUME standing
        PROVE  clients_for_user(ask[r].user) \subseteq Configured[ask[r].user]
    <3>1. allowed[ask[r].user] = Configured[ask[r].user]
      BY <1>2, <2>2 DEF RequestInv
    <3>2. allowed[ask[r].user] # NoList
      BY <1>2, <3>1, RequestAssumption
    <3> QED
      BY <3>1, <3>2 DEF clients_for_user
  <2> QED
    BY <2>1, <2>2
<1>5. /\ calls \in [DOMAIN calls -> Name]
      /\ shape = "bulk" => DOMAIN calls = DOMAIN ask[r].names
      /\ shape = "all" => DOMAIN calls = Cluster
      /\ shape = "one" => calls = ask[r].names
      /\ shape = "mine" /\ standing =>
           \A t \in DOMAIN calls : calls[t] \in Configured[ask[r].user]
  <2>1. CASE shape \in {"one", "bulk"}
    BY <1>2, <2>1
  <2>2. CASE shape \in {"all", "silent"}
    <3>1. calls = [c \in Cluster |-> c]
      BY <2>2
    <3> QED
      BY <2>2, <3>1 DEF Name
  <2>3. CASE shape = "mine"
    <3>1. calls = [c \in clients_for_user(ask[r].user) |-> c]
      BY <2>3
    <3> QED
      BY <1>4, <2>3, <3>1 DEF Name
  <2> QED
    BY <1>2, <2>1, <2>2, <2>3 DEF RouteOK
<1>6. can(ask[r].role, ask[r].route.role)
  BY <1>1 DEF Refusal
<1> HIDE DEF calls
<1> USE DEF userVars, reportVars, answerVars
<1>7. /\ pc'[r] = "calling" /\ targets'[r] = calls /\ rows'[r] = first
      /\ effects'[r] = none
      /\ pc' \in [Req -> Place]
      /\ \A q \in Req \ {r} : /\ pc'[q] = pc[q] /\ targets'[q] = targets[q]
                              /\ rows'[q] = rows[q] /\ effects'[q] = effects[q]
  BY <1>1, <1>3 DEF RequestTypeOK, Columns, Place
<1>8. RequestTypeOK' /\ Columns'
  <2>1. Columns'
    BY <1>1, <1>3 DEF Columns
  <2>2. /\ targets'[r] \in [DOMAIN calls -> Name]
        /\ rows'[r] \in [DOMAIN calls -> {"pending", "ok", "error"}]
        /\ effects'[r] \in [DOMAIN calls -> Nat]
        /\ DOMAIN targets'[r] = DOMAIN calls
    BY <1>5, <1>7
  <2> QED
    BY <1>1, <1>3, <1>7, <2>1, <2>2 DEF RequestTypeOK
<1>9. \A q \in Req \ {r} : SameRequest(q)
  BY <1>1, <1>7 DEF SameRequest
<1>10. CallsOK(r)'
  BY <1>1, <1>2, <1>7 DEF CallsOK
<1>11. ReportOK(r)'
  BY <1>1, <1>3, <1>5, <1>6, <1>7 DEF ReportOK
<1>12. AuditOK(r)'
  BY <1>1, <1>3, <1>7 DEF RequestOK, AuditOK
<1>13. InsideOK(r)'
  <2>1. ask[r] # Nothing /\ ask[r].route.scoped /\ standing =>
          \A t \in DOMAIN calls : calls[t] \in Configured[ask[r].user]
    BY <1>1, <1>2, <1>3, <1>5 DEF RequestOK, InsideOK, RouteOK
  <2> QED
    BY <1>1, <1>5, <1>7, <2>1 DEF InsideOK
<1> QED
  BY <1>1, <1>8, <1>9, <1>10, <1>11, <1>12, <1>13, OneRequestMoves DEF RequestOK

-----------------------------------------------------------------------------
(* Calls.                                                                  *)

\* A cluster carries a pending call out once, and counts nothing for a GET.
LEMMA CarryOutCounts ==
  ASSUME RequestInv, NEW r \in Req, NEW done, pc[r] = "calling",
         done \subseteq Calls(r, "pending"), CarryOut(r, done)
  PROVE  /\ DOMAIN effects' = Req
         /\ effects'[r] \in [DOMAIN targets[r] -> Nat]
         /\ \A q \in Req \ {r} : effects'[q] = effects[q]
         /\ \A t \in DOMAIN targets[r] :
              /\ t \notin done => effects'[r][t] = effects[r][t]
              /\ t \in done => effects'[r][t] =
                                 IF ask[r].route.sends = "POST" THEN 1 ELSE 0
<1> DEFINE counted == [t \in DOMAIN effects[r] |->
                         IF t \in done /\ ask[r].route.sends = "POST"
                           THEN effects[r][t] + 1 ELSE effects[r][t]]
<1>1. effects' = [effects EXCEPT ![r] = counted]
  BY DEF CarryOut
<1>2. DOMAIN effects = Req /\ effects[r] \in [DOMAIN targets[r] -> Nat]
      /\ rows[r] \in [DOMAIN targets[r] -> {"pending", "ok", "error"}]
  BY DEF RequestInv, RequestTypeOK, Columns
<1>3. \A t \in done : effects[r][t] = 0
  BY <1>2 DEF RequestInv, RequestOK, CallsOK, Calls
<1> HIDE DEF counted
<1>4. DOMAIN effects' = Req /\ effects'[r] = counted
      /\ \A q \in Req \ {r} : effects'[q] = effects[q]
  BY <1>1, <1>2
<1> QED
  BY <1>2, <1>3, <1>4 DEF counted

\* The end of a call: a report of success is given for what was carried out.
LEMMA CallEndsInv ==
  ASSUME RequestInv, NEW r \in Req, NEW t \in DOMAIN rows[r],
         CallOk(r, t) \/ CallFails(r, t)
  PROVE  RequestInv'
<1>1. PICK outcome \in {"ok", "error"}, done \in {{}, {t}} :
        /\ rows' = [rows EXCEPT ![r][t] = outcome]
        /\ CarryOut(r, done)
        /\ outcome = "ok" => done = {t}
  BY DEF CallOk, CallFails
<1>2. /\ pc[r] = "calling" /\ rows[r][t] = "pending"
      /\ UNCHANGED <<userVars, pc, ask, targets, reportVars, answerVars>>
  BY DEF CallOk, CallFails
<1>3. RequestTypeOK /\ Columns /\ RequestOK(r) /\ t \in DOMAIN targets[r]
  BY DEF RequestInv, RequestTypeOK
<1>4. done \subseteq Calls(r, "pending")
  BY <1>2 DEF Calls
<1>5. /\ DOMAIN effects' = Req /\ effects'[r] \in [DOMAIN targets[r] -> Nat]
      /\ \A q \in Req \ {r} : effects'[q] = effects[q]
      /\ \A s \in DOMAIN targets[r] :
           /\ s \notin done => effects'[r][s] = effects[r][s]
           /\ s \in done => effects'[r][s] =
                              IF ask[r].route.sends = "POST" THEN 1 ELSE 0
  BY <1>1, <1>2, <1>4, CarryOutCounts
<1>6. /\ DOMAIN rows' = Req
      /\ rows'[r] \in [DOMAIN targets[r] -> {"pending", "ok", "error"}]
      /\ rows'[r][t] = outcome
      /\ \A s \in DOMAIN targets[r] \ {t} : rows'[r][s] = rows[r][s]
      /\ \A q \in Req \ {r} : rows'[q] = rows[q]
  BY <1>1, <1>3 DEF RequestTypeOK, Columns
<1> USE DEF userVars, reportVars, answerVars
<1>7. RequestTypeOK' /\ Columns'
  <2>1. Columns'
    BY <1>2, <1>3, <1>5, <1>6 DEF Columns
  <2> QED
    BY <1>2, <1>3, <1>5, <1>6, <2>1 DEF RequestTypeOK
<1>8. \A q \in Req \ {r} : SameRequest(q)
  BY <1>2, <1>5, <1>6 DEF SameRequest
<1>9. CallsOK(r)'
  <2>1. ASSUME NEW s \in DOMAIN targets[r]
        PROVE  /\ effects'[r][s] <= 1
               /\ rows'[r][s] = "pending" => effects'[r][s] = 0
               /\ rows'[r][s] = "ok" /\ ask[r].route.sends = "POST"
                    => effects'[r][s] = 1
               /\ effects'[r][s] > 0 => /\ ask[r].route.sends = "POST"
                                        /\ can(ask[r].role, ask[r].route.role)
    <3>1. CASE s = t
      BY <1>1, <1>2, <1>3, <1>5, <1>6, <3>1 DEF RequestOK, CallsOK, ReportOK
    <3>2. CASE s # t
      BY <1>1, <1>2, <1>3, <1>5, <1>6, <3>2 DEF RequestOK, CallsOK
    <3> QED
      BY <3>1, <3>2
  <2> QED
    BY <1>2, <1>3, <2>1 DEF RequestOK, CallsOK
<1>10. ReportOK(r)'
  BY <1>2, <1>3, <1>6 DEF RequestOK, ReportOK, RequestTypeOK
<1>11. AuditOK(r)' /\ InsideOK(r)'
  BY <1>2, <1>3 DEF RequestOK, AuditOK, InsideOK
<1> QED
  BY <1>2, <1>7, <1>8, <1>9, <1>10, <1>11, OneRequestMoves DEF RequestOK

\* A dropped request makes no more claims; its calls may be carried out.
LEMMA HangUpInv ==
  ASSUME RequestInv, NEW r \in Req, HangUp(r) PROVE RequestInv'
<1>1. PICK done \in SUBSET Calls(r, "pending") : CarryOut(r, done)
  BY DEF HangUp
<1>2. /\ pc[r] \in {"access", "handler", "calling"}
      /\ pc' = [pc EXCEPT ![r] = "gone"]
      /\ UNCHANGED <<userVars, ask, targets, rows, reportVars, answerVars>>
  BY DEF HangUp
<1>3. RequestTypeOK /\ Columns /\ RequestOK(r)
  BY DEF RequestInv
<1>4. /\ DOMAIN effects' = Req /\ effects'[r] \in [DOMAIN targets[r] -> Nat]
      /\ \A q \in Req \ {r} : effects'[q] = effects[q]
      /\ \A s \in DOMAIN targets[r] :
           /\ s \notin done => effects'[r][s] = effects[r][s]
           /\ s \in done => effects'[r][s] =
                              IF ask[r].route.sends = "POST" THEN 1 ELSE 0
  <2>1. CASE pc[r] = "calling"
    BY <1>1, <2>1, CarryOutCounts
  <2>2. CASE pc[r] # "calling"
    <3>1. DOMAIN targets[r] = {} /\ DOMAIN effects[r] = {} /\ done = {}
      BY <1>2, <1>3, <2>2 DEF RequestOK, CallsOK, RequestTypeOK, Calls
    <3> QED
      BY <1>1, <1>3, <3>1 DEF CarryOut, Columns
  <2> QED
    BY <2>1, <2>2
<1>5. pc'[r] = "gone" /\ pc' \in [Req -> Place]
      /\ \A q \in Req \ {r} : pc'[q] = pc[q]
  BY <1>2, <1>3 DEF RequestTypeOK, Place
<1> USE DEF userVars, reportVars, answerVars
<1>6. RequestTypeOK' /\ Columns'
  <2>1. Columns'
    BY <1>2, <1>3, <1>4 DEF Columns
  <2> QED
    BY <1>2, <1>3, <1>4, <1>5, <2>1 DEF RequestTypeOK
<1>7. \A q \in Req \ {r} : SameRequest(q)
  BY <1>2, <1>4, <1>5 DEF SameRequest
<1>8. CallsOK(r)'
  <2>1. ASSUME NEW s \in DOMAIN targets[r]
        PROVE  /\ effects'[r][s] <= 1
               /\ rows[r][s] = "ok" /\ ask[r].route.sends = "POST"
                    => effects'[r][s] = 1
               /\ effects'[r][s] > 0 => /\ ask[r].route.sends = "POST"
                                        /\ can(ask[r].role, ask[r].route.role)
    <3>1. pc[r] = "calling"
      BY <1>2, <1>3 DEF RequestOK, CallsOK
    <3>2. CASE s \in done
      BY <1>3, <1>4, <3>1, <3>2 DEF RequestOK, ReportOK, Calls
    <3>3. CASE s \notin done
      BY <1>3, <1>4, <3>3 DEF RequestOK, CallsOK
    <3> QED
      BY <3>2, <3>3
  <2> QED
    BY <1>2, <1>3, <1>5, <2>1 DEF RequestOK, CallsOK
<1>9. ReportOK(r)' /\ AuditOK(r)' /\ InsideOK(r)'
  BY <1>2, <1>3, <1>5 DEF RequestOK, ReportOK, AuditOK, InsideOK
<1> QED
  BY <1>2, <1>6, <1>7, <1>8, <1>9, OneRequestMoves DEF RequestOK

-----------------------------------------------------------------------------
(* The answer of a handler that called, and the users.                     *)

\* Every row is in, and the answer is made from the rows.
LEMMA FinishInv ==
  ASSUME RequestInv, NEW r \in Req, Finish(r) PROVE RequestInv'
<1> DEFINE shape == ask[r].route.shape
           st == CASE shape = "one" /\ Calls(r, "error") # {} -> 500
                   [] shape = "one" /\ Calls(r, "error") = {}
                        /\ ask[r].fault = "absent" -> 404
                   [] OTHER -> 200
           done == IF st = 200 THEN Calls(r, "ok") ELSE {}
           failed == IF shape \in {"bulk", "all", "mine"}
                       THEN Calls(r, "error") ELSE {}
<1>1. /\ pc[r] = "calling" /\ Calls(r, "pending") = {}
      /\ data' = [data EXCEPT ![r] = done]
      /\ errors' = [errors EXCEPT ![r] = failed]
      /\ Respond(r, ask[r].route.method, st)
      /\ UNCHANGED <<userVars, ask, callVars>>
  BY DEF Finish
<1>2. RequestTypeOK /\ Columns /\ RequestOK(r) /\ audit[r] = <<>>
  BY <1>1 DEF RequestInv, RequestOK, AuditOK
<1>3. RouteOK(ask[r].route) /\ ask[r].route.method \in Method
  BY <1>1, InFlight
<1>4. st \in {200, 404, 500} /\ (st = 200 /\ shape = "one" => Calls(r, "error") = {})
  OBVIOUS
<1>5. /\ Calls(r, "ok") \cup Calls(r, "error") = DOMAIN targets[r]
      /\ Calls(r, "ok") \cap Calls(r, "error") = {}
  BY <1>1, <1>2 DEF RequestTypeOK, Calls
<1> HIDE DEF st
<1>6. Answered(r, ask[r].route.method, st)
  BY <1>1, <1>2, <1>3, <1>4, RespondAnswers DEF Status
<1>7. /\ DOMAIN data' = Req /\ data'[r] = done
      /\ DOMAIN errors' = Req /\ errors'[r] = failed
      /\ \A q \in Req \ {r} : data'[q] = data[q] /\ errors'[q] = errors[q]
  BY <1>1, <1>2 DEF Columns
<1> USE DEF userVars, callVars
<1>8. RequestTypeOK' /\ Columns'
  <2>1. Columns'
    BY <1>1, <1>2, <1>7 DEF Columns
  <2>2. done \subseteq DOMAIN targets[r] /\ failed \subseteq DOMAIN targets[r]
    BY <1>5
  <2> QED
    BY <1>1, <1>2, <1>6, <1>7, <2>1, <2>2 DEF RequestTypeOK, Answered
<1>9. \A q \in Req \ {r} : SameRequest(q)
  BY <1>1, <1>6, <1>7 DEF SameRequest, Answered
<1>10. CallsOK(r)'
  BY <1>1, <1>2, <1>6 DEF RequestOK, CallsOK, Answered
<1>11. ReportOK(r)'
  <2>1. \A t \in done : rows[r][t] = "ok"
    BY DEF Calls
  <2>2. ASSUME st = 200, shape # "silent"
        PROVE  done \cup failed = DOMAIN targets[r] /\ done \cap failed = {}
    BY <1>3, <1>4, <1>5, <2>2 DEF RouteOK
  <2> QED
    BY <1>1, <1>2, <1>6, <1>7, <2>1, <2>2 DEF RequestOK, ReportOK, Answered
<1>12. AuditOK(r)'
  BY <1>1, <1>6 DEF AuditOK, Answered
<1>13. InsideOK(r)'
  BY <1>1, <1>2, <1>6 DEF RequestOK, InsideOK, Answered
<1> QED
  BY <1>1, <1>8, <1>9, <1>10, <1>11, <1>12, <1>13, OneRequestMoves DEF RequestOK

\* A deleted user's list is forgotten; everybody else's stays.
LEMMA UsersInv ==
  ASSUME RequestInv, NEW u \in User, delete_user(u) \/ add_user(u)
  PROVE  RequestInv'
<1>1. UNCHANGED <<pc, ask, callVars, reportVars, answerVars>>
      /\ deleted \subseteq deleted'
  BY DEF delete_user, add_user
<1> USE DEF callVars, reportVars, answerVars
<1>2. \A v \in User \ deleted' : allowed'[v] = Configured[v]
  BY DEF delete_user, add_user, RequestInv, RequestTypeOK
<1>3. allowed' \in [User -> (SUBSET Cluster) \cup {NoList}]
      /\ accounts' \subseteq User /\ deleted' \subseteq User
  BY DEF delete_user, add_user, RequestInv, RequestTypeOK
<1>4. RequestTypeOK' /\ Columns'
  BY <1>1, <1>3 DEF RequestInv, RequestTypeOK, Columns
<1>5. \A r \in Req : RequestOK(r)'
  BY <1>1, OthersStayOK DEF RequestInv, SameRequest
<1> QED
  BY <1>2, <1>4, <1>5 DEF RequestInv

-----------------------------------------------------------------------------
(* The theorems.                                                           *)

LEMMA RequestNextInv == RequestInv /\ [RequestNext]_requestVars => RequestInv'
<1> SUFFICES ASSUME RequestInv, [RequestNext]_requestVars PROVE RequestInv'
  OBVIOUS
<1>1. CASE UNCHANGED requestVars
  <2> USE DEF requestVars, userVars, callVars, reportVars, answerVars
  <2>1. RequestTypeOK' /\ Columns'
    BY <1>1 DEF RequestInv, RequestTypeOK, Columns
  <2>2. \A r \in Req : RequestOK(r)'
    BY <1>1, OthersStayOK DEF RequestInv, SameRequest
  <2> QED
    BY <1>1, <2>1, <2>2 DEF RequestInv
<1>2. ASSUME NEW r \in Req, Unauthorized(r) PROVE RequestInv'
  BY <1>2, UnauthorizedInv
<1>3. ASSUME NEW r \in Req, Arrive(r) PROVE RequestInv'
  BY <1>3, ArriveInv
<1>4. ASSUME NEW r \in Req, RequestStep(r) PROVE RequestInv'
  BY <1>4, ClusterAccessInv, RefuseInv, StartCallsInv, CallEndsInv, FinishInv
     DEF RequestStep, CallEnds
<1>5. ASSUME NEW r \in Req, HangUp(r) PROVE RequestInv'
  BY <1>5, HangUpInv
<1>6. ASSUME NEW u \in User, delete_user(u) \/ add_user(u) PROVE RequestInv'
  BY <1>6, UsersInv
<1> QED
  BY <1>1, <1>2, <1>3, <1>4, <1>5, <1>6 DEF RequestNext

\* RequestInv is an inductive invariant, for any number of requests and any
\* configuration of users and clusters.
THEOREM RequestInvariant == RequestSpec => []RequestInv
  BY RequestInitInv, RequestNextInv, PTL DEF RequestSpec

\* Requests, calls, reports and audit rows keep their types.
THEOREM RequestsTypeCorrect == RequestSpec => []RequestTypeOK
<1>1. RequestInv => RequestTypeOK
  BY DEF RequestInv
<1> QED
  BY <1>1, RequestInvariant, PTL

\* No cluster carries anything out for a token below operator: the role checks
\* of all the handlers together with what the client's methods send.
THEOREM OnlyOperatorsWrite == RequestSpec => []WritesNeedOperator
<1>1. RequestInv => WritesNeedOperator
  <2> SUFFICES ASSUME RequestInv, NEW r \in Req, NEW t \in DOMAIN effects[r],
                      effects[r][t] > 0
               PROVE  ask[r].role \in {"operator", "admin"}
    BY DEF WritesNeedOperator
  <2>1. t \in DOMAIN targets[r] /\ CallsOK(r)
    BY DEF RequestInv, RequestOK, RequestTypeOK
  <2>2. ask[r].route.sends = "POST" /\ can(ask[r].role, ask[r].route.role)
    BY <2>1 DEF CallsOK
  <2>3. ask[r].route.role = "operator"
    BY <2>1, <2>2, AsksAreOK DEF CallsOK, RouteOK
  <2> QED
    BY <2>2, <2>3 DEF can
<1> QED
  BY <1>1, RequestInvariant, PTL

\* Behind the cluster check, and on the dashboard, a standing account reaches
\* only the clusters it was configured with.
THEOREM UsersStayInside == RequestSpec => []RestrictedUsersStayInside
<1>1. RequestInv => RestrictedUsersStayInside
  BY DEF RequestInv, RequestOK, InsideOK, RestrictedUsersStayInside
<1> QED
  BY <1>1, RequestInvariant, PTL

\* A call that is reported as done was carried out, and no call twice.
THEOREM SuccessIsReal == RequestSpec => []ReportsAreTrue
<1>1. RequestInv => ReportsAreTrue
  BY DEF RequestInv, RequestTypeOK, RequestOK, CallsOK, ReportOK, ReportsAreTrue
<1> QED
  BY <1>1, RequestInvariant, PTL

\* An answer accounts for every item and every cluster it speaks of.
THEOREM NothingIsLeftOut == RequestSpec => []EveryCallIsReported
<1>1. RequestInv => EveryCallIsReported
  BY DEF RequestInv, RequestOK, ReportOK, EveryCallIsReported
<1> QED
  BY <1>1, RequestInvariant, PTL

\* What a cluster carried out for an answered request is in the audit log,
\* unless the store refused the row.
THEOREM EffectsLeaveARow == RequestSpec => []EffectsAreAudited
<1>1. RequestInv => EffectsAreAudited
  <2> SUFFICES ASSUME RequestInv, NEW r \in Req, pc[r] = "answered",
                      NEW t \in DOMAIN effects[r], effects[r][t] > 0
               PROVE  \/ r \in unlogged
                      \/ audit[r] = <<[method |-> ask[r].route.method,
                                       status |-> status[r]]>>
    BY DEF EffectsAreAudited
  <2>1. t \in DOMAIN targets[r] /\ CallsOK(r) /\ AuditOK(r)
    BY DEF RequestInv, RequestOK, RequestTypeOK
  <2>2. ask[r].route.method \in Method \ {"GET"}
    BY <2>1, AsksAreOK DEF CallsOK, RouteOK
  <2>3. should_log(ask[r].route.method, status[r])
    BY <2>2 DEF Method, should_log, is_state_changing
  <2> QED
    BY <2>1, <2>3 DEF AuditOK
<1> QED
  BY <1>1, RequestInvariant, PTL
=============================================================================

----------------------------- MODULE RequestPath -----------------------------
(***************************************************************************)
(* The way of a REST request from the router to the clusters and back:     *)
(*                                                                         *)
(*   audit_middleware   (src/audit/middleware.rs, around everything)       *)
(*     require_auth     (src/auth/middleware.rs)                           *)
(*       require_cluster_access, on the cluster_scoped routes only         *)
(*         the handler  (src/api/): role, lookup, one call or one per item *)
(*           ProxmoxClient (its tickets and breaker: ClusterClient)        *)
(*                                                                         *)
(* A request is split at its awaits: the user store's lock and the calls.  *)
(* Its future may be dropped at any of them, when the peer hangs up.       *)
(* Cluster names in paths are plain (the middleware reads the raw path,    *)
(* handlers the decoded one), and configured names are distinct.           *)
(***************************************************************************)
EXTENDS Naturals, Sequences, RestRoutes

CONSTANTS
  Req,         \* requests
  User,        \* user names
  Cluster,     \* names of the configured clusters
  Stranger,    \* a cluster name that is not configured
  Item,        \* positions in the body of a bulk request
  NoList,      \* stands for "allowed_clusters has no entry for the user"
  Nothing,     \* what a request asks before it arrives
  Configured   \* allowed_clusters of the configured users; {} when left out

ASSUME RequestAssumption ==
  /\ Stranger \notin Cluster
  /\ Configured \in [User -> SUBSET Cluster]
  /\ NoList \notin SUBSET Cluster

VARIABLES
  accounts,   \* user names in the user store
  allowed,    \* allowed_clusters
  deleted,    \* history: user names whose account was deleted
  pc,         \* where each request is
  ask,        \* what it asks for, and the claims of its JWT
  targets,    \* the cluster each of its calls goes to
  rows,       \* what came of each call
  effects,    \* history: how often a cluster carried each call out
  status,     \* status code of the answer
  data,       \* the calls the answer reports as done,
  errors,     \* and those it reports as failed
  audit,      \* the rows of the audit log, by request
  unlogged    \* history: requests whose row the audit store refused

userVars == <<accounts, allowed, deleted>>
callVars == <<targets, rows, effects>>
reportVars == <<data, errors>>
answerVars == <<status, audit, unlogged>>
requestVars == <<userVars, pc, ask, callVars, reportVars, answerVars>>

Name == Cluster \cup {Stranger}

Role == {"viewer", "operator", "admin"}

\* "access": in require_cluster_access; "handler": at the handler's start;
\* "calling": waiting for the clusters; "gone": dropped.
Place == {"idle", "access", "handler", "calling", "answered", "gone"}

\* Refused by an extractor (a vmid that is no number, a body that does not
\* parse; 400 stands for 415 and 422 too), or by the handler.
Fault == {"none", "extractor", "action", "body", "absent"}

\* The clusters a request names: the one of the path, or one per item of the
\* body, or none.
Named(shape) ==
  CASE shape = "one"  -> {[c \in {n} |-> c] : n \in Name}
    [] shape = "bulk" -> UNION {[items -> Name] : items \in SUBSET Item}
    [] OTHER          -> {[c \in {} |-> c]}

Faults(rt) ==
  {"none"} \cup rt.faults
    \cup (IF rt.shape \in {"one", "bulk"} THEN {"extractor"} ELSE {})

Ask ==
  UNION {[route : {rt}, user : User, role : Role, fault : Faults(rt),
          names : Named(rt.shape)] : rt \in Routes}

Method == {"GET", "POST", "PUT", "DELETE"}

Status == {0, 200, 400, 401, 403, 404, 500}

AuditEntry == [method : Method, status : Status]

RequestTypeOK ==
  /\ accounts \subseteq User /\ deleted \subseteq User
  /\ allowed \in [User -> (SUBSET Cluster) \cup {NoList}]
  /\ pc \in [Req -> Place]
  /\ ask \in [Req -> Ask \cup {Nothing}]
  /\ \A r \in Req :
       LET calls == DOMAIN targets[r] IN
       /\ targets[r] \in [calls -> Name]
       /\ rows[r] \in [calls -> {"pending", "ok", "error"}]
       /\ effects[r] \in [calls -> Nat]
       /\ data[r] \subseteq calls /\ errors[r] \subseteq calls
  /\ status \in [Req -> Status]
  /\ audit \in [Req -> Seq(AuditEntry)]
  /\ unlogged \subseteq Req

RequestInit ==
  /\ accounts = User /\ deleted = {}
  /\ allowed = Configured
  /\ pc = [r \in Req |-> "idle"]
  /\ ask = [r \in Req |-> Nothing]
  /\ targets = [r \in Req |-> <<>>]
  /\ rows = [r \in Req |-> <<>>]
  /\ effects = [r \in Req |-> <<>>]
  /\ status = [r \in Req |-> 0]
  /\ data = [r \in Req |-> {}] /\ errors = [r \in Req |-> {}]
  /\ audit = [r \in Req |-> <<>>] /\ unlogged = {}

-----------------------------------------------------------------------------
(* Who may do what.                                                        *)

can(have, required) == required = "viewer" \/ have \in {required, "admin"}

\* No entry and an empty list both mean every cluster.
user_can_access_cluster(u, c) ==
  \/ allowed[u] = NoList
  \/ allowed[u] = {}
  \/ c \in allowed[u]

\* Mutant: the dashboard asks every cluster.
clients_unfiltered(u) == Cluster

\* Here an empty list is a list like any other.
clients_for_user(u) ==
  IF allowed[u] = NoList THEN Cluster ELSE Cluster \cap allowed[u]

delete_user(u) ==
  /\ u \in accounts
  /\ accounts' = accounts \ {u}
  /\ allowed' = [allowed EXCEPT ![u] = NoList]
  /\ deleted' = deleted \cup {u}
  /\ UNCHANGED <<pc, ask, callVars, reportVars, answerVars>>

\* add_user does not touch allowed_clusters.
add_user(u) ==
  /\ u \notin accounts
  /\ accounts' = accounts \cup {u}
  /\ UNCHANGED <<allowed, deleted, pc, ask, callVars, reportVars, answerVars>>

-----------------------------------------------------------------------------
(* The layers around the handler.                                          *)

\* Mutant: the other methods are forgotten.
only_posts_change(method) == method = "POST"

is_state_changing(method) == method \in {"POST", "PUT", "PATCH", "DELETE"}

should_log(method, st) == is_state_changing(method) \/ st \notin 200 .. 299

\* The rest of audit_middleware: a row or none; the answer goes out even when
\* the store refuses the row.
Respond(r, method, st) ==
  /\ pc' = [pc EXCEPT ![r] = "answered"]
  /\ status' = [status EXCEPT ![r] = st]
  /\ IF should_log(method, st)
       THEN \/ /\ audit' = [audit EXCEPT ![r] =
                              Append(@, [method |-> method, status |-> st])]
               /\ UNCHANGED unlogged
            \/ /\ unlogged' = unlogged \cup {r}
               /\ UNCHANGED audit
       ELSE UNCHANGED <<audit, unlogged>>

\* require_auth: no JWT, or one that does not decode.
Unauthorized(r) ==
  /\ pc[r] = "idle"
  /\ \E method \in Method : Respond(r, method, 401)
  /\ UNCHANGED <<userVars, ask, callVars, reportVars>>

\* require_auth lets the request in.  A JWT may outlive its account.
Arrive(r) ==
  /\ pc[r] = "idle"
  /\ \E request \in Ask :
       /\ ask' = [ask EXCEPT ![r] = request]
       /\ pc' = [pc EXCEPT ![r] =
                   IF request.route.scoped THEN "access" ELSE "handler"]
  /\ UNCHANGED <<userVars, callVars, reportVars, answerVars>>

\* Every scoped route names one cluster, at the place the middleware reads.
require_cluster_access(r) ==
  /\ pc[r] = "access"
  /\ IF \A n \in DOMAIN ask[r].names : user_can_access_cluster(ask[r].user, n)
       THEN /\ pc' = [pc EXCEPT ![r] = "handler"]
            /\ UNCHANGED answerVars
       ELSE Respond(r, ask[r].route.method, 403)
  /\ UNCHANGED <<userVars, ask, callVars, reportVars>>

-----------------------------------------------------------------------------
(* The handler.                                                            *)

\* What it finds wrong before it calls a cluster, in the order it looks; 0 when
\* nothing is.
Refusal(r) ==
  LET request == ask[r]
      known == \A n \in DOMAIN request.names : request.names[n] \in Cluster
  IN IF request.fault = "extractor" THEN 400
     ELSE IF ~can(request.role, request.route.role) THEN 403
     ELSE IF request.fault = "action" THEN 400
     ELSE IF request.route.shape = "one" /\ ~known THEN 404
     ELSE IF request.fault = "body" THEN 400
     ELSE 0

Refuse(r) ==
  /\ pc[r] = "handler"
  /\ Refusal(r) # 0
  /\ Respond(r, ask[r].route.method, Refusal(r))
  /\ UNCHANGED <<userVars, ask, callVars, reportVars>>

\* Mutant: items whose cluster is not known are skipped.
StartKnownCalls(r) ==
  LET request == ask[r]
      calls == CASE request.route.shape \in {"one", "bulk"} ->
                      [t \in {i \in DOMAIN request.names :
                                request.names[i] \in Cluster} |-> request.names[t]]
                 [] request.route.shape \in {"all", "silent"} ->
                      [c \in Cluster |-> c]
                 [] request.route.shape = "mine" ->
                      [c \in clients_for_user(request.user) |-> c]
  IN /\ pc[r] = "handler"
     /\ Refusal(r) = 0
     /\ pc' = [pc EXCEPT ![r] = "calling"]
     /\ targets' = [targets EXCEPT ![r] = calls]
     /\ rows' = [rows EXCEPT ![r] = [t \in DOMAIN calls |-> "pending"]]
     /\ effects' = [effects EXCEPT ![r] = [t \in DOMAIN calls |-> 0]]
     /\ UNCHANGED <<userVars, ask, reportVars, answerVars>>

\* The calls go out side by side.  An item of a bulk request whose cluster is
\* not configured has failed at once.
StartCalls(r) ==
  LET request == ask[r]
      calls == CASE request.route.shape \in {"one", "bulk"} -> request.names
                 [] request.route.shape \in {"all", "silent"} ->
                      [c \in Cluster |-> c]
                 [] request.route.shape = "mine" ->
                      [c \in clients_for_user(request.user) |-> c]
  IN /\ pc[r] = "handler"
     /\ Refusal(r) = 0
     /\ pc' = [pc EXCEPT ![r] = "calling"]
     /\ targets' = [targets EXCEPT ![r] = calls]
     /\ rows' = [rows EXCEPT ![r] =
                   [t \in DOMAIN calls |->
                      IF calls[t] \in Cluster THEN "pending" ELSE "error"]]
     /\ effects' = [effects EXCEPT ![r] = [t \in DOMAIN calls |-> 0]]
     /\ UNCHANGED <<userVars, ask, reportVars, answerVars>>

\* The calls among `done` are carried out by their clusters.
CarryOut(r, done) ==
  effects' = [effects EXCEPT ![r] =
                [t \in DOMAIN @ |->
                   IF t \in done /\ ask[r].route.sends = "POST"
                     THEN @[t] + 1 ELSE @[t]]]

CallOk(r, t) ==
  /\ pc[r] = "calling"
  /\ rows[r][t] = "pending"
  /\ rows' = [rows EXCEPT ![r][t] = "ok"]
  /\ CarryOut(r, {t})
  /\ UNCHANGED <<userVars, pc, ask, targets, reportVars, answerVars>>

\* Mutant: a call that was lost is sent again.
CallRetries(r, t) ==
  /\ pc[r] = "calling"
  /\ rows[r][t] = "pending"
  /\ \E done \in {{}, {t}} : CarryOut(r, done)
  /\ UNCHANGED <<userVars, pc, ask, targets, rows, reportVars, answerVars>>

\* A refusal, a connection that breaks, or the timeout of the call: what it
\* asked for may have been carried out all the same.
CallFails(r, t) ==
  /\ pc[r] = "calling"
  /\ rows[r][t] = "pending"
  /\ rows' = [rows EXCEPT ![r][t] = "error"]
  /\ \E done \in {{}, {t}} : CarryOut(r, done)
  /\ UNCHANGED <<userVars, pc, ask, targets, reportVars, answerVars>>

Calls(r, outcome) == {t \in DOMAIN rows[r] : rows[r][t] = outcome}

\* Mutant: failures are reported by cluster instead of by item.
FinishByCluster(r) ==
  LET shape == ask[r].route.shape
      st == IF shape = "one" /\ Calls(r, "error") # {} THEN 500 ELSE 200
  IN /\ pc[r] = "calling"
     /\ Calls(r, "pending") = {}
     /\ data' = [data EXCEPT ![r] = IF st = 200 THEN Calls(r, "ok") ELSE {}]
     /\ errors' = [errors EXCEPT ![r] =
                     {targets[r][t] : t \in Calls(r, "error")}]
     /\ Respond(r, ask[r].route.method, st)
     /\ UNCHANGED <<userVars, ask, callVars>>

\* Mutant: the answer waits until every call has succeeded.
FinishWhenAllOk(r) ==
  /\ pc[r] = "calling"
  /\ Calls(r, "ok") = DOMAIN rows[r]
  /\ data' = [data EXCEPT ![r] = Calls(r, "ok")]
  /\ Respond(r, ask[r].route.method, 200)
  /\ UNCHANGED <<userVars, ask, callVars, errors>>

\* All calls are in.  A single call's error is the answer's, the others are
\* reported call by call.
Finish(r) ==
  LET shape == ask[r].route.shape
      st == CASE shape = "one" /\ Calls(r, "error") # {} -> 500
              [] shape = "one" /\ Calls(r, "error") = {}
                   /\ ask[r].fault = "absent" -> 404
              [] OTHER -> 200
  IN /\ pc[r] = "calling"
     /\ Calls(r, "pending") = {}
     /\ data' = [data EXCEPT ![r] = IF st = 200 THEN Calls(r, "ok") ELSE {}]
     /\ errors' = [errors EXCEPT ![r] =
                     IF shape \in {"bulk", "all", "mine"}
                       THEN Calls(r, "error") ELSE {}]
     /\ Respond(r, ask[r].route.method, st)
     /\ UNCHANGED <<userVars, ask, callVars>>

\* The peer hangs up: the future is dropped where it stands, the rest of every
\* layer with it.  Calls already sent may be carried out.
HangUp(r) ==
  /\ pc[r] \in {"access", "handler", "calling"}
  /\ pc' = [pc EXCEPT ![r] = "gone"]
  /\ \E done \in SUBSET Calls(r, "pending") : CarryOut(r, done)
  /\ UNCHANGED <<userVars, ask, targets, rows, reportVars, answerVars>>

-----------------------------------------------------------------------------

CallEnds(r) == \E t \in DOMAIN rows[r] : CallOk(r, t) \/ CallFails(r, t)

\* What goes on by itself once a request is in: code between two awaits, the
\* user store's lock, and the end of a call, which its timeout forces.
RequestStep(r) ==
  \/ require_cluster_access(r)
  \/ Refuse(r)
  \/ StartCalls(r)
  \/ CallEnds(r)
  \/ Finish(r)

RequestNext ==
  \/ \E r \in Req : Unauthorized(r)
  \/ \E r \in Req : Arrive(r)
  \/ \E r \in Req : RequestStep(r)
  \/ \E r \in Req : HangUp(r)
  \/ \E u \in User : delete_user(u)
  \/ \E u \in User : add_user(u)

RequestSpec ==
  /\ RequestInit
  /\ [][RequestNext]_requestVars
  /\ \A r \in Req : WF_requestVars(RequestStep(r))

-----------------------------------------------------------------------------
(* What makes it correct.                                                  *)

\* "Only Operator+ can mutate": no cluster carries anything out for a token
\* with a lesser role, whichever route and client method it came through.
WritesNeedOperator ==
  \A r \in Req : \A t \in DOMAIN effects[r] :
    effects[r][t] > 0 => ask[r].role \in {"operator", "admin"}

\* As long as an account stands, requests on the cluster_scoped routes, and the
\* dashboard, call only clusters of the list it was configured with.
RestrictedUsersStayInside ==
  \A r \in Req :
    ask[r] # Nothing
    /\ ask[r].user \notin deleted /\ Configured[ask[r].user] # {}
    /\ (ask[r].route.scoped \/ ask[r].route.shape = "mine")
      => \A t \in DOMAIN targets[r] : targets[r][t] \in Configured[ask[r].user]

\* A report of success is true: the cluster carried the call out, and once; no
\* call is carried out twice, lost answers and dropped requests included.
ReportsAreTrue ==
  \A r \in Req : \A t \in DOMAIN effects[r] :
    /\ effects[r][t] <= 1
    /\ (t \in data[r] /\ ask[r].route.sends = "POST") => effects[r][t] = 1

\* A bulk request has a row, done or failed, for each of its items, and a list
\* over all clusters each cluster under its rows or its errors.
EveryCallIsReported ==
  \A r \in Req :
    pc[r] = "answered" /\ status[r] = 200 /\ ask[r].route.shape # "silent"
      => /\ data[r] \cup errors[r] = DOMAIN targets[r]
         /\ data[r] \cap errors[r] = {}
         /\ ask[r].route.shape = "bulk"
              => DOMAIN targets[r] = DOMAIN ask[r].names
         /\ ask[r].route.shape = "all" => DOMAIN targets[r] = Cluster

\* Whatever a cluster carried out for a request that was answered is in the
\* audit log, once and with the status that was sent, failures included.
EffectsAreAudited ==
  \A r \in Req :
    pc[r] = "answered" /\ (\E t \in DOMAIN effects[r] : effects[r][t] > 0)
      => \/ r \in unlogged
         \/ audit[r] = <<[method |-> ask[r].route.method, status |-> status[r]]>>

\* Every request that got in ends, though clusters may not answer.
RequestsEnd ==
  \A r \in Req :
    pc[r] \in {"access", "handler", "calling"} ~> pc[r] \in {"answered", "gone"}
=============================================================================

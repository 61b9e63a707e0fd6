--------------------------- MODULE SessionLineage ---------------------------
(***************************************************************************)
(* What a refresh-token store with rotation promises, with no mention of   *)
(* records, flags or clocks: a session is opened by one credential, passes *)
(* from credential to credential, one at a time, and once closed is never  *)
(* opened again.  A session is named after its first credential.           *)
(***************************************************************************)
CONSTANTS
  Credential,  \* credentials, and the names of sessions
  Person,      \* who a session may belong to
  None         \* "nobody": the session was never begun

VARIABLES
  person,      \* person[s]: whose session s is
  live,        \* live[s]: the credentials that open s, {} when it is closed
  drawn        \* the credentials handed out so far

lineageVars == <<person, live, drawn>>

Init ==
  /\ person = [s \in Credential |-> None]
  /\ live = [s \in Credential |-> {}]
  /\ drawn = {}

Begin(p, c) ==
  /\ c \notin drawn
  /\ drawn' = drawn \cup {c}
  /\ person' = [person EXCEPT ![c] = p]
  /\ live' = [live EXCEPT ![c] = {c}]

\* The only credential of s is exchanged for a fresh one.
Pass(s, c, n) ==
  /\ live[s] = {c}
  /\ n \notin drawn
  /\ drawn' = drawn \cup {n}
  /\ live' = [live EXCEPT ![s] = {n}]
  /\ UNCHANGED person

Close(S) ==
  /\ live' = [s \in Credential |-> IF s \in S THEN {} ELSE live[s]]
  /\ UNCHANGED <<person, drawn>>

CloseAll(p) == Close({s \in Credential : person[s] = p})

Next ==
  \/ \E p \in Person, c \in Credential : Begin(p, c)
  \/ \E s, c, n \in Credential : Pass(s, c, n)
  \/ \E s \in Credential : Close({s})
  \/ \E p \in Person : CloseAll(p)

Spec == Init /\ [][Next]_lineageVars
=============================================================================

--------------------------- MODULE OneShotTicket ---------------------------
(***************************************************************************)
(* What a one-time login ticket promises, with no mention of providers,    *)
(* codes or requests: it is opened once, may be claimed once and only      *)
(* within Window of being opened, and yields at most one session; one that *)
(* is refused, given up or lost is never opened again.                     *)
(***************************************************************************)
EXTENDS Integers, Sequences

CONSTANTS
  Ticket,  \* tickets
  Holder,  \* who a session may belong to
  Window   \* a ticket is claimed less than this after it was opened

VARIABLES
  clock,   \* the time
  opened,  \* opened[t]: when t was opened
  phase,   \* phase[t]: where t is in its life
  granted  \* granted[t]: the holders of the sessions t has yielded

ticketVars == <<clock, opened, phase, granted>>

Init ==
  /\ clock = 0
  /\ opened = [t \in Ticket |-> 0]
  /\ phase = [t \in Ticket |-> "fresh"]
  /\ granted = [t \in Ticket |-> <<>>]

Open(t) ==
  /\ phase[t] = "fresh"
  /\ phase' = [phase EXCEPT ![t] = "open"]
  /\ opened' = [opened EXCEPT ![t] = clock]
  /\ UNCHANGED <<clock, granted>>

Claim(t) ==
  /\ phase[t] = "open"
  /\ clock - opened[t] < Window
  /\ phase' = [phase EXCEPT ![t] = "claimed"]
  /\ UNCHANGED <<clock, opened, granted>>

Grant(t, h) ==
  /\ phase[t] = "claimed"
  /\ phase' = [phase EXCEPT ![t] = "used"]
  /\ granted' = [granted EXCEPT ![t] = Append(@, h)]
  /\ UNCHANGED <<clock, opened>>

Alive == {t \in Ticket : phase[t] \in {"open", "claimed"}}

Void(T) ==
  /\ T \subseteq Alive
  /\ phase' = [t \in Ticket |-> IF t \in T THEN "void" ELSE phase[t]]
  /\ UNCHANGED <<clock, opened, granted>>

Tick == clock' = clock + 1 /\ UNCHANGED <<opened, phase, granted>>

Next ==
  \/ \E t \in Ticket : Open(t)
  \/ \E t \in Ticket : Claim(t)
  \/ \E t \in Ticket, h \in Holder : Grant(t, h)
  \/ \E T \in SUBSET Ticket : Void(T)
  \/ Tick

Spec == Init /\ [][Next]_ticketVars
=============================================================================

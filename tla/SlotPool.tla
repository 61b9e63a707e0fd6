------------------------------ MODULE SlotPool ------------------------------
(***************************************************************************)
(* What a pool of slots promises, with no mention of counters or of how    *)
(* they are raced for: a client asks for a slot and is given one in a      *)
(* single step, at which one was free, or refused in a single step, at     *)
(* which none was.                                                         *)
(***************************************************************************)
EXTENDS Naturals, FiniteSets

CONSTANTS
  Client,  \* who asks
  Pool,    \* the pools, each with its own slots
  Size,    \* slots of a pool
  NoPool   \* no pool

VARIABLES
  wants,  \* wants[c]: the pool that c is asking, or NoPool
  holds   \* holds[c]: the pool that c has a slot of, or NoPool

poolVars == <<wants, holds>>

Init ==
  /\ wants = [c \in Client |-> NoPool]
  /\ holds = [c \in Client |-> NoPool]

InUse(p) == Cardinality({c \in Client : holds[c] = p})

Ask(c, p) ==
  /\ wants[c] = NoPool /\ holds[c] = NoPool
  /\ wants' = [wants EXCEPT ![c] = p]
  /\ UNCHANGED holds

Take(c, p) ==
  /\ wants[c] = p
  /\ InUse(p) < Size
  /\ wants' = [wants EXCEPT ![c] = NoPool]
  /\ holds' = [holds EXCEPT ![c] = p]

Refuse(c, p) ==
  /\ wants[c] = p
  /\ InUse(p) >= Size
  /\ wants' = [wants EXCEPT ![c] = NoPool]
  /\ UNCHANGED holds

GiveBack(c) ==
  /\ holds[c] # NoPool
  /\ holds' = [holds EXCEPT ![c] = NoPool]
  /\ UNCHANGED wants

Next ==
  \E c \in Client :
    \/ GiveBack(c)
    \/ \E p \in Pool : Ask(c, p) \/ Take(c, p) \/ Refuse(c, p)

Spec == Init /\ [][Next]_poolVars
=============================================================================

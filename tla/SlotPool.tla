------------------------------ MODULE SlotPool ------------------------------
(***************************************************************************)
(* What the pod's one config checker promises to its callers, whatever     *)
(* they are: at most Slots validations run at once, at least one slot is   *)
(* never taken by the controllers, and every caller that asks for a slot   *)
(* is answered: it gets one or gives up.                                   *)
(***************************************************************************)
EXTENDS Naturals, FiniteSets

CONSTANTS
  Clients,   \* callers of the checker
  Requests,  \* the callers that are admission requests
  Slots      \* how many validations may run at once

VARIABLES
  asking,    \* callers that wait for a slot
  running    \* callers whose validation runs

vars == <<asking, running>>

Init == asking = {} /\ running = {}

Ask(c) ==
  /\ c \in Clients \ (asking \cup running)
  /\ asking' = asking \cup {c} /\ UNCHANGED running

\* A controller leaves at least one slot.
Room(c) ==
  /\ Cardinality(running) < Slots
  /\ c \notin Requests => Cardinality(running \ Requests) < Slots - 1

Take(c) ==
  /\ c \in asking /\ Room(c)
  /\ asking' = asking \ {c} /\ running' = running \cup {c}

GiveUp(c) == c \in asking /\ asking' = asking \ {c} /\ UNCHANGED running

Free(c) == c \in running /\ running' = running \ {c} /\ UNCHANGED asking

Next == \E c \in Clients : Ask(c) \/ Take(c) \/ GiveUp(c) \/ Free(c)

Spec == Init /\ [][Next]_vars

\* Everybody who asks is answered, and every slot is freed.
Served ==
  \A c \in Clients : (c \in asking ~> c \notin asking) /\ (c \in running ~> c \notin running)

LiveSpec == Spec /\ Served
=============================================================================

-------------------------- MODULE NeighborDirectory --------------------------
(***************************************************************************)
(* What the discovery daemon promises its clients, whatever its loop, its  *)
(* table and its sockets look like: an answer names every neighbour heard  *)
(* within the last Sure seconds, and none that has been silent for more    *)
(* than Stale seconds.                                                     *)
(***************************************************************************)
EXTENDS Integers

CONSTANTS Macs, Clients, Sure, Stale, NotHeard

VARIABLES
  clock,
  heard,    \* when each neighbour was last heard by the running daemon
  asking,   \* the clients that wait for an answer
  answer    \* the answer last given to each client

vars == <<clock, heard, asking, answer>>

HeardWithin(s) == {m \in Macs : heard[m] # NotHeard /\ clock - heard[m] <= s}

Init ==
  /\ clock \in Nat
  /\ heard = [m \in Macs |-> NotHeard]
  /\ asking = {}
  /\ answer = [c \in Clients |-> {}]

Tick == clock' = clock + 1 /\ UNCHANGED <<heard, asking, answer>>

Hear(m) == heard' = [heard EXCEPT ![m] = clock] /\ UNCHANGED <<clock, asking, answer>>

Ask(c) == asking' = asking \cup {c} /\ UNCHANGED <<clock, heard, answer>>

GiveUp(c) == asking' = asking \ {c} /\ UNCHANGED <<clock, heard, answer>>

Tell(c, S) ==
  /\ c \in asking
  /\ HeardWithin(Sure) \subseteq S /\ S \subseteq HeardWithin(Stale)
  /\ asking' = asking \ {c}
  /\ answer' = [answer EXCEPT ![c] = S]
  /\ UNCHANGED <<clock, heard>>

Restart ==
  /\ heard' = [m \in Macs |-> NotHeard]
  /\ asking' = {}
  /\ UNCHANGED <<clock, answer>>

Next ==
  \/ Tick \/ Restart
  \/ \E m \in Macs : Hear(m)
  \/ \E c \in Clients : Ask(c) \/ GiveUp(c) \/ \E S \in SUBSET Macs : Tell(c, S)

Spec == Init /\ [][Next]_vars

=============================================================================

-------------------------- MODULE MCDiscoveryServer --------------------------
(* Two servers, one of which has the address of the other's dummy neighbour. *)
EXTENDS DiscoveryServer

CONSTANTS h1, h2

OnFirst == [c \in Clients |-> h1]

=============================================================================

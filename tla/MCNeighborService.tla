-------------------------- MODULE MCNeighborService --------------------------
(* Small instances of NeighborService.  Addresses 0..3 are the local subnet. *)
EXTENDS NeighborService

CONSTANTS h1, h2, a, b

Eth  == [ip |-> 0, mac |-> h1, bcast |-> TRUE, netsize |-> 4]
Wlan == [ip |-> 1, mac |-> h2, bcast |-> TRUE, netsize |-> 4]
Ptp  == [ip |-> 5, mac |-> h2, bcast |-> FALSE, netsize |-> 0]

HelloFrom(ip, m) == [src |-> ip, ip |-> ip, mac |-> m]

OneIface   == {<<Eth>>}
TwoIfaces  == {<<Eth, Wlan>>, <<Eth>>}
SomeIfaces == {<<Ptp, Eth>>, <<Eth, Wlan>>}

NoNeighbor  == {}
OneNeighbor == {HelloFrom(2, a)}
Faulty      == {HelloFrom(2, a), HelloFrom(3, a), HelloFrom(3, NoMac), HelloFrom(7, b)}

=============================================================================

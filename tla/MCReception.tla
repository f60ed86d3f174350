---------------------------- MODULE MCReception -----------------------------
(* TLC instances of Reception: two devices, packets of the first one.      *)
EXTENDS Reception

CONSTANTS devA, devB, p1, p2

MCDevices == {devA, devB}
MCTwoPackets == {p1, p2}
MCRadioOf == [p \in {p1, p2} |-> devA]
MCOnePacket == {p1}
MCRadioOfOne == [p \in {p1} |-> devA]
=============================================================================

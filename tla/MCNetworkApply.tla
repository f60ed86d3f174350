---------------------------- MODULE MCNetworkApply --------------------------
(* The instances of NetworkApply that TLC checks.                          *)
EXTENDS NetworkApply, TLC

CONSTANTS N1, N2

MCNetworks == {N1, N2}

MCSavable == {N2}

MCElsewhere == {[lora |-> N2, key |-> N2]}
=============================================================================

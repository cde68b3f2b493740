---------------------------- MODULE MCSingleFlight ----------------------------
(* An instance of SingleFlight for TLC: four calls for one key.             *)
EXTENDS SingleFlight, TLC

CONSTANTS c1, c2, c3, c4, k1

OneKey == [c \in Calls |-> k1]
=============================================================================

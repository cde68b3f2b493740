---------------------------- MODULE MCAdvanceCalls ----------------------------
(* An instance of AdvanceCalls for TLC: either three requests, with one      *)
(* handler at a time, or one request with two handlers at a time.            *)
EXTENDS AdvanceCalls, MCAdvancePayout

(* One request, no locked month.                                             *)
TwoAtATime ==
  /\ \A r \in Requests \ {r1} : request'[r] = NoRequest
  /\ locked' = {}

MCNext == CallsNext /\ (~alone => TwoAtATime)

MCSpec == CallsInit /\ [][MCNext]_callVars
=============================================================================

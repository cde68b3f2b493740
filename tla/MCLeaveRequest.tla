----------------------------- MODULE MCLeaveRequest -----------------------------
(* An instance of LeaveRequestCalls for TLC: either three requests with one    *)
(* handler at a time, or one request with two handlers at a time.              *)
EXTENDS LeaveRequestCalls, TLC

CONSTANTS r1, r2, r3

(* r1 and r2 are for one day; r3 is for two others and approves itself.        *)
Days == r1 :> {1} @@ r2 :> {1} @@ r3 :> {2, 3}
Chains == r1 :> 2 @@ r2 :> 1 @@ r3 :> 0

Symmetry == Permutations(Callers)

OneRequest == \A r \in Requests \ {r1} : request'[r] = NoRequest

MCNext == CallsNext /\ (~alone => OneRequest)

MCSpec == CallsInit /\ [][MCNext]_callVars
=============================================================================

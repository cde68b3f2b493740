------------------------------- MODULE MCCompOff -------------------------------
(* An instance of CompOffCalls for TLC, in half days: either three claims    *)
(* and two leaves with one handler at a time, or two of the claims with two  *)
(* handlers at a time.                                                       *)
EXTENDS CompOffCalls, TLC

CONSTANTS c1, c2, c3, l1, l2, p1, p2

(* c1 and c2 are for one day, c3 for the day after.                          *)
Days == c1 :> 0 @@ c2 :> 0 @@ c3 :> 1
Worths == c1 :> 1 @@ c2 :> 2 @@ c3 :> 2
Starts == l1 :> 1 @@ l2 :> 2
Lengths == l1 :> 1 @@ l2 :> 2

(* A chain of two, one approver, nobody to ask.                              *)
Chains == c1 :> 1 @@ c2 :> 2 @@ c3 :> 0 @@ l1 :> 1 @@ l2 :> 0

(* p2 stays at rest.                                                         *)
OnlyFirst == handler'[p2] = Rest

(* c2 is not made, c1 and c3 are made on the day worked; nothing fails; the  *)
(* last day is the one on which c1 expires; a call is taken by p1, or else   *)
(* by p2.                                                                    *)
TwoAtATime ==
  /\ \A p \in Callers : handler'[p].pc = "claimInsert" => day = WorkDay[handler'[p].req]
  /\ day' <= Expires(c1)
  /\ handler'[p1].req # c2 /\ handler'[p2].req # c2
  /\ crashes' = 0
  /\ handler[p2] = Rest /\ handler'[p2] # Rest => handler[p1] # Rest

MCNext == CallsNext /\ IF alone THEN OnlyFirst ELSE TwoAtATime

(* The fairness of CompOff, for one handler at a time.                       *)
MCFairness ==
  /\ WF_vars(alone /\ Tick)
  /\ \A p \in Callers : WF_vars(alone /\ HandlerStep(p))
  /\ WF_vars(alone /\ Expire(p1))

MCSpec == CallsInit /\ [][MCNext]_callVars /\ MCFairness

(* With one handler at a time, what expireCompOffLots finds left of an       *)
(* expired lot lapses: ExpiredLapses.                                        *)
SerialExpiredLapses == \A c \in Claims : alone /\ IsStale(c) ~> lot[c] <= 0
=============================================================================

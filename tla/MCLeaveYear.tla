------------------------------ MODULE MCLeaveYear ------------------------------
(* Instances of LeaveYear for TLC, in half days: years of two months of two  *)
(* days.                                                                     *)
EXTENDS LeaveYear, TLC

CONSTANTS casual, earned, sick

Upfront == [mode |-> "upfront_annual", quantity |-> 5, step |-> 1, accrualCap |-> NoCap, eligibleAfter |-> 0,
            encashable |-> TRUE, encashmentCap |-> 1, carryForwardCap |-> 1, lapseExcess |-> FALSE]
Periodic == [mode |-> "periodic_accrual", quantity |-> 2, step |-> 1, accrualCap |-> NoCap, eligibleAfter |-> 0,
             encashable |-> TRUE, encashmentCap |-> 1, carryForwardCap |-> 2, lapseExcess |-> TRUE]

OneRule == earned :> Periodic

(* A credit for the year; one for each month, after a wait; one for each     *)
(* month up to a ceiling, of which a day is carried forward.                 *)
ThreeRules == casual :> Upfront
              @@ earned :> [Periodic EXCEPT !.eligibleAfter = 1, !.quantity = 4]
              @@ sick :> [Periodic EXCEPT !.accrualCap = 2, !.encashable = FALSE, !.carryForwardCap = 1]

OneStart == earned :> 0

(* casual joins in the second month of the first year.                       *)
SecondMonth == casual :> 2 @@ earned :> 0 @@ sick :> 0

(* Leave is taken of one type.                                               *)
EarnedOnly == \A b \in Buckets \ {earned} : leave'[b] = leave[b]

(* The jobs come to the types in this order.                                 *)
Order == casual :> 1 @@ earned :> 2 @@ sick :> 3
InOrder(queue, rest) == \A b \in queue \ rest, c \in rest : Order[b] < Order[c]

(* Calls on leave requests and failures, together.                           *)
MaxEvents == 3

MCNext ==
  /\ Next
  /\ EarnedOnly
  /\ InOrder(accrual.queue, accrual'.queue) /\ InOrder(close.queue, close'.queue)
  /\ posts' + crashes' <= MaxEvents

MCSpec == Init /\ [][MCNext]_vars
=============================================================================

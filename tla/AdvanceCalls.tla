----------------------------- MODULE AdvanceCalls -----------------------------
(***************************************************************************)
(* AdvancePayout when calls may be known not to overlap: what the code     *)
(* gets right as long as one request is handled after the other, although  *)
(* a handler may die or fail, and its call be repeated.                    *)
(***************************************************************************)
EXTENDS AdvancePayout

VARIABLES alone,   \* one handler at a time
          broken   \* requests of which a payout ended before they were marked paid

callVars == <<vars, alone, broken>>

PayingOut(h) == h.flow \in {"disburse", "pay"} /\ h.pay # None

OneAtATime == \A p, q \in Procs : proc'[p] # Idle /\ proc'[q] # Idle => p = q

CallsInit == Init /\ alone \in BOOLEAN /\ broken = {}

CallsNext ==
  /\ Next
  /\ alone => OneAtATime
  /\ broken' = broken \cup {r \in Requests : /\ request'[r].status # "paid"
                                             /\ \E p \in Procs : /\ PayingOut(proc[p])
                                                                 /\ proc[p].req = r
                                                                 /\ proc'[p] = Idle}
  /\ UNCHANGED alone

CallsSpec == CallsInit /\ [][CallsNext]_callVars

-----------------------------------------------------------------------------
(* With one handler at a time, a request of which a payment stands is paid   *)
(* out again by payApprovedAdvance only, and only when an earlier payout     *)
(* died or was refused after payment.save: never in its regular course, and  *)
(* never by approveAndDisburseAdvanceRequest, which looks for the payment of *)
(* an earlier attempt, whichever of the two routes made it.                  *)
SerialSinglePayout ==
  [][alone => \A p \in Procs :
       At(p, "paySave") /\ pay' # pay /\ Paid(proc[p].req) # {}
         => proc[p].flow = "pay" /\ proc[p].req \in broken]_callVars

(* ... no request is recovered twice, by a disbursement and by the safety    *)
(* net of payroll generation, when the calls ran to their end, be it in a    *)
(* refusal ...                                                               *)
SerialRecoveredOnce == alone => RecoveredOnce

(* ... and what was reversed is not deducted from a salary.                  *)
SerialReversedNotRecovered == alone => ReversedNotRecovered
=============================================================================

-------------------------------- MODULE Billing --------------------------------
(***************************************************************************)
(* The billing of one user: all operations of Subscriptions, Checkout,     *)
(* Mandates and Refunds, in any order and overlap, with what must hold of  *)
(* money and access.                                                       *)
(***************************************************************************)
EXTENDS Refunds

vars == <<subVars, payVars, mandateVars, refundVars>>

Init == RefundInit
Next == RefundNext

(* The queue runs its jobs when their time has come.  A job whose worker   *)
(* dies is stalled and is run again, and one that throws has three attempts*)
(* (app.module.ts); neither goes on for ever, so this is fair for the few  *)
(* deaths of a run: crashes is bounded, by one in the instance.            *)
Fairness ==
  /\ WF_vars(\E job \in jobs : Dispatch(job) /\ UNCHANGED refundVars)
  /\ WF_vars(ExpireGrace /\ UNCHANGED refundVars)
  /\ WF_vars(Tomorrow /\ UNCHANGED refundVars)

Spec == Init /\ [][Next]_vars
FairSpec == Spec /\ Fairness

-----------------------------------------------------------------------------
(* What the handlers of all modules do, where they are, and what they hold.*)
Flows == {"none", "subscribe", "heal", "trial", "cancel", "cancelScheduled", "force", "promote", "expire",
          "order", "link", "cancelLink", "confirm", "captured", "linkPaid", "upgrade", "upgradeFree", "downgrade",
          "mandate", "activated", "charged", "halted", "expiry", "refund", "approve", "refundCreated",
          "refundProcessed"}
Points == {"idle", "subscribe", "supersedeOld", "supersedeLive", "insert", "inserted", "insertFree", "insertTrial",
           "saveCancelled", "forceSave", "promoting", "activate", "downgrading",
           "insertPayment", "createLink", "saveLink", "closeLink", "capture", "applying", "upgrading", "insertScheduled",
           "insertPending", "activating", "replacing", "booking", "renewing", "answering", "enterGrace", "schedule",
           "expiring", "insertRequest", "execute", "readPayment", "createRefund", "stamp", "record", "autoDowngrade",
           "settle", "push", "sync"}
Local == [flow : Flows, pc : Points, by : Bought \cup {None}, row : Nat, plan : Plans,
          want : Statuses \cup {"approved", "pending_admin"}, todo : SUBSET Nat, n : Nat,
          was : Statuses \cup {"none", "created", "captured", "failed", "partially_refunded", "refunded"}]

(* Every variable keeps its type.                                          *)
TypeOK ==
  /\ rows \in Seq(Row)
  /\ handler \in [Procs \cup {Worker} -> Local]
  /\ payment \in [Payments -> Payment]
  /\ mandate \in [Mandate -> Gateway]
  /\ jobs \subseteq [row : Nat, stamp : Nat]
  /\ request \in [Requests -> Request]
  /\ refunded \in [Requests -> Nat]
  /\ recorded \in [Requests -> Nat]
  /\ day \in Nat

(* A payment yields one row, whoever confirms or reports it how often: of  *)
(* confirmPayment and the webhooks only one gets past the compare-and-set. *)
OneRowPerOrder ==
  \A i, j \in DOMAIN rows : rows[i].paidBy \in Payments /\ rows[i].paidBy = rows[j].paidBy => i = j

(* No access without money: a row bought with an order or a link exists    *)
(* only if that was paid and captured, and a mandate's period ends no      *)
(* later than the last cycle charged, in whatever order events come.       *)
PaidFor ==
  \A i \in DOMAIN rows :
    LET b == rows[i].paidBy IN
    /\ b \in Payments => money[b] = "paid" /\ payment[b].status \in {"captured", "partially_refunded", "refunded"}
    /\ b \in Mandate => rows[i].until <= mandate[b].cycle

(* supersedeCurrent takes the rows away before the new one is there: when  *)
(* the handlers have ended, and none died, a user whose row was superseded *)
(* has another one.                                                        *)
NotLockedOut ==
  Quiet /\ crashes = 0 /\ (\E i \in DOMAIN rows : rows[i].status = "superseded")
    => \E i \in DOMAIN rows : rows[i].status \notin {"superseded", "pending"}

(* A mandate that is over stays so: an event or a job that has read its    *)
(* row before cannot bring it back.                                        *)
ClosedStays ==
  [][\A i \in DOMAIN rows : rows[i].paidBy \in Mandate /\ rows[i].status \in Closed
       => rows'[i].status \in Closed]_vars

(* The grace a customer was given last is kept: an expiry job of an        *)
(* earlier grace, or one that is on its way when the charge succeeds and   *)
(* fails again, does not end it.                                           *)
NoEarlySuspension ==
  [][\A i \in DOMAIN rows : rows[i].status = "grace_period" /\ rows'[i].status = "expired"
       => rows[i].grace <= day \/ mandate[rows[i].paidBy].status = "ended"]_vars

(* A grace whose end was queued does end, although the worker may die.     *)
GraceEnds ==
  \A m \in Mandate, s \in (1 + Grace)..(1 + Grace * LastHalt * Cardinality(Mandate)) :
    [row |-> RowOf(m), stamp |-> s] \in jobs
      ~> ~(StatusOf(m) = "grace_period" /\ rows[RowOf(m)].grace = s)

(* A request makes the gateway pay back once, and none that was rejected,  *)
(* whichever admins answer it at the same time.                            *)
RefundedOnce ==
  \A r \in Requests : refunded[r] <= (IF request[r].status = "rejected" THEN 0 ELSE 1)

(* Money that went back is on the books once the handlers and events have  *)
(* been dealt with, although one of them may have died.                    *)
RefundOnBooks ==
  \A r \in Requests :
    Quiet /\ refunded[r] > 0 /\ {Event(t, r, 0) : t \in {"refundCreated", "refundProcessed"}} \subseteq seen
      => recorded[r] > 0 /\ payment[PayOf[r]].status \in {"refunded", "partially_refunded"}

(* A plan change that was paid for is applied, says applyCapturedPayment.  *)
UpgradeApplied ==
  Quiet /\ crashes = 0 =>
    \A o \in Payments : KindOf[o] = "upgrade" /\ payment[o].status = "captured"
      => rows[payment[o].sub].plan = PlanOf[o]
=============================================================================

-------------------------------- MODULE Checkout --------------------------------
(***************************************************************************)
(* Payments that are made once, and what they buy                          *)
(* (src/src/modules/subscriptions/billing/services): checkout orders       *)
(* (subscription-checkout), payment links (admin-payment-link), plan       *)
(* changes (plan-change), and the gateway's events about them              *)
(* (razorpay-webhook).                                                     *)
(*                                                                         *)
(* The gateway repeats and reorders events.  An event whose row exists is  *)
(* answered 200 and skipped, also when its handler died or threw, so each  *)
(* is handled at most once and a crash loses it.                           *)
(***************************************************************************)
EXTENDS Subscriptions

CONSTANTS Payments,  \* SubscriptionPayment documents
          KindOf,    \* "checkout", "link" or "upgrade" (context plan_change)
          PlanOf     \* the plan paid for

ASSUME PaymentAssumption ==
  /\ Payments \subseteq Bought
  /\ KindOf \in [Payments -> {"checkout", "link", "upgrade"}]
  /\ PlanOf \in [Payments -> Plans]

VARIABLES payment,  \* the documents
          money,    \* at the gateway: what has become of the order or link
          sent,     \* events the gateway has to deliver
          seen      \* RazorpayWebhookEvent documents

payVars == <<payment, money, sent, seen>>

(* sub: subscriptionId, 0 when unset.  link: gatewayPaymentLinkId is set.  *)
(* back: the sum of refunds[].amountPaise.                                 *)
Payment == [status : {"none", "created", "captured", "failed", "partially_refunded", "refunded"},
            sub : Nat, link : BOOLEAN, back : Nat]
NoPayment == [status |-> "none", sub |-> 0, link |-> FALSE, back |-> 0]

Event(type, of, n) == [type |-> type, of |-> of, n |-> n]
Send(e) == sent' = sent \cup {e}

CheckoutInit ==
  /\ SubInit
  /\ payment = [o \in Payments |-> NoPayment]
  /\ money = [o \in Payments |-> "none"]
  /\ sent = {} /\ seen = {}

Untouched(o) == o \in traffic /\ money[o] = "none" /\ payment[o].status = "none" /\ \A p \in Procs : handler[p].by # o

(* The event's own row is created, and its handler starts.                *)
Ingest(p, e, h) ==
  /\ e \in sent \ seen
  /\ seen' = seen \cup {e}
  /\ Begin(p, e.type, h)

(* Its handler finds at its first read, or does in its only write, all     *)
(* there is to do.                                                         *)
Dispatched(e) ==
  /\ e \in sent \ seen
  /\ e.type \in traffic
  /\ seen' = seen \cup {e}
  /\ UNCHANGED <<handler, crashes, traffic>>

-----------------------------------------------------------------------------
(* Orders.                                                                 *)

(* createOrder: assertCanSubscribeTo, and the order at the gateway.  An    *)
(* open order of the same plan is given again only for ten minutes.        *)
CreateOrder(p, o) ==
  /\ KindOf[o] = "checkout" /\ Untouched(o)
  /\ ~Refuses(Current, PlanOf[o])
  /\ Begin(p, "order", [Rest EXCEPT !.pc = "insertPayment", !.by = o])
  /\ money' = [money EXCEPT ![o] = "open"]
  /\ UNCHANGED <<rows, crashes, traffic, payment, sent, seen>>

(* paymentModel.create; an upgrade names the row it is for.                *)
InsertPayment(p) ==
  /\ On(p, "insertPayment")
  /\ payment' = [payment EXCEPT ![handler[p].by] = [@ EXCEPT !.status = "created", !.sub = handler[p].row]]
  /\ IF handler[p].flow = "link" THEN Goto(p, "createLink") ELSE Return(p)
  /\ UNCHANGED <<rows, crashes, traffic, money, sent, seen>>

(* issuePaymentLink: the document, then the link at the gateway, which     *)
(* mails it, then its id.                                                  *)
IssueLink(p, o) ==
  /\ KindOf[o] = "link" /\ Untouched(o)
  /\ Begin(p, "link", [Rest EXCEPT !.pc = "insertPayment", !.by = o])
  /\ UNCHANGED <<rows, crashes, traffic, payVars>>

CreateLink(p) ==
  /\ On(p, "createLink")
  /\ money' = [money EXCEPT ![handler[p].by] = "open"]
  /\ Goto(p, "saveLink")
  /\ UNCHANGED <<rows, crashes, traffic, payment, sent, seen>>

SaveLink(p) ==
  /\ On(p, "saveLink")
  /\ payment' = [payment EXCEPT ![handler[p].by].link = TRUE]
  /\ Return(p)
  /\ UNCHANGED <<rows, crashes, traffic, money, sent, seen>>

(* cancelPaymentLink: the gateway refuses when the link is paid or gone;   *)
(* then the document is closed if it is still open.                        *)
CancelLink(p, o) ==
  /\ payment[o].link /\ payment[o].status = "created" /\ money[o] = "open"
  /\ Begin(p, "cancelLink", [Rest EXCEPT !.pc = "closeLink", !.by = o])
  /\ money' = [money EXCEPT ![o] = "closed"]
  /\ Send(Event("linkClosed", o, 0))
  /\ UNCHANGED <<rows, crashes, traffic, payment, seen>>

FailPayment(o) == payment' = [payment EXCEPT ![o].status = IF @ = "created" THEN "failed" ELSE @]

CloseLink(p) ==
  /\ On(p, "closeLink")
  /\ FailPayment(handler[p].by)
  /\ Return(p)
  /\ UNCHANGED <<rows, crashes, traffic, money, sent, seen>>

-----------------------------------------------------------------------------
(* Capture: the client confirms, or the gateway reports.                   *)

(* Mutant: both who see the payment open capture it.                       *)
Capturable_Read(o) == payment[o].status \in {"created", "captured"}

(* The condition of the compare-and-set.                                   *)
Capturable(o) == payment[o].status = "created"

(* confirmPayment and confirmPlanChange up to the signature.               *)
Confirm(p, o) ==
  /\ KindOf[o] # "link" /\ money[o] = "paid" /\ payment[o].status = "created"
  /\ Begin(p, "confirm", [Rest EXCEPT !.pc = "capture", !.by = o])
  /\ UNCHANGED <<rows, crashes, traffic, payVars>>

(* handlePaymentCaptured, handlePaymentLinkPaid: a payment that is not     *)
(* there yet or not open any more is no reason to come back.               *)
Captured(p, o) ==
  /\ LET e == Event(IF KindOf[o] = "link" THEN "linkPaid" ELSE "captured", o, 0) IN
     IF payment[o].status = "created" /\ (KindOf[o] = "link" => payment[o].link)
       THEN Ingest(p, e, [Rest EXCEPT !.pc = "capture", !.by = o]) /\ UNCHANGED <<crashes, traffic>>
       ELSE Dispatched(e)
  /\ UNCHANGED <<rows, payment, money, sent>>

(* The compare-and-set; the loser answers.  A checkout goes on to          *)
(* subscribe, a plan change to its own application.                        *)
Capture(p) ==
  /\ On(p, "capture")
  /\ LET o == handler[p].by IN
     IF Capturable(o)
       THEN /\ payment' = [payment EXCEPT ![o].status = "captured"]
            /\ handler' = [handler EXCEPT ![p].pc = IF KindOf[o] = "upgrade" THEN "applying" ELSE "subscribe",
                                          ![p].plan = PlanOf[o]]
       ELSE Return(p) /\ UNCHANGED payment
  /\ UNCHANGED <<rows, crashes, traffic, money, sent, seen>>

(* captured.save() of the id of the new row.                               *)
LinkRow(p) ==
  /\ On(p, "inserted") /\ handler[p].by \in Payments
  /\ payment' = [payment EXCEPT ![handler[p].by].sub = Newest({i \in DOMAIN rows : rows[i].paidBy = handler[p].by})]
  /\ Return(p)
  /\ UNCHANGED <<rows, crashes, traffic, money, sent, seen>>

(* handlePaymentFailed and handlePaymentLinkClosed.                        *)
PaymentFailed(o) ==
  /\ \E type \in {"failed", "linkClosed"} : Dispatched(Event(type, o, 0))
  /\ IF KindOf[o] = "link" /\ ~payment[o].link THEN UNCHANGED payment ELSE FailPayment(o)
  /\ UNCHANGED <<rows, money, sent>>

-----------------------------------------------------------------------------
(* Plan change.                                                            *)

(* loadCurrentSubscription.                                                *)
CurrentRow == Newest({i \in Rows("oid", Live) : ~rows[i].due})

(* raiseUpgradeOrder.                                                      *)
RaiseUpgrade(p, o) ==
  /\ KindOf[o] = "upgrade" /\ Untouched(o)
  /\ CurrentRow # 0 /\ Tier[PlanOf[o]] > Tier[rows[CurrentRow].plan]
  /\ Begin(p, "upgrade", [Rest EXCEPT !.pc = "insertPayment", !.by = o, !.row = CurrentRow])
  /\ money' = [money EXCEPT ![o] = "open"]
  /\ UNCHANGED <<rows, crashes, traffic, payment, sent, seen>>

(* applyCapturedPlanChangePayment and applyCapturedPaymentInternal: the    *)
(* application is claimed by setting a subscriptionId that is not set yet. *)
ClaimUpgrade(p) ==
  /\ On(p, "applying")
  /\ LET o == handler[p].by IN
     IF payment[o].sub = 0 /\ CurrentRow # 0
       THEN /\ payment' = [payment EXCEPT ![o].sub = CurrentRow]
            /\ handler' = [handler EXCEPT ![p].pc = "upgrading", ![p].row = CurrentRow]
       ELSE Return(p) /\ UNCHANGED payment
  /\ UNCHANGED <<rows, crashes, traffic, money, sent, seen>>

(* executePlanChange of an upgrade that the unused time pays for.          *)
UpgradeForFree(p, plan) ==
  /\ CurrentRow # 0 /\ Tier[plan] > Tier[rows[CurrentRow].plan]
  /\ Begin(p, "upgradeFree", [Rest EXCEPT !.pc = "upgrading", !.row = CurrentRow, !.plan = plan])
  /\ UNCHANGED <<rows, crashes, traffic, payVars>>

(* applyUpgrade loads the row by its id and saves the plan.                *)
ApplyUpgrade(p) ==
  /\ On(p, "upgrading")
  /\ rows' = [rows EXCEPT ![handler[p].row].plan = handler[p].plan]
  /\ Return(p)
  /\ UNCHANGED <<crashes, traffic, payVars>>

(* scheduleDowngrade.                                                      *)
Downgrade(p, plan) ==
  /\ CurrentRow # 0 /\ Tier[plan] < Tier[rows[CurrentRow].plan]
  /\ Rows("oid", {"scheduled"}) = {}
  /\ Begin(p, "downgrade", [Rest EXCEPT !.pc = "insertScheduled", !.row = CurrentRow, !.plan = plan])
  /\ UNCHANGED <<rows, crashes, traffic, payVars>>

InsertScheduled(p) ==
  /\ On(p, "insertScheduled")
  /\ LET h == handler[p] IN
     Insert(p, [NewRow("oid", h.plan, "scheduled", None) EXCEPT !.after = h.row, !.due = rows[h.row].due])
  /\ UNCHANGED <<crashes, traffic, payVars>>

-----------------------------------------------------------------------------
(* The gateway and the customer.                                           *)

(* The customer has the order from the answer, the link from the mail.     *)
Pay(o) ==
  /\ money[o] = "open" /\ payment[o].status # "none"
  /\ money' = [money EXCEPT ![o] = "paid"]
  /\ Send(Event(IF KindOf[o] = "link" THEN "linkPaid" ELSE "captured", o, 0))
  /\ UNCHANGED <<subVars, payment, seen>>

(* An attempt fails; the order stays open for another one.                 *)
AttemptFails(o) ==
  /\ KindOf[o] # "link" /\ money[o] = "open" /\ payment[o].status # "none"
  /\ "failed" \in traffic /\ Event("failed", o, 0) \notin sent
  /\ Send(Event("failed", o, 0))
  /\ UNCHANGED <<subVars, payment, money, seen>>

LinkExpires(o) ==
  /\ KindOf[o] = "link" /\ money[o] = "open"
  /\ money' = [money EXCEPT ![o] = "closed"]
  /\ Send(Event("linkClosed", o, 0))
  /\ UNCHANGED <<subVars, payment, seen>>

CheckoutStep(p) ==
  \/ InsertPayment(p) \/ CreateLink(p) \/ SaveLink(p) \/ CloseLink(p) \/ Capture(p) \/ LinkRow(p)
  \/ ClaimUpgrade(p) \/ ApplyUpgrade(p) \/ InsertScheduled(p)

CheckoutCall(p) ==
  \/ \E o \in Payments : \/ CreateOrder(p, o) \/ IssueLink(p, o) \/ CancelLink(p, o)
                         \/ Confirm(p, o) \/ Captured(p, o) \/ RaiseUpgrade(p, o)
  \/ \E plan \in Plans : UpgradeForFree(p, plan) \/ Downgrade(p, plan)

CheckoutNext ==
  \/ \E p \in Procs : CheckoutStep(p) \/ CheckoutCall(p)
  \/ \E o \in Payments : PaymentFailed(o) \/ Pay(o) \/ AttemptFails(o) \/ LinkExpires(o)
  \/ SubscriptionNext /\ UNCHANGED payVars
=============================================================================

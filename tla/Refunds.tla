-------------------------------- MODULE Refunds --------------------------------
(***************************************************************************)
(* Refund requests (src/src/modules/subscriptions/billing/services/        *)
(* refund.service.ts) and the gateway's events about refunds               *)
(* (handleRefund of razorpay-webhook.service.ts).                          *)
(***************************************************************************)
EXTENDS Mandates, FiniteSetsExt

CONSTANTS Requests,  \* RefundRequest documents
          PayOf,     \* the payment a request is about
          Total      \* totalPaise of a payment, in units

ASSUME RefundAssumption ==
  /\ Requests \subseteq Bought /\ Requests \cap (Payments \cup Mandate) = {}
  /\ PayOf \in [Requests -> Payments]
  /\ Total \in Nat \ {0}

VARIABLES request,
          refunded,  \* refunds the gateway made for a request
          recorded   \* entries of payment.refunds with their refund id

refundVars == <<request, refunded, recorded>>

(* stamped: gatewayRefundId is set.                                        *)
Request == [status : {"none", "pending_admin", "approved", "processing", "processed", "failed", "rejected"},
            amount : Nat, stamped : BOOLEAN]
NoRequest == [status |-> "none", amount |-> 0, stamped |-> FALSE]

RefundInit ==
  /\ MandateInit
  /\ request = [r \in Requests |-> NoRequest]
  /\ refunded = [r \in Requests |-> 0]
  /\ recorded = [r \in Requests |-> 0]

(* What the gateway has paid back of a payment.                            *)
Returned(o) == MapThenSumSet(LAMBDA r : refunded[r] * request[r].amount, {r \in Requests : PayOf[r] = o})

-----------------------------------------------------------------------------
(* Requests.                                                               *)

(* resolveRefundAmount: what the entries leave.                            *)
Refundable(o) == Total - payment[o].back

(* requestRefund and directRefund read the payment; the amount is all that *)
(* is left, or a part.                                                     *)
RequestRefund(p, r, amount, status) ==
  /\ r \in traffic /\ request[r].status = "none" /\ \A q \in Procs : handler[q].by # r
  /\ payment[PayOf[r]].status \in {"captured", "partially_refunded"}
  /\ amount <= Refundable(PayOf[r])
  /\ Begin(p, "refund", [Rest EXCEPT !.pc = "insertRequest", !.by = r, !.n = amount, !.want = status])
  /\ UNCHANGED <<rows, crashes, traffic, payVars, mandateVars, refundVars>>

(* createRefundRequest; a unique index admits one in flight per payment.   *)
InsertRequest(p) ==
  /\ On(p, "insertRequest")
  /\ LET h == handler[p] IN
     IF \E r \in Requests : /\ PayOf[r] = PayOf[h.by]
                            /\ request[r].status \in {"pending_admin", "approved", "processing"}
       THEN Return(p) /\ UNCHANGED request
       ELSE /\ request' = [request EXCEPT ![h.by] = [status |-> h.want, amount |-> h.n, stamped |-> FALSE]]
            /\ IF h.want = "approved" THEN Goto(p, "execute") ELSE Return(p)
  /\ UNCHANGED <<rows, crashes, traffic, payVars, mandateVars, refunded, recorded>>

ApproveRequest(p, r) ==
  /\ request[r].status = "pending_admin"
  /\ Begin(p, "approve", [Rest EXCEPT !.pc = "execute", !.by = r])
  /\ request' = [request EXCEPT ![r].status = "approved"]
  /\ UNCHANGED <<rows, crashes, traffic, payVars, mandateVars, refunded, recorded>>

(* Mutant: the verdict of another admin is not looked at.                  *)
RejectRequest_Any(r) ==
  /\ "approve" \in traffic
  /\ request[r].status \in {"pending_admin", "approved", "processing"}
  /\ request' = [request EXCEPT ![r].status = "rejected"]
  /\ UNCHANGED <<subVars, payVars, mandateVars, refunded, recorded>>

RejectRequest(r) ==
  /\ "approve" \in traffic
  /\ request[r].status = "pending_admin"
  /\ request' = [request EXCEPT ![r].status = "rejected"]
  /\ UNCHANGED <<subVars, payVars, mandateVars, refunded, recorded>>

-----------------------------------------------------------------------------
(* executeRefund.                                                          *)

(* The compare-and-set from approved.                                      *)
Execute(p) ==
  /\ On(p, "execute")
  /\ IF request[handler[p].by].status = "approved"
       THEN /\ request' = [request EXCEPT ![handler[p].by].status = "processing"]
            /\ Goto(p, "readPayment")
       ELSE Return(p) /\ UNCHANGED request
  /\ UNCHANGED <<rows, crashes, traffic, payVars, mandateVars, refunded, recorded>>

(* The payment as it is read, for what is written later.                   *)
Read(p, pc) ==
  LET o == PayOf[handler[p].by] IN
  handler' = [handler EXCEPT ![p].pc = pc, ![p].row = payment[o].sub, ![p].was = payment[o].status,
                             ![p].n = payment[o].back]

ReadPayment(p) ==
  /\ On(p, "readPayment")
  /\ Read(p, "createRefund")
  /\ UNCHANGED <<rows, crashes, traffic, payVars, mandateVars, refundVars>>

(* markRequestFailed.                                                      *)
MarkFailed(p) ==
  /\ request' = [request EXCEPT ![handler[p].by].status = IF @ = "processing" THEN "failed" ELSE @]
  /\ Return(p)

(* razorpay.createRefund: refused, or made; an answer that is lost counts  *)
(* as a refusal.                                                           *)
CreateRefund(p) ==
  /\ On(p, "createRefund")
  /\ LET r == handler[p].by IN
     \/ MarkFailed(p) /\ UNCHANGED <<refunded, sent>>
     \/ /\ Returned(PayOf[r]) + request[r].amount <= Total
        /\ refunded' = [refunded EXCEPT ![r] = @ + 1]
        /\ Send(Event("refundCreated", r, 0))
        /\ MarkFailed(p) \/ (Goto(p, "stamp") /\ UNCHANGED request)
  /\ UNCHANGED <<rows, crashes, traffic, payment, money, seen, mandateVars, recorded>>

StampRequest(p) ==
  /\ On(p, "stamp")
  /\ request' = [request EXCEPT ![handler[p].by].stamped = TRUE]
  /\ Goto(p, "record")
  /\ UNCHANGED <<rows, crashes, traffic, payVars, mandateVars, refunded, recorded>>

(* payment.save(): the entry is pushed, the status follows from the sum    *)
(* over the entries that were read.                                        *)
Record(p, pc) ==
  LET h == handler[p]
      status == IF h.n + request[h.by].amount >= Total THEN "refunded" ELSE "partially_refunded"
  IN /\ recorded' = [recorded EXCEPT ![h.by] = @ + 1]
     /\ payment' = [payment EXCEPT ![PayOf[h.by]].status = IF status = h.was THEN @ ELSE status,
                                   ![PayOf[h.by]].back = @ + request[h.by].amount]
     /\ Goto(p, pc)

RecordRefund(p) ==
  /\ On(p, "record")
  /\ Record(p, "autoDowngrade")
  /\ UNCHANGED <<rows, crashes, traffic, money, sent, seen, mandateVars, request, refunded>>

(* The row the payment was linked to when it was read is cancelled.        *)
AutoDowngrade(p) ==
  /\ On(p, "autoDowngrade")
  /\ LET i == handler[p].row IN
     rows' = IF request[handler[p].by].amount >= Total /\ i # 0 /\ rows[i].status \notin Closed
               THEN SetStatus({i}, "cancelled") ELSE rows
  /\ Goto(p, "settle")
  /\ UNCHANGED <<crashes, traffic, payVars, mandateVars, refundVars>>

(* processed, when the gateway said so at once; a webhook's word else.     *)
Settle(p) ==
  /\ On(p, "settle")
  /\ \/ request' = [request EXCEPT ![handler[p].by].status = "processed"]
     \/ UNCHANGED request
  /\ Return(p)
  /\ UNCHANGED <<rows, crashes, traffic, payVars, mandateVars, refunded, recorded>>

-----------------------------------------------------------------------------
(* The gateway's events.                                                   *)

(* Mutant: a request with a refund id is taken for a recorded one.         *)
Already_Stamped(r) == request[r].stamped

Already(r) == recorded[r] > 0

(* handleRefund ends early when the entry is there; else it writes it ...  *)
RefundEvent(p, r, type) ==
  /\ LET e == Event(type, r, 0)
         o == PayOf[r]
     IN IF Already(r)
          THEN Dispatched(e)
          ELSE /\ Ingest(p, e, [Rest EXCEPT !.pc = "push", !.by = r, !.row = payment[o].sub, !.was = payment[o].status,
                                !.n = payment[o].back])
               /\ UNCHANGED <<crashes, traffic>>
  /\ UNCHANGED <<rows, payment, money, sent, mandateVars, refundVars>>

PushRefund(p) ==
  /\ On(p, "push")
  /\ Record(p, "sync")
  /\ UNCHANGED <<rows, crashes, traffic, money, sent, seen, mandateVars, request, refunded>>

(* ... and syncFromWebhook closes the request it finds by the refund id.   *)
SyncRequest(p) ==
  /\ On(p, "sync")
  /\ LET r == handler[p].by IN
     request' = [request EXCEPT ![r].status =
       IF handler[p].flow = "refundProcessed" /\ request[r].stamped /\ @ \notin {"processed", "failed", "rejected"}
         THEN "processed" ELSE @]
  /\ Return(p)
  /\ UNCHANGED <<rows, crashes, traffic, payVars, mandateVars, refunded, recorded>>

(* The gateway reports that the money has gone back.                       *)
ProcessRefund(r) ==
  /\ refunded[r] > 0 /\ Event("refundProcessed", r, 0) \notin sent
  /\ Send(Event("refundProcessed", r, 0))
  /\ UNCHANGED <<subVars, payment, money, seen, mandateVars, refundVars>>

RefundStep(p) ==
  \/ InsertRequest(p) \/ Execute(p) \/ ReadPayment(p) \/ CreateRefund(p) \/ StampRequest(p)
  \/ RecordRefund(p) \/ AutoDowngrade(p) \/ Settle(p) \/ PushRefund(p) \/ SyncRequest(p)

RefundCall(p) ==
  \E r \in Requests :
    \/ \E amount \in 1..Total, status \in {"approved", "pending_admin"} : RequestRefund(p, r, amount, status)
    \/ ApproveRequest(p, r)
    \/ \E type \in {"refundCreated", "refundProcessed"} : RefundEvent(p, r, type)

RefundNext ==
  \/ \E p \in Procs : RefundStep(p) \/ RefundCall(p)
  \/ \E r \in Requests : RejectRequest(r) \/ ProcessRefund(r)
  \/ MandateNext /\ UNCHANGED refundVars
=============================================================================

----------------------------- MODULE Billing_proofs -----------------------------
(***************************************************************************)
(* Proofs about Billing, for any plans, payments, mandates, refund         *)
(* requests, handlers and bounds: the state stays well typed, no payment   *)
(* yields two rows, no request is paid back twice, a mandate that is over  *)
(* stays over, grace is kept, there is no access without money, a refund   *)
(* gets on the books although a handler died, and a user whose row was     *)
(* superseded has another one.                                             *)
(*                                                                         *)
(* A step is classified by what it does to rows, payments and handlers     *)
(* (Fine, Calm, Sale, Steady); the invariant is then preserved by the      *)
(* class, not by the action.                                               *)
(***************************************************************************)
EXTENDS Billing, SequenceTheorems, TLAPS

(* All handlers, the worker of the queue among them.                       *)
Everyone == Procs \cup {Worker}

(* Rows are typed.                                                         *)
RowsOK == rows \in Seq(Row)

(* No row goes, changes its payer, or is new and paid by an order or a     *)
(* link.                                                                   *)
Kept ==
  /\ DOMAIN rows \subseteq DOMAIN rows'
  /\ \A i \in DOMAIN rows' :
       IF i \in DOMAIN rows THEN rows'[i].paidBy = rows[i].paidBy ELSE rows'[i].paidBy \notin Payments

-----------------------------------------------------------------------------
(* Rows and handlers.                                                      *)

(* Rows that are written in place are typed and kept;                      *)
LEMMA RowsMapped ==
  ASSUME RowsOK, NEW f, rows' = [i \in DOMAIN rows |-> f[i]],
         \A i \in DOMAIN rows : f[i] \in Row /\ f[i].paidBy = rows[i].paidBy
  PROVE  RowsOK' /\ Kept
<1> DEFINE rs == [i \in DOMAIN rows |-> f[i]]
<1>1. DOMAIN rows = 1..Len(rows) /\ Len(rows) \in Nat
  BY DEF RowsOK
<1>2. rs \in [1..Len(rows) -> Row]
  BY <1>1
<1>3. rs \in Seq(Row)
  BY <1>1, <1>2, SeqDef
<1>. QED BY <1>3 DEF RowsOK, Kept

(* ... so are those whose status is set,                                   *)
LEMMA StatusSet ==
  ASSUME RowsOK, NEW S, NEW status \in Statuses, rows' = SetStatus(S, status)
  PROVE  RowsOK' /\ Kept
<1> DEFINE f == [i \in DOMAIN rows |-> IF i \in S THEN [rows[i] EXCEPT !.status = status] ELSE rows[i]]
<1>1. \A i \in DOMAIN rows : rows[i] \in Row
  BY DEF RowsOK
<1>2. \A i \in DOMAIN rows : f[i] \in Row /\ f[i].paidBy = rows[i].paidBy
  BY <1>1 DEF Row
<1>3. rows' = [i \in DOMAIN rows |-> f[i]]
  BY DEF SetStatus
<1>. QED BY <1>2, <1>3, RowsMapped

(* ... and one that is written.                                            *)
LEMMA RowSet ==
  ASSUME RowsOK, NEW i, NEW r, rows' = [rows EXCEPT ![i] = r],
         i \in DOMAIN rows => r \in Row /\ r.paidBy = rows[i].paidBy
  PROVE  RowsOK' /\ Kept
<1> DEFINE f == [j \in DOMAIN rows |-> IF j = i THEN r ELSE rows[j]]
<1>1. \A j \in DOMAIN rows : rows[j] \in Row
  BY DEF RowsOK
<1>2. rows' = [j \in DOMAIN rows |-> f[j]]
  BY DEF RowsOK
<1>. QED BY <1>1, <1>2, RowsMapped

(* A row that is appended is the only new one.                             *)
LEMMA RowAppended ==
  ASSUME RowsOK, NEW r \in Row, rows' = Append(rows, r)
  PROVE  RowsOK' /\ (r.paidBy \notin Payments => Kept)
         /\ DOMAIN rows \subseteq DOMAIN rows'
         /\ \A i \in DOMAIN rows' : IF i \in DOMAIN rows THEN rows'[i] = rows[i] ELSE rows'[i] = r
BY DEF RowsOK, Kept

(* Where a handler has a payment captured and its row still to insert.     *)
Buying == {"subscribe", "supersedeOld", "supersedeLive", "insert", "insertTrial", "activate", "forceSave", "promoting"}

(* Where a handler works on a refund request.                              *)
Refunding == {"insertRequest", "execute", "readPayment", "createRefund", "stamp", "record", "autoDowngrade", "settle"}

(* What a handler holds where it is: the status to insert, the row a       *)
(* downgrade follows, and the document it is about. D: the rows there are. *)
HoldsOK(h, D) ==
  /\ h.pc \notin Refunding => h.want \in {"active", "scheduled"}
  /\ h.pc = "insertScheduled" => h.row \in D
  /\ h.pc \in {"insertPayment", "capture"} => h.by \in Payments
  /\ h.pc = "insertPending" => h.by \in Mandate
  /\ h.pc \in {"insertFree", "insertScheduled"} => h.by \notin Payments
  /\ h.pc \in Refunding \cup {"push", "sync"} => h.by \in Requests
  /\ h.pc = "insertRequest" => h.want \in {"approved", "pending_admin"}

(* Handlers are typed, and hold what they need.                            *)
HandlersOK == handler \in [Everyone -> Local] /\ \A p \in Everyone : HoldsOK(handler[p], DOMAIN rows)

(* Nobody starts to insert a row for a payment, or to create a payment.    *)
NoNewBuyer ==
  \A q \in Everyone :
    /\ handler'[q].pc \in Buying /\ handler'[q].by \in Payments
         => handler[q].pc \in Buying /\ handler[q].by = handler'[q].by
    /\ handler'[q].pc = "insertPayment" => handler'[q] = handler[q]

(* Nobody starts to work on a refund request.                              *)
NoNewRefund == \A q \in Everyone : handler'[q] = handler[q] \/ handler'[q].pc \notin Refunding

(* An idle handler is typed.                                               *)
LEMMA RestOK == Rest \in Local
BY SubscriptionAssumption DEF Rest, Local, Flows, Points, Statuses, Live

(* No payment is the payer None.                                           *)
LEMMA NoneOK == None \notin Payments
BY SubscriptionAssumption, PaymentAssumption

(* The types of handlers are at hand in every proof below.                 *)
USE DEF HandlersOK

(* A handler takes a new local state.                                      *)
LEMMA Moves ==
  ASSUME HandlersOK, NEW p \in Everyone, NEW h \in Local, handler' = [handler EXCEPT ![p] = h],
         DOMAIN rows \subseteq DOMAIN rows', HoldsOK(h, DOMAIN rows'),
         h.pc \notin Refunding,
         h.pc # "insertPayment",
         h.pc \in Buying /\ h.by \in Payments => handler[p].pc \in Buying /\ handler[p].by = h.by
  PROVE  HandlersOK' /\ NoNewBuyer /\ NoNewRefund
<1>1. handler' \in [Everyone -> Local] /\ handler'[p] = h /\ \A q \in Everyone \ {p} : handler'[q] = handler[q]
  OBVIOUS
<1>2. \A q \in Everyone : HoldsOK(handler'[q], DOMAIN rows')
  BY <1>1 DEF HoldsOK
<1>. QED BY <1>1, <1>2 DEF NoNewBuyer, NoNewRefund

(* A handler that ends neither buys nor refunds.                           *)
LEMMA Ends ==
  ASSUME HandlersOK, NEW p \in Everyone, Return(p), DOMAIN rows \subseteq DOMAIN rows'
  PROVE  HandlersOK' /\ NoNewBuyer /\ NoNewRefund
BY RestOK, Moves, NoneOK DEF Return, Rest, HoldsOK, Buying, Refunding

(* A handler goes on outside refunds and what enters a row or payment.     *)
LEMMA Proceeds ==
  ASSUME HandlersOK, NEW p \in Everyone, NEW pc \in Points, Goto(p, pc), DOMAIN rows \subseteq DOMAIN rows',
         handler[p].pc \notin Refunding, pc \notin Refunding \cup {"insertPayment", "capture", "insertPending", "insertFree", "insertScheduled", "push"},
         pc = "sync" => handler[p].pc = "push",
         pc \in Buying => handler[p].pc \in Buying \/ handler[p].by \notin Payments
  PROVE  HandlersOK' /\ NoNewBuyer /\ NoNewRefund
<1> DEFINE h == [handler[p] EXCEPT !.pc = pc]
<1>1. h \in Local /\ h.pc = pc /\ h.by = handler[p].by /\ h.want = handler[p].want
  BY DEF Local
<1>2. HoldsOK(handler[p], DOMAIN rows)
  OBVIOUS
<1>3. HoldsOK(h, DOMAIN rows')
  BY <1>1, <1>2 DEF HoldsOK, Refunding
<1>4. handler' = [handler EXCEPT ![p] = h]
  BY DEF Goto
<1>. QED BY <1>1, <1>3, <1>4, Moves

(* The one row of its payment is inserted by the handler that has it.      *)
Sold(p) ==
  /\ handler[p].pc = "insert" /\ handler'[p].pc = "inserted"
  /\ DOMAIN rows \subseteq DOMAIN rows'
  /\ \A i, j \in DOMAIN rows' \ DOMAIN rows : i = j
  /\ \A i \in DOMAIN rows' :
       rows'[i].paidBy = IF i \in DOMAIN rows THEN rows[i].paidBy ELSE handler[p].by

(* What the operations on rows alone do to rows and handlers.              *)
Fine ==
  /\ RowsOK' /\ HandlersOK' /\ NoNewBuyer /\ NoNewRefund
  /\ Kept \/ \E p \in Procs : Sold(p)

(* Rows that are not touched are kept.                                     *)
LEMMA RowsSame == ASSUME RowsOK, rows' = rows PROVE RowsOK' /\ Kept
BY DEF RowsOK, Kept

(* A handler takes up a call that buys nothing yet.                        *)
LEMMA Starts ==
  ASSUME RowsOK, HandlersOK, NEW p \in Everyone, NEW flow \in Flows, NEW h \in Local, Begin(p, flow, h),
         rows' = rows, HoldsOK(h, DOMAIN rows), h.pc \notin Refunding \cup {"insertPayment"},
         h.pc \in Buying => h.by \notin Payments
  PROVE  Fine
<1> DEFINE g == [h EXCEPT !.flow = flow]
<1>1. g \in Local /\ g.pc = h.pc /\ g.by = h.by /\ g.want = h.want /\ g.row = h.row
  BY DEF Local
<1>2. HoldsOK(g, DOMAIN rows')
  BY <1>1 DEF HoldsOK
<1>3. handler' = [handler EXCEPT ![p] = g]
  BY DEF Begin
<1>. QED BY <1>1, <1>2, <1>3, Moves, RowsSame DEF Fine

(* A handler whose write was refused ends, or goes on with its next row.   *)
LEMMA NextRowOK ==
  ASSUME HandlersOK, NEW p \in Everyone, NextRow(p), DOMAIN rows \subseteq DOMAIN rows',
         handler[p].pc \in Buying \/ handler[p].by \notin Payments, handler[p].pc \notin Refunding
  PROVE  HandlersOK' /\ NoNewBuyer /\ NoNewRefund
<1>1. CASE handler[p].flow = "promote"
  BY <1>1, Proceeds DEF NextRow, Points, Refunding
<1>2. CASE handler[p].flow # "promote"
  BY <1>2, Ends DEF NextRow
<1>. QED BY <1>1, <1>2

(* A conditional write of rows that keeps the payers,                      *)
LEMMA Writes ==
  ASSUME RowsOK, HandlersOK, NEW p \in Everyone, NEW rs, NEW pc \in {"inserted", "promoting"}, Write(p, rs, pc),
         handler[p].pc \in Buying \/ handler[p].by \notin Payments, handler[p].pc \notin Refunding,
         rows' = rs => RowsOK' /\ Kept
  PROVE  Fine
<1>1. CASE rows' = rs /\ Goto(p, pc)
  BY <1>1, Proceeds DEF Fine, Points, Refunding, Buying, Kept
<1>2. CASE NextRow(p) /\ rows' = rows
  BY <1>2, NextRowOK, RowsSame DEF Fine, Kept
<1>. QED BY <1>1, <1>2 DEF Write

(* ... and one that inserts a row nobody has paid for.                     *)
LEMMA Inserts ==
  ASSUME RowsOK, HandlersOK, NEW p \in Everyone, NEW r \in Row, Insert(p, r), r.paidBy \notin Payments,
         handler[p].pc \in Buying \/ handler[p].by \notin Payments, handler[p].pc \notin Refunding
  PROVE  Fine
BY RowAppended, Writes DEF Insert

(* What is known of a handler, and of a row.                               *)
LEMMA HolderOK == ASSUME HandlersOK, NEW p \in Everyone PROVE handler[p] \in Local /\ HoldsOK(handler[p], DOMAIN rows)
OBVIOUS

LEMMA RowTyped == ASSUME RowsOK, NEW i \in DOMAIN rows PROVE rows[i] \in Row /\ i \in Nat
BY DEF RowsOK

(* New rows are typed; so is one that starts.                              *)
LEMMA NewRowOK ==
  ASSUME NEW form \in {"str", "oid"}, NEW plan \in Plans, NEW status \in Statuses, NEW by \in Bought \cup {None}
  PROVE  NewRow(form, plan, status, by) \in Row /\ NewRow(form, plan, status, by).paidBy = by
BY DEF NewRow, Row

LEMMA StartedOK ==
  ASSUME RowsOK, NEW i, rows' = Started(i)
  PROVE  RowsOK' /\ Kept
<1> DEFINE r == [rows[i] EXCEPT !.status = "active", !.due = FALSE, !.after = 0]
<1>1. i \in DOMAIN rows => r \in Row /\ r.paidBy = rows[i].paidBy
  BY RowTyped DEF Row, Statuses, Live
<1>2. rows' = [rows EXCEPT ![i] = r]
  BY DEF Started
<1>. QED BY <1>1, <1>2, RowSet

-----------------------------------------------------------------------------
(* Subscriptions.                                                          *)

(* Every step of an operation of SubscriptionsService is fine,             *)
LEMMA SubscriptionSteps ==
  ASSUME RowsOK, HandlersOK, NEW p \in Procs, Step(p)
  PROVE  Fine
<1>. p \in Everyone
  BY DEF Everyone
<1>h. handler[p] \in Local /\ HoldsOK(handler[p], DOMAIN rows)
  BY HolderOK
<1>1. CASE SupersedeOld(p)
  <2>1. RowsOK' /\ Kept
    BY <1>1, StatusSet DEF SupersedeOld, Statuses, Closed
  <2>. QED BY <1>1, <2>1, Proceeds DEF SupersedeOld, Fine, Kept, On, Points, Refunding, Buying
<1>2. CASE SupersedeLive(p)
  <2>1. RowsOK' /\ Kept
    BY <1>2, StatusSet DEF SupersedeLive, Statuses, Closed
  <2>2. Superseding(p) \in {"insert", "insertTrial", "activate", "forceSave"}
    BY DEF Superseding, Resume
  <2>. QED BY <1>2, <2>1, <2>2, Proceeds DEF SupersedeLive, Fine, Kept, On, Points, Refunding, Buying
<1>3. CASE ReadCurrent(p)
  <2>1. rows' = rows /\ handler[p].pc = "subscribe"
    BY <1>3 DEF ReadCurrent, On
  <2>2. CASE Return(p)
    BY <2>1, <2>2, Ends, RowsSame DEF Fine
  <2>3. CASE ~Return(p)
    <3>1. PICK pc \in {"insert", "supersedeOld"}, want \in {"active", "scheduled"} :
            handler' = [handler EXCEPT ![p].pc = pc, ![p].row = Current, ![p].want = want]
      BY <1>3, <2>3 DEF ReadCurrent
    <3>2. Current \in Nat
      BY RowTyped DEF Current, Newest, Rows
    <3> DEFINE h == [handler[p] EXCEPT !.pc = pc, !.row = Current, !.want = want]
    <3>6. pc \in Points /\ want \in Statuses
      BY DEF Points, Statuses, Live
    <3>3. h \in Local /\ h.pc = pc /\ h.by = handler[p].by /\ h.want = want
      BY <1>h, <3>2, <3>6 DEF Local
    <3>4. HoldsOK(h, DOMAIN rows')
      BY <3>3 DEF HoldsOK, Refunding
    <3>5. handler' = [handler EXCEPT ![p] = h]
      BY <3>1
    <3>. QED BY <2>1, <3>3, <3>4, <3>5, Moves, RowsSame DEF Fine, Refunding, Buying
  <2>. QED BY <2>2, <2>3
<1>4. CASE InsertSubscription(p)
  <2> DEFINE h == handler[p]
             r == [NewRow("str", h.plan, h.want, h.by) EXCEPT
                    !.after = IF h.want = "scheduled" THEN h.row ELSE 0,
                    !.due = h.want = "scheduled" /\ (h.row = 0 \/ rows[h.row].due)]
  <2>1. handler[p].pc = "insert" /\ Write(p, Append(rows, r), "inserted")
    BY <1>4 DEF InsertSubscription, Insert, On
  <2>2. h.want \in {"active", "scheduled"}
    BY <1>h, <2>1 DEF HoldsOK, Refunding
  <2>3. r \in Row /\ r.paidBy = h.by
    BY <1>h, <2>2 DEF Local, NewRow, Row, Statuses, Live
  <2>4. CASE rows' = Append(rows, r) /\ Goto(p, "inserted")
    <3>1. RowsOK' /\ DOMAIN rows \subseteq DOMAIN rows'
          /\ \A i \in DOMAIN rows' : IF i \in DOMAIN rows THEN rows'[i] = rows[i] ELSE rows'[i] = r
      BY <2>3, <2>4, RowAppended
    <3>2. \A i, j \in DOMAIN rows' \ DOMAIN rows : i = j
      BY <2>4, <2>3 DEF RowsOK
    <3>3. HandlersOK' /\ NoNewBuyer /\ NoNewRefund
      BY <2>1, <2>4, <3>1, Proceeds DEF Points, Refunding, Buying
    <3>4. handler'[p].pc = "inserted"
      BY <1>h, <2>4 DEF Goto, Local
    <3>5. Sold(p)
      BY <2>1, <2>3, <3>1, <3>2, <3>4 DEF Sold
    <3>. QED BY <3>1, <3>3, <3>5 DEF Fine
  <2>5. CASE NextRow(p) /\ rows' = rows
    BY <2>1, <2>5, NextRowOK, RowsSame DEF Fine, Kept, Refunding, Buying
  <2>. QED BY <2>1, <2>4, <2>5 DEF Write
<1>5. CASE Inserted(p)
  BY <1>5, Ends, RowsSame DEF Inserted, Fine, Kept
<1>6. CASE InsertFree(p)
  <2>1. NewRow("oid", Base, "active", None) \in Row /\ NewRow("oid", Base, "active", None).paidBy \notin Payments
    BY NewRowOK, NoneOK, SubscriptionAssumption DEF Statuses, Live
  <2>2. handler[p].by \notin Payments
    BY <1>6, <1>h DEF InsertFree, On, HoldsOK
  <2>. QED BY <1>6, <2>1, <2>2, Inserts DEF InsertFree, On, Refunding
<1>7. CASE InsertTrial(p)
  <2> DEFINE r == [NewRow("oid", Base, "trial", None) EXCEPT !.trial = "on"]
  <2>1. r \in Row /\ r.paidBy \notin Payments
    BY NewRowOK, NoneOK, SubscriptionAssumption DEF Statuses, Live, Row
  <2>. QED BY <1>7, <2>1, Inserts DEF InsertTrial, On, Refunding, Buying
<1>8. CASE SaveCancelled(p)
  <2>1. RowsOK' /\ Kept
    BY <1>8, StatusSet DEF SaveCancelled, Statuses, Closed
  <2>. QED BY <1>8, <2>1, Ends DEF SaveCancelled, Fine, Kept
<1>9. CASE ForceSave(p)
  BY <1>9, StartedOK, Writes DEF ForceSave, On, Buying, Refunding
<1>10. CASE PromoteNext(p)
  <2>1. rows' = rows /\ handler[p].pc = "promoting"
    BY <1>10 DEF PromoteNext, On
  <2>2. CASE Return(p)
    BY <2>1, <2>2, Ends, RowsSame DEF Fine
  <2>3. CASE ~Return(p)
    <3>1. PICK i \in handler[p].todo :
            handler' = [handler EXCEPT ![p].pc = "supersedeOld", ![p].row = i, ![p].todo = @ \ {i}]
      BY <1>10, <2>3 DEF PromoteNext
    <3> DEFINE h == [handler[p] EXCEPT !.pc = "supersedeOld", !.row = i, !.todo = @ \ {i}]
    <3>2. h \in Local /\ h.pc = "supersedeOld" /\ h.by = handler[p].by /\ h.want = handler[p].want
      BY <1>h DEF Local, Points
    <3>3. HoldsOK(h, DOMAIN rows')
      BY <1>h, <2>1, <3>2 DEF HoldsOK, Refunding
    <3>4. handler' = [handler EXCEPT ![p] = h]
      BY <3>1
    <3>. QED BY <2>1, <3>2, <3>3, <3>4, Moves, RowsSame DEF Fine, Refunding, Buying
  <2>. QED BY <2>2, <2>3
<1>11. CASE Activate(p)
  BY <1>11, StartedOK, Writes DEF Activate, On, Buying, Refunding
<1>12. CASE DowngradeTrial(p)
  <2>1. handler[p].pc = "downgrading"
    BY <1>12 DEF DowngradeTrial, On
  <2>2. PICK i \in handler[p].todo :
          \/ rows' = Downgraded(i) /\ handler' = [handler EXCEPT ![p].todo = @ \ {i}]
          \/ Return(p) /\ rows' = rows
    BY <1>12 DEF DowngradeTrial
  <2>3. CASE rows' = Downgraded(i) /\ handler' = [handler EXCEPT ![p].todo = @ \ {i}]
    <3> DEFINE r == [rows[i] EXCEPT !.status = "active", !.trial = "ended", !.due = FALSE]
               h == [handler[p] EXCEPT !.todo = @ \ {i}]
    <3>1. i \in DOMAIN rows => r \in Row /\ r.paidBy = rows[i].paidBy
      BY RowTyped DEF Row, Statuses, Live
    <3>6. rows' = [rows EXCEPT ![i] = r]
      BY <2>3 DEF Downgraded
    <3>2. RowsOK' /\ Kept
      BY <3>1, <3>6, RowSet
    <3>3. h \in Local /\ h.pc = handler[p].pc /\ h.by = handler[p].by /\ h.want = handler[p].want
      BY <1>h DEF Local
    <3>4. HoldsOK(h, DOMAIN rows')
      BY <1>h, <2>1, <3>3 DEF HoldsOK, Refunding
    <3>5. handler' = [handler EXCEPT ![p] = h]
      BY <2>3
    <3>. QED BY <2>1, <3>2, <3>3, <3>4, <3>5, Moves DEF Fine, Kept, Refunding, Buying
  <2>. QED BY <2>2, <2>3, Ends, RowsSame DEF Fine
<1>13. CASE ExpireLapsed(p)
  <2>1. RowsOK' /\ Kept
    BY <1>13, StatusSet DEF ExpireLapsed, Statuses, Closed
  <2>. QED BY <1>13, <2>1, Ends DEF ExpireLapsed, Fine, Kept
<1>. QED BY <1>1, <1>2, <1>3, <1>4, <1>5, <1>6, <1>7, <1>8, <1>9, <1>10, <1>11, <1>12, <1>13 DEF Step

(* What an idle handler holds.                                             *)
LEMMA RestFields == Rest.pc = "idle" /\ Rest.by = None /\ Rest.want = "active" /\ Rest.row = 0
BY DEF Rest

(* Handlers that do not move stay what they are.                           *)
LEMMA Idle ==
  ASSUME HandlersOK, handler' = handler, DOMAIN rows \subseteq DOMAIN rows'
  PROVE  HandlersOK' /\ NoNewBuyer /\ NoNewRefund
BY DEF HoldsOK, NoNewBuyer, NoNewRefund

(* ... every call that starts one is,                                      *)
LEMMA SubscriptionCalls ==
  ASSUME RowsOK, HandlersOK, NEW p \in Procs, Call(p)
  PROVE  Fine
<1>. p \in Everyone
  BY DEF Everyone
<1>. USE RestOK, RestFields, NoneOK
<1>f. /\ {"subscribe", "heal", "trial", "cancel", "cancelScheduled", "force", "promote", "expire"} \subseteq Flows
      /\ {"subscribe", "insertFree", "supersedeOld", "saveCancelled", "promoting", "downgrading"} \subseteq Points
  BY DEF Flows, Points
<1>0. /\ \A i \in DOMAIN rows : i \in Nat
      /\ {"active", "scheduled"} \subseteq Statuses
  BY RowTyped DEF Statuses, Live
<1>a. DOMAIN rows \in SUBSET Nat
  BY <1>0
<1>1. CASE \E plan \in Plans \cap traffic, want \in {"active", "scheduled"} : Subscribe(p, plan, want)
  <2>1. PICK plan \in Plans, want \in {"active", "scheduled"} : Subscribe(p, plan, want)
    BY <1>1
  <2> DEFINE h == [Rest EXCEPT !.pc = "subscribe", !.plan = plan, !.want = want]
  <2>2. h \in Local /\ h.pc = "subscribe" /\ h.by = None /\ h.want = want
    BY <1>0, <1>f, <2>1 DEF Local
  <2>3. HoldsOK(h, DOMAIN rows)
    BY <2>1, <2>2 DEF HoldsOK, Refunding
  <2>4. Begin(p, "subscribe", h) /\ rows' = rows
    BY <2>1 DEF Subscribe
  <2>. QED BY <1>f, <2>2, <2>3, <2>4, Starts DEF Refunding
<1>2. CASE Heal(p)
  <2> DEFINE h == [Rest EXCEPT !.pc = "insertFree"]
  <2>1. h \in Local /\ h.pc = "insertFree" /\ h.by = None /\ h.want = "active"
    BY <1>f DEF Local
  <2>2. HoldsOK(h, DOMAIN rows)
    BY <2>1 DEF HoldsOK, Refunding
  <2>3. Begin(p, "heal", h) /\ rows' = rows
    BY <1>2 DEF Heal
  <2>. QED BY <1>f, <2>1, <2>2, <2>3, Starts DEF Refunding
<1>3. CASE StartTrial(p)
  <2> DEFINE h == [Rest EXCEPT !.pc = "supersedeOld"]
  <2>1. h \in Local /\ h.pc = "supersedeOld" /\ h.by = None /\ h.want = "active"
    BY <1>f DEF Local
  <2>2. HoldsOK(h, DOMAIN rows)
    BY <2>1 DEF HoldsOK, Refunding
  <2>3. Begin(p, "trial", h) /\ rows' = rows
    BY <1>3 DEF StartTrial
  <2>. QED BY <1>f, <2>1, <2>2, <2>3, Starts DEF Refunding
<1>4. CASE Cancel(p) \/ CancelScheduled(p) \/ ForceActivate(p)
  <2>1. PICK i \in DOMAIN rows, pc \in {"saveCancelled", "supersedeOld"}, flow \in {"cancel", "cancelScheduled", "force"} :
          Begin(p, flow, [Rest EXCEPT !.pc = pc, !.row = i]) /\ rows' = rows
    BY <1>4 DEF Cancel, CancelScheduled, ForceActivate, Rows
  <2> DEFINE h == [Rest EXCEPT !.pc = pc, !.row = i]
  <2>2. h \in Local /\ h.pc = pc /\ h.by = None /\ h.want = "active" /\ flow \in Flows
    BY <1>0, <1>f DEF Local
  <2>3. HoldsOK(h, DOMAIN rows)
    BY <2>2 DEF HoldsOK, Refunding
  <2>. QED BY <2>1, <2>2, <2>3, Starts DEF Refunding
<1>5. CASE Promote(p) \/ Expire(p)
  <2>1. PICK S \in SUBSET DOMAIN rows, pc \in {"promoting", "downgrading"}, flow \in {"promote", "expire"} :
          Begin(p, flow, [Rest EXCEPT !.pc = pc, !.todo = S]) /\ rows' = rows
    BY <1>5 DEF Promote, Expire
  <2> DEFINE h == [Rest EXCEPT !.pc = pc, !.todo = S]
  <2>a. S \in SUBSET Nat /\ pc \in Points /\ flow \in Flows
    BY <1>a, <1>f
  <2>2. h \in Local /\ h.pc = pc /\ h.by = None /\ h.want = "active"
    BY <2>a DEF Local
  <2>3. HoldsOK(h, DOMAIN rows)
    BY <2>2 DEF HoldsOK, Refunding
  <2>. QED BY <2>1, <2>a, <2>2, <2>3, Starts DEF Refunding
<1>. QED BY <1>1, <1>2, <1>3, <1>4, <1>5 DEF Call

(* ... and with them what happens to rows outside of checkout.             *)
LEMMA SubscriptionFine ==
  ASSUME RowsOK, HandlersOK, SubscriptionNext
  PROVE  Fine
<1>1. CASE \E p \in Procs : Step(p) \/ Call(p)
  BY <1>1, SubscriptionSteps, SubscriptionCalls
<1>2. CASE \E p \in Procs \cup {Worker} : Crash(p)
  <2>1. PICK p \in Everyone : Return(p) /\ rows' = rows
    BY <1>2 DEF Crash, Everyone
  <2>2. RowsOK' /\ Kept
    BY <2>1, RowsSame
  <2>. QED BY <2>1, <2>2, Ends DEF Fine, Kept
<1>3. CASE \E i \in DOMAIN rows : PeriodEnds(i)
  <2>1. PICK i \in DOMAIN rows : PeriodEnds(i)
    BY <1>3
  <2> DEFINE f == [j \in DOMAIN rows |-> IF j = i \/ rows[j].after = i THEN [rows[j] EXCEPT !.due = TRUE] ELSE rows[j]]
  <2>5. \A j \in DOMAIN rows : rows[j] \in Row
    BY RowTyped
  <2>2. \A j \in DOMAIN rows : f[j] \in Row /\ f[j].paidBy = rows[j].paidBy
    BY <2>5 DEF Row
  <2>3. rows' = [j \in DOMAIN rows |-> f[j]]
    BY <2>1 DEF PeriodEnds
  <2>4. RowsOK' /\ Kept
    BY <2>2, <2>3, RowsMapped
  <2>. QED BY <2>1, <2>4, Idle DEF PeriodEnds, Fine, Kept
<1>. QED BY <1>1, <1>2, <1>3 DEF SubscriptionNext

-----------------------------------------------------------------------------
(* Checkout.                                                               *)

(* Payments are typed.                                                     *)
PayOK == payment \in [Payments -> Payment]

(* A status does not become open, or closed without money, anew: it stays  *)
(* or says what became of the money.                                       *)
StatusKept == \A o \in Payments : payment'[o].status = payment[o].status \/ payment'[o].status \notin {"none", "created"}

(* Only the handler p moves.                                               *)
Apart(p) == \A q \in Everyone \ {p} : handler'[q] = handler[q]

(* A step of checkout that takes no part in a sale, or ends one.           *)
Calm == Fine /\ PayOK' /\ StatusKept

(* A handler is about to create a payment; it is the only one.             *)
Enters(p) ==
  LET o == handler'[p].by IN
  /\ rows' = rows /\ payment' = payment
  /\ handler'[p].pc = "insertPayment" /\ o \in Payments /\ payment[o].status = "none"
  /\ \A q \in Procs : handler[q].by # o

(* It creates it.                                                          *)
Opens(p) ==
  LET o == handler[p].by IN
  /\ rows' = rows
  /\ handler[p].pc = "insertPayment" /\ handler'[p].pc \notin Buying \cup {"insertPayment"}
  /\ \A a \in Payments : payment'[a].status = IF a = o THEN "created" ELSE payment[a].status

(* It gets past the compare-and-set of the capture.                        *)
Takes(p) ==
  LET o == handler[p].by IN
  /\ rows' = rows
  /\ o \in Payments /\ handler'[p].by = o /\ handler'[p].pc # "insertPayment"
  /\ payment[o].status = "created"
  /\ \A a \in Payments : payment'[a].status = IF a = o THEN "captured" ELSE payment[a].status

(* One of the three.                                                       *)
Sale ==
  /\ RowsOK' /\ HandlersOK' /\ PayOK' /\ NoNewRefund
  /\ \E p \in Procs : Apart(p) /\ (Enters(p) \/ Opens(p) \/ Takes(p))

(* The newest of some rows is one of them, or 0.                           *)
LEMMA NewestIn == ASSUME NEW S PROVE Newest(S) \in S \cup {0}
BY DEF Newest

(* Payments that are not touched stay typed,                               *)
LEMMA PaymentSame == ASSUME PayOK, payment' = payment PROVE PayOK' /\ StatusKept
BY DEF PayOK, StatusKept

(* ... one that is written does,                                           *)
LEMMA PaymentSet ==
  ASSUME PayOK, NEW o, NEW d \in Payment, payment' = [payment EXCEPT ![o] = d],
         o \in Payments => d.status = payment[o].status \/ d.status \notin {"none", "created"}
  PROVE  PayOK' /\ StatusKept
BY DEF PayOK, StatusKept

(* ... and so does one that fails.                                         *)
LEMMA PaymentFails == ASSUME PayOK, NEW o, FailPayment(o) PROVE PayOK' /\ StatusKept
<1> DEFINE d == [payment[o] EXCEPT !.status = IF @ = "created" THEN "failed" ELSE @]
<1>1. payment' = [payment EXCEPT ![o] = d]
  BY DEF FailPayment
<1>2. o \in Payments => d \in Payment /\ (d.status = payment[o].status \/ d.status = "failed")
  BY DEF PayOK, Payment
<1>. QED BY <1>1, <1>2 DEF PayOK, StatusKept

(* A handler takes a new local state, in any module.                       *)
LEMMA HandlerSet ==
  ASSUME HandlersOK, NEW p \in Everyone, NEW h \in Local, handler' = [handler EXCEPT ![p] = h],
         DOMAIN rows \subseteq DOMAIN rows', HoldsOK(h, DOMAIN rows')
  PROVE  /\ HandlersOK' /\ handler'[p] = h /\ Apart(p)
         /\ h.pc \notin Refunding => NoNewRefund
         /\ h.pc \notin Buying \cup {"insertPayment"} => NoNewBuyer
<1>1. handler' \in [Everyone -> Local] /\ handler'[p] = h /\ \A q \in Everyone \ {p} : handler'[q] = handler[q]
  OBVIOUS
<1>2. \A q \in Everyone : HoldsOK(handler'[q], DOMAIN rows')
  BY <1>1 DEF HoldsOK
<1>. QED BY <1>1, <1>2 DEF NoNewBuyer, NoNewRefund, Apart

(* Every step of checkout is calm or a part of a sale,                     *)
LEMMA CheckoutSteps ==
  ASSUME RowsOK, HandlersOK, PayOK, NEW p \in Procs, CheckoutStep(p)
  PROVE  Calm \/ Sale
<1>. p \in Everyone
  BY DEF Everyone
<1>h. handler[p] \in Local /\ HoldsOK(handler[p], DOMAIN rows)
  BY HolderOK
<1>d. \A o \in Payments : payment[o] \in Payment
  BY DEF PayOK
<1>1. CASE InsertPayment(p)
  <2> DEFINE o == handler[p].by
             d == [payment[o] EXCEPT !.status = "created", !.sub = handler[p].row]
  <2>1. handler[p].pc = "insertPayment" /\ rows' = rows /\ (Goto(p, "createLink") \/ Return(p))
        /\ payment' = [payment EXCEPT ![o] = d]
    BY <1>1 DEF InsertPayment, On
  <2>2. o \in Payments /\ handler[p].row \in Nat
    BY <1>h, <2>1 DEF HoldsOK, Local
  <2>3. d \in Payment /\ d.status = "created"
    BY <1>d, <2>2 DEF Payment
  <2>4. PayOK' /\ \A a \in Payments : payment'[a].status = IF a = o THEN "created" ELSE payment[a].status
    BY <2>1, <2>3, <2>2 DEF PayOK
  <2>5. RowsOK' /\ DOMAIN rows \subseteq DOMAIN rows'
    BY <2>1, RowsSame DEF Kept
  <2>6. HandlersOK' /\ NoNewRefund /\ Apart(p) /\ handler'[p].pc \in {"createLink", "idle"}
    <3>1. CASE Return(p)
      BY <2>5, <3>1, Ends, RestFields DEF Return, Apart
    <3>2. CASE Goto(p, "createLink")
      <4>1. HandlersOK' /\ NoNewRefund
        BY <2>1, <2>5, <3>2, Proceeds DEF Points, Refunding, Buying
      <4>2. Apart(p) /\ handler'[p].pc = "createLink"
        BY <1>h, <3>2 DEF Goto, Apart, Local
      <4>. QED BY <4>1, <4>2
    <3>. QED BY <2>1, <3>1, <3>2
  <2>7. Opens(p)
    BY <2>1, <2>4, <2>6 DEF Opens, Buying
  <2>. QED BY <2>4, <2>5, <2>6, <2>7 DEF Sale
<1>2. CASE CreateLink(p) \/ SaveLink(p) \/ CloseLink(p)
  <2>1. /\ handler[p].pc \in {"createLink", "saveLink", "closeLink"} /\ rows' = rows
        /\ Goto(p, "saveLink") \/ Return(p)
    BY <1>2 DEF CreateLink, SaveLink, CloseLink, On
  <2>2. RowsOK' /\ Kept
    BY <2>1, RowsSame
  <2>3. HandlersOK' /\ NoNewBuyer /\ NoNewRefund
    BY <2>1, <2>2, Proceeds, Ends DEF Points, Refunding, Buying, Kept
  <2> DEFINE o == handler[p].by
             linked == [payment[o] EXCEPT !.link = TRUE]
  <2>5. payment' = payment \/ payment' = [payment EXCEPT ![o] = linked] \/ FailPayment(o)
    BY <1>2 DEF CreateLink, SaveLink, CloseLink
  <2>6. o \in Payments => linked \in Payment /\ linked.status = payment[o].status
    BY <1>d DEF Payment
  <2>4. PayOK' /\ StatusKept
    BY <2>5, <2>6, PaymentSame, PaymentFails DEF PayOK, StatusKept
  <2>. QED BY <2>2, <2>3, <2>4 DEF Calm, Fine
<1>3. CASE Capture(p)
  <2> DEFINE o == handler[p].by
             d == [payment[o] EXCEPT !.status = "captured"]
             pc == IF KindOf[o] = "upgrade" THEN "applying" ELSE "subscribe"
             h == [handler[p] EXCEPT !.pc = pc, !.plan = PlanOf[o]]
  <2>1. handler[p].pc = "capture" /\ rows' = rows
    BY <1>3 DEF Capture, On
  <2>2. o \in Payments
    BY <1>h, <2>1 DEF HoldsOK
  <2>3. RowsOK' /\ Kept
    BY <2>1, RowsSame
  <2>4. CASE Capturable(o)
    <3>1. payment' = [payment EXCEPT ![o] = d] /\ handler' = [handler EXCEPT ![p] = h]
      BY <1>3, <2>4 DEF Capture
    <3>2. d \in Payment /\ d.status = "captured"
      BY <1>d, <2>2 DEF Payment
    <3>3. PayOK' /\ \A a \in Payments : payment'[a].status = IF a = o THEN "captured" ELSE payment[a].status
      BY <3>1, <3>2, <2>2 DEF PayOK
    <3>4. pc \in {"applying", "subscribe"} /\ pc \in Points /\ PlanOf[o] \in Plans
      BY <2>2, PaymentAssumption DEF Points
    <3>5. h \in Local /\ h.pc = pc /\ h.by = o /\ h.want = handler[p].want
      BY <1>h, <3>4 DEF Local
    <3>6. HoldsOK(h, DOMAIN rows')
      BY <1>h, <2>1, <3>4, <3>5 DEF HoldsOK, Refunding
    <3>7. HandlersOK' /\ handler'[p] = h /\ Apart(p) /\ NoNewRefund
      BY <2>3, <3>1, <3>4, <3>5, <3>6, HandlerSet DEF Kept, Refunding
    <3>8. Takes(p)
      BY <2>1, <2>2, <2>4, <3>3, <3>4, <3>5, <3>7 DEF Takes, Capturable
    <3>. QED BY <2>3, <3>3, <3>7, <3>8 DEF Sale
  <2>5. CASE ~Capturable(o)
    <3>1. Return(p) /\ payment' = payment
      BY <1>3, <2>5 DEF Capture
    <3>. QED BY <2>3, <3>1, Ends, PaymentSame DEF Calm, Fine, Kept
  <2>. QED BY <2>4, <2>5
<1>4. CASE LinkRow(p)
  <2> DEFINE o == handler[p].by
             n == Newest({i \in DOMAIN rows : rows[i].paidBy = o})
             d == [payment[o] EXCEPT !.sub = n]
  <2>1. o \in Payments /\ rows' = rows /\ Return(p) /\ payment' = [payment EXCEPT ![o] = d]
    BY <1>4 DEF LinkRow
  <2>2. n \in Nat
    BY NewestIn, RowTyped
  <2>3. d \in Payment /\ d.status = payment[o].status
    BY <1>d, <2>1, <2>2 DEF Payment
  <2>. QED BY <2>1, <2>3, PaymentSet, RowsSame, Ends DEF Calm, Fine, Kept
<1>5. CASE ClaimUpgrade(p)
  <2> DEFINE o == handler[p].by
             d == [payment[o] EXCEPT !.sub = CurrentRow]
             h == [handler[p] EXCEPT !.pc = "upgrading", !.row = CurrentRow]
  <2>1. handler[p].pc = "applying" /\ rows' = rows
        /\ \/ payment' = [payment EXCEPT ![o] = d] /\ handler' = [handler EXCEPT ![p] = h]
           \/ payment' = payment /\ Return(p)
    BY <1>5 DEF ClaimUpgrade, On
  <2>2. CurrentRow \in Nat
    BY NewestIn, RowTyped DEF CurrentRow, Rows
  <2>3. RowsOK' /\ Kept
    BY <2>1, RowsSame
  <2>4. PayOK' /\ StatusKept
    BY <1>d, <2>1, <2>2 DEF PayOK, StatusKept, Payment
  <2>5. h \in Local /\ h.pc = "upgrading" /\ h.want = handler[p].want
    BY <1>h, <2>2 DEF Local, Points
  <2>6. HoldsOK(h, DOMAIN rows')
    BY <1>h, <2>1, <2>5 DEF HoldsOK, Refunding
  <2>7. HandlersOK' /\ NoNewBuyer /\ NoNewRefund
    BY <2>1, <2>3, <2>5, <2>6, HandlerSet, Ends DEF Kept, Refunding, Buying
  <2>. QED BY <2>3, <2>4, <2>7 DEF Calm, Fine
<1>6. CASE ApplyUpgrade(p)
  <2> DEFINE i == handler[p].row
             r == [rows[i] EXCEPT !.plan = handler[p].plan]
  <2>1. rows' = [rows EXCEPT ![i] = r] /\ Return(p) /\ payment' = payment
    BY <1>6 DEF ApplyUpgrade, payVars
  <2>2. i \in DOMAIN rows => r \in Row /\ r.paidBy = rows[i].paidBy
    BY <1>h, RowTyped DEF Row, Local
  <2>3. RowsOK' /\ Kept
    BY <2>1, <2>2, RowSet
  <2>. QED BY <2>1, <2>3, Ends, PaymentSame DEF Calm, Fine, Kept
<1>7. CASE InsertScheduled(p)
  <2> DEFINE h == handler[p]
             r == [NewRow("oid", h.plan, "scheduled", None) EXCEPT !.after = h.row, !.due = rows[h.row].due]
  <2>1. h.pc = "insertScheduled" /\ Insert(p, r) /\ payment' = payment
    BY <1>7 DEF InsertScheduled, On, payVars
  <2>2. h.row \in DOMAIN rows /\ h.by \notin Payments /\ h.plan \in Plans /\ h.row \in Nat
    BY <1>h, <2>1 DEF HoldsOK, Local
  <2>3. rows[h.row].due \in BOOLEAN
    BY <2>2, RowTyped DEF Row
  <2>4. NewRow("oid", h.plan, "scheduled", None) \in Row /\ NewRow("oid", h.plan, "scheduled", None).paidBy = None
    BY <2>2, NewRowOK DEF Statuses
  <2>5. r \in Row /\ r.paidBy = None
    BY <2>2, <2>3, <2>4 DEF Row
  <2>6. Fine
    BY <2>1, <2>2, <2>5, NoneOK, Inserts DEF Refunding
  <2>. QED BY <2>1, <2>6, PaymentSame DEF Calm
<1>. QED BY <1>1, <1>2, <1>3, <1>4, <1>5, <1>6, <1>7 DEF CheckoutStep

(* ... every call is,                                                      *)
LEMMA CheckoutCalls ==
  ASSUME RowsOK, HandlersOK, PayOK, NEW p \in Procs, CheckoutCall(p)
  PROVE  Calm \/ Sale
<1>. p \in Everyone
  BY DEF Everyone
<1>. USE RestOK, RestFields, NoneOK
<1>f. /\ {"order", "link", "upgrade", "cancelLink", "confirm", "captured", "linkPaid", "upgradeFree", "downgrade"} \subseteq Flows
      /\ {"insertPayment", "closeLink", "capture", "upgrading", "insertScheduled"} \subseteq Points
      /\ "active" \in Statuses /\ Payments \subseteq Bought
  BY PaymentAssumption DEF Flows, Points, Statuses, Live
<1>c. CurrentRow \in Nat /\ (CurrentRow # 0 => CurrentRow \in DOMAIN rows)
  BY NewestIn, RowTyped DEF CurrentRow, Rows
<1>1. ASSUME NEW o \in Payments, CreateOrder(p, o) \/ IssueLink(p, o) \/ RaiseUpgrade(p, o)
      PROVE  Sale
  <2>1. PICK row \in Nat, flow \in {"order", "link", "upgrade"} :
          /\ Begin(p, flow, [Rest EXCEPT !.pc = "insertPayment", !.by = o, !.row = row])
          /\ rows' = rows /\ payment' = payment /\ Untouched(o)
    <3>1. CASE RaiseUpgrade(p, o)
      BY <3>1, <1>c DEF RaiseUpgrade
    <3>2. CASE CreateOrder(p, o) \/ IssueLink(p, o)
      <4>1. [Rest EXCEPT !.pc = "insertPayment", !.by = o] = [Rest EXCEPT !.pc = "insertPayment", !.by = o, !.row = 0]
        BY DEF Rest
      <4>. QED BY <3>2, <4>1 DEF CreateOrder, IssueLink, payVars
    <3>. QED BY <1>1, <3>1, <3>2
  <2> DEFINE h == [Rest EXCEPT !.pc = "insertPayment", !.by = o, !.row = row, !.flow = flow]
  <2>2. handler' = [handler EXCEPT ![p] = h]
    BY <2>1 DEF Begin
  <2>3. h \in Local /\ h.pc = "insertPayment" /\ h.by = o /\ h.want = "active"
    BY <1>f DEF Local
  <2>4. HoldsOK(h, DOMAIN rows')
    BY <2>3 DEF HoldsOK, Refunding
  <2>5. RowsOK' /\ DOMAIN rows \subseteq DOMAIN rows' /\ PayOK'
    BY <2>1, RowsSame, PaymentSame DEF Kept
  <2>6. HandlersOK' /\ handler'[p] = h /\ Apart(p) /\ NoNewRefund
    BY <2>2, <2>3, <2>4, <2>5, HandlerSet DEF Refunding
  <2>7. Enters(p)
    BY <2>1, <2>3, <2>6 DEF Enters, Untouched
  <2>. QED BY <2>5, <2>6, <2>7 DEF Sale
<1>2. ASSUME NEW o \in Payments, CancelLink(p, o) \/ Confirm(p, o) \/ Captured(p, o)
      PROVE  Calm
  <2>1. rows' = rows /\ payment' = payment
    BY <1>2 DEF CancelLink, Confirm, Captured, payVars
  <2>2. CASE handler' = handler
    BY <2>1, <2>2, Idle, RowsSame, PaymentSame DEF Calm, Fine, Kept
  <2>3. CASE handler' # handler
    <3>1. PICK pc \in {"closeLink", "capture"}, flow \in {"cancelLink", "confirm", "captured", "linkPaid"} :
            Begin(p, flow, [Rest EXCEPT !.pc = pc, !.by = o])
      BY <1>2, <2>3 DEF CancelLink, Confirm, Captured, Ingest, Dispatched, Event
    <3> DEFINE h == [Rest EXCEPT !.pc = pc, !.by = o]
    <3>2. h \in Local /\ h.pc = pc /\ h.by = o /\ h.want = "active" /\ flow \in Flows
      BY <1>f DEF Local
    <3>3. HoldsOK(h, DOMAIN rows)
      BY <3>2 DEF HoldsOK, Refunding
    <3>4. Fine
      BY <2>1, <3>1, <3>2, <3>3, Starts DEF Refunding, Buying
    <3>. QED BY <2>1, <3>4, PaymentSame DEF Calm
  <2>. QED BY <2>2, <2>3
<1>3. ASSUME NEW plan \in Plans, UpgradeForFree(p, plan) \/ Downgrade(p, plan)
      PROVE  Calm
  <2>1. PICK pc \in {"upgrading", "insertScheduled"}, flow \in {"upgradeFree", "downgrade"} :
          Begin(p, flow, [Rest EXCEPT !.pc = pc, !.row = CurrentRow, !.plan = plan])
    BY <1>3 DEF UpgradeForFree, Downgrade
  <2>2. CurrentRow \in DOMAIN rows /\ rows' = rows /\ payment' = payment
    BY <1>3, <1>c DEF UpgradeForFree, Downgrade, payVars
  <2> DEFINE h == [Rest EXCEPT !.pc = pc, !.row = CurrentRow, !.plan = plan]
  <2>3. h \in Local /\ h.pc = pc /\ h.by = None /\ h.want = "active" /\ h.row = CurrentRow /\ flow \in Flows
    BY <1>f, <1>c DEF Local
  <2>4. HoldsOK(h, DOMAIN rows)
    BY <2>2, <2>3 DEF HoldsOK, Refunding
  <2>5. Fine
    BY <2>1, <2>2, <2>3, <2>4, Starts DEF Refunding
  <2>. QED BY <2>2, <2>5, PaymentSame DEF Calm
<1>. QED BY <1>1, <1>2, <1>3 DEF CheckoutCall

(* ... and so is whatever happens without a mandate.                       *)
LEMMA CheckoutFine ==
  ASSUME RowsOK, HandlersOK, PayOK, CheckoutNext
  PROVE  Calm \/ Sale
<1>1. CASE \E p \in Procs : CheckoutStep(p) \/ CheckoutCall(p)
  BY <1>1, CheckoutSteps, CheckoutCalls
<1>2. CASE \E o \in Payments : PaymentFailed(o) \/ Pay(o) \/ AttemptFails(o) \/ LinkExpires(o)
  <2>1. PICK o \in Payments : PaymentFailed(o) \/ Pay(o) \/ AttemptFails(o) \/ LinkExpires(o)
    BY <1>2
  <2>2. rows' = rows /\ handler' = handler /\ (payment' = payment \/ FailPayment(o))
    BY <2>1 DEF PaymentFailed, Pay, AttemptFails, LinkExpires, Dispatched, subVars
  <2>3. PayOK' /\ StatusKept
    BY <2>2, PaymentSame, PaymentFails
  <2>. QED BY <2>2, <2>3, Idle, RowsSame DEF Calm, Fine, Kept
<1>3. CASE SubscriptionNext /\ UNCHANGED payVars
  BY <1>3, SubscriptionFine, PaymentSame DEF Calm, payVars
<1>. QED BY <1>1, <1>2, <1>3 DEF CheckoutNext

-----------------------------------------------------------------------------
(* Mandates.                                                               *)

(* Mandates, the queue and the clock are typed.                            *)
MandOK == mandate \in [Mandate -> Gateway] /\ jobs \subseteq [row : Nat, stamp : Nat] /\ day \in Nat

(* A write by a webhook about a mandate.                                   *)
LEMMA Sets ==
  ASSUME RowsOK, HandlersOK, NEW p \in Procs, NEW rs, NEW pc \in {"replacing", "answering"}, Set(p, rs, pc),
         handler[p].pc \notin Refunding, rows' = rs => RowsOK' /\ Kept
  PROVE  Fine
<1>. p \in Everyone
  BY DEF Everyone
<1>1. CASE rows' = rs /\ Goto(p, pc)
  BY <1>1, Proceeds DEF Fine, Points, Refunding, Buying, Kept
<1>2. CASE Return(p) /\ rows' = rows
  BY <1>2, Ends, RowsSame DEF Fine, Kept
<1>. QED BY <1>1, <1>2 DEF Set

(* A renewal keeps the payer of the row.                                   *)
LEMMA RenewedOK ==
  ASSUME RowsOK, MandOK, NEW i, NEW n \in Nat, rows' = Renewed(i, n)
  PROVE  RowsOK' /\ Kept
<1> DEFINE over == n < mandate[rows[i].paidBy].cycle
           r == [rows[i] EXCEPT !.status = "active", !.grace = 0, !.until = IF n = 0 THEN @ ELSE n,
                                !.due = IF n = 0 THEN @ ELSE over]
<1>1. rows' = [rows EXCEPT ![i] = r]
  BY DEF Renewed
<1>2. over \in BOOLEAN
  OBVIOUS
<1>3. i \in DOMAIN rows => r \in Row /\ r.paidBy = rows[i].paidBy
  <2> HIDE DEF over
  <2>. QED BY <1>2, RowTyped DEF Row, Statuses, Live
<1>. QED BY <1>1, <1>3, RowSet

(* The handlers of mandates keep rows,                                     *)
LEMMA MandateSteps ==
  ASSUME RowsOK, HandlersOK, MandOK, NEW p \in Procs, MandateStep(p)
  PROVE  Fine /\ MandOK'
<1>. p \in Everyone
  BY DEF Everyone
<1>h. handler[p] \in Local /\ HoldsOK(handler[p], DOMAIN rows)
  BY HolderOK
<1>m. CASE mandate' = mandate /\ jobs' = jobs /\ day' = day
  <2>0. MandOK'
    BY <1>m DEF MandOK
  <2>1. CASE InsertPending(p)
    <3> DEFINE m == handler[p].by
               r == NewRow("oid", MandatePlan[m], "pending", m)
    <3>1. handler[p].pc = "insertPending" /\ rows' = Append(rows, r) /\ Return(p)
      BY <2>1 DEF InsertPending, On
    <3>2. m \in Mandate /\ m \in Bought /\ m \notin Payments /\ MandatePlan[m] \in Plans
      BY <1>h, <3>1, MandateAssumption DEF HoldsOK
    <3>3. r \in Row /\ r.paidBy = m
      BY <3>2, NewRowOK DEF Statuses
    <3>4. RowsOK' /\ Kept
      BY <3>1, <3>2, <3>3, RowAppended
    <3>. QED BY <2>0, <3>1, <3>4, Ends DEF Fine, Kept
  <2>2. CASE ActivateMandate(p) \/ Renew(p)
    <3>1. PICK n \in Nat, pc \in {"replacing", "answering"} :
            \/ Set(p, Renewed(handler[p].row, n), pc)
            \/ rows' = rows /\ (Return(p) \/ Goto(p, pc))
      BY <1>h, <2>2 DEF ActivateMandate, Renew, PeriodPaid, Local
    <3>2. handler[p].pc \in {"activating", "renewing"}
      BY <2>2 DEF ActivateMandate, Renew, On
    <3>3. CASE Set(p, Renewed(handler[p].row, n), pc)
      BY <2>0, <3>2, <3>3, Sets, RenewedOK DEF Refunding
    <3>4. CASE rows' = rows /\ (Return(p) \/ Goto(p, pc))
      BY <2>0, <3>2, <3>4, Proceeds, Ends, RowsSame DEF Fine, Kept, Points, Refunding, Buying
    <3>. QED BY <3>1, <3>3, <3>4
  <2>3. CASE SupersedeOthers(p)
    <3>1. RowsOK' /\ Kept
      BY <2>3, StatusSet DEF SupersedeOthers, Statuses, Closed
    <3>. QED BY <2>0, <2>3, <3>1, Ends DEF SupersedeOthers, Fine, Kept
  <2>4. CASE BookCharge(p) \/ Answer(p)
    <3>1. /\ handler[p].pc \in {"booking", "answering"} /\ rows' = rows
          /\ Return(p) \/ Goto(p, "renewing")
      BY <2>4 DEF BookCharge, Answer, On
    <3>. QED BY <2>0, <3>1, Proceeds, Ends, RowsSame DEF Fine, Kept, Points, Refunding, Buying
  <2>5. CASE EnterGrace(p)
    <3> DEFINE i == handler[p].row
               g == day + Grace
               r == [rows[i] EXCEPT !.status = "grace_period", !.grace = g]
               h == [handler[p] EXCEPT !.pc = "schedule", !.n = day + Grace]
    <3>1. handler[p].pc = "enterGrace"
          /\ \/ rows' = [rows EXCEPT ![i] = r] /\ handler' = [handler EXCEPT ![p] = h]
             \/ rows' = rows /\ Return(p)
      BY <2>5 DEF EnterGrace, On
    <3>2. g \in Nat
      BY MandateAssumption DEF MandOK
    <3>3. i \in DOMAIN rows => r \in Row /\ r.paidBy = rows[i].paidBy
      <4> HIDE DEF g
      <4>1. i \in DOMAIN rows => rows[i] \in Row
        BY RowTyped
      <4>. QED BY <3>2, <4>1 DEF Row, Statuses
    <3>4. RowsOK' /\ Kept
      BY <3>1, <3>3, RowSet, RowsSame
    <3>5. h \in Local /\ h.pc = "schedule" /\ h.want = handler[p].want
      BY <1>h, <3>2 DEF Local, Points
    <3>6. HoldsOK(h, DOMAIN rows')
      BY <1>h, <3>1, <3>5 DEF HoldsOK, Refunding
    <3>7. HandlersOK' /\ NoNewBuyer /\ NoNewRefund
      BY <3>1, <3>4, <3>5, <3>6, HandlerSet, Ends DEF Kept, Refunding, Buying
    <3>. QED BY <2>0, <3>4, <3>7 DEF Fine
  <2>6. CASE ScheduleExpiry(p)
    BY <2>0, <2>6, Ends, RowsSame DEF ScheduleExpiry, Fine, Kept
  <2>. QED BY <2>1, <2>2, <2>3, <2>4, <2>5, <2>6 DEF MandateStep
<1>j. CASE ScheduleExpiry(p)
  <2>1. [row |-> handler[p].row, stamp |-> handler[p].n] \in [row : Nat, stamp : Nat]
    BY <1>h DEF Local
  <2>2. MandOK'
    BY <1>j, <2>1 DEF ScheduleExpiry, MandOK
  <2>. QED BY <1>j, <2>2, Ends, RowsSame DEF ScheduleExpiry, Fine, Kept
<1>. QED BY <1>m, <1>j DEF MandateStep, InsertPending, ActivateMandate, SupersedeOthers, BookCharge, Renew, Answer, EnterGrace,
                           mandateVars

(* ... and so does what starts them.                                       *)
LEMMA MandateCalls ==
  ASSUME RowsOK, HandlersOK, MandOK, NEW p \in Procs, NEW m \in Mandate,
         CreateMandate(p, m) \/ Activated(p, m) \/ Charged(p, m) \/ Halted(p, m)
  PROVE  Fine /\ MandOK' /\ payment' = payment
<1>. p \in Everyone
  BY DEF Everyone
<1>. USE RestOK, RestFields, NoneOK
<1>f. /\ {"mandate", "activated", "charged", "halted"} \subseteq Flows
      /\ {"insertPending", "activating", "booking", "enterGrace"} \subseteq Points
      /\ "active" \in Statuses /\ m \in Bought /\ m \notin Payments
  BY MandateAssumption DEF Flows, Points, Statuses, Live
<1>r. RowOf(m) \in Nat /\ (RowOf(m) # 0 => rows[RowOf(m)].status \in Statuses)
  BY NewestIn, RowTyped DEF RowOf, Row
<1>s. StatusOf(m) \in Statuses \cup {"none"}
  BY <1>r DEF StatusOf
<1>1. rows' = rows /\ payment' = payment
  BY DEF CreateMandate, Activated, Charged, Halted, payVars
<1>2. MandOK'
  <2>1. CASE CreateMandate(p, m)
    <3>1. [mandate[m] EXCEPT !.status = "created"] \in Gateway
      BY DEF MandOK, Gateway
    <3>. QED BY <2>1, <3>1 DEF CreateMandate, MandOK
  <2>2. CASE Activated(p, m) \/ Charged(p, m) \/ Halted(p, m)
    BY <2>2 DEF Activated, Charged, Halted, MandOK, mandateVars
  <2>. QED BY <2>1, <2>2
<1>3. CASE handler' = handler
  BY <1>1, <1>2, <1>3, Idle, RowsSame DEF Fine, Kept
<1>4. CASE handler' # handler
  <2>1. ASSUME NEW flow \in {"mandate", "activated", "charged", "halted"}, NEW h \in Local, Begin(p, flow, h),
               h.pc \in {"insertPending", "activating", "booking", "enterGrace"}, h.by = m, h.want = "active"
        PROVE  Fine
    <3>1. HoldsOK(h, DOMAIN rows) /\ flow \in Flows
      BY <1>f, <2>1 DEF HoldsOK, Refunding
    <3>. QED BY <1>1, <1>f, <2>1, <3>1, Starts DEF Refunding
  <2>2. CASE CreateMandate(p, m)
    <3> DEFINE h == [Rest EXCEPT !.pc = "insertPending", !.by = m]
    <3>1. h \in Local /\ h.pc = "insertPending" /\ h.by = m /\ h.want = "active"
      BY <1>f DEF Local
    <3>. QED BY <1>1, <1>2, <2>1, <2>2, <3>1 DEF CreateMandate
  <2>3. CASE Activated(p, m)
    <3>1. PICK n \in 0..LastCycle :
            Begin(p, "activated", [Rest EXCEPT !.pc = "activating", !.by = m, !.row = RowOf(m), !.n = n])
      BY <1>4, <2>3 DEF Activated, Ingest, Dispatched, Event
    <3> DEFINE h == [Rest EXCEPT !.pc = "activating", !.by = m, !.row = RowOf(m), !.n = n]
    <3>3. n \in Nat
      BY MandateAssumption
    <3>2. h \in Local /\ h.pc = "activating" /\ h.by = m /\ h.want = "active"
      BY <1>f, <1>r, <3>3 DEF Local
    <3>. QED BY <1>1, <1>2, <2>1, <3>1, <3>2
  <2>4. CASE Charged(p, m)
    <3>1. PICK n \in 1..LastCycle :
            Begin(p, "charged", [Rest EXCEPT !.pc = "booking", !.by = m, !.row = RowOf(m), !.n = n, !.was = StatusOf(m)])
      BY <1>4, <2>4 DEF Charged, Ingest, Dispatched, Event
    <3> DEFINE h == [Rest EXCEPT !.pc = "booking", !.by = m, !.row = RowOf(m), !.n = n, !.was = StatusOf(m)]
    <3>3. n \in Nat
      BY MandateAssumption
    <3>2. h \in Local /\ h.pc = "booking" /\ h.by = m /\ h.want = "active"
      BY <1>f, <1>r, <1>s, <3>3 DEF Local
    <3>. QED BY <1>1, <1>2, <2>1, <3>1, <3>2
  <2>5. CASE Halted(p, m)
    <3>1. Begin(p, "halted", [Rest EXCEPT !.pc = "enterGrace", !.by = m, !.row = RowOf(m)])
      BY <1>4, <2>5 DEF Halted, Ingest, Dispatched, Event
    <3> DEFINE h == [Rest EXCEPT !.pc = "enterGrace", !.by = m, !.row = RowOf(m)]
    <3>2. h \in Local /\ h.pc = "enterGrace" /\ h.by = m /\ h.want = "active"
      BY <1>f, <1>r DEF Local
    <3>. QED BY <1>1, <1>2, <2>1, <3>1, <3>2
  <2>. QED BY <2>2, <2>3, <2>4, <2>5
<1>. QED BY <1>3, <1>4

(* What the gateway does to a mandate leaves it typed.                     *)
LEMMA GatewayCharged ==
  ASSUME NEW g \in Gateway
  PROVE  [g EXCEPT !.status = "active", !.cycle = g.cycle + 1] \in Gateway
<1>1. \A n \in Nat : [g EXCEPT !.status = "active", !.cycle = n] \in Gateway
  BY DEF Gateway
<1>2. g.cycle + 1 \in Nat
  BY DEF Gateway
<1>. QED BY <1>1, <1>2

LEMMA GatewayActive ==
  ASSUME NEW g \in Gateway, NEW n \in Nat
  PROVE  [g EXCEPT !.status = "active", !.cycle = n] \in Gateway
BY DEF Gateway

LEMMA GatewayHalted ==
  ASSUME NEW g \in Gateway
  PROVE  [g EXCEPT !.status = "halted", !.halts = g.halts + 1] \in Gateway
<1>1. \A n \in Nat : [g EXCEPT !.status = "halted", !.halts = n] \in Gateway
  BY DEF Gateway
<1>2. g.halts + 1 \in Nat
  BY DEF Gateway
<1>. QED BY <1>1, <1>2

LEMMA GatewayEnded == ASSUME NEW g \in Gateway PROVE [g EXCEPT !.status = "ended"] \in Gateway
BY DEF Gateway

(* With mandates, the queue and its worker, a step is calm or a part of a  *)
(* sale.                                                                   *)
LEMMA MandateFine ==
  ASSUME RowsOK, HandlersOK, PayOK, MandOK, MandateNext
  PROVE  (Calm \/ Sale) /\ MandOK'
<1>1. CASE \E p \in Procs : MandateStep(p)
  <2>1. payment' = payment
    BY <1>1 DEF MandateStep, InsertPending, ActivateMandate, SupersedeOthers, BookCharge, Renew, Answer, EnterGrace,
                ScheduleExpiry, payVars
  <2>. QED BY <1>1, <2>1, MandateSteps, PaymentSame DEF Calm
<1>2. CASE \E p \in Procs : MandateCall(p)
  BY <1>2, MandateCalls, PaymentSame DEF Calm, MandateCall
<1>3. CASE \E m \in Mandate : CancelMandate(m) \/ PauseMandate(m) \/ ResumeMandate(m)
  <2>1. PICK m \in Mandate, to \in {"ended", "paused", "active"} :
          /\ mandate' = [mandate EXCEPT ![m].status = to]
          /\ UNCHANGED <<subVars, payment, jobs, day>>
    BY <1>3 DEF CancelMandate, PauseMandate, ResumeMandate, Ask
  <2>2. [mandate[m] EXCEPT !.status = to] \in Gateway
    BY DEF MandOK, Gateway
  <2>3. MandOK'
    BY <2>1, <2>2 DEF MandOK
  <2>. QED BY <2>1, <2>3, Idle, RowsSame, PaymentSame DEF Calm, Fine, Kept, subVars
<1>4. CASE \E m \in Mandate : Marked(m)
  <2>1. PICK m \in Mandate, status \in {"cancelled", "paused", "active", "expired"} :
          /\ rows' = SetStatus({RowOf(m)} \ {0}, status) \/ rows' = rows
          /\ handler' = handler /\ payment' = payment /\ UNCHANGED mandateVars
    BY <1>4 DEF Marked, Mark, Dispatched
  <2>2. RowsOK' /\ Kept
    <3>1. status \in Statuses
      BY DEF Statuses, Live, Closed
    <3>. QED BY <2>1, <3>1, StatusSet, RowsSame
  <2>3. MandOK'
    BY <2>1 DEF MandOK, mandateVars
  <2>. QED BY <2>1, <2>2, <2>3, Idle, PaymentSame DEF Calm, Fine, Kept
<1>5. CASE \E m \in Mandate : Authorise(m) \/ Charge(m) \/ GiveUp(m) \/ Complete(m)
  <2>1. PICK m \in Mandate : Authorise(m) \/ Charge(m) \/ GiveUp(m) \/ Complete(m)
    BY <1>5
  <2>2. mandate[m] \in Gateway
    BY DEF MandOK
  <2>3. \E g \in Gateway : mandate' = [mandate EXCEPT ![m] = g] /\ UNCHANGED <<subVars, payment, jobs, day>>
    <3>1. CASE Authorise(m)
      <4>1. PICK n \in {0, 1} : mandate' = [mandate EXCEPT ![m] = [mandate[m] EXCEPT !.status = "active", !.cycle = n]]
                                /\ UNCHANGED <<subVars, payment, jobs, day>>
        BY <3>1 DEF Authorise, Gives
      <4>2. n \in Nat
        OBVIOUS
      <4>3. [mandate[m] EXCEPT !.status = "active", !.cycle = n] \in Gateway
        BY <2>2, <4>2, GatewayActive
      <4>. QED BY <4>1, <4>3
    <3>2. CASE Charge(m)
      <4>1. [mandate[m] EXCEPT !.status = "active", !.cycle = mandate[m].cycle + 1] \in Gateway
        BY <2>2, GatewayCharged
      <4>. QED BY <3>2, <4>1 DEF Charge, Gives
    <3>3. CASE GiveUp(m)
      <4>1. [mandate[m] EXCEPT !.status = "halted", !.halts = mandate[m].halts + 1] \in Gateway
        BY <2>2, GatewayHalted
      <4>. QED BY <3>3, <4>1 DEF GiveUp, Gives
    <3>4. CASE Complete(m)
      <4>1. [mandate[m] EXCEPT !.status = "ended"] \in Gateway
        BY <2>2, GatewayEnded
      <4>. QED BY <3>4, <4>1 DEF Complete, Gives
    <3>. QED BY <2>1, <3>1, <3>2, <3>3, <3>4
  <2>4. MandOK'
    BY <2>3 DEF MandOK
  <2>. QED BY <2>3, <2>4, Idle, RowsSame, PaymentSame DEF Calm, Fine, Kept, subVars
<1>6. CASE \E job \in jobs : Dispatch(job)
  <2>1. PICK job \in jobs : Dispatch(job)
    BY <1>6
  <2> DEFINE h == [Rest EXCEPT !.flow = "expiry", !.pc = "expiring", !.row = job.row, !.n = job.stamp]
  <2>2. /\ rows' = rows /\ payment' = payment /\ mandate' = mandate /\ day' = day
        /\ jobs' \subseteq jobs
        /\ handler' = handler \/ handler' = [handler EXCEPT ![Worker] = h]
    BY <2>1 DEF Dispatch, payVars
  <2>3. job.row \in Nat /\ job.stamp \in Nat
    BY <2>1 DEF MandOK
  <2>4. h \in Local /\ h.pc = "expiring" /\ h.by = None /\ h.want = "active"
    BY <2>3, RestOK, RestFields DEF Local, Flows, Points
  <2>5. HoldsOK(h, DOMAIN rows')
    BY <2>4 DEF HoldsOK, Refunding
  <2>6. RowsOK' /\ Kept
    BY <2>2, RowsSame
  <2>9. Worker \in Everyone /\ DOMAIN rows \subseteq DOMAIN rows'
    BY <2>6 DEF Everyone, Kept
  <2>7. HandlersOK' /\ NoNewBuyer /\ NoNewRefund
    <3>1. CASE handler' = handler
      BY <2>9, <3>1, Idle
    <3>2. CASE handler' = [handler EXCEPT ![Worker] = h]
      <4> HIDE DEF h
      <4>. QED BY <2>4, <2>5, <2>9, <3>2, HandlerSet DEF Refunding, Buying
    <3>. QED BY <2>2, <3>1, <3>2
  <2>8. MandOK'
    BY <2>2 DEF MandOK
  <2>. QED BY <2>2, <2>6, <2>7, <2>8, PaymentSame DEF Calm, Fine
<1>7. CASE ExpireGrace
  <2>1. /\ rows' = SetStatus({handler[Worker].row}, "expired") \/ rows' = rows
        /\ Return(Worker) /\ payment' = payment /\ mandate' = mandate /\ day' = day /\ jobs' \subseteq jobs
    BY <1>7 DEF ExpireGrace, payVars
  <2>2. RowsOK' /\ Kept
    BY <2>1, StatusSet, RowsSame DEF Statuses, Closed
  <2>3. MandOK'
    BY <2>1 DEF MandOK
  <2>4. Worker \in Everyone
    BY DEF Everyone
  <2>. QED BY <2>1, <2>2, <2>3, <2>4, Ends, PaymentSame DEF Calm, Fine, Kept
<1>8. CASE Tomorrow
  <2>1. MandOK'
    BY <1>8 DEF Tomorrow, MandOK
  <2>. QED BY <1>8, <2>1, Idle, RowsSame, PaymentSame DEF Tomorrow, Calm, Fine, Kept, subVars, payVars
<1>9. CASE CheckoutNext /\ UNCHANGED mandateVars
  BY <1>9, CheckoutFine DEF MandOK, mandateVars
<1>. QED BY <1>1, <1>2, <1>3, <1>4, <1>5, <1>6, <1>7, <1>8, <1>9 DEF MandateNext

-----------------------------------------------------------------------------
(* Refunds.                                                                *)

(* Requests and their refunds are typed.                                   *)
RefOK == request \in [Requests -> Request] /\ refunded \in [Requests -> Nat] /\ recorded \in [Requests -> Nat]

(* What a step of a refund does to the rest: no row or payment is sold.    *)
Steady == RowsOK' /\ Kept /\ HandlersOK' /\ NoNewBuyer /\ PayOK' /\ StatusKept /\ RefOK'

(* Past the compare-and-set of executeRefund.                              *)
Executing == {"readPayment", "createRefund", "stamp", "record", "autoDowngrade", "settle"}

(* Statuses of a request that nobody has executed.                         *)
Unclaimed == {"none", "pending_admin", "approved", "rejected"}

(* A handler p at a request r: alone when it is about to create the        *)
(* request; alone past the compare-and-set; and nothing is paid back       *)
(* before the gateway is asked.                                            *)
Returning(p, r) ==
  /\ handler[p].pc = "insertRequest" =>
       /\ request[r].status = "none"
       /\ \A q \in Everyone \ {p} : handler[q].pc \in Refunding => handler[q].by # r
  /\ handler[p].pc \in {"readPayment", "createRefund"} =>
       request[r].status = "processing" /\ refunded[r] = 0 /\ ~request[r].stamped
  /\ handler[p].pc \in Executing =>
       /\ request[r].status \notin Unclaimed
       /\ \A q \in Everyone \ {p} : handler[q].pc \in Executing => handler[q].by # r

(* The part of the invariant about refunds.                                *)
RefundInv ==
  /\ handler[Worker].pc \notin Refunding
  /\ \A p \in Everyone : Returning(p, handler[p].by)
  /\ \A r \in Requests :
       /\ refunded[r] \in {0, 1}
       /\ request[r].status \in Unclaimed => refunded[r] = 0 /\ ~request[r].stamped

(* Steps that leave requests alone keep it.                                *)
LEMMA RefundKept ==
  ASSUME RefundInv, HandlersOK, NoNewRefund, request' = request, refunded' = refunded
  PROVE  RefundInv'
<1>1. \A q \in Everyone : handler'[q].pc \in Refunding => handler'[q] = handler[q]
  BY DEF NoNewRefund
<1>2. Executing \cup {"insertRequest"} \subseteq Refunding /\ Worker \in Everyone
  BY DEF Executing, Refunding, Everyone
<1>3. handler'[Worker].pc \notin Refunding
  BY <1>1, <1>2 DEF RefundInv
<1>4. ASSUME NEW p \in Everyone PROVE Returning(p, handler[p].by)'
  <2>1. CASE handler'[p].pc \notin Refunding
    BY <1>2, <2>1 DEF Returning, Executing
  <2>2. CASE handler'[p].pc \in Refunding
    <3>1. handler'[p] = handler[p] /\ Returning(p, handler[p].by)
      BY <1>1, <2>2 DEF RefundInv
    <3>2. \A q \in Everyone : handler'[q].pc \in Executing => handler'[q] = handler[q]
      BY <1>1, <1>2
    <3>. QED BY <1>1, <3>1, <3>2 DEF Returning
  <2>. QED BY <2>1, <2>2
<1>. QED BY <1>3, <1>4 DEF RefundInv

(* A handler goes on with a refund, or ends.                               *)
LEMMA RefundGoes ==
  ASSUME HandlersOK, NEW p \in Everyone,
         NEW pc \in {"execute", "readPayment", "stamp", "record", "autoDowngrade", "settle", "sync"}, Goto(p, pc),
         DOMAIN rows \subseteq DOMAIN rows',
         handler[p].pc \in Refunding \cup {"push"}, pc = "sync" => handler[p].pc = "push"
  PROVE  HandlersOK' /\ NoNewBuyer /\ Apart(p) /\ handler'[p].pc = pc /\ handler'[p].by = handler[p].by
<1> DEFINE h == [handler[p] EXCEPT !.pc = pc]
<1>0. handler[p] \in Local /\ HoldsOK(handler[p], DOMAIN rows)
  BY HolderOK
<1>1. h \in Local /\ h.pc = pc /\ h.by = handler[p].by /\ h.want = handler[p].want
  BY <1>0 DEF Local, Points
<1>2. HoldsOK(h, DOMAIN rows')
  BY <1>0, <1>1 DEF HoldsOK, Refunding
<1>3. handler' = [handler EXCEPT ![p] = h]
  BY DEF Goto
<1>. QED BY <1>1, <1>2, <1>3, HandlerSet DEF Buying

LEMMA RefundEnds ==
  ASSUME HandlersOK, NEW p \in Everyone, Return(p), DOMAIN rows \subseteq DOMAIN rows'
  PROVE  HandlersOK' /\ NoNewBuyer /\ NoNewRefund /\ Apart(p) /\ handler'[p].pc = "idle"
BY Ends, RestFields DEF Return, Apart

(* A request that is written is typed, and the others are left alone.      *)
LEMMA RequestSet ==
  ASSUME RefOK, NEW r \in Requests, NEW d \in Request, request' = [request EXCEPT ![r] = d],
         refunded' = refunded, recorded' = recorded
  PROVE  RefOK' /\ request'[r] = d /\ \A a \in Requests \ {r} : request'[a] = request[a]
BY DEF RefOK

(* An entry of payment.refunds closes no payment and opens none.           *)
LEMMA Recorded ==
  ASSUME HandlersOK, PayOK, RefOK, NEW p \in Procs, NEW pc, Record(p, pc), handler[p].by \in Requests,
         request' = request, refunded' = refunded
  PROVE  PayOK' /\ StatusKept /\ RefOK' /\ Goto(p, pc)
<1> DEFINE h == handler[p]
           o == PayOf[h.by]
           amount == request[h.by].amount
           status == IF h.n + amount >= Total THEN "refunded" ELSE "partially_refunded"
           set == IF status = h.was THEN payment[o].status ELSE status
           back == payment[o].back + amount
           d == [payment[o] EXCEPT !.status = set, !.back = back]
<1>1. payment' = [payment EXCEPT ![o] = d] /\ recorded' = [recorded EXCEPT ![h.by] = @ + 1] /\ Goto(p, pc)
  BY DEF Record
<1>2. amount \in Nat /\ o \in Payments
  BY RefundAssumption DEF RefOK, Request
<1>3. status \in {"refunded", "partially_refunded"}
  OBVIOUS
<1>4. d \in Payment /\ (d.status = payment[o].status \/ d.status \notin {"none", "created"})
  <2>1. payment[o] \in Payment
    BY <1>2 DEF PayOK
  <2>2. back \in Nat
    BY <1>2, <2>1 DEF Payment
  <2>3. set = payment[o].status \/ set \in {"refunded", "partially_refunded"}
    BY <1>3
  <2> HIDE DEF status, amount, o, h, set, back
  <2>. QED BY <2>1, <2>2, <2>3 DEF Payment
<1>5. PayOK' /\ StatusKept
  BY <1>1, <1>4, PaymentSet
<1>6. RefOK'
  BY <1>1 DEF RefOK
<1>. QED BY <1>1, <1>5, <1>6

(* A step of one handler on one request keeps the invariant if the request *)
(* it leaves behind suits that handler and all others at it.               *)
LEMMA RefundMoved ==
  ASSUME RefundInv, HandlersOK, NEW p \in Everyone, NEW r \in Requests, Apart(p),
         \A a \in Requests \ {r} : request'[a] = request[a] /\ refunded'[a] = refunded[a],
         refunded'[r] \in {0, 1},
         request'[r].status \in Unclaimed => refunded'[r] = 0 /\ ~request'[r].stamped,
         handler'[p].pc \in Refunding => handler'[p].by = r /\ p # Worker,
         handler'[p].pc = "insertRequest" => request'[r].status = "none",
         handler'[p].pc \in {"readPayment", "createRefund"} =>
           request'[r].status = "processing" /\ refunded'[r] = 0 /\ ~request'[r].stamped,
         handler'[p].pc \in Executing => request'[r].status \notin Unclaimed,
         \A q \in Everyone \ {p} : handler[q].by = r =>
           /\ handler[q].pc # "insertRequest"
           /\ handler[q].pc \in {"readPayment", "createRefund"} =>
                request'[r].status = "processing" /\ refunded'[r] = 0 /\ ~request'[r].stamped
           /\ handler[q].pc \in Executing => request'[r].status \notin Unclaimed /\ handler'[p].pc \notin Executing
           /\ handler[q].pc \in Refunding => handler'[p].pc # "insertRequest"
  PROVE  RefundInv'
<1>1. \A q \in Everyone \ {p} : handler'[q] = handler[q]
  BY DEF Apart
<1>2. Executing \cup {"insertRequest"} \subseteq Refunding /\ {"readPayment", "createRefund"} \subseteq Executing
  BY DEF Executing, Refunding
<1>3. \A q \in Everyone : handler[q].pc \in Refunding => handler[q].by \in Requests
  BY DEF HoldsOK
<1>4. \A q \in Everyone : Returning(q, handler[q].by)
  BY DEF RefundInv
<1>5. Worker \in Everyone /\ handler'[Worker].pc \notin Refunding
  BY <1>1 DEF RefundInv, Everyone
<1>6. Returning(p, handler[p].by)'
  BY <1>1, <1>2 DEF Returning
<1>7. ASSUME NEW q \in Everyone \ {p} PROVE Returning(q, handler[q].by)'
  <2>1. handler'[q] = handler[q]
    BY <1>1
  <2>2. CASE handler[q].by = r
    BY <1>1, <1>2, <1>4, <2>1, <2>2 DEF Returning
  <2>3. CASE handler[q].by # r
    <3>1. CASE handler[q].pc \notin Executing \cup {"insertRequest"}
      BY <1>2, <2>1, <3>1 DEF Returning
    <3>2. CASE handler[q].pc \in Executing \cup {"insertRequest"}
      <4>1. handler[q].by \in Requests \ {r}
        BY <1>2, <1>3, <2>3, <3>2
      <4>2. request'[handler[q].by] = request[handler[q].by] /\ refunded'[handler[q].by] = refunded[handler[q].by]
        BY <4>1
      <4>3. handler'[p].pc \in Refunding => handler'[p].by # handler[q].by
        BY <4>1
      <4>. QED BY <1>1, <1>2, <1>4, <2>1, <4>2, <4>3 DEF Returning
    <3>. QED BY <3>1, <3>2
  <2>. QED BY <2>2, <2>3
<1>8. \A a \in Requests :
        /\ refunded'[a] \in {0, 1}
        /\ request'[a].status \in Unclaimed => refunded'[a] = 0 /\ ~request'[a].stamped
  BY DEF RefundInv
<1>. QED BY <1>5, <1>6, <1>7, <1>8 DEF RefundInv

(* Past the compare-and-set a handler shares its request with nobody who   *)
(* creates or executes it.                                                 *)
LEMMA Alone ==
  ASSUME RefundInv, NEW p \in Everyone, handler[p].pc \in Executing, NEW q \in Everyone \ {p},
         handler[q].by = handler[p].by
  PROVE  handler[q].pc \notin Executing /\ handler[q].pc # "insertRequest"
BY DEF RefundInv, Returning, Executing, Refunding

(* Every step on a refund keeps the invariant,                             *)
LEMMA RefundSteps ==
  ASSUME RowsOK, HandlersOK, PayOK, RefOK, RefundInv, NEW p \in Procs, RefundStep(p)
  PROVE  Steady /\ RefundInv'
<1>. p \in Everyone /\ p # Worker
  BY SubscriptionAssumption DEF Everyone
<1> DEFINE r == handler[p].by
<1>h. handler[p] \in Local /\ HoldsOK(handler[p], DOMAIN rows)
  BY HolderOK
<1>i. \A q \in Everyone : Returning(q, handler[q].by)
  BY DEF RefundInv
<1>1. CASE InsertRequest(p)
  <2>1. handler[p].pc = "insertRequest" /\ rows' = rows /\ payment' = payment /\ refunded' = refunded /\ recorded' = recorded
    BY <1>1 DEF InsertRequest, On, payVars
  <2>2. r \in Requests /\ handler[p].want \in {"approved", "pending_admin"}
    BY <1>h, <2>1 DEF HoldsOK, Refunding
  <2>3. RowsOK' /\ Kept /\ PayOK' /\ StatusKept
    BY <2>1, RowsSame, PaymentSame
  <2>4. CASE Return(p) /\ request' = request
    BY <2>1, <2>3, <2>4, RefundEnds, RefundKept DEF Steady, RefOK, Kept
  <2>5. CASE ~(Return(p) /\ request' = request)
    <3> DEFINE d == [status |-> handler[p].want, amount |-> handler[p].n, stamped |-> FALSE]
    <3>1. request' = [request EXCEPT ![r] = d] /\ (Goto(p, "execute") \/ Return(p))
      BY <1>1, <2>5 DEF InsertRequest
    <3>2. d \in Request
      BY <1>h, <2>2 DEF Local, Request
    <3>3. RefOK' /\ request'[r] = d /\ \A a \in Requests \ {r} : request'[a] = request[a]
      BY <2>1, <2>2, <3>1, <3>2, RequestSet
    <3>4. HandlersOK' /\ NoNewBuyer /\ Apart(p) /\ handler'[p].pc \in {"execute", "idle"}
      BY <2>1, <2>3, <3>1, RefundGoes, RefundEnds DEF Kept, Refunding
    <3>7. handler'[p].pc \in Refunding => handler'[p].by = r
      <4>1. handler'[p].pc = "execute" => handler'[p].by = r
        BY <2>1, <2>3, <3>1, RefundGoes, RefundEnds DEF Kept, Refunding
      <4>. QED BY <3>4, <4>1 DEF Refunding
    <3>5. request[r].status = "none" /\ \A q \in Everyone \ {p} : handler[q].pc \in Refunding => handler[q].by # r
      BY <1>i, <2>1 DEF Returning
    <3>6. RefundInv'
      <4>1. refunded[r] = 0 /\ \A a \in Requests : refunded[a] \in {0, 1}
        BY <2>2, <3>5 DEF RefundInv, Unclaimed
      <4>2. Executing \cup {"insertRequest"} \subseteq Refunding
        BY DEF Executing, Refunding
      <4>. QED BY <2>1, <2>2, <3>2, <3>3, <3>4, <3>5, <3>7, <4>1, <4>2, RefundMoved DEF Executing
    <3>. QED BY <2>3, <3>3, <3>4, <3>6 DEF Steady
  <2>. QED BY <2>4, <2>5
<1>2. CASE Execute(p)
  <2>1. handler[p].pc = "execute" /\ rows' = rows /\ payment' = payment /\ refunded' = refunded /\ recorded' = recorded
    BY <1>2 DEF Execute, On, payVars
  <2>2. r \in Requests
    BY <1>h, <2>1 DEF HoldsOK, Refunding
  <2>3. RowsOK' /\ Kept /\ PayOK' /\ StatusKept
    BY <2>1, RowsSame, PaymentSame
  <2>4. CASE request[r].status # "approved"
    BY <1>2, <2>1, <2>3, <2>4, RefundEnds, RefundKept DEF Execute, Steady, RefOK, Kept
  <2>5. CASE request[r].status = "approved"
    <3> DEFINE d == [request[r] EXCEPT !.status = "processing"]
    <3>1. request' = [request EXCEPT ![r] = d] /\ Goto(p, "readPayment")
      BY <1>2, <2>5 DEF Execute
    <3>2. d \in Request /\ d.status = "processing" /\ d.stamped = request[r].stamped
      BY <2>2 DEF RefOK, Request
    <3>3. RefOK' /\ request'[r] = d /\ \A a \in Requests \ {r} : request'[a] = request[a]
      BY <2>1, <2>2, <3>1, <3>2, RequestSet
    <3>4. HandlersOK' /\ NoNewBuyer /\ Apart(p) /\ handler'[p].pc = "readPayment" /\ handler'[p].by = r
      BY <2>1, <2>3, <3>1, RefundGoes DEF Kept, Refunding
    <3>5. refunded[r] = 0 /\ ~request[r].stamped
      BY <2>2, <2>5 DEF RefundInv, Unclaimed
    <3>6. RefundInv'
      <4>1. \A q \in Everyone \ {p} : handler[q].by = r => handler[q].pc # "insertRequest" /\ handler[q].pc \notin Executing
        BY <1>i, <2>5 DEF Returning, Unclaimed
      <4>2. {"readPayment", "createRefund"} \subseteq Executing
        BY DEF Executing
      <4>3. \A a \in Requests : refunded[a] \in {0, 1}
        BY DEF RefundInv
      <4>4. request'[r].status = "processing" /\ ~request'[r].stamped /\ refunded'[r] = 0
            /\ \A a \in Requests \ {r} : request'[a] = request[a] /\ refunded'[a] = refunded[a]
        BY <2>1, <3>2, <3>3, <3>5
      <4>5. handler'[p].pc # "insertRequest" /\ request'[r].status \notin Unclaimed
        BY <3>4, <4>4 DEF Unclaimed
      <4> HIDE DEF d
      <4>. QED BY <2>2, <3>4, <4>1, <4>2, <4>4, <4>5, RefundMoved
    <3>. QED BY <2>3, <3>3, <3>4, <3>6 DEF Steady
  <2>. QED BY <2>4, <2>5
<1>3. CASE ReadPayment(p)
  <2> DEFINE o == PayOf[r]
             h == [handler[p] EXCEPT !.pc = "createRefund", !.row = payment[o].sub, !.was = payment[o].status, !.n = payment[o].back]
  <2>1. handler[p].pc = "readPayment" /\ handler' = [handler EXCEPT ![p] = h] /\ UNCHANGED <<rows, payment, request, refunded, recorded>>
    BY <1>3 DEF ReadPayment, Read, On, payVars, refundVars
  <2>2. r \in Requests /\ payment[o] \in Payment
    BY <1>h, <2>1, RefundAssumption DEF HoldsOK, Refunding, PayOK
  <2>3. RowsOK' /\ Kept /\ PayOK' /\ StatusKept /\ RefOK'
    BY <2>1, RowsSame, PaymentSame DEF RefOK
  <2>4. h \in Local /\ h.pc = "createRefund" /\ h.by = r
    BY <1>h, <2>2 DEF Local, Points, Payment
  <2>5. HoldsOK(h, DOMAIN rows')
    BY <1>h, <2>2, <2>4 DEF HoldsOK, Refunding
  <2>6. HandlersOK' /\ NoNewBuyer /\ Apart(p) /\ handler'[p] = h
    BY <2>1, <2>3, <2>4, <2>5, HandlerSet DEF Kept, Buying
  <2>7. RefundInv'
    <3>1. \A q \in Everyone \ {p} : handler[q].by = r => handler[q].pc # "insertRequest" /\ handler[q].pc \notin Executing
      BY <2>1, Alone DEF Executing
    <3>2. {"readPayment", "createRefund"} \subseteq Executing
      BY DEF Executing
    <3>3. request[r].status = "processing" /\ refunded[r] = 0 /\ ~request[r].stamped
      BY <1>i, <2>1 DEF Returning
    <3>. QED BY <2>1, <2>2, <2>4, <2>6, <3>1, <3>2, <3>3, RefundMoved DEF Unclaimed
  <2>. QED BY <2>3, <2>6, <2>7 DEF Steady
<1>4. CASE CreateRefund(p)
  <2> DEFINE d == [request[r] EXCEPT !.status = IF @ = "processing" THEN "failed" ELSE @]
  <2>1. /\ handler[p].pc = "createRefund" /\ rows' = rows /\ payment' = payment /\ recorded' = recorded
        /\ \/ refunded' = refunded /\ Return(p) /\ request' = [request EXCEPT ![r] = d]
           \/ /\ refunded' = [refunded EXCEPT ![r] = @ + 1]
              /\ \/ Return(p) /\ request' = [request EXCEPT ![r] = d]
                 \/ Goto(p, "stamp") /\ request' = request
    BY <1>4 DEF CreateRefund, MarkFailed, On
  <2>2. r \in Requests
    BY <1>h, <2>1 DEF HoldsOK, Refunding
  <2>3. RowsOK' /\ Kept /\ PayOK' /\ StatusKept
    BY <2>1, RowsSame, PaymentSame
  <2>4. request[r].status = "processing" /\ refunded[r] = 0
    BY <1>i, <2>1 DEF Returning
  <2>5. request[r] \in Request /\ d \in Request /\ d.status = "failed"
    BY <2>2, <2>4 DEF RefOK, Request
  <2>6. /\ refunded' \in [Requests -> Nat] /\ refunded'[r] \in {0, 1}
        /\ \A a \in Requests \ {r} : refunded'[a] = refunded[a]
    BY <2>1, <2>2, <2>4 DEF RefOK
  <2>7. /\ request' \in [Requests -> Request] /\ request'[r].status \in {"processing", "failed"}
        /\ \A a \in Requests \ {r} : request'[a] = request[a]
    <3> HIDE DEF d
    <3>. QED BY <2>1, <2>2, <2>4, <2>5 DEF RefOK
  <2>8. RefOK'
    BY <2>1, <2>6, <2>7 DEF RefOK
  <2>9. HandlersOK' /\ NoNewBuyer /\ Apart(p) /\ handler'[p].pc \in {"stamp", "idle"}
        /\ (handler'[p].pc = "stamp" => handler'[p].by = r)
    BY <2>1, <2>3, RefundGoes, RefundEnds DEF Kept, Refunding
  <2>10. RefundInv'
    <3>1. \A q \in Everyone \ {p} : handler[q].by = r => handler[q].pc # "insertRequest" /\ handler[q].pc \notin Executing
      BY <2>1, Alone DEF Executing
    <3>2. {"readPayment", "createRefund"} \subseteq Executing
      BY DEF Executing
    <3>3. request'[r].status \notin Unclaimed
      BY <2>7 DEF Unclaimed
    <3>4. handler'[p].pc \in Refunding => handler'[p].by = r
      BY <2>9 DEF Refunding
    <3> HIDE DEF d
    <3>. QED BY <2>2, <2>6, <2>7, <2>9, <3>1, <3>2, <3>3, <3>4, RefundMoved
  <2>. QED BY <2>3, <2>8, <2>9, <2>10 DEF Steady
<1>5. CASE StampRequest(p) \/ Settle(p)
  <2>1. PICK d \in {[request[r] EXCEPT !.stamped = TRUE], [request[r] EXCEPT !.status = "processed"], request[r]} :
          /\ handler[p].pc \in {"stamp", "settle"} /\ (Goto(p, "record") \/ Return(p))
          /\ request' = [request EXCEPT ![r] = d] \/ (request' = request /\ d = request[r])
          /\ UNCHANGED <<rows, payment, refunded, recorded>>
    BY <1>5 DEF StampRequest, Settle, On, payVars
  <2>2. r \in Requests
    BY <1>h, <2>1 DEF HoldsOK, Refunding
  <2>3. RowsOK' /\ Kept /\ PayOK' /\ StatusKept
    BY <2>1, RowsSame, PaymentSame
  <2>4. request[r].status \notin Unclaimed
    BY <1>i, <2>1 DEF Returning, Executing
  <2>5. request[r] \in Request /\ d \in Request /\ d.status \notin Unclaimed
    <3>1. request[r] \in Request
      BY <2>2 DEF RefOK
    <3>. QED BY <2>4, <3>1 DEF Request, Unclaimed
  <2>6. RefOK' /\ request'[r] = d /\ \A a \in Requests \ {r} : request'[a] = request[a]
    BY <2>1, <2>2, <2>5 DEF RefOK
  <2>7. HandlersOK' /\ NoNewBuyer /\ Apart(p) /\ handler'[p].pc \in {"record", "idle"}
        /\ (handler'[p].pc = "record" => handler'[p].by = r)
    BY <2>1, <2>3, RefundGoes, RefundEnds DEF Kept, Refunding
  <2>8. RefundInv'
    <3>1. \A q \in Everyone \ {p} : handler[q].by = r => handler[q].pc # "insertRequest" /\ handler[q].pc \notin Executing
      BY <2>1, Alone DEF Executing
    <3>2. {"readPayment", "createRefund"} \subseteq Executing
      BY DEF Executing
    <3>3. handler'[p].pc \in Refunding => handler'[p].by = r
      BY <2>7 DEF Refunding
    <3>4. \A a \in Requests : refunded'[a] = refunded[a] /\ refunded[a] \in {0, 1}
      BY <2>1 DEF RefundInv
    <3>. QED BY <2>2, <2>5, <2>6, <2>7, <3>1, <3>2, <3>3, <3>4, RefundMoved
  <2>. QED BY <2>3, <2>6, <2>7, <2>8 DEF Steady
<1>6. CASE RecordRefund(p)
  <2>1. handler[p].pc = "record" /\ Record(p, "autoDowngrade") /\ UNCHANGED <<rows, request, refunded>>
    BY <1>6 DEF RecordRefund, On
  <2>2. r \in Requests
    BY <1>h, <2>1 DEF HoldsOK, Refunding
  <2>3. PayOK' /\ StatusKept /\ RefOK' /\ Goto(p, "autoDowngrade")
    BY <2>1, <2>2, Recorded
  <2>4. RowsOK' /\ Kept
    BY <2>1, RowsSame
  <2>5. HandlersOK' /\ NoNewBuyer /\ Apart(p) /\ handler'[p].pc = "autoDowngrade" /\ handler'[p].by = r
    BY <2>1, <2>3, <2>4, RefundGoes DEF Kept, Refunding
  <2>6. RefundInv'
    <3>1. \A q \in Everyone \ {p} : handler[q].by = r => handler[q].pc # "insertRequest" /\ handler[q].pc \notin Executing
      BY <2>1, Alone DEF Executing
    <3>2. {"readPayment", "createRefund"} \subseteq Executing
      BY DEF Executing
    <3>3. request[r].status \notin Unclaimed
      BY <1>i, <2>1 DEF Returning, Executing
    <3>4. \A a \in Requests : refunded'[a] = refunded[a] /\ refunded[a] \in {0, 1}
      BY <2>1 DEF RefundInv
    <3>. QED BY <2>1, <2>2, <2>5, <3>1, <3>2, <3>3, <3>4, RefundMoved
  <2>. QED BY <2>3, <2>4, <2>5, <2>6 DEF Steady
<1>7. CASE AutoDowngrade(p)
  <2>1. handler[p].pc = "autoDowngrade" /\ Goto(p, "settle") /\ UNCHANGED <<payment, request, refunded, recorded>>
        /\ (rows' = rows \/ rows' = SetStatus({handler[p].row}, "cancelled"))
    BY <1>7 DEF AutoDowngrade, On, payVars, refundVars
  <2>2. r \in Requests
    BY <1>h, <2>1 DEF HoldsOK, Refunding
  <2>3. RowsOK' /\ Kept
    BY <2>1, RowsSame, StatusSet DEF Statuses, Closed
  <2>4. PayOK' /\ StatusKept /\ RefOK'
    BY <2>1, PaymentSame DEF RefOK
  <2>5. HandlersOK' /\ NoNewBuyer /\ Apart(p) /\ handler'[p].pc = "settle" /\ handler'[p].by = r
    BY <2>1, <2>3, RefundGoes DEF Kept, Refunding
  <2>6. RefundInv'
    <3>1. \A q \in Everyone \ {p} : handler[q].by = r => handler[q].pc # "insertRequest" /\ handler[q].pc \notin Executing
      BY <2>1, Alone DEF Executing
    <3>2. {"readPayment", "createRefund"} \subseteq Executing
      BY DEF Executing
    <3>3. request[r].status \notin Unclaimed
      BY <1>i, <2>1 DEF Returning, Executing
    <3>4. \A a \in Requests : refunded'[a] = refunded[a] /\ refunded[a] \in {0, 1}
      BY <2>1 DEF RefundInv
    <3>. QED BY <2>1, <2>2, <2>5, <3>1, <3>2, <3>3, <3>4, RefundMoved
  <2>. QED BY <2>3, <2>4, <2>5, <2>6 DEF Steady
<1>8. CASE PushRefund(p)
  <2>1. handler[p].pc = "push" /\ Record(p, "sync") /\ UNCHANGED <<rows, request, refunded>>
    BY <1>8 DEF PushRefund, On
  <2>2. r \in Requests
    BY <1>h, <2>1 DEF HoldsOK
  <2>3. PayOK' /\ StatusKept /\ RefOK' /\ Goto(p, "sync")
    BY <2>1, <2>2, Recorded
  <2>4. RowsOK' /\ Kept
    BY <2>1, RowsSame
  <2>5. HandlersOK' /\ NoNewBuyer /\ Apart(p) /\ handler'[p].pc = "sync"
    BY <2>1, <2>3, <2>4, RefundGoes DEF Kept
  <2>6. NoNewRefund
    BY <2>5 DEF NoNewRefund, Apart, Refunding
  <2>. QED BY <2>1, <2>3, <2>4, <2>5, <2>6, RefundKept DEF Steady
<1>9. CASE SyncRequest(p)
  <2>1. /\ handler[p].pc = "sync" /\ Return(p) /\ UNCHANGED <<rows, payment, refunded, recorded>>
        /\ \/ request' = request
           \/ /\ request' = [request EXCEPT ![r].status = "processed"]
              /\ request[r].stamped /\ request[r].status \notin {"processed", "failed", "rejected"}
    <3> DEFINE now == IF handler[p].flow = "refundProcessed" /\ request[r].stamped
                            /\ request[r].status \notin {"processed", "failed", "rejected"}
                        THEN "processed" ELSE request[r].status
    <3>1. request' = [request EXCEPT ![r].status = now]
      BY <1>9 DEF SyncRequest
    <3>2. r \in Requests
      BY <1>9, <1>h DEF SyncRequest, On, HoldsOK
    <3>3. now = request[r].status => request' = request
      BY <3>1, <3>2 DEF RefOK, Request
    <3>. QED BY <1>9, <3>1, <3>3 DEF SyncRequest, On, payVars
  <2>2. r \in Requests
    BY <1>h, <2>1 DEF HoldsOK
  <2>3. RowsOK' /\ Kept /\ PayOK' /\ StatusKept
    BY <2>1, RowsSame, PaymentSame
  <2>4. HandlersOK' /\ NoNewBuyer /\ NoNewRefund /\ Apart(p) /\ handler'[p].pc = "idle"
    BY <2>1, <2>3, RefundEnds DEF Kept
  <2>5. CASE request' = request
    BY <2>1, <2>3, <2>4, <2>5, RefundKept DEF Steady, RefOK
  <2>6. CASE request' # request
    <3> DEFINE d == [request[r] EXCEPT !.status = "processed"]
    <3>1. request' = [request EXCEPT ![r] = d] /\ request[r].stamped
      BY <2>1, <2>6
    <3>2. d \in Request /\ d.status = "processed"
      BY <2>2 DEF RefOK, Request
    <3>3. RefOK' /\ request'[r] = d /\ \A a \in Requests \ {r} : request'[a] = request[a]
      BY <2>1, <2>2, <3>1, <3>2, RequestSet
    <3>4. \A q \in Everyone \ {p} : handler[q].by = r =>
            handler[q].pc # "insertRequest" /\ handler[q].pc \notin {"readPayment", "createRefund"}
      BY <1>i, <2>2, <3>1 DEF Returning, RefundInv, Unclaimed
    <3>5. \A a \in Requests : refunded'[a] = refunded[a] /\ refunded[a] \in {0, 1}
      BY <2>1 DEF RefundInv
    <3>6. request'[r].status \notin Unclaimed /\ handler'[p].pc \notin Refunding \cup Executing
      BY <2>4, <3>2, <3>3 DEF Unclaimed, Refunding, Executing
    <3>7. RefundInv'
      <4> HIDE DEF d
      <4>. QED BY <2>2, <2>4, <3>3, <3>4, <3>5, <3>6, RefundMoved
    <3>. QED BY <2>3, <2>4, <3>3, <3>7 DEF Steady
  <2>. QED BY <2>5, <2>6
<1>. QED BY <1>1, <1>2, <1>3, <1>4, <1>5, <1>6, <1>7, <1>8, <1>9 DEF RefundStep

(* ... every call and event that starts one does,                          *)
LEMMA RefundCalls ==
  ASSUME RowsOK, HandlersOK, PayOK, RefOK, RefundInv, NEW p \in Procs, NEW r \in Requests,
         \/ \E amount \in 1..Total, status \in {"approved", "pending_admin"} : RequestRefund(p, r, amount, status)
         \/ ApproveRequest(p, r)
         \/ \E type \in {"refundCreated", "refundProcessed"} : RefundEvent(p, r, type)
  PROVE  Steady /\ RefundInv'
<1>. p \in Everyone /\ p # Worker
  BY SubscriptionAssumption DEF Everyone
<1>. USE RestOK, RestFields, NoneOK
<1>f. /\ {"refund", "approve", "refundCreated", "refundProcessed"} \subseteq Flows
      /\ {"insertRequest", "execute", "push"} \subseteq Points
      /\ r \in Bought /\ r \notin Payments /\ Total \in Nat /\ PayOf[r] \in Payments
      /\ {"active", "approved", "pending_admin"} \subseteq Statuses \cup {"approved", "pending_admin"}
  BY RefundAssumption DEF Flows, Points, Statuses, Live
<1>0. rows' = rows /\ payment' = payment /\ refunded' = refunded /\ recorded' = recorded
  BY DEF RequestRefund, ApproveRequest, RefundEvent, payVars, refundVars
<1>1. RowsOK' /\ Kept /\ PayOK' /\ StatusKept
  BY <1>0, RowsSame, PaymentSame
<1>2. CASE \E amount \in 1..Total, status \in {"approved", "pending_admin"} : RequestRefund(p, r, amount, status)
  <2>1. PICK amount \in 1..Total, status \in {"approved", "pending_admin"} : RequestRefund(p, r, amount, status)
    BY <1>2
  <2> DEFINE h == [Rest EXCEPT !.pc = "insertRequest", !.by = r, !.n = amount, !.want = status, !.flow = "refund"]
  <2>2. /\ handler' = [handler EXCEPT ![p] = h] /\ request' = request
        /\ request[r].status = "none" /\ \A q \in Procs : handler[q].by # r
    BY <2>1 DEF RequestRefund, Begin, refundVars
  <2>3. amount \in Nat
    BY <1>f
  <2>4. h \in Local /\ h.pc = "insertRequest" /\ h.by = r /\ h.want = status
    BY <1>f, <2>3 DEF Local
  <2>5. HoldsOK(h, DOMAIN rows')
    BY <2>4 DEF HoldsOK, Refunding
  <2> HIDE DEF h
  <2>6. HandlersOK' /\ NoNewBuyer /\ Apart(p) /\ handler'[p] = h
    BY <1>1, <2>2, <2>4, <2>5, HandlerSet DEF Kept, Buying
  <2>7. RefundInv'
    <3>1. \A q \in Everyone \ {p} : handler[q].by = r => handler[q].pc \notin Refunding
      BY <2>2 DEF RefundInv, Everyone
    <3>2. Executing \cup {"readPayment", "createRefund", "insertRequest"} \subseteq Refunding /\ "insertRequest" \notin Executing
      BY DEF Executing, Refunding
    <3>3. refunded[r] \in {0, 1} /\ (request[r].status \in Unclaimed => refunded[r] = 0 /\ ~request[r].stamped)
      BY DEF RefundInv
    <3>. QED BY <1>0, <2>2, <2>4, <2>6, <3>1, <3>2, <3>3, RefundMoved
  <2>. QED BY <1>0, <1>1, <2>2, <2>6, <2>7 DEF Steady, RefOK
<1>3. CASE ApproveRequest(p, r)
  <2> DEFINE h == [Rest EXCEPT !.pc = "execute", !.by = r, !.flow = "approve"]
             d == [request[r] EXCEPT !.status = "approved"]
  <2>1. /\ handler' = [handler EXCEPT ![p] = h] /\ request' = [request EXCEPT ![r] = d]
        /\ request[r].status = "pending_admin"
    BY <1>3 DEF ApproveRequest, Begin
  <2>2. h \in Local /\ h.pc = "execute" /\ h.by = r
    BY <1>f DEF Local
  <2>3. HoldsOK(h, DOMAIN rows')
    BY <2>2 DEF HoldsOK, Refunding
  <2>4. HandlersOK' /\ NoNewBuyer /\ Apart(p) /\ handler'[p] = h
    <3> HIDE DEF h
    <3>. QED BY <1>1, <2>1, <2>2, <2>3, HandlerSet DEF Kept, Buying
  <2>5. d \in Request /\ d.stamped = request[r].stamped
    BY DEF RefOK, Request
  <2>6. RefOK' /\ request'[r] = d /\ \A a \in Requests \ {r} : request'[a] = request[a]
    BY <1>0, <2>1, <2>5, RequestSet
  <2>7. RefundInv'
    <3>1. \A q \in Everyone \ {p} : handler[q].by = r => handler[q].pc # "insertRequest" /\ handler[q].pc \notin Executing
      BY <2>1 DEF RefundInv, Returning, Unclaimed
    <3>2. {"readPayment", "createRefund"} \subseteq Executing /\ "execute" \notin Executing
      BY DEF Executing
    <3>3. refunded[r] = 0 /\ ~request[r].stamped
      BY <2>1 DEF RefundInv, Unclaimed
    <3> HIDE DEF h, d
    <3>. QED BY <1>0, <2>2, <2>4, <2>5, <2>6, <3>1, <3>2, <3>3, RefundMoved
  <2>. QED BY <1>1, <2>4, <2>6, <2>7 DEF Steady
<1>4. CASE \E type \in {"refundCreated", "refundProcessed"} : RefundEvent(p, r, type)
  <2>1. PICK type \in {"refundCreated", "refundProcessed"} : RefundEvent(p, r, type)
    BY <1>4
  <2>2. request' = request
    BY <2>1 DEF RefundEvent, refundVars
  <2>3. RefOK'
    BY <1>0, <2>2 DEF RefOK
  <2>4. CASE handler' = handler
    BY <1>0, <1>1, <2>2, <2>3, <2>4, Idle, RefundKept DEF Steady, Kept
  <2>5. CASE handler' # handler
    <3> DEFINE o == PayOf[r]
               h == [Rest EXCEPT !.pc = "push", !.by = r, !.row = payment[o].sub, !.was = payment[o].status,
                                 !.n = payment[o].back]
    <3>1. Begin(p, type, h)
      BY <2>1, <2>5 DEF RefundEvent, Ingest, Dispatched, Event
    <3>2. payment[o].sub \in Nat /\ payment[o].back \in Nat
          /\ payment[o].status \in {"none", "created", "captured", "failed", "partially_refunded", "refunded"}
      BY <1>f DEF PayOK, Payment
    <3>3. h \in Local /\ h.pc = "push" /\ h.by = r /\ h.want = "active" /\ type \in Flows
      BY <1>f, <3>2 DEF Local
    <3>4. HoldsOK(h, DOMAIN rows)
      BY <3>3 DEF HoldsOK, Refunding
    <3>5. Fine
      <4> HIDE DEF h
      <4>. QED BY <1>0, <3>1, <3>3, <3>4, Starts DEF Refunding, Buying
    <3>6. HandlersOK' /\ NoNewBuyer /\ NoNewRefund
      BY <3>5 DEF Fine
    <3>. QED BY <1>0, <1>1, <2>2, <2>3, <3>6, RefundKept DEF Steady
  <2>. QED BY <2>4, <2>5
<1>. QED BY <1>2, <1>3, <1>4

(* ... and so does a rejection.                                            *)
LEMMA RequestRejected ==
  ASSUME HandlersOK, RefOK, RefundInv, NEW r \in Requests, RejectRequest(r)
  PROVE  RefOK' /\ RefundInv'
<1> DEFINE d == [request[r] EXCEPT !.status = "rejected"]
<1>1. request' = [request EXCEPT ![r] = d] /\ request[r].status = "pending_admin"
      /\ handler' = handler /\ refunded' = refunded /\ recorded' = recorded
  BY DEF RejectRequest, subVars
<1>2. d \in Request /\ d.stamped = request[r].stamped
  BY DEF RefOK, Request
<1>3. RefOK' /\ request'[r] = d /\ \A a \in Requests \ {r} : request'[a] = request[a]
  BY <1>1, <1>2, RequestSet
<1>4. \A q \in Everyone : handler[q].by = r => handler[q].pc # "insertRequest" /\ handler[q].pc \notin Executing
  BY <1>1 DEF RefundInv, Returning, Unclaimed
<1>5. {"readPayment", "createRefund", "insertRequest"} \cup Executing \subseteq Refunding
      /\ {"readPayment", "createRefund"} \subseteq Executing
  BY DEF Executing, Refunding
<1>6. refunded[r] = 0 /\ ~request[r].stamped /\ handler[Worker].pc \notin Refunding
  BY <1>1 DEF RefundInv, Unclaimed
<1>7. Worker \in Everyone /\ Apart(Worker)
  BY <1>1 DEF Everyone, Apart
<1> HIDE DEF d
<1>. QED BY <1>1, <1>2, <1>3, <1>4, <1>5, <1>6, <1>7, RefundMoved

-----------------------------------------------------------------------------
(* All modules together.                                                   *)

(* A step that is no part of a sale, or that ends one.                     *)
Flow ==
  /\ RowsOK' /\ HandlersOK' /\ PayOK' /\ NoNewBuyer /\ StatusKept
  /\ Kept \/ \E p \in Procs : Sold(p)

(* Every step of the system is such a step or a part of a sale.            *)
LEMMA NextFine ==
  ASSUME RowsOK, HandlersOK, PayOK, MandOK, RefOK, RefundInv, RefundNext
  PROVE  (Flow \/ Sale) /\ MandOK' /\ RefOK' /\ RefundInv'
<1>1. CASE \E p \in Procs : RefundStep(p) \/ RefundCall(p)
  <2>1. mandateVars' = mandateVars
    BY <1>1 DEF RefundStep, InsertRequest, Execute, ReadPayment, CreateRefund, StampRequest, RecordRefund, AutoDowngrade,
                Settle, PushRefund, SyncRequest, RefundCall, RequestRefund, ApproveRequest, RefundEvent
  <2>2. MandOK'
    BY <2>1 DEF MandOK, mandateVars
  <2>3. Steady /\ RefundInv'
    BY <1>1, RefundSteps, RefundCalls DEF RefundCall
  <2>. QED BY <2>2, <2>3 DEF Steady, Flow
<1>2. CASE \E r \in Requests : RejectRequest(r) \/ ProcessRefund(r)
  <2>1. PICK r \in Requests : RejectRequest(r) \/ ProcessRefund(r)
    BY <1>2
  <2>2. rows' = rows /\ handler' = handler /\ payment' = payment /\ UNCHANGED mandateVars
    BY <2>1 DEF RejectRequest, ProcessRefund, subVars, payVars
  <2>3. MandOK'
    BY <2>2 DEF MandOK, mandateVars
  <2>4. RowsOK' /\ Kept /\ PayOK' /\ StatusKept
    BY <2>2, RowsSame, PaymentSame
  <2>5. HandlersOK' /\ NoNewBuyer /\ NoNewRefund
    BY <2>2, <2>4, Idle DEF Kept
  <2>6. RefOK' /\ RefundInv'
    <3>1. CASE RejectRequest(r)
      BY <3>1, RequestRejected
    <3>2. CASE ProcessRefund(r)
      BY <2>5, <3>2, RefundKept DEF ProcessRefund, refundVars, RefOK
    <3>. QED BY <2>1, <3>1, <3>2
  <2>. QED BY <2>3, <2>4, <2>5, <2>6 DEF Flow
<1>3. CASE MandateNext /\ UNCHANGED refundVars
  <2>1. (Calm \/ Sale) /\ MandOK'
    BY <1>3, MandateFine
  <2>2. NoNewRefund
    BY <2>1 DEF Calm, Fine, Sale
  <2>3. RefOK' /\ RefundInv'
    BY <1>3, <2>2, RefundKept DEF refundVars, RefOK
  <2>. QED BY <2>1, <2>3 DEF Calm, Fine, Flow
<1>. QED BY <1>1, <1>2, <1>3 DEF RefundNext

-----------------------------------------------------------------------------
(* One row for a payment.                                                  *)

(* There is a row for payment o; handler q has one to insert.              *)
HasRow(o) == \E i \in DOMAIN rows : rows[i].paidBy = o
Buys(q, o) == handler[q].pc \in Buying /\ handler[q].by = o

(* A payment is created once: before, there is no row for it and no other  *)
(* handler at it.                                                          *)
Ordering(p) ==
  handler[p].pc = "insertPayment" =>
    /\ payment[handler[p].by].status # "created" /\ ~HasRow(handler[p].by)
    /\ \A q \in Everyone \ {p} : handler[q].by = handler[p].by => handler[q].pc \notin Buying \cup {"insertPayment"}

(* While a payment is not captured nobody has or inserts a row for it.     *)
Unsold(o) == payment[o].status \in {"none", "created"} => ~HasRow(o) /\ \A q \in Everyone : ~Buys(q, o)

(* After that one handler does, and there is none yet.                     *)
Selling(p) ==
  handler[p].pc \in Buying /\ handler[p].by \in Payments =>
    ~HasRow(handler[p].by) /\ \A q \in Everyone \ {p} : ~Buys(q, handler[p].by)

(* The part of the invariant about sales.                                  *)
SaleInv ==
  /\ handler[Worker].pc # "insertPayment"
  /\ \A p \in Everyone : Ordering(p) /\ Selling(p)
  /\ \A o \in Payments : Unsold(o)
  /\ OneRowPerOrder

(* It is kept when handlers and payments end a sale of b, or none,         *)
LEMMA SaleFrame ==
  ASSUME SaleInv, HandlersOK, Flow, NEW b, OneRowPerOrder',
         \A o \in Payments \ {b} : HasRow(o)' => HasRow(o),
         b \in Payments => /\ payment'[b].status \notin {"none", "created"}
                          /\ \A q \in Everyone : handler'[q].by = b => handler'[q].pc \notin Buying \cup {"insertPayment"}
  PROVE  SaleInv'
<1>1. "insertPayment" \notin Buying /\ Worker \in Everyone
  BY DEF Buying, Everyone
<1>2. \A q \in Everyone : /\ handler'[q].pc \in Buying /\ handler'[q].by \in Payments
                              => handler[q].pc \in Buying /\ handler[q].by = handler'[q].by
                          /\ handler'[q].pc = "insertPayment" => handler'[q] = handler[q]
  BY DEF Flow, NoNewBuyer
<1>3. \A q \in Everyone : handler'[q].pc = "insertPayment" => handler'[q].by \in Payments
  BY DEF Flow, HoldsOK
<1>4. \A o \in Payments : payment'[o].status \in {"none", "created"} => payment'[o].status = payment[o].status
  BY DEF Flow, StatusKept
<1>5. handler'[Worker].pc # "insertPayment"
  BY <1>1, <1>2 DEF SaleInv
<1>6. ASSUME NEW p \in Everyone PROVE Ordering(p)'
  <2>1. SUFFICES ASSUME handler'[p].pc = "insertPayment" PROVE Ordering(p)'
    BY DEF Ordering
  <2> DEFINE o == handler[p].by
  <2>2. handler'[p] = handler[p] /\ o \in Payments /\ o # b
    BY <1>2, <1>3, <2>1
  <2>3. /\ payment[o].status # "created" /\ ~HasRow(o)
        /\ \A q \in Everyone \ {p} : handler[q].by = o => handler[q].pc \notin Buying \cup {"insertPayment"}
    BY <2>1, <2>2 DEF SaleInv, Ordering
  <2>4. payment'[o].status # "created" /\ ~HasRow(o)'
    BY <1>4, <2>2, <2>3
  <2>5. \A q \in Everyone \ {p} : handler'[q].by = o => handler'[q].pc \notin Buying \cup {"insertPayment"}
    BY <1>2, <2>2, <2>3
  <2>. QED BY <2>2, <2>4, <2>5 DEF Ordering, HasRow
<1>7. ASSUME NEW p \in Everyone PROVE Selling(p)'
  <2>1. SUFFICES ASSUME handler'[p].pc \in Buying, handler'[p].by \in Payments PROVE Selling(p)'
    BY DEF Selling
  <2> DEFINE o == handler[p].by
  <2>2. handler[p].pc \in Buying /\ handler'[p].by = o /\ o \in Payments /\ o # b
    BY <1>2, <2>1
  <2>3. ~HasRow(o) /\ \A q \in Everyone \ {p} : ~Buys(q, o)
    BY <2>2 DEF SaleInv, Selling
  <2>4. ~HasRow(o)'
    BY <2>2, <2>3
  <2>5. \A q \in Everyone \ {p} : ~(handler'[q].pc \in Buying /\ handler'[q].by = o)
    BY <1>2, <2>2, <2>3 DEF Buys
  <2>. QED BY <2>2, <2>4, <2>5 DEF Selling, HasRow, Buys
<1>8. ASSUME NEW o \in Payments PROVE Unsold(o)'
  <2>1. SUFFICES ASSUME payment'[o].status \in {"none", "created"} PROVE Unsold(o)'
    BY DEF Unsold
  <2>2. o # b /\ ~HasRow(o) /\ \A q \in Everyone : ~Buys(q, o)
    BY <1>4, <2>1 DEF SaleInv, Unsold
  <2>3. ~HasRow(o)'
    BY <2>2
  <2>4. \A q \in Everyone : ~(handler'[q].pc \in Buying /\ handler'[q].by = o)
    BY <1>2, <2>2 DEF Buys
  <2>. QED BY <2>3, <2>4 DEF Unsold, Buys
<1>. QED BY <1>5, <1>6, <1>7, <1>8 DEF SaleInv

(* ... so by all steps that are no part of a sale,                         *)
LEMMA SaleKept == ASSUME SaleInv, HandlersOK, Flow PROVE SaleInv'
<1>5. CASE Kept
  <2>1. \A o \in Payments : HasRow(o)' => HasRow(o)
    BY <1>5 DEF Kept, HasRow
  <2>2. OneRowPerOrder'
    BY <1>5 DEF Kept, SaleInv, OneRowPerOrder
  <2>. QED BY <2>1, <2>2, NoneOK, SaleFrame
<1>6. CASE \E p \in Procs : Sold(p)
  <2>1. PICK p \in Procs : Sold(p)
    BY <1>6
  <2> DEFINE b == handler[p].by
  <2>2. p \in Everyone /\ handler[p].pc \in Buying /\ handler'[p].pc \notin Buying \cup {"insertPayment"}
    BY <2>1 DEF Sold, Everyone, Buying
  <2>3. \A o \in Payments \ {b} : HasRow(o)' => HasRow(o)
    BY <2>1 DEF Sold, HasRow
  <2>4. CASE b \in Payments
    <3>1. ~HasRow(b) /\ \A q \in Everyone \ {p} : ~Buys(q, b)
      BY <2>2, <2>4 DEF SaleInv, Selling
    <3>2. ASSUME NEW q \in Everyone, handler'[q].by = b PROVE handler'[q].pc \notin Buying \cup {"insertPayment"}
      <4>1. CASE q = p
        BY <2>2, <4>1
      <4>2. CASE q # p
        <5>1. handler'[q].pc \notin Buying
          BY <2>4, <3>1, <3>2, <4>2 DEF Buys, Flow, NoNewBuyer
        <5>2. handler'[q].pc # "insertPayment"
          BY <2>2, <3>2, <4>2 DEF SaleInv, Ordering, Flow, NoNewBuyer
        <5>. QED BY <5>1, <5>2
      <4>. QED BY <4>1, <4>2
    <3>3. payment[b].status \notin {"none", "created"}
      BY <2>2, <2>4 DEF SaleInv, Unsold, Buys
    <3>4. payment'[b].status \notin {"none", "created"}
      BY <2>4, <3>3 DEF Flow, StatusKept
    <3>5. OneRowPerOrder'
      BY <2>1, <3>1 DEF Sold, SaleInv, OneRowPerOrder, HasRow
    <3>. QED BY <2>3, <3>2, <3>4, <3>5, SaleFrame
  <2>5. CASE b \notin Payments
    <3>1. OneRowPerOrder'
      BY <2>1, <2>5 DEF Sold, SaleInv, OneRowPerOrder
    <3>. QED BY <2>3, <2>5, <3>1, SaleFrame
  <2>. QED BY <2>4, <2>5
<1>. QED BY <1>5, <1>6 DEF Flow

(* ... and by those that are.                                              *)
LEMMA SaleMade == ASSUME SaleInv, HandlersOK, Sale PROVE SaleInv'
<1>1. "insertPayment" \notin Buying /\ Worker \in Everyone
  BY DEF Buying, Everyone
<1>2. PICK p \in Procs : Apart(p) /\ (Enters(p) \/ Opens(p) \/ Takes(p))
  BY DEF Sale
<1>3. p \in Everyone /\ p # Worker /\ \A q \in Everyone \ {p} : handler'[q] = handler[q]
  BY <1>2, SubscriptionAssumption DEF Everyone, Apart
<1>4. rows' = rows
  BY <1>2 DEF Enters, Opens, Takes
<1>5. (\A o \in Payments : HasRow(o)' <=> HasRow(o)) /\ OneRowPerOrder'
  BY <1>4 DEF HasRow, OneRowPerOrder, SaleInv
<1>6. \A q \in Everyone : handler[q].pc = "insertPayment" => handler[q].by \in Payments
  BY DEF HoldsOK
<1>7. CASE Enters(p)
  BY <1>1, <1>3, <1>5, <1>6, <1>7 DEF Enters, SaleInv, Ordering, Selling, Unsold, Buys, Everyone
<1>8. CASE Opens(p)
  BY <1>1, <1>3, <1>5, <1>6, <1>8 DEF Opens, SaleInv, Ordering, Selling, Unsold, Buys
<1>9. CASE Takes(p)
  BY <1>1, <1>3, <1>5, <1>6, <1>9 DEF Takes, SaleInv, Ordering, Selling, Unsold, Buys
<1>. QED BY <1>2, <1>7, <1>8, <1>9

-----------------------------------------------------------------------------
(* The theorems.                                                           *)

(* The inductive invariant.                                                *)
IInv == RowsOK /\ HandlersOK /\ PayOK /\ MandOK /\ RefOK /\ RefundInv /\ SaleInv

(* It holds at first,                                                      *)
LEMMA InitHolds == Init => IInv
<1> SUFFICES ASSUME Init PROVE IInv
  OBVIOUS
<1>1. RefundInit /\ MandateInit /\ CheckoutInit /\ SubInit
  BY DEF Init, RefundInit, MandateInit, CheckoutInit
<1>2. handler = [p \in Everyone |-> Rest]
  BY <1>1 DEF SubInit, Everyone
<1>3. \A p \in Everyone : handler[p] = Rest
  BY <1>2
<1>4. RowsOK /\ \A i \in DOMAIN rows : rows[i].paidBy = None
  <2>1. rows = <<>> \/ \E form \in {"str", "oid"}, plan \in Plans : rows = <<NewRow(form, plan, "active", None)>>
    BY <1>1 DEF SubInit
  <2>2. CASE rows = <<>>
    BY <2>2 DEF RowsOK
  <2>3. CASE rows # <<>>
    <3>1. PICK form \in {"str", "oid"}, plan \in Plans : rows = <<NewRow(form, plan, "active", None)>>
      BY <2>1, <2>3
    <3> DEFINE r == NewRow(form, plan, "active", None)
    <3>2. r \in Row /\ r.paidBy = None
      BY NewRowOK DEF Statuses, Live
    <3> HIDE DEF r
    <3>3. rows = <<r>>
      BY <3>1 DEF r
    <3>. QED BY <3>2, <3>3 DEF RowsOK
  <2>. QED BY <2>2, <2>3
<1>5. HandlersOK
  <2>1. HoldsOK(Rest, DOMAIN rows)
    BY RestFields DEF HoldsOK, Refunding
  <2>. QED BY <1>2, <2>1, RestOK
<1>6. PayOK /\ \A o \in Payments : payment[o].status = "none"
  BY <1>1 DEF CheckoutInit, PayOK, NoPayment, Payment
<1>7. MandOK
  BY <1>1 DEF MandateInit, MandOK, Gateway
<1>8. RefOK /\ \A r \in Requests : request[r].status = "none" /\ ~request[r].stamped /\ refunded[r] = 0
  BY <1>1 DEF RefundInit, RefOK, NoRequest, Request
<1>9. \A p \in Everyone : handler[p].pc = "idle"
  BY <1>3, RestFields
<1>10. RefundInv
  BY <1>8, <1>9 DEF RefundInv, Returning, Refunding, Executing, Everyone
<1>11. SaleInv
  <2>1. \A o \in Payments : ~HasRow(o)
    BY <1>4, NoneOK DEF HasRow
  <2>2. OneRowPerOrder
    BY <1>4, NoneOK DEF OneRowPerOrder
  <2>. QED BY <1>9, <2>1, <2>2 DEF SaleInv, Ordering, Selling, Unsold, Buys, Buying, Everyone
<1>. QED BY <1>4, <1>5, <1>6, <1>7, <1>8, <1>10, <1>11 DEF IInv

(* ... every step keeps it,                                                *)
LEMMA StepHolds == IInv /\ [Next]_vars => IInv'
<1> SUFFICES ASSUME IInv, [Next]_vars PROVE IInv'
  OBVIOUS
<1>1. CASE Next
  <2>1. (Flow \/ Sale) /\ MandOK' /\ RefOK' /\ RefundInv'
    BY <1>1, NextFine DEF Next, IInv
  <2>2. SaleInv'
    BY <2>1, SaleKept, SaleMade DEF IInv
  <2>3. RowsOK' /\ HandlersOK' /\ PayOK'
    BY <2>1 DEF Flow, Sale
  <2>. QED BY <2>1, <2>2, <2>3 DEF IInv
<1>2. CASE vars' = vars
  <2>1. UNCHANGED <<rows, handler, payment, mandate, jobs, day, request, refunded, recorded>>
    BY <1>2 DEF vars, subVars, payVars, mandateVars, refundVars
  <2>. QED BY <2>1 DEF IInv, RowsOK, PayOK, MandOK, RefOK, RefundInv, Returning, SaleInv, Ordering, Selling, Unsold, Buys,
                       HasRow, OneRowPerOrder, HoldsOK
<1>. QED BY <1>1, <1>2

(* ... so it holds always.                                                 *)
LEMMA Inductive == Spec => []IInv
BY InitHolds, StepHolds, PTL DEF Spec

(* Rows, handlers, payments, mandates, the queue and refund requests keep  *)
(* their types, for any number of each and whatever overlaps, dies or is   *)
(* repeated.                                                               *)
THEOREM TypeCorrect == Spec => []TypeOK
<1>1. IInv => TypeOK
  BY DEF IInv, RowsOK, PayOK, MandOK, RefOK, TypeOK, Everyone
<1>. QED BY <1>1, Inductive, PTL

(* confirmPayment and the webhooks may capture a payment, and subscribe    *)
(* insert its row, in any overlap and with deaths anywhere: no payment has *)
(* two rows. The compare-and-set lets one handler past, and nobody else    *)
(* has that payment's row to insert.                                       *)
THEOREM OneRowForAPayment == Spec => []OneRowPerOrder
<1>1. IInv => OneRowPerOrder
  BY DEF IInv, SaleInv
<1>. QED BY <1>1, Inductive, PTL

(* executeRefund may be reached by the requester and any number of admins  *)
(* at once, and die anywhere: the gateway pays back once for a request,    *)
(* and never for a rejected one.                                           *)
THEOREM PaidBackOnce == Spec => []RefundedOnce
<1>1. IInv => RefundedOnce
  BY DEF IInv, RefundInv, RefundedOnce, Unclaimed
<1>. QED BY <1>1, Inductive, PTL

-----------------------------------------------------------------------------
(* Mandates: over is over, grace is kept, and a period is paid for.        *)

(* The rows of no mandate. rs, ms: rows and mandates, now or next.         *)
Plain(rs) == {i \in DOMAIN rs : rs[i].paidBy \notin Mandate}

(* Where a handler carries an event about a mandate to its row.            *)
Renewing == {"activating", "booking", "renewing"}

(* Where handlers may be that write rows found before, by their id.        *)
Planning == {"promoting", "supersedeOld", "supersedeLive", "activate", "forceSave", "inserted", "downgrading"}

(* What those wrote down are no rows of a mandate.                         *)
Planned(h, rs) ==
  /\ h.flow = "promote" => /\ h.pc \in {"promoting", "supersedeOld", "supersedeLive", "activate"}
                           /\ h.todo \subseteq Plain(rs)
                           /\ h.pc # "promoting" => h.row \in Plain(rs)
  /\ h.flow = "force" => h.pc \in {"supersedeOld", "supersedeLive", "forceSave", "inserted"} /\ h.row \in Plain(rs)
  /\ h.flow = "expire" => h.pc = "downgrading" /\ h.todo \subseteq Plain(rs)
  /\ h.pc \in {"promoting", "activate"} => h.flow = "promote"
  /\ h.pc = "forceSave" => h.flow = "force"
  /\ h.pc = "downgrading" => h.flow = "expire"

(* An event is carried to the row of its mandate, and names no cycle that  *)
(* was not charged; nobody buys for a mandate.                             *)
Held(h, rs, ms) ==
  /\ h.pc \in Renewing => /\ h.by \in Mandate /\ h.row \in DOMAIN rs
                          /\ rs[h.row].paidBy = h.by /\ h.n <= ms[h.by].cycle
  /\ h.pc \in Buying => h.by \notin Mandate
  /\ Planned(h, rs)

(* So are the events the gateway has sent.                                 *)
Announced(e, ms) ==
  e.of \in Mandate => /\ e.type \in {"activated", "charged"} => e.n \in 0..ms[e.of].cycle
                      /\ e.type = "completed" => ms[e.of].status = "ended"

(* A row of a mandate is paid up to a cycle that was charged.              *)
Backed(r, ms) == r.paidBy \in Mandate => r.status \notin {"scheduled", "trial"} /\ r.until <= ms[r.paidBy].cycle

(* The part of the invariant about mandates.                               *)
MandateInv ==
  /\ \A i \in DOMAIN rows : Backed(rows[i], mandate)
  /\ \A m \in Mandate : mandate[m].status \in {"none", "created"} => mandate[m].cycle = 0
  /\ \A q \in Everyone : Held(handler[q], rows, mandate)
  /\ \A e \in sent : Announced(e, mandate)

(* What a step may do to mandates,                                         *)
MandatesGo ==
  \A m \in Mandate :
    /\ mandate[m].cycle <= mandate'[m].cycle
    /\ mandate[m].status = "ended" => mandate'[m].status = "ended"
    /\ mandate'[m].status \in {"none", "created"} => mandate'[m].cycle = 0

(* ... to rows, s what becomes of r,                                       *)
RowGoes(r, s) ==
  /\ s.paidBy = r.paidBy
  /\ Backed(s, mandate)
  /\ r.paidBy \in Mandate /\ r.status \in Closed => s.status \in Closed
  /\ r.status = "grace_period" /\ s.status = "expired" => r.grace <= day \/ mandate[r.paidBy].status = "ended"

RowsGo ==
  /\ DOMAIN rows \subseteq DOMAIN rows'
  /\ \A i \in DOMAIN rows' :
       IF i \in DOMAIN rows THEN RowGoes(rows[i], rows'[i])
                            ELSE rows'[i].paidBy \in Mandate => rows'[i].status = "pending" /\ rows'[i].until = 0

(* ... and to handlers.                                                    *)
HandlersGo == \A q \in Everyone : handler'[q] = handler[q] \/ Held(handler'[q], rows', mandate')

(* What handlers hold stays true when rows and mandates move on.           *)
LEMMA HeldStays ==
  ASSUME NEW h \in Local, MandOK, MandOK', MandatesGo,
         DOMAIN rows \subseteq DOMAIN rows', \A i \in DOMAIN rows : rows'[i].paidBy = rows[i].paidBy,
         Held(h, rows, mandate)
  PROVE  Held(h, rows', mandate')
<1>1. \A m \in Mandate : mandate[m].cycle \in Nat /\ mandate'[m].cycle \in Nat
  BY DEF MandOK, Gateway
<1>2. Plain(rows) \subseteq Plain(rows')
  BY DEF Plain
<1>3. Planned(h, rows')
  BY <1>2 DEF Held, Planned
<1>4. h.n \in Nat
  BY DEF Local
<1>5. h.pc \in Renewing => /\ h.by \in Mandate /\ h.row \in DOMAIN rows'
                           /\ rows'[h.row].paidBy = h.by /\ h.n <= mandate'[h.by].cycle
  BY <1>1, <1>4 DEF Held, MandatesGo
<1>. QED BY <1>3, <1>5 DEF Held

(* A step that does so keeps the invariant.                                *)
LEMMA MandatesKept ==
  ASSUME IInv, IInv', MandateInv, MandatesGo, RowsGo, HandlersGo, \A e \in sent' : e \in sent \/ Announced(e, mandate')
  PROVE  MandateInv'
<1>0. MandOK /\ MandOK' /\ RowsOK' /\ \A q \in Everyone : handler[q] \in Local
  BY DEF IInv
<1>1. \A m \in Mandate : mandate[m].cycle \in Nat /\ mandate'[m].cycle \in Nat
  BY <1>0 DEF MandOK, Gateway
<1>2. \A i \in DOMAIN rows' : rows'[i].until \in Nat
  <2>1. \A i \in DOMAIN rows' : rows'[i] \in Row
    BY <1>0 DEF RowsOK
  <2>. QED BY <2>1 DEF Row
<1>3. \A i \in DOMAIN rows' : Backed(rows'[i], mandate')
  BY <1>1, <1>2 DEF RowsGo, RowGoes, Backed, MandatesGo
<1>4. \A m \in Mandate : mandate'[m].status \in {"none", "created"} => mandate'[m].cycle = 0
  BY DEF MandatesGo
<1>5. \A q \in Everyone : Held(handler'[q], rows', mandate')
  <2>1. DOMAIN rows \subseteq DOMAIN rows' /\ \A i \in DOMAIN rows : rows'[i].paidBy = rows[i].paidBy
    BY DEF RowsGo, RowGoes
  <2>. QED BY <1>0, <2>1, HeldStays DEF HandlersGo, MandateInv
<1>6. ASSUME NEW e \in sent' PROVE Announced(e, mandate')
  <2>1. CASE e \in sent
    <3>1. Announced(e, mandate)
      BY <2>1 DEF MandateInv
    <3>2. SUFFICES ASSUME e.of \in Mandate PROVE Announced(e, mandate')
      BY DEF Announced
    <3>. QED BY <1>1, <3>1, <3>2 DEF Announced, MandatesGo
  <2>. QED BY <2>1
<1>. QED BY <1>3, <1>4, <1>5, <1>6 DEF MandateInv

(* Rows that are not touched,                                              *)
LEMMA RowsRest == ASSUME RowsOK, MandateInv, rows' = rows PROVE RowsGo
BY DEF RowsGo, RowGoes, MandateInv, Backed

(* ... whose status is set,                                                *)
LEMMA StatusGoes ==
  ASSUME RowsOK, MandateInv, NEW S, NEW status \in Statuses, rows' = SetStatus(S, status),
         \A i \in S \cap DOMAIN rows :
           /\ rows[i].paidBy \in Mandate => /\ status \notin {"scheduled", "trial"}
                                            /\ rows[i].status \in Closed => status \in Closed
           /\ rows[i].status = "grace_period" /\ status = "expired"
                => rows[i].grace <= day \/ mandate[rows[i].paidBy].status = "ended"
  PROVE  RowsGo
<1>1. \A i \in DOMAIN rows : rows[i] \in Row /\ Backed(rows[i], mandate)
  BY RowTyped DEF MandateInv
<1>2. DOMAIN rows' = DOMAIN rows
  BY DEF SetStatus
<1>3. ASSUME NEW i \in DOMAIN rows PROVE RowGoes(rows[i], rows'[i])
  <2>1. rows'[i] = IF i \in S THEN [rows[i] EXCEPT !.status = status] ELSE rows[i]
    BY <1>3 DEF SetStatus
  <2>2. CASE i \in S
    <3>1. /\ rows'[i].paidBy = rows[i].paidBy /\ rows'[i].status = status /\ rows'[i].until = rows[i].until
      BY <1>1, <2>1, <2>2 DEF Row
    <3>. QED BY <1>1, <2>2, <3>1 DEF RowGoes, Backed
  <2>3. CASE i \notin S
    BY <1>1, <2>1, <2>3 DEF RowGoes
  <2>. QED BY <2>2, <2>3
<1>. QED BY <1>2, <1>3 DEF RowsGo

(* ... one that is written,                                                *)
LEMMA RowGone ==
  ASSUME RowsOK, MandateInv, NEW i, NEW r, rows' = [rows EXCEPT ![i] = r],
         i \in DOMAIN rows => RowGoes(rows[i], r)
  PROVE  RowsGo
<1>1. \A j \in DOMAIN rows : RowGoes(rows[j], rows[j])
  BY DEF RowGoes, MandateInv
<1>. QED BY <1>1 DEF RowsGo

(* ... and a new one.                                                      *)
LEMMA RowCame ==
  ASSUME RowsOK, MandateInv, NEW r \in Row, rows' = Append(rows, r),
         r.paidBy \in Mandate => r.status = "pending" /\ r.until = 0
  PROVE  RowsGo
<1>1. \A j \in DOMAIN rows : RowGoes(rows[j], rows[j])
  BY DEF RowGoes, MandateInv
<1>. QED BY <1>1, RowAppended DEF RowsGo

(* A handler that ends holds nothing,                                      *)
LEMMA RestHeld == ASSUME NEW rs, NEW ms PROVE Held(Rest, rs, ms)
BY DEF Rest, Held, Planned, Renewing, Buying

LEMMA HandlerEnds == ASSUME HandlersOK, NEW p \in Everyone, Return(p) PROVE HandlersGo
BY RestHeld DEF Return, HandlersGo

(* ... one that takes up a call or goes on within one holds no row yet,    *)
LEMMA HandlerStarts ==
  ASSUME HandlersOK, NEW p \in Everyone, Apart(p), handler'[p].flow \notin {"promote", "force", "expire"},
         handler'[p].pc \notin Renewing \cup {"promoting", "activate", "forceSave", "downgrading"},
         handler'[p].pc \in Buying => handler'[p].by \notin Mandate
  PROVE  HandlersGo
BY DEF Apart, HandlersGo, Held, Planned

LEMMA HandlerGoes ==
  ASSUME HandlersOK, MandateInv, NEW p \in Everyone, Apart(p), handler'[p].flow = handler[p].flow,
         handler[p].pc \notin Planning, handler'[p].pc \notin Renewing \cup Buying \cup {"downgrading"}
  PROVE  HandlersGo
<1>1. handler[p].flow \notin {"promote", "force", "expire"}
  BY DEF MandateInv, Held, Planned, Planning
<1>. QED BY <1>1, HandlerStarts DEF Buying

LEMMA HandlerAt ==
  ASSUME HandlersOK, MandateInv, NEW p \in Everyone, NEW pc, Goto(p, pc), handler[p].pc \notin Planning,
         pc \notin Renewing \cup Buying \cup {"downgrading"}
  PROVE  HandlersGo
<1>1. Apart(p) /\ handler'[p] = [handler[p] EXCEPT !.pc = pc] /\ handler[p] \in Local
  BY DEF Goto, Apart
<1>2. handler'[p].pc = pc /\ handler'[p].flow = handler[p].flow
  BY <1>1 DEF Local
<1>. QED BY <1>1, <1>2, HandlerGoes

(* ... and those that rest are as they were.                               *)
LEMMA HandlersRest == ASSUME handler' = handler PROVE HandlersGo
BY DEF HandlersGo

(* A call begins.                                                          *)
LEMMA Began ==
  ASSUME HandlersOK, NEW p \in Everyone, NEW flow, NEW h, Begin(p, flow, h)
  PROVE  Apart(p) /\ handler'[p] = [h EXCEPT !.flow = flow]
BY DEF Begin, Apart

LEMMA CallGoes ==
  ASSUME HandlersOK, NEW p \in Everyone, NEW flow, NEW h, Begin(p, flow, h), DOMAIN h = DOMAIN Rest,
         flow \notin {"promote", "force", "expire"},
         h.pc \notin Renewing \cup {"promoting", "activate", "forceSave", "downgrading"}, h.pc \in Buying => h.by \notin Mandate
  PROVE  HandlersGo
<1>1. Apart(p) /\ handler'[p] = [h EXCEPT !.flow = flow]
  BY Began
<1>2. handler'[p].flow = flow /\ handler'[p].pc = h.pc /\ handler'[p].by = h.by
  BY <1>1 DEF Rest
<1>. QED BY <1>1, <1>2, HandlerStarts

(* Nobody pays for a mandate under the name of a payment, or of None.      *)
LEMMA NoMandate == None \notin Mandate /\ Payments \cap Mandate = {}
BY SubscriptionAssumption, MandateAssumption

(* Operations on subscriptions keep to that: a write by id is of a row     *)
(* found scheduled, or in its trial, which no row of a mandate ever is;    *)
LEMMA SubscriptionsGo ==
  ASSUME RowsOK, HandlersOK, MandateInv, mandate' = mandate, NEW p \in Procs, Step(p)
  PROVE  RowsGo /\ HandlersGo
<1>. p \in Everyone
  BY DEF Everyone
<1> DEFINE h == handler[p]
<1>h. h \in Local /\ HoldsOK(h, DOMAIN rows) /\ Held(h, rows, mandate)
  BY HolderOK DEF MandateInv
<1>p. DOMAIN rows' = DOMAIN rows /\ (\A i \in DOMAIN rows : rows'[i].paidBy = rows[i].paidBy)
        => Plain(rows') = Plain(rows)
  BY DEF Plain
<1>r. \A i \in DOMAIN rows : rows[i] \in Row
  BY RowTyped
<1>s. \A S, status : rows' = SetStatus(S, status)
        => DOMAIN rows' = DOMAIN rows /\ \A i \in DOMAIN rows : rows'[i].paidBy = rows[i].paidBy
  BY <1>r DEF SetStatus, Row
<1>1. CASE SupersedeOld(p) \/ SupersedeLive(p)
  <2> DEFINE pc == IF h.pc = "supersedeOld" THEN "supersedeLive" ELSE Superseding(p)
  <2>1. \E S : rows' = SetStatus(S, "superseded")
    BY <1>1 DEF SupersedeOld, SupersedeLive
  <2>2. RowsGo
    <3>1. "superseded" \in Statuses \cap Closed /\ "superseded" \notin {"scheduled", "trial", "expired"}
      BY DEF Statuses, Closed
    <3>. QED BY <2>1, <3>1, StatusGoes
  <2>3. h.pc \in {"supersedeOld", "supersedeLive"} /\ Goto(p, pc)
    BY <1>1 DEF SupersedeOld, SupersedeLive, On
  <2>4. /\ h.flow = "promote" => Superseding(p) = "activate"
        /\ h.flow = "force" => Superseding(p) = "forceSave"
        /\ h.flow \notin {"promote", "force"} => Superseding(p) \in {"insert", "insertTrial"}
    BY DEF Superseding, Resume
  <2>5. /\ handler'[p].pc = pc /\ handler'[p].flow = h.flow /\ handler'[p].todo = h.todo
        /\ handler'[p].row = h.row /\ handler'[p].by = h.by /\ Apart(p)
    BY <1>h, <2>3 DEF Goto, Local, Apart
  <2>6. Plain(rows') = Plain(rows) /\ h.by \notin Mandate
    BY <1>h, <1>p, <1>s, <2>1, <2>3 DEF Held, Buying
  <2>7. Held(handler'[p], rows', mandate')
    BY <1>h, <2>3, <2>4, <2>5, <2>6 DEF Held, Planned, Renewing
  <2>. QED BY <2>2, <2>5, <2>7 DEF HandlersGo, Apart
<1>2. CASE ReadCurrent(p)
  <2>1. rows' = rows /\ h.pc = "subscribe"
    BY <1>2 DEF ReadCurrent, On
  <2>2. CASE Return(p)
    BY <2>1, <2>2, RowsRest, HandlerEnds
  <2>3. CASE ~Return(p)
    <3>0. PICK pc \in {"insert", "supersedeOld"} : \E row, want : handler' = [handler EXCEPT ![p].pc = pc, ![p].row = row, ![p].want = want]
      BY <1>2, <2>3 DEF ReadCurrent
    <3>1. PICK row, want : handler' = [handler EXCEPT ![p].pc = pc, ![p].row = row, ![p].want = want]
      BY <3>0
    <3>2. Apart(p) /\ handler'[p].pc = pc /\ handler'[p].flow = h.flow /\ handler'[p].by = h.by
      BY <1>h, <3>1 DEF Apart, Local
    <3>3. h.flow \notin {"promote", "force", "expire"} /\ h.by \notin Mandate
      BY <1>h, <2>1 DEF Held, Planned, Buying
    <3>. QED BY <2>1, <3>2, <3>3, RowsRest, HandlerStarts DEF Renewing
  <2>. QED BY <2>2, <2>3
<1>3. CASE InsertSubscription(p) \/ InsertFree(p) \/ InsertTrial(p)
  <2>1. PICK r : Insert(p, r) /\ r \in Row /\ r.paidBy \notin Mandate
    <3>1. CASE InsertSubscription(p)
      <4> DEFINE r == [NewRow("str", h.plan, h.want, h.by) EXCEPT
                         !.after = IF h.want = "scheduled" THEN h.row ELSE 0,
                         !.due = h.want = "scheduled" /\ (h.row = 0 \/ rows[h.row].due)]
      <4>1. h.pc = "insert" /\ Insert(p, r)
        BY <3>1 DEF InsertSubscription, On
      <4>2. h.by \notin Mandate /\ h.want \in {"active", "scheduled"}
        BY <1>h, <4>1 DEF Held, Buying, HoldsOK, Refunding
      <4>3. r \in Row /\ r.paidBy = h.by
        BY <1>h, <4>2 DEF Local, NewRow, Row, Statuses, Live
      <4>. QED BY <4>1, <4>2, <4>3
    <3>2. CASE InsertFree(p)
      <4>1. NewRow("oid", Base, "active", None) \in Row /\ NewRow("oid", Base, "active", None).paidBy = None
        BY NewRowOK, SubscriptionAssumption DEF Statuses, Live
      <4>. QED BY <3>2, <4>1, NoMandate DEF InsertFree
    <3>3. CASE InsertTrial(p)
      <4>1. NewRow("oid", Base, "trial", None) \in Row /\ NewRow("oid", Base, "trial", None).paidBy = None
        BY NewRowOK, SubscriptionAssumption DEF Statuses, Live
      <4>2. [NewRow("oid", Base, "trial", None) EXCEPT !.trial = "on"] \in Row
            /\ [NewRow("oid", Base, "trial", None) EXCEPT !.trial = "on"].paidBy = None
        BY <4>1 DEF Row
      <4>. QED BY <3>3, <4>2, NoMandate DEF InsertTrial
    <3>. QED BY <1>3, <3>1, <3>2, <3>3
  <2>2. h.pc \in {"insert", "insertFree", "insertTrial"}
    BY <1>3 DEF InsertSubscription, InsertFree, InsertTrial, On
  <2>3. \/ rows' = Append(rows, r) /\ Goto(p, "inserted")
        \/ rows' = rows /\ Return(p)
    <3>1. h.flow # "promote"
      BY <1>h, <2>2 DEF Held, Planned
    <3>. QED BY <2>1, <3>1 DEF Insert, Write, NextRow
  <2>4. CASE rows' = Append(rows, r) /\ Goto(p, "inserted")
    BY <2>1, <2>2, <2>4, RowCame, HandlerAt DEF Planning, Renewing, Buying
  <2>5. CASE rows' = rows /\ Return(p)
    BY <2>5, RowsRest, HandlerEnds
  <2>. QED BY <2>3, <2>4, <2>5
<1>4. CASE Inserted(p)
  BY <1>4, RowsRest, HandlerEnds DEF Inserted
<1>5. CASE SaveCancelled(p)
  <2>1. "cancelled" \in Statuses \cap Closed /\ "cancelled" \notin {"scheduled", "trial", "expired"}
    BY DEF Statuses, Closed
  <2>. QED BY <1>5, <2>1, StatusGoes, HandlerEnds DEF SaveCancelled
<1>6. CASE ForceSave(p) \/ Activate(p)
  <2> DEFINE i == h.row
             r == [rows[i] EXCEPT !.status = "active", !.due = FALSE, !.after = 0]
  <2>1. /\ \/ h.pc = "forceSave" /\ Write(p, Started(i), "inserted")
           \/ h.pc = "activate" /\ Write(p, Started(i), "promoting")
        /\ Started(i) = [rows EXCEPT ![i] = r]
    BY <1>6 DEF ForceSave, Activate, On, Started
  <2>2. i \in Plain(rows)
    BY <1>h, <2>1 DEF Held, Planned
  <2>3. RowGoes(rows[i], r)
    BY <1>r, <2>2 DEF Plain, RowGoes, Backed, Row
  <2>4. RowsGo
    BY <2>1, <2>3, RowGone, RowsRest DEF Write
  <2>5. Plain(rows') = Plain(rows)
    <3>1. CASE rows' = rows
      BY <3>1
    <3>2. CASE rows' = [rows EXCEPT ![i] = r]
      BY <1>p, <2>3, <3>2 DEF RowGoes
    <3>. QED BY <2>1, <3>1, <3>2 DEF Write
  <2>6. HandlersGo
    <3>1. CASE Return(p)
      BY <3>1, HandlerEnds
    <3>2. CASE ~Return(p)
      <4>1. PICK pc : /\ Goto(p, pc)
                      /\ (h.pc = "forceSave" /\ pc = "inserted") \/ (h.pc = "activate" /\ pc = "promoting")
        <5>1. CASE h.pc = "forceSave"
          BY <1>h, <2>1, <3>2, <5>1 DEF Write, NextRow, Held, Planned
        <5>2. CASE h.pc = "activate"
          BY <1>h, <2>1, <3>2, <5>2 DEF Write, NextRow, Held, Planned
        <5>. QED BY <2>1, <5>1, <5>2
      <4>2. /\ handler'[p].pc = pc /\ handler'[p].flow = h.flow /\ handler'[p].todo = h.todo
            /\ handler'[p].row = h.row /\ handler'[p].by = h.by /\ Apart(p)
        BY <1>h, <4>1 DEF Goto, Local, Apart
      <4>3. Held(handler'[p], rows', mandate')
        BY <1>h, <2>5, <4>1, <4>2 DEF Held, Planned, Renewing, Buying
      <4>. QED BY <4>2, <4>3 DEF HandlersGo, Apart
    <3>. QED BY <3>1, <3>2
  <2>. QED BY <2>4, <2>6
<1>7. CASE PromoteNext(p)
  <2>1. rows' = rows /\ h.pc = "promoting"
    BY <1>7 DEF PromoteNext, On
  <2>2. CASE h.todo = {}
    BY <1>7, <2>1, <2>2, RowsRest, HandlerEnds DEF PromoteNext
  <2>3. CASE h.todo # {}
    <3>1. PICK i \in h.todo : handler' = [handler EXCEPT ![p].pc = "supersedeOld", ![p].row = i, ![p].todo = @ \ {i}]
      BY <1>7, <2>3 DEF PromoteNext
    <3>2. /\ handler'[p].pc = "supersedeOld" /\ handler'[p].flow = h.flow /\ handler'[p].todo = h.todo \ {i}
          /\ handler'[p].row = i /\ handler'[p].by = h.by /\ Apart(p)
      BY <1>h, <3>1 DEF Local, Apart
    <3>3. Held(handler'[p], rows', mandate')
      BY <1>h, <2>1, <3>2 DEF Held, Planned, Renewing, Buying
    <3>. QED BY <2>1, <3>2, <3>3, RowsRest DEF HandlersGo, Apart
  <2>. QED BY <2>2, <2>3
<1>8. CASE DowngradeTrial(p)
  <2>1. PICK i \in h.todo :
          IF Indexed(Downgraded(i)) THEN rows' = Downgraded(i) /\ handler' = [handler EXCEPT ![p].todo = @ \ {i}]
                                    ELSE Return(p) /\ rows' = rows
    BY <1>8 DEF DowngradeTrial
  <2> DEFINE r == [rows[i] EXCEPT !.status = "active", !.trial = "ended", !.due = FALSE]
  <2>2. h.pc = "downgrading" /\ Downgraded(i) = [rows EXCEPT ![i] = r]
    BY <1>8 DEF DowngradeTrial, On, Downgraded
  <2>3. i \in Plain(rows) /\ h.flow = "expire"
    BY <1>h, <2>1, <2>2 DEF Held, Planned
  <2>4. RowGoes(rows[i], r)
    BY <1>r, <2>3 DEF Plain, RowGoes, Backed, Row
  <2>5. CASE Return(p) /\ rows' = rows
    BY <2>5, RowsRest, HandlerEnds
  <2>6. CASE rows' = Downgraded(i) /\ handler' = [handler EXCEPT ![p].todo = @ \ {i}]
    <3>1. Plain(rows') = Plain(rows)
      BY <1>p, <2>2, <2>4, <2>6 DEF RowGoes
    <3>2. /\ handler'[p].pc = h.pc /\ handler'[p].flow = h.flow /\ handler'[p].todo = h.todo \ {i} /\ Apart(p)
      BY <1>h, <2>6 DEF Local, Apart
    <3>3. Held(handler'[p], rows', mandate')
      BY <1>h, <2>2, <2>3, <3>1, <3>2 DEF Held, Planned, Renewing, Buying
    <3>. QED BY <2>2, <2>4, <2>6, <3>2, <3>3, RowGone DEF HandlersGo, Apart
  <2>. QED BY <2>1, <2>5, <2>6
<1>9. CASE ExpireLapsed(p)
  <2>1. PICK S : rows' = SetStatus(S, "expired") /\ \A i \in S : rows[i].status = "active"
    BY <1>9 DEF ExpireLapsed
  <2>2. "expired" \in Statuses \cap Closed /\ "expired" \notin {"scheduled", "trial"}
    BY DEF Statuses, Closed
  <2>3. RowsGo
    BY <2>1, <2>2, StatusGoes
  <2>. QED BY <1>9, <2>3, HandlerEnds DEF ExpireLapsed
<1>. QED BY <1>1, <1>2, <1>3, <1>4, <1>5, <1>6, <1>7, <1>8, <1>9 DEF Step

(* ... every call,                                                         *)
LEMMA SubscriptionCallsGo ==
  ASSUME RowsOK, HandlersOK, MandateInv, mandate' = mandate, NEW p \in Procs, Call(p)
  PROVE  RowsGo /\ HandlersGo
<1>. p \in Everyone
  BY DEF Everyone
<1>0. rows' = rows
  BY DEF Call, Subscribe, Heal, StartTrial, Cancel, CancelScheduled, ForceActivate, Promote, Expire
<1>1. RowsGo
  BY <1>0, RowsRest
<1>2. \A i \in DOMAIN rows : rows[i].status \in {"scheduled", "trial"} => i \in Plain(rows')
  BY <1>0 DEF MandateInv, Backed, Plain
<1>3. CASE \E plan \in Plans \cap traffic, want \in {"active", "scheduled"} : Subscribe(p, plan, want)
  <2>1. PICK plan, want : Begin(p, "subscribe", [Rest EXCEPT !.pc = "subscribe", !.plan = plan, !.want = want])
    BY <1>3 DEF Subscribe
  <2>2. Apart(p) /\ handler'[p] = [[Rest EXCEPT !.pc = "subscribe", !.plan = plan, !.want = want] EXCEPT !.flow = "subscribe"]
    BY <2>1, Began
  <2>3. handler'[p].flow = "subscribe" /\ handler'[p].pc = "subscribe" /\ handler'[p].by = None
    BY <2>2 DEF Rest
  <2>. QED BY <1>1, <2>2, <2>3, HandlerStarts, NoMandate DEF Renewing
<1>4. CASE Heal(p) \/ StartTrial(p)
  <2>1. PICK flow \in {"heal", "trial"}, pc \in {"insertFree", "supersedeOld"} : Begin(p, flow, [Rest EXCEPT !.pc = pc])
    BY <1>4 DEF Heal, StartTrial
  <2>2. Apart(p) /\ handler'[p] = [[Rest EXCEPT !.pc = pc] EXCEPT !.flow = flow]
    BY <2>1, Began
  <2>3. handler'[p].flow = flow /\ handler'[p].pc = pc /\ handler'[p].by = None
    BY <2>2 DEF Rest
  <2>. QED BY <1>1, <2>2, <2>3, HandlerStarts, NoMandate DEF Renewing
<1>5. CASE Cancel(p) \/ CancelScheduled(p)
  <2>0. PICK flow \in {"cancel", "cancelScheduled"} : \E i : Begin(p, flow, [Rest EXCEPT !.pc = "saveCancelled", !.row = i])
    BY <1>5 DEF Cancel, CancelScheduled
  <2>1. PICK i : Begin(p, flow, [Rest EXCEPT !.pc = "saveCancelled", !.row = i])
    BY <2>0
  <2>2. Apart(p) /\ handler'[p] = [[Rest EXCEPT !.pc = "saveCancelled", !.row = i] EXCEPT !.flow = flow]
    BY <2>1, Began
  <2>3. handler'[p].flow = flow /\ handler'[p].pc = "saveCancelled"
    BY <2>2 DEF Rest
  <2>. QED BY <1>1, <2>2, <2>3, HandlerStarts DEF Renewing, Buying
<1>6. CASE ForceActivate(p)
  <2>1. PICK i \in DOMAIN rows : rows[i].status = "scheduled" /\ Begin(p, "force", [Rest EXCEPT !.pc = "supersedeOld", !.row = i])
    BY <1>6 DEF ForceActivate
  <2>2. Apart(p) /\ handler'[p] = [[Rest EXCEPT !.pc = "supersedeOld", !.row = i] EXCEPT !.flow = "force"]
    BY <2>1, Began
  <2>3. handler'[p].flow = "force" /\ handler'[p].pc = "supersedeOld" /\ handler'[p].by = None /\ handler'[p].row = i
    BY <2>2 DEF Rest
  <2>4. Held(handler'[p], rows', mandate')
    BY <1>2, <2>1, <2>3, NoMandate DEF Held, Planned, Renewing
  <2>. QED BY <1>1, <2>2, <2>4 DEF HandlersGo, Apart
<1>7. CASE Promote(p) \/ Expire(p)
  <2>1. PICK S \in SUBSET DOMAIN rows, flow \in {"promote", "expire"}, pc \in {"promoting", "downgrading"} :
          /\ (flow = "promote" /\ pc = "promoting") \/ (flow = "expire" /\ pc = "downgrading")
          /\ \A i \in S : rows[i].status \in {"scheduled", "trial"}
          /\ Begin(p, flow, [Rest EXCEPT !.pc = pc, !.todo = S])
    <3>1. CASE Promote(p)
      <4> DEFINE S == {i \in DOMAIN rows : rows[i].status = "scheduled" /\ rows[i].due}
      <4>1. Begin(p, "promote", [Rest EXCEPT !.pc = "promoting", !.todo = S])
        BY <3>1 DEF Promote
      <4>2. S \in SUBSET DOMAIN rows /\ \A i \in S : rows[i].status \in {"scheduled", "trial"}
        OBVIOUS
      <4>. QED BY <4>1, <4>2
    <3>2. CASE Expire(p)
      <4> DEFINE S == {i \in DOMAIN rows : rows[i].status = "trial" /\ rows[i].due}
      <4>1. Begin(p, "expire", [Rest EXCEPT !.pc = "downgrading", !.todo = S])
        BY <3>2 DEF Expire
      <4>2. S \in SUBSET DOMAIN rows /\ \A i \in S : rows[i].status \in {"scheduled", "trial"}
        OBVIOUS
      <4>. QED BY <4>1, <4>2
    <3>. QED BY <1>7, <3>1, <3>2
  <2>2. Apart(p) /\ handler'[p] = [[Rest EXCEPT !.pc = pc, !.todo = S] EXCEPT !.flow = flow]
    BY <2>1, Began
  <2>3. handler'[p].flow = flow /\ handler'[p].pc = pc /\ handler'[p].by = None /\ handler'[p].todo = S
    BY <2>2 DEF Rest
  <2>4. S \subseteq Plain(rows')
    BY <1>2, <2>1
  <2>5. Held(handler'[p], rows', mandate')
    BY <2>1, <2>3, <2>4, NoMandate DEF Held, Planned, Renewing
  <2>. QED BY <1>1, <2>2, <2>5 DEF HandlersGo, Apart
<1>. QED BY <1>3, <1>4, <1>5, <1>6, <1>7 DEF Call

(* ... deaths, and periods that end.                                       *)
LEMMA SubscriptionNextGoes ==
  ASSUME RowsOK, HandlersOK, MandateInv, mandate' = mandate, SubscriptionNext
  PROVE  RowsGo /\ HandlersGo
<1>1. CASE \E p \in Procs : Step(p) \/ Call(p)
  BY <1>1, SubscriptionsGo, SubscriptionCallsGo
<1>2. CASE \E p \in Procs \cup {Worker} : Crash(p)
  BY <1>2, RowsRest, HandlerEnds DEF Crash, Everyone
<1>3. CASE \E i \in DOMAIN rows : PeriodEnds(i)
  <2>1. PICK i \in DOMAIN rows : PeriodEnds(i)
    BY <1>3
  <2>2. \A j \in DOMAIN rows : rows[j] \in Row /\ Backed(rows[j], mandate)
    BY RowTyped DEF MandateInv
  <2>3. ASSUME NEW j \in DOMAIN rows PROVE RowGoes(rows[j], rows'[j])
    <3>1. rows'[j] = rows[j] \/ rows'[j] = [rows[j] EXCEPT !.due = TRUE]
      BY <2>1 DEF PeriodEnds
    <3>2. /\ rows'[j].status = rows[j].status /\ rows'[j].paidBy = rows[j].paidBy /\ rows'[j].until = rows[j].until
      BY <2>2, <3>1 DEF Row
    <3>. QED BY <2>2, <3>2 DEF RowGoes, Backed
  <2>4. DOMAIN rows' = DOMAIN rows
    BY <2>1 DEF PeriodEnds
  <2>. QED BY <2>1, <2>3, <2>4, HandlersRest DEF RowsGo, PeriodEnds
<1>. QED BY <1>1, <1>2, <1>3 DEF SubscriptionNext

(* So do the operations of checkout,                                       *)
LEMMA CheckoutGoes ==
  ASSUME RowsOK, HandlersOK, MandateInv, mandate' = mandate, CheckoutNext
  PROVE  RowsGo /\ HandlersGo
<1>c. ASSUME NEW p \in Procs, CheckoutCall(p) PROVE RowsGo /\ HandlersGo
  <2>. p \in Everyone
    BY DEF Everyone
  <2>1. RowsGo
    BY <1>c, RowsRest DEF CheckoutCall, CreateOrder, IssueLink, CancelLink, Confirm, Captured, RaiseUpgrade, UpgradeForFree, Downgrade
  <2>2. CASE handler' = handler
    BY <2>1, <2>2, HandlersRest
  <2>3. CASE handler' # handler
    <3>o. CASE \E o \in Payments : \/ CreateOrder(p, o) \/ IssueLink(p, o) \/ CancelLink(p, o)
                                  \/ Confirm(p, o) \/ Captured(p, o) \/ RaiseUpgrade(p, o)
      <4>0. PICK o \in Payments : \/ CreateOrder(p, o) \/ IssueLink(p, o) \/ CancelLink(p, o)
                                \/ Confirm(p, o) \/ Captured(p, o) \/ RaiseUpgrade(p, o)
        BY <3>o
      <4>1. CASE CreateOrder(p, o)
        <5> DEFINE h == [Rest EXCEPT !.pc = "insertPayment", !.by = o]
        <5>1. Begin(p, "order", h)
          BY <4>1 DEF CreateOrder
        <5>2. h.pc = "insertPayment" /\ DOMAIN h = DOMAIN Rest
          BY DEF Rest
        <5> HIDE DEF h
        <5>. QED BY <2>1, <5>1, <5>2, CallGoes DEF Renewing, Buying
      <4>2. CASE IssueLink(p, o)
        <5> DEFINE h == [Rest EXCEPT !.pc = "insertPayment", !.by = o]
        <5>1. Begin(p, "link", h)
          BY <4>2 DEF IssueLink
        <5>2. h.pc = "insertPayment" /\ DOMAIN h = DOMAIN Rest
          BY DEF Rest
        <5> HIDE DEF h
        <5>. QED BY <2>1, <5>1, <5>2, CallGoes DEF Renewing, Buying
      <4>3. CASE CancelLink(p, o)
        <5> DEFINE h == [Rest EXCEPT !.pc = "closeLink", !.by = o]
        <5>1. Begin(p, "cancelLink", h)
          BY <4>3 DEF CancelLink
        <5>2. h.pc = "closeLink" /\ DOMAIN h = DOMAIN Rest
          BY DEF Rest
        <5> HIDE DEF h
        <5>. QED BY <2>1, <5>1, <5>2, CallGoes DEF Renewing, Buying
      <4>4. CASE Confirm(p, o)
        <5> DEFINE h == [Rest EXCEPT !.pc = "capture", !.by = o]
        <5>1. Begin(p, "confirm", h)
          BY <4>4 DEF Confirm
        <5>2. h.pc = "capture" /\ DOMAIN h = DOMAIN Rest
          BY DEF Rest
        <5> HIDE DEF h
        <5>. QED BY <2>1, <5>1, <5>2, CallGoes DEF Renewing, Buying
      <4>5. CASE Captured(p, o)
        <5> DEFINE h == [Rest EXCEPT !.pc = "capture", !.by = o]
                   type == IF KindOf[o] = "link" THEN "linkPaid" ELSE "captured"
        <5>1. Ingest(p, Event(type, o, 0), h)
          BY <2>3, <4>5 DEF Captured, Dispatched
        <5>2. Begin(p, type, h)
          BY <5>1 DEF Ingest, Event
        <5>3. h.pc = "capture" /\ DOMAIN h = DOMAIN Rest
          BY DEF Rest
        <5> HIDE DEF h
        <5>. QED BY <2>1, <5>2, <5>3, CallGoes DEF Renewing, Buying
      <4>6. CASE RaiseUpgrade(p, o)
        <5> DEFINE h == [Rest EXCEPT !.pc = "insertPayment", !.by = o, !.row = CurrentRow]
        <5>1. Begin(p, "upgrade", h)
          BY <4>6 DEF RaiseUpgrade
        <5>2. h.pc = "insertPayment" /\ DOMAIN h = DOMAIN Rest
          BY DEF Rest
        <5> HIDE DEF h
        <5>. QED BY <2>1, <5>1, <5>2, CallGoes DEF Renewing, Buying
      <4>. QED BY <4>0, <4>1, <4>2, <4>3, <4>4, <4>5, <4>6
    <3>p. CASE \E plan \in Plans : UpgradeForFree(p, plan) \/ Downgrade(p, plan)
      <4>0. PICK plan \in Plans : UpgradeForFree(p, plan) \/ Downgrade(p, plan)
        BY <3>p
      <4>1. CASE UpgradeForFree(p, plan)
        <5> DEFINE h == [Rest EXCEPT !.pc = "upgrading", !.row = CurrentRow, !.plan = plan]
        <5>1. Begin(p, "upgradeFree", h)
          BY <4>1 DEF UpgradeForFree
        <5>2. h.pc = "upgrading" /\ DOMAIN h = DOMAIN Rest
          BY DEF Rest
        <5> HIDE DEF h
        <5>. QED BY <2>1, <5>1, <5>2, CallGoes DEF Renewing, Buying
      <4>2. CASE Downgrade(p, plan)
        <5> DEFINE h == [Rest EXCEPT !.pc = "insertScheduled", !.row = CurrentRow, !.plan = plan]
        <5>1. Begin(p, "downgrade", h)
          BY <4>2 DEF Downgrade
        <5>2. h.pc = "insertScheduled" /\ DOMAIN h = DOMAIN Rest
          BY DEF Rest
        <5> HIDE DEF h
        <5>. QED BY <2>1, <5>1, <5>2, CallGoes DEF Renewing, Buying
      <4>. QED BY <4>0, <4>1, <4>2
    <3>. QED BY <1>c, <3>o, <3>p DEF CheckoutCall
  <2>. QED BY <2>2, <2>3
<1>s. ASSUME NEW p \in Procs, CheckoutStep(p) PROVE RowsGo /\ HandlersGo
  <2>. p \in Everyone
    BY DEF Everyone
  <2> DEFINE h == handler[p]
  <2>h. h \in Local /\ HoldsOK(h, DOMAIN rows) /\ Held(h, rows, mandate)
    BY HolderOK DEF MandateInv
  <2>1. CASE InsertPayment(p) \/ CreateLink(p) \/ SaveLink(p) \/ CloseLink(p) \/ LinkRow(p)
    <3>1. rows' = rows /\ (Return(p) \/ \E pc \in {"createLink", "saveLink"} : Goto(p, pc))
      BY <2>1 DEF InsertPayment, CreateLink, SaveLink, CloseLink, LinkRow
    <3>2. CASE Return(p)
      BY <3>1, <3>2, RowsRest, HandlerEnds
    <3>3. CASE ~Return(p)
      <4>1. h.pc \in {"insertPayment", "createLink"}
        BY <2>1, <3>3 DEF InsertPayment, CreateLink, SaveLink, CloseLink, LinkRow, On
      <4>. QED BY <3>1, <3>3, <4>1, RowsRest, HandlerAt DEF Planning, Renewing, Buying
    <3>. QED BY <3>2, <3>3
  <2>2. CASE Capture(p)
    <3>1. rows' = rows /\ h.pc = "capture" /\ h.by \in Payments
      BY <2>h, <2>2 DEF Capture, On, HoldsOK
    <3>2. CASE Return(p)
      BY <3>1, <3>2, RowsRest, HandlerEnds
    <3>3. CASE ~Return(p)
      <4>0. PICK pc \in {"applying", "subscribe"} : \E plan : handler' = [handler EXCEPT ![p].pc = pc, ![p].plan = plan]
        BY <2>2, <3>3 DEF Capture
      <4>1. PICK plan : handler' = [handler EXCEPT ![p].pc = pc, ![p].plan = plan]
        BY <4>0
      <4>2. Apart(p) /\ handler'[p].pc = pc /\ handler'[p].flow = h.flow /\ handler'[p].by = h.by
        BY <2>h, <4>1 DEF Apart, Local
      <4>3. h.flow \notin {"promote", "force", "expire"}
        BY <2>h, <3>1 DEF Held, Planned
      <4>. QED BY <3>1, <4>2, <4>3, RowsRest, HandlerStarts, NoMandate DEF Renewing
    <3>. QED BY <3>2, <3>3
  <2>3. CASE ClaimUpgrade(p)
    <3>1. rows' = rows /\ h.pc = "applying"
      BY <2>3 DEF ClaimUpgrade, On
    <3>2. CASE Return(p)
      BY <3>1, <3>2, RowsRest, HandlerEnds
    <3>3. CASE ~Return(p)
      <4>1. handler' = [handler EXCEPT ![p].pc = "upgrading", ![p].row = CurrentRow]
        BY <2>3, <3>3 DEF ClaimUpgrade
      <4>2. Apart(p) /\ handler'[p].pc = "upgrading" /\ handler'[p].flow = h.flow
        BY <2>h, <4>1 DEF Apart, Local
      <4>. QED BY <3>1, <4>2, RowsRest, HandlerGoes DEF Planning, Renewing, Buying
    <3>. QED BY <3>2, <3>3
  <2>4. CASE ApplyUpgrade(p)
    <3> DEFINE r == [rows[h.row] EXCEPT !.plan = h.plan]
    <3>1. rows' = [rows EXCEPT ![h.row] = r] /\ Return(p)
      BY <2>4 DEF ApplyUpgrade
    <3>2. ASSUME h.row \in DOMAIN rows PROVE RowGoes(rows[h.row], r)
      <4>1. rows[h.row] \in Row /\ Backed(rows[h.row], mandate)
        BY <3>2, RowTyped DEF MandateInv
      <4>2. r.status = rows[h.row].status /\ r.paidBy = rows[h.row].paidBy /\ r.until = rows[h.row].until
        BY <4>1 DEF Row
      <4>. QED BY <4>1, <4>2 DEF RowGoes, Backed
    <3>. QED BY <3>1, <3>2, RowGone, HandlerEnds
  <2>5. CASE InsertScheduled(p)
    <3> DEFINE r == [NewRow("oid", h.plan, "scheduled", None) EXCEPT !.after = h.row, !.due = rows[h.row].due]
    <3>1. h.pc = "insertScheduled" /\ Insert(p, r)
      BY <2>5 DEF InsertScheduled, On
    <3>2. h.row \in DOMAIN rows /\ h.plan \in Plans /\ h.row \in Nat
      BY <2>h, <3>1 DEF HoldsOK, Local
    <3>3. rows[h.row].due \in BOOLEAN
      BY <3>2, RowTyped DEF Row
    <3>4. NewRow("oid", h.plan, "scheduled", None) \in Row /\ NewRow("oid", h.plan, "scheduled", None).paidBy = None
      BY <3>2, NewRowOK DEF Statuses
    <3>5. r \in Row /\ r.paidBy \notin Mandate
      BY <3>2, <3>3, <3>4, NoMandate DEF Row
    <3>6. h.flow # "promote"
      BY <2>h, <3>1 DEF Held, Planned
    <3>7. (rows' = Append(rows, r) /\ Goto(p, "inserted")) \/ (rows' = rows /\ Return(p))
      BY <3>1, <3>6 DEF Insert, Write, NextRow
    <3>. QED BY <3>1, <3>5, <3>7, RowCame, RowsRest, HandlerAt, HandlerEnds DEF Planning, Renewing, Buying
  <2>. QED BY <1>s, <2>1, <2>2, <2>3, <2>4, <2>5 DEF CheckoutStep
<1>1. CASE \E p \in Procs : CheckoutStep(p) \/ CheckoutCall(p)
  BY <1>1, <1>c, <1>s
<1>2. CASE \E o \in Payments : PaymentFailed(o) \/ Pay(o) \/ AttemptFails(o) \/ LinkExpires(o)
  <2>1. rows' = rows /\ handler' = handler
    BY <1>2 DEF PaymentFailed, Dispatched, Pay, AttemptFails, LinkExpires, subVars
  <2>. QED BY <2>1, RowsRest, HandlersRest
<1>3. CASE SubscriptionNext /\ UNCHANGED payVars
  BY <1>3, SubscriptionNextGoes
<1>. QED BY <1>1, <1>2, <1>3 DEF CheckoutNext

(* The row of a mandate is one of its rows.                                *)
LEMMA RowOfMandate ==
  ASSUME RowsOK, NEW m, StatusOf(m) # "none"
  PROVE  /\ RowOf(m) \in DOMAIN rows /\ rows[RowOf(m)].paidBy = m /\ StatusOf(m) = rows[RowOf(m)].status
         /\ {RowOf(m)} \ {0} = {RowOf(m)}
<1>1. RowOf(m) # 0 /\ StatusOf(m) = rows[RowOf(m)].status
  BY DEF StatusOf
<1>2. RowOf(m) \in {i \in DOMAIN rows : rows[i].paidBy = m}
  BY <1>1, NewestIn DEF RowOf
<1>. QED BY <1>1, <1>2

(* Events about mandates write only rows that are not over,                *)
LEMMA MandateStepsGo ==
  ASSUME RowsOK, HandlersOK, MandOK, MandateInv, NEW p \in Procs, MandateStep(p)
  PROVE  RowsGo /\ HandlersGo
<1>. p \in Everyone
  BY DEF Everyone
<1> DEFINE h == handler[p]
           i == h.row
<1>h. h \in Local /\ HoldsOK(h, DOMAIN rows) /\ Held(h, rows, mandate)
  BY HolderOK DEF MandateInv
<1>m. mandate' = mandate
  BY DEF MandateStep, InsertPending, ActivateMandate, SupersedeOthers, BookCharge, Renew, Answer, EnterGrace, ScheduleExpiry,
         mandateVars
<1>r. \A j \in DOMAIN rows : rows[j] \in Row /\ Backed(rows[j], mandate)
  BY RowTyped DEF MandateInv
<1>1. CASE InsertPending(p)
  <2> DEFINE m == h.by
             r == NewRow("oid", MandatePlan[m], "pending", m)
  <2>1. h.pc = "insertPending" /\ rows' = Append(rows, r) /\ Return(p)
    BY <1>1 DEF InsertPending, On
  <2>2. m \in Bought /\ MandatePlan[m] \in Plans
    BY <1>h, <2>1, MandateAssumption DEF HoldsOK
  <2>3. r \in Row /\ r.status = "pending" /\ r.until = 0
    BY <2>2, NewRowOK DEF Statuses, NewRow
  <2>. QED BY <2>1, <2>3, RowCame, HandlerEnds
<1>2. CASE ActivateMandate(p) \/ Renew(p)
  <2>0. h.pc \in {"activating", "renewing"}
    BY <1>2 DEF ActivateMandate, Renew, On
  <2>1. i \in DOMAIN rows /\ rows[i].paidBy = h.by /\ h.by \in Mandate /\ h.n <= mandate[h.by].cycle /\ h.n \in Nat
    BY <1>h, <2>0 DEF Held, Renewing, Local
  <2>2. CASE rows' = rows
    <3>1. Return(p) \/ \E pc \in {"replacing", "answering"} : Goto(p, pc)
      BY <1>2 DEF ActivateMandate, Renew, Set
    <3>. QED BY <2>0, <2>2, <3>1, RowsRest, HandlerEnds, HandlerAt DEF Planning, Renewing, Buying
  <2>3. CASE rows' # rows
    <3> DEFINE due == IF h.n = 0 THEN rows[i].due ELSE h.n < mandate[rows[i].paidBy].cycle
               until == IF h.n = 0 THEN rows[i].until ELSE h.n
               r == [rows[i] EXCEPT !.status = "active", !.grace = 0, !.until = until, !.due = due]
    <3>1. PICK pc \in {"replacing", "answering"} : rows' = Renewed(i, h.n) /\ Goto(p, pc) /\ rows[i].status \notin Closed
      BY <1>2, <2>3 DEF ActivateMandate, Renew, Set, Renewable, PeriodPaid
    <3>2. rows' = [rows EXCEPT ![i] = r]
      BY <3>1 DEF Renewed
    <3>3. until <= mandate[h.by].cycle
      BY <1>r, <2>1 DEF Backed
    <3>4. r.status = "active" /\ r.until = until /\ r.paidBy = rows[i].paidBy
      <4> HIDE DEF until, due
      <4>. QED BY <1>r, <2>1 DEF Row
    <3>5. RowGoes(rows[i], r)
      <4> HIDE DEF until, r
      <4>. QED BY <2>1, <3>1, <3>3, <3>4 DEF RowGoes, Backed
    <3> HIDE DEF r
    <3>. QED BY <2>0, <3>1, <3>2, <3>5, RowGone, HandlerAt DEF Planning, Renewing, Buying
  <2>. QED BY <2>2, <2>3
<1>3. CASE SupersedeOthers(p)
  <2>1. "superseded" \in Statuses \cap Closed /\ "superseded" \notin {"scheduled", "trial", "expired"}
    BY DEF Statuses, Closed
  <2>. QED BY <1>3, <2>1, StatusGoes, HandlerEnds DEF SupersedeOthers
<1>4. CASE BookCharge(p)
  <2>1. rows' = rows /\ h.pc = "booking" /\ (Return(p) \/ Goto(p, "renewing"))
    BY <1>4 DEF BookCharge, On
  <2>2. CASE Return(p)
    BY <2>1, <2>2, RowsRest, HandlerEnds
  <2>3. CASE Goto(p, "renewing")
    <3>1. /\ handler'[p].pc = "renewing" /\ handler'[p].flow = h.flow /\ handler'[p].by = h.by
          /\ handler'[p].row = h.row /\ handler'[p].n = h.n /\ Apart(p)
      BY <1>h, <2>3 DEF Goto, Local, Apart
    <3>2. Held(handler'[p], rows', mandate')
      BY <1>h, <1>m, <2>1, <3>1 DEF Held, Planned, Renewing, Buying
    <3>. QED BY <2>1, <3>1, <3>2, RowsRest DEF HandlersGo, Apart
  <2>. QED BY <2>1, <2>2, <2>3
<1>5. CASE EnterGrace(p)
  <2> DEFINE g == day + Grace
             r == [rows[i] EXCEPT !.status = "grace_period", !.grace = g]
  <2>1. h.pc = "enterGrace"
    BY <1>5 DEF EnterGrace, On
  <2>2. CASE rows[i].status \notin Closed
    <3>1. rows' = [rows EXCEPT ![i] = r] /\ handler' = [handler EXCEPT ![p].pc = "schedule", ![p].n = day + Grace]
      BY <1>5, <2>2 DEF EnterGrace
    <3>2. i \in DOMAIN rows => RowGoes(rows[i], r)
      <4> HIDE DEF g
      <4>1. i \in DOMAIN rows => r.status = "grace_period" /\ r.paidBy = rows[i].paidBy /\ r.until = rows[i].until
        BY <1>r DEF Row
      <4> HIDE DEF r
      <4>. QED BY <1>r, <2>2, <4>1 DEF RowGoes, Backed
    <3>3. Apart(p) /\ handler'[p].pc = "schedule" /\ handler'[p].flow = h.flow
      BY <1>h, <3>1 DEF Apart, Local
    <3> HIDE DEF r
    <3>. QED BY <2>1, <3>1, <3>2, <3>3, RowGone, HandlerGoes DEF Planning, Renewing, Buying
  <2>3. CASE rows[i].status \in Closed
    BY <1>5, <2>3, RowsRest, HandlerEnds DEF EnterGrace
  <2>. QED BY <2>2, <2>3
<1>6. CASE Answer(p) \/ ScheduleExpiry(p)
  BY <1>6, RowsRest, HandlerEnds DEF Answer, ScheduleExpiry
<1>. QED BY <1>1, <1>2, <1>3, <1>4, <1>5, <1>6 DEF MandateStep

(* ... found through the mandate they are about,                           *)
LEMMA MandateCallsGo ==
  ASSUME RowsOK, HandlersOK, MandOK, MandateInv, NEW p \in Procs, NEW m \in Mandate,
         CreateMandate(p, m) \/ Activated(p, m) \/ Charged(p, m) \/ Halted(p, m)
  PROVE  RowsGo /\ HandlersGo
<1>. p \in Everyone
  BY DEF Everyone
<1>1. RowsGo /\ rows' = rows
  BY RowsRest DEF CreateMandate, Activated, Charged, Halted
<1>2. CASE handler' = handler
  BY <1>1, <1>2, HandlersRest
<1>3. CASE handler' # handler
  <2>1. CASE CreateMandate(p, m)
    <3> DEFINE h == [Rest EXCEPT !.pc = "insertPending", !.by = m]
    <3>1. Begin(p, "mandate", h)
      BY <2>1 DEF CreateMandate
    <3>2. h.pc = "insertPending" /\ DOMAIN h = DOMAIN Rest
      BY DEF Rest
    <3> HIDE DEF h
    <3>. QED BY <1>1, <3>1, <3>2, CallGoes DEF Renewing, Buying
  <2>2. CASE Halted(p, m)
    <3> DEFINE h == [Rest EXCEPT !.pc = "enterGrace", !.by = m, !.row = RowOf(m)]
    <3>1. Begin(p, "halted", h)
      BY <1>3, <2>2 DEF Halted, Ingest, Dispatched, Event
    <3>2. h.pc = "enterGrace" /\ DOMAIN h = DOMAIN Rest
      BY DEF Rest
    <3> HIDE DEF h
    <3>. QED BY <1>1, <3>1, <3>2, CallGoes DEF Renewing, Buying
  <2>3. CASE Activated(p, m)
    <3>1. PICK n \in 0..LastCycle :
            /\ Ingest(p, Event("activated", m, n), [Rest EXCEPT !.pc = "activating", !.by = m, !.row = RowOf(m), !.n = n])
            /\ StatusOf(m) # "none" /\ mandate' = mandate
      BY <1>3, <2>3 DEF Activated, Dispatched, mandateVars
    <3>2. Event("activated", m, n) \in sent
          /\ Begin(p, "activated", [Rest EXCEPT !.pc = "activating", !.by = m, !.row = RowOf(m), !.n = n])
      BY <3>1 DEF Ingest, Event
    <3>3. n \in 0..mandate[m].cycle
      BY <3>2 DEF MandateInv, Announced, Event
    <3>4. Apart(p) /\ handler'[p] = [[Rest EXCEPT !.pc = "activating", !.by = m, !.row = RowOf(m), !.n = n] EXCEPT !.flow = "activated"]
      BY <3>2, Began
    <3>5. /\ handler'[p].pc = "activating" /\ handler'[p].flow = "activated" /\ handler'[p].by = m
          /\ handler'[p].row = RowOf(m) /\ handler'[p].n = n
      BY <3>4 DEF Rest
    <3>6. n <= mandate[m].cycle
      BY <3>3
    <3>7. Held(handler'[p], rows', mandate')
      BY <1>1, <3>1, <3>5, <3>6, RowOfMandate DEF Held, Planned, Buying
    <3>. QED BY <1>1, <3>4, <3>7 DEF HandlersGo, Apart
  <2>4. CASE Charged(p, m)
    <3>1. PICK n \in 1..LastCycle :
            /\ Ingest(p, Event("charged", m, n), [Rest EXCEPT !.pc = "booking", !.by = m, !.row = RowOf(m), !.n = n, !.was = StatusOf(m)])
            /\ StatusOf(m) # "none" /\ mandate' = mandate
      BY <1>3, <2>4 DEF Charged, Dispatched, mandateVars
    <3>2. Event("charged", m, n) \in sent
          /\ Begin(p, "charged", [Rest EXCEPT !.pc = "booking", !.by = m, !.row = RowOf(m), !.n = n, !.was = StatusOf(m)])
      BY <3>1 DEF Ingest, Event
    <3>3. n \in 0..mandate[m].cycle
      BY <3>2 DEF MandateInv, Announced, Event
    <3>4. Apart(p) /\ handler'[p] = [[Rest EXCEPT !.pc = "booking", !.by = m, !.row = RowOf(m), !.n = n, !.was = StatusOf(m)] EXCEPT !.flow = "charged"]
      BY <3>2, Began
    <3>5. /\ handler'[p].pc = "booking" /\ handler'[p].flow = "charged" /\ handler'[p].by = m
          /\ handler'[p].row = RowOf(m) /\ handler'[p].n = n
      BY <3>4 DEF Rest
    <3>6. n <= mandate[m].cycle
      BY <3>3
    <3>7. Held(handler'[p], rows', mandate')
      BY <1>1, <3>1, <3>5, <3>6, RowOfMandate DEF Held, Planned, Buying
    <3>. QED BY <1>1, <3>4, <3>7 DEF HandlersGo, Apart
  <2>. QED BY <2>1, <2>2, <2>3, <2>4
<1>. QED BY <1>2, <1>3

(* ... and one that ends a grace finds it over, or the mandate.            *)
LEMMA MandateNextGoes ==
  ASSUME RowsOK, HandlersOK, MandOK, MandateInv, MandateNext
  PROVE  RowsGo /\ HandlersGo
<1>1. CASE \E p \in Procs : MandateStep(p) \/ MandateCall(p)
  BY <1>1, MandateStepsGo, MandateCallsGo DEF MandateCall
<1>2. CASE \E m \in Mandate : \/ CancelMandate(m) \/ PauseMandate(m) \/ ResumeMandate(m)
                              \/ Authorise(m) \/ Charge(m) \/ GiveUp(m) \/ Complete(m)
  <2>1. rows' = rows /\ handler' = handler
    BY <1>2 DEF CancelMandate, PauseMandate, ResumeMandate, Ask, Authorise, Charge, GiveUp, Complete, Gives, subVars
  <2>. QED BY <2>1, RowsRest, HandlersRest
<1>3. CASE \E m \in Mandate : Marked(m)
  <2>1. PICK m \in Mandate : Marked(m)
    BY <1>3
  <2>2. handler' = handler
    BY <2>1 DEF Marked, Mark, Dispatched
  <2>3. CASE rows' = rows
    BY <2>2, <2>3, RowsRest, HandlersRest
  <2>4. CASE rows' # rows
    <3>1. PICK status \in {"cancelled", "paused", "active", "expired"} :
            /\ rows' = SetStatus({RowOf(m)} \ {0}, status)
            /\ StatusOf(m) # "none" /\ (StatusOf(m) \in Closed => status = "cancelled")
            /\ status = "expired" => Event("completed", m, 0) \in sent
      <4>1. CASE Mark(m, "cancelled", Statuses \ {"cancelled"}, "cancelled")
        BY <2>4, <4>1 DEF Mark, Statuses, Live, Closed
      <4>2. CASE Mark(m, "paused", Statuses \ (Closed \cup {"paused"}), "paused")
        BY <2>4, <4>2 DEF Mark, Statuses, Live, Closed
      <4>3. CASE Mark(m, "resumed", {"paused"}, "active")
        BY <2>4, <4>3 DEF Mark, Closed
      <4>4. CASE Mark(m, "completed", Statuses \ Closed, "expired")
        BY <2>4, <4>4 DEF Mark, Dispatched, Statuses, Live, Closed
      <4>. QED BY <2>1, <4>1, <4>2, <4>3, <4>4 DEF Marked
    <3>2. /\ RowOf(m) \in DOMAIN rows /\ rows[RowOf(m)].paidBy = m /\ StatusOf(m) = rows[RowOf(m)].status
          /\ rows' = SetStatus({RowOf(m)}, status)
      BY <3>1, RowOfMandate
    <3>3. status = "expired" => mandate[m].status = "ended"
      BY <3>1 DEF MandateInv, Announced, Event
    <3>4. status \in Statuses /\ status \notin {"scheduled", "trial"} /\ (rows[RowOf(m)].status \in Closed => status \in Closed)
      BY <3>1, <3>2 DEF Statuses, Live, Closed
    <3>7. RowsGo
      BY <3>2, <3>3, <3>4, StatusGoes
    <3>. QED BY <2>2, <3>7, HandlersRest
  <2>. QED BY <2>3, <2>4
<1>4. CASE \E job \in jobs : Dispatch(job)
  <2>1. PICK job \in jobs : Dispatch(job)
    BY <1>4
  <2>2. rows' = rows /\ Worker \in Everyone
    BY <2>1 DEF Dispatch, Everyone
  <2>3. CASE handler' = handler
    BY <2>2, <2>3, RowsRest, HandlersRest
  <2>4. CASE handler' # handler
    <3>1. handler' = [handler EXCEPT ![Worker] = [Rest EXCEPT !.flow = "expiry", !.pc = "expiring", !.row = job.row, !.n = job.stamp]]
      BY <2>1, <2>4 DEF Dispatch
    <3>2. Apart(Worker) /\ handler'[Worker].flow = "expiry" /\ handler'[Worker].pc = "expiring"
      BY <2>2, <3>1 DEF Apart, Rest
    <3>. QED BY <2>2, <3>2, RowsRest, HandlerStarts DEF Renewing, Buying
  <2>. QED BY <2>3, <2>4
<1>5. CASE ExpireGrace
  <2>1. Worker \in Everyone /\ Return(Worker)
    BY <1>5 DEF ExpireGrace, Everyone
  <2>2. CASE Over(handler[Worker].row)
    <3>1. rows' = SetStatus({handler[Worker].row}, "expired")
      BY <1>5, <2>2 DEF ExpireGrace
    <3>2. "expired" \in Statuses \cap Closed /\ "expired" \notin {"scheduled", "trial"}
      BY DEF Statuses, Closed
    <3>3. RowsGo
      BY <2>2, <3>1, <3>2, StatusGoes DEF Over
    <3>. QED BY <2>1, <3>3, HandlerEnds
  <2>3. CASE ~Over(handler[Worker].row)
    BY <1>5, <2>1, <2>3, RowsRest, HandlerEnds DEF ExpireGrace
  <2>. QED BY <2>2, <2>3
<1>6. CASE Tomorrow
  BY <1>6, RowsRest, HandlersRest DEF Tomorrow, subVars
<1>7. CASE CheckoutNext /\ UNCHANGED mandateVars
  BY <1>7, CheckoutGoes DEF mandateVars
<1>. QED BY <1>1, <1>2, <1>3, <1>4, <1>5, <1>6, <1>7 DEF MandateNext

(* So do refunds, of which one cancels a row,                              *)
LEMMA RefundStepsGo ==
  ASSUME RowsOK, HandlersOK, MandateInv, NEW p \in Procs, RefundStep(p)
  PROVE  RowsGo /\ HandlersGo
<1>. p \in Everyone
  BY DEF Everyone
<1> DEFINE h == handler[p]
<1>h. h \in Local
  BY HolderOK
<1>1. CASE AutoDowngrade(p)
  <2>1. h.pc = "autoDowngrade" /\ Goto(p, "settle")
    BY <1>1 DEF AutoDowngrade, On
  <2>2. HandlersGo
    BY <2>1, HandlerAt DEF Planning, Renewing, Buying
  <2>3. CASE rows' = rows
    BY <2>2, <2>3, RowsRest
  <2>4. CASE rows' # rows
    <3>1. rows' = SetStatus({h.row}, "cancelled")
      BY <1>1, <2>4 DEF AutoDowngrade
    <3>2. "cancelled" \in Statuses \cap Closed /\ "cancelled" \notin {"scheduled", "trial", "expired"}
      BY DEF Statuses, Closed
    <3>. QED BY <2>2, <3>1, <3>2, StatusGoes
  <2>. QED BY <2>3, <2>4
<1>2. CASE ReadPayment(p)
  <2>1. h.pc = "readPayment" /\ rows' = rows /\ Read(p, "createRefund")
    BY <1>2 DEF ReadPayment, On
  <2>2. Apart(p) /\ handler'[p].pc = "createRefund" /\ handler'[p].flow = h.flow
    BY <1>h, <2>1 DEF Read, Apart, Local
  <2>. QED BY <2>1, <2>2, RowsRest, HandlerGoes DEF Planning, Renewing, Buying
<1>3. CASE InsertRequest(p) \/ Execute(p) \/ CreateRefund(p) \/ StampRequest(p) \/ RecordRefund(p)
           \/ Settle(p) \/ PushRefund(p) \/ SyncRequest(p)
  <2>1. rows' = rows /\ h.pc \in Refunding \cup {"push", "sync"}
    BY <1>3 DEF InsertRequest, Execute, CreateRefund, StampRequest, RecordRefund, Settle, PushRefund, SyncRequest,
                On, Refunding
  <2>2. Return(p) \/ \E pc \in Refunding \cup {"sync"} : Goto(p, pc)
    BY <1>3 DEF InsertRequest, Execute, CreateRefund, StampRequest, RecordRefund, Settle, PushRefund, SyncRequest,
                Record, MarkFailed, Refunding
  <2>. QED BY <2>1, <2>2, RowsRest, HandlerEnds, HandlerAt DEF Refunding, Planning, Renewing, Buying
<1>. QED BY <1>1, <1>2, <1>3 DEF RefundStep

(* ... and calls about them.                                               *)
LEMMA RefundCallsGo ==
  ASSUME RowsOK, HandlersOK, MandateInv, NEW p \in Procs, RefundCall(p)
  PROVE  RowsGo /\ HandlersGo
<1>. p \in Everyone
  BY DEF Everyone
<1>0. PICK r \in Requests :
        \/ \E amount \in 1..Total, status \in {"approved", "pending_admin"} : RequestRefund(p, r, amount, status)
        \/ ApproveRequest(p, r)
        \/ \E type \in {"refundCreated", "refundProcessed"} : RefundEvent(p, r, type)
  BY DEF RefundCall
<1>1. RowsGo
  BY <1>0, RowsRest DEF RequestRefund, ApproveRequest, RefundEvent
<1>2. CASE handler' = handler
  BY <1>1, <1>2, HandlersRest
<1>3. CASE \E amount \in 1..Total, status \in {"approved", "pending_admin"} : RequestRefund(p, r, amount, status)
  <2>1. PICK amount, status : Begin(p, "refund", [Rest EXCEPT !.pc = "insertRequest", !.by = r, !.n = amount, !.want = status])
    BY <1>3 DEF RequestRefund
  <2> DEFINE h == [Rest EXCEPT !.pc = "insertRequest", !.by = r, !.n = amount, !.want = status]
  <2>2. Begin(p, "refund", h) /\ h.pc = "insertRequest" /\ DOMAIN h = DOMAIN Rest
    BY <2>1 DEF Rest
  <2> HIDE DEF h
  <2>. QED BY <1>1, <2>2, CallGoes DEF Renewing, Buying
<1>4. CASE ApproveRequest(p, r)
  <2> DEFINE h == [Rest EXCEPT !.pc = "execute", !.by = r]
  <2>1. Begin(p, "approve", h) /\ h.pc = "execute" /\ DOMAIN h = DOMAIN Rest
    BY <1>4 DEF ApproveRequest, Rest
  <2> HIDE DEF h
  <2>. QED BY <1>1, <2>1, CallGoes DEF Renewing, Buying
<1>5. CASE \E type \in {"refundCreated", "refundProcessed"} : RefundEvent(p, r, type)
  <2>1. PICK type \in {"refundCreated", "refundProcessed"} : RefundEvent(p, r, type)
    BY <1>5
  <2> DEFINE o == PayOf[r]
             h == [Rest EXCEPT !.pc = "push", !.by = r, !.row = payment[o].sub, !.was = payment[o].status,
                               !.n = payment[o].back]
  <2>2. CASE Already(r)
    BY <1>2, <2>1, <2>2 DEF RefundEvent, Dispatched
  <2>3. CASE ~Already(r)
    <3>1. Ingest(p, Event(type, r, 0), h)
      BY <2>1, <2>3 DEF RefundEvent
    <3>2. Begin(p, type, h) /\ h.pc = "push" /\ DOMAIN h = DOMAIN Rest
      BY <3>1 DEF Ingest, Event, Rest
    <3> HIDE DEF h
    <3>. QED BY <1>1, <3>2, CallGoes DEF Renewing, Buying
  <2>. QED BY <2>2, <2>3
<1>. QED BY <1>0, <1>3, <1>4, <1>5

(* Rows of mandates and handlers keep to it in every step,                 *)
LEMMA NextGoes ==
  ASSUME IInv, MandateInv, Next
  PROVE  RowsGo /\ HandlersGo
<1>0. RowsOK /\ HandlersOK /\ MandOK
  BY DEF IInv
<1>1. CASE \E p \in Procs : RefundStep(p) \/ RefundCall(p)
  BY <1>0, <1>1, RefundStepsGo, RefundCallsGo
<1>2. CASE \E r \in Requests : RejectRequest(r) \/ ProcessRefund(r)
  <2>1. rows' = rows /\ handler' = handler
    BY <1>2 DEF RejectRequest, ProcessRefund, subVars
  <2>. QED BY <1>0, <2>1, RowsRest, HandlersRest
<1>3. CASE MandateNext /\ UNCHANGED refundVars
  BY <1>0, <1>3, MandateNextGoes
<1>. QED BY <1>1, <1>2, <1>3 DEF Next, RefundNext

(* The gateway charges mandates that are authorised, and tells of no cycle *)
(* it has not charged.                                                     *)
LEMMA MandatesRest == ASSUME IInv, MandateInv, mandate' = mandate PROVE MandatesGo
BY DEF IInv, MandOK, Gateway, MandatesGo, MandateInv

(* ... as does a mandate that changes,                                     *)
LEMMA MandateMoved ==
  ASSUME IInv, MandateInv, NEW m \in Mandate, NEW g, mandate' = [mandate EXCEPT ![m] = g],
         g.cycle \in Nat, mandate[m].cycle <= g.cycle, mandate[m].status = "ended" => g.status = "ended",
         g.status \in {"none", "created"} => g.cycle = 0
  PROVE  MandatesGo
<1>1. \A n \in Mandate : mandate'[n] = IF n = m THEN g ELSE mandate[n]
  BY DEF IInv, MandOK
<1>2. \A n \in Mandate : mandate[n].cycle \in Nat
  BY DEF IInv, MandOK, Gateway
<1>. QED BY <1>1, <1>2 DEF MandatesGo, MandateInv

(* ... whatever changes it, and events are sent of what it is then.        *)
LEMMA MandateMoves ==
  ASSUME IInv, MandateInv, Next
  PROVE  MandatesGo /\ \A e \in sent' : e \in sent \/ Announced(e, mandate')
<1> DEFINE Told == \A e \in sent' : e \in sent \/ Announced(e, mandate')
<1>m. \A m \in Mandate : mandate[m] \in Gateway
  BY DEF IInv, MandOK
<1>g. ASSUME NEW m \in Mandate, NEW status, NEW type,
             mandate' = [mandate EXCEPT ![m].status = status], sent' = sent \/ sent' = sent \cup {Event(type, m, 0)},
             mandate[m].status = "ended" => status = "ended", status \in {"none", "created"} => mandate[m].status \in {"none", "created"},
             type = "completed" => status = "ended"
      PROVE  MandatesGo /\ Told
  <2> DEFINE g == [mandate[m] EXCEPT !.status = status]
  <2>1. g.status = status /\ g.cycle = mandate[m].cycle /\ g.cycle \in Nat /\ mandate[m].cycle <= g.cycle
    BY <1>m DEF Gateway
  <2>2. mandate' = [mandate EXCEPT ![m] = g]
    BY <1>g
  <2>3. MandatesGo
    <3> HIDE DEF g
    <3>. QED BY <1>g, <2>1, <2>2, MandateMoved DEF MandateInv
  <2>4. mandate'[m].status = status /\ mandate'[m].cycle = mandate[m].cycle
    <3> HIDE DEF g
    <3>. QED BY <2>1, <2>2 DEF IInv, MandOK
  <2>5. 0 \in 0..mandate'[m].cycle
    BY <2>1, <2>4
  <2>6. Announced(Event(type, m, 0), mandate')
    BY <1>g, <2>4, <2>5 DEF Announced, Event
  <2>. QED BY <1>g, <2>3, <2>6
<1>r. ASSUME mandate' = mandate, \A e \in sent' : e \in sent \/ e.of \notin Mandate PROVE MandatesGo /\ Told
  BY <1>r, MandatesRest DEF Announced
<1>o. \A o : o \in Payments \/ o \in Requests => o \notin Mandate
  BY MandateAssumption, RefundAssumption
<1>1. CASE \E p \in Procs : RefundStep(p) \/ RefundCall(p)
  <2>1. PICK p \in Procs : RefundStep(p) \/ RefundCall(p)
    BY <1>1
  <2>2. mandate' = mandate
    BY <2>1 DEF RefundStep, InsertRequest, Execute, ReadPayment, CreateRefund, StampRequest, RecordRefund, AutoDowngrade,
                Settle, PushRefund, SyncRequest, RefundCall, RequestRefund, ApproveRequest, RefundEvent, mandateVars
  <2>3. CASE CreateRefund(p)
    <3>1. handler[p].by \in Requests
      BY <2>3 DEF CreateRefund, On, IInv, HoldsOK, Refunding, Everyone
    <3>2. sent' = sent \/ sent' = sent \cup {Event("refundCreated", handler[p].by, 0)}
      BY <2>3 DEF CreateRefund, Send
    <3>3. Event("refundCreated", handler[p].by, 0).of = handler[p].by
      BY DEF Event
    <3>. QED BY <1>o, <1>r, <2>2, <3>1, <3>2, <3>3
  <2>4. CASE ~CreateRefund(p)
    <3>1. sent' = sent
      BY <2>1, <2>4 DEF RefundStep, InsertRequest, Execute, ReadPayment, StampRequest, RecordRefund, AutoDowngrade,
                Settle, PushRefund, SyncRequest, RefundCall, RequestRefund, ApproveRequest, RefundEvent, payVars
    <3>. QED BY <1>r, <2>2, <3>1
  <2>. QED BY <2>3, <2>4
<1>2. CASE \E r \in Requests : RejectRequest(r) \/ ProcessRefund(r)
  <2>1. PICK r \in Requests : RejectRequest(r) \/ ProcessRefund(r)
    BY <1>2
  <2>2. mandate' = mandate /\ (sent' = sent \/ sent' = sent \cup {Event("refundProcessed", r, 0)})
    BY <2>1 DEF RejectRequest, ProcessRefund, Send, mandateVars, payVars
  <2>3. Event("refundProcessed", r, 0).of = r
    BY DEF Event
  <2>. QED BY <1>o, <1>r, <2>2, <2>3
<1>3. CASE CheckoutNext /\ UNCHANGED mandateVars
  <2>1. mandate' = mandate
    BY <1>3 DEF mandateVars
  <2>2. CASE sent' = sent
    BY <1>r, <2>1, <2>2
  <2>3. CASE sent' # sent
    <3>1. CASE \E p \in Procs : CheckoutStep(p) \/ CheckoutCall(p)
      <4>1. \E p \in Procs, o \in Payments : CancelLink(p, o)
        BY <2>3, <3>1 DEF CheckoutStep, InsertPayment, CreateLink, SaveLink, CloseLink, Capture, LinkRow, ClaimUpgrade, ApplyUpgrade,
             InsertScheduled, CheckoutCall, CreateOrder, IssueLink, Confirm, Captured, RaiseUpgrade, UpgradeForFree, Downgrade, payVars
      <4>2. PICK o \in Payments : sent' = sent \cup {Event("linkClosed", o, 0)}
        BY <4>1 DEF CancelLink, Send
      <4>3. Event("linkClosed", o, 0).of = o
        BY DEF Event
      <4>. QED BY <1>o, <1>r, <2>1, <4>2, <4>3
    <3>2. CASE \E o \in Payments : PaymentFailed(o) \/ Pay(o) \/ AttemptFails(o) \/ LinkExpires(o)
      <4>1. PICK o \in Payments : Pay(o) \/ AttemptFails(o) \/ LinkExpires(o)
        BY <2>3, <3>2 DEF PaymentFailed
      <4>2. PICK type : sent' = sent \cup {Event(type, o, 0)}
        BY <4>1 DEF Pay, AttemptFails, LinkExpires, Send
      <4>3. Event(type, o, 0).of = o
        BY DEF Event
      <4>. QED BY <1>o, <1>r, <2>1, <4>2, <4>3
    <3>3. CASE SubscriptionNext /\ UNCHANGED payVars
      BY <2>3, <3>3 DEF payVars
    <3>. QED BY <1>3, <3>1, <3>2, <3>3 DEF CheckoutNext
  <2>. QED BY <2>2, <2>3
<1>4. CASE \E p \in Procs : MandateStep(p) \/ MandateCall(p)
  <2>1. PICK p \in Procs : MandateStep(p) \/ MandateCall(p)
    BY <1>4
  <2>2. sent' = sent
    BY <2>1 DEF MandateStep, InsertPending, ActivateMandate, SupersedeOthers, BookCharge, Renew, Answer, EnterGrace, ScheduleExpiry,
                MandateCall, CreateMandate, Activated, Charged, Halted, payVars
  <2>3. CASE \E m \in Mandate : CreateMandate(p, m)
    <3>1. PICK m \in Mandate : mandate[m].status = "none" /\ mandate' = [mandate EXCEPT ![m].status = "created"]
      BY <2>3 DEF CreateMandate
    <3>. QED BY <1>g, <2>2, <3>1
  <2>4. CASE ~\E m \in Mandate : CreateMandate(p, m)
    <3>1. mandate' = mandate
      BY <2>1, <2>4 DEF MandateStep, InsertPending, ActivateMandate, SupersedeOthers, BookCharge, Renew, Answer, EnterGrace, ScheduleExpiry,
                MandateCall, Activated, Charged, Halted, mandateVars
    <3>. QED BY <1>r, <2>2, <3>1
  <2>. QED BY <2>3, <2>4
<1>5. CASE \E m \in Mandate : Marked(m)
  <2>1. mandate' = mandate /\ sent' = sent
    BY <1>5 DEF Marked, Mark, mandateVars
  <2>. QED BY <1>r, <2>1
<1>6. CASE (\E job \in jobs : Dispatch(job)) \/ ExpireGrace \/ Tomorrow
  <2>1. mandate' = mandate /\ sent' = sent
    BY <1>6 DEF Dispatch, ExpireGrace, Tomorrow, payVars
  <2>. QED BY <1>r, <2>1
<1>7. CASE \E m \in Mandate : CancelMandate(m) \/ PauseMandate(m) \/ ResumeMandate(m)
  <2>1. PICK m \in Mandate, status \in {"ended", "paused", "active"}, type \in {"cancelled", "paused", "resumed"} :
          /\ mandate[m].status \in {"active", "halted", "paused"}
          /\ mandate' = [mandate EXCEPT ![m].status = status] /\ sent' = sent \cup {Event(type, m, 0)}
    BY <1>7 DEF CancelMandate, PauseMandate, ResumeMandate, Ask, Send
  <2>. QED BY <1>g, <2>1
<1>8. CASE \E m \in Mandate : GiveUp(m) \/ Complete(m)
  <2>1. PICK m \in Mandate : GiveUp(m) \/ Complete(m)
    BY <1>8
  <2>2. CASE Complete(m)
    BY <1>g, <2>2 DEF Complete, Gives
  <2>3. CASE GiveUp(m)
    <3> DEFINE n == mandate[m].halts + 1
               g == [mandate[m] EXCEPT !.status = "halted", !.halts = n]
    <3>1. mandate' = [mandate EXCEPT ![m] = g] /\ sent' = sent \cup {Event("halted", m, n)} /\ mandate[m].status = "active"
      BY <2>3 DEF GiveUp, Gives
    <3>2. g.status = "halted" /\ g.cycle \in Nat /\ mandate[m].cycle <= g.cycle
      BY <1>m DEF Gateway
    <3>3. MandatesGo
      <4> HIDE DEF g
      <4>. QED BY <3>1, <3>2, MandateMoved
    <3>4. Announced(Event("halted", m, n), mandate')
      BY DEF Announced, Event
    <3>. QED BY <3>1, <3>3, <3>4
  <2>. QED BY <2>1, <2>2, <2>3
<1>9. CASE \E m \in Mandate : Authorise(m) \/ Charge(m)
  <2>1. PICK m \in Mandate : Authorise(m) \/ Charge(m)
    BY <1>9
  <2>2. PICK n \in Nat : /\ mandate' = [mandate EXCEPT ![m] = [mandate[m] EXCEPT !.status = "active", !.cycle = n]]
                         /\ mandate[m].cycle <= n /\ mandate[m].status # "ended"
                         /\ \A e \in sent' : e \in sent \/ \E type \in {"activated", "charged"}, k \in 0..n : e = Event(type, m, k)
    <3>1. CASE Authorise(m)
      <4>1. PICK n \in {0, 1} : Gives(m, [mandate[m] EXCEPT !.status = "active", !.cycle = n],
                             {Event("activated", m, n)} \cup {Event("charged", m, k) : k \in 1..n})
        BY <3>1 DEF Authorise
      <4>2. mandate[m].cycle = 0 /\ mandate[m].status = "created"
        BY <3>1 DEF Authorise, MandateInv
      <4>3. \A e \in sent' : e \in sent \/ \E type \in {"activated", "charged"}, k \in 0..n : e = Event(type, m, k)
        BY <4>1 DEF Gives
      <4>4. n \in Nat /\ mandate[m].cycle <= n
        BY <4>2
      <4>5. mandate' = [mandate EXCEPT ![m] = [mandate[m] EXCEPT !.status = "active", !.cycle = n]]
        BY <4>1 DEF Gives
      <4>. QED BY <4>2, <4>3, <4>4, <4>5
    <3>2. CASE Charge(m)
      <4> DEFINE n == mandate[m].cycle + 1
      <4>1. Gives(m, [mandate[m] EXCEPT !.status = "active", !.cycle = n], {Event("charged", m, n)})
            /\ mandate[m].status # "ended"
        BY <3>2 DEF Charge
      <4>2. n \in Nat /\ mandate[m].cycle <= n /\ n \in 0..n
        BY <1>m DEF Gateway
      <4>3. \A e \in sent' : e \in sent \/ \E type \in {"activated", "charged"}, k \in 0..n : e = Event(type, m, k)
        <5> HIDE DEF n
        <5>. QED BY <4>1, <4>2 DEF Gives
      <4> HIDE DEF n
      <4>. QED BY <4>1, <4>2, <4>3 DEF Gives
    <3>. QED BY <2>1, <3>1, <3>2
  <2> DEFINE g == [mandate[m] EXCEPT !.status = "active", !.cycle = n]
  <2>3. g.status = "active" /\ g.cycle = n
    BY <1>m DEF Gateway
  <2>4. mandate' = [mandate EXCEPT ![m] = g]
    BY <2>2
  <2> HIDE DEF g
  <2>5. MandatesGo
    BY <2>2, <2>3, <2>4, MandateMoved
  <2>6. mandate'[m].cycle = n
    BY <2>3, <2>4 DEF IInv, MandOK
  <2>7. ASSUME NEW type \in {"activated", "charged"}, NEW k \in 0..n PROVE Announced(Event(type, m, k), mandate')
    BY <2>6, <2>7 DEF Announced, Event
  <2>. QED BY <2>2, <2>5, <2>7
<1>. QED BY <1>1, <1>2, <1>3, <1>4, <1>5, <1>6, <1>7, <1>8, <1>9 DEF Next, RefundNext, MandateNext

(* So the invariant of mandates holds.                                     *)
LEMMA MandatesHold == Spec => [](IInv /\ MandateInv)
<1>1. Init => MandateInv
  <2> SUFFICES ASSUME Init PROVE MandateInv
    OBVIOUS
  <2>1. RefundInit /\ MandateInit /\ CheckoutInit /\ SubInit
    BY DEF Init, RefundInit, MandateInit, CheckoutInit
  <2>2. \A p \in Everyone : handler[p] = Rest
    BY <2>1 DEF SubInit, Everyone
  <2>3. sent = {} /\ \A m \in Mandate : mandate[m].cycle = 0
    BY <2>1 DEF CheckoutInit, MandateInit
  <2>4. \A i \in DOMAIN rows : rows[i].paidBy = None
    BY <2>1 DEF SubInit, NewRow
  <2>. QED BY <2>2, <2>3, <2>4, NoMandate, RestHeld DEF MandateInv, Backed
<1>2. ASSUME IInv, IInv', MandateInv, Next PROVE MandateInv'
  BY <1>2, NextGoes, MandateMoves, MandatesKept
<1>3. ASSUME MandateInv, vars' = vars PROVE MandateInv'
  BY <1>3 DEF vars, subVars, payVars, mandateVars, MandateInv
<1>4. IInv /\ IInv' /\ MandateInv /\ [Next]_vars => MandateInv'
  BY <1>2, <1>3
<1>. QED BY <1>1, <1>4, Inductive, PTL DEF Spec

(* Mandates end, and jobs and events that read a row of one before write   *)
(* to it after: none of them brings it back.                               *)
THEOREM OverIsOver == Spec => ClosedStays
<1>1. ASSUME IInv, MandateInv, Next, NEW i \in DOMAIN rows, rows[i].paidBy \in Mandate, rows[i].status \in Closed
      PROVE  rows'[i].status \in Closed
  BY <1>1, NextGoes DEF RowsGo, RowGoes
<1>2. IInv /\ MandateInv /\ [Next]_vars =>
        [\A i \in DOMAIN rows : rows[i].paidBy \in Mandate /\ rows[i].status \in Closed => rows'[i].status \in Closed]_vars
  BY <1>1
<1>. QED BY <1>2, MandatesHold, PTL DEF Spec, ClosedStays

(* ExpireGrace runs for a job that may be of an earlier grace, or that     *)
(* found its row in grace before a charge: grace that was given later is   *)
(* not cut short.                                                          *)
THEOREM GraceIsKept == Spec => NoEarlySuspension
<1>1. ASSUME IInv, MandateInv, Next, NEW i \in DOMAIN rows, rows[i].status = "grace_period", rows'[i].status = "expired"
      PROVE  rows[i].grace <= day \/ mandate[rows[i].paidBy].status = "ended"
  BY <1>1, NextGoes DEF RowsGo, RowGoes
<1>2. IInv /\ MandateInv /\ [Next]_vars =>
        [\A i \in DOMAIN rows : rows[i].status = "grace_period" /\ rows'[i].status = "expired"
           => rows[i].grace <= day \/ mandate[rows[i].paidBy].status = "ended"]_vars
  BY <1>1
<1>. QED BY <1>2, MandatesHold, PTL DEF Spec, NoEarlySuspension

-----------------------------------------------------------------------------
(* Payments: nothing is captured, or paid back, that was not paid.         *)

(* What says that the money came.                                          *)
Paid == {"captured", "partially_refunded", "refunded"}

(* ... and that some went back.                                            *)
Back == {"partially_refunded", "refunded"}

(* Where a handler has the link of its payment still to create.            *)
Linking(h) == h.pc = "createLink" \/ (h.pc = "insertPayment" /\ h.flow = "link")

(* What handlers have found, pay and coins being payments and money: they  *)
(* capture what was paid, create what is not there, link what nobody can   *)
(* pay yet, and pay back what was captured.                                *)
Owed(h, pay, coins) ==
  /\ h.pc = "capture" => coins[h.by] = "paid"
  /\ h.pc = "insertPayment" => pay[h.by].status = "none"
  /\ Linking(h) => h.by \in Payments /\ KindOf[h.by] = "link" /\ coins[h.by] = "none"
  /\ h.pc \in Refunding \cup {"push", "sync"} => pay[PayOf[h.by]].status \in Paid
  /\ h.pc \in {"createRefund", "stamp", "record", "push"} /\ h.was \in Back => pay[PayOf[h.by]].status \in Back

(* Events tell of money that came, or of what was captured.                *)
Reported(e, pay, coins) ==
  /\ e.of \in Payments /\ e.type \in {"captured", "linkPaid"} => coins[e.of] = "paid"
  /\ e.of \in Requests => pay[PayOf[e.of]].status \in Paid

(* Rows, and handlers that will insert one, are of captured payments.      *)
Bound == 
  /\ \A q \in Everyone : handler[q].pc \in Buying /\ handler[q].by \in Payments => payment[handler[q].by].status \in Paid
  /\ \A i \in DOMAIN rows : rows[i].paidBy \in Payments => payment[rows[i].paidBy].status \in Paid

Asked(r) == request[r].status # "none" \/ refunded[r] > 0

MoneyOK == money \in [Payments -> {"none", "open", "paid", "closed"}]

(* The part of the invariant about payments.                               *)
PaymentInv ==
  /\ MoneyOK
  /\ \A o \in Payments : payment[o].status \in Paid => money[o] = "paid"
  /\ \A q \in Everyone : Owed(handler[q], payment, money)
  /\ \A p, q \in Everyone : Linking(handler[p]) /\ Linking(handler[q]) /\ handler[p].by = handler[q].by => p = q
  /\ ~Linking(handler[Worker])
  /\ \A e \in sent : Reported(e, payment, money)
  /\ \A r \in Requests : /\ Asked(r) => payment[PayOf[r]].status \in Paid
                         /\ recorded[r] > 0 => payment[PayOf[r]].status \in Back
  /\ Bound

(* A handler that has done what it had to do with the payment o.           *)
Done(o, pcs) == \E p \in Everyone : handler[p].pc \in pcs /\ handler[p].by = o /\ handler'[p] # handler[p]

(* What a step may do to payments and money,                               *)
PaymentsGo ==
  MoneyOK' /\ \A o \in Payments :
    /\ payment[o].status \in Paid => payment'[o].status \in {payment[o].status} \cup Back
    /\ payment'[o].status \in Paid => payment[o].status \in Paid \/ money[o] = "paid"
    /\ money[o] = "paid" => money'[o] = "paid"
    /\ payment[o].status = "none" => payment'[o].status = "none" \/ Done(o, {"insertPayment"})
    /\ money[o] = "none" => money'[o] = "none" \/ KindOf[o] # "link"
                            \/ \E p \in Everyone : Linking(handler[p]) /\ handler[p].by = o /\ handler'[p] # handler[p]

(* ... to handlers,                                                        *)
OwingGoes ==
  \A q \in Everyone :
    \/ handler'[q] = handler[q]
    \/ /\ Owed(handler'[q], payment', money')
       /\ Linking(handler'[q]) =>
            \/ Linking(handler[q]) /\ handler'[q].by = handler[q].by
            \/ q \in Procs /\ \A p \in Procs : handler[p].by # handler'[q].by
       /\ \A p \in Everyone \ {q} : handler'[p] = handler[p]

(* ... to events and requests.                                             *)
ReportsGo ==
  /\ \A e \in sent' : e \in sent \/ Reported(e, payment', money')
  /\ \A r \in Requests : /\ Asked(r)' => Asked(r) \/ payment[PayOf[r]].status \in Paid
                         /\ recorded'[r] > 0 => recorded[r] > 0 \/ payment'[PayOf[r]].status \in Back

LEMMA OwedStays ==
  ASSUME IInv, PaymentInv, PaymentsGo, HandlersOK', NEW q \in Everyone, handler'[q] = handler[q]
  PROVE  Owed(handler[q], payment', money')
<1> DEFINE h == handler[q]
<1>0. HoldsOK(h, DOMAIN rows) /\ Owed(h, payment, money) /\ Ordering(q)
  BY DEF IInv, SaleInv, PaymentInv
<1>1. h.pc = "capture" => h.by \in Payments /\ money'[h.by] = "paid"
  BY <1>0 DEF HoldsOK, Owed, PaymentsGo
<1>2. h.pc = "insertPayment" => payment'[h.by].status = "none"
  <2>1. SUFFICES ASSUME h.pc = "insertPayment" PROVE payment'[h.by].status = "none"
    OBVIOUS
  <2>2. h.by \in Payments /\ payment[h.by].status = "none"
    BY <1>0, <2>1 DEF HoldsOK, Owed
  <2>3. ~Done(h.by, {"insertPayment"})
    BY <1>0, <2>1 DEF Done, Ordering
  <2>. QED BY <2>2, <2>3 DEF PaymentsGo
<1>3. Linking(h) => h.by \in Payments /\ KindOf[h.by] = "link" /\ money'[h.by] = "none"
  <2>1. SUFFICES ASSUME Linking(h) PROVE h.by \in Payments /\ KindOf[h.by] = "link" /\ money'[h.by] = "none"
    OBVIOUS
  <2>2. h.by \in Payments /\ KindOf[h.by] = "link" /\ money[h.by] = "none"
    BY <1>0, <2>1 DEF Owed
  <2>3. ~\E p \in Everyone : Linking(handler[p]) /\ handler[p].by = h.by /\ handler'[p] # handler[p]
    BY <2>1 DEF PaymentInv
  <2>. QED BY <2>2, <2>3 DEF PaymentsGo
<1>4. h.pc \in Refunding \cup {"push", "sync"} => payment'[PayOf[h.by]].status \in Paid
  BY <1>0, RefundAssumption DEF HoldsOK, Owed, PaymentsGo, Paid, Back
<1>5. h.pc \in {"createRefund", "stamp", "record", "push"} /\ h.was \in Back => payment'[PayOf[h.by]].status \in Back
  BY <1>0, RefundAssumption DEF HoldsOK, Owed, PaymentsGo, Paid, Back, Refunding
<1>. QED BY <1>1, <1>2, <1>3, <1>4, <1>5 DEF Owed

LEMMA PaymentsKept ==
  ASSUME IInv, IInv', PaymentInv, PaymentsGo, OwingGoes, ReportsGo, Flow \/ Sale
  PROVE  PaymentInv'
<1>0. Worker \notin Procs /\ Worker \in Everyone /\ Procs \subseteq Everyone /\ PayOf \in [Requests -> Payments]
      /\ \A q \in Everyone : q \in Procs \/ q = Worker
  BY SubscriptionAssumption, RefundAssumption DEF Everyone
<1>p. \A o \in Payments : /\ payment[o].status \in Paid => payment'[o].status \in Paid
                          /\ payment[o].status \in Back => payment'[o].status \in Back
  BY DEF PaymentsGo, Paid, Back
<1>1. \A o \in Payments : payment'[o].status \in Paid => money'[o] = "paid"
  BY DEF PaymentsGo, PaymentInv
<1>2. \A q \in Everyone : Owed(handler'[q], payment', money')
  BY OwedStays DEF OwingGoes, IInv
<1>3. ASSUME NEW p \in Everyone, NEW q \in Everyone, p # q, Linking(handler'[p]), Linking(handler'[q]),
             handler'[p].by = handler'[q].by
      PROVE  FALSE
  <2>1. CASE handler'[p] = handler[p] /\ handler'[q] = handler[q]
    BY <1>3, <2>1 DEF PaymentInv
  <2>2. CASE handler'[p] # handler[p]
    <3>1. handler'[q] = handler[q] /\ q # Worker
      BY <1>3, <2>2 DEF OwingGoes, PaymentInv
    <3>. QED BY <1>0, <1>3, <2>2, <3>1 DEF OwingGoes, PaymentInv
  <2>3. CASE handler'[q] # handler[q]
    <3>1. handler'[p] = handler[p] /\ p # Worker
      BY <1>3, <2>3 DEF OwingGoes, PaymentInv
    <3>. QED BY <1>0, <1>3, <2>3, <3>1 DEF OwingGoes, PaymentInv
  <2>. QED BY <2>1, <2>2, <2>3
<1>4. ~Linking(handler'[Worker])
  BY <1>0 DEF OwingGoes, PaymentInv
<1>5. \A e \in sent' : Reported(e, payment', money')
  BY <1>0, <1>p DEF ReportsGo, Reported, PaymentsGo, PaymentInv
<1>6. \A r \in Requests : /\ Asked(r)' => payment'[PayOf[r]].status \in Paid
                          /\ recorded'[r] > 0 => payment'[PayOf[r]].status \in Back
  <2>1. \A r \in Requests : /\ Asked(r) => payment[PayOf[r]].status \in Paid
                            /\ recorded[r] > 0 => payment[PayOf[r]].status \in Back
    BY DEF PaymentInv
  <2>2. \A r \in Requests : PayOf[r] \in Payments
    BY <1>0
  <2>. QED BY <1>p, <2>1, <2>2 DEF ReportsGo
<1>7. Bound'
  <2>1. \A o \in Payments : payment[o].status \in Paid => payment'[o].status \in Paid
    BY <1>p
  <2>2. Bound
    BY DEF PaymentInv
  <2>3. CASE Flow
    <3>1. \A q \in Everyone : handler'[q].pc \in Buying /\ handler'[q].by \in Payments => payment'[handler'[q].by].status \in Paid
      BY <2>1, <2>2, <2>3 DEF Flow, NoNewBuyer, Bound
    <3>2. CASE Kept
      BY <2>1, <2>2, <3>1, <3>2 DEF Kept, Bound
    <3>3. CASE \E p \in Procs : Sold(p)
      <4>1. PICK p \in Procs : Sold(p)
        BY <3>3
      <4>2. handler[p].by \in Payments => payment'[handler[p].by].status \in Paid
        BY <1>0, <2>1, <2>2, <4>1 DEF Sold, Bound, Buying
      <4>. QED BY <2>1, <2>2, <3>1, <4>1, <4>2 DEF Sold, Bound
    <3>. QED BY <2>3, <3>2, <3>3 DEF Flow
  <2>4. CASE Sale
    <3>1. PICK p \in Procs : Apart(p) /\ (Enters(p) \/ Opens(p) \/ Takes(p))
      BY <2>4 DEF Sale
    <3>2. rows' = rows
      BY <3>1 DEF Enters, Opens, Takes
    <3>3. handler'[p].pc \in Buying /\ handler'[p].by \in Payments => payment'[handler'[p].by].status \in Paid
      BY <3>1 DEF Enters, Opens, Takes, Buying, Paid
    <3>. QED BY <2>1, <2>2, <3>1, <3>2, <3>3 DEF Bound, Apart
  <2>. QED BY <2>3, <2>4
<1>8. MoneyOK'
  BY DEF PaymentsGo
<1>. QED BY <1>1, <1>2, <1>3, <1>4, <1>5, <1>6, <1>7, <1>8 DEF PaymentInv

(* Where a handler is about a payment that is not sold yet, or a refund.   *)
Paying == {"capture", "insertPayment", "createLink", "push", "sync"} \cup Refunding

(* Nobody comes there.                                                     *)
NoPaying == \A q \in Everyone : handler'[q] = handler[q] \/ (handler'[q].pc \notin Paying /\ Apart(q))

(* ... so whatever a handler does that stays away,                         *)
LEMMA PayingSet ==
  ASSUME HandlersOK, NEW p \in Everyone, NEW h, handler' = [handler EXCEPT ![p] = h], h.pc \notin Paying
  PROVE  NoPaying
BY DEF NoPaying, Apart

LEMMA PayingEnds == ASSUME HandlersOK, NEW p \in Everyone, Return(p) PROVE NoPaying
BY PayingSet DEF Return, Rest, Paying, Refunding

LEMMA PayingGoes == ASSUME HandlersOK, NEW p \in Everyone, NEW pc, Goto(p, pc), pc \notin Paying PROVE NoPaying
<1> DEFINE h == [handler[p] EXCEPT !.pc = pc]
<1>1. h.pc = pc
  BY DEF Local
<1>2. handler' = [handler EXCEPT ![p] = h]
  BY DEF Goto
<1> HIDE DEF h
<1>. QED BY <1>1, <1>2, PayingSet

LEMMA PayingBegins ==
  ASSUME HandlersOK, NEW p \in Everyone, NEW flow, NEW h, Begin(p, flow, h), DOMAIN h = DOMAIN Rest, h.pc \notin Paying
  PROVE  NoPaying
<1>1. Apart(p) /\ handler'[p] = [h EXCEPT !.flow = flow]
  BY Began
<1>2. handler'[p].pc = h.pc
  BY <1>1 DEF Rest
<1>. QED BY <1>1, <1>2 DEF NoPaying, Apart

LEMMA PayingRests == ASSUME handler' = handler PROVE NoPaying
BY DEF NoPaying

(* ... owes nothing new.                                                   *)
LEMMA NothingOwed == ASSUME NoPaying PROVE OwingGoes
<1>1. {"createRefund", "stamp", "record", "push"} \subseteq Paying
  BY DEF Paying, Refunding
<1>2. \A h : h.pc \notin Paying => Owed(h, payment', money') /\ ~Linking(h)
  BY <1>1 DEF Paying, Owed, Linking
<1>. QED BY <1>2 DEF NoPaying, OwingGoes, Apart

LEMMA MoneyRests == ASSUME PaymentInv, payment' = payment, money' = money PROVE PaymentsGo
BY DEF PaymentsGo, PaymentInv, MoneyOK

(* Operations on subscriptions alone are of that kind,                     *)
LEMMA SubscriptionPaying == ASSUME HandlersOK, SubscriptionNext PROVE NoPaying
<1>s. ASSUME NEW p \in Procs, Step(p) PROVE NoPaying
  <2>. p \in Everyone
    BY DEF Everyone
  <2>h. handler[p] \in Local
    OBVIOUS
  <2>0. Superseding(p) \notin Paying /\ {"inserted", "promoting", "supersedeLive"} \cap Paying = {}
    BY DEF Superseding, Resume, Paying, Refunding
  <2>1. CASE Return(p) \/ NextRow(p) \/ \E pc \in {"inserted", "promoting", "supersedeLive", Superseding(p)} : Goto(p, pc)
    BY <2>0, <2>1, PayingEnds, PayingGoes DEF NextRow
  <2>2. CASE ReadCurrent(p) /\ ~Return(p)
    <3>0. PICK pc \in {"insert", "supersedeOld"} : \E row, want : handler' = [handler EXCEPT ![p].pc = pc, ![p].row = row, ![p].want = want]
      BY <2>2 DEF ReadCurrent
    <3>1. PICK row, want : handler' = [handler EXCEPT ![p].pc = pc, ![p].row = row, ![p].want = want]
      BY <3>0
    <3>2. Apart(p) /\ handler'[p].pc = pc
      BY <2>h, <3>1 DEF Apart, Local
    <3>. QED BY <3>2 DEF NoPaying, Apart, Paying, Refunding
  <2>3. CASE PromoteNext(p) /\ ~Return(p)
    <3>1. PICK row, todo : handler' = [handler EXCEPT ![p].pc = "supersedeOld", ![p].row = row, ![p].todo = todo]
      BY <2>3 DEF PromoteNext
    <3>2. Apart(p) /\ handler'[p].pc = "supersedeOld"
      BY <2>h, <3>1 DEF Apart, Local
    <3>. QED BY <3>2 DEF NoPaying, Apart, Paying, Refunding
  <2>4. CASE DowngradeTrial(p) /\ ~Return(p)
    <3>1. PICK todo : handler' = [handler EXCEPT ![p].todo = todo]
      BY <2>4 DEF DowngradeTrial
    <3>2. Apart(p) /\ handler'[p].pc = "downgrading"
      BY <2>h, <2>4, <3>1 DEF Apart, Local, DowngradeTrial, On
    <3>. QED BY <3>2 DEF NoPaying, Apart, Paying, Refunding
  <2>. QED BY <1>s, <2>1, <2>2, <2>3, <2>4 DEF Step, SupersedeOld, SupersedeLive, InsertSubscription, Inserted, InsertFree, InsertTrial,
              SaveCancelled, ForceSave, Activate, ExpireLapsed, ReadCurrent, PromoteNext, DowngradeTrial, Insert, Write
<1>c. ASSUME NEW p \in Procs, Call(p) PROVE NoPaying
  <2>. p \in Everyone
    BY DEF Everyone
  <2>1. CASE \E plan \in Plans \cap traffic, want \in {"active", "scheduled"} : Subscribe(p, plan, want)
    <3>1. PICK plan, want : Begin(p, "subscribe", [Rest EXCEPT !.pc = "subscribe", !.plan = plan, !.want = want])
      BY <2>1 DEF Subscribe
    <3> DEFINE h == [Rest EXCEPT !.pc = "subscribe", !.plan = plan, !.want = want]
    <3>2. Begin(p, "subscribe", h) /\ DOMAIN h = DOMAIN Rest /\ h.pc \notin Paying
      BY <3>1 DEF Rest, Paying, Refunding
    <3> HIDE DEF h
    <3>. QED BY <3>2, PayingBegins
  <2>2. CASE Heal(p) \/ StartTrial(p)
    <3>1. PICK flow \in {"heal", "trial"}, pc \in {"insertFree", "supersedeOld"} : Begin(p, flow, [Rest EXCEPT !.pc = pc])
      BY <2>2 DEF Heal, StartTrial
    <3> DEFINE h == [Rest EXCEPT !.pc = pc]
    <3>2. Begin(p, flow, h) /\ DOMAIN h = DOMAIN Rest /\ h.pc \notin Paying
      BY <3>1 DEF Rest, Paying, Refunding
    <3> HIDE DEF h
    <3>. QED BY <3>2, PayingBegins
  <2>3. CASE Cancel(p)
    <3>1. PICK i : Begin(p, "cancel", [Rest EXCEPT !.pc = "saveCancelled", !.row = i])
      BY <2>3 DEF Cancel
    <3> DEFINE h == [Rest EXCEPT !.pc = "saveCancelled", !.row = i]
    <3>2. Begin(p, "cancel", h) /\ DOMAIN h = DOMAIN Rest /\ h.pc \notin Paying
      BY <3>1 DEF Rest, Paying, Refunding
    <3> HIDE DEF h
    <3>. QED BY <3>2, PayingBegins
  <2>4. CASE CancelScheduled(p)
    <3>1. PICK i : Begin(p, "cancelScheduled", [Rest EXCEPT !.pc = "saveCancelled", !.row = i])
      BY <2>4 DEF CancelScheduled
    <3> DEFINE h == [Rest EXCEPT !.pc = "saveCancelled", !.row = i]
    <3>2. Begin(p, "cancelScheduled", h) /\ DOMAIN h = DOMAIN Rest /\ h.pc \notin Paying
      BY <3>1 DEF Rest, Paying, Refunding
    <3> HIDE DEF h
    <3>. QED BY <3>2, PayingBegins
  <2>5. CASE ForceActivate(p)
    <3>1. PICK i : Begin(p, "force", [Rest EXCEPT !.pc = "supersedeOld", !.row = i])
      BY <2>5 DEF ForceActivate
    <3> DEFINE h == [Rest EXCEPT !.pc = "supersedeOld", !.row = i]
    <3>2. Begin(p, "force", h) /\ DOMAIN h = DOMAIN Rest /\ h.pc \notin Paying
      BY <3>1 DEF Rest, Paying, Refunding
    <3> HIDE DEF h
    <3>. QED BY <3>2, PayingBegins
  <2>6. CASE Promote(p)
    <3> DEFINE h == [Rest EXCEPT !.pc = "promoting", !.todo = {i \in DOMAIN rows : rows[i].status = "scheduled" /\ rows[i].due}]
    <3>1. Begin(p, "promote", h) /\ DOMAIN h = DOMAIN Rest /\ h.pc \notin Paying
      BY <2>6 DEF Promote, Rest, Paying, Refunding
    <3> HIDE DEF h
    <3>. QED BY <3>1, PayingBegins
  <2>7. CASE Expire(p)
    <3> DEFINE h == [Rest EXCEPT !.pc = "downgrading", !.todo = {i \in DOMAIN rows : rows[i].status = "trial" /\ rows[i].due}]
    <3>1. Begin(p, "expire", h) /\ DOMAIN h = DOMAIN Rest /\ h.pc \notin Paying
      BY <2>7 DEF Expire, Rest, Paying, Refunding
    <3> HIDE DEF h
    <3>. QED BY <3>1, PayingBegins
  <2>. QED BY <1>c, <2>1, <2>2, <2>3, <2>4, <2>5, <2>6, <2>7 DEF Call
<1>. QED BY <1>s, <1>c, PayingEnds, PayingRests DEF SubscriptionNext, Crash, PeriodEnds, Everyone

(* ... so are those on mandates.                                           *)
LEMMA MandatePaying ==
  ASSUME HandlersOK, MandateNext, ~(CheckoutNext /\ UNCHANGED mandateVars)
  PROVE  NoPaying
<1>1. ASSUME NEW p \in Procs, MandateStep(p) PROVE NoPaying
  <2>. p \in Everyone
    BY DEF Everyone
  <2>0. {"replacing", "answering", "renewing"} \cap Paying = {}
    BY DEF Paying, Refunding
  <2>1. CASE Return(p) \/ \E pc \in {"replacing", "answering", "renewing"} : Goto(p, pc)
    BY <2>0, <2>1, PayingEnds, PayingGoes
  <2>2. CASE EnterGrace(p) /\ ~Return(p)
    <3>1. handler' = [handler EXCEPT ![p].pc = "schedule", ![p].n = day + Grace]
      BY <2>2 DEF EnterGrace
    <3>2. Apart(p) /\ handler'[p].pc = "schedule"
      BY <3>1 DEF Apart, Local
    <3>. QED BY <3>2 DEF NoPaying, Apart, Paying, Refunding
  <2>. QED BY <1>1, <2>1, <2>2 DEF MandateStep, InsertPending, ActivateMandate, SupersedeOthers, BookCharge, Renew, Answer,
              EnterGrace, ScheduleExpiry, Set
<1>2. ASSUME NEW p \in Procs, NEW m \in Mandate, CreateMandate(p, m) \/ Activated(p, m) \/ Charged(p, m) \/ Halted(p, m)
      PROVE  NoPaying
  <2>. p \in Everyone
    BY DEF Everyone
  <2>0. CASE handler' = handler
    BY <2>0, PayingRests
  <2>1. CASE CreateMandate(p, m)
    <3> DEFINE h == [Rest EXCEPT !.pc = "insertPending", !.by = m]
    <3>1. Begin(p, "mandate", h) /\ h.pc \notin Paying /\ DOMAIN h = DOMAIN Rest
      BY <2>1 DEF CreateMandate, Rest, Paying, Refunding
    <3> HIDE DEF h
    <3>. QED BY <3>1, PayingBegins
  <2>2. CASE Halted(p, m) /\ handler' # handler
    <3> DEFINE h == [Rest EXCEPT !.pc = "enterGrace", !.by = m, !.row = RowOf(m)]
    <3>1. Begin(p, "halted", h) /\ h.pc \notin Paying /\ DOMAIN h = DOMAIN Rest
      BY <2>2 DEF Halted, Ingest, Dispatched, Event, Rest, Paying, Refunding
    <3> HIDE DEF h
    <3>. QED BY <3>1, PayingBegins
  <2>3. CASE Activated(p, m) /\ handler' # handler
    <3>1. PICK n : Begin(p, "activated", [Rest EXCEPT !.pc = "activating", !.by = m, !.row = RowOf(m), !.n = n])
      BY <2>3 DEF Activated, Ingest, Dispatched, Event
    <3> DEFINE h == [Rest EXCEPT !.pc = "activating", !.by = m, !.row = RowOf(m), !.n = n]
    <3>2. Begin(p, "activated", h) /\ h.pc \notin Paying /\ DOMAIN h = DOMAIN Rest
      BY <3>1 DEF Rest, Paying, Refunding
    <3> HIDE DEF h
    <3>. QED BY <3>2, PayingBegins
  <2>4. CASE Charged(p, m) /\ handler' # handler
    <3>1. PICK n : Begin(p, "charged", [Rest EXCEPT !.pc = "booking", !.by = m, !.row = RowOf(m), !.n = n, !.was = StatusOf(m)])
      BY <2>4 DEF Charged, Ingest, Dispatched, Event
    <3> DEFINE h == [Rest EXCEPT !.pc = "booking", !.by = m, !.row = RowOf(m), !.n = n, !.was = StatusOf(m)]
    <3>2. Begin(p, "charged", h) /\ h.pc \notin Paying /\ DOMAIN h = DOMAIN Rest
      BY <3>1 DEF Rest, Paying, Refunding
    <3> HIDE DEF h
    <3>. QED BY <3>2, PayingBegins
  <2>. QED BY <1>2, <2>0, <2>1, <2>2, <2>3, <2>4
<1>3. ASSUME NEW m \in Mandate, \/ CancelMandate(m) \/ PauseMandate(m) \/ ResumeMandate(m) \/ Marked(m)
                                \/ Authorise(m) \/ Charge(m) \/ GiveUp(m) \/ Complete(m)
      PROVE  NoPaying
  <2>1. handler' = handler
    BY <1>3 DEF CancelMandate, PauseMandate, ResumeMandate, Ask, Marked, Mark, Dispatched, Authorise, Charge, GiveUp, Complete, Gives, subVars
  <2>. QED BY <2>1, PayingRests
<1>4. ASSUME NEW job \in jobs, Dispatch(job) PROVE NoPaying
  <2>1. CASE handler' = handler
    BY <2>1, PayingRests
  <2>2. CASE handler' # handler
    <3> DEFINE h == [Rest EXCEPT !.flow = "expiry", !.pc = "expiring", !.row = job.row, !.n = job.stamp]
    <3>1. handler' = [handler EXCEPT ![Worker] = h] /\ h.pc \notin Paying
      BY <1>4, <2>2 DEF Dispatch, Rest, Paying, Refunding
    <3> HIDE DEF h
    <3>. QED BY <3>1, PayingSet DEF Everyone
  <2>. QED BY <2>1, <2>2
<1>5. ExpireGrace \/ Tomorrow => NoPaying
  BY PayingEnds, PayingRests DEF ExpireGrace, Tomorrow, subVars, Everyone
<1>. QED BY <1>1, <1>2, <1>3, <1>4, <1>5 DEF MandateNext, MandateCall

(* The gateway tells nothing of payments or refunds then.                  *)
LEMMA MandateReports ==
  ASSUME MandateNext, ~(CheckoutNext /\ UNCHANGED mandateVars)
  PROVE  payment' = payment /\ money' = money /\ \A e \in sent' : e \in sent \/ e.of \in Mandate
<1>1. CASE \E p \in Procs : MandateStep(p) \/ MandateCall(p)
  BY <1>1 DEF MandateStep, InsertPending, ActivateMandate, SupersedeOthers, BookCharge, Renew, Answer, EnterGrace, ScheduleExpiry,
              MandateCall, CreateMandate, Activated, Charged, Halted, payVars
<1>2. CASE \E m \in Mandate : CancelMandate(m) \/ PauseMandate(m) \/ ResumeMandate(m)
  BY <1>2 DEF CancelMandate, PauseMandate, ResumeMandate, Ask, Send, Event
<1>3. CASE \E m \in Mandate : Marked(m)
  BY <1>3 DEF Marked, Mark
<1>4. CASE \E m \in Mandate : Authorise(m) \/ Charge(m) \/ GiveUp(m) \/ Complete(m)
  BY <1>4 DEF Authorise, Charge, GiveUp, Complete, Gives, Event
<1>5. CASE (\E job \in jobs : Dispatch(job)) \/ ExpireGrace \/ Tomorrow
  BY <1>5 DEF Dispatch, ExpireGrace, Tomorrow, payVars
<1>. QED BY <1>1, <1>2, <1>3, <1>4, <1>5 DEF MandateNext

(* A handler that starts or goes on towards a payment or a refund.         *)
LEMMA Owes ==
  ASSUME NEW p \in Everyone, Apart(p), Owed(handler'[p], payment', money'),
         Linking(handler'[p]) => \/ Linking(handler[p]) /\ handler'[p].by = handler[p].by
                                 \/ p \in Procs /\ \A q \in Procs : handler[q].by # handler'[p].by
  PROVE  OwingGoes
BY DEF OwingGoes, Apart

(* What a payment becomes when one is written.                             *)
LEMMA PaymentGoes ==
  ASSUME PaymentInv, NEW o \in Payments, NEW status, \A a \in Payments : payment'[a].status = IF a = o THEN status ELSE payment[a].status,
         money' = money, payment[o].status \in Paid => status = payment[o].status \/ status \in Back,
         status \in Paid => payment[o].status \in Paid \/ money[o] = "paid",
         payment[o].status = "none" => status = "none" \/ Done(o, {"insertPayment"})
  PROVE  PaymentsGo
BY DEF PaymentsGo, PaymentInv, MoneyOK

(* A payment that fails was not paid.                                      *)
LEMMA StatusesRest ==
  ASSUME PaymentInv, money' = money,
         \A a \in Payments : payment'[a].status = payment[a].status \/ (payment[a].status = "created" /\ payment'[a].status = "failed")
  PROVE  PaymentsGo
BY DEF PaymentsGo, Paid, PaymentInv, MoneyOK

(* A call about a payment, at its first step.                              *)
LEMMA OwesCall ==
  ASSUME HandlersOK, NEW p \in Procs, NEW o, NEW flow, NEW h, Begin(p, flow, h), DOMAIN h = DOMAIN Rest, h.by = o,
         Owed([h EXCEPT !.flow = flow], payment', money'),
         h.pc # "createLink", h.pc = "insertPayment" /\ flow = "link" => \A q \in Procs : handler[q].by # o
  PROVE  OwingGoes
<1>1. Apart(p) /\ handler'[p] = [h EXCEPT !.flow = flow] /\ p \in Everyone
  BY Began DEF Everyone
<1>2. handler'[p].pc = h.pc /\ handler'[p].by = o /\ handler'[p].flow = flow
  BY <1>1 DEF Rest
<1>. QED BY <1>1, <1>2, Owes DEF Linking

(* Checkout: the steps,                                                    *)
LEMMA CheckoutStepsPay ==
  ASSUME IInv, PaymentInv, NEW p \in Procs, CheckoutStep(p)
  PROVE  PaymentsGo /\ OwingGoes /\ sent' = sent
<1> DEFINE h == handler[p]
           o == h.by
<1>0. p \in Everyone /\ h \in Local /\ HandlersOK /\ PayOK /\ HoldsOK(h, DOMAIN rows) /\ Owed(h, payment, money)
  BY DEF Everyone, IInv, PaymentInv
<1>s. sent' = sent
  BY DEF CheckoutStep, InsertPayment, CreateLink, SaveLink, CloseLink, Capture, LinkRow, ClaimUpgrade, ApplyUpgrade, InsertScheduled, payVars
<1>d. \A a \in Payments : payment[a] \in Payment
  BY <1>0 DEF PayOK
<1>1. CASE InsertPayment(p)
  <2>1. h.pc = "insertPayment" /\ o \in Payments /\ payment[o].status = "none" /\ money' = money
        /\ payment' = [payment EXCEPT ![o] = [@ EXCEPT !.status = "created", !.sub = h.row]]
    BY <1>0, <1>1 DEF InsertPayment, On, HoldsOK, Owed
  <2>2. \A a \in Payments : payment'[a].status = IF a = o THEN "created" ELSE payment[a].status
    BY <1>0, <1>d, <2>1 DEF PayOK, Payment
  <2>3. CASE Goto(p, "createLink") /\ h.flow = "link"
    <3>1. Apart(p) /\ handler'[p].pc = "createLink" /\ handler'[p].by = o
      BY <1>0, <2>3 DEF Goto, Apart, Local
    <3>2. Linking(h)
      BY <2>1, <2>3 DEF Linking
    <3>3. Owed(handler'[p], payment', money')
      BY <1>0, <2>1, <3>1, <3>2 DEF Owed, Linking, Refunding
    <3>4. OwingGoes
      BY <1>0, <3>1, <3>2, <3>3, Owes
    <3>5. Done(o, {"insertPayment"})
      BY <1>0, <2>1, <3>1 DEF Done
    <3>. QED BY <1>0, <1>s, <2>1, <2>2, <3>4, <3>5, PaymentGoes DEF Paid
  <2>4. CASE Return(p)
    <3>1. OwingGoes
      BY <1>0, <2>4, PayingEnds, NothingOwed
    <3>2. handler'[p].pc = "idle"
      BY <1>0, <2>4, RestFields DEF Return
    <3>3. Done(o, {"insertPayment"})
      BY <1>0, <2>1, <3>2 DEF Done
    <3>. QED BY <1>0, <1>s, <2>1, <2>2, <3>1, <3>3, PaymentGoes DEF Paid
  <2>. QED BY <1>1, <2>3, <2>4 DEF InsertPayment
<1>2. CASE CreateLink(p)
  <2>1. h.pc = "createLink" /\ o \in Payments /\ KindOf[o] = "link" /\ money[o] = "none" /\ Linking(h)
        /\ payment' = payment /\ money' = [money EXCEPT ![o] = "open"] /\ Goto(p, "saveLink")
    BY <1>0, <1>2 DEF CreateLink, On, Owed, Linking
  <2>2. OwingGoes
    BY <1>0, <2>1, PayingGoes, NothingOwed DEF Paying, Refunding
  <2>3. handler'[p] # h
    BY <1>0, <2>1 DEF Goto, Local
  <2>4. PaymentsGo
    BY <1>0, <2>1, <2>3 DEF PaymentsGo, PaymentInv, MoneyOK
  <2>. QED BY <1>s, <2>2, <2>4
<1>3. CASE SaveLink(p) \/ LinkRow(p)
  <2>1. /\ Return(p) /\ money' = money
        /\ \/ payment' = [payment EXCEPT ![o].link = TRUE]
           \/ \E i : payment' = [payment EXCEPT ![o].sub = i]
    BY <1>3 DEF SaveLink, LinkRow
  <2>2. \A a \in Payments : payment'[a].status = payment[a].status
    <3>1. CASE payment' = [payment EXCEPT ![o].link = TRUE]
      BY <1>0, <1>d, <3>1 DEF PayOK, Payment
    <3>2. ASSUME NEW i, payment' = [payment EXCEPT ![o].sub = i] PROVE \A a \in Payments : payment'[a].status = payment[a].status
      BY <1>0, <1>d, <3>2 DEF PayOK, Payment
    <3>. QED BY <2>1, <3>1, <3>2
  <2>3. PaymentsGo
    BY <2>1, <2>2, StatusesRest
  <2>. QED BY <1>0, <1>s, <2>1, <2>3, PayingEnds, NothingOwed
<1>4. CASE CloseLink(p)
  <2>1. Return(p) /\ money' = money /\ FailPayment(o)
    BY <1>4 DEF CloseLink
  <2>2. \A a \in Payments : payment'[a].status = payment[a].status \/ (payment[a].status = "created" /\ payment'[a].status = "failed")
    BY <1>0, <1>d, <2>1 DEF PayOK, Payment, FailPayment
  <2>3. PaymentsGo
    BY <2>1, <2>2, StatusesRest
  <2>. QED BY <1>0, <1>s, <2>1, <2>3, PayingEnds, NothingOwed
<1>5. CASE Capture(p)
  <2>1. h.pc = "capture" /\ o \in Payments /\ money[o] = "paid" /\ money' = money
    BY <1>0, <1>5 DEF Capture, On, HoldsOK, Owed
  <2>2. CASE Capturable(o)
    <3>0. PICK pc \in {"applying", "subscribe"} : \E plan : handler' = [handler EXCEPT ![p].pc = pc, ![p].plan = plan]
      BY <1>5, <2>2 DEF Capture
    <3>1. PICK plan : handler' = [handler EXCEPT ![p].pc = pc, ![p].plan = plan]
      BY <3>0
    <3>2. payment' = [payment EXCEPT ![o].status = "captured"] /\ payment[o].status = "created"
      BY <1>5, <2>2 DEF Capture, Capturable
    <3>3. Apart(p) /\ handler'[p].pc = pc
      BY <1>0, <3>1 DEF Apart, Local
    <3>4. NoPaying
      BY <3>3 DEF NoPaying, Apart, Paying, Refunding
    <3>5. \A a \in Payments : payment'[a].status = IF a = o THEN "captured" ELSE payment[a].status
      BY <1>0, <1>d, <3>2 DEF PayOK, Payment
    <3>. QED BY <1>0, <1>s, <2>1, <3>2, <3>4, <3>5, PaymentGoes, NothingOwed DEF Paid
  <2>3. CASE ~Capturable(o)
    BY <1>0, <1>5, <1>s, <2>1, <2>3, MoneyRests, PayingEnds, NothingOwed DEF Capture
  <2>. QED BY <2>2, <2>3
<1>6. CASE ClaimUpgrade(p)
  <2>1. CASE Return(p) /\ payment' = payment
    BY <1>0, <1>6, <1>s, <2>1, MoneyRests, PayingEnds, NothingOwed DEF ClaimUpgrade
  <2>2. CASE ~(Return(p) /\ payment' = payment)
    <3>1. payment' = [payment EXCEPT ![o].sub = CurrentRow] /\ handler' = [handler EXCEPT ![p].pc = "upgrading", ![p].row = CurrentRow]
          /\ money' = money
      BY <1>6, <2>2 DEF ClaimUpgrade
    <3>2. \A a \in Payments : payment'[a].status = payment[a].status
      BY <1>0, <1>d, <3>1 DEF PayOK, Payment
    <3>3. Apart(p) /\ handler'[p].pc = "upgrading"
      BY <1>0, <3>1 DEF Apart, Local
    <3>4. NoPaying
      BY <3>3 DEF NoPaying, Apart, Paying, Refunding
    <3>5. PaymentsGo
      BY <3>1, <3>2, StatusesRest
    <3>. QED BY <1>s, <3>4, <3>5, NothingOwed
  <2>. QED BY <2>1, <2>2
<1>7. CASE ApplyUpgrade(p) \/ InsertScheduled(p)
  <2>1. payment' = payment /\ money' = money /\ (Return(p) \/ NextRow(p) \/ Goto(p, "inserted"))
    BY <1>7 DEF ApplyUpgrade, InsertScheduled, Insert, Write, payVars
  <2>2. {"inserted", "promoting"} \cap Paying = {}
    BY DEF Paying, Refunding
  <2>3. NoPaying
    BY <1>0, <2>1, <2>2, PayingEnds, PayingGoes DEF NextRow
  <2>. QED BY <1>s, <2>1, <2>3, MoneyRests, NothingOwed
<1>. QED BY <1>1, <1>2, <1>3, <1>4, <1>5, <1>6, <1>7 DEF CheckoutStep

(* ... the calls,                                                          *)
LEMMA CheckoutCallsPay ==
  ASSUME IInv, PaymentInv, NEW p \in Procs, CheckoutCall(p)
  PROVE  PaymentsGo /\ OwingGoes /\ \A e \in sent' : e \in sent \/ Reported(e, payment', money')
<1>0. p \in Everyone /\ HandlersOK
  BY DEF Everyone, IInv
<1>1. ASSUME NEW o \in Payments, CreateOrder(p, o) \/ RaiseUpgrade(p, o)
      PROVE  PaymentsGo /\ OwingGoes /\ sent' = sent
  <2>1. PICK flow \in {"order", "upgrade"} :
          /\ \/ Begin(p, flow, [Rest EXCEPT !.pc = "insertPayment", !.by = o])
             \/ Begin(p, flow, [Rest EXCEPT !.pc = "insertPayment", !.by = o, !.row = CurrentRow])
          /\ payment[o].status = "none" /\ money[o] = "none" /\ KindOf[o] # "link"
          /\ money' = [money EXCEPT ![o] = "open"] /\ payment' = payment /\ sent' = sent
    <3>1. CASE CreateOrder(p, o)
      BY <3>1 DEF CreateOrder, Untouched
    <3>2. CASE RaiseUpgrade(p, o)
      BY <3>2 DEF RaiseUpgrade, Untouched
    <3>. QED BY <1>1, <3>1, <3>2
  <2> DEFINE h == IF Begin(p, flow, [Rest EXCEPT !.pc = "insertPayment", !.by = o])
                    THEN [Rest EXCEPT !.pc = "insertPayment", !.by = o]
                    ELSE [Rest EXCEPT !.pc = "insertPayment", !.by = o, !.row = CurrentRow]
             g == [h EXCEPT !.flow = flow]
  <2>2. Begin(p, flow, h) /\ DOMAIN h = DOMAIN Rest /\ h.by = o /\ h.pc = "insertPayment"
    <3>1. Begin(p, flow, h)
      BY <2>1
    <3>2. DOMAIN h = DOMAIN Rest /\ h.by = o /\ h.pc = "insertPayment"
      BY DEF Rest
    <3>. QED BY <3>1, <3>2
  <2> HIDE DEF h
  <2>3. g.pc = "insertPayment" /\ g.by = o /\ g.flow = flow
    BY <2>2 DEF Rest
  <2> HIDE DEF g
  <2>4. Owed(g, payment', money')
    BY <2>1, <2>3 DEF Owed, Linking, Refunding
  <2> USE DEF g
  <2>5. OwingGoes
    BY <2>1, <2>2, <2>4, <1>0, OwesCall
  <2>6. PaymentsGo
    BY <2>1 DEF PaymentsGo, PaymentInv, MoneyOK
  <2>. QED BY <2>1, <2>5, <2>6
<1>2. ASSUME NEW o \in Payments, IssueLink(p, o)
      PROVE  PaymentsGo /\ OwingGoes /\ sent' = sent
  <2> DEFINE h == [Rest EXCEPT !.pc = "insertPayment", !.by = o]
             g == [h EXCEPT !.flow = "link"]
  <2>1. /\ Begin(p, "link", h) /\ KindOf[o] = "link" /\ payment[o].status = "none" /\ money[o] = "none"
        /\ \A q \in Procs : handler[q].by # o
        /\ payment' = payment /\ money' = money /\ sent' = sent
    BY <1>2 DEF IssueLink, Untouched, payVars
  <2>2. DOMAIN h = DOMAIN Rest /\ h.by = o /\ h.pc = "insertPayment"
    BY DEF Rest
  <2>3. g.pc = "insertPayment" /\ g.by = o /\ g.flow = "link"
    BY DEF Rest
  <2> HIDE DEF g
  <2>4. Owed(g, payment', money')
    BY <2>1, <2>3 DEF Owed, Linking, Refunding
  <2> USE DEF g
  <2> HIDE DEF h
  <2>. QED BY <2>1, <2>2, <2>4, <1>0, OwesCall, MoneyRests
<1>3. ASSUME NEW o \in Payments, CancelLink(p, o)
      PROVE  PaymentsGo /\ OwingGoes /\ sent' = sent \cup {Event("linkClosed", o, 0)}
  <2> DEFINE h == [Rest EXCEPT !.pc = "closeLink", !.by = o]
  <2>1. /\ Begin(p, "cancelLink", h) /\ money[o] = "open" /\ money' = [money EXCEPT ![o] = "closed"]
        /\ payment' = payment /\ sent' = sent \cup {Event("linkClosed", o, 0)}
    BY <1>3 DEF CancelLink, Send
  <2>2. DOMAIN h = DOMAIN Rest /\ h.pc \notin Paying
    BY DEF Rest, Paying, Refunding
  <2> HIDE DEF h
  <2>3. OwingGoes
    BY <1>0, <2>1, <2>2, PayingBegins, NothingOwed
  <2>4. PaymentsGo
    BY <2>1 DEF PaymentsGo, PaymentInv, MoneyOK
  <2>. QED BY <2>1, <2>3, <2>4
<1>4. ASSUME NEW o \in Payments, Confirm(p, o) \/ Captured(p, o)
      PROVE  PaymentsGo /\ OwingGoes /\ sent' = sent
  <2>0. payment' = payment /\ money' = money /\ sent' = sent
    BY <1>4 DEF Confirm, Captured, payVars
  <2>1. CASE handler' = handler
    BY <2>0, <2>1, PayingRests, NothingOwed, MoneyRests
  <2>2. CASE handler' # handler
    <3> DEFINE h == [Rest EXCEPT !.pc = "capture", !.by = o]
    <3>1. money[o] = "paid" /\ \E flow \in {"confirm", "captured", "linkPaid"} : Begin(p, flow, h)
      <4>1. CASE Confirm(p, o)
        BY <4>1 DEF Confirm
      <4>2. CASE Captured(p, o)
        <5> DEFINE type == IF KindOf[o] = "link" THEN "linkPaid" ELSE "captured"
        <5>1. Ingest(p, Event(type, o, 0), h)
          BY <2>2, <4>2 DEF Captured, Dispatched
        <5>2. Event(type, o, 0) \in sent /\ Begin(p, type, h)
          BY <5>1 DEF Ingest, Event
        <5>3. money[o] = "paid"
          BY <5>2 DEF PaymentInv, Reported, Event
        <5>. QED BY <5>2, <5>3
      <4>. QED BY <1>4, <4>1, <4>2
    <3>2. PICK flow \in {"confirm", "captured", "linkPaid"} : Begin(p, flow, h)
      BY <3>1
    <3> DEFINE g == [h EXCEPT !.flow = flow]
    <3>3. DOMAIN h = DOMAIN Rest /\ h.by = o /\ h.pc = "capture" /\ g.pc = "capture" /\ g.by = o
      BY DEF Rest
    <3> HIDE DEF g
    <3>4. Owed(g, payment', money')
      BY <2>0, <3>1, <3>3 DEF Owed, Linking, Refunding
    <3> USE DEF g
    <3> HIDE DEF h
    <3>. QED BY <1>0, <2>0, <3>2, <3>3, <3>4, OwesCall, MoneyRests
  <2>. QED BY <2>1, <2>2
<1>5. ASSUME NEW plan \in Plans, UpgradeForFree(p, plan) \/ Downgrade(p, plan)
      PROVE  PaymentsGo /\ OwingGoes /\ sent' = sent
  <2>0. payment' = payment /\ money' = money /\ sent' = sent
    BY <1>5 DEF UpgradeForFree, Downgrade, payVars
  <2>1. PICK flow \in {"upgradeFree", "downgrade"}, pc \in {"upgrading", "insertScheduled"} :
          Begin(p, flow, [Rest EXCEPT !.pc = pc, !.row = CurrentRow, !.plan = plan])
    BY <1>5 DEF UpgradeForFree, Downgrade
  <2> DEFINE h == [Rest EXCEPT !.pc = pc, !.row = CurrentRow, !.plan = plan]
  <2>2. Begin(p, flow, h) /\ DOMAIN h = DOMAIN Rest /\ h.pc \notin Paying
    BY <2>1 DEF Rest, Paying, Refunding
  <2> HIDE DEF h
  <2>. QED BY <1>0, <2>0, <2>2, PayingBegins, NothingOwed, MoneyRests
<1>6. \A o \in Payments : Reported(Event("linkClosed", o, 0), payment', money')
  BY RefundAssumption DEF Reported, Event
<1>. QED BY <1>1, <1>2, <1>3, <1>4, <1>5, <1>6 DEF CheckoutCall

(* ... the gateway and the customer.                                       *)
LEMMA GatewayPays ==
  ASSUME IInv, PaymentInv, NEW o \in Payments, PaymentFailed(o) \/ Pay(o) \/ AttemptFails(o) \/ LinkExpires(o)
  PROVE  PaymentsGo /\ OwingGoes /\ \A e \in sent' : e \in sent \/ Reported(e, payment', money')
<1>0. OwingGoes
  <2>1. handler' = handler
    BY DEF PaymentFailed, Dispatched, Pay, AttemptFails, LinkExpires, subVars
  <2>. QED BY <2>1, PayingRests, NothingOwed
<1>d. payment \in [Payments -> Payment] /\ \A a \in Payments : payment[a] \in Payment
  BY DEF IInv, PayOK
<1>1. CASE PaymentFailed(o)
  <2>1. money' = money /\ sent' = sent /\ (payment' = payment \/ FailPayment(o))
    BY <1>1 DEF PaymentFailed
  <2>2. \A a \in Payments : payment'[a].status = payment[a].status \/ (payment[a].status = "created" /\ payment'[a].status = "failed")
    BY <1>d, <2>1 DEF Payment, FailPayment
  <2>3. PaymentsGo
    BY <2>1, <2>2, StatusesRest
  <2>. QED BY <1>0, <2>1, <2>3
<1>m. MoneyOK
  BY DEF PaymentInv
<1>2. CASE Pay(o)
  <2> DEFINE type == IF KindOf[o] = "link" THEN "linkPaid" ELSE "captured"
  <2>1. /\ sent' = sent \cup {Event(type, o, 0)} /\ payment' = payment
        /\ money' = [money EXCEPT ![o] = "paid"] /\ money[o] = "open"
    BY <1>2 DEF Pay, Send
  <2>2. PaymentsGo /\ money'[o] = "paid"
    BY <1>m, <2>1 DEF PaymentsGo, MoneyOK
  <2>. QED BY <1>0, <2>1, <2>2, RefundAssumption DEF Reported, Event
<1>3. CASE AttemptFails(o)
  <2>1. sent' = sent \cup {Event("failed", o, 0)} /\ payment' = payment /\ money' = money
    BY <1>3 DEF AttemptFails, Send
  <2>. QED BY <1>0, <2>1, MoneyRests, RefundAssumption DEF Reported, Event
<1>4. CASE LinkExpires(o)
  <2>1. /\ sent' = sent \cup {Event("linkClosed", o, 0)} /\ payment' = payment
        /\ money' = [money EXCEPT ![o] = "closed"] /\ money[o] = "open"
    BY <1>4 DEF LinkExpires, Send
  <2>2. PaymentsGo
    BY <1>m, <2>1 DEF PaymentsGo, MoneyOK
  <2>. QED BY <1>0, <2>1, <2>2, RefundAssumption DEF Reported, Event
<1>. QED BY <1>1, <1>2, <1>3, <1>4

(* Refunds are of captured payments and leave them so: the steps,          *)
LEMMA RefundStepsPay ==
  ASSUME IInv, PaymentInv, NEW p \in Procs, RefundStep(p)
  PROVE  PaymentsGo /\ OwingGoes /\ ReportsGo
<1> DEFINE h == handler[p]
           r == h.by
           o == PayOf[r]
<1>0. p \in Everyone /\ h \in Local /\ HandlersOK /\ PayOK /\ HoldsOK(h, DOMAIN rows) /\ Owed(h, payment, money)
  BY DEF Everyone, IInv, PaymentInv
<1>1. h.pc \in Refunding \cup {"push", "sync"}
  BY DEF RefundStep, InsertRequest, Execute, ReadPayment, CreateRefund, StampRequest, RecordRefund, AutoDowngrade,
         Settle, PushRefund, SyncRequest, On, Refunding
<1>2. r \in Requests /\ o \in Payments /\ payment[o].status \in Paid
  BY <1>0, <1>1, RefundAssumption DEF HoldsOK, Owed
<1>3. money' = money
  BY DEF RefundStep, InsertRequest, Execute, ReadPayment, CreateRefund, StampRequest, RecordRefund, AutoDowngrade,
         Settle, PushRefund, SyncRequest, payVars
<1>4. PaymentsGo /\ payment'[o].status \in Paid
  <2>1. CASE payment' = payment
    BY <1>2, <1>3, <2>1, MoneyRests
  <2>2. CASE payment' # payment
    <3>1. PICK pc : Record(p, pc)
      BY <2>2 DEF RefundStep, InsertRequest, Execute, ReadPayment, CreateRefund, StampRequest, RecordRefund, AutoDowngrade,
                  Settle, PushRefund, SyncRequest, payVars
    <3> DEFINE status == IF h.n + request[r].amount >= Total THEN "refunded" ELSE "partially_refunded"
               new == IF status = h.was THEN payment[o].status ELSE status
    <3>2. payment' = [payment EXCEPT ![o].status = new, ![o].back = @ + request[r].amount]
      BY <3>1 DEF Record
    <3>3. new \in Paid /\ (new = payment[o].status \/ new \in Back)
      BY <1>2 DEF Paid, Back
    <3> HIDE DEF new, status
    <3>4. \A a \in Payments : payment'[a].status = IF a = o THEN new ELSE payment[a].status
      BY <1>0, <1>2, <3>2 DEF PayOK, Payment
    <3>5. payment[o].status # "none"
      BY <1>2 DEF Paid
    <3>. QED BY <1>2, <1>3, <3>3, <3>4, <3>5, PaymentGoes
  <2>. QED BY <2>1, <2>2
<1>5. OwingGoes
  <2>1. CASE Return(p)
    BY <1>0, <2>1, PayingEnds, NothingOwed
  <2>2. CASE ~Return(p)
    <3>1. /\ Apart(p) /\ handler'[p].by = r /\ handler'[p].pc \in Refunding \cup {"sync"}
          /\ handler'[p].pc \in {"createRefund", "stamp", "record"}
               => payment' = payment /\ (handler'[p].was = payment[o].status
                                          \/ (handler'[p].was = h.was /\ h.pc \in {"createRefund", "stamp"}))
      <4>1. CASE ReadPayment(p)
        <5>1. Read(p, "createRefund") /\ payment' = payment
          BY <4>1 DEF ReadPayment, payVars
        <5>. QED BY <1>0, <5>1 DEF Read, Apart, Local, Refunding
      <4>2. CASE ~ReadPayment(p)
        <5>1. CASE CreateRefund(p) \/ StampRequest(p)
          <6>1. PICK pc \in {"stamp", "record"} : Goto(p, pc)
            BY <2>2, <5>1 DEF CreateRefund, StampRequest, MarkFailed
          <6>2. payment' = payment /\ h.pc \in {"createRefund", "stamp"}
            BY <5>1 DEF CreateRefund, StampRequest, On, payVars
          <6>. QED BY <1>0, <6>1, <6>2 DEF Goto, Apart, Local, Refunding
        <5>2. CASE ~(CreateRefund(p) \/ StampRequest(p))
          <6>1. PICK pc \in (Refunding \cup {"sync"}) \ {"createRefund", "stamp", "record"} : Goto(p, pc)
            BY <2>2, <4>2, <5>2 DEF RefundStep, InsertRequest, Execute, RecordRefund, AutoDowngrade,
                                    Settle, PushRefund, SyncRequest, Record, Refunding
          <6>. QED BY <1>0, <6>1 DEF Goto, Apart, Local
        <5>. QED BY <5>1, <5>2
      <4>. QED BY <4>1, <4>2
    <3>2. Owed(handler'[p], payment', money')
      BY <1>0, <1>4, <3>1 DEF Owed, Linking, Refunding
    <3>. QED BY <1>0, <3>1, <3>2, Owes DEF Linking, Refunding
  <2>. QED BY <2>1, <2>2
<1>6. ReportsGo
  <2>1. sent' = sent \/ sent' = sent \cup {Event("refundCreated", r, 0)}
    BY DEF RefundStep, InsertRequest, Execute, ReadPayment, CreateRefund, StampRequest, RecordRefund, AutoDowngrade,
           Settle, PushRefund, SyncRequest, Send, payVars
  <2>2. Reported(Event("refundCreated", r, 0), payment', money')
    BY <1>2, <1>4, RefundAssumption DEF Reported, Event
  <2>3. /\ request' = request \/ \E d : request' = [request EXCEPT ![r] = d]
        /\ refunded' = refunded \/ refunded' = [refunded EXCEPT ![r] = @ + 1]
    <3>1. CASE InsertRequest(p) \/ ReadPayment(p) \/ RecordRefund(p) \/ AutoDowngrade(p) \/ PushRefund(p)
      BY <3>1 DEF InsertRequest, ReadPayment, RecordRefund, AutoDowngrade, PushRefund, refundVars
    <3>2. CASE Execute(p) \/ StampRequest(p) \/ Settle(p)
      BY <3>2 DEF Execute, StampRequest, Settle
    <3>3. CASE CreateRefund(p) \/ SyncRequest(p)
      BY <3>3 DEF CreateRefund, SyncRequest, MarkFailed
    <3>. QED BY <3>1, <3>2, <3>3 DEF RefundStep
  <2>4. \A a \in Requests : a # r => request'[a] = request[a] /\ refunded'[a] = refunded[a]
    BY <2>3 DEF IInv, RefOK
  <2>5. \A a \in Requests : recorded'[a] > 0 => recorded[a] > 0 \/ payment'[PayOf[a]].status \in Back
    <3>1. CASE RecordRefund(p) \/ PushRefund(p)
      <4>1. PICK pc : Record(p, pc)
        BY <3>1 DEF RecordRefund, PushRefund
      <4>2. h.was \in Back => payment[o].status \in Back
        BY <1>0, <3>1 DEF RecordRefund, PushRefund, On, Owed
      <4> DEFINE status == IF h.n + request[r].amount >= Total THEN "refunded" ELSE "partially_refunded"
                 new == IF status = h.was THEN payment[o].status ELSE status
      <4>3. payment' = [payment EXCEPT ![o].status = new, ![o].back = @ + request[r].amount]
            /\ recorded' = [recorded EXCEPT ![r] = @ + 1]
        BY <4>1 DEF Record
      <4>4. new \in Back
        BY <4>2 DEF Back
      <4> HIDE DEF new, status
      <4>5. payment'[o].status = new
        BY <1>0, <1>2, <4>3 DEF PayOK, Payment
      <4>6. \A a \in Requests : a # r => recorded'[a] = recorded[a]
        BY <4>3 DEF IInv, RefOK
      <4>. QED BY <4>4, <4>5, <4>6
    <3>2. CASE ~(RecordRefund(p) \/ PushRefund(p))
      <4>1. recorded' = recorded
        BY <3>2 DEF RefundStep, InsertRequest, Execute, ReadPayment, CreateRefund, StampRequest, AutoDowngrade, Settle, SyncRequest,
                    refundVars
      <4>. QED BY <4>1
    <3>. QED BY <3>1, <3>2
  <2>. QED BY <1>2, <2>1, <2>2, <2>4, <2>5 DEF ReportsGo, Asked
<1>. QED BY <1>4, <1>5, <1>6

(* ... the calls,                                                          *)
LEMMA RefundCallsPay ==
  ASSUME IInv, PaymentInv, NEW p \in Procs, NEW r \in Requests,
         \/ \E amount \in 1..Total, status \in {"approved", "pending_admin"} : RequestRefund(p, r, amount, status)
         \/ ApproveRequest(p, r)
         \/ \E type \in {"refundCreated", "refundProcessed"} : RefundEvent(p, r, type)
  PROVE  PaymentsGo /\ OwingGoes /\ ReportsGo
<1>0. p \in Everyone /\ HandlersOK
  BY DEF Everyone, IInv
<1>1. payment' = payment /\ money' = money /\ sent' = sent /\ refunded' = refunded /\ recorded' = recorded
  BY DEF RequestRefund, ApproveRequest, RefundEvent, payVars, refundVars
<1>2. ReportsGo
  <2>1. request' = request \/ (request[r].status = "pending_admin" /\ request' = [request EXCEPT ![r].status = "approved"])
    BY DEF RequestRefund, ApproveRequest, RefundEvent, refundVars
  <2>2. \A a \in Requests : request'[a] = request[a] \/ request[a].status = "pending_admin"
    BY <2>1 DEF IInv, RefOK
  <2>. QED BY <1>1, <2>2 DEF ReportsGo, Asked
<1>3. CASE handler' = handler
  BY <1>1, <1>2, <1>3, PayingRests, NothingOwed, MoneyRests
<1>4. CASE handler' # handler
  <2>1. payment[PayOf[r]].status \in Paid
    <3>1. CASE \E amount \in 1..Total, status \in {"approved", "pending_admin"} : RequestRefund(p, r, amount, status)
      BY <3>1 DEF RequestRefund, Paid
    <3>2. CASE ApproveRequest(p, r)
      <4>1. Asked(r)
        BY <3>2 DEF ApproveRequest, Asked
      <4>. QED BY <4>1 DEF PaymentInv
    <3>3. CASE \E type \in {"refundCreated", "refundProcessed"} : RefundEvent(p, r, type)
      <4>1. PICK type : Event(type, r, 0) \in sent
        BY <1>4, <3>3 DEF RefundEvent, Dispatched, Ingest
      <4>. QED BY <4>1 DEF PaymentInv, Reported, Event
    <3>. QED BY <3>1, <3>2, <3>3
  <2>2. /\ Apart(p) /\ handler'[p].by = r /\ handler'[p].pc \in Refunding \cup {"push"}
        /\ handler'[p].pc \notin {"createRefund", "stamp", "record"}
        /\ handler'[p].pc = "push" => handler'[p].was = payment[PayOf[r]].status
    <3>1. CASE \E amount \in 1..Total, status \in {"approved", "pending_admin"} : RequestRefund(p, r, amount, status)
      <4>1. PICK amount, status : Begin(p, "refund", [Rest EXCEPT !.pc = "insertRequest", !.by = r, !.n = amount, !.want = status])
        BY <3>1 DEF RequestRefund
      <4> DEFINE g == [Rest EXCEPT !.pc = "insertRequest", !.by = r, !.n = amount, !.want = status]
      <4>2. Begin(p, "refund", g) /\ DOMAIN g = DOMAIN Rest /\ g.pc = "insertRequest" /\ g.by = r
        BY <4>1 DEF Rest
      <4>3. Apart(p) /\ handler'[p] = [g EXCEPT !.flow = "refund"]
        BY <1>0, <4>2, Began
      <4> HIDE DEF g
      <4>. QED BY <4>2, <4>3 DEF Rest, Refunding
    <3>2. CASE ApproveRequest(p, r)
      <4>1. Begin(p, "approve", [Rest EXCEPT !.pc = "execute", !.by = r])
        BY <3>2 DEF ApproveRequest
      <4>2. Apart(p) /\ handler'[p] = [[Rest EXCEPT !.pc = "execute", !.by = r] EXCEPT !.flow = "approve"]
        BY <1>0, <4>1, Began
      <4>. QED BY <4>2 DEF Rest, Refunding
    <3>3. CASE \E type \in {"refundCreated", "refundProcessed"} : RefundEvent(p, r, type)
      <4>1. PICK type \in {"refundCreated", "refundProcessed"} : RefundEvent(p, r, type)
        BY <3>3
      <4> DEFINE a == PayOf[r]
                 g == [Rest EXCEPT !.pc = "push", !.by = r, !.row = payment[a].sub, !.was = payment[a].status,
                                   !.n = payment[a].back]
      <4>2. Ingest(p, Event(type, r, 0), g)
        BY <1>4, <4>1 DEF RefundEvent, Dispatched
      <4>3. Begin(p, type, g) /\ DOMAIN g = DOMAIN Rest /\ g.pc = "push" /\ g.by = r /\ g.was = payment[a].status
        BY <4>2 DEF Ingest, Event, Rest
      <4> HIDE DEF g
      <4>4. Apart(p) /\ handler'[p] = [g EXCEPT !.flow = type]
        BY <1>0, <4>3, Began
      <4>. QED BY <4>3, <4>4 DEF Rest
    <3>. QED BY <3>1, <3>2, <3>3
  <2>3. Owed(handler'[p], payment', money')
    BY <1>1, <2>1, <2>2 DEF Owed, Linking, Refunding
  <2>4. OwingGoes
    BY <1>0, <2>2, <2>3, Owes DEF Linking, Refunding
  <2>. QED BY <1>1, <1>2, <2>4, MoneyRests
<1>. QED BY <1>3, <1>4

(* ... and all steps.                                                      *)
LEMMA NextPays ==
  ASSUME IInv, PaymentInv, Next
  PROVE  PaymentsGo /\ OwingGoes /\ ReportsGo
<1>0. HandlersOK
  BY DEF IInv
<1>1. CASE \E p \in Procs : RefundStep(p) \/ RefundCall(p)
  BY <1>1, RefundStepsPay, RefundCallsPay DEF RefundCall
<1>2. CASE \E r \in Requests : RejectRequest(r) \/ ProcessRefund(r)
  <2>1. PICK r \in Requests : RejectRequest(r) \/ ProcessRefund(r)
    BY <1>2
  <2>2. handler' = handler /\ payment' = payment /\ money' = money /\ refunded' = refunded /\ recorded' = recorded
    BY <2>1 DEF RejectRequest, ProcessRefund, subVars, payVars, refundVars
  <2>3. ReportsGo
    <3>1. CASE RejectRequest(r)
      <4>1. sent' = sent /\ \A a \in Requests : request'[a] = request[a] \/ request[a].status = "pending_admin"
        BY <3>1 DEF RejectRequest, payVars, IInv, RefOK
      <4>. QED BY <2>2, <4>1 DEF ReportsGo, Asked
    <3>2. CASE ProcessRefund(r)
      <4>0. request' = request /\ sent' = sent \cup {Event("refundProcessed", r, 0)} /\ Asked(r)
        BY <3>2 DEF ProcessRefund, Send, refundVars, Asked
      <4>1. payment[PayOf[r]].status \in Paid
        BY <4>0 DEF PaymentInv
      <4>2. Reported(Event("refundProcessed", r, 0), payment', money')
        BY <2>2, <4>1, RefundAssumption DEF Reported, Event
      <4>. QED BY <2>2, <4>0, <4>2 DEF ReportsGo, Asked
    <3>. QED BY <2>1, <3>1, <3>2
  <2>. QED BY <2>2, <2>3, PayingRests, NothingOwed, MoneyRests
<1>3. CASE MandateNext /\ UNCHANGED refundVars
  <2>0. request' = request /\ refunded' = refunded /\ recorded' = recorded
    BY <1>3 DEF refundVars
  <2>1. CASE ~(CheckoutNext /\ UNCHANGED mandateVars)
    <3>1. NoPaying /\ payment' = payment /\ money' = money /\ \A e \in sent' : e \in sent \/ e.of \in Mandate
      BY <1>0, <1>3, <2>1, MandatePaying, MandateReports
    <3>2. \A e : e.of \in Mandate => Reported(e, payment', money')
      BY MandateAssumption, RefundAssumption DEF Reported
    <3>. QED BY <2>0, <3>1, <3>2, NothingOwed, MoneyRests DEF ReportsGo, Asked
  <2>2. CASE CheckoutNext
    <3>1. CASE \E p \in Procs : CheckoutStep(p) \/ CheckoutCall(p)
      BY <2>0, <3>1, CheckoutStepsPay, CheckoutCallsPay DEF ReportsGo, Asked
    <3>2. CASE \E o \in Payments : PaymentFailed(o) \/ Pay(o) \/ AttemptFails(o) \/ LinkExpires(o)
      BY <2>0, <3>2, GatewayPays DEF ReportsGo, Asked
    <3>3. CASE SubscriptionNext /\ UNCHANGED payVars
      <4>1. NoPaying /\ payment' = payment /\ money' = money /\ sent' = sent
        BY <1>0, <3>3, SubscriptionPaying DEF payVars
      <4>. QED BY <2>0, <4>1, NothingOwed, MoneyRests DEF ReportsGo, Asked
    <3>. QED BY <2>2, <3>1, <3>2, <3>3 DEF CheckoutNext
  <2>. QED BY <2>1, <2>2
<1>. QED BY <1>1, <1>2, <1>3 DEF Next, RefundNext

(* So the invariant of payments holds.                                     *)
LEMMA PaymentsHold == Spec => [](IInv /\ PaymentInv)
<1>1. Init => PaymentInv
  <2> SUFFICES ASSUME Init PROVE PaymentInv
    OBVIOUS
  <2>1. RefundInit /\ MandateInit /\ CheckoutInit /\ SubInit
    BY DEF Init, RefundInit, MandateInit, CheckoutInit
  <2>2. \A p \in Everyone : handler[p].pc = "idle"
    BY <2>1, RestFields DEF SubInit, Everyone
  <2>3. sent = {} /\ MoneyOK /\ \A o \in Payments : payment[o].status = "none"
    BY <2>1 DEF CheckoutInit, MoneyOK, NoPayment
  <2>4. \A i \in DOMAIN rows : rows[i].paidBy = None
    BY <2>1 DEF SubInit, NewRow
  <2>5. \A r \in Requests : ~Asked(r) /\ ~(recorded[r] > 0)
    BY <2>1 DEF RefundInit, NoRequest, Asked
  <2>. QED BY <2>2, <2>3, <2>4, <2>5, NoneOK DEF PaymentInv, Owed, Linking, Refunding, Buying, Bound, Paid, Everyone
<1>2. ASSUME IInv, IInv', PaymentInv, Next PROVE PaymentInv'
  <2>1. Flow \/ Sale
    BY <1>2, NextFine DEF IInv, Next
  <2>. QED BY <1>2, <2>1, NextPays, PaymentsKept
<1>3. ASSUME PaymentInv, vars' = vars PROVE PaymentInv'
  BY <1>3 DEF vars, subVars, payVars, mandateVars, refundVars, PaymentInv, MoneyOK, Bound, Asked
<1>4. IInv /\ IInv' /\ PaymentInv /\ [Next]_vars => PaymentInv'
  BY <1>2, <1>3
<1>. QED BY <1>1, <1>4, Inductive, PTL DEF Spec

(* confirmPayment, the webhooks and the jobs come in any order, repeated   *)
(* and with deaths between: a row bought with an order or a link is of one *)
(* that was paid and captured, and no mandate's period ends after the last *)
(* cycle charged.                                                          *)
THEOREM MoneyFirst == Spec => []PaidFor
<1>1. ASSUME MandateInv, PaymentInv PROVE PaidFor
  BY <1>1 DEF MandateInv, Backed, PaymentInv, Bound, Paid, PaidFor
<1>. QED BY <1>1, MandatesHold, PaymentsHold, PTL

-----------------------------------------------------------------------------
(* Refunds on the books: both events about a refund are lost only when a   *)
(* handler died with each.                                                 *)

Reports == {"refundCreated", "refundProcessed"}

(* The event of this type about r was taken up, and its handler is no      *)
(* longer at the entry it is to write.                                     *)
Gone(t, r) ==
  /\ Event(t, r, 0) \in seen
  /\ \A q \in Everyone : ~(handler[q].pc = "push" /\ handler[q].by = r /\ handler[q].flow = t)

(* The part of the invariant about deaths.                                 *)
LossInv ==
  /\ crashes \in Nat
  /\ \A r \in Requests : recorded[r] = 0 =>
       /\ \A t \in Reports : Gone(t, r) => crashes >= 1
       /\ (\A t \in Reports : Gone(t, r)) => crashes >= 2

(* A step that neither takes up such an event nor ends its handler.        *)
BooksRest ==
  /\ \A q \in Everyone : handler[q].pc = "push" => handler'[q] = handler[q]
  /\ \A t \in Reports, r \in Requests : Event(t, r, 0) \in seen' => Event(t, r, 0) \in seen
  /\ crashes' = crashes
  /\ \A r \in Requests : recorded[r] > 0 => recorded'[r] > 0

(* That keeps the invariant.                                               *)
LEMMA BooksKept ==
  ASSUME RefOK, RefOK', LossInv, BooksRest
  PROVE  LossInv'
<1>1. \A r \in Requests : recorded'[r] = 0 => recorded[r] = 0
  BY DEF RefOK, BooksRest
<1>2. \A r \in Requests, t \in Reports : Gone(t, r)' => Gone(t, r)
  BY DEF Gone, BooksRest
<1>. QED BY <1>1, <1>2 DEF LossInv, BooksRest

(* A handler that is not at such an entry moves.                           *)
LEMMA OthersRest ==
  ASSUME NEW p \in Everyone, Apart(p), handler[p].pc # "push"
  PROVE  \A q \in Everyone : handler[q].pc = "push" => handler'[q] = handler[q]
BY DEF Apart

(* What handlers do changes no other handler.                              *)
LEMMA Apartly ==
  ASSUME HandlersOK, NEW p \in Everyone
  PROVE  /\ Return(p) => Apart(p)
         /\ NextRow(p) => Apart(p)
         /\ \A pc : Goto(p, pc) => Apart(p)
         /\ \A rs, pc : Write(p, rs, pc) => Apart(p)
         /\ \A rs, pc : Set(p, rs, pc) => Apart(p)
         /\ \A flow, h : Begin(p, flow, h) => Apart(p) /\ handler[p].pc = "idle"
         /\ \A e, h : Ingest(p, e, h) => Apart(p) /\ handler[p].pc = "idle" /\ seen' = seen \cup {e}
         /\ \A e : Dispatched(e) => Apart(p) /\ seen' = seen \cup {e} /\ handler' = handler /\ crashes' = crashes
<1>1. ASSUME NEW h, handler' = [handler EXCEPT ![p] = h] PROVE Apart(p)
  BY <1>1 DEF Apart
<1>2. /\ Return(p) => Apart(p)
      /\ \A pc : Goto(p, pc) => Apart(p)
      /\ \A flow, h : Begin(p, flow, h) => Apart(p) /\ handler[p].pc = "idle"
  BY DEF Return, Goto, Begin, Busy, Apart
<1>3. NextRow(p) => Apart(p)
  BY <1>2 DEF NextRow
<1>4. \A rs, pc : Write(p, rs, pc) => Apart(p)
  BY <1>2, <1>3 DEF Write
<1>5. \A rs, pc : Set(p, rs, pc) => Apart(p)
  BY <1>2 DEF Set
<1>6. \A e, h : Ingest(p, e, h) => Apart(p) /\ handler[p].pc = "idle" /\ seen' = seen \cup {e}
  BY <1>2 DEF Ingest
<1>7. \A e : Dispatched(e) => Apart(p) /\ seen' = seen \cup {e} /\ handler' = handler /\ crashes' = crashes
  BY DEF Dispatched, Apart
<1>. QED BY <1>2, <1>3, <1>4, <1>5, <1>6, <1>7

(* Operations on subscriptions are such steps, deaths excepted,            *)
Standing == \A q \in Everyone : handler[q].pc = "push" => handler'[q] = handler[q]

LEMMA SubscriptionStanding ==
  ASSUME HandlersOK, SubscriptionNext, ~\E p \in Everyone : Crash(p)
  PROVE  Standing /\ crashes' = crashes
<1>1. ASSUME NEW p \in Procs, Step(p) PROVE Apart(p) /\ handler[p].pc # "push" /\ crashes' = crashes
  <2>0. p \in Everyone
    BY DEF Everyone
  <2>1. handler[p].pc # "push" /\ crashes' = crashes
    BY <1>1 DEF Step, SupersedeOld, SupersedeLive, ReadCurrent, InsertSubscription, Inserted, InsertFree, InsertTrial,
                SaveCancelled, ForceSave, PromoteNext, Activate, DowngradeTrial, ExpireLapsed, On
  <2>2. CASE ReadCurrent(p)
    <3>1. CASE Return(p)
      BY <2>0, <2>1, <3>1, Apartly
    <3>2. CASE ~Return(p)
      <4>0. PICK pc \in {"insert", "supersedeOld"} : \E row, want : handler' = [handler EXCEPT ![p].pc = pc, ![p].row = row, ![p].want = want]
        BY <2>2, <3>2 DEF ReadCurrent
      <4>1. PICK row, want : handler' = [handler EXCEPT ![p].pc = pc, ![p].row = row, ![p].want = want]
        BY <4>0
      <4>. QED BY <2>0, <2>1, <4>1 DEF Apart
    <3>. QED BY <3>1, <3>2
  <2>3. CASE PromoteNext(p)
    <3>1. Return(p) \/ \E row, todo : handler' = [handler EXCEPT ![p].pc = "supersedeOld", ![p].row = row, ![p].todo = todo]
      BY <2>3 DEF PromoteNext
    <3>. QED BY <2>0, <2>1, <3>1, Apartly DEF Apart
  <2>4. CASE DowngradeTrial(p)
    <3>1. Return(p) \/ \E todo : handler' = [handler EXCEPT ![p].todo = todo]
      BY <2>4 DEF DowngradeTrial
    <3>. QED BY <2>0, <2>1, <3>1, Apartly DEF Apart
  <2>5. CASE SupersedeOld(p) \/ SupersedeLive(p) \/ Inserted(p) \/ SaveCancelled(p) \/ ExpireLapsed(p)
    <3>1. Return(p) \/ \E pc : Goto(p, pc)
      BY <2>5 DEF SupersedeOld, SupersedeLive, Inserted, SaveCancelled, ExpireLapsed
    <3>. QED BY <2>0, <2>1, <3>1, Apartly
  <2>6. CASE InsertSubscription(p) \/ InsertFree(p) \/ InsertTrial(p) \/ ForceSave(p) \/ Activate(p)
    <3>1. \E rs, pc : Write(p, rs, pc)
      BY <2>6 DEF InsertSubscription, InsertFree, InsertTrial, ForceSave, Activate, Insert
    <3>. QED BY <2>0, <2>1, <3>1, Apartly
  <2>. QED BY <1>1, <2>2, <2>3, <2>4, <2>5, <2>6 DEF Step
<1>2. ASSUME NEW p \in Procs, Call(p) PROVE Apart(p) /\ handler[p].pc # "push" /\ crashes' = crashes
  <2>0. p \in Everyone
    BY DEF Everyone
  <2>1. crashes' = crashes
    BY <1>2 DEF Call, Subscribe, Heal, StartTrial, Cancel, CancelScheduled, ForceActivate, Promote, Expire
  <2>2. CASE \E plan \in Plans \cap traffic, want \in {"active", "scheduled"} : Subscribe(p, plan, want)
    BY <2>0, <2>1, <2>2, Apartly DEF Subscribe
  <2>3. CASE Heal(p) \/ StartTrial(p)
    BY <2>0, <2>1, <2>3, Apartly DEF Heal, StartTrial
  <2>4. CASE Cancel(p) \/ CancelScheduled(p) \/ ForceActivate(p)
    BY <2>0, <2>1, <2>4, Apartly DEF Cancel, CancelScheduled, ForceActivate
  <2>5. CASE Promote(p) \/ Expire(p)
    BY <2>0, <2>1, <2>5, Apartly DEF Promote, Expire
  <2>. QED BY <1>2, <2>2, <2>3, <2>4, <2>5 DEF Call
<1>3. CASE \E i \in DOMAIN rows : PeriodEnds(i)
  BY <1>3 DEF PeriodEnds, Standing
<1>. QED BY <1>1, <1>2, <1>3, OthersRest DEF SubscriptionNext, Standing, Everyone

(* ... of checkout,                                                        *)
LEMMA CheckoutBooks ==
  ASSUME IInv, CheckoutNext, recorded' = recorded, ~((\E p \in Everyone : Crash(p)) /\ UNCHANGED payVars)
  PROVE  BooksRest
<1>0. HandlersOK
  BY DEF IInv
<1>r. \A r \in Requests : r \notin Payments
  BY RefundAssumption
<1>1. ASSUME NEW p \in Procs, CheckoutStep(p) PROVE BooksRest
  <2>0. p \in Everyone
    BY DEF Everyone
  <2>1. handler[p].pc # "push" /\ crashes' = crashes /\ seen' = seen
    BY <1>1 DEF CheckoutStep, InsertPayment, CreateLink, SaveLink, CloseLink, Capture, LinkRow, ClaimUpgrade, ApplyUpgrade,
                InsertScheduled, On, payVars
  <2>2. Apart(p)
    <3>1. CASE Capture(p)
      <4>1. Return(p) \/ \E pc, plan : handler' = [handler EXCEPT ![p].pc = pc, ![p].plan = plan]
        BY <3>1 DEF Capture
      <4>. QED BY <1>0, <2>0, <4>1, Apartly DEF Apart
    <3>2. CASE ClaimUpgrade(p)
      <4>1. Return(p) \/ \E row : handler' = [handler EXCEPT ![p].pc = "upgrading", ![p].row = row]
        BY <3>2 DEF ClaimUpgrade
      <4>. QED BY <1>0, <2>0, <4>1, Apartly DEF Apart
    <3>3. CASE InsertScheduled(p)
      <4>1. \E rs, pc : Write(p, rs, pc)
        BY <3>3 DEF InsertScheduled, Insert
      <4>. QED BY <1>0, <2>0, <4>1, Apartly
    <3>4. CASE InsertPayment(p) \/ CreateLink(p) \/ SaveLink(p) \/ CloseLink(p) \/ LinkRow(p) \/ ApplyUpgrade(p)
      <4>1. Return(p) \/ \E pc : Goto(p, pc)
        BY <3>4 DEF InsertPayment, CreateLink, SaveLink, CloseLink, LinkRow, ApplyUpgrade
      <4>. QED BY <1>0, <2>0, <4>1, Apartly
    <3>. QED BY <1>1, <3>1, <3>2, <3>3, <3>4 DEF CheckoutStep
  <2>. QED BY <2>0, <2>1, <2>2, OthersRest DEF BooksRest
<1>2. ASSUME NEW p \in Procs, NEW o \in Payments, \/ CreateOrder(p, o) \/ IssueLink(p, o) \/ CancelLink(p, o)
                                                  \/ Confirm(p, o) \/ Captured(p, o) \/ RaiseUpgrade(p, o)
      PROVE  BooksRest
  <2>0. p \in Everyone
    BY DEF Everyone
  <2>1. CASE CreateOrder(p, o) \/ IssueLink(p, o) \/ CancelLink(p, o) \/ Confirm(p, o) \/ RaiseUpgrade(p, o)
    <3>1. seen' = seen /\ crashes' = crashes /\ \E flow, h : Begin(p, flow, h)
      BY <2>1 DEF CreateOrder, IssueLink, CancelLink, Confirm, RaiseUpgrade, payVars
    <3>. QED BY <1>0, <2>0, <3>1, Apartly, OthersRest DEF BooksRest
  <2>2. CASE Captured(p, o)
    <3> DEFINE e == Event(IF KindOf[o] = "link" THEN "linkPaid" ELSE "captured", o, 0)
    <3>1. Dispatched(e) \/ (crashes' = crashes /\ \E h : Ingest(p, e, h))
      BY <2>2 DEF Captured
    <3>2. \A t \in Reports, r \in Requests : Event(t, r, 0) # e
      BY <1>r DEF Event
    <3> HIDE DEF e
    <3>3. CASE Dispatched(e)
      BY <1>0, <2>0, <3>2, <3>3, Apartly DEF BooksRest
    <3>4. CASE crashes' = crashes /\ \E h : Ingest(p, e, h)
      BY <1>0, <2>0, <3>2, <3>4, Apartly, OthersRest DEF BooksRest
    <3>. QED BY <3>1, <3>3, <3>4
  <2>. QED BY <1>2, <2>1, <2>2
<1>3. ASSUME NEW p \in Procs, NEW plan \in Plans, UpgradeForFree(p, plan) \/ Downgrade(p, plan) PROVE BooksRest
  <2>1. seen' = seen /\ crashes' = crashes /\ p \in Everyone /\ \E flow, h : Begin(p, flow, h)
    BY <1>3 DEF UpgradeForFree, Downgrade, payVars, Everyone
  <2>. QED BY <1>0, <2>1, Apartly, OthersRest DEF BooksRest
<1>4. ASSUME NEW o \in Payments, PaymentFailed(o) PROVE BooksRest
  <2>1. PICK type : Dispatched(Event(type, o, 0))
    BY <1>4 DEF PaymentFailed
  <2>2. \A t \in Reports, r \in Requests : Event(t, r, 0) # Event(type, o, 0)
    BY <1>r DEF Event
  <2>. QED BY <2>1, <2>2 DEF BooksRest, Dispatched
<1>5. ASSUME NEW o \in Payments, Pay(o) \/ AttemptFails(o) \/ LinkExpires(o) PROVE BooksRest
  BY <1>5 DEF Pay, AttemptFails, LinkExpires, BooksRest, subVars
<1>6. CASE SubscriptionNext /\ UNCHANGED payVars
  BY <1>0, <1>6, SubscriptionStanding DEF BooksRest, Standing, payVars
<1>. QED BY <1>1, <1>2, <1>3, <1>4, <1>5, <1>6 DEF CheckoutNext, CheckoutCall

(* ... and on mandates.                                                    *)
LEMMA MandateBooks ==
  ASSUME IInv, MandateNext, recorded' = recorded, ~((\E p \in Everyone : Crash(p)) /\ UNCHANGED payVars)
  PROVE  BooksRest
<1>0. HandlersOK
  BY DEF IInv
<1>r. \A r \in Requests : r \notin Mandate
  BY RefundAssumption
<1>1. ASSUME NEW p \in Procs, MandateStep(p) PROVE BooksRest
  <2>0. p \in Everyone
    BY DEF Everyone
  <2>1. handler[p].pc # "push" /\ crashes' = crashes /\ seen' = seen
    BY <1>1 DEF MandateStep, InsertPending, ActivateMandate, SupersedeOthers, BookCharge, Renew, Answer, EnterGrace, ScheduleExpiry,
                On, payVars
  <2>2. Apart(p)
    <3>1. CASE EnterGrace(p)
      <4>1. Return(p) \/ handler' = [handler EXCEPT ![p].pc = "schedule", ![p].n = day + Grace]
        BY <3>1 DEF EnterGrace
      <4>. QED BY <1>0, <2>0, <4>1, Apartly DEF Apart
    <3>2. CASE ActivateMandate(p) \/ Renew(p)
      <4>1. Return(p) \/ (\E pc : Goto(p, pc)) \/ \E rs, pc : Set(p, rs, pc)
        BY <3>2 DEF ActivateMandate, Renew
      <4>. QED BY <1>0, <2>0, <4>1, Apartly
    <3>3. CASE InsertPending(p) \/ SupersedeOthers(p) \/ BookCharge(p) \/ Answer(p) \/ ScheduleExpiry(p)
      <4>1. Return(p) \/ \E pc : Goto(p, pc)
        BY <3>3 DEF InsertPending, SupersedeOthers, BookCharge, Answer, ScheduleExpiry
      <4>. QED BY <1>0, <2>0, <4>1, Apartly
    <3>. QED BY <1>1, <3>1, <3>2, <3>3 DEF MandateStep
  <2>. QED BY <2>0, <2>1, <2>2, OthersRest DEF BooksRest
<1>2. ASSUME NEW p \in Procs, NEW m \in Mandate, CreateMandate(p, m) PROVE BooksRest
  <2>1. seen' = seen /\ crashes' = crashes /\ p \in Everyone /\ \E flow, h : Begin(p, flow, h)
    BY <1>2 DEF CreateMandate, payVars, Everyone
  <2>. QED BY <1>0, <2>1, Apartly, OthersRest DEF BooksRest
<1>3. ASSUME NEW p \in Procs, NEW m \in Mandate, Activated(p, m) \/ Charged(p, m) \/ Halted(p, m) PROVE BooksRest
  <2>0. p \in Everyone
    BY DEF Everyone
  <2>1. PICK type, n : \/ Dispatched(Event(type, m, n))
                       \/ crashes' = crashes /\ \E h : Ingest(p, Event(type, m, n), h)
    BY <1>3 DEF Activated, Charged, Halted
  <2> DEFINE e == Event(type, m, n)
  <2>2. \A t \in Reports, r \in Requests : Event(t, r, 0) # e
    BY <1>r DEF Event
  <2> HIDE DEF e
  <2>3. CASE Dispatched(e)
    BY <1>0, <2>0, <2>2, <2>3, Apartly DEF BooksRest
  <2>4. CASE crashes' = crashes /\ \E h : Ingest(p, e, h)
    BY <1>0, <2>0, <2>2, <2>4, Apartly, OthersRest DEF BooksRest
  <2>. QED BY <2>1, <2>3, <2>4 DEF e
<1>4. ASSUME NEW m \in Mandate, \/ CancelMandate(m) \/ PauseMandate(m) \/ ResumeMandate(m)
                                \/ Authorise(m) \/ Charge(m) \/ GiveUp(m) \/ Complete(m)
      PROVE  BooksRest
  BY <1>4 DEF CancelMandate, PauseMandate, ResumeMandate, Ask, Authorise, Charge, GiveUp, Complete, Gives, BooksRest, subVars
<1>5. ASSUME NEW m \in Mandate, Marked(m) PROVE BooksRest
  <2>1. PICK type : Dispatched(Event(type, m, 0))
    BY <1>5 DEF Marked, Mark
  <2>2. \A t \in Reports, r \in Requests : Event(t, r, 0) # Event(type, m, 0)
    BY <1>r DEF Event
  <2>. QED BY <2>1, <2>2 DEF BooksRest, Dispatched
<1>6. ASSUME NEW job \in jobs, Dispatch(job) PROVE BooksRest
  BY <1>0, <1>6 DEF Dispatch, BooksRest, Busy, payVars
<1>7. CASE ExpireGrace
  <2>1. Worker \in Everyone /\ Return(Worker) /\ handler[Worker].pc # "push" /\ seen' = seen /\ crashes' = crashes
    BY <1>7 DEF ExpireGrace, On, payVars, Everyone
  <2>. QED BY <1>0, <2>1, Apartly, OthersRest DEF BooksRest
<1>8. CASE Tomorrow
  BY <1>8 DEF Tomorrow, BooksRest, subVars, payVars
<1>9. CASE CheckoutNext
  BY <1>9, CheckoutBooks
<1>. QED BY <1>1, <1>2, <1>3, <1>4, <1>5, <1>6, <1>7, <1>8, <1>9 DEF MandateNext, MandateCall

(* A death loses one event at most,                                        *)
LEMMA DeathCounts ==
  ASSUME IInv, LossInv, NEW p \in Everyone, Crash(p), seen' = seen, recorded' = recorded
  PROVE  LossInv'
<1> DEFINE h == handler[p]
<1>0. HandlersOK /\ crashes \in Nat /\ crashes' = crashes + 1
  BY DEF IInv, LossInv, Crash
<1>1. Apart(p)
  BY <1>0, Apartly DEF Crash
<1>2. \A t \in Reports, r \in Requests : Gone(t, r)' => Gone(t, r) \/ (h.by = r /\ h.flow = t)
  BY <1>1 DEF Gone, Apart
<1>3. ASSUME NEW r \in Requests, recorded'[r] = 0, \A t \in Reports : Gone(t, r)' PROVE crashes' >= 2
  <2>1. PICK t \in Reports : h.flow # t
    BY DEF Reports
  <2>2. Gone(t, r)
    BY <1>2, <1>3, <2>1
  <2>3. crashes >= 1
    BY <1>3, <2>2 DEF LossInv
  <2>. QED BY <1>0, <2>3
<1>4. crashes' \in Nat /\ crashes' >= 1
  BY <1>0
<1>. QED BY <1>3, <1>4 DEF LossInv

(* ... the entry of the other is written.                                  *)
LEMMA RefundBooks ==
  ASSUME IInv, LossInv, RefOK', NEW p \in Procs, RefundStep(p)
  PROVE  LossInv'
<1> DEFINE h == handler[p]
<1>0. p \in Everyone /\ HandlersOK /\ h \in Local /\ HoldsOK(h, DOMAIN rows) /\ RefOK
  BY DEF Everyone, IInv
<1>1. seen' = seen /\ crashes' = crashes
  BY DEF RefundStep, InsertRequest, Execute, ReadPayment, CreateRefund, StampRequest, RecordRefund, AutoDowngrade,
         Settle, PushRefund, SyncRequest, payVars
<1>2. Apart(p)
  <2>1. CASE ReadPayment(p)
    BY <1>0, <2>1 DEF ReadPayment, Read, Apart
  <2>2. CASE ~ReadPayment(p)
    <3>1. Return(p) \/ \E pc : Goto(p, pc)
      BY <2>2 DEF RefundStep, InsertRequest, Execute, CreateRefund, StampRequest, RecordRefund, AutoDowngrade,
                  Settle, PushRefund, SyncRequest, Record, MarkFailed
    <3>. QED BY <1>0, <3>1, Apartly
  <2>. QED BY <2>1, <2>2
<1>3. recorded' = recorded \/ (h.by \in Requests /\ recorded' = [recorded EXCEPT ![h.by] = @ + 1])
  <2>1. CASE RecordRefund(p) \/ PushRefund(p)
    <3>1. recorded' = [recorded EXCEPT ![h.by] = @ + 1] /\ h.pc \in {"record", "push"}
      BY <2>1 DEF RecordRefund, PushRefund, Record, On
    <3>. QED BY <1>0, <3>1 DEF HoldsOK, Refunding
  <2>2. CASE ~(RecordRefund(p) \/ PushRefund(p))
    BY <2>2 DEF RefundStep, InsertRequest, Execute, ReadPayment, CreateRefund, StampRequest, AutoDowngrade, Settle, SyncRequest, refundVars
  <2>. QED BY <2>1, <2>2
<1>4. \A r \in Requests : recorded[r] \in Nat /\ (recorded'[r] = 0 => recorded[r] = 0)
  BY <1>0, <1>3 DEF RefOK
<1>5. CASE h.pc # "push"
  <2>1. BooksRest
    BY <1>0, <1>1, <1>2, <1>4, <1>5, OthersRest DEF BooksRest, RefOK
  <2>. QED BY <1>0, <2>1, BooksKept
<1>6. CASE h.pc = "push"
  <2>1. PushRefund(p)
    BY <1>6 DEF RefundStep, InsertRequest, Execute, ReadPayment, CreateRefund, StampRequest, RecordRefund, AutoDowngrade,
                Settle, SyncRequest, On
  <2>2. h.by \in Requests /\ recorded' = [recorded EXCEPT ![h.by] = @ + 1]
    BY <1>0, <1>6, <2>1 DEF PushRefund, Record, HoldsOK
  <2>3. recorded'[h.by] # 0
    BY <1>0, <2>2 DEF RefOK
  <2>4. \A t \in Reports, r \in Requests : r # h.by /\ Gone(t, r)' => Gone(t, r)
    BY <1>1, <1>2 DEF Gone, Apart
  <2>. QED BY <1>1, <1>4, <2>3, <2>4 DEF LossInv
<1>. QED BY <1>5, <1>6

(* An event that is taken up is not lost yet.                              *)
LEMMA EventTaken ==
  ASSUME IInv, LossInv, NEW p \in Procs, NEW r \in Requests, NEW type \in Reports, RefundEvent(p, r, type)
  PROVE  LossInv'
<1> DEFINE e == Event(type, r, 0)
<1>0. p \in Everyone /\ HandlersOK /\ RefOK /\ recorded' = recorded
  BY DEF Everyone, IInv, RefundEvent, refundVars
<1>1. CASE Already(r)
  <2>1. seen' = seen \cup {e} /\ handler' = handler /\ crashes' = crashes
    BY <1>1 DEF RefundEvent, Dispatched
  <2>2. recorded[r] # 0
    BY <1>1 DEF Already
  <2>3. \A t \in Reports, a \in Requests : a # r /\ Gone(t, a)' => Gone(t, a)
    BY <2>1 DEF Gone, Event
  <2>. QED BY <1>0, <2>1, <2>2, <2>3 DEF LossInv
<1>2. CASE ~Already(r)
  <2> DEFINE o == PayOf[r]
             h == [Rest EXCEPT !.pc = "push", !.by = r, !.row = payment[o].sub, !.was = payment[o].status, !.n = payment[o].back]
  <2>1. Ingest(p, e, h) /\ crashes' = crashes
    BY <1>2 DEF RefundEvent
  <2>2. Begin(p, type, h) /\ seen' = seen \cup {e} /\ handler[p].pc = "idle" /\ DOMAIN h = DOMAIN Rest /\ h.pc = "push" /\ h.by = r
    BY <2>1 DEF Ingest, Begin, Busy, Event, Rest
  <2> HIDE DEF h
  <2>3. Apart(p) /\ handler'[p] = [h EXCEPT !.flow = type]
    BY <1>0, <2>2, Began
  <2>4. handler'[p].pc = "push" /\ handler'[p].by = r /\ handler'[p].flow = type
    BY <2>2, <2>3 DEF Rest
  <2>5. \A t \in Reports, a \in Requests : Gone(t, a)' => Gone(t, a)
    <3>1. SUFFICES ASSUME NEW t \in Reports, NEW a \in Requests, Gone(t, a)' PROVE Gone(t, a)
      OBVIOUS
    <3>2. ~(t = type /\ a = r)
      BY <1>0, <2>4, <3>1 DEF Gone
    <3>3. Event(t, a, 0) # e
      BY <3>2 DEF Event
    <3>. QED BY <2>2, <2>3, <3>1, <3>3 DEF Gone, Apart
  <2>. QED BY <1>0, <2>1, <2>5 DEF LossInv
<1>. QED BY <1>1, <1>2

(* Every step keeps the count of deaths above that of the events lost,     *)
LEMMA LossKept ==
  ASSUME IInv, RefOK', LossInv, Next
  PROVE  LossInv'
<1>0. HandlersOK /\ RefOK
  BY DEF IInv
<1>1. CASE \E p \in Procs : RefundStep(p)
  BY <1>1, RefundBooks
<1>2. CASE \E p \in Procs : RefundCall(p)
  <2>1. PICK p \in Procs, r \in Requests :
          \/ \E amount \in 1..Total, status \in {"approved", "pending_admin"} : RequestRefund(p, r, amount, status)
          \/ ApproveRequest(p, r)
          \/ \E type \in {"refundCreated", "refundProcessed"} : RefundEvent(p, r, type)
    BY <1>2 DEF RefundCall
  <2>2. CASE (\E amount \in 1..Total, status \in {"approved", "pending_admin"} : RequestRefund(p, r, amount, status)) \/ ApproveRequest(p, r)
    <3>1. seen' = seen /\ crashes' = crashes /\ recorded' = recorded /\ p \in Everyone /\ \E flow, h : Begin(p, flow, h)
      BY <2>2 DEF RequestRefund, ApproveRequest, payVars, refundVars, Everyone
    <3>2. BooksRest
      BY <1>0, <3>1, Apartly, OthersRest DEF BooksRest
    <3>. QED BY <1>0, <3>2, BooksKept
  <2>3. CASE \E type \in {"refundCreated", "refundProcessed"} : RefundEvent(p, r, type)
    BY <2>3, EventTaken DEF Reports
  <2>. QED BY <2>1, <2>2, <2>3
<1>3. CASE \E r \in Requests : RejectRequest(r) \/ ProcessRefund(r)
  <2>1. BooksRest
    BY <1>3 DEF RejectRequest, ProcessRefund, BooksRest, subVars, payVars, refundVars
  <2>. QED BY <1>0, <2>1, BooksKept
<1>4. CASE MandateNext /\ UNCHANGED refundVars
  <2>1. recorded' = recorded
    BY <1>4 DEF refundVars
  <2>2. CASE (\E p \in Everyone : Crash(p)) /\ UNCHANGED payVars
    <3>1. seen' = seen
      BY <2>2 DEF payVars
    <3>. QED BY <2>1, <2>2, <3>1, DeathCounts
  <2>3. CASE ~((\E p \in Everyone : Crash(p)) /\ UNCHANGED payVars)
    <3>1. BooksRest
      BY <1>4, <2>1, <2>3, MandateBooks
    <3>. QED BY <1>0, <3>1, BooksKept
  <2>. QED BY <2>2, <2>3
<1>. QED BY <1>1, <1>2, <1>3, <1>4 DEF Next, RefundNext

(* ... so it holds.                                                        *)
LEMMA LossHold == Spec => []LossInv
<1>1. Init => LossInv
  <2> SUFFICES ASSUME Init PROVE LossInv
    OBVIOUS
  <2>1. RefundInit /\ MandateInit /\ CheckoutInit /\ SubInit
    BY DEF Init, RefundInit, MandateInit, CheckoutInit
  <2>2. seen = {} /\ crashes = 0
    BY <2>1 DEF CheckoutInit, SubInit
  <2>. QED BY <2>2 DEF LossInv, Gone, Reports
<1>2. ASSUME LossInv, vars' = vars PROVE LossInv'
  BY <1>2 DEF vars, subVars, payVars, refundVars, LossInv, Gone
<1>3. IInv' => RefOK'
  BY DEF IInv
<1>4. IInv /\ IInv' /\ LossInv /\ [Next]_vars => LossInv'
  BY <1>2, <1>3, LossKept
<1>. QED BY <1>1, <1>4, Inductive, PTL DEF Spec

(* Money that went back is on the books when the handlers have ended and   *)
(* both events about it were taken up, although one handler died: the      *)
(* handler of the gateway call, or of either event, writes the entry, and  *)
(* a single death leaves one of the two events.                            *)
THEOREM RefundAlwaysOnBooks == Spec => [](crashes <= 1 => RefundOnBooks)
<1>1. ASSUME IInv, PaymentInv, LossInv, crashes <= 1 PROVE RefundOnBooks
  <2>0. HandlersOK /\ RefOK /\ crashes \in Nat
    BY <1>1 DEF IInv, LossInv
  <2>1. SUFFICES ASSUME NEW r \in Requests, Quiet, {Event(t, r, 0) : t \in {"refundCreated", "refundProcessed"}} \subseteq seen
                 PROVE  recorded[r] > 0 /\ payment[PayOf[r]].status \in {"refunded", "partially_refunded"}
    BY DEF RefundOnBooks
  <2>2. \A p \in Everyone : handler[p].pc = "idle"
    BY <2>0, <2>1 DEF Quiet, Busy
  <2>3. \A t \in Reports : Gone(t, r)
    BY <2>1, <2>2 DEF Reports, Gone
  <2>4. recorded[r] # 0
    BY <1>1, <2>0, <2>3 DEF LossInv
  <2>5. recorded[r] > 0
    BY <2>0, <2>4 DEF RefOK
  <2>6. payment[PayOf[r]].status \in Back
    BY <1>1, <2>5 DEF PaymentInv
  <2>. QED BY <2>5, <2>6 DEF Back
<1>. QED BY <1>1, Inductive, PaymentsHold, LossHold, PTL

-----------------------------------------------------------------------------
(* Access: a row that is superseded is replaced.                           *)

(* The traffic has events that take the row of a mandate live.             *)
Renews == traffic \cap {"activated", "charged"} # {}

(* They meet no other operation that puts a row stored by ObjectId in the  *)
(* place of the others: no trial, no promoted plan, no second mandate.     *)
Separate ==
  Renews => /\ traffic \cap {"trial", "promote", "force"} = {}
            /\ \A m, n \in Mandate \cap traffic : m = n

(* What gives a user nothing, and never had, or no longer.                 *)
Out == {"superseded", "pending"}

(* Where a handler has superseded rows and its own still to write.         *)
Promising == {"supersedeLive", "insert", "insertTrial", "activate", "forceSave"}

(* A row that only one who writes another in its place takes away: of two  *)
(* forms, a mandate supersedes one.                                        *)
Lasting(r) == r.status \notin Out /\ (Renews => r.form = "str")

Answered == (\E i \in DOMAIN rows : Lasting(rows[i])) \/ \E q \in Everyone : handler[q].pc \in Promising

(* Every superseded row has been replaced, or will be: rows that a mandate *)
(* can supersede by a mandate, others by something that lasts.             *)
Covered ==
  \A i \in DOMAIN rows : rows[i].status = "superseded" =>
    \/ Answered
    \/ /\ Renews /\ rows[i].form # "str" /\ rows[i].paidBy \notin Mandate
       /\ \E j \in DOMAIN rows : rows[j].paidBy \in Mandate /\ rows[j].status \notin Out

(* Where a handler takes the row of a mandate live.                        *)
Carrying == {"activating", "booking", "renewing", "replacing"}

(* A handler runs an operation of the traffic and is where that leads; one *)
(* that replaces other rows by that of a mandate has taken it live.        *)
Fits(h, rs) ==
  /\ h.flow \in traffic \cup {"none", "expiry"}
  /\ h.pc \in Carrying => h.flow \in {"activated", "charged"}
  /\ h.pc = "insertTrial" => h.flow = "trial"
  /\ h.pc = "replacing" => h.row \in DOMAIN rs /\ rs[h.row].paidBy \in Mandate /\ rs[h.row].status # "pending"

(* A mandate of this behaviour that was created.                           *)
Made(m) == m \in traffic /\ mandate[m].status # "none"
Making(q) == handler[q].pc = "insertPending"

(* It has one row at most, which is inserted once.                         *)
MandateRows ==
  /\ \A i \in DOMAIN rows : rows[i].paidBy \in Mandate => Made(rows[i].paidBy)
  /\ \A i, j \in DOMAIN rows : rows[i].paidBy \in Mandate /\ rows[i].paidBy = rows[j].paidBy => i = j
  /\ \A q \in Everyone : Making(q) =>
       /\ Made(handler[q].by)
       /\ \A i \in DOMAIN rows : rows[i].paidBy # handler[q].by
       /\ \A p \in Everyone : Making(p) /\ handler[p].by = handler[q].by => p = q

(* The part of the invariant about access.                                 *)
AccessInv ==
  /\ Indexed(rows)
  /\ \A q \in Everyone : Fits(handler[q], rows)
  /\ MandateRows
  /\ Separate /\ crashes = 0 => Covered

(* A row, s what becomes of r, keeps form and payer and does not become    *)
(* pending, ...                                                            *)
RowMoves(r, s) == s.form = r.form /\ s.paidBy = r.paidBy /\ (s.status = "pending" => r.status = "pending")

RowsMove ==
  /\ DOMAIN rows \subseteq DOMAIN rows' /\ Indexed(rows')
  /\ \A i \in DOMAIN rows : RowMoves(rows[i], rows'[i])

(* ... nor superseded.                                                     *)
RowStays(r, s) == RowMoves(r, s) /\ (s.status = "superseded" => r.status = "superseded")

RowsStay ==
  /\ RowsMove
  /\ \A i \in DOMAIN rows' :
       IF i \in DOMAIN rows THEN RowStays(rows[i], rows'[i]) ELSE rows'[i].status # "superseded"

(* No row of a mandate is new, and no mandate is unmade.                   *)
NoNewMandate ==
  /\ traffic' = traffic
  /\ \A i \in DOMAIN rows' \ DOMAIN rows : rows'[i].paidBy \notin Mandate
  /\ \A m \in Mandate : mandate[m].status # "none" => mandate'[m].status # "none"

(* Handlers go where they may, ...                                         *)
HandlersMove == \A q \in Everyone : handler'[q] = handler[q] \/ (Fits(handler'[q], rows') /\ handler'[q].pc # "insertPending")

(* ... and none that has promised a row.                                   *)
HandlersStay ==
  /\ HandlersMove
  /\ \A q \in Everyone : handler[q].pc \in Promising => handler'[q] = handler[q]

(* What holds of handlers and mandates stays true,                         *)
LEMMA AccessMoves ==
  ASSUME AccessInv, HandlersOK, RowsMove, NoNewMandate, HandlersMove,
         Separate /\ crashes' = 0 => Covered'
  PROVE  AccessInv'
<1>1. Indexed(rows)'
  BY DEF RowsMove
<1>2. \A q \in Everyone : Fits(handler[q], rows)'
  <2>1. \A h : Fits(h, rows) => Fits(h, rows')
    BY DEF Fits, RowsMove, RowMoves
  <2>2. \A q \in Everyone : Fits(handler'[q], rows')
    BY <2>1 DEF HandlersMove, AccessInv
  <2>. QED BY <2>2 DEF NoNewMandate, Fits
<1>3. MandateRows'
  <2>1. \A i \in DOMAIN rows' : rows'[i].paidBy \in Mandate => i \in DOMAIN rows /\ rows[i].paidBy = rows'[i].paidBy
    BY DEF NoNewMandate, RowsMove, RowMoves
  <2>2. \A m \in Mandate : Made(m) => Made(m)'
    BY DEF Made, NoNewMandate
  <2>3. \A q \in Everyone : Making(q)' => handler'[q] = handler[q]
    BY DEF Making, HandlersMove
  <2>4. \A q \in Everyone : Making(q) => handler[q].by \in Mandate
    BY DEF HoldsOK, Making
  <2>5. \A i \in DOMAIN rows' : rows'[i].paidBy \in Mandate => Made(rows[i].paidBy)'
    BY <2>1, <2>2 DEF AccessInv, MandateRows
  <2>6. \A i, j \in DOMAIN rows' : rows'[i].paidBy \in Mandate /\ rows'[i].paidBy = rows'[j].paidBy => i = j
    BY <2>1 DEF AccessInv, MandateRows
  <2>7. ASSUME NEW q \in Everyone, Making(q)'
        PROVE  /\ Made(handler[q].by)'
               /\ \A i \in DOMAIN rows' : rows'[i].paidBy # handler'[q].by
               /\ \A p \in Everyone : Making(p)' /\ handler'[p].by = handler'[q].by => p = q
    <3>1. handler'[q] = handler[q] /\ Making(q) /\ handler[q].by \in Mandate
      BY <2>3, <2>4, <2>7 DEF Making
    <3>2. \A i \in DOMAIN rows' : rows'[i].paidBy # handler'[q].by
      BY <2>1, <3>1 DEF AccessInv, MandateRows
    <3>3. ASSUME NEW p \in Everyone, Making(p)', handler'[p].by = handler'[q].by PROVE p = q
      <4>1. handler'[p] = handler[p] /\ Making(p)
        BY <2>3, <3>3 DEF Making
      <4>. QED BY <3>1, <3>3, <4>1 DEF AccessInv, MandateRows
    <3>4. Made(handler[q].by)'
      BY <2>2, <3>1 DEF AccessInv, MandateRows
    <3>. QED BY <3>2, <3>3, <3>4
  <2>. QED BY <2>5, <2>6, <2>7 DEF MandateRows
<1>4. Separate' <=> Separate
  BY DEF Separate, Renews, NoNewMandate
<1>. QED BY <1>1, <1>2, <1>3, <1>4 DEF AccessInv

(* ... superseded rows are covered when one is written that lasts, or has  *)
(* been promised,                                                          *)
LEMMA AnswerCovers == ASSUME Answered' PROVE Covered'
BY DEF Covered

(* ... and when none is taken away.                                        *)
LEMMA CoverStays ==
  ASSUME Covered, RowsStay, traffic' = traffic,
         \A q \in Everyone : handler[q].pc \in Promising => handler'[q] = handler[q]
  PROVE  Covered'
<1>1. Renews' <=> Renews
  BY DEF Renews
<1>2. \A i \in DOMAIN rows : /\ i \in DOMAIN rows' /\ rows'[i].form = rows[i].form /\ rows'[i].paidBy = rows[i].paidBy
                             /\ rows[i].status \notin Out => rows'[i].status \notin Out
  BY DEF RowsStay, RowsMove, RowMoves, RowStays, Out
<1>3. Answered => Answered'
  <2>1. \A i \in DOMAIN rows : Lasting(rows[i]) => Lasting(rows[i])'
    BY <1>1, <1>2 DEF Lasting
  <2>. QED BY <1>2, <2>1 DEF Answered
<1>4. \A i \in DOMAIN rows' : rows'[i].status = "superseded" => i \in DOMAIN rows /\ rows[i].status = "superseded"
  BY DEF RowsStay, RowStays
<1>. QED BY <1>1, <1>2, <1>3, <1>4 DEF Covered

LEMMA AccessStays ==
  ASSUME AccessInv, HandlersOK, RowsStay, NoNewMandate, HandlersStay, crashes' = crashes
  PROVE  AccessInv'
<1>1. RowsMove /\ HandlersMove /\ traffic' = traffic
  BY DEF RowsStay, HandlersStay, NoNewMandate
<1>2. Separate /\ crashes' = 0 => Covered'
  BY <1>1, CoverStays DEF AccessInv, HandlersStay
<1>. QED BY <1>1, <1>2, AccessMoves

(* A handler that ends, goes on or takes up a call, and has promised no    *)
(* row, stays in this sense;                                               *)
LEMMA FitMoves ==
  ASSUME AccessInv, HandlersOK, NEW p \in Everyone, Apart(p), Fits(handler'[p], rows'),
         handler[p].pc \notin Promising, handler'[p].pc # "insertPending"
  PROVE  HandlersStay
<1>1. \A q \in Everyone : q # p => handler'[q] = handler[q]
  BY DEF Apart
<1>. QED BY <1>1 DEF HandlersStay, HandlersMove

LEMMA FitEnds ==
  ASSUME AccessInv, HandlersOK, NEW p \in Everyone, Return(p), handler[p].pc \notin Promising
  PROVE  HandlersStay
<1>1. Apart(p) /\ handler'[p] = Rest
  BY DEF Return, Apart
<1>2. Fits(Rest, rows') /\ Rest.pc # "insertPending"
  BY DEF Fits, Rest, Carrying
<1>. QED BY <1>1, <1>2, FitMoves

LEMMA FitGoes ==
  ASSUME AccessInv, HandlersOK, NEW p \in Everyone, Apart(p), handler'[p].flow = handler[p].flow,
         handler[p].pc \notin Promising, handler'[p].pc \notin Carrying \cup {"insertTrial", "insertPending"}
  PROVE  HandlersStay
<1>1. Fits(handler'[p], rows')
  BY DEF AccessInv, Fits, Carrying
<1>. QED BY <1>1, FitMoves

LEMMA FitAt ==
  ASSUME AccessInv, HandlersOK, NEW p \in Everyone, NEW pc, Goto(p, pc),
         handler[p].pc \notin Promising, pc \notin Carrying \cup {"insertTrial", "insertPending"}
  PROVE  HandlersStay
<1>1. Apart(p) /\ handler'[p] = [handler[p] EXCEPT !.pc = pc] /\ handler[p] \in Local
  BY DEF Goto, Apart
<1>2. handler'[p].pc = pc /\ handler'[p].flow = handler[p].flow
  BY <1>1 DEF Local
<1>. QED BY <1>1, <1>2, FitGoes

LEMMA FitBegins ==
  ASSUME AccessInv, HandlersOK, NEW p \in Everyone, NEW flow, NEW h, Begin(p, flow, h), DOMAIN h = DOMAIN Rest,
         h.pc \notin {"replacing", "insertTrial", "insertPending"},
         h.pc \in Carrying => flow \in {"activated", "charged"}
  PROVE  HandlersStay
<1>1. Apart(p) /\ handler'[p] = [h EXCEPT !.flow = flow] /\ handler[p].pc = "idle" /\ flow \in traffic
  BY Began DEF Begin, Busy
<1>2. handler'[p].flow = flow /\ handler'[p].pc = h.pc
  BY <1>1 DEF Rest
<1>. QED BY <1>1, <1>2, FitMoves DEF Fits, Promising

LEMMA FitRests == ASSUME handler' = handler PROVE HandlersStay
BY DEF HandlersStay, HandlersMove

(* ... so do rows that are not touched, ...                                *)
LEMMA StayRests == ASSUME AccessInv, rows' = rows PROVE RowsStay
BY DEF RowsStay, RowsMove, RowStays, RowMoves, AccessInv

(* What the indexes look at.                                               *)
Listed == Live \cup {"scheduled"}

(* ... and they let rows be that do not enter what they look at;           *)
LEMMA IndexedStays ==
  ASSUME Indexed(rows), NEW rs,
         \A i \in DOMAIN rs : rs[i].status \in Listed =>
           i \in DOMAIN rows /\ rs[i].status = rows[i].status /\ rs[i].form = rows[i].form
  PROVE  Indexed(rs)
BY DEF Indexed, AtMostOne, Listed

(* ... rows whose status is set, ...                                       *)
LEMMA StaySets ==
  ASSUME AccessInv, RowsOK, NEW S, NEW status, rows' = SetStatus(S, status), status \notin Out,
         status \in Listed => Indexed(rows')
  PROVE  RowsStay /\ DOMAIN rows' = DOMAIN rows
<1>1. \A i \in DOMAIN rows : rows[i] \in Row
  BY RowTyped
<1>2. DOMAIN rows' = DOMAIN rows
  BY DEF SetStatus
<1>3. \A i \in DOMAIN rows : /\ rows'[i].form = rows[i].form /\ rows'[i].paidBy = rows[i].paidBy
                             /\ rows'[i].status = IF i \in S THEN status ELSE rows[i].status
  BY <1>1 DEF SetStatus, Row
<1>4. Indexed(rows')
  BY <1>2, <1>3, IndexedStays DEF AccessInv
<1>. QED BY <1>2, <1>3, <1>4 DEF RowsStay, RowsMove, RowStays, RowMoves, Out

(* ... one that is written, ...                                            *)
LEMMA StayWrites ==
  ASSUME AccessInv, RowsOK, NEW i, NEW r, rows' = [rows EXCEPT ![i] = r], i \in DOMAIN rows => RowStays(rows[i], r),
         Indexed(rows') \/ (i \in DOMAIN rows => r.status \notin Listed \/ r.status = rows[i].status)
  PROVE  RowsStay
<1>1. DOMAIN rows' = DOMAIN rows /\ \A j \in DOMAIN rows : rows'[j] = IF j = i THEN r ELSE rows[j]
  OBVIOUS
<1>2. \A j \in DOMAIN rows : RowStays(rows[j], rows'[j])
  BY <1>1 DEF RowStays, RowMoves
<1>3. Indexed(rows')
  <2>1. CASE Indexed(rows')
    BY <2>1
  <2>2. CASE i \in DOMAIN rows => r.status \notin Listed \/ r.status = rows[i].status
    BY <1>1, <2>2, IndexedStays DEF AccessInv, RowStays, RowMoves
  <2>. QED BY <2>1, <2>2
<1>. QED BY <1>1, <1>2, <1>3 DEF RowsStay, RowsMove, RowStays

(* ... and a new one.                                                      *)
LEMMA StayComes ==
  ASSUME AccessInv, RowsOK, NEW r \in Row, rows' = Append(rows, r), r.status # "superseded",
         Indexed(rows') \/ r.status \notin Listed
  PROVE  RowsStay /\ (r.paidBy \notin Mandate => \A i \in DOMAIN rows' \ DOMAIN rows : rows'[i].paidBy \notin Mandate)
<1>1. DOMAIN rows \subseteq DOMAIN rows' /\ \A i \in DOMAIN rows' : rows'[i] = IF i \in DOMAIN rows THEN rows[i] ELSE r
  BY RowAppended
<1>2. Indexed(rows')
  <2>1. CASE Indexed(rows')
    BY <2>1
  <2>2. CASE r.status \notin Listed
    BY <1>1, <2>2, IndexedStays DEF AccessInv
  <2>. QED BY <2>1, <2>2
<1>. QED BY <1>1, <1>2 DEF RowsStay, RowsMove, RowStays, RowMoves

(* No mandate is new where there are no new rows, and mandates rest.       *)
LEMMA NoneMade ==
  ASSUME traffic' = traffic, mandate' = mandate, DOMAIN rows' = DOMAIN rows
  PROVE  NoNewMandate
BY DEF NoNewMandate

(* A row that the indexes refuse has met one of its form, ...              *)
LEMMA RefusedNew ==
  ASSUME RowsOK, Indexed(rows), NEW r \in Row, ~Indexed(Append(rows, r))
  PROVE  \E i \in DOMAIN rows : rows[i].form = r.form /\ rows[i].status \in Listed
<1> DEFINE rs == Append(rows, r)
<1>1. \A i \in DOMAIN rs : IF i \in DOMAIN rows THEN rs[i] = rows[i] ELSE i = Len(rows) + 1 /\ rs[i] = r
  BY DEF RowsOK
<1>2. PICK form \in {"str", "oid"}, S \in {Live, {"scheduled"}} : ~AtMostOne(rs, form, S)
  BY DEF Indexed
<1>3. PICK i \in DOMAIN rs, j \in DOMAIN rs : /\ rs[i].form = form /\ rs[j].form = form
                                              /\ rs[i].status \in S /\ rs[j].status \in S /\ i # j
  BY <1>2 DEF AtMostOne
<1>4. AtMostOne(rows, form, S)
  BY <1>2 DEF Indexed
<1> HIDE DEF rs
<1>5. i \notin DOMAIN rows \/ j \notin DOMAIN rows
  BY <1>1, <1>3, <1>4 DEF AtMostOne
<1>6. (i \in DOMAIN rows /\ rs[j] = r) \/ (j \in DOMAIN rows /\ rs[i] = r)
  BY <1>1, <1>3, <1>5
<1>. QED BY <1>1, <1>2, <1>3, <1>6 DEF Listed

(* ... and so has one that is not written.                                 *)
LEMMA RefusedWrite ==
  ASSUME RowsOK, Indexed(rows), NEW i, NEW r, ~Indexed([rows EXCEPT ![i] = r])
  PROVE  \E j \in DOMAIN rows : rows[j].status \in Listed
<1> DEFINE rs == [rows EXCEPT ![i] = r]
<1>1. DOMAIN rs = DOMAIN rows /\ \A j \in DOMAIN rs : j # i => rs[j] = rows[j]
  OBVIOUS
<1>2. PICK form \in {"str", "oid"}, S \in {Live, {"scheduled"}} : ~AtMostOne(rs, form, S)
  BY DEF Indexed
<1>3. PICK j \in DOMAIN rs, k \in DOMAIN rs : rs[j].status \in S /\ rs[k].status \in S /\ j # k
  BY <1>2 DEF AtMostOne
<1> HIDE DEF rs
<1>4. (j \in DOMAIN rows /\ rs[j] = rows[j]) \/ (k \in DOMAIN rows /\ rs[k] = rows[k])
  BY <1>1, <1>3
<1>. QED BY <1>2, <1>3, <1>4 DEF Listed

(* Operations on subscriptions replace what they supersede,                *)
LEMMA SubscriptionAccess ==
  ASSUME IInv, MandateInv, AccessInv, mandate' = mandate, NEW p \in Procs, Step(p)
  PROVE  AccessInv'
<1>. p \in Everyone /\ RowsOK /\ HandlersOK
  BY DEF Everyone, IInv
<1> DEFINE h == handler[p]
<1>h. h \in Local /\ HoldsOK(h, DOMAIN rows) /\ Held(h, rows, mandate) /\ Fits(h, rows)
  BY HolderOK DEF MandateInv, AccessInv
<1>r. \A i \in DOMAIN rows : rows[i] \in Row
  BY RowTyped
<1>u. traffic' = traffic /\ crashes' = crashes
  BY DEF Step, SupersedeOld, SupersedeLive, ReadCurrent, InsertSubscription, Inserted, InsertFree, InsertTrial,
         SaveCancelled, ForceSave, PromoteNext, Activate, DowngradeTrial, ExpireLapsed
<1>n. DOMAIN rows' = DOMAIN rows => NoNewMandate
  BY <1>u, NoneMade
<1>k. RowsStay /\ HandlersStay /\ NoNewMandate => AccessInv'
  BY <1>u, AccessStays
<1>s. rows' = rows => RowsStay /\ NoNewMandate
  BY <1>n, StayRests
<1>1. CASE SupersedeOld(p) \/ SupersedeLive(p)
  <2> DEFINE pc == IF h.pc = "supersedeOld" THEN "supersedeLive" ELSE Superseding(p)
  <2>1. PICK S : rows' = SetStatus(S, "superseded")
    BY <1>1 DEF SupersedeOld, SupersedeLive
  <2>2. Goto(p, pc)
    BY <1>1 DEF SupersedeOld, SupersedeLive, On
  <2>3. pc \in Promising /\ (pc = "insertTrial" => h.flow = "trial")
    BY DEF Superseding, Resume, Promising
  <2>4. handler'[p].pc = pc /\ handler'[p].flow = h.flow /\ Apart(p)
    BY <1>h, <2>2 DEF Goto, Local, Apart
  <2> HIDE DEF pc
  <2>5. DOMAIN rows' = DOMAIN rows
    BY <2>1 DEF SetStatus
  <2>6. \A i \in DOMAIN rows : /\ rows'[i].form = rows[i].form /\ rows'[i].paidBy = rows[i].paidBy
                               /\ rows'[i].status = IF i \in S THEN "superseded" ELSE rows[i].status
    BY <1>r, <2>1 DEF SetStatus, Row
  <2>7. Indexed(rows')
    BY <2>5, <2>6, IndexedStays DEF AccessInv, Listed, Live
  <2>8. RowsMove
    BY <2>5, <2>6, <2>7 DEF RowsMove, RowMoves
  <2>9. HandlersMove
    <3>1. Fits(handler'[p], rows') /\ handler'[p].pc # "insertPending"
      BY <1>h, <2>3, <2>4 DEF Fits, Promising, Carrying
    <3>. QED BY <2>4, <3>1 DEF HandlersMove, Apart
  <2>10. Answered'
    BY <2>3, <2>4 DEF Answered
  <2>. QED BY <1>n, <2>5, <2>8, <2>9, <2>10, AnswerCovers, AccessMoves
<1>2. CASE ReadCurrent(p)
  <2>1. rows' = rows /\ h.pc = "subscribe"
    BY <1>2 DEF ReadCurrent, On
  <2>2. CASE Return(p)
    BY <1>s, <1>k, <2>1, <2>2, FitEnds DEF Promising
  <2>3. CASE ~Return(p)
    <3>0. PICK pc \in {"insert", "supersedeOld"} : \E row, want : handler' = [handler EXCEPT ![p].pc = pc, ![p].row = row, ![p].want = want]
      BY <1>2, <2>3 DEF ReadCurrent
    <3>1. PICK row, want : handler' = [handler EXCEPT ![p].pc = pc, ![p].row = row, ![p].want = want]
      BY <3>0
    <3>2. Apart(p) /\ handler'[p].pc = pc /\ handler'[p].flow = h.flow
      BY <1>h, <3>1 DEF Apart, Local
    <3>. QED BY <1>s, <1>k, <2>1, <3>2, FitGoes DEF Promising, Carrying
  <2>. QED BY <2>2, <2>3
<1>3. CASE InsertSubscription(p) \/ InsertFree(p) \/ InsertTrial(p)
  <2>1. PICK r \in Row : /\ Insert(p, r) /\ r.paidBy \notin Mandate /\ r.status \in Listed
                         /\ h.pc = "insert" => r.form = "str"
    <3>1. CASE InsertSubscription(p)
      <4> DEFINE r == [NewRow("str", h.plan, h.want, h.by) EXCEPT
                         !.after = IF h.want = "scheduled" THEN h.row ELSE 0,
                         !.due = h.want = "scheduled" /\ (h.row = 0 \/ rows[h.row].due)]
      <4>1. h.pc = "insert" /\ Insert(p, r)
        BY <3>1 DEF InsertSubscription, On
      <4>2. h.by \notin Mandate /\ h.want \in {"active", "scheduled"}
        BY <1>h, <4>1 DEF Held, Buying, HoldsOK, Refunding
      <4>3. r \in Row /\ r.paidBy = h.by /\ r.status = h.want /\ r.form = "str"
        BY <1>h, <4>2 DEF Local, NewRow, Row, Statuses, Live
      <4> HIDE DEF r
      <4>. QED BY <4>1, <4>2, <4>3 DEF Listed, Live
    <3>2. CASE InsertFree(p)
      <4> DEFINE r == NewRow("oid", Base, "active", None)
      <4>1. r \in Row /\ r.paidBy = None /\ r.status = "active"
        BY NewRowOK, SubscriptionAssumption DEF Statuses, Live, NewRow
      <4>2. Insert(p, r) /\ h.pc # "insert"
        BY <3>2 DEF InsertFree, On
      <4> HIDE DEF r
      <4>. QED BY <4>1, <4>2, NoMandate DEF Listed, Live
    <3>3. CASE InsertTrial(p)
      <4> DEFINE r == [NewRow("oid", Base, "trial", None) EXCEPT !.trial = "on"]
      <4>1. NewRow("oid", Base, "trial", None) \in Row
        BY NewRowOK, SubscriptionAssumption DEF Statuses, Live
      <4>2. r \in Row /\ r.paidBy = None /\ r.status = "trial"
        BY <4>1 DEF Row, NewRow
      <4>3. Insert(p, r) /\ h.pc # "insert"
        BY <3>3 DEF InsertTrial, On
      <4> HIDE DEF r
      <4>. QED BY <4>2, <4>3, NoMandate DEF Listed, Live
    <3>. QED BY <1>3, <3>1, <3>2, <3>3
  <2>2. h.pc \in {"insert", "insertFree", "insertTrial"}
    BY <1>3 DEF InsertSubscription, InsertFree, InsertTrial, On
  <2>3. \/ rows' = Append(rows, r) /\ Indexed(rows') /\ Goto(p, "inserted")
        \/ rows' = rows /\ ~Indexed(Append(rows, r)) /\ Return(p)
    <3>1. h.flow # "promote"
      BY <1>h, <2>2 DEF Held, Planned
    <3>. QED BY <2>1, <3>1 DEF Insert, Write, NextRow
  <2>4. RowsStay /\ NoNewMandate
    <3>1. CASE rows' = rows
      BY <1>s, <3>1
    <3>2. CASE rows' = Append(rows, r) /\ Indexed(rows')
      BY <1>u, <2>1, <3>2, StayComes DEF NoNewMandate, Listed, Live
    <3>. QED BY <2>3, <3>1, <3>2
  <2>5. HandlersMove
    <3>1. Apart(p) /\ (handler'[p] = Rest \/ handler'[p] = [h EXCEPT !.pc = "inserted"])
      BY <2>3 DEF Goto, Return, Apart
    <3>2. Fits(handler'[p], rows') /\ handler'[p].pc # "insertPending"
      BY <1>h, <3>1 DEF Fits, Rest, Local, Carrying
    <3>. QED BY <3>1, <3>2 DEF HandlersMove, Apart
  <2>6. CASE h.pc = "insertFree"
    BY <1>k, <2>3, <2>4, <2>6, FitEnds, FitAt DEF Promising, Carrying
  <2>7. CASE h.pc # "insertFree"
    <3>1. \E i \in DOMAIN rows' : rows'[i].status \in Listed /\ rows'[i].form = r.form
      <4>1. CASE rows' = Append(rows, r)
        <5>1. Len(rows) + 1 \in DOMAIN rows' /\ rows'[Len(rows) + 1] = r
          BY <4>1 DEF RowsOK
        <5>. QED BY <2>1, <5>1
      <4>2. CASE rows' = rows /\ ~Indexed(Append(rows, r))
        BY <4>2, RefusedNew DEF AccessInv
      <4>. QED BY <2>3, <4>1, <4>2
    <3>2. ASSUME Separate PROVE Renews => h.pc = "insert"
      BY <1>h, <2>2, <2>7, <3>2 DEF Separate, Fits
    <3>3. ASSUME Separate PROVE Answered'
      BY <1>u, <2>1, <3>1, <3>2, <3>3 DEF Answered, Lasting, Out, Listed, Live, Renews
    <3>4. Separate' <=> Separate
      BY <1>u DEF Separate, Renews
    <3>. QED BY <2>4, <2>5, <3>3, AnswerCovers, AccessMoves DEF RowsStay
  <2>. QED BY <2>6, <2>7
<1>4. CASE Inserted(p) \/ SaveCancelled(p)
  <2>1. Return(p) /\ h.pc \notin Promising
    BY <1>4 DEF Inserted, SaveCancelled, On, Promising
  <2>2. rows' = rows \/ rows' = SetStatus({h.row}, "cancelled")
    BY <1>4 DEF Inserted, SaveCancelled
  <2>3. RowsStay /\ DOMAIN rows' = DOMAIN rows
    BY <1>s, <2>2, StaySets DEF Out, Listed, Live
  <2>. QED BY <1>n, <1>k, <2>1, <2>3, FitEnds
<1>5. CASE ForceSave(p) \/ Activate(p)
  <2> DEFINE i == h.row
             r == [rows[i] EXCEPT !.status = "active", !.due = FALSE, !.after = 0]
  <2>1. /\ \/ h.pc = "forceSave" /\ Write(p, Started(i), "inserted")
           \/ h.pc = "activate" /\ Write(p, Started(i), "promoting")
        /\ Started(i) = [rows EXCEPT ![i] = r]
    BY <1>5 DEF ForceSave, Activate, On, Started
  <2>2. i \in DOMAIN rows /\ h.flow \in {"promote", "force"}
    BY <1>h, <2>1 DEF Held, Planned, Plain
  <2>3. r.status = "active" /\ r.form = rows[i].form /\ r.paidBy = rows[i].paidBy
    BY <1>r, <2>2 DEF Row
  <2> HIDE DEF r
  <2>4. \/ rows' = [rows EXCEPT ![i] = r] /\ Indexed(rows') /\ (Goto(p, "inserted") \/ Goto(p, "promoting"))
        \/ rows' = rows /\ ~Indexed([rows EXCEPT ![i] = r]) /\ (Goto(p, "promoting") \/ Return(p))
    BY <2>1 DEF Write, NextRow
  <2>5. RowsStay /\ NoNewMandate
    <3>1. CASE rows' = rows
      BY <1>s, <3>1
    <3>2. CASE rows' = [rows EXCEPT ![i] = r] /\ Indexed(rows')
      BY <1>n, <2>3, <3>2, StayWrites DEF RowStays, RowMoves
    <3>. QED BY <2>4, <3>1, <3>2
  <2>6. HandlersMove
    <3>1. Apart(p) /\ (handler'[p] = Rest \/ \E pc \in {"inserted", "promoting"} : handler'[p] = [h EXCEPT !.pc = pc])
      BY <2>4 DEF Goto, Return, Apart
    <3>2. Fits(handler'[p], rows') /\ handler'[p].pc # "insertPending"
      BY <1>h, <3>1 DEF Fits, Rest, Local, Carrying
    <3>. QED BY <3>1, <3>2 DEF HandlersMove, Apart
  <2>7. \E j \in DOMAIN rows' : rows'[j].status \in Listed
    <3>1. CASE rows' = [rows EXCEPT ![i] = r]
      BY <2>2, <2>3, <3>1 DEF Listed, Live
    <3>2. CASE rows' = rows /\ ~Indexed([rows EXCEPT ![i] = r])
      BY <3>2, RefusedWrite DEF AccessInv
    <3>. QED BY <2>4, <3>1, <3>2
  <2>8. ASSUME Separate PROVE ~Renews
    BY <1>h, <2>2, <2>8 DEF Separate, Fits
  <2>9. ASSUME Separate PROVE Answered'
    BY <1>u, <2>7, <2>8, <2>9 DEF Answered, Lasting, Out, Listed, Live, Renews
  <2>10. Separate' <=> Separate
    BY <1>u DEF Separate, Renews
  <2>. QED BY <2>5, <2>6, <2>9, AnswerCovers, AccessMoves DEF RowsStay
<1>6. CASE PromoteNext(p)
  <2>1. rows' = rows /\ h.pc = "promoting"
    BY <1>6 DEF PromoteNext, On
  <2>2. CASE h.todo = {}
    BY <1>6, <1>s, <1>k, <2>1, <2>2, FitEnds DEF PromoteNext, Promising
  <2>3. CASE h.todo # {}
    <3>1. PICK i \in h.todo : handler' = [handler EXCEPT ![p].pc = "supersedeOld", ![p].row = i, ![p].todo = @ \ {i}]
      BY <1>6, <2>3 DEF PromoteNext
    <3>2. handler'[p].pc = "supersedeOld" /\ handler'[p].flow = h.flow /\ Apart(p)
      BY <1>h, <3>1 DEF Local, Apart
    <3>. QED BY <1>s, <1>k, <2>1, <3>2, FitGoes DEF Promising, Carrying
  <2>. QED BY <2>2, <2>3
<1>7. CASE DowngradeTrial(p)
  <2>1. PICK i \in h.todo :
          IF Indexed(Downgraded(i)) THEN rows' = Downgraded(i) /\ handler' = [handler EXCEPT ![p].todo = @ \ {i}]
                                    ELSE Return(p) /\ rows' = rows
    BY <1>7 DEF DowngradeTrial
  <2> DEFINE r == [rows[i] EXCEPT !.status = "active", !.trial = "ended", !.due = FALSE]
  <2>2. h.pc = "downgrading" /\ Downgraded(i) = [rows EXCEPT ![i] = r]
    BY <1>7 DEF DowngradeTrial, On, Downgraded
  <2>3. i \in DOMAIN rows => r.status = "active" /\ r.form = rows[i].form /\ r.paidBy = rows[i].paidBy
    BY <1>r DEF Row
  <2> HIDE DEF r
  <2>4. CASE Return(p) /\ rows' = rows
    BY <1>s, <1>k, <2>2, <2>4, FitEnds DEF Promising
  <2>5. CASE rows' = Downgraded(i) /\ Indexed(rows') /\ handler' = [handler EXCEPT ![p].todo = @ \ {i}]
    <3>1. RowsStay /\ DOMAIN rows' = DOMAIN rows
      BY <2>2, <2>3, <2>5, StayWrites DEF RowStays, RowMoves
    <3>2. handler'[p].pc = h.pc /\ handler'[p].flow = h.flow /\ Apart(p)
      BY <1>h, <2>5 DEF Local, Apart
    <3>. QED BY <1>n, <1>k, <2>2, <3>1, <3>2, FitGoes DEF Promising, Carrying
  <2>. QED BY <2>1, <2>4, <2>5
<1>8. CASE ExpireLapsed(p)
  <2>1. PICK S : rows' = SetStatus(S, "expired")
    BY <1>8 DEF ExpireLapsed
  <2>2. Return(p) /\ h.pc \notin Promising
    BY <1>8 DEF ExpireLapsed, On, Promising
  <2>3. RowsStay /\ DOMAIN rows' = DOMAIN rows
    BY <2>1, StaySets DEF Out, Listed, Live
  <2>. QED BY <1>n, <1>k, <2>2, <2>3, FitEnds
<1>. QED BY <1>1, <1>2, <1>3, <1>4, <1>5, <1>6, <1>7, <1>8 DEF Step

(* ... calls take no row away,                                             *)
LEMMA CallStays ==
  ASSUME IInv, AccessInv, NEW p \in Procs, UNCHANGED <<rows, crashes, traffic>>, NoNewMandate,
         NEW flow, NEW h, Begin(p, flow, h), DOMAIN h = DOMAIN Rest,
         h.pc \notin {"replacing", "insertTrial", "insertPending"},
         h.pc \in Carrying => flow \in {"activated", "charged"}
  PROVE  AccessInv'
<1>1. p \in Everyone /\ HandlersOK
  BY DEF Everyone, IInv
<1>2. HandlersStay
  BY <1>1, FitBegins
<1>. QED BY <1>1, <1>2, StayRests, AccessStays

LEMMA SubscriptionCallsAccess ==
  ASSUME IInv, AccessInv, mandate' = mandate, NEW p \in Procs, Call(p)
  PROVE  AccessInv'
<1>1. UNCHANGED <<rows, crashes, traffic>>
  BY DEF Call, Subscribe, Heal, StartTrial, Cancel, CancelScheduled, ForceActivate, Promote, Expire
<1>2. NoNewMandate
  BY <1>1, NoneMade
<1>3. ASSUME NEW flow, NEW h, Begin(p, flow, h), DOMAIN h = DOMAIN Rest,
             h.pc \in {"subscribe", "insertFree", "supersedeOld", "saveCancelled", "promoting", "downgrading"}
      PROVE  AccessInv'
  BY <1>1, <1>2, <1>3, CallStays DEF Carrying
<1>4. CASE \E plan \in Plans \cap traffic, want \in {"active", "scheduled"} : Subscribe(p, plan, want)
  <2>1. PICK plan, want : Begin(p, "subscribe", [Rest EXCEPT !.pc = "subscribe", !.plan = plan, !.want = want])
    BY <1>4 DEF Subscribe
  <2> DEFINE h == [Rest EXCEPT !.pc = "subscribe", !.plan = plan, !.want = want]
  <2>2. Begin(p, "subscribe", h) /\ h.pc = "subscribe" /\ DOMAIN h = DOMAIN Rest
    BY <2>1 DEF Rest
  <2> HIDE DEF h
  <2>. QED BY <1>3, <2>2
<1>5. CASE Heal(p) \/ StartTrial(p)
  <2>1. PICK flow \in {"heal", "trial"}, pc \in {"insertFree", "supersedeOld"} : Begin(p, flow, [Rest EXCEPT !.pc = pc])
    BY <1>5 DEF Heal, StartTrial
  <2> DEFINE h == [Rest EXCEPT !.pc = pc]
  <2>2. Begin(p, flow, h) /\ h.pc = pc /\ DOMAIN h = DOMAIN Rest
    BY <2>1 DEF Rest
  <2> HIDE DEF h
  <2>. QED BY <1>3, <2>2
<1>6. CASE Cancel(p) \/ CancelScheduled(p) \/ ForceActivate(p)
  <2>0. PICK flow \in {"cancel", "cancelScheduled", "force"}, pc \in {"saveCancelled", "supersedeOld"} :
          \E i : Begin(p, flow, [Rest EXCEPT !.pc = pc, !.row = i])
    BY <1>6 DEF Cancel, CancelScheduled, ForceActivate
  <2>1. PICK i : Begin(p, flow, [Rest EXCEPT !.pc = pc, !.row = i])
    BY <2>0
  <2> DEFINE h == [Rest EXCEPT !.pc = pc, !.row = i]
  <2>2. Begin(p, flow, h) /\ h.pc = pc /\ DOMAIN h = DOMAIN Rest
    BY <2>1 DEF Rest
  <2> HIDE DEF h
  <2>. QED BY <1>3, <2>2
<1>7. CASE Promote(p) \/ Expire(p)
  <2>0. PICK flow \in {"promote", "expire"}, pc \in {"promoting", "downgrading"} :
          \E S : Begin(p, flow, [Rest EXCEPT !.pc = pc, !.todo = S])
    BY <1>7 DEF Promote, Expire
  <2>1. PICK S : Begin(p, flow, [Rest EXCEPT !.pc = pc, !.todo = S])
    BY <2>0
  <2> DEFINE h == [Rest EXCEPT !.pc = pc, !.todo = S]
  <2>2. Begin(p, flow, h) /\ h.pc = pc /\ DOMAIN h = DOMAIN Rest
    BY <2>1 DEF Rest
  <2> HIDE DEF h
  <2>. QED BY <1>3, <2>2
<1>. QED BY <1>4, <1>5, <1>6, <1>7 DEF Call

(* ... and who dies promised nothing that counts.                          *)
LEMMA SubscriptionNextAccess ==
  ASSUME IInv, MandateInv, AccessInv, crashes \in Nat, mandate' = mandate, SubscriptionNext
  PROVE  AccessInv'
<1>0. RowsOK /\ HandlersOK
  BY DEF IInv
<1>1. CASE \E p \in Procs : Step(p) \/ Call(p)
  BY <1>1, SubscriptionAccess, SubscriptionCallsAccess
<1>2. CASE \E p \in Procs \cup {Worker} : Crash(p)
  <2>1. PICK p \in Everyone : Return(p) /\ crashes' = crashes + 1 /\ UNCHANGED <<rows, traffic>>
    BY <1>2 DEF Crash, Everyone
  <2>2. Apart(p) /\ handler'[p] = Rest
    BY <1>0, <2>1 DEF Return, Apart
  <2>3. HandlersMove
    BY <2>2 DEF HandlersMove, Apart, Fits, Rest, Carrying
  <2>4. RowsMove /\ NoNewMandate
    BY <2>1, StayRests, NoneMade DEF RowsStay
  <2>5. crashes' # 0
    BY <2>1
  <2>. QED BY <1>0, <2>3, <2>4, <2>5, AccessMoves
<1>3. CASE \E i \in DOMAIN rows : PeriodEnds(i)
  <2>1. PICK i \in DOMAIN rows : PeriodEnds(i)
    BY <1>3
  <2>2. UNCHANGED <<handler, crashes, traffic>> /\ DOMAIN rows' = DOMAIN rows
    BY <2>1 DEF PeriodEnds
  <2>3. ASSUME NEW j \in DOMAIN rows
        PROVE  rows'[j].form = rows[j].form /\ rows'[j].paidBy = rows[j].paidBy /\ rows'[j].status = rows[j].status
    <3>1. rows'[j] = rows[j] \/ rows'[j] = [rows[j] EXCEPT !.due = TRUE]
      BY <2>1 DEF PeriodEnds
    <3>. QED BY <1>0, <3>1, RowTyped DEF Row
  <2>4. Indexed(rows')
    BY <2>2, <2>3, IndexedStays DEF AccessInv
  <2>5. RowsStay
    BY <2>2, <2>3, <2>4 DEF RowsStay, RowsMove, RowStays, RowMoves
  <2>. QED BY <1>0, <2>2, <2>5, FitRests, NoneMade, AccessStays
<1>. QED BY <1>1, <1>2, <1>3 DEF SubscriptionNext

(* So do the operations of checkout,                                       *)
LEMMA CheckoutCallsAccess ==
  ASSUME IInv, AccessInv, mandate' = mandate, NEW p \in Procs, CheckoutCall(p)
  PROVE  AccessInv'
<1>. p \in Everyone /\ RowsOK /\ HandlersOK
  BY DEF Everyone, IInv
<1>1. UNCHANGED <<rows, crashes, traffic>>
  BY DEF CheckoutCall, CreateOrder, IssueLink, CancelLink, Confirm, Captured, Dispatched, RaiseUpgrade, UpgradeForFree, Downgrade
<1>2. NoNewMandate
  BY <1>1, NoneMade
<1>3. ASSUME NEW flow, NEW h, Begin(p, flow, h), DOMAIN h = DOMAIN Rest,
             h.pc \in {"insertPayment", "closeLink", "capture", "upgrading", "insertScheduled"}
      PROVE  AccessInv'
  BY <1>1, <1>2, <1>3, CallStays DEF Carrying
<1>4. CASE handler' = handler
  BY <1>1, <1>2, <1>4, FitRests, StayRests, AccessStays
<1>5. CASE handler' # handler
  <2>1. CASE \E o \in Payments : CreateOrder(p, o) \/ IssueLink(p, o) \/ CancelLink(p, o) \/ Confirm(p, o) \/ Captured(p, o)
    <3>0. PICK o \in Payments : CreateOrder(p, o) \/ IssueLink(p, o) \/ CancelLink(p, o) \/ Confirm(p, o) \/ Captured(p, o)
      BY <2>1
    <3>1. PICK pc \in {"insertPayment", "closeLink", "capture"} : \E flow : Begin(p, flow, [Rest EXCEPT !.pc = pc, !.by = o])
      <4>1. CASE Captured(p, o)
        <5> DEFINE type == IF KindOf[o] = "link" THEN "linkPaid" ELSE "captured"
        <5>1. Ingest(p, Event(type, o, 0), [Rest EXCEPT !.pc = "capture", !.by = o])
          BY <1>5, <4>1 DEF Captured, Dispatched
        <5>. QED BY <5>1 DEF Ingest
      <4>2. CASE ~Captured(p, o)
        BY <3>0, <4>2 DEF CreateOrder, IssueLink, CancelLink, Confirm
      <4>. QED BY <4>1, <4>2
    <3>2. PICK flow : Begin(p, flow, [Rest EXCEPT !.pc = pc, !.by = o])
      BY <3>1
    <3> DEFINE h == [Rest EXCEPT !.pc = pc, !.by = o]
    <3>3. Begin(p, flow, h) /\ h.pc = pc /\ DOMAIN h = DOMAIN Rest
      BY <3>2 DEF Rest
    <3> HIDE DEF h
    <3>. QED BY <1>3, <3>3
  <2>2. CASE \E o \in Payments : RaiseUpgrade(p, o)
    <3>1. PICK o \in Payments : Begin(p, "upgrade", [Rest EXCEPT !.pc = "insertPayment", !.by = o, !.row = CurrentRow])
      BY <2>2 DEF RaiseUpgrade
    <3> DEFINE h == [Rest EXCEPT !.pc = "insertPayment", !.by = o, !.row = CurrentRow]
    <3>2. Begin(p, "upgrade", h) /\ h.pc = "insertPayment" /\ DOMAIN h = DOMAIN Rest
      BY <3>1 DEF Rest
    <3> HIDE DEF h
    <3>. QED BY <1>3, <3>2
  <2>3. CASE \E plan \in Plans : UpgradeForFree(p, plan) \/ Downgrade(p, plan)
    <3>0. PICK flow \in {"upgradeFree", "downgrade"}, pc \in {"upgrading", "insertScheduled"} :
            \E plan : Begin(p, flow, [Rest EXCEPT !.pc = pc, !.row = CurrentRow, !.plan = plan])
      BY <2>3 DEF UpgradeForFree, Downgrade
    <3>1. PICK plan : Begin(p, flow, [Rest EXCEPT !.pc = pc, !.row = CurrentRow, !.plan = plan])
      BY <3>0
    <3> DEFINE h == [Rest EXCEPT !.pc = pc, !.row = CurrentRow, !.plan = plan]
    <3>2. Begin(p, flow, h) /\ h.pc = pc /\ DOMAIN h = DOMAIN Rest
      BY <3>1 DEF Rest
    <3> HIDE DEF h
    <3>. QED BY <1>3, <3>2
  <2>. QED BY <2>1, <2>2, <2>3 DEF CheckoutCall
<1>. QED BY <1>4, <1>5

LEMMA CheckoutStepsAccess ==
  ASSUME IInv, MandateInv, AccessInv, mandate' = mandate, NEW p \in Procs, CheckoutStep(p)
  PROVE  AccessInv'
<1>. p \in Everyone /\ RowsOK /\ HandlersOK
  BY DEF Everyone, IInv
<1> DEFINE h == handler[p]
<1>h. h \in Local /\ HoldsOK(h, DOMAIN rows) /\ Held(h, rows, mandate)
  BY HolderOK DEF MandateInv
<1>u. traffic' = traffic /\ crashes' = crashes
  BY DEF CheckoutStep, InsertPayment, CreateLink, SaveLink, CloseLink, Capture, LinkRow, ClaimUpgrade, ApplyUpgrade, InsertScheduled
<1>n. DOMAIN rows' = DOMAIN rows => NoNewMandate
  BY <1>u, NoneMade
<1>k. RowsStay /\ HandlersStay /\ NoNewMandate => AccessInv'
  BY <1>u, AccessStays
<1>s. rows' = rows => RowsStay /\ NoNewMandate
  BY <1>n, StayRests
<1>p. h.pc \notin Promising
  BY DEF CheckoutStep, InsertPayment, CreateLink, SaveLink, CloseLink, Capture, LinkRow, ClaimUpgrade, ApplyUpgrade, InsertScheduled,
         On, Promising
<1>1. CASE InsertPayment(p) \/ CreateLink(p) \/ SaveLink(p) \/ CloseLink(p) \/ LinkRow(p)
  <2>1. rows' = rows /\ (Return(p) \/ \E pc \in {"createLink", "saveLink"} : Goto(p, pc))
    BY <1>1 DEF InsertPayment, CreateLink, SaveLink, CloseLink, LinkRow
  <2>. QED BY <1>p, <1>s, <1>k, <2>1, FitEnds, FitAt DEF Carrying
<1>2. CASE Capture(p)
  <2>1. rows' = rows
    BY <1>2 DEF Capture
  <2>2. CASE Return(p)
    BY <1>p, <1>s, <1>k, <2>1, <2>2, FitEnds
  <2>3. CASE ~Return(p)
    <3>0. PICK pc \in {"applying", "subscribe"} : \E plan : handler' = [handler EXCEPT ![p].pc = pc, ![p].plan = plan]
      BY <1>2, <2>3 DEF Capture
    <3>1. PICK plan : handler' = [handler EXCEPT ![p].pc = pc, ![p].plan = plan]
      BY <3>0
    <3>2. Apart(p) /\ handler'[p].pc = pc /\ handler'[p].flow = h.flow
      BY <1>h, <3>1 DEF Apart, Local
    <3>. QED BY <1>p, <1>s, <1>k, <2>1, <3>2, FitGoes DEF Carrying
  <2>. QED BY <2>2, <2>3
<1>3. CASE ClaimUpgrade(p)
  <2>1. rows' = rows
    BY <1>3 DEF ClaimUpgrade
  <2>2. CASE Return(p)
    BY <1>p, <1>s, <1>k, <2>1, <2>2, FitEnds
  <2>3. CASE ~Return(p)
    <3>1. handler' = [handler EXCEPT ![p].pc = "upgrading", ![p].row = CurrentRow]
      BY <1>3, <2>3 DEF ClaimUpgrade
    <3>2. Apart(p) /\ handler'[p].pc = "upgrading" /\ handler'[p].flow = h.flow
      BY <1>h, <3>1 DEF Apart, Local
    <3>. QED BY <1>p, <1>s, <1>k, <2>1, <3>2, FitGoes DEF Carrying
  <2>. QED BY <2>2, <2>3
<1>4. CASE ApplyUpgrade(p)
  <2> DEFINE i == h.row
             r == [rows[i] EXCEPT !.plan = h.plan]
  <2>1. rows' = [rows EXCEPT ![i] = r] /\ Return(p)
    BY <1>4 DEF ApplyUpgrade
  <2>2. i \in DOMAIN rows => r.status = rows[i].status /\ r.form = rows[i].form /\ r.paidBy = rows[i].paidBy
    BY RowTyped DEF Row
  <2> HIDE DEF r
  <2>3. RowsStay /\ DOMAIN rows' = DOMAIN rows
    BY <2>1, <2>2, StayWrites DEF RowStays, RowMoves
  <2>. QED BY <1>p, <1>n, <1>k, <2>1, <2>3, FitEnds
<1>5. CASE InsertScheduled(p)
  <2> DEFINE r == [NewRow("oid", h.plan, "scheduled", None) EXCEPT !.after = h.row, !.due = rows[h.row].due]
  <2>1. h.pc = "insertScheduled" /\ Insert(p, r)
    BY <1>5 DEF InsertScheduled, On
  <2>2. h.row \in DOMAIN rows /\ h.plan \in Plans /\ h.row \in Nat
    BY <1>h, <2>1 DEF HoldsOK, Local
  <2>3. rows[h.row].due \in BOOLEAN
    BY <2>2, RowTyped DEF Row
  <2>4. NewRow("oid", h.plan, "scheduled", None) \in Row
    BY <2>2, NewRowOK, SubscriptionAssumption DEF Statuses
  <2>5. r \in Row /\ r.paidBy \notin Mandate /\ r.status = "scheduled"
    BY <2>2, <2>3, <2>4, NoMandate DEF Row, NewRow
  <2> HIDE DEF r
  <2>6. h.flow # "promote"
    BY <1>h, <2>1 DEF Held, Planned
  <2>7. (rows' = Append(rows, r) /\ Indexed(rows') /\ Goto(p, "inserted")) \/ (rows' = rows /\ Return(p))
    BY <2>1, <2>6 DEF Insert, Write, NextRow
  <2>8. RowsStay /\ NoNewMandate
    <3>1. CASE rows' = rows
      BY <1>s, <3>1
    <3>2. CASE rows' = Append(rows, r) /\ Indexed(rows')
      BY <1>u, <2>5, <3>2, StayComes DEF NoNewMandate
    <3>. QED BY <2>7, <3>1, <3>2
  <2>. QED BY <1>p, <1>k, <2>7, <2>8, FitEnds, FitAt DEF Carrying
<1>. QED BY <1>1, <1>2, <1>3, <1>4, <1>5 DEF CheckoutStep

LEMMA CheckoutAccess ==
  ASSUME IInv, MandateInv, AccessInv, crashes \in Nat, mandate' = mandate, CheckoutNext
  PROVE  AccessInv'
<1>1. CASE \E p \in Procs : CheckoutStep(p) \/ CheckoutCall(p)
  BY <1>1, CheckoutStepsAccess, CheckoutCallsAccess
<1>2. CASE \E o \in Payments : PaymentFailed(o) \/ Pay(o) \/ AttemptFails(o) \/ LinkExpires(o)
  <2>1. UNCHANGED <<rows, handler, traffic, crashes>>
    BY <1>2 DEF PaymentFailed, Dispatched, Pay, AttemptFails, LinkExpires, subVars
  <2>. QED BY <2>1, StayRests, FitRests, NoneMade, AccessStays DEF IInv
<1>3. CASE SubscriptionNext /\ UNCHANGED payVars
  BY <1>3, SubscriptionNextAccess
<1>. QED BY <1>1, <1>2, <1>3 DEF CheckoutNext

(* A mandate is created once, and its row inserted once, pending;          *)
LEMMA MandateMade ==
  ASSUME IInv, AccessInv, NEW p \in Procs, NEW m \in Mandate, CreateMandate(p, m)
  PROVE  AccessInv'
<1>. p \in Everyone /\ RowsOK /\ HandlersOK /\ MandOK
  BY DEF Everyone, IInv
<1>1. UNCHANGED <<rows, crashes, traffic>> /\ m \in traffic /\ mandate[m].status = "none"
      /\ mandate' = [mandate EXCEPT ![m].status = "created"]
  BY DEF CreateMandate
<1>2. /\ mandate'[m].status = "created"
      /\ \A n \in Mandate : mandate[n].status # "none" => mandate'[n].status # "none"
  BY <1>1 DEF MandOK, Gateway
<1>3. Apart(p) /\ handler[p].pc = "idle" /\ handler'[p].pc = "insertPending" /\ handler'[p].by = m /\ handler'[p].flow = "mandate"
      /\ "mandate" \in traffic
  <2> DEFINE h == [Rest EXCEPT !.pc = "insertPending", !.by = m]
  <2>1. Begin(p, "mandate", h)
    BY DEF CreateMandate
  <2>2. h.pc = "insertPending" /\ DOMAIN h = DOMAIN Rest /\ h.by = m
    BY DEF Rest
  <2> HIDE DEF h
  <2>3. Apart(p) /\ handler'[p] = [h EXCEPT !.flow = "mandate"]
    BY <2>1, Began
  <2>. QED BY <2>1, <2>2, <2>3 DEF Begin, Busy, Rest
<1>4. \A q \in Everyone : Fits(handler[q], rows)'
  BY <1>1, <1>3 DEF Apart, AccessInv, Fits, Carrying
<1>5. MandateRows'
  <2>1. ~Made(m) /\ Made(m)' /\ \A n \in Mandate : Made(n) => Made(n)'
    BY <1>1, <1>2 DEF Made
  <2>2. \A q \in Everyone : Making(q) => handler[q].by \in Mandate
    BY DEF HoldsOK, Making
  <2>3. \A i \in DOMAIN rows : rows[i].paidBy # m
    BY <2>1 DEF AccessInv, MandateRows
  <2>4. \A q \in Everyone \ {p} : handler'[q] = handler[q] /\ (Making(q)' <=> Making(q)) /\ (Making(q) => handler[q].by # m)
    BY <1>3, <2>1 DEF Apart, Making, AccessInv, MandateRows
  <2>5. \A i \in DOMAIN rows' : rows'[i].paidBy \in Mandate => Made(rows[i].paidBy)'
    BY <1>1, <2>1 DEF AccessInv, MandateRows
  <2>6. \A i, j \in DOMAIN rows' : rows'[i].paidBy \in Mandate /\ rows'[i].paidBy = rows'[j].paidBy => i = j
    BY <1>1 DEF AccessInv, MandateRows
  <2>7. ASSUME NEW q \in Everyone, Making(q)'
        PROVE  /\ Made(handler[q].by)'
               /\ \A i \in DOMAIN rows' : rows'[i].paidBy # handler'[q].by
               /\ \A a \in Everyone : Making(a)' /\ handler'[a].by = handler'[q].by => a = q
    <3>1. CASE q = p
      BY <1>1, <1>3, <2>1, <2>3, <2>4, <3>1
    <3>2. CASE q # p
      <4>1. handler'[q] = handler[q] /\ Making(q) /\ handler[q].by # m /\ handler[q].by \in Mandate
        BY <2>2, <2>4, <2>7, <3>2
      <4>2. \A a \in Everyone : Making(a)' /\ handler'[a].by = handler'[q].by => a = q
        BY <1>3, <2>4, <4>1 DEF AccessInv, MandateRows
      <4>3. Made(handler[q].by)' /\ \A i \in DOMAIN rows' : rows'[i].paidBy # handler'[q].by
        BY <1>1, <2>1, <4>1 DEF AccessInv, MandateRows
      <4>. QED BY <4>2, <4>3
    <3>. QED BY <3>1, <3>2
  <2>. QED BY <2>5, <2>6, <2>7 DEF MandateRows
<1>6. Separate /\ crashes = 0 => Covered'
  <2>1. \A q \in Everyone : handler[q].pc \in Promising => handler'[q] = handler[q]
    BY <1>3 DEF Apart, Promising
  <2>. QED BY <1>1, <2>1, StayRests, CoverStays DEF AccessInv
<1>7. Separate' <=> Separate
  BY <1>1 DEF Separate, Renews
<1>. QED BY <1>1, <1>4, <1>5, <1>6, <1>7 DEF AccessInv

LEMMA PendingInserted ==
  ASSUME IInv, AccessInv, NEW p \in Procs, InsertPending(p)
  PROVE  AccessInv'
<1>. p \in Everyone /\ RowsOK /\ HandlersOK
  BY DEF Everyone, IInv
<1> DEFINE m == handler[p].by
           r == NewRow("oid", MandatePlan[m], "pending", m)
<1>1. handler[p].pc = "insertPending" /\ rows' = Append(rows, r) /\ Return(p) /\ UNCHANGED <<mandate, crashes, traffic>>
  BY DEF InsertPending, On, mandateVars
<1>2. m \in Mandate /\ m \in Bought /\ MandatePlan[m] \in Plans
  BY <1>1, MandateAssumption DEF HoldsOK
<1>3. r \in Row /\ r.status = "pending" /\ r.paidBy = m
  BY <1>2, NewRowOK DEF Statuses, NewRow
<1> HIDE DEF r
<1>4. RowsStay
  BY <1>1, <1>3, StayComes DEF Listed, Live
<1>5. DOMAIN rows \subseteq DOMAIN rows' /\ \A i \in DOMAIN rows' : rows'[i] = IF i \in DOMAIN rows THEN rows[i] ELSE r
  BY <1>1, <1>3, RowAppended
<1>5a. \A i, j \in DOMAIN rows' \ DOMAIN rows : i = j
  BY <1>1 DEF RowsOK
<1>6. Apart(p) /\ handler'[p] = Rest
  BY <1>1 DEF Return, Apart
<1>7. \A q \in Everyone : Fits(handler[q], rows)'
  <2>1. \A h : Fits(h, rows) => Fits(h, rows')
    BY <1>5 DEF Fits
  <2>2. \A q \in Everyone : Fits(handler'[q], rows')
    BY <1>6, <2>1 DEF Apart, AccessInv, Fits, Rest, Carrying
  <2>. QED BY <1>1, <2>2 DEF Fits
<1>8. MandateRows'
  <2>1. Made(m) /\ \A n : Made(n)' <=> Made(n)
    BY <1>1 DEF Made, AccessInv, MandateRows, Making
  <2>2. /\ \A i \in DOMAIN rows : rows[i].paidBy # m
        /\ \A q \in Everyone : Making(q) /\ handler[q].by = m => p = q
    BY <1>1 DEF AccessInv, MandateRows, Making
  <2>3. \A q \in Everyone : Making(q)' => q # p /\ handler'[q] = handler[q] /\ Making(q)
    BY <1>6 DEF Apart, Making, Rest
  <2>4. \A i \in DOMAIN rows' : rows'[i].paidBy \in Mandate => Made(rows[i].paidBy)'
    BY <1>1, <1>3, <1>5, <2>1 DEF AccessInv, MandateRows, Made
  <2>5. \A i, j \in DOMAIN rows' : rows'[i].paidBy \in Mandate /\ rows'[i].paidBy = rows'[j].paidBy => i = j
    BY <1>3, <1>5, <1>5a, <2>2 DEF AccessInv, MandateRows
  <2>6. ASSUME NEW q \in Everyone, Making(q)'
        PROVE  /\ Made(handler[q].by)'
               /\ \A i \in DOMAIN rows' : rows'[i].paidBy # handler'[q].by
               /\ \A a \in Everyone : Making(a)' /\ handler'[a].by = handler'[q].by => a = q
    <3>1. q # p /\ handler'[q] = handler[q] /\ Making(q) /\ handler[q].by # m
      BY <2>2, <2>3, <2>6
    <3>2. Made(handler'[q].by)
      BY <3>1 DEF AccessInv, MandateRows
    <3>3. Made(handler[q].by)'
      BY <1>1, <3>2 DEF Made
    <3>4. \A i \in DOMAIN rows' : rows'[i].paidBy # handler'[q].by
      BY <1>3, <1>5, <3>1 DEF AccessInv, MandateRows
    <3>5. \A a \in Everyone : Making(a)' /\ handler'[a].by = handler'[q].by => a = q
      BY <2>3, <3>1 DEF AccessInv, MandateRows
    <3>. QED BY <3>3, <3>4, <3>5
  <2>. QED BY <2>4, <2>5, <2>6 DEF MandateRows
<1>9. Separate /\ crashes = 0 => Covered'
  <2>1. \A q \in Everyone : handler[q].pc \in Promising => handler'[q] = handler[q]
    BY <1>1, <1>6 DEF Apart, Promising
  <2>. QED BY <1>1, <1>4, <2>1, CoverStays DEF AccessInv
<1>10. Separate' <=> Separate
  BY <1>1 DEF Separate, Renews
<1>. QED BY <1>1, <1>4, <1>7, <1>8, <1>9, <1>10 DEF AccessInv, RowsStay, RowsMove

(* Its row takes the place of others: it stands, or has been replaced by   *)
(* one stored in the other form, which this update does not see.           *)
LEMMA OthersReplaced ==
  ASSUME IInv, AccessInv, NEW p \in Procs, SupersedeOthers(p)
  PROVE  AccessInv'
<1>. p \in Everyone /\ RowsOK /\ HandlersOK
  BY DEF Everyone, IInv
<1> DEFINE i == handler[p].row
           S == Rows("oid", Live \cup {"grace_period"}) \ {i}
<1>1. handler[p].pc = "replacing" /\ rows' = SetStatus(S, "superseded") /\ Return(p) /\ UNCHANGED <<mandate, crashes, traffic>>
  BY DEF SupersedeOthers, On, mandateVars
<1>2. /\ handler[p].flow \in traffic \cap {"activated", "charged"}
      /\ i \in DOMAIN rows /\ rows[i].paidBy \in Mandate /\ rows[i].status # "pending"
  BY <1>1 DEF AccessInv, Fits, Carrying
<1>3. \A j \in S : rows[j].form = "oid"
  BY DEF Rows
<1>4. DOMAIN rows' = DOMAIN rows
  BY <1>1 DEF SetStatus
<1>5. \A j \in DOMAIN rows : /\ rows'[j].form = rows[j].form /\ rows'[j].paidBy = rows[j].paidBy
                             /\ rows'[j].status = IF j \in S THEN "superseded" ELSE rows[j].status
  <2>1. \A j \in DOMAIN rows : rows[j] \in Row
    BY RowTyped
  <2> HIDE DEF S
  <2>. QED BY <1>1, <2>1 DEF SetStatus, Row
<1>6. i \notin S
  OBVIOUS
<1> HIDE DEF S
<1>7. Indexed(rows')
  BY <1>4, <1>5, IndexedStays DEF AccessInv, Listed, Live
<1>8. RowsMove /\ NoNewMandate
  BY <1>1, <1>4, <1>5, <1>7, NoneMade DEF RowsMove, RowMoves
<1>9. HandlersMove /\ \A q \in Everyone : handler[q].pc \in Promising => handler'[q] = handler[q]
  <2>1. handler[p].pc \notin Promising
    BY <1>1 DEF Promising
  <2>. QED BY <1>1, <2>1, FitEnds DEF HandlersStay
<1>10. ASSUME Separate, crashes = 0 PROVE Covered'
  <2>0. Covered
    BY <1>10 DEF AccessInv
  <2>1. Renews /\ Renews'
    BY <1>1, <1>2 DEF Renews
  <2>2. Answered => Answered'
    <3>1. \A j \in DOMAIN rows : Lasting(rows[j]) => Lasting(rows[j])'
      BY <1>3, <1>4, <1>5, <2>1 DEF Lasting
    <3>. QED BY <1>4, <1>9, <3>1 DEF Answered
  <2>3. \A j \in DOMAIN rows : rows[j].paidBy \in Mandate => j = i
    <3>1. \A j \in DOMAIN rows : rows[j].paidBy \in Mandate => Made(rows[j].paidBy)
      BY DEF AccessInv, MandateRows
    <3>2. \A j \in DOMAIN rows : rows[j].paidBy \in Mandate => rows[j].paidBy = rows[i].paidBy
      BY <1>2, <1>10, <2>1, <3>1 DEF Made, Separate
    <3>. QED BY <1>2, <3>2 DEF AccessInv, MandateRows
  <2>4. CASE Answered
    BY <2>2, <2>4, AnswerCovers
  <2>5. CASE ~Answered
    <3>1. rows[i].status # "superseded"
      BY <1>2, <2>0, <2>5 DEF Covered
    <3>2. \E j \in DOMAIN rows' : rows'[j].paidBy \in Mandate /\ rows'[j].status \notin Out
      BY <1>2, <1>4, <1>5, <1>6, <3>1 DEF Out
    <3>3. ASSUME NEW j \in DOMAIN rows', rows'[j].status = "superseded"
          PROVE  rows'[j].form # "str" /\ rows'[j].paidBy \notin Mandate
      <4>1. CASE j \in S
        BY <1>3, <1>4, <1>5, <1>6, <2>3, <4>1
      <4>2. CASE j \notin S
        BY <1>4, <1>5, <2>0, <2>5, <3>3, <4>2 DEF Covered
      <4>. QED BY <4>1, <4>2
    <3>. QED BY <2>1, <3>2, <3>3 DEF Covered
  <2>. QED BY <2>4, <2>5
<1>11. Separate' <=> Separate
  BY <1>1 DEF Separate, Renews
<1>. QED BY <1>1, <1>8, <1>9, <1>10, AccessMoves

(* Handlers carry events to the row of their mandate, and take it live;    *)
LEMMA MandateStepsAccess ==
  ASSUME IInv, MandateInv, AccessInv, NEW p \in Procs, MandateStep(p)
  PROVE  AccessInv'
<1>. p \in Everyone /\ RowsOK /\ HandlersOK
  BY DEF Everyone, IInv
<1> DEFINE h == handler[p]
           i == h.row
<1>h. h \in Local /\ HoldsOK(h, DOMAIN rows) /\ Held(h, rows, mandate) /\ Fits(h, rows)
  BY HolderOK DEF MandateInv, AccessInv
<1>u. traffic' = traffic /\ crashes' = crashes /\ mandate' = mandate
  BY DEF MandateStep, InsertPending, ActivateMandate, SupersedeOthers, BookCharge, Renew, Answer, EnterGrace, ScheduleExpiry,
         mandateVars
<1>n. DOMAIN rows' = DOMAIN rows => NoNewMandate
  BY <1>u, NoneMade
<1>k. RowsStay /\ HandlersStay /\ NoNewMandate => AccessInv'
  BY <1>u, AccessStays
<1>s. rows' = rows => RowsStay /\ NoNewMandate
  BY <1>n, StayRests
<1>r. \A j \in DOMAIN rows : rows[j] \in Row
  BY RowTyped
<1>1. CASE InsertPending(p)
  BY <1>1, PendingInserted
<1>2. CASE SupersedeOthers(p)
  BY <1>2, OthersReplaced
<1>3. CASE ActivateMandate(p) \/ Renew(p)
  <2>1. h.pc \in {"activating", "renewing"}
    BY <1>3 DEF ActivateMandate, Renew, On
  <2>2. i \in DOMAIN rows /\ rows[i].paidBy \in Mandate
    BY <1>h, <2>1 DEF Held, Renewing
  <2> DEFINE due == IF h.n = 0 THEN rows[i].due ELSE h.n < mandate[rows[i].paidBy].cycle
             until == IF h.n = 0 THEN rows[i].until ELSE h.n
             r == [rows[i] EXCEPT !.status = "active", !.grace = 0, !.until = until, !.due = due]
  <2>3. r.status = "active" /\ r.form = rows[i].form /\ r.paidBy = rows[i].paidBy
    <3> HIDE DEF until, due
    <3>. QED BY <1>r, <2>2 DEF Row
  <2>4. Renewed(i, h.n) = [rows EXCEPT ![i] = r]
    BY DEF Renewed
  <2> HIDE DEF r
  <2>5. \/ rows' = rows /\ Return(p)
        \/ /\ rows' = rows /\ rows[i].status \in Closed
           /\ \E pc \in {"replacing", "answering"} : Goto(p, pc)
        \/ /\ rows' = [rows EXCEPT ![i] = r] /\ Indexed(rows')
           /\ \E pc \in {"replacing", "answering"} : Goto(p, pc)
    <3>1. CASE ActivateMandate(p)
      BY <2>4, <3>1 DEF ActivateMandate, Set
    <3>2. CASE Renew(p)
      <4> DEFINE next == IF h.was = "pending" THEN "replacing" ELSE "answering"
      <4>1. next \in {"replacing", "answering"}
        OBVIOUS
      <4>2. IF Renewable(i) THEN Set(p, Renewed(i, h.n), next) ELSE Goto(p, next) /\ rows' = rows
        BY <3>2 DEF Renew, PeriodPaid
      <4>3. Renewable(i) <=> rows[i].status \notin Closed
        BY DEF Renewable
      <4> HIDE DEF next
      <4>. QED BY <2>4, <4>1, <4>2, <4>3 DEF Set
    <3>. QED BY <1>3, <3>1, <3>2
  <2>6. RowsStay /\ DOMAIN rows' = DOMAIN rows
    <3>1. CASE rows' = rows
      BY <1>s, <3>1
    <3>2. CASE rows' = [rows EXCEPT ![i] = r] /\ Indexed(rows')
      BY <2>3, <3>2, StayWrites DEF RowStays, RowMoves
    <3>. QED BY <2>5, <3>1, <3>2
  <2>7. h.pc \notin Promising
    BY <2>1 DEF Promising
  <2>8. CASE Return(p)
    BY <1>n, <1>k, <2>6, <2>7, <2>8, FitEnds
  <2>9. CASE ~Return(p)
    <3>1. PICK pc \in {"replacing", "answering"} : Goto(p, pc)
      BY <2>5, <2>9
    <3>2. /\ handler'[p].pc = pc /\ handler'[p].flow = h.flow /\ handler'[p].row = i /\ Apart(p)
      BY <1>h, <3>1 DEF Goto, Local, Apart
    <3>3. rows'[i].paidBy \in Mandate /\ rows'[i].status # "pending"
      BY <2>2, <2>3, <2>5, <2>9 DEF Closed
    <3>4. Fits(handler'[p], rows') /\ handler'[p].pc # "insertPending"
      BY <1>h, <2>1, <2>2, <2>6, <3>2, <3>3 DEF Fits, Carrying
    <3>. QED BY <1>n, <1>k, <2>6, <2>7, <3>2, <3>4, FitMoves
  <2>. QED BY <2>8, <2>9
<1>4. CASE BookCharge(p)
  <2>1. rows' = rows /\ h.pc = "booking" /\ (Return(p) \/ Goto(p, "renewing"))
    BY <1>4 DEF BookCharge, On
  <2>2. h.pc \notin Promising
    BY <2>1 DEF Promising
  <2>3. CASE Return(p)
    BY <1>s, <1>k, <2>1, <2>2, <2>3, FitEnds
  <2>4. CASE Goto(p, "renewing")
    <3>1. handler'[p].pc = "renewing" /\ handler'[p].flow = h.flow /\ Apart(p)
      BY <1>h, <2>4 DEF Goto, Local, Apart
    <3>2. Fits(handler'[p], rows')
      BY <1>h, <2>1, <3>1 DEF Fits, Carrying
    <3>. QED BY <1>s, <1>k, <2>1, <2>2, <3>1, <3>2, FitMoves
  <2>. QED BY <2>1, <2>3, <2>4
<1>5. CASE EnterGrace(p)
  <2> DEFINE g == day + Grace
             r == [rows[i] EXCEPT !.status = "grace_period", !.grace = g]
  <2>1. h.pc \notin Promising
    BY <1>5 DEF EnterGrace, On, Promising
  <2>2. CASE rows[i].status \notin Closed
    <3>1. rows' = [rows EXCEPT ![i] = r] /\ handler' = [handler EXCEPT ![p].pc = "schedule", ![p].n = day + Grace]
      BY <1>5, <2>2 DEF EnterGrace
    <3>2. i \in DOMAIN rows => r.status = "grace_period" /\ r.form = rows[i].form /\ r.paidBy = rows[i].paidBy
      <4> HIDE DEF g
      <4>. QED BY <1>r DEF Row
    <3> HIDE DEF r
    <3>3. RowsStay /\ DOMAIN rows' = DOMAIN rows
      BY <3>1, <3>2, StayWrites DEF RowStays, RowMoves, Listed, Live
    <3>4. Apart(p) /\ handler'[p].pc = "schedule" /\ handler'[p].flow = h.flow
      BY <1>h, <3>1 DEF Apart, Local
    <3>. QED BY <1>n, <1>k, <2>1, <3>3, <3>4, FitGoes DEF Carrying
  <2>3. CASE rows[i].status \in Closed
    <3>1. Return(p) /\ rows' = rows
      BY <1>5, <2>3 DEF EnterGrace
    <3>. QED BY <1>s, <1>k, <2>1, <3>1, FitEnds
  <2>. QED BY <2>2, <2>3
<1>6. CASE Answer(p) \/ ScheduleExpiry(p)
  <2>1. Return(p) /\ rows' = rows /\ h.pc \notin Promising
    BY <1>6 DEF Answer, ScheduleExpiry, On, Promising
  <2>. QED BY <1>s, <1>k, <2>1, FitEnds
<1>. QED BY <1>1, <1>2, <1>3, <1>4, <1>5, <1>6 DEF MandateStep

(* ... they take them up,                                                  *)
LEMMA MandateCallsAccess ==
  ASSUME IInv, AccessInv, NEW p \in Procs, NEW m \in Mandate,
         CreateMandate(p, m) \/ Activated(p, m) \/ Charged(p, m) \/ Halted(p, m)
  PROVE  AccessInv'
<1>. p \in Everyone /\ RowsOK /\ HandlersOK
  BY DEF Everyone, IInv
<1>1. CASE CreateMandate(p, m)
  BY <1>1, MandateMade
<1>2. CASE ~CreateMandate(p, m)
  <2>1. UNCHANGED <<rows, crashes, traffic, mandate>>
    BY <1>2 DEF Activated, Charged, Halted, Dispatched, mandateVars
  <2>2. NoNewMandate
    BY <2>1, NoneMade
  <2>3. ASSUME NEW flow, NEW h, Begin(p, flow, h), DOMAIN h = DOMAIN Rest,
               (h.pc = "activating" /\ flow = "activated") \/ (h.pc = "booking" /\ flow = "charged") \/ h.pc = "enterGrace"
        PROVE  AccessInv'
    BY <2>1, <2>2, <2>3, CallStays DEF Carrying
  <2>4. CASE handler' = handler
    BY <2>1, <2>2, <2>4, FitRests, StayRests, AccessStays
  <2>5. CASE handler' # handler
    <3>1. CASE Activated(p, m)
      <4>1. PICK n : Ingest(p, Event("activated", m, n), [Rest EXCEPT !.pc = "activating", !.by = m, !.row = RowOf(m), !.n = n])
        BY <2>5, <3>1 DEF Activated, Dispatched
      <4> DEFINE h == [Rest EXCEPT !.pc = "activating", !.by = m, !.row = RowOf(m), !.n = n]
      <4>2. Begin(p, "activated", h) /\ h.pc = "activating" /\ DOMAIN h = DOMAIN Rest
        BY <4>1 DEF Ingest, Event, Rest
      <4> HIDE DEF h
      <4>. QED BY <2>3, <4>2
    <3>2. CASE Charged(p, m)
      <4>1. PICK n : Ingest(p, Event("charged", m, n), [Rest EXCEPT !.pc = "booking", !.by = m, !.row = RowOf(m), !.n = n, !.was = StatusOf(m)])
        BY <2>5, <3>2 DEF Charged, Dispatched
      <4> DEFINE h == [Rest EXCEPT !.pc = "booking", !.by = m, !.row = RowOf(m), !.n = n, !.was = StatusOf(m)]
      <4>2. Begin(p, "charged", h) /\ h.pc = "booking" /\ DOMAIN h = DOMAIN Rest
        BY <4>1 DEF Ingest, Event, Rest
      <4> HIDE DEF h
      <4>. QED BY <2>3, <4>2
    <3>3. CASE Halted(p, m)
      <4>1. PICK n : Ingest(p, Event("halted", m, n), [Rest EXCEPT !.pc = "enterGrace", !.by = m, !.row = RowOf(m)])
        BY <2>5, <3>3 DEF Halted, Dispatched
      <4> DEFINE h == [Rest EXCEPT !.pc = "enterGrace", !.by = m, !.row = RowOf(m)]
      <4>2. Begin(p, "halted", h) /\ h.pc = "enterGrace" /\ DOMAIN h = DOMAIN Rest
        BY <4>1 DEF Ingest, Event, Rest
      <4> HIDE DEF h
      <4>. QED BY <2>3, <4>2
    <3>. QED BY <1>2, <3>1, <3>2, <3>3
  <2>. QED BY <2>4, <2>5
<1>. QED BY <1>1, <1>2

(* ... and what the gateway, the queue and the one-write events do takes   *)
(* no row away.                                                            *)
LEMMA MandateNextAccess ==
  ASSUME IInv, MandateInv, AccessInv, crashes \in Nat, MandateNext
  PROVE  AccessInv'
<1>. RowsOK /\ HandlersOK /\ MandOK /\ Worker \in Everyone
  BY DEF IInv, Everyone
<1>1. CASE \E p \in Procs : MandateStep(p) \/ MandateCall(p)
  BY <1>1, MandateStepsAccess, MandateCallsAccess DEF MandateCall
<1>2. CASE \E m \in Mandate : \/ CancelMandate(m) \/ PauseMandate(m) \/ ResumeMandate(m)
                              \/ Authorise(m) \/ Charge(m) \/ GiveUp(m) \/ Complete(m)
  <2>1. UNCHANGED <<rows, handler, crashes, traffic>>
    BY <1>2 DEF CancelMandate, PauseMandate, ResumeMandate, Ask, Authorise, Charge, GiveUp, Complete, Gives, subVars
  <2>2. PICK m \in Mandate : /\ mandate[m].status \notin {"none"}
                             /\ \E g : mandate' = [mandate EXCEPT ![m] = g] /\ g.status # "none"
    <3>1. PICK m \in Mandate : \/ CancelMandate(m) \/ PauseMandate(m) \/ ResumeMandate(m)
                               \/ Authorise(m) \/ Charge(m) \/ GiveUp(m) \/ Complete(m)
      BY <1>2
    <3>2. mandate[m] \in Gateway
      BY DEF MandOK
    <3>3. CASE CancelMandate(m) \/ PauseMandate(m) \/ ResumeMandate(m)
      <4>1. PICK to \in {"ended", "paused", "active"} : mandate' = [mandate EXCEPT ![m].status = to]
        BY <3>3 DEF CancelMandate, PauseMandate, ResumeMandate, Ask
      <4>2. mandate' = [mandate EXCEPT ![m] = [mandate[m] EXCEPT !.status = to]]
        BY <4>1
      <4>3. [mandate[m] EXCEPT !.status = to].status # "none"
        BY <3>2 DEF Gateway
      <4>4. mandate[m].status # "none"
        BY <3>3 DEF CancelMandate, PauseMandate, ResumeMandate, Ask
      <4>. QED BY <4>2, <4>3, <4>4
    <3>4. CASE Authorise(m)
      <4>1. PICK n \in {0, 1} : mandate' = [mandate EXCEPT ![m] = [mandate[m] EXCEPT !.status = "active", !.cycle = n]]
        BY <3>4 DEF Authorise, Gives
      <4>2. [mandate[m] EXCEPT !.status = "active", !.cycle = n].status # "none"
        BY <3>2 DEF Gateway
      <4>. QED BY <3>4, <4>1, <4>2 DEF Authorise
    <3>5. CASE Charge(m)
      <4> DEFINE n == mandate[m].cycle + 1
      <4>1. mandate' = [mandate EXCEPT ![m] = [mandate[m] EXCEPT !.status = "active", !.cycle = n]]
        BY <3>5 DEF Charge, Gives
      <4> HIDE DEF n
      <4>2. [mandate[m] EXCEPT !.status = "active", !.cycle = n].status # "none"
        BY <3>2 DEF Gateway
      <4>3. mandate[m].status # "none"
        BY <3>5 DEF Charge
      <4>. QED BY <4>1, <4>2, <4>3
    <3>6. CASE GiveUp(m)
      <4> DEFINE n == mandate[m].halts + 1
      <4>1. mandate' = [mandate EXCEPT ![m] = [mandate[m] EXCEPT !.status = "halted", !.halts = n]]
        BY <3>6 DEF GiveUp, Gives
      <4> HIDE DEF n
      <4>2. [mandate[m] EXCEPT !.status = "halted", !.halts = n].status # "none"
        BY <3>2 DEF Gateway
      <4>3. mandate[m].status # "none"
        BY <3>6 DEF GiveUp
      <4>. QED BY <4>1, <4>2, <4>3
    <3>7. CASE Complete(m)
      <4>1. mandate' = [mandate EXCEPT ![m] = [mandate[m] EXCEPT !.status = "ended"]]
        BY <3>7 DEF Complete, Gives
      <4>2. [mandate[m] EXCEPT !.status = "ended"].status # "none"
        BY <3>2 DEF Gateway
      <4>. QED BY <3>7, <4>1, <4>2 DEF Complete
    <3>. QED BY <3>1, <3>3, <3>4, <3>5, <3>6, <3>7
  <2>3. \A n \in Mandate : mandate[n].status # "none" => mandate'[n].status # "none"
    BY <2>2 DEF MandOK
  <2>4. NoNewMandate
    BY <2>1, <2>3 DEF NoNewMandate
  <2>. QED BY <2>1, <2>4, FitRests, StayRests, AccessStays
<1>3. CASE \E m \in Mandate : Marked(m)
  <2>1. PICK m \in Mandate : Marked(m)
    BY <1>3
  <2>2. UNCHANGED <<handler, crashes, traffic, mandate>>
    BY <2>1 DEF Marked, Mark, Dispatched, mandateVars
  <2>3. PICK status \in {"cancelled", "paused", "active", "expired"} :
          rows' = rows \/ (rows' = SetStatus({RowOf(m)} \ {0}, status) /\ Indexed(rows'))
    BY <2>1 DEF Marked, Mark
  <2>4. RowsStay /\ DOMAIN rows' = DOMAIN rows
    BY <2>3, StayRests, StaySets DEF Out
  <2>. QED BY <2>2, <2>4, FitRests, NoneMade, AccessStays
<1>4. CASE \E job \in jobs : Dispatch(job)
  <2>1. PICK job \in jobs : Dispatch(job)
    BY <1>4
  <2>2. UNCHANGED <<rows, crashes, traffic, mandate>>
    BY <2>1 DEF Dispatch
  <2>3. CASE handler' = handler
    BY <2>2, <2>3, FitRests, StayRests, NoneMade, AccessStays
  <2>4. CASE handler' # handler
    <3>1. handler' = [handler EXCEPT ![Worker] = [Rest EXCEPT !.flow = "expiry", !.pc = "expiring", !.row = job.row, !.n = job.stamp]]
          /\ handler[Worker].pc = "idle"
      BY <2>1, <2>4 DEF Dispatch, Busy
    <3>2. Apart(Worker) /\ handler'[Worker].flow = "expiry" /\ handler'[Worker].pc = "expiring"
      BY <3>1 DEF Apart, Rest
    <3>3. HandlersStay
      BY <3>1, <3>2, FitMoves DEF Fits, Carrying, Promising
    <3>. QED BY <2>2, <3>3, StayRests, NoneMade, AccessStays
  <2>. QED BY <2>3, <2>4
<1>5. CASE ExpireGrace
  <2>1. Return(Worker) /\ handler[Worker].pc \notin Promising /\ UNCHANGED <<crashes, traffic, mandate>>
    BY <1>5 DEF ExpireGrace, On, Promising
  <2>2. rows' = rows \/ rows' = SetStatus({handler[Worker].row}, "expired")
    BY <1>5 DEF ExpireGrace
  <2>3. RowsStay /\ DOMAIN rows' = DOMAIN rows
    BY <2>2, StayRests, StaySets DEF Out, Listed, Live
  <2>. QED BY <2>1, <2>3, FitEnds, NoneMade, AccessStays
<1>6. CASE Tomorrow
  <2>1. UNCHANGED <<rows, handler, crashes, traffic, mandate>>
    BY <1>6 DEF Tomorrow, subVars
  <2>. QED BY <2>1, FitRests, StayRests, NoneMade, AccessStays
<1>7. CASE CheckoutNext /\ UNCHANGED mandateVars
  BY <1>7, CheckoutAccess DEF mandateVars
<1>. QED BY <1>1, <1>2, <1>3, <1>4, <1>5, <1>6, <1>7 DEF MandateNext

(* A refund cancels a row, which is not to supersede it.                   *)
LEMMA RefundAccess ==
  ASSUME IInv, AccessInv, NEW p \in Procs, RefundStep(p) \/ RefundCall(p)
  PROVE  AccessInv'
<1>. p \in Everyone /\ RowsOK /\ HandlersOK
  BY DEF Everyone, IInv
<1> DEFINE h == handler[p]
<1>h. h \in Local
  BY HolderOK
<1>u. traffic' = traffic /\ crashes' = crashes /\ mandate' = mandate
  BY DEF RefundStep, InsertRequest, Execute, ReadPayment, CreateRefund, StampRequest, RecordRefund, AutoDowngrade, Settle, PushRefund,
         SyncRequest, RefundCall, RequestRefund, ApproveRequest, RefundEvent, Dispatched, mandateVars
<1>n. DOMAIN rows' = DOMAIN rows => NoNewMandate
  BY <1>u, NoneMade
<1>k. RowsStay /\ HandlersStay /\ NoNewMandate => AccessInv'
  BY <1>u, AccessStays
<1>s. rows' = rows => RowsStay /\ NoNewMandate
  BY <1>n, StayRests
<1>1. CASE RefundStep(p)
  <2>1. h.pc \in Refunding \cup {"push", "sync"}
    BY <1>1 DEF RefundStep, InsertRequest, Execute, ReadPayment, CreateRefund, StampRequest, RecordRefund, AutoDowngrade, Settle,
                PushRefund, SyncRequest, On, Refunding
  <2>2. h.pc \notin Promising
    BY <2>1 DEF Refunding, Promising
  <2>3. rows' = rows \/ rows' = SetStatus({h.row}, "cancelled")
    BY <1>1 DEF RefundStep, InsertRequest, Execute, ReadPayment, CreateRefund, StampRequest, RecordRefund, AutoDowngrade, Settle,
                PushRefund, SyncRequest
  <2>4. RowsStay /\ NoNewMandate
    BY <1>n, <2>3, StayRests, StaySets DEF Out, Listed, Live
  <2>5. CASE ReadPayment(p)
    <3>1. Apart(p) /\ handler'[p].pc = "createRefund" /\ handler'[p].flow = h.flow
      BY <1>h, <2>5 DEF ReadPayment, Read, Apart, Local
    <3>. QED BY <1>k, <2>2, <2>4, <3>1, FitGoes DEF Carrying
  <2>6. CASE ~ReadPayment(p)
    <3>1. Return(p) \/ \E pc \in Refunding \cup {"sync"} : Goto(p, pc)
      BY <1>1, <2>6 DEF RefundStep, InsertRequest, Execute, CreateRefund, StampRequest, RecordRefund, AutoDowngrade, Settle, PushRefund,
                        SyncRequest, Record, MarkFailed, Refunding
    <3>. QED BY <1>k, <2>2, <2>4, <3>1, FitEnds, FitAt DEF Carrying, Refunding
  <2>. QED BY <2>5, <2>6
<1>2. CASE RefundCall(p)
  <2>0. PICK r \in Requests :
          \/ \E amount \in 1..Total, status \in {"approved", "pending_admin"} : RequestRefund(p, r, amount, status)
          \/ ApproveRequest(p, r)
          \/ \E type \in {"refundCreated", "refundProcessed"} : RefundEvent(p, r, type)
    BY <1>2 DEF RefundCall
  <2>1. rows' = rows
    BY <2>0 DEF RequestRefund, ApproveRequest, RefundEvent
  <2>2. ASSUME NEW flow, NEW g, Begin(p, flow, g), DOMAIN g = DOMAIN Rest, g.pc \in {"insertRequest", "execute", "push"}
        PROVE  AccessInv'
    BY <1>u, <1>n, <2>1, <2>2, CallStays DEF Carrying
  <2>3. CASE handler' = handler
    BY <1>s, <1>k, <2>1, <2>3, FitRests
  <2>4. CASE \E amount \in 1..Total, status \in {"approved", "pending_admin"} : RequestRefund(p, r, amount, status)
    <3>1. PICK amount, status : Begin(p, "refund", [Rest EXCEPT !.pc = "insertRequest", !.by = r, !.n = amount, !.want = status])
      BY <2>4 DEF RequestRefund
    <3> DEFINE g == [Rest EXCEPT !.pc = "insertRequest", !.by = r, !.n = amount, !.want = status]
    <3>2. Begin(p, "refund", g) /\ g.pc = "insertRequest" /\ DOMAIN g = DOMAIN Rest
      BY <3>1 DEF Rest
    <3> HIDE DEF g
    <3>. QED BY <2>2, <3>2
  <2>5. CASE ApproveRequest(p, r)
    <3> DEFINE g == [Rest EXCEPT !.pc = "execute", !.by = r]
    <3>1. Begin(p, "approve", g) /\ g.pc = "execute" /\ DOMAIN g = DOMAIN Rest
      BY <2>5 DEF ApproveRequest, Rest
    <3> HIDE DEF g
    <3>. QED BY <2>2, <3>1
  <2>6. CASE handler' # handler /\ \E type \in {"refundCreated", "refundProcessed"} : RefundEvent(p, r, type)
    <3>1. PICK type \in {"refundCreated", "refundProcessed"} : RefundEvent(p, r, type)
      BY <2>6
    <3> DEFINE o == PayOf[r]
               g == [Rest EXCEPT !.pc = "push", !.by = r, !.row = payment[o].sub, !.was = payment[o].status, !.n = payment[o].back]
    <3>2. Ingest(p, Event(type, r, 0), g)
      BY <2>6, <3>1 DEF RefundEvent, Dispatched
    <3>3. Begin(p, type, g) /\ g.pc = "push" /\ DOMAIN g = DOMAIN Rest
      BY <3>2 DEF Ingest, Event, Rest
    <3> HIDE DEF g
    <3>. QED BY <2>2, <3>3
  <2>. QED BY <2>0, <2>3, <2>4, <2>5, <2>6
<1>. QED BY <1>1, <1>2

(* The invariant holds.                                                    *)
LEMMA AccessHolds == Spec => []AccessInv
<1>1. Init => AccessInv
  <2> SUFFICES ASSUME Init PROVE AccessInv
    OBVIOUS
  <2>1. RefundInit /\ MandateInit /\ CheckoutInit /\ SubInit
    BY DEF Init, RefundInit, MandateInit, CheckoutInit
  <2>2. \A q \in Everyone : handler[q] = Rest
    BY <2>1 DEF SubInit, Everyone
  <2>3. \A i, j \in DOMAIN rows : i = j /\ rows[i].status = "active" /\ rows[i].paidBy = None
    <3>1. CASE rows = <<>>
      BY <3>1
    <3>2. CASE rows # <<>>
      <4>1. PICK form \in {"str", "oid"}, plan \in Plans : rows = <<NewRow(form, plan, "active", None)>>
        BY <2>1, <3>2 DEF SubInit
      <4>. QED BY <4>1 DEF NewRow
    <3>. QED BY <3>1, <3>2
  <2>4. Indexed(rows)
    BY <2>3 DEF Indexed, AtMostOne
  <2>5. \A q \in Everyone : Fits(handler[q], rows)
    BY <2>2 DEF Fits, Rest, Carrying
  <2>6. MandateRows
    BY <2>2, <2>3, NoMandate DEF MandateRows, Making, Rest
  <2>7. Covered
    BY <2>3 DEF Covered
  <2>. QED BY <2>4, <2>5, <2>6, <2>7 DEF AccessInv
<1>2. ASSUME IInv, MandateInv, LossInv, AccessInv, Next PROVE AccessInv'
  <2>0. HandlersOK
    BY <1>2 DEF IInv
  <2>1. CASE \E p \in Procs : RefundStep(p) \/ RefundCall(p)
    BY <1>2, <2>1, RefundAccess
  <2>2. CASE \E r \in Requests : RejectRequest(r) \/ ProcessRefund(r)
    <3>1. UNCHANGED <<rows, handler, crashes, traffic, mandate>>
      BY <2>2 DEF RejectRequest, ProcessRefund, subVars, mandateVars
    <3>. QED BY <1>2, <2>0, <3>1, FitRests, StayRests, NoneMade, AccessStays
  <2>3. CASE MandateNext /\ UNCHANGED refundVars
    BY <1>2, <2>3, MandateNextAccess DEF LossInv
  <2>. QED BY <1>2, <2>1, <2>2, <2>3 DEF Next, RefundNext
<1>3. ASSUME IInv, AccessInv, vars' = vars PROVE AccessInv'
  <2>1. UNCHANGED <<rows, handler, crashes, traffic, mandate>>
    BY <1>3 DEF vars, subVars, mandateVars
  <2>. QED BY <1>3, <2>1, FitRests, StayRests, NoneMade, AccessStays DEF IInv
<1>4. IInv /\ MandateInv /\ LossInv /\ AccessInv /\ [Next]_vars => AccessInv'
  BY <1>2, <1>3
<1>. QED BY <1>1, <1>4, Inductive, MandatesHold, LossHold, PTL DEF Spec

(* supersedeCurrent and the activation of a mandate take rows away before, *)
(* or after, the new one is there, and overlap with each other and with    *)
(* everything else: when all handlers have ended, and none died, a user    *)
(* whose row was superseded has another one.  A handler that superseded    *)
(* rows writes one, or the index that refuses it names one; and what a     *)
(* mandate supersedes is replaced by its own row, unless that has been     *)
(* replaced in the form it cannot see.                                     *)
THEOREM NobodyLockedOut == Spec => [](Separate => NotLockedOut)
<1>1. ASSUME IInv, AccessInv, Separate PROVE NotLockedOut
  <2>0. HandlersOK
    BY <1>1 DEF IInv
  <2>1. SUFFICES ASSUME Quiet, crashes = 0, NEW i \in DOMAIN rows, rows[i].status = "superseded"
                 PROVE  \E j \in DOMAIN rows : rows[j].status \notin {"superseded", "pending"}
    BY DEF NotLockedOut
  <2>2. \A q \in Everyone : handler[q].pc \notin Promising
    BY <2>0, <2>1 DEF Quiet, Busy, Promising
  <2>3. Answered \/ \E j \in DOMAIN rows : rows[j].status \notin Out
    BY <1>1, <2>1 DEF AccessInv, Covered
  <2>. QED BY <2>2, <2>3 DEF Answered, Lasting, Out
<1>. QED BY <1>1, Inductive, AccessHolds, PTL
=============================================================================

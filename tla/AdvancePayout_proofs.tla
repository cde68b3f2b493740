------------------------ MODULE AdvancePayout_proofs ------------------------
(***************************************************************************)
(* Proofs about AdvancePayout and AdvanceCalls, for every set of requests, *)
(* payments, recoveries and handlers, every assignment of months and any   *)
(* number of crashes.                                                      *)
(***************************************************************************)
EXTENDS AdvanceCalls, FiniteSetTheorems, TLAPS

(* What a handler holds at its steps: the request of its call, and the     *)
(* payment from the moment it is saved or found.                           *)
ForRequest == {"approve", "reject", "disburse", "pay"}

Control(h) ==
  /\ h.flow \in ForRequest => h.req \in Requests
  /\ h.pc \in {"approveLoad", "approveSave", "rejectSave", "prior", "paySave", "choose",
               "recover", "link", "markLoad", "markSave"} => h.flow \in ForRequest
  /\ h.pc \in {"scan", "deduct", "stamp"} => h.flow \in ForRequest \cup {"generate"}
  /\ h.pc \in {"choose", "recover", "link", "markLoad", "markSave"} => h.pay # None
  /\ h.flow = "generate" => h.pay = None
  /\ h.pc \in {"approveLoad", "approveSave", "prior"} => h.pay = None
  /\ h.pc \in {"scan", "deduct", "stamp", "recover"} /\ h.pay # None
       => h.kind \in {"plan", "deduction"}

ControlOK == \A p \in Procs : Control(proc[p])

(* Names of steps and of states, so that proofs need not expand the sets.  *)
LEMMA Names ==
  /\ "idle" \in Steps /\ "approveLoad" \in Steps /\ "approveSave" \in Steps
  /\ "rejectSave" \in Steps /\ "prior" \in Steps /\ "scan" \in Steps /\ "deduct" \in Steps
  /\ "stamp" \in Steps /\ "paySave" \in Steps /\ "choose" \in Steps /\ "recover" \in Steps
  /\ "link" \in Steps /\ "markLoad" \in Steps /\ "markSave" \in Steps
  /\ "reverseSave" \in Steps /\ "unrecover" \in Steps /\ "cancel" \in Steps
  /\ "pending" \in Status /\ "approved" \in Status /\ "rejected" \in Status
  /\ "paid" \in Status /\ "cancelled" \in Status
BY DEF Steps, Status

(* The local state of a handler that is not under way.                     *)
LEMMA IdleIsLocal == Idle \in Local
BY DEF Idle, Local, AllFlows, Steps

-----------------------------------------------------------------------------
(* The control operators give a handler a local state that is in its type  *)
(* and holds what the step needs.                                          *)

LEMMA SetControl ==
  ASSUME TypeOK, ControlOK, NEW p \in Procs, NEW h \in Local, Control(h),
         proc' = [proc EXCEPT ![p] = h]
  PROVE  proc' \in [Procs -> Local] /\ ControlOK'
BY DEF TypeOK, ControlOK

LEMMA IdleControl == Idle \in Local /\ Control(Idle)
BY NoneAssumption DEF Control, Idle, ForRequest, Local, AllFlows, Steps

LEMMA ReturnControl ==
  ASSUME TypeOK, ControlOK, NEW p \in Procs, Return(p)
  PROVE  proc' \in [Procs -> Local] /\ ControlOK'
BY SetControl, IdleControl DEF Return

LEMMA BeginControl ==
  ASSUME TypeOK, ControlOK, NEW p \in Procs, NEW r \in Requests,
         NEW flow \in ForRequest,
         NEW c \in {"approveLoad", "approveSave", "rejectSave", "prior"}, Begin(p, flow, c, r)
  PROVE  proc' \in [Procs -> Local] /\ ControlOK'
<1> DEFINE h == [Idle EXCEPT !.flow = flow, !.pc = c, !.req = r]
<1>1. c \in Steps /\ flow \in AllFlows
  BY Names DEF ForRequest, AllFlows
<1>2. h \in Local
  BY <1>1, IdleIsLocal DEF Local
<1>3. Control(h)
  BY DEF Control, Idle, ForRequest
<1>4. QED
  BY <1>2, <1>3, SetControl DEF Begin

LEMMA GotoControl ==
  ASSUME TypeOK, ControlOK, NEW p \in Procs, NEW c \in Steps, Goto(p, c),
         Control([proc[p] EXCEPT !.pc = c])
  PROVE  proc' \in [Procs -> Local] /\ ControlOK'
<1>1. [proc[p] EXCEPT !.pc = c] \in Local
  BY DEF Local, TypeOK
<1>2. QED
  BY <1>1, SetControl DEF Goto

-----------------------------------------------------------------------------
(* Every step keeps the documents and the local states in their types, and *)
(* the handlers hold what their next step needs.                           *)
LEMMA TypeStep == TypeOK /\ ControlOK /\ [Next]_vars => TypeOK' /\ ControlOK'
<1> SUFFICES ASSUME TypeOK, ControlOK, [Next]_vars PROVE TypeOK' /\ ControlOK'
  OBVIOUS
<1>1. ASSUME NEW r \in Requests, CreateRequest(r) PROVE TypeOK' /\ ControlOK'
  BY <1>1, Names DEF CreateRequest, RequestDoc, TypeOK, ControlOK
<1>2. ASSUME NEW p \in Procs, NEW r \in Requests, Approve(p, r) PROVE TypeOK' /\ ControlOK'
  <2>1. "approve" \in ForRequest
    BY DEF ForRequest
  <2>2. QED
    BY <1>2, <2>1, BeginControl DEF Approve, TypeOK
<1>3. ASSUME NEW p \in Procs, ApproveLoad(p) PROVE TypeOK' /\ ControlOK'
  <2>1. Control([proc[p] EXCEPT !.pc = "approveSave"])
    BY <1>3 DEF ApproveLoad, At, Control, ControlOK, TypeOK, Local
  <2>2. QED
    BY <1>3, <2>1, GotoControl, ReturnControl, Names DEF ApproveLoad, TypeOK
<1>4. ASSUME NEW p \in Procs, ApproveSave(p) PROVE TypeOK' /\ ControlOK'
  <2>1. Control([proc[p] EXCEPT !.pc = "prior"])
    BY <1>4 DEF ApproveSave, At, Control, ControlOK, TypeOK, Local
  <2>2. request' \in [Requests -> RequestDoc]
    BY <1>4, Names DEF ApproveSave, RequestDoc, TypeOK
  <2>3. Goto(p, "prior") \/ Return(p)
    BY <1>4 DEF ApproveSave
  <2>4. QED
    BY <1>4, <2>1, <2>2, <2>3, GotoControl, ReturnControl, Names DEF ApproveSave, TypeOK
<1>5. ASSUME NEW p \in Procs, NEW r \in Requests, Reject(p, r) PROVE TypeOK' /\ ControlOK'
  <2>1. "reject" \in ForRequest
    BY DEF ForRequest
  <2>2. QED
    BY <1>5, <2>1, BeginControl DEF Reject, TypeOK
<1>6. ASSUME NEW p \in Procs, RejectSave(p) PROVE TypeOK' /\ ControlOK'
  <2>1. request' \in [Requests -> RequestDoc]
    BY <1>6, Names DEF RejectSave, RequestDoc, TypeOK
  <2>2. QED
    BY <1>6, <2>1, ReturnControl DEF RejectSave, TypeOK
<1>7. ASSUME NEW p \in Procs, MarkPaidLoad(p) PROVE TypeOK' /\ ControlOK'
  <2>1. Control([proc[p] EXCEPT !.pc = "markSave"])
    BY <1>7 DEF MarkPaidLoad, At, Control, ControlOK, TypeOK, Local
  <2>2. QED
    BY <1>7, <2>1, GotoControl, ReturnControl, Names DEF MarkPaidLoad, TypeOK
<1>8. ASSUME NEW p \in Procs, MarkPaidSave(p) PROVE TypeOK' /\ ControlOK'
  <2>1. ASSUME NEW d \in RequestDoc PROVE MarkedPaid(d, proc[p]) \in RequestDoc
    BY <2>1, Names DEF MarkedPaid, RequestDoc, Local, TypeOK
  <2>2. request' \in [Requests -> RequestDoc]
    BY <1>8, <2>1 DEF MarkPaidSave, TypeOK
  <2>3. QED
    BY <1>8, <2>2, ReturnControl DEF MarkPaidSave, TypeOK
<1>9. ASSUME NEW p \in Procs, NEW m \in Months, Generate(p, m) PROVE TypeOK' /\ ControlOK'
  <2> DEFINE h == [Idle EXCEPT !.flow = "generate", !.pc = "scan", !.month = m]
  <2>1. h \in Local
    BY IdleIsLocal, Names DEF Local, AllFlows
  <2>2. Control(h)
    BY <1>9 DEF Control, Idle, ForRequest
  <2>3. QED
    BY <1>9, <2>1, <2>2, SetControl DEF Generate, TypeOK
<1>10. ASSUME NEW p \in Procs, Scan(p) PROVE TypeOK' /\ ControlOK'
  <2> DEFINE l == proc[p]
             h == [l EXCEPT !.pc = "deduct",
                            !.todo = IF l.month \in locked THEN {} ELSE Due(l.month)]
  <2>1. h \in Local
    BY Names DEF Local, Due, TypeOK
  <2>2. Control(h)
    BY <1>10 DEF Scan, At, Control, ControlOK, TypeOK, Local
  <2>3. QED
    BY <1>10, <2>1, <2>2, SetControl DEF Scan, TypeOK
<1>11. ASSUME NEW p \in Procs, Deduct(p) PROVE TypeOK' /\ ControlOK'
  <2>1. PICK r \in proc[p].todo, y \in Recoveries :
          /\ recov' = [recov EXCEPT ![y] = [status |-> "active", kind |-> "auto", req |-> r,
                                            pay |-> None, month |-> proc[p].month]]
          /\ proc' = [proc EXCEPT ![p] = [@ EXCEPT !.pc = "stamp", !.cur = r, !.adj = y]]
    BY <1>11 DEF Deduct
  <2> DEFINE h == [proc[p] EXCEPT !.pc = "stamp", !.cur = r, !.adj = y]
  <2>2. h \in Local
    BY Names DEF Local, TypeOK
  <2>3. [status |-> "active", kind |-> "auto", req |-> r, pay |-> None,
         month |-> proc[p].month] \in RecoveryDoc
    BY DEF Local, RecoveryDoc, TypeOK
  <2>4. Control(h)
    BY <1>11 DEF Deduct, At, Control, ControlOK, TypeOK, Local
  <2>5. QED
    BY <1>11, <2>1, <2>2, <2>3, <2>4, SetControl DEF Deduct, TypeOK
<1>12. ASSUME NEW p \in Procs, Stamp(p) PROVE TypeOK' /\ ControlOK'
  <2> DEFINE l == proc[p]
             h == [l EXCEPT !.pc = "deduct", !.todo = l.todo \ {l.cur}, !.cur = None, !.adj = None]
  <2>1. h \in Local
    BY Names DEF Local, TypeOK
  <2>2. Control(h)
    BY <1>12 DEF Stamp, At, Control, ControlOK, TypeOK, Local
  <2>3. request' \in [Requests -> RequestDoc]
    <3>1. l.adj \in Recoveries \cup {None}
      BY DEF Local, TypeOK
    <3>2. ASSUME NEW r \in Requests PROVE [request[r] EXCEPT !.adj = l.adj] \in RequestDoc
      BY <3>1 DEF RequestDoc, TypeOK
    <3>3. request' = [request EXCEPT ![l.cur] = [request[l.cur] EXCEPT !.adj = l.adj]]
      BY <1>12 DEF Stamp
    <3>4. QED
      BY <3>2, <3>3 DEF TypeOK
  <2>4. QED
    BY <1>12, <2>1, <2>2, <2>3, SetControl DEF Stamp, TypeOK
<1>13. ASSUME NEW p \in Procs, DeductDone(p) PROVE TypeOK' /\ ControlOK'
  <2>1. CASE Return(p)
    BY <1>13, <2>1, ReturnControl DEF DeductDone, TypeOK
  <2>2. CASE proc[p].flow # "generate" /\ Goto(p, "paySave")
    <3>1. Control([proc[p] EXCEPT !.pc = "paySave"])
      BY <1>13, <2>2 DEF DeductDone, At, Control, ControlOK, TypeOK, Local
    <3>2. QED
      BY <1>13, <2>2, <3>1, GotoControl, Names DEF DeductDone, TypeOK
  <2>3. CASE proc[p].flow # "generate" /\ proc[p].pay # None /\ Goto(p, "recover")
    <3>1. Control([proc[p] EXCEPT !.pc = "recover"])
      BY <1>13, <2>3 DEF DeductDone, At, Control, ControlOK, TypeOK, Local
    <3>2. QED
      BY <1>13, <2>3, <3>1, GotoControl, Names DEF DeductDone, TypeOK
  <2>4. QED
    BY <1>13, <2>1, <2>2, <2>3 DEF DeductDone
<1>14. ASSUME NEW p \in Procs, NEW r \in Requests, Disburse(p, r) PROVE TypeOK' /\ ControlOK'
  <2>1. "disburse" \in ForRequest
    BY DEF ForRequest
  <2>2. QED
    BY <1>14, <2>1, BeginControl DEF Disburse, TypeOK
<1>15. ASSUME NEW p \in Procs, PriorPayment(p) PROVE TypeOK' /\ ControlOK'
  <2>1. proc[p].req \in Requests
    BY <1>15 DEF PriorPayment, At, Control, ControlOK
  <2>2. ASSUME NEW x \in Payments,
               proc' = [proc EXCEPT ![p] = [@ EXCEPT !.pc = "markLoad", !.pay = x]]
        PROVE  TypeOK' /\ ControlOK'
    <3> DEFINE h == [proc[p] EXCEPT !.pc = "markLoad", !.pay = x]
    <3>1. h \in Local
      BY Names DEF Local, TypeOK
    <3>2. Control(h)
      BY <1>15, NoneAssumption DEF PriorPayment, At, Control, ControlOK, TypeOK, Local, ForRequest
    <3>3. QED
      BY <1>15, <2>2, <3>1, <3>2, SetControl DEF PriorPayment, TypeOK
  <2>3. ASSUME proc' = [proc EXCEPT ![p] = [@ EXCEPT !.pc = "scan", !.month = MonthOf[proc[p].req]]]
        PROVE  TypeOK' /\ ControlOK'
    <3> DEFINE h == [proc[p] EXCEPT !.pc = "scan", !.month = MonthOf[proc[p].req]]
    <3>1. h \in Local
      BY <2>1, MonthAssumption, Names DEF Local, TypeOK
    <3>2. Control(h)
      <4>1. /\ h.pc = "scan" /\ h.flow = proc[p].flow /\ h.pay = proc[p].pay
            /\ h.req = proc[p].req
        BY DEF Local, TypeOK
      <4>2. proc[p].pc = "prior" /\ Control(proc[p])
        BY <1>15 DEF PriorPayment, At, ControlOK
      <4>3. QED
        BY <4>1, <4>2 DEF Control
    <3>3. QED
      BY <1>15, <2>3, <3>1, <3>2, SetControl DEF PriorPayment, TypeOK
  <2>4. QED
    BY <1>15, <2>2, <2>3 DEF PriorPayment
<1>16. ASSUME NEW p \in Procs, NEW r \in Requests, PayApproved(p, r) PROVE TypeOK' /\ ControlOK'
  <2> DEFINE h == [Idle EXCEPT !.flow = "pay", !.pc = "scan", !.req = r, !.month = MonthOf[r]]
  <2>1. h \in Local
    BY IdleIsLocal, MonthAssumption, Names DEF Local, AllFlows
  <2>2. Control(h)
    BY DEF Control, Idle, ForRequest
  <2>3. QED
    BY <1>16, <2>1, <2>2, SetControl DEF PayApproved, TypeOK
<1>17. ASSUME NEW p \in Procs, PaySave(p) PROVE TypeOK' /\ ControlOK'
  <2>1. PICK x \in Payments :
          /\ pay' = [pay EXCEPT ![x] = [status |-> "active", req |-> proc[p].req, rec |-> None]]
          /\ proc' = [proc EXCEPT ![p] = [@ EXCEPT !.pc = "choose", !.pay = x]]
    BY <1>17 DEF PaySave
  <2> DEFINE h == [proc[p] EXCEPT !.pc = "choose", !.pay = x]
  <2>2. h \in Local
    BY Names DEF Local, TypeOK
  <2>3. Control(h)
    BY <1>17, NoneAssumption DEF PaySave, At, Control, ControlOK, TypeOK, Local, ForRequest
  <2>4. [status |-> "active", req |-> proc[p].req, rec |-> None] \in PaymentDoc
    BY DEF Local, PaymentDoc, TypeOK
  <2>5. QED
    BY <1>17, <2>1, <2>2, <2>3, <2>4, SetControl DEF PaySave, TypeOK
<1>18. ASSUME NEW p \in Procs, ChooseRecovery(p) PROVE TypeOK' /\ ControlOK'
  <2> DEFINE g(k, m) == [proc[p] EXCEPT !.pc = "scan", !.kind = k, !.month = m]
             s == [proc[p] EXCEPT !.pc = "markLoad", !.kind = "same"]
  <2>1. ASSUME NEW m \in Months, NEW k \in {"plan", "deduction"}
        PROVE  g(k, m) \in Local /\ Control(g(k, m))
    <3>1. g(k, m) \in Local
      BY Names DEF Local, TypeOK
    <3>2. Control(g(k, m))
      BY <1>18 DEF ChooseRecovery, At, Control, ControlOK, TypeOK, Local
    <3>3. QED
      BY <3>1, <3>2
  <2>2. s \in Local
    BY Names DEF Local, TypeOK
  <2>3. Control(s)
    BY <1>18 DEF ChooseRecovery, At, Control, ControlOK, TypeOK, Local
  <2>4. \/ \E m \in Months, k \in {"plan", "deduction"} : proc' = [proc EXCEPT ![p] = g(k, m)]
        \/ proc' = [proc EXCEPT ![p] = s]
    BY <1>18 DEF ChooseRecovery
  <2>5. QED
    BY <1>18, <2>1, <2>2, <2>3, <2>4, SetControl DEF ChooseRecovery, TypeOK
<1>19. ASSUME NEW p \in Procs, CreateRecovery(p) PROVE TypeOK' /\ ControlOK'
  <2> DEFINE l == proc[p]
             d == [status |-> "active", kind |-> l.kind, req |-> l.req, pay |-> l.pay,
                   month |-> l.month]
  <2>1. PICK y \in Recoveries :
          /\ recov' = [recov EXCEPT ![y] = d]
          /\ proc' = [proc EXCEPT ![p] = [l EXCEPT !.pc = "link", !.rec = y]]
    BY <1>19 DEF CreateRecovery
  <2> DEFINE h == [l EXCEPT !.pc = "link", !.rec = y]
  <2>2. h \in Local
    BY Names DEF Local, TypeOK
  <2>3. Control(h)
    BY <1>19 DEF CreateRecovery, At, Control, ControlOK, TypeOK, Local
  <2>4. d \in RecoveryDoc
    <3>1. l.kind \in {"plan", "deduction"}
      BY <1>19 DEF CreateRecovery, At, Control, ControlOK
    <3>2. QED
      BY <3>1 DEF Local, RecoveryDoc, TypeOK
  <2>5. QED
    BY <1>19, <2>1, <2>2, <2>3, <2>4, SetControl DEF CreateRecovery, TypeOK
<1>20. ASSUME NEW p \in Procs, ComplianceBlocked(p) PROVE TypeOK' /\ ControlOK'
  BY <1>20, ReturnControl DEF ComplianceBlocked, TypeOK
<1>21. ASSUME NEW p \in Procs, LinkRecovery(p) PROVE TypeOK' /\ ControlOK'
  <2>1. Control([proc[p] EXCEPT !.pc = "markLoad"])
    BY <1>21 DEF LinkRecovery, At, Control, ControlOK, TypeOK, Local
  <2>2. pay' \in [Payments -> PaymentDoc]
    <3> DEFINE l == proc[p]
    <3>1. l.rec \in Recoveries \cup {None}
      BY DEF Local, TypeOK
    <3>2. ASSUME NEW x \in Payments PROVE [pay[x] EXCEPT !.rec = l.rec] \in PaymentDoc
      BY <3>1 DEF PaymentDoc, TypeOK
    <3>3. pay' = [pay EXCEPT ![l.pay] = [pay[l.pay] EXCEPT !.rec = l.rec]]
      BY <1>21 DEF LinkRecovery
    <3>4. QED
      BY <3>2, <3>3 DEF TypeOK
  <2>3. QED
    BY <1>21, <2>1, <2>2, GotoControl, Names DEF LinkRecovery, TypeOK
<1>22. ASSUME NEW p \in Procs, NEW x \in Payments, Reverse(p, x) PROVE TypeOK' /\ ControlOK'
  <2> DEFINE h == [Idle EXCEPT !.flow = "reverse", !.pc = "reverseSave", !.pay = x, !.rec = pay[x].rec]
  <2>1. h \in Local
    BY IdleIsLocal, Names DEF Local, AllFlows, TypeOK, PaymentDoc
  <2>2. Control(h)
    BY DEF Control, Idle, ForRequest
  <2>3. QED
    BY <1>22, <2>1, <2>2, SetControl DEF Reverse, TypeOK
<1>23. ASSUME NEW p \in Procs, ReverseSave(p) PROVE TypeOK' /\ ControlOK'
  <2>1. Control([proc[p] EXCEPT !.pc = "unrecover"])
    BY <1>23 DEF ReverseSave, At, Control, ControlOK, TypeOK, Local
  <2>2. pay' \in [Payments -> PaymentDoc]
    BY <1>23 DEF ReverseSave, PaymentDoc, TypeOK
  <2>3. QED
    BY <1>23, <2>1, <2>2, GotoControl, ReturnControl, Names DEF ReverseSave, TypeOK
<1>24. ASSUME NEW p \in Procs, Unrecover(p) PROVE TypeOK' /\ ControlOK'
  <2>1. recov' \in [Recoveries -> RecoveryDoc]
    <3>1. ASSUME NEW y \in Recoveries PROVE [recov[y] EXCEPT !.status = "reversed"] \in RecoveryDoc
      BY DEF RecoveryDoc, TypeOK
    <3>2. recov' = [recov EXCEPT ![proc[p].rec] = [recov[proc[p].rec] EXCEPT !.status = "reversed"]]
      BY <1>24 DEF Unrecover
    <3>3. QED
      BY <3>1, <3>2 DEF TypeOK
  <2>2. QED
    BY <1>24, <2>1, ReturnControl DEF Unrecover, TypeOK
<1>25. ASSUME NEW p \in Procs, RemoveMember(p) PROVE TypeOK' /\ ControlOK'
  <2> DEFINE h == [Idle EXCEPT !.flow = "remove", !.pc = "cancel"]
  <2>1. h \in Local
    BY IdleIsLocal, Names DEF Local, AllFlows
  <2>2. Control(h)
    BY DEF Control, Idle, ForRequest
  <2>3. QED
    BY <1>25, <2>1, <2>2, SetControl DEF RemoveMember, TypeOK
<1>26. ASSUME NEW p \in Procs, CancelPending(p) PROVE TypeOK' /\ ControlOK'
  <2>1. request' \in [Requests -> RequestDoc]
    BY <1>26, Names DEF CancelPending, RequestDoc, TypeOK
  <2>2. QED
    BY <1>26, <2>1, ReturnControl DEF CancelPending, TypeOK
<1>27. ASSUME NEW m \in Months, LockMonth(m) PROVE TypeOK' /\ ControlOK'
  BY <1>27 DEF LockMonth, TypeOK, ControlOK
<1>28. ASSUME NEW m \in Months, UnlockMonth(m) PROVE TypeOK' /\ ControlOK'
  BY <1>28 DEF UnlockMonth, TypeOK, ControlOK
<1>29. ASSUME NEW p \in Procs, Crash(p) PROVE TypeOK' /\ ControlOK'
  BY <1>29, ReturnControl, BoundAssumption DEF Crash, TypeOK
<1>30. CASE UNCHANGED vars
  BY <1>30 DEF vars, TypeOK, ControlOK
<1>31. QED
  BY <1>1, <1>2, <1>3, <1>4, <1>5, <1>6, <1>7, <1>8, <1>9, <1>10, <1>11, <1>12, <1>13, <1>14, <1>15, <1>16, <1>17, <1>18, <1>19, <1>20, <1>21, <1>22, <1>23, <1>24, <1>25, <1>26, <1>27, <1>28, <1>29, <1>30 DEF Next, Call, Step

-----------------------------------------------------------------------------
(* The strengthening.                                                      *)

PaidOut(r) == \E x \in Payments : pay[x].req = r /\ pay[x].status # "none"

PayShape == \A x \in Payments : pay[x].status = "none" => pay[x].req = None

(* The payment a handler holds exists and was made for its request.        *)
Held(h) == h.pay # None =>
             /\ pay[h.pay].status # "none"
             /\ h.flow \in ForRequest => pay[h.pay].req = h.req

HeldOK == \A p \in Procs : Held(proc[p])

(* The advances a salary record found to deduct were paid out.             *)
TodoPaidOut == \A p \in Procs : \A r \in proc[p].todo : PaidOut(r)

RecoveryPayExists ==
  \A y \in Recoveries : recov[y].pay # None => pay[recov[y].pay].status # "none"

(* Between the save of a payment and the save of its recovery the payment  *)
(* is in the hands of one handler, and nothing recovers it yet.            *)
Holding(h) == h.flow \in ForRequest /\ h.pay # None
                /\ h.pc \in {"choose", "scan", "deduct", "stamp", "recover"}

HoldsFresh == \A p \in Procs : Holding(proc[p]) =>
                \A y \in Recoveries : recov[y].pay # proc[p].pay

HoldsAlone == \A p, q \in Procs :
                Holding(proc[p]) /\ Holding(proc[q]) /\ proc[p].pay = proc[q].pay => p = q

MoneyInv == /\ TypeOK /\ ControlOK /\ PayShape /\ HeldOK /\ PaidNamesPayment
            /\ TodoPaidOut /\ RecoveryHasPayout

OnceInv == RecoveryPayExists /\ HoldsFresh /\ HoldsAlone /\ PaymentRecoveredOnce

-----------------------------------------------------------------------------
(* What a step can do to the local state of the handler that takes it.     *)

Resets(k) == k.pay = None /\ k.todo = {}

Same(h, k) == k.flow = h.flow /\ k.req = h.req

Keeps(h, k) == /\ Same(h, k) /\ k.pay = h.pay
               /\ \A r \in k.todo : r \in h.todo \/ request[r].status = "paid"
               /\ Holding(k) => Holding(h)

Finds(h, k) == /\ Same(h, k) /\ k.todo = h.todo /\ k.pc = "markLoad"
               /\ k.pay \in Payments
               /\ pay[k.pay].req = h.req /\ pay[k.pay].status = "active"

Saves(h, k) == /\ Same(h, k) /\ k.todo = h.todo
               /\ k.pay \in Payments /\ pay[k.pay].status = "none"
               /\ pay'[k.pay].status # "none" /\ pay'[k.pay].req = h.req

Undoes(k) == /\ k.flow = "reverse" /\ k.todo = {}
             /\ k.pay \in Payments /\ pay[k.pay].status = "active"

Moves(h, k) == Resets(k) \/ Keeps(h, k) \/ Finds(h, k) \/ Saves(h, k) \/ Undoes(k)

LocalStep(p) == /\ \A q \in Procs \ {p} : proc'[q] = proc[q]
                /\ Moves(proc[p], proc'[p])

LEMMA LocalSteps ==
  ASSUME TypeOK, ControlOK, [Next]_vars
  PROVE  proc' = proc \/ \E p \in Procs : LocalStep(p)
<1> USE DEF LocalStep, Moves
<1>1. ASSUME NEW p \in Procs, NEW r \in Requests, Approve(p, r) PROVE LocalStep(p)
  BY <1>1 DEF Approve, Resets, Begin, Return, Idle, TypeOK, Local
<1>2. ASSUME NEW p \in Procs, ApproveLoad(p) PROVE LocalStep(p)
  BY <1>2 DEF ApproveLoad, Keeps, Same, Holding, Resets, Return, Idle, Goto, At, TypeOK, Local
<1>3. ASSUME NEW p \in Procs, ApproveSave(p) PROVE LocalStep(p)
  BY <1>3 DEF ApproveSave, Keeps, Same, Holding, Resets, Return, Idle, Goto, At, TypeOK, Local
<1>4. ASSUME NEW p \in Procs, NEW r \in Requests, Reject(p, r) PROVE LocalStep(p)
  BY <1>4 DEF Reject, Resets, Begin, Return, Idle, TypeOK, Local
<1>5. ASSUME NEW p \in Procs, RejectSave(p) PROVE LocalStep(p)
  BY <1>5 DEF RejectSave, Keeps, Same, Holding, Resets, Return, Idle, Goto, At, TypeOK, Local
<1>6. ASSUME NEW p \in Procs, MarkPaidLoad(p) PROVE LocalStep(p)
  BY <1>6 DEF MarkPaidLoad, Keeps, Same, Holding, Resets, Return, Idle, Goto, At, TypeOK, Local
<1>7. ASSUME NEW p \in Procs, MarkPaidSave(p) PROVE LocalStep(p)
  BY <1>7 DEF MarkPaidSave, Keeps, Same, Holding, Resets, Return, Idle, Goto, At, TypeOK, Local
<1>8. ASSUME NEW p \in Procs, NEW m \in Months, Generate(p, m) PROVE LocalStep(p)
  BY <1>8 DEF Generate, Resets, Begin, Return, Idle, TypeOK, Local
<1>9. ASSUME NEW p \in Procs, Scan(p) PROVE LocalStep(p)
  BY <1>9 DEF Scan, Keeps, Same, Holding, Resets, Return, Idle, Goto, At, Due, Unmarked, TypeOK, Local
<1>10. ASSUME NEW p \in Procs, Deduct(p) PROVE LocalStep(p)
  BY <1>10 DEF Deduct, Keeps, Same, Holding, Resets, Return, Idle, Goto, At, TypeOK, Local
<1>11. ASSUME NEW p \in Procs, Stamp(p) PROVE LocalStep(p)
  BY <1>11 DEF Stamp, Keeps, Same, Holding, Resets, Return, Idle, Goto, At, TypeOK, Local
<1>12. ASSUME NEW p \in Procs, DeductDone(p) PROVE LocalStep(p)
  BY <1>12 DEF DeductDone, Keeps, Same, Holding, Resets, Return, Idle, Goto, At, TypeOK, Local
<1>13. ASSUME NEW p \in Procs, NEW r \in Requests, Disburse(p, r) PROVE LocalStep(p)
  BY <1>13 DEF Disburse, Resets, Begin, Return, Idle, TypeOK, Local
<1>14. ASSUME NEW p \in Procs, PriorPayment(p) PROVE LocalStep(p)
  <2>1. proc[p].pay = None
    BY <1>14 DEF PriorPayment, At, ControlOK, Control
  <2>2. ASSUME NEW x \in Payments, pay[x].req = proc[p].req, pay[x].status = "active",
               proc' = [proc EXCEPT ![p] = [@ EXCEPT !.pc = "markLoad", !.pay = x]]
        PROVE  LocalStep(p)
    BY <2>2 DEF Finds, Same, TypeOK, Local
  <2>3. ASSUME proc' = [proc EXCEPT ![p] = [@ EXCEPT !.pc = "scan", !.month = MonthOf[proc[p].req]]]
        PROVE  LocalStep(p)
    BY <2>1, <2>3 DEF Keeps, Same, Holding, TypeOK, Local
  <2>4. QED
    BY <1>14, <2>2, <2>3 DEF PriorPayment
<1>15. ASSUME NEW p \in Procs, NEW r \in Requests, PayApproved(p, r) PROVE LocalStep(p)
  BY <1>15 DEF PayApproved, Resets, Begin, Return, Idle, TypeOK, Local
<1>16. ASSUME NEW p \in Procs, PaySave(p) PROVE LocalStep(p)
  BY <1>16 DEF PaySave, Saves, Same, At, NoPayment, TypeOK, Local
<1>17. ASSUME NEW p \in Procs, ChooseRecovery(p) PROVE LocalStep(p)
  <2> DEFINE g(k, m) == [proc[p] EXCEPT !.pc = "scan", !.kind = k, !.month = m]
             s == [proc[p] EXCEPT !.pc = "markLoad", !.kind = "same"]
  <2>1. \/ \E m \in Months, k \in {"plan", "deduction"} : proc' = [proc EXCEPT ![p] = g(k, m)]
        \/ proc' = [proc EXCEPT ![p] = s]
    BY <1>17 DEF ChooseRecovery
  <2>2. ASSUME NEW m \in Months, NEW k \in {"plan", "deduction"} PROVE Keeps(proc[p], g(k, m))
    BY <1>17 DEF ChooseRecovery, At, Keeps, Same, Holding, TypeOK, Local
  <2>3. Keeps(proc[p], s)
    BY DEF Keeps, Same, Holding, TypeOK, Local
  <2>4. QED
    BY <2>1, <2>2, <2>3 DEF TypeOK
<1>18. ASSUME NEW p \in Procs, CreateRecovery(p) PROVE LocalStep(p)
  BY <1>18 DEF CreateRecovery, Keeps, Same, Holding, Resets, Return, Idle, Goto, At, TypeOK, Local
<1>19. ASSUME NEW p \in Procs, ComplianceBlocked(p) PROVE LocalStep(p)
  BY <1>19 DEF ComplianceBlocked, Keeps, Same, Holding, Resets, Return, Idle, Goto, At, TypeOK, Local
<1>20. ASSUME NEW p \in Procs, LinkRecovery(p) PROVE LocalStep(p)
  BY <1>20 DEF LinkRecovery, Keeps, Same, Holding, Resets, Return, Idle, Goto, At, TypeOK, Local
<1>21. ASSUME NEW p \in Procs, NEW x \in Payments, Reverse(p, x) PROVE LocalStep(p)
  BY <1>21 DEF Reverse, Undoes, Idle, TypeOK, Local
<1>22. ASSUME NEW p \in Procs, ReverseSave(p) PROVE LocalStep(p)
  BY <1>22 DEF ReverseSave, Keeps, Same, Holding, Resets, Return, Idle, Goto, At, TypeOK, Local
<1>23. ASSUME NEW p \in Procs, Unrecover(p) PROVE LocalStep(p)
  BY <1>23 DEF Unrecover, Keeps, Same, Holding, Resets, Return, Idle, Goto, At, TypeOK, Local
<1>24. ASSUME NEW p \in Procs, RemoveMember(p) PROVE LocalStep(p)
  BY <1>24 DEF RemoveMember, Resets, Begin, Return, Idle, TypeOK, Local
<1>25. ASSUME NEW p \in Procs, CancelPending(p) PROVE LocalStep(p)
  BY <1>25 DEF CancelPending, Keeps, Same, Holding, Resets, Return, Idle, Goto, At, TypeOK, Local
<1>26. ASSUME NEW p \in Procs, Crash(p) PROVE LocalStep(p)
  BY <1>26 DEF Crash, Resets, Begin, Return, Idle, TypeOK, Local
<1>27. ASSUME NEW r \in Requests, CreateRequest(r) PROVE proc' = proc
  BY <1>27 DEF CreateRequest
<1>28. ASSUME NEW m \in Months, LockMonth(m) \/ UnlockMonth(m) PROVE proc' = proc
  BY <1>28 DEF LockMonth, UnlockMonth
<1>29. CASE UNCHANGED vars
  BY <1>29 DEF vars
<1>30. QED
  BY <1>1, <1>2, <1>3, <1>4, <1>5, <1>6, <1>7, <1>8, <1>9, <1>10, <1>11, <1>12, <1>13, <1>14, <1>15, <1>16, <1>17, <1>18, <1>19, <1>20, <1>21, <1>22, <1>23, <1>24, <1>25, <1>26, <1>27, <1>28, <1>29 DEF Next, Call, Step

-----------------------------------------------------------------------------
(* What a step can do to the documents.                                    *)

(* A payment that was made stays, and stays the payment of its request.    *)
LEMMA PaymentsStay ==
  ASSUME TypeOK, [Next]_vars, NEW x \in Payments, pay[x].status # "none"
  PROVE  pay'[x].status # "none" /\ pay'[x].req = pay[x].req
<1>1. CASE pay' = pay
  BY <1>1
<1>2. ASSUME NEW p \in Procs, PaySave(p)
      PROVE  pay'[x].status # "none" /\ pay'[x].req = pay[x].req
  BY <1>2 DEF PaySave, NoPayment, TypeOK
<1>3. ASSUME NEW p \in Procs, LinkRecovery(p)
      PROVE  pay'[x].status # "none" /\ pay'[x].req = pay[x].req
  BY <1>3 DEF LinkRecovery, TypeOK, PaymentDoc
<1>4. ASSUME NEW p \in Procs, ReverseSave(p)
      PROVE  pay'[x].status # "none" /\ pay'[x].req = pay[x].req
  BY <1>4 DEF ReverseSave, TypeOK, PaymentDoc
<1>5. QED
  BY <1>1, <1>2, <1>3, <1>4 DEF Next, Call, Step, vars, CreateRequest, Approve, ApproveLoad, ApproveSave, Reject, RejectSave, MarkPaidLoad, MarkPaidSave, Generate, Scan, Deduct, Stamp, DeductDone, Disburse, PriorPayment, PayApproved, ChooseRecovery, CreateRecovery, ComplianceBlocked, Reverse, Unrecover, RemoveMember, CancelPending, LockMonth, UnlockMonth, Crash

(* So what was paid out once stays paid out.                               *)
LEMMA PaidOutStays ==
  ASSUME TypeOK, [Next]_vars, NEW r, PaidOut(r)
  PROVE  PaidOut(r)'
BY PaymentsStay DEF PaidOut

(* A request becomes paid, or names another payment, by markPaid only.     *)
LEMMA PaidStep ==
  ASSUME TypeOK, [Next]_vars, NEW r \in Requests, request'[r].status = "paid"
  PROVE  \/ request[r].status = "paid" /\ request'[r].payment = request[r].payment
         \/ \E p \in Procs : /\ proc[p].pc = "markSave" /\ proc[p].req = r
                             /\ request'[r].payment = proc[p].pay
<1> DEFINE Goal == \/ request[r].status = "paid" /\ request'[r].payment = request[r].payment
                   \/ \E p \in Procs : /\ proc[p].pc = "markSave" /\ proc[p].req = r
                                       /\ request'[r].payment = proc[p].pay
<1>1. CASE request' = request
  BY <1>1
<1>2. ASSUME NEW q \in Requests, CreateRequest(q) PROVE Goal
  BY <1>2 DEF CreateRequest, TypeOK, RequestDoc
<1>3. ASSUME NEW p \in Procs, ApproveSave(p) PROVE Goal
  BY <1>3 DEF ApproveSave, TypeOK, RequestDoc
<1>4. ASSUME NEW p \in Procs, RejectSave(p) PROVE Goal
  BY <1>4 DEF RejectSave, TypeOK, RequestDoc
<1>5. ASSUME NEW p \in Procs, MarkPaidSave(p) PROVE Goal
  BY <1>5 DEF MarkPaidSave, MarkedPaid, At, TypeOK, RequestDoc
<1>6. ASSUME NEW p \in Procs, Stamp(p) PROVE Goal
  BY <1>6 DEF Stamp, TypeOK, RequestDoc
<1>7. ASSUME NEW p \in Procs, CancelPending(p) PROVE Goal
  BY <1>7 DEF CancelPending, TypeOK, RequestDoc
<1>8. QED
  BY <1>1, <1>2, <1>3, <1>4, <1>5, <1>6, <1>7
     DEF Next, Call, Step, vars, Approve, ApproveLoad, Reject, MarkPaidLoad, Generate, Scan, Deduct, DeductDone, Disburse, PriorPayment, PayApproved, PaySave, ChooseRecovery, CreateRecovery, ComplianceBlocked, LinkRecovery, Reverse, ReverseSave, Unrecover, RemoveMember, LockMonth, UnlockMonth, Crash

(* Recoveries appear by the safety net, for an advance it found, or by a   *)
(* disbursement, for the payment in its hands.                             *)
LEMMA RecoveryStep ==
  ASSUME TypeOK, [Next]_vars
  PROVE  \/ \A y \in Recoveries :
              /\ recov'[y].req = recov[y].req /\ recov'[y].pay = recov[y].pay
              /\ recov'[y].status = "active" => recov[y].status = "active"
         \/ \E p \in Procs : Deduct(p)
         \/ \E p \in Procs : CreateRecovery(p)
<1>1. CASE recov' = recov
  BY <1>1
<1>2. ASSUME NEW p \in Procs, Unrecover(p), NEW y \in Recoveries
      PROVE  /\ recov'[y].req = recov[y].req /\ recov'[y].pay = recov[y].pay
             /\ recov'[y].status = "active" => recov[y].status = "active"
  BY <1>2 DEF Unrecover, TypeOK, RecoveryDoc
<1>3. QED
  BY <1>1, <1>2 DEF Next, Call, Step, vars, CreateRequest, Approve, ApproveLoad, ApproveSave, Reject, RejectSave, MarkPaidLoad, MarkPaidSave, Generate, Scan, Stamp, DeductDone, Disburse, PriorPayment, PayApproved, PaySave, ChooseRecovery, ComplianceBlocked, LinkRecovery, Reverse, ReverseSave, RemoveMember, CancelPending, LockMonth, UnlockMonth, Crash

-----------------------------------------------------------------------------
(* The first half of the strengthening: money goes out before it comes     *)
(* back.                                                                   *)
LEMMA MoneyInit == Init => MoneyInv
<1> SUFFICES ASSUME Init PROVE MoneyInv
  OBVIOUS
<1>1. TypeOK
  BY IdleIsLocal, NoneAssumption
     DEF Init, TypeOK, NoRequest, NoPayment, NoRecovery, RequestDoc, PaymentDoc, RecoveryDoc, Status
<1>2. ControlOK
  BY IdleControl DEF Init, ControlOK
<1>3. QED
  BY <1>1, <1>2 DEF Init, MoneyInv, PayShape, HeldOK, Held, PaidNamesPayment, TodoPaidOut,
     RecoveryHasPayout, NoRequest, NoPayment, NoRecovery, Idle

LEMMA MoneyStep == MoneyInv /\ [Next]_vars => MoneyInv'
<1> SUFFICES ASSUME MoneyInv, [Next]_vars PROVE MoneyInv'
  OBVIOUS
<1> USE DEF MoneyInv
<1>1. TypeOK' /\ ControlOK'
  BY TypeStep
<1>2. PayShape'
  <2>1. CASE pay' = pay
    BY <2>1 DEF PayShape
  <2>2. ASSUME NEW p \in Procs, PaySave(p) PROVE PayShape'
    BY <2>2 DEF PaySave, PayShape, TypeOK
  <2>3. ASSUME NEW p \in Procs, LinkRecovery(p) PROVE PayShape'
    BY <2>3 DEF LinkRecovery, PayShape, TypeOK, PaymentDoc
  <2>4. ASSUME NEW p \in Procs, ReverseSave(p) PROVE PayShape'
    BY <2>4 DEF ReverseSave, PayShape, TypeOK, PaymentDoc
  <2>5. QED
    BY <2>1, <2>2, <2>3, <2>4 DEF Next, Call, Step, vars, CreateRequest, Approve, ApproveLoad, ApproveSave, Reject, RejectSave, MarkPaidLoad, MarkPaidSave, Generate, Scan, Deduct, Stamp, DeductDone, Disburse, PriorPayment, PayApproved, ChooseRecovery, CreateRecovery, ComplianceBlocked, Reverse, Unrecover, RemoveMember, CancelPending, LockMonth, UnlockMonth, Crash
<1>3. \A p \in Procs : proc[p].pay # None => proc[p].pay \in Payments
  BY DEF TypeOK, Local
<1>4. HeldOK'
  <2>1. ASSUME NEW q \in Procs, proc'[q] = proc[q] PROVE Held(proc[q])'
    BY <1>3, <2>1, PaymentsStay DEF HeldOK, Held
  <2>2. ASSUME NEW p \in Procs, LocalStep(p) PROVE Held(proc[p])'
    <3> DEFINE h == proc[p]
               k == proc'[p]
    <3>1. CASE Resets(k)
      BY <3>1 DEF Resets, Held
    <3>2. CASE Keeps(h, k)
      BY <1>3, <3>2, PaymentsStay DEF Keeps, Same, HeldOK, Held
    <3>3. CASE Finds(h, k)
      BY <3>3, PaymentsStay DEF Finds, Same, Held
    <3>4. CASE Saves(h, k)
      BY <3>4 DEF Saves, Same, Held
    <3>5. CASE Undoes(k)
      BY <3>5, PaymentsStay DEF Undoes, Held, ForRequest
    <3>6. QED
      BY <2>2, <3>1, <3>2, <3>3, <3>4, <3>5 DEF LocalStep, Moves
  <2>3. QED
    BY <2>1, <2>2, LocalSteps DEF HeldOK, LocalStep
<1>5. PaidNamesPayment'
  <2> SUFFICES ASSUME NEW r \in Requests, request'[r].status = "paid"
               PROVE  request'[r].payment # None /\ pay'[request'[r].payment].req = r
    BY DEF PaidNamesPayment
  <2>1. CASE request[r].status = "paid" /\ request'[r].payment = request[r].payment
    <3>1. request[r].payment \in Payments /\ pay[request[r].payment].req = r
      BY <2>1 DEF PaidNamesPayment, TypeOK, RequestDoc
    <3>2. pay[request[r].payment].status # "none"
      BY <3>1, NoneAssumption DEF PayShape
    <3>3. QED
      BY <2>1, <3>1, <3>2, PaymentsStay, NoneAssumption
  <2>2. ASSUME NEW p \in Procs, proc[p].pc = "markSave", proc[p].req = r,
               request'[r].payment = proc[p].pay
        PROVE  request'[r].payment # None /\ pay'[request'[r].payment].req = r
    <3>1. proc[p].pay # None /\ proc[p].flow \in ForRequest
      BY <2>2 DEF ControlOK, Control
    <3>2. QED
      BY <1>3, <2>2, <3>1, PaymentsStay DEF HeldOK, Held
  <2>3. QED
    BY <2>1, <2>2, PaidStep
<1>6. \A r \in Requests : request[r].status = "paid" => PaidOut(r)
  BY NoneAssumption DEF PaidNamesPayment, PaidOut, PayShape, TypeOK, RequestDoc
<1>7. TodoPaidOut'
  <2>1. ASSUME NEW q \in Procs, NEW r \in proc'[q].todo PROVE PaidOut(r)
    <3>1. CASE proc'[q] = proc[q]
      BY <2>1, <3>1 DEF TodoPaidOut
    <3>2. CASE LocalStep(q)
      <4>1. r \in Requests
        BY <1>1, <2>1 DEF TypeOK, Local
      <4>2. r \in proc[q].todo \/ request[r].status = "paid"
        BY <2>1, <3>2 DEF LocalStep, Moves, Resets, Keeps, Finds, Saves, Undoes
      <4>3. QED
        BY <1>6, <4>1, <4>2 DEF TodoPaidOut
    <3>3. QED
      BY <3>1, <3>2, LocalSteps DEF LocalStep
  <2>2. QED
    BY <2>1, PaidOutStays DEF TodoPaidOut
<1>8. RecoveryHasPayout'
  <2>1. RecoveryHasPayout <=> \A y \in Recoveries : recov[y].status = "active" => PaidOut(recov[y].req)
    BY DEF RecoveryHasPayout, PaidOut
  <2>2. ASSUME NEW y \in Recoveries, recov'[y].status = "active" PROVE PaidOut(recov'[y].req)
    <3>1. CASE /\ recov'[y].req = recov[y].req
               /\ recov'[y].status = "active" => recov[y].status = "active"
      BY <2>1, <2>2, <3>1
    <3>2. ASSUME NEW p \in Procs, Deduct(p) PROVE PaidOut(recov'[y].req)
      BY <2>1, <2>2, <3>2 DEF Deduct, TodoPaidOut, TypeOK
    <3>3. ASSUME NEW p \in Procs, CreateRecovery(p) PROVE PaidOut(recov'[y].req)
      <4>1. /\ proc[p].pay \in Payments /\ pay[proc[p].pay].status # "none"
            /\ pay[proc[p].pay].req = proc[p].req
        BY <1>3, <3>3 DEF CreateRecovery, At, ControlOK, Control, HeldOK, Held
      <4>2. PaidOut(proc[p].req)
        BY <4>1 DEF PaidOut
      <4>3. QED
        BY <2>1, <2>2, <3>3, <4>2 DEF CreateRecovery, TypeOK
    <3>4. QED
      BY <3>1, <3>2, <3>3, RecoveryStep
  <2>3. QED
    BY <2>2, PaidOutStays DEF RecoveryHasPayout, PaidOut
<1>9. QED
  BY <1>1, <1>2, <1>4, <1>5, <1>7, <1>8

-----------------------------------------------------------------------------
(* The second half: a payment in the hands of a handler.                   *)
LEMMA OnceInit == Init => OnceInv
BY DEF Init, OnceInv, RecoveryPayExists, HoldsFresh, HoldsAlone, PaymentRecoveredOnce, Holding,
   NoRecovery, Idle, ForRequest

(* The recoveries of a step name an old payment, or none, and a new one    *)
(* names the payment its handler holds.                                    *)
LEMMA RecoveryPayStep ==
  ASSUME TypeOK, [Next]_vars, NEW y \in Recoveries
  PROVE  \/ recov'[y].pay = None
         \/ recov'[y].pay = recov[y].pay
         \/ \E p \in Procs : CreateRecovery(p) /\ recov'[y].pay = proc[p].pay
<1>1. ASSUME NEW p \in Procs, Deduct(p)
      PROVE  recov'[y].pay = None \/ recov'[y].pay = recov[y].pay
  BY <1>1 DEF Deduct, TypeOK
<1>2. ASSUME NEW p \in Procs, CreateRecovery(p)
      PROVE  recov'[y].pay = proc[p].pay \/ recov'[y].pay = recov[y].pay
  BY <1>2 DEF CreateRecovery, TypeOK
<1>3. QED
  BY <1>1, <1>2, RecoveryStep

LEMMA OnceStep == MoneyInv /\ OnceInv /\ [Next]_vars => OnceInv'
<1> SUFFICES ASSUME MoneyInv, OnceInv, [Next]_vars PROVE OnceInv'
  OBVIOUS
<1> USE DEF MoneyInv, OnceInv
<1>1. \A p \in Procs : proc[p].pay # None => proc[p].pay \in Payments
  BY DEF TypeOK, Local
<1>2. \A p \in Procs : CreateRecovery(p) =>
        /\ Holding(proc[p])
        /\ ~Holding(proc'[p])
  BY DEF CreateRecovery, At, ControlOK, Control, Holding, TypeOK, Local
(* A handler that holds a payment after the step held it before, or has    *)
(* just saved it.                                                          *)
<1>3. ASSUME NEW q \in Procs, Holding(proc'[q])
      PROVE  \/ Holding(proc[q]) /\ proc'[q].pay = proc[q].pay
             \/ LocalStep(q) /\ Saves(proc[q], proc'[q])
  <2>1. CASE proc'[q] = proc[q]
    BY <1>3, <2>1
  <2>2. CASE LocalStep(q)
    BY <1>3, <2>2 DEF LocalStep, Moves, Resets, Keeps, Finds, Undoes, Holding, ForRequest
  <2>3. QED
    BY <2>1, <2>2, LocalSteps DEF LocalStep
<1>4. RecoveryPayExists'
  <2> SUFFICES ASSUME NEW y \in Recoveries, recov'[y].pay # None
               PROVE  pay'[recov'[y].pay].status # "none"
    BY DEF RecoveryPayExists
  <2>1. CASE recov'[y].pay = recov[y].pay
    BY <2>1, PaymentsStay DEF RecoveryPayExists, TypeOK, RecoveryDoc
  <2>2. ASSUME NEW p \in Procs, recov'[y].pay = proc[p].pay
        PROVE  pay'[recov'[y].pay].status # "none"
    BY <1>1, <2>2, PaymentsStay DEF HeldOK, Held
  <2>3. QED
    BY <2>1, <2>2, RecoveryPayStep
<1>5. HoldsFresh'
  <2> SUFFICES ASSUME NEW q \in Procs, Holding(proc'[q]), NEW y \in Recoveries
               PROVE  recov'[y].pay # proc'[q].pay
    BY DEF HoldsFresh, Holding
  <2>1. proc'[q].pay # None
    BY DEF Holding
  <2>2. CASE Holding(proc[q]) /\ proc'[q].pay = proc[q].pay
    <3>1. CASE recov'[y].pay = recov[y].pay
      BY <2>2, <3>1 DEF HoldsFresh
    <3>2. ASSUME NEW p \in Procs, CreateRecovery(p), recov'[y].pay = proc[p].pay
          PROVE  recov'[y].pay # proc'[q].pay
      BY <1>2, <2>2, <3>2 DEF HoldsAlone
    <3>3. QED
      BY <2>1, <3>1, <3>2, RecoveryPayStep
  <2>3. CASE Saves(proc[q], proc'[q])
    <3>1. proc'[q].pay \in Payments /\ pay[proc'[q].pay].status = "none"
      BY <2>3 DEF Saves
    <3>2. CASE recov'[y].pay = recov[y].pay
      BY <2>1, <3>1, <3>2 DEF RecoveryPayExists
    <3>3. ASSUME NEW p \in Procs, CreateRecovery(p), recov'[y].pay = proc[p].pay
          PROVE  recov'[y].pay # proc'[q].pay
      BY <1>2, <3>1, <3>3 DEF HeldOK, Held, Holding
    <3>4. QED
      BY <2>1, <3>2, <3>3, RecoveryPayStep
  <2>4. QED
    BY <1>3, <2>2, <2>3
<1>6. HoldsAlone'
  <2> SUFFICES ASSUME NEW p \in Procs, NEW q \in Procs, Holding(proc'[p]), Holding(proc'[q]),
                      proc'[p].pay = proc'[q].pay
               PROVE  p = q
    BY DEF HoldsAlone, Holding
  <2>1. CASE /\ Holding(proc[p]) /\ proc'[p].pay = proc[p].pay
             /\ Holding(proc[q]) /\ proc'[q].pay = proc[q].pay
    BY <2>1 DEF HoldsAlone
  <2>2. ASSUME NEW a \in Procs, NEW b \in Procs, Holding(proc[a]), proc'[a].pay = proc[a].pay,
               Saves(proc[b], proc'[b]), proc'[a].pay = proc'[b].pay
        PROVE  FALSE
    BY <2>2 DEF Saves, HeldOK, Held, Holding
  <2>3. CASE LocalStep(p) /\ LocalStep(q) /\ Saves(proc[p], proc'[p])
    <3>1. ASSUME p # q PROVE FALSE
      <4>1. proc'[p] = proc[p]
        BY <2>3, <3>1 DEF LocalStep
      <4>2. pay[proc[p].pay].status = "none" /\ proc[p].pay # None
        BY <2>3, <4>1 DEF Saves, Holding
      <4>3. QED
        BY <4>2 DEF HeldOK, Held
    <3>2. QED
      BY <3>1
  <2>4. QED
    BY <1>3, <2>1, <2>2, <2>3
<1>7. PaymentRecoveredOnce'
  <2> SUFFICES ASSUME NEW y \in Recoveries, NEW z \in Recoveries,
                      recov'[y].pay # None, recov'[y].pay = recov'[z].pay
               PROVE  y = z
    BY DEF PaymentRecoveredOnce
  <2>1. CASE recov'[y].pay = recov[y].pay /\ recov'[z].pay = recov[z].pay
    BY <2>1 DEF PaymentRecoveredOnce
  <2>2. ASSUME NEW p \in Procs, CreateRecovery(p) PROVE y = z
    <3>1. PICK w \in Recoveries :
            recov' = [recov EXCEPT ![w] = [status |-> "active", kind |-> proc[p].kind,
                        req |-> proc[p].req, pay |-> proc[p].pay, month |-> proc[p].month]]
      BY <2>2 DEF CreateRecovery
    <3>2. \A v \in Recoveries : recov[v].pay # proc[p].pay
      BY <1>2, <2>2 DEF HoldsFresh
    <3>3. recov'[w].pay = proc[p].pay /\ \A v \in Recoveries \ {w} : recov'[v].pay = recov[v].pay
      BY <3>1 DEF TypeOK
    <3>4. QED
      BY <3>2, <3>3 DEF PaymentRecoveredOnce
  <2>3. QED
    BY <2>1, <2>2, RecoveryPayStep
<1>8. QED
  BY <1>4, <1>5, <1>6, <1>7

-----------------------------------------------------------------------------
(* Documents and handlers keep their types in every run.                   *)
THEOREM TypeCorrect == Spec => []TypeOK
<1>1. Init => MoneyInv
  BY MoneyInit
<1>2. MoneyInv /\ [Next]_vars => MoneyInv'
  BY MoneyStep
<1>3. MoneyInv => TypeOK
  BY DEF MoneyInv
<1>4. QED
  BY <1>1, <1>2, <1>3, PTL DEF Spec

(* In every run a deduction is taken only for an advance that was paid     *)
(* out: the order of the saves in payApprovedAdvance and                   *)
(* approveAndDisburseAdvanceRequest, and the query of the safety net.      *)
THEOREM RecoveryNeedsPayout == Spec => [](RecoveryHasPayout /\ PaidNamesPayment)
<1>1. MoneyInv => RecoveryHasPayout /\ PaidNamesPayment
  BY DEF MoneyInv
<1>2. QED
  BY <1>1, MoneyInit, MoneyStep, PTL DEF Spec

(* In every run no payment has two plans or deductions, although nothing   *)
(* but the freshness of its id keeps two handlers off it.                  *)
THEOREM OneRecoveryPerPayment == Spec => []PaymentRecoveredOnce
<1>1. Init => MoneyInv /\ OnceInv
  BY MoneyInit, OnceInit
<1>2. MoneyInv /\ OnceInv /\ [Next]_vars => (MoneyInv /\ OnceInv)'
  BY MoneyStep, OnceStep
<1>3. OnceInv => PaymentRecoveredOnce
  BY DEF OnceInv
<1>4. QED
  BY <1>1, <1>2, <1>3, PTL DEF Spec

-----------------------------------------------------------------------------
(* One handler at a time.                                                  *)

(* No two requests of a month are live.                                    *)
LiveOnce == \A q, r \in Requests : Live(q) /\ Live(r) /\ MonthOf[q] = MonthOf[r] => q = r

Linking == {"link", "markLoad", "markSave"}
Payers == {"disburse", "pay"}

(* Which handler is at a step, and what it has by then.                    *)
Course(h) ==
  /\ h.pc = "prior" => h.flow = "disburse"
  /\ h.pc \in {"paySave", "choose", "recover"} \cup Linking => h.flow \in Payers
  /\ h.pc \in {"scan", "deduct", "stamp"} => h.flow \in Payers \cup {"generate"}
  /\ h.pc \in {"reverseSave", "unrecover"} => h.flow = "reverse"
  /\ h.pc = "paySave" => h.pay = None
  /\ h.pc \notin Linking \cup {"reverseSave", "unrecover"} => h.rec = None
  /\ h.pc \in {"recover", "link"} => h.kind \in {"plan", "deduction"}
  /\ h.pc \in Linking /\ h.rec # None => h.kind \in {"plan", "deduction"}
  /\ h.pc = "link" => h.rec \in Recoveries
  /\ h.pc = "stamp" => h.cur \in h.todo /\ h.adj # None

(* What a handler has read, or done itself, is still so.                   *)
Fit(h) ==
  /\ h.pc \in {"approveSave", "rejectSave"} => request[h.req].status = "pending"
  /\ h.flow \in Payers /\ h.pc \notin {"approveLoad", "approveSave"}
       => request[h.req].status = "approved"
  /\ h.flow = "disburse" /\ h.pc \in {"scan", "deduct", "stamp", "paySave"} /\ h.pay = None
       => Paid(h.req) = {}
  /\ h.flow \in Payers /\ h.pay # None => h.pay \in Paid(h.req)
  /\ \A r \in h.todo : Unmarked(r)
  /\ h.pc = "link" => recov[h.rec].pay = h.pay
  /\ h.pc = "reverseSave" => pay[h.pay].status = "active" /\ h.rec = pay[h.pay].rec

(* A recovery is marked in its request, or about to be by the handler h.   *)
Marked(h, y) ==
  LET r == recov[y].req IN
  \/ request[r].status = "paid" /\ (request[r].adj # None \/ request[r].plan # None)
  \/ h.pc = "stamp" /\ h.cur = r /\ h.adj = y
  \/ h.pc \in Linking /\ h.req = r /\ h.rec = y

(* A recovery of a payment is linked from it, or about to be, or about to  *)
(* be undone with it.                                                      *)
Linked(h, y) ==
  LET x == recov[y].pay IN
  \/ pay[x].status = "active" /\ (pay[x].rec = y \/ (h.pc = "link" /\ h.rec = y))
  \/ h.pc = "unrecover" /\ h.rec = y

Recovers(y) == recov[y].status = "active"

(* The recoveries, when the handler h is the only one under way.           *)
Explained(h) ==
  \A y \in Recoveries : Recovers(y) =>
    recov[y].req \in Requests /\ Marked(h, y) /\ (recov[y].pay # None => Linked(h, y))

(* Where the payments that stand come from: a request that was marked      *)
(* paid, a payout that broke off, or the handler h.                        *)
PayoutsKnown(h) ==
  \A r \in Requests : Paid(r) # {} =>
    request[r].status = "paid" \/ r \in broken \/ (PayingOut(h) /\ h.req = r)

RecoversOnce == \A y, z \in Recoveries :
  Recovers(y) /\ Recovers(z) /\ recov[y].req = recov[z].req => y = z

(* The handler p is the only one that may be under way.                    *)
Only(p) == \A q \in Procs \ {p} : proc[q] = Idle

SerialInv(h) ==
  /\ Course(h) /\ Fit(h) /\ PayoutsKnown(h)
  /\ crashes = 0 => Explained(h) /\ RecoversOnce

CallsInv ==
  /\ LiveOnce
  /\ alone => \/ (\A p \in Procs : proc[p] = Idle) /\ SerialInv(Idle)
              \/ \E p \in Procs : Only(p) /\ SerialInv(proc[p])

-----------------------------------------------------------------------------
(* A handler that is not under way has nothing to lose.                    *)
LEMMA IdleFits ==
  ASSUME NEW p \in Procs, proc'[p] = Idle
  PROVE  Course(proc'[p]) /\ Fit(proc[p])'
BY DEF Course, Fit, Idle, Linking, Payers

Act(p) == Call(p) \/ Step(p) \/ Crash(p)

LEMMA CourseStep ==
  ASSUME TypeOK, ControlOK, NEW p \in Procs, Act(p), Course(proc[p]), Fit(proc[p])
  PROVE  Course(proc'[p])
<1> DEFINE h == proc[p]
           Goal == Course(proc'[p])
<1>1. h \in Local /\ Control(h)
  BY DEF TypeOK, ControlOK
<1>2. ASSUME NEW r \in Requests, Approve(p, r) PROVE Goal
  BY <1>2, IdleIsLocal DEF Approve, Begin, Course, Linking, Payers, Idle, TypeOK, Local
<1>3. ASSUME NEW r \in Requests, Reject(p, r) PROVE Goal
  BY <1>3, IdleIsLocal DEF Reject, Begin, Course, Linking, Payers, Idle, TypeOK, Local
<1>4. ASSUME NEW r \in Requests, Disburse(p, r) PROVE Goal
  BY <1>4, IdleIsLocal DEF Disburse, Begin, Course, Linking, Payers, Idle, TypeOK, Local
<1>5. ASSUME NEW r \in Requests, PayApproved(p, r) PROVE Goal
  BY <1>5, IdleIsLocal DEF PayApproved, Begin, Course, Linking, Payers, Idle, TypeOK, Local
<1>6. ASSUME NEW m \in Months, Generate(p, m) PROVE Goal
  BY <1>6, IdleIsLocal DEF Generate, Begin, Course, Linking, Payers, Idle, TypeOK, Local
<1>7. ASSUME NEW x \in Payments, Reverse(p, x) PROVE Goal
  BY <1>7, IdleIsLocal DEF Reverse, Begin, Course, Linking, Payers, Idle, TypeOK, Local
<1>8. CASE RemoveMember(p)
  BY <1>8, IdleIsLocal DEF RemoveMember, Course, Linking, Payers, Idle, TypeOK, Local
<1>9. CASE ApproveLoad(p)
  BY <1>1, <1>9, IdleFits, NoneAssumption DEF ApproveLoad, At, Goto, Return, Course, Linking, Payers, Control, TypeOK, Local
<1>10. CASE ApproveSave(p)
  BY <1>1, <1>10, IdleFits, NoneAssumption DEF ApproveSave, At, Goto, Return, Course, Linking, Payers, Control, TypeOK, Local
<1>11. CASE RejectSave(p)
  BY <1>1, <1>11, IdleFits, NoneAssumption DEF RejectSave, At, Goto, Return, Course, Linking, Payers, Control, TypeOK, Local
<1>12. CASE MarkPaidLoad(p)
  BY <1>1, <1>12, IdleFits, NoneAssumption DEF MarkPaidLoad, At, Goto, Return, Course, Linking, Payers, Control, TypeOK, Local
<1>13. CASE MarkPaidSave(p)
  BY <1>1, <1>13, IdleFits, NoneAssumption DEF MarkPaidSave, At, Goto, Return, Course, Linking, Payers, Control, TypeOK, Local
<1>14. CASE Scan(p)
  BY <1>1, <1>14, IdleFits, NoneAssumption DEF Scan, At, Goto, Return, Course, Linking, Payers, Control, TypeOK, Local
<1>15. CASE Deduct(p)
  BY <1>1, <1>15, IdleFits, NoneAssumption DEF Deduct, At, Goto, Return, Course, Linking, Payers, Control, TypeOK, Local
<1>16. CASE Stamp(p)
  BY <1>1, <1>16, IdleFits, NoneAssumption DEF Stamp, At, Goto, Return, Course, Linking, Payers, Control, TypeOK, Local
<1>17. CASE DeductDone(p)
  BY <1>1, <1>17, IdleFits, NoneAssumption DEF DeductDone, At, Goto, Return, Course, Linking, Payers, Control, TypeOK, Local
<1>18. CASE PriorPayment(p)
  <2>1. h.pc = "prior" /\ h.pay = None
    BY <1>1, <1>18 DEF PriorPayment, At, Control
  <2>2. ASSUME NEW x \in Payments, proc' = [proc EXCEPT ![p] = [@ EXCEPT !.pc = "markLoad", !.pay = x]]
        PROVE  Goal
    BY <2>1, <2>2 DEF Course, Linking, Payers, TypeOK, Local
  <2>3. ASSUME NEW m, proc' = [proc EXCEPT ![p] = [@ EXCEPT !.pc = "scan", !.month = m]]
        PROVE  Goal
    BY <2>1, <2>3 DEF Course, Linking, Payers, TypeOK, Local
  <2>4. QED
    BY <1>18, <2>2, <2>3 DEF PriorPayment
<1>19. CASE PaySave(p)
  BY <1>1, <1>19, IdleFits, NoneAssumption DEF PaySave, At, Goto, Return, Course, Linking, Payers, Control, TypeOK, Local
<1>20. CASE ChooseRecovery(p)
  <2>1. h.pc = "choose" /\ h.flow \in Payers /\ h.rec = None
    BY <1>20 DEF ChooseRecovery, At, Course, Linking
  <2>2. PICK m \in Months :
          \/ \E k \in {"plan", "deduction"} :
               proc' = [proc EXCEPT ![p] = [h EXCEPT !.pc = "scan", !.kind = k, !.month = m]]
          \/ proc' = [proc EXCEPT ![p] = [h EXCEPT !.pc = "markLoad", !.kind = "same"]]
    BY <1>20 DEF ChooseRecovery
  <2>3. h.pay = proc'[p].pay /\ h.flow = proc'[p].flow /\ h.rec = proc'[p].rec
        /\ proc'[p].pc \in {"scan", "markLoad"}
    <3>1. h \in Local
      BY DEF TypeOK
    <3>2. CASE \E k \in {"plan", "deduction"} :
                 proc' = [proc EXCEPT ![p] = [h EXCEPT !.pc = "scan", !.kind = k, !.month = m]]
      BY <3>1, <3>2 DEF TypeOK, Local
    <3>3. CASE proc' = [proc EXCEPT ![p] = [h EXCEPT !.pc = "markLoad", !.kind = "same"]]
      BY <3>1, <3>3 DEF TypeOK, Local
    <3> QED
      BY <2>2, <3>2, <3>3
  <2>4. QED
    BY <2>1, <2>3 DEF Course, Linking, Payers
<1>21. CASE CreateRecovery(p)
  BY <1>1, <1>21, IdleFits, NoneAssumption DEF CreateRecovery, At, Goto, Return, Course, Linking, Payers, Control, TypeOK, Local
<1>22. CASE ComplianceBlocked(p)
  BY <1>1, <1>22, IdleFits, NoneAssumption DEF ComplianceBlocked, At, Goto, Return, Course, Linking, Payers, Control, TypeOK, Local
<1>23. CASE LinkRecovery(p)
  BY <1>1, <1>23, IdleFits, NoneAssumption DEF LinkRecovery, At, Goto, Return, Course, Linking, Payers, Control, TypeOK, Local
<1>24. CASE ReverseSave(p)
  BY <1>1, <1>24, IdleFits, NoneAssumption DEF ReverseSave, At, Goto, Return, Course, Linking, Payers, Control, TypeOK, Local
<1>25. CASE Unrecover(p)
  BY <1>1, <1>25, IdleFits, NoneAssumption DEF Unrecover, At, Goto, Return, Course, Linking, Payers, Control, TypeOK, Local
<1>26. CASE CancelPending(p)
  BY <1>1, <1>26, IdleFits, NoneAssumption DEF CancelPending, At, Goto, Return, Course, Linking, Payers, Control, TypeOK, Local
<1>27. CASE Crash(p)
  BY <1>1, <1>27, IdleFits, NoneAssumption DEF Crash, At, Goto, Return, Course, Linking, Payers, Control, TypeOK, Local
<1>28. QED
  BY <1>2, <1>3, <1>4, <1>5, <1>6, <1>7, <1>8, <1>9, <1>10, <1>11, <1>12, <1>13, <1>14, <1>15, <1>16, <1>17, <1>18, <1>19, <1>20, <1>21, <1>22, <1>23, <1>24, <1>25, <1>26, <1>27 DEF Act, Call, Step

LEMMA FitStep ==
  ASSUME TypeOK, ControlOK, NEW p \in Procs, Act(p), Course(proc[p]), Fit(proc[p])
  PROVE  Fit(proc[p])'
<1> DEFINE h == proc[p]
           Goal == Fit(proc[p])'
<1>1. h \in Local /\ Control(h)
  BY DEF TypeOK, ControlOK
<1>2. ASSUME NEW r \in Requests, Approve(p, r) PROVE Goal
  BY <1>2 DEF Approve, Begin, Fit, Payers, Idle, TypeOK
<1>3. ASSUME NEW r \in Requests, Reject(p, r) PROVE Goal
  BY <1>3 DEF Reject, Begin, Fit, Payers, Idle, TypeOK
<1>4. ASSUME NEW r \in Requests, Disburse(p, r) PROVE Goal
  BY <1>4 DEF Disburse, Begin, Fit, Payers, Idle, TypeOK
<1>5. ASSUME NEW r \in Requests, PayApproved(p, r) PROVE Goal
  BY <1>5 DEF PayApproved, Begin, Fit, Payers, Idle, TypeOK
<1>6. ASSUME NEW m \in Months, Generate(p, m) PROVE Goal
  BY <1>6 DEF Generate, Begin, Fit, Payers, Idle, TypeOK
<1>7. ASSUME NEW x \in Payments, Reverse(p, x) PROVE Goal
  BY <1>7 DEF Reverse, Begin, Fit, Payers, Idle, TypeOK
<1>8. CASE RemoveMember(p)
  BY <1>8 DEF RemoveMember, Fit, Payers, Idle, TypeOK
<1>9. CASE ApproveLoad(p)
  BY <1>1, <1>9, IdleFits, NoneAssumption DEF ApproveLoad, At, Goto, Return, Fit, Payers, Paid, Unmarked, Course, Linking, Control, TypeOK, Local
<1>10. CASE ApproveSave(p)
  <2>1. h.pc = "approveSave" /\ request[h.req].status = "pending" /\ h.pay = None
    BY <1>1, <1>10 DEF ApproveSave, At, Fit, Payers, Control
  <2>2. CASE Return(p)
    BY <2>2, IdleFits DEF Return, TypeOK
  <2>3. CASE Goto(p, "prior") /\ request' = [request EXCEPT ![h.req].status = "approved"]
    <3>1. h.req \in Requests
      BY <1>1, <2>1 DEF Control
    <3>2. request'[h.req].status = "approved" /\ \A r \in Requests \ {h.req} : request'[r] = request[r]
      BY <2>3, <3>1 DEF TypeOK, RequestDoc
    <3>3. \A r \in h.todo : Unmarked(r)'
      BY <1>1, <2>1, <3>2 DEF Fit, Payers, Unmarked, Local
    <3>4. /\ proc'[p].pc = "prior" /\ proc'[p].req = h.req /\ proc'[p].todo = h.todo
          /\ proc'[p].pay = None
      BY <1>1, <2>1, <2>3 DEF Goto, TypeOK, Local
    <3>5. QED
      BY <3>2, <3>3, <3>4 DEF Fit, Payers
  <2>4. QED
    BY <1>10, <2>2, <2>3 DEF ApproveSave
<1>11. CASE RejectSave(p)
  BY <1>11, IdleFits DEF RejectSave, Return, TypeOK
<1>12. CASE MarkPaidLoad(p)
  BY <1>1, <1>12, IdleFits, NoneAssumption DEF MarkPaidLoad, At, Goto, Return, Fit, Payers, Paid, Unmarked, Course, Linking, Control, TypeOK, Local
<1>13. CASE MarkPaidSave(p)
  BY <1>13, IdleFits DEF MarkPaidSave, Return, TypeOK
<1>14. CASE Scan(p)
  <2>1. UNCHANGED <<request, pay, recov>>
    BY <1>14 DEF Scan
  <2>2. /\ proc'[p].pc = "deduct" /\ proc'[p].req = h.req /\ proc'[p].flow = h.flow
        /\ proc'[p].pay = h.pay
        /\ proc'[p].todo \subseteq Due(h.month)
    BY <1>1, <1>14 DEF Scan, TypeOK, Local
  <2>3. h.pc = "scan"
    BY <1>14 DEF Scan, At
  <2>4. QED
    BY <2>1, <2>2, <2>3 DEF Fit, Payers, Paid, Unmarked, Due
<1>15. CASE Deduct(p)
  BY <1>1, <1>15, IdleFits, NoneAssumption DEF Deduct, At, Goto, Return, Fit, Payers, Paid, Unmarked, Course, Linking, Control, TypeOK, Local
<1>16. CASE Stamp(p)
  BY <1>1, <1>16, IdleFits, NoneAssumption DEF Stamp, At, Goto, Return, Fit, Payers, Paid, Unmarked, Course, Linking, Control, TypeOK, Local
<1>17. CASE DeductDone(p)
  BY <1>1, <1>17, IdleFits, NoneAssumption DEF DeductDone, At, Goto, Return, Fit, Payers, Paid, Unmarked, Course, Linking, Control, TypeOK, Local
<1>18. CASE PriorPayment(p)
  <2>1. UNCHANGED <<request, pay, recov>> /\ h.pc = "prior" /\ h.pay = None
    BY <1>1, <1>18 DEF PriorPayment, At, Control
  <2>2. ASSUME NEW x \in Payments, pay[x].req = h.req, pay[x].status = "active",
               proc' = [proc EXCEPT ![p] = [@ EXCEPT !.pc = "markLoad", !.pay = x]]
        PROVE  Goal
    <3>1. /\ proc'[p].pc = "markLoad" /\ proc'[p].req = h.req /\ proc'[p].flow = h.flow
          /\ proc'[p].pay = x /\ proc'[p].todo = h.todo
      BY <1>1, <2>2 DEF TypeOK, Local
    <3>2. QED
      BY <2>1, <2>2, <3>1 DEF Fit, Payers, Paid, Unmarked
  <2>3. ASSUME {x \in Payments : pay[x].req = h.req /\ pay[x].status = "active"} = {}, NEW m,
               proc' = [proc EXCEPT ![p] = [@ EXCEPT !.pc = "scan", !.month = m]]
        PROVE  Goal
    <3>1. /\ proc'[p].pc = "scan" /\ proc'[p].req = h.req /\ proc'[p].flow = h.flow
          /\ proc'[p].pay = None /\ proc'[p].todo = h.todo
      BY <1>1, <2>1, <2>3 DEF TypeOK, Local
    <3>2. QED
      BY <2>1, <2>3, <3>1 DEF Fit, Payers, Paid, Unmarked
  <2>4. QED
    BY <1>18, <2>2, <2>3 DEF PriorPayment
<1>19. CASE PaySave(p)
  BY <1>1, <1>19, IdleFits, NoneAssumption DEF PaySave, At, Goto, Return, Fit, Payers, Paid, Unmarked, Course, Linking, Control, TypeOK, Local
<1>20. CASE ChooseRecovery(p)
  <2>1. UNCHANGED <<request, pay, recov>> /\ h.pc = "choose" /\ h.flow \in Payers /\ h.pay # None
    BY <1>1, <1>20 DEF ChooseRecovery, At, Course, Control
  <2>2. PICK m \in Months :
          \/ \E k \in {"plan", "deduction"} :
               proc' = [proc EXCEPT ![p] = [h EXCEPT !.pc = "scan", !.kind = k, !.month = m]]
          \/ proc' = [proc EXCEPT ![p] = [h EXCEPT !.pc = "markLoad", !.kind = "same"]]
    BY <1>20 DEF ChooseRecovery
  <2>3. /\ proc'[p].pc \in {"scan", "markLoad"} /\ proc'[p].req = h.req /\ proc'[p].flow = h.flow
        /\ proc'[p].pay = h.pay /\ proc'[p].todo = h.todo
    <3>1. CASE \E k \in {"plan", "deduction"} :
                 proc' = [proc EXCEPT ![p] = [h EXCEPT !.pc = "scan", !.kind = k, !.month = m]]
      BY <1>1, <3>1 DEF TypeOK, Local
    <3>2. CASE proc' = [proc EXCEPT ![p] = [h EXCEPT !.pc = "markLoad", !.kind = "same"]]
      BY <1>1, <3>2 DEF TypeOK, Local
    <3> QED
      BY <2>2, <3>1, <3>2
  <2>4. QED
    BY <2>1, <2>3 DEF Fit, Payers, Paid, Unmarked
<1>21. CASE CreateRecovery(p)
  BY <1>1, <1>21, IdleFits, NoneAssumption DEF CreateRecovery, At, Goto, Return, Fit, Payers, Paid, Unmarked, Course, Linking, Control, TypeOK, Local
<1>22. CASE ComplianceBlocked(p)
  BY <1>22, IdleFits DEF ComplianceBlocked, Return, TypeOK
<1>23. CASE LinkRecovery(p)
  BY <1>1, <1>23, IdleFits, NoneAssumption DEF LinkRecovery, At, Goto, Return, Fit, Payers, Paid, Unmarked, Course, Linking, Control, TypeOK, Local
<1>24. CASE ReverseSave(p)
  BY <1>1, <1>24, IdleFits, NoneAssumption DEF ReverseSave, At, Goto, Return, Fit, Payers, Paid, Unmarked, Course, Linking, Control, TypeOK, Local
<1>25. CASE Unrecover(p)
  BY <1>25, IdleFits DEF Unrecover, Return, TypeOK
<1>26. CASE CancelPending(p)
  BY <1>26, IdleFits DEF CancelPending, Return, TypeOK
<1>27. CASE Crash(p)
  BY <1>27, IdleFits DEF Crash, Return, TypeOK
<1>28. QED
  BY <1>2, <1>3, <1>4, <1>5, <1>6, <1>7, <1>8, <1>9, <1>10, <1>11, <1>12, <1>13, <1>14, <1>15, <1>16, <1>17, <1>18, <1>19, <1>20, <1>21, <1>22, <1>23, <1>24, <1>25, <1>26, <1>27 DEF Act, Call, Step

(* What is marked paid stays so.                                           *)
LEMMA PaidStays ==
  ASSUME TypeOK, ControlOK, NEW p \in Procs, Act(p), Course(proc[p]), Fit(proc[p]),
         NEW r \in Requests, request[r].status = "paid"
  PROVE  request'[r].status = "paid"
<1> DEFINE h == proc[p]
           Goal == request'[r].status = "paid"
<1>1. request \in [Requests -> RequestDoc]
  BY DEF TypeOK
<1>2. CASE ApproveSave(p) \/ RejectSave(p)
  <2>1. request[h.req].status = "pending"
    BY <1>2 DEF ApproveSave, RejectSave, At, Fit
  <2>2. QED
    BY <1>1, <1>2, <2>1 DEF ApproveSave, RejectSave
<1>3. CASE MarkPaidSave(p)
  BY <1>1, <1>3 DEF MarkPaidSave, MarkedPaid, RequestDoc
<1>4. CASE Stamp(p)
  BY <1>1, <1>4 DEF Stamp, RequestDoc
<1>5. CASE CancelPending(p)
  BY <1>5 DEF CancelPending
<1>6. CASE request' = request
  BY <1>6
<1>7. QED
  BY <1>2, <1>3, <1>4, <1>5, <1>6
  DEF Act, Call, Step, Approve, Reject, Disburse, PayApproved, Generate, Reverse, RemoveMember,
      ApproveLoad, MarkPaidLoad, Scan, Deduct, DeductDone, PriorPayment, PaySave, ChooseRecovery,
      CreateRecovery, ComplianceBlocked, LinkRecovery, ReverseSave, Unrecover, Crash

(* A call puts its handler under way, and no step moves another.           *)
LEMMA CallStarts ==
  ASSUME TypeOK, NEW p \in Procs, Call(p)
  PROVE  proc[p] = Idle /\ proc'[p].pc # "idle"
<1>1. \A q \in Procs : proc[q] \in Local
  BY DEF TypeOK
<1>2. ASSUME NEW flow, NEW c \in Steps \ {"idle"}, NEW r, Begin(p, flow, c, r)
      PROVE  proc[p] = Idle /\ proc'[p].pc # "idle"
  <2>1. proc'[p] = [Idle EXCEPT !.flow = flow, !.pc = c, !.req = r]
    BY <1>2 DEF Begin, TypeOK
  <2>2. QED
    BY <1>2, <2>1 DEF Begin, Idle
<1>3. ASSUME NEW r \in Requests, Approve(p, r) \/ Reject(p, r) \/ Disburse(p, r)
      PROVE  proc[p] = Idle /\ proc'[p].pc # "idle"
  BY <1>2, <1>3, Names DEF Approve, Reject, Disburse
<1>4. ASSUME NEW r \in Requests, PayApproved(p, r) PROVE proc[p] = Idle /\ proc'[p].pc # "idle"
  BY <1>4 DEF PayApproved, Idle, TypeOK
<1>5. ASSUME NEW m \in Months, Generate(p, m) PROVE proc[p] = Idle /\ proc'[p].pc # "idle"
  BY <1>5 DEF Generate, Idle, TypeOK
<1>6. ASSUME NEW x \in Payments, Reverse(p, x) PROVE proc[p] = Idle /\ proc'[p].pc # "idle"
  BY <1>6 DEF Reverse, Idle, TypeOK
<1>7. CASE RemoveMember(p)
  BY <1>7 DEF RemoveMember, Idle, TypeOK
<1>8. QED
  BY <1>3, <1>4, <1>5, <1>6, <1>7 DEF Call

(* A payout goes on for the same request until its handler ends.           *)
LEMMA PayoutGoesOn ==
  ASSUME TypeOK, ControlOK, NEW p \in Procs, Act(p), Course(proc[p]), PayingOut(proc[p])
  PROVE  \/ proc'[p] = Idle
         \/ PayingOut(proc'[p]) /\ proc'[p].req = proc[p].req
<1> DEFINE h == proc[p]
           Goal == proc'[p] = Idle \/ (PayingOut(proc'[p]) /\ proc'[p].req = h.req)
<1>1. h \in Local /\ Control(h) /\ h.flow \in {"disburse", "pay"} /\ h.pay # None
  BY DEF TypeOK, ControlOK, PayingOut
<1>2. ~Call(p)
  BY <1>1, CallStarts DEF Idle
<1>3. ASSUME NEW c, Goto(p, c) PROVE Goal
  BY <1>1, <1>3 DEF Goto, PayingOut, TypeOK, Local
<1>4. CASE Return(p)
  BY <1>4 DEF Return, TypeOK
<1>5. CASE ApproveLoad(p) \/ ApproveSave(p) \/ RejectSave(p) \/ MarkPaidLoad(p) \/ MarkPaidSave(p)
  BY <1>3, <1>4, <1>5 DEF ApproveLoad, ApproveSave, RejectSave, MarkPaidLoad, MarkPaidSave
<1>6. CASE Scan(p) \/ Deduct(p) \/ Stamp(p)
  <2>1. CASE Scan(p)
    BY <1>1, <2>1 DEF Scan, PayingOut, TypeOK, Local
  <2>2. CASE Deduct(p)
    BY <1>1, <2>2 DEF Deduct, PayingOut, TypeOK, Local
  <2>3. CASE Stamp(p)
    BY <1>1, <2>3 DEF Stamp, PayingOut, TypeOK, Local
  <2> QED
    BY <1>6, <2>1, <2>2, <2>3
<1>7. CASE DeductDone(p)
  BY <1>3, <1>4, <1>7 DEF DeductDone
<1>8. CASE PriorPayment(p) \/ PaySave(p)
  BY <1>1, <1>8 DEF PriorPayment, PaySave, At, Control, Course
<1>9. CASE ChooseRecovery(p)
  <2>1. PICK m \in Months :
          \/ \E k \in {"plan", "deduction"} :
               proc' = [proc EXCEPT ![p] = [h EXCEPT !.pc = "scan", !.kind = k, !.month = m]]
          \/ proc' = [proc EXCEPT ![p] = [h EXCEPT !.pc = "markLoad", !.kind = "same"]]
    BY <1>9 DEF ChooseRecovery
  <2>2. CASE \E k \in {"plan", "deduction"} :
               proc' = [proc EXCEPT ![p] = [h EXCEPT !.pc = "scan", !.kind = k, !.month = m]]
    BY <1>1, <2>2 DEF PayingOut, TypeOK, Local
  <2>3. CASE proc' = [proc EXCEPT ![p] = [h EXCEPT !.pc = "markLoad", !.kind = "same"]]
    BY <1>1, <2>3 DEF PayingOut, TypeOK, Local
  <2> QED
    BY <2>1, <2>2, <2>3
<1>10. CASE CreateRecovery(p)
  BY <1>1, <1>10 DEF CreateRecovery, PayingOut, TypeOK, Local
<1>11. CASE ComplianceBlocked(p) \/ LinkRecovery(p) \/ Unrecover(p) \/ CancelPending(p) \/ Crash(p)
  BY <1>3, <1>4, <1>11 DEF ComplianceBlocked, LinkRecovery, Unrecover, CancelPending, Crash
<1>12. CASE ReverseSave(p)
  BY <1>3, <1>4, <1>12 DEF ReverseSave
<1>13. QED
  BY <1>2, <1>5, <1>6, <1>7, <1>8, <1>9, <1>10, <1>11, <1>12 DEF Act, Step

(* A payment that stands is of a request marked paid, of a payout that     *)
(* broke off or of the handler under way.                                  *)
LEMMA PayoutsStep ==
  ASSUME TypeOK, ControlOK, NEW p \in Procs, Act(p), Course(proc[p]), Fit(proc[p]),
         PayoutsKnown(proc[p]),
         broken' = broken \cup {r \in Requests : /\ request'[r].status # "paid"
                                                 /\ \E q \in Procs : /\ PayingOut(proc[q])
                                                                     /\ proc[q].req = r
                                                                     /\ proc'[q] = Idle}
  PROVE  PayoutsKnown(proc[p])'
<1> SUFFICES ASSUME NEW r \in Requests, Paid(r)' # {}
             PROVE  \/ request'[r].status = "paid" \/ r \in broken'
                    \/ PayingOut(proc'[p]) /\ proc'[p].req = r
  BY DEF PayoutsKnown, PayingOut
<1> DEFINE h == proc[p]
<1>1. CASE PaySave(p) /\ h.req = r
  <2>1. h.flow \in {"disburse", "pay"}
    BY <1>1 DEF PaySave, At, Course, Payers
  <2>2. PICK x \in Payments : proc' = [proc EXCEPT ![p] = [h EXCEPT !.pc = "choose", !.pay = x]]
    BY <1>1 DEF PaySave
  <2>3. QED
    BY <1>1, <2>1, <2>2, NoneAssumption DEF PayingOut, TypeOK, Local
<1>2. ASSUME ~(PaySave(p) /\ h.req = r) PROVE Paid(r) # {}
  <2>1. CASE PaySave(p)
    <3>1. PICK x \in Payments :
            pay' = [pay EXCEPT ![x] = [status |-> "active", req |-> h.req, rec |-> None]]
      BY <2>1 DEF PaySave
    <3>2. \A z \in Payments : z # x => pay'[z] = pay[z]
      BY <3>1 DEF TypeOK
    <3>3. pay'[x].req # r
      BY <1>2, <2>1, <3>1 DEF TypeOK
    <3>4. QED
      BY <3>2, <3>3 DEF Paid
  <2>2. CASE ReverseSave(p)
    <3>1. \A z \in Payments : /\ pay'[z].req = pay[z].req
                              /\ pay'[z].status = "active" => pay[z].status = "active"
      BY <2>2 DEF ReverseSave, TypeOK, PaymentDoc
    <3>2. QED
      BY <3>1 DEF Paid
  <2>3. CASE LinkRecovery(p)
    <3>1. \A z \in Payments : pay'[z].req = pay[z].req /\ pay'[z].status = pay[z].status
      BY <2>3 DEF LinkRecovery, TypeOK, PaymentDoc
    <3>2. QED
      BY <3>1 DEF Paid
  <2>4. CASE pay' = pay
    BY <2>4 DEF Paid
  <2>5. QED
    BY <2>1, <2>2, <2>3, <2>4
    DEF Act, Call, Step, Approve, Reject, Disburse, PayApproved, Generate, Reverse, RemoveMember,
        ApproveLoad, ApproveSave, RejectSave, MarkPaidLoad, MarkPaidSave, Scan, Deduct, Stamp,
        DeductDone, PriorPayment, ChooseRecovery, CreateRecovery, ComplianceBlocked, Unrecover,
        CancelPending, Crash
<1>3. CASE Paid(r) # {}
  <2>1. request[r].status = "paid" \/ r \in broken \/ (PayingOut(h) /\ h.req = r)
    BY <1>3 DEF PayoutsKnown
  <2>2. CASE request[r].status = "paid"
    BY <2>2, PaidStays
  <2>3. CASE r \in broken
    BY <2>3
  <2>4. CASE PayingOut(h) /\ h.req = r
    BY <2>4, PayoutGoesOn
  <2>5. QED
    BY <2>1, <2>2, <2>3, <2>4
<1>4. QED
  BY <1>1, <1>2, <1>3

(* Documents that are left alone, and a handler that was not and is not    *)
(* about to write the marker, the link or the reversal of a recovery.      *)
LEMMA SameBooks ==
  ASSUME NEW h, NEW k, Explained(h), RecoversOnce,
         UNCHANGED <<request, pay, recov>>,
         h.pc \notin Linking \cup {"stamp", "unrecover"}
  PROVE  Explained(k)' /\ RecoversOnce'
BY DEF Explained, RecoversOnce, Recovers, Marked, Linked, Linking

(* The steps that write a marker, a link or a recovery.                    *)
LEMMA BooksStep ==
  ASSUME TypeOK, ControlOK, LiveOnce, PaymentRecoveredOnce,
         NEW p \in Procs, Call(p) \/ Step(p), Course(proc[p]), Fit(proc[p]),
         Explained(proc[p]), RecoversOnce
  PROVE  Explained(proc[p])' /\ RecoversOnce'
<1> DEFINE h == proc[p]
           k == proc'[p]
           Goal == Explained(proc[p])' /\ RecoversOnce'
<1>1. h \in Local /\ Control(h)
  BY DEF TypeOK, ControlOK
<1>2. /\ request \in [Requests -> RequestDoc]
      /\ pay \in [Payments -> PaymentDoc]
      /\ recov \in [Recoveries -> RecoveryDoc]
  BY DEF TypeOK
<1>3. ASSUME UNCHANGED <<request, pay, recov>>, h.pc \notin Linking \cup {"stamp", "unrecover"} PROVE Goal
  BY <1>3, SameBooks
<1>4. CASE Call(p)
  <2>1. h = Idle /\ UNCHANGED <<request, pay, recov>>
    BY <1>4 DEF Call, Approve, Reject, Disburse, PayApproved, Generate, Reverse, RemoveMember, Begin
  <2>2. QED
    BY <1>3, <2>1 DEF Idle, Linking
<1>5. CASE ApproveLoad(p) \/ Scan(p) \/ DeductDone(p) \/ PriorPayment(p) \/ ChooseRecovery(p) \/ ComplianceBlocked(p)
  <2>1. UNCHANGED <<request, pay, recov>>
    BY <1>5 DEF ApproveLoad, Scan, DeductDone, PriorPayment, ChooseRecovery, ComplianceBlocked
  <2>2. h.pc \in {"approveLoad", "scan", "deduct", "prior", "choose", "recover"}
    BY <1>5 DEF ApproveLoad, Scan, DeductDone, PriorPayment, ChooseRecovery, ComplianceBlocked, At
  <2>3. QED
    BY <1>3, <2>1, <2>2 DEF Linking
<1>6. CASE ApproveSave(p) \/ RejectSave(p) \/ CancelPending(p)
  <2>1. UNCHANGED <<pay, recov>>
    BY <1>6 DEF ApproveSave, RejectSave, CancelPending
  <2>2. h.pc \in {"approveSave", "rejectSave", "cancel"}
    BY <1>6 DEF ApproveSave, RejectSave, CancelPending, At
  <2>3. ASSUME NEW r, request[r].status = "paid", r \in Requests PROVE request'[r] = request[r]
    <3>1. CASE ApproveSave(p)
      <4>1. request[h.req].status = "pending"
        BY <3>1 DEF ApproveSave, At, Fit
      <4>2. QED
        BY <1>2, <2>3, <3>1, <4>1 DEF ApproveSave
    <3>2. CASE RejectSave(p)
      <4>1. request[h.req].status = "pending"
        BY <3>2 DEF RejectSave, At, Fit
      <4>2. QED
        BY <1>2, <2>3, <3>2, <4>1 DEF RejectSave
    <3>3. CASE CancelPending(p)
      BY <2>3, <3>3 DEF CancelPending
    <3>4. QED
      BY <1>6, <3>1, <3>2, <3>3
  <2>4. ASSUME NEW y \in Recoveries, Recovers(y)
        PROVE  /\ recov'[y].req \in Requests
               /\ Marked(proc[p], y)'
               /\ recov'[y].pay # None => Linked(proc[p], y)'
    <3>1. /\ recov[y].req \in Requests
          /\ request[recov[y].req].status = "paid"
          /\ request[recov[y].req].adj # None \/ request[recov[y].req].plan # None
      BY <2>2, <2>4 DEF Explained, Marked, Linking
    <3>2. recov[y].pay # None => pay[recov[y].pay].status = "active" /\ pay[recov[y].pay].rec = y
      BY <2>2, <2>4 DEF Explained, Linked
    <3>3. QED
      BY <2>1, <2>3, <3>1, <3>2 DEF Marked, Linked
  <2>5. QED
    BY <2>1, <2>4 DEF Explained, RecoversOnce, Recovers
<1>7. CASE MarkPaidLoad(p)
  <2>1. UNCHANGED <<request, pay, recov>>
    BY <1>7 DEF MarkPaidLoad
  <2>2. h.pc = "markLoad" /\ request[h.req].status = "approved"
    BY <1>7 DEF MarkPaidLoad, At, Course, Fit, Linking, Payers
  <2>3. k.pc = "markSave" /\ k.req = h.req /\ k.rec = h.rec
    BY <1>1, <1>7, <2>2 DEF MarkPaidLoad, Goto, TypeOK, Local
  <2>4. QED
    BY <2>1, <2>2, <2>3 DEF Explained, RecoversOnce, Recovers, Marked, Linked, Linking
<1>8. CASE MarkPaidSave(p)
  <2>1. UNCHANGED <<pay, recov>> /\ h.pc = "markSave"
    BY <1>8 DEF MarkPaidSave, At
  <2>2. h.req \in Requests /\ request[h.req].status = "approved"
    BY <1>1, <2>1 DEF Course, Fit, Linking, Payers, Control, ForRequest
  <2>3. IndexAllows(h.req)
    BY <2>2 DEF IndexAllows, LiveOnce, Live
  <2>4. request' = [request EXCEPT ![h.req] = MarkedPaid(@, h)]
    BY <1>8, <2>3 DEF MarkPaidSave
  <2>5. /\ \A r \in Requests \ {h.req} : request'[r] = request[r]
        /\ request'[h.req].status = "paid"
        /\ h.kind = "deduction" => request'[h.req].adj = h.rec
        /\ h.kind = "plan" => request'[h.req].plan = h.rec
    BY <1>2, <2>2, <2>4 DEF MarkedPaid, RequestDoc
  <2>6. ASSUME NEW y \in Recoveries, Recovers(y)
        PROVE  /\ recov'[y].req \in Requests
               /\ Marked(proc[p], y)'
               /\ recov'[y].pay # None => Linked(proc[p], y)'
    <3>1. recov[y].req \in Requests /\ Marked(h, y) /\ (recov[y].pay # None => Linked(h, y))
      BY <2>6 DEF Explained
    <3>2. recov[y].pay # None => pay[recov[y].pay].status = "active" /\ pay[recov[y].pay].rec = y
      BY <2>1, <3>1 DEF Linked
    <3>3. CASE recov[y].req = h.req
      <4>1. h.rec = y
        BY <2>1, <2>2, <3>1, <3>3 DEF Marked
      <4>2. h.kind \in {"plan", "deduction"}
        BY <2>1, <2>6, <4>1, NoneAssumption DEF Course, Linking
      <4>3. QED
        BY <2>1, <2>5, <3>1, <3>2, <3>3, <4>1, <4>2, NoneAssumption DEF Marked, Linked
    <3>4. CASE recov[y].req # h.req
      BY <2>1, <2>5, <3>1, <3>2, <3>4 DEF Marked, Linked
    <3>5. QED
      BY <3>3, <3>4
  <2>7. QED
    BY <2>1, <2>6 DEF Explained, RecoversOnce, Recovers
<1>9. CASE Deduct(p)
  <2>1. UNCHANGED <<request, pay>> /\ h.pc = "deduct"
    BY <1>9 DEF Deduct, At
  <2>2. PICK r \in h.todo, w \in Recoveries :
          /\ recov[w] = NoRecovery
          /\ recov' = [recov EXCEPT ![w] = [status |-> "active", kind |-> "auto", req |-> r,
                                            pay |-> None, month |-> h.month]]
          /\ proc' = [proc EXCEPT ![p] = [@ EXCEPT !.pc = "stamp", !.cur = r, !.adj = w]]
    BY <1>9 DEF Deduct
  <2>3. r \in Requests /\ Unmarked(r)
    BY <1>1 DEF Fit, Local
  <2>4. k.pc = "stamp" /\ k.cur = r /\ k.adj = w
    BY <1>1, <2>2 DEF TypeOK, Local
  <2>5. /\ \A y \in Recoveries \ {w} : recov'[y] = recov[y]
        /\ recov'[w].req = r /\ recov'[w].pay = None
    BY <1>2, <2>2
  <2>6. \A y \in Recoveries : Recovers(y) =>
          /\ recov[y].req \in Requests
          /\ request[recov[y].req].status = "paid"
          /\ request[recov[y].req].adj # None \/ request[recov[y].req].plan # None
          /\ recov[y].pay # None => pay[recov[y].pay].status = "active" /\ pay[recov[y].pay].rec = y
    BY <2>1 DEF Explained, Marked, Linked, Linking
  <2>7. \A y \in Recoveries : Recovers(y) => recov[y].req # r
    BY <2>3, <2>6 DEF Unmarked
  <2>8. Explained(proc[p])'
    BY <2>1, <2>3, <2>4, <2>5, <2>6 DEF Explained, Recovers, Marked, Linked
  <2>9. RecoversOnce'
    BY <2>5, <2>7 DEF RecoversOnce, Recovers
  <2>10. QED
    BY <2>8, <2>9
<1>10. CASE Stamp(p)
  <2>1. UNCHANGED <<pay, recov>> /\ h.pc = "stamp"
    BY <1>10 DEF Stamp, At
  <2>2. h.cur \in Requests /\ request[h.cur].status = "paid" /\ h.adj # None
    BY <1>1, <2>1 DEF Course, Fit, Unmarked, Local
  <2>3. /\ \A r \in Requests \ {h.cur} : request'[r] = request[r]
        /\ request'[h.cur].status = "paid" /\ request'[h.cur].adj # None
    BY <1>2, <1>10, <2>2 DEF Stamp, RequestDoc
  <2>4. \A y \in Recoveries : Recovers(y) =>
          /\ recov[y].req \in Requests
          /\ \/ /\ request[recov[y].req].status = "paid"
                /\ request[recov[y].req].adj # None \/ request[recov[y].req].plan # None
             \/ recov[y].req = h.cur
          /\ recov[y].pay # None => pay[recov[y].pay].status = "active" /\ pay[recov[y].pay].rec = y
    BY <2>1 DEF Explained, Marked, Linked, Linking
  <2>5. QED
    BY <2>1, <2>3, <2>4 DEF Explained, RecoversOnce, Recovers, Marked, Linked
<1>11. CASE PaySave(p)
  <2>1. UNCHANGED <<request, recov>> /\ h.pc = "paySave"
    BY <1>11 DEF PaySave, At
  <2>2. PICK x \in Payments :
          /\ pay[x] = NoPayment
          /\ pay' = [pay EXCEPT ![x] = [status |-> "active", req |-> h.req, rec |-> None]]
    BY <1>11 DEF PaySave
  <2>3. pay[x].status = "none" /\ \A z \in Payments \ {x} : pay'[z] = pay[z]
    BY <1>2, <2>2 DEF NoPayment
  <2>4. \A y \in Recoveries : Recovers(y) =>
          /\ recov[y].req \in Requests
          /\ request[recov[y].req].status = "paid"
          /\ request[recov[y].req].adj # None \/ request[recov[y].req].plan # None
          /\ recov[y].pay # None => pay[recov[y].pay].status = "active" /\ pay[recov[y].pay].rec = y
    BY <2>1 DEF Explained, Marked, Linked, Linking
  <2>5. \A y \in Recoveries : recov[y].pay # None => recov[y].pay \in Payments
    BY <1>2 DEF RecoveryDoc
  <2>6. QED
    BY <2>1, <2>3, <2>4, <2>5 DEF Explained, RecoversOnce, Recovers, Marked, Linked
<1>12. CASE CreateRecovery(p)
  <2>1. UNCHANGED <<request, pay>> /\ h.pc = "recover"
    BY <1>12 DEF CreateRecovery, At
  <2>2. PICK w \in Recoveries :
          /\ recov[w] = NoRecovery
          /\ recov' = [recov EXCEPT ![w] = [status |-> "active", kind |-> h.kind, req |-> h.req,
                                            pay |-> h.pay, month |-> h.month]]
          /\ proc' = [proc EXCEPT ![p] = [h EXCEPT !.pc = "link", !.rec = w]]
    BY <1>12 DEF CreateRecovery
  <2>3. /\ h.req \in Requests /\ request[h.req].status = "approved"
        /\ h.pay \in Payments /\ pay[h.pay].status = "active"
    BY <1>1, <2>1 DEF Course, Fit, Payers, Control, ForRequest, Paid
  <2>4. k.pc = "link" /\ k.req = h.req /\ k.rec = w
    BY <1>1, <2>2 DEF TypeOK, Local
  <2>5. /\ \A y \in Recoveries \ {w} : recov'[y] = recov[y]
        /\ recov'[w].req = h.req /\ recov'[w].pay = h.pay
    BY <1>2, <2>2
  <2>6. \A y \in Recoveries : Recovers(y) =>
          /\ recov[y].req \in Requests
          /\ request[recov[y].req].status = "paid"
          /\ request[recov[y].req].adj # None \/ request[recov[y].req].plan # None
          /\ recov[y].pay # None => pay[recov[y].pay].status = "active" /\ pay[recov[y].pay].rec = y
    BY <2>1 DEF Explained, Marked, Linked, Linking
  <2>7. \A y \in Recoveries : Recovers(y) => recov[y].req # h.req
    BY <2>3, <2>6
  <2>8. Explained(proc[p])'
    BY <2>1, <2>3, <2>4, <2>5, <2>6 DEF Explained, Recovers, Marked, Linked, Linking
  <2>9. RecoversOnce'
    BY <2>5, <2>7 DEF RecoversOnce, Recovers
  <2>10. QED
    BY <2>8, <2>9
<1>13. CASE LinkRecovery(p)
  <2>1. UNCHANGED <<request, recov>> /\ h.pc = "link"
    BY <1>13 DEF LinkRecovery, At
  <2>2. /\ h.pay \in Payments /\ pay[h.pay].status = "active" /\ h.pay # None
        /\ h.rec \in Recoveries /\ recov[h.rec].pay = h.pay
    BY <1>1, <2>1 DEF Course, Fit, Payers, Control, Linking, Paid
  <2>3. k.pc = "markLoad" /\ k.req = h.req /\ k.rec = h.rec
    BY <1>1, <1>13 DEF LinkRecovery, Goto, TypeOK, Local
  <2>4. /\ \A z \in Payments \ {h.pay} : pay'[z] = pay[z]
        /\ pay'[h.pay].status = "active" /\ pay'[h.pay].rec = h.rec
    BY <1>2, <1>13, <2>2 DEF LinkRecovery, PaymentDoc
  <2>5. ASSUME NEW y \in Recoveries, Recovers(y)
        PROVE  /\ recov'[y].req \in Requests
               /\ Marked(proc[p], y)'
               /\ recov'[y].pay # None => Linked(proc[p], y)'
    <3>1. recov[y].req \in Requests /\ Marked(h, y) /\ (recov[y].pay # None => Linked(h, y))
      BY <2>5 DEF Explained
    <3>2. recov[y].pay = h.pay => y = h.rec
      BY <2>2, <2>5 DEF PaymentRecoveredOnce
    <3>3. recov[y].pay # None => recov[y].pay \in Payments
      BY <1>2 DEF RecoveryDoc
    <3>4. Marked(proc[p], y)'
      BY <2>1, <2>3, <3>1 DEF Marked, Linking
    <3>5. recov'[y].pay # None => Linked(proc[p], y)'
      BY <2>1, <2>2, <2>3, <2>4, <3>1, <3>2, <3>3 DEF Linked
    <3>6. QED
      BY <2>1, <3>1, <3>4, <3>5
  <2>6. QED
    BY <2>1, <2>5 DEF Explained, RecoversOnce, Recovers
<1>14. CASE ReverseSave(p)
  <2>1. UNCHANGED <<request, recov>> /\ h.pc = "reverseSave"
    BY <1>14 DEF ReverseSave, At
  <2>2. h.rec = pay[h.pay].rec
    BY <2>1 DEF Fit
  <2>3. h.rec # None => k.pc = "unrecover" /\ k.rec = h.rec
    BY <1>1, <1>14 DEF ReverseSave, Goto, TypeOK, Local
  <2>4. \A z \in Payments \ {h.pay} : pay'[z] = pay[z]
    BY <1>2, <1>14 DEF ReverseSave
  <2>5. \A y \in Recoveries : Recovers(y) =>
          /\ recov[y].req \in Requests
          /\ request[recov[y].req].status = "paid"
          /\ request[recov[y].req].adj # None \/ request[recov[y].req].plan # None
          /\ recov[y].pay # None => pay[recov[y].pay].status = "active" /\ pay[recov[y].pay].rec = y
    BY <2>1 DEF Explained, Marked, Linked, Linking
  <2>6. \A y \in Recoveries : y # None /\ (recov[y].pay # None => recov[y].pay \in Payments)
    BY <1>2, NoneAssumption DEF RecoveryDoc
  <2>7. QED
    BY <2>1, <2>2, <2>3, <2>4, <2>5, <2>6 DEF Explained, RecoversOnce, Recovers, Marked, Linked
<1>15. CASE Unrecover(p)
  <2>1. UNCHANGED <<request, pay>> /\ h.pc = "unrecover"
    BY <1>15 DEF Unrecover, At
  <2>2. /\ \A y \in Recoveries : recov'[y].req = recov[y].req /\ recov'[y].pay = recov[y].pay
        /\ \A y \in Recoveries : Recovers(y)' => Recovers(y) /\ y # h.rec
    BY <1>2, <1>15 DEF Unrecover, RecoveryDoc, Recovers
  <2>3. \A y \in Recoveries : Recovers(y) /\ y # h.rec =>
          /\ recov[y].req \in Requests
          /\ request[recov[y].req].status = "paid"
          /\ request[recov[y].req].adj # None \/ request[recov[y].req].plan # None
          /\ recov[y].pay # None => pay[recov[y].pay].status = "active" /\ pay[recov[y].pay].rec = y
    BY <2>1 DEF Explained, Marked, Linked, Linking
  <2>4. Explained(proc[p])'
    BY <2>1, <2>2, <2>3 DEF Explained, Marked, Linked
  <2>5. RecoversOnce'
    BY <2>2 DEF RecoversOnce
  <2>6. QED
    BY <2>4, <2>5
<1>16. QED
  BY <1>4, <1>5, <1>6, <1>7, <1>8, <1>9, <1>10, <1>11, <1>12, <1>13, <1>14, <1>15 DEF Step

-----------------------------------------------------------------------------
(* The unique index holds whatever overlaps what.                          *)
LEMMA LiveStep == TypeOK /\ LiveOnce /\ [Next]_vars => LiveOnce'
<1> SUFFICES ASSUME TypeOK, LiveOnce, [Next]_vars PROVE LiveOnce'
  OBVIOUS
<1>1. request \in [Requests -> RequestDoc]
  BY DEF TypeOK
<1>2. ASSUME NEW r \in Requests, IndexAllows(r), \A q \in Requests \ {r} : request'[q] = request[q]
      PROVE  LiveOnce'
  BY <1>2 DEF IndexAllows, LiveOnce, Live
<1>3. ASSUME \A q \in Requests : Live(q)' => Live(q) PROVE LiveOnce'
  BY <1>3 DEF LiveOnce
<1>4. CASE request' = request
  BY <1>3, <1>4 DEF Live
<1>5. ASSUME NEW r \in Requests, CreateRequest(r) PROVE LiveOnce'
  BY <1>1, <1>2, <1>5 DEF CreateRequest
<1>6. ASSUME NEW p \in Procs, ApproveSave(p) PROVE LiveOnce'
  <2> DEFINE r == proc[p].req
  <2>1. CASE IndexAllows(r) /\ r \in Requests
    BY <1>1, <1>2, <1>6, <2>1 DEF ApproveSave
  <2>2. CASE ~IndexAllows(r) \/ r \notin Requests
    <3>1. request' = request
      BY <1>1, <1>6, <2>2 DEF ApproveSave
    <3>2. QED
      BY <1>4, <3>1
  <2>3. QED
    BY <2>1, <2>2
<1>7. ASSUME NEW p \in Procs, RejectSave(p) PROVE LiveOnce'
  BY <1>1, <1>3, <1>7 DEF RejectSave, Live, RequestDoc
<1>8. ASSUME NEW p \in Procs, MarkPaidSave(p) PROVE LiveOnce'
  <2> DEFINE r == proc[p].req
  <2>1. CASE IndexAllows(r) /\ r \in Requests
    BY <1>1, <1>2, <1>8, <2>1 DEF MarkPaidSave
  <2>2. CASE ~IndexAllows(r) \/ r \notin Requests
    <3>1. request' = request
      BY <1>1, <1>8, <2>2 DEF MarkPaidSave
    <3>2. QED
      BY <1>4, <3>1
  <2>3. QED
    BY <2>1, <2>2
<1>9. ASSUME NEW p \in Procs, Stamp(p) PROVE LiveOnce'
  BY <1>1, <1>3, <1>9 DEF Stamp, Live, RequestDoc
<1>10. ASSUME NEW p \in Procs, CancelPending(p) PROVE LiveOnce'
  BY <1>1, <1>3, <1>10 DEF CancelPending, Live, RequestDoc
<1>11. QED
  BY <1>4, <1>5, <1>6, <1>7, <1>8, <1>9, <1>10
     DEF Next, Call, Step, vars, Approve, ApproveLoad, Reject, MarkPaidLoad, Generate, Scan, Deduct, DeductDone, Disburse, PriorPayment, PayApproved, PaySave, ChooseRecovery, CreateRecovery, ComplianceBlocked, LinkRecovery, Reverse, ReverseSave, Unrecover, RemoveMember, LockMonth, UnlockMonth, Crash

(* A request that is made, and a month that is locked or unlocked, are     *)
(* nothing to a handler.                                                   *)
LEMMA Bystander ==
  ASSUME TypeOK, NEW h \in Local, Control(h), SerialInv(h),
         UNCHANGED <<pay, recov, crashes>>, broken \subseteq broken',
         \A r \in Requests : request[r].status # "none" => request'[r] = request[r]
  PROVE  SerialInv(h)'
<1> USE DEF SerialInv
<1>1. h.pc \in {"approveSave", "rejectSave"} \/ h.flow \in Payers => h.req \in Requests
  BY DEF Control, ForRequest, Payers
<1>2. h.todo \subseteq Requests
  BY DEF Local
<1>3. Course(h)
  OBVIOUS
<1>4. Fit(h)'
  BY <1>1, <1>2 DEF Fit, Unmarked, Paid
<1>5. PayoutsKnown(h)'
  BY DEF PayoutsKnown, PayingOut, Paid
<1>6. crashes = 0 => Explained(h)' /\ RecoversOnce'
  BY DEF Explained, RecoversOnce, Recovers, Marked, Linked
<1>7. QED
  BY <1>3, <1>4, <1>5, <1>6 DEF Course

LEMMA OthersStay ==
  ASSUME TypeOK, NEW p \in Procs, Act(p)
  PROVE  \A q \in Procs \ {p} : proc'[q] = proc[q]
BY DEF Act, Call, Step, Crash, Begin, Goto, Return, TypeOK, Approve, ApproveLoad, ApproveSave, Reject, RejectSave, MarkPaidLoad, MarkPaidSave, Generate, Scan, Deduct, Stamp, DeductDone, Disburse, PriorPayment, PayApproved, PaySave, ChooseRecovery, CreateRecovery, ComplianceBlocked, LinkRecovery, Reverse, ReverseSave, Unrecover, RemoveMember, CancelPending

(* The handler that takes a step is the only one under way.                *)
LEMMA ActorAlone ==
  ASSUME TypeOK, CallsInv, alone, CallsNext, NEW p \in Procs, Act(p)
  PROVE  Only(p) /\ SerialInv(proc[p])
<1>1. CASE (\A q \in Procs : proc[q] = Idle) /\ SerialInv(Idle)
  BY <1>1 DEF Only
<1>2. ASSUME NEW q \in Procs, Only(q), SerialInv(proc[q]), q # p PROVE Only(p) /\ SerialInv(proc[p])
  <2>1. proc[p] = Idle
    BY <1>2 DEF Only
  <2>2. CASE Call(p)
    <3>1. proc'[p] # Idle
      BY <2>2, CallStarts DEF Idle
    <3>2. proc'[q] = proc[q]
      BY <1>2, OthersStay
    <3>3. proc[q] = Idle
      BY <1>2, <3>1, <3>2 DEF CallsNext, OneAtATime
    <3>4. QED
      BY <1>2, <2>1, <3>3 DEF Only
  <2>3. CASE Step(p) \/ Crash(p)
    BY <2>1, <2>3 DEF Step, Crash, ApproveLoad, ApproveSave, RejectSave, MarkPaidLoad, MarkPaidSave, Scan, Deduct, Stamp, DeductDone, PriorPayment, PaySave, ChooseRecovery, CreateRecovery, ComplianceBlocked, LinkRecovery, ReverseSave, Unrecover, CancelPending, At, Idle
  <2>4. QED
    BY <2>2, <2>3 DEF Act
<1>3. QED
  BY <1>1, <1>2 DEF CallsInv

LEMMA ActorStep ==
  ASSUME MoneyInv, OnceInv, LiveOnce, NEW p \in Procs, SerialInv(proc[p]), Act(p),
         broken' = broken \cup {r \in Requests : /\ request'[r].status # "paid"
                                                 /\ \E q \in Procs : /\ PayingOut(proc[q])
                                                                     /\ proc[q].req = r
                                                                     /\ proc'[q] = Idle}
  PROVE  SerialInv(proc[p])'
<1> USE DEF MoneyInv, OnceInv
<1>1. Course(proc[p]) /\ Fit(proc[p]) /\ PayoutsKnown(proc[p])
  BY DEF SerialInv
<1>2. Course(proc'[p]) /\ Fit(proc[p])' /\ PayoutsKnown(proc[p])'
  BY <1>1, CourseStep, FitStep, PayoutsStep
<1>3. CASE Call(p) \/ Step(p)
  <2>1. crashes' = crashes
    BY <1>3 DEF Call, Step, Approve, ApproveLoad, ApproveSave, Reject, RejectSave, MarkPaidLoad, MarkPaidSave, Generate, Scan, Deduct, Stamp, DeductDone, Disburse, PriorPayment, PayApproved, PaySave, ChooseRecovery, CreateRecovery, ComplianceBlocked, LinkRecovery, Reverse, ReverseSave, Unrecover, RemoveMember, CancelPending
  <2>2. crashes = 0 => Explained(proc[p])' /\ RecoversOnce'
    BY <1>1, <1>3, BooksStep DEF SerialInv
  <2>3. QED
    BY <1>2, <2>1, <2>2 DEF SerialInv, Course
<1>4. CASE Crash(p)
  <2>1. crashes' # 0
    BY <1>4 DEF Crash, TypeOK
  <2>2. QED
    BY <1>2, <2>1 DEF SerialInv, Course
<1>5. QED
  BY <1>3, <1>4 DEF Act

-----------------------------------------------------------------------------
(* The invariant of the calls.                                             *)
LEMMA CallsStep == MoneyInv /\ OnceInv /\ CallsInv /\ [CallsNext]_callVars => CallsInv'
<1> SUFFICES ASSUME MoneyInv, OnceInv, CallsInv, [CallsNext]_callVars PROVE CallsInv'
  OBVIOUS
<1>1. TypeOK /\ ControlOK /\ LiveOnce
  BY DEF MoneyInv, CallsInv
<1>2. [Next]_vars /\ alone' = alone
  BY DEF CallsNext, callVars
<1>3. LiveOnce'
  BY <1>1, <1>2, LiveStep
<1> DEFINE Goal == \/ (\A p \in Procs : proc'[p] = Idle) /\ SerialInv(Idle)'
                   \/ \E p \in Procs : Only(p)' /\ SerialInv(proc[p])'
<1>4. ASSUME alone, CallsNext, NEW p \in Procs, Act(p) PROVE Goal
  <2>1. Only(p) /\ SerialInv(proc[p])
    BY <1>1, <1>4, ActorAlone
  <2>2. Only(p)'
    BY <1>1, <1>4, <2>1, OthersStay DEF Only
  <2>3. SerialInv(proc[p])'
    BY <1>1, <1>4, <2>1, ActorStep DEF CallsNext
  <2>4. QED
    BY <2>2, <2>3
<1>5. ASSUME alone, proc' = proc, UNCHANGED <<pay, recov, crashes>>, broken \subseteq broken',
             \A r \in Requests : request[r].status # "none" => request'[r] = request[r]
      PROVE  Goal
  <2>1. CASE (\A p \in Procs : proc[p] = Idle) /\ SerialInv(Idle)
    BY <1>1, <1>5, <2>1, IdleControl, Bystander
  <2>2. ASSUME NEW p \in Procs, Only(p), SerialInv(proc[p]) PROVE Goal
    <3>1. proc[p] \in Local /\ Control(proc[p])
      BY <1>1 DEF TypeOK, ControlOK
    <3>2. SerialInv(proc[p])'
      BY <1>1, <1>5, <2>2, <3>1, Bystander
    <3>3. QED
      BY <1>5, <2>2, <3>2 DEF Only
  <2>3. QED
    BY <1>5, <2>1, <2>2 DEF CallsInv
<1>6. ASSUME alone PROVE Goal
  <2> broken \subseteq broken'
    BY DEF CallsNext, callVars
  <2>1. ASSUME NEW r \in Requests, CreateRequest(r) PROVE Goal
    BY <1>1, <1>5, <1>6, <2>1 DEF CreateRequest, TypeOK
  <2>2. ASSUME NEW m \in Months, LockMonth(m) \/ UnlockMonth(m) PROVE Goal
    BY <1>5, <1>6, <2>2 DEF LockMonth, UnlockMonth
  <2>3. CASE UNCHANGED callVars
    BY <1>5, <1>6, <2>3 DEF callVars, vars
  <2>4. ASSUME CallsNext, NEW p \in Procs, Call(p) \/ Step(p) \/ Crash(p) PROVE Goal
    BY <1>4, <1>6, <2>4 DEF Act
  <2>5. QED
    BY <2>1, <2>2, <2>3, <2>4 DEF CallsNext, Next
<1>7. QED
  BY <1>2, <1>3, <1>6 DEF CallsInv

LEMMA CallsStart == CallsInit => CallsInv
<1> SUFFICES ASSUME CallsInit PROVE CallsInv
  OBVIOUS
<1>1. LiveOnce
  BY DEF CallsInit, Init, LiveOnce, Live, NoRequest
<1>2. \A p \in Procs : proc[p] = Idle
  BY DEF CallsInit, Init
<1>3. Course(Idle) /\ Fit(Idle)
  BY DEF Course, Fit, Idle, Linking, Payers
<1>4. PayoutsKnown(Idle) /\ Explained(Idle) /\ RecoversOnce
  BY DEF CallsInit, Init, PayoutsKnown, Paid, Explained, RecoversOnce, Recovers, NoPayment, NoRecovery
<1>5. QED
  BY <1>1, <1>2, <1>3, <1>4 DEF CallsInv, SerialInv

LEMMA CallsAlways == CallsSpec => [](MoneyInv /\ OnceInv /\ CallsInv)
<1>1. CallsInit => MoneyInv /\ OnceInv /\ CallsInv
  BY MoneyInit, OnceInit, CallsStart DEF CallsInit
<1>2. MoneyInv /\ OnceInv /\ CallsInv /\ [CallsNext]_callVars => (MoneyInv /\ OnceInv /\ CallsInv)'
  <2>1. [CallsNext]_callVars => [Next]_vars
    BY DEF CallsNext, callVars
  <2>2. QED
    BY <2>1, MoneyStep, OnceStep, CallsStep
<1>3. QED
  BY <1>1, <1>2, PTL DEF CallsSpec

(* A set of which any two members are the same has at most one.            *)
LEMMA AtMostOne ==
  ASSUME NEW S, \A x, z \in S : x = z
  PROVE  Cardinality(S) <= 1
<1>1. CASE S = {}
  BY <1>1, FS_EmptySet
<1>2. ASSUME NEW x \in S PROVE Cardinality(S) <= 1
  <2>1. S = {x}
    BY <1>2
  <2>2. QED
    BY <2>1, FS_Singleton
<1>3. QED
  BY <1>1, <1>2

(* In every run in which the calls do not overlap, however often one dies  *)
(* and is repeated, and whichever of the two routes it takes, a request of *)
(* which a payment stands is paid again by payApprovedAdvance only, after  *)
(* a payout that broke off: approveAndDisburseAdvanceRequest looks for the *)
(* payment of an earlier attempt, and both look at the status.             *)
THEOREM PaidOnceAlways == CallsSpec => SerialSinglePayout
<1>1. ControlOK /\ CallsInv
        => [alone => \A p \in Procs :
              At(p, "paySave") /\ pay' # pay /\ Paid(proc[p].req) # {}
                => proc[p].flow = "pay" /\ proc[p].req \in broken]_callVars
  <2> SUFFICES ASSUME ControlOK, CallsInv, alone, NEW p \in Procs, At(p, "paySave"),
                      Paid(proc[p].req) # {}
               PROVE  proc[p].flow = "pay" /\ proc[p].req \in broken
    OBVIOUS
  <2>1. proc[p] # Idle
    BY DEF At, Idle
  <2>2. SerialInv(proc[p])
    BY <2>1 DEF CallsInv, Only
  <2>3. proc[p].flow \in Payers /\ proc[p].pay = None
    BY <2>2 DEF SerialInv, Course, At
  <2>4. proc[p].flow # "disburse" /\ request[proc[p].req].status = "approved"
    BY <2>2, <2>3 DEF SerialInv, Fit, At
  <2>5. proc[p].req \in Requests
    BY <2>3 DEF ControlOK, Control, ForRequest, Payers
  <2>6. proc[p].req \in broken
    BY <2>2, <2>3, <2>4, <2>5 DEF SerialInv, PayoutsKnown, PayingOut
  <2> QED
    BY <2>3, <2>4, <2>6 DEF Payers
<1>2. QED
  BY <1>1, CallsAlways, PTL DEF SerialSinglePayout, MoneyInv

(* ... and when none died, at most one recovery that stands: what a        *)
(* disbursement or the safety net recovers is marked in the request, or    *)
(* about to be by the one handler under way.                               *)
THEOREM RecoveredOnceAlways == CallsSpec => []SerialRecoveredOnce
<1>1. CallsInv => SerialRecoveredOnce
  <2> SUFFICES ASSUME CallsInv, alone, crashes = 0, NEW r \in Requests
               PROVE  Cardinality(Recovering(r)) <= 1
    BY DEF SerialRecoveredOnce, RecoveredOnce
  <2>1. RecoversOnce
    BY DEF CallsInv, SerialInv
  <2>2. QED
    BY <2>1, AtMostOne DEF RecoversOnce, Recovers, Recovering
<1>2. QED
  BY <1>1, CallsAlways, PTL

(* ... and none stands of a payment that was reversed: a recovery is       *)
(* linked from its payment by the time the payment can be reversed.        *)
THEOREM ReversedStaysAlways == CallsSpec => []SerialReversedNotRecovered
<1>1. CallsInv => SerialReversedNotRecovered
  <2> SUFFICES ASSUME CallsInv, alone, crashes = 0, \A p \in Procs : proc[p] = Idle,
                      NEW y \in Recoveries, recov[y].status = "active", recov[y].pay # None
               PROVE  pay[recov[y].pay].status = "active"
    BY DEF SerialReversedNotRecovered, ReversedNotRecovered
  <2>1. Explained(Idle)
    BY DEF CallsInv, SerialInv
  <2>2. Linked(Idle, y)
    BY <2>1 DEF Explained, Recovers
  <2>3. QED
    BY <2>2 DEF Linked, Idle
<1>2. QED
  BY <1>1, CallsAlways, PTL
=============================================================================

---------------------------- MODULE AdvancePayout ----------------------------
(***************************************************************************)
(* The salary-advance lifecycle of one member of one workspace             *)
(* (src/src/modules/salary): the advance requests, the payments that pay   *)
(* them out, the recoveries that take the money back from later salaries,  *)
(* and the request handlers that move them.                                *)
(*                                                                         *)
(* A handler is an async function over MongoDB without a transaction: each *)
(* database call is one step, a document read in one step is written back  *)
(* in a later one, and the handler may die between any two of them.        *)
(***************************************************************************)
EXTENDS Integers, FiniteSets

CONSTANTS Requests,     \* documents of AdvanceSalaryRequest
          Payments,     \* ids of Payment documents (bounds their number)
          Recoveries,   \* ids of recovery documents (bounds their number)
          Procs,        \* handlers that may be in flight at a time
          Flows,        \* the operations the environment calls
          MonthOf,      \* the month a request is made against
          LastMonth,    \* months are 1 .. LastMonth
          Lockable,     \* months whose payroll the owner may lock
          MaxCrashes,   \* bound on handlers that die half way
          None          \* an unset reference

Months == 1 .. LastMonth

AllFlows == {"approve", "reject", "disburse", "pay", "generate", "reverse", "remove"}

ASSUME MonthAssumption ==
  /\ LastMonth \in Nat
  /\ MonthOf \in [Requests -> Months]
  /\ Lockable \subseteq Months

ASSUME NoneAssumption == None \notin Requests \cup Payments \cup Recoveries

ASSUME BoundAssumption == /\ MaxCrashes \in Nat
                          /\ Flows \subseteq AllFlows

VARIABLES
  request,   \* AdvanceSalaryRequest documents
  pay,       \* Payment documents with isAdvance = true
  recov,     \* SalaryAdjustment deductions and AdvanceRecoveryPlan documents
  removed,   \* the member is archived (isDeleted)
  locked,    \* months whose salary record is locked
  proc,      \* local state of the handlers
  crashes    \* handlers that have died so far

vars == <<request, pay, recov, removed, locked, proc, crashes>>

-----------------------------------------------------------------------------
(* Documents.                                                              *)

Status == {"none", "pending", "approved", "rejected", "paid", "cancelled"}

RequestDoc == [status : Status,
               payment : Payments \cup {None},
               adj  : Recoveries \cup {None},    \* recoveryAdjustmentId
               plan : Recoveries \cup {None},    \* recoveryPlanId
               same : BOOLEAN]                   \* sameMonthRecovery

PaymentDoc == [status : {"none", "active", "reversed"},
               req : Requests \cup {None},
               rec : Recoveries \cup {None}]     \* advanceRecovery{Adjustment,Plan}Id

RecoveryDoc == [status : {"none", "active", "reversed"},
                kind  : {"none", "deduction", "plan", "auto"},
                req   : Requests \cup {None},
                pay   : Payments \cup {None},
                month : Months \cup {0}]

NoRequest  == [status |-> "none", payment |-> None, adj |-> None, plan |-> None, same |-> FALSE]
NoPayment  == [status |-> "none", req |-> None, rec |-> None]
NoRecovery == [status |-> "none", kind |-> "none", req |-> None, pay |-> None, month |-> 0]

Steps == {"idle", "approveLoad", "approveSave", "rejectSave", "prior", "scan", "deduct",
          "stamp", "paySave", "choose", "recover", "link", "markLoad", "markSave",
          "reverseSave", "unrecover", "cancel"}

Local == [flow : AllFlows \cup {"none"},
          pc   : Steps,
          req  : Requests \cup {None},
          pay  : Payments \cup {None},
          rec  : Recoveries \cup {None},
          kind : {"none", "deduction", "plan", "same"},
          month : Months \cup {0},              \* month given to ensureSalaryRecord
          todo : SUBSET Requests,               \* paidAdvances still to deduct
          cur  : Requests \cup {None},
          adj  : Recoveries \cup {None}]

Idle == [flow |-> "none", pc |-> "idle", req |-> None, pay |-> None, rec |-> None,
         kind |-> "none", month |-> 0, todo |-> {}, cur |-> None, adj |-> None]

Live(r) == request[r].status \in {"pending", "approved", "paid"}

(* The unique partial index on (workspace, member, month, year).  A write  *)
(* that makes r live while another request of the month is live fails.     *)
IndexAllows(r) == \A q \in Requests \ {r} : MonthOf[q] = MonthOf[r] => ~Live(q)

(* Mutant: the query forgets the status.                                   *)
Unmarked_AnyStatus(r) == request[r].adj = None /\ request[r].plan = None /\ ~request[r].same

(* A paid request that no marker says is being recovered, of a month       *)
(* strictly before m: the query of applyAdvanceAutoDeductions.             *)
Unmarked(r) == /\ request[r].status = "paid"
               /\ request[r].adj = None
               /\ request[r].plan = None
               /\ ~request[r].same

(* Mutant: one month late.                                                 *)
Due_OffByOne(m) == {r \in Requests : Unmarked(r) /\ MonthOf[r] < m - 1}

Due(m) == {r \in Requests : Unmarked(r) /\ MonthOf[r] < m}

-----------------------------------------------------------------------------
(* Control of the handlers.                                                *)

At(p, pc) == proc[p].pc = pc

Begin(p, flow, pc, r) ==
  /\ flow \in Flows
  /\ proc[p] = Idle
  /\ proc' = [proc EXCEPT ![p] = [Idle EXCEPT !.flow = flow, !.pc = pc, !.req = r]]

Goto(p, pc) == proc' = [proc EXCEPT ![p].pc = pc]

(* The handler returns or throws: what it had loaded is gone.              *)
Return(p) == proc' = [proc EXCEPT ![p] = Idle]

Init == /\ request = [r \in Requests |-> NoRequest]
        /\ pay = [x \in Payments |-> NoPayment]
        /\ recov = [y \in Recoveries |-> NoRecovery]
        /\ removed = FALSE
        /\ locked = {}
        /\ proc = [p \in Procs |-> Idle]
        /\ crashes = 0

-----------------------------------------------------------------------------
(* Requests: createRequest, approve, reject, markPaid.                     *)

(* createRequest: one insert; the unique index turns a second live request *)
(* of the month into a 409.                                                *)
CreateRequest(r) ==
  /\ request[r].status = "none"
  /\ ~removed
  /\ IndexAllows(r)
  /\ request' = [request EXCEPT ![r].status = "pending"]
  /\ UNCHANGED <<pay, recov, removed, locked, proc, crashes>>

(* approve called by its own route: findOne and the status check.          *)
Approve(p, r) ==
  /\ request[r].status = "pending"
  /\ Begin(p, "approve", "approveSave", r)
  /\ UNCHANGED <<request, pay, recov, removed, locked, crashes>>

(* approve called by approveAndDisburseAdvanceRequest: reads again.        *)
ApproveLoad(p) ==
  /\ At(p, "approveLoad")
  /\ IF request[proc[p].req].status = "pending" THEN Goto(p, "approveSave") ELSE Return(p)
  /\ UNCHANGED <<request, pay, recov, removed, locked, crashes>>

(* request.save() writes the modified fields by _id, whatever the document *)
(* has become since it was read.                                           *)
ApproveSave(p) ==
  LET r == proc[p].req IN
  /\ At(p, "approveSave")
  /\ IF IndexAllows(r)
       THEN /\ request' = [request EXCEPT ![r].status = "approved"]
            /\ IF proc[p].flow = "disburse" THEN Goto(p, "prior") ELSE Return(p)
       ELSE UNCHANGED request /\ Return(p)
  /\ UNCHANGED <<pay, recov, removed, locked, crashes>>

Reject(p, r) ==
  /\ request[r].status = "pending"
  /\ Begin(p, "reject", "rejectSave", r)
  /\ UNCHANGED <<request, pay, recov, removed, locked, crashes>>

RejectSave(p) ==
  /\ At(p, "rejectSave")
  /\ request' = [request EXCEPT ![proc[p].req].status = "rejected"]
  /\ Return(p)
  /\ UNCHANGED <<pay, recov, removed, locked, crashes>>

(* markPaid: findOne and the status check; a request that is no longer     *)
(* approved makes the whole disbursement throw, after the money was paid.  *)
MarkPaidLoad(p) ==
  /\ At(p, "markLoad")
  /\ IF request[proc[p].req].status = "approved" THEN Goto(p, "markSave") ELSE Return(p)
  /\ UNCHANGED <<request, pay, recov, removed, locked, crashes>>

(* Mutant: the plan is not stamped.                                        *)
MarkedPaid_NoPlan(d, h) ==
  [d EXCEPT !.status = "paid", !.payment = h.pay,
            !.adj = IF h.kind = "deduction" THEN h.rec ELSE @,
            !.same = IF h.kind = "same" THEN TRUE ELSE @]

(* markPaid: one save of the status, the payment and the recovery marker   *)
(* of this call; a marker that is not passed is left as it is.             *)
MarkedPaid(d, h) ==
  [d EXCEPT !.status = "paid",
            !.payment = h.pay,
            !.adj  = IF h.kind = "deduction" THEN h.rec ELSE @,
            !.plan = IF h.kind = "plan" THEN h.rec ELSE @,
            !.same = IF h.kind = "same" THEN TRUE ELSE @]

MarkPaidSave(p) ==
  LET r == proc[p].req IN
  /\ At(p, "markSave")
  /\ request' = IF IndexAllows(r)
                  THEN [request EXCEPT ![r] = MarkedPaid(@, proc[p])]
                  ELSE request
  /\ Return(p)
  /\ UNCHANGED <<pay, recov, removed, locked, crashes>>

-----------------------------------------------------------------------------
(* ensureSalaryRecord(month), a subroutine of the disbursements and of     *)
(* payroll generation: its safety net applyAdvanceAutoDeductions.          *)

(* Payroll generation for the member, or for a page that shows the month.  *)
Generate(p, m) ==
  /\ ~removed
  /\ "generate" \in Flows
  /\ proc[p] = Idle
  /\ proc' = [proc EXCEPT ![p] = [Idle EXCEPT !.flow = "generate", !.pc = "scan", !.month = m]]
  /\ UNCHANGED <<request, pay, recov, removed, locked, crashes>>

(* The find of the unmarked paid advances; a locked record returns first.  *)
Scan(p) ==
  LET h == proc[p] IN
  /\ At(p, "scan")
  /\ proc' = [proc EXCEPT ![p] =
       [h EXCEPT !.pc = "deduct", !.todo = IF h.month \in locked THEN {} ELSE Due(h.month)]]
  /\ UNCHANGED <<request, pay, recov, removed, locked, crashes>>

(* adjustment.save() of one advance found.                                 *)
Deduct(p) ==
  /\ At(p, "deduct")
  /\ \E r \in proc[p].todo, y \in Recoveries :
       /\ recov[y] = NoRecovery
       /\ recov' = [recov EXCEPT ![y] = [status |-> "active", kind |-> "auto", req |-> r,
                                         pay |-> None, month |-> proc[p].month]]
       /\ proc' = [proc EXCEPT ![p] = [@ EXCEPT !.pc = "stamp", !.cur = r, !.adj = y]]
  /\ UNCHANGED <<request, pay, removed, locked, crashes>>

(* advance.save() of the marker, the step after.                           *)
Stamp(p) ==
  LET h == proc[p] IN
  /\ At(p, "stamp")
  /\ request' = [request EXCEPT ![h.cur].adj = h.adj]
  /\ proc' = [proc EXCEPT ![p] = [h EXCEPT !.pc = "deduct", !.todo = h.todo \ {h.cur},
                                           !.cur = None, !.adj = None]]
  /\ UNCHANGED <<pay, recov, removed, locked, crashes>>

(* All found advances are deducted: back to the caller.                    *)
DeductDone(p) ==
  LET h == proc[p] IN
  /\ At(p, "deduct")
  /\ h.todo = {}
  /\ CASE h.flow = "generate" -> Return(p)
       [] h.flow # "generate" /\ h.pay = None -> Goto(p, "paySave")
       [] OTHER -> Goto(p, "recover")
  /\ UNCHANGED <<request, pay, recov, removed, locked, crashes>>

-----------------------------------------------------------------------------
(* Disbursement: approveAndDisburseAdvanceRequest, payApprovedAdvance.     *)

(* Steps 1 and 2: load; a paid request is a no-op, a pending one is        *)
(* approved first, an approved one (a retry) goes straight on.             *)
Disburse(p, r) ==
  /\ ~removed
  /\ request[r].status \in {"pending", "approved"}
  /\ Begin(p, "disburse",
           IF request[r].status = "pending" THEN "approveLoad" ELSE "prior", r)
  /\ UNCHANGED <<request, pay, recov, removed, locked, crashes>>

(* Mutants: earlier payments are not looked for; the payment found is run  *)
(* through the recovery step once more.                                    *)
PriorPayment_Ignored(p) ==
  /\ At(p, "prior")
  /\ proc' = [proc EXCEPT ![p] = [@ EXCEPT !.pc = "scan", !.month = MonthOf[proc[p].req]]]
  /\ UNCHANGED <<request, pay, recov, removed, locked, crashes>>
PriorPayment_RecoversAgain(p) ==
  LET prior == {x \in Payments : pay[x].req = proc[p].req /\ pay[x].status = "active"} IN
  /\ At(p, "prior")
  /\ \/ \E x \in prior :
          proc' = [proc EXCEPT ![p] = [@ EXCEPT !.pc = "choose", !.pay = x]]
     \/ prior = {} /\ proc' = [proc EXCEPT ![p] = [@ EXCEPT !.pc = "scan", !.month = MonthOf[proc[p].req]]]
  /\ UNCHANGED <<request, pay, recov, removed, locked, crashes>>

(* The active payment an earlier attempt left is reused: markPaid without  *)
(* a recovery marker.  Without one the salary record is ensured.           *)
PriorPayment(p) ==
  LET r == proc[p].req
      prior == {x \in Payments : pay[x].req = r /\ pay[x].status = "active"}
  IN
  /\ At(p, "prior")
  /\ \/ \E x \in prior :
          proc' = [proc EXCEPT ![p] = [@ EXCEPT !.pc = "markLoad", !.pay = x]]
     \/ /\ prior = {}
        /\ proc' = [proc EXCEPT ![p] = [@ EXCEPT !.pc = "scan", !.month = MonthOf[r]]]
  /\ UNCHANGED <<request, pay, recov, removed, locked, crashes>>

(* payApprovedAdvance: load and the status check, no look at payments.     *)
PayApproved(p, r) ==
  /\ "pay" \in Flows
  /\ ~removed
  /\ request[r].status = "approved"
  /\ proc[p] = Idle
  /\ proc' = [proc EXCEPT ![p] = [Idle EXCEPT !.flow = "pay", !.pc = "scan", !.req = r,
                                              !.month = MonthOf[r]]]
  /\ UNCHANGED <<request, pay, recov, removed, locked, crashes>>

(* payment.save(); the ledger posting that follows never fails the call.   *)
PaySave(p) ==
  /\ At(p, "paySave")
  /\ \E x \in Payments :
       /\ pay[x] = NoPayment
       /\ pay' = [pay EXCEPT ![x] = [status |-> "active", req |-> proc[p].req, rec |-> None]]
       /\ proc' = [proc EXCEPT ![p] = [@ EXCEPT !.pc = "choose", !.pay = x]]
  /\ UNCHANGED <<request, recov, removed, locked, crashes>>

(* How the caller asked for the money back: a plan or a single deduction   *)
(* from month m, or, when payApprovedAdvance is told to start in the       *)
(* request's own month, nothing but the payment itself.                    *)
ChooseRecovery(p) ==
  LET h == proc[p] IN
  /\ At(p, "choose")
  /\ \E m \in Months :
       \/ proc' = [proc EXCEPT ![p] = [h EXCEPT !.pc = "scan", !.kind = "plan", !.month = m]]
       \/ /\ ~(h.flow = "pay" /\ m = MonthOf[h.req])
          /\ proc' = [proc EXCEPT ![p] =
                        [h EXCEPT !.pc = "scan", !.kind = "deduction", !.month = m]]
       \/ /\ h.flow = "pay" /\ m = MonthOf[h.req]
          /\ proc' = [proc EXCEPT ![p] = [h EXCEPT !.pc = "markLoad", !.kind = "same"]]
  /\ UNCHANGED <<request, pay, recov, removed, locked, crashes>>

(* createAdvanceRecoveryDeduction or createAdvanceRecoveryPlan: the        *)
(* recovery is saved even when its month is locked (skipLockCheck).        *)
CreateRecovery(p) ==
  LET h == proc[p] IN
  /\ At(p, "recover")
  /\ \E y \in Recoveries :
       /\ recov[y] = NoRecovery
       /\ recov' = [recov EXCEPT ![y] = [status |-> "active", kind |-> h.kind, req |-> h.req,
                                         pay |-> h.pay, month |-> h.month]]
       /\ proc' = [proc EXCEPT ![p] = [h EXCEPT !.pc = "link", !.rec = y]]
  /\ UNCHANGED <<request, pay, removed, locked, crashes>>

(* createAdvanceRecoveryPlan throws COMPLIANCE_BLOCKED: nothing of the     *)
(* plan is written, the payment stays.                                     *)
ComplianceBlocked(p) ==
  /\ At(p, "recover")
  /\ proc[p].kind = "plan"
  /\ Return(p)
  /\ UNCHANGED <<request, pay, recov, removed, locked, crashes>>

(* Mutant: the link is not saved.                                          *)
LinkRecovery_Skipped(p) ==
  /\ At(p, "link")
  /\ Goto(p, "markLoad")
  /\ UNCHANGED <<request, pay, recov, removed, locked, crashes>>
(* payment.save() with the id of its recovery.                             *)
LinkRecovery(p) ==
  /\ At(p, "link")
  /\ pay' = [pay EXCEPT ![proc[p].pay].rec = proc[p].rec]
  /\ Goto(p, "markLoad")
  /\ UNCHANGED <<request, recov, removed, locked, crashes>>

-----------------------------------------------------------------------------
(* reversePayment, member removal, payroll lock, death of a handler.       *)

(* Load and checks; the recovery id is the one of the document read.       *)
Reverse(p, x) ==
  /\ "reverse" \in Flows
  /\ proc[p] = Idle
  /\ ~removed
  /\ pay[x].status = "active"
  /\ MonthOf[pay[x].req] \notin locked
  /\ proc' = [proc EXCEPT ![p] = [Idle EXCEPT !.flow = "reverse", !.pc = "reverseSave",
                                              !.pay = x, !.rec = pay[x].rec]]
  /\ UNCHANGED <<request, pay, recov, removed, locked, crashes>>

ReverseSave(p) ==
  /\ At(p, "reverseSave")
  /\ pay' = [pay EXCEPT ![proc[p].pay].status = "reversed"]
  /\ IF proc[p].rec = None THEN Return(p) ELSE Goto(p, "unrecover")
  /\ UNCHANGED <<request, recov, removed, locked, crashes>>

(* The deduction, or the plan with its deductions, is reversed.            *)
Unrecover(p) ==
  /\ At(p, "unrecover")
  /\ recov' = [recov EXCEPT ![proc[p].rec].status = "reversed"]
  /\ Return(p)
  /\ UNCHANGED <<request, pay, removed, locked, crashes>>

(* TeamService.remove: the member is archived, then the salary cascade     *)
(* cancels what is pending.  A second call finds the member archived and   *)
(* returns.                                                                *)
RemoveMember(p) ==
  /\ "remove" \in Flows
  /\ proc[p] = Idle
  /\ ~removed
  /\ removed' = TRUE
  /\ proc' = [proc EXCEPT ![p] = [Idle EXCEPT !.flow = "remove", !.pc = "cancel"]]
  /\ UNCHANGED <<request, pay, recov, locked, crashes>>

CancelPending(p) ==
  /\ At(p, "cancel")
  /\ request' = [r \in Requests |-> IF request[r].status = "pending"
                                      THEN [request[r] EXCEPT !.status = "cancelled"]
                                      ELSE request[r]]
  /\ Return(p)
  /\ UNCHANGED <<pay, recov, removed, locked, crashes>>

LockMonth(m) ==
  /\ m \in Lockable \ locked
  /\ locked' = locked \cup {m}
  /\ UNCHANGED <<request, pay, recov, removed, proc, crashes>>

UnlockMonth(m) ==
  /\ m \in locked
  /\ locked' = locked \ {m}
  /\ UNCHANGED <<request, pay, recov, removed, proc, crashes>>

(* The process dies, or a database call fails, between two steps.          *)
Crash(p) ==
  /\ proc[p] # Idle
  /\ crashes < MaxCrashes
  /\ crashes' = crashes + 1
  /\ Return(p)
  /\ UNCHANGED <<request, pay, recov, removed, locked>>

-----------------------------------------------------------------------------
(* One step of a handler that is under way.                                *)
Step(p) ==
  \/ ApproveLoad(p) \/ ApproveSave(p) \/ RejectSave(p)
  \/ MarkPaidLoad(p) \/ MarkPaidSave(p)
  \/ Scan(p) \/ Deduct(p) \/ Stamp(p) \/ DeductDone(p)
  \/ PriorPayment(p) \/ PaySave(p) \/ ChooseRecovery(p)
  \/ CreateRecovery(p) \/ ComplianceBlocked(p) \/ LinkRecovery(p)
  \/ ReverseSave(p) \/ Unrecover(p) \/ CancelPending(p)

Call(p) ==
  \/ \E r \in Requests : Approve(p, r) \/ Reject(p, r) \/ Disburse(p, r) \/ PayApproved(p, r)
  \/ \E m \in Months : Generate(p, m)
  \/ \E x \in Payments : Reverse(p, x)
  \/ RemoveMember(p)

Next ==
  \/ \E r \in Requests : CreateRequest(r)
  \/ \E p \in Procs : Call(p) \/ Step(p) \/ Crash(p)
  \/ \E m \in Months : LockMonth(m) \/ UnlockMonth(m)

Spec == Init /\ [][Next]_vars

(* A handler that was called keeps running; payroll of the last month is   *)
(* generated again and again (the monthly job and the owner's pages).      *)
Fairness == \A p \in Procs : WF_vars(Step(p)) /\ SF_vars(Generate(p, LastMonth))

LiveSpec == Spec /\ Fairness

-----------------------------------------------------------------------------
TypeOK ==
  /\ request \in [Requests -> RequestDoc]
  /\ pay \in [Payments -> PaymentDoc]
  /\ recov \in [Recoveries -> RecoveryDoc]
  /\ removed \in BOOLEAN
  /\ locked \subseteq Months
  /\ proc \in [Procs -> Local]
  /\ crashes \in Nat

-----------------------------------------------------------------------------
(* What holds whatever the handlers do to each other and wherever they die. *)

Paid(r) == {x \in Payments : pay[x].req = r /\ pay[x].status = "active"}
Recovering(r) == {y \in Recoveries : recov[y].req = r /\ recov[y].status = "active"}

(* A deduction is only ever taken from a salary for an advance that was    *)
(* paid out: every handler saves the payment before the recovery, and the  *)
(* safety net looks at paid requests only.                                 *)
RecoveryHasPayout ==
  \A y \in Recoveries : recov[y].status = "active" =>
    \E x \in Payments : pay[x].req = recov[y].req /\ pay[x].status # "none"

(* A request that says paid names a payment made for this very request.    *)
PaidNamesPayment ==
  \A r \in Requests : request[r].status = "paid" =>
    request[r].payment # None /\ pay[request[r].payment].req = r

(* However many calls disburse a request, and however they are retried, no *)
(* single payment is given two explicit recoveries (a plan or a deduction).*)
PaymentRecoveredOnce ==
  \A y, z \in Recoveries :
    recov[y].pay # None /\ recov[y].pay = recov[z].pay => y = z

-----------------------------------------------------------------------------
(* What holds only for some calls, or only one call at a time.             *)

(* No request is paid out twice.                                           *)
SinglePayout == \A r \in Requests : Cardinality(Paid(r)) <= 1

(* No request is recovered twice: when every call ran to its end, the      *)
(* safety net leaves alone what a disbursement has recovered, and the      *)
(* other way round.                                                        *)
RecoveredOnce ==
  crashes = 0 => \A r \in Requests : Cardinality(Recovering(r)) <= 1

(* Once no handler is under way, and none died, no plan or deduction       *)
(* recovers a payment that was reversed.                                   *)
ReversedNotRecovered ==
  crashes = 0 /\ (\A p \in Procs : proc[p] = Idle) =>
    \A y \in Recoveries :
      recov[y].status = "active" /\ recov[y].pay # None => pay[recov[y].pay].status = "active"

(* A paid advance of an earlier month is recovered in the end even when    *)
(* the call that paid it died before it wrote down how.                    *)
PaidIsRecovered ==
  \A r \in Requests :
    (request[r].status = "paid" /\ MonthOf[r] < LastMonth)
      ~> (removed \/ ~Unmarked(r))

=============================================================================

------------------------------ MODULE LeaveRequest ------------------------------
(***************************************************************************)
(* The lifecycle of the leave requests of one member                       *)
(* (src/src/modules/leave/leave-request.service.ts) and the yearly credit  *)
(* (leave-accrual.service.ts), over one bucket of the leave ledger.        *)
(*                                                                         *)
(* A handler is an async function without a transaction: each database     *)
(* call is a step, and its calls of the ledger service are the steps of    *)
(* LeaveLedger.  Days are whole, the leave type draws on the balance and   *)
(* is not comp-off.                                                        *)
(***************************************************************************)
EXTENDS LeaveLedger

CONSTANTS Requests,
          DaysOf,   \* the working days a request asks for
          ChainOf,  \* the length of its approval chain; 0: it approves itself
          Annual,   \* days of the yearly credit
          None

ASSUME RequestAssumption ==
  /\ IsFiniteSet(Requests)
  /\ DaysOf \in [Requests -> SUBSET Nat]
  /\ \A r \in Requests : IsFiniteSet(DaysOf[r])
  /\ ChainOf \in [Requests -> Nat]
  /\ Annual \in Nat \ {0}
  /\ None \notin Requests

VARIABLES request,    \* LeaveRequest documents
          event,      \* their STATUS_SET events in the attendance log
          locked,     \* the payroll of the months in question is locked
          handler,    \* local state of the handlers
          clashed     \* history: requests whose handlers got in each other's way, or died

rvars == <<ledger, balance, call, crashes, request, event, locked, handler, clashed>>
store == <<ledger, balance, crashes>>

Status == {"none", "pending", "approved", "rejected", "cancelled", "withdrawn"}
Flows == {"apply", "approve", "reject", "cancel", "withdraw", "credit"}

RequestDoc == [status : Status, level : Nat, paid : Nat, eventIds : BOOLEAN]
NoRequest == [status |-> "none", level |-> 1, paid |-> 0, eventIds |-> FALSE]

Points == {"idle", "readBalance", "insert", "reserving", "decide", "refuse", "releasing",
           "posting", "settling", "project", "saveIds", "cancelSave", "reversing", "void",
           "withdrawSave", "crediting"}

(* What a handler has read of the request it works on.                     *)
Local == [flow : Flows \cup {"none"}, pc : Points, req : Requests \cup {None}, doc : RequestDoc]
Rest == [flow |-> "none", pc |-> "idle", req |-> None, doc |-> NoRequest]

Usage(r)    == [type |-> "usage", quantity |-> - request[r].paid, ref |-> r]
Reversal(r) == [type |-> "usage_reversal", quantity |-> request[r].paid, ref |-> r]
Accrual     == [type |-> "accrual", quantity |-> Annual, ref |-> None]

Length(r) == Cardinality(DaysOf[r])

-----------------------------------------------------------------------------
(* Control of the handlers.                                                *)

On(p, pc) == handler[p].pc = pc
Busy(p) == handler[p] # Rest

(* Handlers that leave each other's request as it must be: approvals and   *)
(* rejections compare and set, and the end of an application commutes.     *)
Compatible(f, g) == \/ {f, g} \subseteq {"apply", "approve", "reject"}
                    \/ {f, g} = {"apply", "cancel"}

Begin(p, flow, pc, r, doc) ==
  /\ ~Busy(p)
  /\ handler' = [handler EXCEPT ![p] = [flow |-> flow, pc |-> pc, req |-> r, doc |-> doc]]
  /\ clashed' = IF \E q \in Callers : handler[q].req = r /\ ~Compatible(flow, handler[q].flow)
                  THEN clashed \cup ({r} \ {None}) ELSE clashed

Goto(p, pc) == handler' = [handler EXCEPT ![p].pc = pc]

(* It returns or throws; what it and its call remembered is gone.          *)
Return(p) == handler' = [handler EXCEPT ![p] = Rest] /\ Put(p, Idle)

(* The handler calls the ledger service, and goes on when the call is done. *)
Calls(p, h, pc) == Put(p, h) /\ Goto(p, pc)
Served(p, pc) == On(p, pc) /\ At(p, "done")

RequestInit ==
  /\ Init
  /\ request = [r \in Requests |-> NoRequest]
  /\ event = [r \in Requests |-> "none"]
  /\ locked = FALSE
  /\ handler = [p \in Callers |-> Rest]
  /\ clashed = {}

-----------------------------------------------------------------------------
(* finalizeApprovedRequest.                                                *)

(* Its first call: the usage entry, or nothing to charge.                  *)
Finalize(p, r) ==
  IF request[r].paid > 0 THEN Calls(p, Appending(Usage(r)), "posting")
                         ELSE Goto(p, "project") /\ UNCHANGED call

(* The entry is posted: the reservation is released.                       *)
Posted(p) ==
  /\ Served(p, "posting")
  /\ Calls(p, Adjusting(- request[handler[p].req].paid), "settling")
  /\ UNCHANGED <<store, request, event, locked, clashed>>

Settle(p) ==
  /\ Served(p, "settling")
  /\ Goto(p, "project")
  /\ UNCHANGED <<store, call, request, event, locked, clashed>>

(* createEvent of each day charged, with the recompute of the day.         *)
Project(p) ==
  /\ On(p, "project")
  /\ event' = [event EXCEPT ![handler[p].req] = "live"]
  /\ Goto(p, "saveIds")
  /\ UNCHANGED <<store, call, request, locked, clashed>>

(* Mutant: the ids of the events are not saved.                            *)
SaveIds_Lost(p) ==
  /\ On(p, "saveIds")
  /\ Return(p)
  /\ UNCHANGED <<store, request, event, locked, clashed>>

(* request.save() of the ids.                                              *)
SaveIds(p) ==
  /\ On(p, "saveIds")
  /\ request' = [request EXCEPT ![handler[p].req].eventIds = TRUE]
  /\ Return(p)
  /\ UNCHANGED <<store, event, locked, clashed>>

-----------------------------------------------------------------------------
(* applyForLeave.                                                          *)

(* A pending or approved request touches a day of r.                       *)
Booked(r) ==
  \E q \in Requests : request[q].status \in {"pending", "approved"} /\ DaysOf[q] \cap DaysOf[r] # {}

(* The payroll lock and the overlap guard.                                 *)
Apply(p, r) ==
  /\ request[r].status = "none"
  /\ \A q \in Callers : handler[q].req # r
  /\ ~locked
  /\ ~Booked(r)
  /\ Begin(p, "apply", "readBalance", r, NoRequest)
  /\ UNCHANGED <<store, call, request, event, locked>>

(* decomposePaidLwp: paid as far as the balance goes, the rest unpaid.     *)
Decompose(p) ==
  LET h == handler[p]
      covered == IF balance.available > 0 THEN balance.available ELSE 0
  IN
  /\ On(p, "readBalance")
  /\ handler' = [handler EXCEPT ![p].pc = "insert",
                   ![p].doc.paid = IF covered < Length(h.req) THEN covered ELSE Length(h.req)]
  /\ UNCHANGED <<store, call, request, event, locked, clashed>>

(* create, pending or, with an empty chain, approved.                      *)
Insert(p) ==
  LET r == handler[p].req
      paid == handler[p].doc.paid
  IN
  /\ On(p, "insert")
  /\ request' = [request EXCEPT ![r].status = IF ChainOf[r] = 0 THEN "approved" ELSE "pending",
                                ![r].paid = paid]
  /\ IF paid > 0 THEN Calls(p, Adjusting(paid), "reserving")
     ELSE IF ChainOf[r] = 0 THEN Goto(p, "project") /\ UNCHANGED call ELSE Return(p)
  /\ UNCHANGED <<store, event, locked, clashed>>

(* The paid days are reserved.                                             *)
Reserve(p) ==
  LET r == handler[p].req IN
  /\ Served(p, "reserving")
  /\ IF ChainOf[r] = 0 THEN Finalize(p, r) ELSE Return(p)
  /\ UNCHANGED <<store, request, event, locked, clashed>>

-----------------------------------------------------------------------------
(* approveRequest and rejectRequest: read, then compare and set.           *)

Final(doc, r) == doc.level >= ChainOf[r]

(* The document is read; a final approval also asks for the payroll lock.  *)
Approve(p, r) ==
  /\ request[r].status = "pending"
  /\ Final(request[r], r) => ~locked
  /\ Begin(p, "approve", "decide", r, request[r])
  /\ UNCHANGED <<store, call, request, event, locked>>

(* Mutant: the update is not conditional.                                  *)
Undecided_Always(h) == TRUE

(* The condition of findOneAndUpdate.                                      *)
Undecided(h) == request[h.req].status = "pending" /\ request[h.req].level = h.doc.level

Decide(p) ==
  LET h == handler[p] IN
  /\ On(p, "decide")
  /\ Undecided(h)
  /\ IF Final(h.doc, h.req)
       THEN /\ request' = [request EXCEPT ![h.req].status = "approved"]
            /\ Finalize(p, h.req)
       ELSE /\ request' = [request EXCEPT ![h.req].level = @ + 1]
            /\ Return(p)
  /\ UNCHANGED <<store, event, locked, clashed>>

Reject(p, r) ==
  /\ request[r].status = "pending"
  /\ Begin(p, "reject", "refuse", r, request[r])
  /\ UNCHANGED <<store, call, request, event, locked>>

(* releasePending, the last call of a rejection and of a cancellation.     *)
Release(p) ==
  LET paid == handler[p].doc.paid IN
  IF paid > 0 THEN Calls(p, Adjusting(- paid), "releasing") ELSE Return(p)

(* Mutant: the verdict is saved whatever the status has become.            *)
Refuse_Unconditional(p) ==
  /\ On(p, "refuse")
  /\ request' = [request EXCEPT ![handler[p].req].status = "rejected"]
  /\ Release(p)
  /\ UNCHANGED <<store, event, locked, clashed>>

Refuse(p) ==
  /\ On(p, "refuse")
  /\ Undecided(handler[p])
  /\ request' = [request EXCEPT ![handler[p].req].status = "rejected"]
  /\ Release(p)
  /\ UNCHANGED <<store, event, locked, clashed>>

(* Already decided by a concurrent action: a 409.                          *)
Conflict(p) ==
  /\ handler[p].pc \in {"decide", "refuse"}
  /\ ~Undecided(handler[p])
  /\ Return(p)
  /\ UNCHANGED <<store, request, event, locked, clashed>>

Released(p) ==
  /\ Served(p, "releasing")
  /\ Return(p)
  /\ UNCHANGED <<store, request, event, locked, clashed>>

-----------------------------------------------------------------------------
(* cancelRequest and withdrawRequest, by the applicant: read, then save.   *)

Cancel(p, r) ==
  /\ request[r].status = "pending"
  /\ request[r].level = 1
  /\ Begin(p, "cancel", "cancelSave", r, request[r])
  /\ UNCHANGED <<store, call, request, event, locked>>

(* save() writes the status, whatever it has become.                       *)
CancelSave(p) ==
  /\ On(p, "cancelSave")
  /\ request' = [request EXCEPT ![handler[p].req].status = "cancelled"]
  /\ Release(p)
  /\ UNCHANGED <<store, event, locked, clashed>>

(* The document and the payroll lock are read; what was used is reversed.  *)
Withdraw(p, r) ==
  /\ request[r].status = "approved"
  /\ ~locked
  /\ Begin(p, "withdraw", IF request[r].paid > 0 THEN "reversing" ELSE "void", r, request[r])
  /\ IF request[r].paid > 0
       THEN Put(p, Appending(Reversal(r)))
       ELSE UNCHANGED call
  /\ UNCHANGED <<store, request, event, locked>>

Reversed(p) ==
  /\ Served(p, "reversing")
  /\ Goto(p, "void")
  /\ UNCHANGED <<store, call, request, event, locked, clashed>>

(* voidEvent of the events whose ids the document had when it was read.    *)
Void(p) ==
  LET h == handler[p] IN
  /\ On(p, "void")
  /\ event' = IF h.doc.eventIds THEN [event EXCEPT ![h.req] = "void"] ELSE event
  /\ Goto(p, "withdrawSave")
  /\ UNCHANGED <<store, call, request, locked, clashed>>

WithdrawSave(p) ==
  /\ On(p, "withdrawSave")
  /\ request' = [request EXCEPT ![handler[p].req].status = "withdrawn"]
  /\ Return(p)
  /\ UNCHANGED <<store, event, locked, clashed>>

-----------------------------------------------------------------------------
(* The yearly credit, and the environment.                                 *)

(* The count of the accrual entries of the year.                           *)
Uncredited == \A d \in ledger : d.entry.type # "accrual"

(* accrueUpfront, by the daily job.                                        *)
Credit(p) ==
  /\ Uncredited
  /\ Begin(p, "credit", "crediting", None, NoRequest)
  /\ Put(p, Appending(Accrual))
  /\ UNCHANGED <<store, request, event, locked>>

Credited(p) ==
  /\ Served(p, "crediting")
  /\ Return(p)
  /\ UNCHANGED <<store, request, event, locked, clashed>>

(* The requests that handlers work on.                                     *)
Underway == {handler[p].req : p \in Callers} \ {None}

(* The owner locks the payroll of the month.                               *)
LockPayroll ==
  /\ ~locked
  /\ locked' = TRUE
  /\ clashed' = clashed \cup Underway
  /\ UNCHANGED <<store, call, request, event, handler>>

Cut(p) == clashed' = clashed \cup ({handler[p].req} \ {None})

(* The call of the ledger was refused: the handler throws.                 *)
Abort(p) ==
  /\ Busy(p) /\ At(p, "failed")
  /\ Return(p) /\ Cut(p)
  /\ UNCHANGED <<store, request, event, locked>>

(* The process dies between two steps.                                     *)
Die(p) ==
  /\ Busy(p)
  /\ crashes < MaxCrashes
  /\ crashes' = crashes + 1
  /\ Return(p) /\ Cut(p)
  /\ UNCHANGED <<ledger, balance, request, event, locked>>

Serve(p) ==
  /\ Busy(p)
  /\ LedgerStep(p)
  /\ UNCHANGED <<request, event, locked, handler, clashed>>

HandlerStep(p) ==
  \/ Decompose(p) \/ Insert(p) \/ Reserve(p)
  \/ Decide(p) \/ Refuse(p) \/ Conflict(p) \/ Released(p)
  \/ Posted(p) \/ Settle(p) \/ Project(p) \/ SaveIds(p)
  \/ CancelSave(p) \/ Reversed(p) \/ Void(p) \/ WithdrawSave(p)
  \/ Credited(p)

RequestNext ==
  \/ \E p \in Callers :
       \/ HandlerStep(p) \/ Serve(p) \/ Credit(p) \/ Abort(p) \/ Die(p)
       \/ \E r \in Requests : \/ Apply(p, r) \/ Approve(p, r) \/ Reject(p, r)
                              \/ Cancel(p, r) \/ Withdraw(p, r)
  \/ LockPayroll

RequestSpec == RequestInit /\ [][RequestNext]_rvars

-----------------------------------------------------------------------------
RequestTypeOK ==
  /\ request \in [Requests -> RequestDoc]
  /\ event \in [Requests -> {"none", "live", "void"}]
  /\ locked \in BOOLEAN
  /\ handler \in [Callers -> Local]
  /\ clashed \subseteq Requests

AllRest == \A p \in Callers : ~Busy(p)

Posts(r, type) == {d \in ledger : d.entry.ref = r /\ d.entry.type = type}

(* The days of a request are charged once at most, whichever handlers race *)
(* for it and wherever they die: approvals compare and set.                *)
UsageOnce == \A r \in Requests : Cardinality(Posts(r, "usage")) <= 1

(* A verdict stands: whoever decides second is told so, and an approved    *)
(* request is only ever withdrawn.                                         *)
VerdictStands ==
  [][\A r \in Requests \ clashed' :
       /\ request[r].status \in {"rejected", "cancelled", "withdrawn"}
            => request'[r].status = request[r].status
       /\ request[r].status = "approved" => request'[r].status \in {"approved", "withdrawn"}]_rvars

(* When nothing is under way, a request whose handlers neither died nor    *)
(* clashed has cost its paid days exactly if it is approved, and its days  *)
(* are marked in the attendance exactly then.                              *)
Used(r) == Posts(r, "usage") \cup Posts(r, "usage_reversal")
NetUsed(r) == Sum([d \in Used(r) |-> - d.entry.quantity], Used(r))

Settled ==
  AllRest => \A r \in Requests \ clashed :
    /\ NetUsed(r) = IF request[r].status = "approved" THEN request[r].paid ELSE 0
    /\ event[r] = "live" <=> request[r].status = "approved"

(* The days reserved are those of the pending requests.                    *)
PendingIsReserved ==
  AllRest /\ clashed = {} =>
    balance.pending = Sum([r \in Requests |-> IF request[r].status = "pending"
                                              THEN request[r].paid ELSE 0], Requests)

(* The books agree with the requests: usage entries, attendance events and  *)
(* the reservation are what the statuses say, although each is written by a *)
(* step of its own.                                                         *)
BooksAgree == Settled /\ PendingIsReserved

-----------------------------------------------------------------------------
(* What holds when handlers come one after the other.                      *)

(* A year is credited once, even if the job dies half way and runs again.  *)
CreditedOnce == Cardinality({d \in ledger : d.entry.type = "accrual"}) <= 1

(* What handlers that came to their end leave behind is the fold of the    *)
(* ledger, and never below zero: days beyond the credit are unpaid.        *)
BalanceIsFold == crashes = 0 /\ AllRest => Current /\ balance.available >= 0

AccountKept == CreditedOnce /\ BalanceIsFold
=============================================================================

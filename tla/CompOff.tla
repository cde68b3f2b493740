-------------------------------- MODULE CompOff --------------------------------
(***************************************************************************)
(* Compensatory leave of one member (src/src/modules/leave:                *)
(* comp-off-request.service.ts, comp-off.service.ts, the comp-off branches *)
(* of leave-request.service.ts, leave-maintenance.cron.ts).  A claim for a *)
(* day worked, once approved, mints a lot of half days with an expiry;     *)
(* leave draws the lots, oldest expiry first; withdrawn leave gives them   *)
(* back; a daily job lapses what is left of an expired lot.                *)
(*                                                                         *)
(* A lot goes by the name of its claim.  Entries are posted to the ledger  *)
(* in one step, as LeaveAccount promises, and kept as sums.  Claims and    *)
(* leave requests are approved by the same code, written twice.            *)
(***************************************************************************)
EXTENDS Integers, FiniteSets, FiniteSetsExt

CONSTANTS Claims, Leaves, Callers, None,
          WorkDay,    \* the day that a claim is for
          Worth,      \* half days of a claim
          LeaveDay,   \* first day of a leave
          Length,     \* half days of a leave
          ChainOf,    \* approvers of a claim or leave; 0: approves itself
          Validity,   \* validityDays
          RetroDays,  \* retroMaxDaysBack
          YearDays,   \* days of a calendar year
          MaxDay,     \* bound on the days that pass
          MaxCrashes  \* bound on handlers cut short

Requests == Claims \cup Leaves

ASSUME RequestsAssumption == Claims \cap Leaves = {} /\ None \notin Requests
ASSUME FiniteAssumption == IsFiniteSet(Claims) /\ IsFiniteSet(Leaves) /\ IsFiniteSet(Callers)
ASSUME ShapeAssumption == /\ WorkDay \in [Claims -> Nat] /\ Worth \in [Claims -> Nat \ {0}]
                          /\ LeaveDay \in [Leaves -> Nat] /\ Length \in [Leaves -> Nat \ {0}]
                          /\ ChainOf \in [Requests -> Nat]
ASSUME BoundAssumption == /\ Validity \in Nat /\ RetroDays \in Nat /\ YearDays \in Nat \ {0}
                          /\ MaxDay \in Nat /\ MaxCrashes \in Nat

VARIABLES day,
          request,  \* CompOffRequest and LeaveRequest documents
          lot,      \* lotRemaining of the lots
          posted,   \* what was posted to the ledger, by type of entry
          pending,  \* half days reserved in the bucket of a year
          handler,  \* local state of the handlers and of the job
          crashes

docs == <<request, lot, posted, pending>>
vars == <<day, docs, handler, crashes>>

-----------------------------------------------------------------------------
(* Documents.                                                              *)

Nothing == [c \in Claims |-> 0]

NoRequest == [status |-> "none", level |-> 1, paid |-> 0, drawn |-> Nothing]

Year(d) == d \div YearDays
Years == {Year(d) : d \in {WorkDay[c] : c \in Claims} \cup {LeaveDay[l] : l \in Leaves}}

Expires(c) == WorkDay[c] + Validity

Minted == {c \in Claims : posted.credit[c] > 0}

Sum(f, S) == MapThenSumSet(LAMBDA x : f[x], S)

(* What leaves used of a lot, less what was given back.                    *)
NetUsed(c) == Sum([l \in Leaves |-> posted.usage[l][c] - posted.reversal[l][c]], Leaves)

(* What the ledger says is left of a lot.                                  *)
Explained(c) == posted.credit[c] - NetUsed(c) - posted.expiry[c]

(* available of the bucket of year y.                                      *)
Available(y) ==
  Sum([c \in Claims |-> Explained(c)], {c \in Claims : Year(WorkDay[c]) = y}) - pending[y]

(* The lots that may be drawn, and what they hold.                         *)
Live == {c \in Minted : Expires(c) > day /\ lot[c] > 0}
Spendable == Sum(lot, Live)

(* Mutant: a lot may give more than it holds.                              *)
Fifo_Uncapped(a, quantity) ==
  /\ \A c \in Claims \ Live : a[c] = 0
  /\ Sum(a, Claims) = quantity
  /\ \A b, c \in Live : a[c] > 0 => Expires(c) <= Expires(b)

(* allocateFifo without a shortfall: a lot is touched when those before it *)
(* are empty; lots of one expiry come in either order.                     *)
Fifo(a, quantity) ==
  /\ \A c \in Claims : a[c] <= IF c \in Live THEN lot[c] ELSE 0
  /\ Sum(a, Claims) = quantity
  /\ \A b, c \in Live :
       a[c] > 0 => /\ Expires(b) < Expires(c) => a[b] = lot[b]
                   /\ Expires(b) = Expires(c) /\ a[b] > 0 => a[b] = lot[b] \/ a[c] = lot[c]

Allocations(quantity) == {a \in [Claims -> 0 .. quantity] : Fifo(a, quantity)}

-----------------------------------------------------------------------------
(* Control of the handlers.                                                *)

Rest == [pc |-> "rest", req |-> None, doc |-> NoRequest, plan |-> Nothing, lot |-> None, asOf |-> 0]

Job == {"lapse", "zero"}
Drawing == {"draw", "charge"}
Steps == {"rest", "claimInsert", "decide", "refuse", "cancelSave", "mint", "leaveInsert", "reserve",
          "consume", "settle", "save", "release", "restore", "unuse", "withdrawSave"}
         \cup Job \cup Drawing

Init == /\ day = 0
        /\ request = [r \in Requests |-> NoRequest]
        /\ lot = Nothing
        /\ posted = [credit |-> Nothing, expiry |-> Nothing,
                     usage |-> [l \in Leaves |-> Nothing], reversal |-> [l \in Leaves |-> Nothing]]
        /\ pending = [y \in Years |-> 0]
        /\ handler = [p \in Callers |-> Rest]
        /\ crashes = 0

On(p, pc) == handler[p].pc = pc

Begin(p, pc, r, doc) ==
  /\ On(p, "rest")
  /\ handler' = [handler EXCEPT ![p].pc = pc, ![p].req = r, ![p].doc = doc]
  /\ UNCHANGED <<day, docs, crashes>>

Goto(p, pc) == handler' = [handler EXCEPT ![p].pc = pc] /\ UNCHANGED <<day, crashes>>
Return(p) == handler' = [handler EXCEPT ![p] = Rest] /\ UNCHANGED <<day, crashes>>

IsNew(r) == request[r].status = "none" /\ \A q \in Callers : handler[q].req # r

Status(r) == IF ChainOf[r] = 0 THEN "approved" ELSE "pending"

(* The year whose bucket a leave is reserved in.                           *)
BucketOf(l) == Year(LeaveDay[l])

-----------------------------------------------------------------------------
(* applyForCompOff.                                                        *)

(* A live claim for the day worked.                                        *)
Claimed(d) == \E b \in Claims : WorkDay[b] = d /\ request[b].status \in {"pending", "approved"}

ApplyClaim(p, c) ==
  /\ IsNew(c)
  /\ WorkDay[c] <= day
  /\ day - WorkDay[c] <= RetroDays
  /\ ~Claimed(WorkDay[c])
  /\ Begin(p, "claimInsert", c, NoRequest)

(* create, approved if there is nobody to ask.                             *)
InsertClaim(p) ==
  LET c == handler[p].req IN
  /\ On(p, "claimInsert")
  /\ request' = [request EXCEPT ![c].status = Status(c)]
  /\ IF ChainOf[c] = 0 THEN Goto(p, "mint") ELSE Return(p)
  /\ UNCHANGED <<lot, posted, pending>>

(* creditCompOff: the entry of the credit is the lot.                      *)
Mint(p) ==
  LET c == handler[p].req IN
  /\ On(p, "mint")
  /\ posted' = [posted EXCEPT !.credit[c] = @ + Worth[c]]
  /\ lot' = [lot EXCEPT ![c] = @ + Worth[c]]
  /\ Return(p)
  /\ UNCHANGED <<request, pending>>

-----------------------------------------------------------------------------
(* applyForLeave of the comp-off type.                                     *)

(* decomposePaidLwp: paid as far as the balance of the year goes.          *)
ApplyLeave(p, l) ==
  LET covered == IF Available(BucketOf(l)) > 0 THEN Available(BucketOf(l)) ELSE 0 IN
  /\ IsNew(l)
  /\ Begin(p, "leaveInsert", l,
           [NoRequest EXCEPT !.paid = IF covered < Length[l] THEN covered ELSE Length[l]])

InsertLeave(p) ==
  LET l == handler[p].req IN
  /\ On(p, "leaveInsert")
  /\ request' = [request EXCEPT ![l].status = Status(l), ![l].paid = handler[p].doc.paid]
  /\ IF handler[p].doc.paid > 0 THEN Goto(p, "reserve") ELSE Return(p)
  /\ UNCHANGED <<lot, posted, pending>>

(* The paid days are reserved; a leave that approves itself is finalised.  *)
Reserve(p) ==
  LET l == handler[p].req IN
  /\ On(p, "reserve")
  /\ pending' = [pending EXCEPT ![BucketOf(l)] = @ + handler[p].doc.paid]
  /\ IF ChainOf[l] = 0 THEN Goto(p, "consume") ELSE Return(p)
  /\ UNCHANGED <<request, lot, posted>>

-----------------------------------------------------------------------------
(* approveRequest, rejectRequest and cancelRequest of claims and leaves.   *)

Final(doc, r) == doc.level >= ChainOf[r]

(* assertConsumable.                                                       *)
Consumable(r) == r \in Leaves => Spendable >= request[r].paid

Approve(p, r) ==
  /\ request[r].status = "pending"
  /\ Final(request[r], r) => Consumable(r)
  /\ Begin(p, "decide", r, request[r])

(* Mutant: the update asks for nothing.                                    *)
Undecided_Always(h) == TRUE

(* The condition of findOneAndUpdate.                                      *)
Undecided(h) == request[h.req].status = "pending" /\ request[h.req].level = h.doc.level

Decide(p) ==
  LET h == handler[p] IN
  /\ On(p, "decide")
  /\ Undecided(h)
  /\ IF Final(h.doc, h.req)
       THEN /\ request' = [request EXCEPT ![h.req].status = "approved"]
            /\ IF h.req \in Claims THEN Goto(p, "mint")
               ELSE IF h.doc.paid > 0 THEN Goto(p, "consume") ELSE Return(p)
       ELSE /\ request' = [request EXCEPT ![h.req].level = @ + 1]
            /\ Return(p)
  /\ UNCHANGED <<lot, posted, pending>>

Reject(p, r) ==
  /\ request[r].status = "pending"
  /\ Begin(p, "refuse", r, request[r])

(* releasePending follows for leave that was to be paid.                   *)
ThenRelease(p) == IF handler[p].doc.paid > 0 THEN Goto(p, "release") ELSE Return(p)

Refuse(p) ==
  /\ On(p, "refuse")
  /\ Undecided(handler[p])
  /\ request' = [request EXCEPT ![handler[p].req].status = "rejected"]
  /\ ThenRelease(p)
  /\ UNCHANGED <<lot, posted, pending>>

(* Decided by a concurrent action: a 409.                                  *)
Conflict(p) ==
  /\ handler[p].pc \in {"decide", "refuse"}
  /\ ~Undecided(handler[p])
  /\ Return(p)
  /\ UNCHANGED docs

Cancel(p, r) ==
  /\ request[r].status = "pending"
  /\ request[r].level = 1
  /\ Begin(p, "cancelSave", r, request[r])

(* save() writes the status, whatever it has become.                       *)
CancelSave(p) ==
  /\ On(p, "cancelSave")
  /\ request' = [request EXCEPT ![handler[p].req].status = "cancelled"]
  /\ ThenRelease(p)
  /\ UNCHANGED <<lot, posted, pending>>

Release(p) ==
  /\ On(p, "release")
  /\ pending' = [pending EXCEPT ![BucketOf(handler[p].req)] = @ - handler[p].doc.paid]
  /\ Return(p)
  /\ UNCHANGED <<request, lot, posted>>

-----------------------------------------------------------------------------
(* consumeCompOffFifo and the rest of the finalisation.                    *)

(* The live lots are read and allocated.                                   *)
Consume(p) ==
  /\ On(p, "consume")
  /\ \E a \in Allocations(handler[p].doc.paid) :
       handler' = [handler EXCEPT ![p].pc = "draw", ![p].plan = a, ![p].asOf = day]
  /\ UNCHANGED <<day, docs, crashes>>

(* They do not cover it: the handler throws.                               *)
Short(p) ==
  /\ On(p, "consume")
  /\ Spendable < handler[p].doc.paid
  /\ Return(p)
  /\ UNCHANGED docs

Left(h) == {c \in Claims : h.plan[c] > 0}

(* The next lot of the loop.                                               *)
IsFirst(c, h) == c \in Left(h) /\ \A b \in Left(h) : Expires(c) <= Expires(b)

(* $inc of the remaining days.                                             *)
Draw(p) ==
  LET h == handler[p] IN
  /\ On(p, "draw")
  /\ \E c \in Claims :
       /\ IsFirst(c, h)
       /\ lot' = [lot EXCEPT ![c] = @ - h.plan[c]]
       /\ handler' = [handler EXCEPT ![p].pc = "charge", ![p].lot = c]
  /\ UNCHANGED <<day, request, posted, pending, crashes>>

(* Where a loop goes when lot c is done.                                   *)
Advance(p, pc, next) ==
  LET h == handler[p] IN
  /\ handler' = [handler EXCEPT ![p] =
                   [h EXCEPT !.plan[h.lot] = 0, !.lot = None,
                             !.pc = IF Left(h) = {h.lot} THEN next ELSE pc]]
  /\ UNCHANGED <<day, crashes>>

(* The usage entry of the lot; the draw will be saved with the leave.      *)
Charge(p) ==
  LET h == handler[p] IN
  /\ On(p, "charge")
  /\ posted' = [posted EXCEPT !.usage[h.req][h.lot] = @ + h.plan[h.lot]]
  /\ handler' = [handler EXCEPT ![p] =
                   [h EXCEPT !.plan[h.lot] = 0, !.lot = None, !.doc.drawn[h.lot] = h.plan[h.lot],
                             !.pc = IF Left(h) = {h.lot} THEN "settle" ELSE "draw"]]
  /\ UNCHANGED <<day, request, lot, pending, crashes>>

(* The reservation is released.                                            *)
Settle(p) ==
  /\ On(p, "settle")
  /\ pending' = [pending EXCEPT ![BucketOf(handler[p].req)] = @ - handler[p].doc.paid]
  /\ Goto(p, "save")
  /\ UNCHANGED <<request, lot, posted>>

(* request.save() of compOffConsumption.                                   *)
Save(p) ==
  /\ On(p, "save")
  /\ request' = [request EXCEPT ![handler[p].req].drawn = handler[p].doc.drawn]
  /\ Return(p)
  /\ UNCHANGED <<lot, posted, pending>>

-----------------------------------------------------------------------------
(* withdrawRequest and reverseConsumption.                                 *)

Withdraw(p, l) ==
  /\ request[l].status = "approved"
  /\ On(p, "rest")
  /\ handler' = [handler EXCEPT ![p].pc = IF request[l].drawn = Nothing THEN "withdrawSave" ELSE "restore",
                                ![p].req = l, ![p].doc = request[l], ![p].plan = request[l].drawn]
  /\ UNCHANGED <<day, docs, crashes>>

(* $inc of the lots that were drawn, in the order of the draw.             *)
Restore(p) ==
  LET h == handler[p] IN
  /\ On(p, "restore")
  /\ \E c \in Claims :
       /\ IsFirst(c, h)
       /\ lot' = [lot EXCEPT ![c] = @ + h.plan[c]]
       /\ handler' = [handler EXCEPT ![p].pc = "unuse", ![p].lot = c]
  /\ UNCHANGED <<day, request, posted, pending, crashes>>

(* The usage_reversal entry of the lot.                                    *)
Unuse(p) ==
  LET h == handler[p] IN
  /\ On(p, "unuse")
  /\ posted' = [posted EXCEPT !.reversal[h.req][h.lot] = @ + h.plan[h.lot]]
  /\ Advance(p, "restore", "withdrawSave")
  /\ UNCHANGED <<request, lot, pending>>

WithdrawSave(p) ==
  /\ On(p, "withdrawSave")
  /\ request' = [request EXCEPT ![handler[p].req].status = "withdrawn"]
  /\ Return(p)
  /\ UNCHANGED <<lot, posted, pending>>

-----------------------------------------------------------------------------
(* expireCompOffLots, the daily job.                                       *)

(* Mutant: lots that were drawn are passed over.                           *)
Stale_Whole == {c \in Minted : Expires(c) <= day /\ lot[c] = Worth[c]}

(* Lots past their validity with days left.                                *)
Stale == {c \in Minted : Expires(c) <= day /\ lot[c] > 0}

(* One job at a time.  It comes hours after the change of the day: calls   *)
(* that read the lots before then have ended.                              *)
JobMayRun == \A q \in Callers : /\ handler[q].pc \notin Job
                                /\ handler[q].pc \in Drawing => handler[q].asOf = day

Expire(p) ==
  /\ On(p, "rest")
  /\ JobMayRun
  /\ Stale # {}
  /\ handler' = [handler EXCEPT ![p].pc = "lapse",
                   ![p].plan = [c \in Claims |-> IF c \in Stale THEN lot[c] ELSE 0]]
  /\ UNCHANGED <<day, docs, crashes>>

(* The comp_off_expiry entry of a lot, for the days it had when it was read. *)
Lapse(p) ==
  LET h == handler[p] IN
  /\ On(p, "lapse")
  /\ \E c \in Left(h) :
       /\ posted' = [posted EXCEPT !.expiry[c] = @ + h.plan[c]]
       /\ handler' = [handler EXCEPT ![p].pc = "zero", ![p].lot = c]
  /\ UNCHANGED <<day, request, lot, pending, crashes>>

(* Mutant: the lot is left as it is.                                       *)
Zero_Not(p) ==
  /\ On(p, "zero")
  /\ Advance(p, "lapse", "rest")
  /\ UNCHANGED docs

(* $set of the remaining days.                                             *)
Zero(p) ==
  /\ On(p, "zero")
  /\ lot' = [lot EXCEPT ![handler[p].lot] = 0]
  /\ Advance(p, "lapse", "rest")
  /\ UNCHANGED <<request, posted, pending>>

(* A call of the loop throws: the lot is left for the next run.            *)
Skip(p) ==
  LET h == handler[p] IN
  /\ h.pc \in Job
  /\ crashes < MaxCrashes
  /\ crashes' = crashes + 1
  /\ \E c \in IF h.pc = "zero" THEN {h.lot} ELSE Left(h) :
       handler' = [handler EXCEPT ![p] = [h EXCEPT !.plan[c] = 0, !.lot = None,
                                            !.pc = IF Left(h) = {c} THEN "rest" ELSE "lapse"]]
  /\ UNCHANGED <<day, docs>>

-----------------------------------------------------------------------------
(* Time, and a process that dies or a call that throws between two steps.  *)

Tick == day < MaxDay /\ day' = day + 1 /\ UNCHANGED <<docs, handler, crashes>>

Die(p) ==
  /\ ~On(p, "rest")
  /\ crashes < MaxCrashes
  /\ crashes' = crashes + 1
  /\ handler' = [handler EXCEPT ![p] = Rest]
  /\ UNCHANGED <<day, docs>>

HandlerStep(p) ==
  \/ InsertClaim(p) \/ Mint(p) \/ InsertLeave(p) \/ Reserve(p)
  \/ Decide(p) \/ Refuse(p) \/ Conflict(p) \/ CancelSave(p) \/ Release(p)
  \/ Consume(p) \/ Short(p) \/ Draw(p) \/ Charge(p) \/ Settle(p) \/ Save(p)
  \/ Restore(p) \/ Unuse(p) \/ WithdrawSave(p)
  \/ Lapse(p) \/ Zero(p)

Call(p) ==
  \/ \E c \in Claims : ApplyClaim(p, c)
  \/ \E l \in Leaves : ApplyLeave(p, l) \/ Withdraw(p, l)
  \/ \E r \in Requests : Approve(p, r) \/ Reject(p, r) \/ Cancel(p, r)

Next == Tick \/ \E p \in Callers : Call(p) \/ Expire(p) \/ HandlerStep(p) \/ Skip(p) \/ Die(p)

Spec == Init /\ [][Next]_vars

(* Handlers end, and the scheduler runs the job every day.                 *)
FairSpec == /\ Spec
            /\ WF_vars(Tick)
            /\ \A p \in Callers : WF_vars(HandlerStep(p))
            /\ WF_vars(\E p \in Callers : Expire(p))

-----------------------------------------------------------------------------
TypeOK ==
  /\ day \in 0 .. MaxDay
  /\ \A r \in Requests : /\ request[r].status \in {"none", "pending", "approved", "rejected",
                                                   "cancelled", "withdrawn"}
                         /\ request[r].level \in Nat \ {0} /\ request[r].paid \in Nat
                         /\ request[r].drawn \in [Claims -> Nat]
  /\ lot \in [Claims -> Int]
  /\ posted.credit \in [Claims -> Nat] /\ posted.expiry \in [Claims -> Nat]
  /\ posted.usage \in [Leaves -> [Claims -> Nat]]
  /\ posted.reversal \in [Leaves -> [Claims -> Nat]]
  /\ pending \in [Years -> Int]
  /\ \A p \in Callers : /\ handler[p].pc \in Steps /\ handler[p].req \in Requests \cup {None}
                        /\ handler[p].plan \in [Claims -> Nat]
                        /\ handler[p].lot \in Claims \cup {None}
  /\ crashes \in 0 .. MaxCrashes

AllRest == \A p \in Callers : On(p, "rest")

(* However approvals, rejections and cancellations race, and wherever they *)
(* die: a claim mints one lot at most, of what it is worth, and none       *)
(* unless an approval has committed (cancel may write over it later); a    *)
(* leave is charged its paid days once at most, over all the lots.         *)
GrantedOnce ==
  /\ \A c \in Claims :
       /\ posted.credit[c] \in {0, Worth[c]}
       /\ posted.credit[c] > 0 => request[c].status \in {"approved", "cancelled"}
  /\ \A l \in Leaves : Sum(posted.usage[l], Claims) <= request[l].paid

(* When nothing is under way, no lot offers more than the ledger says is   *)
(* left of it, however draws, withdrawals and the job raced.               *)
LotCovered == AllRest /\ crashes = 0 => \A c \in Claims : lot[c] <= Explained(c)

-----------------------------------------------------------------------------
(* What holds when handlers come one after the other.                      *)

(* lotRemaining, the one field of the ledger that is updated in place,     *)
(* agrees with the entries, and withdrawn leave has given back to each lot *)
(* what it drew from it, also to one that has expired.                     *)
LotExplained ==
  AllRest /\ crashes = 0 =>
    /\ \A c \in Claims : lot[c] = Explained(c) /\ lot[c] \in 0 .. Worth[c]
    /\ \A l \in Leaves : request[l].status = "withdrawn" => posted.reversal[l] = posted.usage[l]

(* A lot that has expired with days left, said apart from what the job     *)
(* selects.                                                                *)
IsStale(c) == c \in Minted /\ Expires(c) <= day /\ lot[c] > 0

(* What is left of a lot lapses after its expiry, also if a job dies or    *)
(* leave is withdrawn later.                                               *)
ExpiredLapses == \A c \in Claims : IsStale(c) ~> lot[c] <= 0
=============================================================================

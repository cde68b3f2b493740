------------------------------- MODULE LeaveYear -------------------------------
(***************************************************************************)
(* The leave year (src/src/modules/leave: leave-accrual.service.ts,        *)
(* leave-year-end.service.ts and the jobs that run them).  Every night a   *)
(* job credits what members have earned; in the first week of January a    *)
(* second job, an hour later, splits what is left of the year before into  *)
(* days to encash, to carry forward and to lapse.  Meanwhile leave of      *)
(* either year is applied for, decided and withdrawn.                      *)
(*                                                                         *)
(* A bucket here is a member and a leave type that is not comp-off; the    *)
(* ledger of a bucket is kept per year, as sums by type of entry, posted   *)
(* in one step as LeaveAccount promises.  Days are those of UTC, leave is  *)
(* counted in half days.                                                   *)
(***************************************************************************)
EXTENDS Integers

CONSTANTS Buckets, None,
          Rule,       \* accrualRule and yearEndRule of the leave type
          Joined,     \* dateOfJoining of the member
          Months, MonthDays, GraceDays,
          NoCap,      \* a cap that is null
          MaxDay,     \* bound on the days that pass
          MaxPosts,   \* bound on what is done to leave requests
          MaxCrashes  \* bound on runs missed or cut short

YearDays == Months * MonthDays
Year(d) == d \div YearDays
Years == 0 .. Year(MaxDay) + 1
Periods == 1 .. Months

Caps == Nat \cup {NoCap}
Rules == [mode : {"upfront_annual", "periodic_accrual"},
          quantity : Nat,       \* annualQuantity or rate
          step : Nat \ {0},     \* months of a period
          accrualCap : Caps, eligibleAfter : Nat,
          encashable : BOOLEAN, encashmentCap : Caps, carryForwardCap : Nat, lapseExcess : BOOLEAN]

ASSUME RuleAssumption == NoCap \notin Nat /\ None \notin Buckets /\ Joined \in [Buckets -> Int] /\ Rule \in [Buckets -> Rules]
ASSUME BoundAssumption == /\ Months \in Nat \ {0} /\ MonthDays \in Nat \ {0}
                          /\ GraceDays \in 1 .. YearDays - 1
                          /\ MaxDay \in Nat /\ MaxPosts \in Nat /\ MaxCrashes \in Nat

VARIABLES day,
          posted,   \* what was posted to the ledger of a bucket and year, by type of entry
          pending,  \* half days reserved
          records,  \* days of the EncashmentRecords
          accrual,  \* local state of the accrual job
          close,    \* local state of the year-end job
          ran,      \* the jobs whose time has come today
          crashes,
          torn,     \* buckets whose close broke off between two of its entries
          posts,    \* calls on leave requests so far
          leave,    \* leave requests, by how far their handlers are
          late,     \* years that leave was posted to when they were over
          raced     \* years of which an application met another or the year-end job,
                    \* or a handler died between two writes

books == <<posted, pending, records>>
failures == <<crashes, torn>>
requests == <<posts, leave, late, raced>>
vars == <<day, books, accrual, close, ran, failures, requests>>

-----------------------------------------------------------------------------
(* The ledger.                                                             *)

(* credited is kept in the balance: accruals, less what is carried out,    *)
(* and what is carried in.                                                 *)
Empty == [accrual |-> [i \in Periods |-> 0], credited |-> 0, used |-> 0,
          encashed |-> 0, carriedOut |-> 0, carriedIn |-> 0, lapsed |-> 0]

Available(b, y) ==
  LET e == posted[b][y]
  IN e.credited - e.used - e.encashed - e.lapsed - pending[b][y]

(* An entry is posted: the sums of the bucket and year are now e.          *)
Enter(b, y, e) == posted' = [posted EXCEPT ![b][y] = e]

(* Half units, nearest, halves up.                                         *)
RoundToHalf(number, denominator) == (2 * number + denominator) \div (2 * denominator)

Capped(n, cap) == IF cap = NoCap \/ n <= cap THEN n ELSE cap

-----------------------------------------------------------------------------
(* What a member earns.  A period goes by its first month.                 *)

YearStart(y) == y * YearDays
PeriodStart(y, i) == YearStart(y) + (i - 1) * MonthDays
PeriodEnd(b, y, i) == PeriodStart(y, i) + Rule[b].step * MonthDays
PeriodsForYear(b) == {i \in Periods : (i - 1) % Rule[b].step = 0}

EligibleOn(b) == Joined[b] + Rule[b].eligibleAfter
AccrualStart(b, y) == IF EligibleOn(b) > YearStart(y) THEN EligibleOn(b) ELSE YearStart(y)

(* A prorated share of the year for those who joined in it.                *)
UpfrontCredit(b, y) ==
  CASE Year(Joined[b]) < y -> Rule[b].quantity
    [] Year(Joined[b]) > y -> 0
    [] OTHER -> RoundToHalf(Rule[b].quantity * (Months - (Joined[b] % YearDays) \div MonthDays), Months)

(* A prorated share of the period for those who became eligible in it.     *)
PeriodCredit(b, y, i) ==
  LET first == PeriodStart(y, i)
      end == PeriodEnd(b, y, i)
  IN IF AccrualStart(b, y) <= first THEN Rule[b].quantity
     ELSE RoundToHalf(Rule[b].quantity * (end - AccrualStart(b, y)), end - first)

Credit(b, y, i) == IF Rule[b].mode = "upfront_annual" THEN UpfrontCredit(b, y) ELSE PeriodCredit(b, y, i)

Accruable(b, y, i) == day >= PeriodEnd(b, y, i) /\ AccrualStart(b, y) < PeriodEnd(b, y, i)

Credited(b, y) == {i \in Periods : posted[b][y].accrual[i] > 0}

(* Mutants: credits are not looked up; only the latest period is credited. *)
Due_Again(b, y) ==
  IF Rule[b].mode = "upfront_annual"
  THEN {i \in {1} : UpfrontCredit(b, y) > 0}
  ELSE {i \in PeriodsForYear(b) : Accruable(b, y, i) /\ PeriodCredit(b, y, i) > 0}
Due_Latest(b, y) ==
  IF Rule[b].mode = "upfront_annual"
  THEN {i \in {1} \ Credited(b, y) : UpfrontCredit(b, y) > 0}
  ELSE {i \in PeriodsForYear(b) \ Credited(b, y) : Accruable(b, y, i) /\ day = PeriodEnd(b, y, i)}

(* What the job finds to be credited.                                      *)
Due(b, y) ==
  IF Rule[b].mode = "upfront_annual"
  THEN {i \in {1} : Credited(b, y) = {} /\ UpfrontCredit(b, y) > 0}
  ELSE {i \in PeriodsForYear(b) \ Credited(b, y) : Accruable(b, y, i) /\ PeriodCredit(b, y, i) > 0}

-----------------------------------------------------------------------------
(* Year end.                                                               *)

(* Mutant: what is encashed is carried forward too.                        *)
Distribution_Twice(b, available) ==
  LET r == Rule[b]
      encashed == IF r.encashable THEN Capped(available, r.encashmentCap) ELSE 0
      carried == Capped(available, r.carryForwardCap)
  IN [encashed |-> encashed, carried |-> carried,
      lapsed |-> IF r.lapseExcess /\ available > encashed + carried THEN available - encashed - carried ELSE 0]

(* computeYearEndDistribution of a positive balance.                       *)
Distribution(b, available) ==
  LET r == Rule[b]
      encashed == IF r.encashable THEN Capped(available, r.encashmentCap) ELSE 0
      carried == Capped(available - encashed, r.carryForwardCap)
  IN [encashed |-> encashed, carried |-> carried,
      lapsed |-> IF r.lapseExcess THEN available - encashed - carried ELSE 0]

Nothing == [encashed |-> 0, carried |-> 0, lapsed |-> 0]

(* Mutant: nobody looks.                                                   *)
AlreadyClosed_Never(b, y) == FALSE

(* A carry_forward, lapse or encashment entry is in the bucket.            *)
AlreadyClosed(b, y) ==
  LET e == posted[b][y] IN e.encashed + e.carriedOut + e.carriedIn + e.lapsed > 0

(* An entry that closes the bucket, and not the one that opened it.        *)
Closed(b, y) ==
  LET e == posted[b][y] IN e.encashed + e.carriedOut + e.lapsed > 0

(* Mutant: the close is attempted once.                                    *)
InWindow_First == Year(day) > 0 /\ day % YearDays = 0

(* The first days of January.                                              *)
InWindow == Year(day) > 0 /\ day % YearDays < GraceDays

-----------------------------------------------------------------------------
NoAccrual == [pc |-> "rest", year |-> 0, queue |-> {}, bucket |-> None, due |-> {}]
NoClose == [pc |-> "rest", year |-> 0, queue |-> {}, bucket |-> None,
            found |-> [b \in Buckets |-> 0], dist |-> Nothing]
NoLeave == [asked |-> 0, made |-> 0, open |-> 0, freed |-> 0]

Init == /\ day = 0
        /\ posted = [b \in Buckets |-> [y \in Years |-> Empty]]
        /\ pending = [b \in Buckets |-> [y \in Years |-> 0]]
        /\ records = [b \in Buckets |-> [y \in Years |-> 0]]
        /\ accrual = NoAccrual
        /\ close = NoClose
        /\ ran = {}
        /\ crashes = 0
        /\ torn = {}
        /\ posts = 0
        /\ leave = [b \in Buckets |-> [y \in Years |-> NoLeave]]
        /\ late = {}
        /\ raced = {}

AccrualUnchanged == UNCHANGED <<day, pending, records, close, failures, requests>>

-----------------------------------------------------------------------------
(* The accrual job.                                                        *)

StartAccrual ==
  /\ accrual.pc = "rest"
  /\ "accrual" \notin ran
  /\ accrual' = [NoAccrual EXCEPT !.pc = "next", !.year = Year(day), !.queue = Buckets]
  /\ ran' = ran \cup {"accrual"}
  /\ UNCHANGED posted /\ AccrualUnchanged

(* accrueForMember: not eligible yet, or the credits that are due.         *)
Survey(b) ==
  /\ accrual.pc = "next" /\ b \in accrual.queue
  /\ LET due == IF Rule[b].eligibleAfter > 0 /\ EligibleOn(b) > day THEN {} ELSE Due(b, accrual.year)
     IN accrual' = [accrual EXCEPT !.queue = @ \ {b}, !.bucket = b, !.due = due,
                                   !.pc = IF due = {} THEN "next" ELSE "check"]
  /\ UNCHANGED <<posted, ran>> /\ AccrualUnchanged

Earliest(i, S) == i \in S /\ \A j \in S : i <= j

ThenAccrue(i) ==
  accrual' = [accrual EXCEPT !.due = @ \ {i}, !.pc = IF accrual.due = {i} THEN "next" ELSE "check"]

(* The next credit, unless the balance is at its ceiling.                  *)
Check(b) ==
  LET cap == IF Rule[b].mode = "upfront_annual" THEN NoCap ELSE Rule[b].accrualCap IN
  /\ accrual.pc = "check" /\ accrual.bucket = b
  /\ IF cap = NoCap \/ Available(b, accrual.year) < cap
     THEN accrual' = [accrual EXCEPT !.pc = "credit"]
     ELSE \E i \in accrual.due : Earliest(i, accrual.due) /\ ThenAccrue(i)
  /\ UNCHANGED <<posted, ran>> /\ AccrualUnchanged

PostCredit(b) ==
  /\ accrual.pc = "credit" /\ accrual.bucket = b
  /\ \E i \in accrual.due :
       LET q == Credit(b, accrual.year, i) IN
       /\ Earliest(i, accrual.due)
       /\ Enter(b, accrual.year, [posted[b][accrual.year] EXCEPT !.accrual[i] = @ + q, !.credited = @ + q])
       /\ ThenAccrue(i)
  /\ UNCHANGED ran /\ AccrualUnchanged

EndAccrual ==
  /\ accrual.pc = "next" /\ accrual.queue = {}
  /\ accrual' = NoAccrual
  /\ UNCHANGED <<posted, ran>> /\ AccrualUnchanged

-----------------------------------------------------------------------------
(* The year-end job.                                                       *)

CloseUnchanged == UNCHANGED <<day, pending, accrual, failures, posts, leave, late>>

(* Where the distribution goes on; amounts of zero are passed over.        *)
AfterEncash(dist) ==
  CASE dist.carried > 0 -> "out"
    [] dist.carried = 0 /\ dist.lapsed > 0 -> "lapse"
    [] OTHER -> "next"
FirstOf(dist) == IF dist.encashed > 0 THEN "encash" ELSE AfterEncash(dist)
AfterCarry(dist) == IF dist.lapsed > 0 THEN "lapse" ELSE "next"

GotoClose(pc) == close' = [close EXCEPT !.pc = pc]

(* Applications that have read the balance and have yet to reserve.        *)
Applying(b, y) == leave[b][y].asked + leave[b][y].made

(* The balances are read once, before the first bucket is closed.          *)
StartClose ==
  /\ close.pc = "rest"
  /\ InWindow /\ "close" \notin ran
  /\ LET y == Year(day) - 1
         found == [b \in Buckets |-> Available(b, y)]
     IN /\ close' = [NoClose EXCEPT !.pc = "next", !.year = y, !.found = found,
                                    !.queue = {b \in Buckets : found[b] > 0}]
        /\ raced' = raced \cup {<<b, y>> : b \in {c \in Buckets : Applying(c, y) > 0}}
  /\ ran' = ran \cup {"close"}
  /\ UNCHANGED books /\ CloseUnchanged

(* closeBucket: done before, or to be done now.                            *)
CloseBucket(b) ==
  /\ close.pc = "next" /\ b \in close.queue
  /\ LET dist == Distribution(b, close.found[b])
     IN close' = IF AlreadyClosed(b, close.year)
                 THEN [close EXCEPT !.queue = @ \ {b}]
                 ELSE [close EXCEPT !.queue = @ \ {b}, !.bucket = b, !.dist = dist, !.pc = FirstOf(dist)]
  /\ UNCHANGED <<books, ran, raced>> /\ CloseUnchanged

Encash(b) ==
  /\ close.pc = "encash" /\ close.bucket = b
  /\ Enter(b, close.year, [posted[b][close.year] EXCEPT !.encashed = @ + close.dist.encashed])
  /\ GotoClose("record")
  /\ UNCHANGED <<records, ran, raced>> /\ CloseUnchanged

(* The EncashmentRecord that payroll pays from.                            *)
Record(b) ==
  /\ close.pc = "record" /\ close.bucket = b
  /\ records' = [records EXCEPT ![b][close.year] = @ + close.dist.encashed]
  /\ GotoClose(AfterEncash(close.dist))
  /\ UNCHANGED <<posted, ran, raced>> /\ CloseUnchanged

CarryOut(b) ==
  /\ close.pc = "out" /\ close.bucket = b
  /\ Enter(b, close.year, [posted[b][close.year] EXCEPT !.carriedOut = @ + close.dist.carried,
                                                        !.credited = @ - close.dist.carried])
  /\ GotoClose("in")
  /\ UNCHANGED <<records, ran, raced>> /\ CloseUnchanged

(* Mutant: the new year is credited with the whole balance.                *)
CarryIn_Whole(b) ==
  /\ close.pc = "in" /\ close.bucket = b
  /\ Enter(b, close.year + 1, [posted[b][close.year + 1] EXCEPT !.carriedIn = @ + close.found[b],
                                                            !.credited = @ + close.found[b]])
  /\ GotoClose(AfterCarry(close.dist))
  /\ UNCHANGED <<records, ran, raced>> /\ CloseUnchanged

CarryIn(b) ==
  /\ close.pc = "in" /\ close.bucket = b
  /\ Enter(b, close.year + 1, [posted[b][close.year + 1] EXCEPT !.carriedIn = @ + close.dist.carried,
                                                            !.credited = @ + close.dist.carried])
  /\ GotoClose(AfterCarry(close.dist))
  /\ UNCHANGED <<records, ran, raced>> /\ CloseUnchanged

Lapse(b) ==
  /\ close.pc = "lapse" /\ close.bucket = b
  /\ Enter(b, close.year, [posted[b][close.year] EXCEPT !.lapsed = @ + close.dist.lapsed])
  /\ GotoClose("next")
  /\ UNCHANGED <<records, ran, raced>> /\ CloseUnchanged

EndClose ==
  /\ close.pc = "next" /\ close.queue = {}
  /\ close' = NoClose
  /\ UNCHANGED <<books, ran, raced>> /\ CloseUnchanged

-----------------------------------------------------------------------------
(* A run that does not come, a process that dies, a call that throws: the  *)
(* loops go on with the next bucket.                                       *)

Fail == crashes < MaxCrashes /\ crashes' = crashes + 1 /\ UNCHANGED <<day, books, requests>>

Miss(job) ==
  /\ job \notin ran
  /\ ran' = ran \cup {job}
  /\ Fail /\ UNCHANGED <<accrual, close, torn>>

(* The bucket in hand, once the first of its entries is posted.            *)
CutShort == IF close.pc \in {"rest", "next", FirstOf(close.dist)} THEN {} ELSE {<<close.bucket, close.year>>}

DieAccrual == accrual.pc # "rest" /\ accrual' = NoAccrual /\ Fail /\ UNCHANGED <<close, ran, torn>>

DieClose ==
  /\ close.pc # "rest" /\ close' = NoClose
  /\ torn' = torn \cup CutShort
  /\ Fail /\ UNCHANGED <<accrual, ran>>

SkipAccrual ==
  /\ accrual.pc \in {"check", "credit"}
  /\ accrual' = [accrual EXCEPT !.pc = "next", !.due = {}]
  /\ Fail /\ UNCHANGED <<close, ran, torn>>

SkipClose ==
  /\ close.pc \notin {"rest", "next"}
  /\ GotoClose("next")
  /\ torn' = torn \cup CutShort
  /\ Fail /\ UNCHANGED <<accrual, ran>>

-----------------------------------------------------------------------------
(* Leave requests, a half day at a time, of this year or the last.  Their  *)
(* handlers are counted by where they are: those that have read the        *)
(* balance (asked), and made the request, but not reserved its day (made); *)
(* those that have decided one, but not released its day (freed); and      *)
(* requests that are undecided (open), to be seen from when they are made. *)
(* A request is decided once: decisions that race are LeaveRequest's.      *)

Call == posts < MaxPosts /\ posts' = posts + 1

Handle(b, y, l) ==
  /\ leave' = [leave EXCEPT ![b][y] = l]
  /\ UNCHANGED <<day, records, accrual, close, ran, failures>>

(* The balance changes: of a year that is over, too late for a close.      *)
Touch(b, y) == late' = IF y < Year(day) THEN late \cup {<<b, y>>} ELSE late

(* applyForLeave: the balance covers the day; routing and saving follow.   *)
Apply(b, y) ==
  /\ Call
  /\ y \in {Year(day) - 1, Year(day)} \cap Years
  /\ Available(b, y) > 0
  /\ Handle(b, y, [leave[b][y] EXCEPT !.asked = @ + 1])
  /\ raced' = IF Applying(b, y) > 0 \/ (close.pc # "rest" /\ close.year = y)
              THEN raced \cup {<<b, y>>} ELSE raced
  /\ UNCHANGED <<posted, pending, late>>

Create(b, y) ==
  LET l == leave[b][y] IN
  /\ l.asked > 0
  /\ Handle(b, y, [l EXCEPT !.asked = @ - 1, !.made = @ + 1, !.open = @ + 1])
  /\ UNCHANGED <<posted, pending, posts, late, raced>>

Reserve(b, y) ==
  LET l == leave[b][y] IN
  /\ l.made > 0
  /\ Handle(b, y, [l EXCEPT !.made = @ - 1])
  /\ pending' = [pending EXCEPT ![b][y] = @ + 1]
  /\ Touch(b, y) /\ UNCHANGED <<posted, posts, raced>>

(* Rejected or cancelled: the status is saved.                             *)
Refuse(b, y) ==
  LET l == leave[b][y] IN
  /\ Call
  /\ l.open > 0
  /\ Handle(b, y, [l EXCEPT !.open = @ - 1, !.freed = @ + 1])
  /\ UNCHANGED <<posted, pending, late, raced>>

(* finalizeApprovedRequest: the usage entry is posted,                     *)
Settle(b, y) ==
  LET l == leave[b][y] IN
  /\ Call
  /\ l.open > 0
  /\ Handle(b, y, [l EXCEPT !.open = @ - 1, !.freed = @ + 1])
  /\ Enter(b, y, [posted[b][y] EXCEPT !.used = @ + 1])
  /\ Touch(b, y) /\ UNCHANGED <<pending, raced>>

(* and the reservation released, as it is after a refusal.                 *)
Release(b, y) ==
  LET l == leave[b][y] IN
  /\ l.freed > 0
  /\ Handle(b, y, [l EXCEPT !.freed = @ - 1])
  /\ pending' = [pending EXCEPT ![b][y] = @ - 1]
  /\ Touch(b, y) /\ UNCHANGED <<posted, posts, raced>>

(* Withdrawn: the usage_reversal entry.                                    *)
Withdraw(b, y) ==
  /\ Call
  /\ posted[b][y].used > 0
  /\ Handle(b, y, leave[b][y])
  /\ Enter(b, y, [posted[b][y] EXCEPT !.used = @ - 1])
  /\ Touch(b, y) /\ UNCHANGED <<pending, raced>>

(* A handler dies: before the request is made; or before its day is        *)
(* reserved, charged or released, and then the books stay wrong.           *)
Drop(b, y) ==
  LET l == leave[b][y] IN
  /\ \/ /\ l.asked > 0
        /\ Handle(b, y, [l EXCEPT !.asked = @ - 1])
        /\ UNCHANGED raced
     \/ /\ \/ l.made > 0 /\ Handle(b, y, [l EXCEPT !.made = @ - 1])
           \/ l.open > 0 /\ Handle(b, y, [l EXCEPT !.open = @ - 1])
           \/ l.freed > 0 /\ Handle(b, y, [l EXCEPT !.freed = @ - 1])
        /\ raced' = raced \cup {<<b, y>>}
  /\ UNCHANGED <<posted, pending, posts, late>>

-----------------------------------------------------------------------------
(* The day ends when the runs of the day have.                             *)
Tick ==
  /\ day < MaxDay
  /\ accrual.pc = "rest" /\ "accrual" \in ran
  /\ close.pc = "rest" /\ (InWindow => "close" \in ran)
  /\ day' = day + 1
  /\ ran' = {}
  /\ UNCHANGED <<books, accrual, close, failures, requests>>

AccrualStep == StartAccrual \/ EndAccrual \/ \E b \in Buckets : Survey(b) \/ Check(b) \/ PostCredit(b)

CloseStep ==
  \/ StartClose \/ EndClose
  \/ \E b \in Buckets : CloseBucket(b) \/ Encash(b) \/ Record(b) \/ CarryOut(b) \/ CarryIn(b) \/ Lapse(b)

Failure == DieAccrual \/ DieClose \/ SkipAccrual \/ SkipClose \/ \E job \in {"accrual", "close"} : Miss(job)

LeaveStep ==
  \E b \in Buckets, y \in Years :
    \/ Apply(b, y) \/ Create(b, y) \/ Reserve(b, y) \/ Refuse(b, y)
    \/ Settle(b, y) \/ Release(b, y) \/ Withdraw(b, y) \/ Drop(b, y)

Next == Tick \/ AccrualStep \/ CloseStep \/ Failure \/ LeaveStep

Spec == Init /\ [][Next]_vars

-----------------------------------------------------------------------------
Entry == [accrual : [Periods -> Nat], credited : Int, used : Nat, encashed : Nat,
          carriedOut : Nat, carriedIn : Nat, lapsed : Nat]

AccrualState == [pc : {"rest", "next", "check", "credit"}, year : Years, queue : SUBSET Buckets,
                 bucket : Buckets \cup {None}, due : SUBSET Periods]

CloseState == [pc : {"rest", "next", "encash", "record", "out", "in", "lapse"}, year : Years,
               queue : SUBSET Buckets, bucket : Buckets \cup {None}, found : [Buckets -> Int],
               dist : [encashed : Nat, carried : Nat, lapsed : Nat]]

Leave == [asked : Nat, made : Nat, open : Nat, freed : Nat]

TypeOK ==
  /\ day \in 0 .. MaxDay
  /\ posted \in [Buckets -> [Years -> Entry]]
  /\ pending \in [Buckets -> [Years -> Int]]
  /\ records \in [Buckets -> [Years -> Nat]]
  /\ accrual \in AccrualState
  /\ close \in CloseState
  /\ ran \subseteq {"accrual", "close"}
  /\ torn \subseteq Buckets \X Years
  /\ crashes \in 0 .. MaxCrashes /\ posts \in 0 .. MaxPosts
  /\ leave \in [Buckets -> [Years -> Leave]]
  /\ raced \subseteq Buckets \X Years /\ late \subseteq Buckets \X Years

(* The jobs may run again, after a death anywhere: a period is credited    *)
(* once, and no more than the rule gives for it.                           *)
AccruedOnce ==
  \A b \in Buckets, y \in Years, i \in Periods :
    posted[b][y].accrual[i] \in {0, Credit(b, y, i)}

(* A missed run heals itself: a period that ended n days ago in this year  *)
(* has been credited when fewer than n + 1 runs have failed.               *)
CreditedInTime ==
  accrual.pc = "rest" /\ "accrual" \in ran =>
    \A b \in Buckets : LET y == Year(day) IN
      Rule[b].mode = "periodic_accrual" /\ Rule[b].accrualCap = NoCap =>
        \A i \in PeriodsForYear(b) :
          /\ Accruable(b, y, i) /\ EligibleOn(b) <= PeriodEnd(b, y, i) /\ PeriodCredit(b, y, i) > 0
          /\ crashes <= day - PeriodEnd(b, y, i)
          => posted[b][y].accrual[i] > 0

(* The caps hold over all the runs of the window, wherever a run died and  *)
(* whatever came back to the closed year since.                            *)
CapsHold ==
  \A b \in Buckets, y \in Years :
    LET e == posted[b][y] IN
    /\ e.carriedOut <= Rule[b].carryForwardCap
    /\ Rule[b].encashmentCap # NoCap => e.encashed <= Rule[b].encashmentCap

(* Nothing appears in the new year or with payroll that did not leave the  *)
(* old; without a failure all of it arrives.                               *)
Conserved ==
  \A b \in Buckets, y \in Years \ {Year(MaxDay) + 1} :
    /\ posted[b][y + 1].carriedIn <= posted[b][y].carriedOut
    /\ records[b][y] <= posted[b][y].encashed
    /\ close.pc = "rest" /\ crashes = 0 =>
         posted[b][y + 1].carriedIn = posted[b][y].carriedOut /\ records[b][y] = posted[b][y].encashed

(* The close and the leave requests together never take more than is       *)
(* there, however often the close runs and wherever it dies: what is       *)
(* available, with the reservations that decided requests are about to     *)
(* release, covers the applications under way.  Applications that overlap, *)
(* or meet a close of their year, have read a balance that is stale by the *)
(* time they reserve, and a handler that dies between two writes leaves    *)
(* the books wrong: they are excepted.                                     *)
NotOverdrawn ==
  \A b \in Buckets, y \in Years :
    <<b, y>> \notin raced => Available(b, y) + leave[b][y].freed >= Applying(b, y)

(* What was there on 1 January, if nobody has posted to the year since.    *)
Total(b, y) ==
  LET e == posted[b][y] IN Available(b, y) + e.encashed + e.carriedOut + e.lapsed

(* The entries are those of the distribution, all of them.                 *)
Distributed(b, y) ==
  LET e == posted[b][y] IN
  [encashed |-> e.encashed, carried |-> e.carriedOut, lapsed |-> e.lapsed] = Distribution(b, Total(b, y))

(* The window heals missed runs, and runs that die before the first entry  *)
(* of a bucket: with fewer failures than days, a balance that was there on *)
(* 1 January is distributed as the rule says, to the last entry.  A bucket *)
(* whose own close broke off between two entries is not healed, though the *)
(* service calls the close idempotent across the window: its first entry   *)
(* is taken for the close, and the rest is left.  So is one that had days  *)
(* carried into it.  Both are excepted.                                    *)
ClosedInWindow ==
  Year(day) > 0 /\ day % YearDays >= GraceDays /\ crashes < GraceDays =>
    \A b \in Buckets : LET y == Year(day) - 1 IN
      <<b, y>> \notin late \cup torn /\ posted[b][y].carriedIn = 0 /\ Total(b, y) > 0
        => Distributed(b, y)

-----------------------------------------------------------------------------
(* What the code says of itself, and does not do.                          *)

(* One credit per completed period.                                        *)
EveryPeriodCredited ==
  accrual.pc = "rest" /\ "accrual" \in ran /\ crashes = 0 =>
    \A b \in Buckets : Rule[b].mode = "periodic_accrual" /\ Rule[b].accrualCap = NoCap =>
      \A y \in 0 .. Year(day) : \A i \in PeriodsForYear(b) :
        Accruable(b, y, i) /\ EligibleOn(b) <= day /\ PeriodCredit(b, y, i) > 0
          => posted[b][y].accrual[i] > 0
=============================================================================

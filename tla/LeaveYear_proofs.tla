---------------------------- MODULE LeaveYear_proofs ----------------------------
(***************************************************************************)
(* Proofs about LeaveYear, for any members, rules, calendar and bounds:    *)
(* the state stays well typed, a period is credited once, the caps of the  *)
(* year end hold, nothing appears on the way from one year to the next,    *)
(* close and requests take no more than is there, both jobs make up for    *)
(* nights that failed, and what is closed is closed to the last entry.     *)
(***************************************************************************)
EXTENDS LeaveYear, TLAPS

(* The steps of a bucket that is being closed.                             *)
Busy == {"encash", "record", "out", "in", "lapse"}

(* What the accrual job is about to post has not been posted.              *)
AccrualInv ==
  accrual.pc \in {"check", "credit"} =>
    /\ accrual.bucket \in Buckets
    /\ \A i \in accrual.due : /\ posted[accrual.bucket][accrual.year].accrual[i] = 0
                              /\ Credit(accrual.bucket, accrual.year, i) \in Nat

(* A distribution of n half days within the caps of a bucket.              *)
Fits(b, dist, n) ==
  /\ dist.encashed + dist.carried + dist.lapsed <= n
  /\ dist.carried <= Rule[b].carryForwardCap
  /\ Rule[b].encashmentCap # NoCap => dist.encashed <= Rule[b].encashmentCap

(* What the year-end job is about to post fits, and has not been posted.   *)
CloseInv ==
  /\ close.pc # "rest" => close.year + 1 \in Years
  /\ \A b \in close.queue : close.found[b] > 0
  /\ close.pc \in Busy =>
       /\ close.bucket \in Buckets /\ close.bucket \notin close.queue
       /\ Fits(close.bucket, close.dist, close.found[close.bucket])
       /\ close.pc = "encash" => posted[close.bucket][close.year].encashed = 0
       /\ close.pc \in {"encash", "record", "out"} => posted[close.bucket][close.year].carriedOut = 0

InHand(b, y, pc) == close.pc = pc /\ close.bucket = b /\ close.year = y

(* On the way to the new year, or to payroll.                              *)
OnTheWay(b, y) == IF InHand(b, y, "in") THEN close.dist.carried ELSE 0
Unrecorded(b, y) == IF InHand(b, y, "record") THEN close.dist.encashed ELSE 0

(* What left the old year has arrived or is on the way; less after a       *)
(* failure.                                                                *)
FlowInv ==
  \A b \in Buckets, y \in Years :
    /\ y + 1 \in Years =>
         /\ posted[b][y + 1].carriedIn + OnTheWay(b, y) <= posted[b][y].carriedOut
         /\ crashes = 0 => posted[b][y + 1].carriedIn + OnTheWay(b, y) = posted[b][y].carriedOut
    /\ records[b][y] + Unrecorded(b, y) <= posted[b][y].encashed
    /\ crashes = 0 => records[b][y] + Unrecorded(b, y) = posted[b][y].encashed

(* What is still to be taken from the bucket in hand.                      *)
ToTake ==
  CASE close.pc = "encash" -> close.dist.encashed + close.dist.carried + close.dist.lapsed
    [] close.pc \in {"record", "out"} -> close.dist.carried + close.dist.lapsed
    [] close.pc \in {"in", "lapse"} -> close.dist.lapsed
    [] OTHER -> 0

(* What will be left, by bucket and year, when the handlers of leave       *)
(* requests are done.                                                      *)
Coming(b, y) == Available(b, y) + leave[b][y].freed - Applying(b, y)
Left == [b \in Buckets |-> [y \in Years |-> Coming(b, y)]]

(* It is there, unless leave was applied for during the run.               *)
SpareInv ==
  /\ \A b \in close.queue :
       /\ close.pc # "rest"
       /\ <<b, close.year>> \notin raced => Left[b][close.year] >= close.found[b]
  /\ close.pc \in Busy /\ <<close.bucket, close.year>> \notin raced =>
       Left[close.bucket][close.year] >= ToTake

-----------------------------------------------------------------------------
(* Arithmetic of the calendar.                                             *)

(* Later days are in later years.                                          *)
LEMMA DivMono ==
  ASSUME NEW a \in Int, NEW b \in Int, NEW d \in Nat \ {0}, a <= b
  PROVE  a \div d <= b \div d
<1> DEFINE p == a \div d
           q == b \div d
<1>1. a = d * (a \div d) + (a % d) /\ 0 <= a % d /\ a % d < d
  OBVIOUS
<1>2. b = d * (b \div d) + (b % d) /\ 0 <= b % d /\ b % d < d
  OBVIOUS
<1>3. p \in Int /\ q \in Int
  OBVIOUS
<1> HIDE DEF p, q
<1>4. ASSUME p > q PROVE FALSE
  <2>1. d * p >= d * (q + 1)
    BY <1>3, <1>4
  <2>2. d * (q + 1) = d * q + d
    BY <1>3
  <2>. QED BY <1>1, <1>2, <2>1, <2>2, <1>3 DEF p, q
<1>. QED BY <1>3, <1>4 DEF p, q

(* A year has days.                                                        *)
LEMMA YearDaysType == YearDays \in Nat \ {0}
<1>1. \A m, n \in Nat \ {0} : m * n \in Nat \ {0}
  OBVIOUS
<1>. QED BY <1>1, BoundAssumption DEF YearDays

(* The years that the model reaches.                                       *)
LEMMA YearType ==
  ASSUME NEW d \in 0 .. MaxDay
  PROVE  /\ Year(d) \in Nat /\ Year(d) <= Year(MaxDay) /\ Year(MaxDay) \in Nat
         /\ Year(d) \in Years /\ Year(d) + 1 \in Years
         /\ Year(d) > 0 => Year(d) - 1 \in Years /\ Year(d) - 1 + 1 \in Years
<1>1. 0 <= Year(d) /\ Year(d) <= Year(MaxDay)
  <2>1. 0 \div YearDays = 0
    BY YearDaysType
  <2>. QED BY <2>1, DivMono, YearDaysType, BoundAssumption DEF Year
<1>2. Year(d) \in Int /\ Year(MaxDay) \in Int
  BY YearDaysType, BoundAssumption DEF Year
<1>. QED BY <1>1, <1>2 DEF Years

-----------------------------------------------------------------------------
(* What the rules yield.                                                   *)

(* Half units are whole numbers of half units.                             *)
LEMMA RoundType ==
  ASSUME NEW n \in Int, NEW d \in Nat \ {0} PROVE RoundToHalf(n, d) \in Int
<1>1. 2 * d \in Nat \ {0} /\ 2 * n + d \in Int
  OBVIOUS
<1>. QED BY <1>1 DEF RoundToHalf

(* So are credits.                                                         *)
LEMMA CreditType ==
  ASSUME NEW b \in Buckets, NEW y \in Years, NEW i \in Periods
  PROVE  Credit(b, y, i) \in Int
<1>1. /\ Rule[b].quantity \in Nat /\ Rule[b].step \in Nat \ {0} /\ Rule[b].eligibleAfter \in Nat
      /\ Joined[b] \in Int /\ Months \in Nat \ {0} /\ MonthDays \in Nat \ {0}
  BY RuleAssumption, BoundAssumption DEF Rules
<1>2. y \in Int /\ i \in Int
  BY YearDaysType, BoundAssumption DEF Years, Periods, Year
<1>3. UpfrontCredit(b, y) \in Int
  <2>1. Joined[b] % YearDays \in Int
    BY <1>1, YearDaysType
  <2>2. (Joined[b] % YearDays) \div MonthDays \in Int
    BY <2>1, <1>1
  <2> DEFINE share == Rule[b].quantity * (Months - (Joined[b] % YearDays) \div MonthDays)
  <2>3. share \in Int
    BY <2>2, <1>1
  <2> HIDE DEF share
  <2>4. RoundToHalf(share, Months) \in Int
    BY <2>3, <1>1, RoundType
  <2>. QED BY <2>4, <1>1 DEF UpfrontCredit, share
<1>4. PeriodCredit(b, y, i) \in Int
  <2>1. YearStart(y) \in Int
    BY <1>2, YearDaysType DEF YearStart
  <2>2. PeriodStart(y, i) \in Int
    BY <1>1, <1>2, <2>1 DEF PeriodStart
  <2>3. Rule[b].step * MonthDays \in Nat \ {0}
    <3>1. \A m, n \in Nat \ {0} : m * n \in Nat \ {0}
      OBVIOUS
    <3>. QED BY <3>1, <1>1
  <2>4. PeriodEnd(b, y, i) - PeriodStart(y, i) = Rule[b].step * MonthDays /\ PeriodEnd(b, y, i) \in Int
    BY <2>2, <2>3 DEF PeriodEnd
  <2>5. AccrualStart(b, y) \in Int
    BY <1>1, <2>1 DEF AccrualStart, EligibleOn
  <2>6. Rule[b].quantity * (PeriodEnd(b, y, i) - AccrualStart(b, y)) \in Int
    BY <1>1, <2>4, <2>5
  <2>7. RoundToHalf(Rule[b].quantity * (PeriodEnd(b, y, i) - AccrualStart(b, y)),
                    PeriodEnd(b, y, i) - PeriodStart(y, i)) \in Int
    BY <2>3, <2>4, <2>6, RoundType
  <2>. QED BY <1>1, <2>7 DEF PeriodCredit
<1>. QED BY <1>3, <1>4 DEF Credit

(* What is due has not been credited.                                      *)
LEMMA DueIsNew ==
  ASSUME TypeOK, NEW b \in Buckets, NEW y \in Years
  PROVE  /\ Due(b, y) \subseteq Periods
         /\ \A i \in Due(b, y) : posted[b][y].accrual[i] = 0 /\ Credit(b, y, i) \in Nat
<1>1. Rule[b].mode \in {"upfront_annual", "periodic_accrual"} /\ 1 \in Periods
  BY RuleAssumption, BoundAssumption DEF Rules, Periods
<1>2. \A i \in Periods : posted[b][y].accrual[i] \in Nat
  BY DEF TypeOK, Entry
<1>3. \A i \in Periods : i \notin Credited(b, y) => posted[b][y].accrual[i] = 0
  BY <1>2 DEF Credited
<1>4. \A i \in Due(b, y) : i \in Periods /\ i \notin Credited(b, y) /\ Credit(b, y, i) > 0
  BY <1>1 DEF Due, Credit, PeriodsForYear
<1>. QED BY <1>3, <1>4, CreditType

(* A distribution fits what was found.                                     *)
LEMMA DistributionFits ==
  ASSUME NEW b \in Buckets, NEW n \in Int, n > 0
  PROVE  /\ Distribution(b, n) \in [encashed : Nat, carried : Nat, lapsed : Nat]
         /\ Fits(b, Distribution(b, n), n)
<1>1. /\ Rule[b].encashmentCap \in Caps /\ Rule[b].carryForwardCap \in Nat \cap Caps
      /\ Rule[b].encashable \in BOOLEAN /\ Rule[b].lapseExcess \in BOOLEAN
      /\ Rule[b].carryForwardCap # NoCap
  BY RuleAssumption DEF Rules, Caps
<1>2. ASSUME NEW m \in Nat, NEW cap \in Caps
      PROVE  /\ Capped(m, cap) \in Nat /\ Capped(m, cap) <= m
             /\ cap # NoCap => Capped(m, cap) <= cap
  BY RuleAssumption DEF Caps, Capped
<1> DEFINE encashed == IF Rule[b].encashable THEN Capped(n, Rule[b].encashmentCap) ELSE 0
           carried == Capped(n - encashed, Rule[b].carryForwardCap)
           lapsed == IF Rule[b].lapseExcess THEN n - encashed - carried ELSE 0
<1>3. /\ encashed \in Nat /\ encashed <= n
      /\ Rule[b].encashmentCap # NoCap => encashed <= Rule[b].encashmentCap
  <2>1. CASE Rule[b].encashable
    BY <2>1, <1>1, <1>2
  <2>2. CASE ~Rule[b].encashable
    BY <2>2, <1>1, RuleAssumption DEF Caps
  <2>. QED BY <2>1, <2>2
<1> HIDE DEF encashed
<1>4. carried \in Nat /\ carried <= n - encashed /\ carried <= Rule[b].carryForwardCap
  <2>1. n - encashed \in Nat
    BY <1>3
  <2>2. /\ Capped(n - encashed, Rule[b].carryForwardCap) \in Nat
        /\ Capped(n - encashed, Rule[b].carryForwardCap) <= n - encashed
        /\ Capped(n - encashed, Rule[b].carryForwardCap) <= Rule[b].carryForwardCap
    BY <2>1, <1>1, <1>2
  <2>. QED BY <2>2
<1> HIDE DEF carried
<1>5. lapsed \in Nat /\ encashed + carried + lapsed <= n
  BY <1>1, <1>3, <1>4
<1> HIDE DEF lapsed
<1>6. Distribution(b, n) = [encashed |-> encashed, carried |-> carried, lapsed |-> lapsed]
  BY DEF Distribution, encashed, carried, lapsed
<1>. QED BY <1>3, <1>4, <1>5, <1>6 DEF Fits

-----------------------------------------------------------------------------
(* What a step does to the ledger.                                         *)

Ledger == [Buckets -> [Years -> Entry]]

(* An entry of one bucket and year leaves the others alone.                *)
LEMMA Entered ==
  ASSUME posted \in Ledger, NEW b \in Buckets, NEW y \in Years, NEW e \in Entry, Enter(b, y, e)
  PROVE  /\ posted' \in Ledger
         /\ posted'[b][y] = e
         /\ \A c \in Buckets, z \in Years : c # b \/ z # y => posted'[c][z] = posted[c][z]
BY DEF Ledger, Enter

SameAccruals == \A b \in Buckets, y \in Years : posted'[b][y].accrual = posted[b][y].accrual

SameClosing ==
  \A b \in Buckets, y \in Years :
    /\ posted'[b][y].encashed = posted[b][y].encashed
    /\ posted'[b][y].carriedOut = posted[b][y].carriedOut
    /\ posted'[b][y].carriedIn = posted[b][y].carriedIn

SameLapsed == \A b \in Buckets, y \in Years : posted'[b][y].lapsed = posted[b][y].lapsed

(* The new accrued sum of one period.                                      *)
LEMMA PostCreditDoes ==
  ASSUME TypeOK, AccrualInv, NEW b \in Buckets, PostCredit(b)
  PROVE  \E i \in accrual.due :
           LET y == accrual.year
               q == Credit(b, y, i)
               e == posted[b][y]
           IN /\ q \in Nat /\ i \in Periods /\ y \in Years
              /\ posted' \in Ledger
              /\ posted'[b][y] = [e EXCEPT !.accrual = [e.accrual EXCEPT ![i] = q], !.credited = e.credited + q]
              /\ \A c \in Buckets, z \in Years : c # b \/ z # y => posted'[c][z] = posted[c][z]
              /\ ThenAccrue(i)
<1>1. PICK i \in accrual.due :
        /\ Enter(b, accrual.year, [posted[b][accrual.year] EXCEPT
                                     !.accrual[i] = @ + Credit(b, accrual.year, i),
                                     !.credited = @ + Credit(b, accrual.year, i)])
        /\ ThenAccrue(i)
  BY DEF PostCredit
<1> DEFINE y == accrual.year
           q == Credit(b, y, i)
           e == posted[b][y]
           new == [e EXCEPT !.accrual = [e.accrual EXCEPT ![i] = q], !.credited = e.credited + q]
<1>2. y \in Years /\ i \in Periods /\ posted \in Ledger
  BY DEF TypeOK, AccrualState, Ledger
<1>3. e \in Entry
  BY <1>2 DEF Ledger
<1>4. q \in Nat /\ e.accrual[i] = 0
  BY DEF AccrualInv, PostCredit
<1>5. Enter(b, y, [e EXCEPT !.accrual[i] = @ + q, !.credited = @ + q])
  BY <1>1
<1> HIDE DEF q, e, y
<1>6. [e EXCEPT !.accrual[i] = @ + q, !.credited = @ + q] = new /\ new \in Entry
  <2>1. [e EXCEPT !.accrual[i] = @ + q, !.credited = @ + q] = new
    <3>1. e.accrual[i] + q = q
      BY <1>4
    <3>. QED BY <3>1
  <2>2. [e.accrual EXCEPT ![i] = q] \in [Periods -> Nat] /\ e.credited + q \in Int
    BY <1>2, <1>3, <1>4 DEF Entry
  <2>3. new \in Entry
    BY <1>3, <2>2 DEF Entry
  <2>. QED BY <2>1, <2>3
<1>7. Enter(b, y, new)
  BY <1>5, <1>6
<1> HIDE DEF new
<1>8. /\ posted' \in Ledger /\ posted'[b][y] = new
      /\ \A c \in Buckets, z \in Years : c # b \/ z # y => posted'[c][z] = posted[c][z]
  BY <1>2, <1>6, <1>7, Entered
<1>. QED BY <1>1, <1>2, <1>4, <1>8 DEF q, e, y, new

(* The steps of the year-end job that post.                                *)
LEMMA EncashDoes ==
  ASSUME TypeOK, NEW b \in Buckets, Encash(b)
  PROVE  LET y == close.year
             e == posted[b][y]
         IN /\ y \in Years /\ posted' \in Ledger
            /\ posted'[b][y] = [e EXCEPT !.encashed = e.encashed + close.dist.encashed]
            /\ \A c \in Buckets, z \in Years : c # b \/ z # y => posted'[c][z] = posted[c][z]
<1> DEFINE y == close.year
           e == posted[b][y]
           new == [e EXCEPT !.encashed = e.encashed + close.dist.encashed]
<1>1. y \in Years /\ posted \in Ledger /\ close.dist.encashed \in Nat
  BY DEF TypeOK, CloseState, Ledger, Encash
<1>2. e \in Entry
  BY <1>1 DEF Ledger
<1>3. Enter(b, y, new)
  BY DEF Encash
<1> HIDE DEF e, y
<1>4. new \in Entry
  BY <1>1, <1>2 DEF Entry
<1> HIDE DEF new
<1>5. /\ posted' \in Ledger /\ posted'[b][y] = new
      /\ \A c \in Buckets, z \in Years : c # b \/ z # y => posted'[c][z] = posted[c][z]
  BY <1>1, <1>3, <1>4, Entered
<1>. QED BY <1>1, <1>5 DEF new, e, y

(* Carrying out leaves the old year with less.                             *)
LEMMA CarryOutDoes ==
  ASSUME TypeOK, NEW b \in Buckets, CarryOut(b)
  PROVE  LET y == close.year
             e == posted[b][y]
         IN /\ y \in Years /\ posted' \in Ledger
            /\ posted'[b][y] = [e EXCEPT !.carriedOut = e.carriedOut + close.dist.carried, !.credited = e.credited - close.dist.carried]
            /\ \A c \in Buckets, z \in Years : c # b \/ z # y => posted'[c][z] = posted[c][z]
<1> DEFINE y == close.year
           e == posted[b][y]
           new == [e EXCEPT !.carriedOut = e.carriedOut + close.dist.carried, !.credited = e.credited - close.dist.carried]
<1>1. y \in Years /\ posted \in Ledger /\ close.dist.carried \in Nat
  BY DEF TypeOK, CloseState, Ledger, CarryOut
<1>2. e \in Entry
  BY <1>1 DEF Ledger
<1>3. Enter(b, y, new)
  BY DEF CarryOut
<1> HIDE DEF e, y
<1>4. new \in Entry
  <2>1. e.carriedOut + close.dist.carried \in Nat /\ e.credited - close.dist.carried \in Int
    BY <1>1, <1>2 DEF Entry
  <2> DEFINE n == e.carriedOut + close.dist.carried
             m == e.credited - close.dist.carried
  <2> HIDE DEF n, m
  <2>2. [e EXCEPT !.carriedOut = n, !.credited = m] \in Entry
    BY <1>2, <2>1 DEF Entry, n, m
  <2>. QED BY <2>2 DEF n, m
<1> HIDE DEF new
<1>5. /\ posted' \in Ledger /\ posted'[b][y] = new
      /\ \A c \in Buckets, z \in Years : c # b \/ z # y => posted'[c][z] = posted[c][z]
  BY <1>1, <1>3, <1>4, Entered
<1>. QED BY <1>1, <1>5 DEF new, e, y

(* Carrying in touches the year after the one being closed.                *)
LEMMA CarryInDoes ==
  ASSUME TypeOK, CloseInv, NEW b \in Buckets, CarryIn(b)
  PROVE  LET y == close.year + 1
             e == posted[b][y]
         IN /\ y \in Years /\ posted' \in Ledger
            /\ posted'[b][y] = [e EXCEPT !.carriedIn = e.carriedIn + close.dist.carried, !.credited = e.credited + close.dist.carried]
            /\ \A c \in Buckets, z \in Years : c # b \/ z # y => posted'[c][z] = posted[c][z]
<1> DEFINE y == close.year + 1
           e == posted[b][y]
           new == [e EXCEPT !.carriedIn = e.carriedIn + close.dist.carried, !.credited = e.credited + close.dist.carried]
<1>1. y \in Years /\ posted \in Ledger /\ close.dist.carried \in Nat
  BY DEF TypeOK, CloseState, Ledger, CloseInv, CarryIn
<1>2. e \in Entry
  BY <1>1 DEF Ledger
<1>3. Enter(b, y, new)
  BY DEF CarryIn
<1> HIDE DEF e, y
<1>4. new \in Entry
  <2>1. e.carriedIn + close.dist.carried \in Nat /\ e.credited + close.dist.carried \in Int
    BY <1>1, <1>2 DEF Entry
  <2> DEFINE n == e.carriedIn + close.dist.carried
             m == e.credited + close.dist.carried
  <2> HIDE DEF n, m
  <2>2. [e EXCEPT !.carriedIn = n, !.credited = m] \in Entry
    BY <1>2, <2>1 DEF Entry, n, m
  <2>. QED BY <2>2 DEF n, m
<1> HIDE DEF new
<1>5. /\ posted' \in Ledger /\ posted'[b][y] = new
      /\ \A c \in Buckets, z \in Years : c # b \/ z # y => posted'[c][z] = posted[c][z]
  BY <1>1, <1>3, <1>4, Entered
<1>. QED BY <1>1, <1>5 DEF new, e, y

(* Lapsing posts the third amount.                                         *)
LEMMA LapseDoes ==
  ASSUME TypeOK, NEW b \in Buckets, Lapse(b)
  PROVE  LET y == close.year
             e == posted[b][y]
         IN /\ y \in Years /\ posted' \in Ledger
            /\ posted'[b][y] = [e EXCEPT !.lapsed = e.lapsed + close.dist.lapsed]
            /\ \A c \in Buckets, z \in Years : c # b \/ z # y => posted'[c][z] = posted[c][z]
<1> DEFINE y == close.year
           e == posted[b][y]
           new == [e EXCEPT !.lapsed = e.lapsed + close.dist.lapsed]
<1>1. y \in Years /\ posted \in Ledger /\ close.dist.lapsed \in Nat
  BY DEF TypeOK, CloseState, Ledger, Lapse
<1>2. e \in Entry
  BY <1>1 DEF Ledger
<1>3. Enter(b, y, new)
  BY DEF Lapse
<1> HIDE DEF e, y
<1>4. new \in Entry
  BY <1>1, <1>2 DEF Entry
<1> HIDE DEF new
<1>5. /\ posted' \in Ledger /\ posted'[b][y] = new
      /\ \A c \in Buckets, z \in Years : c # b \/ z # y => posted'[c][z] = posted[c][z]
  BY <1>1, <1>3, <1>4, Entered
<1>. QED BY <1>1, <1>5 DEF new, e, y

(* Leave is used and given back.                                           *)
LEMMA UsedDoes ==
  ASSUME TypeOK, NEW b \in Buckets, NEW y \in Years, NEW n \in Nat,
         Enter(b, y, [posted[b][y] EXCEPT !.used = n])
  PROVE  /\ posted' \in Ledger
         /\ posted'[b][y] = [posted[b][y] EXCEPT !.used = n]
         /\ \A c \in Buckets, z \in Years : c # b \/ z # y => posted'[c][z] = posted[c][z]
<1> DEFINE e == posted[b][y]
           new == [e EXCEPT !.used = n]
<1>1. posted \in Ledger
  BY DEF TypeOK, Ledger
<1>2. e \in Entry
  BY <1>1 DEF Ledger
<1>3. Enter(b, y, new)
  OBVIOUS
<1> HIDE DEF e
<1>4. new \in Entry
  BY <1>2 DEF Entry
<1> HIDE DEF new
<1>5. /\ posted' \in Ledger /\ posted'[b][y] = new
      /\ \A c \in Buckets, z \in Years : c # b \/ z # y => posted'[c][z] = posted[c][z]
  BY <1>1, <1>3, <1>4, Entered
<1>. QED BY <1>5 DEF new, e

-----------------------------------------------------------------------------
(* Types.                                                                  *)

(* The first state is typed.                                               *)
LEMMA TypeInit == Init => TypeOK
<1> SUFFICES ASSUME Init PROVE TypeOK
  OBVIOUS
<1>1. 0 \in 0 .. MaxDay /\ 0 \in Years /\ 0 \in 0 .. MaxCrashes /\ 0 \in 0 .. MaxPosts
  <2>1. Year(0) = 0
    BY YearDaysType DEF Year
  <2>. QED BY <2>1, YearType, BoundAssumption
<1>2. Empty \in Entry
  BY DEF Empty, Entry
<1>. QED BY <1>1, <1>2 DEF Init, TypeOK, NoAccrual, NoClose, Nothing, AccrualState, CloseState, NoLeave, Leave

(* The jobs leave the state typed.                                         *)
LEMMA AccrualTyped ==
  ASSUME TypeOK, AccrualInv, AccrualStep PROVE TypeOK'
<1> USE DEF AccrualUnchanged, failures, requests
<1>1. CASE StartAccrual
  BY <1>1, YearType DEF StartAccrual, NoAccrual, TypeOK, AccrualState
<1>2. CASE EndAccrual
  <2>1. NoAccrual \in AccrualState
    BY YearType, TypeInit, BoundAssumption, YearDaysType DEF NoAccrual, AccrualState, Years, Year
  <2>. QED BY <1>2, <2>1 DEF EndAccrual, TypeOK
<1>3. ASSUME NEW b \in Buckets, Survey(b) PROVE TypeOK'
  <2>1. accrual.year \in Years
    BY DEF TypeOK, AccrualState
  <2>2. PICK due \in {{}, Due(b, accrual.year)} :
          accrual' = [accrual EXCEPT !.queue = @ \ {b}, !.bucket = b, !.due = due,
                                     !.pc = IF due = {} THEN "next" ELSE "check"]
    BY <1>3 DEF Survey
  <2>3. due \in SUBSET Periods
    BY <2>1, <2>2, DueIsNew
  <2>4. accrual' \in AccrualState
    BY <2>2, <2>3 DEF TypeOK, AccrualState
  <2>. QED BY <1>3, <2>4 DEF Survey, TypeOK
<1>4. ASSUME NEW i, ThenAccrue(i) PROVE accrual' \in AccrualState
  BY <1>4 DEF ThenAccrue, TypeOK, AccrualState
<1>5. ASSUME NEW b \in Buckets, Check(b) PROVE TypeOK'
  <2>1. accrual' \in AccrualState
    BY <1>4, <1>5 DEF Check, TypeOK, AccrualState
  <2>. QED BY <1>5, <2>1 DEF Check, TypeOK
<1>6. ASSUME NEW b \in Buckets, PostCredit(b) PROVE TypeOK'
  <2>1. posted' \in Ledger /\ accrual' \in AccrualState
    BY <1>4, <1>6, PostCreditDoes
  <2>. QED BY <1>6, <2>1 DEF PostCredit, TypeOK, Ledger
<1>. QED BY <1>1, <1>2, <1>3, <1>5, <1>6 DEF AccrualStep

(* The year-end job leaves the state typed.                                *)
LEMMA CloseTyped ==
  ASSUME TypeOK, CloseInv, CloseStep PROVE TypeOK'
<1> USE DEF CloseUnchanged, failures, requests, books
<1>1. CASE StartClose
  <2>1. InWindow /\ Year(day) - 1 \in Years
    BY <1>1, YearType DEF StartClose, InWindow, TypeOK
  <2>2. \A b \in Buckets : Available(b, Year(day) - 1) \in Int
    BY <2>1 DEF Available, TypeOK, Entry
  <2>3. close' \in CloseState
    BY <1>1, <2>1, <2>2 DEF StartClose, NoClose, Nothing, CloseState
  <2>4. raced' \subseteq Buckets \X Years
    BY <1>1, <2>1 DEF StartClose, TypeOK
  <2>. QED BY <1>1, <2>3, <2>4 DEF StartClose, TypeOK
<1>2. CASE EndClose
  <2>1. NoClose \in CloseState
    BY YearType, BoundAssumption, YearDaysType DEF NoClose, Nothing, CloseState, Years, Year
  <2>. QED BY <1>2, <2>1 DEF EndClose, TypeOK
<1>3. ASSUME NEW pc \in {"next", "encash", "record", "out", "in", "lapse"}, GotoClose(pc)
      PROVE  close' \in CloseState
  BY <1>3 DEF GotoClose, TypeOK, CloseState
<1>4. ASSUME NEW d PROVE /\ AfterEncash(d) \in {"next", "encash", "record", "out", "in", "lapse"}
                         /\ FirstOf(d) \in {"next", "encash", "record", "out", "in", "lapse"}
                         /\ AfterCarry(d) \in {"next", "encash", "record", "out", "in", "lapse"}
  BY DEF AfterEncash, FirstOf, AfterCarry
<1>5. ASSUME NEW b \in Buckets, CloseBucket(b) PROVE TypeOK'
  <2>1. close.found[b] \in Int /\ close.found[b] > 0
    BY <1>5 DEF CloseBucket, CloseInv, TypeOK, CloseState
  <2>2. Distribution(b, close.found[b]) \in [encashed : Nat, carried : Nat, lapsed : Nat]
    BY <2>1, DistributionFits
  <2>3. close' \in CloseState
    BY <1>4, <1>5, <2>2 DEF CloseBucket, TypeOK, CloseState
  <2>. QED BY <1>5, <2>3 DEF CloseBucket, TypeOK
<1>6. ASSUME NEW b \in Buckets, Encash(b) PROVE TypeOK'
  <2>1. posted' \in Ledger /\ close' \in CloseState
    BY <1>3, <1>6, EncashDoes DEF Encash
  <2>. QED BY <1>6, <2>1 DEF Encash, TypeOK, Ledger
<1>7. ASSUME NEW b \in Buckets, Record(b) PROVE TypeOK'
  <2>1. close' \in CloseState
    BY <1>3, <1>4, <1>7 DEF Record
  <2>2. close.dist.encashed \in Nat /\ close.year \in Years
    BY DEF TypeOK, CloseState
  <2>3. records' \in [Buckets -> [Years -> Nat]]
    BY <1>7, <2>2 DEF Record, TypeOK
  <2>. QED BY <1>7, <2>1, <2>3 DEF Record, TypeOK
<1>8. ASSUME NEW b \in Buckets, CarryOut(b) PROVE TypeOK'
  <2>1. posted' \in Ledger /\ close' \in CloseState
    BY <1>3, <1>8, CarryOutDoes DEF CarryOut
  <2>. QED BY <1>8, <2>1 DEF CarryOut, TypeOK, Ledger
<1>9. ASSUME NEW b \in Buckets, CarryIn(b) PROVE TypeOK'
  <2>1. posted' \in Ledger /\ close' \in CloseState
    BY <1>3, <1>4, <1>9, CarryInDoes DEF CarryIn
  <2>. QED BY <1>9, <2>1 DEF CarryIn, TypeOK, Ledger
<1>10. ASSUME NEW b \in Buckets, Lapse(b) PROVE TypeOK'
  <2>1. posted' \in Ledger /\ close' \in CloseState
    BY <1>3, <1>10, LapseDoes DEF Lapse
  <2>. QED BY <1>10, <2>1 DEF Lapse, TypeOK, Ledger
<1>. QED BY <1>1, <1>2, <1>5, <1>6, <1>7, <1>8, <1>9, <1>10 DEF CloseStep

(* What is left when a run fails.                                          *)
LEMMA FailureDoes ==
  ASSUME TypeOK, Failure
  PROVE  /\ accrual' \in AccrualState /\ close' \in CloseState
         /\ \/ accrual' = accrual
            \/ accrual'.pc \in {"rest", "next"}
         /\ \/ close' = close
            \/ close' = NoClose
            \/ close' = [close EXCEPT !.pc = "next"]
         /\ Fail /\ ran' \subseteq {"accrual", "close"}
         /\ torn \subseteq torn' /\ torn' \subseteq torn \cup CutShort
<1>1. NoAccrual \in AccrualState /\ NoClose \in CloseState
  BY YearType, BoundAssumption, YearDaysType
     DEF NoAccrual, AccrualState, NoClose, Nothing, CloseState, Years, Year
<1>2. NoAccrual.pc = "rest"
  BY DEF NoAccrual
<1>3. CASE DieAccrual
  BY <1>1, <1>2, <1>3 DEF DieAccrual, TypeOK
<1>4. CASE DieClose
  BY <1>1, <1>4 DEF DieClose, TypeOK
<1>5. CASE SkipAccrual
  BY <1>5 DEF SkipAccrual, TypeOK, AccrualState
<1>6. CASE SkipClose
  BY <1>6 DEF SkipClose, GotoClose, TypeOK, CloseState
<1>7. ASSUME NEW job \in {"accrual", "close"}, Miss(job)
      PROVE  accrual' = accrual /\ close' = close /\ Fail /\ ran' \subseteq {"accrual", "close"} /\ torn' = torn
  BY <1>7 DEF Miss, TypeOK
<1>. QED BY <1>3, <1>4, <1>5, <1>6, <1>7 DEF Failure, TypeOK

(* Failures leave the state typed.                                         *)
LEMMA FailureTyped ==
  ASSUME TypeOK, CloseInv, Failure PROVE TypeOK'
<1>1. crashes' \in 0 .. MaxCrashes
  BY FailureDoes, BoundAssumption DEF Fail, TypeOK
<1>2. torn' \subseteq Buckets \X Years
  <2>1. CutShort \subseteq Buckets \X Years
    <3>1. close.pc \notin {"rest", "next"} => close.bucket \in Buckets /\ close.year \in Years
      BY DEF CloseInv, TypeOK, CloseState, Busy
    <3>. QED BY <3>1 DEF CutShort
  <2>. QED BY <2>1, FailureDoes DEF TypeOK
<1>. QED BY <1>1, <1>2, FailureDoes DEF Fail, TypeOK, books, requests

(* Requests are counted on from one stage to the next.                     *)
LEMMA LeaveCounts ==
  ASSUME NEW l \in Leave
  PROVE  /\ l.asked > 0 =>
              LET k == [l EXCEPT !.asked = l.asked - 1, !.made = l.made + 1, !.open = l.open + 1]
              IN k \in Leave /\ k.asked = l.asked - 1 /\ k.made = l.made + 1 /\ k.freed = l.freed
         /\ l.open > 0 =>
              LET k == [l EXCEPT !.open = l.open - 1, !.freed = l.freed + 1]
              IN k \in Leave /\ k.asked = l.asked /\ k.made = l.made /\ k.freed = l.freed + 1
<1>1. /\ l.made + 1 \in Nat /\ l.open + 1 \in Nat /\ l.freed + 1 \in Nat
      /\ l.asked > 0 => l.asked - 1 \in Nat
      /\ l.open > 0 => l.open - 1 \in Nat
  BY DEF Leave
<1>2. ASSUME NEW x \in Nat, NEW y \in Nat
      PROVE  LET k == [l EXCEPT !.open = x, !.freed = y]
             IN k \in Leave /\ k.asked = l.asked /\ k.made = l.made /\ k.freed = y
  BY DEF Leave
<1>3. ASSUME l.asked > 0
      PROVE  LET k == [l EXCEPT !.asked = l.asked - 1, !.made = l.made + 1, !.open = l.open + 1]
             IN k \in Leave /\ k.asked = l.asked - 1 /\ k.made = l.made + 1 /\ k.freed = l.freed
  <2> DEFINE x == l.asked - 1
             y == l.made + 1
             z == l.open + 1
  <2>1. x \in Nat /\ y \in Nat /\ z \in Nat
    BY <1>1, <1>3
  <2> HIDE DEF x, y, z
  <2>2. LET k == [l EXCEPT !.asked = x, !.made = y, !.open = z]
        IN k \in Leave /\ k.asked = x /\ k.made = y /\ k.freed = l.freed
    BY <2>1 DEF Leave
  <2>. QED BY <2>2 DEF x, y, z
<1>4. ASSUME l.open > 0
      PROVE  LET k == [l EXCEPT !.open = l.open - 1, !.freed = l.freed + 1]
             IN k \in Leave /\ k.asked = l.asked /\ k.made = l.made /\ k.freed = l.freed + 1
  BY <1>1, <1>2, <1>4, Zenon
<1>. QED BY <1>3, <1>4

(* What each step of a leave request does to its bucket and year.          *)
LEMMA HandleDoes ==
  ASSUME TypeOK, NEW b \in Buckets, NEW y \in Years, NEW l \in Leave, Handle(b, y, l)
  PROVE  /\ leave' \in [Buckets -> [Years -> Leave]]
         /\ leave'[b][y] = l
         /\ \A c \in Buckets, z \in Years : c # b \/ z # y => leave'[c][z] = leave[c][z]
         /\ UNCHANGED <<day, records, accrual, close, ran, crashes, torn>>
BY DEF Handle, failures, TypeOK

(* The steps of leave requests.                                            *)
RequestStep(b, y) ==
  \/ Apply(b, y) \/ Create(b, y) \/ Reserve(b, y) \/ Refuse(b, y)
  \/ Settle(b, y) \/ Release(b, y) \/ Withdraw(b, y) \/ Drop(b, y)

(* The books of the bucket and year, and nothing else, change.             *)
Elsewhere(b, y) ==
  /\ posted' \in Ledger
  /\ pending' \in [Buckets -> [Years -> Int]]
  /\ leave' \in [Buckets -> [Years -> Leave]]
  /\ \A c \in Buckets, z \in Years : c # b \/ z # y =>
       posted'[c][z] = posted[c][z] /\ pending'[c][z] = pending[c][z] /\ leave'[c][z] = leave[c][z]
  /\ posted'[b][y].accrual = posted[b][y].accrual
  /\ posted'[b][y].credited = posted[b][y].credited
  /\ posted'[b][y].encashed = posted[b][y].encashed
  /\ posted'[b][y].carriedOut = posted[b][y].carriedOut
  /\ posted'[b][y].carriedIn = posted[b][y].carriedIn
  /\ posted'[b][y].lapsed = posted[b][y].lapsed
  /\ UNCHANGED <<day, records, accrual, close, ran, crashes, torn>>

(* An application makes what is left less, having seen that it is there    *)
(* unless it races; nothing else does, short of a death.                   *)
Weighs(b, y) ==
  LET l == leave[b][y]
      k == leave'[b][y]
      before == posted[b][y].used + pending[b][y] - l.freed + l.asked + l.made
      after == posted'[b][y].used + pending'[b][y] - k.freed + k.asked + k.made
  IN \/ <<b, y>> \in raced'
     \/ after <= before
     \/ /\ after = before + 1 /\ l.asked + l.made = 0 /\ Available(b, y) > 0
        /\ ~(close.pc # "rest" /\ close.year = y)

(* The year is over, and is marked late, if its books change.              *)
Marks(b, y) ==
  /\ raced \subseteq raced' /\ raced' \subseteq raced \cup {<<b, y>>}
  /\ late \subseteq late' /\ late' \subseteq late \cup {<<b, y>>}
  /\ y < Year(day) /\ (posted'[b][y] # posted[b][y] \/ pending'[b][y] # pending[b][y]) => <<b, y>> \in late'
  /\ posts' \in 0 .. MaxPosts

(* Every step of a leave request does all this.                            *)
LEMMA RequestDoes ==
  ASSUME TypeOK, NEW b \in Buckets, NEW y \in Years, RequestStep(b, y)
  PROVE  Elsewhere(b, y) /\ Weighs(b, y) /\ Marks(b, y)
<1> DEFINE l == leave[b][y]
           e == posted[b][y]
           n == pending[b][y]
<1>0. /\ l \in Leave /\ e \in Entry /\ n \in Int /\ pending \in [Buckets -> [Years -> Int]] /\ posted \in Ledger
      /\ posts \in 0 .. MaxPosts /\ MaxPosts \in Nat
  BY BoundAssumption DEF TypeOK, Ledger
<1>c. Call => posts' \in 0 .. MaxPosts
  BY <1>0 DEF Call
<1>t. Touch(b, y) => /\ late \subseteq late' /\ late' \subseteq late \cup {<<b, y>>}
                     /\ y < Year(day) => <<b, y>> \in late'
  BY DEF Touch
<1>1. CASE Apply(b, y)
  <2> DEFINE k == [l EXCEPT !.asked = l.asked + 1]
  <2>1. k \in Leave /\ k.asked = l.asked + 1 /\ k.made = l.made /\ k.freed = l.freed
    BY <1>0 DEF Leave
  <2>2. Handle(b, y, k) /\ UNCHANGED <<posted, pending, late>> /\ Available(b, y) > 0 /\ Call
    BY <1>1 DEF Apply
  <2>3. /\ raced \subseteq raced' /\ raced' \subseteq raced \cup {<<b, y>>}
        /\ Applying(b, y) > 0 \/ (close.pc # "rest" /\ close.year = y) => <<b, y>> \in raced'
    BY <1>1 DEF Apply
  <2> HIDE DEF k
  <2>4. Elsewhere(b, y) /\ leave'[b][y] = k
    BY <1>0, <2>1, <2>2, HandleDoes DEF Elsewhere
  <2>5. Weighs(b, y)
    <3>1. CASE <<b, y>> \in raced'
      BY <3>1 DEF Weighs
    <3>2. CASE <<b, y>> \notin raced'
      <4>1. l.asked + l.made = 0 /\ ~(close.pc # "rest" /\ close.year = y)
        <5>1. l.asked \in Nat /\ l.made \in Nat
          BY <1>0 DEF Leave
        <5>. QED BY <2>3, <3>2, <5>1 DEF Applying
      <4>2. posted'[b][y].used + pending'[b][y] - k.freed + k.asked + k.made
              = posted[b][y].used + pending[b][y] - l.freed + l.asked + l.made + 1
        <5>1. /\ l.asked \in Nat /\ l.made \in Nat /\ l.freed \in Nat
              /\ e.used \in Nat /\ n \in Int
          BY <1>0 DEF Leave, Entry
        <5>2. posted'[b][y].used = e.used /\ pending'[b][y] = n
          BY <2>2
        <5>. QED BY <2>1, <5>1, <5>2
      <4>. QED BY <2>2, <2>4, <4>1, <4>2 DEF Weighs
    <3>. QED BY <3>1, <3>2
  <2>. QED BY <1>c, <2>2, <2>3, <2>4, <2>5 DEF Marks
<1>2. CASE Create(b, y)
  <2> DEFINE k == [l EXCEPT !.asked = l.asked - 1, !.made = l.made + 1, !.open = l.open + 1]
  <2>1. l.asked > 0 /\ Handle(b, y, k) /\ UNCHANGED <<posted, pending, posts, late, raced>>
    BY <1>2 DEF Create
  <2>2. k \in Leave /\ k.asked = l.asked - 1 /\ k.made = l.made + 1 /\ k.freed = l.freed
    BY <1>0, <2>1, LeaveCounts
  <2> HIDE DEF k
  <2>4. Elsewhere(b, y) /\ leave'[b][y] = k
    BY <1>0, <2>1, <2>2, HandleDoes DEF Elsewhere
  <2>. QED BY <1>0, <2>1, <2>2, <2>4 DEF Marks, Weighs, Leave, Entry
<1>3. CASE Reserve(b, y)
  <2> DEFINE k == [l EXCEPT !.made = l.made - 1]
  <2>1. /\ l.made > 0 /\ Handle(b, y, k) /\ UNCHANGED <<posted, posts, raced>> /\ Touch(b, y)
        /\ pending' = [pending EXCEPT ![b][y] = n + 1]
    BY <1>3 DEF Reserve
  <2>2. k \in Leave /\ k.asked = l.asked /\ k.made = l.made - 1 /\ k.freed = l.freed
    BY <1>0, <2>1 DEF Leave
  <2> HIDE DEF k
  <2>3. /\ pending' \in [Buckets -> [Years -> Int]] /\ pending'[b][y] = n + 1
        /\ \A c \in Buckets, z \in Years : c # b \/ z # y => pending'[c][z] = pending[c][z]
    BY <1>0, <2>1
  <2>4. Elsewhere(b, y) /\ leave'[b][y] = k
    BY <1>0, <2>1, <2>2, <2>3, HandleDoes DEF Elsewhere
  <2>. QED BY <1>0, <1>t, <2>1, <2>2, <2>3, <2>4 DEF Marks, Weighs, Leave, Entry
<1>4. CASE Refuse(b, y)
  <2> DEFINE k == [l EXCEPT !.open = l.open - 1, !.freed = l.freed + 1]
  <2>1. l.open > 0 /\ Handle(b, y, k) /\ UNCHANGED <<posted, pending, late, raced>> /\ Call
    BY <1>4 DEF Refuse
  <2>2. k \in Leave /\ k.asked = l.asked /\ k.made = l.made /\ k.freed = l.freed + 1
    BY <1>0, <2>1, LeaveCounts
  <2> HIDE DEF k
  <2>4. Elsewhere(b, y) /\ leave'[b][y] = k
    BY <1>0, <2>1, <2>2, HandleDoes DEF Elsewhere
  <2>. QED BY <1>0, <1>c, <2>1, <2>2, <2>4 DEF Marks, Weighs, Leave, Entry
<1>5. CASE Settle(b, y)
  <2> DEFINE k == [l EXCEPT !.open = l.open - 1, !.freed = l.freed + 1]
             f == [e EXCEPT !.used = e.used + 1]
  <2>1. /\ l.open > 0 /\ Handle(b, y, k) /\ Enter(b, y, f) /\ UNCHANGED <<pending, raced>>
        /\ Touch(b, y) /\ Call
    BY <1>5 DEF Settle
  <2>2. k \in Leave /\ k.asked = l.asked /\ k.made = l.made /\ k.freed = l.freed + 1
    BY <1>0, <2>1, LeaveCounts
  <2>3. /\ f.used = e.used + 1 /\ e.used + 1 \in Nat /\ f.accrual = e.accrual /\ f.credited = e.credited
        /\ f.encashed = e.encashed /\ f.carriedOut = e.carriedOut /\ f.carriedIn = e.carriedIn /\ f.lapsed = e.lapsed
    BY <1>0 DEF Entry
  <2>4. /\ posted' \in Ledger /\ posted'[b][y] = f
        /\ \A c \in Buckets, z \in Years : c # b \/ z # y => posted'[c][z] = posted[c][z]
    BY <2>1, <2>3, UsedDoes
  <2> HIDE DEF k, f
  <2>5. Elsewhere(b, y) /\ leave'[b][y] = k
    BY <1>0, <2>1, <2>2, <2>3, <2>4, HandleDoes DEF Elsewhere
  <2>. QED BY <1>0, <1>c, <1>t, <2>1, <2>2, <2>3, <2>4, <2>5 DEF Marks, Weighs, Leave, Entry
<1>6. CASE Release(b, y)
  <2> DEFINE k == [l EXCEPT !.freed = l.freed - 1]
  <2>1. /\ l.freed > 0 /\ Handle(b, y, k) /\ UNCHANGED <<posted, posts, raced>> /\ Touch(b, y)
        /\ pending' = [pending EXCEPT ![b][y] = n - 1]
    BY <1>6 DEF Release
  <2>2. k \in Leave /\ k.asked = l.asked /\ k.made = l.made /\ k.freed = l.freed - 1
    BY <1>0, <2>1 DEF Leave
  <2> HIDE DEF k
  <2>3. /\ pending' \in [Buckets -> [Years -> Int]] /\ pending'[b][y] = n - 1
        /\ \A c \in Buckets, z \in Years : c # b \/ z # y => pending'[c][z] = pending[c][z]
    BY <1>0, <2>1
  <2>4. Elsewhere(b, y) /\ leave'[b][y] = k
    BY <1>0, <2>1, <2>2, <2>3, HandleDoes DEF Elsewhere
  <2>. QED BY <1>0, <1>t, <2>1, <2>2, <2>3, <2>4 DEF Marks, Weighs, Leave, Entry
<1>7. CASE Withdraw(b, y)
  <2> DEFINE f == [e EXCEPT !.used = e.used - 1]
  <2>1. /\ e.used > 0 /\ Handle(b, y, l) /\ Enter(b, y, f) /\ UNCHANGED <<pending, raced>>
        /\ Touch(b, y) /\ Call
    BY <1>7 DEF Withdraw
  <2>3. /\ f.used = e.used - 1 /\ e.used - 1 \in Nat /\ f.accrual = e.accrual /\ f.credited = e.credited
        /\ f.encashed = e.encashed /\ f.carriedOut = e.carriedOut /\ f.carriedIn = e.carriedIn /\ f.lapsed = e.lapsed
    BY <1>0, <2>1 DEF Entry
  <2>4. /\ posted' \in Ledger /\ posted'[b][y] = f
        /\ \A c \in Buckets, z \in Years : c # b \/ z # y => posted'[c][z] = posted[c][z]
    BY <2>1, <2>3, UsedDoes
  <2> HIDE DEF f
  <2>5. Elsewhere(b, y) /\ leave'[b][y] = l
    BY <1>0, <2>1, <2>3, <2>4, HandleDoes DEF Elsewhere
  <2>. QED BY <1>0, <1>c, <1>t, <2>1, <2>3, <2>4, <2>5 DEF Marks, Weighs, Leave, Entry
<1>8. CASE Drop(b, y)
  <2>1. /\ UNCHANGED <<posted, pending, posts, late>>
        /\ \/ raced' = raced /\ l.asked > 0 /\ Handle(b, y, [l EXCEPT !.asked = l.asked - 1])
           \/ /\ raced' = raced \cup {<<b, y>>}
              /\ \/ l.made > 0 /\ Handle(b, y, [l EXCEPT !.made = l.made - 1])
                 \/ l.open > 0 /\ Handle(b, y, [l EXCEPT !.open = l.open - 1])
                 \/ l.freed > 0 /\ Handle(b, y, [l EXCEPT !.freed = l.freed - 1])
    BY <1>8 DEF Drop
  <2>2. PICK k \in Leave :
          /\ Handle(b, y, k)
          /\ \/ raced' = raced /\ k.asked = l.asked - 1 /\ k.made = l.made /\ k.freed = l.freed
             \/ raced' = raced \cup {<<b, y>>}
    <3>1. /\ l.asked > 0 => [l EXCEPT !.asked = l.asked - 1] \in Leave
          /\ l.made > 0 => [l EXCEPT !.made = l.made - 1] \in Leave
          /\ l.open > 0 => [l EXCEPT !.open = l.open - 1] \in Leave
          /\ l.freed > 0 => [l EXCEPT !.freed = l.freed - 1] \in Leave
      BY <1>0 DEF Leave
    <3>2. /\ [l EXCEPT !.asked = l.asked - 1].asked = l.asked - 1
          /\ [l EXCEPT !.asked = l.asked - 1].made = l.made
          /\ [l EXCEPT !.asked = l.asked - 1].freed = l.freed
      BY <1>0 DEF Leave
    <3>. QED BY <2>1, <3>1, <3>2
  <2>4. Elsewhere(b, y) /\ leave'[b][y] = k
    BY <1>0, <2>1, <2>2, HandleDoes DEF Elsewhere
  <2>. QED BY <1>0, <2>1, <2>2, <2>4 DEF Marks, Weighs, Leave, Entry
<1>. QED BY <1>1, <1>2, <1>3, <1>4, <1>5, <1>6, <1>7, <1>8 DEF RequestStep

(* So do leave requests leave the state typed.                             *)
LEMMA LeaveTyped ==
  ASSUME TypeOK, LeaveStep PROVE TypeOK'
<1>1. PICK b \in Buckets, y \in Years : RequestStep(b, y)
  BY DEF LeaveStep, RequestStep
<1>2. Elsewhere(b, y) /\ Marks(b, y)
  BY <1>1, RequestDoes
<1>. QED BY <1>2 DEF Elsewhere, Marks, TypeOK, Ledger

(* Every step leaves the state typed.                                      *)
LEMMA TypeStep ==
  ASSUME TypeOK, AccrualInv, CloseInv, [Next]_vars PROVE TypeOK'
<1>1. CASE Tick
  BY <1>1, BoundAssumption DEF Tick, TypeOK, books, requests, failures
<1>2. CASE UNCHANGED vars
  BY <1>2 DEF vars, books, failures, requests, TypeOK
<1>. QED BY <1>1, <1>2, AccrualTyped, CloseTyped, FailureTyped, LeaveTyped DEF Next

-----------------------------------------------------------------------------
(* What the steps of one actor leave alone.                                *)

(* A balance is a number of half days.                                     *)
LEMMA AvailableType ==
  ASSUME TypeOK PROVE \A b \in Buckets, y \in Years : Available(b, y) \in Int
BY DEF TypeOK, Entry, Available
LEMMA AvailableNext ==
  ASSUME TypeOK' PROVE \A b \in Buckets, y \in Years : Available(b, y)' \in Int
BY DEF TypeOK, Entry, Available

More == \A b \in Buckets, y \in Years : Available(b, y)' >= Available(b, y)

(* Accrual only adds, and leaves the closing alone.                        *)
LEMMA AccrualEffect ==
  ASSUME TypeOK, AccrualInv, AccrualStep
  PROVE  /\ SameClosing /\ SameLapsed /\ More
         /\ UNCHANGED <<records, close, crashes, torn, leave, late, raced>>
<1> USE DEF AccrualUnchanged, requests, failures
<1>1. UNCHANGED <<records, close, crashes, torn, leave, late, raced, pending>>
  BY DEF AccrualStep, StartAccrual, EndAccrual, Survey, Check, PostCredit
<1>2. ASSUME posted' = posted PROVE SameClosing /\ SameLapsed /\ More
  <2>1. \A b \in Buckets, y \in Years : Available(b, y)' = Available(b, y) /\ Available(b, y) \in Int
    BY <1>1, <1>2 DEF Available, TypeOK, Entry
  <2>. QED BY <1>2, <2>1 DEF SameClosing, SameLapsed, More
<1>3. ASSUME NEW b \in Buckets, PostCredit(b) PROVE SameClosing /\ SameLapsed /\ More
  <2>1. PICK i \in accrual.due :
          LET y == accrual.year
              q == Credit(b, y, i)
              e == posted[b][y]
          IN /\ q \in Nat /\ i \in Periods /\ y \in Years
             /\ posted' \in Ledger
             /\ posted'[b][y] = [e EXCEPT !.accrual = [e.accrual EXCEPT ![i] = q], !.credited = e.credited + q]
             /\ \A c \in Buckets, z \in Years : c # b \/ z # y => posted'[c][z] = posted[c][z]
    BY <1>3, PostCreditDoes
  <2> DEFINE y == accrual.year
             q == Credit(b, y, i)
  <2> HIDE DEF q
  <2>2. posted[b][y] \in Entry /\ y \in Years /\ q \in Nat
    BY <2>1 DEF TypeOK, q
  <2>3. /\ posted'[b][y].credited = posted[b][y].credited + q
        /\ posted'[b][y].used = posted[b][y].used
        /\ posted'[b][y].encashed = posted[b][y].encashed
        /\ posted'[b][y].lapsed = posted[b][y].lapsed
        /\ posted'[b][y].carriedOut = posted[b][y].carriedOut
        /\ posted'[b][y].carriedIn = posted[b][y].carriedIn
    BY <2>1, <2>2 DEF Entry, q
  <2>4. SameClosing /\ SameLapsed
    BY <2>1, <2>3 DEF SameClosing, SameLapsed
  <2>5. ASSUME NEW c \in Buckets, NEW z \in Years PROVE Available(c, z)' >= Available(c, z)
    <3>1. CASE c = b /\ z = y
      BY <1>1, <2>2, <2>3, <3>1 DEF Available, TypeOK, Entry
    <3>2. CASE c # b \/ z # y
      BY <1>1, <2>1, <3>2 DEF Available, TypeOK, Entry
    <3>. QED BY <3>1, <3>2
  <2>. QED BY <2>4, <2>5 DEF More
<1>. QED BY <1>1, <1>2, <1>3 DEF AccrualStep, StartAccrual, EndAccrual, Survey, Check

(* The close leaves accruals alone.                                        *)
LEMMA CloseEffect ==
  ASSUME TypeOK, CloseInv, CloseStep
  PROVE  /\ SameAccruals /\ UNCHANGED <<accrual, pending, crashes, torn, leave, late>>
         /\ raced \subseteq raced' /\ (~StartClose => raced' = raced)
<1> USE DEF CloseUnchanged, failures, books, SameAccruals
<1>1. /\ UNCHANGED <<accrual, pending, crashes, torn, leave, late>>
      /\ raced \subseteq raced' /\ (~StartClose => raced' = raced)
  BY DEF CloseStep, StartClose, EndClose, CloseBucket, Encash, Record, CarryOut, CarryIn, Lapse
<1>2. ASSUME NEW b \in Buckets, NEW y \in Years, posted[b][y] \in Entry,
             posted'[b][y].accrual = posted[b][y].accrual,
             \A c \in Buckets, z \in Years : c # b \/ z # y => posted'[c][z] = posted[c][z]
      PROVE  SameAccruals
  BY <1>2
<1>3. ASSUME NEW b \in Buckets, Encash(b) PROVE SameAccruals
  <2>1. posted[b][close.year] \in Entry
    BY DEF TypeOK, CloseState
  <2>2. posted'[b][close.year].accrual = posted[b][close.year].accrual
    BY <1>3, <2>1, EncashDoes DEF Entry
  <2>. QED BY <1>2, <1>3, <2>1, <2>2, EncashDoes
<1>4. ASSUME NEW b \in Buckets, CarryOut(b) PROVE SameAccruals
  <2>1. posted[b][close.year] \in Entry
    BY DEF TypeOK, CloseState
  <2>2. posted'[b][close.year].accrual = posted[b][close.year].accrual
    BY <1>4, <2>1, CarryOutDoes DEF Entry
  <2>. QED BY <1>2, <1>4, <2>1, <2>2, CarryOutDoes
<1>5. ASSUME NEW b \in Buckets, CarryIn(b) PROVE SameAccruals
  <2>1. posted[b][close.year + 1] \in Entry
    BY <1>5, CarryInDoes DEF TypeOK
  <2>2. posted'[b][close.year + 1].accrual = posted[b][close.year + 1].accrual
    BY <1>5, <2>1, CarryInDoes DEF Entry
  <2>. QED BY <1>2, <1>5, <2>1, <2>2, CarryInDoes
<1>6. ASSUME NEW b \in Buckets, Lapse(b) PROVE SameAccruals
  <2>1. posted[b][close.year] \in Entry
    BY DEF TypeOK, CloseState
  <2>2. posted'[b][close.year].accrual = posted[b][close.year].accrual
    BY <1>6, <2>1, LapseDoes DEF Entry
  <2>. QED BY <1>2, <1>6, <2>1, <2>2, LapseDoes
<1>7. ASSUME posted' = posted PROVE SameAccruals
  BY <1>7
<1>8. ASSUME NEW b \in Buckets, CloseBucket(b) \/ Record(b) PROVE posted' = posted
  BY <1>8 DEF CloseBucket, Record
<1>. QED BY <1>1, <1>3, <1>4, <1>5, <1>6, <1>7, <1>8 DEF CloseStep, StartClose, EndClose

(* Leave takes what is there, or is known to race.                         *)
LEMMA LeaveEffect ==
  ASSUME TypeOK, LeaveStep
  PROVE  /\ SameAccruals /\ SameClosing /\ SameLapsed
         /\ UNCHANGED <<day, accrual, close, ran, records, crashes, torn>>
         /\ raced \subseteq raced'
         /\ \A c \in Buckets, z \in Years :
              \/ <<c, z>> \in raced'
              \/ Coming(c, z)' >= Coming(c, z)
              \/ Coming(c, z)' >= 0 /\ ~(close.pc # "rest" /\ close.year = z)
<1>1. PICK b \in Buckets, y \in Years : RequestStep(b, y)
  BY DEF LeaveStep, RequestStep
<1>2. Elsewhere(b, y) /\ Weighs(b, y) /\ Marks(b, y)
  BY <1>1, RequestDoes
<1>3. SameAccruals /\ SameClosing /\ SameLapsed
  BY <1>2 DEF SameAccruals, SameClosing, SameLapsed, Elsewhere
<1>4. TypeOK'
  BY LeaveTyped
<1>5. ASSUME NEW c \in Buckets, NEW z \in Years, <<c, z>> \notin raced'
      PROVE  \/ Coming(c, z)' >= Coming(c, z)
             \/ Coming(c, z)' >= 0 /\ ~(close.pc # "rest" /\ close.year = z)
  <2>1. /\ posted[c][z] \in Entry /\ posted'[c][z] \in Entry /\ pending[c][z] \in Int /\ pending'[c][z] \in Int
        /\ leave[c][z] \in Leave /\ leave'[c][z] \in Leave
    BY <1>4 DEF TypeOK
  <2>2. CASE c = b /\ z = y
    <3>1. \/ Coming(b, y)' >= Coming(b, y)
          \/ /\ Coming(b, y)' = Coming(b, y) - 1 /\ Applying(b, y) = 0 /\ Available(b, y) > 0
             /\ ~(close.pc # "rest" /\ close.year = y)
      <4> DEFINE e == posted[b][y]
                 f == posted'[b][y]
                 l == leave[b][y]
                 k == leave'[b][y]
                 n == pending[b][y]
                 m == pending'[b][y]
      <4>1. /\ e.credited \in Int /\ e.used \in Nat /\ e.encashed \in Nat /\ e.lapsed \in Nat
            /\ f.used \in Nat /\ n \in Int /\ m \in Int
            /\ l.asked \in Nat /\ l.made \in Nat /\ l.freed \in Nat
            /\ k.asked \in Nat /\ k.made \in Nat /\ k.freed \in Nat
        BY <2>1, <2>2 DEF Entry, Leave
      <4>2. f.credited = e.credited /\ f.encashed = e.encashed /\ f.lapsed = e.lapsed
        BY <1>2 DEF Elsewhere
      <4>3. \/ f.used + m - k.freed + k.asked + k.made <= e.used + n - l.freed + l.asked + l.made
            \/ /\ f.used + m - k.freed + k.asked + k.made = e.used + n - l.freed + l.asked + l.made + 1
               /\ l.asked + l.made = 0 /\ Available(b, y) > 0
               /\ ~(close.pc # "rest" /\ close.year = y)
        BY <1>2, <1>5, <2>2 DEF Weighs
      <4>4. /\ Coming(b, y) = e.credited - e.used - e.encashed - e.lapsed - n + l.freed - (l.asked + l.made)
            /\ Coming(b, y)' = f.credited - f.used - f.encashed - f.lapsed - m + k.freed - (k.asked + k.made)
            /\ Applying(b, y) = l.asked + l.made
        BY DEF Coming, Applying, Available
      <4> HIDE DEF e, f, l, k, n, m
      <4>5. CASE f.used + m - k.freed + k.asked + k.made <= e.used + n - l.freed + l.asked + l.made
        <5>1. Coming(b, y)' >= Coming(b, y)
          BY <4>1, <4>2, <4>4, <4>5
        <5>. QED BY <5>1
      <4>6. CASE /\ f.used + m - k.freed + k.asked + k.made = e.used + n - l.freed + l.asked + l.made + 1
                 /\ l.asked + l.made = 0 /\ Available(b, y) > 0
                 /\ ~(close.pc # "rest" /\ close.year = y)
        <5>0. Coming(b, y) \in Int /\ Coming(b, y)' \in Int
          BY <4>1, <4>2, <4>4
        <5>a. f.used + m - k.freed + k.asked + k.made >= e.used + n - l.freed + l.asked + l.made + 1
          BY <4>1, <4>6
        <5>b. f.used + m - k.freed + k.asked + k.made <= e.used + n - l.freed + l.asked + l.made + 1
          BY <4>1, <4>6
        <5>c. Coming(b, y)' >= Coming(b, y) - 1
          BY <4>1, <4>2, <4>4, <5>b
        <5>d. Coming(b, y)' <= Coming(b, y) - 1
          BY <4>1, <4>2, <4>4, <5>a
        <5>1. Coming(b, y)' = Coming(b, y) - 1
          BY <5>0, <5>c, <5>d
        <5>. QED BY <4>4, <4>6, <5>1
      <4>. QED BY <4>3, <4>5, <4>6
    <3>2. Available(b, y) \in Int /\ leave[b][y].freed \in Nat
      BY <2>1, <2>2 DEF Available, Entry, Leave
    <3>. QED BY <2>2, <3>1, <3>2 DEF Coming
  <2>3. CASE c # b \/ z # y
    BY <1>2, <2>1, <2>3 DEF Elsewhere, Coming, Applying, Available, Entry, Leave
  <2>. QED BY <2>2, <2>3
<1>. QED BY <1>2, <1>3, <1>5 DEF Elsewhere, Marks

-----------------------------------------------------------------------------
(* A period is credited once.                                              *)

(* What is about to be credited stays uncredited until it is.              *)
LEMMA AccruedStep ==
  ASSUME TypeOK, AccrualInv, CloseInv, AccruedOnce, [Next]_vars PROVE AccrualInv' /\ AccruedOnce'
<1>1. ASSUME SameAccruals, accrual' = accrual \/ accrual'.pc \in {"rest", "next"}
      PROVE  AccrualInv' /\ AccruedOnce'
  <2>1. AccruedOnce'
    BY <1>1 DEF SameAccruals, AccruedOnce
  <2>2. accrual.year \in Years
    BY DEF TypeOK, AccrualState
  <2>3. AccrualInv'
    BY <1>1, <2>2 DEF SameAccruals, AccrualInv
  <2>. QED BY <2>1, <2>3
<1>2. CASE AccrualStep
  <2>1. CASE StartAccrual \/ EndAccrual
    <3>1. posted' = posted /\ accrual'.pc \in {"rest", "next"}
      <4>1. CASE StartAccrual
        BY <4>1 DEF StartAccrual, NoAccrual
      <4>2. CASE EndAccrual
        BY <4>2 DEF EndAccrual, NoAccrual
      <4>. QED BY <2>1, <4>1, <4>2
    <3>. QED BY <1>1, <3>1 DEF SameAccruals
  <2>2. ASSUME NEW b \in Buckets, Survey(b) PROVE AccrualInv' /\ AccruedOnce'
    <3>1. posted' = posted /\ accrual.year \in Years
      BY <2>2 DEF Survey, TypeOK, AccrualState
    <3>2. PICK due \in {{}, Due(b, accrual.year)} :
            accrual' = [accrual EXCEPT !.queue = @ \ {b}, !.bucket = b, !.due = due,
                                       !.pc = IF due = {} THEN "next" ELSE "check"]
      BY <2>2 DEF Survey
    <3>3. \A i \in due : posted[b][accrual.year].accrual[i] = 0 /\ Credit(b, accrual.year, i) \in Nat
      BY <3>1, <3>2, DueIsNew
    <3>4. accrual'.bucket = b /\ accrual'.due = due /\ accrual'.year = accrual.year
      BY <3>2 DEF TypeOK, AccrualState
    <3>. QED BY <3>1, <3>3, <3>4 DEF AccrualInv, AccruedOnce
  <2>3. ASSUME NEW b \in Buckets, Check(b) PROVE AccrualInv' /\ AccruedOnce'
    <3>1. posted' = posted /\ accrual.pc = "check"
      BY <2>3 DEF Check
    <3>2. accrual'.bucket = accrual.bucket /\ accrual'.year = accrual.year /\ accrual'.due \subseteq accrual.due
      BY <2>3 DEF Check, ThenAccrue, TypeOK, AccrualState
    <3>. QED BY <3>1, <3>2 DEF AccrualInv, AccruedOnce
  <2>4. ASSUME NEW b \in Buckets, PostCredit(b) PROVE AccrualInv' /\ AccruedOnce'
    <3>1. PICK i \in accrual.due :
            LET y == accrual.year
                q == Credit(b, y, i)
                e == posted[b][y]
            IN /\ q \in Nat /\ i \in Periods /\ y \in Years
               /\ posted' \in Ledger
               /\ posted'[b][y] = [e EXCEPT !.accrual = [e.accrual EXCEPT ![i] = q], !.credited = e.credited + q]
               /\ \A c \in Buckets, z \in Years : c # b \/ z # y => posted'[c][z] = posted[c][z]
               /\ ThenAccrue(i)
      BY <2>4, PostCreditDoes
    <3> DEFINE y == accrual.year
    <3>2. accrual.pc = "credit" /\ accrual.bucket = b
      BY <2>4 DEF PostCredit
    <3>3. posted[b][y] \in Entry /\ y \in Years
      BY <3>1 DEF TypeOK
    <3>4. \A j \in Periods : posted'[b][y].accrual[j] =
                               IF j = i THEN Credit(b, y, i) ELSE posted[b][y].accrual[j]
      BY <3>1, <3>3 DEF Entry
    <3>5. AccruedOnce'
      BY <3>1, <3>4 DEF AccruedOnce
    <3>6. accrual'.bucket = b /\ accrual'.year = y /\ accrual'.due = accrual.due \ {i} /\ accrual.due \subseteq Periods
      BY <3>1, <3>2 DEF ThenAccrue, TypeOK, AccrualState
    <3>7. AccrualInv'
      BY <3>2, <3>4, <3>6 DEF AccrualInv
    <3>. QED BY <3>5, <3>7
  <2>. QED BY <1>2, <2>1, <2>2, <2>3, <2>4 DEF AccrualStep
<1>3. CASE CloseStep
  BY <1>1, <1>3, CloseEffect
<1>4. CASE LeaveStep
  BY <1>1, <1>4, LeaveEffect
<1>5. CASE Failure
  BY <1>1, <1>5, FailureDoes DEF Fail, books, SameAccruals
<1>6. CASE Tick \/ UNCHANGED vars
  BY <1>1, <1>6 DEF Tick, vars, books, failures, SameAccruals
<1>. QED BY <1>2, <1>3, <1>4, <1>5, <1>6 DEF Next

-----------------------------------------------------------------------------
(* The caps of the year end.                                               *)

(* The next step of the close keeps the rest of its state.                 *)
LEMMA GotoDoes ==
  ASSUME TypeOK, NEW pc, GotoClose(pc)
  PROVE  /\ close'.pc = pc /\ close'.year = close.year /\ close'.queue = close.queue
         /\ close'.bucket = close.bucket /\ close'.found = close.found /\ close'.dist = close.dist
BY DEF GotoClose, TypeOK, CloseState

(* The job begins and ends with no bucket in hand.                         *)
LEMMA StartDoes ==
  ASSUME TypeOK, StartClose \/ EndClose
  PROVE  /\ posted' = posted /\ records' = records /\ crashes' = crashes
         /\ close'.pc \in {"rest", "next"} /\ close.pc \in {"rest", "next"}
         /\ close'.pc # "rest" => close'.year + 1 \in Years /\ close'.year \in Years
         /\ \A b \in close'.queue : b \in Buckets /\ close'.found[b] > 0
                                    /\ close'.found[b] = Available(b, close'.year)
<1>1. CASE StartClose
  <2>1. Year(day) > 0 /\ Year(day) - 1 \in Years /\ Year(day) - 1 + 1 \in Years
    BY <1>1, YearType DEF StartClose, InWindow, TypeOK
  <2>2. /\ close'.pc = "next" /\ close'.year = Year(day) - 1
        /\ close'.found = [b \in Buckets |-> Available(b, Year(day) - 1)]
        /\ close'.queue = {b \in Buckets : Available(b, Year(day) - 1) > 0}
    BY <1>1 DEF StartClose, NoClose
  <2>. QED BY <1>1, <2>1, <2>2 DEF StartClose, books, CloseUnchanged, failures
<1>2. CASE EndClose
  BY <1>2 DEF EndClose, NoClose, books, CloseUnchanged, failures
<1>. QED BY <1>1, <1>2

(* A bucket is taken in hand, or passed over.                              *)
LEMMA CloseBucketDoes ==
  ASSUME TypeOK, CloseInv, NEW b \in Buckets, CloseBucket(b)
  PROVE  /\ posted' = posted /\ records' = records /\ crashes' = crashes
         /\ close.pc = "next" /\ close.year + 1 \in Years /\ b \in close.queue
         /\ close'.year = close.year /\ close'.queue = close.queue \ {b} /\ close'.found = close.found
         /\ \/ close'.pc = "next"
            \/ /\ close'.bucket = b
               /\ close'.pc \in {"encash", "out", "lapse", "next"}
               /\ close'.pc = "out" => close'.dist.encashed = 0
               /\ close'.pc = "lapse" => close'.dist.encashed = 0 /\ close'.dist.carried = 0
               /\ close'.dist \in [encashed : Nat, carried : Nat, lapsed : Nat]
               /\ Fits(b, close'.dist, close.found[b])
               /\ posted[b][close.year].encashed = 0
               /\ posted[b][close.year].carriedOut = 0
<1>1. /\ close.pc = "next" /\ close.year \in Years /\ close.year + 1 \in Years /\ b \in close.queue
      /\ close.found[b] \in Int /\ close.found[b] > 0
  BY DEF CloseBucket, CloseInv, TypeOK, CloseState
<1>2. posted' = posted /\ records' = records /\ crashes' = crashes
  BY DEF CloseBucket, books, CloseUnchanged, failures
<1>3. CASE AlreadyClosed(b, close.year)
  <2>1. close' = [close EXCEPT !.queue = @ \ {b}]
    BY <1>3 DEF CloseBucket
  <2>. QED BY <1>1, <1>2, <2>1 DEF TypeOK, CloseState
<1>4. CASE ~AlreadyClosed(b, close.year)
  <2> DEFINE dist == Distribution(b, close.found[b])
  <2>1. close' = [close EXCEPT !.queue = @ \ {b}, !.bucket = b, !.dist = dist, !.pc = FirstOf(dist)]
    BY <1>4 DEF CloseBucket
  <2>2. dist \in [encashed : Nat, carried : Nat, lapsed : Nat] /\ Fits(b, dist, close.found[b])
    BY <1>1, DistributionFits
  <2>3. posted[b][close.year].encashed = 0 /\ posted[b][close.year].carriedOut = 0
    <3>1. posted[b][close.year] \in Entry
      BY <1>1 DEF TypeOK
    <3>. QED BY <1>4, <3>1 DEF AlreadyClosed, Entry
  <2> HIDE DEF dist
  <2>4. /\ FirstOf(dist) \in {"encash", "out", "lapse", "next"}
        /\ FirstOf(dist) = "out" => dist.encashed = 0
        /\ FirstOf(dist) = "lapse" => dist.encashed = 0 /\ dist.carried = 0
    BY <2>2 DEF FirstOf, AfterEncash
  <2>5. /\ close'.bucket = b /\ close'.dist = dist /\ close'.pc = FirstOf(dist)
        /\ close'.year = close.year /\ close'.queue = close.queue \ {b} /\ close'.found = close.found
    BY <2>1 DEF TypeOK, CloseState
  <2>. QED BY <1>1, <1>2, <2>2, <2>3, <2>4, <2>5
<1>. QED BY <1>3, <1>4

(* A bucket that was closed before is not closed again.                    *)
LEMMA CapsStep ==
  ASSUME TypeOK, AccrualInv, CloseInv, CapsHold, [Next]_vars PROVE CloseInv' /\ CapsHold'
<1>1. ASSUME SameClosing, close' = close PROVE CloseInv' /\ CapsHold'
  <2>1. close.year \in Years
    BY DEF TypeOK, CloseState
  <2>2. CapsHold'
    BY <1>1 DEF SameClosing, CapsHold
  <2>3. CloseInv'
    BY <1>1, <2>1 DEF SameClosing, CloseInv, Fits
  <2>. QED BY <2>2, <2>3
<1>2. CASE AccrualStep
  BY <1>1, <1>2, AccrualEffect
<1>3. CASE LeaveStep
  BY <1>1, <1>3, LeaveEffect
<1>4. CASE Tick \/ UNCHANGED vars
  BY <1>1, <1>4 DEF Tick, vars, books, failures, SameClosing
<1>5. CASE Failure
  <2>1. posted' = posted
    BY <1>5, FailureDoes DEF Fail, books
  <2>2. CASE close' = close
    BY <1>1, <2>1, <2>2 DEF SameClosing
  <2>3. CASE close' = NoClose
    BY <2>1, <2>3 DEF NoClose, CloseInv, CapsHold, Busy
  <2>4. CASE close' = [close EXCEPT !.pc = "next"]
    <3>1. close.pc # "rest"
      BY <1>5, <2>4, FailureDoes DEF Failure, DieClose, SkipClose, TypeOK, CloseState, Miss, DieAccrual, SkipAccrual
    <3>2. close'.pc = "next" /\ close'.queue = close.queue /\ close'.found = close.found /\ close'.year = close.year
      BY <2>4 DEF TypeOK, CloseState
    <3>. QED BY <2>1, <3>1, <3>2 DEF CloseInv, CapsHold, Busy
  <2>. QED BY <1>5, <2>2, <2>3, <2>4, FailureDoes
<1>6. CASE CloseStep
  <2>1. CASE StartClose \/ EndClose
    BY <2>1, StartDoes DEF CloseInv, CapsHold, Busy
  <2>2. ASSUME NEW b \in Buckets, CloseBucket(b) PROVE CloseInv' /\ CapsHold'
    <3>1. CapsHold'
      BY <2>2, CloseBucketDoes DEF CapsHold
    <3>2. CloseInv'
      BY <2>2, CloseBucketDoes DEF CloseInv, Busy, Fits
    <3>. QED BY <3>1, <3>2
  <2>3. ASSUME NEW b \in Buckets, Encash(b) PROVE CloseInv' /\ CapsHold'
    <3> DEFINE y == close.year
    <3>1. GotoClose("record") /\ close.pc = "encash" /\ close.bucket = b
      BY <2>3 DEF Encash
    <3>2. posted[b][y] \in Entry /\ close.dist.encashed \in Nat /\ y \in Years
      BY DEF TypeOK, CloseState
    <3>3. /\ posted'[b][y].encashed = posted[b][y].encashed + close.dist.encashed
          /\ posted'[b][y].carriedOut = posted[b][y].carriedOut
          /\ \A c \in Buckets, z \in Years : c # b \/ z # y => posted'[c][z] = posted[c][z]
      BY <2>3, <3>2, EncashDoes DEF Entry
    <3>4. CloseInv'
      BY <3>1, <3>3, GotoDoes DEF CloseInv, Busy, Fits
    <3>5. /\ posted[b][y].encashed = 0
          /\ Rule[b].encashmentCap # NoCap => close.dist.encashed <= Rule[b].encashmentCap
      BY <3>1 DEF CloseInv, Busy, Fits
    <3>6. CapsHold'
      BY <3>2, <3>3, <3>5 DEF CapsHold
    <3>. QED BY <3>4, <3>6
  <2>4. ASSUME NEW b \in Buckets, Record(b) PROVE CloseInv' /\ CapsHold'
    <3>1. /\ GotoClose(AfterEncash(close.dist)) /\ close.pc = "record" /\ close.bucket = b
          /\ posted' = posted
      BY <2>4 DEF Record
    <3>2. AfterEncash(close.dist) \in {"out", "lapse", "next"}
      BY DEF AfterEncash
    <3>. QED BY <3>1, <3>2, GotoDoes DEF CloseInv, CapsHold, Busy, Fits
  <2>5. ASSUME NEW b \in Buckets, CarryOut(b) PROVE CloseInv' /\ CapsHold'
    <3> DEFINE y == close.year
    <3>1. GotoClose("in") /\ close.pc = "out" /\ close.bucket = b
      BY <2>5 DEF CarryOut
    <3>2. posted[b][y] \in Entry /\ close.dist.carried \in Nat /\ y \in Years
      BY DEF TypeOK, CloseState
    <3>3. /\ posted'[b][y].carriedOut = posted[b][y].carriedOut + close.dist.carried
          /\ posted'[b][y].encashed = posted[b][y].encashed
          /\ \A c \in Buckets, z \in Years : c # b \/ z # y => posted'[c][z] = posted[c][z]
      BY <2>5, <3>2, CarryOutDoes DEF Entry
    <3>4. CloseInv'
      BY <3>1, <3>3, GotoDoes DEF CloseInv, Busy, Fits
    <3>5. posted[b][y].carriedOut = 0 /\ close.dist.carried <= Rule[b].carryForwardCap
      BY <3>1 DEF CloseInv, Busy, Fits
    <3>6. CapsHold'
      BY <3>2, <3>3, <3>5 DEF CapsHold
    <3>. QED BY <3>4, <3>6
  <2>6. ASSUME NEW b \in Buckets, CarryIn(b) PROVE CloseInv' /\ CapsHold'
    <3> DEFINE y == close.year + 1
    <3>1. GotoClose(AfterCarry(close.dist)) /\ close.pc = "in" /\ close.bucket = b
      BY <2>6 DEF CarryIn
    <3>2. posted[b][y] \in Entry
      BY <2>6, CarryInDoes DEF TypeOK
    <3>3. /\ posted'[b][y].carriedOut = posted[b][y].carriedOut
          /\ posted'[b][y].encashed = posted[b][y].encashed
          /\ \A c \in Buckets, z \in Years : c # b \/ z # y => posted'[c][z] = posted[c][z]
      BY <2>6, <3>2, CarryInDoes DEF Entry
    <3>4. AfterCarry(close.dist) \in {"lapse", "next"}
      BY DEF AfterCarry
    <3>5. CloseInv'
      BY <3>1, <3>4, GotoDoes DEF CloseInv, Busy, Fits
    <3>6. CapsHold'
      BY <3>3 DEF CapsHold
    <3>. QED BY <3>5, <3>6
  <2>7. ASSUME NEW b \in Buckets, Lapse(b) PROVE CloseInv' /\ CapsHold'
    <3> DEFINE y == close.year
    <3>1. GotoClose("next") /\ close.pc = "lapse"
      BY <2>7 DEF Lapse
    <3>2. posted[b][y] \in Entry /\ y \in Years
      BY DEF TypeOK, CloseState
    <3>3. /\ posted'[b][y].carriedOut = posted[b][y].carriedOut
          /\ posted'[b][y].encashed = posted[b][y].encashed
          /\ \A c \in Buckets, z \in Years : c # b \/ z # y => posted'[c][z] = posted[c][z]
      BY <2>7, <3>2, LapseDoes DEF Entry
    <3>4. CloseInv'
      BY <3>1, GotoDoes DEF CloseInv, Busy
    <3>5. CapsHold'
      BY <3>3 DEF CapsHold
    <3>. QED BY <3>4, <3>5
  <2>. QED BY <1>6, <2>1, <2>2, <2>3, <2>4, <2>5, <2>6, <2>7 DEF CloseStep
<1>. QED BY <1>2, <1>3, <1>4, <1>5, <1>6 DEF Next

-----------------------------------------------------------------------------
(* From one year to the next, and to payroll.                              *)

(* The amounts of one bucket and year.                                     *)
Flow(b, y) ==
  /\ y + 1 \in Years =>
       /\ posted[b][y + 1].carriedIn + OnTheWay(b, y) <= posted[b][y].carriedOut
       /\ crashes = 0 => posted[b][y + 1].carriedIn + OnTheWay(b, y) = posted[b][y].carriedOut
  /\ records[b][y] + Unrecorded(b, y) <= posted[b][y].encashed
  /\ crashes = 0 => records[b][y] + Unrecorded(b, y) = posted[b][y].encashed

(* The amounts that flow are numbers.                                      *)
LEMMA FlowTypes ==
  ASSUME TypeOK, NEW b \in Buckets, NEW y \in Years
  PROVE  /\ OnTheWay(b, y) \in Nat /\ Unrecorded(b, y) \in Nat /\ crashes \in Nat
         /\ posted[b][y].carriedIn \in Nat /\ posted[b][y].carriedOut \in Nat
         /\ posted[b][y].encashed \in Nat /\ records[b][y] \in Nat
BY BoundAssumption DEF TypeOK, CloseState, Entry, OnTheWay, Unrecorded

(* Every step keeps the flow.                                              *)
LEMMA FlowStep ==
  ASSUME TypeOK, TypeOK', AccrualInv, CloseInv, FlowInv, [Next]_vars PROVE FlowInv'
<1> SUFFICES ASSUME NEW b \in Buckets, NEW y \in Years PROVE Flow(b, y)'
  BY DEF FlowInv, Flow
<1>1. Flow(b, y) /\ y \in Int
  <2>1. y \in Int
    BY YearDaysType, BoundAssumption DEF Years, Year
  <2>. QED BY <2>1 DEF FlowInv, Flow
<1>2. ASSUME SameClosing, records' = records, crashes' = crashes,
             OnTheWay(b, y)' = OnTheWay(b, y), Unrecorded(b, y)' = Unrecorded(b, y)
      PROVE  Flow(b, y)'
  BY <1>1, <1>2 DEF SameClosing, Flow
<1>3. CASE AccrualStep
  BY <1>2, <1>3, AccrualEffect DEF OnTheWay, Unrecorded, InHand
<1>4. CASE LeaveStep
  BY <1>2, <1>4, LeaveEffect DEF OnTheWay, Unrecorded, InHand
<1>5. CASE Tick \/ UNCHANGED vars
  <2>1. posted' = posted /\ records' = records /\ crashes' = crashes /\ close' = close
    BY <1>5 DEF Tick, vars, books, failures
  <2>. QED BY <1>2, <2>1 DEF OnTheWay, Unrecorded, InHand, SameClosing
<1>6. CASE Failure
  <2>1. posted' = posted /\ records' = records /\ crashes' = crashes + 1
    BY <1>6, FailureDoes DEF Fail, books
  <2>2. OnTheWay(b, y)' \in {0, OnTheWay(b, y)} /\ Unrecorded(b, y)' \in {0, Unrecorded(b, y)}
    <3>1. CASE close' = close
      BY <3>1 DEF OnTheWay, Unrecorded, InHand
    <3>2. CASE close'.pc \in {"rest", "next"}
      BY <3>2 DEF OnTheWay, Unrecorded, InHand
    <3>3. NoClose.pc = "rest" /\ [close EXCEPT !.pc = "next"].pc = "next"
      BY DEF NoClose, TypeOK, CloseState
    <3>. QED BY <1>6, <3>1, <3>2, <3>3, FailureDoes
  <2>3. crashes' # 0
    BY <2>1, FlowTypes
  <2>4. /\ OnTheWay(b, y)' \in Nat /\ OnTheWay(b, y)' <= OnTheWay(b, y)
        /\ Unrecorded(b, y)' \in Nat /\ Unrecorded(b, y)' <= Unrecorded(b, y)
    BY <2>2, FlowTypes
  <2> DEFINE way == OnTheWay(b, y)'
             paper == Unrecorded(b, y)'
  <2>5. y + 1 \in Years => posted[b][y + 1].carriedIn + way <= posted[b][y].carriedOut
    BY <1>1, <2>4, FlowTypes DEF Flow
  <2>6. records[b][y] + paper <= posted[b][y].encashed
    BY <1>1, <2>4, FlowTypes DEF Flow
  <2>. QED BY <2>1, <2>3, <2>5, <2>6 DEF Flow
<1>7. CASE CloseStep
  <2>1. CASE StartClose \/ EndClose
    <3>1. posted' = posted /\ records' = records /\ crashes' = crashes
      BY <2>1, StartDoes
    <3>2. OnTheWay(b, y)' = OnTheWay(b, y) /\ Unrecorded(b, y)' = Unrecorded(b, y)
      BY <2>1, StartDoes DEF OnTheWay, Unrecorded, InHand
    <3>. QED BY <1>2, <3>1, <3>2 DEF SameClosing
  <2>2. ASSUME NEW c \in Buckets, CloseBucket(c) PROVE Flow(b, y)'
    <3>1. posted' = posted /\ records' = records /\ crashes' = crashes
      BY <2>2, CloseBucketDoes
    <3>2. OnTheWay(b, y)' = OnTheWay(b, y) /\ Unrecorded(b, y)' = Unrecorded(b, y)
      BY <2>2, CloseBucketDoes DEF OnTheWay, Unrecorded, InHand
    <3>. QED BY <1>2, <3>1, <3>2 DEF SameClosing
  <2>3. ASSUME NEW c \in Buckets, Encash(c) PROVE Flow(b, y)'
    <3> DEFINE n == IF c = b /\ close.year = y THEN close.dist.encashed ELSE 0
    <3>1. /\ GotoClose("record") /\ close.pc = "encash" /\ close.bucket = c
          /\ records' = records /\ crashes' = crashes
      BY <2>3 DEF Encash, CloseUnchanged, failures
    <3>2. close.year \in Years /\ posted[c][close.year] \in Entry /\ close.dist.encashed \in Nat
      BY DEF TypeOK, CloseState
    <3>3. \A x \in Buckets, z \in Years :
            /\ posted'[x][z].carriedIn = posted[x][z].carriedIn
            /\ posted'[x][z].carriedOut = posted[x][z].carriedOut
            /\ posted'[x][z].encashed = posted[x][z].encashed
                                          + (IF c = x /\ close.year = z THEN close.dist.encashed ELSE 0)
      <4>1. /\ posted'[c][close.year].carriedIn = posted[c][close.year].carriedIn
            /\ posted'[c][close.year].carriedOut = posted[c][close.year].carriedOut
            /\ posted'[c][close.year].encashed = posted[c][close.year].encashed + close.dist.encashed
        BY <2>3, <3>2, EncashDoes DEF Entry
      <4>2. ASSUME NEW x \in Buckets, NEW z \in Years, x # c \/ z # close.year
            PROVE  posted'[x][z] = posted[x][z]
        BY <2>3, <4>2, EncashDoes
      <4>3. TAKE x \in Buckets, z \in Years
      <4>4. CASE x = c /\ z = close.year
        BY <4>1, <4>4
      <4>5. CASE x # c \/ z # close.year
        BY <4>2, <4>5, FlowTypes
      <4>. QED BY <4>4, <4>5
    <3>4. OnTheWay(b, y)' = OnTheWay(b, y) /\ Unrecorded(b, y)' = n /\ Unrecorded(b, y) = 0
      BY <3>1, GotoDoes DEF OnTheWay, Unrecorded, InHand
    <3>5. n \in Nat
      BY <3>2
    <3> HIDE DEF n
    <3>6. posted'[b][y].encashed = posted[b][y].encashed + n
      BY <3>3 DEF n
    <3>. QED BY <1>1, <3>1, <3>3, <3>4, <3>5, <3>6, FlowTypes DEF Flow
  <2>4. ASSUME NEW c \in Buckets, Record(c) PROVE Flow(b, y)'
    <3> DEFINE n == IF c = b /\ close.year = y THEN close.dist.encashed ELSE 0
    <3>1. /\ GotoClose(AfterEncash(close.dist)) /\ close.pc = "record" /\ close.bucket = c
          /\ posted' = posted /\ crashes' = crashes
          /\ records' = [records EXCEPT ![c][close.year] = @ + close.dist.encashed]
      BY <2>4 DEF Record, CloseUnchanged, failures
    <3>2. AfterEncash(close.dist) \in {"out", "lapse", "next"}
      BY DEF AfterEncash
    <3>3. OnTheWay(b, y)' = OnTheWay(b, y) /\ Unrecorded(b, y)' = 0 /\ Unrecorded(b, y) = n
      BY <3>1, <3>2, GotoDoes DEF OnTheWay, Unrecorded, InHand
    <3>4. close.year \in Years /\ close.dist.encashed \in Nat
      BY DEF TypeOK, CloseState
    <3>5. n \in Nat /\ records'[b][y] = records[b][y] + n
      BY <3>1, <3>4, FlowTypes DEF TypeOK
    <3> HIDE DEF n
    <3>. QED BY <1>1, <3>1, <3>3, <3>5, FlowTypes DEF Flow
  <2>5. ASSUME NEW c \in Buckets, CarryOut(c) PROVE Flow(b, y)'
    <3> DEFINE n == IF c = b /\ close.year = y THEN close.dist.carried ELSE 0
    <3>1. /\ GotoClose("in") /\ close.pc = "out" /\ close.bucket = c
          /\ records' = records /\ crashes' = crashes
      BY <2>5 DEF CarryOut, CloseUnchanged, failures
    <3>2. close.year \in Years /\ posted[c][close.year] \in Entry /\ close.dist.carried \in Nat
      BY DEF TypeOK, CloseState
    <3>3. \A x \in Buckets, z \in Years :
            /\ posted'[x][z].carriedIn = posted[x][z].carriedIn
            /\ posted'[x][z].encashed = posted[x][z].encashed
            /\ posted'[x][z].carriedOut = posted[x][z].carriedOut
                                            + (IF c = x /\ close.year = z THEN close.dist.carried ELSE 0)
      <4>1. /\ posted'[c][close.year].carriedIn = posted[c][close.year].carriedIn
            /\ posted'[c][close.year].encashed = posted[c][close.year].encashed
            /\ posted'[c][close.year].carriedOut = posted[c][close.year].carriedOut + close.dist.carried
        BY <2>5, <3>2, CarryOutDoes DEF Entry
      <4>2. ASSUME NEW x \in Buckets, NEW z \in Years, x # c \/ z # close.year
            PROVE  posted'[x][z] = posted[x][z]
        BY <2>5, <4>2, CarryOutDoes
      <4>3. TAKE x \in Buckets, z \in Years
      <4>4. CASE x = c /\ z = close.year
        BY <4>1, <4>4
      <4>5. CASE x # c \/ z # close.year
        BY <4>2, <4>5, FlowTypes
      <4>. QED BY <4>4, <4>5
    <3>4. OnTheWay(b, y)' = n /\ OnTheWay(b, y) = 0 /\ Unrecorded(b, y)' = Unrecorded(b, y)
      BY <3>1, GotoDoes DEF OnTheWay, Unrecorded, InHand
    <3>5. n \in Nat
      BY <3>2
    <3> HIDE DEF n
    <3>6. posted'[b][y].carriedOut = posted[b][y].carriedOut + n
      BY <3>3 DEF n
    <3>. QED BY <1>1, <3>1, <3>3, <3>4, <3>5, <3>6, FlowTypes DEF Flow
  <2>6. ASSUME NEW c \in Buckets, CarryIn(c) PROVE Flow(b, y)'
    <3> DEFINE n == IF c = b /\ close.year = y THEN close.dist.carried ELSE 0
    <3>1. /\ GotoClose(AfterCarry(close.dist)) /\ close.pc = "in" /\ close.bucket = c
          /\ records' = records /\ crashes' = crashes
      BY <2>6 DEF CarryIn, CloseUnchanged, failures
    <3>2. /\ close.year \in Years /\ close.year \in Int /\ close.year + 1 \in Years
          /\ posted[c][close.year + 1] \in Entry /\ close.dist.carried \in Nat
      <4>1. close.year \in Years /\ close.dist.carried \in Nat
        BY DEF TypeOK, CloseState
      <4>2. close.year + 1 \in Years
        BY <3>1 DEF CloseInv
      <4>3. close.year \in Int
        BY <4>1, YearDaysType, BoundAssumption DEF Years, Year
      <4>. QED BY <4>1, <4>2, <4>3 DEF TypeOK
    <3>3. \A x \in Buckets, z \in Years :
            /\ posted'[x][z].carriedOut = posted[x][z].carriedOut
            /\ posted'[x][z].encashed = posted[x][z].encashed
            /\ posted'[x][z].carriedIn = posted[x][z].carriedIn
                                           + (IF c = x /\ close.year + 1 = z THEN close.dist.carried ELSE 0)
      <4>1. /\ posted'[c][close.year + 1].carriedOut = posted[c][close.year + 1].carriedOut
            /\ posted'[c][close.year + 1].encashed = posted[c][close.year + 1].encashed
            /\ posted'[c][close.year + 1].carriedIn = posted[c][close.year + 1].carriedIn + close.dist.carried
        BY <2>6, <3>2, CarryInDoes DEF Entry
      <4>2. ASSUME NEW x \in Buckets, NEW z \in Years, x # c \/ z # close.year + 1
            PROVE  posted'[x][z] = posted[x][z]
        BY <2>6, <4>2, CarryInDoes
      <4>3. TAKE x \in Buckets, z \in Years
      <4>4. CASE x = c /\ z = close.year + 1
        BY <4>1, <4>4
      <4>5. CASE x # c \/ z # close.year + 1
        BY <4>2, <4>5, FlowTypes
      <4>. QED BY <4>4, <4>5
    <3>4. AfterCarry(close.dist) \in {"lapse", "next"}
      BY DEF AfterCarry
    <3>5. OnTheWay(b, y)' = 0 /\ OnTheWay(b, y) = n /\ Unrecorded(b, y)' = Unrecorded(b, y)
      BY <3>1, <3>4, GotoDoes DEF OnTheWay, Unrecorded, InHand
    <3>6. n \in Nat
      BY <3>2
    <3> HIDE DEF n
    <3>7. y + 1 \in Years => posted'[b][y + 1].carriedIn = posted[b][y + 1].carriedIn + n
      BY <1>1, <3>2, <3>3 DEF n
    <3>. QED BY <1>1, <3>1, <3>3, <3>5, <3>6, <3>7, FlowTypes DEF Flow
  <2>7. ASSUME NEW c \in Buckets, Lapse(c) PROVE Flow(b, y)'
    <3>1. /\ GotoClose("next") /\ close.pc = "lapse" /\ records' = records /\ crashes' = crashes
      BY <2>7 DEF Lapse, CloseUnchanged, failures
    <3>2. close.year \in Years /\ posted[c][close.year] \in Entry
      BY DEF TypeOK, CloseState
    <3>3. SameClosing
      <4>1. /\ posted'[c][close.year].carriedIn = posted[c][close.year].carriedIn
            /\ posted'[c][close.year].carriedOut = posted[c][close.year].carriedOut
            /\ posted'[c][close.year].encashed = posted[c][close.year].encashed
        BY <2>7, <3>2, LapseDoes DEF Entry
      <4>2. ASSUME NEW x \in Buckets, NEW z \in Years, x # c \/ z # close.year
            PROVE  posted'[x][z] = posted[x][z]
        BY <2>7, <4>2, LapseDoes
      <4>. QED BY <4>1, <4>2 DEF SameClosing
    <3>4. OnTheWay(b, y)' = OnTheWay(b, y) /\ Unrecorded(b, y)' = Unrecorded(b, y)
      BY <3>1, GotoDoes DEF OnTheWay, Unrecorded, InHand
    <3>. QED BY <1>2, <3>1, <3>3, <3>4
  <2>. QED BY <1>7, <2>1, <2>2, <2>3, <2>4, <2>5, <2>6, <2>7 DEF CloseStep
<1>. QED BY <1>3, <1>4, <1>5, <1>6, <1>7 DEF Next

-----------------------------------------------------------------------------
(* The close takes no more than is there.                                  *)

(* A step of the close takes n from one bucket, and nothing from others.   *)
Takes(b, n) ==
  \A c \in Buckets, z \in Years :
    Left'[c][z] >= Left[c][z] - (IF c = b /\ z = close.year THEN n ELSE 0)

(* What is left is a number; NotOverdrawn in terms of it.                  *)
LEMMA LeftType ==
  ASSUME TypeOK
  PROVE  /\ Left \in [Buckets -> [Years -> Int]]
         /\ \A b \in Buckets, y \in Years : Left[b][y] = Coming(b, y)
         /\ NotOverdrawn <=> \A b \in Buckets, y \in Years : <<b, y>> \notin raced => Left[b][y] >= 0
<1>1. ASSUME NEW b \in Buckets, NEW y \in Years
      PROVE  /\ Coming(b, y) \in Int
             /\ Coming(b, y) >= 0 <=> Available(b, y) + leave[b][y].freed >= Applying(b, y)
  BY DEF TypeOK, Entry, Leave, Available, Applying, Coming
<1>. QED BY <1>1 DEF Left, NotOverdrawn

(* The same after a step.                                                  *)
LEMMA LeftNext ==
  ASSUME TypeOK'
  PROVE  /\ Left' \in [Buckets -> [Years -> Int]]
         /\ \A b \in Buckets, y \in Years : Left'[b][y] = Coming(b, y)'
         /\ NotOverdrawn' <=> \A b \in Buckets, y \in Years : <<b, y>> \notin raced' => Left'[b][y] >= 0
<1>1. ASSUME NEW b \in Buckets, NEW y \in Years
      PROVE  /\ Coming(b, y)' \in Int /\ Left'[b][y] = Coming(b, y)'
             /\ Coming(b, y)' >= 0 <=> (Available(b, y) + leave[b][y].freed >= Applying(b, y))'
  BY DEF TypeOK, Entry, Leave, Available, Applying, Coming, Left
<1>2. Left' \in [Buckets -> [Years -> Int]]
  <2>1. Left' = [b \in Buckets |-> [y \in Years |-> Coming(b, y)']]
    BY DEF Left
  <2>. QED BY <1>1, <2>1
<1>. QED BY <1>1, <1>2 DEF NotOverdrawn

(* Without a posting, a reservation or a request nothing changes.          *)
LEMMA LeftSame ==
  ASSUME posted' = posted, pending' = pending, leave' = leave PROVE Left' = Left
BY DEF Left, Coming, Applying, Available

(* What each posting of the close takes.                                   *)
LEMMA CloseTakes ==
  ASSUME TypeOK, TypeOK', CloseInv, CloseStep, NEW b \in Buckets
  PROVE  /\ Encash(b) => Takes(b, close.dist.encashed)
         /\ CarryOut(b) => Takes(b, close.dist.carried)
         /\ CarryIn(b) => Takes(b, 0)
         /\ Lapse(b) => Takes(b, close.dist.lapsed)
<1>1. /\ pending' = pending /\ leave' = leave /\ close.year \in Years /\ close.dist.encashed \in Nat
      /\ close.dist.carried \in Nat /\ close.dist.lapsed \in Nat
  BY CloseEffect DEF TypeOK, CloseState
<1>2. ASSUME NEW y \in Years, NEW n \in Nat, n = 0 \/ y = close.year,
             Available(b, y)' >= Available(b, y) - n,
             \A c \in Buckets, z \in Years : c # b \/ z # y => posted'[c][z] = posted[c][z]
      PROVE  Takes(b, n)
  <2>1. SUFFICES ASSUME NEW c \in Buckets, NEW z \in Years
                 PROVE  Left'[c][z] >= Left[c][z] - (IF c = b /\ z = close.year THEN n ELSE 0)
    BY DEF Takes
  <2>2. /\ Left[c][z] \in Int /\ Left[c][z] = Coming(c, z) /\ Left'[c][z] = Coming(c, z)'
        /\ Available(c, z) \in Int /\ Available(c, z)' \in Int
    BY LeftType, LeftNext, AvailableType, AvailableNext
  <2>s. leave[c][z].freed \in Nat /\ Applying(c, z) \in Nat /\ Applying(c, z)' = Applying(c, z)
    BY <1>1 DEF TypeOK, Leave, Applying
  <2>3. CASE c = b /\ z = y
    BY <1>1, <1>2, <2>2, <2>s, <2>3 DEF Coming
  <2>4. CASE c # b \/ z # y
    <3>1. Left'[c][z] = Left[c][z]
      <4>1. Available(c, z)' = Available(c, z)
        BY <1>1, <1>2, <2>4 DEF Available
      <4>. QED BY <1>1, <2>2, <2>s, <4>1 DEF Coming
    <3>. QED BY <1>2, <2>2, <3>1
  <2>. QED BY <2>3, <2>4
<1>3. ASSUME Encash(b) PROVE Takes(b, close.dist.encashed)
  <2>1. posted[b][close.year] \in Entry
    BY <1>1 DEF TypeOK
  <2>2. /\ posted'[b][close.year].credited = posted[b][close.year].credited
        /\ posted'[b][close.year].used = posted[b][close.year].used
        /\ posted'[b][close.year].encashed = posted[b][close.year].encashed + close.dist.encashed
        /\ posted'[b][close.year].lapsed = posted[b][close.year].lapsed
    BY <1>3, <2>1, EncashDoes DEF Entry
  <2>3. PICK y \in Years : y = close.year
    BY <1>1
  <2>4. Available(b, y)' >= Available(b, y) - close.dist.encashed
    BY <1>1, <2>1, <2>2, <2>3 DEF Available, TypeOK, Entry
  <2>. QED BY <1>1, <1>2, <1>3, <2>3, <2>4, EncashDoes
<1>4. ASSUME CarryOut(b) PROVE Takes(b, close.dist.carried)
  <2>1. posted[b][close.year] \in Entry
    BY <1>1 DEF TypeOK
  <2>2. /\ posted'[b][close.year].credited = posted[b][close.year].credited - close.dist.carried
        /\ posted'[b][close.year].used = posted[b][close.year].used
        /\ posted'[b][close.year].encashed = posted[b][close.year].encashed
        /\ posted'[b][close.year].lapsed = posted[b][close.year].lapsed
    BY <1>4, <2>1, CarryOutDoes DEF Entry
  <2>3. PICK y \in Years : y = close.year
    BY <1>1
  <2>4. Available(b, y)' >= Available(b, y) - close.dist.carried
    BY <1>1, <2>1, <2>2, <2>3 DEF Available, TypeOK, Entry
  <2>. QED BY <1>1, <1>2, <1>4, <2>3, <2>4, CarryOutDoes
<1>5. ASSUME CarryIn(b) PROVE Takes(b, 0)
  <2>1. posted[b][close.year + 1] \in Entry /\ close.year + 1 \in Years
    BY <1>5, CarryInDoes DEF TypeOK
  <2>2. /\ posted'[b][close.year + 1].credited = posted[b][close.year + 1].credited + close.dist.carried
        /\ posted'[b][close.year + 1].used = posted[b][close.year + 1].used
        /\ posted'[b][close.year + 1].encashed = posted[b][close.year + 1].encashed
        /\ posted'[b][close.year + 1].lapsed = posted[b][close.year + 1].lapsed
    BY <1>5, <2>1, CarryInDoes DEF Entry
  <2>3. PICK y \in Years : y = close.year + 1
    BY <2>1
  <2>5. Available(b, y)' >= Available(b, y) - 0
    BY <1>1, <2>1, <2>2, <2>3 DEF Available, TypeOK, Entry
  <2>4. \A c \in Buckets, z \in Years : c # b \/ z # close.year + 1 => posted'[c][z] = posted[c][z]
    BY <1>5, CarryInDoes
  <2>. QED BY <1>2, <2>1, <2>3, <2>4, <2>5
<1>6. ASSUME Lapse(b) PROVE Takes(b, close.dist.lapsed)
  <2>1. posted[b][close.year] \in Entry
    BY <1>1 DEF TypeOK
  <2>2. /\ posted'[b][close.year].credited = posted[b][close.year].credited
        /\ posted'[b][close.year].used = posted[b][close.year].used
        /\ posted'[b][close.year].encashed = posted[b][close.year].encashed
        /\ posted'[b][close.year].lapsed = posted[b][close.year].lapsed + close.dist.lapsed
    BY <1>6, <2>1, LapseDoes DEF Entry
  <2>3. PICK y \in Years : y = close.year
    BY <1>1
  <2>4. Available(b, y)' >= Available(b, y) - close.dist.lapsed
    BY <1>1, <2>1, <2>2, <2>3 DEF Available, TypeOK, Entry
  <2>. QED BY <1>1, <1>2, <1>6, <2>3, <2>4, LapseDoes
<1>. QED BY <1>3, <1>4, <1>5, <1>6

(* What is to be taken next is part of what is to be taken.                *)
LEMMA ToTakeType ==
  ASSUME TypeOK PROVE ToTake \in Nat
BY DEF TypeOK, CloseState, ToTake

(* Every step leaves enough for those to come.                             *)
LEMMA SpareStep ==
  ASSUME TypeOK, TypeOK', AccrualInv, CloseInv, CloseInv', SpareInv, NotOverdrawn, [Next]_vars
  PROVE  SpareInv' /\ NotOverdrawn'
<1>1. /\ close.year \in Years /\ close.queue \subseteq Buckets /\ close.found \in [Buckets -> Int]
      /\ close.pc \in Busy => close.bucket \in Buckets
  BY DEF TypeOK, CloseState, CloseInv
<1>2. ASSUME close' = close, raced \subseteq raced',
             \A c \in Buckets, z \in Years :
               \/ <<c, z>> \in raced'
               \/ Left'[c][z] >= Left[c][z]
               \/ Left'[c][z] >= 0 /\ ~(close.pc # "rest" /\ close.year = z)
      PROVE  SpareInv' /\ NotOverdrawn'
  <2>1. ASSUME NEW c \in Buckets, <<c, close.year>> \notin raced', close.pc # "rest"
        PROVE  /\ <<c, close.year>> \notin raced
               /\ Left'[c][close.year] >= Left[c][close.year]
               /\ Left[c][close.year] \in Int /\ Left'[c][close.year] \in Int
    BY <1>1, <1>2, <2>1, LeftType, LeftNext
  <2>2. SpareInv'
    <3>1. ToTake' = ToTake /\ ToTake \in Nat
      BY <1>2, ToTakeType DEF ToTake
    <3>2. ASSUME NEW b \in close'.queue
          PROVE  /\ close'.pc # "rest"
                 /\ <<b, close'.year>> \notin raced' => Left'[b][close.year] >= close.found[b]
      BY <1>1, <1>2, <2>1, <3>2 DEF SpareInv
    <3>3. ASSUME close.pc \in Busy, <<close.bucket, close.year>> \notin raced'
          PROVE  Left'[close.bucket][close.year] >= ToTake
      <4>1. close.pc # "rest"
        BY <3>3 DEF Busy
      <4>. QED BY <1>1, <2>1, <3>1, <3>3, <4>1 DEF SpareInv
    <3>. QED BY <1>2, <3>1, <3>2, <3>3 DEF SpareInv
  <2>3. NotOverdrawn'
    <3>1. SUFFICES ASSUME NEW b \in Buckets, NEW y \in Years, <<b, y>> \notin raced'
                   PROVE  Left'[b][y] >= 0
      BY LeftType, LeftNext
    <3>2. Left[b][y] \in Int /\ Left'[b][y] \in Int /\ Left[b][y] >= 0
      BY <3>1, <1>2, LeftType, LeftNext
    <3>. QED BY <3>1, <1>2, <3>2
  <2>. QED BY <2>2, <2>3
<1>3. ASSUME posted' = posted, pending' = pending, leave' = leave, raced \subseteq raced',
             close'.pc \in {"rest", "next"},
             \A b \in close'.queue : /\ close'.pc # "rest"
                                     /\ \/ b \in close.queue /\ close'.year = close.year /\ close'.found[b] = close.found[b]
                                        \/ /\ b \in Buckets /\ close'.year \in Years /\ close'.found[b] \in Int
                                           /\ <<b, close'.year>> \notin raced' => close'.found[b] <= Left[b][close'.year]
      PROVE  SpareInv' /\ NotOverdrawn'
  <2>1. \A b \in Buckets, y \in Years : Left'[b][y] = Left[b][y] /\ Left[b][y] \in Int
    BY <1>3, LeftType, LeftSame
  <2>2. NotOverdrawn'
    BY <1>3, <2>1, LeftType, LeftNext
  <2>3. ASSUME NEW b \in close'.queue, <<b, close'.year>> \notin raced'
        PROVE  Left'[b][close'.year] >= close'.found[b]
    <3>1. CASE b \in close.queue /\ close'.year = close.year /\ close'.found[b] = close.found[b]
      BY <1>1, <1>3, <2>1, <2>3, <3>1 DEF SpareInv
    <3>2. CASE /\ b \in Buckets /\ close'.year \in Years /\ close'.found[b] \in Int
               /\ <<b, close'.year>> \notin raced' => close'.found[b] <= Left[b][close'.year]
      BY <2>1, <2>3, <3>2
    <3>. QED BY <1>3, <3>1, <3>2
  <2>4. close'.pc \notin Busy
    BY <1>3 DEF Busy
  <2>5. SpareInv'
    BY <1>3, <2>3, <2>4 DEF SpareInv
  <2>. QED BY <2>2, <2>5
<1>4. CASE AccrualStep
  <2>1. /\ close' = close /\ raced' = raced /\ leave' = leave
        /\ \A c \in Buckets, z \in Years : Available(c, z)' >= Available(c, z)
    BY <1>4, AccrualEffect DEF More
  <2>2. ASSUME NEW c \in Buckets, NEW z \in Years PROVE Left'[c][z] >= Left[c][z]
    <3>1. /\ Left[c][z] = Coming(c, z) /\ Left'[c][z] = Coming(c, z)'
          /\ Available(c, z) \in Int /\ Available(c, z)' \in Int
      BY LeftType, LeftNext, AvailableType, AvailableNext
    <3>2. leave[c][z].freed \in Nat /\ Applying(c, z) \in Nat /\ Applying(c, z)' = Applying(c, z)
      BY <2>1 DEF TypeOK, Leave, Applying
    <3>. QED BY <2>1, <3>1, <3>2 DEF Coming
  <2>. QED BY <1>2, <2>1, <2>2
<1>5. CASE LeaveStep
  <2>1. \A c \in Buckets, z \in Years : Left[c][z] = Coming(c, z) /\ Left'[c][z] = Coming(c, z)'
    BY LeftType, LeftNext
  <2>. QED BY <1>2, <1>5, <2>1, LeaveEffect
<1>6. CASE Tick \/ UNCHANGED vars
  <2>1. posted' = posted /\ pending' = pending /\ leave' = leave /\ raced' = raced /\ close' = close
    BY <1>6 DEF Tick, vars, books, failures, requests
  <2>2. \A c \in Buckets, z \in Years : Left'[c][z] >= Left[c][z]
    BY <2>1, LeftType, LeftSame
  <2>. QED BY <1>2, <2>1, <2>2
<1>7. CASE Failure
  <2>1. posted' = posted /\ pending' = pending /\ leave' = leave /\ raced' = raced
    BY <1>7, FailureDoes DEF Fail, books, requests
  <2>2. CASE close' = close
    <3>1. \A c \in Buckets, z \in Years : Left'[c][z] >= Left[c][z]
      BY <2>1, LeftType, LeftSame
    <3>. QED BY <1>2, <2>1, <2>2, <3>1
  <2>3. CASE close' = NoClose
    <3>1. close'.pc = "rest" /\ close'.queue = {}
      BY <2>3 DEF NoClose
    <3>. QED BY <1>3, <2>1, <3>1
  <2>4. CASE close' = [close EXCEPT !.pc = "next"]
    <3>1. /\ close'.pc = "next" /\ close'.queue = close.queue /\ close'.found = close.found
          /\ close'.year = close.year
      BY <2>4 DEF TypeOK, CloseState
    <3>. QED BY <1>3, <2>1, <3>1
  <2>. QED BY <1>7, <2>2, <2>3, <2>4, FailureDoes
<1>8. CASE CloseStep
  <2>1. pending' = pending /\ leave' = leave /\ raced \subseteq raced'
    BY <1>8, CloseEffect
  <2>2. CASE StartClose \/ EndClose
    <3>1. \A b \in close'.queue : close'.pc # "rest"
      <4>1. CASE StartClose
        BY <4>1 DEF StartClose, NoClose
      <4>2. CASE EndClose
        BY <4>2 DEF EndClose, NoClose
      <4>. QED BY <2>2, <4>1, <4>2
    <3>2. ASSUME NEW b \in close'.queue
          PROVE  /\ b \in Buckets /\ close'.year \in Years /\ close'.found[b] \in Int
                 /\ <<b, close'.year>> \notin raced' => close'.found[b] <= Left[b][close'.year]
      <4>1. b \in Buckets /\ close'.year \in Years /\ close'.found[b] = Available(b, close'.year)
        BY <2>2, <3>1, <3>2, StartDoes
      <4>2. /\ Left[b][close'.year] = Coming(b, close'.year) /\ Available(b, close'.year) \in Int
            /\ leave[b][close'.year].freed \in Nat /\ Applying(b, close'.year) \in Nat
        BY <4>1, LeftType DEF TypeOK, Entry, Leave, Available, Applying
      <4>3. <<b, close'.year>> \notin raced' => Applying(b, close'.year) = 0
        <5>1. StartClose
          BY <2>2, <3>2 DEF EndClose, NoClose
        <5>2. close'.year = Year(day) - 1
          BY <5>1 DEF StartClose, NoClose
        <5>3. Applying(b, Year(day) - 1) > 0 => <<b, Year(day) - 1>> \in raced'
          BY <4>1, <5>1 DEF StartClose
        <5>. QED BY <4>2, <5>2, <5>3
      <4>. QED BY <4>1, <4>2, <4>3 DEF Coming
    <3>. QED BY <1>3, <2>1, <2>2, <3>1, <3>2, StartDoes
  <2>3. ASSUME NEW b \in Buckets, NEW n \in Nat, NEW m \in Nat, Takes(b, n),
               close.pc \in Busy, close.bucket = b, n + m <= ToTake,
               close'.pc \in Busy \cup {"next"}, close'.pc \in Busy => ToTake' = m,
               close'.year = close.year, close'.queue = close.queue,
               close'.bucket = close.bucket, close'.found = close.found
        PROVE  SpareInv' /\ NotOverdrawn'
    <3>1. /\ \A c \in Buckets, z \in Years : Left[c][z] \in Int /\ Left'[c][z] \in Int
          /\ ToTake \in Nat
      BY LeftType, LeftNext, ToTakeType
    <3>2. \A c \in Buckets, z \in Years : c # b \/ z # close.year => Left'[c][z] >= Left[c][z]
      BY <2>3, <3>1 DEF Takes
    <3>3. Left'[b][close.year] >= Left[b][close.year] - n
      BY <1>1, <2>3 DEF Takes
    <3>4. <<b, close.year>> \notin raced => Left'[b][close.year] >= m
      BY <1>1, <2>3, <3>1, <3>3 DEF SpareInv
    <3>5. NotOverdrawn'
      <4>1. SUFFICES ASSUME NEW c \in Buckets, NEW z \in Years, <<c, z>> \notin raced'
                     PROVE  Left'[c][z] >= 0
        BY LeftType, LeftNext
      <4>2. CASE c = b /\ z = close.year
        BY <2>1, <2>3, <3>1, <3>4, <4>1, <4>2
      <4>3. CASE c # b \/ z # close.year
        <5>1. Left[c][z] >= 0
          BY <2>1, <4>1, LeftType, LeftNext
        <5>. QED BY <3>1, <3>2, <4>3, <5>1
      <4>. QED BY <4>2, <4>3
    <3>6. ASSUME NEW c \in close.queue, <<c, close.year>> \notin raced
          PROVE  Left'[c][close.year] >= close.found[c]
      <4>1. c # b /\ c \in Buckets
        BY <1>1, <2>3, <3>6 DEF CloseInv
      <4>2. Left[c][close.year] >= close.found[c] /\ close.found[c] \in Int
        BY <1>1, <3>6, <4>1 DEF SpareInv
      <4>3. Left'[c][close.year] >= Left[c][close.year]
        BY <1>1, <3>2, <4>1
      <4>. QED BY <1>1, <3>1, <4>1, <4>2, <4>3
    <3>7. close'.pc # "rest"
      BY <2>3 DEF Busy
    <3>8. close'.pc \in Busy /\ <<b, close.year>> \notin raced' =>
            Left'[b][close.year] >= ToTake'
      BY <2>1, <2>3, <3>4
    <3>9. SpareInv'
      BY <2>1, <2>3, <3>6, <3>7, <3>8 DEF SpareInv
    <3>. QED BY <3>5, <3>9
  <2> DEFINE e == close.dist.encashed
             c == close.dist.carried
             l == close.dist.lapsed
  <2>4. e \in Nat /\ c \in Nat /\ l \in Nat
    BY DEF TypeOK, CloseState
  <2>5. ASSUME NEW b \in Buckets, CloseBucket(b) PROVE SpareInv' /\ NotOverdrawn'
    <3>1. CASE close'.pc = "next"
      BY <1>3, <2>1, <2>5, <3>1, CloseBucketDoes
    <3>2. CASE close'.pc # "next"
      <4>1. /\ posted' = posted /\ b \in close.queue
            /\ close'.year = close.year /\ close'.queue = close.queue \ {b} /\ close'.found = close.found
            /\ close'.bucket = b /\ close'.pc \in {"encash", "out", "lapse"}
            /\ close'.pc = "out" => close'.dist.encashed = 0
            /\ close'.pc = "lapse" => close'.dist.encashed = 0 /\ close'.dist.carried = 0
            /\ close'.dist \in [encashed : Nat, carried : Nat, lapsed : Nat]
            /\ Fits(b, close'.dist, close.found[b])
        BY <2>5, <3>2, CloseBucketDoes
      <4>2. \A x \in Buckets, z \in Years : Left'[x][z] = Left[x][z] /\ Left[x][z] \in Int
        BY <2>1, <4>1, LeftType, LeftSame
      <4>3. ToTake' <= close.found[b] /\ ToTake' \in Nat /\ close.found[b] \in Int
        BY <1>1, <4>1 DEF Fits, ToTake
      <4>4. \A x \in close.queue : <<x, close.year>> \notin raced => Left'[x][close.year] >= close.found[x]
        BY <1>1, <4>2 DEF SpareInv
      <4>5. <<b, close.year>> \notin raced => Left'[b][close.year] >= ToTake'
        BY <1>1, <4>1, <4>2, <4>3, <4>4
      <4>6. SpareInv'
        BY <2>1, <4>1, <4>4, <4>5 DEF SpareInv
      <4>7. NotOverdrawn'
        BY <2>1, <4>2, LeftType, LeftNext
      <4>. QED BY <4>6, <4>7
    <3>. QED BY <3>1, <3>2
  <2>6. ASSUME NEW b \in Buckets, Encash(b) PROVE SpareInv' /\ NotOverdrawn'
    <3>1. GotoClose("record") /\ close.pc = "encash" /\ close.bucket = b
      BY <2>6 DEF Encash
    <3>2. ToTake = e + c + l /\ ToTake' = c + l
      BY <3>1, GotoDoes DEF ToTake
    <3>3. Takes(b, e)
      BY <1>8, <2>6, CloseTakes
    <3>. QED BY <2>3, <2>4, <3>1, <3>2, <3>3, GotoDoes DEF Busy
  <2>7. ASSUME NEW b \in Buckets, Record(b) PROVE SpareInv' /\ NotOverdrawn'
    <3>1. GotoClose(AfterEncash(close.dist)) /\ close.pc = "record" /\ close.bucket = b /\ posted' = posted
      BY <2>7 DEF Record
    <3>2. /\ AfterEncash(close.dist) \in {"out", "lapse", "next"}
          /\ AfterEncash(close.dist) = "lapse" => c = 0
      BY DEF AfterEncash
    <3>3. /\ ToTake = c + l
          /\ close'.pc \in Busy => ToTake' = c + l
      BY <2>4, <3>1, <3>2, GotoDoes DEF ToTake, Busy
    <3>4. Takes(b, 0)
      <4>1. pending' = pending /\ leave' = leave
        BY <1>8, CloseEffect
      <4>2. \A x \in Buckets, z \in Years : Left'[x][z] = Left[x][z] /\ Left[x][z] \in Int
        BY <3>1, <4>1, LeftType, LeftSame
      <4>. QED BY <4>2 DEF Takes
    <3>5. c + l \in Nat /\ 0 + (c + l) <= ToTake /\ close.pc \in Busy
      BY <2>4, <3>1, <3>3 DEF Busy
    <3>6. /\ close'.pc \in Busy \cup {"next"} /\ close'.year = close.year /\ close'.queue = close.queue
          /\ close'.bucket = close.bucket /\ close'.found = close.found
      BY <3>1, <3>2, GotoDoes DEF Busy
    <3>. QED BY <2>3, <3>1, <3>3, <3>4, <3>5, <3>6
  <2>8. ASSUME NEW b \in Buckets, CarryOut(b) PROVE SpareInv' /\ NotOverdrawn'
    <3>1. GotoClose("in") /\ close.pc = "out" /\ close.bucket = b
      BY <2>8 DEF CarryOut
    <3>2. ToTake = c + l /\ ToTake' = l
      BY <3>1, GotoDoes DEF ToTake
    <3>3. Takes(b, c)
      BY <1>8, <2>8, CloseTakes
    <3>. QED BY <2>3, <2>4, <3>1, <3>2, <3>3, GotoDoes DEF Busy
  <2>9. ASSUME NEW b \in Buckets, CarryIn(b) PROVE SpareInv' /\ NotOverdrawn'
    <3>1. GotoClose(AfterCarry(close.dist)) /\ close.pc = "in" /\ close.bucket = b
      BY <2>9 DEF CarryIn
    <3>2. AfterCarry(close.dist) \in {"lapse", "next"}
      BY DEF AfterCarry
    <3>3. ToTake = l /\ (close'.pc \in Busy => ToTake' = l)
      BY <3>1, <3>2, GotoDoes DEF ToTake, Busy
    <3>4. Takes(b, 0)
      BY <1>8, <2>9, CloseTakes
    <3>. QED BY <2>3, <2>4, <3>1, <3>2, <3>3, <3>4, GotoDoes DEF Busy
  <2>10. ASSUME NEW b \in Buckets, Lapse(b) PROVE SpareInv' /\ NotOverdrawn'
    <3>1. GotoClose("next") /\ close.pc = "lapse" /\ close.bucket = b
      BY <2>10 DEF Lapse
    <3>2. ToTake = l
      BY <3>1 DEF ToTake
    <3>3. Takes(b, l)
      BY <1>8, <2>10, CloseTakes
    <3>. QED BY <2>3, <2>4, <3>1, <3>2, <3>3, GotoDoes DEF Busy
  <2>. QED BY <1>8, <2>2, <2>5, <2>6, <2>7, <2>8, <2>9, <2>10 DEF CloseStep
<1>. QED BY <1>4, <1>5, <1>6, <1>7, <1>8 DEF Next

-----------------------------------------------------------------------------
(* The theorems.                                                           *)

CommonInv ==
  /\ TypeOK /\ AccrualInv /\ CloseInv
  /\ AccruedOnce /\ CapsHold /\ FlowInv
  /\ SpareInv /\ NotOverdrawn

(* The invariant holds at first.                                           *)
LEMMA CommonInit == Init => CommonInv
<1> SUFFICES ASSUME Init PROVE CommonInv
  OBVIOUS
<1>1. TypeOK
  BY TypeInit
<1>2. accrual.pc = "rest" /\ close.pc = "rest" /\ close.queue = {}
  BY DEF Init, NoAccrual, NoClose
<1>3. AccrualInv /\ CloseInv /\ SpareInv
  BY <1>2 DEF AccrualInv, CloseInv, SpareInv, Busy
<1>4. \A b \in Buckets, y \in Years : posted[b][y] = Empty /\ pending[b][y] = 0 /\ records[b][y] = 0
  BY DEF Init
<1>5. AccruedOnce
  BY <1>4 DEF AccruedOnce, Empty
<1>6. CapsHold
  <2>1. \A b \in Buckets : Rule[b].carryForwardCap \in Nat /\ Rule[b].encashmentCap \in Nat \cup {NoCap}
    BY RuleAssumption DEF Rules, Caps
  <2>. QED BY <1>4, <2>1 DEF CapsHold, Empty
<1>7. FlowInv
  BY <1>2, <1>4 DEF FlowInv, OnTheWay, Unrecorded, InHand, Empty
<1>8. NotOverdrawn
  <2>1. \A b \in Buckets, y \in Years : leave[b][y] = NoLeave
    BY DEF Init
  <2>. QED BY <1>4, <2>1 DEF NotOverdrawn, Available, Applying, Empty, NoLeave
<1>. QED BY <1>1, <1>3, <1>5, <1>6, <1>7, <1>8 DEF CommonInv

(* Every step keeps it.                                                    *)
LEMMA CommonStep == CommonInv /\ [Next]_vars => CommonInv'
<1> SUFFICES ASSUME CommonInv, [Next]_vars PROVE CommonInv'
  OBVIOUS
<1> USE DEF CommonInv
<1>1. TypeOK'
  BY TypeStep
<1>2. AccrualInv' /\ AccruedOnce'
  BY AccruedStep
<1>3. CloseInv' /\ CapsHold'
  BY CapsStep
<1>4. FlowInv'
  BY <1>1, FlowStep
<1>5. SpareInv' /\ NotOverdrawn'
  BY <1>1, <1>3, SpareStep
<1>. QED BY <1>1, <1>2, <1>3, <1>4, <1>5

(* It always holds.                                                        *)
LEMMA Common == Spec => []CommonInv
BY CommonInit, CommonStep, PTL DEF Spec

(* Whatever the rules and the calendar, and wherever a job dies, the       *)
(* ledger, the balances and the two jobs keep their types: no sum of an    *)
(* entry type is ever negative, and no job leaves the years it may touch.  *)
THEOREM LeaveYearTyped == Spec => []TypeOK
BY Common, PTL DEF CommonInv

(* The nightly accrual credits a period at most once, and exactly what the *)
(* rule gives for it, however often it runs, misses a night or dies.       *)
THEOREM AccruedOnceAlways == Spec => []AccruedOnce
BY Common, PTL DEF CommonInv

(* The caps on encashment and carry forward hold for the year as a whole,  *)
(* over all the runs of the year-end job.                                  *)
THEOREM CapsAlwaysHold == Spec => []CapsHold
BY Common, PTL DEF CommonInv

(* What the year-end job brings to the new year or to payroll has left the *)
(* old year; all of it arrives when nothing fails.                         *)
THEOREM ConservedAlways == Spec => []Conserved
<1>1. CommonInv => Conserved
  <2> SUFFICES ASSUME CommonInv PROVE Conserved
    OBVIOUS
  <2> SUFFICES ASSUME NEW b \in Buckets, NEW y \in Years \ {Year(MaxDay) + 1}
               PROVE  /\ posted[b][y + 1].carriedIn <= posted[b][y].carriedOut
                      /\ records[b][y] <= posted[b][y].encashed
                      /\ close.pc = "rest" /\ crashes = 0 =>
                           /\ posted[b][y + 1].carriedIn = posted[b][y].carriedOut
                           /\ records[b][y] = posted[b][y].encashed
    BY DEF Conserved
  <2>1. y + 1 \in Years
    <3>1. Year(MaxDay) \in Nat
      BY YearType, BoundAssumption
    <3>. QED BY <3>1 DEF Years
  <2>2. close.pc = "rest" => OnTheWay(b, y) = 0 /\ Unrecorded(b, y) = 0
    BY DEF OnTheWay, Unrecorded, InHand
  <2>3. Flow(b, y)
    BY DEF CommonInv, FlowInv, Flow
  <2>4. posted[b][y + 1].carriedIn \in Nat
    BY <2>1, FlowTypes DEF CommonInv
  <2>. QED BY <2>1, <2>2, <2>3, <2>4, FlowTypes DEF Flow, CommonInv
<1>. QED BY <1>1, Common, PTL

(* The year-end job and the handlers of leave requests never take more     *)
(* than is there, however their writes interleave, however often the job   *)
(* runs and wherever it dies.  Excepted are the buckets of which an        *)
(* application met another or a close of that year, having read a balance  *)
(* that the other was about to take, and those of which a handler died     *)
(* between two of its writes.                                              *)
THEOREM NotOverdrawnAlways == Spec => []NotOverdrawn
BY Common, PTL DEF CommonInv

-----------------------------------------------------------------------------
(* What heals: each day that a credit, or a close, is missing has cost a   *)
(* failure.                                                                *)

(* A period of this year that is over, and is still to be credited.        *)
Owing(b, i) ==
  LET y == Year(day) IN
  /\ Rule[b].mode = "periodic_accrual" /\ Rule[b].accrualCap = NoCap
  /\ i \in PeriodsForYear(b)
  /\ Accruable(b, y, i) /\ EligibleOn(b) <= PeriodEnd(b, y, i) /\ PeriodCredit(b, y, i) > 0
  /\ posted[b][y].accrual[i] = 0

(* The run of today has yet to come to it.                                 *)
CreditComes(b, i) ==
  \/ "accrual" \notin ran
  \/ accrual.pc # "rest" /\ b \in accrual.queue
  \/ accrual.pc \in {"check", "credit"} /\ accrual.bucket = b /\ i \in accrual.due

(* Each day since has cost a failure.                                      *)
OwingInv ==
  \A b \in Buckets, i \in Periods :
    Owing(b, i) => crashes >= day - PeriodEnd(b, Year(day), i) + IF CreditComes(b, i) THEN 0 ELSE 1

(* A bucket of last year that is still to be closed.                       *)
Open(b) ==
  LET y == Year(day) - 1 IN
  /\ Year(day) > 0 /\ <<b, y>> \notin late
  /\ posted[b][y].carriedIn = 0 /\ ~Closed(b, y)
  /\ Available(b, y) > 0 /\ Distribution(b, Available(b, y)) # Nothing

(* The run of today has yet to come to it.                                 *)
CloseComes(b) ==
  \/ "close" \notin ran
  \/ close.pc # "rest" /\ b \in close.queue /\ close.found[b] = Available(b, close.year)
  \/ close.pc \in {"encash", "out", "lapse"} /\ close.bucket = b

(* What is to be posted is not zero.                                       *)
AmountInv ==
  /\ close.pc = "encash" => close.dist.encashed > 0
  /\ close.pc = "out" => close.dist.carried > 0
  /\ close.pc = "lapse" => close.dist.lapsed > 0

(* Each day of the window so far has cost a failure.                       *)
OpenInv ==
  \A b \in Buckets : Open(b) =>
    crashes >= IF InWindow THEN (day % YearDays) + (IF CloseComes(b) THEN 0 ELSE 1) ELSE GraceDays

(* The jobs run within a day.                                              *)
TodayInv ==
  /\ accrual.pc # "rest" => "accrual" \in ran /\ accrual.year = Year(day)
  /\ close.pc # "rest" => "close" \in ran /\ Year(day) > 0 /\ close.year = Year(day) - 1

(* A day later it is the same year, or the first day of the next.          *)
LEMMA NextDay ==
  ASSUME NEW d \in Nat
  PROVE  /\ Year(d) \in Nat /\ Year(d + 1) \in Nat
         /\ YearStart(Year(d)) <= d
         /\ d % YearDays \in Nat /\ YearStart(Year(d)) + (d % YearDays) = d
         /\ \/ Year(d + 1) = Year(d) /\ (d + 1) % YearDays = (d % YearDays) + 1
            \/ Year(d + 1) = Year(d) + 1 /\ (d + 1) % YearDays = 0 /\ YearStart(Year(d + 1)) = d + 1
<1> DEFINE n == YearDays
           q == d \div n
           t == (d + 1) \div n
<1>0. n \in Nat \ {0}
  BY YearDaysType
<1> HIDE DEF n
<1>1. /\ q \in Int /\ d = n * q + (d % n) /\ 0 <= d % n /\ d % n < n /\ d % n \in Int
  BY <1>0
<1>2. /\ t \in Int /\ d + 1 = n * t + ((d + 1) % n) /\ 0 <= (d + 1) % n /\ (d + 1) % n < n /\ (d + 1) % n \in Int
  BY <1>0
<1>3. q <= t /\ 0 <= q
  <2>1. 0 \div n = 0
    BY <1>0
  <2>. QED BY <1>0, <2>1, DivMono
<1> HIDE DEF q, t
<1>4. t < q + 2
  <2>1. SUFFICES ASSUME t >= q + 2 PROVE FALSE
    BY <1>1, <1>2
  <2>2. n * t >= n * (q + 2)
    BY <1>0, <1>1, <1>2, <2>1
  <2>3. n * (q + 2) = n * q + n + n
    BY <1>0, <1>1
  <2>. QED BY <1>0, <1>1, <1>2, <2>2, <2>3
<1>5. n * q \in Int /\ n * t \in Int /\ YearStart(q) = n * q /\ YearStart(t) = n * t
  BY <1>0, <1>1, <1>2 DEF YearStart, n
<1>6. /\ YearStart(q) <= d /\ YearStart(q) + (d % n) = d
      /\ \/ t = q /\ (d + 1) % n = (d % n) + 1
         \/ t = q + 1 /\ (d + 1) % n = 0 /\ YearStart(t) = d + 1
  <2> DEFINE x == n * q
             z == n * t
             r == d % n
             w == (d + 1) % n
  <2>1. /\ x \in Int /\ z \in Int /\ r \in Int /\ w \in Int
        /\ d = x + r /\ 0 <= r /\ r < n /\ d + 1 = z + w /\ 0 <= w /\ w < n
    BY <1>1, <1>2, <1>5
  <2>2. t = q => z = x
    OBVIOUS
  <2>3. t = q + 1 => z = x + n
    BY <1>0, <1>1
  <2>4. t = q \/ t = q + 1
    BY <1>1, <1>2, <1>3, <1>4
  <2>5. YearStart(q) = x /\ YearStart(t) = z
    BY <1>5
  <2> HIDE DEF x, z, r, w
  <2>6. t = q => w = r + 1
    BY <2>1, <2>2, <1>0
  <2>7. t = q + 1 => w = 0 /\ z = d + 1
    BY <2>1, <2>3, <1>0
  <2>8. YearStart(q) <= d /\ YearStart(q) + r = d
    BY <2>1, <2>5, <1>0
  <2>9. /\ YearStart(q) <= d /\ YearStart(q) + r = d
        /\ \/ t = q /\ w = r + 1
           \/ t = q + 1 /\ w = 0 /\ YearStart(t) = d + 1
    BY <2>4, <2>5, <2>6, <2>7, <2>8
  <2>. QED BY <2>9 DEF r, w
<1>7. Year(d) = q /\ Year(d + 1) = t /\ n = YearDays
  BY DEF n, q, t, Year
<1>. QED BY <1>1, <1>2, <1>3, <1>6, <1>7

(* A period ends after its year has begun.                                 *)
LEMMA PeriodEndLater ==
  ASSUME NEW b \in Buckets, NEW y \in Nat, NEW i \in Periods
  PROVE  PeriodEnd(b, y, i) \in Int /\ PeriodEnd(b, y, i) > YearStart(y)
<1>1. Rule[b].step \in Nat \ {0} /\ MonthDays \in Nat \ {0} /\ i \in Nat /\ i > 0
  BY RuleAssumption, BoundAssumption DEF Rules, Periods
<1>2. \A m, k \in Nat \ {0} : m * k \in Nat \ {0}
  OBVIOUS
<1>3. Rule[b].step * MonthDays \in Nat \ {0}
  BY <1>1, <1>2
<1>4. (i - 1) * MonthDays \in Nat
  BY <1>1
<1>5. YearStart(y) \in Int
  BY YearDaysType DEF YearStart
<1>. QED BY <1>3, <1>4, <1>5 DEF PeriodEnd, PeriodStart

(* Jobs start and end between two midnights.                               *)
LEMMA TodayStep ==
  ASSUME TypeOK, TodayInv, [Next]_vars PROVE TodayInv'
<1>1. CASE Tick
  BY <1>1 DEF Tick, TodayInv
<1>2. CASE AccrualStep
  <2>1. day' = day /\ close' = close
    BY <1>2 DEF AccrualStep, StartAccrual, EndAccrual, Survey, Check, PostCredit, AccrualUnchanged, failures
  <2>2. CASE StartAccrual
    BY <2>1, <2>2 DEF StartAccrual, TodayInv, NoAccrual, TypeOK
  <2>3. CASE ~StartAccrual
    <3>0. accrual \in AccrualState
      BY DEF TypeOK
    <3>1. accrual.pc # "rest" /\ ran' = ran
      BY <1>2, <2>3 DEF AccrualStep, EndAccrual, Survey, Check, PostCredit
    <3>2. CASE EndAccrual
      BY <2>1, <3>2 DEF EndAccrual, NoAccrual, TodayInv
    <3>3. ASSUME NEW b \in Buckets, Survey(b) \/ Check(b) \/ PostCredit(b) PROVE accrual'.year = accrual.year
      <4>1. CASE Survey(b)
        BY <3>0, <4>1 DEF Survey, AccrualState
      <4>2. CASE Check(b) \/ PostCredit(b)
        BY <3>0, <4>2 DEF Check, PostCredit, ThenAccrue, AccrualState
      <4>. QED BY <3>3, <4>1, <4>2
    <3>. QED BY <1>2, <2>1, <2>3, <3>1, <3>2, <3>3 DEF AccrualStep, TodayInv
  <2>. QED BY <2>2, <2>3
<1>3. CASE CloseStep
  <2>1. day' = day /\ accrual' = accrual
    BY <1>3 DEF CloseStep, StartClose, EndClose, CloseBucket, Encash, Record, CarryOut, CarryIn, Lapse, CloseUnchanged, failures
  <2>2. CASE StartClose
    BY <2>1, <2>2 DEF StartClose, InWindow, TodayInv, NoClose, TypeOK
  <2>3. CASE ~StartClose
    <3>0. close \in CloseState
      BY DEF TypeOK
    <3>1. close.pc # "rest" /\ ran' = ran
      BY <1>3, <2>3 DEF CloseStep, EndClose, CloseBucket, Encash, Record, CarryOut, CarryIn, Lapse
    <3>2. CASE EndClose
      BY <2>1, <3>2 DEF EndClose, NoClose, TodayInv
    <3>3. ASSUME NEW b \in Buckets, CloseBucket(b) \/ Encash(b) \/ Record(b) \/ CarryOut(b) \/ CarryIn(b) \/ Lapse(b)
          PROVE  close'.year = close.year
      <4>1. CASE CloseBucket(b)
        BY <3>0, <4>1 DEF CloseBucket, CloseState
      <4>2. CASE ~CloseBucket(b)
        <5>1. \E pc : GotoClose(pc)
          BY <3>3, <4>2 DEF Encash, Record, CarryOut, CarryIn, Lapse
        <5>. QED BY <5>1, GotoDoes
      <4>. QED BY <4>1, <4>2
    <3>. QED BY <1>3, <2>1, <2>3, <3>1, <3>2, <3>3 DEF CloseStep, TodayInv
  <2>. QED BY <2>2, <2>3
<1>4. CASE Failure
  <2>1. day' = day /\ ran \subseteq ran'
    BY <1>4 DEF Failure, DieAccrual, DieClose, SkipAccrual, SkipClose, Miss, Fail
  <2>2. /\ accrual'.pc # "rest" => accrual.pc # "rest" /\ accrual'.year = accrual.year
        /\ close'.pc # "rest" => close.pc # "rest" /\ close'.year = close.year
    <3>0. accrual \in AccrualState /\ close \in CloseState
      BY DEF TypeOK
    <3>1. CASE DieAccrual \/ DieClose
      BY <3>1 DEF DieAccrual, DieClose, NoAccrual, NoClose
    <3>2. CASE SkipAccrual
      BY <3>0, <3>2 DEF SkipAccrual, AccrualState
    <3>3. CASE SkipClose
      BY <3>3, GotoDoes DEF SkipClose
    <3>4. CASE \E job \in {"accrual", "close"} : Miss(job)
      BY <3>4 DEF Miss
    <3>. QED BY <1>4, <3>1, <3>2, <3>3, <3>4 DEF Failure
  <2>. QED BY <2>1, <2>2 DEF TodayInv
<1>5. CASE LeaveStep
  BY <1>5, LeaveEffect DEF TodayInv
<1>6. CASE UNCHANGED vars
  BY <1>6 DEF vars, TodayInv
<1>. QED BY <1>1, <1>2, <1>3, <1>4, <1>5, <1>6 DEF Next

(* What is owed was owed before, on the same day.                          *)
LEMMA OwedBefore ==
  ASSUME day' = day, NEW b \in Buckets, NEW i \in Periods, Owing(b, i)',
         posted'[b][Year(day)].accrual[i] = 0 => posted[b][Year(day)].accrual[i] = 0
  PROVE  Owing(b, i)
BY DEF Owing, Accruable

(* The run comes to what it finds owed.                                    *)
LEMMA CreditStays ==
  ASSUME TypeOK, AccrualInv, TodayInv, AccrualStep, NEW b \in Buckets, NEW i \in Periods,
         Owing(b, i), Owing(b, i)', CreditComes(b, i)
  PROVE  CreditComes(b, i)'
<1> DEFINE y == Year(day)
<1>0. /\ accrual \in AccrualState /\ day \in Int /\ i \in Periods /\ y \in Years
      /\ accrual.pc # "rest" => "accrual" \in ran /\ accrual.year = y
  BY YearType DEF TypeOK, TodayInv
<1>d. day' = day
  BY DEF AccrualStep, StartAccrual, EndAccrual, Survey, Check, PostCredit, AccrualUnchanged, failures
<1>1. CASE StartAccrual
  BY <1>1 DEF StartAccrual, NoAccrual, CreditComes
<1>2. ASSUME NEW c \in Buckets, Survey(c) PROVE CreditComes(b, i)'
  <2>1. b \in accrual.queue /\ ran' = ran
    BY <1>0, <1>2 DEF CreditComes, Survey
  <2>2. CASE c # b
    BY <1>0, <1>2, <2>1, <2>2 DEF Survey, CreditComes, AccrualState
  <2>3. CASE c = b
    <3>1. i \in Due(b, y)
      BY DEF Owing, Due, Credited
    <3>2. EligibleOn(b) <= day
      <4>1. EligibleOn(b) <= PeriodEnd(b, y, i) /\ PeriodEnd(b, y, i) <= day
        BY DEF Owing, Accruable
      <4>2. EligibleOn(b) \in Int /\ PeriodEnd(b, y, i) \in Int
        <5>1. y \in Nat
          BY YearType DEF TypeOK
        <5>2. PeriodEnd(b, y, i) \in Int
          BY <5>1, PeriodEndLater
        <5>. QED BY <5>2, RuleAssumption DEF Rules, EligibleOn
      <4>. QED BY <1>0, <4>1, <4>2
    <3>3. EligibleOn(b) \in Int
      BY RuleAssumption DEF Rules, EligibleOn
    <3>4. ~(Rule[b].eligibleAfter > 0 /\ EligibleOn(b) > day)
      BY <1>0, <3>2, <3>3
    <3> DEFINE due == Due(b, y)
    <3> HIDE DEF due
    <3>5. accrual' = [accrual EXCEPT !.queue = @ \ {b}, !.bucket = b, !.due = due, !.pc = IF due = {} THEN "next" ELSE "check"]
      BY <1>0, <1>2, <2>3, <3>4 DEF Survey, due
    <3>6. i \in due
      BY <3>1 DEF due
    <3>. QED BY <1>0, <3>5, <3>6 DEF CreditComes, AccrualState
  <2>. QED BY <2>2, <2>3
<1>3. ASSUME NEW c \in Buckets, Check(c) PROVE CreditComes(b, i)'
  <2>1. "accrual" \in ran /\ ran' = ran /\ accrual.bucket = c /\ accrual.pc = "check"
    BY <1>0, <1>3 DEF Check
  <2>2. accrual'.pc # "rest" /\ accrual'.queue = accrual.queue
    BY <1>0, <1>3 DEF Check, ThenAccrue, AccrualState
  <2>3. CASE b \in accrual.queue
    BY <2>2, <2>3 DEF CreditComes
  <2>4. CASE b \notin accrual.queue
    <3>1. c = b /\ i \in accrual.due
      BY <2>1, <2>4 DEF CreditComes
    <3>2. Rule[b].accrualCap = NoCap /\ Rule[b].mode = "periodic_accrual"
      BY DEF Owing
    <3>3. accrual' = [accrual EXCEPT !.pc = "credit"]
      BY <1>3, <3>1, <3>2 DEF Check
    <3>. QED BY <1>0, <2>1, <3>1, <3>3 DEF CreditComes, AccrualState
  <2>. QED BY <2>3, <2>4
<1>4. ASSUME NEW c \in Buckets, PostCredit(c) PROVE CreditComes(b, i)'
  <2>1. "accrual" \in ran /\ ran' = ran /\ accrual.bucket = c /\ accrual.pc = "credit" /\ accrual.year = y
    BY <1>0, <1>4 DEF PostCredit
  <2>2. PICK k \in accrual.due :
          LET q == Credit(c, y, k)
              e == posted[c][y]
          IN /\ q \in Nat /\ k \in Periods
             /\ posted'[c][y] = [e EXCEPT !.accrual = [e.accrual EXCEPT ![k] = q], !.credited = e.credited + q]
             /\ ThenAccrue(k)
    BY <1>4, <2>1, PostCreditDoes
  <2>3. accrual'.pc # "rest" /\ accrual'.queue = accrual.queue
    BY <1>0, <2>2 DEF ThenAccrue, AccrualState
  <2>4. CASE b \in accrual.queue
    BY <2>3, <2>4 DEF CreditComes
  <2>5. CASE b \notin accrual.queue
    <3>1. c = b /\ i \in accrual.due
      BY <2>1, <2>5 DEF CreditComes
    <3>2. posted[b][y] \in Entry
      BY <1>0 DEF TypeOK
    <3>3. CASE k = i
      <4>1. posted'[b][y].accrual[i] = Credit(b, y, i)
        BY <2>2, <3>1, <3>2, <3>3 DEF Entry
      <4>2. Credit(b, y, i) = PeriodCredit(b, y, i) /\ PeriodCredit(b, y, i) > 0
        BY DEF Owing, Credit
      <4>3. posted'[b][y].accrual[i] = 0
        BY <1>d DEF Owing
      <4>. QED BY <4>1, <4>2, <4>3
    <3>4. CASE k # i
      <4>1. accrual' = [accrual EXCEPT !.due = @ \ {k}, !.pc = "check"]
        BY <2>2, <3>1, <3>4 DEF ThenAccrue
      <4>. QED BY <1>0, <2>1, <3>1, <3>4, <4>1 DEF CreditComes, AccrualState
    <3>. QED BY <3>3, <3>4
  <2>. QED BY <2>4, <2>5
<1>5. CASE EndAccrual
  BY <1>0, <1>5 DEF EndAccrual, CreditComes
<1>. QED BY <1>1, <1>2, <1>3, <1>4, <1>5 DEF AccrualStep

(* A day that ends with something owed has cost a failure.                 *)
LEMMA OwingStep ==
  ASSUME TypeOK, AccrualInv, CloseInv, TodayInv, OwingInv, [Next]_vars PROVE OwingInv'
<1> DEFINE y == Year(day)
<1>0. day \in Nat /\ y \in Nat /\ crashes \in Nat
  BY YearType DEF TypeOK
<1> SUFFICES ASSUME NEW b \in Buckets, NEW i \in Periods, Owing(b, i)'
             PROVE  crashes' >= day' - PeriodEnd(b, Year(day'), i) + IF CreditComes(b, i)' THEN 0 ELSE 1
  BY DEF OwingInv
<1> DEFINE e == PeriodEnd(b, y, i)
<1>e. e \in Int
  BY <1>0, PeriodEndLater
<1>o. Owing(b, i) => crashes >= day - e + IF CreditComes(b, i) THEN 0 ELSE 1
  BY DEF OwingInv
<1>1. CASE Tick
  <2>1. /\ day' = day + 1 /\ ran' = {} /\ posted' = posted /\ crashes' = crashes
        /\ accrual.pc = "rest" /\ "accrual" \in ran
    BY <1>1 DEF Tick, books, failures
  <2>2. ~CreditComes(b, i) /\ CreditComes(b, i)'
    BY <2>1 DEF CreditComes
  <2>3. PeriodEnd(b, Year(day + 1), i) <= day + 1
    BY <2>1 DEF Owing, Accruable
  <2>4. Year(day + 1) \in Nat /\ PeriodEnd(b, Year(day + 1), i) > YearStart(Year(day + 1)) /\ PeriodEnd(b, Year(day + 1), i) \in Int
    BY <1>0, NextDay, PeriodEndLater
  <2>5. Year(day + 1) = y
    <3>1. YearStart(Year(day + 1)) # day + 1
      BY <1>0, <2>3, <2>4
    <3>. QED BY <1>0, <3>1, NextDay
  <2>6. CASE e = day + 1
    BY <1>0, <2>1, <2>2, <2>5, <2>6
  <2>7. CASE e <= day
    <3>1. Owing(b, i)
      BY <2>1, <2>5, <2>7 DEF Owing, Accruable
    <3>2. crashes >= day - e + 1
      BY <1>o, <2>2, <3>1
    <3>. QED BY <1>0, <1>e, <2>1, <2>2, <2>5, <3>2
  <2>. QED BY <1>0, <1>e, <2>3, <2>5, <2>6, <2>7
<1> DEFINE Grows == posted'[b][y].accrual[i] = 0 => posted[b][y].accrual[i] = 0
<1>2. ASSUME day' = day, Grows, \/ crashes' = crashes + 1
                                \/ crashes' = crashes /\ (Owing(b, i) /\ CreditComes(b, i) => CreditComes(b, i)')
      PROVE  crashes' >= day' - PeriodEnd(b, Year(day'), i) + IF CreditComes(b, i)' THEN 0 ELSE 1
  <2>1. Owing(b, i)
    BY <1>2, OwedBefore
  <2>2. PeriodEnd(b, Year(day'), i) = e
    BY <1>2
  <2>. QED BY <1>0, <1>e, <1>o, <1>2, <2>1, <2>2
<1>3. SameAccruals => Grows
  BY YearType DEF SameAccruals, TypeOK
<1>4. CASE AccrualStep
  <2>1. day' = day /\ crashes' = crashes
    BY <1>4 DEF AccrualStep, StartAccrual, EndAccrual, Survey, Check, PostCredit, AccrualUnchanged, failures
  <2>2. Grows
    <3>1. CASE \E c \in Buckets : PostCredit(c)
      <4>1. PICK c \in Buckets : PostCredit(c)
        BY <3>1
      <4>2. accrual.year = y /\ accrual.bucket = c /\ y \in Years
        BY <4>1, YearType DEF PostCredit, TodayInv, TypeOK
      <4>3. PICK k \in accrual.due :
              LET q == Credit(c, accrual.year, k)
                  old == posted[c][accrual.year]
              IN /\ k \in Periods
                 /\ posted'[c][accrual.year] = [old EXCEPT !.accrual = [old.accrual EXCEPT ![k] = q], !.credited = old.credited + q]
                 /\ \A x \in Buckets, z \in Years : x # c \/ z # accrual.year => posted'[x][z] = posted[x][z]
        BY <4>1, PostCreditDoes
      <4>4. posted[c][y] \in Entry
        BY <4>2 DEF TypeOK
      <4>5. CASE b = c
        <5>1. i # k => posted'[b][y].accrual[i] = posted[b][y].accrual[i]
          <6>1. posted[c][y].accrual \in [Periods -> Nat]
            BY <4>4 DEF Entry
          <6> DEFINE old == posted[c][y]
                     q == Credit(c, y, k)
          <6>2. posted'[c][y] = [old EXCEPT !.accrual = [old.accrual EXCEPT ![k] = q], !.credited = old.credited + q]
            BY <4>2, <4>3
          <6> HIDE DEF q, old
          <6>3. posted'[c][y].accrual = [old.accrual EXCEPT ![k] = q]
            BY <4>4, <6>2 DEF Entry, old
          <6>. QED BY <4>5, <6>1, <6>3 DEF old
        <5>2. posted[c][y].accrual[k] = 0
          BY <4>1, <4>2 DEF AccrualInv, PostCredit
        <5>. QED BY <4>5, <5>1, <5>2
      <4>6. CASE b # c
        BY <4>2, <4>3, <4>6
      <4>. QED BY <4>5, <4>6
    <3>2. CASE ~\E c \in Buckets : PostCredit(c)
      BY <1>4, <3>2 DEF AccrualStep, StartAccrual, EndAccrual, Survey, Check
    <3>. QED BY <3>1, <3>2
  <2>3. Owing(b, i) /\ CreditComes(b, i) => CreditComes(b, i)'
    BY <1>4, CreditStays
  <2>. QED BY <1>2, <2>1, <2>2, <2>3
<1>5. CASE CloseStep
  <2>1. day' = day /\ crashes' = crashes /\ accrual' = accrual /\ SameAccruals
    BY <1>5, CloseEffect DEF CloseStep, StartClose, EndClose, CloseBucket, Encash, Record, CarryOut, CarryIn, Lapse, CloseUnchanged, failures
  <2>2. ran' = ran \/ ran' = ran \cup {"close"}
    BY <1>5 DEF CloseStep, StartClose, EndClose, CloseBucket, Encash, Record, CarryOut, CarryIn, Lapse, CloseUnchanged, failures
  <2>3. CreditComes(b, i) => CreditComes(b, i)'
    BY <2>1, <2>2 DEF CreditComes
  <2>. QED BY <1>2, <1>3, <2>1, <2>3
<1>6. CASE Failure
  <2>1. day' = day /\ crashes' = crashes + 1 /\ posted' = posted
    BY <1>6 DEF Failure, DieAccrual, DieClose, SkipAccrual, SkipClose, Miss, Fail, books
  <2>. QED BY <1>2, <2>1
<1>7. CASE LeaveStep
  <2>1. day' = day /\ crashes' = crashes /\ accrual' = accrual /\ ran' = ran
    BY <1>7, LeaveEffect
  <2>2. CreditComes(b, i) => CreditComes(b, i)'
    BY <2>1 DEF CreditComes
  <2>. QED BY <1>2, <1>3, <1>7, <2>1, <2>2, LeaveEffect
<1>8. CASE UNCHANGED vars
  <2>1. day' = day /\ crashes' = crashes /\ accrual' = accrual /\ ran' = ran /\ posted' = posted
    BY <1>8 DEF vars, books, failures
  <2>2. CreditComes(b, i) => CreditComes(b, i)'
    BY <2>1 DEF CreditComes
  <2>. QED BY <1>2, <2>1, <2>2
<1>. QED BY <1>1, <1>4, <1>5, <1>6, <1>7, <1>8 DEF Next

(* Nothing is owed at first, and no job runs.                              *)
LEMMA OwingInit == Init => TodayInv /\ OwingInv
<1> SUFFICES ASSUME Init PROVE TodayInv /\ OwingInv
  OBVIOUS
<1>1. TodayInv
  BY DEF Init, NoAccrual, NoClose, TodayInv
<1>2. ASSUME NEW b \in Buckets, NEW i \in Periods, Owing(b, i) PROVE FALSE
  <2>1. day = 0
    BY DEF Init
  <2>2. Year(0) \in Nat /\ YearStart(Year(0)) = 0
    <3>1. Year(0) = 0
      BY YearDaysType DEF Year
    <3>. QED BY <3>1, YearDaysType DEF YearStart
  <2>3. PeriodEnd(b, Year(0), i) > 0 /\ PeriodEnd(b, Year(0), i) \in Int
    BY <2>2, PeriodEndLater
  <2>4. 0 >= PeriodEnd(b, Year(0), i)
    BY <1>2, <2>1 DEF Owing, Accruable
  <2>. QED BY <2>3, <2>4
<1>. QED BY <1>1, <1>2 DEF OwingInv

(* So what is owed has cost a failure a day, always.                       *)
LEMMA Owed == Spec => [](TodayInv /\ OwingInv)
<1>1. CommonInv /\ TodayInv /\ OwingInv /\ [Next]_vars => TodayInv' /\ OwingInv'
  BY TodayStep, OwingStep DEF CommonInv
<1>. QED BY <1>1, OwingInit, Common, PTL DEF Spec

(* A night that was missed, or that died, is made up for by the next: a    *)
(* period that ended n days ago in this year has been credited when fewer  *)
(* than n + 1 nights have failed.                                          *)
THEOREM CreditedInTimeAlways == Spec => []CreditedInTime
<1>1. ASSUME CommonInv, OwingInv PROVE CreditedInTime
  <2> SUFFICES ASSUME accrual.pc = "rest", "accrual" \in ran, NEW b \in Buckets,
                      Rule[b].mode = "periodic_accrual", Rule[b].accrualCap = NoCap, NEW i \in PeriodsForYear(b),
                      Accruable(b, Year(day), i), EligibleOn(b) <= PeriodEnd(b, Year(day), i),
                      PeriodCredit(b, Year(day), i) > 0, crashes <= day - PeriodEnd(b, Year(day), i)
               PROVE  posted[b][Year(day)].accrual[i] > 0
    BY DEF CreditedInTime
  <2>1. /\ i \in Periods /\ Year(day) \in Nat /\ Year(day) \in Years /\ day \in Int /\ crashes \in Int
        /\ posted[b][Year(day)].accrual[i] \in Nat
    <3>1. TypeOK
      BY <1>1 DEF CommonInv
    <3>2. i \in Periods
      BY DEF PeriodsForYear
    <3>3. day \in 0 .. MaxDay /\ day \in Int /\ crashes \in Int
      BY <3>1, BoundAssumption DEF TypeOK
    <3>4. Year(day) \in Nat /\ Year(day) \in Years
      BY <3>3, YearType
    <3>5. posted[b][Year(day)] \in Entry
      BY <3>1, <3>4 DEF TypeOK
    <3>. QED BY <3>2, <3>3, <3>4, <3>5 DEF Entry
  <2>2. PeriodEnd(b, Year(day), i) \in Int
    BY <2>1, PeriodEndLater
  <2>3. ~CreditComes(b, i)
    BY DEF CreditComes
  <2>4. ~Owing(b, i)
    BY <1>1, <2>1, <2>2, <2>3 DEF OwingInv
  <2>. QED BY <2>1, <2>4 DEF Owing
<1>. QED BY <1>1, Common, Owed, PTL

(* Amounts of zero are passed over.                                        *)
LEMMA AmountStep ==
  ASSUME TypeOK, CloseInv, AmountInv, [Next]_vars PROVE AmountInv'
<1>0. close \in CloseState
  BY DEF TypeOK
<1>1. ASSUME NEW b \in Buckets, CloseBucket(b) PROVE AmountInv'
  <2> DEFINE dist == Distribution(b, close.found[b])
  <2>1. dist \in [encashed : Nat, carried : Nat, lapsed : Nat]
    BY <1>0, <1>1, DistributionFits DEF CloseBucket, CloseInv, CloseState
  <2> HIDE DEF dist
  <2>2. CASE close'.pc = "next"
    BY <2>2 DEF AmountInv
  <2>3. CASE close'.pc # "next"
    <3>1. close' = [close EXCEPT !.queue = @ \ {b}, !.bucket = b, !.dist = dist, !.pc = FirstOf(dist)]
      BY <1>0, <1>1, <2>3 DEF CloseBucket, CloseState, dist
    <3>2. close'.pc = FirstOf(dist) /\ close'.dist = dist
      BY <1>0, <3>1 DEF CloseState
    <3>. QED BY <2>1, <3>2 DEF AmountInv, FirstOf, AfterEncash
  <2>. QED BY <2>2, <2>3
<1>2. ASSUME NEW b \in Buckets, Encash(b) \/ Record(b) \/ CarryOut(b) \/ CarryIn(b) \/ Lapse(b) PROVE AmountInv'
  <2>1. PICK pc : GotoClose(pc) /\ pc \in {"record", AfterEncash(close.dist), "in", AfterCarry(close.dist), "next"}
    BY <1>2 DEF Encash, Record, CarryOut, CarryIn, Lapse
  <2>2. close'.pc = pc /\ close'.dist = close.dist
    BY <2>1, GotoDoes
  <2>3. pc = "out" => close.dist.carried > 0
    BY <2>1 DEF AfterEncash, AfterCarry
  <2>4. pc = "lapse" => close.dist.lapsed > 0
    BY <2>1 DEF AfterEncash, AfterCarry
  <2>5. pc # "encash"
    BY <2>1 DEF AfterEncash, AfterCarry
  <2>. QED BY <2>2, <2>3, <2>4, <2>5 DEF AmountInv
<1>3. CASE StartClose \/ EndClose
  BY <1>3, StartDoes DEF AmountInv
<1>4. CASE close' = close
  BY <1>4 DEF AmountInv
<1>5. CASE Failure
  BY <1>4, <1>5, GotoDoes DEF Failure, DieAccrual, DieClose, SkipAccrual, SkipClose, Miss, NoClose, AmountInv
<1>6. CASE LeaveStep
  BY <1>4, <1>6, LeaveEffect
<1>7. CASE AccrualStep \/ Tick \/ UNCHANGED vars
  BY <1>4, <1>7 DEF AccrualStep, StartAccrual, EndAccrual, Survey, Check,
                    PostCredit, AccrualUnchanged, failures, Tick, vars
<1>. QED BY <1>1, <1>2, <1>3, <1>5, <1>6, <1>7 DEF Next, CloseStep

(* The year that is closed is not touched.                                 *)
Rests(b) ==
  LET y == Year(day) - 1 IN
  /\ day' = day /\ late \subseteq late'
  /\ posted'[b][y] = posted[b][y] /\ pending'[b][y] = pending[b][y]

(* It has as much as before, and is as open as before.                     *)
LEMMA OpenBefore ==
  ASSUME NEW b \in Buckets, Rests(b)
  PROVE  /\ Open(b)' => Open(b)
         /\ Available(b, Year(day) - 1)' = Available(b, Year(day) - 1)
BY DEF Rests, Open, Closed, Available

(* The year that ended last, if nobody has posted to it since.             *)
Last(b) == Year(day) > 0 /\ <<b, Year(day) - 1>> \notin late

(* Of the ledger, the accrual touches this year only; leave of last year   *)
(* is late.                                                                *)
LEMMA OthersTouch ==
  ASSUME TypeOK, AccrualInv, TodayInv, NEW b \in Buckets, AccrualStep \/ LeaveStep, Last(b)'
  PROVE  Rests(b)
<1> DEFINE y == Year(day) - 1
<1>d. day' = day
  <2>1. CASE AccrualStep
    BY <2>1 DEF AccrualStep, StartAccrual, EndAccrual, Survey, Check, PostCredit, AccrualUnchanged, failures
  <2>2. CASE LeaveStep
    BY <2>2, LeaveEffect
  <2>. QED BY <2>1, <2>2
<1>0. Year(day) \in Years /\ y \in Years /\ y # Year(day) /\ y < Year(day) /\ <<b, y>> \notin late'
  <2>1. Year(day) > 0 /\ <<b, y>> \notin late'
    BY <1>d DEF Last
  <2>. QED BY <2>1, YearType DEF TypeOK
<1>1. ASSUME NEW c \in Buckets, PostCredit(c) PROVE Rests(b)
  <2>1. accrual.year = Year(day)
    BY <1>1 DEF TodayInv, PostCredit
  <2>2. posted'[b][y] = posted[b][y]
    BY <1>0, <1>1, <2>1, PostCreditDoes
  <2>. QED BY <1>1, <1>d, <2>2 DEF Rests, PostCredit, AccrualUnchanged, failures, requests
<1>2. CASE AccrualStep /\ ~\E c \in Buckets : PostCredit(c)
  BY <1>2, <1>d DEF AccrualStep, StartAccrual, EndAccrual, Survey, Check, AccrualUnchanged, failures, requests, Rests
<1>3. ASSUME NEW c \in Buckets, NEW z \in Years, RequestStep(c, z)
      PROVE  Rests(b)
  <2>1. Elsewhere(c, z) /\ Marks(c, z)
    BY <1>3, RequestDoes
  <2>2. CASE c = b /\ z = y
    BY <1>0, <1>d, <2>1, <2>2 DEF Marks, Rests
  <2>3. CASE c # b \/ z # y
    BY <1>0, <1>d, <2>1, <2>3 DEF Elsewhere, Marks, Rests
  <2>. QED BY <2>2, <2>3
<1>. QED BY <1>1, <1>2, <1>3 DEF LeaveStep, RequestStep, AccrualStep

(* What the close posts closes the bucket.                                 *)
LEMMA CloseCloses ==
  ASSUME TypeOK, CloseInv, AmountInv, NEW b \in Buckets, Encash(b) \/ CarryOut(b) \/ Lapse(b)
  PROVE  Closed(b, close.year)'
<1> DEFINE y == close.year
           e == posted[b][y]
           f == posted'[b][y]
           n == close.dist
<1>0. y \in Years /\ e \in Entry /\ n \in [encashed : Nat, carried : Nat, lapsed : Nat] /\ close'.year = y
  <2>1. \E pc : GotoClose(pc)
    BY DEF Encash, CarryOut, Lapse
  <2>. QED BY <2>1, GotoDoes DEF TypeOK, CloseState
<1>1. f.encashed + f.carriedOut + f.lapsed > 0
  <2>1. CASE Encash(b)
    <3>1. f = [e EXCEPT !.encashed = e.encashed + n.encashed]
      BY <2>1, EncashDoes
    <3>2. n.encashed > 0
      BY <2>1 DEF AmountInv, Encash
    <3> HIDE DEF f, e, n
    <3>. QED BY <1>0, <3>1, <3>2 DEF Entry
  <2>2. CASE CarryOut(b)
    <3>1. f = [e EXCEPT !.carriedOut = e.carriedOut + n.carried, !.credited = e.credited - n.carried]
      BY <2>2, CarryOutDoes
    <3>2. n.carried > 0
      BY <2>2 DEF AmountInv, CarryOut
    <3> HIDE DEF f, e, n
    <3>. QED BY <1>0, <3>1, <3>2 DEF Entry
  <2>3. CASE Lapse(b)
    <3>1. f = [e EXCEPT !.lapsed = e.lapsed + n.lapsed]
      BY <2>3, LapseDoes
    <3>2. n.lapsed > 0
      BY <2>3 DEF AmountInv, Lapse
    <3> HIDE DEF f, e, n
    <3>. QED BY <1>0, <3>1, <3>2 DEF Entry
  <2>. QED BY <2>1, <2>2, <2>3
<1>. QED BY <1>0, <1>1 DEF Closed

(* The close leaves alone what stays open, and comes to what it finds so.  *)
LEMMA CloseStays ==
  ASSUME TypeOK, CloseInv, AmountInv, TodayInv, CloseStep, NEW b \in Buckets, Open(b)'
  PROVE  Rests(b) /\ (CloseComes(b) => CloseComes(b)')
<1> DEFINE y == Year(day) - 1
<1>d. day' = day /\ late' = late /\ pending' = pending
  BY DEF CloseStep, StartClose, EndClose, CloseBucket, Encash, Record, CarryOut, CarryIn, Lapse, CloseUnchanged, failures
<1>0. /\ close \in CloseState /\ y \in Years /\ Year(day) \in Nat
      /\ close.pc # "rest" => "close" \in ran /\ close.year = y
  BY <1>d, YearType DEF TypeOK, TodayInv, Open
<1>1. ASSUME posted' = posted PROVE Rests(b) /\ Open(b) /\ \A z : Available(b, z)' = Available(b, z)
  <2>1. Rests(b)
    BY <1>1, <1>d DEF Rests
  <2>. QED BY <1>1, <1>d, <2>1, OpenBefore DEF Available
<1>q. ASSUME close.pc \in Busy, ran' = ran, NEW pc, pc # "rest", GotoClose(pc), Rests(b), close.bucket # b \/ close.pc \in {"record", "in"}
      PROVE  CloseComes(b) => CloseComes(b)'
  <2>1. SUFFICES ASSUME CloseComes(b) PROVE CloseComes(b)'
    OBVIOUS
  <2>2. b \in close.queue /\ close.found[b] = Available(b, close.year)
    BY <1>0, <1>q, <2>1 DEF CloseComes, Busy
  <2>3. close'.pc # "rest" /\ close'.queue = close.queue /\ close'.found = close.found /\ close'.year = close.year
    BY <1>q, GotoDoes
  <2>4. Available(b, close.year)' = Available(b, close.year)
    <3>1. Available(b, y)' = Available(b, y) /\ close.year = y
      BY <1>0, <1>q, OpenBefore DEF Busy
    <3>2. close'.year = y
      BY <2>3, <3>1
    <3>. QED BY <1>d, <3>1, <3>2 DEF Available
  <2>. QED BY <2>2, <2>3, <2>4 DEF CloseComes
<1>2. CASE StartClose
  <2>1. posted' = posted /\ close' = [NoClose EXCEPT !.pc = "next", !.year = y, !.found = [c \in Buckets |-> Available(c, y)],
                                     !.queue = {c \in Buckets : [x \in Buckets |-> Available(x, y)][c] > 0}]
    BY <1>2 DEF StartClose, books
  <2>2. Available(b, y) > 0 /\ Available(b, y)' = Available(b, y)
    <3>1. posted' = posted
      BY <2>1
    <3>2. Open(b) /\ Available(b, y)' = Available(b, y)
      BY <1>1, <1>d, <3>1 DEF Available
    <3>3. Available(b, Year(day) - 1) > 0
      BY <3>2 DEF Open
    <3>. QED BY <3>2, <3>3
  <2>3. /\ close'.pc = "next" /\ close'.year = y /\ close'.found[b] = Available(b, y)
        /\ close'.queue = {c \in Buckets : Available(c, y) > 0}
    BY <2>1 DEF NoClose
  <2>4. Available(b, close.year)' = Available(b, y)
    BY <1>d, <2>2, <2>3 DEF Available
  <2>. QED BY <1>1, <2>1, <2>2, <2>3, <2>4 DEF CloseComes
<1>3. CASE EndClose
  BY <1>0, <1>1, <1>3 DEF EndClose, CloseComes, books
<1>4. ASSUME NEW c \in Buckets, CloseBucket(c) PROVE Rests(b) /\ (CloseComes(b) => CloseComes(b)')
  <2>1. posted' = posted /\ ran' = ran /\ close.pc = "next"
    BY <1>4 DEF CloseBucket, books
  <2>2. Rests(b) /\ Open(b) /\ \A z : Available(b, z)' = Available(b, z)
    BY <1>1, <2>1
  <2>3. SUFFICES ASSUME CloseComes(b) PROVE CloseComes(b)'
    BY <2>2
  <2>4. b \in close.queue /\ close.found[b] = Available(b, y) /\ close.year = y
    BY <1>0, <2>1, <2>3 DEF CloseComes
  <2>5. CASE c # b
    <3>1. close'.pc # "rest" /\ close'.queue = close.queue \ {c} /\ close'.found = close.found /\ close'.year = y
      <4>1. close'.pc # "rest"
        BY <1>0, <1>4 DEF CloseBucket, CloseState, FirstOf, AfterEncash
      <4>. QED BY <1>4, <2>4, <4>1, CloseBucketDoes
    <3>2. Available(b, close.year)' = Available(b, y)
      BY <2>1, <1>d, <3>1 DEF Available
    <3>. QED BY <2>4, <2>5, <3>1, <3>2 DEF CloseComes
  <2>6. CASE c = b
    <3> DEFINE dist == Distribution(b, close.found[b])
    <3>1. ~AlreadyClosed(b, y)
      <4>1. posted[b][y].carriedIn = 0 /\ ~Closed(b, y) /\ posted[b][y] \in Entry
        BY <1>0, <2>2 DEF Open, TypeOK
      <4>. QED BY <4>1 DEF Closed, AlreadyClosed, Entry
    <3>2. dist \in [encashed : Nat, carried : Nat, lapsed : Nat]
      BY <1>0, <2>4, DistributionFits DEF CloseInv, CloseState
    <3>3. dist # Nothing
      BY <2>2, <2>4 DEF Open
    <3>4. close' = [close EXCEPT !.queue = @ \ {b}, !.bucket = b, !.dist = dist, !.pc = FirstOf(dist)]
      BY <1>0, <1>4, <2>4, <2>6, <3>1 DEF CloseBucket
    <3> HIDE DEF dist
    <3>5. close'.bucket = b /\ close'.pc = FirstOf(dist)
      BY <1>0, <3>4 DEF CloseState
    <3>6. FirstOf(dist) \in {"encash", "out", "lapse"}
      <4>1. dist.encashed > 0 \/ dist.carried > 0 \/ dist.lapsed > 0
        BY <3>2, <3>3 DEF Nothing
      <4>. QED BY <3>2, <4>1 DEF FirstOf, AfterEncash
    <3>. QED BY <3>5, <3>6 DEF CloseComes
  <2>. QED BY <2>5, <2>6
<1>5. ASSUME NEW c \in Buckets, Encash(c) \/ CarryOut(c) \/ Lapse(c) PROVE Rests(b) /\ (CloseComes(b) => CloseComes(b)')
  <2>1. PICK pc : GotoClose(pc) /\ pc # "rest" /\ ran' = ran /\ close.pc \in Busy /\ close.bucket = c
    BY <1>5 DEF Encash, CarryOut, Lapse, Busy
  <2>2. close.year = y /\ close'.year = y
    BY <1>0, <2>1, GotoDoes DEF Busy
  <2>3. c # b
    <3>1. Closed(c, close.year)'
      BY <1>5, CloseCloses
    <3>2. ~Closed(b, Year(day) - 1)'
      BY DEF Open
    <3>. QED BY <1>d, <2>2, <3>1, <3>2 DEF Closed
  <2>4. posted'[b][y] = posted[b][y]
    <3>1. \A x \in Buckets, z \in Years : x # c \/ z # close.year => posted'[x][z] = posted[x][z]
      <4>1. CASE Encash(c)
        BY <4>1, EncashDoes
      <4>2. CASE CarryOut(c)
        BY <4>2, CarryOutDoes
      <4>3. CASE Lapse(c)
        BY <4>3, LapseDoes
      <4>. QED BY <1>5, <4>1, <4>2, <4>3
    <3>. QED BY <1>0, <2>3, <3>1
  <2>5. Rests(b)
    BY <1>d, <2>4 DEF Rests
  <2>. QED BY <1>q, <2>1, <2>3, <2>5
<1>6. ASSUME NEW c \in Buckets, Record(c) PROVE Rests(b) /\ (CloseComes(b) => CloseComes(b)')
  <2>1. posted' = posted /\ ran' = ran /\ close.pc = "record"
    BY <1>6 DEF Record
  <2>2. PICK pc : GotoClose(pc) /\ pc # "rest"
    BY <1>6 DEF Record, AfterEncash
  <2>. QED BY <1>1, <1>q, <2>1, <2>2 DEF Busy
<1>7. ASSUME NEW c \in Buckets, CarryIn(c) PROVE Rests(b) /\ (CloseComes(b) => CloseComes(b)')
  <2>1. ran' = ran /\ close.pc = "in" /\ close.year = y
    BY <1>0, <1>7 DEF CarryIn
  <2>2. PICK pc : GotoClose(pc) /\ pc # "rest"
    BY <1>7 DEF CarryIn, AfterCarry
  <2>3. posted'[b][y] = posted[b][y]
    <3>1. y # close.year + 1
      BY <1>0, <2>1
    <3>. QED BY <1>0, <1>7, <3>1, CarryInDoes
  <2>4. Rests(b)
    BY <1>d, <2>3 DEF Rests
  <2>. QED BY <1>q, <2>1, <2>2, <2>4 DEF Busy
<1>. QED BY <1>2, <1>3, <1>4, <1>5, <1>6, <1>7 DEF CloseStep

(* A day of the window that ends with a bucket open has cost a failure.    *)
LEMMA OpenStep ==
  ASSUME TypeOK, AccrualInv, CloseInv, AmountInv, TodayInv, OpenInv, [Next]_vars PROVE OpenInv'
<1> DEFINE w == day % YearDays
<1>0. /\ day \in Nat /\ crashes \in Nat /\ w \in Nat /\ GraceDays \in Nat /\ GraceDays > 0 /\ Year(day) \in Nat
  <2>1. day \in Nat /\ crashes \in Nat
    BY DEF TypeOK
  <2>. QED BY <2>1, NextDay, YearDaysType, BoundAssumption
<1> SUFFICES ASSUME NEW b \in Buckets, Open(b)'
             PROVE  crashes' >= IF InWindow' THEN (day' % YearDays) + (IF CloseComes(b)' THEN 0 ELSE 1) ELSE GraceDays
  BY DEF OpenInv
<1>o. Open(b) => crashes >= IF InWindow THEN w + (IF CloseComes(b) THEN 0 ELSE 1) ELSE GraceDays
  BY DEF OpenInv
<1>1. CASE Tick
  <2>1. /\ day' = day + 1 /\ ran' = {} /\ posted' = posted /\ pending' = pending /\ crashes' = crashes /\ late' = late
        /\ close.pc = "rest" /\ (InWindow => "close" \in ran)
    BY <1>1 DEF Tick, books, requests, failures
  <2>2. CloseComes(b)' /\ (InWindow => ~CloseComes(b))
    BY <2>1 DEF CloseComes
  <2>3. Year(day + 1) > 0
    BY <2>1 DEF Open
  <2>4. InWindow' <=> (day + 1) % YearDays < GraceDays
    BY <2>1, <2>3 DEF InWindow
  <2>5. CASE Year(day + 1) = Year(day) /\ (day + 1) % YearDays = w + 1
    <3>1. Open(b)
      BY <2>1, <2>5 DEF Open, Available, Closed
    <3>2. InWindow <=> w < GraceDays
      BY <2>3, <2>5 DEF InWindow
    <3>3. crashes >= IF w < GraceDays THEN w + 1 ELSE GraceDays
      BY <1>o, <2>2, <3>1, <3>2
    <3>4. crashes' >= IF w + 1 < GraceDays THEN w + 1 ELSE GraceDays
      BY <1>0, <2>1, <3>3
    <3>. QED BY <1>0, <2>1, <2>2, <2>4, <2>5, <3>4
  <2>6. CASE (day + 1) % YearDays = 0
    BY <1>0, <2>1, <2>2, <2>4, <2>6
  <2>. QED BY <1>0, <2>5, <2>6, NextDay
<1>2. ASSUME Rests(b), \/ crashes' = crashes + 1
                       \/ crashes' = crashes /\ (CloseComes(b) => CloseComes(b)')
      PROVE  crashes' >= IF InWindow' THEN (day' % YearDays) + (IF CloseComes(b)' THEN 0 ELSE 1) ELSE GraceDays
  <2>1. Open(b) /\ day' = day
    BY <1>2, OpenBefore DEF Rests
  <2>2. InWindow' <=> InWindow
    BY <2>1 DEF InWindow
  <2>. QED BY <1>0, <1>o, <1>2, <2>1, <2>2
<1>3. ASSUME close' = close, ran' = ran \/ "accrual" \notin ran, ran' \subseteq ran \cup {"accrual"}, Rests(b)
      PROVE  CloseComes(b) => CloseComes(b)'
  <2>1. close.pc # "rest" => Available(b, close.year)' = Available(b, close.year)
    <3>1. SUFFICES ASSUME close.pc # "rest" PROVE Available(b, close.year)' = Available(b, close.year)
      OBVIOUS
    <3>2. close.year = Year(day) - 1
      BY <3>1 DEF TodayInv
    <3>3. close'.year = close.year
      BY <1>3
    <3>. QED BY <1>3, <3>2, <3>3 DEF Rests, Available
  <2>. QED BY <1>3, <2>1 DEF CloseComes
<1>4. CASE AccrualStep \/ LeaveStep
  <2>1. /\ close' = close /\ crashes' = crashes /\ (ran' = ran \/ "accrual" \notin ran) /\ ran' \subseteq ran \cup {"accrual"}
    <3>1. CASE AccrualStep
      BY <3>1 DEF AccrualStep, StartAccrual, EndAccrual, Survey, Check, PostCredit, AccrualUnchanged, failures
    <3>2. CASE LeaveStep
      BY <3>2, LeaveEffect
    <3>. QED BY <1>4, <3>1, <3>2
  <2>2. Last(b)'
    BY DEF Open, Last
  <2>. QED BY <1>2, <1>3, <1>4, <2>1, <2>2, OthersTouch
<1>5. CASE CloseStep
  <2>1. crashes' = crashes
    BY <1>5, CloseEffect
  <2>. QED BY <1>2, <1>5, <2>1, CloseStays
<1>6. CASE Failure
  <2>1. Rests(b) /\ crashes' = crashes + 1
    BY <1>6 DEF Failure, DieAccrual, DieClose, SkipAccrual, SkipClose, Miss, Fail, books, requests, Rests
  <2>. QED BY <1>2, <2>1
<1>7. CASE UNCHANGED vars
  <2>1. Rests(b) /\ close' = close /\ crashes' = crashes /\ ran' = ran
    BY <1>7 DEF vars, books, failures, requests, Rests
  <2>. QED BY <1>2, <1>3, <2>1
<1>. QED BY <1>1, <1>4, <1>5, <1>6, <1>7 DEF Next

(* In the first year there is nothing to close.                            *)
LEMMA OpenInit == Init => AmountInv /\ OpenInv
<1> SUFFICES ASSUME Init PROVE AmountInv /\ OpenInv
  OBVIOUS
<1>1. AmountInv
  BY DEF Init, NoClose, AmountInv
<1>2. Year(day) = 0
  <2>1. Year(0) = 0
    BY YearDaysType DEF Year
  <2>. QED BY <2>1 DEF Init
<1>. QED BY <1>1, <1>2 DEF OpenInv, Open

(* So what is open has cost a failure a day, always.                       *)
LEMMA Opened == Spec => [](AmountInv /\ OpenInv)
<1>1. CommonInv /\ TodayInv /\ AmountInv /\ OpenInv /\ [Next]_vars => AmountInv' /\ OpenInv'
  BY AmountStep, OpenStep DEF CommonInv
<1>. QED BY <1>1, OpenInit, Common, Owed, PTL DEF Spec

Untouched(b, y) ==
  LET e == posted[b][y] IN e.encashed = 0 /\ e.carriedOut = 0 /\ e.lapsed = 0

HandNow(b) == close.pc \in Busy /\ close.bucket = b

(* The bucket in hand has had the entries before the next, and no other.   *)
Staged(b, y) ==
  LET e == posted[b][y]
      d == close.dist
  IN /\ d = Distribution(b, Total(b, y))
     /\ e.encashed = IF close.pc = "encash" THEN 0 ELSE d.encashed
     /\ e.carriedOut = IF close.pc \in {"encash", "record", "out"} THEN 0 ELSE d.carried
     /\ e.lapsed = 0

(* A bucket has all its entries, or none, or is in hand; or was torn.      *)
Heals(b) ==
  LET y == Year(day) - 1 IN
  /\ b \in close.queue => close.found[b] = Available(b, y)
  /\ HandNow(b) => Staged(b, y)
  /\ <<b, y>> \notin torn => Untouched(b, y) \/ Distributed(b, y) \/ HandNow(b)

(* No year is closed before it ends.                                       *)
Fresh == \A b \in Buckets, y \in Years : y >= Year(day) => Untouched(b, y)

HealInv ==
  /\ close.pc # "rest" => InWindow
  /\ Fresh
  /\ \A b \in Buckets : Last(b) => Heals(b)

(* What the close posts is of the year that it closes and of the bucket in *)
(* hand, but for what it carries into the next year.                       *)
LEMMA CloseTouches ==
  ASSUME TypeOK, CloseInv, CloseStep, NEW b \in Buckets, NEW y \in Years
  PROVE  \/ posted'[b][y] = posted[b][y]
         \/ y = close.year /\ HandNow(b)
         \/ y = close.year + 1 /\ (Untouched(b, y) => Untouched(b, y)')
<1>1. CASE posted' = posted
  BY <1>1
<1>2. ASSUME NEW c \in Buckets, Encash(c) \/ CarryOut(c) \/ Lapse(c)
      PROVE  posted'[b][y] = posted[b][y] \/ (y = close.year /\ HandNow(b))
  <2>1. HandNow(c)
    BY <1>2 DEF Encash, CarryOut, Lapse, HandNow, Busy
  <2>2. c # b \/ y # close.year => posted'[b][y] = posted[b][y]
    <3>1. CASE Encash(c)
      BY <3>1, EncashDoes
    <3>2. CASE CarryOut(c)
      BY <3>2, CarryOutDoes
    <3>3. CASE Lapse(c)
      BY <3>3, LapseDoes
    <3>. QED BY <1>2, <3>1, <3>2, <3>3
  <2>. QED BY <2>1, <2>2
<1>3. ASSUME NEW c \in Buckets, CarryIn(c)
      PROVE  posted'[b][y] = posted[b][y] \/ (y = close.year + 1 /\ (Untouched(b, y) => Untouched(b, y)'))
  <2>1. c # b \/ y # close.year + 1 => posted'[b][y] = posted[b][y]
    BY <1>3, CarryInDoes
  <2>2. CASE c = b /\ y = close.year + 1
    <3> DEFINE e == posted[b][y]
    <3>1. posted'[b][y] = [e EXCEPT !.carriedIn = e.carriedIn + close.dist.carried, !.credited = e.credited + close.dist.carried]
      BY <1>3, <2>2, CarryInDoes
    <3>2. e \in Entry
      BY DEF TypeOK
    <3>3. /\ posted'[b][y].encashed = e.encashed
          /\ posted'[b][y].carriedOut = e.carriedOut
          /\ posted'[b][y].lapsed = e.lapsed
      BY <3>1, <3>2 DEF Entry
    <3>. QED BY <2>2, <3>3 DEF Untouched
  <2>. QED BY <2>1, <2>2
<1>4. StartClose \/ EndClose \/ (\E c \in Buckets : CloseBucket(c) \/ Record(c)) => posted' = posted
  BY DEF StartClose, EndClose, CloseBucket, Record, books
<1>. QED BY <1>1, <1>2, <1>3, <1>4 DEF CloseStep

(* No step closes a year before it ends.                                   *)
LEMMA FreshStep ==
  ASSUME TypeOK, AccrualInv, CloseInv, TodayInv, Fresh, [Next]_vars PROVE Fresh'
<1>0. day \in Nat
  BY DEF TypeOK
<1>1. ASSUME day' = day, SameClosing, SameLapsed PROVE Fresh'
  BY <1>1 DEF Fresh, SameClosing, SameLapsed, Untouched
<1>2. CASE Tick
  <2>1. day' = day + 1 /\ posted' = posted
    BY <1>2 DEF Tick, books
  <2>2. Year(day + 1) >= Year(day) /\ Year(day + 1) \in Nat /\ Year(day) \in Nat
    <3>1. /\ Year(day + 1) \in Nat /\ Year(day) \in Nat
          /\ Year(day + 1) = Year(day) \/ Year(day + 1) = Year(day) + 1
      BY <1>0, NextDay
    <3>. QED BY <3>1
  <2>3. \A y \in Years : y \in Int
    BY YearDaysType, BoundAssumption DEF Years, Year
  <2>. QED BY <2>1, <2>2, <2>3 DEF Fresh, Untouched
<1>3. CASE CloseStep
  <2>1. day' = day
    BY <1>3 DEF CloseStep, StartClose, EndClose, CloseBucket, Encash, Record, CarryOut, CarryIn, Lapse, CloseUnchanged
  <2>2. SUFFICES ASSUME NEW b \in Buckets, NEW y \in Years, y >= Year(day) PROVE Untouched(b, y)'
    BY <2>1 DEF Fresh
  <2>3. Untouched(b, y) /\ (close.pc # "rest" => y # close.year)
    <3>1. close.pc # "rest" => close.year = Year(day) - 1
      BY DEF TodayInv
    <3>2. Year(day) \in Int /\ y \in Int
      BY <1>0, NextDay, YearDaysType, BoundAssumption DEF Years, Year
    <3>. QED BY <2>2, <3>1, <3>2 DEF Fresh
  <2>4. ~(y = close.year /\ HandNow(b))
    BY <2>3 DEF HandNow, Busy
  <2>5. CASE posted'[b][y] = posted[b][y]
    BY <2>3, <2>5 DEF Untouched
  <2>. QED BY <1>3, <2>3, <2>4, <2>5, CloseTouches
<1>4. CASE AccrualStep
  <2>1. day' = day
    BY <1>4 DEF AccrualStep, StartAccrual, EndAccrual, Survey, Check, PostCredit, AccrualUnchanged
  <2>. QED BY <1>1, <1>4, <2>1, AccrualEffect
<1>5. CASE LeaveStep
  BY <1>1, <1>5, LeaveEffect
<1>6. CASE Failure \/ UNCHANGED vars
  <2>1. day' = day /\ posted' = posted
    BY <1>6, FailureDoes DEF Fail, vars, books
  <2>. QED BY <1>1, <2>1 DEF SameClosing, SameLapsed
<1>. QED BY <1>2, <1>3, <1>4, <1>5, <1>6 DEF Next

(* What a step leaves alone stays as far as it was.                        *)
LEMMA HealsKept ==
  ASSUME NEW b \in Buckets, Rests(b), Heals(b), torn \subseteq torn',
         b \in close'.queue => close'.found[b] = Available(b, Year(day) - 1),
         HandNow(b) => HandNow(b)', HandNow(b)' => close' = close
  PROVE  Heals(b)'
<1> DEFINE y == Year(day) - 1
<1>1. Year(day') - 1 = y /\ posted'[b][y] = posted[b][y] /\ pending'[b][y] = pending[b][y]
  BY DEF Rests
<1>2. /\ Available(b, Year(day) - 1)' = Available(b, y)
      /\ Untouched(b, Year(day) - 1)' <=> Untouched(b, y)
      /\ Total(b, Year(day) - 1)' = Total(b, y)
  BY <1>1 DEF Available, Untouched, Total
<1>3. Distributed(b, Year(day) - 1)' <=> Distributed(b, y)
  BY <1>1, <1>2 DEF Distributed
<1>4. HandNow(b)' => Staged(b, Year(day) - 1)'
  <2>1. SUFFICES ASSUME HandNow(b)' PROVE Staged(b, Year(day) - 1)'
    OBVIOUS
  <2>2. close' = close
    BY <2>1
  <2>3. Staged(b, y)
    BY <2>1, <2>2 DEF Heals, HandNow
  <2>. QED BY <1>1, <1>2, <2>2, <2>3 DEF Staged
<1>5. <<b, Year(day') - 1>> \notin torn' => <<b, y>> \notin torn
  BY <1>1
<1>. QED BY <1>1, <1>2, <1>3, <1>4, <1>5 DEF Heals

(* A distribution is its three amounts.                                    *)
LEMMA ThreeAmounts ==
  ASSUME NEW d \in [encashed : Nat, carried : Nat, lapsed : Nat]
  PROVE  d = [encashed |-> d.encashed, carried |-> d.carried, lapsed |-> d.lapsed]
OBVIOUS

(* The bucket in hand goes on from one entry to the next, to the last.     *)
LEMMA HealsPosted ==
  ASSUME TypeOK, CloseInv, TodayInv, CloseStep, NEW b \in Buckets, Last(b), Heals(b),
         Encash(b) \/ Record(b) \/ CarryOut(b) \/ CarryIn(b) \/ Lapse(b)
  PROVE  Heals(b)'
<1> DEFINE y == Year(day) - 1
           e == posted[b][y]
           f == posted'[b][y]
           d == close.dist
<1>0. /\ day' = day /\ pending' = pending /\ y \in Years /\ Year(day) \in Nat
      /\ close.pc # "rest" /\ close.year = y /\ HandNow(b)
  <2>1. day' = day /\ pending' = pending
    BY DEF Encash, Record, CarryOut, CarryIn, Lapse, CloseUnchanged
  <2>2. close.pc # "rest" /\ HandNow(b)
    BY DEF Encash, Record, CarryOut, CarryIn, Lapse, HandNow, Busy
  <2>3. Year(day) > 0 /\ day \in 0 .. MaxDay
    BY DEF Last, TypeOK
  <2>. QED BY <2>1, <2>2, <2>3, YearType DEF TodayInv
<1>1. /\ e \in Entry /\ d \in [encashed : Nat, carried : Nat, lapsed : Nat]
      /\ pending[b][y] \in Int /\ b \notin close.queue
  BY <1>0 DEF TypeOK, CloseState, CloseInv, HandNow
<1>2. /\ d = Distribution(b, Total(b, y))
      /\ e.encashed = IF close.pc = "encash" THEN 0 ELSE d.encashed
      /\ e.carriedOut = IF close.pc \in {"encash", "record", "out"} THEN 0 ELSE d.carried
      /\ e.lapsed = 0
  BY <1>0 DEF Heals, Staged
<1>3. Total(b, y) = e.credited - e.used - pending[b][y] + e.carriedOut
  BY <1>1 DEF Total, Available, Entry
<1>4. ASSUME NEW pc, GotoClose(pc), f \in Entry,
             f.credited + f.carriedOut = e.credited + e.carriedOut, f.used = e.used,
             \/ /\ pc \in Busy /\ f.lapsed = 0
                /\ f.encashed = IF pc = "encash" THEN 0 ELSE d.encashed
                /\ f.carriedOut = IF pc \in {"encash", "record", "out"} THEN 0 ELSE d.carried
             \/ pc = "next" /\ f.encashed = d.encashed /\ f.carriedOut = d.carried /\ f.lapsed = d.lapsed
      PROVE  Heals(b)'
  <2>1. /\ close'.pc = pc /\ close'.queue = close.queue /\ close'.dist = d /\ close'.bucket = b
        /\ Year(day') - 1 = y
    BY <1>0, <1>4, GotoDoes DEF HandNow
  <2>2. Total(b, Year(day) - 1)' = Total(b, y)
    <3>1. Total(b, Year(day) - 1)' = f.credited - f.used - f.encashed - f.lapsed - pending[b][y] + f.encashed + f.carriedOut + f.lapsed
      BY <1>0, <2>1 DEF Total, Available
    <3> HIDE DEF e, f, d
    <3>2. /\ f.credited \in Int /\ f.used \in Nat /\ f.encashed \in Nat /\ f.lapsed \in Nat /\ f.carriedOut \in Nat
          /\ e.credited \in Int /\ e.used \in Nat /\ e.carriedOut \in Nat
      BY <1>1, <1>4 DEF Entry
    <3>. QED BY <1>1, <1>3, <1>4, <3>1, <3>2
  <2>3. CASE pc \in Busy
    <3>1. HandNow(b)'
      BY <2>1, <2>3 DEF HandNow
    <3>2. Staged(b, Year(day) - 1)'
      BY <1>2, <1>4, <2>1, <2>2, <2>3 DEF Staged, Busy
    <3>. QED BY <1>1, <2>1, <3>1, <3>2 DEF Heals
  <2>4. CASE pc = "next"
    <3>1. ~HandNow(b)'
      BY <2>1, <2>4 DEF HandNow, Busy
    <3>2. Distributed(b, Year(day) - 1)'
      <4>1. /\ f.encashed = d.encashed /\ f.carriedOut = d.carried /\ f.lapsed = d.lapsed
        BY <1>4, <2>4 DEF Busy
      <4>. QED BY <1>1, <1>2, <2>1, <2>2, <4>1, ThreeAmounts DEF Distributed
    <3>. QED BY <1>1, <2>1, <3>1, <3>2 DEF Heals
  <2>. QED BY <1>4, <2>3, <2>4
<1>n. d.encashed \in Nat /\ d.carried \in Nat /\ d.lapsed \in Nat
  BY <1>1
<1>5. CASE Encash(b)
  <2>1. GotoClose("record") /\ close.pc = "encash"
    BY <1>5 DEF Encash
  <2>2. f = [e EXCEPT !.encashed = e.encashed + d.encashed] /\ posted' \in Ledger
    BY <1>0, <1>5, EncashDoes
  <2>3. /\ f \in Entry /\ f.credited = e.credited /\ f.used = e.used /\ f.lapsed = e.lapsed
        /\ f.carriedOut = e.carriedOut /\ f.encashed = e.encashed + d.encashed
    BY <1>0, <1>1, <2>2 DEF Entry, Ledger
  <2>. QED BY <1>2, <1>4, <1>n, <2>1, <2>3 DEF Busy
<1>6. CASE Record(b)
  <2>1. GotoClose(AfterEncash(d)) /\ close.pc = "record" /\ posted' = posted
    BY <1>6 DEF Record
  <2>2. \/ AfterEncash(d) = "out"
        \/ AfterEncash(d) = "lapse" /\ d.carried = 0
        \/ AfterEncash(d) = "next" /\ d.carried = 0 /\ d.lapsed = 0
    BY <1>n DEF AfterEncash
  <2>3. e.carriedOut = 0 /\ e.encashed = d.encashed /\ e.lapsed = 0 /\ f = e
    BY <1>2, <2>1
  <2> HIDE DEF e, f, d
  <2>. QED BY <1>1, <1>4, <2>1, <2>2, <2>3 DEF Busy
<1>7. CASE CarryOut(b)
  <2>1. GotoClose("in") /\ close.pc = "out"
    BY <1>7 DEF CarryOut
  <2>2. f = [e EXCEPT !.carriedOut = e.carriedOut + d.carried, !.credited = e.credited - d.carried] /\ posted' \in Ledger
    BY <1>0, <1>7, CarryOutDoes
  <2>3. /\ f \in Entry /\ f.credited = e.credited - d.carried /\ f.used = e.used /\ f.lapsed = e.lapsed
        /\ f.carriedOut = e.carriedOut + d.carried /\ f.encashed = e.encashed
    BY <1>0, <1>1, <2>2 DEF Entry, Ledger
  <2>4. e.credited \in Int /\ e.carriedOut = 0 /\ e.encashed = d.encashed
    BY <1>1, <1>2, <2>1 DEF Entry
  <2> HIDE DEF e, f, d
  <2>5. f.credited + f.carriedOut = e.credited + e.carriedOut /\ f.carriedOut = d.carried
    BY <1>n, <2>3, <2>4
  <2>. QED BY <1>2, <1>4, <2>1, <2>3, <2>4, <2>5 DEF Busy
<1>8. CASE CarryIn(b)
  <2>1. GotoClose(AfterCarry(d)) /\ close.pc = "in"
    BY <1>8 DEF CarryIn
  <2>2. \/ AfterCarry(d) = "lapse"
        \/ AfterCarry(d) = "next" /\ d.lapsed = 0
    BY <1>n DEF AfterCarry
  <2>3. f = e
    <3>1. y # close.year + 1
      BY <1>0
    <3>. QED BY <1>0, <1>8, <3>1, CarryInDoes
  <2>4. e.carriedOut = d.carried /\ e.encashed = d.encashed /\ e.lapsed = 0
    BY <1>2, <2>1
  <2> HIDE DEF e, f, d
  <2>. QED BY <1>1, <1>4, <2>1, <2>2, <2>3, <2>4 DEF Busy
<1>9. CASE Lapse(b)
  <2>1. GotoClose("next") /\ close.pc = "lapse"
    BY <1>9 DEF Lapse
  <2>2. f = [e EXCEPT !.lapsed = e.lapsed + d.lapsed] /\ posted' \in Ledger
    BY <1>0, <1>9, LapseDoes
  <2>3. /\ f \in Entry /\ f.credited = e.credited /\ f.used = e.used /\ f.lapsed = e.lapsed + d.lapsed
        /\ f.carriedOut = e.carriedOut /\ f.encashed = e.encashed
    BY <1>0, <1>1, <2>2 DEF Entry, Ledger
  <2>. QED BY <1>2, <1>4, <1>n, <2>1, <2>3
<1>. QED BY <1>5, <1>6, <1>7, <1>8, <1>9

(* The close as a whole.                                                   *)
LEMMA HealsClose ==
  ASSUME TypeOK, CloseInv, TodayInv, CloseStep, NEW b \in Buckets, Last(b), Heals(b)
  PROVE  Heals(b)'
<1> DEFINE y == Year(day) - 1
<1>0. /\ y \in Years /\ close \in CloseState /\ Year(day) \in Nat
      /\ close.pc # "rest" => close.year = y
  BY YearType DEF TypeOK, TodayInv, Last
<1>d. day' = day /\ late' = late /\ pending' = pending /\ torn' = torn
  BY CloseEffect DEF CloseStep, StartClose, EndClose, CloseBucket, Encash, Record, CarryOut, CarryIn, Lapse, CloseUnchanged
<1>k. ASSUME posted'[b][y] = posted[b][y] PROVE Rests(b)
  BY <1>d, <1>k DEF Rests
<1>1. CASE StartClose
  <2>1. /\ posted' = posted /\ close.pc = "rest" /\ close'.pc = "next"
        /\ b \in close'.queue => close'.found[b] = Available(b, y)
    BY <1>1 DEF StartClose, NoClose, books
  <2>2. ~HandNow(b) /\ ~HandNow(b)'
    BY <2>1 DEF HandNow, Busy
  <2>. QED BY <1>d, <1>k, <2>1, <2>2, HealsKept
<1>2. CASE EndClose
  <2>1. posted' = posted /\ close.pc = "next" /\ close'.pc = "rest" /\ close'.queue = {}
    BY <1>2 DEF EndClose, NoClose, books
  <2>2. ~HandNow(b) /\ ~HandNow(b)'
    BY <2>1 DEF HandNow, Busy
  <2>. QED BY <1>d, <1>k, <2>1, <2>2, HealsKept
<1>3. ASSUME NEW c \in Buckets, CloseBucket(c), c # b \/ AlreadyClosed(c, close.year) PROVE Heals(b)'
  <2>1. /\ posted' = posted /\ close.pc = "next"
        /\ close'.queue = close.queue \ {c} /\ close'.found = close.found
    BY <1>3, CloseBucketDoes
  <2>2. ~HandNow(b)
    BY <2>1 DEF HandNow, Busy
  <2>3. ~HandNow(b)'
    <3>1. CASE AlreadyClosed(c, close.year)
      <4>1. close'.pc = "next"
        BY <1>0, <1>3, <2>1, <3>1 DEF CloseBucket, CloseState
      <4>. QED BY <4>1 DEF HandNow, Busy
    <3>2. CASE ~AlreadyClosed(c, close.year)
      <4>1. close'.bucket = c
        BY <1>0, <1>3, <3>2 DEF CloseBucket, CloseState
      <4>. QED BY <1>3, <3>2, <4>1 DEF HandNow
    <3>. QED BY <3>1, <3>2
  <2>4. b \in close'.queue => close'.found[b] = Available(b, y)
    BY <2>1 DEF Heals
  <2>. QED BY <1>d, <1>k, <2>1, <2>2, <2>3, <2>4, HealsKept
<1>4. ASSUME CloseBucket(b), ~AlreadyClosed(b, close.year) PROVE Heals(b)'
  <2> DEFINE dist == Distribution(b, close.found[b])
  <2>1. /\ posted' = posted /\ close.pc = "next" /\ close.year = y /\ b \in close.queue
        /\ close'.queue = close.queue \ {b}
    BY <1>0, <1>4, CloseBucketDoes
  <2>2. close' = [close EXCEPT !.queue = @ \ {b}, !.bucket = b, !.dist = dist, !.pc = FirstOf(dist)]
    BY <1>4 DEF CloseBucket
  <2>3. close.found[b] = Available(b, y) /\ close.found[b] > 0 /\ close.found[b] \in Int
    BY <1>0, <2>1 DEF Heals, CloseInv, CloseState
  <2>4. dist \in [encashed : Nat, carried : Nat, lapsed : Nat]
    BY <2>3, DistributionFits
  <2>5. posted[b][y].encashed = 0 /\ posted[b][y].carriedOut = 0 /\ posted[b][y].lapsed = 0
    <3>1. posted[b][y] \in Entry
      BY <1>0 DEF TypeOK
    <3>2. ~(posted[b][y].encashed + posted[b][y].carriedOut + posted[b][y].carriedIn + posted[b][y].lapsed > 0)
      BY <1>4, <2>1 DEF AlreadyClosed
    <3>. QED BY <3>1, <3>2 DEF Entry
  <2>6. Total(b, y) = close.found[b]
    BY <2>3, <2>5 DEF Total
  <2> HIDE DEF dist
  <2>7. close'.bucket = b /\ close'.dist = dist /\ close'.pc = FirstOf(dist)
    BY <1>0, <2>2 DEF CloseState
  <2>8. Year(day') - 1 = y /\ Total(b, Year(day) - 1)' = Total(b, y) /\ Untouched(b, Year(day) - 1)'
    BY <1>d, <2>1, <2>5 DEF Total, Available, Untouched
  <2>9. HandNow(b)' => Staged(b, Year(day) - 1)'
    <3>1. /\ dist.encashed \in Nat /\ dist.carried \in Nat /\ dist.lapsed \in Nat
      BY <2>4
    <3>2. /\ FirstOf(dist) # "encash" => dist.encashed = 0
          /\ FirstOf(dist) \in {"encash", "out", "lapse", "next"}
          /\ FirstOf(dist) = "lapse" => dist.carried = 0
      BY <3>1 DEF FirstOf, AfterEncash
    <3>3. dist = Distribution(b, Total(b, y))
      BY <2>6 DEF dist
    <3>. QED BY <2>1, <2>5, <2>7, <2>8, <3>2, <3>3 DEF HandNow, Busy, Staged
  <2>. QED BY <2>1, <2>8, <2>9 DEF Heals
<1>5. ASSUME NEW c \in Buckets, c # b, Encash(c) \/ Record(c) \/ CarryOut(c) \/ CarryIn(c) \/ Lapse(c) PROVE Heals(b)'
  <2>1. PICK pc : GotoClose(pc)
    BY <1>5 DEF Encash, Record, CarryOut, CarryIn, Lapse
  <2>2. close.bucket = c /\ close.pc # "rest"
    BY <1>5 DEF Encash, Record, CarryOut, CarryIn, Lapse
  <2>3. ~HandNow(b) /\ ~HandNow(b)' /\ close'.queue = close.queue /\ close'.found = close.found
    BY <1>5, <2>1, <2>2, GotoDoes DEF HandNow
  <2>4. posted'[b][y] = posted[b][y]
    <3>1. y # close.year + 1
      BY <1>0, <2>2
    <3>. QED BY <1>0, <2>3, <3>1, CloseTouches
  <2>5. b \in close'.queue => close'.found[b] = Available(b, y)
    BY <2>3 DEF Heals
  <2>. QED BY <1>d, <1>k, <2>3, <2>4, <2>5, HealsKept
<1>. QED BY <1>1, <1>2, <1>3, <1>4, <1>5, HealsPosted DEF CloseStep

(* A run that breaks off tears the bucket in hand, or has posted nothing   *)
(* to it.                                                                  *)
LEMMA HealsFailure ==
  ASSUME TypeOK, CloseInv, TodayInv, Failure, NEW b \in Buckets, Last(b), Heals(b)
  PROVE  Heals(b)'
<1> DEFINE y == Year(day) - 1
<1>1. Rests(b) /\ torn \subseteq torn'
  BY FailureDoes DEF Fail, books, requests, Rests
<1>2. CASE close' = close
  <2>1. b \in close'.queue => close'.found[b] = Available(b, y)
    BY <1>2 DEF Heals
  <2>2. HandNow(b) => HandNow(b)'
    BY <1>2 DEF HandNow
  <2>. QED BY <1>1, <1>2, <2>1, <2>2, HealsKept
<1>3. ASSUME close'.pc \notin Busy, close'.queue = {} \/ (close'.queue = close.queue /\ close'.found = close.found),
             torn' = torn \cup CutShort
      PROVE  Heals(b)'
  <2>1. b \in close'.queue => close'.found[b] = Available(b, y)
    BY <1>3 DEF Heals
  <2>2. ~HandNow(b)'
    BY <1>3 DEF HandNow
  <2>3. CASE ~HandNow(b)
    BY <1>1, <2>1, <2>2, <2>3, HealsKept
  <2>4. CASE HandNow(b)
    <3> DEFINE e == posted[b][y]
               d == close.dist
    <3>1. close.year = y /\ close.bucket = b /\ Staged(b, y) /\ close.pc \notin {"rest", "next"}
      BY <2>4 DEF HandNow, Busy, TodayInv, Heals
    <3>2. CASE close.pc # FirstOf(d)
      <4>1. <<b, y>> \in torn'
        BY <1>3, <3>1, <3>2 DEF CutShort
      <4>. QED BY <1>1, <2>1, <2>2, <4>1 DEF Heals, Rests, Available
    <3>3. CASE close.pc = FirstOf(d)
      <4>1. /\ d.encashed \in Nat /\ d.carried \in Nat /\ d.lapsed \in Nat
        BY DEF TypeOK, CloseState
      <4>2. \/ close.pc = "encash"
            \/ close.pc = "out" /\ d.encashed = 0
            \/ close.pc = "lapse" /\ d.encashed = 0 /\ d.carried = 0
        BY <3>1, <3>3, <4>1 DEF FirstOf, AfterEncash
      <4>3. Untouched(b, y)
        BY <3>1, <4>2 DEF Staged, Untouched
      <4>4. Untouched(b, Year(day) - 1)'
        BY <1>1, <4>3 DEF Rests, Untouched
      <4>. QED BY <1>1, <2>1, <2>2, <4>4 DEF Heals, Rests, Available
    <3>. QED BY <3>2, <3>3
  <2>. QED BY <2>3, <2>4
<1>4. CASE DieClose
  BY <1>3, <1>4 DEF DieClose, NoClose, Busy
<1>5. CASE SkipClose
  <2>1. close'.pc = "next" /\ close'.queue = close.queue /\ close'.found = close.found
    BY <1>5, GotoDoes DEF SkipClose
  <2>. QED BY <1>3, <1>5, <2>1 DEF SkipClose, Busy
<1>. QED BY <1>2, <1>4, <1>5 DEF Failure, DieAccrual, SkipAccrual, Miss

(* Whatever happens, a bucket of the year that ended last has all of its   *)
(* entries, or none, or is in hand, or was torn.                           *)
LEMMA HealStep ==
  ASSUME TypeOK, AccrualInv, CloseInv, SpareInv, TodayInv, HealInv, [Next]_vars PROVE HealInv'
<1>1. Fresh'
  BY FreshStep DEF HealInv
<1>2. (close.pc # "rest" => InWindow)'
  <2>1. CASE StartClose
    <3>1. InWindow /\ day' = day
      BY <2>1 DEF StartClose, CloseUnchanged
    <3>. QED BY <3>1 DEF InWindow
  <2>2. ASSUME close.pc # "rest" \/ close' = close, day' = day PROVE (close.pc # "rest" => InWindow)'
    BY <2>2 DEF HealInv, InWindow
  <2>3. CASE Tick
    BY <2>3 DEF Tick
  <2>4. CASE CloseStep /\ ~StartClose
    <3>1. close.pc # "rest" /\ day' = day
      BY <2>4 DEF CloseStep, EndClose, CloseBucket, Encash, Record, CarryOut, CarryIn, Lapse, CloseUnchanged
    <3>. QED BY <2>2, <3>1
  <2>5. CASE AccrualStep
    BY <2>2, <2>5 DEF AccrualStep, StartAccrual, EndAccrual, Survey, Check, PostCredit, AccrualUnchanged
  <2>6. CASE Failure
    <3>1. day' = day /\ (close.pc # "rest" \/ close' = close)
      BY <2>6 DEF Failure, DieAccrual, DieClose, SkipAccrual, SkipClose, Miss, Fail
    <3>. QED BY <2>2, <3>1
  <2>7. CASE LeaveStep
    BY <2>2, <2>7, LeaveEffect
  <2>8. CASE UNCHANGED vars
    BY <2>2, <2>8 DEF vars
  <2>. QED BY <2>1, <2>3, <2>4, <2>5, <2>6, <2>7, <2>8 DEF Next
<1>3. ASSUME NEW b \in Buckets, Last(b)' PROVE Heals(b)'
  <2> DEFINE y == Year(day) - 1
  <2>1. ASSUME day' = day, late \subseteq late' PROVE Last(b) /\ Heals(b)
    BY <1>3, <2>1 DEF Last, HealInv
  <2>2. CASE AccrualStep \/ LeaveStep
    <3>1. Rests(b)
      BY <1>3, <2>2, OthersTouch
    <3>2. close' = close /\ torn' = torn
      BY <2>2, AccrualEffect, LeaveEffect
    <3>3. Heals(b)
      BY <2>1, <3>1 DEF Rests
    <3>4. /\ b \in close'.queue => close'.found[b] = Available(b, y)
          /\ HandNow(b) => HandNow(b)'
      BY <3>2, <3>3 DEF Heals, HandNow
    <3>. QED BY <3>1, <3>2, <3>3, <3>4, HealsKept
  <2>3. CASE CloseStep
    <3>1. day' = day /\ late' = late
      BY <2>3 DEF CloseStep, StartClose, EndClose, CloseBucket, Encash, Record, CarryOut, CarryIn, Lapse, CloseUnchanged
    <3>. QED BY <2>1, <2>3, <3>1, HealsClose
  <2>4. CASE Failure
    <3>1. day' = day /\ late' = late
      BY <2>4, FailureDoes DEF Fail, requests
    <3>. QED BY <2>1, <2>4, <3>1, HealsFailure
  <2>5. CASE UNCHANGED vars
    <3>1. Rests(b) /\ close' = close /\ torn' = torn
      BY <2>5 DEF vars, books, failures, requests, Rests
    <3>2. Heals(b)
      BY <2>1, <3>1 DEF Rests
    <3>3. /\ b \in close'.queue => close'.found[b] = Available(b, y)
          /\ HandNow(b) => HandNow(b)'
      BY <3>1, <3>2 DEF Heals, HandNow
    <3>. QED BY <3>1, <3>2, <3>3, HealsKept
  <2>6. CASE Tick
    <3>1. /\ day' = day + 1 /\ close' = close /\ close.pc = "rest" /\ torn' = torn
          /\ posted' = posted /\ pending' = pending /\ late' = late /\ day \in Nat
      BY <2>6 DEF Tick, books, failures, requests, TypeOK
    <3>2. b \notin close'.queue /\ ~HandNow(b)' /\ ~HandNow(b)
      BY <3>1 DEF SpareInv, HandNow, Busy
    <3>3. CASE Year(day + 1) = Year(day)
      <4>1. Last(b) /\ Heals(b)
        BY <1>3, <3>1, <3>3 DEF Last, HealInv
      <4>2. Year(day') - 1 = y
        BY <3>1, <3>3
      <4>3. <<b, y>> \notin torn => Untouched(b, y) \/ Distributed(b, y)
        BY <3>2, <4>1 DEF Heals
      <4>4. (Untouched(b, y) => Untouched(b, Year(day) - 1)') /\ (Distributed(b, y) => Distributed(b, Year(day) - 1)')
        BY <3>1, <4>2 DEF Untouched, Distributed, Total, Available
      <4>. QED BY <3>1, <3>2, <4>2, <4>3, <4>4 DEF Heals
    <3>4. CASE Year(day + 1) = Year(day) + 1
      <4>1. Year(day) \in Years /\ Year(day) \in Nat /\ Year(day') - 1 = Year(day)
        BY <3>1, <3>4, YearType DEF TypeOK
      <4>2. Untouched(b, Year(day))
        BY <4>1 DEF HealInv, Fresh
      <4>3. Untouched(b, Year(day) - 1)'
        BY <3>1, <4>1, <4>2 DEF Untouched
      <4>. QED BY <3>2, <4>3 DEF Heals
    <3>. QED BY <3>1, <3>3, <3>4, NextDay
  <2>. QED BY <2>2, <2>3, <2>4, <2>5, <2>6 DEF Next
<1>. QED BY <1>1, <1>2, <1>3 DEF HealInv

(* At first nothing is closed.                                             *)
LEMMA HealInit == Init => HealInv
<1> SUFFICES ASSUME Init PROVE HealInv
  OBVIOUS
<1>1. close.pc = "rest" /\ \A b \in Buckets, y \in Years : Untouched(b, y)
  BY DEF Init, NoClose, Empty, Untouched
<1>2. Year(day) = 0
  <2>1. Year(0) = 0
    BY YearDaysType DEF Year
  <2>. QED BY <2>1 DEF Init
<1>. QED BY <1>1, <1>2 DEF HealInv, Fresh, Last

(* So it is always.                                                        *)
LEMMA Healed == Spec => []HealInv
<1>1. CommonInv /\ TodayInv /\ HealInv /\ [Next]_vars => HealInv'
  BY HealStep DEF CommonInv
<1>. QED BY <1>1, HealInit, Common, Owed, PTL DEF Spec

(* The runs of the first days of January make up for one another: with     *)
(* fewer failures than days, what a member had on 1 January, and nobody    *)
(* posted to since, has been distributed to the last entry at the end of   *)
(* the window; unless its own close broke off between two entries, or days *)
(* were carried into that year: closeBucket takes either for a close.      *)
THEOREM ClosedInWindowAlways == Spec => []ClosedInWindow
<1>1. ASSUME CommonInv, OpenInv, HealInv PROVE ClosedInWindow
  <2> DEFINE y == Year(day) - 1
  <2> SUFFICES ASSUME Year(day) > 0, day % YearDays >= GraceDays, crashes < GraceDays, NEW b \in Buckets,
                      <<b, y>> \notin late \cup torn, posted[b][y].carriedIn = 0, Total(b, y) > 0
               PROVE  Distributed(b, y)
    BY DEF ClosedInWindow
  <2>0. TypeOK
    BY <1>1 DEF CommonInv
  <2>1. /\ day % YearDays \in Int /\ crashes \in Int /\ GraceDays \in Int
    BY <2>0, YearDaysType, BoundAssumption DEF TypeOK
  <2>2. ~InWindow
    BY <2>1 DEF InWindow
  <2>3. ~Open(b)
    BY <1>1, <2>1, <2>2 DEF OpenInv
  <2>4. ~HandNow(b)
    BY <1>1, <2>2 DEF HealInv, HandNow, Busy
  <2>5. Untouched(b, y) \/ Distributed(b, y)
    BY <1>1, <2>4 DEF HealInv, Heals, Last
  <2>6. CASE Untouched(b, y)
    <3>1. y \in Years
      BY <2>0, YearType DEF TypeOK
    <3>2. Available(b, y) \in Int
      BY <2>0, <3>1, AvailableType
    <3>3. Total(b, y) = Available(b, y) /\ ~Closed(b, y)
      BY <2>6, <3>2 DEF Untouched, Total, Closed
    <3>4. Distribution(b, Total(b, y)) = Nothing
      BY <2>3, <3>3 DEF Open
    <3>. QED BY <2>6, <3>4 DEF Untouched, Distributed, Nothing
  <2>. QED BY <2>5, <2>6
<1>. QED BY <1>1, Common, Opened, Healed, PTL
=============================================================================

----------------------------- MODULE Subscriptions -----------------------------
(***************************************************************************)
(* The subscription rows of one user and the operations of                 *)
(* SubscriptionsService on them                                            *)
(* (src/src/modules/subscriptions/subscriptions.service.ts): subscribe,    *)
(* free plan, trial, cancel, scheduled plans, and the two daily jobs.      *)
(*                                                                         *)
(* An operation is an async function without a transaction: a handler of   *)
(* Procs runs it one database write a step, reads that nothing separates   *)
(* from each other in one, and may die anywhere.  The schema leaves userId *)
(* untyped, so rows are stored by string ("str") or by ObjectId ("oid")    *)
(* and a query by one form does not see, and the unique indexes do not     *)
(* compare, the other.                                                     *)
(***************************************************************************)
EXTENDS Integers, Sequences, FiniteSets

CONSTANTS Procs,       \* handlers of requests, webhooks and cron jobs
          Worker,      \* the worker of the dunning queue
          Plans, Base, \* plans on sale; the default one, free of charge
          Tier,        \* getTierLevel of a plan
          Bought,      \* documents calls are about: payments, mandates, requests
          None,
          MaxRows, CrashLimit,  \* bounds
          Traffics     \* what behaviours are about: operations, plans, documents

ASSUME SubscriptionAssumption ==
  /\ Base \in Plans /\ Tier \in [Plans -> Nat]
  /\ None \notin Bought
  /\ MaxRows \in Nat /\ CrashLimit \in Nat
  /\ Worker \notin Procs

VARIABLES rows,     \* Subscription documents in the order of createdAt
          handler,  \* local state of the handlers
          crashes,
          traffic   \* the operations, plans and documents of this behaviour

subVars == <<rows, handler, crashes, traffic>>

Live == {"active", "trial"}
Closed == {"cancelled", "expired", "superseded"}
Statuses == Live \cup Closed \cup {"pending", "scheduled", "grace_period", "paused"}

(* due: the period, or the start of a scheduled row, is over.  trial: the  *)
(* marker trialEndsAt or trialEndedAt.  after: the row whose end is its    *)
(* start.  until, grace: the cycle paid by a mandate, gracePeriodUntil.    *)
Row == [form : {"str", "oid"}, plan : Plans, status : Statuses, paidBy : Bought \cup {None},
        due : BOOLEAN, trial : {"no", "on", "ended"}, after : Nat, until : Nat, grace : Nat]

NewRow(form, plan, status, by) ==
  [form |-> form, plan |-> plan, status |-> status, paidBy |-> by, due |-> FALSE,
   trial |-> "no", after |-> 0, until |-> 0, grace |-> 0]

Rows(form, S) == {i \in DOMAIN rows : rows[i].form = form /\ rows[i].status \in S}

(* findOne with sort createdAt: -1; 0 when there is none.                  *)
Newest(S) ==
  LET latest(i) == \A j \in S : j <= i
  IN IF \E i \in S : latest(i) THEN CHOOSE i \in S : latest(i) ELSE 0

(* The unique partial indexes on (userId, product).                        *)
AtMostOne(rs, form, S) ==
  \A i, j \in DOMAIN rs : rs[i].form = form /\ rs[j].form = form
                          /\ rs[i].status \in S /\ rs[j].status \in S => i = j
Indexed(rs) == \A form \in {"str", "oid"} : AtMostOne(rs, form, Live) /\ AtMostOne(rs, form, {"scheduled"})

SetStatus(S, status) == [i \in DOMAIN rows |-> IF i \in S THEN [rows[i] EXCEPT !.status = status] ELSE rows[i]]

-----------------------------------------------------------------------------
(* Control of the handlers.                                                *)

(* by: what the call is about; row: the row read; want: the status to be   *)
(* inserted; todo: what a job has listed; n: a number read or to write;    *)
(* was: a status read.                                                     *)
Rest == [flow |-> "none", pc |-> "idle", by |-> None, row |-> 0, plan |-> Base, want |-> "active",
         todo |-> {}, n |-> 0, was |-> "none"]

On(p, pc) == handler[p].pc = pc
Busy(p) == handler[p].pc # "idle"
Quiet == \A p \in DOMAIN handler : ~Busy(p)

Begin(p, flow, h) ==
  /\ ~Busy(p)
  /\ flow \in traffic
  /\ handler' = [handler EXCEPT ![p] = [h EXCEPT !.flow = flow]]

Goto(p, pc) == handler' = [handler EXCEPT ![p].pc = pc]

(* It answers or throws; a job goes on with its next row.                  *)
Return(p) == handler' = [handler EXCEPT ![p] = Rest]
NextRow(p) == IF handler[p].flow = "promote" THEN Goto(p, "promoting") ELSE Return(p)

(* A write that the indexes refuse is an exception.                        *)
Write(p, rs, pc) == IF Indexed(rs) THEN rows' = rs /\ Goto(p, pc) ELSE NextRow(p) /\ UNCHANGED rows

Insert(p, row) == Len(rows) < MaxRows /\ Write(p, Append(rows, row), "inserted")

SubInit ==
  /\ traffic \in Traffics
  /\ rows \in {<<>>} \cup {<<NewRow(form, plan, "active", None)>> :
                            form \in {"str", "oid"}, plan \in Plans \cap traffic}
  /\ handler = [p \in Procs \cup {Worker} |-> Rest]
  /\ crashes = 0

-----------------------------------------------------------------------------
(* supersedeCurrent, of every operation that replaces the row of the user. *)

(* updateMany of the rows that are not live, in both forms.                *)
SupersedeOld(p) ==
  /\ On(p, "supersedeOld")
  /\ rows' = SetStatus({i \in DOMAIN rows : rows[i].status \in {"scheduled", "cancelled", "expired"}}, "superseded")
  /\ Goto(p, "supersedeLive")
  /\ UNCHANGED <<crashes, traffic>>

Resume == [subscribe |-> "insert", trial |-> "insertTrial", promote |-> "activate", force |-> "forceSave"]
Superseding(p) == IF handler[p].flow \in DOMAIN Resume THEN Resume[handler[p].flow] ELSE "insert"

(* findOneAndUpdate of one live row, of either form.                       *)
SupersedeLive(p) ==
  /\ On(p, "supersedeLive")
  /\ LET live == Rows("str", Live) \cup Rows("oid", Live) IN
     \E S \in IF live = {} THEN {{}} ELSE {{i} : i \in live} : rows' = SetStatus(S, "superseded")
  /\ Goto(p, Superseding(p))
  /\ UNCHANGED <<crashes, traffic>>

-----------------------------------------------------------------------------
(* subscribe.                                                              *)

Refuses(current, plan) ==
  /\ current # 0
  /\ \/ rows[current].status = "scheduled"
     \/ rows[current].status \in Live
        /\ (Tier[plan] < Tier[rows[current].plan] \/ rows[current].plan = plan)

Current == Newest(Rows("str", Live \cup {"cancelled", "scheduled"}))

(* Mutant: the old row is gone before the plan is compared.                *)
ReadCurrent_SupersedesFirst(p) ==
  /\ On(p, "subscribe")
  /\ rows' = SetStatus({i \in DOMAIN rows : rows[i].status \in Live}, "superseded")
  /\ IF Refuses(Current, handler[p].plan)
       THEN Return(p)
       ELSE handler' = [handler EXCEPT ![p].pc = "insert", ![p].row = Current, ![p].want = "active"]
  /\ UNCHANGED <<crashes, traffic>>

(* The read of the current row and what it decides.  A plan that is to     *)
(* start later starts now if there is a live row.                          *)
ReadCurrent(p) ==
  /\ On(p, "subscribe")
  /\ LET later == handler[p].want = "scheduled"
         cancelled == Current # 0 /\ rows[Current].status = "cancelled"
     IN IF Refuses(Current, handler[p].plan) \/ (later /\ cancelled /\ Rows("str", {"scheduled"}) # {})
          THEN Return(p)
          ELSE handler' = [handler EXCEPT
                 ![p].pc = IF Current = 0 THEN "insert" ELSE "supersedeOld",
                 ![p].row = Current,
                 ![p].want = IF later /\ (Current = 0 \/ cancelled) THEN "scheduled" ELSE "active"]
  /\ UNCHANGED <<rows, crashes, traffic>>

(* subscription.save(); the add-ons move with it.                          *)
InsertSubscription(p) ==
  /\ On(p, "insert")
  /\ LET h == handler[p] IN
     Insert(p, [NewRow("str", h.plan, h.want, h.by) EXCEPT
                  !.after = IF h.want = "scheduled" THEN h.row ELSE 0,
                  !.due = h.want = "scheduled" /\ (h.row = 0 \/ rows[h.row].due)])
  /\ UNCHANGED <<crashes, traffic>>

(* POST subscribe, which no payment calls.                                 *)
Subscribe(p, plan, want) ==
  /\ Begin(p, "subscribe", [Rest EXCEPT !.pc = "subscribe", !.plan = plan, !.want = want])
  /\ UNCHANGED <<rows, crashes, traffic>>

(* An operation whose row is inserted, and that nobody called, answers.    *)
Inserted(p) ==
  /\ On(p, "inserted") /\ handler[p].by = None
  /\ Return(p)
  /\ UNCHANGED <<rows, crashes, traffic>>

-----------------------------------------------------------------------------
(* The default plan and the trial.                                         *)

(* getMySubscription finds no row to go by and assigns the default plan.   *)
Heal(p) ==
  /\ {i \in Rows("oid", Live \cup {"cancelled"}) : ~rows[i].due} = {}
  /\ Rows("oid", Live) = {}
  /\ Begin(p, "heal", [Rest EXCEPT !.pc = "insertFree"])
  /\ UNCHANGED <<rows, crashes, traffic>>

InsertFree(p) ==
  /\ On(p, "insertFree")
  /\ Insert(p, NewRow("oid", Base, "active", None))
  /\ UNCHANGED <<crashes, traffic>>

(* isOnPaidPlan and findEverTrialedSub.                                    *)
OnPaidPlan == \E i \in Rows("oid", {"active"}) : rows[i].plan # Base
EverTrialed == \E i \in DOMAIN rows : rows[i].form = "oid" /\ (rows[i].trial # "no" \/ rows[i].status = "trial")

StartTrial(p) ==
  /\ ~OnPaidPlan /\ ~EverTrialed
  /\ Begin(p, "trial", [Rest EXCEPT !.pc = "supersedeOld"])
  /\ UNCHANGED <<rows, crashes, traffic>>

InsertTrial(p) ==
  /\ On(p, "insertTrial")
  /\ Insert(p, [NewRow("oid", Base, "trial", None) EXCEPT !.trial = "on"])
  /\ UNCHANGED <<crashes, traffic>>

-----------------------------------------------------------------------------
(* Cancellation, and plans that start later.                               *)

(* cancel and cancelScheduled read the row and save the status.            *)
Cancel(p) ==
  /\ \E i \in Rows("str", Live) : Begin(p, "cancel", [Rest EXCEPT !.pc = "saveCancelled", !.row = i])
  /\ UNCHANGED <<rows, crashes, traffic>>

CancelScheduled(p) ==
  /\ \E i \in DOMAIN rows : /\ rows[i].status = "scheduled"
                            /\ Begin(p, "cancelScheduled", [Rest EXCEPT !.pc = "saveCancelled", !.row = i])
  /\ UNCHANGED <<rows, crashes, traffic>>

SaveCancelled(p) ==
  /\ On(p, "saveCancelled")
  /\ rows' = SetStatus({handler[p].row}, "cancelled")
  /\ Return(p)
  /\ UNCHANGED <<crashes, traffic>>

(* forceActivate; supersedeCurrent takes the scheduled row along.          *)
ForceActivate(p) ==
  /\ \E i \in DOMAIN rows : /\ rows[i].status = "scheduled"
                            /\ Begin(p, "force", [Rest EXCEPT !.pc = "supersedeOld", !.row = i])
  /\ UNCHANGED <<rows, crashes, traffic>>

(* The row starts now, whatever its status has become.                     *)
Started(i) == [rows EXCEPT ![i].status = "active", ![i].due = FALSE, ![i].after = 0]

ForceSave(p) ==
  /\ On(p, "forceSave")
  /\ Write(p, Started(handler[p].row), "inserted")
  /\ UNCHANGED <<crashes, traffic>>

(* processScheduledSubscriptions lists the rows whose start has come, one  *)
(* run at a time ...                                                       *)
Promote(p) ==
  /\ \A q \in Procs : handler[q].flow # "promote"
  /\ LET todo == {i \in DOMAIN rows : rows[i].status = "scheduled" /\ rows[i].due} IN
     todo # {} /\ Begin(p, "promote", [Rest EXCEPT !.pc = "promoting", !.todo = todo])
  /\ UNCHANGED <<rows, crashes, traffic>>

PromoteNext(p) ==
  /\ On(p, "promoting")
  /\ IF handler[p].todo = {}
       THEN Return(p)
       ELSE \E i \in handler[p].todo :
              handler' = [handler EXCEPT ![p].pc = "supersedeOld", ![p].row = i,
                                         ![p].todo = @ \ {i}]
  /\ UNCHANGED <<rows, crashes, traffic>>

(* ... and activates each by its id.                                       *)
Activate(p) ==
  /\ On(p, "activate")
  /\ Write(p, Started(handler[p].row), "promoting")
  /\ UNCHANGED <<crashes, traffic>>

-----------------------------------------------------------------------------
(* expireStaleSubscriptions.                                               *)

Expire(p) ==
  /\ \A q \in Procs : handler[q].flow # "expire"
  /\ \E i \in Rows("str", Live) \cup Rows("oid", Live) : rows[i].due
  /\ Begin(p, "expire", [Rest EXCEPT !.pc = "downgrading",
                         !.todo = {i \in DOMAIN rows : rows[i].status = "trial" /\ rows[i].due}])
  /\ UNCHANGED <<rows, crashes, traffic>>

(* downgradeToBasePlan of the next lapsed trial, by its id; an exception   *)
(* ends the run.                                                           *)
Downgraded(i) == [rows EXCEPT ![i].status = "active", ![i].trial = "ended", ![i].due = FALSE]

DowngradeTrial(p) ==
  /\ On(p, "downgrading")
  /\ \E i \in handler[p].todo :
       IF Indexed(Downgraded(i))
         THEN rows' = Downgraded(i) /\ handler' = [handler EXCEPT ![p].todo = @ \ {i}]
         ELSE Return(p) /\ UNCHANGED rows
  /\ UNCHANGED <<crashes, traffic>>

ExpireLapsed(p) ==
  /\ On(p, "downgrading") /\ handler[p].todo = {}
  /\ rows' = SetStatus({i \in DOMAIN rows : /\ rows[i].status = "active" /\ rows[i].due
                                            /\ rows[i].trial # "on"}, "expired")
  /\ Return(p)
  /\ UNCHANGED <<crashes, traffic>>

-----------------------------------------------------------------------------
(* Time, and deaths.                                                       *)

(* The period of a row ends, and with it starts the row scheduled after it.*)
PeriodEnds(i) ==
  /\ "periods" \in traffic
  /\ ~rows[i].due
  /\ \/ rows[i].status \in Live \cup {"cancelled"}
     \/ \E j \in DOMAIN rows : rows[j].after = i /\ rows[j].status = "scheduled"
  /\ rows[i].plan # Base \/ rows[i].trial = "on"
  /\ rows' = [j \in DOMAIN rows |-> IF j = i \/ rows[j].after = i THEN [rows[j] EXCEPT !.due = TRUE] ELSE rows[j]]
  /\ UNCHANGED <<handler, crashes, traffic>>

Crash(p) ==
  /\ Busy(p) /\ crashes < CrashLimit
  /\ crashes' = crashes + 1
  /\ Return(p)
  /\ UNCHANGED <<rows, traffic>>

Step(p) ==
  \/ SupersedeOld(p) \/ SupersedeLive(p) \/ ReadCurrent(p) \/ InsertSubscription(p) \/ Inserted(p)
  \/ InsertFree(p) \/ InsertTrial(p) \/ SaveCancelled(p) \/ ForceSave(p) \/ PromoteNext(p) \/ Activate(p)
  \/ DowngradeTrial(p) \/ ExpireLapsed(p)

Call(p) ==
  \/ \E plan \in Plans \cap traffic, want \in {"active", "scheduled"} : Subscribe(p, plan, want)
  \/ Heal(p) \/ StartTrial(p) \/ Cancel(p) \/ CancelScheduled(p) \/ ForceActivate(p)
  \/ Promote(p) \/ Expire(p)

SubscriptionNext ==
  \/ \E p \in Procs : Step(p) \/ Call(p)
  \/ \E p \in Procs \cup {Worker} : Crash(p)
  \/ \E i \in DOMAIN rows : PeriodEnds(i)
=============================================================================

-------------------------------- MODULE Mandates --------------------------------
(***************************************************************************)
(* Subscriptions that renew themselves through a mandate at the gateway    *)
(* (subscription-mandate.service.ts), the gateway's events about them      *)
(* (razorpay-webhook.service.ts), and the grace period after failed        *)
(* charges (dunning.service.ts).                                           *)
(***************************************************************************)
EXTENDS Checkout

CONSTANTS Mandate,   \* subscriptions at the gateway
          MandatePlan,
          Grace,     \* days of grace
          LastCycle, LastHalt  \* bounds

ASSUME MandateAssumption ==
  /\ Mandate \subseteq Bought /\ Mandate \cap Payments = {}
  /\ MandatePlan \in [Mandate -> Plans]
  /\ Grace \in Nat \ {0}
  /\ {LastCycle, LastHalt} \subseteq Nat

VARIABLES mandate,  \* the subscriptions at the gateway
          booked,   \* SubscriptionPayment documents of charges
          jobs,     \* the dunning queue
          day

mandateVars == <<mandate, booked, jobs, day>>

Gateway == [status : {"none", "created", "active", "halted", "paused", "ended"}, cycle : Nat, halts : Nat]

MandateInit ==
  /\ CheckoutInit
  /\ mandate = [m \in Mandate |-> [status |-> "none", cycle |-> 0, halts |-> 0]]
  /\ booked = {} /\ jobs = {}
  /\ day = 1

RowOf(m) == Newest({i \in DOMAIN rows : rows[i].paidBy = m})
StatusOf(m) == IF RowOf(m) = 0 THEN "none" ELSE rows[RowOf(m)].status

-----------------------------------------------------------------------------
(* createMandate: the subscription at the gateway, then the pending row.   *)
CreateMandate(p, m) ==
  /\ m \in traffic /\ mandate[m].status = "none" /\ \A q \in Procs : handler[q].by # m
  /\ ~Refuses(Current, MandatePlan[m])
  /\ Begin(p, "mandate", [Rest EXCEPT !.pc = "insertPending", !.by = m])
  /\ mandate' = [mandate EXCEPT ![m].status = "created"]
  /\ UNCHANGED <<rows, crashes, traffic, payVars, booked, jobs, day>>

InsertPending(p) ==
  /\ On(p, "insertPending")
  /\ Len(rows) < MaxRows
  /\ rows' = Append(rows, NewRow("oid", MandatePlan[handler[p].by], "pending", handler[p].by))
  /\ Return(p)
  /\ UNCHANGED <<crashes, traffic, payVars, mandateVars>>

(* cancelMandate, pauseMandate, resumeMandate only ask the gateway.        *)
Ask(m, states, from, to, type) ==
  /\ type \in traffic
  /\ StatusOf(m) \in states /\ mandate[m].status \in from
  /\ mandate' = [mandate EXCEPT ![m].status = to]
  /\ Send(Event(type, m, 0))
  /\ UNCHANGED <<subVars, payment, money, seen, booked, jobs, day>>

CancelMandate(m) == Ask(m, {"active", "grace_period"}, {"active", "halted"}, "ended", "cancelled")
PauseMandate(m) == Ask(m, {"active", "grace_period"}, {"active"}, "paused", "paused")
ResumeMandate(m) == Ask(m, {"paused"}, {"paused"}, "active", "resumed")

-----------------------------------------------------------------------------
(* Events about a mandate.                                                 *)

(* An exception, here of a unique index, is the end of the event.          *)
Set(p, rs, pc) == IF Indexed(rs) THEN rows' = rs /\ Goto(p, pc) ELSE Return(p) /\ UNCHANGED rows

(* handleSubscriptionActivated reads the row ...                           *)
Activated(p, m) ==
  /\ \E n \in 0..LastCycle :
       LET e == Event("activated", m, n) IN
       IF StatusOf(m) \notin Closed \cup {"none", "active"}
         THEN Ingest(p, e, [Rest EXCEPT !.pc = "activating", !.by = m, !.row = RowOf(m), !.n = n]) /\ UNCHANGED <<crashes, traffic>>
         ELSE Dispatched(e)
  /\ UNCHANGED <<rows, payment, money, sent, mandateVars>>

(* Cycle n, if the event names one, may be over by now.                    *)
Renewed(i, n) == [rows EXCEPT ![i].status = "active", ![i].grace = 0,
                              ![i].until = IF n = 0 THEN @ ELSE n,
                              ![i].due = IF n = 0 THEN @ ELSE n < mandate[rows[i].paidBy].cycle]

(* ... and takes it live, if it is not by now.                             *)
ActivateMandate(p) ==
  /\ On(p, "activating")
  /\ LET i == handler[p].row IN
     IF rows[i].status \notin Closed \cup {"active"}
       THEN Set(p, Renewed(i, handler[p].n), "replacing")
       ELSE Return(p) /\ UNCHANGED rows
  /\ UNCHANGED <<crashes, traffic, payVars, mandateVars>>

(* updateMany of the other rows, stored in the same form.                  *)
SupersedeOthers(p) ==
  /\ On(p, "replacing")
  /\ rows' = SetStatus(Rows("oid", Live \cup {"grace_period"}) \ {handler[p].row}, "superseded")
  /\ Return(p)
  /\ UNCHANGED <<crashes, traffic, payVars, mandateVars>>

(* handleSubscriptionCharged reads the row ...                             *)
Charged(p, m) ==
  /\ \E n \in 1..LastCycle :
       LET e == Event("charged", m, n) IN
       IF StatusOf(m) \notin Closed \cup {"none"}
         THEN /\ Ingest(p, e, [Rest EXCEPT !.pc = "booking", !.by = m, !.row = RowOf(m), !.n = n, !.was = StatusOf(m)])
              /\ UNCHANGED <<crashes, traffic>>
         ELSE Dispatched(e)
  /\ UNCHANGED <<rows, payment, money, sent, mandateVars>>

(* ... books the charge, whose gatewayPaymentId is unique ...              *)
BookCharge(p) ==
  /\ On(p, "booking")
  /\ LET c == <<handler[p].by, handler[p].n>> IN
     IF c \in booked THEN Return(p) /\ UNCHANGED booked
                     ELSE Goto(p, "renewing") /\ booked' = booked \cup {c}
  /\ UNCHANGED <<rows, crashes, traffic, payVars, mandate, jobs, day>>

(* Mutant: the write does not look at the status again.                    *)
Renewable_Always(i) == rows[i].status \in Statuses

Renewable(i) == rows[i].status \notin Closed

(* Mutant: a month from now, by our own clock.                             *)
PeriodPaid_Own(p) == rows[handler[p].row].until + 1

(* current_end of the event.                                               *)
PeriodPaid(p) == handler[p].n

(* ... and extends the period; a first charge replaces the other rows.     *)
Renew(p) ==
  /\ On(p, "renewing")
  /\ LET i == handler[p].row
         next == IF handler[p].was = "pending" THEN "replacing" ELSE "answering"
     IN IF Renewable(i) THEN Set(p, Renewed(i, PeriodPaid(p)), next)
                        ELSE Goto(p, next) /\ UNCHANGED rows
  /\ UNCHANGED <<crashes, traffic, payVars, mandateVars>>

Answer(p) ==
  /\ On(p, "answering")
  /\ Return(p)
  /\ UNCHANGED <<rows, crashes, traffic, payVars, mandateVars>>

(* handleSubscriptionCancelled, Paused, Resumed and Expired are one update *)
(* of the row in one of the states; the indexes may refuse it.             *)
Mark(m, type, states, status) ==
  /\ Dispatched(Event(type, m, 0))
  /\ LET rs == SetStatus({RowOf(m)} \ {0}, status) IN
     rows' = IF StatusOf(m) \in states /\ Indexed(rs) THEN rs ELSE rows
  /\ UNCHANGED <<payment, money, sent, mandateVars>>

Marked(m) ==
  \/ Mark(m, "cancelled", Statuses \ {"cancelled"}, "cancelled")
  \/ Mark(m, "paused", Statuses \ (Closed \cup {"paused"}), "paused")
  \/ Mark(m, "resumed", {"paused"}, "active")
  \/ Mark(m, "completed", Statuses \ Closed, "expired")

-----------------------------------------------------------------------------
(* Dunning.                                                                *)

(* handleSubscriptionHalted reads the row ...                              *)
Halted(p, m) ==
  /\ \E n \in 1..LastHalt :
       LET e == Event("halted", m, n) IN
       IF StatusOf(m) \notin Closed \cup {"none"}
         THEN Ingest(p, e, [Rest EXCEPT !.pc = "enterGrace", !.by = m, !.row = RowOf(m)]) /\ UNCHANGED <<crashes, traffic>>
         ELSE Dispatched(e)
  /\ UNCHANGED <<rows, payment, money, sent, mandateVars>>

(* ... and enterGrace gives it some days, counted from now ...             *)
EnterGrace(p) ==
  /\ On(p, "enterGrace")
  /\ LET i == handler[p].row IN
     IF rows[i].status \notin Closed
       THEN /\ rows' = [rows EXCEPT ![i].status = "grace_period", ![i].grace = day + Grace]
            /\ handler' = [handler EXCEPT ![p].pc = "schedule", ![p].n = day + Grace]
       ELSE Return(p) /\ UNCHANGED rows
  /\ UNCHANGED <<crashes, traffic, payVars, mandateVars>>

(* ... and queues their end, stamped with it.                              *)
ScheduleExpiry(p) ==
  /\ On(p, "schedule")
  /\ jobs' = jobs \cup {[row |-> handler[p].row, stamp |-> handler[p].n]}
  /\ Return(p)
  /\ UNCHANGED <<rows, crashes, traffic, payVars, mandate, booked, day>>

(* fetchIfStampValid.                                                      *)
Valid(job) == rows[job.row].status = "grace_period" /\ rows[job.row].grace = job.stamp

(* Mutant: the update is not conditional on the end of the grace.          *)
Over_Ignored(i) == rows[i].status = "grace_period"

Over(i) == rows[i].status = "grace_period" /\ rows[i].grace <= day

(* Mutant: the job is off the queue when its handler starts.               *)
Dispatch_Removed(job) ==
  /\ ~Busy(Worker) /\ job.stamp <= day
  /\ IF Valid(job)
       THEN handler' = [handler EXCEPT ![Worker] = [Rest EXCEPT !.flow = "expiry", !.pc = "expiring",
                                                     !.row = job.row, !.n = job.stamp]]
       ELSE UNCHANGED handler
  /\ jobs' = jobs \ {job}
  /\ UNCHANGED <<rows, crashes, traffic, payVars, mandate, booked, day>>

(* dispatchExpiry of a job whose delay is over: a read ...                 *)
Dispatch(job) ==
  /\ ~Busy(Worker) /\ job.stamp <= day
  /\ IF Valid(job)
       THEN handler' = [handler EXCEPT ![Worker] = [Rest EXCEPT !.flow = "expiry", !.pc = "expiring",
                                                     !.row = job.row, !.n = job.stamp]]
            /\ UNCHANGED jobs
       ELSE jobs' = jobs \ {job} /\ UNCHANGED handler
  /\ UNCHANGED <<rows, crashes, traffic, payVars, mandate, booked, day>>

(* ... and an update.                                                      *)
ExpireGrace ==
  /\ On(Worker, "expiring")
  /\ rows' = IF Over(handler[Worker].row) THEN SetStatus({handler[Worker].row}, "expired") ELSE rows
  /\ jobs' = jobs \ {[row |-> handler[Worker].row, stamp |-> handler[Worker].n]}
  /\ Return(Worker)
  /\ UNCHANGED <<crashes, traffic, payVars, mandate, booked, day>>

Tomorrow ==
  /\ \E job \in jobs : day < job.stamp
  /\ day' = day + 1
  /\ UNCHANGED <<subVars, payVars, mandate, booked, jobs>>

-----------------------------------------------------------------------------
(* The gateway.                                                            *)

Gives(m, to, events) ==
  /\ "mandate" \in traffic
  /\ mandate' = [mandate EXCEPT ![m] = to]
  /\ sent' = sent \cup events
  /\ UNCHANGED <<subVars, payment, money, seen, booked, jobs, day>>

(* The customer authorises the mandate, from the answer or from the mail   *)
(* the gateway sends; the first cycle may be charged with it.              *)
Authorise(m) ==
  /\ mandate[m].status = "created"
  /\ \E n \in {0, 1} : Gives(m, [mandate[m] EXCEPT !.status = "active", !.cycle = n],
                             {Event("activated", m, n)} \cup {Event("charged", m, k) : k \in 1..n})

(* A cycle is charged; also a halted mandate, once the card is changed.    *)
Charge(m) ==
  /\ mandate[m].status \in {"active", "halted"} /\ mandate[m].cycle < LastCycle
  /\ LET n == mandate[m].cycle + 1 IN
     Gives(m, [mandate[m] EXCEPT !.status = "active", !.cycle = n], {Event("charged", m, n)})

GiveUp(m) ==
  /\ "halted" \in traffic
  /\ mandate[m].status = "active" /\ mandate[m].halts < LastHalt
  /\ LET n == mandate[m].halts + 1 IN
     Gives(m, [mandate[m] EXCEPT !.status = "halted", !.halts = n], {Event("halted", m, n)})

Complete(m) ==
  /\ "completed" \in traffic
  /\ mandate[m].status = "active" /\ mandate[m].cycle = LastCycle
  /\ Gives(m, [mandate[m] EXCEPT !.status = "ended"], {Event("completed", m, 0)})

MandateStep(p) ==
  \/ InsertPending(p) \/ ActivateMandate(p) \/ SupersedeOthers(p) \/ BookCharge(p) \/ Renew(p) \/ Answer(p)
  \/ EnterGrace(p) \/ ScheduleExpiry(p)

MandateCall(p) ==
  \E m \in Mandate : CreateMandate(p, m) \/ Activated(p, m) \/ Charged(p, m) \/ Halted(p, m)

MandateNext ==
  \/ \E p \in Procs : MandateStep(p) \/ MandateCall(p)
  \/ \E m \in Mandate : \/ CancelMandate(m) \/ PauseMandate(m) \/ ResumeMandate(m) \/ Marked(m)
                        \/ Authorise(m) \/ Charge(m) \/ GiveUp(m) \/ Complete(m)
  \/ \E job \in jobs : Dispatch(job)
  \/ ExpireGrace \/ Tomorrow
  \/ CheckoutNext /\ UNCHANGED mandateVars
=============================================================================

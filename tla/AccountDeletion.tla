---------------------------- MODULE AccountDeletion ----------------------------
(***************************************************************************)
(* Deletion of accounts (src/src/modules/account-deletion, the erasure in  *)
(* auth/services/account-erasure.service.ts) and of the workspaces they    *)
(* own (workspaces.service.ts): scheduling, the daily sweep that erases    *)
(* what is due, erasure by an admin, recovery by an admin.                 *)
(*                                                                         *)
(* A handler is an async function over MongoDB: each database call is one  *)
(* step.  The guard that keeps the last admin runs under a Redis mutex     *)
(* (SingleFlight) when an account is erased, without it when a deletion is *)
(* scheduled.                                                              *)
(***************************************************************************)
EXTENDS Integers, FiniteSets

CONSTANTS Users,
          Admins,      \* users that are platform admins at first
          Workspaces,  \* workspaces that may be created
          OwnerOf,     \* their owners
          Scopes,      \* the deletions in use: "account", "connect", "erp"
          Procs,       \* handlers that may be in flight at a time
          Flows,       \* the operations the environment calls
          Limit,       \* maxWorkspaces of the plan
          Grace,       \* days of the recovery window
          LastDay,     \* bound on the days that pass
          Midnight,    \* TRUE: a day may pass while handlers are under way
          Overrun,     \* TRUE: the mutex may expire under its holder
          MaxFaults,   \* bound on handlers that die and database calls that fail
          None         \* the free mutex, an unset reference

Days == 0 .. LastDay
AllFlows == {"schedule", "erase", "finalize", "restore", "create", "remove",
             "softDelete", "status", "restoreWs"}

ASSUME UserAssumption == Admins \subseteq Users /\ OwnerOf \in [Workspaces -> Users]
ASSUME ScopeAssumption == Scopes \subseteq {"account", "connect", "erp"}
ASSUME FlowAssumption == Flows \subseteq AllFlows
ASSUME NumberAssumption == {Limit, Grace, LastDay, MaxFaults} \subseteq Nat
ASSUME FlagAssumption == {Midnight, Overrun} \subseteq BOOLEAN
ASSUME NoneAssumption == None \notin Users \cup Workspaces \cup Procs \cup {"stale"}
ASSUME StaleAssumption == "stale" \notin Procs

VARIABLES
  user,    \* User documents
  mark,    \* their deletion markers, one per scope
  ws,      \* Workspace documents
  mutex,   \* the token under ADMIN_ROSTER_LOCK: of a handler, or of one that is over
  proc,    \* local state of the handlers
  now,     \* today
  overnight,  \* users whose deletion was being scheduled or recovered when a day began
  faults

vars == <<user, mark, ws, mutex, proc, now, overnight, faults>>

UserDoc == [admin : BOOLEAN, active : BOOLEAN, deleted : BOOLEAN, scrubbed : BOOLEAN]
Marker == [state : {"none", "pending", "purged"}, day : Days]   \* day: requestedAt
WorkspaceDoc == [state : {"none", "live", "deleted"}, day : Days]

Steps == {"idle", "guardLoad", "guardCount", "suspend", "box", "owned", "lock", "scrub",
          "unlock", "bail", "next", "load", "flip", "restoreSave", "restoreFind",
          "restoreNext", "restoreCount", "restoreWrite", "insert"}

Local == [flow : AllFlows \cup {"none"},
          pc : Steps,
          user : Users \cup {None},
          locked : BOOLEAN,                \* inside withLock
          scopes : SUBSET Scopes,          \* scopes found pending, or scheduled
          since : Days,                    \* requestedAt of the erp marker; day of a sweep
          todo : SUBSET Users,             \* accounts the sweep found due
          list : SUBSET Workspaces,        \* workspaces still to restore
          w : Workspaces \cup {None}]

Idle == [flow |-> "none", pc |-> "idle", user |-> None, locked |-> FALSE, scopes |-> {}, since |-> 0,
         todo |-> {}, list |-> {}, w |-> None]

TypeOK ==
  /\ user \in [Users -> UserDoc]
  /\ mark \in [Users -> [Scopes -> Marker]]
  /\ ws \in [Workspaces -> WorkspaceDoc]
  /\ mutex \in Procs \cup {None, "stale"}
  /\ proc \in [Procs -> Local]
  /\ now \in Days
  /\ overnight \subseteq Users
  /\ faults \in Nat

Init ==
  /\ user = [u \in Users |-> [admin |-> u \in Admins, active |-> TRUE,
                              deleted |-> FALSE, scrubbed |-> FALSE]]
  /\ mark = [u \in Users |-> [s \in Scopes |-> [state |-> "none", day |-> 0]]]
  /\ ws = [w \in Workspaces |-> [state |-> "none", day |-> 0]]
  /\ mutex = None
  /\ proc = [p \in Procs |-> Idle]
  /\ now = 0
  /\ overnight = {}
  /\ faults = 0

-----------------------------------------------------------------------------
At(p, pc) == proc[p].pc = pc
Put(p, h) == proc' = [proc EXCEPT ![p] = h]
Goto(p, pc) == Put(p, [proc[p] EXCEPT !.pc = pc])
Return(p) == Put(p, Idle)
(* A new call: the local state h, unless the environment never calls this. *)
Begin(p, h) == h.flow \in Flows /\ proc[p] = Idle /\ Put(p, h)

Pending(u, s) == mark[u][s].state = "pending"
(* purgeAfter has come.                                                    *)
Elapsed(u, s) == mark[u][s].day + Grace <= now

Owned(u) == {w \in Workspaces : OwnerOf[w] = u}
Live(u) == {w \in Owned(u) : ws[w].state = "live"}

(* Accounts that can still decide about admins.                            *)
ActiveAdmins == {u \in Users : user[u].admin /\ user[u].active /\ ~user[u].deleted}

(* Users that pass IsAdminGuard.                                           *)
Callers == {u \in Users : user[u].admin /\ user[u].active}

(* Mutant: a failed erasure is taken for a done one.                       *)
Abandon_Flips(p) ==
  IF proc[p].flow = "finalize"
    THEN Put(p, [proc[p] EXCEPT !.pc = "flip", !.locked = FALSE])
    ELSE Return(p)

(* The erasure of one account failed: logged, and the sweep goes on to     *)
(* the next account, any other handler returns.                            *)
Abandon(p) ==
  IF proc[p].flow = "finalize"
    THEN Put(p, [proc[p] EXCEPT !.pc = "next", !.locked = FALSE])
    ELSE Return(p)
(* A throw: withLock releases the mutex in its finally.                    *)
Leave(p) == IF proc[p].locked THEN Goto(p, "bail") ELSE Abandon(p)
(* The account was erased: finalizeOne advances the marker.                *)
Erased(p) ==
  IF proc[p].flow = "finalize"
    THEN Put(p, [proc[p] EXCEPT !.pc = "flip", !.locked = FALSE])
    ELSE Return(p)
AfterGuard(p) == IF proc[p].flow = "schedule" THEN "suspend" ELSE "owned"

-----------------------------------------------------------------------------
(* Scheduling.                                                             *)

(* scheduleAccountDeletion: an account that is pending is left alone.      *)
Schedule(p, u) ==
  /\ "account" \in Scopes
  /\ user[u].active
  /\ ~Pending(u, "account")
  /\ Begin(p, [Idle EXCEPT !.flow = "schedule", !.pc = "guardLoad", !.user = u])
  /\ UNCHANGED <<user, mark, ws, mutex, now, overnight, faults>>

(* assertNotLastActiveAdmin: nothing to check for a user who is no admin.  *)
GuardLoad(p) ==
  /\ At(p, "guardLoad")
  /\ Goto(p, IF user[proc[p].user].admin THEN "guardCount" ELSE AfterGuard(p))
  /\ UNCHANGED <<user, mark, ws, mutex, now, overnight, faults>>

(* Mutant: the account itself is counted.                                  *)
GuardCount_Self(p) ==
  /\ At(p, "guardCount")
  /\ IF ActiveAdmins = {} THEN Leave(p) ELSE Goto(p, AfterGuard(p))
  /\ UNCHANGED <<user, mark, ws, mutex, now, overnight, faults>>

(* No other active admin: 409, the caller's work is over.                  *)
GuardCount(p) ==
  /\ At(p, "guardCount")
  /\ IF ActiveAdmins \ {proc[p].user} = {} THEN Leave(p) ELSE Goto(p, AfterGuard(p))
  /\ UNCHANGED <<user, mark, ws, mutex, now, overnight, faults>>

(* One update: the marker and isActive = false.                            *)
Suspend(p) ==
  LET u == proc[p].user IN
  /\ At(p, "suspend")
  /\ mark' = [mark EXCEPT ![u]["account"] = [state |-> "pending", day |-> now]]
  /\ user' = [user EXCEPT ![u].active = FALSE]
  /\ Return(p)
  /\ UNCHANGED <<ws, mutex, now, overnight, faults>>

(* scheduleConnectDeletion, scheduleErpDeletion: the account stays active; *)
(* nothing happens when the scope is pending already.                      *)
ScheduleBox(p, u, s) ==
  /\ s \in Scopes \ {"account"}
  /\ user[u].active
  /\ ~Pending(u, s)
  /\ Begin(p, [Idle EXCEPT !.flow = "schedule", !.pc = "box", !.user = u, !.scopes = {s}])
  /\ UNCHANGED <<user, mark, ws, mutex, now, overnight, faults>>

MarkBox(p) ==
  LET h == proc[p] IN
  /\ At(p, "box")
  /\ \E s \in h.scopes :
       /\ mark' = [mark EXCEPT ![h.user][s] = [state |-> "pending", day |-> now]]
       /\ IF s = "erp" THEN Goto(p, "owned") ELSE Return(p)
  /\ UNCHANGED <<user, ws, mutex, now, overnight, faults>>

-----------------------------------------------------------------------------
(* Erasure.                                                                *)

(* eraseUserCompletely: an admin, for another account.                     *)
Erase(p, u) ==
  /\ Callers \ {u} # {}
  /\ Begin(p, [Idle EXCEPT !.flow = "erase", !.pc = "load", !.user = u])
  /\ UNCHANGED <<user, mark, ws, mutex, now, overnight, faults>>

(* finalizeDuePending: the accounts that are due, then one after another.  *)
(* The sweeps of one day exclude each other (runExclusive, keyed by day).  *)
Sweep(p) ==
  /\ "account" \in Scopes
  /\ \A q \in Procs : proc[q].flow = "finalize" => proc[q].since # now
  /\ Begin(p, [Idle EXCEPT !.flow = "finalize", !.pc = "next", !.since = now,
                  !.todo = {u \in Users : Pending(u, "account") /\ Elapsed(u, "account")}])
  /\ UNCHANGED <<user, mark, ws, mutex, now, overnight, faults>>

SweepNext(p) ==
  /\ At(p, "next")
  /\ \/ \E u \in proc[p].todo :
          Put(p, [proc[p] EXCEPT !.user = u, !.todo = @ \ {u}, !.pc = "load"])
     \/ proc[p].todo = {} /\ Return(p)
  /\ UNCHANGED <<user, mark, ws, mutex, now, overnight, faults>>

(* eraseAccount loads the user: an admin is erased under the mutex.        *)
EraseLoad(p) ==
  /\ At(p, "load")
  /\ Goto(p, IF user[proc[p].user].admin THEN "lock" ELSE "owned")
  /\ UNCHANGED <<user, mark, ws, mutex, now, overnight, faults>>

Lock(p) ==
  /\ At(p, "lock")
  /\ mutex = None
  /\ mutex' = p
  /\ Put(p, [proc[p] EXCEPT !.pc = "guardLoad", !.locked = TRUE])
  /\ UNCHANGED <<user, mark, ws, now, overnight, faults>>

(* The wait for the mutex is over: withLock throws.                        *)
LockTimeout(p) ==
  /\ At(p, "lock")
  /\ mutex # None
  /\ Abandon(p)
  /\ UNCHANGED <<user, mark, ws, mutex, now, overnight, faults>>

(* softDeleteAllOwnedForErasure, for an erasure and for the erp deletion.  *)
SoftDeleteOwned(p) ==
  LET h == proc[p] IN
  /\ At(p, "owned")
  /\ ws' = [w \in Workspaces |-> IF w \in Live(h.user) THEN [state |-> "deleted", day |-> now]
                                                       ELSE ws[w]]
  /\ IF h.flow = "schedule" THEN Return(p) ELSE Goto(p, "scrub")
  /\ UNCHANGED <<user, mark, mutex, now, overnight, faults>>

(* It fails: logged, and the handler goes on.                              *)
SoftDeleteFails(p) ==
  /\ At(p, "owned")
  /\ faults < MaxFaults
  /\ faults' = faults + 1
  /\ IF proc[p].flow = "schedule" THEN Return(p) ELSE Goto(p, "scrub")
  /\ UNCHANGED <<user, mark, ws, mutex, now, overnight>>

(* The identity is scrubbed; the markers are not part of the patch.        *)
Scrub(p) ==
  /\ At(p, "scrub")
  /\ user' = [user EXCEPT ![proc[p].user] =
                [admin |-> FALSE, active |-> FALSE, deleted |-> TRUE, scrubbed |-> TRUE]]
  /\ IF proc[p].locked THEN Goto(p, "unlock") ELSE Erased(p)
  /\ UNCHANGED <<mark, ws, mutex, now, overnight, faults>>

(* withLock's finally: compare and delete.                                 *)
Unlock(p) ==
  /\ \/ At(p, "unlock") /\ Erased(p)
     \/ At(p, "bail") /\ Abandon(p)
  /\ mutex' = IF mutex = p THEN None ELSE mutex
  /\ UNCHANGED <<user, mark, ws, now, overnight, faults>>

(* Mutant: the marker is not written.                                      *)
Flip_Lost(p) ==
  /\ At(p, "flip")
  /\ Goto(p, "next")
  /\ UNCHANGED <<user, mark, ws, mutex, now, overnight, faults>>

(* finalizeOne: the state of the marker, whatever it was meanwhile.        *)
Flip(p) ==
  /\ At(p, "flip")
  /\ mark' = [mark EXCEPT ![proc[p].user]["account"].state = "purged"]
  /\ Goto(p, "next")
  /\ UNCHANGED <<user, ws, mutex, now, overnight, faults>>

-----------------------------------------------------------------------------
(* Recovery, by an admin.                                                  *)

PendingScopes(u) == {s \in Scopes : Pending(u, s)}

(* Mutant: the deadlines are not looked at.                                *)
Recoverable_Always(u) == TRUE

(* restoreDeletion refuses once the earliest deadline has come.            *)
Recoverable(u) == \A s \in PendingScopes(u) : ~Elapsed(u, s)

Restore(p, u) ==
  /\ Callers # {}
  /\ PendingScopes(u) # {}
  /\ Recoverable(u)
  /\ Begin(p, [Idle EXCEPT !.flow = "restore", !.pc = "restoreSave", !.user = u,
                  !.scopes = PendingScopes(u),
                  !.since = IF "erp" \in PendingScopes(u) THEN mark[u]["erp"].day ELSE 0])
  /\ UNCHANGED <<user, mark, ws, mutex, now, overnight, faults>>

(* One update: active again, the markers found pending unset.              *)
RestoreSave(p) ==
  LET h == proc[p] IN
  /\ At(p, "restoreSave")
  /\ user' = [user EXCEPT ![h.user].active = TRUE]
  /\ mark' = [mark EXCEPT ![h.user] =
       [s \in Scopes |-> IF s \in h.scopes THEN [state |-> "none", day |-> 0] ELSE @[s]]]
  /\ IF "erp" \in h.scopes THEN Goto(p, "restoreFind") ELSE Return(p)
  /\ UNCHANGED <<ws, mutex, now, overnight, faults>>

(* Mutant: whenever it was deleted.                                        *)
RestoreFind_All(p) ==
  /\ At(p, "restoreFind")
  /\ Put(p, [proc[p] EXCEPT !.pc = "restoreNext",
                            !.list = {w \in Owned(proc[p].user) : ws[w].state = "deleted"}])
  /\ UNCHANGED <<user, mark, ws, mutex, now, overnight, faults>>

(* restoreAllOwnedForRecovery: what was deleted since the schedule.        *)
RestoreFind(p) ==
  LET h == proc[p] IN
  /\ At(p, "restoreFind")
  /\ Put(p, [h EXCEPT !.pc = "restoreNext",
                      !.list = {w \in Owned(h.user) : ws[w].state = "deleted"
                                                      /\ ws[w].day >= h.since}])
  /\ UNCHANGED <<user, mark, ws, mutex, now, overnight, faults>>

(* restore: only a deleted workspace, in its window.                       *)
RestoreNext(p) ==
  LET h == proc[p] IN
  /\ At(p, "restoreNext")
  /\ \/ h.list = {} /\ Return(p)
     \/ \E w \in h.list :
          Put(p, [h EXCEPT !.list = @ \ {w}, !.w = w,
                           !.pc = IF ws[w].state = "deleted" /\ now <= ws[w].day + Grace
                                    THEN "restoreCount" ELSE "restoreNext"])
  /\ UNCHANGED <<user, mark, ws, mutex, now, overnight, faults>>

(* ... under the limit of the plan; otherwise the next one is tried.       *)
RestoreCount(p) ==
  /\ At(p, "restoreCount")
  /\ Goto(p, IF Cardinality(Live(proc[p].user)) < Limit THEN "restoreWrite" ELSE "restoreNext")
  /\ UNCHANGED <<user, mark, ws, mutex, now, overnight, faults>>

RestoreWrite(p) ==
  /\ At(p, "restoreWrite")
  /\ ws' = [ws EXCEPT ![proc[p].w] = [state |-> "live", day |-> 0]]
  /\ Goto(p, "restoreNext")
  /\ UNCHANGED <<user, mark, mutex, now, overnight, faults>>

-----------------------------------------------------------------------------
(* Other operations on accounts and workspaces.                            *)

(* The owner restores one workspace.                                       *)
RestoreOne(p, w) ==
  /\ user[OwnerOf[w]].active
  /\ ws[w].state = "deleted"
  /\ Begin(p, [Idle EXCEPT !.flow = "restoreWs", !.pc = "restoreNext",
                            !.user = OwnerOf[w], !.list = {w}])
  /\ UNCHANGED <<user, mark, ws, mutex, now, overnight, faults>>

(* create: count, then save.                                               *)
Create(p, w) ==
  /\ user[OwnerOf[w]].active
  /\ ws[w].state = "none"
  /\ \A q \in Procs : ~(At(q, "insert") /\ proc[q].w = w)
  /\ Cardinality(Live(OwnerOf[w])) < Limit
  /\ Begin(p, [Idle EXCEPT !.flow = "create", !.pc = "insert", !.user = OwnerOf[w], !.w = w])
  /\ UNCHANGED <<user, mark, ws, mutex, now, overnight, faults>>

Insert(p) ==
  /\ At(p, "insert")
  /\ ws' = [ws EXCEPT ![proc[p].w] = [state |-> "live", day |-> 0]]
  /\ Return(p)
  /\ UNCHANGED <<user, mark, mutex, now, overnight, faults>>

(* remove: by its owner; RolesGuard fails closed on a deleted one.         *)
RemoveWorkspace(w) ==
  /\ "remove" \in Flows
  /\ user[OwnerOf[w]].active
  /\ ws[w].state = "live"
  /\ ws' = [ws EXCEPT ![w] = [state |-> "deleted", day |-> now]]
  /\ UNCHANGED <<user, mark, mutex, proc, now, overnight, faults>>

(* admin: updateUserStatus, deleteUser (soft), restoreUser.  No guard.     *)
SetStatus(u, b) ==
  /\ "status" \in Flows
  /\ Callers # {}
  /\ user' = [user EXCEPT ![u].active = b]
  /\ UNCHANGED <<mark, ws, mutex, proc, now, overnight, faults>>

SetDeleted(u, b) ==
  /\ "softDelete" \in Flows
  /\ Callers # {}
  /\ user' = [user EXCEPT ![u].deleted = b, ![u].active = ~b]
  /\ UNCHANGED <<mark, ws, mutex, proc, now, overnight, faults>>

-----------------------------------------------------------------------------
(* The environment.                                                        *)

(* A database call throws: the handler is over, except that the workspaces *)
(* of a recovery are restored each in a try of its own.                    *)
Fail(p) ==
  /\ faults < MaxFaults
  /\ proc[p].pc \notin {"idle", "lock", "unlock", "bail", "owned", "next", "restoreNext"}
  /\ faults' = faults + 1
  /\ IF proc[p].pc \in {"restoreCount", "restoreWrite"} THEN Goto(p, "restoreNext") ELSE Leave(p)
  /\ UNCHANGED <<user, mark, ws, mutex, now, overnight>>

(* The process dies; a mutex it holds stays until it expires.              *)
Crash(p) ==
  /\ faults < MaxFaults
  /\ proc[p] # Idle
  /\ faults' = faults + 1
  /\ Return(p)
  /\ mutex' = IF mutex = p THEN "stale" ELSE mutex
  /\ UNCHANGED <<user, mark, ws, now, overnight>>

Expire ==
  /\ mutex # None
  /\ mutex = "stale" \/ Overrun
  /\ mutex' = None
  /\ UNCHANGED <<user, mark, ws, proc, now, overnight, faults>>

(* A deletion of u is being scheduled or recovered: what the handler has   *)
(* checked of the marker is not yet written.                               *)
InHand(u) ==
  \E p \in Procs :
    /\ proc[p].user = u
    /\ \/ proc[p].flow = "schedule" /\ proc[p].pc \in {"guardLoad", "guardCount", "suspend"}
       \/ At(p, "restoreSave")

NextDay ==
  /\ now < LastDay
  /\ Midnight \/ \A p \in Procs : proc[p] = Idle
  /\ now' = now + 1
  /\ overnight' = overnight \cup {u \in Users : InHand(u)}
  /\ UNCHANGED <<user, mark, ws, mutex, proc, faults>>

Handler(p) ==
  \/ GuardLoad(p) \/ GuardCount(p) \/ Suspend(p) \/ MarkBox(p)
  \/ SweepNext(p) \/ EraseLoad(p) \/ Lock(p) \/ LockTimeout(p)
  \/ SoftDeleteOwned(p) \/ Scrub(p) \/ Unlock(p) \/ Flip(p)
  \/ RestoreSave(p) \/ RestoreFind(p) \/ RestoreNext(p) \/ RestoreCount(p)
  \/ RestoreWrite(p) \/ Insert(p)

Request(p) ==
  \/ \E u \in Users :
       \/ Schedule(p, u) \/ Erase(p, u) \/ Restore(p, u)
       \/ \E s \in Scopes : ScheduleBox(p, u, s)
  \/ \E w \in Workspaces : RestoreOne(p, w) \/ Create(p, w)

Environment ==
  \/ \E w \in Workspaces : RemoveWorkspace(w)
  \/ \E u \in Users, b \in BOOLEAN : SetStatus(u, b) \/ SetDeleted(u, b)
  \/ Expire \/ NextDay

Next ==
  \/ \E p \in Procs : Handler(p) \/ Request(p) \/ Sweep(p)
                       \/ SoftDeleteFails(p) \/ Fail(p) \/ Crash(p)
  \/ Environment

Spec == Init /\ [][Next]_vars

(* A handler that is under way goes on, the cron fires every day, time     *)
(* passes.                                                                 *)
Fairness ==
  /\ \A p \in Procs : WF_vars(Handler(p))
  /\ SF_vars(\E p \in Procs : Sweep(p))
  /\ WF_vars(NextDay) /\ WF_vars(Expire)

FairSpec == Spec /\ Fairness
-----------------------------------------------------------------------------
(* Some admin can act: neither erasures, nor the sweep, nor a user's own    *)
(* request take the last one (assertNotLastActiveAdmin, ADMIN_ROSTER_LOCK). *)
AdminRemains == ActiveAdmins # {}

(* A marker says purged only of an account whose identity is gone,         *)
(* whatever died, failed or overlapped on the way.                         *)
PurgedIsErased ==
  \A u \in Users : "account" \in Scopes /\ mark[u]["account"].state = "purged"
                     => user[u].scrubbed

(* The sweep erases an account while its deletion is pending and due: not  *)
(* one that was recovered, or scheduled anew, after finalizeDuePending     *)
(* found it.  It does not look again before it erases; what keeps the two  *)
(* apart is that restoreDeletion refuses from the due day on.  Only a      *)
(* request that checked before a day began and wrote after it is run over: *)
(* the account is erased although it was recovered, against what           *)
(* finalizeOne says there ("the grace has elapsed and this is the user's   *)
(* OWN scheduled deletion").  That user is excepted, and nobody else.      *)
SweepErasesDue ==
  [][\A p \in Procs, u \in Users :
       /\ proc[p].flow = "finalize" /\ At(p, "scrub") /\ proc[p].user = u
       /\ ~user[u].scrubbed /\ user'[u].scrubbed
       => u \in overnight \/ (Pending(u, "account") /\ Elapsed(u, "account"))]_vars

(* The recovery of an erp deletion leaves alone what its owner had deleted *)
(* before asking for it.                                                   *)
RecoveryLeavesEarlier ==
  [][\A p \in Procs, w \in Workspaces :
       /\ proc[p].flow = "restore" /\ At(p, "restoreWrite") /\ proc[p].w = w
       /\ ws[w].state = "deleted" /\ ws'[w].state = "live"
       => ws[w].day >= proc[p].since]_vars

(* An account waits for a day the run still reaches.                       *)
WillBeDue(u) == Pending(u, "account") /\ mark[u]["account"].day + Grace <= LastDay

(* A deletion that comes due is carried out, unless it is recovered, or    *)
(* asked for again later: no failure, no other account and no recovery     *)
(* holds the sweep up for good.                                            *)
PendingEnds == \A u \in Users : WillBeDue(u) ~> ~WillBeDue(u)
=============================================================================

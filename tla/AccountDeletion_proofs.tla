------------------------- MODULE AccountDeletion_proofs -------------------------
(***************************************************************************)
(* For any users, workspaces, handlers and bounds: the state stays well    *)
(* typed; what is marked purged is erased; and erasures by admins and by   *)
(* the sweep, with crashes and failures, never take the last active admin, *)
(* as long as the mutex outlives its holder.  A recovery leaves alone what *)
(* was deleted before; the sweep erases only what is due, except of users  *)
(* who were being scheduled or recovered when a day began.                 *)
(***************************************************************************)
EXTENDS AccountDeletion, TLAPS

-----------------------------------------------------------------------------
(* What a step does to the local state of a handler.                       *)

(* A well-typed local state is well typed among the others.                *)
LEMMA PutTyped ==
  ASSUME TypeOK, NEW p \in Procs, NEW h \in Local, Put(p, h)
  PROVE  proc' \in [Procs -> Local]
BY DEF TypeOK, Put

(* An idle handler is well typed.                                          *)
LEMMA IdleTyped == Idle \in Local
<1>1. 0 \in Days
  BY NumberAssumption DEF Days
<1> QED
  BY <1>1 DEF Idle, Local, Steps

(* A handler that moves on stays well typed.                               *)
LEMMA GotoTyped ==
  ASSUME TypeOK, NEW p \in Procs, NEW pc \in Steps, Goto(p, pc)
  PROVE  proc' \in [Procs -> Local]
<1>1. [proc[p] EXCEPT !.pc = pc] \in Local
  BY DEF TypeOK, Local
<1> QED
  BY <1>1, PutTyped DEF Goto

(* So is one that returns,                                                 *)
LEMMA ReturnTyped ==
  ASSUME TypeOK, NEW p \in Procs, Return(p)
  PROVE  proc' \in [Procs -> Local]
BY IdleTyped, PutTyped DEF Return

(* ... one whose erasure failed,                                           *)
LEMMA AbandonTyped ==
  ASSUME TypeOK, NEW p \in Procs, Abandon(p)
  PROVE  proc' \in [Procs -> Local]
<1>1. [proc[p] EXCEPT !.pc = "next", !.locked = FALSE] \in Local
  BY DEF TypeOK, Local, Steps
<1> QED
  BY <1>1, PutTyped, ReturnTyped DEF Abandon

(* ... one that throws,                                                    *)
LEMMA LeaveTyped ==
  ASSUME TypeOK, NEW p \in Procs, Leave(p)
  PROVE  proc' \in [Procs -> Local]
<1>1. "bail" \in Steps
  BY DEF Steps
<1> QED
  BY <1>1, GotoTyped, AbandonTyped DEF Leave

(* ... and one that has erased its account.                                *)
LEMMA ErasedTyped ==
  ASSUME TypeOK, NEW p \in Procs, Erased(p)
  PROVE  proc' \in [Procs -> Local]
<1>1. [proc[p] EXCEPT !.pc = "flip", !.locked = FALSE] \in Local
  BY DEF TypeOK, Local, Steps
<1> QED
  BY <1>1, PutTyped, ReturnTyped DEF Erased

(* Where the handlers of an account go.                                    *)
LEMMA StepNames ==
  /\ {"guardLoad", "guardCount", "suspend", "owned", "lock", "scrub", "unlock", "next",
      "load", "flip", "restoreFind", "restoreNext", "restoreCount", "restoreWrite"} \subseteq Steps
  /\ \A p \in Procs : AfterGuard(p) \in Steps
BY DEF Steps, AfterGuard

-----------------------------------------------------------------------------
(* The state stays in its types.                                           *)

(* Each operation that begins leaves well-typed handlers behind.           *)
LEMMA RequestTyped ==
  ASSUME TypeOK, NEW p \in Procs, Request(p) \/ Sweep(p)
  PROVE  TypeOK'
<1>1. proc' \in [Procs -> Local]
  <2>1. ASSUME NEW u \in Users, Schedule(p, u) PROVE proc' \in [Procs -> Local]
    <3>1. [Idle EXCEPT !.flow = "schedule", !.pc = "guardLoad", !.user = u] \in Local
      BY IdleTyped DEF Local, Steps, AllFlows
    <3> QED
      BY <2>1, <3>1, PutTyped DEF Schedule, Begin
  <2>2. ASSUME NEW u \in Users, Erase(p, u) PROVE proc' \in [Procs -> Local]
    <3>1. [Idle EXCEPT !.flow = "erase", !.pc = "load", !.user = u] \in Local
      BY IdleTyped DEF Local, Steps, AllFlows
    <3> QED
      BY <2>2, <3>1, PutTyped DEF Erase, Begin
  <2>3. ASSUME NEW u \in Users, Restore(p, u) PROVE proc' \in [Procs -> Local]
    <3> DEFINE d == IF "erp" \in PendingScopes(u) THEN mark[u]["erp"].day ELSE 0
    <3>1. PendingScopes(u) \in SUBSET Scopes /\ d \in Days
      BY NumberAssumption DEF PendingScopes, TypeOK, Marker, Days
    <3>2. [Idle EXCEPT !.flow = "restore", !.pc = "restoreSave", !.user = u,
                       !.scopes = PendingScopes(u), !.since = d] \in Local
      BY <3>1, IdleTyped DEF Local, Steps, AllFlows
    <3> QED
      BY <2>3, <3>2, PutTyped DEF Restore, Begin
  <2>4. ASSUME NEW u \in Users, NEW s \in Scopes, ScheduleBox(p, u, s)
        PROVE proc' \in [Procs -> Local]
    <3>1. [Idle EXCEPT !.flow = "schedule", !.pc = "box", !.user = u, !.scopes = {s}] \in Local
      BY IdleTyped DEF Local, Steps, AllFlows
    <3> QED
      BY <2>4, <3>1, PutTyped DEF ScheduleBox, Begin
  <2>5. ASSUME NEW w \in Workspaces, RestoreOne(p, w) PROVE proc' \in [Procs -> Local]
    <3>1. [Idle EXCEPT !.flow = "restoreWs", !.pc = "restoreNext", !.user = OwnerOf[w],
                       !.list = {w}] \in Local
      BY IdleTyped, UserAssumption DEF Local, Steps, AllFlows
    <3> QED
      BY <2>5, <3>1, PutTyped DEF RestoreOne, Begin
  <2>6. ASSUME NEW w \in Workspaces, Create(p, w) PROVE proc' \in [Procs -> Local]
    <3>1. [Idle EXCEPT !.flow = "create", !.pc = "insert", !.user = OwnerOf[w], !.w = w] \in Local
      BY IdleTyped, UserAssumption DEF Local, Steps, AllFlows
    <3> QED
      BY <2>6, <3>1, PutTyped DEF Create, Begin
  <2>7. CASE Sweep(p)
    <3> DEFINE due == {u \in Users : Pending(u, "account") /\ Elapsed(u, "account")}
    <3>1. [Idle EXCEPT !.flow = "finalize", !.pc = "next", !.since = now, !.todo = due] \in Local
      BY IdleTyped DEF Local, Steps, AllFlows, TypeOK
    <3> QED
      BY <2>7, <3>1, PutTyped DEF Sweep, Begin
  <2> QED
    BY <2>1, <2>2, <2>3, <2>4, <2>5, <2>6, <2>7 DEF Request
<1>2. UNCHANGED <<user, mark, ws, mutex, now, overnight, faults>>
  BY DEF Request, Sweep, Schedule, Erase, Restore, ScheduleBox, RestoreOne, Create
<1> QED
  BY <1>1, <1>2 DEF TypeOK

(* A marker, and a workspace, that are written are well typed.             *)
LEMMA DocsTyped ==
  ASSUME TypeOK
  PROVE  /\ [state |-> "pending", day |-> now] \in Marker
         /\ [state |-> "none", day |-> 0] \in Marker
         /\ [state |-> "deleted", day |-> now] \in WorkspaceDoc
         /\ [state |-> "live", day |-> 0] \in WorkspaceDoc
<1>1. 0 \in Days /\ now \in Days
  BY NumberAssumption DEF TypeOK, Days
<1> QED
  BY <1>1 DEF Marker, WorkspaceDoc

(* Each later step of a handler keeps the types.                           *)
LEMMA HandlerTyped ==
  ASSUME TypeOK, NEW p \in Procs, Handler(p)
  PROVE  TypeOK'
<1> USE StepNames
<1>1. CASE GuardLoad(p)
  BY <1>1, GotoTyped DEF GuardLoad, TypeOK
<1>2. CASE GuardCount(p)
  BY <1>2, GotoTyped, LeaveTyped DEF GuardCount, TypeOK
<1>3. CASE Suspend(p)
  <2>1. mark' \in [Users -> [Scopes -> Marker]]
    BY <1>3, DocsTyped DEF Suspend, TypeOK
  <2>2. user' \in [Users -> UserDoc]
    BY <1>3 DEF Suspend, TypeOK, UserDoc
  <2> QED
    BY <1>3, <2>1, <2>2, ReturnTyped DEF Suspend, TypeOK
<1>4. CASE MarkBox(p)
  <2>1. PICK s \in Scopes : /\ mark' = [mark EXCEPT ![proc[p].user][s] =
                                                     [state |-> "pending", day |-> now]]
                            /\ Goto(p, "owned") \/ Return(p)
    BY <1>4 DEF MarkBox, TypeOK, Local
  <2>2. mark' \in [Users -> [Scopes -> Marker]]
    BY <2>1, DocsTyped DEF TypeOK
  <2> QED
    BY <1>4, <2>1, <2>2, GotoTyped, ReturnTyped DEF MarkBox, TypeOK
<1>5. CASE SweepNext(p)
  <2>1. ASSUME NEW u \in Users
        PROVE  [proc[p] EXCEPT !.user = u, !.todo = @ \ {u}, !.pc = "load"] \in Local
    BY DEF TypeOK, Local
  <2>2. proc[p].todo \subseteq Users
    BY DEF TypeOK, Local
  <2>3. proc' \in [Procs -> Local]
    BY <1>5, <2>1, <2>2, PutTyped, ReturnTyped DEF SweepNext
  <2> QED
    BY <1>5, <2>3 DEF SweepNext, TypeOK
<1>6. CASE EraseLoad(p)
  BY <1>6, GotoTyped DEF EraseLoad, TypeOK
<1>7. CASE Lock(p)
  <2>1. [proc[p] EXCEPT !.pc = "guardLoad", !.locked = TRUE] \in Local
    BY DEF TypeOK, Local
  <2> QED
    BY <1>7, <2>1, PutTyped DEF Lock, TypeOK
<1>8. CASE LockTimeout(p)
  BY <1>8, AbandonTyped DEF LockTimeout, TypeOK
<1>9. CASE SoftDeleteOwned(p)
  <2>1. ws' \in [Workspaces -> WorkspaceDoc]
    BY <1>9, DocsTyped DEF SoftDeleteOwned, TypeOK
  <2> QED
    BY <1>9, <2>1, GotoTyped, ReturnTyped DEF SoftDeleteOwned, TypeOK
<1>10. CASE Scrub(p)
  <2>1. user' \in [Users -> UserDoc]
    BY <1>10 DEF Scrub, TypeOK, UserDoc
  <2> QED
    BY <1>10, <2>1, GotoTyped, ErasedTyped DEF Scrub, TypeOK
<1>11. CASE Unlock(p)
  BY <1>11, ErasedTyped, AbandonTyped DEF Unlock, TypeOK
<1>12. CASE Flip(p)
  <2>1. mark' \in [Users -> [Scopes -> Marker]]
    <3>1. ASSUME NEW m \in [Scopes -> Marker]
          PROVE  [m EXCEPT !["account"].state = "purged"] \in [Scopes -> Marker]
      <4>1. ASSUME NEW d \in Marker PROVE [d EXCEPT !.state = "purged"] \in Marker
        BY DEF Marker
      <4> QED
        BY <4>1
    <3> QED
      BY <1>12, <3>1 DEF Flip, TypeOK
  <2> QED
    BY <1>12, <2>1, GotoTyped DEF Flip, TypeOK
<1>13. CASE RestoreSave(p)
  <2>1. user' \in [Users -> UserDoc]
    BY <1>13 DEF RestoreSave, TypeOK, UserDoc
  <2>2. mark' \in [Users -> [Scopes -> Marker]]
    BY <1>13, DocsTyped DEF RestoreSave, TypeOK
  <2> QED
    BY <1>13, <2>1, <2>2, GotoTyped, ReturnTyped DEF RestoreSave, TypeOK
<1>14. CASE RestoreFind(p)
  <2> DEFINE found == {w \in Owned(proc[p].user) :
                         ws[w].state = "deleted" /\ ws[w].day >= proc[p].since}
  <2>1. [proc[p] EXCEPT !.pc = "restoreNext", !.list = found] \in Local
    BY DEF TypeOK, Local, Owned
  <2> QED
    BY <1>14, <2>1, PutTyped DEF RestoreFind, TypeOK
<1>15. CASE RestoreNext(p)
  <2>1. ASSUME NEW w \in Workspaces, NEW pc \in {"restoreCount", "restoreNext"}
        PROVE  [proc[p] EXCEPT !.list = @ \ {w}, !.w = w, !.pc = pc] \in Local
    BY DEF TypeOK, Local
  <2>2. proc' \in [Procs -> Local]
    BY <1>15, <2>1, PutTyped, ReturnTyped DEF RestoreNext, TypeOK, Local
  <2> QED
    BY <1>15, <2>2 DEF RestoreNext, TypeOK
<1>16. CASE RestoreCount(p)
  BY <1>16, GotoTyped DEF RestoreCount, TypeOK
<1>17. CASE RestoreWrite(p)
  <2>1. ws' \in [Workspaces -> WorkspaceDoc]
    BY <1>17, DocsTyped DEF RestoreWrite, TypeOK
  <2> QED
    BY <1>17, <2>1, GotoTyped DEF RestoreWrite, TypeOK
<1>18. CASE Insert(p)
  <2>1. ws' \in [Workspaces -> WorkspaceDoc]
    BY <1>18, DocsTyped DEF Insert, TypeOK
  <2> QED
    BY <1>18, <2>1, ReturnTyped DEF Insert, TypeOK
<1> QED
  BY <1>1, <1>2, <1>3, <1>4, <1>5, <1>6, <1>7, <1>8, <1>9, <1>10, <1>11, <1>12, <1>13,
     <1>14, <1>15, <1>16, <1>17, <1>18 DEF Handler

(* So do failures, crashes and the environment.                            *)
LEMMA EnvironmentTyped ==
  ASSUME TypeOK,
         \/ Environment
         \/ \E p \in Procs : SoftDeleteFails(p) \/ Fail(p) \/ Crash(p)
  PROVE  TypeOK'
<1> USE StepNames
<1>1. ASSUME NEW p \in Procs, SoftDeleteFails(p) PROVE TypeOK'
  BY <1>1, GotoTyped, ReturnTyped DEF SoftDeleteFails, TypeOK
<1>2. ASSUME NEW p \in Procs, Fail(p) PROVE TypeOK'
  BY <1>2, GotoTyped, LeaveTyped DEF Fail, TypeOK
<1>3. ASSUME NEW p \in Procs, Crash(p) PROVE TypeOK'
  BY <1>3, ReturnTyped DEF Crash, TypeOK
<1>4. ASSUME NEW w \in Workspaces, RemoveWorkspace(w) PROVE TypeOK'
  BY <1>4, DocsTyped DEF RemoveWorkspace, TypeOK
<1>5. ASSUME NEW u \in Users, NEW b \in BOOLEAN, SetStatus(u, b) PROVE TypeOK'
  BY <1>5 DEF SetStatus, TypeOK, UserDoc
<1>6. ASSUME NEW u \in Users, NEW b \in BOOLEAN, SetDeleted(u, b) PROVE TypeOK'
  BY <1>6 DEF SetDeleted, TypeOK, UserDoc
<1>7. CASE Expire
  BY <1>7 DEF Expire, TypeOK
<1>8. CASE NextDay
  BY <1>8, NumberAssumption DEF NextDay, TypeOK, Days
<1> QED
  BY <1>1, <1>2, <1>3, <1>4, <1>5, <1>6, <1>7, <1>8 DEF Environment

(* Accounts, markers, workspaces, the mutex and the handlers stay in their *)
(* types: what the services write is what the schemas allow.               *)
THEOREM TypeCorrect == Spec => []TypeOK
<1>1. Init => TypeOK
  <2> SUFFICES ASSUME Init PROVE TypeOK
    OBVIOUS
  <2>1. 0 \in Days
    BY NumberAssumption DEF Days
  <2> QED
    BY <2>1, IdleTyped DEF Init, TypeOK, UserDoc, Marker, WorkspaceDoc
<1>2. TypeOK /\ [Next]_vars => TypeOK'
  <2>1. ASSUME TypeOK, UNCHANGED vars PROVE TypeOK'
    BY <2>1 DEF TypeOK, vars
  <2> QED
    BY <2>1, RequestTyped, HandlerTyped, EnvironmentTyped DEF Next
<1> QED
  BY <1>1, <1>2, PTL DEF Spec

-----------------------------------------------------------------------------
(* Purged accounts are erased.                                             *)

(* A handler that is about to release the mutex after an erasure, or to    *)
(* advance the marker, has scrubbed its account.                           *)
ErasedFirst ==
  \A p \in Procs : proc[p].pc \in {"unlock", "flip"}
                     => proc[p].user \in Users /\ user[proc[p].user].scrubbed

(* A handler at a step that concerns an account has one.                   *)
HasUser ==
  \A p \in Procs : proc[p].pc \in {"guardLoad", "guardCount", "suspend", "load", "lock",
                                   "owned", "scrub", "box"} => proc[p].user \in Users

PurgedInv == ErasedFirst /\ HasUser /\ PurgedIsErased

(* No step takes back a scrub.                                             *)
LEMMA ScrubbedStays ==
  ASSUME TypeOK, [Next]_vars, NEW u \in Users, user[u].scrubbed
  PROVE  user'[u].scrubbed
<1>1. ASSUME NEW p \in Procs, Handler(p) PROVE user'[u].scrubbed
  <2>1. CASE Suspend(p)
    BY <2>1 DEF Suspend, TypeOK, UserDoc
  <2>2. CASE Scrub(p)
    BY <2>2 DEF Scrub, TypeOK, UserDoc
  <2>3. CASE RestoreSave(p)
    BY <2>3 DEF RestoreSave, TypeOK, UserDoc
  <2>4. CASE UNCHANGED user
    BY <2>4
  <2> QED
    BY <1>1, <2>1, <2>2, <2>3, <2>4
    DEF Handler, GuardLoad, GuardCount, MarkBox, SweepNext, EraseLoad, Lock, LockTimeout,
        SoftDeleteOwned, Unlock, Flip, RestoreFind, RestoreNext, RestoreCount, RestoreWrite,
        Insert
<1>2. ASSUME NEW v \in Users, NEW b \in BOOLEAN, SetStatus(v, b) \/ SetDeleted(v, b)
      PROVE  user'[u].scrubbed
  BY <1>2 DEF SetStatus, SetDeleted, TypeOK, UserDoc
<1>3. ASSUME NEW p \in Procs, Request(p) \/ Sweep(p) PROVE UNCHANGED user
  BY <1>3 DEF Request, Sweep, Schedule, Erase, Restore, ScheduleBox, RestoreOne, Create
<1> QED
  BY <1>1, <1>2, <1>3
  DEF Next, vars, Environment, SoftDeleteFails, Fail, Crash, RemoveWorkspace, Expire, NextDay

(* How a step of handler p changes the local states: p takes h, the others *)
(* stay.  Then the invariants on the others carry over.                    *)
LEMMA PutKeeps ==
  ASSUME TypeOK, ErasedFirst, HasUser, [Next]_vars, NEW p \in Procs, NEW h, Put(p, h),
         h.pc \in {"unlock", "flip"} => h.user \in Users /\ user'[h.user].scrubbed,
         h.pc \in {"guardLoad", "guardCount", "suspend", "load", "lock",
                   "owned", "scrub", "box"} => h.user \in Users
  PROVE  ErasedFirst' /\ HasUser'
BY ScrubbedStays DEF ErasedFirst, HasUser, Put, TypeOK

LEMMA GotoKeeps ==
  ASSUME TypeOK, ErasedFirst, HasUser, [Next]_vars, NEW p \in Procs, NEW pc, Goto(p, pc),
         pc \in {"unlock", "flip"} => proc[p].user \in Users /\ user'[proc[p].user].scrubbed,
         pc \in {"guardLoad", "guardCount", "suspend", "load", "lock",
                 "owned", "scrub", "box"} => proc[p].user \in Users
  PROVE  ErasedFirst' /\ HasUser'
<1> DEFINE h == [proc[p] EXCEPT !.pc = pc]
<1>1. h.pc = pc /\ h.user = proc[p].user
  BY DEF TypeOK, Local
<1> QED
  BY <1>1, PutKeeps DEF Goto

LEMMA ReturnKeeps ==
  ASSUME TypeOK, ErasedFirst, HasUser, [Next]_vars, NEW p \in Procs, Return(p)
  PROVE  ErasedFirst' /\ HasUser'
BY PutKeeps DEF Return, Idle

LEMMA AbandonKeeps ==
  ASSUME TypeOK, ErasedFirst, HasUser, [Next]_vars, NEW p \in Procs, Abandon(p)
  PROVE  ErasedFirst' /\ HasUser'
<1> DEFINE h == [proc[p] EXCEPT !.pc = "next", !.locked = FALSE]
<1>1. h.pc = "next"
  BY DEF TypeOK, Local
<1> QED
  BY <1>1, PutKeeps, ReturnKeeps DEF Abandon

LEMMA LeaveKeeps ==
  ASSUME TypeOK, ErasedFirst, HasUser, [Next]_vars, NEW p \in Procs, Leave(p)
  PROVE  ErasedFirst' /\ HasUser'
BY GotoKeeps, AbandonKeeps DEF Leave

LEMMA ErasedKeeps ==
  ASSUME TypeOK, ErasedFirst, HasUser, [Next]_vars, NEW p \in Procs, Erased(p),
         proc[p].user \in Users /\ user'[proc[p].user].scrubbed
  PROVE  ErasedFirst' /\ HasUser'
<1> DEFINE h == [proc[p] EXCEPT !.pc = "flip", !.locked = FALSE]
<1>1. h.pc = "flip" /\ h.user = proc[p].user
  BY DEF TypeOK, Local
<1> QED
  BY <1>1, PutKeeps, ReturnKeeps DEF Erased

(* Every step keeps what the handlers hold.                                *)
LEMMA HoldsStep ==
  ASSUME TypeOK, ErasedFirst, HasUser, [Next]_vars
  PROVE  ErasedFirst' /\ HasUser'
<1>1. ASSUME NEW p \in Procs, Handler(p) PROVE ErasedFirst' /\ HasUser'
  <2>1. CASE GuardLoad(p)
    BY <2>1, GotoKeeps DEF GuardLoad, At, AfterGuard, HasUser
  <2>2. CASE GuardCount(p)
    BY <2>2, GotoKeeps, LeaveKeeps DEF GuardCount, At, AfterGuard, HasUser
  <2>3. CASE Suspend(p) \/ Insert(p)
    BY <2>3, ReturnKeeps DEF Suspend, Insert
  <2>4. CASE MarkBox(p)
    BY <2>4, GotoKeeps, ReturnKeeps DEF MarkBox, At, HasUser
  <2>5. CASE SweepNext(p)
    <3>1. ASSUME NEW u \in Users,
                 Put(p, [proc[p] EXCEPT !.user = u, !.todo = @ \ {u}, !.pc = "load"])
          PROVE  ErasedFirst' /\ HasUser'
      <4> DEFINE h == [proc[p] EXCEPT !.user = u, !.todo = @ \ {u}, !.pc = "load"]
      <4>1. h.pc = "load" /\ h.user = u
        BY DEF TypeOK, Local
      <4> QED
        BY <3>1, <4>1, PutKeeps
    <3> QED
      BY <2>5, <3>1, ReturnKeeps DEF SweepNext, TypeOK, Local
  <2>6. CASE EraseLoad(p)
    BY <2>6, GotoKeeps DEF EraseLoad, At, HasUser
  <2>7. CASE Lock(p)
    <3> DEFINE h == [proc[p] EXCEPT !.pc = "guardLoad", !.locked = TRUE]
    <3>1. h.pc = "guardLoad" /\ h.user = proc[p].user
      BY DEF TypeOK, Local
    <3>2. proc[p].user \in Users
      BY <2>7 DEF Lock, At, HasUser
    <3> QED
      BY <2>7, <3>1, <3>2, PutKeeps DEF Lock
  <2>8. CASE LockTimeout(p)
    BY <2>8, AbandonKeeps DEF LockTimeout
  <2>9. CASE SoftDeleteOwned(p)
    BY <2>9, GotoKeeps, ReturnKeeps DEF SoftDeleteOwned, At, HasUser
  <2>10. CASE Scrub(p)
    <3>1. proc[p].user \in Users
      BY <2>10 DEF Scrub, At, HasUser
    <3>2. user'[proc[p].user].scrubbed
      BY <2>10, <3>1 DEF Scrub, TypeOK
    <3> QED
      BY <2>10, <3>1, <3>2, GotoKeeps, ErasedKeeps DEF Scrub
  <2>11. CASE Unlock(p)
    <3>1. CASE At(p, "unlock") /\ Erased(p)
      <4>1. proc[p].user \in Users /\ user'[proc[p].user].scrubbed
        BY <3>1, ScrubbedStays DEF At, ErasedFirst
      <4> QED
        BY <3>1, <4>1, ErasedKeeps
    <3> QED
      BY <2>11, <3>1, AbandonKeeps DEF Unlock
  <2>12. CASE Flip(p) \/ RestoreCount(p) \/ RestoreWrite(p)
    BY <2>12, GotoKeeps DEF Flip, RestoreCount, RestoreWrite
  <2>13. CASE RestoreSave(p)
    BY <2>13, GotoKeeps, ReturnKeeps DEF RestoreSave
  <2>14. CASE RestoreFind(p)
    <3>1. PICK l : Put(p, [proc[p] EXCEPT !.pc = "restoreNext", !.list = l])
      BY <2>14 DEF RestoreFind
    <3> DEFINE h == [proc[p] EXCEPT !.pc = "restoreNext", !.list = l]
    <3>2. h.pc = "restoreNext"
      BY DEF TypeOK, Local
    <3> QED
      BY <3>1, <3>2, PutKeeps
  <2>15. CASE RestoreNext(p)
    <3>1. ASSUME NEW w, NEW pc \in {"restoreCount", "restoreNext"},
                 Put(p, [proc[p] EXCEPT !.list = @ \ {w}, !.w = w, !.pc = pc])
          PROVE  ErasedFirst' /\ HasUser'
      <4> DEFINE h == [proc[p] EXCEPT !.list = @ \ {w}, !.w = w, !.pc = pc]
      <4>1. h.pc = pc
        BY DEF TypeOK, Local
      <4> QED
        BY <3>1, <4>1, PutKeeps
    <3> QED
      BY <2>15, <3>1, ReturnKeeps DEF RestoreNext
  <2> QED
    BY <1>1, <2>1, <2>2, <2>3, <2>4, <2>5, <2>6, <2>7, <2>8, <2>9, <2>10, <2>11, <2>12,
       <2>13, <2>14, <2>15 DEF Handler
<1>2. ASSUME NEW p \in Procs, Request(p) \/ Sweep(p) PROVE ErasedFirst' /\ HasUser'
  <2>1. ASSUME NEW u \in Users, Schedule(p, u) \/ Erase(p, u) PROVE ErasedFirst' /\ HasUser'
    BY <2>1, PutKeeps DEF Schedule, Erase, Begin, Idle
  <2>2. ASSUME NEW u \in Users, NEW s \in Scopes, ScheduleBox(p, u, s)
        PROVE  ErasedFirst' /\ HasUser'
    BY <2>2, PutKeeps DEF ScheduleBox, Begin, Idle
  <2>3. ASSUME NEW u \in Users, Restore(p, u) PROVE ErasedFirst' /\ HasUser'
    BY <2>3, PutKeeps DEF Restore, Begin, Idle
  <2>4. ASSUME NEW w \in Workspaces, RestoreOne(p, w) \/ Create(p, w)
        PROVE  ErasedFirst' /\ HasUser'
    BY <2>4, PutKeeps DEF RestoreOne, Create, Begin, Idle
  <2>5. CASE Sweep(p)
    BY <2>5, PutKeeps DEF Sweep, Begin, Idle
  <2> QED
    BY <1>2, <2>1, <2>2, <2>3, <2>4, <2>5 DEF Request
<1>3. ASSUME NEW p \in Procs, SoftDeleteFails(p) PROVE ErasedFirst' /\ HasUser'
  BY <1>3, GotoKeeps, ReturnKeeps DEF SoftDeleteFails, At, HasUser
<1>4. ASSUME NEW p \in Procs, Fail(p) PROVE ErasedFirst' /\ HasUser'
  BY <1>4, GotoKeeps, LeaveKeeps DEF Fail
<1>5. ASSUME NEW p \in Procs, Crash(p) PROVE ErasedFirst' /\ HasUser'
  BY <1>5, ReturnKeeps DEF Crash
<1>6. CASE Environment \/ UNCHANGED vars
  <2>1. UNCHANGED proc
    BY <1>6 DEF Environment, vars, RemoveWorkspace, SetStatus, SetDeleted, Expire, NextDay
  <2> QED
    BY <2>1, ScrubbedStays DEF ErasedFirst, HasUser
<1> QED
  BY <1>1, <1>2, <1>3, <1>4, <1>5, <1>6 DEF Next

(* A marker says purged only of a scrubbed account: whatever crashes,      *)
(* fails, is recovered or runs at the same time, finalizeOne advances the  *)
(* marker after the scrub, and nothing undoes a scrub.                     *)
THEOREM PurgedImpliesErased == Spec => []PurgedIsErased
<1>1. Init => PurgedInv
  BY DEF Init, PurgedInv, ErasedFirst, HasUser, PurgedIsErased, Idle
<1>2. TypeOK /\ PurgedInv /\ [Next]_vars => PurgedInv'
  <2> SUFFICES ASSUME TypeOK, PurgedInv, [Next]_vars PROVE PurgedInv'
    OBVIOUS
  <2>1. ErasedFirst' /\ HasUser'
    BY HoldsStep DEF PurgedInv
  <2>2. SUFFICES ASSUME NEW u \in Users, "account" \in Scopes,
                        mark'[u]["account"].state = "purged", ~user[u].scrubbed
                 PROVE  user'[u].scrubbed
    BY <2>1, ScrubbedStays DEF PurgedInv, PurgedIsErased
  <2>3. mark[u]["account"].state # "purged"
    BY <2>2 DEF PurgedInv, PurgedIsErased
  <2>4. ASSUME NEW p \in Procs, Suspend(p) \/ MarkBox(p) \/ RestoreSave(p) PROVE FALSE
    <3>1. CASE Suspend(p)
      BY <3>1, <2>2, <2>3 DEF Suspend, TypeOK, Marker
    <3>2. CASE MarkBox(p)
      BY <3>2, <2>2, <2>3 DEF MarkBox, TypeOK, Marker
    <3>3. CASE RestoreSave(p)
      BY <3>3, <2>2, <2>3 DEF RestoreSave, TypeOK, Marker
    <3> QED
      BY <2>4, <3>1, <3>2, <3>3
  <2>5. ASSUME NEW p \in Procs, Flip(p) PROVE FALSE
    <3>1. proc[p].user \in Users /\ user[proc[p].user].scrubbed
      BY <2>5 DEF Flip, At, PurgedInv, ErasedFirst
    <3>2. proc[p].user # u
      BY <3>1, <2>2
    <3> QED
      BY <2>5, <3>2, <2>2, <2>3 DEF Flip, TypeOK
  <2>6. CASE UNCHANGED mark
    BY <2>6, <2>2, <2>3
  <2> QED
    BY <2>4, <2>5, <2>6
    DEF Next, vars, Handler, GuardLoad, GuardCount, SweepNext, EraseLoad, Lock, LockTimeout,
        SoftDeleteOwned, Scrub, Unlock, RestoreFind, RestoreNext, RestoreCount, RestoreWrite,
        Insert, Request, Sweep, Schedule, Erase, Restore, ScheduleBox, RestoreOne, Create,
        Environment, SoftDeleteFails, Fail, Crash, RemoveWorkspace, SetStatus, SetDeleted,
        Expire, NextDay
<1>3. PurgedInv => PurgedIsErased
  BY DEF PurgedInv
<1> QED
  BY <1>1, <1>2, <1>3, TypeCorrect, PTL DEF Spec

-----------------------------------------------------------------------------
(* The last admin.                                                         *)

(* A handler may go on erasing an admin only under the mutex and past the  *)
(* guard; it never runs an operation that is not offered.                  *)
Safe(h) ==
  /\ h.flow \in Flows \cup {"none"}
  /\ h.pc \notin {"suspend", "box"}
  /\ h.pc \in {"guardLoad", "guardCount"} => h.locked
  /\ h.pc \in {"owned", "scrub"} /\ user[h.user].admin
       => h.locked /\ ActiveAdmins \ {h.user} # {}

AdminInv ==
  /\ \A p \in Procs : Safe(proc[p]) /\ (proc[p].locked => mutex = p)
  /\ AdminRemains

(* What the theorem needs of the constants: the mutex does not expire      *)
(* under its holder, and no operation is offered that takes an admin away  *)
(* without the mutex (a schedule, a change of status, a soft delete).      *)
OnlyErasures ==
  /\ Admins # {}
  /\ Overrun = FALSE
  /\ Flows \cap {"schedule", "status", "softDelete"} = {}

(* A step that leaves the accounts alone.                                  *)
LEMMA AdminPut ==
  ASSUME TypeOK, AdminInv, UNCHANGED user, NEW p \in Procs, NEW h, Put(p, h),
         Safe(h), h.locked => mutex' = p,
         \A q \in Procs \ {p} : mutex = q => mutex' = q
  PROVE  AdminInv'
<1>1. ActiveAdmins' = ActiveAdmins
  BY DEF ActiveAdmins
<1>2. proc'[p] = h /\ \A q \in Procs \ {p} : proc'[q] = proc[q]
  BY DEF Put, TypeOK
<1> QED
  BY <1>1, <1>2 DEF AdminInv, Safe, AdminRemains

LEMMA AdminGoto ==
  ASSUME TypeOK, AdminInv, UNCHANGED <<user, mutex>>, NEW p \in Procs, NEW pc, Goto(p, pc),
         pc \notin {"suspend", "box", "guardLoad"},
         pc = "guardCount" => At(p, "guardLoad"),
         pc \in {"owned", "scrub"} /\ user[proc[p].user].admin
           => proc[p].locked /\ ActiveAdmins \ {proc[p].user} # {}
  PROVE  AdminInv'
<1> DEFINE h == [proc[p] EXCEPT !.pc = pc]
<1>1. /\ h.pc = pc /\ h.user = proc[p].user /\ h.flow = proc[p].flow
      /\ h.locked = proc[p].locked
  BY DEF TypeOK, Local
<1>2. Safe(h)
  BY <1>1 DEF AdminInv, Safe, At
<1>3. h.locked => mutex' = p
  BY <1>1 DEF AdminInv
<1> QED
  BY <1>2, <1>3, AdminPut DEF Goto

LEMMA AdminReturn ==
  ASSUME TypeOK, AdminInv, UNCHANGED user, NEW p \in Procs, Return(p),
         \A q \in Procs \ {p} : mutex = q => mutex' = q
  PROVE  AdminInv'
<1>1. Safe(Idle) /\ ~Idle.locked
  BY DEF Safe, Idle
<1> QED
  BY <1>1, AdminPut DEF Return

LEMMA AdminAbandon ==
  ASSUME TypeOK, AdminInv, UNCHANGED user, NEW p \in Procs, Abandon(p) \/ Erased(p),
         \A q \in Procs \ {p} : mutex = q => mutex' = q
  PROVE  AdminInv'
<1>1. ASSUME NEW pc \in {"next", "flip"}, Put(p, [proc[p] EXCEPT !.pc = pc, !.locked = FALSE])
      PROVE  AdminInv'
  <2> DEFINE h == [proc[p] EXCEPT !.pc = pc, !.locked = FALSE]
  <2>1. h.pc = pc /\ h.flow = proc[p].flow /\ ~h.locked
    BY DEF TypeOK, Local
  <2>2. Safe(h)
    BY <2>1 DEF AdminInv, Safe
  <2> QED
    BY <1>1, <2>1, <2>2, AdminPut
<1> QED
  BY <1>1, AdminReturn DEF Abandon, Erased

LEMMA AdminLeave ==
  ASSUME TypeOK, AdminInv, UNCHANGED <<user, mutex>>, NEW p \in Procs, Leave(p)
  PROVE  AdminInv'
BY AdminGoto, AdminAbandon DEF Leave

(* A scrub under the mutex takes one admin of at least two; without it, no *)
(* admin at all.                                                           *)
LEMMA AdminScrub ==
  ASSUME TypeOK, HasUser, AdminInv, NEW p \in Procs, Scrub(p)
  PROVE  AdminInv'
<1> DEFINE v == proc[p].user
           h == IF proc[p].locked THEN [proc[p] EXCEPT !.pc = "unlock"]
                ELSE IF proc[p].flow = "finalize"
                     THEN [proc[p] EXCEPT !.pc = "flip", !.locked = FALSE]
                     ELSE Idle
<1>1. v \in Users /\ At(p, "scrub")
  BY DEF Scrub, At, HasUser
<1>2. /\ ActiveAdmins' = ActiveAdmins \ {v}
      /\ \A u \in Users : user'[u].admin => user[u].admin /\ u # v
  BY <1>1 DEF Scrub, ActiveAdmins, TypeOK
<1>3. ActiveAdmins' # {}
  <2>1. CASE user[v].admin
    BY <1>1, <1>2, <2>1 DEF AdminInv, Safe, At
  <2>2. CASE ~user[v].admin
    BY <1>2, <2>2 DEF AdminInv, AdminRemains, ActiveAdmins
  <2> QED
    BY <2>1, <2>2
<1>4. proc' = [proc EXCEPT ![p] = h]
  BY DEF Scrub, Goto, Put, Erased, Return
<1>5. /\ h.pc \in {"unlock", "flip", "idle"}
      /\ h.flow \in Flows \cup {"none"}
      /\ h.locked => mutex = p
  <2>1. proc[p].locked => mutex = p
    BY DEF AdminInv
  <2>2. proc[p].flow \in Flows \cup {"none"}
    BY DEF AdminInv, Safe
  <2> QED
    BY <2>1, <2>2 DEF TypeOK, Local, Idle
<1>6. UNCHANGED mutex
  BY DEF Scrub
<1>7. Safe(proc[p])' /\ (proc'[p].locked => mutex' = p)
  BY <1>4, <1>5, <1>6 DEF Safe, TypeOK
<1>8. ASSUME NEW q \in Procs \ {p} PROVE Safe(proc[q])' /\ (proc'[q].locked => mutex' = q)
  <2>1. proc'[q] = proc[q]
    BY <1>4 DEF TypeOK
  <2>2. Safe(proc[q]) /\ (proc[q].locked => mutex = q)
    BY DEF AdminInv
  <2>3. CASE proc[q].pc \in {"owned", "scrub"} /\ user'[proc[q].user].admin
    <3>1. proc[q].user \in Users
      BY <2>3 DEF HasUser
    <3>2. user[proc[q].user].admin
      BY <1>2, <2>3, <3>1
    <3>3. mutex = q /\ ActiveAdmins \ {proc[q].user} # {}
      BY <2>2, <2>3, <3>2 DEF Safe
    <3>4. ~proc[p].locked
      BY <3>3, <1>8 DEF AdminInv
    <3>5. ~user[v].admin
      BY <3>4, <1>1 DEF AdminInv, Safe, At
    <3>6. ActiveAdmins' = ActiveAdmins
      BY <3>5, <1>2 DEF ActiveAdmins
    <3> QED
      BY <2>1, <2>2, <3>2, <3>3, <3>6, <1>6 DEF Safe
  <2>4. CASE ~(proc[q].pc \in {"owned", "scrub"} /\ user'[proc[q].user].admin)
    BY <2>1, <2>2, <2>4, <1>6 DEF Safe
  <2> QED
    BY <2>3, <2>4
<1> QED
  BY <1>3, <1>7, <1>8 DEF AdminInv, AdminRemains

(* A recovery only adds active admins.                                     *)
LEMMA AdminRestoreSave ==
  ASSUME TypeOK, HasUser, AdminInv, NEW p \in Procs, RestoreSave(p)
  PROVE  AdminInv'
<1> DEFINE h == IF "erp" \in proc[p].scopes THEN [proc[p] EXCEPT !.pc = "restoreFind"] ELSE Idle
<1>1. \A u \in Users : /\ user'[u].admin = user[u].admin
                       /\ user'[u].deleted = user[u].deleted
                       /\ user[u].active => user'[u].active
  <2>1. user' = [user EXCEPT ![proc[p].user].active = TRUE]
    BY DEF RestoreSave
  <2> QED
    BY <2>1 DEF TypeOK, UserDoc
<1>2. ActiveAdmins \subseteq ActiveAdmins'
  BY <1>1 DEF ActiveAdmins
<1>3. proc' = [proc EXCEPT ![p] = h] /\ UNCHANGED mutex
  BY DEF RestoreSave, Goto, Put, Return
<1>4. /\ h.pc \in {"restoreFind", "idle"}
      /\ h.flow \in Flows \cup {"none"}
      /\ h.locked => mutex = p
  BY DEF TypeOK, Local, Idle, AdminInv, Safe
<1>5. Safe(proc[p])' /\ (proc'[p].locked => mutex' = p)
  BY <1>3, <1>4 DEF Safe, TypeOK
<1>6. ASSUME NEW q \in Procs \ {p} PROVE Safe(proc[q])' /\ (proc'[q].locked => mutex' = q)
  <2>1. proc'[q] = proc[q]
    BY <1>3 DEF TypeOK
  <2>2. Safe(proc[q]) /\ (proc[q].locked => mutex = q)
    BY DEF AdminInv
  <2>3. proc[q].pc \in {"owned", "scrub"} => proc[q].user \in Users
    BY DEF HasUser
  <2> QED
    BY <2>1, <2>2, <2>3, <1>1, <1>2, <1>3 DEF Safe
<1> QED
  BY <1>2, <1>5, <1>6 DEF AdminInv, AdminRemains

(* A call that begins is not yet past any guard, and is offered.           *)
LEMMA AdminBegin ==
  ASSUME TypeOK, AdminInv, OnlyErasures, NEW p \in Procs, NEW h, Begin(p, h),
         UNCHANGED <<user, mutex>>, ~h.locked,
         \/ h.flow = "schedule"
         \/ h.pc \notin {"suspend", "box", "guardLoad", "guardCount", "owned", "scrub"}
  PROVE  AdminInv'
<1>1. Put(p, h) /\ h.flow \in Flows /\ h.flow # "schedule"
  BY DEF Begin, OnlyErasures
<1>2. Safe(h)
  BY <1>1 DEF Safe
<1> QED
  BY <1>1, <1>2, AdminPut

(* Every step keeps an active admin.                                       *)
LEMMA AdminStep ==
  ASSUME TypeOK, HasUser, AdminInv, OnlyErasures, [Next]_vars
  PROVE  AdminInv'
<1>1. ASSUME NEW p \in Procs, Handler(p) PROVE AdminInv'
  <2>1. CASE GuardLoad(p)
    BY <2>1, AdminGoto DEF GuardLoad, At, AfterGuard, AdminInv, Safe, OnlyErasures
  <2>2. CASE GuardCount(p)
    BY <2>2, AdminGoto, AdminLeave DEF GuardCount, At, AfterGuard, AdminInv, Safe, OnlyErasures
  <2>3. CASE Suspend(p) \/ MarkBox(p)
    BY <2>3 DEF Suspend, MarkBox, At, AdminInv, Safe
  <2>4. CASE Insert(p)
    BY <2>4, AdminReturn DEF Insert
  <2>5. CASE SweepNext(p)
    <3>1. ASSUME NEW u \in Users,
                 Put(p, [proc[p] EXCEPT !.user = u, !.todo = @ \ {u}, !.pc = "load"])
          PROVE  AdminInv'
      <4> DEFINE h == [proc[p] EXCEPT !.user = u, !.todo = @ \ {u}, !.pc = "load"]
      <4>1. h.pc = "load" /\ h.flow = proc[p].flow /\ h.locked = proc[p].locked
        BY DEF TypeOK, Local
      <4>2. Safe(h) /\ (h.locked => mutex' = p)
        BY <2>5, <4>1 DEF SweepNext, AdminInv, Safe
      <4> QED
        BY <2>5, <3>1, <4>2, AdminPut DEF SweepNext
    <3> QED
      BY <2>5, <3>1, AdminReturn DEF SweepNext, TypeOK, Local
  <2>6. CASE EraseLoad(p)
    BY <2>6, AdminGoto DEF EraseLoad
  <2>7. CASE Lock(p)
    <3> DEFINE h == [proc[p] EXCEPT !.pc = "guardLoad", !.locked = TRUE]
    <3>1. h.pc = "guardLoad" /\ h.flow = proc[p].flow /\ h.locked
      BY DEF TypeOK, Local
    <3>2. Safe(h)
      BY <3>1 DEF AdminInv, Safe
    <3>3. mutex' = p /\ \A q \in Procs : mutex # q
      BY <2>7, NoneAssumption DEF Lock
    <3> QED
      BY <2>7, <3>2, <3>3, AdminPut DEF Lock
  <2>8. CASE LockTimeout(p)
    BY <2>8, AdminAbandon DEF LockTimeout
  <2>9. CASE SoftDeleteOwned(p)
    BY <2>9, AdminGoto, AdminReturn DEF SoftDeleteOwned, At, AdminInv, Safe
  <2>10. CASE Scrub(p)
    BY <2>10, AdminScrub
  <2>11. CASE Unlock(p)
    BY <2>11, AdminAbandon DEF Unlock
  <2>12. CASE Flip(p) \/ RestoreCount(p) \/ RestoreWrite(p)
    BY <2>12, AdminGoto DEF Flip, RestoreCount, RestoreWrite
  <2>13. CASE RestoreSave(p)
    BY <2>13, AdminRestoreSave
  <2>14. CASE RestoreFind(p)
    <3>1. PICK l : Put(p, [proc[p] EXCEPT !.pc = "restoreNext", !.list = l])
      BY <2>14 DEF RestoreFind
    <3> DEFINE h == [proc[p] EXCEPT !.pc = "restoreNext", !.list = l]
    <3>2. h.pc = "restoreNext" /\ h.flow = proc[p].flow /\ h.locked = proc[p].locked
      BY DEF TypeOK, Local
    <3>3. Safe(h) /\ (h.locked => mutex' = p)
      BY <2>14, <3>2 DEF RestoreFind, AdminInv, Safe
    <3> QED
      BY <2>14, <3>1, <3>3, AdminPut DEF RestoreFind
  <2>15. CASE RestoreNext(p)
    <3>1. ASSUME NEW w, NEW pc \in {"restoreCount", "restoreNext"},
                 Put(p, [proc[p] EXCEPT !.list = @ \ {w}, !.w = w, !.pc = pc])
          PROVE  AdminInv'
      <4> DEFINE h == [proc[p] EXCEPT !.list = @ \ {w}, !.w = w, !.pc = pc]
      <4>1. h.pc = pc /\ h.flow = proc[p].flow /\ h.locked = proc[p].locked
        BY DEF TypeOK, Local
      <4>2. Safe(h) /\ (h.locked => mutex' = p)
        BY <2>15, <4>1 DEF RestoreNext, AdminInv, Safe
      <4> QED
        BY <2>15, <3>1, <4>2, AdminPut DEF RestoreNext
    <3> QED
      BY <2>15, <3>1, AdminReturn DEF RestoreNext
  <2> QED
    BY <1>1, <2>1, <2>2, <2>3, <2>4, <2>5, <2>6, <2>7, <2>8, <2>9, <2>10, <2>11, <2>12,
       <2>13, <2>14, <2>15 DEF Handler
<1>2. ASSUME NEW p \in Procs, Request(p) \/ Sweep(p) PROVE AdminInv'
  <2>1. ASSUME NEW u \in Users, Schedule(p, u) \/ \E s \in Scopes : ScheduleBox(p, u, s)
        PROVE  FALSE
    BY <2>1 DEF Schedule, ScheduleBox, Begin, Idle, OnlyErasures
  <2>2. ASSUME NEW u \in Users, Erase(p, u) PROVE AdminInv'
    <3> DEFINE h == [Idle EXCEPT !.flow = "erase", !.pc = "load", !.user = u]
    <3>1. h.pc = "load" /\ ~h.locked
      BY DEF Idle
    <3> QED
      BY <2>2, <3>1, AdminBegin DEF Erase
  <2>3. ASSUME NEW u \in Users, Restore(p, u) PROVE AdminInv'
    <3> DEFINE d == IF "erp" \in PendingScopes(u) THEN mark[u]["erp"].day ELSE 0
               h == [Idle EXCEPT !.flow = "restore", !.pc = "restoreSave", !.user = u,
                                 !.scopes = PendingScopes(u), !.since = d]
    <3>1. h.pc = "restoreSave" /\ ~h.locked
      BY DEF Idle
    <3> QED
      BY <2>3, <3>1, AdminBegin DEF Restore
  <2>4. ASSUME NEW w \in Workspaces, RestoreOne(p, w) PROVE AdminInv'
    <3> DEFINE h == [Idle EXCEPT !.flow = "restoreWs", !.pc = "restoreNext",
                                 !.user = OwnerOf[w], !.list = {w}]
    <3>1. h.pc = "restoreNext" /\ ~h.locked
      BY DEF Idle
    <3> QED
      BY <2>4, <3>1, AdminBegin DEF RestoreOne
  <2>5. ASSUME NEW w \in Workspaces, Create(p, w) PROVE AdminInv'
    <3> DEFINE h == [Idle EXCEPT !.flow = "create", !.pc = "insert", !.user = OwnerOf[w],
                                 !.w = w]
    <3>1. h.pc = "insert" /\ ~h.locked
      BY DEF Idle
    <3> QED
      BY <2>5, <3>1, AdminBegin DEF Create
  <2>6. CASE Sweep(p)
    <3> DEFINE due == {u \in Users : Pending(u, "account") /\ Elapsed(u, "account")}
               h == [Idle EXCEPT !.flow = "finalize", !.pc = "next", !.since = now,
                                 !.todo = due]
    <3>1. h.pc = "next" /\ ~h.locked
      BY DEF Idle
    <3> QED
      BY <2>6, <3>1, AdminBegin DEF Sweep
  <2> QED
    BY <1>2, <2>1, <2>2, <2>3, <2>4, <2>5, <2>6 DEF Request
<1>3. ASSUME NEW p \in Procs, SoftDeleteFails(p) PROVE AdminInv'
  BY <1>3, AdminGoto, AdminReturn DEF SoftDeleteFails, At, AdminInv, Safe
<1>4. ASSUME NEW p \in Procs, Fail(p) PROVE AdminInv'
  BY <1>4, AdminGoto, AdminLeave DEF Fail
<1>5. ASSUME NEW p \in Procs, Crash(p) PROVE AdminInv'
  BY <1>5, AdminReturn DEF Crash
<1>6. CASE Environment
  <2>1. UNCHANGED <<user, proc>>
    BY <1>6 DEF Environment, OnlyErasures, RemoveWorkspace, SetStatus, SetDeleted, Expire, NextDay
  <2>2. \A q \in Procs : mutex = q => mutex' = q
    BY <1>6, StaleAssumption
    DEF Environment, OnlyErasures, RemoveWorkspace, SetStatus, SetDeleted, Expire, NextDay
  <2> QED
    BY <2>1, <2>2 DEF AdminInv, Safe, AdminRemains, ActiveAdmins
<1>7. CASE UNCHANGED vars
  BY <1>7 DEF vars, AdminInv, Safe, AdminRemains, ActiveAdmins
<1> QED
  BY <1>1, <1>2, <1>3, <1>4, <1>5, <1>6, <1>7 DEF Next

(* Erasures by admins and by the sweep, at the same time, with crashes,    *)
(* failures and recoveries, keep an active admin: assertNotLastActiveAdmin *)
(* and the scrub it allows are one critical section of ADMIN_ROSTER_LOCK.  *)
THEOREM LastAdminKept == ASSUME OnlyErasures PROVE Spec => []AdminRemains
<1>1. Init => AdminInv /\ HasUser /\ ErasedFirst
  <2> SUFFICES ASSUME Init PROVE AdminInv /\ HasUser /\ ErasedFirst
    OBVIOUS
  <2>1. ActiveAdmins = Admins
    BY UserAssumption DEF Init, ActiveAdmins
  <2> QED
    BY <2>1 DEF Init, AdminInv, Safe, AdminRemains, OnlyErasures, HasUser, ErasedFirst, Idle
<1>2. TypeOK /\ AdminInv /\ HasUser /\ ErasedFirst /\ [Next]_vars
        => (AdminInv /\ HasUser /\ ErasedFirst)'
  BY AdminStep, HoldsStep
<1>3. AdminInv => AdminRemains
  BY DEF AdminInv
<1> QED
  BY <1>1, <1>2, <1>3, TypeCorrect, PTL DEF Spec

-----------------------------------------------------------------------------
(* What the sweep erases is due, and what a recovery restores is no older  *)
(* than the deletion.                                                      *)

Restoring == {"restoreNext", "restoreCount", "restoreWrite"}
Erasing == {"load", "lock", "guardLoad", "guardCount", "owned", "scrub"}
Guarding == {"guardLoad", "guardCount", "suspend"}

(* Not deleted before a recovery's deletion was asked for.                 *)
Late(h, w, W) == w \in Workspaces /\ (W[w].state = "deleted" => W[w].day >= h.since)

(* What a recovery is going to restore.                                    *)
LateOK(h, W, day) ==
  h.flow = "restore" =>
    /\ h.since <= day
    /\ h.pc \in Restoring => \A w \in h.list : Late(h, w, W)
    /\ h.pc \in {"restoreCount", "restoreWrite"} => Late(h, h.w, W)

Asked(u, M) == M[u]["account"].state = "pending"
Due(u, M, day) == Asked(u, M) /\ M[u]["account"].day + Grace <= day

(* What a handler found of the account marker is still true, or the        *)
(* account is erased, unless the user is one of O: those who were being    *)
(* scheduled or recovered when a day began.                                *)
DueOK(h, U, M, day, O) ==
  /\ h.flow = "finalize" =>
       /\ "account" \in Scopes
       /\ \A u \in h.todo : u \in O \/ U[u].scrubbed \/ Due(u, M, day)
       /\ h.pc \in Erasing => h.user \in O \/ U[h.user].scrubbed \/ Due(h.user, M, day)
  /\ h.flow = "schedule" /\ h.pc \in Guarding =>
       /\ "account" \in Scopes
       /\ h.user \in O \/ ~Asked(h.user, M) \/ M[h.user]["account"].day = day
  /\ h.pc = "restoreSave" /\ "account" \in h.scopes =>
       h.user \in O \/ (Grace > 0 /\ ~Due(h.user, M, day))

(* Which handlers are at which step.                                       *)
FlowOK(h) ==
  /\ h.pc \in {"suspend", "box"} => h.flow = "schedule"
  /\ h.pc \in {"next", "flip"} => h.flow = "finalize"
  /\ h.pc \in {"load", "lock"} => h.flow # "schedule"
  /\ h.pc = "restoreSave" => h.user \in Users
  /\ h.pc = "box" => "account" \notin h.scopes

(* Of constant level, so that a step can be followed half-way.             *)
Holds(h, U, M, W, day, O) == LateOK(h, W, day) /\ DueOK(h, U, M, day, O) /\ FlowOK(h)

Past == \A u \in Users, s \in Scopes : mark[u][s].day <= now

Truthful == \A p \in Procs : Holds(proc[p], user, mark, ws, now, overnight)

DueInv == Past /\ Truthful

(* A step within a day.                                                    *)
StepInDay == /\ TypeOK /\ ErasedFirst /\ HasUser /\ DueInv /\ [Next]_vars
             /\ TypeOK' /\ HasUser' /\ now' = now

(* The three ways a step may change the account marker of a user.          *)
LEMMA MarkStep ==
  ASSUME TypeOK, ErasedFirst, HasUser, DueInv, [Next]_vars,
         "account" \in Scopes, NEW u \in Users, u \notin overnight
  PROVE  \/ mark'[u]["account"] = mark[u]["account"]
         \/ /\ mark'[u]["account"] = [state |-> "pending", day |-> now]
            /\ ~Asked(u, mark) \/ mark[u]["account"].day = now
         \/ /\ mark'[u]["account"].state # "pending"
            /\ user[u].scrubbed \/ ~Due(u, mark, now)
<1> DEFINE Goal == \/ mark'[u]["account"] = mark[u]["account"]
                   \/ /\ mark'[u]["account"] = [state |-> "pending", day |-> now]
                      /\ ~Asked(u, mark) \/ mark[u]["account"].day = now
                   \/ /\ mark'[u]["account"].state # "pending"
                      /\ user[u].scrubbed \/ ~Due(u, mark, now)
<1>1. ASSUME NEW p \in Procs, Suspend(p) PROVE Goal
  <2>1. proc[p].flow = "schedule" /\ proc[p].pc = "suspend"
    BY <1>1 DEF DueInv, Truthful, Holds, FlowOK, Suspend, At
  <2>2. \/ proc[p].user \in overnight \/ ~Asked(proc[p].user, mark)
        \/ mark[proc[p].user]["account"].day = now
    BY <2>1 DEF DueInv, Truthful, Holds, DueOK, Guarding
  <2> QED
    BY <1>1, <2>2 DEF Suspend, TypeOK
<1>2. ASSUME NEW p \in Procs, MarkBox(p) PROVE Goal
  <2>1. "account" \notin proc[p].scopes
    BY <1>2 DEF DueInv, Truthful, Holds, FlowOK, MarkBox, At
  <2> QED
    BY <1>2, <2>1 DEF MarkBox, TypeOK
<1>3. ASSUME NEW p \in Procs, Flip(p) PROVE Goal
  <2>1. user[proc[p].user].scrubbed
    BY <1>3 DEF ErasedFirst, Flip, At
  <2>2. CASE proc[p].user = u
    <3>1. mark'[u]["account"].state = "purged"
      BY <1>3, <2>2 DEF Flip, TypeOK, Marker
    <3> QED
      BY <2>1, <2>2, <3>1
  <2>3. CASE proc[p].user # u
    BY <1>3, <2>3 DEF Flip, TypeOK
  <2> QED
    BY <2>2, <2>3
<1>4. ASSUME NEW p \in Procs, RestoreSave(p) PROVE Goal
  <2>1. "account" \in proc[p].scopes => proc[p].user \in overnight \/ ~Due(proc[p].user, mark, now)
    BY <1>4 DEF DueInv, Truthful, Holds, DueOK, RestoreSave, At
  <2>2. CASE proc[p].user = u /\ "account" \in proc[p].scopes
    <3>1. mark'[u]["account"].state = "none"
      BY <1>4, <2>2 DEF RestoreSave, TypeOK
    <3> QED
      BY <2>1, <2>2, <3>1
  <2>3. CASE ~(proc[p].user = u /\ "account" \in proc[p].scopes)
    BY <1>4, <2>3 DEF RestoreSave, TypeOK
  <2> QED
    BY <2>2, <2>3
<1>5. ASSUME NEW p \in Procs, Handler(p) PROVE Goal
  <2>1. CASE Suspend(p) \/ MarkBox(p)
    BY <2>1, <1>1, <1>2
  <2>2. CASE Flip(p) \/ RestoreSave(p)
    BY <2>2, <1>3, <1>4
  <2>3. CASE UNCHANGED mark
    BY <2>3
  <2> HIDE DEF Goal
  <2> QED
    BY <1>5, <2>1, <2>2, <2>3
    DEF Handler, GuardLoad, GuardCount, SweepNext, EraseLoad, Lock,
        LockTimeout, SoftDeleteOwned, Scrub, Unlock, RestoreFind, RestoreNext,
        RestoreCount, RestoreWrite, Insert
<1>6. ASSUME NEW p \in Procs, Request(p) \/ Sweep(p) PROVE UNCHANGED mark
  BY <1>6 DEF Request, Schedule, Erase, Restore, ScheduleBox, RestoreOne, Create, Sweep
<1>7. ASSUME NEW p \in Procs, SoftDeleteFails(p) \/ Fail(p) \/ Crash(p) PROVE UNCHANGED mark
  BY <1>7 DEF SoftDeleteFails, Fail, Crash
<1>8. CASE Environment \/ UNCHANGED vars
  BY <1>8 DEF Environment, vars, RemoveWorkspace, SetStatus, SetDeleted, Expire, NextDay
<1> QED
  BY <1>5, <1>6, <1>7, <1>8 DEF Next

(* A step deletes a workspace today, restores it or leaves it alone.       *)
LEMMA WorkspaceStep ==
  ASSUME TypeOK, [Next]_vars, NEW w \in Workspaces
  PROVE  ws'[w] = ws[w] \/ ws'[w].state = "live" \/ ws'[w].day = now
<1> DEFINE Goal == ws'[w] = ws[w] \/ ws'[w].state = "live" \/ ws'[w].day = now
<1>1. ASSUME NEW p \in Procs, SoftDeleteOwned(p) \/ RestoreWrite(p) \/ Insert(p) PROVE Goal
  BY <1>1 DEF SoftDeleteOwned, RestoreWrite, Insert, TypeOK
<1>2. ASSUME NEW p \in Procs, Handler(p) PROVE Goal
  <2>1. CASE SoftDeleteOwned(p) \/ RestoreWrite(p) \/ Insert(p)
    BY <2>1, <1>1
  <2>2. CASE UNCHANGED ws
    BY <2>2
  <2> HIDE DEF Goal
  <2> QED
    BY <1>2, <2>1, <2>2
    DEF Handler, GuardLoad, GuardCount, Suspend, MarkBox, SweepNext,
        EraseLoad, Lock, LockTimeout, Scrub, Unlock, Flip, RestoreSave,
        RestoreFind, RestoreNext, RestoreCount
<1>3. ASSUME NEW p \in Procs, Request(p) \/ Sweep(p) PROVE UNCHANGED ws
  BY <1>3 DEF Request, Schedule, Erase, Restore, ScheduleBox, RestoreOne, Create, Sweep
<1>4. ASSUME NEW p \in Procs, SoftDeleteFails(p) \/ Fail(p) \/ Crash(p) PROVE UNCHANGED ws
  BY <1>4 DEF SoftDeleteFails, Fail, Crash
<1>5. ASSUME NEW v \in Workspaces, RemoveWorkspace(v) PROVE Goal
  BY <1>5 DEF RemoveWorkspace, TypeOK
<1>6. CASE Environment \/ UNCHANGED vars
  BY <1>5, <1>6 DEF Environment, vars, SetStatus, SetDeleted, Expire, NextDay
<1> QED
  BY <1>2, <1>3, <1>4, <1>6 DEF Next

(* Days go forward, and with them the users noted overnight.               *)
LEMMA DayStep ==
  ASSUME TypeOK, [Next]_vars
  PROVE  /\ now \in Nat /\ now' \in Nat /\ now' >= now
         /\ (NextDay /\ now' # now) \/ UNCHANGED <<now, overnight>>
<1> DEFINE Goal == /\ now \in Nat /\ now' \in Nat /\ now' >= now
                   /\ (NextDay /\ now' # now) \/ UNCHANGED <<now, overnight>>
<1> HIDE DEF Goal
<1>1. now \in Nat
  BY NumberAssumption DEF TypeOK, Days
<1>2. ASSUME NextDay PROVE Goal
  <2>2. now' = now + 1
    BY <1>2 DEF NextDay
  <2> QED
    BY <1>1, <1>2, <2>2 DEF Goal
<1>3. ASSUME UNCHANGED <<now, overnight>> PROVE Goal
  BY <1>1, <1>3 DEF Goal
<1>4. ASSUME NEW p \in Procs, Handler(p) PROVE UNCHANGED <<now, overnight>>
  BY <1>4
  DEF Handler, GuardLoad, GuardCount, Suspend, MarkBox, SweepNext, EraseLoad,
      Lock, LockTimeout, SoftDeleteOwned, Scrub, Unlock, Flip, RestoreSave,
      RestoreFind, RestoreNext, RestoreCount, RestoreWrite, Insert
<1>5. ASSUME NEW p \in Procs, Request(p) \/ Sweep(p) PROVE UNCHANGED <<now, overnight>>
  BY <1>5 DEF Request, Schedule, Erase, Restore, ScheduleBox, RestoreOne, Create, Sweep
<1>6. ASSUME NEW p \in Procs, SoftDeleteFails(p) \/ Fail(p) \/ Crash(p) PROVE UNCHANGED <<now, overnight>>
  BY <1>6 DEF SoftDeleteFails, Fail, Crash
<1>7. Environment \/ UNCHANGED vars => NextDay \/ UNCHANGED <<now, overnight>>
  BY DEF Environment, vars, RemoveWorkspace, SetStatus, SetDeleted, Expire
<1>8. Next \/ UNCHANGED vars => NextDay \/ UNCHANGED <<now, overnight>>
  BY <1>4, <1>5, <1>6, <1>7 DEF Next
<1>9. Goal
  BY <1>2, <1>3, <1>8
<1> QED
  BY <1>9 DEF Goal

(* Markers are dated today at the latest.                                  *)
LEMMA PastStep ==
  ASSUME TypeOK, ErasedFirst, HasUser, Past, [Next]_vars
  PROVE  Past'
<1> SUFFICES ASSUME NEW u \in Users, NEW s \in Scopes PROVE mark'[u][s].day <= now'
  BY DEF Past
<1>1. mark[u][s].day \in Nat /\ mark[u][s].day <= now /\ now \in Nat /\ now' \in Nat /\ now <= now'
  <2>1. now \in Nat /\ now' \in Nat /\ now' >= now
    BY DayStep
  <2>2. mark[u][s].day \in Days /\ mark[u][s].day <= now
    BY DEF TypeOK, Past, Marker
  <2> QED
    BY <2>1, <2>2, NumberAssumption DEF Days
<1> DEFINE Goal == mark'[u][s].day \in {mark[u][s].day, now, 0}
<1>2. ASSUME NEW v \in Users, NEW t \in Scopes, NEW m,
             m.day = now \/ m.day = mark[v][t].day,
             mark' = [mark EXCEPT ![v][t] = m]
      PROVE  Goal
  <2>1. mark'[u][s] = IF u = v /\ s = t THEN m ELSE mark[u][s]
    BY <1>2 DEF TypeOK
  <2> QED
    BY <1>2, <2>1
<1>3. ASSUME NEW p \in Procs, Suspend(p) \/ MarkBox(p) \/ Flip(p) PROVE Goal
  <2> DEFINE v == proc[p].user
             m == [state |-> "pending", day |-> now]
             n == [mark[v]["account"] EXCEPT !.state = "purged"]
  <2>1. v \in Users
    BY <1>3 DEF Suspend, MarkBox, Flip, At, HasUser, ErasedFirst
  <2>2. CASE Suspend(p)
    <3>1. mark' = [mark EXCEPT ![v]["account"] = m] /\ m.day = now
      BY <2>2 DEF Suspend
    <3>2. "account" \notin Scopes => UNCHANGED mark
      BY <2>1, <3>1 DEF TypeOK
    <3> QED
      BY <1>2, <2>1, <3>1, <3>2
  <2>3. CASE MarkBox(p)
    <3>1. PICK t \in proc[p].scopes : mark' = [mark EXCEPT ![v][t] = m]
      BY <2>3 DEF MarkBox
    <3>2. t \in Scopes /\ m.day = now
      BY DEF TypeOK, Local
    <3> QED
      BY <1>2, <2>1, <3>1, <3>2
  <2>4. CASE Flip(p)
    <3>1. mark' = [mark EXCEPT ![v]["account"].state = "purged"]
      BY <2>4 DEF Flip
    <3> QED
      BY <2>1, <3>1 DEF TypeOK, Marker
  <2> QED
    BY <1>3, <2>2, <2>3, <2>4
<1>3a. ASSUME NEW p \in Procs, RestoreSave(p) PROVE Goal
  <2>1. mark' = [mark EXCEPT ![proc[p].user] =
          [t \in Scopes |-> IF t \in proc[p].scopes THEN [state |-> "none", day |-> 0]
                                                    ELSE mark[proc[p].user][t]]]
    BY <1>3a DEF RestoreSave
  <2> QED
    BY <2>1 DEF TypeOK
<1>4. ASSUME NEW p \in Procs, Handler(p) PROVE Goal
  <2>1. CASE Suspend(p) \/ MarkBox(p) \/ Flip(p) \/ RestoreSave(p)
    BY <2>1, <1>3, <1>3a
  <2>2. CASE UNCHANGED mark
    BY <2>2
  <2> HIDE DEF Goal
  <2> QED
    BY <1>4, <2>1, <2>2
    DEF Handler, GuardLoad, GuardCount, SweepNext, EraseLoad, Lock,
        LockTimeout, SoftDeleteOwned, Scrub, Unlock, RestoreFind, RestoreNext,
        RestoreCount, RestoreWrite, Insert
<1>5. ASSUME NEW p \in Procs, Request(p) \/ Sweep(p) PROVE UNCHANGED mark
  BY <1>5 DEF Request, Schedule, Erase, Restore, ScheduleBox, RestoreOne, Create, Sweep
<1>6. ASSUME NEW p \in Procs, SoftDeleteFails(p) \/ Fail(p) \/ Crash(p) PROVE UNCHANGED mark
  BY <1>6 DEF SoftDeleteFails, Fail, Crash
<1>7. ASSUME Environment \/ UNCHANGED vars PROVE UNCHANGED mark
  BY <1>7 DEF Environment, vars, RemoveWorkspace, SetStatus, SetDeleted, Expire, NextDay
<1>8. UNCHANGED mark => Goal
  OBVIOUS
<1> HIDE DEF Goal
<1>9. Goal
  BY <1>4, <1>5, <1>6, <1>7, <1>8 DEF Next
<1> QED
  BY <1>1, <1>9 DEF Goal

(* What holds of a local state still holds after a step of another.        *)
LEMMA Carried ==
  ASSUME TypeOK, ErasedFirst, HasUser, DueInv, [Next]_vars,
         NEW h \in Local, Holds(h, user, mark, ws, now, overnight),
         h.pc \in Erasing \cup Guarding \cup {"restoreSave"} => h.user \in Users,
         now' = now \/ \E p \in Procs : h = proc[p]
  PROVE  Holds(h, user', mark', ws', now', overnight')
<1>1. now \in Nat /\ now' \in Nat /\ now <= now'
  BY DayStep
<1>2. LateOK(h, ws', now')
  <2> SUFFICES ASSUME h.flow = "restore" PROVE LateOK(h, ws', now')
    BY DEF LateOK
  <2>1. h.since \in Nat /\ h.since <= now
    BY DEF Holds, LateOK, Local, Days
  <2>2. ASSUME NEW w, Late(h, w, ws) PROVE Late(h, w, ws')
    BY <1>1, <2>1, <2>2, WorkspaceStep DEF Late
  <2>3. h.pc \in Restoring => \A w \in h.list : Late(h, w, ws')
    BY <2>2 DEF Holds, LateOK
  <2>4. h.pc \in {"restoreCount", "restoreWrite"} => Late(h, h.w, ws')
    BY <2>2 DEF Holds, LateOK
  <2> QED
    BY <1>1, <2>1, <2>3, <2>4 DEF LateOK
<1>3. Grace \in Nat
  BY NumberAssumption
<1>4. CASE NextDay
  <2>1. UNCHANGED <<user, mark>> /\ overnight' = overnight \cup {u \in Users : InHand(u)}
    BY <1>4 DEF NextDay
  <2>2. ASSUME NEW u \in Users, "account" \in Scopes, Due(u, mark, now) PROVE Due(u, mark', now')
    <3>1. mark[u]["account"].day \in Nat
      BY <2>2, NumberAssumption DEF TypeOK, Marker, Days
    <3> QED
      BY <1>1, <1>3, <2>1, <2>2, <3>1 DEF Due, Asked
  <2>3. h.flow = "finalize" =>
          /\ "account" \in Scopes
          /\ \A u \in h.todo : u \in overnight' \/ user'[u].scrubbed \/ Due(u, mark', now')
          /\ h.pc \in Erasing =>
               h.user \in overnight' \/ user'[h.user].scrubbed \/ Due(h.user, mark', now')
    <3>1. h.todo \subseteq Users
      BY DEF Local
    <3> QED
      BY <2>1, <2>2, <3>1 DEF Holds, DueOK
  <2>4. PICK p \in Procs : h = proc[p]
    BY <1>4, <1>1 DEF NextDay
  <2>5. h.flow = "schedule" /\ h.pc \in Guarding => h.user \in overnight'
    BY <2>1, <2>4 DEF InHand, Guarding
  <2>6. h.pc = "restoreSave" => h.user \in overnight'
    BY <2>1, <2>4 DEF InHand, At
  <2> QED
    BY <1>2, <2>3, <2>5, <2>6 DEF Holds, DueOK
<1>5. CASE UNCHANGED <<now, overnight>>
  <2>1. now' = now /\ overnight' = overnight
    BY <1>5
  <2>2. ASSUME NEW u \in Users, "account" \in Scopes, u \notin overnight
        PROVE  /\ mark[u]["account"].day \in Nat
               /\ \/ mark'[u]["account"] = mark[u]["account"]
                  \/ /\ Asked(u, mark') /\ mark'[u]["account"].day = now
                     /\ ~Asked(u, mark) \/ mark[u]["account"].day = now
                  \/ ~Asked(u, mark') /\ (user[u].scrubbed \/ ~Due(u, mark, now))
    <3>1. mark[u]["account"].day \in Nat
      BY <2>2, NumberAssumption DEF TypeOK, Marker, Days
    <3>2. \/ mark'[u]["account"] = mark[u]["account"]
          \/ /\ mark'[u]["account"] = [state |-> "pending", day |-> now]
             /\ ~Asked(u, mark) \/ mark[u]["account"].day = now
          \/ /\ mark'[u]["account"].state # "pending"
             /\ user[u].scrubbed \/ ~Due(u, mark, now)
      BY <1>5, <2>2, MarkStep
    <3> QED
      BY <3>1, <3>2 DEF Asked
  <2>3. ASSUME NEW u \in Users, "account" \in Scopes, u \notin overnight,
               user[u].scrubbed \/ Due(u, mark, now)
        PROVE  user'[u].scrubbed \/ Due(u, mark', now)
    <3>1. CASE user[u].scrubbed
      BY <3>1, ScrubbedStays
    <3> QED
      BY <1>1, <1>3, <2>2, <2>3, <3>1 DEF Due, Asked
  <2>4. h.flow = "finalize" =>
          /\ "account" \in Scopes
          /\ \A u \in h.todo : u \in overnight \/ user'[u].scrubbed \/ Due(u, mark', now)
          /\ h.pc \in Erasing =>
               h.user \in overnight \/ user'[h.user].scrubbed \/ Due(h.user, mark', now)
    <3>1. h.todo \subseteq Users
      BY DEF Local
    <3> QED
      BY <2>3, <3>1 DEF Holds, DueOK
  <2>5. h.flow = "schedule" /\ h.pc \in Guarding =>
          /\ "account" \in Scopes
          /\ h.user \in overnight \/ ~Asked(h.user, mark') \/ mark'[h.user]["account"].day = now
    BY <2>2 DEF Holds, DueOK, Asked
  <2>6. ASSUME h.pc = "restoreSave", "account" \in h.scopes, h.user \notin overnight
        PROVE  Grace > 0 /\ ~Due(h.user, mark', now)
    <3>1. Grace > 0 /\ ~Due(h.user, mark, now) /\ "account" \in Scopes /\ h.user \in Users
      BY <2>6 DEF Holds, DueOK, Local
    <3> QED
      BY <1>1, <1>3, <2>2, <2>6, <3>1 DEF Due, Asked
  <2> QED
    BY <1>2, <2>1, <2>4, <2>5, <2>6 DEF Holds, DueOK
<1> QED
  BY <1>4, <1>5, DayStep

(* Handler p takes the local state h, which holds of what the step found.  *)
LEMMA TruthfulPut ==
  ASSUME StepInDay, NEW p \in Procs, NEW h, Put(p, h), Holds(h, user, mark, ws, now, overnight)
  PROVE  Truthful'
<1>1. TypeOK /\ ErasedFirst /\ HasUser /\ DueInv /\ [Next]_vars /\ now' = now
  BY DEF StepInDay
<1>2. proc'[p] = h /\ \A q \in Procs \ {p} : proc'[q] = proc[q]
  BY <1>1 DEF Put, TypeOK
<1>3. ASSUME NEW q \in Procs
      PROVE  /\ proc'[q] \in Local
             /\ proc'[q].pc \in Erasing \cup Guarding => proc'[q].user \in Users
  BY DEF StepInDay, TypeOK, HasUser, Erasing, Guarding
<1>4. ASSUME NEW q \in Procs PROVE Holds(proc'[q], user, mark, ws, now, overnight)
  BY <1>1, <1>2 DEF DueInv, Truthful
<1>5. ASSUME NEW q \in Procs PROVE Holds(proc'[q], user', mark', ws', now', overnight')
  <2>1. proc'[q].pc = "restoreSave" => proc'[q].user \in Users
    BY <1>4 DEF Holds, FlowOK
  <2> QED
    BY <1>1, <1>3, <1>4, <2>1, Carried
<1> QED
  BY <1>5 DEF Truthful

(* It keeps all but its step and the mutex.                                *)
LEMMA TruthfulTake ==
  ASSUME StepInDay, NEW p \in Procs, NEW h, Put(p, h),
         h.flow = proc[p].flow, h.user = proc[p].user, h.since = proc[p].since,
         h.scopes = proc[p].scopes, h.todo = proc[p].todo, h.list = proc[p].list,
         h.w = proc[p].w,
         h.pc \notin {"restoreSave", "box", "load"},
         h.pc = "lock" => At(p, "load"),
         h.pc = "suspend" => h.flow = "schedule",
         h.pc \in {"next", "flip"} => h.flow = "finalize",
         h.pc \in Restoring => proc[p].pc \in Restoring,
         h.pc \in {"restoreCount", "restoreWrite"} => proc[p].pc \in {"restoreCount", "restoreWrite"},
         h.pc \in Erasing /\ h.flow = "finalize" => proc[p].pc \in Erasing,
         h.pc \in Guarding /\ h.flow = "schedule" => proc[p].pc \in Guarding
  PROVE  Truthful'
<1>1. Holds(proc[p], user, mark, ws, now, overnight)
  BY DEF StepInDay, DueInv, Truthful
<1>2. LateOK(h, ws, now)
  BY <1>1 DEF Holds, LateOK, Late
<1>3. DueOK(h, user, mark, now, overnight)
  BY <1>1 DEF Holds, DueOK
<1>4. FlowOK(h)
  BY <1>1 DEF Holds, FlowOK, At
<1> QED
  BY <1>2, <1>3, <1>4, TruthfulPut DEF Holds

LEMMA TruthfulGoto ==
  ASSUME StepInDay, NEW p \in Procs, NEW pc, Goto(p, pc),
         pc \notin {"restoreSave", "box", "load", "flip"},
         pc = "next" => At(p, "flip"),
         pc = "lock" => At(p, "load"),
         pc = "suspend" => proc[p].flow = "schedule",
         pc \in Restoring => proc[p].pc \in Restoring,
         pc \in {"restoreCount", "restoreWrite"} => proc[p].pc \in {"restoreCount", "restoreWrite"},
         pc \in Erasing /\ proc[p].flow = "finalize" => proc[p].pc \in Erasing,
         pc \in Guarding /\ proc[p].flow = "schedule" => proc[p].pc \in Guarding
  PROVE  Truthful'
<1> DEFINE h == [proc[p] EXCEPT !.pc = pc]
<1>1. /\ h.pc = pc /\ h.flow = proc[p].flow /\ h.user = proc[p].user /\ h.since = proc[p].since
      /\ h.scopes = proc[p].scopes /\ h.todo = proc[p].todo /\ h.list = proc[p].list
      /\ h.w = proc[p].w
  BY DEF StepInDay, TypeOK, Local
<1>2. Put(p, h)
  BY DEF Goto
<1>3. At(p, "flip") => proc[p].flow = "finalize"
  BY DEF StepInDay, DueInv, Truthful, Holds, FlowOK, At
<1> HIDE DEF h
<1> QED
  BY <1>1, <1>2, <1>3, TruthfulTake

LEMMA IdleHolds ==
  ASSUME TypeOK
  PROVE  Holds(Idle, user, mark, ws, now, overnight)
<1>1. 0 <= now
  BY DEF TypeOK, Days
<1> QED
  BY <1>1 DEF Holds, LateOK, DueOK, FlowOK, Idle, Restoring

LEMMA TruthfulReturn ==
  ASSUME StepInDay, NEW p \in Procs, Return(p)
  PROVE  Truthful'
BY IdleHolds, TruthfulPut DEF Return, StepInDay

LEMMA TruthfulAbandon ==
  ASSUME StepInDay, NEW p \in Procs, Abandon(p) \/ Erased(p)
  PROVE  Truthful'
<1>1. CASE Return(p)
  BY <1>1, TruthfulReturn
<1>2. ASSUME proc[p].flow = "finalize", NEW pc \in {"next", "flip"},
             Put(p, [proc[p] EXCEPT !.pc = pc, !.locked = FALSE])
      PROVE  Truthful'
  <2> DEFINE h == [proc[p] EXCEPT !.pc = pc, !.locked = FALSE]
  <2>1. /\ h.pc = pc /\ h.flow = proc[p].flow /\ h.user = proc[p].user /\ h.since = proc[p].since
        /\ h.scopes = proc[p].scopes /\ h.todo = proc[p].todo /\ h.list = proc[p].list
        /\ h.w = proc[p].w
    BY DEF StepInDay, TypeOK, Local
  <2>2. Put(p, h)
    BY <1>2
  <2> HIDE DEF h
  <2> QED
    BY <1>2, <2>1, <2>2, TruthfulTake DEF Restoring, Erasing, Guarding
<1> QED
  BY <1>1, <1>2 DEF Abandon, Erased

LEMMA TruthfulLeave ==
  ASSUME StepInDay, NEW p \in Procs, Leave(p)
  PROVE  Truthful'
<1>1. CASE Goto(p, "bail")
  BY <1>1, TruthfulGoto DEF Restoring, Erasing, Guarding
<1> QED
  BY <1>1, TruthfulAbandon DEF Leave

(* A handler's step.                                                       *)
LEMMA TruthfulHandler ==
  ASSUME StepInDay, NEW p \in Procs, Handler(p)
  PROVE  Truthful'
<1> USE DEF Restoring, Erasing, Guarding, At
<1>1. /\ TypeOK /\ HasUser /\ proc[p] \in Local
      /\ LateOK(proc[p], ws, now) /\ DueOK(proc[p], user, mark, now, overnight) /\ FlowOK(proc[p])
  BY DEF StepInDay, TypeOK, DueInv, Truthful, Holds
<1>2. CASE GuardLoad(p) \/ GuardCount(p)
  BY <1>2, TruthfulGoto, TruthfulLeave DEF GuardLoad, GuardCount, AfterGuard
<1>3. CASE Suspend(p) \/ Insert(p)
  BY <1>3, TruthfulReturn DEF Suspend, Insert
<1>4. CASE MarkBox(p)
  BY <1>1, <1>4, TruthfulGoto, TruthfulReturn DEF MarkBox, FlowOK
<1>5. CASE SweepNext(p)
  <2>1. ASSUME NEW u \in proc[p].todo,
               Put(p, [proc[p] EXCEPT !.user = u, !.todo = @ \ {u}, !.pc = "load"])
        PROVE  Truthful'
    <3> DEFINE h == [proc[p] EXCEPT !.user = u, !.todo = @ \ {u}, !.pc = "load"]
    <3>1. /\ h.pc = "load" /\ h.user = u /\ h.todo = proc[p].todo \ {u}
          /\ h.flow = proc[p].flow /\ h.since = proc[p].since
      BY <1>1 DEF Local
    <3>2. proc[p].flow = "finalize"
      BY <1>1, <1>5 DEF SweepNext, FlowOK
    <3> HIDE DEF h
    <3>3. LateOK(h, ws, now) /\ FlowOK(h)
      BY <3>1, <3>2 DEF LateOK, FlowOK
    <3>4. DueOK(h, user, mark, now, overnight)
      BY <1>1, <3>1, <3>2 DEF DueOK
    <3>5. Holds(h, user, mark, ws, now, overnight)
      BY <3>3, <3>4 DEF Holds
    <3>6. Put(p, h)
      BY <2>1 DEF h
    <3> QED
      BY <3>5, <3>6, TruthfulPut
  <2> QED
    BY <1>5, <2>1, TruthfulReturn DEF SweepNext
<1>6. CASE EraseLoad(p)
  BY <1>1, <1>6, TruthfulGoto DEF EraseLoad, FlowOK
<1>7. CASE Lock(p)
  <2> DEFINE h == [proc[p] EXCEPT !.pc = "guardLoad", !.locked = TRUE]
  <2>1. /\ h.pc = "guardLoad" /\ h.flow = proc[p].flow /\ h.user = proc[p].user
        /\ h.since = proc[p].since /\ h.scopes = proc[p].scopes /\ h.todo = proc[p].todo
        /\ h.list = proc[p].list /\ h.w = proc[p].w
    BY <1>1 DEF Local
  <2>2. Put(p, h) /\ proc[p].pc = "lock" /\ h.flow # "schedule"
    BY <1>1, <1>7, <2>1 DEF Lock, FlowOK
  <2> HIDE DEF h
  <2> QED
    BY <2>1, <2>2, TruthfulTake
<1>8. CASE LockTimeout(p)
  BY <1>8, TruthfulAbandon DEF LockTimeout
<1>9. CASE SoftDeleteOwned(p)
  BY <1>9, TruthfulGoto, TruthfulReturn DEF SoftDeleteOwned
<1>10. CASE Scrub(p)
  BY <1>10, TruthfulGoto, TruthfulAbandon DEF Scrub
<1>11. CASE Unlock(p)
  BY <1>11, TruthfulAbandon DEF Unlock
<1>12. CASE Flip(p)
  BY <1>1, <1>12, TruthfulGoto DEF Flip, FlowOK
<1>13. CASE RestoreCount(p) \/ RestoreWrite(p)
  BY <1>13, TruthfulGoto DEF RestoreCount, RestoreWrite
<1>14. CASE RestoreSave(p)
  BY <1>14, TruthfulGoto, TruthfulReturn DEF RestoreSave
<1>15. CASE RestoreFind(p)
  <2> DEFINE l == {w \in Owned(proc[p].user) : ws[w].state = "deleted" /\ ws[w].day >= proc[p].since}
             h == [proc[p] EXCEPT !.pc = "restoreNext", !.list = l]
  <2>1. h.pc = "restoreNext" /\ h.list = l /\ h.flow = proc[p].flow /\ h.since = proc[p].since
    BY <1>1 DEF Local
  <2>2. Put(p, h)
    BY <1>15 DEF RestoreFind
  <2>3. \A w \in l : Late(h, w, ws)
    BY <2>1 DEF Late, Owned
  <2> HIDE DEF h, l
  <2>4. LateOK(h, ws, now)
    BY <1>1, <2>1, <2>3 DEF LateOK
  <2>5. DueOK(h, user, mark, now, overnight)
    <3>1. h.todo = proc[p].todo
      BY <1>1 DEF h, Local
    <3> QED
      BY <1>1, <2>1, <3>1 DEF DueOK
  <2>6. FlowOK(h)
    BY <2>1 DEF FlowOK
  <2> QED
    BY <2>2, <2>4, <2>5, <2>6, TruthfulPut DEF Holds
<1>16. CASE RestoreNext(p)
  <2>1. ASSUME NEW w \in proc[p].list, NEW pc \in {"restoreCount", "restoreNext"},
               Put(p, [proc[p] EXCEPT !.list = @ \ {w}, !.w = w, !.pc = pc])
        PROVE  Truthful'
    <3> DEFINE h == [proc[p] EXCEPT !.list = @ \ {w}, !.w = w, !.pc = pc]
    <3>1. /\ h.pc = pc /\ h.list = proc[p].list \ {w} /\ h.w = w /\ h.flow = proc[p].flow
          /\ h.since = proc[p].since /\ h.todo = proc[p].todo
      BY <1>1 DEF Local
    <3>2. Put(p, h)
      BY <2>1
    <3> HIDE DEF h
    <3>3. h.flow = "restore" => \A v \in proc[p].list : Late(h, v, ws)
      BY <1>1, <1>16, <3>1 DEF RestoreNext, LateOK, Late
    <3>4. LateOK(h, ws, now)
      BY <1>1, <3>1, <3>3 DEF LateOK
    <3>5. DueOK(h, user, mark, now, overnight)
      BY <1>1, <3>1 DEF DueOK
    <3>6. FlowOK(h)
      BY <3>1 DEF FlowOK
    <3> QED
      BY <3>2, <3>4, <3>5, <3>6, TruthfulPut DEF Holds
  <2>2. ASSUME NEW w \in proc[p].list,
               Put(p, [proc[p] EXCEPT !.list = @ \ {w}, !.w = w,
                         !.pc = IF ws[w].state = "deleted" /\ now <= ws[w].day + Grace
                                  THEN "restoreCount" ELSE "restoreNext"])
        PROVE  Truthful'
    BY <2>1, <2>2
  <2> QED
    BY <1>16, <2>2, TruthfulReturn DEF RestoreNext
<1> QED
  BY <1>2, <1>3, <1>4, <1>5, <1>6, <1>7, <1>8, <1>9, <1>10, <1>11, <1>12, <1>13, <1>14, <1>15,
     <1>16 DEF Handler

(* A call begins with what it has checked.                                 *)
LEMMA TruthfulRequest ==
  ASSUME StepInDay, NEW p \in Procs, Request(p) \/ Sweep(p)
  PROVE  Truthful'
<1> USE DEF Restoring, Erasing, Guarding, Begin
<1>1. now \in Nat /\ Grace \in Nat /\ 0 <= now
  BY NumberAssumption DEF StepInDay, TypeOK, Days
<1>2. ASSUME NEW u \in Users, Schedule(p, u) PROVE Truthful'
  <2> DEFINE h == [Idle EXCEPT !.flow = "schedule", !.pc = "guardLoad", !.user = u]
  <2>1. Holds(h, user, mark, ws, now, overnight)
    BY <1>2 DEF Schedule, Holds, LateOK, DueOK, FlowOK, Idle, Pending, Asked
  <2> QED
    BY <1>2, <2>1, TruthfulPut DEF Schedule
<1>3. ASSUME NEW u \in Users, NEW s \in Scopes, ScheduleBox(p, u, s) PROVE Truthful'
  <2> DEFINE h == [Idle EXCEPT !.flow = "schedule", !.pc = "box", !.user = u, !.scopes = {s}]
  <2>1. Holds(h, user, mark, ws, now, overnight)
    BY <1>3 DEF ScheduleBox, Holds, LateOK, DueOK, FlowOK, Idle
  <2> QED
    BY <1>3, <2>1, TruthfulPut DEF ScheduleBox
<1>4. ASSUME NEW u \in Users, Erase(p, u) PROVE Truthful'
  <2> DEFINE h == [Idle EXCEPT !.flow = "erase", !.pc = "load", !.user = u]
  <2>1. Holds(h, user, mark, ws, now, overnight)
    BY DEF Holds, LateOK, DueOK, FlowOK, Idle
  <2> QED
    BY <1>4, <2>1, TruthfulPut DEF Erase
<1>5. ASSUME NEW u \in Users, Restore(p, u) PROVE Truthful'
  <2> DEFINE d == IF "erp" \in PendingScopes(u) THEN mark[u]["erp"].day ELSE 0
             h == [Idle EXCEPT !.flow = "restore", !.pc = "restoreSave", !.user = u,
                               !.scopes = PendingScopes(u), !.since = d]
  <2>1. d <= now
    BY <1>1 DEF StepInDay, DueInv, Past, PendingScopes
  <2>2. /\ h.pc = "restoreSave" /\ h.flow = "restore" /\ h.user = u
        /\ h.scopes = PendingScopes(u) /\ h.since = d
    BY DEF Idle
  <2>3. Put(p, h)
    BY <1>5 DEF Restore
  <2>4. "account" \in PendingScopes(u) => Grace > 0 /\ ~Due(u, mark, now)
    <3> SUFFICES ASSUME "account" \in PendingScopes(u) PROVE Grace > 0 /\ ~Due(u, mark, now)
      OBVIOUS
    <3>1. "account" \in Scopes
      BY DEF PendingScopes
    <3>2. ~(mark[u]["account"].day + Grace <= now)
      BY <1>5 DEF Restore, Recoverable, Elapsed
    <3>3. mark[u]["account"].day \in Nat /\ mark[u]["account"].day <= now
      BY <3>1 DEF StepInDay, DueInv, Past, TypeOK, Marker, Days
    <3> QED
      BY <1>1, <3>2, <3>3 DEF Due
  <2> HIDE DEF h, d
  <2>5. Holds(h, user, mark, ws, now, overnight)
    BY <2>1, <2>2, <2>4 DEF Holds, LateOK, DueOK, FlowOK
  <2> QED
    BY <2>3, <2>5, TruthfulPut
<1>6. ASSUME NEW w \in Workspaces, RestoreOne(p, w) PROVE Truthful'
  <2> DEFINE h == [Idle EXCEPT !.flow = "restoreWs", !.pc = "restoreNext",
                               !.user = OwnerOf[w], !.list = {w}]
  <2>1. Holds(h, user, mark, ws, now, overnight)
    BY DEF Holds, LateOK, DueOK, FlowOK, Idle
  <2> QED
    BY <1>6, <2>1, TruthfulPut DEF RestoreOne
<1>7. ASSUME NEW w \in Workspaces, Create(p, w) PROVE Truthful'
  <2> DEFINE h == [Idle EXCEPT !.flow = "create", !.pc = "insert", !.user = OwnerOf[w],
                               !.w = w]
  <2>1. Holds(h, user, mark, ws, now, overnight)
    BY DEF Holds, LateOK, DueOK, FlowOK, Idle
  <2> QED
    BY <1>7, <2>1, TruthfulPut DEF Create
<1>8. CASE Sweep(p)
  <2> DEFINE due == {u \in Users : Pending(u, "account") /\ Elapsed(u, "account")}
             h == [Idle EXCEPT !.flow = "finalize", !.pc = "next", !.since = now, !.todo = due]
  <2>1. h.pc = "next" /\ h.flow = "finalize" /\ h.todo = due
    BY DEF Idle
  <2>2. \A u \in due : Due(u, mark, now)
    BY DEF Due, Asked, Pending, Elapsed
  <2>3. Put(p, h) /\ "account" \in Scopes
    BY <1>8 DEF Sweep
  <2> HIDE DEF h, due
  <2>4. Holds(h, user, mark, ws, now, overnight)
    BY <2>1, <2>2, <2>3 DEF Holds, LateOK, DueOK, FlowOK
  <2> QED
    BY <2>3, <2>4, TruthfulPut
<1> QED
  BY <1>2, <1>3, <1>4, <1>5, <1>6, <1>7, <1>8 DEF Request

(* The invariant is inductive.                                             *)
LEMMA DueInvStep ==
  ASSUME TypeOK, TypeOK', ErasedFirst, HasUser, DueInv, [Next]_vars
  PROVE  DueInv'
<1>1. HasUser' /\ Past'
  BY HoldsStep, PastStep DEF DueInv
<1>2. ASSUME now' = now PROVE StepInDay
  BY <1>1, <1>2 DEF StepInDay
<1>3. ASSUME UNCHANGED proc PROVE Truthful'
  <2>1. ASSUME NEW q \in Procs PROVE Holds(proc[q], user', mark', ws', now', overnight')
    <3>1. proc[q] \in Local /\ Holds(proc[q], user, mark, ws, now, overnight)
      BY DEF TypeOK, DueInv, Truthful
    <3>2. proc[q].pc \in Erasing \cup Guarding \cup {"restoreSave"} => proc[q].user \in Users
      BY <3>1 DEF HasUser, Erasing, Guarding, Holds, FlowOK
    <3> QED
      BY <3>1, <3>2, Carried
  <2> QED
    BY <1>3, <2>1 DEF Truthful
<1>4. ASSUME NEW p \in Procs, Handler(p) PROVE Truthful'
  <2>1. now' = now
    BY <1>4
    DEF Handler, GuardLoad, GuardCount, Suspend, MarkBox, SweepNext, EraseLoad,
        Lock, LockTimeout, SoftDeleteOwned, Scrub, Unlock, Flip, RestoreSave,
        RestoreFind, RestoreNext, RestoreCount, RestoreWrite, Insert
  <2> QED
    BY <1>2, <1>4, <2>1, TruthfulHandler
<1>5. ASSUME NEW p \in Procs, Request(p) \/ Sweep(p) PROVE Truthful'
  <2>1. now' = now
    BY <1>5 DEF Request, Schedule, Erase, Restore, ScheduleBox, RestoreOne, Create, Sweep
  <2> QED
    BY <1>2, <1>5, <2>1, TruthfulRequest
<1>6. ASSUME NEW p \in Procs, SoftDeleteFails(p) \/ Fail(p) \/ Crash(p) PROVE Truthful'
  <2>1. StepInDay
    BY <1>2, <1>6 DEF SoftDeleteFails, Fail, Crash
  <2>2. CASE SoftDeleteFails(p)
    BY <2>1, <2>2, TruthfulGoto, TruthfulReturn
    DEF SoftDeleteFails, At, Restoring, Erasing, Guarding
  <2>3. CASE Fail(p)
    BY <2>1, <2>3, TruthfulGoto, TruthfulLeave DEF Fail, Restoring, Erasing, Guarding
  <2>4. CASE Crash(p)
    BY <2>1, <2>4, TruthfulReturn DEF Crash
  <2> QED
    BY <1>6, <2>2, <2>3, <2>4
<1>7. ASSUME Environment \/ UNCHANGED vars PROVE UNCHANGED proc
  BY <1>7 DEF Environment, vars, RemoveWorkspace, SetStatus, SetDeleted, Expire, NextDay
<1>8. Truthful'
  BY <1>3, <1>4, <1>5, <1>6, <1>7 DEF Next
<1> QED
  BY <1>1, <1>8 DEF DueInv

LEMMA DueInvAlways == Spec => [](TypeOK /\ DueInv)
<1>1. Init => ErasedFirst /\ HasUser /\ DueInv
  <2> SUFFICES ASSUME Init PROVE ErasedFirst /\ HasUser /\ DueInv
    OBVIOUS
  <2>1. ErasedFirst /\ HasUser
    BY DEF Init, ErasedFirst, HasUser, Idle
  <2>2. Past
    BY DEF Init, Past
  <2>3. Holds(Idle, user, mark, ws, now, overnight)
    BY DEF Init, Holds, LateOK, DueOK, FlowOK, Idle, Restoring
  <2>4. Truthful
    BY <2>3 DEF Init, Truthful
  <2> QED
    BY <2>1, <2>2, <2>4 DEF DueInv
<1>2. TypeOK /\ TypeOK' /\ ErasedFirst /\ HasUser /\ DueInv /\ [Next]_vars
        => (ErasedFirst /\ HasUser /\ DueInv)'
  BY HoldsStep, DueInvStep
<1> QED
  BY <1>1, <1>2, TypeCorrect, PTL DEF Spec

(* A recovery leaves alone what its owner had deleted before asking for    *)
(* the deletion: what restoreAllOwnedForRecovery found deleted since then  *)
(* can only be restored or deleted again, later, while it works.           *)
THEOREM RecoveryKeepsEarlier == Spec => RecoveryLeavesEarlier
<1>1. DueInv => [\A p \in Procs, w \in Workspaces :
                   /\ proc[p].flow = "restore" /\ At(p, "restoreWrite") /\ proc[p].w = w
                   /\ ws[w].state = "deleted" /\ ws'[w].state = "live"
                   => ws[w].day >= proc[p].since]_vars
  BY DEF DueInv, Truthful, Holds, LateOK, Late, At
<1> QED
  BY <1>1, DueInvAlways, PTL DEF RecoveryLeavesEarlier

(* The sweep erases nobody whose deletion is not pending and due, except   *)
(* users that were being scheduled or recovered when some day began:       *)
(* finalizeDuePending may run for days over its list, in parallel with     *)
(* recoveries, schedules and other erasures, and never looks again.        *)
THEOREM SweepKeepsToDue == Spec => SweepErasesDue
<1>1. TypeOK /\ DueInv
        => [\A p \in Procs, u \in Users :
              /\ proc[p].flow = "finalize" /\ At(p, "scrub") /\ proc[p].user = u
              /\ ~user[u].scrubbed /\ user'[u].scrubbed
              => u \in overnight \/ (Pending(u, "account") /\ Elapsed(u, "account"))]_vars
  BY DEF DueInv, Truthful, Holds, DueOK, Due, Asked, Erasing, At, Pending, Elapsed
<1> QED
  BY <1>1, DueInvAlways, PTL DEF SweepErasesDue
=============================================================================

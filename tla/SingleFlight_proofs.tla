-------------------------- MODULE SingleFlight_proofs --------------------------
(* Proofs about SingleFlight, for any number of calls, keys and crashes.      *)
EXTENDS SingleFlight, TLAPS

USE DEF Progress

(* Lock, calls and counters stay within their types: the functions of the     *)
(* service only ever store the token of a call under its key.                 *)
THEOREM TypeCorrect == Spec => []TypeOK
<1>1. Init => TypeOK
  BY CrashAssumption DEF Init, TypeOK
<1>2. TypeOK /\ [Next]_vars => TypeOK'
  <2> SUFFICES ASSUME TypeOK, [Next]_vars PROVE TypeOK'
    OBVIOUS
  <2>1. ASSUME NEW c \in Calls, Step(c) PROVE TypeOK'
    BY <2>1, KeyAssumption
    DEF TypeOK, Step, Acquire, Skip, Poll, GiveUp, Finish, Release, ReleaseFails
  <2>2. ASSUME NEW c \in Calls, Crash(c) PROVE TypeOK'
    BY <2>2 DEF TypeOK, Crash
  <2>3. ASSUME NEW k \in Keys, Expire(k) PROVE TypeOK'
    BY <2>3 DEF TypeOK, Expire
  <2>4. ASSUME NEW c \in Calls, SetFails(c) PROVE TypeOK'
    BY <2>4, KeyAssumption DEF TypeOK, SetFails
  <2>5. CASE UNCHANGED vars
    BY <2>5 DEF TypeOK, vars
  <2> QED
    BY <2>1, <2>2, <2>3, <2>4, <2>5 DEF Next
<1> QED
  BY <1>1, <1>2, PTL DEF Spec

(* A call that runs, or is about to release, and whose key has not expired    *)
(* under it still finds its own token there.                                  *)
HoldsItsLock ==
  \A c \in Calls : call[c] \in {"running", "releasing"} /\ c \notin late => Held(c)

LEMMA HoldersHold == Spec => []HoldsItsLock
<1>1. Init => HoldsItsLock
  BY DEF Init, HoldsItsLock
<1>2. TypeOK /\ HoldsItsLock /\ [Next]_vars => HoldsItsLock'
  <2> SUFFICES ASSUME TypeOK, HoldsItsLock, [Next]_vars,
                      NEW d \in Calls, call'[d] \in {"running", "releasing"}, d \notin late'
               PROVE  lock'[KeyOf[d]] = d
    BY DEF HoldsItsLock, Held
  <2> KeyOf[d] \in Keys
    BY KeyAssumption
  <2>1. ASSUME NEW c \in Calls, Acquire(c) PROVE lock'[KeyOf[d]] = d
    <3> KeyOf[c] \in Keys
      BY KeyAssumption
    <3>1. CASE c = d
      BY <2>1, <3>1 DEF Acquire, TypeOK
    <3>2. CASE c # d
      (* d held its key, which was free: so it is another key. *)
      <4>1. lock[KeyOf[d]] = d
        BY <2>1, <3>2 DEF Acquire, TypeOK, HoldsItsLock, Held
      <4>2. KeyOf[d] # KeyOf[c]
        BY <2>1, <4>1, NobodyAssumption DEF Acquire
      <4> QED
        BY <2>1, <4>1, <4>2 DEF Acquire, TypeOK
    <3> QED
      BY <3>1, <3>2
  <2>2. ASSUME NEW c \in Calls, Release(c) PROVE lock'[KeyOf[d]] = d
    <3>1. c # d
      BY <2>2 DEF Release, TypeOK
    <3>2. lock[KeyOf[d]] = d
      BY <2>2, <3>1 DEF Release, TypeOK, HoldsItsLock, Held
    <3>3. CASE Held(c)
      <4>1. KeyOf[d] # KeyOf[c]
        BY <3>1, <3>2, <3>3 DEF Held
      <4> QED
        BY <2>2, <3>2, <4>1 DEF Release, TypeOK
    <3>4. CASE ~Held(c)
      BY <2>2, <3>2, <3>4 DEF Release
    <3> QED
      BY <3>3, <3>4
  <2>3. ASSUME NEW c \in Calls,
               Skip(c) \/ Poll(c) \/ GiveUp(c) \/ Finish(c) \/ ReleaseFails(c) \/ Crash(c)
        PROVE  lock'[KeyOf[d]] = d
    BY <2>3 DEF Skip, Poll, GiveUp, Finish, ReleaseFails, Crash, TypeOK, HoldsItsLock, Held
  <2>4. ASSUME NEW k \in Keys, Expire(k) PROVE lock'[KeyOf[d]] = d
    (* The token that goes away is that of a call which is late from now on. *)
    BY <2>4 DEF Expire, TypeOK, HoldsItsLock, Held
  <2>5. ASSUME NEW c \in Calls, SetFails(c) PROVE lock'[KeyOf[d]] = d
    <3>1. c # d
      BY <2>5 DEF SetFails, TypeOK
    <3>2. lock[KeyOf[d]] = d
      BY <2>5, <3>1 DEF SetFails, TypeOK, HoldsItsLock, Held
    <3>3. KeyOf[d] # KeyOf[c] \/ lock[KeyOf[c]] # Nobody
      BY <3>2, NobodyAssumption
    <3> QED
      BY <2>5, <3>2, <3>3 DEF SetFails, TypeOK
  <2>6. CASE UNCHANGED vars
    BY <2>6 DEF vars, HoldsItsLock, Held
  <2> QED
    BY <2>1, <2>2, <2>3, <2>4, <2>5, <2>6 DEF Next, Step
<1> QED
  BY <1>1, <1>2, TypeCorrect, PTL DEF Spec

(* Two calls run the function of one key at a time only if one of them has    *)
(* outlived its lock: each of the others has its token under the key, and the *)
(* key has room for one.                                                      *)
THEOREM Exclusion == Spec => []MutualExclusion
<1>1. HoldsItsLock => MutualExclusion
  BY DEF HoldsItsLock, MutualExclusion, Held
<1> QED
  BY <1>1, HoldersHold, PTL

(* Calls that end, or die, within the time to live of their lock.             *)
Punctual == \A c \in Calls : call[c] \in {"running", "releasing"} => c \notin late

(* When no function outlives its lock, exclusion is unconditional.            *)
THEOREM StrictExclusion ==
  ASSUME Overrun = FALSE
  PROVE  Spec => [](\A c, d \in Calls : call[c] = "running" /\ call[d] = "running"
                                        /\ KeyOf[c] = KeyOf[d] => c = d)
<1> DEFINE Fresh == \A c \in Calls : call[c] \in {"idle", "polling"} => c \notin late
           Token == \A k \in Keys : lock[k] # Nobody
                       => call[lock[k]] \notin {"idle", "polling"}
           Inv == Punctual /\ Fresh /\ Token
<1>1. Init => Inv
  BY DEF Init, Punctual
<1>2. TypeOK /\ Inv /\ [Next]_vars => Inv'
  <2> SUFFICES ASSUME TypeOK, Inv, [Next]_vars PROVE Inv'
    OBVIOUS
  <2> USE DEF Punctual, TypeOK
  <2>1. ASSUME NEW c \in Calls, Step(c) PROVE Inv'
    <3>1. CASE Acquire(c)
      BY <3>1, KeyAssumption DEF Acquire
    <3>2. CASE Skip(c) \/ Poll(c) \/ GiveUp(c)
      BY <3>2 DEF Skip, Poll, GiveUp
    <3>3. CASE Finish(c) \/ ReleaseFails(c)
      BY <3>3 DEF Finish, ReleaseFails
    <3>4. CASE Release(c)
      BY <3>4, KeyAssumption DEF Release
    <3> QED
      BY <2>1, <3>1, <3>2, <3>3, <3>4 DEF Step
  <2>2. ASSUME NEW c \in Calls, Crash(c) PROVE Inv'
    BY <2>2 DEF Crash
  <2>3. ASSUME NEW k \in Keys, Expire(k) PROVE Inv'
    BY <2>3 DEF Expire
  <2>4. ASSUME NEW c \in Calls, SetFails(c) PROVE Inv'
    BY <2>4, KeyAssumption DEF SetFails
  <2>5. CASE UNCHANGED vars
    BY <2>5 DEF vars
  <2> QED
    BY <2>1, <2>2, <2>3, <2>4, <2>5 DEF Next
<1>3. Inv /\ MutualExclusion =>
        \A c, d \in Calls : call[c] = "running" /\ call[d] = "running"
                            /\ KeyOf[c] = KeyOf[d] => c = d
  BY DEF Punctual, MutualExclusion
<1> QED
  BY <1>1, <1>2, <1>3, TypeCorrect, Exclusion, PTL DEF Spec
=============================================================================

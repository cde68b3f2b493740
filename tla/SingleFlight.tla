----------------------------- MODULE SingleFlight -----------------------------
(***************************************************************************)
(* SingleFlightService (src/src/common/scheduler): the Redis lock that     *)
(* keeps a scheduled occurrence from running on two workers at a time      *)
(* (runExclusive) and serialises short critical sections (withLock).       *)
(*                                                                         *)
(* A call writes a token of its own under the key with SET NX PX, runs the *)
(* function, and deletes the key if it still holds the token.  The key     *)
(* goes away by itself when its time to live is over.                      *)
(***************************************************************************)
EXTENDS Integers, FiniteSets

CONSTANTS Calls,      \* calls ever made; the call is the token randomUUID gives it
          Keys,       \* lock names: a job and its period, or a mutex
          KeyOf,      \* the key each call asks for
          Waiting,    \* calls of withLock; the others are of runExclusive
          Overrun,    \* TRUE: a function may outlive the time to live of its lock
          MaxCrashes, \* bound on workers that die while they run the function
          Nobody      \* a key that does not exist

ASSUME KeyAssumption == KeyOf \in [Calls -> Keys]
ASSUME WaitingAssumption == Waiting \subseteq Calls
ASSUME NobodyAssumption == Nobody \notin Calls
ASSUME OverrunAssumption == Overrun \in BOOLEAN
ASSUME CrashAssumption == MaxCrashes \in Nat

VARIABLES lock,     \* the token stored under each key
          call,     \* progress of each call
          late,     \* calls whose key expired before they released it
          crashes

vars == <<lock, call, late, crashes>>

Progress == {"idle", "polling", "running", "releasing", "done", "skipped", "failed", "dead"}

TypeOK == /\ lock \in [Keys -> Calls \cup {Nobody}]
          /\ call \in [Calls -> Progress]
          /\ late \subseteq Calls
          /\ crashes \in Nat

Init == /\ lock = [k \in Keys |-> Nobody]
        /\ call = [c \in Calls |-> "idle"]
        /\ late = {}
        /\ crashes = 0

Held(c) == lock[KeyOf[c]] = c

-----------------------------------------------------------------------------
(* Mutant: a poll does not try to SET again.                               *)
Acquire_Once(c) ==
  /\ call[c] = "idle"
  /\ lock[KeyOf[c]] = Nobody
  /\ lock' = [lock EXCEPT ![KeyOf[c]] = c]
  /\ call' = [call EXCEPT ![c] = "running"]
  /\ UNCHANGED <<late, crashes>>

(* SET key token NX PX answers OK.                                         *)
Acquire(c) ==
  /\ call[c] \in {"idle", "polling"}
  /\ lock[KeyOf[c]] = Nobody
  /\ lock' = [lock EXCEPT ![KeyOf[c]] = c]
  /\ call' = [call EXCEPT ![c] = "running"]
  /\ UNCHANGED <<late, crashes>>

(* runExclusive: the occurrence is claimed, this worker skips it.          *)
Skip(c) ==
  /\ c \notin Waiting
  /\ call[c] = "idle"
  /\ lock[KeyOf[c]] # Nobody
  /\ call' = [call EXCEPT ![c] = "skipped"]
  /\ UNCHANGED <<lock, late, crashes>>

(* withLock: sleep and try again...                                        *)
Poll(c) ==
  /\ c \in Waiting
  /\ call[c] = "idle"
  /\ lock[KeyOf[c]] # Nobody
  /\ call' = [call EXCEPT ![c] = "polling"]
  /\ UNCHANGED <<lock, late, crashes>>

(* ... until the deadline, then throw.                                     *)
GiveUp(c) ==
  /\ call[c] = "polling"
  /\ lock[KeyOf[c]] # Nobody
  /\ call' = [call EXCEPT ![c] = "failed"]
  /\ UNCHANGED <<lock, late, crashes>>

(* fn() returns or throws: finally releases either way.                    *)
Finish(c) ==
  /\ call[c] = "running"
  /\ call' = [call EXCEPT ![c] = "releasing"]
  /\ UNCHANGED <<lock, late, crashes>>

(* Mutant: the key is deleted whatever it holds.                           *)
Release_Unchecked(c) ==
  /\ call[c] = "releasing"
  /\ call' = [call EXCEPT ![c] = "done"]
  /\ lock' = [lock EXCEPT ![KeyOf[c]] = Nobody]
  /\ UNCHANGED <<late, crashes>>

(* The compare-and-delete script.                                          *)
Release(c) ==
  /\ call[c] = "releasing"
  /\ call' = [call EXCEPT ![c] = "done"]
  /\ lock' = IF Held(c) THEN [lock EXCEPT ![KeyOf[c]] = Nobody] ELSE lock
  /\ UNCHANGED <<late, crashes>>

(* The script cannot be sent: a warning, the time to live will do it.      *)
ReleaseFails(c) ==
  /\ call[c] = "releasing"
  /\ call' = [call EXCEPT ![c] = "done"]
  /\ UNCHANGED <<lock, late, crashes>>

(* The connection to Redis fails and set throws: the key may have been     *)
(* written all the same, and nobody releases it.                           *)
SetFails(c) ==
  /\ call[c] \in {"idle", "polling"}
  /\ call' = [call EXCEPT ![c] = "failed"]
  /\ \/ UNCHANGED lock
     \/ lock[KeyOf[c]] = Nobody /\ lock' = [lock EXCEPT ![KeyOf[c]] = c]
  /\ UNCHANGED <<late, crashes>>

(* The worker dies while it runs fn.                                       *)
Crash(c) ==
  /\ call[c] = "running"
  /\ crashes < MaxCrashes
  /\ crashes' = crashes + 1
  /\ call' = [call EXCEPT ![c] = "dead"]
  /\ UNCHANGED <<lock, late>>

(* The time to live is over.                                               *)
Expire(k) ==
  /\ lock[k] # Nobody
  /\ Overrun \/ call[lock[k]] \notin {"running", "releasing"}
  /\ lock' = [lock EXCEPT ![k] = Nobody]
  /\ late' = late \cup {lock[k]}
  /\ UNCHANGED <<call, crashes>>

Step(c) == \/ Acquire(c) \/ Skip(c) \/ Poll(c) \/ GiveUp(c)
           \/ Finish(c) \/ Release(c) \/ ReleaseFails(c)

Next == \/ \E c \in Calls : Step(c) \/ SetFails(c) \/ Crash(c)
        \/ \E k \in Keys : Expire(k)

Spec == Init /\ [][Next]_vars

(* The workers keep running; Redis expires keys.                           *)
Fairness == /\ \A c \in Calls : WF_vars(Step(c))
            /\ \A k \in Keys : WF_vars(Expire(k))

LiveSpec == Spec /\ Fairness

-----------------------------------------------------------------------------
(* Two workers never run the function of one key at the same time, unless  *)
(* one of them has outlived the time to live of its lock: a slow run that  *)
(* lost its lock does not, when it ends, take away the lock of the run     *)
(* that came after it and so let a third one in.                           *)
MutualExclusion ==
  \A c, d \in Calls :
    call[c] = "running" /\ call[d] = "running" /\ KeyOf[c] = KeyOf[d] /\ c # d
      => c \in late \/ d \in late

(* A caller that waits gets an answer, also behind a worker that died or   *)
(* could not release: withLock tries SET again at every poll and throws    *)
(* at its deadline.                                                        *)
WaiterAnswered ==
  \A c \in Calls : call[c] = "polling" ~> call[c] \in {"done", "failed", "dead"}

=============================================================================

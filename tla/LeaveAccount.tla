----------------------------- MODULE LeaveAccount -----------------------------
(***************************************************************************)
(* What the leave ledger service promises to its callers                   *)
(* (src/src/modules/leave/leave-ledger.service.ts): a bucket is an         *)
(* append-only log of entries and a counter of reserved days.  A call      *)
(* takes effect once, before it is answered; a call that is refused has    *)
(* no effect; one that is cut short may have had its effect, once, or none. *)
(***************************************************************************)
EXTENDS Integers, Sequences

CONSTANTS Callers, Entries, Deltas

VARIABLES log,      \* entries of the bucket, in the order of their seq
          pending,  \* days reserved
          phase     \* of the call each caller makes

vars == <<log, pending, phase>>

Phases == {"rest", "asked", "done", "answered", "refused"}

Init == /\ log = <<>>
        /\ pending = 0
        /\ phase = [p \in Callers |-> "rest"]

Ask(p) ==
  /\ phase[p] = "rest"
  /\ phase' = [phase EXCEPT ![p] = "asked"]
  /\ UNCHANGED <<log, pending>>

Post(p, e) ==
  /\ phase[p] = "asked"
  /\ log' = Append(log, e)
  /\ phase' = [phase EXCEPT ![p] = "done"]
  /\ UNCHANGED pending

Reserve(p, d) ==
  /\ phase[p] = "asked"
  /\ pending' = pending + d
  /\ phase' = [phase EXCEPT ![p] = "done"]
  /\ UNCHANGED log

Answer(p) ==
  /\ phase[p] = "done"
  /\ phase' = [phase EXCEPT ![p] = "answered"]
  /\ UNCHANGED <<log, pending>>

Refuse(p) ==
  /\ phase[p] = "asked"
  /\ phase' = [phase EXCEPT ![p] = "refused"]
  /\ UNCHANGED <<log, pending>>

Next == \E p \in Callers :
          \/ Ask(p) \/ Answer(p) \/ Refuse(p)
          \/ \E e \in Entries : Post(p, e)
          \/ \E d \in Deltas : Reserve(p, d)

Spec == Init /\ [][Next]_vars
=============================================================================

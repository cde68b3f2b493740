--------------------------- MODULE LeaveRequestCalls ---------------------------
(***************************************************************************)
(* LeaveRequest when handlers may be known not to overlap: what the ledger *)
(* and the balance keep as long as one handler is through before the next  *)
(* begins.                                                                 *)
(***************************************************************************)
EXTENDS LeaveRequest

VARIABLE alone   \* one handler at a time

callVars == <<rvars, alone>>

OneAtATime == \A p, q \in Callers : Busy(p)' /\ Busy(q)' => p = q

CallsInit == RequestInit /\ alone \in BOOLEAN
CallsNext == RequestNext /\ (alone => OneAtATime) /\ UNCHANGED alone

CallsSpec == CallsInit /\ [][CallsNext]_callVars

-----------------------------------------------------------------------------
(* With one handler at a time, any of which may die, the year is credited  *)
(* once; and while none died the balance that handlers leave behind is the *)
(* fold of the ledger, and never below zero.                               *)
SerialAccountKept == alone => AccountKept
=============================================================================

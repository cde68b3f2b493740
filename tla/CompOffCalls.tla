----------------------------- MODULE CompOffCalls -----------------------------
(***************************************************************************)
(* CompOff when handlers may be known not to overlap: what the code gets   *)
(* right as long as one call, or the job, is through before the next.      *)
(***************************************************************************)
EXTENDS CompOff

VARIABLE alone   \* one handler at a time

callVars == <<vars, alone>>

OneAtATime ==
  \A p, q \in Callers : handler'[p].pc # "rest" /\ handler'[q].pc # "rest" => p = q

CallsInit == Init /\ alone \in BOOLEAN
CallsNext == Next /\ (alone => OneAtATime) /\ UNCHANGED alone

CallsSpec == CallsInit /\ [][CallsNext]_callVars

-----------------------------------------------------------------------------
(* With one handler at a time, lots and entries agree and withdrawn leave    *)
(* has given back what it drew: LotExplained.                                *)
SerialLotExplained == alone => LotExplained
=============================================================================

--------------------------- MODULE MCAccountDeletion ---------------------------
(* Instances of AccountDeletion for TLC: either one handler at a time, with   *)
(* every operation on accounts and workspaces, or two handlers at a time that *)
(* deal with accounts.                                                        *)
EXTENDS AccountDeletion, TLC

CONSTANTS a, c,      \* users
          w1, w2,    \* workspaces
          p1, p2     \* handlers

VARIABLE alone       \* one handler at a time

MCVars == <<vars, alone>>

OneOwner == [w \in Workspaces |-> c]

MCInit == Init /\ alone \in BOOLEAN

AllRest == \A p \in Procs : proc[p] = Idle

(* p2 stays idle, no admin switches accounts on and off, and no day begins    *)
(* between the check of a schedule or a recovery and its write.               *)
OneAtATime ==
  /\ proc'[p2] = Idle /\ overnight' = {}
  /\ proc' = proc => user' = user

(* No workspaces, two days.  Erasures, sweeps and recoveries overlap, and the *)
(* day begins under them and under a schedule.  A deletion is scheduled       *)
(* (without the mutex) and an account is switched on and off by hand, but     *)
(* never the last admin, when all rest.  A call is taken by p1, or else by p2.*)
TwoAtATime ==
  /\ now' <= 1
  /\ proc' = proc /\ user' # user => AllRest /\ ActiveAdmins' # {}
  /\ \A p \in Procs : proc'[p].scopes \subseteq {"account"} /\ proc'[p].flow # "create"
  /\ \A p \in Procs : proc'[p].flow = "schedule" => \A q \in Procs \ {p} : proc'[q] = Idle
  /\ proc[p2] = Idle /\ proc'[p2] # Idle => proc[p1] # Idle

MCNext ==
  /\ Next
  /\ IF alone THEN OneAtATime ELSE TwoAtATime
  /\ UNCHANGED alone

(* The fairness of AccountDeletion, for one handler at a time.                *)
MCFairness ==
  /\ \A p \in Procs : WF_vars(alone /\ Handler(p))
  /\ SF_vars(alone /\ Sweep(p1))
  /\ WF_vars(alone /\ NextDay) /\ WF_vars(alone /\ Expire)

MCSpec == MCInit /\ [][MCNext]_MCVars /\ MCFairness

(* A deletion that comes due is carried out, recovered, or asked for again    *)
(* later: PendingEnds, for one handler at a time.                             *)
SerialPendingEnds == \A u \in Users : alone /\ WillBeDue(u) ~> ~WillBeDue(u)
=============================================================================

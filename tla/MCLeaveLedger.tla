----------------------------- MODULE MCLeaveLedger -----------------------------
(* An instance of LeaveLedger for TLC: a credit and a debit, reservations    *)
(* that are made and released.                                               *)
EXTENDS LeaveLedger, TLC

Credit == [type |-> "accrual", quantity |-> 2, ref |-> "cron"]
Debit  == [type |-> "usage", quantity |-> -1, ref |-> "request"]

TwoEntries == {Credit, Debit}
TwoDeltas == {1, -1}

Symmetry == Permutations(Callers)
=============================================================================

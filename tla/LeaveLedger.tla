------------------------------ MODULE LeaveLedger ------------------------------
(***************************************************************************)
(* LeaveLedgerService (src/src/modules/leave/leave-ledger.service.ts): the *)
(* leave ledger of one bucket (member, leave type, year) and the balance   *)
(* that is projected from it.                                              *)
(*                                                                         *)
(* Callers append entries and adjust the reservation; each database call   *)
(* is a step, and other callers of the bucket run in between.              *)
(***************************************************************************)
EXTENDS Integers, FiniteSets, FiniteSetsExt

CONSTANTS Callers,
          Entries,     \* what may be appended: [type, quantity, ref]
          Deltas,      \* by how much a reservation may change
          RetryLimit,  \* SEQ_RETRY_LIMIT
          MaxCrashes   \* bound on calls that are cut short

VARIABLES ledger,   \* LeaveLedger documents: [seq, entry]
          balance,  \* the LeaveBalance document
          call,     \* local state of the calls
          crashes

vars == <<ledger, balance, call, crashes>>

-----------------------------------------------------------------------------
(* Documents.                                                              *)

Credits == {"accrual", "carry_forward", "comp_off_credit", "adjustment"}
EntryTypes == Credits \cup {"opening", "usage", "usage_reversal", "lapse",
                            "comp_off_expiry", "encashment"}
Fields == {"opening", "credited", "used", "lapsed", "encashed"}

Field(type) == CASE type = "opening" -> "opening"
                 [] type \in Credits -> "credited"
                 [] type \in {"usage", "usage_reversal"} -> "used"
                 [] type \in {"lapse", "comp_off_expiry"} -> "lapsed"
                 [] type = "encashment" -> "encashed"

ASSUME CallersAssumption == IsFiniteSet(Callers)
ASSUME EntryAssumption ==
  \A e \in Entries : e.type \in EntryTypes /\ e.quantity \in Int
ASSUME DeltaAssumption == Deltas \subseteq Int
ASSUME LimitAssumption == RetryLimit \in Nat \ {0} /\ MaxCrashes \in Nat

Sum(f, S) == MapThenSumSet(LAMBDA x : f[x], S)

(* applyEntryToTotals over a set of documents: a debit, which is negative, *)
(* raises its field.                                                       *)
Totals(docs) ==
  [f \in Fields |->
     Sum([d \in docs |-> IF Field(d.entry.type) # f THEN 0
                         ELSE IF f \in {"opening", "credited"} THEN d.entry.quantity
                              ELSE - d.entry.quantity],
         docs)]

Available(totals, reserved) ==
  totals["opening"] + totals["credited"] - totals["used"] - reserved
    - totals["lapsed"] - totals["encashed"]

Seqs == {d.seq : d \in ledger}

(* The seq of the last entry, 0 when there is none.                        *)
LastSeq == CHOOSE n \in Seqs \cup {0} : \A m \in Seqs : m <= n

NoEntry == [type |-> "none", quantity |-> 0, ref |-> "none"]

Idle == [pc |-> "idle", entry |-> NoEntry, delta |-> 0, attempt |-> 0, seq |-> 0,
         totals |-> Totals({}), seen |-> 0, reserved |-> 0, posted |-> FALSE]

Steps == {"idle", "readSeq", "create", "inc", "fold", "readPending", "write",
          "done", "failed", "dead"}

(* A call that is over, one way or another.                                *)
Over == {"idle", "done", "failed", "dead"}

-----------------------------------------------------------------------------
(* Control of the calls.                                                   *)

At(p, pc) == call[p].pc = pc

Put(p, h) == call' = [call EXCEPT ![p] = h]

(* appendEntry(entry) and adjustPending(delta) are called.                 *)
Appending(e) == [Idle EXCEPT !.pc = "readSeq", !.entry = e]
Adjusting(d) == [Idle EXCEPT !.pc = "inc", !.delta = d]

(* The call returns: what it had read is gone.                             *)
Finished(h) == [Idle EXCEPT !.pc = "done", !.delta = h.delta, !.posted = TRUE]

Init == /\ ledger = {}
        /\ balance = [totals |-> Totals({}), pending |-> 0, available |-> 0, lastLedgerSeq |-> 0]
        /\ call = [p \in Callers |-> Idle]
        /\ crashes = 0

-----------------------------------------------------------------------------
(* appendEntry: the retry loop.                                            *)

(* The highest seq is read.                                                *)
ReadSeq(p) ==
  /\ At(p, "readSeq")
  /\ Put(p, [call[p] EXCEPT !.pc = "create", !.seq = LastSeq + 1, !.attempt = @ + 1])
  /\ UNCHANGED <<ledger, balance, crashes>>

(* Mutants: the unique index is not there; the entry is created once more  *)
(* when the projection has been rebuilt.                                   *)
Create_NoIndex(p) ==
  /\ At(p, "create")
  /\ ledger' = ledger \cup {[seq |-> call[p].seq, entry |-> call[p].entry]}
  /\ Put(p, [call[p] EXCEPT !.pc = "fold", !.posted = TRUE])
  /\ UNCHANGED <<balance, crashes>>
Create_TwiceOnRetry(p) ==
  /\ At(p, "create")
  /\ call[p].seq \notin Seqs
  /\ ledger' = ledger \cup {[seq |-> call[p].seq, entry |-> call[p].entry]}
  /\ Put(p, [call[p] EXCEPT !.pc = IF call[p].attempt = 1 THEN "fold" ELSE "readSeq",
                            !.posted = TRUE])
  /\ UNCHANGED <<balance, crashes>>

(* create: the unique index (bucket, seq) lets it through.                 *)
Create(p) ==
  /\ At(p, "create")
  /\ call[p].seq \notin Seqs
  /\ ledger' = ledger \cup {[seq |-> call[p].seq, entry |-> call[p].entry]}
  /\ Put(p, [call[p] EXCEPT !.pc = "fold", !.posted = TRUE])
  /\ UNCHANGED <<balance, crashes>>

(* Mutant: one attempt less.                                               *)
Collide_GivesUpEarly(p) ==
  /\ At(p, "create")
  /\ call[p].seq \in Seqs
  /\ Put(p, [call[p] EXCEPT !.pc = IF call[p].attempt < RetryLimit - 1 THEN "readSeq"
                                   ELSE "failed"])
  /\ UNCHANGED <<ledger, balance, crashes>>

(* create: another caller has taken the seq; the attempts are counted.     *)
Collide(p) ==
  /\ At(p, "create")
  /\ call[p].seq \in Seqs
  /\ Put(p, [call[p] EXCEPT !.pc = IF call[p].attempt < RetryLimit THEN "readSeq"
                                   ELSE "failed"])
  /\ UNCHANGED <<ledger, balance, crashes>>

-----------------------------------------------------------------------------
(* adjustPending, and rebuildBucket that ends both calls.                  *)

(* Mutant: the projection is left as it was.                               *)
Inc_NoRebuild(p) ==
  /\ At(p, "inc")
  /\ balance' = [balance EXCEPT !.pending = @ + call[p].delta]
  /\ Put(p, Finished(call[p]))
  /\ UNCHANGED <<ledger, crashes>>

(* updateOne with $inc.                                                    *)
Inc(p) ==
  /\ At(p, "inc")
  /\ balance' = [balance EXCEPT !.pending = @ + call[p].delta]
  /\ Put(p, [call[p] EXCEPT !.pc = "fold", !.posted = TRUE])
  /\ UNCHANGED <<ledger, crashes>>

(* rebuildBucket: the ledger is read and folded.                           *)
Fold(p) ==
  /\ At(p, "fold")
  /\ Put(p, [call[p] EXCEPT !.pc = "readPending", !.totals = Totals(ledger), !.seen = LastSeq])
  /\ UNCHANGED <<ledger, balance, crashes>>

(* The reservation is read.                                                *)
ReadPending(p) ==
  /\ At(p, "readPending")
  /\ Put(p, [call[p] EXCEPT !.pc = "write", !.reserved = balance.pending])
  /\ UNCHANGED <<ledger, balance, crashes>>

(* Mutant: lastLedgerSeq is read when the row is written.                  *)
Write_CurrentSeq(p) ==
  LET h == call[p] IN
  /\ At(p, "write")
  /\ balance' = [totals |-> h.totals, pending |-> balance.pending,
                 available |-> Available(h.totals, h.reserved), lastLedgerSeq |-> LastSeq]
  /\ Put(p, Finished(h))
  /\ UNCHANGED <<ledger, crashes>>
(* findOneAndUpdate with $set: everything but the reservation.             *)
Write(p) ==
  LET h == call[p] IN
  /\ At(p, "write")
  /\ balance' = [balance EXCEPT !.totals = h.totals,
                                !.available = Available(h.totals, h.reserved),
                                !.lastLedgerSeq = h.seen]
  /\ Put(p, Finished(h))
  /\ UNCHANGED <<ledger, crashes>>

(* The process dies, or a database call throws, between two steps.         *)
Crash(p) ==
  /\ call[p].pc \notin Over
  /\ crashes < MaxCrashes
  /\ crashes' = crashes + 1
  /\ Put(p, [call[p] EXCEPT !.pc = "dead"])
  /\ UNCHANGED <<ledger, balance>>

-----------------------------------------------------------------------------
LedgerStep(p) == \/ ReadSeq(p) \/ Create(p) \/ Collide(p)
                 \/ Inc(p) \/ Fold(p) \/ ReadPending(p) \/ Write(p)

(* Each caller makes one call.                                             *)
Ask(p) ==
  /\ At(p, "idle")
  /\ \/ \E e \in Entries : Put(p, Appending(e))
     \/ \E d \in Deltas : Put(p, Adjusting(d))
  /\ UNCHANGED <<ledger, balance, crashes>>

Next == \E p \in Callers : Ask(p) \/ LedgerStep(p) \/ Crash(p)

Spec == Init /\ [][Next]_vars

-----------------------------------------------------------------------------
TypeOK ==
  /\ \A d \in ledger : d.seq \in Nat \ {0} /\ d.entry \in Entries
  /\ balance \in [totals : [Fields -> Int], pending : Int, available : Int, lastLedgerSeq : Nat]
  /\ call \in [Callers -> [pc : Steps, entry : Entries \cup {NoEntry}, delta : Deltas \cup {0},
                           attempt : 0 .. RetryLimit, seq : Nat, totals : [Fields -> Int],
                           seen : Nat, reserved : Int, posted : BOOLEAN]]
  /\ crashes \in Nat

(* The entries are numbered 1, 2, 3 ... without a gap or a double, however *)
(* many callers read the same highest seq.                                 *)
SeqDense ==
  /\ Seqs = 1 .. LastSeq
  /\ \A c, d \in ledger : c.seq = d.seq => c = d

(* The balance is at all times the fold of the ledger up to the seq that   *)
(* it names: never a mixture of two rebuilds.                              *)
ProjectionIsPrefix ==
  balance.totals = Totals({d \in ledger : d.seq <= balance.lastLedgerSeq})

(* No call is refused as long as there are no more callers than attempts.  *)
NeverExhausted ==
  Cardinality(Callers) <= RetryLimit => \A p \in Callers : ~At(p, "failed")

(* The balance is the fold of the whole ledger and of the reservation.  Of *)
(* two rebuilds that overlap the older may write last and leave it behind, *)
(* until the next movement.                                                *)
Current == /\ balance.totals = Totals(ledger)
           /\ balance.available = Available(balance.totals, balance.pending)

-----------------------------------------------------------------------------
(* The ledger implements the account its callers are promised.             *)

Log == [n \in 1 .. LastSeq |-> (CHOOSE d \in ledger : d.seq = n).entry]

PhaseOf(h) == CASE h.pc = "idle" -> "rest"
                [] h.pc \in {"readSeq", "create", "inc"} -> "asked"
                [] h.pc \in {"fold", "readPending", "write"} -> "done"
                [] h.pc = "done" -> "answered"
                [] h.pc = "failed" -> "refused"
                [] h.pc = "dead" -> IF h.posted THEN "done" ELSE "asked"

Account == INSTANCE LeaveAccount
             WITH log <- Log, pending <- balance.pending,
                  phase <- [p \in Callers |-> PhaseOf(call[p])]

(* Every call has its effect exactly once and before it is answered, or is *)
(* refused and has none.                                                   *)
KeepsAccount == Account!Spec
=============================================================================

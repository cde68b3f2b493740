--------------------------- MODULE LeaveLedger_proofs ---------------------------
(***************************************************************************)
(* Proofs about LeaveLedger, for every finite set of callers, every entry, *)
(* every limit of attempts and any number of calls that are cut short.     *)
(***************************************************************************)
EXTENDS LeaveLedger, Sequences, FiniteSetTheorems, WellFoundedInduction, TLAPS

-----------------------------------------------------------------------------
(* Sums.  Sum(f, S) is what the one function on the subsets of S gives for *)
(* S that takes away one element after the other.                          *)
Pick(s) == CHOOSE x \in s : TRUE
Term(f, g, s) == IF s = {} THEN 0 ELSE f[Pick(s)] + g[s \ {Pick(s)}]
Solves(g, f, S) == g = [s \in SUBSET S |-> Term(f, g, s)]
Iter(f, S) == CHOOSE g : Solves(g, f, S)

LEMMA SumIter == ASSUME NEW f, NEW S PROVE Sum(f, S) = Iter(f, S)[S]
BY DEF Sum, MapThenSumSet, MapThenFoldSet, Iter, Solves, Term, Pick

(* A set of subsets of a finite set has a member that holds no other.         *)
LEMMA Smallest ==
  ASSUME NEW S, IsFiniteSet(S), NEW T \in SUBSET (SUBSET S), T # {}
  PROVE  \E x \in T : \A y \in T : y \subseteq x => y = x
<1>1. IsWellFoundedOn(StrictSubsetOrdering(S), SUBSET S)
  BY FS_StrictSubsetOrderingWellFounded, FS_FiniteSubsetsOfFinite
<1>2. PICK x \in T : \A y \in T : ~(<<y, x>> \in StrictSubsetOrdering(S))
  <2> DEFINE R == StrictSubsetOrdering(S)
  <2> HIDE DEF R
  <2>1. IsWellFoundedOn(R, SUBSET S) BY <1>1 DEF R
  <2>2. \E x \in T : \A y \in T : ~(<<y, x>> \in R)
    BY <2>1, WFMin
  <2> QED BY <2>2 DEF R
<1>3. ASSUME NEW y \in T, y \subseteq x, y # x PROVE FALSE
  BY <1>2, <1>3 DEF StrictSubsetOrdering
<1> QED BY <1>3, <1>2

LEMMA PickIn == ASSUME NEW s, s # {} PROVE Pick(s) \in s
BY DEF Pick

(* A solution on S is one on each of its subsets, when cut to it.             *)
LEMMA SolvesCut ==
  ASSUME NEW f, NEW S, NEW g, Solves(g, f, S), NEW U \in SUBSET S
  PROVE  Solves([s \in SUBSET U |-> g[s]], f, U)
<1> DEFINE h == [s \in SUBSET U |-> g[s]]
<1>1. ASSUME NEW s \in SUBSET U PROVE h[s] = Term(f, h, s)
  <2>1. h[s] = Term(f, g, s) 
     <3>1. s \in SUBSET S OBVIOUS
     <3>2. g[s] = Term(f, g, s) BY <3>1 DEF Solves
     <3> QED BY <3>2
  <2>2. s \ {Pick(s)} \in SUBSET U OBVIOUS
  <2>3. h[s \ {Pick(s)}] = g[s \ {Pick(s)}] BY <2>2
  <2> QED BY <2>1, <2>3 DEF Term
<1>2. h = [s \in SUBSET U |-> h[s]] OBVIOUS
<1>3. [s \in SUBSET U |-> h[s]] = [s \in SUBSET U |-> Term(f, h, s)]
  BY <1>1
<1> QED BY <1>2, <1>3 DEF Solves

(* Two solutions agree.                                                       *)
LEMMA SolvesOne ==
  ASSUME NEW f, NEW S, IsFiniteSet(S), NEW g, NEW h, Solves(g, f, S), Solves(h, f, S)
  PROVE  g = h
<1> DEFINE T == {s \in SUBSET S : g[s] # h[s]}
<1>1. T = {}
  <2> SUFFICES ASSUME T # {} PROVE FALSE OBVIOUS
  <2>1. PICK x \in T : \A y \in T : y \subseteq x => y = x
    <3> HIDE DEF T
    <3>1. T \in SUBSET (SUBSET S) BY DEF T
    <3> QED BY Smallest, <3>1
  <2>2. x \in SUBSET S /\ g[x] # h[x] OBVIOUS
  <2>3. g[x] = Term(f, g, x) /\ h[x] = Term(f, h, x) BY <2>2 DEF Solves
  <2>4. x # {} BY <2>2, <2>3 DEF Term
  <2>5. Pick(x) \in x BY <2>4, PickIn
  <2>6. x \ {Pick(x)} \in SUBSET S BY <2>2
  <2>7. g[x \ {Pick(x)}] = h[x \ {Pick(x)}] BY <2>6, <2>1, <2>5
  <2> QED BY <2>2, <2>3, <2>7 DEF Term
<1>2. \A s \in SUBSET S : g[s] = h[s] BY <1>1
<1>3. g = [s \in SUBSET S |-> g[s]] /\ h = [s \in SUBSET S |-> h[s]] BY DEF Solves
<1> QED BY <1>2, <1>3

(* There is a solution.                                                       *)
LEMMA SolvesSome ==
  ASSUME NEW f, NEW S, IsFiniteSet(S)
  PROVE  Solves(Iter(f, S), f, S)
<1> DEFINE T == {U \in SUBSET S : ~\E g : Solves(g, f, U)}
<1>1. T = {}
  <2> SUFFICES ASSUME T # {} PROVE FALSE OBVIOUS
  <2>1. PICK U \in T : \A y \in T : y \subseteq U => y = U
    <3> HIDE DEF T
    <3>1. T \in SUBSET (SUBSET S) BY DEF T
    <3> QED BY Smallest, <3>1
  <2>2. U \in SUBSET S /\ ~\E g : Solves(g, f, U) OBVIOUS
  <2>3. ASSUME NEW V \in SUBSET U, V # U PROVE Solves(Iter(f, V), f, V)
    <3>1. V \notin T BY <2>1, <2>3
    <3>2. \E g : Solves(g, f, V) BY <3>1, <2>2
    <3> QED BY <3>2 DEF Iter
  <2>4. ASSUME NEW V \in SUBSET U, V # U, NEW W \in SUBSET V PROVE Iter(f, V)[W] = Iter(f, W)[W]
    <3>1. Solves([s \in SUBSET W |-> Iter(f, V)[s]], f, W) BY <2>3, <2>4, SolvesCut
    <3>2. W # U /\ W \in SUBSET U BY <2>4
    <3>3. Solves(Iter(f, W), f, W) BY <2>3, <3>2
    <3>4. IsFiniteSet(W) BY <2>2, <3>2, FS_Subset
    <3>5. Iter(f, W) = [s \in SUBSET W |-> Iter(f, V)[s]] BY <3>1, <3>3, <3>4, SolvesOne
    <3> QED BY <3>5
  <2> DEFINE last == IF U = {} THEN 0 ELSE f[Pick(U)] + Iter(f, U \ {Pick(U)})[U \ {Pick(U)}]
             h == [V \in SUBSET U |-> IF V = U THEN last ELSE Iter(f, V)[V]]
  <2>5. ASSUME NEW V \in SUBSET U PROVE h[V] = Term(f, h, V)
    <3>1. CASE V = {}
      <4>1. CASE V = U BY <4>1, <3>1 DEF Term
      <4>2. CASE V # U
        <5>1. Iter(f, V)[V] = Term(f, Iter(f, V), V) BY <2>3, <4>2 DEF Solves
        <5> QED BY <5>1, <3>1, <4>2 DEF Term
      <4> QED BY <4>1, <4>2
    <3>2. CASE V # {}
      <4> DEFINE W == V \ {Pick(V)}
      <4>1. W \in SUBSET U /\ W # U /\ W \in SUBSET V BY <3>2, PickIn
      <4>2. h[W] = Iter(f, W)[W] BY <4>1
      <4>3. CASE V = U BY <4>2, <4>3, <3>2 DEF Term
      <4>4. CASE V # U
        <5>1. Iter(f, V)[V] = Term(f, Iter(f, V), V) BY <2>3, <4>4 DEF Solves
        <5>2. Iter(f, V)[W] = Iter(f, W)[W] BY <2>4, <4>4, <4>1
        <5> HIDE DEF W
        <5>3. h[V] = Iter(f, V)[V] BY <4>4
        <5> HIDE DEF h
        <5> QED BY <5>1, <5>2, <5>3, <4>2 DEF Term, W
      <4> QED BY <4>3, <4>4
    <3> QED BY <3>1, <3>2
  <2>6. Solves(h, f, U)
    <3>1. h = [V \in SUBSET U |-> h[V]] OBVIOUS
    <3>2. [V \in SUBSET U |-> h[V]] = [V \in SUBSET U |-> Term(f, h, V)] BY <2>5
    <3> HIDE DEF h
    <3> QED BY <3>1, <3>2 DEF Solves
  <2> QED BY <2>6, <2>2
<1>2. \E g : Solves(g, f, S)
  <2>1. S \in SUBSET S OBVIOUS
  <2> QED BY <2>1, <1>1
<1> QED BY <1>2 DEF Iter

(* The sum over no element, and over one more.                                *)
LEMMA SumEmpty == ASSUME NEW f PROVE Sum(f, {}) = 0
<1>1. IsFiniteSet({}) BY FS_EmptySet
<1>2. Solves(Iter(f, {}), f, {}) BY <1>1, SolvesSome
<1> QED BY <1>2, SumIter DEF Solves, Term

LEMMA SumPick ==
  ASSUME NEW f, NEW S, IsFiniteSet(S), S # {}
  PROVE  Sum(f, S) = f[Pick(S)] + Sum(f, S \ {Pick(S)})
<1> DEFINE U == S \ {Pick(S)}
<1>1. IsFiniteSet(U) /\ U \in SUBSET S BY FS_Subset
<1>2. Solves(Iter(f, S), f, S) /\ Solves(Iter(f, U), f, U) BY <1>1, SolvesSome
<1>3. Iter(f, S)[S] = f[Pick(S)] + Iter(f, S)[U] BY <1>2 DEF Solves, Term
<1>4. Iter(f, U) = [s \in SUBSET U |-> Iter(f, S)[s]]
  <2>1. Solves([s \in SUBSET U |-> Iter(f, S)[s]], f, U)
    <3> HIDE DEF U
    <3> QED BY <1>1, <1>2, SolvesCut
  <2> HIDE DEF U
  <2> QED BY <2>1, <1>1, <1>2, SolvesOne
<1>5. Iter(f, U)[U] = Iter(f, S)[U] BY <1>4
<1> QED BY <1>3, <1>5, SumIter

(* A sum of integers is one.                                                  *)
LEMMA SumInt ==
  ASSUME NEW f, NEW S, IsFiniteSet(S), \A x \in S : f[x] \in Int
  PROVE  Sum(f, S) \in Int
<1> DEFINE T == {U \in SUBSET S : Sum(f, U) \notin Int}
<1>1. T = {}
  <2> SUFFICES ASSUME T # {} PROVE FALSE OBVIOUS
  <2>1. PICK U \in T : \A y \in T : y \subseteq U => y = U
    <3> HIDE DEF T
    <3>1. T \in SUBSET (SUBSET S) BY DEF T
    <3> QED BY Smallest, <3>1
  <2>2. U # {} BY <2>1, SumEmpty
  <2>3. Pick(U) \in U BY <2>2, PickIn
  <2>4. IsFiniteSet(U) BY FS_Subset
  <2>5. Sum(f, U \ {Pick(U)}) \in Int BY <2>1, <2>3
  <2>6. Sum(f, U) = f[Pick(U)] + Sum(f, U \ {Pick(U)}) BY <2>2, <2>4, SumPick
  <2>7. f[Pick(U)] \in Int BY <2>3
  <2>8. Sum(f, U) \in Int BY <2>5, <2>6, <2>7
  <2> QED BY <2>8
<1> QED BY <1>1

(* Any element may be taken out first.                                        *)
LEMMA SumTake ==
  ASSUME NEW f, NEW S, IsFiniteSet(S), \A y \in S : f[y] \in Int, NEW x \in S
  PROVE  Sum(f, S) = f[x] + Sum(f, S \ {x})
<1> DEFINE T == {U \in SUBSET S : \E y \in U : Sum(f, U) # f[y] + Sum(f, U \ {y})}
<1>1. T = {}
  <2> SUFFICES ASSUME T # {} PROVE FALSE OBVIOUS
  <2>1. PICK U \in T : \A y \in T : y \subseteq U => y = U
    <3> HIDE DEF T
    <3>1. T \in SUBSET (SUBSET S) BY DEF T
    <3> QED BY Smallest, <3>1
  <2>2. PICK y \in U : Sum(f, U) # f[y] + Sum(f, U \ {y}) BY <2>1
  <2>3. PICK p \in U : p = Pick(U) BY <2>2, PickIn
  <2>4. U \in SUBSET S BY <2>1
  <2>5. IsFiniteSet(U) BY <2>4, FS_Subset
  <2>6. Sum(f, U) = f[p] + Sum(f, U \ {p}) BY <2>2, <2>3, <2>5, SumPick
  <2>7. y # p BY <2>2, <2>6
  <2>8. U \ {p} \notin T /\ U \ {y} \notin T /\ U \ {p} \in SUBSET S /\ U \ {y} \in SUBSET S
    BY <2>1, <2>2, <2>3, <2>4
  <2>9. Sum(f, U \ {p}) = f[y] + Sum(f, (U \ {p}) \ {y})
    BY <2>7, <2>8, <2>2
  <2>10. Sum(f, U \ {y}) = f[p] + Sum(f, (U \ {y}) \ {p})
    BY <2>7, <2>8, <2>3
  <2>11. Sum(f, (U \ {y}) \ {p}) = Sum(f, (U \ {p}) \ {y})
    <3>1. (U \ {y}) \ {p} = (U \ {p}) \ {y} OBVIOUS
    <3> QED BY <3>1
  <2>12. IsFiniteSet((U \ {y}) \ {p}) BY <2>5, FS_Subset
  <2>13. Sum(f, (U \ {y}) \ {p}) \in Int BY <2>12, <2>4, SumInt
  <2>14. f[p] \in Int /\ f[y] \in Int BY <2>3, <2>4, <2>2
  <2> HIDE DEF T
  <2> QED BY <2>2, <2>6, <2>9, <2>10, <2>11, <2>13, <2>14
<1> QED BY <1>1

(* Equal terms, equal sums.                                                *)
LEMMA SumSame ==
  ASSUME NEW f, NEW g, NEW S, IsFiniteSet(S), \A x \in S : g[x] = f[x]
  PROVE  Sum(g, S) = Sum(f, S)
<1> DEFINE T == {U \in SUBSET S : Sum(g, U) # Sum(f, U)}
<1>1. T = {}
  <2> SUFFICES ASSUME T # {} PROVE FALSE OBVIOUS
  <2>1. PICK U \in T : \A y \in T : y \subseteq U => y = U
    <3> HIDE DEF T
    <3>1. T \in SUBSET (SUBSET S) BY DEF T
    <3> QED BY Smallest, <3>1
  <2>2. U # {} BY <2>1, SumEmpty
  <2>3. Pick(U) \in U BY <2>2, PickIn
  <2>4. IsFiniteSet(U) BY FS_Subset
  <2>5. /\ Sum(f, U) = f[Pick(U)] + Sum(f, U \ {Pick(U)})
        /\ Sum(g, U) = g[Pick(U)] + Sum(g, U \ {Pick(U)})
    BY <2>2, <2>4, SumPick
  <2>6. Sum(g, U \ {Pick(U)}) = Sum(f, U \ {Pick(U)}) BY <2>1, <2>3
  <2>7. g[Pick(U)] = f[Pick(U)] BY <2>3
  <2> QED BY <2>5, <2>6, <2>7, <2>1
<1> QED BY <1>1

LEMMA SumZero ==
  ASSUME NEW f, NEW S, IsFiniteSet(S), \A x \in S : f[x] = 0
  PROVE  Sum(f, S) = 0
<1> DEFINE T == {U \in SUBSET S : Sum(f, U) # 0}
<1>1. T = {}
  <2> SUFFICES ASSUME T # {} PROVE FALSE OBVIOUS
  <2>1. PICK U \in T : \A y \in T : y \subseteq U => y = U
    <3> HIDE DEF T
    <3>1. T \in SUBSET (SUBSET S) BY DEF T
    <3> QED BY Smallest, <3>1
  <2>2. U # {} BY <2>1, SumEmpty
  <2>3. Pick(U) \in U BY <2>2, PickIn
  <2>5. IsFiniteSet(U) BY FS_Subset
  <2>6. Sum(f, U) = f[Pick(U)] + Sum(f, U \ {Pick(U)}) BY <2>2, <2>5, SumPick
  <2>7. Sum(f, U \ {Pick(U)}) = 0 BY <2>1, <2>3
  <2>9. f[Pick(U)] = 0 BY <2>3
  <2> QED BY <2>6, <2>7, <2>9, <2>1
<1> QED BY <1>1

(* One term changes.                                                          *)
LEMMA SumChange ==
  ASSUME NEW f, NEW g, NEW S, IsFiniteSet(S), NEW x \in S,
         \A y \in S : f[y] \in Int, g[x] \in Int, \A y \in S \ {x} : g[y] = f[y]
  PROVE  Sum(g, S) = Sum(f, S) - f[x] + g[x]
<1>1. IsFiniteSet(S \ {x}) BY FS_Subset
<1>2. Sum(f, S) = f[x] + Sum(f, S \ {x}) BY SumTake
<1>3. Sum(g, S) = g[x] + Sum(g, S \ {x}) BY SumTake
<1>4. Sum(g, S \ {x}) = Sum(f, S \ {x}) BY <1>1, SumSame
<1>5. Sum(f, S \ {x}) \in Int BY <1>1, SumInt
<1> QED BY <1>2, <1>3, <1>4, <1>5

-----------------------------------------------------------------------------
(* The inductive invariant.                                                *)

(* The documents up to a seq.                                              *)
UpTo(docs, n) == {d \in docs : d.seq <= n}

(* A call, or the balance, is a record with its fields.                    *)
Shape(h) ==
  h \in [pc : {h.pc}, entry : {h.entry}, delta : {h.delta}, attempt : {h.attempt},
         seq : {h.seq}, totals : {h.totals}, seen : {h.seen}, reserved : {h.reserved},
         posted : {h.posted}]

(* What a call holds while the ledger is docs and its last seq is n: a     *)
(* fold of a prefix, and, when it tries to create, a seq that is either    *)
(* taken or the next one, and that no attempt has had before.              *)
CallOK(h, docs, n) ==
  /\ Shape(h)
  /\ h.attempt \in Nat /\ h.seq \in Nat
  /\ h.seen \in 0 .. n
  /\ h.totals = Totals(UpTo(docs, h.seen))
  /\ h.pc \in {"readSeq", "create"} => h.entry \in Entries /\ h.posted = FALSE
  /\ h.pc = "inc" => h.delta \in Deltas /\ h.posted = FALSE
  /\ h.pc \in {"idle", "failed"} => h.posted = FALSE
  /\ h.pc \in {"fold", "readPending", "write", "done"} => h.posted = TRUE
  /\ h.pc \in Steps
  /\ h.pc = "readSeq" => h.attempt <= n
  /\ h.pc = "create" => h.seq \in 1 .. n + 1 /\ h.attempt <= h.seq

Posters == {p \in Callers : call[p].posted = TRUE}

BalanceShape ==
  balance \in [totals : {balance.totals}, pending : {balance.pending},
               available : {balance.available}, lastLedgerSeq : {balance.lastLedgerSeq}]

(* Numbering and projection.                                               *)
Inv ==
  /\ LastSeq \in Nat
  /\ SeqDense
  /\ \A d \in ledger : d.seq \in Nat /\ d.entry \in Entries
  /\ BalanceShape
  /\ balance.lastLedgerSeq \in 0 .. LastSeq
  /\ ProjectionIsPrefix
  /\ DOMAIN call = Callers /\ call = [p \in Callers |-> call[p]]
  /\ \A p \in Callers : CallOK(call[p], ledger, LastSeq)
  /\ LastSeq <= Cardinality(Posters)

-----------------------------------------------------------------------------
(* The last seq of a ledger that is numbered from 1 to n is n.             *)
LEMMA LastOfDense ==
  ASSUME NEW n \in Nat, NEW S, S = 1 .. n
  PROVE  (CHOOSE k \in S \cup {0} : \A m \in S : m <= k) = n
<1>1. n \in S \cup {0} /\ \A m \in S : m <= n
  OBVIOUS
<1>2. \A k \in S \cup {0} : (\A m \in S : m <= k) => k = n
  OBVIOUS
<1>3. QED
  BY <1>1, <1>2

(* A call that begins or is over holds the empty fold, that of no document. *)
LEMMA EmptyFold ==
  ASSUME Inv PROVE 0 \in 0 .. LastSeq /\ Totals({}) = Totals(UpTo(ledger, 0))
<1>1. UpTo(ledger, 0) = {}
  BY DEF Inv, UpTo, SeqDense, Seqs
<1>2. QED
  BY <1>1 DEF Inv

(* Such a call is all right, and its seq is not in use yet.                *)
LEMMA FreshOK ==
  ASSUME Inv, NEW h, Shape(h), h.attempt = 0, h.seq = 0, h.seen = 0, h.totals = Totals({}),
         \/ h.pc = "readSeq" /\ h.entry \in Entries /\ h.posted = FALSE
         \/ h.pc = "inc" /\ h.delta \in Deltas /\ h.posted = FALSE
         \/ h.pc = "done" /\ h.posted = TRUE
  PROVE  CallOK(h, ledger, LastSeq)
<1>1. h.totals = Totals(UpTo(ledger, h.seen)) /\ h.seen \in 0 .. LastSeq
  BY EmptyFold
<1>2. LastSeq \in Nat
  BY DEF Inv
<1>3. QED
  BY <1>1, <1>2 DEF CallOK, Steps

LEMMA AskedOK ==
  ASSUME Inv
  PROVE  /\ \A e \in Entries : CallOK(Appending(e), ledger, LastSeq)
         /\ \A d \in Deltas : CallOK(Adjusting(d), ledger, LastSeq)
<1>1. ASSUME NEW e \in Entries PROVE CallOK(Appending(e), ledger, LastSeq)
  <2> DEFINE h == Appending(e)
  <2>1. Shape(h) /\ h.attempt = 0 /\ h.seq = 0 /\ h.seen = 0 /\ h.totals = Totals({})
    BY DEF Idle, Appending, Shape
  <2>2. h.pc = "readSeq" /\ h.entry \in Entries /\ h.posted = FALSE
    BY DEF Idle, Appending
  <2>3. QED
    BY <2>1, <2>2, FreshOK
<1>2. ASSUME NEW d \in Deltas PROVE CallOK(Adjusting(d), ledger, LastSeq)
  <2> DEFINE h == Adjusting(d)
  <2>1. Shape(h) /\ h.attempt = 0 /\ h.seq = 0 /\ h.seen = 0 /\ h.totals = Totals({})
    BY DEF Idle, Adjusting, Shape
  <2>2. h.pc = "inc" /\ h.delta \in Deltas /\ h.posted = FALSE
    BY DEF Idle, Adjusting
  <2>3. QED
    BY <2>1, <2>2, FreshOK
<1>3. QED
  BY <1>1, <1>2

LEMMA FinishedOK ==
  ASSUME Inv, NEW c PROVE CallOK(Finished(c), ledger, LastSeq) /\ Finished(c).posted = TRUE
<1> DEFINE h == Finished(c)
<1>1. Shape(h) /\ h.attempt = 0 /\ h.seq = 0 /\ h.seen = 0 /\ h.totals = Totals({})
  BY DEF Idle, Finished, Shape
<1>2. h.pc = "done" /\ h.posted = TRUE
  BY DEF Idle, Finished
<1>3. QED
  BY <1>1, <1>2, FreshOK

LEMMA PostersFinite == IsFiniteSet(Posters) /\ Cardinality(Posters) \in Nat
BY CallersAssumption, FS_Subset, FS_CardinalityType DEF Posters

(* A step of one call that leaves the ledger alone keeps the invariant, if *)
(* what the call holds is all right and it does not forget that it posted. *)
LEMMA CallStep ==
  ASSUME Inv, NEW p \in Callers, NEW h, CallOK(h, ledger, LastSeq), Put(p, h),
         UNCHANGED ledger, call[p].posted = TRUE => h.posted = TRUE,
         BalanceShape', balance'.lastLedgerSeq \in 0 .. LastSeq,
         balance'.totals = Totals(UpTo(ledger, balance'.lastLedgerSeq))
  PROVE  Inv'
<1>1. LastSeq' = LastSeq /\ Seqs' = Seqs
  BY DEF LastSeq, Seqs
<1>2. \A q \in Callers : call'[q] = IF q = p THEN h ELSE call[q]
  BY DEF Put, Inv
<1>3. DOMAIN call' = Callers /\ call' = [q \in Callers |-> call'[q]]
  BY DEF Put, Inv
<1>4. \A q \in Callers : CallOK(call'[q], ledger', LastSeq')
  BY <1>1, <1>2 DEF Inv
<1>5. LastSeq' <= Cardinality(Posters')
  <2>1. Posters \subseteq Posters'
    BY <1>2 DEF Posters
  <2>2. IsFiniteSet(Posters') /\ Posters' \subseteq Callers
    BY CallersAssumption, FS_Subset DEF Posters
  <2>3. Cardinality(Posters) <= Cardinality(Posters')
    BY <2>1, <2>2, FS_Subset
  <2>4. Cardinality(Posters') \in Nat
    BY <2>2, FS_CardinalityType
  <2>5. QED
    BY <1>1, <2>3, <2>4, PostersFinite DEF Inv
<1>6. SeqDense' /\ ProjectionIsPrefix'
  BY <1>1 DEF Inv, SeqDense, ProjectionIsPrefix, UpTo
<1>7. QED
  BY <1>1, <1>3, <1>4, <1>5, <1>6 DEF Inv

(* A call that creates an entry creates the next one.                      *)
LEMMA NextSeq ==
  ASSUME Inv, NEW p \in Callers, Create(p)
  PROVE  /\ call[p].seq = LastSeq + 1
         /\ LastSeq' = LastSeq + 1
         /\ Seqs' = 1 .. LastSeq + 1
<1>1. call[p].seq \in 1 .. LastSeq + 1 /\ call[p].seq \notin 1 .. LastSeq
  BY DEF Inv, Create, At, CallOK, SeqDense
<1>2. call[p].seq = LastSeq + 1
  BY <1>1 DEF Inv
<1>3. Seqs' = Seqs \cup {call[p].seq}
  <2> DEFINE new == [seq |-> call[p].seq, entry |-> call[p].entry]
  <2>1. ledger' = ledger \cup {new} /\ new.seq = call[p].seq
    BY DEF Create
  <2>2. QED
    BY <2>1 DEF Seqs
<1>4. Seqs' = 1 .. LastSeq + 1
  BY <1>2, <1>3 DEF Inv, SeqDense
<1>5. LastSeq' = LastSeq + 1
  <2>1. LastSeq + 1 \in Nat
    BY DEF Inv
  <2>2. QED
    BY <1>4, <2>1, LastOfDense DEF LastSeq
<1>6. QED
  BY <1>2, <1>4, <1>5

(* An entry that is created leaves every fold of a prefix as it is.        *)
LEMMA PrefixStays ==
  ASSUME Inv, NEW p \in Callers, Create(p), NEW n \in 0 .. LastSeq
  PROVE  UpTo(ledger', n) = UpTo(ledger, n)
<1> DEFINE new == [seq |-> call[p].seq, entry |-> call[p].entry]
<1>1. ledger' = ledger \cup {new} /\ new.seq = LastSeq + 1
  BY NextSeq DEF Create
<1>2. ~ (new.seq <= n)
  BY <1>1 DEF Inv
<1>3. QED
  BY <1>1, <1>2 DEF UpTo
-----------------------------------------------------------------------------
LEMMA InitInv == Init => Inv
<1> SUFFICES ASSUME Init PROVE Inv
  OBVIOUS
<1>1. Seqs = 1 .. 0
  BY DEF Init, Seqs
<1>2. LastSeq = 0
  BY <1>1, LastOfDense DEF LastSeq
<1>3. UpTo(ledger, 0) = {}
  BY DEF Init, UpTo
<1>4. Shape(Idle) /\ Idle.pc = "idle" /\ Idle.attempt = 0 /\ Idle.seq = 0
        /\ Idle.seen = 0 /\ Idle.totals = Totals({}) /\ Idle.posted = FALSE
  BY DEF Idle, Shape
<1>5. CallOK(Idle, ledger, LastSeq)
  <2>1. Idle.totals = Totals(UpTo(ledger, Idle.seen))
    BY <1>3, <1>4
  <2>2. QED
    BY <1>2, <1>4, <2>1 DEF CallOK, Steps
<1>6. BalanceShape /\ balance.lastLedgerSeq = 0 /\ balance.totals = Totals({})
  BY DEF Init, BalanceShape
<1>7. ProjectionIsPrefix
  BY <1>3, <1>6 DEF ProjectionIsPrefix, UpTo
<1>8. SeqDense
  BY <1>1, <1>2 DEF SeqDense, Init
<1>9. DOMAIN call = Callers /\ call = [p \in Callers |-> call[p]]
        /\ \A p \in Callers : CallOK(call[p], ledger, LastSeq)
  BY <1>5 DEF Init
<1>10. LastSeq <= Cardinality(Posters)
  BY <1>2, PostersFinite
<1>11. QED
  BY <1>2, <1>6, <1>7, <1>8, <1>9, <1>10 DEF Inv, Init

(* Each step of a call keeps the invariant.                                *)
LEMMA CreateInv ==
  ASSUME Inv, NEW p \in Callers, Create(p) PROVE Inv'
<1> DEFINE new == [seq |-> call[p].seq, entry |-> call[p].entry]
           h == [call[p] EXCEPT !.pc = "fold", !.posted = TRUE]
<1>1. /\ LastSeq \in Nat /\ LastSeq' = LastSeq + 1 /\ Seqs' = 1 .. LastSeq'
      /\ ledger' = ledger \cup {new} /\ new.seq = LastSeq + 1 /\ UNCHANGED balance
  BY NextSeq DEF Create, Inv
<1>2. \A q \in Callers : call'[q] = IF q = p THEN h ELSE call[q]
  BY DEF Create, Put, Inv
<1>3. DOMAIN call' = Callers /\ call' = [q \in Callers |-> call'[q]]
  BY DEF Create, Put, Inv
<1>4. CallOK(call[p], ledger, LastSeq) /\ call[p].pc = "create"
  BY DEF Create, At, Inv
<1>0. /\ Shape(h) /\ h.pc = "fold" /\ h.posted = TRUE /\ h.seen = call[p].seen
      /\ h.totals = call[p].totals /\ h.attempt = call[p].attempt /\ h.seq = call[p].seq
  BY <1>4 DEF CallOK, Shape
<1>5. \A q \in Callers : UpTo(ledger', call[q].seen) = UpTo(ledger, call[q].seen)
  BY PrefixStays DEF Inv, CallOK
<1>6. CallOK(h, ledger', LastSeq')
  <2>1. h.totals = Totals(UpTo(ledger', h.seen))
    BY <1>4, <1>5, <1>0 DEF CallOK
  <2>2. h.seen \in 0 .. LastSeq'
    BY <1>1, <1>4, <1>0 DEF CallOK
  <2>3. QED
    BY <1>4, <1>0, <2>1, <2>2 DEF CallOK, Steps
<1>7. ASSUME NEW q \in Callers, q # p PROVE CallOK(call'[q], ledger', LastSeq')
  <2>1. CallOK(call[q], ledger, LastSeq) /\ call'[q] = call[q]
    BY <1>2, <1>7 DEF Inv
  <2>2. call[q].totals = Totals(UpTo(ledger', call[q].seen))
    BY <1>5, <2>1 DEF CallOK
  <2>3. QED
    BY <1>1, <2>1, <2>2 DEF CallOK
<1>8. LastSeq' <= Cardinality(Posters')
  <2>1. Posters' = Posters \cup {p} /\ p \notin Posters
    <3>1. call'[p].posted = TRUE /\ call[p].posted # TRUE
      BY <1>2, <1>4, <1>0 DEF CallOK
    <3>2. \A q \in Callers : q # p => call'[q] = call[q]
      BY <1>2
    <3>3. QED
      BY <3>1, <3>2 DEF Posters
  <2>2. Cardinality(Posters') = Cardinality(Posters) + 1
    BY <2>1, PostersFinite, FS_AddElement
  <2>3. QED
    BY <1>1, <2>2, PostersFinite DEF Inv
<1>9. SeqDense'
  <2>1. \A d \in ledger : d.seq <= LastSeq /\ d.seq \in Nat
    BY DEF Inv, SeqDense, Seqs
  <2>2. QED
    BY <1>1, <2>1 DEF Inv, SeqDense
<1>10. ProjectionIsPrefix'
  <2>1. UpTo(ledger', balance.lastLedgerSeq) = UpTo(ledger, balance.lastLedgerSeq)
    BY PrefixStays DEF Inv
  <2>2. QED
    BY <1>1, <2>1 DEF Inv, ProjectionIsPrefix, UpTo
<1>11. \A d \in ledger' : d.seq \in Nat /\ d.entry \in Entries
  BY <1>1, <1>4 DEF Inv, CallOK
<1>12. BalanceShape' /\ balance'.lastLedgerSeq \in 0 .. LastSeq'
  BY <1>1 DEF Inv, BalanceShape
<1>13. \A q \in Callers : CallOK(call'[q], ledger', LastSeq')
  <2>1. call'[p] = h
    BY <1>2
  <2>2. QED
    BY <1>6, <1>7, <2>1
<1>14. LastSeq' \in Nat
  BY <1>1
<1>15. QED
  BY <1>3, <1>8, <1>9, <1>10, <1>11, <1>12, <1>13, <1>14 DEF Inv

(* What CallStep asks of the balance, when it is not written.              *)
LEMMA BalanceStays ==
  ASSUME Inv, UNCHANGED balance
  PROVE  /\ BalanceShape' /\ balance'.lastLedgerSeq \in 0 .. LastSeq
         /\ balance'.totals = Totals(UpTo(ledger, balance'.lastLedgerSeq))
BY DEF Inv, BalanceShape, ProjectionIsPrefix, UpTo

LEMMA CallsAreOK ==
  ASSUME Inv, NEW p \in Callers
  PROVE  CallOK(call[p], ledger, LastSeq) /\ LastSeq \in Nat
BY DEF Inv

LEMMA ReadSeqInv ==
  ASSUME Inv, NEW p \in Callers, ReadSeq(p) PROVE Inv'
<1> DEFINE h == [call[p] EXCEPT !.pc = "create", !.seq = LastSeq + 1, !.attempt = @ + 1]
<1>1. CallOK(call[p], ledger, LastSeq) /\ call[p].pc = "readSeq" /\ LastSeq \in Nat
  BY CallsAreOK DEF ReadSeq, At
<1>2. /\ Shape(h) /\ h.pc = "create" /\ h.seq = LastSeq + 1 /\ h.attempt = call[p].attempt + 1
      /\ h.posted = call[p].posted /\ h.seen = call[p].seen /\ h.totals = call[p].totals
      /\ h.entry = call[p].entry
  BY <1>1 DEF CallOK, Shape
<1>3. CallOK(h, ledger, LastSeq)
  BY <1>1, <1>2 DEF CallOK, Steps
<1>4. QED
  BY <1>2, <1>3, CallStep, BalanceStays DEF ReadSeq

LEMMA CollideInv ==
  ASSUME Inv, NEW p \in Callers, Collide(p) PROVE Inv'
<1> DEFINE c == IF call[p].attempt < RetryLimit THEN "readSeq" ELSE "failed"
           h == [call[p] EXCEPT !.pc = c]
<1>1. CallOK(call[p], ledger, LastSeq) /\ call[p].pc = "create" /\ LastSeq \in Nat
  BY CallsAreOK DEF Collide, At
<1>2. call[p].attempt <= LastSeq
  BY <1>1 DEF Collide, Inv, SeqDense, CallOK
<1>3. /\ Shape(h) /\ h.pc = c /\ h.seq = call[p].seq /\ h.attempt = call[p].attempt
      /\ h.posted = call[p].posted /\ h.seen = call[p].seen /\ h.totals = call[p].totals
      /\ h.entry = call[p].entry
  BY <1>1 DEF CallOK, Shape
<1>4. CallOK(h, ledger, LastSeq)
  BY <1>1, <1>2, <1>3 DEF CallOK, Steps
<1>5. QED
  BY <1>3, <1>4, CallStep, BalanceStays DEF Collide

LEMMA IncInv ==
  ASSUME Inv, NEW p \in Callers, Inc(p) PROVE Inv'
<1> DEFINE h == [call[p] EXCEPT !.pc = "fold", !.posted = TRUE]
<1>1. CallOK(call[p], ledger, LastSeq) /\ LastSeq \in Nat
  BY CallsAreOK
<1>2. /\ Shape(h) /\ h.pc = "fold" /\ h.seq = call[p].seq /\ h.attempt = call[p].attempt
      /\ h.posted = TRUE /\ h.seen = call[p].seen /\ h.totals = call[p].totals
  BY <1>1 DEF CallOK, Shape
<1>3. CallOK(h, ledger, LastSeq)
  BY <1>1, <1>2 DEF CallOK, Steps
<1>4. /\ BalanceShape' /\ balance'.lastLedgerSeq \in 0 .. LastSeq
      /\ balance'.totals = Totals(UpTo(ledger, balance'.lastLedgerSeq))
  <2>1. /\ BalanceShape' /\ balance'.lastLedgerSeq = balance.lastLedgerSeq
        /\ balance'.totals = balance.totals
    BY DEF Inv, Inc, BalanceShape
  <2>2. QED
    BY <2>1 DEF Inv, ProjectionIsPrefix, UpTo
<1>5. QED
  BY <1>2, <1>3, <1>4, CallStep DEF Inc

LEMMA FoldInv ==
  ASSUME Inv, NEW p \in Callers, Fold(p) PROVE Inv'
<1> DEFINE h == [call[p] EXCEPT !.pc = "readPending", !.totals = Totals(ledger), !.seen = LastSeq]
<1>1. CallOK(call[p], ledger, LastSeq) /\ call[p].pc = "fold" /\ LastSeq \in Nat
  BY CallsAreOK DEF Fold, At
<1>2. /\ Shape(h) /\ h.pc = "readPending" /\ h.seq = call[p].seq /\ h.attempt = call[p].attempt
      /\ h.posted = call[p].posted /\ h.seen = LastSeq /\ h.totals = Totals(ledger)
  BY <1>1 DEF CallOK, Shape
<1>3. UpTo(ledger, LastSeq) = ledger
  BY DEF Inv, UpTo, SeqDense, Seqs
<1>4. CallOK(h, ledger, LastSeq)
  <2>1. h.totals = Totals(UpTo(ledger, h.seen)) /\ h.seen \in 0 .. LastSeq
    BY <1>1, <1>2, <1>3
  <2>2. QED
    BY <1>1, <1>2, <2>1 DEF CallOK, Steps
<1>5. QED
  BY <1>2, <1>4, CallStep, BalanceStays DEF Fold

LEMMA ReadPendingInv ==
  ASSUME Inv, NEW p \in Callers, ReadPending(p) PROVE Inv'
<1> DEFINE h == [call[p] EXCEPT !.pc = "write", !.reserved = balance.pending]
<1>1. CallOK(call[p], ledger, LastSeq) /\ call[p].pc = "readPending" /\ LastSeq \in Nat
  BY CallsAreOK DEF ReadPending, At
<1>2. /\ Shape(h) /\ h.pc = "write" /\ h.seq = call[p].seq /\ h.attempt = call[p].attempt
      /\ h.posted = call[p].posted /\ h.seen = call[p].seen /\ h.totals = call[p].totals
  BY <1>1 DEF CallOK, Shape
<1>3. CallOK(h, ledger, LastSeq)
  BY <1>1, <1>2 DEF CallOK, Steps
<1>4. QED
  BY <1>2, <1>3, CallStep, BalanceStays DEF ReadPending

LEMMA WriteInv ==
  ASSUME Inv, NEW p \in Callers, Write(p) PROVE Inv'
<1>1. CallOK(call[p], ledger, LastSeq) /\ LastSeq \in Nat
  BY CallsAreOK
<1>2. /\ BalanceShape' /\ balance'.lastLedgerSeq = call[p].seen
      /\ balance'.totals = call[p].totals
  BY DEF Write, Inv, BalanceShape
<1>3. /\ balance'.lastLedgerSeq \in 0 .. LastSeq
      /\ balance'.totals = Totals(UpTo(ledger, balance'.lastLedgerSeq))
  BY <1>1, <1>2 DEF CallOK
<1>4. QED
  BY <1>2, <1>3, FinishedOK, CallStep DEF Write

LEMMA CrashInv ==
  ASSUME Inv, NEW p \in Callers, Crash(p) PROVE Inv'
<1> DEFINE h == [call[p] EXCEPT !.pc = "dead"]
<1>1. CallOK(call[p], ledger, LastSeq) /\ LastSeq \in Nat
  BY CallsAreOK
<1>2. /\ Shape(h) /\ h.pc = "dead" /\ h.seq = call[p].seq /\ h.attempt = call[p].attempt
      /\ h.posted = call[p].posted /\ h.seen = call[p].seen /\ h.totals = call[p].totals
  BY <1>1 DEF CallOK, Shape
<1>3. CallOK(h, ledger, LastSeq)
  BY <1>1, <1>2 DEF CallOK, Steps
<1>4. QED
  BY <1>2, <1>3, CallStep, BalanceStays DEF Crash

LEMMA AskInv ==
  ASSUME Inv, NEW p \in Callers, Ask(p) PROVE Inv'
<1>1. call[p].posted = FALSE
  BY CallsAreOK DEF Ask, At, CallOK
<1>2. PICK h : CallOK(h, ledger, LastSeq) /\ Put(p, h)
  BY AskedOK DEF Ask
<1>3. QED
  BY <1>1, <1>2, CallStep, BalanceStays DEF Ask

LEMMA StepInv == Inv /\ [Next]_vars => Inv'
<1> SUFFICES ASSUME Inv, [Next]_vars PROVE Inv'
  OBVIOUS
<1>1. CASE UNCHANGED vars
  <2>1. LastSeq' = LastSeq /\ Posters' = Posters
    BY <1>1 DEF vars, LastSeq, Seqs, Posters
  <2>2. QED
    BY <1>1, <2>1 DEF vars, Inv, SeqDense, Seqs, BalanceShape, ProjectionIsPrefix
<1>2. ASSUME NEW p \in Callers, Ask(p) \/ LedgerStep(p) \/ Crash(p) PROVE Inv'
  BY <1>2, AskInv, ReadSeqInv, CreateInv, CollideInv, IncInv, FoldInv, ReadPendingInv,
     WriteInv, CrashInv DEF LedgerStep
<1>3. QED
  BY <1>1, <1>2 DEF Next

(* Every behaviour keeps the inductive invariant.                          *)
LEMMA Invariance == Spec => []Inv
BY InitInv, StepInv, PTL DEF Spec

(* The entries of a bucket are numbered from 1 without a gap or a double,  *)
(* however many calls of appendEntry read the same highest seq.            *)
THEOREM Numbered == Spec => []SeqDense
<1>1. Inv => SeqDense
  BY DEF Inv
<1>2. QED
  BY <1>1, Invariance, PTL

(* The balance is the fold of a prefix of the ledger, the one that         *)
(* lastLedgerSeq names, whichever rebuildBucket wrote last.                *)
THEOREM Prefixed == Spec => []ProjectionIsPrefix
<1>1. Inv => ProjectionIsPrefix
  BY DEF Inv
<1>2. QED
  BY <1>1, Invariance, PTL

-----------------------------------------------------------------------------
(* What a document adds to a field of the totals.                          *)
Share(d, f) == IF Field(d.entry.type) # f THEN 0
               ELSE IF f \in {"opening", "credited"} THEN d.entry.quantity ELSE - d.entry.quantity

Counted(docs) == IsFiniteSet(docs) /\ \A d \in docs : d.entry.quantity \in Int

LEMMA TotalsAre ==
  ASSUME NEW docs, NEW f \in Fields
  PROVE  Totals(docs)[f] = Sum([d \in docs |-> Share(d, f)], docs)
BY DEF Totals, Share

(* applyEntryToTotals keeps the totals integers, and adds the shares of a  *)
(* document.                                                               *)
LEMMA TotalsInt ==
  ASSUME NEW docs, Counted(docs) PROVE Totals(docs) \in [Fields -> Int]
<1>1. ASSUME NEW f \in Fields PROVE Totals(docs)[f] \in Int
  <2> DEFINE g == [d \in docs |-> Share(d, f)]
  <2>1. IsFiniteSet(docs) /\ \A d \in docs : g[d] \in Int
    BY DEF Counted, Share
  <2> HIDE DEF g
  <2>2. Sum(g, docs) \in Int
    BY <2>1, SumInt
  <2>3. QED
    BY <2>2, TotalsAre DEF g
<1>2. QED
  BY <1>1 DEF Totals

LEMMA TotalsGrow ==
  ASSUME NEW docs, Counted(docs), NEW d, d \notin docs, d.entry.quantity \in Int, NEW f \in Fields
  PROVE  Totals(docs \cup {d})[f] = Totals(docs)[f] + Share(d, f)
<1> DEFINE more == docs \cup {d}
           g == [e \in more |-> Share(e, f)]
           old == [e \in docs |-> Share(e, f)]
<1>1. IsFiniteSet(more) /\ IsFiniteSet(docs) /\ more \ {d} = docs
  BY FS_AddElement DEF Counted
<1>2. \A e \in more : g[e] \in Int
  BY DEF Counted, Share
<1>3. g[d] = Share(d, f) /\ \A e \in docs : g[e] = old[e]
  OBVIOUS
<1> HIDE DEF g, old
<1>4. Sum(g, more) = g[d] + Sum(g, docs)
  <2>1. d \in more
    OBVIOUS
  <2>2. Sum(g, more) = g[d] + Sum(g, more \ {d})
    <3> HIDE DEF more
    <3>1. QED
      BY <1>1, <1>2, <2>1, SumTake
  <2>3. QED
    BY <1>1, <2>2
<1>5. Sum(g, docs) = Sum(old, docs)
  BY <1>1, <1>3, SumSame
<1>6. Sum(old, docs) = Totals(docs)[f] /\ Sum(g, more) = Totals(more)[f]
  BY TotalsAre DEF old, g
<1>7. Totals(docs)[f] \in Int /\ g[d] \in Int
  BY <1>2, TotalsInt
<1>8. QED
  BY <1>3, <1>4, <1>5, <1>6, <1>7

(* A call, as its type says; the attempts of one that reads the seq again  *)
(* are not used up.                                                        *)
CallTyped(h) ==
  /\ h \in [pc : Steps, entry : Entries \cup {NoEntry}, delta : Deltas \cup {0},
            attempt : 0 .. RetryLimit, seq : Nat, totals : [Fields -> Int],
            seen : Nat, reserved : Int, posted : BOOLEAN]
  /\ h.pc = "readSeq" => h.attempt < RetryLimit

Typed ==
  /\ IsFiniteSet(ledger)
  /\ \A d \in ledger : d.seq \in Nat \ {0} /\ d.entry \in Entries
  /\ balance \in [totals : [Fields -> Int], pending : Int, available : Int, lastLedgerSeq : Nat]
  /\ call = [p \in Callers |-> call[p]]
  /\ \A p \in Callers : CallTyped(call[p])
  /\ crashes \in Nat

LEMMA EntriesCounted == ASSUME Typed PROVE Counted(ledger)
BY EntryAssumption DEF Typed, Counted

LEMMA EmptyTotals == Totals({}) \in [Fields -> Int]
<1>1. Counted({})
  BY FS_EmptySet DEF Counted
<1>2. QED
  BY <1>1, TotalsInt

LEMMA AvailableInt ==
  ASSUME NEW t \in [Fields -> Int], NEW n \in Int PROVE Available(t, n) \in Int
<1>1. \A f \in {"opening", "credited", "used", "lapsed", "encashed"} : t[f] \in Int
  BY DEF Fields
<1>2. QED
  BY <1>1 DEF Available

LEMMA BegunTyped ==
  /\ CallTyped(Idle)
  /\ \A e \in Entries : CallTyped(Appending(e))
  /\ \A d \in Deltas : CallTyped(Adjusting(d))
<1>1. CallTyped(Idle) /\ Idle.attempt < RetryLimit
  BY EmptyTotals, LimitAssumption DEF CallTyped, Idle, Steps
<1>2. ASSUME NEW e \in Entries PROVE CallTyped(Appending(e))
  BY <1>1 DEF CallTyped, Steps, Appending
<1>3. ASSUME NEW d \in Deltas PROVE CallTyped(Adjusting(d))
  BY <1>1 DEF CallTyped, Steps, Adjusting
<1>4. QED
  BY <1>1, <1>2, <1>3

LEMMA EndedTyped ==
  ASSUME NEW c, CallTyped(c) PROVE CallTyped(Finished(c))
BY BegunTyped DEF CallTyped, Steps, Finished

(* A step of one call.                                                     *)
LEMMA TypedStep ==
  ASSUME Typed, NEW p \in Callers, NEW h, Put(p, h), CallTyped(h),
         IsFiniteSet(ledger'), \A d \in ledger' : d.seq \in Nat \ {0} /\ d.entry \in Entries,
         balance' \in [totals : [Fields -> Int], pending : Int, available : Int, lastLedgerSeq : Nat],
         crashes' \in Nat
  PROVE  Typed'
<1>1. call' = [q \in Callers |-> call'[q]] /\ \A q \in Callers : call'[q] = IF q = p THEN h ELSE call[q]
  BY DEF Typed, Put
<1>2. QED
  BY <1>1 DEF Typed

LEMMA LedgerStepTyped ==
  ASSUME Inv, Typed, NEW p \in Callers, LedgerStep(p) PROVE Typed'
<1> DEFINE h == call[p]
<1>1. CallTyped(h) /\ CallOK(h, ledger, LastSeq) /\ LastSeq \in Nat
  BY CallsAreOK DEF Typed
<1>2. CASE ReadSeq(p)
  <2> DEFINE g == [h EXCEPT !.pc = "create", !.seq = LastSeq + 1, !.attempt = @ + 1]
  <2>1. h.pc = "readSeq" /\ h.attempt < RetryLimit /\ h.attempt \in 0 .. RetryLimit
    BY <1>1, <1>2 DEF CallTyped, ReadSeq, At
  <2>2. h.attempt + 1 \in 0 .. RetryLimit /\ LastSeq + 1 \in Nat
    BY <1>1, <2>1, LimitAssumption
  <2>3. CallTyped(g)
    BY <1>1, <2>2 DEF CallTyped, Steps
  <2>4. QED
    BY <1>2, <2>3, TypedStep DEF ReadSeq, Typed
<1>3. CASE Create(p)
  <2> DEFINE g == [h EXCEPT !.pc = "fold", !.posted = TRUE]
             new == [seq |-> h.seq, entry |-> h.entry]
  <2>1. CallTyped(g)
    BY <1>1 DEF CallTyped, Steps
  <2>2. new.seq \in Nat \ {0} /\ new.entry \in Entries
    BY <1>1, <1>3 DEF Create, At, CallOK
  <2>3. ledger' = ledger \cup {new} /\ Put(p, g) /\ UNCHANGED <<balance, crashes>>
    BY <1>3 DEF Create
  <2>4. IsFiniteSet(ledger') /\ \A d \in ledger' : d.seq \in Nat \ {0} /\ d.entry \in Entries
    BY <2>2, <2>3, FS_AddElement DEF Typed
  <2>5. QED
    BY <2>1, <2>3, <2>4, TypedStep DEF Typed
<1>4. CASE Collide(p)
  <2> DEFINE next == IF h.attempt < RetryLimit THEN "readSeq" ELSE "failed"
             g == [h EXCEPT !.pc = next]
  <2>1. CallTyped(g)
    BY <1>1 DEF CallTyped, Steps
  <2>2. QED
    BY <1>4, <2>1, TypedStep DEF Collide, Typed
<1>5. CASE Inc(p)
  <2> DEFINE g == [h EXCEPT !.pc = "fold", !.posted = TRUE]
  <2>1. CallTyped(g)
    BY <1>1 DEF CallTyped, Steps
  <2>2. h.delta \in Int
    <3>1. h.delta \in Deltas \cup {0}
      BY <1>1 DEF CallTyped
    <3>2. \A n \in Deltas \cup {0} : n \in Int
      BY DeltaAssumption
    <3>3. QED
      BY <3>1, <3>2, Zenon
  <2>3. balance' \in [totals : [Fields -> Int], pending : Int, available : Int, lastLedgerSeq : Nat]
    <3>1. balance.pending + h.delta \in Int
      BY <2>2 DEF Typed
    <3>2. balance' = [balance EXCEPT !.pending = @ + h.delta]
      BY <1>5 DEF Inc
    <3>3. QED
      BY <3>1, <3>2 DEF Typed
  <2>4. QED
    BY <1>5, <2>1, <2>3, TypedStep DEF Inc, Typed
<1>6. CASE Fold(p)
  <2> DEFINE g == [h EXCEPT !.pc = "readPending", !.totals = Totals(ledger), !.seen = LastSeq]
  <2>1. Totals(ledger) \in [Fields -> Int]
    BY EntriesCounted, TotalsInt
  <2>2. CallTyped(g)
    BY <1>1, <2>1 DEF CallTyped, Steps
  <2>3. QED
    BY <1>6, <2>2, TypedStep DEF Fold, Typed
<1>7. CASE ReadPending(p)
  <2> DEFINE g == [h EXCEPT !.pc = "write", !.reserved = balance.pending]
  <2>1. CallTyped(g)
    BY <1>1 DEF CallTyped, Steps, Typed
  <2>2. QED
    BY <1>7, <2>1, TypedStep DEF ReadPending, Typed
<1>8. CASE Write(p)
  <2>1. Available(h.totals, h.reserved) \in Int /\ h.totals \in [Fields -> Int] /\ h.seen \in Nat
    BY <1>1, AvailableInt DEF CallTyped
  <2>2. balance' \in [totals : [Fields -> Int], pending : Int, available : Int, lastLedgerSeq : Nat]
    BY <1>8, <2>1 DEF Write, Typed
  <2>3. QED
    BY <1>1, <1>8, <2>2, EndedTyped, TypedStep DEF Write, Typed
<1>9. QED
  BY <1>2, <1>3, <1>4, <1>5, <1>6, <1>7, <1>8 DEF LedgerStep

(* The documents of the ledger service are of their types, whatever calls  *)
(* of it race or are cut short: totals and the balance are integers, no    *)
(* call tries more often than SEQ_RETRY_LIMIT.                             *)
THEOREM TypeCorrect == Spec => []TypeOK
<1>1. Init => Typed
  <2> SUFFICES ASSUME Init PROVE Typed
    OBVIOUS
  <2>1. IsFiniteSet(ledger) /\ ledger = {} /\ crashes = 0 /\ call = [p \in Callers |-> Idle]
    BY FS_EmptySet DEF Init
  <2>2. balance \in [totals : [Fields -> Int], pending : Int, available : Int, lastLedgerSeq : Nat]
    BY EmptyTotals DEF Init
  <2>3. QED
    BY <2>1, <2>2, BegunTyped DEF Typed
<1>2. Inv /\ Typed /\ [Next]_vars => Typed'
  <2> SUFFICES ASSUME Inv, Typed, [Next]_vars PROVE Typed'
    OBVIOUS
  <2>1. CASE UNCHANGED vars
    BY <2>1 DEF vars, Typed
  <2>2. ASSUME NEW p \in Callers, Ask(p) PROVE Typed'
    <3>1. PICK h : Put(p, h) /\ CallTyped(h)
      BY <2>2, BegunTyped DEF Ask
    <3>2. QED
      BY <2>2, <3>1, TypedStep DEF Ask, Typed
  <2>3. ASSUME NEW p \in Callers, Crash(p) PROVE Typed'
    <3> DEFINE g == [call[p] EXCEPT !.pc = "dead"]
    <3>1. CallTyped(g)
      BY DEF Typed, CallTyped, Steps
    <3>2. QED
      BY <2>3, <3>1, TypedStep DEF Crash, Typed
  <2>4. QED
    BY <2>1, <2>2, <2>3, LedgerStepTyped DEF Next
<1>3. Typed => TypeOK
  BY DEF Typed, CallTyped, TypeOK
<1>4. QED
  BY <1>1, <1>2, <1>3, Invariance, PTL DEF Spec

-----------------------------------------------------------------------------
(* A call that collides was overtaken once by each attempt it made, each   *)
(* time by another caller.                                                 *)
LEMMA Overtaken ==
  ASSUME Inv, NEW p \in Callers, Collide(p)
  PROVE  call[p].attempt + 1 <= Cardinality(Callers)
<1>1. CallOK(call[p], ledger, LastSeq) /\ call[p].pc = "create" /\ LastSeq \in Nat
  BY CallsAreOK DEF Collide, At
<1>2. call[p].attempt <= LastSeq /\ call[p].attempt \in Nat
  BY <1>1 DEF Collide, Inv, SeqDense, CallOK
<1>3. p \notin Posters
  BY <1>1 DEF CallOK, Posters
<1>4. /\ IsFiniteSet(Posters \cup {p})
      /\ Cardinality(Posters \cup {p}) = Cardinality(Posters) + 1
  BY <1>3, PostersFinite, FS_AddElement
<1>5. Cardinality(Posters \cup {p}) <= Cardinality(Callers) /\ Cardinality(Callers) \in Nat
  <2>1. Posters \cup {p} \subseteq Callers
    BY DEF Posters
  <2>2. QED
    BY <2>1, CallersAssumption, FS_Subset, FS_CardinalityType
<1>6. LastSeq <= Cardinality(Posters)
  BY DEF Inv
<1>7. QED
  BY <1>1, <1>2, <1>4, <1>5, <1>6, PostersFinite

(* appendEntry gives no caller up while there are no more callers than     *)
(* SEQ_RETRY_LIMIT attempts.                                               *)
THEOREM NoneExhausted == Spec => []NeverExhausted
<1>1. Init => NeverExhausted
  BY DEF Init, NeverExhausted, At, Idle
<1>2. Inv /\ NeverExhausted /\ [Next]_vars => NeverExhausted'
  <2> SUFFICES ASSUME Inv, NeverExhausted, [Next]_vars, Cardinality(Callers) <= RetryLimit,
                      NEW q \in Callers
               PROVE  call'[q].pc # "failed"
    BY DEF NeverExhausted, At
  <2>1. call[q].pc # "failed"
    BY DEF NeverExhausted, At
  <2>2. CASE UNCHANGED vars
    BY <2>1, <2>2 DEF vars
  <2>3. ASSUME NEW p \in Callers, NEW h, Put(p, h), h.pc # "failed" PROVE call'[q].pc # "failed"
    BY <2>1, <2>3 DEF Put, Inv
  <2>4. ASSUME NEW p \in Callers, Ask(p) PROVE call'[q].pc # "failed"
    <3>1. \A e : Appending(e).pc # "failed" /\ Adjusting(e).pc # "failed"
      BY DEF Appending, Adjusting, Idle
    <3>2. QED
      BY <2>3, <2>4, <3>1 DEF Ask
  <2>5. ASSUME NEW p \in Callers, Collide(p) PROVE call'[q].pc # "failed"
    <3> DEFINE h == [call[p] EXCEPT !.pc = "readSeq"]
    <3>1. call[p].attempt < RetryLimit
      <4>1. call[p].attempt \in Nat /\ Cardinality(Callers) \in Nat
        BY CallsAreOK, CallersAssumption, FS_CardinalityType DEF CallOK
      <4>2. QED
        BY <2>5, <4>1, Overtaken, LimitAssumption
    <3>2. Put(p, h)
      BY <2>5, <3>1 DEF Collide
    <3>3. h.pc = "readSeq"
      BY CallsAreOK DEF CallOK, Shape
    <3>4. QED
      BY <2>3, <3>2, <3>3
  <2>6. ASSUME NEW p \in Callers, NEW c, c # "failed", call'[p].pc = c,
               \A r \in Callers \ {p} : call'[r] = call[r]
        PROVE  call'[q].pc # "failed"
    BY <2>1, <2>6
  <2>7. ASSUME NEW p \in Callers,
               \/ ReadSeq(p) \/ Create(p) \/ Inc(p) \/ Fold(p) \/ ReadPending(p) \/ Crash(p)
        PROVE  call'[q].pc # "failed"
    <3>1. \A r \in Callers \ {p} : call'[r] = call[r]
      BY <2>7 DEF ReadSeq, Create, Inc, Fold, ReadPending, Crash, Put, Inv
    <3>2. call'[p].pc \in {"create", "fold", "readPending", "write", "dead"}
      <4>1. Shape(call[p]) /\ p \in DOMAIN call
        BY CallsAreOK DEF CallOK, Inv
      <4>2. QED
        BY <2>7, <4>1 DEF ReadSeq, Create, Inc, Fold, ReadPending, Crash, Put, Shape
    <3>3. QED
      BY <2>6, <3>1, <3>2
  <2>8. ASSUME NEW p \in Callers, Write(p) PROVE call'[q].pc # "failed"
    <3>1. Finished(call[p]).pc # "failed"
      BY DEF Finished, Idle
    <3>2. QED
      BY <2>3, <2>8, <3>1 DEF Write
  <2>9. QED
    BY <2>2, <2>4, <2>5, <2>7, <2>8 DEF Next, LedgerStep
<1>3. QED
  BY <1>1, <1>2, Invariance, PTL DEF Spec

-----------------------------------------------------------------------------
(* The refinement of LeaveAccount.                                         *)

PhaseMap == [p \in Callers |-> PhaseOf(call[p])]

LEMMA PhaseStep ==
  ASSUME Inv, NEW p \in Callers, NEW h, Put(p, h)
  PROVE  /\ PhaseMap[p] = PhaseOf(call[p])
         /\ PhaseMap' = [PhaseMap EXCEPT ![p] = PhaseOf(h)]
<1>1. \A q \in Callers : call'[q] = IF q = p THEN h ELSE call[q]
  BY DEF Put, Inv
<1>2. QED
  BY <1>1 DEF PhaseMap

(* The log is a sequence as long as the last seq says.                     *)
LEMMA LogIsSeq ==
  ASSUME Inv
  PROVE  /\ Log \in Seq(Entries)
         /\ Len(Log) = LastSeq
         /\ DOMAIN Log = 1 .. LastSeq
<1>1. ASSUME NEW n \in 1 .. LastSeq PROVE (CHOOSE d \in ledger : d.seq = n).entry \in Entries
  <2>1. PICK d \in ledger : d.seq = n
    BY DEF Inv, SeqDense, Seqs
  <2>2. (CHOOSE c \in ledger : c.seq = n) \in ledger
    BY <2>1
  <2>3. QED
    BY <2>2 DEF Inv
<1>2. LastSeq \in Nat
  BY DEF Inv
<1>3. QED
  BY <1>1, <1>2 DEF Log

(* The document of a seq is still the one that is chosen when the next     *)
(* entry has been created.                                                 *)
LEMMA ChoiceStays ==
  ASSUME Inv, NEW p \in Callers, Create(p), NEW n \in 1 .. LastSeq
  PROVE  (CHOOSE d \in ledger' : d.seq = n) = (CHOOSE d \in ledger : d.seq = n)
<1> DEFINE new == [seq |-> call[p].seq, entry |-> call[p].entry]
<1>1. ledger' = ledger \cup {new} /\ new.seq = LastSeq + 1
  BY NextSeq DEF Create
<1>2. new.seq # n
  BY <1>1 DEF Inv
<1>3. PICK d \in ledger : d.seq = n
  BY DEF Inv, SeqDense, Seqs
<1>4. \A c \in ledger' : c.seq = n => c = d
  BY <1>1, <1>2, <1>3 DEF Inv, SeqDense
<1>5. (CHOOSE c \in ledger' : c.seq = n) = d
  BY <1>1, <1>3, <1>4
<1>6. (CHOOSE c \in ledger : c.seq = n) = d
  BY <1>1, <1>3, <1>4
<1>7. QED
  BY <1>5, <1>6

LEMMA CreateAppends ==
  ASSUME Inv, NEW p \in Callers, Create(p)
  PROVE  Log' = Append(Log, call[p].entry)
<1> DEFINE new == [seq |-> call[p].seq, entry |-> call[p].entry]
           chosen(n) == (CHOOSE d \in ledger : d.seq = n).entry
           later(n) == (CHOOSE d \in ledger' : d.seq = n).entry
<1>1. /\ ledger' = ledger \cup {new} /\ new.seq = LastSeq + 1 /\ LastSeq' = LastSeq + 1
      /\ LastSeq \in Nat
  BY NextSeq DEF Create, Inv
<1>2. later(LastSeq + 1) = call[p].entry
  <2>1. \A d \in ledger : d.seq # LastSeq + 1
    BY <1>1 DEF Inv, SeqDense, Seqs
  <2>2. \A d \in ledger' : d.seq = LastSeq + 1 => d = new
    BY <1>1, <2>1
  <2>3. (CHOOSE d \in ledger' : d.seq = LastSeq + 1) = new
    BY <1>1, <2>2
  <2>4. (CHOOSE d \in ledger' : d.seq = LastSeq + 1).entry = new.entry
    BY ONLY <2>3
  <2>5. new.entry = call[p].entry
    OBVIOUS
  <2>6. QED
    BY ONLY <2>4, <2>5
<1>3. \A n \in 1 .. LastSeq : later(n) = chosen(n)
  BY ChoiceStays
<1>4. Log' = [n \in 1 .. LastSeq + 1 |-> later(n)] /\ Log = [n \in 1 .. LastSeq |-> chosen(n)]
  BY <1>1 DEF Log
<1> HIDE DEF chosen, later
<1>5. \A n \in 1 .. LastSeq + 1 : Log'[n] = IF n <= LastSeq THEN Log[n] ELSE call[p].entry
  <2>1. ASSUME NEW n \in 1 .. LastSeq + 1
        PROVE Log'[n] = IF n <= LastSeq THEN Log[n] ELSE call[p].entry
    <3>1. CASE n <= LastSeq
      <4>1. n \in 1 .. LastSeq
        BY <1>1, <3>1
      <4>2. QED
        BY <1>3, <1>4, <3>1, <4>1
    <3>2. CASE n = LastSeq + 1
      BY <1>1, <1>2, <1>4, <3>2
    <3>3. QED
      BY <1>1, <3>1, <3>2
  <2>2. QED
    BY <2>1
<1>6. Len(Log) = LastSeq /\ Log \in Seq(Entries)
  BY LogIsSeq
<1>7. QED
  BY <1>1, <1>4, <1>5, <1>6

LEMMA LogStays == ASSUME UNCHANGED ledger PROVE Log' = Log
<1>1. LastSeq' = LastSeq
  BY DEF LastSeq, Seqs
<1>2. QED
  BY <1>1 DEF Log

(* Each step of a call is one step of the account, or none.                *)
LEMMA AccountStep ==
  ASSUME Inv, NEW p \in Callers, Ask(p) \/ LedgerStep(p) \/ Crash(p)
  PROVE  [Account!Next]_(Account!vars)
<1> DEFINE h == call[p]
<1>1. Shape(h) /\ CallOK(h, ledger, LastSeq)
  BY CallsAreOK DEF CallOK
<1>2. CASE Ask(p)
  <2>1. PICK g : Put(p, g) /\ PhaseOf(g) = "asked"
    <3>1. \A e : PhaseOf(Appending(e)) = "asked" /\ PhaseOf(Adjusting(e)) = "asked"
      BY DEF PhaseOf, Appending, Adjusting, Idle
    <3>2. QED
      BY <1>2, <3>1 DEF Ask
  <2>2. PhaseOf(h) = "rest"
    BY <1>2 DEF Ask, At, PhaseOf
  <2>3. Account!Ask(p)
    BY <1>2, <2>1, <2>2, PhaseStep, LogStays DEF Account!Ask, PhaseMap, Ask
  <2>4. QED
    BY <2>3 DEF Account!Next
<1>3. CASE Create(p)
  <2> DEFINE g == [h EXCEPT !.pc = "fold", !.posted = TRUE]
  <2>1. PhaseOf(h) = "asked" /\ PhaseOf(g) = "done" /\ h.entry \in Entries
    BY <1>1, <1>3 DEF Create, At, CallOK, Shape, PhaseOf
  <2>2. Account!Post(p, h.entry)
    BY <1>3, <2>1, PhaseStep, CreateAppends DEF Account!Post, PhaseMap, Create
  <2>3. QED
    BY <2>1, <2>2 DEF Account!Next
<1>4. CASE Inc(p)
  <2> DEFINE g == [h EXCEPT !.pc = "fold", !.posted = TRUE]
  <2>1. PhaseOf(h) = "asked" /\ PhaseOf(g) = "done" /\ h.delta \in Deltas
    BY <1>1, <1>4 DEF Inc, At, CallOK, Shape, PhaseOf
  <2>2. balance'.pending = balance.pending + h.delta
    BY <1>4 DEF Inc, Inv, BalanceShape
  <2>3. Account!Reserve(p, h.delta)
    BY <1>4, <2>1, <2>2, PhaseStep, LogStays DEF Account!Reserve, PhaseMap, Inc
  <2>4. QED
    BY <2>1, <2>3 DEF Account!Next
<1>5. CASE Write(p)
  <2>1. PhaseOf(h) = "done" /\ PhaseOf(Finished(h)) = "answered"
    BY <1>5 DEF Write, At, PhaseOf, Finished, Idle
  <2>2. balance'.pending = balance.pending
    BY <1>5 DEF Write, Inv, BalanceShape
  <2>3. Account!Answer(p)
    BY <1>5, <2>1, <2>2, PhaseStep, LogStays DEF Account!Answer, PhaseMap, Write
  <2>4. QED
    BY <2>3 DEF Account!Next
<1>6. CASE Collide(p) /\ ~ (h.attempt < RetryLimit)
  <2> DEFINE g == [h EXCEPT !.pc = "failed"]
  <2>1. PhaseOf(h) = "asked" /\ PhaseOf(g) = "refused"
    BY <1>1, <1>6 DEF Collide, At, Shape, PhaseOf
  <2>2. Put(p, g)
    BY <1>6 DEF Collide
  <2>3. Account!Refuse(p)
    BY <1>6, <2>1, <2>2, PhaseStep, LogStays DEF Account!Refuse, PhaseMap, Collide
  <2>4. QED
    BY <2>3 DEF Account!Next
<1>7. ASSUME NEW g, Put(p, g), PhaseOf(g) = PhaseOf(h), UNCHANGED <<ledger, balance>>
      PROVE  UNCHANGED Account!vars
  <2>1. PhaseMap' = PhaseMap
    BY <1>7, PhaseStep DEF PhaseMap
  <2>2. QED
    BY <1>7, <2>1, LogStays DEF Account!vars, PhaseMap
<1>8. CASE ReadSeq(p)
  <2> DEFINE g == [h EXCEPT !.pc = "create", !.seq = LastSeq + 1, !.attempt = @ + 1]
  <2>1. PhaseOf(g) = PhaseOf(h)
    BY <1>1, <1>8 DEF ReadSeq, At, Shape, PhaseOf
  <2>2. QED
    BY <1>7, <1>8, <2>1 DEF ReadSeq
<1>9. CASE Collide(p) /\ h.attempt < RetryLimit
  <2> DEFINE g == [h EXCEPT !.pc = "readSeq"]
  <2>1. PhaseOf(g) = PhaseOf(h)
    BY <1>1, <1>9 DEF Collide, At, Shape, PhaseOf
  <2>2. Put(p, g)
    BY <1>9 DEF Collide
  <2>3. QED
    BY <1>7, <1>9, <2>1, <2>2 DEF Collide
<1>10. CASE Fold(p)
  <2> DEFINE g == [h EXCEPT !.pc = "readPending", !.totals = Totals(ledger), !.seen = LastSeq]
  <2>1. PhaseOf(g) = PhaseOf(h)
    BY <1>1, <1>10 DEF Fold, At, Shape, PhaseOf
  <2>2. QED
    BY <1>7, <1>10, <2>1 DEF Fold
<1>11. CASE ReadPending(p)
  <2> DEFINE g == [h EXCEPT !.pc = "write", !.reserved = balance.pending]
  <2>1. PhaseOf(g) = PhaseOf(h)
    BY <1>1, <1>11 DEF ReadPending, At, Shape, PhaseOf
  <2>2. QED
    BY <1>7, <1>11, <2>1 DEF ReadPending
<1>12. CASE Crash(p)
  <2> DEFINE g == [h EXCEPT !.pc = "dead"]
  <2>1. g.pc = "dead" /\ g.posted = h.posted
    BY <1>1 DEF Shape
  <2>2. \/ h.pc \in {"readSeq", "create", "inc"} /\ h.posted = FALSE
        \/ h.pc \in {"fold", "readPending", "write"} /\ h.posted = TRUE
    BY <1>1, <1>12 DEF Crash, Over, CallOK, Steps
  <2>3. PhaseOf(g) = PhaseOf(h)
    BY <2>1, <2>2 DEF PhaseOf
  <2>4. QED
    BY <1>7, <1>12, <2>3 DEF Crash
<1>13. QED
  BY <1>2, <1>3, <1>4, <1>5, <1>6, <1>8, <1>9, <1>10, <1>11, <1>12 DEF LedgerStep

(* The ledger service implements the account: a call of appendEntry or of  *)
(* adjustPending has its effect once and before it is answered, one that   *)
(* is refused has none, and one that is cut short has it once or not.      *)
THEOREM Implements == Spec => KeepsAccount
<1>1. Init => Account!Init
  <2> SUFFICES ASSUME Init PROVE Account!Init
    OBVIOUS
  <2>1. Seqs = 1 .. 0
    BY DEF Init, Seqs
  <2>2. LastSeq = 0
    BY <2>1, LastOfDense DEF LastSeq
  <2>3. Log = <<>>
    BY <2>2 DEF Log
  <2>4. \A p \in Callers : PhaseOf(call[p]) = "rest"
    BY DEF Init, PhaseOf, Idle
  <2>5. QED
    BY <2>3, <2>4 DEF Init, Account!Init
<1>2. Inv /\ [Next]_vars => [Account!Next]_(Account!vars)
  <2> SUFFICES ASSUME Inv, [Next]_vars PROVE [Account!Next]_(Account!vars)
    OBVIOUS
  <2>1. CASE UNCHANGED vars
    <3>1. UNCHANGED <<ledger, balance, call>>
      BY <2>1 DEF vars
    <3>2. QED
      BY <3>1, LogStays DEF Account!vars
  <2>2. ASSUME NEW p \in Callers, Ask(p) \/ LedgerStep(p) \/ Crash(p)
        PROVE  [Account!Next]_(Account!vars)
    BY <2>2, AccountStep
  <2>3. QED
    BY <2>1, <2>2 DEF Next
<1>3. QED
  BY <1>1, <1>2, Invariance, PTL DEF Spec, KeepsAccount, Account!Spec
=================================================================================

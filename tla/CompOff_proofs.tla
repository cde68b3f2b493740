----------------------------- MODULE CompOff_proofs -----------------------------
(***************************************************************************)
(* Proofs about CompOff, for any finite sets of claims, leaves and         *)
(* handlers, any shapes of them, and any number of days and crashes.       *)
(*                                                                         *)
(* First the laws of Sum, by induction over the subsets of a finite set;   *)
(* then the invariant; what each step does, field by field; part by part   *)
(* of the invariant, that every step keeps it; and last, what more holds   *)
(* when handlers come one after the other.                                 *)
(***************************************************************************)
EXTENDS CompOffCalls, FiniteSetTheorems, WellFoundedInduction, TLAPS

-----------------------------------------------------------------------------
(* Sums.  Sum(f, S) is what the one function on the subsets of S gives for *)
(* S that takes away one element after the other.                          *)
Pick(s) == CHOOSE x \in s : TRUE
Term(f, g, s) == IF s = {} THEN 0 ELSE f[Pick(s)] + g[s \ {Pick(s)}]
Solves(g, f, S) == g = [s \in SUBSET S |-> Term(f, g, s)]
Iter(f, S) == CHOOSE g : Solves(g, f, S)

LEMMA SumIter == ASSUME NEW f, NEW S PROVE Sum(f, S) = Iter(f, S)[S]
BY DEF Sum, MapThenSumSet, MapThenFoldSet, Iter, Solves, Term, Pick

(* A set of subsets of a finite set has a member that holds no other.         *)
LEMMA Smallest ==
  ASSUME NEW S, IsFiniteSet(S), NEW T \in SUBSET (SUBSET S), T # {}
  PROVE  \E x \in T : \A y \in T : y \subseteq x => y = x
<1>1. IsWellFoundedOn(StrictSubsetOrdering(S), SUBSET S)
  BY FS_StrictSubsetOrderingWellFounded, FS_FiniteSubsetsOfFinite
<1>2. PICK x \in T : \A y \in T : ~(<<y, x>> \in StrictSubsetOrdering(S))
  <2> DEFINE R == StrictSubsetOrdering(S)
  <2> HIDE DEF R
  <2>1. IsWellFoundedOn(R, SUBSET S) BY <1>1 DEF R
  <2>2. \E x \in T : \A y \in T : ~(<<y, x>> \in R)
    BY <2>1, WFMin
  <2> QED BY <2>2 DEF R
<1>3. ASSUME NEW y \in T, y \subseteq x, y # x PROVE FALSE
  BY <1>2, <1>3 DEF StrictSubsetOrdering
<1> QED BY <1>3, <1>2

LEMMA PickIn == ASSUME NEW s, s # {} PROVE Pick(s) \in s
BY DEF Pick

(* A solution on S is one on each of its subsets, when cut to it.             *)
LEMMA SolvesCut ==
  ASSUME NEW f, NEW S, NEW g, Solves(g, f, S), NEW U \in SUBSET S
  PROVE  Solves([s \in SUBSET U |-> g[s]], f, U)
<1> DEFINE h == [s \in SUBSET U |-> g[s]]
<1>1. ASSUME NEW s \in SUBSET U PROVE h[s] = Term(f, h, s)
  <2>1. h[s] = Term(f, g, s) 
     <3>1. s \in SUBSET S OBVIOUS
     <3>2. g[s] = Term(f, g, s) BY <3>1 DEF Solves
     <3> QED BY <3>2
  <2>2. s \ {Pick(s)} \in SUBSET U OBVIOUS
  <2>3. h[s \ {Pick(s)}] = g[s \ {Pick(s)}] BY <2>2
  <2> QED BY <2>1, <2>3 DEF Term
<1>2. h = [s \in SUBSET U |-> h[s]] OBVIOUS
<1>3. [s \in SUBSET U |-> h[s]] = [s \in SUBSET U |-> Term(f, h, s)]
  BY <1>1
<1> QED BY <1>2, <1>3 DEF Solves

(* Two solutions agree.                                                       *)
LEMMA SolvesOne ==
  ASSUME NEW f, NEW S, IsFiniteSet(S), NEW g, NEW h, Solves(g, f, S), Solves(h, f, S)
  PROVE  g = h
<1> DEFINE T == {s \in SUBSET S : g[s] # h[s]}
<1>1. T = {}
  <2> SUFFICES ASSUME T # {} PROVE FALSE OBVIOUS
  <2>1. PICK x \in T : \A y \in T : y \subseteq x => y = x
    <3> HIDE DEF T
    <3>1. T \in SUBSET (SUBSET S) BY DEF T
    <3> QED BY Smallest, <3>1
  <2>2. x \in SUBSET S /\ g[x] # h[x] OBVIOUS
  <2>3. g[x] = Term(f, g, x) /\ h[x] = Term(f, h, x) BY <2>2 DEF Solves
  <2>4. x # {} BY <2>2, <2>3 DEF Term
  <2>5. Pick(x) \in x BY <2>4, PickIn
  <2>6. x \ {Pick(x)} \in SUBSET S BY <2>2
  <2>7. g[x \ {Pick(x)}] = h[x \ {Pick(x)}] BY <2>6, <2>1, <2>5
  <2> QED BY <2>2, <2>3, <2>7 DEF Term
<1>2. \A s \in SUBSET S : g[s] = h[s] BY <1>1
<1>3. g = [s \in SUBSET S |-> g[s]] /\ h = [s \in SUBSET S |-> h[s]] BY DEF Solves
<1> QED BY <1>2, <1>3

(* There is a solution.                                                       *)
LEMMA SolvesSome ==
  ASSUME NEW f, NEW S, IsFiniteSet(S)
  PROVE  Solves(Iter(f, S), f, S)
<1> DEFINE T == {U \in SUBSET S : ~\E g : Solves(g, f, U)}
<1>1. T = {}
  <2> SUFFICES ASSUME T # {} PROVE FALSE OBVIOUS
  <2>1. PICK U \in T : \A y \in T : y \subseteq U => y = U
    <3> HIDE DEF T
    <3>1. T \in SUBSET (SUBSET S) BY DEF T
    <3> QED BY Smallest, <3>1
  <2>2. U \in SUBSET S /\ ~\E g : Solves(g, f, U) OBVIOUS
  <2>3. ASSUME NEW V \in SUBSET U, V # U PROVE Solves(Iter(f, V), f, V)
    <3>1. V \notin T BY <2>1, <2>3
    <3>2. \E g : Solves(g, f, V) BY <3>1, <2>2
    <3> QED BY <3>2 DEF Iter
  <2>4. ASSUME NEW V \in SUBSET U, V # U, NEW W \in SUBSET V PROVE Iter(f, V)[W] = Iter(f, W)[W]
    <3>1. Solves([s \in SUBSET W |-> Iter(f, V)[s]], f, W) BY <2>3, <2>4, SolvesCut
    <3>2. W # U /\ W \in SUBSET U BY <2>4
    <3>3. Solves(Iter(f, W), f, W) BY <2>3, <3>2
    <3>4. IsFiniteSet(W) BY <2>2, <3>2, FS_Subset
    <3>5. Iter(f, W) = [s \in SUBSET W |-> Iter(f, V)[s]] BY <3>1, <3>3, <3>4, SolvesOne
    <3> QED BY <3>5
  <2> DEFINE last == IF U = {} THEN 0 ELSE f[Pick(U)] + Iter(f, U \ {Pick(U)})[U \ {Pick(U)}]
             h == [V \in SUBSET U |-> IF V = U THEN last ELSE Iter(f, V)[V]]
  <2>5. ASSUME NEW V \in SUBSET U PROVE h[V] = Term(f, h, V)
    <3>1. CASE V = {}
      <4>1. CASE V = U BY <4>1, <3>1 DEF Term
      <4>2. CASE V # U
        <5>1. Iter(f, V)[V] = Term(f, Iter(f, V), V) BY <2>3, <4>2 DEF Solves
        <5> QED BY <5>1, <3>1, <4>2 DEF Term
      <4> QED BY <4>1, <4>2
    <3>2. CASE V # {}
      <4> DEFINE W == V \ {Pick(V)}
      <4>1. W \in SUBSET U /\ W # U /\ W \in SUBSET V BY <3>2, PickIn
      <4>2. h[W] = Iter(f, W)[W] BY <4>1
      <4>3. CASE V = U BY <4>2, <4>3, <3>2 DEF Term
      <4>4. CASE V # U
        <5>1. Iter(f, V)[V] = Term(f, Iter(f, V), V) BY <2>3, <4>4 DEF Solves
        <5>2. Iter(f, V)[W] = Iter(f, W)[W] BY <2>4, <4>4, <4>1
        <5> HIDE DEF W
        <5>3. h[V] = Iter(f, V)[V] BY <4>4
        <5> HIDE DEF h
        <5> QED BY <5>1, <5>2, <5>3, <4>2 DEF Term, W
      <4> QED BY <4>3, <4>4
    <3> QED BY <3>1, <3>2
  <2>6. Solves(h, f, U)
    <3>1. h = [V \in SUBSET U |-> h[V]] OBVIOUS
    <3>2. [V \in SUBSET U |-> h[V]] = [V \in SUBSET U |-> Term(f, h, V)] BY <2>5
    <3> HIDE DEF h
    <3> QED BY <3>1, <3>2 DEF Solves
  <2> QED BY <2>6, <2>2
<1>2. \E g : Solves(g, f, S)
  <2>1. S \in SUBSET S OBVIOUS
  <2> QED BY <2>1, <1>1
<1> QED BY <1>2 DEF Iter

(* The sum over no element, and over one more.                                *)
LEMMA SumEmpty == ASSUME NEW f PROVE Sum(f, {}) = 0
<1>1. IsFiniteSet({}) BY FS_EmptySet
<1>2. Solves(Iter(f, {}), f, {}) BY <1>1, SolvesSome
<1> QED BY <1>2, SumIter DEF Solves, Term

LEMMA SumPick ==
  ASSUME NEW f, NEW S, IsFiniteSet(S), S # {}
  PROVE  Sum(f, S) = f[Pick(S)] + Sum(f, S \ {Pick(S)})
<1> DEFINE U == S \ {Pick(S)}
<1>1. IsFiniteSet(U) /\ U \in SUBSET S BY FS_Subset
<1>2. Solves(Iter(f, S), f, S) /\ Solves(Iter(f, U), f, U) BY <1>1, SolvesSome
<1>3. Iter(f, S)[S] = f[Pick(S)] + Iter(f, S)[U] BY <1>2 DEF Solves, Term
<1>4. Iter(f, U) = [s \in SUBSET U |-> Iter(f, S)[s]]
  <2>1. Solves([s \in SUBSET U |-> Iter(f, S)[s]], f, U)
    <3> HIDE DEF U
    <3> QED BY <1>1, <1>2, SolvesCut
  <2> HIDE DEF U
  <2> QED BY <2>1, <1>1, <1>2, SolvesOne
<1>5. Iter(f, U)[U] = Iter(f, S)[U] BY <1>4
<1> QED BY <1>3, <1>5, SumIter

(* A sum of integers is one.                                                  *)
LEMMA SumInt ==
  ASSUME NEW f, NEW S, IsFiniteSet(S), \A x \in S : f[x] \in Int
  PROVE  Sum(f, S) \in Int
<1> DEFINE T == {U \in SUBSET S : Sum(f, U) \notin Int}
<1>1. T = {}
  <2> SUFFICES ASSUME T # {} PROVE FALSE OBVIOUS
  <2>1. PICK U \in T : \A y \in T : y \subseteq U => y = U
    <3> HIDE DEF T
    <3>1. T \in SUBSET (SUBSET S) BY DEF T
    <3> QED BY Smallest, <3>1
  <2>2. U # {} BY <2>1, SumEmpty
  <2>3. Pick(U) \in U BY <2>2, PickIn
  <2>4. IsFiniteSet(U) BY FS_Subset
  <2>5. Sum(f, U \ {Pick(U)}) \in Int BY <2>1, <2>3
  <2>6. Sum(f, U) = f[Pick(U)] + Sum(f, U \ {Pick(U)}) BY <2>2, <2>4, SumPick
  <2>7. f[Pick(U)] \in Int BY <2>3
  <2>8. Sum(f, U) \in Int BY <2>5, <2>6, <2>7
  <2> QED BY <2>8
<1> QED BY <1>1

(* Any element may be taken out first.                                        *)
LEMMA SumTake ==
  ASSUME NEW f, NEW S, IsFiniteSet(S), \A y \in S : f[y] \in Int, NEW x \in S
  PROVE  Sum(f, S) = f[x] + Sum(f, S \ {x})
<1> DEFINE T == {U \in SUBSET S : \E y \in U : Sum(f, U) # f[y] + Sum(f, U \ {y})}
<1>1. T = {}
  <2> SUFFICES ASSUME T # {} PROVE FALSE OBVIOUS
  <2>1. PICK U \in T : \A y \in T : y \subseteq U => y = U
    <3> HIDE DEF T
    <3>1. T \in SUBSET (SUBSET S) BY DEF T
    <3> QED BY Smallest, <3>1
  <2>2. PICK y \in U : Sum(f, U) # f[y] + Sum(f, U \ {y}) BY <2>1
  <2>3. PICK p \in U : p = Pick(U) BY <2>2, PickIn
  <2>4. U \in SUBSET S BY <2>1
  <2>5. IsFiniteSet(U) BY <2>4, FS_Subset
  <2>6. Sum(f, U) = f[p] + Sum(f, U \ {p}) BY <2>2, <2>3, <2>5, SumPick
  <2>7. y # p BY <2>2, <2>6
  <2>8. U \ {p} \notin T /\ U \ {y} \notin T /\ U \ {p} \in SUBSET S /\ U \ {y} \in SUBSET S
    BY <2>1, <2>2, <2>3, <2>4
  <2>9. Sum(f, U \ {p}) = f[y] + Sum(f, (U \ {p}) \ {y})
    BY <2>7, <2>8, <2>2
  <2>10. Sum(f, U \ {y}) = f[p] + Sum(f, (U \ {y}) \ {p})
    BY <2>7, <2>8, <2>3
  <2>11. Sum(f, (U \ {y}) \ {p}) = Sum(f, (U \ {p}) \ {y})
    <3>1. (U \ {y}) \ {p} = (U \ {p}) \ {y} OBVIOUS
    <3> QED BY <3>1
  <2>12. IsFiniteSet((U \ {y}) \ {p}) BY <2>5, FS_Subset
  <2>13. Sum(f, (U \ {y}) \ {p}) \in Int BY <2>12, <2>4, SumInt
  <2>14. f[p] \in Int /\ f[y] \in Int BY <2>3, <2>4, <2>2
  <2> HIDE DEF T
  <2> QED BY <2>2, <2>6, <2>9, <2>10, <2>11, <2>13, <2>14
<1> QED BY <1>1

(* Equal terms, equal sums; smaller terms, no greater sum.                    *)
LEMMA SumAtMost ==
  ASSUME NEW f, NEW g, NEW S, IsFiniteSet(S),
         \A x \in S : f[x] \in Int /\ g[x] \in Int /\ f[x] <= g[x]
  PROVE  Sum(f, S) <= Sum(g, S)
<1> DEFINE T == {U \in SUBSET S : ~(Sum(f, U) <= Sum(g, U))}
<1>1. T = {}
  <2> SUFFICES ASSUME T # {} PROVE FALSE OBVIOUS
  <2>1. PICK U \in T : \A y \in T : y \subseteq U => y = U
    <3> HIDE DEF T
    <3>1. T \in SUBSET (SUBSET S) BY DEF T
    <3> QED BY Smallest, <3>1
  <2>2. U # {}
    <3>1. Sum(f, {}) <= Sum(g, {}) BY SumEmpty
    <3> QED BY <3>1
  <2>3. PICK p \in U : p = Pick(U) BY <2>2, PickIn
  <2>4. U \in SUBSET S BY <2>1
  <2>5. IsFiniteSet(U) /\ IsFiniteSet(U \ {p}) BY <2>4, FS_Subset
  <2>6. Sum(f, U) = f[p] + Sum(f, U \ {p}) /\ Sum(g, U) = g[p] + Sum(g, U \ {p})
    BY <2>2, <2>3, <2>5, SumPick
  <2>7. Sum(f, U \ {p}) <= Sum(g, U \ {p}) BY <2>1, <2>3, <2>4
  <2>8. Sum(f, U \ {p}) \in Int /\ Sum(g, U \ {p}) \in Int BY <2>5, <2>4, SumInt
  <2>9. f[p] \in Int /\ g[p] \in Int /\ f[p] <= g[p] BY <2>3, <2>4
  <2>10. ~(Sum(f, U) <= Sum(g, U)) BY <2>1
  <2> HIDE DEF T
  <2> QED BY <2>6, <2>7, <2>8, <2>9, <2>10
<1> QED BY <1>1

LEMMA SumSame ==
  ASSUME NEW f, NEW g, NEW S, IsFiniteSet(S), \A x \in S : f[x] \in Int /\ g[x] = f[x]
  PROVE  Sum(g, S) = Sum(f, S)
<1>1. Sum(f, S) \in Int /\ Sum(g, S) \in Int BY SumInt
<1>2. Sum(f, S) <= Sum(g, S) /\ Sum(g, S) <= Sum(f, S) BY SumAtMost
<1> QED BY <1>1, <1>2

LEMMA SumZero ==
  ASSUME NEW f, NEW S, IsFiniteSet(S), \A x \in S : f[x] = 0
  PROVE  Sum(f, S) = 0
<1> DEFINE T == {U \in SUBSET S : Sum(f, U) # 0}
<1>1. T = {}
  <2> SUFFICES ASSUME T # {} PROVE FALSE OBVIOUS
  <2>1. PICK U \in T : \A y \in T : y \subseteq U => y = U
    <3> HIDE DEF T
    <3>1. T \in SUBSET (SUBSET S) BY DEF T
    <3> QED BY Smallest, <3>1
  <2>2. U # {} BY <2>1, SumEmpty
  <2>3. Pick(U) \in U BY <2>2, PickIn
  <2>5. IsFiniteSet(U) BY FS_Subset
  <2>6. Sum(f, U) = f[Pick(U)] + Sum(f, U \ {Pick(U)}) BY <2>2, <2>5, SumPick
  <2>7. Sum(f, U \ {Pick(U)}) = 0 BY <2>1, <2>3
  <2>9. f[Pick(U)] = 0 BY <2>3
  <2> QED BY <2>6, <2>7, <2>9, <2>1
<1> QED BY <1>1

(* One term changes.                                                          *)
LEMMA SumChange ==
  ASSUME NEW f, NEW g, NEW S, IsFiniteSet(S), NEW x \in S,
         \A y \in S : f[y] \in Int, g[x] \in Int, \A y \in S \ {x} : g[y] = f[y]
  PROVE  Sum(g, S) = Sum(f, S) - f[x] + g[x]
<1>1. IsFiniteSet(S \ {x}) BY FS_Subset
<1>2. Sum(f, S) = f[x] + Sum(f, S \ {x}) BY SumTake
<1>3. Sum(g, S) = g[x] + Sum(g, S \ {x}) BY SumTake
<1>4. Sum(g, S \ {x}) = Sum(f, S \ {x}) BY <1>1, SumSame
<1>5. Sum(f, S \ {x}) \in Int BY <1>1, SumInt
<1> QED BY <1>2, <1>3, <1>4, <1>5

(* A sum of naturals is one.                                                  *)
LEMMA SumNat ==
  ASSUME NEW f, NEW S, IsFiniteSet(S), \A x \in S : f[x] \in Nat
  PROVE  Sum(f, S) \in Nat
<1> DEFINE z == [x \in S |-> 0]
<1>1. Sum(z, S) = 0
  BY SumZero
<1>2. \A x \in S : z[x] \in Int /\ f[x] \in Int /\ z[x] <= f[x]
  OBVIOUS
<1>3. Sum(f, S) \in Int
  BY SumInt
<1> HIDE DEF z
<1>4. Sum(z, S) <= Sum(f, S)
  BY <1>2, SumAtMost
<1> QED
  BY <1>1, <1>3, <1>4

-----------------------------------------------------------------------------
(* Types, with the shape of every record.                                     *)
Statuses == {"none", "pending", "approved", "rejected", "cancelled", "withdrawn"}
Doc == [status : Statuses, level : Nat \ {0}, paid : Nat, drawn : [Claims -> Nat]]
Local == [pc : Steps, req : Requests \cup {None}, doc : Doc, plan : [Claims -> Nat],
          lot : Claims \cup {None}, asOf : Nat]

Posted == [credit : [Claims -> Nat], expiry : [Claims -> Nat],
           usage : [Leaves -> [Claims -> Nat]], reversal : [Leaves -> [Claims -> Nat]]]

DocsTyped ==
  /\ request \in [Requests -> Doc]
  /\ lot \in [Claims -> Int]
  /\ posted \in Posted
  /\ pending \in [Years -> Int]

ForLeave == {"leaveInsert", "reserve", "consume", "draw", "charge", "settle", "save",
             "restore", "unuse", "withdrawSave"}
ForEither == {"decide", "refuse", "cancelSave", "release"}
AtLot == {"charge", "unuse", "zero"}

(* What a handler works on, by where it is.                                   *)
PlaceOK(h) ==
  /\ h.pc \in {"claimInsert", "mint"} => h.req \in Claims
  /\ h.pc \in ForLeave => h.req \in Leaves
  /\ h.pc \in ForEither => h.req \in Requests
  /\ h.pc \in AtLot => h.lot \in Claims

Typed ==
  /\ day \in 0 .. MaxDay /\ crashes \in 0 .. MaxCrashes
  /\ DocsTyped
  /\ handler \in [Callers -> Local]
  /\ \A p \in Callers : PlaceOK(handler[p])

(* A request is inserted by one handler, and nobody else knows of it.         *)
Inserting == {"claimInsert", "leaveInsert"}
InsertsAlone ==
  \A p \in Callers :
    handler[p].pc \in Inserting => /\ request[handler[p].req].status = "none"
                                   /\ \A q \in Callers \ {p} : handler[q].req # handler[p].req

(* The paid days that a handler has read are those of the request.            *)
Knowing == {"decide", "reserve", "consume", "draw", "charge"}
ReadsHold ==
  \A p \in Callers :
    handler[p].pc \in Knowing => /\ handler[p].doc.paid = request[handler[p].req].paid
                                 /\ request[handler[p].req].status # "none"

(* A claim that has minted its lot, or is about to, has been approved.        *)
Granted(s) == s \in {"approved", "cancelled"}
MintInv ==
  /\ \A c \in Claims : /\ posted.credit[c] \in {0, Worth[c]}
                       /\ posted.credit[c] > 0 => Granted(request[c].status)
  /\ \A p \in Callers :
       handler[p].pc = "mint" =>
         /\ posted.credit[handler[p].req] = 0 /\ Granted(request[handler[p].req].status)
         /\ \A q \in Callers \ {p} : handler[q].pc = "mint" => handler[q].req # handler[p].req

(* A leave is finalised by one handler, after its verdict; what it has        *)
(* charged and what it still plans to charge are the paid days.               *)
Decided(s) == s \notin {"none", "pending"}
Drawn(used, l) == Sum(used[l], Claims)
Finalizing(h) == \/ h.pc \in {"consume", "draw", "charge"}
                 \/ h.pc = "reserve" /\ ChainOf[h.req] = 0
ChargeInv ==
  /\ \A l \in Leaves : /\ Drawn(posted.usage, l) <= request[l].paid
                       /\ posted.usage[l] # Nothing => Decided(request[l].status)
  /\ \A p \in Callers :
       Finalizing(handler[p]) =>
         /\ Decided(request[handler[p].req].status)
         /\ \A q \in Callers \ {p} : Finalizing(handler[q]) => handler[q].req # handler[p].req
         /\ handler[p].pc \in {"reserve", "consume"} => posted.usage[handler[p].req] = Nothing
         /\ handler[p].pc \in Drawing =>
              Drawn(posted.usage, handler[p].req) + Sum(handler[p].plan, Claims) = handler[p].doc.paid

(* Draws are planned from lots that had not expired; the job is alone, and a  *)
(* lot that it has read only grows until it is zeroed.                        *)
PlansHold ==
  /\ \A p \in Callers :
       handler[p].pc \in Drawing =>
         /\ handler[p].asOf <= day
         /\ \A c \in Claims : handler[p].plan[c] > 0 => Expires(c) > handler[p].asOf
  /\ \A p \in Callers :
       handler[p].pc \in Job =>
         /\ \A q \in Callers \ {p} : handler[q].pc \notin Job
         /\ handler[p].pc = "zero" => handler[p].plan[handler[p].lot] > 0
         /\ \A c \in Claims : handler[p].plan[c] > 0 =>
              /\ handler[p].plan[c] <= lot[c]
              /\ Expires(c) <= day
              /\ \A q \in Callers : handler[q].pc \in Drawing => handler[q].plan[c] = 0

(* What a handler in the middle of a pair of writes has taken from lot c and  *)
(* not posted, or posted and not taken.                                       *)
Between(h, c) ==
  IF h.lot # c THEN 0
  ELSE IF h.pc = "charge" THEN h.plan[c]
  ELSE IF h.pc \in {"unuse", "zero"} THEN - h.plan[c]
  ELSE 0
InFlight(c) == Sum([p \in Callers |-> Between(handler[p], c)], Callers)
BooksInv == crashes = 0 => \A c \in Claims : InFlight(c) <= Explained(c) - lot[c]

IInv == Typed /\ InsertsAlone /\ ReadsHold /\ MintInv /\ ChargeInv /\ PlansHold /\ BooksInv
-----------------------------------------------------------------------------
(* What a step does to the record of its handler, field by field.             *)
HandlersTyped == handler \in [Callers -> Local]

(* The handler of p becomes h, and no other changes.                          *)
Moved(p) == /\ handler' \in [Callers -> Local]
            /\ \A q \in Callers \ {p} : handler'[q] = handler[q]

SameRequest(g, h) == g.req = h.req /\ g.doc = h.doc
SamePlan(g, h) == g.plan = h.plan /\ g.lot = h.lot /\ g.asOf = h.asOf

(* It returns; it goes on at pc.                                              *)
Ends(p) == Moved(p) /\ handler'[p] = Rest
Goes(p, pc) == /\ Moved(p) /\ handler'[p].pc = pc
               /\ SameRequest(handler'[p], handler[p]) /\ SamePlan(handler'[p], handler[p])

LEMMA MovedTo ==
  ASSUME HandlersTyped, NEW p \in Callers, NEW h \in Local, handler' = [handler EXCEPT ![p] = h]
  PROVE  Moved(p) /\ handler'[p] = h
BY DEF HandlersTyped, Moved

LEMMA RestTyped ==
  /\ Rest \in Local
  /\ Rest.pc = "rest" /\ Rest.req = None /\ Rest.lot = None /\ Rest.plan = Nothing
BY DEF Rest, Local, NoRequest, Nothing, Doc, Statuses, Steps

LEMMA NoRequestTyped ==
  /\ NoRequest \in Doc
  /\ NoRequest.status = "none" /\ NoRequest.paid = 0 /\ NoRequest.drawn = Nothing
BY DEF NoRequest, Nothing, Doc, Statuses

LEMMA Returns ==
  ASSUME HandlersTyped, NEW p \in Callers, Return(p)
  PROVE  Ends(p) /\ day' = day /\ crashes' = crashes
BY MovedTo, RestTyped DEF Return, Ends

LEMMA GoesOn ==
  ASSUME HandlersTyped, NEW p \in Callers, NEW pc \in Steps, Goto(p, pc)
  PROVE  Goes(p, pc) /\ day' = day /\ crashes' = crashes
<1>1. handler[p] \in Local
  BY DEF HandlersTyped
<1>2. [handler[p] EXCEPT !.pc = pc] \in Local
  BY <1>1 DEF Local
<1>3. handler' = [handler EXCEPT ![p] = [handler[p] EXCEPT !.pc = pc]]
  BY DEF Goto
<1>4. Moved(p) /\ handler'[p] = [handler[p] EXCEPT !.pc = pc]
  BY <1>2, <1>3, MovedTo
<1> QED
  BY <1>1, <1>4 DEF Goto, Goes, SameRequest, SamePlan, Local

LEMMA Begins ==
  ASSUME HandlersTyped, NEW p \in Callers, NEW pc \in Steps, NEW r \in Requests, NEW doc \in Doc,
         Begin(p, pc, r, doc)
  PROVE  /\ Moved(p) /\ handler[p].pc = "rest"
         /\ handler'[p].pc = pc /\ handler'[p].req = r /\ handler'[p].doc = doc
         /\ UNCHANGED <<day, docs, crashes>>
<1>1. handler[p] \in Local
  BY DEF HandlersTyped
<1> DEFINE h == [handler[p] EXCEPT !.pc = pc, !.req = r, !.doc = doc]
<1>2. h \in Local /\ h.pc = pc /\ h.req = r /\ h.doc = doc
  BY <1>1 DEF Local
<1>3. handler' = [handler EXCEPT ![p] = h]
  BY DEF Begin
<1> HIDE DEF h
<1>4. Moved(p) /\ handler'[p] = h
  BY <1>2, <1>3, MovedTo
<1> QED
  BY <1>2, <1>4 DEF Begin, On

LEMMA Advances ==
  ASSUME HandlersTyped, NEW p \in Callers, NEW pc \in Steps, NEW next \in Steps, Advance(p, pc, next)
  PROVE  /\ Moved(p) /\ day' = day /\ crashes' = crashes
         /\ handler'[p].pc = (IF Left(handler[p]) = {handler[p].lot} THEN next ELSE pc)
         /\ SameRequest(handler'[p], handler[p]) /\ handler'[p].asOf = handler[p].asOf
         /\ handler'[p].lot = None
         /\ handler'[p].plan = [handler[p].plan EXCEPT ![handler[p].lot] = 0]
<1>1. handler[p] \in Local
  BY DEF HandlersTyped
<1> DEFINE x == IF Left(handler[p]) = {handler[p].lot} THEN next ELSE pc
           h == [handler[p] EXCEPT !.plan[handler[p].lot] = 0, !.lot = None, !.pc = x]
<1>2. /\ h.pc = x /\ h.req = handler[p].req /\ h.doc = handler[p].doc /\ h.asOf = handler[p].asOf
      /\ h.lot = None /\ h.plan = [handler[p].plan EXCEPT ![handler[p].lot] = 0]
  BY <1>1 DEF Local
<1>3. h \in Local
  <2> x \in Steps
    OBVIOUS
  <2> HIDE DEF x
  <2> QED
    BY <1>1 DEF Local
<1>4. handler' = [handler EXCEPT ![p] = h]
  BY DEF Advance
<1> HIDE DEF h
<1>5. Moved(p) /\ handler'[p] = h
  BY <1>3, <1>4, MovedTo
<1> QED
  BY <1>2, <1>5 DEF Advance, SameRequest

(* What a step does to the document of request r.                             *)
OnlyDoc(r) == /\ request' \in [Requests -> Doc]
              /\ \A s \in Requests \ {r} : request'[s] = request[s]

StatusTo(r, s) == /\ OnlyDoc(r)
                  /\ request'[r].status = s /\ request'[r].paid = request[r].paid

LEMMA StatusSet ==
  ASSUME DocsTyped, NEW r \in Requests, NEW s \in Statuses,
         request' = [request EXCEPT ![r].status = s]
  PROVE  StatusTo(r, s)
BY DEF DocsTyped, OnlyDoc, Doc, StatusTo

LEMMA LevelSet ==
  ASSUME DocsTyped, NEW r \in Requests, request' = [request EXCEPT ![r].level = @ + 1]
  PROVE  StatusTo(r, request[r].status)
BY DEF DocsTyped, OnlyDoc, Doc, StatusTo

LEMMA DrawnSet ==
  ASSUME DocsTyped, NEW r \in Requests, NEW d \in [Claims -> Nat],
         request' = [request EXCEPT ![r].drawn = d]
  PROVE  StatusTo(r, request[r].status)
BY DEF DocsTyped, OnlyDoc, Doc, StatusTo

Fills(r, s, n) == request' = [request EXCEPT ![r].status = s, ![r].paid = n]

LEMMA PaidSet ==
  ASSUME DocsTyped, NEW r \in Requests, NEW s \in Statuses, NEW n \in Nat, Fills(r, s, n)
  PROVE  /\ OnlyDoc(r)
         /\ request'[r].status = s /\ request'[r].paid = n
BY DEF DocsTyped, OnlyDoc, Doc, Fills
-----------------------------------------------------------------------------
(* What each step of a handler does, in these terms.                          *)
Still == UNCHANGED <<day, crashes>>

LEMMA NamesOfSteps ==
  /\ {"rest", "claimInsert", "decide", "refuse", "cancelSave", "mint", "leaveInsert", "reserve",
      "consume", "settle", "save", "release", "restore", "unuse", "withdrawSave", "lapse", "zero",
      "draw", "charge"} = Steps
  /\ Job = {"lapse", "zero"} /\ Drawing = {"draw", "charge"}
BY DEF Steps, Job, Drawing

LEMMA HandlerIs ==
  ASSUME Typed, NEW p \in Callers
  PROVE  handler[p] \in Local /\ HandlersTyped /\ DocsTyped /\ PlaceOK(handler[p])
BY DEF Typed, HandlersTyped

Adds(y, n) == pending' = [pending EXCEPT ![y] = @ + n]
Takes(y, n) == pending' = [pending EXCEPT ![y] = @ - n]

LEMMA PendingMoved ==
  ASSUME DocsTyped, NEW y, NEW n \in Nat, Adds(y, n) \/ Takes(y, n)
  PROVE  pending' \in [Years -> Int]
<1>1. CASE y \in Years
  <2>1. pending[y] \in Int
    BY <1>1 DEF DocsTyped
  <2> QED
    BY <2>1 DEF DocsTyped, Adds, Takes
<1>2. CASE y \notin Years
  BY <1>2 DEF DocsTyped, Adds, Takes
<1> QED
  BY <1>1, <1>2

LEMMA InsertClaimDoes ==
  ASSUME Typed, NEW p \in Callers, InsertClaim(p)
  PROVE  /\ handler[p].pc = "claimInsert" /\ handler[p].req \in Claims
         /\ StatusTo(handler[p].req, Status(handler[p].req))
         /\ \/ ChainOf[handler[p].req] = 0 /\ Goes(p, "mint")
            \/ ChainOf[handler[p].req] # 0 /\ Ends(p)
         /\ Still /\ UNCHANGED <<lot, posted, pending>>
<1>1. handler[p].pc = "claimInsert" /\ handler[p].req \in Claims
  BY HandlerIs DEF InsertClaim, On, PlaceOK
<1>2. Status(handler[p].req) \in Statuses
  BY DEF Status, Statuses
<1> QED
  BY <1>1, <1>2, HandlerIs, StatusSet, GoesOn, Returns, NamesOfSteps DEF InsertClaim, Requests, Still

LEMMA MintDoes ==
  ASSUME Typed, NEW p \in Callers, Mint(p)
  PROVE  /\ handler[p].pc = "mint" /\ handler[p].req \in Claims
         /\ posted' \in Posted /\ lot' \in [Claims -> Int]
         /\ posted'.credit[handler[p].req] = posted.credit[handler[p].req] + Worth[handler[p].req]
         /\ lot'[handler[p].req] = lot[handler[p].req] + Worth[handler[p].req]
         /\ \A c \in Claims \ {handler[p].req} : /\ posted'.credit[c] = posted.credit[c]
                                                 /\ lot'[c] = lot[c]
         /\ posted'.usage = posted.usage /\ posted'.reversal = posted.reversal
         /\ posted'.expiry = posted.expiry
         /\ Ends(p) /\ Still /\ UNCHANGED <<request, pending>>
<1>1. handler[p].pc = "mint" /\ handler[p].req \in Claims
  BY HandlerIs DEF Mint, On, PlaceOK
<1>2. Worth[handler[p].req] \in Nat
  BY <1>1, ShapeAssumption
<1>3. Ends(p) /\ Still
  BY HandlerIs, Returns DEF Mint, Still
<1>4. posted \in Posted /\ lot \in [Claims -> Int]
  BY HandlerIs DEF DocsTyped
<1>5. /\ posted' = [posted EXCEPT !.credit[handler[p].req] = @ + Worth[handler[p].req]]
      /\ lot' = [lot EXCEPT ![handler[p].req] = @ + Worth[handler[p].req]]
      /\ UNCHANGED <<request, pending>>
  BY DEF Mint
<1>6. lot' \in [Claims -> Int]
      /\ lot'[handler[p].req] = lot[handler[p].req] + Worth[handler[p].req]
      /\ \A c \in Claims \ {handler[p].req} : lot'[c] = lot[c]
  BY <1>1, <1>2, <1>4, <1>5
<1>7. /\ posted' \in Posted
      /\ posted'.credit[handler[p].req] = posted.credit[handler[p].req] + Worth[handler[p].req]
      /\ \A c \in Claims \ {handler[p].req} : posted'.credit[c] = posted.credit[c]
      /\ posted'.usage = posted.usage /\ posted'.reversal = posted.reversal
      /\ posted'.expiry = posted.expiry
  <2>1. posted.credit \in [Claims -> Nat]
    BY <1>4 DEF Posted
  <2> DEFINE f == [posted.credit EXCEPT ![handler[p].req] = @ + Worth[handler[p].req]]
  <2>2. /\ f \in [Claims -> Nat]
        /\ f[handler[p].req] = posted.credit[handler[p].req] + Worth[handler[p].req]
        /\ \A c \in Claims \ {handler[p].req} : f[c] = posted.credit[c]
    BY <1>1, <1>2, <2>1
  <2>3. posted' = [posted EXCEPT !.credit = f]
    BY <1>5
  <2> HIDE DEF f
  <2> QED
    BY <1>4, <2>2, <2>3 DEF Posted
<1> QED
  BY <1>1, <1>3, <1>5, <1>6, <1>7

LEMMA InsertLeaveDoes ==
  ASSUME Typed, NEW p \in Callers, InsertLeave(p)
  PROVE  /\ handler[p].pc = "leaveInsert" /\ handler[p].req \in Leaves
         /\ OnlyDoc(handler[p].req)
         /\ request'[handler[p].req].status = Status(handler[p].req)
         /\ request'[handler[p].req].paid = handler[p].doc.paid
         /\ Goes(p, "reserve") \/ Ends(p)
         /\ Still /\ UNCHANGED <<lot, posted, pending>>
<1>1. handler[p].pc = "leaveInsert" /\ handler[p].req \in Leaves
  BY HandlerIs DEF InsertLeave, On, PlaceOK, ForLeave
<1>2. Status(handler[p].req) \in Statuses
  BY DEF Status, Statuses
<1>3. handler[p].doc.paid \in Nat
  BY HandlerIs DEF Local, Doc
<1>4. handler[p].req \in Requests
  BY <1>1 DEF Requests
<1>5. /\ OnlyDoc(handler[p].req)
      /\ request'[handler[p].req].status = Status(handler[p].req)
      /\ request'[handler[p].req].paid = handler[p].doc.paid
  <2>1. Fills(handler[p].req, Status(handler[p].req), handler[p].doc.paid)
    BY DEF InsertLeave, Fills
  <2> QED
    BY <1>2, <1>3, <1>4, <2>1, HandlerIs, PaidSet
<1>6. (Goes(p, "reserve") \/ Ends(p)) /\ Still
  BY HandlerIs, GoesOn, Returns, NamesOfSteps DEF InsertLeave, Still
<1> QED
  BY <1>1, <1>5, <1>6 DEF InsertLeave

LEMMA ReserveDoes ==
  ASSUME Typed, NEW p \in Callers, Reserve(p)
  PROVE  /\ handler[p].pc = "reserve" /\ handler[p].req \in Leaves
         /\ \/ ChainOf[handler[p].req] = 0 /\ Goes(p, "consume")
            \/ ChainOf[handler[p].req] # 0 /\ Ends(p)
         /\ pending' \in [Years -> Int]
         /\ Still /\ UNCHANGED <<request, lot, posted>>
<1>1. handler[p].pc = "reserve" /\ handler[p].req \in Leaves
  BY HandlerIs DEF Reserve, On, PlaceOK, ForLeave
<1>2. handler[p].doc.paid \in Nat
  BY HandlerIs DEF Local, Doc
<1>3. pending' \in [Years -> Int]
  <2>1. Adds(BucketOf(handler[p].req), handler[p].doc.paid)
    BY DEF Reserve, Adds
  <2> QED
    BY <1>2, <2>1, HandlerIs, PendingMoved
<1> QED
  BY <1>1, <1>3, HandlerIs, GoesOn, Returns, NamesOfSteps DEF Reserve, Still

LEMMA DecideDoes ==
  ASSUME Typed, NEW p \in Callers, Decide(p)
  PROVE  /\ handler[p].pc = "decide" /\ handler[p].req \in Requests
         /\ request[handler[p].req].status = "pending"
         /\ \/ /\ StatusTo(handler[p].req, "approved")
               /\ \/ handler[p].req \in Claims /\ Goes(p, "mint")
                  \/ handler[p].req \in Leaves /\ Goes(p, "consume")
                  \/ handler[p].req \in Leaves /\ Ends(p)
            \/ StatusTo(handler[p].req, "pending") /\ Ends(p)
         /\ Still /\ UNCHANGED <<lot, posted, pending>>
<1>1. handler[p].pc = "decide" /\ handler[p].req \in Requests
  BY HandlerIs DEF Decide, On, PlaceOK, ForEither
<1>2. request[handler[p].req].status = "pending"
  BY DEF Decide, Undecided
<1>3. "approved" \in Statuses
  BY DEF Statuses
<1>4. CASE Final(handler[p].doc, handler[p].req)
  <2>1. StatusTo(handler[p].req, "approved")
    BY <1>1, <1>3, <1>4, HandlerIs, StatusSet DEF Decide
  <2> QED
    BY <1>1, <1>2, <1>4, <2>1, HandlerIs, GoesOn, Returns, NamesOfSteps DEF Decide, Requests, Still
<1>5. CASE ~Final(handler[p].doc, handler[p].req)
  <2>1. StatusTo(handler[p].req, "pending")
    BY <1>1, <1>2, <1>5, HandlerIs, LevelSet DEF Decide
  <2> QED
    BY <1>1, <1>2, <1>5, <2>1, HandlerIs, Returns DEF Decide, Still
<1> QED
  BY <1>4, <1>5

LEMMA RefuseDoes ==
  ASSUME Typed, NEW p \in Callers, Refuse(p)
  PROVE  /\ handler[p].pc = "refuse" /\ handler[p].req \in Requests
         /\ request[handler[p].req].status = "pending"
         /\ StatusTo(handler[p].req, "rejected")
         /\ Goes(p, "release") \/ Ends(p)
         /\ Still /\ UNCHANGED <<lot, posted, pending>>
<1>1. handler[p].pc = "refuse" /\ handler[p].req \in Requests
  BY HandlerIs DEF Refuse, On, PlaceOK, ForEither
<1>2. "rejected" \in Statuses
  BY DEF Statuses
<1> QED
  BY <1>1, <1>2, HandlerIs, StatusSet, GoesOn, Returns, NamesOfSteps
  DEF Refuse, Undecided, ThenRelease, Still

LEMMA CancelSaveDoes ==
  ASSUME Typed, NEW p \in Callers, CancelSave(p)
  PROVE  /\ handler[p].pc = "cancelSave" /\ handler[p].req \in Requests
         /\ StatusTo(handler[p].req, "cancelled")
         /\ Goes(p, "release") \/ Ends(p)
         /\ Still /\ UNCHANGED <<lot, posted, pending>>
<1>1. handler[p].pc = "cancelSave" /\ handler[p].req \in Requests
  BY HandlerIs DEF CancelSave, On, PlaceOK, ForEither
<1>2. "cancelled" \in Statuses
  BY DEF Statuses
<1> QED
  BY <1>1, <1>2, HandlerIs, StatusSet, GoesOn, Returns, NamesOfSteps
  DEF CancelSave, ThenRelease, Still

LEMMA WithdrawSaveDoes ==
  ASSUME Typed, NEW p \in Callers, WithdrawSave(p)
  PROVE  /\ handler[p].pc = "withdrawSave" /\ handler[p].req \in Leaves
         /\ StatusTo(handler[p].req, "withdrawn")
         /\ Ends(p) /\ Still /\ UNCHANGED <<lot, posted, pending>>
<1>1. handler[p].pc = "withdrawSave" /\ handler[p].req \in Leaves
  BY HandlerIs DEF WithdrawSave, On, PlaceOK, ForLeave
<1>2. "withdrawn" \in Statuses
  BY DEF Statuses
<1> QED
  BY <1>1, <1>2, HandlerIs, StatusSet, Returns DEF WithdrawSave, Requests, Still

(* Steps that write no document, or only the reservation.                     *)
LEMMA QuietDoes ==
  ASSUME Typed, NEW p \in Callers, Conflict(p) \/ Short(p) \/ Release(p) \/ Settle(p)
  PROVE  /\ \/ Ends(p)
            \/ handler[p].pc = "settle" /\ handler[p].req \in Leaves /\ Goes(p, "save")
         /\ pending' \in [Years -> Int]
         /\ Still /\ UNCHANGED <<request, lot, posted>>
<1>1. handler[p].doc.paid \in Nat
  BY HandlerIs DEF Local, Doc
<1>2. CASE Conflict(p) \/ Short(p)
  BY <1>2, HandlerIs, Returns DEF Conflict, Short, docs, DocsTyped, Still
<1>3. CASE Release(p)
  <2>1. pending' \in [Years -> Int]
    <3>1. Takes(BucketOf(handler[p].req), handler[p].doc.paid)
      BY <1>3 DEF Release, Takes
    <3> QED
      BY <1>1, <3>1, HandlerIs, PendingMoved
  <2> QED
    BY <1>3, <2>1, HandlerIs, Returns DEF Release, Still
<1>4. CASE Settle(p)
  <2>1. handler[p].pc = "settle" /\ handler[p].req \in Leaves
    BY <1>4, HandlerIs DEF Settle, On, PlaceOK, ForLeave
  <2>2. pending' \in [Years -> Int]
    <3>1. Takes(BucketOf(handler[p].req), handler[p].doc.paid)
      BY <1>4 DEF Settle, Takes
    <3> QED
      BY <1>1, <3>1, HandlerIs, PendingMoved
  <2> QED
    BY <1>4, <2>1, <2>2, HandlerIs, GoesOn, NamesOfSteps DEF Settle, Still
<1> QED
  BY <1>2, <1>3, <1>4

LEMMA SaveDoes ==
  ASSUME Typed, NEW p \in Callers, Save(p)
  PROVE  /\ handler[p].pc = "save" /\ handler[p].req \in Leaves
         /\ StatusTo(handler[p].req, request[handler[p].req].status)
         /\ Ends(p) /\ Still /\ UNCHANGED <<lot, posted, pending>>
<1>1. handler[p].pc = "save" /\ handler[p].req \in Leaves
  BY HandlerIs DEF Save, On, PlaceOK, ForLeave
<1>2. handler[p].doc.drawn \in [Claims -> Nat]
  BY HandlerIs DEF Local, Doc
<1> QED
  BY <1>1, <1>2, HandlerIs, DrawnSet, Returns DEF Save, Requests, Still
(* The plan of a handler is changed at one lot.                               *)
LEMMA ConsumeDoes ==
  ASSUME Typed, NEW p \in Callers, Consume(p)
  PROVE  /\ handler[p].pc = "consume" /\ handler[p].req \in Leaves
         /\ Moved(p) /\ handler'[p].pc = "draw"
         /\ SameRequest(handler'[p], handler[p])
         /\ handler'[p].plan \in [Claims -> 0 .. handler[p].doc.paid]
         /\ Fifo(handler'[p].plan, handler[p].doc.paid)
         /\ handler'[p].asOf = day
         /\ Still /\ UNCHANGED docs
<1>1. handler[p].pc = "consume" /\ handler[p].req \in Leaves
  BY HandlerIs DEF Consume, On, PlaceOK, ForLeave
<1>2. PICK a \in Allocations(handler[p].doc.paid) :
        handler' = [handler EXCEPT ![p].pc = "draw", ![p].plan = a, ![p].asOf = day]
  BY DEF Consume
<1>3. handler[p] \in Local /\ handler[p].doc.paid \in Nat /\ day \in Nat
  BY HandlerIs DEF Local, Doc, Typed
<1> DEFINE h == [handler[p] EXCEPT !.pc = "draw", !.plan = a, !.asOf = day]
<1>4. a \in [Claims -> 0 .. handler[p].doc.paid] /\ Fifo(a, handler[p].doc.paid)
  BY <1>2 DEF Allocations
<1>5. a \in [Claims -> Nat]
  BY <1>3, <1>4
<1>6. h \in Local
  BY <1>3, <1>5, NamesOfSteps DEF Local
<1>7. /\ h.pc = "draw" /\ h.plan = a /\ h.asOf = day
      /\ h.req = handler[p].req /\ h.doc = handler[p].doc
  BY <1>3 DEF Local
<1>8. handler' = [handler EXCEPT ![p] = h]
  BY <1>2
<1> HIDE DEF h
<1>9. Moved(p) /\ handler'[p] = h
  BY <1>6, <1>8, HandlerIs, MovedTo
<1> QED
  BY <1>1, <1>4, <1>7, <1>9 DEF Consume, Still, SameRequest

(* A step of a loop that takes up lot c at pc, and a write of the lot.        *)
TakesUp(p, c, pc) ==
  /\ Moved(p) /\ handler'[p].pc = pc /\ handler'[p].lot = c
  /\ SameRequest(handler'[p], handler[p])
  /\ handler'[p].plan = handler[p].plan /\ handler'[p].asOf = handler[p].asOf
LotBy(c, n) == /\ lot' \in [Claims -> Int] /\ lot'[c] = lot[c] + n
               /\ \A b \in Claims \ {c} : lot'[b] = lot[b]

LotAt(p, c, pc) == handler' = [handler EXCEPT ![p].pc = pc, ![p].lot = c]

LEMMA TakenUp ==
  ASSUME Typed, NEW p \in Callers, NEW c \in Claims, NEW pc \in Steps, LotAt(p, c, pc)
  PROVE  TakesUp(p, c, pc)
<1>1. handler[p] \in Local
  BY HandlerIs
<1> DEFINE h == [handler[p] EXCEPT !.pc = pc, !.lot = c]
<1>2. h \in Local /\ h.pc = pc /\ h.lot = c /\ h.req = handler[p].req /\ h.doc = handler[p].doc
      /\ h.plan = handler[p].plan /\ h.asOf = handler[p].asOf
  BY <1>1 DEF Local
<1>3. handler' = [handler EXCEPT ![p] = h]
  BY DEF LotAt
<1> HIDE DEF h
<1>4. Moved(p) /\ handler'[p] = h
  BY <1>2, <1>3, HandlerIs, MovedTo
<1> QED
  BY <1>2, <1>4 DEF TakesUp, SameRequest

LEMMA PlanIs ==
  ASSUME Typed, NEW p \in Callers
  PROVE  /\ handler[p].plan \in [Claims -> Nat]
         /\ Left(handler[p]) = {c \in Claims : handler[p].plan[c] > 0}
         /\ lot \in [Claims -> Int] /\ posted \in Posted /\ handler[p].doc \in Doc
BY HandlerIs DEF Local, Left, DocsTyped

LEMMA DrawDoes ==
  ASSUME Typed, NEW p \in Callers, Draw(p)
  PROVE  /\ handler[p].pc = "draw" /\ handler[p].req \in Leaves
         /\ \E c \in Claims : /\ handler[p].plan[c] > 0
                              /\ TakesUp(p, c, "charge") /\ LotBy(c, - handler[p].plan[c])
         /\ Still /\ UNCHANGED <<request, posted, pending>>
<1>1. handler[p].pc = "draw" /\ handler[p].req \in Leaves
  BY HandlerIs DEF Draw, On, PlaceOK, ForLeave
<1>2. PICK c \in Claims : /\ IsFirst(c, handler[p])
                          /\ lot' = [lot EXCEPT ![c] = @ - handler[p].plan[c]]
                          /\ LotAt(p, c, "charge")
  BY DEF Draw, LotAt
<1>3. handler[p].plan[c] > 0 /\ handler[p].plan[c] \in Nat
  BY <1>2, PlanIs DEF IsFirst
<1>4. LotBy(c, - handler[p].plan[c])
  BY <1>2, <1>3, PlanIs DEF LotBy
<1>5. TakesUp(p, c, "charge")
  BY <1>2, TakenUp, NamesOfSteps
<1> QED
  BY <1>1, <1>3, <1>4, <1>5 DEF Draw, Still

LEMMA RestoreDoes ==
  ASSUME Typed, NEW p \in Callers, Restore(p)
  PROVE  /\ handler[p].pc = "restore" /\ handler[p].req \in Leaves
         /\ \E c \in Claims : /\ handler[p].plan[c] > 0
                              /\ TakesUp(p, c, "unuse") /\ LotBy(c, handler[p].plan[c])
         /\ Still /\ UNCHANGED <<request, posted, pending>>
<1>1. handler[p].pc = "restore" /\ handler[p].req \in Leaves
  BY HandlerIs DEF Restore, On, PlaceOK, ForLeave
<1>2. PICK c \in Claims : /\ IsFirst(c, handler[p])
                          /\ lot' = [lot EXCEPT ![c] = @ + handler[p].plan[c]]
                          /\ LotAt(p, c, "unuse")
  BY DEF Restore, LotAt
<1>3. handler[p].plan[c] > 0 /\ handler[p].plan[c] \in Nat
  BY <1>2, PlanIs DEF IsFirst
<1>4. LotBy(c, handler[p].plan[c])
  BY <1>2, <1>3, PlanIs DEF LotBy
<1>5. TakesUp(p, c, "unuse")
  BY <1>2, TakenUp, NamesOfSteps
<1> QED
  BY <1>1, <1>3, <1>4, <1>5 DEF Restore, Still

(* A post to one entry of the ledger.                                         *)
ExpiryBy(c, n) ==
  /\ posted' \in Posted
  /\ posted'.expiry[c] = posted.expiry[c] + n
  /\ \A b \in Claims \ {c} : posted'.expiry[b] = posted.expiry[b]
  /\ posted'.credit = posted.credit /\ posted'.usage = posted.usage
  /\ posted'.reversal = posted.reversal

UsageBy(l, c, n) ==
  /\ posted' \in Posted
  /\ posted'.usage[l][c] = posted.usage[l][c] + n
  /\ \A b \in Claims \ {c} : posted'.usage[l][b] = posted.usage[l][b]
  /\ \A m \in Leaves \ {l} : posted'.usage[m] = posted.usage[m]
  /\ posted'.credit = posted.credit /\ posted'.expiry = posted.expiry
  /\ posted'.reversal = posted.reversal

ReversalBy(l, c, n) ==
  /\ posted' \in Posted
  /\ posted'.reversal[l][c] = posted.reversal[l][c] + n
  /\ \A b \in Claims \ {c} : posted'.reversal[l][b] = posted.reversal[l][b]
  /\ \A m \in Leaves \ {l} : posted'.reversal[m] = posted.reversal[m]
  /\ posted'.credit = posted.credit /\ posted'.expiry = posted.expiry
  /\ posted'.usage = posted.usage

LEMMA ExpiryPosted ==
  ASSUME Typed, NEW c \in Claims, NEW n \in Nat, posted' = [posted EXCEPT !.expiry[c] = @ + n]
  PROVE  ExpiryBy(c, n)
<1>1. posted \in Posted /\ posted.expiry \in [Claims -> Nat]
  BY DEF Typed, DocsTyped, Posted
<1> DEFINE f == [posted.expiry EXCEPT ![c] = @ + n]
<1>2. /\ f \in [Claims -> Nat] /\ f[c] = posted.expiry[c] + n
      /\ \A b \in Claims \ {c} : f[b] = posted.expiry[b]
  BY <1>1
<1>3. posted' = [posted EXCEPT !.expiry = f]
  OBVIOUS
<1> HIDE DEF f
<1> QED
  BY <1>1, <1>2, <1>3 DEF Posted, ExpiryBy

LEMMA UsagePosted ==
  ASSUME Typed, NEW l \in Leaves, NEW c \in Claims, NEW n \in Nat,
         posted' = [posted EXCEPT !.usage[l][c] = @ + n]
  PROVE  UsageBy(l, c, n)
<1>1. posted \in Posted /\ posted.usage \in [Leaves -> [Claims -> Nat]]
  BY DEF Typed, DocsTyped, Posted
<1> DEFINE f == [posted.usage EXCEPT ![l][c] = @ + n]
<1>2. posted.usage[l] \in [Claims -> Nat]
  BY <1>1
<1>3. /\ f \in [Leaves -> [Claims -> Nat]] /\ f[l][c] = posted.usage[l][c] + n
      /\ \A b \in Claims \ {c} : f[l][b] = posted.usage[l][b]
      /\ \A m \in Leaves \ {l} : f[m] = posted.usage[m]
  BY <1>1, <1>2
<1>4. posted' = [posted EXCEPT !.usage = f]
  OBVIOUS
<1> HIDE DEF f
<1> QED
  BY <1>1, <1>3, <1>4 DEF Posted, UsageBy

LEMMA ReversalPosted ==
  ASSUME Typed, NEW l \in Leaves, NEW c \in Claims, NEW n \in Nat,
         posted' = [posted EXCEPT !.reversal[l][c] = @ + n]
  PROVE  ReversalBy(l, c, n)
<1>1. posted \in Posted /\ posted.reversal \in [Leaves -> [Claims -> Nat]]
  BY DEF Typed, DocsTyped, Posted
<1> DEFINE f == [posted.reversal EXCEPT ![l][c] = @ + n]
<1>2. posted.reversal[l] \in [Claims -> Nat]
  BY <1>1
<1>3. /\ f \in [Leaves -> [Claims -> Nat]] /\ f[l][c] = posted.reversal[l][c] + n
      /\ \A b \in Claims \ {c} : f[l][b] = posted.reversal[l][b]
      /\ \A m \in Leaves \ {l} : f[m] = posted.reversal[m]
  BY <1>1, <1>2
<1>4. posted' = [posted EXCEPT !.reversal = f]
  OBVIOUS
<1> HIDE DEF f
<1> QED
  BY <1>1, <1>3, <1>4 DEF Posted, ReversalBy

(* A loop is done with lot c, and goes on at pc or next.                      *)
PutsDown(p, c, pc, next) ==
  /\ Moved(p)
  /\ handler'[p].pc \in {pc, next} /\ handler'[p].lot = None
  /\ handler'[p].req = handler[p].req /\ handler'[p].doc.paid = handler[p].doc.paid
  /\ handler'[p].asOf = handler[p].asOf
  /\ handler'[p].plan \in [Claims -> Nat] /\ handler'[p].plan[c] = 0
  /\ \A b \in Claims \ {c} : handler'[p].plan[b] = handler[p].plan[b]

LEMMA AdvanceDoes ==
  ASSUME Typed, NEW p \in Callers, handler[p].lot \in Claims,
         NEW pc \in Steps, NEW next \in Steps, Advance(p, pc, next)
  PROVE  PutsDown(p, handler[p].lot, pc, next) /\ Still
<1>1. handler[p].plan \in [Claims -> Nat]
  BY PlanIs
<1>2. /\ Moved(p) /\ Still
      /\ handler'[p].pc = (IF Left(handler[p]) = {handler[p].lot} THEN next ELSE pc)
      /\ SameRequest(handler'[p], handler[p]) /\ handler'[p].asOf = handler[p].asOf
      /\ handler'[p].lot = None
      /\ handler'[p].plan = [handler[p].plan EXCEPT ![handler[p].lot] = 0]
  BY HandlerIs, Advances DEF Still
<1> QED
  BY <1>1, <1>2 DEF PutsDown, SameRequest

LEMMA ChargeDoes ==
  ASSUME Typed, NEW p \in Callers, Charge(p)
  PROVE  /\ handler[p].pc = "charge" /\ handler[p].req \in Leaves /\ handler[p].lot \in Claims
         /\ UsageBy(handler[p].req, handler[p].lot, handler[p].plan[handler[p].lot])
         /\ PutsDown(p, handler[p].lot, "draw", "settle")
         /\ handler'[p].doc.drawn = [handler[p].doc.drawn EXCEPT
                                       ![handler[p].lot] = handler[p].plan[handler[p].lot]]
         /\ Still /\ UNCHANGED <<request, lot, pending>>
<1>1. handler[p].pc = "charge" /\ handler[p].req \in Leaves /\ handler[p].lot \in Claims
  BY HandlerIs DEF Charge, On, PlaceOK, ForLeave, AtLot
<1>2. handler[p].plan \in [Claims -> Nat] /\ handler[p] \in Local /\ handler[p].doc \in Doc
      /\ handler[p].doc.drawn \in [Claims -> Nat]
  BY PlanIs, HandlerIs DEF Doc
<1>3. UsageBy(handler[p].req, handler[p].lot, handler[p].plan[handler[p].lot])
  BY <1>1, <1>2, UsagePosted DEF Charge
<1> DEFINE c == handler[p].lot
           x == IF Left(handler[p]) = {c} THEN "settle" ELSE "draw"
           f == [handler[p].plan EXCEPT ![c] = 0]
           d == [handler[p].doc EXCEPT !.drawn[c] = handler[p].plan[c]]
           h == [handler[p] EXCEPT !.plan = f, !.lot = None, !.doc = d, !.pc = x]
<1>4. handler' = [handler EXCEPT ![p] = h]
  BY DEF Charge
<1>5. f \in [Claims -> Nat] /\ f[c] = 0 /\ \A b \in Claims \ {c} : f[b] = handler[p].plan[b]
  BY <1>1, <1>2
<1>6. /\ d \in Doc /\ d.paid = handler[p].doc.paid
      /\ d.drawn = [handler[p].doc.drawn EXCEPT ![c] = handler[p].plan[c]]
  <2>1. [handler[p].doc.drawn EXCEPT ![c] = handler[p].plan[c]] \in [Claims -> Nat]
    BY <1>1, <1>2
  <2> QED
    BY <1>2, <2>1 DEF Doc
<1>7. x \in Steps /\ x \in {"draw", "settle"}
  BY NamesOfSteps
<1> HIDE DEF x, f, d
<1>8. /\ h \in Local /\ h.pc = x /\ h.lot = None /\ h.plan = f /\ h.doc = d
      /\ h.req = handler[p].req /\ h.asOf = handler[p].asOf
  BY <1>2, <1>5, <1>6, <1>7 DEF Local
<1> HIDE DEF h
<1>9. Moved(p) /\ handler'[p] = h
  BY <1>4, <1>8, HandlerIs, MovedTo
<1>10. PutsDown(p, c, "draw", "settle")
  BY <1>5, <1>6, <1>7, <1>8, <1>9 DEF PutsDown
<1>11. handler'[p].doc.drawn = [handler[p].doc.drawn EXCEPT ![c] = handler[p].plan[c]]
  BY <1>6, <1>8, <1>9
<1> QED
  BY <1>1, <1>3, <1>10, <1>11 DEF Charge, Still

LEMMA UnuseDoes ==
  ASSUME Typed, NEW p \in Callers, Unuse(p)
  PROVE  /\ handler[p].pc = "unuse" /\ handler[p].req \in Leaves /\ handler[p].lot \in Claims
         /\ ReversalBy(handler[p].req, handler[p].lot, handler[p].plan[handler[p].lot])
         /\ PutsDown(p, handler[p].lot, "restore", "withdrawSave")
         /\ handler'[p].pc = "withdrawSave" => \A c \in Claims : handler'[p].plan[c] = 0
         /\ Still /\ UNCHANGED <<request, lot, pending>>
<1>1. handler[p].pc = "unuse" /\ handler[p].req \in Leaves /\ handler[p].lot \in Claims
  BY HandlerIs DEF Unuse, On, PlaceOK, ForLeave, AtLot
<1>2. ReversalBy(handler[p].req, handler[p].lot, handler[p].plan[handler[p].lot])
  BY <1>1, PlanIs, ReversalPosted DEF Unuse
<1>3. PutsDown(p, handler[p].lot, "restore", "withdrawSave") /\ Still
  BY <1>1, AdvanceDoes, NamesOfSteps DEF Unuse
<1>4. ASSUME handler'[p].pc = "withdrawSave", NEW c \in Claims PROVE handler'[p].plan[c] = 0
  <2>1. handler'[p].pc = (IF Left(handler[p]) = {handler[p].lot} THEN "withdrawSave" ELSE "restore")
    <3>1. Advance(p, "restore", "withdrawSave") /\ HandlersTyped
      BY HandlerIs DEF Unuse
    <3>2. "restore" \in Steps /\ "withdrawSave" \in Steps
      BY NamesOfSteps
    <3> QED
      BY <3>1, <3>2, Advances
  <2>2. c # handler[p].lot => ~(handler[p].plan[c] > 0) /\ handler[p].plan[c] \in Nat
    BY <1>4, <2>1, PlanIs
  <2> QED
    BY <1>3, <2>2 DEF PutsDown
<1> QED
  BY <1>1, <1>2, <1>3, <1>4 DEF Unuse

LEMMA LapseDoes ==
  ASSUME Typed, NEW p \in Callers, Lapse(p)
  PROVE  /\ handler[p].pc = "lapse"
         /\ \E c \in Claims : /\ handler[p].plan[c] > 0
                              /\ TakesUp(p, c, "zero") /\ ExpiryBy(c, handler[p].plan[c])
         /\ Still /\ UNCHANGED <<request, lot, pending>>
<1>1. handler[p].pc = "lapse"
  BY DEF Lapse, On
<1>2. PICK c \in Left(handler[p]) : /\ posted' = [posted EXCEPT !.expiry[c] = @ + handler[p].plan[c]]
                                    /\ LotAt(p, c, "zero")
  BY DEF Lapse, LotAt
<1>3. c \in Claims /\ handler[p].plan[c] > 0 /\ handler[p].plan[c] \in Nat
  BY PlanIs
<1>4. ExpiryBy(c, handler[p].plan[c])
  BY <1>2, <1>3, ExpiryPosted
<1>5. TakesUp(p, c, "zero")
  BY <1>2, <1>3, TakenUp, NamesOfSteps
<1> QED
  BY <1>1, <1>3, <1>4, <1>5 DEF Lapse, Still

LEMMA ZeroDoes ==
  ASSUME Typed, NEW p \in Callers, Zero(p)
  PROVE  /\ handler[p].pc = "zero" /\ handler[p].lot \in Claims
         /\ lot' \in [Claims -> Int] /\ lot'[handler[p].lot] = 0
         /\ \A b \in Claims \ {handler[p].lot} : lot'[b] = lot[b]
         /\ PutsDown(p, handler[p].lot, "lapse", "rest")
         /\ Still /\ UNCHANGED <<request, posted, pending>>
<1>1. handler[p].pc = "zero" /\ handler[p].lot \in Claims
  BY HandlerIs DEF Zero, On, PlaceOK, AtLot
<1>2. lot' \in [Claims -> Int] /\ lot'[handler[p].lot] = 0
      /\ \A b \in Claims \ {handler[p].lot} : lot'[b] = lot[b]
  BY <1>1, PlanIs DEF Zero
<1> QED
  BY <1>1, <1>2, AdvanceDoes, NamesOfSteps DEF Zero
(* What the ledger says of a lot is an integer.                               *)
LEMMA ExplainedInt ==
  ASSUME DocsTyped, NEW c \in Claims
  PROVE  NetUsed(c) \in Int /\ Explained(c) \in Int
<1> DEFINE f == [l \in Leaves |-> posted.usage[l][c] - posted.reversal[l][c]]
<1>1. \A l \in Leaves : f[l] \in Int
  BY DEF DocsTyped, Posted
<1>2. Sum(f, Leaves) \in Int
  <2> HIDE DEF f
  <2> QED
    BY <1>1, FiniteAssumption, SumInt
<1>3. NetUsed(c) = Sum(f, Leaves)
  BY DEF NetUsed
<1>4. posted.credit[c] \in Nat /\ posted.expiry[c] \in Nat
  BY DEF DocsTyped, Posted
<1> HIDE DEF f
<1> QED
  BY <1>2, <1>3, <1>4 DEF Explained

-----------------------------------------------------------------------------
(* What calls, the start of the job, and failures do.                         *)
Starts(p, r) == /\ handler[p].pc = "rest" /\ r \in Requests
                /\ Moved(p) /\ handler'[p].req = r
                /\ UNCHANGED <<day, docs, crashes>>

LEMMA ApplyDoes ==
  ASSUME Typed, NEW p \in Callers, NEW r \in Requests,
         (r \in Claims /\ ApplyClaim(p, r)) \/ (r \in Leaves /\ ApplyLeave(p, r))
  PROVE  /\ Starts(p, r) /\ IsNew(r)
         /\ \/ r \in Claims /\ handler'[p].pc = "claimInsert"
            \/ r \in Leaves /\ handler'[p].pc = "leaveInsert"
         /\ handler'[p].doc.drawn = Nothing
<1>1. CASE r \in Claims /\ ApplyClaim(p, r)
  <2>1. Begin(p, "claimInsert", r, NoRequest) /\ IsNew(r)
    BY <1>1 DEF ApplyClaim
  <2>2. Starts(p, r) /\ handler'[p].pc = "claimInsert" /\ handler'[p].doc = NoRequest
    BY <2>1, HandlerIs, Begins, NoRequestTyped, NamesOfSteps DEF Starts
  <2> QED
    BY <1>1, <2>1, <2>2, NoRequestTyped
<1>2. CASE r \in Leaves /\ ApplyLeave(p, r)
  <2> DEFINE covered == IF Available(BucketOf(r)) > 0 THEN Available(BucketOf(r)) ELSE 0
             paid == IF covered < Length[r] THEN covered ELSE Length[r]
             doc == [NoRequest EXCEPT !.paid = paid]
  <2>1. Begin(p, "leaveInsert", r, doc) /\ IsNew(r)
    BY <1>2 DEF ApplyLeave
  <2>2. Available(BucketOf(r)) \in Int
    <3>1. \A c \in Claims : Explained(c) \in Int
      BY HandlerIs, ExplainedInt
    <3> DEFINE S == {c \in Claims : Year(WorkDay[c]) = BucketOf(r)}
               f == [c \in Claims |-> Explained(c)]
    <3>2. IsFiniteSet(S)
      BY FiniteAssumption, FS_Subset
    <3>3. \A c \in S : f[c] \in Int
      BY <3>1
    <3>4. Sum(f, S) \in Int
      <4> HIDE DEF f, S
      <4> QED
        BY <3>2, <3>3, SumInt
    <3>5. BucketOf(r) \in Years
      BY <1>2 DEF BucketOf, Years
    <3>6. pending[BucketOf(r)] \in Int
      BY <3>5, HandlerIs DEF DocsTyped
    <3> QED
      BY <3>4, <3>6 DEF Available
  <2>3. paid \in Nat
    BY <1>2, <2>2, ShapeAssumption
  <2> HIDE DEF paid
  <2>4. doc \in Doc /\ doc.drawn = Nothing
    BY <2>3, NoRequestTyped DEF Doc
  <2> HIDE DEF doc
  <2> QED
    BY <1>2, <2>1, <2>4, HandlerIs, Begins, NamesOfSteps DEF Starts
<1> QED
  BY <1>1, <1>2

LEMMA DecisionDoes ==
  ASSUME Typed, NEW p \in Callers, NEW r \in Requests, Approve(p, r) \/ Reject(p, r) \/ Cancel(p, r)
  PROVE  /\ Starts(p, r) /\ request[r].status = "pending"
         /\ handler'[p].pc \in {"decide", "refuse", "cancelSave"}
         /\ handler'[p].doc = request[r]
<1>1. request[r] \in Doc
  BY HandlerIs DEF DocsTyped
<1>2. PICK pc \in {"decide", "refuse", "cancelSave"} : Begin(p, pc, r, request[r])
  BY DEF Approve, Reject, Cancel
<1>3. request[r].status = "pending"
  BY DEF Approve, Reject, Cancel
<1> QED
  BY <1>1, <1>2, <1>3, HandlerIs, Begins, NamesOfSteps DEF Starts

LEMMA WithdrawDoes ==
  ASSUME Typed, NEW p \in Callers, NEW l \in Leaves, Withdraw(p, l)
  PROVE  /\ Starts(p, l) /\ request[l].status = "approved"
         /\ handler'[p].pc \in {"withdrawSave", "restore"}
         /\ handler'[p].plan = request[l].drawn
         /\ handler'[p].pc = "withdrawSave" => request[l].drawn = Nothing
<1>1. request[l] \in Doc /\ request[l].drawn \in [Claims -> Nat]
  BY HandlerIs DEF DocsTyped, Requests, Doc
<1> DEFINE x == IF request[l].drawn = Nothing THEN "withdrawSave" ELSE "restore"
           h == [handler[p] EXCEPT !.pc = x, !.req = l, !.doc = request[l],
                                   !.plan = request[l].drawn]
<1>2. /\ x \in Steps /\ x \in {"withdrawSave", "restore"}
      /\ x = "withdrawSave" => request[l].drawn = Nothing
  BY NamesOfSteps
<1>3. handler' = [handler EXCEPT ![p] = h] /\ handler[p].pc = "rest"
  BY DEF Withdraw, On
<1> HIDE DEF x
<1>4. h \in Local /\ h.pc = x /\ h.req = l /\ h.plan = request[l].drawn
  BY <1>1, <1>2, HandlerIs DEF Local, Requests
<1> HIDE DEF h
<1>5. Moved(p) /\ handler'[p] = h
  BY <1>3, <1>4, HandlerIs, MovedTo
<1> QED
  BY <1>2, <1>3, <1>4, <1>5 DEF Withdraw, Starts, Requests

LEMMA ExpireDoes ==
  ASSUME Typed, NEW p \in Callers, Expire(p)
  PROVE  /\ handler[p].pc = "rest" /\ JobMayRun
         /\ Moved(p) /\ handler'[p].pc = "lapse" /\ handler'[p].req = handler[p].req
         /\ handler'[p].plan = [c \in Claims |-> IF c \in Stale THEN lot[c] ELSE 0]
         /\ UNCHANGED <<day, docs, crashes>>
<1> DEFINE f == [c \in Claims |-> IF c \in Stale THEN lot[c] ELSE 0]
           h == [handler[p] EXCEPT !.pc = "lapse", !.plan = f]
<1>1. f \in [Claims -> Nat]
  BY PlanIs DEF Stale
<1>2. handler' = [handler EXCEPT ![p] = h]
  BY DEF Expire
<1> HIDE DEF f
<1>3. h \in Local /\ h.pc = "lapse" /\ h.plan = f /\ h.req = handler[p].req
  BY <1>1, HandlerIs, NamesOfSteps DEF Local
<1> HIDE DEF h
<1>4. Moved(p) /\ handler'[p] = h
  BY <1>2, <1>3, HandlerIs, MovedTo
<1> QED
  BY <1>3, <1>4 DEF Expire, On, f

LEMMA SkipDoes ==
  ASSUME Typed, NEW p \in Callers, Skip(p)
  PROVE  /\ handler[p].pc \in Job /\ crashes' = crashes + 1 /\ crashes' \in 0 .. MaxCrashes
         /\ \E c \in Claims : PutsDown(p, c, "lapse", "rest")
         /\ handler[p].pc = "zero" => handler'[p].plan[handler[p].lot] = 0
         /\ UNCHANGED <<day, docs>>
<1>1. handler[p].pc \in Job /\ crashes' = crashes + 1 /\ crashes' \in 0 .. MaxCrashes
  BY BoundAssumption DEF Skip, Typed
<1> DEFINE S == IF handler[p].pc = "zero" THEN {handler[p].lot} ELSE Left(handler[p])
<1>2. S \subseteq Claims
  BY PlanIs, HandlerIs DEF PlaceOK, AtLot
<1>3. PICK c \in S :
        handler' = [handler EXCEPT ![p] = [handler[p] EXCEPT !.plan[c] = 0, !.lot = None,
                                    !.pc = IF Left(handler[p]) = {c} THEN "rest" ELSE "lapse"]]
  BY DEF Skip
<1>4. c \in Claims
  BY <1>2, <1>3
<1> DEFINE x == IF Left(handler[p]) = {c} THEN "rest" ELSE "lapse"
           f == [handler[p].plan EXCEPT ![c] = 0]
           h == [handler[p] EXCEPT !.plan = f, !.lot = None, !.pc = x]
<1>5. handler' = [handler EXCEPT ![p] = h]
  BY <1>3
<1>6. f \in [Claims -> Nat] /\ f[c] = 0 /\ \A b \in Claims \ {c} : f[b] = handler[p].plan[b]
  BY <1>4, PlanIs
<1>7. x \in Steps /\ x \in {"lapse", "rest"}
  BY NamesOfSteps
<1> HIDE DEF x, f
<1>8. /\ h \in Local /\ h.pc = x /\ h.lot = None /\ h.plan = f /\ h.doc = handler[p].doc
      /\ h.req = handler[p].req /\ h.asOf = handler[p].asOf
  BY <1>6, <1>7, HandlerIs DEF Local
<1> HIDE DEF h
<1>9. Moved(p) /\ handler'[p] = h
  BY <1>5, <1>8, HandlerIs, MovedTo
<1>10. PutsDown(p, c, "lapse", "rest")
  BY <1>6, <1>7, <1>8, <1>9 DEF PutsDown
<1>11. handler[p].pc = "zero" => handler'[p].plan[handler[p].lot] = 0
  BY <1>3, <1>6, <1>8, <1>9
<1> QED
  BY <1>1, <1>4, <1>10, <1>11 DEF Skip

LEMMA DieDoes ==
  ASSUME Typed, NEW p \in Callers, Die(p)
  PROVE  /\ Ends(p) /\ crashes' = crashes + 1 /\ crashes' \in 0 .. MaxCrashes
         /\ UNCHANGED <<day, docs>>
<1>1. crashes' = crashes + 1 /\ crashes' \in 0 .. MaxCrashes
  BY BoundAssumption DEF Die, Typed
<1> QED
  BY <1>1, HandlerIs, RestTyped, MovedTo DEF Die, Ends
-----------------------------------------------------------------------------
(* Every step keeps the types.                                                *)
LEMMA Kept ==
  ASSUME Typed, NEW p \in Callers, Moved(p), DocsTyped',
         day' \in 0 .. MaxDay, crashes' \in 0 .. MaxCrashes,
         PlaceOK(handler'[p])
  PROVE  Typed'
BY DEF Typed, Moved

LEMMA PlaceAtRest == PlaceOK(Rest)
BY RestTyped DEF PlaceOK, ForLeave, ForEither, AtLot

LEMMA TypedStep ==
  ASSUME Typed, NEW p \in Callers, HandlerStep(p) \/ Call(p) \/ Expire(p) \/ Skip(p) \/ Die(p)
  PROVE  Typed'
<1> USE DEF Still
<1>1. DocsTyped /\ day \in 0 .. MaxDay /\ crashes \in 0 .. MaxCrashes /\ PlaceOK(handler[p])
  BY HandlerIs DEF Typed
<1>2. ASSUME Still, Moved(p), PlaceOK(handler'[p]), DocsTyped' PROVE Typed'
  BY <1>1, <1>2, Kept
<1>3. ASSUME Still, Ends(p), DocsTyped' PROVE Typed'
  BY <1>2, <1>3, PlaceAtRest DEF Ends
<1>4. ASSUME NEW r \in Requests, OnlyDoc(r), UNCHANGED <<lot, posted, pending>> PROVE DocsTyped'
  BY <1>1, <1>4 DEF DocsTyped, OnlyDoc
<1>5. CASE InsertClaim(p) \/ Decide(p)
  <2> PICK r \in Requests : r = handler[p].req /\ OnlyDoc(r)
    BY <1>5, InsertClaimDoes, DecideDoes DEF StatusTo, Requests
  <2>1. DocsTyped'
    BY <1>4, <1>5, InsertClaimDoes, DecideDoes
  <2>2. CASE Ends(p)
    BY <1>3, <1>5, <2>1, <2>2, InsertClaimDoes, DecideDoes
  <2>3. CASE Goes(p, "mint") /\ handler[p].req \in Claims
    <3>1. PlaceOK(handler'[p])
      BY <2>3 DEF Goes, SameRequest, PlaceOK, ForLeave, ForEither, AtLot
    <3> QED
      BY <1>2, <1>5, <2>1, <2>3, <3>1, InsertClaimDoes, DecideDoes DEF Goes
  <2>4. CASE Goes(p, "consume") /\ handler[p].req \in Leaves
    <3>1. PlaceOK(handler'[p])
      BY <2>4 DEF Goes, SameRequest, PlaceOK, ForLeave, ForEither, AtLot
    <3> QED
      BY <1>2, <1>5, <2>1, <2>4, <3>1, InsertClaimDoes, DecideDoes DEF Goes
  <2> QED
    BY <1>5, <2>2, <2>3, <2>4, InsertClaimDoes, DecideDoes
<1>6. CASE Mint(p)
  BY <1>1, <1>3, <1>6, MintDoes DEF DocsTyped
<1>7. CASE InsertLeave(p)
  <2>1. DocsTyped' /\ Still /\ handler[p].req \in Leaves
    BY <1>4, <1>7, InsertLeaveDoes DEF Requests
  <2>2. CASE Goes(p, "reserve")
    <3>1. PlaceOK(handler'[p])
      BY <2>1, <2>2 DEF Goes, SameRequest, PlaceOK, ForLeave, ForEither, AtLot
    <3> QED
      BY <1>2, <2>1, <2>2, <3>1 DEF Goes
  <2> QED
    BY <1>3, <1>7, <2>1, <2>2, InsertLeaveDoes
<1>8. CASE Reserve(p)
  <2>1. DocsTyped' /\ Still /\ handler[p].req \in Leaves
    BY <1>1, <1>8, ReserveDoes DEF DocsTyped
  <2>2. CASE Goes(p, "consume")
    <3>1. PlaceOK(handler'[p])
      BY <2>1, <2>2 DEF Goes, SameRequest, PlaceOK, ForLeave, ForEither, AtLot
    <3> QED
      BY <1>2, <2>1, <2>2, <3>1 DEF Goes
  <2> QED
    BY <1>3, <1>8, <2>1, <2>2, ReserveDoes
<1>9. CASE Refuse(p) \/ CancelSave(p)
  <2>1. DocsTyped' /\ Still /\ handler[p].req \in Requests
    BY <1>4, <1>9, RefuseDoes, CancelSaveDoes DEF StatusTo
  <2>2. CASE Goes(p, "release")
    <3>1. PlaceOK(handler'[p])
      BY <2>1, <2>2 DEF Goes, SameRequest, PlaceOK, ForLeave, ForEither, AtLot
    <3> QED
      BY <1>2, <2>1, <2>2, <3>1 DEF Goes
  <2> QED
    BY <1>3, <1>9, <2>1, <2>2, RefuseDoes, CancelSaveDoes
<1>10. CASE WithdrawSave(p) \/ Save(p)
  BY <1>3, <1>4, <1>10, WithdrawSaveDoes, SaveDoes DEF StatusTo, Requests
<1>11. CASE Conflict(p) \/ Short(p) \/ Release(p) \/ Settle(p)
  <2>1. DocsTyped' /\ Still
    BY <1>1, <1>11, QuietDoes DEF DocsTyped
  <2>2. CASE Goes(p, "save") /\ handler[p].req \in Leaves
    <3>1. PlaceOK(handler'[p])
      BY <2>1, <2>2 DEF Goes, SameRequest, PlaceOK, ForLeave, ForEither, AtLot
    <3> QED
      BY <1>2, <2>1, <2>2, <3>1 DEF Goes
  <2> QED
    BY <1>3, <1>11, <2>1, <2>2, QuietDoes
<1>12. CASE Consume(p)
  <2>1. DocsTyped' /\ Still /\ Moved(p)
    BY <1>1, <1>12, ConsumeDoes DEF DocsTyped, docs
  <2>2. PlaceOK(handler'[p])
    BY <1>12, ConsumeDoes DEF SameRequest, PlaceOK, ForLeave, ForEither, AtLot
  <2> QED
    BY <1>2, <2>1, <2>2
<1>13. CASE Draw(p) \/ Restore(p)
  <2>1. PICK c \in Claims, pc \in {"charge", "unuse"} :
          TakesUp(p, c, pc) /\ lot' \in [Claims -> Int]
    BY <1>13, DrawDoes, RestoreDoes DEF LotBy
  <2>2. DocsTyped' /\ Still /\ handler[p].req \in Leaves
    BY <1>1, <1>13, <2>1, DrawDoes, RestoreDoes DEF DocsTyped
  <2>3. PlaceOK(handler'[p])
    BY <2>1, <2>2 DEF TakesUp, SameRequest, PlaceOK, ForLeave, ForEither, AtLot
  <2> QED
    BY <1>2, <2>1, <2>2, <2>3 DEF TakesUp
<1>14. CASE Charge(p) \/ Unuse(p)
  <2>1. posted' \in Posted
    BY <1>14, ChargeDoes, UnuseDoes DEF UsageBy, ReversalBy
  <2>2. DocsTyped' /\ Still /\ handler[p].req \in Leaves
    BY <1>1, <1>14, <2>1, ChargeDoes, UnuseDoes DEF DocsTyped
  <2>3. PlaceOK(handler'[p]) /\ Moved(p)
    BY <1>14, <2>2, ChargeDoes, UnuseDoes DEF PutsDown, PlaceOK, ForLeave, ForEither, AtLot
  <2> QED
    BY <1>2, <2>2, <2>3
<1>15. CASE Lapse(p)
  <2>1. PICK c \in Claims : TakesUp(p, c, "zero") /\ posted' \in Posted
    BY <1>15, LapseDoes DEF ExpiryBy
  <2>2. DocsTyped' /\ Still
    BY <1>1, <1>15, <2>1, LapseDoes DEF DocsTyped
  <2>3. PlaceOK(handler'[p])
    BY <2>1 DEF TakesUp, PlaceOK, ForLeave, ForEither, AtLot
  <2> QED
    BY <1>2, <2>1, <2>2, <2>3 DEF TakesUp
<1>16. CASE Zero(p)
  <2>1. DocsTyped' /\ Still
    BY <1>1, <1>16, ZeroDoes DEF DocsTyped
  <2>2. PlaceOK(handler'[p]) /\ Moved(p)
    BY <1>16, ZeroDoes DEF PutsDown, PlaceOK, ForLeave, ForEither, AtLot
  <2> QED
    BY <1>2, <2>1, <2>2
<1>17. CASE Call(p)
  <2>1. PICK r \in Requests :
          /\ Starts(p, r)
          /\ \/ r \in Claims /\ handler'[p].pc = "claimInsert"
             \/ r \in Leaves /\ handler'[p].pc \in {"leaveInsert", "withdrawSave", "restore"}
             \/ handler'[p].pc \in {"decide", "refuse", "cancelSave"}
    BY <1>17, ApplyDoes, DecisionDoes, WithdrawDoes DEF Call, Requests
  <2>2. PlaceOK(handler'[p])
    BY <2>1 DEF Starts, PlaceOK, ForLeave, ForEither, AtLot
  <2> QED
    BY <1>1, <1>2, <2>1, <2>2 DEF Starts, docs, DocsTyped
<1>18. CASE Expire(p)
  <2>1. PlaceOK(handler'[p])
    BY <1>18, ExpireDoes DEF PlaceOK, ForLeave, ForEither, AtLot
  <2> QED
    BY <1>1, <1>2, <1>18, <2>1, ExpireDoes DEF docs, DocsTyped
<1>19. CASE Skip(p)
  <2>1. PlaceOK(handler'[p]) /\ Moved(p)
    BY <1>19, SkipDoes DEF PutsDown, PlaceOK, ForLeave, ForEither, AtLot
  <2> QED
    BY <1>1, <1>19, <2>1, SkipDoes, Kept DEF docs, DocsTyped
<1>20. CASE Die(p)
  BY <1>1, <1>20, DieDoes, Kept, PlaceAtRest DEF docs, DocsTyped, Ends
<1> QED
  BY <1>5, <1>6, <1>7, <1>8, <1>9, <1>10, <1>11, <1>12, <1>13, <1>14, <1>15, <1>16, <1>17, <1>18,
     <1>19, <1>20 DEF HandlerStep
-----------------------------------------------------------------------------
(* Requests: who inserts them, and what is read of them.                      *)
KnowsIt(p) ==
  handler[p].pc \in Knowing => /\ handler[p].doc.paid = request[handler[p].req].paid
                               /\ request[handler[p].req].status # "none"

(* A step of a handler touches its own request only, and keeps the paid days  *)
(* of one that is there.                                                      *)
OwnRequest(p) ==
  /\ Moved(p)
  /\ handler'[p].req \in {handler[p].req, None} /\ handler'[p].pc \notin Inserting
  /\ \A r \in Requests :
       /\ r # handler[p].req => request'[r] = request[r]
       /\ request[r].status # "none" => /\ request'[r].status # "none"
                                        /\ request'[r].paid = request[r].paid


LEMMA EndsOwn ==
  ASSUME Typed, NEW p \in Callers, Ends(p)
  PROVE  Moved(p) /\ handler'[p].req = None /\ handler'[p].pc = "rest"
BY RestTyped DEF Ends

LEMMA StepShape ==
  ASSUME Typed, InsertsAlone, ReadsHold, NEW p \in Callers,
         HandlerStep(p) \/ Expire(p) \/ Skip(p) \/ Die(p)
  PROVE  OwnRequest(p) /\ KnowsIt(p)'
<1> USE DEF OwnRequest, KnowsIt, Inserting, Knowing
<1>1. CASE InsertClaim(p)
  <2>1. request[handler[p].req].status = "none" /\ Status(handler[p].req) # "none"
    BY <1>1, InsertClaimDoes DEF InsertsAlone, Status
  <2> QED
    BY <1>1, <2>1, InsertClaimDoes, EndsOwn DEF StatusTo, OnlyDoc, Goes, SameRequest
<1>2. CASE Mint(p)
  BY <1>2, MintDoes, EndsOwn
<1>3. CASE InsertLeave(p)
  <2>1. request[handler[p].req].status = "none" /\ Status(handler[p].req) # "none"
    BY <1>3, InsertLeaveDoes DEF InsertsAlone, Status
  <2> QED
    BY <1>3, <2>1, InsertLeaveDoes, EndsOwn DEF OnlyDoc, Goes, SameRequest
<1>4. CASE Reserve(p)
  BY <1>4, ReserveDoes, EndsOwn DEF Goes, SameRequest, ReadsHold
<1>5. CASE Decide(p)
  BY <1>5, DecideDoes, EndsOwn DEF StatusTo, OnlyDoc, Goes, SameRequest, ReadsHold
<1>6. CASE Refuse(p) \/ CancelSave(p) \/ WithdrawSave(p) \/ Save(p)
  <2>1. PICK s : /\ s # "none" \/ s = request[handler[p].req].status
                 /\ StatusTo(handler[p].req, s)
                 /\ Goes(p, "release") \/ Ends(p)
    BY <1>6, RefuseDoes, CancelSaveDoes, WithdrawSaveDoes, SaveDoes
  <2> QED
    BY <2>1, EndsOwn DEF StatusTo, OnlyDoc, Goes, SameRequest
<1>7. CASE Conflict(p) \/ Short(p) \/ Release(p) \/ Settle(p)
  BY <1>7, QuietDoes, EndsOwn DEF Goes, SameRequest
<1>8. CASE Consume(p)
  BY <1>8, ConsumeDoes DEF SameRequest, docs, ReadsHold
<1>9. CASE Draw(p) \/ Restore(p) \/ Lapse(p)
  <2>1. PICK c \in Claims, pc \in {"charge", "unuse", "zero"} :
          /\ TakesUp(p, c, pc) /\ request' = request
          /\ pc = "charge" => handler[p].pc = "draw"
    BY <1>9, DrawDoes, RestoreDoes, LapseDoes
  <2> QED
    BY <2>1 DEF TakesUp, SameRequest, ReadsHold
<1>10. CASE Charge(p) \/ Unuse(p) \/ Zero(p) \/ Skip(p)
  <2>1. PICK c \in Claims, pc \in {"draw", "restore", "lapse"},
             next \in {"settle", "withdrawSave", "rest"} :
          /\ PutsDown(p, c, pc, next) /\ request' = request
          /\ pc = "draw" => handler[p].pc = "charge"
    BY <1>10, ChargeDoes, UnuseDoes, ZeroDoes, SkipDoes DEF docs
  <2> QED
    BY <2>1 DEF PutsDown, ReadsHold
<1>11. CASE Expire(p)
  BY <1>11, ExpireDoes DEF docs
<1>12. CASE Die(p)
  BY <1>12, DieDoes, EndsOwn DEF docs
<1> QED
  BY <1>1, <1>2, <1>3, <1>4, <1>5, <1>6, <1>7, <1>8, <1>9, <1>10, <1>11, <1>12 DEF HandlerStep

LEMMA ReqIn == ASSUME Typed, NEW p \in Callers PROVE handler[p].req \in Requests \cup {None}
BY HandlerIs DEF Local

LEMMA InsertsStep ==
  ASSUME Typed, InsertsAlone, NEW p \in Callers,
         OwnRequest(p) \/ (\E r \in Requests : /\ Starts(p, r)
                                               /\ IsNew(r) \/ handler'[p].pc \notin Inserting
                                               /\ IsNew(r) \/ request[r].status # "none")
  PROVE  InsertsAlone'
<1> SUFFICES ASSUME NEW q \in Callers, handler'[q].pc \in Inserting
             PROVE  /\ request'[handler'[q].req].status = "none"
                    /\ \A o \in Callers \ {q} : handler'[o].req # handler'[q].req
  BY DEF InsertsAlone
<1>1. CASE OwnRequest(p)
  <2>1. q # p /\ handler'[q] = handler[q]
    BY <1>1 DEF OwnRequest, Moved
  <2>2. handler[q].req \in Requests
    BY <2>1, HandlerIs DEF PlaceOK, ForLeave, Inserting, Requests
  <2>3. handler[p].req # handler[q].req /\ request[handler[q].req].status = "none"
        /\ \A o \in Callers \ {q} : handler[o].req # handler[q].req
    BY <2>1 DEF InsertsAlone
  <2>4. request'[handler[q].req] = request[handler[q].req]
    BY <1>1, <2>2, <2>3 DEF OwnRequest
  <2>5. handler'[p].req # handler[q].req
    BY <1>1, <2>2, <2>3, RequestsAssumption DEF OwnRequest
  <2> QED
    BY <1>1, <2>1, <2>3, <2>4, <2>5 DEF OwnRequest, Moved
<1>2. ASSUME NEW r \in Requests, Starts(p, r),
             IsNew(r) \/ handler'[p].pc \notin Inserting, IsNew(r) \/ request[r].status # "none"
      PROVE  /\ request'[handler'[q].req].status = "none"
             /\ \A o \in Callers \ {q} : handler'[o].req # handler'[q].req
  <2>1. request' = request
    BY <1>2 DEF Starts, docs
  <2>2. CASE q = p
    <3>1. IsNew(r) /\ handler'[p].req = r
      BY <1>2, <2>2 DEF Starts
    <3> QED
      BY <1>2, <2>1, <2>2, <3>1 DEF IsNew, Starts, Moved
  <2>3. CASE q # p
    <3>1. handler'[q] = handler[q] /\ handler'[p].req = r
      BY <1>2, <2>3 DEF Starts, Moved
    <3>2. request[handler[q].req].status = "none"
          /\ \A o \in Callers \ {q} : handler[o].req # handler[q].req
      BY <3>1 DEF InsertsAlone
    <3>3. handler[q].req # r
      BY <1>2, <3>2 DEF IsNew
    <3> QED
      BY <1>2, <2>1, <3>1, <3>2, <3>3 DEF Starts, Moved
  <2> QED
    BY <2>2, <2>3
<1> QED
  BY <1>1, <1>2

LEMMA ReadsStep ==
  ASSUME Typed, InsertsAlone, ReadsHold, NEW p \in Callers, KnowsIt(p)',
         OwnRequest(p) \/ (\E r \in Requests : Starts(p, r))
  PROVE  ReadsHold'
<1> SUFFICES ASSUME NEW q \in Callers PROVE KnowsIt(q)'
  BY DEF ReadsHold, KnowsIt
<1>1. CASE q # p
  <2>1. handler'[q] = handler[q]
    BY <1>1 DEF OwnRequest, Starts, Moved
  <2>2. handler[q].pc \in Knowing => handler[q].req \in Requests
    BY HandlerIs DEF PlaceOK, ForLeave, ForEither, Knowing, Requests
  <2>3. handler[q].pc \in Knowing => /\ handler[q].doc.paid = request[handler[q].req].paid
                                     /\ request[handler[q].req].status # "none"
    BY DEF ReadsHold
  <2>4. CASE OwnRequest(p)
    BY <2>1, <2>2, <2>3, <2>4 DEF OwnRequest, KnowsIt
  <2>5. CASE \E r \in Requests : Starts(p, r)
    BY <2>1, <2>2, <2>3, <2>5 DEF Starts, docs, KnowsIt
  <2> QED
    BY <2>4, <2>5
<1> QED
  BY <1>1

LEMMA CallShape ==
  ASSUME Typed, NEW p \in Callers, Call(p)
  PROVE  /\ KnowsIt(p)'
         /\ \E r \in Requests : /\ Starts(p, r)
                                /\ IsNew(r) \/ handler'[p].pc \notin Inserting
                                /\ IsNew(r) \/ request[r].status # "none"
<1> USE DEF KnowsIt, Inserting, Knowing
<1>1. ASSUME NEW r \in Requests,
             (r \in Claims /\ ApplyClaim(p, r)) \/ (r \in Leaves /\ ApplyLeave(p, r))
      PROVE  Starts(p, r) /\ IsNew(r) /\ KnowsIt(p)'
  BY <1>1, ApplyDoes
<1>2. ASSUME NEW r \in Requests, Approve(p, r) \/ Reject(p, r) \/ Cancel(p, r)
      PROVE  Starts(p, r) /\ handler'[p].pc \notin Inserting /\ request[r].status # "none"
             /\ KnowsIt(p)'
  BY <1>2, DecisionDoes DEF Starts, docs
<1>3. ASSUME NEW l \in Leaves, Withdraw(p, l)
      PROVE  Starts(p, l) /\ handler'[p].pc \notin Inserting /\ request[l].status # "none"
             /\ KnowsIt(p)'
  BY <1>3, WithdrawDoes
<1>4. Claims \subseteq Requests /\ Leaves \subseteq Requests
  BY DEF Requests
<1> QED
  BY <1>1, <1>2, <1>3, <1>4 DEF Call
-----------------------------------------------------------------------------
(* Claims: one lot at most.                                                   *)
Mints(p, c) == handler[p].pc = "mint" /\ handler[p].req = c

(* p leaves the lots as they are; it gets to mint only for a claim that was   *)
(* not granted before.                                                        *)
MintsFairly(p) ==
  /\ Moved(p)
  /\ posted'.credit = posted.credit
  /\ \A c \in Claims : Granted(request[c].status) => Granted(request'[c].status)
  /\ \A c \in Claims : Mints(p, c)' => ~Granted(request[c].status) /\ Granted(request'[c].status)

LEMMA MintsOne ==
  ASSUME Typed, Typed', MintInv, NEW p \in Callers, MintsFairly(p)
  PROVE  MintInv'
<1>1. \A c \in Claims : posted.credit[c] \in Nat
  BY HandlerIs DEF DocsTyped, Posted
<1>2. ASSUME NEW c \in Claims
      PROVE  /\ posted'.credit[c] \in {0, Worth[c]}
             /\ posted'.credit[c] > 0 => Granted(request'[c].status)
  BY <1>2 DEF MintInv, MintsFairly
<1>3. ASSUME NEW q \in Callers, handler'[q].pc = "mint"
      PROVE  /\ posted'.credit[handler'[q].req] = 0 /\ Granted(request'[handler'[q].req].status)
             /\ \A o \in Callers \ {q} : handler'[o].pc = "mint" => handler'[o].req # handler'[q].req
  <2>1. CASE q # p
    <3>1. handler'[q] = handler[q]
      BY <2>1 DEF MintsFairly, Moved
    <3>2. handler[q].req \in Claims
      BY <1>3, <3>1, HandlerIs DEF PlaceOK
    <3>3. posted.credit[handler[q].req] = 0 /\ Granted(request[handler[q].req].status)
      BY <1>3, <3>1 DEF MintInv
    <3>4. handler'[p].pc = "mint" => handler'[p].req # handler[q].req
      BY <3>2, <3>3 DEF MintsFairly, Mints
    <3> QED
      BY <1>3, <3>1, <3>2, <3>3, <3>4 DEF MintsFairly, Moved, MintInv
  <2>2. CASE q = p
    <3>1. handler'[p].req \in Claims
      BY <1>3, <2>2 DEF Typed, PlaceOK
    <3>2. ~Granted(request[handler'[p].req].status) /\ Granted(request'[handler'[p].req].status)
      BY <1>3, <2>2, <3>1 DEF MintsFairly, Mints
    <3>3. posted.credit[handler'[p].req] = 0
      BY <1>1, <3>1, <3>2 DEF MintInv
    <3>4. ASSUME NEW o \in Callers \ {p}, handler'[o].pc = "mint"
          PROVE  handler'[o].req # handler'[p].req
      BY <3>2, <3>4 DEF MintInv, MintsFairly, Moved
    <3> QED
      BY <2>2, <3>2, <3>3, <3>4 DEF MintsFairly
  <2> QED
    BY <2>1, <2>2
<1> QED
  BY <1>2, <1>3 DEF MintInv

LEMMA MintStep ==
  ASSUME Typed, Typed', InsertsAlone, MintInv, NEW p \in Callers,
         HandlerStep(p) \/ Call(p) \/ Expire(p) \/ Skip(p) \/ Die(p)
  PROVE  MintInv'
<1>0. Claims \cap Leaves = {}
  BY RequestsAssumption
<1> SUFFICES ASSUME ~Mint(p) PROVE MintsFairly(p)
  <2>1. ASSUME Mint(p) PROVE MintInv'
    <3>1. handler[p].pc = "mint" /\ handler[p].req \in Claims /\ request' = request
      BY <2>1, MintDoes
    <3>2. /\ posted.credit[handler[p].req] = 0 /\ Granted(request[handler[p].req].status)
          /\ \A q \in Callers \ {p} : handler[q].pc = "mint" => handler[q].req # handler[p].req
      BY <3>1 DEF MintInv
    <3>3. /\ posted'.credit[handler[p].req] = Worth[handler[p].req]
          /\ \A c \in Claims \ {handler[p].req} : posted'.credit[c] = posted.credit[c]
      BY <2>1, <3>1, <3>2, MintDoes, ShapeAssumption
    <3>4. Moved(p) /\ handler'[p].pc # "mint"
      BY <2>1, MintDoes, EndsOwn
    <3>5. \A q \in Callers : handler'[q].pc = "mint" => q # p /\ handler'[q] = handler[q]
      BY <3>4 DEF Moved
    <3>6. \A q \in Callers : handler[q].pc = "mint" => handler[q].req \in Claims
      BY HandlerIs DEF PlaceOK
    <3> QED
      BY <3>1, <3>2, <3>3, <3>5, <3>6 DEF MintInv
  <2> QED
    BY <2>1, MintsOne
<1> USE DEF MintsFairly, Mints, Granted
<1>1. CASE InsertClaim(p)
  <2>1. request[handler[p].req].status = "none"
    BY <1>1, InsertClaimDoes DEF InsertsAlone, Inserting
  <2>2. ChainOf[handler[p].req] = 0 => Status(handler[p].req) = "approved"
    BY DEF Status
  <2> QED
    BY <1>1, <2>1, <2>2, InsertClaimDoes, EndsOwn DEF StatusTo, OnlyDoc, Goes, SameRequest, Requests
<1>2. CASE InsertLeave(p)
  BY <1>0, <1>2, InsertLeaveDoes, EndsOwn DEF OnlyDoc, Goes, Requests
<1>3. CASE Decide(p)
  BY <1>0, <1>3, DecideDoes, EndsOwn DEF StatusTo, OnlyDoc, Goes, SameRequest, Requests
<1>4. CASE Refuse(p) \/ CancelSave(p)
  BY <1>4, RefuseDoes, CancelSaveDoes, EndsOwn DEF StatusTo, OnlyDoc, Goes, Requests
<1>5. CASE WithdrawSave(p) \/ Save(p)
  BY <1>0, <1>5, WithdrawSaveDoes, SaveDoes, EndsOwn DEF StatusTo, OnlyDoc, Requests
<1>6. CASE Reserve(p) \/ Conflict(p) \/ Short(p) \/ Release(p) \/ Settle(p)
  BY <1>6, ReserveDoes, QuietDoes, EndsOwn DEF Goes
<1>7. CASE Consume(p)
  BY <1>7, ConsumeDoes DEF docs
<1>8. CASE Draw(p) \/ Restore(p) \/ Lapse(p)
  BY <1>8, DrawDoes, RestoreDoes, LapseDoes DEF TakesUp, ExpiryBy
<1>9. CASE Charge(p) \/ Unuse(p) \/ Zero(p)
  BY <1>9, ChargeDoes, UnuseDoes, ZeroDoes DEF PutsDown, UsageBy, ReversalBy
<1>10. CASE Skip(p)
  BY <1>10, SkipDoes DEF PutsDown, docs
<1>11. CASE Expire(p)
  BY <1>11, ExpireDoes DEF docs
<1>12. CASE Die(p)
  BY <1>12, DieDoes, EndsOwn DEF docs
<1>13. CASE Call(p)
  <2>1. PICK r \in Requests : Starts(p, r) /\ handler'[p].pc # "mint"
    BY <1>13, ApplyDoes, DecisionDoes, WithdrawDoes DEF Call, Requests
  <2> QED
    BY <2>1 DEF Starts, docs
<1> QED
  BY <1>1, <1>2, <1>3, <1>4, <1>5, <1>6, <1>7, <1>8, <1>9, <1>10, <1>11, <1>12, <1>13 DEF HandlerStep
-----------------------------------------------------------------------------
(* Leaves: their paid days, once.                                             *)
LEMMA DrawnNat ==
  ASSUME Typed, NEW l \in Leaves
  PROVE  Drawn(posted.usage, l) \in Nat /\ (posted.usage[l] = Nothing => Drawn(posted.usage, l) = 0)
<1>1. posted.usage[l] \in [Claims -> Nat]
  BY HandlerIs DEF Typed, DocsTyped, Posted
<1>2. Drawn(posted.usage, l) \in Nat
  BY <1>1, FiniteAssumption, SumNat DEF Drawn
<1>3. posted.usage[l] = Nothing => \A c \in Claims : posted.usage[l][c] = 0
  BY DEF Nothing
<1> QED
  BY <1>2, <1>3, FiniteAssumption, SumZero DEF Drawn

Charges(h, l) == Finalizing(h) /\ h.req = l
Early(h) == h.pc \in {"reserve", "consume"}

(* p leaves the usage as it is; it finalises a leave that it was finalising   *)
(* already, or one whose verdict is its own.                                  *)
ChargesFairly(p) ==
  /\ Moved(p) /\ posted'.usage = posted.usage
  /\ \A l \in Leaves :
       /\ Decided(request[l].status) => Decided(request'[l].status)
       /\ request[l].status # "none" => request'[l].paid = request[l].paid
       /\ Charges(handler'[p], l) =>
            \/ /\ Early(handler'[p])
               /\ ~Decided(request[l].status) /\ Decided(request'[l].status)
            \/ /\ Charges(handler[p], l)
               /\ Early(handler'[p]) => Early(handler[p])
               /\ handler'[p].pc \in Drawing =>
                    Drawn(posted.usage, l) + Sum(handler'[p].plan, Claims) = handler'[p].doc.paid

LEMMA ChargesOne ==
  ASSUME Typed, Typed', ChargeInv, NEW p \in Callers, ChargesFairly(p)
  PROVE  ChargeInv'
<1>1. \A l \in Leaves : Drawn(posted'.usage, l) = Drawn(posted.usage, l)
  BY DEF Drawn, ChargesFairly
<1>2. ASSUME NEW l \in Leaves
      PROVE  /\ Drawn(posted'.usage, l) <= request'[l].paid
             /\ posted'.usage[l] # Nothing => Decided(request'[l].status)
  <2>1. CASE posted.usage[l] = Nothing
    <3>1. request'[l].paid \in Nat
      BY DEF Typed, DocsTyped, Requests, Doc
    <3> QED
      BY <1>1, <2>1, <3>1, DrawnNat DEF ChargesFairly
  <2>2. CASE posted.usage[l] # Nothing
    BY <1>1, <2>2 DEF ChargeInv, ChargesFairly, Decided
  <2> QED
    BY <2>1, <2>2
<1>3. \A q \in Callers : Finalizing(handler'[q]) => handler'[q].req \in Leaves
  BY DEF Typed, PlaceOK, ForLeave, Finalizing
<1>4. ASSUME NEW q \in Callers, Finalizing(handler'[q])
      PROVE  /\ Decided(request'[handler'[q].req].status)
             /\ \A o \in Callers \ {q} : Finalizing(handler'[o]) => handler'[o].req # handler'[q].req
             /\ handler'[q].pc \in {"reserve", "consume"} => posted'.usage[handler'[q].req] = Nothing
             /\ handler'[q].pc \in Drawing =>
                  Drawn(posted'.usage, handler'[q].req) + Sum(handler'[q].plan, Claims) = handler'[q].doc.paid
  <2>1. PICK l \in Leaves : l = handler'[q].req
    BY <1>3, <1>4
  <2>2. CASE q # p
    <3>1. handler'[q] = handler[q]
      BY <2>2 DEF ChargesFairly, Moved
    <3>2. /\ Decided(request[l].status)
          /\ \A o \in Callers \ {q} : Finalizing(handler[o]) => handler[o].req # l
          /\ handler[q].pc \in {"reserve", "consume"} => posted.usage[l] = Nothing
          /\ handler[q].pc \in Drawing =>
               Drawn(posted.usage, l) + Sum(handler[q].plan, Claims) = handler[q].doc.paid
      BY <1>4, <2>1, <3>1 DEF ChargeInv
    <3>3. Finalizing(handler'[p]) => handler'[p].req # l
      BY <2>2, <3>2 DEF ChargesFairly, Charges
    <3> QED
      BY <1>1, <2>1, <3>1, <3>2, <3>3 DEF ChargesFairly, Moved
  <2>3. CASE q = p
    <3>1. Charges(handler'[p], l)
      BY <1>4, <2>1, <2>3 DEF Charges
    <3>2. CASE /\ Early(handler'[p])
               /\ ~Decided(request[l].status) /\ Decided(request'[l].status)
      <4>1. posted'.usage[l] = Nothing
        BY <3>2 DEF ChargeInv, ChargesFairly
      <4>2. ASSUME NEW o \in Callers \ {p}, Finalizing(handler'[o]) PROVE handler'[o].req # l
        BY <3>2, <4>2 DEF ChargeInv, ChargesFairly, Moved
      <4>3. handler'[p].pc \notin Drawing
        BY <3>2 DEF Early, Drawing
      <4> QED
        BY <2>1, <2>3, <3>2, <4>1, <4>2, <4>3
    <3>3. CASE /\ Charges(handler[p], l)
               /\ Early(handler'[p]) => Early(handler[p])
               /\ handler'[p].pc \in Drawing =>
                    Drawn(posted.usage, l) + Sum(handler'[p].plan, Claims) = handler'[p].doc.paid
      <4>1. /\ Decided(request[l].status)
            /\ \A o \in Callers \ {p} : Finalizing(handler[o]) => handler[o].req # l
            /\ Early(handler[p]) => posted.usage[l] = Nothing
        BY <3>3 DEF ChargeInv, Charges, Early
      <4>2. ASSUME NEW o \in Callers \ {p}, Finalizing(handler'[o]) PROVE handler'[o].req # l
        BY <4>1, <4>2 DEF ChargesFairly, Moved
      <4> QED
        BY <1>1, <2>1, <2>3, <3>3, <4>1, <4>2 DEF ChargesFairly, Early
    <3> QED
      BY <3>1, <3>2, <3>3 DEF ChargesFairly
  <2> QED
    BY <2>2, <2>3
<1> QED
  BY <1>2, <1>4 DEF ChargeInv

LEMMA ChargeCharges ==
  ASSUME Typed, Typed', ReadsHold, ChargeInv, NEW p \in Callers, Charge(p)
  PROVE  ChargeInv'
<1> DEFINE l == handler[p].req
           c == handler[p].lot
           n == handler[p].plan[c]
<1>1. /\ handler[p].pc = "charge" /\ l \in Leaves /\ c \in Claims /\ request' = request
      /\ UsageBy(l, c, n) /\ PutsDown(p, c, "draw", "settle")
  BY ChargeDoes
<1>2. /\ handler[p].plan \in [Claims -> Nat] /\ handler'[p].plan \in [Claims -> Nat]
      /\ posted.usage[l] \in [Claims -> Nat] /\ posted'.usage[l] \in [Claims -> Nat]
      /\ n \in Nat
  BY <1>1, PlanIs DEF PutsDown, UsageBy, Posted
<1>3. Drawn(posted'.usage, l) = Drawn(posted.usage, l) + n
  <2>1. posted'.usage[l][c] = posted.usage[l][c] + n
        /\ \A b \in Claims \ {c} : posted'.usage[l][b] = posted.usage[l][b]
    BY <1>1 DEF UsageBy
  <2>2. Sum(posted'.usage[l], Claims) =
          Sum(posted.usage[l], Claims) - posted.usage[l][c] + posted'.usage[l][c]
    <3> DEFINE f == posted.usage[l]
               g == posted'.usage[l]
    <3>1. /\ \A b \in Claims : f[b] \in Int
          /\ g[c] \in Int /\ \A b \in Claims \ {c} : g[b] = f[b]
      BY <1>1, <1>2, <2>1
    <3> HIDE DEF f, g
    <3>2. Sum(g, Claims) = Sum(f, Claims) - f[c] + g[c]
      BY <1>1, <3>1, FiniteAssumption, SumChange
    <3> QED
      BY <3>2 DEF f, g
  <2>3. Sum(posted.usage[l], Claims) \in Nat /\ posted.usage[l][c] \in Nat
    BY <1>1, <1>2, FiniteAssumption, SumNat
  <2> QED
    BY <1>2, <2>1, <2>2, <2>3 DEF Drawn
<1>4. Sum(handler'[p].plan, Claims) = Sum(handler[p].plan, Claims) - n
  <2> DEFINE f == handler[p].plan
             g == handler'[p].plan
  <2>1. /\ \A b \in Claims : f[b] \in Int
        /\ g[c] \in Int /\ \A b \in Claims \ {c} : g[b] = f[b]
        /\ g[c] = 0 /\ f[c] = n
    BY <1>1, <1>2 DEF PutsDown
  <2> HIDE DEF f, g
  <2>2. Sum(g, Claims) = Sum(f, Claims) - f[c] + g[c]
    BY <1>1, <2>1, FiniteAssumption, SumChange
  <2>3. Sum(f, Claims) \in Int
    BY <2>1, FiniteAssumption, SumInt
  <2> QED
    BY <1>2, <2>1, <2>2, <2>3 DEF f, g
<1>5. Sum(handler'[p].plan, Claims) \in Nat /\ Sum(handler[p].plan, Claims) \in Nat
  BY <1>2, FiniteAssumption, SumNat
<1>6. /\ Decided(request[l].status)
      /\ \A q \in Callers \ {p} : Finalizing(handler[q]) => handler[q].req # l
      /\ Drawn(posted.usage, l) + Sum(handler[p].plan, Claims) = handler[p].doc.paid
  BY <1>1 DEF ChargeInv, Finalizing, Drawing
<1>7. handler[p].doc.paid = request[l].paid /\ handler'[p].doc.paid = handler[p].doc.paid
  BY <1>1 DEF ReadsHold, Knowing, PutsDown
<1>8. Drawn(posted.usage, l) \in Nat
  BY <1>1, DrawnNat
<1>9. /\ Drawn(posted'.usage, l) + Sum(handler'[p].plan, Claims) = handler'[p].doc.paid
      /\ Drawn(posted'.usage, l) <= request[l].paid
  BY <1>2, <1>3, <1>4, <1>5, <1>6, <1>7, <1>8
<1>10. /\ \A m \in Leaves \ {l} : /\ posted'.usage[m] = posted.usage[m]
                                  /\ Drawn(posted'.usage, m) = Drawn(posted.usage, m)
       /\ handler'[p].pc \in {"draw", "settle"} /\ handler'[p].req = l
       /\ \A q \in Callers \ {p} : handler'[q] = handler[q]
  BY <1>1 DEF UsageBy, PutsDown, Moved, Drawn
<1> HIDE DEF l, c, n
<1>11. ASSUME NEW m \in Leaves
       PROVE  /\ Drawn(posted'.usage, m) <= request'[m].paid
              /\ posted'.usage[m] # Nothing => Decided(request'[m].status)
  BY <1>1, <1>6, <1>9, <1>10 DEF ChargeInv
<1>12. ASSUME NEW q \in Callers, Finalizing(handler'[q])
       PROVE  /\ Decided(request'[handler'[q].req].status)
              /\ \A o \in Callers \ {q} : Finalizing(handler'[o]) => handler'[o].req # handler'[q].req
              /\ handler'[q].pc \in {"reserve", "consume"} => posted'.usage[handler'[q].req] = Nothing
              /\ handler'[q].pc \in Drawing =>
                   Drawn(posted'.usage, handler'[q].req) + Sum(handler'[q].plan, Claims) = handler'[q].doc.paid
  <2>1. CASE q = p
    <3>1. \A o \in Callers \ {p} : Finalizing(handler'[o]) => handler'[o].req # l
      BY <1>6, <1>10
    <3>2. handler'[p].pc \notin {"reserve", "consume"}
      BY <1>10
    <3> QED
      BY <1>1, <1>6, <1>9, <1>10, <2>1, <3>1, <3>2
  <2>2. CASE q # p
    <3>1. handler'[q] = handler[q]
      BY <1>10, <2>2
    <3>2. handler[q].req \in Leaves \ {l}
      BY <1>6, <1>12, <2>2, <3>1, HandlerIs DEF Finalizing, PlaceOK, ForLeave
    <3>3. \A o \in Callers \ {q} : Finalizing(handler'[o]) => handler'[o].req # handler[q].req
      BY <1>10, <1>12, <3>1, <3>2 DEF ChargeInv
    <3> QED
      BY <1>1, <1>10, <1>12, <3>1, <3>2, <3>3 DEF ChargeInv
  <2> QED
    BY <2>1, <2>2
<1> QED
  BY <1>11, <1>12 DEF ChargeInv

LEMMA ChargeStep ==
  ASSUME Typed, Typed', InsertsAlone, ReadsHold, ChargeInv,
         NEW p \in Callers, HandlerStep(p) \/ Call(p) \/ Expire(p) \/ Skip(p) \/ Die(p)
  PROVE  ChargeInv'
<1> SUFFICES ASSUME ~Charge(p) PROVE ChargesFairly(p)
  BY ChargesOne, ChargeCharges
<1> USE DEF ChargesFairly, Charges, Finalizing, Early, Drawing, Decided
<1>0. Claims \cap Leaves = {} /\ Leaves \subseteq Requests
  BY RequestsAssumption DEF Requests
<1>1. CASE InsertClaim(p)
  <2>1. request[handler[p].req].status = "none"
    BY <1>1, InsertClaimDoes DEF InsertsAlone, Inserting
  <2> QED
    BY <1>0, <1>1, <2>1, InsertClaimDoes, EndsOwn DEF StatusTo, OnlyDoc, Goes, SameRequest
<1>2. CASE InsertLeave(p)
  <2>1. request[handler[p].req].status = "none"
    BY <1>2, InsertLeaveDoes DEF InsertsAlone, Inserting
  <2>2. ChainOf[handler[p].req] = 0 => Status(handler[p].req) = "approved"
    BY DEF Status
  <2> QED
    BY <1>0, <1>2, <2>1, <2>2, InsertLeaveDoes, EndsOwn DEF OnlyDoc, Goes, SameRequest
<1>3. CASE Decide(p)
  BY <1>0, <1>3, DecideDoes, EndsOwn DEF StatusTo, OnlyDoc, Goes, SameRequest
<1>4. CASE Refuse(p) \/ CancelSave(p) \/ WithdrawSave(p) \/ Save(p)
  <2>1. PICK s : /\ s \in {"rejected", "cancelled", "withdrawn"} \/ s = request[handler[p].req].status
                 /\ StatusTo(handler[p].req, s)
                 /\ Goes(p, "release") \/ Ends(p)
                 /\ UNCHANGED posted
    BY <1>4, RefuseDoes, CancelSaveDoes, WithdrawSaveDoes, SaveDoes
  <2> QED
    BY <1>0, <2>1, EndsOwn DEF StatusTo, OnlyDoc, Goes
<1>5. CASE Reserve(p)
  BY <1>5, ReserveDoes, EndsOwn DEF Goes, SameRequest
<1>6. CASE Conflict(p) \/ Short(p) \/ Release(p) \/ Settle(p)
  BY <1>6, QuietDoes, EndsOwn DEF Goes
<1>7. CASE Mint(p)
  BY <1>7, MintDoes, EndsOwn
<1>8. CASE Consume(p)
  <2>1. /\ handler[p].pc = "consume" /\ handler[p].req \in Leaves
        /\ Moved(p) /\ handler'[p].pc = "draw" /\ handler'[p].req = handler[p].req
        /\ handler'[p].doc = handler[p].doc /\ UNCHANGED docs
        /\ Fifo(handler'[p].plan, handler[p].doc.paid)
    BY <1>8, ConsumeDoes DEF SameRequest
  <2>2. posted.usage[handler[p].req] = Nothing
    BY <2>1 DEF ChargeInv
  <2>3. Drawn(posted.usage, handler[p].req) = 0
    BY <2>1, <2>2, DrawnNat
  <2>4. Sum(handler'[p].plan, Claims) = handler'[p].doc.paid /\ handler'[p].doc.paid \in Nat
    BY <2>1, PlanIs DEF Fifo, Doc
  <2> QED
    BY <2>1, <2>3, <2>4 DEF docs
<1>9. CASE Draw(p)
  <2>1. PICK c \in Claims : /\ handler[p].pc = "draw" /\ TakesUp(p, c, "charge")
                            /\ UNCHANGED <<request, posted>>
    BY <1>9, DrawDoes
  <2>2. handler[p].req \in Leaves /\
        Drawn(posted.usage, handler[p].req) + Sum(handler[p].plan, Claims) = handler[p].doc.paid
    BY <2>1, HandlerIs DEF ChargeInv, PlaceOK, ForLeave
  <2> QED
    BY <2>1, <2>2 DEF TakesUp, SameRequest
<1>10. CASE Restore(p) \/ Lapse(p)
  BY <1>10, RestoreDoes, LapseDoes DEF TakesUp, ExpiryBy
<1>11. CASE Unuse(p) \/ Zero(p)
  BY <1>11, UnuseDoes, ZeroDoes DEF PutsDown, ReversalBy
<1>12. CASE Skip(p)
  BY <1>12, SkipDoes DEF PutsDown, docs
<1>13. CASE Expire(p)
  BY <1>13, ExpireDoes DEF docs
<1>14. CASE Die(p)
  BY <1>14, DieDoes, EndsOwn DEF docs
<1>15. CASE Call(p)
  <2>1. PICK r \in Requests : Starts(p, r) /\ ~Finalizing(handler'[p])
    BY <1>15, ApplyDoes, DecisionDoes, WithdrawDoes DEF Call, Requests
  <2> QED
    BY <2>1 DEF Starts, docs
<1> QED
  BY <1>1, <1>2, <1>3, <1>4, <1>5, <1>6, <1>7, <1>8, <1>9, <1>10, <1>11, <1>12, <1>13, <1>14, <1>15
  DEF HandlerStep
-----------------------------------------------------------------------------
(* Plans: of leave, from lots that had not expired; of the job, from lots     *)
(* that had, and that nobody draws any more.                                  *)
PlanOK(h, d) ==
  h.pc \in Drawing => /\ h.asOf <= d
                      /\ \A c \in Claims : h.plan[c] > 0 => Expires(c) > h.asOf

(* What the job has in hand, while the day is d and the lots are L.           *)
JobOK(h, d, L) ==
  h.pc \in Job => /\ h.pc = "zero" => h.plan[h.lot] > 0
                  /\ \A c \in Claims : h.plan[c] > 0 => h.plan[c] <= L[c] /\ Expires(c) <= d

Apart(g, h) ==
  g.pc \in Job => /\ h.pc \notin Job
                  /\ h.pc \in Drawing => \A c \in Claims : g.plan[c] > 0 => h.plan[c] = 0

LEMMA PlansAre ==
  PlansHold <=> /\ \A p \in Callers : PlanOK(handler[p], day) /\ JobOK(handler[p], day, lot)
                /\ \A p, q \in Callers : p # q => Apart(handler[p], handler[q])
<1>1. Job \cap Drawing = {}
  BY DEF Job, Drawing
<1> QED
  BY <1>1 DEF PlansHold, PlanOK, JobOK, Apart

LEMMA PlansNext ==
  PlansHold' <=> /\ \A p \in Callers : PlanOK(handler'[p], day') /\ JobOK(handler'[p], day', lot')
                 /\ \A p, q \in Callers : p # q => Apart(handler'[p], handler'[q])
<1>1. Job \cap Drawing = {}
  BY DEF Job, Drawing
<1> QED
  BY <1>1 DEF PlansHold, PlanOK, JobOK, Apart

(* A step of p that leaves the plans of the others, and the lots that the job *)
(* has in hand.                                                               *)
LEMMA PlansMoved ==
  ASSUME Typed, PlansHold, NEW p \in Callers, Moved(p), day' = day,
         PlanOK(handler'[p], day), JobOK(handler'[p], day, lot'),
         \A q \in Callers \ {p} : JobOK(handler[q], day, lot'),
         \A q \in Callers \ {p} : Apart(handler'[p], handler[q]) /\ Apart(handler[q], handler'[p])
  PROVE  PlansHold'
BY PlansAre, PlansNext DEF Moved

(* p neither draws nor is the job after its step.                             *)
LEMMA PlansFree ==
  ASSUME Typed, PlansHold, NEW p \in Callers, Moved(p), day' = day, lot' = lot,
         handler'[p].pc \notin Job \cup Drawing
  PROVE  PlansHold'
<1>1. PlanOK(handler'[p], day) /\ JobOK(handler'[p], day, lot')
  BY DEF PlanOK, JobOK
<1>2. \A q \in Callers \ {p} : Apart(handler'[p], handler[q]) /\ Apart(handler[q], handler'[p])
  BY DEF Apart
<1>3. \A q \in Callers \ {p} : JobOK(handler[q], day, lot')
  BY PlansAre
<1> QED
  BY <1>1, <1>2, <1>3, PlansMoved

(* p goes on with less in hand.                                               *)
LEMMA PlansShrink ==
  ASSUME Typed, PlansHold, NEW p \in Callers, NEW c \in Claims, NEW pc \in Steps, NEW next \in Steps,
         PutsDown(p, c, pc, next), day' = day, UNCHANGED lot \/ handler[p].pc = "zero",
         \/ handler[p].pc \in Drawing /\ {pc, next} \subseteq {"draw", "settle"}
         \/ handler[p].pc \in Job /\ {pc, next} \subseteq {"lapse", "rest"},
         \A b \in Claims \ {c} : lot'[b] = lot[b],
         \A q \in Callers \ {p} : handler[p].pc \in Drawing => lot' = lot
  PROVE  PlansHold'
<1> USE DEF Job, Drawing
<1>0. handler[p].plan \in [Claims -> Nat]
  BY PlanIs
<1>1. \A b \in Claims : handler'[p].plan[b] > 0 => b # c /\ handler'[p].plan[b] = handler[p].plan[b]
  BY <1>0 DEF PutsDown
<1>2. PlanOK(handler'[p], day) /\ JobOK(handler'[p], day, lot')
  BY <1>0, <1>1, PlansAre DEF PutsDown, PlanOK, JobOK
<1>3. ASSUME NEW q \in Callers \ {p}
      PROVE  /\ JobOK(handler[q], day, lot')
             /\ Apart(handler'[p], handler[q]) /\ Apart(handler[q], handler'[p])
  <2>1. /\ JobOK(handler[q], day, lot)
        /\ Apart(handler[p], handler[q]) /\ Apart(handler[q], handler[p])
    BY PlansAre
  <2>2. JobOK(handler[q], day, lot')
    BY <2>1 DEF JobOK, Apart
  <2>3. Apart(handler'[p], handler[q])
    BY <1>1, <2>1 DEF Apart, PutsDown
  <2>4. Apart(handler[q], handler'[p])
    BY <1>0, <2>1 DEF Apart, PutsDown
  <2> QED
    BY <2>2, <2>3, <2>4
<1> QED
  BY <1>2, <1>3, PlansMoved DEF PutsDown

LEMMA ConsumePlans ==
  ASSUME Typed, PlansHold, NEW p \in Callers, Consume(p)
  PROVE  PlansHold'
<1>1. /\ Moved(p) /\ handler'[p].pc = "draw" /\ handler'[p].asOf = day /\ day' = day /\ lot' = lot
      /\ handler'[p].plan \in [Claims -> 0 .. handler[p].doc.paid]
      /\ Fifo(handler'[p].plan, handler[p].doc.paid)
  BY ConsumeDoes DEF Still, docs
<1>2. handler'[p].plan \in [Claims -> Nat]
  BY <1>1, PlanIs DEF Doc
<1>3. \A c \in Claims : handler'[p].plan[c] > 0 => Expires(c) > day
  <2> SUFFICES ASSUME NEW c \in Claims, handler'[p].plan[c] > 0 PROVE Expires(c) > day
    OBVIOUS
  <2>1. handler'[p].plan[c] <= IF c \in Live THEN lot[c] ELSE 0
    BY <1>1 DEF Fifo
  <2>2. c \in Live
    BY <1>2, <2>1
  <2> QED
    BY <2>2 DEF Live
<1>4. day \in Nat
  BY BoundAssumption DEF Typed
<1>5. PlanOK(handler'[p], day) /\ JobOK(handler'[p], day, lot')
  BY <1>1, <1>3, <1>4 DEF PlanOK, JobOK, Job
<1>6. ASSUME NEW q \in Callers \ {p}
      PROVE  /\ JobOK(handler[q], day, lot')
             /\ Apart(handler'[p], handler[q]) /\ Apart(handler[q], handler'[p])
  <2>1. JobOK(handler[q], day, lot')
    BY <1>1, PlansAre
  <2>2. Apart(handler'[p], handler[q])
    BY <1>1 DEF Apart, Job
  <2>3. ASSUME handler[q].pc \in Job, NEW c \in Claims, handler[q].plan[c] > 0
        PROVE  handler'[p].plan[c] = 0
    <3>1. Expires(c) <= day /\ Expires(c) \in Int
      BY <1>1, <2>1, <2>3, BoundAssumption, ShapeAssumption DEF JobOK, Expires
    <3>2. ~(handler'[p].plan[c] > 0)
      BY <1>3, <1>4, <3>1
    <3> QED
      BY <1>2, <3>2
  <2>4. Apart(handler[q], handler'[p])
    BY <1>1, <2>3 DEF Apart, Job
  <2> QED
    BY <2>1, <2>2, <2>4
<1> QED
  BY <1>1, <1>5, <1>6, PlansMoved

LEMMA ExpirePlans ==
  ASSUME Typed, PlansHold, NEW p \in Callers, Expire(p)
  PROVE  PlansHold'
<1>1. /\ Moved(p) /\ handler'[p].pc = "lapse" /\ day' = day /\ lot' = lot /\ JobMayRun
      /\ handler'[p].plan = [c \in Claims |-> IF c \in Stale THEN lot[c] ELSE 0]
  BY ExpireDoes DEF docs
<1>2. \A c \in Claims : handler'[p].plan[c] > 0 => c \in Stale /\ handler'[p].plan[c] = lot[c]
  BY <1>1
<1>3. lot \in [Claims -> Int] /\ day \in Int /\ \A c \in Claims : Expires(c) \in Int
  BY PlanIs, BoundAssumption, ShapeAssumption DEF Typed, Expires
<1>4. PlanOK(handler'[p], day) /\ JobOK(handler'[p], day, lot')
  BY <1>1, <1>2, <1>3 DEF PlanOK, JobOK, Drawing, Stale
<1>5. ASSUME NEW q \in Callers \ {p}
      PROVE  /\ JobOK(handler[q], day, lot')
             /\ Apart(handler'[p], handler[q]) /\ Apart(handler[q], handler'[p])
  <2>1. JobOK(handler[q], day, lot') /\ PlanOK(handler[q], day)
    BY <1>1, PlansAre
  <2>2. handler[q].pc \notin Job /\ (handler[q].pc \in Drawing => handler[q].asOf = day)
    BY <1>1 DEF JobMayRun
  <2>3. Apart(handler[q], handler'[p])
    BY <2>2 DEF Apart
  <2>4. ASSUME handler[q].pc \in Drawing, NEW c \in Claims, handler'[p].plan[c] > 0
        PROVE  handler[q].plan[c] = 0
    <3>1. Expires(c) <= day
      BY <1>2, <2>4 DEF Stale
    <3>2. ~(handler[q].plan[c] > 0)
      BY <1>3, <2>1, <2>2, <2>4, <3>1 DEF PlanOK
    <3>3. handler[q].plan[c] \in Nat
      BY PlanIs
    <3> QED
      BY <3>2, <3>3
  <2>5. Apart(handler'[p], handler[q])
    BY <2>2, <2>4 DEF Apart
  <2> QED
    BY <2>1, <2>3, <2>5
<1> QED
  BY <1>1, <1>4, <1>5, PlansMoved

(* p takes up a lot of its plan: Draw, where no job has it in hand, or Lapse. *)
LEMMA TakesUpPlans ==
  ASSUME Typed, PlansHold, NEW p \in Callers, NEW c \in Claims, NEW pc \in {"charge", "zero"},
         TakesUp(p, c, pc), day' = day, handler[p].plan[c] > 0, lot' \in [Claims -> Int],
         \/ handler[p].pc = "draw" /\ pc = "charge" /\ LotBy(c, - handler[p].plan[c])
         \/ handler[p].pc = "lapse" /\ pc = "zero" /\ lot' = lot
  PROVE  PlansHold'
<1> USE DEF Job, Drawing
<1>1. /\ Moved(p) /\ handler'[p].pc = pc /\ handler'[p].lot = c
      /\ handler'[p].plan = handler[p].plan /\ handler'[p].asOf = handler[p].asOf
  BY DEF TakesUp
<1>2. PlanOK(handler[p], day) /\ JobOK(handler[p], day, lot)
  BY PlansAre
<1>3. PlanOK(handler'[p], day) /\ JobOK(handler'[p], day, lot')
  BY <1>1, <1>2 DEF PlanOK, JobOK
<1>4. ASSUME NEW q \in Callers \ {p}
      PROVE  /\ JobOK(handler[q], day, lot')
             /\ Apart(handler'[p], handler[q]) /\ Apart(handler[q], handler'[p])
  <2>1. /\ JobOK(handler[q], day, lot)
        /\ Apart(handler[p], handler[q]) /\ Apart(handler[q], handler[p])
    BY PlansAre
  <2>2. Apart(handler'[p], handler[q]) /\ Apart(handler[q], handler'[p])
    BY <1>1, <2>1 DEF Apart
  <2>3. ASSUME handler[q].pc \in Job PROVE JobOK(handler[q], day, lot')
    <3>1. CASE handler[p].pc = "draw"
      <4>1. ~(handler[q].plan[c] > 0)
        BY <2>1, <2>3, <3>1 DEF Apart
      <4>2. \A b \in Claims \ {c} : lot'[b] = lot[b]
        BY <3>1 DEF LotBy
      <4> QED
        BY <2>1, <4>1, <4>2 DEF JobOK
    <3>2. CASE lot' = lot
      BY <2>1, <3>2
    <3> QED
      BY <3>1, <3>2
  <2>4. JobOK(handler[q], day, lot')
    BY <2>3 DEF JobOK
  <2> QED
    BY <2>2, <2>4
<1> QED
  BY <1>1, <1>3, <1>4, PlansMoved

(* Lots only grow, and p neither draws nor is the job.                        *)
LEMMA PlansGrow ==
  ASSUME Typed, PlansHold, NEW p \in Callers, Moved(p), day' = day,
         lot' \in [Claims -> Int], \A c \in Claims : lot[c] <= lot'[c],
         handler'[p].pc \notin Job \cup Drawing
  PROVE  PlansHold'
<1>1. PlanOK(handler'[p], day) /\ JobOK(handler'[p], day, lot')
  BY DEF PlanOK, JobOK
<1>2. \A q \in Callers \ {p} : Apart(handler'[p], handler[q]) /\ Apart(handler[q], handler'[p])
  BY DEF Apart
<1>3. ASSUME NEW q \in Callers \ {p} PROVE JobOK(handler[q], day, lot')
  <2>1. JobOK(handler[q], day, lot) /\ handler[q].plan \in [Claims -> Nat] /\ lot \in [Claims -> Int]
    BY PlansAre, PlanIs
  <2> QED
    BY <2>1 DEF JobOK
<1> QED
  BY <1>1, <1>2, <1>3, PlansMoved

LEMMA PlansStep ==
  ASSUME Typed, Typed', PlansHold, NEW p \in Callers,
         HandlerStep(p) \/ Call(p) \/ Expire(p) \/ Skip(p) \/ Die(p)
  PROVE  PlansHold'
<1> USE DEF Still
<1>0. lot \in [Claims -> Int] /\ lot' \in [Claims -> Int] /\ handler[p].plan \in [Claims -> Nat]
  BY PlanIs DEF Typed, DocsTyped
<1>1. ASSUME Ends(p), day' = day, lot' = lot PROVE PlansHold'
  BY <1>1, EndsOwn, PlansFree, NamesOfSteps
<1>2. ASSUME NEW pc \in {"mint", "reserve", "consume", "release", "save"}, Goes(p, pc),
             day' = day, lot' = lot
      PROVE  PlansHold'
  BY <1>2, PlansFree, NamesOfSteps DEF Goes
<1>3. CASE InsertClaim(p) \/ InsertLeave(p) \/ Reserve(p) \/ Decide(p)
  BY <1>1, <1>2, <1>3, InsertClaimDoes, InsertLeaveDoes, ReserveDoes, DecideDoes
<1>4. CASE Refuse(p) \/ CancelSave(p) \/ WithdrawSave(p) \/ Save(p)
  BY <1>1, <1>2, <1>4, RefuseDoes, CancelSaveDoes, WithdrawSaveDoes, SaveDoes
<1>5. CASE Conflict(p) \/ Short(p) \/ Release(p) \/ Settle(p)
  BY <1>1, <1>2, <1>5, QuietDoes
<1>6. CASE Mint(p)
  <2>1. \A c \in Claims : lot[c] <= lot'[c]
    BY <1>0, <1>6, MintDoes, ShapeAssumption
  <2> QED
    BY <1>0, <1>6, <2>1, MintDoes, EndsOwn, PlansGrow, NamesOfSteps
<1>7. CASE Consume(p)
  BY <1>7, ConsumePlans
<1>8. CASE Expire(p)
  BY <1>8, ExpirePlans
<1>9. CASE Draw(p)
  BY <1>0, <1>9, DrawDoes, TakesUpPlans
<1>10. CASE Lapse(p)
  BY <1>0, <1>10, LapseDoes, TakesUpPlans
<1>11. CASE Restore(p)
  <2>1. PICK c \in Claims : /\ TakesUp(p, c, "unuse") /\ LotBy(c, handler[p].plan[c])
    BY <1>11, RestoreDoes
  <2>2. \A b \in Claims : lot[b] <= lot'[b]
    BY <1>0, <2>1 DEF LotBy
  <2>3. Moved(p) /\ handler'[p].pc \notin Job \cup Drawing
    BY <2>1 DEF TakesUp, Job, Drawing
  <2> QED
    BY <1>0, <1>11, <2>2, <2>3, RestoreDoes, PlansGrow
<1>12. CASE Charge(p)
  BY <1>12, ChargeDoes, PlansShrink, NamesOfSteps
<1>13. CASE Zero(p)
  BY <1>13, ZeroDoes, PlansShrink, NamesOfSteps
<1>14. CASE Skip(p)
  <2>1. PICK c \in Claims : PutsDown(p, c, "lapse", "rest")
    BY <1>14, SkipDoes
  <2> QED
    BY <1>14, <2>1, SkipDoes, PlansShrink, NamesOfSteps DEF docs
<1>15. CASE Unuse(p)
  <2>1. Moved(p) /\ handler'[p].pc \notin Job \cup Drawing
    BY <1>15, UnuseDoes DEF PutsDown, Job, Drawing
  <2> QED
    BY <1>15, <2>1, UnuseDoes, PlansFree
<1>16. CASE Die(p)
  BY <1>1, <1>16, DieDoes DEF docs
<1>17. CASE Call(p)
  <2>1. PICK r \in Requests : Starts(p, r) /\ handler'[p].pc \notin Job \cup Drawing
    BY <1>17, ApplyDoes, DecisionDoes, WithdrawDoes DEF Call, Requests, Job, Drawing
  <2> QED
    BY <2>1, PlansFree DEF Starts, docs
<1> QED
  BY <1>3, <1>4, <1>5, <1>6, <1>7, <1>8, <1>9, <1>10, <1>11, <1>12, <1>13, <1>14, <1>15, <1>16, <1>17
  DEF HandlerStep

LEMMA PlansTick ==
  ASSUME Typed, PlansHold, Tick
  PROVE  PlansHold'
<1>1. day \in Int /\ day' = day + 1 /\ lot' = lot /\ handler' = handler
  BY BoundAssumption DEF Typed, Tick, docs
<1>2. \A p \in Callers : handler[p].asOf \in Nat
  BY HandlerIs DEF Local
<1>3. \A c \in Claims : Expires(c) \in Int
  BY BoundAssumption, ShapeAssumption DEF Expires
<1>4. ASSUME NEW p \in Callers PROVE PlanOK(handler'[p], day') /\ JobOK(handler'[p], day', lot')
  <2>1. PlanOK(handler[p], day) /\ JobOK(handler[p], day, lot)
    BY PlansAre
  <2> QED
    BY <1>1, <1>2, <1>3, <2>1 DEF PlanOK, JobOK
<1>5. \A p, q \in Callers : p # q => Apart(handler'[p], handler'[q])
  BY <1>1, PlansAre
<1> QED
  BY <1>4, <1>5, PlansNext
-----------------------------------------------------------------------------
(* Books: what a lot has over what the ledger says is in flight.              *)
UsedOf(P, c) == Sum([l \in Leaves |-> P.usage[l][c] - P.reversal[l][c]], Leaves)
LeftOf(P, c) == P.credit[c] - UsedOf(P, c) - P.expiry[c]
Flight(H, c) == Sum([p \in Callers |-> Between(H[p], c)], Callers)

LEMMA BooksAre ==
  BooksInv <=> (crashes = 0 => \A c \in Claims : Flight(handler, c) <= LeftOf(posted, c) - lot[c])
BY DEF BooksInv, Flight, LeftOf, UsedOf, InFlight, Explained, NetUsed

LEMMA BooksNext ==
  BooksInv' <=> (crashes' = 0 => \A c \in Claims : Flight(handler', c) <= LeftOf(posted', c) - lot'[c])
BY DEF BooksInv, Flight, LeftOf, UsedOf, InFlight, Explained, NetUsed

LEMMA UsedInt ==
  ASSUME NEW P \in Posted, NEW c \in Claims
  PROVE  UsedOf(P, c) \in Int /\ LeftOf(P, c) \in Int
<1> DEFINE f == [l \in Leaves |-> P.usage[l][c] - P.reversal[l][c]]
<1>1. \A l \in Leaves : f[l] \in Int
  BY DEF Posted
<1>2. Sum(f, Leaves) \in Int
  <2> HIDE DEF f
  <2> QED
    BY <1>1, FiniteAssumption, SumInt
<1>3. UsedOf(P, c) = Sum(f, Leaves) /\ P.credit[c] \in Nat /\ P.expiry[c] \in Nat
  BY DEF UsedOf, Posted
<1> HIDE DEF f
<1> QED
  BY <1>2, <1>3 DEF LeftOf

(* What is used of a lot when one leave uses it by n more.                    *)
LEMMA UsedMoved ==
  ASSUME NEW P \in Posted, NEW Q \in Posted, NEW c \in Claims, NEW l \in Leaves, NEW n \in Int,
         Q.usage[l][c] - Q.reversal[l][c] = P.usage[l][c] - P.reversal[l][c] + n,
         \A m \in Leaves \ {l} : /\ Q.usage[m][c] = P.usage[m][c]
                                 /\ Q.reversal[m][c] = P.reversal[m][c]
  PROVE  UsedOf(Q, c) = UsedOf(P, c) + n
<1> DEFINE f == [m \in Leaves |-> P.usage[m][c] - P.reversal[m][c]]
           g == [m \in Leaves |-> Q.usage[m][c] - Q.reversal[m][c]]
<1>1. /\ \A m \in Leaves : f[m] \in Int
      /\ g[l] \in Int /\ \A m \in Leaves \ {l} : g[m] = f[m]
      /\ g[l] = f[l] + n
  BY DEF Posted
<1>2. UsedOf(P, c) = Sum(f, Leaves) /\ UsedOf(Q, c) = Sum(g, Leaves)
  BY DEF UsedOf
<1> HIDE DEF f, g
<1>3. Sum(g, Leaves) = Sum(f, Leaves) - f[l] + g[l] /\ Sum(f, Leaves) \in Int
  BY <1>1, FiniteAssumption, SumChange, SumInt
<1> QED
  BY <1>1, <1>2, <1>3

LEMMA UsedSame ==
  ASSUME NEW P \in Posted, NEW Q \in Posted, NEW c \in Claims,
         \A m \in Leaves : /\ Q.usage[m][c] = P.usage[m][c]
                           /\ Q.reversal[m][c] = P.reversal[m][c]
  PROVE  UsedOf(Q, c) = UsedOf(P, c)
BY DEF UsedOf

LEMMA BetweenInt ==
  ASSUME Typed, NEW p \in Callers, NEW c \in Claims
  PROVE  Between(handler[p], c) \in Int
BY PlanIs DEF Between

LEMMA FlightMoved ==
  ASSUME Typed, Typed', NEW p \in Callers, NEW c \in Claims, Moved(p)
  PROVE  /\ Flight(handler', c) = Flight(handler, c) - Between(handler[p], c) + Between(handler'[p], c)
         /\ Flight(handler, c) \in Int
         /\ Between(handler[p], c) \in Int /\ Between(handler'[p], c) \in Int
<1> DEFINE f == [q \in Callers |-> Between(handler[q], c)]
           g == [q \in Callers |-> Between(handler'[q], c)]
<1>1. \A q \in Callers : Between(handler[q], c) \in Int
  BY BetweenInt
<1>2. Between(handler'[p], c) \in Int
  <2>1. handler'[p].plan \in [Claims -> Nat]
    BY DEF Typed, Local
  <2> QED
    BY <2>1 DEF Between
<1>3. /\ \A q \in Callers : f[q] \in Int
      /\ g[p] \in Int /\ \A q \in Callers \ {p} : g[q] = f[q]
      /\ f[p] = Between(handler[p], c) /\ g[p] = Between(handler'[p], c)
  BY <1>1, <1>2 DEF Moved
<1>4. Flight(handler, c) = Sum(f, Callers) /\ Flight(handler', c) = Sum(g, Callers)
  BY DEF Flight
<1> HIDE DEF f, g
<1>5. Sum(g, Callers) = Sum(f, Callers) - f[p] + g[p] /\ Sum(f, Callers) \in Int
  BY <1>3, FiniteAssumption, SumChange, SumInt
<1> QED
  BY <1>1, <1>2, <1>3, <1>4, <1>5

(* A step of p is even on every lot when what is in flight grows by no more   *)
(* than the ledger gains on the lot, and exact when it grows by that much.    *)
(* All are exact, but for the job that zeroes more of a lot than it read.     *)
Even(p) == \A c \in Claims : Between(handler'[p], c) - Between(handler[p], c)
                              <= (LeftOf(posted', c) - lot'[c]) - (LeftOf(posted, c) - lot[c])
Exact(p) == \A c \in Claims : Between(handler'[p], c) - Between(handler[p], c)
                              = (LeftOf(posted', c) - lot'[c]) - (LeftOf(posted, c) - lot[c])
Balanced(p) ==
  /\ Even(p)
  /\ (handler[p].pc = "zero" => handler[p].plan[handler[p].lot] = lot[handler[p].lot]) => Exact(p)

LEMMA BooksMoved ==
  ASSUME Typed, Typed', BooksInv, NEW p \in Callers, Moved(p), crashes' = crashes, Even(p)
  PROVE  BooksInv'
<1> SUFFICES ASSUME crashes = 0, NEW c \in Claims
             PROVE  Flight(handler', c) <= LeftOf(posted', c) - lot'[c]
  BY BooksNext
<1>1. Flight(handler, c) <= LeftOf(posted, c) - lot[c]
  BY BooksAre
<1>2. /\ Flight(handler', c) = Flight(handler, c) - Between(handler[p], c) + Between(handler'[p], c)
      /\ Flight(handler, c) \in Int
      /\ Between(handler[p], c) \in Int /\ Between(handler'[p], c) \in Int
  BY FlightMoved
<1>3. posted \in Posted /\ posted' \in Posted /\ lot[c] \in Int /\ lot'[c] \in Int
  BY DEF Typed, DocsTyped
<1>4. LeftOf(posted, c) \in Int /\ LeftOf(posted', c) \in Int
  BY <1>3, UsedInt
<1>5. Between(handler'[p], c) - Between(handler[p], c)
        <= (LeftOf(posted', c) - lot'[c]) - (LeftOf(posted, c) - lot[c])
  BY DEF Even
<1> QED
  BY <1>1, <1>2, <1>3, <1>4, <1>5

LEMMA ExactIsBalanced ==
  ASSUME Typed, Typed', NEW p \in Callers, Exact(p)
  PROVE  Balanced(p)
<1> SUFFICES ASSUME NEW c \in Claims
             PROVE  Between(handler'[p], c) - Between(handler[p], c)
                      <= (LeftOf(posted', c) - lot'[c]) - (LeftOf(posted, c) - lot[c])
  BY DEF Even, Balanced
<1>1. posted \in Posted /\ posted' \in Posted /\ lot[c] \in Int /\ lot'[c] \in Int
  BY DEF Typed, DocsTyped
<1>2. LeftOf(posted, c) \in Int /\ LeftOf(posted', c) \in Int
  BY <1>1, UsedInt
<1> QED
  BY <1>1, <1>2 DEF Exact

(* p is between no two writes before the step, nor after.                     *)
LEMMA ExactQuiet ==
  ASSUME Typed, NEW p \in Callers, posted' = posted, lot' = lot,
         handler[p].pc \notin AtLot, handler'[p].pc \notin AtLot
  PROVE  Exact(p)
<1>1. \A c \in Claims : Between(handler[p], c) = 0 /\ Between(handler'[p], c) = 0
  BY DEF Between, AtLot
<1>2. \A c \in Claims : LeftOf(posted, c) \in Int /\ lot[c] \in Int
  BY UsedInt DEF Typed, DocsTyped
<1> QED
  BY <1>1, <1>2 DEF Exact

(* The first of a pair of writes: p is left between them.                     *)
LEMMA ExactFirst ==
  ASSUME Typed, Typed', NEW p \in Callers, NEW c \in Claims, NEW pc \in AtLot,
         TakesUp(p, c, pc), handler[p].pc \notin AtLot,
         \/ pc = "charge" /\ posted' = posted /\ LotBy(c, - handler[p].plan[c])
         \/ pc = "unuse" /\ posted' = posted /\ LotBy(c, handler[p].plan[c])
         \/ pc = "zero" /\ lot' = lot /\ ExpiryBy(c, handler[p].plan[c])
  PROVE  Exact(p)
<1>1. /\ Moved(p) /\ handler'[p].pc = pc /\ handler'[p].lot = c
      /\ handler'[p].plan = handler[p].plan /\ handler[p].plan \in [Claims -> Nat]
  BY PlanIs DEF TakesUp
<1>2. posted \in Posted /\ posted' \in Posted /\ lot \in [Claims -> Int] /\ lot' \in [Claims -> Int]
  BY DEF Typed, DocsTyped
<1>3. \A b \in Claims : /\ UsedOf(posted', b) = UsedOf(posted, b)
                        /\ UsedOf(posted, b) \in Int /\ LeftOf(posted, b) \in Int
  BY <1>2, UsedSame, UsedInt DEF ExpiryBy
<1>4. ASSUME NEW b \in Claims
      PROVE  Between(handler'[p], b) - Between(handler[p], b)
               = (LeftOf(posted', b) - lot'[b]) - (LeftOf(posted, b) - lot[b])
  <2>1. Between(handler[p], b) = 0
    BY DEF Between, AtLot
  <2>2. CASE b # c
    <3>1. Between(handler'[p], b) = 0 /\ lot'[b] = lot[b]
      BY <1>1, <2>2 DEF Between, LotBy
    <3>2. LeftOf(posted', b) = LeftOf(posted, b)
      BY <1>3, <2>2 DEF LeftOf, ExpiryBy
    <3> QED
      BY <1>2, <1>3, <2>1, <3>1, <3>2
  <2>3. CASE b = c
    <3>1. Between(handler'[p], c) = IF pc = "charge" THEN handler[p].plan[c] ELSE - handler[p].plan[c]
      BY <1>1 DEF Between, AtLot
    <3>2. LeftOf(posted', c) = LeftOf(posted, c) - IF pc = "zero" THEN handler[p].plan[c] ELSE 0
      <4>1. posted.credit[c] \in Int /\ posted.expiry[c] \in Int /\ handler[p].plan[c] \in Int
        BY <1>1, <1>2 DEF Posted
      <4>2. CASE pc = "zero"
        BY <1>3, <4>1, <4>2 DEF LeftOf, ExpiryBy
      <4>3. CASE pc # "zero"
        BY <1>3, <4>3
      <4> QED
        BY <4>2, <4>3
    <3>3. lot'[c] = lot[c] + (IF pc = "charge" THEN - handler[p].plan[c]
                              ELSE IF pc = "unuse" THEN handler[p].plan[c] ELSE 0)
      BY <1>2 DEF LotBy
    <3>4. handler[p].plan[c] \in Int /\ lot[c] \in Int /\ LeftOf(posted, c) \in Int
      BY <1>1, <1>2, <1>3
    <3>5. pc \in {"charge", "unuse", "zero"}
      BY DEF AtLot
    <3> QED
      BY <2>1, <2>3, <3>1, <3>2, <3>3, <3>4, <3>5
  <2> QED
    BY <2>2, <2>3
<1> QED
  BY <1>4 DEF Exact

(* The second: what it was between is on the books.                           *)
LEMMA BalancedSecond ==
  ASSUME Typed, Typed', PlansHold, NEW p \in Callers, NEW c \in Claims,
         NEW pc \in Steps, NEW next \in Steps, PutsDown(p, c, pc, next),
         handler[p].lot = c,
         \/ /\ handler[p].pc = "charge" /\ lot' = lot
            /\ handler[p].req \in Leaves /\ UsageBy(handler[p].req, c, handler[p].plan[c])
         \/ /\ handler[p].pc = "unuse" /\ lot' = lot
            /\ handler[p].req \in Leaves /\ ReversalBy(handler[p].req, c, handler[p].plan[c])
         \/ /\ handler[p].pc = "zero" /\ posted' = posted
            /\ lot'[c] = 0 /\ \A b \in Claims \ {c} : lot'[b] = lot[b]
  PROVE  Balanced(p)
<1> DEFINE l == handler[p].req
           n == handler[p].plan[c]
           moved(b) == Between(handler'[p], b) - Between(handler[p], b)
           gained(b) == (LeftOf(posted', b) - lot'[b]) - (LeftOf(posted, b) - lot[b])
<1>1. /\ Moved(p) /\ handler'[p].lot = None /\ handler[p].plan \in [Claims -> Nat] /\ n \in Nat
  BY PlanIs DEF PutsDown
<1>2. posted \in Posted /\ posted' \in Posted /\ lot \in [Claims -> Int] /\ lot' \in [Claims -> Int]
  BY DEF Typed, DocsTyped
<1>3. \A b \in Claims : Between(handler'[p], b) = 0
  BY <1>1, RequestsAssumption DEF Between, Requests
<1>4. \A b \in Claims : UsedOf(posted, b) \in Int /\ LeftOf(posted, b) \in Int
  BY <1>2, UsedInt
<1>5. ASSUME NEW b \in Claims \ {c}
      PROVE  moved(b) = gained(b) /\ gained(b) \in Int
  <2>1. Between(handler[p], b) = 0
    BY DEF Between
  <2>2. UsedOf(posted', b) = UsedOf(posted, b)
    <3>1. \A m \in Leaves : /\ posted'.usage[m][b] = posted.usage[m][b]
                            /\ posted'.reversal[m][b] = posted.reversal[m][b]
      BY DEF UsageBy, ReversalBy
    <3> QED
      BY <1>2, <3>1, UsedSame
  <2>3. LeftOf(posted', b) = LeftOf(posted, b) /\ lot'[b] = lot[b]
    BY <2>2 DEF LeftOf, UsageBy, ReversalBy
  <2> QED
    BY <1>2, <1>3, <1>4, <2>1, <2>3
<1>6. /\ moved(c) <= gained(c)
      /\ (handler[p].pc = "zero" => n = lot[c]) => moved(c) = gained(c)
  <2>1. posted.credit[c] \in Int /\ posted.expiry[c] \in Int /\ lot[c] \in Int
    BY <1>2 DEF Posted
  <2>2. CASE handler[p].pc = "charge"
    <3>1. Between(handler[p], c) = n
      BY <2>2 DEF Between
    <3>2. UsedOf(posted', c) = UsedOf(posted, c) + n
      <4>1. posted.usage[l][c] \in Nat /\ posted.reversal[l][c] \in Nat
        BY <1>2, <2>2 DEF Posted
      <4>2. /\ posted'.usage[l][c] - posted'.reversal[l][c] = posted.usage[l][c] - posted.reversal[l][c] + n
            /\ \A m \in Leaves \ {l} : /\ posted'.usage[m][c] = posted.usage[m][c]
                                       /\ posted'.reversal[m][c] = posted.reversal[m][c]
        BY <1>1, <2>2, <4>1 DEF UsageBy
      <4> HIDE DEF n
      <4> QED
        BY <1>1, <1>2, <2>2, <4>2, UsedMoved
    <3>3. LeftOf(posted', c) = LeftOf(posted, c) - n /\ lot'[c] = lot[c]
      BY <1>1, <1>4, <2>1, <2>2, <3>2 DEF LeftOf, UsageBy
    <3> QED
      BY <1>1, <1>3, <1>4, <2>1, <2>2, <3>1, <3>3
  <2>3. CASE handler[p].pc = "unuse"
    <3>1. Between(handler[p], c) = - n
      BY <2>3 DEF Between
    <3>2. UsedOf(posted', c) = UsedOf(posted, c) + (- n)
      <4>1. posted.usage[l][c] \in Nat /\ posted.reversal[l][c] \in Nat
        BY <1>2, <2>3 DEF Posted
      <4>2. /\ posted'.usage[l][c] - posted'.reversal[l][c] = posted.usage[l][c] - posted.reversal[l][c] + (- n)
            /\ \A m \in Leaves \ {l} : /\ posted'.usage[m][c] = posted.usage[m][c]
                                       /\ posted'.reversal[m][c] = posted.reversal[m][c]
        BY <1>1, <2>3, <4>1 DEF ReversalBy
      <4>3. - n \in Int
        BY <1>1
      <4> HIDE DEF n
      <4> QED
        BY <1>2, <2>3, <4>2, <4>3, UsedMoved
    <3>3. LeftOf(posted', c) = LeftOf(posted, c) + n /\ lot'[c] = lot[c]
      BY <1>1, <1>4, <2>1, <2>3, <3>2 DEF LeftOf, ReversalBy
    <3> QED
      BY <1>1, <1>3, <1>4, <2>1, <2>3, <3>1, <3>3
  <2>4. CASE handler[p].pc = "zero"
    <3>1. Between(handler[p], c) = - n
      BY <2>4 DEF Between
    <3>2. n <= lot[c]
      BY <2>4, PlansAre DEF JobOK, Job
    <3> QED
      BY <1>1, <1>3, <1>4, <2>1, <2>4, <3>1, <3>2
  <2> QED
    BY <2>2, <2>3, <2>4
<1>7. \A b \in Claims : moved(b) <= gained(b)
  BY <1>5, <1>6
<1>8. (handler[p].pc = "zero" => n = lot[c]) => \A b \in Claims : moved(b) = gained(b)
  BY <1>5, <1>6
<1> QED
  BY <1>7, <1>8 DEF Balanced, Even, Exact

LEMMA BalancedStep ==
  ASSUME Typed, Typed', PlansHold, NEW p \in Callers, HandlerStep(p) \/ Call(p) \/ Expire(p)
  PROVE  Balanced(p) /\ Moved(p) /\ crashes' = crashes
<1> USE DEF Still
<1>0. crashes \in Nat /\ lot \in [Claims -> Int]
  BY BoundAssumption DEF Typed, DocsTyped
<1> DEFINE Goal == Balanced(p) /\ Moved(p) /\ crashes' = crashes
<1>1. ASSUME Ends(p), crashes' = crashes, posted' = posted, lot' = lot, handler[p].pc \notin AtLot
      PROVE  Goal
  BY <1>1, EndsOwn, ExactQuiet, ExactIsBalanced DEF AtLot
<1>2. ASSUME NEW pc \in {"mint", "reserve", "consume", "release", "save"}, Goes(p, pc),
             crashes' = crashes, posted' = posted, lot' = lot, handler[p].pc \notin AtLot
      PROVE  Goal
  BY <1>2, ExactQuiet, ExactIsBalanced DEF Goes, AtLot
<1>3. CASE InsertClaim(p) \/ InsertLeave(p) \/ Reserve(p) \/ Decide(p)
  <2>1. handler[p].pc \notin AtLot
    BY <1>3, InsertClaimDoes, InsertLeaveDoes, ReserveDoes, DecideDoes DEF AtLot
  <2> QED
    BY <1>1, <1>2, <1>3, <2>1, InsertClaimDoes, InsertLeaveDoes, ReserveDoes, DecideDoes
<1>4. CASE Refuse(p) \/ CancelSave(p) \/ WithdrawSave(p) \/ Save(p)
  <2>1. handler[p].pc \notin AtLot
    BY <1>4, RefuseDoes, CancelSaveDoes, WithdrawSaveDoes, SaveDoes DEF AtLot
  <2> QED
    BY <1>1, <1>2, <1>4, <2>1, RefuseDoes, CancelSaveDoes, WithdrawSaveDoes, SaveDoes
<1>5. CASE Conflict(p) \/ Short(p) \/ Release(p) \/ Settle(p)
  <2>1. handler[p].pc \notin AtLot
    BY <1>5 DEF Conflict, Short, Release, Settle, On, AtLot
  <2> QED
    BY <1>1, <1>2, <1>5, <2>1, QuietDoes
<1>6. CASE Mint(p)
  <2> DEFINE c == handler[p].req
  <2>1. /\ handler[p].pc = "mint" /\ c \in Claims /\ Moved(p) /\ handler'[p].pc = "rest"
        /\ crashes' = crashes
        /\ posted'.credit[c] = posted.credit[c] + Worth[c] /\ lot'[c] = lot[c] + Worth[c]
        /\ \A b \in Claims \ {c} : posted'.credit[b] = posted.credit[b] /\ lot'[b] = lot[b]
        /\ posted'.usage = posted.usage /\ posted'.reversal = posted.reversal
        /\ posted'.expiry = posted.expiry
    BY <1>6, MintDoes, EndsOwn
  <2>2. \A b \in Claims : Between(handler[p], b) = 0 /\ Between(handler'[p], b) = 0
    BY <2>1 DEF Between
  <2>3. posted \in Posted /\ posted' \in Posted
    BY DEF Typed, DocsTyped
  <2>4. \A b \in Claims : UsedOf(posted', b) = UsedOf(posted, b) /\ UsedOf(posted, b) \in Int
    BY <2>1, <2>3, UsedSame, UsedInt
  <2>5. ASSUME NEW b \in Claims
        PROVE  0 = (LeftOf(posted', b) - lot'[b]) - (LeftOf(posted, b) - lot[b])
    <3>1. posted.credit[b] \in Int /\ posted.expiry[b] \in Int /\ lot[b] \in Int /\ Worth[b] \in Int
      BY <1>0, <2>3, ShapeAssumption DEF Posted
    <3> QED
      BY <2>1, <2>4, <3>1 DEF LeftOf
  <2> QED
    BY <2>1, <2>2, <2>5, ExactIsBalanced DEF Exact
<1>7. CASE Consume(p)
  BY <1>7, ConsumeDoes, ExactQuiet, ExactIsBalanced DEF AtLot, docs
<1>8. CASE Expire(p)
  BY <1>8, ExpireDoes, ExactQuiet, ExactIsBalanced DEF AtLot, docs
<1>9. CASE Draw(p)
  BY <1>9, DrawDoes, ExactFirst, ExactIsBalanced DEF AtLot, TakesUp
<1>10. CASE Restore(p)
  BY <1>10, RestoreDoes, ExactFirst, ExactIsBalanced DEF AtLot, TakesUp
<1>11. CASE Lapse(p)
  BY <1>11, LapseDoes, ExactFirst, ExactIsBalanced DEF AtLot, TakesUp
<1>12. CASE Charge(p)
  BY <1>12, ChargeDoes, BalancedSecond, NamesOfSteps DEF PutsDown
<1>13. CASE Unuse(p)
  BY <1>13, UnuseDoes, BalancedSecond, NamesOfSteps DEF PutsDown
<1>14. CASE Zero(p)
  BY <1>14, ZeroDoes, BalancedSecond, NamesOfSteps DEF PutsDown
<1>15. CASE Call(p)
  <2>1. PICK r \in Requests : Starts(p, r) /\ handler'[p].pc \notin AtLot
    BY <1>15, ApplyDoes, DecisionDoes, WithdrawDoes DEF Call, Requests, AtLot
  <2> QED
    BY <2>1, ExactQuiet, ExactIsBalanced DEF Starts, docs, AtLot
<1> QED
  BY <1>3, <1>4, <1>5, <1>6, <1>7, <1>8, <1>9, <1>10, <1>11, <1>12, <1>13, <1>14, <1>15
  DEF HandlerStep

LEMMA BooksStep ==
  ASSUME Typed, Typed', PlansHold, BooksInv, NEW p \in Callers,
         HandlerStep(p) \/ Call(p) \/ Expire(p) \/ Skip(p) \/ Die(p)
  PROVE  BooksInv'
<1>1. CASE HandlerStep(p) \/ Call(p) \/ Expire(p)
  BY <1>1, BalancedStep, BooksMoved DEF Balanced
<1>2. CASE Skip(p) \/ Die(p)
  <2>1. crashes' # 0
    BY <1>2, SkipDoes, DieDoes, BoundAssumption DEF Typed
  <2> QED
    BY <2>1 DEF BooksInv
<1> QED
  BY <1>1, <1>2

-----------------------------------------------------------------------------
(* The invariant.                                                             *)
LEMMA InitHolds ==
  ASSUME Init
  PROVE  IInv
<1>1. /\ day = 0 /\ crashes = 0 /\ request = [r \in Requests |-> NoRequest] /\ lot = Nothing
      /\ posted = [credit |-> Nothing, expiry |-> Nothing,
                   usage |-> [l \in Leaves |-> Nothing], reversal |-> [l \in Leaves |-> Nothing]]
      /\ pending = [y \in Years |-> 0] /\ handler = [p \in Callers |-> Rest]
  BY DEF Init
<1>2. Nothing \in [Claims -> Nat] /\ \A c \in Claims : Nothing[c] = 0
  BY DEF Nothing
<1>3. posted \in Posted
  BY <1>1, <1>2 DEF Posted
<1>4. Typed
  BY <1>1, <1>2, <1>3, NoRequestTyped, RestTyped, PlaceAtRest, BoundAssumption DEF Typed, DocsTyped
<1>5. \A p \in Callers : handler[p].pc = "rest"
  BY <1>1, RestTyped
<1>6. InsertsAlone /\ ReadsHold
  BY <1>5 DEF InsertsAlone, ReadsHold, Inserting, Knowing
<1>7. MintInv
  BY <1>1, <1>2, <1>5 DEF MintInv
<1>8. ChargeInv
  <2>1. \A l \in Leaves : posted.usage[l] = Nothing /\ request[l].paid \in Nat
    BY <1>1, NoRequestTyped DEF Requests
  <2>2. \A l \in Leaves : Drawn(posted.usage, l) = 0
    BY <1>4, <2>1, DrawnNat
  <2> QED
    BY <1>5, <2>1, <2>2 DEF ChargeInv, Finalizing
<1>9. PlansHold
  BY <1>5 DEF PlansHold, Drawing, Job
<1>10. BooksInv
  <2>1. ASSUME NEW c \in Claims PROVE Flight(handler, c) <= LeftOf(posted, c) - lot[c]
    <3> DEFINE f == [p \in Callers |-> Between(handler[p], c)]
               g == [l \in Leaves |-> posted.usage[l][c] - posted.reversal[l][c]]
    <3>1. \A p \in Callers : f[p] = 0
      BY <1>5 DEF Between
    <3>2. \A l \in Leaves : g[l] = 0
      BY <1>1, <1>2
    <3>3. Flight(handler, c) = Sum(f, Callers) /\ UsedOf(posted, c) = Sum(g, Leaves)
      BY DEF Flight, UsedOf
    <3> HIDE DEF f, g
    <3>4. Flight(handler, c) = 0 /\ UsedOf(posted, c) = 0
      BY <3>1, <3>2, <3>3, FiniteAssumption, SumZero
    <3>5. posted.credit[c] = 0 /\ posted.expiry[c] = 0 /\ lot[c] = 0
      BY <1>1, <1>2
    <3> QED
      BY <3>4, <3>5 DEF LeftOf
  <2> QED
    BY <2>1, BooksAre
<1> QED
  BY <1>4, <1>6, <1>7, <1>8, <1>9, <1>10 DEF IInv

LEMMA TickHolds ==
  ASSUME IInv, Tick
  PROVE  IInv'
<1>1. UNCHANGED <<request, lot, posted, pending, handler, crashes>> /\ day' = day + 1 /\ day < MaxDay
  BY DEF Tick, docs
<1>2. Typed'
  BY <1>1, BoundAssumption DEF IInv, Typed, DocsTyped
<1>3. InsertsAlone' /\ ReadsHold' /\ MintInv' /\ ChargeInv'
  BY <1>1 DEF IInv, InsertsAlone, ReadsHold, MintInv, ChargeInv, Drawn
<1>4. PlansHold'
  BY PlansTick DEF IInv
<1>5. BooksInv'
  BY <1>1, BooksAre, BooksNext DEF IInv
<1> QED
  BY <1>2, <1>3, <1>4, <1>5 DEF IInv

LEMMA StepHolds ==
  ASSUME IInv, NEW p \in Callers, HandlerStep(p) \/ Call(p) \/ Expire(p) \/ Skip(p) \/ Die(p)
  PROVE  IInv'
<1>1. Typed /\ InsertsAlone /\ ReadsHold /\ MintInv /\ ChargeInv /\ PlansHold /\ BooksInv
  BY DEF IInv
<1>2. Typed'
  BY <1>1, TypedStep
<1>3. InsertsAlone' /\ ReadsHold'
  <2>1. CASE Call(p)
    BY <1>1, <2>1, CallShape, InsertsStep, ReadsStep
  <2>2. CASE HandlerStep(p) \/ Expire(p) \/ Skip(p) \/ Die(p)
    BY <1>1, <2>2, StepShape, InsertsStep, ReadsStep
  <2> QED
    BY <2>1, <2>2
<1>4. MintInv' /\ ChargeInv'
  BY <1>1, <1>2, MintStep, ChargeStep
<1>5. PlansHold' /\ BooksInv'
  BY <1>1, <1>2, PlansStep, BooksStep
<1> QED
  BY <1>2, <1>3, <1>4, <1>5 DEF IInv

LEMMA StutterHolds ==
  ASSUME IInv, UNCHANGED vars
  PROVE  IInv'
<1>1. UNCHANGED <<day, request, lot, posted, pending, handler, crashes>>
  BY DEF vars, docs
<1>2. Typed' /\ InsertsAlone' /\ ReadsHold' /\ MintInv' /\ ChargeInv'
  BY <1>1 DEF IInv, Typed, DocsTyped, InsertsAlone, ReadsHold, MintInv, ChargeInv, Drawn
<1>3. PlansHold' /\ BooksInv'
  BY <1>1, PlansAre, PlansNext, BooksAre, BooksNext DEF IInv
<1> QED
  BY <1>2, <1>3 DEF IInv

(* The invariant of the claims, leaves and lots, which the theorems below     *)
(* rest on: whatever order the handlers, the job and failures come in.        *)
THEOREM Inductive == Spec => []IInv
<1>1. Init => IInv
  BY InitHolds
<1>2. IInv /\ [Next]_vars => IInv'
  BY TickHolds, StepHolds, StutterHolds DEF Next
<1> QED
  BY <1>1, <1>2, PTL DEF Spec

(* Every document, lot, sum of entries and handler keeps its type: decide(),  *)
(* $inc and save() never leave a level below one, paid days that are no       *)
(* number, or a plan for a lot that is not there.                             *)
THEOREM TypeCorrect == Spec => []TypeOK
<1>1. IInv => TypeOK
  <2> SUFFICES ASSUME Typed PROVE TypeOK
    BY DEF IInv
  <2>1. request \in [Requests -> Doc] /\ handler \in [Callers -> Local] /\ posted \in Posted
    BY DEF Typed, DocsTyped
  <2>2. \A r \in Requests : /\ request[r].status \in Statuses
                            /\ request[r].level \in Nat \ {0} /\ request[r].paid \in Nat
                            /\ request[r].drawn \in [Claims -> Nat]
    BY <2>1 DEF Doc
  <2>3. \A p \in Callers : /\ handler[p].pc \in Steps /\ handler[p].req \in Requests \cup {None}
                           /\ handler[p].plan \in [Claims -> Nat]
                           /\ handler[p].lot \in Claims \cup {None}
    BY <2>1 DEF Local
  <2> QED
    BY <2>1, <2>2, <2>3 DEF TypeOK, Typed, DocsTyped, Posted, Statuses
<1> QED
  BY <1>1, Inductive, PTL

(* However approvals, rejections and cancellations of findOneAndUpdate and    *)
(* save() race, and wherever they die: creditCompOff mints one lot at most of *)
(* an approved claim, and consumeCompOffFifo charges a leave its paid days at *)
(* most once over all its lots.                                               *)
THEOREM GrantedOnceAlways == Spec => []GrantedOnce
<1>1. IInv => GrantedOnce
  <2> SUFFICES ASSUME MintInv, ChargeInv PROVE GrantedOnce
    BY DEF IInv
  <2>1. \A c \in Claims : /\ posted.credit[c] \in {0, Worth[c]}
                          /\ posted.credit[c] > 0 => request[c].status \in {"approved", "cancelled"}
    BY DEF MintInv, Granted
  <2>2. \A l \in Leaves : Sum(posted.usage[l], Claims) <= request[l].paid
    BY DEF ChargeInv, Drawn
  <2> QED
    BY <2>1, <2>2 DEF GrantedOnce
<1> QED
  BY <1>1, Inductive, PTL

(* When no handler is under way and none was cut short, lotRemaining of a lot *)
(* is no more than what the entries of the ledger leave of it: draws of       *)
(* consumeCompOffFifo, reverseConsumption and the nightly job may race in any *)
(* order, and still offer no day twice.                                       *)
THEOREM LotCoveredAlways == Spec => []LotCovered
<1>1. IInv => LotCovered
  <2> SUFFICES ASSUME IInv, AllRest, crashes = 0, NEW c \in Claims PROVE lot[c] <= Explained(c)
    BY DEF LotCovered
  <2> DEFINE f == [p \in Callers |-> Between(handler[p], c)]
  <2>1. \A p \in Callers : f[p] = 0
    BY DEF AllRest, On, Between
  <2>2. InFlight(c) = Sum(f, Callers)
    BY DEF InFlight
  <2> HIDE DEF f
  <2>3. InFlight(c) = 0
    BY <2>1, <2>2, FiniteAssumption, SumZero
  <2>4. InFlight(c) <= Explained(c) - lot[c]
    BY DEF IInv, BooksInv
  <2>5. DocsTyped
    BY DEF IInv, Typed
  <2>6. Explained(c) \in Int /\ lot[c] \in Int
    BY <2>5, ExplainedInt DEF DocsTyped
  <2> QED
    BY <2>3, <2>4, <2>6
<1> QED
  BY <1>1, Inductive, PTL
-----------------------------------------------------------------------------
(* Handlers that come one after the other.  While h is the only one under     *)
(* way, lots and documents differ from the ledger by what h has in hand.      *)
Taking == {"draw", "charge", "settle", "save"}
Giving == {"restore", "unuse", "withdrawSave"}

(* lotRemaining.                                                              *)
LotsTrue(h) == \A c \in Claims : lot[c] >= 0 /\ lot[c] = LeftOf(posted, c) - Between(h, c)

(* compOffConsumption of a leave is what it used, once it is saved.           *)
DrawnTrue(h) ==
  \A l \in Leaves :
    request[l].drawn = IF h.pc \in Taking /\ h.req = l THEN Nothing ELSE posted.usage[l]

(* A leave has given back what it used once it is withdrawn; before, nothing, *)
(* or what h does not plan to give back any more.                             *)
GivenTrue(h) ==
  \A l \in Leaves : \A c \in Claims :
    posted.reversal[l][c] =
      IF h.pc \in Giving /\ h.req = l THEN posted.usage[l][c] - h.plan[c]
      ELSE IF request[l].status = "withdrawn" THEN posted.usage[l][c]
      ELSE 0

(* Nobody else decides what h is about to.                                    *)
VerdictOwn(h) ==
  /\ h.pc \in {"decide", "refuse", "cancelSave"} => request[h.req].status = "pending"
  /\ h.pc \in {"consume"} \cup Taking \cup Giving => request[h.req].status = "approved"
  /\ h.pc = "reserve" /\ ChainOf[h.req] = 0 => request[h.req].status = "approved"
  /\ h.pc \in {"leaveInsert", "reserve", "decide", "consume"} /\ h.req \in Leaves
       => h.doc.drawn = Nothing

(* Nobody else draws the lots that it has allocated.                          *)
TakeOwn(h) ==
  /\ h.pc \in Taking => h.doc.drawn = posted.usage[h.req]
  /\ h.pc = "charge" => h.plan[h.lot] > 0
  /\ h.pc \in Drawing =>
       \A c \in Claims : h.plan[c] > 0 => /\ posted.usage[h.req][c] = 0
                                          /\ (h.pc = "charge" /\ h.lot = c) \/ h.plan[c] <= lot[c]

LoopOwn(h) ==
  /\ h.pc = "withdrawSave" => \A c \in Claims : h.plan[c] = 0
  /\ h.pc \in Job => \A c \in Claims : h.plan[c] > 0 => h.plan[c] = lot[c]

Serial(h) == /\ LotsTrue(h) /\ DrawnTrue(h) /\ GivenTrue(h)
             /\ VerdictOwn(h) /\ TakeOwn(h) /\ LoopOwn(h)

Lone(p) == \A q \in Callers \ {p} : handler[q].pc = "rest"
Acts(p) == HandlerStep(p) \/ Call(p) \/ Expire(p)

CallsInv ==
  alone /\ crashes = 0 =>
    \/ AllRest /\ Serial(Rest)
    \/ \E p \in Callers : Lone(p) /\ Serial(handler[p])

(* The draws of the documents change in save() only.                          *)
LEMMA DrawnMoved ==
  ASSUME Typed, NEW p \in Callers, Acts(p)
  PROVE  \A r \in Requests :
           request'[r].drawn = IF Save(p) /\ r = handler[p].req THEN handler[p].doc.drawn
                               ELSE request[r].drawn
<1>0. request \in [Requests -> Doc]
  BY HandlerIs DEF DocsTyped
<1>1. CASE Save(p)
  <2>1. request' = [request EXCEPT ![handler[p].req].drawn = handler[p].doc.drawn]
    BY <1>1 DEF Save
  <2> QED
    BY <1>0, <1>1, <2>1 DEF Doc
<1>2. ASSUME NEW r, NEW s, request' = [request EXCEPT ![r].status = s]
      PROVE  \A x \in Requests : request'[x].drawn = request[x].drawn
  BY <1>0, <1>2 DEF Doc
<1>3. ASSUME NEW r, request' = [request EXCEPT ![r].level = @ + 1]
      PROVE  \A x \in Requests : request'[x].drawn = request[x].drawn
  BY <1>0, <1>3 DEF Doc
<1>4. ASSUME NEW r, NEW s, NEW n, Fills(r, s, n)
      PROVE  \A x \in Requests : request'[x].drawn = request[x].drawn
  BY <1>0, <1>4 DEF Doc, Fills
<1>5. CASE InsertClaim(p) \/ Decide(p) \/ Refuse(p) \/ CancelSave(p) \/ WithdrawSave(p)
  <2>1. ~Save(p)
    BY <1>5 DEF InsertClaim, Decide, Refuse, CancelSave, WithdrawSave, Save, On
  <2>2. (\E r, s : request' = [request EXCEPT ![r].status = s])
          \/ (\E r : request' = [request EXCEPT ![r].level = @ + 1])
    BY <1>5 DEF InsertClaim, Decide, Refuse, CancelSave, WithdrawSave
  <2> QED
    BY <1>2, <1>3, <2>1, <2>2
<1>6. CASE InsertLeave(p)
  <2>1. Fills(handler[p].req, Status(handler[p].req), handler[p].doc.paid)
    BY <1>6 DEF InsertLeave, Fills
  <2>2. ~Save(p)
    BY <1>6 DEF InsertLeave, Save, On
  <2> QED
    BY <1>4, <2>1, <2>2
<1>7. CASE \/ Mint(p) \/ Reserve(p) \/ Conflict(p) \/ Release(p) \/ Consume(p) \/ Short(p) \/ Draw(p)
           \/ Charge(p) \/ Settle(p) \/ Restore(p) \/ Unuse(p) \/ Lapse(p) \/ Zero(p)
  <2>1. request' = request /\ ~Save(p)
    BY <1>7 DEF Mint, Reserve, Conflict, Release, Consume, Short, Draw, Charge, Settle, Restore, Unuse,
                Lapse, Zero, docs, Save, On
  <2> QED
    BY <2>1
<1>8. CASE Call(p) \/ Expire(p)
  <2>1. request' = request /\ handler[p].pc = "rest"
    BY <1>8, CallShape, ExpireDoes DEF Starts, docs
  <2>2. ~Save(p)
    BY <2>1 DEF Save, On
  <2> QED
    BY <2>1, <2>2
<1> QED
  BY <1>1, <1>5, <1>6, <1>7, <1>8 DEF Acts, HandlerStep

(* What h has in hand matters only where it works on a leave or a lot.        *)
LEMMA AnyAtRest ==
  ASSUME NEW g, NEW h, g.pc = "rest", h.pc = "rest", Serial(g)
  PROVE  Serial(h)
<1>1. \A c \in Claims : Between(g, c) = 0 /\ Between(h, c) = 0
  BY DEF Between
<1>2. LotsTrue(h)
  BY <1>1 DEF Serial, LotsTrue
<1>3. DrawnTrue(h) /\ GivenTrue(h)
  BY DEF Serial, DrawnTrue, GivenTrue, Taking, Giving
<1>4. VerdictOwn(h) /\ TakeOwn(h) /\ LoopOwn(h)
  BY DEF VerdictOwn, TakeOwn, LoopOwn, Taking, Giving, Drawing, Job
<1> QED
  BY <1>2, <1>3, <1>4 DEF Serial

(* Lots: every step is exact, and none takes more than a lot holds.           *)
LEMMA LotsStep ==
  ASSUME IInv, IInv', NEW p \in Callers, Acts(p), LotsTrue(handler[p]), TakeOwn(handler[p]),
         LoopOwn(handler[p])
  PROVE  LotsTrue(handler[p])'
<1>1. Typed /\ Typed' /\ PlansHold
  BY DEF IInv
<1>2. Exact(p)
  <2>1. handler[p].pc = "zero" => handler[p].plan[handler[p].lot] = lot[handler[p].lot]
    <3>1. ASSUME handler[p].pc = "zero" PROVE handler[p].lot \in Claims /\ handler[p].plan[handler[p].lot] > 0
      BY <1>1, <3>1, HandlerIs DEF PlaceOK, AtLot, PlansHold, Job
    <3> QED
      BY <3>1 DEF LoopOwn, Job
  <2> QED
    BY <1>1, <2>1, BalancedStep DEF Acts, Balanced
<1>3. \A c \in Claims : lot[c] \in Int /\ lot'[c] \in Int /\ lot[c] >= 0 /\ handler[p].plan[c] \in Nat
  BY <1>1, PlanIs DEF LotsTrue, Typed, DocsTyped
<1>4. ASSUME NEW c \in Claims PROVE lot'[c] >= 0
  <2>1. CASE Mint(p)
    <3>1. \A b \in Claims : Worth[b] \in Nat
      BY ShapeAssumption
    <3> QED
      BY <1>1, <1>3, <2>1, <3>1, MintDoes
  <2>2. CASE Draw(p)
    <3>1. PICK b \in Claims : handler[p].plan[b] > 0 /\ LotBy(b, - handler[p].plan[b]) /\ handler[p].pc = "draw"
      BY <1>1, <2>2, DrawDoes
    <3>2. handler[p].plan[b] <= lot[b]
      BY <3>1 DEF TakeOwn, Drawing
    <3> QED
      BY <1>3, <3>1, <3>2 DEF LotBy
  <2>3. CASE Restore(p)
    <3>1. PICK b \in Claims : LotBy(b, handler[p].plan[b])
      BY <1>1, <2>3, RestoreDoes
    <3> QED
      BY <1>3, <3>1 DEF LotBy
  <2>4. CASE Zero(p)
    BY <1>1, <1>3, <2>4, ZeroDoes
  <2>5. CASE ~(Mint(p) \/ Draw(p) \/ Restore(p) \/ Zero(p))
    <3>1. lot' = lot
      <4>1. CASE Call(p) \/ Expire(p)
        BY <1>1, <4>1, CallShape, ExpireDoes DEF Starts, docs
      <4>2. CASE HandlerStep(p)
        BY <2>5, <4>2 DEF HandlerStep, InsertClaim, InsertLeave, Reserve, Decide, Refuse, Conflict,
                  CancelSave, Release, Consume, Short, Charge, Settle, Save, Unuse, WithdrawSave, Lapse, docs
      <4> QED
        BY <4>1, <4>2 DEF Acts
    <3> QED
      BY <1>3, <3>1
  <2> QED
    BY <2>1, <2>2, <2>3, <2>4, <2>5
<1>5. ASSUME NEW c \in Claims PROVE lot'[c] = LeftOf(posted', c) - Between(handler'[p], c)
  <2>1. LeftOf(posted, c) \in Int /\ LeftOf(posted', c) \in Int
    BY <1>1, UsedInt DEF Typed, DocsTyped
  <2>2. Between(handler[p], c) \in Int /\ Between(handler'[p], c) \in Int
    BY <1>1, BalancedStep, FlightMoved DEF Acts
  <2>3. Between(handler'[p], c) - Between(handler[p], c)
          = (LeftOf(posted', c) - lot'[c]) - (LeftOf(posted, c) - lot[c])
    BY <1>2 DEF Exact
  <2>4. lot[c] = LeftOf(posted, c) - Between(handler[p], c)
    BY DEF LotsTrue
  <2> QED
    BY <1>3, <2>1, <2>2, <2>3, <2>4
<1>6. \A c \in Claims : LeftOf(posted, c)' = LeftOf(posted', c) /\ Between(handler[p], c)' = Between(handler'[p], c)
  BY DEF LeftOf, UsedOf, Between
<1> QED
  BY <1>4, <1>5, <1>6 DEF LotsTrue

-----------------------------------------------------------------------------
(* What changes for the leaves in a step: their status, by the handler of     *)
(* one; what they used, by charge; what they gave back, by unuse.             *)
LEMMA LedgerMoved ==
  ASSUME Typed, NEW p \in Callers, Acts(p)
  PROVE  /\ Charge(p) \/ posted'.usage = posted.usage
         /\ Unuse(p) \/ posted'.reversal = posted.reversal
<1>1. CASE Mint(p) \/ Lapse(p)
  BY <1>1, MintDoes, LapseDoes DEF ExpiryBy
<1>2. CASE Unuse(p)
  BY <1>2, UnuseDoes DEF ReversalBy
<1>3. CASE Charge(p)
  BY <1>3, ChargeDoes DEF UsageBy
<1>4. CASE Call(p) \/ Expire(p)
  BY <1>4, CallShape, ExpireDoes DEF Starts, docs
<1>5. CASE ~(Mint(p) \/ Lapse(p) \/ Unuse(p) \/ Charge(p)) /\ HandlerStep(p)
  BY <1>5 DEF HandlerStep, InsertClaim, InsertLeave, Reserve, Decide, Refuse, Conflict, CancelSave,
              Release, Consume, Short, Draw, Settle, Save, Restore, WithdrawSave, Zero, docs
<1> QED
  BY <1>1, <1>2, <1>3, <1>4, <1>5 DEF Acts

LEMMA WithdrawnMoved ==
  ASSUME Typed, InsertsAlone, NEW p \in Callers, Acts(p), VerdictOwn(handler[p])
  PROVE  \A l \in Leaves : \/ WithdrawSave(p) /\ l = handler[p].req
                           \/ request'[l].status = "withdrawn" <=> request[l].status = "withdrawn"
<1>0. \A l \in Leaves : l \in Requests
  BY DEF Requests
<1>1. ASSUME NEW r \in Requests, OnlyDoc(r), request[r].status # "withdrawn",
             request'[r].status # "withdrawn"
      PROVE  \A l \in Leaves : request'[l].status = "withdrawn" <=> request[l].status = "withdrawn"
  BY <1>0, <1>1 DEF OnlyDoc
<1>2. CASE InsertClaim(p) \/ InsertLeave(p)
  <2> DEFINE r == handler[p].req
  <2>1. /\ r \in Requests /\ OnlyDoc(r) /\ handler[p].pc \in Inserting
        /\ request'[r].status = Status(r)
    BY <1>2, InsertClaimDoes, InsertLeaveDoes DEF StatusTo, Requests, Inserting
  <2>2. request[r].status = "none" /\ Status(r) # "withdrawn"
    BY <2>1 DEF InsertsAlone, Status
  <2> QED
    BY <1>1, <2>1, <2>2
<1>3. CASE Decide(p) \/ Refuse(p) \/ CancelSave(p)
  <2> DEFINE r == handler[p].req
  <2>1. PICK s \in {"approved", "pending", "rejected", "cancelled"} : StatusTo(r, s)
    BY <1>3, DecideDoes, RefuseDoes, CancelSaveDoes
  <2>2. handler[p].pc \in {"decide", "refuse", "cancelSave"} /\ r \in Requests
    BY <1>3, DecideDoes, RefuseDoes, CancelSaveDoes
  <2>3. request[r].status = "pending"
    BY <2>2 DEF VerdictOwn
  <2> QED
    BY <1>1, <2>1, <2>2, <2>3 DEF StatusTo
<1>4. CASE Save(p)
  <2>1. handler[p].req \in Requests /\ StatusTo(handler[p].req, request[handler[p].req].status)
    BY <1>4, SaveDoes DEF Requests
  <2> QED
    BY <1>0, <2>1 DEF StatusTo, OnlyDoc
<1>5. CASE WithdrawSave(p)
  <2>1. handler[p].req \in Requests /\ StatusTo(handler[p].req, "withdrawn")
    BY <1>5, WithdrawSaveDoes DEF Requests
  <2> QED
    BY <1>0, <1>5, <2>1 DEF StatusTo, OnlyDoc
<1>6. CASE \/ Mint(p) \/ Reserve(p) \/ Conflict(p) \/ Release(p) \/ Consume(p) \/ Short(p) \/ Draw(p)
           \/ Charge(p) \/ Settle(p) \/ Restore(p) \/ Unuse(p) \/ Lapse(p) \/ Zero(p)
  BY <1>6 DEF Mint, Reserve, Conflict, Release, Consume, Short, Draw, Charge, Settle, Restore, Unuse,
              Lapse, Zero, docs
<1>7. CASE Call(p) \/ Expire(p)
  BY <1>7, CallShape, ExpireDoes DEF Starts, docs
<1> QED
  BY <1>2, <1>3, <1>4, <1>5, <1>6, <1>7 DEF Acts, HandlerStep

(* Where the handler of a leave goes.                                         *)
LEMMA HandMoved ==
  ASSUME Typed, NEW p \in Callers, Acts(p)
  PROVE  /\ handler[p].pc \in Taking /\ ~Save(p) =>
              handler'[p].pc \in Taking /\ handler'[p].req = handler[p].req
         /\ handler'[p].pc \in Taking => handler[p].pc \in Taking \/ Consume(p)
         /\ handler[p].pc \in Giving /\ ~WithdrawSave(p) =>
              handler'[p].pc \in Giving /\ handler'[p].req = handler[p].req
         /\ handler'[p].pc \in Giving =>
              handler[p].pc \in Giving \/ \E l \in Leaves : Withdraw(p, l)
<1> USE DEF Taking, Giving
<1>1. CASE InsertClaim(p) \/ Mint(p) \/ InsertLeave(p) \/ Reserve(p) \/ Decide(p) \/ Refuse(p) \/ CancelSave(p)
  BY <1>1, InsertClaimDoes, MintDoes, InsertLeaveDoes, ReserveDoes, DecideDoes, RefuseDoes,
     CancelSaveDoes, EndsOwn DEF Goes
<1>2. CASE Conflict(p) \/ Short(p) \/ Release(p) \/ Settle(p)
  <2>1. CASE Settle(p)
    <3>1. handler[p].pc = "settle" /\ Goes(p, "save")
      BY <2>1, HandlerIs, GoesOn, NamesOfSteps DEF Settle, On
    <3> QED
      BY <3>1 DEF Goes, SameRequest
  <2>2. CASE Conflict(p) \/ Short(p) \/ Release(p)
    <3>1. handler[p].pc \in {"decide", "refuse", "consume", "release"} /\ Ends(p)
      BY <2>2, HandlerIs, Returns DEF Conflict, Short, Release, On
    <3> QED
      BY <3>1, EndsOwn
  <2> QED
    BY <1>2, <2>1, <2>2
<1>3. CASE Consume(p)
  BY <1>3, ConsumeDoes
<1>4. CASE Draw(p) \/ Restore(p) \/ Lapse(p)
  BY <1>4, DrawDoes, RestoreDoes, LapseDoes DEF TakesUp, SameRequest
<1>5. CASE Charge(p) \/ Unuse(p) \/ Zero(p)
  BY <1>5, ChargeDoes, UnuseDoes, ZeroDoes DEF PutsDown
<1>6. CASE Save(p) \/ WithdrawSave(p)
  BY <1>6, SaveDoes, WithdrawSaveDoes, EndsOwn
<1>7. CASE Expire(p)
  BY <1>7, ExpireDoes
<1>8. ASSUME NEW r \in Requests, (r \in Claims /\ ApplyClaim(p, r)) \/ (r \in Leaves /\ ApplyLeave(p, r))
      PROVE  handler[p].pc = "rest" /\ handler'[p].pc \in {"claimInsert", "leaveInsert"}
  BY <1>8, ApplyDoes DEF Starts
<1>9. ASSUME NEW r \in Requests, Approve(p, r) \/ Reject(p, r) \/ Cancel(p, r)
      PROVE  handler[p].pc = "rest" /\ handler'[p].pc \in {"decide", "refuse", "cancelSave"}
  BY <1>9, DecisionDoes DEF Starts
<1>10. CASE Call(p)
  <2>1. handler[p].pc = "rest"
    BY <1>10, CallShape DEF Starts
  <2>2. \/ handler'[p].pc \in {"claimInsert", "leaveInsert", "decide", "refuse", "cancelSave"}
        \/ \E l \in Leaves : Withdraw(p, l) /\ handler'[p].pc \in {"withdrawSave", "restore"}
    BY <1>8, <1>9, <1>10, WithdrawDoes DEF Call, Requests
  <2> QED
    BY <2>1, <2>2
<1> QED
  BY <1>1, <1>2, <1>3, <1>4, <1>5, <1>6, <1>7, <1>10 DEF Acts, HandlerStep

(* Where only some steps start from.                                          *)
LEMMA StepsFrom ==
  ASSUME Typed, NEW p \in Callers, Acts(p)
  PROVE  /\ handler[p].pc \in Giving => Restore(p) \/ Unuse(p) \/ WithdrawSave(p)
         /\ handler[p].pc \in Taking => Draw(p) \/ Charge(p) \/ Settle(p) \/ Save(p)
         /\ handler[p].pc \in Job => Lapse(p) \/ Zero(p)
         /\ handler[p].pc = "rest" => Call(p) \/ Expire(p)
<1> USE DEF Giving, Taking, Job
<1>1. CASE HandlerStep(p)
  BY <1>1 DEF HandlerStep, On, InsertClaim, Mint, InsertLeave, Reserve, Decide, Refuse, Conflict,
     CancelSave, Release, Consume, Short, Draw, Charge, Settle, Save, Restore, Unuse, WithdrawSave,
     Lapse, Zero
<1>2. CASE Call(p) \/ Expire(p)
  <2>1. handler[p].pc = "rest"
    BY <1>2, CallShape, ExpireDoes DEF Starts
  <2> QED
    BY <1>2, <2>1
<1> QED
  BY <1>1, <1>2 DEF Acts

LEMMA DrawnStep ==
  ASSUME IInv, NEW p \in Callers, Acts(p), DrawnTrue(handler[p]), TakeOwn(handler[p])
  PROVE  DrawnTrue(handler[p])'
<1> USE DEF Taking
<1>0. Typed /\ ChargeInv /\ \A l \in Leaves : l \in Requests
  BY DEF IInv, Requests
<1> SUFFICES ASSUME NEW l \in Leaves
             PROVE  request'[l].drawn = IF handler'[p].pc \in Taking /\ handler'[p].req = l
                                        THEN Nothing ELSE posted'.usage[l]
  BY DEF DrawnTrue
<1>1. request[l].drawn = IF handler[p].pc \in Taking /\ handler[p].req = l
                         THEN Nothing ELSE posted.usage[l]
  BY DEF DrawnTrue
<1>2. CASE Save(p)
  <2>1. handler[p].pc = "save" /\ handler'[p].pc = "rest" /\ posted' = posted
    BY <1>0, <1>2, SaveDoes, EndsOwn
  <2>2. request'[l].drawn = IF l = handler[p].req THEN handler[p].doc.drawn ELSE request[l].drawn
    BY <1>0, <1>2, DrawnMoved
  <2>3. handler[p].doc.drawn = posted.usage[handler[p].req]
    BY <2>1 DEF TakeOwn
  <2> QED
    BY <1>1, <2>1, <2>2, <2>3
<1>3. CASE ~Save(p)
  <2>1. request'[l].drawn = request[l].drawn
    BY <1>0, <1>3, DrawnMoved
  <2>2. CASE Consume(p)
    <3>1. /\ handler[p].pc = "consume" /\ handler'[p].pc = "draw" /\ handler'[p].req = handler[p].req
          /\ posted' = posted
      BY <1>0, <2>2, ConsumeDoes DEF SameRequest, docs
    <3>2. posted.usage[handler[p].req] = Nothing
      BY <1>0, <3>1 DEF ChargeInv, Finalizing
    <3> QED
      BY <1>1, <2>1, <3>1, <3>2
  <2>3. CASE Charge(p)
    <3>1. /\ handler[p].pc = "charge" /\ handler'[p].pc \in Taking /\ handler'[p].req = handler[p].req
          /\ \A m \in Leaves \ {handler[p].req} : posted'.usage[m] = posted.usage[m]
      BY <1>0, <2>3, ChargeDoes DEF PutsDown, UsageBy
    <3> QED
      BY <1>1, <2>1, <3>1
  <2>4. CASE ~Consume(p) /\ ~Charge(p)
    <3>1. posted'.usage = posted.usage
      BY <1>0, <2>4, LedgerMoved
    <3>2. /\ handler'[p].pc \in Taking <=> handler[p].pc \in Taking
          /\ handler[p].pc \in Taking => handler'[p].req = handler[p].req
      BY <1>0, <1>3, <2>4, HandMoved
    <3> QED
      BY <1>1, <2>1, <3>1, <3>2
  <2> QED
    BY <2>2, <2>3, <2>4
<1> QED
  BY <1>2, <1>3

LEMMA GivenStep ==
  ASSUME IInv, NEW p \in Callers, Acts(p),
         DrawnTrue(handler[p]), GivenTrue(handler[p]), VerdictOwn(handler[p]), LoopOwn(handler[p])
  PROVE  GivenTrue(handler[p])'
<1> USE DEF Giving
<1>0. Typed /\ InsertsAlone /\ \A m \in Leaves : m \in Requests
  BY DEF IInv, Requests
<1> SUFFICES ASSUME NEW l \in Leaves, NEW c \in Claims
             PROVE  posted'.reversal[l][c] =
                      IF handler'[p].pc \in Giving /\ handler'[p].req = l
                        THEN posted'.usage[l][c] - handler'[p].plan[c]
                      ELSE IF request'[l].status = "withdrawn" THEN posted'.usage[l][c]
                      ELSE 0
  BY DEF GivenTrue
<1>1. posted.reversal[l][c] =
        IF handler[p].pc \in Giving /\ handler[p].req = l THEN posted.usage[l][c] - handler[p].plan[c]
        ELSE IF request[l].status = "withdrawn" THEN posted.usage[l][c]
        ELSE 0
  BY DEF GivenTrue
<1>2. posted.usage[l][c] \in Nat /\ posted.reversal[l][c] \in Nat /\ handler[p].plan[c] \in Nat
  BY <1>0, PlanIs DEF Posted
<1>3. ASSUME NEW m \in Leaves, Withdraw(p, m)
      PROVE  posted'.reversal[l][c] =
               IF handler'[p].pc \in Giving /\ handler'[p].req = l
                 THEN posted'.usage[l][c] - handler'[p].plan[c]
               ELSE IF request'[l].status = "withdrawn" THEN posted'.usage[l][c]
               ELSE 0
  <2>1. /\ handler[p].pc = "rest" /\ handler'[p].pc \in Giving /\ handler'[p].req = m
        /\ request[m].status = "approved" /\ handler'[p].plan = request[m].drawn
        /\ request' = request /\ posted' = posted
    BY <1>0, <1>3, WithdrawDoes DEF Starts, docs
  <2>2. request[m].drawn = posted.usage[m]
    BY <2>1 DEF DrawnTrue, Taking
  <2> QED
    BY <1>1, <1>2, <2>1, <2>2
<1>4. CASE Unuse(p)
  <2>1. /\ handler[p].pc = "unuse" /\ handler[p].req \in Leaves /\ handler[p].lot \in Claims
        /\ ReversalBy(handler[p].req, handler[p].lot, handler[p].plan[handler[p].lot])
        /\ handler'[p].pc \in Giving /\ handler'[p].req = handler[p].req
        /\ handler'[p].plan[handler[p].lot] = 0
        /\ \A b \in Claims \ {handler[p].lot} : handler'[p].plan[b] = handler[p].plan[b]
        /\ request' = request
    BY <1>0, <1>4, UnuseDoes DEF PutsDown
  <2>2. posted'.usage[l][c] = posted.usage[l][c]
    BY <2>1 DEF ReversalBy
  <2>3. CASE handler[p].req = l /\ handler[p].lot = c
    <3>1. posted'.reversal[l][c] = posted.reversal[l][c] + handler[p].plan[c]
      BY <2>1, <2>3 DEF ReversalBy
    <3> QED
      BY <1>1, <1>2, <2>1, <2>2, <2>3, <3>1
  <2>4. CASE ~(handler[p].req = l /\ handler[p].lot = c)
    <3>1. posted'.reversal[l][c] = posted.reversal[l][c]
      BY <2>1, <2>4 DEF ReversalBy
    <3> QED
      BY <1>1, <2>1, <2>2, <2>4, <3>1
  <2> QED
    BY <2>3, <2>4
<1>5. CASE WithdrawSave(p)
  <2>1. /\ handler[p].pc = "withdrawSave" /\ handler[p].req \in Leaves
        /\ StatusTo(handler[p].req, "withdrawn") /\ handler'[p].pc = "rest" /\ posted' = posted
    BY <1>0, <1>5, WithdrawSaveDoes, EndsOwn
  <2>2. handler[p].plan[c] = 0
    BY <2>1 DEF LoopOwn
  <2> QED
    BY <1>0, <1>1, <1>2, <2>1, <2>2 DEF StatusTo, OnlyDoc
<1>6. CASE Charge(p)
  <2>1. /\ handler[p].pc = "charge" /\ handler'[p].pc \in {"draw", "settle"} /\ request' = request
        /\ \A m \in Leaves \ {handler[p].req} : posted'.usage[m] = posted.usage[m]
        /\ posted'.reversal = posted.reversal
    BY <1>0, <1>6, ChargeDoes DEF PutsDown, UsageBy
  <2>2. request[handler[p].req].status = "approved"
    BY <2>1 DEF VerdictOwn, Taking
  <2> QED
    BY <1>1, <2>1, <2>2
<1>7. CASE ~(\E m \in Leaves : Withdraw(p, m)) /\ ~Unuse(p) /\ ~WithdrawSave(p) /\ ~Charge(p)
  <2>1. posted'.usage = posted.usage /\ posted'.reversal = posted.reversal
    BY <1>0, <1>7, LedgerMoved
  <2>2. request'[l].status = "withdrawn" <=> request[l].status = "withdrawn"
    BY <1>0, <1>7, WithdrawnMoved
  <2>3. CASE handler[p].pc \in Giving
    <3>1. Restore(p)
      BY <1>0, <1>7, <2>3, StepsFrom
    <3>2. handler'[p].pc = "unuse" /\ handler'[p].req = handler[p].req /\ handler'[p].plan = handler[p].plan
      BY <1>0, <3>1, RestoreDoes DEF TakesUp, SameRequest
    <3> QED
      BY <1>1, <2>1, <2>2, <2>3, <3>2
  <2>4. CASE handler[p].pc \notin Giving
    <3>1. handler'[p].pc \notin Giving
      BY <1>0, <1>7, <2>4, HandMoved
    <3> QED
      BY <1>1, <2>1, <2>2, <2>4, <3>1
  <2> QED
    BY <2>3, <2>4
<1> QED
  BY <1>3, <1>4, <1>5, <1>6, <1>7

LEMMA VerdictStep ==
  ASSUME IInv, NEW p \in Callers, Acts(p), DrawnTrue(handler[p]), VerdictOwn(handler[p])
  PROVE  VerdictOwn(handler[p])'
<1> USE DEF Taking, Giving
<1>0. Typed /\ ChargeInv /\ \A m \in Leaves : m \in Requests
  BY DEF IInv, Requests
<1> SUFFICES
      /\ handler'[p].pc \in {"decide", "refuse", "cancelSave"} => request'[handler'[p].req].status = "pending"
      /\ handler'[p].pc \in {"consume"} \cup Taking \cup Giving => request'[handler'[p].req].status = "approved"
      /\ handler'[p].pc = "reserve" /\ ChainOf[handler'[p].req] = 0 => request'[handler'[p].req].status = "approved"
      /\ handler'[p].pc \in {"leaveInsert", "reserve", "decide", "consume"} /\ handler'[p].req \in Leaves
           => handler'[p].doc.drawn = Nothing
  BY DEF VerdictOwn
<1>1. CASE InsertClaim(p) \/ Mint(p) \/ Refuse(p) \/ CancelSave(p) \/ Save(p) \/ WithdrawSave(p)
  BY <1>0, <1>1, InsertClaimDoes, MintDoes, RefuseDoes, CancelSaveDoes, SaveDoes, WithdrawSaveDoes,
     EndsOwn DEF Goes
<1>2. CASE InsertLeave(p)
  BY <1>0, <1>2, InsertLeaveDoes, EndsOwn DEF Goes, SameRequest, Status, VerdictOwn
<1>3. CASE Reserve(p)
  BY <1>0, <1>3, ReserveDoes, EndsOwn DEF Goes, SameRequest, VerdictOwn
<1>4. CASE Decide(p)
  <2>1. \/ handler'[p].pc \in {"mint", "rest"}
        \/ Goes(p, "consume") /\ StatusTo(handler[p].req, "approved") /\ handler[p].pc = "decide"
    BY <1>0, <1>4, DecideDoes, EndsOwn DEF Goes
  <2>2. CASE Goes(p, "consume") /\ StatusTo(handler[p].req, "approved") /\ handler[p].pc = "decide"
    BY <2>2 DEF Goes, SameRequest, StatusTo, VerdictOwn
  <2> QED
    BY <2>1, <2>2
<1>5. CASE Conflict(p) \/ Short(p) \/ Release(p) \/ Settle(p)
  BY <1>0, <1>5, QuietDoes, EndsOwn DEF Goes, SameRequest, VerdictOwn
<1>6. CASE Consume(p)
  BY <1>0, <1>6, ConsumeDoes DEF SameRequest, VerdictOwn, docs
<1>7. CASE Draw(p) \/ Restore(p) \/ Lapse(p)
  BY <1>0, <1>7, DrawDoes, RestoreDoes, LapseDoes DEF TakesUp, SameRequest, VerdictOwn
<1>8. CASE Charge(p) \/ Unuse(p) \/ Zero(p)
  BY <1>0, <1>8, ChargeDoes, UnuseDoes, ZeroDoes DEF PutsDown, VerdictOwn
<1>9. CASE Expire(p)
  BY <1>0, <1>9, ExpireDoes
<1>10. CASE Call(p)
  <2>1. ASSUME NEW r \in Requests, (r \in Claims /\ ApplyClaim(p, r)) \/ (r \in Leaves /\ ApplyLeave(p, r))
        PROVE  handler'[p].pc \in {"claimInsert", "leaveInsert"} /\ handler'[p].doc.drawn = Nothing
    BY <1>0, <2>1, ApplyDoes
  <2>2. ASSUME NEW r \in Requests, Approve(p, r) \/ Reject(p, r) \/ Cancel(p, r)
        PROVE  /\ handler'[p].pc \in {"decide", "refuse", "cancelSave"} /\ handler'[p].req = r
               /\ request'[r].status = "pending"
               /\ r \in Leaves => handler'[p].doc.drawn = Nothing
    <3>1. /\ handler[p].pc = "rest" /\ handler'[p].req = r /\ handler'[p].doc = request[r]
          /\ handler'[p].pc \in {"decide", "refuse", "cancelSave"}
          /\ request' = request /\ request[r].status = "pending"
      BY <1>0, <2>2, DecisionDoes DEF Starts, docs
    <3>2. r \in Leaves => posted.usage[r] = Nothing
      BY <1>0, <3>1 DEF ChargeInv, Decided
    <3>3. r \in Leaves => request[r].drawn = posted.usage[r]
      BY <3>1 DEF DrawnTrue
    <3> QED
      BY <3>1, <3>2, <3>3
  <2>3. ASSUME NEW l \in Leaves, Withdraw(p, l)
        PROVE  /\ handler'[p].pc \in {"restore", "withdrawSave"} /\ handler'[p].req = l
               /\ request'[l].status = "approved"
    BY <1>0, <2>3, WithdrawDoes DEF Starts, docs
  <2> QED
    BY <1>0, <1>10, <2>1, <2>2, <2>3 DEF Call, Requests
<1> QED
  BY <1>1, <1>2, <1>3, <1>4, <1>5, <1>6, <1>7, <1>8, <1>9, <1>10 DEF Acts, HandlerStep

LEMMA TakeStep ==
  ASSUME IInv, NEW p \in Callers, Acts(p),
         LotsTrue(handler[p]), VerdictOwn(handler[p]), TakeOwn(handler[p])
  PROVE  TakeOwn(handler[p])'
<1> USE DEF Taking, Drawing
<1>0. Typed /\ ChargeInv
  BY DEF IInv
<1> SUFFICES
      /\ handler'[p].pc \in Taking => handler'[p].doc.drawn = posted'.usage[handler'[p].req]
      /\ handler'[p].pc = "charge" => handler'[p].plan[handler'[p].lot] > 0
      /\ handler'[p].pc \in Drawing =>
           \A c \in Claims : handler'[p].plan[c] > 0 =>
             /\ posted'.usage[handler'[p].req][c] = 0
             /\ (handler'[p].pc = "charge" /\ handler'[p].lot = c) \/ handler'[p].plan[c] <= lot'[c]
  BY DEF TakeOwn
<1>1. CASE Consume(p)
  <2>1. /\ handler[p].pc = "consume" /\ handler[p].req \in Leaves /\ handler'[p].pc = "draw"
        /\ handler'[p].req = handler[p].req /\ handler'[p].doc = handler[p].doc
        /\ Fifo(handler'[p].plan, handler[p].doc.paid) /\ lot' = lot /\ posted' = posted
    BY <1>0, <1>1, ConsumeDoes DEF SameRequest, docs
  <2>2. posted.usage[handler[p].req] = Nothing
    BY <1>0, <2>1 DEF ChargeInv, Finalizing
  <2>3. handler[p].doc.drawn = Nothing
    BY <2>1 DEF VerdictOwn
  <2>4. ASSUME NEW c \in Claims PROVE handler'[p].plan[c] <= lot[c]
    <3>1. handler'[p].plan[c] <= IF c \in Live THEN lot[c] ELSE 0
      BY <2>1 DEF Fifo
    <3>2. lot[c] \in Int /\ lot[c] >= 0
      BY <1>0, PlanIs DEF LotsTrue
    <3>3. handler'[p].plan[c] \in Int
      BY <1>0, <1>1, ConsumeDoes, HandlerIs DEF Local, Doc
    <3> QED
      BY <3>1, <3>2, <3>3
  <2> QED
    BY <2>1, <2>2, <2>3, <2>4 DEF Nothing
<1>2. CASE Draw(p)
  <2>1. PICK c \in Claims : /\ handler[p].plan[c] > 0 /\ TakesUp(p, c, "charge")
                            /\ LotBy(c, - handler[p].plan[c])
    BY <1>0, <1>2, DrawDoes
  <2>2. handler[p].pc = "draw" /\ posted' = posted
    BY <1>0, <1>2, DrawDoes
  <2> QED
    BY <2>1, <2>2 DEF TakesUp, SameRequest, LotBy, TakeOwn
<1>3. CASE Charge(p)
  <2> DEFINE l == handler[p].req
             c == handler[p].lot
  <2>1. /\ handler[p].pc = "charge" /\ l \in Leaves /\ c \in Claims
        /\ UsageBy(l, c, handler[p].plan[c]) /\ lot' = lot
        /\ handler'[p].pc \in {"draw", "settle"} /\ handler'[p].req = l
        /\ handler'[p].plan[c] = 0
        /\ \A b \in Claims \ {c} : handler'[p].plan[b] = handler[p].plan[b]
        /\ handler'[p].doc.drawn = [handler[p].doc.drawn EXCEPT ![c] = handler[p].plan[c]]
    BY <1>0, <1>3, ChargeDoes DEF PutsDown
  <2>2. handler[p].plan[c] > 0 /\ posted.usage[l][c] = 0 /\ handler[p].doc.drawn = posted.usage[l]
    BY <2>1 DEF TakeOwn
  <2>3. handler[p].plan[c] \in Nat /\ posted.usage[l] \in [Claims -> Nat]
    BY <1>0, <2>1, PlanIs DEF Posted
  <2>4. posted'.usage[l] \in [Claims -> Nat]
    BY <2>1 DEF UsageBy, Posted
  <2>5. /\ posted'.usage[l][c] = handler[p].plan[c]
        /\ \A b \in Claims \ {c} : posted'.usage[l][b] = posted.usage[l][b]
    BY <2>1, <2>2, <2>3 DEF UsageBy
  <2>6. handler'[p].doc.drawn = posted'.usage[l]
    BY <2>1, <2>2, <2>3, <2>4, <2>5
  <2>7. ASSUME NEW b \in Claims, handler'[p].plan[b] > 0
        PROVE  posted'.usage[l][b] = 0 /\ handler'[p].plan[b] <= lot'[b]
    <3>1. b # c /\ handler'[p].plan[b] = handler[p].plan[b]
      BY <2>1, <2>7
    <3> QED
      BY <2>1, <2>5, <2>7, <3>1 DEF TakeOwn
  <2> QED
    BY <2>1, <2>6, <2>7
<1>4. CASE Settle(p)
  <2>1. handler[p].pc = "settle" /\ handler'[p].pc \in {"save", "rest"} /\ posted' = posted
    BY <1>0, <1>4, QuietDoes, EndsOwn DEF Settle, On, Goes
  <2>2. handler'[p].pc = "save" => handler'[p].req = handler[p].req /\ handler'[p].doc = handler[p].doc
    BY <1>0, <1>4, <2>1, QuietDoes, EndsOwn DEF Goes, SameRequest
  <2> QED
    BY <2>1, <2>2 DEF TakeOwn
<1>5. CASE ~(Consume(p) \/ Draw(p) \/ Charge(p) \/ Settle(p))
  <2>1. handler'[p].pc \notin Taking
    <3>1. CASE Save(p)
      BY <1>0, <3>1, SaveDoes, EndsOwn
    <3>2. CASE ~Save(p)
      BY <1>0, <1>5, <3>2, StepsFrom, HandMoved
    <3> QED
      BY <3>1, <3>2
  <2> QED
    BY <2>1
<1> QED
  BY <1>1, <1>2, <1>3, <1>4, <1>5

LEMMA LoopStep ==
  ASSUME IInv, NEW p \in Callers, Acts(p), LoopOwn(handler[p])
  PROVE  LoopOwn(handler[p])'
<1> USE DEF Job
<1>0. Typed
  BY DEF IInv
<1> SUFFICES
      /\ handler'[p].pc = "withdrawSave" => \A c \in Claims : handler'[p].plan[c] = 0
      /\ handler'[p].pc \in Job => \A c \in Claims : handler'[p].plan[c] > 0 => handler'[p].plan[c] = lot'[c]
  BY DEF LoopOwn
<1>1. CASE Unuse(p)
  BY <1>0, <1>1, UnuseDoes DEF PutsDown
<1>2. CASE Expire(p)
  <2>1. /\ handler'[p].pc = "lapse" /\ lot' = lot
        /\ handler'[p].plan = [c \in Claims |-> IF c \in Stale THEN lot[c] ELSE 0]
    BY <1>0, <1>2, ExpireDoes DEF docs
  <2>2. ASSUME NEW c \in Claims, handler'[p].plan[c] > 0 PROVE handler'[p].plan[c] = lot'[c]
    <3>1. handler'[p].plan[c] = IF c \in Stale THEN lot[c] ELSE 0
      BY <2>1
    <3> QED
      BY <2>1, <2>2, <3>1
  <2> QED
    BY <2>1, <2>2
<1>3. CASE Lapse(p)
  BY <1>0, <1>3, LapseDoes DEF TakesUp, LoopOwn
<1>4. CASE Zero(p)
  <2>1. /\ handler[p].pc = "zero" /\ handler[p].lot \in Claims /\ handler'[p].pc \in {"lapse", "rest"}
        /\ handler'[p].plan[handler[p].lot] = 0
        /\ \A b \in Claims \ {handler[p].lot} : /\ handler'[p].plan[b] = handler[p].plan[b]
                                                /\ lot'[b] = lot[b]
    BY <1>0, <1>4, ZeroDoes DEF PutsDown
  <2> QED
    BY <2>1 DEF LoopOwn
<1>5. ASSUME NEW l \in Leaves, Withdraw(p, l)
      PROVE  /\ handler'[p].pc \notin Job
             /\ handler'[p].pc = "withdrawSave" => \A c \in Claims : handler'[p].plan[c] = 0
  BY <1>0, <1>5, WithdrawDoes DEF Nothing
<1>6. CASE ~(Unuse(p) \/ Expire(p) \/ Lapse(p) \/ Zero(p) \/ \E l \in Leaves : Withdraw(p, l))
  <2>1. CASE Call(p)
    <3>1. PICK r \in Requests : \/ (r \in Claims /\ ApplyClaim(p, r)) \/ (r \in Leaves /\ ApplyLeave(p, r))
                                \/ Approve(p, r) \/ Reject(p, r) \/ Cancel(p, r)
      BY <1>6, <2>1 DEF Call, Requests
    <3> QED
      BY <1>0, <3>1, ApplyDoes, DecisionDoes
  <2>2. CASE InsertClaim(p) \/ Mint(p) \/ InsertLeave(p) \/ Reserve(p) \/ Decide(p) \/ Refuse(p) \/ CancelSave(p)
    BY <1>0, <2>2, InsertClaimDoes, MintDoes, InsertLeaveDoes, ReserveDoes, DecideDoes, RefuseDoes,
       CancelSaveDoes, EndsOwn DEF Goes
  <2>3. CASE Conflict(p) \/ Short(p) \/ Release(p) \/ Settle(p) \/ Save(p) \/ WithdrawSave(p)
    BY <1>0, <2>3, QuietDoes, SaveDoes, WithdrawSaveDoes, EndsOwn DEF Goes
  <2>4. CASE Consume(p) \/ Draw(p) \/ Restore(p) \/ Charge(p)
    BY <1>0, <2>4, ConsumeDoes, DrawDoes, RestoreDoes, ChargeDoes DEF TakesUp, PutsDown
  <2> QED
    BY <1>6, <2>1, <2>2, <2>3, <2>4 DEF Acts, HandlerStep
<1> QED
  BY <1>1, <1>2, <1>3, <1>4, <1>5, <1>6

LEMMA SerialStep ==
  ASSUME IInv, IInv', NEW p \in Callers, Acts(p), Serial(handler[p])
  PROVE  Serial(handler[p])'
<1>1. /\ LotsTrue(handler[p]) /\ DrawnTrue(handler[p]) /\ GivenTrue(handler[p])
      /\ VerdictOwn(handler[p]) /\ TakeOwn(handler[p]) /\ LoopOwn(handler[p])
  BY DEF Serial
<1>2. LotsTrue(handler[p])' /\ DrawnTrue(handler[p])' /\ GivenTrue(handler[p])'
  BY <1>1, LotsStep, DrawnStep, GivenStep
<1>3. VerdictOwn(handler[p])' /\ TakeOwn(handler[p])' /\ LoopOwn(handler[p])'
  BY <1>1, VerdictStep, TakeStep, LoopStep
<1> QED
  BY <1>2, <1>3 DEF Serial

(* A day goes by, or nothing happens.                                         *)
LEMMA SerialStays ==
  ASSUME UNCHANGED <<request, lot, posted>>, NEW h, Serial(h)
  PROVE  Serial(h)'
<1>1. \A c \in Claims : LeftOf(posted, c)' = LeftOf(posted, c) /\ Between(h, c)' = Between(h, c)
  BY DEF LeftOf, UsedOf, Between
<1>2. LotsTrue(h)'
  BY <1>1 DEF Serial, LotsTrue
<1>3. DrawnTrue(h)' /\ GivenTrue(h)' /\ VerdictOwn(h)' /\ TakeOwn(h)' /\ LoopOwn(h)'
  BY DEF Serial, DrawnTrue, GivenTrue, VerdictOwn, TakeOwn, LoopOwn
<1> QED
  BY <1>2, <1>3 DEF Serial

-----------------------------------------------------------------------------
(* The handler that takes a step is the only one under way.                   *)
LEMMA ActorAlone ==
  ASSUME Typed, CallsInv, alone, crashes = 0, OneAtATime, NEW p \in Callers, Acts(p)
  PROVE  Lone(p) /\ Serial(handler[p])
<1>1. CASE AllRest /\ Serial(Rest)
  <2>1. \A q \in Callers : handler[q].pc = "rest"
    BY <1>1 DEF AllRest, On
  <2> QED
    BY <1>1, <2>1, RestTyped, AnyAtRest DEF Lone
<1>2. ASSUME NEW q \in Callers, Lone(q), Serial(handler[q]), q # p PROVE Lone(p) /\ Serial(handler[p])
  <2>1. handler[p].pc = "rest"
    BY <1>2 DEF Lone
  <2>2. CASE handler[q].pc = "rest"
    BY <1>2, <2>1, <2>2, AnyAtRest DEF Lone
  <2>3. CASE handler[q].pc # "rest"
    <3>1. Call(p) \/ Expire(p)
      BY <2>1, StepsFrom
    <3>2. handler'[p].pc # "rest"
      <4>1. ASSUME NEW r \in Requests,
                   \/ (r \in Claims /\ ApplyClaim(p, r)) \/ (r \in Leaves /\ ApplyLeave(p, r))
                   \/ Approve(p, r) \/ Reject(p, r) \/ Cancel(p, r)
            PROVE  handler'[p].pc # "rest"
        BY <4>1, ApplyDoes, DecisionDoes
      <4> QED
        BY <3>1, <4>1, ExpireDoes, WithdrawDoes DEF Call, Requests
    <3>3. handler'[q] = handler[q]
      BY <1>2, <3>1, CallShape, ExpireDoes DEF Starts, Moved
    <3> QED
      BY <1>2, <2>3, <3>2, <3>3 DEF OneAtATime
  <2> QED
    BY <2>2, <2>3
<1> QED
  BY <1>1, <1>2 DEF CallsInv

LEMMA CallsStep ==
  ASSUME IInv, IInv', CallsInv, [CallsNext]_callVars
  PROVE  CallsInv'
<1>1. Typed /\ Typed' /\ alone' = alone /\ (CallsNext \/ UNCHANGED vars)
  BY DEF IInv, CallsNext, callVars
<1>2. crashes \in Nat
  BY <1>1, BoundAssumption DEF Typed
<1> DEFINE Goal == \/ AllRest' /\ Serial(Rest)'
                   \/ \E p \in Callers : Lone(p)' /\ Serial(handler[p])'
<1>3. ASSUME NEW p \in Callers, alone, crashes = 0, OneAtATime, Acts(p) PROVE Goal
  <2>1. Lone(p) /\ Serial(handler[p])
    BY <1>1, <1>3, ActorAlone
  <2>2. Moved(p)
    BY <1>1, <1>3, BalancedStep DEF Acts, IInv
  <2>3. Lone(p)'
    BY <2>1, <2>2 DEF Lone, Moved
  <2> QED
    BY <1>3, <2>1, <2>3, SerialStep
<1>4. ASSUME NEW p \in Callers, Skip(p) \/ Die(p) PROVE crashes' # 0
  BY <1>1, <1>2, <1>4, SkipDoes, DieDoes
<1>5. ASSUME alone, crashes = 0, UNCHANGED <<request, lot, posted, handler>> PROVE Goal
  <2>1. CASE AllRest /\ Serial(Rest)
    <3>1. AllRest'
      BY <1>5, <2>1 DEF AllRest, On
    <3>2. Serial(Rest)'
      BY <1>5, <2>1, SerialStays
    <3> QED
      BY <3>1, <3>2
  <2>2. ASSUME NEW p \in Callers, Lone(p), Serial(handler[p]) PROVE Goal
    <3>1. Lone(p)'
      BY <1>5, <2>2 DEF Lone
    <3>2. Serial(handler[p])'
      BY <1>5, <2>2, SerialStays
    <3> QED
      BY <3>1, <3>2
  <2> QED
    BY <1>5, <2>1, <2>2 DEF CallsInv
<1>6. ASSUME alone', crashes' = 0 PROVE Goal
  <2>1. CASE UNCHANGED vars \/ Tick
    BY <1>1, <1>5, <1>6, <2>1 DEF vars, docs, Tick
  <2>2. CASE ~(UNCHANGED vars) /\ ~Tick
    <3>1. PICK p \in Callers : Acts(p) \/ Skip(p) \/ Die(p)
      BY <1>1, <2>2 DEF CallsNext, Next, Acts
    <3>2. Acts(p)
      BY <1>4, <1>6, <3>1
    <3>3. crashes = 0
      BY <1>1, <1>6, <3>2, BalancedStep DEF Acts, IInv
    <3> QED
      BY <1>1, <1>3, <1>6, <2>2, <3>2, <3>3 DEF CallsNext
  <2> QED
    BY <2>1, <2>2
<1> QED
  BY <1>6 DEF CallsInv

LEMMA CallsStart ==
  ASSUME Init
  PROVE  CallsInv
<1>1. /\ request = [r \in Requests |-> NoRequest] /\ lot = Nothing
      /\ posted = [credit |-> Nothing, expiry |-> Nothing,
                   usage |-> [l \in Leaves |-> Nothing], reversal |-> [l \in Leaves |-> Nothing]]
      /\ handler = [p \in Callers |-> Rest]
  BY DEF Init
<1>2. Rest.pc = "rest" /\ \A c \in Claims : Nothing[c] = 0
  BY RestTyped DEF Nothing
<1>3. \A l \in Leaves : /\ request[l].drawn = Nothing /\ request[l].status = "none"
                        /\ posted.usage[l] = Nothing /\ posted.reversal[l] = Nothing
  BY <1>1, NoRequestTyped DEF Requests
<1>4. ASSUME NEW c \in Claims PROVE lot[c] >= 0 /\ lot[c] = LeftOf(posted, c) - Between(Rest, c)
  <2> DEFINE f == [l \in Leaves |-> posted.usage[l][c] - posted.reversal[l][c]]
  <2>1. \A l \in Leaves : f[l] = 0
    BY <1>2, <1>3
  <2>2. UsedOf(posted, c) = Sum(f, Leaves)
    BY DEF UsedOf
  <2> HIDE DEF f
  <2>3. UsedOf(posted, c) = 0
    BY <2>1, <2>2, FiniteAssumption, SumZero
  <2>4. posted.credit[c] = 0 /\ posted.expiry[c] = 0 /\ lot[c] = 0
    BY <1>1, <1>2
  <2>5. Between(Rest, c) = 0
    BY <1>2 DEF Between
  <2> QED
    BY <2>3, <2>4, <2>5 DEF LeftOf
<1>5. DrawnTrue(Rest) /\ GivenTrue(Rest)
  BY <1>2, <1>3 DEF DrawnTrue, GivenTrue, Taking, Giving
<1>6. VerdictOwn(Rest) /\ TakeOwn(Rest) /\ LoopOwn(Rest)
  BY <1>2 DEF VerdictOwn, TakeOwn, LoopOwn, Taking, Giving, Drawing, Job
<1>7. AllRest
  BY <1>1, <1>2 DEF AllRest, On
<1> QED
  BY <1>4, <1>5, <1>6, <1>7 DEF CallsInv, Serial, LotsTrue

LEMMA CallsAlways == CallsSpec => [](IInv /\ CallsInv)
<1>1. CallsInit => IInv /\ CallsInv
  BY InitHolds, CallsStart DEF CallsInit
<1>2. IInv /\ CallsInv /\ [CallsNext]_callVars => (IInv /\ CallsInv)'
  <2> SUFFICES ASSUME IInv, CallsInv, [CallsNext]_callVars PROVE IInv' /\ CallsInv'
    OBVIOUS
  <2>1. [Next]_vars
    BY DEF CallsNext, callVars
  <2>2. IInv'
    BY <2>1, TickHolds, StepHolds, StutterHolds DEF Next
  <2> QED
    BY <2>2, CallsStep
<1> QED
  BY <1>1, <1>2, PTL DEF CallsSpec

(* With one handler at a time, and none cut short: lotRemaining of a lot is   *)
(* what the ledger entries leave of it, between nothing and what was minted,  *)
(* and reverseConsumption of a withdrawn leave has given back to each lot     *)
(* what consumeCompOffFifo took from it.                                      *)
THEOREM LotExplainedAlways == CallsSpec => []SerialLotExplained
<1>1. IInv /\ CallsInv => SerialLotExplained
  <2> SUFFICES ASSUME IInv, CallsInv, alone, AllRest, crashes = 0
               PROVE  /\ \A c \in Claims : lot[c] = Explained(c) /\ lot[c] \in 0 .. Worth[c]
                      /\ \A l \in Leaves : request[l].status = "withdrawn" =>
                                             posted.reversal[l] = posted.usage[l]
    BY DEF SerialLotExplained, LotExplained
  <2>1. Serial(Rest)
    BY RestTyped, AnyAtRest DEF CallsInv, AllRest, On
  <2>2. /\ Rest.pc = "rest" /\ lot \in [Claims -> Int] /\ posted \in Posted
        /\ \A c \in Claims : posted.credit[c] \in {0, Worth[c]}
    BY RestTyped DEF IInv, Typed, DocsTyped, MintInv
  <2>3. \A l \in Leaves : \A c \in Claims :
          /\ posted.usage[l][c] \in Nat
          /\ posted.reversal[l][c] = IF request[l].status = "withdrawn" THEN posted.usage[l][c] ELSE 0
    BY <2>1, <2>2 DEF Serial, GivenTrue, Giving, Posted
  <2>4. ASSUME NEW c \in Claims PROVE lot[c] = Explained(c) /\ lot[c] \in 0 .. Worth[c]
    <3> DEFINE f == [l \in Leaves |-> posted.usage[l][c] - posted.reversal[l][c]]
    <3>1. \A l \in Leaves : f[l] \in Nat
      BY <2>3
    <3>2. NetUsed(c) = Sum(f, Leaves) /\ UsedOf(posted, c) = NetUsed(c)
      BY DEF NetUsed, UsedOf
    <3> HIDE DEF f
    <3>3. NetUsed(c) \in Nat
      BY <3>1, <3>2, FiniteAssumption, SumNat
    <3>4. lot[c] >= 0 /\ lot[c] = LeftOf(posted, c) - Between(Rest, c) /\ Between(Rest, c) = 0
      BY <2>1, <2>2 DEF Serial, LotsTrue, Between
    <3>5. LeftOf(posted, c) = Explained(c)
      BY <3>2 DEF LeftOf, Explained
    <3>6. /\ lot[c] \in Int /\ posted.credit[c] \in Nat /\ posted.expiry[c] \in Nat
          /\ posted.credit[c] <= Worth[c] /\ Worth[c] \in Nat
      BY <2>2, ShapeAssumption DEF Posted
    <3>7. Explained(c) = posted.credit[c] - NetUsed(c) - posted.expiry[c]
      BY DEF Explained
    <3> QED
      BY <3>3, <3>4, <3>5, <3>6, <3>7
  <2>5. ASSUME NEW l \in Leaves, request[l].status = "withdrawn"
        PROVE  posted.reversal[l] = posted.usage[l]
    <3>1. posted.reversal[l] \in [Claims -> Nat] /\ posted.usage[l] \in [Claims -> Nat]
      BY <2>2 DEF Posted
    <3>2. \A c \in Claims : posted.reversal[l][c] = posted.usage[l][c]
      BY <2>3, <2>5
    <3> QED
      BY <3>1, <3>2
  <2> QED
    BY <2>4, <2>5
<1> QED
  BY <1>1, CallsAlways, PTL
=============================================================================

---------------------------- MODULE CreditProofs ----------------------------
(***************************************************************************)
(* Proofs about an account's credit.                                       *)
(*                                                                         *)
(* First the sums: Total is FiniteSetsExt's fold, which chooses a function *)
(* by a recursive equation over the subsets of a set.  That the equation   *)
(* has a solution, that any element may be taken out of a sum, and that a  *)
(* sum depends on the values summed only, follow because the subsets of a  *)
(* finite set are well-founded: a set for which it were otherwise would    *)
(* have a least one, and that one is refuted.                              *)
(*                                                                         *)
(* Then three invariants: the ledger and the balance add up, turns stay    *)
(* above the overdraft floor, and an event on record has had its effect.   *)
(***************************************************************************)
EXTENDS Credit, FiniteSetTheorems, WellFoundedInduction, TLAPS

-----------------------------------------------------------------------------
(* Sums. *)

\* The element that comes first.
Pick(s) == CHOOSE x \in s : TRUE

\* f is the sum over the subsets of D, by the fold's equation.
Sums(f, v, D) ==
  f = [s \in SUBSET D |-> IF s = {} THEN 0 ELSE v[Pick(s)] + f[s \ {Pick(s)}]]

\* The values are integers, and two functions have the same.
Ints(v, D) == \A x \in D : v[x] \in Int
Alike(v, w, D) == \A x \in D : v[x] = w[x]

\* What the equation says of each set, and what it comes to: any element may be taken out.
Steps(f, v, D) ==
  f[{}] = 0 /\ \A s \in SUBSET D : s # {} => f[s] = v[Pick(s)] + f[s \ {Pick(s)}]
TakesOut(f, v, D) == \A s \in SUBSET D : \A x \in s : f[s] = v[x] + f[s \ {x}]

\* Total is the value at the set of a function that solves the equation.
LEMMA TotalDef ==
  ASSUME NEW v, NEW D
  PROVE  Total(v, D) = (CHOOSE f : Sums(f, v, D))[D]
BY DEF Total, MapThenSumSet, MapThenFoldSet, Sums, Pick

\* A set of natural numbers that is not empty has a least one.
LEMMA NatLeast ==
  ASSUME NEW T \in SUBSET Nat, T # {}
  PROVE  \E n \in T : \A m \in T : n <= m
<1> DEFINE R == {p \in Nat \X Nat : p[1] < p[2]}
<1>1. IsWellFoundedOn(R, Nat)
  BY NatLessThanWellFounded DEF OpToRel
<1> HIDE DEF R
<1>2. PICK n \in T : \A m \in T : <<m, n>> \notin R
  BY <1>1, WFMin
<1>3. \A m \in T : ~(m < n)
  BY <1>2 DEF R
<1>4. QED
  BY <1>3

\* Of a family of subsets of a finite set one has no other in it.
LEMMA LeastSubset ==
  ASSUME NEW D, IsFiniteSet(D), NEW T \in SUBSET SUBSET D, T # {}
  PROVE  \E s \in T : \A t \in SUBSET s : t # s => t \notin T
<1>1. IsWellFoundedOn(StrictSubsetOrdering(D), SUBSET D)
  BY FS_StrictSubsetOrderingWellFounded, FS_FiniteSubsetsOfFinite
<1>2. PICK s \in T : \A t \in T : <<t, s>> \notin StrictSubsetOrdering(D)
  BY <1>1, WFMin
<1>3. QED
  BY <1>2 DEF StrictSubsetOrdering

\* The element the equation takes out of a set is in it.
LEMMA PickIn == ASSUME NEW s, s # {} PROVE Pick(s) \in s
BY DEF Pick

\* The equation has a solution: the sums over the subsets of up to n elements determine those of
\* up to n + 1.
LEMMA SumsExist ==
  ASSUME NEW v, NEW D, IsFiniteSet(D)
  PROVE  \E f : Sums(f, v, D)
<1> DEFINE F(f) == [s \in SUBSET D |-> IF s = {} THEN 0 ELSE v[Pick(s)] + f[s \ {Pick(s)}]]
           UpTo(f, n) == \A s \in SUBSET D : Cardinality(s) <= n => f[s] = F(f)[s]
           Bad == {n \in Nat : ~\E f : UpTo(f, n)}
<1>1. \A s \in SUBSET D : IsFiniteSet(s) /\ Cardinality(s) \in Nat /\ Cardinality(s) <= Cardinality(D)
  BY FS_Subset, FS_CardinalityType
<1>2. ASSUME NEW s \in SUBSET D, s # {}
      PROVE  s \ {Pick(s)} \in SUBSET D /\ Cardinality(s \ {Pick(s)}) = Cardinality(s) - 1
  BY <1>1, <1>2, PickIn, FS_RemoveElement
<1>3. 0 \notin Bad
  <2>1. ASSUME NEW s \in SUBSET D, Cardinality(s) <= 0 PROVE s = {}
    BY <1>1, <2>1, FS_EmptySet
  <2>2. UpTo([s \in SUBSET D |-> 0], 0)
    BY <2>1
  <2>3. QED
    BY <2>2
<1>4. ASSUME NEW n \in Nat, NEW f, UpTo(f, n) PROVE UpTo(F(f), n + 1)
  <2> SUFFICES ASSUME NEW s \in SUBSET D, Cardinality(s) <= n + 1 PROVE F(f)[s] = F(F(f))[s]
    OBVIOUS
  <2>1. CASE s = {}
    BY <2>1
  <2>2. CASE s # {}
    <3> DEFINE t == s \ {Pick(s)}
    <3>1. t \in SUBSET D /\ Cardinality(t) <= n
      BY <1>1, <1>2, <2>2
    <3>2. f[t] = F(f)[t]
      BY <1>4, <3>1
    <3>3. F(f)[s] = v[Pick(s)] + f[t] /\ F(F(f))[s] = v[Pick(s)] + F(f)[t]
      BY <2>2
    <3>4. QED
      BY <3>2, <3>3
  <2>3. QED
    BY <2>1, <2>2
<1> HIDE DEF UpTo
<1>5. Bad = {}
  <2> SUFFICES ASSUME Bad # {} PROVE FALSE
    OBVIOUS
  <2>1. PICK n \in Bad : \A m \in Bad : n <= m
    BY NatLeast
  <2>2. n # 0 /\ n - 1 \in Nat /\ n - 1 \notin Bad
    BY <1>3, <2>1
  <2>3. PICK f : UpTo(f, n - 1)
    BY <2>2
  <2>4. UpTo(F(f), (n - 1) + 1)
    BY <1>4, <2>2, <2>3
  <2>5. (n - 1) + 1 = n
    BY <2>2
  <2>6. QED
    BY <2>1, <2>4, <2>5
<1>6. PICK f : UpTo(f, Cardinality(D))
  BY <1>1, <1>5
<1>7. \A s \in SUBSET D : f[s] = F(f)[s]
  BY <1>1, <1>6 DEF UpTo
<1>8. F(f) = F(F(f))
  <2>1. ASSUME NEW s \in SUBSET D PROVE F(f)[s] = F(F(f))[s]
    <3>1. CASE s = {}
      BY <3>1
    <3>2. CASE s # {}
      <4>1. s \ {Pick(s)} \in SUBSET D
        BY <1>2, <3>2
      <4>2. QED
        BY <1>7, <3>2, <4>1
    <3>3. QED
      BY <3>1, <3>2
  <2> HIDE DEF F
  <2>2. F(f) = [s \in SUBSET D |-> F(f)[s]] /\ F(F(f)) = [s \in SUBSET D |-> F(F(f))[s]]
    BY DEF F
  <2>3. QED
    BY <2>1, <2>2
<1>9. QED
  BY <1>8 DEF Sums

\* What the equation says of each set.
LEMMA SumsStep ==
  ASSUME NEW v, NEW D, NEW f, Sums(f, v, D)
  PROVE  Steps(f, v, D)
<1> DEFINE F == [t \in SUBSET D |-> IF t = {} THEN 0 ELSE v[Pick(t)] + f[t \ {Pick(t)}]]
<1>1. F[{}] = 0 /\ \A s \in SUBSET D : s # {} => F[s] = v[Pick(s)] + f[s \ {Pick(s)}]
  OBVIOUS
<1>2. f = F
  BY DEF Sums
<1> HIDE DEF F
<1>3. QED
  BY <1>1, <1>2 DEF Steps

\* Sums of integers are integers.
LEMMA SumsInt ==
  ASSUME NEW v, NEW D, IsFiniteSet(D), Ints(v, D), NEW f, Sums(f, v, D)
  PROVE  Ints(f, SUBSET D)
<1> DEFINE Bad == {s \in SUBSET D : f[s] \notin Int}
<1> SUFFICES ASSUME Bad # {} PROVE FALSE
  BY DEF Ints
<1>0. Bad \in SUBSET SUBSET D /\ Steps(f, v, D)
  BY SumsStep
<1> HIDE DEF Bad
<1>1. PICK s \in Bad : \A t \in SUBSET s : t # s => t \notin Bad
  BY <1>0, LeastSubset
<1>2. s # {}
  <2>1. f[{}] = 0 /\ 0 \in Int
    BY <1>0 DEF Steps
  <2>2. f[{}] \in Int
    BY <2>1
  <2>3. f[s] \notin Int
    BY <1>1 DEF Bad
  <2>4. QED
    BY <2>2, <2>3
<1>3. Pick(s) \in s /\ v[Pick(s)] \in Int
  BY <1>1, <1>2, PickIn DEF Bad, Ints
<1>4. f[s \ {Pick(s)}] \in Int
  BY <1>1, <1>3 DEF Bad
<1>5. f[s] = v[Pick(s)] + f[s \ {Pick(s)}]
  BY <1>0, <1>1, <1>2 DEF Bad, Steps
<1>6. QED
  BY <1>1, <1>3, <1>4, <1>5 DEF Bad

\* Any element may be taken out, not only the one the equation picks.
LEMMA SumsTakeOut ==
  ASSUME NEW v, NEW D, IsFiniteSet(D), Ints(v, D), NEW f, Sums(f, v, D)
  PROVE  TakesOut(f, v, D)
<1> DEFINE Bad == {s \in SUBSET D : \E x \in s : f[s] # v[x] + f[s \ {x}]}
<1> SUFFICES ASSUME Bad # {} PROVE FALSE
  BY DEF TakesOut
<1>0. Bad \in SUBSET SUBSET D /\ Steps(f, v, D) /\ Ints(f, SUBSET D)
  BY SumsStep, SumsInt
<1> HIDE DEF Bad
<1>1. PICK s \in Bad : \A t \in SUBSET s : t # s => t \notin Bad
  BY <1>0, LeastSubset
<1>2. s \in SUBSET D /\ \E x \in s : f[s] # v[x] + f[s \ {x}]
  BY <1>1 DEF Bad
<1>3. PICK x \in s : f[s] # v[x] + f[s \ {x}]
  BY <1>2
<1>4. PICK c \in s : c = Pick(s)
  BY <1>3, PickIn
<1>5. f[s] = v[c] + f[s \ {c}]
  BY <1>0, <1>2, <1>4 DEF Steps
<1>6. c # x
  BY <1>3, <1>5
<1>7. /\ s \ {c} \notin Bad /\ s \ {x} \notin Bad /\ s \ {c} \in SUBSET D /\ s \ {x} \in SUBSET D
      /\ x \in s \ {c} /\ c \in s \ {x}
  BY <1>1, <1>2, <1>3, <1>4, <1>6
<1>8. f[s \ {c}] = v[x] + f[(s \ {c}) \ {x}] /\ f[s \ {x}] = v[c] + f[(s \ {x}) \ {c}]
  BY <1>7 DEF Bad
<1>9. (s \ {c}) \ {x} = (s \ {x}) \ {c} /\ (s \ {x}) \ {c} \in SUBSET D
  BY <1>7
<1>10. PICK r \in Int : r = f[(s \ {x}) \ {c}]
  BY <1>0, <1>9 DEF Ints
<1>11. v[x] \in Int /\ v[c] \in Int
  BY <1>2, <1>3, <1>4 DEF Ints
<1>12. f[s \ {c}] = v[x] + r /\ f[s \ {x}] = v[c] + r
  BY <1>8, <1>9, <1>10
<1>13. f[s] = v[c] + (v[x] + r) /\ v[x] + f[s \ {x}] = v[x] + (v[c] + r)
  BY <1>5, <1>12
<1>14. v[c] + (v[x] + r) = v[x] + (v[c] + r)
  BY <1>11
<1>15. QED
  BY <1>3, <1>13, <1>14

\* A sum is of the values, wherever they are kept.
LEMMA SumsAgree ==
  ASSUME NEW v, NEW w, NEW D, NEW E, IsFiniteSet(D), D \subseteq E, Alike(v, w, D),
         NEW f, Sums(f, v, D), NEW g, Sums(g, w, E)
  PROVE  Alike(f, g, SUBSET D)
<1> DEFINE Bad == {s \in SUBSET D : f[s] # g[s]}
<1> SUFFICES ASSUME Bad # {} PROVE FALSE
  BY DEF Alike
<1>0. Bad \in SUBSET SUBSET D /\ Steps(f, v, D) /\ Steps(g, w, E)
  BY SumsStep
<1> HIDE DEF Bad
<1>1. PICK s \in Bad : \A t \in SUBSET s : t # s => t \notin Bad
  BY <1>0, LeastSubset
<1>2. s # {}
  <2>1. f[{}] = 0 /\ g[{}] = 0
    BY <1>0 DEF Steps
  <2>2. f[s] # g[s]
    BY <1>1 DEF Bad
  <2>3. QED
    BY <2>1, <2>2
<1>3. PICK c \in s : c = Pick(s)
  BY <1>2, PickIn
<1>4. f[s \ {c}] = g[s \ {c}] /\ v[c] = w[c] /\ s \in SUBSET D /\ s \in SUBSET E
  BY <1>1, <1>3 DEF Bad, Alike
<1>5. f[s] = v[c] + f[s \ {c}] /\ g[s] = w[c] + g[s \ {c}]
  BY <1>0, <1>2, <1>3, <1>4 DEF Steps
<1>6. f[s] # g[s]
  BY <1>1 DEF Bad
<1>7. QED
  BY <1>4, <1>5, <1>6

\* A total is the value at the whole set of the function its definition chooses.
LEMMA TotalSums ==
  ASSUME NEW v, NEW D, IsFiniteSet(D)
  PROVE  \E f : Sums(f, v, D) /\ Total(v, D) = f[D]
BY SumsExist, TotalDef

\* The total of a finite set of integers is an integer.
LEMMA TotalType ==
  ASSUME NEW v, NEW D, IsFiniteSet(D), Ints(v, D)
  PROVE  Total(v, D) \in Int
<1>1. PICK f : Sums(f, v, D) /\ Total(v, D) = f[D]
  BY TotalSums
<1>2. Ints(f, SUBSET D)
  BY <1>1, SumsInt
<1>3. QED
  BY <1>1, <1>2 DEF Ints

\* A total depends on the values summed only.
LEMMA TotalSame ==
  ASSUME NEW v, NEW w, NEW D, IsFiniteSet(D), Alike(v, w, D)
  PROVE  Total(v, D) = Total(w, D)
<1>1. PICK f : Sums(f, v, D) /\ Total(v, D) = f[D]
  BY TotalSums
<1>2. PICK g : Sums(g, w, D) /\ Total(w, D) = g[D]
  BY TotalSums
<1>3. D \subseteq D
  OBVIOUS
<1>4. Alike(f, g, SUBSET D)
  BY <1>1, <1>2, <1>3, SumsAgree
<1>5. QED
  BY <1>1, <1>2, <1>4 DEF Alike

\* A new key adds its amount.
LEMMA TotalAdd ==
  ASSUME NEW v, NEW w, NEW D, IsFiniteSet(D), Ints(v, D), Alike(v, w, D),
         NEW k, k \notin D, w[k] \in Int
  PROVE  Total(w, D \cup {k}) = Total(v, D) + w[k]
<1>1. PICK f : Sums(f, v, D) /\ Total(v, D) = f[D]
  BY TotalSums
<1>2. PICK E : E = D \cup {k}
  OBVIOUS
<1>3. IsFiniteSet(E) /\ Ints(w, E)
  BY <1>2, FS_AddElement DEF Ints, Alike
<1>4. D \subseteq E /\ k \in E /\ E \ {k} = D
  BY <1>2
<1>5. PICK g : Sums(g, w, E) /\ Total(w, E) = g[E]
  BY <1>3, TotalSums
<1>6. TakesOut(g, w, E)
  BY <1>3, <1>5, SumsTakeOut
<1>7. Alike(f, g, SUBSET D) /\ Ints(f, SUBSET D)
  BY <1>1, <1>4, <1>5, SumsAgree, SumsInt
<1>8. f[D] = g[D] /\ f[D] \in Int
  BY <1>7 DEF Alike, Ints
<1>9. g[E] = w[k] + g[D]
  BY <1>4, <1>6 DEF TakesOut
<1>10. QED
  BY <1>1, <1>2, <1>5, <1>8, <1>9

\* Nothing adds up to nothing.
LEMMA TotalEmpty == ASSUME NEW v PROVE Total(v, {}) = 0
<1>1. PICK f : Sums(f, v, {}) /\ Total(v, {}) = f[{}]
  BY TotalSums, FS_EmptySet
<1>2. QED
  BY <1>1, SumsStep DEF Steps
-----------------------------------------------------------------------------
(* The ledger and its sums. *)

\* The ledger is finite and its amounts are integers, so that it has a sum.
LEMMA LedgerType ==
  ASSUME TypeOK
  PROVE  /\ IsFiniteSet(DOMAIN ledger) /\ Ints(ledger, DOMAIN ledger)
         /\ IsFiniteSet(RefundKeys) /\ Ints(ledger, RefundKeys)
         /\ LedgerSum \in Int /\ Refunded \in Int /\ Credited \in Int
<1>1. IsFiniteSet(DOMAIN ledger) /\ Ints(ledger, DOMAIN ledger)
  BY DEF TypeOK, Ints
<1>2. RefundKeys \subseteq DOMAIN ledger
  BY DEF RefundKeys
<1>3. IsFiniteSet(RefundKeys) /\ Ints(ledger, RefundKeys)
  BY <1>1, <1>2, FS_Subset DEF Ints
<1>4. Total(ledger, DOMAIN ledger) \in Int
  BY <1>1, TotalType
<1>5. Total(ledger, RefundKeys) \in Int
  BY <1>3, TotalType
<1>6. Credited \in Int
  BY <1>1 DEF Credited, Ints
<1>7. QED
  BY <1>1, <1>3, <1>4, <1>5, <1>6 DEF LedgerSum, Refunded

\* A row that is written under a new key: how MoveCredit and RollUpDebit change the ledger.
Writes(key, amount) ==
  ledger' = [k \in DOMAIN ledger \cup {key} |-> IF k = key THEN amount ELSE ledger[k]]

\* What a new row does to the ledger: it keeps the others, and adds its amount to the sum and, if
\* it is a refund's, to what was refunded.
LEMMA RowWritten ==
  ASSUME TypeOK, NEW key \in Keys, key \notin DOMAIN ledger, NEW amount \in Int, Writes(key, amount)
  PROVE  /\ DOMAIN ledger' = DOMAIN ledger \cup {key} /\ DOMAIN ledger' \subseteq Keys
         /\ IsFiniteSet(DOMAIN ledger') /\ Ints(ledger', DOMAIN ledger')
         /\ Alike(ledger, ledger', DOMAIN ledger) /\ ledger'[key] = amount
         /\ LedgerSum' = LedgerSum + amount
         /\ Refunded' = Refunded - (IF key.type = "refund" THEN amount ELSE 0)
<1>1. DOMAIN ledger' = DOMAIN ledger \cup {key} /\ DOMAIN ledger' \subseteq Keys
  BY DEF Writes, TypeOK
<1>2. Alike(ledger, ledger', DOMAIN ledger) /\ ledger'[key] = amount
  BY DEF Writes, Alike
<1>3. IsFiniteSet(DOMAIN ledger) /\ Ints(ledger, DOMAIN ledger)
  BY LedgerType
<1>4. IsFiniteSet(DOMAIN ledger')
  BY <1>1, <1>3, FS_AddElement
<1>5. Ints(ledger', DOMAIN ledger')
  BY <1>1, <1>2, <1>3 DEF Ints, Alike
<1>6. LedgerSum' = LedgerSum + amount
  <2>1. Total(ledger', DOMAIN ledger \cup {key}) = Total(ledger, DOMAIN ledger) + ledger'[key]
    BY <1>2, <1>3, TotalAdd
  <2>2. QED
    BY <1>1, <1>2, <2>1 DEF LedgerSum
<1>7. Refunded' = Refunded - (IF key.type = "refund" THEN amount ELSE 0)
  <2>1. /\ IsFiniteSet(RefundKeys) /\ Ints(ledger, RefundKeys) /\ Refunded \in Int
        /\ Total(ledger, RefundKeys) \in Int
    BY LedgerType, TotalType
  <2>2. Alike(ledger, ledger', RefundKeys) /\ key \notin RefundKeys
    BY <1>2 DEF Alike, RefundKeys
  <2>3. CASE key.type = "refund"
    <3>1. RefundKeys' = RefundKeys \cup {key}
      BY <1>1, <2>3 DEF RefundKeys
    <3>2. Total(ledger', RefundKeys \cup {key}) = Total(ledger, RefundKeys) + ledger'[key]
      BY <1>2, <2>1, <2>2, TotalAdd
    <3>3. QED
      BY <1>2, <2>1, <2>3, <3>1, <3>2 DEF Refunded
  <2>4. CASE key.type # "refund"
    <3>1. RefundKeys' = RefundKeys
      BY <1>1, <2>4 DEF RefundKeys
    <3>2. Total(ledger, RefundKeys) = Total(ledger', RefundKeys)
      BY <2>1, <2>2, TotalSame
    <3>3. QED
      BY <2>1, <2>4, <3>1, <3>2 DEF Refunded
  <2>5. QED
    BY <2>3, <2>4
<1>8. QED
  BY <1>1, <1>2, <1>4, <1>5, <1>6, <1>7

\* An event is a payment's, a refund's, or the beginning or the end of a dispute.
LEMMA EventKinds ==
  ASSUME NEW e \in Events
  PROVE  \/ e \in Payments
         \/ e.type = "refund" /\ e.n \in Refunds /\ e = Ev("refund", e.n) /\ e \notin Payments
         \/ Disputed # 0 /\ e = Ev("dispute", 0) /\ e.type = "dispute" /\ e \notin Payments
         \/ Disputed # 0 /\ e = Ev("won", 0) /\ e.type = "won" /\ e \notin Payments
BY DEF Events, Payments, Ev

\* An event moves an integer amount under one of the ledger's keys.
LEMMA MovementType ==
  ASSUME TypeOK, NEW e \in Events
  PROVE  Movement(e).key \in Keys /\ Movement(e).amount \in Int
<1>1. Refunded \in Int /\ Credited \in Int /\ Ints(ledger, DOMAIN ledger)
  BY LedgerType
<1>2. CASE e \in Payments
  BY <1>2, CreditAssumption DEF Movement, Keys
<1>3. CASE e \notin Payments
  <2>1. e \in Keys
    BY <1>3, EventKinds DEF Keys, Ev
  <2>2. e.type = "refund" => e.n \in Int
    BY <1>3, EventKinds, CreditAssumption DEF Ev
  <2>3. Movement(e).amount \in Int
    BY <1>1, <1>3, <2>2, CreditAssumption DEF Movement, RefundDue, Least, Ints
  <2>4. QED
    BY <1>3, <2>1, <2>3 DEF Movement
<1>4. QED
  BY <1>2, <1>3

-----------------------------------------------------------------------------
(* Types, and the ledger's sum. *)

\* The resting values are of their types.
LEMMA Resting ==
  /\ NoRoll \in [pc : {"idle", "write"}, hour : Nat, debit : Nat, rolled : Nat]
  /\ NoSync \in [pc : {"idle", "select", "write"}, want : Sizes \cup {0},
                 until : 0..MaxPeriods, row : Allowance]
BY CreditAssumption DEF NoRoll, NoSync, Allowance

\* Nothing has moved: the invariant holds.
LEMMA InitCredit == Init => CreditInv
<1> SUFFICES ASSUME Init PROVE CreditInv
  OBVIOUS
<1> USE CreditAssumption DEF Init
<1>1. DOMAIN ledger = {}
  OBVIOUS
<1>2. IsFiniteSet(DOMAIN ledger)
  BY <1>1, FS_EmptySet
<1>3. acct \in Account
  BY DEF Account
<1>4. /\ handler \in [Handlers -> Delivery \cup {NoEvent}]
      /\ roll \in [Rollers -> [pc : {"idle", "write"}, hour : Nat, debit : Nat, rolled : Nat]]
      /\ sync \in [pc : {"idle", "select", "write"}, want : Sizes \cup {0},
                   until : 0..MaxPeriods, row : Allowance]
  BY Resting
<1>5. sub \in [want : Sizes \cup {0}, until : 0..MaxPeriods]
  OBVIOUS
<1>e. early \subseteq Events /\ raced \in BOOLEAN
  OBVIOUS
<1>6. TypeOK
  BY <1>1, <1>2, <1>3, <1>4, <1>5, <1>e DEF TypeOK
<1>7. LedgerSum = 0
  BY <1>1, TotalEmpty DEF LedgerSum
<1>8. LedgerExact
  BY <1>7 DEF LedgerExact
<1>9. QED
  BY <1>6, <1>8 DEF CreditInv

\* What of the account the ledger is checked against.
Unwritten(a) == a.balance + (a.debit - a.rolled)

\* A movement keeps to the types, moves balance and sum together, and what it takes is in out.
LEMMA Moved ==
  ASSUME CreditInv, NEW key \in Keys, NEW amount \in Int, MoveCredit(key, amount)
  PROVE  /\ acct' \in Account /\ DOMAIN ledger' \subseteq Keys /\ IsFiniteSet(DOMAIN ledger')
         /\ \A k \in DOMAIN ledger' : ledger'[k] \in Int
         /\ out' \in Nat /\ LedgerExact'
         /\ acct'.allow = acct.allow /\ acct'.until = acct.until
         /\ acct'.balance + out' >= acct.balance + out
<1> USE DEF CreditInv
<1>1. CASE key \in DOMAIN ledger
  <2>1. acct' = acct /\ ledger' = ledger /\ out' = out
    BY <1>1 DEF MoveCredit
  <2>2. LedgerExact'
    BY <2>1 DEF LedgerExact, LedgerSum
  <2>3. acct.balance \in Int /\ out \in Nat
    BY DEF TypeOK, Account
  <2>4. QED
    BY <2>1, <2>2, <2>3 DEF TypeOK
<1>2. CASE key \notin DOMAIN ledger
  <2>1. /\ acct' = [acct EXCEPT !.balance = @ + amount] /\ Writes(key, amount)
        /\ out' = IF amount < 0 THEN out - amount ELSE out
    BY <1>2 DEF MoveCredit, Writes
  <2>2. /\ DOMAIN ledger' \subseteq Keys /\ IsFiniteSet(DOMAIN ledger')
        /\ Ints(ledger', DOMAIN ledger') /\ LedgerSum' = LedgerSum + amount
    BY <1>2, <2>1, RowWritten
  <2>3. /\ acct' \in Account /\ acct'.balance = acct.balance + amount
        /\ acct'.debit = acct.debit /\ acct'.rolled = acct.rolled
        /\ acct'.allow = acct.allow /\ acct'.until = acct.until
    BY <2>1 DEF TypeOK, Account
  <2>4. /\ acct.balance \in Int /\ acct.debit \in Nat /\ acct.rolled \in Nat
        /\ out \in Nat /\ LedgerSum \in Int
    BY LedgerType DEF TypeOK, Account
  <2>5. out' \in Nat /\ acct'.balance + out' >= acct.balance + out
    BY <2>1, <2>3, <2>4
  <2>6. LedgerExact'
    BY <2>2, <2>3, <2>4 DEF LedgerExact
  <2>7. QED
    BY <2>2, <2>3, <2>5, <2>6 DEF Ints
<1>3. QED
  BY <1>1, <1>2

\* A turn's charge: the allowance and the balance lose its cost between them.
LEMMA ChargedRow ==
  ASSUME NEW a \in Account, NEW cost \in Nat, period \in Nat
  PROVE  /\ Charged(a, cost) \in Account /\ FromAllowance(a, cost) \in Nat
         /\ Unwritten(Charged(a, cost)) = Unwritten(a)
         /\ Spendable(Charged(a, cost)) = Spendable(a) - cost
<1>1. /\ a.balance \in Int /\ a.debit \in Nat /\ a.rolled \in Nat /\ a.allow \in Nat
      /\ a.until \in 0..MaxPeriods
  BY DEF Account
<1>2. FromAllowance(a, cost) \in 0..cost
  BY <1>1 DEF FromAllowance, Least
<1>3. PICK rest \in 0..cost : rest = cost - FromAllowance(a, cost)
  BY <1>2
<1>4. PICK left \in Nat : left = IF Live(a) /\ a.allow > cost THEN a.allow - cost ELSE 0
  BY <1>1
<1>5. Charged(a, cost) = [a EXCEPT !.allow = left, !.balance = @ - rest, !.debit = @ + rest]
  BY <1>3, <1>4 DEF Charged, Account
<1>6. Charged(a, cost) \in Account
  <2>1. a.balance - rest \in Int /\ a.debit + rest \in Nat
    BY <1>1, <1>3
  <2>2. QED
    BY <1>4, <1>5, <2>1 DEF Account
<1>7. /\ Charged(a, cost).balance = a.balance - rest /\ Charged(a, cost).debit = a.debit + rest
      /\ Charged(a, cost).rolled = a.rolled /\ Charged(a, cost).until = a.until
      /\ Charged(a, cost).allow = left
  BY <1>5 DEF Account
<1>8. Live(Charged(a, cost)) = Live(a)
  BY <1>7 DEF Live
<1>9. CASE Live(a)
  BY <1>1, <1>2, <1>3, <1>4, <1>6, <1>7, <1>8, <1>9
  DEF Unwritten, Spendable, FromAllowance, Least
<1>10. CASE ~Live(a)
  BY <1>1, <1>2, <1>3, <1>4, <1>6, <1>7, <1>8, <1>10
  DEF Unwritten, Spendable, FromAllowance, Least
<1>11. QED
  BY <1>9, <1>10

\* LedgerExact in terms of Unwritten.
LEMMA ExactKept ==
  ASSUME CreditInv, acct' \in Account, LedgerSum' = LedgerSum, Unwritten(acct)' = Unwritten(acct)
  PROVE  LedgerExact'
<1>1. /\ acct.balance \in Int /\ acct.debit \in Nat /\ acct.rolled \in Nat /\ LedgerSum \in Int
      /\ acct'.balance \in Int /\ acct'.debit \in Nat /\ acct'.rolled \in Nat
  BY LedgerType DEF CreditInv, TypeOK, Account
<1>2. QED
  BY <1>1 DEF CreditInv, LedgerExact, Unwritten

\* What SyncAllowance writes is an allowance.
LEMMA SyncedType ==
  ASSUME TypeOK, NEW new \in Synced
  PROVE  new \in Allowance
<1>1. /\ sync.want \in Nat /\ sync.until \in 0..MaxPeriods /\ sync.row \in Allowance
      /\ sync.row.allow \in Nat /\ sync.row.granted \in Nat
  <2>1. /\ sync.want \in Sizes \cup {0} /\ sync.until \in 0..MaxPeriods
        /\ sync.row \in Allowance
    BY DEF TypeOK
  <2>2. sync.want \in Nat
    <3>1. Sizes \subseteq Nat
      BY CreditAssumption
    <3>2. sync.want \in Sizes \cup {0}
      BY <2>1
    <3>3. ASSUME NEW x \in Sizes \cup {0} PROVE x \in Nat
      BY <3>1
    <3>4. QED
      BY <3>2, <3>3
  <2>3. sync.row.allow \in Nat /\ sync.row.granted \in Nat
    BY <2>1 DEF Allowance
  <2>4. QED
    BY <2>1, <2>2, <2>3
<1>2. CASE sync.want = 0
  BY <1>2, CreditAssumption DEF Synced, Allowance
<1>3. CASE sync.want # 0 /\ sync.row.until # sync.until
  BY <1>1, <1>3 DEF Synced, Allowance
<1>4. CASE sync.want # 0 /\ sync.row.until = sync.until /\ sync.want > sync.row.granted
  <2>1. PICK add \in 0..(sync.want - sync.row.granted) :
          new = [allow |-> sync.row.allow + add, granted |-> sync.want, until |-> sync.until]
    BY <1>4 DEF Synced
  <2>2. sync.row.allow + add \in Nat
    BY <1>1, <2>1
  <2>3. QED
    BY <1>1, <2>1, <2>2 DEF Allowance
<1>5. CASE sync.want # 0 /\ sync.row.until = sync.until /\ ~(sync.want > sync.row.granted)
  BY <1>1, <1>5 DEF Synced
<1>6. QED
  BY <1>2, <1>3, <1>4, <1>5

\* The steps of the webhook deliveries and of an operator.
Movements ==
  \/ \E h \in Handlers : \/ \E e \in Events : ApplyStripeEvent(h, e)
                         \/ Move(h) \/ Record(h) \/ HandlerFails(h)
  \/ \E amount \in Grants : GrantCredit(amount)

\* They keep CreditInv: one case per action, one step per variable it writes.
LEMMA MovementsCredit ==
  ASSUME CreditInv, Movements
  PROVE  CreditInv'
<1> USE CreditAssumption
<1>t. TypeOK /\ LedgerExact /\ handler \in [Handlers -> Delivery \cup {NoEvent}]
  BY DEF CreditInv, TypeOK
<1>d. ASSUME NEW h \in Handlers, handler[h].pc # "idle" PROVE handler[h] \in Delivery
  BY <1>t, <1>d DEF NoEvent
<1>k. UNCHANGED <<acct, ledger>> => LedgerExact'
  BY <1>t DEF LedgerExact, LedgerSum
<1>1. ASSUME NEW h \in Handlers, NEW e \in Events, ApplyStripeEvent(h, e) PROVE CreditInv'
  <2>1. PICK m : m = Movement(e) /\ m.key \in Keys /\ m.amount \in Int
    BY <1>t, MovementType
  <2>2. [ev |-> e, pc |-> IF Moves(e, m) THEN "move" ELSE "record",
         key |-> m.key, amount |-> m.amount] \in Delivery
    BY <2>1 DEF Delivery
  <2>3. handler' \in [Handlers -> Delivery \cup {NoEvent}]
    BY <1>1, <1>t, <2>1, <2>2 DEF ApplyStripeEvent
  <2>4. QED
    BY <1>1, <1>t, <1>k, <2>3 DEF ApplyStripeEvent, CreditInv, TypeOK, history
<1>2. ASSUME NEW h \in Handlers, Move(h) PROVE CreditInv'
  <2>1. handler[h] \in Delivery /\ handler[h].key \in Keys /\ handler[h].amount \in Int
    BY <1>2, <1>d DEF Move, Delivery
  <2>2. MoveCredit(handler[h].key, handler[h].amount)
    BY <1>2 DEF Move
  <2>3. /\ acct' \in Account /\ DOMAIN ledger' \subseteq Keys /\ IsFiniteSet(DOMAIN ledger')
        /\ \A k \in DOMAIN ledger' : ledger'[k] \in Int
        /\ out' \in Nat /\ LedgerExact'
    BY <1>2, <2>1, <2>2, Moved
  <2>4. handler' \in [Handlers -> Delivery \cup {NoEvent}]
    BY <1>2, <1>t, <2>1 DEF Move, Delivery
  <2>5. QED
    BY <1>2, <1>t, <2>3, <2>4 DEF Move, CreditInv, TypeOK, history
<1>3. ASSUME NEW h \in Handlers, Record(h) PROVE CreditInv'
  <2>0. handler[h].ev \in Events
    BY <1>3, <1>d DEF Record, Delivery
  <2>1. handler' \in [Handlers -> Delivery \cup {NoEvent}] /\ seen' \subseteq Events
    BY <1>3, <1>t, <2>0 DEF Record, TypeOK
  <2>2. QED
    BY <1>3, <1>t, <1>k, <2>1 DEF Record, CreditInv, TypeOK, history
<1>4. ASSUME NEW h \in Handlers, HandlerFails(h) PROVE CreditInv'
  <2>1. handler' \in [Handlers -> Delivery \cup {NoEvent}]
    BY <1>4, <1>t DEF HandlerFails, history
  <2>2. QED
    BY <1>4, <1>t, <1>k, <2>1 DEF HandlerFails, Fault, CreditInv, TypeOK, history
<1>5. ASSUME NEW amount \in Grants, GrantCredit(amount) PROVE CreditInv'
  <2>1. Ev("grant", 0) \in Keys /\ amount \in Int /\ MoveCredit(Ev("grant", 0), amount)
    BY <1>5 DEF GrantCredit, Keys
  <2>2. /\ acct' \in Account /\ DOMAIN ledger' \subseteq Keys /\ IsFiniteSet(DOMAIN ledger')
        /\ \A k \in DOMAIN ledger' : ledger'[k] \in Int
        /\ out' \in Nat /\ LedgerExact'
    BY <2>1, Moved
  <2>3. QED
    BY <1>5, <1>t, <2>2 DEF GrantCredit, CreditInv, TypeOK, history
<1>6. QED
  BY <1>1, <1>2, <1>3, <1>4, <1>5 DEF Movements

\* The other steps: turns, the roll-up, and the allowance.
Spending ==
  \/ StartTurn \/ ChargeTurn \/ UsageLost
  \/ \E r \in Rollers : RollRead(r) \/ RollWrite(r) \/ RollFails(r)
  \/ HourPasses
  \/ SubscriptionMoves \/ PeriodEnds \/ SyncStart \/ SyncSelect \/ SyncWrite
  \/ ExpireAllowances

\* They keep CreditInv: a turn moves balance and lifetime_debit together, and a roll-up the
\* watermark and the ledger.
LEMMA SpendingCredit ==
  ASSUME CreditInv, Spending
  PROVE  CreditInv'
<1> USE CreditAssumption
<1> DEFINE R == [pc : {"idle", "write"}, hour : Nat, debit : Nat, rolled : Nat]
           S == [pc : {"idle", "select", "write"}, want : Sizes \cup {0},
                 until : 0..MaxPeriods, row : Allowance]
<1>t. /\ TypeOK /\ LedgerExact /\ roll \in [Rollers -> R] /\ NoRoll \in R
      /\ sync \in S /\ NoSync \in S /\ acct \in Account
  BY Resting DEF CreditInv, TypeOK, history
<1>a. /\ acct.balance \in Int /\ acct.debit \in Nat /\ acct.rolled \in Nat
      /\ acct.allow \in Nat /\ acct.granted \in Nat /\ acct.until \in 0..MaxPeriods
      /\ period \in Nat /\ out \in Nat /\ covered \in Nat
  BY <1>t DEF TypeOK, Account
<1>k. UNCHANGED <<acct, ledger>> => LedgerExact'
  BY <1>t DEF LedgerExact, LedgerSum
<1>s. ASSUME ledger' = ledger, acct' \in Account, Unwritten(acct)' = Unwritten(acct)
      PROVE  LedgerExact'
  <2>1. LedgerSum' = LedgerSum
    BY <1>s DEF LedgerSum
  <2>2. QED
    BY <1>s, <2>1, ExactKept
<1>1. CASE StartTurn
  BY <1>1, <1>t, <1>k DEF StartTurn, CreditInv, TypeOK, history
<1>2. CASE ChargeTurn
  <2>1. PICK cost \in 0..MaxCost : /\ acct' = IF cost = 0 THEN acct ELSE Charged(acct, cost)
                                   /\ covered' = covered + FromAllowance(acct, cost)
    BY <1>2 DEF ChargeTurn
  <2>c. cost \in Nat
    BY <2>1
  <2>2. /\ Charged(acct, cost) \in Account /\ FromAllowance(acct, cost) \in Nat
        /\ Unwritten(Charged(acct, cost)) = Unwritten(acct)
    BY <1>t, <1>a, <2>c, ChargedRow
  <2>3. acct' \in Account /\ covered' \in Nat /\ Unwritten(acct)' = Unwritten(acct)
    BY <1>t, <1>a, <2>1, <2>2 DEF Unwritten
  <2>4. LedgerExact'
    BY <1>2, <1>s, <2>3 DEF ChargeTurn
  <2>5. QED
    BY <1>2, <1>t, <2>3, <2>4 DEF ChargeTurn, CreditInv, TypeOK, history
<1>3. CASE UsageLost
  BY <1>3, <1>t, <1>k DEF UsageLost, Fault, CreditInv, TypeOK, history
<1>4. ASSUME NEW r \in Rollers, RollRead(r) PROVE CreditInv'
  <2>1. roll' \in [Rollers -> R]
    BY <1>4, <1>t, <1>a DEF RollRead, TypeOK
  <2>2. QED
    BY <1>4, <1>t, <1>k, <2>1 DEF RollRead, CreditInv, TypeOK, history
<1>5. ASSUME NEW r \in Rollers, RollWrite(r) PROVE CreditInv'
  <2>1. roll' \in [Rollers -> R]
    BY <1>5, <1>t DEF RollWrite
  <2>2. PICK key \in Keys : key = Ev("debit", roll[r].hour)
    BY <1>t DEF Keys, Ev
  <2>3. CASE key \notin DOMAIN ledger /\ Watermark(r)
    <3>1. roll[r].rolled \in Nat /\ roll[r].debit \in Nat /\ roll[r].rolled = acct.rolled
      BY <1>t, <2>3 DEF Watermark
    <3>2. PICK amount \in Int : amount = roll[r].rolled - roll[r].debit
      BY <3>1
    <3>3. acct' = [acct EXCEPT !.rolled = roll[r].debit] /\ Writes(key, amount)
      BY <1>5, <2>2, <2>3, <3>2 DEF RollWrite, Writes
    <3>4. /\ DOMAIN ledger' \subseteq Keys /\ IsFiniteSet(DOMAIN ledger')
          /\ Ints(ledger', DOMAIN ledger') /\ LedgerSum' = LedgerSum + amount
      BY <1>t, <2>3, <3>3, RowWritten
    <3>5. /\ acct' \in Account /\ acct'.balance = acct.balance
          /\ acct'.debit = acct.debit /\ acct'.rolled = roll[r].debit
      BY <1>t, <3>1, <3>3 DEF Account
    <3>6. LedgerExact'
      <4>1. LedgerSum \in Int
        BY <1>t, LedgerType
      <4>2. QED
        BY <1>t, <1>a, <3>1, <3>2, <3>4, <3>5, <4>1 DEF LedgerExact
    <3>7. QED
      BY <1>5, <1>t, <2>1, <3>4, <3>5, <3>6 DEF RollWrite, CreditInv, TypeOK, Ints, history
  <2>4. CASE ~(key \notin DOMAIN ledger /\ Watermark(r))
    <3>1. UNCHANGED <<acct, ledger>>
      BY <1>5, <2>2, <2>4 DEF RollWrite
    <3>2. QED
      BY <1>5, <1>t, <1>k, <2>1, <3>1 DEF RollWrite, CreditInv, TypeOK, history
  <2>5. QED
    BY <2>3, <2>4
<1>6. ASSUME NEW r \in Rollers, RollFails(r) PROVE CreditInv'
  <2>1. roll' \in [Rollers -> R]
    BY <1>6, <1>t DEF RollFails
  <2>2. QED
    BY <1>6, <1>t, <1>k, <2>1 DEF RollFails, Fault, CreditInv, TypeOK, history
<1>7. CASE HourPasses
  BY <1>7, <1>t, <1>k DEF HourPasses, CreditInv, TypeOK, history
<1>8. CASE SubscriptionMoves
  <2>1. sub' \in [want : Sizes \cup {0}, until : 0..MaxPeriods]
    BY <1>8, <1>t DEF SubscriptionMoves, TypeOK
  <2>2. QED
    BY <1>8, <1>t, <1>k, <2>1 DEF SubscriptionMoves, CreditInv, TypeOK, history
<1>9. CASE PeriodEnds
  <2>1. out' \in Nat /\ period' \in 1..MaxPeriods
    BY <1>9, <1>t, <1>a DEF PeriodEnds, TypeOK
  <2>2. QED
    BY <1>9, <1>t, <1>k, <2>1 DEF PeriodEnds, CreditInv, TypeOK, history
<1>10. CASE SyncStart
  <2>1. sync' \in S
    BY <1>10, <1>t DEF SyncStart, TypeOK
  <2>2. QED
    BY <1>10, <1>t, <1>k, <2>1 DEF SyncStart, CreditInv, TypeOK, history
<1>11. CASE SyncSelect
  <2>1. sync' \in S
    BY <1>11, <1>t, <1>a DEF SyncSelect, Allowance
  <2>2. QED
    BY <1>11, <1>t, <1>k, <2>1 DEF SyncSelect, CreditInv, TypeOK, history
<1>12. CASE SyncWrite
  <2>1. PICK new \in Synced :
          /\ acct' = [acct EXCEPT !.allow = new.allow, !.granted = new.granted,
                                  !.until = new.until]
          /\ out' = out + (IF Live(acct) /\ acct.allow > new.allow
                             THEN acct.allow - new.allow ELSE 0)
                        + (IF Live(acct) /\ ~Live(new) THEN Least(acct.allow, new.allow) ELSE 0)
          /\ covered' = IF new.until # acct.until THEN 0 ELSE covered
    BY <1>12 DEF SyncWrite
  <2>2. new.allow \in Nat /\ new.granted \in Nat /\ new.until \in 0..MaxPeriods
    BY <1>t, SyncedType DEF Allowance
  <2>3. acct' \in Account /\ Unwritten(acct)' = Unwritten(acct)
    BY <1>t, <2>1, <2>2 DEF Account, Unwritten
  <2>4. out' \in Nat /\ covered' \in Nat
    BY <1>a, <2>1, <2>2 DEF Least
  <2>5. LedgerExact'
    BY <1>12, <1>s, <2>3 DEF SyncWrite
  <2>6. QED
    BY <1>12, <1>t, <2>3, <2>4, <2>5 DEF SyncWrite, CreditInv, TypeOK, history
<1>13. CASE ExpireAllowances
  <2>1. acct' \in Account /\ Unwritten(acct)' = Unwritten(acct) /\ covered' \in Nat
    <3>1. acct' = [acct EXCEPT !.allow = 0, !.granted = 0, !.until = 0] /\ covered' = 0
      BY <1>13 DEF ExpireAllowances
    <3>2. acct' \in Account
      <4>1. PICK none \in 0..MaxPeriods : none = 0
        OBVIOUS
      <4>2. acct' = [acct EXCEPT !.allow = none, !.granted = none, !.until = none]
        BY <3>1, <4>1
      <4>3. QED
        BY <1>t, <4>1, <4>2 DEF Account
    <3>3. /\ acct'.balance = acct.balance /\ acct'.debit = acct.debit
          /\ acct'.rolled = acct.rolled
      BY <1>t, <3>1 DEF Account
    <3>4. QED
      BY <3>1, <3>2, <3>3 DEF Unwritten
  <2>2. LedgerExact'
    BY <1>13, <1>s, <2>1 DEF ExpireAllowances
  <2>3. QED
    BY <1>13, <1>t, <2>1, <2>2 DEF ExpireAllowances, CreditInv, TypeOK, history
<1>14. QED
  BY <1>1, <1>2, <1>3, <1>4, <1>5, <1>6, <1>7, <1>8, <1>9, <1>10, <1>11, <1>12, <1>13 DEF Spending

\* Every step keeps CreditInv.
LEMMA CreditNext == CreditInv /\ [Next]_vars => CreditInv'
<1> SUFFICES ASSUME CreditInv, [Next]_vars PROVE CreditInv'
  OBVIOUS
<1>1. CASE Movements
  BY <1>1, MovementsCredit
<1>2. CASE Spending
  BY <1>2, SpendingCredit
<1>3. CASE UNCHANGED vars
  BY <1>3 DEF vars, CreditInv, TypeOK, LedgerExact, LedgerSum
<1>4. QED
  BY <1>1, <1>2, <1>3 DEF Next, Movements, Spending

\* At every instant the balance is what credit_ledger adds up to, less the spending not yet written
\* up: whatever redeliveries, turns and roll-ups of any number of instances interleave, and
\* wherever they are cut off.
THEOREM CreditInvariant == Spec => []CreditInv
BY InitCredit, CreditNext, PTL DEF Spec

-----------------------------------------------------------------------------
(* The overdraft. *)

\* What the turns that may still start leave of the floor.
Slack == (InFlight - running) * MaxCost

\* A turn that starts has a turn's cost to spend, one that ends gives it back.
LEMMA SlackMoves ==
  ASSUME TypeOK
  PROVE  /\ Slack \in Nat
         /\ running' \in 0..InFlight => Slack' \in Nat
         /\ running' = running - 1 => Slack' = Slack + MaxCost
         /\ running' = running => Slack' = Slack
<1>1. MaxCost \in Nat /\ InFlight \in Nat /\ running \in 0..InFlight
  BY CreditAssumption DEF TypeOK
<1>2. ASSUME NEW i \in Nat, NEW c \in Nat PROVE i * c \in Nat /\ (i + 1) * c = i * c + c
  OBVIOUS
<1>3. Slack \in Nat
  BY <1>1, <1>2 DEF Slack
<1>4. ASSUME running' \in 0..InFlight PROVE Slack' \in Nat
  <2>1. ASSUME NEW r \in 0..InFlight PROVE InFlight - r \in Nat
    BY <1>1
  <2>2. InFlight - running' \in Nat
    BY <1>4, <2>1, Zenon
  <2>3. QED
    BY <1>1, <1>2, <2>2 DEF Slack
<1>5. ASSUME running' = running - 1 PROVE Slack' = Slack + MaxCost
  <2>1. PICK i \in Nat : i = InFlight - running /\ i + 1 = InFlight - running'
    BY <1>1, <1>5
  <2>2. QED
    BY <1>1, <1>2, <2>1 DEF Slack
<1>6. QED
  BY <1>3, <1>4, <1>5 DEF Slack

\* An account starts within the bound: its floor, and what the turns in flight may cost.
LEMMA InitOverdraft == Init => OverdraftBounded
<1> SUFFICES ASSUME Init PROVE OverdraftBounded
  OBVIOUS
<1>1. Spendable(acct) = 0 /\ out = 0 /\ running = 0
  BY DEF Init, Spendable, Live
<1>2. MaxCost \in Nat \ {0} /\ InFlight \in Nat \ {0} /\ Overdraft \in Nat
  BY CreditAssumption
<1>3. ASSUME NEW i \in Nat \ {0}, NEW c \in Nat \ {0} PROVE i * c >= 1 /\ i * c \in Nat
  OBVIOUS
<1>4. QED
  BY <1>1, <1>2, <1>3 DEF OverdraftBounded

\* What is spendable is an integer.
LEMMA SpendableType ==
  ASSUME NEW a \in Account
  PROVE  Spendable(a) \in Int
BY DEF Spendable, Account

\* Where what may be spent, with what left by other ways, does not fall and no turn starts or ends,
\* the bound stays.
LEMMA NothingSpent ==
  ASSUME CreditInv, OverdraftBounded, CreditInv', running' = running,
         Spendable(acct)' + out' >= Spendable(acct) + out
  PROVE  OverdraftBounded'
<1>1. /\ Slack \in Nat /\ Slack' = Slack /\ Overdraft \in Nat
      /\ Spendable(acct) \in Int /\ out \in Nat /\ out' \in Nat
  BY SlackMoves, SpendableType, CreditAssumption DEF CreditInv, TypeOK
<1>2. Spendable(acct)' \in Int
  BY DEF CreditInv, TypeOK, Spendable, Account
<1>3. Spendable(acct) + out >= 1 - Overdraft - Slack
  BY DEF OverdraftBounded, Slack
<1>4. Spendable(acct)' + out' >= 1 - Overdraft - Slack'
  BY <1>1, <1>2, <1>3
<1>5. QED
  BY <1>4 DEF OverdraftBounded, Slack

\* Every step keeps the bound: a turn that ends gives back more than it cost, one that starts was
\* let in above the floor, and the others take nothing that out does not count.
LEMMA OverdraftNext ==
  CreditInv /\ CreditInv' /\ OverdraftBounded /\ [Next]_vars => OverdraftBounded'
<1> SUFFICES ASSUME CreditInv, CreditInv', OverdraftBounded, [Next]_vars PROVE OverdraftBounded'
  OBVIOUS
<1>t. /\ acct \in Account /\ acct.balance \in Int /\ acct.allow \in Nat
      /\ acct.until \in 0..MaxPeriods /\ period \in Nat /\ out \in Nat
      /\ Spendable(acct) \in Int
  BY SpendableType DEF CreditInv, TypeOK, Account
<1>c. Overdraft \in Nat /\ MaxCost \in Nat /\ Slack \in Nat
  BY SlackMoves, CreditAssumption DEF CreditInv
<1>b. Spendable(acct) + out >= 1 - Overdraft - Slack
  BY DEF OverdraftBounded, Slack
<1>k. ASSUME UNCHANGED <<acct, running, period, out>> PROVE OverdraftBounded'
  BY <1>k DEF OverdraftBounded, Spendable, Live
<1>m. ASSUME NEW key \in Keys, NEW amount \in Int, MoveCredit(key, amount),
             UNCHANGED <<running, period>>
      PROVE  OverdraftBounded'
  <2>1. /\ acct'.allow = acct.allow /\ acct'.until = acct.until
        /\ acct'.balance + out' >= acct.balance + out
    BY <1>m, Moved
  <2>2. acct'.balance \in Int /\ out' \in Nat
    BY DEF CreditInv, TypeOK, Account
  <2>3. Live(acct)' = Live(acct)
    BY <1>m, <2>1 DEF Live
  <2>4. Spendable(acct)' + out' >= Spendable(acct) + out
    BY <1>t, <2>1, <2>2, <2>3 DEF Spendable
  <2>5. QED
    BY <1>m, <2>4, NothingSpent
<1>1. ASSUME NEW h \in Handlers, Move(h) PROVE OverdraftBounded'
  <2>1. handler[h] \in Delivery
    BY <1>1 DEF Move, CreditInv, TypeOK, NoEvent
  <2>2. QED
    BY <1>1, <1>m, <2>1 DEF Move, Delivery
<1>2. ASSUME NEW amount \in Grants, GrantCredit(amount) PROVE OverdraftBounded'
  <2>1. Ev("grant", 0) \in Keys /\ amount \in Int
    BY CreditAssumption DEF Keys
  <2>2. QED
    BY <1>2, <1>m, <2>1 DEF GrantCredit
<1>3. CASE StartTurn
  <2>1. Spendable(acct) > -Overdraft /\ acct' = acct /\ period' = period /\ out' = out
    BY <1>3 DEF StartTurn, BudgetOK
  <2>2. Spendable(acct)' = Spendable(acct) /\ Slack' \in Nat
    BY <2>1, SlackMoves DEF CreditInv, TypeOK, Spendable, Live
  <2>3. Spendable(acct)' + out' >= 1 - Overdraft - Slack'
    BY <1>t, <1>c, <2>1, <2>2
  <2>4. QED
    BY <2>3 DEF OverdraftBounded, Slack
<1>4. CASE ChargeTurn
  <2>1. PICK cost \in 0..MaxCost : acct' = IF cost = 0 THEN acct ELSE Charged(acct, cost)
    BY <1>4 DEF ChargeTurn
  <2>2. cost \in Nat /\ cost <= MaxCost
    BY <1>c, <2>1
  <2>3. Spendable(Charged(acct, cost)) = Spendable(acct) - cost
    BY <1>t, <2>2, ChargedRow
  <2>4. Spendable(acct') = Spendable(acct) - cost
    BY <1>t, <2>1, <2>2, <2>3
  <2>5. Spendable(acct)' = Spendable(acct')
    BY <1>4 DEF ChargeTurn, Spendable, Live
  <2>6. Slack' = Slack + MaxCost /\ out' = out
    BY <1>4, SlackMoves DEF ChargeTurn, CreditInv
  <2>7. Spendable(acct)' + out' >= 1 - Overdraft - Slack'
    BY <1>t, <1>c, <1>b, <2>2, <2>4, <2>5, <2>6
  <2>8. QED
    BY <2>7 DEF OverdraftBounded, Slack
<1>5. CASE UsageLost
  <2>1. Slack' = Slack + MaxCost /\ acct' = acct /\ out' = out /\ period' = period
    BY <1>5, SlackMoves DEF UsageLost, CreditInv
  <2>2. Spendable(acct)' = Spendable(acct)
    BY <2>1 DEF Spendable, Live
  <2>3. Spendable(acct)' + out' >= 1 - Overdraft - Slack'
    BY <1>t, <1>c, <1>b, <2>1, <2>2
  <2>4. QED
    BY <2>3 DEF OverdraftBounded, Slack
<1>6. ASSUME NEW r \in Rollers, RollWrite(r) PROVE OverdraftBounded'
  <2>1. /\ acct'.balance = acct.balance /\ acct'.allow = acct.allow /\ acct'.until = acct.until
        /\ out' = out /\ period' = period /\ running' = running
    BY <1>6, <1>t DEF RollWrite, Account
  <2>2. QED
    BY <2>1 DEF OverdraftBounded, Spendable, Live
<1>7. CASE PeriodEnds
  <2>1. /\ acct' = acct /\ period' = period + 1 /\ running' = running
        /\ out' = out + (IF acct.until = period THEN acct.allow ELSE 0)
    BY <1>7 DEF PeriodEnds
  <2>2. Spendable(acct)' + out' >= Spendable(acct) + out
    BY <1>t, <2>1 DEF Spendable, Live
  <2>3. QED
    BY <2>1, <2>2, NothingSpent
<1>8. CASE SyncWrite
  <2>1. PICK new \in Synced :
          /\ acct' = [acct EXCEPT !.allow = new.allow, !.granted = new.granted,
                                  !.until = new.until]
          /\ out' = out + (IF Live(acct) /\ acct.allow > new.allow
                             THEN acct.allow - new.allow ELSE 0)
                        + (IF Live(acct) /\ ~Live(new) THEN Least(acct.allow, new.allow) ELSE 0)
    BY <1>8 DEF SyncWrite
  <2>2. new.allow \in Nat /\ new.until \in 0..MaxPeriods
    BY SyncedType DEF Allowance, CreditInv
  <2>3. /\ acct'.balance = acct.balance /\ acct'.allow = new.allow /\ acct'.until = new.until
    BY <1>t, <2>1 DEF Account
  <2>4. Live(acct)' = Live(new) /\ running' = running
    BY <1>8, <2>3 DEF SyncWrite, Live
  <2>5. Spendable(acct)' = (IF Live(new) THEN new.allow ELSE 0) + acct.balance
    BY <2>3, <2>4 DEF Spendable
  <2>6. Spendable(acct)' + out' >= Spendable(acct) + out
    BY <1>t, <2>1, <2>2, <2>5 DEF Spendable, Least
  <2>7. QED
    BY <2>4, <2>6, NothingSpent
<1>9. CASE ExpireAllowances
  <2>1. /\ acct'.balance = acct.balance /\ acct'.until = 0 /\ out' = out /\ running' = running
        /\ ~Live(acct)
    BY <1>9, <1>t DEF ExpireAllowances, Account, Live
  <2>2. Spendable(acct)' + out' >= Spendable(acct) + out
    BY <1>t, <2>1 DEF Spendable, Live
  <2>3. QED
    BY <2>1, <2>2, NothingSpent
<1>10. CASE \/ \E h \in Handlers : \/ \E e \in Events : ApplyStripeEvent(h, e)
                                  \/ Record(h) \/ HandlerFails(h)
            \/ \E r \in Rollers : RollRead(r) \/ RollFails(r)
            \/ HourPasses \/ SubscriptionMoves \/ SyncStart \/ SyncSelect \/ UNCHANGED vars
  BY <1>10, <1>k DEF ApplyStripeEvent, Record, HandlerFails, RollRead, RollFails, HourPasses,
                     SubscriptionMoves, SyncStart, SyncSelect, vars
<1>11. QED
  BY <1>1, <1>2, <1>3, <1>4, <1>5, <1>6, <1>7, <1>8, <1>9, <1>10 DEF Next

\* Turns never take an account past maxOverdraftMicros by more than those in flight may cost: each
\* was let in by a gate that read the account afresh, and whatever else took from it is counted.
THEOREM OverdraftBoundedAlways == Spec => []OverdraftBounded
<1>1. CreditInv /\ OverdraftBounded /\ [Next]_vars => (CreditInv /\ OverdraftBounded)'
  BY CreditNext, OverdraftNext
<1>2. QED
  BY InitCredit, InitOverdraft, <1>1, PTL DEF Spec

-----------------------------------------------------------------------------
(* Events on record. *)

\* The key an event's movement is made under.
KeyOf(e) == IF e \in Payments THEN Ev("payment", 0) ELSE e

\* A refund's running total is an amount of the payment.
LEMMA RefundType == ASSUME NEW t \in Refunds PROVE t \in Int /\ t >= 1 /\ t <= Paid
<1>1. Refunds \subseteq 1..Paid /\ Paid \in Nat
  BY CreditAssumption
<1>2. t \in 1..Paid
  BY <1>1
<1>3. QED
  BY <1>1, <1>2

\* The payment is an integer, and a refund of it the running total it carries.
LEMMA RefundLeast ==
  ASSUME NEW t \in Refunds
  PROVE  t \in Int /\ t >= 1 /\ t <= Paid /\ Paid \in Int /\ Least(t, Paid) = t
<1>1. t \in Int /\ t >= 1 /\ t <= Paid
  BY RefundType
<1>2. Paid \in Int
  BY CreditAssumption
<1>3. QED
  BY <1>1, <1>2 DEF Least

\* HadEffect, kind by kind.
LEMMA EffectOf ==
  ASSUME NEW e \in Events
  PROVE  /\ e \in Payments => HadEffect(e) = (Credited = Paid)
         /\ e.type = "refund" => HadEffect(e) = (Refunded >= Least(e.n, Paid))
         /\ e.type = "dispute" =>
              HadEffect(e) = (Ev("dispute", 0) \in DOMAIN ledger \/ Refunded >= Paid)
         /\ e.type = "won" =>
              HadEffect(e) = \/ Ev("dispute", 0) \notin DOMAIN ledger
                             \/ /\ Ev("won", 0) \in DOMAIN ledger
                                /\ ledger[Ev("won", 0)] = -ledger[Ev("dispute", 0)]
<1>1. e \in Payments => e.type \in {"checkout", "intent"}
  BY DEF Payments, Ev
<1>2. QED
  BY <1>1, EventKinds DEF HadEffect

\* The same after a step.
LEMMA EffectNext ==
  ASSUME NEW e \in Events
  PROVE  /\ e \in Payments => HadEffect(e)' = (Credited = Paid)'
         /\ e.type = "refund" => HadEffect(e)' = (Refunded' >= Least(e.n, Paid))
         /\ e.type = "dispute" =>
              HadEffect(e)' = (Ev("dispute", 0) \in DOMAIN ledger' \/ Refunded' >= Paid)
         /\ e.type = "won" =>
              HadEffect(e)' = \/ Ev("dispute", 0) \notin DOMAIN ledger'
                              \/ /\ Ev("won", 0) \in DOMAIN ledger'
                                 /\ ledger'[Ev("won", 0)] = -ledger'[Ev("dispute", 0)]
<1>1. e \in Payments => e.type \in {"checkout", "intent"}
  BY DEF Payments, Ev
<1>2. QED
  BY <1>1, EventKinds DEF HadEffect

\* An event whose row is on the ledger has had its effect.
LEMMA RowEffect ==
  ASSUME NEW e \in Events, KeyOf(e) \in DOMAIN ledger', LedgerRows'
  PROVE  HadEffect(e)'
<1>1. CASE e \in Payments
  BY <1>1, EffectNext DEF KeyOf, LedgerRows, Credited
<1>2. CASE e.type = "refund" /\ e \notin Payments
  <2>1. e \in RefundKeys'
    BY <1>2 DEF KeyOf, RefundKeys
  <2>2. QED
    BY <1>2, <2>1, EffectNext DEF LedgerRows
<1>3. CASE e.type = "dispute" /\ e = Ev("dispute", 0) /\ e \notin Payments
  BY <1>3, EffectNext DEF KeyOf
<1>4. CASE e.type = "won" /\ e = Ev("won", 0) /\ e \notin Payments
  BY <1>4, EffectNext DEF KeyOf, LedgerRows
<1>5. QED
  BY <1>1, <1>2, <1>3, <1>4, EventKinds

\* What was refunded is an integer after a step, too.
LEMMA LedgerTypeNext == ASSUME TypeOK' PROVE Refunded' \in Int
<1>1. IsFiniteSet(DOMAIN ledger') /\ RefundKeys' \subseteq DOMAIN ledger'
  BY DEF TypeOK, RefundKeys
<1>2. IsFiniteSet(RefundKeys') /\ Ints(ledger', RefundKeys')
  BY <1>1, FS_Subset DEF TypeOK, Ints
<1>3. Total(ledger', RefundKeys') \in Int
  BY <1>2, TotalType
<1>4. QED
  BY <1>3 DEF Refunded

\* The ledger is only added to, and what was refunded does not fall.
Grows ==
  /\ DOMAIN ledger \subseteq DOMAIN ledger' /\ Alike(ledger, ledger', DOMAIN ledger)
  /\ Refunded' >= Refunded

\* An effect that an event has had lasts; of a dispute won, as long as none is entered after.
LEMMA EffectKept ==
  ASSUME TypeOK, TypeOK', LedgerRows', Grows, NEW e \in Events, HadEffect(e),
         e.type = "won" /\ Ev("dispute", 0) \in DOMAIN ledger' => Ev("dispute", 0) \in DOMAIN ledger
  PROVE  HadEffect(e)'
<1>t. Refunded \in Int /\ Refunded' \in Int /\ Paid \in Int
  BY LedgerType, LedgerTypeNext, CreditAssumption
<1>1. CASE e \in Payments
  BY <1>1, EffectOf, EffectNext DEF LedgerRows, Credited, Grows, Alike
<1>2. CASE e.type = "refund" /\ e.n \in Refunds
  <2>1. PICK n \in Int : n = Least(e.n, Paid)
    BY <1>t, <1>2, RefundType DEF Least
  <2>2. Refunded >= n
    BY <1>2, <2>1, EffectOf
  <2>3. Refunded' >= n
    BY <1>t, <2>2 DEF Grows
  <2>4. QED
    BY <1>2, <2>1, <2>3, EffectNext
<1>3. CASE e.type = "dispute"
  <2>1. Ev("dispute", 0) \in DOMAIN ledger \/ Refunded >= Paid
    BY <1>3, EffectOf
  <2>2. Ev("dispute", 0) \in DOMAIN ledger' \/ Refunded' >= Paid
    BY <1>t, <2>1 DEF Grows
  <2>3. QED
    BY <1>3, <2>2, EffectNext
<1>4. CASE e.type = "won"
  BY <1>4, EffectOf, EffectNext DEF Grows, Alike
<1>5. QED
  BY <1>1, <1>2, <1>3, <1>4, EventKinds

\* What a handler about to move is about to do, kind by kind.
MoveOk(e, amount) ==
  /\ e \in Payments => amount = Paid
  /\ e.type = "refund" => amount < 0 /\ Refunded - amount >= Least(e.n, Paid)
  /\ e.type = "dispute" => amount < 0 /\ Ev("payment", 0) \in DOMAIN ledger
  /\ e.type = "won" => Ev("dispute", 0) \in DOMAIN ledger /\ amount = -ledger[Ev("dispute", 0)]

\* HandlerOk in those terms, before and after a step.
LEMMA HandlerMeans ==
  ASSUME NEW h, handler[h].ev \in Events, handler[h].pc \in {"move", "record"}
  PROVE  HandlerOk(h) <=>
           /\ handler[h].key = KeyOf(handler[h].ev)
           /\ handler[h].pc = "record" /\ handler[h].ev \notin early => HadEffect(handler[h].ev)
           /\ handler[h].pc = "move" => MoveOk(handler[h].ev, handler[h].amount)
<1>1. handler[h].ev \in Payments => handler[h].ev.type \in {"checkout", "intent"}
  BY DEF Payments, Ev
<1>2. QED
  BY <1>1, EventKinds DEF HandlerOk, MoveOk, KeyOf, Ev

\* The same after a step.
LEMMA HandlerMeansNext ==
  ASSUME NEW h, handler'[h].ev \in Events, handler'[h].pc \in {"move", "record"}
  PROVE  HandlerOk(h)' <=>
           /\ handler'[h].key = KeyOf(handler'[h].ev)
           /\ handler'[h].pc = "record" /\ handler'[h].ev \notin early' => HadEffect(handler[h].ev)'
           /\ handler'[h].pc = "move" => MoveOk(handler[h].ev, handler[h].amount)'
<1>1. handler'[h].ev \in Payments => handler'[h].ev.type \in {"checkout", "intent"}
  BY DEF Payments, Ev
<1>2. QED
  BY <1>1, EventKinds DEF HandlerOk, MoveOk, KeyOf, Ev

\* Nothing is on record and no delivery is being handled.
LEMMA InitEvents == Init => EventsInv
<1> SUFFICES ASSUME Init PROVE EventsInv
  OBVIOUS
<1>1. TypeOK
  BY InitCredit DEF CreditInv
<1>2. DOMAIN ledger = {} /\ seen = {} /\ \A h \in Handlers : handler[h] = NoEvent
  BY DEF Init
<1>3. LedgerRows
  BY <1>2 DEF LedgerRows, RefundKeys
<1>4. WonComesLast /\ RecordedHadEffect
  BY <1>2 DEF WonComesLast, RecordedHadEffect, NoEvent, Ev
<1>5. \A h \in Handlers : HandlerOk(h)
  BY <1>2 DEF HandlerOk, NoEvent
<1>6. QED
  BY <1>1, <1>3, <1>4, <1>5 DEF EventsInv

\* A row a movement writes is as the rows of the ledger are, and the ledger grows by it.
LEMMA RowsKept ==
  ASSUME EventsInv, NEW key \in Keys, key \notin DOMAIN ledger, NEW amount \in Int,
         Writes(key, amount),
         key = Ev("payment", 0) => amount = Paid,
         key.type = "refund" => amount < 0 /\ Refunded - amount >= Least(key.n, Paid),
         key = Ev("dispute", 0) => amount < 0 /\ Ev("payment", 0) \in DOMAIN ledger,
         key = Ev("won", 0) =>
           Ev("dispute", 0) \in DOMAIN ledger /\ amount = -ledger[Ev("dispute", 0)]
  PROVE  LedgerRows' /\ Grows
<1>t. TypeOK /\ LedgerRows
  BY DEF EventsInv
<1>1. /\ DOMAIN ledger' = DOMAIN ledger \cup {key} /\ Alike(ledger, ledger', DOMAIN ledger)
      /\ ledger'[key] = amount
      /\ Refunded' = Refunded - (IF key.type = "refund" THEN amount ELSE 0)
  BY <1>t, RowWritten
<1>2. Refunded \in Int /\ Refunded' \in Int /\ Refunded' >= Refunded
  BY <1>t, <1>1, LedgerType
<1>3. Grows
  BY <1>1, <1>2 DEF Grows
<1>4. Ev("payment", 0) \in DOMAIN ledger' => ledger'[Ev("payment", 0)] = Paid
  BY <1>t, <1>1 DEF LedgerRows, Alike
<1>5. Ev("dispute", 0) \in DOMAIN ledger' =>
        Ev("payment", 0) \in DOMAIN ledger' /\ ledger'[Ev("dispute", 0)] < 0
  BY <1>t, <1>1 DEF LedgerRows, Alike
<1>6. ASSUME NEW k \in RefundKeys' PROVE ledger'[k] < 0 /\ Refunded' >= Least(k.n, Paid)
  <2>1. CASE k = key
    BY <1>1, <1>6, <2>1 DEF RefundKeys
  <2>2. CASE k # key
    <3>1. k \in RefundKeys /\ ledger'[k] = ledger[k]
      BY <1>1, <1>6, <2>2 DEF RefundKeys, Alike
    <3>2. ledger[k] < 0 /\ Refunded >= Least(k.n, Paid)
      BY <1>t, <3>1 DEF LedgerRows
    <3>3. k.n \in Refunds
      BY <1>t, <3>1 DEF TypeOK, RefundKeys, Keys, Ev
    <3>4. PICK n \in Int : n = Least(k.n, Paid)
      BY <3>3, RefundLeast
    <3>5. Refunded' >= n
      BY <1>2, <3>2, <3>4
    <3>6. QED
      BY <3>1, <3>2, <3>4, <3>5
  <2>3. QED
    BY <2>1, <2>2
<1>7. Ev("won", 0) \in DOMAIN ledger' =>
        /\ Ev("dispute", 0) \in DOMAIN ledger'
        /\ ledger'[Ev("won", 0)] = -ledger'[Ev("dispute", 0)]
  <2>1. CASE key = Ev("won", 0)
    BY <1>1, <2>1 DEF Alike
  <2>2. CASE key # Ev("won", 0)
    BY <1>t, <1>1, <2>2 DEF LedgerRows, Alike
  <2>3. QED
    BY <2>1, <2>2
<1>8. LedgerRows'
  BY <1>4, <1>5, <1>6, <1>7 DEF LedgerRows
<1>9. QED
  BY <1>3, <1>8

\* What the ledger promises its readers lasts as it grows; a dispute is entered only while its end
\* is neither on record nor being handled.
LEMMA GrowsKeeps ==
  ASSUME EventsInv, TypeOK', LedgerRows', Grows, seen' = seen, early \subseteq early', NEW g,
         Ev("dispute", 0) \in DOMAIN ledger' =>
           Ev("dispute", 0) \in DOMAIN ledger \/ \E h \in Handlers : handler[h].ev = Ev("dispute", 0)
  PROVE  /\ RecordedHadEffect'
         /\ g \in Handlers /\ handler'[g] = handler[g] => HandlerOk(g)'
<1>t. /\ TypeOK /\ LedgerRows /\ WonComesLast /\ RecordedHadEffect /\ seen \subseteq Events
      /\ \A h \in Handlers : HandlerOk(h)
  BY DEF EventsInv, TypeOK
<1>1. ASSUME NEW e \in Events, HadEffect(e), e \notin early,
             e \in seen \/ \E h \in Handlers : handler[h].ev = e
      PROVE  HadEffect(e)'
  <2>1. e.type = "won" => e = Ev("won", 0)
    BY EventKinds DEF Payments, Ev
  <2>2. e.type = "won" /\ Ev("dispute", 0) \in DOMAIN ledger' => Ev("dispute", 0) \in DOMAIN ledger
    BY <1>t, <1>1, <2>1 DEF WonComesLast
  <2>3. QED
    BY <1>t, <1>1, <2>2, EffectKept
<1>2. RecordedHadEffect'
  BY <1>t, <1>1 DEF RecordedHadEffect
<1>3. ASSUME g \in Handlers, handler'[g] = handler[g] PROVE HandlerOk(g)'
  <2>1. CASE handler[g] = NoEvent
    BY <1>3, <2>1 DEF HandlerOk, NoEvent
  <2>2. CASE handler[g] \in Delivery
    <3>1. handler[g].ev \in Events /\ handler[g].pc \in {"move", "record"} /\ handler[g].amount \in Int
      BY <2>2 DEF Delivery
    <3>2. /\ handler[g].key = KeyOf(handler[g].ev)
          /\ handler[g].pc = "record" /\ handler[g].ev \notin early => HadEffect(handler[g].ev)
          /\ handler[g].pc = "move" => MoveOk(handler[g].ev, handler[g].amount)
      BY <1>t, <1>3, <3>1, HandlerMeans
    <3>3. PICK e \in Events : e = handler[g].ev
      BY <3>1
    <3>4. handler[g].pc = "record" /\ handler[g].ev \notin early' => HadEffect(handler[g].ev)'
      <4>1. HadEffect(e) /\ e \notin early => HadEffect(e)'
        BY <1>1, <1>3, <3>3
      <4>2. HadEffect(handler[g].ev)' = HadEffect(e)'
        BY <1>3, <3>3 DEF HadEffect
      <4>3. QED
        BY <3>2, <3>3, <4>1, <4>2
    <3>5. ASSUME MoveOk(handler[g].ev, handler[g].amount)
          PROVE  MoveOk(handler[g].ev, handler[g].amount)'
      <4>1. PICK a \in Int : a = handler[g].amount
        BY <3>1
      <4>2. Refunded \in Int /\ Refunded' \in Int
        BY <1>t, LedgerType, LedgerTypeNext
      <4>3. e.type = "refund" => Least(e.n, Paid) \in Int
        BY EventKinds, RefundType, CreditAssumption DEF Least, Payments, Ev
      <4>4. e.type = "refund" => a < 0 /\ Refunded' - a >= Least(e.n, Paid)
        BY <3>3, <3>5, <4>1, <4>2, <4>3 DEF MoveOk, Grows
      <4>5. QED
        BY <1>3, <3>3, <3>5, <4>1, <4>4 DEF MoveOk, Grows, Alike
    <3>6. QED
      BY <1>3, <3>1, <3>2, <3>4, <3>5, HandlerMeansNext
  <2>3. QED
    BY <1>t, <1>3, <2>1, <2>2 DEF TypeOK
<1>4. QED
  BY <1>2, <1>3

\* What a delivery finds when it is taken up: something to move that makes its effect whole, or
\* nothing; and where it comes in turn the effect is there then.
LEMMA TakenUp ==
  ASSUME EventsInv, NEW e \in Events
  PROVE  /\ Movement(e).key = KeyOf(e)
         /\ Moves(e, Movement(e)) => MoveOk(e, Movement(e).amount)
         /\ ~Moves(e, Movement(e)) /\ InTurn(e) => HadEffect(e)
<1>t. TypeOK /\ LedgerRows /\ RecordedHadEffect /\ Paid \in Nat /\ Disputed \in 0..Paid
  BY CreditAssumption DEF EventsInv
<1>i. /\ Refunded \in Int /\ Credited \in Int /\ Ints(ledger, DOMAIN ledger)
      /\ Credited = 0 \/ Credited = Paid
      /\ Ev("payment", 0) \in DOMAIN ledger => Credited = Paid
  BY <1>t, LedgerType DEF LedgerRows, Credited
<1>0. Movement(e).key = KeyOf(e)
  BY DEF Movement, KeyOf
<1>1. CASE e \in Payments
  <2>1. e.type \in {"checkout", "intent"}
    BY <1>1 DEF Payments, Ev
  <2>2. Movement(e).amount = Paid
    BY <1>1 DEF Movement
  <2>3. Moves(e, Movement(e)) <=> Paid > 0
    BY <2>1, <2>2 DEF Moves
  <2>4. ASSUME ~Moves(e, Movement(e)) PROVE HadEffect(e)
    <3>1. Credited = Paid
      BY <1>t, <1>i, <2>3, <2>4
    <3>2. QED
      BY <1>1, <3>1, EffectOf
  <2>5. MoveOk(e, Movement(e).amount)
    BY <2>1, <2>2 DEF MoveOk
  <2>6. QED
    BY <1>0, <2>4, <2>5
<1>2. CASE e.type = "refund" /\ e.n \in Refunds /\ e \notin Payments
  <2>1. e.n \in Int /\ e.n >= 1 /\ e.n <= Paid
    BY <1>2, RefundType
  <2>n. CASE Credited = 0
    <3>1. Movement(e).amount = 0
      BY <1>2, <2>n DEF Movement
    <3>2. ~Moves(e, Movement(e))
      BY <1>2, <3>1 DEF Moves
    <3>3. ~InTurn(e)
      BY <1>t, <1>i, <1>2, <2>1, <2>n DEF InTurn
    <3>4. QED
      BY <1>0, <3>2, <3>3
  <2>2. SUFFICES ASSUME Credited = Paid, Paid # 0
                 PROVE  /\ Moves(e, Movement(e)) => MoveOk(e, Movement(e).amount)
                        /\ ~Moves(e, Movement(e)) => HadEffect(e)
    BY <1>0, <1>i, <1>t, <2>n, <2>1
  <2>3. PICK n \in Int : n = Least(e.n, Paid)
    BY <1>t, <2>1 DEF Least
  <2>4. Movement(e).amount = -(n - Refunded)
    BY <1>2, <2>2, <2>3 DEF Movement, RefundDue
  <2>5. Moves(e, Movement(e)) <=> -(n - Refunded) < 0
    BY <1>2, <2>4 DEF Moves
  <2>6. ASSUME ~Moves(e, Movement(e)) PROVE HadEffect(e)
    <3>1. Refunded >= n
      BY <1>i, <2>3, <2>5, <2>6
    <3>2. QED
      BY <1>2, <2>3, <3>1, EffectOf
  <2>7. ASSUME Moves(e, Movement(e)) PROVE MoveOk(e, Movement(e).amount)
    BY <1>i, <1>2, <2>3, <2>4, <2>5, <2>7 DEF MoveOk
  <2>8. QED
    BY <2>6, <2>7
<1>3. CASE e.type = "dispute" /\ e \notin Payments /\ Disputed # 0
  <2>n. CASE Credited = 0
    <3>1. Movement(e).amount = 0
      BY <1>3, <2>n DEF Movement
    <3>2. ~Moves(e, Movement(e))
      BY <1>3, <3>1 DEF Moves
    <3>3. ~InTurn(e)
      BY <1>t, <1>i, <1>3, <2>n DEF InTurn
    <3>4. QED
      BY <1>0, <3>2, <3>3
  <2>1. SUFFICES ASSUME Ev("payment", 0) \in DOMAIN ledger, Credited = Paid, Paid # 0
                 PROVE  /\ Moves(e, Movement(e)) => MoveOk(e, Movement(e).amount)
                        /\ ~Moves(e, Movement(e)) => HadEffect(e)
    BY <1>0, <1>i, <1>t, <2>n DEF Credited
  <2>2. Movement(e).amount = -Least(Disputed, Paid - Refunded)
    BY <1>3, <2>1 DEF Movement
  <2>3. Moves(e, Movement(e)) <=> -Least(Disputed, Paid - Refunded) < 0
    BY <1>3, <2>2 DEF Moves
  <2>4. ASSUME Moves(e, Movement(e)) PROVE MoveOk(e, Movement(e).amount)
    BY <1>3, <2>1, <2>2, <2>3, <2>4 DEF MoveOk
  <2>5. ASSUME ~Moves(e, Movement(e)) PROVE HadEffect(e)
    <3>1. Refunded >= Paid
      BY <1>t, <1>i, <1>3, <2>3, <2>5 DEF Least
    <3>2. QED
      BY <1>3, <3>1, EffectOf
  <2>6. QED
    BY <2>4, <2>5
<1>4. CASE e.type = "won" /\ e \notin Payments /\ Disputed # 0
  <2>1. CASE Ev("dispute", 0) \in DOMAIN ledger
    <3>1. Credited # 0 /\ ledger[Ev("dispute", 0)] < 0 /\ ledger[Ev("dispute", 0)] \in Int
      BY <1>t, <1>i, <1>4, <2>1 DEF LedgerRows, Ints
    <3>2. Movement(e).amount = -ledger[Ev("dispute", 0)]
      BY <1>4, <2>1, <3>1 DEF Movement
    <3>3. Moves(e, Movement(e))
      BY <1>4, <3>1, <3>2 DEF Moves
    <3>4. MoveOk(e, Movement(e).amount)
      BY <1>4, <2>1, <3>2 DEF MoveOk
    <3>5. QED
      BY <1>0, <3>3, <3>4
  <2>2. CASE Ev("dispute", 0) \notin DOMAIN ledger
    <3>1. Movement(e).amount = 0
      BY <1>4, <2>2 DEF Movement
    <3>2. ~Moves(e, Movement(e))
      BY <1>4, <3>1 DEF Moves
    <3>3. HadEffect(e)
      BY <1>4, <2>2, EffectOf
    <3>4. QED
      BY <1>0, <3>2, <3>3
  <2>3. QED
    BY <2>1, <2>2
<1>5. QED
  BY <1>1, <1>2, <1>3, <1>4, EventKinds

\* A row that is of neither payment, refund nor dispute leaves the events as they are.
LEMMA OtherRow ==
  ASSUME EventsInv, TypeOK', NEW key \in Keys, key.type \in {"grant", "debit"},
         key \notin DOMAIN ledger, NEW amount \in Int, Writes(key, amount),
         UNCHANGED <<seen, handler, early>>
  PROVE  EventsInv'
<1>1. /\ key # Ev("payment", 0) /\ key # Ev("dispute", 0) /\ key # Ev("won", 0)
      /\ key.type # "refund"
  BY DEF Ev
<1>2. LedgerRows' /\ Grows
  BY <1>1, RowsKept
<1>3. Ev("dispute", 0) \in DOMAIN ledger' => Ev("dispute", 0) \in DOMAIN ledger
  BY <1>1 DEF Writes
<1>4. RecordedHadEffect' /\ \A g \in Handlers : HandlerOk(g)'
  BY <1>2, <1>3, GrowsKeeps
<1>5. WonComesLast'
  BY DEF EventsInv, WonComesLast
<1>6. QED
  BY <1>2, <1>4, <1>5 DEF EventsInv

\* Nor do steps that leave the ledger, the record and the handlers alone.
LEMMA NoRow ==
  ASSUME EventsInv, TypeOK', UNCHANGED <<ledger, seen, handler, early>>
  PROVE  EventsInv'
BY DEF EventsInv, LedgerRows, WonComesLast, RecordedHadEffect, HandlerOk, HadEffect, Refunded,
       RefundKeys, Credited

\* A handler that rests has nothing to answer for.
LEMMA RestingOk == ASSUME NEW h, handler'[h] = NoEvent PROVE HandlerOk(h)'
BY DEF HandlerOk, NoEvent

\* Every step keeps EventsInv: one case per action that writes the ledger, the record or a handler.
LEMMA EventsNext == EventsInv /\ TypeOK' /\ [Next]_vars => EventsInv'
<1> SUFFICES ASSUME EventsInv, TypeOK', [Next]_vars PROVE EventsInv'
  OBVIOUS
<1>t. /\ TypeOK /\ LedgerRows /\ WonComesLast /\ RecordedHadEffect
      /\ \A h \in Handlers : HandlerOk(h)
      /\ handler \in [Handlers -> Delivery \cup {NoEvent}] /\ seen \subseteq Events
  BY DEF EventsInv, TypeOK
<1>d. ASSUME NEW h \in Handlers, handler[h].pc # "idle"
      PROVE  /\ handler[h] \in Delivery /\ handler[h].ev \in Events
             /\ handler[h].key \in Keys /\ handler[h].amount \in Int
             /\ handler[h].key = KeyOf(handler[h].ev)
             /\ handler[h].pc = "record" /\ handler[h].ev \notin early => HadEffect(handler[h].ev)
             /\ handler[h].pc = "move" => MoveOk(handler[h].ev, handler[h].amount)
  <2>1. /\ handler[h] \in Delivery /\ handler[h].ev \in Events
        /\ handler[h].key \in Keys /\ handler[h].amount \in Int
        /\ handler[h].pc \in {"move", "record"}
    BY <1>t, <1>d DEF Delivery, NoEvent
  <2>2. QED
    BY <1>t, <2>1, HandlerMeans
<1>g. ledger' = ledger => LedgerRows' /\ Grows
  <2>1. Refunded \in Int
    BY <1>t, LedgerType
  <2>2. QED
    BY <1>t, <2>1 DEF LedgerRows, Grows, Alike, Refunded, RefundKeys
<1>1. ASSUME NEW h \in Handlers, NEW e \in Events, ApplyStripeEvent(h, e) PROVE EventsInv'
  <2>1. /\ ledger' = ledger /\ seen' = seen /\ e \notin seen
        /\ early \subseteq early' /\ (e \notin early' => InTurn(e)) /\ early' \subseteq early \cup {e}
        /\ \A g \in Handlers : g # h => handler'[g] = handler[g]
        /\ handler'[h] = [ev |-> e, pc |-> IF Moves(e, Movement(e)) THEN "move" ELSE "record",
                          key |-> Movement(e).key, amount |-> Movement(e).amount]
    BY <1>1, <1>t DEF ApplyStripeEvent
  <2>2. LedgerRows' /\ Grows
    BY <1>g, <2>1
  <2>3. RecordedHadEffect' /\ \A g \in Handlers : g # h => HandlerOk(g)'
    BY <2>1, <2>2, GrowsKeeps
  <2>4. /\ Movement(e).key = KeyOf(e)
        /\ Moves(e, Movement(e)) => MoveOk(e, Movement(e).amount)
        /\ ~Moves(e, Movement(e)) /\ InTurn(e) => HadEffect(e)
    BY <2>1, TakenUp
  <2>5. HandlerOk(h)'
    <3>1. /\ handler'[h].ev = e /\ handler'[h].pc \in {"move", "record"}
          /\ handler'[h].key = KeyOf(handler'[h].ev)
      BY <2>1, <2>4
    <3>2. handler'[h].pc = "record" /\ handler'[h].ev \notin early' => HadEffect(handler[h].ev)'
      <4>1. HadEffect(handler[h].ev)' = HadEffect(e)
        BY <2>1, <3>1 DEF HadEffect, Credited, Refunded, RefundKeys
      <4>2. QED
        BY <2>1, <2>4, <3>1, <4>1
    <3>3. handler'[h].pc = "move" => MoveOk(handler[h].ev, handler[h].amount)'
      <4>1. MoveOk(handler[h].ev, handler[h].amount)' = MoveOk(e, Movement(e).amount)
        BY <2>1, <3>1 DEF MoveOk, Refunded, RefundKeys
      <4>2. QED
        BY <2>1, <2>4, <4>1
    <3>4. QED
      BY <3>1, <3>2, <3>3, HandlerMeansNext
  <2>6. WonComesLast'
    <3>0. CASE Ev("won", 0) \in early'
      BY <3>0 DEF WonComesLast
    <3>1. CASE e = Ev("won", 0) /\ Ev("won", 0) \notin early'
      <4>1. e.type = "won" /\ e \notin Payments
        BY <3>1 DEF Ev, Payments
      <4>2. Ev("dispute", 0) \in seen /\ \A g \in Handlers : handler[g].ev # Ev("dispute", 0)
        BY <2>1, <3>1, <4>1 DEF InTurn
      <4>3. handler'[h].ev # Ev("dispute", 0)
        BY <2>1, <3>1 DEF Ev
      <4>4. QED
        BY <2>1, <4>2, <4>3 DEF WonComesLast
    <3>2. CASE e = Ev("dispute", 0) /\ Ev("won", 0) \notin early'
      <4>1. Ev("won", 0) \notin seen /\ \A g \in Handlers : handler[g].ev # Ev("won", 0)
        BY <1>t, <2>1, <3>2 DEF WonComesLast
      <4>2. handler'[h].ev # Ev("won", 0)
        BY <2>1, <3>2 DEF Ev
      <4>3. QED
        BY <2>1, <4>1, <4>2 DEF WonComesLast
    <3>3. CASE e # Ev("won", 0) /\ e # Ev("dispute", 0)
      BY <1>t, <2>1, <3>3 DEF WonComesLast
    <3>4. QED
      BY <3>0, <3>1, <3>2, <3>3
  <2>7. QED
    BY <2>2, <2>3, <2>5, <2>6 DEF EventsInv
<1>2. ASSUME NEW h \in Handlers, Move(h) PROVE EventsInv'
  <2>1. PICK d \in Delivery : d = handler[h]
    BY <1>2, <1>d DEF Move
  <2>2. /\ d.ev \in Events /\ d.key \in Keys /\ d.amount \in Int /\ d.key = KeyOf(d.ev)
        /\ MoveOk(d.ev, d.amount) /\ MoveCredit(d.key, d.amount) /\ seen' = seen /\ early' = early
        /\ \A g \in Handlers : g # h => handler'[g] = handler[g]
        /\ handler'[h].pc = "record" /\ handler'[h].ev = d.ev /\ handler'[h].key = d.key
        /\ \A g \in Handlers : handler'[g].ev = handler[g].ev
    BY <1>2, <1>d, <1>t, <2>1 DEF Move, history
  <2>3. /\ LedgerRows' /\ Grows /\ d.key \in DOMAIN ledger'
        /\ Ev("dispute", 0) \in DOMAIN ledger' =>
             Ev("dispute", 0) \in DOMAIN ledger \/ \E g \in Handlers : handler[g].ev = Ev("dispute", 0)
    <3>1. CASE d.key \in DOMAIN ledger
      <4>1. ledger' = ledger
        BY <2>2, <3>1 DEF MoveCredit
      <4>2. QED
        BY <1>g, <3>1, <4>1
    <3>2. CASE d.key \notin DOMAIN ledger
      <4>1. Writes(d.key, d.amount)
        BY <2>2, <3>2 DEF MoveCredit, Writes
      <4>2. /\ d.key = Ev("payment", 0) => d.ev \in Payments
            /\ d.ev \in Payments => d.key = Ev("payment", 0)
            /\ d.ev \notin Payments => d.key = d.ev
        BY <2>2, EventKinds DEF KeyOf, Ev
      <4>3. /\ d.key = Ev("payment", 0) => d.amount = Paid
            /\ d.key.type = "refund" => d.amount < 0 /\ Refunded - d.amount >= Least(d.key.n, Paid)
            /\ d.key = Ev("dispute", 0) => d.amount < 0 /\ Ev("payment", 0) \in DOMAIN ledger
            /\ d.key = Ev("won", 0) =>
                 Ev("dispute", 0) \in DOMAIN ledger /\ d.amount = -ledger[Ev("dispute", 0)]
        BY <2>2, <4>2 DEF MoveOk, Ev
      <4>4. LedgerRows' /\ Grows
        BY <2>2, <3>2, <4>1, <4>3, RowsKept
      <4>5. DOMAIN ledger' = DOMAIN ledger \cup {d.key}
        BY <4>1 DEF Writes
      <4>6. d.key = Ev("dispute", 0) => d.ev = Ev("dispute", 0)
        BY <4>2 DEF Ev
      <4>7. QED
        BY <2>1, <4>4, <4>5, <4>6
    <3>3. QED
      BY <3>1, <3>2
  <2>4. RecordedHadEffect' /\ \A g \in Handlers : g # h => HandlerOk(g)'
    BY <2>2, <2>3, GrowsKeeps
  <2>5. HandlerOk(h)'
    <3>1. HadEffect(d.ev)'
      BY <2>2, <2>3, RowEffect
    <3>2. HadEffect(handler[h].ev)'
      BY <2>2, <3>1 DEF HadEffect
    <3>3. QED
      BY <2>2, <3>2, HandlerMeansNext
  <2>6. WonComesLast'
    BY <1>t, <2>2 DEF WonComesLast
  <2>7. QED
    BY <2>3, <2>4, <2>5, <2>6 DEF EventsInv
<1>3. ASSUME NEW h \in Handlers, Record(h) PROVE EventsInv'
  <2>1. /\ ledger' = ledger /\ seen' = seen \cup {handler[h].ev} /\ handler'[h] = NoEvent
        /\ \A g \in Handlers : g # h => handler'[g] = handler[g]
        /\ handler[h].pc = "record" /\ early' = early
    BY <1>3, <1>t DEF Record, history
  <2>2. handler[h].ev \notin early => HadEffect(handler[h].ev)
    BY <1>d, <2>1
  <2>3. RecordedHadEffect'
    BY <1>t, <2>1, <2>2 DEF RecordedHadEffect, HadEffect, Credited, Refunded, RefundKeys
  <2>4. ASSUME NEW g \in Handlers PROVE HandlerOk(g)'
    <3>1. CASE g = h
      BY <2>1, <3>1, RestingOk
    <3>2. CASE g # h
      BY <1>t, <2>1, <3>2 DEF HandlerOk, HadEffect, Credited, Refunded, RefundKeys
    <3>3. QED
      BY <3>1, <3>2
  <2>5. WonComesLast'
    BY <1>t, <2>1 DEF WonComesLast, NoEvent, Ev
  <2>6. QED
    BY <1>g, <2>1, <2>3, <2>4, <2>5 DEF EventsInv
<1>4. ASSUME NEW h \in Handlers, HandlerFails(h) PROVE EventsInv'
  <2>1. /\ ledger' = ledger /\ seen' = seen /\ handler'[h] = NoEvent /\ early' = early
        /\ \A g \in Handlers : g # h => handler'[g] = handler[g]
    BY <1>4, <1>t DEF HandlerFails, history
  <2>2. LedgerRows' /\ Grows
    BY <1>g, <2>1
  <2>3. RecordedHadEffect' /\ \A g \in Handlers : g # h => HandlerOk(g)'
    BY <2>1, <2>2, GrowsKeeps
  <2>4. HandlerOk(h)'
    BY <2>1, RestingOk
  <2>5. WonComesLast'
    BY <1>t, <2>1 DEF WonComesLast, NoEvent, Ev
  <2>6. QED
    BY <2>2, <2>3, <2>4, <2>5 DEF EventsInv
<1>5. ASSUME NEW amount \in Grants, GrantCredit(amount) PROVE EventsInv'
  <2>0. Ev("grant", 0) \in Keys /\ Ev("grant", 0).type = "grant"
    BY DEF Keys, Ev
  <2>1. PICK key \in Keys : key = Ev("grant", 0) /\ key.type = "grant"
    BY <2>0
  <2>2. /\ key \notin DOMAIN ledger /\ amount \in Int /\ Writes(key, amount)
        /\ UNCHANGED <<seen, handler, early>>
    BY <1>5, <2>1, CreditAssumption DEF GrantCredit, MoveCredit, Writes, history
  <2>3. QED
    BY <2>1, <2>2, OtherRow
<1>6. ASSUME NEW r \in Rollers, RollWrite(r) PROVE EventsInv'
  <2>1. /\ roll[r].hour \in Nat /\ roll[r].rolled \in Nat /\ roll[r].debit \in Nat
        /\ UNCHANGED <<seen, handler, early>>
    BY <1>6, <1>t DEF RollWrite, TypeOK, history
  <2>k. Ev("debit", roll[r].hour) \in Keys /\ Ev("debit", roll[r].hour).type = "debit"
    BY <2>1 DEF Keys, Ev
  <2>2. PICK key \in Keys : key = Ev("debit", roll[r].hour) /\ key.type = "debit"
    BY <2>k
  <2>3. PICK amount \in Int : amount = roll[r].rolled - roll[r].debit
    BY <2>1
  <2>4. ledger' = ledger \/ (key \notin DOMAIN ledger /\ Writes(key, amount))
    BY <1>6, <2>2, <2>3 DEF RollWrite, Writes
  <2>5. QED
    BY <2>1, <2>2, <2>4, OtherRow, NoRow
<1>7. CASE \/ StartTurn \/ ChargeTurn \/ UsageLost
           \/ \E r \in Rollers : RollRead(r) \/ RollFails(r)
           \/ HourPasses \/ SubscriptionMoves \/ PeriodEnds \/ SyncStart \/ SyncSelect \/ SyncWrite
           \/ ExpireAllowances \/ UNCHANGED vars
  <2>1. UNCHANGED <<ledger, seen, handler, early>>
    BY <1>7 DEF StartTurn, ChargeTurn, UsageLost, RollRead, RollFails, HourPasses,
                SubscriptionMoves, PeriodEnds, SyncStart, SyncSelect, SyncWrite,
                ExpireAllowances, history, vars
  <2>2. QED
    BY <2>1, NoRow
<1>8. QED
  BY <1>1, <1>2, <1>3, <1>4, <1>5, <1>6, <1>7 DEF Next

\* Nothing was refunded and nothing is about to be.
LEMMA InitRefunds == Init => RefundsInv
<1> SUFFICES ASSUME Init PROVE RefundsInv
  OBVIOUS
<1>1. DOMAIN ledger = {} /\ \A h \in Handlers : handler[h] = NoEvent
  BY DEF Init
<1>2. RefundKeys = {} /\ Refunded = 0
  BY <1>1, TotalEmpty DEF RefundKeys, Refunded
<1>3. QED
  BY <1>1, <1>2 DEF RefundsInv, RefundsExact, RefundsApart, NoEvent

\* A refund's row is keyed by one of the running totals, which are integers, and takes its total.
LEMMA RefundRows ==
  ASSUME EventsInv, NEW k \in RefundKeys
  PROVE  k.n \in Int /\ k.n >= 1 /\ Refunded >= k.n
<1>1. TypeOK /\ LedgerRows
  BY DEF EventsInv
<1>2. k.n \in Refunds
  BY <1>1 DEF TypeOK, RefundKeys, Keys, Ev
<1>3. k.n \in Int /\ k.n >= 1 /\ k.n <= Paid /\ Paid \in Int /\ Least(k.n, Paid) = k.n
  BY <1>2, RefundLeast
<1>4. QED
  BY <1>1, <1>3 DEF LedgerRows

\* Where no refund's row is written and no handler comes to be about to take one, nothing changes.
LEMMA RefundsRest ==
  ASSUME RefundsInv, raced' = raced, RefundKeys' = RefundKeys, Refunded' = Refunded,
         DOMAIN ledger \subseteq DOMAIN ledger',
         \A g \in Handlers : \/ handler'[g] = handler[g]
                             \/ handler'[g].pc # "move"
                             \/ handler'[g].ev.type # "refund"
  PROVE  RefundsInv'
<1>1. CASE raced
  BY <1>1 DEF RefundsInv, RefundsExact, RefundsApart
<1>2. CASE ~raced
  <2>1. RefundsExact'
    BY <1>2 DEF RefundsInv, RefundsExact
  <2>2. RefundsApart'
    BY <1>2 DEF RefundsInv, RefundsApart
  <2>3. QED
    BY <2>1, <2>2 DEF RefundsInv
<1>3. QED
  BY <1>1, <1>2

\* Every step keeps RefundsInv.
LEMMA RefundsNext == EventsInv /\ RefundsInv /\ TypeOK' /\ [Next]_vars => RefundsInv'
<1> SUFFICES ASSUME EventsInv, RefundsInv, TypeOK', [Next]_vars PROVE RefundsInv'
  OBVIOUS
<1>t. /\ TypeOK /\ LedgerRows /\ handler \in [Handlers -> Delivery \cup {NoEvent}]
      /\ \A h \in Handlers : HandlerOk(h)
  BY DEF EventsInv, TypeOK
<1>i. Refunded \in Int /\ Credited \in Int
  BY <1>t, LedgerType
<1>g. ledger' = ledger => RefundKeys' = RefundKeys /\ Refunded' = Refunded
  BY DEF RefundKeys, Refunded
<1>w. ASSUME NEW key \in Keys, key.type # "refund", key \notin DOMAIN ledger, NEW amount \in Int,
             Writes(key, amount)
      PROVE  RefundKeys' = RefundKeys /\ Refunded' = Refunded /\ DOMAIN ledger \subseteq DOMAIN ledger'
  <2>0. /\ DOMAIN ledger' = DOMAIN ledger \cup {key}
        /\ Refunded' = Refunded - (IF key.type = "refund" THEN amount ELSE 0)
    BY <1>t, <1>w, RowWritten
  <2>1. DOMAIN ledger' = DOMAIN ledger \cup {key} /\ Refunded' = Refunded
    BY <1>i, <1>w, <2>0
  <2>2. QED
    BY <1>w, <2>1 DEF RefundKeys
<1>1. ASSUME NEW h \in Handlers, NEW e \in Events, ApplyStripeEvent(h, e) PROVE RefundsInv'
  <2>1. /\ ledger' = ledger /\ raced' = (raced \/ RefundUnderWay(e))
        /\ \A g \in Handlers : g # h => handler'[g] = handler[g]
        /\ handler[h].pc = "idle"
        /\ handler'[h] = [ev |-> e, pc |-> IF Moves(e, Movement(e)) THEN "move" ELSE "record",
                          key |-> Movement(e).key, amount |-> Movement(e).amount]
    BY <1>1, <1>t DEF ApplyStripeEvent
  <2>2. CASE raced'
    BY <2>2 DEF RefundsInv, RefundsExact, RefundsApart
  <2>3. CASE ~raced' /\ ~(e.type = "refund" /\ Moves(e, Movement(e)))
    <3>1. raced' = raced
      BY <1>t, <2>1, <2>3 DEF TypeOK
    <3>2. handler'[h].pc # "move" \/ handler'[h].ev.type # "refund"
      BY <2>1, <2>3
    <3>3. QED
      BY <1>g, <2>1, <3>1, <3>2, RefundsRest
  <2>4. CASE ~raced' /\ e.type = "refund" /\ Moves(e, Movement(e))
    <3>1. ~raced /\ ~RefundUnderWay(e)
      BY <2>1, <2>4
    <3>2. e.n \in Refunds /\ e \notin Payments
      BY <2>4, EventKinds DEF Payments, Ev
    <3>3. e.n \in Int /\ e.n >= 1 /\ e.n <= Paid /\ Paid \in Int /\ Least(e.n, Paid) = e.n
      BY <3>2, RefundLeast
    <3>4. Credited = Paid
      <4>1. Credited # 0
        BY <2>4, <3>2 DEF Moves, Movement
      <4>2. QED
        BY <1>t, <4>1 DEF Credited, LedgerRows
    <3>5. Movement(e).amount = -(e.n - Refunded)
      BY <2>4, <3>2, <3>3, <3>4 DEF Movement, RefundDue, Least
    <3>6. Refunded' - handler'[h].amount = e.n
      BY <1>i, <1>g, <2>1, <3>3, <3>5
    <3>7. RefundsExact'
      BY <1>g, <2>1, <3>1 DEF RefundsInv, RefundsExact
    <3>8. ASSUME NEW g \in Handlers, handler'[g].pc = "move", handler'[g].ev.type = "refund"
          PROVE  /\ handler'[g].key \in DOMAIN ledger' \/ Refunded' - handler'[g].amount = handler'[g].ev.n
                 /\ handler'[g].ev = e
      <4>1. CASE g = h
        BY <2>1, <3>6, <4>1
      <4>2. CASE g # h
        BY <1>g, <2>1, <2>4, <3>1, <3>8, <4>2 DEF RefundUnderWay, RefundsInv, RefundsApart
      <4>3. QED
        BY <4>1, <4>2
    <3>9. RefundsApart'
      BY <3>8 DEF RefundsApart
    <3>10. QED
      BY <3>7, <3>9 DEF RefundsInv
  <2>5. QED
    BY <2>2, <2>3, <2>4
<1>2. ASSUME NEW h \in Handlers, Move(h) PROVE RefundsInv'
  <2>1. PICK d \in Delivery : d = handler[h]
    BY <1>2, <1>t DEF Move, NoEvent
  <2>2. /\ d.ev \in Events /\ d.key \in Keys /\ d.amount \in Int /\ d.pc = "move"
        /\ MoveCredit(d.key, d.amount) /\ raced' = raced
        /\ \A g \in Handlers : g # h => handler'[g] = handler[g]
        /\ handler'[h].pc = "record"
    BY <1>2, <1>t, <2>1 DEF Move, Delivery, history
  <2>k. d.key = KeyOf(d.ev) /\ MoveOk(d.ev, d.amount)
    BY <1>t, <2>1, <2>2, HandlerMeans
  <2>3. CASE d.key \in DOMAIN ledger
    <3>1. ledger' = ledger
      BY <2>2, <2>3 DEF MoveCredit
    <3>2. QED
      BY <1>g, <2>2, <3>1, RefundsRest
  <2>4. CASE d.key \notin DOMAIN ledger /\ d.key.type # "refund"
    <3>1. Writes(d.key, d.amount)
      BY <2>2, <2>4 DEF MoveCredit, Writes
    <3>2. QED
      BY <1>w, <2>2, <2>4, <3>1, RefundsRest
  <2>5. CASE d.key \notin DOMAIN ledger /\ d.key.type = "refund" /\ raced
    BY <2>2, <2>5 DEF RefundsInv, RefundsExact, RefundsApart
  <2>6. CASE d.key \notin DOMAIN ledger /\ d.key.type = "refund" /\ ~raced
    <3>1. Writes(d.key, d.amount)
      BY <2>2, <2>6 DEF MoveCredit, Writes
    <3>2. d.key = d.ev /\ d.ev.type = "refund" /\ d.amount < 0
      BY <2>2, <2>6, <2>k, EventKinds DEF KeyOf, MoveOk, Ev, Payments
    <3>3. /\ DOMAIN ledger' = DOMAIN ledger \cup {d.key}
          /\ Refunded' = Refunded - d.amount
      BY <1>t, <2>2, <2>6, <3>1, RowWritten
    <3>4. Refunded - d.amount = d.ev.n
      BY <2>1, <2>2, <2>6, <3>2 DEF RefundsInv, RefundsApart
    <3>5. RefundKeys' = RefundKeys \cup {d.key}
      BY <2>6, <3>3 DEF RefundKeys
    <3>6. ASSUME NEW j \in RefundKeys' PROVE j.n <= d.key.n
      <4>1. CASE j \in RefundKeys
        BY <1>i, <2>2, <3>2, <3>4, <4>1, RefundRows
      <4>2. CASE j = d.key
        <5>1. j.n \in Refunds
          BY <2>2, <3>2, <4>2, EventKinds DEF Payments, Ev
        <5>2. QED
          BY <4>2, <5>1, RefundType
      <4>3. QED
        BY <3>5, <3>6, <4>1, <4>2
    <3>7. RefundsExact'
      BY <3>2, <3>3, <3>4, <3>5, <3>6 DEF RefundsExact
    <3>8. ASSUME NEW g \in Handlers, handler'[g].pc = "move", handler'[g].ev.type = "refund"
          PROVE  handler'[g].key \in DOMAIN ledger' /\ handler'[g].ev = d.ev
      <4>1. g # h /\ handler'[g] = handler[g]
        BY <2>2, <3>8
      <4>2. handler[g].ev = d.ev
        BY <2>1, <2>2, <2>6, <3>2, <3>8, <4>1 DEF RefundsInv, RefundsApart
      <4>3. handler[g].key = KeyOf(handler[g].ev)
        BY <1>t, <2>2, <3>8, <4>1, <4>2, HandlerMeans
      <4>4. QED
        BY <2>k, <3>3, <4>1, <4>2, <4>3
    <3>9. RefundsApart'
      BY <3>8 DEF RefundsApart
    <3>10. QED
      BY <3>7, <3>9 DEF RefundsInv
  <2>7. QED
    BY <2>3, <2>4, <2>5, <2>6
<1>3. ASSUME NEW h \in Handlers, Record(h) \/ HandlerFails(h) PROVE RefundsInv'
  <2>1. /\ ledger' = ledger /\ raced' = raced /\ handler'[h] = NoEvent
        /\ \A g \in Handlers : g # h => handler'[g] = handler[g]
    BY <1>3, <1>t DEF Record, HandlerFails, history
  <2>2. handler'[h].pc # "move"
    BY <2>1 DEF NoEvent
  <2>3. QED
    BY <1>g, <2>1, <2>2, RefundsRest
<1>5. ASSUME NEW amount \in Grants, GrantCredit(amount) PROVE RefundsInv'
  <2>0. Ev("grant", 0) \in Keys /\ Ev("grant", 0).type # "refund"
    BY DEF Keys, Ev
  <2>1. PICK key \in Keys : key = Ev("grant", 0) /\ key.type # "refund"
    BY <2>0
  <2>2. /\ key \notin DOMAIN ledger /\ amount \in Int /\ Writes(key, amount)
        /\ handler' = handler /\ raced' = raced
    BY <1>5, <2>1, CreditAssumption DEF GrantCredit, MoveCredit, Writes, history
  <2>3. QED
    BY <1>w, <2>1, <2>2, RefundsRest
<1>6. ASSUME NEW r \in Rollers, RollWrite(r) PROVE RefundsInv'
  <2>1. /\ roll[r].hour \in Nat /\ roll[r].rolled \in Nat /\ roll[r].debit \in Nat
        /\ handler' = handler /\ raced' = raced
    BY <1>6, <1>t DEF RollWrite, TypeOK, history
  <2>k. Ev("debit", roll[r].hour) \in Keys /\ Ev("debit", roll[r].hour).type # "refund"
    BY <2>1 DEF Keys, Ev
  <2>2. PICK key \in Keys : key = Ev("debit", roll[r].hour) /\ key.type # "refund"
    BY <2>k
  <2>3. PICK amount \in Int : amount = roll[r].rolled - roll[r].debit
    BY <2>1
  <2>4. ledger' = ledger \/ (key \notin DOMAIN ledger /\ Writes(key, amount))
    BY <1>6, <2>2, <2>3 DEF RollWrite, Writes
  <2>5. QED
    BY <1>g, <1>w, <2>1, <2>2, <2>4, RefundsRest
<1>7. CASE \/ StartTurn \/ ChargeTurn \/ UsageLost
           \/ \E r \in Rollers : RollRead(r) \/ RollFails(r)
           \/ HourPasses \/ SubscriptionMoves \/ PeriodEnds \/ SyncStart \/ SyncSelect \/ SyncWrite
           \/ ExpireAllowances \/ UNCHANGED vars
  <2>1. UNCHANGED <<ledger, handler, raced>>
    BY <1>7 DEF StartTurn, ChargeTurn, UsageLost, RollRead, RollFails, HourPasses,
                SubscriptionMoves, PeriodEnds, SyncStart, SyncSelect, SyncWrite,
                ExpireAllowances, history, vars
  <2>2. QED
    BY <1>g, <2>1, RefundsRest
<1>8. QED
  BY <1>1, <1>2, <1>3, <1>5, <1>6, <1>7 DEF Next

\* An event of a payment that is on record in billing_events has had its whole effect, though it is
\* put there after its movement and in another transaction, whichever deliveries of this and of
\* other events were handled at once, came in whichever order or died on the way - unless it was
\* itself taken up before what it follows from.
THEOREM RecordedHadEffectAlways == Spec => []RecordedHadEffect
<1>1. CreditInv /\ EventsInv /\ [Next]_vars => (CreditInv /\ EventsInv)'
  BY CreditNext, EventsNext DEF CreditInv
<1>2. EventsInv => RecordedHadEffect
  BY DEF EventsInv
<1>3. QED
  BY InitCredit, InitEvents, <1>1, <1>2, PTL DEF Spec

\* However refunds of a payment are delivered - again, in either order, to handlers that die between
\* the movement and the record - they take the largest running total and no more, until two of
\* them are read before either has moved.
THEOREM RefundsExactAlways == Spec => []RefundsExact
<1>1. CreditInv /\ EventsInv /\ RefundsInv /\ [Next]_vars => (CreditInv /\ EventsInv /\ RefundsInv)'
  BY CreditNext, EventsNext, RefundsNext DEF CreditInv
<1>2. RefundsInv => RefundsExact
  BY DEF RefundsInv
<1>3. QED
  BY InitCredit, InitEvents, InitRefunds, <1>1, <1>2, PTL DEF Spec
=============================================================================

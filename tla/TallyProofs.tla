----------------------------- MODULE TallyProofs -----------------------------
(***************************************************************************)
(* How a Tally total changes when one key of the function changes, is      *)
(* added with nothing, or stays: the facts the proofs of the contract's    *)
(* counters (ProducerPaySumProofs) rest on.  Each follows from the         *)
(* cardinality facts of FiniteSetTheorems; finiteness of the slot set is a *)
(* hypothesis, which the counters' invariants carry.                       *)
(***************************************************************************)
EXTENDS Tally, FiniteSetTheorems, TLAPS

(* The units of one key are f[p] many.                                     *)
LEMMA ColumnCard ==
    ASSUME NEW f, NEW p, f[p] \in Nat
    PROVE  /\ IsFiniteSet(Column(f, p))
           /\ Cardinality(Column(f, p)) = f[p]
<1>1. IsFiniteSet({p}) /\ Cardinality({p}) = 1
  BY FS_Singleton
<1>2. IsFiniteSet(1..f[p]) /\ Cardinality(1..f[p]) = f[p]
  BY FS_Interval
<1>3. IsFiniteSet({p} \X (1..f[p]))
      /\ Cardinality({p} \X (1..f[p])) = Cardinality({p}) * Cardinality(1..f[p])
  BY <1>1, <1>2, FS_Product
<1> QED BY <1>1, <1>2, <1>3 DEF Column

(* A key's units are among the slots.                                      *)
LEMMA ColumnInSlots ==
    ASSUME NEW f, NEW p \in DOMAIN f
    PROVE  Column(f, p) \subseteq Slots(f)
BY DEF Column, Slots

(* No key, no slots.                                                       *)
LEMMA TallyEmpty ==
    ASSUME NEW f, DOMAIN f = {}
    PROVE  /\ IsFiniteSet(Slots(f))
           /\ Total(f) = 0
<1>1. Slots(f) = {}
  BY DEF Slots
<1> QED BY <1>1, FS_EmptySet DEF Total

(* One key's value never exceeds the total.                                *)
LEMMA TallyBound ==
    ASSUME NEW f, NEW p \in DOMAIN f, f[p] \in Nat, IsFiniteSet(Slots(f))
    PROVE  f[p] <= Total(f)
BY ColumnCard, ColumnInSlots, FS_Subset DEF Total

(* Changing the value of one key replaces that key's units.                *)
LEMMA SlotsUpdate ==
    ASSUME NEW f, NEW g, NEW p \in DOMAIN f, DOMAIN g = DOMAIN f,
           \A q \in DOMAIN f \ {p} : g[q] = f[q]
    PROVE  Slots(g) = (Slots(f) \ Column(f, p)) \cup Column(g, p)
<1>1. ASSUME NEW x \in Slots(g) PROVE x \in (Slots(f) \ Column(f, p)) \cup Column(g, p)
  <2>1. PICK q \in DOMAIN g : x \in {q} \X (1..g[q])
    BY <1>1 DEF Slots
  <2>2. CASE q = p
    BY <2>1, <2>2 DEF Column
  <2>3. CASE q # p
    BY <2>1, <2>3 DEF Slots, Column
  <2> QED BY <2>2, <2>3
<1>2. ASSUME NEW x \in (Slots(f) \ Column(f, p)) \cup Column(g, p) PROVE x \in Slots(g)
  <2>1. CASE x \in Column(g, p)
    BY <2>1 DEF Slots, Column
  <2>2. CASE x \in Slots(f) \ Column(f, p)
    <3>1. PICK q \in DOMAIN f : x \in {q} \X (1..f[q])
      BY <2>2 DEF Slots
    <3>2. q # p
      BY <2>2, <3>1 DEF Column
    <3> QED BY <3>1, <3>2 DEF Slots
  <2> QED BY <1>2, <2>1, <2>2
<1> QED BY <1>1, <1>2

(* ... and moves the total by the change of that value.                    *)
LEMMA TallyUpdate ==
    ASSUME NEW f, NEW g, NEW p \in DOMAIN f, DOMAIN g = DOMAIN f,
           \A q \in DOMAIN f \ {p} : g[q] = f[q],
           f[p] \in Nat, g[p] \in Nat, IsFiniteSet(Slots(f))
    PROVE  /\ IsFiniteSet(Slots(g))
           /\ Total(g) = Total(f) - f[p] + g[p]
<1> DEFINE A == Slots(f)
           B == Column(f, p)
           C == Column(g, p)
<1>1. IsFiniteSet(B) /\ Cardinality(B) = f[p] /\ IsFiniteSet(C) /\ Cardinality(C) = g[p]
  BY ColumnCard
<1>2. A \cap B = B
  BY ColumnInSlots
<1>3. IsFiniteSet(A \ B) /\ Cardinality(A \ B) = Cardinality(A) - f[p]
  <2>1. IsFiniteSet(A \ B) /\ Cardinality(A \ B) = Cardinality(A) - Cardinality(A \cap B)
    BY FS_Difference
  <2> QED BY <1>1, <1>2, <2>1
<1>4. (A \ B) \cap C = {}
  BY DEF Column, Slots
<1>5. IsFiniteSet((A \ B) \cup C)
      /\ Cardinality((A \ B) \cup C) = Cardinality(A \ B) + Cardinality(C)
  <2>1. IsFiniteSet((A \ B) \cup C)
        /\ Cardinality((A \ B) \cup C)
             = Cardinality(A \ B) + Cardinality(C) - Cardinality((A \ B) \cap C)
    BY <1>1, <1>3, FS_Union
  <2>2. Cardinality((A \ B) \cap C) = 0
    BY <1>4, FS_EmptySet
  <2>3. Cardinality(A \ B) \in Nat /\ Cardinality(C) \in Nat
    BY <1>1, <1>3, FS_CardinalityType
  <2> QED BY <2>1, <2>2, <2>3
<1>6. Cardinality(A) \in Nat
  BY FS_CardinalityType
<1>7. Slots(g) = (A \ B) \cup C
  BY SlotsUpdate
<1> QED BY <1>1, <1>3, <1>5, <1>6, <1>7 DEF Total

(* A new key with value zero adds no slot.                                 *)
LEMMA SlotsExtendZero ==
    ASSUME NEW f, NEW g, NEW p, DOMAIN g = DOMAIN f \cup {p},
           \A q \in DOMAIN f \ {p} : g[q] = f[q],
           p \notin DOMAIN f, g[p] = 0
    PROVE  Slots(g) = Slots(f)
BY DEF Slots

(* A function with the same keys and values has the same slots.           *)
LEMMA SlotsSame ==
    ASSUME NEW f, NEW g, DOMAIN g = DOMAIN f, \A q \in DOMAIN f : g[q] = f[q]
    PROVE  Slots(g) = Slots(f)
BY DEF Slots

(* Adding a key adds its value to the total.                               *)
LEMMA TallyAdd ==
    ASSUME NEW f, NEW g, NEW p, p \notin DOMAIN f, DOMAIN g = DOMAIN f \cup {p},
           \A q \in DOMAIN f : g[q] = f[q],
           g[p] \in Nat, IsFiniteSet(Slots(f))
    PROVE  /\ IsFiniteSet(Slots(g))
           /\ Total(g) = Total(f) + g[p]
<1> DEFINE A == Slots(f)
           C == Column(g, p)
<1>1. Slots(g) = A \cup C
  BY DEF Slots, Column
<1>2. A \cap C = {}
  BY DEF Slots, Column
<1>3. IsFiniteSet(C) /\ Cardinality(C) = g[p]
  BY ColumnCard
<1>4. IsFiniteSet(A \cup C)
      /\ Cardinality(A \cup C) = Cardinality(A) + Cardinality(C) - Cardinality(A \cap C)
  BY <1>3, FS_Union
<1>5. Cardinality(A \cap C) = 0 /\ Cardinality(A) \in Nat
  BY <1>2, FS_EmptySet, FS_CardinalityType
<1> QED BY <1>1, <1>3, <1>4, <1>5 DEF Total

(* A restriction of a function has at most its total.                      *)
LEMMA TallySubset ==
    ASSUME NEW f, NEW g, DOMAIN f \subseteq DOMAIN g,
           \A q \in DOMAIN f : f[q] = g[q], IsFiniteSet(Slots(g))
    PROVE  /\ IsFiniteSet(Slots(f))
           /\ Total(f) <= Total(g)
<1>1. Slots(f) \subseteq Slots(g)
  BY DEF Slots
<1> QED BY <1>1, FS_Subset DEF Total

(* Every nonempty set of naturals has a least element.                      *)
LEMMA LeastNat ==
    ASSUME NEW T \in SUBSET Nat, T # {}
    PROVE  \E m \in T : \A k \in T : ~(k < m)
<1>1. \E m \in T : \A k \in T : ~(<<k, m>> \in OpToRel(<, Nat))
  BY NatLessThanWellFounded, WFMin
<1> QED BY <1>1 DEF OpToRel

(* A function on finitely many positions has finitely many slots.           *)
LEMMA TallyFinite ==
    ASSUME NEW f, NEW n \in Nat, DOMAIN f \subseteq 1..n,
           \A q \in DOMAIN f : f[q] \in Nat
    PROVE  IsFiniteSet(Slots(f))
<1> DEFINE Pre(m) == [j \in DOMAIN f \cap 1..m |-> f[j]]
           T == {m \in 0..n : ~IsFiniteSet(Slots(Pre(m)))}
<1>1. SUFFICES ASSUME T # {} PROVE FALSE
  <2>1. n \notin T
    BY <1>1
  <2>2. Slots(Pre(n)) = Slots(f)
    BY SlotsSame
  <2> QED BY <2>1, <2>2
<1>2. PICK m \in T : \A k \in T : ~(k < m)
  <2>1. T \in SUBSET Nat
    OBVIOUS
  <2> QED BY <1>1, <2>1, LeastNat
<1>3. m # 0
  <2>1. DOMAIN Pre(0) = {}
    OBVIOUS
  <2> QED BY <2>1, TallyEmpty
<1>4. IsFiniteSet(Slots(Pre(m - 1)))
  <2>1. m - 1 \in 0..n /\ m - 1 < m
    BY <1>3
  <2>2. m - 1 \notin T
    BY <1>2, <2>1
  <2> QED BY <2>1, <2>2
<1>5. CASE m \in DOMAIN f
  <2>1. IsFiniteSet(Slots(Pre(m)))
    <3>1. m \notin DOMAIN Pre(m - 1) /\ DOMAIN Pre(m) = DOMAIN Pre(m - 1) \cup {m}
      BY <1>3, <1>5
    <3>2. \A q \in DOMAIN Pre(m - 1) : Pre(m)[q] = Pre(m - 1)[q]
      OBVIOUS
    <3>3. Pre(m)[m] \in Nat
      BY <1>5
    <3> QED BY <1>4, <3>1, <3>2, <3>3, TallyAdd
  <2> QED BY <2>1, <1>2
<1>6. CASE m \notin DOMAIN f
  <2>1. Slots(Pre(m)) = Slots(Pre(m - 1))
    <3>1. DOMAIN Pre(m) = DOMAIN Pre(m - 1)
      BY <1>3, <1>6
    <3> QED BY <3>1, SlotsSame
  <2> QED BY <1>2, <1>4, <2>1
<1> QED BY <1>5, <1>6
====

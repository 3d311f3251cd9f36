------------------------ MODULE PaymentPerVoteProofs ------------------------
(***************************************************************************)
(* Proof that the scan of payment_per_vote (producer_pay.cpp lines 53-94)  *)
(* returns the reference projection RefPayment, for every index, owner,    *)
(* bucket and floor.                                                       *)
(*                                                                         *)
(* The loop invariant says what the scan has established when it reaches  *)
(* position itr: total is the running total of the counted producers      *)
(* before itr, all of them are eligible, and to_be_payed says whether the  *)
(* owner is among them.  When the scan stops, the producers before itr are *)
(* exactly the eligible ones: past a cutoff or a producer without votes    *)
(* no producer is eligible, because votes only fall and running totals    *)
(* only grow along the index (SortedVotes, TallySubset).                   *)
(***************************************************************************)
EXTENDS PaymentPerVote, TallyProofs, TLAPS

(* The counted producers before or at position i.                          *)
Before(i) == {j \in Counted : j <= i}

TypeInv ==
    /\ idx \in Indexes
    /\ owner \in Producers
    /\ bucket \in Buckets
    /\ itr \in Nat
    /\ total \in Nat
    /\ toBePayed \in BOOLEAN
    /\ pc \in {"scan", "pay", "done"}

(* What the scan has established when it stands at position itr.           *)
ScanInv ==
    pc = "scan" =>
        /\ itr \in 1..(Len(idx) + 1)
        /\ total = RunningVotes(itr - 1)
        /\ Before(itr - 1) \subseteq Eligible
        /\ toBePayed = (\E j \in Before(itr - 1) : idx[j].owner = owner)
        /\ payment = 0

(* When the scan has stopped, it has counted exactly the eligible ones.    *)
PayInv ==
    pc = "pay" =>
        /\ bucket >= MinDailyAmount
        /\ total = EligibleVotes
        /\ toBePayed = (\E j \in Eligible : idx[j].owner = owner)

PayIInv == TypeInv /\ ScanInv /\ PayInv /\ PaymentCorrect

-----------------------------------------------------------------------------
(* A product of naturals is a natural.                                     *)
LEMMA ProductNat ==
    ASSUME NEW a \in Nat, NEW b \in Nat
    PROVE  a * b \in Nat
OBVIOUS

(* Lemmas about the index.                                                 *)

(* An index is a sequence of rows over 1..Len, one per producer.           *)
LEMMA IndexShape ==
    ASSUME NEW t \in Indexes
    PROVE  /\ Len(t) \in Nat
           /\ DOMAIN t = 1..Len(t)
           /\ \A m \in DOMAIN t : t[m] \in Row /\ t[m].total_votes \in Nat
<1>1. Cardinality(Producers) \in Nat
  BY PaymentAssumption, FS_CardinalityType
<1>2. t \in [1..Cardinality(Producers) -> Row]
  BY DEF Indexes
<1>3. t \in Seq(Row)
  BY <1>1, <1>2
<1>4. Len(t) = Cardinality(Producers)
  BY <1>1, <1>2, <1>3
<1>5. \A m \in DOMAIN t : t[m].total_votes \in Nat
  BY <1>2, PaymentAssumption DEF Row
<1> QED BY <1>1, <1>2, <1>4, <1>5

(* Votes never rise along the index: the index order is checked only for   *)
(* neighbours, and carries over to any two positions.                      *)
LEMMA SortedVotes ==
    ASSUME NEW t \in Indexes, NEW i \in 1..Len(t), NEW k \in 1..Len(t), i <= k
    PROVE  t[k].total_votes <= t[i].total_votes
<1> DEFINE V(m) == t[m].total_votes
           T == {m \in i..Len(t) : V(m) > V(i)}
<1>1. Len(t) \in Nat /\ DOMAIN t = 1..Len(t) /\ \A m \in 1..Len(t) : V(m) \in Nat
  BY IndexShape
<1>2. \A m \in 1..(Len(t) - 1) : V(m) >= V(m + 1)
  BY DEF Indexes
<1>3. SUFFICES ASSUME T # {} PROVE FALSE
  BY <1>1
<1>4. PICK m \in T : \A j \in T : ~(j < m)
  <2>1. T \in SUBSET Nat
    BY <1>1
  <2> QED BY <1>3, <2>1, LeastNat
<1>5. m # i
  BY <1>1
<1>6. V(m - 1) <= V(i)
  <2>1. m - 1 \in i..Len(t) /\ m - 1 < m
    BY <1>1, <1>5
  <2>2. m - 1 \notin T
    BY <1>4, <2>1
  <2> QED BY <1>1, <2>1, <2>2
<1>7. V(m - 1) >= V(m)
  <2>1. m - 1 \in 1..(Len(t) - 1) /\ m - 1 + 1 = m
    BY <1>1, <1>5
  <2> QED BY <1>2, <2>1
<1> QED BY <1>1, <1>6, <1>7

(* The votes of any set of positions have a finite tally.                  *)
LEMMA VotesFinite ==
    ASSUME idx \in Indexes, NEW S \in SUBSET DOMAIN idx
    PROVE  /\ IsFiniteSet(Slots(VotesOn(S)))
           /\ Total(VotesOn(S)) \in Nat
<1>1. Len(idx) \in Nat /\ DOMAIN idx = 1..Len(idx)
      /\ \A m \in DOMAIN idx : idx[m].total_votes \in Nat
  BY IndexShape
<1>2. DOMAIN VotesOn(S) \subseteq 1..Len(idx)
      /\ \A q \in DOMAIN VotesOn(S) : VotesOn(S)[q] \in Nat
  BY <1>1 DEF VotesOn
<1>3. IsFiniteSet(Slots(VotesOn(S)))
  BY <1>1, <1>2, TallyFinite
<1> QED BY <1>3, FS_CardinalityType DEF Total

-----------------------------------------------------------------------------
(* Lemmas about the running totals.                                        *)

(* A counted position adds its votes to the running total.                 *)
LEMMA RunningStep ==
    ASSUME idx \in Indexes, NEW i \in 1..Len(idx), i \in Counted
    PROVE  /\ Before(i) = Before(i - 1) \cup {i}
           /\ RunningVotes(i) = RunningVotes(i - 1) + idx[i].total_votes
<1>1. Len(idx) \in Nat /\ DOMAIN idx = 1..Len(idx)
      /\ \A m \in DOMAIN idx : idx[m].total_votes \in Nat
  BY IndexShape
<1>2. Before(i) = Before(i - 1) \cup {i} /\ i \notin Before(i - 1)
  BY <1>1 DEF Before, Counted
<1>3. IsFiniteSet(Slots(VotesOn(Before(i - 1))))
  <2>1. Before(i - 1) \in SUBSET DOMAIN idx
    BY DEF Before, Counted
  <2> QED BY <2>1, VotesFinite
<1>4. /\ DOMAIN VotesOn(Before(i)) = DOMAIN VotesOn(Before(i - 1)) \cup {i}
      /\ i \notin DOMAIN VotesOn(Before(i - 1))
      /\ \A q \in DOMAIN VotesOn(Before(i - 1)) :
             VotesOn(Before(i))[q] = VotesOn(Before(i - 1))[q]
      /\ VotesOn(Before(i))[i] = idx[i].total_votes
      /\ idx[i].total_votes \in Nat
  BY <1>1, <1>2 DEF VotesOn
<1>5. Total(VotesOn(Before(i))) = Total(VotesOn(Before(i - 1))) + idx[i].total_votes
  BY <1>3, <1>4, TallyAdd
<1> QED BY <1>2, <1>5 DEF RunningVotes, Before

(* Running totals only grow along the index.                               *)
LEMMA RunningMono ==
    ASSUME idx \in Indexes, NEW i \in Int, NEW k \in Int, i <= k
    PROVE  RunningVotes(i) <= RunningVotes(k)
<1>1. Before(k) \in SUBSET DOMAIN idx
  BY DEF Before, Counted
<1>2. IsFiniteSet(Slots(VotesOn(Before(k))))
  BY <1>1, VotesFinite
<1>3. /\ DOMAIN VotesOn(Before(i)) \subseteq DOMAIN VotesOn(Before(k))
      /\ \A q \in DOMAIN VotesOn(Before(i)) :
             VotesOn(Before(i))[q] = VotesOn(Before(k))[q]
  BY IndexShape DEF VotesOn, Before, Counted
<1> QED BY <1>2, <1>3, TallySubset DEF RunningVotes, Before

(* Past a counted producer whose running share is under the floor, no      *)
(* producer is eligible: its votes are no higher and its running total no *)
(* lower.                                                                  *)
LEMMA CutoffFinal ==
    ASSUME idx \in Indexes, bucket \in Nat, NEW i \in 1..Len(idx), i \in Counted,
           idx[i].total_votes * bucket < MinDailyAmount * RunningVotes(i)
    PROVE  \A k \in Eligible : k < i
<1> SUFFICES ASSUME NEW k \in Eligible, k >= i PROVE FALSE
  BY IndexShape DEF Eligible, Counted
<1>1. Len(idx) \in Nat /\ DOMAIN idx = 1..Len(idx)
      /\ \A m \in DOMAIN idx : idx[m].total_votes \in Nat
  BY IndexShape
<1>2. k \in 1..Len(idx)
  BY <1>1 DEF Eligible, Counted
<1>3. idx[k].total_votes <= idx[i].total_votes
  BY <1>2, SortedVotes
<1>4. RunningVotes(i) <= RunningVotes(k)
  BY <1>2, RunningMono
<1>5. RunningVotes(i) \in Nat /\ RunningVotes(k) \in Nat
  <2>1. Before(i) \in SUBSET DOMAIN idx /\ Before(k) \in SUBSET DOMAIN idx
    BY DEF Before, Counted
  <2> QED BY <2>1, VotesFinite DEF RunningVotes, Before
<1>6. idx[k].total_votes * bucket <= idx[i].total_votes * bucket
  BY <1>1, <1>2, <1>3
<1>7. MinDailyAmount * RunningVotes(i) <= MinDailyAmount * RunningVotes(k)
  BY <1>4, <1>5, PaymentAssumption
<1>8. idx[k].total_votes * bucket >= MinDailyAmount * RunningVotes(k)
  BY DEF Eligible
<1>9. /\ idx[k].total_votes * bucket \in Int
      /\ idx[i].total_votes * bucket \in Int
      /\ MinDailyAmount * RunningVotes(i) \in Int
      /\ MinDailyAmount * RunningVotes(k) \in Int
  <2>1. idx[k].total_votes \in Nat /\ idx[i].total_votes \in Nat
    BY <1>1, <1>2
  <2>2. MinDailyAmount \in Nat
    BY PaymentAssumption
  <2>3. idx[k].total_votes * bucket \in Nat
    BY <2>1, ProductNat
  <2>4. idx[i].total_votes * bucket \in Nat
    BY <2>1, ProductNat
  <2>5. MinDailyAmount * RunningVotes(i) \in Nat
    BY <2>2, <1>5, ProductNat
  <2>6. MinDailyAmount * RunningVotes(k) \in Nat
    BY <2>2, <1>5, ProductNat
  <2> QED BY <2>3, <2>4, <2>5, <2>6
<1> QED BY <1>6, <1>7, <1>8, <1>9

(* From a producer without votes on, no producer is counted.               *)
LEMMA NoVotesFinal ==
    ASSUME idx \in Indexes, NEW i \in 1..Len(idx), ~(idx[i].total_votes > 0)
    PROVE  \A k \in Counted : k < i
<1> SUFFICES ASSUME NEW k \in Counted, k >= i PROVE FALSE
  BY IndexShape DEF Counted
<1>1. Len(idx) \in Nat /\ DOMAIN idx = 1..Len(idx)
      /\ \A m \in DOMAIN idx : idx[m].total_votes \in Nat
  BY IndexShape
<1>2. k \in 1..Len(idx)
  BY <1>1 DEF Counted
<1>3. idx[k].total_votes <= idx[i].total_votes
  BY <1>2, SortedVotes
<1> QED BY <1>1, <1>2, <1>3 DEF Counted

-----------------------------------------------------------------------------
(* The inductive invariant.                                                *)

(* The query's inputs never change, and with them the reference.           *)
LEMMA InputsKept ==
    ASSUME idx' = idx, owner' = owner, bucket' = bucket
    PROVE  /\ ScanInv' =
                (pc' = "scan" =>
                    /\ itr' \in 1..(Len(idx) + 1)
                    /\ total' = RunningVotes(itr' - 1)
                    /\ Before(itr' - 1) \subseteq Eligible
                    /\ toBePayed' = (\E j \in Before(itr' - 1) : idx[j].owner = owner)
                    /\ payment' = 0)
           /\ PayInv' =
                (pc' = "pay" =>
                    /\ bucket >= MinDailyAmount
                    /\ total' = EligibleVotes
                    /\ toBePayed' = (\E j \in Eligible : idx[j].owner = owner))
           /\ PaymentCorrect' = (pc' = "done" => payment' = RefPayment)
BY DEF ScanInv, PayInv, PaymentCorrect, RefPayment, OwnersVotes, EligibleVotes,
       Eligible, RunningVotes, VotesOn, Before, Counted

(* When the scan stops with no eligible producer at or past itr, it has    *)
(* counted exactly the eligible ones.                                      *)
LEMMA StopExact ==
    ASSUME TypeInv, ScanInv, pc = "scan", \A k \in Eligible : k < itr
    PROVE  /\ total = EligibleVotes
           /\ toBePayed = (\E j \in Eligible : idx[j].owner = owner)
<1>1. Eligible = Before(itr - 1)
  <2>1. DOMAIN idx \subseteq Nat
    BY IndexShape DEF TypeInv
  <2> QED BY <2>1 DEF ScanInv, TypeInv, Eligible, Before, Counted
<1> QED BY <1>1 DEF ScanInv, RunningVotes, EligibleVotes, Before

(* Init establishes the invariant: the scan starts at the first position  *)
(* with nothing counted.                                                  *)
LEMMA InitPayIInv == Init => PayIInv
<1> SUFFICES ASSUME Init PROVE PayIInv
  OBVIOUS
<1>1. TypeInv
  <2>1. idx \in Indexes /\ owner \in Producers /\ bucket \in Buckets
    BY DEF Init
  <2>2. itr \in Nat /\ total \in Nat
    BY DEF Init
  <2>3. toBePayed \in BOOLEAN /\ pc \in {"scan", "pay", "done"}
    BY DEF Init
  <2> QED BY <2>1, <2>2, <2>3 DEF TypeInv
<1>2. Before(0) = {}
  BY IndexShape DEF Init, Before, Counted
<1>3. RunningVotes(0) = 0
  <2>1. DOMAIN VotesOn(Before(0)) = {}
    BY <1>2 DEF VotesOn
  <2> QED BY <2>1, TallyEmpty DEF RunningVotes, Before
<1>4. 1 \in 1..(Len(idx) + 1)
  BY IndexShape DEF Init
<1>5. ScanInv
  <2>1. itr - 1 = 0 /\ total = 0 /\ toBePayed = FALSE /\ payment = 0
    BY DEF Init
  <2>2. Before(itr - 1) \subseteq Eligible
    BY <1>2, <2>1
  <2>3. toBePayed = (\E j \in Before(itr - 1) : idx[j].owner = owner)
    BY <1>2, <2>1
  <2>4. total = RunningVotes(itr - 1)
    BY <1>3, <2>1
  <2> QED BY <1>4, <2>1, <2>2, <2>3, <2>4 DEF Init, ScanInv
<1> QED BY <1>1, <1>5 DEF Init, PayIInv, PayInv, PaymentCorrect

(* Every step keeps the invariant.                                         *)
LEMMA NextPayIInv == PayIInv /\ [Next]_vars => PayIInv'
<1> SUFFICES ASSUME PayIInv, [Next]_vars PROVE PayIInv'
  OBVIOUS
<1>0. /\ TypeInv /\ ScanInv /\ PayInv /\ PaymentCorrect
      /\ Len(idx) \in Nat /\ DOMAIN idx = 1..Len(idx)
      /\ \A m \in DOMAIN idx : idx[m].total_votes \in Nat
      /\ bucket \in Nat
  BY IndexShape, PaymentAssumption DEF PayIInv, TypeInv
<1>8. Eligible \subseteq Counted /\ Counted \subseteq DOMAIN idx /\ itr \in Nat
      /\ idx \in Indexes
  BY <1>0 DEF Eligible, Counted, TypeInv
<1>1. CASE EarlyReturn
  <2>1. idx' = idx /\ owner' = owner /\ bucket' = bucket
    BY <1>1 DEF EarlyReturn
  <2>2. TypeInv'
    BY <1>0, <1>1 DEF EarlyReturn, TypeInv
  <2>3. payment' = RefPayment
    <3>1. payment' = 0
      BY <1>0, <1>1 DEF EarlyReturn, ScanInv
    <3>2. ~(bucket >= MinDailyAmount)
      BY <1>0, <1>1, PaymentAssumption DEF EarlyReturn
    <3> QED BY <3>1, <3>2 DEF RefPayment
  <2> QED BY <1>1, <2>1, <2>2, <2>3, InputsKept DEF EarlyReturn, PayIInv
<1>2. CASE ScanExhausted
  <2>1. idx' = idx /\ owner' = owner /\ bucket' = bucket
    BY <1>2 DEF ScanExhausted
  <2>2. TypeInv'
    BY <1>0, <1>2 DEF ScanExhausted, TypeInv
  <2>3. \A k \in Eligible : k < itr
    BY <1>0, <1>2, <1>8 DEF ScanExhausted
  <2>4. total = EligibleVotes /\ toBePayed = (\E j \in Eligible : idx[j].owner = owner)
    BY <1>0, <1>2, <2>3, StopExact DEF ScanExhausted
  <2> QED BY <1>2, <2>1, <2>2, <2>4, InputsKept DEF ScanExhausted, PayIInv
<1>3. CASE ScanNoVotes
  <2>1. idx' = idx /\ owner' = owner /\ bucket' = bucket
    BY <1>3 DEF ScanNoVotes
  <2>2. TypeInv'
    BY <1>0, <1>3 DEF ScanNoVotes, TypeInv
  <2>3. \A k \in Eligible : k < itr
    <3>1. itr \in 1..Len(idx)
      BY <1>0, <1>3 DEF ScanNoVotes, ScanInv
    <3>2. \A k \in Counted : k < itr
      BY <1>3, <1>8, <3>1, NoVotesFinal DEF ScanNoVotes
    <3> QED BY <1>8, <3>2
  <2>4. total = EligibleVotes /\ toBePayed = (\E j \in Eligible : idx[j].owner = owner)
    BY <1>0, <1>3, <2>3, StopExact DEF ScanNoVotes
  <2> QED BY <1>3, <2>1, <2>2, <2>4, InputsKept DEF ScanNoVotes, PayIInv
<1>4. CASE ScanSkip
  <2>1. idx' = idx /\ owner' = owner /\ bucket' = bucket
    BY <1>4 DEF ScanSkip
  <2>2. TypeInv'
    BY <1>0, <1>4 DEF ScanSkip, TypeInv
  <2>3. itr \in 1..Len(idx) /\ itr' - 1 = itr /\ itr' \in 1..(Len(idx) + 1)
    BY <1>0, <1>4 DEF ScanSkip, ScanInv
  <2>4. Before(itr) = Before(itr - 1)
    BY <1>0, <1>4, <2>3 DEF ScanSkip, Before, Counted
  <2>5. RunningVotes(itr) = RunningVotes(itr - 1)
    BY <2>4 DEF RunningVotes, Before
  <2> QED BY <1>0, <1>4, <2>1, <2>2, <2>3, <2>4, <2>5, InputsKept
          DEF ScanSkip, PayIInv, ScanInv
<1>5. CASE ScanCount
  <2> DEFINE v == idx[itr].total_votes
             own == idx[itr].owner = owner
  <2>1. idx' = idx /\ owner' = owner /\ bucket' = bucket /\ payment' = payment
    BY <1>5 DEF ScanCount
  <2>2. /\ pc = "scan" /\ bucket >= MinDailyAmount
        /\ itr \in 1..Len(idx) /\ itr \in Counted
        /\ v \in Nat
    BY <1>0, <1>5 DEF ScanCount, ScanInv, Counted
  <2>3. Before(itr) = Before(itr - 1) \cup {itr}
        /\ RunningVotes(itr) = total + v
    BY <1>0, <2>2, RunningStep DEF ScanInv, TypeInv
  <2>4. CASE v * bucket < MinDailyAmount * (total + v)
    <3>1. /\ toBePayed' = (toBePayed /\ ~own) /\ total' = total
          /\ pc' = "pay" /\ itr' = itr
      <4>1. toBePayed' = (toBePayed /\ ~own)
        BY <1>5, <2>4 DEF ScanCount
      <4>2. total' = total
        BY <1>0, <2>2, <1>5, <2>4 DEF ScanCount, TypeInv
      <4>3. pc' = "pay" /\ itr' = itr
        BY <1>5, <2>4 DEF ScanCount
      <4> QED BY <4>1, <4>2, <4>3
    <3>2. TypeInv'
      BY <1>0, <3>1, <2>1, <2>2 DEF TypeInv
    <3>3. \A k \in Eligible : k < itr
      <4>1. idx[itr].total_votes * bucket < MinDailyAmount * RunningVotes(itr)
        BY <2>3, <2>4
      <4> QED BY <1>0, <1>8, <2>2, <4>1, CutoffFinal
    <3>4. total = EligibleVotes /\ toBePayed = (\E j \in Eligible : idx[j].owner = owner)
      BY <1>0, <2>2, <3>3, StopExact
    <3>5. own => ~toBePayed
      <4>1. \A j \in Before(itr - 1) : j \in DOMAIN idx /\ j # itr
        BY <1>0, <2>2 DEF Before, Counted
      <4>2. \A j \in Before(itr - 1) : idx[j].owner # idx[itr].owner
        BY <1>0, <2>2, <4>1 DEF TypeInv, Indexes
      <4> QED BY <1>0, <2>2, <4>2 DEF ScanInv
    <3>6. toBePayed' = toBePayed /\ total' = total
      BY <1>0, <2>2, <3>1, <3>5 DEF TypeInv
    <3> QED BY <2>1, <2>2, <3>1, <3>2, <3>4, <3>6, InputsKept DEF PayIInv
  <2>5. CASE ~(v * bucket < MinDailyAmount * (total + v))
    <3>1. /\ toBePayed' = (toBePayed \/ own) /\ total' = total + v
          /\ pc' = "scan" /\ itr' = itr + 1
      BY <1>5, <2>5, Zenon DEF ScanCount
    <3>2. TypeInv'
      BY <1>0, <3>1, <2>1, <2>2 DEF TypeInv
    <3>3. itr \in Eligible
      <4>1. v * bucket \in Nat /\ MinDailyAmount * (total + v) \in Nat
        <5>1. total + v \in Nat /\ MinDailyAmount \in Nat
          BY <1>0, <2>2, PaymentAssumption DEF TypeInv
        <5> QED BY <1>0, <2>2, <5>1, ProductNat
      <4>2. v * bucket >= MinDailyAmount * RunningVotes(itr)
        BY <2>3, <2>5, <4>1
      <4> QED BY <2>2, <4>2 DEF Eligible
    <3>4. itr' - 1 = itr /\ itr' \in 1..(Len(idx) + 1)
      BY <1>0, <2>2, <3>1
    <3>5. Before(itr) \subseteq Eligible
      BY <1>0, <2>2, <2>3, <3>3 DEF ScanInv
    <3>6. toBePayed' = (\E j \in Before(itr) : idx[j].owner = owner)
      BY <1>0, <2>2, <2>3, <3>1 DEF ScanInv
    <3>7. payment' = 0
      BY <1>0, <2>1, <2>2 DEF ScanInv
    <3>8. total' = RunningVotes(itr' - 1)
      BY <2>3, <3>1, <3>4
    <3>9. ScanInv'
      BY <2>1, <3>4, <3>5, <3>6, <3>7, <3>8, InputsKept
    <3>10. PayInv' /\ PaymentCorrect'
      BY <2>1, <3>1, InputsKept
    <3> QED BY <3>2, <3>9, <3>10 DEF PayIInv
  <2> QED BY <2>4, <2>5
<1>6. CASE Pay
  <2>1. idx' = idx /\ owner' = owner /\ bucket' = bucket
    BY <1>6 DEF Pay
  <2>2. TypeInv'
    BY <1>0, <1>6 DEF Pay, TypeInv
  <2>3. payment' = RefPayment
    BY <1>0, <1>6 DEF Pay, PayInv, RefPayment
  <2> QED BY <1>6, <2>1, <2>2, <2>3, InputsKept DEF Pay, PayIInv
<1>7. CASE UNCHANGED vars
  <2>1. idx' = idx /\ owner' = owner /\ bucket' = bucket
    BY <1>7 DEF vars
  <2>2. TypeInv'
    BY <1>0, <1>7 DEF vars, TypeInv
  <2> QED BY <1>0, <1>7, <2>1, <2>2, InputsKept
          DEF vars, PayIInv, ScanInv, PayInv, PaymentCorrect
<1> QED BY <1>1, <1>2, <1>3, <1>4, <1>5, <1>6, <1>7 DEF Next

(* payment_per_vote returns the reference projection for every index of    *)
(* producers, owner, bucket and floor: the scan that breaks at the first   *)
(* active producer under the floor (producer_pay.cpp lines 74-84) pays     *)
(* exactly the producers whose running share reaches it.                   *)
THEOREM PaymentCorrectSafe == Spec => []PaymentCorrect
<1>1. Init => PayIInv
  BY InitPayIInv
<1>2. PayIInv /\ [Next]_vars => PayIInv'
  BY NextPayIInv
<1>3. PayIInv => PaymentCorrect
  BY DEF PayIInv
<1> QED BY <1>1, <1>2, <1>3, PTL DEF Spec
====

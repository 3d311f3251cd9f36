------------------------ MODULE ProducerPaySumProofs ------------------------
(***************************************************************************)
(* Proofs of the producer-table invariants of ProducerPay: the global      *)
(* total_unpaid_blocks is the sum of the rows' unpaid_blocks, the buckets  *)
(* never go negative, and so (with BucketsBackedSafe) every token the      *)
(* buckets hold is held by the system account.                             *)
(*                                                                         *)
(* None of them is inductive alone.  A claim pays at most the bucket only  *)
(* if the claimant's unpaid_blocks are within total_unpaid_blocks and its  *)
(* total_votes within total_producer_vote_weight; both follow from the     *)
(* totals being the sums of the rows, which voteproducer and onblock keep  *)
(* by moving a total by exactly the change of one row.  Sums are counted   *)
(* as in Tally, so each step is one application of TallyUpdate.            *)
(***************************************************************************)
EXTENDS ProducerPayProofs, TallyProofs

(* Each registered producer's total_votes.                                 *)
VotesOf == [q \in DOMAIN producers |-> producers[q].total_votes]

(* The global vote weight is the sum of the rows' votes (voteproducer      *)
(* moves both by the same delta).                                          *)
VoteWeightConsistent == gstate.total_producer_vote_weight = Total(VotesOf)

SumIInv ==
    /\ TypeOK
    /\ IsFiniteSet(Slots(UnpaidBlocks))
    /\ IsFiniteSet(Slots(VotesOf))
    /\ UnpaidBlocksConsistent
    /\ VoteWeightConsistent
    /\ BucketsNonNegative

-----------------------------------------------------------------------------
(* Lemmas.                                                                 *)

(* A share of a by a fraction b/c at most one is at most a.                *)
LEMMA QuotientBelow ==
    ASSUME NEW a \in Nat, NEW b \in Nat, NEW c \in Nat \ {0}, b <= c
    PROVE  (a * b) \div c \in 0..a
<1>1. a * b <= a * c /\ a * b \in Nat
  OBVIOUS
<1>2. (a * c) \div c = a
  OBVIOUS
<1>3. (a * b) \div c <= (a * c) \div c
  BY <1>1
<1> QED BY <1>2, <1>3, DivNat

(* Out of a nonnegative bucket, a registered producer's block or vote      *)
(* share is at most the bucket.                                            *)
LEMMA PayBelow ==
    ASSUME SumIInv, NEW owner \in DOMAIN producers, NEW b \in Nat
    PROVE  /\ PerBlockPay(producers[owner], b) \in 0..b
           /\ PerVotePay(producers[owner], b) \in 0..b
<1> DEFINE prod == producers[owner]
<1>1. prod \in ProducerInfo
  BY DEF SumIInv, TypeOK
<1>2. prod.unpaid_blocks <= gstate.total_unpaid_blocks
  <2>1. UnpaidBlocks[owner] = prod.unpaid_blocks /\ prod.unpaid_blocks \in Nat
    BY <1>1 DEF UnpaidBlocks, ProducerInfo
  <2> QED BY <2>1, TallyBound DEF SumIInv, UnpaidBlocksConsistent, UnpaidBlocks
<1>3. prod.total_votes <= gstate.total_producer_vote_weight
  <2>1. VotesOf[owner] = prod.total_votes /\ prod.total_votes \in Nat
    BY <1>1 DEF VotesOf, ProducerInfo
  <2> QED BY <2>1, TallyBound DEF SumIInv, VoteWeightConsistent, VotesOf
<1>4. PerBlockPay(prod, b) \in 0..b
  <2>1. CASE gstate.total_unpaid_blocks > 0
    <3>1. gstate.total_unpaid_blocks \in Nat \ {0} /\ prod.unpaid_blocks \in Nat
      BY <2>1 DEF SumIInv, TypeOK, GlobalState, ProducerInfo
    <3> QED BY <1>2, <2>1, <3>1, QuotientBelow DEF PerBlockPay
  <2>2. CASE ~(gstate.total_unpaid_blocks > 0)
    BY <2>2 DEF PerBlockPay
  <2> QED BY <2>1, <2>2
<1>5. PerVotePay(prod, b) \in 0..b
  <2> DEFINE pay == IF gstate.total_producer_vote_weight > 0
                    THEN (b * prod.total_votes) \div gstate.total_producer_vote_weight
                    ELSE 0
  <2>1. pay \in 0..b
    <3>1. CASE gstate.total_producer_vote_weight > 0
      <4>1. gstate.total_producer_vote_weight \in Nat \ {0} /\ prod.total_votes \in Nat
        BY <3>1 DEF SumIInv, TypeOK, GlobalState, ProducerInfo
      <4> QED BY <1>3, <3>1, <4>1, QuotientBelow
    <3>2. CASE ~(gstate.total_producer_vote_weight > 0)
      BY <3>2
    <3> QED BY <3>1, <3>2
  <2> QED BY <2>1 DEF PerVotePay
<1> QED BY <1>4, <1>5

-----------------------------------------------------------------------------
(* The invariant SumIInv.                                                  *)

LEMMA InitSumIInv == Init => SumIInv
<1> SUFFICES ASSUME Init PROVE SumIInv
  OBVIOUS
<1>1. DOMAIN UnpaidBlocks = {} /\ DOMAIN VotesOf = {}
  BY DEF Init, UnpaidBlocks, VotesOf
<1>2. /\ IsFiniteSet(Slots(UnpaidBlocks)) /\ Total(UnpaidBlocks) = 0
      /\ IsFiniteSet(Slots(VotesOf)) /\ Total(VotesOf) = 0
  BY <1>1, TallyEmpty
<1> QED BY <1>2, InitTypeOK DEF Init, SumIInv, UnpaidBlocksConsistent,
                               VoteWeightConsistent, BucketsNonNegative

(* A step that leaves every row's unpaid_blocks and total_votes, and the   *)
(* two totals and the buckets, keeps the invariant.                        *)
LEMMA RowsKept ==
    ASSUME SumIInv, TypeOK',
           DOMAIN producers' = DOMAIN producers,
           \A q \in DOMAIN producers :
              /\ producers'[q].unpaid_blocks = producers[q].unpaid_blocks
              /\ producers'[q].total_votes = producers[q].total_votes,
           gstate'.total_unpaid_blocks = gstate.total_unpaid_blocks,
           gstate'.total_producer_vote_weight = gstate.total_producer_vote_weight,
           gstate'.pervote_bucket = gstate.pervote_bucket,
           gstate'.perblock_bucket = gstate.perblock_bucket
    PROVE  SumIInv'
<1>1. Slots(UnpaidBlocks') = Slots(UnpaidBlocks) /\ Slots(VotesOf') = Slots(VotesOf)
  BY SlotsSame DEF UnpaidBlocks, VotesOf
<1> QED BY <1>1 DEF SumIInv, UnpaidBlocksConsistent, VoteWeightConsistent,
                   BucketsNonNegative, Total

(* A block of a registered producer adds one to its row and to the total. *)
LEMMA OnBlockSumIInv ==
    ASSUME SumIInv, NEW p \in Accounts, onblock(p)
    PROVE  SumIInv'
<1>1. TypeOK'
  BY OnBlockTypeOK DEF SumIInv
<1>2. CASE OnBlockDormant(p)
  BY <1>1, <1>2, RowsKept DEF OnBlockDormant
<1>3. CASE OnBlockActive(p)
  <2> DEFINE g1 == IF gstate.last_pervote_bucket_fill = 0
                   THEN [gstate EXCEPT !.last_pervote_bucket_fill = now']
                   ELSE gstate
             g2 == IF p \in DOMAIN producers
                   THEN [g1 EXCEPT !.total_unpaid_blocks = @ + 1]
                   ELSE g1
  <2>1. gstate' = ScheduleUpdate(g2, now')
    BY <1>3 DEF OnBlockActive
  <2>2. /\ gstate'.total_unpaid_blocks = g2.total_unpaid_blocks
        /\ gstate'.total_producer_vote_weight = gstate.total_producer_vote_weight
        /\ gstate'.pervote_bucket = gstate.pervote_bucket
        /\ gstate'.perblock_bucket = gstate.perblock_bucket
    BY <2>1 DEF ScheduleUpdate, SumIInv, TypeOK, GlobalState
  <2>3. CASE p \notin DOMAIN producers
    <3>1. producers' = producers /\ gstate'.total_unpaid_blocks = gstate.total_unpaid_blocks
      BY <1>3, <2>2, <2>3 DEF OnBlockActive
    <3> QED BY <1>1, <2>2, <3>1, RowsKept
  <2>4. CASE p \in DOMAIN producers
    <3>1. gstate'.total_unpaid_blocks = gstate.total_unpaid_blocks + 1
      BY <2>2, <2>4 DEF SumIInv, TypeOK, GlobalState
    <3>2. /\ DOMAIN UnpaidBlocks' = DOMAIN UnpaidBlocks
          /\ \A q \in DOMAIN UnpaidBlocks \ {p} : UnpaidBlocks'[q] = UnpaidBlocks[q]
          /\ UnpaidBlocks[p] \in Nat
          /\ UnpaidBlocks'[p] = UnpaidBlocks[p] + 1
      BY <1>3, <2>4 DEF OnBlockActive, UnpaidBlocks, SumIInv, TypeOK, ProducerInfo
    <3>3. IsFiniteSet(Slots(UnpaidBlocks'))
          /\ Total(UnpaidBlocks') = Total(UnpaidBlocks) + 1
      <4>1. p \in DOMAIN UnpaidBlocks /\ IsFiniteSet(Slots(UnpaidBlocks))
        BY <2>4 DEF UnpaidBlocks, SumIInv
      <4>2. IsFiniteSet(Slots(UnpaidBlocks'))
            /\ Total(UnpaidBlocks') = Total(UnpaidBlocks) - UnpaidBlocks[p] + UnpaidBlocks'[p]
        BY <3>2, <4>1, TallyUpdate
      <4>3. Total(UnpaidBlocks) \in Nat
        BY <4>1, FS_CardinalityType DEF Total
      <4> QED BY <3>2, <4>2, <4>3
    <3>4. Slots(VotesOf') = Slots(VotesOf)
      BY <1>3, <2>4, SlotsSame DEF OnBlockActive, VotesOf
    <3> QED BY <1>1, <2>2, <3>1, <3>3, <3>4
            DEF SumIInv, UnpaidBlocksConsistent, VoteWeightConsistent, BucketsNonNegative,
                Total
  <2> QED BY <2>3, <2>4
<1> QED BY <1>2, <1>3 DEF onblock

(* The environment: a new row starts with nothing unpaid and no votes, a  *)
(* vote moves the row and the weight by the same delta.                    *)
LEMMA EnvSumIInv ==
    ASSUME SumIInv,
           \/ \E p \in Producers : regproducer(p) \/ unregprod(p)
           \/ \E p \in Producers, v \in VoteLevels : voteproducer(p, v)
           \/ \E s \in StakeLevels : setstake(s)
    PROVE  SumIInv'
<1>1. TypeOK'
  BY EnvTypeOK DEF SumIInv
<1>2. CASE \E p \in Producers : regproducer(p)
  <2> PICK p \in Producers : regproducer(p)
    BY <1>2
  <2>1. CASE p \in DOMAIN producers
    BY <1>1, <2>1, RowsKept DEF regproducer
  <2>2. CASE p \notin DOMAIN producers
    <3>1. /\ Slots(UnpaidBlocks') = Slots(UnpaidBlocks)
          /\ Slots(VotesOf') = Slots(VotesOf)
      BY <2>2, SlotsExtendZero DEF regproducer, NewProducer, UnpaidBlocks, VotesOf
    <3> QED BY <3>1, <1>1 DEF regproducer, SumIInv, UnpaidBlocksConsistent,
                              VoteWeightConsistent, BucketsNonNegative, Total
  <2> QED BY <2>1, <2>2
<1>3. CASE \E p \in Producers : unregprod(p)
  BY <1>1, <1>3, RowsKept DEF unregprod
<1>4. CASE \E p \in Producers, v \in VoteLevels : voteproducer(p, v)
  <2> PICK p \in Producers, v \in VoteLevels : voteproducer(p, v)
    BY <1>4
  <2>1. p \in DOMAIN producers /\ v \in Nat
    BY ConstAssumption DEF voteproducer
  <2>2. /\ DOMAIN VotesOf' = DOMAIN VotesOf
        /\ \A q \in DOMAIN VotesOf \ {p} : VotesOf'[q] = VotesOf[q]
        /\ VotesOf[p] \in Nat
        /\ VotesOf'[p] = v
    BY <2>1 DEF voteproducer, VotesOf, SumIInv, TypeOK, ProducerInfo
  <2>3. IsFiniteSet(Slots(VotesOf')) /\ Total(VotesOf') = Total(VotesOf) - VotesOf[p] + v
    <3>1. p \in DOMAIN VotesOf /\ IsFiniteSet(Slots(VotesOf))
      BY <2>1 DEF VotesOf, SumIInv
    <3> QED BY <2>1, <2>2, <3>1, TallyUpdate
  <2>4. Slots(UnpaidBlocks') = Slots(UnpaidBlocks)
    BY <2>1, SlotsSame DEF voteproducer, UnpaidBlocks
  <2>5. gstate'.total_producer_vote_weight
          = gstate.total_producer_vote_weight - VotesOf[p] + v
    BY <2>1 DEF voteproducer, VotesOf
  <2> QED BY <1>1, <2>3, <2>4, <2>5 DEF voteproducer, SumIInv, UnpaidBlocksConsistent,
                                       VoteWeightConsistent, BucketsNonNegative, Total
<1>5. CASE \E s \in StakeLevels : setstake(s)
  BY <1>1, <1>5, RowsKept DEF setstake
<1> QED BY <1>2, <1>3, <1>4, <1>5

(* A claim takes the claimant's unpaid_blocks out of its row and out of    *)
(* the total, and pays each share out of a bucket that covers it.          *)
LEMMA ClaimSumIInv ==
    ASSUME SumIInv, NEW owner \in Producers, claimrewards(owner)
    PROVE  SumIInv'
<1> DEFINE prod     == producers[owner]
           minted   == FillTokens
           pervote  == gstate.pervote_bucket + ToPerVotePay(minted)
           perblock == gstate.perblock_bucket + ToPerBlockPay(minted)
           blockPay == PerBlockPay(prod, perblock)
           votePay  == PerVotePay(prod, pervote)
<1>1. TypeOK'
  BY ClaimTypeOK DEF SumIInv
<1>2. owner \in DOMAIN producers /\ prod \in ProducerInfo
  BY DEF claimrewards, SumIInv, TypeOK
<1>3. pervote \in Nat /\ perblock \in Nat
  <2>1. minted \in Nat
    BY FillTokensNat DEF SumIInv
  <2> QED BY <2>1, SplitConserves DEF SumIInv, BucketsNonNegative, TypeOK, GlobalState
<1>4. blockPay \in 0..perblock /\ votePay \in 0..pervote
  BY <1>2, <1>3, PayBelow
<1>5. /\ gstate'.pervote_bucket = pervote - votePay
      /\ gstate'.perblock_bucket = perblock - blockPay
      /\ gstate'.total_unpaid_blocks = gstate.total_unpaid_blocks - prod.unpaid_blocks
      /\ gstate'.total_producer_vote_weight = gstate.total_producer_vote_weight
  BY DEF claimrewards, SumIInv, TypeOK, GlobalState
<1>6. BucketsNonNegative'
  BY <1>3, <1>4, <1>5 DEF BucketsNonNegative
<1>7. /\ DOMAIN UnpaidBlocks' = DOMAIN UnpaidBlocks
      /\ \A q \in DOMAIN UnpaidBlocks \ {owner} : UnpaidBlocks'[q] = UnpaidBlocks[q]
      /\ UnpaidBlocks[owner] = prod.unpaid_blocks
      /\ prod.unpaid_blocks \in Nat
      /\ UnpaidBlocks'[owner] = 0
  BY <1>2 DEF claimrewards, UnpaidBlocks, ProducerInfo
<1>8. IsFiniteSet(Slots(UnpaidBlocks'))
      /\ Total(UnpaidBlocks') = Total(UnpaidBlocks) - prod.unpaid_blocks
  <2>1. owner \in DOMAIN UnpaidBlocks /\ IsFiniteSet(Slots(UnpaidBlocks))
    BY <1>2 DEF UnpaidBlocks, SumIInv
  <2>2. IsFiniteSet(Slots(UnpaidBlocks'))
        /\ Total(UnpaidBlocks') = Total(UnpaidBlocks) - UnpaidBlocks[owner] + UnpaidBlocks'[owner]
    BY <1>7, <2>1, TallyUpdate
  <2>3. Total(UnpaidBlocks) \in Nat
    BY <2>1, FS_CardinalityType DEF Total
  <2> QED BY <1>7, <2>2, <2>3
<1>9. Slots(VotesOf') = Slots(VotesOf)
  BY <1>2, SlotsSame DEF claimrewards, VotesOf
<1> QED BY <1>1, <1>5, <1>6, <1>8, <1>9
        DEF SumIInv, UnpaidBlocksConsistent, VoteWeightConsistent, Total

LEMMA NextSumIInv == SumIInv /\ [Next]_vars => SumIInv'
<1> SUFFICES ASSUME SumIInv, [Next]_vars PROVE SumIInv'
  OBVIOUS
<1>1. CASE \E p \in Accounts : onblock(p)
  BY <1>1, OnBlockSumIInv
<1>2. CASE \E p \in Producers : claimrewards(p)
  BY <1>2, ClaimSumIInv
<1>3. CASE UNCHANGED vars
  BY <1>3 DEF vars, SumIInv, UnpaidBlocksConsistent, VoteWeightConsistent,
              BucketsNonNegative, TypeOK, UnpaidBlocks, VotesOf, Total
<1> QED BY <1>1, <1>2, <1>3, EnvSumIInv DEF Next

-----------------------------------------------------------------------------
(* Theorems.                                                               *)

(* The global total_unpaid_blocks is always the sum of the rows'           *)
(* unpaid_blocks: onblock counts a block in both or in neither, and a      *)
(* claim subtracts the row's count read before it resets the row           *)
(* (producer_pay.cpp lines 39-41 and 145-150).                             *)
THEOREM UnpaidBlocksSafe == Spec => []UnpaidBlocksConsistent
<1>1. SumIInv => UnpaidBlocksConsistent
  BY DEF SumIInv
<1> QED BY <1>1, InitSumIInv, NextSumIInv, PTL DEF Spec

(* No claim ever takes more out of a bucket than it holds: the block share *)
(* is within perblock_bucket because the row's unpaid_blocks are within    *)
(* total_unpaid_blocks, the vote share within pervote_bucket because the   *)
(* row's votes are within the vote weight (lines 132-140).                 *)
THEOREM BucketsNonNegativeSafe == Spec => []BucketsNonNegative
<1>1. SumIInv => BucketsNonNegative
  BY DEF SumIInv
<1> QED BY <1>1, InitSumIInv, NextSumIInv, PTL DEF Spec

(* Every token the buckets hold is held by the system account, in every    *)
(* behaviour: BucketsBackedSafe with its premise discharged.               *)
THEOREM BucketsBackedAlways == Spec => []BucketsBacked
BY BucketsNonNegativeSafe, BucketsBackedSafe
====

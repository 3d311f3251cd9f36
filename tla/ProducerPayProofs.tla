------------------------- MODULE ProducerPayProofs -------------------------
(***************************************************************************)
(* Theorems about ProducerPay, for every value of its constants that       *)
(* satisfies ConstAssumption.                                              *)
(***************************************************************************)
EXTENDS ProducerPay, TLAPS

-----------------------------------------------------------------------------
(* Arithmetic facts about the fill.                                        *)

(* The floor of a quotient of naturals is a natural.                       *)
LEMMA DivNat ==
    ASSUME NEW a \in Nat, NEW b \in Nat \ {0}
    PROVE  a \div b \in Nat
OBVIOUS

(* A fill never issues a negative amount.                                  *)
LEMMA NewTokensNat ==
    ASSUME NEW s \in Nat, NEW u \in Nat
    PROVE  NewTokens(s, u) \in Nat
<1>1. RateNum * s * u \in Nat /\ RateDen * UsecsPerYear \in Nat \ {0}
  BY ConstAssumption
<1>2. QED
  BY <1>1, DivNat DEF NewTokens

(* With the type invariant, the tokens of a fill are a natural.            *)
LEMMA FillTokensNat ==
    TypeOK => FillTokens \in Nat
<1> SUFFICES ASSUME TypeOK PROVE FillTokens \in Nat
  OBVIOUS
<1>1. UsecsSinceLastFill \in Int
  BY DEF TypeOK, GlobalState, UsecsSinceLastFill
<1>2. CASE UsecsSinceLastFill > 0
  <2>1. UsecsSinceLastFill \in Nat /\ supply \in Nat
    BY <1>1, <1>2 DEF TypeOK
  <2>2. QED
    BY <1>2, <2>1, NewTokensNat DEF FillTokens
<1>3. CASE ~(UsecsSinceLastFill > 0)
  BY <1>3 DEF FillTokens
<1>4. QED
  BY <1>2, <1>3

(* The shares of a fill are integers.                                      *)
LEMMA SplitInt ==
    ASSUME NEW n \in Int
    PROVE  /\ ToProducers(n) \in Int
           /\ ToSavings(n) \in Int
           /\ ToPerBlockPay(n) \in Int
           /\ ToPerVotePay(n) \in Int
BY DEF ToProducers, ToSavings, ToPerBlockPay, ToPerVotePay

(* The two pay shares of a claim are integers, whatever the buckets hold.  *)
LEMMA PayInt ==
    ASSUME TypeOK, NEW prod \in ProducerInfo, NEW b \in Int
    PROVE  /\ PerBlockPay(prod, b) \in Int
           /\ PerVotePay(prod, b) \in Int
BY ConstAssumption DEF TypeOK, GlobalState, ProducerInfo, PerBlockPay, PerVotePay

-----------------------------------------------------------------------------
(* Type correctness.                                                       *)

LEMMA InitTypeOK == Init => TypeOK
BY ConstAssumption DEF Init, TypeOK, GlobalState, Accounts

LEMMA OnBlockTypeOK ==
    ASSUME TypeOK, NEW p \in Accounts, onblock(p)
    PROVE  TypeOK'
<1>1. now' \in Nat
  BY DEF onblock, TypeOK
<1>2. CASE OnBlockDormant(p)
  BY <1>1, <1>2 DEF onblock, OnBlockDormant, TypeOK
<1>3. CASE OnBlockActive(p)
  <2> DEFINE g1 == IF gstate.last_pervote_bucket_fill = 0
                   THEN [gstate EXCEPT !.last_pervote_bucket_fill = now']
                   ELSE gstate
             g2 == IF p \in DOMAIN producers
                   THEN [g1 EXCEPT !.total_unpaid_blocks = @ + 1]
                   ELSE g1
  <2>1. g1 \in GlobalState
    BY <1>1 DEF TypeOK, GlobalState
  <2>2. g2 \in GlobalState
    BY <2>1 DEF GlobalState
  <2>3. gstate' = ScheduleUpdate(g2, now')
    BY <1>3 DEF OnBlockActive
  <2>4. gstate' \in GlobalState
    BY <1>1, <2>2, <2>3 DEF ScheduleUpdate, GlobalState
  <2>5. /\ DOMAIN producers' \subseteq Producers
        /\ \A q \in DOMAIN producers' : producers'[q] \in ProducerInfo
    BY <1>1, <1>3 DEF OnBlockActive, TypeOK, ProducerInfo
  <2>6. QED
    BY <1>1, <2>4, <2>5 DEF onblock, TypeOK
<1>4. QED
  BY <1>2, <1>3 DEF onblock

LEMMA ClaimTypeOK ==
    ASSUME TypeOK, NEW owner \in Producers, claimrewards(owner)
    PROVE  TypeOK'
<1> DEFINE prod     == producers[owner]
           minted   == FillTokens
           pervote  == gstate.pervote_bucket + ToPerVotePay(minted)
           perblock == gstate.perblock_bucket + ToPerBlockPay(minted)
           blockPay == PerBlockPay(prod, perblock)
           votePay  == PerVotePay(prod, pervote)
           totalPay == blockPay + votePay
<1>1. owner \in DOMAIN producers /\ prod \in ProducerInfo
  BY DEF claimrewards, TypeOK
<1>2. minted \in Nat
  BY FillTokensNat
<1>3. pervote \in Int /\ perblock \in Int
  BY <1>2, SplitInt DEF TypeOK, GlobalState
<1>4. blockPay \in Int /\ votePay \in Int /\ totalPay \in Int
  BY <1>1, <1>3, PayInt
<1>5. ToSavings(minted) \in Int
  BY <1>2, SplitInt
<1>6. gstate' \in GlobalState
  <2>1. gstate' = [gstate EXCEPT
                      !.pervote_bucket  = pervote - votePay,
                      !.perblock_bucket = perblock - blockPay,
                      !.savings         = @ + ToSavings(minted),
                      !.last_pervote_bucket_fill =
                          IF UsecsSinceLastFill > 0 THEN now ELSE @,
                      !.total_unpaid_blocks = @ - prod.unpaid_blocks]
    BY DEF claimrewards
  <2>2. /\ pervote - votePay \in Int
        /\ perblock - blockPay \in Int
        /\ gstate.savings + ToSavings(minted) \in Int
        /\ (IF UsecsSinceLastFill > 0 THEN now ELSE gstate.last_pervote_bucket_fill) \in Nat
        /\ gstate.total_unpaid_blocks - prod.unpaid_blocks \in Int
    BY <1>1, <1>3, <1>4, <1>5 DEF TypeOK, GlobalState, ProducerInfo
  <2>3. QED
    BY <2>1, <2>2 DEF TypeOK, GlobalState
<1>7. /\ DOMAIN producers' \subseteq Producers
      /\ \A q \in DOMAIN producers' : producers'[q] \in ProducerInfo
  BY <1>1 DEF claimrewards, TypeOK, ProducerInfo
<1>8. supply' \in Nat
  BY <1>2 DEF claimrewards, TypeOK
<1>9. balance' \in [Accounts -> Nat]
  <2>1. owner \in Accounts /\ System \in Accounts
    BY DEF Accounts
  <2>2. CASE totalPay > 0
    <3>1. balance[System] + minted - totalPay \in Nat
      <4>1. balance[System] \in Nat
        BY <2>1 DEF TypeOK
      <4>2. balance[System] + minted >= totalPay
        BY <2>2 DEF claimrewards
      <4>3. QED
        BY <1>2, <1>4, <4>1, <4>2
    <3>2. balance[owner] + totalPay \in Nat
      BY <1>4, <2>1, <2>2 DEF TypeOK
    <3>3. QED
      BY <2>1, <2>2, <3>1, <3>2 DEF claimrewards, TypeOK
  <2>3. CASE ~(totalPay > 0)
    BY <1>2, <2>1, <2>3 DEF claimrewards, TypeOK
  <2>4. QED
    BY <2>2, <2>3
<1>10. QED
  BY <1>6, <1>7, <1>8, <1>9 DEF claimrewards, TypeOK

LEMMA EnvTypeOK ==
    ASSUME TypeOK,
           \/ \E p \in Producers : regproducer(p) \/ unregprod(p)
           \/ \E p \in Producers, v \in VoteLevels : voteproducer(p, v)
           \/ \E s \in StakeLevels : setstake(s)
    PROVE  TypeOK'
<1>1. CASE \E p \in Producers : regproducer(p)
  <2>1. PICK p \in Producers : regproducer(p)
    BY <1>1
  <2>2. NewProducer \in ProducerInfo
    BY DEF NewProducer, ProducerInfo
  <2>3. CASE p \in DOMAIN producers
    BY <2>1, <2>3 DEF regproducer, TypeOK, ProducerInfo
  <2>4. CASE p \notin DOMAIN producers
    BY <2>1, <2>2, <2>4 DEF regproducer, TypeOK
  <2>5. QED
    BY <2>3, <2>4
<1>2. CASE \E p \in Producers : unregprod(p)
  <2>1. PICK p \in Producers : unregprod(p)
    BY <1>2
  <2>2. producers[p] \in ProducerInfo /\ p \in DOMAIN producers
    BY <2>1 DEF unregprod, TypeOK
  <2>3. [producers[p] EXCEPT !.active = FALSE] \in ProducerInfo
    BY <2>2 DEF ProducerInfo
  <2>4. producers' = [producers EXCEPT ![p] = [producers[p] EXCEPT !.active = FALSE]]
    BY <2>1, <2>2 DEF unregprod
  <2>5. DOMAIN producers' = DOMAIN producers
        /\ \A q \in DOMAIN producers' : producers'[q] \in ProducerInfo
    BY <2>3, <2>4 DEF TypeOK
  <2>6. UNCHANGED <<now, gstate, supply, balance>>
    BY <2>1 DEF unregprod
  <2> QED BY <2>5, <2>6 DEF TypeOK
<1>3. CASE \E p \in Producers, v \in VoteLevels : voteproducer(p, v)
  BY <1>3, ConstAssumption DEF voteproducer, TypeOK, GlobalState, ProducerInfo
<1>4. CASE \E s \in StakeLevels : setstake(s)
  BY <1>4, ConstAssumption DEF setstake, TypeOK, GlobalState
<1>5. QED
  BY <1>1, <1>2, <1>3, <1>4

LEMMA NextTypeOK == TypeOK /\ [Next]_vars => TypeOK'
<1> SUFFICES ASSUME TypeOK, [Next]_vars PROVE TypeOK'
  OBVIOUS
<1>1. CASE \E p \in Accounts : onblock(p)
  BY <1>1, OnBlockTypeOK
<1>2. CASE \E p \in Producers : claimrewards(p)
  BY <1>2, ClaimTypeOK
<1>3. CASE UNCHANGED vars
  BY <1>3 DEF vars, TypeOK
<1>4. QED
  BY <1>1, <1>2, <1>3, EnvTypeOK DEF Next

(* Every state the contract reaches has the types the code gives its       *)
(* fields: counters and times natural, buckets integers, balances          *)
(* natural (no claim transfers more than System holds).                    *)
THEOREM TypeCorrect == Spec => []TypeOK
BY InitTypeOK, NextTypeOK, PTL DEF Spec

-----------------------------------------------------------------------------
(* Conservation between the buckets and the system account's balance.     *)

(* The split of a fill loses and creates nothing: savings take the         *)
(* remainder after the producers' fifth, the vote share the remainder      *)
(* after the block share (producer_pay.cpp lines 116-119).                 *)
LEMMA SplitConserves ==
    ASSUME NEW n \in Nat
    PROVE  /\ ToPerVotePay(n) + ToPerBlockPay(n) + ToSavings(n) = n
           /\ ToPerBlockPay(n) \in Nat
           /\ ToPerVotePay(n) \in Nat
BY DEF ToPerVotePay, ToPerBlockPay, ToSavings, ToProducers

(* Out of nonnegative buckets, neither pay share of a claim is negative:   *)
(* both are floors of nonnegative quotients, the vote share zeroed or at   *)
(* least the dust floor.                                                   *)
LEMMA PayNat ==
    ASSUME TypeOK, NEW prod \in ProducerInfo, NEW b \in Nat
    PROVE  /\ PerBlockPay(prod, b) \in Nat
           /\ PerVotePay(prod, b) \in Nat
<1>1. PerBlockPay(prod, b) \in Nat
  <2>1. CASE gstate.total_unpaid_blocks > 0
    <3>1. b * prod.unpaid_blocks \in Nat /\ gstate.total_unpaid_blocks \in Nat \ {0}
      BY <2>1 DEF TypeOK, GlobalState, ProducerInfo
    <3> QED BY <2>1, <3>1, DivNat DEF PerBlockPay
  <2>2. CASE ~(gstate.total_unpaid_blocks > 0)
    BY <2>2 DEF PerBlockPay
  <2> QED BY <2>1, <2>2
<1>2. PerVotePay(prod, b) \in Nat
  <2> DEFINE pay == IF gstate.total_producer_vote_weight > 0
                    THEN (b * prod.total_votes) \div gstate.total_producer_vote_weight
                    ELSE 0
  <2>1. pay \in Nat
    <3>1. CASE gstate.total_producer_vote_weight > 0
      <4>1. b * prod.total_votes \in Nat
            /\ gstate.total_producer_vote_weight \in Nat \ {0}
        BY <3>1 DEF TypeOK, GlobalState, ProducerInfo
      <4> QED BY <3>1, <4>1, DivNat
    <3>2. CASE ~(gstate.total_producer_vote_weight > 0)
      BY <3>2
    <3> QED BY <3>1, <3>2
  <2> QED BY <2>1, ConstAssumption DEF PerVotePay
<1> QED BY <1>1, <1>2

(* A claim adds the fill to the system account and to the three buckets,  *)
(* and takes the pay out of both.                                          *)
LEMMA ClaimBacked ==
    ASSUME TypeOK, BucketsBacked, BucketsNonNegative,
           NEW owner \in Producers, claimrewards(owner)
    PROVE  BucketsBacked'
<1> DEFINE prod     == producers[owner]
           minted   == FillTokens
           pervote  == gstate.pervote_bucket + ToPerVotePay(minted)
           perblock == gstate.perblock_bucket + ToPerBlockPay(minted)
           blockPay == PerBlockPay(prod, perblock)
           votePay  == PerVotePay(prod, pervote)
           totalPay == blockPay + votePay
<1>1. minted \in Nat /\ prod \in ProducerInfo
  BY FillTokensNat DEF claimrewards, TypeOK
<1>2. /\ ToPerVotePay(minted) + ToPerBlockPay(minted) + ToSavings(minted) = minted
      /\ pervote \in Nat /\ perblock \in Nat
  BY <1>1, SplitConserves DEF BucketsNonNegative, TypeOK, GlobalState
<1>3. blockPay \in Nat /\ votePay \in Nat
  BY <1>1, <1>2, PayNat
<1>4. /\ gstate'.pervote_bucket = pervote - votePay
      /\ gstate'.perblock_bucket = perblock - blockPay
      /\ gstate'.savings = gstate.savings + ToSavings(minted)
  BY DEF claimrewards, TypeOK, GlobalState
<1>5. balance'[System] = balance[System] + minted - totalPay
  <2>1. System \in Accounts /\ owner \in Accounts /\ owner # System
    BY ConstAssumption DEF Accounts
  <2>2. CASE totalPay > 0
    BY <2>1, <2>2 DEF claimrewards, TypeOK
  <2>3. CASE ~(totalPay > 0)
    <3>1. totalPay = 0
      BY <1>3, <2>3
    <3>2. balance'[System] = balance[System] + minted
      BY <2>1, <2>3 DEF claimrewards, TypeOK
    <3> QED BY <1>1, <2>1, <3>1, <3>2 DEF TypeOK
  <2> QED BY <2>2, <2>3
<1> QED BY <1>1, <1>2, <1>3, <1>4, <1>5, SplitInt, ConstAssumption
    DEF BucketsBacked, TypeOK, GlobalState

(* No other step touches the buckets or the system balance.                *)
LEMMA NextBacked ==
    TypeOK /\ BucketsBacked /\ BucketsNonNegative /\ [Next]_vars => BucketsBacked'
<1> SUFFICES ASSUME TypeOK, BucketsBacked, BucketsNonNegative, [Next]_vars
             PROVE  BucketsBacked'
  OBVIOUS
<1>1. ASSUME NEW p \in Accounts, onblock(p) PROVE BucketsBacked'
  <2>1. CASE OnBlockDormant(p)
    BY <1>1, <2>1 DEF onblock, OnBlockDormant, BucketsBacked
  <2>2. CASE OnBlockActive(p)
    <3> DEFINE g1 == IF gstate.last_pervote_bucket_fill = 0
                     THEN [gstate EXCEPT !.last_pervote_bucket_fill = now']
                     ELSE gstate
               g2 == IF p \in DOMAIN producers
                     THEN [g1 EXCEPT !.total_unpaid_blocks = @ + 1]
                     ELSE g1
    <3>1. /\ g2.pervote_bucket = gstate.pervote_bucket
          /\ g2.perblock_bucket = gstate.perblock_bucket
          /\ g2.savings = gstate.savings
      BY DEF TypeOK, GlobalState
    <3>2. gstate' = ScheduleUpdate(g2, now')
      BY <2>2 DEF OnBlockActive
    <3> QED BY <1>1, <3>1, <3>2 DEF onblock, ScheduleUpdate, BucketsBacked
  <2> QED BY <1>1, <2>1, <2>2 DEF onblock
<1>2. CASE \E p \in Producers : claimrewards(p)
  BY <1>2, ClaimBacked
<1>3. CASE \E p \in Producers : regproducer(p) \/ unregprod(p)
  BY <1>3 DEF regproducer, unregprod, BucketsBacked
<1>4. CASE \E p \in Producers, v \in VoteLevels : voteproducer(p, v)
  BY <1>4 DEF voteproducer, BucketsBacked, TypeOK, GlobalState
<1>5. CASE \E s \in StakeLevels : setstake(s)
  BY <1>5 DEF setstake, BucketsBacked, TypeOK, GlobalState
<1>6. CASE UNCHANGED vars
  BY <1>6 DEF vars, BucketsBacked
<1> QED BY <1>1, <1>2, <1>3, <1>4, <1>5, <1>6 DEF Next

(* Every token the reward buckets hold is held by the system account, in   *)
(* every behaviour whose buckets stay nonnegative: each fill issues to     *)
(* System exactly what the split adds to the buckets, and each claim takes *)
(* from the buckets exactly what it transfers out.  That the buckets do    *)
(* stay nonnegative rests on sums of the producer rows (each row's         *)
(* unpaid_blocks and total_votes within the global totals) and is checked  *)
(* by TLC (BucketsNonNegative).                                            *)
THEOREM BucketsBackedSafe == Spec /\ []BucketsNonNegative => []BucketsBacked
<1>1. Init => BucketsBacked
  BY ConstAssumption DEF Init, BucketsBacked, Accounts
<1>2. TypeOK /\ BucketsBacked /\ BucketsNonNegative /\ [Next]_vars => BucketsBacked'
  BY NextBacked
<1> QED BY <1>1, <1>2, TypeCorrect, PTL DEF Spec
====

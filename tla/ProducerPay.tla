---------------------------- MODULE ProducerPay ----------------------------
(***************************************************************************)
(* The block-production bookkeeping and producer reward engine of the      *)
(* eosio.system contract, src/contracts/eosio.system/producer_pay.cpp:     *)
(*                                                                         *)
(*   onblock(timestamp, producer)   run once per block by the chain        *)
(*   claimrewards(owner)            a producer's claim of its pay          *)
(*                                                                         *)
(* State is the contract's global state record _gstate, the producer table *)
(* _producers and, of the eosio.token ledger the claim calls into, the     *)
(* token supply and the account balances.  The producer table is a        *)
(* function whose domain is the set of registered producers, so that       *)
(* _producers.find / _producers.get failing is "p \notin DOMAIN producers".*)
(*                                                                         *)
(* The operations that feed this state from the rest of the system         *)
(* contract (regproducer, unregprod, voteproducer and the stake they move) *)
(* live outside src/ and are modelled from the spec (section 3) as         *)
(* environment actions.                                                    *)
(***************************************************************************)
EXTENDS Integers, Tally

CONSTANTS
    Producers,            \* accounts that may register and produce blocks
    System,               \* the eosio system account (mints, pays)
    MinActivatedStake,    \* min_activated_stake
    StakeLevels,          \* values total_activated_stake can take
    VoteLevels,           \* values a producer's total_votes can take
    UsecsPerDay,          \* useconds_per_day
    UsecsPerYear,         \* useconds_per_year
    RateNum, RateDen,     \* continuous_rate = RateNum / RateDen
    MinVotePay,           \* the 100'0000 dust floor of the vote share
    ScheduleInterval,     \* the 120 slots between schedule updates
    InitialSupply,        \* token supply at genesis, held by System
    GenesisTime,          \* current_time() of the first block
    MaxTime               \* bound on the chain clock (model bound)

ASSUME ConstAssumption ==
    /\ System \notin Producers
    /\ MinActivatedStake \in Nat
    /\ StakeLevels \subseteq Nat
    /\ VoteLevels \subseteq Nat
    /\ UsecsPerDay \in Nat
    /\ UsecsPerYear \in Nat \ {0}
    /\ RateNum \in Nat /\ RateDen \in Nat \ {0}
    /\ MinVotePay \in Nat
    /\ ScheduleInterval \in Nat
    /\ InitialSupply \in Nat
    /\ GenesisTime \in Nat \ {0}
    /\ MaxTime \in Nat

VARIABLES
    now,        \* current_time(); also the block timestamp slot
    gstate,     \* _gstate, the eosio_global_state singleton
    producers,  \* _producers: registered owner -> producer_info
    supply,     \* eosio.token supply of the system token
    balance     \* eosio.token balances, Producers \cup {System}

vars == <<now, gstate, producers, supply, balance>>

Accounts == Producers \cup {System}

(* A producer_info row as the contract reads and writes it.               *)
ProducerInfo == [total_votes: Nat, active: BOOLEAN, unpaid_blocks: Nat,
                 last_produced_block_time: Nat, last_claim_time: Nat]

GlobalState == [total_activated_stake: Nat, last_pervote_bucket_fill: Nat,
                last_producer_schedule_update: Nat,
                total_unpaid_blocks: Int, total_producer_vote_weight: Int,
                pervote_bucket: Int, perblock_bucket: Int, savings: Int]

TypeOK ==
    /\ now \in Nat
    /\ gstate \in GlobalState
    /\ DOMAIN producers \subseteq Producers
    /\ \A p \in DOMAIN producers : producers[p] \in ProducerInfo
    /\ supply \in Nat
    /\ balance \in [Accounts -> Nat]

-----------------------------------------------------------------------------
(* The inflation of one bucket fill: static_cast<int64_t> of              *)
(* continuous_rate * supply * usecs / useconds_per_year, the truncation    *)
(* of a nonnegative value, i.e. its floor.                                 *)
NewTokens(tokenSupply, usecs) ==
    (RateNum * tokenSupply * usecs) \div (RateDen * UsecsPerYear)

(* The four-way split of a fill: 1/5 to producers, of which 1/4 per block  *)
(* and the rest per vote; the remainder of the fill to savings.            *)
ToProducers(newTokens)  == newTokens \div 5
(* Mutant of ToSavings: savings taken as 4/5 of the fill, rounded down,   *)
(* instead of the remainder after the producers' fifth.                   *)
ToSavingsRounded(newTokens) == (newTokens * 4) \div 5
ToSavings(newTokens)    == newTokens - ToProducers(newTokens)
ToPerBlockPay(newTokens) == ToProducers(newTokens) \div 4
ToPerVotePay(newTokens) == ToProducers(newTokens) - ToPerBlockPay(newTokens)

(* update_elected_producers(timestamp) is outside src/; of its effect the  *)
(* model keeps only the new last_producer_schedule_update (spec 4.C.5).    *)
ScheduleUpdate(g, timestamp) ==
    IF timestamp - g.last_producer_schedule_update > ScheduleInterval
    THEN [g EXCEPT !.last_producer_schedule_update = timestamp]
    ELSE g

-----------------------------------------------------------------------------
Init ==
    /\ now = GenesisTime
    /\ gstate = [total_activated_stake |-> 0, last_pervote_bucket_fill |-> 0,
                 last_producer_schedule_update |-> 0,
                 total_unpaid_blocks |-> 0, total_producer_vote_weight |-> 0,
                 pervote_bucket |-> 0, perblock_bucket |-> 0, savings |-> 0]
    /\ producers = <<>>
    /\ supply = InitialSupply
    /\ balance = [a \in Accounts |-> IF a = System THEN InitialSupply ELSE 0]

(* onblock while total_activated_stake < min_activated_stake: the early    *)
(* return; the block is produced and nothing is recorded.                  *)
OnBlockDormant(p) ==
    /\ gstate.total_activated_stake < MinActivatedStake
    /\ UNCHANGED <<gstate, producers>>

(* Mutant of OnBlockActive: total_unpaid_blocks++ hoisted out of the      *)
(* "producer found" branch, so unregistered producers' blocks count too.  *)
OnBlockActiveCountAll(p) ==
    LET timestamp == now'
        g1 == IF gstate.last_pervote_bucket_fill = 0
              THEN [gstate EXCEPT !.last_pervote_bucket_fill = now']
              ELSE gstate
        g2 == [g1 EXCEPT !.total_unpaid_blocks = @ + 1]
    IN /\ gstate.total_activated_stake >= MinActivatedStake
       /\ gstate' = ScheduleUpdate(g2, timestamp)
       /\ producers' = IF p \in DOMAIN producers
                       THEN [producers EXCEPT ![p].unpaid_blocks = @ + 1,
                                              ![p].last_produced_block_time = timestamp]
                       ELSE producers

(* onblock once stake is activated: start the presses if the inflation     *)
(* clock was never set, count the block for a registered producer, and     *)
(* refresh the schedule once more than 120 slots have passed.              *)
OnBlockActive(p) ==
    LET timestamp == now'
        g1 == IF gstate.last_pervote_bucket_fill = 0
              THEN [gstate EXCEPT !.last_pervote_bucket_fill = now']
              ELSE gstate
        g2 == IF p \in DOMAIN producers
              THEN [g1 EXCEPT !.total_unpaid_blocks = @ + 1]
              ELSE g1
    IN /\ gstate.total_activated_stake >= MinActivatedStake
       /\ gstate' = ScheduleUpdate(g2, timestamp)
       /\ producers' = IF p \in DOMAIN producers
                       THEN [producers EXCEPT ![p].unpaid_blocks = @ + 1,
                                              ![p].last_produced_block_time = timestamp]
                       ELSE producers

(* A new block by producer p: the chain clock advances one slot and the    *)
(* block's onblock runs before any transaction of the block.               *)
onblock(p) ==
    /\ now < MaxTime
    /\ now' = now + 1
    /\ OnBlockDormant(p) \/ OnBlockActive(p)
    /\ UNCHANGED <<supply, balance>>

(* The lazy bucket fill: the usecs since the inflation clock's last fill,  *)
(* and the tokens issued for them if there are any.                        *)
UsecsSinceLastFill == now - gstate.last_pervote_bucket_fill

FillTokens ==
    IF UsecsSinceLastFill > 0 THEN NewTokens(supply, UsecsSinceLastFill) ELSE 0

(* producer_per_block_pay: the producer's share of the per-block bucket by *)
(* unpaid blocks, zero if no block is unpaid.                              *)
PerBlockPay(prod, perblockBucket) ==
    IF gstate.total_unpaid_blocks > 0
    THEN (perblockBucket * prod.unpaid_blocks) \div gstate.total_unpaid_blocks
    ELSE 0

(* Mutant of PerVotePay: a vote share under the floor is raised to the    *)
(* floor instead of zeroed.                                                *)
PerVotePayRoundUp(prod, pervoteBucket) ==
    LET pay == IF gstate.total_producer_vote_weight > 0
               THEN (pervoteBucket * prod.total_votes)
                        \div gstate.total_producer_vote_weight
               ELSE 0
    IN  IF pay < MinVotePay THEN MinVotePay ELSE pay

(* producer_per_vote_pay: the producer's share of the per-vote bucket by   *)
(* votes, zero if no vote weight, and zeroed below the dust floor.  The    *)
(* double quotient of integers below 2^53 truncates to the exact floor.    *)
PerVotePay(prod, pervoteBucket) ==
    LET pay == IF gstate.total_producer_vote_weight > 0
               THEN (pervoteBucket * prod.total_votes)
                        \div gstate.total_producer_vote_weight
               ELSE 0
    IN  IF pay < MinVotePay THEN 0 ELSE pay

(* claimrewards(owner), run as one transaction at the current block time:  *)
(* the asserts, the lazy bucket fill with its issue, the two pay shares,   *)
(* the bucket and counter updates, the reset of the producer row and, if   *)
(* the pay is positive, its transfer.  The inline transfer fails, and the  *)
(* whole claim with it, if System cannot cover it.                         *)
claimrewards(owner) ==
    LET prod     == producers[owner]
        minted   == FillTokens
        pervote  == gstate.pervote_bucket + ToPerVotePay(minted)
        perblock == gstate.perblock_bucket + ToPerBlockPay(minted)
        blockPay == PerBlockPay(prod, perblock)
        votePay  == PerVotePay(prod, pervote)
        totalPay == blockPay + votePay
    IN /\ owner \in DOMAIN producers
       /\ prod.active
       /\ gstate.total_activated_stake >= MinActivatedStake
       /\ now - prod.last_claim_time > UsecsPerDay
       /\ totalPay > 0 => balance[System] + minted >= totalPay
       /\ gstate' = [gstate EXCEPT
                        !.pervote_bucket  = pervote - votePay,
                        !.perblock_bucket = perblock - blockPay,
                        !.savings         = @ + ToSavings(minted),
                        !.last_pervote_bucket_fill =
                            IF UsecsSinceLastFill > 0 THEN now ELSE @,
                        !.total_unpaid_blocks = @ - prod.unpaid_blocks]
       /\ producers' = [producers EXCEPT ![owner].last_claim_time = now,
                                         ![owner].unpaid_blocks = 0]
       /\ supply' = supply + minted
       /\ balance' = IF totalPay > 0
                     THEN [balance EXCEPT ![System] = @ + minted - totalPay,
                                          ![owner]  = @ + totalPay]
                     ELSE [balance EXCEPT ![System] = @ + minted]
       /\ UNCHANGED now

-----------------------------------------------------------------------------
(* Environment: the system-contract actions outside src/ that write the    *)
(* state onblock and claimrewards read (spec section 3).                   *)

(* The row regproducer creates: key set, nothing produced or claimed.     *)
NewProducer == [total_votes |-> 0, active |-> TRUE, unpaid_blocks |-> 0,
                last_produced_block_time |-> 0, last_claim_time |-> 0]

(* regproducer: create the row, or set the key of an existing one.         *)
regproducer(p) ==
    /\ producers' =
         IF p \in DOMAIN producers
         THEN [producers EXCEPT ![p].active = TRUE]
         ELSE [q \in DOMAIN producers \cup {p} |->
                 IF q = p THEN NewProducer ELSE producers[q]]
    /\ UNCHANGED <<now, gstate, supply, balance>>

(* unregprod: unset the signing key; the row stays.                        *)
unregprod(p) ==
    /\ p \in DOMAIN producers
    /\ producers' = [producers EXCEPT ![p].active = FALSE]
    /\ UNCHANGED <<now, gstate, supply, balance>>

(* voteproducer as it reaches a producer: its total_votes becomes v and    *)
(* the global vote weight moves by the same delta.                         *)
voteproducer(p, v) ==
    /\ p \in DOMAIN producers
    /\ gstate' = [gstate EXCEPT !.total_producer_vote_weight =
                                   @ - producers[p].total_votes + v]
    /\ producers' = [producers EXCEPT ![p].total_votes = v]
    /\ UNCHANGED <<now, supply, balance>>

(* Staking and unstaking move total_activated_stake.                       *)
setstake(s) ==
    /\ gstate' = [gstate EXCEPT !.total_activated_stake = s]
    /\ UNCHANGED <<now, producers, supply, balance>>

Next ==
    \/ \E p \in Accounts : onblock(p)
    \/ \E p \in Producers : claimrewards(p)
    \/ \E p \in Producers : regproducer(p) \/ unregprod(p)
    \/ \E p \in Producers, v \in VoteLevels : voteproducer(p, v)
    \/ \E s \in StakeLevels : setstake(s)

Spec == Init /\ [][Next]_vars

-----------------------------------------------------------------------------
(* Properties.                                                             *)

(* Each registered producer's unpaid_blocks, the function whose sum the   *)
(* global counter keeps.                                                   *)
UnpaidBlocks == [q \in DOMAIN producers |-> producers[q].unpaid_blocks]

(* The global total_unpaid_blocks is the sum of the producers'             *)
(* unpaid_blocks (counted as in Tally): onblock adds a block to both only  *)
(* for a registered producer, and a claim removes exactly the claimant's   *)
(* share (spec 8).                                                         *)
UnpaidBlocksConsistent ==
    gstate.total_unpaid_blocks = Total(UnpaidBlocks)

(* Every token the reward buckets hold is held by the system account: a    *)
(* fill issues exactly what it adds to the three buckets, and a claim      *)
(* takes from the buckets exactly the pay it transfers out (spec 8,        *)
(* conservation).                                                          *)
BucketsBacked ==
    balance[System] = InitialSupply + gstate.pervote_bucket
                        + gstate.perblock_bucket + gstate.savings

(* No claim pays more out of a bucket than the bucket holds: the block     *)
(* share never exceeds perblock_bucket because a producer's unpaid_blocks  *)
(* never exceed total_unpaid_blocks, the vote share never exceeds          *)
(* pervote_bucket because its votes never exceed the total vote weight.    *)
BucketsNonNegative ==
    gstate.pervote_bucket >= 0 /\ gstate.perblock_bucket >= 0

(* A fill issues new tokens only for time measured from an inflation clock *)
(* that onblock has started: spec 4.C.3 starts the clock when stake first  *)
(* crosses the threshold, and 4.D.4 mints for the time since the clock's   *)
(* last fill, never for the time before the reward system was live.        *)
MintOnlyAfterClockStarted ==
    [][supply' > supply => gstate.last_pervote_bucket_fill # 0]_vars
====

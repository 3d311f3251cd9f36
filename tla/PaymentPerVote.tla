--------------------------- MODULE PaymentPerVote ---------------------------
(***************************************************************************)
(* system_contract::payment_per_vote(owner, owners_votes, pervote_bucket), *)
(* src/contracts/eosio.system/producer_pay.cpp lines 53-94: the read-only  *)
(* projection of a producer's vote pay.  It scans the producers in the     *)
(* order of the prototalvote index (descending total_votes), skipping      *)
(* inactive ones, keeps a running total of votes, and stops at the first   *)
(* producer whose running share votes * bucket / running_total is below    *)
(* min_daily_amount, which it takes out of the total again.                *)
(*                                                                         *)
(* The loop is modelled step by step: one action per iteration, the       *)
(* query's inputs chosen in Init.  PaymentCorrect compares the loop's      *)
(* result with a declarative definition of the cutoff.                     *)
(***************************************************************************)
EXTENDS Integers, Sequences, FiniteSets, Tally

CONSTANTS
    Producers,        \* owners in the producer table
    VoteLevels,       \* values of total_votes
    Buckets,          \* values of pervote_bucket.amount
    MinDailyAmount    \* min_daily_amount = 100 * 10000

ASSUME PaymentAssumption ==
    /\ IsFiniteSet(Producers)
    /\ VoteLevels \subseteq Nat
    /\ Buckets \subseteq Nat
    /\ MinDailyAmount \in Nat \ {0}

(* A row of the prototalvote index: owner, total_votes, active().         *)
Row == [owner: Producers, total_votes: VoteLevels, active: BOOLEAN]

(* The index as the query sees it: each producer once, in descending       *)
(* order of total_votes (ties in any order).                               *)
Indexes ==
    { t \in [1..Cardinality(Producers) -> Row] :
        /\ \A i, j \in DOMAIN t : i # j => t[i].owner # t[j].owner
        /\ \A i \in 1..(Len(t) - 1) : t[i].total_votes >= t[i+1].total_votes }

VARIABLES
    idx,          \* the index being scanned (input)
    owner,        \* the queried owner (input)
    bucket,       \* pervote_bucket.amount (input)
    itr,          \* position of the iterator in idx
    total,        \* total_producer_votes
    toBePayed,    \* to_be_payed
    payment,      \* the returned payment.amount
    pc            \* "scan", "pay" or "done"

vars == <<idx, owner, bucket, itr, total, toBePayed, payment, pc>>

(* The caller passes the owner's own total_votes as owners_votes.         *)
OwnersVotes ==
    LET i == CHOOSE i \in DOMAIN idx : idx[i].owner = owner
    IN  idx[i].total_votes

Init ==
    /\ idx \in Indexes
    /\ owner \in Producers
    /\ bucket \in Buckets
    /\ itr = 1
    /\ total = 0
    /\ toBePayed = FALSE
    /\ payment = 0
    /\ pc = "scan"

(* if( pervote_bucket.amount < min_daily_amount ) return payment;          *)
EarlyReturn ==
    /\ pc = "scan"
    /\ bucket < MinDailyAmount
    /\ pc' = "done"
    /\ UNCHANGED <<idx, owner, bucket, itr, total, toBePayed, payment>>

(* The loop runs off the end of the index.                                 *)
ScanExhausted ==
    /\ pc = "scan"
    /\ bucket >= MinDailyAmount
    /\ itr > Len(idx)
    /\ pc' = "pay"
    /\ UNCHANGED <<idx, owner, bucket, itr, total, toBePayed, payment>>

(* if( !(itr->total_votes > 0) ) break;                                    *)
ScanNoVotes ==
    /\ pc = "scan"
    /\ bucket >= MinDailyAmount
    /\ itr <= Len(idx) /\ ~(idx[itr].total_votes > 0)
    /\ pc' = "pay"
    /\ UNCHANGED <<idx, owner, bucket, itr, total, toBePayed, payment>>

(* An inactive producer is skipped (continue).                             *)
ScanSkip ==
    /\ pc = "scan"
    /\ bucket >= MinDailyAmount
    /\ itr <= Len(idx) /\ idx[itr].total_votes > 0
    /\ ~idx[itr].active
    /\ itr' = itr + 1
    /\ UNCHANGED <<idx, owner, bucket, total, toBePayed, payment, pc>>

(* Mutant of ScanCount: the cutoff producer's votes stay in the total.    *)
ScanCountKeepCutoff ==
    LET row     == idx[itr]
        total1  == total + row.total_votes
        isOwner == row.owner = owner
    IN /\ pc = "scan"
       /\ bucket >= MinDailyAmount
       /\ itr <= Len(idx) /\ row.total_votes > 0
       /\ row.active
       /\ IF row.total_votes * bucket < MinDailyAmount * total1
          THEN /\ toBePayed' = (toBePayed /\ ~isOwner)
               /\ total' = total1
               /\ pc' = "pay"
               /\ UNCHANGED itr
          ELSE /\ toBePayed' = (toBePayed \/ isOwner)
               /\ total' = total1
               /\ itr' = itr + 1
               /\ UNCHANGED pc
       /\ UNCHANGED <<idx, owner, bucket, payment>>

(* An active producer: its votes join the running total; if its running    *)
(* share (a double quotient; exact for these magnitudes) is below the      *)
(* floor, its votes leave the total again, it is not paid, and the scan    *)
(* stops.  Otherwise the scan goes on.                                     *)
ScanCount ==
    LET row     == idx[itr]
        total1  == total + row.total_votes
        isOwner == row.owner = owner
    IN /\ pc = "scan"
       /\ bucket >= MinDailyAmount
       /\ itr <= Len(idx) /\ row.total_votes > 0
       /\ row.active
       /\ IF row.total_votes * bucket < MinDailyAmount * total1
          THEN /\ toBePayed' = (toBePayed /\ ~isOwner)
               /\ total' = total1 - row.total_votes
               /\ pc' = "pay"
               /\ UNCHANGED itr
          ELSE /\ toBePayed' = (toBePayed \/ isOwner)
               /\ total' = total1
               /\ itr' = itr + 1
               /\ UNCHANGED pc
       /\ UNCHANGED <<idx, owner, bucket, payment>>

(* if( to_be_payed ) payment.amount = bucket * owners_votes / total;       *)
Pay ==
    /\ pc = "pay"
    /\ payment' = IF toBePayed THEN (bucket * OwnersVotes) \div total ELSE 0
    /\ pc' = "done"
    /\ UNCHANGED <<idx, owner, bucket, itr, total, toBePayed>>

Next == EarlyReturn \/ ScanExhausted \/ ScanNoVotes \/ ScanSkip \/ ScanCount \/ Pay

Spec == Init /\ [][Next]_vars

-----------------------------------------------------------------------------
(* The reference definition of the projection.                             *)

(* Positions of the active producers with votes.                           *)
Counted == {i \in DOMAIN idx : idx[i].active /\ idx[i].total_votes > 0}

(* The votes of the producers at the positions S, summed with Total.      *)
VotesOn(S) == [j \in S |-> idx[j].total_votes]

(* Votes of the counted producers up to and including position i.          *)
RunningVotes(i) == Total(VotesOn({j \in Counted : j <= i}))

(* The producers whose own running share reaches the floor.                *)
Eligible ==
    {i \in Counted : idx[i].total_votes * bucket >= MinDailyAmount * RunningVotes(i)}

EligibleVotes == Total(VotesOn(Eligible))

RefPayment ==
    IF bucket >= MinDailyAmount /\ \E i \in Eligible : idx[i].owner = owner
    THEN (bucket * OwnersVotes) \div EligibleVotes
    ELSE 0

(* When payment_per_vote returns, it returns the reference projection: the *)
(* scan's break at the first producer under the floor excludes exactly the *)
(* producers under the floor, because running shares only fall along the   *)
(* descending index.                                                       *)
PaymentCorrect == pc = "done" => payment = RefPayment
====

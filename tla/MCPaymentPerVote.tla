-------------------------- MODULE MCPaymentPerVote --------------------------
(* Three producers with votes 0..3, buckets under, at and above the floor. *)
EXTENDS PaymentPerVote, TLC

CONSTANTS a, b, c

MCProducers == {a, b, c}
MCVoteLevels == 0..3
MCBuckets == {1, 2, 5, 9}
====

--------------------------- MODULE MCProducerPay ---------------------------
(* Model-checking instance of ProducerPay: two producers besides the      *)
(* system account, a stake that is below or at the activation threshold,  *)
(* and a rate, day and year scaled so that one fill issues a few tokens   *)
(* and the dust floor cuts some vote shares and not others.               *)
EXTENDS ProducerPay, TLC

CONSTANTS p1, p2, eosio

MCProducers == {p1, p2}
MCStakeLevels == {0, 1}
MCVoteLevels == {0, 3}

Symmetry == Permutations(MCProducers)
====

-------------------------------- MODULE Tally --------------------------------
(***************************************************************************)
(* The sum of a function into the naturals, as the contract's counters     *)
(* hold it (total_unpaid_blocks, total_producer_vote_weight): counted as   *)
(* the number of pairs <<key, k>> with k in 1..f[key].  It equals the fold *)
(* SumFunction(f) and is a Cardinality, so the facts of FiniteSetTheorems  *)
(* apply to it.                                                            *)
(***************************************************************************)
EXTENDS Integers, FiniteSets

(* One pair per unit of f[p], for every key p.                             *)
Slots(f) == UNION {{p} \X (1..f[p]) : p \in DOMAIN f}

(* The units of one key.                                                   *)
Column(f, p) == {p} \X (1..f[p])

Total(f) == Cardinality(Slots(f))
====

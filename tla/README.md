# TLA+ verification of the chain state-transition core

This directory holds TLA+ models of the repository's state-transition core,
the TLC configurations that model-check them, and TLAPS proofs about them.
Everything here is written from the C++ sources under `src/`; where a
model needs behaviour whose code is not under `src/` (the rest of the
eosio.system contract, eosio.token, chainbase), that part is modelled from
`spec.md` and says so.

## 1. Inventory

### Components

| Component | Source | State it keeps | Operations |
|---|---|---|---|
| Block bookkeeping | `src/contracts/eosio.system/producer_pay.cpp` `onblock` (20-51) | `_gstate` (activated stake, inflation clock `last_pervote_bucket_fill`, `total_unpaid_blocks`, `last_producer_schedule_update`), `_producers` rows (`unpaid_blocks`, `last_produced_block_time`) | `onblock(timestamp, producer)`, once per block, as the system account |
| Reward and inflation engine | same file, `claimrewards` (97-156) | `_gstate` buckets (`pervote_bucket`, `perblock_bucket`, `savings`), `total_producer_vote_weight`; `_producers` rows (`last_claim_time`, `total_votes`, active key); token supply and balances in eosio.token | `claimrewards(owner)` |
| Vote-pay projection | same file, `payment_per_vote` (53-94) | none (read-only scan of the `prototalvote` index) | `payment_per_vote(owner, owners_votes, bucket)` |
| Producer registry and voting | not under `src/` (rest of eosio.system) | `_producers` rows, vote weights, activated stake | regproducer, unregprod, voteproducer, stake changes |
| Token ledger | not under `src/` (eosio.token) | supply, balances | `issue`, `transfer`, `get_supply` |
| Account and permission model (`PermissionStore`, `AuthorizationAtomic`, `Authorization`) | `src/libraries/chain/include/eos/chain/account_object.hpp` | `account_object`, `permission_object` forest (`parent`), `action_permission_object` mappings (owner, scope) -> owner permission | two-phase authorization walk described at lines 158-180 (scope -> owner permission, then the signer's parent chain) |
| Versioned object store | chainbase, not under `src/` | committed state plus nested undo sessions | insert / modify / erase, undo, commit |
| Chain plugin (`ChainPlugin`, partly) | `src/plugins/chain_plugin/chain_plugin.cpp` | block log path, genesis path, checkpoints, the chain controller | option parsing, replay / resync wipes, startup, `accept_block`, `accept_transaction`, read-only queries |
| Message | `src/libraries/chain/include/eos/chain/message.hpp` | sender, recipient, notify list, packed data | `set`, `as`, `has_notify` |
| Public-key history index | `src/plugins/account_history_plugin/.../public_key_history_object.hpp` | (key, account, permission) rows | index declaration only |
| Test fixture, pyeos console, native eosiolib | `src/tests/common/database_fixture.hpp`, `src/programs/pyeos/pytest/pytest.cpp`, `src/contracts/eosiolib_native/eosiolib.cpp` | test databases and networks; Python console; empty stubs | test macros; console start-up |

### How they interact

Every block begins with the implicit `onblock` transaction (run as the
system account), then the block's user transactions: votes and stake
changes, producer registrations, and `claimrewards`. `claimrewards` calls
eosio.token inline: `issue` mints a fill into the system account, and
`transfer` pays the producer. All of a transaction's effects, inline
actions included, commit together or are discarded together through the
store's undo session. The permission model is a pure query over the
store. The vote-pay projection reads the producer table and changes nothing.

### What is hard

There are no threads: execution is sequential within a block. The hard
behaviours are about ordering, arithmetic and long sequences of calls:

* **Order of transactions within a block.** `onblock` starts the inflation
  clock lazily, at the first block after stake crosses the threshold. A
  stake change and a claim in the same block both run *before* that
  `onblock`.
* **Lazy, lump-sum accrual.** One fill can cover any amount of idle time.
  Whoever claims first after a gap triggers it.
* **Counters shared between rows and the singleton.** `total_unpaid_blocks`
  must stay equal to the sum of the producers' `unpaid_blocks`. Otherwise
  the block-pay division pays out more than the bucket holds.
* **Integer and floating arithmetic.** Truncated quotients, the dust floor
  on vote pay, and unsigned time differences that must not wrap.
* **Atomic inline actions.** The claim's bucket changes count only if its
  `issue` and `transfer` succeed.
* **The projection's early break.** Stopping at the first producer under the
  floor is correct only because running shares fall along the descending
  index.
* **Attacker-shaped permission data.** The parent walks of the
  authorization algorithm must terminate and stay within one account.

### What makes each component correct

* Block bookkeeping: dormancy below the stake threshold; counting a block
  only for a registered producer, in the producer's row and in the global
  counter together; the rate-limited schedule refresh.
* Reward engine:
  * the sum of unpaid blocks is consistent;
  * every bucket token is backed by the system account's balance;
  * buckets never go negative;
  * a fill never mints for time before the clock started;
  * at most one claim per producer per day;
  * no stored time is ahead of the clock.
* Projection: its result equals the declarative definition of the cutoff.
* Permission model:
  * every account can hold its own permission names;
  * resolution terminates;
  * the resolved permission belongs to the acting account;
  * a request is authorized only by the required permission or one of its
    ancestors.
* Chain plugin: a running node's database extends its block log's
  irreversible chain (no undo reaches below it), and its chain agrees with
  its checkpoints.
* Store: aborting a session restores the exact prior state, and readers see
  only committed state.

## 2. Modules, runs and proofs

### `ProducerPay.tla` (`onblock` and `claimrewards`)

State: `now` is `current_time()`. One tick is one block slot, so the block
timestamp's slot is `now` too. `gstate` is `_gstate`. `producers` is the
producer table: a function whose domain is the set of registered owners,
so a failing `_producers.find`/`get` is `p \notin DOMAIN producers`.
`supply` and `balance` are the eosio.token supply and balances.

Actions:

* `onblock(p)` is one new block. The clock advances one slot and the
  block's `onblock` runs as a whole. It is either `OnBlockDormant`, the
  early return below `min_activated_stake`, or `OnBlockActive`: start the
  inflation clock if it is unset, count the block if `p` is registered, and refresh the schedule
  after more than `ScheduleInterval` slots. `update_elected_producers` is
  not under `src/`. Of its effect the model keeps only the new
  `last_producer_schedule_update` (spec 4.C.5).
* `claimrewards(owner)` is the whole handler as one atomic step:
  * the three asserts;
  * the lazy fill (`FillTokens`) with its `issue`;
  * the block share (`PerBlockPay`) and the vote share with its dust
    floor (`PerVotePay`);
  * the bucket and counter updates;
  * the reset of the row;
  * the transfer if the pay is positive.

  The inline transfer fails when the system account cannot cover the pay,
  and the claim with it. That is a conjunct of the guard.
* Environment actions, modelled from the spec because their code is not
  under `src/`:
  * `regproducer` creates a row or sets its key again;
  * `unregprod` unsets the key;
  * `voteproducer(p, v)` sets a producer's votes and moves the total
    weight by the same delta;
  * `setstake(s)` moves `total_activated_stake`.

Data abstraction:

* Amounts are small naturals.
* `continuous_rate`, the day and the year are constants. The cfg scales
  them so that one fill issues a few tokens, and so that the dust floor
  cuts some vote shares and lets others through. With the real constants
  and small supplies every fill would be zero.
* The mint is the exact floor of `rate * supply * usecs / year`. The C++
  computes it in `double`. The properties below hold for any fill amount,
  so the last-bit rounding does not matter to them.
* The vote share is a `double` quotient of integers below 2^53. It
  truncates to the exact floor, which is what `PerVotePay` takes.

Properties (run `producer_pay_safety`, cfg `MCProducerPay.cfg`):

* `UnpaidBlocksConsistent`: `total_unpaid_blocks` equals the sum of the
  rows' `unpaid_blocks`. The sum is `Total` of `Tally.tla`, explained
  under the proofs below.
* `BucketsBacked`: the system balance equals the initial supply plus the
  three buckets. Every fill is issued exactly as it is split, and every
  payout leaves the buckets exactly as it leaves the system account.
* `BucketsNonNegative`: no claim takes more out of a bucket than the
  bucket holds.

Bounds:

* two producers besides the system account, so that one can hold unpaid
  blocks while the other claims;
* stake in {0, 1} with threshold 1, so that the system goes live and
  dormant again;
* votes in {0, 3}: vote shares over and under the floor, and zero total
  weight;
* day = 2 ticks, so that a producer can claim twice in a run, and a claim
  inside the day is refused;
* seven block times (1..6 after genesis at 1).

The run explores 787,388 distinct states in about 20 s. Symmetry over the
two producers is sound: no definition names one of them.

`MintOnlyAfterClockStarted` (run `producer_pay_mint_before_clock`, cfg
`MCProducerPayMint.cfg`, expected **violation**) states spec 4.C.3 and
4.D.4: a fill mints only for time measured from an inflation clock that
`onblock` has started. TLC finds this six-state trace:

1. blocks pass while stake is below the threshold;
2. a producer registers;
3. stake crosses the threshold;
4. in the same block, before the next `onblock`, the producer claims.

`last_pervote_bucket_fill` is still 0, so `usecs_since_last_fill` is the
whole of `current_time()` since the epoch. The claim issues
`0.04879 * supply * ~48 years`, more than twice the supply. This is a code
bug at `producer_pay.cpp:110-113`. A guard
`_gstate.last_pervote_bucket_fill > 0` on the fill would close it.

### `PaymentPerVote.tla` (`payment_per_vote`)

The loop of lines 53-94 is modelled step by step, one action per iteration
outcome:

* `EarlyReturn`: the bucket is under the floor;
* `ScanExhausted`: the end of the index;
* `ScanNoVotes`: `break` at a producer without votes;
* `ScanSkip`: `continue` at an inactive producer;
* `ScanCount`: count the producer, or cut off and `break`;
* `Pay`: the final division.

Init chooses the inputs:

* the index, as each producer once, in descending order of `total_votes`
  (ties in any order);
* the queried owner, whose own votes are passed as `owners_votes`;
* the bucket.

`PaymentCorrect` compares the result with a declarative reference. The
sums of votes in the reference are `Total(VotesOn(S))`, the `Tally` form
(see the proofs). `PaymentAssumption` also asks that the producer table
be finite, so that the index has a length. The
reference counts every active producer with votes whose own running share
reaches the floor, and pays `bucket * votes / eligible_total` if the owner
is among them. The two agree only because the running share
`v_i * B / S_i` cannot rise along a descending index, so the first
producer under the floor is followed only by others under it.

Run `payment_per_vote_reference`:

* 3 producers, votes 0..3, buckets {1, 2, 5, 9}, floor 2;
* 11,520 inputs and 49,248 states;
* deadlock is not checked, because the query returns and stops.

### Proofs (`ProducerPayProofs.tla`)

* `TypeCorrect`: `Spec => []TypeOK`. It proves the counters, times and
  supply natural, the buckets integers, and the balances natural (no
  transfer overdraws the system account). The arithmetic lemmas it rests
  on:
  * `DivNat`: a floor quotient of naturals is natural;
  * `NewTokensNat`: a fill is natural;
  * `FillTokensNat`;
  * `SplitInt` and `PayInt`: the split and the pay shares are integers.

  The step proof has one lemma per action: `OnBlockTypeOK`, `ClaimTypeOK`
  and `EnvTypeOK`. `TypeOK` is inductive by itself. It types
  `total_unpaid_blocks`, the buckets and the vote weight as integers,
  because their being natural depends on the sum invariant below.
* `BucketsBackedSafe`: `Spec /\ []BucketsNonNegative => []BucketsBacked`.
  Conservation holds in every behaviour whose buckets stay nonnegative,
  for all constants. The lemmas:
  * `SplitConserves`: the three shares of a fill add up to the fill
    exactly, because savings take the remainder after the producers' fifth
    (the hazard at line 116);
  * `PayNat`: out of nonnegative buckets, both pay shares are natural;
  * `ClaimBacked` and `NextBacked`: the step. A claim adds the fill to
    System and to the buckets, and takes the same pay out of both; no
    other step touches either.

  The premise `[]BucketsNonNegative` is proved in
  `ProducerPaySumProofs` (below), which discharges it
  (`BucketsBackedAlways`).

Assumptions: `ConstAssumption` (naturals, a positive year and rate
denominator, `System \notin Producers`). It is evaluated by TLC in every
`MCProducerPay` run.

### Sums as counts of slots (`Tally.tla`, `TallyProofs.tla`)

Several invariants speak of the sum of a function over the producers. The
community `SumFunction` is a fold defined by `CHOOSE` over a recursive
function. Proving how it changes under a point update would need
induction over finite sets. The library states that induction with an
operator parameter, which the installed provers cannot instantiate.
`Tally` states the same sum without recursion:

* `Slots(f)` is the set of pairs `<<p, k>>` with `k` in `1..f[p]`;
* `Total(f)` is its `Cardinality`.

For a function into the naturals this is the sum of its values. TLC
checked that `Total` equals `SumFunction` for the unpaid-block and the
vote functions on all 787,388 states of `producer_pay_safety`. It also
checked that it equals `SumFunctionOnSet` for the reference sums of
`PaymentPerVote` on all 49,248 states. The models use `Total`, so what
TLC checks and what the prover proves is one definition.

`TallyProofs` proves, from the library's finite-set facts alone:

* `TallyUpdate`: changing one value changes the total by the difference;
* `TallyAdd`: adding a key adds its value;
* `TallySubset`: a restriction has at most the total;
* `TallyBound`: one value is at most the total;
* `TallyEmpty`;
* `TallyFinite`: a function on finitely many positions has finitely many
  slots.

`TallyFinite` is an induction on the length. It is done without an
operator parameter: `LeastNat` takes a least counterexample from the
library's `WFMin` and the well-foundedness of `<` on `Nat`, which take
sets only.

### Proofs (`ProducerPaySumProofs.tla`)

`SumIInv` is `TypeOK` with:

* the finiteness of the two slot sets;
* `UnpaidBlocksConsistent`;
* `VoteWeightConsistent`: `total_producer_vote_weight` is the sum of the
  rows' `total_votes`;
* `BucketsNonNegative`.

The vote weight is needed because the vote share divides by it. TLC
checked `SumIInv` on all 787,388 states before it was proved. The step
proofs are `OnBlockSumIInv` (one block added to a registered row and to
the counter), `EnvSumIInv` and `ClaimSumIInv`. The claim subtracts exactly
the row's `unpaid_blocks`, which it then resets (lines 145-150). `PayBelow`
shows that each pay is at most its bucket: `TallyBound` makes the
claimant's part at most the divisor. The theorems:

* `UnpaidBlocksSafe`: `Spec => []UnpaidBlocksConsistent`;
* `BucketsNonNegativeSafe`: `Spec => []BucketsNonNegative`;
* `BucketsBackedAlways`: `Spec => []BucketsBacked`, by
  `BucketsBackedSafe` and the previous theorem.

### Proofs (`PaymentPerVoteProofs.tla`)

`PaymentCorrectSafe`: `Spec => []PaymentCorrect`, for every index,
owner, bucket and floor. The inductive invariant `PayIInv` is `TypeInv`,
`PaymentCorrect` and two parts. `Before(i)` denotes the counted producers
at or before position i.

* `ScanInv`: while scanning at `itr`, `total` is the running total up to
  `itr - 1`. All producers in `Before(itr - 1)` are eligible, and
  `to_be_payed` says whether the owner is among them.
* `PayInv`: when the scan has stopped, `total` is the eligible total, and
  `to_be_payed` says whether the owner is eligible.

TLC checked `PayIInv` on all 49,248 states before it was proved. The
argument that the early `break` loses nothing:

* `SortedVotes`: the index checks only neighbours, yet votes never rise
  between any two positions. This is a least-counterexample induction
  (`LeastNat`).
* `RunningMono`: running totals only grow (`TallySubset`).
* `CutoffFinal`: past a producer under the floor, every later producer
  has votes no higher and a running total no lower, so none is eligible.
* `NoVotesFinal`: past a producer without votes, none is counted.
* `StopExact`: so at every stop, the producers before `itr` are exactly
  the eligible ones.

At the cutoff, the owner cannot be both the cut producer and an earlier
one, because the index holds each producer once. So `to_be_payed && !is_owner`
keeps the right answer.

No liveness is stated for the reward engine: nothing in this code must
eventually happen unless producers and the chain act, and that is not the
code's to guarantee. (Liveness of the permission walk is stated below.)

### `PermissionStore.tla` (the tables of `account_object.hpp`)

State: `accounts` are the names in `account_index`, `perms` is
`permission_index` as a function from id to row (owner, parent, name; the
authority is left out, since resolution only decides *which* permission
must be satisfied), `nextId` is the next row id, and `links` is
`action_permission_index` as a function from (owner, scope permission) to
the required owner permission.

An insert into a chainbase multi-index container fails when any of its
`ordered_unique` keys collides with a row already present. The admission
predicates are those keys: `AccountIndexAdmits` (by_name of
`account_index`), `PermissionIndexAdmits` (by_id, by_parent and by_owner
contain the fresh id, so only `by_name`, line 112, unique on the name
alone, can refuse), and `ActionPermissionIndexAdmits` (by_owner_scope).
The handlers that insert (account creation, `updateauth`, `linkauth`) are
not under `src/`. They are modelled from the spec: a new permission's
parent is a permission of the same account, and a mapping's target is a
permission of the mapping's owner.

### `AuthorizationAtomic.tla` and `Authorization.tla` (resolution, lines 158-180)

`Authorization` runs the two loops of the algorithm comment one iteration
per step. Phase `"scope"` starts at the action's scope permission:
`ScopeMapped` finds the mapping (owner, scope permission) and moves to
phase `"signer"` at its target; `ScopeUp` goes to the parent;
`ScopeDefault` falls back to the owner's `"active"` past the root, and
`ScopeNoActive` fails when the account has none. Phase `"signer"` starts at
the required permission: `SignerHas` passes when the transaction has it,
`SignerUp` goes to the parent, `SignerExhausted` throws past the root.
A request (`Request`) is signed under one permission of the store
(spec 4.B.2). Store changes (`StoreStep`) happen only between resolutions:
execution is single-threaded (spec 5).

`AuthorizationAtomic` is what resolution promises, as one atomic
`Decide` step: the required permission is the mapping target at the
*nearest* mapped ancestor-or-self of the scope, else the account's `"active"`; the verdict is `"ok"`
exactly when a signed permission is that requirement or one of its
ancestors. `Senior(x, y)` ("y is x or an ancestor of x") is defined
without recursion: y belongs to every set of permissions that holds x
and, with each member, its parent (`ParentClosed`). That is the least such
set, the parent chain of x. This form lets the provers unfold it
(`SeniorUnfold`). TLC checked that it agrees with the community
`Relation` module's `ReflexiveTransitiveClosure` of the parent relation,
in all 211,660 states of the run below. `Authorization` instantiates it with `busy <- phase # "idle"`:
every loop step but the last is a stutter of the abstract spec, and the
last is its `Decide`.

Fairness: `WF_vars(Walk)`. A resolution runs to completion inside the
call that started it; nothing else runs in between, so a loop step that is
enabled is taken. No fairness is assumed for requests or store changes.

Run `authorization_resolution` (cfg `MCAuthorization.cfg`, pass):

* `AuthorizationRefinement`: `Atomic!ASpec`, the refinement above.
* `OnlyOwnPermissionsAuthorize`: an `"ok"` verdict has a signed
  permission of the requesting account.
* `WalkTerminates`: every resolution started reaches a verdict.

Bounds: two accounts, three permission names (`owner`, `active`,
`trading`), at most three permission rows and one mapping. This builds
forests of depth up to three, roots in both accounts, a mapping at a root
or at a child, and the `"active"` fallback with and without an `"active"`
row. 211,660 distinct states, about 30 s. With one mapping, the case of
two mappings on one parent chain, where the scope loop must stop at the
nearest, is not reached by this run; the refinement proof
(`RequiredMapped` below) covers it for every bound.

Run `permission_names_per_account` (cfg `MCAuthorizationNames.cfg`,
expected **violation**) checks `CanAddOwnName`: an account can always add
a root permission under a name it does not use yet, while the table has
room (spec 3: every account has its own `owner`/`active`). TLC finds it
violated in four states: alice is created, then bob; alice creates its
`owner`; bob's `owner` insert would now collide with alice's row on the
`by_name` key. This is a code
bug at `account_object.hpp:112`; the key should be (owner, name), which
`by_owner` already provides.

### `ChainPlugin.tla` (`chain_plugin.cpp` 50-118)

A node's life across shutdowns and crashes. `db` (the chain database,
every applied block, reversible ones included) and `log` (the block log,
the irreversible prefix) persist across a restart; `loaded`
(`my->loaded_checkpoints`) and `checkpoints` (the controller's table) are
in memory. Blocks are abstracted to their ids.

* `plugin_initialize(replay, resync, cps)`: `--replay-blockchain` wipes
  the database, `--resync-blockchain` wipes it and removes the block log,
  and the `--checkpoint` pairs are loaded, a later pair replacing an
  earlier one for the same number (`LoadCheckpoints`).
* `plugin_startup`: the controller is built over the database and the
  block log, replaying the log into a database that lacks its blocks
  (modelled from the option text, since `chain_controller` is not under
  `src/`); then the checkpoints are added.
* `accept_block(b)`: line 117 only forwards to `push_block`, which applies
  the block to the database on top of the head, refusing one that
  contradicts a checkpoint. It does not write the block log.
* `Irreversible` and `UndoBlock`, modelled from spec 4.A because
  `chain_controller` is not under `src/`: the controller commits the
  oldest reversible block to the block log, and a fork switch undoes the
  newest reversible block (its undo session). Which block is next and when
  a fork switch happens are left to the environment.
* `Stop`: a shutdown or a crash between two operations; memory is lost.
  The model keeps the database's reversible blocks across a restart (the
  database is persistent); a build that drops them on restart starts from
  a shorter database, which `plugin_startup` refills from the log.

Run `chain_plugin_restart` (pass) checks `LogPrefixOfDb`: a running node's
database holds the block log's irreversible chain as a prefix, whatever
flags, commits, fork switches and restarts led there. Its mutant lets a
fork switch undo a block already in the log. Bounds: two block ids,
chains of length two, three restarts, five `--checkpoint` values (none,
one per block, two pairs for the same number). 594 states. Deadlock is not checked: at the restart bound the
node has stopped for good, as a real node may.

Run `chain_plugin_checkpoints` (expected **violation**) checks
`CheckpointsEnforced`: a running node's chain agrees with every checkpoint
it enforces, as the option text "enforced as checkpoints" (line 40) says.
TLC's trace: accept b1, stop, restart with the checkpoint (1, b2), start.
The node runs on b1. The same holds when b1 was first committed to the
block log: startup replays b1 from the log and never checks it. `plugin_startup` adds the checkpoints (line 100)
only after the controller has loaded the stored chain (line 96), so
stored blocks are never checked against them.

### Proofs (`AuthorizationProofs.tla`)

`OwnAuthoritySafe`: `Spec => []OnlyOwnPermissionsAuthorize`, for every
set of accounts and names and every table bound. The invariant is not
inductive by itself. The inductive invariant `IInv` adds:

* `TypeOK`;
* `ParentsOwned`: a parent is a permission of the same account (the
  `updateauth` guard);
* `LinksOwned`: a mapping's target is a permission of the mapping's owner
  (the `linkauth` guard);
* `WalkInAccount`: during the walk `cur` is a permission of the store, and
  in phase `"signer"` one of the requesting account.

Then `ScopeMapped` and `ScopeDefault` enter phase `"signer"` inside the
account, `SignerUp` stays inside it by `ParentsOwned`, and `SignerHas`
grants `"ok"` only at such a permission. The proof has one lemma per
kind of step (`InitIInv`, `StoreIInv`, `RequestIInv`, `WalkIInv`,
`NextIInv`), one case per action. `IInv` was checked by TLC as an
invariant before it was proved. Assumption: `StoreAssumption`
(non-empty accounts, `NoParent` not a natural, natural bounds), evaluated
by every `MCAuthorization` run.

`ParentsBelow` (every parent has a smaller id than its child) is proved
here for use in the refinement proof below: `updateauth` only takes an
existing row as parent and gives the new row `nextId`, which is above
every existing id (`InitParentsBelow`, `StoreParentsBelow`,
`NextParentsBelow`).

### Proofs (`AuthorizationRefinementProofs.tla`)

`AuthorizationRefines`: `Spec => AuthorizationRefinement`. The loop
implements the atomic decision for every store the inserts can build. The
proof has two parts.

The first part is facts about `Senior`:

* `SeniorRefl`, `SeniorInDomain`;
* `SeniorUnfold`: x's ancestors-or-self are x and its parent's, proved
  first-order from the least-closed-set definition;
* `SeniorBelow`: an ancestor never has a larger id, by `ParentsBelow`;
* `SeniorAntisym`, which follows from `SeniorBelow`.

From these, what the requirement is from each position of the scope
loop:

* `RequiredUp`: no mapping here, so the parent's requirement;
* `RequiredMapped`: a mapping here is the nearest one;
* `RequiredRoot`: past the root, the `"active"` permission;
* `ActiveUnique`: there is at most one `"active"` permission, by the
  `by_name` key;
* `SignedUp`: an unsigned `cur` passes the question to its parent.

The second part is the inductive invariant
`RInv == IInv /\ ParentsBelow /\ NamesUnique /\ ScopeAgrees /\ SignerAgrees`:

* `NamesUnique` is the `by_name` key;
* `ScopeAgrees`: in phase `"scope"`, the requirement seen from `cur` is
  the one seen from the request's scope;
* `SignerAgrees`: in phase `"signer"`, that requirement is `{required}`,
  and a signed ancestor-or-self of `required` exists exactly when one of
  `cur` does.

TLC checked `RInv` as an invariant on all 211,660 states before it was
proved. It has one lemma per kind of step (`StoreRInv`, `RequestRInv`,
`ScopeUpRInv`, `ScopeMappedRInv`, `ScopeDefaultRInv`, `SignerUpRInv`,
`DecideRInv`). `DecideVerdict` shows that the three deciding steps give
`RefVerdict(request)`. `StepSimulation` maps:

* `StoreStep` to `StoreChange`;
* `Request` to `Submit`;
* the four moving steps to stutters;
* the deciding steps to `Decide`.

### Proofs (`ChainPluginProofs.tla`)

`LogPrefixOfDbSafe`: `Spec => []LogPrefixOfDb`, for every set of block ids
and checkpoint options. The invariant says nothing outside `"running"`,
and a replay leaves the database empty under a non-empty log, so it is not
inductive. `ChainIInv` adds the types and `DbExtendsLogOrWiped`: the
database extends the log, or it is empty and the node is not running.
Then `plugin_startup` replays the whole log into an empty database,
`accept_block` appends above the log, `Irreversible` moves the database's
next block into the log, and `UndoBlock` removes only a block above the
log. There is one lemma per action, and four about `IsChainPrefix`
(`PrefixRefl`, `PrefixAppend`, `PrefixTruncate`, `PrefixExtend`). TLC
checked `ChainIInv` before it was proved.

### What stays with TLC

* `WalkTerminates` and every other liveness property: the prover does not
  reason about fairness or ENABLED.
* What the community `SumFunction` computes. The proofs reason about
  `Total`, and that the two agree is checked by TLC on the runs' states
  only, since it is an induction over data with an operator parameter.
* The typing of `ChainPlugin`'s `loaded` table: `LoadCheckpoints` picks,
  for each number, the last index that carries it. That such an index
  exists is the existence of a maximum of a finite set of naturals, which
  is an induction. `LogPrefixOfDb` does not depend on it, so
  `ChainIInv` leaves `loaded` out.

## 3. Plan

In order of importance. Done items are marked.

1. **Done.** `ProducerPay`: `onblock` and `claimrewards` with their
   environment, its safety invariants, the mint-before-clock finding, and
   the proof of `TypeOK`.
2. **Done.** `PaymentPerVote`: the projection loop against its reference.
3. **Done.** `PermissionStore`, `AuthorizationAtomic`, `Authorization`:
   the tables with their unique keys, the walk step by step refining the
   atomic decision, termination under weak fairness, the `by_name`
   finding, and the proof of `OwnAuthoritySafe`.
4. `UndoStore` (spec 4.A, modelled from the spec: chainbase is not under
   `src/`): nested undo sessions over a key-value state, with an abstract
   spec of "state = committed state, or committed + the open sessions'
   writes". Then `ChainBlocks`: `ProducerPay` composed with `UndoStore`.
   A block is applied in a session and can be discarded on a fork switch.
5. `RewardLedger`, an abstract spec of the reward engine, and
   `ProducerPay` shown to implement it by INSTANCE ... WITH, checked by TLC
   and proved in TLAPS.
6. **Done.** Proofs of every safety property a passing run checks:
   `TypeOK`, the sums and the buckets through `Tally`, `BucketsBacked`,
   `PaymentCorrect`, `OnlyOwnPermissionsAuthorize`, `LogPrefixOfDb`, and
   the full refinement `AuthorizationRefines`.
7. **Done.** `ChainPlugin`: the replay and resync wipes, startup,
   `accept_block`, commits and fork-switch undos across crashes, with the
   checkpoint finding.

## 4. Not modelled

* `chain_plugin.cpp`: option declarations, file paths, genesis loading,
  logging, and the API wrappers (`get_info`, `get_block`,
  `block_is_on_preferred_chain`, `accept_transaction`). They only read, or
  forward to, `chain_controller`, which is not under `src/`.
* `account_object.hpp`: the authority of a permission (threshold and
  weighted keys and accounts) and the `action_code_index` and
  `type_index` tables, which no code under `src/` reads or writes.
* `message.hpp`: serialization helpers (`fc::raw::pack`/`unpack`) and a
  linear `has_notify` search. There is no state to check.
* `public_key_history_object.hpp`: an index declaration with no
  operations.
* `database_fixture.hpp`, `pytest.cpp`, `eosiolib.cpp`: the test harness,
  the Python console start-up, and empty native stubs.
* The fork-choice, networking, WASM execution and signature checking that
  the spec puts out of scope.

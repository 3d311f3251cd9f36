----------------------------- MODULE ChainPlugin -----------------------------
(***************************************************************************)
(* The chain plugin's life cycle, src/plugins/chain_plugin/chain_plugin.cpp *)
(* lines 50-118, across shutdowns and crashes.  The chain database and the *)
(* block log persist across a restart; the loaded checkpoints and the      *)
(* controller's checkpoint table live in memory.                           *)
(*   plugin_initialize: --replay-blockchain wipes the database,            *)
(*     --resync-blockchain wipes the database and removes the block log,   *)
(*     --checkpoint pairs are loaded (a later pair for the same number     *)
(*     replaces an earlier one);                                           *)
(*   plugin_startup: the chain controller is built over the database and   *)
(*     the block log, replaying the log into a database that lacks its     *)
(*     blocks ("clear chain database and replay all blocks", line 44),     *)
(*     then (the plugin is never readonly) the checkpoints are added;      *)
(*   accept_block: push_block applies a block on top of the database,      *)
(*     refusing one that contradicts a checkpoint;                        *)
(*   the controller's own steps, modelled from spec 4.A because            *)
(*     chain_controller is not under src/: a block applied in an undo      *)
(*     session stays reversible until its session is committed, when it    *)
(*     becomes irreversible and goes to the block log (Irreversible); a    *)
(*     fork switch discards the newest reversible block (UndoBlock).       *)
(* Block contents are abstracted to their ids; a chain is a sequence of    *)
(* ids, block number n at position n.  The replay and the checkpoint table *)
(* are modelled from the option texts.  The database keeps its reversible  *)
(* blocks across a restart.                                                *)
(***************************************************************************)
EXTENDS Naturals, Sequences

CONSTANTS
    BlockIds,           \* block ids
    CheckpointOptions,  \* possible values of the --checkpoint option: sequences of <<num, id>>
    MaxBlocks,          \* bound on the chain length
    MaxRestarts         \* bound on the number of restarts

VARIABLES
    db,             \* the chain applied to the database (persistent)
    log,            \* the irreversible chain in the block log (persistent)
    status,         \* "stopped", "initialized" or "running"
    loaded,         \* my->loaded_checkpoints: num -> id
    checkpoints,    \* the controller's checkpoint table: num -> id
    restarts        \* restarts so far

vars == <<db, log, status, loaded, checkpoints, restarts>>

NoCheckpoints == [n \in {} |-> CHOOSE b \in BlockIds : TRUE]

TypeOK ==
    /\ db \in Seq(BlockIds) /\ log \in Seq(BlockIds)
    /\ status \in {"stopped", "initialized", "running"}
    /\ \E D \in SUBSET Nat : loaded \in [D -> BlockIds]
    /\ \E D \in SUBSET Nat : checkpoints \in [D -> BlockIds]
    /\ restarts \in 0..MaxRestarts

Init ==
    /\ db = <<>>
    /\ log = <<>>
    /\ status = "stopped"
    /\ loaded = NoCheckpoints
    /\ checkpoints = NoCheckpoints
    /\ restarts = 0

(* for(auto cp : cps) loaded_checkpoints[item.first] = item.second;        *)
(* the last pair given for a block number wins.                            *)
LoadCheckpoints(cps) ==
    LET nums == {cps[i][1] : i \in DOMAIN cps}
        last(n) == CHOOSE i \in DOMAIN cps :
                      cps[i][1] = n /\ \A j \in DOMAIN cps : cps[j][1] = n => j <= i
    IN  [n \in nums |-> cps[last(n)][2]]

plugin_initialize(replay, resync, cps) ==
    /\ status = "stopped"
    /\ db' = IF replay \/ resync THEN <<>> ELSE db
    /\ log' = IF resync THEN <<>> ELSE log
    /\ loaded' = LoadCheckpoints(cps)
    /\ status' = "initialized"
    /\ UNCHANGED <<checkpoints, restarts>>

(* The controller is built (replaying the block log into a database that  *)
(* lacks its blocks), then add_checkpoints(loaded_checkpoints).            *)
plugin_startup ==
    /\ status = "initialized"
    /\ db' = IF Len(db) < Len(log) THEN log ELSE db
    /\ checkpoints' = loaded
    /\ status' = "running"
    /\ UNCHANGED <<log, loaded, restarts>>

(* push_block of the next block b: refused if a checkpoint names another  *)
(* block for its number; otherwise applied to the database in an undo     *)
(* session, reversible and not yet in the block log.                      *)
accept_block(b) ==
    LET n == Len(db) + 1
    IN  /\ status = "running"
        /\ Len(db) < MaxBlocks
        /\ n \in DOMAIN checkpoints => checkpoints[n] = b
        /\ db' = Append(db, b)
        /\ UNCHANGED <<log, status, loaded, checkpoints, restarts>>

(* The oldest reversible block's session is committed: the block becomes  *)
(* irreversible and is appended to the block log.                          *)
Irreversible ==
    /\ status = "running"
    /\ Len(log) < Len(db)
    /\ log' = Append(log, db[Len(log) + 1])
    /\ UNCHANGED <<db, status, loaded, checkpoints, restarts>>

(* Mutant of UndoBlock: a fork switch may also undo irreversible blocks.  *)
UndoBlockPastLog ==
    /\ status = "running"
    /\ Len(db) > 0
    /\ db' = SubSeq(db, 1, Len(db) - 1)
    /\ UNCHANGED <<log, status, loaded, checkpoints, restarts>>

(* A fork switch: the undo session of the newest reversible block is      *)
(* discarded, and the block with it.                                       *)
UndoBlock ==
    /\ status = "running"
    /\ Len(db) > Len(log)
    /\ db' = SubSeq(db, 1, Len(db) - 1)
    /\ UNCHANGED <<log, status, loaded, checkpoints, restarts>>

(* A shutdown or a crash between two operations: memory is lost.          *)
Stop ==
    /\ status # "stopped"
    /\ restarts < MaxRestarts
    /\ status' = "stopped"
    /\ loaded' = NoCheckpoints
    /\ checkpoints' = NoCheckpoints
    /\ restarts' = restarts + 1
    /\ UNCHANGED <<db, log>>

Next ==
    \/ \E replay, resync \in BOOLEAN, cps \in CheckpointOptions :
          plugin_initialize(replay, resync, cps)
    \/ plugin_startup
    \/ \E b \in BlockIds : accept_block(b)
    \/ Irreversible
    \/ UndoBlock
    \/ Stop

Spec == Init /\ [][Next]_vars

-----------------------------------------------------------------------------
(* The chain s is a prefix of the chain t.                                *)
IsChainPrefix(s, t) ==
    Len(s) <= Len(t) /\ \A i \in 1..Len(s) : s[i] = t[i]

(* Whenever the node runs, its database holds every irreversible block of *)
(* the block log, at its number: the wipes of --replay-blockchain and      *)
(* --resync-blockchain (lines 67-72), the replay at startup, fork switches *)
(* and crashes never leave a running node on a chain that contradicts or   *)
(* lacks its own irreversible history.                                     *)
LogPrefixOfDb == status = "running" => IsChainPrefix(log, db)

(* The --checkpoint option: pairs [BLOCK_NUM, BLOCK_ID] "that should be    *)
(* enforced as checkpoints".  A running node's chain agrees with every     *)
(* checkpoint it enforces.                                                 *)
CheckpointsEnforced ==
    status = "running" =>
        \A n \in DOMAIN checkpoints : n <= Len(db) => db[n] = checkpoints[n]
====

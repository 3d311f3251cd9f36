-------------------------- MODULE ChainPluginProofs --------------------------
(***************************************************************************)
(* Proof that a running node's database always holds its block log's       *)
(* irreversible chain as a prefix, whatever --replay-blockchain and        *)
(* --resync-blockchain flags, accepted blocks, commits, fork switches,     *)
(* shutdowns and crashes led there (ChainPlugin.tla, chain_plugin.cpp      *)
(* lines 50-118).                                                          *)
(*                                                                         *)
(* LogPrefixOfDb is not inductive: it says nothing of a stopped or         *)
(* initialized node, and a replay leaves the database empty under a       *)
(* non-empty block log.  The strengthening says that outside "running"     *)
(* the database extends the log or is empty; plugin_startup then replays   *)
(* the whole log into an empty database.                                   *)
(***************************************************************************)
EXTENDS ChainPlugin, TLAPS

(* The database extends the block log, or is empty and not yet running.   *)
DbExtendsLogOrWiped ==
    \/ IsChainPrefix(log, db)
    \/ db = <<>> /\ status # "running"

ChainIInv ==
    /\ db \in Seq(BlockIds)
    /\ log \in Seq(BlockIds)
    /\ status \in {"stopped", "initialized", "running"}
    /\ DbExtendsLogOrWiped

(* Every chain is a prefix of itself.                                      *)
LEMMA PrefixRefl ==
    ASSUME NEW s \in Seq(BlockIds)
    PROVE  IsChainPrefix(s, s)
BY DEF IsChainPrefix

(* A prefix stays one when a block is appended to the longer chain, or     *)
(* when the longer chain loses a block beyond the prefix.                  *)
LEMMA PrefixAppend ==
    ASSUME NEW s \in Seq(BlockIds), NEW t \in Seq(BlockIds), NEW b \in BlockIds,
           IsChainPrefix(s, t)
    PROVE  IsChainPrefix(s, Append(t, b))
BY DEF IsChainPrefix

LEMMA PrefixTruncate ==
    ASSUME NEW s \in Seq(BlockIds), NEW t \in Seq(BlockIds),
           IsChainPrefix(s, t), Len(t) > Len(s)
    PROVE  /\ SubSeq(t, 1, Len(t) - 1) \in Seq(BlockIds)
           /\ IsChainPrefix(s, SubSeq(t, 1, Len(t) - 1))
BY DEF IsChainPrefix

(* The prefix grows by the next block of the longer chain.                 *)
LEMMA PrefixExtend ==
    ASSUME NEW s \in Seq(BlockIds), NEW t \in Seq(BlockIds),
           IsChainPrefix(s, t), Len(s) < Len(t)
    PROVE  /\ Append(s, t[Len(s) + 1]) \in Seq(BlockIds)
           /\ IsChainPrefix(Append(s, t[Len(s) + 1]), t)
BY DEF IsChainPrefix

LEMMA InitChainIInv == Init => ChainIInv
BY DEF Init, ChainIInv, DbExtendsLogOrWiped, IsChainPrefix

(* A wipe empties the database; without one, nothing changes but the       *)
(* status, which leaves "running".                                         *)
LEMMA InitializeChainIInv ==
    ASSUME ChainIInv, NEW replay \in BOOLEAN, NEW resync \in BOOLEAN, NEW cps,
           plugin_initialize(replay, resync, cps)
    PROVE  ChainIInv'
<1>1. status' = "initialized"
  BY DEF plugin_initialize
<1>2. db' \in Seq(BlockIds) /\ log' \in Seq(BlockIds)
  BY DEF plugin_initialize, ChainIInv
<1>3. CASE replay \/ resync
  <2>1. db' = <<>>
    BY <1>3 DEF plugin_initialize
  <2> QED BY <1>1, <1>2, <2>1 DEF ChainIInv, DbExtendsLogOrWiped
<1>4. CASE ~(replay \/ resync)
  <2>1. db' = db /\ log' = log
    BY <1>4 DEF plugin_initialize
  <2> QED BY <1>1, <1>2, <2>1 DEF ChainIInv, DbExtendsLogOrWiped
<1> QED BY <1>3, <1>4

(* Startup replays the log into a database that lacks its blocks; a        *)
(* database that already extends the log is kept.                          *)
LEMMA StartupChainIInv == ChainIInv /\ plugin_startup => ChainIInv'
<1> SUFFICES ASSUME ChainIInv, plugin_startup PROVE ChainIInv'
  OBVIOUS
<1>1. status' = "running" /\ log' = log
  BY DEF plugin_startup
<1>2. CASE IsChainPrefix(log, db)
  <2>1. db' = db
    BY <1>2 DEF plugin_startup, IsChainPrefix
  <2> QED BY <1>1, <1>2, <2>1 DEF ChainIInv, DbExtendsLogOrWiped
<1>3. CASE db = <<>> /\ log # <<>>
  <2>1. Len(db) < Len(log)
    BY <1>3 DEF ChainIInv
  <2>2. db' = log
    BY <2>1 DEF plugin_startup
  <2> QED BY <1>1, <2>2, PrefixRefl DEF ChainIInv, DbExtendsLogOrWiped
<1>4. CASE db = <<>> /\ log = <<>>
  BY <1>1, <1>4 DEF plugin_startup, ChainIInv, DbExtendsLogOrWiped, IsChainPrefix
<1> QED BY <1>2, <1>3, <1>4 DEF ChainIInv, DbExtendsLogOrWiped

(* A running node's database extends its log; push_block appends above it. *)
LEMMA AcceptChainIInv ==
    ASSUME ChainIInv, NEW b \in BlockIds, accept_block(b)
    PROVE  ChainIInv'
<1>1. IsChainPrefix(log, db)
  BY DEF accept_block, ChainIInv, DbExtendsLogOrWiped
<1>2. db' = Append(db, b) /\ log' = log /\ status' = status
  BY DEF accept_block
<1> QED BY <1>1, <1>2, PrefixAppend DEF ChainIInv, DbExtendsLogOrWiped

(* A commit moves the database's next block into the log.                  *)
LEMMA IrreversibleChainIInv == ChainIInv /\ Irreversible => ChainIInv'
<1> SUFFICES ASSUME ChainIInv, Irreversible PROVE ChainIInv'
  OBVIOUS
<1>1. IsChainPrefix(log, db)
  BY DEF Irreversible, ChainIInv, DbExtendsLogOrWiped
<1>2. log' = Append(log, db[Len(log) + 1]) /\ db' = db /\ status' = status
      /\ Len(log) < Len(db)
  BY DEF Irreversible
<1> QED BY <1>1, <1>2, PrefixExtend DEF ChainIInv, DbExtendsLogOrWiped

(* A fork switch undoes only a block above the log.                        *)
LEMMA UndoChainIInv == ChainIInv /\ UndoBlock => ChainIInv'
<1> SUFFICES ASSUME ChainIInv, UndoBlock PROVE ChainIInv'
  OBVIOUS
<1>1. IsChainPrefix(log, db)
  BY DEF UndoBlock, ChainIInv, DbExtendsLogOrWiped
<1>2. db' = SubSeq(db, 1, Len(db) - 1) /\ log' = log /\ status' = status
      /\ Len(db) > Len(log)
  BY DEF UndoBlock
<1> QED BY <1>1, <1>2, PrefixTruncate DEF ChainIInv, DbExtendsLogOrWiped

LEMMA NextChainIInv == ChainIInv /\ [Next]_vars => ChainIInv'
<1> SUFFICES ASSUME ChainIInv, [Next]_vars PROVE ChainIInv'
  OBVIOUS
<1>1. CASE \E replay, resync \in BOOLEAN, cps \in CheckpointOptions :
              plugin_initialize(replay, resync, cps)
  BY <1>1, InitializeChainIInv
<1>2. CASE plugin_startup
  BY <1>2, StartupChainIInv
<1>3. CASE \E b \in BlockIds : accept_block(b)
  BY <1>3, AcceptChainIInv
<1>4. CASE Irreversible
  BY <1>4, IrreversibleChainIInv
<1>5. CASE UndoBlock
  BY <1>5, UndoChainIInv
<1>6. CASE Stop
  BY <1>6 DEF Stop, ChainIInv, DbExtendsLogOrWiped, IsChainPrefix
<1>7. CASE UNCHANGED vars
  BY <1>7 DEF vars, ChainIInv, DbExtendsLogOrWiped, IsChainPrefix
<1> QED BY <1>1, <1>2, <1>3, <1>4, <1>5, <1>6, <1>7 DEF Next

(* Whenever the node runs, its database holds the block log's irreversible *)
(* chain as a prefix: the wipes of plugin_initialize (lines 67-72), the    *)
(* replay of plugin_startup (line 96), push_block (line 117), commits and  *)
(* fork switches keep the two together across any restarts.                *)
THEOREM LogPrefixOfDbSafe == Spec => []LogPrefixOfDb
<1>1. Init => ChainIInv
  BY InitChainIInv
<1>2. ChainIInv /\ [Next]_vars => ChainIInv'
  BY NextChainIInv
<1>3. ChainIInv => LogPrefixOfDb
  BY DEF ChainIInv, DbExtendsLogOrWiped, LogPrefixOfDb
<1> QED BY <1>1, <1>2, <1>3, PTL DEF Spec
====

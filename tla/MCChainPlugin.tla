---------------------------- MODULE MCChainPlugin ----------------------------
EXTENDS ChainPlugin, TLC

CONSTANTS b1, b2

MCBlockIds == {b1, b2}
(* No option, one checkpoint for block 1 or 2, and two for block 1.       *)
MCCheckpointOptions ==
    {<<>>, <<<<1, b1>>>>, <<<<1, b2>>>>, <<<<2, b2>>>>, <<<<1, b1>>, <<1, b2>>>>}
====

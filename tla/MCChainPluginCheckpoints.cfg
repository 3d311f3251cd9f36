CONSTANTS
    b1 = b1
    b2 = b2
    BlockIds <- MCBlockIds
    CheckpointOptions <- MCCheckpointOptions
    MaxBlocks = 2
    MaxRestarts = 3
SPECIFICATION Spec
INVARIANTS CheckpointsEnforced
CHECK_DEADLOCK FALSE

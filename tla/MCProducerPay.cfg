CONSTANTS
    p1 = p1
    p2 = p2
    eosio = eosio
    Producers <- MCProducers
    System = eosio
    MinActivatedStake = 1
    StakeLevels <- MCStakeLevels
    VoteLevels <- MCVoteLevels
    UsecsPerDay = 2
    UsecsPerYear = 4
    RateNum = 1
    RateDen = 2
    MinVotePay = 2
    ScheduleInterval = 2
    InitialSupply = 100
    GenesisTime = 1
    MaxTime = 6
SPECIFICATION Spec
SYMMETRY Symmetry
INVARIANTS
    UnpaidBlocksConsistent
    BucketsBacked
    BucketsNonNegative

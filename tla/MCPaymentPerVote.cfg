CONSTANTS
    a = a
    b = b
    c = c
    Producers <- MCProducers
    VoteLevels <- MCVoteLevels
    Buckets <- MCBuckets
    MinDailyAmount = 2
SPECIFICATION Spec
INVARIANTS
    PaymentCorrect
CHECK_DEADLOCK FALSE

\* Up to three build rows over colliding and non-colliding keys.
SPECIFICATION Spec
CONSTANTS
    NumBuckets = 2
    NumKeys = 2
    Fields = {0, 1}
    Payloads = {"p", "q"}
    Hash <- CollidingHash
    MaxEntries = 3
INVARIANTS TypeOK MatchesExact
PROPERTIES ProbesEnd Implements

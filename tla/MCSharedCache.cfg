\* Two widgets' readers and the owner, two calls each.
SPECIFICATION FairSpec
CONSTANTS
    Owner = owner
    Readers = {r1, r2}
    None = none
    MaxCalls = 2
INVARIANTS
    TypeOK
    NoLostWakeup
    NoCallIsRefused
    IdleHoldsNothing
PROPERTIES
    CallsReturn
    QueriesAreSnapshots

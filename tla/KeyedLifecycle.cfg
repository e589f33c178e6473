\* A loss to any kept prefix, deletes, expiry, recreation and stale tokens; closes, Stream-Seq and refused content; two identities per key.
SPECIFICATION Spec
CONSTANTS
    d0 = d0
    d1 = d1
    Digest = {d0, d1}
    NoDigest = d0
    NoRecord = NoRecord
    NoProducer = NoProducer
    NoSlot = NoSlot
    NoToken = NoToken
    Producer = {1}
    Writers = {1, NoProducer}
    Clock = {0, 1}
    Epochs = {0}
    Seqs = {0, 1}
    Bodies <- Mixed
    Ttls = {1}
    Expiries <- NoTtl
    IdleExpiry = 1
    EvictIdle = 1
    MaxProducers = 1
    EvictBudget = 1
    TidyBudget = 1
    MaxCreatedAt = 2
    MaxWrites = 2
    MaxHistories = 2
    MaxRemovals = 1
    ClocksKeepUp = TRUE
INVARIANTS IInv HistoryFence InheritedTruth RepeatTruth
PROPERTIES TokenNeverReused GenerationFresh
CHECK_DEADLOCK FALSE

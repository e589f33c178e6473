\* Retirement: idle expiry, the cap and tidying against tokened and
\* untokened writers of two producers; no loss, no expiry.
SPECIFICATION Spec
CONSTANTS
    d0 = d0
    d1 = d1
    Digest = {d0}
    NoDigest = d0
    NoRecord = NoRecord
    NoProducer = NoProducer
    NoSlot = NoSlot
    NoToken = NoToken
    Producer = {1, 2}
    Writers = {1, 2}
    Clock = {0, 2}
    Epochs = {0, 1}
    Seqs = {0, 1}
    Bodies <- OneByte
    Ttls <- NoTtl
    Expiries <- NoTtl
    IdleExpiry = 2
    EvictIdle = 1
    MaxProducers = 1
    EvictBudget = 1
    TidyBudget = 1
    MaxCreatedAt = 9
    MaxWrites = 4
    MaxHistories = 1
    MaxRemovals = 0
    ClocksKeepUp = FALSE
INVARIANTS TypeOK ExactlyOnce RefusalEscapable CapHeld ClosedReportFinal
CHECK_DEADLOCK FALSE

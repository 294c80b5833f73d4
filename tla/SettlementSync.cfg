CONSTANTS
    Invoices = {"inv1", "inv2"}
    Other = "other"
    LedgerContents <- MCContents
    BackfillRanges <- MCRanges
    PageLimit = 2
    MaxAttempts = 2
    MaxTip = 3
    MaxFaults = 2
SPECIFICATION FairSyncSpec
INVARIANTS
    SyncInv
    PassedLedgersAreApplied
PROPERTIES
    SettlementsReachDatabase
CHECK_DEADLOCK FALSE

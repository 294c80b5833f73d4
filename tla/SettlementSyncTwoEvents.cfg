CONSTANTS
    Invoices = {"inv1", "inv2"}
    Other = "other"
    LedgerContents <- MCDouble
    BackfillRanges <- MCNoRanges
    PageLimit = 3
    MaxAttempts = 2
    MaxTip = 3
    MaxFaults = 1
SPECIFICATION SyncSpec
INVARIANTS
    CursorPassesOnlyApplied
CHECK_DEADLOCK FALSE

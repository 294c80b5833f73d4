CONSTANTS
    a1 = a1
    a2 = a2
    a3 = a3
    i1 = i1
    i2 = i2
    n1 = n1
    n2 = n2
    Address <- MCAddress
    SignerVecs <- MCSignerVecs
    RoleGrants = {}
    Timelocks = {1}
    MIN_ADMIN_TRANSFER_TIMELOCK_LEDGERS = 1
    U32Max = 20
    MaxLedger = 0
    I128Max = 100000
    SInvoiceIds = {i1, i2}
    Parties <- MCParties
    RecordAmounts = {4}
    RecordDueDates = {3}
    FeeRates = {5000}
    Nonces = {n1, n2}
    PayAmounts = {0, 3, 5}
    FeeWithdrawals <- MCFeeWithdrawals
    MaxPot = 5
    MaxPaidOut = 5
    ConfigKeys = {"FinancingPoolAddress"}
    AuthFlags <- MCAuthFlags
    Clock = {0, 9}
    NONCE_WINDOW = 6
SPECIFICATION SCSpec
INVARIANT FeePayoutsAreBacked
CHECK_DEADLOCK FALSE

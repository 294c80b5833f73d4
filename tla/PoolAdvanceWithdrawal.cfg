CONSTANTS
    a1 = a1
    a2 = a2
    a3 = a3
    Address <- MCAddress
    SignerVecs <- MCSignerVecs
    RoleGrants <- MCRoleGrants
    OracleConfigs <- MCOracleConfigs
    Timelocks = {1}
    MIN_ADMIN_TRANSFER_TIMELOCK_LEDGERS = 1
    U32Max = 20
    MaxLedger = 1
    I128Max = 100000
    InvoiceIds = {1, 2}
    PoolAmounts = {0, 4, 9}
    FaceValues = {0, 1, 5, 12}
    DiscountBps = {1000, 10000}
    PriceTimestamps = {0}
    BPS_DENOMINATOR = 10000
    MAX_PRICE_AGE_LEDGERS = 0
    MaxDeposited = 9
SPECIFICATION FPSpec
PROPERTY AdvanceIsWithdrawable
CHECK_DEADLOCK FALSE

CONSTANTS
    a1 = a1
    a2 = a2
    a3 = a3
    i1 = i1
    i2 = i2
    n1 = n1
    n2 = n2
    Address <- MCAddress
    SignerVecs <- MCSignerVecs
    RoleGrants <- MCRoleGrants
    Timelocks = {0, 1, 2}
    MIN_ADMIN_TRANSFER_TIMELOCK_LEDGERS = 1
    U32Max = 3
    MaxLedger = 3
    I128Max = 100000
    Amounts = {0, 5}
    DueDates = {7}
    DiscountRates = {500, 10000}
    MAX_DISCOUNT_BPS = 10000
    U64Max = 7
    MaxInvoices = 2
    OracleConfigs <- MCOracleConfigs
    InvoiceIds = {1, 2}
    PoolAmounts = {0, 4, 9}
    FaceValues = {0, 1, 5, 12}
    DiscountBps = {1000, 10000}
    PriceTimestamps = {0}
    BPS_DENOMINATOR = 10000
    MAX_PRICE_AGE_LEDGERS = 0
    MaxDeposited = 9
    SInvoiceIds = {i1, i2}
    Parties <- MCParties
    RecordAmounts = {4}
    RecordDueDates = {3}
    FeeRates = {5000, 20000}
    Nonces = {n1, n2}
    PayAmounts = {0, 3, 5}
    FeeWithdrawals <- MCFeeWithdrawals
    MaxPot = 5
    MaxPaidOut = 5
    ConfigKeys = {"FinancingPoolAddress"}
    AuthFlags <- MCAuthFlags
    Clock = {0, 9}
    NONCE_WINDOW = 6
SYMMETRY MCSymmetry
SPECIFICATION MCSpec
INVARIANTS
    ACTypeOK
    ConfirmersAreCurrentSigners
    QuorumStaysReachable
    ICTypeOK
    TokenMirrorsInvoice
    ApprovalIsTheOwners
    FPTypeOK
    LiquidityConservation
    AdvanceIsExactFloor
    ClaimsExceedLiquidityByAdvances
    SettlementInv
    NonceSingleUse
PROPERTIES
    SignerSetChangesByQuorum
    SettledIsFrozen
    ImplementsLifecycle
    FundingIsImmutable
    PrincipalGatesSettled
CHECK_DEADLOCK FALSE

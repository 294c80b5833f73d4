CONSTANTS
    u1 = u1
    p1 = p1
    q1 = q1
    q2 = q2
    q3 = q3
    c1 = c1
    c2 = c2
    c3 = c3
    o1 = o1
    o2 = o2
    adm = adm
    s1 = s1
    s2 = s2
    s3 = s3
    n1 = n1
    n2 = n2
    f1 = f1
    f2 = f2
    i1 = i1
    i2 = i2
    w1 = w1
    w2 = w2
    w3 = w3
    d1 = d1
    d2 = d2
    k1 = k1
    k2 = k2
    t1 = t1
    t2 = t2
    v1 = v1
    v2 = v2
    x1 = x1
    HttpRequests = {q1, q2, q3}
    Instances = {n1, n2}
    Identity = {u1, p1}
    Users = {u1}
    WindowMs = 1
    MaxRequests <- MCMaxRequests
    MaxClock = 2
    Calls = {c1, c2, c3}
    FailureThreshold = 3
    StalenessFailureThreshold = 2
    SuccessThresholdHalfOpen = 2
    ResetTimeoutMs = 2
    Owners = {o1, o2}
    Admins = {adm}
    SubIds = {s1, s2, s3}
    Sessions = {f1, f2}
    MAX_SUBSCRIPTIONS_PER_OWNER = 2
    NumFeeds = 2
    Polls = {k1, k2}
    MaxPolls = 4
    MaxOracleClock = 4
    StalenessThreshold = 2
    WarningThreshold = 1
    MaxConsecutiveFailures = 2
    FallbackRiskPremiumBps = 10
    MaxRiskPremiumBps = 5
    NoFallback = NoFallback
    RemInvoices = {i1, i2}
    Schedulers = {n1, n2}
    QueueAttempts = 2
    MaxAttempts = 2
    KeepFailed = 1
    MaxWindow = 1
    MaxCronRuns = 2
    Operations = {c1, c2}
    MAX_ROTATION_RETRIES = 1
    MaxRotations = 3
    NoSecrets = NoSecrets
    ExpInvoices = {i1}
    Wallets = {w1, w2, w3}
    ComplianceAdmins = {adm}
    ExpJobs = {d1}
    FaceValues = {2}
    FundedAmounts = {1}
    Thresholds = {1, 2}
    NoWallet = NoWallet
    NoDoc = NoDoc
    MaxMonLedger = 3
    MaxFundings = 2
    FundingWindow = 1
    FundingAmounts = {2}
    LargeFundingAmount = 2
    FundingVolumeThreshold = 3
    Pages = {t1, t2}
    NumMutations = 2
    NumSharedMutations = 1
    MaxReplayAttempts = 2
    MaxTimers = 1
    MaxFaults = 2
    MaxSharedFaults = 1
    NoItem = NoItem
    Clicks = {c1, c2}
    ValidForms = {v1, v2}
    InvalidForms = {x1}
    NoTx = NoTx
    FaceValue <- MCFaceValue
    MaxEdits = 3
    MaxListed = 3
    PAGE_SIZE = 1
    MaxPage = 4
SPECIFICATION ApplicationSpec
INVARIANT RollingWindow
CHECK_DEADLOCK FALSE

CONSTANTS
    Requests = {r1, r2}
    Keys = {k1, k2}
    r1 = r1
    r2 = r2
    k1 = k1
    k2 = k2
    i1 = i1
    w1 = w1
    w2 = w2
    Invoices = {i1}
    Wallets = {w1, w2}
    None = None
SPECIFICATION FundingSpec
INVARIANTS
    FundingInv
    AnswersAreTrue
    OneHandlerPerKey
CHECK_DEADLOCK FALSE

CONSTANTS
    s1 = s1
    s2 = s2
    e1 = e1
    w1 = w1
    w2 = w2
    Subscriptions = {s1, s2}
    Events = {e1}
    Workers = {w1, w2}
    BATCH_SIZE = 2
    MAX_DELIVERY_ATTEMPTS = 2
    SlowWorkers = FALSE
    MaxDispatches = 2
    MaxFaults = 2
SPECIFICATION FairWebhookSpec
INVARIANTS
    WebhookInv
    OneAttemptInFlight
PROPERTIES
    TerminalIsFinal
    EveryRowResolved
CHECK_DEADLOCK FALSE

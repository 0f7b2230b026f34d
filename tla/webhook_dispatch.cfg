SPECIFICATION FairSpec
CONSTANTS
    d1 = d1
    d2 = d2
    e1 = e1
    w1 = w1
    w2 = w2
    u1 = u1
    Deliveries = {d1, d2}
    Events = {e1}
    Workers = {w1, w2}
    MaxAttemptsOf <- MixedAttempts
    RetrySchedule <- RetryAfterOne
    AttemptLimit = 2
    LeaseDuration = 1
    Urls = {u1}
    Learned = {"success", "http_error", "secret_decryption_failed", "status_out_of_range"}
    MaxConfig = 2
    MaxClock = 8
INVARIANTS
    TypeOK
    RowsConsistent
    OutcomeIsTrue
    ConfigurationSound
PROPERTIES
    EventuallyFinished
    LeasesKeepHistory

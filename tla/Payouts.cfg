\* Two awards of two recipients, one schedule, one recipient with two wallets, two settlements.
CONSTANTS
    Admin = admin
    Recipients = {ann, ben}
    Programs = {stem}
    AwardIds = {a1, a2}
    AwardAmounts = {0, 1, 2}
    Deadlines = {1}
    MaxTime = 2
    Callers = {admin, ann}
    ScheduledAwards = {a1}
    Totals = {0, 1, 10}
    Percentages = {0, 3333, 3334, 6667, 10000}
    DueDates = {1, 2, 3}
    MaxInputs = 3
    MAX_MILESTONES = 3
    MaxI128 = 100000
    MaxVersion = 2
    Creators = {cleo}
    Payees = {ann}
    Wallets = {w1, w2}
    PublicKeys = {k1, k2}
    Installments = {0}
    PaymentAmounts = {0, 1}
    Ttls = {0, 1, 2}
    MAX_CHALLENGE_TTL_SECONDS = 1
    MaxChallenges = 2
    MaxWalletEpoch = 3
    IntentIds = {i1, i2, i3}
    SettlementAmounts = {0, 1, 2}
    Finalities = {0, 1, 2}
    TxHashes = {t1, t2}
    NoTx = notx
    MAX_FINALITY = 1
    MAX_TRACKED_INTENTS = 2
    MaxLedger = 3
    MaxAlerts = 2
SPECIFICATION Spec
INVARIANTS
    TypeOK
    ReservationsExact
    PaidUnderAgreement
    ScheduleConserves
    PaidToProvenWallet
    
PROPERTIES
    ReleasesFreezePlan
    VerdictsSticky
\* A program whose awards are all closed has nothing left to do.
CHECK_DEADLOCK FALSE

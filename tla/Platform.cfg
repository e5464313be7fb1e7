\* Two people, one program, one asset; times 1 to 3.
CONSTANTS
    Admin = admin
    MaxTime = 3
    Works = {w1, w2}
    Vouchers = {p1, p2}
    Licensees = {ann}
    Learners = {ben}
    LicenseTimes = {1, 3}
    Spans = {0, 2}
    SeatCounts = {0, 1, 2}
    Uses = {0, 2}
    Renditions = {"audio"}
    AccessModes = {"read"}
    MigrationPolicies = {"OptIn", "Forced"}
    Roles = {"teacher"}
    MaxLicenses = 1
    MaxGrants = 2
    MaxDerived = 1
    MaxAllocations = 2
    Librarians = {ben}
    Patrons = {ann}
    Loans = {"atlas", "novel"}
    FineAmounts = {0, 1, 2}
    Policies <- FinePolicies
    LoanStarts = {1}
    FineExpiries = {2, 3}
    Nonces = {n1, n2, n3}
    Refs = {r1, r2, r3}
    Settlements = {s1, s2}
    Assets = {usd}
    MaxFines = 3
    MaxEntries = 3
    MaxDeposits = 2
    MaxAttestations = 2
    MaxCorrections = 2
    FundPrograms = {stem}
    PublishedPrograms = {stem}
    PaidIntents <- PaidTuition
    Amounts = {0, 1, 3}
    FeeBases <- Bases
    NetworkFees <- NetworkCosts
    RoundTimes = {0, 2}
    MAX_LEDGER_ENTRIES = 3
    MaxFeeVersion = 2
    MaxReturns = 2
    MaxRounds = 1
    Ann = ann
    Ben = ben
    Depositors = {ann, ben}
    Approvers = {cal, dee}
    TransferAmounts = {0, 1, 3}
    MaxVaults = 2
    Manifests <- Splits
    TOTAL_BPS = 10000
    MAX_RECIPIENTS = 3
    MaxDistributed = 4
    Students = {ann, ben}
    Courses = {"logic"}
    Instructors = {ben}
    FeePercents = {5000, 10001}
    InitialFee = 1000
    MaxFee = 10000
    RefundWindow = 0
    MaxPayments = 3
    Holders = {admin, ann, ben}
    MAX_SUPPLY = 4
    Supply = 3
    TokenAmounts = {0, 1, 2, 5}
    Spenders = {ben}
    ApprovalInputs <- Approvals
    Candidates = {ann}
    Never = never
    RoyaltyInputs <- Royalties
    VestingInputs <- Vestings
    RevokeDelays = {0, 1}
    MinRevokeDelay = 1
    VestingFunds = 4
    MaxVestings = 2
    Actors = {ann, ben}
    Operations = {"award"}
    Keys = {k1, k2}
    Results = {"ok"}
    Ttls = {0, 1, 9}
    DEFAULT_KEY_TTL_SECONDS = 1
    MAX_KEY_TTL_SECONDS = 2
    MAX_PENDING_PER_ACTOR_OP = 1
    LimitedActions = {"apply", "pay"}
    SeededConfigs <- Seeded
    ActionConfigs <- Reconfigured
    MAX_BUCKETS = 3
    Operators = {ben}
    Systems = {"paper", "sheets"}
    LegacyIds = {"l1", "l2"}
    Payloads = {"zero", "one", "two"}
    NoPayload = "zero"
    MAX_RUNS = 1
    MAX_TRACKED_RECORDS = 1
    MAX_REPORTED_PER_RUN = 1
    MaxRunId = 2
    MaxCursor = 2
    Issuers = {uni, city}
    Subjects = {ann}
    EligPrograms = {stem}
    GlobalScope = "global"
    AttestationTypes = {"enrolled"}
    TypeRules <- RequiredTypes
    Criteria = {"senior", "local", "blank"}
    ValidCriteria = {"senior", "local"}
    CriterionRules <- RequiredCriteria
    Expiries = {2, 3}
    MAX_RULE_REQUIREMENTS = 2
    MAX_MENTORSHIP_CRITERIA = 2
    MaxRules = 2
    ReviewPrograms = {stem}
    Applicants = {ann, ben}
    Reviewers = {rae, sam}
    ReviewLimits <- Limits
    Rubrics <- Sheets
    ScoreSheets <- Scores
    BPS_DENOMINATOR = 10000
    MAX_CRITERIA = 2
    MAX_CRITERION_SCORE = 3
    MAX_REVIEWERS = 2
    MaxRubrics = 2
    MaxConfigVersion = 2
    CertAdmins = {admin, ben}
    FirstAdmin = admin
    BackendKeys = {"key1", "key2"}
    FirstKey = "key1"
    Minters = {admin, ben}
    FirstMinter = admin
    Recipients = {ann}
    CertCourses = {"logic"}
    ProofTimes = {2, 3}
    ADMIN_TRANSFER_TTL = 0
    ROTATION_PROPOSAL_TTL = 1
    MaxTokens = 3
SYMMETRY Interchangeable
SPECIFICATION Spec
INVARIANTS
    TypeOK
    
    

    
\* A behaviour ends when every id is used and the clock has reached its bound.
CHECK_DEADLOCK FALSE

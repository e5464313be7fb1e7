\* One mentor, one mentee, one more person; times 1 and 2.
CONSTANTS
    Admin = admin
    Officers = {officer}
    Mentors = {ann}
    Mentees = {ben, cy}
    Persons = {ann, ben, cy}
    Programs = {stem}
    Nobody = nobody
    MaxTime = 2
    MatchIds = {m1, m2}
    RequestIds = {r1, r2}
    Successors = {ann, cy}
    InitialWindow = 1
    Windows = {0, 1}
    MinWindow = 1
    MaxWindow = 2
    MAX_REQUESTS_PER_MATCH = 2
    MAX_COORDINATORS = 1
    OfferInputs <- TwoOffers
    NoTerms = "zero"
    MaxLifetime = 2
    MAX_PENDING_PROPOSALS_PER_PROGRAM = 2
    MAX_COORDINATOR_ACTIONS = 1
    MaxProposals = 2
    MaxProposalVersion = 2
    StatusInputs <- MentorStatuses
    Blockers = {ann, cy}
    ExportedIds = {"agreement"}
    GrantIds = {x1, x2, x3}
    TermsVersions = {1, 2}
    SessionMoney <- SessionIncome
    InitialExportPolicy <- FirstExportPolicy
    ExportPolicies <- LaterExportPolicies
    MinExportWindow = 1
    MaxExportWindow = 2
    MinGrantTtl = 1
    MaxGrantTtl = 2
    MAX_AMENDMENTS = 1
    MAX_APPROVALS = 2
    MAX_SESSION_SUMMARIES = 2
    MAX_EXPORT_AUDIT = 4
    MaxI128 = 3
    EngagementIds = {e1}
    CaseRefs = {k1}
    ConductCallers = {admin, ann}
    ConductPersons = {ann, ben}
    BreachSubjects = {ben}
    EffectiveTimes = {0, 1}
    MAX_POLICY_VERSION = 2
    EngagedMentees = {ann, ben}
    Guardians = {gus}
    Strangers = {}
    Threshold = 1
    PausePolicies = {TRUE, FALSE}
    Plans = {2}
    PauseDates = {1, 2}
    ConsentEnds = {2}
    MaxEngagements = 1
    MaxOutcomes = 2
    MaxFeedback = 1
    Signers = {ann, ben}
    TermTimes = {1, 2}
    Prices <- SignedPrices
    AmendedTerms <- AmendableTerms
    MaxAgreements = 1
    MaxAmendments = 2
    MaxNonce = 2
    Applicants = {ben, cy}
    AdmissionPolicies <- ProgramPolicies
    ReasonCodes = {0, 1}
    ConsentVersions = {1, 2}
    MAX_ACTIVE_APPLICATIONS = 2
    MAX_DECISIONS_PER_APPLICATION = 2
    MaxOpened = 2
    IntakeReviewers = {rae}
    Tokens = {t1, t2}
    Forms <- TwoForms
    Deadlines = {1}
    Answers = {"yes", "no"}
    NoAnswer = "none"
    AnswerSheets <- ThreeSheets
    Capacities = {0, 1}
    DueDates = {2}
    Priorities = {"Normal", "Urgent"}
    MAX_QUESTIONS = 2
    MAX_QUEUE = 2
    MAX_REVIEWERS = 2
    MAX_INTAKE_AUDIT = 3
    MaxFormVersion = 1
    MaxTerms = 1
    MaxRevision = 2
SPECIFICATION Spec
INVARIANTS
    TypeOK
    CountersExact
    
    
PROPERTIES
    AgreedStands
\* A behaviour ends when every id is used and the clock has reached its bound.
CHECK_DEADLOCK FALSE

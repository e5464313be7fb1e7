\* The constants of Selection.cfg; what the documentation says of removed members.
CONSTANTS
    Admin = admin
    Callers = {admin, ann}
    Programs = {stem}
    Applicants = {ann, ben}
    MaxTime = 2
    MaxVersion = 5
    Instants = {0, 1, 2}
    Headcounts = {0, 1, 2}
    AwardAmounts = {0, 1, 2}
    MaxU64 = 3
    MaxI128 = 3
    Deadlines = {0}
    Hashes = {h1}
    ZeroHash = zero
    MaxIntakeVersion = 2
    MaxForms = 1
    MaxTerms = 1
    MaxIntakeTime = 1
    MaxRequests = 2
    MaxExports = 2
    Reviewers = {rae, sam}
    ReviewedPrograms = {stem}
    ApplicationIds = {x1, x2}
    Capacities = {1, 2}
    SeedOffsets = {0, 3}
    Modes = {"Open", "DoubleBlind"}
    MaxPool = 2
    Chairs = {chair}
    Panel = {judge}
    ChairChoices = {"Award", "Reject"}
    PanelChoices = {"Award", "Waitlist", "Recuse"}
    Candidates = {ann, ben}
    Quorums = {0, 1, 3}
    Budgets = {0, 1}
    Periods = {0, 1}
    EvidenceVersions = {0, 1}
    MAX_MEMBERS = 2
SPECIFICATION Spec
PROPERTIES
    RemovedMembersDoNotCount
\* A program whose decisions are all settled has nothing left to do.
CHECK_DEADLOCK FALSE

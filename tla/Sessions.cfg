\* A mentor with two mentees; two programs' worth of slots; one owner, cohort and program each.
CONSTANTS
    Admin = admin
    Registrars = {reg}
    Mentors = {ann}
    Mentees = {ben, cy}
    AgreementIds = {g1, g2}
    SessionIds = {s1, s2}
    ProposalIds = {p1}
    BookingKeys = {k1}
    Starts = {2, 4}
    Durations = {2, 3}
    MinDuration = 1
    MaxDuration = 2
    InitialLeadTime = 0
    LeadTimes = {0, 2}
    MaxLeadTime = 1
    DefaultNotice = 0
    Notices = {0}
    DefaultWindow = 1
    Windows = {2}
    MinApprovalWindow = 1
    MaxApprovalWindow = 2
    MAX_SESSIONS_PER_PARTICIPANT = 2
    MAX_RESCHEDULES_PER_SESSION = 1
    MaxScheduling = 3
    ScheduleInputs <- Weeks
    ExceptionIds = {e1}
    ExceptionInputs <- OneOffs
    OtherContract = other
    AvailabilityAddress = avail
    DayLength = 4
    WestmostOffset = 1
    EastmostOffset = 1
    MAX_WEEKLY_WINDOWS = 3
    MAX_OFFSET_CHANGES = 1
    MAX_EXCEPTIONS = 1
    MaxExceptionSpan = 2
    MaxLead = 1
    MaxBuffer = 1
    MaxHorizonDays = 2
    MaxScheduleVersion = 2
    Programs = {stem}
    EveryProgram = every
    PolicyInputs <- SessionRules
    SlotPersons = {eve, fay}
    BlackoutIds = {x1}
    BlackoutRanges <- Closures
    BookingIds = {b1, b2}
    SlotStarts = {2, 3}
    MinSession = 1
    MaxSession = 2
    MinGranularity = 1
    MaxGranularity = 2
    MAX_SESSIONS_PER_DAY = 2
    MAX_BLACKOUTS = 1
    MaxBlackoutSpan = 1
    MAX_BOOKINGS_PER_PARTICIPANT = 2
    SearchEnd = 8
    MaxSlots = 2
    Owners = {ann}
    ConnectionIds = {cal1, cal2}
    ScopeMasks <- Scopes
    CalendarExpiries = {1, 2, 3}
    Epochs = {1, 2, 3}
    PayloadHashes = {h1, h2}
    ZeroHash = zero
    BusyLists <- Imports
    MAX_CONNECTIONS_PER_OWNER = 2
    MAX_BUSY_WINDOWS = 2
    MaxWindowSpan = 4
    MaxSyncHorizon = 4
    MaxCalendar = 3
    Coordinators = {coord}
    CohortIds = {c1, c2}
    Participants = {ben, cy}
    CohortDates <- Dates
    CohortCapacities = {0, 1, 2}
    MAX_COORDINATORS = 1
    MaxCohorts = 3
    Organizers = {org}
    SeatPrograms = {stem}
    Applicants = {ben, cy, dee}
    SeatCapacities = {0, 1, 2}
    OfferTtls = {0, 1}
    MAX_WAITLIST_SIZE = 2
    ContractIds = {t1}
    Terms = {w1, w2}
    MAX_VERSIONS_PER_CONTRACT = 2
    MaxSeats = 3
SPECIFICATION Spec
SYMMETRY Interchangeable
INVARIANTS
    TypeOK
    
    SeatsExact

    
\* A behaviour ends when every id is used and the clock has reached its bound.
CHECK_DEADLOCK FALSE

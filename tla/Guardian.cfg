\* One engagement of two people with one guardian.
CONSTANTS
    Admin = admin
    Mentors = {ann, ben}
    Mentees = {ann, ben}
    Guardians = {gus}
    Strangers = {}
    Threshold = 1
    PausePolicies = {TRUE, FALSE}
    Plans = {1}
    PauseDates = {1}
    ConsentEnds = {0}
    MaxEngagements = 1
    MaxOutcomes = 2
    MaxFeedback = 0
    MaxEngagementTime = 2
SPECIFICATION Spec
INVARIANT GuardianProtection
CHECK_DEADLOCK FALSE

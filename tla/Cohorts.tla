------------------------------ MODULE Cohorts ------------------------------
(***************************************************************************)
(* contracts/mentorship-cohorts: cohorts of a program with an enrollment   *)
(* window and a capacity; coordinators enroll and withdraw participants.   *)
(* The model starts after initialize; version and references are left out. *)
(***************************************************************************)
EXTENDS Integers, FiniteSets, Storage

CONSTANTS
    Admin, Coordinators, CohortIds, Participants,
    CohortDates,                 \* <<opens, closes, starts, ends>> the admin may pass
    CoordinatorSets,             \* the coordinators the admin may appoint
    CohortCapacities, MAX_COORDINATORS

VARIABLES
    now,
    cohorts,     \* DataKey::Cohort: id -> configuration
    enrollments  \* DataKey::Enrollment: <<cohort, participant>> -> status

cohortVars == <<cohorts, enrollments>>

CohortConfig ==
    [opens : Nat, closes : Nat, capacity : Nat, active_count : Nat,
     coordinators : SUBSET Coordinators]
EnrollmentStatus == {"Active", "Withdrawn"}

Init == cohorts = Empty /\ enrollments = Empty

RequireAdmin(caller) == caller = Admin
RequireCoordinator(caller, id) == Has(cohorts, id) /\ caller \in cohorts[id].coordinators

ValidateConfig(dates, capacity, coordinators) ==
    /\ capacity # 0
    /\ dates[1] < dates[2] /\ dates[2] <= dates[3] /\ dates[3] < dates[4]
    /\ Cardinality(coordinators) \in 1..MAX_COORDINATORS

CreateCohort(caller, id, dates, capacity, coordinators) ==
    /\ RequireAdmin(caller)
    /\ ~Has(cohorts, id)
    /\ ValidateConfig(dates, capacity, coordinators)
    /\ cohorts' = Set(cohorts, id,
           [opens |-> dates[1], closes |-> dates[2], capacity |-> capacity,
            active_count |-> 0, coordinators |-> coordinators])
    /\ UNCHANGED enrollments

UpdateCohort(caller, id, dates, capacity, coordinators) ==
    /\ RequireAdmin(caller)
    /\ Has(cohorts, id)
    /\ ValidateConfig(dates, capacity, coordinators)
    /\ capacity >= cohorts[id].active_count
    /\ cohorts' = [cohorts EXCEPT ![id] =
           [opens |-> dates[1], closes |-> dates[2], capacity |-> capacity,
            active_count |-> @.active_count, coordinators |-> coordinators]]
    /\ UNCHANGED enrollments

\* A withdrawn participant cannot enroll again.
Enroll(caller, id, p) ==
    /\ RequireCoordinator(caller, id)
    /\ now \in cohorts[id].opens..cohorts[id].closes
    /\ ~Has(enrollments, <<id, p>>)
    /\ cohorts[id].active_count < cohorts[id].capacity
    /\ enrollments' = Set(enrollments, <<id, p>>, "Active")
    /\ cohorts' = [cohorts EXCEPT ![id].active_count = @ + 1]

\* Fault: the place is not given back.
FaultWithdraw(caller, id, p) ==
    /\ RequireCoordinator(caller, id)
    /\ Has(enrollments, <<id, p>>)
    /\ enrollments[<<id, p>>] # "Withdrawn"
    /\ enrollments' = [enrollments EXCEPT ![<<id, p>>] = "Withdrawn"]
    /\ UNCHANGED cohorts
Withdraw(caller, id, p) ==
    /\ RequireCoordinator(caller, id)
    /\ Has(enrollments, <<id, p>>)
    /\ enrollments[<<id, p>>] # "Withdrawn"
    /\ enrollments' = [enrollments EXCEPT ![<<id, p>>] = "Withdrawn"]
    /\ cohorts' = [cohorts EXCEPT ![id].active_count = @ - 1]

Next ==
    \E caller \in Coordinators \cup {Admin}, id \in CohortIds :
        \/ \E dates \in CohortDates, capacity \in CohortCapacities,
              coordinators \in CoordinatorSets :
                  \/ CreateCohort(caller, id, dates, capacity, coordinators)
                  \/ UpdateCohort(caller, id, dates, capacity, coordinators)
        \/ \E p \in Participants : Enroll(caller, id, p) \/ Withdraw(caller, id, p)

-----------------------------------------------------------------------------
(* Properties *)

\* Every stored value stays in its type.
TypeOK ==
    /\ \A id \in DOMAIN cohorts : cohorts[id] \in CohortConfig
    /\ \A e \in DOMAIN enrollments : enrollments[e] \in EnrollmentStatus

\* The stored count of a cohort is its number of active enrollments and never exceeds
\* the capacity, also after the admin lowered it.
SeatsExact ==
    \A id \in DOMAIN cohorts :
        /\ cohorts[id].active_count =
             Cardinality({e \in DOMAIN enrollments : e[1] = id /\ enrollments[e] = "Active"})
        /\ cohorts[id].active_count <= cohorts[id].capacity
=============================================================================

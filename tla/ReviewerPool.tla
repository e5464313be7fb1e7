---------------------------- MODULE ReviewerPool ----------------------------
(***************************************************************************)
(* The review half of contracts/scholarship-applications: reviewers with a *)
(* bounded load, the pool of each program, declared conflicts of interest, *)
(* and the deterministic assignment of one reviewer to an application.     *)
(* It shares only the admin with the intake half and starts after          *)
(* initialize.  The review mode of a program is stored and never read.     *)
(***************************************************************************)
EXTENDS Integers, Sequences, FiniteSets, FiniteSetsExt, Storage

CONSTANTS
    Admin,          \* the address stored by initialize
    Reviewers,      \* addresses of reviewers
    Programs,
    ApplicationIds, \* commitments that name an application
    Capacities,     \* max_assignments the admin passes (u32)
    Pools,          \* pools the admin passes (sequences of reviewers)
    SeedOffsets,    \* what seed and commitment fold to (u64)
    Modes,          \* review modes
    MaxU64          \* largest u64

VARIABLES
    profiles,    \* ReviewDataKey::Reviewer
    pools,       \* ReviewDataKey::ReviewerPool, or the empty pool
    conflicts,   \* the <<reviewer, program, application>> with ReviewDataKey::Conflict
    assignments, \* ReviewDataKey::Assignment: <<program, application>> -> reviewer
    cursors,     \* ReviewDataKey::RoundRobinCursor, or 0
    modes        \* ReviewDataKey::ReviewMode, or Open

reviewVars == <<profiles, pools, conflicts, assignments, cursors, modes>>

ReviewerProfile == [active : BOOLEAN, max_assignments : Nat, current_assignments : Nat]

RequireReviewAdmin(caller) == caller = Admin

Init ==
    /\ profiles = Empty
    /\ pools = [p \in Programs |-> <<>>]
    /\ conflicts = {}
    /\ assignments = Empty
    /\ cursors = [p \in Programs |-> 0]
    /\ modes = [p \in Programs |-> "Open"]

Load(r) == IF Has(profiles, r) THEN profiles[r].current_assignments ELSE 0

\* Fault: registering a reviewer again starts from an empty load.
FaultKeptLoad(r) == 0
KeptLoad(r) == Load(r)

RegisterReviewer(caller, r, max) ==
    /\ RequireReviewAdmin(caller)
    /\ profiles' = Set(profiles, r,
           [active |-> TRUE, max_assignments |-> max, current_assignments |-> KeptLoad(r)])
    /\ UNCHANGED <<pools, conflicts, assignments, cursors, modes>>

SetReviewerActive(caller, r, value) ==
    /\ RequireReviewAdmin(caller)
    /\ Has(profiles, r)
    /\ profiles' = [profiles EXCEPT ![r].active = value]
    /\ UNCHANGED <<pools, conflicts, assignments, cursors, modes>>

SetReviewerPool(caller, p, pool) ==
    /\ RequireReviewAdmin(caller)
    /\ pools' = [pools EXCEPT ![p] = pool]
    /\ UNCHANGED <<profiles, conflicts, assignments, cursors, modes>>

DeclareConflict(r, p, app) ==
    /\ conflicts' = conflicts \cup {<<r, p, app>>}
    /\ UNCHANGED <<profiles, pools, assignments, cursors, modes>>

SetReviewMode(caller, p, mode) ==
    /\ RequireReviewAdmin(caller)
    /\ modes' = [modes EXCEPT ![p] = mode]
    /\ UNCHANGED <<profiles, pools, conflicts, assignments, cursors>>

IsEligible(r, p, app) ==
    /\ Has(profiles, r)
    /\ profiles[r].active
    /\ profiles[r].current_assignments < profiles[r].max_assignments
    /\ <<r, p, app>> \notin conflicts

\* The pool member step places after the offset, cyclically.
Candidate(p, offset, step) == pools[p][((offset + step) % Len(pools[p])) + 1]

\* The scan stops at the first eligible candidate; offset + step is checked on u64.
Assign(p, app, offset) ==
    LET eligible == {step \in 0..(Len(pools[p]) - 1) :
                        IsEligible(Candidate(p, offset, step), p, app)}
        chosen   == Candidate(p, offset, Min(eligible))
    IN  /\ ~Has(assignments, <<p, app>>)
        /\ eligible # {}
        /\ offset + Min(eligible) <= MaxU64
        /\ profiles' = [profiles EXCEPT ![chosen].current_assignments = @ + 1]
        /\ assignments' = Set(assignments, <<p, app>>, chosen)
        /\ UNCHANGED <<pools, conflicts, modes>>

\* RoundRobin and LoadBalanced start at the stored cursor, which moves on by one.
AssignReviewerInTurn(caller, p, app) ==
    /\ RequireReviewAdmin(caller)
    /\ Assign(p, app, cursors[p])
    /\ cursors' = [cursors EXCEPT ![p] = (@ + 1) % Len(pools[p])]

\* SeededRandom starts at an offset computed from the seed and the commitment.
AssignReviewerSeeded(caller, p, app, offset) ==
    /\ RequireReviewAdmin(caller)
    /\ Assign(p, app, offset)
    /\ UNCHANGED cursors

Next ==
    \/ \E caller \in Reviewers \cup {Admin} :
           \/ \E r \in Reviewers :
                  \/ \E max \in Capacities : RegisterReviewer(caller, r, max)
                  \/ \E value \in BOOLEAN : SetReviewerActive(caller, r, value)
           \/ \E p \in Programs :
                  \/ \E pool \in Pools : SetReviewerPool(caller, p, pool)
                  \/ \E mode \in Modes : SetReviewMode(caller, p, mode)
                  \/ \E app \in ApplicationIds :
                         \/ AssignReviewerInTurn(caller, p, app)
                         \/ \E offset \in SeedOffsets :
                                AssignReviewerSeeded(caller, p, app, offset)
    \/ \E r \in Reviewers, p \in Programs, app \in ApplicationIds : DeclareConflict(r, p, app)

Spec == Init /\ [][Next]_reviewVars

-----------------------------------------------------------------------------
(* Properties *)

\* Every stored value stays in its type: an assigned reviewer has a profile.
TypeOK ==
    /\ DOMAIN profiles \subseteq Reviewers
    /\ \A r \in DOMAIN profiles : profiles[r] \in ReviewerProfile
    /\ pools \in [Programs -> Pools \cup {<<>>}]
    /\ conflicts \subseteq Reviewers \X Programs \X ApplicationIds
    /\ DOMAIN assignments \subseteq Programs \X ApplicationIds
    /\ \A k \in DOMAIN assignments : assignments[k] \in DOMAIN profiles
    /\ cursors \in [Programs -> Nat]
    /\ modes \in [Programs -> Modes]

\* A reviewer's recorded load is the number of applications assigned to that
\* reviewer over all programs, through re-registration, deactivation and changes
\* of the pool (register_reviewer keeps current_assignments).
LoadsExact ==
    \A r \in Reviewers :
        Load(r) = Cardinality({k \in DOMAIN assignments : assignments[k] = r})
=============================================================================

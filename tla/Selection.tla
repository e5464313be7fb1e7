----------------------------- MODULE Selection -----------------------------
(***************************************************************************)
(* The contracts that select the recipients of a scholarship: programs and *)
(* their budgets, intake of applications, assignment of reviewers (the     *)
(* latter two are one contract) and the committee's decisions.  They make  *)
(* no calls to each other and share no storage but an admin that is never  *)
(* changed, so steps of two of them commute; a behaviour exercises one of  *)
(* them, chosen at the start, and the clock.                               *)
(***************************************************************************)
EXTENDS Integers, Sequences

CONSTANTS
    Admin, Callers, Programs, Applicants, MaxTime, MaxVersion,
    Instants, Headcounts, AwardAmounts, MaxU64, MaxI128,
    Deadlines, Hashes, ZeroHash, MaxIntakeVersion, MaxForms, MaxTerms, MaxIntakeTime,
    MaxRequests, MaxExports,
    Reviewers, ReviewedPrograms, ApplicationIds, Capacities, SeedOffsets, Modes, MaxPool,
    Chairs, Panel, ChairChoices, PanelChoices, Candidates, Quorums, Budgets, Periods,
    EvidenceVersions, MAX_MEMBERS

\* What callers can pass is typed by the contracts' interfaces: i128 amounts, u64
\* times, u32 counts and the vote choices; the bounds are natural numbers, and a
\* program starts with the review mode Open.
ASSUME SelectionConstants ==
    /\ Instants \subseteq Nat /\ Headcounts \subseteq Nat /\ AwardAmounts \subseteq Int
    /\ Deadlines \subseteq Nat /\ Capacities \subseteq Nat /\ SeedOffsets \subseteq Nat
    /\ Quorums \subseteq Nat /\ Budgets \subseteq Int /\ Periods \subseteq Nat
    /\ EvidenceVersions \subseteq Nat
    /\ ChairChoices \cup PanelChoices \subseteq {"Award", "Waitlist", "Reject", "Recuse"}
    /\ "Open" \in Modes
    /\ {MaxTime, MaxVersion, MaxU64, MaxI128, MaxIntakeVersion, MaxForms, MaxTerms,
        MaxIntakeTime, MaxRequests, MaxExports, MaxPool, MAX_MEMBERS} \subseteq Nat

VARIABLES
    focus, now,
    windows, budgets, held,
    programs, formVersion, consentVersion, consents, applications, requests, exports, exportOf,
    profiles, pools, conflicts, assignments, cursors, modes,
    role, active, quorum, configs, decisions, reservations, appeals

\* The pools the admin may set, the appointments it makes, and the ballots cast.
Pools == UNION {[1..n -> Reviewers] : n \in 0..MaxPool}
Appointments == (Chairs \X {"Chair"}) \cup (Panel \X {"Reviewer"})
Ballots == (Chairs \X ChairChoices) \cup (Panel \X PanelChoices)

B == INSTANCE ProgramBudgets
I == INSTANCE Applications WITH MaxVersion <- MaxIntakeVersion, MaxTime <- MaxIntakeTime
R == INSTANCE ReviewerPool WITH Programs <- ReviewedPrograms
D == INSTANCE Decisions WITH Members <- Chairs \cup Panel, Applicants <- Candidates,
                             DecisionPrograms <- Programs

budgetVars == <<windows, budgets, held>>
intakeVars == <<programs, formVersion, consentVersion, consents, applications,
                requests, exports, exportOf>>
reviewVars == <<profiles, pools, conflicts, assignments, cursors, modes>>
decisionVars == <<role, active, quorum, configs, decisions, reservations, appeals>>
vars == <<focus, now, budgetVars, intakeVars, reviewVars, decisionVars>>

Init ==
    /\ focus \in {"budgets", "intake", "reviewers", "decisions"}
    /\ now = 0
    /\ B!Init /\ I!Init /\ R!Init /\ D!Init

Next ==
    /\ UNCHANGED focus
    /\ \/ /\ focus = "budgets"
          /\ B!Next
          /\ UNCHANGED <<now, intakeVars, reviewVars, decisionVars>>
       \/ /\ focus = "intake"
          /\ \/ I!Next /\ UNCHANGED now
             \/ I!AdvanceTime
          /\ UNCHANGED <<budgetVars, reviewVars, decisionVars>>
       \/ /\ focus = "reviewers"
          /\ R!Next
          /\ UNCHANGED <<now, budgetVars, intakeVars, decisionVars>>
       \/ /\ focus = "decisions"
          /\ \/ D!Next /\ UNCHANGED now
             \/ D!AdvanceTime
          /\ UNCHANGED <<budgetVars, intakeVars, reviewVars>>

Spec == Init /\ [][Next]_vars

-----------------------------------------------------------------------------
(* The properties of the contracts *)

\* Every stored value of the four parts stays in its type: no application without
\* a consent, no reservation or appeal without a decision, no load without a profile.
TypeOK == B!TypeOK /\ I!TypeOK /\ R!TypeOK /\ D!TypeOK

\* scholarship-programs and scholarship-decisions: the counters of a budget are the
\* reservations that stand, through reconfigurations, appeals, claims, releases and lapses.
BudgetsExact == B!InventoryExact /\ D!DecisionBudgetExact

\* scholarship-applications: one pending export per applicant and program.
OnePendingExport == I!OnePendingExport

\* scholarship-applications: answers change once per approved request.
RequestsSettleOnce == I!RequestsSettleOnce

\* scholarship-applications: reviewer loads are exact.
LoadsExact == R!LoadsExact

\* scholarship-decisions: every outcome follows from recorded votes.
OutcomeTraceable == D!OutcomeTraceable

\* scholarship-decisions: settled decisions, appeals and reservations stay settled.
DecisionsFinal == D!DecisionsFinal

\* scholarship-decisions: a removed member's vote is not part of the quorum.
RemovedMembersDoNotCount == D!RemovedMembersDoNotCount
=============================================================================

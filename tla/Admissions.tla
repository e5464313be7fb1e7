----------------------------- MODULE Admissions -----------------------------
(***************************************************************************)
(* The first contract of contracts/mentorship-applications: a program's    *)
(* policy, applications with their append-only decision history, the       *)
(* applicant's withdrawal and the linked reapplication.  The model starts  *)
(* after initialize.  An application id is the hash of a counter that      *)
(* never repeats: it is the position in the sequence apps.  A call that    *)
(* repeats the last decision or withdrawal returns its number and changes  *)
(* nothing.  The effective time, the communication policy and the internal *)
(* reason are stored and never read by another operation.                  *)
(***************************************************************************)
EXTENDS Integers, Sequences, FiniteSets, Storage

CONSTANTS
    Admin, Reviewing,          \* addresses that may become coordinators
    Applicants, AdmissionPrograms,
    AdmissionPolicies,         \* the ProgramPolicy records the admin stores
    ReasonCodes,               \* public reason codes; 0 is refused
    ConsentVersions,
    MAX_ACTIVE_APPLICATIONS, MAX_DECISIONS_PER_APPLICATION,
    MaxOpened                  \* bound on the applications of a behaviour

VARIABLES
    now,
    coordinatorRole, \* DataKey::Coordinator
    policyOf,        \* DataKey::Policy: program -> policy
    apps,            \* DataKey::Application with its DataKey::Decision records
    activeCount,     \* DataKey::ActiveCount: program -> count
    reappliedFrom    \* DataKey::ReappliedFrom: application -> its successor

admissionVars == <<coordinatorRole, policyOf, apps, activeCount, reappliedFrom>>

ApplicationStatus ==
    {"Submitted", "UnderReview", "InfoRequested", "Waitlisted", "Accepted", "Rejected",
     "Withdrawn"}
IsFinal(status) == status \in {"Accepted", "Rejected", "Withdrawn"}

\* DecisionAction::target_status; Withdraw is the applicant's own operation.
TargetStatus ==
    [Review |-> "UnderReview", RequestInfo |-> "InfoRequested", Waitlist |-> "Waitlisted",
     Accept |-> "Accepted", Reject |-> "Rejected"]
DecisionAction == DOMAIN TargetStatus

DecisionRecord == [action : DecisionAction \cup {"Withdraw"}, reason : ReasonCodes]
Admission ==
    [program : AdmissionPrograms, applicant : Applicants, attempt : Nat \ {0},
     status : ApplicationStatus, consent : ConsentVersions, previous : Nat, closed : Nat,
     history : Seq(DecisionRecord)]

Init ==
    /\ coordinatorRole = {}
    /\ policyOf = Empty
    /\ apps = <<>>
    /\ activeCount = Empty
    /\ reappliedFrom = Empty

RequireCoordinator(caller) == caller = Admin \/ caller \in coordinatorRole

SetCoordinator(who, allowed) ==
    /\ coordinatorRole' = IF allowed THEN coordinatorRole \cup {who} ELSE coordinatorRole \ {who}
    /\ UNCHANGED <<policyOf, apps, activeCount, reappliedFrom>>

SetProgramPolicy(p, policy) ==
    /\ policy.max_attempts > 0 => policy.allow_reapplication
    /\ policyOf' = Set(policyOf, p, policy)
    /\ UNCHANGED <<coordinatorRole, apps, activeCount, reappliedFrom>>

-----------------------------------------------------------------------------
(* The program's slots *)

EffectiveLimit(policy) ==
    IF policy.max_active = 0 \/ policy.max_active > MAX_ACTIVE_APPLICATIONS
      THEN MAX_ACTIVE_APPLICATIONS
      ELSE policy.max_active

ReserveSlot(p) ==
    /\ Get(activeCount, p, 0) < EffectiveLimit(policyOf[p])
    /\ activeCount' = Set(activeCount, p, Get(activeCount, p, 0) + 1)

\* Fault: only a rejection gives the slot back.
FaultReleaseSlot(p, status) ==
    activeCount' = IF status = "Rejected" /\ Get(activeCount, p, 0) > 0
                     THEN Set(activeCount, p, activeCount[p] - 1)
                     ELSE activeCount
ReleaseSlot(p, status) ==
    activeCount' = IF IsFinal(status) /\ Get(activeCount, p, 0) > 0
                     THEN Set(activeCount, p, activeCount[p] - 1)
                     ELSE activeCount

CreateApplication(applicant, p, attempt, consent, previous) ==
    /\ Len(apps) < MaxOpened
    /\ apps' = Append(apps,
           [program |-> p, applicant |-> applicant, attempt |-> attempt, status |-> "Submitted",
            consent |-> consent, previous |-> previous, closed |-> 0, history |-> <<>>])

OpenApplication(applicant, p, consent) ==
    /\ consent # 0
    /\ Has(policyOf, p)
    /\ ReserveSlot(p)
    /\ CreateApplication(applicant, p, 1, consent, 0)
    /\ UNCHANGED <<coordinatorRole, policyOf, reappliedFrom>>

-----------------------------------------------------------------------------
(* Decisions *)

Open(cutoff) == cutoff = 0 \/ now < cutoff

\* One more record of the history, the status it leads to, and the slot given back.
Decide(a, action, reason, status) ==
    /\ Len(apps[a].history) < MAX_DECISIONS_PER_APPLICATION
    /\ apps' = [apps EXCEPT
           ![a].status = status,
           ![a].closed = IF IsFinal(status) THEN now ELSE @,
           ![a].history = Append(@, [action |-> action, reason |-> reason])]
    /\ ReleaseSlot(apps[a].program, status)
    /\ UNCHANGED <<coordinatorRole, policyOf, reappliedFrom>>

\* The same decision as the last one, whose status still stands: a retried call.
Repeats(a, action, reason) ==
    /\ apps[a].history # <<>>
    /\ LET last == apps[a].history[Len(apps[a].history)]
       IN last.action = action /\ last.reason = reason
    /\ apps[a].status = TargetStatus[action]

RecordDecision(caller, a, action, reason) ==
    /\ RequireCoordinator(caller)
    /\ reason # 0
    /\ ~Repeats(a, action, reason)
    /\ ~IsFinal(apps[a].status)
    /\ Open(policyOf[apps[a].program].decision_cutoff)
    /\ Decide(a, action, reason, TargetStatus[action])

WithdrawApplication(caller, a, reason, acknowledged) ==
    /\ apps[a].applicant = caller
    /\ reason # 0
    /\ acknowledged
    /\ ~IsFinal(apps[a].status)
    /\ Open(policyOf[apps[a].program].withdrawal_cutoff)
    /\ Decide(a, "Withdraw", reason, "Withdrawn")

-----------------------------------------------------------------------------
(* Reapplication *)

ValidateReapplicationConsent(a, consent) == consent # 0 /\ consent >= apps[a].consent

NotReapplied(a) == ~Has(reappliedFrom, a)

Reapply(caller, a, consent) ==
    LET policy == policyOf[apps[a].program]
        attempt == apps[a].attempt + 1
    IN /\ NotReapplied(a)
       /\ apps[a].applicant = caller
       /\ apps[a].status \in {"Withdrawn", "Rejected"}
       /\ policy.allow_reapplication
       /\ ValidateReapplicationConsent(a, consent)
       /\ policy.max_attempts # 0 => attempt <= policy.max_attempts
       /\ policy.cooldown > 0 => now >= apps[a].closed + policy.cooldown
       /\ ReserveSlot(apps[a].program)
       /\ CreateApplication(caller, apps[a].program, attempt, consent, a)
       /\ reappliedFrom' = Set(reappliedFrom, a, Len(apps) + 1)
       /\ UNCHANGED <<coordinatorRole, policyOf>>

Next ==
    /\ \/ \E who \in Reviewing, allowed \in BOOLEAN : SetCoordinator(who, allowed)
       \/ \E p \in AdmissionPrograms, policy \in AdmissionPolicies : SetProgramPolicy(p, policy)
       \/ \E who \in Applicants, p \in AdmissionPrograms, c \in ConsentVersions :
              OpenApplication(who, p, c)
       \/ \E a \in DOMAIN apps, reason \in ReasonCodes :
              \/ \E caller \in {Admin} \cup Reviewing, action \in DecisionAction :
                     RecordDecision(caller, a, action, reason)
              \/ \E caller \in Applicants, ack \in BOOLEAN :
                     WithdrawApplication(caller, a, reason, ack)
       \/ \E caller \in Applicants, a \in DOMAIN apps, c \in ConsentVersions : Reapply(caller, a, c)
    /\ UNCHANGED now

-----------------------------------------------------------------------------
\* Every stored value has the shape of its Rust type.
TypeOK ==
    /\ coordinatorRole \subseteq Reviewing
    /\ policyOf \in [DOMAIN policyOf -> AdmissionPolicies] /\ DOMAIN policyOf \subseteq AdmissionPrograms
    /\ apps \in Seq(Admission)
    /\ activeCount \in [DOMAIN activeCount -> Nat]
    /\ DOMAIN reappliedFrom \subseteq DOMAIN apps

\* A program's counter is the number of its applications that are still open,
\* whatever mix of decisions, withdrawals, retries and reapplications led there: the
\* saturating release never hides a slot given back twice.
ActiveExact ==
    \A p \in AdmissionPrograms :
        Get(activeCount, p, 0) =
            Cardinality({a \in DOMAIN apps : apps[a].program = p /\ ~IsFinal(apps[a].status)})

\* The applications of one person for one program form chains: each attempt follows a
\* closed, not accepted, attempt of the same applicant, has the next attempt number and
\* the same or newer consent, and no attempt has two successors.
ChainedAttempts ==
    \A a \in DOMAIN apps :
        LET q == apps[a].previous
        IN IF q = 0
             THEN apps[a].attempt = 1
             ELSE /\ reappliedFrom[q] = a
                  /\ apps[q].applicant = apps[a].applicant /\ apps[q].program = apps[a].program
                  /\ apps[q].status \in {"Withdrawn", "Rejected"}
                  /\ apps[a].attempt = apps[q].attempt + 1
                  /\ apps[a].consent >= apps[q].consent

\* A decision is never rewritten: a history only grows, and the history of an application
\* that is final does not.
HistoryStands ==
    [][\A a \in DOMAIN apps :
           LET n == Len(apps[a].history)
           IN /\ SubSeq(apps'[a].history, 1, n) = apps[a].history
              /\ IsFinal(apps[a].status) => apps'[a] = apps[a]]_admissionVars
=============================================================================

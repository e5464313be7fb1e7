---------------------------- MODULE Mentorships -----------------------------
(***************************************************************************)
(* The contracts of one mentorship from application to the end: admission, *)
(* intake and review of applications, matching, the agreement, code of     *)
(* conduct, the engagement itself, rematching, and export of the record.   *)
(* They make no calls to each other and share no storage, so their steps   *)
(* commute: a behaviour exercises one of them, chosen at the start, and    *)
(* the clock.                                                              *)
(***************************************************************************)
EXTENDS Integers, Sequences, FiniteSets

CONSTANTS
    Admin, Officers, Mentors, Mentees, Persons, Programs, Nobody, MaxTime,
    MatchIds, RequestIds, Successors, InitialWindow, Windows, MinWindow, MaxWindow,
    MAX_REQUESTS_PER_MATCH, MAX_COORDINATORS,
    OfferInputs, NoTerms, MaxLifetime, MAX_PENDING_PROPOSALS_PER_PROGRAM,
    MAX_COORDINATOR_ACTIONS, MaxProposals, MaxProposalVersion, StatusInputs, Blockers,
    ExportedIds, GrantIds, TermsVersions, SessionMoney, InitialExportPolicy, ExportPolicies,
    MinExportWindow, MaxExportWindow, MinGrantTtl, MaxGrantTtl, MAX_AMENDMENTS, MAX_APPROVALS,
    MAX_SESSION_SUMMARIES, MAX_EXPORT_AUDIT, MaxI128,
    EngagementIds, CaseRefs, ConductCallers, ConductPersons, BreachSubjects, EffectiveTimes,
    MAX_POLICY_VERSION,
    EngagedMentees, Guardians, Strangers, Threshold, PausePolicies, Plans, PauseDates,
    ConsentEnds, MaxEngagements, MaxOutcomes, MaxFeedback,
    Signers, TermTimes, Prices, AmendedTerms, MaxAgreements, MaxAmendments, MaxNonce,
    Applicants, AdmissionPolicies, ReasonCodes, ConsentVersions, MAX_ACTIVE_APPLICATIONS,
    MAX_DECISIONS_PER_APPLICATION, MaxOpened,
    IntakeReviewers, Tokens, Forms, Deadlines, Answers, NoAnswer, AnswerSheets, Capacities,
    DueDates, Priorities, MAX_QUESTIONS, MAX_QUEUE, MAX_REVIEWERS, MAX_INTAKE_AUDIT,
    MaxFormVersion, MaxTerms, MaxRevision

\* Times, versions, capacities and reason codes are unsigned integers, money is a signed
\* one, and every other input is a value of the enumeration or of the addresses it is
\* drawn from.
ASSUME MatchConstants ==
    /\ Mentors \cup EngagedMentees \cup Successors \subseteq Persons
    /\ InitialWindow \in Nat /\ Windows \subseteq Nat
    /\ \A offer \in OfferInputs : offer[2] \in Nat
    /\ MaxLifetime \in Nat /\ MAX_PENDING_PROPOSALS_PER_PROGRAM \in Nat
    /\ MAX_COORDINATOR_ACTIONS \in Nat /\ MaxProposalVersion \in Nat \ {0}
    /\ \A input \in StatusInputs : input[2] \in {"Active", "Inactive", "Suspended"}
ASSUME RecordConstants ==
    /\ TermsVersions \subseteq Nat /\ SessionMoney \subseteq Int \X Int
    /\ \A p \in ExportPolicies \cup {InitialExportPolicy} :
          p[1] \in Nat /\ p[2] \in Nat /\ p[3] \in Nat
    /\ Mentors \cup EngagedMentees \cup BreachSubjects \subseteq ConductPersons
    /\ Threshold \in Nat /\ PausePolicies \subseteq BOOLEAN
    /\ Plans \subseteq Nat /\ PauseDates \subseteq Nat /\ ConsentEnds \subseteq Nat
    /\ TermTimes \subseteq Nat /\ Prices \subseteq Int
    /\ AmendedTerms \subseteq SUBSET {"start", "end", "price"}
ASSUME ApplicationConstants ==
    /\ AdmissionPolicies \subseteq
          [decision_cutoff : Nat, withdrawal_cutoff : Nat, allow_reapplication : BOOLEAN,
           cooldown : Nat, max_attempts : Nat, max_active : Nat]
    /\ ReasonCodes \subseteq Nat /\ ConsentVersions \subseteq Nat
    /\ MAX_ACTIVE_APPLICATIONS \in Nat
    /\ Deadlines \subseteq Nat /\ Capacities \subseteq Nat /\ DueDates \subseteq Nat
    /\ Priorities \subseteq {"Low", "Normal", "High", "Urgent"} /\ "Normal" \in Priorities
    /\ MAX_INTAKE_AUDIT \in Nat /\ Nobody \notin IntakeReviewers
    /\ \A sheet \in AnswerSheets : IsFiniteSet(DOMAIN sheet)

VARIABLES
    focus, now,
    rematchRegistrar, coordinators, window, matches, rematchRequests, caseOpen, stats,
    matchCoordinators, participants, blocked, offers, pairIndex, pendingCount, actionCount,
    exportRegistrar, exportPolicy, records, grants, quotas, exportAudit,
    conductPolicies, latestPolicy, policyAcceptances, conductEngagements, breaches,
    mutualPause, engagements, consentOf, outcomes, outcomeCount, feedback,
    blocks, pacts, acceptances, nonces, amendments,
    coordinatorRole, policyOf, apps, activeCount, reappliedFrom,
    intakePrograms, forms, terms, consents, drafts, submitted, reviewerOf, reviews,
    conflictOf, audit

R == INSTANCE Rematch WITH RematchPairs <- Mentors \X EngagedMentees, NoAddress <- Nobody

M == INSTANCE Matching WITH
        MatchCoordinators <- Officers, MatchPrograms <- Programs, BlockPairs <- Blockers \X Mentors

E == INSTANCE AgreementExport WITH
        Registrars <- Officers, ExportPairs <- Mentors \X EngagedMentees,
        MAX_AUDIT_ENTRIES <- MAX_EXPORT_AUDIT, audit <- exportAudit

C == INSTANCE Conduct WITH
        EngagementPairs <- Mentors \X EngagedMentees,
        PolicyRoles <- (Mentors \X {"Mentor"}) \cup (EngagedMentees \X {"Mentee"}),
        acceptances <- policyAcceptances, engagements <- conductEngagements

G == INSTANCE Engagements WITH Mentees <- EngagedMentees, MaxEngagementTime <- MaxTime

A == INSTANCE Agreements

D == INSTANCE Admissions WITH Reviewing <- Officers, AdmissionPrograms <- Programs

I == INSTANCE Intake WITH
        IntakePrograms <- Programs, NoReviewer <- Nobody, MAX_AUDIT_ENTRIES <- MAX_INTAKE_AUDIT

\* The inputs of the instance.  One form has a required question and one asked when it was
\* answered "yes"; the other's condition names a later question.
MentorStatuses == Mentors \X {"Active", "Suspended"}
TwoOffers == {<<<<"plain", 0>>, 2>>, <<<<"paid", 1>>, 3>>}
SessionIncome == {<<2, 1>>, <<0, 1>>}
FirstExportPolicy == <<2, 2, 1>>
LaterExportPolicies == {<<2, 1, 1>>, <<0, 1, 1>>}
SignedPrices == {-1, 0, 1}
AmendableTerms == {{"start"}, {"price"}, {"start", "end", "price"}}
ProgramPolicies ==
    {[decision_cutoff |-> 0, withdrawal_cutoff |-> 2, allow_reapplication |-> TRUE,
      cooldown |-> 1, max_attempts |-> 2, max_active |-> 1],
     [decision_cutoff |-> 2, withdrawal_cutoff |-> 0, allow_reapplication |-> FALSE,
      cooldown |-> 0, max_attempts |-> 0, max_active |-> 0]}
Question(id, required, depends_on, needs) ==
    [id |-> id, order |-> id, required |-> required, depends_on |-> depends_on, needs |-> needs]
TwoForms == {<<Question(1, TRUE, 0, "none"), Question(2, TRUE, 1, "yes")>>,
             <<Question(1, TRUE, 2, "yes"), Question(2, TRUE, 0, "none")>>}
ThreeSheets == {<<"no">>, <<"yes">>, <<"yes", "no">>}

rematchVars == <<rematchRegistrar, coordinators, window, matches, rematchRequests, caseOpen, stats>>
matchingVars ==
    <<matchCoordinators, participants, blocked, offers, pairIndex, pendingCount, actionCount>>
exportVars == <<exportRegistrar, exportPolicy, records, grants, quotas, exportAudit>>
conductVars == <<conductPolicies, latestPolicy, policyAcceptances, conductEngagements, breaches>>
engagementVars == <<mutualPause, engagements, consentOf, outcomes, outcomeCount, feedback>>
pactVars == <<blocks, pacts, acceptances, nonces, amendments>>
admissionVars == <<coordinatorRole, policyOf, apps, activeCount, reappliedFrom>>
intakeVars == <<intakePrograms, forms, terms, consents, drafts, submitted, reviewerOf, reviews,
                conflictOf, audit>>
vars == <<focus, now, rematchVars, matchingVars, exportVars, conductVars, engagementVars,
          pactVars, admissionVars, intakeVars>>

Init ==
    /\ focus \in {"rematch", "matching", "export", "conduct", "engagements", "agreements",
                  "admissions", "intake"}
    /\ now = 1
    /\ R!Init /\ M!Init /\ E!Init /\ C!Init /\ G!Init /\ A!Init /\ D!Init /\ I!Init

\* The contracts read the ledger's clock, which only goes forward.
Tick == now < MaxTime /\ now' = now + 1

Next ==
    /\ UNCHANGED focus
    /\ \/ /\ focus = "rematch"
          /\ \/ R!Next /\ UNCHANGED now
             \/ Tick /\ UNCHANGED rematchVars
          /\ UNCHANGED <<matchingVars, exportVars, conductVars, engagementVars, pactVars,
                         admissionVars, intakeVars>>
       \/ /\ focus = "matching"
          /\ \/ M!Next /\ UNCHANGED now
             \/ Tick /\ UNCHANGED matchingVars
          /\ UNCHANGED <<rematchVars, exportVars, conductVars, engagementVars, pactVars,
                         admissionVars, intakeVars>>
       \/ /\ focus = "export"
          /\ \/ E!Next /\ UNCHANGED now
             \/ Tick /\ UNCHANGED exportVars
          /\ UNCHANGED <<rematchVars, matchingVars, conductVars, engagementVars, pactVars,
                         admissionVars, intakeVars>>
       \/ /\ focus = "conduct"
          /\ C!Next
          /\ UNCHANGED <<now, rematchVars, matchingVars, exportVars, engagementVars, pactVars,
                         admissionVars, intakeVars>>
       \/ /\ focus = "engagements"
          /\ \/ G!Next /\ UNCHANGED now
             \/ G!AdvanceTime
          /\ UNCHANGED <<rematchVars, matchingVars, exportVars, conductVars, pactVars,
                         admissionVars, intakeVars>>
       \/ /\ focus = "agreements"
          /\ A!Next
          /\ UNCHANGED <<now, rematchVars, matchingVars, exportVars, conductVars,
                         engagementVars, admissionVars, intakeVars>>
       \/ /\ focus = "admissions"
          /\ \/ D!Next
             \/ Tick /\ UNCHANGED admissionVars
          /\ UNCHANGED <<rematchVars, matchingVars, exportVars, conductVars, engagementVars,
                         pactVars, intakeVars>>
       \/ /\ focus = "intake"
          /\ \/ I!Next
             \/ Tick /\ UNCHANGED intakeVars
          /\ UNCHANGED <<rematchVars, matchingVars, exportVars, conductVars, engagementVars,
                         pactVars, admissionVars>>

Spec == Init /\ [][Next]_vars

-----------------------------------------------------------------------------
(* The properties of the contracts *)

\* Every stored value of the eight parts stays in its type.
TypeOK ==
    /\ R!TypeOK /\ M!TypeOK /\ E!TypeOK /\ C!TypeOK
    /\ G!TypeOK /\ A!TypeOK /\ D!TypeOK /\ I!TypeOK

\* The counters kept beside the records are exact, whatever mix of retries, expiries,
\* adjustments and withdrawals led there: rematch statistics, pending proposals, export
\* quotas and money, and the active applications of a program.
CountersExact ==
    R!StatsExact /\ M!PendingExact /\ E!QuotaExact /\ E!RecordAddsUp /\ D!ActiveExact

\* There is one of a kind: one live rematch request per match, one open proposal per pair,
\* one submission per applicant with no draft beside it, one chain of attempts, and one
\* order of the review queue.
OneOfAKind ==
    /\ R!OneLiveRequest /\ M!OneOpenOffer
    /\ I!OneSubmission /\ I!QueueTotallyOrdered /\ D!ChainedAttempts

\* Nothing takes effect without the people it needs: the guardian's consent, the other
\* party's approval of a pause, both signatures of an agreement, the accepted code of
\* conduct, and a reviewer without a conflict.
TakesEffectByConsent ==
    /\ G!GuardedUntilConsent /\ G!PausedWithApproval /\ G!NobodyApprovesTheirOwnPause
    /\ A!InForceByBoth /\ C!ActiveUnderAcceptedPolicies /\ I!DecidedWithoutConflict

\* What was agreed or decided stands: approved terms do not change under the approval, terms
\* change only by an amendment both approved, and closed cases and decisions stay as they are.
AgreedStands ==
    M!ApprovedTermsStand /\ A!TermsByConsent /\ C!ConductFinal /\ D!HistoryStands
=============================================================================

------------------------------- MODULE Intake -------------------------------
(***************************************************************************)
(* The second contract of contracts/mentorship-applications: versioned     *)
(* forms and consent terms, autosaved drafts, one submission per applicant *)
(* and program, and the reviewers' queue.  The model starts after          *)
(* initialize.  Form texts, schema and data hashes are commitments that    *)
(* are stored and never read; an answer is a member of Answers, and a form *)
(* is the sequence of its questions, each with the earlier question and    *)
(* the answer it depends on.                                               *)
(***************************************************************************)
EXTENDS Integers, Sequences, FiniteSets, Storage

CONSTANTS
    Admin, Applicants, IntakePrograms,
    IntakeReviewers,
    Forms,                     \* the question lists the admin tries to publish
    Deadlines, Answers, NoAnswer,
    AnswerSheets,              \* the answer lists applicants send: question -> answer
    Tokens,                    \* request tokens of draft saves
    Capacities, DueDates, Priorities, NoReviewer,
    MAX_QUESTIONS, MAX_QUEUE, MAX_REVIEWERS, MAX_AUDIT_ENTRIES,
    MaxFormVersion, MaxTerms, MaxRevision

VARIABLES
    now,
    intakePrograms, \* DataKey::Program: id -> [active, deadline]
    forms,          \* DataKey::Form: program -> the sequence of published versions
    terms,          \* DataKey::ConsentVersion: program -> latest version
    consents,       \* DataKey::Consent: <<applicant, program>> -> [version, revoked]
    drafts,         \* DataKey::Draft: <<applicant, program>> -> draft
    submitted,      \* DataKey::Application: the applications in the order of their ids
    reviewerOf,     \* DataKey::Reviewer: <<reviewer, program>> -> [capacity, active]
    reviews,        \* DataKey::Review: application -> review state
    conflictOf,     \* DataKey::Conflict: the <<reviewer, application>> pairs declared
    audit           \* DataKey::Audit: application -> number of entries

applicantVars == <<intakePrograms, forms, terms, consents, drafts>>
queueVars == <<reviewerOf, reviews, conflictOf, audit>>
intakeVars == <<applicantVars, submitted, queueVars>>

Draft == [form : Nat \ {0}, revision : Nat \ {0}, token : Tokens]
Submission == [applicant : Applicants, program : IntakePrograms, form : Nat \ {0},
               consent : Nat \ {0}, answers : Nat]
ReviewState ==
    [priority : Priorities, status : {"Pending", "Assigned", "Decided"},
     assignee : IntakeReviewers \cup {NoReviewer}, due : DueDates \cup {0},
     decided_by : IntakeReviewers \cup {NoReviewer},
     outcome : {"Undecided", "Accepted", "Rejected"}]

Init ==
    /\ intakePrograms = Empty /\ forms = Empty /\ terms = Empty
    /\ consents = Empty /\ drafts = Empty
    /\ submitted = <<>>
    /\ reviewerOf = Empty /\ reviews = Empty /\ conflictOf = {} /\ audit = Empty

-----------------------------------------------------------------------------
(* Programs, forms and consent terms: the admin *)

RequireActiveProgram(p) ==
    /\ Has(intakePrograms, p)
    /\ intakePrograms[p].active
    /\ now <= intakePrograms[p].deadline

RegisterProgram(p, deadline) ==
    /\ ~Has(intakePrograms, p)
    /\ intakePrograms' = Set(intakePrograms, p, [active |-> TRUE, deadline |-> deadline])
    /\ UNCHANGED <<forms, terms, consents, drafts, submitted, queueVars>>

SetProgramActive(p, active) ==
    /\ Has(intakePrograms, p)
    /\ intakePrograms' = [intakePrograms EXCEPT ![p].active = active]
    /\ UNCHANGED <<forms, terms, consents, drafts, submitted, queueVars>>

\* Ids are unique and positive, the order strictly increases, and a condition names
\* a question that comes earlier.
ValidateForm(form) ==
    /\ Len(form) \in 1..MAX_QUESTIONS
    /\ \A i \in DOMAIN form :
           /\ form[i].id # 0
           /\ \A j \in 1..(i - 1) : form[j].id # form[i].id
           /\ i > 1 => form[i].order > form[i - 1].order
           /\ IF form[i].depends_on = 0
                THEN form[i].needs = NoAnswer
                ELSE \E j \in 1..(i - 1) : form[j].id = form[i].depends_on

PublishForm(p, form) ==
    LET published == Get(forms, p, <<>>)
    IN /\ Has(intakePrograms, p)
       /\ Len(published) < MaxFormVersion
       /\ ValidateForm(form)
       /\ forms' = Set(forms, p, Append(published, form))
       /\ UNCHANGED <<intakePrograms, terms, consents, drafts, submitted, queueVars>>

PublishConsentTerms(p) ==
    /\ Has(intakePrograms, p)
    /\ Get(terms, p, 0) < MaxTerms
    /\ terms' = Set(terms, p, Get(terms, p, 0) + 1)
    /\ UNCHANGED <<intakePrograms, forms, consents, drafts, submitted, queueVars>>

-----------------------------------------------------------------------------
(* Consent and drafts: the applicant *)

RecordConsent(who, p) ==
    /\ Has(terms, p)
    /\ consents' = Set(consents, <<who, p>>, [version |-> terms[p], revoked |-> FALSE])
    /\ UNCHANGED <<intakePrograms, forms, terms, drafts, submitted, queueVars>>

RevokeConsent(who, p) ==
    /\ Has(consents, <<who, p>>)
    /\ consents' = [consents EXCEPT ![<<who, p>>].revoked = TRUE]
    /\ UNCHANGED <<intakePrograms, forms, terms, drafts, submitted, queueVars>>

HasValidConsent(who, p) ==
    /\ Has(terms, p)
    /\ Has(consents, <<who, p>>)
    /\ ~consents[<<who, p>>].revoked
    /\ consents[<<who, p>>].version = terms[p]

HasApplied(who, p) ==
    \E a \in DOMAIN submitted : submitted[a].applicant = who /\ submitted[a].program = p

QuestionIds(form) == {form[i].id : i \in DOMAIN form}

\* A retried save, with the token of the draft's last save, changes nothing; a save
\* whose base revision is not the draft's is refused.  The answers are stored and only
\* read back; a patch is the set of questions it sets or clears.
AutosaveDraft(who, p, base, token, patch) ==
    LET d == drafts[<<who, p>>]
        new == ~Has(drafts, <<who, p>>)
        form == IF new THEN Len(Get(forms, p, <<>>)) ELSE d.form
    IN /\ ~new => d.token # token
       /\ ~HasApplied(who, p)
       /\ RequireActiveProgram(p)
       /\ base = IF new THEN 0 ELSE d.revision
       /\ base < MaxRevision
       /\ form # 0
       /\ patch \subseteq QuestionIds(forms[p][form])
       /\ drafts' = Set(drafts, <<who, p>>, [form |-> form, revision |-> base + 1, token |-> token])
       /\ UNCHANGED <<intakePrograms, forms, terms, consents, submitted, queueVars>>

DiscardDraft(who, p, expected) ==
    /\ Has(drafts, <<who, p>>)
    /\ drafts[<<who, p>>].revision = expected
    /\ drafts' = Remove(drafts, {<<who, p>>})
    /\ UNCHANGED <<intakePrograms, forms, terms, consents, submitted, queueVars>>

-----------------------------------------------------------------------------
(* Submission *)

\* Whether the answers show a question: its parent is answered, as the condition asks.
Visible(question, sheet) ==
    question.depends_on # 0 =>
        /\ question.depends_on \in DOMAIN sheet
        /\ question.needs # NoAnswer => sheet[question.depends_on] = question.needs

CheckAnswers(form, sheet) ==
    /\ DOMAIN sheet \subseteq QuestionIds(form)
    /\ \A i \in DOMAIN form :
           IF Visible(form[i], sheet)
             THEN form[i].required => form[i].id \in DOMAIN sheet
             ELSE form[i].id \notin DOMAIN sheet

Queue(p) == {a \in DOMAIN submitted : submitted[a].program = p}

\* Fault: the draft outlives the submission.
FaultDropDraft(who, p) == drafts' = drafts
DropDraft(who, p) == drafts' = Remove(drafts, {<<who, p>>})

SubmitApplication(who, p, version, sheet, affirmed) ==
    /\ RequireActiveProgram(p)
    /\ version \in DOMAIN Get(forms, p, <<>>)
    /\ CheckAnswers(forms[p][version], sheet)
    /\ affirmed
    /\ HasValidConsent(who, p)
    /\ ~HasApplied(who, p)
    /\ Cardinality(Queue(p)) < MAX_QUEUE
    /\ submitted' = Append(submitted,
           [applicant |-> who, program |-> p, form |-> version,
            consent |-> consents[<<who, p>>].version, answers |-> Cardinality(DOMAIN sheet)])
    /\ reviews' = Set(reviews, Len(submitted) + 1,
           [priority |-> "Normal", status |-> "Pending", assignee |-> NoReviewer, due |-> 0,
            decided_by |-> NoReviewer, outcome |-> "Undecided"])
    /\ DropDraft(who, p)
    /\ UNCHANGED <<intakePrograms, forms, terms, consents, reviewerOf, conflictOf, audit>>

-----------------------------------------------------------------------------
(* The reviewers' queue *)

IsActiveReviewer(p, who) == Has(reviewerOf, <<who, p>>) /\ reviewerOf[<<who, p>>].active
RequireReviewerOrAdmin(p, who) == IsActiveReviewer(p, who) \/ who = Admin

\* A reviewer once listed keeps the place in the list.
GrantReviewer(p, who, capacity) ==
    /\ Has(intakePrograms, p)
    /\ capacity # 0
    /\ ~IsActiveReviewer(p, who)
    /\ \/ Has(reviewerOf, <<who, p>>)
       \/ Cardinality({k \in DOMAIN reviewerOf : k[2] = p}) < MAX_REVIEWERS
    /\ reviewerOf' = Set(reviewerOf, <<who, p>>, [capacity |-> capacity, active |-> TRUE])
    /\ UNCHANGED <<applicantVars, submitted, reviews, conflictOf, audit>>

RevokeReviewer(p, who) ==
    /\ IsActiveReviewer(p, who)
    /\ reviewerOf' = [reviewerOf EXCEPT ![<<who, p>>].active = FALSE]
    /\ UNCHANGED <<applicantVars, submitted, reviews, conflictOf, audit>>

AppendAudit(a) ==
    /\ Get(audit, a, 0) < MAX_AUDIT_ENTRIES
    /\ audit' = Set(audit, a, Get(audit, a, 0) + 1)

SetPriority(caller, a, priority) ==
    /\ RequireReviewerOrAdmin(submitted[a].program, caller)
    /\ reviews[a].status # "Decided"
    /\ reviews[a].priority # priority
    /\ AppendAudit(a)
    /\ reviews' = [reviews EXCEPT ![a].priority = priority]
    /\ UNCHANGED <<applicantVars, submitted, reviewerOf, conflictOf>>

\* ReviewerWorkload.assigned_active, over the queue of the program.
AssignedActive(p, who) ==
    Cardinality({a \in Queue(p) : reviews[a].assignee = who /\ reviews[a].status # "Decided"})

\* The caller names the assignee it saw: a concurrent assignment makes the call fail.
AssignReviewer(caller, a, who, expected, due) ==
    LET p == submitted[a].program
    IN /\ RequireReviewerOrAdmin(p, caller)
       /\ IsActiveReviewer(p, who)
       /\ reviews[a].status # "Decided"
       /\ reviews[a].assignee = expected
       /\ <<reviews[a].assignee, reviews[a].due>> # <<who, due>>
       /\ who # expected => AssignedActive(p, who) < reviewerOf[<<who, p>>].capacity
       /\ AppendAudit(a)
       /\ reviews' = [reviews EXCEPT ![a].assignee = who, ![a].due = due, ![a].status = "Assigned"]
       /\ UNCHANGED <<applicantVars, submitted, reviewerOf, conflictOf>>

\* Fault: a conflict may be declared on an application that is already decided.
FaultUndecided(a) == a \in DOMAIN reviews
Undecided(a) == reviews[a].status # "Decided"

DeclareConflict(who, a, declared) ==
    /\ IsActiveReviewer(submitted[a].program, who)
    /\ Undecided(a)
    /\ declared # (<<who, a>> \in conflictOf)
    /\ AppendAudit(a)
    /\ conflictOf' = IF declared THEN conflictOf \cup {<<who, a>>} ELSE conflictOf \ {<<who, a>>}
    /\ UNCHANGED <<applicantVars, submitted, reviewerOf, reviews>>

RecordDecision(who, a, outcome) ==
    /\ IsActiveReviewer(submitted[a].program, who)
    /\ Undecided(a)
    /\ reviews[a].assignee = who
    /\ <<who, a>> \notin conflictOf
    /\ AppendAudit(a)
    /\ reviews' = [reviews EXCEPT ![a].status = "Decided", ![a].decided_by = who, ![a].outcome = outcome]
    /\ UNCHANGED <<applicantVars, submitted, reviewerOf, conflictOf>>

\* list_queue: the order of two entries, by priority, then due date, then id.
PriorityRank == [Low |-> 0, Normal |-> 1, High |-> 2, Urgent |-> 3]
DueBefore(x, y) == x # 0 /\ (y = 0 \/ x < y)
QueueEntryBefore(a, b) ==
    LET x == reviews[a]
        y == reviews[b]
    IN \/ PriorityRank[x.priority] > PriorityRank[y.priority]
       \/ /\ x.priority = y.priority
          /\ DueBefore(x.due, y.due) \/ (x.due = y.due /\ a < b)

-----------------------------------------------------------------------------
AdminNext ==
    \E p \in IntakePrograms :
        \/ \E d \in Deadlines : RegisterProgram(p, d)
        \/ \E active \in BOOLEAN : SetProgramActive(p, active)
        \/ \E form \in Forms : PublishForm(p, form)
        \/ PublishConsentTerms(p)
        \/ \E who \in IntakeReviewers : RevokeReviewer(p, who)
        \/ \E who \in IntakeReviewers, c \in Capacities : GrantReviewer(p, who, c)

ApplicantNext ==
    \E who \in Applicants, p \in IntakePrograms :
        \/ RecordConsent(who, p)
        \/ RevokeConsent(who, p)
        \/ \E base \in 0..MaxRevision, token \in Tokens, sheet \in AnswerSheets :
               AutosaveDraft(who, p, base, token, DOMAIN sheet)
        \/ \E expected \in 1..MaxRevision : DiscardDraft(who, p, expected)
        \/ \E version \in 1..MaxFormVersion, sheet \in AnswerSheets, affirmed \in BOOLEAN :
               SubmitApplication(who, p, version, sheet, affirmed)

ReviewerNext ==
    \E a \in DOMAIN submitted :
        \/ \E caller \in {Admin} \cup IntakeReviewers :
               \/ \E priority \in Priorities : SetPriority(caller, a, priority)
               \/ \E who \in IntakeReviewers, expected \in IntakeReviewers \cup {NoReviewer},
                     due \in DueDates : AssignReviewer(caller, a, who, expected, due)
        \/ \E who \in IntakeReviewers :
               \/ \E declared \in BOOLEAN : DeclareConflict(who, a, declared)
               \/ \E outcome \in {"Accepted", "Rejected"} : RecordDecision(who, a, outcome)

Next == (AdminNext \/ ApplicantNext \/ ReviewerNext) /\ UNCHANGED now

-----------------------------------------------------------------------------
\* Every stored value has the shape of its Rust type.
TypeOK ==
    /\ intakePrograms \in [DOMAIN intakePrograms -> [active : BOOLEAN, deadline : Deadlines]]
    /\ \A p \in DOMAIN forms : \A v \in DOMAIN forms[p] : forms[p][v] \in Forms
    /\ consents \in [DOMAIN consents -> [version : Nat \ {0}, revoked : BOOLEAN]]
    /\ drafts \in [DOMAIN drafts -> Draft]
    /\ \A a \in DOMAIN submitted : submitted[a] \in Submission
    /\ reviewerOf \in [DOMAIN reviewerOf -> [capacity : Capacities \ {0}, active : BOOLEAN]]
    /\ reviews \in [DOMAIN submitted -> ReviewState]
    /\ audit \in [DOMAIN audit -> 1..MAX_AUDIT_ENTRIES]

\* An applicant has at most one application for a program, and no draft beside it: a
\* delayed or repeated save never brings an editable draft back after the submission.
OneSubmission ==
    /\ \A a, b \in DOMAIN submitted :
           submitted[a].applicant = submitted[b].applicant
               /\ submitted[a].program = submitted[b].program => a = b
    /\ \A k \in DOMAIN drafts : ~HasApplied(k[1], k[2])

\* A decision was made by the assigned reviewer, who has not declared a conflict on the
\* application, neither before nor after, and the trail holds an entry for it and for the
\* assignment.
DecidedWithoutConflict ==
    \A a \in DOMAIN reviews :
        reviews[a].status = "Decided" =>
            /\ reviews[a].decided_by = reviews[a].assignee
            /\ <<reviews[a].decided_by, a>> \notin conflictOf
            /\ audit[a] >= 2

\* The queue has one order: any two applications of a program are ordered one way, so
\* the insertion sort of list_queue returns the same page to every caller.
QueueTotallyOrdered ==
    \A p \in IntakePrograms : \A a, b \in Queue(p) :
        a # b => (QueueEntryBefore(a, b) <=> ~QueueEntryBefore(b, a))
=============================================================================

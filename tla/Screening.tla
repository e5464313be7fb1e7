----------------------------- MODULE Screening ------------------------------
(***************************************************************************)
(* How a program screens its applicants, in two contracts.                 *)
(* scholarship-eligibility: trusted issuers, versioned rules of a program, *)
(* and the attestations from which evaluate_eligibility and                *)
(* evaluate_mentorship_eligibility decide; a criterion stands for its own  *)
(* hash.  scholarship-reviews: programs, versioned rubrics, one review per *)
(* reviewer and applicant, the aggregated score and the comparison of two  *)
(* applicants; a caller's expected_version is modelled by the call that    *)
(* carries the stored version, the only one that succeeds.  The model      *)
(* starts after initialize; events and TTLs are left out.                  *)
(***************************************************************************)
EXTENDS Integers, Sequences, FiniteSetsExt, Storage

CONSTANTS
    Admin, Issuers, Subjects, EligPrograms,
    GlobalScope,                 \* global_scope
    AttestationTypes,
    TypeRules,                   \* the sequences of required types sent
    Criteria,                    \* the criteria, valid and invalid
    ValidCriteria,               \* the ones is_valid_criterion accepts
    CriterionRules,              \* the [all_of, any_of] pairs of sequences sent
    Expiries,
    MAX_RULE_REQUIREMENTS, MAX_MENTORSHIP_CRITERIA,
    MaxRules,                    \* bound on the versions of a rule
    ReviewPrograms, Applicants, Reviewers,
    ReviewLimits,                \* the <<min_reviews, max_reviews>> pairs sent
    Rubrics,                     \* the criteria sent: sequences of [weight_bps, max_score]
    ScoreSheets,                 \* the sequences of scores sent
    BPS_DENOMINATOR, MAX_CRITERIA, MAX_CRITERION_SCORE, MAX_REVIEWERS,
    MaxRubrics,                  \* bound on the rubrics of a program
    MaxConfigVersion             \* bound on the versions of a program's configuration

VARIABLES
    now,
    issuers,       \* DataKey::Issuer: the addresses stored as true
    typeRules,     \* DataKey::RuleVersion and Rule: program -> sequence of rules
    attested,      \* DataKey::Attestation: <<subject, scope, type>> -> attestation
    mentorRules,   \* DataKey::MentorshipRuleVersion and MentorshipRule
    criterionOf,   \* DataKey::CriterionAttestation: <<subject, program, criterion>> -> attestation
    configs,       \* DataKey::ProgramConfig
    rubrics,       \* DataKey::RubricVersion and Rubric: program -> sequence of criteria
    reviewsOf,     \* DataKey::Review: <<program, applicant, reviewer>> -> review
    reviewersOf    \* DataKey::Reviewers: <<program, applicant>> -> sequence of reviewers

eligibilityVars == <<issuers, typeRules, attested, mentorRules, criterionOf>>
reviewVars == <<configs, rubrics, reviewsOf, reviewersOf>>

Attestation == [issuer : Issuers, expiry : Nat, revoked : BOOLEAN]
ProgramConfig == [version : Nat \ {0}, active : BOOLEAN, min_reviews : Nat \ {0},
                  max_reviews : Nat \ {0}]
Review == [rubric_version : Nat \ {0}, scores : ScoreSheets, submitted_at : Nat]

Init ==
    /\ issuers = {} /\ typeRules = Empty /\ attested = Empty
    /\ mentorRules = Empty /\ criterionOf = Empty
    /\ configs = Empty /\ rubrics = Empty /\ reviewsOf = Empty /\ reviewersOf = Empty

-----------------------------------------------------------------------------
(* scholarship-eligibility *)

AddIssuer(i) ==
    issuers' = issuers \cup {i} /\ UNCHANGED <<typeRules, attested, mentorRules, criterionOf>>

\* What the issuer attested before stays valid.
RemoveIssuer(i) ==
    issuers' = issuers \ {i} /\ UNCHANGED <<typeRules, attested, mentorRules, criterionOf>>

Versions(store, p) == Get(store, p, <<>>)
Latest(store, p) == store[p][Len(store[p])]

PublishEligibilityRule(p, required_types) ==
    /\ Len(required_types) \in 1..MAX_RULE_REQUIREMENTS
    /\ Len(Versions(typeRules, p)) < MaxRules
    /\ typeRules' = Set(typeRules, p, Append(Versions(typeRules, p), required_types))
    /\ UNCHANGED <<issuers, attested, mentorRules, criterionOf>>

Elements(s) == {s[i] : i \in DOMAIN s}
CriteriaOf(rule) == Elements(rule.all_of) \cup Elements(rule.any_of)

\* Every criterion is valid and none occurs twice, in one list or across the two.
PublishMentorshipEligibilityRule(p, rule) ==
    LET count == Len(rule.all_of) + Len(rule.any_of)
    IN /\ count \in 1..MAX_MENTORSHIP_CRITERIA
       /\ CriteriaOf(rule) \subseteq ValidCriteria
       /\ Cardinality(CriteriaOf(rule)) = count
       /\ Len(Versions(mentorRules, p)) < MaxRules
       /\ mentorRules' = Set(mentorRules, p, Append(Versions(mentorRules, p), rule))
       /\ UNCHANGED <<issuers, typeRules, attested, criterionOf>>

NewAttestation(issuer, expiry) == [issuer |-> issuer, expiry |-> expiry, revoked |-> FALSE]

\* A second attestation for the same key replaces the first, whoever issued it.
IssueAttestation(issuer, subject, scope, type, expiry) ==
    /\ issuer \in issuers
    /\ expiry > now
    /\ attested' = Set(attested, <<subject, scope, type>>, NewAttestation(issuer, expiry))
    /\ UNCHANGED <<issuers, typeRules, mentorRules, criterionOf>>

IssueCriterionAttestation(issuer, subject, p, criterion, expiry) ==
    /\ issuer \in issuers
    /\ expiry > now
    /\ criterion \in ValidCriteria
    /\ Has(mentorRules, p)
    /\ criterion \in CriteriaOf(Latest(mentorRules, p))
    /\ criterionOf' = Set(criterionOf, <<subject, p, criterion>>, NewAttestation(issuer, expiry))
    /\ UNCHANGED <<issuers, typeRules, attested, mentorRules>>

RevokeAttestation(caller, k) ==
    /\ Has(attested, k)
    /\ caller \in {attested[k].issuer, Admin}
    /\ attested' = [attested EXCEPT ![k].revoked = TRUE]
    /\ UNCHANGED <<issuers, typeRules, mentorRules, criterionOf>>

RevokeCriterionAttestation(caller, k) ==
    /\ Has(criterionOf, k)
    /\ caller \in {criterionOf[k].issuer, Admin}
    /\ criterionOf' = [criterionOf EXCEPT ![k].revoked = TRUE]
    /\ UNCHANGED <<issuers, typeRules, attested, mentorRules>>

(* The decisions *)

\* Fault: an attestation still counts at the second at which it expires.
FaultValid(store, k) == Has(store, k) /\ ~store[k].revoked /\ store[k].expiry >= now
Valid(store, k) == Has(store, k) /\ ~store[k].revoked /\ store[k].expiry > now

HasValidAttestation(subject, scope, type) == Valid(attested, <<subject, scope, type>>)
HasValidCriterionAttestation(subject, p, c) == Valid(criterionOf, <<subject, p, c>>)

EvaluateEligibility(p, subject) ==
    /\ Has(typeRules, p)
    /\ \A type \in Elements(Latest(typeRules, p)) :
           \/ HasValidAttestation(subject, p, type)
           \/ HasValidAttestation(subject, GlobalScope, type)

EvaluateMentorshipEligibility(p, subject) ==
    /\ Has(mentorRules, p)
    /\ LET rule == Latest(mentorRules, p)
           holds(c) == HasValidCriterionAttestation(subject, p, c)
       IN /\ \A c \in Elements(rule.all_of) : holds(c)
          /\ rule.any_of # <<>> => \E c \in Elements(rule.any_of) : holds(c)

TypeNext ==
    /\ \/ \E i \in Issuers : AddIssuer(i) \/ RemoveIssuer(i)
       \/ \E p \in EligPrograms, r \in TypeRules : PublishEligibilityRule(p, r)
       \/ \E i \in Issuers, s \in Subjects, scope \in EligPrograms \cup {GlobalScope},
             t \in AttestationTypes, e \in Expiries : IssueAttestation(i, s, scope, t, e)
       \/ \E caller \in Issuers \cup {Admin}, k \in DOMAIN attested :
             RevokeAttestation(caller, k)
    /\ UNCHANGED now

CriterionNext ==
    /\ \/ \E i \in Issuers : AddIssuer(i) \/ RemoveIssuer(i)
       \/ \E p \in EligPrograms, r \in CriterionRules : PublishMentorshipEligibilityRule(p, r)
       \/ \E i \in Issuers, s \in Subjects, p \in EligPrograms, c \in Criteria, e \in Expiries :
             IssueCriterionAttestation(i, s, p, c, e)
       \/ \E caller \in Issuers \cup {Admin}, k \in DOMAIN criterionOf :
             RevokeCriterionAttestation(caller, k)
    /\ UNCHANGED now

-----------------------------------------------------------------------------
(* scholarship-reviews *)

RegisterProgram(p, min_reviews, max_reviews) ==
    /\ min_reviews > 0
    /\ max_reviews >= min_reviews
    /\ max_reviews <= MAX_REVIEWERS
    /\ ~Has(configs, p)
    /\ configs' = Set(configs, p, [version |-> 1, active |-> TRUE,
                                   min_reviews |-> min_reviews, max_reviews |-> max_reviews])
    /\ UNCHANGED <<rubrics, reviewsOf, reviewersOf>>

SetProgramActive(p, active) ==
    /\ Has(configs, p)
    /\ configs[p].version < MaxConfigVersion
    /\ configs' = [configs EXCEPT ![p].version = @ + 1, ![p].active = active]
    /\ UNCHANGED <<rubrics, reviewsOf, reviewersOf>>

RubricsOf(p) == Get(rubrics, p, <<>>)

ValidateRubric(criteria) ==
    /\ Len(criteria) \in 1..MAX_CRITERIA
    /\ \A i \in DOMAIN criteria : criteria[i].max_score \in 1..MAX_CRITERION_SCORE
    /\ SumFunction([i \in DOMAIN criteria |-> criteria[i].weight_bps]) = BPS_DENOMINATOR

PublishRubric(p, criteria) ==
    /\ Has(configs, p)
    /\ ValidateRubric(criteria)
    /\ Len(RubricsOf(p)) < MaxRubrics
    /\ rubrics' = Set(rubrics, p, Append(RubricsOf(p), criteria))
    /\ UNCHANGED <<configs, reviewsOf, reviewersOf>>

ValidScores(criteria, scores) ==
    /\ Len(scores) = Len(criteria)
    /\ \A i \in DOMAIN criteria : scores[i] <= criteria[i].max_score

\* Each score is scaled to basis points, rounded down, weighted, and the sum rounded down.
WeightedTotal(criteria, scores) ==
    LET normalized(i) == (scores[i] * BPS_DENOMINATOR) \div criteria[i].max_score
    IN SumFunction([i \in DOMAIN criteria |-> normalized(i) * criteria[i].weight_bps])
           \div BPS_DENOMINATOR

ReviewersFor(p, applicant) == Get(reviewersOf, <<p, applicant>>, <<>>)

SubmitReview(reviewer, p, applicant, scores) ==
    LET latest == Len(RubricsOf(p))
    IN /\ Has(configs, p)
       /\ configs[p].active
       /\ latest > 0
       /\ ~Has(reviewsOf, <<p, applicant, reviewer>>)
       /\ Len(ReviewersFor(p, applicant)) < configs[p].max_reviews
       /\ ValidScores(rubrics[p][latest], scores)
       /\ reviewsOf' = Set(reviewsOf, <<p, applicant, reviewer>>,
              [rubric_version |-> latest, scores |-> scores, submitted_at |-> now])
       /\ reviewersOf' = Set(reviewersOf, <<p, applicant>>,
              Append(ReviewersFor(p, applicant), reviewer))
       /\ UNCHANGED <<configs, rubrics>>

(* The queries a decision is taken from *)

ReviewAt(p, applicant, i) == reviewsOf[<<p, applicant, ReviewersFor(p, applicant)[i]>>]
FirstRubric(p, applicant) == ReviewAt(p, applicant, 1).rubric_version

\* Fault: a score is aggregated whatever rubrics its reviews were made under.
FaultScored(p, applicant) ==
    Has(configs, p) /\ Len(ReviewersFor(p, applicant)) >= configs[p].min_reviews
\* aggregate_score answers: enough reviews, all under the rubric of the first one.
Scored(p, applicant) ==
    /\ Has(configs, p)
    /\ Len(ReviewersFor(p, applicant)) >= configs[p].min_reviews
    /\ \A i \in DOMAIN ReviewersFor(p, applicant) :
           ReviewAt(p, applicant, i).rubric_version = FirstRubric(p, applicant)

AggregateScore(p, applicant) ==
    LET criteria == rubrics[p][FirstRubric(p, applicant)]
        n == Len(ReviewersFor(p, applicant))
    IN SumFunction([i \in 1..n |-> WeightedTotal(criteria, ReviewAt(p, applicant, i).scores)])
           \div n

FirstReviewTime(p, applicant) ==
    Min({ReviewAt(p, applicant, i).submitted_at : i \in DOMAIN ReviewersFor(p, applicant)})

CompareApplicants(p, a, b) ==
    LET scoreA == AggregateScore(p, a)
        scoreB == AggregateScore(p, b)
        firstA == FirstReviewTime(p, a)
        firstB == FirstReviewTime(p, b)
    IN CASE scoreA > scoreB -> "ABetter"
         [] scoreA < scoreB -> "BBetter"
         [] scoreA = scoreB /\ firstA < firstB -> "ABetter"
         [] scoreA = scoreB /\ firstA > firstB -> "BBetter"
         [] OTHER -> "Tie"

ReviewNext ==
    /\ \/ \E p \in ReviewPrograms, lim \in ReviewLimits : RegisterProgram(p, lim[1], lim[2])
       \/ \E p \in ReviewPrograms, active \in BOOLEAN : SetProgramActive(p, active)
       \/ \E p \in ReviewPrograms, c \in Rubrics : PublishRubric(p, c)
       \/ \E r \in Reviewers, p \in ReviewPrograms, a \in Applicants, s \in ScoreSheets :
              SubmitReview(r, p, a, s)
    /\ UNCHANGED now

-----------------------------------------------------------------------------
\* Every stored value has the shape of its Rust type.
TypeOK ==
    /\ issuers \subseteq Issuers
    /\ typeRules \in [DOMAIN typeRules -> Seq(TypeRules)]
    /\ mentorRules \in [DOMAIN mentorRules -> Seq(CriterionRules)]
    /\ attested \in [DOMAIN attested -> Attestation]
    /\ criterionOf \in [DOMAIN criterionOf -> Attestation]
    /\ configs \in [DOMAIN configs -> ProgramConfig]
    /\ rubrics \in [DOMAIN rubrics -> Seq(Rubrics)]
    /\ reviewsOf \in [DOMAIN reviewsOf -> Review]
    /\ reviewersOf \in [DOMAIN reviewersOf -> Seq(Reviewers)]

\* Nobody is eligible on evidence that has run out: at any moment an eligible subject holds,
\* for every requirement of the program's newest rule (and one of its alternatives), an
\* attestation that was not revoked and still lies in the future, even when the rule was
\* replaced, an issuer removed or an attestation issued again in between.
EligibleOnLiveEvidence ==
    LET live(store, k) == k \in DOMAIN store /\ store[k].expiry > now /\ ~store[k].revoked
    IN \A p \in EligPrograms, s \in Subjects :
           /\ EvaluateEligibility(p, s) =>
                  \A t \in Elements(Latest(typeRules, p)) :
                      \E scope \in {p, GlobalScope} : live(attested, <<s, scope, t>>)
           /\ EvaluateMentorshipEligibility(p, s) =>
                  LET rule == Latest(mentorRules, p)
                  IN /\ \A c \in Elements(rule.all_of) : live(criterionOf, <<s, p, c>>)
                     /\ \/ rule.any_of = <<>>
                        \/ \E c \in Elements(rule.any_of) : live(criterionOf, <<s, p, c>>)

\* A mentorship rule never asks for one criterion twice, so an alternative can never be
\* satisfied by a criterion that is required anyway.
RulesWellFormed ==
    \A p \in DOMAIN mentorRules : \A i \in DOMAIN mentorRules[p] :
        LET rule == mentorRules[p][i]
        IN /\ Elements(rule.all_of) \cap Elements(rule.any_of) = {}
           /\ \A l \in {rule.all_of, rule.any_of} : Cardinality(Elements(l)) = Len(l)

\* Whenever aggregate_score answers, every review it adds up fits the rubric it is scored
\* under (so weighted_total cannot fail) and the score stays within 0..10000 basis points,
\* although a new rubric may be published between two reviews of one applicant.
ScoresComparable ==
    \A p \in ReviewPrograms, a \in Applicants :
        Scored(p, a) =>
            /\ \A i \in DOMAIN ReviewersFor(p, a) :
                   ValidScores(rubrics[p][FirstRubric(p, a)], ReviewAt(p, a, i).scores)
            /\ AggregateScore(p, a) \in 0..BPS_DENOMINATOR

\* The order of compare_applicants is one ranking: what it says of a and b is the reverse
\* of what it says of b and a, and being better is transitive.
RankingConsistent ==
    \A p \in ReviewPrograms :
        LET ranked == {a \in Applicants : Scored(p, a)}
            better(a, b) == CompareApplicants(p, a, b) = "ABetter"
        IN \A a, b, c \in ranked :
               /\ better(a, b) <=> CompareApplicants(p, b, a) = "BBetter"
               /\ better(a, b) /\ better(b, c) => better(a, c)
=============================================================================

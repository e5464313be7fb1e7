------------------------------ MODULE Conduct ------------------------------
(***************************************************************************)
(* contracts/mentorship-conduct: numbered conduct policies for mentors,    *)
(* mentees or both, acceptances of them, engagements that need the current *)
(* policies accepted to become active, and breach cases.                   *)
(* The model starts after initialize; hashes and severities are left out.  *)
(***************************************************************************)
EXTENDS Integers, Sequences, FiniteSets, Storage

CONSTANTS
    Admin, ConductCallers, ConductPersons, BreachSubjects, EngagementPairs, EngagementIds, CaseRefs,
    PolicyRoles,                 \* the <<actor, role>> in which people accept policies
    EffectiveTimes,              \* effective_at the admin passes, zero included
    MAX_POLICY_VERSION

VARIABLES
    conductPolicies, \* DataKey::Policy: the published policies, by version
    latestPolicy,    \* DataKey::LatestPolicy: role -> version, 0 when absent
    acceptances,     \* DataKey::Acceptance: set of <<actor, version, role>>
    engagements,     \* DataKey::Engagement: id -> engagement
    breaches         \* DataKey::Breach: case -> record

conductVars == <<conductPolicies, latestPolicy, acceptances, engagements, breaches>>

Role == {"Mentor", "Mentee"}
Audience == {"Mentor", "Mentee", "Both"}
AppliesTo(audience, role) == audience \in {"Both", role}

Policy == [audience : Audience, mandatory : BOOLEAN, retired : BOOLEAN]
Engagement ==
    [mentor : ConductPersons, mentee : ConductPersons,
     state : {"Pending", "Active", "Suspended", "Ended"}, versions : [Role -> Nat]]
BreachRecord == [subject : ConductPersons, policy : Nat, resolved : BOOLEAN]

Init ==
    /\ conductPolicies = <<>>
    /\ latestPolicy = [r \in Role |-> 0]
    /\ acceptances = {}
    /\ engagements = Empty
    /\ breaches = Empty

RequireAdmin(caller) == caller = Admin
HasPolicy(version) == version \in 1..Len(conductPolicies)

\* The effective time is stored and not consulted again.
PublishPolicy(caller, audience, effective, mandatory) ==
    /\ RequireAdmin(caller)
    /\ effective # 0
    /\ Len(conductPolicies) < MAX_POLICY_VERSION
    /\ conductPolicies' = Append(conductPolicies,
           [audience |-> audience, mandatory |-> mandatory, retired |-> FALSE])
    /\ latestPolicy' = [r \in Role |-> IF AppliesTo(audience, r)
                                       THEN Len(conductPolicies) + 1 ELSE latestPolicy[r]]
    /\ UNCHANGED <<acceptances, engagements, breaches>>

RetirePolicy(caller, version) ==
    /\ RequireAdmin(caller)
    /\ HasPolicy(version)
    /\ ~conductPolicies[version].retired
    /\ conductPolicies' = [conductPolicies EXCEPT ![version].retired = TRUE]
    /\ UNCHANGED <<latestPolicy, acceptances, engagements, breaches>>

\* Accepting again is accepted and writes nothing.
AcceptPolicy(actor, version, role) ==
    /\ <<actor, version, role>> \notin acceptances
    /\ HasPolicy(version)
    /\ ~conductPolicies[version].retired
    /\ AppliesTo(conductPolicies[version].audience, role)
    /\ acceptances' = acceptances \cup {<<actor, version, role>>}
    /\ UNCHANGED <<conductPolicies, latestPolicy, engagements, breaches>>

\* Fault: an acceptance of any earlier version of the policy is good enough.
FaultCurrentAcceptance(actor, role) ==
    LET version == latestPolicy[role] IN
    /\ version # 0
    /\ ~conductPolicies[version].retired
    /\ conductPolicies[version].mandatory =>
         \E v \in 1..version : <<actor, v, role>> \in acceptances
CurrentAcceptance(actor, role) ==
    LET version == latestPolicy[role] IN
    /\ version # 0
    /\ ~conductPolicies[version].retired
    /\ conductPolicies[version].mandatory => <<actor, version, role>> \in acceptances

\* Both parties sign.
CreateEngagement(id, mentor, mentee) ==
    /\ mentor # mentee
    /\ ~Has(engagements, id)
    /\ engagements' = Set(engagements, id,
           [mentor |-> mentor, mentee |-> mentee, state |-> "Pending",
            versions |-> [r \in Role |-> 0]])
    /\ UNCHANGED <<conductPolicies, latestPolicy, acceptances, breaches>>

\* A pending engagement is activated, and a suspended one resumed, by either party
\* under the policies that are current then.
Activate(caller, id, from) ==
    /\ Has(engagements, id)
    /\ caller \in {engagements[id].mentor, engagements[id].mentee}
    /\ engagements[id].state = from
    /\ CurrentAcceptance(engagements[id].mentor, "Mentor")
    /\ CurrentAcceptance(engagements[id].mentee, "Mentee")
    /\ engagements' = [engagements EXCEPT ![id].state = "Active", ![id].versions = latestPolicy]
    /\ UNCHANGED <<conductPolicies, latestPolicy, acceptances, breaches>>

ActivateEngagement(caller, id) == Activate(caller, id, "Pending")
ResumeEngagement(caller, id) == Activate(caller, id, "Suspended")

SuspendEngagement(caller, id) ==
    /\ RequireAdmin(caller)
    /\ Has(engagements, id)
    /\ engagements[id].state = "Active"
    /\ engagements' = [engagements EXCEPT ![id].state = "Suspended"]
    /\ UNCHANGED <<conductPolicies, latestPolicy, acceptances, breaches>>

EndEngagement(caller, id) ==
    /\ Has(engagements, id)
    /\ caller \in {engagements[id].mentor, engagements[id].mentee}
    /\ engagements[id].state # "Ended"
    /\ engagements' = [engagements EXCEPT ![id].state = "Ended"]
    /\ UNCHANGED <<conductPolicies, latestPolicy, acceptances, breaches>>

RecordBreach(caller, ref, subject, version) ==
    /\ RequireAdmin(caller)
    /\ HasPolicy(version)
    /\ ~Has(breaches, ref)
    /\ breaches' = Set(breaches, ref,
           [subject |-> subject, policy |-> version, resolved |-> FALSE])
    /\ UNCHANGED <<conductPolicies, latestPolicy, acceptances, engagements>>

ResolveBreach(caller, ref) ==
    /\ RequireAdmin(caller)
    /\ Has(breaches, ref)
    /\ ~breaches[ref].resolved
    /\ breaches' = [breaches EXCEPT ![ref].resolved = TRUE]
    /\ UNCHANGED <<conductPolicies, latestPolicy, acceptances, engagements>>

EngagementCompliant(id) ==
    /\ engagements[id].state = "Active"
    /\ CurrentAcceptance(engagements[id].mentor, "Mentor")
    /\ CurrentAcceptance(engagements[id].mentee, "Mentee")

Next ==
    \/ \E caller \in ConductCallers :
           \/ \E audience \in Audience, effective \in EffectiveTimes, mandatory \in BOOLEAN :
                  PublishPolicy(caller, audience, effective, mandatory)
           \/ \E version \in 1..MAX_POLICY_VERSION :
                  \/ RetirePolicy(caller, version)
                  \/ \E ref \in CaseRefs, subject \in BreachSubjects :
                         RecordBreach(caller, ref, subject, version)
           \/ \E ref \in CaseRefs : ResolveBreach(caller, ref)
           \/ \E id \in EngagementIds : SuspendEngagement(caller, id)
    \/ \E actor \in ConductPersons, id \in EngagementIds :
           \/ ActivateEngagement(actor, id)
           \/ ResumeEngagement(actor, id)
           \/ EndEngagement(actor, id)
    \/ \E version \in 1..MAX_POLICY_VERSION, p \in PolicyRoles : AcceptPolicy(p[1], version, p[2])
    \/ \E id \in EngagementIds, pair \in EngagementPairs : CreateEngagement(id, pair[1], pair[2])

-----------------------------------------------------------------------------
(* Properties *)

\* Every stored value stays in its type.
TypeOK ==
    /\ \A v \in 1..Len(conductPolicies) : conductPolicies[v] \in Policy
    /\ \A id \in DOMAIN engagements : engagements[id] \in Engagement
    /\ \A ref \in DOMAIN breaches : breaches[ref] \in BreachRecord

\* The latest policy of a role is the last one published for it, and an engagement
\* that is active was activated under versions its parties accepted, each one's own
\* if that version was mandatory.
ActiveUnderAcceptedPolicies ==
    /\ \A r \in Role, v \in 1..Len(conductPolicies) :
         AppliesTo(conductPolicies[v].audience, r) => latestPolicy[r] >= v
    /\ \A id \in DOMAIN engagements :
         LET e     == engagements[id]
             who(r) == IF r = "Mentor" THEN e.mentor ELSE e.mentee
         IN  e.state \in {"Active", "Suspended"} =>
               \A r \in Role :
                   /\ HasPolicy(e.versions[r])
                   /\ AppliesTo(conductPolicies[e.versions[r]].audience, r)
                   /\ conductPolicies[e.versions[r]].mandatory =>
                        <<who(r), e.versions[r], r>> \in acceptances

\* An ended engagement stays ended, a resolved case resolved and a retired policy
\* retired; what a policy asked for is never rewritten.
ConductFinal ==
    [][/\ \A id \in DOMAIN engagements : engagements[id].state = "Ended" =>
              engagements'[id] = engagements[id]
       /\ \A ref \in DOMAIN breaches : breaches[ref].resolved => breaches'[ref] = breaches[ref]
       /\ \A v \in 1..Len(conductPolicies) :
            /\ conductPolicies'[v].mandatory = conductPolicies[v].mandatory
            /\ conductPolicies[v].retired => conductPolicies'[v].retired]_conductVars
=============================================================================

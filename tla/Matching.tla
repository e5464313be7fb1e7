------------------------------ MODULE Matching ------------------------------
(***************************************************************************)
(* contracts/mentorship-matching: proposals of a mentor, or of a           *)
(* coordinator, for a pair in a program; both parties approve one version  *)
(* of it before it expires, and a coordinator may adjust it.               *)
(*                                                                         *)
(* The model starts after initialize.  A proposal's id is a hash of a      *)
(* counter, and is that counter here; terms are a model value.             *)
(***************************************************************************)
EXTENDS Integers, FiniteSets, Storage

CONSTANTS
    Admin, MatchCoordinators,    \* who the admin appoints coordinator
    Mentors, Mentees, MatchPrograms,
    OfferInputs,                 \* <<terms, expires_at>> callers pass, terms a pair <<hash, fee>>
    NoTerms,                     \* the zero hash
    MaxLifetime, MAX_PENDING_PROPOSALS_PER_PROGRAM, MAX_COORDINATOR_ACTIONS,
    MaxProposals,                \* bound: proposals created
    StatusInputs, BlockPairs,    \* the <<who, status>> the admin sets, the <<who, counterparty>> blocked
    MaxProposalVersion           \* bound: versions of one proposal

VARIABLES
    now,
    matchCoordinators, \* DataKey::Coordinator
    participants,      \* DataKey::Participant: address -> profile
    blocked,           \* DataKey::Blocked: set of <<participant, counterparty>>
    offers,            \* DataKey::Proposal: sequence number -> proposal
    pairIndex,         \* DataKey::PairIndex: <<program, mentor, mentee>> -> proposal
    pendingCount,      \* DataKey::PendingCount: program -> count
    actionCount        \* DataKey::CoordActionCount: coordinator -> actions logged

registryVars == <<matchCoordinators, participants, blocked>>
matchingVars == <<registryVars, offers, pairIndex, pendingCount, actionCount>>

ParticipantStatus == {"Active", "Inactive", "Suspended"}
Participant == [role : {"Mentor", "Mentee"}, status : ParticipantStatus]
IsOpen(status) == status \in {"Proposed", "Active"}
Proposal ==
    [program : MatchPrograms, mentor : Mentors, mentee : Mentees, terms : {o[1] : o \in OfferInputs},
     expires : Nat, origin : {"Mentor", "Coordinator"},
     status : {"Proposed", "Active", "Declined", "Expired"}, version : Nat,
     approved : SUBSET (Mentors \cup Mentees)]

Init ==
    /\ matchCoordinators = {}
    /\ participants = Empty
    /\ blocked = {}
    /\ offers = Empty
    /\ pairIndex = Empty
    /\ pendingCount = Empty
    /\ actionCount = Empty

RequireAdmin(caller) == caller = Admin
RequireCoordinator(caller) == caller \in matchCoordinators \cup {Admin}

-----------------------------------------------------------------------------
(* Participants *)

SetCoordinator(caller, who, allowed) ==
    /\ RequireAdmin(caller)
    /\ matchCoordinators' = IF allowed THEN matchCoordinators \cup {who}
                            ELSE matchCoordinators \ {who}
    /\ UNCHANGED <<participants, blocked, offers, pairIndex, pendingCount, actionCount>>

RegisterParticipant(caller, who, role) ==
    /\ RequireAdmin(caller)
    /\ ~Has(participants, who)
    /\ participants' = Set(participants, who, [role |-> role, status |-> "Active"])
    /\ UNCHANGED <<matchCoordinators, blocked, offers, pairIndex, pendingCount, actionCount>>

SetParticipantStatus(caller, who, status) ==
    /\ RequireAdmin(caller)
    /\ Has(participants, who)
    /\ participants' = [participants EXCEPT ![who].status = status]
    /\ UNCHANGED <<matchCoordinators, blocked, offers, pairIndex, pendingCount, actionCount>>

SetBlock(who, counterparty, value) ==
    /\ who # counterparty
    /\ blocked' = IF value THEN blocked \cup {<<who, counterparty>>}
                  ELSE blocked \ {<<who, counterparty>>}
    /\ UNCHANGED <<matchCoordinators, participants, offers, pairIndex, pendingCount, actionCount>>

RequireEligible(mentor, mentee) ==
    /\ Has(participants, mentor) /\ Has(participants, mentee)
    /\ participants[mentor] = [role |-> "Mentor", status |-> "Active"]
    /\ participants[mentee] = [role |-> "Mentee", status |-> "Active"]
    /\ <<mentor, mentee>> \notin blocked /\ <<mentee, mentor>> \notin blocked

-----------------------------------------------------------------------------
(* Proposals *)

ValidTerms(terms, expires) ==
    /\ terms[1] # NoTerms
    /\ terms[2] >= 0
    /\ expires > now /\ expires <= now + MaxLifetime

Pending(count, program) == Get(count, program, 0)
Increase(count, program) == Set(count, program, Pending(count, program) + 1)
Decrease(count, program) ==
    IF Pending(count, program) > 0 THEN Set(count, program, Pending(count, program) - 1)
    ELSE count

\* Fault: a proposal that expires unanswered is not counted out.
FaultCountAfterExpiry(p) == pendingCount
CountAfterExpiry(p) ==
    IF p.status = "Proposed" THEN Decrease(pendingCount, p.program) ELSE pendingCount

RecordCoordinatorAction(who) ==
    /\ Get(actionCount, who, 0) < MAX_COORDINATOR_ACTIONS
    /\ actionCount' = Set(actionCount, who, Get(actionCount, who, 0) + 1)

\* An open proposal of the pair blocks another until it expires, and is expired then.
Create(origin, program, mentor, mentee, terms, expires) ==
    LET pair    == <<program, mentor, mentee>>
        id      == Cardinality(DOMAIN offers) + 1
        lapsed  == Has(pairIndex, pair) /\ IsOpen(offers[pairIndex[pair]].status)
        old     == offers[pairIndex[pair]]
        count   == IF lapsed THEN CountAfterExpiry(old) ELSE pendingCount
        settled == IF lapsed THEN [offers EXCEPT ![pairIndex[pair]].status = "Expired"]
                   ELSE offers
    IN  /\ id <= MaxProposals
        /\ mentor # mentee
        /\ ValidTerms(terms, expires)
        /\ RequireEligible(mentor, mentee)
        /\ lapsed => now >= old.expires
        /\ Pending(count, program) < MAX_PENDING_PROPOSALS_PER_PROGRAM
        /\ pendingCount' = Increase(count, program)
        /\ offers' = Set(settled, id,
               [program |-> program, mentor |-> mentor, mentee |-> mentee, terms |-> terms,
                expires |-> expires, origin |-> origin, status |-> "Proposed",
                version |-> 1, approved |-> {}])
        /\ pairIndex' = Set(pairIndex, pair, id)
        /\ UNCHANGED registryVars

CreateProposal(program, mentor, mentee, terms, expires) ==
    Create("Mentor", program, mentor, mentee, terms, expires) /\ UNCHANGED actionCount

ProposeAsCoordinator(caller, program, mentor, mentee, terms, expires) ==
    /\ RequireCoordinator(caller)
    /\ Create("Coordinator", program, mentor, mentee, terms, expires)
    /\ RecordCoordinatorAction(caller)

ApproveProposal(who, id, expected) ==
    LET p        == offers[id]
        approved == p.approved \cup {who}
        both     == approved = {p.mentor, p.mentee}
    IN  /\ Has(offers, id)
        /\ who \in {p.mentor, p.mentee}
        /\ p.version = expected
        /\ who \notin p.approved
        /\ p.status = "Proposed"
        /\ now < p.expires
        /\ RequireEligible(p.mentor, p.mentee)
        /\ offers' = [offers EXCEPT ![id].approved = approved,
                                    ![id].status = IF both THEN "Active" ELSE @]
        /\ pendingCount' = IF both THEN Decrease(pendingCount, p.program) ELSE pendingCount
        /\ UNCHANGED <<registryVars, pairIndex, actionCount>>

\* Declining a declined proposal is accepted and writes nothing.
DeclineProposal(who, id) ==
    /\ Has(offers, id)
    /\ who \in {offers[id].mentor, offers[id].mentee}
    /\ offers[id].status = "Proposed"
    /\ offers' = [offers EXCEPT ![id].status = "Declined"]
    /\ pendingCount' = Decrease(pendingCount, offers[id].program)
    /\ UNCHANGED <<registryVars, pairIndex, actionCount>>

\* Fault: an adjustment keeps the approvals of the earlier terms.
FaultApprovalsAfter(p) == p.approved
ApprovalsAfter(p) == {}

\* An adjusted proposal is pending again, also if both had approved it.
AdjustProposal(caller, id, terms, expires) ==
    LET p == offers[id] IN
    /\ RequireCoordinator(caller)
    /\ ValidTerms(terms, expires)
    /\ Has(offers, id)
    /\ IsOpen(p.status)
    /\ now < p.expires
    /\ RequireEligible(p.mentor, p.mentee)
    /\ p.version < MaxProposalVersion
    /\ p.status = "Active" =>
         Pending(pendingCount, p.program) < MAX_PENDING_PROPOSALS_PER_PROGRAM
    /\ pendingCount' = IF p.status = "Active" THEN Increase(pendingCount, p.program)
                       ELSE pendingCount
    /\ offers' = [offers EXCEPT ![id] =
           [p EXCEPT !.terms = terms, !.expires = expires, !.status = "Proposed",
                     !.version = @ + 1, !.approved = ApprovalsAfter(p)]]
    /\ RecordCoordinatorAction(caller)
    /\ UNCHANGED <<registryVars, pairIndex>>

Next ==
    \/ \E caller \in MatchCoordinators \cup {Admin} :
           \/ \E who \in MatchCoordinators, allowed \in BOOLEAN : SetCoordinator(caller, who, allowed)
           \/ \E who \in Mentors : RegisterParticipant(caller, who, "Mentor")
           \/ \E who \in Mentees : RegisterParticipant(caller, who, "Mentee")
           \/ \E input \in StatusInputs :
                  SetParticipantStatus(caller, input[1], input[2])
           \/ \E offer \in OfferInputs :
                  \/ \E program \in MatchPrograms, mentor \in Mentors, mentee \in Mentees :
                         ProposeAsCoordinator(caller, program, mentor, mentee, offer[1], offer[2])
                  \/ \E id \in 1..MaxProposals : AdjustProposal(caller, id, offer[1], offer[2])
    \/ \E pair \in BlockPairs, value \in BOOLEAN : SetBlock(pair[1], pair[2], value)
    \/ \E program \in MatchPrograms, mentor \in Mentors, mentee \in Mentees,
          offer \in OfferInputs :
              CreateProposal(program, mentor, mentee, offer[1], offer[2])
    \/ \E who \in Mentors \cup Mentees, id \in 1..MaxProposals :
           \/ \E expected \in 1..MaxProposalVersion : ApproveProposal(who, id, expected)
           \/ DeclineProposal(who, id)

-----------------------------------------------------------------------------
(* Properties *)

\* Every stored value stays in its type.
TypeOK ==
    /\ \A who \in DOMAIN participants : participants[who] \in Participant
    /\ \A id \in DOMAIN offers : offers[id] \in Proposal

\* The pending count of a program is the number of its proposals that wait for an
\* approval, through expiry, approval, decline and adjustment; every action of a
\* coordinator is logged: one per proposal it made and one per later version.
ActionLog ==
    {entry \in (DOMAIN actionCount) \X (1..MAX_COORDINATOR_ACTIONS) :
        entry[2] <= actionCount[entry[1]]}
CoordinatedVersions ==
    {v \in (DOMAIN offers) \X (1..MaxProposalVersion) :
        /\ v[2] <= offers[v[1]].version
        /\ v[2] = 1 => offers[v[1]].origin = "Coordinator"}
PendingExact ==
    /\ \A program \in MatchPrograms :
         Pending(pendingCount, program) =
             Cardinality({id \in DOMAIN offers : offers[id].program = program
                                                   /\ offers[id].status = "Proposed"})
    /\ Cardinality(ActionLog) = Cardinality(CoordinatedVersions)

\* A pair has at most one open proposal in a program: the one of the index.
OneOpenOffer ==
    \A id \in DOMAIN offers :
        LET p == offers[id] IN
        IsOpen(p.status) => pairIndex[<<p.program, p.mentor, p.mentee>>] = id

\* A match becomes active only when both parties approved its current terms: terms
\* never change while an approval for them stands.
ApprovedTermsStand ==
    [][\A id \in DOMAIN offers :
         LET p == offers[id]
             q == offers'[id]
         IN  /\ q.status = "Active" => q.approved = {q.mentor, q.mentee}
             /\ q.version # p.version => q.approved = {}
             /\ q.version = p.version => q.terms = p.terms]_matchingVars
=============================================================================

----------------------------- MODULE Decisions -----------------------------
(***************************************************************************)
(* contracts/scholarship-decisions: a committee votes on an application;   *)
(* a chair or the admin finalizes the decision once a quorum has voted; an *)
(* award reserves the program's budget until the applicant accepts it, it  *)
(* is released or it lapses; a rejected or waitlisted applicant may appeal *)
(* once, to members who took no part in the decision.                      *)
(*                                                                         *)
(* The model starts after initialize.  A list of votes holds one vote per  *)
(* member and is a function from the members who voted to their choices;   *)
(* evidence and grounds are commitments that are never read.               *)
(***************************************************************************)
EXTENDS Integers, FiniteSets, Storage

CONSTANTS
    Admin,            \* the address stored by initialize
    Members,          \* addresses that are appointed to the committee
    Appointments,     \* the <<member, role>> pairs the admin appoints
    Ballots,          \* the <<member, choice>> pairs the members cast
    Applicants,
    DecisionPrograms, \* program ids
    Quorums,          \* quorums the admin passes (u32)
    Budgets,          \* amounts the admin passes (i128)
    Periods,          \* reservation_ttl and appeal_window the admin passes (u64)
    EvidenceVersions, \* versions the chair passes (u32)
    MAX_MEMBERS,      \* committee bound of the code
    MaxTime           \* bound: ledger timestamp

VARIABLES
    now,          \* env.ledger().timestamp()
    role,         \* DataKey::MemberRole; its domain is DataKey::MemberList
    active,       \* the addresses with DataKey::Member set to true
    quorum,       \* DataKey::Quorum, or 0
    configs,      \* DataKey::ProgramConfig
    decisions,    \* DataKey::Decision: <<program, applicant>> -> decision
    reservations, \* DataKey::Reservation: <<program, applicant>> -> reservation
    appeals       \* DataKey::Appeal: <<program, applicant>> -> appeal

committee == <<role, active, quorum>>
decisionVars == <<committee, configs, decisions, reservations, appeals>>

CommitteeRole == {"Reviewer", "Chair"}
DecisionOutcome == {"Pending", "Awarded", "Waitlisted", "Rejected"}
VoteChoice == {"Award", "Waitlist", "Reject", "Recuse"}

DecisionProgramConfig ==
    [active : BOOLEAN, total_budget : Nat, per_award_amount : Nat,
     reserved_amount : Int, awarded_amount : Int,
     reservation_ttl : Nat, appeal_window : Nat]

Votes == UNION {[voters -> VoteChoice] : voters \in SUBSET Members}

Decision ==
    [status : {"Open", "Finalized"}, outcome : DecisionOutcome,
     outcome_version : Nat, finalized_at : Nat, votes : Votes]

Reservation ==
    [amount : Nat, expires_at : Nat,
     status : {"Reserved", "Claimed", "Released", "Expired"}]

Appeal ==
    [original_outcome : DecisionOutcome, status : {"Open", "Resolved"},
     outcome : DecisionOutcome, votes : Votes]

Init ==
    /\ role = Empty
    /\ active = {}
    /\ quorum = 0
    /\ configs = Empty
    /\ decisions = Empty
    /\ reservations = Empty
    /\ appeals = Empty

RequireAdmin(caller) == caller = Admin
IsActiveMember(m) == m \in active
IsChair(m) == IsActiveMember(m) /\ Has(role, m) /\ role[m] = "Chair"
RequireChairOrAdmin(caller) == IsChair(caller) \/ RequireAdmin(caller)

-----------------------------------------------------------------------------
(* Committee and programs *)

AddMember(caller, m, r) ==
    /\ RequireAdmin(caller)
    /\ Has(role, m) \/ Cardinality(DOMAIN role) < MAX_MEMBERS
    /\ active' = active \cup {m}
    /\ role' = Set(role, m, r)
    /\ UNCHANGED <<quorum, configs, decisions, reservations, appeals>>

RemoveMember(caller, m) ==
    /\ RequireAdmin(caller)
    /\ active' = active \ {m}
    /\ UNCHANGED <<role, quorum, configs, decisions, reservations, appeals>>

\* Fault: a quorum larger than any committee is accepted.
FaultQuorumInRange(q) == q # 0
QuorumInRange(q) == q \in 1..MAX_MEMBERS

SetQuorum(caller, q) ==
    /\ RequireAdmin(caller)
    /\ QuorumInRange(q)
    /\ quorum' = q
    /\ UNCHANGED <<role, active, configs, decisions, reservations, appeals>>

RegisterProgram(caller, p, total, per_award, ttl, window) ==
    /\ RequireAdmin(caller)
    /\ total > 0 /\ per_award > 0 /\ per_award <= total
    /\ ttl # 0 /\ window # 0
    /\ ~Has(configs, p)
    /\ configs' = Set(configs, p,
           [active |-> TRUE, total_budget |-> total, per_award_amount |-> per_award,
            reserved_amount |-> 0, awarded_amount |-> 0,
            reservation_ttl |-> ttl, appeal_window |-> window])
    /\ UNCHANGED <<committee, decisions, reservations, appeals>>

SetProgramActive(caller, p, value) ==
    /\ RequireAdmin(caller)
    /\ Has(configs, p)
    /\ configs' = [configs EXCEPT ![p].active = value]
    /\ UNCHANGED <<committee, decisions, reservations, appeals>>

ProgramActive(p) == Has(configs, p) /\ configs[p].active

-----------------------------------------------------------------------------
(* Votes and outcomes *)

HasVoted(votes, m) == m \in DOMAIN votes

\* tally, for one choice
Tally(votes, choice) == Cardinality({m \in DOMAIN votes : votes[m] = choice})

Cast(votes) == Tally(votes, "Award") + Tally(votes, "Waitlist") + Tally(votes, "Reject")

QuorumMet(votes) == quorum # 0 /\ Cast(votes) >= quorum

\* Fault: a tie goes to the more generous outcome.
FaultDecideOutcome(award, waitlist, reject) ==
    IF award >= waitlist /\ award >= reject THEN "Awarded"
    ELSE IF waitlist >= reject THEN "Waitlisted" ELSE "Rejected"
DecideOutcome(award, waitlist, reject) ==
    IF reject >= waitlist /\ reject >= award THEN "Rejected"
    ELSE IF waitlist >= award THEN "Waitlisted" ELSE "Awarded"

Outcome(votes) ==
    DecideOutcome(Tally(votes, "Award"), Tally(votes, "Waitlist"), Tally(votes, "Reject"))

\* Fault: only what is reserved counts against the budget.
FaultBudgetCovers(c, amount) == c.reserved_amount + amount <= c.total_budget
BudgetCovers(c, amount) == c.reserved_amount + c.awarded_amount + amount <= c.total_budget

ReserveBudget(k) ==
    LET c == configs[k[1]] IN
    /\ BudgetCovers(c, c.per_award_amount)
    /\ configs' = [configs EXCEPT ![k[1]].reserved_amount = @ + c.per_award_amount]
    /\ reservations' = Set(reservations, k,
           [amount |-> c.per_award_amount, expires_at |-> now + c.reservation_ttl,
            status |-> "Reserved"])

OpenDecision(chair, p, a, evidence_version) ==
    /\ IsChair(chair)
    /\ ProgramActive(p)
    /\ evidence_version # 0
    /\ ~Has(decisions, <<p, a>>)
    /\ decisions' = Set(decisions, <<p, a>>,
           [status |-> "Open", outcome |-> "Pending", outcome_version |-> 0,
            finalized_at |-> 0, votes |-> Empty])
    /\ UNCHANGED <<committee, configs, reservations, appeals>>

\* vote, and recuse, which votes "Recuse"
Vote(m, k, choice) ==
    /\ IsActiveMember(m)
    /\ Has(decisions, k)
    /\ decisions[k].status = "Open"
    /\ ~HasVoted(decisions[k].votes, m)
    /\ decisions' = [decisions EXCEPT ![k].votes = Set(@, m, choice)]
    /\ UNCHANGED <<committee, configs, reservations, appeals>>

FinalizeDecision(caller, k) ==
    /\ RequireChairOrAdmin(caller)
    /\ Has(decisions, k)
    /\ decisions[k].status = "Open"
    /\ QuorumMet(decisions[k].votes)
    /\ LET outcome == Outcome(decisions[k].votes) IN
       /\ IF outcome = "Awarded" THEN ReserveBudget(k)
                                 ELSE UNCHANGED <<configs, reservations>>
       /\ decisions' = [decisions EXCEPT
              ![k].outcome = outcome, ![k].status = "Finalized",
              ![k].finalized_at = now, ![k].outcome_version = 1]
    /\ UNCHANGED <<committee, appeals>>

-----------------------------------------------------------------------------
(* Reservations *)

IsHeld(k) == Has(reservations, k) /\ reservations[k].status = "Reserved"

AcceptAward(a, p) ==
    LET k == <<p, a>>
        r == reservations[k]
        c == configs[p]
    IN  /\ IsHeld(k)
        /\ now <= r.expires_at
        /\ configs' = [configs EXCEPT ![p] =
               [c EXCEPT !.reserved_amount = @ - r.amount, !.awarded_amount = @ + r.amount]]
        /\ reservations' = [reservations EXCEPT ![k].status = "Claimed"]
        /\ UNCHANGED <<committee, decisions, appeals>>

\* release_capacity and the new status of the reservation
ReleaseCapacity(k, status) ==
    /\ configs' = [configs EXCEPT ![k[1]].reserved_amount = @ - reservations[k].amount]
    /\ reservations' = [reservations EXCEPT ![k].status = status]
    /\ UNCHANGED <<committee, decisions, appeals>>

ReleaseReservation(caller, k) ==
    /\ RequireChairOrAdmin(caller)
    /\ IsHeld(k)
    /\ ReleaseCapacity(k, "Released")

\* Anyone may expire a lapsed reservation.
ExpireReservation(k) ==
    /\ IsHeld(k)
    /\ now > reservations[k].expires_at
    /\ ReleaseCapacity(k, "Expired")

-----------------------------------------------------------------------------
(* Appeals *)

\* Fault: a resolved appeal makes room for another one.
FaultNeverAppealed(k) == Has(appeals, k) => appeals[k].status = "Resolved"
NeverAppealed(k) == ~Has(appeals, k)

FileAppeal(a, p) ==
    LET k == <<p, a>> IN
    /\ ProgramActive(p)
    /\ Has(decisions, k)
    /\ decisions[k].status = "Finalized"
    /\ decisions[k].outcome \in {"Rejected", "Waitlisted"}
    /\ NeverAppealed(k)
    /\ now <= decisions[k].finalized_at + configs[p].appeal_window
    /\ appeals' = Set(appeals, k,
           [original_outcome |-> decisions[k].outcome, status |-> "Open",
            outcome |-> "Pending", votes |-> Empty])
    /\ UNCHANGED <<committee, configs, decisions, reservations>>

AppealOpen(k) == Has(appeals, k) /\ appeals[k].status = "Open"

VoteAppeal(m, k, choice) ==
    /\ IsActiveMember(m)
    /\ AppealOpen(k)
    /\ ~HasVoted(decisions[k].votes, m)
    /\ ~HasVoted(appeals[k].votes, m)
    /\ appeals' = [appeals EXCEPT ![k].votes = Set(@, m, choice)]
    /\ UNCHANGED <<committee, configs, decisions, reservations>>

FinalizeAppeal(caller, k) ==
    /\ RequireChairOrAdmin(caller)
    /\ AppealOpen(k)
    /\ QuorumMet(appeals[k].votes)
    /\ LET outcome == Outcome(appeals[k].votes) IN
       /\ IF outcome = "Awarded" /\ ~Has(reservations, k)
          THEN ReserveBudget(k)
          ELSE UNCHANGED <<configs, reservations>>
       /\ decisions' = [decisions EXCEPT ![k].outcome = outcome, ![k].outcome_version = @ + 1]
       /\ appeals' = [appeals EXCEPT ![k].status = "Resolved", ![k].outcome = outcome]
    /\ UNCHANGED committee

Next ==
    \E caller \in Members \cup {Admin} :
        \/ \E mr \in Appointments : AddMember(caller, mr[1], mr[2])
        \/ \E m \in Members : RemoveMember(caller, m)
        \/ \E q \in Quorums : SetQuorum(caller, q)
        \/ \E p \in DecisionPrograms :
               \/ \E total, per_award \in Budgets, ttl, window \in Periods :
                      RegisterProgram(caller, p, total, per_award, ttl, window)
               \/ \E value \in BOOLEAN : SetProgramActive(caller, p, value)
               \/ \E a \in Applicants :
                      \/ \E v \in EvidenceVersions : OpenDecision(caller, p, a, v)
                      \/ \E b \in Ballots : Vote(b[1], <<p, a>>, b[2])
                      \/ FinalizeDecision(caller, <<p, a>>)
                      \/ AcceptAward(a, p)
                      \/ ReleaseReservation(caller, <<p, a>>)
                      \/ ExpireReservation(<<p, a>>)
                      \/ FileAppeal(a, p)
                      \/ \E b \in Ballots : VoteAppeal(b[1], <<p, a>>, b[2])
                      \/ FinalizeAppeal(caller, <<p, a>>)

AdvanceTime == now < MaxTime /\ now' = now + 1 /\ UNCHANGED decisionVars

Spec == now = 0 /\ Init /\ [][(Next /\ UNCHANGED now) \/ AdvanceTime]_<<now, decisionVars>>

-----------------------------------------------------------------------------
(* Properties *)

Keys == DecisionPrograms \X Applicants

\* Every stored value stays in its type: every active member has a role, the quorum can
\* be met by some committee, no reservation or appeal without a decision.
TypeOK ==
    /\ now \in Nat
    /\ DOMAIN role \subseteq Members
    /\ \A m \in DOMAIN role : role[m] \in CommitteeRole
    /\ active \subseteq DOMAIN role
    /\ quorum \in 0..MAX_MEMBERS
    /\ DOMAIN configs \subseteq DecisionPrograms
    /\ \A p \in DOMAIN configs : configs[p] \in DecisionProgramConfig
    /\ DOMAIN decisions \subseteq Keys
    /\ \A k \in DOMAIN decisions : decisions[k] \in Decision /\ Has(configs, k[1])
    /\ DOMAIN reservations \subseteq DOMAIN decisions
    /\ \A k \in DOMAIN reservations : reservations[k] \in Reservation
    /\ DOMAIN appeals \subseteq DOMAIN decisions
    /\ \A k \in DOMAIN appeals : appeals[k] \in Appeal

\* The reservations of a program in a given status, which all hold per_award_amount.
AmountIn(p, status) ==
    configs[p].per_award_amount
        * Cardinality({k \in DOMAIN reservations :
                          k[1] = p /\ reservations[k].status = status})

\* The two budget counters of a program are exactly the reservations held and the
\* awards claimed, and together they never exceed the total, whichever decisions
\* and appeals reserve, and however reservations are claimed, released or lapse
\* (reserve_budget: "Fails rather than over-committing", release "exactly once").
DecisionBudgetExact ==
    /\ \A k \in DOMAIN reservations : reservations[k].amount = configs[k[1]].per_award_amount
    /\ \A p \in DOMAIN configs :
         /\ configs[p].reserved_amount = AmountIn(p, "Reserved")
         /\ configs[p].awarded_amount = AmountIn(p, "Claimed")
         /\ configs[p].reserved_amount + configs[p].awarded_amount <= configs[p].total_budget

\* How conservative an outcome is, and which votes support it.
Rank(outcome) == CASE outcome = "Rejected" -> 3 [] outcome = "Waitlisted" -> 2
                   [] outcome = "Awarded" -> 1
Support(votes, outcome) ==
    Tally(votes, CASE outcome = "Rejected" -> "Reject" [] outcome = "Waitlisted" -> "Waitlist"
                   [] outcome = "Awarded" -> "Award")

\* The documented tie policy: no outcome has more votes, and none that is more
\* conservative has as many.
Wins(votes, outcome) ==
    /\ outcome # "Pending"
    /\ \A other \in DecisionOutcome \ {"Pending"} :
         \/ Support(votes, other) < Support(votes, outcome)
         \/ Support(votes, other) = Support(votes, outcome) /\ Rank(other) <= Rank(outcome)

\* The recorded outcome of an application can always be traced to the votes that
\* produced it: those of its decision, or those of its one resolved appeal, cast by
\* members none of whom took part in the decision; outcome_version says which.  An
\* application has budget behind it exactly when its outcome is an award
\* (finalize_decision, finalize_appeal).
OutcomeTraceable ==
    \A k \in DOMAIN decisions :
        LET d         == decisions[k]
            overruled == Has(appeals, k) /\ appeals[k].status = "Resolved"
        IN  /\ d.status = "Open" => d.outcome = "Pending" /\ ~Has(appeals, k)
            /\ d.status = "Finalized" =>
                 /\ Wins(IF overruled THEN appeals[k].votes ELSE d.votes, d.outcome)
                 /\ d.outcome_version = IF overruled THEN 2 ELSE 1
            /\ Has(appeals, k) => /\ DOMAIN appeals[k].votes \cap DOMAIN d.votes = {}
                                  /\ Wins(d.votes, appeals[k].original_outcome)
            /\ Has(reservations, k) <=> d.outcome = "Awarded"

\* One step, seen from what is settled.
FinalStep ==
    /\ \A k \in DOMAIN decisions : decisions[k].status = "Finalized" =>
         /\ decisions'[k].votes = decisions[k].votes
         /\ decisions'[k].finalized_at = decisions[k].finalized_at
         /\ decisions'[k].outcome # decisions[k].outcome =>
              AppealOpen(k) /\ appeals'[k].status = "Resolved"
    /\ \A k \in DOMAIN appeals : appeals[k].status = "Resolved" => appeals'[k] = appeals[k]
    /\ \A k \in DOMAIN reservations :
         LET r == reservations[k]
             s == reservations'[k].status
         IN  /\ r.status # "Reserved" => reservations'[k] = r
             /\ r.status # s => (s = "Claimed" => now <= r.expires_at)
                                /\ (s = "Expired" => now > r.expires_at)

\* What is settled stays settled: votes close with the decision, an outcome only
\* changes by resolving its appeal, a resolved appeal is the last word, and a
\* reservation that was claimed, released or expired never changes again -- it is
\* claimed in time or expires after its time.
DecisionsFinal == [][FinalStep]_decisionVars

\* docs/scholarship-decisions.md says "a removed member stops counting toward
\* quorum": a decision is finalized with a quorum of votes of active members.
RemovedMembersDoNotCount ==
    [][\A k \in DOMAIN decisions :
        decisions[k].status = "Open" /\ decisions'[k].status = "Finalized" =>
            Cardinality({m \in DOMAIN decisions[k].votes :
                m \in active /\ decisions[k].votes[m] # "Recuse"}) >= quorum]_decisionVars
=============================================================================

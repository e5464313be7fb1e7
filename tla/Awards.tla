------------------------------- MODULE Awards -------------------------------
(***************************************************************************)
(* contracts/scholarship-awards: an award is offered to a recipient, who   *)
(* accepts or declines it, or lets it lapse; an accepted award is paid in  *)
(* parts, and the admin cancels it before the first payment or terminates  *)
(* it after.  Beside the award records the contract keeps a pointer to the *)
(* recipient's live award in a program and a counter of the program's      *)
(* reserved places, both updated by hand in every operation.               *)
(*                                                                         *)
(* The model starts after initialize.  Callers name the version of the     *)
(* award they decided upon; a call with another version is refused.        *)
(***************************************************************************)
EXTENDS Integers, FiniteSets, Storage

CONSTANTS
    Admin,         \* the address stored by initialize
    Recipients, Programs, AwardIds,
    AwardAmounts,  \* amounts the admin passes (i128)
    Deadlines,     \* acceptance deadlines the admin passes (u64)
    MaxTime        \* bound: ledger timestamp

VARIABLES
    now,         \* env.ledger().timestamp()
    awards,      \* DataKey::Award: id -> award
    activeAward, \* DataKey::ActiveAward: <<recipient, program>> -> award id
    acceptance,  \* DataKey::Acceptance: the ids with an acceptance record
    recovery,    \* DataKey::Recovery: id -> amount to recover
    reservation  \* DataKey::Reservation: program -> reserved places

awardVars == <<awards, activeAward, acceptance, recovery, reservation>>

AwardStatus == {"Offered", "Accepted", "Declined", "Expired", "Cancelled", "Terminated"}

Award ==
    [version : Nat, program_id : Programs, recipient : Recipients, amount : Nat,
     acceptance_deadline : Nat, status : AwardStatus, reserved : BOOLEAN,
     paid_amount : Nat]

RequireAdmin(caller) == caller = Admin

IsLegalTransition(from, to) ==
    <<from, to>> \in {<<"Offered", "Accepted">>, <<"Offered", "Declined">>,
                      <<"Offered", "Expired">>, <<"Offered", "Cancelled">>,
                      <<"Accepted", "Cancelled">>, <<"Accepted", "Terminated">>}

Init ==
    /\ awards = Empty
    /\ activeAward = Empty
    /\ acceptance = {}
    /\ recovery = Empty
    /\ reservation = [p \in Programs |-> 0]

CreateAward(caller, id, p, r, amount, deadline) ==
    /\ RequireAdmin(caller)
    /\ amount > 0
    /\ deadline > now
    /\ ~Has(awards, id)
    /\ ~Has(activeAward, <<r, p>>)
    /\ awards' = Set(awards, id,
           [version |-> 1, program_id |-> p, recipient |-> r, amount |-> amount,
            acceptance_deadline |-> deadline, status |-> "Offered",
            reserved |-> TRUE, paid_amount |-> 0])
    /\ activeAward' = Set(activeAward, <<r, p>>, id)
    /\ reservation' = [reservation EXCEPT ![p] = @ + 1]
    /\ UNCHANGED <<acceptance, recovery>>

\* advance_award_version: the caller's version is the stored one, which moves on.
VersionMatches(id, expected) == Has(awards, id) /\ awards[id].version = expected

AcceptanceOpen(a) == now <= a.acceptance_deadline

AcceptAward(caller, id, expected) ==
    /\ VersionMatches(id, expected)
    /\ caller = awards[id].recipient
    /\ awards[id].status = "Offered"
    /\ AcceptanceOpen(awards[id])
    /\ IsLegalTransition(awards[id].status, "Accepted")
    /\ acceptance' = acceptance \cup {id}
    /\ awards' = [awards EXCEPT ![id].version = @ + 1, ![id].status = "Accepted"]
    /\ UNCHANGED <<activeAward, recovery, reservation>>

\* Fault: the pointer to the recipient's live award is left behind.
FaultClearActiveAward(a) == UNCHANGED activeAward
ClearActiveAward(a) == activeAward' = Remove(activeAward, {<<a.recipient, a.program_id>>})

\* The tail common to decline, expire, cancel and terminate.
Close(id, status) ==
    LET a == awards[id] IN
    /\ awards' = [awards EXCEPT ![id].version = @ + 1, ![id].status = status,
                                ![id].reserved = FALSE]
    /\ reservation[a.program_id] > 0
    /\ reservation' = [reservation EXCEPT ![a.program_id] = @ - 1]
    /\ ClearActiveAward(a)

DeclineAward(caller, id, expected) ==
    /\ VersionMatches(id, expected)
    /\ caller = awards[id].recipient
    /\ IsLegalTransition(awards[id].status, "Declined")
    /\ Close(id, "Declined")
    /\ UNCHANGED <<acceptance, recovery>>

\* Anyone may expire a lapsed offer.
ExpireAward(id, expected) ==
    /\ VersionMatches(id, expected)
    /\ awards[id].status = "Offered"
    /\ now > awards[id].acceptance_deadline
    /\ Close(id, "Expired")
    /\ UNCHANGED <<acceptance, recovery>>

\* Fault: a payment already made does not stop the cancellation.
FaultCancellable(a) == IsLegalTransition(a.status, "Cancelled")
Cancellable(a) == a.paid_amount = 0 /\ IsLegalTransition(a.status, "Cancelled")

CancelAward(caller, id, expected) ==
    /\ RequireAdmin(caller)
    /\ VersionMatches(id, expected)
    /\ Cancellable(awards[id])
    /\ Close(id, "Cancelled")
    /\ UNCHANGED <<acceptance, recovery>>

TerminateAward(caller, id, expected, amount) ==
    /\ RequireAdmin(caller)
    /\ VersionMatches(id, expected)
    /\ awards[id].paid_amount # 0
    /\ amount \in 0..awards[id].paid_amount
    /\ IsLegalTransition(awards[id].status, "Terminated")
    /\ Close(id, "Terminated")
    /\ recovery' = Set(recovery, id, amount)
    /\ UNCHANGED acceptance

RecordDisbursement(caller, id, expected, amount) ==
    /\ RequireAdmin(caller)
    /\ amount > 0
    /\ VersionMatches(id, expected)
    /\ awards[id].status = "Accepted"
    /\ awards[id].paid_amount + amount <= awards[id].amount
    /\ awards' = [awards EXCEPT ![id].version = @ + 1, ![id].paid_amount = @ + amount]
    /\ UNCHANGED <<activeAward, acceptance, recovery, reservation>>

Next ==
    \E caller \in Recipients \cup {Admin} :
        \/ \E id \in AwardIds, p \in Programs, r \in Recipients,
              amount \in AwardAmounts, deadline \in Deadlines :
               CreateAward(caller, id, p, r, amount, deadline)
        \/ \E id \in DOMAIN awards : \E expected \in 1..(awards[id].version + 1) :
               \/ AcceptAward(caller, id, expected)
               \/ DeclineAward(caller, id, expected)
               \/ ExpireAward(id, expected)
               \/ CancelAward(caller, id, expected)
               \/ \E amount \in AwardAmounts :
                      \/ TerminateAward(caller, id, expected, amount)
                      \/ RecordDisbursement(caller, id, expected, amount)

AdvanceTime == now < MaxTime /\ now' = now + 1 /\ UNCHANGED awardVars

Spec == now = 0 /\ Init /\ [][(Next /\ UNCHANGED now) \/ AdvanceTime]_<<now, awardVars>>

-----------------------------------------------------------------------------
(* Properties *)

\* Every stored value stays in its type: pointers, acceptances and recoveries refer to
\* awards that exist, and no counter goes negative.
TypeOK ==
    /\ now \in Nat
    /\ DOMAIN awards \subseteq AwardIds
    /\ \A id \in DOMAIN awards : awards[id] \in Award
    /\ DOMAIN activeAward \subseteq Recipients \X Programs
    /\ \A k \in DOMAIN activeAward : activeAward[k] \in DOMAIN awards
    /\ acceptance \subseteq DOMAIN awards
    /\ DOMAIN recovery \subseteq DOMAIN awards
    /\ \A id \in DOMAIN recovery : recovery[id] \in Nat
    /\ reservation \in [Programs -> Nat]

Live(a) == a.status \in {"Offered", "Accepted"}

\* A program's reservation counter is the number of its live awards, an award is
\* flagged reserved exactly while it is live, and the ActiveAward pointer names
\* the one live award of a recipient in a program (create_award refuses a second):
\* however offers are accepted, declined, lapse, are cancelled or terminated, no
\* place leaks and no recipient is locked out of a later award.
ReservationsExact ==
    /\ \A p \in Programs : reservation[p] =
          Cardinality({id \in DOMAIN awards : awards[id].program_id = p /\ Live(awards[id])})
    /\ \A id \in DOMAIN awards : awards[id].reserved = Live(awards[id])
    /\ \A id \in DOMAIN awards : Live(awards[id]) <=>
          LET k == <<awards[id].recipient, awards[id].program_id>>
          IN  Has(activeAward, k) /\ activeAward[k] = id

\* Money only ever follows a signed agreement: an award with a payment was
\* accepted, has not been paid more than its amount, and never ends cancelled,
\* declined or expired; what may be recovered never exceeds what was paid, and
\* only a terminated award has anything to recover.
PaidUnderAgreement ==
    \A id \in DOMAIN awards :
        LET a == awards[id] IN
        /\ a.paid_amount <= a.amount
        /\ a.paid_amount > 0 => id \in acceptance /\ a.status \in {"Accepted", "Terminated"}
        /\ a.status \in {"Accepted", "Terminated"} => id \in acceptance
        /\ a.status \in {"Declined", "Expired"} => id \notin acceptance
        /\ id \in DOMAIN recovery <=> a.status = "Terminated"
        /\ id \in DOMAIN recovery => recovery[id] <= a.paid_amount
=============================================================================

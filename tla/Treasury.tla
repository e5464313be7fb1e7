------------------------------ MODULE Treasury ------------------------------
(***************************************************************************)
(* The three small contracts that hold or owe tokens: escrow-vault (a      *)
(* deposit released by a threshold of approvers), royalty-splits (revenue  *)
(* credited by basis points and withdrawn) and payment (course payments,   *)
(* refunds and instructors' earnings).  The model starts after initialize  *)
(* and each contract uses one token.  Ids derived from a counter are the   *)
(* counter; events and TTLs are left out.  A token transfer out fails when *)
(* the contract holds less than the amount.                                *)
(***************************************************************************)
EXTENDS Integers, Sequences, FiniteSets, Functions, Storage

CONSTANTS
    Depositors, Approvers,
    TransferAmounts,
    MaxVaults,                   \* bound on the vaults of a behaviour
    Manifests,                   \* manifest id -> the recipients and shares sent for it
    Assets, TOTAL_BPS, MAX_RECIPIENTS,
    MaxDistributed,              \* bound on the amount distributed per asset
    Students, Courses, Instructors,
    FeePercents, InitialFee, MaxFee,
    RefundWindow,
    MaxPayments                  \* bound on the payments of a behaviour

VARIABLES
    now,
    vaults,      \* escrow-vault DataKey::Vault: id -> vault
    voted,       \* escrow-vault VotedKey::Voted: the <<vault, approver>> pairs present
    vaultTokens, \* tokens held by escrow-vault
    manifests,   \* royalty-splits DataKey::Manifest: the ids that are stored
    shareOf,     \* royalty-splits DataKey::Balance: <<recipient, asset>> -> amount
    assetLedger, \* royalty-splits DataKey::AssetLedger: asset -> totals
    feePercent,  \* payment DataKey::FeePercent
    enrolledIn,  \* payment DataKey::Enrollment
    payments,    \* payment DataKey::PaymentRecord: <<student, course>> -> record
    earnings,    \* payment DataKey::InstructorBalance
    courseTokens,\* tokens held by payment
    accrued      \* history: fees kept and instructor shares of refunded payments

vaultVars == <<vaults, voted, vaultTokens>>
royaltyVars == <<manifests, shareOf, assetLedger>>
paymentVars == <<feePercent, enrolledIn, payments, earnings, courseTokens, accrued>>
treasuryVars == <<vaultVars, royaltyVars, paymentVars>>

Vault == [depositor : Depositors, recipient : Depositors, amount : TransferAmounts \ {0},
          approvers : SUBSET Approvers, approvals : Nat, threshold : Nat \ {0},
          status : {"Pending", "Released", "Cancelled"}]
AssetTotals == [distributed : Nat, withdrawn : Nat]
\* share is history: the part of the amount that was credited to the instructor.
PaymentRecord == [amount : TransferAmounts \ {0}, paid_at : Nat, share : Nat]

Init ==
    /\ vaults = <<>> /\ voted = {} /\ vaultTokens = 0
    /\ manifests = {} /\ shareOf = Empty /\ assetLedger = Empty
    /\ feePercent = InitialFee /\ enrolledIn = {} /\ payments = Empty
    /\ earnings = Empty /\ courseTokens = 0
    /\ accrued = [payments |-> 0, fees |-> 0, refundedShares |-> 0]

-----------------------------------------------------------------------------
(* escrow-vault *)

CreateVault(depositor, recipient, amount, approvers, threshold) ==
    /\ Len(vaults) < MaxVaults
    /\ approvers # {}
    /\ {depositor, recipient} \cap approvers = {}
    /\ amount > 0
    /\ threshold \in 1..Cardinality(approvers)
    /\ vaults' = Append(vaults,
           [depositor |-> depositor, recipient |-> recipient, amount |-> amount,
            approvers |-> approvers, approvals |-> 0, threshold |-> threshold,
            status |-> "Pending"])
    /\ vaultTokens' = vaultTokens + amount
    /\ UNCHANGED <<voted, royaltyVars, paymentVars>>

Pending(id) == vaults[id].status = "Pending"

\* The approval that reaches the threshold pays the recipient in the same call.
ApproveVault(id, caller) ==
    LET approvals == vaults[id].approvals + 1
        release == approvals >= vaults[id].threshold
    IN /\ Pending(id)
       /\ caller \in vaults[id].approvers
       /\ <<id, caller>> \notin voted
       /\ voted' = voted \cup {<<id, caller>>}
       /\ vaults' = [vaults EXCEPT ![id].approvals = approvals,
                                   ![id].status = IF release THEN "Released" ELSE @]
       /\ vaultTokens' = IF release THEN vaultTokens - vaults[id].amount ELSE vaultTokens
       /\ UNCHANGED <<royaltyVars, paymentVars>>

\* Fault: the vote stays recorded when the approval is taken back.
FaultDropVote(id, caller) == voted' = voted
DropVote(id, caller) == voted' = voted \ {<<id, caller>>}

RevokeApproval(id, caller) ==
    /\ Pending(id)
    /\ <<id, caller>> \in voted
    /\ DropVote(id, caller)
    /\ vaults' = [vaults EXCEPT ![id].approvals = IF @ > 0 THEN @ - 1 ELSE 0]
    /\ UNCHANGED <<vaultTokens, royaltyVars, paymentVars>>

EmergencyCancel(id) ==
    /\ Pending(id)
    /\ vaults' = [vaults EXCEPT ![id].status = "Cancelled"]
    /\ vaultTokens' = vaultTokens - vaults[id].amount
    /\ UNCHANGED <<voted, royaltyVars, paymentVars>>

-----------------------------------------------------------------------------
(* royalty-splits *)

ValidManifest(m) ==
    /\ Len(m.recipients) \in 1..MAX_RECIPIENTS
    /\ Len(m.recipients) = Len(m.bps)
    /\ \A i \in DOMAIN m.bps : m.bps[i] > 0
    /\ SumFunction(m.bps) = TOTAL_BPS

CreateManifest(id) ==
    /\ id \notin manifests
    /\ ValidManifest(Manifests[id])
    /\ manifests' = manifests \cup {id}
    /\ UNCHANGED <<shareOf, assetLedger, vaultVars, paymentVars>>

\* Every share is rounded down, and the last recipient takes what is left.
ShareAt(m, i, amount) ==
    LET rounded == [j \in DOMAIN m.bps |-> (amount * m.bps[j]) \div TOTAL_BPS]
        last == Len(m.recipients)
    IN IF i = last THEN amount - SumFunctionOnSet(rounded, 1..(last - 1)) ELSE rounded[i]

\* A recipient listed twice is credited twice.
Credited(m, who, amount) ==
    SumFunctionOnSet([i \in DOMAIN m.recipients |-> ShareAt(m, i, amount)],
                     {i \in DOMAIN m.recipients : m.recipients[i] = who})

Distribute(id, asset, amount) ==
    LET m == Manifests[id]
        paid == {<<m.recipients[i], asset>> : i \in DOMAIN m.recipients}
        totals == Get(assetLedger, asset, [distributed |-> 0, withdrawn |-> 0])
    IN /\ amount > 0
       /\ id \in manifests
       /\ totals.distributed + amount <= MaxDistributed
       /\ shareOf' = [k \in DOMAIN shareOf \cup paid |->
              Get(shareOf, k, 0) + IF k \in paid THEN Credited(m, k[1], amount) ELSE 0]
       /\ assetLedger' = Set(assetLedger, asset,
              [totals EXCEPT !.distributed = @ + amount])
       /\ UNCHANGED <<manifests, vaultVars, paymentVars>>

Withdraw(who, asset) ==
    /\ Get(shareOf, <<who, asset>>, 0) > 0
    /\ shareOf' = Set(shareOf, <<who, asset>>, 0)
    /\ assetLedger' = [assetLedger EXCEPT ![asset].withdrawn = @ + shareOf[<<who, asset>>]]
    /\ UNCHANGED <<manifests, vaultVars, paymentVars>>

-----------------------------------------------------------------------------
(* payment *)

SetFee(new) ==
    /\ new <= MaxFee
    /\ feePercent' = new
    /\ UNCHANGED <<enrolledIn, payments, earnings, courseTokens, accrued, vaultVars, royaltyVars>>

CalculateFee(amount) == (amount * feePercent) \div 10000

\* Fault: the instructor is credited with the whole amount, the fee included.
FaultInstructorAmount(amount) == amount
InstructorAmount(amount) == amount - CalculateFee(amount)

PayForCourse(student, course, instructor, amount) ==
    /\ accrued.payments < MaxPayments
    /\ amount > 0
    /\ <<student, course>> \notin enrolledIn
    /\ courseTokens' = courseTokens + amount
    /\ enrolledIn' = enrolledIn \cup {<<student, course>>}
    /\ payments' = Set(payments, <<student, course>>,
           [amount |-> amount, paid_at |-> now, share |-> InstructorAmount(amount)])
    /\ earnings' = Set(earnings, instructor, Get(earnings, instructor, 0) + InstructorAmount(amount))
    /\ accrued' = [accrued EXCEPT !.payments = @ + 1, !.fees = @ + CalculateFee(amount)]
    /\ UNCHANGED <<feePercent, vaultVars, royaltyVars>>

\* The whole amount goes back; the instructor's earnings are not touched.
Refund(student, course) ==
    LET paid == payments[<<student, course>>]
    IN /\ <<student, course>> \in enrolledIn
       /\ now <= paid.paid_at + RefundWindow
       /\ courseTokens >= paid.amount
       /\ enrolledIn' = enrolledIn \ {<<student, course>>}
       /\ courseTokens' = courseTokens - paid.amount
       /\ accrued' = [accrued EXCEPT !.refundedShares = @ + paid.share,
                                     !.fees = @ - (paid.amount - paid.share)]
       /\ UNCHANGED <<feePercent, payments, earnings, vaultVars, royaltyVars>>

WithdrawEarnings(instructor) ==
    /\ Get(earnings, instructor, 0) > 0
    /\ courseTokens >= earnings[instructor]
    /\ earnings' = Set(earnings, instructor, 0)
    /\ courseTokens' = courseTokens - earnings[instructor]
    /\ UNCHANGED <<feePercent, enrolledIn, payments, accrued, vaultVars, royaltyVars>>

-----------------------------------------------------------------------------
VaultNext ==
    /\ \/ \E d \in Depositors, r \in Depositors, n \in TransferAmounts,
              who \in SUBSET Approvers, t \in 0..Cardinality(Approvers) :
              CreateVault(d, r, n, who, t)
       \/ \E id \in DOMAIN vaults :
              \/ \E caller \in Approvers : ApproveVault(id, caller) \/ RevokeApproval(id, caller)
              \/ EmergencyCancel(id)
    /\ UNCHANGED now

RoyaltyNext ==
    /\ \/ \E id \in DOMAIN Manifests : CreateManifest(id)
       \/ \E id \in DOMAIN Manifests, asset \in Assets, n \in TransferAmounts :
              Distribute(id, asset, n)
       \/ \E k \in DOMAIN shareOf : Withdraw(k[1], k[2])
    /\ UNCHANGED now

PaymentNext ==
    /\ \/ \E f \in FeePercents : SetFee(f)
       \/ \E s \in Students, c \in Courses, i \in Instructors, n \in TransferAmounts :
              PayForCourse(s, c, i, n)
       \/ \E s \in Students, c \in Courses : Refund(s, c)
       \/ \E i \in Instructors : WithdrawEarnings(i)
    /\ UNCHANGED now

-----------------------------------------------------------------------------
\* Every stored value has the shape of its Rust type.
TypeOK ==
    /\ vaults \in Seq(Vault)
    /\ vaultTokens \in Nat /\ courseTokens \in Nat
    /\ manifests \subseteq DOMAIN Manifests
    /\ shareOf \in [DOMAIN shareOf -> Nat]
    /\ assetLedger \in [DOMAIN assetLedger -> AssetTotals]
    /\ payments \in [DOMAIN payments -> PaymentRecord]
    /\ earnings \in [DOMAIN earnings -> Nat]

\* escrow-vault holds exactly the pending deposits, and a released vault was approved by a
\* threshold of different approvers, none of them a party: a vote taken back and given
\* again never counts twice.
VaultsBacked ==
    /\ vaultTokens = SumFunctionOnSet([id \in DOMAIN vaults |-> vaults[id].amount],
                                      {id \in DOMAIN vaults : Pending(id)})
    /\ \A id \in DOMAIN vaults :
           LET votes == {v \in voted : v[1] = id}
           IN /\ vaults[id].approvals = Cardinality(votes)
              /\ vaults[id].status = "Released" => Cardinality(votes) >= vaults[id].threshold

\* What royalty-splits owes per asset is what was distributed and not yet withdrawn:
\* rounding neither creates nor loses a unit, and no share is negative.
RoyaltiesAddUp ==
    \A asset \in DOMAIN assetLedger :
        SumFunctionOnSet(shareOf, {k \in DOMAIN shareOf : k[2] = asset}) =
            assetLedger[asset].distributed - assetLedger[asset].withdrawn

\* payment's tokens cover the instructors' earnings and the fees kept, short of exactly the
\* instructor shares of refunded payments, which refund leaves credited.
EarningsCovered ==
    courseTokens + accrued.refundedShares = SumFunction(earnings) + accrued.fees
=============================================================================

-------------------------- MODULE LibraryAccounts --------------------------
(***************************************************************************)
(* What patrons owe the library.  contracts/library-fines is two           *)
(* contracts: fines assessed under the institution's signature and capped  *)
(* by a policy (the first half of lib.rs), and a ledger of assessments,    *)
(* waivers and payments with settlements (the second half).                *)
(* contracts/library-deposits holds tokens against a loan, and             *)
(* contracts/library-physical records loss and damage.                     *)
(*                                                                         *)
(* A signature is a pair of a key and a payload; only what the             *)
(* institution signs under its current key verifies.                       *)
(***************************************************************************)
EXTENDS Integers, Sequences, FiniteSets, Functions, Storage

CONSTANTS
    Admin, Librarians, Patrons, Loans,
    FineAmounts, Policies, LoanStarts, FineExpiries, FineNonces,
    Refs, Settlements, Assets,
    MaxFines, MaxEntries, MaxDeposits, MaxAttestations, MaxCorrections

VARIABLES
    now,
    finePolicy, \* DataKey::Policy: the policy's caps, or none
    fines,      \* DataKey::Fine: id -> fine
    fineNonces, \* DataKey::NonceUsed
    loanDebt,   \* DataKey::LoanDebt
    assets,     \* DK::SupportedAsset
    balances,   \* DK::Balance: patron -> what it owes
    entries,    \* DK::Entry: patron -> its ledger entries in order
    refs,       \* DK::RefExists
    settled,    \* DK::Settlement: id -> settlement
    deposits,   \* DataKey::Deposit of library-deposits
    vault,      \* the tokens library-deposits holds
    librarians, \* DataKey::Librarian of library-physical
    damages     \* DataKey::Attestation and AttestationHistory of library-physical

fineVars == <<finePolicy, fines, fineNonces, loanDebt>>
ledgerVars == <<assets, balances, entries, refs, settled>>
holdVars == <<deposits, vault, librarians, damages>>
accountVars == <<fineVars, ledgerVars, holdVars>>

NoPolicy == [each |-> 0, total |-> 0, grace |-> 0]

Init ==
    /\ finePolicy = NoPolicy /\ fines = Empty /\ fineNonces = {} /\ loanDebt = Empty
    /\ assets = {} /\ balances = [p \in Patrons |-> 0] /\ entries = [p \in Patrons |-> <<>>]
    /\ refs = {} /\ settled = Empty
    /\ deposits = Empty /\ vault = 0 /\ librarians = {} /\ damages = Empty

NextKey(store) == Cardinality(DOMAIN store) + 1

-----------------------------------------------------------------------------
(* Signed fines *)

SetPolicy(policy) ==
    /\ policy.each > 0 /\ policy.total > 0
    /\ finePolicy' = policy
    /\ UNCHANGED <<fines, fineNonces, loanDebt, ledgerVars, holdVars>>

DebtOf(loan) == Get(loanDebt, loan, 0)

\* Fault: the cap on one fine is the only cap.
FaultWithinCaps(loan, amount) == amount <= finePolicy.each
WithinCaps(loan, amount) ==
    /\ amount <= finePolicy.each
    /\ DebtOf(loan) + amount <= finePolicy.total

\* Anyone may present what the institution signed, once and before it expires.
AssessFine(loan, amount, start, nonce, expiry) ==
    /\ NextKey(fines) <= MaxFines
    /\ amount > 0
    /\ now < expiry
    /\ nonce \notin fineNonces
    /\ finePolicy # NoPolicy
    /\ now >= start + finePolicy.grace
    /\ WithinCaps(loan, amount)
    /\ fineNonces' = fineNonces \cup {nonce}
    /\ fines' = Set(fines, NextKey(fines), [loan |-> loan, amount |-> amount, waived |-> FALSE])
    /\ loanDebt' = Set(loanDebt, loan, DebtOf(loan) + amount)
    /\ UNCHANGED <<finePolicy, ledgerVars, holdVars>>

WaiveFine(id, amount) ==
    LET f == fines[id] IN
    /\ amount > 0
    /\ amount <= f.amount
    /\ fines' = [fines EXCEPT ![id] = [f EXCEPT !.amount = @ - amount,
                                                !.waived = @ \/ f.amount = amount]]
    /\ loanDebt' = Set(loanDebt, f.loan, DebtOf(f.loan) - amount)
    /\ UNCHANGED <<finePolicy, fineNonces, ledgerVars, holdVars>>

-----------------------------------------------------------------------------
(* The fine ledger *)

AddSupportedAsset(asset) ==
    /\ assets' = assets \cup {asset}
    /\ UNCHANGED <<fineVars, balances, entries, refs, settled, holdVars>>

\* Fault: the reference is not remembered.
FaultAppendEntry(patron, ref, kind, delta) ==
    /\ Len(entries[patron]) < MaxEntries
    /\ entries' = [entries EXCEPT ![patron] = Append(@, [ref |-> ref, kind |-> kind, delta |-> delta])]
    /\ refs' = refs
    /\ balances' = [balances EXCEPT ![patron] = @ + delta]
AppendEntry(patron, ref, kind, delta) ==
    /\ Len(entries[patron]) < MaxEntries
    /\ entries' = [entries EXCEPT ![patron] = Append(@, [ref |-> ref, kind |-> kind, delta |-> delta])]
    /\ refs' = refs \cup {ref}
    /\ balances' = [balances EXCEPT ![patron] = @ + delta]

Assess(patron, ref, amount) ==
    /\ amount > 0
    /\ ref \notin refs
    /\ AppendEntry(patron, ref, "Assessment", amount)
    /\ UNCHANGED <<fineVars, assets, settled, holdVars>>

Waive(patron, ref, amount) ==
    /\ amount > 0
    /\ ref \notin refs
    /\ amount <= balances[patron]
    /\ AppendEntry(patron, ref, "Waiver", -amount)
    /\ UNCHANGED <<fineVars, assets, settled, holdVars>>

\* Anyone starts a payment for a patron, of any amount.
InitiatePayment(patron, id, asset, amount) ==
    /\ amount > 0
    /\ asset \in assets
    /\ ~Has(settled, id)
    /\ settled' = Set(settled, id, [patron |-> patron, amount |-> amount, state |-> "Pending"])
    /\ UNCHANGED <<fineVars, assets, balances, entries, refs, holdVars>>

In(id, state) == Has(settled, id) /\ settled[id].state = state

\* Fault: the payment is compared with the debt of the day it was started, not of today.
FaultCovers(id) == TRUE
Covers(id) == settled[id].amount <= balances[settled[id].patron]

ConfirmPayment(id, ref) ==
    /\ In(id, "Pending")
    /\ ref \notin refs
    /\ Covers(id)
    /\ AppendEntry(settled[id].patron, ref, "Payment", -settled[id].amount)
    /\ settled' = [settled EXCEPT ![id].state = "Confirmed"]
    /\ UNCHANGED <<fineVars, assets, holdVars>>

FailPayment(id) ==
    /\ In(id, "Pending")
    /\ settled' = [settled EXCEPT ![id].state = "Failed"]
    /\ UNCHANGED <<fineVars, assets, balances, entries, refs, holdVars>>

\* refund_payment and reverse_payment.
UndoPayment(id, ref, kind, state) ==
    /\ In(id, "Confirmed")
    /\ ref \notin refs
    /\ AppendEntry(settled[id].patron, ref, kind, settled[id].amount)
    /\ settled' = [settled EXCEPT ![id].state = state]
    /\ UNCHANGED <<fineVars, assets, holdVars>>

RefundPayment(id, ref) == UndoPayment(id, ref, "Refund", "Refunded")
ReversePayment(id, ref) == UndoPayment(id, ref, "Reversal", "Reversed")

-----------------------------------------------------------------------------
(* Deposits and damage *)

LockDeposit(patron, loan, amount) ==
    /\ NextKey(deposits) <= MaxDeposits
    /\ amount > 0
    /\ deposits' = Set(deposits, NextKey(deposits),
           [patron |-> patron, remaining |-> amount, status |-> "Locked"])
    /\ vault' = vault + amount
    /\ UNCHANGED <<fineVars, ledgerVars, librarians, damages>>

Locked(d) == Has(deposits, d) /\ deposits[d].status = "Locked"

\* Take the amount out of the vault and close the deposit with a status.
PayOut(d, amount, status) ==
    /\ Locked(d)
    /\ vault' = vault - amount
    /\ deposits' = [deposits EXCEPT ![d].remaining = @ - amount, ![d].status = status]
    /\ UNCHANGED <<fineVars, ledgerVars, librarians, damages>>

ReleaseDeposit(caller, d) ==
    /\ caller \in {Admin, deposits[d].patron}
    /\ PayOut(d, deposits[d].remaining, "Released")

\* A deposit charged to the last token stays locked.
PartialCharge(d, amount) ==
    /\ amount > 0
    /\ amount <= deposits[d].remaining
    /\ PayOut(d, amount, "Locked")

FullCharge(d) ==
    /\ deposits[d].remaining > 0
    /\ PayOut(d, deposits[d].remaining, "Charged")

SetLibrarian(who, is) ==
    /\ librarians' = IF is THEN librarians \cup {who} ELSE librarians \ {who}
    /\ UNCHANGED <<fineVars, ledgerVars, deposits, vault, damages>>

MayAttest(who) == who = Admin \/ who \in librarians

Attest(who, loan) ==
    /\ MayAttest(who)
    /\ NextKey(damages) <= MaxAttestations
    /\ damages' = Set(damages, NextKey(damages),
           [loan |-> loan, by |-> who, resolved |-> FALSE, charged |-> FALSE, history |-> 1])
    /\ UNCHANGED <<fineVars, ledgerVars, deposits, vault, librarians>>

Resolve(who, a) ==
    /\ MayAttest(who)
    /\ ~damages[a].resolved
    /\ damages' = [damages EXCEPT ![a].resolved = TRUE]
    /\ UNCHANGED <<fineVars, ledgerVars, deposits, vault, librarians>>

\* A correction is taken after the resolution too.
AppendCorrection(who, a) ==
    /\ MayAttest(who)
    /\ damages[a].history < MaxCorrections
    /\ damages' = [damages EXCEPT ![a].history = @ + 1]
    /\ UNCHANGED <<fineVars, ledgerVars, deposits, vault, librarians>>

\* Fault: what is resolved is charged again.
FaultChargeable(a) == TRUE
Chargeable(a) == ~damages[a].resolved /\ ~damages[a].charged

MarkCharged(who, a) ==
    /\ MayAttest(who)
    /\ Chargeable(a)
    /\ damages' = [damages EXCEPT ![a].charged = TRUE]
    /\ UNCHANGED <<fineVars, ledgerVars, deposits, vault, librarians>>

FineNext ==
    \/ \E policy \in Policies : SetPolicy(policy)
    \/ \E loan \in Loans, amount \in FineAmounts, start \in LoanStarts, nonce \in FineNonces,
          expiry \in FineExpiries : AssessFine(loan, amount, start, nonce, expiry)
    \/ \E id \in DOMAIN fines, amount \in FineAmounts : WaiveFine(id, amount)

LedgerNext ==
    \/ \E asset \in Assets : AddSupportedAsset(asset)
    \/ \E patron \in Patrons, amount \in FineAmounts :
           \/ \E ref \in Refs : Assess(patron, ref, amount) \/ Waive(patron, ref, amount)
           \/ \E id \in Settlements, asset \in Assets : InitiatePayment(patron, id, asset, amount)
    \/ \E id \in DOMAIN settled :
           \/ FailPayment(id)
           \/ \E ref \in Refs :
                  ConfirmPayment(id, ref) \/ RefundPayment(id, ref) \/ ReversePayment(id, ref)

DepositNext ==
    \/ \E patron \in Patrons, loan \in Loans, amount \in FineAmounts : LockDeposit(patron, loan, amount)
    \/ \E d \in DOMAIN deposits :
           \/ \E caller \in Patrons \cup {Admin} : ReleaseDeposit(caller, d)
           \/ \E amount \in FineAmounts : PartialCharge(d, amount)
           \/ FullCharge(d)

DamageNext ==
    \/ \E who \in Librarians, is \in BOOLEAN : SetLibrarian(who, is)
    \/ \E who \in Librarians \cup {Admin} :
           \/ \E loan \in Loans : Attest(who, loan)
           \/ \E a \in DOMAIN damages : Resolve(who, a) \/ AppendCorrection(who, a) \/ MarkCharged(who, a)

-----------------------------------------------------------------------------
(* Properties *)

\* Every stored value stays in its type.
TypeOK ==
    /\ \A id \in DOMAIN fines : fines[id].amount \in Nat
    /\ \A p \in Patrons : balances[p] \in Nat
    /\ vault \in Nat

\* What a loan owes is the sum of its fines less what was waived, and no fine was added
\* that took it over the policy's cap of the day.
DebtIsFines ==
    \A loan \in Loans :
        DebtOf(loan) = SumFunctionOnSet([id \in DOMAIN fines |-> fines[id].amount],
                                        {id \in DOMAIN fines : fines[id].loan = loan})

\* An assessment never takes a loan over the cumulative cap in force when it is made;
\* a lowered cap only stops further ones.
CapOnGrowth ==
    [][\A loan \in Loans :
         LET debt == DebtOf(loan)
             next == Get(loanDebt', loan, 0)
         IN  next > debt => next <= finePolicy'.total]_accountVars

Total(S) == SumFunctionOnSet([id \in DOMAIN settled |-> settled[id].amount], S)
Posted(patron, kinds) ==
    SumFunctionOnSet([i \in DOMAIN entries[patron] |-> entries[patron][i].delta],
                     {i \in DOMAIN entries[patron] : entries[patron][i].kind \in kinds})

\* A patron's balance is the sum of its entries and never below zero, payments and their
\* undoing are posted once per settlement, and no reference is used twice.
LedgerExact ==
    /\ \A p \in Patrons :
           LET in(states) == {id \in DOMAIN settled : settled[id].patron = p
                                                      /\ settled[id].state \in states} IN
           /\ balances[p] >= 0
           /\ balances[p] = Posted(p, {"Assessment", "Waiver", "Payment", "Refund", "Reversal"})
           /\ Posted(p, {"Payment"}) = -Total(in({"Confirmed", "Refunded", "Reversed"}))
           /\ Posted(p, {"Refund", "Reversal"}) = Total(in({"Refunded", "Reversed"}))
    /\ \A p, q \in Patrons : \A i \in DOMAIN entries[p], j \in DOMAIN entries[q] :
           entries[p][i].ref = entries[q][j].ref => p = q /\ i = j

\* The tokens held are exactly what is left of the deposits, and a closed one has nothing
\* left to pay out again.
DepositsCovered ==
    /\ vault = SumFunction([d \in DOMAIN deposits |-> deposits[d].remaining])
    /\ \A d \in DOMAIN deposits : deposits[d].status # "Locked" => deposits[d].remaining = 0

\* Damage is charged at most once and never after it was resolved.
ChargedOnce ==
    [][\A a \in DOMAIN damages : damages[a].resolved => damages'[a].charged = damages[a].charged]_accountVars
=============================================================================

----------------------------- MODULE Settlement -----------------------------
(***************************************************************************)
(* The settlement part of contracts/scholarship-outbox: the backend opens  *)
(* an intent for a payment it believes in, reports the transaction it      *)
(* observed for it, and has the two compared once the transaction is       *)
(* final.  A disagreement raises an alert that only a resolution clears.   *)
(* The part shares nothing but the admin with events and webhooks; the     *)
(* model starts after initialize.                                          *)
(***************************************************************************)
EXTENDS Integers, FiniteSets, Storage

CONSTANTS
    Admin,               \* the address stored by initialize
    Callers,             \* addresses that can sign a transaction
    IntentIds,
    SettlementAmounts,   \* amounts callers pass (i128)
    Finalities,          \* finality thresholds callers pass (u32)
    TxHashes,            \* transaction hashes callers report
    NoTx,                \* the zero hash of an unobserved transaction
    MAX_FINALITY,        \* finality bound of the code
    MAX_TRACKED_INTENTS, \* table bound of the code
    MaxLedger,           \* bound: ledger sequence
    MaxAlerts            \* bound: alerts raised

VARIABLES
    ledger,         \* env.ledger().sequence()
    settlements,    \* DataKey::Intent: id -> settlement intent
    trackedIntents, \* DataKey::TrackedIntents
    alertedIntents  \* DataKey::AlertedIntents

settlementVars == <<settlements, trackedIntents, alertedIntents>>

SettlementState == {"Pending", "Reconciled", "Mismatched", "Expired"}

\* resolved is resolution_hash # 0.
SettlementIntent ==
    [expected_amount : Int, required_finality : Nat, state : SettlementState,
     observed_tx_hash : TxHashes \cup {NoTx}, observed_ledger : Nat,
     observed_amount : Int, attempts : Nat, resolved : BOOLEAN]

RequireAdmin(caller) == caller = Admin

IsAlerting(state) == state \in {"Mismatched", "Expired"}

Init ==
    /\ settlements = Empty
    /\ trackedIntents = 0
    /\ alertedIntents = 0

RaiseAlert ==
    /\ alertedIntents < MaxAlerts
    /\ alertedIntents' = alertedIntents + 1

\* Fault: the table is allowed one intent too many.
FaultSlotFree == trackedIntents <= MAX_TRACKED_INTENTS
SlotFree == trackedIntents < MAX_TRACKED_INTENTS

OpenSettlement(caller, id, amount, finality) ==
    /\ RequireAdmin(caller)
    /\ finality \in 1..MAX_FINALITY
    /\ amount > 0
    /\ ~Has(settlements, id)
    /\ SlotFree
    /\ settlements' = Set(settlements, id,
           [expected_amount |-> amount, required_finality |-> finality,
            state |-> "Pending", observed_tx_hash |-> NoTx, observed_ledger |-> 0,
            observed_amount |-> 0, attempts |-> 0, resolved |-> FALSE])
    /\ trackedIntents' = trackedIntents + 1
    /\ UNCHANGED alertedIntents

\* Fault: a later observation replaces the first.
FaultUnobserved(s) == TRUE
Unobserved(s) == s.observed_ledger = 0

ObserveSettlement(caller, id, tx, tx_ledger) ==
    /\ RequireAdmin(caller)
    /\ settlements[id].state = "Pending"
    /\ Unobserved(settlements[id])
    /\ tx_ledger \in 1..ledger
    /\ settlements' = [settlements EXCEPT ![id].observed_tx_hash = tx,
                                          ![id].observed_ledger = tx_ledger]
    /\ UNCHANGED <<trackedIntents, alertedIntents>>

\* Fault: the ledger of the transaction itself counts as the first close.
FaultFinal(s) ==
    /\ s.observed_ledger # 0
    /\ ledger - s.observed_ledger + 1 >= s.required_finality
Final(s) ==
    /\ s.observed_ledger # 0
    /\ ledger - s.observed_ledger >= s.required_finality

ReconcileSettlement(caller, id, amount) ==
    LET s       == settlements[id]
        matches == amount = s.expected_amount
    IN  /\ RequireAdmin(caller)
        /\ s.state = "Pending"
        /\ Final(s)
        /\ settlements' = [settlements EXCEPT ![id] =
               [s EXCEPT !.attempts = @ + 1, !.observed_amount = amount,
                         !.state = IF matches THEN "Reconciled" ELSE "Mismatched"]]
        /\ IF matches THEN UNCHANGED alertedIntents ELSE RaiseAlert
        /\ UNCHANGED trackedIntents

ExpireSettlement(caller, id) ==
    /\ RequireAdmin(caller)
    /\ settlements[id].state = "Pending"
    /\ settlements' = [settlements EXCEPT ![id].state = "Expired"]
    /\ RaiseAlert
    /\ UNCHANGED trackedIntents

\* The operator's note is a non-zero hash.
ResolveSettlement(caller, id) ==
    /\ RequireAdmin(caller)
    /\ IsAlerting(settlements[id].state)
    /\ settlements' = [settlements EXCEPT ![id].state = "Reconciled", ![id].resolved = TRUE]
    /\ UNCHANGED <<trackedIntents, alertedIntents>>

Archivable(s) == s.state = "Reconciled"

ArchiveSettlement(caller, id) ==
    /\ RequireAdmin(caller)
    /\ Archivable(settlements[id])
    /\ settlements' = Remove(settlements, {id})
    /\ trackedIntents' = IF trackedIntents > 0 THEN trackedIntents - 1 ELSE 0
    /\ UNCHANGED alertedIntents

Next ==
    \E caller \in Callers :
        \/ \E id \in IntentIds, amount \in SettlementAmounts, finality \in Finalities :
               OpenSettlement(caller, id, amount, finality)
        \/ \E id \in DOMAIN settlements :
               \/ \E tx \in TxHashes, l \in 0..MaxLedger : ObserveSettlement(caller, id, tx, l)
               \/ \E amount \in SettlementAmounts : ReconcileSettlement(caller, id, amount)
               \/ ExpireSettlement(caller, id)
               \/ ResolveSettlement(caller, id)
               \/ ArchiveSettlement(caller, id)

CloseLedger == ledger < MaxLedger /\ ledger' = ledger + 1 /\ UNCHANGED settlementVars

Spec ==
    /\ ledger = 1 /\ Init
    /\ [][(Next /\ UNCHANGED ledger) \/ CloseLedger]_<<ledger, settlementVars>>

-----------------------------------------------------------------------------
(* Properties *)

\* Every stored value stays in its type; the table never exceeds its bound.
TypeOK ==
    /\ ledger \in Nat
    /\ DOMAIN settlements \subseteq IntentIds
    /\ \A id \in DOMAIN settlements : settlements[id] \in SettlementIntent
    /\ trackedIntents \in 0..MAX_TRACKED_INTENTS
    /\ alertedIntents \in Nat

\* A verdict is only ever passed on a transaction that had been observed and was
\* final, exactly once: an amount counts as matched without an operator's note
\* only if the chain's amount is the expected one, a mismatch is a real one, and
\* an expired intent was never adjudicated.  The table's counter is exact, and no
\* alarming intent was missed by the alert counter.
VerdictsSound ==
    /\ trackedIntents = Cardinality(DOMAIN settlements)
    /\ alertedIntents >= Cardinality({id \in DOMAIN settlements :
           IsAlerting(settlements[id].state) \/ settlements[id].resolved})
    /\ \A id \in DOMAIN settlements :
         LET s == settlements[id] IN
         /\ s.attempts > 0 => /\ s.attempts = 1 /\ s.observed_ledger > 0
                              /\ s.observed_ledger + s.required_finality <= ledger
         /\ s.state = "Reconciled" /\ ~s.resolved =>
                s.attempts = 1 /\ s.observed_amount = s.expected_amount
         /\ s.state = "Mismatched" => s.attempts = 1 /\ s.observed_amount # s.expected_amount
         /\ s.state \in {"Pending", "Expired"} => s.attempts = 0 /\ ~s.resolved

\* One step, seen from the intents and their verdicts.
VerdictStep ==
    \A id \in DOMAIN settlements :
        LET s == settlements[id]
            t == settlements'[id]
        IN  IF id \notin DOMAIN settlements'
            THEN s.state = "Reconciled"
            ELSE /\ s.observed_ledger # 0 => /\ t.observed_tx_hash = s.observed_tx_hash
                                             /\ t.observed_ledger = s.observed_ledger
                 /\ s.state = "Reconciled" => t = s
                 /\ IsAlerting(s.state) =>
                        t = s \/ t = [s EXCEPT !.state = "Reconciled", !.resolved = TRUE]

\* Nothing makes a disagreement disappear: the observed transaction of an intent
\* is never swapped for another, a verdict is never flipped by a retry, an
\* alarming state ends only in a recorded resolution, and an intent leaves the
\* table only when it is settled (observe_settlement, reconcile_settlement,
\* archive_settlement).
VerdictsSticky == [][VerdictStep]_settlementVars
=============================================================================

------------------------------ MODULE Payouts ------------------------------
(***************************************************************************)
(* The contracts a scholarship payment passes through: awards, milestone   *)
(* schedules, disbursement intents and the settlement of the resulting     *)
(* payments.  They are separate contracts (settlement is part of the       *)
(* outbox) that make no calls to each other and share no storage, so steps *)
(* of two of them commute; a behaviour therefore exercises one contract,   *)
(* chosen at the start, and the clock.                                     *)
(***************************************************************************)
EXTENDS Integers, Sequences

CONSTANTS
    Admin, Recipients, Programs, AwardIds, AwardAmounts, Deadlines, MaxTime,
    Callers, ScheduledAwards, Totals, Percentages, DueDates, MaxInputs, MAX_MILESTONES, MaxI128, MaxVersion,
    Creators, Payees, Wallets, PublicKeys, Installments, PaymentAmounts, Ttls,
    MAX_CHALLENGE_TTL_SECONDS, MaxChallenges, MaxWalletEpoch,
    IntentIds, SettlementAmounts, Finalities, TxHashes, NoTx,
    MAX_FINALITY, MAX_TRACKED_INTENTS, MaxLedger, MaxAlerts

\* What callers can pass is typed by the contracts' interfaces: i128 amounts, u64
\* times and u32 percentages; the bounds are natural numbers.
ASSUME PayoutsConstants ==
    /\ AwardAmounts \subseteq Int /\ Deadlines \subseteq Nat /\ MaxTime \in Nat
    /\ Totals \subseteq Int /\ Percentages \subseteq Nat /\ DueDates \subseteq Nat
    /\ MaxInputs \in Nat /\ MAX_MILESTONES \in Nat /\ MaxI128 \in Nat /\ MaxVersion \in Nat
    /\ PaymentAmounts \subseteq Int /\ MAX_CHALLENGE_TTL_SECONDS \in Nat
    /\ MaxChallenges \in Nat /\ MaxWalletEpoch \in Nat
    /\ SettlementAmounts \subseteq Int /\ MAX_FINALITY \in Nat
    /\ MAX_TRACKED_INTENTS \in Nat /\ MaxLedger \in Nat /\ MaxAlerts \in Nat

VARIABLES
    focus, now, ledger,
    awards, activeAward, acceptance, recovery, reservation,
    schedules,
    creators, walletKey, bindings, challenges, intents, proved,
    settlements, trackedIntents, alertedIntents

ScheduleInputs ==
    UNION {[1..n -> [percentage_bps : Percentages, due_at : DueDates]] : n \in 0..MaxInputs}

A == INSTANCE Awards
M == INSTANCE Milestones WITH AwardIds <- ScheduledAwards
D == INSTANCE Disbursements WITH Recipients <- Payees
S == INSTANCE Settlement

awardVars == <<awards, activeAward, acceptance, recovery, reservation>>
disbursementVars == <<creators, walletKey, bindings, challenges, intents, proved>>
settlementVars == <<settlements, trackedIntents, alertedIntents>>
vars == <<focus, now, ledger, awardVars, schedules, disbursementVars, settlementVars>>

Init ==
    /\ focus \in {"awards", "milestones", "disbursements", "settlement"}
    /\ now = 0
    /\ ledger = 1
    /\ A!Init /\ M!Init /\ D!Init /\ S!Init

Next ==
    /\ UNCHANGED focus
    /\ \/ /\ focus = "awards"
          /\ \/ A!Next /\ UNCHANGED now
             \/ A!AdvanceTime
          /\ UNCHANGED <<ledger, schedules, disbursementVars, settlementVars>>
       \/ /\ focus = "milestones"
          /\ M!Next
          /\ UNCHANGED <<now, ledger, awardVars, disbursementVars, settlementVars>>
       \/ /\ focus = "disbursements"
          /\ \/ D!Next /\ UNCHANGED now
             \/ D!AdvanceTime
          /\ UNCHANGED <<ledger, awardVars, schedules, settlementVars>>
       \/ /\ focus = "settlement"
          /\ \/ S!Next /\ UNCHANGED ledger
             \/ S!CloseLedger
          /\ UNCHANGED <<now, awardVars, schedules, disbursementVars>>

Spec == Init /\ [][Next]_vars

-----------------------------------------------------------------------------
(* The properties of the four contracts *)

\* Every stored value of the four contracts stays in its type: no pointer, counter
\* or intent outlives the record it refers to.
TypeOK == A!TypeOK /\ M!TypeOK /\ D!TypeOK /\ S!TypeOK

\* scholarship-awards: reservation counters and live-award pointers are exact.
ReservationsExact == A!ReservationsExact

\* scholarship-awards: payments follow an acceptance and stay within the award.
PaidUnderAgreement == A!PaidUnderAgreement

\* scholarship-milestones: a schedule pays out exactly its total.
ScheduleConserves == M!ScheduleConserves

\* scholarship-milestones: the first release freezes the plan.
ReleasesFreezePlan == M!ReleasesFreezePlan

\* scholarship-disbursements: execution only to a proven wallet.
PaidToProvenWallet == D!PaidToProvenWallet

\* scholarship-outbox: verdicts rest on one final observation.
VerdictsSound == S!VerdictsSound

\* scholarship-outbox: no verdict or observation is ever replaced.
VerdictsSticky == S!VerdictsSticky
=============================================================================

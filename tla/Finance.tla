------------------------------ MODULE Finance ------------------------------
(***************************************************************************)
(* contracts/scholarship-finance: a ledger per program of deposits, awards *)
(* and disbursements under an expected version, funding rounds, fees in    *)
(* one of three bases, and refunds and recoveries of executed payments     *)
(* with the program's running financials.                                  *)
(*                                                                         *)
(* Programs and payment intents belong to other contracts; they are the    *)
(* constants PublishedPrograms and PaidIntents.  Receipts, statements and  *)
(* reconciliations are written once from the state and never read.         *)
(***************************************************************************)
EXTENDS Integers, Sequences, FiniteSets, FiniteSetsExt, Storage

CONSTANTS
    FundPrograms, PublishedPrograms,
    PaidIntents,                \* intent -> [program, amount] of executed payments
    Amounts,                    \* what callers pass, zero and less included
    FeeBases, NetworkFees,      \* fee configurations, invalid ones included
    RoundTimes,
    MAX_LEDGER_ENTRIES, MaxFeeVersion, MaxReturns, MaxRounds

VARIABLES
    now,
    ledgers,    \* DataKey::ProgramLedger: program -> ledger
    unrestricted, \* the sum of DataKey::Deposit records without a program
    rounds,     \* DataKey::FundingRound: the <<start, end>> of each, in order
    feeConfigs, \* DataKey::FeeConfig: program -> [basis, network, version]
    returns,    \* DataKey::Refund and DataKey::Recovery: id -> record
    financials  \* DataKey::ProgramFinancials: program -> totals

financeVars == <<ledgers, unrestricted, rounds, feeConfigs, returns, financials>>

NewLedger == [version |-> 0, entries |-> <<>>, deposits |-> 0, awards |-> 0,
              disbursed |-> 0, current |-> 0, reserved |-> 0, available |-> 0]
NewFinancials == [refunded |-> 0, recovered |-> 0, fees |-> 0, pendingRefunds |-> 0,
                  pendingRecoveries |-> 0, version |-> 0]

Init ==
    /\ ledgers = Empty
    /\ unrestricted = 0
    /\ rounds = <<>>
    /\ feeConfigs = Empty
    /\ returns = Empty
    /\ financials = Empty

-----------------------------------------------------------------------------
(* The program ledger *)

LedgerOf(program) == Get(ledgers, program, NewLedger)

CheckLedgerVersion(program, expected) ==
    /\ LedgerOf(program).version = expected
    /\ Len(LedgerOf(program).entries) < MAX_LEDGER_ENTRIES

\* Write a ledger with one more entry, which carries the balance after it.
Post(program, ledger, kind, amount) ==
    ledgers' = Set(ledgers, program,
        [ledger EXCEPT !.version = @ + 1,
                       !.entries = Append(@, [kind |-> kind, amount |-> amount,
                                              after |-> ledger.current, seen |-> ledger.version])])

\* The round is 0 for a deposit outside a round.
RoundOpen(round) ==
    round # 0 => round \in DOMAIN rounds /\ now >= rounds[round][1] /\ now <= rounds[round][2]

UpdateLedgerOnDeposit(program, amount) ==
    LET l == LedgerOf(program) IN
    Post(program, [l EXCEPT !.deposits = @ + amount, !.current = @ + amount,
                            !.available = @ + amount], "Deposit", amount)

RecordDeposit(program, expected, amount, round) ==
    /\ amount > 0
    /\ program \in PublishedPrograms
    /\ CheckLedgerVersion(program, expected)
    /\ RoundOpen(round)
    /\ UpdateLedgerOnDeposit(program, amount)
    /\ UNCHANGED <<unrestricted, rounds, feeConfigs, returns, financials>>

RecordUnrestrictedDeposit(amount, round) ==
    /\ amount > 0
    /\ unrestricted + amount <= MAX_LEDGER_ENTRIES
    /\ RoundOpen(round)
    /\ unrestricted' = unrestricted + amount
    /\ UNCHANGED <<ledgers, rounds, feeConfigs, returns, financials>>

CreateFundingRound(start, end) ==
    /\ Len(rounds) < MaxRounds
    /\ start < end
    /\ rounds' = Append(rounds, <<start, end>>)
    /\ UNCHANGED <<ledgers, unrestricted, feeConfigs, returns, financials>>

\* An award is not compared with the available balance, which it may take below zero.
\* Fault: the award is reserved and stays available.
FaultReserve(l, amount) == [l EXCEPT !.awards = @ + amount, !.reserved = @ + amount]
Reserve(l, amount) ==
    [l EXCEPT !.awards = @ + amount, !.reserved = @ + amount, !.available = @ - amount]

RecordAward(program, expected, amount) ==
    /\ amount > 0
    /\ CheckLedgerVersion(program, expected)
    /\ Post(program, Reserve(LedgerOf(program), amount), "Award", amount)
    /\ UNCHANGED <<unrestricted, rounds, feeConfigs, returns, financials>>

RecordDisbursement(program, expected, amount) ==
    LET l == LedgerOf(program) IN
    /\ amount > 0
    /\ Has(ledgers, program)
    /\ CheckLedgerVersion(program, expected)
    /\ l.reserved >= amount
    /\ Post(program, [l EXCEPT !.disbursed = @ + amount, !.reserved = @ - amount,
                               !.current = @ - amount], "Disbursement", amount)
    /\ UNCHANGED <<unrestricted, rounds, feeConfigs, returns, financials>>

-----------------------------------------------------------------------------
(* Fees.  A basis is [kind, bps, fixed, cap]. *)

ValidBasis(b) ==
    \/ b.kind = "Percentage" /\ b.bps <= 10000
    \/ b.kind = "Fixed" /\ b.fixed >= 0
    \/ b.kind = "PercentageWithCap" /\ b.bps <= 10000 /\ b.cap >= 0

FeeVersion(program) == IF Has(feeConfigs, program) THEN feeConfigs[program].version ELSE 0

ConfigureFees(program, expected, basis, network) ==
    /\ FeeVersion(program) = expected
    /\ expected < MaxFeeVersion
    /\ ValidBasis(basis)
    /\ network >= 0
    /\ feeConfigs' = Set(feeConfigs, program,
                         [basis |-> basis, network |-> network, version |-> expected + 1])
    /\ UNCHANGED <<ledgers, unrestricted, rounds, returns, financials>>

\* FeeBasis: by percentage, rounded down, or fixed, or a percentage up to a cap.
PlatformFee(b, gross) ==
    LET share == (gross * b.bps) \div 10000 IN
    CASE b.kind = "Percentage" -> share
      [] b.kind = "Fixed" -> b.fixed
      [] b.kind = "PercentageWithCap" -> IF share > b.cap THEN b.cap ELSE share

TotalFee(program, gross) ==
    PlatformFee(feeConfigs[program].basis, gross) + feeConfigs[program].network

\* calculate_fees fails on a fee above the amount.
CanCalculateFees(program, gross) ==
    Has(feeConfigs, program) /\ TotalFee(program, gross) <= gross

\* Fault: the fee is given back in full however little is refunded.
FaultFeeRefunded(fee, paid, amount) == fee
\* The share of the fee, through a proportion in basis points, rounded down twice.
FeeRefunded(fee, paid, amount) ==
    IF amount >= paid THEN fee ELSE (fee * ((amount * 10000) \div paid)) \div 10000

-----------------------------------------------------------------------------
(* Refunds and recoveries *)

FinancialsOf(program) == Get(financials, program, NewFinancials)

\* The refund already on file is looked up by the intent and stored under its own id, so
\* that none is ever found: an intent can be refunded again.
InitiateRefund(intent, amount) ==
    LET program == PaidIntents[intent].program
        paid    == PaidIntents[intent].amount
        fee     == FeeRefunded(TotalFee(program, paid), paid, amount)
        f       == FinancialsOf(program)
    IN  /\ Cardinality(DOMAIN returns) < MaxReturns
        /\ amount > 0 /\ amount <= paid
        /\ CanCalculateFees(program, paid)
        /\ returns' = Set(returns, Cardinality(DOMAIN returns) + 1,
               [kind |-> "Refund", intent |-> intent, amount |-> amount, fee |-> fee,
                version |-> 1, done |-> FALSE])
        /\ financials' = Set(financials, program,
               [f EXCEPT !.refunded = @ + amount, !.fees = @ - fee,
                         !.pendingRefunds = @ - amount, !.version = @ + 1])
        /\ UNCHANGED <<ledgers, unrestricted, rounds, feeConfigs>>

InitiateRecovery(intent, amount) ==
    LET program == PaidIntents[intent].program
        f       == FinancialsOf(program)
    IN  /\ Cardinality(DOMAIN returns) < MaxReturns
        /\ amount > 0 /\ amount <= PaidIntents[intent].amount
        /\ returns' = Set(returns, Cardinality(DOMAIN returns) + 1,
               [kind |-> "Recovery", intent |-> intent, amount |-> amount, fee |-> 0,
                version |-> 1, done |-> FALSE])
        /\ financials' = Set(financials, program,
               [f EXCEPT !.recovered = @ + amount, !.pendingRecoveries = @ - amount,
                         !.version = @ + 1])
        /\ UNCHANGED <<ledgers, unrestricted, rounds, feeConfigs>>

\* Refunds and recoveries are completed once, under the version the caller has seen.
CompleteReturn(kind, id, expected) ==
    /\ returns[id].kind = kind
    /\ returns[id].version = expected
    /\ ~returns[id].done
    /\ returns' = [returns EXCEPT ![id].version = @ + 1, ![id].done = TRUE]
    /\ UNCHANGED <<ledgers, unrestricted, rounds, feeConfigs, financials>>

CompleteRefund(id, expected) == CompleteReturn("Refund", id, expected)
CompleteRecovery(id, expected) == CompleteReturn("Recovery", id, expected)

\* The ledger's steps read neither fees nor returns, and the other way round.
LedgerNext ==
    \/ \E program \in FundPrograms, expected \in 0..MAX_LEDGER_ENTRIES, amount \in Amounts :
           \/ \E round \in 0..MaxRounds : RecordDeposit(program, expected, amount, round)
           \/ RecordAward(program, expected, amount)
           \/ RecordDisbursement(program, expected, amount)
    \/ \E amount \in Amounts, round \in 0..MaxRounds : RecordUnrestrictedDeposit(amount, round)
    \/ \E start, end \in RoundTimes : CreateFundingRound(start, end)

ReturnNext ==
    \/ \E program \in FundPrograms, expected \in 0..MaxFeeVersion, basis \in FeeBases,
          network \in NetworkFees : ConfigureFees(program, expected, basis, network)
    \/ \E intent \in DOMAIN PaidIntents, amount \in Amounts :
           InitiateRefund(intent, amount) \/ InitiateRecovery(intent, amount)
    \/ \E id \in DOMAIN returns, expected \in 1..2 :
           CompleteRefund(id, expected) \/ CompleteRecovery(id, expected)

-----------------------------------------------------------------------------
(* Properties *)

\* Every stored value stays in its type.
TypeOK ==
    /\ \A program \in DOMAIN ledgers :
           ledgers[program].version = Len(ledgers[program].entries)
    /\ \A id \in DOMAIN returns : returns[id].fee \in Nat

Posted(l, kind) ==
    SumFunctionOnSet([i \in DOMAIN l.entries |-> l.entries[i].amount],
                     {i \in DOMAIN l.entries : l.entries[i].kind = kind})

\* The books balance: the totals are the sums of the entries, what is reserved and what
\* is available make up the current balance, and the last entry carries it.
BooksBalance ==
    \A program \in DOMAIN ledgers :
        LET l == ledgers[program] IN
        /\ l.deposits = Posted(l, "Deposit")
        /\ l.awards = Posted(l, "Award")
        /\ l.disbursed = Posted(l, "Disbursement")
        /\ l.current = l.deposits - l.disbursed
        /\ l.current = l.reserved + l.available
        /\ l.reserved >= 0
        /\ l.entries[Len(l.entries)].after = l.current

\* The most that any valid configuration takes from a payment.
HighestFee(paid) ==
    Max({PlatformFee(b, paid) + n : b \in {x \in FeeBases : ValidBasis(x)}, n \in NetworkFees})

\* A partial refund gives back no more of the fee than the refunded share of it, and the
\* financials are the sums of the refunds and recoveries on file.
RefundsAddUp ==
    /\ \A id \in DOMAIN returns :
           LET r == returns[id] IN
           r.kind = "Refund" => r.fee * PaidIntents[r.intent].amount
                                    <= r.amount * HighestFee(PaidIntents[r.intent].amount)
    /\ \A program \in DOMAIN financials :
           LET of(kind) == {id \in DOMAIN returns : returns[id].kind = kind
                              /\ PaidIntents[returns[id].intent].program = program}
               sum(S)   == SumFunctionOnSet([id \in DOMAIN returns |-> returns[id].amount], S)
           IN  /\ financials[program].refunded = sum(of("Refund"))
               /\ financials[program].recovered = sum(of("Recovery"))
               /\ financials[program].version = Cardinality(of("Refund") \cup of("Recovery"))
=============================================================================

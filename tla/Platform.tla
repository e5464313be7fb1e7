------------------------------ MODULE Platform ------------------------------
(***************************************************************************)
(* The contracts the platform's services are built on: library licenses,   *)
(* the library's accounts with its patrons, the scholarship ledger, the    *)
(* three small treasuries, the idempotency and rate-limit guards, reviews, *)
(* eligibility, certificates, the migration of legacy records, and tokens  *)
(* with their vesting.  They make no calls to each other and share no      *)
(* storage, so their steps commute: a behaviour exercises one of them,     *)
(* chosen at the start, and the clock.                                     *)
(***************************************************************************)
EXTENDS Integers, Sequences, FiniteSets, TLC

CONSTANTS
    Admin, MaxTime,
    \* the library: licenses, and what patrons owe
    Works, Vouchers, Licensees, Learners, LicenseTimes, Spans, SeatCounts, Uses, Renditions,
    AccessModes, MigrationPolicies, Roles, MaxLicenses, MaxGrants, MaxDerived, MaxAllocations,
    Librarians, Patrons, Loans, FineAmounts, Policies, LoanStarts, FineExpiries, Nonces,
    Refs, Settlements, Assets, MaxFines, MaxEntries, MaxDeposits, MaxAttestations, MaxCorrections,
    \* the scholarship ledger
    FundPrograms, PublishedPrograms, PaidIntents, Amounts, FeeBases, NetworkFees, RoundTimes,
    MAX_LEDGER_ENTRIES, MaxFeeVersion, MaxReturns, MaxRounds,
    \* the small treasuries
    Ann, Ben, Depositors, Approvers, TransferAmounts, MaxVaults, Manifests, TOTAL_BPS,
    MAX_RECIPIENTS, MaxDistributed, Students, Courses, Instructors, FeePercents, InitialFee,
    MaxFee, RefundWindow, MaxPayments,
    \* the tokens and their vesting
    Holders, MAX_SUPPLY, Supply, TokenAmounts, Spenders, ApprovalInputs, Candidates, Never,
    RoyaltyInputs, VestingInputs, RevokeDelays, MinRevokeDelay, VestingFunds, MaxVestings,
    \* idempotency keys, rate limits and migrations
    Actors, Operations, Keys, Results, Ttls, DEFAULT_KEY_TTL_SECONDS, MAX_KEY_TTL_SECONDS,
    MAX_PENDING_PER_ACTOR_OP, LimitedActions, SeededConfigs, ActionConfigs, MAX_BUCKETS,
    Operators, Systems, LegacyIds, Payloads, NoPayload, MAX_RUNS, MAX_TRACKED_RECORDS,
    MAX_REPORTED_PER_RUN, MaxRunId, MaxCursor,
    \* eligibility and reviews
    Issuers, Subjects, EligPrograms, GlobalScope, AttestationTypes, TypeRules, Criteria,
    ValidCriteria, CriterionRules, Expiries, MAX_RULE_REQUIREMENTS, MAX_MENTORSHIP_CRITERIA,
    MaxRules, ReviewPrograms, Applicants, Reviewers, ReviewLimits, Rubrics, ScoreSheets,
    BPS_DENOMINATOR, MAX_CRITERIA, MAX_CRITERION_SCORE, MAX_REVIEWERS, MaxRubrics,
    MaxConfigVersion,
    \* certificates
    CertAdmins, FirstAdmin, BackendKeys, FirstKey, Minters, FirstMinter, Recipients, CertCourses,
    ProofTimes, ADMIN_TRANSFER_TTL, ROTATION_PROPOSAL_TTL, MaxTokens

\* What callers pass is typed by the contracts' interfaces: u64 times, spans and positions, i128
\* amounts and costs, u32 seats, fees, weights, scores, limits and basis points, and vectors of
\* criteria, recipients, shares, rubrics and scores.  A u32 or an i128 takes finitely many
\* values, and so do the fees made of them; a whole of basis points is positive.
ASSUME PlatformConstants ==
    /\ LicenseTimes \subseteq Nat /\ Spans \subseteq Nat /\ SeatCounts \subseteq Nat
    /\ FineAmounts \subseteq Int /\ TransferAmounts \subseteq Int /\ Amounts \subseteq Int
    /\ FeePercents \subseteq Nat /\ InitialFee \in Nat
    /\ TOTAL_BPS \in Nat \ {0}
    /\ \A id \in DOMAIN Manifests : /\ Manifests[id].recipients \in Seq(Depositors)
                                    /\ Manifests[id].bps \in Seq(Nat)
    /\ \A i \in DOMAIN PaidIntents : PaidIntents[i].amount \in Int
    /\ IsFiniteSet(FeeBases) /\ IsFiniteSet(NetworkFees) /\ NetworkFees \subseteq Int
    /\ \A b \in FeeBases : b.bps \in Nat /\ b.fixed \in Int /\ b.cap \in Int
    /\ TokenAmounts \subseteq Int /\ Supply \in Int /\ VestingFunds \in Int
    /\ \A r \in RoyaltyInputs : r[2] \in Nat
    /\ \A v \in VestingInputs : v[1] \in Int /\ v[2] \in Nat /\ v[3] \in Nat /\ v[4] \in Nat
    /\ \A lim \in ReviewLimits : lim[1] \in Nat
    /\ Rubrics \subseteq Seq([weight_bps : Nat, max_score : Nat]) /\ ScoreSheets \subseteq Seq(Nat)
    /\ BPS_DENOMINATOR \in Nat \ {0} /\ MAX_CRITERION_SCORE \in Nat
    /\ MAX_REPORTED_PER_RUN \in Nat
    /\ CriterionRules \subseteq [all_of : Seq(Criteria), any_of : Seq(Criteria)]

VARIABLES
    focus, now,
    licenses, enrolled, usedProofs, grants, renditionMoves, optIns, entitlements,
    entitlementKeys, seatLimits, seatTotals, allocations, roleProofs, offers, revocations,
    readers, offline,
    finePolicy, fines, fineNonces, loanDebt, assets, balances, entries, refs, settled,
    deposits, vault, librarians, damages,
    ledgers, unrestricted, rounds, feeConfigs, returns, financials,
    vaults, voted, vaultTokens, manifests, shareOf, assetLedger,
    feePercent, enrolledIn, payments, earnings, courseTokens, accrued,
    records, pendingOf, actionConfig, serviceAuth, buckets, bucketCount,
    configs, rubrics, reviewsOf, reviewersOf,
    issuers, typeRules, attested, mentorRules, criterionOf,
    certAdmin, certPaused, certificates, backendKey, certMinter, pendingAdmin, pendingKey,
    pendingMinter, nextTokenId, usedNonces, mintedBy,
    runs, openRuns, legacy, tracked, unmapped, reported,
    paused, tokenAdmin, tokenPending, royalty, holdings, allowances,
    vestings, vestingTokens, vestingPaid

L == INSTANCE Licensing WITH Proofs <- Vouchers
P == INSTANCE LibraryAccounts WITH FineNonces <- Nonces

F == INSTANCE Finance
T == INSTANCE Treasury
G == INSTANCE Guards WITH IdempotencyKeys <- Keys
S == INSTANCE Screening
C == INSTANCE Certificates

K == INSTANCE Tokens WITH pendingAdmin <- tokenPending

\* The inputs of the instance.  A policy can be replaced by a higher and by a lower cap, the
\* window of an action is one or two time units long, a rule may ask for one criterion twice
\* or for nothing, and a sheet of scores fits only the rubric of two criteria.
FinePolicies == {[each |-> 1, total |-> 2, grace |-> 1], [each |-> 2, total |-> 2, grace |-> 0],
                 [each |-> 0, total |-> 1, grace |-> 0]}
Config(window_seconds, max_count, risk_tier) ==
    [window_seconds |-> window_seconds, max_count |-> max_count, risk_tier |-> risk_tier]
Seeded == [apply |-> Config(1, 1, "Low"), pay |-> Config(1, 2, "High")]
Reconfigured == {Config(2, 1, "Low"), Config(0, 1, "Low")}
RequiredTypes == {<<>>, <<"enrolled">>}
Rule(all_of, any_of) == [all_of |-> all_of, any_of |-> any_of]
RequiredCriteria == {Rule(<<"senior">>, <<>>), Rule(<<"senior">>, <<"local">>),
                     Rule(<<"senior">>, <<"senior">>), Rule(<<>>, <<>>)}
Limits == {<<1, 2>>, <<2, 1>>}
Sheets == {<<[weight_bps |-> 7000, max_score |-> 3], [weight_bps |-> 3000, max_score |-> 1]>>,
           <<[weight_bps |-> 10000, max_score |-> 2]>>, <<[weight_bps |-> 9000, max_score |-> 2]>>}
Scores == {<<2, 1>>, <<1>>, <<3>>}

\* One payment of three; a fee of half, one with a cap, a fixed one and one above the whole.
PaidTuition == [i \in {"tuition"} |-> [program |-> CHOOSE p \in FundPrograms : TRUE, amount |-> 3]]
Basis(kind, bps, fixed, cap) == [kind |-> kind, bps |-> bps, fixed |-> fixed, cap |-> cap]
Bases == {Basis("Percentage", 5000, 0, 0), Basis("PercentageWithCap", 10000, 0, 2),
          Basis("Fixed", 0, 1, 0), Basis("Percentage", 10001, 0, 0)}
NetworkCosts == {-1, 0, 1}

\* A manifest with a recipient listed twice, one that rounds, and one that does not add up.
Manifest(recipients, bps) == [recipients |-> recipients, bps |-> bps]
Splits == [twice |-> Manifest(<<Ann, Ben, Ann>>, <<3334, 3333, 3333>>),
           half  |-> Manifest(<<Ann, Ben>>, <<5000, 5000>>),
           short |-> Manifest(<<Ann>>, <<9999>>)]

\* A royalty that rounds, one of the whole and one above it; grants that vest at once, after
\* a cliff and in part, and one whose cliff is past its end.
Approvals == {<<Admin, Ben, 2, Never>>, <<Admin, Ben, 3, 2>>, <<Ann, Ben, 1, 1>>,
              <<Ann, Ben, 0, Never>>, <<Ann, Ben, 5, Never>>}
Royalties == {<<Ann, 5000>>, <<Ben, 10000>>, <<Ben, 10001>>}
Vestings == {<<2, 1, 0, 0>>, <<3, 1, 1, 3>>, <<0, 1, 0, 0>>, <<1, 1, 2, 1>>}

licensingVars == <<licenses, enrolled, usedProofs, grants, renditionMoves, optIns, entitlements,
                   entitlementKeys, seatLimits, seatTotals, allocations, roleProofs, offers,
                   revocations, readers, offline>>
accountVars == <<finePolicy, fines, fineNonces, loanDebt, assets, balances, entries, refs,
                 settled, deposits, vault, librarians, damages>>
financeVars == <<ledgers, unrestricted, rounds, feeConfigs, returns, financials>>
treasuryVars == <<vaults, voted, vaultTokens, manifests, shareOf, assetLedger,
                  feePercent, enrolledIn, payments, earnings, courseTokens, accrued>>
guardVars == <<records, pendingOf, actionConfig, serviceAuth, buckets, bucketCount>>
reviewVars == <<configs, rubrics, reviewsOf, reviewersOf>>
eligibilityVars == <<issuers, typeRules, attested, mentorRules, criterionOf>>
certificateVars == <<certAdmin, certPaused, certificates, backendKey, certMinter, pendingAdmin,
                     pendingKey, pendingMinter, nextTokenId, usedNonces, mintedBy>>
migrationVars == <<runs, openRuns, legacy, tracked, unmapped, reported>>
tokenVars == <<paused, tokenAdmin, tokenPending, royalty, holdings, allowances>>
vestingVars == <<vestings, vestingTokens, vestingPaid>>
vars == <<focus, now, licensingVars, accountVars, financeVars, treasuryVars, guardVars,
          reviewVars, eligibilityVars, certificateVars, migrationVars, tokenVars, vestingVars>>

Init ==
    /\ focus \in {"reading", "migrations", "holdings", "offers", "fines", "ledger", "deposits",
                  "damage", "books", "returns", "vault", "royalties", "payment", "keys", "limits",
                  "reviews", "types", "criteria", "minting", "roles", "legacy", "token", "vesting"}
    /\ now = 1
    /\ L!Init /\ P!Init /\ F!Init /\ T!Init /\ G!Init /\ S!Init /\ C!Init
    /\ K!Init

\* The ledger's clock only goes forward.  The contracts of these parts never read it, and it
\* stands still in their behaviours.
Untimed == {"ledger", "deposits", "damage", "vault", "royalties", "legacy"}
Tick ==
    /\ focus \notin Untimed
    /\ now < MaxTime
    /\ now' = now + 1
    /\ UNCHANGED <<licensingVars, accountVars, financeVars, treasuryVars, guardVars,
                   reviewVars, eligibilityVars, certificateVars, migrationVars, tokenVars,
                   vestingVars>>

Next ==
    /\ UNCHANGED focus
    /\ \/ Tick
       \/ /\ \/ focus \in {"reading", "migrations", "holdings", "offers"} /\ L!LicenseNext
             \/ focus \in {"reading", "migrations"} /\ L!AccessNext
             \/ focus = "reading" /\ L!ReaderNext
             \/ focus = "migrations" /\ L!MigrationNext
             \/ focus = "holdings" /\ L!HoldingsNext
             \/ focus = "offers" /\ L!OfferNext
          /\ UNCHANGED <<now, accountVars, financeVars, treasuryVars, guardVars, reviewVars,
                         eligibilityVars, certificateVars, migrationVars, tokenVars,
                         vestingVars>>
       \/ /\ \/ focus = "fines" /\ P!FineNext
             \/ focus = "ledger" /\ P!LedgerNext
             \/ focus = "deposits" /\ P!DepositNext
             \/ focus = "damage" /\ P!DamageNext
          /\ UNCHANGED <<now, licensingVars, financeVars, treasuryVars, guardVars, reviewVars,
                         eligibilityVars, certificateVars, migrationVars, tokenVars,
                         vestingVars>>
       \/ /\ \/ focus = "books" /\ F!LedgerNext
             \/ focus = "returns" /\ F!ReturnNext
          /\ UNCHANGED <<now, licensingVars, accountVars, treasuryVars, guardVars, reviewVars,
                         eligibilityVars, certificateVars, migrationVars, tokenVars,
                         vestingVars>>
       \/ /\ \/ focus = "vault" /\ T!VaultNext
             \/ focus = "royalties" /\ T!RoyaltyNext
             \/ focus = "payment" /\ T!PaymentNext
          /\ UNCHANGED <<licensingVars, accountVars, financeVars, guardVars, reviewVars,
                         eligibilityVars, certificateVars, migrationVars, tokenVars,
                         vestingVars>>
       \/ /\ \/ focus = "keys" /\ G!KeyNext
             \/ focus = "limits" /\ G!LimitNext
          /\ UNCHANGED <<licensingVars, accountVars, financeVars, treasuryVars, reviewVars,
                         eligibilityVars, certificateVars, migrationVars, tokenVars,
                         vestingVars>>
       \/ /\ focus = "reviews"
          /\ S!ReviewNext
          /\ UNCHANGED <<licensingVars, accountVars, financeVars, treasuryVars, guardVars,
                         eligibilityVars, certificateVars, migrationVars, tokenVars,
                         vestingVars>>
       \/ /\ \/ focus = "types" /\ S!TypeNext
             \/ focus = "criteria" /\ S!CriterionNext
          /\ UNCHANGED <<licensingVars, accountVars, financeVars, treasuryVars, guardVars,
                         reviewVars, certificateVars, migrationVars, tokenVars,
                         vestingVars>>
       \/ /\ \/ focus = "minting" /\ C!MintNext
             \/ focus = "roles" /\ C!RoleNext
          /\ UNCHANGED <<licensingVars, accountVars, financeVars, treasuryVars, guardVars,
                         reviewVars, eligibilityVars, migrationVars, tokenVars, vestingVars>>
       \/ /\ focus = "legacy"
          /\ G!MigrationNext
          /\ UNCHANGED <<now, licensingVars, accountVars, financeVars, treasuryVars, guardVars,
                         reviewVars, eligibilityVars, certificateVars, tokenVars, vestingVars>>
       \/ /\ \/ focus = "token" /\ K!TokenNext /\ UNCHANGED vestingVars
             \/ focus = "vesting" /\ K!VestingNext /\ UNCHANGED tokenVars
          /\ UNCHANGED <<now, licensingVars, accountVars, financeVars, treasuryVars, guardVars,
                         reviewVars, eligibilityVars, certificateVars, migrationVars>>

Spec == Init /\ [][Next]_vars

\* These are only compared with each other.
Interchangeable ==
    UNION {Permutations(ids) : ids \in {Works, Vouchers, Keys}}

-----------------------------------------------------------------------------
(* The properties of the contracts *)

\* Every stored value of the eight parts stays in its type.
TypeOK ==
    /\ L!TypeOK /\ P!TypeOK /\ F!TypeOK /\ T!TypeOK
    /\ G!TypeOK /\ S!TypeOK /\ C!TypeOK /\ K!TypeOK

\* What is kept apart adds up: tokens held cover the vaults, deposits and earnings to the unit,
\* what a patron or a loan owes is the sum of its entries, royalties are shared without loss,
\* the scholarship ledger's balances and refunds follow from its entries, transfers and grants
\* neither make nor lose a token, seats and entitlements follow from what was allocated and
\* granted, and scores and their ranking from comparable reviews.
AddsUp ==
    /\ T!VaultsBacked /\ T!RoyaltiesAddUp /\ T!EarningsCovered
    /\ P!DebtIsFines /\ P!LedgerExact /\ P!DepositsCovered
    /\ F!BooksBalance /\ F!RefundsAddUp
    /\ K!SupplyConserved /\ K!VestingPaysOnce
    /\ L!HoldingsExact
    /\ S!ScoresComparable /\ S!RankingConsistent

\* Nothing is used twice or after its time: access from licenses and one-time proofs,
\* places and buckets from keys and calls, eligibility from live attestations, certificates
\* from one-time proofs, and a migration's numbers from the records it mapped.
NothingUsedTwice ==
    /\ L!DerivedWithin
    /\ G!InFlightExact /\ G!BucketsCounted /\ G!MigrationExact
    /\ S!EligibleOnLiveEvidence /\ S!RulesWellFormed
    /\ C!NonceMintsOnce /\ C!TokenIdsUnique

\* What was settled stays settled: a revoked license gives nothing more, a fine never goes
\* over the cap, resolved damage is not charged, a key keeps its outcome, certificates
\* and roles change only through their own steps, and a migrated record keeps its content.
SettledStands ==
    /\ L!RevocationCuts /\ P!CapOnGrowth /\ P!ChargedOnce
    /\ G!OneOutcomePerKey /\ C!RolesChangeByProposal /\ G!HistoryKept
=============================================================================

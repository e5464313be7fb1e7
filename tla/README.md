# ChainVerse on-chain contracts: specification, model checking and proofs

This directory holds TLA+ models of the Soroban contracts under `src/contracts`,
the TLC configurations that check them on small instances, and TLAPS proofs of
what the checks can only sample. It is written for a reader who has the
repository next to it. `PROJECT.json` lists, in machine-readable form, the
components, runs, mutants, the source lines of every definition, the findings,
the hazards and the theorems.

## 1. The system

ChainVerse is a family of about eighty-five Rust contracts for the Stellar
network. They fall into four groups:

| group | contracts | what they keep |
|---|---|---|
| money | `escrow`, `escrow-vault`, `chainverse-core`, `payment`, `payout-automation`, `royalty-splits`, `token`, `common` (vesting), `certificates` | token balances held in the contract's name, fees, allowances, one-time nonces |
| scholarships | `scholarship-*` (programs, applications, reviews, decisions, awards, milestones, disbursements, outbox, …) | records per program, applicant or award, with counters and versions beside them |
| mentorship | `mentorship-*`, `mentor-*` (core, capacity, scheduling, slots, agreements, contracts, rematch, …) | matches, seats, session bookings, holds, agreement versions |
| library | `library-*` (rights, licensing, fines, deposits, physical) | licences, loans, deposits |

**Execution model.** A contract call is one transaction. When it returns an
error, panics or overflows (`overflow-checks = true` in the release profile) the
host rolls every write back. So an action of a model is one *successful* call,
with the guards of all its early returns, and a refused call is a stuttering
step. There are no threads: what interleaves is the calls of different accounts,
the ledger's clock, and, where a protocol takes several calls, whatever happens
between them. The scholarship contracts make no calls to each other
(`src/docs/adr/0002-scholarships-on-chain-boundaries.md`); a backend composes
them, retries, and may act on something it read earlier. Of the modelled
contracts only `mentorship-slots` calls another one, `mentorship-availability`. A contract cannot crash half-way; crashes of the
off-chain parties show up as calls that are missing, late or repeated.

**What is hard.** Counters, pointers and pools are stored apart from the records
they summarise and updated by hand in each entry point; several records share
one balance or budget; deadlines of complementary operations must meet without a
gap or an overlap; versions, epochs and votes go stale between the calls of one
protocol; bounded histories evict records other state refers to; and a backend
retries. The `hazards` of `PROJECT.json` name each place by its line.

### Inventory of the modelled components

| component | state | operations | what makes it correct |
|---|---|---|---|
| `escrow` | escrow records, one token balance for all of them, fee pool, fee rate, admin and arbiter, volume, indices | create, fund, release, partial release, dispute, resolve, refund, withdraw fees, configure | the balance covers everything owed; each deposit is paid out once; nobody's funds are stuck; statuses follow `escrow_state.rs` |
| `scholarship-outbox`: events | events by id, deduplication keys, backlog counter, prune floor, cursors | enqueue, mark published, acknowledge, prune | one event per key for ever; the backlog counter is exact; the sweep loses nothing |
| `scholarship-outbox`: webhooks | endpoints, bounded delivery history, attempt counters, acknowledgements, secret epochs | register, update, rotate, mute, record, acknowledge | the history is a gap-free window; retry counts survive eviction; acknowledgements never regress |
| `scholarship-outbox`: settlement | settlement intents, table and alert counters | open, observe, reconcile, expire, resolve, archive | a verdict rests on one final observation and is never replaced |
| `scholarship-programs` | window and award inventory per program, versioned | set window, configure budget, reserve, release | commitments survive reconfiguration; no over-commitment |
| `scholarship-applications` | programs, form and terms versions, consents, applications, privacy and export requests; reviewer profiles, pools, conflicts, assignments | registration, publication, consent, submission, correction, erasure, export; reviewer registration, pools, conflicts, assignment | answers change once per approved request; one pending export; loads are exact |
| `scholarship-decisions` | committee, quorum, budgets, decisions with votes, reservations, appeals | appoint, remove, open, vote, finalize, accept, release, expire, appeal | outcomes follow recorded votes; budgets are exact; what is settled stays settled |
| `scholarship-awards` | awards, live-award pointer, reservation counter, acceptances, recoveries | create, accept, decline, expire, cancel, terminate, record payment | pointer and counter are exact; payments follow an acceptance |
| `scholarship-milestones` | one schedule per award | define, activate, amend, verify, release | a schedule pays exactly its total; the first release freezes it |
| `scholarship-disbursements` | allow list, wallet bindings with epochs, challenges, payment intents | bind, challenge, confirm, create intent, execute, cancel | money goes only to a proven wallet |
| `mentorship-scheduling` | agreements, sessions, reschedule proposals, lead time and policies | register agreements, book, confirm, propose a new time, approve, decline | nobody is double-booked, also when a new time is approved long after it was proposed |
| `mentorship-availability`, `-slots` | weekly windows, clock changes, exceptions; policies, blackouts, bookings | set schedule, except, enable; set policy, black out, find, book, cancel | what the search offers can be booked; bookings never overlap |
| `mentorship-calendar` | connections, epochs, busy windows | connect, sync, mark a failure, expire, disconnect | a late sync never replaces a newer one; stored windows are canonical |
| `mentorship-cohorts`, `-contracts` | cohorts and enrolments; seats, offers, waitlist, contract versions | create, enroll, withdraw; request, confirm, decline, expire, release, promote, publish | counters are the records; seats go to the first in line |
| `mentorship-applications` | policies, applications with decision histories; forms, drafts, submissions, review queue | submit, decide, withdraw, reapply; draft, submit, assign, declare conflict, decide | counters exact, one chain of attempts, one submission, no decision by a reviewer in conflict |
| `mentorship-matching`, `-agreements`, `-conduct`, `mentorship`, `-rematch`, `-agreement-export` | proposals; agreements and amendments; policies and acceptances; engagements and consents; rematch requests; export records and quotas | propose, approve, adjust; sign, amend; accept, activate; pause, resume, terminate; request, resolve; grant, export | nothing takes effect without the people it needs; what was agreed stands; counters are exact |
| `library_licensing` | licences, access grants, sessions, offline copies, seats, offers, scheduled revocations | grant, derive, read, migrate, allocate, buy, revoke | what is derived never outlives its licence; a proof is used once |
| `library-fines`, `-deposits`, `-physical` | fines and caps, patron ledgers and settlements, deposits, damage records | assess, waive, settle, correct, deposit, charge, resolve | debts are the sums of their entries, caps hold, damage is charged once |
| `scholarship-finance` | ledgers with versions, rounds, fees, refunds and recoveries | deposit, reserve, disburse, request and complete returns | balances follow from entries; no payment is returned twice |
| `escrow-vault`, `royalty-splits`, `payment` | vaults and votes, manifests and shares, payments and earnings | create, approve, revoke, cancel; distribute, withdraw; pay, refund | tokens held cover what is owed |
| `scholarship-idempotency`, `-rate-limits` | keys with outcomes, places in flight; windows and buckets | create a key, report success or failure; authorize, configure, check and record | one outcome per key; places and buckets are exact |
| `scholarship-reviews`, `-eligibility` | rubrics, reviews; rules, attestations | publish, review, rank; attest, revoke, evaluate | comparable scores, a consistent ranking, decisions on live evidence |
| `certificates` | certificates, nonces, roles and proposals | mint, revoke, propose, accept | a proof mints once; roles change only by an open proposal |
| `scholarship-migration` | runs with cursors, records, reports | begin, map, report, seal, archive | counts are exact however runs are interrupted, repeated or rehearsed |
| `token`, `common` (vesting) | balances, allowances, royalty, admin; grants | transfer, approve, transfer from; grant, claim, revoke | no token is made or lost; a grant pays once |

Interactions: settlement, events and webhooks share one contract and its admin;
a delivery refers to an event that the sweep may remove; an off-chain relay sits
between the webhook half's view `delivery_payload` and its `record_delivery`.
`mentorship-slots` reads schedules from the availability contract its admin
names. The token contract that `escrow`, the vaults and the deposits call is
external. Awards, milestones,
disbursements and settlement follow each other in the backend's payment
procedure but share no storage; the same holds for programs, applications and
decisions.

## 2. Modules

| module | models | notes |
|---|---|---|
| `Storage` | Soroban's typed maps | a map is a function whose domain is the keys present; `Sum(f, n)` totals a quantity over records numbered from 1 |
| `Escrow` | `contracts/escrow` | token transfers are `Moved`; `TokenTransfer` stands for transfers made outside the contract; `paid` is a history variable |
| `Outbox` | the two halves of `scholarship-outbox` that refer to each other: events, and deliveries to webhooks | |
| `OutboxRelay` | the relay beside the outbox | read the payload, sign and send, report: separate steps; external |
| `Awards`, `Milestones`, `Disbursements`, `Settlement` | the contracts of those names (settlement: part of `scholarship-outbox`) | |
| `Payouts` | their composition | see below |
| `ProgramBudgets`, `Applications`, `ReviewerPool`, `Decisions` | `scholarship-programs`, the two halves of `scholarship-applications`, `scholarship-decisions` | `held` in `ProgramBudgets` is a history variable |
| `Selection` | their composition | see below |
| `Scheduling`, `Slots`, `Calendar`, `Cohorts`, `Seats` | `mentorship-scheduling`, `-slots` with `-availability`, `-calendar`, `-cohorts`, `-contracts` | `Slots` holds the availability contract too, which the slots contract calls in its own transaction |
| `Sessions` | their composition | |
| `Admissions`, `Intake` | the two contracts in `mentorship-applications` | |
| `Matching`, `Agreements`, `Conduct`, `Engagements`, `Rematch`, `AgreementExport` | `mentorship-matching`, `-agreements`, `-conduct`, `mentorship`, `-rematch`, `-agreement-export` | |
| `Mentorships` | the composition of these eight | |
| `Licensing`, `LibraryAccounts` | `library_licensing`; `library-fines`, `-deposits` and `-physical` | a signature is a key and a payload |
| `Finance`, `Treasury` | `scholarship-finance`; `escrow-vault`, `royalty-splits` and `payment` | `accrued` in `Treasury` is a history variable |
| `Guards`, `Screening` | `scholarship-idempotency`, `-rate-limits` and `-migration`; `-eligibility` and `-reviews` | |
| `Certificates`, `Tokens` | `certificates`; `token` and `common/vesting.rs` | `mintedBy`, `vestingPaid` are history variables |
| `Platform` | the composition of these eight | every input is a constant of `Platform` |
| `SumTheorems`, `EscrowProofs`, `OutboxProofs`, `PayoutsProofs`, `SelectionProofs`, `SessionsProofs`, `MentorshipsProofs`, `PlatformProofs` | – | proofs, one module per specification proved about, and what they share about sums, folds and least numbers |

Correspondence. A storage key of the source is a variable (the comment beside
each VARIABLE names the `DataKey`), an entry point is an action of the same name
in camel case, its `caller` or signer is a parameter, the arguments are taken
from small sets that include values the code must refuse (zero amounts, stale
versions, zero hashes, out-of-range quorums). Helpers keep their source names
(`ComputeFee`, `AssertTransitionAllowed`, `ReserveBudget`, `BuildMilestones`).
`require_auth` is the choice of the parameter: only the signer can pass himself.
Storage TTLs are not modelled: the code extends them on each write, and archived
Soroban entries are restored, not lost. Events published to the ledger are left
out. Definitions named `Fault…` stand beside the definition they would replace;
they are plausible mistakes used to confirm that each property notices one, and
no specification uses them.

`Payouts`, `Selection`, `Sessions`, `Mentorships` and `Platform` put contracts
together that share nothing but the clock and an admin nobody can change. Steps of two of them commute, so an interleaving
of all would multiply states and show nothing new; the variable `focus`, chosen
initially, says which of the contracts (of a large one, which part) a behaviour
exercises, and one run covers each of them in full. The clock stands still for
contracts that never read it. The properties of a composition are conjunctions
of properties stated, with their comments, in the modules of its parts.

## 3. Runs

| run | configuration | states | what it shows |
|---|---|---|---|
| `escrow` | `EscrowMC.cfg` | 871,074 | two escrows of one token, through funding, partial and full release, dispute, resolution, refund, fee withdrawal, reconfiguration, expiry and outside transfers: `Solvency`, `Conservation`, `FeeNeverExceedsPayout`, `BuyerCanAlwaysExit`, `LifecycleFollowsMap` |
| `escrow_completed` | `EscrowCompleted.cfg` | violation | an arbiter may allocate less than the escrow holds; the rest has no owner, against `types.rs` |
| `outbox` | `Outbox.cfg` | 208,570 | events and deliveries together: `BacklogExact`, `OneEventPerKey`, `HistoryIsWindow`, `RetryCountsExact`, `AcksAreMonotone` |
| `outbox_epoch` | `OutboxRelay.cfg` | violation | a rotation between signing and reporting makes the record name a generation that did not sign |
| `payouts` | `Payouts.cfg` | 269,743 | `ReservationsExact`, `PaidUnderAgreement`, `ScheduleConserves`, `ReleasesFreezePlan`, `PaidToProvenWallet`, `VerdictsSound`, `VerdictsSticky` |
| `disbursement_hold` | `DisbursementHold.cfg` | violation | returning to a wallet and proving it again does not lift the hold on its intents, against the contract's document |
| `selection` | `Selection.cfg` | 545,092 | `BudgetsExact`, `OnePendingExport`, `RequestsSettleOnce`, `LoadsExact`, `OutcomeTraceable`, `DecisionsFinal` |
| `removed_members` | `RemovedMembers.cfg` | violation | a vote cast before its member was removed still makes up the quorum, against the document and the comment of `remove_member` |
| `sessions` | `Sessions.cfg` | 284,522 | `TypeOK` (stored weeks and imported calendars are canonical, too), `NoDoubleBooking` (sessions and slots, through any agreement and whatever was booked between a proposal and its approval; offered slots are bookable), `SeatsExact` (counters of cohorts and program seats, and the waitlist), `InTurn` (answers, syncs, promotions and versions in order) |
| `agreements` | `Mentorships.cfg` | 705,681 | `CountersExact`, `OneOfAKind`, `TakesEffectByConsent`, `AgreedStands` over the eight contracts of a mentorship |
| `guardian` | `Guardian.cfg` | violation | a pause approved after the guardian revoked makes the terminated engagement active again, against the comments of the contract |
| `platform` | `Platform.cfg` | 253,214 | `AddsUp`, `NothingUsedTwice`, `SettledStands` over the eight parts of `Platform` |

The five violations are disagreements between the code and what the repository
says of it; `findings` quotes both sides. `escrow_completed` is the one that
concerns funds: the unallocated remainder stays in the contract with no entry
point that pays it out. `Conservation` is therefore stated with an inequality for
completed escrows, and `Solvency` with an inequality for the balance.

A property of a composition has one mutant of record in `PROJECT.json`. The
other conjuncts have a `Fault…` operator in the module that states them; each of
these, put in the place of its definition, makes TLC report the conjunct under
the same configuration (for example `FaultPassOn` of `Seats` breaks
`FirstComeFirstServed`, `FaultIsTracked` of `Guards` breaks `MigrationExact`,
`FaultCredit` of `Tokens` breaks `SupplyConserved`).

Some behaviour the models show is surprising but contradicts nothing the
repository says, so it is a hazard and not a finding: two amendments, each valid
alone, can leave an agreement that starts after it ends; a refund of a course
payment leaves the instructor's share credited; a correction approved after an
erasure puts the erased answers back; a vesting claim before the end gives up
what has not vested.

To repeat a run: `tlc -config EscrowMC.cfg Escrow`.

### Bounds

Every bound is a constant marked `bound:` in its module, or a limit of the code
(`MAX_…`) given a small value so that it is reached.

- *Escrow*: two escrows are the least that can spend each other's tokens.
  Deposits of 3 leave room for two partial releases (of 1 and 2) before the end.
  At the rate 5000 (the cap of the code) the fee of amount 2 is 1 and that of
  amount 1 rounds to 0; at the default rate 100 every fee rounds to 0.
  `MaxI128 = 5000`, so u128 ends at 10001 and the checked product
  `amount * fee_bps` does not fit for the whole deposit of 3 but fits for its
  parts, which is the numeric edge `BuyerCanAlwaysExit` is about. Expiration 1
  with clock 0..1 has both sides of the deadline. Outside transfers of 5 happen
  once an account has been paid, also while an escrow is open. The theorems lift
  these bounds.
- *Outbox*: two events, backlog limit 2, history of 2 with 3 attempts (so that a
  record is evicted), two secret epochs, sweeps of 2. Two deduplication keys let
  a retry come after its event was pruned. Topics and keys are interchangeable.
- *Payouts*: two awards and recipients in one program compete for pointer and
  counter; schedules of up to three milestones with shares that do not divide
  the total (3333/3334/6667 of 1 and 10); two wallets, three wallet epochs and
  two challenges, so that a recipient can leave a wallet and return with a
  challenge left open; two tracked settlements of three ids, so that an id is
  archived and used again.
- *Selection*: two applicants for a budget of one award; a committee of two
  (chair and judge), quorum 1, periods of 1 on a clock 0..2, so that claims and
  lapses meet at the deadline and an appeal has a voter who took no part. Two
  applicants with up to two privacy requests and two exports; one version of
  form and terms and one deadline (an application never looks at terms again
  after submission, so a second version adds no behaviour of the properties).
  Two reviewers, two applications, all pools of length at most 2 with
  repetitions, offsets at the largest u64 (3).
- *Sessions*: one mentor and two mentees, two agreements and sessions and one
  proposal, starts that touch and overlap, clock 1..3; days of four units with
  overlapping weekly windows, one participant's clock put back by one unit
  during the day, an exception of each kind and a blackout; two bookings; two
  calendar connections under three epochs; cohorts and programs of capacity 1
  and 2 for two and three people. Mentees, ids and the people who book slots are
  interchangeable.
- *Mentorships*: one mentor, one mentee and one more person, clock 1..2, two ids
  of each kind and limits of 1 or 2, so that every limit is reached, a second
  request meets the first, and an expiry falls between two steps. A person may
  be mentor and mentee of one engagement, as the code allows.
- *Platform*: two people, one program and asset, clock 1..3; one licence with two
  works and proofs; caps, ledgers and tables of 1 to 3 entries; manifests that
  round, repeat a recipient or do not add up; fees in each basis; rubrics of one
  and two criteria; a royalty that rounds and one of the whole; grants that vest
  at once, in part and after a cliff. Works, proofs and idempotency keys are
  interchangeable.

### Deadlock and fairness

`escrow` and `outbox` are checked for deadlock; the five compositions are not,
because contracts whose records are all closed, at the bounds of the instance,
have nothing left to do. No specification assumes fairness: nothing in the code obliges
anyone to call it, and no contract has a scheduler. What would be a liveness
property elsewhere is stated as a safety property about what is *possible*:
`BuyerCanAlwaysExit` says that in every state with a funded escrow the buyer has
an enabled call that gets money out.

## 4. Proofs

`tlapm` checks every theorem below to the last leaf. Each states, for every value
of the constants, a property that a run checks on a small instance.

| module | theorems | property |
|---|---|---|
| `EscrowProofs` | `TypeCorrect`, `EscrowSolvent`, `EscrowConserves`, `FeesBounded`, `EscrowLifecycle` | `TypeOK`, `Solvency`, `Conservation`, `FeeNeverExceedsPayout`, `LifecycleFollowsMap`; `EveryClaimCovered` draws from solvency that any one escrow can be paid in full |
| `OutboxProofs` | `OutboxTypeCorrect`, `OutboxBacklog`, `OutboxDeduplicates`, `OutboxHistory`, `OutboxRetries`, `OutboxAcknowledgements` | `TypeOK`, `BacklogExact`, `OneEventPerKey`, `HistoryIsWindow`, `RetryCountsExact`, `AcksAreMonotone` |
| `PayoutsProofs` | `PayoutsTypeCorrect`, `PayoutsReservations`, `PayoutsUnderAgreement`, `PayoutsConserve`, `PayoutsProvenWallet`, `PayoutsVerdicts`, `PayoutsVerdictsSticky`, `PayoutsFreeze` | `TypeOK`, `ReservationsExact`, `PaidUnderAgreement`, `ScheduleConserves`, `PaidToProvenWallet`, `VerdictsSound`, `VerdictsSticky`, `ReleasesFreezePlan` |
| `SelectionProofs` | `SelectionTypeCorrect`, `SelectionBudgets`, `SelectionExports`, `SelectionLoads`, `SelectionOutcomes`, `SelectionRequests`, `SelectionFinal` | `TypeOK`, `BudgetsExact`, `OnePendingExport`, `LoadsExact`, `OutcomeTraceable`, `RequestsSettleOnce`, `DecisionsFinal` |
| `SessionsProofs` | `SessionsTypeOK`, `SessionsNoDoubleBooking`, `SessionsSeatsExact`, `SessionsInTurn` | `TypeOK` with `CanonicalWeek` and `CanonicalBusy`, `NoDoubleBooking`, `SeatsExact`, `InTurn` |
| `MentorshipsProofs` | `MentorshipsTyped`, `MentorshipsCounted`, `MentorshipsOneOfAKind`, `MentorshipsByConsent`, `MentorshipsAgreedStands` (from `MentorshipsInvariant`) | `TypeOK`, `CountersExact`, `OneOfAKind`, `TakesEffectByConsent`, `AgreedStands` |
| `PlatformProofs` | `PlatformNothingUsedTwice`, `PlatformSettledStands` (from `PlatformInvariant`), `PlatformAddsUp` | `NothingUsedTwice`, `SettledStands`, `AddsUp` |
| `SumTheorems` | lemmas only | sums over numbers and over finite sets, under adding, changing, removing and grouping; folds over lists; least and greatest numbers |

*Assumptions.* `EscrowConstants`, `OutboxEventsConstants` with
`OutboxWebhooksConstants`, `PayoutsConstants`, `SelectionConstants` and, for
`Sessions`, `SchedulingConstants`, `SlotsConstants`, `PlacesConstants` and
`WindowsConstants`, and for `Mentorships` `MatchConstants`, `RecordConstants` and `ApplicationConstants`, and for
`Platform` `PlatformConstants`, say what the contracts' interfaces guarantee: amounts are integers (i128, so also
negative), times and counts are naturals (u64, u32), bounds are naturals, and the
escrow contract is none of the accounts that sign. `PlatformConstants` also says that
the fee bases and network costs are finitely many, which a record of u32 and i128
fields is; `RefundsAddUp` needs it to speak of the highest fee. TLC evaluates all of
them on every run.

*Shape of an argument.* An invariant is proved inductive once, `Init` and one
lemma per operation, and every theorem about the specification follows from it.
For a composition the invariant is the conjunction of one invariant per contract;
a call of one contract leaves the others' variables alone, which is one
stuttering lemma each. An action property follows from the same lemmas, which
conclude the invariant in the next state together with the step formula
(`SettleStep`, `FinalStep`, `VerdictStep`, `ReleasedStep`).

*Escrow.* Solvency is not inductive by itself: that a release takes no more from
the balance than the escrow's `amount` falls by needs the fee to be a natural
number below the amount, hence the cap on `feeBps`, hence `TypeOK`. `FeeBound`
shows that a truncated fee under the cap is at most half of the amount;
`LockedUpdate` (with `SumUpdate`) says how the sum over all escrows changes when
one record does, and `SolvencyStep` compares that with the movement of the
balance and of the fee pool. Transfers by others can only add to the balance,
because the contract never signs them. `Conservation` is inductive with the
strengthening `Conserved`: an escrow that still holds tokens has paid the buyer
nothing and holds the rest of the deposit, and a settled one holds nothing.

*Outbox.* `EventsInv` fixes the shape of the stores: the stored events are exactly
the ids from the prune floor to the next id, every key names an id that was handed
out, also after its event was pruned, and the pending counter is the number of
unpublished events. `WebhooksInv` is stated per endpoint over its own entries
(`Typed`, `Window`, `Counts`, `Acks`): the retained history is an interval of
sequence numbers ending at the last one, its secret epochs never decrease, the
attempt of a record is the retry counter less the later records of its event, and
no record beyond the acknowledged sequence is acknowledged. The attempts per event
sum to the last sequence, which is why `SumTheorems` is needed here too.

*Payouts.* Awards: there are finitely many, the reserved flag says whether one is
live, and an offered award has no acceptance; only then is a program's counter a
cardinality that changes by one. Milestones: what is released is a verified prefix
of the schedule, and every milestone has at least its rounded share while together
they make the total. Disbursements: `PaidToProvenWallet` is inductive with the
types. Settlement: the table is finite, its size and the alerts are exact, and a
verdict agrees with the one observation it was reached from.

*Selection.* Programs: nothing is held where no inventory is configured.
Reviewers: the search of `assign_reviewer` returns a member of the pool that has
room. Intake: a pending export's pair is in the domain of the pointers, and an
erasure's replacement is blank. Decisions: while an appeal is open the outcome is
still the one it is directed against, hence no award, hence no reservation in the
way of the one its resolution makes; the votes are finite, so that tallies are
numbers and `OutcomeWins` can show that `decide_outcome` is the documented tie
policy. The counters are products, so `SpentArithmetic` isolates the only
non-linear step.

*Sessions.* Scheduling: `NoDoubleBooking` is inductive with the types and with
`OneOpenProposal`. Both writers of a session's time (`book_session`,
`approve_reschedule`) check it against the parties' other sessions, and the check
is symmetric (`ApartSymmetric`); an approval finds the pointer at its own
proposal, so removing the pointer leaves no other proposal of the session that
can be answered. Slots: that active bookings never overlap is inductive; that
what `find_slots` offers can be booked holds in every state, because the
availability computed over the long search range agrees, on a candidate's
instants, with the availability `book_slot` computes over the candidate alone
(`AvailableInstant`, `AvailableAlone`). Cohorts and seats: a counter is the
cardinality of a finite set which each call changes by one member. For seats,
`CountsOK` and `QueueOK` speak of any record, queue and store and not only of
the stored ones, because one call of `configure_program` promotes many:
`PromotedAll` is an induction over the number of promotions, and its conclusion,
`Promoted`, also says who was promoted, a prefix of the queue, which is what
`InTurn` needs. A seat given back under automatic promotion is taken at once or
nobody waited (`GivenBack`). Calendars: epochs of the stored connections are
numbers. Versions: those of one agreement name the parties of the first.

`SessionsTypeOK` contains what the two normalizations do, for lists of any length.
`FoldExists` (in `SumTheorems`) shows that a fold over a finite set exists, so that
`MergeSteps`, `SortSteps` and `BusySteps` can speak of it step by step; then an
induction over the steps carries the invariant of the loop. A week (`NormalizedWeek`):
the windows so far are apart, they cover the time of the windows read, and the last
one starts no later than the window read last. A calendar (`NormalizedBusy`): the
selection sort keeps the windows and, after i swaps, each of the first i starts no
later than all behind it (`SortedWindows`); on the sorted list the merge is the same
argument. That the active sessions of a day stay within the limit (`DaysInv`) holds
although the limit of a program may be lowered below what is booked, because each
booking compares all of a participant's sessions of the day with a limit that is at
most `MAX_SESSIONS_PER_DAY`.

*Mentorships.* `MentorshipsInv` is one invariant per contract, and
`OneContractMoves` says that a step is one of a single contract or of the clock
while the others stutter. What had to be added to make each inductive:

- matching: proposals are numbered without gaps, the index of a pair names a
  proposal of that pair and every open proposal is indexed, one in force has both
  approvals. Then a new proposal first expires the only open one of its pair
  (`LapsedSettled`), each call moves at most one proposal into or out of the
  waiting ones (`WaitingEnters`, `WaitingLeaves`, where the saturating decrement
  is shown exact), and a coordinator's log grows by the version it wrote
  (`LogGrows`, `VersionAdded`);
- agreements: agreements are numbered from 1, an acceptance carries a nonce its
  signer has used, and an approved amendment has both approvals before it is
  activated; an amendment's change is a function on some of the terms, so that
  applying it keeps their type;
- conduct: the latest policy of a role is the last of the list that applies to
  it, and an engagement's recorded versions are policies of the list, accepted
  where mandatory; policies are only appended and retired, so this survives them;
- engagements: a pause request names a party, which is why nobody approves their own;
- admissions: a reapplication is registered under the attempt it follows, so that
  no attempt is followed twice;
- intake: drafts are keyed by applicant and program, and a review that was assigned
  or decided has an audit trail. The order of the queue is no invariant of its own:
  `queue_entry_before` compares arrival numbers last, and these differ (`QueueOrdered`);
- rematch: a live request is about an active match, a superseded match and its
  successor name each other, and every number of the statistics is the cardinality
  of a finite set;
- export: the stored window starts at or before now and the count lies between
  the grants after that instant and the grants from it on. The equality one would
  expect is false: a policy with a shorter window resets the count at the instant
  of an earlier grant. TLC shows the counterexample with policies of two lengths,
  and `QuotaExact` states both bounds.

*Platform.* `PlatformInv` again has one invariant per contract, and `OnePartMoves`
says that a step is one of a single part or of the clock.

- licenses: licenses, grants, sessions and copies are numbered from 1, so that a new
  one never takes the place of one under a revoked license; everything derived names
  a record that exists and ends no later than it does, and the grants are as many as
  the proofs used. A revocation cuts because `is_grant_active`, which every writer of
  a session or copy passes, reads the license and not only the grant (`LicenseStands`);
- fines and damage: debts are numbers, so that a waiver only lowers one, and reports
  are numbered, so that a new report never stands where a resolved one stood;
- guards: a counter, or none, is the number of the keys in flight; a bucket that
  exists was used, which is why only the first call in a window takes a place;
- migration: runs are numbered and nothing is reported under the number of a run to
  come. The sum of what the runs mapped grows with the one rewritten run
  (`RunRewritten`, with `SumUpdate`) exactly when a record is added, and a run has
  mapped and reported no more than the positions it has passed because each call
  moves its cursor forward by at least one;
- certificates: the token ids handed out are those below the next one, every minted
  nonce is used, and at most one proposal per role is stored, so that the one taken up
  is the one whose expiry was checked (`ProposalTaken`);
- eligibility: a rule with as many criteria as places has no criterion in two places
  (`CountedRuleWellFormed`, from the cardinality of a union).

`PlatformAddsUp` rests on `SumsInv`, one invariant per ledger, and on `OneBookMoves`.
The sums of the model are folds over finite sets, and the prover cannot instantiate
a fold's operator; so `SumTheorems` shows, by induction on the cardinality, that
`SumFunctionOnSet` is the value at the whole set of the one function that takes each
subset to its sum (`SumsExist`, `SumsAgree`). What a call does to a sum is then one
change of one entry (`SetSumChange`), and each ledger needs what makes its entries
change one at a time:

- vaults and deposits: the tokens held are the sum over what is pending or locked, a
  vault's approvals are the cardinality of its voters, and what left a vault or a
  deposit left its record in the same call;
- payments: tokens held and shares refunded are the earnings and the fees. Royalties:
  per asset, the shares credited are what was distributed less what was withdrawn; a
  distribution gives the last position of the manifest what rounding left of the amount,
  and a recipient listed twice gets both (`SetSumGroup`);
- fines: the debt of a loan is the sum of its fines, where a waiver lowers both. The
  fine ledger: a reference is used once and a settlement posts what its state says
  (`SettledOnce`, `RefsOnce`), so that balances follow from the settlements as well as
  from the entries;
- the scholarship ledger: balances are the sums of the entries by kind and every entry
  carries the balance after it; what was refunded and recovered per program is the sum
  of its returns, and no fee exceeds its share (`FeeShare`), because the fee in force is
  one of finitely many valid ones;
- tokens and vesting: a transfer changes up to three balances, some of which may be the
  same one, and leaves the sum; a grant that was not claimed has paid nothing, and what
  has vested is at most its amount (`ShareOfWhole`);
- seats: an institution's total counts the allocations in force and so covers the one
  taken back, hence the saturating subtraction is exact; the list of entitlements has
  no pair twice, hence removing its first occurrence removes it (`WithoutDistinct`);
- reviews: a stored review fits the rubric version it was submitted under, which is never
  replaced, and a weighted mean of scores within their maxima lies within the scale
  (`WeightedWithin`, `DivWithin`), so that scores compare.

`SumTheorems` derives what it needs from the least-number principle for sets of
naturals, because no installed prover instantiates an induction scheme with an
operator parameter.

*Only model-checked.* `BuyerCanAlwaysExit` (it contains ENABLED, which the prover
does not handle); `TypeOK` of `Platform`; and the five violations, which are
refutations. No liveness is claimed anywhere.

## 5. Not modelled

`components` lists every part with its reason. In short:

- Contracts whose source does not compile at this commit (a merge left two
  versions interleaved) in such a way that it is not clear which text is meant:
  `chv_token`, `course_registry`, `library-rights`, `mentor-profiles`,
  `mentorship-types`, `mentorship-core` with `-capacity`, `reward`, `staking`,
  `scholarship-discovery-notifications`, `scholarship-disbursement-enhancements`,
  `scholarship-admin`. There is no program to be faithful to.
- Five more files do not build as they stand, although each of their contracts is
  complete: `mentorship-applications` and `library-fines` hold two contracts with
  clashing names, `library_licensing` and `scholarship-finance` declare types
  twice, `token` repeats an error code. They are modelled as written.
- `scholarship-review-workflow` and `scholarship-communications` ask for the
  signature of the contract's own address in every user operation, so that
  nothing is reachable after `initialize`.
- `chainverse-core` (an escrow of the shape of `escrow`) and `payout-automation`
  (one call over a list, on top of `payment`).
- Role tables, registries, audit logs and directories where each call sets one
  entry and nothing relates two of them; type crates; test harnesses; deployment
  scripts.
- Within modelled contracts: `upgrade` (it replaces the code), TTLs, ledger
  events, hashes that are stored and never read.
- The token contract, ed25519 verification and the relay are external and
  modelled by how the contracts use them.

## 6. Plan

What is left, in this order:

1. *Abstract specifications*: a custody ledger (deposits, payouts, fees) that
   `Escrow` and the vaults of `Treasury` implement; a reservation ledger that
   `Awards`, `Decisions` and `ProgramBudgets` implement; mutual acceptance, that
   `Matching` and `Agreements` implement.
2. *Proofs*: `SupplyConserved` of `Tokens` and `VaultsBacked` of `Treasury`, which
   need their totals restated over numbered records; the refinements of item 1.
3. *Components*: `chainverse-core`, the remaining operations of the contracts
   marked `partly`, and the contracts of the previous section once they build.

------------------------------- MODULE Escrow -------------------------------
(***************************************************************************)
(* The two-party token escrow of contracts/escrow.                         *)
(*                                                                         *)
(* A buyer creates an escrow for a seller, funds it, and then releases it  *)
(* (in whole or in parts) before the expiration, takes it back after the   *)
(* expiration, or disputes it and leaves it to the arbiter.  The contract  *)
(* holds the tokens of every escrow, and the fees it has collected, in one *)
(* balance per token.                                                      *)
(*                                                                         *)
(* Every entry point is one transaction: it either runs to its end or the  *)
(* host rolls it back, so an action is one successful call and a refused   *)
(* call is a stuttering step.  The interleaving of calls by different      *)
(* accounts, and of calls with the ledger's clock, is Next.                *)
(***************************************************************************)
EXTENDS Integers, Sequences, FiniteSets, Storage

CONSTANTS
    Accounts,        \* addresses that can sign a transaction
    Contract,        \* the escrow contract's own address
    Tokens,          \* token contracts
    Officers,        \* addresses that are appointed admin or arbiter
    NoAddress,       \* an unset Option<Address>
    Deposits,        \* amounts buyers pass to create_escrow (i128)
    Amounts,         \* amounts callers pass to the other operations (i128)
    Expirations,     \* expirations callers pass (u64)
    FeeRates,        \* rates the admin passes to set_protocol_fee_bps (u32)
    ExternalAmounts, \* amounts moved by token transfers made outside the contract
    Supply,          \* what every account holds of every token at the start
    MaxI128,         \* largest i128; u128 is 2 * MaxI128 + 1
    MaxEscrows,      \* bound: escrows created
    MaxTime          \* bound: ledger timestamp

ASSUME EscrowConstants ==
    /\ Contract \notin Accounts
    /\ Officers \subseteq Accounts
    /\ NoAddress \notin Accounts \cup {Contract}
    /\ Deposits \subseteq Int /\ Amounts \subseteq Int
    /\ Expirations \subseteq Nat
    /\ FeeRates \subseteq Nat
    /\ ExternalAmounts \subseteq Nat
    /\ Supply \in Nat
    /\ MaxI128 \in Nat
    /\ MaxEscrows \in Nat
    /\ MaxTime \in Nat

VARIABLES
    now,        \* env.ledger().timestamp()
    admin,      \* DataKey::Admin
    arbiter,    \* DataKey::Arbiter
    whitelist,  \* the tokens with DataKey::WhitelistedToken
    feeBps,     \* DataKey::ProtocolFeeBps, the default when unset
    escrows,    \* DataKey::Escrow(1..EscrowCount)
    fees,       \* DataKey::ProtocolFees
    volume,     \* DataKey::TotalVolume
    feeHistory, \* DataKey::FeeHistory
    index,      \* DataKey::TokenIndex, BuyerIndex and SellerIndex
    bal,        \* balances kept by the token contracts
    paid        \* history: what each escrow has paid out, to whom

config == <<admin, arbiter, whitelist, feeBps>>
vars == <<now, config, escrows, fees, volume, feeHistory, index, bal, paid>>

Holders == Accounts \cup {Contract}
Ids == 1..Len(escrows)

MAX_FEE_BPS == 5000
DEFAULT_PROTOCOL_FEE_BPS == 100

EscrowStatus == {"Created", "Funded", "Completed", "Cancelled", "Disputed"}

EscrowRecord ==
    [buyer : Accounts, seller : Holders, token : Tokens, amount : Nat,
     original_amount : Nat, status : EscrowStatus, expiration : Nat]

FeeRecord == [escrow_id : Nat, token : Tokens, amount : Nat, timestamp : Nat]

NothingPaid == [buyer |-> 0, seller |-> 0, fee |-> 0]

Book(p, b, s, f) == [buyer |-> p.buyer + b, seller |-> p.seller + s, fee |-> p.fee + f]

\* save_escrow with a new status and remaining amount.
SaveEscrow(id, status, amount) ==
    escrows' = [escrows EXCEPT ![id] = [@ EXCEPT !.status = status, !.amount = amount]]

-----------------------------------------------------------------------------
(* The token contract: transfer either moves the amount or fails. *)

Covers(t, from, n) == bal[t][from] >= n

Moved(b, t, from, to, n) ==
    LET debited == [b EXCEPT ![t][from] = @ - n]
    IN  [debited EXCEPT ![t][to] = @ + n]

-----------------------------------------------------------------------------
(* Helpers of storage.rs, release.rs and escrow_state.rs *)

RequireAdminAddr(caller) == admin # NoAddress /\ caller = admin

AuthorizeReleaser(caller, e) == caller = e.buyer \/ RequireAdminAddr(caller)

AssertTransitionAllowed(from, to) ==
    CASE from = "Created"  -> to \in {"Funded", "Cancelled"}
      [] from = "Funded"   -> to \in {"Completed", "Cancelled", "Disputed"}
      [] from = "Disputed" -> to \in {"Completed", "Cancelled"}
      [] OTHER             -> FALSE

\* The checked_mul of compute_fee_and_payout, on u128.
FeeRepresentable(amount, bps) == amount * bps <= 2 * MaxI128 + 1

\* Fault: the fee is rounded up.
FaultComputeFee(amount, bps) == (amount * bps + 9999) \div 10000
ComputeFee(amount, bps) == (amount * bps) \div 10000

Expired(e) == now >= e.expiration

\* Fault: the refund window opens one second late.
FaultRefundDue(e) == now > e.expiration
RefundDue(e) == now >= e.expiration

\* Fault: only a second deposit is refused.
FaultFundable(e) == e.status # "Funded"
Fundable(e) == e.status = "Created"

Releasable(e) == e.status = "Funded"

\* Fault: the accrued fees are not consulted.
FaultFeesCover(t, n) == TRUE
FeesCover(t, n) == n <= fees[t]

\* Fault: the resolution fee is left out of the bound.
FaultAllocationBounded(e, b, s, f) ==
    /\ b >= 0 /\ s >= 0 /\ f >= 0
    /\ b + s <= e.amount

AllocationBounded(e, b, s, f) ==
    /\ b >= 0 /\ s >= 0 /\ f >= 0
    /\ b + s + f <= e.amount

AppendFeeRecord(id, fee) ==
    feeHistory' = Append(feeHistory,
        [escrow_id |-> id, token |-> escrows[id].token, amount |-> fee,
         timestamp |-> now])

AppendToIndices(id, e) ==
    index' = [index EXCEPT !.token[e.token] = Append(@, id),
                           !.buyer[e.buyer] = Append(@, id),
                           !.seller[e.seller] = Append(@, id)]

Init ==
    /\ now = 0
    /\ admin = NoAddress
    /\ arbiter = NoAddress
    /\ whitelist = {}
    /\ feeBps = DEFAULT_PROTOCOL_FEE_BPS
    /\ escrows = <<>>
    /\ fees = [t \in Tokens |-> 0]
    /\ volume = 0
    /\ feeHistory = <<>>
    /\ index = [token  |-> [t \in Tokens |-> <<>>],
                buyer  |-> [a \in Accounts |-> <<>>],
                seller |-> [a \in Holders |-> <<>>]]
    /\ bal = [t \in Tokens |-> [a \in Holders |-> IF a = Contract THEN 0 ELSE Supply]]
    /\ paid = <<>>

-----------------------------------------------------------------------------
(* Configuration *)

SetAdmin(signer, new) ==
    /\ signer = IF admin = NoAddress THEN new ELSE admin
    /\ admin' = new
    /\ UNCHANGED <<now, arbiter, whitelist, feeBps, escrows, fees, volume,
                   feeHistory, index, bal, paid>>

WhitelistToken(caller, t) ==
    /\ RequireAdminAddr(caller)
    /\ whitelist' = whitelist \cup {t}
    /\ UNCHANGED <<now, admin, arbiter, feeBps, escrows, fees, volume,
                   feeHistory, index, bal, paid>>

SetArbiter(caller, new) ==
    /\ RequireAdminAddr(caller)
    /\ arbiter' = new
    /\ UNCHANGED <<now, admin, whitelist, feeBps, escrows, fees, volume,
                   feeHistory, index, bal, paid>>

SetProtocolFeeBps(caller, bps) ==
    /\ RequireAdminAddr(caller)
    /\ bps <= MAX_FEE_BPS
    /\ feeBps' = bps
    /\ UNCHANGED <<now, admin, arbiter, whitelist, escrows, fees, volume,
                   feeHistory, index, bal, paid>>

WithdrawFees(caller, t, recipient, n) ==
    /\ RequireAdminAddr(caller)
    /\ n > 0
    /\ FeesCover(t, n)
    /\ Covers(t, Contract, n)
    /\ bal' = Moved(bal, t, Contract, recipient, n)
    /\ fees' = [fees EXCEPT ![t] = @ - n]
    /\ UNCHANGED <<now, config, escrows, volume, feeHistory, index, paid>>

-----------------------------------------------------------------------------
(* The life of an escrow *)

CreateEscrow(buyer, seller, t, n, exp) ==
    /\ Len(escrows) < MaxEscrows
    /\ n > 0
    /\ exp > now
    /\ buyer # seller
    /\ t \in whitelist
    /\ LET e == [buyer |-> buyer, seller |-> seller, token |-> t, amount |-> n,
                 original_amount |-> n, status |-> "Created", expiration |-> exp]
       IN  /\ escrows' = Append(escrows, e)
           /\ AppendToIndices(Len(escrows) + 1, e)
    /\ paid' = Append(paid, NothingPaid)
    /\ UNCHANGED <<now, config, fees, volume, feeHistory, bal>>

FundEscrow(caller, id) ==
    LET e == escrows[id] IN
    /\ caller = e.buyer
    /\ Fundable(e)
    /\ ~Expired(e)
    /\ Covers(e.token, e.buyer, e.amount)
    /\ volume + e.amount <= MaxI128
    /\ bal' = Moved(bal, e.token, e.buyer, Contract, e.amount)
    /\ SaveEscrow(id, "Funded", e.amount)
    /\ volume' = volume + e.amount
    /\ UNCHANGED <<now, config, fees, feeHistory, index, paid>>

\* Both releases pay the seller net of the fee and keep the fee in the contract.
PaySeller(id, n) ==
    LET e   == escrows[id]
        fee == ComputeFee(n, feeBps)
    IN  /\ FeeRepresentable(n, feeBps)
        /\ Covers(e.token, Contract, n - fee)
        /\ bal' = Moved(bal, e.token, Contract, e.seller, n - fee)
        /\ fees' = [fees EXCEPT ![e.token] = @ + fee]
        /\ AppendFeeRecord(id, fee)
        /\ paid' = [paid EXCEPT ![id] = Book(@, 0, n - fee, fee)]

ReleaseEscrow(caller, id) ==
    LET e == escrows[id] IN
    /\ AuthorizeReleaser(caller, e)
    /\ ~Expired(e)
    /\ Releasable(e)
    /\ PaySeller(id, e.amount)
    /\ SaveEscrow(id, "Completed", 0)
    /\ UNCHANGED <<now, config, volume, index>>

PartialRelease(caller, id, n) ==
    LET e == escrows[id] IN
    /\ n > 0
    /\ Releasable(e)
    /\ AuthorizeReleaser(caller, e)
    /\ ~Expired(e)
    /\ n <= e.amount
    /\ PaySeller(id, n)
    /\ SaveEscrow(id, IF n = e.amount THEN "Completed" ELSE "Funded", e.amount - n)
    /\ UNCHANGED <<now, config, volume, index>>

Dispute(caller, id) ==
    LET e == escrows[id] IN
    /\ caller = e.buyer
    /\ e.status = "Funded"
    /\ AssertTransitionAllowed(e.status, "Disputed")
    /\ SaveEscrow(id, "Disputed", e.amount)
    /\ UNCHANGED <<now, config, fees, volume, feeHistory, index, bal, paid>>

RefundEscrow(caller, id) ==
    LET e == escrows[id] IN
    /\ caller = e.buyer
    /\ e.status = "Funded"
    /\ RefundDue(e)
    /\ Covers(e.token, Contract, e.amount)
    /\ AssertTransitionAllowed(e.status, "Cancelled")
    /\ bal' = Moved(bal, e.token, Contract, e.buyer, e.amount)
    /\ SaveEscrow(id, "Cancelled", 0)
    /\ paid' = [paid EXCEPT ![id] = Book(@, e.amount, 0, 0)]
    /\ UNCHANGED <<now, config, fees, volume, feeHistory, index>>

ResolveDispute(caller, id, b, s, f) ==
    LET e == escrows[id] IN
    /\ arbiter # NoAddress
    /\ caller = arbiter
    /\ e.status = "Disputed"
    /\ AssertTransitionAllowed(e.status, "Completed")
    /\ AllocationBounded(e, b, s, f)
    /\ Covers(e.token, Contract, b + s)
    /\ bal' = Moved(Moved(bal, e.token, Contract, e.buyer, b),
                    e.token, Contract, e.seller, s)
    /\ fees' = [fees EXCEPT ![e.token] = @ + f]
    /\ SaveEscrow(id, "Completed", 0)
    /\ paid' = [paid EXCEPT ![id] = Book(@, b, s, f)]
    /\ UNCHANGED <<now, config, volume, feeHistory, index>>

-----------------------------------------------------------------------------
(* The environment: other transfers of the same tokens, and the clock. *)

TokenTransfer(t, from, to, n) ==
    /\ from # to
    /\ Covers(t, from, n)
    /\ bal' = Moved(bal, t, from, to, n)
    /\ UNCHANGED <<now, config, escrows, fees, volume, feeHistory, index, paid>>

AdvanceTime ==
    /\ now < MaxTime
    /\ now' = now + 1
    /\ UNCHANGED <<config, escrows, fees, volume, feeHistory, index, bal, paid>>

Configure ==
    \E caller \in Accounts :
        \/ \E new \in Officers : SetAdmin(caller, new)
        \/ \E t \in Tokens : WhitelistToken(caller, t)
        \/ \E new \in Officers : SetArbiter(caller, new)
        \/ \E bps \in FeeRates : SetProtocolFeeBps(caller, bps)
        \/ \E t \in Tokens, r \in Holders, n \in Amounts : WithdrawFees(caller, t, r, n)

Operate ==
    \E caller \in Accounts :
        \/ \E s \in Holders, t \in Tokens, n \in Deposits, exp \in Expirations :
               CreateEscrow(caller, s, t, n, exp)
        \/ \E id \in Ids :
               \/ FundEscrow(caller, id)
               \/ ReleaseEscrow(caller, id)
               \/ \E n \in Amounts : PartialRelease(caller, id, n)
               \/ Dispute(caller, id)
               \/ RefundEscrow(caller, id)
               \/ \E b, s, f \in Amounts : ResolveDispute(caller, id, b, s, f)

Next ==
    \/ Configure
    \/ Operate
    \/ \E t \in Tokens, from \in Accounts, to \in Holders, n \in ExternalAmounts :
           TokenTransfer(t, from, to, n)
    \/ AdvanceTime

Spec == Init /\ [][Next]_vars
-----------------------------------------------------------------------------
(* Properties *)

Indices == [token : [Tokens -> Seq(Nat)], buyer : [Accounts -> Seq(Nat)],
            seller : [Holders -> Seq(Nat)]]

\* Every variable stays in its type; in particular the stored fee rate never
\* exceeds the cap of set_protocol_fee_bps, and there is one payout history per
\* escrow.
TypeOK ==
    /\ now \in Nat
    /\ admin \in Accounts \cup {NoAddress}
    /\ arbiter \in Accounts \cup {NoAddress}
    /\ whitelist \subseteq Tokens
    /\ feeBps \in 0..MAX_FEE_BPS
    /\ escrows \in Seq(EscrowRecord)
    /\ fees \in [Tokens -> Nat]
    /\ volume \in 0..MaxI128
    /\ feeHistory \in Seq(FeeRecord)
    /\ index \in Indices
    /\ bal \in [Tokens -> [Holders -> Nat]]
    /\ paid \in Seq([buyer : Nat, seller : Nat, fee : Nat])
    /\ Len(paid) = Len(escrows)

IsLocked(e) == e.status \in {"Funded", "Disputed"}

\* What an escrow still holds of token t inside the contract's balance.
LockedIn(t, e) == IF e.token = t /\ IsLocked(e) THEN e.amount ELSE 0

Locked(t) == [i \in Ids |-> LockedIn(t, escrows[i])]

\* The contract's balance of each token covers everything it still owes in that
\* token: the remaining amount of every funded or disputed escrow and the fees
\* not yet withdrawn.  Hence a release, refund, resolution or fee withdrawal is
\* never refused by the token contract for want of funds, and withdraw_fees
\* (lib.rs) never takes principal.
Solvency ==
    \A t \in Tokens : bal[t][Contract] >= Sum(Locked(t), Len(escrows)) + fees[t]

PaidOut(i) == paid[i].buyer + paid[i].seller + paid[i].fee

\* Per escrow, what fund_escrow took in is what the releases, the refund and the
\* resolution have paid out plus what is still locked: nothing is paid before the
\* deposit or twice, and nothing is left once the escrow is closed -- except that
\* an arbiter may allocate less than the escrow holds.
Conservation ==
    \A i \in Ids :
        LET e == escrows[i] IN
        /\ e.status = "Created" => e.amount = e.original_amount /\ PaidOut(i) = 0
        /\ IsLocked(e) => /\ e.amount > 0
                          /\ e.amount + PaidOut(i) = e.original_amount
                          /\ paid[i].buyer = 0
        /\ e.status = "Cancelled" => e.amount = 0 /\ PaidOut(i) = e.original_amount
        /\ e.status = "Completed" => e.amount = 0 /\ PaidOut(i) <= e.original_amount

\* Whatever the admin does to the fee rate between two partial releases, an
\* escrow that the arbiter has not closed has paid its seller at least as much as
\* it has paid in fees (the 50% cap survives truncation and rate changes).
FeeNeverExceedsPayout ==
    \A i \in Ids : escrows[i].status # "Completed" => paid[i].fee <= paid[i].seller

\* No instant exists at which a funded escrow is stuck: its buyer can always pay
\* some of it out or take it back by himself.  The windows of release (before the
\* expiration) and refund (from the expiration on) meet without a gap, and when
\* the fee product of the whole amount does not fit u128 (release.rs) a smaller
\* partial release still does.
BuyerCanAlwaysExit ==
    \A i \in Ids : escrows[i].status = "Funded" =>
        LET buyer == escrows[i].buyer IN
        \/ ENABLED ReleaseEscrow(buyer, i)
        \/ ENABLED RefundEscrow(buyer, i)
        \/ ENABLED (\E n \in Amounts : PartialRelease(buyer, i, n))

\* Every status change any call makes is one the transition map of
\* escrow_state.rs allows -- fund_escrow, release_escrow and partial_release
\* write the status without consulting it.  The terms never change, and once an
\* escrow is completed or cancelled no later call of anyone reopens it or moves
\* tokens on its account.
LifecycleStep ==
    \A i \in Ids :
        LET e == escrows[i]
            f == escrows'[i]
        IN  /\ e.status # f.status => AssertTransitionAllowed(e.status, f.status)
            /\ <<e.buyer, e.seller, e.token, e.original_amount, e.expiration>>
                 = <<f.buyer, f.seller, f.token, f.original_amount, f.expiration>>
            /\ e.status \in {"Completed", "Cancelled"} => e = f /\ paid'[i] = paid[i]

\* No behaviour of the contract contains another step.
LifecycleFollowsMap == [][LifecycleStep]_vars

\* types.rs says of Completed "Funds fully released": everything the buyer
\* deposited has been paid to someone or booked as a fee.
CompletedFullyReleased ==
    \A i \in Ids : escrows[i].status = "Completed" =>
        PaidOut(i) = escrows[i].original_amount
=============================================================================

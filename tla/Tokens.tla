------------------------------- MODULE Tokens -------------------------------
(***************************************************************************)
(* contracts/token: balances, allowances that expire, a royalty taken from *)
(* every transfer, a pause and an admin handed over in two steps; and      *)
(* contracts/common/vesting.rs: grants that vest with the clock, are       *)
(* claimed once and can be revoked.                                        *)
(*                                                                         *)
(* The model starts after initialize and init.  migrate_balances copies    *)
(* balances an earlier version kept elsewhere; a fresh deployment has none *)
(* and the call then writes nothing.                                       *)
(***************************************************************************)
EXTENDS Integers, FiniteSets, Functions, Storage

CONSTANTS
    Admin, Holders,
    MAX_SUPPLY, Supply,          \* the total supply initialize was called with
    TokenAmounts,                \* what callers pass, zero included
    Spenders,                    \* who draws on allowances
    ApprovalInputs,              \* the <<owner, spender, amount, expires_at>> approved
    Candidates,                  \* who may become the admin
    Never,                       \* None
    RoyaltyInputs,               \* the <<recipient, bps>> the admin sets
    VestingInputs,               \* the <<amount, start, cliff, duration>> granted
    RevokeDelays, MinRevokeDelay,
    VestingFunds,                \* tokens the vesting contract is given
    MaxVestings                  \* bound: grants made

VARIABLES
    now,
    paused, tokenAdmin, pendingAdmin, \* DataKey::Paused, Admin, PendingAdmin
    royalty,       \* DataKey::Royalty, <<>> when absent
    holdings,      \* DataKey::Balance
    allowances,    \* DataKey::Allowance: <<owner, spender>> -> allowance
    vestings,      \* "sched": id -> schedule, ids 1, 2, ...
    vestingTokens, \* tokens held by the vesting contract
    vestingPaid    \* history: id -> tokens paid for the grant

tokenVars == <<paused, tokenAdmin, pendingAdmin, royalty, holdings, allowances>>
vestingVars == <<vestings, vestingTokens, vestingPaid>>

Init ==
    /\ paused = FALSE
    /\ tokenAdmin = Admin
    /\ pendingAdmin = Never
    /\ royalty = <<>>
    /\ holdings = Set(Empty, Admin, Supply)
    /\ allowances = Empty
    /\ vestings = Empty
    /\ vestingTokens = VestingFunds
    /\ vestingPaid = Empty

-----------------------------------------------------------------------------
(* Token *)

RequireAdmin(caller) == caller = tokenAdmin

SetPaused(caller, value) ==
    /\ RequireAdmin(caller)
    /\ paused' = value
    /\ UNCHANGED <<tokenAdmin, pendingAdmin, royalty, holdings, allowances>>
Pause(caller) == SetPaused(caller, TRUE)
Unpause(caller) == SetPaused(caller, FALSE)

ProposeAdmin(caller, who) ==
    /\ RequireAdmin(caller)
    /\ pendingAdmin' = who
    /\ UNCHANGED <<paused, tokenAdmin, royalty, holdings, allowances>>

AcceptAdmin(who) ==
    /\ pendingAdmin = who
    /\ tokenAdmin' = who
    /\ pendingAdmin' = Never
    /\ UNCHANGED <<paused, royalty, holdings, allowances>>

SetRoyalty(caller, recipient, bps) ==
    /\ RequireAdmin(caller)
    /\ bps <= 10000
    /\ royalty' = <<recipient, bps>>
    /\ UNCHANGED <<paused, tokenAdmin, pendingAdmin, holdings, allowances>>

Balance(who) == Get(holdings, who, 0)
RoyaltyOf(amount) == IF royalty = <<>> THEN 0 ELSE (amount * royalty[2]) \div 10000

\* Fault: the receiver gets the proceeds, also when the royalty is its own.
FaultCredit(to, amount) == amount - RoyaltyOf(amount)
Credit(to, amount) ==
    IF royalty # <<>> /\ royalty[1] = to THEN amount ELSE amount - RoyaltyOf(amount)

\* The three balances are written one after the other, each read after the write before.
ApplyTransfer(from, to, amount) ==
    LET moved == Set(Set(holdings, from, Balance(from) - amount), to,
                     Balance(to) + Credit(to, amount))
    IN  /\ amount > 0 /\ amount <= MAX_SUPPLY
        /\ from # to
        /\ Balance(from) >= amount
        /\ holdings' = IF RoyaltyOf(amount) > 0 /\ royalty[1] # to
                       THEN Set(moved, royalty[1], Get(moved, royalty[1], 0) + RoyaltyOf(amount))
                       ELSE moved
        /\ UNCHANGED <<paused, tokenAdmin, pendingAdmin, royalty>>

Transfer(from, to, amount) ==
    /\ ~paused
    /\ ApplyTransfer(from, to, amount)
    /\ UNCHANGED allowances

Approve(owner, spender, amount, ends) ==
    /\ amount > 0 /\ amount <= MAX_SUPPLY
    /\ allowances' = Set(allowances, <<owner, spender>>, [amount |-> amount, ends |-> ends])
    /\ UNCHANGED <<paused, tokenAdmin, pendingAdmin, royalty, holdings>>

RevokeAllowance(owner, spender) ==
    /\ Has(allowances, <<owner, spender>>)
    /\ allowances' = Remove(allowances, {<<owner, spender>>})
    /\ UNCHANGED <<paused, tokenAdmin, pendingAdmin, royalty, holdings>>

\* A spent allowance is removed.
Spend(key, amount) ==
    IF allowances[key].amount = amount THEN Remove(allowances, {key})
    ELSE [allowances EXCEPT ![key].amount = @ - amount]

TransferFrom(spender, from, to, amount) ==
    LET key == <<from, spender>> IN
    /\ ~paused
    /\ Has(allowances, key)
    /\ allowances[key].ends # Never => now <= allowances[key].ends
    /\ allowances[key].amount >= amount
    /\ ApplyTransfer(from, to, amount)
    /\ allowances' = Spend(key, amount)

TokenNext ==
    \/ \E caller \in Holders :
           \/ Pause(caller)
           \/ Unpause(caller)
           \/ \E who \in Candidates : ProposeAdmin(caller, who)
           \/ AcceptAdmin(caller)
           \/ \E r \in RoyaltyInputs : SetRoyalty(caller, r[1], r[2])
    \/ \E from, to \in Holders, amount \in TokenAmounts :
           \/ Transfer(from, to, amount)
           \/ \E spender \in Spenders : TransferFrom(spender, from, to, amount)
    \/ \E a \in ApprovalInputs :
           \/ Approve(a[1], a[2], a[3], a[4])
           \/ RevokeAllowance(a[1], a[2])

-----------------------------------------------------------------------------
(* Vesting *)

GrantVesting(caller, who, amount, start, cliff, duration) ==
    LET id == Cardinality(DOMAIN vestings) + 1
    IN  /\ id <= MaxVestings
        /\ caller = Admin
        /\ amount > 0
        /\ cliff <= duration
        /\ vestings' = Set(vestings, id,
               [beneficiary |-> who, amount |-> amount, start |-> start, cliff |-> cliff,
                duration |-> duration, claimed |-> FALSE, revoked |-> FALSE])
        /\ UNCHANGED <<vestingTokens, vestingPaid>>

\* Nothing before the cliff, everything at the end, and in between in proportion to the
\* time since the cliff, rounded down.
CalculateVestedAmount(v, time) ==
    CASE time < v.start + v.cliff -> 0
      [] time >= v.start + v.duration -> v.amount
      [] OTHER -> (v.amount * (time - (v.start + v.cliff))) \div (v.duration - v.cliff)

\* Fault: what was claimed or revoked can be claimed.
FaultOutstanding(v) == ~v.revoked
Outstanding(v) == ~v.claimed /\ ~v.revoked

\* A claim settles the grant: what has not vested by then is given up.
Claim(id, who) ==
    LET vested == CalculateVestedAmount(vestings[id], now) IN
    /\ Has(vestings, id)
    /\ vestings[id].beneficiary = who
    /\ Outstanding(vestings[id])
    /\ vested # 0
    /\ vestingTokens >= vested
    /\ vestings' = [vestings EXCEPT ![id].claimed = TRUE]
    /\ vestingTokens' = vestingTokens - vested
    /\ vestingPaid' = Set(vestingPaid, id, Get(vestingPaid, id, 0) + vested)

\* The caller names the delay, and it counts from the start of the grant.
Revoke(id, caller, delay) ==
    /\ caller = Admin
    /\ Has(vestings, id)
    /\ Outstanding(vestings[id])
    /\ delay >= MinRevokeDelay
    /\ now >= vestings[id].start + delay
    /\ vestings' = [vestings EXCEPT ![id].revoked = TRUE]
    /\ UNCHANGED <<vestingTokens, vestingPaid>>

VestingNext ==
    \E who \in Holders :
        \/ \E caller \in Holders, v \in VestingInputs :
               GrantVesting(caller, who, v[1], v[2], v[3], v[4])
        \/ \E id \in 1..MaxVestings :
               \/ Claim(id, who)
               \/ \E delay \in RevokeDelays : Revoke(id, who, delay)

-----------------------------------------------------------------------------
(* Properties *)

\* Every stored value stays in its type; royalties stay within the whole.
TypeOK ==
    /\ \A who \in DOMAIN holdings : holdings[who] \in 0..MAX_SUPPLY
    /\ \A key \in DOMAIN allowances : allowances[key].amount \in 1..MAX_SUPPLY
    /\ royalty # <<>> => royalty[2] \in 0..10000

\* No transfer makes or loses a token, whoever of sender, receiver and owner of the royalty
\* are the same: the balances are the supply.
SupplyConserved ==
    SumFunction(holdings) = Supply

\* A grant pays at most its amount, once, and never after it was revoked; the contract's
\* tokens go nowhere else.
VestingPaysOnce ==
    /\ \A id \in DOMAIN vestings :
         LET paid == Get(vestingPaid, id, 0) IN
         /\ paid <= vestings[id].amount
         /\ vestings[id].claimed <=> paid > 0
         /\ ~(vestings[id].claimed /\ vestings[id].revoked)
    /\ vestingTokens + SumFunction(vestingPaid) = VestingFunds
=============================================================================

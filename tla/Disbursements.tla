---------------------------- MODULE Disbursements ----------------------------
(***************************************************************************)
(* contracts/scholarship-disbursements: recipients bind a payout wallet    *)
(* and prove that they control it by answering a challenge; creators make  *)
(* one payment intent per installment and record its execution.            *)
(*                                                                         *)
(* An intent's key is a hash of program, recipient and installment; the    *)
(* hash is collision free, so the key is the tuple itself (one program).   *)
(* A signature over a challenge is valid when it was made with the key     *)
(* that is passed along; who can make it is outside the contract.  The     *)
(* model starts after initialize.                                          *)
(***************************************************************************)
EXTENDS Integers, Sequences, FiniteSets, Storage

CONSTANTS
    Admin,           \* the address stored by initialize
    Creators,        \* addresses the admin may put on the allow list
    Recipients, Wallets,
    PublicKeys,      \* ed25519 keys wallets register
    Installments,    \* installment numbers (u32)
    PaymentAmounts,  \* amounts creators pass (i128)
    Ttls,            \* challenge lifetimes recipients pass (u64)
    MAX_CHALLENGE_TTL_SECONDS, \* lifetime bound of the code
    MaxTime,         \* bound: ledger timestamp
    MaxChallenges,   \* bound: challenges opened
    MaxWalletEpoch   \* bound: wallet changes per recipient

VARIABLES
    now,         \* env.ledger().timestamp()
    creators,    \* DataKey::Creator: the addresses allowed at present
    walletKey,   \* DataKey::WalletKey: wallet -> public key
    bindings,    \* DataKey::WalletBinding: recipient -> [wallet, verified, epoch]
    challenges,  \* DataKey::Challenge(0..ChallengeCounter-1), as a sequence
    intents,     \* DataKey::Intent: <<recipient, installment>> -> intent
    proved       \* history: <<recipient, wallet, key>> of each confirmed challenge

disbursementVars == <<creators, walletKey, bindings, challenges, intents, proved>>

IntentStatus == {"Pending", "Executed", "Cancelled"}

PayoutWallet == [wallet : Wallets, verified : BOOLEAN, epoch : Nat]
WalletChallenge == [recipient : Recipients, wallet : Wallets, expires_at : Nat, used : BOOLEAN]
DisbursementIntent == [wallet : Wallets, amount : Nat, wallet_epoch : Nat, status : IntentStatus]

RequireAdmin(caller) == caller = Admin

RequireCreatorOrAdmin(caller) == caller = Admin \/ caller \in creators

Init ==
    /\ creators = {}
    /\ walletKey = Empty
    /\ bindings = Empty
    /\ challenges = <<>>
    /\ intents = Empty
    /\ proved = {}

AddCreator(caller, c) ==
    /\ RequireAdmin(caller)
    /\ creators' = creators \cup {c}
    /\ UNCHANGED <<walletKey, bindings, challenges, intents, proved>>

RemoveCreator(caller, c) ==
    /\ RequireAdmin(caller)
    /\ creators' = creators \ {c}
    /\ UNCHANGED <<walletKey, bindings, challenges, intents, proved>>

RegisterWalletKey(w, key) ==
    /\ walletKey' = Set(walletKey, w, key)
    /\ UNCHANGED <<creators, bindings, challenges, intents, proved>>

EpochOf(r) == IF Has(bindings, r) THEN bindings[r].epoch ELSE 0

SetPayoutWallet(r, w) ==
    /\ EpochOf(r) < MaxWalletEpoch
    /\ bindings' = Set(bindings, r,
           [wallet |-> w, verified |-> FALSE, epoch |-> EpochOf(r) + 1])
    /\ UNCHANGED <<creators, walletKey, challenges, intents, proved>>

OpenWalletChallenge(r, w, ttl) ==
    /\ ttl \in 1..MAX_CHALLENGE_TTL_SECONDS
    /\ Has(bindings, r)
    /\ bindings[r].wallet = w
    /\ Len(challenges) < MaxChallenges
    /\ challenges' = Append(challenges,
           [recipient |-> r, wallet |-> w, expires_at |-> now + ttl, used |-> FALSE])
    /\ UNCHANGED <<creators, walletKey, bindings, intents, proved>>

\* Fault: the challenge is not compared with the wallet bound by now.
FaultAnswersBinding(c) == Has(bindings, c.recipient)
AnswersBinding(c) == Has(bindings, c.recipient) /\ bindings[c.recipient].wallet = c.wallet

ConfirmWalletChallenge(i, key) ==
    LET c == challenges[i] IN
    /\ ~c.used
    /\ now < c.expires_at
    /\ AnswersBinding(c)
    /\ Has(walletKey, c.wallet)
    /\ walletKey[c.wallet] = key
    /\ challenges' = [challenges EXCEPT ![i].used = TRUE]
    /\ bindings' = [bindings EXCEPT ![c.recipient].verified = TRUE]
    /\ proved' = proved \cup {<<c.recipient, c.wallet, key>>}
    /\ UNCHANGED <<creators, walletKey, intents>>

\* A repeated call with the same terms returns the existing intent; other terms
\* for a key that is taken are a conflict.
CreateIntent(caller, r, n, amount) ==
    /\ RequireCreatorOrAdmin(caller)
    /\ amount > 0
    /\ Has(bindings, r)
    /\ ~Has(intents, <<r, n>>)
    /\ intents' = Set(intents, <<r, n>>,
           [wallet |-> bindings[r].wallet, amount |-> amount,
            wallet_epoch |-> bindings[r].epoch, status |-> "Pending"])
    /\ UNCHANGED <<creators, walletKey, bindings, challenges, proved>>

IsIntentExecutable(k) ==
    LET b == bindings[k[1]] IN
    /\ intents[k].status = "Pending"
    /\ b.verified
    /\ b.epoch = intents[k].wallet_epoch
    /\ b.wallet = intents[k].wallet

RecordExecution(caller, k) ==
    /\ RequireCreatorOrAdmin(caller)
    /\ intents[k].status = "Pending"
    /\ IsIntentExecutable(k)
    /\ intents' = [intents EXCEPT ![k].status = "Executed"]
    /\ UNCHANGED <<creators, walletKey, bindings, challenges, proved>>

CancelIntent(caller, k) ==
    /\ RequireCreatorOrAdmin(caller)
    /\ intents[k].status = "Pending"
    /\ intents' = [intents EXCEPT ![k].status = "Cancelled"]
    /\ UNCHANGED <<creators, walletKey, bindings, challenges, proved>>

Next ==
    \/ \E caller \in Creators \cup {Admin} :
           \/ \E c \in Creators : AddCreator(caller, c) \/ RemoveCreator(caller, c)
           \/ \E r \in Recipients, n \in Installments, amount \in PaymentAmounts :
                  CreateIntent(caller, r, n, amount)
           \/ \E k \in DOMAIN intents : RecordExecution(caller, k) \/ CancelIntent(caller, k)
    \/ \E w \in Wallets, key \in PublicKeys : RegisterWalletKey(w, key)
    \/ \E r \in Recipients, w \in Wallets :
           \/ SetPayoutWallet(r, w)
           \/ \E ttl \in Ttls : OpenWalletChallenge(r, w, ttl)
    \/ \E i \in DOMAIN challenges, key \in PublicKeys : ConfirmWalletChallenge(i, key)

AdvanceTime == now < MaxTime /\ now' = now + 1 /\ UNCHANGED disbursementVars

Spec ==
    /\ now = 0 /\ Init
    /\ [][(Next /\ UNCHANGED now) \/ AdvanceTime]_<<now, disbursementVars>>

-----------------------------------------------------------------------------
(* Properties *)

\* Every stored value stays in its type: an intent's recipient has a bound wallet.
TypeOK ==
    /\ now \in Nat
    /\ creators \subseteq Creators
    /\ DOMAIN walletKey \subseteq Wallets
    /\ \A w \in DOMAIN walletKey : walletKey[w] \in PublicKeys
    /\ DOMAIN bindings \subseteq Recipients
    /\ \A r \in DOMAIN bindings : bindings[r] \in PayoutWallet
    /\ challenges \in Seq(WalletChallenge)
    /\ DOMAIN intents \subseteq Recipients \X Installments
    /\ \A k \in DOMAIN intents : intents[k] \in DisbursementIntent /\ k[1] \in DOMAIN bindings

Proven(r, w) == \E key \in PublicKeys : <<r, w, key>> \in proved

\* Money only goes to a wallet whose key holder answered a challenge for that
\* recipient: every executed intent, and every binding that counts as verified,
\* names a wallet that was proven -- whatever challenges were left open across
\* wallet changes.  And an intent of the current epoch always names the current
\* wallet, so the hold a wallet change puts on older intents cannot be lifted by
\* binding another wallet (confirm_wallet_challenge, record_execution).
PaidToProvenWallet ==
    /\ \A r \in DOMAIN bindings : bindings[r].verified => Proven(r, bindings[r].wallet)
    /\ \A k \in DOMAIN intents :
         /\ intents[k].status = "Executed" => Proven(k[1], intents[k].wallet)
         /\ intents[k].wallet_epoch <= bindings[k[1]].epoch
         /\ intents[k].wallet_epoch = bindings[k[1]].epoch =>
                intents[k].wallet = bindings[k[1]].wallet

\* docs/scholarship-disbursements.md says of the intents of an older epoch that
\* they are "permanently on hold ... unless the recipient signs a proof for that
\* same wallet again": a pending intent whose wallet is bound and verified is
\* executable.
ProofLiftsHold ==
    \A k \in DOMAIN intents :
        /\ intents[k].status = "Pending"
        /\ bindings[k[1]].wallet = intents[k].wallet
        /\ bindings[k[1]].verified
        => IsIntentExecutable(k)
=============================================================================

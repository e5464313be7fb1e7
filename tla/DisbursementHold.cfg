\* One recipient who binds a wallet, changes it and binds and proves it again.
CONSTANTS
    Admin = admin
    Creators = {cleo}
    Recipients = {ann}
    Wallets = {w1, w2}
    PublicKeys = {k1}
    Installments = {0}
    PaymentAmounts = {1}
    Ttls = {1}
    MAX_CHALLENGE_TTL_SECONDS = 1
    MaxTime = 2
    MaxChallenges = 2
    MaxWalletEpoch = 3
SPECIFICATION Spec
INVARIANTS
    ProofLiftsHold

\* The relay of one endpoint, with a secret rotation between signing and reporting.
CONSTANTS
    Accounts = {operator, sponsor}
    Operators = {operator}
    Consumers = {sponsor}
    Sponsors = {sponsor}
    NoAddress = none
    Topics = {awarded, paid}
    DedupKeys = {k1, k2}
    MAX_PENDING_EVENTS = 2
    MAX_PRUNE_PER_CALL = 2
    MaxTime = 2
    Commitments = {zero, hash}
    ZeroCommitment = zero
    Expiries = {2, 3}
    Outcomes = {"Delivered", "Skipped"}
    MAX_ENDPOINTS = 1
    MAX_ENDPOINT_TOPICS = 1
    MAX_DELIVERY_HISTORY = 2
    MaxSequence = 3
    MaxEpoch = 2
    NoDigest = nothing
    MAX_SIGNATURE_TTL = 2
SPECIFICATION RelaySpec
INVARIANTS
    EpochIsTheSigners

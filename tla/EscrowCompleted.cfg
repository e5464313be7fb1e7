\* What the status Completed promises about the deposit.
CONSTANTS
    Accounts = {alice, bob}
    Contract = contract
    Tokens = {usdc}
    Officers = {bob}
    NoAddress = none
    Deposits = {0, 3}
    Amounts = {0, 1, 2}
    Expirations = {1}
    FeeRates = {5000}
    ExternalAmounts = {3}
    Supply = 3
    MaxI128 = 5000
    MaxEscrows = 1
    MaxTime = 1
SPECIFICATION Spec
INVARIANT CompletedFullyReleased

\* Two escrows of one token sharing the contract's balance.
CONSTANTS
    Accounts = {alice, bob}
    Contract = contract
    Tokens = {usdc}
    Officers = {bob}
    NoAddress = none
    Deposits = {0, 3}
    Amounts = {0, 1, 2}
    Expirations = {1}
    FeeRates = {5000}
    ExternalAmounts = {5}
    Supply = 3
    MaxI128 = 5000
    MaxEscrows = 2
    MaxTime = 1
SPECIFICATION Spec
INVARIANTS
    TypeOK
    Solvency
    Conservation
    
    BuyerCanAlwaysExit
PROPERTIES
    LifecycleFollowsMap

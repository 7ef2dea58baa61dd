\* Two orders, native or ERC20, and three governance calls: an ERC20 order needs
\* two of them, and the third can pause the contract, delist the token, suspend the
\* seller or leave it without an owner while the order is live.
SPECIFICATION FairSpec
CONSTANTS
    Buyers = {alice}
    OrderIds = {id1, id2}
    Sellers = {carol}
    Owners = {admin1}
    Signers = {key1}
    Payouts = {hot}
    Treasuries = {fees1}
    Native = eth
    Tokens = {usdc}
    Amounts = {2}
    Fees = {1, 2}
    Expiries = {0}
    Windows = {1}
    Lifetime = 1
    Drift = 1
    Gift = 1
    MaxTime = 2
    MaxChanges = 3
INVARIANTS TypeOK LedgerIsExact Solvent OneExit
PROPERTIES KeepsCustody AlwaysAWayOut
CHECK_DEADLOCK FALSE

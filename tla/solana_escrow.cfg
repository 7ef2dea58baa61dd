CONSTANTS
    Buyers = {alice}
    Sellers = {carol}
    OrderIds = {id1, id2}
    Admins = {admin1, admin2}
    Authorities = {key1}
    Payouts = {hot, cold}
    Treasuries = {fees1, fees2}
    Mints = {usdc}
    Amounts = {2}
    Fees = {1, 2}
    Expiries = {1}
    Windows = {1}
    Lifetime = 1
    Gift = 1
    MaxTime = 2
    MaxChanges = 4
    Absent = Absent
SPECIFICATION FairSpec
INVARIANTS TypeOK VaultBacksOrder OneExit
PROPERTIES KeepsCustody AlwaysAWayOut
CHECK_DEADLOCK FALSE

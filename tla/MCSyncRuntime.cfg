CONSTANTS
    v1 = v1  v2 = v2  a1 = a1  a2 = a2  t1 = t1  t2 = t2  t3 = t3
    SessionVault <- ThereAndBack
    Vaults <- MCVaults
    Accounts <- MCAccounts
    Threads <- MCThreads
    MaxCommands = 4
    None = None
SYMMETRY ThreadsAndAccounts
SPECIFICATION Spec
INVARIANTS
    MarkerHasAnOwner
    BoundAccountIsUsed
    StoreIsOpenOnce
CHECK_DEADLOCK FALSE

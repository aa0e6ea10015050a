CONSTANTS
    v1 = v1  v2 = v2  n1 = n1  n2 = n2
    Vaults <- MCVaults
    Notes <- MCNotes
    Revs = {0, 1}
    FirstRev = 0
    MaxSessions = 2
    None = None
    MaxEdits = 2
    MaxWrites = 1
    MaxReads = 2
SPECIFICATION Spec
PROPERTY TypedTextIsKept
CHECK_DEADLOCK FALSE

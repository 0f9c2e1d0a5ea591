\* Two restores at once, the store never failing to commit.
SPECIFICATION Spec
CONSTANTS
    r1 = r1
    r2 = r2
    r3 = r3
    NoUser = NoUser
    Users = {r1, r2}
    MAX_TRY_TIMES = 2
    CommitLeaves = {}
INVARIANTS
    AutoRollback
CHECK_DEADLOCK FALSE

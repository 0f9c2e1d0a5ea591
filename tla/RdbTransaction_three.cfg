\* Three restores at once, transactions of any length, any call failing.
SPECIFICATION FairSpec
CONSTANTS
    r1 = r1
    r2 = r2
    r3 = r3
    NoUser = NoUser
    Users = {r1, r2, r3}
    MAX_TRY_TIMES = 2
    CommitLeaves = {"open"}
INVARIANTS
    TypeOK
    ErrorMeansNoRows
PROPERTIES
    OneAtATime
    Serial
    BatchInsertReturns
\* Every restore ends.
CHECK_DEADLOCK FALSE

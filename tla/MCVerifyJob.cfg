CONSTANTS
    Threads = {t1, t2}
    Files = {1, 2, 3, 4, 5, 6, 7, 8, 9}
    About <- AllSorts
    Times = {c1, c2}
    MaxJobs = 3
    NoFile = NoFile
SYMMETRY Same
SPECIFICATION Spec
INVARIANTS PassMeansVerified MismatchIsReal NothingKept
CHECK_DEADLOCK FALSE

\* Three workers leasing two handles: a caller whose unlocked size test
\* sees an empty list while the pool is up gets NULL, and the accounting
\* and the refinement must hold across that path too.  The run stops once a caller crashes
\* after DestroyPool(), which is the process exiting: no deadlock check.
CONSTANTS
    Callers = {c1, c2, c3}
    Handles = {h1, h2}
    NULL <- MCNull
SPECIFICATION PoolSpec
CHECK_DEADLOCK FALSE
INVARIANT PoolTypeOK
INVARIANT HandleAccounting
INVARIANT ReserveMatchesList
PROPERTY HandlePoolRefined

\* A unique username column and INSERTs that fail only on a duplicate key.
CONSTANTS
    Workers = {w1, w2}
    Names = {"alice", "bob"}
    Passwords = {"p1", "p2"}
    NONE <- MCNone
    InitialTable <- MCTable
    DbUnique = TRUE
    DbMayFail = FALSE
SPECIFICATION Spec
INVARIANT RegistryTypeOK
 

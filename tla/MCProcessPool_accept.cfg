\* Two children, two clients that may connect before the parent waits.
CONSTANTS
    N = 2
    MaxConns = 2
SPECIFICATION Spec
CHECK_DEADLOCK FALSE
PROPERTY ConnectionEventuallyAccepted

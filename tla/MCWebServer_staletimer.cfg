CONSTANTS
    Fds <- MCFds
    Outcomes <- MCOutcomes
    Workers = {w1}
    MaxRequests = 1
    MAX_FD = 1
    MaxConns = 2
    MaxClientSteps = 2
    TimeoutSlots = 3
SPECIFICATION Spec
PROPERTY TimerClosesOnlyItsConnection

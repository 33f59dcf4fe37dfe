\* One worker, four fds, MAX_FD = 3, four clients, three client steps.
CONSTANTS
    Fds <- MCFds
    Workers = {w1}
    MaxRequests = 1
    MAX_FD = 3
    MaxConns = 4
    MaxClientSteps = 3
SPECIFICATION Spec
\* The server idles in epoll_wait() once no event is pending and the clients
\* are done (connections left in the backlog raise no new edge).
CHECK_DEADLOCK FALSE
INVARIANT GetTypeOK
INVARIANT OpenSlotsCounted
INVARIANT PooledSlotKeepsOwner

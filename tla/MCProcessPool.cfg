\* Two children, two clients.  The pool idles in epoll_wait() once no
\* client or signal is left, and exits after its children: both are
\* states without a successor, so deadlock is not checked.
CONSTANTS
    N = 2
    MaxConns = 2
SPECIFICATION Spec
CHECK_DEADLOCK FALSE
INVARIANT ProcTypeOK
INVARIANT NoOrphanedChild
PROPERTY ShutdownCompletes

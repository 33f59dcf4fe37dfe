CONSTANTS
    Workers = {w1, w2}
    Requests = {r1, r2, r3}
    MaxRequests = 1
    NoRequest <- MCNoRequest
SPECIFICATION Spec
INVARIANT TPTypeOK
INVARIANT NoStrandedRequest
PROPERTY AcceptedRequestServed
PROPERTY WorkQueueRefined

---------------------------- MODULE MCThreadPool ----------------------------
(***************************************************************************)
(* The thread pool on its own: the reactor thread appends any of a few     *)
(* requests at any time, the workers take and process them.                *)
(***************************************************************************)
EXTENDS ThreadPool

CONSTANT Requests   \* the requests the reactor may append

MCNoRequest == "none"

Init == TPInit

Next ==
    \/ \E r \in Requests : AppendPush(r)
    \/ AppendRefused
    \/ AppendPost
    \/ \E w \in Workers :
          \/ Wait(w)
          \/ Take(w)
          \/ Finish(w)

(* The reactor appends when it likes, so it is not fair; the semaphore     *)
(* post that append() owes is part of a call already made, and the         *)
(* workers are OS threads that the scheduler keeps running.                *)
Spec ==
    /\ Init /\ [][Next]_tpVars
    /\ WF_tpVars(AppendPost)
    /\ \A w \in Workers : WF_tpVars(Wait(w) \/ Take(w) \/ Finish(w))

InQueue(r) == \E i \in 1..Len(workqueue) : workqueue[i] = r

(* Every request that append() accepted is eventually taken by a worker    *)
(* and processed: the pool never leaves a request behind while its         *)
(* threads sleep in wait().                                                *)
AcceptedRequestServed ==
    \A r \in Requests : InQueue(r) ~> (\E w \in Workers : request[w] = r)

WQ == INSTANCE WorkQueue WITH Items <- Requests, Capacity <- MaxRequests,
                              NoItem <- MCNoRequest,
                              queue <- workqueue, taken <- request

(* The pool implements the bounded FIFO of section 4.8: append() pushes    *)
(* only while the list holds at most m_max_requests entries, the workers   *)
(* pop in list order, each item goes to one worker, and the semaphore      *)
(* m_queuestat (posted after the unlock, waited before the lock) never    *)
(* leaves a queued item behind while a worker is free.                     *)
WorkQueueRefined == WQ!WQSpec
=============================================================================

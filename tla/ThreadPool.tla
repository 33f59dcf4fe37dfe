------------------------------ MODULE ThreadPool ------------------------------
(***************************************************************************)
(* The worker pool threadpool<T> of GET-WebServer/inc/threadpool.h, which   *)
(* both servers hand parsed-later connections to.  The reactor thread      *)
(* calls append(); m_thread_number detached threads run run().  The pool   *)
(* state is the request list m_workqueue (guarded by m_queuelocker) and    *)
(* the counting semaphore m_queuestat, posted once per appended request.   *)
(*                                                                         *)
(* The request list holds whatever the caller appends (a connection slot   *)
(* in the servers); this module is used by WebServer through INSTANCE and  *)
(* checked on its own by MCThreadPool.                                     *)
(***************************************************************************)
EXTENDS Naturals, Sequences, SequencesExt

CONSTANTS Workers,      \* the pool's threads
          MaxRequests,  \* m_max_requests
          NoRequest     \* value of request[w] while worker w holds nothing

ASSUME MaxRequests \in Nat \ {0}   \* the constructor throws otherwise

VARIABLES workqueue,  \* m_workqueue, front at index 1
          queuestat,  \* the value of semaphore m_queuestat
          wpc,        \* where each worker is in run()
          request,    \* the request a worker popped and is processing
          appender    \* "idle", or "post": append() has pushed, not yet posted

tpVars == <<workqueue, queuestat, wpc, request, appender>>

WorkerPcs == {"wait",   \* blocked in m_queuestat.wait()
              "lock",   \* woken, about to take m_queuelocker
              "run"}    \* inside request->process()

TPInit ==
    /\ workqueue = <<>>
    /\ queuestat = 0
    /\ wpc = [w \in Workers |-> "wait"]
    /\ request = [w \in Workers |-> NoRequest]
    /\ appender = "idle"

(* mutant: the bound is checked one entry later                          *)
QueueFullLate == Len(workqueue) > MaxRequests + 1

(* append() refuses when the list already holds MORE than m_max_requests   *)
(* entries, so the list can reach m_max_requests + 1.                      *)
QueueFull == Len(workqueue) > MaxRequests

(* append(): the refusing branch, taken under the lock; the caller gets    *)
(* false and the list is untouched.                                        *)
AppendRefused ==
    /\ appender = "idle"
    /\ QueueFull
    /\ UNCHANGED tpVars

(* append(): push_back under m_queuelocker, then unlock.  The post of the  *)
(* semaphore after the unlock is the separate step AppendPost.            *)
AppendPush(r) ==
    /\ appender = "idle"
    /\ ~QueueFull
    /\ workqueue' = Append(workqueue, r)
    /\ appender' = "post"
    /\ UNCHANGED <<queuestat, wpc, request>>

(* mutant: the post of m_queuestat is lost                                 *)
AppendPostLost ==
    /\ appender = "post"
    /\ appender' = "idle"
    /\ UNCHANGED <<workqueue, queuestat, wpc, request>>

(* append(): m_queuestat.post(), then return true.                         *)
AppendPost ==
    /\ appender = "post"
    /\ queuestat' = queuestat + 1
    /\ appender' = "idle"
    /\ UNCHANGED <<workqueue, wpc, request>>

(* run(): m_queuestat.wait() returns once the semaphore is positive.       *)
Wait(w) ==
    /\ wpc[w] = "wait"
    /\ queuestat > 0
    /\ queuestat' = queuestat - 1
    /\ wpc' = [wpc EXCEPT ![w] = "lock"]
    /\ UNCHANGED <<workqueue, request, appender>>

(* run(): pop the front request under the lock, unlock, and go on to       *)
(* process it (a NULL request is never appended, so that test never hits). *)
Take(w) ==
    /\ wpc[w] = "lock"
    /\ workqueue # <<>>
    /\ request' = [request EXCEPT ![w] = Head(workqueue)]
    /\ workqueue' = Tail(workqueue)
    /\ wpc' = [wpc EXCEPT ![w] = "run"]
    /\ UNCHANGED <<queuestat, appender>>

(* mutant: a worker that never comes back from process()                   *)
FinishHangs(w) ==
    /\ wpc[w] = "run"
    /\ FALSE
    /\ UNCHANGED tpVars

(* run(): request->process() returned; loop back to wait().  The caller    *)
(* conjoins what process() does to the request.                            *)
Finish(w) ==
    /\ wpc[w] = "run"
    /\ wpc' = [wpc EXCEPT ![w] = "wait"]
    /\ request' = [request EXCEPT ![w] = NoRequest]
    /\ UNCHANGED <<workqueue, queuestat, appender>>

-----------------------------------------------------------------------------
TPTypeOK ==
    /\ Len(workqueue) <= MaxRequests + 1
    /\ queuestat \in Nat
    /\ wpc \in [Workers -> WorkerPcs]
    /\ appender \in {"idle", "post"}
    /\ \A w \in Workers : (wpc[w] = "run") <=> (request[w] # NoRequest)

Woken == {w \in Workers : wpc[w] = "lock"}

(* m_queuestat counts the queued requests exactly: every queued request  *)
(* is matched by one semaphore unit, one worker woken by wait() and about *)
(* to lock, or the post append() still owes, and nothing else is.  So no  *)
(* request is stranded while all workers sleep in wait(), and the         *)
(* m_workqueue.empty() branch of run() is dead code.  This relies on      *)
(* append() posting exactly once per push and run() popping exactly once  *)
(* per wait().                                                            *)
NoStrandedRequest ==
    Len(workqueue) = queuestat + Cardinality(Woken)
                       + (IF appender = "post" THEN 1 ELSE 0)
=============================================================================

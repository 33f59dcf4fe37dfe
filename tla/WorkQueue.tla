------------------------------ MODULE WorkQueue ------------------------------
(***************************************************************************)
(* What the worker pool promises (spec, section 4.8): a shared bounded     *)
(* FIFO of work items, append() rejecting with "full" when the size        *)
(* exceeds the capacity, and a fixed group of workers each of which pops  *)
(* the front item, processes it and comes back for the next.  A queued     *)
(* item is taken as soon as a worker is free: nothing but busy workers     *)
(* keeps an item waiting.  ThreadPool implements this module under the    *)
(* mapping in MCThreadPool's WorkQueueRefined.                             *)
(***************************************************************************)
EXTENDS Naturals, Sequences

CONSTANTS Workers,   \* the fixed thread group
          Items,     \* what callers append
          Capacity,  \* the configured capacity
          NoItem     \* what a free worker holds

VARIABLES queue,     \* the FIFO, front at index 1
          taken      \* taken[w]: the item worker w is processing, or NoItem

wqVars == <<queue, taken>>

WQInit ==
    /\ queue = <<>>
    /\ taken = [w \in Workers |-> NoItem]

(* append(conn) is accepted while the size does not exceed the capacity.  *)
Enqueue(r) ==
    /\ Len(queue) <= Capacity
    /\ queue' = Append(queue, r)
    /\ UNCHANGED taken

(* A free worker pops the front item.                                     *)
Dequeue(w) ==
    /\ taken[w] = NoItem /\ queue # <<>>
    /\ taken' = [taken EXCEPT ![w] = Head(queue)]
    /\ queue' = Tail(queue)

(* conn.process() returns and the worker is free again.                   *)
Complete(w) ==
    /\ taken[w] # NoItem
    /\ taken' = [taken EXCEPT ![w] = NoItem]
    /\ UNCHANGED queue

WQNext ==
    \/ \E r \in Items : Enqueue(r)
    \/ \E w \in Workers : Dequeue(w) \/ Complete(w)

(* Some free worker takes a queued item; a worker finishes what it took. *)
WQSpec ==
    /\ WQInit /\ [][WQNext]_wqVars
    /\ WF_wqVars(\E w \in Workers : Dequeue(w))
    /\ \A w \in Workers : WF_wqVars(Complete(w))
=============================================================================

----------------------------- MODULE HandlePool -----------------------------
(***************************************************************************)
(* What the database handle pool promises (spec, sections 3 and 4.9): a    *)
(* DbHandle is owned by the pool and leased to at most one caller at a     *)
(* time; acquire() hands out a handle that is free, release() gives the    *)
(* caller's handle back, and destroy closes the handles that are free.     *)
(* Nothing else ever moves a handle.  ConnPool implements this module      *)
(* under the mapping in ConnPool's HandlePoolRefined.                      *)
(***************************************************************************)
CONSTANTS Callers, Handles, NULL

VARIABLES free,   \* the handles in the pool, not leased and not closed
          lease   \* lease[c]: the handle caller c holds, or NULL

hpVars == <<free, lease>>

HPInit ==
    /\ free = Handles
    /\ lease = [c \in Callers |-> NULL]

(* acquire(): a caller without a lease takes one free handle.             *)
Acquire(c, h) ==
    /\ lease[c] = NULL /\ h \in free
    /\ free' = free \ {h}
    /\ lease' = [lease EXCEPT ![c] = h]

(* release(h): the lease ends and its handle is free again.               *)
Release(c) ==
    /\ lease[c] # NULL
    /\ free' = free \cup {lease[c]}
    /\ lease' = [lease EXCEPT ![c] = NULL]

(* destroy: every free handle is closed; leases are not touched.          *)
Destroy ==
    /\ free' = {}
    /\ UNCHANGED lease

HPNext ==
    \/ \E c \in Callers, h \in Handles : Acquire(c, h)
    \/ \E c \in Callers : Release(c)
    \/ Destroy

HPSpec == HPInit /\ [][HPNext]_hpVars
=============================================================================

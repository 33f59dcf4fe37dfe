------------------------------ MODULE ConnPool ------------------------------
(***************************************************************************)
(* The MySQL handle pool connection_pool of                                *)
(* POST-Webserver/SimpleWebServer/src/MysqlPool/sql_connection_pool.cpp    *)
(* and its lease object connectionRAII.  The pool state is the list        *)
(* connList, the counters FreeConn and CurConn and the semaphore reserve;  *)
(* the parts under `lock' are single steps.  Callers are the worker        *)
(* threads, each of which leases a handle through connectionRAII around   *)
(* one request and gives it back when the lease ends.  DestroyPool() is   *)
(* the pool's destructor, run when the process exits while detached       *)
(* workers may still be leasing.                                           *)
(***************************************************************************)
EXTENDS Integers, Sequences, SequencesExt, FiniteSets

CONSTANTS Callers,   \* threads that lease handles
          Handles,   \* the MYSQL* handles init() opens (MaxConn of them)
          NULL       \* the null MYSQL*

ASSUME NULL \notin Handles

VARIABLES connList,  \* connList, front at index 1
          freeConn,  \* FreeConn (unsigned; see PoolTypeOK)
          curConn,   \* CurConn
          reserve,   \* value of semaphore reserve
          pc,        \* where each caller is
          held,      \* held[c]: the MYSQL* connectionRAII of c holds
          up,        \* DestroyPool() has not run
          crashed    \* a caller called front() on an empty connList

poolVars == <<connList, freeConn, curConn, reserve, pc, held, up, crashed>>

CallerPcs == {"idle",   \* holds no lease
              "wait",   \* in GetConnection(), past the size test, at reserve.wait()
              "lock",   \* past reserve.wait(), about to lock
              "use",    \* holds the lease connectionRAII returned
              "post"}   \* in ReleaseConnection(), pushed, reserve.post() to come

(* Caller c is at p in a process that has not crashed.                    *)
At(c, p) == ~crashed /\ pc[c] = p

(* init(): MaxConn handles opened and queued, FreeConn = MaxConn and       *)
(* reserve = sem(FreeConn).                                                *)
PoolInit ==
    /\ connList = SetToSeq(Handles)
    /\ freeConn = Cardinality(Handles)
    /\ curConn = 0
    /\ reserve = Cardinality(Handles)
    /\ pc = [c \in Callers |-> "idle"]
    /\ held = [c \in Callers |-> NULL]
    /\ up = TRUE
    /\ crashed = FALSE

(* GetConnection(): connList.size() read without the lock is 0, return     *)
(* NULL; connectionRAII keeps the NULL as its lease.                       *)
GetNull(c) ==
    /\ At(c, "idle") /\ connList = <<>>
    /\ pc' = [pc EXCEPT ![c] = "use"]
    /\ UNCHANGED <<connList, freeConn, curConn, reserve, held, up, crashed>>

(* GetConnection(): the unlocked size test passes.                         *)
GetCheck(c) ==
    /\ At(c, "idle") /\ connList # <<>>
    /\ pc' = [pc EXCEPT ![c] = "wait"]
    /\ UNCHANGED <<connList, freeConn, curConn, reserve, held, up, crashed>>

(* GetConnection(): reserve.wait() returns once the semaphore is positive. *)
GetWait(c) ==
    /\ At(c, "wait") /\ reserve > 0
    /\ reserve' = reserve - 1
    /\ pc' = [pc EXCEPT ![c] = "lock"]
    /\ UNCHANGED <<connList, freeConn, curConn, held, up, crashed>>

(* mutant: the handle is handed out but left in connList                   *)
TakeNoPop(c) ==
    /\ At(c, "lock") /\ connList # <<>>
    /\ held' = [held EXCEPT ![c] = Head(connList)]
    /\ freeConn' = freeConn - 1
    /\ curConn' = curConn + 1
    /\ pc' = [pc EXCEPT ![c] = "use"]
    /\ UNCHANGED <<connList, reserve, up, crashed>>

(* GetConnection(): under the lock, front(), pop_front(), --FreeConn,      *)
(* ++CurConn.                                                              *)
GetTake(c) ==
    /\ At(c, "lock") /\ connList # <<>>
    /\ held' = [held EXCEPT ![c] = Head(connList)]
    /\ connList' = Tail(connList)
    /\ freeConn' = freeConn - 1
    /\ curConn' = curConn + 1
    /\ pc' = [pc EXCEPT ![c] = "use"]
    /\ UNCHANGED <<reserve, up, crashed>>

(* GetConnection(): under the lock, front() of an empty std::list is       *)
(* undefined behaviour; the process is taken to crash.                     *)
GetTakeEmpty(c) ==
    /\ At(c, "lock") /\ connList = <<>>
    /\ crashed' = TRUE
    /\ UNCHANGED <<connList, freeConn, curConn, reserve, pc, held, up>>

(* mutant: ReleaseConnection() without its NULL test                      *)
ReleaseNullPushed(c) ==
    /\ At(c, "use") /\ held[c] = NULL
    /\ connList' = Append(connList, held[c])
    /\ freeConn' = freeConn + 1
    /\ curConn' = curConn - 1
    /\ pc' = [pc EXCEPT ![c] = "post"]
    /\ UNCHANGED <<reserve, held, up, crashed>>

(* ~connectionRAII(): ReleaseConnection(NULL) returns false at once.       *)
ReleaseNull(c) ==
    /\ At(c, "use") /\ held[c] = NULL
    /\ pc' = [pc EXCEPT ![c] = "idle"]
    /\ UNCHANGED <<connList, freeConn, curConn, reserve, held, up, crashed>>

(* mutant: ReleaseConnection() fixes the counters but drops the handle     *)
ReleaseLost(c) ==
    /\ At(c, "use") /\ held[c] # NULL
    /\ freeConn' = freeConn + 1
    /\ curConn' = curConn - 1
    /\ held' = [held EXCEPT ![c] = NULL]
    /\ pc' = [pc EXCEPT ![c] = "post"]
    /\ UNCHANGED <<connList, reserve, up, crashed>>

(* ~connectionRAII(): ReleaseConnection(con): under the lock push_back,    *)
(* ++FreeConn, --CurConn.                                                  *)
ReleasePush(c) ==
    /\ At(c, "use") /\ held[c] # NULL
    /\ connList' = Append(connList, held[c])
    /\ freeConn' = freeConn + 1
    /\ curConn' = curConn - 1
    /\ held' = [held EXCEPT ![c] = NULL]
    /\ pc' = [pc EXCEPT ![c] = "post"]
    /\ UNCHANGED <<reserve, up, crashed>>

(* mutant: ReleaseConnection() returns without posting reserve           *)
ReleasePostLost(c) ==
    /\ At(c, "post")
    /\ pc' = [pc EXCEPT ![c] = "idle"]
    /\ UNCHANGED <<connList, freeConn, curConn, reserve, held, up, crashed>>

(* ReleaseConnection(): reserve.post() after the unlock, return true.      *)
ReleasePost(c) ==
    /\ At(c, "post")
    /\ reserve' = reserve + 1
    /\ pc' = [pc EXCEPT ![c] = "idle"]
    /\ UNCHANGED <<connList, freeConn, curConn, held, up, crashed>>

(* DestroyPool() from ~connection_pool: under the lock, when connList is   *)
(* not empty, close every handle in it and clear it, CurConn = FreeConn =  *)
(* 0.  The semaphore reserve is left as it is.                             *)
DestroyPool ==
    /\ up /\ ~crashed
    /\ up' = FALSE
    /\ IF connList # <<>>
       THEN /\ connList' = <<>> /\ curConn' = 0 /\ freeConn' = 0
       ELSE UNCHANGED <<connList, curConn, freeConn>>
    /\ UNCHANGED <<reserve, pc, held, crashed>>

Caller(c) ==
    \/ GetNull(c) \/ GetCheck(c) \/ GetWait(c) \/ GetTake(c) \/ GetTakeEmpty(c)
    \/ ReleaseNull(c) \/ ReleasePush(c) \/ ReleasePost(c)

(* After a crash the process is gone: no step follows.                     *)
PoolNext ==
    \/ \E c \in Callers : Caller(c)
    \/ DestroyPool

PoolSpec == PoolInit /\ [][PoolNext]_poolVars

-----------------------------------------------------------------------------
Leased == {c \in Callers : held[c] # NULL}

(* FreeConn and CurConn are unsigned in the code: a negative value here    *)
(* stands for the wrapped one.                                             *)
PoolTypeOK ==
    /\ connList \in Seq(Handles)
    /\ freeConn \in Int /\ curConn \in Int /\ reserve \in Nat
    /\ pc \in [Callers -> CallerPcs]
    /\ held \in [Callers -> Handles \cup {NULL}]
    /\ up \in BOOLEAN /\ crashed \in BOOLEAN

(* While the pool is up, every handle is in exactly one place, in connList *)
(* once or leased to one caller, and FreeConn and CurConn count those two  *)
(* places: FreeConn + CurConn = MaxConn, as the spec states (section 8).   *)
(* GetConnection() and ReleaseConnection() move a handle and both counters *)
(* in one locked section.                                                  *)
HandleAccounting ==
    up =>
      /\ IsInjective(connList)
      /\ \A c, d \in Leased : c # d => held[c] # held[d]
      /\ \A c \in Leased : held[c] \notin ToSet(connList)
      /\ ToSet(connList) \cup {held[c] : c \in Leased} = Handles
      /\ freeConn = Len(connList) /\ curConn = Cardinality(Leased)

(* While the pool is up, the semaphore reserve counts connList exactly:    *)
(* each handle in it is matched by a unit of reserve, by a caller past     *)
(* wait() about to pop it, or by the post ReleaseConnection() still owes.  *)
(* So a caller that passes reserve.wait() always finds a handle to pop.    *)
ReserveMatchesList ==
    up =>
      Len(connList) = reserve + Cardinality({c \in Callers : pc[c] = "lock"})
                              + Cardinality({c \in Callers : pc[c] = "post"})

(* While the pool is up, a lease always holds a handle: when every handle  *)
(* is out, GetConnection() waits on reserve (section 4.9 of the spec:      *)
(* acquire() waits on a counting semaphore) rather than hand out NULL.    *)
LeaseNeverNull ==
    up => \A c \in Callers : pc[c] = "use" => held[c] # NULL

(* The pool implements HandlePool, the lease discipline of section 4.9:   *)
(* the free handles are the ones in connList and a lease is what the      *)
(* caller's connectionRAII holds.  Every step of GetConnection(),         *)
(* ReleaseConnection() and DestroyPool(), before and after DestroyPool()  *)
(* ran, is a step of HandlePool or leaves both unchanged: a handle leaves *)
(* connList only to the caller that pops it and only a lease's handle is  *)
(* pushed back.                                                           *)
HP == INSTANCE HandlePool WITH free <- ToSet(connList), lease <- held
HandlePoolRefined == HP!HPSpec

(* A caller that has passed reserve.wait() never finds connList empty:     *)
(* GetConnection()'s front() is only ever called on a non-empty list, at   *)
(* any time, DestroyPool() at exit included.                               *)
NoTakeFromEmptyList ==
    ~crashed
=============================================================================

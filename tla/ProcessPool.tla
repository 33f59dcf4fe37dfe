----------------------------- MODULE ProcessPool -----------------------------
(***************************************************************************)
(* processpool<T> of CGI-Learn/processpool.h: a parent process and         *)
(* m_process_number forked children.  The parent watches the listen        *)
(* socket (edge-triggered) and, per event, sends one int over the chosen   *)
(* child's socketpair, choosing children round-robin from                  *)
(* sub_process_counter; the child, on an (edge-triggered) event of its     *)
(* pipe end, reads one int and calls accept() once on the shared listen    *)
(* socket.  Signals reach each process's loop through its own self-pipe:   *)
(* the parent reaps children on SIGCHLD and kills them on SIGTERM, a child *)
(* stops on SIGTERM.                                                       *)
(*                                                                         *)
(* An edge-triggered event is a flag that a new arrival sets and           *)
(* epoll_wait() clears: arrivals before the process next waits make one    *)
(* event.  The connections a child serves (T::process) are not modelled.  *)
(***************************************************************************)
EXTENDS Integers, Sequences, SequencesExt

CONSTANTS N,          \* m_process_number
          MaxConns    \* clients that connect in a behaviour

ASSUME N \in 1..16 /\ MaxConns \in Nat

Children == 0..(N - 1)

VARIABLES backlog,     \* connections in the listen queue, not yet accepted
          arrived,     \* connections that have arrived so far
          listenEdge,  \* an EPOLLIN event of m_listenfd is pending in the parent
          counter,     \* sub_process_counter
          status,      \* each child: "running", "exited" (a zombie), "reaped" (m_pid == -1)
          pipe,        \* ints sent on the child's socketpair, not yet read
          pipeEdge,    \* an EPOLLIN event of the child's pipefd is pending
          childSig,    \* SIGTERM's byte is in the child's signal pipe
          childStop,   \* the child's m_stop
          chldPending, \* SIGCHLD is pending for the parent (pending signals merge)
          parentSig,   \* signal bytes in the parent's signal pipe
          termSent,    \* SIGTERM has been sent to the parent
          parentStop   \* the parent's m_stop

vars == <<backlog, arrived, listenEdge, counter, status, pipe, pipeEdge,
          childSig, childStop, chldPending, parentSig, termSent, parentStop>>

(* The constructor has forked every child; each has set up its pipes.      *)
Init ==
    /\ backlog = 0 /\ arrived = 0 /\ listenEdge = FALSE
    /\ counter = 0
    /\ status = [c \in Children |-> "running"]
    /\ pipe = [c \in Children |-> 0]
    /\ pipeEdge = [c \in Children |-> FALSE]
    /\ childSig = [c \in Children |-> FALSE]
    /\ childStop = [c \in Children |-> FALSE]
    /\ chldPending = FALSE
    /\ parentSig = <<>>
    /\ termSent = FALSE
    /\ parentStop = FALSE

(* A client connects: it joins the listen queue, and the listen socket    *)
(* becomes readable again.                                                 *)
Arrive ==
    /\ arrived < MaxConns
    /\ arrived' = arrived + 1
    /\ backlog' = backlog + 1
    /\ listenEdge' = TRUE
    /\ UNCHANGED <<counter, status, pipe, pipeEdge, childSig, childStop,
                   chldPending, parentSig, termSent, parentStop>>

(* mutant: the do-while gives up one slot before it is back at the start  *)
ScanShort(j, start) ==
    LET RECURSIVE S(_)
        S(i) == IF status[i] # "reaped" THEN i
                ELSE LET k == (i + 1) % N
                     IN IF k = start \/ (k + 1) % N = start THEN i ELSE S(k)
    IN S(j)

(* run_parent(): do { if (m_pid != -1) break; j = (j+1) % n; } while      *)
(* (j != sub_process_counter).                                             *)
Scan(j, start) ==
    LET RECURSIVE S(_)
        S(i) == IF status[i] # "reaped" THEN i
                ELSE LET k == (i + 1) % N IN IF k = start THEN i ELSE S(k)
    IN S(j)

(* mutant: the cursor is advanced without the modulo                       *)
NextCounterNoWrap(j) == j + 1

(* sub_process_counter = (j + 1) % m_process_number.                       *)
NextCounter(j) == (j + 1) % N

(* run_parent(), an event of m_listenfd: pick child j round-robin; if its *)
(* m_pid is -1 no child is left and the parent stops; otherwise advance    *)
(* the cursor and send new_conn to j.  A child that has exited but not    *)
(* been reaped has closed its end: send() fails (SIGPIPE is ignored) and  *)
(* the int is lost.                                                        *)
ParentListen ==
    /\ ~parentStop /\ listenEdge
    /\ listenEdge' = FALSE
    /\ LET j == Scan(counter, counter) IN
       IF status[j] = "reaped"
       THEN /\ parentStop' = TRUE
            /\ UNCHANGED <<counter, pipe, pipeEdge>>
       ELSE /\ counter' = NextCounter(j)
            /\ IF status[j] = "running"
               THEN /\ pipe' = [pipe EXCEPT ![j] = @ + 1]
                    /\ pipeEdge' = [pipeEdge EXCEPT ![j] = TRUE]
               ELSE UNCHANGED <<pipe, pipeEdge>>
            /\ UNCHANGED parentStop
    /\ UNCHANGED <<backlog, arrived, status, childSig, childStop, chldPending,
                   parentSig, termSent>>

(* run_child(), an event of pipefd: recv() one int (ret < 0 with EAGAIN   *)
(* also goes on), then accept() once; an empty queue makes accept() fail  *)
(* and the child goes on to its next event.                                *)
ChildPipe(c) ==
    /\ status[c] = "running" /\ pipeEdge[c]
    /\ pipeEdge' = [pipeEdge EXCEPT ![c] = FALSE]
    /\ pipe' = [pipe EXCEPT ![c] = IF @ > 0 THEN @ - 1 ELSE 0]
    /\ backlog' = IF backlog > 0 THEN backlog - 1 ELSE 0
    /\ UNCHANGED <<arrived, listenEdge, counter, status, childSig, childStop,
                   chldPending, parentSig, termSent, parentStop>>

(* run_child(), an event of its signal pipe: SIGTERM sets m_stop.         *)
ChildSignal(c) ==
    /\ status[c] = "running" /\ childSig[c]
    /\ childSig' = [childSig EXCEPT ![c] = FALSE]
    /\ childStop' = [childStop EXCEPT ![c] = TRUE]
    /\ UNCHANGED <<backlog, arrived, listenEdge, counter, status, pipe, pipeEdge,
                   chldPending, parentSig, termSent, parentStop>>

(* The child's loop sees m_stop, run_child() returns and the process       *)
(* exits; the kernel raises SIGCHLD in the parent.                         *)
ChildExit(c) ==
    /\ status[c] = "running" /\ childStop[c]
    /\ status' = [status EXCEPT ![c] = "exited"]
    /\ pipe' = [pipe EXCEPT ![c] = 0]
    /\ pipeEdge' = [pipeEdge EXCEPT ![c] = FALSE]
    /\ chldPending' = TRUE
    /\ UNCHANGED <<backlog, arrived, listenEdge, counter, childSig, childStop,
                   parentSig, termSent, parentStop>>

(* A child dies on its own (a fault in T::process()).                      *)
ChildCrash(c) ==
    /\ status[c] = "running" /\ ~childStop[c]
    /\ status' = [status EXCEPT ![c] = "exited"]
    /\ pipe' = [pipe EXCEPT ![c] = 0]
    /\ pipeEdge' = [pipeEdge EXCEPT ![c] = FALSE]
    /\ chldPending' = TRUE
    /\ UNCHANGED <<backlog, arrived, listenEdge, counter, childSig, childStop,
                   parentSig, termSent, parentStop>>

(* The parent's sig_handler(SIGCHLD) runs: one byte into its signal pipe. *)
DeliverChld ==
    /\ chldPending
    /\ chldPending' = FALSE
    /\ parentSig' = Append(parentSig, "CHLD")
    /\ UNCHANGED <<backlog, arrived, listenEdge, counter, status, pipe, pipeEdge,
                   childSig, childStop, termSent, parentStop>>

(* SIGTERM (or SIGINT) is sent to the parent; its handler writes a byte.  *)
TermParent ==
    /\ ~termSent
    /\ termSent' = TRUE
    /\ parentSig' = Append(parentSig, "TERM")
    /\ UNCHANGED <<backlog, arrived, listenEdge, counter, status, pipe, pipeEdge,
                   childSig, childStop, chldPending, parentStop>>

(* mutant: if instead of while around waitpid(): one zombie per SIGCHLD   *)
ReapOne(st) ==
    IF \E c \in Children : st[c] = "exited"
    THEN LET z == CHOOSE c \in Children : st[c] = "exited"
         IN [st EXCEPT ![z] = "reaped"]
    ELSE st

(* while (waitpid(-1, &stat, WNOHANG) > 0): every zombie is reaped, its   *)
(* pipe closed and its m_pid set to -1.                                    *)
ReapAll(st) == [c \in Children |-> IF st[c] = "exited" THEN "reaped" ELSE st[c]]

(* The parent's switch on one signal byte, over [status, stop, sig].       *)
OnSignal(s, b) ==
    IF b = "CHLD"
    THEN LET st == ReapAll(s.status)
         IN [s EXCEPT !.status = st,
                      !.stop = \A c \in Children : st[c] = "reaped"]
    ELSE [s EXCEPT !.sig = [c \in Children |->
                             s.sig[c] \/ s.status[c] = "running"]]

(* run_parent(), an event of the signal pipe: recv() every pending byte   *)
(* and handle each in turn.  SIGTERM: kill(pid, SIGTERM) for each m_pid   *)
(* != -1 (a zombie ignores it).                                            *)
ParentSignals ==
    /\ ~parentStop /\ parentSig # <<>>
    /\ LET r == FoldLeft(OnSignal, [status |-> status, stop |-> parentStop,
                                    sig |-> childSig], parentSig)
       IN /\ status' = r.status
          /\ parentStop' = r.stop
          /\ childSig' = r.sig
    /\ parentSig' = <<>>
    /\ UNCHANGED <<backlog, arrived, listenEdge, counter, pipe, pipeEdge,
                   childStop, chldPending, termSent>>

Parent == ParentListen \/ ParentSignals

Child(c) == ChildPipe(c) \/ ChildSignal(c) \/ ChildExit(c)

Next ==
    \/ Arrive \/ TermParent \/ DeliverChld \/ Parent
    \/ \E c \in Children : Child(c) \/ ChildCrash(c)

(* Each process runs its event loop and the kernel delivers pending        *)
(* signals; clients, SIGTERM and crashes owe nothing.                      *)
Fairness ==
    /\ WF_vars(ParentListen) /\ WF_vars(ParentSignals) /\ WF_vars(DeliverChld)
    /\ \A c \in Children : WF_vars(Child(c))

Spec == Init /\ [][Next]_vars /\ Fairness

-----------------------------------------------------------------------------
ProcTypeOK ==
    /\ backlog \in 0..MaxConns /\ arrived \in 0..MaxConns
    /\ counter \in Children
    /\ status \in [Children -> {"running", "exited", "reaped"}]
    /\ pipe \in [Children -> Nat]
    /\ \A c \in Children : pipeEdge[c] => pipe[c] > 0
    /\ parentSig \in Seq({"CHLD", "TERM"})

(* The parent leaves its loop only once every child has been reaped: no   *)
(* child is left running or as a zombie when the pool exits, whether the  *)
(* parent stopped on SIGCHLD or because the round-robin scan of           *)
(* m_sub_process found no child.                                           *)
NoOrphanedChild ==
    parentStop => \A c \in Children : status[c] = "reaped"

(* After SIGTERM reaches the parent, the pool shuts down: the parent      *)
(* kills every child, each child's loop stops and exits, the SIGCHLDs      *)
(* (merged or not) are reaped and the parent's loop ends.                  *)
ShutdownCompletes ==
    termSent ~> parentStop

(* Every client that connects is eventually accepted by some child, while *)
(* the pool runs (spec 4.3: the child performs accept and proceeds as the *)
(* single-process acceptor, which accepts until the queue is empty).      *)
ConnectionEventuallyAccepted ==
    backlog > 0 ~> (backlog = 0 \/ parentStop)
====

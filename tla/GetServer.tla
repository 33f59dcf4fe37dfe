------------------------------ MODULE GetServer ------------------------------
(***************************************************************************)
(* The GET server of GET-WebServer: the epoll loop of src/main.cpp, the    *)
(* http_conn slots users[fd] it hands to threadpool<http_conn> (the same   *)
(* ThreadPool module as the POST server's) and the kernel objects they     *)
(* share.  There are no timers: a connection is closed only by the reactor *)
(* (hang-up, read() or write() false) or by the worker (process_write()    *)
(* false).                                                                 *)
(*                                                                         *)
(* GET-WebServer/src/http_conn.cpp is not in the repository, only its      *)
(* header: addfd, removefd, init, close_conn, read, write and process are *)
(* taken from the design (every socket edge-triggered, connections        *)
(* one-shot; close_conn acts once, on m_sockfd != -1), and the parser is   *)
(* reduced to its outcome as in WebServer.                                 *)
(***************************************************************************)
EXTENDS Integers, Sequences, FiniteSets, FiniteSetsExt

CONSTANTS Fds,            \* fd numbers the process can give connections
          Workers,        \* the pool's threads
          MaxRequests,    \* threadpool m_max_requests
          MAX_FD,         \* refuse once http_conn::m_user_count >= MAX_FD
          MaxConns,       \* bound: connections clients open in a run
          MaxClientSteps  \* bound: sends, hang-ups and stalled writes

ASSUME /\ Fds \subseteq Nat \ {0} /\ Fds # {}
       /\ MAX_FD \in Nat /\ MaxConns \in Nat /\ MaxClientSteps \in Nat

NoConn == 0
ConnIds == 1..MaxConns
(* Bytes from a client: nothing, a fragment, or a whole request, which is *)
(* whether process_write() succeeds on it and its keep-alive flag.        *)
Chunk(k) == [kind |-> k, built |-> FALSE, linger |-> FALSE]
Nothing == Chunk("none")
Frag == Chunk("frag")
Empty == Chunk("empty")
Done == Chunk("done")
Reqs == [kind : {"req"}, built : BOOLEAN, linger : BOOLEAN]
IsReq(d) == d.kind = "req"
NoItem == [fd |-> 0, conn |-> NoConn]

VARIABLES
    clients,    \* connections clients have opened so far
    backlog,    \* connections waiting in the listen queue
    listenEv,   \* an edge-triggered EPOLLIN on listenfd is pending
    owner,      \* owner[f]: connection whose socket holds fd f, or NoConn
    inq,        \* inq[f]: bytes received by the kernel, not yet recv()'d
    hup,        \* hup[f]: the client has closed its end
    reg,        \* reg[f]: epoll interest: "none" | "off" (one-shot spent) | "in" | "out"
    buf,        \* users[f] read buffer: Empty, Frag, Done or a request
    resp,       \* users[f].bytes_to_send > 0
    linger,     \* users[f].m_linger
    sockfd,     \* users[f].m_sockfd # -1
    userCount,  \* http_conn::m_user_count
    rpc,        \* reactor: "wait" | "post" (inside append, after the push)
    steps,      \* client steps taken (bounded by MaxClientSteps)
    workqueue, queuestat, wpc, request, appender

TP == INSTANCE ThreadPool WITH NoRequest <- NoItem

tpVars == <<workqueue, queuestat, wpc, request, appender>>
netVars == <<clients, backlog, listenEv, owner, inq, hup, reg>>
connVars == <<buf, resp, linger, sockfd, userCount>>
vars == <<netVars, connVars, rpc, steps, tpVars>>

FreeFds == {f \in Fds : owner[f] = NoConn}

(* mutant: close_conn() that does not set m_sockfd = -1                    *)
CloseConnNoReset(f) ==
    IF sockfd[f]
    THEN /\ owner' = [owner EXCEPT ![f] = NoConn]
         /\ reg' = [reg EXCEPT ![f] = "none"]
         /\ inq' = [inq EXCEPT ![f] = Nothing]
         /\ hup' = [hup EXCEPT ![f] = FALSE]
         /\ userCount' = userCount - 1
         /\ UNCHANGED sockfd
    ELSE UNCHANGED <<owner, reg, inq, hup, sockfd, userCount>>

(* close_conn(): if m_sockfd != -1, removefd() (EPOLL_CTL_DEL and close), *)
(* m_sockfd = -1 and m_user_count--.                                       *)
CloseConn(f) ==
    IF sockfd[f]
    THEN /\ owner' = [owner EXCEPT ![f] = NoConn]
         /\ reg' = [reg EXCEPT ![f] = "none"]
         /\ inq' = [inq EXCEPT ![f] = Nothing]
         /\ hup' = [hup EXCEPT ![f] = FALSE]
         /\ sockfd' = [sockfd EXCEPT ![f] = FALSE]
         /\ userCount' = userCount - 1
    ELSE UNCHANGED <<owner, reg, inq, hup, sockfd, userCount>>

(* modfd(m_epollfd, m_sockfd, ev): fails when m_sockfd is -1.              *)
ModFd(f, ev) ==
    reg' = IF sockfd[f] THEN [reg EXCEPT ![f] = ev] ELSE reg

-----------------------------------------------------------------------------
(* Clients: open connections, send, hang up.  Not part of the server.     *)

Connect ==
    /\ clients < MaxConns
    /\ clients' = clients + 1
    /\ backlog' = backlog + 1
    /\ listenEv' = TRUE
    /\ UNCHANGED <<owner, inq, hup, reg, connVars, rpc, steps, tpVars>>

(* A client sends part of a request or the rest of it; it sends again     *)
(* only once the server has read what it sent.                             *)
Send(f) ==
    /\ owner[f] # NoConn /\ ~hup[f] /\ inq[f] = Nothing
    /\ steps < MaxClientSteps
    /\ steps' = steps + 1
    /\ inq' = [inq EXCEPT ![f] = Frag] \/ \E r \in Reqs : inq' = [inq EXCEPT ![f] = r]
    /\ UNCHANGED <<clients, backlog, listenEv, owner, hup, reg, connVars, rpc,
                   tpVars>>

Hangup(f) ==
    /\ owner[f] # NoConn /\ ~hup[f]
    /\ steps < MaxClientSteps
    /\ steps' = steps + 1
    /\ hup' = [hup EXCEPT ![f] = TRUE]
    /\ UNCHANGED <<clients, backlog, listenEv, owner, inq, reg, connVars, rpc,
                   tpVars>>

-----------------------------------------------------------------------------
(* The reactor thread: one step per event of the epoll_wait() batch.  An   *)
(* event of listenfd makes exactly one accept() call.  An edge is raised  *)
(* only by a connection joining the backlog, so accept() fails only with   *)
(* EMFILE; the model gives the process more fds than MAX_FD, so that the   *)
(* busy branch is reached and EMFILE is not.                               *)

(* m_user_count >= MAX_FD: show_error() sends "busy" and closes connfd.    *)
AcceptBusy ==
    /\ rpc = "wait" /\ listenEv /\ backlog > 0 /\ FreeFds # {}
    /\ userCount >= MAX_FD
    /\ listenEv' = FALSE
    /\ backlog' = backlog - 1
    /\ UNCHANGED <<clients, owner, inq, hup, reg, connVars, rpc, steps, tpVars>>

(* mutant: the busy test is m_user_count > MAX_FD                        *)
AcceptConnOffByOne ==
    /\ rpc = "wait" /\ listenEv /\ backlog > 0 /\ FreeFds # {}
    /\ userCount <= MAX_FD
    /\ listenEv' = FALSE
    /\ LET f == Min(FreeFds)
       IN /\ backlog' = backlog - 1
          /\ owner' = [owner EXCEPT ![f] = clients - backlog + 1]
          /\ reg' = [reg EXCEPT ![f] = "in"]
          /\ sockfd' = [sockfd EXCEPT ![f] = TRUE]
          /\ userCount' = userCount + 1
          /\ buf' = [buf EXCEPT ![f] = Empty]
          /\ resp' = [resp EXCEPT ![f] = FALSE]
          /\ linger' = [linger EXCEPT ![f] = FALSE]
    /\ UNCHANGED <<clients, inq, hup, rpc, steps, tpVars>>

(* users[connfd].init(connfd): addfd one-shot for EPOLLIN, m_user_count++, *)
(* the slot reset.  accept() returns the lowest free fd.                   *)
AcceptConn ==
    /\ rpc = "wait" /\ listenEv /\ backlog > 0 /\ FreeFds # {}
    /\ userCount < MAX_FD
    /\ listenEv' = FALSE
    /\ LET f == Min(FreeFds)
       IN /\ backlog' = backlog - 1
          /\ owner' = [owner EXCEPT ![f] = clients - backlog + 1]
          /\ reg' = [reg EXCEPT ![f] = "in"]
          /\ sockfd' = [sockfd EXCEPT ![f] = TRUE]
          /\ userCount' = userCount + 1
          /\ buf' = [buf EXCEPT ![f] = Empty]
          /\ resp' = [resp EXCEPT ![f] = FALSE]
          /\ linger' = [linger EXCEPT ![f] = FALSE]
    /\ UNCHANGED <<clients, inq, hup, rpc, steps, tpVars>>

(* EPOLLRDHUP | EPOLLHUP | EPOLLERR: users[sockfd].close_conn().           *)
HupEvent(f) ==
    /\ rpc = "wait" /\ reg[f] \in {"in", "out"} /\ hup[f]
    /\ CloseConn(f)
    /\ UNCHANGED <<clients, backlog, listenEv, buf, resp, linger, rpc, steps,
                   tpVars>>

(* The bytes users[f] holds after read() appended the kernel's.           *)
Merge(b, d) ==
    IF IsReq(d) THEN d ELSE IF IsReq(b) \/ b = Done THEN b ELSE Frag

(* mutant: connections registered without EPOLLONESHOT, so the fd stays  *)
(* armed while the pool holds it                                         *)
ReadEventNoOneShot(f) ==
    /\ rpc = "wait" /\ reg[f] = "in" /\ inq[f] # Nothing /\ ~hup[f]
    /\ inq' = [inq EXCEPT ![f] = Nothing]
    /\ buf' = [buf EXCEPT ![f] = Merge(buf[f], inq[f])]
    /\ \/ /\ TP!AppendPush([fd |-> f, conn |-> owner[f]])
          /\ rpc' = "post"
       \/ /\ TP!AppendRefused
          /\ UNCHANGED rpc
    /\ UNCHANGED <<clients, backlog, listenEv, owner, hup, reg, resp, linger,
                   sockfd, userCount, steps>>

(* EPOLLIN: read() drains the socket and returns true, and main() calls  *)
(* pool->append(users + sockfd) without looking at its result.  When the   *)
(* queue is full the request is dropped and f stays disarmed (one-shot).   *)
ReadEvent(f) ==
    /\ rpc = "wait" /\ reg[f] = "in" /\ inq[f] # Nothing /\ ~hup[f]
    /\ reg' = [reg EXCEPT ![f] = "off"]
    /\ inq' = [inq EXCEPT ![f] = Nothing]
    /\ buf' = [buf EXCEPT ![f] = Merge(buf[f], inq[f])]
    /\ \/ /\ TP!AppendPush([fd |-> f, conn |-> owner[f]])
          /\ rpc' = "post"
       \/ /\ TP!AppendRefused
          /\ UNCHANGED rpc
    /\ UNCHANGED <<clients, backlog, listenEv, owner, hup, resp, linger,
                   sockfd, userCount, steps>>

(* read() returns false without a hang-up: the fragments fill m_read_buf. *)
(* main() calls close_conn().                                              *)
ReadEventFails(f) ==
    /\ rpc = "wait" /\ reg[f] = "in" /\ inq[f] = Frag /\ ~hup[f]
    /\ buf[f] = Frag
    /\ CloseConn(f)
    /\ UNCHANGED <<clients, backlog, listenEv, buf, resp, linger, rpc, steps,
                   tpVars>>

(* append() posts m_queuestat and returns.                                 *)
ReadPost ==
    /\ rpc = "post"
    /\ TP!AppendPost
    /\ rpc' = "wait"
    /\ UNCHANGED <<netVars, connVars, steps>>

(* EPOLLOUT: write() returns true.  process() arms EPOLLOUT only with a    *)
(* response built, so the bytes_to_send == 0 branch is never taken.        *)
WriteEvent(f) ==
    /\ rpc = "wait" /\ reg[f] = "out"
    /\ resp[f]
    /\ \/ \* writev() hits EAGAIN: modfd(EPOLLOUT)
          /\ steps < MaxClientSteps
          /\ steps' = steps + 1
          /\ UNCHANGED <<reg, buf, resp, linger>>
       \/ \* all sent with m_linger: unmap(), init(), modfd(EPOLLIN)
          /\ linger[f]
          /\ reg' = [reg EXCEPT ![f] = "in"]
          /\ resp' = [resp EXCEPT ![f] = FALSE]
          /\ buf' = [buf EXCEPT ![f] = Empty]
          /\ linger' = [linger EXCEPT ![f] = FALSE]
          /\ UNCHANGED steps
    /\ UNCHANGED <<clients, backlog, listenEv, owner, inq, hup, sockfd,
                   userCount, rpc, tpVars>>

(* write() returns false (all sent without m_linger, or writev() failed   *)
(* on a closed peer): main() calls close_conn().                           *)
WriteEventClose(f) ==
    /\ rpc = "wait" /\ reg[f] = "out" /\ resp[f]
    /\ ~linger[f] \/ hup[f]
    /\ resp' = [resp EXCEPT ![f] = FALSE]
    /\ CloseConn(f)
    /\ UNCHANGED <<clients, backlog, listenEv, buf, linger, rpc, steps, tpVars>>

-----------------------------------------------------------------------------
(* The pool's workers; process() is http_conn::process() on users[f].     *)

WorkerWait(w) ==
    /\ TP!Wait(w)
    /\ UNCHANGED <<netVars, connVars, rpc, steps>>

WorkerTake(w) ==
    /\ TP!Take(w)
    /\ UNCHANGED <<netVars, connVars, rpc, steps>>

(* process_read() returns NO_REQUEST: modfd(EPOLLIN).                      *)
ProcessNoRequest(w) ==
    /\ wpc[w] = "run"
    /\ ~IsReq(buf[request[w].fd])
    /\ ModFd(request[w].fd, "in")
    /\ TP!Finish(w)
    /\ UNCHANGED <<clients, backlog, listenEv, owner, inq, hup, connVars, rpc,
                   steps>>

(* process_write() succeeds: modfd(EPOLLOUT).                              *)
ProcessRespond(w) ==
    /\ wpc[w] = "run"
    /\ LET f == request[w].fd
       IN /\ IsReq(buf[f]) /\ buf[f].built
          /\ linger' = [linger EXCEPT ![f] = buf[f].linger]
          /\ buf' = [buf EXCEPT ![f] = Done]
          /\ resp' = [resp EXCEPT ![f] = TRUE]
          /\ ModFd(f, "out")
    /\ TP!Finish(w)
    /\ UNCHANGED <<clients, backlog, listenEv, owner, inq, hup, sockfd,
                   userCount, rpc, steps>>

(* process_write() returns false: close_conn(), then a modfd() on         *)
(* m_sockfd = -1 that fails.                                               *)
ProcessCloseConn(w) ==
    /\ wpc[w] = "run"
    /\ LET f == request[w].fd
       IN /\ IsReq(buf[f]) /\ ~buf[f].built
          /\ buf' = [buf EXCEPT ![f] = Done]
          /\ CloseConn(f)
    /\ TP!Finish(w)
    /\ UNCHANGED <<clients, backlog, listenEv, resp, linger, rpc, steps>>

-----------------------------------------------------------------------------
Init ==
    /\ clients = 0 /\ backlog = 0 /\ listenEv = FALSE
    /\ owner = [f \in Fds |-> NoConn]
    /\ inq = [f \in Fds |-> Nothing]
    /\ hup = [f \in Fds |-> FALSE]
    /\ reg = [f \in Fds |-> "none"]
    /\ buf = [f \in Fds |-> Empty]
    /\ resp = [f \in Fds |-> FALSE]
    /\ linger = [f \in Fds |-> FALSE]
    /\ sockfd = [f \in Fds |-> FALSE]
    /\ userCount = 0
    /\ rpc = "wait"
    /\ steps = 0
    /\ TP!TPInit

Client == Connect \/ \E f \in Fds : Send(f) \/ Hangup(f)

Reactor ==
    \/ AcceptBusy \/ AcceptConn \/ ReadPost
    \/ \E f \in Fds : \/ HupEvent(f) \/ ReadEvent(f) \/ ReadEventFails(f)
                      \/ WriteEvent(f) \/ WriteEventClose(f)

Worker(w) ==
    \/ WorkerWait(w) \/ WorkerTake(w)
    \/ ProcessNoRequest(w) \/ ProcessRespond(w) \/ ProcessCloseConn(w)

Next == Client \/ Reactor \/ \E w \in Workers : Worker(w)

(* epoll_wait() returns every ready event and the loop handles them all,  *)
(* so each handler is weakly fair; the workers are OS threads.  Clients   *)
(* owe nothing.                                                            *)
Fairness ==
    /\ WF_vars(AcceptBusy) /\ WF_vars(AcceptConn)
    /\ WF_vars(ReadPost)
    /\ \A f \in Fds : /\ WF_vars(HupEvent(f)) /\ WF_vars(ReadEvent(f))
                      /\ WF_vars(ReadEventFails(f))
                      /\ WF_vars(WriteEvent(f) \/ WriteEventClose(f))
    /\ \A w \in Workers : WF_vars(Worker(w))

Spec == Init /\ [][Next]_vars /\ Fairness

-----------------------------------------------------------------------------
Live(c) == \E f \in Fds : owner[f] = c

GetTypeOK ==
    /\ clients \in 0..MaxConns /\ backlog \in 0..clients
    /\ owner \in [Fds -> ConnIds \cup {NoConn}]
    /\ inq \in [Fds -> {Nothing, Frag} \cup Reqs] /\ hup \in [Fds -> BOOLEAN]
    /\ reg \in [Fds -> {"none", "off", "in", "out"}]
    /\ buf \in [Fds -> {Empty, Frag, Done} \cup Reqs]
    /\ resp \in [Fds -> BOOLEAN] /\ linger \in [Fds -> BOOLEAN]
    /\ sockfd \in [Fds -> BOOLEAN] /\ userCount \in 0..MAX_FD
    /\ rpc \in {"wait", "post"} /\ steps \in 0..MaxClientSteps
    /\ TP!TPTypeOK

(* m_user_count counts exactly the open connections, and a slot has       *)
(* m_sockfd set exactly while its fd belongs to a connection.  Connections *)
(* are closed by the reactor and by the workers; the one-shot registration *)
(* keeps the reactor away from a slot the pool holds, so no connection is  *)
(* closed twice (the POST server's timers break this, see WebServer).     *)
OpenSlotsCounted ==
    /\ userCount = Cardinality({f \in Fds : owner[f] # NoConn})
    /\ \A f \in Fds : sockfd[f] <=> owner[f] # NoConn

(* Every slot the pool holds, queued or in process(), still belongs to    *)
(* the connection whose request put it there: the reactor cannot close   *)
(* the fd (and accept() hand it to a new client, whose init() would reset *)
(* the slot) while the pool holds it.                                     *)
PooledSlotKeepsOwner ==
    /\ \A i \in 1..Len(workqueue) : owner[workqueue[i].fd] = workqueue[i].conn
    /\ \A w \in Workers : wpc[w] = "run" => owner[request[w].fd] = request[w].conn

(* A connection whose client has hung up is eventually closed and its fd  *)
(* and m_user_count released: with no timers, the hang-up event is the   *)
(* server's only way to learn of it.  A request that append() refused     *)
(* leaves the one-shot fd disarmed, and main() ignores the refusal.       *)
HungUpConnectionClosed ==
    \A c \in ConnIds : (\E f \in Fds : owner[f] = c /\ hup[f]) ~> ~Live(c)

(* Every client that connects is eventually accepted or refused as busy:  *)
(* the design accepts until the listen queue is empty, main() calls       *)
(* accept() once per edge of the edge-triggered listenfd.                 *)
ConnectionEventuallyAccepted ==
    backlog > 0 ~> backlog = 0

(* Every connection fd that the reactor has disarmed (its one-shot event  *)
(* consumed by read()) is held by the pool, queued or in process(), or is *)
(* being appended: otherwise nothing re-arms it, its hang-up is never     *)
(* reported and the connection is never closed.  main() ignores a false   *)
(* return of pool->append().                                               *)
DisarmedSlotHeldByPool ==
    \A f \in Fds : reg[f] = "off" =>
        \/ \E i \in 1..Len(workqueue) : workqueue[i].fd = f
        \/ \E w \in Workers : wpc[w] = "run" /\ request[w].fd = f
====

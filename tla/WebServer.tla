------------------------------ MODULE WebServer ------------------------------
(***************************************************************************)
(* The single-process server of POST-Webserver/SimpleWebServer: the        *)
(* reactor loop of main(), the http_conn slots users[fd] it hands to the   *)
(* thread pool, the idle-connection timers of HeapTimer (heap_timer.h)     *)
(* ticked by SIGALRM through the signal pipe, and the kernel objects they  *)
(* share: fd numbers, sockets and the epoll interest set.                  *)
(*                                                                         *)
(* Data is abstracted to what decides control: the bytes a client sends    *)
(* are a fragment or a whole request, and a whole request is the outcome   *)
(* do_request() will give it plus its keep-alive flag.                     *)
(***************************************************************************)
EXTENDS Integers, Sequences, FiniteSets, FiniteSetsExt

CONSTANTS Fds,            \* fd numbers the process can give connections
          Workers,        \* the pool's threads
          MaxRequests,    \* threadpool m_max_requests
          MAX_FD,         \* main.cpp: refuse once m_user_count >= MAX_FD
          MaxConns,       \* bound: connections clients open in a run
          MaxClientSteps, \* bound: requests sent plus stalled writes
          TimeoutSlots,   \* 3 * TIMESLOT, counted in TIMESLOTs
          Outcomes        \* results of do_request() a request may have

ASSUME /\ Fds \subseteq Nat \ {0} /\ Fds # {}
       /\ MAX_FD \in Nat /\ MaxConns \in Nat /\ MaxClientSteps \in Nat
       /\ TimeoutSlots \in Nat \ {0}

NoConn == 0
ConnIds == 1..MaxConns
(* Bytes from a client: nothing, a fragment, or a whole request, which is *)
(* the outcome do_request() gives it and its keep-alive flag.  users[f]   *)
(* also holds "empty" after init() and "done" once a request is parsed.   *)
Chunk(k) == [kind |-> k, out |-> "none", linger |-> FALSE]
Nothing == Chunk("none")
Frag == Chunk("frag")
Empty == Chunk("empty")
Done == Chunk("done")
Reqs == [kind : {"req"}, out : Outcomes, linger : BOOLEAN]
IsReq(d) == d.kind = "req"
TimerRec == [tid : ConnIds, fd : Fds, left : 0..TimeoutSlots + 1]
NoItem == [fd |-> 0, conn |-> NoConn]

VARIABLES
    clients,    \* connections clients have opened so far
    backlog,    \* connections waiting in the listen queue
    listenEv,   \* an edge-triggered EPOLLIN on listenfd is pending
    owner,      \* owner[f]: connection whose socket holds fd f, or NoConn
    inq,        \* inq[f]: bytes received by the kernel, not yet recv()'d
    hup,        \* hup[f]: the client has closed its end
    reg,        \* reg[f]: epoll interest: "none" | "off" (one-shot spent) | "in" | "out"
    awaiting,   \* awaiting[f]: the client sent a request, awaits the response
    buf,        \* users[f] read buffer: Empty, Frag, Done or a request
    resp,       \* users[f].bytes_to_send > 0
    linger,     \* users[f].m_linger
    sockfd,     \* users[f].m_sockfd # -1
    userCount,  \* http_conn::m_user_count
    heap,       \* timer_lst: the util_timers in the heap
    utimer,     \* users_timer[f].timer, a timer id (= id of its connection)
    rpc,        \* reactor: "wait" | "accept" (accept loop) | "post" (inside append)
    pfd,        \* fd whose read event the reactor is handling at "post"
    timeout,    \* main(): the timeout flag
    sigAlrm,    \* a SIGALRM byte is in the signal pipe
    alarmSet,   \* alarm(TIMESLOT) is pending
    sigTerm,    \* a SIGTERM byte is in the signal pipe
    stop,       \* main(): stop_server
    steps,      \* client steps taken (bounded by MaxClientSteps)
    workqueue, queuestat, wpc, request, appender

TP == INSTANCE ThreadPool WITH NoRequest <- NoItem

tpVars == <<workqueue, queuestat, wpc, request, appender>>

netVars == <<clients, backlog, listenEv, owner, inq, hup, reg, awaiting>>
connVars == <<buf, resp, linger, sockfd, userCount>>
timerVars == <<heap, utimer>>
lifeVars == <<sigTerm, stop>>
reactorVars == <<rpc, pfd, timeout, sigAlrm, alarmSet, lifeVars>>
vars == <<netVars, connVars, timerVars, reactorVars, steps, tpVars>>

FreeFds == {f \in Fds : owner[f] = NoConn}
Expiries == {TimeoutSlots, TimeoutSlots + 1}   \* alarms until expire <= now

-----------------------------------------------------------------------------
(* HeapTimer (heap_timer.h).  A timer is named by the connection it was    *)
(* made for; the heap order only decides the order tick() pops expired     *)
(* timers, which no state depends on.                                      *)

AddTimer(h, t) == h \cup {t}

DelTimer(h, tid) == {t \in h : t.tid # tid}

(* mutant: main() extends the expiry by one TIMESLOT too many             *)
AdjustLate(h, tid, f, k) ==
    AddTimer(DelTimer(h, tid), [tid |-> tid, fd |-> f, left |-> k + 1])

(* mutant: adjust_timer() removes the timer and forgets to push it back    *)
AdjustDropped(h, tid, f, k) == DelTimer(h, tid)

(* adjust_timer(): del_timer then add_timer, with the expiry main() set.   *)
AdjustTimer(h, tid, f, k) ==
    AddTimer(DelTimer(h, tid), [tid |-> tid, fd |-> f, left |-> k])

(* epoll_ctl(EPOLL_CTL_MOD) of modfd() on users[f].m_sockfd: fails when    *)
(* m_sockfd is -1 or the fd is not in the interest set.                     *)
ModFd(f, ev) ==
    reg' = IF sockfd[f] /\ reg[f] # "none" THEN [reg EXCEPT ![f] = ev] ELSE reg

(* The kernel side of closing the fds S (epoll_ctl DEL, close): closing a  *)
(* closed fd is EBADF and changes nothing.                                  *)
CloseFds(S) ==
    /\ owner' = [f \in Fds |-> IF f \in S THEN NoConn ELSE owner[f]]
    /\ reg' = [f \in Fds |-> IF f \in S THEN "none" ELSE reg[f]]
    /\ inq' = [f \in Fds |-> IF f \in S THEN Nothing ELSE inq[f]]
    /\ hup' = [f \in Fds |-> IF f \in S THEN FALSE ELSE hup[f]]
    /\ awaiting' = [f \in Fds |-> IF f \in S THEN FALSE ELSE awaiting[f]]

(* cb_func() run n times on the fds S: DEL, close, m_user_count--.  It     *)
(* neither resets users[f] nor users_timer[f].timer.                        *)
CbFunc(S, n) ==
    /\ CloseFds(S)
    /\ userCount' = userCount - n

(* main(): timer->cb_func(&users_timer[f]); if (timer) del_timer(timer);  *)
CloseByReactor(f) ==
    /\ CbFunc({f}, 1)
    /\ heap' = DelTimer(heap, utimer[f])
    /\ UNCHANGED <<clients, backlog, listenEv, buf, resp, linger, sockfd,
                   utimer, rpc, pfd, timeout, sigAlrm, alarmSet, lifeVars>>

-----------------------------------------------------------------------------
(* Clients: open connections, send, hang up.  Not part of the server.     *)

Connect ==
    /\ clients < MaxConns /\ rpc # "exit"
    /\ clients' = clients + 1
    /\ backlog' = backlog + 1
    /\ listenEv' = TRUE
    /\ UNCHANGED <<owner, inq, hup, reg, awaiting, connVars, timerVars,
                   reactorVars, steps, tpVars>>

(* A client sends part of a request, or the rest of it, and then waits for *)
(* the response before it sends again.                                      *)
Send(f) ==
    /\ owner[f] # NoConn /\ ~hup[f] /\ ~awaiting[f]
    /\ steps < MaxClientSteps
    /\ steps' = steps + 1
    /\ \/ /\ inq[f] \in {Nothing, Frag}
          /\ inq' = [inq EXCEPT ![f] = Frag]
          /\ UNCHANGED awaiting
       \/ /\ \E r \in Reqs : inq' = [inq EXCEPT ![f] = r]
          /\ awaiting' = [awaiting EXCEPT ![f] = TRUE]
    /\ UNCHANGED <<clients, backlog, listenEv, owner, hup, reg, connVars,
                   timerVars, reactorVars, tpVars>>

Hangup(f) ==
    /\ owner[f] # NoConn /\ ~hup[f]
    /\ hup' = [hup EXCEPT ![f] = TRUE]
    /\ UNCHANGED <<clients, backlog, listenEv, owner, inq, reg, awaiting,
                   connVars, timerVars, reactorVars, steps, tpVars>>

(* The kernel delivers SIGALRM: one TIMESLOT has passed for every timer,   *)
(* and sig_handler writes the signal byte into the pipe.                   *)
Alarm ==
    /\ alarmSet /\ rpc # "exit"
    /\ alarmSet' = FALSE
    /\ sigAlrm' = TRUE
    /\ heap' = {[t EXCEPT !.left = IF @ > 0 THEN @ - 1 ELSE 0] : t \in heap}
    /\ UNCHANGED <<netVars, connVars, utimer, rpc, pfd, timeout, lifeVars,
                   steps, tpVars>>

(* SIGTERM reaches the process: sig_handler writes the signal byte into   *)
(* the pipe.  One SIGTERM is sent in a run.                                *)
TermSignal ==
    /\ ~sigTerm /\ ~stop /\ rpc # "exit"
    /\ sigTerm' = TRUE
    /\ UNCHANGED <<netVars, connVars, timerVars, rpc, pfd, timeout, sigAlrm,
                   alarmSet, stop, steps, tpVars>>

-----------------------------------------------------------------------------
(* The reactor thread: one step per event of the epoll_wait() batch.       *)

(* The reactor is between events and takes the next one.  Once the       *)
(* SIGTERM byte has set stop_server no further event is taken: the model   *)
(* lets the signal pipe be the last event of its batch, so the loop goes   *)
(* to timer_handler() and the stop_server test at once.                    *)
Polling == rpc = "wait" /\ ~stop

(* EPOLLIN on listenfd: enter the accept loop.                              *)
AcceptEvent ==
    /\ Polling /\ listenEv
    /\ listenEv' = FALSE
    /\ rpc' = "accept"
    /\ UNCHANGED <<clients, backlog, owner, inq, hup, reg, awaiting, connVars,
                   timerVars, pfd, timeout, sigAlrm, alarmSet, lifeVars, steps, tpVars>>

(* accept() fails (EAGAIN, or EMFILE with no fd left): break.  Connections *)
(* still in the backlog raise no new edge on listenfd.                     *)
AcceptFails ==
    /\ rpc = "accept"
    /\ backlog = 0 \/ FreeFds = {}
    /\ rpc' = "wait"
    /\ UNCHANGED <<netVars, connVars, timerVars, pfd, timeout, sigAlrm,
                   alarmSet, lifeVars, steps, tpVars>>

(* accept() returns the lowest free fd, m_user_count >= MAX_FD:            *)
(* show_error() sends "busy" and closes it, then break.                    *)
AcceptBusy ==
    /\ rpc = "accept" /\ backlog > 0 /\ FreeFds # {}
    /\ userCount >= MAX_FD
    /\ backlog' = backlog - 1
    /\ rpc' = "wait"
    /\ UNCHANGED <<clients, listenEv, owner, inq, hup, reg, awaiting, connVars,
                   timerVars, pfd, timeout, sigAlrm, alarmSet, lifeVars, steps, tpVars>>

(* accept() returns the lowest free fd f: users[f].init(f) registers it    *)
(* one-shot for EPOLLIN, counts it and resets the slot; a new timer        *)
(* expiring 3 TIMESLOTs on is added and stored in users_timer[f].          *)
AcceptConn ==
    /\ rpc = "accept" /\ backlog > 0 /\ FreeFds # {}
    /\ userCount < MAX_FD
    /\ LET f == Min(FreeFds)
           c == clients - backlog + 1
       IN /\ backlog' = backlog - 1
          /\ owner' = [owner EXCEPT ![f] = c]
          /\ reg' = [reg EXCEPT ![f] = "in"]
          /\ sockfd' = [sockfd EXCEPT ![f] = TRUE]
          /\ userCount' = userCount + 1
          /\ buf' = [buf EXCEPT ![f] = Empty]
          /\ resp' = [resp EXCEPT ![f] = FALSE]
          /\ linger' = [linger EXCEPT ![f] = FALSE]
          /\ utimer' = [utimer EXCEPT ![f] = c]
          /\ \E k \in Expiries : heap' = AddTimer(heap, [tid |-> c, fd |-> f, left |-> k])
    /\ UNCHANGED <<clients, listenEv, inq, hup, awaiting, reactorVars,
                   steps, tpVars>>

(* EPOLLRDHUP on a connection: close it and delete its timer.              *)
HupEvent(f) ==
    /\ Polling /\ reg[f] \in {"in", "out"} /\ hup[f]
    /\ CloseByReactor(f)
    /\ UNCHANGED <<steps, tpVars>>

(* mutant: the loop over the received bytes handles only the first one    *)
SignalEventFirstByte ==
    /\ Polling /\ (sigAlrm \/ sigTerm)
    /\ sigAlrm' = FALSE /\ sigTerm' = FALSE
    /\ timeout' = (timeout \/ sigAlrm)
    /\ stop' = (stop \/ (sigTerm /\ ~sigAlrm))
    /\ UNCHANGED <<netVars, connVars, timerVars, rpc, pfd, alarmSet, steps,
                   tpVars>>

(* EPOLLIN on the signal pipe: one recv() takes every byte in the pipe and *)
(* the loop over them handles each: SIGALRM sets the timeout flag,        *)
(* SIGTERM sets stop_server (and falls through to default).               *)
SignalEvent ==
    /\ Polling /\ (sigAlrm \/ sigTerm)
    /\ sigAlrm' = FALSE /\ sigTerm' = FALSE
    /\ timeout' = (timeout \/ sigAlrm)
    /\ stop' = (stop \/ sigTerm)
    /\ UNCHANGED <<netVars, connVars, timerVars, rpc, pfd, alarmSet, steps,
                   tpVars>>

(* The bytes users[f] holds after read_once() appended the kernel's.       *)
Merge(b, d) ==
    IF IsReq(d) THEN d ELSE IF IsReq(b) \/ b = Done THEN b ELSE Frag

(* EPOLLIN on a connection, read_once() drains the socket and returns      *)
(* true: append users+f to the pool.  When append() accepts, the post and  *)
(* the timer adjustment follow in ReadPost; when it refuses (ignored by    *)
(* main) the timer is adjusted at once and f stays disarmed.               *)
ReadEvent(f) ==
    /\ Polling /\ reg[f] = "in" /\ inq[f] # Nothing /\ ~hup[f]
    /\ reg' = [reg EXCEPT ![f] = "off"]
    /\ inq' = [inq EXCEPT ![f] = Nothing]
    /\ buf' = [buf EXCEPT ![f] = Merge(buf[f], inq[f])]
    /\ \/ /\ TP!AppendPush([fd |-> f, conn |-> owner[f]])
          /\ rpc' = "post"
          /\ pfd' = f
          /\ UNCHANGED heap
       \/ /\ TP!AppendRefused
          /\ \E k \in Expiries : heap' = AdjustTimer(heap, utimer[f], f, k)
          /\ UNCHANGED <<rpc, pfd>>
    /\ UNCHANGED <<clients, backlog, listenEv, owner, hup, awaiting, resp,
                   linger, sockfd, userCount, utimer, timeout, sigAlrm,
                   alarmSet, lifeVars, steps>>

(* read_once() returns false without a hang-up (a hang-up raises         *)
(* EPOLLRDHUP, which main() tests first): the bytes fill m_read_buf, so    *)
(* the next recv() of length 0 returns 0.  Only a request that is still a  *)
(* fragment can outgrow READ_BUFFER_SIZE.  main() closes f.                *)
ReadEventFails(f) ==
    /\ Polling /\ reg[f] = "in" /\ inq[f] = Frag /\ ~hup[f]
    /\ buf[f] = Frag
    /\ CloseByReactor(f)
    /\ UNCHANGED <<steps, tpVars>>

(* append() posts m_queuestat; main() then adjusts the timer it read      *)
(* before read_once() to expire 3 TIMESLOTs on.                            *)
ReadPost ==
    /\ rpc = "post"
    /\ TP!AppendPost
    /\ \E k \in Expiries : heap' = AdjustTimer(heap, utimer[pfd], pfd, k)
    /\ rpc' = "wait"
    /\ UNCHANGED <<netVars, connVars, utimer, pfd, timeout, sigAlrm,
                   alarmSet, lifeVars, steps>>

(* EPOLLOUT on a connection: write().  A true result adjusts the timer, a  *)
(* false one closes the connection.                                        *)
WriteEvent(f) ==
    /\ Polling /\ reg[f] = "out"
    /\ \/ \* bytes_to_send == 0: re-arm EPOLLIN, init(), true
          /\ ~resp[f]
          /\ reg' = [reg EXCEPT ![f] = "in"]
          /\ buf' = [buf EXCEPT ![f] = Empty]
          /\ linger' = [linger EXCEPT ![f] = FALSE]
          /\ UNCHANGED <<resp, awaiting, steps>>
       \/ \* writev() hits EAGAIN before the end: re-arm EPOLLOUT, true
          /\ resp[f] /\ steps < MaxClientSteps
          /\ steps' = steps + 1
          /\ reg' = [reg EXCEPT ![f] = "out"]
          /\ UNCHANGED <<buf, resp, linger, awaiting>>
       \/ \* all sent on a keep-alive connection: unmap, EPOLLIN, init(), true
          /\ resp[f] /\ linger[f]
          /\ reg' = [reg EXCEPT ![f] = "in"]
          /\ resp' = [resp EXCEPT ![f] = FALSE]
          /\ buf' = [buf EXCEPT ![f] = Empty]
          /\ linger' = [linger EXCEPT ![f] = FALSE]
          /\ awaiting' = [awaiting EXCEPT ![f] = FALSE]
          /\ UNCHANGED steps
    /\ \E k \in Expiries : heap' = AdjustTimer(heap, utimer[f], f, k)
    /\ UNCHANGED <<clients, backlog, listenEv, owner, inq, hup, sockfd,
                   userCount, utimer, reactorVars, tpVars>>

(* write() returns false: all sent without keep-alive, or writev() failed  *)
(* on a client that closed; main() closes the connection.                  *)
WriteEventClose(f) ==
    /\ Polling /\ reg[f] = "out" /\ resp[f]
    /\ ~linger[f] \/ hup[f]
    /\ resp' = [resp EXCEPT ![f] = FALSE]
    /\ CbFunc({f}, 1)
    /\ heap' = DelTimer(heap, utimer[f])
    /\ UNCHANGED <<clients, backlog, listenEv, buf, linger, sockfd, utimer,
                   reactorVars, steps, tpVars>>

(* mutant: timer_handler() forgets to re-arm alarm(TIMESLOT)               *)
TimerHandlerNoRearm ==
    /\ rpc = "wait" /\ timeout
    /\ LET expired == {t \in heap : t.left = 0}
       IN /\ heap' = heap \ expired
          /\ CbFunc({t.fd : t \in expired}, Cardinality(expired))
    /\ timeout' = FALSE
    /\ UNCHANGED <<clients, backlog, listenEv, buf, resp, linger, sockfd,
                   utimer, rpc, pfd, sigAlrm, alarmSet, lifeVars, steps, tpVars>>

(* After the batch, timer_handler(): tick() pops every expired timer, runs *)
(* its cb_func and deletes it; then alarm(TIMESLOT) is re-armed.           *)
TimerHandler ==
    /\ rpc = "wait" /\ timeout
    /\ LET expired == {t \in heap : t.left = 0}
       IN /\ heap' = heap \ expired
          /\ CbFunc({t.fd : t \in expired}, Cardinality(expired))
    /\ alarmSet' = TRUE
    /\ timeout' = FALSE
    /\ UNCHANGED <<clients, backlog, listenEv, buf, resp, linger, sockfd,
                   utimer, rpc, pfd, sigAlrm, lifeVars, steps, tpVars>>

(* With stop_server set, the batch over and timer_handler() run, the loop *)
(* ends: epollfd, listenfd and the pipe are closed, users, users_timer     *)
(* and the pool deleted, and main() returns; the exit closes every         *)
(* connection and the connections still in the listen queue are reset.    *)
Exit ==
    /\ rpc = "wait" /\ stop /\ ~timeout
    /\ rpc' = "exit"
    /\ backlog' = 0 /\ listenEv' = FALSE
    /\ CloseFds(Fds)
    /\ UNCHANGED <<clients, connVars, timerVars, pfd, timeout, sigAlrm,
                   alarmSet, lifeVars, steps, tpVars>>

(* The process has exited: nothing more happens.                          *)
Exited ==
    /\ rpc = "exit"
    /\ UNCHANGED vars

-----------------------------------------------------------------------------
(* The pool's workers; process() is http_conn::process() on users[f].     *)

WorkerWait(w) ==
    /\ TP!Wait(w)
    /\ UNCHANGED <<netVars, connVars, timerVars, reactorVars, steps>>

WorkerTake(w) ==
    /\ TP!Take(w)
    /\ UNCHANGED <<netVars, connVars, timerVars, reactorVars, steps>>

(* process_read() finds no whole request (NO_REQUEST): re-arm EPOLLIN.     *)
ProcessNoRequest(w) ==
    /\ wpc[w] = "run"
    /\ ~IsReq(buf[request[w].fd])
    /\ ModFd(request[w].fd, "in")
    /\ TP!Finish(w)
    /\ UNCHANGED <<clients, backlog, listenEv, owner, inq, hup, awaiting,
                   connVars, timerVars, reactorVars, steps>>

(* process_write() builds a response for BAD_REQUEST, FORBIDDEN_REQUEST    *)
(* and a non-empty FILE_REQUEST only.                                       *)
WriteBuilt(o) == o \in {"FILE_REQUEST", "BAD_REQUEST", "FORBIDDEN_REQUEST"}

(* A whole request: do_request() and process_write() succeed, then         *)
(* modfd(EPOLLOUT).                                                        *)
ProcessRespond(w) ==
    /\ wpc[w] = "run"
    /\ LET f == request[w].fd
       IN /\ IsReq(buf[f])
          /\ WriteBuilt(buf[f].out)
          /\ linger' = [linger EXCEPT ![f] = buf[f].linger]
          /\ buf' = [buf EXCEPT ![f] = Done]
          /\ resp' = [resp EXCEPT ![f] = TRUE]
          /\ ModFd(f, "out")
    /\ TP!Finish(w)
    /\ UNCHANGED <<clients, backlog, listenEv, owner, inq, hup, awaiting,
                   sockfd, userCount, timerVars, reactorVars, steps>>

(* A whole request for which process_write() returns false (NO_RESOURCE,  *)
(* an empty file): close_conn() removes and closes m_sockfd and counts it  *)
(* down once; the connection's timer stays in the heap.  The modfd() that  *)
(* follows uses m_sockfd = -1 and fails.                                   *)
ProcessCloseConn(w) ==
    /\ wpc[w] = "run"
    /\ LET f == request[w].fd
       IN /\ IsReq(buf[f])
          /\ ~WriteBuilt(buf[f].out)
          /\ linger' = [linger EXCEPT ![f] = buf[f].linger]
          /\ buf' = [buf EXCEPT ![f] = Done]
          /\ IF sockfd[f]
             THEN /\ CloseFds({f})
                  /\ sockfd' = [sockfd EXCEPT ![f] = FALSE]
                  /\ userCount' = userCount - 1
             ELSE UNCHANGED <<owner, reg, inq, hup, awaiting, sockfd, userCount>>
    /\ TP!Finish(w)
    /\ UNCHANGED <<clients, backlog, listenEv, resp, timerVars, reactorVars,
                   steps>>

-----------------------------------------------------------------------------
Init ==
    /\ clients = 0 /\ backlog = 0 /\ listenEv = FALSE
    /\ owner = [f \in Fds |-> NoConn]
    /\ inq = [f \in Fds |-> Nothing]
    /\ hup = [f \in Fds |-> FALSE]
    /\ reg = [f \in Fds |-> "none"]
    /\ awaiting = [f \in Fds |-> FALSE]
    /\ buf = [f \in Fds |-> Empty]
    /\ resp = [f \in Fds |-> FALSE]
    /\ linger = [f \in Fds |-> FALSE]
    /\ sockfd = [f \in Fds |-> FALSE]
    /\ userCount = 0
    /\ heap = {} /\ utimer = [f \in Fds |-> NoConn]
    /\ rpc = "wait" /\ pfd = 0 /\ timeout = FALSE
    /\ sigAlrm = FALSE /\ alarmSet = TRUE      \* main() calls alarm(TIMESLOT)
    /\ sigTerm = FALSE /\ stop = FALSE
    /\ steps = 0
    /\ TP!TPInit

Client ==
    \/ Connect
    \/ \E f \in Fds : Send(f) \/ Hangup(f)

Reactor ==
    \/ AcceptEvent \/ AcceptFails \/ AcceptBusy \/ AcceptConn
    \/ SignalEvent \/ ReadPost \/ TimerHandler \/ Exit
    \/ \E f \in Fds : \/ HupEvent(f) \/ ReadEvent(f) \/ ReadEventFails(f)
                      \/ WriteEvent(f) \/ WriteEventClose(f)

(* The workers are threads of the process and end with it.               *)
Worker(w) ==
    /\ rpc # "exit"
    /\ \/ WorkerWait(w) \/ WorkerTake(w)
       \/ ProcessNoRequest(w) \/ ProcessRespond(w) \/ ProcessCloseConn(w)

Next == Client \/ Alarm \/ TermSignal \/ Reactor \/ \E w \in Workers : Worker(w)
        \/ Exited

(* epoll_wait() returns every ready event and the loop handles them all,   *)
(* so each handler is weakly fair; SIGALRM is delivered once alarm() is    *)
(* set; the workers are OS threads.  Clients owe nothing.  Once          *)
(* stop_server is set the loop runs timer_handler() if due and ends.     *)
Fairness ==
    /\ WF_vars(Alarm)
    /\ WF_vars(AcceptEvent) /\ WF_vars(AcceptFails) /\ WF_vars(AcceptBusy)
    /\ WF_vars(AcceptConn) /\ WF_vars(SignalEvent) /\ WF_vars(ReadPost)
    /\ WF_vars(TimerHandler) /\ WF_vars(Exit)
    /\ \A f \in Fds : /\ WF_vars(HupEvent(f)) /\ WF_vars(ReadEvent(f))
                      /\ WF_vars(ReadEventFails(f))
                      /\ WF_vars(WriteEvent(f) \/ WriteEventClose(f))
    /\ \A w \in Workers : WF_vars(Worker(w))

Spec == Init /\ [][Next]_vars /\ Fairness

-----------------------------------------------------------------------------
Live(c) == \E f \in Fds : owner[f] = c

TypeOK ==
    /\ clients \in 0..MaxConns /\ backlog \in 0..clients /\ listenEv \in BOOLEAN
    /\ owner \in [Fds -> ConnIds \cup {NoConn}]
    /\ inq \in [Fds -> {Nothing, Frag} \cup Reqs]
    /\ hup \in [Fds -> BOOLEAN] /\ awaiting \in [Fds -> BOOLEAN]
    /\ reg \in [Fds -> {"none", "off", "in", "out"}]
    /\ buf \in [Fds -> {Empty, Frag, Done} \cup Reqs]
    /\ resp \in [Fds -> BOOLEAN] /\ linger \in [Fds -> BOOLEAN]
    /\ sockfd \in [Fds -> BOOLEAN] /\ userCount \in Int
    /\ heap \subseteq TimerRec /\ utimer \in [Fds -> ConnIds \cup {NoConn}]
    /\ rpc \in {"wait", "accept", "post", "exit"} /\ pfd \in Fds \cup {0}
    /\ timeout \in BOOLEAN /\ sigAlrm \in BOOLEAN /\ alarmSet \in BOOLEAN
    /\ sigTerm \in BOOLEAN /\ stop \in BOOLEAN
    /\ steps \in 0..MaxClientSteps
    /\ TP!TPTypeOK

(* Every open connection has its own timer in the heap, and               *)
(* users_timer[f].timer points to it: the accept path adds it, and every  *)
(* read or write that extends it (adjust_timer: del_timer + add_timer)     *)
(* puts it back.  A connection missing from the heap would never be       *)
(* reaped if its client went silent.                                       *)
LiveConnectionHasTimer ==
    \A f \in Fds : owner[f] # NoConn =>
        /\ utimer[f] = owner[f]
        /\ \E t \in heap : t.tid = owner[f] /\ t.fd = f

(* Every connection the server accepts is eventually closed, by its       *)
(* client, by the end of its response, or by its timer once it is idle:   *)
(* the SIGALRM -> pipe -> timeout -> tick() -> alarm() cycle never stops. *)
ConnectionEventuallyClosed ==
    \A c \in ConnIds : Live(c) ~> ~Live(c)

(* A SIGTERM the process receives always ends it: its byte is read from   *)
(* the pipe even when a SIGALRM byte comes in the same recv(), sets        *)
(* stop_server, and the loop ends and main() returns (Exit).              *)
TermSignalStopsServer ==
    sigTerm ~> rpc = "exit"

(* main() deletes users[] only when no worker is inside process() on a   *)
(* slot: the teardown after the loop must not free the http_conn objects  *)
(* a pool thread is still using (~threadpool() neither stops nor joins    *)
(* the detached workers).                                                  *)
TeardownAfterWorkersDone ==
    [][rpc' = "exit" => \A w \in Workers : wpc[w] # "run"]_vars

(* A timer tick() pops only ever closes the connection it was made for    *)
(* (or an fd already closed): cb_func() must not close a later client's   *)
(* connection that reuses the fd number.                                   *)
TimerClosesOnlyItsConnection ==
    [][timeout /\ ~timeout' =>
         \A t \in heap : t.left = 0 => owner[t.fd] \in {t.tid, NoConn}]_vars

(* m_user_count, which the accept path compares with MAX_FD, equals the   *)
(* number of open connections.                                             *)
UserCountIsOpenConnections ==
    userCount = Cardinality({f \in Fds : owner[f] # NoConn})

(* A connection slot users[f] a worker holds, or that waits in the queue, *)
(* still belongs to the connection it was queued for (or to none): the    *)
(* reactor never re-initialises a slot that the pool may still process.   *)
QueuedSlotNotReused ==
    /\ \A w \in Workers : wpc[w] = "run" =>
          owner[request[w].fd] \in {request[w].conn, NoConn}
    /\ \A i \in 1..Len(workqueue) :
          owner[workqueue[i].fd] \in {workqueue[i].conn, NoConn}
=============================================================================

------------------------------ MODULE WriteIov ------------------------------
(***************************************************************************)
(* http_conn::write() (POST server, http/http_conn.cpp) sending a          *)
(* FILE_REQUEST response: the header in m_write_buf (m_write_idx bytes)    *)
(* and the mmap'ed file (st_size bytes), gathered by writev() from the     *)
(* two-entry iovec m_iv that process_write() set up.  The kernel may take  *)
(* any part of what is offered (a partial write) or nothing (EAGAIN); the  *)
(* loop then recomputes m_iv from bytes_have_send and bytes_to_send.       *)
(*                                                                         *)
(* A byte of memory is named by its region and offset: <<"hdr", i>> is     *)
(* m_write_buf[i], <<"file", i>> is m_file_address[i].  An offset outside  *)
(* the header or the mapping reads memory that is not the response, a     *)
(* byte <<"junk", region, i>>.                                             *)
(***************************************************************************)
EXTENDS Integers, Sequences, SequencesExt

CONSTANTS WriteIdx,   \* m_write_idx: bytes of status line and headers
          FileSize    \* m_file_stat.st_size

ASSUME WriteIdx \in Nat \ {0} /\ FileSize \in Nat \ {0}

VARIABLES iv,         \* m_iv: [base0, len0, base1, len1], bases as offsets
          haveSend,   \* bytes_have_send
          toSend,     \* bytes_to_send
          delivered,  \* the bytes the client has received, in order
          pc          \* "loop" in write()'s while loop, "armed" after EAGAIN,
                      \* "sent" once bytes_to_send <= 0, "failed"

vars == <<iv, haveSend, toSend, delivered, pc>>

Mem(region, i) ==
    IF i \in 0..((IF region = "hdr" THEN WriteIdx ELSE FileSize) - 1)
    THEN <<region, i>> ELSE <<"junk", region, i>>

(* What writev(m_sockfd, m_iv, 2) sends when the kernel takes k bytes:    *)
(* the first k bytes of iov[0] followed by iov[1].                         *)
Gather(v, k) ==
    [j \in 1..k |-> IF j <= v.len0 THEN Mem("hdr", v.base0 + j - 1)
                    ELSE Mem("file", v.base1 + j - v.len0 - 1)]

(* process_write(FILE_REQUEST) with a non-empty file, after init():       *)
(* m_iv = {m_write_buf, m_write_idx}, {m_file_address, st_size},          *)
(* bytes_to_send = m_write_idx + st_size, bytes_have_send = 0.            *)
Init ==
    /\ iv = [base0 |-> 0, len0 |-> WriteIdx, base1 |-> 0, len1 |-> FileSize]
    /\ haveSend = 0
    /\ toSend = WriteIdx + FileSize
    /\ delivered = <<>>
    /\ pc = "loop"

(* The iovec after bytes_have_send bytes in all have gone out.             *)
Advance(v, have, left) ==
    IF have >= v.len0
    THEN [v EXCEPT !.len0 = 0, !.base1 = have - WriteIdx, !.len1 = left]
    ELSE [v EXCEPT !.base0 = have, !.len0 = v.len0 - have]

(* writev() returns k > 0: bytes_have_send += k, bytes_to_send -= k, the  *)
(* iovec is advanced, and the loop ends when bytes_to_send <= 0 (unmap,   *)
(* modfd EPOLLIN).                                                         *)
Writev ==
    /\ pc = "loop"
    /\ \E k \in 1..(iv.len0 + iv.len1) :
          /\ delivered' = delivered \o Gather(iv, k)
          /\ haveSend' = haveSend + k
          /\ toSend' = toSend - k
          /\ iv' = Advance(iv, haveSend + k, toSend - k)
          /\ pc' = IF toSend - k <= 0 THEN "sent" ELSE "loop"

(* writev() fails with EAGAIN: modfd(EPOLLOUT), write() returns true.      *)
WritevAgain ==
    /\ pc = "loop"
    /\ pc' = "armed"
    /\ UNCHANGED <<iv, haveSend, toSend, delivered>>

(* The socket is writable again: the reactor's EPOLLOUT branch calls       *)
(* write(), with bytes_to_send still non-zero.                             *)
WriteAgain ==
    /\ pc = "armed" /\ toSend # 0
    /\ pc' = "loop"
    /\ UNCHANGED <<iv, haveSend, toSend, delivered>>

(* writev() fails otherwise: unmap(), write() returns false.               *)
WritevError ==
    /\ pc = "loop"
    /\ pc' = "failed"
    /\ UNCHANGED <<iv, haveSend, toSend, delivered>>

Next == Writev \/ WritevAgain \/ WriteAgain \/ WritevError

Spec == Init /\ [][Next]_vars

-----------------------------------------------------------------------------
Response == [i \in 1..WriteIdx |-> <<"hdr", i - 1>>]
            \o [i \in 1..FileSize |-> <<"file", i - 1>>]

(* Whatever sizes the kernel accepts in each writev(), the client receives *)
(* a prefix of the header followed by the file, and all of it once write() *)
(* reports the response sent: no byte is skipped, repeated or read from   *)
(* outside the two buffers.                                                *)
ResponseIsHeaderThenFile ==
    /\ IsPrefix(delivered, Response)
    /\ pc = "sent" => delivered = Response
====

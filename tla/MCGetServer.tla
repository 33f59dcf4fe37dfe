---------------------------- MODULE MCGetServer ----------------------------
(***************************************************************************)
(* GetServer instantiated for TLC.  Four fd numbers and MAX_FD = 3: three  *)
(* open connections with a request each fill the queue of one worker      *)
(* (m_max_requests = 1 refuses a third entry), and a fourth client finds   *)
(* the server busy while an fd is still free.                              *)
(***************************************************************************)
EXTENDS GetServer

MCFds == {1, 2, 3, 4}
=============================================================================

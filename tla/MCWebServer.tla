---------------------------- MODULE MCWebServer ----------------------------
(***************************************************************************)
(* WebServer instantiated for TLC.  Two fd numbers make fd reuse happen;   *)
(* three connections let a closed connection's fd go to a later one; the  *)
(* two outcomes stand for the two branches of process(): a response is    *)
(* built (FILE_REQUEST; BAD_REQUEST and FORBIDDEN_REQUEST take the same    *)
(* path) or process_write() fails and close_conn() runs (NO_RESOURCE).     *)
(***************************************************************************)
EXTENDS WebServer

MCFds == {1, 2}
MCOutcomes == {"FILE_REQUEST", "NO_RESOURCE"}
=============================================================================

----------------------------- MODULE MCConnPool -----------------------------
(***************************************************************************)
(* The handle pool with as many leasing threads as handles, as main()      *)
(* sets it up (eight handles, eight pool threads), or with more threads    *)
(* than handles.                                                           *)
(***************************************************************************)
EXTENDS ConnPool

MCNull == "null"
=============================================================================

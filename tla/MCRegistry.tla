----------------------------- MODULE MCRegistry -----------------------------
(***************************************************************************)
(* The registry with two workers, two names and two passwords, starting    *)
(* from a table that already holds one user.                               *)
(***************************************************************************)
EXTENDS Registry

MCNone == "none"
MCTable == <<[user |-> "alice", passwd |-> "p1"]>>

(* Without a unique key the table can grow without end under repeated     *)
(* registrations; three rows are enough for two racing registrations.     *)
MCTableBound == Len(db) <= 3
=============================================================================

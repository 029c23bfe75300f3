------------------------------ MODULE MCLocks ------------------------------
(* The instances of MCThreads with the history of cut calls. *)
EXTENDS MCThreads, Locks
=============================================================================

----------------------------- MODULE MCTaskPool -----------------------------
(* Model values for TLC runs of TaskPool. *)
EXTENDS TaskPool
=============================================================================

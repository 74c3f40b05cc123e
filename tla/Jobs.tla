------------------------------ MODULE Jobs ------------------------------
(* The identities every component shares: the ids of the jobs table. *)
CONSTANT Job
=============================================================================

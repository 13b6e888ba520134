---------------------------- MODULE MCScheduler ----------------------------
(* Scheduler on one service with every verb, and on two services whose     *)
(* wakes evict each other.  The services are interchangeable; the symmetry *)
(* is used by the runs without liveness properties only.                   *)
EXTENDS Scheduler, TLC

Interchangeable == Permutations(Service)
=============================================================================

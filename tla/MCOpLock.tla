------------------------------ MODULE MCOpLock ------------------------------
(* OpLock on four outstanding acquisitions over two keys: enough for a     *)
(* multi-key operation between two single-key ones while a body above one  *)
(* of them makes a nested acquisition.  No symmetry: a run checks liveness.*)
EXTENDS OpLock
=============================================================================

--------------------------- MODULE MCDaemonUpkeep ---------------------------
(***************************************************************************)
(* A source of two runs and two writes; two processes and a lock that is   *)
(* stale after two beats; one container, two listings under way; two       *)
(* requests for two ports over three runs; two seconds, bytes and          *)
(* replacements; two sessions, short and long, over three days.            *)
(***************************************************************************)
EXTENDS DaemonUpkeep, TLC

CONSTANTS q1, q2, r1, r2, s1, s2, d1, d2

MCTtls == {1, 2}

(* What comes in two at each desk; at the others all are at rest, so the  *)
(* desks' pairs are interchanged together.                                 *)
Like(p, a, b) == IF p[q1] = q1 THEN a :> a @@ b :> b ELSE a :> b @@ b :> a
MCSymmetry == {p @@ Like(p, r1, r2) @@ Like(p, s1, s2) @@ Like(p, d1, d2) : p \in Permutations({q1, q2})}
=============================================================================

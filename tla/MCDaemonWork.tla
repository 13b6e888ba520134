---------------------------- MODULE MCDaemonWork ----------------------------
(***************************************************************************)
(* Two bindings and up to two pushes for one build slot; two creates with  *)
(* one deployment id of a template with a database and a web service; two  *)
(* creates on two names in a project whose default branch gains a service; *)
(* two operations on two names of managed services that two branches may   *)
(* carry; two services on three ports, one of which may be taken.          *)
(* What is named alike at two desks is interchanged at both, since a       *)
(* behaviour follows one; the run with liveness has no symmetry.           *)
(***************************************************************************)
EXTENDS DaemonWork, TLC

CONSTANTS b1, b2, c1, c2, x, y, p1, p2, m1, m2, o1, o2

MCManifest == <<"db", "web">>
MCDatabases == {"db"}
MCGrowing == {Main}

(* The permutations of {a, b}, each with the same one of {c, d}. *)
Both(a, b, c, d) == {[v \in {a, b, c, d} |-> CASE v \in {a, b} -> p[v]
                                                [] v = c -> IF p[a] = a THEN c ELSE d
                                                [] v = d -> IF p[a] = a THEN d ELSE c] : p \in Permutations({a, b})}
MCSymmetry == {f @@ g @@ h : f \in Both(b1, b2, p1, p2), g \in Both(c1, c2, m1, m2), h \in Both(x, y, o1, o2)}
=============================================================================

--------------------------- MODULE MCDataMigration ---------------------------
(* DataMigration for TLC. *)
EXTENDS DataMigration, TLC

MdPaths == Permutations(MdPath)
=============================================================================

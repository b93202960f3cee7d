-------------------------- MODULE MCStoreMigration --------------------------
(* Small instances of StoreMigration for TLC. *)
EXTENDS StoreMigration, TLC

ProcSymmetry == Permutations(Procs)
=============================================================================

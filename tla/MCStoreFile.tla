---------------------------- MODULE MCStoreFile ----------------------------
(* Small instances of StoreFile for TLC. *)
EXTENDS StoreFile, TLC

ProcSymmetry == Permutations(Procs)
=============================================================================

---------------------------- MODULE MCWorkbench ----------------------------
(* Workbench for TLC: the folders are interchangeable. *)
EXTENDS Workbench, TLC
FolderSymmetry == Permutations(Roots)
=============================================================================

------------------------------ MODULE MCDialFS ------------------------------
(***************************************************************************)
(* Instances of the DIALFS file system for TLC.                            *)
(***************************************************************************)
EXTENDS DialFS

\* The files may be exchanged for each other.
Simetria == Permutations(Nombres)
=============================================================================

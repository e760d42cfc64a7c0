-------------------------- MODULE MCConcordiaRuntime --------------------------
(***************************************************************************)
(* Instances of ConcordiaRuntime for TLC.  A buffer of 3 bytes with pages  *)
(* of 2 has a full and a short page; one of 1 byte has a single page, so   *)
(* that records can fail to fit and sizes can differ.                      *)
(***************************************************************************)
EXTENDS ConcordiaReplay, TLC

MCSymmetry == Permutations(Bytes)
MCLens == {1, 3}
=============================================================================

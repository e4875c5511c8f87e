---------------------------- MODULE MCCalibration ----------------------------
(***************************************************************************)
(* Calibration for TLC.  The identities of a kind are interchangeable.     *)
(***************************************************************************)
EXTENDS Calibration, TLC

Symmetry ==
  Permutations(Proposals) \cup Permutations(Approvals) \cup Permutations(Rollbacks)
=============================================================================

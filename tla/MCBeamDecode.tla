---------------------------- MODULE MCBeamDecode ----------------------------
(***************************************************************************)
(* BeamDecode for TLC.  Tokens are interchangeable: no action names one.   *)
(***************************************************************************)
EXTENDS BeamDecode, TLC

TokenSymmetry == Permutations(Tokens)
=============================================================================

--------------------- MODULE MC_StratumSessionBitcoin ----------------------
(* Model of one SHA256 session for TLC: one share tuple, one suggested     *)
(* minimum difficulty and one version-rolling mask.                       *)
EXTENDS StratumSessionBitcoin

CONSTANTS S1, D1, M1

MCNonces == {S1}
MCMinDiffs == {D1}
MCMasks == {M1}
=============================================================================

------------------------ MODULE MC_StratumSessionEth ------------------------
(* Model of one ETH session for TLC: two jobs, two nonces; N1 meets the   *)
(* share target of every job and N2 of none.                              *)
EXTENDS StratumSessionEth

CONSTANTS N1, N2

MCNonces == {N1, N2}
MCCheckShare == [p \in (1..MaxJobs) \X MCNonces |->
                    IF p[2] = N1 THEN "ACCEPT" ELSE "REJECT"]
=============================================================================

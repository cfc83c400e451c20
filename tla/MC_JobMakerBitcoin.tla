------------------------- MODULE MC_JobMakerBitcoin -------------------------
(***************************************************************************)
(* Instantiation of JobMakerBitcoin for TLC.  Times are scaled: one unit   *)
(* stands for about ten seconds, so the job interval is one unit, a        *)
(* non-empty template lives three and an empty one one; the order of     *)
(* these limits (empty < job interval * 2 < non-empty lifetime) is kept.  *)
(* The AuxPow age limit (60 s) is two units (one in jm_merged, so that an *)
(* aux block goes stale within the time bound) and the RSK work lifetime  *)
(* (120 s) one unit: shorter than the ratio, so that RSK work expires     *)
(* within MaxTime.                                                         *)
(***************************************************************************)
EXTENDS JobMakerBitcoin

CONSTANTS G1, G2, G3, A1, A2, R1, R2   \* hashes, model values

(* The job's algorithms: templates of up to six transactions, so levels  *)
(* of every parity up to three merges; a two-byte placeholder, up to four *)
(* bytes before it and three output bytes after nSequence.               *)
INSTANCE StratumJobBitcoin
    WITH MaxTxs <- 6, PlaceHolderLen <- 2, MaxPrefixLen <- 4, MaxOutLen <- 3

(* Every job the timer has published on the job topic was built by        *)
(* initFromGbt with a merkle branch that folds to its block's merkle root, *)
(* for a template of any size up to MaxTxs (makeMerkleBranch).            *)
PublishedMerkleBranchSound == lastJob # NoJob => MerkleBranchSound

(* Every published job's coinbase1_ and coinbase2_ meet at the placeholder *)
(* initFromGbt inserted, whatever bytes precede it (findExtraNonceStart).  *)
PublishedCoinbaseSplitSound == lastJob # NoJob => CoinbaseSplitsAtPlaceHolder

(* g1: a non-empty template of height 1; g2/g3: the empty and the        *)
(* non-empty template of height 2.  hashBits orders their job ids.        *)
MCTemplates ==
  { [hash |-> G1, height |-> 1, empty |-> FALSE, hashBits |-> 1],
    [hash |-> G2, height |-> 2, empty |-> TRUE,  hashBits |-> 0],
    [hash |-> G3, height |-> 2, empty |-> FALSE, hashBits |-> 2] }

MCAuxBlocks == { [hash |-> A1, height |-> 1], [hash |-> A2, height |-> 2] }

MCRskWorks == { [hash |-> R1, notify |-> TRUE], [hash |-> R2, notify |-> FALSE] }

(* A single template, for the runs about merged-mining traffic.          *)
MCOneTemplate == { [hash |-> G1, height |-> 1, empty |-> FALSE, hashBits |-> 1] }

(* Templates only: no merged-mining message arrives. *)
MCNoAux == {}
MCNoRsk == {}

(* The scriptSig bytes without the AuxPow tag: 4 (BIP34 height push) + 5  *)
(* (time push) + the coinbase info + 12 (extra-nonce placeholder).  A     *)
(* 9-byte tag gives 30; a 39-byte one gives 60, which fits a plain job but *)
(* not one with the 44-byte merged-mining tag.                             *)
MCShortCoinbase == {30}
MCCoinbaseScriptLens == {30, 60}
=============================================================================

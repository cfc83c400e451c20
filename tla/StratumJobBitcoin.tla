--------------------------- MODULE StratumJobBitcoin ---------------------------
(***************************************************************************)
(* The two pure algorithms StratumJobBitcoin::initFromGbt runs to build a  *)
(* job (StratumBitcoin.cc): the merkle branch a miner folds the coinbase   *)
(* hash with, and the split of the coinbase transaction into coinbase1_    *)
(* and coinbase2_ around the extra-nonce placeholder.                      *)
(*                                                                         *)
(* A transaction hash is a number, and Hash(a, b), the double SHA-256 of   *)
(* two concatenated hashes, is the pair <<a, b>>: a hash without           *)
(* collisions.  With distinct transaction hashes the shape of the result   *)
(* depends only on the number of transactions, so one list of each length *)
(* covers every template of that length.  Bytes are "EE", the              *)
(* placeholder's byte, and "00", any other byte.                           *)
(***************************************************************************)
EXTENDS Integers, Sequences, SequencesExt

CONSTANTS
    MaxTxs,          \* most non-coinbase transactions in a template
    PlaceHolderLen,  \* 4 + 8 bytes of 0xEE in the code, scaled
    MaxPrefixLen,    \* most bytes before the placeholder
    MaxOutLen        \* most bytes of the outputs after nSequence

ASSUME MaxTxs \in Nat /\ PlaceHolderLen \in Nat \ {0}

Hash(a, b) == <<a, b>>

Bytes == {"EE", "00"}

\* Mutant: the loop hashes each pair in the wrong order.
RECURSIVE branchLoop_swapped(_, _)
branchLoop_swapped(hashs, steps) ==
    IF Len(hashs) <= 1
    THEN Append(steps, hashs[1])
    ELSE LET padded == IF Len(hashs) % 2 = 0 THEN Append(hashs, Last(hashs))
                       ELSE hashs
         IN  branchLoop_swapped([i \in 1..(Len(padded) - 1) \div 2 |->
                                    Hash(padded[2 * i + 1], padded[2 * i])],
                                Append(steps, hashs[1]))

\* The while loop of makeMerkleBranch: push the first hash as a step; the
\* list, which leaves out the coinbase, has even length when the level with
\* the coinbase is odd, so repeat its last hash; merge the rest in pairs.
RECURSIVE branchLoop(_, _)
branchLoop(hashs, steps) ==
    IF Len(hashs) <= 1
    THEN Append(steps, hashs[1])
    ELSE LET padded == IF Len(hashs) % 2 = 0 THEN Append(hashs, Last(hashs))
                       ELSE hashs
         IN  branchLoop([i \in 1..(Len(padded) - 1) \div 2 |->
                            Hash(padded[2 * i], padded[2 * i + 1])],
                        Append(steps, hashs[1]))

\* makeMerkleBranch(vtxhashs, steps): no steps for a template with no
\* transaction besides the coinbase.
makeMerkleBranch(vtxhashs) ==
    IF vtxhashs = << >> THEN << >> ELSE branchLoop(vtxhashs, << >>)

\* const vector<char> placeHolder(4 + 8, 0xEE), appended to the scriptSig.
PlaceHolder == [i \in 1..PlaceHolderLen |-> "EE"]

\* The serialised coinbase transaction: the bytes up to the end of the
\* scriptSig, the input's nSequence 0xffffffff, then the outputs.
coinbaseTpl(scriptSig, outs) == scriptSig \o <<"FF">> \o outs

\* Mutant: the search runs from the front of the template.
findExtraNonceStart_fromFront(tpl, ph) ==
    LET hits == {i \in 0..(Len(tpl) - Len(ph)) : SubSeq(tpl, i + 1, i + Len(ph)) = ph}
    IN  IF hits = {} THEN -1 ELSE Min(hits)

\* findExtraNonceStart: the 0-based offset of the last occurrence of the
\* placeholder, searching from the end; -1 when there is none.
findExtraNonceStart(tpl, ph) ==
    LET hits == {i \in 0..(Len(tpl) - Len(ph)) : SubSeq(tpl, i + 1, i + Len(ph)) = ph}
    IN  IF hits = {} THEN -1 ELSE Max(hits)

\* coinbase1_ is the template before the placeholder found, coinbase2_ the
\* template after it.
splitCoinbase(tpl) ==
    LET s == findExtraNonceStart(tpl, PlaceHolder)
    IN  [coinbase1 |-> SubSeq(tpl, 1, s),
         coinbase2 |-> SubSeq(tpl, s + PlaceHolderLen + 1, Len(tpl))]

-----------------------------------------------------------------------------
\* The merkle root of a list of hashes, coinbase first, as a block header
\* commits to it: an odd level repeats its last hash.
RECURSIVE MerkleRoot(_)
MerkleRoot(level) ==
    IF Len(level) = 1 THEN level[1]
    ELSE LET p == IF Len(level) % 2 = 1 THEN Append(level, Last(level)) ELSE level
         IN  MerkleRoot([k \in 1..Len(p) \div 2 |-> Hash(p[2 * k - 1], p[2 * k])])

\* The merkle branch of every job is sound: the miner folds its coinbase
\* hash with the steps makeMerkleBranch produced, left to right, and gets
\* the merkle root of the whole block, whatever the number of transactions
\* (odd levels, even levels, none at all).
MerkleBranchSound ==
    \A n \in 0..MaxTxs :
        LET txs == [i \in 1..n |-> i]
        IN  FoldLeft(Hash, 0, makeMerkleBranch(txs)) = MerkleRoot(<<0>> \o txs)

\* The outputs contain the placeholder's bytes.
HasPlaceHolder(s) ==
    \E i \in 0..(Len(s) - PlaceHolderLen) : SubSeq(s, i + 1, i + PlaceHolderLen) = PlaceHolder

\* coinbase1_ and coinbase2_ are what the miner wraps extraNonce1 and
\* extraNonce2 in: whatever bytes the height, the time, coinbaseInfo and the
\* AuxPow tag put before the placeholder (0xEE bytes included), the split
\* falls exactly at the placeholder initFromGbt appended to the scriptSig,
\* provided the outputs do not repeat the placeholder's bytes.
CoinbaseSplitsAtPlaceHolder ==
    \A before \in SeqOf(Bytes, MaxPrefixLen), outs \in SeqOf(Bytes, MaxOutLen) :
        ~HasPlaceHolder(outs) =>
            splitCoinbase(coinbaseTpl(before \o PlaceHolder, outs)) =
                [coinbase1 |-> before, coinbase2 |-> <<"FF">> \o outs]
=============================================================================

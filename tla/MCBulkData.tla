----------------------------- MODULE MCBulkData -----------------------------
(***************************************************************************)
(* Small instances of BulkData for TLC.                                    *)
(***************************************************************************)
EXTENDS BulkDataInvariants, TLC

\* Sizes are in units of a third of a block.
MCBlock == [kind |-> "block", size |-> 3, data |-> "z"]
MCSmallPiece == [kind |-> "piece", size |-> 1, data |-> "z"]
MCLargePiece == [kind |-> "piece", size |-> 2, data |-> "x"]

MCMixed == {MCBlock, MCSmallPiece, MCLargePiece}

\* Contents without an "x" compress to one unit.
MCCompressedSize(content, n) ==
    IF n > 1 /\ \A i \in DOMAIN content : content[i] = "z" THEN 1 ELSE -1

Symmetry == Permutations(Workers)
=============================================================================

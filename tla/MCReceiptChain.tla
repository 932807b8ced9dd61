--------------------------- MODULE MCReceiptChain ---------------------------
(***************************************************************************)
(* Instances of ReceiptChain for TLC.                                      *)
(***************************************************************************)
EXTENDS ReceiptVerify, TLC

Symmetry == Permutations(Writers)
=============================================================================

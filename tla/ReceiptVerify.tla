--------------------------- MODULE ReceiptVerify ---------------------------
(***************************************************************************)
(* The loop of verify_chain_for_target and verifyChainRowsOrdered over the *)
(* receipts sorted by chain_sequence.  It stops at the first receipt that  *)
(* fails a check; the chain is intact when none does.                      *)
(***************************************************************************)
EXTENDS ReceiptChain, Functions

Ascending(chain) ==
  \A i, j \in DOMAIN chain : i < j => issued[chain[i]].seq <= issued[chain[j]].seq

\* Receipts of one number stand in any order.
InOrder(docs) == CHOOSE chain \in Bijection(1..Cardinality(docs), docs) : Ascending(chain)

\* Mutant: only the first receipt's link is checked.
CheckNumber(chain, k) ==
  /\ issued[chain[k]].seq = k - 1
  /\ k = 1 => issued[chain[k]].prev = 0
  /\ SignatureOK(chain[k])

\* The k-th receipt of the chain passes its checks.
CheckReceipt(chain, k) ==
  /\ issued[chain[k]].seq = k - 1
  /\ issued[chain[k]].prev = IF k = 1 THEN 0 ELSE chain[k - 1]
  /\ SignatureOK(chain[k])

ChainIntact(docs) ==
  LET chain == InOrder(docs) IN \A k \in DOMAIN chain : CheckReceipt(chain, k)

\* A line of descent: it has the receipt before each of its receipts, back to
\* one that follows none, and no two follow the same.
LineOfDescent(docs) ==
  /\ \A d \in docs : issued[d].prev # 0 => issued[d].prev \in docs
  /\ \A c, d \in docs : issued[c].prev = issued[d].prev => c = d

\* Without signatures, both verifiers report what is left intact exactly if it
\* is a line of descent, whatever the numbers that overlapping or dying writers
\* gave: they see two receipts on top of one, and a receipt missing below
\* another.  They see neither a fork of which one side was overwritten before
\* anything followed it, nor that the last receipts or rows are missing.
VerifierExact ==
  ~Signing => /\ ChainIntact(FileDocs) <=> LineOfDescent(FileDocs)
              /\ ChainIntact(rows) <=> LineOfDescent(rows)

\* "`debrief verify-chain <TARGET_UUID>` returns clean output"
\* (docs/DEMO_SCRIPT.md) for a chain of receipts that link up, signed or not.
VerifyChainClean == Linked(FileDocs) => ChainIntact(FileDocs)
=============================================================================

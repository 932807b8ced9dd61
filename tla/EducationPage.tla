--------------------------- MODULE EducationPage ---------------------------
(***************************************************************************)
(* The page that explains one run of a project (getEducationChainModelFor- *)
(* Run, buildEvidenceChainModel): which row of the target's chain it takes *)
(* for the run's receipt, and the state it shows at each of its nodes.     *)
(* Labels, texts and edges are left out.                                   *)
(***************************************************************************)
EXTENDS Naturals, Sequences, TLAPS

CONSTANTS RunIds,    \* the numbers of the table runs, as strings
          RunNames,  \* what receipts call runs: <time>-<commit>, gap-<uuid>
          Cves

None == "none"

Row == [runId : RunNames, receiptType : {"analysis", "gap"},
        anomalyFlagged : BOOLEAN, newCves : SUBSET Cves]

\* What is read for a page: whether the project has a target, the rows of its
\* chain in order and what the verifier says of them; whether the run has an
\* analysis and the status of its project; the keys; the secrets found.
View == [runId : RunIds, target : BOOLEAN, chain : Seq(Row),
         chainIntact : BOOLEAN, analysis : BOOLEAN, status : STRING,
         signing : BOOLEAN, secrets : Nat]

chainRows(v) == IF v.target THEN v.chain ELSE <<>>

minimal(v) == ~v.target \/ Len(chainRows(v)) = 0

matching(v) == {i \in DOMAIN chainRows(v) : chainRows(v)[i].runId = v.runId}

\* The first row whose runId is the number of the run.
receiptForRun(v) ==
  IF matching(v) = {} THEN None
  ELSE chainRows(v)[CHOOSE i \in matching(v) : \A j \in matching(v) : i <= j]

analyzerFailed(v) == ~v.analysis /\ v.status = "failed"

gapsCount(v) == {i \in DOMAIN chainRows(v) : chainRows(v)[i].receiptType = "gap"}

(***************************************************************************)
(* The states of the nodes                                                 *)
(***************************************************************************)
chainStatus(v) ==
  IF ~v.chainIntact THEN "broken" ELSE IF gapsCount(v) # {} THEN "partial" ELSE "intact"

analyzerState(v) ==
  LET rec == receiptForRun(v)
  IN  CASE analyzerFailed(v) -> "broken"
        [] ~analyzerFailed(v) /\ (minimal(v) \/ ~v.analysis) -> "idle"
        [] OTHER -> IF rec # None /\ (rec.anomalyFlagged \/ rec.newCves # {})
                    THEN "anomaly" ELSE "clean"

receiptCreationState(v) == IF v.analysis THEN "clean" ELSE "idle"

chainLinkState(v) == IF v.chainIntact THEN "clean" ELSE "broken"

receiptStoredState(v) ==
  LET rec == receiptForRun(v)
  IN  IF rec = None THEN "idle" ELSE IF rec.receiptType = "gap" THEN "gap" ELSE "healthy"

chainExportState(v) == IF v.signing /\ Len(chainRows(v)) > 0 THEN "healthy" ELSE "idle"

targetState(v) == IF v.secrets > 0 THEN "exposed" ELSE "clean"

MinimalNodes == {"target", "analyzer"}

Nodes(v) ==
  MinimalNodes \cup
  (IF minimal(v) THEN {} ELSE {"receipt-creation", "chain-link", "receipt-stored", "chain-export"})

\* What is listed at a node: the receipt's flag, its vulnerabilities, a gap,
\* and at the target the secrets.
anomalies(v, node) ==
  LET rec == IF minimal(v) /\ node = "target" THEN None ELSE receiptForRun(v)
  IN  (IF rec = None THEN {}
       ELSE (IF rec.anomalyFlagged THEN {"flagged"} ELSE {})
            \cup rec.newCves
            \cup (IF node \in {"receipt-stored", "chain-link"} /\ rec.receiptType = "gap"
                  THEN {"gap"} ELSE {}))
      \cup (IF node = "target" /\ v.secrets > 0 THEN {"secrets"} ELSE {})

(***************************************************************************)
(* What a page can show                                                    *)
(***************************************************************************)
\* No row bears the number of a run, so that no receipt is found.
LEMMA NoReceiptFound ==
  ASSUME RunIds \cap RunNames = {}, NEW v \in View
  PROVE  receiptForRun(v) = None
<1>1. chainRows(v) \in Seq(Row) /\ v.runId \in RunIds
  BY DEF View, chainRows
<1>2. \A i \in DOMAIN chainRows(v) : chainRows(v)[i].runId \in RunNames
  <2> TAKE i \in DOMAIN chainRows(v)
  <2>1. chainRows(v)[i] \in Row
    BY <1>1
  <2> QED BY <2>1 DEF Row
<1>3. matching(v) = {}
  BY <1>1, <1>2 DEF matching
<1> QED BY <1>3 DEF receiptForRun

\* The page never tells of the run's receipt: as long as receipts name runs
\* otherwise than the table runs numbers them, no page shows an anomaly at the
\* analyzer, a gap or a stored receipt, and none lists anything but secrets,
\* whatever the rows of the chain record.
THEOREM NothingTold ==
  ASSUME RunIds \cap RunNames = {}, NEW v \in View
  PROVE  /\ analyzerState(v) \in {"broken", "idle", "clean"}
         /\ receiptStoredState(v) = "idle"
         /\ \A node \in Nodes(v) : anomalies(v, node) \subseteq {"secrets"}
<1>1. receiptForRun(v) = None
  BY NoReceiptFound
<1>2. analyzerState(v) \in {"broken", "idle", "clean"}
  BY <1>1 DEF analyzerState
<1>3. receiptStoredState(v) = "idle"
  BY <1>1 DEF receiptStoredState
<1>4. \A node \in Nodes(v) : anomalies(v, node) \subseteq {"secrets"}
  BY <1>1 DEF anomalies
<1> QED BY <1>2, <1>3, <1>4
=============================================================================

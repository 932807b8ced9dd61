---------------------------- MODULE ReceiptChain ----------------------------
(***************************************************************************)
(* The evidence chain of one scheduled target.  A writer is one run of the *)
(* Python analyzer for the target, an analysis or a `record-gap', followed *)
(* by what the server does with its receipt.  The analyzer worker runs two *)
(* jobs at a time, the scheduler and POST /api/targets start runs of their *)
(* own, and nothing keeps two of them off one target.                      *)
(*                                                                         *)
(* The writer appends to the files of PTA_CHAIN_STATE_DIR/<target>:        *)
(* receipts/NNNNNN.json, then latest_receipt.json, from which the next     *)
(* writer takes the number and the hash to link to.  Path.write_text first *)
(* truncates its file and then fills it: a file is a receipt, 0 when it is *)
(* empty or absent, or Torn between two texts.  The server mirrors the     *)
(* receipt in receipt_chain and keeps the head of the chain in             *)
(* scheduled_targets.                                                      *)
(*                                                                         *)
(* A receipt carries its run's id, so no two are equal and SHA-256 keeps   *)
(* them apart: a receipt and its hash are both named by the receipt's      *)
(* position in `issued', and 0 is the null hash.                           *)
(***************************************************************************)
EXTENDS Integers, Sequences, FiniteSets

CONSTANTS
  Writers,     \* analyzer runs that can be in progress at once
  Signing,     \* a signing key or an HMAC secret is configured
  MaxReceipts, \* bound: runs start while this many have not been issued,
  MaxOverlap   \* bound: or this many once two runs are or were in progress

ASSUME SigningAssumption == Signing \in BOOLEAN

VARIABLES
  issued,      \* every receipt a numbered file was opened for, in that order
  file,        \* receipts/NNNNNN.json: number -> receipt, or 0
  latest,      \* latest_receipt.json: receipt, or 0
  outputs,     \* the receipts in the run directories of the target's project
  rows,        \* receipt_chain: the receipts that have a row
  target,      \* scheduled_targets: last_receipt_hash and chain_length
  writer,      \* [pc, kind, prior, doc] of every writer
  overlapped   \* history: two runs of the target were in progress at once

vars == <<issued, file, latest, outputs, rows, target, writer, overlapped>>

Kinds == {"analysis", "gap"}

(***************************************************************************)
(* A receipt is a JSON object.  It is signed over the fields it then has,  *)
(* less those signing_bytes leaves out.                                    *)
(***************************************************************************)
Fields == {"body", "signature", "chain_signature_algorithm", "signed",
           "signing_key_fingerprint"}

SigningPayload(fields) == fields \ {"signature", "chain_signature_algorithm"}

\* The fields of a receipt when sign_receipt is called, and in the end.
Drafted(kind) == {"body"}
Written(kind) ==
  Drafted(kind) \cup {"signature", "chain_signature_algorithm", "signed"}
                \cup (IF kind = "analysis" THEN {"signing_key_fingerprint"} ELSE {})

Receipt == [seq: Nat, prev: Nat, kind: Kinds, signature: SUBSET Fields]

\* Mutants: a number from the count of rows, gap receipts not counted, the
\* receipt's own hash instead of its predecessor's.
DraftByRows(kind, prior) ==
  [seq |-> Cardinality(rows), prev |-> prior, kind |-> kind, signature |-> {}]
DraftGapUncounted(kind, prior) ==
  [seq |-> IF prior = 0 \/ kind = "gap" THEN 0 ELSE issued[prior].seq + 1,
   prev |-> prior, kind |-> kind, signature |-> {}]
DraftSelfLinked(kind, prior) ==
  [seq |-> IF prior = 0 THEN 0 ELSE issued[prior].seq + 1,
   prev |-> Len(issued) + 1, kind |-> kind, signature |-> {}]

DraftReceipt(kind, prior) ==
  [seq |-> IF prior = 0 THEN 0 ELSE issued[prior].seq + 1,
   prev |-> prior,
   kind |-> kind,
   signature |-> IF Signing THEN SigningPayload(Drafted(kind)) ELSE {}]

SignatureOK(d) ==
  \/ issued[d].signature = {}
  \/ issued[d].signature = SigningPayload(Written(issued[d].kind))

WriterState ==
  [pc: {"idle", "started", "loaded", "numberedOpen", "numbered", "latestOpen",
        "persisted", "recorded"},
   kind: Kinds, prior: Nat, doc: Nat]

Resting == [pc |-> "idle", kind |-> "analysis", prior |-> 0, doc |-> 0]
Started(kind) == [pc |-> "started", kind |-> kind, prior |-> 0, doc |-> 0]

Init ==
  /\ issued = <<>>
  /\ file = <<>>
  /\ latest = 0
  /\ outputs = {}
  /\ rows = {}
  /\ target = [head |-> 0, length |-> 0]
  /\ writer = [w \in Writers |-> Resting]
  /\ overlapped = FALSE

Become(w, state) == writer' = [writer EXCEPT ![w] = state]
Goto(w, pc, prior, doc) ==
  Become(w, [pc |-> pc, kind |-> writer[w].kind, prior |-> prior, doc |-> doc])
Step(w, pc) == Goto(w, pc, writer[w].prior, writer[w].doc)
NumberOf(w) == issued[writer[w].doc].seq

\* The file f with receipt d as its number n.
Put(f, n, d) == [m \in DOMAIN f \cup {n} |-> IF m = n THEN d ELSE f[m]]

\* What a file holds once d is written at its start: d if it is empty, else d
\* or, where the longer text of another writer shows behind it, no JSON.
Torn == -1
Overlay(old, d) == IF old = 0 THEN {d} ELSE {d, Torn}

\* What load_latest_receipt makes of it.
Readable(content) == IF content = Torn THEN 0 ELSE content

InProgress == {w \in Writers : writer[w].pc # "idle"}

\* Bound: every writer in progress could still issue a receipt.
HasRoom ==
  Len(issued) + Cardinality({w \in Writers : writer[w].pc \in {"started", "loaded"}})
    < IF overlapped \/ InProgress # {} THEN MaxOverlap ELSE MaxReceipts

(***************************************************************************)
(* runProjectAnalysis removes the project's output directory before it     *)
(* starts the analyzer.  An analysis whose run directory goes away before  *)
(* it has written its receipt fails there.                                 *)
(***************************************************************************)
StartAnalysis(w) ==
  /\ writer[w].pc = "idle"
  /\ HasRoom
  /\ outputs' = {}
  /\ writer' = [v \in Writers |->
                  IF v = w THEN Started("analysis")
                  ELSE IF writer[v].pc = "loaded" /\ writer[v].kind = "analysis"
                       THEN Resting
                       ELSE writer[v]]
  /\ UNCHANGED <<issued, file, latest, rows, target>>

StartGap(w) ==
  /\ writer[w].pc = "idle"
  /\ HasRoom
  /\ Become(w, Started("gap"))
  /\ UNCHANGED <<issued, file, latest, outputs, rows, target>>

(***************************************************************************)
(* The analyzer process: load_latest_receipt, then                         *)
(* persist_receipt_to_chain_state.                                         *)
(***************************************************************************)
LoadLatest(w) ==
  /\ writer[w].pc = "started"
  /\ Goto(w, "loaded", Readable(latest), writer[w].doc)
  /\ UNCHANGED <<issued, file, latest, outputs, rows, target>>

\* An analysis has by then put its receipt into its run directory.
OpenNumbered(w) ==
  /\ writer[w].pc = "loaded"
  /\ LET receipt == DraftReceipt(writer[w].kind, writer[w].prior)
         doc == Len(issued) + 1
     IN  /\ issued' = Append(issued, receipt)
         /\ file' = Put(file, receipt.seq, 0)
         /\ outputs' = IF receipt.kind = "analysis" THEN outputs \cup {doc} ELSE outputs
         /\ Goto(w, "numberedOpen", writer[w].prior, doc)
  /\ UNCHANGED <<latest, rows, target>>

FillNumbered(w) ==
  /\ writer[w].pc = "numberedOpen"
  /\ \E d \in Overlay(file[NumberOf(w)], writer[w].doc) : file' = Put(file, NumberOf(w), d)
  /\ Step(w, "numbered")
  /\ UNCHANGED <<issued, latest, outputs, rows, target>>

OpenLatest(w) ==
  /\ writer[w].pc = "numbered"
  /\ latest' = 0
  /\ Step(w, "latestOpen")
  /\ UNCHANGED <<issued, file, outputs, rows, target>>

FillLatest(w) ==
  /\ writer[w].pc = "latestOpen"
  /\ latest' \in Overlay(latest, writer[w].doc)
  /\ Step(w, "persisted")
  /\ UNCHANGED <<issued, file, outputs, rows, target>>

(***************************************************************************)
(* The server: finalizeAnalysisReceiptChain or finalizeGapReceipt.         *)
(***************************************************************************)
\* A gap receipt is read from a directory of its own, an analysis receipt
\* from whichever run directory of the project sorts last.
Found(w) == IF writer[w].kind = "gap" THEN {writer[w].doc} ELSE outputs

\* Mutant: the receipt is taken while the analyzer still runs.
InsertRowEarly(w) ==
  /\ writer[w].pc \in {"numberedOpen", "persisted"}
  /\ \E d \in Found(w) \ rows :
       /\ rows' = rows \cup {d}
       /\ Goto(w, "recorded", writer[w].prior, d)
  /\ UNCHANGED <<issued, file, latest, outputs, target>>

\* receipt_hash is unique: a receipt that has its row is not inserted again.
InsertRow(w) ==
  /\ writer[w].pc = "persisted"
  /\ \E d \in Found(w) \ rows :
       /\ rows' = rows \cup {d}
       /\ Goto(w, "recorded", writer[w].prior, d)
  /\ UNCHANGED <<issued, file, latest, outputs, target>>

\* Mutant: the row is not waited for.
UpdateTargetFirst(w) ==
  /\ writer[w].pc \in {"persisted", "recorded"}
  /\ target' = [head |-> writer[w].doc, length |-> NumberOf(w) + 1]
  /\ Become(w, Resting)
  /\ UNCHANGED <<issued, file, latest, outputs, rows>>

UpdateTarget(w) ==
  /\ writer[w].pc = "recorded"
  /\ target' = [head |-> writer[w].doc, length |-> NumberOf(w) + 1]
  /\ Become(w, Resting)
  /\ UNCHANGED <<issued, file, latest, outputs, rows>>

\* The analyzer is killed or fails, before or after it has written its
\* receipt; the server dies, finds no receipt or a statement of it fails.
\* The queue may run the job again, as a run of its own.
Fail(w) ==
  /\ writer[w].pc # "idle"
  /\ Become(w, Resting)
  /\ UNCHANGED <<issued, file, latest, outputs, rows, target>>

Start(w) == StartAnalysis(w) \/ StartGap(w)
Persist(w) ==
  LoadLatest(w) \/ OpenNumbered(w) \/ FillNumbered(w) \/ OpenLatest(w) \/ FillLatest(w)
Finalize(w) == InsertRow(w) \/ UpdateTarget(w)

OneAtATime == \A v, w \in InProgress : v = w
Watch == overlapped' = (overlapped \/ ~OneAtATime')

Next ==
  \E w \in Writers : (Start(w) \/ Persist(w) \/ Finalize(w) \/ Fail(w)) /\ Watch

Spec == Init /\ [][Next]_vars

(***************************************************************************)
(* The verifiers: verify_chain_for_target reads the numbered files and     *)
(* verifyChainRowsOrdered the rows, both in the order of chain_sequence.   *)
(***************************************************************************)
FileDocs == {file[n] : n \in DOMAIN file} \ {0, Torn}

\* What a chain is: one receipt to a number, and every receipt links to the
\* one before it, the first to none.
Linked(docs) ==
  /\ \A c, d \in docs : issued[c].seq = issued[d].seq => c = d
  /\ \A d \in docs :
       IF issued[d].seq = 0 THEN issued[d].prev = 0
       ELSE /\ issued[d].prev \in docs
            /\ issued[issued[d].prev].seq + 1 = issued[d].seq

(***************************************************************************)
(* Properties                                                              *)
(***************************************************************************)
ChainTypeOK ==
  /\ issued \in Seq(Receipt)
  /\ \A i \in DOMAIN issued : issued[i].prev < i
  /\ DOMAIN file \subseteq Nat
  /\ \A n \in DOMAIN file : file[n] \in Torn..Len(issued)
  /\ latest \in Torn..Len(issued)
  /\ outputs \subseteq 1..Len(issued)
  /\ rows \subseteq 1..Len(issued)
  /\ target \in [head: 0..Len(issued), length: Nat]
  /\ writer \in [Writers -> WriterState]
  /\ \A w \in Writers : writer[w].prior \in 0..Len(issued) /\ writer[w].doc \in 0..Len(issued)

TypeOK == ChainTypeOK /\ overlapped \in BOOLEAN

\* Two receipts were issued on top of the same one, or two on top of none.
Forked ==
  \E c, d \in DOMAIN issued : c # d /\ issued[c].prev = issued[d].prev

\* The files on disk are a chain at every moment, however writers overlap,
\* die and leave files half written, as long as no two receipts were issued
\* on top of the same one: overlapping writers and lost latest files harm the
\* chain in that way only.
FilesLinkedUnlessForked == ~Forked => Linked(FileDocs)

\* The head that scheduled_targets shows always has a row of that number, as
\* finalizeAnalysisReceiptChain inserts the row first.
HeadHasRow ==
  target.length > 0 => target.head \in rows /\ issued[target.head].seq + 1 = target.length

\* A genesis receipt was issued after a receipt that links to another, as
\* load_latest_receipt does when it cannot read latest_receipt.json.
Restarted ==
  \E c, d \in DOMAIN issued : c < d /\ issued[c].prev # 0 /\ issued[d].prev = 0

\* Runs that never overlap may be killed anywhere: unless the chain restarts,
\* the files stay a chain.  The next run reuses the number of a receipt that
\* never became the latest.
FilesLinkedUnlessRestarted == ~overlapped /\ ~Restarted => Linked(FileDocs)

\* ... no receipt that has a row is ever overwritten ...
RowsKeptUnlessRestarted == ~overlapped /\ ~Restarted => rows \subseteq FileDocs

\* ... and the length shown for the target never goes back.
LengthNeverShrinks ==
  [][~overlapped' /\ ~Restarted' => target.length <= target'.length]_vars
=============================================================================

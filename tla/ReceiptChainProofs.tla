------------------------- MODULE ReceiptChainProofs -------------------------
(***************************************************************************)
(* Proofs about ReceiptChain, for any number of overlapping writers (IInv) *)
(* and, for the properties of a chain that does not restart, for writers   *)
(* of any number until two of them overlap (Solo on top of IInv); and      *)
(* about the verifiers of ReceiptVerify, for any set of receipts.          *)
(***************************************************************************)
EXTENDS ReceiptVerify, SequenceTheorems, FiniteSetTheorems, TLAPS

\* The writers that hold a receipt of their own, not yet the latest.
Holding(w) == writer[w].pc \in {"numberedOpen", "numbered", "latestOpen"}

\* A number is one more than that of the receipt linked to.
NumbersFollowLinks ==
  \A d \in DOMAIN issued :
    issued[d].seq = IF issued[d].prev = 0 THEN 0 ELSE issued[issued[d].prev].seq + 1

\* A file holds a receipt of its number, or nothing.
FilesOfTheirNumber ==
  \A n \in DOMAIN file : file[n] \notin {0, Torn} => issued[file[n]].seq = n

\* Nobody knows a receipt before its writer fills latest_receipt.json.
HeldUnknown ==
  \A w \in Writers : Holding(w) =>
    /\ writer[w].doc # 0
    /\ latest # writer[w].doc
    /\ \A v \in Writers : writer[v].pc = "loaded" => writer[v].prior # writer[w].doc
    /\ \A d \in DOMAIN issued : issued[d].prev # writer[w].doc
    /\ \A v \in Writers : Holding(v) /\ v # w => writer[v].doc # writer[w].doc

NumbersDistinct ==
  ~Forked => \A c, d \in DOMAIN issued : issued[c].seq = issued[d].seq => c = d

\* The receipts the next link can go to, or an existing one goes to.
Known(d) ==
  \/ d = latest
  \/ \E w \in Writers : writer[w].pc = "loaded" /\ writer[w].prior = d
  \/ \E c \in DOMAIN issued : issued[c].prev = d
  \/ \E w \in Writers : writer[w].pc \in {"numbered", "latestOpen"} /\ writer[w].doc = d

InItsFile(d) == issued[d].seq \in DOMAIN file /\ file[issued[d].seq] = d

KnownInFile == ~Forked => \A d \in DOMAIN issued : Known(d) => InItsFile(d)

OpenIsEmpty ==
  \A w \in Writers : writer[w].pc = "numberedOpen" =>
    /\ NumberOf(w) \in DOMAIN file
    /\ ~Forked => file[NumberOf(w)] = 0

\* A writer has a receipt from the moment it persists one, and its row later.
FinishedHasReceipt ==
  \A w \in Writers :
    /\ writer[w].pc = "persisted" => writer[w].doc # 0
    /\ writer[w].pc = "recorded" => writer[w].doc \in rows

IInv ==
  /\ ChainTypeOK
  /\ NumbersFollowLinks
  /\ FilesOfTheirNumber
  /\ HeldUnknown
  /\ NumbersDistinct
  /\ KnownInFile
  /\ OpenIsEmpty
  /\ FinishedHasReceipt
  /\ HeadHasRow

-----------------------------------------------------------------------------
\* What the type of the issued receipts gives.
LEMMA DomIssued ==
  ASSUME ChainTypeOK
  PROVE  /\ DOMAIN issued = 1..Len(issued)
         /\ Len(issued) \in Nat
         /\ \A d \in DOMAIN issued :
              /\ issued[d] \in Receipt
              /\ issued[d].seq \in Nat
              /\ issued[d].prev \in Nat
              /\ issued[d].prev < d
              /\ issued[d].prev # 0 => issued[d].prev \in DOMAIN issued
<1>1. /\ issued \in Seq(Receipt)
      /\ DOMAIN issued = 1..Len(issued)
      /\ Len(issued) \in Nat
  BY DEF ChainTypeOK
<1>2. \A d \in DOMAIN issued : issued[d] \in Receipt
  BY <1>1
<1>3. \A d \in DOMAIN issued : issued[d].seq \in Nat /\ issued[d].prev \in Nat
  BY <1>2 DEF Receipt
<1>4. \A d \in DOMAIN issued : issued[d].prev < d
  BY DEF ChainTypeOK
<1>5. \A d \in DOMAIN issued : issued[d].prev # 0 => issued[d].prev \in DOMAIN issued
  BY <1>1, <1>3, <1>4
<1>6. QED
  BY <1>1, <1>2, <1>3, <1>4, <1>5

\* A chain without receipts.
LEMMA InitIInv == Init => IInv
<1>. SUFFICES ASSUME Init
              PROVE  IInv
  OBVIOUS
<1>1. issued \in Seq(Receipt) /\ Len(issued) = 0 /\ DOMAIN issued = {} /\ DOMAIN file = {}
  BY DEF Init
<1>2. \A w \in Writers : writer[w].pc = "idle" /\ writer[w] \in WriterState
  BY DEF Init, Resting, WriterState, Kinds
<1>3. ChainTypeOK
  BY <1>1, <1>2 DEF Init, ChainTypeOK, Resting, Torn
<1>4. QED
  BY <1>1, <1>2, <1>3 DEF Init, IInv, NumbersFollowLinks, FilesOfTheirNumber, HeldUnknown,
     Holding, NumbersDistinct, KnownInFile, OpenIsEmpty, FinishedHasReceipt, HeadHasRow

-----------------------------------------------------------------------------
(***************************************************************************)
(* Steps that touch neither the receipts nor the numbered files            *)
(***************************************************************************)
\* What holds of receipts and files holds after a step by which writers only
\* stop, start or get a row.
LEMMA Quiet ==
  ASSUME IInv,
         UNCHANGED <<issued, file, latest>>,
         \A v \in Writers : \/ writer'[v] = writer[v]
                            \/ writer'[v].pc \in {"idle", "started", "recorded"}
  PROVE  /\ NumbersFollowLinks'
         /\ FilesOfTheirNumber'
         /\ HeldUnknown'
         /\ NumbersDistinct'
         /\ KnownInFile'
         /\ OpenIsEmpty'
<1>1. Forked' = Forked
  BY DEF Forked
<1>2. NumbersFollowLinks' /\ FilesOfTheirNumber'
  BY DEF IInv, NumbersFollowLinks, FilesOfTheirNumber
<1>3. NumbersDistinct'
  BY <1>1 DEF IInv, NumbersDistinct
<1>4. HeldUnknown'
  BY DEF IInv, HeldUnknown, Holding
<1>5. \A d \in DOMAIN issued : Known(d)' => Known(d)
  BY DEF Known
<1>6. KnownInFile'
  BY <1>1, <1>5 DEF IInv, KnownInFile, InItsFile
<1>7. OpenIsEmpty'
  BY <1>1 DEF IInv, OpenIsEmpty, NumberOf
<1>8. QED
  BY <1>2, <1>3, <1>4, <1>6, <1>7

\* What a writer's move changes.
LEMMA Move ==
  ASSUME ChainTypeOK, NEW w \in Writers,
         NEW pc \in {"loaded", "numberedOpen", "numbered", "latestOpen", "persisted", "recorded"},
         NEW prior \in Nat, NEW doc \in Nat, Goto(w, pc, prior, doc)
  PROVE  /\ writer' \in [Writers -> WriterState]
         /\ writer'[w].pc = pc /\ writer'[w].prior = prior /\ writer'[w].doc = doc
         /\ writer'[w].kind = writer[w].kind
         /\ \A v \in Writers \ {w} : writer'[v] = writer[v]
<1>1. writer \in [Writers -> WriterState] /\ writer[w].kind \in Kinds
  BY DEF ChainTypeOK, WriterState
<1>2. [pc |-> pc, kind |-> writer[w].kind, prior |-> prior, doc |-> doc] \in WriterState
  BY <1>1 DEF WriterState
<1>3. QED
  BY <1>1, <1>2 DEF Goto, Become

\* A run starts: it holds nothing yet.
LEMMA StartStep ==
  ASSUME IInv, NEW w \in Writers, StartAnalysis(w) \/ StartGap(w)
  PROVE  IInv'
<1>1. Resting \in WriterState /\ \A k \in Kinds : Started(k) \in WriterState
  BY DEF Resting, Started, WriterState, Kinds
<1>2. writer \in [Writers -> WriterState] /\ {"analysis", "gap"} = Kinds
  BY DEF IInv, ChainTypeOK, Kinds
<1>3. /\ UNCHANGED <<issued, file, latest, rows, target>>
      /\ outputs' \subseteq outputs
  BY DEF StartAnalysis, StartGap
<1>4. \A v \in Writers : writer'[v] \in {writer[v], Resting, Started("analysis"), Started("gap")}
  BY <1>2 DEF StartAnalysis, StartGap, Become
<1>5. writer' \in [Writers -> WriterState]
  BY <1>1, <1>2 DEF StartAnalysis, StartGap, Become
<1>6. \A v \in Writers : \/ writer'[v] = writer[v]
                         \/ /\ writer'[v].pc \in {"idle", "started"}
                            /\ writer'[v].prior = 0
                            /\ writer'[v].doc = 0
  BY <1>4 DEF Resting, Started
<1>7. ChainTypeOK'
  BY <1>3, <1>5, <1>6, DomIssued DEF IInv, ChainTypeOK
<1>8. FinishedHasReceipt' /\ HeadHasRow'
  BY <1>3, <1>6 DEF IInv, FinishedHasReceipt, HeadHasRow
<1>9. QED
  BY <1>3, <1>6, <1>7, <1>8, Quiet DEF IInv

\* A writer that stops holds nothing any more.
LEMMA StopStep ==
  ASSUME IInv, NEW w \in Writers, Become(w, Resting), UNCHANGED <<issued, file, latest, rows>>
  PROVE  /\ writer' \in [Writers -> WriterState]
         /\ \A v \in Writers : \/ writer'[v] = writer[v]
                               \/ /\ writer'[v].pc = "idle"
                                  /\ writer'[v].prior = 0
                                  /\ writer'[v].doc = 0
         /\ FinishedHasReceipt'
<1>1. Resting \in WriterState
  BY DEF Resting, WriterState, Kinds
<1>2. \A v \in Writers : writer'[v] \in {writer[v], Resting}
  BY DEF IInv, ChainTypeOK, Become
<1>3. writer' \in [Writers -> WriterState]
  BY <1>1 DEF IInv, ChainTypeOK, Become
<1>4. \A v \in Writers : \/ writer'[v] = writer[v]
                         \/ /\ writer'[v].pc = "idle"
                            /\ writer'[v].prior = 0
                            /\ writer'[v].doc = 0
  BY <1>2 DEF Resting
<1>5. FinishedHasReceipt'
  BY <1>4 DEF IInv, FinishedHasReceipt
<1>6. QED
  BY <1>3, <1>4, <1>5

\* A writer that fails leaves files, rows and head as they are.
LEMMA FailStep ==
  ASSUME IInv, NEW w \in Writers, Fail(w)
  PROVE  IInv'
<1>1. Become(w, Resting) /\ UNCHANGED <<issued, file, latest, outputs, rows, target>>
  BY DEF Fail
<1>2. ChainTypeOK'
  BY <1>1, StopStep, DomIssued DEF IInv, ChainTypeOK
<1>3. HeadHasRow'
  BY <1>1 DEF IInv, HeadHasRow
<1>4. QED
  BY <1>1, <1>2, <1>3, StopStep, Quiet DEF IInv

\* The head is moved to a receipt that has its row.
LEMMA UpdateTargetStep ==
  ASSUME IInv, NEW w \in Writers, UpdateTarget(w)
  PROVE  IInv'
<1>1. Become(w, Resting) /\ UNCHANGED <<issued, file, latest, outputs, rows>>
  BY DEF UpdateTarget
<1>2. /\ target' = [head |-> writer[w].doc, length |-> NumberOf(w) + 1]
      /\ writer[w].doc \in rows
  BY DEF UpdateTarget, IInv, FinishedHasReceipt
<1>3. writer[w].doc \in DOMAIN issued /\ NumberOf(w) \in Nat
  BY <1>2, DomIssued DEF IInv, ChainTypeOK, NumberOf
<1>4. target' \in [head: 0..Len(issued), length: Nat]
  BY <1>2, <1>3, DomIssued DEF IInv
<1>5. ChainTypeOK'
  <2>1. /\ writer' \in [Writers -> WriterState]
        /\ \A v \in Writers :
             writer'[v].prior \in 0..Len(issued) /\ writer'[v].doc \in 0..Len(issued)
    BY <1>1, StopStep, DomIssued DEF IInv, ChainTypeOK
  <2>2. QED
    BY <1>1, <1>4, <2>1 DEF IInv, ChainTypeOK
<1>6. HeadHasRow'
  BY <1>1, <1>2, <1>3 DEF HeadHasRow, NumberOf
<1>7. QED
  BY <1>1, <1>5, <1>6, StopStep, Quiet DEF IInv

\* A row is added, and none is taken away.
LEMMA InsertRowStep ==
  ASSUME IInv, NEW w \in Writers, InsertRow(w)
  PROVE  IInv'
<1>1. PICK d \in Found(w) \ rows :
        rows' = rows \cup {d} /\ Goto(w, "recorded", writer[w].prior, d)
  BY DEF InsertRow
<1>2. UNCHANGED <<issued, file, latest, outputs, target>>
  BY DEF InsertRow
<1>3. d \in 1..Len(issued) /\ writer[w].prior \in 0..Len(issued) /\ Len(issued) \in Nat
  <2>1. writer[w].doc \in 1..Len(issued)
    BY DomIssued DEF InsertRow, IInv, ChainTypeOK, FinishedHasReceipt
  <2>2. QED
    BY <2>1, DomIssued DEF Found, IInv, ChainTypeOK
<1>4. /\ writer' \in [Writers -> WriterState]
      /\ writer'[w].pc = "recorded" /\ writer'[w].doc = d
      /\ writer'[w].prior = writer[w].prior
      /\ \A v \in Writers \ {w} : writer'[v] = writer[v]
  BY <1>1, <1>3, Move DEF IInv
<1>5. ChainTypeOK'
  BY <1>1, <1>2, <1>3, <1>4 DEF IInv, ChainTypeOK, Torn
<1>6. FinishedHasReceipt' /\ HeadHasRow'
  BY <1>1, <1>2, <1>4 DEF IInv, FinishedHasReceipt, HeadHasRow
<1>7. \A v \in Writers : writer'[v] = writer[v] \/ writer'[v].pc = "recorded"
  BY <1>4
<1>8. QED
  BY <1>2, <1>5, <1>6, <1>7, Quiet DEF IInv

-----------------------------------------------------------------------------
(***************************************************************************)
(* Steps of the analyzer process                                           *)
(***************************************************************************)
LEMMA LoadLatestStep ==
  ASSUME IInv, NEW w \in Writers, LoadLatest(w)
  PROVE  IInv'
<1>1. /\ writer[w].pc = "started"
      /\ Goto(w, "loaded", Readable(latest), writer[w].doc)
      /\ UNCHANGED <<issued, file, latest, outputs, rows, target>>
  BY DEF LoadLatest
<1>2. /\ Readable(latest) \in 0..Len(issued) /\ Readable(latest) \in {latest, 0}
      /\ writer[w].doc \in 0..Len(issued) /\ Len(issued) \in Nat
  BY DomIssued DEF IInv, ChainTypeOK, Readable, Torn
<1>3. /\ writer' \in [Writers -> WriterState]
      /\ writer'[w].pc = "loaded" /\ writer'[w].prior = Readable(latest)
      /\ writer'[w].doc = writer[w].doc
      /\ \A v \in Writers \ {w} : writer'[v] = writer[v]
  BY <1>1, <1>2, Move DEF IInv
<1>4. ChainTypeOK'
  BY <1>1, <1>2, <1>3 DEF IInv, ChainTypeOK
<1>5. Forked' = Forked
  BY <1>1 DEF Forked
<1>6. NumbersFollowLinks' /\ FilesOfTheirNumber' /\ NumbersDistinct'
  BY <1>1, <1>5 DEF IInv, NumbersFollowLinks, FilesOfTheirNumber, NumbersDistinct
<1>7. HeldUnknown'
  BY <1>1, <1>2, <1>3 DEF IInv, HeldUnknown, Holding
<1>8. KnownInFile'
  <2>1. \A d \in DOMAIN issued : d # 0
    BY DomIssued DEF IInv
  <2>2. \A d \in DOMAIN issued : Known(d)' => Known(d)
    BY <1>1, <1>2, <1>3, <2>1 DEF Known
  <2>3. QED
    BY <1>1, <1>5, <2>2 DEF IInv, KnownInFile, InItsFile
<1>9. OpenIsEmpty' /\ FinishedHasReceipt' /\ HeadHasRow'
  BY <1>1, <1>3, <1>5 DEF IInv, OpenIsEmpty, NumberOf, FinishedHasReceipt, HeadHasRow
<1>10. QED
  BY <1>4, <1>6, <1>7, <1>8, <1>9 DEF IInv

\* The latest receipt is truncated: fewer receipts are known.
LEMMA OpenLatestStep ==
  ASSUME IInv, NEW w \in Writers, OpenLatest(w)
  PROVE  IInv'
<1>1. /\ writer[w].pc = "numbered"
      /\ latest' = 0
      /\ Goto(w, "latestOpen", writer[w].prior, writer[w].doc)
      /\ UNCHANGED <<issued, file, outputs, rows, target>>
  BY DEF OpenLatest, Step
<1>2. writer[w].prior \in 0..Len(issued) /\ writer[w].doc \in 0..Len(issued) /\ Len(issued) \in Nat
  BY DomIssued DEF IInv, ChainTypeOK
<1>3. /\ writer' \in [Writers -> WriterState]
      /\ writer'[w].pc = "latestOpen" /\ writer'[w].prior = writer[w].prior
      /\ writer'[w].doc = writer[w].doc
      /\ \A v \in Writers \ {w} : writer'[v] = writer[v]
  BY <1>1, <1>2, Move DEF IInv
<1>4. ChainTypeOK'
  BY <1>1, <1>2, <1>3 DEF IInv, ChainTypeOK, Torn
<1>5. Forked' = Forked
  BY <1>1 DEF Forked
<1>6. NumbersFollowLinks' /\ FilesOfTheirNumber' /\ NumbersDistinct'
  BY <1>1, <1>5 DEF IInv, NumbersFollowLinks, FilesOfTheirNumber, NumbersDistinct
<1>7. HeldUnknown'
  BY <1>1, <1>3 DEF IInv, HeldUnknown, Holding
<1>8. KnownInFile'
  <2>1. \A d \in DOMAIN issued : d # 0
    BY DomIssued DEF IInv
  <2>2. \A d \in DOMAIN issued : Known(d)' => Known(d)
    BY <1>1, <1>3, <2>1 DEF Known
  <2>3. QED
    BY <1>1, <1>5, <2>2 DEF IInv, KnownInFile, InItsFile
<1>9. OpenIsEmpty' /\ FinishedHasReceipt' /\ HeadHasRow'
  BY <1>1, <1>3, <1>5 DEF IInv, OpenIsEmpty, NumberOf, FinishedHasReceipt, HeadHasRow
<1>10. QED
  BY <1>4, <1>6, <1>7, <1>8, <1>9 DEF IInv

\* The latest receipt is filled: the receipt of the writer gets known.
LEMMA FillLatestStep ==
  ASSUME IInv, NEW w \in Writers, FillLatest(w)
  PROVE  IInv'
<1>1. /\ writer[w].pc = "latestOpen"
      /\ latest' \in {writer[w].doc, Torn}
      /\ Goto(w, "persisted", writer[w].prior, writer[w].doc)
      /\ UNCHANGED <<issued, file, outputs, rows, target>>
  BY DEF FillLatest, Step, Overlay
<1>2. writer[w].prior \in 0..Len(issued) /\ writer[w].doc \in 0..Len(issued) /\ Len(issued) \in Nat
  BY DomIssued DEF IInv, ChainTypeOK
<1>3. /\ writer' \in [Writers -> WriterState]
      /\ writer'[w].pc = "persisted" /\ writer'[w].prior = writer[w].prior
      /\ writer'[w].doc = writer[w].doc
      /\ \A v \in Writers \ {w} : writer'[v] = writer[v]
  BY <1>1, <1>2, Move DEF IInv
<1>4. ChainTypeOK'
  BY <1>1, <1>2, <1>3 DEF IInv, ChainTypeOK, Torn
<1>5. Forked' = Forked
  BY <1>1 DEF Forked
<1>6. NumbersFollowLinks' /\ FilesOfTheirNumber' /\ NumbersDistinct'
  BY <1>1, <1>5 DEF IInv, NumbersFollowLinks, FilesOfTheirNumber, NumbersDistinct
<1>7. HeldUnknown'
  <2>1. \A v \in Writers : writer[v].doc # Torn
    BY <1>2 DEF IInv, ChainTypeOK, Torn
  <2>2. QED
    BY <1>1, <1>3, <2>1 DEF IInv, HeldUnknown, Holding
<1>8. KnownInFile'
  <2>1. \A d \in DOMAIN issued : d # Torn
    BY DomIssued DEF IInv, Torn
  <2>2. \A d \in DOMAIN issued : Known(d)' => Known(d)
    BY <1>1, <1>3, <2>1 DEF Known
  <2>3. QED
    BY <1>1, <1>5, <2>2 DEF IInv, KnownInFile, InItsFile
<1>9. OpenIsEmpty' /\ HeadHasRow'
  BY <1>1, <1>3, <1>5 DEF IInv, OpenIsEmpty, NumberOf, HeadHasRow
<1>10. FinishedHasReceipt'
  BY <1>1, <1>3 DEF IInv, FinishedHasReceipt, HeldUnknown, Holding
<1>11. QED
  BY <1>4, <1>6, <1>7, <1>8, <1>9, <1>10 DEF IInv

\* Writing number n leaves the files of the other numbers alone.
LEMMA PutFacts ==
  ASSUME NEW n \in Nat, NEW d, file' = Put(file, n, d)
  PROVE  /\ DOMAIN file' = DOMAIN file \cup {n}
         /\ file'[n] = d
         /\ \A m \in DOMAIN file : m # n => file'[m] = file[m]
  BY DEF Put

\* The numbered file is filled, with the receipt or with a torn text.
LEMMA FillNumberedStep ==
  ASSUME IInv, NEW w \in Writers, FillNumbered(w)
  PROVE  IInv'
<1>. DEFINE doc == writer[w].doc
            n == NumberOf(w)
<1>1. PICK d \in Overlay(file[n], doc) : file' = Put(file, n, d)
  BY DEF FillNumbered
<1>2. /\ writer[w].pc = "numberedOpen"
      /\ Goto(w, "numbered", writer[w].prior, doc)
      /\ UNCHANGED <<issued, latest, outputs, rows, target>>
  BY DEF FillNumbered, Step
<1>3. writer[w].prior \in 0..Len(issued) /\ doc \in 0..Len(issued) /\ Len(issued) \in Nat
  BY DomIssued DEF IInv, ChainTypeOK
<1>4. /\ writer' \in [Writers -> WriterState]
      /\ writer'[w].pc = "numbered" /\ writer'[w].prior = writer[w].prior
      /\ writer'[w].doc = doc
      /\ \A v \in Writers \ {w} : writer'[v] = writer[v]
  BY <1>2, <1>3, Move DEF IInv
<1>5. doc \in DOMAIN issued /\ n = issued[doc].seq /\ n \in Nat
  <2>1. doc # 0
    BY <1>2 DEF IInv, HeldUnknown, Holding
  <2>2. QED
    BY <1>3, <2>1, DomIssued DEF IInv, NumberOf
<1>6. /\ DOMAIN file' = DOMAIN file \cup {n}
      /\ file'[n] = d
      /\ \A m \in DOMAIN file : m # n => file'[m] = file[m]
  BY <1>1, <1>5, PutFacts
<1>7. Forked' = Forked
  BY <1>2 DEF Forked
<1>8. d \in {doc, Torn} /\ (~Forked => d = doc)
  BY <1>1, <1>2 DEF Overlay, IInv, OpenIsEmpty
<1>9. ChainTypeOK'
  <2>1. \A m \in DOMAIN file' : m \in Nat /\ file'[m] \in Torn..Len(issued)
    BY <1>3, <1>5, <1>6, <1>8 DEF IInv, ChainTypeOK, Torn
  <2>2. QED
    BY <1>2, <1>3, <1>4, <2>1 DEF IInv, ChainTypeOK
<1>10. NumbersFollowLinks' /\ NumbersDistinct' /\ FinishedHasReceipt' /\ HeadHasRow'
  BY <1>2, <1>4, <1>7 DEF IInv, NumbersFollowLinks, NumbersDistinct, FinishedHasReceipt, HeadHasRow
<1>11. FilesOfTheirNumber'
  BY <1>2, <1>5, <1>6, <1>8 DEF IInv, FilesOfTheirNumber
<1>12. HeldUnknown'
  BY <1>2, <1>4 DEF IInv, HeldUnknown, Holding
<1>13. KnownInFile'
  <2>. SUFFICES ASSUME ~Forked, NEW c \in DOMAIN issued, Known(c)'
                PROVE  InItsFile(c)'
    BY <1>2, <1>7 DEF KnownInFile
  <2>1. CASE c = doc
    BY <2>1, <1>2, <1>5, <1>6, <1>8 DEF InItsFile
  <2>2. CASE c # doc
    <3>1. Known(c)
      BY <2>2, <1>2, <1>4 DEF Known
    <3>2. InItsFile(c) /\ issued[c].seq # n
      BY <3>1, <2>2, <1>5 DEF IInv, KnownInFile, NumbersDistinct
    <3>3. QED
      BY <3>2, <1>2, <1>6 DEF InItsFile
  <2>3. QED
    BY <2>1, <2>2
<1>14. OpenIsEmpty'
  <2>. SUFFICES ASSUME NEW v \in Writers, writer'[v].pc = "numberedOpen"
                PROVE  NumberOf(v)' \in DOMAIN file' /\ (~Forked => file'[NumberOf(v)'] = 0)
    BY <1>7 DEF OpenIsEmpty
  <2>1. v # w /\ writer[v].pc = "numberedOpen" /\ NumberOf(v)' = NumberOf(v)
    BY <1>2, <1>4 DEF NumberOf
  <2>2. NumberOf(v) \in DOMAIN file /\ (~Forked => file[NumberOf(v)] = 0)
    BY <2>1 DEF IInv, OpenIsEmpty
  <2>3. writer[v].doc # doc /\ writer[v].doc \in DOMAIN issued
    <3>1. writer[v].doc # doc /\ writer[v].doc # 0
      BY <1>2, <2>1 DEF IInv, HeldUnknown, Holding
    <3>2. QED
      BY <3>1, DomIssued DEF IInv, ChainTypeOK
  <2>4. ~Forked => NumberOf(v) # n
    BY <1>5, <2>3 DEF IInv, NumbersDistinct, NumberOf
  <2>5. QED
    BY <1>6, <2>1, <2>2, <2>4
<1>15. QED
  BY <1>9, <1>10, <1>11, <1>12, <1>13, <1>14 DEF IInv

\* A receipt as it is drafted.
LEMMA DraftFacts ==
  ASSUME IInv, NEW w \in Writers, writer[w].pc = "loaded"
  PROVE  LET prior == writer[w].prior
             receipt == DraftReceipt(writer[w].kind, prior)
         IN  /\ receipt \in Receipt
             /\ receipt.prev = prior
             /\ receipt.seq = IF prior = 0 THEN 0 ELSE issued[prior].seq + 1
             /\ prior # 0 => prior \in DOMAIN issued
<1>. DEFINE prior == writer[w].prior
            receipt == DraftReceipt(writer[w].kind, prior)
<1>1. prior \in 0..Len(issued) /\ writer[w].kind \in Kinds
  BY DEF IInv, ChainTypeOK, WriterState
<1>2. prior \in Nat /\ (prior # 0 => prior \in DOMAIN issued)
  BY <1>1, DomIssued DEF IInv
<1>3. (IF prior = 0 THEN 0 ELSE issued[prior].seq + 1) \in Nat
  BY <1>2, DomIssued DEF IInv
<1>4. (IF Signing THEN SigningPayload(Drafted(writer[w].kind)) ELSE {}) \in SUBSET Fields
  BY DEF SigningPayload, Drafted, Fields
<1>5. QED
  BY <1>1, <1>2, <1>3, <1>4 DEF DraftReceipt, Receipt

\* The one step that issues a receipt and truncates its file.
LEMMA OpenNumberedStep ==
  ASSUME IInv, NEW w \in Writers, OpenNumbered(w)
  PROVE  IInv'
<1>. DEFINE prior == writer[w].prior
            receipt == DraftReceipt(writer[w].kind, prior)
            doc == Len(issued) + 1
            n == receipt.seq
<1>1. /\ writer[w].pc = "loaded"
      /\ issued' = Append(issued, receipt)
      /\ file' = Put(file, n, 0)
      /\ outputs' \in {outputs, outputs \cup {doc}}
      /\ Goto(w, "numberedOpen", prior, doc)
      /\ UNCHANGED <<latest, rows, target>>
  BY DEF OpenNumbered
<1>2. /\ prior \in 0..Len(issued) /\ Len(issued) \in Nat /\ DOMAIN issued = 1..Len(issued)
      /\ latest \in Torn..Len(issued)
      /\ \A v \in Writers : writer[v].prior \in 0..Len(issued) /\ writer[v].doc \in 0..Len(issued)
  BY DomIssued DEF IInv, ChainTypeOK
<1>3. /\ receipt \in Receipt /\ receipt.prev = prior /\ n \in Nat
      /\ n = IF prior = 0 THEN 0 ELSE issued[prior].seq + 1
      /\ prior # 0 => prior \in DOMAIN issued
  <2>1. receipt \in Receipt => receipt.seq \in Nat
    BY DEF Receipt
  <2>2. QED
    BY <1>1, <2>1, DraftFacts
<1>4. /\ writer' \in [Writers -> WriterState]
      /\ writer'[w].pc = "numberedOpen" /\ writer'[w].prior = prior
      /\ writer'[w].doc = doc
      /\ \A v \in Writers \ {w} : writer'[v] = writer[v]
  BY <1>1, <1>2, Move DEF IInv
<1>5. /\ issued' \in Seq(Receipt)
      /\ Len(issued') = doc
      /\ DOMAIN issued' = 1..doc
      /\ DOMAIN issued' = DOMAIN issued \cup {doc}
      /\ doc \notin DOMAIN issued
      /\ issued'[doc] = receipt
      /\ \A d \in DOMAIN issued : issued'[d] = issued[d]
  <2>1. issued \in Seq(Receipt)
    BY DEF IInv, ChainTypeOK
  <2>2. /\ issued' \in Seq(Receipt)
        /\ Len(issued') = doc
        /\ \A i \in 1..Len(issued) : issued'[i] = issued[i]
        /\ issued'[doc] = receipt
    BY <1>1, <1>3, <2>1, AppendProperties
  <2>3. DOMAIN issued' = 1..doc
    BY <2>2
  <2>4. QED
    BY <1>2, <2>2, <2>3
<1>6. /\ DOMAIN file' = DOMAIN file \cup {n}
      /\ file'[n] = 0
      /\ \A m \in DOMAIN file : m # n => file'[m] = file[m]
  BY <1>1, <1>3, PutFacts
<1>7. ASSUME ~Forked'
      PROVE  /\ ~Forked
             /\ \A d \in DOMAIN issued : issued[d].prev # prior
             /\ \A d \in DOMAIN issued : issued[d].seq # n
  <2>1. ~Forked /\ \A d \in DOMAIN issued : issued[d].prev # prior
    <3>1. \A c, d \in DOMAIN issued' : issued'[c].prev = issued'[d].prev => c = d
      BY <1>7 DEF Forked
    <3>2. ~Forked
      BY <3>1, <1>5 DEF Forked
    <3>3. issued'[doc].prev = prior
      BY <1>3, <1>5
    <3>4. QED
      BY <3>1, <3>2, <3>3, <1>5
  <2>2. ASSUME NEW d \in DOMAIN issued
        PROVE  issued[d].seq # n
    <3>1. issued[d].seq = IF issued[d].prev = 0 THEN 0 ELSE issued[issued[d].prev].seq + 1
      BY DEF IInv, NumbersFollowLinks
    <3>2. CASE prior = 0
      <4>1. issued[d].prev \in DOMAIN issued
        BY <2>1, <3>2, DomIssued DEF IInv
      <4>2. issued[issued[d].prev].seq \in Nat /\ issued[d].prev # 0
        BY <4>1, <2>1, <3>2, DomIssued DEF IInv
      <4>3. QED
        BY <3>1, <4>2, <3>2, <1>3
    <3>3. CASE prior # 0
      <4>1. CASE issued[d].prev = 0
        BY <4>1, <3>1, <3>3, <1>3, DomIssued DEF IInv
      <4>2. CASE issued[d].prev # 0
        <5>1. issued[d].prev \in DOMAIN issued /\ prior \in DOMAIN issued
          BY <4>2, <3>3, <1>3, DomIssued DEF IInv
        <5>2. issued[issued[d].prev].seq # issued[prior].seq
          BY <2>1, <5>1 DEF IInv, NumbersDistinct
        <5>3. issued[issued[d].prev].seq \in Nat /\ issued[prior].seq \in Nat
          BY <5>1, DomIssued DEF IInv
        <5>4. QED
          BY <3>1, <3>3, <4>2, <5>2, <5>3, <1>3
      <4>3. QED
        BY <4>1, <4>2
    <3>4. QED
      BY <3>2, <3>3
  <2>3. QED
    BY <2>1, <2>2
<1>8. ChainTypeOK'
  <2>1. \A d \in DOMAIN issued' : issued'[d].prev < d
    BY <1>2, <1>3, <1>5, DomIssued DEF IInv
  <2>2. \A m \in DOMAIN file' : m \in Nat /\ file'[m] \in Torn..doc
    BY <1>2, <1>3, <1>6 DEF IInv, ChainTypeOK, Torn
  <2>3. \A v \in Writers : writer'[v].prior \in 0..doc /\ writer'[v].doc \in 0..doc
    BY <1>2, <1>4
  <2>4. outputs' \subseteq 1..doc /\ rows' \subseteq 1..doc /\ latest' \in Torn..doc
    BY <1>1, <1>2 DEF IInv, ChainTypeOK
  <2>5. target' \in [head: 0..doc, length: Nat]
    BY <1>1, <1>2 DEF IInv, ChainTypeOK
  <2>6. QED
    BY <1>4, <1>5, <2>1, <2>2, <2>3, <2>4, <2>5 DEF ChainTypeOK
<1>9. NumbersFollowLinks'
  BY <1>3, <1>5, DomIssued DEF IInv, NumbersFollowLinks
<1>10. FilesOfTheirNumber'
  <2>. SUFFICES ASSUME NEW m \in DOMAIN file', file'[m] \notin {0, Torn}
                PROVE  issued'[file'[m]].seq = m
    BY DEF FilesOfTheirNumber
  <2>1. m \in DOMAIN file /\ file'[m] = file[m]
    BY <1>6
  <2>2. file[m] \in DOMAIN issued
    BY <2>1, <1>2 DEF IInv, ChainTypeOK, Torn
  <2>3. QED
    BY <2>1, <2>2, <1>5 DEF IInv, FilesOfTheirNumber
<1>11. HeldUnknown'
  <2>. SUFFICES ASSUME NEW u \in Writers, Holding(u)'
                PROVE  /\ writer'[u].doc # 0
                       /\ latest' # writer'[u].doc
                       /\ \A v \in Writers :
                            writer'[v].pc = "loaded" => writer'[v].prior # writer'[u].doc
                       /\ \A d \in DOMAIN issued' : issued'[d].prev # writer'[u].doc
                       /\ \A v \in Writers : Holding(v)' /\ v # u => writer'[v].doc # writer'[u].doc
    BY DEF HeldUnknown
  <2>1. \A d \in DOMAIN issued : issued[d].prev \in Nat /\ issued[d].prev < d
    BY DomIssued DEF IInv
  <2>2. CASE u = w
    <3>1. /\ doc # 0 /\ latest' # doc
          /\ \A v \in Writers : writer[v].prior # doc /\ writer[v].doc # doc
      BY <1>1, <1>2
    <3>2. \A d \in DOMAIN issued' : issued'[d].prev # doc
      BY <1>2, <1>3, <1>5, <2>1
    <3>3. QED
      BY <2>2, <3>1, <3>2, <1>4
  <2>3. CASE u # w
    <3>1. Holding(u) /\ writer'[u] = writer[u]
      BY <2>3, <1>4 DEF Holding
    <3>2. writer[u].doc # prior /\ writer[u].doc # doc
      BY <3>1, <1>1, <1>2 DEF IInv, HeldUnknown
    <3>3. writer[u].doc # 0 /\ latest # writer[u].doc
      BY <3>1 DEF IInv, HeldUnknown
    <3>4. ASSUME NEW v \in Writers, writer'[v].pc = "loaded"
          PROVE  writer'[v].prior # writer'[u].doc
      <4>1. v # w /\ writer'[v] = writer[v]
        BY <3>4, <1>4
      <4>2. QED
        BY <3>1, <3>4, <4>1 DEF IInv, HeldUnknown
    <3>5. ASSUME NEW d \in DOMAIN issued' PROVE issued'[d].prev # writer'[u].doc
      <4>1. CASE d = doc
        BY <3>1, <3>2, <4>1, <1>3, <1>5
      <4>2. CASE d # doc
        <5>1. d \in DOMAIN issued /\ issued'[d] = issued[d]
          BY <3>5, <4>2, <1>5
        <5>2. QED
          BY <3>1, <5>1 DEF IInv, HeldUnknown
      <4>3. QED
        BY <4>1, <4>2
    <3>6. ASSUME NEW v \in Writers, Holding(v)', v # u
          PROVE  writer'[v].doc # writer'[u].doc
      <4>1. CASE v = w
        BY <3>1, <3>2, <4>1, <1>4
      <4>2. CASE v # w
        <5>1. Holding(v) /\ writer'[v] = writer[v]
          BY <3>6, <4>2, <1>4 DEF Holding
        <5>2. QED
          BY <3>1, <3>6, <5>1 DEF IInv, HeldUnknown
      <4>3. QED
        BY <4>1, <4>2
    <3>7. QED
      BY <3>1, <3>3, <3>4, <3>5, <3>6, <1>1
  <2>4. QED
    BY <2>2, <2>3
<1>12. NumbersDistinct'
  BY <1>5, <1>7 DEF IInv, NumbersDistinct
<1>13. KnownInFile'
  <2>. SUFFICES ASSUME ~Forked', NEW d \in DOMAIN issued', Known(d)'
                PROVE  InItsFile(d)'
    BY DEF KnownInFile
  <2>1. d # doc
    <3>1. \A c \in DOMAIN issued : issued[c].prev # doc
      BY <1>2, DomIssued DEF IInv
    <3>2. /\ prior # doc /\ latest # doc
          /\ \A v \in Writers : writer[v].prior # doc /\ writer[v].doc # doc
      BY <1>2
    <3>3. QED
      BY <1>1, <1>3, <1>4, <1>5, <3>1, <3>2 DEF Known
  <2>2. d \in DOMAIN issued /\ Known(d)
    BY <2>1, <1>1, <1>3, <1>4, <1>5 DEF Known
  <2>3. InItsFile(d) /\ issued[d].seq # n
    BY <2>2, <1>7 DEF IInv, KnownInFile
  <2>4. QED
    BY <2>2, <2>3, <1>5, <1>6 DEF InItsFile
<1>14. OpenIsEmpty'
  <2>. SUFFICES ASSUME NEW v \in Writers, writer'[v].pc = "numberedOpen"
                PROVE  NumberOf(v)' \in DOMAIN file' /\ (~Forked' => file'[NumberOf(v)'] = 0)
    BY DEF OpenIsEmpty
  <2>1. CASE v = w
    BY <2>1, <1>4, <1>5, <1>6 DEF NumberOf
  <2>2. CASE v # w
    <3>1. writer'[v] = writer[v] /\ writer[v].doc \in DOMAIN issued
      BY <2>2, <1>2, <1>4 DEF IInv, HeldUnknown, Holding
    <3>2. NumberOf(v)' = NumberOf(v)
      BY <3>1, <1>5 DEF NumberOf
    <3>3. NumberOf(v) \in DOMAIN file /\ (~Forked => file[NumberOf(v)] = 0)
      BY <3>1 DEF IInv, OpenIsEmpty
    <3>4. QED
      BY <3>2, <3>3, <1>6, <1>7
  <2>3. QED
    BY <2>1, <2>2
<1>15. FinishedHasReceipt' /\ HeadHasRow'
  <2>1. FinishedHasReceipt'
    BY <1>1, <1>4 DEF IInv, FinishedHasReceipt
  <2>2. rows \subseteq DOMAIN issued
    BY <1>2 DEF IInv, ChainTypeOK
  <2>3. HeadHasRow'
    BY <1>1, <1>5, <2>2 DEF IInv, HeadHasRow
  <2>4. QED
    BY <2>1, <2>3
<1>16. QED
  BY <1>8, <1>9, <1>10, <1>11, <1>12, <1>13, <1>14, <1>15 DEF IInv

-----------------------------------------------------------------------------
\* A step that changes nothing.
LEMMA StutterStep ==
  ASSUME IInv, UNCHANGED vars
  PROVE  IInv'
<1>1. UNCHANGED <<issued, file, latest, outputs, rows, target, writer>>
  BY DEF vars
<1>2. ChainTypeOK' /\ FinishedHasReceipt' /\ HeadHasRow'
  BY <1>1 DEF IInv, ChainTypeOK, FinishedHasReceipt, HeadHasRow
<1>3. QED
  BY <1>1, <1>2, Quiet DEF IInv

\* Every step preserves the inductive invariant.
LEMMA NextIInv == IInv /\ [Next]_vars => IInv'
<1>. SUFFICES ASSUME IInv, [Next]_vars
              PROVE  IInv'
  OBVIOUS
<1>1. ASSUME NEW w \in Writers, Start(w)
      PROVE  IInv'
  BY <1>1, StartStep DEF Start
<1>2. ASSUME NEW w \in Writers, Persist(w)
      PROVE  IInv'
  BY <1>2, LoadLatestStep, OpenNumberedStep, FillNumberedStep, OpenLatestStep, FillLatestStep
     DEF Persist
<1>3. ASSUME NEW w \in Writers, Finalize(w)
      PROVE  IInv'
  BY <1>3, InsertRowStep, UpdateTargetStep DEF Finalize
<1>4. ASSUME NEW w \in Writers, Fail(w)
      PROVE  IInv'
  BY <1>4, FailStep
<1>5. CASE UNCHANGED vars
  BY <1>5, StutterStep
<1>6. QED
  BY <1>1, <1>2, <1>3, <1>4, <1>5 DEF Next

\* The inductive invariant: numbers are distinct and every receipt that can
\* be linked to stays in its file, unless two receipts were issued on top of
\* the same one.
THEOREM Inductive == Spec => []IInv
<1>1. QED
  BY InitIInv, NextIInv, PTL DEF Spec

\* The type invariant of the writers, the files and the tables.
THEOREM TypeCorrect == Spec => []TypeOK
<1>1. Init => overlapped \in BOOLEAN
  BY DEF Init
<1>2. overlapped \in BOOLEAN /\ [Next]_vars => (overlapped \in BOOLEAN)'
  BY DEF Next, Watch, vars
<1>3. IInv /\ overlapped \in BOOLEAN => TypeOK
  BY DEF IInv, TypeOK
<1>4. QED
  BY <1>1, <1>2, <1>3, Inductive, PTL DEF Spec

\* However many writers overlap, die and leave files half written, the files
\* are a chain unless two receipts were issued on top of the same one.
THEOREM FilesStayLinked == Spec => []FilesLinkedUnlessForked
<1>1. IInv => FilesLinkedUnlessForked
  <2>. SUFFICES ASSUME IInv, ~Forked
                PROVE  Linked(FileDocs)
    BY DEF FilesLinkedUnlessForked
  <2>1. FileDocs \subseteq DOMAIN issued
    BY DomIssued DEF IInv, ChainTypeOK, FileDocs, Torn
  <2>2. \A c, d \in FileDocs : issued[c].seq = issued[d].seq => c = d
    BY <2>1 DEF IInv, NumbersDistinct
  <2>3. ASSUME NEW d \in FileDocs
        PROVE  IF issued[d].seq = 0 THEN issued[d].prev = 0
               ELSE /\ issued[d].prev \in FileDocs
                    /\ issued[issued[d].prev].seq + 1 = issued[d].seq
    <3>1. d \in DOMAIN issued
      BY <2>1
    <3>2. issued[d].seq = IF issued[d].prev = 0 THEN 0 ELSE issued[issued[d].prev].seq + 1
      BY <3>1 DEF IInv, NumbersFollowLinks
    <3>3. CASE issued[d].prev = 0
      BY <3>2, <3>3
    <3>4. CASE issued[d].prev # 0
      <4>1. issued[d].prev \in DOMAIN issued
        BY <3>1, <3>4, DomIssued DEF IInv
      <4>2. issued[issued[d].prev].seq \in Nat
        BY <4>1, DomIssued DEF IInv
      <4>3. InItsFile(issued[d].prev)
        BY <3>1, <4>1 DEF IInv, KnownInFile, Known
      <4>4. issued[d].prev \in FileDocs
        BY <4>1, <4>3, DomIssued DEF IInv, InItsFile, FileDocs, Torn
      <4>5. QED
        BY <3>2, <3>4, <4>2, <4>4
    <3>5. QED
      BY <3>3, <3>4
  <2>4. QED
    BY <2>2, <2>3 DEF Linked
<1>2. QED
  BY <1>1, Inductive, PTL

\* The head shown for the target always has a row of that number.
THEOREM HeadAlwaysHasRow == Spec => []HeadHasRow
<1>1. IInv => HeadHasRow
  BY DEF IInv
<1>2. QED
  BY <1>1, Inductive, PTL

-----------------------------------------------------------------------------
(***************************************************************************)
(* One writer at a time                                                    *)
(***************************************************************************)
\* The receipts that the chain rests on: those with a row and those that
\* another one links to.
Ground == rows \cup ({issued[c].prev : c \in DOMAIN issued} \ {0})

\* A writer alone finds every file whole.
NothingTorn == latest # Torn /\ \A n \in DOMAIN file : file[n] # Torn

GroundInFile == \A d \in Ground \cup ({latest} \ {0}) : InItsFile(d)

\* The latest receipt, and the one on its way to be, come after the ground.
GroundBelow ==
  /\ latest # 0 => \A d \in Ground : issued[d].seq <= issued[latest].seq
  /\ \A w \in Writers :
       writer[w].pc \in {"numberedOpen", "numbered", "latestOpen", "persisted"} =>
         \A d \in Ground : issued[d].seq < NumberOf(w)

\* Once there are rows, only a linked receipt's writer can have lost the latest:
\* the next receipt will restart the chain.
LatestLost == latest = 0 /\ rows # {} => \E c \in DOMAIN issued : issued[c].prev # 0

\* What a writer alone knows.
Knows(w) ==
  /\ writer[w].pc = "loaded" => writer[w].prior = latest
  /\ writer[w].pc = "numberedOpen" => file[NumberOf(w)] = 0
  /\ writer[w].pc \in {"numberedOpen", "numbered"} => issued[writer[w].doc].prev = latest
  /\ writer[w].pc \in {"numbered", "latestOpen", "persisted", "recorded"}
       => InItsFile(writer[w].doc)
  /\ writer[w].pc = "latestOpen" => latest = 0
  /\ writer[w].pc \in {"persisted", "recorded"} => latest = writer[w].doc
  /\ writer[w].kind = "analysis" =>
       /\ writer[w].pc \in {"started", "loaded"} => outputs = {}
       /\ writer[w].pc \in {"numberedOpen", "numbered", "latestOpen", "persisted"}
            => outputs = {writer[w].doc}

Serial ==
  /\ NothingTorn
  /\ GroundInFile
  /\ GroundBelow
  /\ LatestLost
  /\ \A w \in Writers : Knows(w)

SInv == ~Restarted => Serial

\* Nothing is said once two writers have overlapped.
Solo == ~overlapped => OneAtATime /\ SInv

\* The ground is made of receipts.
LEMMA GroundIssued ==
  ASSUME IInv
  PROVE  Ground \subseteq DOMAIN issued
BY DomIssued DEF IInv, ChainTypeOK, Ground

\* A step by which one writer stops, starts or reads the latest receipt.
LEMMA SerialQuiet ==
  ASSUME IInv, Serial, NEW w \in Writers,
         UNCHANGED <<issued, file, latest, rows>>,
         \A v \in Writers : v # w => writer'[v].pc = "idle",
         writer'[w].pc \in {"idle", "started", "loaded"},
         writer'[w].pc = "loaded" => writer'[w].prior = latest,
         writer'[w].pc \in {"started", "loaded"} /\ writer'[w].kind = "analysis" => outputs' = {}
  PROVE  Serial'
<1>1. NothingTorn' /\ LatestLost' /\ Ground' = Ground
  BY DEF Serial, NothingTorn, LatestLost, Ground
<1>2. GroundInFile'
  BY <1>1 DEF Serial, GroundInFile, InItsFile
<1>3. GroundBelow'
  BY <1>1 DEF Serial, GroundBelow
<1>4. \A v \in Writers : Knows(v)'
  BY DEF Knows
<1>5. QED
  BY <1>1, <1>2, <1>3, <1>4 DEF Serial

\* Only the writer that moves is not at rest.
LEMMA OthersRest ==
  ASSUME IInv, OneAtATime, NEW w \in Writers, writer[w].pc # "idle",
         \A v \in Writers \ {w} : writer'[v] = writer[v]
  PROVE  \A v \in Writers : v # w => writer'[v].pc = "idle" /\ writer[v].pc = "idle"
BY DEF OneAtATime, InProgress

\* A new writer, whose start may end another that has only loaded.
LEMMA SerialStart ==
  ASSUME IInv, Serial, OneAtATime', NEW w \in Writers, Start(w)
  PROVE  Serial'
<1>1. writer'[w] \in {Started("analysis"), Started("gap")}
  BY DEF Start, StartAnalysis, StartGap, Become, IInv, ChainTypeOK
<1>2. writer'[w].pc = "started"
  BY <1>1 DEF Started
<1>3. writer'[w].kind = "analysis" => outputs' = {}
  BY DEF Start, StartAnalysis, StartGap, Become, IInv, ChainTypeOK, Started
<1>4. \A v \in Writers : v # w => writer'[v].pc = "idle"
  BY <1>2 DEF OneAtATime, InProgress
<1>5. UNCHANGED <<issued, file, latest, rows>>
  BY DEF Start, StartAnalysis, StartGap
<1>6. QED
  BY <1>2, <1>3, <1>4, <1>5, SerialQuiet

\* The writer ends, or is killed anywhere.
LEMMA SerialStop ==
  ASSUME IInv, Serial, OneAtATime, NEW w \in Writers, UpdateTarget(w) \/ Fail(w)
  PROVE  Serial'
<1>1. /\ writer[w].pc # "idle"
      /\ Become(w, Resting)
      /\ UNCHANGED <<issued, file, latest, rows>>
  BY DEF UpdateTarget, Fail
<1>2. /\ writer'[w].pc = "idle"
      /\ \A v \in Writers \ {w} : writer'[v] = writer[v]
  BY <1>1 DEF Become, Resting, IInv, ChainTypeOK
<1>3. QED
  BY <1>1, <1>2, OthersRest, SerialQuiet

\* The latest receipt is whole, so that is what the writer reads.
LEMMA SerialLoad ==
  ASSUME IInv, Serial, OneAtATime, NEW w \in Writers, LoadLatest(w)
  PROVE  Serial'
<1>1. /\ writer[w].pc = "started"
      /\ Goto(w, "loaded", Readable(latest), writer[w].doc)
      /\ UNCHANGED <<issued, file, latest, outputs, rows, target>>
  BY DEF LoadLatest
<1>2. Readable(latest) = latest /\ latest \in Nat /\ writer[w].doc \in Nat
  BY DomIssued DEF Readable, Serial, NothingTorn, IInv, ChainTypeOK, Torn
<1>3. /\ writer'[w].pc = "loaded" /\ writer'[w].prior = latest
      /\ writer'[w].kind = writer[w].kind
      /\ \A v \in Writers \ {w} : writer'[v] = writer[v]
  BY <1>1, <1>2, Move DEF IInv
<1>4. writer'[w].kind = "analysis" => outputs' = {}
  BY <1>1, <1>3 DEF Serial, Knows
<1>5. QED
  BY <1>1, <1>3, <1>4, OthersRest, SerialQuiet

\* The new number lies above the ground, so no file of the ground is truncated.
LEMMA SerialOpenNumbered ==
  ASSUME IInv, IInv', Serial, OneAtATime, ~Restarted', NEW w \in Writers, OpenNumbered(w)
  PROVE  Serial'
<1>. DEFINE prior == writer[w].prior
            receipt == DraftReceipt(writer[w].kind, prior)
            doc == Len(issued) + 1
<1>1. /\ writer[w].pc = "loaded"
      /\ issued' = Append(issued, receipt)
      /\ file' = Put(file, receipt.seq, 0)
      /\ outputs' = IF receipt.kind = "analysis" THEN outputs \cup {doc} ELSE outputs
      /\ Goto(w, "numberedOpen", prior, doc)
      /\ UNCHANGED <<latest, rows, target>>
  BY DEF OpenNumbered
<1>2. /\ receipt \in Receipt
      /\ receipt.prev = prior
      /\ receipt.seq = IF prior = 0 THEN 0 ELSE issued[prior].seq + 1
      /\ prior # 0 => prior \in DOMAIN issued
  BY <1>1, DraftFacts
<1>3. receipt.kind = writer[w].kind
  BY DEF DraftReceipt
<1>. HIDE DEF receipt
<1>4. prior = latest
  BY <1>1 DEF Serial, Knows
<1>5. /\ DOMAIN issued = 1..Len(issued)
      /\ Len(issued) \in Nat
      /\ issued \in Seq(Receipt)
      /\ \A d \in DOMAIN issued : issued[d].seq \in Nat
      /\ prior \in Nat
  BY <1>2, DomIssued DEF IInv, ChainTypeOK
<1>6. /\ DOMAIN issued' = 1..doc
      /\ issued'[doc] = receipt
      /\ \A d \in DOMAIN issued : issued'[d] = issued[d]
  BY <1>1, <1>2, <1>5, AppendProperties
<1>7. /\ writer'[w].pc = "numberedOpen" /\ writer'[w].doc = doc
      /\ writer'[w].kind = writer[w].kind
      /\ \A v \in Writers \ {w} : writer'[v] = writer[v]
  BY <1>1, <1>5, Move DEF IInv
<1>8. \A v \in Writers : v # w => writer'[v].pc = "idle"
  BY <1>1, <1>7, OthersRest
<1>9. receipt.seq \in Nat
  BY <1>2, <1>5
<1>10. /\ DOMAIN file' = DOMAIN file \cup {receipt.seq}
       /\ file'[receipt.seq] = 0
       /\ \A m \in DOMAIN file : m # receipt.seq => file'[m] = file[m]
  BY <1>1, <1>9, PutFacts
<1>11. Ground' = Ground \cup ({prior} \ {0})
  <2>1. {issued'[c].prev : c \in DOMAIN issued'}
          = {issued[c].prev : c \in DOMAIN issued} \cup {prior}
    BY <1>2, <1>5, <1>6
  <2>2. QED
    BY <1>1, <2>1 DEF Ground
<1>12. Ground \subseteq DOMAIN issued
  BY GroundIssued
\* A first receipt, or one that restarts the chain.
<1>13. prior = 0 => Ground = {}
  <2>. SUFFICES ASSUME prior = 0
                PROVE  Ground = {}
    OBVIOUS
  <2>1. \A c \in DOMAIN issued : issued[c].prev = 0
    <3>1. doc \in DOMAIN issued' /\ issued'[doc].prev = 0
      BY <1>2, <1>5, <1>6
    <3>2. \A c \in DOMAIN issued : c \in DOMAIN issued' /\ c < doc
      BY <1>5, <1>6
    <3>3. QED
      BY <1>6, <3>1, <3>2 DEF Restarted
  <2>2. rows = {}
    BY <1>4, <2>1 DEF Serial, LatestLost
  <2>3. QED
    BY <2>1, <2>2 DEF Ground
<1>14. \A d \in Ground' : d \in DOMAIN issued /\ issued[d].seq < receipt.seq
  <2>1. CASE prior = 0
    BY <1>11, <1>13, <2>1
  <2>2. CASE prior # 0
    <3>1. \A d \in Ground : issued[d].seq <= issued[prior].seq
      BY <1>4, <2>2 DEF Serial, GroundBelow
    <3>2. QED
      BY <1>2, <1>5, <1>11, <1>12, <2>2, <3>1
  <2>3. QED
    BY <2>1, <2>2
<1>15. NothingTorn'
  BY <1>1, <1>10 DEF Serial, NothingTorn, Torn
<1>16. GroundInFile'
  <2>. SUFFICES ASSUME NEW d \in Ground' \cup ({latest} \ {0})
                PROVE  InItsFile(d)'
    BY <1>1 DEF GroundInFile
  <2>1. d \in Ground'
    BY <1>4, <1>11
  <2>2. d \in Ground \cup ({latest} \ {0})
    BY <1>4, <1>11
  <2>3. InItsFile(d)
    BY <2>2 DEF Serial, GroundInFile
  <2>4. d \in DOMAIN issued /\ issued[d].seq # receipt.seq
    BY <1>5, <1>9, <1>14, <2>1
  <2>5. QED
    BY <1>6, <1>10, <2>3, <2>4 DEF InItsFile
<1>17. NumberOf(w)' = receipt.seq
  BY <1>6, <1>7 DEF NumberOf
<1>18. GroundBelow'
  <2>1. latest' # 0 => \A d \in Ground' : issued'[d].seq <= issued'[latest'].seq
    <3>. SUFFICES ASSUME latest # 0, NEW d \in Ground'
                  PROVE  issued'[d].seq <= issued'[latest].seq
      BY <1>1
    <3>1. d \in DOMAIN issued /\ issued[d].seq < receipt.seq
      BY <1>14
    <3>2. QED
      BY <1>2, <1>4, <1>5, <1>6, <3>1
  <2>2. \A d \in Ground' : issued'[d].seq < NumberOf(w)'
    BY <1>6, <1>14, <1>17
  <2>3. QED
    BY <1>8, <2>1, <2>2 DEF GroundBelow
<1>19. LatestLost'
  BY <1>1, <1>4, <1>11, <1>13 DEF LatestLost, Ground
<1>20. \A v \in Writers : Knows(v)'
  <2>1. file'[NumberOf(w)'] = 0
    BY <1>10, <1>17
  <2>2. issued'[writer'[w].doc].prev = latest'
    BY <1>1, <1>2, <1>4, <1>6, <1>7
  <2>3. writer'[w].kind = "analysis" => outputs' = {writer'[w].doc}
    BY <1>1, <1>3, <1>7 DEF Serial, Knows
  <2>4. QED
    BY <1>7, <1>8, <2>1, <2>2, <2>3 DEF Knows
<1>21. QED
  BY <1>15, <1>16, <1>18, <1>19, <1>20 DEF Serial

\* The file was truncated by this writer and is filled by it.
LEMMA SerialFillNumbered ==
  ASSUME IInv, Serial, OneAtATime, NEW w \in Writers, FillNumbered(w)
  PROVE  Serial'
<1>. DEFINE doc == writer[w].doc
            n == NumberOf(w)
<1>1. PICK d \in Overlay(file[n], doc) : file' = Put(file, n, d)
  BY DEF FillNumbered
<1>2. /\ writer[w].pc = "numberedOpen"
      /\ Goto(w, "numbered", writer[w].prior, doc)
      /\ UNCHANGED <<issued, latest, outputs, rows, target>>
  BY DEF FillNumbered, Step
<1>3. d = doc
  BY <1>1, <1>2 DEF Serial, Knows, Overlay
<1>4. doc \in DOMAIN issued /\ writer[w].prior \in Nat /\ n = issued[doc].seq /\ n \in Nat
  <2>1. doc # 0
    BY <1>2 DEF IInv, HeldUnknown, Holding
  <2>2. doc \in 0..Len(issued) /\ writer[w].prior \in 0..Len(issued)
    BY DEF IInv, ChainTypeOK
  <2>3. QED
    BY <2>1, <2>2, DomIssued DEF IInv, NumberOf
<1>5. /\ writer'[w].pc = "numbered" /\ writer'[w].doc = doc
      /\ writer'[w].kind = writer[w].kind
      /\ \A v \in Writers \ {w} : writer'[v] = writer[v]
  BY <1>2, <1>4, Move, DomIssued DEF IInv
<1>6. \A v \in Writers : v # w => writer'[v].pc = "idle"
  BY <1>2, <1>5, OthersRest
<1>7. /\ DOMAIN file' = DOMAIN file \cup {n}
      /\ file'[n] = doc
      /\ \A m \in DOMAIN file : m # n => file'[m] = file[m]
  BY <1>1, <1>3, <1>4, PutFacts
<1>8. Ground' = Ground
  BY <1>2 DEF Ground
<1>9. NothingTorn'
  BY <1>2, <1>4, <1>7, DomIssued DEF IInv, Serial, NothingTorn, Torn
<1>10. \A c \in Ground \cup ({latest} \ {0}) :
         c \in DOMAIN issued /\ issued[c].seq # n /\ InItsFile(c)
  <2>1. latest # 0 => latest \in Ground
    BY <1>2, <1>4 DEF Serial, Knows, Ground
  <2>2. \A c \in Ground : issued[c].seq < n
    BY <1>2 DEF Serial, GroundBelow
  <2>3. QED
    BY <1>4, <2>1, <2>2, GroundIssued, DomIssued DEF IInv, Serial, GroundInFile
<1>11. GroundInFile'
  BY <1>2, <1>7, <1>8, <1>10 DEF GroundInFile, InItsFile
<1>12. NumberOf(w)' = n
  BY <1>2, <1>5 DEF NumberOf
<1>13. GroundBelow'
  BY <1>2, <1>6, <1>8, <1>12 DEF Serial, GroundBelow
<1>14. LatestLost'
  BY <1>2 DEF Serial, LatestLost
<1>15. \A v \in Writers : Knows(v)'
  <2>1. InItsFile(writer[w].doc)'
    BY <1>2, <1>4, <1>5, <1>7 DEF InItsFile
  <2>2. QED
    BY <1>2, <1>5, <1>6, <2>1 DEF Serial, Knows, InItsFile
<1>16. QED
  BY <1>9, <1>11, <1>13, <1>14, <1>15 DEF Serial

\* Should the writer die now, the latest receipt is lost.
LEMMA SerialOpenLatest ==
  ASSUME IInv, Serial, OneAtATime, NEW w \in Writers, OpenLatest(w)
  PROVE  Serial'
<1>1. /\ writer[w].pc = "numbered"
      /\ latest' = 0
      /\ Goto(w, "latestOpen", writer[w].prior, writer[w].doc)
      /\ UNCHANGED <<issued, file, outputs, rows, target>>
  BY DEF OpenLatest, Step
<1>2. writer[w].doc \in DOMAIN issued /\ writer[w].prior \in Nat
  <2>1. writer[w].doc # 0
    BY <1>1 DEF IInv, HeldUnknown, Holding
  <2>2. writer[w].doc \in 0..Len(issued) /\ writer[w].prior \in 0..Len(issued)
    BY DEF IInv, ChainTypeOK
  <2>3. QED
    BY <2>1, <2>2, DomIssued DEF IInv
<1>3. /\ writer'[w].pc = "latestOpen" /\ writer'[w].doc = writer[w].doc
      /\ writer'[w].kind = writer[w].kind
      /\ \A v \in Writers \ {w} : writer'[v] = writer[v]
  BY <1>1, <1>2, Move, DomIssued DEF IInv
<1>4. \A v \in Writers : v # w => writer'[v].pc = "idle"
  BY <1>1, <1>3, OthersRest
<1>5. Ground' = Ground
  BY <1>1 DEF Ground
<1>6. NothingTorn'
  BY <1>1 DEF Serial, NothingTorn, Torn
<1>7. GroundInFile'
  BY <1>1, <1>5 DEF Serial, GroundInFile, InItsFile
<1>8. GroundBelow'
  <2>1. NumberOf(w)' = NumberOf(w)
    BY <1>1, <1>3 DEF NumberOf
  <2>2. QED
    BY <1>1, <1>3, <1>4, <1>5, <2>1 DEF Serial, GroundBelow
<1>9. LatestLost'
  <2>1. issued[writer[w].doc].prev = latest
    BY <1>1 DEF Serial, Knows
  <2>2. QED
    BY <1>1, <1>2, <2>1 DEF Serial, LatestLost
<1>10. \A v \in Writers : Knows(v)'
  BY <1>1, <1>3, <1>4 DEF Serial, Knows, InItsFile
<1>11. QED
  BY <1>6, <1>7, <1>8, <1>9, <1>10 DEF Serial

\* The writer's receipt becomes the latest.
LEMMA SerialFillLatest ==
  ASSUME IInv, Serial, OneAtATime, NEW w \in Writers, FillLatest(w)
  PROVE  Serial'
<1>1. /\ writer[w].pc = "latestOpen"
      /\ latest' \in Overlay(latest, writer[w].doc)
      /\ Goto(w, "persisted", writer[w].prior, writer[w].doc)
      /\ UNCHANGED <<issued, file, outputs, rows, target>>
  BY DEF FillLatest, Step
<1>2. writer[w].doc \in DOMAIN issued /\ writer[w].prior \in Nat
  <2>1. writer[w].doc # 0
    BY <1>1 DEF IInv, HeldUnknown, Holding
  <2>2. writer[w].doc \in 0..Len(issued) /\ writer[w].prior \in 0..Len(issued)
    BY DEF IInv, ChainTypeOK
  <2>3. QED
    BY <2>1, <2>2, DomIssued DEF IInv
<1>3. /\ writer'[w].pc = "persisted" /\ writer'[w].doc = writer[w].doc
      /\ writer'[w].kind = writer[w].kind
      /\ \A v \in Writers \ {w} : writer'[v] = writer[v]
  BY <1>1, <1>2, Move, DomIssued DEF IInv
<1>4. \A v \in Writers : v # w => writer'[v].pc = "idle"
  BY <1>1, <1>3, OthersRest
<1>5. latest' = writer[w].doc
  BY <1>1 DEF Serial, Knows, Overlay
<1>6. writer[w].doc \in Nat \ {0}
  BY <1>2, DomIssued DEF IInv
<1>7. Ground' = Ground /\ Ground \subseteq DOMAIN issued
  BY <1>1, GroundIssued DEF Ground
<1>8. NothingTorn'
  BY <1>1, <1>5, <1>6 DEF Serial, NothingTorn, Torn
<1>9. InItsFile(writer[w].doc)
  BY <1>1 DEF Serial, Knows
<1>10. GroundInFile'
  BY <1>1, <1>5, <1>7, <1>9 DEF Serial, GroundInFile, InItsFile
<1>11. \A d \in Ground : issued[d].seq < NumberOf(w)
  BY <1>1 DEF Serial, GroundBelow
<1>12. GroundBelow'
  <2>1. NumberOf(w)' = NumberOf(w) /\ NumberOf(w) = issued[writer[w].doc].seq
    BY <1>1, <1>3 DEF NumberOf
  <2>2. \A d \in Ground : issued[d].seq <= issued[latest'].seq
    BY <1>2, <1>5, <1>7, <1>11, <2>1, DomIssued DEF IInv
  <2>3. QED
    BY <1>1, <1>3, <1>4, <1>7, <1>11, <2>1, <2>2 DEF GroundBelow
<1>13. LatestLost'
  BY <1>5, <1>6 DEF LatestLost
<1>14. \A v \in Writers : Knows(v)'
  BY <1>1, <1>3, <1>4, <1>5, <1>9 DEF Serial, Knows, InItsFile
<1>15. QED
  BY <1>8, <1>10, <1>12, <1>13, <1>14 DEF Serial

\* The only receipt the server finds is the writer's own, and it is the latest.
LEMMA SerialInsertRow ==
  ASSUME IInv, Serial, OneAtATime, NEW w \in Writers, InsertRow(w)
  PROVE  Serial'
<1>1. PICK d \in Found(w) \ rows :
        rows' = rows \cup {d} /\ Goto(w, "recorded", writer[w].prior, d)
  BY DEF InsertRow
<1>2. writer[w].pc = "persisted" /\ UNCHANGED <<issued, file, latest, outputs, target>>
  BY DEF InsertRow
<1>3. d = writer[w].doc
  <2>1. writer[w].kind \in {"analysis", "gap"}
    BY DEF IInv, ChainTypeOK, WriterState, Kinds
  <2>2. QED
    BY <1>1, <1>2, <2>1 DEF Serial, Knows, Found
<1>4. d \in DOMAIN issued /\ writer[w].prior \in Nat
  <2>1. writer[w].doc # 0
    BY <1>2 DEF IInv, FinishedHasReceipt
  <2>2. writer[w].doc \in 0..Len(issued) /\ writer[w].prior \in 0..Len(issued)
    BY DEF IInv, ChainTypeOK
  <2>3. QED
    BY <1>3, <2>1, <2>2, DomIssued DEF IInv
<1>5. /\ writer'[w].pc = "recorded" /\ writer'[w].doc = d
      /\ \A v \in Writers \ {w} : writer'[v] = writer[v]
  BY <1>1, <1>4, Move, DomIssued DEF IInv
<1>6. \A v \in Writers : v # w => writer'[v].pc = "idle"
  BY <1>2, <1>5, OthersRest
<1>7. latest = d /\ d # 0 /\ InItsFile(d)
  BY <1>2, <1>3, <1>4, DomIssued DEF IInv, Serial, Knows
<1>8. Ground' = Ground \cup {d}
  BY <1>1, <1>2, <1>7 DEF Ground
<1>9. NothingTorn' /\ LatestLost'
  BY <1>2, <1>7 DEF Serial, NothingTorn, LatestLost
<1>10. GroundInFile'
  BY <1>2, <1>7, <1>8 DEF Serial, GroundInFile, InItsFile
<1>11. GroundBelow'
  <2>1. \A c \in Ground' : issued[c].seq <= issued[d].seq
    BY <1>4, <1>7, <1>8, DomIssued DEF IInv, Serial, GroundBelow
  <2>2. QED
    BY <1>2, <1>5, <1>6, <1>7, <2>1 DEF GroundBelow
<1>12. \A v \in Writers : Knows(v)'
  BY <1>2, <1>5, <1>6, <1>7 DEF Knows, InItsFile
<1>13. QED
  BY <1>9, <1>10, <1>11, <1>12 DEF Serial

\* Receipts are never taken back, so a chain that has restarted has done so
\* for good.
LEMMA NoRestartBefore ==
  ASSUME IInv, [Next]_vars, ~Restarted'
  PROVE  ~Restarted
<1>1. ASSUME NEW d \in DOMAIN issued
      PROVE  d \in DOMAIN issued' /\ issued'[d] = issued[d]
  <2>1. CASE UNCHANGED issued
    BY <2>1
  <2>2. ASSUME NEW w \in Writers, OpenNumbered(w)
        PROVE  d \in DOMAIN issued' /\ issued'[d] = issued[d]
    <3>. DEFINE receipt == DraftReceipt(writer[w].kind, writer[w].prior)
    <3>1. receipt \in Receipt /\ issued \in Seq(Receipt)
      BY <2>2, DraftFacts DEF OpenNumbered, IInv, ChainTypeOK
    <3>2. issued' = Append(issued, receipt)
      BY <2>2 DEF OpenNumbered
    <3>. HIDE DEF receipt
    <3>3. QED
      BY <3>1, <3>2, AppendProperties
  <2>3. QED
    BY <2>1, <2>2 DEF Next, Start, StartAnalysis, StartGap, Persist, LoadLatest, FillNumbered,
       OpenLatest, FillLatest, Finalize, InsertRow, UpdateTarget, Fail, vars
<1>2. QED
  BY <1>1 DEF Restarted

\* Every step of writers that do not overlap keeps what they know.
LEMMA SerialStep ==
  ASSUME IInv, SInv, OneAtATime, OneAtATime', [Next]_vars
  PROVE  SInv'
<1>. SUFFICES ASSUME ~Restarted'
              PROVE  Serial'
  BY DEF SInv
<1>1. Serial /\ IInv'
  BY NoRestartBefore, NextIInv DEF SInv
<1>2. ASSUME NEW w \in Writers, Start(w)
      PROVE  Serial'
  BY <1>1, <1>2, SerialStart
<1>3. ASSUME NEW w \in Writers, Persist(w)
      PROVE  Serial'
  BY <1>1, <1>3, SerialLoad, SerialOpenNumbered, SerialFillNumbered, SerialOpenLatest,
     SerialFillLatest DEF Persist
<1>4. ASSUME NEW w \in Writers, Finalize(w) \/ Fail(w)
      PROVE  Serial'
  BY <1>1, <1>4, SerialInsertRow, SerialStop DEF Finalize
<1>5. CASE UNCHANGED vars
  BY <1>1, <1>5 DEF vars, Serial, NothingTorn, GroundInFile, Ground, InItsFile, GroundBelow,
     NumberOf, LatestLost, Knows
<1>6. QED
  BY <1>2, <1>3, <1>4, <1>5 DEF Next

\* What a writer alone knows holds until two overlap.
LEMMA SoloHolds == Spec => []Solo
<1>1. Init => Solo
  <2>. SUFFICES ASSUME Init
                PROVE  OneAtATime /\ Serial
    BY DEF Solo, SInv
  <2>1. /\ DOMAIN issued = {} /\ DOMAIN file = {} /\ latest = 0 /\ rows = {}
        /\ \A w \in Writers : writer[w].pc = "idle"
    BY DEF Init, Resting
  <2>2. Ground = {}
    BY <2>1 DEF Ground
  <2>3. OneAtATime
    BY <2>1 DEF OneAtATime, InProgress
  <2>4. QED
    BY <2>1, <2>2, <2>3 DEF Serial, NothingTorn, GroundInFile, GroundBelow, LatestLost, Knows,
       Torn
<1>2. IInv /\ Solo /\ [Next]_vars => Solo'
  <2>. SUFFICES ASSUME IInv, Solo, [Next]_vars, ~overlapped'
                PROVE  OneAtATime' /\ SInv'
    BY DEF Solo
  <2>1. ~overlapped
    BY DEF Next, Watch, vars
  <2>2. OneAtATime /\ SInv
    BY <2>1 DEF Solo
  <2>3. CASE Next
    <3>1. OneAtATime'
      BY <2>3 DEF Next, Watch
    <3>2. QED
      BY <2>2, <3>1, SerialStep
  <2>4. CASE UNCHANGED vars
    <3>1. OneAtATime'
      BY <2>2, <2>4 DEF OneAtATime, InProgress, vars
    <3>2. QED
      BY <2>2, <3>1, SerialStep
  <2>5. QED
    BY <2>3, <2>4
<1>3. QED
  BY <1>1, <1>2, Inductive, PTL DEF Spec

\* Until runs of the target overlap, they may be killed anywhere: the files
\* stay a chain unless a genesis receipt restarts it.
THEOREM FilesLinkedAlone == Spec => []FilesLinkedUnlessRestarted
<1>1. IInv /\ Solo => FilesLinkedUnlessRestarted
  <2>. SUFFICES ASSUME IInv, Serial
                PROVE  Linked(FileDocs)
    BY DEF Solo, SInv, FilesLinkedUnlessRestarted
  <2>1. FileDocs \subseteq DOMAIN issued
    BY DomIssued DEF IInv, ChainTypeOK, FileDocs, Torn
  <2>2. \A c, d \in FileDocs : issued[c].seq = issued[d].seq => c = d
    BY DEF IInv, FilesOfTheirNumber, FileDocs
  <2>3. ASSUME NEW d \in FileDocs
        PROVE  IF issued[d].seq = 0 THEN issued[d].prev = 0
               ELSE /\ issued[d].prev \in FileDocs
                    /\ issued[issued[d].prev].seq + 1 = issued[d].seq
    <3>1. d \in DOMAIN issued
      BY <2>1
    <3>2. issued[d].seq = IF issued[d].prev = 0 THEN 0 ELSE issued[issued[d].prev].seq + 1
      BY <3>1 DEF IInv, NumbersFollowLinks
    <3>3. CASE issued[d].prev = 0
      BY <3>2, <3>3
    <3>4. CASE issued[d].prev # 0
      <4>1. issued[d].prev \in DOMAIN issued /\ issued[issued[d].prev].seq \in Nat
        BY <3>1, <3>4, DomIssued DEF IInv
      <4>2. InItsFile(issued[d].prev)
        BY <3>1, <3>4 DEF Serial, GroundInFile, Ground
      <4>3. issued[d].prev \in FileDocs
        BY <4>1, <4>2, DomIssued DEF IInv, InItsFile, FileDocs, Torn
      <4>4. QED
        BY <3>2, <3>4, <4>1, <4>3
    <3>5. QED
      BY <3>3, <3>4
  <2>4. QED
    BY <2>2, <2>3 DEF Linked
<1>2. QED
  BY <1>1, Inductive, SoloHolds, PTL

\* ... no receipt that the server has a row for is overwritten on disk ...
THEOREM RowsKeptAlone == Spec => []RowsKeptUnlessRestarted
<1>1. IInv /\ Solo => RowsKeptUnlessRestarted
  <2>. SUFFICES ASSUME IInv, Serial, NEW d \in rows
                PROVE  d \in FileDocs
    BY DEF Solo, SInv, RowsKeptUnlessRestarted
  <2>1. InItsFile(d) /\ d \in 1..Len(issued)
    BY DEF Serial, GroundInFile, Ground, IInv, ChainTypeOK
  <2>2. QED
    BY <2>1, DomIssued DEF IInv, InItsFile, FileDocs, Torn
<1>2. QED
  BY <1>1, Inductive, SoloHolds, PTL

\* ... and the length that scheduled_targets shows never goes back.
THEOREM LengthNeverShrinksAlone == Spec => LengthNeverShrinks
<1>. DEFINE Grows == ~overlapped' /\ ~Restarted' => target.length <= target'.length
<1>1. IInv /\ Solo /\ [Next]_vars => [Grows]_vars
  <2>. SUFFICES ASSUME IInv, Solo, [Next]_vars, ~overlapped', ~Restarted'
                PROVE  target.length <= target'.length
    OBVIOUS
  <2>0. ~overlapped
    BY DEF Next, Watch, vars
  <2>1. Serial
    BY <2>0, NoRestartBefore DEF Solo, SInv
  <2>2. target.length \in Nat
    BY DEF IInv, ChainTypeOK
  <2>3. ASSUME NEW w \in Writers, UpdateTarget(w)
        PROVE  target.length <= target'.length
    <3>1. /\ writer[w].pc = "recorded"
          /\ target' = [head |-> writer[w].doc, length |-> NumberOf(w) + 1]
      BY <2>3 DEF UpdateTarget
    <3>2. writer[w].doc \in rows /\ latest = writer[w].doc
      BY <2>1, <3>1 DEF IInv, FinishedHasReceipt, Serial, Knows
    <3>3. writer[w].doc \in DOMAIN issued /\ writer[w].doc # 0 /\ NumberOf(w) \in Nat
      BY <3>2, DomIssued DEF IInv, ChainTypeOK, NumberOf
    <3>4. target.length > 0 =>
            target.head \in rows /\ issued[target.head].seq + 1 = target.length
      BY DEF IInv, HeadHasRow
    <3>5. target.head \in rows =>
            /\ issued[target.head].seq <= NumberOf(w)
            /\ issued[target.head].seq \in Nat
      BY <2>1, <3>2, <3>3, DomIssued DEF IInv, ChainTypeOK, Serial, GroundBelow, Ground, NumberOf
    <3>6. QED
      BY <2>2, <3>1, <3>3, <3>4, <3>5
  <2>4. CASE UNCHANGED target
    BY <2>2, <2>4
  <2>5. QED
    BY <2>3, <2>4 DEF Next, Start, StartAnalysis, StartGap, Persist, LoadLatest,
       OpenNumbered, FillNumbered, OpenLatest, FillLatest, Finalize, InsertRow, Fail, vars
<1>2. LengthNeverShrinks <=> [][Grows]_vars
  BY DEF LengthNeverShrinks
<1>. HIDE DEF Grows
<1>3. QED
  BY <1>1, <1>2, Inductive, SoloHolds, PTL DEF Spec

(***************************************************************************)
(* The verifiers                                                           *)
(***************************************************************************)
\* Induction over the subsets of a finite set, for a set P of them.
LEMMA SubsetInduction ==
  ASSUME NEW F, IsFiniteSet(F), NEW P,
         \A U \in SUBSET F : (\A V \in SUBSET U : V # U => V \in P) => U \in P
  PROVE  F \in P
<1>1. SUFFICES ASSUME F \notin P PROVE FALSE
  OBVIOUS
<1>2. IsWellFoundedOn(StrictSubsetOrdering(F), FiniteSubsetsOf(F))
  BY FS_StrictSubsetOrderingWellFounded
<1> DEFINE B == {U \in FiniteSubsetsOf(F) : U \notin P}
<1>3. F \in B
  BY <1>1 DEF FiniteSubsetsOf
<1>4. PICK U \in B : \A V \in B : <<V, U>> \notin StrictSubsetOrdering(F)
  <2>1. B \subseteq FiniteSubsetsOf(F) /\ B # {}
    BY <1>3
  <2> HIDE DEF B
  <2>2. QED
    BY <1>2, <2>1, WFMin
<1>5. QED
  BY <1>4, FS_Subset DEF StrictSubsetOrdering, FiniteSubsetsOf

\* A finite set that is not empty has an element of the least value.
LEMMA LeastOf ==
  ASSUME NEW S, IsFiniteSet(S), NEW f, \A x \in S : f[x] \in Int
  PROVE  S = {} \/ \E m \in S : \A x \in S : f[m] <= f[x]
<1> DEFINE P == {U \in SUBSET S : U = {} \/ \E m \in U : \A x \in U : f[m] <= f[x]}
<1>1. ASSUME NEW U \in SUBSET S, \A V \in SUBSET U : V # U => V \in P
      PROVE  U \in P
  <2>1. CASE U = {}
    BY <2>1
  <2>2. CASE U # {}
    <3>1. PICK y \in U : TRUE
      BY <2>2
    <3>2. CASE U = {y}
      <4>1. f[y] <= f[y]
        OBVIOUS
      <4>2. QED
        BY <3>2, <4>1
    <3>3. CASE U # {y}
      <4>1. PICK m \in U \ {y} : \A x \in U \ {y} : f[m] <= f[x]
        <5>1. U \ {y} \in P /\ U \ {y} # {}
          BY <1>1, <3>1, <3>3
        <5>2. QED
          BY <5>1
      <4>2. CASE f[m] <= f[y]
        <5>1. \A x \in U : f[m] <= f[x]
          BY <4>1, <4>2
        <5>2. QED
          BY <4>1, <5>1
      <4>3. CASE f[y] < f[m]
        <5>1. \A x \in U : f[y] <= f[x]
          BY <4>1, <4>3
        <5>2. QED
          BY <5>1
      <4>4. f[m] \in Int /\ f[y] \in Int
        BY <4>1
      <4>5. QED
        BY <4>2, <4>3, <4>4
    <3>4. QED
      BY <3>2, <3>3
  <2>3. QED
    BY <2>1, <2>2
<1>2. S \in P
  <2> HIDE DEF P
  <2>1. QED
    BY <1>1, SubsetInduction
<1>3. QED
  BY <1>2

\* The receipts of a finite set can be put in order.
LEMMA SortExists ==
  ASSUME NEW docs, IsFiniteSet(docs), \A d \in docs : issued[d].seq \in Int
  PROVE  \E chain \in Bijection(1..Cardinality(docs), docs) : Ascending(chain)
<1> DEFINE Sorted(U) == \E chain \in Bijection(1..Cardinality(U), U) : Ascending(chain)
           P == {U \in SUBSET docs : Sorted(U)}
<1>1. ASSUME NEW U \in SUBSET docs, \A V \in SUBSET U : V # U => V \in P
      PROVE  U \in P
  <2>1. CASE U = {}
    <3>1. Cardinality(U) = 0
      BY <2>1, FS_EmptySet
    <3>2. <<>> \in Bijection(1..0, {}) /\ Ascending(<<>>)
      BY DEF Bijection, Injection, Surjection, IsInjective, Ascending
    <3>3. QED
      BY <2>1, <3>1, <3>2
  <2>2. CASE U # {}
    <3>1. PICK m \in U : \A d \in U : issued[m].seq <= issued[d].seq
      <4> DEFINE f == [d \in docs |-> issued[d].seq]
      <4>1. IsFiniteSet(U) /\ \A d \in U : f[d] \in Int
        BY FS_Subset
      <4>2. PICK m \in U : \A d \in U : f[m] <= f[d]
        <5> HIDE DEF f
        <5>1. QED
          BY <2>2, <4>1, LeastOf
      <4>3. QED
        BY <4>2
    <3> DEFINE n == Cardinality(U)
               V == U \ {m}
    <3>2. n \in Nat /\ n > 0 /\ Cardinality(V) = n - 1
      <4>1. IsFiniteSet(U)
        BY FS_Subset
      <4>2. n \in Nat /\ n # 0
        BY <2>2, <4>1, FS_CardinalityType, FS_EmptySet
      <4>3. Cardinality(V) = n - 1
        BY <4>1, FS_RemoveElement
      <4>4. QED
        BY <4>2, <4>3
    <3>3. PICK c \in Bijection(1..n-1, V) : Ascending(c)
      <4>1. V \in P
        BY <1>1
      <4>2. QED
        BY <3>2, <4>1
    <3>4. /\ c \in [1..n-1 -> V]
          /\ \A i, j \in 1..n-1 : c[i] = c[j] => i = j
          /\ \A d \in V : \E i \in 1..n-1 : c[i] = d
          /\ \A i, j \in 1..n-1 : i < j => issued[c[i]].seq <= issued[c[j]].seq
      BY <3>3 DEF Bijection, Injection, Surjection, IsInjective, Ascending
    <3> DEFINE chain == [i \in 1..n |-> IF i = 1 THEN m ELSE c[i - 1]]
    <3>5. /\ chain[1] = m
          /\ \A i \in 2..n : i - 1 \in 1..n-1 /\ chain[i] = c[i - 1] /\ chain[i] \in V
      BY <3>2, <3>4
    <3>6. chain \in [1..n -> U]
      BY <3>2, <3>4
    <3>7. \A i, j \in 1..n : chain[i] = chain[j] => i = j
      <4> SUFFICES ASSUME NEW i \in 1..n, NEW j \in 1..n, chain[i] = chain[j]
                   PROVE  i = j
        OBVIOUS
      <4>1. CASE i = 1 \/ j = 1
        <5>1. ASSUME NEW k \in 1..n, k # 1
              PROVE  chain[k] # m
          <6>1. k \in 2..n
            BY <3>2, <5>1
          <6>2. chain[k] \in V
            BY <3>5, <6>1
          <6>3. QED
            BY <6>2
        <5>2. QED
          BY <3>5, <4>1, <5>1
      <4>2. CASE i # 1 /\ j # 1
        <5>1. i - 1 \in 1..n-1 /\ j - 1 \in 1..n-1 /\ c[i - 1] = c[j - 1]
          BY <3>2, <3>5, <4>2
        <5>2. QED
          BY <3>2, <3>4, <5>1
      <4>3. QED
        BY <4>1, <4>2
    <3>8. \A d \in U : \E i \in 1..n : chain[i] = d
      <4> SUFFICES ASSUME NEW d \in U PROVE \E i \in 1..n : chain[i] = d
        OBVIOUS
      <4>1. CASE d = m
        BY <3>2, <3>5, <4>1
      <4>2. CASE d # m
        <5>1. PICK i \in 1..n-1 : c[i] = d
          BY <3>4, <4>2
        <5>2. i + 1 \in 2..n /\ (i + 1) - 1 = i
          BY <3>2
        <5>3. i + 1 \in 1..n /\ chain[i + 1] = d
          BY <3>2, <3>5, <5>1, <5>2
        <5>4. QED
          BY <5>3
      <4>3. QED
        BY <4>1, <4>2
    <3>9. \A i, j \in 1..n : i < j => issued[chain[i]].seq <= issued[chain[j]].seq
      <4> SUFFICES ASSUME NEW i \in 1..n, NEW j \in 1..n, i < j
                   PROVE  issued[chain[i]].seq <= issued[chain[j]].seq
        OBVIOUS
      <4>1. CASE i = 1
        BY <3>1, <3>5, <3>6, <4>1
      <4>2. CASE i # 1
        <5>1. i - 1 \in 1..n-1 /\ j - 1 \in 1..n-1 /\ i - 1 < j - 1
          BY <3>2, <4>2
        <5>2. chain[i] = c[i - 1] /\ chain[j] = c[j - 1]
          BY <3>2, <3>5, <4>2
        <5>3. QED
          BY <3>4, <5>1, <5>2
      <4>3. QED
        BY <4>1, <4>2
    <3> HIDE DEF chain
    <3>10. chain \in Bijection(1..n, U)
      BY <3>6, <3>7, <3>8 DEF Bijection, Injection, Surjection, IsInjective
    <3>11. Ascending(chain)
      BY <3>6, <3>9 DEF Ascending
    <3>12. QED
      BY <3>10, <3>11
  <2>3. QED
    BY <2>1, <2>2
<1>2. docs \in P
  <2> HIDE DEF P
  <2>1. QED
    BY <1>1, SubsetInduction
<1>3. QED
  BY <1>2

\* So the order the verifiers read them in is one.
LEMMA InOrderSorts ==
  ASSUME NEW docs, IsFiniteSet(docs), \A d \in docs : issued[d].seq \in Int
  PROVE  LET chain == InOrder(docs) n == Cardinality(docs) IN
           /\ n \in Nat /\ chain \in [1..n -> docs]
           /\ \A i, j \in 1..n : chain[i] = chain[j] => i = j
           /\ \A d \in docs : \E i \in 1..n : chain[i] = d
           /\ \A i, j \in 1..n : i < j => issued[chain[i]].seq <= issued[chain[j]].seq
<1>1. /\ InOrder(docs) \in Bijection(1..Cardinality(docs), docs)
      /\ Ascending(InOrder(docs))
  BY SortExists DEF InOrder
<1>2. Cardinality(docs) \in Nat
  BY FS_CardinalityType
<1>3. QED
  BY <1>1, <1>2 DEF Bijection, Injection, Surjection, IsInjective, Ascending

\* A verifier that reads receipts without signatures to the end, finding the
\* number and the link it expects in each, has read a chain, and reads every
\* chain so: below the first receipt out of its place there would be another.
LEMMA IntactMeansLinked ==
  ASSUME NEW docs, IsFiniteSet(docs),
         \A d \in docs : issued[d].seq \in Nat /\ SignatureOK(d),
         0 \notin docs
  PROVE  ChainIntact(docs) <=> Linked(docs)
<1> DEFINE chain == InOrder(docs)
           n == Cardinality(docs)
<1>1. /\ n \in Nat /\ chain \in [1..n -> docs]
      /\ \A i, j \in 1..n : chain[i] = chain[j] => i = j
      /\ \A d \in docs : \E i \in 1..n : chain[i] = d
      /\ \A i, j \in 1..n : i < j => issued[chain[i]].seq <= issued[chain[j]].seq
  BY InOrderSorts
<1>2. DOMAIN chain = 1..n /\ \A i \in 1..n : chain[i] \in docs /\ issued[chain[i]].seq \in Nat
  BY <1>1
<1>3. ChainIntact(docs) <=>
        \A k \in 1..n : /\ issued[chain[k]].seq = k - 1
                        /\ issued[chain[k]].prev = IF k = 1 THEN 0 ELSE chain[k - 1]
  BY <1>2 DEF ChainIntact, CheckReceipt
<1> HIDE DEF chain, n
<1>4. ASSUME ChainIntact(docs)
      PROVE  Linked(docs)
  <2>1. ASSUME NEW c \in docs, NEW d \in docs, issued[c].seq = issued[d].seq
        PROVE  c = d
    <3>1. PICK i \in 1..n, j \in 1..n : chain[i] = c /\ chain[j] = d
      BY <1>1
    <3>2. i - 1 = j - 1
      BY <1>3, <1>4, <2>1, <3>1
    <3>3. QED
      BY <3>1, <3>2
  <2>2. ASSUME NEW d \in docs
        PROVE  IF issued[d].seq = 0 THEN issued[d].prev = 0
               ELSE /\ issued[d].prev \in docs
                    /\ issued[issued[d].prev].seq + 1 = issued[d].seq
    <3>1. PICK k \in 1..n : chain[k] = d
      BY <1>1
    <3>2. /\ issued[d].seq = k - 1
          /\ issued[d].prev = IF k = 1 THEN 0 ELSE chain[k - 1]
      BY <1>3, <1>4, <3>1
    <3>3. CASE k = 1
      BY <3>2, <3>3
    <3>4. CASE k # 1
      <4>1. k - 1 \in 1..n
        BY <1>1, <3>4
      <4>2. chain[k - 1] \in docs /\ issued[chain[k - 1]].seq = (k - 1) - 1
        BY <1>2, <1>3, <1>4, <4>1
      <4>3. QED
        BY <3>2, <3>4, <4>1, <4>2
    <3>5. QED
      BY <3>3, <3>4
  <2>3. QED
    BY <2>1, <2>2 DEF Linked
<1>5. ASSUME Linked(docs)
      PROVE  ChainIntact(docs)
  <2>1. /\ \A c, d \in docs : issued[c].seq = issued[d].seq => c = d
        /\ \A d \in docs : issued[d].seq = 0 => issued[d].prev = 0
        /\ \A d \in docs : issued[d].seq # 0 =>
             /\ issued[d].prev \in docs
             /\ issued[issued[d].prev].seq + 1 = issued[d].seq
    BY <1>5 DEF Linked
  <2> DEFINE Wrong == {k \in 1..n : issued[chain[k]].seq # k - 1}
  <2>2. Wrong = {}
    <3> SUFFICES ASSUME Wrong # {} PROVE FALSE
      OBVIOUS
    <3>1. PICK k \in Wrong : \A j \in Wrong : k <= j
      <4> DEFINE f == [j \in 1..n |-> j]
      <4>1. IsFiniteSet(Wrong) /\ \A j \in Wrong : f[j] \in Int
        <5>1. IsFiniteSet(1..n)
          BY <1>1, FS_Interval
        <5>2. Wrong \in SUBSET (1..n)
          OBVIOUS
        <5>3. IsFiniteSet(Wrong)
          BY <5>1, <5>2, FS_Subset
        <5>4. QED
          BY <5>3
      <4>2. PICK k \in Wrong : \A j \in Wrong : f[k] <= f[j]
        <5> HIDE DEF f, Wrong
        <5>1. QED
          BY <4>1, LeastOf
      <4>3. QED
        BY <4>2
    <3> DEFINE d == chain[k]
    <3>2. k \in 1..n /\ issued[d].seq # k - 1 /\ d \in docs /\ issued[d].seq \in Nat
      BY <1>2, <3>1
    <3>3. \A j \in 1..n : j < k => issued[chain[j]].seq = j - 1
      BY <3>1
    <3> HIDE DEF d, Wrong
    <3>4. issued[d].seq >= k
      <4>1. CASE k = 1
        BY <3>2, <4>1
      <4>2. CASE k > 1
        <5>1. k - 1 \in 1..n /\ k - 1 < k
          BY <1>1, <3>2, <4>2
        <5>2. issued[chain[k - 1]].seq = (k - 1) - 1
          BY <3>3, <5>1
        <5>3. issued[chain[k - 1]].seq <= issued[d].seq
          BY <1>1, <3>2, <5>1 DEF d
        <5>4. chain[k - 1] # d
          BY <1>1, <3>2, <5>1 DEF d
        <5>5. issued[chain[k - 1]].seq # issued[d].seq
          BY <1>2, <2>1, <3>2, <5>1, <5>4
        <5>6. QED
          BY <3>2, <5>2, <5>3, <5>5
      <4>3. QED
        BY <3>2, <4>1, <4>2
    <3>5. PICK j \in 1..n : chain[j] = issued[d].prev
      <4>1. issued[d].prev \in docs
        BY <2>1, <3>2, <3>4
      <4>2. QED
        BY <1>1, <4>1
    <3>6. issued[chain[j]].seq + 1 = issued[d].seq
      BY <2>1, <3>2, <3>4, <3>5
    <3>7. j < k
      <4>1. CASE j = k
        BY <3>2, <3>6, <4>1 DEF d
      <4>2. CASE k < j
        <5>1. issued[d].seq <= issued[chain[j]].seq
          BY <1>1, <3>2, <4>2 DEF d
        <5>2. QED
          BY <1>2, <3>2, <3>6, <5>1
      <4>3. QED
        BY <3>2, <4>1, <4>2
    <3>8. issued[chain[j]].seq = j - 1
      BY <3>3, <3>7
    <3>9. QED
      BY <3>2, <3>4, <3>6, <3>7, <3>8
  <2>3. \A k \in 1..n : issued[chain[k]].seq = k - 1
    BY <2>2
  <2>4. ASSUME NEW k \in 1..n
        PROVE  issued[chain[k]].prev = IF k = 1 THEN 0 ELSE chain[k - 1]
    <3>1. CASE k = 1
      BY <1>2, <2>1, <2>3, <3>1
    <3>2. CASE k # 1
      <4>1. k - 1 \in 1..n /\ k - 1 # 0
        BY <1>1, <3>2
      <4>2. /\ issued[chain[k]].prev \in docs
            /\ issued[issued[chain[k]].prev].seq + 1 = k - 1
        BY <1>2, <2>1, <2>3, <4>1
      <4>3. issued[chain[k - 1]].seq = (k - 1) - 1 /\ chain[k - 1] \in docs
        BY <1>2, <2>3, <4>1
      <4>4. issued[issued[chain[k]].prev].seq \in Nat
        BY <4>2
      <4>5. issued[issued[chain[k]].prev].seq = issued[chain[k - 1]].seq
        BY <4>2, <4>3, <4>4
      <4>6. QED
        BY <2>1, <3>2, <4>2, <4>3, <4>5
    <3>3. QED
      BY <3>1, <3>2
  <2>5. QED
    BY <1>3, <2>3, <2>4
<1>6. QED
  BY <1>4, <1>5

\* A set of issued receipts is a chain exactly if it is a line of descent: as
\* numbers follow links, two receipts of one number would have ancestors of
\* one number, down to two that follow the same receipt or none.
LEMMA LineIsLinked ==
  ASSUME IInv, NEW docs \in SUBSET DOMAIN issued
  PROVE  LineOfDescent(docs) <=> Linked(docs)
<1>1. IsFiniteSet(docs)
  <2>1. IsFiniteSet(1..Len(issued)) /\ DOMAIN issued = 1..Len(issued)
    BY DomIssued, FS_Interval DEF IInv
  <2>2. QED
    BY <2>1, FS_Subset
<1>2. \A d \in docs :
        /\ issued[d].seq \in Nat
        /\ issued[d].prev = 0 => issued[d].seq = 0
        /\ issued[d].prev # 0 =>
             /\ issued[issued[d].prev].seq \in Nat
             /\ issued[d].seq = issued[issued[d].prev].seq + 1
  <2> SUFFICES ASSUME NEW d \in docs
               PROVE  /\ issued[d].seq \in Nat
                      /\ issued[d].prev = 0 => issued[d].seq = 0
                      /\ issued[d].prev # 0 =>
                           /\ issued[issued[d].prev].seq \in Nat
                           /\ issued[d].seq = issued[issued[d].prev].seq + 1
    OBVIOUS
  <2>1. issued[d].seq \in Nat /\ (issued[d].prev # 0 => issued[issued[d].prev].seq \in Nat)
    BY DomIssued DEF IInv
  <2>2. QED
    BY <2>1 DEF IInv, NumbersFollowLinks
<1>3. ASSUME Linked(docs)
      PROVE  LineOfDescent(docs)
  <2>1. \A d \in docs : issued[d].prev # 0 => issued[d].prev \in docs
    BY <1>2, <1>3 DEF Linked
  <2>2. ASSUME NEW c \in docs, NEW d \in docs, issued[c].prev = issued[d].prev
        PROVE  c = d
    <3>1. issued[c].seq = issued[d].seq
      BY <1>2, <2>2
    <3>2. QED
      BY <1>3, <3>1 DEF Linked
  <2>3. QED
    BY <2>1, <2>2 DEF LineOfDescent
<1>4. ASSUME LineOfDescent(docs)
      PROVE  Linked(docs)
  <2>1. /\ \A d \in docs : issued[d].prev # 0 => issued[d].prev \in docs
        /\ \A c, d \in docs : issued[c].prev = issued[d].prev => c = d
    BY <1>4 DEF LineOfDescent
  <2> DEFINE Doubles == {d \in docs : \E c \in docs : c # d /\ issued[c].seq = issued[d].seq}
  <2>2. Doubles = {}
    <3> SUFFICES ASSUME Doubles # {} PROVE FALSE
      OBVIOUS
    <3>1. PICK m \in Doubles : \A d \in Doubles : issued[m].seq <= issued[d].seq
      <4> DEFINE f == [d \in docs |-> issued[d].seq]
      <4>1. IsFiniteSet(Doubles) /\ \A d \in Doubles : f[d] \in Int
        BY <1>1, <1>2, FS_Subset
      <4>2. PICK m \in Doubles : \A d \in Doubles : f[m] <= f[d]
        <5> HIDE DEF f, Doubles
        <5>1. QED
          BY <4>1, LeastOf
      <4>3. QED
        BY <4>2
    <3>2. PICK c \in docs : c # m /\ issued[c].seq = issued[m].seq
      OBVIOUS
    <3>3. m \in docs
      OBVIOUS
    <3>4. issued[c].prev # issued[m].prev
      BY <2>1, <3>2, <3>3
    <3>5. issued[c].prev # 0 /\ issued[m].prev # 0
      BY <1>2, <3>2, <3>3, <3>4
    <3>6. issued[c].prev \in docs /\ issued[m].prev \in docs
      BY <2>1, <3>2, <3>3, <3>5
    <3>7. /\ issued[issued[c].prev].seq = issued[issued[m].prev].seq
          /\ issued[issued[m].prev].seq < issued[m].seq
          /\ issued[issued[m].prev].seq \in Nat /\ issued[m].seq \in Nat
      BY <1>2, <3>2, <3>3, <3>5
    <3>8. issued[m].prev \in Doubles
      BY <3>4, <3>6, <3>7
    <3>9. QED
      BY <3>1, <3>7, <3>8
  <2>3. \A c, d \in docs : issued[c].seq = issued[d].seq => c = d
    BY <2>2
  <2>4. QED
    BY <1>2, <2>1, <2>3 DEF Linked
<1>5. QED
  BY <1>3, <1>4

\* Without a key nothing is signed.
Unsigned == ~Signing => \A d \in DOMAIN issued : issued[d].signature = {}

\* Only OpenNumbered issues a receipt, and it signs with the key there is.
LEMMA UnsignedHolds == Spec => []Unsigned
<1>1. Init => Unsigned
  BY DEF Init, Unsigned
<1>2. IInv /\ Unsigned /\ [Next]_vars => Unsigned'
  <2> SUFFICES ASSUME IInv, Unsigned, [Next]_vars PROVE Unsigned'
    OBVIOUS
  <2>1. CASE UNCHANGED issued
    BY <2>1 DEF Unsigned
  <2>2. ASSUME NEW w \in Writers, OpenNumbered(w)
        PROVE  Unsigned'
    <3> DEFINE receipt == DraftReceipt(writer[w].kind, writer[w].prior)
    <3>1. issued' = Append(issued, receipt)
      BY <2>2 DEF OpenNumbered
    <3>2. ~Signing => receipt.signature = {}
      BY DEF DraftReceipt
    <3>3. issued \in Seq(Receipt)
      BY DEF IInv, ChainTypeOK
    <3> HIDE DEF receipt
    <3>4. /\ DOMAIN issued' = DOMAIN issued \cup {Len(issued) + 1}
          /\ issued'[Len(issued) + 1] = receipt
          /\ \A d \in DOMAIN issued : issued'[d] = issued[d]
      BY <3>1, <3>3, AppendProperties, DomIssued DEF IInv
    <3>5. QED
      BY <3>2, <3>4 DEF Unsigned
  <2>3. QED
    BY <2>1, <2>2
    DEF Next, vars, Start, StartAnalysis, StartGap, Persist, LoadLatest, FillNumbered,
        OpenLatest, FillLatest, Finalize, InsertRow, UpdateTarget, Fail
<1>3. QED
  BY <1>1, <1>2, Inductive, PTL DEF Spec

\* For any number of overlapping writers and receipts: without signatures the
\* verifiers call the files, and the rows, intact exactly if each is a line of
\* descent.  A fork of which one side is overwritten is not seen.
THEOREM VerifierExactHolds == Spec => []VerifierExact
<1>1. IInv /\ Unsigned => VerifierExact
  <2> SUFFICES ASSUME IInv, Unsigned, ~Signing
               PROVE  /\ ChainIntact(FileDocs) <=> LineOfDescent(FileDocs)
                      /\ ChainIntact(rows) <=> LineOfDescent(rows)
    BY DEF VerifierExact
  <2>1. /\ issued \in Seq(Receipt) /\ Len(issued) \in Nat /\ DOMAIN issued = 1..Len(issued)
        /\ rows \subseteq 1..Len(issued)
        /\ \A n \in DOMAIN file : file[n] \in Torn..Len(issued)
    BY DomIssued DEF IInv, ChainTypeOK
  <2>2. \A d \in 1..Len(issued) : issued[d].seq \in Nat /\ SignatureOK(d)
    <3> SUFFICES ASSUME NEW d \in 1..Len(issued)
                 PROVE  issued[d].seq \in Nat /\ SignatureOK(d)
      OBVIOUS
    <3>1. issued[d] \in Receipt
      BY <2>1
    <3>2. issued[d].signature = {}
      BY <2>1 DEF Unsigned
    <3>3. QED
      BY <3>1, <3>2 DEF Receipt, SignatureOK
  <2>3. FileDocs \subseteq 1..Len(issued)
    <3> SUFFICES ASSUME NEW n \in DOMAIN file, file[n] \notin {0, Torn}
                 PROVE  file[n] \in 1..Len(issued)
      BY DEF FileDocs
    <3>1. QED
      BY <2>1 DEF Torn
  <2>4. ASSUME NEW docs \in SUBSET (1..Len(issued))
        PROVE  ChainIntact(docs) <=> LineOfDescent(docs)
    <3>1. IsFiniteSet(docs)
      <4>1. IsFiniteSet(1..Len(issued))
        BY <2>1, FS_Interval
      <4>2. QED
        BY <4>1, FS_Subset
    <3>2. 0 \notin docs /\ \A d \in docs : issued[d].seq \in Nat /\ SignatureOK(d)
      BY <2>2
    <3>3. QED
      BY <2>1, <3>1, <3>2, IntactMeansLinked, LineIsLinked
  <2>5. QED
    BY <2>1, <2>3, <2>4
<1>2. QED
  BY <1>1, UnsignedHolds, Inductive, PTL
=============================================================================

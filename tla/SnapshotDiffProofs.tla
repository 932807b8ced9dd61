------------------------- MODULE SnapshotDiffProofs -------------------------
(***************************************************************************)
(* What the diff of two run directories can say, for all artifacts that    *)
(* the analyzer writes.                                                    *)
(***************************************************************************)
EXTENDS SnapshotDiff, FiniteSets, FiniteSetTheorems, TLAPS

\* A set of indices of a sequence that is not empty has a highest one: if
\* above each there were another, k |-> k + 1 would map the numbers up to them
\* one to one into fewer.
LEMMA Highest ==
  ASSUME NEW n \in Nat, NEW S \in SUBSET (1..n), S # {}
  PROVE  \E i \in S : \A j \in S : ~(j > i)
<1> SUFFICES ASSUME \A i \in S : \E j \in S : j > i
             PROVE  FALSE
  OBVIOUS
<1> DEFINE D == {k \in 1..n : \E i \in S : k <= i}
           f == [k \in D |-> k + 1]
<1>1. IsFiniteSet(D)
  <2>1. D \in SUBSET (1..n) /\ IsFiniteSet(1..n)
    BY FS_Interval
  <2> QED BY <2>1, FS_Subset
<1>2. 1 \in D
  <2>1. PICK i \in S : i \in 1..n
    OBVIOUS
  <2>2. 1 \in 1..n /\ 1 <= i
    BY <2>1
  <2> QED BY <2>2
<1>3. f \in [D -> D \ {1}]
  <2> SUFFICES ASSUME NEW k \in D PROVE k + 1 \in D \ {1}
    OBVIOUS
  <2>1. PICK i \in S : k <= i
    OBVIOUS
  <2>2. PICK j \in S : j > i
    OBVIOUS
  <2> QED BY <2>1, <2>2
<1>4. \A x, y \in D : f[x] = f[y] => x = y
  OBVIOUS
<1> HIDE DEF D, f
<1>5. IsFiniteSet(D \ {1}) /\ Cardinality(D \ {1}) < Cardinality(D)
  <2>1. Cardinality(D) \in Nat
    BY <1>1, FS_CardinalityType
  <2>2. IsFiniteSet(D \ {1}) /\ Cardinality(D \ {1}) = Cardinality(D) - 1
    BY <1>1, <1>2, FS_RemoveElement
  <2> QED BY <2>1, <2>2
<1> QED BY <1>1, <1>3, <1>4, <1>5, FS_PigeonHole

\* The two artifacts have the fields the analyzer gives them, or none.
LEMMA Fields ==
  ASSUME NEW run \in RunDir
  PROVE  /\ "packages" \notin DOMAIN run.graph
         /\ "routes" \notin DOMAIN run.api
         /\ Entries(run.api, "endpoints") \in Seq(Endpoint)
<1>1. /\ run.graph \in build_dependency_graph \cup {NoFile}
      /\ run.api \in extract_api_surface \cup {NoFile}
  BY DEF RunDir
<1>2. DOMAIN NoFile = {} /\ <<>> \in Seq(Endpoint)
  BY DEF NoFile
<1>3. "packages" \notin DOMAIN run.graph
  <2>1. CASE run.graph = NoFile
    BY <1>2, <2>1
  <2>2. CASE run.graph \in build_dependency_graph
    <3>1. PICK d \in Seq(Dependency) : run.graph = [dependencies |-> d]
      BY <2>2 DEF build_dependency_graph
    <3>2. DOMAIN run.graph = {"dependencies"}
      BY <3>1
    <3> QED BY <3>2
  <2> QED BY <1>1, <2>1, <2>2
<1>4. CASE run.api = NoFile
  <2>1. Entries(run.api, "endpoints") = <<>>
    BY <1>2, <1>4 DEF Entries
  <2> QED BY <1>2, <1>3, <1>4, <2>1
<1>5. CASE run.api \in extract_api_surface
  <2>1. PICK e \in Seq(Endpoint) : run.api = [endpoints |-> e]
    BY <1>5 DEF extract_api_surface
  <2>2. Entries(run.api, "endpoints") = e /\ "routes" \notin DOMAIN run.api
    BY <2>1 DEF Entries
  <2> QED BY <1>3, <2>1, <2>2
<1> QED BY <1>1, <1>4, <1>5

\* The diff reads the packages of a graph that has none.
LEMMA NothingRead ==
  ASSUME NEW run \in RunDir
  PROVE  /\ DOMAIN packageKeys(run.graph) = {}
         /\ cveList(run.graph) = {}
<1>1. Entries(run.graph, "packages") = <<>>
  BY Fields DEF Entries
<1>2. DOMAIN <<>> = {}
  OBVIOUS
<1> QED BY <1>1, <1>2 DEF packageKeys, cveList

\* The map of endpoints gives each route of the artifact a level of the
\* artifact, whichever of its entries the map keeps.
LEMMA EndpointsType ==
  ASSUME NEW run \in RunDir
  PROVE  \A k \in DOMAIN endpoints(run.api) : endpoints(run.api)[k] \in Levels
<1> DEFINE list == Entries(run.api, "endpoints")
           at(k) == {i \in DOMAIN list : list[i].route = k}
<1>1. list \in Seq(Endpoint) /\ "routes" \notin DOMAIN run.api
  BY Fields
<1> SUFFICES ASSUME NEW k \in DOMAIN endpoints(run.api)
             PROVE  endpoints(run.api)[k] \in Levels
  OBVIOUS
<1> DEFINE last == CHOOSE i \in DOMAIN list :
                     list[i].route = k /\ \A j \in DOMAIN list : j > i => list[j].route # k
<1>2. /\ k \in {list[i].route : i \in DOMAIN list}
      /\ endpoints(run.api)[k] = list[last].auth
  BY <1>1 DEF endpoints
<1>3. Len(list) \in Nat /\ DOMAIN list = 1..Len(list)
  BY <1>1
<1>4. at(k) \in SUBSET (1..Len(list)) /\ at(k) # {}
  BY <1>2, <1>3
<1>5. PICK i \in at(k) : \A j \in at(k) : ~(j > i)
  <2> HIDE DEF at
  <2> QED BY <1>3, <1>4, Highest
<1>6. last \in DOMAIN list
  BY <1>5
<1>7. list[last] \in Endpoint
  BY <1>1, <1>6
<1> QED BY <1>2, <1>7 DEF Endpoint

\* Whatever changes among a repository's dependencies and their known
\* vulnerabilities, no diff of two runs says so: the artifact lists them under
\* "dependencies", and the diff looks for "packages".
THEOREM DependenciesUnseen ==
  ASSUME NEW prev \in RunDir, NEW new \in RunDir, NEW first \in BOOLEAN
  PROVE  LET diff == Comparison(first, prev, new)
         IN  /\ diff.added = {} /\ diff.removed = {} /\ diff.version_changed = {}
             /\ diff.newCves = {} /\ diff.closedCves = {}
<1> DEFINE base == IF first THEN NoRun ELSE prev
<1>1. base \in RunDir
  BY DEF RunDir, NoRun
<1>2. /\ DOMAIN packageKeys(base.graph) = {} /\ cveList(base.graph) = {}
      /\ DOMAIN packageKeys(new.graph) = {} /\ cveList(new.graph) = {}
  BY <1>1, NothingRead
<1> QED BY <1>2 DEF Comparison, computeStructuredDiff, Changed

\* An alarm is raised exactly when a route of both runs was guarded and is
\* open now; a route that lost its guard for an unknown one raises none.
THEOREM AlarmExactlyOnOpening ==
  ASSUME NEW prev \in RunDir, NEW new \in RunDir, NEW first \in BOOLEAN
  PROVE  LET pe == endpoints(IF first THEN NoRun.api ELSE prev.api)
             ne == endpoints(new.api)
         IN  detectAnomalies(Comparison(first, prev, new)) <=>
               \E k \in DOMAIN pe \cap DOMAIN ne :
                 pe[k] = "AUTHENTICATED" /\ ne[k] = "OPEN"
<1> DEFINE base == IF first THEN NoRun ELSE prev
           pe == endpoints(base.api)
           ne == endpoints(new.api)
           diff == Comparison(first, prev, new)
<1>1. base \in RunDir /\ base.api = IF first THEN NoRun.api ELSE prev.api
  BY DEF RunDir, NoRun
<1>2. /\ \A k \in DOMAIN pe : pe[k] \in Levels
      /\ \A k \in DOMAIN ne : ne[k] \in Levels
  BY <1>1, EndpointsType
<1>3. diff.newCves = {} /\ diff.removed = {}
  BY DependenciesUnseen
<1>4. diff.authChanges = {[path |-> k, from |-> pe[k], to |-> ne[k]] : k \in Changed(pe, ne)}
  BY DEF Comparison, computeStructuredDiff
<1> HIDE DEF base, pe, ne, diff
<1>5. detectAnomalies(diff) <=> \E k \in Changed(pe, ne) : pe[k] \in Guarding /\ ne[k] \in Opening
  <2>1. detectAnomalies(diff) <=>
          \E a \in diff.authChanges : a.from \in Guarding /\ a.to \in Opening
    BY <1>3 DEF detectAnomalies
  <2> HIDE DEF Guarding, Opening
  <2>2. ASSUME NEW a \in diff.authChanges, a.from \in Guarding, a.to \in Opening
        PROVE  \E k \in Changed(pe, ne) : pe[k] \in Guarding /\ ne[k] \in Opening
    <3>1. PICK k \in Changed(pe, ne) : a = [path |-> k, from |-> pe[k], to |-> ne[k]]
      BY <1>4, <2>2
    <3> QED BY <2>2, <3>1
  <2>3. ASSUME NEW k \in Changed(pe, ne), pe[k] \in Guarding, ne[k] \in Opening
        PROVE  \E a \in diff.authChanges : a.from \in Guarding /\ a.to \in Opening
    <3> DEFINE a == [path |-> k, from |-> pe[k], to |-> ne[k]]
    <3>1. a \in diff.authChanges /\ a.from = pe[k] /\ a.to = ne[k]
      BY <1>4
    <3> QED BY <2>3, <3>1
  <2> QED BY <2>1, <2>2, <2>3
<1>6. \A k \in DOMAIN pe \cap DOMAIN ne :
        (pe[k] # ne[k] /\ pe[k] \in Guarding /\ ne[k] \in Opening)
          <=> (pe[k] = "AUTHENTICATED" /\ ne[k] = "OPEN")
  BY <1>2 DEF Levels, Guarding, Opening
<1>7. detectAnomalies(diff) <=>
        \E k \in DOMAIN pe \cap DOMAIN ne : pe[k] = "AUTHENTICATED" /\ ne[k] = "OPEN"
  BY <1>5, <1>6 DEF Changed
<1> QED BY <1>1, <1>7 DEF base, pe, ne, diff

\* The first receipt of a target, and one whose base was deleted before it was
\* read, raise no alarm and report every route as new, whatever the run found.
THEOREM NoBaseNoAlarm ==
  ASSUME NEW prev \in RunDir, NEW new \in RunDir, NEW first \in BOOLEAN,
         first \/ prev = NoRun
  PROVE  LET diff == Comparison(first, prev, new)
         IN  /\ ~detectAnomalies(diff)
             /\ diff.newEndpoints = DOMAIN endpoints(new.api)
             /\ diff.removedEndpoints = {} /\ diff.authChanges = {}
<1> DEFINE base == IF first THEN NoRun ELSE prev
           diff == Comparison(first, prev, new)
<1>1. base = NoRun /\ base.api = NoFile
  BY DEF NoRun
<1>2. DOMAIN endpoints(NoFile) = {}
  <2>1. DOMAIN NoFile = {} /\ Entries(NoFile, "endpoints") = NoFile
    BY DEF NoFile, Entries
  <2> QED BY <2>1 DEF endpoints
<1>3. Comparison(first, prev, new) = computeStructuredDiff(NoRun, new)
  BY <1>1 DEF Comparison
<1>4. /\ diff.newEndpoints = DOMAIN endpoints(new.api)
      /\ diff.removedEndpoints = {} /\ diff.authChanges = {}
  BY <1>2, <1>3 DEF computeStructuredDiff, Changed, NoRun
<1>5. ~detectAnomalies(diff)
  <2>1. diff.newCves = {} /\ diff.removed = {}
    BY DependenciesUnseen
  <2> HIDE DEF diff
  <2> QED BY <1>4, <2>1 DEF detectAnomalies
<1> QED BY <1>4, <1>5
=============================================================================

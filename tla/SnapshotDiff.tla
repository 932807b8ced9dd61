---------------------------- MODULE SnapshotDiff ----------------------------
(***************************************************************************)
(* What the finalizer of a target's receipt finds when it compares the     *)
(* artifacts of a run with those of the run before it (computeStructured-  *)
(* Diff, detectAnomalies): the artifacts as the analyzer writes them, the  *)
(* maps that the diff reads from them, the diff and the alarm.             *)
(*                                                                         *)
(* An artifact is a record of the fields it has.  A file that is missing   *)
(* or does not parse is read as null, which has no field: NoFile.  An auth *)
(* level is a word; the words that the rules tell apart stand for the      *)
(* strings that contain them.                                              *)
(***************************************************************************)
EXTENDS Naturals, Sequences

CONSTANTS Packages,    \* names of packages
          Odd,         \* the names that contain "unknown" or start with "@"
          Versions,
          Cves,        \* identifiers of vulnerabilities
          Severe,      \* those whose cvss is at least 7.0
          Routes       \* methods and paths of endpoints

NoFile == <<>>

(***************************************************************************)
(* What the analyzer writes                                                *)
(***************************************************************************)
Levels == {"AUTHENTICATED", "OPEN", "UNKNOWN"}

Dependency == [name : Packages, version : Versions, osv_ids : SUBSET Cves]
Endpoint == [route : Routes, auth : Levels]

build_dependency_graph == {[dependencies |-> d] : d \in Seq(Dependency)}
extract_api_surface == {[endpoints |-> e] : e \in Seq(Endpoint)}

\* A run directory holds both artifacts, or lacks one whose stage failed, or
\* has been deleted.
RunDir == [graph : build_dependency_graph \cup {NoFile},
           api : extract_api_surface \cup {NoFile}]

NoRun == [graph |-> NoFile, api |-> NoFile]

(***************************************************************************)
(* What the diff reads                                                     *)
(***************************************************************************)
Entries(file, field) == IF field \in DOMAIN file THEN file[field] ELSE <<>>

packageKeys(graph) ==
  LET list == Entries(graph, "packages")
      names == {list[i].name : i \in DOMAIN list}
      last(n) == CHOOSE i \in DOMAIN list :
                   list[i].name = n /\ \A j \in DOMAIN list : j > i => list[j].name # n
  IN  [n \in names |-> list[last(n)].version]

cveList(graph) ==
  LET list == Entries(graph, "packages")
  IN  UNION {list[i].osv : i \in DOMAIN list}

\* Two routes of one method and path are one entry, that of the later file.
endpoints(api) ==
  LET list == IF "routes" \in DOMAIN api THEN api["routes"]
              ELSE Entries(api, "endpoints")
      keys == {list[i].route : i \in DOMAIN list}
      last(k) == CHOOSE i \in DOMAIN list :
                   list[i].route = k /\ \A j \in DOMAIN list : j > i => list[j].route # k
  IN  [k \in keys |-> list[last(k)].auth]

(***************************************************************************)
(* The diff                                                                *)
(***************************************************************************)
Changed(old, new) == {k \in DOMAIN old \cap DOMAIN new : old[k] # new[k]}

computeStructuredDiff(prev, new) ==
  LET pm == packageKeys(prev.graph)   nm == packageKeys(new.graph)
      pc == cveList(prev.graph)       nc == cveList(new.graph)
      pe == endpoints(prev.api)       ne == endpoints(new.api)
  IN  [added |-> DOMAIN nm \ DOMAIN pm,
       removed |-> DOMAIN pm \ DOMAIN nm,
       version_changed |-> Changed(pm, nm),
       newCves |-> nc \ pc,
       closedCves |-> pc \ nc,
       newEndpoints |-> DOMAIN ne \ DOMAIN pe,
       removedEndpoints |-> DOMAIN pe \ DOMAIN ne,
       authChanges |-> {[path |-> k, from |-> pe[k], to |-> ne[k]] : k \in Changed(pe, ne)}]

\* The words that contain "required" or "auth", and those that contain "none"
\* or "unauthenticated", or are "open".
Guarding == {"AUTHENTICATED", "required", "unauthenticated"}
Opening == {"OPEN", "none", "unauthenticated"}

detectAnomalies(diff) ==
  \/ diff.newCves \cap Severe # {}
  \/ \E a \in diff.authChanges : a.from \in Guarding /\ a.to \in Opening
  \/ diff.removed # {} /\ diff.added \cap Odd # {}

\* The finalizer compares the first receipt of a target with nothing, and a
\* later one with the directory of the run before, which may be gone.
Comparison(first, prev, new) ==
  computeStructuredDiff(IF first THEN NoRun ELSE prev, new)
=============================================================================

----------------------------- MODULE WorkspaceProofs -----------------------------
(***************************************************************************)
(* What is decided of a workspace before anything runs, for any number of  *)
(* directories, manifests, files and packages: the graph that is built is  *)
(* sorted and complete, keys cover what the selection leaves out, builds   *)
(* see the packages that are locked, and a version check passes only if    *)
(* the projects agree.                                                     *)
(***************************************************************************)
EXTENDS Planning, Dependencies, FiniteSetTheorems, SequenceTheorems, WellFoundedInduction, TLAPS

--------------------------------------------------------------------------------
(* The project graph. *)

WsIsClosed(S) ==
    WsCandidates(wsLayout) \subseteq S /\ \A e \in S : WsFollowed(wsLayout, e) \subseteq S

WsIsTyped ==
    /\ WsTypeOK
    /\ wsAt # "idle" => wsLayout \in WsLayouts
    /\ wsAt \in {"idle", "config"} => wsRoots = {} /\ wsPending = {}

(* Discovery has found part of what it must, and all that leads to when nothing
   is left to follow. *)
WsRootsAreFound ==
    /\ \A d \in wsRoots : WsInWorkspace(d) /\ WsHas(wsLayout, d)
    /\ \A e \in wsRoots \ wsPending : WsFollowed(wsLayout, e) \subseteq wsRoots
    /\ wsAt # "idle" => \A S \in SUBSET WsDirs : WsIsClosed(S) => wsRoots \subseteq S
    /\ wsAt \in {"discover", "edges", "cycles", "cycle", "order", "ready"} =>
          WsCandidates(wsLayout) \subseteq wsRoots
    /\ wsAt \in {"edges", "cycles", "cycle", "order", "ready"} =>
          wsPending = {} /\ \A d, e \in wsRoots : wsLayout.name[d] = wsLayout.name[e] => d = e

(* The edges are the dependencies, and none of them failed to resolve. *)
WsEdgesAreResolved ==
    wsAt \in {"cycles", "cycle", "order", "ready"} =>
        /\ wsUp = WsEdges("dependencies") /\ wsDev = WsEdges("dev-dependencies")
        /\ \A x \in WsDependencies : WsResolve(x[2]) \in {"managed", "unmanaged"}

(* The stack is a path; *)
WsStackIsAPath ==
    /\ wsAt \notin {"cycles", "cycle"} => wsStack = <<>>
    /\ \A i \in 1..Len(wsStack) : wsStack[i] \in WsProjects \ wsVisited
    /\ \A i, j \in 1..Len(wsStack) : wsStack[i] = wsStack[j] => i = j
    /\ \A i \in 1..Len(wsStack) : i < Len(wsStack) => wsStack[i + 1] \in WsMerged(wsStack[i])

(* what has been visited is closed and has no cycle in it. *)
WsVisitedHasNoCycle ==
    /\ wsAt \notin {"cycles", "cycle", "order", "ready"} => wsVisited = {}
    /\ \A n \in wsVisited : WsMerged(n) \subseteq wsVisited
    /\ \A S \in SUBSET wsVisited : S # {} => \E n \in S : WsMerged(n) \cap S = {}
    /\ wsAt \in {"order", "ready"} => WsProjects \subseteq wsVisited

(* Whoever is placed comes after its dependencies. *)
WsPlacedAfterDependencies ==
    /\ wsAt \notin {"order", "ready"} => wsOrder = <<>>
    /\ \A j \in 1..Len(wsOrder) :
          /\ wsOrder[j] \in WsProjects
          /\ \A n \in WsMerged(wsOrder[j]) : \E i \in 1..Len(wsOrder) : i < j /\ wsOrder[i] = n
    /\ \A i, j \in 1..Len(wsOrder) : wsOrder[i] = wsOrder[j] => i = j
    /\ wsAt = "ready" => WsPlaced = WsProjects

WsIInv ==
    /\ WsIsTyped
    /\ WsRootsAreFound
    /\ WsEdgesAreResolved
    /\ WsStackIsAPath
    /\ WsVisitedHasNoCycle
    /\ WsPlacedAfterDependencies
    /\ (wsAt = "cycle" => WsHasCycle) /\ wsAt # "unsorted"
    /\ WsRemoteIsUsable

(* A project comes first. *)
LEMMA WsFirstIsOne ==
    ASSUME NEW S \in SUBSET WsNames, S # {}
    PROVE  WsFirst(S) \in S
<1>. DEFINE R == {WsRank[n] : n \in S}
<1>1. R \subseteq Nat /\ R # {}
  BY WsAssumption
<1>2. PICK x \in R : \A y \in R : ~(<<y, x>> \in OpToRel(<, Nat))
  <2>. HIDE DEF R
  <2>. QED
    BY <1>1, NatLessThanWellFounded, WFMin
<1>3. \A y \in R : ~(y < x)
  <2>. HIDE DEF R
  <2>. QED
    BY <1>1, <1>2 DEF OpToRel
<1>4. PICK n \in S : x = WsRank[n]
  OBVIOUS
<1>5. \A m \in S : WsRank[n] <= WsRank[m]
  BY <1>1, <1>3, <1>4
<1>. QED
  BY <1>5 DEF WsFirst

(* What resolve_dependency tells of a dependency. *)
LEMMA WsResolveTells ==
    ASSUME NEW dep
    PROVE  /\ WsResolve(dep) = "managed" =>
                 /\ WsInWorkspace(dep.dir) /\ WsHas(wsLayout, dep.dir) /\ dep.dir \in wsRoots
                 /\ wsLayout.name[dep.dir] = dep.name
           /\ WsResolve(dep) = "unmanaged" =>
                 /\ WsInWorkspace(dep.dir) /\ WsHas(wsLayout, dep.dir) /\ dep.dir \notin wsRoots
           /\ WsResolve(dep) \in
                 {"outside", "no manifest", "wrong name", "unmanaged", "managed"}
<1>1. CASE ~WsInWorkspace(dep.dir)
  BY <1>1 DEF WsResolve
<1>2. CASE WsInWorkspace(dep.dir) /\ ~WsHas(wsLayout, dep.dir)
  BY <1>2 DEF WsResolve
<1>3. CASE WsInWorkspace(dep.dir) /\ WsHas(wsLayout, dep.dir) /\ dep.dir \notin wsRoots
  BY <1>3 DEF WsResolve
<1>4. CASE /\ WsInWorkspace(dep.dir) /\ WsHas(wsLayout, dep.dir)
           /\ dep.dir \in wsRoots /\ wsLayout.name[dep.dir] # dep.name
  BY <1>4 DEF WsResolve
<1>5. CASE /\ WsInWorkspace(dep.dir) /\ WsHas(wsLayout, dep.dir)
           /\ dep.dir \in wsRoots /\ wsLayout.name[dep.dir] = dep.name
  BY <1>5 DEF WsResolve
<1>. QED
  BY <1>1, <1>2, <1>3, <1>4, <1>5

(* The root of a project is one of the roots and has its name, *)
LEMMA WsRootOfIs ==
    ASSUME NEW n \in WsProjects
    PROVE  WsRootOf(n) \in wsRoots /\ wsLayout.name[WsRootOf(n)] = n
  BY DEF WsProjects, WsRootOf

(* the only one when the names differ. *)
LEMMA WsRootOfNameIs ==
    ASSUME \A d, e \in wsRoots : wsLayout.name[d] = wsLayout.name[e] => d = e,
           NEW d \in wsRoots
    PROVE  wsLayout.name[d] \in WsProjects /\ WsRootOf(wsLayout.name[d]) = d
  BY WsRootOfIs DEF WsProjects

(* The edges go from a project to the projects its manifest names. *)
LEMMA WsEdgesAreTyped ==
    ASSUME wsRoots \subseteq WsDirs, wsLayout \in WsLayouts, NEW t,
           \A d \in wsRoots : WsHas(wsLayout, d)
    PROVE  /\ WsProjects \subseteq WsNames
           /\ WsEdges(t) \in [WsNames -> SUBSET WsNames]
           /\ \A n \in WsNames : WsEdges(t)[n] \subseteq WsProjects
           /\ \A n \in WsNames \ WsProjects : WsEdges(t)[n] = {}
<1>1. WsProjects \subseteq WsNames
  BY WsAssumption DEF WsProjects, WsIsLayout, WsHas
<1>2. \A n \in WsNames : n \notin WsProjects => WsEdges(t)[n] = {}
  BY DEF WsEdges
<1>3. ASSUME NEW n \in WsProjects
      PROVE  /\ WsEdges(t)[n] = {dep.name : dep \in {x \in wsLayout.dependencies[WsRootOf(n)] :
                                                       x.table = t /\ WsResolve(x) = "managed"}}
             /\ WsEdges(t)[n] \subseteq WsNames
             /\ WsEdges(t)[n] \subseteq WsProjects
  <2>1. WsEdges(t)[n] = {dep.name : dep \in {x \in wsLayout.dependencies[WsRootOf(n)] :
                                               x.table = t /\ WsResolve(x) = "managed"}}
    BY <1>1 DEF WsEdges
  <2>2. WsRootOf(n) \in WsDirs
    BY WsRootOfIs
  <2>3. \A x \in wsLayout.dependencies[WsRootOf(n)] : x.name \in WsNames
    BY <2>2, WsAssumption DEF WsIsLayout
  <2>4. \A x : WsResolve(x) = "managed" => x.name \in WsProjects
    BY WsResolveTells DEF WsProjects
  <2>. QED
    BY <2>1, <2>3, <2>4
<1>4. WsEdges(t) = [n \in WsNames |-> WsEdges(t)[n]]
  BY DEF WsEdges
<1>5. \A n \in WsNames : WsEdges(t)[n] \subseteq WsNames /\ WsEdges(t)[n] \subseteq WsProjects
  BY <1>2, <1>3
<1>. QED
  BY <1>1, <1>2, <1>4, <1>5

(* What is known of the graph once it is built. *)
LEMMA WsGraphIs ==
    ASSUME WsIInv, wsAt \in {"cycles", "cycle", "order", "ready"}
    PROVE  /\ WsProjects \subseteq WsNames
           /\ \A n \in WsNames : WsMerged(n) \subseteq WsProjects
<1>1. wsRoots \subseteq WsDirs /\ wsLayout \in WsLayouts /\ \A d \in wsRoots : WsHas(wsLayout, d)
  BY DEF WsIInv, WsIsTyped, WsTypeOK, WsRootsAreFound
<1>2. wsUp = WsEdges("dependencies") /\ wsDev = WsEdges("dev-dependencies")
  BY DEF WsIInv, WsEdgesAreResolved
<1>. QED
  BY <1>1, <1>2, WsEdgesAreTyped DEF WsMerged

LEMMA WsStartsRight == WsInit => WsIInv
<1>. SUFFICES ASSUME WsInit
              PROVE  WsIInv
  OBVIOUS
<1>1. WsIsTyped
  <2>1. WsEmpty \in [WsNames -> SUBSET WsNames]
    BY DEF WsEmpty
  <2>. QED
    BY <2>1 DEF WsInit, WsIsTyped, WsTypeOK
<1>2. WsRootsAreFound
  BY DEF WsInit, WsRootsAreFound
<1>3. WsEdgesAreResolved
  BY DEF WsInit, WsEdgesAreResolved
<1>4. WsStackIsAPath /\ WsVisitedHasNoCycle /\ WsPlacedAfterDependencies
  BY DEF WsInit, WsStackIsAPath, WsVisitedHasNoCycle, WsPlacedAfterDependencies
<1>. QED
  BY <1>1, <1>2, <1>3, <1>4 DEF WsIInv, WsInit, WsRemoteIsUsable

(* Until the search begins nothing is visited or placed. *)
LEMMA WsNotBegun ==
    ASSUME WsIInv, wsAt \notin {"cycles", "cycle", "order", "ready"},
           wsAt' \notin {"order", "ready"}, UNCHANGED <<wsVisited, wsStack, wsOrder>>
    PROVE  WsStackIsAPath' /\ WsVisitedHasNoCycle' /\ WsPlacedAfterDependencies'
<1>1. wsVisited' = {} /\ wsStack' = <<>> /\ wsOrder' = <<>>
  BY DEF WsIInv, WsStackIsAPath, WsVisitedHasNoCycle, WsPlacedAfterDependencies
<1>. QED
  BY <1>1 DEF WsStackIsAPath, WsVisitedHasNoCycle, WsPlacedAfterDependencies

LEMMA WsOpenKeeps == WsIInv /\ WsOpen => WsIInv'
<1>. SUFFICES ASSUME WsIInv, WsOpen
              PROVE  WsIInv'
  OBVIOUS
<1>1. wsAt = "idle" /\ wsAt' = "config" /\ wsLayout' \in WsLayouts /\ wsRoots = {} /\ wsPending = {}
  BY DEF WsOpen, WsIInv, WsIsTyped
<1>2. WsIsTyped'
  BY <1>1 DEF WsOpen, WsIInv, WsIsTyped, WsTypeOK
<1>3. WsRootsAreFound' /\ WsEdgesAreResolved'
  BY <1>1 DEF WsOpen, WsRootsAreFound, WsEdgesAreResolved
<1>4. WsStackIsAPath' /\ WsVisitedHasNoCycle' /\ WsPlacedAfterDependencies'
  BY <1>1, WsNotBegun DEF WsOpen
<1>. QED
  BY <1>1, <1>2, <1>3, <1>4 DEF WsIInv, WsOpen, WsRemoteIsUsable

LEMMA WsParseKeeps == WsIInv /\ WsParse => WsIInv'
<1>. SUFFICES ASSUME WsIInv, WsParse
              PROVE  WsIInv'
  OBVIOUS
<1>1. wsAt = "config" /\ wsLayout \in WsLayouts /\ wsLayout' = wsLayout
  BY DEF WsParse, WsIInv, WsIsTyped
<1>2. wsAt' \in {"bad remote", "bad config", "discover"}
  <2>1. CASE ~WsRemoteAccepted(WsRemoteOf(wsConfig))
    BY <2>1 DEF WsParse
  <2>2. CASE /\ WsRemoteAccepted(WsRemoteOf(wsConfig))
             /\ ~wsConfig.globs \/ ~WsVendorAccepted(wsConfig)
    BY <2>2 DEF WsParse
  <2>3. CASE /\ WsRemoteAccepted(WsRemoteOf(wsConfig))
             /\ ~(~wsConfig.globs \/ ~WsVendorAccepted(wsConfig))
    BY <2>3 DEF WsParse
  <2>. QED
    BY <2>1, <2>2, <2>3
<1>3. /\ wsRoots' = IF wsAt' = "discover" THEN WsCandidates(wsLayout) ELSE {}
      /\ wsPending' = wsRoots'
  BY DEF WsParse
<1>4. WsIsTyped'
  <2>1. wsRoots' \subseteq WsDirs
    BY <1>3 DEF WsCandidates
  <2>. QED
    BY <1>1, <1>2, <1>3, <2>1 DEF WsParse, WsIInv, WsIsTyped, WsTypeOK, WsErrors
<1>5. WsRootsAreFound'
  <2>1. \A d \in wsRoots' : WsInWorkspace(d) /\ WsHas(wsLayout, d)
    BY <1>3 DEF WsCandidates, WsInWorkspace
  <2>2. \A S : WsIsClosed(S)' => wsRoots' \subseteq S
    BY <1>1, <1>3 DEF WsIsClosed
  <2>. QED
    BY <1>1, <1>2, <1>3, <2>1, <2>2 DEF WsRootsAreFound
<1>6. WsEdgesAreResolved'
  BY <1>2 DEF WsEdgesAreResolved
<1>7. WsStackIsAPath' /\ WsVisitedHasNoCycle' /\ WsPlacedAfterDependencies'
  BY <1>1, <1>2, WsNotBegun DEF WsParse
<1>8. WsRemoteIsUsable'
  <2>1. CASE WsRemoteAccepted(WsRemoteOf(wsConfig))
    <3>1. wsRemote' = WsRemoteOf(wsConfig)
      BY <2>1 DEF WsParse
    <3>2. WsRemoteAccepted(wsRemote')
      BY <2>1, <3>1
    <3>. QED
      BY <3>2 DEF WsRemoteAccepted, WsRemoteIsUsable
  <2>2. CASE ~WsRemoteAccepted(WsRemoteOf(wsConfig))
    <3>1. wsRemote' = WsNoRemote
      BY <2>2 DEF WsParse
    <3>. QED
      BY <3>1 DEF WsRemoteIsUsable
  <2>. QED
    BY <2>1, <2>2
<1>. QED
  BY <1>2, <1>4, <1>5, <1>6, <1>7, <1>8 DEF WsIInv

LEMMA WsFollowKeeps == ASSUME WsIInv, NEW d \in WsDirs, WsFollow(d) PROVE WsIInv'
<1>. DEFINE found == WsFollowed(wsLayout, d) \ wsRoots
<1>1. /\ wsAt = "discover" /\ wsAt' = "discover" /\ d \in wsPending /\ d \in wsRoots
      /\ wsLayout' = wsLayout /\ wsLayout \in WsLayouts
      /\ wsRoots' = wsRoots \cup found /\ wsPending' = (wsPending \ {d}) \cup found
  BY DEF WsFollow, WsIInv, WsIsTyped, WsTypeOK
<1>2. \A e \in found : e \in WsDirs /\ WsInWorkspace(e) /\ WsHas(wsLayout, e)
  BY WsAssumption, <1>1 DEF WsFollowed, WsIsLayout
<1>3. WsFollowed(wsLayout, d) \subseteq wsRoots'
  BY <1>1
<1>. HIDE DEF found
<1>4. WsIsTyped'
  BY <1>1, <1>2 DEF WsFollow, WsIInv, WsIsTyped, WsTypeOK
<1>5. WsRootsAreFound'
  <2>1. WsRootsAreFound
    BY DEF WsIInv
  <2>2. \A e \in wsRoots' : WsInWorkspace(e) /\ WsHas(wsLayout, e)
    BY <1>1, <1>2, <2>1 DEF WsRootsAreFound
  <2>3. ASSUME NEW e \in wsRoots' \ wsPending'
        PROVE  WsFollowed(wsLayout, e) \subseteq wsRoots'
    <3>1. e = d \/ e \in wsRoots \ wsPending
      BY <1>1, <2>3
    <3>. QED
      BY <1>1, <1>3, <2>1, <3>1 DEF WsRootsAreFound
  <2>4. ASSUME NEW S \in SUBSET WsDirs, WsIsClosed(S)
        PROVE  wsRoots' \subseteq S
    <3>1. wsRoots \subseteq S
      BY <1>1, <2>1, <2>4 DEF WsRootsAreFound
    <3>2. WsFollowed(wsLayout, d) \subseteq S
      BY <1>1, <2>4, <3>1 DEF WsIsClosed
    <3>. QED
      BY <1>1, <3>1, <3>2 DEF found
  <2>5. \A S : WsIsClosed(S)' <=> WsIsClosed(S)
    BY <1>1 DEF WsIsClosed
  <2>6. WsCandidates(wsLayout) \subseteq wsRoots'
    BY <1>1, <2>1 DEF WsRootsAreFound
  <2>. QED
    BY <1>1, <2>2, <2>3, <2>4, <2>5, <2>6 DEF WsRootsAreFound
<1>6. WsEdgesAreResolved'
  BY <1>1 DEF WsEdgesAreResolved
<1>7. WsStackIsAPath' /\ WsVisitedHasNoCycle' /\ WsPlacedAfterDependencies'
  BY <1>1, WsNotBegun DEF WsFollow
<1>. QED
  BY <1>1, <1>4, <1>5, <1>6, <1>7 DEF WsIInv, WsFollow, WsRemoteIsUsable

LEMMA WsLoadKeeps == WsIInv /\ WsLoad => WsIInv'
<1>. SUFFICES ASSUME WsIInv, WsLoad
              PROVE  WsIInv'
  OBVIOUS
<1>1. /\ wsAt = "discover" /\ wsAt' \in {"duplicate name", "edges"} /\ wsPending = {}
      /\ UNCHANGED <<wsLayout, wsRoots, wsPending>>
      /\ wsAt' = "edges" => \A d, e \in wsRoots : wsLayout.name[d] = wsLayout.name[e] => d = e
  BY DEF WsLoad
<1>2. WsIsTyped'
  BY <1>1 DEF WsLoad, WsIInv, WsIsTyped, WsTypeOK, WsErrors
<1>3. WsRootsAreFound'
  <2>1. \A S : WsIsClosed(S)' <=> WsIsClosed(S)
    BY <1>1 DEF WsIsClosed
  <2>. QED
    BY <1>1, <2>1 DEF WsIInv, WsRootsAreFound
<1>4. WsEdgesAreResolved'
  BY <1>1 DEF WsEdgesAreResolved
<1>5. WsStackIsAPath' /\ WsVisitedHasNoCycle' /\ WsPlacedAfterDependencies'
  BY <1>1, WsNotBegun DEF WsLoad
<1>. QED
  BY <1>1, <1>2, <1>3, <1>4, <1>5 DEF WsIInv, WsLoad, WsRemoteIsUsable

LEMMA WsConnectKeeps == WsIInv /\ WsConnect => WsIInv'
<1>. SUFFICES ASSUME WsIInv, WsConnect
              PROVE  WsIInv'
  OBVIOUS
<1>. DEFINE failures == {WsResolve(x[2]) : x \in WsDependencies} \ {"managed", "unmanaged"}
<1>1. /\ wsAt = "edges"
      /\ UNCHANGED <<wsRemote, wsLayout, wsRoots, wsPending, wsVisited, wsStack, wsOrder>>
      /\ failures = {} => /\ wsAt' = "cycles" /\ wsUp' = WsEdges("dependencies")
                          /\ wsDev' = WsEdges("dev-dependencies")
      /\ failures # {} => wsAt' \in failures /\ UNCHANGED <<wsUp, wsDev>>
  BY DEF WsConnect
<1>2. failures \subseteq {"outside", "no manifest", "wrong name"}
  BY WsResolveTells
<1>3. wsAt' \in {"outside", "no manifest", "wrong name", "cycles"}
  BY <1>1, <1>2
<1>4. wsLayout \in WsLayouts /\ wsRoots \subseteq WsDirs /\ \A d \in wsRoots : WsHas(wsLayout, d)
  BY <1>1 DEF WsIInv, WsIsTyped, WsTypeOK, WsRootsAreFound
<1>5. WsIsTyped'
  <2>1. wsUp' \in [WsNames -> SUBSET WsNames] /\ wsDev' \in [WsNames -> SUBSET WsNames]
    BY <1>1, <1>4, WsEdgesAreTyped DEF WsIInv, WsIsTyped, WsTypeOK
  <2>. HIDE DEF failures
  <2>. QED
    BY <1>1, <1>3, <2>1 DEF WsIInv, WsIsTyped, WsTypeOK, WsErrors
<1>6. WsRootsAreFound'
  <2>. HIDE DEF failures
  <2>1. \A S : WsIsClosed(S)' <=> WsIsClosed(S)
    BY <1>1 DEF WsIsClosed
  <2>. QED
    BY <1>1, <1>3, <2>1 DEF WsIInv, WsRootsAreFound
<1>7. WsEdgesAreResolved'
  <2>1. CASE failures = {}
    <3>1. \A x \in WsDependencies : WsResolve(x[2]) \in {"managed", "unmanaged"}
      BY <2>1
    <3>2. /\ WsDependencies' = WsDependencies
          /\ \A dep : WsResolve(dep)' = WsResolve(dep)
          /\ \A t : WsEdges(t)' = WsEdges(t)
      <4>. HIDE DEF failures
      <4>1. UNCHANGED <<wsLayout, wsRoots>>
        BY <1>1
      <4>2. \A dep : WsResolve(dep)' = WsResolve(dep)
        BY <4>1, Zenon DEF WsResolve
      <4>3. WsDependencies' = WsDependencies
        <5>1. WsEverything' = WsEverything
          BY <4>1 DEF WsEverything
        <5>. QED
          BY <4>1, <5>1 DEF WsDependencies
      <4>4. WsProjects' = WsProjects /\ \A n : WsRootOf(n)' = WsRootOf(n)
        BY <4>1, Zenon DEF WsProjects, WsRootOf
      <4>5. \A t : WsEdges(t)' = WsEdges(t)
        BY <4>1, <4>2, <4>4 DEF WsEdges
      <4>. QED
        BY <4>2, <4>3, <4>5
    <3>. QED
      BY <1>1, <2>1, <3>1, <3>2 DEF WsEdgesAreResolved
  <2>2. CASE failures # {}
    <3>1. wsAt' \in {"outside", "no manifest", "wrong name"}
      BY <1>1, <1>2, <2>2
    <3>. QED
      BY <3>1 DEF WsEdgesAreResolved
  <2>. QED
    BY <2>1, <2>2
<1>8. WsStackIsAPath' /\ WsVisitedHasNoCycle' /\ WsPlacedAfterDependencies'
  <2>. HIDE DEF failures
  <2>1. wsVisited' = {} /\ wsStack' = <<>> /\ wsOrder' = <<>>
    BY <1>1 DEF WsIInv, WsStackIsAPath, WsVisitedHasNoCycle, WsPlacedAfterDependencies
  <2>2. wsAt' \notin {"order", "ready"}
    BY <1>3
  <2>. QED
    BY <2>1, <2>2 DEF WsStackIsAPath, WsVisitedHasNoCycle, WsPlacedAfterDependencies
<1>. HIDE DEF failures
<1>. QED
  BY <1>1, <1>3, <1>5, <1>6, <1>7, <1>8 DEF WsIInv, WsRemoteIsUsable

(* Searching and sorting leave the graph alone. *)
LEMMA WsGraphStays ==
    ASSUME WsIInv, wsAt \in {"cycles", "order"}, wsAt' \in {"cycles", "cycle", "order", "ready"},
           UNCHANGED <<wsRemote, wsLayout, wsRoots, wsPending, wsUp, wsDev>>
    PROVE  /\ WsRootsAreFound' /\ WsEdgesAreResolved' /\ WsRemoteIsUsable'
           /\ WsProjects' = WsProjects /\ \A n : WsMerged(n)' = WsMerged(n)
<1>1. WsRootsAreFound'
  <2>1. \A S : WsIsClosed(S)' <=> WsIsClosed(S)
    BY DEF WsIsClosed
  <2>. QED
    BY <2>1 DEF WsIInv, WsRootsAreFound
<1>2. WsProjects' = WsProjects
  BY DEF WsProjects
<1>3. WsEdgesAreResolved'
  <2>1. \A dep : WsResolve(dep)' = WsResolve(dep)
    BY Zenon DEF WsResolve
  <2>2. \A n : WsRootOf(n)' = WsRootOf(n)
    BY Zenon DEF WsRootOf
  <2>3. WsDependencies' = WsDependencies
    <3>1. WsEverything' = WsEverything
      BY DEF WsEverything
    <3>. QED
      BY <3>1 DEF WsDependencies
  <2>4. \A t : WsEdges(t)' = WsEdges(t)
    BY <1>2, <2>1, <2>2 DEF WsEdges
  <2>. QED
    BY <2>1, <2>3, <2>4 DEF WsIInv, WsEdgesAreResolved
<1>4. \A n : WsMerged(n)' = WsMerged(n)
  BY DEF WsMerged
<1>. QED
  BY <1>1, <1>2, <1>3, <1>4 DEF WsIInv, WsRemoteIsUsable

(* A project that is met again on the path closes a cycle. *)
LEMMA WsPathCloses ==
    ASSUME WsIInv, wsAt = "cycles", wsStack # <<>>,
           NEW n \in WsMerged(wsStack[Len(wsStack)]), n \in WsOnStack
    PROVE  WsHasCycle
<1>1. wsStack \in Seq(WsNames) /\ Len(wsStack) \in Nat /\ Len(wsStack) > 0
  BY DEF WsIInv, WsIsTyped, WsTypeOK
<1>2. PICK k \in 1..Len(wsStack) : wsStack[k] = n
  BY DEF WsOnStack
<1>. DEFINE S == {wsStack[i] : i \in k..Len(wsStack)}
<1>3. \A i \in 1..Len(wsStack) : /\ wsStack[i] \in WsProjects
                                 /\ i < Len(wsStack) => wsStack[i + 1] \in WsMerged(wsStack[i])
  BY DEF WsIInv, WsStackIsAPath
<1>4. S \subseteq WsProjects /\ n \in S
  BY <1>1, <1>2, <1>3
<1>5. ASSUME NEW i \in k..Len(wsStack)
      PROVE  WsMerged(wsStack[i]) \cap S # {}
  <2>1. CASE i < Len(wsStack)
    <3>1. i + 1 \in k..Len(wsStack)
      BY <1>1, <1>2, <2>1
    <3>2. wsStack[i + 1] \in WsMerged(wsStack[i])
      BY <1>1, <1>2, <1>3, <2>1
    <3>. QED
      BY <3>1, <3>2
  <2>2. CASE i = Len(wsStack)
    BY <1>4, <2>2
  <2>. QED
    BY <1>1, <1>2, <2>1, <2>2
<1>6. \A m \in S : WsMerged(m) \cap S # {}
  BY <1>5
<1>. HIDE DEF S
<1>. QED
  BY <1>4, <1>6 DEF WsHasCycle

LEMMA WsVisitKeeps == WsIInv /\ WsVisit => WsIInv'
<1>. SUFFICES ASSUME WsIInv, WsVisit
              PROVE  WsIInv'
  OBVIOUS
<1>. DEFINE n == WsFirst(WsNextToVisit)
<1>1. /\ wsAt = "cycles" /\ WsNextToVisit # {}
      /\ UNCHANGED <<wsRemote, wsLayout, wsRoots, wsPending, wsUp, wsDev, wsVisited, wsOrder>>
      /\ n \in WsOnStack => wsAt' = "cycle" /\ wsStack' = wsStack
      /\ n \notin WsOnStack => wsStack' = Append(wsStack, n) /\ wsAt' = "cycles"
  BY DEF WsVisit
<1>2. /\ wsStack \in Seq(WsNames) /\ Len(wsStack) \in Nat
      /\ WsProjects \subseteq WsNames /\ \A m \in WsNames : WsMerged(m) \subseteq WsProjects
  BY <1>1, WsGraphIs DEF WsIInv, WsIsTyped, WsTypeOK
<1>3. \A i \in 1..Len(wsStack) : wsStack[i] \in WsProjects \ wsVisited
  BY DEF WsIInv, WsStackIsAPath
<1>4. /\ n \in WsProjects \ wsVisited
      /\ wsStack # <<>> => n \in WsMerged(wsStack[Len(wsStack)])
  <2>1. WsNextToVisit \subseteq WsProjects \ wsVisited
    BY <1>2, <1>3 DEF WsNextToVisit
  <2>2. n \in WsNextToVisit
    BY <1>1, <1>2, <2>1, WsFirstIsOne
  <2>. QED
    BY <2>1, <2>2 DEF WsNextToVisit
<1>. HIDE DEF n
<1>5. wsAt' \in {"cycles", "cycle"}
  BY <1>1
<1>6. /\ WsRootsAreFound' /\ WsEdgesAreResolved' /\ WsRemoteIsUsable'
      /\ WsProjects' = WsProjects /\ \A m : WsMerged(m)' = WsMerged(m)
  BY <1>1, <1>5, WsGraphStays
<1>7. wsStack' \in Seq(WsNames)
  BY <1>1, <1>2, <1>4
<1>8. WsIsTyped'
  BY <1>1, <1>5, <1>7 DEF WsIInv, WsIsTyped, WsTypeOK, WsErrors
<1>9. WsStackIsAPath'
  <2>1. CASE n \in WsOnStack
    BY <1>1, <1>6, <2>1 DEF WsIInv, WsStackIsAPath
  <2>2. CASE n \notin WsOnStack
    <3>1. /\ Len(wsStack') = Len(wsStack) + 1 /\ wsStack'[Len(wsStack) + 1] = n
          /\ \A i \in 1..Len(wsStack) : wsStack'[i] = wsStack[i] /\ wsStack[i] # n
      BY <1>1, <1>2, <1>4, <2>2 DEF WsOnStack
    <3>2. \A i \in 1..Len(wsStack') : i = Len(wsStack) + 1 \/ i \in 1..Len(wsStack)
      BY <1>2, <3>1
    <3>3. \A i \in 1..Len(wsStack') : wsStack'[i] \in WsProjects \ wsVisited
      BY <1>3, <1>4, <3>1, <3>2
    <3>4. \A i, j \in 1..Len(wsStack) : wsStack[i] = wsStack[j] => i = j
      BY DEF WsIInv, WsStackIsAPath
    <3>5. \A i, j \in 1..Len(wsStack') : wsStack'[i] = wsStack'[j] => i = j
      BY <3>1, <3>2, <3>4
    <3>6. ASSUME NEW i \in 1..Len(wsStack'), i < Len(wsStack')
          PROVE  wsStack'[i + 1] \in WsMerged(wsStack'[i])
      <4>1. i \in 1..Len(wsStack)
        BY <1>2, <3>1, <3>6
      <4>2. CASE i = Len(wsStack)
        BY <1>2, <1>4, <3>1, <4>1, <4>2
      <4>3. CASE i < Len(wsStack)
        <5>1. wsStack[i + 1] \in WsMerged(wsStack[i])
          BY <4>1, <4>3 DEF WsIInv, WsStackIsAPath
        <5>2. i + 1 \in 1..Len(wsStack)
          BY <1>2, <4>1, <4>3
        <5>. QED
          BY <3>1, <4>1, <5>1, <5>2
      <4>. QED
        BY <1>2, <4>1, <4>2, <4>3
    <3>. QED
      BY <1>1, <1>5, <1>6, <3>3, <3>5, <3>6 DEF WsStackIsAPath
  <2>. QED
    BY <2>1, <2>2
<1>10. WsVisitedHasNoCycle' /\ WsPlacedAfterDependencies'
  BY <1>1, <1>5, <1>6 DEF WsIInv, WsVisitedHasNoCycle, WsPlacedAfterDependencies
<1>11. wsAt' = "cycle" => WsHasCycle'
  <2>. SUFFICES ASSUME wsAt' = "cycle"
                PROVE  WsHasCycle'
    OBVIOUS
  <2>1. n \in WsOnStack
    BY <1>1
  <2>2. wsStack # <<>>
    BY <2>1, <1>2 DEF WsOnStack
  <2>3. WsHasCycle
    BY <1>1, <1>4, <2>1, <2>2, WsPathCloses
  <2>. QED
    BY <1>6, <2>3 DEF WsHasCycle
<1>. QED
  BY <1>5, <1>6, <1>8, <1>9, <1>10, <1>11 DEF WsIInv

LEMMA WsLeaveKeeps == WsIInv /\ WsLeave => WsIInv'
<1>. SUFFICES ASSUME WsIInv, WsLeave
              PROVE  WsIInv'
  OBVIOUS
<1>. DEFINE top == wsStack[Len(wsStack)]
<1>1. /\ wsAt = "cycles" /\ WsNextToVisit = {}
      /\ UNCHANGED <<wsRemote, wsLayout, wsRoots, wsPending, wsUp, wsDev, wsOrder>>
      /\ wsStack = <<>> => wsAt' = "order" /\ wsVisited' = wsVisited /\ wsStack' = wsStack
      /\ wsStack # <<>> => /\ wsVisited' = wsVisited \cup {top} /\ wsAt' = "cycles"
                           /\ wsStack' = SubSeq(wsStack, 1, Len(wsStack) - 1)
  BY DEF WsLeave
<1>2. /\ wsStack \in Seq(WsNames) /\ Len(wsStack) \in Nat /\ wsVisited \subseteq WsNames
      /\ WsProjects \subseteq WsNames
  BY <1>1, WsGraphIs DEF WsIInv, WsIsTyped, WsTypeOK
<1>3. wsAt' \in {"cycles", "order"}
  BY <1>1
<1>4. /\ WsRootsAreFound' /\ WsEdgesAreResolved' /\ WsRemoteIsUsable'
      /\ WsProjects' = WsProjects /\ \A m : WsMerged(m)' = WsMerged(m)
  BY <1>1, <1>3, WsGraphStays
<1>5. WsStackIsAPath /\ WsVisitedHasNoCycle /\ WsPlacedAfterDependencies /\ WsIsTyped
  BY DEF WsIInv
<1>6. CASE wsStack = <<>>
  <2>1. wsAt' = "order" /\ wsVisited' = wsVisited /\ wsStack' = <<>>
    BY <1>1, <1>6
  <2>2. WsProjects \subseteq wsVisited
    BY <1>1, <1>6 DEF WsNextToVisit
  <2>3. WsIsTyped'
    BY <1>1, <1>5, <2>1 DEF WsIsTyped, WsTypeOK
  <2>4. WsStackIsAPath'
    BY <2>1 DEF WsStackIsAPath
  <2>5. WsVisitedHasNoCycle'
    BY <1>4, <1>5, <2>1, <2>2 DEF WsVisitedHasNoCycle
  <2>6. WsPlacedAfterDependencies'
    BY <1>1, <1>4, <1>5, <2>1 DEF WsPlacedAfterDependencies
  <2>. QED
    BY <1>4, <2>1, <2>3, <2>4, <2>5, <2>6 DEF WsIInv
<1>7. CASE wsStack # <<>>
  <2>1. /\ wsVisited' = wsVisited \cup {top} /\ wsAt' = "cycles"
        /\ wsStack' = SubSeq(wsStack, 1, Len(wsStack) - 1)
    BY <1>1, <1>7
  <2>2. Len(wsStack) > 0 /\ Len(wsStack) \in 1..Len(wsStack)
    BY <1>2, <1>7
  <2>3. /\ wsStack' \in Seq(WsNames) /\ Len(wsStack') = Len(wsStack) - 1
        /\ \A i \in 1..Len(wsStack') : wsStack'[i] = wsStack[i] /\ i \in 1..Len(wsStack)
                                       /\ i < Len(wsStack)
    <3>1. /\ wsStack' \in Seq(WsNames) /\ Len(wsStack') = Len(wsStack) - 1
          /\ \A i \in 1..(Len(wsStack) - 1) : wsStack'[i] = wsStack[i]
      <4>1. PICK k \in Nat : Len(wsStack) = k + 1 /\ Len(wsStack) - 1 = k
        BY <1>2, <2>2
      <4>2. wsStack' = SubSeq(wsStack, 1, k) /\ \A i \in 1..k : wsStack[i] \in WsNames
        BY <1>2, <2>1, <4>1
      <4>3. /\ wsStack' \in Seq(WsNames)
            /\ Len(wsStack') = IF 1 <= k THEN k - 1 + 1 ELSE 0
            /\ \A i \in 1..(k - 1 + 1) : wsStack'[i] = wsStack[1 + i - 1]
        BY <4>2, SubSeqProperties
      <4>4. Len(wsStack') = k
        BY <4>3
      <4>5. \A i \in 1..k : i \in 1..(k - 1 + 1) /\ 1 + i - 1 = i
        OBVIOUS
      <4>. QED
        BY <4>1, <4>3, <4>4, <4>5
    <3>2. \A i \in 1..Len(wsStack') : i \in 1..Len(wsStack) /\ i < Len(wsStack)
      BY <1>2, <2>2, <3>1
    <3>. QED
      BY <3>1, <3>2
  <2>4. top \in WsProjects /\ top \notin wsVisited
    BY <1>5, <2>2 DEF WsStackIsAPath
  <2>5. WsMerged(top) \subseteq wsVisited
    BY <1>1, <1>7 DEF WsNextToVisit
  <2>6. WsIsTyped'
    BY <1>1, <1>2, <1>5, <2>1, <2>3, <2>4 DEF WsIsTyped, WsTypeOK
  <2>7. WsStackIsAPath'
    <3>1. \A i \in 1..Len(wsStack') : wsStack'[i] \in WsProjects \ wsVisited /\ wsStack'[i] # top
      BY <1>5, <2>2, <2>3 DEF WsStackIsAPath
    <3>2. \A i, j \in 1..Len(wsStack') : wsStack'[i] = wsStack'[j] => i = j
      BY <1>5, <2>3 DEF WsStackIsAPath
    <3>3. ASSUME NEW i \in 1..Len(wsStack'), i < Len(wsStack')
          PROVE  wsStack'[i + 1] \in WsMerged(wsStack'[i])
      <4>1. i + 1 \in 1..Len(wsStack')
        BY <1>2, <2>2, <2>3, <3>3
      <4>2. wsStack[i + 1] \in WsMerged(wsStack[i])
        BY <1>5, <2>3 DEF WsStackIsAPath
      <4>. QED
        BY <2>3, <4>1, <4>2
    <3>. QED
      BY <1>4, <2>1, <3>1, <3>2, <3>3 DEF WsStackIsAPath
  <2>8. WsVisitedHasNoCycle'
    <3>1. \A m \in wsVisited' : WsMerged(m) \subseteq wsVisited'
      BY <1>5, <2>1, <2>5 DEF WsVisitedHasNoCycle
    <3>2. ASSUME NEW S \in SUBSET wsVisited', S # {}
          PROVE  \E m \in S : WsMerged(m) \cap S = {}
      <4>1. CASE S \cap wsVisited = {}
        <5>1. S = {top}
          BY <2>1, <3>2, <4>1
        <5>. QED
          BY <2>4, <2>5, <5>1
      <4>2. CASE S \cap wsVisited # {}
        <5>1. PICK m \in S \cap wsVisited : WsMerged(m) \cap (S \cap wsVisited) = {}
          <6>1. S \cap wsVisited \in SUBSET wsVisited
            OBVIOUS
          <6>. QED
            BY <1>5, <4>2, <6>1 DEF WsVisitedHasNoCycle
        <5>2. WsMerged(m) \subseteq wsVisited
          BY <1>5, <5>1 DEF WsVisitedHasNoCycle
        <5>. QED
          BY <5>1, <5>2
      <4>. QED
        BY <4>1, <4>2
    <3>. QED
      BY <1>4, <2>1, <3>1, <3>2 DEF WsVisitedHasNoCycle
  <2>9. WsPlacedAfterDependencies'
    BY <1>1, <1>4, <1>5, <2>1 DEF WsPlacedAfterDependencies
  <2>. QED
    BY <1>4, <2>1, <2>6, <2>7, <2>8, <2>9 DEF WsIInv
<1>. QED
  BY <1>6, <1>7

LEMMA WsPlaceNextKeeps == WsIInv /\ WsPlaceNext => WsIInv'
<1>. SUFFICES ASSUME WsIInv, WsPlaceNext
              PROVE  WsIInv'
  OBVIOUS
<1>. DEFINE n == WsFirst(WsReady)
<1>1. /\ wsAt = "order"
      /\ UNCHANGED <<wsRemote, wsLayout, wsRoots, wsPending, wsUp, wsDev, wsVisited, wsStack>>
      /\ WsReady # {} => wsOrder' = Append(wsOrder, n) /\ wsAt' = "order"
      /\ WsReady = {} => /\ wsAt' = IF WsPlaced = WsProjects THEN "ready" ELSE "unsorted"
                         /\ wsOrder' = wsOrder
  BY DEF WsPlaceNext
<1>2. /\ wsOrder \in Seq(WsNames) /\ Len(wsOrder) \in Nat
      /\ WsProjects \subseteq WsNames /\ \A m \in WsNames : WsMerged(m) \subseteq WsProjects
  BY <1>1, WsGraphIs DEF WsIInv, WsIsTyped, WsTypeOK
<1>3. WsStackIsAPath /\ WsVisitedHasNoCycle /\ WsPlacedAfterDependencies /\ WsIsTyped
  BY DEF WsIInv
<1>4. WsPlaced \subseteq WsProjects
  BY <1>3 DEF WsPlaced, WsPlacedAfterDependencies
<1>5. WsReady = {} => WsPlaced = WsProjects
  <2>. SUFFICES ASSUME WsReady = {}, WsPlaced # WsProjects
                PROVE  FALSE
    OBVIOUS
  <2>. DEFINE S == WsProjects \ WsPlaced
  <2>1. S # {} /\ S \in SUBSET wsVisited
    BY <1>1, <1>3, <1>4 DEF WsVisitedHasNoCycle
  <2>2. PICK m \in S : WsMerged(m) \cap S = {}
    BY <1>3, <2>1 DEF WsVisitedHasNoCycle
  <2>3. WsMerged(m) \subseteq WsPlaced
    BY <1>2, <2>2
  <2>. QED
    BY <2>2, <2>3 DEF WsReady
<1>6. WsReady # {} => /\ n \in WsProjects \ WsPlaced /\ WsMerged(n) \subseteq WsPlaced
  <2>1. WsReady \subseteq WsNames
    BY <1>2 DEF WsReady
  <2>2. WsReady # {} => n \in WsReady
    BY <2>1, WsFirstIsOne
  <2>. QED
    BY <2>2 DEF WsReady
<1>. HIDE DEF n
<1>7. wsAt' \in {"order", "ready"}
  BY <1>1, <1>5
<1>8. /\ WsRootsAreFound' /\ WsEdgesAreResolved' /\ WsRemoteIsUsable'
      /\ WsProjects' = WsProjects /\ \A m : WsMerged(m)' = WsMerged(m)
  BY <1>1, <1>7, WsGraphStays
<1>9. wsOrder' \in Seq(WsNames)
  BY <1>1, <1>2, <1>6
<1>10. WsIsTyped'
  BY <1>1, <1>3, <1>7, <1>9 DEF WsIsTyped, WsTypeOK
<1>11. WsStackIsAPath'
  <2>1. wsStack' = <<>>
    BY <1>1, <1>3 DEF WsStackIsAPath
  <2>. QED
    BY <2>1 DEF WsStackIsAPath
<1>12. WsVisitedHasNoCycle'
  BY <1>1, <1>3, <1>7, <1>8 DEF WsVisitedHasNoCycle
<1>13. WsPlacedAfterDependencies'
  <2>1. CASE WsReady = {}
    <3>1. wsOrder' = wsOrder /\ WsPlaced' = WsProjects
      BY <1>1, <1>5, <2>1 DEF WsPlaced
    <3>. QED
      BY <1>3, <1>7, <1>8, <3>1 DEF WsPlacedAfterDependencies
  <2>2. CASE WsReady # {}
    <3>1. /\ wsAt' = "order" /\ Len(wsOrder') = Len(wsOrder) + 1
          /\ wsOrder'[Len(wsOrder) + 1] = n
          /\ \A i \in 1..Len(wsOrder) : wsOrder'[i] = wsOrder[i] /\ wsOrder[i] # n
      BY <1>1, <1>2, <1>6, <2>2 DEF WsPlaced
    <3>2. \A i \in 1..Len(wsOrder') : i = Len(wsOrder) + 1 \/ i \in 1..Len(wsOrder)
      BY <1>2, <3>1
    <3>3. \A i \in 1..Len(wsOrder) : i \in 1..Len(wsOrder') /\ i < Len(wsOrder) + 1
      BY <1>2, <3>1
    <3>4. \A i, j \in 1..Len(wsOrder') : wsOrder'[i] = wsOrder'[j] => i = j
      BY <1>3, <3>1, <3>2 DEF WsPlacedAfterDependencies
    <3>5. ASSUME NEW j \in 1..Len(wsOrder')
          PROVE  /\ wsOrder'[j] \in WsProjects
                 /\ \A m \in WsMerged(wsOrder'[j]) :
                       \E i \in 1..Len(wsOrder') : i < j /\ wsOrder'[i] = m
      <4>1. CASE j = Len(wsOrder) + 1
        <5>1. wsOrder'[j] = n /\ WsMerged(n) \subseteq WsPlaced
          BY <1>6, <2>2, <3>1, <4>1
        <5>2. \A m \in WsPlaced : \E i \in 1..Len(wsOrder) : wsOrder[i] = m
          BY DEF WsPlaced
        <5>. QED
          BY <1>6, <2>2, <3>1, <3>3, <4>1, <5>1, <5>2
      <4>2. CASE j \in 1..Len(wsOrder)
        <5>1. /\ wsOrder[j] \in WsProjects
              /\ \A m \in WsMerged(wsOrder[j]) :
                    \E i \in 1..Len(wsOrder) : i < j /\ wsOrder[i] = m
          BY <1>3, <4>2 DEF WsPlacedAfterDependencies
        <5>. QED
          BY <3>1, <3>3, <4>2, <5>1
      <4>. QED
        BY <3>2, <4>1, <4>2
    <3>. QED
      BY <1>8, <3>1, <3>4, <3>5 DEF WsPlacedAfterDependencies
  <2>. QED
    BY <2>1, <2>2
<1>. QED
  BY <1>7, <1>8, <1>10, <1>11, <1>12, <1>13 DEF WsIInv

(* The invariant holds for every workspace: any number of directories, with any
   dependencies between them. *)
LEMMA WsAlways == WsSpec => []WsIInv
<1>1. WsIInv /\ [WsNext]_wsVars => WsIInv'
  <2>. SUFFICES ASSUME WsIInv, [WsNext]_wsVars
                PROVE  WsIInv'
    OBVIOUS
  <2>1. CASE UNCHANGED wsVars
    <3>1. /\ WsProjects' = WsProjects /\ WsPlaced' = WsPlaced
          /\ \A n : WsMerged(n)' = WsMerged(n)
          /\ \A n : WsRootOf(n)' = WsRootOf(n)
          /\ \A S : WsIsClosed(S)' = WsIsClosed(S)
      BY <2>1 DEF wsVars, WsProjects, WsPlaced, WsMerged, WsRootOf, WsIsClosed
    <3>2. \A dep : WsResolve(dep)' = WsResolve(dep)
      <4>1. UNCHANGED <<wsLayout, wsRoots>>
        BY <2>1 DEF wsVars
      <4>. QED
        BY <4>1, Zenon DEF WsResolve
    <3>3. WsDependencies' = WsDependencies
      <4>1. WsEverything' = WsEverything
        BY <2>1 DEF wsVars, WsEverything
      <4>. QED
        BY <2>1, <4>1 DEF wsVars, WsDependencies
    <3>4. \A t : WsEdges(t)' = WsEdges(t)
      BY <2>1, <3>1, <3>2 DEF wsVars, WsEdges
    <3>5. WsIsTyped' /\ WsRemoteIsUsable'
      BY <2>1 DEF wsVars, WsIInv, WsIsTyped, WsTypeOK, WsRemoteIsUsable
    <3>6. WsRootsAreFound'
      BY <2>1, <3>1 DEF wsVars, WsIInv, WsRootsAreFound
    <3>7. WsEdgesAreResolved'
      BY <2>1, <3>2, <3>3, <3>4 DEF wsVars, WsIInv, WsEdgesAreResolved
    <3>8. WsStackIsAPath'
      BY <2>1, <3>1 DEF wsVars, WsIInv, WsStackIsAPath
    <3>9. WsVisitedHasNoCycle'
      BY <2>1, <3>1 DEF wsVars, WsIInv, WsVisitedHasNoCycle
    <3>10. WsPlacedAfterDependencies'
      <4>1. UNCHANGED <<wsAt, wsOrder>> /\ WsPlacedAfterDependencies
        BY <2>1 DEF wsVars, WsIInv
      <4>2. UNCHANGED <<wsUp, wsDev, wsLayout, wsRoots>>
        BY <2>1 DEF wsVars
      <4>3. ASSUME NEW j \in 1..Len(wsOrder')
            PROVE  /\ wsOrder'[j] \in WsProjects'
                   /\ \A n \in wsUp'[wsOrder'[j]] \cup wsDev'[wsOrder'[j]] :
                         \E i \in 1..Len(wsOrder') : i < j /\ wsOrder'[i] = n
        <5>1. j \in 1..Len(wsOrder)
          BY <4>1
        <5>2. /\ wsOrder[j] \in WsProjects
              /\ \A n \in wsUp[wsOrder[j]] \cup wsDev[wsOrder[j]] :
                    \E i \in 1..Len(wsOrder) : i < j /\ wsOrder[i] = n
          BY <4>1, <5>1 DEF WsPlacedAfterDependencies, WsMerged
        <5>. QED
          BY <3>1, <4>1, <4>2, <5>2
      <4>4. \A i, j \in 1..Len(wsOrder') : wsOrder'[i] = wsOrder'[j] => i = j
        BY <4>1 DEF WsPlacedAfterDependencies
      <4>5. wsAt' = "ready" => WsPlaced' = WsProjects'
        BY <3>1, <4>1 DEF WsPlacedAfterDependencies
      <4>6. wsAt' \notin {"order", "ready"} => wsOrder' = <<>>
        BY <4>1 DEF WsPlacedAfterDependencies
      <4>. QED
        BY <4>3, <4>4, <4>5, <4>6 DEF WsPlacedAfterDependencies, WsMerged
    <3>11. (wsAt = "cycle" => WsHasCycle)' /\ wsAt' # "unsorted"
      BY <2>1, <3>1 DEF wsVars, WsIInv, WsHasCycle
    <3>. QED
      BY <3>5, <3>6, <3>7, <3>8, <3>9, <3>10, <3>11 DEF WsIInv
  <2>2. CASE WsOpen
    BY <2>2, WsOpenKeeps
  <2>3. CASE WsParse
    BY <2>3, WsParseKeeps
  <2>4. CASE \E d \in WsDirs : WsFollow(d)
    BY <2>4, WsFollowKeeps
  <2>5. CASE WsLoad
    BY <2>5, WsLoadKeeps
  <2>6. CASE WsConnect
    BY <2>6, WsConnectKeeps
  <2>7. CASE WsVisit
    BY <2>7, WsVisitKeeps
  <2>8. CASE WsLeave
    BY <2>8, WsLeaveKeeps
  <2>9. CASE WsPlaceNext
    BY <2>9, WsPlaceNextKeeps
  <2>. QED
    BY <2>1, <2>2, <2>3, <2>4, <2>5, <2>6, <2>7, <2>8, <2>9 DEF WsNext
<1>. QED
  BY <1>1, WsStartsRight, PTL DEF WsSpec

(* Nothing is left to discover, and each dependency has its edge. *)
LEMMA WsIInvImpliesComplete ==
    ASSUME WsIInv, wsAt \in {"edges", "cycles", "cycle", "order", "ready"}
    PROVE  /\ wsRoots = WsReachable
           /\ \A x \in WsDependencies : WsResolve(x[2]) # "unmanaged"
<1>1. /\ wsLayout \in WsLayouts /\ wsRoots \subseteq WsDirs /\ wsPending = {}
      /\ WsCandidates(wsLayout) \subseteq wsRoots
      /\ \A e \in wsRoots : WsFollowed(wsLayout, e) \subseteq wsRoots
      /\ \A S \in SUBSET WsDirs : WsIsClosed(S) => wsRoots \subseteq S
  BY DEF WsIInv, WsIsTyped, WsTypeOK, WsRootsAreFound
<1>2. WsReachable = {d \in WsDirs : \A S \in SUBSET WsDirs : WsIsClosed(S) => d \in S}
  BY DEF WsReachable, WsIsClosed
<1>3. WsIsClosed(wsRoots)
  BY <1>1 DEF WsIsClosed
<1>4. wsRoots = WsReachable
  BY <1>1, <1>2, <1>3
<1>5. ASSUME NEW x \in WsDependencies
      PROVE  WsResolve(x[2]) # "unmanaged"
  <2>1. x[1] \in wsRoots /\ x[2] \in wsLayout.dependencies[x[1]]
    BY DEF WsDependencies, WsEverything
  <2>2. ASSUME WsInWorkspace(x[2].dir), WsHas(wsLayout, x[2].dir)
        PROVE  x[2].dir \in wsRoots
    BY <1>1, <2>1, <2>2 DEF WsFollowed
  <2>. QED
    BY <2>2, WsResolveTells
<1>. QED
  BY <1>4, <1>5

LEMMA WsIInvImpliesEdges ==
    ASSUME WsIInv, wsAt = "ready", NEW x \in WsDependencies
    PROVE  x[2].name \in WsMerged(wsLayout.name[x[1]]) \cap WsPlaced
<1>1. x[1] \in wsRoots /\ x[2] \in wsLayout.dependencies[x[1]]
  BY DEF WsDependencies, WsEverything
<1>2. /\ wsLayout \in WsLayouts /\ wsRoots \subseteq WsDirs /\ \A d \in wsRoots : WsHas(wsLayout, d)
      /\ \A d, e \in wsRoots : wsLayout.name[d] = wsLayout.name[e] => d = e
  BY DEF WsIInv, WsIsTyped, WsTypeOK, WsRootsAreFound
<1>. DEFINE n == wsLayout.name[x[1]]
<1>3. n \in WsProjects /\ WsRootOf(n) = x[1] /\ n \in WsNames
  BY <1>1, <1>2, WsRootOfNameIs, WsEdgesAreTyped
<1>4. WsResolve(x[2]) = "managed"
  <2>1. WsResolve(x[2]) \in {"managed", "unmanaged"}
    BY DEF WsIInv, WsEdgesAreResolved
  <2>. QED
    BY <2>1, WsIInvImpliesComplete
<1>5. x[2].table \in WsTables
  BY <1>1, <1>2, WsAssumption DEF WsIsLayout
<1>6. x[2].name \in WsEdges(x[2].table)[n]
  <2>. HIDE DEF n
  <2>. QED
    BY <1>1, <1>3, <1>4 DEF WsEdges
<1>7. x[2].name \in WsMerged(n)
  BY <1>5, <1>6 DEF WsIInv, WsEdgesAreResolved, WsMerged, WsTables
<1>8. x[2].name \in WsPlaced
  BY <1>3, <1>7, WsGraphIs DEF WsIInv, WsPlacedAfterDependencies
<1>. QED
  BY <1>7, <1>8

LEMMA WsIInvImpliesSafety == WsIInv => WsTypeOK /\ WsSafety
<1>. SUFFICES ASSUME WsIInv
              PROVE  WsTypeOK /\ WsSafety
  OBVIOUS
<1>1. WsDiscoveryIsComplete
  BY WsIInvImpliesComplete DEF WsDiscoveryIsComplete
<1>2. WsCyclesAreFound
  <2>1. ASSUME wsAt \in {"order", "ready"}
        PROVE  ~WsHasCycle
    <3>1. \A S \in SUBSET WsProjects : S # {} => \E n \in S : WsMerged(n) \cap S = {}
      BY <2>1 DEF WsIInv, WsVisitedHasNoCycle
    <3>. QED
      BY <3>1 DEF WsHasCycle
  <2>. QED
    BY <2>1 DEF WsIInv, WsCyclesAreFound
<1>3. WsOrderIsTopological
  <2>1. ASSUME NEW i \in 1..Len(wsOrder), NEW j \in 1..Len(wsOrder)
        PROVE  /\ wsOrder[i] \in WsMerged(wsOrder[j]) => i < j
               /\ wsOrder[i] = wsOrder[j] => i = j
    <3>1. wsOrder[i] = wsOrder[j] => i = j
      BY DEF WsIInv, WsPlacedAfterDependencies
    <3>2. ASSUME wsOrder[i] \in WsMerged(wsOrder[j])
          PROVE  i < j
      <4>1. PICK k \in 1..Len(wsOrder) : k < j /\ wsOrder[k] = wsOrder[i]
        BY <3>2 DEF WsIInv, WsPlacedAfterDependencies
      <4>2. k = i
        BY <4>1 DEF WsIInv, WsPlacedAfterDependencies
      <4>. QED
        BY <4>1, <4>2
    <3>. QED
      BY <3>1, <3>2
  <2>2. wsAt = "ready" =>
          /\ WsPlaced = WsProjects
          /\ \A x \in WsDependencies : x[2].name \in WsMerged(wsLayout.name[x[1]]) \cap WsPlaced
    BY WsIInvImpliesEdges DEF WsIInv, WsPlacedAfterDependencies
  <2>. QED
    BY <2>1, <2>2 DEF WsOrderIsTopological
<1>. QED
  BY <1>1, <1>2, <1>3 DEF WsIInv, WsIsTyped, WsSafety

--------------------------------------------------------------------------------
(* Keys and the affected selection. *)

(* A set of numbers with zero and each number's successor has all numbers. *)
LEMMA AllNumbers ==
    ASSUME NEW S, 0 \in S, \A n \in Nat : n \in S => n + 1 \in S
    PROVE  \A n \in Nat : n \in S
<1>. DEFINE R == {n \in Nat : n \notin S}
<1>. SUFFICES ASSUME R # {}
              PROVE  FALSE
  OBVIOUS
<1>1. PICK x \in R : \A y \in R : ~(<<y, x>> \in OpToRel(<, Nat))
  <2>1. R \subseteq Nat
    OBVIOUS
  <2>. HIDE DEF R
  <2>. QED
    BY <2>1, NatLessThanWellFounded, WFMin
<1>2. \A y \in R : ~(y < x)
  <2>1. R \subseteq Nat
    OBVIOUS
  <2>. HIDE DEF R
  <2>. QED
    BY <1>1, <2>1 DEF OpToRel
<1>3. x \in Nat /\ x # 0
  OBVIOUS
<1>4. x - 1 \in Nat /\ x - 1 \notin R
  BY <1>2, <1>3
<1>. QED
  BY <1>3, <1>4

(* Of any subsets of the projects, one leaves the fewest out. *)
LEMMA FewestLeftOut ==
    ASSUME NEW F, F \subseteq SUBSET KeyProjects, F # {}
    PROVE  \E A \in F : \A B \in F : Cardinality(KeyProjects \ A) <= Cardinality(KeyProjects \ B)
<1>. DEFINE Left(A) == Cardinality(KeyProjects \ A)
            R == {Left(A) : A \in F}
<1>1. \A A : Left(A) \in Nat
  BY KeyAssumption, FS_Subset, FS_CardinalityType
<1>2. R \subseteq Nat /\ R # {}
  BY <1>1
<1>3. PICK x \in R : \A y \in R : ~(<<y, x>> \in OpToRel(<, Nat))
  <2>. HIDE DEF R
  <2>. QED
    BY <1>2, NatLessThanWellFounded, WFMin
<1>4. \A y \in R : ~(y < x)
  <2>. HIDE DEF R
  <2>. QED
    BY <1>2, <1>3 DEF OpToRel
<1>5. PICK A \in F : x = Left(A)
  OBVIOUS
<1>. HIDE DEF Left
<1>6. \A B \in F : ~(Left(B) < Left(A))
  BY <1>4, <1>5
<1>7. \A B \in F : Left(A) <= Left(B)
  BY <1>1, <1>6
<1>. QED
  BY <1>7 DEF Left

(* The dependencies of a key are dependencies in the graph. *)
LEMMA KeyDependenciesAre ==
    ASSUME NEW c, NEW p \in KeyProjects, NEW t
    PROVE  /\ KeyDependencies(c, p, t) \subseteq KeyUpstream[p] \cup KeyDevUpstream[p]
           /\ KeyDependencies(c, p, t) \subseteq KeyProjects
<1>1. KeyUpstream[p] \subseteq KeyProjects /\ KeyDevUpstream[p] \subseteq KeyProjects
  BY KeyAssumption
<1>. QED
  BY <1>1 DEF KeyDependencies

(* compute_task_hash ends: there are keys that are made as it makes them, because no
   project depends on itself. *)
KeyMakes(c, content, g, p) ==
    [t \in KeyTargets |->
        KeyOf(c, content, p, t, {g[q]["build"] : q \in KeyDependencies(c, p, t)})]

LEMMA KeysExist ==
    ASSUME NEW c, NEW content
    PROVE  \E g : g = [p \in KeyProjects |-> KeyMakes(c, content, g, p)]
<1>. DEFINE Made(S, g) == g = [p \in S |-> KeyMakes(c, content, g, p)]
            F == {S \in SUBSET KeyProjects :
                    /\ \A p \in S : KeyUpstream[p] \cup KeyDevUpstream[p] \subseteq S
                    /\ \E g : Made(S, g)}
<1>1. {} \in F
  <2>1. Made({}, [p \in {} |-> 0])
    OBVIOUS
  <2>. QED
    BY <2>1
<1>2. PICK S \in F : \A B \in F : Cardinality(KeyProjects \ S) <= Cardinality(KeyProjects \ B)
  BY <1>1, FewestLeftOut
<1>3. PICK g : Made(S, g)
  OBVIOUS
<1>4. ASSUME S # KeyProjects
      PROVE  FALSE
  <2>1. KeyProjects \ S # {} /\ KeyProjects \ S \in SUBSET KeyProjects
    BY <1>4
  <2>2. PICK r \in KeyProjects \ S :
            (KeyUpstream[r] \cup KeyDevUpstream[r]) \cap (KeyProjects \ S) = {}
    BY <2>1, KeyAssumption
  <2>3. KeyUpstream[r] \cup KeyDevUpstream[r] \subseteq S
    BY <2>2, KeyAssumption
  <2>. DEFINE S2 == S \cup {r}
              h == [p \in S2 |-> IF p = r THEN KeyMakes(c, content, g, r) ELSE g[p]]
  <2>4. ASSUME NEW p \in S2
        PROVE  h[p] = KeyMakes(c, content, h, p)
    <3>1. KeyUpstream[p] \cup KeyDevUpstream[p] \subseteq S
      BY <2>3
    <3>2. \A t : KeyDependencies(c, p, t) \subseteq S
      BY <3>1, KeyDependenciesAre
    <3>3. \A q \in S : h[q] = g[q]
      BY <2>2
    <3>4. KeyMakes(c, content, h, p) = KeyMakes(c, content, g, p)
      <4>. HIDE DEF h, F, S2, Made
      <4>1. \A t : {h[q]["build"] : q \in KeyDependencies(c, p, t)}
                     = {g[q]["build"] : q \in KeyDependencies(c, p, t)}
        BY <3>2, <3>3
      <4>. QED
        BY <4>1 DEF KeyMakes
    <3>5. h[p] = KeyMakes(c, content, g, p)
      <4>1. CASE p = r
        BY <4>1
      <4>2. CASE p # r
        <5>1. p \in S /\ h[p] = g[p]
          BY <4>2
        <5>2. g = [x \in S |-> KeyMakes(c, content, g, x)]
          BY <1>3
        <5>. HIDE DEF h, F, S2, Made
        <5>. QED
          BY <5>1, <5>2
      <4>. QED
        BY <4>1, <4>2
    <3>. QED
      BY <3>4, <3>5
  <2>5. Made(S2, h)
    <3>1. h = [p \in S2 |-> h[p]]
      OBVIOUS
    <3>. HIDE DEF h
    <3>. QED
      BY <2>4, <3>1
  <2>6. S2 \in F
    <3>1. \A p \in S2 : KeyUpstream[p] \cup KeyDevUpstream[p] \subseteq S2
      BY <2>3
    <3>2. S2 \in SUBSET KeyProjects
      BY <2>2
    <3>. HIDE DEF h, S2, Made
    <3>. QED
      BY <2>5, <3>1, <3>2
  <2>7. Cardinality(KeyProjects \ S2) < Cardinality(KeyProjects \ S)
    <3>1. KeyProjects \ S2 = (KeyProjects \ S) \ {r}
      OBVIOUS
    <3>2. IsFiniteSet(KeyProjects \ S)
      BY KeyAssumption, FS_Subset
    <3>3. Cardinality(KeyProjects \ S2) = Cardinality(KeyProjects \ S) - 1
      BY <3>1, <3>2, <2>2, FS_RemoveElement
    <3>4. Cardinality(KeyProjects \ S) \in Nat
      BY <3>2, FS_CardinalityType
    <3>. QED
      BY <3>3, <3>4
  <2>8. Cardinality(KeyProjects \ S2) \in Nat /\ Cardinality(KeyProjects \ S) \in Nat
    BY KeyAssumption, FS_Subset, FS_CardinalityType
  <2>. HIDE DEF F, S2
  <2>. QED
    BY <1>2, <2>6, <2>7, <2>8
<1>. QED
  BY <1>3, <1>4

LEMMA KeyIsMade ==
    ASSUME NEW c, NEW content, NEW p \in KeyProjects, NEW t \in KeyTargets
    PROVE  KeyAll(c, content)[p][t] =
              KeyOf(c, content, p, t,
                    {KeyAll(c, content)[q]["build"] : q \in KeyDependencies(c, p, t)})
<1>. DEFINE E(g) == [x \in KeyProjects |-> KeyMakes(c, content, g, x)]
<1>1. KeyAll(c, content) = CHOOSE g : g = E(g)
  BY DEF KeyAll, KeyMakes
<1>2. PICK f : f = E(f)
  BY KeysExist
<1>3. KeyAll(c, content) = E(KeyAll(c, content))
  <2>. HIDE DEF E
  <2>. QED
    BY <1>1, <1>2
<1>4. KeyAll(c, content)[p] = KeyMakes(c, content, KeyAll(c, content), p)
  BY <1>3
<1>. QED
  BY <1>4 DEF KeyMakes

(* A file below two projects is below the inner one's root through the outer's. *)
LEMMA KeyInnerIsBelow ==
    ASSUME NEW f \in KeyFiles, NEW p \in KeyProjects, NEW q \in KeyProjects,
           KeyUnder(f, p), KeyUnder(f, q), ~(Len(KeyRoot[q]) <= Len(KeyRoot[p]))
    PROVE  q # p /\ SubSeq(KeyRoot[q], 1, Len(KeyRoot[p])) = KeyRoot[p]
<1>1. f.dir \in Seq(STRING) /\ KeyRoot[p] \in Seq(STRING) /\ KeyRoot[q] \in Seq(STRING)
  BY KeyAssumption
<1>. DEFINE m == Len(KeyRoot[p])
            n == Len(KeyRoot[q])
<1>2. m \in Nat /\ n \in Nat /\ Len(f.dir) \in Nat /\ m < n /\ n <= Len(f.dir)
  BY <1>1 DEF KeyUnder
<1>3. SubSeq(f.dir, 1, m) = KeyRoot[p] /\ SubSeq(f.dir, 1, n) = KeyRoot[q]
  BY DEF KeyUnder
<1>. HIDE DEF m, n
<1>4. SubSeq(SubSeq(f.dir, 1, n), 1, m) = SubSeq(f.dir, 1, m)
  <2>1. \A i \in 1..n : f.dir[i] \in STRING
    BY <1>1, <1>2
  <2>2. 1 + 1 - 1 = 1 /\ 1 + m - 1 = m
    BY <1>2
  <2>3. SubSeq(SubSeq(f.dir, 1, n), 1, m) = SubSeq(f.dir, 1 + 1 - 1, 1 + m - 1)
    BY <1>2, <2>1, SubSeqOfSubSeq
  <2>. QED
    BY <2>2, <2>3
<1>5. SubSeq(KeyRoot[q], 1, m) = KeyRoot[p]
  BY <1>3, <1>4
<1>. QED
  BY <1>5, <1>2 DEF m, n

(* What a project's own key reads did not change when no input of it did; nor did
   what its build key reads when no input of its tests did. *)
LEMMA KeyReadsTheSame ==
    ASSUME NEW t \in KeyTargets, NEW u \in {t, "build"}, u = t \/ t = "test",
           KeyUniform(keyConfig), ~KeyAllMatched(keyConfig, t),
           NEW p \in KeyProjects \ KeyMatched(keyConfig, t)
    PROVE  /\ KeyManifest(keyBase, p) = KeyManifest(keyNow, p)
           /\ KeyHashed(keyBase, KeyInputFiles(keyConfig, keyBase, p, u))
                = KeyHashed(keyNow, KeyInputFiles(keyConfig, keyNow, p, u))
           /\ KeyHashed(keyBase, KeyWorkspaceFiles(keyConfig, keyBase, u))
                = KeyHashed(keyNow, KeyWorkspaceFiles(keyConfig, keyNow, u))
<1>1. u \in KeyTargets
  BY DEF KeyTargets
<1>2. KeyGlobs(keyConfig, p, u) \subseteq KeyGlobs(keyConfig, p, t)
  BY DEF KeyUniform
<1>3. \A f \in KeyFiles : KeyOwner(f, p) /\ f.kind # "built" /\ f.kind \in KeyGlobs(keyConfig, p, t)
                            => keyBase[f] = keyNow[f]
  BY DEF KeyMatched, KeyChanged
<1>4. KeyManifest(keyBase, p) = KeyManifest(keyNow, p)
  <2>1. \A f \in KeyFiles : KeyOwner(f, p) /\ f.kind = "manifest" => keyBase[f] = keyNow[f]
    BY <1>3 DEF KeyUniform
  <2>. QED
    BY <2>1 DEF KeyManifest
<1>5. ASSUME NEW f \in KeyFiles, KeyUnder(f, p), KeyKindFor(f, p) # "built",
             KeyKindFor(f, p) \in KeyGlobs(keyConfig, p, u)
      PROVE  keyBase[f] = keyNow[f]
  <2>1. CASE KeyOwner(f, p)
    BY <1>2, <1>3, <1>5, <2>1 DEF KeyKindFor
  <2>2. CASE ~KeyOwner(f, p)
    <3>1. "inner" \in KeyGlobs(keyConfig, p, u)
      BY <1>5, <2>2 DEF KeyKindFor
    <3>2. PICK q \in KeyProjects : KeyUnder(f, q) /\ ~(Len(KeyRoot[q]) <= Len(KeyRoot[p]))
      BY <1>5, <2>2 DEF KeyOwner
    <3>3. q # p /\ SubSeq(KeyRoot[q], 1, Len(KeyRoot[p])) = KeyRoot[p]
      BY <1>5, <3>2, KeyInnerIsBelow
    <3>. QED
      BY <1>1, <3>1, <3>3 DEF KeyUniform
  <2>. QED
    BY <2>1, <2>2
<1>6. KeyHashed(keyBase, KeyInputFiles(keyConfig, keyBase, p, u))
        = KeyHashed(keyNow, KeyInputFiles(keyConfig, keyNow, p, u))
  <2>1. KeyInputFiles(keyConfig, keyBase, p, u) = KeyInputFiles(keyConfig, keyNow, p, u)
    BY <1>5 DEF KeyInputFiles
  <2>2. \A f \in KeyInputFiles(keyConfig, keyNow, p, u) : keyBase[f] = keyNow[f]
    BY <1>5 DEF KeyInputFiles
  <2>. QED
    BY <2>1, <2>2 DEF KeyHashed
<1>7. KeyHashed(keyBase, KeyWorkspaceFiles(keyConfig, keyBase, u))
        = KeyHashed(keyNow, KeyWorkspaceFiles(keyConfig, keyNow, u))
  <2>1. keyConfig.workspace[u] \subseteq keyConfig.workspace[t]
    BY DEF KeyUniform
  <2>2. \A f \in KeyFiles : f.dir = <<>> /\ f.kind # "built" /\ f.kind \in keyConfig.workspace[u]
                              => keyBase[f] = keyNow[f]
    BY <2>1 DEF KeyAllMatched, KeyChanged
  <2>3. KeyWorkspaceFiles(keyConfig, keyBase, u) = KeyWorkspaceFiles(keyConfig, keyNow, u)
    BY <2>2 DEF KeyWorkspaceFiles
  <2>4. \A f \in KeyWorkspaceFiles(keyConfig, keyNow, u) : keyBase[f] = keyNow[f]
    BY <2>2 DEF KeyWorkspaceFiles
  <2>. QED
    BY <2>3, <2>4 DEF KeyHashed
<1>. QED
  BY <1>4, <1>6, <1>7

(* The selection contains whatever is matched, and with a project what lies downstream. *)
LEMMA KeyAffectedIsClosed ==
    ASSUME NEW t, ~KeyAllMatched(keyConfig, t)
    PROVE  /\ KeyMatched(keyConfig, t) \subseteq KeyAffected(keyConfig, t)
           /\ \A q \in KeyAffected(keyConfig, t) :
                 KeyDownstream(keyConfig, q, t) \subseteq KeyAffected(keyConfig, t)
<1>. DEFINE IsClosed(S) == /\ KeyMatched(keyConfig, t) \subseteq S
                           /\ \A q \in S : KeyDownstream(keyConfig, q, t) \subseteq S
<1>1. KeyAffected(keyConfig, t) = {p \in KeyProjects : \A S \in SUBSET KeyProjects :
                                      IsClosed(S) => p \in S}
  BY DEF KeyAffected, KeyWithDownstream
<1>2. KeyMatched(keyConfig, t) \subseteq KeyProjects
  BY DEF KeyMatched
<1>3. \A q : KeyDownstream(keyConfig, q, t) \subseteq KeyProjects
  BY DEF KeyDownstream
<1>. QED
  BY <1>1, <1>2, <1>3

(* A key reads only projects that lie upstream for the selection. *)
LEMMA KeyReadsUpstream ==
    ASSUME NEW t \in {"build", "test"}, NEW u \in {t, "build"}, NEW p \in KeyProjects,
           NEW q \in KeyDependencies(keyConfig, p, u)
    PROVE  q \in KeyProjects /\ p \in KeyDownstream(keyConfig, q, t)
<1>1. q \in KeyProjects
  BY KeyDependenciesAre
<1>2. CASE t = "test"
  <2>1. KeyDownstream(keyConfig, q, "test")
          = {r \in KeyProjects : q \in KeyUpstream[r] \cup KeyDevUpstream[r]}
    BY DEF KeyDownstream
  <2>. QED
    BY <1>1, <1>2, <2>1, KeyDependenciesAre
<1>3. CASE t = "build"
  <2>1. KeyDownstream(keyConfig, q, "build")
          = {r \in KeyProjects : q \in KeyUpstream[r] \/ (r \in keyConfig.custom /\ q \in KeyDevUpstream[r])}
    BY DEF KeyDownstream
  <2>2. q \in KeyUpstream[p] \/ (p \in keyConfig.custom /\ q \in KeyDevUpstream[p])
    BY <1>3 DEF KeyDependencies
  <2>. QED
    BY <1>1, <1>3, <2>1, <2>2
<1>. QED
  BY <1>2, <1>3

(* Whoever is left out has its key of the base. *)
LEMMA KeyUnaffectedIsUnchanged ==
    ASSUME NEW t \in KeyTargets, KeyUniform(keyConfig),
           NEW p \in KeyProjects \ KeyAffected(keyConfig, t)
    PROVE  KeyAll(keyConfig, keyBase)[p][t] = KeyAll(keyConfig, keyNow)[p][t]
<1>1. ~KeyAllMatched(keyConfig, t)
  BY DEF KeyAffected
<1>. DEFINE Out == KeyProjects \ KeyAffected(keyConfig, t)
            W == {q \in Out : KeyAll(keyConfig, keyBase)[q]["build"]
                                # KeyAll(keyConfig, keyNow)[q]["build"]}
<1>2. ASSUME NEW q \in Out, NEW u \in {t, "build"}, u = t \/ t = "test",
             \A r \in KeyDependencies(keyConfig, q, u) :
                KeyAll(keyConfig, keyBase)[r]["build"] = KeyAll(keyConfig, keyNow)[r]["build"]
      PROVE  KeyAll(keyConfig, keyBase)[q][u] = KeyAll(keyConfig, keyNow)[q][u]
  <2>1. u \in KeyTargets
    BY DEF KeyTargets
  <2>2. {KeyAll(keyConfig, keyBase)[r]["build"] : r \in KeyDependencies(keyConfig, q, u)}
          = {KeyAll(keyConfig, keyNow)[r]["build"] : r \in KeyDependencies(keyConfig, q, u)}
    BY <1>2
  <2>3. q \in KeyProjects \ KeyMatched(keyConfig, t)
    BY <1>1, <1>2, KeyAffectedIsClosed
  <2>4. /\ KeyManifest(keyBase, q) = KeyManifest(keyNow, q)
        /\ KeyHashed(keyBase, KeyInputFiles(keyConfig, keyBase, q, u))
             = KeyHashed(keyNow, KeyInputFiles(keyConfig, keyNow, q, u))
        /\ KeyHashed(keyBase, KeyWorkspaceFiles(keyConfig, keyBase, u))
             = KeyHashed(keyNow, KeyWorkspaceFiles(keyConfig, keyNow, u))
    BY <1>1, <1>2, <2>3, KeyReadsTheSame
  <2>5. \A d : KeyOf(keyConfig, keyBase, q, u, d) = KeyOf(keyConfig, keyNow, q, u, d)
    BY <2>4 DEF KeyOf
  <2>6. /\ KeyAll(keyConfig, keyBase)[q][u] = KeyOf(keyConfig, keyBase, q, u,
              {KeyAll(keyConfig, keyBase)[r]["build"] : r \in KeyDependencies(keyConfig, q, u)})
        /\ KeyAll(keyConfig, keyNow)[q][u] = KeyOf(keyConfig, keyNow, q, u,
              {KeyAll(keyConfig, keyNow)[r]["build"] : r \in KeyDependencies(keyConfig, q, u)})
    BY <2>1, KeyIsMade
  <2>. QED
    BY <2>2, <2>5, <2>6
<1>3. CASE t = "format"
  <2>1. KeyDependencies(keyConfig, p, t) = {}
    BY <1>3 DEF KeyDependencies
  <2>. QED
    BY <1>2, <2>1
<1>4. CASE t \in {"build", "test"}
  <2>1. \A q \in Out, u \in {t, "build"} : KeyDependencies(keyConfig, q, u) \subseteq Out
    <3>. SUFFICES ASSUME NEW q \in Out, NEW u \in {t, "build"},
                         NEW r \in KeyDependencies(keyConfig, q, u)
                  PROVE  r \in Out
      OBVIOUS
    <3>1. r \in KeyProjects /\ q \in KeyDownstream(keyConfig, r, t)
      BY <1>4, KeyReadsUpstream
    <3>. QED
      BY <1>1, <3>1, KeyAffectedIsClosed
  <2>2. W = {}
    <3>. SUFFICES ASSUME W # {}
                  PROVE  FALSE
      OBVIOUS
    <3>1. PICK q \in W : (KeyUpstream[q] \cup KeyDevUpstream[q]) \cap W = {}
      <4>1. W \in SUBSET KeyProjects
        OBVIOUS
      <4>. HIDE DEF W
      <4>. QED
        BY <4>1, KeyAssumption
    <3>2. q \in Out /\ q \in KeyProjects
      OBVIOUS
    <3>3. \A r \in KeyDependencies(keyConfig, q, "build") : r \in Out /\ r \notin W
      BY <2>1, <3>1, <3>2, KeyDependenciesAre
    <3>4. \A r \in KeyDependencies(keyConfig, q, "build") :
             KeyAll(keyConfig, keyBase)[r]["build"] = KeyAll(keyConfig, keyNow)[r]["build"]
      BY <3>3
    <3>5. KeyAll(keyConfig, keyBase)[q]["build"] = KeyAll(keyConfig, keyNow)[q]["build"]
      BY <1>2, <1>4, <3>2, <3>4
    <3>. QED
      BY <3>5
  <2>3. \A r \in KeyDependencies(keyConfig, p, t) :
           KeyAll(keyConfig, keyBase)[r]["build"] = KeyAll(keyConfig, keyNow)[r]["build"]
    BY <2>1, <2>2
  <2>. QED
    BY <1>2, <2>3
<1>. QED
  BY <1>3, <1>4 DEF KeyTargets

(* The alphabetically first of some projects is one of them. *)
LEMMA KeyFirstIsOne ==
    ASSUME NEW S \in SUBSET KeyProjects, S # {}
    PROVE  KeyFirst(S) \in S
<1>. DEFINE R == {KeyRank[n] : n \in S}
<1>1. R \subseteq Nat /\ R # {}
  BY KeyAssumption
<1>2. PICK x \in R : \A y \in R : ~(<<y, x>> \in OpToRel(<, Nat))
  <2>. HIDE DEF R
  <2>. QED
    BY <1>1, NatLessThanWellFounded, WFMin
<1>3. \A y \in R : ~(y < x)
  <2>. HIDE DEF R
  <2>. QED
    BY <1>1, <1>2 DEF OpToRel
<1>4. PICK n \in S : x = KeyRank[n]
  OBVIOUS
<1>5. \A m \in S : KeyRank[n] <= KeyRank[m]
  BY <1>1, <1>3, <1>4
<1>. QED
  BY <1>5 DEF KeyFirst

(* topological_order finds a project as long as one is not placed. *)
LEMMA KeySomeoneIsReady ==
    ASSUME NEW t, NEW placed \in SUBSET KeyProjects, placed # KeyProjects
    PROVE  KeyFirst(KeyReady(t, placed)) \in KeyReady(t, placed)
<1>1. KeyProjects \ placed # {} /\ KeyProjects \ placed \in SUBSET KeyProjects
  OBVIOUS
<1>2. PICK p \in KeyProjects \ placed :
         (KeyUpstream[p] \cup KeyDevUpstream[p]) \cap (KeyProjects \ placed) = {}
  BY <1>1, KeyAssumption
<1>3. KeyOrderUpstream(p, t) \subseteq placed
  BY <1>2, KeyAssumption DEF KeyOrderUpstream
<1>4. p \in KeyReady(t, placed) /\ KeyReady(t, placed) \in SUBSET KeyProjects
  BY <1>3 DEF KeyReady
<1>. QED
  BY <1>4, KeyFirstIsOne

(* Projects in an order: each once, and after all its dependencies. *)
KeyOrdering(t, s) ==
    /\ s \in Seq(KeyProjects)
    /\ \A i, j \in 1..Len(s) : s[i] = s[j] => i = j
    /\ \A j \in 1..Len(s) : KeyOrderUpstream(s[j], t) \subseteq {s[i] : i \in 1..(j - 1)}

LEMMA KeyFewAreNotAll ==
    ASSUME NEW s \in Seq(KeyProjects), Len(s) < Cardinality(KeyProjects)
    PROVE  KeyIn(s) \in SUBSET KeyProjects /\ KeyIn(s) # KeyProjects
<1>1. Len(s) \in Nat /\ s \in [1..Len(s) -> KeyProjects]
  OBVIOUS
<1>2. KeyIn(s) \in SUBSET KeyProjects
  BY <1>1 DEF KeyIn
<1>3. ASSUME KeyIn(s) = KeyProjects
      PROVE  FALSE
  <2>1. s \in Surjection(1..Len(s), KeyProjects)
    BY <1>1, <1>3 DEF KeyIn, Surjection
  <2>2. IsFiniteSet(1..Len(s)) /\ Cardinality(1..Len(s)) = Len(s)
    BY <1>1, FS_Interval
  <2>3. Cardinality(KeyProjects) <= Len(s)
    BY <2>1, <2>2, FS_Surjection
  <2>4. Cardinality(KeyProjects) \in Nat
    BY KeyAssumption, FS_CardinalityType
  <2>. QED
    BY <1>1, <2>3, <2>4
<1>. QED
  BY <1>2, <1>3

LEMMA KeyOrderingGrows ==
    ASSUME NEW t, NEW s, KeyOrdering(t, s), Len(s) < Cardinality(KeyProjects)
    PROVE  LET next == Append(s, KeyFirst(KeyReady(t, KeyIn(s))))
           IN  KeyOrdering(t, next) /\ Len(next) = Len(s) + 1
<1>. DEFINE p == KeyFirst(KeyReady(t, KeyIn(s)))
            next == Append(s, p)
<1>1. s \in Seq(KeyProjects) /\ Len(s) \in Nat
  BY DEF KeyOrdering
<1>2. p \in KeyProjects /\ p \notin KeyIn(s) /\ KeyOrderUpstream(p, t) \subseteq KeyIn(s)
  BY <1>1, KeyFewAreNotAll, KeySomeoneIsReady DEF KeyReady
<1>. HIDE DEF p
<1>3. /\ next \in Seq(KeyProjects) /\ Len(next) = Len(s) + 1
      /\ next[Len(s) + 1] = p /\ \A i \in 1..Len(s) : next[i] = s[i]
  BY <1>1, <1>2
<1>. HIDE DEF next
<1>4. \A i \in 1..Len(next) : i \in 1..Len(s) \/ i = Len(s) + 1
  BY <1>1, <1>3
<1>5. \A i \in 1..Len(s) : s[i] # p
  BY <1>2 DEF KeyIn
<1>6. \A i, j \in 1..Len(next) : next[i] = next[j] => i = j
  <2>1. \A i, j \in 1..Len(s) : s[i] = s[j] => i = j
    BY DEF KeyOrdering
  <2>. QED
    BY <1>3, <1>4, <1>5, <2>1
<1>7. ASSUME NEW j \in 1..Len(next)
      PROVE  KeyOrderUpstream(next[j], t) \subseteq {next[i] : i \in 1..(j - 1)}
  <2>1. CASE j \in 1..Len(s)
    <3>1. KeyOrderUpstream(s[j], t) \subseteq {s[i] : i \in 1..(j - 1)}
      BY <2>1 DEF KeyOrdering
    <3>2. \A i \in 1..(j - 1) : i \in 1..Len(s)
      BY <1>1, <2>1
    <3>3. {s[i] : i \in 1..(j - 1)} = {next[i] : i \in 1..(j - 1)}
      BY <1>3, <3>2
    <3>. QED
      BY <1>3, <2>1, <3>1, <3>3
  <2>2. CASE j = Len(s) + 1
    <3>1. 1..(j - 1) = 1..Len(s)
      BY <1>1, <2>2
    <3>2. {next[i] : i \in 1..(j - 1)} = KeyIn(s)
      BY <1>3, <3>1 DEF KeyIn
    <3>. QED
      BY <1>2, <1>3, <2>2, <3>2
  <2>. QED
    BY <1>4, <2>1, <2>2
<1>8. KeyOrdering(t, next)
  BY <1>3, <1>6, <1>7 DEF KeyOrdering
<1>. QED
  BY <1>3, <1>8 DEF next, p

(* What topological_order has made once it has placed n projects. *)
KeyOrderMakes(t, g, n) ==
    IF n = 0 THEN <<>> ELSE Append(g[n - 1], KeyFirst(KeyReady(t, KeyIn(g[n - 1]))))

LEMMA KeyOrdersExist ==
    ASSUME NEW t
    PROVE  \A n \in Nat : \E g : g = [k \in 0..n |-> KeyOrderMakes(t, g, k)]
<1>. DEFINE Made(n, g) == g = [k \in 0..n |-> KeyOrderMakes(t, g, k)]
            S == {n \in Nat : \E g : Made(n, g)}
<1>1. 0 \in S
  <2>. DEFINE g == [k \in 0..0 |-> <<>>]
  <2>1. \A k \in 0..0 : KeyOrderMakes(t, g, k) = <<>>
    BY DEF KeyOrderMakes
  <2>2. Made(0, g)
    BY <2>1
  <2>. QED
    BY <2>2
<1>2. ASSUME NEW n \in Nat, n \in S
      PROVE  n + 1 \in S
  <2>1. PICK g : Made(n, g)
    BY <1>2
  <2>. DEFINE h == [k \in 0..(n + 1) |-> IF k = n + 1 THEN KeyOrderMakes(t, g, n + 1) ELSE g[k]]
  <2>2. ASSUME NEW k \in 0..(n + 1)
        PROVE  h[k] = KeyOrderMakes(t, h, k)
    <3>1. k # 0 => k - 1 \in 0..n /\ h[k - 1] = g[k - 1]
      OBVIOUS
    <3>2. KeyOrderMakes(t, h, k) = KeyOrderMakes(t, g, k)
      BY <3>1 DEF KeyOrderMakes
    <3>3. h[k] = KeyOrderMakes(t, g, k)
      <4>1. CASE k = n + 1
        BY <4>1
      <4>2. CASE k # n + 1
        <5>1. k \in 0..n /\ h[k] = g[k]
          BY <4>2
        <5>2. g = [x \in 0..n |-> KeyOrderMakes(t, g, x)]
          BY <2>1
        <5>. HIDE DEF h, S, Made
        <5>. QED
          BY <5>1, <5>2
      <4>. QED
        BY <4>1, <4>2
    <3>. QED
      BY <3>2, <3>3
  <2>3. Made(n + 1, h)
    <3>1. h = [k \in 0..(n + 1) |-> h[k]]
      OBVIOUS
    <3>. HIDE DEF h
    <3>. QED
      BY <2>2, <3>1
  <2>. HIDE DEF Made, h
  <2>. QED
    BY <2>3
<1>3. \A n \in Nat : n \in S
  <2>. HIDE DEF S
  <2>. QED
    BY <1>1, <1>2, AllNumbers
<1>. QED
  BY <1>3

(* The order has every project once, after its dependencies. *)
LEMMA KeyOrderIsOne ==
    ASSUME NEW t
    PROVE  KeyOrdering(t, KeyOrder(t)) /\ KeyIn(KeyOrder(t)) = KeyProjects
<1>. DEFINE N == Cardinality(KeyProjects)
            E(g) == [k \in 0..N |-> KeyOrderMakes(t, g, k)]
            order == CHOOSE g : g = E(g)
<1>1. N \in Nat
  BY KeyAssumption, FS_CardinalityType
<1>2. order = E(order)
  <2>1. \E g : g = E(g)
    BY <1>1, KeyOrdersExist
  <2>. HIDE DEF E
  <2>. QED
    BY <2>1
<1>3. KeyOrder(t) = order[N]
  BY DEF KeyOrder, KeyOrderMakes
<1>. HIDE DEF order
<1>4. \A k \in 0..N : order[k] = KeyOrderMakes(t, order, k)
  BY <1>2
<1>. DEFINE S == {n \in Nat : n <= N => KeyOrdering(t, order[n]) /\ Len(order[n]) = n}
<1>. HIDE DEF N
<1>5. 0 \in S
  <2>1. order[0] = <<>>
    BY <1>1, <1>4 DEF KeyOrderMakes
  <2>2. KeyOrdering(t, <<>>) /\ Len(<<>>) = 0
    BY DEF KeyOrdering
  <2>. QED
    BY <2>1, <2>2
<1>6. ASSUME NEW n \in Nat, n \in S
      PROVE  n + 1 \in S
  <2>. SUFFICES ASSUME n + 1 <= N
                PROVE  KeyOrdering(t, order[n + 1]) /\ Len(order[n + 1]) = n + 1
    OBVIOUS
  <2>1. KeyOrdering(t, order[n]) /\ Len(order[n]) = n /\ n < N
    BY <1>1, <1>6
  <2>2. order[n + 1] = Append(order[n], KeyFirst(KeyReady(t, KeyIn(order[n]))))
    <3>1. n + 1 \in 0..N /\ n + 1 # 0 /\ (n + 1) - 1 = n
      BY <1>1
    <3>. QED
      BY <1>4, <3>1 DEF KeyOrderMakes
  <2>. QED
    BY <2>1, <2>2, KeyOrderingGrows DEF N
<1>7. KeyOrdering(t, order[N]) /\ Len(order[N]) = N
  <2>1. \A n \in Nat : n \in S
    <3>. HIDE DEF S
    <3>. QED
      BY <1>5, <1>6, AllNumbers
  <2>. QED
    BY <1>1, <2>1
<1>8. KeyIn(order[N]) = KeyProjects
  <2>. DEFINE s == order[N]
  <2>1. /\ s \in Seq(KeyProjects) /\ Len(s) = N
        /\ \A i, j \in 1..Len(s) : s[i] = s[j] => i = j
    BY <1>7 DEF KeyOrdering
  <2>. HIDE DEF s
  <2>2. s \in [1..N -> KeyProjects]
    BY <1>1, <2>1
  <2>3. s \in Injection(1..N, KeyProjects)
    BY <2>1, <2>2 DEF Injection, IsInjective
  <2>4. Cardinality(1..N) = N
    BY <1>1, FS_Interval
  <2>5. s \in Surjection(1..N, KeyProjects)
    BY <2>3, <2>4, KeyAssumption, FS_Injection DEF N
  <2>6. KeyIn(s) = KeyProjects
    BY <2>1, <2>2, <2>5 DEF Surjection, KeyIn
  <2>. QED
    BY <2>6 DEF s
<1>. QED
  BY <1>3, <1>7, <1>8

(* The affected of the first n projects of an order, in that order. *)
KeySubsequence(order, n, affected, s) ==
    /\ s \in Seq(KeyProjects)
    /\ KeyIn(s) = {order[k] : k \in 1..n} \cap affected
    /\ \A i, j \in 1..Len(s), a, b \in 1..n :
          (s[i] = order[a] /\ s[j] = order[b] /\ a < b) => i < j

LEMMA KeySubsequenceGrows ==
    ASSUME NEW order \in Seq(KeyProjects), NEW affected, NEW s, NEW n \in Nat,
           n + 1 \in 1..Len(order), KeySubsequence(order, n, affected, s),
           \A i, j \in 1..Len(order) : order[i] = order[j] => i = j
    PROVE  KeySubsequence(order, n + 1, affected,
                IF order[n + 1] \in affected THEN Append(s, order[n + 1]) ELSE s)
<1>1. s \in Seq(KeyProjects) /\ Len(s) \in Nat /\ order[n + 1] \in KeyProjects
  BY DEF KeySubsequence
<1>2. \A a \in 1..(n + 1) : a \in 1..Len(order) /\ (a \in 1..n \/ a = n + 1)
  OBVIOUS
<1>3. {order[k] : k \in 1..(n + 1)} = {order[k] : k \in 1..n} \cup {order[n + 1]}
  OBVIOUS
<1>4. \A i \in 1..Len(s) : \E a \in 1..n : s[i] = order[a]
  <2>1. \A i \in 1..Len(s) : s[i] \in KeyIn(s)
    BY DEF KeyIn
  <2>2. KeyIn(s) \subseteq {order[k] : k \in 1..n}
    BY DEF KeySubsequence
  <2>. QED
    BY <2>1, <2>2
<1>5. \A i \in 1..Len(s) : s[i] # order[n + 1]
  <2>1. \A a \in 1..n : a \in 1..Len(order) /\ a # n + 1
    OBVIOUS
  <2>. QED
    BY <1>4, <2>1
<1>6. KeyIn(s) = {order[k] : k \in 1..n} \cap affected
  BY DEF KeySubsequence
<1>7. ASSUME NEW i \in 1..Len(s), NEW j \in 1..Len(s), NEW a \in 1..(n + 1), NEW b \in 1..(n + 1),
             s[i] = order[a], s[j] = order[b], a < b
      PROVE  i < j
  <2>1. a \in 1..n /\ b \in 1..n
    BY <1>2, <1>5, <1>7
  <2>. QED
    BY <1>7, <2>1 DEF KeySubsequence
<1>8. CASE order[n + 1] \notin affected
  <2>1. KeyIn(s) = {order[k] : k \in 1..(n + 1)} \cap affected
    BY <1>3, <1>6, <1>8
  <2>2. KeySubsequence(order, n + 1, affected, s)
    BY <1>1, <1>7, <2>1 DEF KeySubsequence
  <2>. QED
    BY <1>8, <2>2
<1>9. CASE order[n + 1] \in affected
  <2>. DEFINE next == Append(s, order[n + 1])
  <2>1. /\ next \in Seq(KeyProjects) /\ Len(next) = Len(s) + 1
        /\ next[Len(s) + 1] = order[n + 1] /\ \A i \in 1..Len(s) : next[i] = s[i]
    BY <1>1
  <2>. HIDE DEF next
  <2>2. \A i \in 1..Len(next) : i \in 1..Len(s) \/ i = Len(s) + 1
    BY <1>1, <2>1
  <2>3. KeyIn(next) = KeyIn(s) \cup {order[n + 1]}
    <3>1. 1..Len(next) = 1..Len(s) \cup {Len(s) + 1}
      BY <1>1, <2>1
    <3>. QED
      BY <2>1, <3>1 DEF KeyIn
  <2>4. KeyIn(next) = {order[k] : k \in 1..(n + 1)} \cap affected
    BY <1>3, <1>6, <1>9, <2>3
  <2>5. ASSUME NEW i \in 1..Len(next), NEW j \in 1..Len(next),
               NEW a \in 1..(n + 1), NEW b \in 1..(n + 1),
               next[i] = order[a], next[j] = order[b], a < b
        PROVE  i < j
    <3>1. a # n + 1 /\ a \in 1..Len(order)
      BY <2>5
    <3>2. order[a] # order[n + 1]
      BY <3>1
    <3>3. i \in 1..Len(s)
      BY <2>1, <2>2, <2>5, <3>2
    <3>4. CASE j = Len(s) + 1
      BY <1>1, <3>3, <3>4
    <3>5. CASE j \in 1..Len(s)
      <4>1. s[i] = order[a] /\ s[j] = order[b]
        BY <2>1, <2>5, <3>3, <3>5
      <4>. QED
        BY <1>7, <2>5, <3>3, <3>5, <4>1
    <3>. QED
      BY <2>2, <3>4, <3>5
  <2>6. KeySubsequence(order, n + 1, affected, next)
    BY <2>1, <2>4, <2>5 DEF KeySubsequence
  <2>. QED
    BY <1>9, <2>6 DEF next
<1>. QED
  BY <1>8, <1>9

(* What the filter of the order has made of its first n projects. *)
KeyChosenMakes(order, affected, g, n) ==
    IF n = 0 THEN <<>>
    ELSE IF order[n] \in affected THEN Append(g[n - 1], order[n]) ELSE g[n - 1]

LEMMA KeyChoicesExist ==
    ASSUME NEW order, NEW affected
    PROVE  \A n \in Nat : \E g : g = [k \in 0..n |-> KeyChosenMakes(order, affected, g, k)]
<1>. DEFINE Made(n, g) == g = [k \in 0..n |-> KeyChosenMakes(order, affected, g, k)]
            S == {n \in Nat : \E g : Made(n, g)}
<1>1. 0 \in S
  <2>. DEFINE g == [k \in 0..0 |-> <<>>]
  <2>1. \A k \in 0..0 : KeyChosenMakes(order, affected, g, k) = <<>>
    BY DEF KeyChosenMakes
  <2>2. Made(0, g)
    BY <2>1
  <2>. QED
    BY <2>2
<1>2. ASSUME NEW n \in Nat, n \in S
      PROVE  n + 1 \in S
  <2>1. PICK g : Made(n, g)
    BY <1>2
  <2>. DEFINE h == [k \in 0..(n + 1) |->
                      IF k = n + 1 THEN KeyChosenMakes(order, affected, g, n + 1) ELSE g[k]]
  <2>2. ASSUME NEW k \in 0..(n + 1)
        PROVE  h[k] = KeyChosenMakes(order, affected, h, k)
    <3>1. k # 0 => k - 1 \in 0..n /\ h[k - 1] = g[k - 1]
      OBVIOUS
    <3>2. KeyChosenMakes(order, affected, h, k) = KeyChosenMakes(order, affected, g, k)
      BY <3>1 DEF KeyChosenMakes
    <3>3. h[k] = KeyChosenMakes(order, affected, g, k)
      <4>1. CASE k = n + 1
        BY <4>1
      <4>2. CASE k # n + 1
        <5>1. k \in 0..n /\ h[k] = g[k]
          BY <4>2
        <5>2. g = [x \in 0..n |-> KeyChosenMakes(order, affected, g, x)]
          BY <2>1
        <5>. HIDE DEF h, S, Made
        <5>. QED
          BY <5>1, <5>2
      <4>. QED
        BY <4>1, <4>2
    <3>. QED
      BY <3>2, <3>3
  <2>3. Made(n + 1, h)
    <3>1. h = [k \in 0..(n + 1) |-> h[k]]
      OBVIOUS
    <3>. HIDE DEF h
    <3>. QED
      BY <2>2, <3>1
  <2>. HIDE DEF Made, h
  <2>. QED
    BY <2>3
<1>3. \A n \in Nat : n \in S
  <2>. HIDE DEF S
  <2>. QED
    BY <1>1, <1>2, AllNumbers
<1>. QED
  BY <1>3

(* The selection is the affected projects of the order, in that order. *)
LEMMA KeyChosenIsOne ==
    ASSUME NEW order \in Seq(KeyProjects), NEW affected,
           \A i, j \in 1..Len(order) : order[i] = order[j] => i = j
    PROVE  KeySubsequence(order, Len(order), affected, KeyChosen(order, affected))
<1>. DEFINE N == Len(order)
            E(g) == [k \in 0..N |-> KeyChosenMakes(order, affected, g, k)]
            chosen == CHOOSE g : g = E(g)
<1>1. N \in Nat
  OBVIOUS
<1>2. chosen = E(chosen)
  <2>1. \A n \in Nat : \E g : g = [k \in 0..n |-> KeyChosenMakes(order, affected, g, k)]
    BY KeyChoicesExist
  <2>2. \E g : g = E(g)
    BY <1>1, <2>1
  <2>. HIDE DEF E
  <2>. QED
    BY <2>2
<1>3. KeyChosen(order, affected) = chosen[N]
  BY DEF KeyChosen, KeyChosenMakes
<1>. HIDE DEF chosen
<1>4. \A k \in 0..N : chosen[k] = KeyChosenMakes(order, affected, chosen, k)
  BY <1>2
<1>. DEFINE S == {n \in Nat : n <= N => KeySubsequence(order, n, affected, chosen[n])}
<1>. HIDE DEF N
<1>5. 0 \in S
  <2>1. chosen[0] = <<>>
    BY <1>1, <1>4 DEF KeyChosenMakes
  <2>2. KeySubsequence(order, 0, affected, <<>>)
    <3>1. KeyIn(<<>>) = {} /\ {order[k] : k \in 1..0} = {}
      BY DEF KeyIn
    <3>. QED
      BY <3>1 DEF KeySubsequence
  <2>. QED
    BY <2>1, <2>2
<1>6. ASSUME NEW n \in Nat, n \in S
      PROVE  n + 1 \in S
  <2>. SUFFICES ASSUME n + 1 <= N
                PROVE  KeySubsequence(order, n + 1, affected, chosen[n + 1])
    OBVIOUS
  <2>1. KeySubsequence(order, n, affected, chosen[n]) /\ n + 1 \in 1..Len(order)
    BY <1>1, <1>6 DEF N
  <2>2. chosen[n + 1] = IF order[n + 1] \in affected THEN Append(chosen[n], order[n + 1])
                        ELSE chosen[n]
    <3>1. n + 1 \in 0..N /\ n + 1 # 0 /\ (n + 1) - 1 = n
      BY <1>1
    <3>. QED
      BY <1>4, <3>1 DEF KeyChosenMakes
  <2>. QED
    BY <2>1, <2>2, KeySubsequenceGrows
<1>7. \A n \in Nat : n \in S
  <2>. HIDE DEF S
  <2>. QED
    BY <1>5, <1>6, AllNumbers
<1>8. KeySubsequence(order, N, affected, chosen[N])
  BY <1>1, <1>7
<1>. QED
  BY <1>3, <1>8 DEF N

(* What `gomo affected` prints: the affected projects, each after those its key is
   made of. *)
LEMMA KeySelectionIs ==
    ASSUME NEW c, NEW t, NEW affected \in SUBSET KeyProjects
    PROVE  LET s == KeyChosen(KeyOrder(t), affected)
           IN  /\ s \in Seq(KeyProjects) /\ KeyIn(s) = affected
               /\ \A i, j \in 1..Len(s) : s[i] \in KeyDependencies(c, s[j], t) => i < j
<1>. DEFINE order == KeyOrder(t)
            s == KeyChosen(order, affected)
<1>1. KeyOrdering(t, order) /\ KeyIn(order) = KeyProjects
  BY KeyOrderIsOne
<1>. HIDE DEF order
<1>2. order \in Seq(KeyProjects) /\ Len(order) \in Nat
  BY <1>1 DEF KeyOrdering
<1>3. KeySubsequence(order, Len(order), affected, s)
  BY <1>1, <1>2, KeyChosenIsOne DEF KeyOrdering
<1>. HIDE DEF s
<1>4. s \in Seq(KeyProjects) /\ KeyIn(s) = affected
  <2>1. {order[k] : k \in 1..Len(order)} = KeyProjects
    BY <1>1 DEF KeyIn
  <2>. QED
    BY <1>3, <2>1 DEF KeySubsequence
<1>5. ASSUME NEW i \in 1..Len(s), NEW j \in 1..Len(s), s[i] \in KeyDependencies(c, s[j], t)
      PROVE  i < j
  <2>1. s[j] \in KeyProjects
    BY <1>4
  <2>2. PICK b \in 1..Len(order) : s[j] = order[b]
    BY <1>1, <2>1 DEF KeyIn
  <2>3. KeyDependencies(c, s[j], t) \subseteq KeyOrderUpstream(s[j], t)
    BY DEF KeyDependencies, KeyOrderUpstream
  <2>4. s[i] \in {order[a] : a \in 1..(b - 1)}
    BY <1>1, <1>5, <2>2, <2>3 DEF KeyOrdering
  <2>5. PICK a \in 1..(b - 1) : s[i] = order[a]
    BY <2>4
  <2>6. a \in 1..Len(order) /\ a < b
    BY <1>2
  <2>. QED
    BY <1>3, <2>2, <2>5, <2>6 DEF KeySubsequence
<1>. QED
  BY <1>4, <1>5 DEF s, order

(* What is selected is what the affected projects of the order are. *)
KeySelectedIsAffected ==
    /\ keyAt = "selected" =>
         /\ keyTarget \in KeyTargets
         /\ keySelected = KeyChosen(KeyOrder(keyTarget), KeyAffected(keyConfig, keyTarget))
    /\ keyAt # "selected" => keySelected = <<>>

KeyIInv == KeyTypeOK /\ KeySelectedIsAffected

LEMMA KeyAffectedAreProjects ==
    ASSUME NEW t
    PROVE  KeyAffected(keyConfig, t) \in SUBSET KeyProjects
BY DEF KeyAffected, KeyWithDownstream

LEMMA KeyInitHolds == KeyInit => KeyIInv
<1>. SUFFICES ASSUME KeyInit
              PROVE  KeyIInv
  OBVIOUS
<1>1. KeyTypeOK
  BY KeyAssumption DEF KeyInit, KeyTypeOK, KeyNothing, KeyContents
<1>2. KeySelectedIsAffected
  BY DEF KeyInit, KeySelectedIsAffected
<1>. QED
  BY <1>1, <1>2 DEF KeyIInv

LEMMA KeyStep == KeyIInv /\ [KeyNext]_keyVars => KeyIInv'
<1>. SUFFICES ASSUME KeyIInv, [KeyNext]_keyVars
              PROVE  KeyIInv'
  OBVIOUS
<1>. USE DEF KeyIInv
<1>1. CASE KeyOpen
  <2>1. /\ keyBase' \in [KeyFiles -> KeyContents] /\ keyNow' = keyBase'
        /\ keyAt = "idle" /\ keyAt' = "editing"
        /\ UNCHANGED <<keyEdits, keyTarget, keySelected>>
    BY <1>1 DEF KeyOpen, KeyContents
  <2>2. KeyTypeOK'
    BY <2>1 DEF KeyTypeOK
  <2>3. KeySelectedIsAffected'
    BY <2>1 DEF KeySelectedIsAffected
  <2>. QED
    BY <2>2, <2>3
<1>2. ASSUME NEW f \in KeyFiles, KeyEdit(f)
      PROVE  KeyIInv'
  <2>1. /\ keyNow' \in [KeyFiles -> KeyContents]
        /\ keyAt = "editing" /\ keyEdits < KeyMaxEdits /\ keyEdits' = keyEdits + 1
        /\ UNCHANGED <<keyAt, keyConfig, keyBase, keyTarget, keySelected>>
    BY <1>2 DEF KeyEdit, KeyTypeOK
  <2>2. keyEdits' \in 0..KeyMaxEdits
    BY <2>1, KeyAssumption DEF KeyTypeOK
  <2>3. KeyTypeOK'
    BY <2>1, <2>2 DEF KeyTypeOK
  <2>4. KeySelectedIsAffected'
    BY <2>1 DEF KeySelectedIsAffected
  <2>. QED
    BY <2>3, <2>4
<1>3. ASSUME NEW t \in KeyTargets, KeySelect(t)
      PROVE  KeyIInv'
  <2>1. /\ keyAt' = "selected" /\ keyTarget' = t
        /\ keySelected' = KeyChosen(KeyOrder(t), KeyAffected(keyConfig, t))
        /\ UNCHANGED <<keyConfig, keyBase, keyNow, keyEdits>>
    BY <1>3 DEF KeySelect
  <2>2. keySelected' \in Seq(KeyProjects)
    BY <2>1, KeyAffectedAreProjects, KeySelectionIs
  <2>3. KeyTypeOK'
    BY <2>1, <2>2 DEF KeyTypeOK
  <2>4. KeyAffected(keyConfig, t)' = KeyAffected(keyConfig, t)
    BY <2>1 DEF KeyAffected, KeyAllMatched, KeyMatched, KeyWithDownstream, KeyDownstream, KeyChanged
  <2>5. KeySelectedIsAffected'
    <3>1. KeyChosen(KeyOrder(keyTarget), KeyAffected(keyConfig, keyTarget))'
            = KeyChosen(KeyOrder(t), KeyAffected(keyConfig, t))
      BY <2>1 DEF KeyAffected, KeyAllMatched, KeyMatched, KeyWithDownstream, KeyDownstream, KeyChanged
    <3>. QED
      BY <2>1, <3>1 DEF KeySelectedIsAffected
  <2>. QED
    BY <2>3, <2>5
<1>4. CASE UNCHANGED keyVars
  <2>1. KeyTypeOK'
    BY <1>4 DEF keyVars, KeyTypeOK
  <2>2. KeySelectedIsAffected'
    <3>1. KeyChosen(KeyOrder(keyTarget), KeyAffected(keyConfig, keyTarget))'
            = KeyChosen(KeyOrder(keyTarget), KeyAffected(keyConfig, keyTarget))
      BY <1>4 DEF keyVars, KeyAffected, KeyAllMatched, KeyMatched, KeyWithDownstream, KeyDownstream,
                  KeyChanged
    <3>. QED
      BY <1>4, <3>1 DEF keyVars, KeySelectedIsAffected
  <2>. QED
    BY <2>1, <2>2
<1>. QED
  BY <1>1, <1>2, <1>3, <1>4 DEF KeyNext

LEMMA KeyAlways == KeySpec => []KeyIInv
<1>1. KeyInit => KeyIInv
  BY KeyInitHolds
<1>2. KeyIInv /\ [KeyNext]_keyVars => KeyIInv'
  BY KeyStep
<1>. QED
  BY <1>1, <1>2, PTL DEF KeySpec

LEMMA KeyNamesItsProject ==
    ASSUME NEW c, NEW content, NEW p \in KeyProjects, NEW t \in KeyTargets
    PROVE  KeyAll(c, content)[p][t].project = p
<1>. DEFINE d == {KeyAll(c, content)[q]["build"] : q \in KeyDependencies(c, p, t)}
<1>1. KeyAll(c, content)[p][t] = KeyOf(c, content, p, t, d)
  BY KeyIsMade
<1>. HIDE DEF d
<1>2. KeyOf(c, content, p, t, d).project = p
  BY DEF KeyOf
<1>. QED
  BY <1>1, <1>2

KeyBuildOf(c, content, p) == KeyAll(c, content)[p]["build"]

(* Two keys that are equal read the same manifest, the same inputs and dependencies
   with equal keys. *)
LEMMA KeyEqualReadsTheSame ==
    ASSUME NEW c, NEW base, NEW now, NEW p \in KeyProjects, NEW t \in KeyTargets,
           KeyAll(c, base)[p][t] = KeyAll(c, now)[p][t]
    PROVE  /\ KeyManifest(base, p) = KeyManifest(now, p)
           /\ KeyHashed(base, KeyInputFiles(c, base, p, t)) = KeyHashed(now, KeyInputFiles(c, now, p, t))
           /\ \A q \in KeyDependencies(c, p, t) :
                 KeyBuildOf(c, base, q) = KeyBuildOf(c, now, q)
<1>. DEFINE Of(content) == {KeyBuildOf(c, content, q) : q \in KeyDependencies(c, p, t)}
<1>1. /\ KeyAll(c, base)[p][t] = KeyOf(c, base, p, t, Of(base))
      /\ KeyAll(c, now)[p][t] = KeyOf(c, now, p, t, Of(now))
  BY KeyIsMade DEF KeyBuildOf
<1>2. KeyOf(c, base, p, t, Of(base)) = KeyOf(c, now, p, t, Of(now))
  BY <1>1
<1>. HIDE DEF Of
<1>3. /\ KeyManifest(base, p) = KeyManifest(now, p)
      /\ KeyHashed(base, KeyInputFiles(c, base, p, t)) = KeyHashed(now, KeyInputFiles(c, now, p, t))
      /\ Of(base) = Of(now)
  <2>1. \A content, d : /\ KeyOf(c, content, p, t, d).manifest = KeyManifest(content, p)
                        /\ KeyOf(c, content, p, t, d).inputs
                             = KeyHashed(content, KeyInputFiles(c, content, p, t))
                        /\ KeyOf(c, content, p, t, d).dependencies = d
    BY DEF KeyOf
  <2>. QED
    BY <1>2, <2>1
<1>4. ASSUME NEW q \in KeyDependencies(c, p, t)
      PROVE  KeyBuildOf(c, base, q) = KeyBuildOf(c, now, q)
  <2>1. PICK r \in KeyDependencies(c, p, t) : KeyBuildOf(c, base, q) = KeyBuildOf(c, now, r)
    BY <1>3 DEF Of
  <2>2. q \in KeyProjects /\ r \in KeyProjects
    BY KeyDependenciesAre
  <2>3. KeyBuildOf(c, base, q).project = q /\ KeyBuildOf(c, now, r).project = r
    <3>1. "build" \in KeyTargets
      BY DEF KeyTargets
    <3>. QED
      BY <2>2, <3>1, KeyNamesItsProject DEF KeyBuildOf
  <2>. QED
    BY <2>1, <2>3
<1>. QED
  BY <1>3, <1>4

(* What is read as the same is the same. *)
LEMMA KeyReadFilesAreEqual ==
    ASSUME NEW c, NEW base, NEW now, NEW p \in KeyProjects, NEW t \in KeyTargets,
           KeyAll(c, base)[p][t] = KeyAll(c, now)[p][t], "src" \in KeyGlobs(c, p, t)
    PROVE  \A f \in KeyFiles : KeyOwner(f, p) /\ f.kind \in {"src", "manifest"} => base[f] = now[f]
<1>. SUFFICES ASSUME NEW f \in KeyFiles, KeyOwner(f, p), f.kind \in {"src", "manifest"}
              PROVE  base[f] = now[f]
  OBVIOUS
<1>1. /\ KeyManifest(base, p) = KeyManifest(now, p)
      /\ KeyHashed(base, KeyInputFiles(c, base, p, t)) = KeyHashed(now, KeyInputFiles(c, now, p, t))
  BY KeyEqualReadsTheSame
<1>2. CASE f.kind = "manifest"
  <2>1. <<f, base[f]>> \in KeyManifest(base, p)
    BY <1>2 DEF KeyManifest
  <2>2. <<f, base[f]>> \in KeyManifest(now, p)
    BY <1>1, <2>1
  <2>. QED
    BY <2>2 DEF KeyManifest
<1>3. CASE f.kind = "src"
  <2>1. \A content : content[f] # "absent" => f \in KeyInputFiles(c, content, p, t)
    <3>1. KeyUnder(f, p) /\ KeyKindFor(f, p) = "src"
      BY <1>3 DEF KeyOwner, KeyKindFor
    <3>. QED
      BY <3>1 DEF KeyInputFiles
  <2>2. CASE base[f] # "absent"
    <3>1. <<f, base[f]>> \in KeyHashed(base, KeyInputFiles(c, base, p, t))
      BY <2>1, <2>2 DEF KeyHashed
    <3>2. <<f, base[f]>> \in KeyHashed(now, KeyInputFiles(c, now, p, t))
      BY <1>1, <3>1
    <3>. QED
      BY <3>2 DEF KeyHashed
  <2>3. CASE now[f] # "absent"
    <3>1. <<f, now[f]>> \in KeyHashed(now, KeyInputFiles(c, now, p, t))
      BY <2>1, <2>3 DEF KeyHashed
    <3>2. <<f, now[f]>> \in KeyHashed(base, KeyInputFiles(c, base, p, t))
      BY <1>1, <3>1
    <3>. QED
      BY <3>2 DEF KeyHashed
  <2>. QED
    BY <2>2, <2>3
<1>. QED
  BY <1>2, <1>3

LEMMA KeyIInvImpliesCovered == KeyIInv => KeyAffectedCoversKeys
<1>. SUFFICES ASSUME KeyIInv, keyAt = "selected", KeyUniform(keyConfig),
                     NEW p \in KeyProjects \ KeyIn(keySelected)
              PROVE  KeyAll(keyConfig, keyBase)[p][keyTarget] = KeyAll(keyConfig, keyNow)[p][keyTarget]
  BY DEF KeyAffectedCoversKeys
<1>1. /\ keyTarget \in KeyTargets
      /\ keySelected = KeyChosen(KeyOrder(keyTarget), KeyAffected(keyConfig, keyTarget))
  BY DEF KeyIInv, KeySelectedIsAffected
<1>2. KeyIn(keySelected) = KeyAffected(keyConfig, keyTarget)
  BY <1>1, KeyAffectedAreProjects, KeySelectionIs
<1>. QED
  BY <1>1, <1>2, KeyUnaffectedIsUnchanged

(* ... and so are the keys of what it compiles. *)
LEMMA KeyCompiledIsTheSame ==
    ASSUME NEW c, NEW base, NEW now, NEW p \in KeyProjects, NEW t \in KeyTargets,
           KeyAll(c, base)[p][t] = KeyAll(c, now)[p][t],
           KeyDirect(p, t) \subseteq KeyDependencies(c, p, t)
    PROVE  \A q \in KeySources(KeyDirect(p, t)) :
              q \in KeyProjects /\ KeyBuildOf(c, base, q) = KeyBuildOf(c, now, q)
<1>1. "build" \in KeyTargets
  BY DEF KeyTargets
<1>. DEFINE Same == {r \in KeyProjects : KeyBuildOf(c, base, r) = KeyBuildOf(c, now, r)}
<1>2. \A r \in KeyProjects : KeyUpstream[r] \subseteq KeyDependencies(c, r, "build")
  BY DEF KeyDependencies
<1>3. ASSUME NEW r \in Same
      PROVE  KeyUpstream[r] \subseteq Same
  <2>1. KeyAll(c, base)[r]["build"] = KeyAll(c, now)[r]["build"]
    BY DEF KeyBuildOf
  <2>2. \A s \in KeyDependencies(c, r, "build") : KeyBuildOf(c, base, s) = KeyBuildOf(c, now, s)
    BY <1>1, <2>1, KeyEqualReadsTheSame
  <2>. QED
    BY <1>2, <2>2, KeyAssumption
<1>4. KeyDirect(p, t) \subseteq Same
  <2>1. \A s \in KeyDependencies(c, p, t) : KeyBuildOf(c, base, s) = KeyBuildOf(c, now, s)
    BY KeyEqualReadsTheSame
  <2>2. KeyDependencies(c, p, t) \subseteq KeyProjects
    BY KeyDependenciesAre
  <2>. QED
    BY <2>1, <2>2
<1>5. KeySources(KeyDirect(p, t)) \subseteq Same
  <2>1. Same \in SUBSET KeyProjects
    OBVIOUS
  <2>. HIDE DEF Same
  <2>. QED
    BY <1>3, <1>4, <2>1 DEF KeySources
<1>. QED
  BY <1>5

LEMMA KeyIInvImpliesSources == KeyIInv => KeyCoversSources
<1>. DEFINE Equal(p, t) == KeyAll(keyConfig, keyBase)[p][t] = KeyAll(keyConfig, keyNow)[p][t]
            Unchanged(p) == \A f \in KeyFiles : KeyOwner(f, p) /\ f.kind \in {"src", "manifest"}
                                                  => keyBase[f] = keyNow[f]
<1>1. \A p \in KeyProjects, t \in KeyTargets :
         Equal(p, t) /\ "src" \in KeyGlobs(keyConfig, p, t) => Unchanged(p)
  BY KeyReadFilesAreEqual
<1>2. ASSUME NEW p \in KeyProjects, NEW t \in KeyTargets, Equal(p, t),
             KeyDirect(p, t) \subseteq KeyDependencies(keyConfig, p, t)
      PROVE  \A q \in KeySources(KeyDirect(p, t)) :
                q \in KeyProjects /\ KeyBuildOf(keyConfig, keyBase, q) = KeyBuildOf(keyConfig, keyNow, q)
  BY <1>2, KeyCompiledIsTheSame
<1>3. \A p \in KeyProjects : keyTarget # "format" =>
        KeyDirect(p, keyTarget) \subseteq KeyDependencies(keyConfig, p, keyTarget)
  BY DEF KeyDependencies, KeyDirect
<1>. SUFFICES ASSUME KeyIInv, keyAt = "selected"
              PROVE  KeyCoversSources
  BY DEF KeyCoversSources
<1>4. keyTarget \in KeyTargets /\ "build" \in KeyTargets
  BY DEF KeyIInv, KeySelectedIsAffected, KeyTargets
<1>5. ASSUME NEW p \in KeyProjects, keyTarget # "format", Equal(p, keyTarget),
             NEW q \in {p} \cup KeySources(KeyDirect(p, keyTarget)),
             "src" \in KeyGlobs(keyConfig, q, IF q = p THEN keyTarget ELSE "build")
      PROVE  Unchanged(q)
  <2>1. CASE q = p
    <3>. HIDE DEF Equal, Unchanged
    <3>. QED
      BY <1>1, <1>4, <1>5, <2>1
  <2>2. CASE q # p
    <3>1. q \in KeyProjects /\ KeyBuildOf(keyConfig, keyBase, q) = KeyBuildOf(keyConfig, keyNow, q)
      <4>. HIDE DEF Equal, Unchanged
      <4>. QED
        BY <1>2, <1>3, <1>4, <1>5, <2>2
    <3>2. Equal(q, "build")
      BY <3>1 DEF KeyBuildOf
    <3>. HIDE DEF Equal, Unchanged
    <3>. QED
      BY <1>1, <1>4, <1>5, <2>2, <3>1, <3>2
  <2>. QED
    BY <2>1, <2>2
<1>. QED
  BY <1>5 DEF KeyCoversSources

LEMMA KeyIInvImpliesOrdered == KeyIInv => KeySelectionIsOrdered
<1>. SUFFICES ASSUME KeyIInv
              PROVE  KeySelectionIsOrdered
  OBVIOUS
<1>1. CASE keyAt = "selected"
  <2>1. keySelected = KeyChosen(KeyOrder(keyTarget), KeyAffected(keyConfig, keyTarget))
    BY <1>1 DEF KeyIInv, KeySelectedIsAffected
  <2>. QED
    BY <2>1, KeyAffectedAreProjects, KeySelectionIs DEF KeySelectionIsOrdered
<1>2. CASE keyAt # "selected"
  <2>1. keySelected = <<>>
    BY <1>2 DEF KeyIInv, KeySelectedIsAffected
  <2>. QED
    BY <2>1 DEF KeySelectionIsOrdered
<1>. QED
  BY <1>1, <1>2

--------------------------------------------------------------------------------
(* Vendored packages. *)

VnIsLock(l) == l \subseteq VnPackages /\ \A a, b \in l : a.name = b.name => a = b

VnIsTyped ==
    /\ VnIsLock(vnLock) /\ VnIsLock(vnSync.lock) /\ VnIsLock(vnPrepare.lock)
    /\ DOMAIN vnArchives \subseteq VnPackages
    /\ vnSync.at \in {"idle", "fetch", "prune"} /\ vnSync.todo \subseteq VnPackages
    /\ vnPrepare.at \in {"idle", "hydrate", "layout", "gleam", "built"}
    /\ vnPrepare.todo \subseteq vnPrepare.lock
    /\ \A n \in DOMAIN vnState : vnState[n].name = n
    /\ \A n \in DOMAIN vnNext : vnNext[n].name = n
    /\ vnChanges \in 0..VnMaxChanges
    /\ ~vnOpen => ~vnGood /\ vnPrepare.at = "idle"

(* An inventory, and the one being made, has the checksums of good archives
   only; one that is written is of all its lock file's packages. *)
VnSumsAreGood ==
    /\ \A a \in DOMAIN vnInventory.sums : vnInventory.sums[a] = "good"
    /\ \A a \in DOMAIN vnSync.sums : vnSync.sums[a] = "good"
    /\ vnInventory.readable => DOMAIN vnInventory.sums = vnInventory.lock
    /\ vnSync.at = "fetch" =>
          vnSync.todo \subseteq vnSync.lock /\ DOMAIN vnSync.sums = vnSync.lock \ vnSync.todo
    /\ vnSync.at = "prune" =>
          vnInventory.lock = vnSync.lock /\ vnSync.todo \cap vnSync.lock = {}

VnGoodIsComplete == vnGood => VnComplete

(* While nothing changes under it, a preparation that has checked finds good
   archives only, and has filled the cache with good ones. *)
VnFindsGood ==
    ~vnRaced =>
        /\ vnPrepare.at \in {"hydrate", "layout"} =>
              \A a \in vnPrepare.lock \cap DOMAIN vnArchives : vnArchives[a] = "good"
        /\ vnPrepare.at = "hydrate" =>
              \A a \in vnPrepare.lock : a.from = "hex" => a \in vnPrepare.todo \/ VnAt(vnCache, a) = "good"
        /\ vnPrepare.at \in {"layout", "gleam"} =>
              \A a \in vnPrepare.lock : a.from = "hex" => VnAt(vnCache, a) = "good"

(* A directory is that of a package, as far as versions tell. *)
VnHolds(d, a) == d.is = "good" /\ d.package.version = a.version /\ (a.from = "git" => d.package = a)

(* What the record names is what is laid out, but for what a preparation has
   been through since. *)
VnThrough == IF vnPrepare.at = "layout" THEN vnPrepare.lock \ vnPrepare.todo ELSE {}
VnRecordHolds ==
    ~vnRaced /\ ~vnTorn =>
        \A n \in DOMAIN vnState : n \in DOMAIN vnDirs /\ (\A a \in VnThrough : a.name # n)
                                    => VnHolds(vnDirs[n], vnState[n])

(* What is laid out of the packages S is in the record; the rest is left to Gleam. *)
VnIsLaidOut(S, record) ==
    \A a \in S :
        IF a.name \in DOMAIN record
        THEN record[a.name] = a /\ a.name \in DOMAIN vnDirs /\ VnHolds(vnDirs[a.name], a)
        ELSE a.from = "hex"
VnLayoutHolds ==
    ~vnRaced /\ ~vnTorn =>
        /\ vnPrepare.at = "layout" =>
              /\ \A n \in DOMAIN vnNext : \E a \in VnThrough : a.name = n
              /\ VnIsLaidOut(VnThrough, vnNext)
        /\ vnPrepare.at = "gleam" => VnIsLaidOut(vnPrepare.lock, vnState)
        /\ vnPrepare.at = "built" => \A a \in vnPrepare.lock :
              a.name \in DOMAIN vnDirs /\ VnHolds(vnDirs[a.name], a)

VnIInv ==
    /\ VnIsTyped
    /\ VnSumsAreGood
    /\ VnGoodIsComplete
    /\ VnFindsGood
    /\ VnRecordHolds
    /\ VnLayoutHolds

LEMMA VnWorkIs ==
    ASSUME NEW at, NEW lock, NEW todo, NEW sums
    PROVE  /\ VnWork(at, lock, todo, sums).at = at /\ VnWork(at, lock, todo, sums).lock = lock
           /\ VnWork(at, lock, todo, sums).todo = todo /\ VnWork(at, lock, todo, sums).sums = sums
BY DEF VnWork

LEMMA VnIdleIs == /\ VnIdle.at = "idle" /\ VnIdle.lock = {} /\ VnIdle.todo = {}
                  /\ VnIdle.sums = VnNoFiles /\ DOMAIN VnNoFiles = {} /\ VnIsLock({})
BY VnWorkIs DEF VnIdle, VnNoFiles, VnIsLock

--------------------------------------------------------------------------------
(* The world. *)

(* What is laid out does not depend on the archives. *)
LEMMA VnLayoutStays ==
    ASSUME VnIInv, UNCHANGED <<vnPrepare, vnDirs, vnState, vnNext, vnRaced, vnTorn>>
    PROVE  VnRecordHolds' /\ VnLayoutHolds'
<1>1. VnThrough' = VnThrough
  BY DEF VnThrough
<1>2. VnRecordHolds'
  BY <1>1 DEF VnIInv, VnRecordHolds
<1>3. VnLayoutHolds'
  BY <1>1 DEF VnIInv, VnLayoutHolds, VnIsLaidOut
<1>. QED
  BY <1>2, <1>3

LEMMA VnChangesKeep ==
    ASSUME VnIInv, VnChange, VnIsLock(vnLock'), (DOMAIN vnArchives') \subseteq VnPackages
    PROVE  VnIInv'
<1>1. /\ vnChanges < VnMaxChanges /\ vnChanges' = vnChanges + 1 /\ vnGood' = FALSE
      /\ vnRaced' = (vnRaced \/ VnPreparing)
      /\ UNCHANGED <<vnOpen, vnTorn, vnInventory, vnSync, vnPrepare, vnDirs, vnState, vnNext>>
  BY DEF VnChange
<1>2. ~vnRaced' => ~vnRaced /\ vnPrepare.at = "idle" /\ vnPrepare'.at = "idle"
  BY <1>1 DEF VnPreparing
<1>3. VnIsTyped'
  BY <1>1, VnAssumption DEF VnIInv, VnIsTyped, VnIsLock
<1>4. VnSumsAreGood' /\ VnGoodIsComplete'
  BY <1>1 DEF VnIInv, VnSumsAreGood, VnGoodIsComplete
<1>5. VnFindsGood' /\ VnLayoutHolds'
  BY <1>2 DEF VnFindsGood, VnLayoutHolds
<1>6. VnRecordHolds'
  <2>1. vnPrepare.at = "idle" => VnThrough = {} /\ VnThrough' = {}
    BY <1>1 DEF VnThrough
  <2>. QED
    BY <1>1, <1>2, <2>1 DEF VnIInv, VnRecordHolds
<1>. QED
  BY <1>3, <1>4, <1>5, <1>6 DEF VnIInv

LEMMA VnLocksAre == \A l \in VnLocks : VnIsLock(l)
BY VnAssumption DEF VnIsLock

LEMMA VnRelockKeeps == ASSUME VnIInv, NEW l \in VnLocks, VnRelock(l) PROVE VnIInv'
<1>1. VnIsLock(vnLock') /\ (DOMAIN vnArchives') \subseteq VnPackages
  BY VnLocksAre DEF VnRelock, VnIInv, VnIsTyped
<1>. QED
  BY <1>1, VnChangesKeep DEF VnRelock

LEMMA VnDamageArchiveKeeps == ASSUME VnIInv, NEW a, VnDamageArchive(a) PROVE VnIInv'
<1>1. (DOMAIN vnArchives') \subseteq VnPackages /\ vnLock' = vnLock
  BY DEF VnPut, VnDrop, VnDamageArchive, VnIInv, VnIsTyped
<1>2. VnIsLock(vnLock')
  BY <1>1 DEF VnIInv, VnIsTyped
<1>. QED
  BY <1>1, <1>2, VnChangesKeep DEF VnDamageArchive

LEMMA VnDamageCacheKeeps == ASSUME VnIInv, NEW a, VnDamageCache(a) PROVE VnIInv'
<1>1. (DOMAIN vnArchives') \subseteq VnPackages /\ VnIsLock(vnLock')
  BY DEF VnDamageCache, VnIInv, VnIsTyped
<1>. QED
  BY <1>1, VnChangesKeep DEF VnDamageCache

LEMMA VnEnterKeeps == ASSUME VnIInv, VnEnter PROVE VnIInv'
<1>1. /\ vnLock' \in VnLocks
      /\ UNCHANGED <<vnArchives, vnInventory, vnSync, vnCache, vnPrepare, vnDirs, vnState, vnNext,
                     vnGood, vnTorn, vnRaced, vnChanges>>
      /\ vnOpen' /\ vnPrepare.at = "idle" /\ ~vnGood
  BY DEF VnEnter, VnIInv, VnIsTyped
<1>2. VnIsTyped'
  BY <1>1, VnLocksAre DEF VnIInv, VnIsTyped, VnIsLock
<1>3. VnSumsAreGood' /\ VnGoodIsComplete'
  BY <1>1 DEF VnIInv, VnSumsAreGood, VnGoodIsComplete
<1>4. VnFindsGood'
  BY <1>1 DEF VnFindsGood
<1>. QED
  BY <1>1, <1>2, <1>3, <1>4, VnLayoutStays DEF VnIInv

--------------------------------------------------------------------------------
(* `deps vendor`. *)

LEMMA VnSyncBeginKeeps == ASSUME VnIInv, VnSyncBegin PROVE VnIInv'
<1>1. /\ vnSync' = VnWork("fetch", vnLock, vnLock, VnNoFiles)
      /\ UNCHANGED <<vnOpen, vnLock, vnArchives, vnInventory, vnCache, vnPrepare, vnDirs, vnState,
                     vnNext, vnGood, vnTorn, vnRaced, vnChanges>>
  BY DEF VnSyncBegin, VnSameSync, VnSameProject
<1>2. /\ vnSync'.at = "fetch" /\ vnSync'.lock = vnLock /\ vnSync'.todo = vnLock
      /\ vnSync'.sums = VnNoFiles /\ DOMAIN VnNoFiles = {}
  BY <1>1, VnWorkIs, VnIdleIs
<1>3. VnIsTyped'
  BY <1>1, <1>2 DEF VnIInv, VnIsTyped, VnIsLock
<1>4. VnSumsAreGood'
  BY <1>1, <1>2 DEF VnIInv, VnSumsAreGood
<1>5. VnGoodIsComplete' /\ VnFindsGood'
  BY <1>1 DEF VnIInv, VnGoodIsComplete, VnComplete, VnFindsGood
<1>. QED
  BY <1>1, <1>3, <1>4, <1>5, VnLayoutStays DEF VnIInv

LEMMA VnFetchKeeps == ASSUME VnIInv, NEW a \in VnPackages, VnFetch(a) PROVE VnIInv'
<1>1. /\ vnSync.at = "fetch" /\ a \in vnSync.todo
      /\ vnArchives' = IF VnReuses(a) THEN vnArchives ELSE VnPut(vnArchives, a, "good")
      /\ vnSync' = VnWork("fetch", vnSync.lock, vnSync.todo \ {a},
                          VnPut(vnSync.sums, a, vnArchives'[a]))
      /\ UNCHANGED <<vnOpen, vnLock, vnInventory, vnCache, vnPrepare, vnDirs, vnState, vnNext,
                     vnGood, vnTorn, vnRaced, vnChanges>>
  BY DEF VnFetch, VnSameSync, VnSameProject
<1>2. VnReuses(a) => VnAt(vnArchives, a) = "good"
  BY VnAssumption DEF VnReuses, VnIInv, VnSumsAreGood
<1>3. /\ DOMAIN vnArchives' = (DOMAIN vnArchives) \cup {a} /\ vnArchives'[a] = "good"
      /\ VnAt(vnArchives', a) = "good"
      /\ \A b : b # a => VnAt(vnArchives', b) = VnAt(vnArchives, b)
      /\ \A b \in DOMAIN vnArchives : b # a => vnArchives'[b] = vnArchives[b]
  <2>1. CASE VnReuses(a)
    <3>1. a \in DOMAIN vnArchives /\ vnArchives[a] = "good"
      BY <1>2, <2>1 DEF VnAt
    <3>. QED
      BY <1>1, <2>1, <3>1 DEF VnAt
  <2>2. CASE ~VnReuses(a)
    BY <1>1, <2>2 DEF VnPut, VnAt
  <2>. QED
    BY <2>1, <2>2
<1>4. /\ vnSync'.at = "fetch" /\ vnSync'.lock = vnSync.lock /\ vnSync'.todo = vnSync.todo \ {a}
      /\ vnSync'.sums = VnPut(vnSync.sums, a, vnArchives'[a])
  BY <1>1, VnWorkIs
<1>5. /\ DOMAIN vnSync'.sums = (DOMAIN vnSync.sums) \cup {a} /\ vnSync'.sums[a] = "good"
      /\ \A b \in DOMAIN vnSync.sums : b # a => vnSync'.sums[b] = vnSync.sums[b]
  BY <1>3, <1>4 DEF VnPut
<1>6. VnIsTyped'
  BY <1>1, <1>3, <1>4 DEF VnIInv, VnIsTyped, VnIsLock
<1>7. VnSumsAreGood'
  BY <1>1, <1>4, <1>5 DEF VnIInv, VnSumsAreGood
<1>8. VnGoodIsComplete'
  <2>. SUFFICES ASSUME vnGood PROVE VnComplete'
    BY <1>1 DEF VnGoodIsComplete
  <2>1. /\ vnInventory.readable /\ vnInventory.lock = vnLock
        /\ \A b \in vnLock : VnAt(vnArchives, b) = vnInventory.sums[b]
    BY DEF VnIInv, VnGoodIsComplete, VnComplete
  <2>2. \A b \in vnLock : vnInventory.sums[b] = "good"
    BY <2>1 DEF VnIInv, VnSumsAreGood
  <2>3. \A b \in vnLock : VnAt(vnArchives', b) = vnInventory.sums[b]
    BY <1>3, <2>1, <2>2
  <2>. QED
    BY <1>1, <2>1, <2>3 DEF VnComplete
<1>9. VnFindsGood'
  BY <1>1, <1>3 DEF VnIInv, VnFindsGood
<1>. QED
  BY <1>1, <1>6, <1>7, <1>8, <1>9, VnLayoutStays DEF VnIInv

LEMMA VnWriteInventoryKeeps == ASSUME VnIInv, VnWriteInventory PROVE VnIInv'
<1>1. /\ vnSync.at = "fetch" /\ vnSync.todo = {}
      /\ vnInventory' = [lock |-> vnSync.lock, readable |-> TRUE, sums |-> vnSync.sums]
      /\ vnSync' = VnWork("prune", vnSync.lock, (DOMAIN vnArchives) \ vnSync.lock, vnSync.sums)
      /\ vnGood' = (vnGood /\ vnSync.lock = vnLock)
      /\ UNCHANGED <<vnOpen, vnLock, vnArchives, vnCache, vnPrepare, vnDirs, vnState, vnNext,
                     vnTorn, vnRaced, vnChanges>>
  BY DEF VnWriteInventory, VnSyncStep, VnSameSync, VnSameProject
<1>2. /\ vnSync'.at = "prune" /\ vnSync'.lock = vnSync.lock /\ vnSync'.sums = vnSync.sums
      /\ vnSync'.todo = (DOMAIN vnArchives) \ vnSync.lock
      /\ vnInventory'.lock = vnSync.lock /\ vnInventory'.readable
      /\ vnInventory'.sums = vnSync.sums
  BY <1>1, VnWorkIs
<1>3. DOMAIN vnSync.sums = vnSync.lock /\ \A a \in vnSync.lock : vnSync.sums[a] = "good"
  BY <1>1 DEF VnIInv, VnSumsAreGood
<1>4. VnIsTyped'
  BY <1>1, <1>2 DEF VnIInv, VnIsTyped, VnIsLock
<1>5. VnSumsAreGood'
  BY <1>2, <1>3 DEF VnSumsAreGood
<1>6. VnGoodIsComplete'
  <2>. SUFFICES ASSUME vnGood, vnSync.lock = vnLock PROVE VnComplete'
    BY <1>1 DEF VnGoodIsComplete
  <2>1. \A a \in vnLock : VnAt(vnArchives, a) = vnInventory.sums[a] /\ vnInventory.sums[a] = "good"
    BY DEF VnIInv, VnGoodIsComplete, VnComplete, VnSumsAreGood
  <2>. QED
    BY <1>1, <1>2, <1>3, <2>1 DEF VnComplete
<1>7. VnFindsGood'
  BY <1>1 DEF VnIInv, VnFindsGood
<1>. QED
  BY <1>1, <1>4, <1>5, <1>6, <1>7, VnLayoutStays DEF VnIInv

LEMMA VnPruneKeeps == ASSUME VnIInv, NEW a \in VnPackages, VnPrune(a) PROVE VnIInv'
<1>1. /\ vnSync.at = "prune" /\ a \in vnSync.todo /\ vnArchives' = VnDrop(vnArchives, {a})
      /\ vnSync' = VnWork("prune", vnSync.lock, vnSync.todo \ {a}, vnSync.sums)
      /\ UNCHANGED <<vnOpen, vnLock, vnInventory, vnCache, vnPrepare, vnDirs, vnState, vnNext,
                     vnGood, vnTorn, vnRaced, vnChanges>>
  BY DEF VnPrune, VnSyncStep, VnSameSync, VnSameProject
<1>2. /\ vnSync'.at = "prune" /\ vnSync'.lock = vnSync.lock /\ vnSync'.sums = vnSync.sums
      /\ vnSync'.todo = vnSync.todo \ {a}
  BY <1>1, VnWorkIs
<1>3. /\ DOMAIN vnArchives' = (DOMAIN vnArchives) \ {a}
      /\ \A b : VnAt(vnArchives', b) = IF b = a THEN "none" ELSE VnAt(vnArchives, b)
      /\ \A b \in (DOMAIN vnArchives) \ {a} : vnArchives'[b] = vnArchives[b]
  BY <1>1 DEF VnDrop, VnAt
<1>4. VnIsTyped'
  BY <1>1, <1>2, <1>3 DEF VnIInv, VnIsTyped, VnIsLock
<1>5. VnSumsAreGood'
  BY <1>1, <1>2 DEF VnIInv, VnSumsAreGood
<1>6. VnGoodIsComplete'
  <2>. SUFFICES ASSUME vnGood PROVE VnComplete'
    BY <1>1 DEF VnGoodIsComplete
  <2>1. VnComplete /\ a \notin vnLock
    BY <1>1 DEF VnIInv, VnGoodIsComplete, VnComplete, VnSumsAreGood
  <2>. QED
    BY <1>1, <1>3, <2>1 DEF VnComplete
<1>7. VnFindsGood'
  BY <1>1, <1>3 DEF VnIInv, VnFindsGood
<1>. QED
  BY <1>1, <1>4, <1>5, <1>6, <1>7, VnLayoutStays DEF VnIInv

(* It ends, well or not. *)
LEMMA VnSyncEndsKeep ==
    ASSUME VnIInv, vnSync' = VnIdle, vnChanges' \in 0..VnMaxChanges,
           UNCHANGED <<vnOpen, vnLock, vnArchives, vnInventory, vnCache, vnPrepare, vnDirs,
                       vnState, vnNext, vnGood, vnTorn, vnRaced>>
    PROVE  VnIInv'
<1>1. VnIsTyped'
  BY VnIdleIs DEF VnIInv, VnIsTyped, VnIsLock
<1>2. VnSumsAreGood'
  BY VnIdleIs DEF VnIInv, VnSumsAreGood
<1>3. VnGoodIsComplete' /\ VnFindsGood'
  BY DEF VnIInv, VnGoodIsComplete, VnComplete, VnFindsGood
<1>. QED
  BY <1>1, <1>2, <1>3, VnLayoutStays DEF VnIInv

--------------------------------------------------------------------------------
(* The preparation. *)

(* What a preparation leaves of the store. *)
LEMMA VnStoreStays ==
    ASSUME VnIInv, UNCHANGED <<vnLock, vnArchives, vnInventory, vnSync>>
    PROVE  VnSumsAreGood' /\ (vnGood' = vnGood => VnGoodIsComplete')
BY DEF VnIInv, VnSumsAreGood, VnGoodIsComplete, VnComplete

LEMMA VnCheckKeeps == ASSUME VnIInv, VnCheck PROVE VnIInv'
<1>1. /\ vnOpen /\ vnPrepare.at = "idle" /\ VnComplete /\ vnGood' = TRUE
      /\ vnPrepare' = VnWork("hydrate", vnLock, VnFrom(vnLock, "hex"), VnNoFiles)
      /\ UNCHANGED <<vnOpen, vnLock, vnArchives, vnInventory, vnSync, vnRaced, vnChanges,
                     vnCache, vnDirs, vnState, vnNext, vnTorn>>
  BY DEF VnCheck, VnSameWorld, VnSameStore
<1>2. /\ vnPrepare'.at = "hydrate" /\ vnPrepare'.lock = vnLock
      /\ vnPrepare'.todo = VnFrom(vnLock, "hex")
  BY <1>1, VnWorkIs
<1>3. VnIsTyped'
  BY <1>1, <1>2 DEF VnIInv, VnIsTyped, VnIsLock, VnFrom
<1>4. VnSumsAreGood' /\ VnGoodIsComplete'
  BY <1>1, VnStoreStays DEF VnGoodIsComplete, VnComplete
<1>5. VnFindsGood'
  <2>1. \A a \in vnLock : VnAt(vnArchives, a) = "good"
    BY <1>1 DEF VnComplete, VnIInv, VnSumsAreGood
  <2>. QED
    BY <1>1, <1>2, <2>1 DEF VnFindsGood, VnFrom, VnAt
<1>6. VnThrough = {} /\ VnThrough' = {}
  BY <1>1, <1>2 DEF VnThrough
<1>7. VnRecordHolds'
  BY <1>1, <1>6 DEF VnIInv, VnRecordHolds
<1>8. VnLayoutHolds'
  BY <1>2 DEF VnLayoutHolds
<1>. QED
  BY <1>3, <1>4, <1>5, <1>7, <1>8 DEF VnIInv

LEMMA VnHydrateKeeps == ASSUME VnIInv, NEW a \in VnPackages, VnHydrate(a) PROVE VnIInv'
<1>1. /\ vnPrepare.at = "hydrate" /\ a \in vnPrepare.todo
      /\ VnHydrates(a) => a \in DOMAIN vnArchives
      /\ vnCache' = IF VnHydrates(a) THEN VnPut(vnCache, a, vnArchives[a]) ELSE vnCache
      /\ vnPrepare' = VnWork("hydrate", vnPrepare.lock, vnPrepare.todo \ {a}, VnNoFiles)
      /\ UNCHANGED <<vnOpen, vnLock, vnArchives, vnInventory, vnSync, vnRaced, vnChanges,
                     vnDirs, vnState, vnNext, vnGood, vnTorn>>
  BY DEF VnHydrate, VnPrepareStep, VnSameWorld, VnSameStore
<1>2. /\ vnPrepare'.at = "hydrate" /\ vnPrepare'.lock = vnPrepare.lock
      /\ vnPrepare'.todo = vnPrepare.todo \ {a}
  BY <1>1, VnWorkIs
<1>3. VnIsTyped'
  BY <1>1, <1>2 DEF VnIInv, VnIsTyped, VnIsLock
<1>4. VnSumsAreGood' /\ VnGoodIsComplete'
  BY <1>1, VnStoreStays
<1>5. VnFindsGood'
  <2>. SUFFICES ASSUME ~vnRaced PROVE VnFindsGood'
    BY <1>1 DEF VnFindsGood
  <2>1. \A b : b # a => VnAt(vnCache', b) = VnAt(vnCache, b)
    BY <1>1 DEF VnPut, VnAt
  <2>2. VnAt(vnCache', a) = "good"
    <3>1. CASE ~VnHydrates(a)
      BY <1>1, <3>1 DEF VnHydrates
    <3>2. CASE VnHydrates(a)
      <4>1. vnArchives[a] = "good"
        BY <1>1, <3>2 DEF VnIInv, VnIsTyped, VnFindsGood
      <4>. QED
        BY <1>1, <3>2, <4>1 DEF VnPut, VnAt
    <3>. QED
      BY <3>1, <3>2
  <2>. QED
    BY <1>1, <1>2, <2>1, <2>2 DEF VnIInv, VnFindsGood
<1>6. VnThrough = {} /\ VnThrough' = {}
  BY <1>1, <1>2 DEF VnThrough
<1>7. VnRecordHolds'
  BY <1>1, <1>6 DEF VnIInv, VnRecordHolds
<1>8. VnLayoutHolds'
  BY <1>2 DEF VnLayoutHolds
<1>. QED
  BY <1>3, <1>4, <1>5, <1>7, <1>8 DEF VnIInv

LEMMA VnHydratedKeeps == ASSUME VnIInv, VnHydrated PROVE VnIInv'
<1>1. /\ vnPrepare.at = "hydrate" /\ vnPrepare.todo = {} /\ vnNext' = VnNoFiles
      /\ vnPrepare' = VnWork("layout", vnPrepare.lock, vnPrepare.lock, VnNoFiles)
      /\ UNCHANGED <<vnOpen, vnLock, vnArchives, vnInventory, vnSync, vnRaced, vnChanges,
                     vnCache, vnDirs, vnState, vnGood, vnTorn>>
  BY DEF VnHydrated, VnPrepareStep, VnSameWorld, VnSameStore
<1>2. /\ vnPrepare'.at = "layout" /\ vnPrepare'.lock = vnPrepare.lock
      /\ vnPrepare'.todo = vnPrepare.lock /\ DOMAIN vnNext' = {}
  BY <1>1, VnWorkIs, VnIdleIs
<1>3. VnIsTyped'
  BY <1>1, <1>2 DEF VnIInv, VnIsTyped, VnIsLock
<1>4. VnSumsAreGood' /\ VnGoodIsComplete'
  BY <1>1, VnStoreStays
<1>5. VnFindsGood'
  BY <1>1, <1>2 DEF VnIInv, VnFindsGood
<1>6. VnThrough = {} /\ VnThrough' = {}
  BY <1>1, <1>2 DEF VnThrough
<1>7. VnRecordHolds'
  BY <1>1, <1>6 DEF VnIInv, VnRecordHolds
<1>8. VnLayoutHolds'
  BY <1>2, <1>6 DEF VnLayoutHolds, VnIsLaidOut
<1>. QED
  BY <1>3, <1>4, <1>5, <1>7, <1>8 DEF VnIInv

LEMMA VnLayOutKeeps == ASSUME VnIInv, NEW a \in VnPackages, VnLayOut(a) PROVE VnIInv'
<1>1. /\ vnPrepare.at = "layout" /\ a \in vnPrepare.todo
      /\ a.from = "git" /\ ~VnFresh(a) => a \in DOMAIN vnArchives
      /\ vnPrepare' = VnWork("layout", vnPrepare.lock, vnPrepare.todo \ {a}, VnNoFiles)
      /\ vnDirs' = CASE VnFresh(a) -> vnDirs
                     [] ~VnFresh(a) /\ a.from = "hex" -> VnDrop(vnDirs, {a.name})
                     [] OTHER -> VnPut(vnDirs, a.name, [package |-> a, is |-> vnArchives[a]])
      /\ vnNext' = IF a.from = "git" \/ VnFresh(a) THEN VnPut(vnNext, a.name, a) ELSE vnNext
      /\ UNCHANGED <<vnOpen, vnLock, vnArchives, vnInventory, vnSync, vnRaced, vnChanges,
                     vnCache, vnState, vnGood, vnTorn>>
  BY DEF VnLayOut, VnPrepareStep, VnSameWorld, VnSameStore
<1>2. /\ vnPrepare'.at = "layout" /\ vnPrepare'.lock = vnPrepare.lock
      /\ vnPrepare'.todo = vnPrepare.todo \ {a}
  BY <1>1, VnWorkIs
<1>3. /\ a \in vnPrepare.lock /\ a.from \in {"hex", "git"}
      /\ \A b \in vnPrepare.lock : b.name = a.name => b = a
      /\ \A n \in DOMAIN vnState : vnState[n].name = n
      /\ \A n \in DOMAIN vnNext : vnNext[n].name = n
  BY <1>1, VnAssumption DEF VnIInv, VnIsTyped, VnIsLock
<1>4. VnThrough' = VnThrough \cup {a} /\ a \notin VnThrough /\ VnThrough \subseteq vnPrepare.lock
  BY <1>1, <1>2, <1>3 DEF VnThrough
<1>5. \A n \in DOMAIN vnNext' : vnNext'[n].name = n
  BY <1>1, <1>3 DEF VnPut
<1>6. VnIsTyped'
  BY <1>1, <1>2, <1>5 DEF VnIInv, VnIsTyped, VnIsLock
<1>7. VnSumsAreGood' /\ VnGoodIsComplete'
  BY <1>1, VnStoreStays
<1>8. VnFindsGood'
  BY <1>1, <1>2 DEF VnIInv, VnFindsGood
<1>9. \A n : n # a.name => (n \in DOMAIN vnDirs' <=> n \in DOMAIN vnDirs)
                           /\ (n \in DOMAIN vnDirs => vnDirs'[n] = vnDirs[n])
  <2>1. CASE VnFresh(a)
    BY <1>1, <2>1
  <2>2. CASE ~VnFresh(a) /\ a.from = "hex"
    BY <1>1, <2>2 DEF VnDrop
  <2>3. CASE ~VnFresh(a) /\ a.from = "git"
    BY <1>1, <2>3 DEF VnPut
  <2>. QED
    BY <1>3, <2>1, <2>2, <2>3
<1>10. VnRecordHolds'
  BY <1>1, <1>4, <1>9 DEF VnIInv, VnRecordHolds
<1>11. VnLayoutHolds'
  <2>. SUFFICES ASSUME ~vnRaced, ~vnTorn
                PROVE  /\ \A n \in DOMAIN vnNext' : \E b \in VnThrough' : b.name = n
                       /\ VnIsLaidOut(VnThrough, vnNext)'
    BY <1>1, <1>2 DEF VnLayoutHolds
  <2>1. /\ \A n \in DOMAIN vnNext : \E b \in VnThrough : b.name = n
        /\ VnIsLaidOut(VnThrough, vnNext)
    BY <1>1 DEF VnIInv, VnLayoutHolds
  <2>2. a.name \notin DOMAIN vnNext
    BY <1>3, <1>4, <2>1
  <2>3. \A n \in DOMAIN vnNext' : n \in DOMAIN vnNext \/ n = a.name
    BY <1>1 DEF VnPut
  <2>4. \A n : n # a.name => (n \in DOMAIN vnNext' <=> n \in DOMAIN vnNext)
                            /\ (n \in DOMAIN vnNext => vnNext'[n] = vnNext[n])
    BY <1>1 DEF VnPut
  <2>5. IF a.name \in DOMAIN vnNext'
        THEN vnNext'[a.name] = a /\ a.name \in DOMAIN vnDirs' /\ VnHolds(vnDirs'[a.name], a)
        ELSE a.from = "hex"
    <3>1. CASE VnFresh(a)
      <4>1. /\ a.name \in DOMAIN vnDirs /\ a.name \in DOMAIN vnState
            /\ vnState[a.name].version = a.version
            /\ a.from = "git" => vnState[a.name] = a
        BY <3>1 DEF VnFresh
      <4>2. VnHolds(vnDirs[a.name], vnState[a.name])
        BY <1>3, <1>4, <4>1 DEF VnIInv, VnRecordHolds
      <4>3. VnHolds(vnDirs[a.name], a)
        BY <4>1, <4>2 DEF VnHolds
      <4>4. vnDirs' = vnDirs /\ vnNext' = VnPut(vnNext, a.name, a)
        BY <1>1, <3>1
      <4>. QED
        BY <4>1, <4>3, <4>4 DEF VnPut
    <3>2. CASE ~VnFresh(a) /\ a.from = "hex"
      BY <1>1, <2>2, <3>2
    <3>3. CASE ~VnFresh(a) /\ a.from = "git"
      <4>1. vnArchives[a] = "good"
        BY <1>1, <1>3, <3>3 DEF VnIInv, VnFindsGood
      <4>2. /\ vnDirs' = VnPut(vnDirs, a.name, [package |-> a, is |-> vnArchives[a]])
            /\ vnNext' = VnPut(vnNext, a.name, a)
        BY <1>1, <3>3
      <4>. QED
        BY <4>1, <4>2 DEF VnPut, VnHolds
    <3>. QED
      BY <1>3, <3>1, <3>2, <3>3
  <2>6. ASSUME NEW b \in VnThrough
        PROVE  IF b.name \in DOMAIN vnNext'
               THEN vnNext'[b.name] = b /\ b.name \in DOMAIN vnDirs' /\ VnHolds(vnDirs'[b.name], b)
               ELSE b.from = "hex"
    <3>1. b.name # a.name
      BY <1>3, <1>4
    <3>. QED
      BY <1>9, <2>1, <2>4, <3>1 DEF VnIsLaidOut
  <2>7. \A n \in DOMAIN vnNext' : \E b \in VnThrough' : b.name = n
    BY <1>4, <2>1, <2>3
  <2>. QED
    BY <1>4, <2>5, <2>6, <2>7 DEF VnIsLaidOut
<1>. QED
  BY <1>6, <1>7, <1>8, <1>10, <1>11 DEF VnIInv

LEMMA VnRecordKeeps == ASSUME VnIInv, VnRecord PROVE VnIInv'
<1>1. /\ vnPrepare.at = "layout" /\ vnPrepare.todo = {} /\ vnState' = vnNext
      /\ vnPrepare' = VnWork("gleam", vnPrepare.lock, {}, VnNoFiles)
      /\ UNCHANGED <<vnOpen, vnLock, vnArchives, vnInventory, vnSync, vnRaced, vnChanges,
                     vnCache, vnDirs, vnNext, vnGood, vnTorn>>
  BY DEF VnRecord, VnPrepareStep, VnSameWorld, VnSameStore
<1>2. /\ vnPrepare'.at = "gleam" /\ vnPrepare'.lock = vnPrepare.lock /\ vnPrepare'.todo = {}
  BY <1>1, VnWorkIs
<1>3. VnIsTyped'
  BY <1>1, <1>2 DEF VnIInv, VnIsTyped, VnIsLock
<1>4. VnSumsAreGood' /\ VnGoodIsComplete'
  BY <1>1, VnStoreStays
<1>5. VnFindsGood'
  BY <1>1, <1>2 DEF VnIInv, VnFindsGood
<1>6. VnThrough = vnPrepare.lock /\ VnThrough' = {}
  BY <1>1, <1>2 DEF VnThrough
<1>7. ~vnRaced /\ ~vnTorn =>
         /\ \A n \in DOMAIN vnNext : \E a \in vnPrepare.lock : a.name = n
         /\ VnIsLaidOut(vnPrepare.lock, vnNext)
  BY <1>1, <1>6 DEF VnIInv, VnLayoutHolds
<1>8. VnRecordHolds'
  BY <1>1, <1>6, <1>7 DEF VnRecordHolds, VnIsLaidOut
<1>9. VnLayoutHolds'
  BY <1>1, <1>2, <1>6, <1>7 DEF VnLayoutHolds, VnIsLaidOut
<1>. QED
  BY <1>3, <1>4, <1>5, <1>8, <1>9 DEF VnIInv

LEMMA VnGleamUnpacksKeeps == ASSUME VnIInv, VnGleamUnpacks PROVE VnIInv'
<1>. DEFINE missing == {a \in vnPrepare.lock : a.name \notin DOMAIN vnState}
<1>1. /\ vnPrepare.at = "gleam" /\ \A a \in missing : a \in DOMAIN vnCache
      /\ vnDirs' = [n \in DOMAIN vnDirs \cup {a.name : a \in missing} |->
            LET as == {a \in missing : a.name = n}
            IN  IF as = {} THEN vnDirs[n]
                ELSE LET a == CHOOSE x \in as : TRUE IN [package |-> a, is |-> vnCache[a]]]
      /\ vnState' = [n \in {a.name : a \in vnPrepare.lock} |->
                        CHOOSE a \in vnPrepare.lock : a.name = n]
      /\ vnPrepare' = VnWork("built", vnPrepare.lock, {}, VnNoFiles)
      /\ UNCHANGED <<vnOpen, vnLock, vnArchives, vnInventory, vnSync, vnRaced, vnChanges,
                     vnCache, vnNext, vnGood, vnTorn>>
  BY DEF VnGleamUnpacks, VnPrepareStep, VnSameWorld, VnSameStore
<1>2. /\ vnPrepare'.at = "built" /\ vnPrepare'.lock = vnPrepare.lock /\ vnPrepare'.todo = {}
  BY <1>1, VnWorkIs
<1>3. \A a, b \in vnPrepare.lock : a.name = b.name => a = b
  BY DEF VnIInv, VnIsTyped, VnIsLock
<1>4. /\ DOMAIN vnState' = {a.name : a \in vnPrepare.lock}
      /\ \A a \in vnPrepare.lock : vnState'[a.name] = a
  BY <1>1, <1>3
<1>5. /\ \A a \in missing : /\ a.name \in DOMAIN vnDirs'
                             /\ vnDirs'[a.name] = [package |-> a, is |-> vnCache[a]]
      /\ \A a \in vnPrepare.lock : a \notin missing /\ a.name \in DOMAIN vnDirs =>
            a.name \in DOMAIN vnDirs' /\ vnDirs'[a.name] = vnDirs[a.name]
  <2>1. \A a \in missing : {b \in missing : b.name = a.name} = {a}
    BY <1>3
  <2>2. \A a \in vnPrepare.lock : a \notin missing => {b \in missing : b.name = a.name} = {}
    BY <1>3
  <2>3. \A a : (CHOOSE x \in {a} : TRUE) = a
    OBVIOUS
  <2>4. \A a \in missing : a.name \in DOMAIN vnDirs \cup {b.name : b \in missing}
    OBVIOUS
  <2>. HIDE DEF missing
  <2>5. ASSUME NEW a \in missing
        PROVE  /\ a.name \in DOMAIN vnDirs'
               /\ vnDirs'[a.name] = [package |-> a, is |-> vnCache[a]]
    <3>1. {b \in missing : b.name = a.name} = {a} /\ {a} # {}
      BY <2>1
    <3>. QED
      BY <1>1, <2>3, <2>4, <3>1
  <2>6. ASSUME NEW a \in vnPrepare.lock, a \notin missing, a.name \in DOMAIN vnDirs
        PROVE  a.name \in DOMAIN vnDirs' /\ vnDirs'[a.name] = vnDirs[a.name]
    <3>1. {b \in missing : b.name = a.name} = {}
      BY <2>2, <2>6
    <3>. QED
      BY <1>1, <2>6, <3>1
  <2>. QED
    BY <2>5, <2>6
<1>6. ~vnRaced /\ ~vnTorn => \A a \in vnPrepare.lock :
         a.name \in DOMAIN vnDirs' /\ VnHolds(vnDirs'[a.name], a)
  <2>. SUFFICES ASSUME ~vnRaced, ~vnTorn, NEW a \in vnPrepare.lock
                PROVE  a.name \in DOMAIN vnDirs' /\ VnHolds(vnDirs'[a.name], a)
    OBVIOUS
  <2>1. VnIsLaidOut(vnPrepare.lock, vnState)
    BY <1>1 DEF VnIInv, VnLayoutHolds
  <2>2. CASE a \in missing
    <3>1. a.from = "hex" /\ a \in DOMAIN vnCache
      BY <1>1, <2>1, <2>2 DEF VnIsLaidOut
    <3>2. vnCache[a] = "good"
      BY <1>1, <3>1 DEF VnIInv, VnFindsGood, VnAt
    <3>3. a.name \in DOMAIN vnDirs' /\ vnDirs'[a.name] = [package |-> a, is |-> "good"]
      BY <1>5, <2>2, <3>2
    <3>. QED
      BY <3>1, <3>3 DEF VnHolds
  <2>3. CASE a \notin missing
    BY <1>5, <2>1, <2>3 DEF VnIsLaidOut
  <2>. QED
    BY <2>2, <2>3
<1>. HIDE DEF missing
<1>7. VnIsTyped'
  BY <1>1, <1>2, <1>4 DEF VnIInv, VnIsTyped, VnIsLock
<1>8. VnSumsAreGood' /\ VnGoodIsComplete'
  BY <1>1, VnStoreStays
<1>9. VnFindsGood'
  BY <1>2 DEF VnFindsGood
<1>10. VnRecordHolds'
  <2>1. \A n \in DOMAIN vnState' : \E a \in vnPrepare.lock : a.name = n /\ vnState'[n] = a
    BY <1>4
  <2>. QED
    BY <1>1, <1>6, <2>1 DEF VnRecordHolds
<1>11. VnLayoutHolds'
  BY <1>1, <1>2, <1>6 DEF VnLayoutHolds
<1>. QED
  BY <1>7, <1>8, <1>9, <1>10, <1>11 DEF VnIInv

(* It ends, well or not: what has been laid out in part is not the record's. *)
LEMMA VnPrepareEndsKeep ==
    ASSUME VnIInv, vnPrepare' = VnIdle, vnChanges' \in 0..VnMaxChanges,
           UNCHANGED <<vnOpen, vnLock, vnArchives, vnInventory, vnSync, vnRaced, vnCache,
                       vnDirs, vnState, vnNext, vnGood>>,
           ~vnTorn' => ~vnTorn /\ VnThrough = {}
    PROVE  VnIInv'
<1>1. VnIsTyped'
  BY VnIdleIs DEF VnIInv, VnIsTyped, VnIsLock
<1>2. VnSumsAreGood' /\ VnGoodIsComplete'
  BY VnStoreStays
<1>3. VnFindsGood' /\ VnLayoutHolds' /\ VnThrough' = {}
  BY VnIdleIs DEF VnFindsGood, VnLayoutHolds, VnThrough
<1>4. VnRecordHolds'
  BY <1>3 DEF VnIInv, VnRecordHolds
<1>. QED
  BY <1>1, <1>2, <1>3, <1>4 DEF VnIInv

LEMMA VnInitEstablishes == ASSUME VnInit PROVE VnIInv
<1>. USE DEF VnInit
<1>1. VnIsTyped
  BY VnIdleIs, VnAssumption DEF VnIsTyped, VnIsLock
<1>2. VnSumsAreGood
  BY VnIdleIs DEF VnSumsAreGood, VnNoInventory
<1>3. VnGoodIsComplete /\ VnFindsGood /\ VnRecordHolds /\ VnLayoutHolds
  BY VnIdleIs DEF VnGoodIsComplete, VnFindsGood, VnRecordHolds, VnLayoutHolds, VnThrough
<1>. QED
  BY <1>1, <1>2, <1>3 DEF VnIInv

LEMMA VnNextKeeps == ASSUME VnIInv, [VnNext]_vnVars PROVE VnIInv'
<1>0. vnChanges \in 0..VnMaxChanges /\ VnMaxChanges \in Nat
  BY VnAssumption DEF VnIInv, VnIsTyped
<1>1. CASE VnEnter
  BY <1>1, VnEnterKeeps
<1>2. CASE \E l \in VnLocks : VnRelock(l)
  BY <1>2, VnRelockKeeps
<1>3. CASE \E a \in VnPackages : VnDamageArchive(a)
  BY <1>3, VnDamageArchiveKeeps
<1>4. CASE \E a \in VnPackages : VnDamageCache(a)
  BY <1>4, VnDamageCacheKeeps
<1>5. CASE VnSyncBegin
  BY <1>5, VnSyncBeginKeeps
<1>6. CASE \E a \in VnPackages : VnFetch(a)
  BY <1>6, VnFetchKeeps
<1>7. CASE VnWriteInventory
  BY <1>7, VnWriteInventoryKeeps
<1>8. CASE \E a \in VnPackages : VnPrune(a)
  BY <1>8, VnPruneKeeps
<1>9. CASE VnSyncEnd
  BY <1>0, <1>9, VnSyncEndsKeep DEF VnSyncEnd, VnSameSync, VnSameProject
<1>10. CASE VnSyncStops
  BY <1>0, <1>10, VnSyncEndsKeep DEF VnSyncStops, VnSameProject
<1>11. CASE VnCheck
  BY <1>11, VnCheckKeeps
<1>12. CASE \E a \in VnPackages : VnHydrate(a)
  BY <1>12, VnHydrateKeeps
<1>13. CASE VnHydrated
  BY <1>13, VnHydratedKeeps
<1>14. CASE \E a \in VnPackages : VnLayOut(a)
  BY <1>14, VnLayOutKeeps
<1>15. CASE VnRecord
  BY <1>15, VnRecordKeeps
<1>16. CASE VnGleamUnpacks
  BY <1>16, VnGleamUnpacksKeeps
<1>17. CASE VnPrepareEnd
  <2>1. VnThrough = {}
    BY <1>17 DEF VnPrepareEnd, VnThrough
  <2>. QED
    BY <1>0, <1>17, <2>1, VnPrepareEndsKeep DEF VnPrepareEnd, VnSameStore
<1>18. CASE VnPrepareStops
  <2>1. ~vnTorn' => ~vnTorn /\ VnThrough = {}
    BY <1>18 DEF VnPrepareStops, VnThrough
  <2>. QED
    BY <1>0, <1>18, <2>1, VnPrepareEndsKeep DEF VnPrepareStops, VnSameStore
<1>19. CASE UNCHANGED vnVars
  <2>1. UNCHANGED <<vnOpen, vnLock, vnArchives, vnInventory, vnSync, vnCache, vnPrepare,
                    vnDirs, vnState, vnNext, vnGood, vnTorn, vnRaced, vnChanges>>
    BY <1>19 DEF vnVars
  <2>2. VnIsTyped' /\ VnFindsGood'
    BY <2>1 DEF VnIInv, VnIsTyped, VnIsLock, VnFindsGood
  <2>. QED
    BY <2>1, <2>2, VnStoreStays, VnLayoutStays DEF VnIInv
<1>. QED
  BY <1>1, <1>2, <1>3, <1>4, <1>5, <1>6, <1>7, <1>8, <1>9, <1>10, <1>11, <1>12, <1>13,
     <1>14, <1>15, <1>16, <1>17, <1>18, <1>19 DEF VnNext

LEMMA VnAlways == VnSpec => []VnIInv
BY VnInitEstablishes, VnNextKeeps, PTL DEF VnSpec

LEMMA VnIInvImpliesSafety == ASSUME VnIInv PROVE VnTypeOK /\ VnSafety
<1>1. VnTypeOK
  BY DEF VnIInv, VnIsTyped, VnIsLock, VnTypeOK
<1>2. VnBuildsWhatIsLocked
  BY DEF VnIInv, VnLayoutHolds, VnHolds, VnBuildsWhatIsLocked
<1>3. VnCompleteStays
  BY DEF VnIInv, VnGoodIsComplete, VnCompleteStays
<1>. QED
  BY <1>1, <1>2, <1>3 DEF VnSafety

--------------------------------------------------------------------------------
(* Dependency versions. *)

(* What has been read, and what of it counts. *)
DpRead == {DpProjects[i] : i \in 1..(dpReading - 1)}
DpCounts(p) ==
    {a \in dpManifest[p].packages : dpManifest[p].state = "read" /\ ~DpSkips(a)}
DpLocalsFit(p) == \A a \in DpCounts(p) : a.source = "local" => DpLocalIssue(a) = "none"

DpIsTyped ==
    /\ dpAt \in {"idle", "read", "done"} /\ dpConfig \in DpConfigs \cup {DpNone}
    /\ dpReading \in 1..(Len(DpProjects) + 1) /\ dpExit \in {0, 1}
    /\ dpAt # "idle" => dpManifest \in [DpAll -> DpManifests]
    /\ dpAt = "idle" => dpReading = 1
    /\ dpAt = "done" => dpReading = Len(DpProjects) + 1

(* The groups are those of what has been read, *)
DpGroupsAreOfTheRead ==
    /\ \A k \in DOMAIN dpGroups : IsFiniteSet(dpGroups[k])
    /\ \A p \in DpRead : \A a \in DpCounts(p) :
          DpKey(a) \in DOMAIN dpGroups /\ DpResolution(a) \in dpGroups[DpKey(a)]
    /\ \A k \in DOMAIN dpGroups : \A r \in dpGroups[k] :
          \E p \in DpRead : \E a \in DpCounts(p) : DpKey(a) = k /\ DpResolution(a) = r

(* and so are the issues. *)
DpIssuesAreOfTheRead ==
    dpIssues = {} <=> \A p \in DpRead : dpManifest[p].state = "read" /\ DpLocalsFit(p)

DpExitTells == dpAt = "done" => (dpExit = 0 <=> DpIsSuccess /\ dpConfig.vendor # "bad")

DpIInv == DpIsTyped /\ DpGroupsAreOfTheRead /\ DpIssuesAreOfTheRead /\ DpExitTells

--------------------------------------------------------------------------------
LEMMA DpLengthIs == Len(DpProjects) \in Nat
<1>. DEFINE S == {DpProjects[i] : i \in 1..Len(DpProjects)}
<1>1. DpProjects \in Seq(S)
  BY DpAssumption
<1>. HIDE DEF S
<1>. QED
  BY <1>1

LEMMA DpInitEstablishes == ASSUME DpInit PROVE DpIInv
<1>. USE DEF DpInit
<1>1. Len(DpProjects) \in Nat
  BY DpLengthIs
<1>2. DpIsTyped
  BY <1>1 DEF DpIsTyped
<1>3. DpRead = {}
  BY DEF DpRead
<1>4. DpGroupsAreOfTheRead /\ DpIssuesAreOfTheRead /\ DpExitTells
  BY <1>3 DEF DpGroupsAreOfTheRead, DpIssuesAreOfTheRead, DpExitTells
<1>. QED
  BY <1>2, <1>4 DEF DpIInv

LEMMA DpBeginKeeps == ASSUME DpIInv, DpBegin PROVE DpIInv'
<1>1. /\ dpAt' = "read" /\ dpConfig' \in DpConfigs /\ dpManifest' \in [DpAll -> DpManifests]
      /\ UNCHANGED <<dpReading, dpGroups, dpIssues, dpExit>> /\ dpReading = 1
  BY DEF DpBegin, DpIInv, DpIsTyped
<1>2. DpRead = {} /\ DpRead' = {}
  BY <1>1 DEF DpRead
<1>3. DpIsTyped'
  BY <1>1 DEF DpIInv, DpIsTyped
<1>4. DpGroupsAreOfTheRead'
  BY <1>1, <1>2 DEF DpIInv, DpGroupsAreOfTheRead
<1>5. DpIssuesAreOfTheRead' /\ DpExitTells'
  BY <1>1, <1>2 DEF DpIInv, DpIssuesAreOfTheRead, DpExitTells
<1>. QED
  BY <1>3, <1>4, <1>5 DEF DpIInv

(* A manifest that is read adds the packages of its project that count. *)
LEMMA DpReadManifestKeeps == ASSUME DpIInv, DpReadManifest PROVE DpIInv'
<1>. DEFINE p == DpProjects[dpReading]
            as == DpCounts(p)
<1>1. /\ dpAt = "read" /\ dpReading <= Len(DpProjects) /\ dpReading' = dpReading + 1
      /\ UNCHANGED <<dpAt, dpConfig, dpManifest, dpExit>>
      /\ dpReading \in Nat /\ dpReading >= 1 /\ Len(DpProjects) \in Nat
  BY DpLengthIs DEF DpReadManifest, DpIInv, DpIsTyped
<1>2. p \in DpAll /\ dpManifest[p] \in DpManifests
  BY <1>1 DEF DpAll, DpIndex, DpIInv, DpIsTyped
<1>3. as = IF dpManifest[p].state = "read" THEN {a \in dpManifest[p].packages : ~DpSkips(a)} ELSE {}
  BY DEF DpCounts
<1>4. /\ dpGroups' = DpAdd(dpGroups, as)
      /\ dpIssues' = dpIssues \cup
            (IF dpManifest[p].state = "read" THEN {} ELSE {<<p, dpManifest[p].state>>}) \cup
            {<<p, DpLocalIssue(a)>> :
                a \in {b \in as : b.source = "local" /\ DpLocalIssue(b) # "none"}}
  BY <1>3 DEF DpReadManifest
<1>5. DpRead' = DpRead \cup {p}
  BY <1>1 DEF DpRead
<1>6. \A q : DpCounts(q)' = DpCounts(q) /\ DpLocalsFit(q)' = DpLocalsFit(q)
  BY <1>1 DEF DpCounts, DpLocalsFit, DpSkips
<1>7. IsFiniteSet(as)
  <2>1. IsFiniteSet(dpManifest[p].packages) /\ as \subseteq dpManifest[p].packages
    BY <1>2, DpAssumption DEF DpCounts
  <2>. QED
    BY <2>1, FS_Subset
<1>. HIDE DEF p, as
<1>8. DpIsTyped'
  BY <1>1 DEF DpIInv, DpIsTyped
<1>9. DpGroupsAreOfTheRead'
  <2>. DEFINE Old(k) == IF k \in DOMAIN dpGroups THEN dpGroups[k] ELSE {}
              Of(k) == {b \in as : DpKey(b) = k}
              New(k) == {DpResolution(a) : a \in Of(k)}
  <2>1. /\ DOMAIN dpGroups' = DOMAIN dpGroups \cup {DpKey(a) : a \in as}
        /\ \A k \in DOMAIN dpGroups' : dpGroups'[k] = Old(k) \cup New(k)
    BY <1>4 DEF DpAdd
  <2>2. ASSUME NEW k \in DOMAIN dpGroups' PROVE IsFiniteSet(dpGroups'[k])
    <3>1. IsFiniteSet(Old(k))
      BY FS_EmptySet DEF DpIInv, DpGroupsAreOfTheRead
    <3>2. IsFiniteSet(Of(k))
      BY <1>7, FS_Subset
    <3>3. IsFiniteSet(New(k))
      <4>. DEFINE f == [a \in Of(k) |-> DpResolution(a)]
      <4>1. f \in Surjection(Of(k), New(k))
        BY DEF Surjection
      <4>. HIDE DEF f, Of, New
      <4>. QED
        BY <3>2, <4>1, FS_Surjection
    <3>4. IsFiniteSet(Old(k) \cup New(k))
      <4>. HIDE DEF Old, New
      <4>. QED
        BY <3>1, <3>3, FS_Union
    <3>. HIDE DEF Old, New
    <3>. QED
      BY <2>1, <3>4
  <2>3. ASSUME NEW q \in DpRead', NEW a \in DpCounts(q)
        PROVE  DpKey(a) \in DOMAIN dpGroups' /\ DpResolution(a) \in dpGroups'[DpKey(a)]
    <3>1. CASE q \in DpRead
      BY <2>1, <3>1 DEF DpIInv, DpGroupsAreOfTheRead
    <3>2. CASE q = p
      BY <2>1, <3>2 DEF as
    <3>. QED
      BY <1>5, <3>1, <3>2
  <2>4. ASSUME NEW k \in DOMAIN dpGroups', NEW r \in dpGroups'[k]
        PROVE  \E q \in DpRead' : \E a \in DpCounts(q) : DpKey(a) = k /\ DpResolution(a) = r
    <3>1. CASE r \in New(k)
      BY <1>5, <3>1 DEF as
    <3>2. CASE r \in Old(k)
      BY <1>5, <3>2 DEF DpIInv, DpGroupsAreOfTheRead
    <3>. QED
      BY <2>1, <3>1, <3>2
  <2>. HIDE DEF Old, Of, New
  <2>. QED
    BY <1>6, <2>2, <2>3, <2>4 DEF DpGroupsAreOfTheRead
<1>10. DpIssuesAreOfTheRead'
  <2>1. dpIssues' = {} <=> dpIssues = {} /\ dpManifest[p].state = "read" /\ DpLocalsFit(p)
    BY <1>4 DEF DpLocalsFit, as
  <2>. QED
    BY <1>1, <1>5, <1>6, <2>1 DEF DpIInv, DpIssuesAreOfTheRead
<1>11. DpExitTells'
  BY <1>1 DEF DpExitTells
<1>. QED
  BY <1>8, <1>9, <1>10, <1>11 DEF DpIInv

LEMMA DpFinishKeeps == ASSUME DpIInv, DpFinish PROVE DpIInv'
<1>1. /\ dpAt = "read" /\ dpReading > Len(DpProjects) /\ dpAt' = "done"
      /\ dpExit' = IF DpIsSuccess /\ dpConfig.vendor # "bad" THEN 0 ELSE 1
      /\ UNCHANGED <<dpConfig, dpManifest, dpReading, dpGroups, dpIssues>>
      /\ Len(DpProjects) \in Nat
  BY DpLengthIs DEF DpFinish
<1>2. DpIsTyped'
  BY <1>1 DEF DpIInv, DpIsTyped
<1>3. DpGroupsAreOfTheRead'
  BY <1>1 DEF DpIInv, DpGroupsAreOfTheRead, DpRead, DpCounts, DpSkips
<1>4. DpIssuesAreOfTheRead'
  BY <1>1 DEF DpIInv, DpIssuesAreOfTheRead, DpRead, DpLocalsFit, DpCounts, DpSkips
<1>5. DpExitTells'
  <2>1. DpIsSuccess' = DpIsSuccess
    BY <1>1 DEF DpIsSuccess, DpMismatches
  <2>. QED
    BY <1>1, <2>1 DEF DpExitTells
<1>. QED
  BY <1>2, <1>3, <1>4, <1>5 DEF DpIInv

LEMMA DpNextKeeps == ASSUME DpIInv, [DpNext]_dpVars PROVE DpIInv'
<1>1. CASE UNCHANGED dpVars
  <2>1. UNCHANGED <<dpAt, dpConfig, dpManifest, dpReading, dpGroups, dpIssues, dpExit>>
    BY <1>1 DEF dpVars
  <2>2. DpIsTyped' /\ DpExitTells'
    BY <2>1 DEF DpIInv, DpIsTyped, DpExitTells, DpIsSuccess, DpMismatches
  <2>3. DpGroupsAreOfTheRead' /\ DpIssuesAreOfTheRead'
    BY <2>1 DEF DpIInv, DpGroupsAreOfTheRead, DpIssuesAreOfTheRead, DpRead, DpLocalsFit,
                DpCounts, DpSkips
  <2>. QED
    BY <2>2, <2>3 DEF DpIInv
<1>. QED
  BY <1>1, DpBeginKeeps, DpReadManifestKeeps, DpFinishKeeps DEF DpNext

LEMMA DpAlways == DpSpec => []DpIInv
BY DpInitEstablishes, DpNextKeeps, PTL DEF DpSpec

(* Two members are more than one, *)
LEMMA DpMoreThanOne ==
    ASSUME NEW S, IsFiniteSet(S)
    PROVE  Cardinality(S) > 1 <=> \E x, y \in S : x # y
<1>1. Cardinality(S) \in Nat
  BY FS_CardinalityType
<1>2. ASSUME NEW x \in S, NEW y \in S, x # y PROVE Cardinality(S) > 1
  <2>1. Cardinality(S) # 0
    BY FS_EmptySet
  <2>2. Cardinality(S) # 1
    BY <1>2, FS_Singleton
  <2>. QED
    BY <1>1, <2>1, <2>2
<1>3. ASSUME ~(\E x, y \in S : x # y) PROVE ~(Cardinality(S) > 1)
  <2>1. CASE S = {}
    BY <2>1, FS_EmptySet
  <2>2. CASE S # {}
    <3>1. \E x : S = {x}
      BY <1>3, <2>2
    <3>. QED
      BY <3>1, FS_Singleton
  <2>. QED
    BY <2>1, <2>2
<1>. QED
  BY <1>2, <1>3

(* and a local package that has no issue is the one declared. *)
LEMMA DpNoLocalIssue ==
    ASSUME NEW m \in DpManifests, NEW a \in m.packages
    PROVE  DpLocalIssue(a) = "none" <=>
              /\ a.at # "nowhere"
              /\ DpDeclared[a.at] = [state |-> "read", name |-> a.name, version |-> a.version]
<1>1. a.version # "" /\ a.at \in {"nowhere"} \cup DOMAIN DpDeclared
  BY DpAssumption
<1>2. CASE a.at = "nowhere"
  BY <1>2 DEF DpLocalIssue
<1>3. CASE a.at # "nowhere"
  <2>. DEFINE d == DpDeclared[a.at]
  <2>1. /\ d.state \in {"dangling", "outside", "no gleam.toml", "broken", "read"}
        /\ d = [state |-> d.state, name |-> d.name, version |-> d.version]
    BY <1>1, <1>3, DpAssumption
  <2>2. DpLocalIssue(a) =
          CASE d.state \in {"dangling", "outside", "no gleam.toml", "broken"} -> d.state
            [] d.state = "read" /\ d.name # a.name -> "another name"
            [] d.state = "read" /\ d.name = a.name /\ d.version = "" -> "no version"
            [] d.state = "read" /\ d.name = a.name /\ d.version \notin {"", a.version} ->
                 "another version"
            [] OTHER -> "none"
    BY <1>3 DEF DpLocalIssue
  <2>. HIDE DEF d
  <2>3. DpLocalIssue(a) = "none" <=>
           d.state = "read" /\ d.name = a.name /\ d.version = a.version
    <3>1. CASE d.state # "read"
      BY <2>1, <2>2, <3>1
    <3>2. CASE d.state = "read" /\ d.name # a.name
      BY <2>2, <3>2
    <3>3. CASE d.state = "read" /\ d.name = a.name /\ d.version = ""
      BY <1>1, <2>2, <3>3
    <3>4. CASE d.state = "read" /\ d.name = a.name /\ d.version # ""
      BY <1>1, <2>2, <3>4
    <3>. QED
      BY <3>1, <3>2, <3>3, <3>4
  <2>4. d = [state |-> "read", name |-> a.name, version |-> a.version] <=>
           d.state = "read" /\ d.name = a.name /\ d.version = a.version
    <3>1. ASSUME d = [state |-> "read", name |-> a.name, version |-> a.version]
          PROVE  d.state = "read" /\ d.name = a.name /\ d.version = a.version
      BY <3>1
    <3>2. ASSUME d.state = "read", d.name = a.name, d.version = a.version
          PROVE  d = [state |-> "read", name |-> a.name, version |-> a.version]
      BY <2>1, <3>2, Zenon
    <3>. QED
      BY <3>1, <3>2
  <2>. QED
    BY <1>3, <2>3, <2>4 DEF d
<1>. QED
  BY <1>2, <1>3

LEMMA DpIInvImpliesSafety == ASSUME DpIInv PROVE DpTypeOK /\ DpSafety
<1>1. DpTypeOK
  BY DEF DpIInv, DpIsTyped, DpTypeOK
<1>2. ASSUME dpAt = "done" PROVE DpIsSuccess <=> DpAgrees
  <2>1. /\ dpManifest \in [DpAll -> DpManifests] /\ DpRead = DpAll
    <3>1. dpReading - 1 = Len(DpProjects)
      BY <1>2, DpLengthIs DEF DpIInv, DpIsTyped
    <3>. QED
      BY <1>2, <3>1 DEF DpIInv, DpIsTyped, DpRead, DpAll, DpIndex
  <2>2. \A p \in DpAll : dpManifest[p].state = "read" =>
           \A a \in dpManifest[p].packages : a \in DpCounts(p) <=> <<p, a>> \in DpCounted
    BY <2>1 DEF DpCounts, DpCounted, DpSkips
  <2>3. \A x \in DpCounted : /\ x[1] \in DpAll /\ x[2] \in dpManifest[x[1]].packages
                             /\ x = <<x[1], x[2]>>
    BY DEF DpCounted
  <2>4. ASSUME \A p \in DpAll : dpManifest[p].state = "read"
        PROVE  /\ \A x \in DpCounted : x[1] \in DpAll /\ x[2] \in DpCounts(x[1])
               /\ \A p \in DpAll : \A a \in DpCounts(p) : <<p, a>> \in DpCounted
    BY <2>2, <2>3, <2>4 DEF DpCounts
  <2>5. ASSUME \A p \in DpAll : dpManifest[p].state = "read"
        PROVE  (\A p \in DpAll : DpLocalsFit(p)) <=>
                  \A x \in DpCounted : x[2].source = "local" =>
                     /\ x[2].at # "nowhere"
                     /\ DpDeclared[x[2].at] =
                           [state |-> "read", name |-> x[2].name, version |-> x[2].version]
    <3>1. \A p \in DpAll : \A a \in dpManifest[p].packages :
             DpLocalIssue(a) = "none" <=>
                /\ a.at # "nowhere"
                /\ DpDeclared[a.at] = [state |-> "read", name |-> a.name, version |-> a.version]
      BY <2>1, DpNoLocalIssue
    <3>2. ASSUME \A p \in DpAll : DpLocalsFit(p), NEW x \in DpCounted, x[2].source = "local"
          PROVE  /\ x[2].at # "nowhere"
                 /\ DpDeclared[x[2].at] =
                       [state |-> "read", name |-> x[2].name, version |-> x[2].version]
      <4>1. x[1] \in DpAll /\ x[2] \in DpCounts(x[1]) /\ x[2] \in dpManifest[x[1]].packages
        BY <2>3, <2>4, <2>5
      <4>2. DpLocalIssue(x[2]) = "none"
        BY <3>2, <4>1 DEF DpLocalsFit
      <4>. QED
        BY <3>1, <4>1, <4>2
    <3>3. ASSUME \A x \in DpCounted : x[2].source = "local" =>
                     /\ x[2].at # "nowhere"
                     /\ DpDeclared[x[2].at] =
                           [state |-> "read", name |-> x[2].name, version |-> x[2].version],
                 NEW p \in DpAll, NEW a \in DpCounts(p), a.source = "local"
          PROVE  DpLocalIssue(a) = "none"
      <4>1. <<p, a>> \in DpCounted /\ a \in dpManifest[p].packages
        BY <2>4, <2>5 DEF DpCounts
      <4>2. /\ a.at # "nowhere"
            /\ DpDeclared[a.at] = [state |-> "read", name |-> a.name, version |-> a.version]
        BY <3>3, <4>1
      <4>. QED
        BY <3>1, <4>1, <4>2
    <3>. QED
      BY <3>2, <3>3 DEF DpLocalsFit
  <2>6. ASSUME \A p \in DpAll : dpManifest[p].state = "read"
        PROVE  DpMismatches = {} <=>
                  \A x, y \in DpCounted : x[2].name = y[2].name /\ x[2].source = y[2].source
                                             => DpSamePackage(x[2], y[2])
    <3>1. \A a, b : a.source = b.source => (DpResolution(a) = DpResolution(b) <=> DpSamePackage(a, b))
      BY DEF DpResolution, DpSamePackage
    <3>2. \A a, b : DpKey(a) = DpKey(b) <=> a.name = b.name /\ a.source = b.source
      BY DEF DpKey
    <3>3. \A k \in DOMAIN dpGroups : k \in DpMismatches <=> \E r, s \in dpGroups[k] : r # s
      BY DpMoreThanOne DEF DpMismatches, DpIInv, DpGroupsAreOfTheRead
    <3>4. ASSUME DpMismatches = {}, NEW x \in DpCounted, NEW y \in DpCounted,
                 x[2].name = y[2].name, x[2].source = y[2].source
          PROVE  DpSamePackage(x[2], y[2])
      <4>1. x[2] \in DpCounts(x[1]) /\ y[2] \in DpCounts(y[1]) /\ x[1] \in DpRead /\ y[1] \in DpRead
        BY <2>1, <2>4, <2>6
      <4>2. DpKey(x[2]) = DpKey(y[2])
        BY <3>2, <3>4
      <4>3. /\ DpKey(x[2]) \in DOMAIN dpGroups
            /\ DpResolution(x[2]) \in dpGroups[DpKey(x[2])]
            /\ DpResolution(y[2]) \in dpGroups[DpKey(x[2])]
        BY <4>1, <4>2 DEF DpIInv, DpGroupsAreOfTheRead
      <4>4. DpResolution(x[2]) = DpResolution(y[2])
        BY <3>3, <3>4, <4>3
      <4>. QED
        BY <3>1, <3>4, <4>4
    <3>5. ASSUME \A x, y \in DpCounted : x[2].name = y[2].name /\ x[2].source = y[2].source
                                             => DpSamePackage(x[2], y[2]),
                 NEW k \in DOMAIN dpGroups, NEW r \in dpGroups[k], NEW s \in dpGroups[k]
          PROVE  r = s
      <4>1. PICK p \in DpRead : \E a \in DpCounts(p) : DpKey(a) = k /\ DpResolution(a) = r
        BY DEF DpIInv, DpGroupsAreOfTheRead
      <4>2. PICK a \in DpCounts(p) : DpKey(a) = k /\ DpResolution(a) = r
        BY <4>1
      <4>3. PICK q \in DpRead : \E b \in DpCounts(q) : DpKey(b) = k /\ DpResolution(b) = s
        BY DEF DpIInv, DpGroupsAreOfTheRead
      <4>4. PICK b \in DpCounts(q) : DpKey(b) = k /\ DpResolution(b) = s
        BY <4>3
      <4>5. <<p, a>> \in DpCounted /\ <<q, b>> \in DpCounted
        BY <2>1, <2>4, <2>6
      <4>6. a.name = b.name /\ a.source = b.source
        BY <3>2, <4>2, <4>4
      <4>7. DpSamePackage(a, b)
        BY <3>5, <4>5, <4>6
      <4>. QED
        BY <3>1, <4>2, <4>4, <4>6, <4>7
    <3>6. DpMismatches \subseteq DOMAIN dpGroups
      BY DEF DpMismatches
    <3>. QED
      BY <3>3, <3>4, <3>5, <3>6
  <2>7. dpIssues = {} <=> \A p \in DpAll : dpManifest[p].state = "read" /\ DpLocalsFit(p)
    BY <2>1 DEF DpIInv, DpIssuesAreOfTheRead
  <2>. QED
    BY <2>5, <2>6, <2>7 DEF DpIsSuccess, DpAgrees
<1>3. DpSafety
  BY <1>2 DEF DpIInv, DpExitTells, DpSafety
<1>. QED
  BY <1>1, <1>3

--------------------------------------------------------------------------------
(* The types of the four: of the stages a command goes through when it starts, of the
   edits between two revisions, of the vendored packages and of a version check. *)
THEOREM WorkspaceIsTyped ==
    WsSpec /\ KeySpec /\ VnSpec /\ DpSpec => [](WsTypeOK /\ KeyTypeOK /\ VnTypeOK /\ DpTypeOK)
<1>1. KeyIInv => KeyTypeOK
  BY DEF KeyIInv
<1>. QED
  BY <1>1, WsAlways, WsIInvImpliesSafety, KeyAlways, VnAlways, VnIInvImpliesSafety, DpAlways,
     DpIInvImpliesSafety, PTL

(* Whatever the manifests say, all the projects that can be reached are found, a
   graph is refused exactly when it has a cycle, and the order has every project after
   its dependencies. *)
THEOREM GraphIsSorted == WsSpec => []WsSafety
  BY WsAlways, WsIInvImpliesSafety, PTL

(* For any projects, files, configuration and edits: whoever `gomo affected` leaves out
   has its key of the base revision where the two walks read the same globs; an
   unchanged key means unchanged sources, of the project and of what it compiles; and
   the selection comes in an order in which it can be worked off. *)
THEOREM KeysAreCovered == KeySpec => []KeySafety
<1>1. KeyIInv => KeySafety
  BY KeyIInvImpliesCovered, KeyIInvImpliesSources, KeyIInvImpliesOrdered DEF KeySafety
<1>. QED
  BY <1>1, KeyAlways, PTL

(* Both: a run is planned over a graph, with keys and a selection that agree. *)
THEOREM PlanningIsSound == WsSpec /\ KeySpec => []PlanningSafety
<1>1. WsSafety /\ KeySafety => PlanningSafety
  BY DEF PlanningSafety
<1>. QED
  BY <1>1, GraphIsSorted, KeysAreCovered, PTL

(* Whatever is locked, vendored, cleaned or killed before, a build that nobody raced
   sees each package as it was locked, and a vendor directory that was complete stays
   so. *)
THEOREM BuildsSeeTheLock == VnSpec => []VnSafety
  BY VnAlways, VnIInvImpliesSafety, PTL

(* A check of the versions passes exactly when every project's lock could be read and
   they agree on each package that counts. *)
THEOREM ChecksAgree == DpSpec => []DpSafety
  BY DpAlways, DpIInvImpliesSafety, PTL

(* Both: what comes from outside is what the locks say. *)
THEOREM DependenciesAreLocked == VnSpec /\ DpSpec => []DependenciesSafety
<1>1. VnSafety /\ DpSafety => DependenciesSafety
  BY DEF DependenciesSafety
<1>. QED
  BY <1>1, BuildsSeeTheLock, ChecksAgree, PTL
================================================================================

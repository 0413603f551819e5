---------------------------- MODULE TaskResultProofs ----------------------------
(***************************************************************************)
(* What becomes of a task's result: a bundle that is published is one      *)
(* run's, although nobody locks the entry it is exported from, for any     *)
(* runs; and a restore of a project's output folders leaves one build, for *)
(* any number of folders and of processes that restore at once.            *)
(***************************************************************************)
EXTENDS TaskResults, FiniteSetTheorems, TLAPS

--------------------------------------------------------------------------------
(* Bundles. *)

(* Where the export is says which files it has read. *)
BunShape ==
    /\ bunAt = BunIdle <=> bunKind = BunIdle
    /\ bunAt \in {BunIdle, "hash"} => bunPacked = BunNothing
    /\ bunAt = BunIdle => bunHashed = BunNothing /\ bunReplaced = 0
    /\ bunAt = "hash" => DOMAIN bunHashed \subseteq BunFiles /\ DOMAIN bunHashed # BunFiles
    /\ bunAt \in {"pack", "send", "sent"} => DOMAIN bunHashed = BunFiles
    /\ bunAt = "pack" => DOMAIN bunPacked \subseteq BunFiles /\ DOMAIN bunPacked # BunFiles
    /\ bunAt \in {"send", "sent"} => DOMAIN bunPacked = BunFiles
    /\ bunAt # BunIdle /\ bunEntry = "gone" => bunReplaced < BunMaxReplaced
    /\ bunServer # "none" => bunAt = "sent"
    /\ bunServer = "published" => BunServerAccepts
    /\ bunImporter # BunIdle => bunServer = "published"

(* What the export can have read: nothing but the first run's files until the entry is
   replaced, those and the second run's until it is replaced again; and if meta.json is
   still the first run's when it is packed, every file was the first run's before, when
   it was hashed. *)
BunReadings ==
    /\ bunReplaced = 0 =>
         /\ bunEntry \in {bunMeta, "gone"}
         /\ \A f \in DOMAIN bunHashed : bunHashed[f] = bunMeta
         /\ \A f \in DOMAIN bunPacked : bunPacked[f] = bunMeta
    /\ bunReplaced = 1 /\ bunEntry # "gone" =>
         \A f \in DOMAIN bunHashed : bunHashed[f] \in {bunMeta, bunEntry}
    /\ bunReplaced <= 1
       /\ "meta.json" \in DOMAIN bunPacked /\ bunPacked["meta.json"] = bunMeta =>
         \A f \in DOMAIN bunHashed : bunHashed[f] = bunMeta

BunInstalledIsOneRun == \A f, g \in DOMAIN bunInstalled : bunInstalled[f] = bunInstalled[g]
BunRefusedHasReason == bunServer = "refused" => bunReplaced > 0 \/ bunBroken

BunIInv ==
    BunTypeOK /\ BunShape /\ BunReadings /\ BunInstalledIsOneRun /\ BunRefusedHasReason

(* Among the files that are left there is a first one in any order that has all. *)
LEMMA FirstOfFive ==
    ASSUME NEW order, NEW left, left # {}, Len(order) = 5,
           left \subseteq {order[1], order[2], order[3], order[4], order[5]}
    PROVE  \E f \in left : \E i \in 1..5 :
              order[i] = f /\ \A j \in 1..(i - 1) : order[j] \notin left
<1>1. CASE order[1] \in left
  <2>1. 1 \in 1..5 /\ 1..(1 - 1) = {}
    OBVIOUS
  <2>. QED
    BY <1>1, <2>1
<1>2. CASE order[1] \notin left /\ order[2] \in left
  <2>1. 2 \in 1..5 /\ \A j \in 1..(2 - 1) : j = 1
    OBVIOUS
  <2>. QED
    BY <1>2, <2>1
<1>3. CASE order[1] \notin left /\ order[2] \notin left /\ order[3] \in left
  <2>1. 3 \in 1..5 /\ \A j \in 1..(3 - 1) : j \in {1, 2}
    OBVIOUS
  <2>. QED
    BY <1>3, <2>1
<1>4. CASE /\ order[1] \notin left /\ order[2] \notin left /\ order[3] \notin left
           /\ order[4] \in left
  <2>1. 4 \in 1..5 /\ \A j \in 1..(4 - 1) : j \in {1, 2, 3}
    OBVIOUS
  <2>. QED
    BY <1>4, <2>1
<1>5. CASE /\ order[1] \notin left /\ order[2] \notin left /\ order[3] \notin left
           /\ order[4] \notin left
  <2>1. order[5] \in left
    BY <1>5
  <2>2. 5 \in 1..5 /\ \A j \in 1..(5 - 1) : j \in {1, 2, 3, 4}
    OBVIOUS
  <2>. QED
    BY <1>5, <2>1, <2>2
<1>. QED
  BY <1>1, <1>2, <1>3, <1>4, <1>5

LEMMA NextFileIsLeft ==
    ASSUME NEW order \in {BunHashOrder, BunPackOrder}, NEW done, BunFiles \ done # {}
    PROVE  BunNextOf(order, done) \in BunFiles \ done
<1>. DEFINE left == BunFiles \ done
<1>1. /\ Len(order) = 5
      /\ BunAllFiles = {order[1], order[2], order[3], order[4], order[5]}
  <2>1. CASE order = BunHashOrder
    BY <2>1 DEF BunHashOrder, BunAllFiles
  <2>2. CASE order = BunPackOrder
    BY <2>2 DEF BunPackOrder, BunAllFiles
  <2>. QED
    BY <2>1, <2>2
<1>2. left \subseteq BunAllFiles
  BY DEF BunFiles
<1>3. \E f \in left : \E i \in 1..5 : order[i] = f /\ \A j \in 1..(i - 1) : order[j] \notin left
  BY <1>1, <1>2, FirstOfFive
<1>. QED
  BY <1>1, <1>3 DEF BunNextOf

LEMMA BundlesBegin == BunInit => BunIInv
<1>. SUFFICES ASSUME BunInit
              PROVE  BunIInv
  OBVIOUS
<1>1. DOMAIN BunNothing = {}
  BY DEF BunNothing
<1>2. BunTypeOK
  <2>1. \A files \in {bunHashed, bunPacked, bunInstalled} : files = BunNothing
    BY DEF BunInit
  <2>2. \A files \in {bunHashed, bunPacked, bunInstalled} :
          DOMAIN files \subseteq BunAllFiles /\ \A f \in DOMAIN files : files[f] \in BunRuns
    BY <1>1, <2>1
  <2>3. bunReplaced \in 0..BunMaxReplaced
    BY BunAssumption DEF BunInit
  <2>. QED
    BY <2>2, <2>3 DEF BunInit, BunTypeOK
<1>3. BunShape
  BY <1>1 DEF BunInit, BunShape, BunIdle
<1>4. BunReadings /\ BunInstalledIsOneRun /\ BunRefusedHasReason
  BY <1>1 DEF BunInit, BunReadings, BunInstalledIsOneRun, BunRefusedHasReason
<1>. QED
  BY <1>2, <1>3, <1>4 DEF BunIInv

(* What the server accepts after one replacement at the most is all of one run. *)
LEMMA AcceptedIsOneRun ==
    ASSUME BunIInv, bunServer = "published", bunReplaced <= 1
    PROVE  \A f \in BunFiles : bunPacked[f] = bunMeta
<1>1. /\ DOMAIN bunPacked = BunFiles /\ DOMAIN bunHashed = BunFiles
      /\ bunPacked["meta.json"] = bunMeta
      /\ \A f \in BunFiles : bunPacked[f] = bunHashed[f]
  BY DEF BunIInv, BunShape, BunServerAccepts
<1>2. "meta.json" \in BunFiles
  BY DEF BunFiles, BunAllFiles
<1>. QED
  BY <1>1, <1>2 DEF BunIInv, BunReadings

LEMMA AcceptedIsImported ==
    ASSUME BunIInv, bunServer = "published", bunReplaced <= 1
    PROVE  BunImportAccepts
<1>1. \A f \in BunFiles : bunPacked[f] = bunMeta
  BY AcceptedIsOneRun
<1>2. /\ DOMAIN bunPacked = BunFiles /\ BunServerAccepts /\ bunKind \in BunKinds
  BY DEF BunIInv, BunShape, BunTypeOK, BunIdle
<1>3. BunExtracts
  BY <1>2 DEF BunServerAccepts, BunExtracts
<1>4. "meta.json" \in BunFiles /\ bunPacked["meta.json"] = bunMeta
  BY <1>1 DEF BunFiles, BunAllFiles
<1>5. CASE bunKind \in {"build", "test"}
  <2>1. \A f \in DOMAIN BunTaskMetadata(bunMeta) : f \in BunFiles
    BY <1>5 DEF BunTaskMetadata, BunFiles, BunHasOutputs
  <2>2. BunMatches(BunTaskMetadata(bunMeta))
    BY <1>1, <1>2, <2>1 DEF BunMatches, BunTaskMetadata
  <2>3. ("outputs.tar.zst" \in DOMAIN bunPacked) <=> (bunKind = "build")
    BY <1>2, <1>5 DEF BunFiles, BunAllFiles, BunHasOutputs
  <2>. QED
    BY <1>3, <1>4, <1>5, <2>2, <2>3 DEF BunImportAccepts, BunCompleteTask
<1>6. CASE bunKind \in {"named", "named with outputs"}
  <2>1. \A f \in DOMAIN BunNamedMetadata(bunMeta) : f \in BunFiles
    BY <1>6 DEF BunNamedMetadata, BunFiles, BunHasOutputs
  <2>2. BunMatches(BunNamedMetadata(bunMeta))
    BY <1>1, <1>2, <2>1 DEF BunMatches, BunNamedMetadata
  <2>. QED
    BY <1>3, <1>4, <1>6, <2>2 DEF BunImportAccepts, BunCompleteNamed
<1>. QED
  BY <1>2, <1>5, <1>6 DEF BunKinds

(* What a client accepts is all of one run, however often the entry was replaced. *)
LEMMA ImportedIsOneRun ==
    ASSUME BunImportAccepts, DOMAIN bunPacked = BunFiles
    PROVE  \A f \in DOMAIN bunPacked : bunPacked[f] = bunPacked["meta.json"]
<1>. SUFFICES ASSUME NEW f \in BunFiles, f # "meta.json"
              PROVE  bunPacked[f] = bunPacked["meta.json"]
  OBVIOUS
<1>1. CASE BunCompleteTask
  <2>1. f \in DOMAIN BunTaskMetadata(bunMeta)
    BY <1>1 DEF BunTaskMetadata, BunFiles, BunHasOutputs, BunCompleteTask
  <2>. QED
    BY <1>1, <2>1 DEF BunCompleteTask, BunMatches, BunTaskMetadata
<1>2. CASE BunCompleteNamed
  <2>1. f \in DOMAIN BunNamedMetadata(bunMeta)
    BY <1>2 DEF BunNamedMetadata, BunFiles, BunHasOutputs, BunCompleteNamed
  <2>. QED
    BY <1>2, <2>1 DEF BunCompleteNamed, BunMatches, BunNamedMetadata
<1>. QED
  BY <1>1, <1>2 DEF BunImportAccepts

LEMMA BundlesStay ==
    ASSUME BunIInv, [BunNext]_bunVars
    PROVE  BunIInv'
<1>. USE DEF BunIInv
<1>1. CASE UNCHANGED bunVars
  <2>1. BunTypeOK'
    BY <1>1 DEF bunVars, BunTypeOK
  <2>2. BunShape'
    BY <1>1 DEF bunVars, BunShape, BunFiles, BunHasOutputs, BunServerAccepts
  <2>3. BunReadings' /\ BunInstalledIsOneRun' /\ BunRefusedHasReason'
    BY <1>1 DEF bunVars, BunReadings, BunInstalledIsOneRun, BunRefusedHasReason
  <2>. QED
    BY <2>1, <2>2, <2>3
<1>2. CASE BunStart
  <2>1. /\ bunKind = BunIdle /\ bunKind' \in BunKinds /\ bunEntry' \in BunRuns
        /\ bunMeta' = bunEntry' /\ bunAt' = "hash"
        /\ UNCHANGED <<bunReplaced, bunHashed, bunPacked, bunBroken, bunServer, bunImporter,
                       bunInstalled>>
    BY <1>2 DEF BunStart
  <2>2. /\ bunAt = BunIdle /\ bunHashed = BunNothing /\ bunPacked = BunNothing
        /\ bunReplaced = 0 /\ bunServer = "none" /\ bunImporter = BunIdle
    BY <2>1 DEF BunShape, BunIdle
  <2>3. DOMAIN BunNothing = {}
    BY DEF BunNothing
  <2>4. BunTypeOK'
    BY <2>1 DEF BunTypeOK
  <2>5. BunFiles' # {} /\ bunKind' # BunIdle /\ bunEntry' # "gone"
    <3>1. "meta.json" \in BunFiles'
      BY DEF BunFiles, BunAllFiles
    <3>. QED
      BY <2>1, <3>1, BunAssumption DEF BunKinds, BunIdle
  <2>6. BunShape'
    BY <2>1, <2>2, <2>3, <2>5 DEF BunShape, BunIdle
  <2>7. BunReadings' /\ BunInstalledIsOneRun' /\ BunRefusedHasReason'
    BY <2>1, <2>2, <2>3 DEF BunReadings, BunInstalledIsOneRun, BunRefusedHasReason
  <2>. QED
    BY <2>4, <2>6, <2>7
<1>3. CASE BunHash
  <2>1. /\ bunAt = "hash" /\ bunServer = "none" /\ bunImporter = BunIdle
        /\ bunPacked = BunNothing /\ bunKind # BunIdle
        /\ UNCHANGED <<bunKind, bunEntry, bunReplaced, bunMeta, bunPacked, bunBroken, bunServer,
                       bunImporter, bunInstalled>>
    BY <1>3 DEF BunHash, BunShape, BunIdle
  <2>2. BunFiles' = BunFiles
    BY <2>1 DEF BunFiles, BunHasOutputs
  <2>3. CASE bunEntry = "gone"
    <3>1. bunAt' = "failed" /\ bunHashed' = bunHashed
      BY <1>3, <2>3 DEF BunHash
    <3>2. BunTypeOK' /\ BunShape'
      BY <2>1, <2>2, <3>1 DEF BunTypeOK, BunShape, BunIdle
    <3>3. BunReadings' /\ BunInstalledIsOneRun' /\ BunRefusedHasReason'
      BY <2>1, <3>1 DEF BunReadings, BunInstalledIsOneRun, BunRefusedHasReason
    <3>. QED
      BY <3>2, <3>3
  <2>4. CASE bunEntry # "gone"
    <3>. DEFINE f == BunNextOf(BunHashOrder, DOMAIN bunHashed)
                done == DOMAIN bunHashed \cup {f}
    <3>1. /\ bunHashed' = [g \in done |-> IF g = f THEN bunEntry ELSE bunHashed[g]]
          /\ bunAt' = (IF done = BunFiles THEN "pack" ELSE "hash")
      BY <1>3, <2>4 DEF BunHash
    <3>2. f \in BunFiles \ DOMAIN bunHashed
      BY <2>1, NextFileIsLeft DEF BunShape
    <3>. HIDE DEF f
    <3>3. /\ DOMAIN bunHashed' = done /\ done \subseteq BunFiles
          /\ bunHashed'[f] = bunEntry
          /\ \A g \in DOMAIN bunHashed : bunHashed'[g] = bunHashed[g]
      BY <2>1, <3>1, <3>2 DEF BunShape
    <3>4. bunEntry \in BunRuns
      BY <2>4 DEF BunTypeOK
    <3>5. done \subseteq BunAllFiles
      BY <3>3 DEF BunFiles
    <3>. HIDE DEF done
    <3>6. \A g \in done : g = f \/ g \in DOMAIN bunHashed
      BY DEF done
    <3>7. \A g \in done : bunHashed'[g] \in BunRuns
      BY <3>3, <3>4, <3>6 DEF BunTypeOK
    <3>8. BunTypeOK'
      BY <2>1, <3>1, <3>3, <3>5, <3>7 DEF BunTypeOK
    <3>9. BunShape'
      BY <2>1, <2>2, <3>1, <3>3 DEF BunShape, BunIdle, BunNothing
    <3>10. BunReadings'
      <4>1. DOMAIN bunPacked' = {}
        BY <2>1 DEF BunNothing
      <4>2. bunReplaced = 0 => \A g \in done : bunHashed'[g] = bunMeta
        BY <2>4, <3>3, <3>6 DEF BunReadings
      <4>3. bunReplaced = 1 => \A g \in done : bunHashed'[g] \in {bunMeta, bunEntry}
        BY <2>4, <3>3, <3>6 DEF BunReadings
      <4>. QED
        BY <2>1, <3>3, <4>1, <4>2, <4>3 DEF BunReadings
    <3>11. BunInstalledIsOneRun' /\ BunRefusedHasReason'
      BY <2>1 DEF BunInstalledIsOneRun, BunRefusedHasReason
    <3>. QED
      BY <3>8, <3>9, <3>10, <3>11
  <2>. QED
    BY <2>3, <2>4
<1>4. CASE BunPack
  <2>1. /\ bunAt = "pack" /\ bunServer = "none" /\ bunImporter = BunIdle
        /\ DOMAIN bunHashed = BunFiles /\ bunKind # BunIdle
        /\ UNCHANGED <<bunKind, bunEntry, bunReplaced, bunMeta, bunHashed, bunBroken, bunServer,
                       bunImporter, bunInstalled>>
    BY <1>4 DEF BunPack, BunShape, BunIdle
  <2>2. BunFiles' = BunFiles
    BY <2>1 DEF BunFiles, BunHasOutputs
  <2>3. CASE bunEntry = "gone"
    <3>1. bunAt' = "failed" /\ bunPacked' = bunPacked
      BY <1>4, <2>3 DEF BunPack
    <3>2. BunTypeOK' /\ BunShape'
      BY <2>1, <2>2, <3>1 DEF BunTypeOK, BunShape, BunIdle
    <3>3. BunReadings' /\ BunInstalledIsOneRun' /\ BunRefusedHasReason'
      BY <2>1, <3>1 DEF BunReadings, BunInstalledIsOneRun, BunRefusedHasReason
    <3>. QED
      BY <3>2, <3>3
  <2>4. CASE bunEntry # "gone"
    <3>. DEFINE f == BunNextOf(BunPackOrder, DOMAIN bunPacked)
                done == DOMAIN bunPacked \cup {f}
    <3>1. /\ bunPacked' = [g \in done |-> IF g = f THEN bunEntry ELSE bunPacked[g]]
          /\ bunAt' = (IF done = BunFiles THEN "send" ELSE "pack")
      BY <1>4, <2>4 DEF BunPack
    <3>2. f \in BunFiles \ DOMAIN bunPacked
      BY <2>1, NextFileIsLeft DEF BunShape
    <3>. HIDE DEF f
    <3>3. /\ DOMAIN bunPacked' = done /\ done \subseteq BunFiles
          /\ bunPacked'[f] = bunEntry
          /\ \A g \in DOMAIN bunPacked : bunPacked'[g] = bunPacked[g]
      BY <2>1, <3>1, <3>2 DEF BunShape
    <3>4. bunEntry \in BunRuns
      BY <2>4 DEF BunTypeOK
    <3>5. done \subseteq BunAllFiles
      BY <3>3 DEF BunFiles
    <3>. HIDE DEF done
    <3>6. \A g \in done : g = f \/ g \in DOMAIN bunPacked
      BY DEF done
    <3>7. \A g \in done : bunPacked'[g] \in BunRuns
      BY <3>3, <3>4, <3>6 DEF BunTypeOK
    <3>8. BunTypeOK'
      BY <2>1, <3>1, <3>3, <3>5, <3>7 DEF BunTypeOK
    <3>9. BunShape'
      BY <2>1, <2>2, <3>1, <3>3 DEF BunShape, BunIdle
    <3>10. BunReadings'
      <4>1. bunReplaced = 0 => \A g \in done : bunPacked'[g] = bunMeta
        BY <2>4, <3>3, <3>6 DEF BunReadings
      <4>2. ASSUME bunReplaced <= 1, "meta.json" \in done, bunPacked'["meta.json"] = bunMeta
            PROVE  \A g \in DOMAIN bunHashed : bunHashed[g] = bunMeta
        <5>1. CASE "meta.json" \in DOMAIN bunPacked
          BY <3>3, <4>2, <5>1 DEF BunReadings
        <5>2. CASE f = "meta.json"
          <6>1. bunEntry = bunMeta /\ bunReplaced \in {0, 1}
            BY <3>3, <4>2, <5>2 DEF BunTypeOK
          <6>. QED
            BY <2>4, <6>1 DEF BunReadings
        <5>. QED
          BY <3>6, <4>2, <5>1, <5>2
      <4>. QED
        BY <2>1, <3>3, <4>1, <4>2 DEF BunReadings
    <3>11. BunInstalledIsOneRun' /\ BunRefusedHasReason'
      BY <2>1 DEF BunInstalledIsOneRun, BunRefusedHasReason
    <3>. QED
      BY <3>8, <3>9, <3>10, <3>11
  <2>. QED
    BY <2>3, <2>4
<1>5. CASE BunRemove \/ BunReplace
  <2>1. /\ bunAt \in {"hash", "pack"} /\ bunServer = "none"
        /\ bunEntry' \in BunRuns \cup {"gone"} /\ bunReplaced' \in 0..BunMaxReplaced
        /\ bunReplaced' = bunReplaced => bunEntry' = "gone" /\ bunReplaced < BunMaxReplaced
        /\ bunEntry' = "gone" => bunReplaced' < BunMaxReplaced
        /\ bunReplaced' # bunReplaced => bunReplaced' = bunReplaced + 1
        /\ UNCHANGED <<bunKind, bunAt, bunMeta, bunHashed, bunPacked, bunBroken, bunServer,
                       bunImporter, bunInstalled>>
    <3>1. CASE BunRemove
      BY <3>1 DEF BunRemove, BunShape, BunTypeOK
    <3>2. CASE BunReplace
      BY <3>2, BunAssumption DEF BunReplace, BunShape, BunTypeOK, BunIdle
    <3>. QED
      BY <1>5, <3>1, <3>2
  <2>2. BunTypeOK'
    BY <2>1 DEF BunTypeOK
  <2>3. BunShape'
    BY <2>1 DEF BunShape, BunFiles, BunHasOutputs, BunIdle
  <2>4. BunReadings'
    BY <2>1 DEF BunReadings, BunTypeOK
  <2>5. BunInstalledIsOneRun' /\ BunRefusedHasReason'
    BY <2>1 DEF BunInstalledIsOneRun, BunRefusedHasReason
  <2>. QED
    BY <2>2, <2>3, <2>4, <2>5
<1>6. CASE BunSend
  <2>1. /\ bunAt = "send" /\ bunAt' = "sent" /\ bunBroken' \in BOOLEAN /\ bunServer = "none"
        /\ UNCHANGED <<bunKind, bunEntry, bunReplaced, bunMeta, bunHashed, bunPacked, bunServer,
                       bunImporter, bunInstalled>>
    BY <1>6 DEF BunSend, BunShape
  <2>2. BunTypeOK' /\ BunReadings' /\ BunInstalledIsOneRun' /\ BunRefusedHasReason'
    BY <2>1 DEF BunTypeOK, BunReadings, BunInstalledIsOneRun, BunRefusedHasReason
  <2>3. BunShape'
    BY <2>1 DEF BunShape, BunFiles, BunHasOutputs, BunIdle
  <2>. QED
    BY <2>2, <2>3
<1>7. CASE BunValidate
  <2>1. /\ bunAt = "sent" /\ bunServer = "none" /\ bunImporter = BunIdle
        /\ bunServer' = (IF BunServerAccepts THEN "published" ELSE "refused")
        /\ UNCHANGED <<bunKind, bunEntry, bunReplaced, bunAt, bunMeta, bunHashed, bunPacked,
                       bunBroken, bunImporter, bunInstalled>>
        /\ DOMAIN bunHashed = BunFiles /\ DOMAIN bunPacked = BunFiles
    BY <1>7 DEF BunValidate, BunShape
  <2>2. BunTypeOK' /\ BunReadings' /\ BunInstalledIsOneRun'
    BY <2>1 DEF BunTypeOK, BunReadings, BunInstalledIsOneRun
  <2>3. BunShape'
    BY <2>1 DEF BunShape, BunFiles, BunHasOutputs, BunIdle, BunServerAccepts
  <2>4. ASSUME bunReplaced = 0, ~bunBroken
        PROVE  BunServerAccepts
    <3>1. "meta.json" \in BunFiles
      BY DEF BunFiles, BunAllFiles
    <3>. QED
      BY <2>1, <2>4, <3>1 DEF BunReadings, BunServerAccepts
  <2>5. BunRefusedHasReason'
    BY <2>1, <2>4, BunAssumption DEF BunRefusedHasReason, BunTypeOK
  <2>. QED
    BY <2>2, <2>3, <2>5
<1>8. CASE BunDownload
  <2>1. /\ bunServer = "published" /\ bunImporter' \in {"unpack", "refused"}
        /\ UNCHANGED <<bunKind, bunEntry, bunReplaced, bunAt, bunMeta, bunHashed, bunPacked,
                       bunBroken, bunServer, bunInstalled>>
    BY <1>8 DEF BunDownload
  <2>2. BunTypeOK' /\ BunReadings' /\ BunInstalledIsOneRun' /\ BunRefusedHasReason'
    BY <2>1 DEF BunTypeOK, BunReadings, BunInstalledIsOneRun, BunRefusedHasReason
  <2>3. BunShape'
    BY <2>1 DEF BunShape, BunFiles, BunHasOutputs, BunIdle, BunServerAccepts
  <2>. QED
    BY <2>2, <2>3
<1>9. CASE BunImport
  <2>1. /\ bunImporter = "unpack"
        /\ \/ /\ BunImportAccepts /\ bunImporter' = "installed" /\ bunInstalled' = bunPacked
           \/ bunImporter' = "corrupt" /\ UNCHANGED bunInstalled
        /\ UNCHANGED <<bunKind, bunEntry, bunReplaced, bunAt, bunMeta, bunHashed, bunPacked,
                       bunBroken, bunServer>>
    BY <1>9 DEF BunImport
  <2>2. bunServer = "published" /\ DOMAIN bunPacked = BunFiles
    BY <2>1 DEF BunShape, BunIdle
  <2>3. BunTypeOK' /\ BunReadings' /\ BunRefusedHasReason'
    BY <2>1 DEF BunTypeOK, BunReadings, BunRefusedHasReason
  <2>4. BunShape'
    BY <2>1, <2>2 DEF BunShape, BunFiles, BunHasOutputs, BunIdle, BunServerAccepts
  <2>5. BunInstalledIsOneRun'
    BY <2>1, <2>2, ImportedIsOneRun DEF BunInstalledIsOneRun
  <2>. QED
    BY <2>3, <2>4, <2>5
<1>. QED
  BY <1>1, <1>2, <1>3, <1>4, <1>5, <1>6, <1>7, <1>8, <1>9 DEF BunNext

LEMMA BundleInduction == BunSpec => []BunIInv
  BY BundlesBegin, BundlesStay, PTL DEF BunSpec

(* Whatever is read, replaced, damaged and sent, the files that were hashed, packed and
   installed are files of runs (export_entry_bundle). *)
THEOREM BundlesAreTyped == BunSpec => []BunTypeOK
  BY BundleInduction, PTL DEF BunIInv

(* What the server publishes after one replacement at the most can be installed, what is
   installed is one run's, and nothing is refused without a reason (export_entry_bundle,
   validate_bundle, import_task_bundle, import_named_task_bundle). *)
THEOREM PublishedBundlesAreUsable == BunSpec => []BunPublishedIsUsable
<1>1. BunIInv => BunPublishedIsUsable
  BY AcceptedIsImported
  DEF BunIInv, BunPublishedIsUsable, BunInstalledIsOneRun, BunRefusedHasReason
<1>. QED
  BY <1>1, BundleInduction, PTL
--------------------------------------------------------------------------------
(* Restores. *)

(* The outputs that each folder held before the first restore. *)
RestWas == IF restHad THEN RestOld ELSE "none"
RestPast == {"clean", "relocate", "restored"}

(* A process that has not begun has nothing in its work directory, and one that is in a
   loop over the folders is at one of them. *)
RestShape ==
    \A p \in RestRestorers :
        /\ restAt[p] = "idle" => /\ restInstalled[p] = {}
                                 /\ \A i \in RestAllIndexes : restBackup[p][i] = "none"
        /\ restAt[p] \in {"look", "move", "install"} => restIndex[p] \in RestIndexes

(* The folders of a project that one process restores alone, with one failure at the
   most.  m folders are installed and b moved away while it goes back. *)
RestAllHold(v) == \A i \in RestIndexes : restDest[i] = v
RestGoingBack(p, m, b) ==
    /\ m <= b /\ restInstalled[p] = 1..m
    /\ \A i \in RestIndexes :
         /\ restDest[i] = (IF i <= m THEN p ELSE IF i <= b THEN "none" ELSE RestWas)
         /\ restBackup[p][i] = (IF i <= b THEN RestWas ELSE "none")
RestPuttingBack(p, b) ==
    \A i \in RestIndexes :
        IF restIndex[p] <= i /\ i <= b
        THEN restDest[i] = "none" /\ restBackup[p][i] = RestWas
        ELSE restDest[i] = RestWas /\ (restIndex[p] <= i => restBackup[p][i] = "none")

RestLoneAt(p) ==
    /\ restAt[p] = "unpack" =>
         /\ RestAllHold(RestWas) /\ restInstalled[p] = {}
         /\ \A i \in RestIndexes : restBackup[p][i] = "none"
    /\ restAt[p] \in {"look", "move"} =>
         /\ restInstalled[p] = {}
         /\ \A i \in RestIndexes :
              IF i < restIndex[p] THEN restDest[i] = "none" /\ restBackup[p][i] = RestWas
              ELSE restDest[i] = RestWas /\ restBackup[p][i] = "none"
    /\ restAt[p] = "move" => restHad
    /\ restAt[p] = "install" =>
         /\ restInstalled[p] = 1..(restIndex[p] - 1)
         /\ \A i \in RestIndexes :
              /\ restDest[i] = (IF i < restIndex[p] THEN p ELSE "none")
              /\ restBackup[p][i] = RestWas
    /\ restAt[p] \in RestPast => RestAllHold(p)
    /\ restAt[p] \in {"undo", "putBack", "fail"} => restFaults = 1
    /\ restAt[p] = "undo" => \E m, b \in 0..restFolders : RestGoingBack(p, m, b)
    /\ restAt[p] = "putBack" => \E b \in 0..restFolders : RestPuttingBack(p, b)
    /\ restAt[p] = "fail" => RestAllHold(RestWas)
    /\ restAt[p] = "failed" => RestAllHold(RestWas) \/ RestAllHold(p)
    /\ restAt[p] = "dead" =>
         \/ RestAllHold(p)
         \/ \A i \in RestIndexes : restDest[i] = RestWas \/ restBackup[p][i] = RestWas

RestLone == \A p \in RestRestorers :
    RestStarted = {p} /\ restFaults <= 1 => RestLoneAt(p)

(* The one folder of a project that any number of processes restore at once, when no
   system call fails.  Whoever took the folder away puts something back. *)
RestPutsSomething(p) ==
    \/ restAt[p] \in {"unpack", "look", "install"}
    \/ restAt[p] \in {"undo", "putBack"} /\ restBackup[p][1] # "none" /\ restIndex[p] = 1

RestSharedShape ==
    \A p \in RestRestorers :
        /\ restAt[p] # "dead"
        /\ restInstalled[p] # {} => restAt[p] \in RestPast
        /\ restAt[p] \in {"unpack", "undo"} => restIndex[p] = 1
        /\ restAt[p] \in {"unpack", "look", "move"} => restBackup[p][1] = "none"

RestOwners ==
    \A q \in RestRestorers :
        (restDest[1] = q \/ \E p \in RestRestorers : restBackup[p][1] = q)
          => restAt[q] \in RestPast

RestOldIsUnique ==
    \A p \in RestRestorers : restBackup[p][1] = RestOld =>
        /\ restDest[1] # RestOld
        /\ \A q \in RestRestorers : restBackup[q][1] = RestOld => p = q

RestSomethingComes ==
    restDest[1] = "none" => \E p \in RestRestorers : RestPutsSomething(p)

(* Of two processes, the one that has the old outputs in its work directory goes back
   only when the other has installed its own, and the old outputs stay in their place
   only until the other looks. *)
RestTwo == \E p, q \in RestRestorers : RestStarted \subseteq {p, q}
RestOneIsPast ==
    \A p \in RestRestorers :
        restAt[p] \in {"undo", "putBack"} /\ restBackup[p][1] = RestOld =>
            /\ \E q \in RestRestorers \ {p} : restAt[q] \in RestPast
            /\ RestTwo => restDest[1] # "none"
RestOldIsMoved ==
    RestTwo /\ restDest[1] = RestOld =>
        \E p \in RestRestorers : restAt[p] \in {"unpack", "look", "move"}

RestSharedNow ==
    /\ RestSharedShape
    /\ RestOwners
    /\ RestOldIsUnique
    /\ RestSomethingComes
    /\ RestOneIsPast
    /\ RestOldIsMoved
RestShared == restFaults = 0 /\ restFolders = 1 /\ RestStarted # {} => RestSharedNow

--------------------------------------------------------------------------------
(* Restores: types, and what the step of one process leaves alone. *)

LEMMA RestTypesStay ==
    ASSUME RestTypeOK, RestShape, NEW p \in RestRestorers, RestStep(p)
    PROVE  RestTypeOK'
<1>. USE DEF RestTypeOK
<1>a. /\ RestMaxFolders \in Nat \ {0} /\ RestMaxFaults \in Nat
      /\ restFolders \in 1..RestMaxFolders
  BY RestAssumption DEF RestAllIndexes
<1>b. ASSUME NEW at \in RestEnded \cup {"idle", "unpack", "look", "move", "install", "undo",
                        "putBack", "clean", "fail", "relocate"},
             RestGo(p, at)
      PROVE  /\ restAt' \in [RestRestorers -> RestEnded \cup {"idle", "unpack", "look", "move",
                     "install", "undo", "putBack", "clean", "fail", "relocate"}]
             /\ restIndex' \in [RestRestorers -> 1..(RestMaxFolders + 1)]
  BY <1>a, <1>b DEF RestGo
<1>c. ASSUME NEW at \in {"look", "install"}, NEW after \in {"install", "clean"},
             restAt[p] \in {"look", "move", "install"}, RestNextIndex(p, at, after)
      PROVE  /\ restAt' \in [RestRestorers -> RestEnded \cup {"idle", "unpack", "look", "move",
                     "install", "undo", "putBack", "clean", "fail", "relocate"}]
             /\ restIndex' \in [RestRestorers -> 1..(RestMaxFolders + 1)]
  <2>1. CASE restIndex[p] < restFolders
    <3>1. restIndex[p] + 1 \in 1..(RestMaxFolders + 1)
      BY <1>a, <2>1
    <3>2. /\ restAt' = [restAt EXCEPT ![p] = at]
          /\ restIndex' = [restIndex EXCEPT ![p] = restIndex[p] + 1]
      BY <1>c, <2>1 DEF RestNextIndex
    <3>. QED
      BY <3>1, <3>2
  <2>2. CASE ~(restIndex[p] < restFolders)
    <3>1. RestGo(p, after)
      BY <1>c, <2>2 DEF RestNextIndex
    <3>. QED
      BY <1>b, <1>c, <3>1
  <2>. QED
    BY <2>1, <2>2
<1>d. /\ restFaults' = restFaults \/ RestFault => restFaults' \in 0..RestMaxFaults
      /\ RestFixed => restHad' \in BOOLEAN /\ restFolders' \in RestAllIndexes
  BY <1>a DEF RestFault, RestFixed
<1>e. RestIndexes \subseteq RestAllIndexes
  BY <1>a DEF RestIndexes, RestAllIndexes
<1>1. CASE RestStart(p)
  <2>1. /\ RestGo(p, "unpack")
        /\ UNCHANGED <<restTemp, restBackup, restInstalled, restFaults>>
    BY <1>1 DEF RestStart
  <2>2. /\ restDest' \in [RestAllIndexes -> RestOutputs \cup {"none"}]
        /\ restHad' \in BOOLEAN /\ restFolders' \in RestAllIndexes
    BY <1>1 DEF RestStart, RestOutputs
  <2>. QED
    BY <1>b, <2>1, <2>2
<1>2. CASE RestFixed /\ RestUnpack(p)
  BY <1>2, <1>b, <1>d, <1>e DEF RestUnpack
<1>3. CASE RestFixed /\ RestLook(p)
  <2>1. CASE RestNextIndex(p, "look", "install")
    BY <1>3, <1>c, <1>d, <2>1 DEF RestLook
  <2>2. CASE restAt' = [restAt EXCEPT ![p] = "move"] /\ UNCHANGED restIndex
    BY <1>3, <1>d, <2>2 DEF RestLook
  <2>. QED
    BY <1>3, <2>1, <2>2 DEF RestLook
<1>4. CASE RestFixed /\ RestMoveAway(p)
  <2>. DEFINE i == restIndex[p]
  <2>1. i \in RestAllIndexes
    BY <1>4, <1>e DEF RestMoveAway, RestShape
  <2>2. CASE /\ restBackup' = [restBackup EXCEPT ![p][i] = restDest[i]]
             /\ restDest' = [restDest EXCEPT ![i] = "none"]
             /\ RestNextIndex(p, "look", "install") /\ UNCHANGED restFaults
    BY <1>4, <1>c, <1>d, <2>1, <2>2 DEF RestMoveAway
  <2>3. CASE /\ restFaults' = restFaults \/ RestFault
             /\ RestGo(p, "undo") /\ UNCHANGED <<restBackup, restDest>>
    BY <1>4, <1>b, <1>d, <2>3 DEF RestMoveAway
  <2>. QED
    BY <1>4, <2>2, <2>3 DEF RestMoveAway
<1>5. CASE RestFixed /\ RestInstall(p)
  <2>. DEFINE i == restIndex[p]
  <2>1. i \in RestAllIndexes
    BY <1>5, <1>e DEF RestInstall, RestShape
  <2>2. CASE /\ restDest' = [restDest EXCEPT ![i] = p]
             /\ restTemp' = [restTemp EXCEPT ![p] = @ \ {i}]
             /\ restInstalled' = [restInstalled EXCEPT ![p] = @ \cup {i}]
             /\ RestNextIndex(p, "install", "clean") /\ UNCHANGED restFaults
    BY <1>5, <1>c, <1>d, <2>1, <2>2 DEF RestInstall, RestOutputs
  <2>3. CASE /\ restFaults' = restFaults \/ RestFault
             /\ RestGo(p, "undo") /\ UNCHANGED <<restDest, restTemp, restInstalled>>
    BY <1>5, <1>b, <1>d, <2>3 DEF RestInstall
  <2>. QED
    BY <1>5, <2>2, <2>3 DEF RestInstall
<1>6. CASE RestFixed /\ RestUndo(p)
  <2>1. CASE restInstalled[p] = {}
    BY <1>6, <1>b, <1>d, <2>1 DEF RestUndo
  <2>2. CASE restInstalled[p] # {}
    <3>1. PICK i \in restInstalled[p] :
          /\ restInstalled' = [restInstalled EXCEPT ![p] = @ \ {i}]
          /\ \/ restDest' = [restDest EXCEPT ![i] = "none"] /\ UNCHANGED restFaults
             \/ RestFault /\ UNCHANGED restDest
          /\ UNCHANGED <<restAt, restIndex, restTemp, restBackup>>
      BY <1>6, <2>2 DEF RestUndo
    <3>2. restDest' \in [RestAllIndexes -> RestOutputs \cup {"none"}]
      BY <3>1
    <3>. QED
      BY <1>6, <1>d, <3>1, <3>2
  <2>. QED
    BY <2>1, <2>2
<1>7. CASE RestFixed /\ RestPutBack(p)
  <2>. DEFINE waiting == {i \in RestIndexes : restBackup[p][i] # "none" /\ i >= restIndex[p]}
  <2>1. CASE waiting = {}
    BY <1>7, <1>b, <1>d, <2>1 DEF RestPutBack
  <2>2. CASE waiting # {}
    <3>1. PICK i \in waiting :
          /\ \/ /\ restDest' = [restDest EXCEPT ![i] = restBackup[p][i]]
                /\ restBackup' = [restBackup EXCEPT ![p][i] = "none"]
                /\ UNCHANGED restFaults
             \/ /\ restFaults' = restFaults \/ RestFault
                /\ UNCHANGED <<restDest, restBackup>>
          /\ restIndex' = [restIndex EXCEPT ![p] = i + 1]
          /\ UNCHANGED <<restAt, restTemp, restInstalled>>
      BY <1>7, <2>2 DEF RestPutBack
    <3>2. i \in RestAllIndexes /\ i + 1 \in 1..(RestMaxFolders + 1)
      BY <1>a, <1>e DEF RestIndexes
    <3>. HIDE DEF waiting
    <3>3. /\ restDest' \in [RestAllIndexes -> RestOutputs \cup {"none"}]
          /\ restBackup' \in [RestRestorers -> [RestAllIndexes -> RestOutputs \cup {"none"}]]
      <4>1. restBackup[p] \in [RestAllIndexes -> RestOutputs \cup {"none"}]
        OBVIOUS
      <4>2. /\ restBackup[p][i] \in RestOutputs \cup {"none"}
            /\ [restBackup[p] EXCEPT ![i] = "none"]
                 \in [RestAllIndexes -> RestOutputs \cup {"none"}]
        BY <3>2, <4>1
      <4>3. CASE UNCHANGED <<restDest, restBackup>>
        BY <4>3
      <4>4. CASE /\ restDest' = [restDest EXCEPT ![i] = restBackup[p][i]]
                 /\ restBackup' = [restBackup EXCEPT ![p][i] = "none"]
        BY <4>2, <4>4
      <4>. QED
        BY <3>1, <4>3, <4>4
    <3>. QED
      BY <1>7, <1>d, <3>1, <3>2, <3>3
  <2>. QED
    BY <2>1, <2>2
<1>8. CASE RestFixed /\ RestClean(p)
  BY <1>8, <1>b, <1>d DEF RestClean, RestEnded
<1>9. CASE RestFixed /\ RestRelocate(p)
  BY <1>9, <1>b, <1>d DEF RestRelocate, RestEnded
<1>10. CASE RestFixed /\ RestKill(p)
  BY <1>10, <1>b, <1>d DEF RestKill, RestEnded
<1>. QED
  BY <1>1, <1>2, <1>3, <1>4, <1>5, <1>6, <1>7, <1>8, <1>9, <1>10 DEF RestStep

(* A step is of one process and leaves the others where they are, and from then on the
   process has started. *)
LEMMA RestStepsAreOfOneProcess ==
    ASSUME RestTypeOK, RestShape, NEW p \in RestRestorers, RestStep(p)
    PROVE  /\ \A q \in RestRestorers \ {p} :
                /\ restAt'[q] = restAt[q] /\ restIndex'[q] = restIndex[q]
                /\ restInstalled'[q] = restInstalled[q] /\ restBackup'[q] = restBackup[q]
           /\ restAt'[p] # "idle"
           /\ RestStarted' = RestStarted \cup {p}
           /\ restAt[p] = "idle" => RestStart(p)
           /\ restAt[p] # "idle" => RestFixed
<1>. USE DEF RestTypeOK
<1>1. /\ \A q \in RestRestorers \ {p} :
           /\ restAt'[q] = restAt[q] /\ restIndex'[q] = restIndex[q]
           /\ restInstalled'[q] = restInstalled[q] /\ restBackup'[q] = restBackup[q]
      /\ restAt'[p] # "idle"
      /\ restAt[p] = "idle" => RestStart(p)
      /\ restAt[p] # "idle" => RestFixed
  <2>1. CASE RestStart(p)
    BY <2>1 DEF RestStart, RestGo
  <2>2. CASE RestFixed /\ RestUnpack(p)
    BY <2>2 DEF RestUnpack, RestGo
  <2>3. CASE RestFixed /\ RestLook(p)
    BY <2>3 DEF RestLook, RestGo, RestNextIndex
  <2>4. CASE RestFixed /\ RestMoveAway(p)
    BY <2>4 DEF RestMoveAway, RestGo, RestNextIndex
  <2>5. CASE RestFixed /\ RestInstall(p)
    BY <2>5 DEF RestInstall, RestGo, RestNextIndex
  <2>6. CASE RestFixed /\ RestUndo(p)
    BY <2>6 DEF RestUndo, RestGo
  <2>7. CASE RestFixed /\ RestPutBack(p)
    BY <2>7 DEF RestPutBack, RestGo
  <2>8. CASE RestFixed /\ RestClean(p)
    BY <2>8 DEF RestClean, RestGo
  <2>9. CASE RestFixed /\ RestRelocate(p)
    BY <2>9 DEF RestRelocate, RestGo
  <2>10. CASE RestFixed /\ RestKill(p)
    BY <2>10 DEF RestKill, RestGo
  <2>. QED
    BY <2>1, <2>2, <2>3, <2>4, <2>5, <2>6, <2>7, <2>8, <2>9, <2>10 DEF RestStep
<1>2. RestStarted' = RestStarted \cup {p}
  BY <1>1 DEF RestStarted
<1>. QED
  BY <1>1, <1>2

LEMMA RestShapeStays ==
    ASSUME RestTypeOK, RestShape, NEW p \in RestRestorers, RestStep(p)
    PROVE  RestShape'
<1>. USE DEF RestTypeOK
<1>a. /\ \A q \in RestRestorers \ {p} :
           /\ restAt'[q] = restAt[q] /\ restIndex'[q] = restIndex[q]
           /\ restInstalled'[q] = restInstalled[q] /\ restBackup'[q] = restBackup[q]
      /\ restAt'[p] # "idle"
      /\ restAt[p] = "idle" => RestStart(p)
      /\ restAt[p] # "idle" => RestFixed
  BY RestStepsAreOfOneProcess
<1>b. restFolders \in Nat /\ restFolders > 0
  BY RestAssumption DEF RestAllIndexes
<1>1. ASSUME NEW q \in RestRestorers \ {p}
      PROVE  /\ restAt'[q] = "idle" =>
                  /\ restInstalled'[q] = {}
                  /\ \A i \in RestAllIndexes : restBackup'[q][i] = "none"
             /\ restAt'[q] \in {"look", "move", "install"} => restIndex'[q] \in RestIndexes'
  <2>1. restFolders' = restFolders \/ restAt[q] = "idle"
    BY <1>a DEF RestStart, RestFixed
  <2>. QED
    BY <1>a, <2>1 DEF RestShape, RestIndexes
<1>2. restAt'[p] \in {"look", "move", "install"} => restIndex'[p] \in RestIndexes'
  <2>1. CASE RestFixed
    <3>. USE <2>1
    <3>1. CASE RestUnpack(p)
      BY <1>b, <3>1 DEF RestUnpack, RestGo, RestIndexes, RestFixed
    <3>2. CASE RestLook(p)
      BY <1>b, <3>2 DEF RestLook, RestNextIndex, RestGo, RestShape, RestIndexes, RestFixed
    <3>3. CASE RestMoveAway(p)
      BY <1>b, <3>3 DEF RestMoveAway, RestNextIndex, RestGo, RestShape, RestIndexes, RestFixed
    <3>4. CASE RestInstall(p)
      BY <1>b, <3>4 DEF RestInstall, RestNextIndex, RestGo, RestShape, RestIndexes, RestFixed
    <3>5. CASE \/ RestUndo(p) \/ RestPutBack(p) \/ RestClean(p) \/ RestRelocate(p)
               \/ RestKill(p)
      BY <3>5 DEF RestUndo, RestPutBack, RestClean, RestRelocate, RestKill, RestGo
    <3>6. CASE RestStart(p)
      BY <3>6 DEF RestStart, RestGo
    <3>. QED
      BY <3>1, <3>2, <3>3, <3>4, <3>5, <3>6 DEF RestStep
  <2>2. CASE RestStart(p)
    BY <2>2 DEF RestStart, RestGo
  <2>. QED
    BY <1>a, <2>1, <2>2
<1>. QED
  BY <1>a, <1>1, <1>2 DEF RestShape

--------------------------------------------------------------------------------
(* A process that has the project to itself. *)

LEMMA LoneStart ==
    ASSUME RestTypeOK, RestShape, NEW p \in RestRestorers, RestStart(p), RestStarted = {}
    PROVE  RestLoneAt(p)'
<1>1. \A q \in RestRestorers : restAt[q] = "idle"
  BY DEF RestStarted
<1>2. /\ restAt'[p] = "unpack" /\ restInstalled' = restInstalled /\ restBackup' = restBackup
      /\ restHad' \in BOOLEAN /\ restFolders' \in RestAllIndexes
      /\ restDest' = [i \in RestAllIndexes |->
                        IF restHad' /\ i <= restFolders' THEN RestOld ELSE "none"]
  BY <1>1 DEF RestStart, RestGo, RestTypeOK
<1>3. RestIndexes' \subseteq RestAllIndexes /\ \A i \in RestIndexes' : i <= restFolders'
  BY <1>2, RestAssumption DEF RestIndexes, RestAllIndexes
<1>4. restInstalled'[p] = {} /\ \A i \in RestIndexes' : restBackup'[p][i] = "none"
  BY <1>1, <1>2, <1>3 DEF RestShape
<1>5. RestAllHold(RestWas)'
  BY <1>2, <1>3 DEF RestAllHold, RestWas
<1>. QED
  BY <1>2, <1>4, <1>5 DEF RestLoneAt, RestPast

LEMMA LoneSteps ==
    ASSUME RestTypeOK, RestShape, NEW p \in RestRestorers, RestFixed, RestStep(p),
           restAt[p] # "idle", RestLoneAt(p), restFaults' <= 1
    PROVE  RestLoneAt(p)'
<1>. USE DEF RestTypeOK
<1>a. /\ restFolders' = restFolders /\ restHad' = restHad
      /\ RestIndexes' = RestIndexes /\ RestWas' = RestWas
  BY DEF RestFixed, RestIndexes, RestWas
<1>b. /\ restFolders \in Nat /\ restFolders > 0 /\ RestIndexes = 1..restFolders
      /\ RestIndexes \subseteq RestAllIndexes
      /\ restFaults \in Nat
  BY RestAssumption DEF RestAllIndexes, RestIndexes
<1>c. RestFault => restFaults = 0 /\ restFaults' = 1
  BY <1>b DEF RestFault
<1>d. /\ RestWas \in {RestOld, "none"} /\ RestOld # "none" /\ p # "none" /\ p # RestOld
      /\ RestWas # "none" <=> restHad
  BY RestAssumption DEF RestWas
<1>1. CASE RestUnpack(p)
  <2>1. /\ restAt[p] = "unpack"
        /\ UNCHANGED <<restDest, restBackup, restInstalled>>
        /\ restIndex'[p] = 1
        /\ \/ restAt'[p] = "look"
           \/ RestFault /\ restAt'[p] = "fail"
    BY <1>1 DEF RestUnpack, RestGo
  <2>2. /\ RestAllHold(RestWas) /\ restInstalled[p] = {}
        /\ \A i \in RestIndexes : restBackup[p][i] = "none"
    BY <2>1 DEF RestLoneAt
  <2>3. CASE restAt'[p] = "look"
    BY <1>a, <1>b, <2>1, <2>2, <2>3 DEF RestLoneAt, RestAllHold, RestPast
  <2>4. CASE RestFault /\ restAt'[p] = "fail"
    BY <1>a, <1>c, <2>1, <2>2, <2>4 DEF RestLoneAt, RestAllHold, RestPast
  <2>. QED
    BY <2>1, <2>3, <2>4
<1>2. CASE RestLook(p)
  <2>. DEFINE k == restIndex[p]
  <2>1. /\ restAt[p] = "look" /\ k \in RestIndexes
        /\ UNCHANGED <<restDest, restBackup, restInstalled, restFaults>>
    BY <1>2 DEF RestLook, RestShape
  <2>2. /\ restInstalled[p] = {}
        /\ \A i \in RestIndexes :
             IF i < k THEN restDest[i] = "none" /\ restBackup[p][i] = RestWas
             ELSE restDest[i] = RestWas /\ restBackup[p][i] = "none"
    BY <2>1 DEF RestLoneAt
  <2>3. CASE restDest[k] = "none"
    <3>1. ~restHad /\ RestWas = "none"
      BY <1>b, <1>d, <2>1, <2>2, <2>3
    <3>2. CASE k < restFolders
      <4>1. restAt'[p] = "look" /\ restIndex'[p] = k + 1
        BY <1>2, <2>3, <3>2 DEF RestLook, RestNextIndex
      <4>. QED
        BY <1>a, <1>b, <2>1, <2>2, <3>1, <4>1 DEF RestLoneAt, RestPast
    <3>3. CASE ~(k < restFolders)
      <4>1. restAt'[p] = "install" /\ restIndex'[p] = 1
        BY <1>2, <2>3, <3>3 DEF RestLook, RestNextIndex, RestGo
      <4>2. 1..(1 - 1) = {}
        OBVIOUS
      <4>. QED
        BY <1>a, <1>b, <2>1, <2>2, <3>1, <4>1, <4>2 DEF RestLoneAt, RestPast
    <3>. QED
      BY <3>2, <3>3
  <2>4. CASE restDest[k] # "none"
    <3>1. restAt'[p] = "move" /\ restIndex'[p] = k
      BY <1>2, <2>4 DEF RestLook
    <3>2. restHad
      BY <1>b, <1>d, <2>1, <2>2, <2>4
    <3>. QED
      BY <1>a, <1>b, <2>1, <2>2, <3>1, <3>2 DEF RestLoneAt, RestPast
  <2>. QED
    BY <2>3, <2>4
<1>3. CASE RestMoveAway(p)
  <2>. DEFINE k == restIndex[p]
  <2>1. restAt[p] = "move" /\ k \in RestIndexes /\ restInstalled' = restInstalled
    BY <1>3 DEF RestMoveAway, RestShape
  <2>2. /\ restInstalled[p] = {} /\ restHad
        /\ \A i \in RestIndexes :
             IF i < k THEN restDest[i] = "none" /\ restBackup[p][i] = RestWas
             ELSE restDest[i] = RestWas /\ restBackup[p][i] = "none"
    BY <2>1 DEF RestLoneAt
  <2>3. restDest[k] = RestWas /\ RestWas # "none"
    BY <1>b, <1>d, <2>1, <2>2
  <2>4. CASE /\ restBackup' = [restBackup EXCEPT ![p][k] = restDest[k]]
             /\ restDest' = [restDest EXCEPT ![k] = "none"]
             /\ RestNextIndex(p, "look", "install")
    <3>1. \A i \in RestIndexes :
            IF i < k + 1 THEN restDest'[i] = "none" /\ restBackup'[p][i] = RestWas
            ELSE restDest'[i] = RestWas /\ restBackup'[p][i] = "none"
      BY <1>b, <2>1, <2>2, <2>3, <2>4
    <3>2. CASE k < restFolders
      <4>1. restAt'[p] = "look" /\ restIndex'[p] = k + 1
        BY <2>4, <3>2 DEF RestNextIndex
      <4>. QED
        BY <1>a, <2>1, <2>2, <3>1, <4>1 DEF RestLoneAt, RestPast
    <3>3. CASE ~(k < restFolders)
      <4>1. restAt'[p] = "install" /\ restIndex'[p] = 1
        BY <2>4, <3>3 DEF RestNextIndex, RestGo
      <4>2. 1..(1 - 1) = {}
        OBVIOUS
      <4>3. \A i \in RestIndexes : restDest'[i] = "none" /\ restBackup'[p][i] = RestWas
        BY <1>b, <2>1, <3>1, <3>3
      <4>. QED
        BY <1>a, <1>b, <2>1, <2>2, <4>1, <4>2, <4>3 DEF RestLoneAt, RestPast
    <3>. QED
      BY <3>2, <3>3
  <2>5. CASE RestFault /\ RestGo(p, "undo") /\ UNCHANGED <<restBackup, restDest>>
    <3>1. restAt'[p] = "undo"
      BY <2>5 DEF RestGo
    <3>2. PICK n \in 0..restFolders : n = k - 1
      BY <1>b, <2>1
    <3>3. 0 \in 0..restFolders /\ 1..0 = {} /\ \A i \in RestIndexes : i <= n <=> i < k
      BY <1>b, <2>1, <3>2
    <3>4. RestGoingBack(p, 0, n)'
      BY <1>a, <1>b, <2>1, <2>2, <2>5, <3>2, <3>3 DEF RestGoingBack
    <3>5. \E m, b \in 0..restFolders : RestGoingBack(p, m, b)'
      BY <3>3, <3>4
    <3>. QED
      BY <1>a, <1>c, <2>5, <3>1, <3>5 DEF RestLoneAt, RestPast
  <2>. QED
    BY <1>3, <2>3, <2>4, <2>5 DEF RestMoveAway
<1>4. CASE RestInstall(p)
  <2>. DEFINE k == restIndex[p]
  <2>1. restAt[p] = "install" /\ k \in RestIndexes /\ restBackup' = restBackup
    BY <1>4 DEF RestInstall, RestShape
  <2>2. /\ restInstalled[p] = 1..(k - 1)
        /\ \A i \in RestIndexes :
             /\ restDest[i] = (IF i < k THEN p ELSE "none")
             /\ restBackup[p][i] = RestWas
    BY <2>1 DEF RestLoneAt
  <2>3. restDest[k] = "none"
    BY <1>b, <2>1, <2>2
  <2>4. CASE /\ restDest' = [restDest EXCEPT ![k] = p]
             /\ restInstalled' = [restInstalled EXCEPT ![p] = @ \cup {k}]
             /\ RestNextIndex(p, "install", "clean")
    <3>1. \A i \in RestIndexes : restDest'[i] = (IF i < k + 1 THEN p ELSE "none")
      BY <1>b, <2>1, <2>2, <2>4
    <3>2. restInstalled'[p] = 1..k
      BY <1>b, <2>1, <2>2, <2>4
    <3>3. CASE k < restFolders
      <4>1. restAt'[p] = "install" /\ restIndex'[p] = k + 1 /\ (k + 1) - 1 = k
        BY <1>b, <2>1, <2>4, <3>3 DEF RestNextIndex
      <4>. QED
        BY <1>a, <2>1, <2>2, <3>1, <3>2, <4>1 DEF RestLoneAt, RestPast
    <3>4. CASE ~(k < restFolders)
      <4>1. restAt'[p] = "clean"
        BY <2>4, <3>4 DEF RestNextIndex, RestGo
      <4>2. \A i \in RestIndexes : restDest'[i] = p
        BY <1>b, <2>1, <3>1, <3>4
      <4>. QED
        BY <1>a, <4>1, <4>2 DEF RestLoneAt, RestAllHold
    <3>. QED
      BY <3>3, <3>4
  <2>5. CASE RestFault /\ RestGo(p, "undo") /\ UNCHANGED <<restDest, restInstalled>>
    <3>1. restAt'[p] = "undo"
      BY <2>5 DEF RestGo
    <3>2. PICK n, all \in 0..restFolders : n = k - 1 /\ all = restFolders
      BY <1>b, <2>1
    <3>3. n <= all /\ \A i \in RestIndexes : (i <= n <=> i < k) /\ i <= all
      BY <1>b, <2>1, <3>2
    <3>4. RestGoingBack(p, n, all)'
      BY <1>a, <2>1, <2>2, <2>5, <3>2, <3>3 DEF RestGoingBack
    <3>5. \E m, b \in 0..restFolders : RestGoingBack(p, m, b)'
      BY <3>4
    <3>. QED
      BY <1>a, <1>c, <2>5, <3>1, <3>5 DEF RestLoneAt, RestPast
  <2>. QED
    BY <1>4, <2>3, <2>4, <2>5 DEF RestInstall
<1>5. CASE RestUndo(p)
  <2>1. /\ restAt[p] = "undo" /\ restFaults = 1 /\ ~RestFault /\ restBackup' = restBackup
    BY <1>5, <1>c DEF RestUndo, RestLoneAt
  <2>2. PICK m \in 0..restFolders, b \in 0..restFolders : RestGoingBack(p, m, b)
    BY <2>1 DEF RestLoneAt
  <2>3. CASE restInstalled[p] = {}
    <3>1. restAt'[p] = "putBack" /\ restIndex'[p] = 1 /\ UNCHANGED <<restDest, restFaults>>
      BY <1>5, <2>3 DEF RestUndo, RestGo
    <3>2. m = 0
      <4>1. m # 0 => 1 \in 1..m
        BY <1>b
      <4>. QED
        BY <2>2, <2>3, <4>1 DEF RestGoingBack
    <3>3. RestPuttingBack(p, b)'
      BY <1>a, <1>b, <2>1, <2>2, <3>1, <3>2 DEF RestPuttingBack, RestGoingBack
    <3>. QED
      BY <1>a, <2>1, <3>1, <3>3 DEF RestLoneAt, RestPast
  <2>4. CASE restInstalled[p] # {}
    <3>1. PICK i \in restInstalled[p] :
            /\ \A k \in restInstalled[p] : k <= i
            /\ restInstalled' = [restInstalled EXCEPT ![p] = @ \ {i}]
            /\ restDest' = [restDest EXCEPT ![i] = "none"]
            /\ UNCHANGED <<restAt, restIndex, restFaults>>
      BY <1>5, <2>1, <2>4 DEF RestUndo
    <3>2. restInstalled[p] = 1..m /\ m <= b
      BY <2>2 DEF RestGoingBack
    <3>3. i = m /\ m \in RestIndexes /\ m > 0
      <4>1. i \in 1..m /\ m \in Nat
        BY <1>b, <3>1, <3>2
      <4>2. m \in restInstalled[p]
        BY <3>2, <4>1
      <4>. QED
        BY <1>b, <3>1, <4>1, <4>2
    <3>4. restInstalled'[p] = 1..(m - 1) /\ m - 1 \in 0..restFolders /\ m - 1 <= b
      BY <1>b, <3>1, <3>2, <3>3
    <3>5. ASSUME NEW j \in RestIndexes
          PROVE  /\ restDest'[j] = (IF j <= m - 1 THEN p
                                    ELSE IF j <= b THEN "none" ELSE RestWas)
                 /\ restBackup'[p][j] = (IF j <= b THEN RestWas ELSE "none")
      BY <1>b, <2>1, <2>2, <3>1, <3>2, <3>3 DEF RestGoingBack
    <3>6. RestGoingBack(p, m - 1, b)'
      BY <1>a, <3>4, <3>5 DEF RestGoingBack
    <3>7. \E n, c \in 0..restFolders : RestGoingBack(p, n, c)'
      BY <3>4, <3>6
    <3>. QED
      BY <1>a, <2>1, <3>1, <3>7 DEF RestLoneAt, RestPast
  <2>. QED
    BY <2>3, <2>4
<1>6. CASE RestPutBack(p)
  <2>. DEFINE k == restIndex[p]
              waiting == {i \in RestIndexes : restBackup[p][i] # "none" /\ i >= k}
  <2>1. /\ restAt[p] = "putBack" /\ restFaults = 1 /\ ~RestFault
    BY <1>6, <1>c DEF RestPutBack, RestLoneAt
  <2>2. PICK b \in 0..restFolders : RestPuttingBack(p, b)
    BY <2>1 DEF RestLoneAt
  <2>0. k \in Nat /\ k > 0
    BY RestAssumption
  <2>3. CASE waiting = {}
    <3>1. restAt'[p] = "fail" /\ UNCHANGED <<restDest, restFaults>>
      BY <1>6, <2>3 DEF RestPutBack, RestGo
    <3>2. \A i \in RestIndexes : restDest[i] = RestWas
      BY <2>2, <2>3 DEF RestPuttingBack
    <3>. QED
      BY <1>a, <2>1, <3>1, <3>2 DEF RestLoneAt, RestAllHold, RestPast
  <2>4. CASE waiting # {}
    <3>1. PICK i \in waiting :
            /\ \A j \in waiting : j >= i
            /\ \/ /\ restDest' = [restDest EXCEPT ![i] = restBackup[p][i]]
                  /\ restBackup' = [restBackup EXCEPT ![p][i] = "none"]
                  /\ UNCHANGED restFaults
               \/ /\ restDest[i] # "none"
                  /\ UNCHANGED <<restDest, restBackup, restFaults>>
            /\ restIndex' = [restIndex EXCEPT ![p] = i + 1]
            /\ restAt' = restAt
      BY <1>6, <2>1, <2>4 DEF RestPutBack, RestMayPutBack
    <3>2. /\ i \in RestIndexes /\ restBackup[p][i] = RestWas /\ restDest[i] = "none"
          /\ RestWas # "none" /\ k <= i /\ i <= b
      BY <2>2, <3>1 DEF RestPuttingBack
    <3>3. k = i
      <4>1. k \in RestIndexes /\ k <= b
        BY <1>b, <2>0, <3>2
      <4>2. k \in waiting
        BY <2>0, <2>2, <3>2, <4>1 DEF RestPuttingBack
      <4>. QED
        BY <1>b, <2>0, <3>1, <3>2, <4>2
    <3>. HIDE DEF waiting
    <3>4. /\ restDest' = [restDest EXCEPT ![i] = RestWas]
          /\ restBackup' = [restBackup EXCEPT ![p][i] = "none"]
          /\ restIndex'[p] = i + 1 /\ restFaults' = restFaults /\ restAt' = restAt
      BY <3>1, <3>2
    <3>5. ASSUME NEW j \in RestIndexes
          PROVE  IF i + 1 <= j /\ j <= b
                 THEN restDest'[j] = "none" /\ restBackup'[p][j] = RestWas
                 ELSE restDest'[j] = RestWas /\ (i + 1 <= j => restBackup'[p][j] = "none")
      BY <1>b, <2>2, <3>2, <3>3, <3>4 DEF RestPuttingBack
    <3>6. RestPuttingBack(p, b)'
      BY <1>a, <3>4, <3>5 DEF RestPuttingBack
    <3>. QED
      BY <1>a, <2>1, <3>4, <3>6 DEF RestLoneAt, RestPast
  <2>. QED
    BY <2>3, <2>4
<1>7. CASE RestClean(p)
  <2>1. /\ restDest' = restDest
        /\ \/ restAt[p] = "clean" /\ restAt'[p] \in {"relocate", "failed"}
           \/ restAt[p] = "fail" /\ restAt'[p] = "failed"
    BY <1>7 DEF RestClean, RestGo
  <2>. QED
    BY <1>a, <2>1 DEF RestLoneAt, RestAllHold, RestPast
<1>8. CASE RestRelocate(p)
  <2>1. /\ restDest' = restDest /\ restAt[p] = "relocate"
        /\ restAt'[p] \in {"restored", "failed"}
    BY <1>8 DEF RestRelocate, RestGo
  <2>. QED
    BY <1>a, <2>1 DEF RestLoneAt, RestAllHold, RestPast
<1>9. CASE RestKill(p)
  <2>1. /\ UNCHANGED <<restDest, restBackup>> /\ restAt'[p] = "dead" /\ restFaults = 0
        /\ restAt[p] \in {"unpack", "look", "move", "install", "undo", "putBack", "clean", "fail",
                          "relocate"}
    BY <1>9, <1>c DEF RestKill, RestGo, RestEnded
  <2>2. \/ RestAllHold(p)
        \/ \A i \in RestIndexes : restDest[i] = RestWas \/ restBackup[p][i] = RestWas
    BY <2>1 DEF RestLoneAt, RestAllHold, RestPast
  <2>. QED
    BY <1>a, <2>1, <2>2 DEF RestLoneAt, RestAllHold, RestPast
<1>10. CASE RestStart(p)
  BY <1>10 DEF RestStart
<1>. QED
  BY <1>1, <1>2, <1>3, <1>4, <1>5, <1>6, <1>7, <1>8, <1>9, <1>10 DEF RestStep

LEMMA LoneStays ==
    ASSUME RestTypeOK, RestShape, RestLone, NEW p \in RestRestorers, RestStep(p)
    PROVE  RestLone'
<1>. SUFFICES ASSUME NEW q \in RestRestorers, RestStarted' = {q}, restFaults' <= 1
              PROVE  RestLoneAt(q)'
  BY DEF RestLone
<1>1. /\ RestStarted' = RestStarted \cup {p}
      /\ restAt[p] = "idle" => RestStart(p)
      /\ restAt[p] # "idle" => RestFixed
  BY RestStepsAreOfOneProcess
<1>2. p = q
  BY <1>1
<1>3. CASE restAt[p] = "idle"
  <2>1. RestStarted = {}
    BY <1>1, <1>2, <1>3 DEF RestStarted
  <2>. QED
    BY <1>1, <1>2, <1>3, <2>1, LoneStart
<1>4. CASE restAt[p] # "idle"
  <2>1. RestStarted = {p}
    BY <1>1, <1>2, <1>4 DEF RestStarted
  <2>2. restFaults <= 1
    <3>1. restFaults' = restFaults \/ restFaults' = restFaults + 1
      BY DEF RestStep, RestStart, RestUnpack, RestLook, RestMoveAway, RestInstall, RestUndo,
             RestPutBack, RestClean, RestRelocate, RestKill, RestFault
    <3>. QED
      BY <3>1, RestAssumption DEF RestTypeOK
  <2>. QED
    BY <1>1, <1>2, <1>4, <2>1, <2>2, LoneSteps DEF RestLone
<1>. QED
  BY <1>3, <1>4

--------------------------------------------------------------------------------
(* Processes that restore one folder at once. *)

LEMMA SharedStart ==
    ASSUME RestTypeOK, RestShape, NEW p \in RestRestorers, RestStart(p), RestStarted = {},
           restFolders' = 1
    PROVE  RestSharedNow'
<1>. USE DEF RestTypeOK
<1>1. \A q \in RestRestorers :
        /\ restAt[q] = "idle" /\ restInstalled[q] = {} /\ restBackup[q][1] = "none"
  BY RestAssumption DEF RestStarted, RestShape, RestAllIndexes
<1>2. /\ \A q \in RestRestorers : restAt'[q] = IF q = p THEN "unpack" ELSE "idle"
      /\ UNCHANGED <<restInstalled, restBackup>> /\ restIndex'[p] = 1
      /\ restDest'[1] \in {RestOld, "none"}
  BY <1>1, RestAssumption DEF RestStart, RestGo, RestAllIndexes
<1>3. RestSharedShape' /\ RestOwners' /\ RestOldIsUnique' /\ RestOneIsPast'
  BY <1>1, <1>2, RestAssumption
  DEF RestSharedShape, RestOwners, RestOldIsUnique, RestOneIsPast, RestPast
<1>4. RestSomethingComes' /\ RestOldIsMoved'
  BY <1>2 DEF RestSomethingComes, RestOldIsMoved, RestPutsSomething
<1>. QED
  BY <1>3, <1>4 DEF RestSharedNow

LEMMA SharedSteps ==
    ASSUME RestTypeOK, RestShape, RestSharedNow, NEW p \in RestRestorers, RestStep(p),
           RestStarted # {}, restFaults = 0, restFaults' = 0, restFolders = 1
    PROVE  RestSharedNow'
<1>. USE DEF RestTypeOK, RestSharedNow
<1>a. /\ \A q \in RestRestorers \ {p} :
           /\ restAt'[q] = restAt[q] /\ restIndex'[q] = restIndex[q]
           /\ restInstalled'[q] = restInstalled[q] /\ restBackup'[q] = restBackup[q]
      /\ RestStarted' = RestStarted \cup {p}
  BY RestStepsAreOfOneProcess
<1>b. RestTwo' => RestTwo
  BY <1>a DEF RestTwo
<1>c. ~RestFault /\ 1 \in RestAllIndexes /\ RestIndexes = {1}
  BY RestAssumption DEF RestFault, RestAllIndexes, RestIndexes
<1>d. /\ RestOld # "none" /\ p # "none" /\ p # RestOld
      /\ \A q \in RestRestorers : q # "none" /\ q # RestOld
      /\ restDest[1] \in RestRestorers \cup {RestOld, "none"}
      /\ \A q \in RestRestorers : restBackup[q][1] \in RestRestorers \cup {RestOld, "none"}
  BY <1>c, RestAssumption DEF RestOutputs
<1>1. CASE RestStart(p)
  <2>1. ~(\A q \in RestRestorers : restAt[q] = "idle")
    BY DEF RestStarted
  <2>2. /\ restAt[p] = "idle" /\ restAt'[p] = "unpack" /\ restIndex'[p] = 1
        /\ UNCHANGED <<restDest, restBackup, restInstalled>>
        /\ restInstalled[p] = {} /\ restBackup[p][1] = "none"
    BY <1>1, <1>c, <2>1 DEF RestStart, RestGo, RestShape
  <2>3. RestSharedShape' /\ RestOwners' /\ RestOldIsUnique'
    BY <1>a, <2>2 DEF RestSharedShape, RestOwners, RestOldIsUnique, RestPast
  <2>4. RestSomethingComes'
    BY <1>a, <1>b, <2>2 DEF RestSomethingComes, RestPutsSomething
  <2>5. RestOneIsPast'
    BY <1>a, <1>b, <2>2 DEF RestOneIsPast, RestPast
  <2>6. RestOldIsMoved'
    BY <1>a, <1>b, <2>2 DEF RestOldIsMoved
  <2>. QED
    BY <2>3, <2>4, <2>5, <2>6
<1>2. CASE RestUnpack(p)
  <2>1. /\ restAt[p] = "unpack" /\ restAt'[p] = "look" /\ restIndex'[p] = 1
        /\ UNCHANGED <<restDest, restBackup, restInstalled>>
    BY <1>2, <1>c DEF RestUnpack, RestGo
  <2>2. RestSharedShape' /\ RestOwners' /\ RestOldIsUnique'
    BY <1>a, <2>1 DEF RestSharedShape, RestOwners, RestOldIsUnique, RestPast
  <2>3. RestSomethingComes'
    BY <1>a, <1>b, <2>1 DEF RestSomethingComes, RestPutsSomething
  <2>4. RestOneIsPast'
    BY <1>a, <1>b, <2>1 DEF RestOneIsPast, RestPast
  <2>5. RestOldIsMoved'
    BY <1>a, <1>b, <2>1 DEF RestOldIsMoved
  <2>. QED
    BY <2>2, <2>3, <2>4, <2>5
<1>3. CASE RestLook(p)
  <2>1. /\ restAt[p] = "look" /\ restIndex[p] = 1
        /\ UNCHANGED <<restDest, restBackup, restInstalled>>
        /\ IF restDest[1] = "none" THEN restAt'[p] = "install" ELSE restAt'[p] = "move"
    BY <1>3, <1>c DEF RestLook, RestGo, RestNextIndex, RestShape
  <2>2. RestSharedShape' /\ RestOwners' /\ RestOldIsUnique'
    BY <1>a, <2>1 DEF RestSharedShape, RestOwners, RestOldIsUnique, RestPast
  <2>3. RestSomethingComes'
    BY <1>a, <1>b, <1>d, <2>1 DEF RestSomethingComes, RestPutsSomething
  <2>4. RestOneIsPast'
    BY <1>a, <1>b, <1>d, <2>1 DEF RestOneIsPast, RestPast
  <2>5. RestOldIsMoved'
    BY <1>a, <1>b, <1>d, <2>1 DEF RestOldIsMoved
  <2>. QED
    BY <2>2, <2>3, <2>4, <2>5
<1>4. CASE RestMoveAway(p)
  <2>1. /\ restAt[p] = "move" /\ restIndex[p] = 1 /\ restBackup[p][1] = "none"
        /\ restInstalled' = restInstalled /\ restInstalled[p] = {}
    BY <1>4, <1>c DEF RestMoveAway, RestShape, RestSharedShape, RestPast
  <2>2. CASE restDest[1] # "none"
    <3>1. /\ restBackup' = [restBackup EXCEPT ![p][1] = restDest[1]]
          /\ restDest' = [restDest EXCEPT ![1] = "none"]
          /\ RestNextIndex(p, "look", "install")
      BY <1>4, <1>c, <2>1, <2>2 DEF RestMoveAway
    <3>2. /\ restBackup'[p][1] = restDest[1] /\ restDest'[1] = "none"
          /\ restAt'[p] = "install"
      BY <1>c, <2>1, <3>1 DEF RestNextIndex, RestGo
    <3>3. RestSharedShape' /\ RestOwners' /\ RestOldIsUnique'
      BY <1>a, <1>d, <2>1, <3>2 DEF RestSharedShape, RestOwners, RestOldIsUnique, RestPast
    <3>4. RestSomethingComes' /\ RestOldIsMoved'
      BY <1>d, <3>2 DEF RestSomethingComes, RestOldIsMoved, RestPutsSomething
    <3>5. ASSUME NEW r \in RestRestorers, restAt'[r] \in {"undo", "putBack"},
                 restBackup'[r][1] = RestOld
          PROVE  /\ \E q \in RestRestorers \ {r} : restAt'[q] \in RestPast
                 /\ ~RestTwo'
      <4>1. /\ r # p /\ restAt[r] \in {"undo", "putBack"} /\ restBackup[r][1] = RestOld
        BY <1>a, <3>2, <3>5
      <4>2. PICK q \in RestRestorers \ {r} : restAt[q] \in RestPast
        BY <4>1 DEF RestOneIsPast
      <4>3. q # p /\ restAt'[q] \in RestPast
        BY <1>a, <2>1, <4>2 DEF RestPast
      <4>4. {p, q, r} \subseteq RestStarted
        BY <2>1, <4>1, <4>2 DEF RestStarted, RestPast
      <4>5. ~RestTwo
        BY <4>1, <4>2, <4>3, <4>4 DEF RestTwo
      <4>. QED
        BY <1>b, <4>3, <4>5
    <3>6. RestOneIsPast'
      BY <3>5 DEF RestOneIsPast
    <3>. QED
      BY <3>3, <3>4, <3>6
  <2>3. CASE restDest[1] = "none"
    <3>1. /\ restAt'[p] = "undo" /\ restIndex'[p] = 1 /\ UNCHANGED <<restBackup, restDest>>
      BY <1>4, <1>c, <2>1, <2>3 DEF RestMoveAway, RestGo
    <3>2. RestSharedShape' /\ RestOwners' /\ RestOldIsUnique'
      BY <1>a, <2>1, <3>1 DEF RestSharedShape, RestOwners, RestOldIsUnique, RestPast
    <3>3. RestSomethingComes' /\ RestOneIsPast' /\ RestOldIsMoved'
      BY <1>a, <1>b, <1>d, <2>1, <2>3, <3>1
      DEF RestSomethingComes, RestOneIsPast, RestOldIsMoved, RestPutsSomething, RestPast
    <3>. QED
      BY <3>2, <3>3
  <2>. QED
    BY <2>2, <2>3
<1>5. CASE RestInstall(p)
  <2>1. /\ restAt[p] = "install" /\ restIndex[p] = 1 /\ restBackup' = restBackup
    BY <1>5, <1>c DEF RestInstall, RestShape
  <2>2. CASE restDest[1] = "none"
    <3>1. /\ restDest'[1] = p /\ restAt'[p] = "clean"
      BY <1>5, <1>c, <2>1, <2>2 DEF RestInstall, RestNextIndex, RestGo
    <3>2. RestSharedShape' /\ RestOwners' /\ RestOldIsUnique'
      BY <1>a, <1>d, <2>1, <3>1 DEF RestSharedShape, RestOwners, RestOldIsUnique, RestPast
    <3>3. RestSomethingComes' /\ RestOneIsPast' /\ RestOldIsMoved'
      BY <1>a, <1>b, <1>d, <2>1, <3>1
      DEF RestSomethingComes, RestOneIsPast, RestOldIsMoved, RestPast
    <3>. QED
      BY <3>2, <3>3
  <2>3. CASE restDest[1] # "none"
    <3>1. /\ restAt'[p] = "undo" /\ restIndex'[p] = 1 /\ UNCHANGED <<restDest, restInstalled>>
      BY <1>5, <1>c, <2>1, <2>3 DEF RestInstall, RestGo
    <3>2. RestSharedShape' /\ RestOwners' /\ RestOldIsUnique'
      BY <1>a, <2>1, <3>1 DEF RestSharedShape, RestOwners, RestOldIsUnique, RestPast
    <3>3. RestSomethingComes' /\ RestOldIsMoved'
      BY <1>a, <1>b, <2>1, <2>3, <3>1 DEF RestSomethingComes, RestOldIsMoved
    <3>4. restBackup[p][1] = RestOld => \E q \in RestRestorers \ {p} : restAt[q] \in RestPast
      BY <1>d, <2>1, <2>3 DEF RestOwners, RestOldIsUnique, RestPast
    <3>5. RestOneIsPast'
      BY <1>a, <1>b, <2>1, <2>3, <3>1, <3>4 DEF RestOneIsPast, RestPast
    <3>. QED
      BY <3>2, <3>3, <3>5
  <2>. QED
    BY <2>2, <2>3
<1>6. CASE RestUndo(p)
  <2>1. restAt[p] = "undo" /\ restInstalled[p] = {} /\ restBackup' = restBackup
    BY <1>6 DEF RestUndo, RestSharedShape, RestPast
  <2>2. /\ restAt'[p] = "putBack" /\ restIndex'[p] = 1 /\ UNCHANGED <<restDest, restInstalled>>
    BY <1>6, <2>1 DEF RestUndo, RestGo
  <2>3. RestSharedShape' /\ RestOwners' /\ RestOldIsUnique'
    BY <1>a, <2>1, <2>2 DEF RestSharedShape, RestOwners, RestOldIsUnique, RestPast
  <2>4. RestSomethingComes' /\ RestOneIsPast' /\ RestOldIsMoved'
    BY <1>a, <1>b, <2>1, <2>2
    DEF RestSomethingComes, RestOneIsPast, RestOldIsMoved, RestPutsSomething, RestPast
  <2>. QED
    BY <2>3, <2>4
<1>7. CASE RestPutBack(p)
  <2>. DEFINE waiting == {i \in RestIndexes : restBackup[p][i] # "none" /\ i >= restIndex[p]}
  <2>1. restAt[p] = "putBack" /\ restInstalled' = restInstalled /\ restInstalled[p] = {}
    BY <1>7 DEF RestPutBack, RestSharedShape, RestPast
  <2>2. CASE waiting = {}
    <3>1. restAt'[p] = "fail" /\ UNCHANGED <<restDest, restBackup>>
      BY <1>7, <2>2 DEF RestPutBack, RestGo
    <3>2. ~RestPutsSomething(p)
      BY <1>c, <2>1, <2>2 DEF RestPutsSomething
    <3>3. RestSharedShape' /\ RestOwners' /\ RestOldIsUnique'
      BY <1>a, <2>1, <3>1 DEF RestSharedShape, RestOwners, RestOldIsUnique, RestPast
    <3>4. RestSomethingComes'
      BY <1>a, <1>b, <2>1, <3>1, <3>2 DEF RestSomethingComes, RestPutsSomething
    <3>5. RestOneIsPast'
      BY <1>a, <1>b, <2>1, <3>1, <3>2 DEF RestOneIsPast, RestPast
    <3>6. RestOldIsMoved'
      BY <1>a, <1>b, <2>1, <3>1, <3>2 DEF RestOldIsMoved
    <3>. QED
      BY <3>3, <3>4, <3>5, <3>6
  <2>3. CASE waiting # {}
    <3>1. PICK i \in waiting :
            /\ \/ /\ restDest[i] = "none"
                  /\ restDest' = [restDest EXCEPT ![i] = restBackup[p][i]]
                  /\ restBackup' = [restBackup EXCEPT ![p][i] = "none"]
               \/ /\ restDest[i] # "none"
                  /\ UNCHANGED <<restDest, restBackup>>
            /\ restAt' = restAt
      BY <1>7, <1>c, <2>3 DEF RestPutBack, RestMayPutBack
    <3>2. i = 1 /\ restBackup[p][1] # "none"
      BY <1>c, <3>1
    <3>. HIDE DEF waiting
    <3>3. CASE /\ restDest[1] = "none"
               /\ restDest' = [restDest EXCEPT ![1] = restBackup[p][1]]
               /\ restBackup' = [restBackup EXCEPT ![p][1] = "none"]
      <4>1. restDest'[1] = restBackup[p][1] /\ restBackup'[p][1] = "none"
        BY <1>c, <3>3
      <4>2. RestSharedShape'
        BY <1>a, <1>d, <2>1, <3>1, <4>1 DEF RestSharedShape, RestPast
      <4>6. RestOwners'
        BY <1>a, <1>d, <2>1, <3>1, <4>1 DEF RestOwners, RestPast
      <4>7. RestOldIsUnique'
        BY <1>a, <1>d, <2>1, <3>1, <4>1 DEF RestOldIsUnique
      <4>3. RestSomethingComes'
        BY <3>2, <4>1 DEF RestSomethingComes
      <4>4. RestOneIsPast'
        BY <1>a, <1>d, <3>1, <3>2, <4>1 DEF RestOneIsPast, RestPast
      <4>5. RestOldIsMoved'
        BY <1>b, <2>1, <3>3, <4>1 DEF RestOldIsMoved, RestOneIsPast
      <4>. QED
        BY <4>2, <4>3, <4>4, <4>5, <4>6, <4>7
    <3>4. CASE restDest[1] # "none" /\ UNCHANGED <<restDest, restBackup>>
      <4>1. RestSharedShape' /\ RestOwners' /\ RestOldIsUnique'
        BY <1>a, <2>1, <3>1, <3>4 DEF RestSharedShape, RestOwners, RestOldIsUnique, RestPast
      <4>2. RestSomethingComes' /\ RestOneIsPast' /\ RestOldIsMoved'
        BY <1>b, <3>1, <3>4 DEF RestSomethingComes, RestOneIsPast, RestOldIsMoved
      <4>. QED
        BY <4>1, <4>2
    <3>. QED
      BY <3>1, <3>2, <3>3, <3>4
  <2>. QED
    BY <2>2, <2>3
<1>8. CASE RestClean(p)
  <2>1. /\ UNCHANGED <<restDest, restInstalled>> /\ restBackup'[p][1] = "none"
        /\ \/ restAt[p] = "clean" /\ restAt'[p] = "relocate"
           \/ restAt[p] = "fail" /\ restAt'[p] = "failed"
    BY <1>8, <1>c DEF RestClean, RestGo
  <2>2. RestSharedShape'
    BY <1>a, <1>d, <2>1 DEF RestSharedShape, RestPast
  <2>6. RestOwners'
    BY <1>a, <1>d, <2>1 DEF RestOwners, RestPast
  <2>7. RestOldIsUnique'
    BY <1>a, <1>d, <2>1 DEF RestOldIsUnique
  <2>3. RestSomethingComes'
    BY <1>a, <1>b, <2>1 DEF RestSomethingComes, RestPutsSomething
  <2>4. RestOneIsPast'
    BY <1>a, <1>b, <2>1 DEF RestOneIsPast, RestPast
  <2>5. RestOldIsMoved'
    BY <1>a, <1>b, <2>1 DEF RestOldIsMoved
  <2>. QED
    BY <2>2, <2>3, <2>4, <2>5, <2>6, <2>7
<1>9. CASE RestRelocate(p)
  <2>1. /\ UNCHANGED <<restDest, restInstalled, restBackup>>
        /\ restAt[p] = "relocate" /\ restAt'[p] = "restored"
    BY <1>9, <1>c DEF RestRelocate, RestGo
  <2>2. RestSharedShape' /\ RestOwners' /\ RestOldIsUnique'
    BY <1>a, <2>1 DEF RestSharedShape, RestOwners, RestOldIsUnique, RestPast
  <2>3. RestSomethingComes' /\ RestOneIsPast' /\ RestOldIsMoved'
    BY <1>a, <1>b, <2>1
    DEF RestSomethingComes, RestOneIsPast, RestOldIsMoved, RestPutsSomething, RestPast
  <2>. QED
    BY <2>2, <2>3
<1>10. CASE RestKill(p)
  BY <1>10, <1>c DEF RestKill
<1>. QED
  BY <1>1, <1>2, <1>3, <1>4, <1>5, <1>6, <1>7, <1>8, <1>9, <1>10 DEF RestStep

LEMMA SharedStays ==
    ASSUME RestTypeOK, RestShape, RestShared, NEW p \in RestRestorers, RestStep(p)
    PROVE  RestShared'
<1>. SUFFICES ASSUME restFaults' = 0, restFolders' = 1
              PROVE  RestSharedNow'
  BY DEF RestShared
<1>1. /\ restAt[p] = "idle" => RestStart(p)
      /\ restAt[p] # "idle" => RestFixed
  BY RestStepsAreOfOneProcess
<1>2. restFaults = 0
  <2>1. restFaults' = restFaults \/ restFaults' = restFaults + 1
    BY DEF RestStep, RestStart, RestUnpack, RestLook, RestMoveAway, RestInstall, RestUndo,
           RestPutBack, RestClean, RestRelocate, RestKill, RestFault
  <2>. QED
    BY <2>1, RestAssumption DEF RestTypeOK
<1>3. CASE RestStarted = {}
  <2>1. RestStart(p)
    BY <1>1, <1>3 DEF RestStarted
  <2>. QED
    BY <1>3, <2>1, SharedStart
<1>4. CASE RestStarted # {}
  <2>1. restFolders' = restFolders
    BY <1>1, <1>4 DEF RestStart, RestFixed, RestStarted
  <2>. QED
    BY <1>2, <1>4, <2>1, SharedSteps DEF RestShared
<1>. QED
  BY <1>3, <1>4

--------------------------------------------------------------------------------
(* The inductive invariant of a restore, and the theorems. *)
RestIInv == RestTypeOK /\ RestShape /\ RestLone /\ RestShared

LEMMA RestoresBegin == RestInit => RestIInv
<1>. SUFFICES ASSUME RestInit
              PROVE  RestIInv
  OBVIOUS
<1>1. RestTypeOK
  <2>1. /\ 1 \in 1..(RestMaxFolders + 1) /\ 1 \in RestAllIndexes
        /\ 0 \in 0..RestMaxFaults
    BY RestAssumption DEF RestAllIndexes
  <2>. QED
    BY <2>1 DEF RestInit, RestTypeOK
<1>2. RestStarted = {}
  BY DEF RestInit, RestStarted
<1>3. RestShape
  BY DEF RestInit, RestShape
<1>. QED
  BY <1>1, <1>2, <1>3 DEF RestIInv, RestLone, RestShared

LEMMA RestInduction == RestSpec => []RestIInv
<1>1. RestIInv /\ [RestNext]_restVars => RestIInv'
  <2>. SUFFICES ASSUME RestIInv, [RestNext]_restVars
                PROVE  RestIInv'
    OBVIOUS
  <2>1. CASE RestNext
    <3>1. PICK p \in RestRestorers : RestStep(p)
      BY <2>1 DEF RestNext
    <3>. QED
      BY <3>1, RestTypesStay, RestShapeStays, LoneStays, SharedStays DEF RestIInv
  <2>2. CASE UNCHANGED restVars
    <3>1. RestTypeOK' /\ RestShape'
      BY <2>2 DEF restVars, RestIInv, RestTypeOK, RestShape, RestIndexes
    <3>2. RestLone'
      <4>1. /\ RestStarted' = RestStarted /\ UNCHANGED <<restFaults, restAt, restInstalled, restHad>>
            /\ RestIndexes' = RestIndexes /\ restFolders' = restFolders /\ RestWas' = RestWas
        BY <2>2 DEF restVars, RestStarted, RestIndexes, RestWas
      <4>2. ASSUME NEW p \in RestRestorers
            PROVE  RestLoneAt(p)' = RestLoneAt(p)
        <5>1. \A v : RestAllHold(v)' = RestAllHold(v)
          BY <2>2, <4>1 DEF restVars, RestAllHold
        <5>2. \A m, b : RestGoingBack(p, m, b)' = RestGoingBack(p, m, b)
          BY <2>2, <4>1 DEF restVars, RestGoingBack
        <5>3. \A b : RestPuttingBack(p, b)' = RestPuttingBack(p, b)
          BY <2>2, <4>1 DEF restVars, RestPuttingBack
        <5>4. UNCHANGED <<restDest, restBackup, restIndex>>
          BY <2>2 DEF restVars
        <5>. QED
          BY <4>1, <5>1, <5>2, <5>3, <5>4, SMT DEF RestLoneAt
      <4>. QED
        BY <4>1, <4>2 DEF RestIInv, RestLone
    <3>3. RestShared'
      BY <2>2
      DEF restVars, RestIInv, RestShared, RestSharedNow, RestSharedShape, RestOwners,
          RestOldIsUnique, RestSomethingComes, RestPutsSomething, RestOneIsPast,
          RestOldIsMoved, RestTwo, RestStarted
    <3>. QED
      BY <3>1, <3>2, <3>3 DEF RestIInv
  <2>. QED
    BY <2>1, <2>2
<1>. QED
  BY RestoresBegin, <1>1, PTL DEF RestSpec

LEMMA FoldersAreOfOneBuild == RestIInv => RestOneBuild
<1>. SUFFICES ASSUME RestIInv, RestAllEnded, RestStarted # {}
              PROVE  /\ restFaults <= 1 /\ Cardinality(RestStarted) = 1
                          => Cardinality({restDest[i] : i \in RestIndexes}) = 1
                     /\ restFaults = 0 /\ restFolders = 1
                          => /\ restDest[1] # "none"
                             /\ Cardinality(RestStarted) <= 2
                                  => restDest[1] \in RestRestorers
  BY DEF RestOneBuild
<1>a. IsFiniteSet(RestStarted) /\ RestStarted \subseteq RestRestorers
  BY RestAssumption, FS_Subset DEF RestStarted
<1>1. ASSUME restFaults <= 1, Cardinality(RestStarted) = 1
      PROVE  Cardinality({restDest[i] : i \in RestIndexes}) = 1
  <2>1. PICK p : RestStarted = {p}
    BY <1>a, <1>1, FS_Singleton
  <2>2. p \in RestRestorers /\ restAt[p] \in {"restored", "failed"}
    BY <1>a, <2>1 DEF RestAllEnded, RestStarted
  <2>3. RestLoneAt(p)
    BY <1>1, <2>1, <2>2 DEF RestIInv, RestLone
  <2>4. RestAllHold(RestWas) \/ RestAllHold(p)
    BY <2>2, <2>3 DEF RestLoneAt, RestPast
  <2>5. 1 \in RestIndexes
    BY RestAssumption DEF RestIInv, RestTypeOK, RestIndexes, RestAllIndexes
  <2>6. \E v : {restDest[i] : i \in RestIndexes} = {v}
    BY <2>4, <2>5 DEF RestAllHold
  <2>. QED
    BY <2>6, FS_Singleton
<1>2. ASSUME restFaults = 0, restFolders = 1
      PROVE  /\ restDest[1] # "none"
             /\ Cardinality(RestStarted) <= 2 => restDest[1] \in RestRestorers
  <2>1. RestSharedNow
    BY <1>2 DEF RestIInv, RestShared
  <2>2. restDest[1] # "none"
    BY <2>1 DEF RestSharedNow, RestSomethingComes, RestPutsSomething, RestAllEnded
  <2>3. ASSUME Cardinality(RestStarted) <= 2
        PROVE  restDest[1] # RestOld
    <3>1. PICK p \in RestRestorers : p \in RestStarted
      BY <1>a
    <3>2. /\ IsFiniteSet(RestStarted \ {p})
          /\ Cardinality(RestStarted \ {p}) = Cardinality(RestStarted) - 1
          /\ Cardinality(RestStarted) \in Nat
      BY <1>a, <3>1, FS_RemoveElement, FS_CardinalityType
    <3>3. Cardinality(RestStarted \ {p}) \in {0, 1}
      <4>1. Cardinality(RestStarted \ {p}) \in Nat
        BY <3>2, FS_CardinalityType
      <4>. QED
        BY <2>3, <3>2, <4>1
    <3>4. RestStarted \ {p} = {} \/ \E q : RestStarted \ {p} = {q}
      BY <3>2, <3>3, FS_EmptySet, FS_Singleton
    <3>5. RestTwo
      BY <1>a, <3>1, <3>4 DEF RestTwo
    <3>. QED
      BY <2>1, <3>5 DEF RestSharedNow, RestOldIsMoved, RestAllEnded
  <2>4. restDest[1] \in RestRestorers \cup {RestOld, "none"}
    BY RestAssumption DEF RestIInv, RestTypeOK, RestOutputs, RestAllIndexes
  <2>. QED
    BY <2>2, <2>3, <2>4
<1>. QED
  BY <1>1, <1>2

LEMMA OldFoldersAreKept == RestIInv => RestNothingIsLost
<1>. SUFFICES ASSUME RestIInv, NEW p \in RestRestorers, NEW i \in RestIndexes,
                     RestStarted = {p}, restFaults <= 1, restHad
              PROVE  \/ restDest[i] = RestOld \/ restBackup[p][i] = RestOld
                     \/ \A j \in RestIndexes : restDest[j] = p
  BY DEF RestNothingIsLost
<1>1. RestLoneAt(p) /\ RestWas = RestOld
  BY DEF RestIInv, RestLone, RestWas
<1>2. restAt[p] \in RestEnded \cup {"unpack", "look", "move", "install", "undo", "putBack",
                                    "clean", "fail", "relocate"}
  BY DEF RestIInv, RestTypeOK, RestStarted
<1>3. CASE restAt[p] = "undo"
  <2>1. PICK m \in 0..restFolders, b \in 0..restFolders : RestGoingBack(p, m, b)
    BY <1>1, <1>3 DEF RestLoneAt
  <2>2. i \in Nat /\ m \in Nat /\ b \in Nat /\ m <= b
    BY <2>1, RestAssumption DEF RestIInv, RestTypeOK, RestIndexes, RestAllIndexes, RestGoingBack
  <2>. QED
    BY <1>1, <2>1, <2>2 DEF RestGoingBack
<1>4. CASE restAt[p] = "putBack"
  BY <1>1, <1>4 DEF RestLoneAt, RestPuttingBack
<1>5. CASE restAt[p] \notin {"undo", "putBack"}
  BY <1>1, <1>2, <1>5 DEF RestLoneAt, RestAllHold, RestEnded, RestPast
<1>. QED
  BY <1>3, <1>4, <1>5

(* Whatever processes restore, fail and are killed, folders hold outputs and processes
   are where the code has a step (restore_build_outputs). *)
THEOREM RestoresAreTyped == RestSpec => []RestTypeOK
  BY RestInduction, PTL DEF RestIInv

(* A restore that has the project to itself leaves one build and loses none to a failure
   or a kill; of restores at once the only folder is there afterwards, and is a restored
   one if they were two (restore_build_outputs, install_restored_build_outputs). *)
THEOREM RestoresAreSafe == RestSpec => []RestSafety
<1>1. RestIInv => RestSafety
  BY FoldersAreOfOneBuild, OldFoldersAreKept DEF RestSafety
<1>. QED
  BY <1>1, RestInduction, PTL

(* Both: what a task leaves is one build, here and where its bundle is installed. *)
THEOREM ResultsAreSafe == RestSpec /\ BunSpec => []ResultsSafety
<1>1. RestSafety /\ BunPublishedIsUsable => ResultsSafety
  BY DEF ResultsSafety
<1>. QED
  BY <1>1, RestoresAreSafe, PublishedBundlesAreUsable, PTL
================================================================================

------------------------------ MODULE SessionProofs ------------------------------
(***************************************************************************)
(* What `gomo watch` and `gomo dev` promise of an edit, and what a run     *)
(* promises of the processes that it starts and of the screen that it      *)
(* draws, proved: for any projects, layouts and command lines, any number  *)
(* of edits, and any processes, logs and keys.                             *)
(***************************************************************************)
EXTENDS Sessions, Processes, SequenceTheorems, FiniteSetTheorems, WellFoundedInduction,
        TLAPS

--------------------------------------------------------------------------------
(* Channels. *)

(* What is in a channel after a batch was sent, *)
LEMMA SentBatches ==
    ASSUME NEW B, NEW q \in Seq(B), NEW b \in B
    PROVE  /\ Append(q, b) \in Seq(B)
           /\ \A i \in 1..Len(q) : i \in 1..Len(Append(q, b)) /\ Append(q, b)[i] = q[i]
           /\ \E i \in 1..Len(Append(q, b)) : Append(q, b)[i] = b
           /\ \A i \in 1..Len(Append(q, b)) :
                Append(q, b)[i] = b \/ (i \in 1..Len(q) /\ Append(q, b)[i] = q[i])
<1>1. /\ Append(q, b) \in Seq(B) /\ Len(q) \in Nat
      /\ Len(Append(q, b)) = Len(q) + 1
      /\ \A i \in 1..Len(q) : Append(q, b)[i] = q[i]
      /\ Append(q, b)[Len(q) + 1] = b
  BY AppendProperties, LenProperties
<1>. QED
  BY <1>1

(* and after one was taken. *)
LEMMA TakenBatches ==
    ASSUME NEW B, NEW q \in Seq(B), q # <<>>
    PROVE  /\ Head(q) \in B /\ Tail(q) \in Seq(B)
           /\ \E i \in 1..Len(q) : q[i] = Head(q)
           /\ \A i \in 1..Len(q) :
                q[i] = Head(q) \/ \E j \in 1..Len(Tail(q)) : Tail(q)[j] = q[i]
           /\ \A j \in 1..Len(Tail(q)) : \E i \in 1..Len(q) : q[i] = Tail(q)[j]
<1>1. /\ Head(q) \in B /\ Tail(q) \in Seq(B) /\ Len(q) \in Nat
      /\ Len(Tail(q)) = Len(q) - 1
      /\ \A i \in 1..Len(Tail(q)) : Tail(q)[i] = q[i + 1]
  BY HeadTailProperties, LenProperties
<1>2. Head(q) = q[1] /\ Len(q) # 0
  BY EmptySeq
<1>3. \A i \in 1..Len(q) : i = 1 \/ (i - 1 \in 1..Len(Tail(q)) /\ Tail(q)[i - 1] = q[i])
  BY <1>1, <1>2
<1>4. \A j \in 1..Len(Tail(q)) : j + 1 \in 1..Len(q) /\ q[j + 1] = Tail(q)[j]
  BY <1>1
<1>5. 1 \in 1..Len(q)
  BY <1>1, <1>2
<1>. QED
  BY <1>1, <1>2, <1>3, <1>4, <1>5

--------------------------------------------------------------------------------
(* `gomo dev`. *)

DvBatches == [source : BOOLEAN, structural : BOOLEAN, stopped : BOOLEAN]

(* The types, and what goes with where the session is. *)
DvSessionIsTyped ==
    /\ dvAt \in {"idle", "first", "loop", "building", "ended"}
    /\ dvSurface \in BOOLEAN /\ dvWatched \in BOOLEAN /\ dvCancelled \in BOOLEAN
    /\ dvUnseen \in BOOLEAN /\ dvMissed \in BOOLEAN
    /\ dvDisk \in DvLayouts \cup {DvNone} /\ dvHeld \in DvLayouts \cup {DvNone}
    /\ dvEdits \in 0..DvMaxEdits /\ dvVersion \in 0..dvEdits
    /\ dvGood \in 0..dvVersion /\ dvFailed \in -1..dvVersion
    /\ dvQueue \in Seq(DvBatches)
    /\ dvProcess = [running |-> dvProcess.running, root |-> dvProcess.root,
                     command |-> dvProcess.command]
    /\ dvProcess.running \in BOOLEAN
    /\ dvAt \in {"first", "building"} =>
         /\ dvBuild = [layout |-> dvBuild.layout, from |-> dvBuild.from,
                       structural |-> dvBuild.structural]
         /\ dvBuild.layout \in DvLayouts /\ dvBuild.from \in 0..dvVersion
         /\ dvBuild.structural \in BOOLEAN
         /\ ~dvBuild.structural => dvBuild.layout = dvHeld
    /\ dvAt \notin {"first", "building"} => dvBuild = DvNoBuild
    /\ dvAt \in {"idle", "first"} => ~dvWatched /\ ~dvProcess.running /\ dvQueue = <<>>
    /\ dvAt = "idle" => ~dvUnseen /\ dvVersion = 0
    /\ dvAt # "idle" => dvHeld \in DvLayouts

(* The changes that a batch in the channel tells of. *)
DvSourceComes == \E i \in 1..Len(dvQueue) : dvQueue[i].source
DvLayoutComes == \E i \in 1..Len(dvQueue) : dvQueue[i].structural

(* A change is in the last build, in the one that runs, or on its way. *)
DvSourceIsKnown ==
    ~dvUnseen =>
        /\ dvAt = "first" => dvVersion = 0
        /\ dvAt = "loop" => dvGood = dvVersion \/ dvFailed = dvVersion \/ DvSourceComes
        /\ dvAt = "building" => dvBuild.from = dvVersion \/ DvSourceComes
DvLayoutIsKnown ==
    ~dvUnseen =>
        /\ dvAt = "first" => dvHeld = dvDisk
        /\ dvAt = "loop" => dvMissed \/ dvHeld = dvDisk \/ DvLayoutComes
        /\ dvAt = "building" => dvMissed \/ dvBuild.layout = dvDisk \/ DvLayoutComes

DvIInv ==
    /\ DvSessionIsTyped
    /\ DvSourceIsKnown
    /\ DvLayoutIsKnown
    /\ DvProcessIsConfigured
    /\ DvProcessEnds

--------------------------------------------------------------------------------
(* What the channel tells of a dev session. *)

LEMMA DvSentBatchesTell ==
    ASSUME DvSessionIsTyped, NEW b \in DvBatches, DvSend(b)
    PROVE  /\ dvQueue' \in Seq(DvBatches)
           /\ DvSourceComes \/ b.source => DvSourceComes'
           /\ DvLayoutComes \/ b.structural => DvLayoutComes'
<1>1. dvQueue \in Seq(DvBatches)
  BY DEF DvSessionIsTyped
<1>2. CASE dvQueue' = Append(dvQueue, b)
  BY <1>1, <1>2, SentBatches DEF DvSourceComes, DvLayoutComes
<1>3. ASSUME dvQueue # <<>>,
             LET last == dvQueue[Len(dvQueue)]
             IN  dvQueue' = [dvQueue EXCEPT ![Len(dvQueue)] =
                    [source |-> last.source \/ b.source,
                     structural |-> last.structural \/ b.structural,
                     stopped |-> last.stopped \/ b.stopped]]
      PROVE  /\ dvQueue' \in Seq(DvBatches)
             /\ DvSourceComes \/ b.source => DvSourceComes'
             /\ DvLayoutComes \/ b.structural => DvLayoutComes'
  <2>. DEFINE n == Len(dvQueue)
              last == dvQueue[n]
              both == [source |-> last.source \/ b.source,
                       structural |-> last.structural \/ b.structural,
                       stopped |-> last.stopped \/ b.stopped]
  <2>1. n \in 1..n /\ n \in Nat
    BY <1>1, <1>3, EmptySeq, LenProperties
  <2>2. last \in DvBatches
    BY <1>1, <2>1, ElementOfSeq
  <2>3. both \in DvBatches
    BY <2>2 DEF DvBatches
  <2>4. both.source = (last.source \/ b.source)
        /\ both.structural = (last.structural \/ b.structural)
    OBVIOUS
  <2>5. dvQueue' = [dvQueue EXCEPT ![n] = both]
    BY <1>3
  <2>. HIDE DEF both
  <2>6. /\ dvQueue' \in Seq(DvBatches) /\ Len(dvQueue') = n
        /\ \A i \in 1..n : dvQueue'[i] = IF i = n THEN both ELSE dvQueue[i]
    BY <1>1, <2>1, <2>3, <2>5, ExceptSeq
  <2>. QED
    BY <2>1, <2>4, <2>6 DEF DvSourceComes, DvLayoutComes
<1>. QED
  BY <1>2, <1>3 DEF DvSend

LEMMA DvTakenBatchesTell ==
    ASSUME DvSessionIsTyped, DvTake
    PROVE  /\ DvBatch \in DvBatches /\ dvQueue' \in Seq(DvBatches)
           /\ DvSourceComes => DvBatch.source \/ DvSourceComes'
           /\ DvLayoutComes => DvBatch.structural \/ DvLayoutComes'
<1>1. dvQueue \in Seq(DvBatches) /\ dvQueue # <<>> /\ dvQueue' = Tail(dvQueue)
  BY DEF DvSessionIsTyped, DvTake
<1>. QED
  BY <1>1, TakenBatches DEF DvSourceComes, DvLayoutComes, DvBatch

--------------------------------------------------------------------------------
(* What each step of a dev session keeps. *)

LEMMA DvOpens == DvIInv /\ DvOpen => DvIInv'
<1>. SUFFICES ASSUME DvIInv, DvOpen
              PROVE  DvIInv'
  OBVIOUS
<1>. DEFINE build == [layout |-> dvDisk', from |-> 0, structural |-> FALSE]
<1>1. /\ dvAt = "idle" /\ dvAt' = "first" /\ dvHeld' = dvDisk' /\ dvDisk' \in DvLayouts
      /\ dvSurface' \in BOOLEAN
      /\ UNCHANGED <<dvVersion, dvGood, dvFailed, dvProcess, dvWatched, dvQueue, dvCancelled,
                     dvUnseen, dvMissed, dvEdits>>
  BY DEF DvOpen
<1>2. /\ dvBuild' = [layout |-> dvBuild'.layout, from |-> dvBuild'.from,
                     structural |-> dvBuild'.structural]
      /\ dvBuild'.layout = dvDisk' /\ dvBuild'.from = 0 /\ dvBuild'.structural = FALSE
  <2>1. dvBuild' = build
    BY DEF DvOpen
  <2>. QED
    BY <2>1
<1>3. DvSessionIsTyped'
  <2>1. dvVersion = 0 /\ 0 \in 0..dvVersion
    BY <1>1 DEF DvIInv, DvSessionIsTyped
  <2>2. dvBuild'.from \in 0..dvVersion'
    BY <1>1, <1>2, <2>1
  <2>. QED
    BY <1>1, <1>2, <2>2 DEF DvIInv, DvSessionIsTyped
<1>4. DvSourceIsKnown' /\ DvLayoutIsKnown' /\ DvProcessIsConfigured' /\ DvProcessEnds'
  BY <1>1 DEF DvIInv, DvSessionIsTyped, DvSourceIsKnown, DvLayoutIsKnown,
              DvProcessIsConfigured, DvProcessEnds
<1>. QED
  BY <1>3, <1>4 DEF DvIInv

(* An edit is in the channel afterwards, or it was not seen. *)
LEMMA DvEditsStayKnown ==
    ASSUME DvIInv, NEW b \in DvBatches, DvEdit(b), dvVersion' \in {dvVersion, dvVersion + 1},
           dvVersion' = dvVersion \/ b.source,
           dvDisk' = dvDisk \/ b.structural, dvDisk' \in DvLayouts \cup {DvNone},
           b = DvNoBatch => UNCHANGED <<dvVersion, dvDisk>>
    PROVE  DvIInv'
<1>1. /\ dvAt \notin {"idle", "ended"} /\ dvEdits < DvMaxEdits /\ dvEdits' = dvEdits + 1
      /\ dvUnseen' = (dvUnseen \/ (~dvWatched /\ b # DvNoBatch))
      /\ UNCHANGED <<dvAt, dvSurface, dvGiven, dvHeld, dvGood, dvFailed, dvBuild, dvProcess,
                     dvMissed, dvWatched, dvCancelled>>
  BY DEF DvEdit, DvLive, DvSameSession
<1>2. /\ dvQueue' \in Seq(DvBatches)
      /\ DvSourceComes => DvSourceComes'
      /\ DvLayoutComes => DvLayoutComes'
      /\ dvWatched /\ b.source => DvSourceComes'
      /\ dvWatched /\ b.structural => DvLayoutComes'
      /\ ~dvWatched => dvQueue' = dvQueue
  <2>1. CASE dvWatched
    BY <2>1, DvSentBatchesTell DEF DvEdit, DvIInv
  <2>2. CASE ~dvWatched
    BY <2>2 DEF DvEdit, DvSourceComes, DvLayoutComes, DvIInv, DvSessionIsTyped
  <2>. QED
    BY <2>1, <2>2
<1>3. DvSessionIsTyped'
  BY <1>1, <1>2, DvAssumption DEF DvIInv, DvSessionIsTyped
<1>4. DvSourceIsKnown'
  BY <1>1, <1>2 DEF DvIInv, DvSessionIsTyped, DvSourceIsKnown
<1>5. DvLayoutIsKnown'
  BY <1>1, <1>2 DEF DvIInv, DvSessionIsTyped, DvLayoutIsKnown
<1>6. DvProcessIsConfigured' /\ DvProcessEnds'
  BY <1>1 DEF DvIInv, DvProcessIsConfigured, DvProcessEnds, DvCommand
<1>. QED
  BY <1>3, <1>4, <1>5, <1>6 DEF DvIInv

LEMMA DvUserEdits ==
    DvIInv /\ (DvEditSource \/ DvEditOther \/ \E l \in DvLayouts : DvEditManifest(l)) => DvIInv'
<1>. DEFINE source == [DvNoBatch EXCEPT !.source = TRUE]
            structural == [DvNoBatch EXCEPT !.structural = TRUE]
<1>1. /\ source \in DvBatches /\ source.source /\ source # DvNoBatch
      /\ structural \in DvBatches /\ structural.structural /\ structural # DvNoBatch
      /\ DvNoBatch \in DvBatches
  BY DEF DvBatches, DvNoBatch
<1>2. ASSUME DvIInv, DvEditSource
      PROVE  DvIInv'
  <2>1. DvEdit(source) /\ dvVersion' = dvVersion + 1 /\ UNCHANGED dvDisk
    BY <1>2 DEF DvEditSource
  <2>2. dvDisk' \in DvLayouts \cup {DvNone}
    BY <1>2, <2>1 DEF DvIInv, DvSessionIsTyped
  <2>. HIDE DEF source
  <2>. QED
    BY <1>1, <1>2, <2>1, <2>2, DvEditsStayKnown
<1>3. ASSUME DvIInv, DvEditOther
      PROVE  DvIInv'
  <2>1. DvEdit(DvNoBatch) /\ UNCHANGED <<dvVersion, dvDisk>>
    BY <1>3 DEF DvEditOther
  <2>2. dvDisk' \in DvLayouts \cup {DvNone}
    BY <1>3, <2>1 DEF DvIInv, DvSessionIsTyped
  <2>. QED
    BY <1>1, <1>3, <2>1, <2>2, DvEditsStayKnown
<1>4. ASSUME DvIInv, NEW l \in DvLayouts, DvEditManifest(l)
      PROVE  DvIInv'
  <2>1. DvEdit(structural) /\ UNCHANGED dvVersion /\ dvDisk' = l
    BY <1>4 DEF DvEditManifest
  <2>. HIDE DEF structural
  <2>. QED
    BY <1>1, <1>4, <2>1, DvEditsStayKnown
<1>. QED
  BY <1>2, <1>3, <1>4

LEMMA DvWorldGoesOn == DvIInv /\ (DvWatch \/ DvAskToQuit \/ DvProcessExits) => DvIInv'
<1>1. ASSUME DvIInv, DvWatch
      PROVE  DvIInv'
  <2>1. /\ dvAt \in {"loop", "building"} /\ dvWatched' = TRUE
        /\ UNCHANGED <<dvAt, dvSurface, dvGiven, dvHeld, dvGood, dvFailed, dvBuild, dvProcess,
                       dvMissed, dvDisk, dvVersion, dvQueue, dvCancelled, dvUnseen, dvEdits>>
    BY <1>1 DEF DvWatch, DvSameSession
  <2>2. DvSessionIsTyped'
    BY <1>1, <2>1 DEF DvIInv, DvSessionIsTyped
  <2>. QED
    BY <1>1, <2>1, <2>2 DEF DvIInv, DvSourceIsKnown, DvLayoutIsKnown, DvSourceComes,
                            DvLayoutComes, DvProcessIsConfigured, DvProcessEnds, DvCommand
<1>2. ASSUME DvIInv, DvAskToQuit
      PROVE  DvIInv'
  <2>. DEFINE stop == [DvNoBatch EXCEPT !.stopped = TRUE]
  <2>1. /\ dvCancelled' = TRUE
        /\ UNCHANGED <<dvAt, dvSurface, dvGiven, dvHeld, dvGood, dvFailed, dvBuild, dvProcess,
                       dvMissed, dvDisk, dvVersion, dvWatched, dvUnseen, dvEdits>>
        /\ \/ UNCHANGED dvQueue
           \/ dvWatched /\ DvSend(stop)
    BY <1>2 DEF DvAskToQuit, DvSameSession
  <2>2. stop \in DvBatches
    BY DEF DvBatches, DvNoBatch
  <2>3. /\ dvQueue' \in Seq(DvBatches)
        /\ DvSourceComes => DvSourceComes'
        /\ DvLayoutComes => DvLayoutComes'
        /\ ~dvWatched => dvQueue' = dvQueue
    <3>1. CASE UNCHANGED dvQueue
      BY <1>2, <3>1 DEF DvSourceComes, DvLayoutComes, DvIInv, DvSessionIsTyped
    <3>2. CASE dvWatched /\ DvSend(stop)
      <4>. HIDE DEF stop
      <4>. QED
        BY <1>2, <2>2, <3>2, DvSentBatchesTell DEF DvIInv
    <3>. QED
      BY <2>1, <3>1, <3>2
  <2>4. DvSessionIsTyped'
    BY <1>2, <2>1, <2>3 DEF DvIInv, DvSessionIsTyped
  <2>. QED
    BY <1>2, <2>1, <2>3, <2>4
    DEF DvIInv, DvSourceIsKnown, DvLayoutIsKnown, DvProcessIsConfigured, DvProcessEnds, DvCommand
<1>3. ASSUME DvIInv, DvProcessExits
      PROVE  DvIInv'
  <2>1. /\ dvProcess.running
        /\ dvProcess' = [dvProcess EXCEPT !.running = FALSE]
        /\ UNCHANGED <<dvSurface, dvGiven, dvDisk, dvVersion, dvWatched, dvUnseen, dvEdits,
                       dvAt, dvHeld, dvGood, dvFailed, dvBuild, dvQueue, dvCancelled, dvMissed>>
    BY <1>3 DEF DvProcessExits, DvStopped, DvSame
  <2>2. dvProcess' = [running |-> FALSE, root |-> dvProcess.root, command |-> dvProcess.command]
    BY <1>3, <2>1 DEF DvIInv, DvSessionIsTyped
  <2>3. /\ ~dvProcess'.running /\ dvProcess'.running \in BOOLEAN
        /\ dvProcess'.root = dvProcess.root /\ dvProcess'.command = dvProcess.command
        /\ dvProcess' = [running |-> dvProcess'.running, root |-> dvProcess'.root,
                         command |-> dvProcess'.command]
    BY <2>2
  <2>4. DvSessionIsTyped'
    BY <1>3, <2>1, <2>3 DEF DvIInv, DvSessionIsTyped
  <2>. QED
    BY <1>3, <2>1, <2>3, <2>4
    DEF DvIInv, DvSourceIsKnown, DvLayoutIsKnown, DvSourceComes, DvLayoutComes,
        DvProcessIsConfigured, DvProcessEnds, DvCommand
<1>. QED
  BY <1>1, <1>2, <1>3

LEMMA DvBuildsEnd == DvIInv /\ (DvFirstBuild \/ DvBuildSucceeds \/ DvBuildFails) => DvIInv'
<1>. SUFFICES ASSUME DvIInv
              PROVE  DvFirstBuild \/ DvBuildSucceeds \/ DvBuildFails => DvIInv'
  OBVIOUS
<1>0. /\ DvSessionIsTyped /\ DvSourceIsKnown /\ DvLayoutIsKnown
      /\ DvProcessIsConfigured /\ DvProcessEnds
  BY DEF DvIInv
<1>1. ASSUME DvFirstBuild, dvAt' = "loop", \E v \in 0..dvVersion : DvReads(v) /\ dvGood' = v,
             dvProcess' = DvProcessOf(dvHeld)
      PROVE  DvIInv'
  <2>1. /\ dvAt = "first" /\ dvBuild' = DvNoBuild
        /\ UNCHANGED <<dvSurface, dvGiven, dvDisk, dvVersion, dvWatched, dvUnseen, dvEdits,
                       dvHeld, dvFailed, dvQueue, dvCancelled, dvMissed>>
    BY <1>1 DEF DvFirstBuild, DvSame
  <2>2. dvGood' \in 0..dvVersion
    BY <1>1
  <2>3. /\ dvProcess' = [running |-> dvProcess'.running, root |-> dvProcess'.root,
                         command |-> dvProcess'.command]
        /\ dvProcess'.running = TRUE
        /\ dvProcess'.root = dvHeld.root /\ dvProcess'.command = DvCommand(dvHeld)
    BY <1>1 DEF DvProcessOf
  <2>4. DvSessionIsTyped'
    BY <1>0, <1>1, <2>1, <2>2, <2>3 DEF DvSessionIsTyped
  <2>5. DvSourceIsKnown'
    BY <1>0, <1>1, <2>1, <2>2 DEF DvSessionIsTyped, DvSourceIsKnown
  <2>6. DvLayoutIsKnown' /\ DvProcessIsConfigured' /\ DvProcessEnds'
    BY <1>0, <1>1, <2>1, <2>3 DEF DvLayoutIsKnown, DvProcessIsConfigured, DvProcessEnds, DvCommand
  <2>. QED
    BY <2>4, <2>5, <2>6 DEF DvIInv
<1>2. ASSUME DvFirstBuild, dvAt' = "ended", UNCHANGED <<dvGood, dvProcess>>
      PROVE  DvIInv'
  <2>1. /\ dvAt = "first" /\ dvBuild' = DvNoBuild
        /\ UNCHANGED <<dvSurface, dvGiven, dvDisk, dvVersion, dvWatched, dvUnseen, dvEdits,
                       dvHeld, dvFailed, dvQueue, dvCancelled, dvMissed>>
    BY <1>2 DEF DvFirstBuild, DvSame
  <2>2. DvSessionIsTyped'
    BY <1>0, <1>2, <2>1 DEF DvSessionIsTyped
  <2>3. DvSourceIsKnown' /\ DvLayoutIsKnown' /\ DvProcessIsConfigured'
    BY <1>2 DEF DvSourceIsKnown, DvLayoutIsKnown, DvProcessIsConfigured
  <2>4. DvProcessEnds'
    BY <1>0, <1>2, <2>1 DEF DvSessionIsTyped, DvProcessEnds
  <2>. QED
    BY <2>2, <2>3, <2>4 DEF DvIInv
<1>3. ASSUME DvBuildSucceeds
      PROVE  DvIInv'
  <2>1. /\ dvAt = "building" /\ dvAt' = "loop" /\ dvHeld' = dvBuild.layout /\ dvBuild' = DvNoBuild
        /\ UNCHANGED <<dvSurface, dvGiven, dvDisk, dvVersion, dvWatched, dvUnseen, dvEdits,
                       dvFailed, dvQueue, dvCancelled, dvMissed>>
        /\ dvProcess' = IF dvSurface \/ DvRecreates(dvHeld, dvBuild.layout)
                        THEN DvProcessOf(dvBuild.layout)
                        ELSE [dvProcess EXCEPT !.running = TRUE]
    BY <1>3 DEF DvBuildSucceeds, DvSame
  <2>2. dvGood' \in dvBuild.from..dvVersion /\ dvGood' \in 0..dvVersion
    BY <1>3 DEF DvBuildSucceeds, DvReads
  <2>3. /\ dvProcess' = [running |-> dvProcess'.running, root |-> dvProcess'.root,
                         command |-> dvProcess'.command]
        /\ dvProcess'.running = TRUE
        /\ dvProcess'.root = dvBuild.layout.root
        /\ dvProcess'.command = DvCommand(dvBuild.layout)
    <3>1. CASE dvSurface \/ DvRecreates(dvHeld, dvBuild.layout)
      <4>1. dvProcess' = DvProcessOf(dvBuild.layout)
        BY <2>1, <3>1
      <4>. QED
        BY <4>1 DEF DvProcessOf
    <3>2. CASE ~(dvSurface \/ DvRecreates(dvHeld, dvBuild.layout))
      <4>1. dvProcess' = [dvProcess EXCEPT !.running = TRUE]
        BY <2>1, <3>2
      <4>2. dvProcess = [running |-> dvProcess.running, root |-> dvProcess.root,
                         command |-> dvProcess.command]
        BY <1>0 DEF DvSessionIsTyped
      <4>3. dvProcess' = [running |-> TRUE, root |-> dvProcess.root,
                          command |-> dvProcess.command]
        BY <4>1, <4>2
      <4>4. dvProcess.root = dvBuild.layout.root /\ dvProcess.command = DvCommand(dvBuild.layout)
        BY <1>0, <2>1, <3>2 DEF DvProcessIsConfigured, DvRecreates
      <4>. QED
        BY <4>3, <4>4
    <3>. QED
      BY <3>1, <3>2
  <2>4. DvSessionIsTyped'
    BY <1>0, <2>1, <2>2, <2>3 DEF DvSessionIsTyped
  <2>5. DvSourceIsKnown'
    BY <1>0, <2>1, <2>2 DEF DvSessionIsTyped, DvSourceIsKnown, DvSourceComes
  <2>6. DvLayoutIsKnown'
    BY <1>0, <2>1 DEF DvLayoutIsKnown, DvLayoutComes
  <2>7. DvProcessIsConfigured' /\ DvProcessEnds'
    BY <2>1, <2>3 DEF DvProcessIsConfigured, DvProcessEnds, DvCommand
  <2>. QED
    BY <2>4, <2>5, <2>6, <2>7 DEF DvIInv
<1>4. ASSUME DvBuildFails
      PROVE  DvIInv'
  <2>1. /\ dvAt = "building" /\ dvAt' = "loop" /\ dvBuild' = DvNoBuild
        /\ dvMissed' = (dvMissed \/ dvBuild.structural)
        /\ UNCHANGED <<dvSurface, dvGiven, dvDisk, dvVersion, dvWatched, dvUnseen, dvEdits,
                       dvHeld, dvGood, dvProcess, dvQueue, dvCancelled>>
    BY <1>4 DEF DvBuildFails, DvSame
  <2>2. dvFailed' \in dvBuild.from..dvVersion /\ dvFailed' \in 0..dvVersion
    BY <1>4 DEF DvBuildFails, DvReads
  <2>3. DvSessionIsTyped'
    BY <1>0, <2>1, <2>2 DEF DvSessionIsTyped
  <2>4. DvSourceIsKnown'
    BY <1>0, <2>1, <2>2 DEF DvSessionIsTyped, DvSourceIsKnown, DvSourceComes
  <2>5. DvLayoutIsKnown'
    BY <1>0, <2>1 DEF DvSessionIsTyped, DvLayoutIsKnown, DvLayoutComes
  <2>6. DvProcessIsConfigured' /\ DvProcessEnds'
    BY <1>0, <2>1 DEF DvProcessIsConfigured, DvProcessEnds, DvCommand
  <2>. QED
    BY <2>3, <2>4, <2>5, <2>6 DEF DvIInv
<1>. QED
  BY <1>1, <1>2, <1>3, <1>4 DEF DvFirstBuild

(* The ends of a session: its process has gone, is stopped, or is its owner's. *)
LEMMA DvSessionsEnd ==
    ASSUME DvIInv, dvAt \in {"loop", "ended"}, dvAt' = "ended", dvQueue' \in Seq(DvBatches),
           DvSame, UNCHANGED <<dvHeld, dvGood, dvFailed, dvBuild, dvCancelled, dvMissed>>,
           \/ dvProcess' = DvStopped
           \/ dvProcess' = dvProcess /\ (dvProcess.running => dvSurface /\ ~dvDisk.valid)
    PROVE  DvIInv'
<1>1. /\ dvProcess' = [running |-> dvProcess'.running, root |-> dvProcess'.root,
                       command |-> dvProcess'.command]
      /\ dvProcess'.running \in BOOLEAN
      /\ dvProcess'.running => dvSurface /\ ~dvDisk.valid
  <2>1. /\ dvProcess = [running |-> dvProcess.running, root |-> dvProcess.root,
                        command |-> dvProcess.command]
        /\ dvProcess.running \in BOOLEAN
    BY DEF DvIInv, DvSessionIsTyped
  <2>2. CASE dvProcess' = DvStopped
    <3>1. dvProcess' = [running |-> FALSE, root |-> dvProcess.root, command |-> dvProcess.command]
      BY <2>1, <2>2 DEF DvStopped
    <3>. QED
      BY <3>1
  <2>3. CASE dvProcess' = dvProcess /\ (dvProcess.running => dvSurface /\ ~dvDisk.valid)
    BY <2>1, <2>3
  <2>. QED
    BY <2>2, <2>3
<1>2. DvSessionIsTyped'
  BY <1>1 DEF DvIInv, DvSessionIsTyped, DvSame
<1>3. DvSourceIsKnown' /\ DvLayoutIsKnown' /\ DvProcessIsConfigured'
  BY DEF DvSourceIsKnown, DvLayoutIsKnown, DvProcessIsConfigured
<1>4. DvProcessEnds'
  BY <1>1 DEF DvProcessEnds, DvSame
<1>. QED
  BY <1>2, <1>3, <1>4 DEF DvIInv

LEMMA DvLoopEnds ==
    DvIInv /\ (\/ DvNoticeExit \/ DvNoticeCancel \/ DvWatcherEnds \/ DvTakeStop
               \/ DvTakeBroken \/ DvOwnerCleansUp) => DvIInv'
<1>. SUFFICES ASSUME DvIInv
              PROVE  (\/ DvNoticeExit \/ DvNoticeCancel \/ DvWatcherEnds \/ DvTakeStop
                      \/ DvTakeBroken \/ DvOwnerCleansUp) => DvIInv'
  OBVIOUS
<1>1. dvQueue \in Seq(DvBatches) /\ DvSessionIsTyped
  BY DEF DvIInv, DvSessionIsTyped
<1>2. CASE DvNoticeExit
  BY <1>1, <1>2, DvSessionsEnd DEF DvNoticeExit, DvEnd
<1>3. CASE DvNoticeCancel \/ DvWatcherEnds
  BY <1>1, <1>3, DvSessionsEnd DEF DvNoticeCancel, DvWatcherEnds, DvStopProcess, DvEnd
<1>4. CASE DvTakeStop
  <2>1. dvQueue' \in Seq(DvBatches)
    BY <1>1, <1>4, DvTakenBatchesTell DEF DvTakeStop
  <2>. QED
    BY <1>4, <2>1, DvSessionsEnd DEF DvTakeStop, DvStopProcess, DvEnd
<1>5. CASE DvTakeBroken
  <2>1. dvQueue' \in Seq(DvBatches)
    BY <1>1, <1>5, DvTakenBatchesTell DEF DvTakeBroken
  <2>. QED
    BY <1>5, <2>1, DvSessionsEnd DEF DvTakeBroken, DvTake, DvEnd
<1>6. CASE DvOwnerCleansUp
  BY <1>1, <1>6, DvSessionsEnd DEF DvOwnerCleansUp
<1>. QED
  BY <1>2, <1>3, <1>4, <1>5, <1>6

(* A batch that says nothing leaves what is on its way there; one that tells of a change
   starts a build of everything as it is now. *)
LEMMA DvBatchesAreTaken == DvIInv /\ (DvTakeOther \/ DvTakeChange) => DvIInv'
<1>. SUFFICES ASSUME DvIInv, DvTake
              PROVE  DvTakeOther \/ DvTakeChange => DvIInv'
  BY DEF DvTakeOther, DvTakeChange
<1>0. /\ DvSessionIsTyped /\ DvSourceIsKnown /\ DvLayoutIsKnown
      /\ DvProcessIsConfigured /\ DvProcessEnds
  BY DEF DvIInv
<1>1. /\ dvAt = "loop" /\ DvBatch \in DvBatches /\ dvQueue' \in Seq(DvBatches)
      /\ DvSourceComes => DvBatch.source \/ DvSourceComes'
      /\ DvLayoutComes => DvBatch.structural \/ DvLayoutComes'
  BY <1>0, DvTakenBatchesTell DEF DvTake
<1>2. ASSUME DvTakeOther
      PROVE  DvIInv'
  <2>1. /\ ~DvBatch.structural /\ ~DvBatch.source
        /\ UNCHANGED <<dvSurface, dvGiven, dvDisk, dvVersion, dvWatched, dvUnseen, dvEdits,
                       dvAt, dvHeld, dvGood, dvFailed, dvBuild, dvProcess, dvCancelled, dvMissed>>
    BY <1>2 DEF DvTakeOther, DvSame
  <2>2. DvSessionIsTyped'
    BY <1>0, <1>1, <2>1 DEF DvSessionIsTyped
  <2>3. DvSourceIsKnown' /\ DvLayoutIsKnown'
    BY <1>0, <1>1, <2>1 DEF DvSourceIsKnown, DvLayoutIsKnown
  <2>4. DvProcessIsConfigured' /\ DvProcessEnds'
    BY <1>0, <2>1 DEF DvProcessIsConfigured, DvProcessEnds, DvCommand
  <2>. QED
    BY <2>2, <2>3, <2>4 DEF DvIInv
<1>3. ASSUME DvTakeChange
      PROVE  DvIInv'
  <2>. DEFINE build == [layout |-> IF DvBatch.structural THEN dvDisk ELSE dvHeld,
                        from |-> dvVersion, structural |-> DvBatch.structural]
  <2>1. /\ dvAt' = "building"
        /\ DvBatch.structural => dvDisk.valid
        /\ UNCHANGED <<dvSurface, dvGiven, dvDisk, dvVersion, dvWatched, dvUnseen, dvEdits,
                       dvHeld, dvGood, dvFailed, dvProcess, dvCancelled, dvMissed>>
        /\ dvBuild' = build
    BY <1>3 DEF DvTakeChange, DvSame
  <2>2. /\ dvBuild' = [layout |-> dvBuild'.layout, from |-> dvBuild'.from,
                       structural |-> dvBuild'.structural]
        /\ dvBuild'.layout = IF DvBatch.structural THEN dvDisk ELSE dvHeld
        /\ dvBuild'.from = dvVersion /\ dvBuild'.structural = DvBatch.structural
    BY <2>1
  <2>. HIDE DEF build
  <2>3. DvBatch.structural \in BOOLEAN
    BY <1>1 DEF DvBatches
  <2>4. dvBuild'.layout \in DvLayouts
    BY <1>0, <1>1, <2>1, <2>2, <2>3 DEF DvSessionIsTyped, DvNone
  <2>5. DvSessionIsTyped'
    BY <1>0, <1>1, <2>1, <2>2, <2>3, <2>4 DEF DvSessionIsTyped
  <2>6. DvSourceIsKnown'
    BY <2>1, <2>2 DEF DvSourceIsKnown
  <2>7. DvLayoutIsKnown'
    BY <1>0, <1>1, <2>1, <2>2, <2>3 DEF DvLayoutIsKnown
  <2>8. DvProcessIsConfigured' /\ DvProcessEnds'
    BY <1>0, <1>1, <2>1 DEF DvProcessIsConfigured, DvProcessEnds, DvCommand
  <2>. QED
    BY <2>5, <2>6, <2>7, <2>8 DEF DvIInv
<1>. QED
  BY <1>2, <1>3

LEMMA DvEditsAreKnown == DvSpec => []DvIInv
<1>1. DvInit => DvIInv
  <2>. SUFFICES ASSUME DvInit
                PROVE  DvIInv
    OBVIOUS
  <2>1. dvQueue \in Seq(DvBatches)
    BY EmptySeq DEF DvInit
  <2>2. /\ dvProcess = [running |-> dvProcess.running, root |-> dvProcess.root,
                        command |-> dvProcess.command]
        /\ dvProcess.running = FALSE
    BY DEF DvInit
  <2>3. /\ dvEdits \in 0..DvMaxEdits /\ dvVersion \in 0..dvEdits
        /\ dvGood \in 0..dvVersion /\ dvFailed \in -1..dvVersion
    BY DvAssumption DEF DvInit
  <2>4. DvSessionIsTyped
    BY <2>1, <2>2, <2>3 DEF DvInit, DvSessionIsTyped
  <2>. QED
    BY <2>4 DEF DvInit, DvIInv, DvSourceIsKnown, DvLayoutIsKnown, DvProcessIsConfigured,
                DvProcessEnds
<1>2. DvIInv /\ [DvNext]_dvVars => DvIInv'
  <2>. SUFFICES ASSUME DvIInv, [DvNext]_dvVars
                PROVE  DvIInv'
    OBVIOUS
  <2>1. CASE DvNext
    BY <2>1, DvOpens, DvUserEdits, DvWorldGoesOn, DvBuildsEnd, DvLoopEnds, DvBatchesAreTaken
    DEF DvNext
  <2>2. CASE UNCHANGED dvVars
    BY <2>2 DEF dvVars, DvIInv, DvSessionIsTyped, DvSourceIsKnown, DvLayoutIsKnown,
        DvSourceComes, DvLayoutComes, DvProcessIsConfigured, DvProcessEnds, DvCommand
  <2>. QED
    BY <2>1, <2>2
<1>. QED
  BY <1>1, <1>2, PTL DEF DvSpec

(* The versions, layouts and edits of a dev session are what they may be, and a build
   goes on only while the session builds. *)
THEOREM DevIsTyped == DvSpec => []DvTypeOK
<1>1. DvIInv => DvTypeOK
  <2>. SUFFICES ASSUME DvSessionIsTyped
                PROVE  DvTypeOK
    BY DEF DvIInv
  <2>. QED
    BY DvAssumption DEF DvSessionIsTyped, DvTypeOK
<1>. QED
  BY <1>1, DvEditsAreKnown, PTL

(* The process runs what the last good build configured; a session that waits has built,
   or failed to build, what is on disk; and an ended one leaves no process behind, except
   on a surface, after a broken manifest. *)
THEOREM DevMissesNoEdit == DvSpec => []DvSafety
<1>1. DvIInv => DvSafety
  <2>. SUFFICES ASSUME DvIInv
                PROVE  DvSafety
    OBVIOUS
  <2>1. dvQueue = <<>> => ~DvSourceComes /\ ~DvLayoutComes
    BY EmptySeq DEF DvSourceComes, DvLayoutComes
  <2>2. DvNoEditIsLost
    BY <2>1 DEF DvIInv, DvSourceIsKnown, DvLayoutIsKnown, DvNoEditIsLost
  <2>. QED
    BY <2>2 DEF DvIInv, DvSafety
<1>. QED
  BY <1>1, DvEditsAreKnown, PTL

--------------------------------------------------------------------------------
(* `gomo watch`. *)

WtBatches == [files : SUBSET WtProjects, structural : BOOLEAN, stopped : BOOLEAN]
WtCycles == [projects : SUBSET WtProjects, callback : BOOLEAN]

WtSessionIsTyped ==
    /\ wtAt \in {"idle", "starting", "loop", "receive", "cycle", "ended"}
    /\ wtDisk \in WtLayouts \cup {WtNoLayout} /\ wtHeld.projects \subseteq WtProjects
    /\ wtQuit \in {"no", "flagged", "sent"} /\ wtOpen \in BOOLEAN /\ wtReady \in BOOLEAN
    /\ wtCycle \in WtCycles /\ wtGathered \in WtBatches /\ wtQueue \in Seq(WtBatches)
    /\ wtCycle.projects # {} => ~wtCycle.callback
    /\ wtCycle # WtNoCycle <=> wtAt = "cycle"
    /\ wtStale \subseteq WtProjects /\ wtEdits \in 0..WtMaxEdits
    /\ wtAt = "idle" => wtQuit = "no"
    /\ wtAt # "idle" => wtHeld.valid /\ wtRequest.select \subseteq wtHeld.projects
    /\ wtAt \in {"loop", "receive", "cycle"} => wtReady

(* What is on its way to the worker. *)
WtFilesCome == wtGathered.files \cup UNION {wtQueue[i].files : i \in 1..Len(wtQueue)}
WtLayoutComes == wtGathered.structural \/ \E i \in 1..Len(wtQueue) : wtQueue[i].structural
WtStopComes == \E i \in 1..Len(wtQueue) : wtQueue[i].stopped

(* The manifests can be worked with, and no change of them is on its way. *)
WtLayoutStands ==
    ~WtLayoutComes /\ WtRefreshable(wtDisk) /\ WtCallback(wtDisk) # "blank"

WtLayoutIsHeld == WtWorking /\ ~wtUnseen /\ WtLayoutStands => wtHeld = wtDisk

(* Whatever is stale is still to be run by the cycle, or a batch that makes it run is on its
   way; but a stopped session that has dropped its cycle is about to end. *)
WtStaleIsToRun ==
    /\ wtAt \in {"loop", "receive", "cycle"} /\ ~(wtAt = "loop" /\ WtStopped)
    /\ ~wtUnseen /\ WtLayoutStands /\ ~wtCycle.callback
    => wtStale \cap WtSelected(wtDisk) \subseteq wtCycle.projects \cup WtAffected(wtDisk, WtFilesCome)

WtStopIsSent == wtQuit = "sent" /\ wtAt # "ended" => WtStopComes

WtIInv ==
    /\ WtSessionIsTyped
    /\ WtLayoutIsHeld
    /\ WtStaleIsToRun
    /\ WtStopIsSent

--------------------------------------------------------------------------------
(* What a change affects. *)

LEMMA NothingIsAffected == \A l : WtAffected(l, {}) = {}
BY DEF WtAffected, WtWithDownstream

LEMMA BothAreAffected ==
    ASSUME NEW l, NEW F, NEW G
    PROVE  WtAffected(l, F \cup G) = WtAffected(l, F) \cup WtAffected(l, G)
<1>. DEFINE U(p) == WtWithUpstream(l, {p})
<1>1. \A H : WtAffected(l, H) = {p \in l.projects : U(p) \cap (H \cap l.projects) # {}} \cap WtPermitted(l)
  BY DEF WtAffected, WtWithDownstream
<1>. HIDE DEF U
<1>2. \A p : U(p) \cap ((F \cup G) \cap l.projects) # {} <=>
          U(p) \cap (F \cap l.projects) # {} \/ U(p) \cap (G \cap l.projects) # {}
  OBVIOUS
<1>. QED
  BY <1>1, <1>2

(* More files affect at least as much. *)
LEMMA MoreIsAffected ==
    ASSUME NEW l, NEW F, NEW G, F \subseteq G
    PROVE  WtAffected(l, F) \subseteq WtAffected(l, G)
<1>1. G = F \cup G
  OBVIOUS
<1>2. WtAffected(l, F \cup G) = WtAffected(l, F) \cup WtAffected(l, G)
  BY BothAreAffected
<1>. QED
  BY <1>1, <1>2

(* What is selected may be run, and what reads an edited project is affected. *)
LEMMA SelectedIsPermitted ==
    ASSUME NEW l, WtRefreshable(l)
    PROVE  WtSelected(l) \subseteq WtPermitted(l)
<1>1. WtNames(l) \subseteq l.projects
  BY DEF WtNames, WtRefreshable
<1>2. WtNames(l) \subseteq WtWithUpstream(l, WtNames(l))
  BY <1>1 DEF WtWithUpstream
<1>. QED
  BY <1>2 DEF WtSelected, WtPermitted

LEMMA ReadersAreAffected ==
    ASSUME NEW l, NEW p \in l.projects
    PROVE  /\ WtWithDownstream(l, {p}) \cap WtPermitted(l) = WtAffected(l, {p})
           /\ WtWithDownstream(l, {p}) \subseteq l.projects
<1>1. {p} \cap l.projects = {p}
  OBVIOUS
<1>. QED
  BY <1>1 DEF WtAffected, WtWithDownstream

LEMMA LayoutsAreTyped ==
    ASSUME WtSessionIsTyped
    PROVE  /\ wtDisk = [valid |-> wtDisk.valid, projects |-> wtDisk.projects,
                        upstream |-> wtDisk.upstream, callback |-> wtDisk.callback]
           /\ wtDisk.projects \subseteq WtProjects
<1>1. CASE wtDisk \in WtLayouts
  BY <1>1, WtAssumption DEF WtIsLayout
<1>2. CASE wtDisk = WtNoLayout
  BY <1>2 DEF WtNoLayout
<1>. QED
  BY <1>1, <1>2 DEF WtSessionIsTyped

(* What a batch tells of when it is sent, and when it is taken. *)
LEMMA WtSentBatchesTell ==
    ASSUME WtSessionIsTyped, NEW b \in WtBatches, wtQueue' = Append(wtQueue, b)
    PROVE  /\ wtQueue' \in Seq(WtBatches)
           /\ \A i \in 1..Len(wtQueue) : \E j \in 1..Len(wtQueue') : wtQueue'[j] = wtQueue[i]
           /\ \E j \in 1..Len(wtQueue') : wtQueue'[j] = b
BY SentBatches DEF WtSessionIsTyped

LEMMA WtTakenBatchesTell ==
    ASSUME WtSessionIsTyped, WtTake
    PROVE  /\ WtBatch \in WtBatches /\ wtQueue' \in Seq(WtBatches)
           /\ WtFilesCome \subseteq WtBatch.files \cup WtFilesCome'
           /\ WtLayoutComes => WtBatch.structural \/ WtLayoutComes'
<1>1. /\ wtQueue \in Seq(WtBatches) /\ wtQueue # <<>> /\ wtQueue' = Tail(wtQueue)
      /\ wtGathered' = wtGathered
  BY DEF WtSessionIsTyped, WtTake, WtSameWorld
<1>2. /\ WtBatch \in WtBatches /\ wtQueue' \in Seq(WtBatches)
      /\ \A i \in 1..Len(wtQueue) :
           wtQueue[i] = WtBatch \/ \E j \in 1..Len(wtQueue') : wtQueue'[j] = wtQueue[i]
  BY <1>1, TakenBatches DEF WtBatch
<1>3. WtLayoutComes => WtBatch.structural \/ WtLayoutComes'
  BY <1>1, <1>2 DEF WtLayoutComes
<1>4. ASSUME NEW f \in WtFilesCome, f \notin WtBatch.files
      PROVE  f \in WtFilesCome'
  <2>1. CASE f \in wtGathered.files
    BY <1>1, <2>1 DEF WtFilesCome
  <2>2. ASSUME NEW i \in 1..Len(wtQueue), f \in wtQueue[i].files
        PROVE  f \in WtFilesCome'
    BY <1>2, <1>4, <2>2 DEF WtFilesCome
  <2>. QED
    BY <1>4, <2>1, <2>2 DEF WtFilesCome
<1>. QED
  BY <1>2, <1>3, <1>4

--------------------------------------------------------------------------------
(* What each step of a watch session keeps. *)

LEMMA WtOpens == WtIInv /\ WtOpenSession => WtIInv'
<1>. SUFFICES ASSUME WtIInv, WtOpenSession
              PROVE  WtIInv'
  OBVIOUS
<1>1. /\ wtAt = "idle" /\ wtAt' = "starting" /\ wtHeld' = wtDisk' /\ wtDisk' \in WtLayouts
      /\ wtStale' = wtDisk'.projects
      /\ UNCHANGED <<wtReady, wtGathered, wtQueue, wtOpen, wtQuit, wtCycle, wtUnseen, wtEdits>>
  BY DEF WtOpenSession
<1>2. wtDisk'.projects \subseteq WtProjects
  BY <1>1, WtAssumption DEF WtIsLayout
<1>3. WtSessionIsTyped'
  <2>1. wtHeld'.valid /\ wtRequest'.select \subseteq wtHeld'.projects
    BY DEF WtOpenSession, WtRefreshable
  <2>. QED
    BY <1>1, <1>2, <2>1 DEF WtIInv, WtSessionIsTyped
<1>4. WtLayoutIsHeld' /\ WtStaleIsToRun' /\ WtStopIsSent'
  BY <1>1 DEF WtIInv, WtSessionIsTyped, WtLayoutIsHeld, WtStaleIsToRun, WtStopIsSent
<1>. QED
  BY <1>3, <1>4 DEF WtIInv

(* News that change neither the manifests nor what is stale. *)
LEMMA WtNewsStayKnown ==
    ASSUME WtIInv, WtSessionIsTyped', WtStopIsSent',
           UNCHANGED <<wtAt, wtRequest, wtHeld, wtCycle, wtDisk, wtStale>>,
           wtUnseen => wtUnseen', WtStopped => WtStopped',
           wtUnseen' \/ (WtFilesCome \subseteq WtFilesCome' /\ (WtLayoutComes => WtLayoutComes'))
    PROVE  WtIInv'
<1>1. WtLayoutStands' /\ ~wtUnseen' => WtLayoutStands
  BY DEF WtLayoutStands, WtRefreshable, WtCallback
<1>2. WtLayoutIsHeld'
  BY <1>1 DEF WtIInv, WtLayoutIsHeld, WtWorking
<1>3. ~wtUnseen' => WtAffected(wtDisk, WtFilesCome) \subseteq WtAffected(wtDisk, WtFilesCome')
  BY MoreIsAffected
<1>4. /\ WtAffected(wtDisk, WtFilesCome)' = WtAffected(wtDisk, WtFilesCome')
      /\ WtSelected(wtDisk)' = WtSelected(wtDisk)
  BY DEF WtAffected, WtPermitted, WtSelected, WtNames
<1>5. WtStaleIsToRun'
  BY <1>1, <1>3, <1>4 DEF WtIInv, WtStaleIsToRun
<1>. QED
  BY <1>2, <1>5 DEF WtIInv

LEMMA WtWorldGoesOn ==
    WtIInv /\ (\/ WtWatcherReady \/ WtDeliver \/ WtAskToQuit \/ WtSendStop
               \/ WtWatcherFails) => WtIInv'
<1>. SUFFICES ASSUME WtIInv
              PROVE  (\/ WtWatcherReady \/ WtDeliver \/ WtAskToQuit \/ WtSendStop
                      \/ WtWatcherFails) => WtIInv'
  OBVIOUS
<1>0. WtSessionIsTyped /\ WtStopIsSent
  BY DEF WtIInv
<1>. USE DEF WtSameWorker
<1>1. CASE WtWatcherReady
  <2>1. WtSessionIsTyped' /\ WtStopIsSent'
    BY <1>0, <1>1 DEF WtWatcherReady, WtSessionIsTyped, WtStopIsSent, WtStopComes
  <2>2. WtFilesCome' = WtFilesCome /\ WtLayoutComes' = WtLayoutComes
    BY <1>1 DEF WtWatcherReady, WtFilesCome, WtLayoutComes
  <2>. QED
    BY <1>1, <2>1, <2>2, WtNewsStayKnown DEF WtWatcherReady, WtStopped
<1>2. CASE WtDeliver
  <2>1. /\ wtQueue' = Append(wtQueue, wtGathered) /\ wtGathered' = WtNoFiles
        /\ UNCHANGED <<wtAt, wtRequest, wtHeld, wtCycle, wtDisk, wtReady, wtOpen, wtQuit,
                       wtStale, wtUnseen, wtEdits>>
    BY <1>2 DEF WtDeliver
  <2>2. WtNoFiles \in WtBatches /\ wtGathered \in WtBatches
    BY <1>0 DEF WtNoFiles, WtBatches, WtSessionIsTyped
  <2>3. /\ wtQueue' \in Seq(WtBatches)
        /\ \A i \in 1..Len(wtQueue) : \E j \in 1..Len(wtQueue') : wtQueue'[j] = wtQueue[i]
        /\ \E j \in 1..Len(wtQueue') : wtQueue'[j] = wtGathered
    BY <1>0, <2>1, <2>2, WtSentBatchesTell
  <2>4. WtSessionIsTyped'
    BY <1>0, <2>1, <2>2, <2>3 DEF WtSessionIsTyped
  <2>5. WtStopIsSent'
    BY <1>0, <2>1, <2>3 DEF WtStopIsSent, WtStopComes
  <2>6. WtLayoutComes => WtLayoutComes'
    BY <2>3 DEF WtLayoutComes
  <2>7. WtFilesCome \subseteq WtFilesCome'
    <3>1. \A j \in 1..Len(wtQueue') : wtQueue'[j].files \subseteq WtFilesCome'
      BY DEF WtFilesCome
    <3>. QED
      BY <2>3, <3>1 DEF WtFilesCome
  <2>. QED
    BY <2>1, <2>4, <2>5, <2>6, <2>7, WtNewsStayKnown DEF WtStopped
<1>3. CASE WtAskToQuit
  <2>1. WtSessionIsTyped' /\ WtStopIsSent'
    BY <1>0, <1>3 DEF WtAskToQuit, WtWorking, WtSessionIsTyped, WtStopIsSent, WtStopComes
  <2>2. WtFilesCome' = WtFilesCome /\ WtLayoutComes' = WtLayoutComes
    BY <1>3 DEF WtAskToQuit, WtFilesCome, WtLayoutComes
  <2>. QED
    BY <1>3, <2>1, <2>2, WtNewsStayKnown DEF WtAskToQuit, WtStopped
<1>4. CASE WtSendStop
  <2>. DEFINE stop == [WtNoFiles EXCEPT !.stopped = TRUE]
  <2>1. /\ wtQueue' = Append(wtQueue, stop) /\ wtQuit' = "sent" /\ wtQuit = "flagged"
        /\ wtAt # "idle"
        /\ UNCHANGED <<wtAt, wtRequest, wtHeld, wtCycle, wtDisk, wtReady, wtGathered, wtOpen,
                       wtStale, wtUnseen, wtEdits>>
    BY <1>4 DEF WtSendStop, WtWorking
  <2>2. stop \in WtBatches /\ stop.stopped
    BY DEF WtNoFiles, WtBatches
  <2>. HIDE DEF stop
  <2>3. /\ wtQueue' \in Seq(WtBatches)
        /\ \A i \in 1..Len(wtQueue) : \E j \in 1..Len(wtQueue') : wtQueue'[j] = wtQueue[i]
        /\ \E j \in 1..Len(wtQueue') : wtQueue'[j] = stop
    BY <1>0, <2>1, <2>2, WtSentBatchesTell
  <2>4. WtSessionIsTyped'
    BY <1>0, <2>1, <2>3 DEF WtSessionIsTyped
  <2>5. WtStopIsSent'
    BY <2>2, <2>3 DEF WtStopIsSent, WtStopComes
  <2>6. WtLayoutComes => WtLayoutComes'
    BY <2>1, <2>3 DEF WtLayoutComes
  <2>7. WtFilesCome \subseteq WtFilesCome'
    <3>1. \A j \in 1..Len(wtQueue') : wtQueue'[j].files \subseteq WtFilesCome'
      BY DEF WtFilesCome
    <3>. QED
      BY <2>1, <2>3, <3>1 DEF WtFilesCome
  <2>. QED
    BY <2>1, <2>4, <2>5, <2>6, <2>7, WtNewsStayKnown DEF WtStopped
<1>5. CASE WtWatcherFails
  <2>1. /\ wtOpen' = FALSE /\ wtGathered' = WtNoFiles
        /\ wtUnseen' = (wtUnseen \/ wtGathered # WtNoFiles)
        /\ UNCHANGED <<wtAt, wtRequest, wtHeld, wtCycle, wtDisk, wtReady, wtQueue, wtQuit,
                       wtStale, wtEdits>>
    BY <1>5 DEF WtWatcherFails
  <2>2. WtNoFiles \in WtBatches
    BY DEF WtNoFiles, WtBatches
  <2>3. WtSessionIsTyped' /\ WtStopIsSent'
    BY <1>0, <2>1, <2>2 DEF WtSessionIsTyped, WtStopIsSent, WtStopComes
  <2>4. wtUnseen' \/ (WtFilesCome' = WtFilesCome /\ WtLayoutComes' = WtLayoutComes)
    BY <2>1 DEF WtFilesCome, WtLayoutComes
  <2>5. /\ wtUnseen => wtUnseen'
        /\ WtStopped => WtStopped'
        /\ wtUnseen' \/ (WtFilesCome \subseteq WtFilesCome' /\ (WtLayoutComes => WtLayoutComes'))
    <3>1. wtUnseen => wtUnseen'
      BY <2>1
    <3>2. WtStopped => WtStopped'
      BY <2>1 DEF WtStopped
    <3>. QED
      BY <2>4, <3>1, <3>2
  <2>. QED
    BY <2>1, <2>3, <2>5, WtNewsStayKnown
<1>. QED
  BY <1>1, <1>2, <1>3, <1>4, <1>5

(* Edits: of a source, *)
LEMMA WtSourceEdits == WtIInv /\ (\E p \in WtProjects : WtEditSource(p)) => WtIInv'
<1>. SUFFICES ASSUME WtIInv, NEW p \in WtProjects, WtEditSource(p)
              PROVE  WtIInv'
  OBVIOUS
<1>0. WtSessionIsTyped /\ WtLayoutIsHeld /\ WtStaleIsToRun /\ WtStopIsSent
  BY DEF WtIInv
<1>1. /\ p \in wtDisk.projects /\ wtAt \notin {"idle", "ended"}
      /\ wtEdits' = wtEdits + 1 /\ wtEdits < WtMaxEdits
      /\ wtUnseen' = (wtUnseen \/ ~wtOpen \/ (~wtReady /\ ~wtRequest.initialRun))
      /\ wtStale' = wtStale \cup WtWithDownstream(wtDisk, {p})
      /\ UNCHANGED <<wtAt, wtRequest, wtHeld, wtCycle, wtReady, wtQueue, wtOpen, wtQuit, wtDisk>>
  BY DEF WtEditSource, WtEdit, WtWorking, WtSameWorker
<1>2. wtGathered' = IF wtReady /\ wtOpen
                    THEN [files |-> wtGathered.files \cup {p},
                          structural |-> wtGathered.structural \/ FALSE,
                          stopped |-> wtGathered.stopped]
                    ELSE wtGathered
  BY DEF WtEditSource, WtEdit
<1>3. /\ wtGathered' \in WtBatches
      /\ wtGathered'.structural = wtGathered.structural
      /\ wtGathered.files \subseteq wtGathered'.files
      /\ wtReady /\ wtOpen => p \in wtGathered'.files
  <2>1. wtGathered \in WtBatches
    BY <1>0 DEF WtSessionIsTyped
  <2>. QED
    BY <1>2, <2>1 DEF WtBatches
<1>4. WtWithDownstream(wtDisk, {p}) \subseteq WtProjects
  BY <1>0, <1>1, LayoutsAreTyped, ReadersAreAffected
<1>5. WtSessionIsTyped'
  <2>1. wtStale' \subseteq WtProjects
    BY <1>0, <1>1, <1>4 DEF WtSessionIsTyped
  <2>2. wtEdits' \in 0..WtMaxEdits
    BY <1>0, <1>1, WtAssumption DEF WtSessionIsTyped
  <2>. QED
    BY <1>0, <1>1, <1>3, <2>1, <2>2 DEF WtSessionIsTyped
<1>6. WtStopIsSent'
  BY <1>0, <1>1 DEF WtStopIsSent, WtStopComes
<1>7. /\ WtFilesCome \subseteq WtFilesCome'
      /\ WtLayoutComes' = WtLayoutComes
      /\ wtReady /\ wtOpen => p \in WtFilesCome'
  BY <1>1, <1>3 DEF WtFilesCome, WtLayoutComes
<1>8. WtLayoutStands' = WtLayoutStands /\ WtStopped' = WtStopped
  BY <1>1, <1>7 DEF WtLayoutStands, WtRefreshable, WtCallback, WtStopped
<1>9. WtLayoutIsHeld'
  BY <1>0, <1>1, <1>8 DEF WtLayoutIsHeld, WtWorking
<1>10. ASSUME wtAt \in {"loop", "receive", "cycle"}, ~(wtAt = "loop" /\ WtStopped), ~wtUnseen',
              WtLayoutStands, ~wtCycle.callback
       PROVE  wtStale' \cap WtSelected(wtDisk)
                \subseteq wtCycle.projects \cup WtAffected(wtDisk, WtFilesCome')
  <2>1. wtReady /\ wtOpen /\ ~wtUnseen
    BY <1>0, <1>1, <1>10 DEF WtSessionIsTyped
  <2>2. wtStale \cap WtSelected(wtDisk)
          \subseteq wtCycle.projects \cup WtAffected(wtDisk, WtFilesCome)
    BY <1>0, <1>10, <2>1 DEF WtStaleIsToRun
  <2>3. WtAffected(wtDisk, WtFilesCome) \subseteq WtAffected(wtDisk, WtFilesCome')
    BY <1>7, MoreIsAffected
  <2>4. WtAffected(wtDisk, {p}) \subseteq WtAffected(wtDisk, WtFilesCome')
    <3>1. {p} \subseteq WtFilesCome'
      BY <1>7, <2>1
    <3>. QED
      BY <3>1, MoreIsAffected
  <2>5. WtWithDownstream(wtDisk, {p}) \cap WtPermitted(wtDisk) = WtAffected(wtDisk, {p})
    BY <1>1, ReadersAreAffected
  <2>6. WtSelected(wtDisk) \subseteq WtPermitted(wtDisk)
    BY <1>10, SelectedIsPermitted DEF WtLayoutStands
  <2>. QED
    BY <1>1, <2>2, <2>3, <2>4, <2>5, <2>6
<1>11. /\ WtAffected(wtDisk, WtFilesCome)' = WtAffected(wtDisk, WtFilesCome')
       /\ WtSelected(wtDisk)' = WtSelected(wtDisk)
  BY <1>1 DEF WtAffected, WtPermitted, WtSelected, WtNames
<1>12. WtStaleIsToRun'
  BY <1>1, <1>8, <1>10, <1>11 DEF WtStaleIsToRun
<1>. QED
  BY <1>5, <1>6, <1>9, <1>12 DEF WtIInv

(* and of a manifest. *)
LEMMA WtManifestEdits == WtIInv /\ (\E l \in WtLayouts : WtEditManifest(l)) => WtIInv'
<1>. SUFFICES ASSUME WtIInv, NEW l \in WtLayouts, WtEditManifest(l)
              PROVE  WtIInv'
  OBVIOUS
<1>0. WtSessionIsTyped /\ WtStopIsSent
  BY DEF WtIInv
<1>1. /\ wtAt \notin {"idle", "ended"}
      /\ wtEdits' = wtEdits + 1 /\ wtEdits < WtMaxEdits
      /\ wtUnseen' = (wtUnseen \/ ~wtOpen \/ ~wtReady)
      /\ wtDisk' = l /\ wtStale' = wtStale \cup l.projects
      /\ UNCHANGED <<wtAt, wtRequest, wtHeld, wtCycle, wtReady, wtQueue, wtOpen, wtQuit>>
  BY DEF WtEditManifest, WtEdit, WtWorking, WtSameWorker
<1>2. wtGathered' = IF wtReady /\ wtOpen
                    THEN [files |-> wtGathered.files \cup {},
                          structural |-> wtGathered.structural \/ TRUE,
                          stopped |-> wtGathered.stopped]
                    ELSE wtGathered
  BY DEF WtEditManifest, WtEdit
<1>3. /\ wtGathered' \in WtBatches
      /\ wtReady /\ wtOpen => wtGathered'.structural
  <2>1. wtGathered \in WtBatches
    BY <1>0 DEF WtSessionIsTyped
  <2>. QED
    BY <1>2, <2>1 DEF WtBatches
<1>4. l.projects \subseteq WtProjects
  BY WtAssumption DEF WtIsLayout
<1>5. WtSessionIsTyped'
  BY <1>0, <1>1, <1>3, <1>4, WtAssumption DEF WtSessionIsTyped
<1>6. WtStopIsSent'
  BY <1>0, <1>1 DEF WtStopIsSent, WtStopComes
<1>7. wtUnseen' \/ ~WtLayoutStands'
  BY <1>0, <1>1, <1>3 DEF WtLayoutStands, WtLayoutComes, WtSessionIsTyped
<1>. QED
  BY <1>5, <1>6, <1>7 DEF WtIInv, WtLayoutIsHeld, WtStaleIsToRun

--------------------------------------------------------------------------------
(* The worker of a watch session. *)

(* A step of the worker that takes nothing from the channel leaves what is on its way. *)
LEMMA WtSameWorldTells ==
    ASSUME WtSameWorld
    PROVE  /\ WtStopped' = WtStopped
           /\ WtSelected(wtDisk)' = WtSelected(wtDisk)
           /\ \A F : WtAffected(wtDisk, F)' = WtAffected(wtDisk, F)
           /\ wtQueue' = wtQueue =>
                /\ WtFilesCome' = WtFilesCome /\ WtLayoutComes' = WtLayoutComes
                /\ WtLayoutStands' = WtLayoutStands /\ WtStopComes' = WtStopComes
           /\ WtLayoutStands' => WtRefreshable(wtDisk) /\ WtCallback(wtDisk) # "blank"
                                 /\ ~WtLayoutComes'
           /\ WtRefreshable(wtDisk) /\ WtCallback(wtDisk) # "blank" /\ ~WtLayoutComes =>
                WtLayoutStands
BY DEF WtSameWorld, WtStopped, WtSelected, WtNames, WtAffected, WtPermitted, WtFilesCome,
       WtLayoutComes, WtLayoutStands, WtStopComes, WtRefreshable, WtCallback

(* A cycle that starts has the callback or everything that was asked for. *)
LEMMA WtStartedCycles ==
    ASSUME NEW l, l.projects \subseteq WtProjects, NEW F, WtStartCycle(l, F),
           WtRefreshable(l)
    PROVE  /\ wtCycle' \in WtCycles /\ (wtCycle'.projects # {} => ~wtCycle'.callback)
           /\ wtAt' \in {"cycle", "loop"}
           /\ wtCycle' # WtNoCycle <=> wtAt' = "cycle"
           /\ F = {} /\ ~wtCycle'.callback => WtSelected(l) \subseteq wtCycle'.projects
           /\ F # {} /\ ~wtCycle'.callback =>
                WtAffected(l, F) \cap WtSelected(l) \subseteq wtCycle'.projects
<1>. DEFINE todo == IF F = {} THEN WtSelected(l) ELSE WtAffected(l, F) \cap WtSelected(l)
<1>1. WtPermitted(l) \subseteq l.projects
  BY DEF WtPermitted, WtWithUpstream
<1>2. todo \subseteq WtProjects
  BY <1>1, SelectedIsPermitted
<1>3. CASE WtCallback(l) = "command"
  <2>1. wtCycle' = [projects |-> {}, callback |-> TRUE] /\ wtAt' = "cycle"
    BY <1>3 DEF WtStartCycle
  <2>. QED
    BY <2>1 DEF WtCycles, WtNoCycle
<1>4. CASE WtCallback(l) # "command"
  <2>1. /\ wtCycle' = [projects |-> todo, callback |-> FALSE]
        /\ wtAt' = IF todo = {} THEN "loop" ELSE "cycle"
    BY <1>4 DEF WtStartCycle
  <2>2. wtCycle'.projects = todo /\ wtCycle'.callback = FALSE
    BY <2>1
  <2>3. wtCycle' \in WtCycles
    <3>. HIDE DEF todo
    <3>. QED
      BY <1>2, <2>1 DEF WtCycles
  <2>4. wtCycle' # WtNoCycle <=> todo # {}
    <3>. HIDE DEF todo
    <3>. QED
      BY <2>1, <2>2 DEF WtNoCycle
  <2>5. wtAt' \in {"cycle", "loop"} /\ (wtAt' = "cycle" <=> todo # {})
    <3>. HIDE DEF todo
    <3>. QED
      BY <2>1
  <2>. QED
    BY <2>2, <2>3, <2>4, <2>5
<1>. QED
  BY <1>3, <1>4

LEMMA WtBegins == WtIInv /\ WtBegin => WtIInv'
<1>. SUFFICES ASSUME WtIInv, WtBegin
              PROVE  WtIInv'
  OBVIOUS
<1>0. WtSessionIsTyped /\ WtLayoutIsHeld /\ WtStopIsSent
  BY DEF WtIInv
<1>1. wtAt = "starting" /\ wtReady /\ WtSameWorld /\ UNCHANGED <<wtHeld, wtQueue>>
  BY DEF WtBegin, WtMayBegin
<1>2. UNCHANGED <<wtRequest, wtDisk, wtReady, wtGathered, wtOpen, wtQuit, wtUnseen, wtEdits>>
  BY <1>1 DEF WtSameWorld
<1>3. wtStale' \subseteq wtStale
  BY DEF WtBegin
<1>4. WtLayoutIsHeld' /\ WtStopIsSent'
  BY <1>0, <1>1, <1>2, WtSameWorldTells DEF WtBegin, WtLayoutIsHeld, WtWorking, WtStopIsSent
<1>5. CASE ~wtRequest.initialRun
  <2>1. wtAt' = "loop" /\ wtCycle' = wtCycle /\ wtStale' = {}
    BY <1>5 DEF WtBegin
  <2>2. WtSessionIsTyped'
    BY <1>0, <1>1, <1>2, <2>1 DEF WtSessionIsTyped
  <2>3. WtStaleIsToRun'
    BY <2>1 DEF WtStaleIsToRun
  <2>. QED
    BY <1>4, <2>2, <2>3 DEF WtIInv
<1>6. CASE wtRequest.initialRun /\ WtRefreshable(wtHeld)
  <2>1. WtStartCycle(wtHeld, {})
    BY <1>6 DEF WtBegin
  <2>2. wtHeld.projects \subseteq WtProjects
    BY <1>0 DEF WtSessionIsTyped
  <2>3. /\ wtCycle' \in WtCycles /\ (wtCycle'.projects # {} => ~wtCycle'.callback)
        /\ wtAt' \in {"cycle", "loop"}
        /\ wtCycle' # WtNoCycle <=> wtAt' = "cycle"
        /\ ~wtCycle'.callback => WtSelected(wtHeld) \subseteq wtCycle'.projects
    BY <1>6, <2>1, <2>2, WtStartedCycles
  <2>4. WtSessionIsTyped'
    BY <1>0, <1>1, <1>2, <1>3, <2>3 DEF WtSessionIsTyped
  <2>5. ~wtUnseen /\ WtLayoutStands => wtHeld = wtDisk
    BY <1>0, <1>1 DEF WtLayoutIsHeld, WtWorking
  <2>6. WtStaleIsToRun'
    BY <1>1, <1>2, <2>3, <2>5, WtSameWorldTells DEF WtStaleIsToRun
  <2>. QED
    BY <1>4, <2>4, <2>6 DEF WtIInv
<1>7. WtRefreshable(wtHeld)
  BY <1>0, <1>1 DEF WtSessionIsTyped, WtRefreshable
<1>. QED
  BY <1>5, <1>6, <1>7

(* Steps that run, drop or wait for nothing new. *)
LEMMA WtLoops ==
    WtIInv /\ (\/ WtLeave \/ WtBlock \/ WtDisconnected \/ WtTakeStop \/ WtTakeNothing) => WtIInv'
<1>. SUFFICES ASSUME WtIInv
              PROVE  (\/ WtLeave \/ WtBlock \/ WtDisconnected \/ WtTakeStop
                      \/ WtTakeNothing) => WtIInv'
  OBVIOUS
<1>0. WtSessionIsTyped /\ WtLayoutIsHeld /\ WtStaleIsToRun /\ WtStopIsSent
  BY DEF WtIInv
<1>1. ASSUME wtAt \in {"starting", "loop", "receive"}, WtGo("ended"), WtSameWorld,
             wtQueue' \in Seq(WtBatches)
      PROVE  WtIInv'
  <2>1. WtSessionIsTyped'
    BY <1>0, <1>1 DEF WtSessionIsTyped, WtGo, WtSameWorld
  <2>. QED
    BY <1>1, <2>1 DEF WtIInv, WtGo, WtLayoutIsHeld, WtWorking, WtStaleIsToRun, WtStopIsSent
<1>2. wtQueue \in Seq(WtBatches)
  BY <1>0 DEF WtSessionIsTyped
<1>3. CASE WtLeave \/ WtDisconnected
  BY <1>1, <1>2, <1>3 DEF WtLeave, WtDisconnected
<1>4. CASE WtTakeStop
  <2>1. WtTake /\ WtGo("ended") /\ wtAt = "receive" /\ WtSameWorld
    BY <1>4 DEF WtTakeStop, WtTake
  <2>. QED
    BY <1>0, <1>1, <2>1, WtTakenBatchesTell
<1>5. CASE WtBlock
  <2>1. /\ wtAt = "loop" /\ ~WtStopped /\ wtAt' = "receive"
        /\ UNCHANGED <<wtHeld, wtCycle, wtStale, wtQueue>> /\ WtSameWorld
    BY <1>5 DEF WtBlock, WtGo
  <2>2. WtSessionIsTyped'
    BY <1>0, <2>1 DEF WtSessionIsTyped, WtSameWorld
  <2>3. WtLayoutIsHeld' /\ WtStopIsSent'
    BY <1>0, <2>1, WtSameWorldTells DEF WtLayoutIsHeld, WtWorking, WtStopIsSent, WtSameWorld
  <2>4. WtStaleIsToRun'
    <3>1. WtFilesCome' = WtFilesCome /\ WtLayoutStands' = WtLayoutStands
      BY <2>1, WtSameWorldTells
    <3>2. WtAffected(wtDisk, WtFilesCome)' = WtAffected(wtDisk, WtFilesCome)
      BY <2>1, <3>1 DEF WtAffected, WtPermitted, WtNames, WtSameWorld
    <3>3. WtSelected(wtDisk)' = WtSelected(wtDisk)
      BY <2>1, WtSameWorldTells
    <3>. QED
      BY <1>0, <2>1, <3>1, <3>2, <3>3 DEF WtStaleIsToRun, WtSameWorld
  <2>. QED
    BY <2>2, <2>3, <2>4 DEF WtIInv
<1>6. CASE WtTakeNothing
  <2>1. /\ WtTake /\ ~WtEnding /\ WtBatch = WtNoFiles /\ wtAt = "receive" /\ wtAt' = "loop"
        /\ UNCHANGED <<wtHeld, wtCycle, wtStale>> /\ WtSameWorld
    BY <1>6 DEF WtTakeNothing, WtTake, WtGo
  <2>2. /\ wtQueue' \in Seq(WtBatches)
        /\ WtFilesCome \subseteq WtFilesCome'
        /\ WtLayoutComes => WtLayoutComes'
    BY <1>0, <2>1, WtTakenBatchesTell DEF WtNoFiles
  <2>3. WtSessionIsTyped'
    BY <1>0, <2>1, <2>2 DEF WtSessionIsTyped, WtSameWorld
  <2>4. WtStopIsSent'
    BY <2>1 DEF WtEnding, WtStopped, WtStopIsSent, WtSameWorld
  <2>5. WtLayoutStands' => WtLayoutStands
    BY <2>1, <2>2, WtSameWorldTells
  <2>6. WtLayoutIsHeld'
    BY <1>0, <2>1, <2>5 DEF WtLayoutIsHeld, WtWorking, WtSameWorld
  <2>7. WtStaleIsToRun'
    <3>1. WtAffected(wtDisk, WtFilesCome) \subseteq WtAffected(wtDisk, WtFilesCome')
      BY <2>2, MoreIsAffected
    <3>2. /\ WtAffected(wtDisk, WtFilesCome)' = WtAffected(wtDisk, WtFilesCome')
          /\ WtSelected(wtDisk)' = WtSelected(wtDisk)
      BY <2>1 DEF WtAffected, WtPermitted, WtSelected, WtNames, WtSameWorld
    <3>. QED
      BY <1>0, <2>1, <2>5, <3>1, <3>2 DEF WtStaleIsToRun, WtSameWorld
  <2>. QED
    BY <2>3, <2>4, <2>6, <2>7 DEF WtIInv
<1>. QED
  BY <1>3, <1>4, <1>5, <1>6

(* A batch with a manifest in it: everything is read again. *)
LEMMA WtTakesManifests == WtIInv /\ WtTakeStructural => WtIInv'
<1>. SUFFICES ASSUME WtIInv, WtTakeStructural
              PROVE  WtIInv'
  OBVIOUS
<1>0. WtSessionIsTyped
  BY DEF WtIInv
<1>1. /\ WtTake /\ WtSameWorld /\ wtAt = "receive" /\ wtStale' = wtStale /\ wtQuit = "no"
      /\ wtQueue' \in Seq(WtBatches)
  BY <1>0, WtTakenBatchesTell DEF WtTakeStructural, WtTake, WtEnding, WtStopped
<1>2. UNCHANGED <<wtRequest, wtDisk, wtReady, wtGathered, wtOpen, wtQuit, wtUnseen, wtEdits>>
  BY <1>1 DEF WtSameWorld
<1>3. WtStopIsSent'
  BY <1>1, <1>2 DEF WtStopIsSent
<1>4. CASE wtAt' = "loop" /\ UNCHANGED <<wtHeld, wtCycle>> /\ ~WtRefreshable(wtDisk)
  <2>1. WtSessionIsTyped'
    BY <1>0, <1>1, <1>2, <1>4 DEF WtSessionIsTyped
  <2>2. ~WtLayoutStands'
    BY <1>1, <1>4, WtSameWorldTells
  <2>. QED
    BY <1>3, <2>1, <2>2 DEF WtIInv, WtLayoutIsHeld, WtStaleIsToRun
<1>5. CASE /\ WtRefreshable(wtDisk) /\ WtCallback(wtDisk) = "blank"
           /\ wtHeld' = [wtDisk EXCEPT !.callback = wtHeld.callback]
           /\ wtAt' = "loop" /\ UNCHANGED wtCycle
  <2>1. wtHeld'.valid = wtDisk.valid /\ wtHeld'.projects = wtDisk.projects
    BY <1>0, <1>5, LayoutsAreTyped
  <2>2. WtSessionIsTyped'
    BY <1>0, <1>1, <1>2, <1>5, <2>1, LayoutsAreTyped DEF WtSessionIsTyped, WtRefreshable
  <2>3. ~WtLayoutStands'
    BY <1>1, <1>5, WtSameWorldTells
  <2>. QED
    BY <1>3, <2>2, <2>3 DEF WtIInv, WtLayoutIsHeld, WtStaleIsToRun
<1>6. CASE /\ WtRefreshable(wtDisk)
           /\ wtHeld' = wtDisk /\ WtStartCycle(wtDisk, {})
  <2>1. wtDisk.projects \subseteq WtProjects
    BY <1>0, LayoutsAreTyped
  <2>2. /\ wtCycle' \in WtCycles /\ (wtCycle'.projects # {} => ~wtCycle'.callback)
        /\ wtAt' \in {"cycle", "loop"}
        /\ wtCycle' # WtNoCycle <=> wtAt' = "cycle"
        /\ ~wtCycle'.callback => WtSelected(wtDisk) \subseteq wtCycle'.projects
    BY <1>6, <2>1, WtStartedCycles
  <2>3. WtSessionIsTyped'
    BY <1>0, <1>1, <1>2, <1>6, <2>1, <2>2 DEF WtSessionIsTyped, WtRefreshable
  <2>4. WtLayoutIsHeld'
    BY <1>2, <1>6 DEF WtLayoutIsHeld
  <2>5. WtStaleIsToRun'
    BY <1>1, <1>2, <2>2, WtSameWorldTells DEF WtStaleIsToRun
  <2>. QED
    BY <1>3, <2>3, <2>4, <2>5 DEF WtIInv
<1>. QED
  BY <1>4, <1>5, <1>6 DEF WtTakeStructural

(* A batch with files: what they affect is run. *)
LEMMA WtTakesSources == WtIInv /\ WtTakeFiles => WtIInv'
<1>. SUFFICES ASSUME WtIInv, WtTakeFiles
              PROVE  WtIInv'
  OBVIOUS
<1>0. WtSessionIsTyped /\ WtLayoutIsHeld /\ WtStaleIsToRun
  BY DEF WtIInv
<1>. DEFINE F == WtBatch.files
<1>1. /\ WtTake /\ WtSameWorld /\ wtAt = "receive" /\ wtQuit = "no" /\ ~WtBatch.structural
      /\ F # {} /\ UNCHANGED <<wtHeld, wtStale>>
      /\ IF WtAffected(wtHeld, F) = {}
         THEN wtAt' = "loop" /\ UNCHANGED wtCycle
         ELSE WtStartCycle(wtHeld, F)
  BY DEF WtTakeFiles, WtTake, WtEnding, WtStopped
<1>. HIDE DEF F
<1>2. UNCHANGED <<wtRequest, wtDisk, wtReady, wtGathered, wtOpen, wtQuit, wtUnseen, wtEdits>>
  BY <1>1 DEF WtSameWorld
<1>3. /\ wtQueue' \in Seq(WtBatches)
      /\ WtFilesCome \subseteq F \cup WtFilesCome'
      /\ WtLayoutComes => WtLayoutComes'
  BY <1>0, <1>1, WtTakenBatchesTell DEF F
<1>4. WtLayoutStands' => WtLayoutStands
  BY <1>1, <1>3, WtSameWorldTells
<1>5. WtRefreshable(wtHeld) /\ wtHeld.projects \subseteq WtProjects /\ wtCycle = WtNoCycle
  BY <1>0, <1>1 DEF WtSessionIsTyped, WtRefreshable
<1>6. /\ wtCycle' \in WtCycles /\ (wtCycle'.projects # {} => ~wtCycle'.callback)
      /\ wtAt' \in {"cycle", "loop"} /\ (wtCycle' # WtNoCycle <=> wtAt' = "cycle")
      /\ ~wtCycle'.callback =>
           WtAffected(wtHeld, F) \cap WtSelected(wtHeld) \subseteq wtCycle'.projects
  <2>1. CASE WtAffected(wtHeld, F) = {}
    BY <1>0, <1>1, <1>5, <2>1 DEF WtSessionIsTyped
  <2>2. CASE WtAffected(wtHeld, F) # {}
    <3>1. WtStartCycle(wtHeld, F)
      BY <1>1, <2>2
    <3>. QED
      BY <1>1, <1>5, <3>1, WtStartedCycles
  <2>. QED
    BY <2>1, <2>2
<1>7. WtSessionIsTyped'
  BY <1>0, <1>1, <1>2, <1>3, <1>6 DEF WtSessionIsTyped
<1>8. WtLayoutIsHeld' /\ WtStopIsSent'
  BY <1>0, <1>1, <1>2, <1>4 DEF WtLayoutIsHeld, WtWorking, WtStopIsSent
<1>9. WtStaleIsToRun'
  <2>1. SUFFICES ASSUME ~wtUnseen, WtLayoutStands', ~wtCycle'.callback
                 PROVE  wtStale \cap WtSelected(wtDisk)
                          \subseteq wtCycle'.projects \cup WtAffected(wtDisk, WtFilesCome')
    <3>1. /\ WtAffected(wtDisk, WtFilesCome)' = WtAffected(wtDisk, WtFilesCome')
          /\ WtSelected(wtDisk)' = WtSelected(wtDisk)
      BY <1>2 DEF WtAffected, WtPermitted, WtSelected, WtNames
    <3>. QED
      BY <1>1, <1>2, <3>1 DEF WtStaleIsToRun
  <2>2. wtHeld = wtDisk
    BY <1>0, <1>1, <1>4, <2>1 DEF WtLayoutIsHeld, WtWorking
  <2>3. wtStale \cap WtSelected(wtDisk) \subseteq WtAffected(wtDisk, WtFilesCome)
    <3>1. wtCycle.projects = {} /\ ~wtCycle.callback
      BY <1>5 DEF WtNoCycle
    <3>. QED
      BY <1>0, <1>1, <1>4, <2>1, <3>1 DEF WtStaleIsToRun
  <2>4. WtAffected(wtDisk, WtFilesCome)
          \subseteq WtAffected(wtDisk, F) \cup WtAffected(wtDisk, WtFilesCome')
    <3>1. WtAffected(wtDisk, WtFilesCome) \subseteq WtAffected(wtDisk, F \cup WtFilesCome')
      BY <1>3, MoreIsAffected
    <3>. QED
      BY <3>1, BothAreAffected
  <2>5. WtAffected(wtDisk, F) \cap WtSelected(wtDisk) \subseteq wtCycle'.projects
    BY <1>6, <2>1, <2>2
  <2>. QED
    BY <2>3, <2>4, <2>5
<1>. QED
  BY <1>7, <1>8, <1>9 DEF WtIInv

(* What leaves a cycle was run, or the session is about to end. *)
LEMMA WtCycleGoesOn ==
    ASSUME WtIInv, wtAt = "cycle", WtSameWorld, UNCHANGED <<wtHeld, wtQueue>>,
           wtCycle' \in WtCycles, ~wtCycle'.callback, wtStale' \subseteq wtStale,
           wtAt' = (IF wtCycle' = WtNoCycle THEN "loop" ELSE "cycle"),
           \/ WtStopped /\ wtAt' = "loop"
           \/ wtStale' = {}
           \/ ~wtCycle.callback /\ wtStale' \cap wtCycle.projects \subseteq wtCycle'.projects
    PROVE  WtIInv'
<1>0. WtSessionIsTyped /\ WtLayoutIsHeld /\ WtStaleIsToRun /\ WtStopIsSent
  BY DEF WtIInv
<1>1. UNCHANGED <<wtRequest, wtDisk, wtReady, wtGathered, wtOpen, wtQuit, wtUnseen, wtEdits>>
  BY DEF WtSameWorld
<1>2. wtAt' \in {"loop", "cycle"} /\ (wtCycle' # WtNoCycle <=> wtAt' = "cycle")
  OBVIOUS
<1>3. WtSessionIsTyped'
  BY <1>0, <1>1, <1>2 DEF WtSessionIsTyped
<1>4. /\ WtFilesCome' = WtFilesCome /\ WtLayoutStands' = WtLayoutStands
      /\ WtStopComes' = WtStopComes /\ WtStopped' = WtStopped
      /\ WtSelected(wtDisk)' = WtSelected(wtDisk)
  BY WtSameWorldTells
<1>5. WtLayoutIsHeld' /\ WtStopIsSent'
  BY <1>0, <1>1, <1>2, <1>4 DEF WtLayoutIsHeld, WtWorking, WtStopIsSent
<1>6. WtAffected(wtDisk, WtFilesCome)' = WtAffected(wtDisk, WtFilesCome)
  BY <1>1, <1>4 DEF WtAffected, WtPermitted, WtNames
<1>7. WtStaleIsToRun'
  <2>1. CASE WtStopped /\ wtAt' = "loop"
    BY <1>4, <2>1 DEF WtStaleIsToRun
  <2>2. CASE wtStale' = {}
    BY <2>2 DEF WtStaleIsToRun
  <2>3. CASE /\ ~wtCycle.callback
             /\ wtStale' \cap wtCycle.projects \subseteq wtCycle'.projects
    <3>1. ~wtUnseen /\ WtLayoutStands =>
            wtStale \cap WtSelected(wtDisk)
              \subseteq wtCycle.projects \cup WtAffected(wtDisk, WtFilesCome)
      BY <1>0, <2>3 DEF WtStaleIsToRun
    <3>2. ~wtUnseen /\ WtLayoutStands =>
            wtStale' \cap WtSelected(wtDisk)
              \subseteq wtCycle'.projects \cup WtAffected(wtDisk, WtFilesCome)
      BY <2>3, <3>1
    <3>. QED
      BY <1>1, <1>4, <1>6, <3>2 DEF WtStaleIsToRun
  <2>. QED
    BY <2>1, <2>2, <2>3
<1>. QED
  BY <1>3, <1>5, <1>7 DEF WtIInv

LEMMA WtRunsItsCycle ==
    WtIInv /\ (\/ \E p \in WtProjects : WtRunTask(p)
               \/ WtTaskFails \/ WtRunCallback \/ WtCycleCancelled \/ WtCycleErrs) => WtIInv'
<1>. SUFFICES ASSUME WtIInv
              PROVE  (\/ \E p \in WtProjects : WtRunTask(p)
                      \/ WtTaskFails \/ WtRunCallback \/ WtCycleCancelled
                      \/ WtCycleErrs) => WtIInv'
  OBVIOUS
<1>0. WtSessionIsTyped
  BY DEF WtIInv
<1>1. /\ wtCycle = [projects |-> wtCycle.projects, callback |-> wtCycle.callback]
      /\ wtCycle.projects \subseteq WtProjects /\ wtCycle.callback \in BOOLEAN
      /\ wtCycle.projects # {} => ~wtCycle.callback
  BY <1>0 DEF WtSessionIsTyped, WtCycles
<1>2. WtNoCycle \in WtCycles /\ ~WtNoCycle.callback /\ WtNoCycle.projects = {}
  BY DEF WtNoCycle, WtCycles
<1>3. ASSUME NEW p \in WtProjects, WtRunTask(p)
      PROVE  WtIInv'
  <2>. DEFINE left == wtCycle.projects \ {p}
  <2>1. /\ wtAt = "cycle" /\ WtSameWorld /\ UNCHANGED <<wtHeld, wtQueue>>
        /\ wtCycle.projects # {} /\ wtStale' = wtStale \ {p}
        /\ wtAt' = IF wtCycle'.projects = {} THEN "loop" ELSE "cycle"
    BY <1>3 DEF WtRunTask
  <2>2. wtCycle' = [projects |-> left, callback |-> FALSE]
    <3>1. wtCycle' = [wtCycle EXCEPT !.projects = @ \ {p}]
      BY <1>3 DEF WtRunTask
    <3>. QED
      BY <1>1, <2>1, <3>1
  <2>3. left \subseteq WtProjects /\ wtStale' \cap wtCycle.projects \subseteq left
    BY <1>1, <2>1
  <2>. HIDE DEF left
  <2>4. /\ wtCycle' \in WtCycles /\ ~wtCycle'.callback /\ wtCycle'.projects = left
        /\ (wtCycle' = WtNoCycle <=> left = {})
    BY <2>2, <2>3 DEF WtCycles, WtNoCycle
  <2>. QED
    BY <1>1, <2>1, <2>3, <2>4, WtCycleGoesOn
<1>4. CASE WtTaskFails
  <2>1. /\ wtAt = "cycle" /\ WtSameWorld /\ UNCHANGED <<wtHeld, wtQueue>>
        /\ wtCycle.projects # {} /\ wtStale' = wtStale \ wtCycle.projects
        /\ wtCycle' = WtNoCycle /\ wtAt' = "loop"
    BY <1>4 DEF WtTaskFails
  <2>. QED
    BY <1>1, <1>2, <2>1, WtCycleGoesOn
<1>5. CASE WtRunCallback
  BY <1>2, <1>5, WtCycleGoesOn DEF WtRunCallback
<1>6. CASE WtCycleCancelled
  BY <1>2, <1>6, WtCycleGoesOn DEF WtCycleCancelled
<1>7. CASE WtCycleErrs
  <2>1. /\ wtAt' = "ended" /\ wtCycle' = WtNoCycle /\ wtAt = "cycle"
        /\ UNCHANGED <<wtRequest, wtDisk, wtReady, wtGathered, wtOpen, wtQuit, wtUnseen,
                       wtEdits, wtHeld, wtQueue, wtStale>>
    BY <1>7 DEF WtCycleErrs, WtSameWorld
  <2>2. WtSessionIsTyped'
    BY <1>0, <1>2, <2>1 DEF WtSessionIsTyped
  <2>. QED
    BY <2>1, <2>2 DEF WtIInv, WtLayoutIsHeld, WtWorking, WtStaleIsToRun, WtStopIsSent
<1>. QED
  BY <1>3, <1>4, <1>5, <1>6, <1>7

--------------------------------------------------------------------------------
LEMMA WtIInvHolds == WtSpec => []WtIInv
<1>1. WtInit => WtIInv
  <2>. SUFFICES ASSUME WtInit
                PROVE  WtIInv
    OBVIOUS
  <2>1. WtNoFiles \in WtBatches /\ WtNoCycle \in WtCycles /\ <<>> \in Seq(WtBatches)
    BY DEF WtNoFiles, WtBatches, WtNoCycle, WtCycles
  <2>2. /\ wtAt = "idle" /\ wtQuit = "no" /\ wtDisk = WtNoLayout /\ wtHeld.projects = {}
        /\ wtOpen = TRUE /\ wtReady = FALSE /\ wtCycle = WtNoCycle /\ wtCycle.projects = {}
        /\ wtGathered = WtNoFiles /\ wtQueue = <<>> /\ wtStale = {} /\ wtEdits = 0
    BY DEF WtInit, WtNoLayout, WtNoCycle
  <2>3. 0 \in 0..WtMaxEdits
    BY WtAssumption
  <2>4. WtSessionIsTyped
    BY <2>1, <2>2, <2>3 DEF WtSessionIsTyped
  <2>. QED
    BY <2>2, <2>4 DEF WtIInv, WtLayoutIsHeld, WtStaleIsToRun, WtStopIsSent, WtWorking
<1>2. WtIInv /\ [WtNext]_wtVars => WtIInv'
  <2>. SUFFICES ASSUME WtIInv, [WtNext]_wtVars
                PROVE  WtIInv'
    OBVIOUS
  <2>1. CASE WtNext
    BY <2>1, WtOpens, WtWorldGoesOn, WtSourceEdits, WtManifestEdits, WtBegins, WtLoops,
       WtTakesManifests, WtTakesSources, WtRunsItsCycle DEF WtNext
  <2>2. CASE UNCHANGED wtVars
    <3>1. WtSessionIsTyped' /\ WtStopIsSent'
      BY <2>2 DEF WtIInv, wtVars, WtSessionIsTyped, WtStopIsSent, WtStopComes
    <3>2. WtSameWorld /\ wtQueue' = wtQueue
          /\ UNCHANGED <<wtAt, wtRequest, wtHeld, wtCycle, wtDisk, wtStale, wtUnseen>>
      BY <2>2 DEF wtVars, WtSameWorld
    <3>3. /\ WtStopped' = WtStopped /\ WtFilesCome' = WtFilesCome
          /\ WtLayoutComes' = WtLayoutComes
      BY <3>2, WtSameWorldTells
    <3>. QED
      BY <3>1, <3>2, <3>3, WtNewsStayKnown
  <2>. QED
    BY <2>1, <2>2
<1>. QED
  BY <1>1, <1>2, PTL DEF WtSpec

(* What the worker, the channel and the quit flag may be. *)
THEOREM WatchIsTyped == WtSpec => []WtTypeOK
<1>1. WtIInv => WtTypeOK
  <2>. SUFFICES ASSUME WtIInv
                PROVE  WtTypeOK
    OBVIOUS
  <2>1. WtSessionIsTyped
    BY DEF WtIInv
  <2>2. \A i \in 1..Len(wtQueue) : wtQueue[i].files \subseteq WtProjects
    <3>1. \A i \in 1..Len(wtQueue) : wtQueue[i] \in WtBatches
      BY <2>1, ElementOfSeq DEF WtSessionIsTyped
    <3>. QED
      BY <3>1 DEF WtBatches
  <2>3. wtCycle.projects \subseteq WtProjects /\ wtCycle.callback \in BOOLEAN
    BY <2>1 DEF WtSessionIsTyped, WtCycles
  <2>. QED
    BY <2>1, <2>2, <2>3 DEF WtSessionIsTyped, WtTypeOK
<1>. QED
  BY <1>1, WtIInvHolds, PTL

(* A watch session that waits, with nothing on its way, has run everything selected since
   the last change, and has heard of every request to quit that was sent. *)
THEOREM WatchMissesNoEdit == WtSpec => []WtSafety
<1>1. WtIInv => WtSafety
  <2>. SUFFICES ASSUME WtIInv
                PROVE  WtSafety
    OBVIOUS
  <2>1. WtSessionIsTyped /\ WtLayoutIsHeld /\ WtStaleIsToRun /\ WtStopIsSent
    BY DEF WtIInv
  <2>2. ASSUME WtQuiet
        PROVE  WtFilesCome = {} /\ ~WtLayoutComes /\ ~WtStopComes
    <3>1. Len(wtQueue) = 0 /\ wtGathered.files = {} /\ ~wtGathered.structural
      BY <2>2 DEF WtQuiet, WtNoFiles
    <3>. QED
      BY <3>1 DEF WtFilesCome, WtLayoutComes, WtStopComes
  <2>3. WtQuitIsHeard
    BY <2>1, <2>2 DEF WtQuitIsHeard, WtStopIsSent, WtQuiet
  <2>4. ASSUME WtQuiet, ~wtUnseen, WtRefreshable(wtDisk), WtCallback(wtDisk) # "blank"
        PROVE  wtHeld = wtDisk /\ wtStale \cap WtSelected(wtDisk) = {}
    <3>1. WtLayoutStands /\ wtAt = "receive"
      BY <2>2, <2>4 DEF WtLayoutStands, WtQuiet
    <3>2. wtCycle = WtNoCycle
      BY <2>1, <3>1 DEF WtSessionIsTyped
    <3>3. wtHeld = wtDisk
      BY <2>1, <2>4, <3>1 DEF WtLayoutIsHeld, WtWorking
    <3>4. wtStale \cap WtSelected(wtDisk) \subseteq {} \cup WtAffected(wtDisk, {})
      BY <2>1, <2>2, <2>4, <3>1, <3>2 DEF WtStaleIsToRun, WtNoCycle
    <3>. QED
      BY <3>3, <3>4, NothingIsAffected
  <2>. QED
    BY <2>3, <2>4 DEF WtSafety, WtNoEditIsLost
<1>. QED
  BY <1>1, WtIInvHolds, PTL

--------------------------------------------------------------------------------
(* Neither session misses an edit, and both hear of a request to quit. *)
THEOREM SessionsMissNothing == WtSpec /\ DvSpec => []SessionsSafety
<1>1. WtSafety /\ DvSafety => SessionsSafety
  BY DEF SessionsSafety
<1>. QED
  BY <1>1, WatchMissesNoEdit, DevMissesNoEdit, PTL

--------------------------------------------------------------------------------
(* The processes of a command. *)

(* The processes of a command: each is in one of its lives; *)
CpRecords ==
    [life : {"none", "alive", "ended", "signalled"}, stubborn : BOOLEAN, pipe : BOOLEAN,
     apart : BOOLEAN, term : BOOLEAN, kill : BOOLEAN]

(* so everything is typed. *)
CpIsTyped ==
    /\ CpTypeOK
    /\ cpProc \in [CpProcs -> CpRecords] /\ cpCancelled \in BOOLEAN /\ cpReadersDone \in BOOLEAN

(* nothing has happened before the command was started, *)
CpBefore ==
    cpAt = "idle" =>
        /\ ~cpCancelled /\ cpExit = "none" /\ ~cpReadersDone /\ cpWritten = 0 /\ cpGot = 0
        /\ \A p \in CpProcs : cpProc[p].life = "none"

(* whoever was seen to end has, *)
CpSeenIsDead == cpExit # "none" => ~CpAlive(CpLeader)

(* and when the readers have met the end of their pipes nobody can write. *)
CpReadersAreLast == cpReadersDone => cpGot = cpWritten /\ CpHolders = {}

(* What holds of a command at every step. *)
CpIInv ==
    /\ CpIsTyped
    /\ CpBefore
    /\ CpSeenIsDead
    /\ CpReadersAreLast
    /\ CpOutputIsComplete
    /\ CpNothingGoesOn

(* Signals change neither who lives nor who holds what. *)
LEMMA CpSignalsKeep ==
    ASSUME NEW procs \in [CpProcs -> CpRecords], NEW s
    PROVE  /\ CpSignalled(procs, s) \in [CpProcs -> CpRecords]
           /\ \A p \in CpProcs :
                /\ CpSignalled(procs, s)[p].life = procs[p].life
                /\ CpSignalled(procs, s)[p].pipe = procs[p].pipe
                /\ CpSignalled(procs, s)[p].apart = procs[p].apart
                /\ procs[p].kill => CpSignalled(procs, s)[p].kill
                /\ (s = "kill" /\ procs[p].life = "alive" /\ ~procs[p].apart) =>
                     CpSignalled(procs, s)[p].kill
<1>. DEFINE S == CpSignalled(procs, s)
<1>1. ASSUME NEW p \in CpProcs
      PROVE  /\ S[p] \in CpRecords
             /\ S[p].life = procs[p].life /\ S[p].pipe = procs[p].pipe
             /\ S[p].apart = procs[p].apart
             /\ procs[p].kill => S[p].kill
             /\ (s = "kill" /\ procs[p].life = "alive" /\ ~procs[p].apart) => S[p].kill
  <2>1. procs[p] \in CpRecords
    OBVIOUS
  <2>2. CASE ~(procs[p].life = "alive" /\ ~procs[p].apart)
    <3>1. S[p] = procs[p]
      BY <2>2 DEF CpSignalled
    <3>. QED
      BY <2>1, <2>2, <3>1
  <2>3. CASE (procs[p].life = "alive" /\ ~procs[p].apart) /\ s = "term"
    <3>1. S[p] = [procs[p] EXCEPT !.term = TRUE]
      BY <2>3 DEF CpSignalled
    <3>. QED
      BY <2>1, <2>3, <3>1 DEF CpRecords
  <2>4. CASE (procs[p].life = "alive" /\ ~procs[p].apart) /\ s # "term"
    <3>1. S[p] = [procs[p] EXCEPT !.kill = TRUE]
      BY <2>4 DEF CpSignalled
    <3>. QED
      BY <2>1, <2>4, <3>1 DEF CpRecords
  <2>. QED
    BY <2>2, <2>3, <2>4
<1>2. S = [p \in CpProcs |-> S[p]]
  BY DEF CpSignalled
<1>. HIDE DEF S
<1>3. S \in [CpProcs -> CpRecords]
  BY <1>1, <1>2
<1>. QED
  BY <1>1, <1>3 DEF S

(* A poll only sends signals. *)
CpOnlySignalled(now) ==
    /\ now \in [CpProcs -> CpRecords]
    /\ \A p \in CpProcs :
          /\ now[p].life = cpProc[p].life /\ now[p].pipe = cpProc[p].pipe
          /\ now[p].apart = cpProc[p].apart
          /\ cpProc[p].kill => now[p].kill

(* Neither do the polls of cancellation.rs do more. *)
LEMMA CpPollsSignal == CpIsTyped => CpOnlySignalled(CpPolled)
<1>. SUFFICES ASSUME CpIsTyped
              PROVE  CpOnlySignalled(CpPolled)
  OBVIOUS
<1>1. cpProc \in [CpProcs -> CpRecords]
  BY DEF CpIsTyped
<1>2. CpOnlySignalled(cpProc)
  BY <1>1 DEF CpOnlySignalled
<1>3. CpOnlySignalled(CpSignalled(cpProc, "term")) /\ CpOnlySignalled(CpSignalled(cpProc, "kill"))
  BY <1>1, CpSignalsKeep DEF CpOnlySignalled
<1>4. CpPolled \in {cpProc, CpSignalled(cpProc, "term"), CpSignalled(cpProc, "kill")}
  BY DEF CpPolled
<1>. QED
  BY <1>2, <1>3, <1>4

(* What a round knows, however the command is waited for. *)
LEMMA CpRounds ==
    ASSUME CpIInv, cpAt = "waiting", CpOnlySignalled(cpProc'),
           cpSince' \in CpNextSince, cpExit' = CpSeen
    PROVE  /\ cpSince' \in 0..(CpGrace + 1)
           /\ cpExit' \in {"none", "ended", "signalled"}
           /\ \A p \in CpProcs : CpAlive(p)' = CpAlive(p)
           /\ CpHolders' = CpHolders
           /\ CpSeenIsDead'
<1>1. CpLeader \in CpProcs /\ CpGrace \in Nat
  BY CpAssumption
<1>2. \A p \in CpProcs : CpAlive(p)' = CpAlive(p)
  BY DEF CpAlive, CpOnlySignalled
<1>3. CpHolders' = CpHolders
  BY <1>2 DEF CpHolders, CpOnlySignalled
<1>4. cpSince' \in 0..(CpGrace + 1)
  BY <1>1 DEF CpIInv, CpIsTyped, CpTypeOK, CpNextSince
<1>5. cpExit' \in {"none", "ended", "signalled"}
  BY <1>1 DEF CpIInv, CpIsTyped, CpTypeOK, CpSeen, CpAlive
<1>6. cpExit' # "none" => ~CpAlive(CpLeader)
  BY DEF CpSeen, CpIInv, CpSeenIsDead
<1>7. CpSeenIsDead'
  BY <1>1, <1>2, <1>6 DEF CpSeenIsDead
<1>. QED
  BY <1>2, <1>3, <1>4, <1>5, <1>7

(* Before a command it holds, *)
LEMMA CpStartsRight == CpInit => CpIInv
<1>. SUFFICES ASSUME CpInit
              PROVE  CpIInv
  OBVIOUS
<1>1. CpNobody \in CpRecords /\ CpNobody.life = "none"
  BY DEF CpNobody, CpProcess, CpRecords
<1>2. cpProc \in [CpProcs -> CpRecords] /\ \A p \in CpProcs : cpProc[p].life = "none"
  BY <1>1 DEF CpInit
<1>3. CpIsTyped
  <2>1. CpTypeOK
    BY <1>2, CpAssumption DEF CpInit, CpTypeOK, CpModes
  <2>2. cpCancelled \in BOOLEAN /\ cpReadersDone \in BOOLEAN
    BY DEF CpInit
  <2>. QED
    BY <1>2, <2>1, <2>2 DEF CpIsTyped
<1>4. CpBefore /\ CpSeenIsDead /\ CpReadersAreLast /\ CpOutputIsComplete /\ CpNothingGoesOn
  BY <1>2 DEF CpInit, CpBefore, CpSeenIsDead, CpReadersAreLast, CpOutputIsComplete, CpNothingGoesOn
<1>. QED
  BY <1>3, <1>4 DEF CpIInv

(* it does when the command is started, *)
LEMMA CpSpawnKeeps == CpIInv /\ CpSpawn => CpIInv'
<1>. SUFFICES ASSUME CpIInv, CpSpawn
              PROVE  CpIInv'
  OBVIOUS
<1>1. CpLeader \in CpProcs /\ cpProc \in [CpProcs -> CpRecords]
  BY CpAssumption DEF CpIInv, CpIsTyped
<1>2. /\ ~cpCancelled /\ cpExit = "none" /\ ~cpReadersDone /\ cpWritten = 0 /\ cpGot = 0
      /\ \A p \in CpProcs : cpProc[p].life = "none"
  BY DEF CpSpawn, CpIInv, CpBefore
<1>3. /\ UNCHANGED <<cpCancelled, cpSince, cpExit, cpWritten, cpGot, cpReadersDone>>
      /\ cpMode' \in CpModes
  BY DEF CpSpawn
<1>4. CASE cpAt' = "waiting" /\ UNCHANGED cpResult
           /\ \E stubborn \in BOOLEAN :
                cpProc' = [cpProc EXCEPT ![CpLeader] =
                             CpProcess("alive", stubborn, cpMode' # "inherited", FALSE)]
  <2>1. PICK stubborn \in BOOLEAN :
               cpProc' = [cpProc EXCEPT ![CpLeader] =
                             CpProcess("alive", stubborn, cpMode' # "inherited", FALSE)]
    BY <1>4
  <2>2. CpProcess("alive", stubborn, cpMode' # "inherited", FALSE) \in CpRecords
    BY DEF CpProcess, CpRecords
  <2>3. cpProc' \in [CpProcs -> CpRecords]
    BY <1>1, <2>1, <2>2
  <2>4. CpIsTyped'
    <3>1. \A p \in CpProcs : cpProc'[p].life \in {"none", "alive", "ended", "signalled"}
      BY <2>3 DEF CpRecords
    <3>. QED
      BY <1>3, <1>4, <2>3, <3>1 DEF CpIInv, CpIsTyped, CpTypeOK
  <2>5. CpBefore' /\ CpSeenIsDead' /\ CpReadersAreLast' /\ CpOutputIsComplete' /\ CpNothingGoesOn'
    BY <1>2, <1>3, <1>4
    DEF CpBefore, CpSeenIsDead, CpReadersAreLast, CpOutputIsComplete, CpNothingGoesOn
  <2>. QED
    BY <2>4, <2>5 DEF CpIInv
<1>5. CASE cpAt' = "returned" /\ cpResult' = "failed" /\ UNCHANGED cpProc
  <2>1. CpIsTyped'
    BY <1>3, <1>5 DEF CpIInv, CpIsTyped, CpTypeOK
  <2>2. CpHolders' = {}
    BY <1>2, <1>5 DEF CpHolders, CpAlive
  <2>3. CpBefore' /\ CpSeenIsDead' /\ CpReadersAreLast' /\ CpOutputIsComplete' /\ CpNothingGoesOn'
    BY <1>2, <1>3, <1>5, <2>2
    DEF CpBefore, CpSeenIsDead, CpReadersAreLast, CpOutputIsComplete, CpNothingGoesOn
  <2>. QED
    BY <2>1, <2>3 DEF CpIInv
<1>. QED
  BY <1>4, <1>5 DEF CpSpawn

(* While others run nothing of the wait changes. *)
LEMMA CpOthersKeep ==
    ASSUME CpIInv, CpSameWait, CpIsTyped', cpAt # "idle",
           cpReadersDone \/ (cpAt = "returned" /\ cpMode = "captured") =>
               cpWritten' = cpWritten /\ CpHolders' = {},
           ~CpAlive(CpLeader) => ~CpAlive(CpLeader)',
           cpAt = "returned" /\ cpMode = "inherited" /\ (\A p \in CpGroup : cpProc[p].kill) =>
               \A p \in CpGroup' : cpProc'[p].kill
    PROVE  CpIInv'
<1>1. UNCHANGED <<cpAt, cpMode, cpCancelled, cpSince, cpExit, cpGot, cpReadersDone, cpResult>>
  BY DEF CpSameWait
<1>2. CpBefore'
  BY <1>1 DEF CpBefore
<1>3. CpSeenIsDead'
  BY <1>1 DEF CpIInv, CpSeenIsDead
<1>4. CpReadersAreLast'
  BY <1>1 DEF CpIInv, CpReadersAreLast
<1>5. CpOutputIsComplete'
  BY <1>1 DEF CpIInv, CpOutputIsComplete
<1>6. CpNothingGoesOn'
  BY <1>1 DEF CpIInv, CpNothingGoesOn
<1>. QED
  BY <1>2, <1>3, <1>4, <1>5, <1>6 DEF CpIInv

(* when one of its processes forks, which only a live one does, *)
LEMMA CpForksKeeps ==
    ASSUME CpIInv, NEW p \in CpProcs, NEW q \in CpProcs \ {CpLeader}, CpForks(p, q)
    PROVE  CpIInv'
<1>1. PICK stubborn, pipe, apart \in BOOLEAN :
             /\ pipe => cpProc[p].pipe
             /\ cpProc[p].apart => apart
             /\ cpProc' = [cpProc EXCEPT ![q] = CpProcess("alive", stubborn, pipe, apart)]
  BY DEF CpForks
<1>2. /\ CpAlive(p) /\ ~cpProc[p].kill /\ cpProc[q].life = "none"
      /\ CpSameWait /\ UNCHANGED cpWritten
  BY DEF CpForks
<1>3. cpProc \in [CpProcs -> CpRecords]
  BY DEF CpIInv, CpIsTyped
<1>. DEFINE new == CpProcess("alive", stubborn, pipe, apart)
<1>4. new \in CpRecords /\ (new.pipe <=> pipe) /\ (new.apart <=> apart)
  BY DEF CpProcess, CpRecords
<1>. HIDE DEF new
<1>5. cpProc' \in [CpProcs -> CpRecords] /\ cpProc'[q] = new
      /\ \A r \in CpProcs \ {q} : cpProc'[r] = cpProc[r]
  BY <1>1, <1>3, <1>4 DEF new
<1>6. CpIsTyped'
  <2>1. \A r \in CpProcs : cpProc'[r].life \in {"none", "alive", "ended", "signalled"}
    BY <1>5 DEF CpRecords
  <2>. QED
    BY <1>2, <1>5, <2>1 DEF CpIInv, CpIsTyped, CpTypeOK, CpSameWait
<1>7. cpAt # "idle"
  BY <1>2 DEF CpIInv, CpBefore, CpAlive
<1>8. CpHolders = {} => CpHolders' = {}
  <2>. SUFFICES ASSUME CpHolders = {}
                PROVE  CpHolders' = {}
    OBVIOUS
  <2>1. \A r \in CpProcs : ~(CpAlive(r) /\ cpProc[r].pipe)
    BY DEF CpHolders
  <2>2. ~pipe
    BY <1>1, <1>2, <2>1
  <2>3. \A r \in CpProcs : ~(CpAlive(r)' /\ cpProc'[r].pipe)
    BY <1>4, <1>5, <2>1, <2>2 DEF CpAlive
  <2>. QED
    BY <2>3 DEF CpHolders
<1>9. CpLeader \in CpProcs /\ CpLeader # q
  BY CpAssumption
<1>10. ~CpAlive(CpLeader) => ~CpAlive(CpLeader)'
  BY <1>5, <1>9 DEF CpAlive
<1>11. ASSUME \A r \in CpGroup : cpProc[r].kill
       PROVE  \A r \in CpGroup' : cpProc'[r].kill
  <2>1. cpProc[p].apart
    BY <1>2, <1>11 DEF CpGroup
  <2>2. q \notin CpGroup'
    BY <1>1, <1>4, <1>5, <2>1 DEF CpGroup
  <2>3. \A r \in CpGroup' : r \in CpGroup /\ cpProc'[r] = cpProc[r]
    BY <1>5, <2>2 DEF CpGroup, CpAlive
  <2>. QED
    BY <1>11, <2>3
<1>12. cpReadersDone \/ (cpAt = "returned" /\ cpMode = "captured") =>
               cpWritten' = cpWritten /\ CpHolders' = {}
  BY <1>2, <1>8 DEF CpIInv, CpReadersAreLast, CpOutputIsComplete
<1>. QED
  BY <1>2, <1>6, <1>7, <1>10, <1>11, <1>12, CpOthersKeep

(* when one writes, which the readers are still there for, *)
LEMMA CpWritesKeeps ==
    ASSUME CpIInv, NEW p \in CpProcs, CpWrites(p)
    PROVE  CpIInv'
<1>1. /\ p \in CpHolders /\ cpWritten < CpMaxChunks /\ cpWritten' = cpWritten + 1
      /\ CpSameWait /\ UNCHANGED cpProc
  BY DEF CpWrites
<1>2. CpIsTyped'
  BY <1>1, CpAssumption DEF CpIInv, CpIsTyped, CpTypeOK, CpSameWait
<1>3. cpAt # "idle"
  BY <1>1 DEF CpIInv, CpBefore, CpHolders, CpAlive
<1>4. ~(cpReadersDone \/ (cpAt = "returned" /\ cpMode = "captured"))
  BY <1>1 DEF CpIInv, CpReadersAreLast, CpOutputIsComplete
<1>5. (~CpAlive(CpLeader) => ~CpAlive(CpLeader)') /\ CpGroup' = CpGroup
  BY <1>1 DEF CpAlive, CpGroup
<1>. QED
  BY <1>1, <1>2, <1>3, <1>4, <1>5, CpOthersKeep

(* when one ends, *)
LEMMA CpDiesKeeps ==
    ASSUME CpIInv, NEW p \in CpProcs, CpDies(p)
    PROVE  CpIInv'
<1>. DEFINE life == IF cpProc[p].kill \/ (cpProc[p].term /\ ~cpProc[p].stubborn)
                    THEN "signalled" ELSE "ended"
<1>1. /\ CpAlive(p) /\ cpProc' = [cpProc EXCEPT ![p].life = life]
      /\ CpSameWait /\ UNCHANGED cpWritten
  BY DEF CpDies
<1>2. life \in {"ended", "signalled"}
  OBVIOUS
<1>. HIDE DEF life
<1>3. cpProc \in [CpProcs -> CpRecords]
  BY DEF CpIInv, CpIsTyped
<1>4. [cpProc[p] EXCEPT !.life = life] \in CpRecords /\ [cpProc[p] EXCEPT !.life = life].life = life
  <2>1. cpProc[p] \in CpRecords
    BY <1>3
  <2>. QED
    BY <1>2, <2>1 DEF CpRecords
<1>5. cpProc' \in [CpProcs -> CpRecords] /\ cpProc'[p].life = life
      /\ \A r \in CpProcs \ {p} : cpProc'[r] = cpProc[r]
  BY <1>1, <1>3, <1>4
<1>6. CpIsTyped'
  <2>1. \A r \in CpProcs : cpProc'[r].life \in {"none", "alive", "ended", "signalled"}
    BY <1>5 DEF CpRecords
  <2>. QED
    BY <1>1, <1>5, <2>1 DEF CpIInv, CpIsTyped, CpTypeOK, CpSameWait
<1>7. cpAt # "idle"
  BY <1>1 DEF CpIInv, CpBefore, CpAlive
<1>8. \A r \in CpProcs : CpAlive(r)' => r # p /\ CpAlive(r) /\ cpProc'[r] = cpProc[r]
  BY <1>2, <1>5 DEF CpAlive
<1>9. CpHolders' \subseteq CpHolders /\ CpGroup' \subseteq CpGroup
      /\ \A r \in CpGroup' : cpProc'[r] = cpProc[r]
  BY <1>8 DEF CpHolders, CpGroup
<1>10. ~CpAlive(CpLeader) => ~CpAlive(CpLeader)'
  BY <1>8, CpAssumption
<1>11. cpReadersDone \/ (cpAt = "returned" /\ cpMode = "captured") =>
               cpWritten' = cpWritten /\ CpHolders' = {}
  BY <1>1, <1>9 DEF CpIInv, CpReadersAreLast, CpOutputIsComplete
<1>. QED
  BY <1>1, <1>6, <1>7, <1>9, <1>10, <1>11, CpOthersKeep

(* when the run is cancelled, *)
LEMMA CpCancelKeeps == CpIInv /\ CpCancel => CpIInv'
<1>. SUFFICES ASSUME CpIInv, CpCancel
              PROVE  CpIInv'
  OBVIOUS
<1>1. /\ cpAt = "waiting" /\ cpCancelled' = TRUE
      /\ UNCHANGED <<cpAt, cpMode, cpProc, cpSince, cpExit, cpWritten, cpGot,
                     cpReadersDone, cpResult>>
  BY DEF CpCancel
<1>2. CpIsTyped'
  BY <1>1 DEF CpIInv, CpIsTyped, CpTypeOK
<1>3. CpHolders' = CpHolders /\ CpAlive(CpLeader)' = CpAlive(CpLeader)
  BY <1>1 DEF CpHolders, CpAlive
<1>4. CpBefore' /\ CpSeenIsDead' /\ CpReadersAreLast' /\ CpOutputIsComplete' /\ CpNothingGoesOn'
  BY <1>1, <1>3
  DEF CpIInv, CpBefore, CpSeenIsDead, CpReadersAreLast, CpOutputIsComplete, CpNothingGoesOn
<1>. QED
  BY <1>2, <1>4 DEF CpIInv

(* in the rounds of run_with_output_and_cancel, which waits for its readers, *)
LEMMA CpRoundCapturedKeeps == CpIInv /\ CpRoundCaptured => CpIInv'
<1>. SUFFICES ASSUME CpIInv, CpRoundCaptured
              PROVE  CpIInv'
  OBVIOUS
<1>1. /\ cpAt = "waiting" /\ cpMode = "captured"
      /\ cpProc' = CpPolled /\ cpSince' \in CpNextSince /\ cpExit' = CpSeen
      /\ UNCHANGED <<cpMode, cpCancelled, cpWritten>>
  BY DEF CpRoundCaptured
<1>2. CpOnlySignalled(cpProc')
  BY <1>1, CpPollsSignal DEF CpIInv
<1>3. /\ cpSince' \in 0..(CpGrace + 1)
      /\ cpExit' \in {"none", "ended", "signalled"}
      /\ \A p \in CpProcs : CpAlive(p)' = CpAlive(p)
      /\ CpHolders' = CpHolders
      /\ CpSeenIsDead'
  BY <1>1, <1>2, CpRounds
<1>4. cpGot' \in 0..cpWritten' /\ cpReadersDone' \in BOOLEAN /\ CpReadersAreLast'
  <2>1. cpGot \in 0..cpWritten /\ cpWritten \in Nat
    BY CpAssumption DEF CpIInv, CpIsTyped, CpTypeOK
  <2>2. CASE cpGot < cpWritten /\ cpGot' = cpGot + 1 /\ UNCHANGED cpReadersDone
    <3>1. ~cpReadersDone
      BY <2>1, <2>2 DEF CpIInv, CpReadersAreLast
    <3>. QED
      BY <1>1, <2>1, <2>2, <3>1 DEF CpIInv, CpIsTyped, CpReadersAreLast
  <2>3. CASE cpGot = cpWritten /\ CpHolders = {} /\ cpReadersDone' = TRUE /\ UNCHANGED cpGot
    BY <1>1, <1>3, <2>1, <2>3 DEF CpReadersAreLast
  <2>4. CASE UNCHANGED <<cpGot, cpReadersDone>>
    BY <1>1, <1>3, <2>1, <2>4 DEF CpIInv, CpIsTyped, CpReadersAreLast
  <2>. QED
    BY <2>2, <2>3, <2>4 DEF CpRoundCaptured
<1>5. /\ cpAt' \in {"waiting", "returned"} /\ cpResult' \in {"none", "ok", "failed"}
      /\ cpAt' = "returned" => cpReadersDone' /\ cpExit' # "none"
  BY <1>1 DEF CpRoundCaptured, CpEnds, CpIInv, CpIsTyped, CpTypeOK
<1>6. CpIsTyped'
  <2>1. cpProc' \in [CpProcs -> CpRecords]
    BY <1>2 DEF CpOnlySignalled
  <2>2. \A r \in CpProcs : cpProc'[r].life \in {"none", "alive", "ended", "signalled"}
    BY <2>1 DEF CpRecords
  <2>. QED
    BY <1>1, <1>3, <1>4, <1>5, <2>1, <2>2 DEF CpIInv, CpIsTyped, CpTypeOK
<1>7. CpBefore' /\ CpOutputIsComplete' /\ CpNothingGoesOn'
  BY <1>1, <1>3, <1>4, <1>5
  DEF CpBefore, CpSeenIsDead, CpReadersAreLast, CpOutputIsComplete, CpNothingGoesOn
<1>. QED
  BY <1>3, <1>4, <1>6, <1>7 DEF CpIInv

(* in those of run_piped_persistent, *)
LEMMA CpRoundPipedKeeps == CpIInv /\ CpRoundPiped => CpIInv'
<1>. SUFFICES ASSUME CpIInv, CpRoundPiped
              PROVE  CpIInv'
  OBVIOUS
<1>1. /\ cpAt = "waiting" /\ cpMode = "piped"
      /\ cpProc' = CpPolled /\ cpSince' \in CpNextSince /\ cpExit' = CpSeen
      /\ UNCHANGED <<cpMode, cpCancelled, cpWritten, cpGot, cpReadersDone>>
  BY DEF CpRoundPiped
<1>2. CpOnlySignalled(cpProc')
  BY <1>1, CpPollsSignal DEF CpIInv
<1>3. /\ cpSince' \in 0..(CpGrace + 1)
      /\ cpExit' \in {"none", "ended", "signalled"}
      /\ CpHolders' = CpHolders
      /\ CpSeenIsDead'
  BY <1>1, <1>2, CpRounds
<1>4. /\ cpAt' \in {"waiting", "returned"} /\ cpResult' \in {"none", "ok", "failed"}
      /\ cpAt' = "returned" => cpExit' # "none"
  BY <1>1 DEF CpRoundPiped, CpIInv, CpIsTyped, CpTypeOK
<1>5. CpIsTyped'
  <2>1. cpProc' \in [CpProcs -> CpRecords]
    BY <1>2 DEF CpOnlySignalled
  <2>2. \A r \in CpProcs : cpProc'[r].life \in {"none", "alive", "ended", "signalled"}
    BY <2>1 DEF CpRecords
  <2>. QED
    BY <1>1, <1>3, <1>4, <2>1, <2>2 DEF CpIInv, CpIsTyped, CpTypeOK
<1>6. CpBefore' /\ CpReadersAreLast' /\ CpOutputIsComplete' /\ CpNothingGoesOn'
  BY <1>1, <1>3, <1>4
  DEF CpIInv, CpBefore, CpSeenIsDead, CpReadersAreLast, CpOutputIsComplete, CpNothingGoesOn
<1>. QED
  BY <1>3, <1>5, <1>6 DEF CpIInv

(* which pumps what is left, *)
LEMMA CpPumpKeeps == CpIInv /\ CpPump => CpIInv'
<1>. SUFFICES ASSUME CpIInv, CpPump
              PROVE  CpIInv'
  OBVIOUS
<1>1. /\ cpMode = "piped" /\ cpGot < cpWritten /\ cpGot' = cpGot + 1
      /\ UNCHANGED <<cpAt, cpMode, cpProc, cpCancelled, cpSince, cpExit, cpWritten,
                     cpReadersDone, cpResult>>
  BY DEF CpPump
<1>2. cpGot \in 0..cpWritten /\ cpWritten \in Nat
  BY CpAssumption DEF CpIInv, CpIsTyped, CpTypeOK
<1>3. CpIsTyped'
  BY <1>1, <1>2 DEF CpIInv, CpIsTyped, CpTypeOK
<1>4. cpAt # "idle" /\ ~cpReadersDone
  BY <1>1, <1>2 DEF CpIInv, CpBefore, CpReadersAreLast
<1>5. CpAlive(CpLeader)' = CpAlive(CpLeader)
  BY <1>1 DEF CpAlive
<1>6. CpBefore' /\ CpSeenIsDead' /\ CpReadersAreLast' /\ CpOutputIsComplete' /\ CpNothingGoesOn'
  BY <1>1, <1>4, <1>5
  DEF CpIInv, CpBefore, CpSeenIsDead, CpReadersAreLast, CpOutputIsComplete, CpNothingGoesOn
<1>. QED
  BY <1>3, <1>6 DEF CpIInv

(* and in those of wait_for_child, which has no pipe. *)
LEMMA CpRoundInheritedKeeps == CpIInv /\ CpRoundInherited => CpIInv'
<1>. SUFFICES ASSUME CpIInv, CpRoundInherited
              PROVE  CpIInv'
  OBVIOUS
<1>1. /\ cpAt = "waiting" /\ cpMode = "inherited"
      /\ cpSince' \in CpNextSince /\ cpExit' = CpSeen
      /\ UNCHANGED <<cpMode, cpCancelled, cpWritten, cpGot, cpReadersDone>>
  BY DEF CpRoundInherited
<1>2. CpOnlySignalled(CpPolled)
  BY CpPollsSignal DEF CpIInv
<1>3. /\ cpExit' = "none" => cpProc' = CpPolled /\ UNCHANGED <<cpAt, cpResult>>
      /\ cpExit' # "none" =>
           /\ cpAt' = "returned" /\ cpProc' = CpForced(CpPolled)
           /\ cpResult' \in {"ok", "failed"}
  BY DEF CpRoundInherited
<1>4. /\ CpOnlySignalled(CpForced(CpPolled))
      /\ cpCancelled =>
           \A p \in CpProcs : (CpForced(CpPolled)[p].life = "alive" /\ ~CpForced(CpPolled)[p].apart) =>
                                 CpForced(CpPolled)[p].kill
  <2>. DEFINE polled == CpPolled
  <2>1. CpOnlySignalled(polled) /\ polled \in [CpProcs -> CpRecords]
    BY <1>2 DEF CpOnlySignalled
  <2>2. CASE ~cpCancelled
    BY <2>1, <2>2 DEF CpForced
  <2>3. CASE cpCancelled
    <3>. DEFINE forced == CpSignalled(polled, "kill")
    <3>1. CpForced(polled) = forced
      BY <2>3 DEF CpForced
    <3>. HIDE DEF polled
    <3>2. /\ forced \in [CpProcs -> CpRecords]
          /\ \A p \in CpProcs :
                /\ forced[p].life = polled[p].life /\ forced[p].pipe = polled[p].pipe
                /\ forced[p].apart = polled[p].apart
                /\ polled[p].kill => forced[p].kill
                /\ (polled[p].life = "alive" /\ ~polled[p].apart) => forced[p].kill
      BY <2>1, CpSignalsKeep
    <3>. HIDE DEF forced
    <3>3. CpOnlySignalled(forced)
      BY <2>1, <3>2 DEF CpOnlySignalled
    <3>. QED
      BY <3>1, <3>2, <3>3 DEF polled
  <2>. QED
    BY <2>2, <2>3
<1>5. CpOnlySignalled(cpProc')
  BY <1>2, <1>3, <1>4
<1>6. /\ cpSince' \in 0..(CpGrace + 1)
      /\ cpExit' \in {"none", "ended", "signalled"}
      /\ CpHolders' = CpHolders
      /\ CpSeenIsDead'
  BY <1>1, <1>5, CpRounds
<1>7. /\ cpAt' \in {"waiting", "returned"} /\ cpResult' \in {"none", "ok", "failed"}
      /\ cpAt' = "returned" => cpExit' # "none"
  BY <1>1, <1>3 DEF CpIInv, CpIsTyped, CpTypeOK
<1>8. CpIsTyped'
  <2>1. cpProc' \in [CpProcs -> CpRecords]
    BY <1>5 DEF CpOnlySignalled
  <2>2. \A r \in CpProcs : cpProc'[r].life \in {"none", "alive", "ended", "signalled"}
    BY <2>1 DEF CpRecords
  <2>. QED
    BY <1>1, <1>6, <1>7, <2>1, <2>2 DEF CpIInv, CpIsTyped, CpTypeOK
<1>9. CpBefore' /\ CpReadersAreLast' /\ CpOutputIsComplete'
  BY <1>1, <1>6, <1>7 DEF CpIInv, CpBefore, CpReadersAreLast, CpOutputIsComplete
<1>10. CpNothingGoesOn'
  <2>. SUFFICES ASSUME cpAt' = "returned", cpCancelled'
                PROVE  (\A p \in CpGroup' : cpProc'[p].kill) /\ ~CpAlive(CpLeader)'
    BY DEF CpNothingGoesOn
  <2>1. cpProc' = CpForced(CpPolled) /\ cpCancelled
    BY <1>1, <1>3, <1>7
  <2>2. \A p \in CpGroup' : cpProc'[p].kill
    BY <1>4, <2>1 DEF CpGroup, CpAlive
  <2>. QED
    BY <1>6, <1>7, <2>2 DEF CpSeenIsDead
<1>. QED
  BY <1>6, <1>8, <1>9, <1>10 DEF CpIInv

(* No step breaks it, *)
LEMMA CpStays == CpIInv /\ [CpNext]_cpVars => CpIInv'
<1>. SUFFICES ASSUME CpIInv, [CpNext]_cpVars
              PROVE  CpIInv'
  OBVIOUS
<1>1. CASE UNCHANGED cpVars
  BY <1>1
  DEF cpVars, CpIInv, CpIsTyped, CpTypeOK, CpBefore, CpSeenIsDead, CpReadersAreLast,
      CpOutputIsComplete, CpNothingGoesOn, CpAlive, CpGroup, CpHolders
<1>. QED
  BY <1>1, CpSpawnKeeps, CpForksKeeps, CpWritesKeeps, CpDiesKeeps, CpCancelKeeps,
     CpRoundCapturedKeeps, CpRoundPipedKeeps, CpPumpKeeps, CpRoundInheritedKeeps DEF CpNext

(* so it always holds, *)
LEMMA CpAlways == CpSpec => []CpIInv
  BY CpStartsRight, CpStays, PTL DEF CpSpec

(* and with it what is promised of a command. *)
LEMMA CpIInvImpliesSafety == CpIInv => CpTypeOK /\ CpSafety
  BY DEF CpIInv, CpIsTyped, CpSafety

--------------------------------------------------------------------------------
(* The screen of a run. *)

(* What holds of zero, and of each number's successor, holds of every number. *)
LEMMA AllNumbers ==
    ASSUME NEW S, 0 \in S, \A n \in Nat : n \in S => n + 1 \in S
    PROVE  \A n \in Nat : n \in S
<1>. DEFINE R == {n \in Nat : n \notin S}
<1>. SUFFICES ASSUME R # {}
              PROVE  FALSE
  OBVIOUS
<1>1. PICK x \in R : \A y \in R : ~(<<y, x>> \in OpToRel(<, Nat))
  <2>1. R \subseteq Nat
    OBVIOUS
  <2>. HIDE DEF R
  <2>. QED
    BY <2>1, NatLessThanWellFounded, WFMin
<1>2. \A y \in R : ~(y < x)
  <2>1. R \subseteq Nat
    OBVIOUS
  <2>. HIDE DEF R
  <2>. QED
    BY <1>1, <2>1 DEF OpToRel
<1>3. x \in Nat /\ x # 0
  OBVIOUS
<1>4. x - 1 \in Nat /\ x - 1 \notin R
  BY <1>2, <1>3
<1>. QED
  BY <1>3, <1>4

(* What a row says, and what it says of a task that is over; *)
RtStates == {"pending", "running", "stopping", "waiting", "ok", "cached", "failed", "skipped"}
RtEnded == {"ok", "cached", "failed", "skipped"}
(* what of the log is on the screen; the counters; the rows that say one of S. *)
RtViews ==
    [sel : 1..Len(RtProjects), full : BOOLEAN, end : Nat, lines : Nat, rows : Nat]
RtCounts == [completed : Nat, succeeded : Nat, failed : Nat, skipped : Nat]
RtOf(S) == {p \in RtNames : rtRow[p] \in S}

(* The variables are typed. *)
RtIsTyped ==
    /\ RtTypeOK
    /\ rtRow \in [RtNames -> RtStates] /\ rtCount \in RtCounts
    /\ rtLog \in [RtNames -> 0..RtMaxLines]
    /\ rtDown \in BOOLEAN /\ rtQueue \in Seq(RtKeys)

(* The window is inside of the log as it was drawn, which has only grown since, and
   is where the user wanted it. *)
RtWindowHolds ==
    /\ rtView \in RtViews /\ rtView.end \in 0..RtMaxLines /\ rtShown \in Nat /\ rtAsked \in Nat
    /\ rtView.end # 0 => rtView.end < rtView.lines
    /\ rtAt = "off" => rtView.end = 0
    /\ rtAt # "off" => rtView.lines <= RtLinesOf(rtLog, rtView)
    /\ RtWindowIsRight

(* The counters are those of the rows until q or the end of a cycle. *)
RtRowsAreCounted ==
    /\ rtCount.completed = rtCount.succeeded + rtCount.failed + rtCount.skipped
    /\ rtAt \in {"running", "summary", "left"} /\ ~rtDown =>
          /\ rtCount.completed = Cardinality(RtOf(RtEnded))
          /\ rtCount.failed = Cardinality(RtOf({"failed"}))

(* What each mode of the terminal says of the rows. *)
RtModesHold ==
    /\ rtAt = "off" => rtKind = "none" /\ ~rtDown /\ rtCycle = 0
    /\ rtDown => rtKind = "persistent"
    /\ rtAt = "running" => \A p \in RtNames : rtRow[p] # "waiting" /\ (rtRow[p] = "stopping" => rtDown)
    /\ rtAt = "summary" => ~rtDown /\ RtOf(RtEnded) = RtNames
    /\ rtAt = "idle" =>
          /\ rtKind = "watch" /\ rtCount.completed = Len(RtProjects)
          /\ \A p \in RtNames : rtRow[p] = "waiting"

(* What holds of the terminal at every step. *)
RtIInv ==
    /\ RtIsTyped
    /\ RtWindowHolds
    /\ RtRowsAreCounted
    /\ RtModesHold

(* Keys. *)
LEMMA RtProjectsAre ==
    /\ Len(RtProjects) \in Nat /\ Len(RtProjects) # 0
    /\ \A i \in 1..Len(RtProjects) : RtProjects[i] \in RtNames
<1>1. RtProjects \in Seq(RtNames) /\ RtProjects # <<>>
  BY RtAssumption
<1>. QED
  BY <1>1, EmptySeq DEF RtNames

(* A key leaves a window on one of the projects, *)
LEMMA RtKeysMakeViews ==
    ASSUME NEW view \in RtViews, NEW key
    PROVE  RtKey(view, key) \in RtViews
<1>. DEFINE N == Len(RtProjects)
<1>1. N \in Nat /\ N # 0
  BY RtProjectsAre
<1>2. /\ view.sel \in 1..N /\ view.full \in BOOLEAN
      /\ view.end \in Nat /\ view.lines \in Nat /\ view.rows \in Nat
  BY DEF RtViews
<1>3. ASSUME NEW sel \in 1..N, NEW full \in BOOLEAN
      PROVE  RtFollow(view, sel, full) \in RtViews
  BY <1>2 DEF RtFollow, RtViews
<1>4. ASSUME NEW full \in BOOLEAN
      PROVE  [view EXCEPT !.full = full] \in RtViews
  BY DEF RtViews
<1>5. ASSUME NEW end \in Nat
      PROVE  [view EXCEPT !.end = end] \in RtViews
  BY DEF RtViews
<1>6. RtMore(view.sel - 1, 1) \in 1..N /\ RtLess(view.sel + 1, N) \in 1..N
  BY <1>1, <1>2 DEF RtMore, RtLess
<1>7. \A a, b \in Nat : RtMore(a, b) \in Nat /\ RtLess(a, b) \in Nat
  BY DEF RtMore, RtLess
<1>. HIDE DEF N
<1>8. CASE key = "enter"
  BY <1>4, <1>8 DEF RtKey
<1>9. CASE key = "l"
  BY <1>2, <1>3, <1>9 DEF RtKey
<1>10. CASE key = "esc"
  BY <1>2, <1>3, <1>10 DEF RtKey
<1>11. CASE key = "k" /\ view.full
  <2>. DEFINE now == IF view.end = 0 THEN view.lines ELSE view.end
              next == RtMore(IF now = 0 THEN 0 ELSE now - 1, RtLess(view.rows, view.lines))
  <2>1. (IF now = 0 THEN 0 ELSE now - 1) \in Nat
    <3>1. now \in Nat
      BY <1>2
    <3>. HIDE DEF now
    <3>. QED
      BY <3>1
  <2>2. next \in Nat
    <3>1. RtLess(view.rows, view.lines) \in Nat
      BY <1>2, <1>7
    <3>. QED
      BY <1>7, <2>1, <3>1
  <2>3. RtKey(view, key) = [view EXCEPT !.end = IF next < view.lines THEN next ELSE 0]
    BY <1>11 DEF RtKey
  <2>. HIDE DEF next
  <2>4. (IF next < view.lines THEN next ELSE 0) \in Nat
    BY <2>2
  <2>. QED
    BY <1>5, <2>3, <2>4
<1>12. CASE key = "k" /\ ~view.full
  BY <1>2, <1>3, <1>6, <1>12 DEF RtKey
<1>13. CASE key = "j" /\ view.full
  <2>1. (IF view.end # 0 /\ view.end + 1 < view.lines THEN view.end + 1 ELSE 0) \in Nat
    BY <1>2
  <2>2. RtKey(view, key) =
           [view EXCEPT !.end = IF view.end # 0 /\ view.end + 1 < view.lines THEN view.end + 1 ELSE 0]
    BY <1>13 DEF RtKey
  <2>. QED
    BY <1>5, <2>1, <2>2
<1>14. CASE key = "down" \/ (key = "j" /\ ~view.full)
  <2>1. RtKey(view, key) = RtFollow(view, RtLess(view.sel + 1, N), view.full)
    BY <1>14 DEF RtKey, N
  <2>. QED
    BY <1>2, <1>3, <1>6, <2>1
<1>15. CASE key \notin {"enter", "l", "esc", "k", "j", "down"}
  BY <1>15 DEF RtKey
<1>. QED
  BY <1>8, <1>9, <1>10, <1>11, <1>12, <1>13, <1>14, <1>15

(* and so do all the keys that wait. *)
RtMakes(keys, g, n) == IF n = 0 THEN rtView ELSE RtKey(g[n - 1], keys[n])

(* For any number of keys there are the views that they lead through, *)
LEMMA RtHandlingsExist ==
    ASSUME NEW keys
    PROVE  \A n \in Nat : \E g : g = [k \in 0..n |-> RtMakes(keys, g, k)]
<1>. DEFINE Made(n, g) == g = [k \in 0..n |-> RtMakes(keys, g, k)]
            S == {n \in Nat : \E g : Made(n, g)}
<1>1. 0 \in S
  <2>. DEFINE g == [k \in 0..0 |-> rtView]
  <2>1. \A k \in 0..0 : RtMakes(keys, g, k) = rtView
    BY DEF RtMakes
  <2>2. Made(0, g)
    BY <2>1
  <2>. QED
    BY <2>2
<1>2. ASSUME NEW n \in Nat, n \in S
      PROVE  n + 1 \in S
  <2>1. PICK g : Made(n, g)
    BY <1>2
  <2>. DEFINE h == [k \in 0..(n + 1) |-> IF k = n + 1 THEN RtMakes(keys, g, n + 1) ELSE g[k]]
  <2>2. ASSUME NEW k \in 0..(n + 1)
        PROVE  h[k] = RtMakes(keys, h, k)
    <3>1. k # 0 => k - 1 \in 0..n /\ h[k - 1] = g[k - 1]
      OBVIOUS
    <3>2. RtMakes(keys, h, k) = RtMakes(keys, g, k)
      BY <3>1 DEF RtMakes
    <3>3. h[k] = RtMakes(keys, g, k)
      <4>1. CASE k = n + 1
        BY <4>1
      <4>2. CASE k # n + 1
        <5>1. k \in 0..n /\ h[k] = g[k]
          BY <4>2
        <5>2. g = [x \in 0..n |-> RtMakes(keys, g, x)]
          BY <2>1
        <5>. HIDE DEF h, S, Made
        <5>. QED
          BY <5>1, <5>2
      <4>. QED
        BY <4>1, <4>2
    <3>. QED
      BY <3>2, <3>3
  <2>3. Made(n + 1, h)
    <3>1. h = [k \in 0..(n + 1) |-> h[k]]
      OBVIOUS
    <3>. HIDE DEF h
    <3>. QED
      BY <2>2, <3>1
  <2>. HIDE DEF Made, h
  <2>. QED
    BY <2>3
<1>3. \A n \in Nat : n \in S
  <2>. HIDE DEF S
  <2>. QED
    BY <1>1, <1>2, AllNumbers
<1>. QED
  BY <1>3

(* the last of which is a view of the log. *)
LEMMA RtHandledIsAView ==
    ASSUME rtView \in RtViews, NEW keys \in Seq(RtKeys)
    PROVE  RtHandled(keys) \in RtViews /\ (keys = <<>> => RtHandled(keys) = rtView)
<1>. DEFINE N == Len(keys)
            E(g) == [k \in 0..N |-> RtMakes(keys, g, k)]
            view == CHOOSE g : g = E(g)
<1>1. N \in Nat
  OBVIOUS
<1>2. view = E(view)
  <2>1. \A n \in Nat : \E g : g = [k \in 0..n |-> RtMakes(keys, g, k)]
    BY RtHandlingsExist
  <2>2. \E g : g = E(g)
    BY <1>1, <2>1
  <2>. HIDE DEF E
  <2>. QED
    BY <2>2
<1>3. RtHandled(keys) = view[N]
  BY DEF RtHandled, RtMakes
<1>. HIDE DEF view
<1>4. \A k \in 0..N : view[k] = RtMakes(keys, view, k)
  BY <1>2
<1>5. view[0] = rtView
  BY <1>1, <1>4 DEF RtMakes
<1>. DEFINE S == {n \in Nat : n <= N => view[n] \in RtViews}
<1>6. 0 \in S
  BY <1>5
<1>. HIDE DEF N
<1>7. ASSUME NEW n \in Nat, n \in S
      PROVE  n + 1 \in S
  <2>. SUFFICES ASSUME n + 1 <= N
                PROVE  view[n + 1] \in RtViews
    OBVIOUS
  <2>1. view[n + 1] = RtKey(view[n], keys[n + 1])
    <3>1. n + 1 \in 0..N /\ n + 1 # 0 /\ (n + 1) - 1 = n
      BY <1>1
    <3>. QED
      BY <1>4, <3>1 DEF RtMakes
  <2>2. view[n] \in RtViews
    BY <1>1, <1>7
  <2>. QED
    BY <2>1, <2>2, RtKeysMakeViews
<1>8. \A n \in Nat : n \in S
  <2>. HIDE DEF S
  <2>. QED
    BY <1>6, <1>7, AllNumbers
<1>9. view[N] \in RtViews
  BY <1>1, <1>8
<1>10. keys = <<>> => N = 0
  BY EmptySeq DEF N
<1>. QED
  BY <1>3, <1>5, <1>9, <1>10

(* What is drawn. *)
LEMMA RtDrawsInside ==
    ASSUME NEW log \in [RtNames -> 0..RtMaxLines], NEW view \in RtViews, rtHeight \in RtHeights
    PROVE  LET L == RtLinesOf(log, view)
               R == RtRowsOf(view)
               e == RtEndOf(log, view)
           IN  /\ L \in Nat /\ R \in Nat /\ e \in Nat /\ e <= L /\ e # 0
               /\ L <= RtMaxLines /\ e \in RtLess(R, L)..L
               /\ view.end = 0 => e = L
               /\ (e < L /\ RtLess(R, L) <= view.end) => e = view.end
<1>. DEFINE L == RtLinesOf(log, view)
            R == RtRowsOf(view)
            e == RtEndOf(log, view)
<1>1. log[RtProjects[view.sel]] \in 0..RtMaxLines
  BY RtProjectsAre DEF RtViews
<1>2. RtMaxLines \in Nat \ {0} /\ rtHeight \in Nat \ {0}
  BY RtAssumption
<1>3. L \in Nat /\ L # 0 /\ L <= RtMaxLines
  BY <1>1, <1>2 DEF RtLinesOf, RtMore
<1>4. R \in Nat /\ R # 0
  BY <1>2 DEF RtRowsOf
<1>5. view.end \in Nat
  BY DEF RtViews
<1>6. e = RtClamp(IF view.end = 0 THEN L ELSE view.end, L, R)
  BY DEF RtEndOf
<1>. HIDE DEF L, R, e
<1>. DEFINE E == IF view.end = 0 THEN L ELSE view.end
<1>7. e = RtLess(RtMore(E, RtLess(R, L)), L) /\ E \in Nat
  BY <1>3, <1>5, <1>6 DEF RtClamp
<1>8. RtLess(R, L) \in Nat /\ RtLess(R, L) <= L
  BY <1>3, <1>4 DEF RtLess
<1>9. e \in Nat /\ e <= L /\ e \in RtLess(R, L)..L
  BY <1>3, <1>7, <1>8 DEF RtLess, RtMore
<1>12. e # 0
  BY <1>3, <1>4, <1>9 DEF RtLess
<1>10. view.end = 0 => e = L
  BY <1>3, <1>7, <1>8 DEF RtLess, RtMore
<1>11. (e < L /\ RtLess(R, L) <= view.end) => e = view.end
  BY <1>3, <1>5, <1>7, <1>8, <1>10 DEF RtLess, RtMore
<1>. QED
  BY <1>3, <1>4, <1>9, <1>10, <1>11, <1>12 DEF L, R, e

(* After a drawing the window is right, if what the user asked for is known. *)
LEMMA RtDrawsRight ==
    ASSUME NEW log \in [RtNames -> 0..RtMaxLines], NEW view \in RtViews, rtHeight \in RtHeights,
           rtLog' = log,
           LET e == RtEndOf(log, view)
               lines == RtLinesOf(log, view)
               drawn == [sel |-> view.sel, full |-> view.full,
                         end |-> IF view.end # 0 /\ e < lines THEN e ELSE 0,
                         lines |-> lines, rows |-> RtRowsOf(view)]
           IN  /\ rtView' = drawn /\ rtShown' = e /\ rtAsked' \in Nat
               /\ drawn.end # 0 => rtAsked' = e,
           rtAt' # "off"
    PROVE  RtWindowHolds'
<1>. DEFINE L == RtLinesOf(log, view)
            R == RtRowsOf(view)
            e == RtEndOf(log, view)
            end == IF view.end # 0 /\ e < L THEN e ELSE 0
            drawn == [sel |-> view.sel, full |-> view.full, end |-> end, lines |-> L, rows |-> R]
<1>1. /\ rtView' = drawn /\ rtShown' = e /\ rtAsked' \in Nat
      /\ drawn.end # 0 => rtAsked' = e
  OBVIOUS
<1>2. /\ L \in Nat /\ R \in Nat /\ e \in Nat /\ e <= L /\ e # 0
      /\ L <= RtMaxLines /\ e \in RtLess(R, L)..L
      /\ view.end = 0 => e = L
  BY RtDrawsInside
<1>3. view.sel \in 1..Len(RtProjects) /\ view.full \in BOOLEAN /\ RtMaxLines \in Nat
  BY RtAssumption DEF RtViews
<1>4. RtLinesOf(log, drawn) = L
  BY DEF RtLinesOf
<1>. HIDE DEF L, R, e
<1>5. end \in Nat /\ end \in 0..RtMaxLines /\ (end # 0 => end = e /\ end < L) /\ (end = 0 => e = L)
  BY <1>2, <1>3
<1>. HIDE DEF end
<1>6. /\ drawn \in RtViews /\ drawn.end = end /\ drawn.lines = L /\ drawn.rows = R
  BY <1>2, <1>3, <1>5 DEF RtViews
<1>. HIDE DEF drawn
<1>7. RtLinesOf(rtLog, rtView)' = L
  BY <1>1, <1>4 DEF RtLinesOf
<1>8. RtWindowIsRight'
  BY <1>1, <1>2, <1>5, <1>6 DEF RtWindowIsRight
<1>. QED
  BY <1>1, <1>2, <1>5, <1>6, <1>7, <1>8 DEF RtWindowHolds

(* A drawing after a key or a start, *)
LEMMA RtDrawsForTheUser ==
    ASSUME NEW log \in [RtNames -> 0..RtMaxLines], NEW view \in RtViews, rtHeight \in RtHeights,
           rtLog' = log, RtDraw(log, view, TRUE), rtAt' # "off"
    PROVE  RtWindowHolds'
<1>1. RtEndOf(log, view) \in Nat
  BY RtDrawsInside
<1>. QED
  BY <1>1, RtDrawsRight DEF RtDraw

(* and one without, which leaves the window where it is. *)
LEMMA RtDrawsForTheLog ==
    ASSUME RtIInv, rtAt # "off", NEW log \in [RtNames -> 0..RtMaxLines],
           \A p \in RtNames : rtLog[p] <= log[p],
           rtLog' = log, RtDraw(log, rtView, FALSE), rtAt' # "off"
    PROVE  RtWindowHolds'
<1>1. rtView \in RtViews /\ rtHeight \in RtHeights /\ rtAsked \in Nat
  BY DEF RtIInv, RtIsTyped, RtTypeOK, RtWindowHolds
<1>. DEFINE L == RtLinesOf(log, rtView)
            R == RtRowsOf(rtView)
            e == RtEndOf(log, rtView)
            end == IF rtView.end # 0 /\ e < L THEN e ELSE 0
            drawn == [sel |-> rtView.sel, full |-> rtView.full, end |-> end, lines |-> L, rows |-> R]
<1>2. /\ L \in Nat /\ R \in Nat /\ e \in Nat /\ e <= L
      /\ (e < L /\ RtLess(R, L) <= rtView.end) => e = rtView.end
  BY <1>1, RtDrawsInside
<1>3. /\ rtView' = drawn /\ rtShown' = e
      /\ rtAsked' = IF drawn.end = 0 THEN 0 ELSE IF drawn.rows # rtView.rows THEN e ELSE rtAsked
  BY DEF RtDraw
<1>4. rtView.end # 0 =>
        /\ rtView.end < rtView.lines /\ rtView.end = rtAsked
        /\ RtLess(rtView.rows, rtView.lines) <= rtView.end
  BY DEF RtIInv, RtWindowHolds, RtWindowIsRight
<1>5. rtView.lines <= L
  <2>1. rtView.lines <= RtLinesOf(rtLog, rtView) /\ rtView.lines \in Nat
    BY <1>1 DEF RtIInv, RtWindowHolds, RtViews
  <2>2. RtProjects[rtView.sel] \in RtNames
    BY <1>1, RtProjectsAre DEF RtViews
  <2>3. rtLog[RtProjects[rtView.sel]] \in Nat /\ log[RtProjects[rtView.sel]] \in Nat
    BY <2>2 DEF RtIInv, RtIsTyped
  <2>. QED
    BY <2>1, <2>2, <2>3 DEF RtLinesOf, RtMore
<1>6. rtView.rows \in Nat /\ rtView.lines \in Nat /\ rtView.end \in Nat
  BY <1>1 DEF RtViews
<1>7. drawn.end = end /\ drawn.rows = R
  OBVIOUS
<1>. HIDE DEF L, R, e, drawn
<1>8. (end # 0 /\ R = rtView.rows) => e = rtAsked
  <2>. SUFFICES ASSUME rtView.end # 0, e < L, R = rtView.rows
                PROVE  e = rtAsked
    OBVIOUS
  <2>1. R <= rtView.end
    BY <1>2, <1>4, <1>6 DEF RtLess
  <2>2. RtLess(R, L) <= rtView.end
    BY <1>2, <1>6, <2>1 DEF RtLess
  <2>. QED
    BY <1>2, <1>4, <2>2
<1>9. rtAsked' \in Nat /\ (drawn.end # 0 => rtAsked' = e)
  BY <1>1, <1>2, <1>3, <1>7, <1>8
<1>. QED
  BY <1>1, <1>3, <1>9, RtDrawsRight DEF drawn, L, R, e

(* Every operation of a run handles the keys first. *)
LEMMA RtOperationsDraw ==
    ASSUME RtIInv, rtAt # "off", NEW log \in [RtNames -> 0..RtMaxLines],
           \A p \in RtNames : rtLog[p] <= log[p],
           rtLog' = log, RtInputAndDraw(log), rtAt' # "off"
    PROVE  RtWindowHolds' /\ rtQueue' \in Seq(RtKeys)
<1>1. rtView \in RtViews /\ rtHeight \in RtHeights /\ rtQueue \in Seq(RtKeys)
  BY DEF RtIInv, RtIsTyped, RtTypeOK, RtWindowHolds
<1>2. RtHandled(rtQueue) \in RtViews /\ (rtQueue = <<>> => RtHandled(rtQueue) = rtView)
  BY <1>1, RtHandledIsAView
<1>3. rtQueue' \in Seq(RtKeys)
  BY EmptySeq DEF RtInputAndDraw
<1>4. CASE rtQueue = <<>>
  <2>1. RtDraw(log, rtView, FALSE)
    BY <1>2, <1>4 DEF RtInputAndDraw, RtDraw
  <2>. QED
    BY <1>3, <2>1, RtDrawsForTheLog
<1>5. CASE rtQueue # <<>>
  <2>1. RtDraw(log, RtHandled(rtQueue), TRUE)
    BY <1>5 DEF RtInputAndDraw, RtDraw
  <2>. QED
    BY <1>1, <1>2, <1>3, <2>1, RtDrawsForTheUser
<1>. QED
  BY <1>4, <1>5

(* There is a row for each project. *)
LEMMA RtRowsAreFinite == IsFiniteSet(RtNames) /\ Cardinality(RtNames) = Len(RtProjects)
<1>. DEFINE N == Len(RtProjects)
            f == [i \in 1..N |-> RtProjects[i]]
<1>1. N \in Nat /\ \A i \in 1..N : RtProjects[i] \in RtNames
  BY RtProjectsAre
<1>2. \A i, j \in 1..N : RtProjects[i] = RtProjects[j] => i = j
  BY RtAssumption
<1>3. RtNames = {RtProjects[i] : i \in 1..N}
  BY DEF RtNames
<1>. HIDE DEF N
<1>4. f \in [1..N -> RtNames]
  BY <1>1
<1>5. \A i, j \in 1..N : f[i] = f[j] => i = j
  BY <1>2
<1>6. \A n \in RtNames : \E i \in 1..N : f[i] = n
  BY <1>3
<1>. HIDE DEF f
<1>7. f \in Bijection(1..N, RtNames)
  BY <1>4, <1>5, <1>6 DEF Bijection, Injection, Surjection, IsInjective
<1>8. ExistsBijection(1..N, RtNames)
  BY <1>7 DEF ExistsBijection
<1>9. Cardinality(RtNames) = N
  BY <1>1, <1>8, FS_CountingElements
<1>10. IsFiniteSet(1..N)
  BY <1>1, FS_Interval
<1>11. f \in Surjection(1..N, RtNames)
  BY <1>7 DEF Bijection
<1>12. IsFiniteSet(RtNames)
  BY <1>10, <1>11, FS_Surjection
<1>. QED
  BY <1>9, <1>12 DEF N

(* The rows that say one of S can be counted. *)
LEMMA RtOfIsFinite == ASSUME NEW S PROVE IsFiniteSet(RtOf(S)) /\ Cardinality(RtOf(S)) \in Nat
<1>1. RtOf(S) \in SUBSET RtNames
  BY DEF RtOf
<1>2. IsFiniteSet(RtOf(S))
  BY <1>1, RtRowsAreFinite, FS_Subset
<1>. QED
  BY <1>2, FS_CardinalityType

(* The counts stay while no row ends, *)
LEMMA RtCountsStay ==
    ASSUME \A p \in RtNames : rtRow'[p] = rtRow[p] \/ {rtRow[p], rtRow'[p]} \cap RtEnded = {}
    PROVE  RtOf(RtEnded)' = RtOf(RtEnded) /\ RtOf({"failed"})' = RtOf({"failed"})
<1>1. \A p \in RtNames : rtRow'[p] \in RtEnded <=> rtRow[p] \in RtEnded
  OBVIOUS
<1>2. \A p \in RtNames : rtRow'[p] = "failed" <=> rtRow[p] = "failed"
  BY DEF RtEnded
<1>. QED
  BY <1>1, <1>2 DEF RtOf

(* and grow by one when one does. *)
LEMMA RtCountsGrow ==
    ASSUME rtRow \in [RtNames -> RtStates], NEW p \in RtNames, rtRow[p] \notin RtEnded,
           NEW s \in RtEnded, rtRow' = [rtRow EXCEPT ![p] = s]
    PROVE  /\ Cardinality(RtOf(RtEnded)') = Cardinality(RtOf(RtEnded)) + 1
           /\ Cardinality(RtOf({"failed"})') =
                 Cardinality(RtOf({"failed"})) + (IF s = "failed" THEN 1 ELSE 0)
<1>1. rtRow'[p] = s /\ \A q \in RtNames \ {p} : rtRow'[q] = rtRow[q]
  OBVIOUS
<1>2. RtOf(RtEnded)' = RtOf(RtEnded) \cup {p} /\ p \notin RtOf(RtEnded)
  BY <1>1 DEF RtOf
<1>3. p \notin RtOf({"failed"})
  BY DEF RtOf, RtEnded
<1>4. RtOf({"failed"})' = IF s = "failed" THEN RtOf({"failed"}) \cup {p} ELSE RtOf({"failed"})
  BY <1>1, <1>3 DEF RtOf
<1>5. Cardinality(RtOf(RtEnded) \cup {p}) = Cardinality(RtOf(RtEnded)) + 1
  BY <1>2, RtOfIsFinite, FS_AddElement
<1>6. Cardinality(RtOf({"failed"}) \cup {p}) = Cardinality(RtOf({"failed"})) + 1
  BY <1>3, RtOfIsFinite, FS_AddElement
<1>7. Cardinality(RtOf({"failed"})) \in Nat
  BY RtOfIsFinite
<1>. QED
  BY <1>2, <1>4, <1>5, <1>6, <1>7

(* Before the first cycle it holds, *)
LEMMA RtStartsRight == RtInit => RtIInv
<1>. SUFFICES ASSUME RtInit
              PROVE  RtIInv
  OBVIOUS
<1>1. RtMaxLines \in Nat /\ RtMaxKeys \in Nat /\ RtMaxCycles \in Nat /\ RtHeights \subseteq Nat
  BY RtAssumption
<1>2. Len(RtProjects) \in Nat /\ Len(RtProjects) # 0
  BY RtProjectsAre
<1>3. rtView \in RtViews /\ rtView.end = 0 /\ rtView.sel \in 1..Len(RtProjects)
  BY <1>2 DEF RtInit, RtFresh, RtViews
<1>4. RtWindowHolds
  BY <1>1, <1>3 DEF RtInit, RtWindowHolds, RtWindowIsRight
<1>5. RtIsTyped
  <2>1. rtRow \in [RtNames -> RtStates] /\ rtLog \in [RtNames -> 0..RtMaxLines]
    BY <1>1 DEF RtInit, RtStates
  <2>2. rtCount \in RtCounts
    BY DEF RtInit, RtNoCount, RtCounts
  <2>3. rtQueue \in Seq(RtKeys)
    BY EmptySeq DEF RtInit
  <2>4. RtTypeOK
    <3>1. DOMAIN RtProjects = 1..Len(RtProjects)
      BY RtAssumption
    <3>. QED
      BY <1>1, <1>3, <2>1, <3>1 DEF RtInit, RtTypeOK
  <2>5. rtDown \in BOOLEAN
    BY DEF RtInit
  <2>. QED
    BY <2>1, <2>2, <2>3, <2>4, <2>5 DEF RtIsTyped
<1>6. RtRowsAreCounted
  BY DEF RtInit, RtRowsAreCounted, RtNoCount
<1>7. RtModesHold
  BY DEF RtInit, RtModesHold
<1>. QED
  BY <1>4, <1>5, <1>6, <1>7 DEF RtIInv

(* The types of what every step leaves alone or sets to one of a few values. *)
LEMMA RtTypesFollow ==
    ASSUME RtIInv, RtWindowHolds', rtKind' \in {"none", "once", "watch", "persistent"},
           rtAt' \in {"off", "running", "summary", "idle", "left"},
           rtHeight' \in RtHeights, rtTyped' \in 0..RtMaxKeys, rtCycle' \in 0..RtMaxCycles,
           rtRow' \in [RtNames -> RtStates], rtCount' \in RtCounts,
           rtLog' \in [RtNames -> 0..RtMaxLines], rtDown' \in BOOLEAN, rtQueue' \in Seq(RtKeys)
    PROVE  RtIsTyped'
<1>1. DOMAIN RtProjects = 1..Len(RtProjects)
  BY RtAssumption
<1>2. rtView'.sel \in DOMAIN RtProjects /\ rtView'.end \in 0..RtMaxLines
  BY <1>1 DEF RtWindowHolds, RtViews
<1>3. RtTypeOK'
  BY <1>2 DEF RtTypeOK
<1>. QED
  BY <1>3 DEF RtIsTyped

(* it does when a cycle starts, which makes new rows and counters, *)
LEMMA RtStartKeeps == RtIInv /\ RtStart => RtIInv'
<1>. SUFFICES ASSUME RtIInv, RtStart
              PROVE  RtIInv'
  OBVIOUS
<1>1. RtMaxLines \in Nat \ {0} /\ RtMaxCycles \in Nat \ {0}
  BY RtAssumption
<1>2. /\ rtAt \in {"off", "idle"} /\ rtAt' = "running"
      /\ rtCount' = RtNoCount /\ UNCHANGED <<rtHeight, rtDown, rtQueue, rtTyped>>
      /\ RtDraw(rtLog', RtFresh, TRUE)
  BY DEF RtStart
<1>3. /\ rtRow' = [p \in RtNames |-> IF rtKind' = "persistent" THEN "running" ELSE "pending"]
      /\ rtLog' = [p \in RtNames |-> IF rtKind' = "persistent" THEN 1 ELSE 0]
  BY DEF RtStart
<1>4. rtKind' \in {"once", "watch", "persistent"} /\ ~rtDown
  BY <1>2 DEF RtStart, RtIInv, RtModesHold
<1>5. rtCycle' \in 0..RtMaxCycles
  BY <1>1 DEF RtStart, RtIInv, RtModesHold, RtIsTyped, RtTypeOK
<1>6. rtRow' \in [RtNames -> RtStates] /\ \A p \in RtNames : rtRow'[p] \in {"running", "pending"}
  BY <1>3 DEF RtStates
<1>7. rtLog' \in [RtNames -> 0..RtMaxLines]
  BY <1>1, <1>3
<1>8. RtFresh \in RtViews
  BY RtProjectsAre DEF RtFresh, RtViews
<1>9. rtHeight \in RtHeights
  BY DEF RtIInv, RtIsTyped, RtTypeOK
<1>10. RtWindowHolds'
  BY <1>2, <1>7, <1>8, <1>9, RtDrawsForTheUser
<1>11. rtCount' \in RtCounts
  BY <1>2 DEF RtNoCount, RtCounts
<1>12. RtIsTyped'
  <2>1. rtQueue' \in Seq(RtKeys) /\ rtTyped' \in 0..RtMaxKeys /\ rtDown' \in BOOLEAN
    BY <1>2 DEF RtIInv, RtIsTyped, RtTypeOK
  <2>. QED
    BY <1>2, <1>4, <1>5, <1>6, <1>7, <1>9, <1>10, <1>11, <2>1, RtTypesFollow
<1>13. RtRowsAreCounted'
  <2>1. RtOf(RtEnded)' = {} /\ RtOf({"failed"})' = {}
    BY <1>6 DEF RtOf, RtEnded
  <2>. QED
    BY <1>2, <2>1, FS_EmptySet DEF RtRowsAreCounted, RtNoCount
<1>14. RtModesHold'
  BY <1>2, <1>4, <1>6 DEF RtModesHold
<1>. QED
  BY <1>10, <1>12, <1>13, <1>14 DEF RtIInv

(* The operations while a run is on: what they do to a row that does not end. *)
LEMMA RtRunningKeeps ==
    ASSUME RtIInv, rtAt = "running", RtSame, RtWindowHolds', rtQueue' \in Seq(RtKeys),
           rtCount' = rtCount, rtLog' \in [RtNames -> 0..RtMaxLines],
           rtRow' \in [RtNames -> RtStates],
           \A p \in RtNames : rtRow'[p] = rtRow[p]
                                \/ (rtRow[p] \notin RtEnded /\ rtRow'[p] \in {"pending", "running"})
    PROVE  RtIInv'
<1>1. UNCHANGED <<rtKind, rtAt, rtHeight, rtDown, rtTyped, rtCycle>>
  BY DEF RtSame
<1>2. RtIsTyped'
  BY <1>1, RtTypesFollow DEF RtIInv, RtIsTyped, RtTypeOK
<1>3. RtOf(RtEnded)' = RtOf(RtEnded) /\ RtOf({"failed"})' = RtOf({"failed"})
  <2>1. \A p \in RtNames : rtRow'[p] = rtRow[p] \/ {rtRow[p], rtRow'[p]} \cap RtEnded = {}
    BY DEF RtEnded
  <2>. QED
    BY <2>1, RtCountsStay
<1>4. RtRowsAreCounted'
  BY <1>1, <1>3 DEF RtIInv, RtRowsAreCounted
<1>5. RtModesHold'
  BY <1>1 DEF RtIInv, RtModesHold
<1>. QED
  BY <1>2, <1>4, <1>5 DEF RtIInv

(* A task starts, *)
LEMMA RtTaskStartedKeeps ==
    ASSUME RtIInv, NEW p \in RtNames, RtTaskStarted(p)
    PROVE  RtIInv'
<1>1. /\ rtAt = "running" /\ rtRow[p] \in {"running", "stopping", "pending"}
      /\ rtRow' = [rtRow EXCEPT ![p] = "running"]
      /\ rtLog' = [rtLog EXCEPT ![p] = RtMore(rtLog[p], 1)]
      /\ RtInputAndDraw(rtLog') /\ RtSame /\ rtCount' = rtCount
  BY DEF RtTaskStarted
<1>2. rtLog \in [RtNames -> 0..RtMaxLines] /\ rtRow \in [RtNames -> RtStates]
  BY DEF RtIInv, RtIsTyped
<1>3. RtMore(rtLog[p], 1) \in 0..RtMaxLines /\ rtLog[p] <= RtMore(rtLog[p], 1)
  BY <1>2, RtAssumption DEF RtMore
<1>4. rtLog' \in [RtNames -> 0..RtMaxLines] /\ \A q \in RtNames : rtLog[q] <= rtLog'[q]
  BY <1>1, <1>2, <1>3
<1>5. RtWindowHolds' /\ rtQueue' \in Seq(RtKeys)
  <2>1. rtAt' # "off"
    BY <1>1 DEF RtSame
  <2>. QED
    BY <1>1, <1>4, <2>1, RtOperationsDraw
<1>6. rtRow' \in [RtNames -> RtStates]
  BY <1>1, <1>2 DEF RtStates
<1>7. \A q \in RtNames : rtRow'[q] = rtRow[q]
                           \/ (rtRow[q] \notin RtEnded /\ rtRow'[q] \in {"pending", "running"})
  BY <1>1, <1>2 DEF RtEnded
<1>. QED
  BY <1>1, <1>4, <1>5, <1>6, <1>7, RtRunningKeeps

(* it writes, *)
LEMMA RtTaskOutputKeeps ==
    ASSUME RtIInv, NEW p \in RtNames, RtTaskOutput(p)
    PROVE  RtIInv'
<1>1. /\ rtAt = "running" /\ rtLog[p] < RtMaxLines
      /\ rtLog' = [rtLog EXCEPT ![p] = rtLog[p] + 1]
      /\ RtInputAndDraw(rtLog') /\ RtSame /\ rtCount' = rtCount /\ rtRow' = rtRow
  BY DEF RtTaskOutput
<1>2. rtLog \in [RtNames -> 0..RtMaxLines] /\ rtRow \in [RtNames -> RtStates]
  BY DEF RtIInv, RtIsTyped
<1>3. rtLog' \in [RtNames -> 0..RtMaxLines] /\ \A q \in RtNames : rtLog[q] <= rtLog'[q]
  <2>1. rtLog[p] + 1 \in 0..RtMaxLines /\ rtLog[p] <= rtLog[p] + 1
    BY <1>1, <1>2, RtAssumption
  <2>. QED
    BY <1>1, <1>2, <2>1
<1>4. RtWindowHolds' /\ rtQueue' \in Seq(RtKeys)
  <2>1. rtAt' # "off"
    BY <1>1 DEF RtSame
  <2>. QED
    BY <1>1, <1>3, <2>1, RtOperationsDraw
<1>. QED
  BY <1>1, <1>2, <1>3, <1>4, RtRunningKeeps

(* A window stays right while nothing is drawn and the log grows. *)
LEMMA RtWindowStays ==
    ASSUME RtIInv, UNCHANGED <<rtView, rtShown, rtAsked>>,
           rtLog' \in [RtNames -> 0..RtMaxLines], \A p \in RtNames : rtLog[p] <= rtLog'[p],
           rtAt' = "off" <=> rtAt = "off"
    PROVE  RtWindowHolds'
<1>1. rtView \in RtViews
  BY DEF RtIInv, RtWindowHolds
<1>2. RtProjects[rtView.sel] \in RtNames
  BY <1>1, RtProjectsAre DEF RtViews
<1>3. rtLog[RtProjects[rtView.sel]] \in Nat /\ rtLog'[RtProjects[rtView.sel]] \in Nat
      /\ rtLog[RtProjects[rtView.sel]] <= rtLog'[RtProjects[rtView.sel]]
  BY <1>2 DEF RtIInv, RtIsTyped
<1>4. rtAt # "off" => rtView.lines <= RtLinesOf(rtLog', rtView)
  <2>1. rtView.lines \in Nat
    BY <1>1 DEF RtViews
  <2>2. rtAt # "off" => rtView.lines <= RtLinesOf(rtLog, rtView)
    BY DEF RtIInv, RtWindowHolds
  <2>. QED
    BY <1>3, <2>1, <2>2 DEF RtLinesOf, RtMore
<1>5. RtLinesOf(rtLog, rtView)' = RtLinesOf(rtLog', rtView)
  BY DEF RtLinesOf
<1>6. RtWindowIsRight'
  BY DEF RtIInv, RtWindowHolds, RtWindowIsRight
<1>. QED
  BY <1>4, <1>5, <1>6 DEF RtIInv, RtWindowHolds

(* it writes and nothing is drawn, *)
LEMMA RtSilentOutputKeeps ==
    ASSUME RtIInv, NEW p \in RtNames, RtSilentOutput(p)
    PROVE  RtIInv'
<1>1. /\ rtAt = "running" /\ rtLog[p] < RtMaxLines
      /\ rtLog' = [rtLog EXCEPT ![p] = rtLog[p] + 1]
      /\ RtSame /\ UNCHANGED <<rtRow, rtCount, rtView, rtShown, rtQueue, rtAsked>>
  BY DEF RtSilentOutput
<1>2. rtLog \in [RtNames -> 0..RtMaxLines] /\ rtRow \in [RtNames -> RtStates]
      /\ rtQueue \in Seq(RtKeys)
  BY DEF RtIInv, RtIsTyped
<1>3. rtLog' \in [RtNames -> 0..RtMaxLines] /\ \A q \in RtNames : rtLog[q] <= rtLog'[q]
  <2>1. rtLog[p] + 1 \in 0..RtMaxLines /\ rtLog[p] <= rtLog[p] + 1
    BY <1>1, <1>2, RtAssumption
  <2>. QED
    BY <1>1, <1>2, <2>1
<1>4. RtWindowHolds'
  BY <1>1, <1>3, RtWindowStays DEF RtSame
<1>. QED
  BY <1>1, <1>2, <1>3, <1>4, RtRunningKeeps

(* or the clock ticks. *)
LEMMA RtTickKeeps == RtIInv /\ RtTick => RtIInv'
<1>. SUFFICES ASSUME RtIInv, RtTick
              PROVE  RtIInv'
  OBVIOUS
<1>1. /\ rtAt = "running" /\ RtInputAndDraw(rtLog) /\ RtSame
      /\ rtRow' = rtRow /\ rtCount' = rtCount /\ rtLog' = rtLog
  BY DEF RtTick
<1>2. rtLog \in [RtNames -> 0..RtMaxLines] /\ rtRow \in [RtNames -> RtStates]
  BY DEF RtIInv, RtIsTyped
<1>3. RtWindowHolds' /\ rtQueue' \in Seq(RtKeys)
  <2>1. rtAt' # "off" /\ \A q \in RtNames : rtLog[q] <= rtLog[q]
    BY <1>1, <1>2 DEF RtSame
  <2>. QED
    BY <1>1, <1>2, <2>1, RtOperationsDraw
<1>. QED
  BY <1>1, <1>2, <1>3, RtRunningKeeps

(* Those that end a row. *)
LEMMA RtEndingKeeps ==
    ASSUME RtIInv, rtAt = "running", RtSame, RtWindowHolds', rtQueue' \in Seq(RtKeys),
           rtLog' = rtLog, ~rtDown, NEW p \in RtNames, rtRow[p] \notin RtEnded,
           NEW s \in RtEnded, rtRow' = [rtRow EXCEPT ![p] = s], rtCount' = RtFinishRow(p, s)
    PROVE  RtIInv'
<1>1. UNCHANGED <<rtKind, rtAt, rtHeight, rtDown, rtTyped, rtCycle>>
  BY DEF RtSame
<1>2. rtRow \in [RtNames -> RtStates] /\ rtCount \in RtCounts
  BY DEF RtIInv, RtIsTyped
<1>3. /\ rtRow' \in [RtNames -> RtStates]
      /\ \A q \in RtNames : q # p => rtRow'[q] = rtRow[q]
      /\ rtRow'[p] = s
  BY <1>2 DEF RtStates, RtEnded
<1>4. /\ rtCount'.completed = rtCount.completed + 1
      /\ rtCount'.succeeded = rtCount.succeeded + (IF s \in {"ok", "cached"} THEN 1 ELSE 0)
      /\ rtCount'.failed = rtCount.failed + (IF s = "failed" THEN 1 ELSE 0)
      /\ rtCount'.skipped = rtCount.skipped + (IF s = "skipped" THEN 1 ELSE 0)
      /\ rtCount' \in RtCounts
  BY <1>2 DEF RtFinishRow, RtCounts
<1>5. RtIsTyped'
  BY <1>1, <1>3, <1>4, RtTypesFollow DEF RtIInv, RtIsTyped, RtTypeOK
<1>6. /\ Cardinality(RtOf(RtEnded)') = Cardinality(RtOf(RtEnded)) + 1
      /\ Cardinality(RtOf({"failed"})') =
            Cardinality(RtOf({"failed"})) + (IF s = "failed" THEN 1 ELSE 0)
  BY <1>2, RtCountsGrow
<1>7. rtCount'.completed = rtCount'.succeeded + rtCount'.failed + rtCount'.skipped
  <2>1. rtCount.completed = rtCount.succeeded + rtCount.failed + rtCount.skipped
        /\ rtCount.succeeded \in Nat /\ rtCount.failed \in Nat /\ rtCount.skipped \in Nat
    BY <1>2 DEF RtIInv, RtRowsAreCounted, RtCounts
  <2>. QED
    BY <1>4, <2>1 DEF RtEnded
<1>8. RtRowsAreCounted'
  <2>1. rtCount.completed = Cardinality(RtOf(RtEnded)) /\ rtCount.failed = Cardinality(RtOf({"failed"}))
    BY DEF RtIInv, RtRowsAreCounted
  <2>2. Cardinality(RtOf(RtEnded))' = Cardinality(RtOf(RtEnded)')
        /\ Cardinality(RtOf({"failed"}))' = Cardinality(RtOf({"failed"})')
    OBVIOUS
  <2>. QED
    BY <1>4, <1>6, <1>7, <2>1, <2>2 DEF RtRowsAreCounted
<1>9. RtModesHold'
  BY <1>1, <1>3 DEF RtIInv, RtModesHold, RtEnded
<1>. QED
  BY <1>5, <1>8, <1>9 DEF RtIInv

(* A task ends, *)
LEMMA RtTaskCompletedKeeps ==
    ASSUME RtIInv, NEW p \in RtNames, NEW s \in {"ok", "cached", "failed"}, RtTaskCompleted(p, s)
    PROVE  RtIInv'
<1>1. /\ rtAt = "running" /\ rtRow[p] \in {"running", "stopping"}
      /\ rtRow' = IF rtDown THEN rtRow ELSE [rtRow EXCEPT ![p] = s]
      /\ rtCount' = RtFinishRow(p, s)
      /\ RtInputAndDraw(rtLog) /\ RtSame /\ rtLog' = rtLog
  BY DEF RtTaskCompleted
<1>2. rtLog \in [RtNames -> 0..RtMaxLines] /\ rtRow \in [RtNames -> RtStates]
  BY DEF RtIInv, RtIsTyped
<1>3. RtWindowHolds' /\ rtQueue' \in Seq(RtKeys)
  <2>1. rtAt' # "off" /\ \A q \in RtNames : rtLog[q] <= rtLog[q]
    BY <1>1, <1>2 DEF RtSame
  <2>. QED
    BY <1>1, <1>2, <2>1, RtOperationsDraw
<1>4. CASE rtDown
  <2>1. rtRow' = rtRow /\ rtCount' = rtCount
    BY <1>1, <1>4 DEF RtFinishRow
  <2>. QED
    BY <1>1, <1>2, <1>3, <2>1, RtRunningKeeps
<1>5. CASE ~rtDown
  <2>1. rtRow' = [rtRow EXCEPT ![p] = s] /\ rtRow[p] \notin RtEnded /\ s \in RtEnded
    BY <1>1, <1>5 DEF RtEnded
  <2>. QED
    BY <1>1, <1>3, <1>5, <2>1, RtEndingKeeps
<1>. QED
  BY <1>4, <1>5

(* or it never runs. *)
LEMMA RtTaskSkippedKeeps ==
    ASSUME RtIInv, NEW p \in RtNames, RtTaskSkipped(p)
    PROVE  RtIInv'
<1>1. /\ rtAt = "running" /\ rtKind # "persistent" /\ rtRow[p] = "pending"
      /\ rtRow' = [rtRow EXCEPT ![p] = "skipped"]
      /\ rtCount' = RtFinishRow(p, "skipped")
      /\ RtInputAndDraw(rtLog) /\ RtSame /\ rtLog' = rtLog
  BY DEF RtTaskSkipped
<1>2. rtLog \in [RtNames -> 0..RtMaxLines] /\ rtRow \in [RtNames -> RtStates]
  BY DEF RtIInv, RtIsTyped
<1>3. RtWindowHolds' /\ rtQueue' \in Seq(RtKeys)
  <2>1. rtAt' # "off" /\ \A q \in RtNames : rtLog[q] <= rtLog[q]
    BY <1>1, <1>2 DEF RtSame
  <2>. QED
    BY <1>1, <1>2, <2>1, RtOperationsDraw
<1>4. ~rtDown /\ rtRow[p] \notin RtEnded /\ "skipped" \in RtEnded
  BY <1>1 DEF RtIInv, RtModesHold, RtEnded
<1>. QED
  BY <1>1, <1>3, <1>4, RtEndingKeeps

(* At the end of a cycle every row is of a task that is over, or none is counted. *)
LEMMA RtFinishKeeps == RtIInv /\ RtFinish => RtIInv'
<1>. SUFFICES ASSUME RtIInv, RtFinish
              PROVE  RtIInv'
  OBVIOUS
<1>1. /\ rtAt = "running" /\ rtKind # "persistent" /\ RtFinished
      /\ RtDraw(rtLog, rtView, FALSE)
      /\ UNCHANGED <<rtKind, rtCount, rtLog, rtHeight, rtDown, rtQueue, rtTyped, rtCycle>>
  BY DEF RtFinish
<1>2. \/ rtKind = "watch" /\ rtAt' = "idle" /\ rtRow' = [p \in RtNames |-> "waiting"]
      \/ rtKind # "watch" /\ rtAt' \in {"summary", "left"} /\ rtRow' = rtRow
  BY DEF RtFinish
<1>3. rtLog \in [RtNames -> 0..RtMaxLines] /\ rtRow \in [RtNames -> RtStates]
  BY DEF RtIInv, RtIsTyped
<1>4. RtWindowHolds'
  <2>1. rtAt' # "off" /\ \A q \in RtNames : rtLog[q] <= rtLog[q]
    BY <1>2, <1>3
  <2>. QED
    BY <1>1, <1>3, <2>1, RtDrawsForTheLog
<1>5. ~rtDown
  BY <1>1 DEF RtIInv, RtModesHold
<1>6. \A p \in RtNames : rtRow[p] \in RtEnded
  <2>1. ASSUME NEW p \in RtNames
        PROVE  rtRow[p] \in RtEnded
    <3>1. rtRow[p] \in RtStates
      BY <1>3
    <3>2. rtRow[p] \notin {"pending", "running", "waiting", "stopping"}
      BY <1>1, <1>5 DEF RtFinished, RtIInv, RtModesHold
    <3>. QED
      BY <3>1, <3>2 DEF RtStates, RtEnded
  <2>. QED
    BY <2>1
<1>7. RtOf(RtEnded) = RtNames
  BY <1>6 DEF RtOf
<1>8. rtCount.completed = Len(RtProjects)
  BY <1>1, <1>5, <1>7, RtRowsAreFinite DEF RtIInv, RtRowsAreCounted
<1>9. rtRow' \in [RtNames -> RtStates]
  BY <1>2, <1>3 DEF RtStates
<1>10. RtIsTyped'
  BY <1>1, <1>2, <1>4, <1>9, RtTypesFollow DEF RtIInv, RtIsTyped, RtTypeOK
<1>11. CASE rtAt' = "idle"
  <2>1. RtRowsAreCounted'
    BY <1>1, <1>11 DEF RtIInv, RtRowsAreCounted
  <2>2. RtModesHold'
    BY <1>1, <1>2, <1>5, <1>8, <1>11 DEF RtModesHold
  <2>. QED
    BY <1>4, <1>10, <2>1, <2>2 DEF RtIInv
<1>12. CASE rtAt' \in {"summary", "left"}
  <2>1. rtRow' = rtRow
    BY <1>2, <1>12
  <2>2. RtOf(RtEnded)' = RtOf(RtEnded) /\ RtOf({"failed"})' = RtOf({"failed"})
    BY <2>1 DEF RtOf
  <2>3. RtRowsAreCounted'
    BY <1>1, <2>2 DEF RtIInv, RtRowsAreCounted
  <2>4. RtModesHold'
    BY <1>1, <1>5, <1>7, <1>12, <2>2 DEF RtModesHold
  <2>. QED
    BY <1>4, <1>10, <2>3, <2>4 DEF RtIInv
<1>. QED
  BY <1>2, <1>11, <1>12

(* Of the rows, the counters and the mode nothing changes. *)
LEMMA RtRestKeeps ==
    ASSUME RtIInv, RtWindowHolds', UNCHANGED <<rtKind, rtRow, rtCount, rtLog, rtDown, rtCycle>>,
           rtAt' = rtAt \/ (rtAt \in {"running", "summary"} /\ rtAt' = "left"),
           rtHeight' \in RtHeights, rtTyped' \in 0..RtMaxKeys, rtQueue' \in Seq(RtKeys)
    PROVE  RtIInv'
<1>1. rtAt' \in {"off", "running", "summary", "idle", "left"}
  BY DEF RtIInv, RtIsTyped, RtTypeOK
<1>2. RtIsTyped'
  BY <1>1, RtTypesFollow DEF RtIInv, RtIsTyped, RtTypeOK
<1>3. RtOf(RtEnded)' = RtOf(RtEnded) /\ RtOf({"failed"})' = RtOf({"failed"})
  BY DEF RtOf
<1>4. RtRowsAreCounted'
  BY <1>3 DEF RtIInv, RtRowsAreCounted
<1>5. RtModesHold'
  BY <1>3 DEF RtIInv, RtModesHold
<1>. QED
  BY <1>2, <1>4, <1>5 DEF RtIInv

(* The user confirms, *)
LEMMA RtConfirmKeeps == RtIInv /\ RtConfirm => RtIInv'
<1>. SUFFICES ASSUME RtIInv, RtConfirm
              PROVE  RtIInv'
  OBVIOUS
<1>1. /\ rtAt = "summary" /\ rtQueue # <<>> /\ rtQueue' = Tail(rtQueue)
      /\ UNCHANGED <<rtKind, rtRow, rtCount, rtLog, rtHeight, rtDown, rtTyped, rtCycle>>
  BY DEF RtConfirm
<1>2. /\ rtLog \in [RtNames -> 0..RtMaxLines] /\ rtHeight \in RtHeights /\ rtView \in RtViews
      /\ rtTyped \in 0..RtMaxKeys /\ rtQueue \in Seq(RtKeys)
  BY DEF RtIInv, RtIsTyped, RtTypeOK, RtWindowHolds
<1>3. rtQueue' \in Seq(RtKeys)
  BY <1>1, <1>2, HeadTailProperties
<1>4. CASE rtAt' = "left" /\ UNCHANGED <<rtView, rtShown, rtAsked>>
  <2>1. RtWindowHolds'
    <3>1. \A p \in RtNames : rtLog[p] <= rtLog[p]
      BY <1>2
    <3>. QED
      BY <1>1, <1>2, <1>4, <3>1, RtWindowStays
  <2>. QED
    BY <1>1, <1>2, <1>3, <1>4, <2>1, RtRestKeeps
<1>5. CASE rtAt' = rtAt /\ RtDraw(rtLog, RtKey(rtView, Head(rtQueue)), TRUE)
  <2>. DEFINE view == RtKey(rtView, Head(rtQueue))
  <2>1. view \in RtViews
    BY <1>2, RtKeysMakeViews
  <2>. HIDE DEF view
  <2>2. RtDraw(rtLog, view, TRUE)
    BY <1>5 DEF view
  <2>3. RtWindowHolds'
    BY <1>1, <1>2, <1>5, <2>1, <2>2, RtDrawsForTheUser
  <2>. QED
    BY <1>1, <1>2, <1>3, <1>5, <2>3, RtRestKeeps
<1>. QED
  BY <1>4, <1>5 DEF RtConfirm

(* quits, with keys of the log before the q, *)
LEMMA RtPollQuitKeeps == RtIInv /\ RtPollQuit => RtIInv'
<1>. SUFFICES ASSUME RtIInv, RtPollQuit
              PROVE  RtIInv'
  OBVIOUS
<1>1. /\ rtAt = "running" /\ rtKind = "persistent" /\ rtDown' = TRUE
      /\ rtRow' = [p \in RtNames |-> IF rtRow[p] = "running" THEN "stopping" ELSE rtRow[p]]
      /\ UNCHANGED <<rtKind, rtAt, rtCount, rtLog, rtHeight, rtTyped, rtCycle>>
  BY DEF RtPollQuit
<1>2. PICK n \in 1..Len(rtQueue) :
             /\ rtQueue' = SubSeq(rtQueue, n + 1, Len(rtQueue))
             /\ RtDraw(rtLog, RtHandled(SubSeq(rtQueue, 1, n - 1)), TRUE)
  BY DEF RtPollQuit
<1>3. /\ rtLog \in [RtNames -> 0..RtMaxLines] /\ rtHeight \in RtHeights /\ rtView \in RtViews
      /\ rtQueue \in Seq(RtKeys) /\ rtRow \in [RtNames -> RtStates]
  BY DEF RtIInv, RtIsTyped, RtTypeOK, RtWindowHolds
<1>. DEFINE keys == SubSeq(rtQueue, 1, n - 1)
            view == RtHandled(keys)
<1>4. keys \in Seq(RtKeys) /\ rtQueue' \in Seq(RtKeys)
  BY <1>2, <1>3
<1>. HIDE DEF keys
<1>5. view \in RtViews
  BY <1>3, <1>4, RtHandledIsAView
<1>. HIDE DEF view
<1>6. RtDraw(rtLog, view, TRUE)
  BY <1>2 DEF view, keys
<1>7. RtWindowHolds'
  BY <1>1, <1>3, <1>5, <1>6, RtDrawsForTheUser
<1>8. rtRow' \in [RtNames -> RtStates]
  BY <1>1, <1>3 DEF RtStates
<1>9. RtIsTyped'
  BY <1>1, <1>4, <1>7, <1>8, RtTypesFollow DEF RtIInv, RtIsTyped, RtTypeOK
<1>10. RtRowsAreCounted'
  BY <1>1 DEF RtIInv, RtRowsAreCounted
<1>11. RtModesHold'
  BY <1>1, <1>3 DEF RtIInv, RtModesHold
<1>. QED
  BY <1>7, <1>9, <1>10, <1>11 DEF RtIInv

(* or types a key; *)
LEMMA RtTypeKeeps ==
    ASSUME RtIInv, NEW key \in RtKeys, RtType(key)
    PROVE  RtIInv'
<1>1. /\ rtAt \in {"running", "summary", "idle"} /\ rtTyped < RtMaxKeys /\ rtTyped' = rtTyped + 1
      /\ UNCHANGED <<rtKind, rtAt, rtRow, rtCount, rtLog, rtHeight, rtDown, rtCycle>>
  BY DEF RtType
<1>2. /\ rtLog \in [RtNames -> 0..RtMaxLines] /\ rtHeight \in RtHeights /\ rtView \in RtViews
      /\ rtTyped \in 0..RtMaxKeys /\ rtQueue \in Seq(RtKeys)
  BY DEF RtIInv, RtIsTyped, RtTypeOK, RtWindowHolds
<1>3. rtTyped' \in 0..RtMaxKeys
  BY <1>1, <1>2, RtAssumption
<1>4. CASE RtDraw(rtLog, RtKey(rtView, key), TRUE) /\ rtQueue' = rtQueue
  <2>. DEFINE view == RtKey(rtView, key)
  <2>1. view \in RtViews
    BY <1>2, RtKeysMakeViews
  <2>. HIDE DEF view
  <2>2. RtDraw(rtLog, view, TRUE)
    BY <1>4 DEF view
  <2>3. RtWindowHolds'
    BY <1>1, <1>2, <2>1, <2>2, RtDrawsForTheUser
  <2>. QED
    BY <1>1, <1>2, <1>3, <1>4, <2>3, RtRestKeeps
<1>5. CASE rtQueue' = Append(rtQueue, key) /\ UNCHANGED <<rtView, rtShown, rtAsked>>
  <2>1. RtWindowHolds'
    <3>1. \A p \in RtNames : rtLog[p] <= rtLog[p]
      BY <1>2
    <3>. QED
      BY <1>1, <1>2, <1>5, <3>1, RtWindowStays
  <2>2. rtQueue' \in Seq(RtKeys)
    BY <1>2, <1>5, AppendProperties
  <2>. QED
    BY <1>1, <1>2, <1>3, <2>1, <2>2, RtRestKeeps
<1>. QED
  BY <1>4, <1>5 DEF RtType

(* the terminal is restored or has another height. *)
LEMMA RtOthersKeep == RtIInv /\ (RtRestore \/ RtResize) => RtIInv'
<1>. SUFFICES ASSUME RtIInv, RtRestore \/ RtResize
              PROVE  RtIInv'
  OBVIOUS
<1>1. /\ rtLog \in [RtNames -> 0..RtMaxLines] /\ rtHeight \in RtHeights
      /\ rtTyped \in 0..RtMaxKeys /\ rtQueue \in Seq(RtKeys)
  BY DEF RtIInv, RtIsTyped, RtTypeOK
<1>2. /\ UNCHANGED <<rtKind, rtRow, rtCount, rtLog, rtView, rtShown, rtDown, rtQueue, rtTyped,
                     rtCycle, rtAsked>>
      /\ rtHeight' \in RtHeights
      /\ rtAt' = rtAt \/ (rtAt = "running" /\ rtAt' = "left")
  BY <1>1 DEF RtRestore, RtResize
<1>3. RtWindowHolds'
  <2>1. \A p \in RtNames : rtLog[p] <= rtLog[p]
    BY <1>1
  <2>. QED
    BY <1>1, <1>2, <2>1, RtWindowStays
<1>. QED
  BY <1>1, <1>2, <1>3, RtRestKeeps

(* No step breaks it, *)
LEMMA RtStays == RtIInv /\ [RtNext]_rtVars => RtIInv'
<1>. SUFFICES ASSUME RtIInv, [RtNext]_rtVars
              PROVE  RtIInv'
  OBVIOUS
<1>1. CASE UNCHANGED rtVars
  <2>1. /\ rtLog \in [RtNames -> 0..RtMaxLines] /\ rtHeight \in RtHeights
        /\ rtTyped \in 0..RtMaxKeys /\ rtQueue \in Seq(RtKeys)
    BY DEF RtIInv, RtIsTyped, RtTypeOK
  <2>2. RtWindowHolds'
    <3>1. \A p \in RtNames : rtLog[p] <= rtLog[p]
      BY <2>1
    <3>. QED
      BY <1>1, <2>1, <3>1, RtWindowStays DEF rtVars
  <2>. QED
    BY <1>1, <2>1, <2>2, RtRestKeeps DEF rtVars
<1>. QED
  BY <1>1, RtStartKeeps, RtTaskStartedKeeps, RtTaskOutputKeeps, RtSilentOutputKeeps, RtTickKeeps,
     RtTaskCompletedKeeps, RtTaskSkippedKeeps, RtFinishKeeps, RtConfirmKeeps, RtPollQuitKeeps,
     RtTypeKeeps, RtOthersKeep DEF RtNext

(* so it always holds. *)
LEMMA RtAlways == RtSpec => []RtIInv
  BY RtStartsRight, RtStays, PTL DEF RtSpec

(* The counters say what the rows say. *)
LEMMA RtIInvImpliesSafety == RtIInv => RtTypeOK /\ RtSafety
<1>. SUFFICES ASSUME RtIInv
              PROVE  RtTypeOK /\ RtSafety
  OBVIOUS
<1>1. RtTypeOK /\ RtWindowIsRight
  BY DEF RtIInv, RtIsTyped, RtWindowHolds
<1>2. rtAt \in {"summary", "idle"} => RtRemaining = 0
  <2>1. Len(RtProjects) \in Nat
    BY RtProjectsAre
  <2>2. CASE rtAt = "summary"
    <3>1. rtCount.completed = Len(RtProjects)
      BY <2>2, RtRowsAreFinite DEF RtIInv, RtModesHold, RtRowsAreCounted
    <3>. QED
      BY <2>1, <3>1 DEF RtRemaining
  <2>3. CASE rtAt = "idle"
    BY <2>1, <2>3 DEF RtIInv, RtModesHold, RtRemaining
  <2>. QED
    BY <2>2, <2>3
<1>3. rtAt \in {"running", "summary", "left"} /\ ~rtDown => ((rtCount.failed > 0) <=> RtHow({"failed"}))
  <2>. SUFFICES ASSUME rtAt \in {"running", "summary", "left"}, ~rtDown
                PROVE  (rtCount.failed > 0) <=> RtHow({"failed"})
    OBVIOUS
  <2>1. rtCount.failed = Cardinality(RtOf({"failed"}))
    BY DEF RtIInv, RtRowsAreCounted
  <2>2. IsFiniteSet(RtOf({"failed"})) /\ Cardinality(RtOf({"failed"})) \in Nat
    BY RtOfIsFinite
  <2>3. Cardinality(RtOf({"failed"})) = 0 <=> RtOf({"failed"}) = {}
    BY <2>2, FS_EmptySet
  <2>4. RtOf({"failed"}) = {} <=> ~RtHow({"failed"})
    BY DEF RtOf, RtHow
  <2>. QED
    BY <2>1, <2>2, <2>3, <2>4
<1>4. rtAt = "summary" => (rtCount.failed > 0 <=> RtHow({"failed"}))
  BY <1>3 DEF RtIInv, RtModesHold
<1>5. rtKind # "none" /\ RtStatus = "failed" => rtCount.failed > 0
  <2>. SUFFICES ASSUME rtKind # "none", RtStatus = "failed"
                PROVE  rtCount.failed > 0
    OBVIOUS
  <2>1. ~RtHow({"waiting"}) /\ ~rtDown /\ RtHow({"failed"})
    BY DEF RtStatus
  <2>2. rtAt # "idle"
    <3>1. 1 \in 1..Len(RtProjects)
      BY RtProjectsAre
    <3>2. RtProjects[1] \in RtNames
      BY <3>1, RtProjectsAre
    <3>. QED
      BY <2>1, <3>2 DEF RtIInv, RtModesHold, RtHow
  <2>3. rtAt \in {"running", "summary", "left"}
    BY <2>2 DEF RtIInv, RtModesHold, RtIsTyped, RtTypeOK
  <2>. QED
    BY <1>3, <2>1, <2>3
<1>6. RtCountsAgree
  BY <1>2, <1>4, <1>5 DEF RtCountsAgree, RtIInv, RtRowsAreCounted
<1>. QED
  BY <1>1, <1>6 DEF RtSafety

--------------------------------------------------------------------------------
(* A command's processes are in one of their lives, and the screen's rows, counters
   and window have their types (runner.rs, cancellation.rs, ui/run.rs). *)
THEOREM ProcessesAreTyped == CpSpec /\ RtSpec => [](CpTypeOK /\ RtTypeOK)
<1>1. CpIInv => CpTypeOK
  BY CpIInvImpliesSafety
<1>2. RtIInv => RtTypeOK
  BY RtIInvImpliesSafety
<1>. QED
  BY <1>1, <1>2, CpAlways, RtAlways, PTL

(* A captured command's wait returns all the output that its pipes ever carry; after
   a cancelled wait the command is dead, and where its terminal was inherited every
   process of its group is dead or killed (run_with_output_and_cancel,
   run_piped_persistent, wait_for_child). *)
THEOREM CommandsEndWhole == CpSpec => []CpSafety
<1>1. CpIInv => CpSafety
  BY CpIInvImpliesSafety
<1>. QED
  BY <1>1, CpAlways, PTL

(* The part of a log that is on the screen is the end of it or where the user has
   scrolled to, however the log grows, and the counters and the status line say what
   the rows say (log_lines, handle_key_event, long_lived_summary_lines). *)
THEOREM ScreensAreRight == RtSpec => []RtSafety
<1>1. RtIInv => RtSafety
  BY RtIInvImpliesSafety
<1>. QED
  BY <1>1, RtAlways, PTL

(* A command's output arrives whole and its processes end, and the terminal shows
   what the run has said. *)
THEOREM ProcessesAreSafe == CpSpec /\ RtSpec => []ProcessSafety
<1>1. CpSafety /\ RtSafety => ProcessSafety
  BY DEF ProcessSafety
<1>. QED
  BY <1>1, CommandsEndWhole, ScreensAreRight, PTL
================================================================================

--------------------------- MODULE PromisesProofs ---------------------------
(***************************************************************************)
(* What is kept for later: proofs about the mirror of a promise store, the *)
(* originals of documents, goals, the watch on Slack, what is sent as a    *)
(* photo or a file, and agent tasks, for every value of their constants.   *)
(* MCPromises composes them; its KeptUntilTold is proved at the end.       *)
(***************************************************************************)
EXTENDS MCPromises, FiniteSetTheorems, WellFoundedInduction, TLAPS

(* The mirror, for any number of writers, reads and saves.                 *)
USE MirrorAssumption
LEMMA TypeInit == Init => TypeOK
<1>1. 0 \in Version
  BY DEF Version
<1> QED  BY <1>1 DEF Init, TypeOK, Step

LEMMA TypeStep == TypeOK /\ [Next]_vars => TypeOK'
<1>. SUFFICES ASSUME TypeOK, [Next]_vars PROVE TypeOK'
  OBVIOUS
<1>. USE DEF TypeOK
<1>1. ASSUME NEW w \in Writer, NEW step \in Step, Goes(w, step)
      PROVE  save' \in [Writer -> Step]
  BY <1>1 DEF Goes
<1>2. ASSUME NEW w \in Writer, WriteFile(w) PROVE TypeOK'
  <2>1. file' \in Version
    BY <1>2 DEF WriteFile, Version
  <2> QED  BY <1>1, <1>2, <2>1 DEF WriteFile, Step
<1>3. ASSUME NEW w \in Writer, SkipMirror(w) PROVE TypeOK'
  BY <1>1, <1>3 DEF SkipMirror, Step
<1>4. ASSUME NEW w \in Writer, Mirror(w) PROVE TypeOK'
  BY <1>1, <1>4 DEF Mirror, Step
<1>5. ASSUME NEW w \in Writer, MirrorFails(w) PROVE TypeOK'
  <2>1. pg' \in Version
    BY <1>5 DEF MirrorFails
  <2> QED  BY <1>1, <1>5, <2>1 DEF MirrorFails, Step
<1>6. ASSUME NEW w \in Writer, MarkStale(w) PROVE TypeOK'
  BY <1>1, <1>6 DEF MarkStale, Returns, Step
<1>7. ASSUME NEW w \in Writer, ClearStale(w) PROVE TypeOK'
  BY <1>1, <1>7 DEF ClearStale, Returns, Step
<1>8. ASSUME NEW r \in Reader, ReadMark(r) PROVE TypeOK'
  <2>1. [phase |-> "done", low |-> acked, got |-> file] \in Result
    BY DEF Result
  <2>2. [phase |-> "pg", low |-> acked] \in AtPg
    BY DEF AtPg
  <2>3. read' \in [Reader -> {NoRead} \cup AtPg \cup Result]
    BY <1>8, <2>1, <2>2 DEF ReadMark
  <2> QED  BY <1>8, <2>3 DEF ReadMark
<1>9. ASSUME NEW r \in Reader, NEW v \in Version, Got(r, v) PROVE TypeOK'
  <2>1. read[r] \in AtPg
    BY <1>9 DEF Got, NoRead, Result
  <2>2. [phase |-> "done", low |-> read[r].low, got |-> v] \in Result
    BY <2>1 DEF AtPg, Result
  <2>3. read' \in [Reader -> {NoRead} \cup AtPg \cup Result]
    BY <1>9, <2>2 DEF Got
  <2> QED  BY <1>9, <2>3 DEF Got
<1>10. ASSUME NEW w \in Writer, Crash(w) PROVE TypeOK'
  BY <1>1, <1>10 DEF Crash, Step
<1>11. ASSUME NEW w \in Writer, BreakerCloses(w) PROVE TypeOK'
  BY <1>11 DEF BreakerCloses
<1>12. ASSUME Postgres PROVE TypeOK'
  BY <1>12 DEF Postgres
<1>13. CASE UNCHANGED vars
  BY <1>13 DEF vars
<1> QED
  BY <1>2, <1>3, <1>4, <1>5, <1>6, <1>7, <1>8, <1>9, <1>10, <1>11, <1>12, <1>13
     DEF Next, Save, ReadPg, ReadFile

(* Every reachable state is well typed. *)
THEOREM TypeCorrect == Spec => []TypeOK
BY TypeInit, TypeStep, PTL DEF Spec
-----------------------------------------------------------------------------
LEMMA GoesFrom ==
  ASSUME TypeOK, OneSave, NEW w \in Writer, NEW step \in Step, Goes(w, step),
         LockFree \/ save[w] # "idle"
  PROVE  /\ OneSave'
         /\ \A v \in Writer : save'[v] = IF v = w THEN step ELSE "idle"
<1>1. \A v \in Writer : save'[v] = IF v = w THEN step ELSE save[v]
  BY DEF Goes, TypeOK
<1>2. \A v \in Writer : v # w => save[v] = "idle"
  BY DEF OneSave, LockFree
<1> QED  BY <1>1, <1>2 DEF OneSave

LEMMA VersionType == \A v \in Version : v \in Nat
BY DEF Version

LEMMA InvStep ==
  ASSUME ~MarkFails PROVE MirrorInv /\ TypeOK' /\ [Next]_vars => MirrorInv'
<1>. SUFFICES ASSUME MirrorInv, TypeOK', [Next]_vars PROVE MirrorInv'
  OBVIOUS
<1>. USE VersionType DEF MirrorInv, TypeOK, UnmarkedIsAcked, MirroredIsFile,
                         ReadsSeeReturnedSaves, TrustedOrCut
<1>1. ASSUME NEW w \in Writer, WriteFile(w) PROVE MirrorInv'
  <2>1. /\ OneSave'
        /\ \A v \in Writer : save'[v] = IF v = w THEN "written" ELSE "idle"
    BY <1>1, GoesFrom DEF WriteFile, Step
  <2>2. file' = file + 1 /\ UNCHANGED <<pg, stale, read, acked>>
    BY <1>1 DEF WriteFile
  <2>3. \A r \in Reader : read[r].phase # "idle" => read[r].low <= file'
    <3>1. ASSUME NEW r \in Reader, read[r].phase # "idle" PROVE read[r].low \in Nat
      BY <3>1 DEF NoRead, AtPg, Result
    <3> QED  BY <2>2, <3>1
  <2> QED  BY <2>1, <2>2, <2>3 DEF LockFree
<1>2. ASSUME NEW w \in Writer, SkipMirror(w) PROVE MirrorInv'
  <2>1. /\ OneSave'
        /\ \A v \in Writer : save'[v] = IF v = w THEN "failed" ELSE "idle"
    BY <1>2, GoesFrom DEF SkipMirror, Step
  <2> QED  BY <1>2, <2>1 DEF SkipMirror, LockFree
<1>3. ASSUME NEW w \in Writer, Mirror(w) PROVE MirrorInv'
  <2>1. /\ OneSave'
        /\ \A v \in Writer : save'[v] = IF v = w THEN "mirrored" ELSE "idle"
    BY <1>3, GoesFrom DEF Mirror, Step
  <2> QED  BY <1>3, <2>1 DEF Mirror, LockFree
<1>4. ASSUME NEW w \in Writer, MirrorFails(w) PROVE MirrorInv'
  <2>1. /\ OneSave'
        /\ \A v \in Writer : save'[v] = IF v = w THEN "failed" ELSE "idle"
    BY <1>4, GoesFrom DEF MirrorFails, Step
  <2>2. pg' \in {pg, file} /\ UNCHANGED <<file, stale, read, acked>>
    BY <1>4 DEF MirrorFails
  <2>3. \A r \in Reader : read[r].phase = "pg" => pg' >= read[r].low
    <3>1. ASSUME NEW r \in Reader, read[r].phase = "pg" PROVE read[r].low \in Nat
      BY <3>1 DEF NoRead, AtPg, Result
    <3> QED  BY <2>2, <3>1
  <2> QED  BY <2>1, <2>2, <2>3 DEF LockFree
<1>5. ASSUME NEW w \in Writer, MarkStale(w) PROVE MirrorInv'
  <2>1. /\ OneSave'
        /\ \A v \in Writer : save'[v] = IF v = w THEN "idle" ELSE "idle"
    BY <1>5, GoesFrom DEF MarkStale, Returns, Step
  <2> QED  BY <1>5, <2>1 DEF MarkStale, Returns
<1>6. ASSUME NEW w \in Writer, ClearStale(w) PROVE MirrorInv'
  <2>1. /\ OneSave'
        /\ \A v \in Writer : save'[v] = IF v = w THEN "idle" ELSE "idle"
    BY <1>6, GoesFrom DEF ClearStale, Returns, Step
  <2> QED  BY <1>6, <2>1 DEF ClearStale, Returns
<1>7. ASSUME NEW r \in Reader, ReadMark(r) PROVE MirrorInv'
  <2>1. \A q \in Reader : read'[q] =
          IF q # r THEN read[q]
          ELSE IF stale THEN [phase |-> "done", low |-> acked, got |-> file]
          ELSE [phase |-> "pg", low |-> acked]
    BY <1>7 DEF ReadMark
  <2>2. UNCHANGED <<file, pg, stale, breaker, save, acked, cut>>
    BY <1>7 DEF ReadMark
  <2>3. UnmarkedIsAcked'
    BY <2>1, <2>2
  <2>4. MirroredIsFile'
    BY <2>1, <2>2
  <2>5. ReadsSeeReturnedSaves'
    BY <2>1, <2>2
  <2>6. OneSave' /\ TrustedOrCut'
    BY <2>2 DEF OneSave, LockFree
  <2> QED  BY <2>3, <2>4, <2>5, <2>6
<1>8. ASSUME NEW r \in Reader, NEW v \in {pg, file}, Got(r, v) PROVE MirrorInv'
  <2>1. read[r].phase = "pg" /\ v >= read[r].low
    <3>1. read[r].phase = "pg" /\ read[r].low \in Nat
      BY <1>8 DEF Got, NoRead, AtPg, Result
    <3> QED  BY <3>1
  <2>2. \A q \in Reader : read'[q] =
          IF q = r THEN [phase |-> "done", low |-> read[r].low, got |-> v] ELSE read[q]
    BY <1>8 DEF Got
  <2>3. UNCHANGED <<file, pg, stale, breaker, save, acked, cut>>
    BY <1>8 DEF Got
  <2>4. UnmarkedIsAcked' /\ MirroredIsFile' /\ ReadsSeeReturnedSaves'
    BY <2>1, <2>2, <2>3
  <2>5. OneSave' /\ TrustedOrCut'
    BY <2>3 DEF OneSave, LockFree
  <2> QED  BY <2>4, <2>5
<1>9. ASSUME NEW w \in Writer, Crash(w) PROVE MirrorInv'
  <2>1. \A v \in Writer : save'[v] = IF v = w THEN "idle" ELSE save[v]
    BY <1>9 DEF Crash, Goes
  <2>2. UNCHANGED <<file, pg, stale, read, acked>>
        /\ cut' = (cut \/ save[w] # "idle")
    BY <1>9 DEF Crash
  <2>3. OneSave'
    BY <2>1 DEF OneSave
  <2>4. ~cut' /\ LockFree' => LockFree
    BY <2>1, <2>2 DEF LockFree
  <2> QED  BY <2>1, <2>2, <2>3, <2>4
<1>10. ASSUME NEW w \in Writer, BreakerCloses(w) PROVE MirrorInv'
  BY <1>10 DEF BreakerCloses, OneSave, LockFree
<1>11. ASSUME Postgres PROVE MirrorInv'
  BY <1>11 DEF Postgres, OneSave, LockFree
<1>12. CASE UNCHANGED vars
  BY <1>12 DEF vars, OneSave, LockFree
<1> QED
  BY <1>1, <1>2, <1>3, <1>4, <1>5, <1>6, <1>7, <1>8, <1>9, <1>10, <1>11, <1>12
     DEF Next, Save, ReadPg, ReadFile

LEMMA InvInit == Init => MirrorInv
<1>1. Init => OneSave /\ UnmarkedIsAcked /\ MirroredIsFile
  BY DEF Init, OneSave, UnmarkedIsAcked, MirroredIsFile, NoRead
<1>2. Init => ReadsSeeReturnedSaves /\ TrustedOrCut
  BY DEF Init, ReadsSeeReturnedSaves, TrustedOrCut, NoRead
<1> QED  BY <1>1, <1>2, TypeInit DEF MirrorInv

LEMMA InvHolds == ASSUME ~MarkFails PROVE Spec => []MirrorInv
<1>1. MirrorInv /\ TypeOK' /\ [Next]_vars => MirrorInv'
  BY InvStep
<1> QED  BY <1>1, InvInit, TypeCorrect, PTL DEF Spec

(* No read misses a save that had returned when it began. *)
THEOREM ReadsAreRecent == ASSUME ~MarkFails PROVE Spec => []ReadsSeeReturnedSaves
<1>1. MirrorInv => ReadsSeeReturnedSaves
  BY DEF MirrorInv
<1> QED  BY <1>1, InvHolds, PTL

(* Between saves, an unmarked mirror equals the file or a crash cut a save. *)
THEOREM UnmarkedIsTrue == ASSUME ~MarkFails PROVE Spec => []TrustedOrCut
<1>1. MirrorInv => TrustedOrCut
  BY DEF MirrorInv
<1> QED  BY <1>1, InvHolds, PTL
-----------------------------------------------------------------------------
(***************************************************************************)
(* Originals.  Every file that is in hand is fresh on disk, and no file    *)
(* that a deletion or the sweep has condemned is named or in hand, but for *)
(* those that were overtaken.                                              *)
(***************************************************************************)
Threads ==
    \A u \in Uploader : upload[u].at # "idle" => upload[u].bytes \in Bytes /\ upload[u].text \in Text

HandIsFresh == \A f \in InHand \cap File : disk[f] = "fresh" \/ f \in overtaken

CondemnedIsFree == Condemned \cap (Named \cup InHand) \subseteq overtaken

OriginalsIInv == OriginalsInv /\ Threads /\ HandIsFresh /\ CondemnedIsFree

(* What a row names, what is in hand, and what is on disk.                 *)
LEMMA NamedIs ==
    ASSUME OriginalsTypeOK
    PROVE  /\ Named \subseteq File
           /\ \A f \in File : f \in Named <=> document[f[1]].path = f[2]
BY OriginalsAssumption DEF OriginalsTypeOK, Named, Names, File

LEMMA InHandIs ==
    \A f : f \in InHand <=> \E u \in Uploader : /\ upload[u].at = "written"
                                                /\ f = <<upload[u].text, ExtOf[upload[u].bytes]>>
BY DEF InHand

LEMMA InitOriginals == OriginalsInit => OriginalsIInv
<1> SUFFICES ASSUME OriginalsInit PROVE OriginalsIInv
  OBVIOUS
<1> USE OriginalsAssumption DEF OriginalsInit
<1>1. OriginalsTypeOK
  <2>1. /\ document \in [Text -> [hash : Bytes \cup {NoBytes}, path : Ext \cup {NoExt}]]
        /\ upload \in [Uploader -> [at : {"idle", "merging", "new", "written"},
                                    bytes : Bytes \cup {NoBytes}, text : Text \cup {NoText}]]
    BY DEF NoRow, Idle
  <2>2. orphans \in [at : {"resting", "listed", "judged"}, files : SUBSET File]
    BY DEF Resting
  <2> QED  BY <2>1, <2>2 DEF OriginalsTypeOK
<1>2. InHand = {} /\ Condemned = {} /\ Named = {}
  BY DEF InHand, Condemned, Named, Names, Idle, Resting, NoRow
<1>3. Threads
  BY DEF Threads, Idle
<1> QED
  BY <1>1, <1>2, <1>3 DEF OriginalsIInv, OriginalsInv, BytesKept, HandIsFresh, CondemnedIsFree

(* What an upload does that touches no row and no file.                    *)
LEMMA MovesUpload ==
    ASSUME OriginalsIInv, NEW u \in Uploader, OriginalsTypeOK', Threads',
           \A v \in Uploader \ {u} : upload'[v] = upload[v], upload'[u].at # "written",
           UNCHANGED <<document, disk, doomed, orphans, overtaken>>
    PROVE  OriginalsIInv'
<1>1. InHand' \subseteq InHand
  BY DEF InHand
<1>2. Named' = Named /\ OnDisk' = OnDisk /\ Condemned' = Condemned
  BY DEF Named, Names, OnDisk, Condemned
<1>3. HandIsFresh'
  BY <1>1 DEF OriginalsIInv, HandIsFresh
<1> QED
  BY <1>1, <1>2, <1>3 DEF OriginalsIInv, OriginalsInv, BytesKept, CondemnedIsFree

LEMMA StepOriginals == OriginalsIInv /\ [OriginalsNext]_originalsVars => OriginalsIInv'
<1> SUFFICES ASSUME OriginalsIInv, [OriginalsNext]_originalsVars PROVE OriginalsIInv'
  OBVIOUS
<1> USE OriginalsAssumption
<1>0. OriginalsTypeOK /\ BytesKept /\ Threads /\ HandIsFresh /\ CondemnedIsFree
  BY DEF OriginalsIInv, OriginalsInv
<1>t. /\ document \in [Text -> [hash : Bytes \cup {NoBytes}, path : Ext \cup {NoExt}]]
      /\ disk \in [File -> {"none", "fresh", "old"}]
      /\ upload \in [Uploader -> [at : {"idle", "merging", "new", "written"},
                                 bytes : Bytes \cup {NoBytes}, text : Text \cup {NoText}]]
      /\ doomed \subseteq File /\ overtaken \subseteq File
      /\ orphans \in [at : {"resting", "listed", "judged"}, files : SUBSET File]
      /\ trouble \in 0..MaxTrouble
  BY <1>0 DEF OriginalsTypeOK
<1>n. /\ Named \subseteq File
      /\ \A f \in File : f \in Named <=> document[f[1]].path = f[2]
  BY <1>0, NamedIs
<1>c. Condemned \subseteq File
  BY <1>t DEF Condemned
<1>1. ASSUME NEW u \in Uploader, Looks(u) PROVE OriginalsIInv'
  <2>1. PICK r \in ReadsAs :
            upload' = [upload EXCEPT ![u] =
                [at |-> IF \E s \in Text : document[s].hash = r[1] THEN "merging" ELSE "new",
                 bytes |-> r[1], text |-> r[2]]]
    BY <1>1 DEF Looks
  <2>2. r[1] \in Bytes /\ r[2] \in Text
    OBVIOUS
  <2>3. UNCHANGED <<document, disk, doomed, orphans, overtaken, trouble>>
    BY <1>1 DEF Looks
  <2>4. OriginalsTypeOK'
    BY <1>t, <2>1, <2>2, <2>3 DEF OriginalsTypeOK
  <2>5. Threads' /\ upload'[u].at # "written" /\ \A v \in Uploader \ {u} : upload'[v] = upload[v]
    BY <1>0, <1>t, <2>1, <2>2 DEF Threads
  <2> QED  BY <2>3, <2>4, <2>5, MovesUpload
<1>2. ASSUME NEW u \in Uploader, Merges(u) \/ FailsToStore(u) PROVE OriginalsIInv'
  <2>1. /\ upload' = [upload EXCEPT ![u] = Idle] /\ trouble' \in 0 .. MaxTrouble
        /\ UNCHANGED <<document, disk, doomed, orphans, overtaken>>
    BY <1>2, <1>t DEF Merges, FailsToStore
  <2>2. OriginalsTypeOK'
    BY <1>t, <2>1 DEF OriginalsTypeOK, Idle
  <2>3. Threads' /\ upload'[u].at # "written" /\ \A v \in Uploader \ {u} : upload'[v] = upload[v]
    BY <1>0, <1>t, <2>1 DEF Threads, Idle
  <2> QED  BY <2>1, <2>2, <2>3, MovesUpload
<1>3. ASSUME NEW u \in Uploader, Writes(u) PROVE OriginalsIInv'
  <2>0. PICK f : f = <<upload[u].text, ExtOf[upload[u].bytes]>>
    OBVIOUS
  <2>1. /\ upload[u].at = "new" /\ upload' = [upload EXCEPT ![u].at = "written"]
        /\ f \in File => /\ disk' = [disk EXCEPT ![f] = "fresh"]
                         /\ overtaken' = (overtaken \ {f}) \cup ({f} \cap Condemned)
        /\ f \notin File => UNCHANGED <<disk, overtaken>>
        /\ UNCHANGED <<document, doomed, orphans, trouble>>
    BY <1>3, <2>0 DEF Writes
  <2>2. OriginalsTypeOK'
    <3>1. /\ disk' \in [File -> {"none", "fresh", "old"}] /\ overtaken' \subseteq File
      BY <1>t, <2>1
    <3>2. upload' \in [Uploader -> [at : {"idle", "merging", "new", "written"},
                                 bytes : Bytes \cup {NoBytes}, text : Text \cup {NoText}]]
      BY <1>t, <2>1
    <3> QED  BY <1>t, <2>1, <3>1, <3>2 DEF OriginalsTypeOK
  <2>3. Threads'
    BY <1>0, <1>t, <2>1 DEF Threads
  <2>4. InHand' = InHand \cup {f}
    BY <1>t, <2>0, <2>1 DEF InHand
  <2>5. Named' = Named /\ Condemned' = Condemned
    BY <2>1 DEF Named, Names, Condemned
  <2>6. \A g \in File : g # f => disk'[g] = disk[g] /\ (g \in overtaken' <=> g \in overtaken)
    BY <1>t, <2>1
  <2>7. f \in File => disk'[f] = "fresh" /\ (f \in overtaken' <=> f \in Condemned)
    BY <1>t, <2>1
  <2>8. BytesKept'
    BY <1>0, <1>n, <2>5, <2>6, <2>7 DEF BytesKept, OnDisk
  <2>9. HandIsFresh'
    BY <1>0, <2>4, <2>6, <2>7 DEF HandIsFresh
  <2>10. CondemnedIsFree'
    BY <1>0, <1>c, <2>4, <2>5, <2>6, <2>7 DEF CondemnedIsFree
  <2> QED  BY <2>2, <2>3, <2>8, <2>9, <2>10 DEF OriginalsIInv, OriginalsInv
<1>4. ASSUME NEW u \in Uploader, Commits(u) PROVE OriginalsIInv'
  <2>0. PICK t, b : t = upload[u].text /\ b = upload[u].bytes
    OBVIOUS
  <2>1. /\ upload[u].at = "written" /\ upload' = [upload EXCEPT ![u] = Idle]
        /\ document' = [document EXCEPT ![t] = Upserted(t, b)]
        /\ UNCHANGED <<disk, doomed, orphans, overtaken, trouble>>
    BY <1>4, <2>0 DEF Commits
  <2>2. t \in Text /\ b \in Bytes
    BY <1>0, <2>0, <2>1 DEF Threads
  <2>3. OriginalsTypeOK'
    <3>1. Upserted(t, b) \in [hash : Bytes \cup {NoBytes}, path : Ext \cup {NoExt}]
      BY <1>t, <2>2 DEF Upserted
    <3>2. /\ document' \in [Text -> [hash : Bytes \cup {NoBytes}, path : Ext \cup {NoExt}]]
      BY <1>t, <2>1, <3>1
    <3> QED  BY <1>t, <2>1, <3>2 DEF OriginalsTypeOK, Idle
  <2>4. Threads'
    BY <1>0, <1>t, <2>1 DEF Threads, Idle
  <2>5. InHand' \subseteq InHand /\ <<t, ExtOf[b]>> \in InHand
    BY <1>t, <2>0, <2>1 DEF InHand, Idle
  <2>6. \A f \in File : f \in Named' <=> document'[f[1]].path = f[2]
    <3>1. document' \in [Text -> [hash : Bytes \cup {NoBytes}, path : Ext \cup {NoExt}]]
      BY <2>3 DEF OriginalsTypeOK
    <3> QED  BY <3>1 DEF Named, Names, File
  <2>7. Named' \subseteq File /\ Condemned' = Condemned /\ OnDisk' = OnDisk
    <3>1. document' \in [Text -> [hash : Bytes \cup {NoBytes}, path : Ext \cup {NoExt}]]
      BY <2>3 DEF OriginalsTypeOK
    <3> QED  BY <2>1, <3>1 DEF Named, Names, File, Condemned, OnDisk
  <2>8. Named' \subseteq Named \cup (InHand \cap File)
    <3> SUFFICES ASSUME NEW f \in File, f \in Named', f \notin Named PROVE f \in InHand
      BY <2>7
    <3>1. document'[f[1]].path = f[2] /\ document[f[1]].path # f[2]
      BY <1>n, <2>6
    <3>2. f[1] \in Text /\ f[2] \in Ext /\ f = <<f[1], f[2]>>
      BY DEF File
    <3>3. f[1] = t /\ f[2] = Upserted(t, b).path
      BY <1>t, <2>1, <2>2, <3>1, <3>2
    <3>4. f[2] = ExtOf[b]
      BY <3>1, <3>3 DEF Upserted
    <3> QED  BY <2>5, <3>2, <3>3, <3>4
  <2>9. BytesKept'
    BY <1>0, <2>1, <2>7, <2>8 DEF BytesKept, HandIsFresh, OnDisk
  <2>10. HandIsFresh' /\ CondemnedIsFree'
    BY <1>0, <2>1, <2>5, <2>7, <2>8 DEF HandIsFresh, CondemnedIsFree
  <2> QED  BY <2>3, <2>4, <2>9, <2>10 DEF OriginalsIInv, OriginalsInv
<1>5. CASE Deletes
  <2>1. PICK T \in SUBSET {t \in Text : Live(t)}, commits \in BOOLEAN :
            /\ commits \/ trouble < MaxTrouble
            /\ Removes(T, commits)
            /\ trouble' = IF commits THEN trouble ELSE trouble + 1
    BY <1>5 DEF Deletes
  <2>2. doomed = {} /\ UNCHANGED <<upload, orphans, disk>> /\ trouble' \in 0 .. MaxTrouble
    BY <1>5, <1>t, <2>1 DEF Deletes, Removes
  <2>3. CASE ~commits
    <3>1. UNCHANGED <<document, doomed, overtaken>>
      BY <2>1, <2>3 DEF Removes
    <3>2. OriginalsTypeOK'
      BY <1>t, <2>2, <3>1 DEF OriginalsTypeOK
    <3> QED
      BY <1>0, <2>2, <3>1, <3>2
         DEF OriginalsIInv, OriginalsInv, BytesKept, Threads, HandIsFresh, CondemnedIsFree,
             Named, Names, OnDisk, InHand, Condemned
  <2>4. CASE commits
    <3>1. /\ document' = [t \in Text |-> IF t \in T THEN NoRow ELSE document[t]]
          /\ doomed' = UNION {Names(t) : t \in T}
          /\ overtaken' = (overtaken \ doomed') \cup (doomed' \cap InHand)
      BY <2>1, <2>4 DEF Removes
    <3>2. doomed' \subseteq File /\ \A f \in File : f \in doomed' <=> f[1] \in T /\ document[f[1]].path = f[2]
      BY <1>t, <3>1 DEF Names, File
    <3>3. document' \in [Text -> [hash : Bytes \cup {NoBytes}, path : Ext \cup {NoExt}]]
      BY <1>t, <3>1 DEF NoRow
    <3>4. OriginalsTypeOK'
      BY <1>t, <2>2, <3>1, <3>2, <3>3 DEF OriginalsTypeOK
    <3>5. InHand' = InHand /\ Threads'
      BY <1>0, <2>2 DEF InHand, Threads
    <3>6. Named' \subseteq File /\ \A f \in File : f \in Named' <=> document'[f[1]].path = f[2]
      BY <3>3 DEF Named, Names, File
    <3>7. Named' \subseteq Named \ doomed'
      <4> SUFFICES ASSUME NEW f \in File, f \in Named' PROVE f \in Named /\ f \notin doomed'
        BY <3>6
      <4>1. f[1] \in Text /\ f[2] \in Ext /\ document'[f[1]].path = f[2]
        BY <3>6 DEF File
      <4>2. f[1] \notin T /\ document[f[1]].path = f[2]
        BY <3>1, <4>1 DEF NoRow
      <4> QED  BY <1>n, <3>2, <4>2
    <3>8. OnDisk' = OnDisk
      BY <2>2 DEF OnDisk
    <3>9. BytesKept'
      BY <1>0, <3>1, <3>7, <3>8 DEF BytesKept
    <3>10. HandIsFresh'
      BY <1>0, <2>2, <3>1, <3>5 DEF HandIsFresh
    <3>11. CondemnedIsFree'
      <4>1. Condemned' = Condemned \cup doomed'
        BY <2>2 DEF Condemned
      <4> QED  BY <1>0, <3>1, <3>5, <3>7, <4>1 DEF CondemnedIsFree
    <3> QED  BY <3>4, <3>5, <3>9, <3>10, <3>11 DEF OriginalsIInv, OriginalsInv
  <2> QED  BY <2>3, <2>4
\* A condemned file goes, or stays where its removal failed.
<1>6. ASSUME NEW f \in Condemned, disk' = [disk EXCEPT ![f] = "none"] \/ disk' = disk,
             OriginalsTypeOK', Condemned' \subseteq Condemned,
             UNCHANGED <<document, upload, overtaken>>
      PROVE  OriginalsIInv'
  <2>1. Named' = Named /\ InHand' = InHand /\ Threads'
    BY <1>0, <1>6 DEF Named, Names, InHand, Threads
  <2>2. \A g \in File : disk'[g] = disk[g] \/ g = f
    BY <1>6, <1>t
  <2>3. f \in Named \cup InHand => f \in overtaken
    BY <1>0 DEF CondemnedIsFree
  <2>4. BytesKept'
    BY <1>0, <1>6, <1>n, <2>1, <2>2, <2>3 DEF BytesKept, OnDisk
  <2>5. HandIsFresh' /\ CondemnedIsFree'
    BY <1>0, <1>6, <2>1, <2>2, <2>3 DEF HandIsFresh, CondemnedIsFree
  <2> QED  BY <1>6, <2>1, <2>4, <2>5 DEF OriginalsIInv, OriginalsInv
<1>7. CASE Unlinks
  <2>0. PICK f \in doomed, unlinked \in BOOLEAN :
            /\ doomed' = doomed \ {f}
            /\ unlinked \/ trouble < MaxTrouble
            /\ disk' = IF unlinked THEN [disk EXCEPT ![f] = "none"] ELSE disk
            /\ trouble' = IF unlinked THEN trouble ELSE trouble + 1
    BY <1>7 DEF Unlinks
  <2>1. /\ doomed' = doomed \ {f}
        /\ disk' = [disk EXCEPT ![f] = "none"] \/ disk' = disk
        /\ trouble' \in 0 .. MaxTrouble
    BY <1>t, <2>0
  <2>2. UNCHANGED <<document, upload, orphans, overtaken>>
    BY <1>7 DEF Unlinks
  <2>3. disk' \in [File -> {"none", "fresh", "old"}]
    BY <1>t, <2>1
  <2>4. OriginalsTypeOK'
    BY <1>t, <2>1, <2>2, <2>3 DEF OriginalsTypeOK
  <2>5. f \in Condemned /\ Condemned' \subseteq Condemned
    BY <2>1, <2>2 DEF Condemned
  <2> QED  BY <1>6, <2>1, <2>2, <2>4, <2>5
<1>8. CASE Sweeps
  <2>0. PICK f \in orphans.files, unlinked \in BOOLEAN :
            /\ unlinked \/ trouble < MaxTrouble
            /\ disk' = IF unlinked THEN [disk EXCEPT ![f] = "none"] ELSE disk
            /\ trouble' = IF unlinked THEN trouble ELSE trouble + 1
            /\ orphans' = IF orphans.files = {f} THEN Resting
                          ELSE [orphans EXCEPT !.files = @ \ {f}]
    BY <1>8 DEF Sweeps
  <2>1. /\ disk' = [disk EXCEPT ![f] = "none"] \/ disk' = disk
        /\ trouble' \in 0 .. MaxTrouble
        /\ orphans' = IF orphans.files = {f} THEN Resting
                      ELSE [orphans EXCEPT !.files = @ \ {f}]
    BY <1>t, <2>0
  <2>2. orphans.at = "judged" /\ UNCHANGED <<document, upload, doomed, overtaken>>
    BY <1>8 DEF Sweeps
  <2>3. disk' \in [File -> {"none", "fresh", "old"}]
    BY <1>t, <2>1
  <2>4. orphans' \in [at : {"resting", "listed", "judged"}, files : SUBSET File]
        /\ orphans'.files \subseteq orphans.files
    BY <1>t, <2>1 DEF Resting
  <2>5. OriginalsTypeOK'
    BY <1>t, <2>1, <2>2, <2>3, <2>4 DEF OriginalsTypeOK
  <2>6. f \in Condemned /\ Condemned' \subseteq Condemned
    BY <2>1, <2>2, <2>4 DEF Condemned
  <2> QED  BY <1>6, <2>1, <2>2, <2>5, <2>6
<1>9. ASSUME NEW f \in File, Ages(f) PROVE OriginalsIInv'
  <2>1. /\ disk[f] = "fresh" /\ f \notin InHand /\ disk' = [disk EXCEPT ![f] = "old"]
        /\ UNCHANGED <<document, upload, doomed, orphans, overtaken, trouble>>
    BY <1>9 DEF Ages
  <2>2. OriginalsTypeOK'
    BY <1>t, <2>1 DEF OriginalsTypeOK
  <2>3. Named' = Named /\ InHand' = InHand /\ Condemned' = Condemned /\ Threads'
    BY <1>0, <2>1 DEF Named, Names, InHand, Condemned, Threads
  <2>4. \A g \in File : disk'[g] = IF g = f THEN "old" ELSE disk[g]
    BY <1>t, <2>1
  <2>5. BytesKept' /\ HandIsFresh' /\ CondemnedIsFree'
    BY <1>0, <2>1, <2>3, <2>4 DEF BytesKept, OnDisk, HandIsFresh, CondemnedIsFree
  <2> QED  BY <2>2, <2>3, <2>5 DEF OriginalsIInv, OriginalsInv
<1>10. CASE Lists
  <2>1. /\ orphans = Resting
        /\ orphans' = [at |-> "listed", files |-> {f \in File : disk[f] = "old"}]
        /\ UNCHANGED <<document, disk, upload, doomed, overtaken, trouble>>
    BY <1>10 DEF Lists
  <2>2. OriginalsTypeOK'
    BY <1>t, <2>1 DEF OriginalsTypeOK
  <2>3. Named' = Named /\ InHand' = InHand /\ Condemned' = Condemned /\ Threads' /\ OnDisk' = OnDisk
    BY <1>0, <2>1 DEF Named, Names, InHand, Condemned, Threads, OnDisk, Resting
  <2> QED
    BY <1>0, <2>1, <2>2, <2>3
       DEF OriginalsIInv, OriginalsInv, BytesKept, HandIsFresh, CondemnedIsFree
<1>11. CASE Judges
  <2>0. PICK gone : gone = orphans.files \ Spares(orphans.files)
    OBVIOUS
  <2>1. /\ orphans.at = "listed"
        /\ orphans' = IF gone = {} THEN Resting ELSE [at |-> "judged", files |-> gone]
        /\ overtaken' = overtaken \cup {f \in gone : disk[f] = "fresh"}
        /\ UNCHANGED <<document, disk, upload, doomed, trouble>>
    BY <1>11, <2>0 DEF Judges
  <2>2. gone \subseteq File /\ gone \cap Named = {}
    BY <1>t, <2>0 DEF Spares
  <2>3. OriginalsTypeOK'
    <3>1. orphans' \in [at : {"resting", "listed", "judged"}, files : SUBSET File]
      BY <2>1, <2>2 DEF Resting
    <3> QED  BY <1>t, <2>1, <2>2, <3>1 DEF OriginalsTypeOK
  <2>4. Named' = Named /\ InHand' = InHand /\ Threads' /\ OnDisk' = OnDisk
    BY <1>0, <2>1 DEF Named, Names, InHand, Threads, OnDisk
  <2>5. Condemned' \subseteq doomed \cup gone /\ Condemned = doomed
    BY <2>1 DEF Condemned, Resting
  <2>6. CondemnedIsFree'
    <3> SUFFICES ASSUME NEW f \in gone, f \in InHand PROVE f \in overtaken'
      BY <1>0, <2>1, <2>2, <2>4, <2>5 DEF CondemnedIsFree
    <3> QED  BY <1>0, <2>1, <2>2 DEF HandIsFresh
  <2>7. BytesKept' /\ HandIsFresh'
    BY <1>0, <2>1, <2>4 DEF BytesKept, HandIsFresh
  <2> QED  BY <2>3, <2>4, <2>6, <2>7 DEF OriginalsIInv, OriginalsInv
<1>12. CASE Dies
  <2>1. /\ upload' = [u \in Uploader |-> Idle] /\ doomed' = {} /\ orphans' = Resting
        /\ trouble' \in 0 .. MaxTrouble
        /\ UNCHANGED <<document, disk, overtaken>>
    BY <1>12, <1>t DEF Dies
  <2>2. OriginalsTypeOK'
    <3>1. orphans' \in [at : {"resting", "listed", "judged"}, files : SUBSET File]
      BY <2>1 DEF Resting
    <3>2. upload' \in [Uploader -> [at : {"idle", "merging", "new", "written"},
                                 bytes : Bytes \cup {NoBytes}, text : Text \cup {NoText}]]
      BY <2>1 DEF Idle
    <3> QED  BY <1>t, <2>1, <3>1, <3>2 DEF OriginalsTypeOK
  <2>3. InHand' = {} /\ Condemned' = {} /\ Threads'
    BY <2>1 DEF InHand, Condemned, Threads, Idle, Resting
  <2>4. Named' = Named /\ OnDisk' = OnDisk
    BY <2>1 DEF Named, Names, OnDisk
  <2> QED
    BY <1>0, <2>1, <2>2, <2>3, <2>4
       DEF OriginalsIInv, OriginalsInv, BytesKept, HandIsFresh, CondemnedIsFree
<1>13. CASE UNCHANGED originalsVars
  <2>1. UNCHANGED <<document, disk, upload, doomed, orphans, overtaken, trouble>>
    BY <1>13 DEF originalsVars
  <2> QED
    BY <1>0, <2>1
       DEF OriginalsIInv, OriginalsInv, OriginalsTypeOK, BytesKept, Threads, HandIsFresh,
           CondemnedIsFree, Named, Names, OnDisk, InHand, Condemned
<1> QED
  BY <1>1, <1>2, <1>3, <1>4, <1>5, <1>7, <1>8, <1>9, <1>10, <1>11, <1>12, <1>13 DEF OriginalsNext

(***************************************************************************)
(* A document that is listed has its original, whatever uploads, deletions *)
(* and sweeps meet, unless an upload had it in hand when it was condemned. *)
(***************************************************************************)
THEOREM OriginalsAreKept == OriginalsSpec => []OriginalsInv
<1>1. OriginalsSpec => []OriginalsIInv
  BY InitOriginals, StepOriginals, PTL DEF OriginalsSpec
<1>2. OriginalsIInv => OriginalsInv
  BY DEF OriginalsIInv
<1> QED  BY <1>1, <1>2, PTL
-----------------------------------------------------------------------------
(***************************************************************************)
(* Goals.  GoalsInv is inductive.                                          *)
(***************************************************************************)
LEMMA InitGoals == GoalsInit => GoalsInv
<1> SUFFICES ASSUME GoalsInit PROVE GoalsInv
  OBVIOUS
<1> USE GoalsAssumption DEF GoalsInit
<1>1. DOMAIN goals = {}
  OBVIOUS
<1>2. GoalsTypeOK
  BY <1>1 DEF GoalsTypeOK
<1>3. CountIsToday /\ CyclesCapped /\ ActiveGoalsWake /\ CarryIsUnreported
  BY <1>1 DEF CountIsToday, CyclesCapped, ActiveGoalsWake, ActiveGoals, CarryIsUnreported
<1> QED  BY <1>1, <1>2, <1>3 DEF GoalsInv

(* A record is written over; the other goals stay as they are.  What the   *)
(* written goal's cycle carries afterwards has to be what it says.         *)
LEMMA Rewrites ==
    ASSUME GoalsInv, NEW g \in DOMAIN goals, NEW r \in GoalRecord, Mutate(g, r),
           queued' \subseteq Goal, queued \subseteq queued',
           r.status = "active" => g \in queued' \/ goals[g].status = "active",
           cycle' \in [Goal -> Cycle \cup {Rest}], owed' \in [Goal -> SUBSET Item],
           cycles' \in [Goal -> Nat], awake' = awake, held' = held, known' = known,
           \A h \in Goal \ {g} : /\ cycle'[h] = cycle[h] /\ owed'[h] = owed[h]
                                 /\ cycles'[h] = cycles[h],
           cycles'[g] = Today(r), cycles'[g] <= MaxCycles,
           cycle'[g] # Rest =>
               /\ cycle'[g].carry = r.unreported
               /\ cycle'[g].at # "working" => cycle'[g].carry \subseteq cycle'[g].report
               /\ cycle'[g].at = "reported" => cycle'[g].report \cap owed'[g] = {}
    PROVE  GoalsInv'
<1> USE GoalsAssumption DEF GoalsInv
<1>1. /\ DOMAIN goals' = DOMAIN goals /\ DOMAIN goals \subseteq Goal
      /\ \A h \in DOMAIN goals : goals'[h] = IF h = g THEN r ELSE goals[h]
  BY DEF Mutate, GoalsTypeOK
<1>2. GoalsTypeOK'
  BY <1>1 DEF GoalsTypeOK
<1>3. CountIsToday' /\ CyclesCapped'
  BY <1>1 DEF CountIsToday, CyclesCapped, Today
<1>4. ActiveGoalsWake'
  BY <1>1 DEF ActiveGoalsWake, ActiveGoals
<1>5. CarryIsUnreported'
  BY <1>1 DEF CarryIsUnreported
<1>6. \A h \in Goal \ DOMAIN goals' : cycles'[h] = 0
  BY <1>1
<1> QED  BY <1>2, <1>3, <1>4, <1>5, <1>6

(* The steps that write no record, and neither count nor begin a cycle.    *)
LEMMA Idles ==
    ASSUME GoalsInv, goals' = goals, cycles' = cycles, awake' = awake,
           queued' \subseteq queued, awake => ActiveGoals \subseteq queued',
           held' \in BOOLEAN, known' \in BOOLEAN,
           cycle' \in [Goal -> Cycle \cup {Rest}], owed' \in [Goal -> SUBSET Item],
           \A h \in Goal : owed'[h] \subseteq owed[h],
           \A h \in Goal : \/ cycle'[h] = cycle[h]
                           \/ cycle'[h] = Rest
                           \/ /\ cycle[h] # Rest /\ cycle[h].at # "working"
                              /\ cycle'[h].carry = cycle[h].carry
                              /\ cycle'[h].report = cycle[h].report
                              /\ cycle'[h].report \cap owed'[h] = {}
    PROVE  GoalsInv'
<1> USE GoalsAssumption DEF GoalsInv
<1>1. GoalsTypeOK'
  BY DEF GoalsTypeOK
<1>2. CountIsToday' /\ CyclesCapped'
  BY DEF CountIsToday, CyclesCapped, Today
<1>3. ActiveGoalsWake'
  BY DEF ActiveGoalsWake, ActiveGoals
<1>4. CarryIsUnreported'
  <2> SUFFICES ASSUME NEW h \in Goal, cycle'[h] # Rest
               PROVE  /\ h \in DOMAIN goals
                      /\ cycle'[h].carry = goals[h].unreported
                      /\ cycle'[h].at # "working" => cycle'[h].carry \subseteq cycle'[h].report
                      /\ cycle'[h].at = "reported" => cycle'[h].report \cap owed'[h] = {}
    BY DEF CarryIsUnreported
  <2>1. CASE cycle'[h] = cycle[h]
    BY <2>1 DEF CarryIsUnreported
  <2>2. CASE cycle'[h] # cycle[h]
    BY <2>2 DEF CarryIsUnreported
  <2> QED  BY <2>1, <2>2
<1> QED  BY <1>1, <1>2, <1>3, <1>4

LEMMA StepGoals == GoalsInv /\ [GoalsNext]_goalVars => GoalsInv'
<1> SUFFICES ASSUME GoalsInv, [GoalsNext]_goalVars PROVE GoalsInv'
  OBVIOUS
<1> USE GoalsAssumption
<1>t. /\ DOMAIN goals \subseteq Goal
      /\ \A g \in DOMAIN goals : goals[g] \in GoalRecord
      /\ queued \subseteq Goal
      /\ cycle \in [Goal -> Cycle \cup {Rest}]
      /\ awake \in BOOLEAN /\ held \in BOOLEAN /\ known \in BOOLEAN
      /\ cycles \in [Goal -> Nat]
      /\ owed \in [Goal -> SUBSET Item]
  BY DEF GoalsInv, GoalsTypeOK
<1>c. \A g \in DOMAIN goals : cycles[g] = Today(goals[g]) /\ cycles[g] <= MaxCycles
  BY <1>t DEF GoalsInv, CountIsToday, CyclesCapped
<1>u. \A g \in Goal : cycle[g] # Rest =>
        /\ g \in DOMAIN goals
        /\ cycle[g].carry = goals[g].unreported
        /\ cycle[g].at # "working" => cycle[g].carry \subseteq cycle[g].report
        /\ cycle[g].at = "reported" => cycle[g].report \cap owed[g] = {}
  BY DEF GoalsInv, CarryIsUnreported
<1>1. ASSUME NEW g \in Goal, NEW steps \in SUBSET GoalStep, CreateGoal(g, steps) PROVE GoalsInv'
  <2>1. /\ g \notin DOMAIN goals
        /\ goals' = [h \in DOMAIN goals \cup {g} |-> IF h = g THEN NewGoal(steps) ELSE goals[h]]
        /\ queued' = queued \cup {g}
        /\ UNCHANGED <<cycle, awake, held, known, cycles, owed>>
    BY <1>1 DEF CreateGoal, Enqueue
  <2>2. NewGoal(steps) \in GoalRecord /\ Today(NewGoal(steps)) = 0
    BY DEF NewGoal, GoalRecord, Today
  <2>3. /\ DOMAIN goals' = DOMAIN goals \cup {g}
        /\ \A h \in DOMAIN goals' : goals'[h] = IF h = g THEN NewGoal(steps) ELSE goals[h]
    BY <2>1
  <2>4. GoalsTypeOK'
    BY <1>t, <2>1, <2>2, <2>3 DEF GoalsTypeOK
  <2>5. CountIsToday' /\ CyclesCapped'
    <3>1. cycles[g] = 0
      BY <2>1 DEF GoalsInv
    <3> QED  BY <1>c, <2>1, <2>2, <2>3, <3>1 DEF GoalsInv, CountIsToday, CyclesCapped, Today
  <2>6. ActiveGoalsWake'
    BY <2>1, <2>3 DEF GoalsInv, ActiveGoalsWake, ActiveGoals
  <2>7. CarryIsUnreported'
    BY <1>u, <2>1, <2>3 DEF CarryIsUnreported
  <2>8. \A h \in Goal \ DOMAIN goals' : cycles'[h] = 0
    BY <2>1, <2>3 DEF GoalsInv
  <2> QED  BY <2>4, <2>5, <2>6, <2>7, <2>8 DEF GoalsInv
<1>2. ASSUME NEW g \in Goal, NEW st \in {"active", "paused", "done"}, SetStatus(g, st) PROVE GoalsInv'
  <2>0. PICK r : r = [goals[g] EXCEPT !.status = st]
    OBVIOUS
  <2>1. /\ g \in DOMAIN goals /\ Mutate(g, r)
        /\ queued' = IF st = "active" THEN queued \cup {g} ELSE queued
        /\ UNCHANGED <<cycle, awake, held, known, cycles, owed>>
    BY <1>2, <2>0 DEF SetStatus, Enqueue
  <2>2. r \in GoalRecord /\ r.status = st /\ r.unreported = goals[g].unreported /\ Today(r) = Today(goals[g])
    BY <1>t, <2>0, <2>1 DEF GoalRecord, Today
  <2> QED  BY <1>t, <1>c, <1>u, <2>1, <2>2, Rewrites
<1>3. ASSUME NEW g \in Goal, NEW s \in GoalStep, UpdateGoal(g, s) PROVE GoalsInv'
  <2>1. PICK r \in GoalRecord :
            /\ Mutate(g, r) /\ r.status = goals[g].status /\ r.unreported = goals[g].unreported
            /\ r.count = goals[g].count /\ r.today = goals[g].today
    <3>1. g \in DOMAIN goals /\ goals[g] \in GoalRecord
      BY <1>3, <1>t DEF UpdateGoal
    <3>2. CASE Mutate(g, [goals[g] EXCEPT !.open = @ \ {s}, !.closed = @ \cup {s}])
      <4>1. [goals[g] EXCEPT !.open = @ \ {s}, !.closed = @ \cup {s}] \in GoalRecord
        BY <3>1 DEF GoalRecord
      <4> QED  BY <3>1, <3>2, <4>1 DEF GoalRecord
    <3>3. CASE Mutate(g, [goals[g] EXCEPT !.closed = @ \ {s}, !.open = @ \cup {s}])
      <4>1. [goals[g] EXCEPT !.closed = @ \ {s}, !.open = @ \cup {s}] \in GoalRecord
        BY <3>1 DEF GoalRecord
      <4> QED  BY <3>1, <3>3, <4>1 DEF GoalRecord
    <3>4. CASE Mutate(g, [goals[g] EXCEPT !.open = @ \cup {s}])
      <4>1. [goals[g] EXCEPT !.open = @ \cup {s}] \in GoalRecord
        BY <3>1 DEF GoalRecord
      <4> QED  BY <3>1, <3>4, <4>1 DEF GoalRecord
    <3> QED  BY <1>3, <3>2, <3>3, <3>4 DEF UpdateGoal
  <2>2. g \in DOMAIN goals /\ UNCHANGED <<queued, cycle, awake, held, known, cycles, owed>>
    BY <1>3 DEF UpdateGoal
  <2>3. Today(r) = Today(goals[g])
    BY <2>1 DEF Today
  <2> QED  BY <1>t, <1>c, <1>u, <2>1, <2>2, <2>3, Rewrites
<1>4. ASSUME NEW g \in Goal, CycleSkipped(g) PROVE GoalsInv'
  <2>1. /\ g \notin ActiveGoals /\ queued' = queued \ {g}
        /\ UNCHANGED <<goals, cycle, awake, held, known, cycles, owed>>
    BY <1>4 DEF CycleSkipped
  <2>2. awake => ActiveGoals \subseteq queued'
    BY <2>1 DEF GoalsInv, ActiveGoalsWake
  <2> QED  BY <1>t, <2>1, <2>2, Idles
<1>5. ASSUME NEW g \in Goal, CycleHeld(g) \/ CycleBegins(g) PROVE GoalsInv'
  <2>0. PICK r : r = [goals[g] EXCEPT !.count = Today(goals[g]) + 1, !.today = TRUE]
    OBVIOUS
  <2>1. /\ g \in ActiveGoals /\ g \in queued /\ cycle[g] = Rest /\ Today(goals[g]) < MaxCycles
        /\ Mutate(g, r) /\ cycles' = [cycles EXCEPT ![g] = @ + 1]
        /\ UNCHANGED <<queued, awake, held, known, owed>>
    BY <1>5, <2>0 DEF CycleHeld, CycleBegins, Counted, Comes
  <2>2. g \in DOMAIN goals /\ goals[g] \in GoalRecord
    BY <1>t, <2>1 DEF ActiveGoals
  <2>3. Today(goals[g]) \in Nat
    BY <1>t, <1>c, <2>2
  <2>4. /\ r \in GoalRecord /\ r.unreported = goals[g].unreported
        /\ Today(r) = Today(goals[g]) + 1
    <3>1. Today(goals[g]) + 1 \in 0 .. MaxCycles
      BY <2>1, <2>3
    <3> QED  BY <2>0, <2>2, <3>1 DEF GoalRecord, Today
  <2>5. /\ cycles' \in [Goal -> Nat] /\ cycles'[g] = Today(r) /\ cycles'[g] <= MaxCycles
        /\ \A h \in Goal \ {g} : cycles'[h] = cycles[h]
    BY <1>t, <1>c, <2>1, <2>2, <2>3, <2>4
  <2>6. \/ cycle' = cycle
        \/ cycle' = [cycle EXCEPT ![g] = [at |-> "working", journal |-> goals[g].journal,
                                          carry |-> goals[g].unreported]]
    BY <1>5 DEF CycleHeld, CycleBegins
  <2>7. CASE cycle' = cycle
    BY <1>t, <2>1, <2>2, <2>4, <2>5, <2>7, Rewrites
  <2>8. CASE cycle' # cycle
    <3>1. PICK c : c = [at |-> "working", journal |-> goals[g].journal,
                        carry |-> goals[g].unreported]
      OBVIOUS
    <3>2. c \in Cycle /\ c.carry = r.unreported /\ c.at = "working"
      BY <2>2, <2>4, <3>1 DEF Cycle, GoalRecord
    <3>3. cycle' = [cycle EXCEPT ![g] = c]
      BY <2>6, <2>8, <3>1
    <3>4. /\ cycle' \in [Goal -> Cycle \cup {Rest}] /\ cycle'[g] = c
          /\ \A h \in Goal \ {g} : cycle'[h] = cycle[h]
      BY <1>t, <3>2, <3>3
    <3> QED  BY <1>t, <2>1, <2>2, <2>4, <2>5, <3>2, <3>4, Rewrites
  <2> QED  BY <2>7, <2>8
<1>6. ASSUME NEW g \in Goal, CycleEnds(g) \/ ReportRaises(g) PROVE GoalsInv'
  <2>1. /\ cycle' = [cycle EXCEPT ![g] = Rest]
        /\ UNCHANGED <<goals, queued, awake, held, known, cycles, owed>>
    BY <1>6 DEF CycleEnds, ReportRaises
  <2>2. awake => ActiveGoals \subseteq queued'
    BY <2>1 DEF GoalsInv, ActiveGoalsWake
  <2>3. /\ cycle' \in [Goal -> Cycle \cup {Rest}]
        /\ \A h \in Goal : cycle'[h] = cycle[h] \/ cycle'[h] = Rest
    BY <1>t, <2>1
  <2> QED  BY <1>t, <2>1, <2>2, <2>3, Idles
<1>7. ASSUME NEW g \in Goal, Finds(g) PROVE GoalsInv'
  <2>1. PICK x \in Finding \cup {NoFind},
             done \in {{}} \cup {{s} : s \in goals[g].open},
             add \in SUBSET (GoalStep \ (goals[g].open \cup goals[g].closed)) :
                CycleFinds(g, x, done, add)
    BY <1>7 DEF Finds
  <2>2. PICK unseen, fresh, r :
            /\ unseen = {x} \ (cycle[g].journal \cup {NoFind})
            /\ fresh = unseen \cup Notes(done, add)
            /\ r = Applied(goals[g], done, add, unseen)
    OBVIOUS
  <2>3. PICK c : c = [at |-> "reporting", report |-> Report(g, fresh), carry |-> cycle[g].carry]
    OBVIOUS
  <2>4. /\ cycle[g].at = "working" /\ Mutate(g, r)
        /\ owed' = [owed EXCEPT ![g] = @ \cup fresh]
        /\ cycle' = [cycle EXCEPT ![g] = c]
        /\ UNCHANGED <<queued, awake, held, known, cycles>>
    BY <2>1, <2>2, <2>3 DEF CycleFinds
  <2>5. /\ cycle[g] # Rest /\ g \in DOMAIN goals /\ goals[g] \in GoalRecord
        /\ cycle[g] \in Cycle /\ cycle[g].carry = goals[g].unreported
    BY <1>t, <1>u, <2>4 DEF Rest
  <2>6. unseen \subseteq Finding /\ done \subseteq GoalStep /\ add \subseteq GoalStep
    <3>1. x # NoFind => x \in Finding
      OBVIOUS
    <3>2. done \subseteq goals[g].open /\ goals[g].open \subseteq GoalStep
      BY <2>5 DEF GoalRecord
    <3> QED  BY <2>2, <3>1, <3>2
  <2>7. fresh \subseteq Item
    BY <2>2, <2>6 DEF Notes, Item, Note
  <2>8. /\ r \in GoalRecord /\ r.unreported = goals[g].unreported /\ r.status = goals[g].status
        /\ Today(r) = Today(goals[g])
    BY <2>2, <2>5, <2>6 DEF Applied, GoalRecord, Today
  <2>9. /\ c \in Cycle /\ c.at = "reporting" /\ c.carry = goals[g].unreported
        /\ c.carry \subseteq c.report
    <3>1. cycle[g].carry \subseteq Item
      BY <2>5 DEF GoalRecord
    <3> QED  BY <2>3, <2>5, <2>7, <3>1 DEF Cycle, Report
  <2>10. /\ cycle' \in [Goal -> Cycle \cup {Rest}] /\ cycle'[g] = c
         /\ owed' \in [Goal -> SUBSET Item]
         /\ \A h \in Goal \ {g} : cycle'[h] = cycle[h] /\ owed'[h] = owed[h]
    BY <1>t, <2>4, <2>7, <2>9
  <2> QED  BY <1>t, <1>c, <2>4, <2>5, <2>8, <2>9, <2>10, Rewrites
<1>8. ASSUME NEW g \in Goal, ReportArrives(g) PROVE GoalsInv'
  <2>0. PICK c : c = [cycle[g] EXCEPT !.at = "reported"]
    OBVIOUS
  <2>1. /\ cycle[g].at = "reporting" /\ cycle' = [cycle EXCEPT ![g] = c]
        /\ owed' = [owed EXCEPT ![g] = @ \ cycle[g].report]
        /\ UNCHANGED <<goals, queued, awake, held, known, cycles>>
    BY <1>8, <2>0, <1>t DEF ReportArrives
  <2>2. cycle[g] # Rest /\ cycle[g] \in [at : {"reporting", "reported"}, report : SUBSET Item, carry : SUBSET Item]
    BY <1>t, <2>1 DEF Rest, Cycle
  <2>3. c \in Cycle /\ c.carry = cycle[g].carry /\ c.report = cycle[g].report
    BY <2>0, <2>2 DEF Cycle
  <2>4. /\ cycle' \in [Goal -> Cycle \cup {Rest}] /\ cycle'[g] = c
        /\ owed' \in [Goal -> SUBSET Item] /\ owed'[g] = owed[g] \ cycle[g].report
        /\ \A h \in Goal \ {g} : cycle'[h] = cycle[h] /\ owed'[h] = owed[h]
    BY <1>t, <2>1, <2>3
  <2>5. awake => ActiveGoals \subseteq queued'
    BY <2>1 DEF GoalsInv, ActiveGoalsWake
  <2>6. \A h \in Goal : /\ owed'[h] \subseteq owed[h]
                        /\ \/ cycle'[h] = cycle[h]
                           \/ cycle'[h] = Rest
                           \/ /\ cycle[h] # Rest /\ cycle[h].at # "working"
                              /\ cycle'[h].carry = cycle[h].carry
                              /\ cycle'[h].report = cycle[h].report
                              /\ cycle'[h].report \cap owed'[h] = {}
    BY <2>1, <2>2, <2>3, <2>4
  <2> QED  BY <1>t, <2>1, <2>4, <2>5, <2>6, Idles
<1>9. ASSUME NEW g \in Goal, ReportDropped(g) PROVE GoalsInv'
  <2>0. PICK r : r = [goals[g] EXCEPT !.unreported = cycle[g].report]
    OBVIOUS
  <2>1. /\ cycle[g].at = "reporting" /\ Mutate(g, r) /\ cycle' = [cycle EXCEPT ![g] = Rest]
        /\ UNCHANGED <<queued, awake, held, known, cycles, owed>>
    BY <1>9, <2>0 DEF ReportDropped
  <2>2. cycle[g] # Rest /\ cycle[g].report \in SUBSET Item /\ g \in DOMAIN goals /\ goals[g] \in GoalRecord
    BY <1>t, <1>u, <2>1 DEF Rest, Cycle
  <2>3. r \in GoalRecord /\ r.status = goals[g].status /\ Today(r) = Today(goals[g])
    BY <2>0, <2>2 DEF GoalRecord, Today
  <2>4. /\ cycle' \in [Goal -> Cycle \cup {Rest}] /\ cycle'[g] = Rest
        /\ \A h \in Goal \ {g} : cycle'[h] = cycle[h]
    BY <1>t, <2>1
  <2> QED  BY <1>t, <1>c, <2>1, <2>2, <2>3, <2>4, Rewrites
<1>10. ASSUME NEW g \in Goal, ReportReturns(g) PROVE GoalsInv'
  <2>1. /\ cycle[g].at = "reported" /\ cycle' = [cycle EXCEPT ![g] = Rest]
        /\ UNCHANGED <<queued, awake, held, known, cycles, owed>>
    BY <1>10 DEF ReportReturns
  <2>2. cycle[g] # Rest /\ g \in DOMAIN goals /\ goals[g] \in GoalRecord
    BY <1>t, <1>u, <2>1 DEF Rest
  <2>3. /\ cycle' \in [Goal -> Cycle \cup {Rest}] /\ cycle'[g] = Rest
        /\ \A h \in Goal \ {g} : cycle'[h] = cycle[h]
    BY <1>t, <2>1
  <2>4. CASE goals' = goals
    <3>1. awake => ActiveGoals \subseteq queued'
      BY <2>1 DEF GoalsInv, ActiveGoalsWake
    <3>2. \A h \in Goal : cycle'[h] = cycle[h] \/ cycle'[h] = Rest
      BY <2>3
    <3> QED  BY <1>t, <2>1, <2>3, <2>4, <3>1, <3>2, Idles
  <2>5. CASE Mutate(g, [goals[g] EXCEPT !.unreported = {}])
    <3>0. PICK r : r = [goals[g] EXCEPT !.unreported = {}]
      OBVIOUS
    <3>1. Mutate(g, r) /\ r \in GoalRecord /\ r.status = goals[g].status /\ Today(r) = Today(goals[g])
      BY <2>2, <2>5, <3>0 DEF GoalRecord, Today
    <3> QED  BY <1>t, <1>c, <2>1, <2>2, <2>3, <3>1, Rewrites
  <2> QED  BY <1>10, <2>4, <2>5 DEF ReportReturns
<1>11. CASE Midnight
  <2>1. /\ goals' = [g \in DOMAIN goals |-> [goals[g] EXCEPT !.today = FALSE]]
        /\ cycles' = [g \in Goal |-> 0]
        /\ UNCHANGED <<queued, cycle, awake, held, known, owed>>
    BY <1>11 DEF Midnight
  <2>2. /\ DOMAIN goals' = DOMAIN goals
        /\ \A g \in DOMAIN goals : /\ goals'[g] \in GoalRecord /\ goals'[g].status = goals[g].status
                                   /\ goals'[g].unreported = goals[g].unreported
                                   /\ Today(goals'[g]) = 0
    <3>1. ASSUME NEW g \in DOMAIN goals
          PROVE  LET r == [goals[g] EXCEPT !.today = FALSE]
                 IN  /\ r \in GoalRecord /\ r.status = goals[g].status
                     /\ r.unreported = goals[g].unreported /\ Today(r) = 0
      <4>1. goals[g] \in GoalRecord
        BY <1>t
      <4> QED  BY <4>1 DEF GoalRecord, Today
    <3>2. \A g \in DOMAIN goals : goals'[g] = [goals[g] EXCEPT !.today = FALSE]
      BY <2>1
    <3>3. DOMAIN goals' = DOMAIN goals
      BY <2>1
    <3> QED  BY <3>1, <3>2, <3>3
  <2>3. GoalsTypeOK'
    BY <1>t, <2>1, <2>2 DEF GoalsTypeOK
  <2>4. CountIsToday' /\ CyclesCapped' /\ \A g \in Goal \ DOMAIN goals' : cycles'[g] = 0
    BY <1>t, <2>1, <2>2 DEF CountIsToday, CyclesCapped, Today
  <2>5. ActiveGoalsWake' /\ CarryIsUnreported'
    BY <1>u, <2>1, <2>2 DEF GoalsInv, ActiveGoalsWake, ActiveGoals, CarryIsUnreported
  <2> QED  BY <2>3, <2>4, <2>5 DEF GoalsInv
<1>12. CASE GoalsHalt \/ GoalsBoot
  <2>1. /\ UNCHANGED <<goals, held, known, cycles>> /\ awake' \in BOOLEAN
        /\ queued' = {} \/ queued' = ActiveGoals
        /\ awake' => queued' = ActiveGoals
        /\ cycle' = cycle \/ cycle' = [g \in Goal |-> Rest]
    BY <1>12 DEF GoalsHalt, GoalsBoot
  <2>2. owed' \in [Goal -> SUBSET Item]
    BY <1>12, <1>t DEF GoalsHalt, GoalsBoot
  <2>3. (cycle' = cycle /\ owed' = owed) \/ \A g \in Goal : cycle'[g] = Rest
    BY <1>12 DEF GoalsHalt, GoalsBoot
  <2>4. GoalsTypeOK'
    <3>1. queued' \subseteq Goal
      BY <1>t, <2>1 DEF ActiveGoals
    <3>2. cycle' \in [Goal -> Cycle \cup {Rest}]
      BY <1>t, <2>1
    <3> QED  BY <1>t, <2>1, <2>2, <3>1, <3>2 DEF GoalsTypeOK
  <2>5. CountIsToday' /\ CyclesCapped' /\ \A g \in Goal \ DOMAIN goals' : cycles'[g] = 0
    BY <1>t, <1>c, <2>1 DEF GoalsInv, CountIsToday, CyclesCapped, Today
  <2>6. ActiveGoalsWake' /\ CarryIsUnreported'
    BY <1>u, <2>1, <2>3 DEF ActiveGoalsWake, ActiveGoals, CarryIsUnreported
  <2> QED  BY <2>4, <2>5, <2>6 DEF GoalsInv
<1>13. CASE Surroundings \/ (\E g \in Goal : CycleCapped(g)) \/ UNCHANGED goalVars
  <2>1. /\ UNCHANGED <<goals, queued, cycle, awake, cycles, owed>>
        /\ held' \in BOOLEAN /\ known' \in BOOLEAN
    BY <1>13, <1>t DEF Surroundings, CycleCapped, goalVars
  <2>2. awake => ActiveGoals \subseteq queued'
    BY <2>1 DEF GoalsInv, ActiveGoalsWake
  <2> QED  BY <1>t, <2>1, <2>2, Idles
<1> QED
  BY <1>1, <1>2, <1>3, <1>4, <1>5, <1>6, <1>7, <1>8, <1>9, <1>10, <1>11, <1>12, <1>13
     DEF GoalsNext, Comings, Reports

(***************************************************************************)
(* The cadence of a goal never ends while it is active, no goal has more   *)
(* cycles a day than the code allows, and what a cycle carries is what the *)
(* record still holds, for any number of goals and however often they are  *)
(* paused, resumed, or re-armed by a restart.                              *)
(***************************************************************************)
THEOREM GoalsKeepTheirCadence == GoalsSpec => []GoalsInv
BY InitGoals, StepGoals, PTL DEF GoalsSpec

(***************************************************************************)
(* What was marked unreported stays marked until the chat got it.          *)
(***************************************************************************)
THEOREM FindingsStayMarked == GoalsSpec => UnreportedTold
<1>1. ASSUME GoalsInv, [GoalsNext]_goalVars
      PROVE  [\A g \in DOMAIN goals :
                 goals[g].unreported \cap owed[g] \subseteq goals'[g].unreported]_goalVars
  <2> SUFFICES ASSUME GoalsNext, NEW g \in DOMAIN goals
               PROVE  goals[g].unreported \cap owed[g] \subseteq goals'[g].unreported
    BY <1>1
  <2>1. /\ DOMAIN goals \subseteq Goal /\ \A h \in DOMAIN goals : goals[h] \in GoalRecord
        /\ cycle \in [Goal -> Cycle \cup {Rest}]
    BY <1>1 DEF GoalsInv, GoalsTypeOK
  <2>2. \A h \in Goal : cycle[h] # Rest =>
        /\ cycle[h].carry = goals[h].unreported
        /\ cycle[h].at # "working" => cycle[h].carry \subseteq cycle[h].report
        /\ cycle[h].at = "reported" => cycle[h].report \cap owed[h] = {}
    BY <1>1 DEF GoalsInv, CarryIsUnreported
  <2>3. CASE goals'[g].unreported = goals[g].unreported
    BY <2>3
  <2>4. ASSUME NEW h \in Goal, ReportDropped(h) PROVE goals[g].unreported \subseteq goals'[g].unreported
    <3>1. cycle[h] # Rest /\ cycle[h].at = "reporting"
      BY <2>4 DEF ReportDropped, Rest
    <3>2. goals' = [goals EXCEPT ![h] = [goals[h] EXCEPT !.unreported = cycle[h].report]]
      BY <2>4 DEF ReportDropped, Mutate
    <3>3. goals'[g].unreported = IF g = h THEN cycle[h].report ELSE goals[g].unreported
      BY <2>1, <3>2 DEF GoalRecord
    <3> QED  BY <2>2, <3>1, <3>3
  <2>5. ASSUME NEW h \in Goal, ReportReturns(h)
        PROVE  goals[g].unreported \cap owed[g] \subseteq goals'[g].unreported
    <3>1. cycle[h] # Rest /\ cycle[h].at = "reported"
      BY <2>5 DEF ReportReturns, Rest
    <3>2. goals' = goals \/ goals' = [goals EXCEPT ![h] = [goals[h] EXCEPT !.unreported = {}]]
      BY <2>5 DEF ReportReturns, Mutate
    <3>3. g # h => goals'[g] = goals[g]
      BY <3>2
    <3> QED  BY <2>2, <3>1, <3>2, <3>3
  <2>6. ASSUME NEW h \in Goal, NEW st, SetStatus(h, st)
        PROVE  goals'[g].unreported = goals[g].unreported
    BY <2>1, <2>6 DEF SetStatus, Mutate, GoalRecord
  <2>7. ASSUME NEW h \in Goal, NEW s, UpdateGoal(h, s)
        PROVE  goals'[g].unreported = goals[g].unreported
    <3>1. h \in DOMAIN goals
      BY <2>7 DEF UpdateGoal
    <3>2. CASE Mutate(h, [goals[h] EXCEPT !.open = @ \ {s}, !.closed = @ \cup {s}])
      BY <2>1, <3>1, <3>2 DEF Mutate, GoalRecord
    <3>3. CASE Mutate(h, [goals[h] EXCEPT !.closed = @ \ {s}, !.open = @ \cup {s}])
      BY <2>1, <3>1, <3>3 DEF Mutate, GoalRecord
    <3>4. CASE Mutate(h, [goals[h] EXCEPT !.open = @ \cup {s}])
      BY <2>1, <3>1, <3>4 DEF Mutate, GoalRecord
    <3> QED  BY <2>7, <3>2, <3>3, <3>4 DEF UpdateGoal
  <2>8. ASSUME NEW h \in Goal, NEW x, NEW done, NEW add, CycleFinds(h, x, done, add)
        PROVE  goals'[g].unreported = goals[g].unreported
    BY <2>1, <2>8 DEF CycleFinds, Mutate, Applied, GoalRecord
  <2>9. ASSUME NEW h \in Goal, Counted(h) PROVE goals'[g].unreported = goals[g].unreported
    BY <2>1, <2>9 DEF Counted, Mutate, GoalRecord
  <2>10. CASE Midnight
    BY <2>1, <2>10 DEF Midnight, GoalRecord
  <2>11. ASSUME NEW h \in Goal, NEW steps, CreateGoal(h, steps) PROVE goals'[g] = goals[g]
    BY <2>11 DEF CreateGoal
  <2>12. ASSUME NEW h \in Goal,
                CycleSkipped(h) \/ CycleCapped(h) \/ CycleEnds(h) \/ ReportArrives(h) \/ ReportRaises(h)
         PROVE  goals' = goals
    BY <2>12 DEF CycleSkipped, CycleCapped, CycleEnds, ReportArrives, ReportRaises
  <2>13. CASE GoalsHalt \/ GoalsBoot \/ Surroundings
    BY <2>13 DEF GoalsHalt, GoalsBoot, Surroundings
  <2>14. ASSUME NEW h \in Goal, Comings(h) PROVE Counted(h) \/ CycleSkipped(h) \/ CycleCapped(h)
    BY <2>14 DEF Comings, CycleHeld, CycleBegins
  <2>15. ASSUME NEW h \in Goal, Finds(h)
         PROVE  \E x, done, add : CycleFinds(h, x, done, add)
    BY <2>15 DEF Finds
  <2> QED
    BY <2>3, <2>4, <2>5, <2>6, <2>7, <2>8, <2>9, <2>10, <2>11, <2>12, <2>13, <2>14, <2>15
       DEF GoalsNext, Reports
<1> QED  BY <1>1, GoalsKeepTheirCadence, PTL DEF GoalsSpec, UnreportedTold
-----------------------------------------------------------------------------
(***************************************************************************)
(* Intake.  Three arguments.  What was sent, and how far its handler is,   *)
(* says whether the cloud saw it.  Whatever may become part of a template  *)
(* is a photo the owner sent.  And while the mirror is level, or the       *)
(* script runs undisturbed, what it has still to read or has read covers   *)
(* everybody enrolled, and what it has read is what the files hold.        *)
(***************************************************************************)
Theirs == {m \in Media : at[m] # "unsent" /\ Owned(m)}

MediaRight ==
    /\ shape \in [Media -> Shape \cup {Unsent}] /\ at \in [Media -> Stage]
    /\ seen \in [Media -> SUBSET Name]
    /\ store \in [Media -> {"nothing", "document", "moment"}]
    /\ cloud \subseteq Media /\ leaked \subseteq cloud /\ shut \subseteq Media /\ shots \subseteq Media
    /\ \A m \in Media :
        /\ at[m] = "unsent" => store[m] = "nothing" /\ seen[m] = {}
        /\ at[m] # "unsent" => shape[m] \in Shape
        /\ at[m] \in {"unsent", "fetching", "looking"} => m \notin cloud
        /\ at[m] = "called" => m \in cloud /\ store[m] = "nothing"
        /\ at[m] \in {"fetching", "looking"} => store[m] = "nothing"
        /\ at[m] = "looking" => Is(m, "photo")
        /\ at[m] = "pages" => Is(m, "pdf")
        /\ m \in shut => at[m] = "done" /\ m \notin cloud
        /\ m \in shots => at[m] = "done" /\ store[m] # "moment"
        /\ seen[m] # {} => m \in Theirs
        /\ at[m] # "unsent" /\ Is(m, "photo") /\ store[m] # "nothing" => m \in cloud

OneFace == {p \in Theirs : shape[p].face}

TemplatesRight ==
    /\ hand \in Media \cup {NoPhoto} /\ ask \in PhotoAsk \cup {NoAsk}
    /\ face \in [Name -> SUBSET Media] /\ fiber \in Thread \cup {NoThread}
    /\ hand # NoPhoto => hand \in Theirs
    /\ ask # NoAsk /\ ask.photo # NoPhoto => ask.photo \in Theirs
    /\ \A n \in Name : \A p \in face[n] : p \in OneFace /\ n \in agreed
    /\ fiber # NoThread => /\ fiber.photo \in OneFace /\ fiber.name \in agreed
                           /\ \A p \in fiber.held : p \in OneFace

Script == [step : {"list"}, todo : SUBSET Name, slugs : SUBSET Name]
          \cup [step : {"read"}, todo : SUBSET Name, slugs : SUBSET Name, name : Name,
                held : SUBSET Media]

Undisturbed ==
    /\ wiping = {} /\ fiber.step # "mirror"
    /\ sync # NoThread =>
        /\ Enrolled \subseteq sync.todo \cup sync.slugs
        /\ sync.step = "read" => sync.held = face[sync.name]

MirrorRight ==
    /\ row \in [Name -> SUBSET Media] /\ wiping \subseteq Name
    /\ sync \in Script \cup {NoThread} /\ calm \in BOOLEAN /\ level \in BOOLEAN
    /\ calm \/ level => Undisturbed
    /\ level => row = face
    /\ calm => /\ sync # NoThread
               /\ \A n \in sync.slugs : row[n] = face[n] \/ (sync.step = "read" /\ sync.name = n)

IntakeIInv == MediaRight /\ TemplatesRight /\ MirrorRight /\ private \in BOOLEAN

LEMMA InitIntake == IntakeInit => IntakeIInv
<1> SUFFICES ASSUME IntakeInit PROVE IntakeIInv
  OBVIOUS
<1> USE IntakeAssumption DEF IntakeInit
<1>1. MediaRight
  BY DEF MediaRight, Stage
<1>2. TemplatesRight
  BY DEF TemplatesRight
<1>3. MirrorRight
  BY DEF MirrorRight, Undisturbed, NoThread
<1> QED  BY <1>1, <1>2, <1>3 DEF IntakeIInv

(* A message that was sent stays what it is.                               *)
LEMMA StaysSent ==
    ASSUME MediaRight, IntakeNext, NEW m \in Media, at[m] # "unsent"
    PROVE  at'[m] # "unsent" /\ shape'[m] = shape[m]
<1> USE DEF MediaRight
<1>1. ASSUME NEW k \in Media, Sends(k) PROVE at'[m] # "unsent" /\ shape'[m] = shape[m]
  BY <1>1 DEF Sends, GoesTo
<1>2. ASSUME NEW k \in Media,
             Fetched(k) \/ Calls(k) \/ Answers(k) \/ CallFails(k) \/ ReadsPhoto(k) \/ Scans(k) \/ Scanned(k)
      PROVE  at'[m] # "unsent" /\ shape'[m] = shape[m]
  BY <1>2 DEF Fetched, Calls, Answers, CallFails, ReadsPhoto, Scans, Scanned, GoesTo
<1>3. CASE UNCHANGED mediaVars
  BY <1>3 DEF mediaVars
<1> QED
  BY <1>1, <1>2, <1>3
     DEF IntakeNext, Handles, AsksLatest, AsksForget, MovesOn, PhotoAges, SwitchesPrivate, Enrolls,
         ForgetsFace, ForgetsThere, UnlinksFace, Wipes, EnrollReads, EnrollWrites, EnrollMirrors,
         SyncBegins, SyncReads, SyncMirrors, SyncEnds

LEMMA StepMedia ==
    ASSUME MediaRight, TemplatesRight, IntakeNext
    PROVE  MediaRight'
<1> USE IntakeAssumption
<1>t. /\ shape \in [Media -> Shape \cup {Unsent}] /\ at \in [Media -> Stage]
      /\ seen \in [Media -> SUBSET Name]
      /\ store \in [Media -> {"nothing", "document", "moment"}]
      /\ cloud \subseteq Media /\ leaked \subseteq cloud /\ shut \subseteq Media /\ shots \subseteq Media
  BY DEF MediaRight
<1>1. ASSUME NEW m \in Media, Sends(m) PROVE MediaRight'
  <2>1. PICK s \in Shape : shape' = [shape EXCEPT ![m] = s]
    BY <1>1 DEF Sends
  <2>2. /\ at[m] = "unsent" /\ (GoesTo(m, "fetching") \/ GoesTo(m, "done"))
        /\ UNCHANGED <<seen, store, cloud, leaked, shut, shots>>
    BY <1>1 DEF Sends, ghostVars
  <2>3. /\ shape' \in [Media -> Shape \cup {Unsent}] /\ at' \in [Media -> Stage]
        /\ shape'[m] = s /\ at'[m] \in {"fetching", "done"}
        /\ \A k \in Media \ {m} : shape'[k] = shape[k] /\ at'[k] = at[k]
    BY <1>1, <1>t, <2>1 DEF Sends, GoesTo, Stage
  <2>4. at[m] = "unsent"
    BY <1>1 DEF Sends
  <2>5. store[m] = "nothing" /\ seen[m] = {} /\ m \notin cloud /\ m \notin shut /\ m \notin shots
    BY <2>4 DEF MediaRight
  <2> QED  BY <1>t, <2>2, <2>3, <2>5 DEF MediaRight, Theirs, Owned, Is
\* Everything else leaves the shape alone, and moves one handler on.
<1>2. ASSUME NEW m \in Media, NEW s \in Stage, at' = [at EXCEPT ![m] = s], at[m] # "unsent",
             s # "unsent", shape' = shape,
             cloud' \subseteq cloud \cup {m}, cloud \subseteq cloud', leaked' \subseteq cloud',
             shut' \subseteq shut \cup {m}, shots' \subseteq shots \cup {m}, seen' \in [Media -> SUBSET Name],
             store' \in [Media -> {"nothing", "document", "moment"}],
             \A k \in Media \ {m} : seen'[k] = seen[k] /\ store'[k] = store[k],
             s \in {"fetching", "looking"} => m \notin cloud',
             s = "called" => m \in cloud' /\ store'[m] = "nothing",
             s \in {"fetching", "looking"} => store'[m] = "nothing",
             s = "looking" => Is(m, "photo"), s = "pages" => Is(m, "pdf"),
             m \in shut' => s = "done" /\ m \notin cloud',
             m \in shots' => s = "done" /\ store'[m] # "moment",
             seen'[m] # {} => Owned(m),
             Is(m, "photo") /\ store'[m] # "nothing" => m \in cloud'
      PROVE  MediaRight'
  <2>1. at' \in [Media -> Stage] /\ at'[m] = s /\ \A k \in Media \ {m} : at'[k] = at[k]
    BY <1>2, <1>t
  <2> QED  BY <1>2, <1>t, <2>1 DEF MediaRight, Theirs, Owned, Is
<1>3. ASSUME NEW m \in Media, Fetched(m) PROVE MediaRight'
  <2>1. /\ at[m] = "fetching" /\ Is(m, "photo")
        /\ shut' = IF private /\ Owned(m) THEN shut \cup {m} ELSE shut
        /\ UNCHANGED <<shape, store, cloud, leaked>>
    BY <1>3 DEF Fetched, ghostVars
  <2>2. /\ m \notin cloud /\ m \notin shut /\ m \notin shots
        /\ (store[m] # "nothing" => FALSE) /\ (seen[m] # {} => Owned(m))
    BY <2>1 DEF MediaRight, Theirs
  <2>3. \/ at' = [at EXCEPT ![m] = "done"] /\ seen' = seen /\ shots' \subseteq shots \cup {m}
        \/ /\ at' = [at EXCEPT ![m] = "looking"] /\ ~Closed(m) /\ shots' = shots
           /\ \E r \in SUBSET Enrolled : (r # {} => Owned(m)) /\ seen' = [seen EXCEPT ![m] = r]
    BY <1>3 DEF Fetched, GoesTo, Recognizes, Enrolling
  <2>4. Enrolled \subseteq Name
    BY DEF Enrolled
  <2>5. CASE at' = [at EXCEPT ![m] = "done"] /\ seen' = seen /\ shots' \subseteq shots \cup {m}
    BY <1>2, <1>t, <2>1, <2>2, <2>5 DEF Stage
  <2>6. CASE /\ at' = [at EXCEPT ![m] = "looking"] /\ ~Closed(m) /\ shots' = shots
             /\ \E r \in SUBSET Enrolled : (r # {} => Owned(m)) /\ seen' = [seen EXCEPT ![m] = r]
    <3>1. seen' \in [Media -> SUBSET Name] /\ (seen'[m] # {} => Owned(m))
          /\ \A k \in Media \ {m} : seen'[k] = seen[k]
      BY <1>t, <2>4, <2>6
    <3>2. shut' = shut
      BY <2>1, <2>6 DEF Closed
    <3> QED  BY <1>2, <1>t, <2>1, <2>2, <2>6, <3>1, <3>2 DEF Stage
  <2> QED  BY <2>3, <2>5, <2>6
<1>4. ASSUME NEW m \in Media, Calls(m) PROVE MediaRight'
  <2>1. /\ at[m] = "looking" /\ at' = [at EXCEPT ![m] = "called"] /\ cloud' = cloud \cup {m}
        /\ leaked' \subseteq cloud' /\ UNCHANGED <<shape, seen, store, shut, shots>>
    BY <1>4, <1>t DEF Calls, GoesTo, Shown
  <2>2. /\ m \notin shut /\ m \notin shots /\ (seen[m] # {} => Owned(m))
        /\ store[m] = "nothing"
    BY <2>1 DEF MediaRight, Theirs
  <2> QED  BY <1>2, <1>t, <2>1, <2>2 DEF Stage
<1>5. ASSUME NEW m \in Media, Answers(m) PROVE MediaRight'
  <2>1. /\ at[m] = "called" /\ at' = [at EXCEPT ![m] = "done"]
        /\ UNCHANGED <<shape, seen, cloud, leaked, shut>>
    BY <1>5 DEF Answers, GoesTo
  <2>2. /\ m \in cloud /\ m \notin shut /\ m \notin shots /\ (seen[m] # {} => Owned(m))
        /\ Is(m, "photo") /\ store[m] # "nothing" => m \in cloud
    BY <2>1 DEF MediaRight, Theirs
  <2>3. PICK text \in BOOLEAN, wish \in BOOLEAN :
          /\ store' \in {store, [store EXCEPT ![m] = Kept(text, wish)]}
          /\ \/ wish /\ \E n \in Name : Enrolling(m, n)
             \/ UNCHANGED shots
    BY <1>5 DEF Answers
  <2>4. Kept(text, wish) \in {"nothing", "document", "moment"} /\ (wish => Kept(text, wish) # "moment")
    BY <2>3 DEF Kept
  <2>5. /\ store' \in [Media -> {"nothing", "document", "moment"}]
        /\ \A k \in Media \ {m} : store'[k] = store[k]
        /\ store'[m] = store[m] \/ store'[m] = Kept(text, wish)
    BY <1>t, <2>3, <2>4
  <2>6. store[m] = "nothing"
    BY <2>1 DEF MediaRight
  <2>7. shots' \subseteq shots \cup {m} /\ (m \in shots' => store'[m] # "moment")
    BY <2>2, <2>3, <2>4, <2>5, <2>6 DEF Enrolling
  <2> QED  BY <1>2, <1>t, <2>1, <2>2, <2>5, <2>7 DEF Stage
<1>6. ASSUME NEW m \in Media, CallFails(m) PROVE MediaRight'
  <2>1. /\ at[m] \in {"fetching", "called", "pages"} /\ at' = [at EXCEPT ![m] = "done"]
        /\ UNCHANGED <<shape, seen, store, cloud, leaked, shut, shots>>
    BY <1>6 DEF CallFails, GoesTo, ghostVars
  <2>2. /\ m \notin shut /\ m \notin shots /\ (seen[m] # {} => Owned(m))
        /\ Is(m, "photo") /\ store[m] # "nothing" => m \in cloud
    BY <2>1 DEF MediaRight, Theirs
  <2> QED  BY <1>2, <1>t, <2>1, <2>2 DEF Stage
<1>7. ASSUME NEW m \in Media, ReadsPhoto(m) \/ Scanned(m) PROVE MediaRight'
  <2>1. /\ at[m] \in {"fetching", "pages"} /\ at' = [at EXCEPT ![m] = "done"]
        /\ store' \in {store, [store EXCEPT ![m] = "document"]}
        /\ UNCHANGED <<shape, seen, cloud, leaked, shut, shots>>
    BY <1>7 DEF ReadsPhoto, Scanned, GoesTo, ghostVars
  <2>2. ~Is(m, "photo") /\ m \notin shut /\ m \notin shots /\ (seen[m] # {} => Owned(m))
    <3>1. CASE ReadsPhoto(m)
      BY <2>1, <3>1 DEF ReadsPhoto, MediaRight, Theirs
    <3>2. CASE Scanned(m)
      BY <2>1, <3>2 DEF Scanned, MediaRight, Theirs, Is
    <3> QED  BY <1>7, <3>1, <3>2
  <2>3. /\ store' \in [Media -> {"nothing", "document", "moment"}]
        /\ \A k \in Media \ {m} : store'[k] = store[k]
    BY <1>t, <2>1
  <2> QED  BY <1>2, <1>t, <2>1, <2>2, <2>3 DEF Stage
<1>8. ASSUME NEW m \in Media, Scans(m) PROVE MediaRight'
  <2>1. /\ at[m] \in {"fetching", "pages"} /\ Is(m, "pdf") /\ at' = [at EXCEPT ![m] = "pages"]
        /\ cloud' = cloud \cup {m} /\ leaked' \subseteq cloud'
        /\ UNCHANGED <<shape, seen, store, shut, shots>>
    BY <1>8, <1>t DEF Scans, GoesTo, Shown
  <2>2. m \notin shut /\ m \notin shots /\ (seen[m] # {} => Owned(m))
    BY <2>1 DEF MediaRight, Theirs
  <2> QED  BY <1>2, <1>t, <2>1, <2>2 DEF Stage
<1>9. CASE UNCHANGED <<mediaVars, cloud, leaked, shut, shots>>
  BY <1>9 DEF mediaVars, MediaRight, Theirs, Owned, Is
<1> QED
  BY <1>1, <1>3, <1>4, <1>5, <1>6, <1>7, <1>8, <1>9
     DEF IntakeNext, Handles, AsksLatest, AsksForget, MovesOn, PhotoAges, SwitchesPrivate, Enrolls,
         ForgetsFace, ForgetsThere, UnlinksFace, Wipes, EnrollReads, EnrollWrites, EnrollMirrors,
         SyncBegins, SyncReads, SyncMirrors, SyncEnds, ghostVars

LEMMA StepTemplates ==
    ASSUME MediaRight, TemplatesRight, IntakeNext
    PROVE  TemplatesRight'
<1> USE IntakeAssumption
<1>t. /\ hand \in Media \cup {NoPhoto} /\ ask \in PhotoAsk \cup {NoAsk}
      /\ face \in [Name -> SUBSET Media] /\ fiber \in Thread \cup {NoThread}
      /\ shape \in [Media -> Shape \cup {Unsent}]
      /\ OneFace \subseteq Theirs /\ Theirs \subseteq Media
  BY DEF TemplatesRight, MediaRight, OneFace, Theirs
<1>h. /\ hand # NoPhoto => hand \in Theirs
      /\ ask # NoAsk /\ ask.photo # NoPhoto => ask.photo \in Theirs
      /\ \A n \in Name : \A p \in face[n] : p \in OneFace /\ n \in agreed
      /\ fiber # NoThread => /\ fiber.photo \in OneFace /\ fiber.name \in agreed
                             /\ \A p \in fiber.held : p \in OneFace
  BY DEF TemplatesRight
\* What is the owner's stays the owner's.
<1>s. Theirs \subseteq Theirs' /\ OneFace \subseteq OneFace'
  <2>1. \A m \in Media : at[m] # "unsent" => at'[m] # "unsent" /\ shape'[m] = shape[m]
    BY StaysSent
  <2> QED  BY <2>1 DEF Theirs, Owned, OneFace
<1>1. ASSUME hand' = hand \/ hand' \in Theirs \/ hand' = NoPhoto,
             \/ ask' = ask \/ ask' = NoAsk
             \/ ask' \in PhotoAsk /\ (ask'.photo = NoPhoto \/ ask'.photo \in Theirs),
             face' \in [Name -> SUBSET Media],
             \A n \in Name : face'[n] \subseteq face[n],
             fiber' = fiber \/ fiber' = NoThread, agreed \subseteq agreed'
      PROVE  TemplatesRight'
  <2>1. hand' \in Media \cup {NoPhoto} /\ (hand' # NoPhoto => hand' \in Theirs')
    BY <1>1, <1>t, <1>h, <1>s
  <2>2. ask' \in PhotoAsk \cup {NoAsk} /\ (ask' # NoAsk /\ ask'.photo # NoPhoto => ask'.photo \in Theirs')
    <3>1. ask' \in PhotoAsk \cup {NoAsk}
      BY <1>1, <1>t
    <3>2. ask' # NoAsk /\ ask'.photo # NoPhoto => ask'.photo \in Media /\ ask'.photo \in Theirs
      BY <1>1, <1>h, <3>1 DEF PhotoAsk
    <3> QED  BY <1>s, <3>1, <3>2
  <2>3. \A n \in Name : \A p \in face'[n] : p \in OneFace' /\ n \in agreed'
    BY <1>1, <1>h, <1>s
  <2>4. /\ fiber' \in Thread \cup {NoThread}
        /\ fiber' # NoThread => /\ fiber'.photo \in OneFace' /\ fiber'.name \in agreed'
                                /\ \A p \in fiber'.held : p \in OneFace'
    BY <1>1, <1>t, <1>h, <1>s
  <2> QED  BY <1>1, <2>1, <2>2, <2>3, <2>4 DEF TemplatesRight
<1>2. ASSUME NEW m \in Media, Fetched(m) \/ Answers(m) PROVE TemplatesRight'
  <2>1. at[m] # "unsent" /\ (Owned(m) => m \in Theirs)
    BY <1>2 DEF Fetched, Answers, Theirs
  <2>2. /\ hand' = hand \/ (hand' = m /\ Owned(m))
        /\ UNCHANGED <<face, fiber, agreed>>
    BY <1>2 DEF Fetched, Answers, faceVars
  <2>3. ask' = ask \/ (Owned(m) /\ \E n \in Name : ask' = [does |-> "these", name |-> n, photo |-> m])
    <3>1. CASE Fetched(m)
      <4>1. ask' = ask \/ \E n \in Asked(m) \ {NoPhoto} : Enrolling(m, n)
        BY <3>1 DEF Fetched
      <4>2. ASSUME NEW n \in Asked(m) \ {NoPhoto} PROVE n \in Name /\ Owned(m)
        <5>1. CASE ~Owned(m)
          <6>1. Asked(m) = {NoPhoto}
            BY <5>1, Zenon DEF Asked
          <6> QED  BY <6>1
        <5>2. CASE Owned(m)
          BY <5>2, Zenon DEF Asked
        <5> QED  BY <5>1, <5>2
      <4> QED  BY <4>1, <4>2 DEF Enrolling
    <3>2. CASE Answers(m)
      BY <3>2 DEF Answers, Enrolling
    <3> QED  BY <1>2, <3>1, <3>2
  <2>4. \/ ask' = ask
        \/ ask' \in PhotoAsk /\ ask'.photo = m /\ Owned(m)
    BY <2>3 DEF PhotoAsk
  <2> QED  BY <1>1, <1>t, <2>1, <2>2, <2>4
<1>3. CASE AsksLatest \/ AsksForget \/ MovesOn \/ PhotoAges
  <2>1. /\ hand' = hand \/ hand' = NoPhoto
        /\ UNCHANGED <<face, fiber, agreed>>
    BY <1>3 DEF AsksLatest, AsksForget, MovesOn, PhotoAges, faceVars, ghostVars
  <2>2. \/ ask' = ask \/ ask' = NoAsk
        \/ hand # NoPhoto /\ \E n \in Name : ask' = [does |-> "latest", name |-> n, photo |-> hand]
        \/ \E n \in Name : ask' = [does |-> "forget", name |-> n, photo |-> NoPhoto]
    BY <1>3 DEF AsksLatest, AsksForget, MovesOn, PhotoAges, Enrolled
  <2>3. \/ ask' = ask \/ ask' = NoAsk
        \/ ask' \in PhotoAsk /\ (ask'.photo = NoPhoto \/ ask'.photo \in Theirs)
    BY <1>t, <1>h, <2>2 DEF PhotoAsk
  <2> QED  BY <1>1, <1>t, <2>1, <2>3
<1>4. CASE ForgetsFace \/ ForgetsThere
  <2>1. PICK n \in Name : UnlinksFace(n)
    BY <1>4, <1>t DEF ForgetsFace, ForgetsThere, PhotoAsk
  <2>2. /\ face' = [face EXCEPT ![n] = {}] /\ UNCHANGED <<hand, fiber, agreed>>
    BY <2>1 DEF UnlinksFace, ghostVars
  <2>3. face' \in [Name -> SUBSET Media] /\ \A k \in Name : face'[k] \subseteq face[k]
    BY <1>t, <2>2
  <2>4. ask' = ask \/ ask' = NoAsk
    BY <1>4 DEF ForgetsFace, ForgetsThere
  <2> QED  BY <1>1, <2>2, <2>3, <2>4
<1>5. CASE Enrolls
  <2>1. /\ ask \in PhotoAsk /\ ask' = NoAsk /\ agreed' = agreed \cup {ask.name}
        /\ UNCHANGED <<hand, face>>
        /\ fiber' = IF Taken # NoPhoto /\ shape[Taken].face
                    THEN [step |-> "read", name |-> ask.name, photo |-> Taken, held |-> {}]
                    ELSE NoThread
    BY <1>5, <1>t DEF Enrolls
  <2>2. Taken # NoPhoto => Taken \in Media /\ Taken \in Theirs
    BY <1>5, <1>t, <1>h, <2>1 DEF Taken, PhotoAsk, Enrolls
  <2>3. CASE fiber' = NoThread
    BY <1>1, <1>t, <2>1, <2>3
  <2>4. CASE fiber' # NoThread
    <3>1. fiber' = [step |-> "read", name |-> ask.name, photo |-> Taken, held |-> {}]
          /\ Taken \in OneFace
      BY <2>1, <2>2, <2>4 DEF OneFace
    <3>2. ask.name \in Name
      BY <2>1 DEF PhotoAsk
    <3>3. fiber' \in Thread
      BY <1>t, <3>1, <3>2 DEF Thread
    <3>4. /\ fiber'.photo \in OneFace' /\ fiber'.name \in agreed' /\ \A p \in fiber'.held : p \in OneFace'
      BY <1>s, <2>1, <3>1
    <3>5. \A n \in Name : \A p \in face'[n] : p \in OneFace' /\ n \in agreed'
      BY <1>h, <1>s, <2>1
    <3>6. hand' # NoPhoto => hand' \in Theirs'
      BY <1>t, <1>h, <1>s, <2>1
    <3> QED  BY <1>t, <2>1, <3>3, <3>4, <3>5, <3>6 DEF TemplatesRight
  <2> QED  BY <2>3, <2>4
\* The steps of an enrollment's thread.
<1>6. ASSUME fiber # NoThread, UNCHANGED <<hand, ask, agreed>>,
             fiber' \in Thread \cup {NoThread}, face' \in [Name -> SUBSET Media],
             fiber' # NoThread => /\ fiber'.photo = fiber.photo /\ fiber'.name = fiber.name
                                  /\ \A p \in fiber'.held : p \in OneFace,
             \A n \in Name : \A p \in face'[n] : p \in face[n] \/ (n = fiber.name /\ p \in OneFace)
      PROVE  TemplatesRight'
  <2>1. hand' # NoPhoto => hand' \in Theirs'
    BY <1>6, <1>t, <1>h, <1>s
  <2>2. ask' # NoAsk /\ ask'.photo # NoPhoto => ask'.photo \in Theirs'
    <3>1. ask' # NoAsk /\ ask'.photo # NoPhoto => ask.photo \in Media /\ ask.photo \in Theirs
      BY <1>6, <1>t, <1>h DEF PhotoAsk
    <3> QED  BY <1>6, <1>s, <3>1
  <2>3. \A n \in Name : \A p \in face'[n] : p \in OneFace' /\ n \in agreed'
    BY <1>6, <1>h, <1>s
  <2>4. fiber' # NoThread => /\ fiber'.photo \in OneFace' /\ fiber'.name \in agreed'
                             /\ \A p \in fiber'.held : p \in OneFace'
    BY <1>6, <1>h, <1>s
  <2> QED  BY <1>6, <1>t, <2>1, <2>2, <2>3, <2>4 DEF TemplatesRight
<1>7. CASE EnrollReads \/ EnrollWrites \/ EnrollMirrors
  <2>1. /\ fiber.step \in {"read", "write", "mirror"} /\ UNCHANGED <<hand, ask, agreed>>
    BY <1>7 DEF EnrollReads, EnrollWrites, EnrollMirrors, ghostVars
  <2>2. fiber \in Thread /\ fiber # NoThread
    BY <1>t, <2>1 DEF NoThread
  <2>3. /\ fiber.name \in Name /\ fiber.photo \in Media /\ fiber.held \subseteq Media
        /\ fiber.photo \in OneFace /\ \A p \in fiber.held : p \in OneFace
    BY <1>h, <2>2 DEF Thread
  <2>4. CASE EnrollReads
    <3>1. fiber' = [fiber EXCEPT !.step = "write", !.held = face[fiber.name]] /\ face' = face
      BY <2>4 DEF EnrollReads, ReadFace
    <3>2. fiber' \in Thread /\ fiber'.photo = fiber.photo /\ fiber'.name = fiber.name
          /\ fiber'.held = face[fiber.name]
      BY <1>t, <2>2, <2>3, <3>1 DEF Thread
    <3> QED  BY <1>6, <1>t, <1>h, <2>1, <2>2, <2>3, <3>1, <3>2
  <2>5. CASE EnrollWrites
    <3>1. /\ fiber' = [fiber EXCEPT !.step = "mirror"]
          /\ face' = [face EXCEPT ![fiber.name] = fiber.held \cup {fiber.photo}]
      BY <2>5 DEF EnrollWrites, Adds
    <3>2. fiber' \in Thread /\ fiber'.photo = fiber.photo /\ fiber'.name = fiber.name
          /\ fiber'.held = fiber.held
      BY <2>2, <3>1 DEF Thread
    <3>3. /\ face' \in [Name -> SUBSET Media]
          /\ \A n \in Name : face'[n] = IF n = fiber.name THEN fiber.held \cup {fiber.photo} ELSE face[n]
      BY <1>t, <2>3, <3>1
    <3> QED  BY <1>6, <2>1, <2>2, <2>3, <3>2, <3>3
  <2>6. CASE EnrollMirrors
    <3>1. fiber' = NoThread /\ face' = face
      BY <2>6 DEF EnrollMirrors
    <3> QED  BY <1>6, <1>t, <2>1, <2>2, <3>1
  <2> QED  BY <1>7, <2>4, <2>5, <2>6
<1>8. CASE UNCHANGED <<hand, ask, face, fiber, agreed>>
  BY <1>1, <1>8, <1>t
<1> QED
  BY <1>2, <1>3, <1>4, <1>5, <1>7, <1>8
     DEF IntakeNext, Handles, Sends, Calls, CallFails, ReadsPhoto, Scans, Scanned, SwitchesPrivate,
         Wipes, SyncBegins, SyncReads, SyncMirrors, SyncEnds, faceVars, ghostVars

LEMMA StepMirror ==
    ASSUME TemplatesRight, MirrorRight, IntakeNext
    PROVE  MirrorRight'
<1> USE IntakeAssumption
<1>t. /\ row \in [Name -> SUBSET Media] /\ wiping \subseteq Name
      /\ sync \in Script \cup {NoThread} /\ calm \in BOOLEAN /\ level \in BOOLEAN
      /\ face \in [Name -> SUBSET Media] /\ fiber \in Thread \cup {NoThread}
      /\ ask \in PhotoAsk \cup {NoAsk}
  BY DEF MirrorRight, TemplatesRight
<1>1. CASE UNCHANGED <<face, row, wiping, calm, level, sync, fiber>>
  BY <1>1 DEF MirrorRight, Undisturbed, Enrolled
<1>2. CASE Enrolls \/ EnrollReads
  <2>1. /\ UNCHANGED <<face, row, wiping, calm, level, sync>> /\ fiber'.step # "mirror"
    <3>1. CASE Enrolls
      BY <3>1 DEF Enrolls, scriptVars, NoThread
    <3>2. CASE EnrollReads
      <4>1. fiber \in Thread
        BY <1>t, <3>2 DEF EnrollReads, NoThread
      <4>2. fiber'.step = "write"
        BY <3>2, <4>1 DEF EnrollReads, ReadFace, Thread
      <4> QED  BY <3>2, <4>2 DEF EnrollReads, scriptVars
    <3> QED  BY <1>2, <3>1, <3>2
  <2> QED  BY <2>1 DEF MirrorRight, Undisturbed, Enrolled
\* A template changes.
<1>3. CASE ForgetsFace \/ ForgetsThere \/ EnrollWrites
  <2>1. calm' = FALSE /\ level' = FALSE /\ UNCHANGED <<row, sync>> /\ wiping' \subseteq Name
    BY <1>3, <1>t DEF ForgetsFace, ForgetsThere, UnlinksFace, EnrollWrites, scriptVars, PhotoAsk
  <2>3. sync' \in Script \cup {NoThread} /\ row' \in [Name -> SUBSET Media]
    BY <1>t, <2>1
  <2>4. ~(calm' \/ level') /\ calm' \in BOOLEAN /\ level' \in BOOLEAN
    BY <2>1
  <2> QED  BY <2>1, <2>3, <2>4 DEF MirrorRight
<1>4. ASSUME NEW n \in Name, Wipes(n) PROVE MirrorRight'
  <2>1. n \in wiping /\ calm = FALSE /\ level = FALSE
    BY <1>4, <1>t DEF Wipes, MirrorRight, Undisturbed
  <2>2. calm' = FALSE /\ level' = FALSE /\ sync' = sync /\ wiping' \subseteq Name /\ row' \in [Name -> SUBSET Media]
    BY <1>4, <1>t, <2>1 DEF Wipes, scriptVars
  <2>3. sync' \in Script \cup {NoThread} /\ row' \in [Name -> SUBSET Media]
    BY <1>t, <2>2
  <2>4. ~(calm' \/ level') /\ calm' \in BOOLEAN /\ level' \in BOOLEAN
    BY <2>2
  <2> QED  BY <2>2, <2>3, <2>4 DEF MirrorRight
<1>5. CASE EnrollMirrors
  <2>1. calm = FALSE /\ level = FALSE /\ fiber \in Thread
    BY <1>5, <1>t DEF EnrollMirrors, MirrorRight, Undisturbed, NoThread
  <2>2. calm' = FALSE /\ level' = FALSE /\ UNCHANGED <<sync, wiping>> /\ row' \in [Name -> SUBSET Media]
    BY <1>5, <1>t, <2>1 DEF EnrollMirrors, scriptVars, Thread
  <2>3. sync' \in Script \cup {NoThread} /\ row' \in [Name -> SUBSET Media]
    BY <1>t, <2>2
  <2>4. ~(calm' \/ level') /\ calm' \in BOOLEAN /\ level' \in BOOLEAN
    BY <2>2
  <2> QED  BY <2>2, <2>3, <2>4 DEF MirrorRight
<1>6. CASE SyncBegins
  <2>1. /\ sync = NoThread /\ sync' = [step |-> "list", todo |-> Enrolled, slugs |-> {}]
        /\ calm' = (wiping = {} /\ fiber = NoThread)
        /\ UNCHANGED <<face, row, fiber, wiping, level>>
    BY <1>6 DEF SyncBegins
  <2>2. sync' \in Script /\ sync' # NoThread
    BY <2>1 DEF Script, NoThread, Enrolled
  <2>3. (calm' \/ level') => Undisturbed'
    BY <2>1 DEF MirrorRight, Undisturbed, Enrolled, NoThread
  <2> QED  BY <1>t, <2>1, <2>2, <2>3 DEF MirrorRight
<1>7. CASE SyncReads
  <2>1. PICK n \in sync.todo :
          sync' = IF face[n] = {}
                  THEN [sync EXCEPT !.todo = @ \ {n}]
                  ELSE [step |-> "read", todo |-> sync.todo \ {n},
                        slugs |-> sync.slugs \cup {n}, name |-> n, held |-> face[n]]
    BY <1>7 DEF SyncReads
  <2>2. sync.step = "list" /\ UNCHANGED <<face, row, fiber, wiping, calm, level>>
    BY <1>7 DEF SyncReads, faceVars
  <2>3. sync \in [step : {"list"}, todo : SUBSET Name, slugs : SUBSET Name] /\ sync # NoThread
    BY <1>t, <2>2 DEF Script, NoThread
  <2>4. n \in Name
    BY <2>3
  <2>5. CASE face[n] = {}
    <3>1. /\ sync' \in Script /\ sync' # NoThread /\ sync'.step = "list"
          /\ sync'.todo = sync.todo \ {n} /\ sync'.slugs = sync.slugs
      BY <2>1, <2>3, <2>5 DEF Script, NoThread
    <3>2. (calm' \/ level') => Undisturbed'
      BY <2>2, <2>3, <2>5, <3>1 DEF MirrorRight, Undisturbed, Enrolled
    <3>3. calm' => \A k \in sync'.slugs : row'[k] = face'[k]
      BY <2>2, <3>1 DEF MirrorRight
    <3> QED  BY <1>t, <2>2, <3>1, <3>2, <3>3 DEF MirrorRight
  <2>6. CASE face[n] # {}
    <3>1. /\ sync' \in Script /\ sync' # NoThread /\ sync'.step = "read"
          /\ sync'.todo = sync.todo \ {n} /\ sync'.slugs = sync.slugs \cup {n}
          /\ sync'.name = n /\ sync'.held = face[n]
      BY <1>t, <2>1, <2>3, <2>4, <2>6 DEF Script, NoThread
    <3>2. (calm' \/ level') => Undisturbed'
      BY <2>2, <2>3, <3>1 DEF MirrorRight, Undisturbed, Enrolled
    <3>3. calm' => \A k \in sync'.slugs : row'[k] = face'[k] \/ k = n
      BY <2>2, <3>1 DEF MirrorRight
    <3> QED  BY <1>t, <2>2, <3>1, <3>2, <3>3 DEF MirrorRight
  <2> QED  BY <2>5, <2>6
<1>8. CASE SyncMirrors
  <2>1. /\ sync.step = "read"
        /\ sync' = [step |-> "list", todo |-> sync.todo, slugs |-> sync.slugs]
        /\ \/ row' = [row EXCEPT ![sync.name] = sync.held] /\ UNCHANGED calm
           \/ row' = row /\ calm' = FALSE
        /\ UNCHANGED <<face, fiber, wiping, level>>
    BY <1>8 DEF SyncMirrors
  <2>2. /\ sync \in [step : {"read"}, todo : SUBSET Name, slugs : SUBSET Name, name : Name,
                     held : SUBSET Media]
        /\ sync # NoThread
    BY <1>t, <2>1 DEF Script, NoThread
  <2>3. sync' \in Script /\ sync' # NoThread /\ row' \in [Name -> SUBSET Media] /\ calm' \in BOOLEAN
    BY <1>t, <2>1, <2>2 DEF Script, NoThread
  <2>4. calm' \/ level' => calm \/ level
    BY <2>1
  <2>5. (calm' \/ level') => Undisturbed' /\ sync.held = face[sync.name]
    BY <2>1, <2>2, <2>4 DEF MirrorRight, Undisturbed, Enrolled
  <2>6. level' => row' = face'
    <3> SUFFICES ASSUME level PROVE row' = face
      BY <2>1
    <3>1. row = face /\ sync.held = face[sync.name]
      BY <2>1, <2>5 DEF MirrorRight
    <3> QED  BY <1>t, <2>1, <3>1
  <2>7. calm' => \A k \in sync'.slugs : row'[k] = face'[k]
    <3> SUFFICES ASSUME calm', NEW k \in sync.slugs PROVE row'[k] = face[k]
      BY <2>1
    <3>1. calm /\ row' = [row EXCEPT ![sync.name] = sync.held] /\ sync.held = face[sync.name]
      BY <2>1, <2>5
    <3>2. k \in Name /\ (row[k] = face[k] \/ k = sync.name)
      BY <2>2, <3>1 DEF MirrorRight
    <3> QED  BY <1>t, <3>1, <3>2
  <2> QED  BY <1>t, <2>1, <2>3, <2>5, <2>6, <2>7 DEF MirrorRight
<1>9. CASE SyncEnds
  <2>1. /\ sync.step = "list" /\ sync.todo = {} /\ sync' = NoThread /\ calm' = FALSE
        /\ \/ row' = [n \in Name |-> Swept(n)] /\ level' = (level \/ calm)
           \/ UNCHANGED <<row, level>>
        /\ UNCHANGED <<face, fiber, wiping>>
    BY <1>9 DEF SyncEnds
  <2>2. sync # NoThread
    BY <2>1 DEF NoThread
  <2>3. row' \in [Name -> SUBSET Media] /\ level' \in BOOLEAN
    BY <1>t, <2>1 DEF Swept
  <2>4. level' => level \/ calm
    BY <2>1
  <2>5. level' => Undisturbed'
    BY <2>1, <2>4 DEF MirrorRight, Undisturbed
  <2>6. level' => row' = face'
    <3> SUFFICES ASSUME level' PROVE row' = face
      BY <2>1
    <3>1. CASE UNCHANGED <<row, level>>
      BY <3>1 DEF MirrorRight
    <3>2. CASE row' = [n \in Name |-> Swept(n)]
      <4>1. Enrolled \subseteq sync.slugs
        BY <2>1, <2>2, <2>4 DEF MirrorRight, Undisturbed
      <4>2. \A n \in sync.slugs : row[n] = face[n]
        <5>1. level => row = face
          BY DEF MirrorRight
        <5>2. calm => \A n \in sync.slugs : row[n] = face[n]
          BY <2>1 DEF MirrorRight
        <5> QED  BY <2>4, <5>1, <5>2
      <4>3. \A n \in Name : row'[n] = face[n]
        BY <3>2, <4>1, <4>2 DEF Swept, Enrolled
      <4> QED  BY <1>t, <2>3, <4>3
    <3> QED  BY <2>1, <3>1, <3>2
  <2> QED  BY <1>t, <2>1, <2>3, <2>5, <2>6 DEF MirrorRight
<1> QED
  BY <1>1, <1>2, <1>3, <1>4, <1>5, <1>6, <1>7, <1>8, <1>9
     DEF IntakeNext, Handles, Sends, Fetched, Calls, Answers, CallFails, ReadsPhoto, Scans, Scanned,
         AsksLatest, AsksForget, MovesOn, PhotoAges, SwitchesPrivate, faceVars, scriptVars

LEMMA StepIntake == IntakeIInv /\ [IntakeNext]_intakeVars => IntakeIInv'
<1> SUFFICES ASSUME IntakeIInv, [IntakeNext]_intakeVars PROVE IntakeIInv'
  OBVIOUS
<1>1. CASE IntakeNext
  <2>1. private' \in BOOLEAN
    BY <1>1
       DEF IntakeIInv, IntakeNext, Handles, Sends, Fetched, Calls, Answers, CallFails, ReadsPhoto,
           Scans, Scanned, AsksLatest, AsksForget, MovesOn, PhotoAges, SwitchesPrivate, Enrolls,
           ForgetsFace, ForgetsThere, UnlinksFace, Wipes, EnrollReads, EnrollWrites, EnrollMirrors,
           SyncBegins, SyncReads, SyncMirrors, SyncEnds
  <2> QED  BY <1>1, <2>1, StepMedia, StepTemplates, StepMirror DEF IntakeIInv
<1>2. CASE UNCHANGED intakeVars
  <2>1. UNCHANGED <<mediaVars, hand, ask, faceVars, scriptVars, private, ghostVars>>
    BY <1>2 DEF intakeVars
  <2>2. UNCHANGED <<shape, at, seen, store, face, row, fiber, wiping, calm, level, sync, cloud, leaked,
                    shut, shots, agreed>>
    BY <2>1 DEF mediaVars, faceVars, scriptVars, ghostVars
  <2>3. MediaRight'
    BY <2>2 DEF IntakeIInv, MediaRight, Theirs, Owned, Is
  <2>4. TemplatesRight'
    BY <2>1, <2>2 DEF IntakeIInv, TemplatesRight, OneFace, Theirs, Owned
  <2>5. MirrorRight'
    BY <2>2 DEF IntakeIInv, MirrorRight, Undisturbed, Enrolled
  <2> QED  BY <2>1, <2>3, <2>4, <2>5 DEF IntakeIInv
<1> QED  BY <1>1, <1>2

(***************************************************************************)
(* Templates hold photos of the owner's that were agreed to, guests are    *)
(* kept from them, a photo that came while private mode was on stays here, *)
(* an enrollment shot is no moment, and the script brings the mirror to    *)
(* the files: for any messages and any people, however their handlers,     *)
(* threads and processes meet.                                             *)
(***************************************************************************)
THEOREM FacesAreConsented == IntakeSpec => []IntakeInv
<1>1. IntakeSpec => []IntakeIInv
  BY InitIntake, StepIntake, PTL DEF IntakeSpec
<1>2. IntakeIInv => IntakeInv
  <2> SUFFICES ASSUME IntakeIInv PROVE IntakeInv
    OBVIOUS
  <2>1. IntakeTypeOK
    BY DEF IntakeIInv, MediaRight, TemplatesRight, MirrorRight, IntakeTypeOK
  <2>2. Consent
    BY DEF IntakeIInv, TemplatesRight, Consent, Samples, OneFace, Theirs
  <2>3. GuestsAreNotRead
    BY DEF IntakeIInv, MediaRight, TemplatesRight, GuestsAreNotRead, Theirs
  <2>4. ShutStaysShut
    BY DEF IntakeIInv, MediaRight, ShutStaysShut
  <2>5. ShotsStayOut
    BY DEF IntakeIInv, MediaRight, ShotsStayOut
  <2>6. MirrorIsLevel
    BY DEF IntakeIInv, MirrorRight, MirrorIsLevel
  <2> QED  BY <2>1, <2>2, <2>3, <2>4, <2>5, <2>6 DEF IntakeInv
<1> QED  BY <1>1, <1>2, PTL
-----------------------------------------------------------------------------
(***************************************************************************)
(* Slack.  A tick works on a copy.  Below its watermark a mention was      *)
(* heard of by the owner or is a day old; between the watermark and the    *)
(* newest message that was read it was, or it is queued; and whatever the  *)
(* tick may still surface was shown no oftener than something failed.      *)
(***************************************************************************)

(* The largest and the smallest of finitely many numbers.                  *)
LEMMA Least == ASSUME NEW T \in SUBSET Nat, T # {} PROVE \E x \in T : \A y \in T : x <= y
<1>1. PICK R : R = {ss \in Nat \X Nat : ss[1] < ss[2]}
  OBVIOUS
<1>2. R = OpToRel(<, Nat)
  BY <1>1, Zenon DEF OpToRel
<1>3. IsWellFoundedOn(R, Nat)
  BY <1>2, NatLessThanWellFounded, Zenon
<1>4. PICK x \in T : \A y \in T : ~(<<y, x>> \in R)
  BY <1>3, WFMin
<1>5. \A y \in T : ~(y < x)
  BY <1>1, <1>4
<1> QED  BY <1>4, <1>5

LEMMA Greatest ==
    ASSUME NEW N \in Nat, NEW T \in SUBSET (0 .. N), T # {}
    PROVE  \E x \in T : \A y \in T : x >= y
<1>1. PICK U : U = {N - x : x \in T}
  OBVIOUS
<1>2. U \in SUBSET Nat /\ U # {}
  <2>1. \A x \in T : x \in 0 .. N /\ N - x \in Nat
    OBVIOUS
  <2>2. \A u \in U : \E x \in T : u = N - x
    BY <1>1
  <2>3. U # {}
    BY <1>1
  <2> QED  BY <2>1, <2>2, <2>3
<1>3. PICK u \in U : \A v \in U : u <= v
  BY <1>2, Least
<1>4. PICK x \in T : u = N - x
  BY <1>1
<1>5. ASSUME NEW y \in T PROVE x >= y
  <2>1. N - y \in U
    BY <1>1
  <2>2. N - x <= N - y
    BY <1>3, <1>4, <2>1
  <2>3. x \in 0 .. N /\ y \in 0 .. N
    OBVIOUS
  <2> QED  BY <2>2, <2>3
<1> QED  BY <1>5

LEMMA Extremes ==
    ASSUME NEW N \in Nat, NEW T \in SUBSET (0 .. N), T # {}
    PROVE  /\ Max(T) \in T /\ \A y \in T : Max(T) >= y
           /\ Min(T) \in T /\ \A y \in T : Min(T) <= y
<1>1. \E x \in T : \A y \in T : x >= y
  BY Greatest
<1>2. T \in SUBSET Nat
  OBVIOUS
<1>3. \E x \in T : \A y \in T : x <= y
  BY <1>2, Least
<1> QED  BY <1>1, <1>3, Zenon DEF Max, Min

LEMMA Largest ==
    ASSUME NEW a \in Nat, NEW b \in Nat
    PROVE  Larger(a, b) \in {a, b} /\ Larger(a, b) >= a /\ Larger(a, b) >= b
<1>1. PICK T : T = {a, b}
  OBVIOUS
<1>2. T \in SUBSET (0 .. a + b) /\ T # {} /\ a + b \in Nat
  BY <1>1
<1>3. Max(T) \in T /\ \A y \in T : Max(T) >= y
  BY <1>2, Extremes
<1> QED  BY <1>1, <1>3 DEF Larger

Count == Cardinality(Said)
Record == [marks : [Channel -> 0 .. MaxMessage], seen : SUBSET Channel, posted : SUBSET Message]

SlackTypes ==
    /\ Count \in 0 .. MaxMessage /\ Said = 1 .. Count /\ horizon \in 0 .. Count
    /\ history \in [Said -> [channel : Channel, mention : BOOLEAN]]
    /\ stateFile \in Record /\ copy \in Record
    /\ \A c \in Channel : stateFile.marks[c] <= Count /\ copy.marks[c] <= Count
    /\ left \subseteq Channel /\ (cur = {} \/ \E c \in Channel : cur = {c})
    /\ queue \subseteq Said /\ newest \in 0 .. Count /\ lastOk \in 0 .. Count
    /\ running \in BOOLEAN /\ pending \subseteq Message /\ quiet \in BOOLEAN
    /\ asked \in [Message -> Nat] /\ first \in [Channel -> 0 .. MaxMessage]
    /\ nights \in 0 .. MaxNight /\ amiss \in 0 .. MaxAmiss

Mention(m, c) == m \in Said /\ history[m].channel = c /\ history[m].mention
Heard(m) == asked[m] > 0 \/ m <= horizon

(* Where a tick is. *)
Ticking ==
    /\ ~running => left = {} /\ cur = {}
    /\ running => stateFile.seen \subseteq copy.seen
    /\ left \cap copy.seen \subseteq stateFile.seen
    /\ cur \subseteq stateFile.seen /\ cur \cap left = {}

(* What lies below a watermark, and what the tick has read. *)
HeardOf ==
    /\ \A c \in stateFile.seen : \A m \in Said :
        Mention(m, c) /\ m > first[c] /\ m <= stateFile.marks[c] => Heard(m)
    /\ running => \A c \in stateFile.seen : \A m \in Said :
        Mention(m, c) /\ m > first[c] /\ m <= copy.marks[c] => Heard(m)
    /\ \A c \in cur :
        /\ lastOk <= newest
        /\ \A m \in queue : /\ Mention(m, c)
                            /\ copy.marks[c] < m /\ lastOk < m /\ m <= newest
        /\ \A m \in Said :
            Mention(m, c) /\ copy.marks[c] < m /\ m <= newest => Heard(m) \/ m \in queue

(* How often a mention was shown. *)
ShownOnce ==
    /\ \A m \in Message : m \notin Said => asked[m] = 0
    /\ \A m \in Said : history[m].channel \notin stateFile.seen => asked[m] = 0
    /\ \A m \in Message : asked[m] <= 1 + amiss
    /\ ~running => \A m \in Said :
        m > stateFile.marks[history[m].channel] => asked[m] <= amiss
    /\ running => \A m \in Said :
        m > copy.marks[history[m].channel] /\ ~(history[m].channel \in cur /\ m <= lastOk)
            => asked[m] <= amiss

Ordered ==
    \A c \in stateFile.seen : \A m, n \in Said :
        Mention(m, c) /\ Mention(n, c) /\ m > first[c] /\ n > first[c] /\ m < n /\ asked[n] > 0
            => Heard(m)

SlackIInv == SlackTypes /\ Ticking /\ HeardOf /\ ShownOnce /\ Ordered

LEMMA Numbers == SlackTypes => Said \subseteq Message /\ Count \in Nat /\ MaxMessage \in Nat
  BY SlackWatchAssumption DEF SlackTypes, Message

LEMMA Newest ==
    ASSUME SlackTypes, NEW c \in Channel
    PROVE  /\ Max(Rows(c) \cup {0}) \in 0 .. Count
           /\ \A m \in Rows(c) : m <= Max(Rows(c) \cup {0})
<1>1. PICK T : T = Rows(c) \cup {0}
  OBVIOUS
<1>2. T \in SUBSET (0 .. Count) /\ T # {} /\ Count \in Nat
  BY <1>1, Numbers DEF SlackTypes, Rows
<1>3. Max(T) \in T /\ \A y \in T : Max(T) >= y
  BY <1>2, Extremes
<1> QED  BY <1>1, <1>2, <1>3

LEMMA TheOldest ==
    ASSUME SlackTypes, queue # {}
    PROVE  Oldest \in queue /\ Oldest \in Said /\ \A m \in queue : Oldest <= m
<1>1. queue \in SUBSET (0 .. Count) /\ Count \in Nat
  BY Numbers DEF SlackTypes
<1> QED  BY <1>1, Extremes DEF Oldest, SlackTypes

LEMMA InitSlack == SlackWatchInit => SlackIInv
<1> SUFFICES ASSUME SlackWatchInit PROVE SlackIInv
  OBVIOUS
<1> USE SlackWatchAssumption DEF SlackWatchInit
<1>1. Said = {} /\ Count = 0 /\ 1 .. 0 = {}
  BY FS_EmptySet DEF Said, Count
<1>2. NoFile \in Record /\ NoFile.seen = {} /\ \A c \in Channel : NoFile.marks[c] = 0
  BY DEF NoFile, Record
<1>3. SlackTypes
  <2>1. history \in [Said -> [channel : Channel, mention : BOOLEAN]]
    BY <1>1 DEF Said
  <2>2. first \in [Channel -> 0 .. MaxMessage] /\ asked \in [Message -> Nat]
    OBVIOUS
  <2>3. /\ stateFile \in Record /\ copy \in Record /\ left = {} /\ cur = {} /\ queue = {}
        /\ \A c \in Channel : stateFile.marks[c] = 0 /\ copy.marks[c] = 0
        /\ newest = 0 /\ lastOk = 0 /\ running = FALSE /\ pending = {} /\ quiet = FALSE
        /\ nights \in 0 .. MaxNight /\ amiss \in 0 .. MaxAmiss /\ horizon = 0
    BY <1>2
  <2>4. Count \in 0 .. MaxMessage /\ Said = 1 .. Count /\ horizon \in 0 .. Count
    BY <1>1, <2>3
  <2>5. newest \in 0 .. Count /\ lastOk \in 0 .. Count /\ queue \subseteq Said
    BY <1>1, <2>3
  <2>6. \A c \in Channel : stateFile.marks[c] <= Count /\ copy.marks[c] <= Count
    BY <1>1, <2>3
  <2> QED  BY <2>1, <2>2, <2>3, <2>4, <2>5, <2>6, Zenon DEF SlackTypes
<1>4. Ticking /\ HeardOf /\ ShownOnce /\ Ordered
  BY <1>1, <1>2 DEF Ticking, HeardOf, ShownOnce, Ordered
<1> QED  BY <1>3, <1>4 DEF SlackIInv

(* The parts, by what they read; a step that leaves that alone keeps them. *)
LEMMA SlackTick ==
    ASSUME SlackIInv, Loads \/ \E c \in Channel : ReadFails(c) \/ StartsFromNow(c)
    PROVE  SlackIInv'
<1> USE DEF Misses, slack, outside, SlackIInv
<1>t. SlackTypes /\ Ticking /\ HeardOf /\ ShownOnce /\ Ordered
  OBVIOUS
<1>n. Said \subseteq Message /\ Count \in Nat /\ MaxMessage \in Nat
  BY <1>t, Numbers
<1>1. CASE Loads
  <2>1. /\ ~running /\ running' = TRUE /\ copy' = stateFile /\ left' = Channel
        /\ UNCHANGED <<history, horizon, stateFile, cur, queue, newest, lastOk, pending, quiet,
                       nights, asked, first, amiss>>
    BY <1>1 DEF Loads
  <2>2. Count' = Count /\ Said' = Said
    BY <2>1 DEF Count, Said
  <2>3. SlackTypes'
    BY <1>t, <2>1, <2>2 DEF SlackTypes
  <2>4. cur = {}
    BY <1>t, <2>1 DEF Ticking
  <2>5. Ticking'
    BY <1>t, <2>1, <2>4 DEF Ticking
  <2>6. HeardOf'
    BY <1>t, <2>1, <2>2, <2>4 DEF HeardOf, Mention, Heard
  <2>7. ShownOnce'
    BY <1>t, <2>1, <2>2, <2>4 DEF ShownOnce
  <2>8. Ordered'
    BY <1>t, <2>1, <2>2 DEF Ordered, Mention, Heard
  <2> QED  BY <2>3, <2>5, <2>6, <2>7, <2>8
<1>2. ASSUME NEW c \in Channel, ReadFails(c) PROVE SlackIInv'
  <2>1. /\ amiss < MaxAmiss /\ amiss' = amiss + 1 /\ left' = left \ {c}
        /\ UNCHANGED <<history, horizon, stateFile, copy, cur, queue, newest, lastOk, running,
                       pending, quiet, nights, asked, first>>
    BY <1>2 DEF ReadFails
  <2>2. Count' = Count /\ Said' = Said /\ amiss \in Nat
    BY <1>t, <2>1 DEF Count, Said, SlackTypes
  <2>3. SlackTypes'
    <3>1. amiss' \in 0 .. MaxAmiss
      BY <1>t, <2>1, SlackWatchAssumption DEF SlackTypes
    <3> QED  BY <1>t, <2>1, <2>2, <3>1 DEF SlackTypes
  <2>5. Ticking' /\ HeardOf' /\ Ordered'
    BY <1>t, <2>1, <2>2 DEF Ticking, HeardOf, Ordered, Mention, Heard
  <2>7. ShownOnce'
    <3>1. \A m \in Message : asked[m] \in Nat
      BY <1>t DEF SlackTypes
    <3>2. \A m \in Message : asked[m] <= amiss => asked[m] <= amiss + 1
      BY <2>2, <3>1
    <3>3. \A m \in Message : asked[m] <= 1 + amiss => asked[m] <= 1 + (amiss + 1)
      BY <2>2, <3>1
    <3> QED  BY <1>t, <1>n, <2>1, <2>2, <3>2, <3>3 DEF ShownOnce
  <2> QED  BY <2>3, <2>5, <2>7
<1>3. ASSUME NEW c \in Channel, StartsFromNow(c) PROVE SlackIInv'
  <2>0. PICK x : x = Max(Rows(c) \cup {0})
    OBVIOUS
  <2>1. /\ c \in left /\ cur = {} /\ c \notin copy.seen /\ left' = left \ {c}
        /\ copy' = [copy EXCEPT !.seen = copy.seen \cup {c}, !.marks[c] = x]
        /\ UNCHANGED <<history, horizon, stateFile, cur, queue, newest, lastOk, running,
                       pending, quiet, nights, asked, first, amiss>>
    BY <1>3, <2>0 DEF StartsFromNow
  <2>2. Count' = Count /\ Said' = Said /\ x \in 0 .. Count /\ x \in 0 .. MaxMessage
    <3>1. x \in 0 .. Count
      BY <1>t, <2>0, Newest
    <3>2. Count <= MaxMessage
      BY <1>t DEF SlackTypes
    <3> QED  BY <1>n, <2>1, <3>1, <3>2 DEF Count, Said
  <2>3. /\ copy' \in Record /\ copy'.seen = copy.seen \cup {c} /\ copy'.marks[c] = x
        /\ \A k \in Channel \ {c} : copy'.marks[k] = copy.marks[k]
    BY <1>t, <2>1, <2>2 DEF Record, SlackTypes
  <2>4. SlackTypes'
    BY <1>t, <2>1, <2>2, <2>3 DEF SlackTypes
  <2>5. running /\ c \notin stateFile.seen
    BY <1>t, <2>1 DEF Ticking
  <2>6. Ticking'
    BY <1>t, <2>1, <2>3, <2>5 DEF Ticking
  <2>7. HeardOf'
    <3>1. \A k \in stateFile.seen : k \in Channel \ {c}
      BY <1>t, <2>5 DEF SlackTypes, Record
    <3> QED  BY <1>t, <2>1, <2>2, <2>3, <3>1 DEF HeardOf, Mention, Heard
  <2>8. ShownOnce'
    <3>1. \A m \in Said : history[m].channel \in Channel
      BY <1>t DEF SlackTypes
    <3>2. amiss \in Nat
      BY <1>t DEF SlackTypes
    <3> QED  BY <1>t, <2>1, <2>2, <2>3, <2>5, <3>1, <3>2 DEF ShownOnce
  <2>9. Ordered'
    BY <1>t, <2>1, <2>2 DEF Ordered, Mention, Heard
  <2> QED  BY <2>4, <2>6, <2>7, <2>8, <2>9
<1> QED  BY <1>1, <1>2, <1>3

LEMMA SlackReads == ASSUME SlackIInv, NEW c \in Channel, Reads(c) PROVE SlackIInv'
<1> USE DEF SlackIInv
<1>t. SlackTypes /\ Ticking /\ HeardOf /\ ShownOnce /\ Ordered
  OBVIOUS
<1>n. Said \subseteq Message /\ Count \in Nat /\ MaxMessage \in Nat
  BY <1>t, Numbers
<1>1. /\ c \in left /\ cur = {} /\ c \in copy.seen /\ cur' = {c} /\ queue' = Fresh(c)
      /\ newest' = Max(Rows(c) \cup {0}) /\ lastOk' = 0 /\ left' = left \ {c}
      /\ UNCHANGED <<history, horizon, stateFile, copy, running, pending, quiet, nights, asked,
                     first, amiss>>
  BY DEF Reads, slack, outside
<1>2. /\ newest' \in 0 .. Count /\ \A m \in Rows(c) : m <= newest'
      /\ Count' = Count /\ Said' = Said
  BY <1>t, <1>1, Newest DEF Count, Said
<1>3. queue' = {m \in Said : Mention(m, c) /\ m > horizon /\ m > copy.marks[c]}
  BY <1>1 DEF Fresh, Rows, Mention
<1>4. SlackTypes'
  BY <1>t, <1>1, <1>2, <1>3 DEF SlackTypes
<1>5. Ticking'
  BY <1>t, <1>1 DEF Ticking
<1>6. HeardOf'
  <2>1. \A m \in Said : m \in Nat /\ m > 0
    BY <1>t, <1>n DEF SlackTypes
  <2>2. horizon \in Nat /\ copy.marks[c] \in Nat
    BY <1>t, <1>n DEF SlackTypes, Record
  <2>3. ASSUME NEW m \in queue'
        PROVE  Mention(m, c) /\ copy.marks[c] < m /\ lastOk' < m /\ m <= newest'
    <3>1. m \in Said /\ m \in Rows(c) /\ Mention(m, c) /\ m > copy.marks[c]
      BY <1>3, <2>3 DEF Rows, Mention
    <3> QED  BY <1>1, <1>2, <2>1, <2>2, <3>1
  <2>4. ASSUME NEW m \in Said, Mention(m, c), copy.marks[c] < m PROVE Heard(m) \/ m \in queue'
    BY <1>3, <2>1, <2>2, <2>4 DEF Heard
  <2>5. lastOk' <= newest'
    BY <1>1, <1>2
  <2> QED  BY <1>t, <1>1, <1>2, <2>3, <2>4, <2>5 DEF HeardOf, Mention, Heard
<1>7. ShownOnce'
  <2>1. running
    BY <1>t, <1>1 DEF Ticking
  <2> QED  BY <1>t, <1>1, <1>2, <2>1 DEF ShownOnce
<1>8. Ordered'
  BY <1>t, <1>1, <1>2 DEF Ordered, Mention, Heard
<1> QED  BY <1>4, <1>5, <1>6, <1>7, <1>8

(* The oldest mention of the queue is surfaced, or may have been: nothing  *)
(* older is unheard of.                                                    *)
LEMMA Surfacing ==
    ASSUME SlackIInv, NEW c \in Channel, cur = {c}, queue # {},
           asked' \in {asked, [asked EXCEPT ![Oldest] = @ + 1]},
           UNCHANGED <<history, horizon, stateFile, first>>
    PROVE  /\ Oldest \in queue /\ Mention(Oldest, c) /\ lastOk < Oldest /\ asked[Oldest] <= amiss
           /\ asked' \in [Message -> Nat] /\ \A m \in queue : Oldest <= m
           /\ \A m \in Message : asked'[m] >= asked[m] /\ (m # Oldest => asked'[m] = asked[m])
           /\ asked'[Oldest] <= asked[Oldest] + 1
           /\ Count' = Count /\ Said' = Said
           /\ Ordered'
<1>t. SlackTypes /\ Ticking /\ HeardOf /\ ShownOnce /\ Ordered
  BY DEF SlackIInv
<1>n. Said \subseteq Message /\ Count \in Nat /\ MaxMessage \in Nat
  BY <1>t, Numbers
<1>1. PICK o : o = Oldest
  OBVIOUS
<1>2. o \in queue /\ o \in Said /\ o \in Message /\ \A m \in queue : o <= m
  BY <1>t, <1>n, <1>1, TheOldest
<1>3. /\ asked' \in [Message -> Nat] /\ asked \in [Message -> Nat]
      /\ \A m \in Message : asked'[m] >= asked[m] /\ (m # o => asked'[m] = asked[m])
      /\ asked'[o] <= asked[o] + 1
  BY <1>t, <1>1, <1>2, SMTT(30) DEF SlackTypes
<1>4. /\ Mention(o, c) /\ copy.marks[c] < o /\ lastOk < o /\ o <= newest
      /\ c \in stateFile.seen /\ running
  BY <1>t, <1>2 DEF HeardOf, Ticking
<1>m. \A m \in Said : m \in Nat
  BY <1>t, <1>n DEF SlackTypes
<1>5. asked[o] <= amiss
  <2>1. lastOk \in Nat /\ o \in Nat
    BY <1>t, <1>n, <1>m, <1>2 DEF SlackTypes
  <2>2. history[o].channel = c
    BY <1>4 DEF Mention
  <2> QED  BY <1>t, <1>2, <1>4, <2>1, <2>2 DEF ShownOnce
<1>6. Count' = Count /\ Said' = Said
  BY DEF Count, Said
<1>7. \A m \in Said : Heard(m) => asked'[m] > 0 \/ m <= horizon
  BY <1>n, <1>3 DEF Heard
<1>8. Ordered'
  <2>1. SUFFICES ASSUME NEW k \in stateFile.seen, NEW m \in Said, NEW n \in Said,
                        Mention(m, k), Mention(n, k), m > first[k], n > first[k], m < n, asked'[n] > 0
                 PROVE  asked'[m] > 0 \/ m <= horizon
    BY <1>6 DEF Ordered, Mention, Heard
  <2>2. CASE asked[n] > 0
    BY <1>t, <1>7, <2>1, <2>2 DEF Ordered
  <2>3. CASE ~(asked[n] > 0)
    <3>1. n = o /\ k = c
      BY <1>n, <1>3, <1>4, <2>1, <2>3 DEF Mention
    <3>2. m \notin queue
      BY <1>2, <1>m, <2>1, <3>1
    <3>3. newest \in Nat /\ copy.marks[c] \in Nat /\ o \in Nat
      BY <1>t, <1>n, <1>m, <1>2 DEF SlackTypes, Record
    <3>4. CASE m <= copy.marks[c]
      BY <1>t, <1>4, <1>7, <2>1, <3>1, <3>4 DEF HeardOf
    <3>5. CASE copy.marks[c] < m
      <4>1. m <= newest
        <5>1. m \in Nat /\ m < o /\ o <= newest
          BY <1>4, <1>m, <2>1, <3>1
        <5> QED  BY <3>3, <5>1
      <4> QED  BY <1>t, <1>7, <2>1, <3>1, <3>2, <3>5, <4>1 DEF HeardOf
    <3> QED  BY <1>m, <3>3, <3>4, <3>5
  <2> QED  BY <2>2, <2>3
<1> QED  BY <1>1, <1>2, <1>3, <1>4, <1>5, <1>6, <1>8

LEMMA SlackSurfaces == ASSUME SlackIInv, NEW c \in Channel, Surfaces(c) PROVE SlackIInv'
<1>t. SlackTypes /\ Ticking /\ HeardOf /\ ShownOnce /\ Ordered
  BY DEF SlackIInv
<1>n. Said \subseteq Message /\ Count \in Nat /\ MaxMessage \in Nat
  BY <1>t, Numbers
<1>0. PICK o : o = Oldest
  OBVIOUS
<1>1. /\ cur = {c} /\ queue # {} /\ asked' = [asked EXCEPT ![o] = asked[o] + 1]
      /\ pending' \in {pending, {o}} /\ lastOk' = o /\ queue' = queue \ {o}
      /\ UNCHANGED <<history, horizon, stateFile, copy, left, cur, newest, running, quiet, nights,
                     first, amiss>>
  BY <1>0 DEF Surfaces, Drafted, slack, outside
<1>2. /\ o \in queue /\ Mention(o, c) /\ lastOk < o /\ asked[o] <= amiss
      /\ asked' \in [Message -> Nat] /\ \A m \in queue : o <= m
      /\ \A m \in Message : asked'[m] >= asked[m] /\ (m # o => asked'[m] = asked[m])
      /\ Count' = Count /\ Said' = Said /\ Ordered'
  BY <1>0, <1>1, Surfacing
<1>3. /\ o \in Said /\ o \in Message /\ asked[o] \in Nat /\ asked'[o] = asked[o] + 1 /\ amiss \in Nat
      /\ lastOk \in Nat /\ \A m \in Said : m \in Nat /\ m \in Message
      /\ \A m \in Message : asked[m] \in Nat
  BY <1>t, <1>n, <1>1, <1>2 DEF SlackTypes
<1>r. running /\ c \in stateFile.seen
  BY <1>t, <1>1 DEF Ticking
<1>4. SlackTypes'
  <2>1. o \in 0 .. Count
    BY <1>t, <1>n, <1>3 DEF SlackTypes
  <2>2. pending' \subseteq Message
    BY <1>t, <1>1, <1>3 DEF SlackTypes
  <2> QED  BY <1>t, <1>1, <1>2, <2>1, <2>2 DEF SlackTypes
<1>5. Ticking'
  BY <1>t, <1>1 DEF Ticking
<1>6. HeardOf'
  <2>1. ASSUME NEW m \in Said, Heard(m) PROVE asked'[m] > 0 \/ m <= horizon
    <3>1. asked'[m] >= asked[m] /\ m \in Message /\ asked[m] \in Nat /\ asked'[m] \in Nat
      BY <1>2, <1>3
    <3> QED  BY <2>1, <3>1 DEF Heard
  <2>2. asked'[o] > 0
    BY <1>3
  <2>3. ASSUME NEW m \in queue' PROVE /\ Mention(m, c) /\ copy.marks[c] < m /\ o < m /\ m <= newest
    <3>1. m \in queue /\ m # o /\ o <= m /\ m \in Nat /\ o \in Nat
      BY <1>t, <1>1, <1>2, <1>3 DEF SlackTypes
    <3> QED  BY <1>t, <1>1, <3>1 DEF HeardOf
  <2>4. o <= newest
    BY <1>t, <1>1, <1>2 DEF HeardOf
  <2>5. ASSUME NEW m \in Said, Mention(m, c), copy.marks[c] < m, m <= newest
        PROVE  asked'[m] > 0 \/ m <= horizon \/ m \in queue'
    <3>1. Heard(m) \/ m \in queue
      BY <1>t, <1>1, <2>5 DEF HeardOf
    <3> QED  BY <1>1, <2>1, <2>2, <3>1
  <2>6. \A k \in stateFile.seen : \A m \in Said :
          /\ Mention(m, k) /\ m > first[k] /\ m <= stateFile.marks[k] => asked'[m] > 0 \/ m <= horizon
          /\ Mention(m, k) /\ m > first[k] /\ m <= copy.marks[k] => asked'[m] > 0 \/ m <= horizon
    BY <1>t, <1>r, <2>1 DEF HeardOf
  <2> QED  BY <1>1, <1>2, <2>3, <2>4, <2>5, <2>6 DEF HeardOf, Mention, Heard
<1>7. ShownOnce'
  <2>1. \A m \in Message : asked'[m] <= 1 + amiss
    BY <1>t, <1>2, <1>3 DEF ShownOnce
  <2>2. \A m \in Message : m \notin Said => asked'[m] = 0
    BY <1>t, <1>2, <1>3 DEF ShownOnce
  <2>3. \A m \in Said : history[m].channel \notin stateFile.seen => asked'[m] = 0
    <3>1. history[o].channel = c
      BY <1>2 DEF Mention
    <3> QED  BY <1>t, <1>2, <1>3, <1>r, <3>1 DEF ShownOnce
  <2>4. ASSUME NEW m \in Said, m > copy.marks[history[m].channel],
               ~(history[m].channel \in cur /\ m <= o)
        PROVE  asked'[m] <= amiss
    <3>1. history[o].channel = c /\ m # o
      BY <1>1, <1>2, <1>3, <2>4 DEF Mention
    <3>2. ~(history[m].channel \in cur /\ m <= lastOk)
      BY <1>2, <1>3, <2>4
    <3>3. asked[m] <= amiss
      BY <1>t, <1>r, <2>4, <3>2 DEF ShownOnce
    <3> QED  BY <1>2, <1>3, <3>1, <3>3
  <2> QED  BY <1>1, <1>2, <1>r, <2>1, <2>2, <2>3, <2>4 DEF ShownOnce
<1> QED  BY <1>2, <1>4, <1>5, <1>6, <1>7 DEF SlackIInv

(* The watermark of the channel moves on: to the last that was surfaced,   *)
(* or, with the queue empty, to the last that was read.                    *)
LEMMA Closing ==
    ASSUME SlackIInv, NEW c \in Channel, cur = {c}, NEW x \in 0 .. Count,
           x = lastOk \/ (x = newest /\ queue = {}),
           copy' = [copy EXCEPT !.marks[c] = Larger(@, x)], ClosesChannel,
           UNCHANGED <<history, horizon, stateFile, left, running, first>>,
           asked' \in [Message -> Nat],
           \A m \in Message : asked'[m] >= asked[m],
           amiss' = amiss \/ amiss' = amiss + 1, amiss' \in 0 .. MaxAmiss,
           \A m \in Message : asked'[m] = asked[m] \/ (m \in queue /\ amiss' = amiss + 1
                                                        /\ asked[m] <= amiss /\ asked'[m] = asked[m] + 1),
           Ordered', pending' \subseteq Message, quiet' \in BOOLEAN, nights' \in 0 .. MaxNight
    PROVE  SlackIInv'
<1>t. SlackTypes /\ Ticking /\ HeardOf /\ ShownOnce
  BY DEF SlackIInv
<1>n. Said \subseteq Message /\ Count \in Nat /\ MaxMessage \in Nat
  BY <1>t, Numbers
<1>0. /\ Count' = Count /\ Said' = Said /\ cur' = {} /\ queue' = {} /\ newest' = 0 /\ lastOk' = 0
  BY DEF Count, Said, ClosesChannel
<1>r. running /\ c \in stateFile.seen
  BY <1>t DEF Ticking
<1>1. PICK y : y = Larger(copy.marks[c], x)
  OBVIOUS
<1>2. /\ y \in 0 .. Count /\ y >= copy.marks[c] /\ y >= x /\ y \in {copy.marks[c], x}
      /\ copy.marks[c] \in 0 .. Count
  <2>1. copy.marks[c] \in 0 .. Count
    BY <1>t, <1>n DEF SlackTypes, Record
  <2> QED  BY <1>1, <1>n, <2>1, Largest
<1>3. /\ copy' \in Record /\ copy'.seen = copy.seen /\ copy'.marks[c] = y
      /\ \A k \in Channel \ {c} : copy'.marks[k] = copy.marks[k]
  <2>1. PICK mk : mk = [copy.marks EXCEPT ![c] = y]
    OBVIOUS
  <2>2. copy' = [copy EXCEPT !.marks = mk] /\ copy \in Record
    BY <1>t, <1>1, <2>1 DEF SlackTypes, Record
  <2>3. y \in 0 .. MaxMessage
    BY <1>t, <1>n, <1>2 DEF SlackTypes
  <2>4. /\ mk \in [Channel -> 0 .. MaxMessage] /\ mk[c] = y
        /\ \A k \in Channel \ {c} : mk[k] = copy.marks[k]
    BY <2>1, <2>2, <2>3 DEF Record
  <2>5. copy'.marks = mk /\ copy'.seen = copy.seen /\ copy' \in Record
    BY <2>2, <2>4 DEF Record
  <2> QED  BY <2>4, <2>5
<1>4. SlackTypes'
  <2>1. ASSUME NEW k \in Channel PROVE copy'.marks[k] <= Count
    <3>1. copy.marks[k] <= Count
      BY <1>t DEF SlackTypes
    <3>2. y <= Count
      BY <1>n, <1>2
    <3>3. copy'.marks[k] = y \/ copy'.marks[k] = copy.marks[k]
      BY <1>3
    <3> QED  BY <3>1, <3>2, <3>3
  <2>2. left' \subseteq Channel /\ running' \in BOOLEAN /\ first' \in [Channel -> 0 .. MaxMessage]
        /\ history' \in [Said -> [channel : Channel, mention : BOOLEAN]]
        /\ stateFile' \in Record /\ \A k \in Channel : stateFile'.marks[k] <= Count
        /\ Count \in 0 .. MaxMessage /\ Said = 1 .. Count /\ horizon' \in 0 .. Count
    BY <1>t DEF SlackTypes
  <2>3. newest' \in 0 .. Count /\ lastOk' \in 0 .. Count /\ queue' \subseteq Said
    BY <1>0, <1>n
  <2> QED  BY <1>0, <1>3, <2>1, <2>2, <2>3, Zenon DEF SlackTypes
<1>5. Ticking'
  BY <1>t, <1>0, <1>3, <1>r DEF Ticking
<1>6. HeardOf'
  <2>1. ASSUME NEW m \in Said, Heard(m) PROVE asked'[m] > 0 \/ m <= horizon
    <3>1. asked'[m] >= asked[m] /\ asked[m] \in Nat /\ asked'[m] \in Nat
      BY <1>t, <1>n DEF SlackTypes
    <3> QED  BY <2>1, <3>1 DEF Heard
  <2>2. ASSUME NEW k \in stateFile.seen, NEW m \in Said, Mention(m, k), m > first[k], m <= copy'.marks[k]
        PROVE  Heard(m)
    <3>1. CASE m <= copy.marks[k]
      BY <1>t, <1>r, <2>2, <3>1 DEF HeardOf
    <3>2. CASE ~(m <= copy.marks[k])
      <4>1. k = c /\ m <= y /\ y = x
        BY <1>2, <1>3, <2>2, <3>2, <1>t DEF SlackTypes, Record
      <4>2. m \in Nat /\ copy.marks[c] < m
        BY <1>t, <1>n, <1>2, <3>2, <4>1, SMTT(30) DEF SlackTypes
      <4>3. m <= newest /\ m \notin queue
        <5>1. lastOk <= newest /\ \A q \in queue : lastOk < q
          BY <1>t DEF HeardOf
        <5>2. lastOk \in Nat /\ newest \in Nat
          BY <1>t, <1>n DEF SlackTypes
        <5> QED  BY <4>1, <4>2, <5>1, <5>2
      <4> QED  BY <1>t, <2>2, <4>1, <4>2, <4>3 DEF HeardOf
    <3> QED  BY <3>1, <3>2
  <2>3. \A k \in stateFile.seen : \A m \in Said :
          Mention(m, k) /\ m > first[k] /\ m <= stateFile.marks[k] => Heard(m)
    BY <1>t DEF HeardOf
  <2> QED  BY <1>0, <2>1, <2>2, <2>3 DEF HeardOf, Mention, Heard
<1>7. ShownOnce'
  <2>0. /\ amiss \in Nat /\ \A m \in Message : asked[m] \in Nat /\ asked'[m] \in Nat
        /\ \A m \in Said : m \in Nat /\ m \in Message
    <3>1. asked \in [Message -> Nat] /\ amiss \in Nat
      BY <1>t DEF SlackTypes
    <3>2. \A m \in Said : m \in Nat
      BY <1>n DEF Message
    <3> QED  BY <1>n, <3>1, <3>2
  <2>1. \A m \in Message : asked'[m] <= 1 + amiss'
    BY <1>t, <2>0 DEF ShownOnce
  <2>2. \A m \in queue : m \in Said /\ history[m].channel = c
    BY <1>t DEF HeardOf, Mention
  <2>3. \A m \in Message : m \notin Said => asked'[m] = 0
    BY <1>t, <2>2 DEF ShownOnce
  <2>4. \A m \in Said : history[m].channel \notin stateFile.seen => asked'[m] = 0
    BY <1>t, <1>r, <2>0, <2>2 DEF ShownOnce
  <2>5. ASSUME NEW m \in Said, m > copy'.marks[history[m].channel] PROVE asked'[m] <= amiss'
    <3>1. CASE asked'[m] # asked[m]
      BY <2>0, <3>1
    <3>2. CASE asked'[m] = asked[m]
      <4>1. history[m].channel \in Channel
        BY <1>t DEF SlackTypes
      <4>2. m > copy.marks[history[m].channel]
        <5>1. CASE history[m].channel = c
          BY <1>2, <1>3, <1>n, <2>0, <2>5, <5>1
        <5>2. CASE history[m].channel # c
          BY <1>3, <2>5, <4>1, <5>2
        <5> QED  BY <5>1, <5>2
      <4>3. ~(history[m].channel \in cur /\ m <= lastOk)
        <5> SUFFICES ASSUME history[m].channel = c PROVE ~(m <= lastOk)
          OBVIOUS
        <5>1. m > y /\ lastOk \in Nat /\ newest \in Nat /\ lastOk <= newest
          BY <1>t, <1>n, <1>3, <2>5 DEF SlackTypes, HeardOf
        <5> QED  BY <1>2, <1>n, <2>0, <5>1
      <4>4. asked[m] <= amiss
        BY <1>t, <1>r, <4>2, <4>3 DEF ShownOnce
      <4> QED  BY <2>0, <3>2, <4>4
    <3> QED  BY <3>1, <3>2
  <2> QED  BY <1>0, <1>r, <2>1, <2>3, <2>4, <2>5 DEF ShownOnce
<1> QED  BY <1>4, <1>5, <1>6, <1>7 DEF SlackIInv

LEMMA SlackFails == ASSUME SlackIInv, NEW c \in Channel, SurfaceFails(c) PROVE SlackIInv'
<1>t. SlackTypes /\ Ticking /\ HeardOf /\ ShownOnce /\ Ordered
  BY DEF SlackIInv
<1>n. Said \subseteq Message /\ Count \in Nat /\ MaxMessage \in Nat
  BY <1>t, Numbers
<1>0. PICK o : o = Oldest
  OBVIOUS
<1>1. /\ cur = {c} /\ queue # {} /\ amiss < MaxAmiss /\ amiss' = amiss + 1
      /\ asked' \in {asked, [asked EXCEPT ![Oldest] = @ + 1]}
      /\ copy' = [copy EXCEPT !.marks[c] = Larger(@, lastOk)] /\ ClosesChannel
      /\ UNCHANGED <<history, horizon, stateFile, left, running, pending, quiet, nights, first>>
  BY DEF SurfaceFails, PassesSurfaced, Misses, slack, outside
<1>2. /\ o \in queue /\ asked[o] <= amiss /\ asked' \in [Message -> Nat] /\ Ordered'
      /\ \A m \in Message : asked'[m] >= asked[m] /\ (m # o => asked'[m] = asked[m])
      /\ asked'[o] <= asked[o] + 1
  BY <1>0, <1>1, Surfacing
<1>3. /\ lastOk \in 0 .. Count /\ pending' \subseteq Message /\ quiet' \in BOOLEAN
      /\ nights' \in 0 .. MaxNight /\ amiss \in Nat
  BY <1>t, <1>1 DEF SlackTypes
<1>4. amiss' \in 0 .. MaxAmiss
  BY <1>t, <1>1, SlackWatchAssumption DEF SlackTypes
<1>5. ASSUME NEW m \in Message
      PROVE  asked'[m] = asked[m] \/ (/\ m \in queue /\ amiss' = amiss + 1
                                      /\ asked[m] <= amiss /\ asked'[m] = asked[m] + 1)
  <2>1. asked[m] \in Nat /\ asked'[m] \in Nat /\ asked'[m] >= asked[m]
    BY <1>t, <1>2 DEF SlackTypes
  <2> QED  BY <1>1, <1>2, <2>1
<1>6. copy' = [copy EXCEPT !.marks[c] = Larger(copy.marks[c], lastOk)]
  BY <1>1
<1>7. \A m \in Message : asked'[m] >= asked[m]
  BY <1>2
<1> QED  BY <1>1, <1>2, <1>3, <1>4, <1>5, <1>7, Closing

LEMMA SlackPasses == ASSUME SlackIInv, NEW c \in Channel, Passes(c) PROVE SlackIInv'
<1>t. SlackTypes /\ Ordered
  BY DEF SlackIInv
<1>1. /\ cur = {c} /\ queue = {} /\ copy' = [copy EXCEPT !.marks[c] = Larger(@, newest)]
      /\ ClosesChannel
      /\ UNCHANGED <<history, horizon, stateFile, left, running, pending, quiet, nights, asked,
                     first, amiss>>
  BY DEF Passes, slack, outside
<1>2. /\ newest \in 0 .. Count /\ pending' \subseteq Message /\ quiet' \in BOOLEAN
      /\ nights' \in 0 .. MaxNight /\ amiss' \in 0 .. MaxAmiss /\ asked' \in [Message -> Nat]
      /\ \A m \in Message : asked'[m] >= asked[m] /\ asked'[m] = asked[m]
  BY <1>t, <1>1 DEF SlackTypes
<1>3. Ordered'
  BY <1>t, <1>1 DEF Ordered, Mention, Heard, Said
<1> QED  BY <1>1, <1>2, <1>3, Closing

(* The file becomes what the tick has; a channel it began with has no      *)
(* mention above its first watermark that anyone was shown.                *)
LEMMA SlackSaves == ASSUME SlackIInv, Saves PROVE SlackIInv'
<1>t. SlackTypes /\ Ticking /\ HeardOf /\ ShownOnce /\ Ordered
  BY DEF SlackIInv
<1>n. Said \subseteq Message /\ Count \in Nat /\ MaxMessage \in Nat
  BY <1>t, Numbers
<1>1. /\ running /\ left = {} /\ cur = {} /\ stateFile' = copy /\ running' = FALSE /\ copy' = NoFile
      /\ UNCHANGED <<history, horizon, left, cur, queue, newest, lastOk, pending, quiet, nights,
                     asked, amiss>>
      /\ first' = [c \in Channel |-> IF c \in copy.seen \ stateFile.seen THEN copy.marks[c]
                                     ELSE first[c]]
  BY DEF Saves, slack, outside
<1>2. /\ Count' = Count /\ Said' = Said
      /\ NoFile \in Record /\ NoFile.seen = {} /\ \A c \in Channel : NoFile.marks[c] = 0
  BY <1>n, <1>1 DEF Count, Said, NoFile, Record
<1>3. /\ copy.seen \subseteq Channel /\ \A c \in Channel : copy.marks[c] \in 0 .. MaxMessage
      /\ \A m \in Said : m \in Nat /\ history[m].channel \in Channel
  BY <1>t, <1>n DEF SlackTypes, Record
<1>4. SlackTypes'
  <2>1. first' \in [Channel -> 0 .. MaxMessage]
    BY <1>t, <1>1, <1>3 DEF SlackTypes
  <2>2. \A c \in Channel : copy'.marks[c] <= Count
    BY <1>n, <1>1, <1>2
  <2> QED  BY <1>t, <1>1, <1>2, <2>1, <2>2 DEF SlackTypes
<1>5. Ticking'
  BY <1>t, <1>1, <1>2 DEF Ticking
<1>6. \A c \in copy.seen : \/ c \in stateFile.seen /\ first'[c] = first[c]
                           \/ c \notin stateFile.seen /\ first'[c] = copy.marks[c]
  BY <1>1, <1>3
<1>7. HeardOf'
  <2>1. ASSUME NEW c \in copy.seen, NEW m \in Said, Mention(m, c), m > first'[c], m <= copy.marks[c]
        PROVE  Heard(m)
    <3>1. first'[c] = first[c] /\ c \in stateFile.seen
      BY <1>3, <1>6, <2>1
    <3> QED  BY <1>t, <1>1, <2>1, <3>1 DEF HeardOf
  <2> QED  BY <1>1, <1>2, <2>1 DEF HeardOf, Mention, Heard
<1>8. ShownOnce'
  BY <1>t, <1>1, <1>2 DEF ShownOnce, Ticking
<1>9. Ordered'
  <2>1. ASSUME NEW c \in copy.seen, NEW m \in Said, NEW n \in Said, Mention(m, c), Mention(n, c),
               m > first'[c], n > first'[c], m < n, asked[n] > 0
        PROVE  Heard(m)
    <3>1. c \in stateFile.seen
      BY <1>t, <1>n, <2>1 DEF ShownOnce, Mention
    <3> QED  BY <1>t, <1>6, <2>1, <3>1 DEF Ordered
  <2> QED  BY <1>1, <1>2, <2>1 DEF Ordered, Mention, Heard
<1> QED  BY <1>4, <1>5, <1>7, <1>8, <1>9 DEF SlackIInv

LEMMA SlackRestarts == ASSUME SlackIInv, Restarts PROVE SlackIInv'
<1>t. SlackTypes /\ Ticking /\ HeardOf /\ ShownOnce /\ Ordered
  BY DEF SlackIInv
<1>n. Said \subseteq Message /\ Count \in Nat /\ MaxMessage \in Nat
  BY <1>t, Numbers
<1>1. /\ amiss < MaxAmiss /\ amiss' = amiss + 1 /\ running' = FALSE /\ copy' = NoFile /\ left' = {}
      /\ cur' = {} /\ queue' = {} /\ newest' = 0 /\ lastOk' = 0 /\ pending' \in {pending, {}}
      /\ UNCHANGED <<history, horizon, stateFile, quiet, nights, asked, first>>
  BY DEF Restarts, Misses, ClosesChannel, slack, outside
<1>2. /\ Count' = Count /\ Said' = Said
      /\ NoFile \in Record /\ NoFile.seen = {} /\ \A c \in Channel : NoFile.marks[c] = 0
  BY <1>n, <1>1 DEF Count, Said, NoFile, Record
<1>3. SlackTypes'
  <2>1. amiss' \in 0 .. MaxAmiss
    BY <1>t, <1>1, SlackWatchAssumption DEF SlackTypes
  <2>2. \A c \in Channel : copy'.marks[c] <= Count
    BY <1>n, <1>1, <1>2
  <2>3. newest' \in 0 .. Count /\ lastOk' \in 0 .. Count
    BY <1>n, <1>1
  <2>4. pending' \subseteq Message
    BY <1>t, <1>1 DEF SlackTypes
  <2> QED  BY <1>t, <1>1, <1>2, <2>1, <2>2, <2>3, <2>4 DEF SlackTypes
<1>4. Ticking' /\ HeardOf' /\ Ordered'
  BY <1>t, <1>1, <1>2 DEF Ticking, HeardOf, Ordered, Mention, Heard
<1>5. ShownOnce'
  <2>1. amiss \in Nat /\ \A m \in Message : asked[m] \in Nat
    BY <1>t DEF SlackTypes
  <2>2. \A m \in Message : asked[m] <= 1 + amiss /\ asked[m] <= 1 + amiss' /\ asked[m] <= amiss'
    BY <1>t, <1>1, <2>1 DEF ShownOnce
  <2> QED  BY <1>t, <1>n, <1>1, <1>2, <2>2 DEF ShownOnce
<1> QED  BY <1>3, <1>4, <1>5 DEF SlackIInv

(* A message more: above every watermark, and nobody was shown it.         *)
LEMMA SlackSays ==
    ASSUME SlackIInv, NEW c \in Channel, NEW mention \in BOOLEAN, Says(c, mention) PROVE SlackIInv'
<1>t. SlackTypes /\ Ticking /\ HeardOf /\ ShownOnce /\ Ordered
  BY DEF SlackIInv
<1>n. Said \subseteq Message /\ Count \in Nat /\ MaxMessage \in Nat
  BY <1>t, Numbers
<1>0. PICK z : z = Count + 1
  OBVIOUS
<1>1. /\ Count < MaxMessage
      /\ history' = [m \in Said \cup {z} |->
                        IF m \in Said THEN history[m] ELSE [channel |-> c, mention |-> mention]]
      /\ UNCHANGED <<horizon, stateFile, copy, left, cur, queue, newest, lastOk, running, pending,
                     quiet, nights, asked, first, amiss>>
  BY <1>0 DEF Says, Count, tickVars, outside
<1>2. /\ z \in Message /\ z \notin Said /\ z \in Nat /\ \A m \in Said : m \in Nat /\ m < z
      /\ Said' = Said \cup {z} /\ Said' = 1 .. z /\ Count' = z
  <2>1. Said = 1 .. Count
    BY <1>t DEF SlackTypes
  <2>2. z \in Message /\ z \notin Said /\ z \in Nat /\ \A m \in Said : m \in Nat /\ m < z
    BY <1>0, <1>n, <1>1, <2>1 DEF Message
  <2>3. Said' = Said \cup {z}
    BY <1>1 DEF Said
  <2>4. Said' = 1 .. z
    BY <1>0, <1>n, <2>1, <2>3
  <2>5. Cardinality(1 .. z) = z
    <3>1. 1 \in Int /\ z \in Int /\ ~(1 > z)
      BY <1>0, <1>n
    <3> QED  BY <3>1, FS_Interval
  <2> QED  BY <2>2, <2>3, <2>4, <2>5 DEF Count
<1>3. /\ \A m \in Said : history'[m] = history[m]
      /\ history'[z] = [channel |-> c, mention |-> mention]
  BY <1>1, <1>2
<1>w. Count \in Nat /\ newest \in 0 .. Count /\ lastOk \in 0 .. Count /\ queue \subseteq Said
  BY <1>t, <1>n DEF SlackTypes
<1>m. \A k \in Channel : /\ stateFile.marks[k] \in Nat /\ stateFile.marks[k] < z
                         /\ copy.marks[k] \in Nat /\ copy.marks[k] < z
  BY <1>t, <1>0, <1>n DEF SlackTypes, Record
<1>4. SlackTypes'
  <2>1. history' \in [Said' -> [channel : Channel, mention : BOOLEAN]]
    <3>1. \A m \in Said \cup {z} : history'[m] \in [channel : Channel, mention : BOOLEAN]
      BY <1>t, <1>3 DEF SlackTypes
    <3> QED  BY <1>1, <1>2, <3>1
  <2>2. z \in 0 .. MaxMessage /\ horizon' \in 0 .. z /\ newest' \in 0 .. z /\ lastOk' \in 0 .. z
    BY <1>t, <1>0, <1>n, <1>1, <1>w DEF SlackTypes
  <2>3. \A k \in Channel : stateFile'.marks[k] <= z /\ copy'.marks[k] <= z
    BY <1>1, <1>2, <1>m
  <2>4. queue' \subseteq Said'
    BY <1>1, <1>2, <1>w
  <2> QED  BY <1>t, <1>1, <1>2, <2>1, <2>2, <2>3, <2>4 DEF SlackTypes
<1>5. Ticking'
  BY <1>t, <1>1 DEF Ticking
<1>6. ASSUME NEW k PROVE \A m \in Said : Mention(m, k)' <=> Mention(m, k)
  BY <1>2, <1>3 DEF Mention
<1>7. HeardOf'
  <2>1. \A k \in stateFile.seen : k \in Channel
    BY <1>t DEF SlackTypes, Record
  <2>2. \A k \in cur : k \in Channel
    BY <1>t DEF SlackTypes
  <2>3. \A k \in stateFile.seen : ~(z <= stateFile.marks[k]) /\ ~(z <= copy.marks[k])
    BY <1>2, <1>m, <2>1
  <2>4. ~(z <= newest)
    BY <1>0, <1>w
  <2>5. \A k \in stateFile.seen : \A m \in Said' :
          /\ Mention(m, k)' /\ m > first[k] /\ m <= stateFile.marks[k] => Heard(m)
          /\ running => (Mention(m, k)' /\ m > first[k] /\ m <= copy.marks[k] => Heard(m))
    BY <1>t, <1>2, <1>6, <2>3 DEF HeardOf
  <2>6. \A k \in cur : \A m \in Said' :
          Mention(m, k)' /\ copy.marks[k] < m /\ m <= newest => Heard(m) \/ m \in queue
    BY <1>t, <1>2, <1>6, <2>4 DEF HeardOf
  <2>7. \A k \in cur : /\ lastOk <= newest
                       /\ \A m \in queue : /\ Mention(m, k)'
                                           /\ copy.marks[k] < m /\ lastOk < m /\ m <= newest
    BY <1>t, <1>6, <1>w DEF HeardOf
  <2>8. \A m : Heard(m)' <=> Heard(m)
    BY <1>1 DEF Heard
  <2> QED  BY <1>1, <2>5, <2>6, <2>7, <2>8 DEF HeardOf
<1>8. ShownOnce'
  <2>1. asked[z] = 0 /\ 0 <= amiss
    BY <1>t, <1>2 DEF ShownOnce, SlackTypes
  <2> QED  BY <1>t, <1>1, <1>2, <1>3, <2>1 DEF ShownOnce
<1>9. Ordered'
  <2>1. ~(asked[z] > 0)
    BY <1>t, <1>2 DEF ShownOnce
  <2>2. \A m \in Said : ~(z < m)
    BY <1>2
  <2>3. \A k \in stateFile.seen : \A m, n \in Said' :
          Mention(m, k)' /\ Mention(n, k)' /\ m > first[k] /\ n > first[k] /\ m < n /\ asked[n] > 0
            => Heard(m)
    BY <1>t, <1>2, <1>6, <2>1, <2>2 DEF Ordered
  <2>8. \A m : Heard(m)' <=> Heard(m)
    BY <1>1 DEF Heard
  <2> QED  BY <1>1, <2>3, <2>8 DEF Ordered
<1> QED  BY <1>4, <1>5, <1>7, <1>8, <1>9 DEF SlackIInv

(* What happens outside of the tick. *)
LEMMA SlackOutside ==
    ASSUME SlackIInv,
           Posts \/ Declines \/ DayPasses \/ NightFalls \/ DayBreaks \/ UNCHANGED slackVars
    PROVE  SlackIInv'
<1>t. SlackTypes /\ Ticking /\ HeardOf /\ ShownOnce /\ Ordered
  BY DEF SlackIInv
<1>n. Said \subseteq Message /\ Count \in Nat /\ MaxMessage \in Nat
  BY <1>t, Numbers
<1> USE DEF slack, tickVars, outside
<1>1. CASE Posts
  <2>1. /\ stateFile' = [stateFile EXCEPT !.posted = stateFile.posted \cup pending] /\ pending' = {}
        /\ UNCHANGED <<history, horizon, copy, left, cur, queue, newest, lastOk, running, quiet,
                       nights, asked, first, amiss>>
    BY <1>1 DEF Posts
  <2>2. Count' = Count /\ Said' = Said
    BY <2>1 DEF Count, Said
  <2>3. stateFile' \in Record /\ stateFile'.seen = stateFile.seen /\ stateFile'.marks = stateFile.marks
    BY <1>t, <2>1 DEF SlackTypes, Record
  <2>4. SlackTypes'
    BY <1>t, <2>1, <2>2, <2>3 DEF SlackTypes
  <2> QED  BY <1>t, <2>1, <2>2, <2>3, <2>4 DEF SlackIInv, Ticking, HeardOf, ShownOnce, Ordered, Mention, Heard
<1>2. CASE DayPasses
  <2>1. /\ horizon < Count /\ amiss < MaxAmiss /\ amiss' = amiss + 1 /\ horizon' = Count
        /\ UNCHANGED <<history, stateFile, copy, left, cur, queue, newest, lastOk, running, pending,
                       quiet, nights, asked, first>>
    BY <1>2 DEF DayPasses, Misses, Count
  <2>2. Count' = Count /\ Said' = Said
    BY <2>1 DEF Count, Said
  <2>3. SlackTypes'
    <3>1. amiss' \in 0 .. MaxAmiss
      BY <1>t, <2>1, SlackWatchAssumption DEF SlackTypes
    <3>2. horizon' \in 0 .. Count
      BY <1>n, <2>1
    <3> QED  BY <1>t, <2>1, <2>2, <3>1, <3>2 DEF SlackTypes
  <2>4. \A m \in Said : asked[m] > 0 \/ m <= Count
    BY <1>t DEF SlackTypes
  <2>5. Ticking' /\ HeardOf' /\ Ordered'
    BY <1>t, <2>1, <2>2, <2>4 DEF Ticking, HeardOf, Ordered, Mention, Heard
  <2>6. ShownOnce'
    <3>1. amiss \in Nat /\ \A m \in Message : asked[m] \in Nat
      BY <1>t DEF SlackTypes
    <3>2. \A m \in Message : /\ asked[m] <= 1 + amiss'
                             /\ asked[m] <= amiss => asked[m] <= amiss'
      BY <1>t, <2>1, <3>1 DEF ShownOnce
    <3> QED  BY <1>t, <1>n, <2>1, <2>2, <3>2 DEF ShownOnce
  <2> QED  BY <2>3, <2>5, <2>6 DEF SlackIInv
<1>3. CASE Declines \/ NightFalls \/ DayBreaks \/ UNCHANGED slackVars
  <2>1. UNCHANGED <<history, horizon, stateFile, copy, left, cur, queue, newest, lastOk, running,
                    asked, first, amiss>>
    BY <1>3 DEF Declines, NightFalls, DayBreaks, slackVars
  <2>2. Count' = Count /\ Said' = Said
    BY <2>1 DEF Count, Said
  <2>3. pending' \subseteq Message /\ quiet' \in BOOLEAN
    BY <1>t, <1>3 DEF Declines, NightFalls, DayBreaks, slackVars, SlackTypes
  <2>4. nights' \in 0 .. MaxNight
    BY <1>t, <1>3, SlackWatchAssumption DEF Declines, NightFalls, DayBreaks, slackVars, SlackTypes
  <2>5. SlackTypes'
    BY <1>t, <2>1, <2>2, <2>3, <2>4 DEF SlackTypes
  <2> QED  BY <1>t, <2>1, <2>2, <2>5 DEF SlackIInv, Ticking, HeardOf, ShownOnce, Ordered, Mention, Heard
<1> QED  BY <1>1, <1>2, <1>3

LEMMA StepSlack == SlackIInv /\ [SlackWatchNext]_slackVars => SlackIInv'
<1> SUFFICES ASSUME SlackIInv, [SlackWatchNext]_slackVars PROVE SlackIInv'
  OBVIOUS
<1>1. ASSUME NEW c \in Channel, Reads(c) \/ Surfaces(c) \/ SurfaceFails(c) \/ Passes(c)
      PROVE  SlackIInv'
  BY <1>1, SlackReads, SlackSurfaces, SlackFails, SlackPasses
<1>2. CASE \E c \in Channel : \E mention \in BOOLEAN : Says(c, mention)
  BY <1>2, SlackSays
<1> QED  BY <1>1, <1>2, SlackTick, SlackSaves, SlackRestarts, SlackOutside
         DEF SlackWatchNext, TickSteps

LEMMA SlackKept == SlackIInv => SlackWatchInv
<1> SUFFICES ASSUME SlackIInv PROVE SlackWatchInv
  OBVIOUS
<1>t. SlackTypes /\ HeardOf /\ ShownOnce /\ Ordered
  BY DEF SlackIInv
<1>n. Said \subseteq Message /\ Count \in Nat /\ MaxMessage \in Nat
  BY <1>t, Numbers
<1>1. SlackWatchTypeOK
  <2>1. Cardinality(cur) <= 1
    <3>1. CASE cur = {}
      BY <3>1, FS_EmptySet
    <3>2. ASSUME NEW c \in Channel, cur = {c} PROVE Cardinality(cur) <= 1
      BY <3>2, FS_Singleton
    <3> QED  BY <1>t, <3>1, <3>2 DEF SlackTypes
  <2>2. FileOK(stateFile) /\ FileOK(copy)
    BY <1>t DEF SlackTypes, Record, FileOK
  <2>3. horizon \in 0 .. MaxMessage /\ newest \in 0 .. MaxMessage /\ lastOk \in 0 .. MaxMessage
    BY <1>t, <1>n DEF SlackTypes
  <2>4. \A m \in Said : history[m].channel \in Channel /\ history[m].mention \in BOOLEAN
    BY <1>t DEF SlackTypes
  <2>5. left \subseteq Channel /\ cur \subseteq Channel /\ queue \subseteq Message
    BY <1>t, <1>n DEF SlackTypes
  <2> QED  BY <1>t, <1>n, <2>1, <2>2, <2>3, <2>4, <2>5 DEF SlackWatchTypeOK, SlackTypes
<1>2. NoneSkipped
  BY <1>t DEF NoneSkipped, Watched, HeardOf, Mention, Heard
<1>3. OnceAsked
  BY <1>t DEF OnceAsked, ShownOnce
<1>4. InOrder
  BY <1>t DEF InOrder, Watched, Ordered, Mention, Heard
<1> QED  BY <1>1, <1>2, <1>3, <1>4 DEF SlackWatchInv

(* A mention in a watched channel is not passed over: what lies below the  *)
(* watermark in slack_watch's state file was shown to the owner, in order, *)
(* once but for crashes and failures -- or is more than a day old.         *)
THEOREM MentionsAreKept == SlackWatchSpec => []SlackWatchInv
<1> QED  BY InitSlack, StepSlack, SlackKept, PTL DEF SlackWatchSpec
-----------------------------------------------------------------------------
(***************************************************************************)
(* Agent tasks.  A task depends on nothing but its record, its timers, its *)
(* redeliveries and the fibers that work on it, so every step is checked   *)
(* at the one task it is about (Keeps: the others stay right).  A running  *)
(* series has the timer of its due time and no other; a one-shot has that  *)
(* timer or one fiber, never both, and what the fiber is doing says where  *)
(* the result is: not made yet, in its hands, or stashed.                  *)
(***************************************************************************)
TaskTypes ==
    /\ DOMAIN tasks \subseteq Task /\ tasks \in [DOMAIN tasks -> TaskRecord]
    /\ timer \in [Task -> [Delay -> Nat]]
    /\ flush \in [Task -> SUBSET Delay]
    /\ job \in [Fiber -> Fire \cup {Free}]
    /\ on \in BOOLEAN /\ hushed \in BOOLEAN /\ works \in BOOLEAN
    /\ made \in [Task -> 0 .. 2]
    /\ told \subseteq Task \X Label

(* The timer of a due time, alone. *)
OneAt(d) == Queued(NoTimer, d)

Series(i) ==
    /\ made[i] = 0
    /\ on /\ tasks[i].active => timer[i] = OneAt(tasks[i].due)
    /\ on /\ tasks[i].active /\ tasks[i].stash # Empty =>
        \/ flush[i] # {}
        \/ \E f \in Of(i) : job[f].at \in {"flushing", "flushed"}

OneShot(i) ==
    /\ flush[i] = {}
    /\ on /\ tasks[i].active =>
        \/ timer[i] = OneAt(tasks[i].due) /\ Of(i) = {}
        \/ timer[i] = NoTimer /\ Of(i) # {}
    /\ \A f, g \in Of(i) : f = g
    /\ \A f \in Of(i) :
        /\ job[f].at = "running" => made[i] = 0 /\ tasks[i].stash = Empty
        /\ job[f].at \in {"flushing", "flushed"} => tasks[i].stash = job[f].text
        /\ job[f].at = "flushed" => <<i, job[f].text>> \in told
        /\ job[f].at \in {"sending", "sent"} => tasks[i].stash = Empty
    /\ made[i] <= 1
    /\ made[i] > 0 => \/ ~tasks[i].active
                      \/ tasks[i].stash # Empty
                      \/ \E f \in Of(i) : job[f].at # "running"

TaskRight(i) ==
    /\ i \notin DOMAIN tasks => timer[i] = NoTimer /\ flush[i] = {} /\ Of(i) = {} /\ made[i] = 0
    /\ ~on => Of(i) = {}
    /\ i \in DOMAIN tasks /\ tasks[i].repeat => Series(i)
    /\ i \in DOMAIN tasks /\ ~tasks[i].repeat => OneShot(i)

TasksIInv == TaskTypes /\ \A i \in Task : TaskRight(i)

Keeps(k) ==
    /\ on' = on /\ made'[k] = made[k]
    /\ k \in DOMAIN tasks' <=> k \in DOMAIN tasks
    /\ k \in DOMAIN tasks => tasks'[k] = tasks[k]
    /\ timer'[k] = timer[k] /\ flush'[k] = flush[k]
    /\ Of(k)' = Of(k) /\ \A f \in Of(k) : job'[f] = job[f]
    /\ \A u \in Label : <<k, u>> \in told => <<k, u>> \in told'

LEMMA StaysRight == ASSUME TaskTypes, NEW k \in Task, TaskRight(k), Keeps(k)
                    PROVE  TaskRight(k)'
<1>1. \A f \in Of(k) : job[f].at = "flushed" => job[f].text \in Label
  BY DEF TaskTypes, Of, Fire, Free
<1> QED  BY <1>1 DEF TaskRight, Keeps, Series, OneShot

(* The arithmetic of the clock. *)
LEMMA Phases == ASSUME NEW d \in Int PROVE d % Period \in 0 .. Period - 1
  BY TasksAssumption

LEMMA Distances ==
    /\ Horizon \in Nat /\ Horizon >= 1 /\ Period \in Nat /\ Period >= 1 /\ Period <= Horizon
    /\ {Hold, RunRetry, SendRetry, BootFlush} \subseteq Delay
    /\ Delay \subseteq Due /\ 0 \in Delay /\ Due \subseteq Int
  BY TasksAssumption DEF Delay, Due

LEMMA Occurrences ==
    /\ \A d \in Due : d <= 0 => NextAhead(d) \in Due /\ NextAhead(d) > 0
    /\ \A d \in Due : FirstAhead(d) \in Due
<1>1. ASSUME NEW d \in Due, d <= 0 PROVE NextAhead(d) \in Due /\ NextAhead(d) > 0
  <2>1. d \in Int /\ -d \in Int
    BY Distances
  <2>2. PICK p \in 0 .. Period - 1 : (-d) % Period = p
    BY <2>1, Phases
  <2>3. NextAhead(d) = Period - p
    BY <1>1, <2>1, <2>2 DEF NextAhead
  <2> QED  BY <2>2, <2>3, Distances DEF Due
<1>2. ASSUME NEW d \in Due PROVE FirstAhead(d) \in Due
  <2>1. PICK p \in 0 .. Period - 1 : d % Period = p
    BY Phases, Distances
  <2> QED  BY <2>1, Distances DEF Due, FirstAhead
<1> QED  BY <1>1, <1>2

LEMMA Timers ==
    ASSUME NEW d \in Due
    PROVE  /\ OneAt(d) \in [Delay -> Nat] /\ NoTimer \in [Delay -> Nat] /\ Now(d) \in Delay
           /\ \A x \in Delay : NoTimer[x] = 0 /\ OneAt(d)[x] = IF x = Now(d) THEN 1 ELSE 0
           /\ OneAt(d)[0] > 0 => d <= 0 /\ [OneAt(d) EXCEPT ![0] = @ - 1] = NoTimer
<1>1. Now(d) \in Delay
  BY Distances DEF Now, Due, Delay
<1>2. NoTimer \in [Delay -> Nat] /\ \A x \in Delay : NoTimer[x] = 0
  BY DEF NoTimer
<1>3. OneAt(d) \in [Delay -> Nat] /\ \A x \in Delay : OneAt(d)[x] = IF x = Now(d) THEN 1 ELSE 0
  BY <1>1, <1>2 DEF OneAt, Queued
<1>4. ASSUME OneAt(d)[0] > 0 PROVE d <= 0 /\ [OneAt(d) EXCEPT ![0] = @ - 1] = NoTimer
  <2>1. Now(d) = 0 /\ 0 \in Delay
    BY <1>3, <1>4, Distances
  <2>2. d <= 0
    BY <2>1, Distances DEF Now, Due
  <2>3. \A x \in Delay : [OneAt(d) EXCEPT ![0] = @ - 1][x] = 0
    BY <1>3, <2>1
  <2> QED  BY <1>2, <1>3, <2>2, <2>3 DEF NoTimer
<1> QED  BY <1>1, <1>2, <1>3, <1>4

LEMMA InitTasks == TasksInit => TasksIInv
<1> SUFFICES ASSUME TasksInit PROVE TasksIInv
  OBVIOUS
<1> USE DEF TasksInit
<1>1. NoTimer \in [Delay -> Nat]
  BY DEF NoTimer
<1>2. DOMAIN tasks = {} /\ tasks \in [{} -> TaskRecord]
  OBVIOUS
<1>3. TaskTypes
  <2>1. DOMAIN tasks \subseteq Task /\ tasks \in [DOMAIN tasks -> TaskRecord]
    BY <1>2
  <2>2. job \in [Fiber -> Fire \cup {Free}] /\ timer \in [Task -> [Delay -> Nat]]
    BY <1>1
  <2>3. flush \in [Task -> SUBSET Delay] /\ made \in [Task -> 0 .. 2] /\ told \subseteq Task \X Label
    OBVIOUS
  <2>4. on \in BOOLEAN /\ hushed \in BOOLEAN /\ works \in BOOLEAN
    OBVIOUS
  <2> QED  BY <2>1, <2>2, <2>3, <2>4, Zenon DEF TaskTypes
<1>4. \A i \in Task : Of(i) = {}
  BY DEF Of
<1>5. \A i \in Task : TaskRight(i)
  BY <1>2, <1>4 DEF TaskRight
<1> QED  BY <1>3, <1>5 DEF TasksIInv

(* A step about one task.                                                  *)
LEMMA OneTask ==
    ASSUME TasksIInv, TaskTypes', NEW i \in Task, \A k \in Task \ {i} : Keeps(k), TaskRight(i)'
    PROVE  TasksIInv'
<1>1. ASSUME NEW k \in Task PROVE TaskRight(k)'
  <2>1. CASE k = i
    BY <2>1
  <2>2. CASE k # i
    <3>1. TaskRight(k) /\ Keeps(k) /\ TaskTypes
      BY <2>2 DEF TasksIInv
    <3> QED  BY <3>1, StaysRight
  <2> QED  BY <2>1, <2>2
<1> QED  BY <1>1 DEF TasksIInv

LEMMA StepCreate ==
    ASSUME TasksIInv, NEW i \in Task, NEW d \in TaskAhead, NEW rep \in BOOLEAN, CreateTask(i, d, rep)
    PROVE  TasksIInv'
<1>t. TaskTypes /\ TaskRight(i)
  BY DEF TasksIInv
<1>1. PICK r : r = Scheduled(NewTask(d, rep))
  OBVIOUS
<1>2. /\ on /\ i \notin DOMAIN tasks
      /\ tasks' = [k \in DOMAIN tasks \cup {i} |-> IF k = i THEN r ELSE tasks[k]]
      /\ timer' = [timer EXCEPT ![i] = Queued(@, r.due)]
      /\ UNCHANGED <<flush, job, on, hushed, works, made, told>>
  BY <1>1 DEF CreateTask, Queue
<1>3. r \in TaskRecord /\ r.due \in Due /\ r.active = TRUE /\ r.stash = Empty
  <2>1. d \in Due
    BY TasksAssumption DEF Due
  <2>2. FirstAhead(d) \in Due
    BY <2>1, Occurrences
  <2> QED  BY <1>1, <2>1, <2>2 DEF Scheduled, NewTask, TaskRecord
<1>4. timer[i] = NoTimer /\ flush[i] = {} /\ Of(i) = {} /\ made[i] = 0
  BY <1>2, <1>t DEF TaskRight
<1>5. timer'[i] = OneAt(r.due) /\ OneAt(r.due) \in [Delay -> Nat]
  BY <1>2, <1>3, <1>4, <1>t, Timers DEF TaskTypes, OneAt
<1>6. /\ DOMAIN tasks' = DOMAIN tasks \cup {i} /\ tasks'[i] = r
      /\ \A k \in DOMAIN tasks : k # i /\ tasks'[k] = tasks[k]
  BY <1>2
<1>7. TaskTypes'
  <2>1. tasks' \in [DOMAIN tasks' -> TaskRecord]
    BY <1>2, <1>3, <1>6, <1>t DEF TaskTypes
  <2>2. timer' \in [Task -> [Delay -> Nat]]
    BY <1>2, <1>5, <1>t DEF TaskTypes
  <2> QED  BY <1>2, <1>6, <1>t, <2>1, <2>2 DEF TaskTypes
<1>8. \A k \in Task \ {i} : Keeps(k)
  BY <1>2, <1>6, <1>t DEF Keeps, TaskTypes, Of
<1>9. TaskRight(i)'
  BY <1>2, <1>3, <1>4, <1>5, <1>6 DEF TaskRight, Series, OneShot, Of
<1> QED  BY <1>7, <1>8, <1>9, OneTask

(* A record changes; the timers, the fibers and what was told do not.      *)
LEMMA StepCancel ==
    ASSUME TasksIInv, NEW i \in Task, CancelTask(i) PROVE TasksIInv'
<1>t. TaskTypes /\ TaskRight(i)
  BY DEF TasksIInv
<1>1. /\ i \in DOMAIN tasks /\ tasks' = [tasks EXCEPT ![i] = [tasks[i] EXCEPT !.active = FALSE]]
      /\ UNCHANGED <<timer, flush, job, on, hushed, works, made, told>>
  BY DEF CancelTask, Cancelled, Active, SetTo
<1>2. tasks[i] \in TaskRecord
  BY <1>1, <1>t DEF TaskTypes
<1>3. /\ DOMAIN tasks' = DOMAIN tasks /\ tasks'[i] \in TaskRecord
      /\ tasks'[i].repeat = tasks[i].repeat /\ tasks'[i].stash = tasks[i].stash
      /\ tasks'[i].active = FALSE
      /\ \A k \in DOMAIN tasks \ {i} : tasks'[k] = tasks[k]
  BY <1>1, <1>2, <1>t DEF TaskTypes, TaskRecord
<1>4. TaskTypes'
  <2>1. tasks' \in [DOMAIN tasks' -> TaskRecord]
    BY <1>1, <1>3, <1>t DEF TaskTypes
  <2> QED  BY <1>1, <1>3, <1>t, <2>1 DEF TaskTypes
<1>5. \A k \in Task \ {i} : Keeps(k)
  BY <1>1, <1>3 DEF Keeps, Of
<1>6. TaskRight(i)'
  BY <1>1, <1>3, <1>t DEF TaskRight, Series, OneShot, Of
<1> QED  BY <1>4, <1>5, <1>6, OneTask

(* The jobs of a task that is due, one of them taken.                      *)
LEMMA Advancing ==
    ASSUME TasksIInv, NEW i \in Task, NEW only \in BOOLEAN, DueNow(i, only), Active(i),
           Advanced(i, only)
    PROVE  /\ DOMAIN tasks' = DOMAIN tasks /\ tasks' \in [DOMAIN tasks -> TaskRecord]
           /\ timer' \in [Task -> [Delay -> Nat]]
           /\ \A k \in Task \ {i} : tasks'[k] = tasks[k] /\ timer'[k] = timer[k]
           /\ tasks'[i].repeat = tasks[i].repeat /\ tasks'[i].stash = tasks[i].stash
           /\ tasks'[i].active = TRUE /\ tasks'[i].due \in Due
           /\ tasks[i].repeat => timer'[i] = OneAt(tasks'[i].due)
           /\ ~tasks[i].repeat => ~only /\ timer'[i] = NoTimer /\ Of(i) = {} /\ tasks' = tasks
<1>t. /\ TaskTypes /\ TaskRight(i) /\ i \in DOMAIN tasks /\ tasks[i].active = TRUE
      /\ tasks[i] \in TaskRecord /\ on
  BY DEF TasksIInv, Active, TaskTypes, TaskRecord, DueNow
<1>d. tasks[i].due \in Due /\ tasks[i].repeat \in BOOLEAN
  BY <1>t DEF TaskRecord
<1>1. CASE only
  <2>1. tasks' = tasks /\ timer' = timer /\ flush[i] # {}
    BY <1>1 DEF Advanced, DueNow
  <2>2. tasks[i].repeat
    BY <1>t, <2>1 DEF TaskRight, OneShot
  <2>3. timer[i] = OneAt(tasks[i].due)
    BY <1>t, <2>2 DEF TaskRight, Series
  <2> QED  BY <1>t, <1>d, <2>1, <2>2, <2>3 DEF TaskTypes
<1>2. CASE ~only /\ tasks[i].repeat
  <2>1. PICK d : d = NextAhead(tasks[i].due)
    OBVIOUS
  <2>2. /\ tasks' = [tasks EXCEPT ![i] = [tasks[i] EXCEPT !.due = d]]
        /\ timer' = [timer EXCEPT ![i] = Queued(Consumed(i), d)]
    BY <1>2, <2>1 DEF Advanced, SetTo, Active
  <2>3. timer[i] = OneAt(tasks[i].due) /\ timer[i][0] > 0
    BY <1>2, <1>t DEF TaskRight, Series, DueNow
  <2>4. Consumed(i) = NoTimer /\ d \in Due
    BY <1>d, <2>1, <2>3, Timers, Occurrences DEF Consumed
  <2>5. Queued(Consumed(i), d) = OneAt(d) /\ OneAt(d) \in [Delay -> Nat]
    BY <2>4, Timers DEF OneAt
  <2>6. tasks'[i] = [tasks[i] EXCEPT !.due = d] /\ [tasks[i] EXCEPT !.due = d] \in TaskRecord
    BY <1>t, <2>2, <2>4 DEF TaskTypes, TaskRecord
  <2>7. /\ tasks'[i].repeat = tasks[i].repeat /\ tasks'[i].stash = tasks[i].stash
        /\ tasks'[i].active = TRUE /\ tasks'[i].due = d
    BY <1>t, <2>6 DEF TaskRecord
  <2>8. DOMAIN tasks' = DOMAIN tasks /\ tasks' \in [DOMAIN tasks -> TaskRecord]
    BY <1>t, <2>2, <2>6 DEF TaskTypes
  <2>9. /\ timer' \in [Task -> [Delay -> Nat]] /\ timer'[i] = OneAt(d)
        /\ \A k \in Task \ {i} : tasks'[k] = tasks[k] /\ timer'[k] = timer[k]
    BY <1>t, <2>2, <2>5 DEF TaskTypes
  <2> QED  BY <1>2, <2>4, <2>7, <2>8, <2>9
<1>3. CASE ~only /\ ~tasks[i].repeat
  <2>1. tasks' = tasks /\ timer' = [timer EXCEPT ![i] = Consumed(i)] /\ timer[i][0] > 0
    BY <1>3 DEF Advanced, DueNow
  <2>2. timer[i] # NoTimer
    BY <2>1, <1>d, Timers, Distances
  <2>3. timer[i] = OneAt(tasks[i].due) /\ Of(i) = {}
    BY <1>3, <1>t, <2>2 DEF TaskRight, OneShot
  <2>4. Consumed(i) = NoTimer /\ NoTimer \in [Delay -> Nat]
    BY <1>d, <2>1, <2>3, Timers DEF Consumed
  <2> QED  BY <1>3, <1>t, <1>d, <2>1, <2>3, <2>4 DEF TaskTypes
<1> QED  BY <1>1, <1>2, <1>3

(* fire(): what is queued for a task runs.                                 *)
LEMMA StepNothing ==
    ASSUME TasksIInv, NEW i \in Task, NEW only \in BOOLEAN, FireNothing(i, only) PROVE TasksIInv'
<1>t. /\ TaskTypes /\ TaskRight(i) /\ DueNow(i, only) /\ on
      /\ flush' \in [Task -> SUBSET Delay] /\ \A k \in Task \ {i} : flush'[k] = flush[k]
      /\ flush'[i] \subseteq flush[i]
      /\ UNCHANGED <<job, on, hushed, works, made, told>>
  BY DEF TasksIInv, FireNothing, FlushTaken, TaskTypes, DueNow
<1>1. CASE Active(i)
  <2>1. only /\ tasks[i].stash = Empty /\ i \in DOMAIN tasks /\ Advanced(i, only)
    BY <1>1 DEF FireNothing, Active
  <2>2. UNCHANGED <<tasks, timer>>
    BY <2>1 DEF Advanced
  <2>3. TaskTypes'
    BY <1>t, <2>2 DEF TaskTypes
  <2>4. \A k \in Task \ {i} : Keeps(k)
    BY <1>t, <2>2 DEF Keeps, Of
  <2>5. TaskRight(i)'
    BY <1>t, <2>1, <2>2 DEF TaskRight, Series, OneShot, Of
  <2> QED  BY <2>3, <2>4, <2>5, OneTask
<1>2. CASE ~Active(i)
  <2>1. i \in DOMAIN tasks /\ ~tasks[i].active
    <3>1. NoTimer[0] = 0
      BY Timers, Distances DEF NoTimer, Delay
    <3> QED  BY <1>t, <1>2, <3>1 DEF TaskRight, Active, DueNow
  <2>2. /\ tasks' = tasks
        /\ timer' = timer \/ (~only /\ timer' = [timer EXCEPT ![i] = Consumed(i)])
    <3>1. Advanced(i, only) /\ ~(Active(i) /\ tasks[i].repeat)
      BY <1>2 DEF FireNothing
    <3>2. CASE only
      <4>1. Advanced(i, only)
        BY <3>1
      <4>2. tasks' = tasks /\ timer' = timer
        BY <3>2, <4>1 DEF Advanced
      <4> QED  BY <4>2
    <3>3. CASE ~only
      BY <3>1, <3>3 DEF Advanced
    <3> QED  BY <3>2, <3>3
  <2>3. timer' \in [Task -> [Delay -> Nat]] /\ \A k \in Task \ {i} : timer'[k] = timer[k]
    <3>1. CASE timer' = timer
      BY <1>t, <3>1 DEF TaskTypes
    <3>2. CASE ~only /\ timer' = [timer EXCEPT ![i] = Consumed(i)]
      <4>1. timer[i] \in [Delay -> Nat] /\ timer[i][0] > 0
        BY <1>t, <3>2 DEF TaskTypes, DueNow
      <4>2. Consumed(i) \in [Delay -> Nat]
        BY <4>1, Distances DEF Consumed
      <4> QED  BY <1>t, <3>2, <4>2 DEF TaskTypes
    <3> QED  BY <2>2, <3>1, <3>2
  <2>4. TaskTypes'
    BY <1>t, <2>2, <2>3 DEF TaskTypes
  <2>5. \A k \in Task \ {i} : Keeps(k)
    BY <1>t, <2>2, <2>3 DEF Keeps, Of
  <2>6. TaskRight(i)'
    BY <1>t, <2>1, <2>2 DEF TaskRight, Series, OneShot, Of
  <2> QED  BY <2>4, <2>5, <2>6, OneTask
<1> QED  BY <1>1, <1>2

LEMMA StepHeld ==
    ASSUME TasksIInv, NEW i \in Task, NEW only \in BOOLEAN, FireHeld(i, only) PROVE TasksIInv'
<1>t. /\ TaskTypes /\ TaskRight(i) /\ DueNow(i, only) /\ Active(i) /\ on /\ i \in DOMAIN tasks
      /\ tasks[i] \in TaskRecord
      /\ UNCHANGED <<job, on, hushed, works, made, told>>
  BY DEF TasksIInv, FireHeld, DueNow, TaskTypes, Active
<1>h. Hold \in Delay /\ Hold \in Due
  BY Distances
<1>1. CASE tasks[i].repeat
  <2>1. /\ Advanced(i, only)
        /\ flush' = [flush EXCEPT ![i] = FlushTaken(i, only)[i]
                        \cup IF tasks[i].stash # Empty THEN {Hold} ELSE {}]
    BY <1>1 DEF FireHeld
  <2>2. /\ flush' \in [Task -> SUBSET Delay] /\ \A k \in Task \ {i} : flush'[k] = flush[k]
        /\ tasks[i].stash # Empty => flush'[i] # {}
    <3>1. FlushTaken(i, only)[i] \subseteq Delay
      BY <1>t DEF FlushTaken, TaskTypes
    <3> QED  BY <1>t, <1>h, <2>1, <3>1 DEF TaskTypes
  <2>a. /\ DOMAIN tasks' = DOMAIN tasks /\ tasks' \in [DOMAIN tasks -> TaskRecord]
        /\ timer' \in [Task -> [Delay -> Nat]]
        /\ \A k \in Task \ {i} : tasks'[k] = tasks[k] /\ timer'[k] = timer[k]
    BY <1>t, <2>1, Advancing
  <2>3. TaskTypes'
    BY <1>t, <2>a, <2>2 DEF TaskTypes
  <2>4. \A k \in Task \ {i} : Keeps(k)
    BY <1>t, <2>a, <2>2 DEF Keeps, Of
  <2>5. tasks'[i].repeat /\ tasks'[i].stash = tasks[i].stash /\ timer'[i] = OneAt(tasks'[i].due)
        /\ i \in DOMAIN tasks'
    BY <1>1, <1>t, <2>1, Advancing
  <2>6. TaskRight(i)'
    BY <1>1, <1>t, <2>2, <2>5 DEF TaskRight, Series, Of
  <2> QED  BY <2>3, <2>4, <2>6, OneTask
<1>2. CASE ~tasks[i].repeat
  <2>1. /\ tasks' = [tasks EXCEPT ![i] = [tasks[i] EXCEPT !.due = Hold]]
        /\ timer' = [timer EXCEPT ![i] = Queued(Consumed(i), Hold)]
        /\ flush' = FlushTaken(i, only)
    BY <1>2 DEF FireHeld, SetTo
  <2>2. flush[i] = {} /\ ~only
    BY <1>2, <1>t DEF TaskRight, OneShot, DueNow
  <2>3. timer[i] # NoTimer
    BY <1>t, <2>2, Timers, <1>h, Distances DEF DueNow
  <2>4. timer[i] = OneAt(tasks[i].due) /\ Of(i) = {} /\ tasks[i].due \in Due
    BY <1>2, <1>t, <2>3 DEF TaskRight, OneShot, Active, TaskRecord
  <2>5. Consumed(i) = NoTimer
    BY <1>t, <2>2, <2>4, Timers DEF Consumed, DueNow
  <2>6. timer'[i] = OneAt(Hold) /\ OneAt(Hold) \in [Delay -> Nat]
    BY <1>h, <1>t, <2>1, <2>5, Timers DEF OneAt, TaskTypes
  <2>7. /\ tasks'[i] \in TaskRecord /\ tasks'[i].due = Hold /\ tasks'[i].stash = tasks[i].stash
        /\ tasks'[i].repeat = tasks[i].repeat /\ tasks'[i].active = tasks[i].active
        /\ DOMAIN tasks' = DOMAIN tasks /\ \A k \in DOMAIN tasks \ {i} : tasks'[k] = tasks[k]
    BY <1>h, <1>t, <2>1 DEF TaskRecord, TaskTypes
  <2>8. flush' = flush
    BY <2>1, <2>2 DEF FlushTaken
  <2>9. TaskTypes'
    <3>1. tasks' \in [DOMAIN tasks' -> TaskRecord] /\ timer' \in [Task -> [Delay -> Nat]]
      BY <1>t, <2>1, <2>6, <2>7 DEF TaskTypes
    <3> QED  BY <1>t, <2>7, <2>8, <3>1 DEF TaskTypes
  <2>10. \A k \in Task \ {i} : Keeps(k)
    BY <1>t, <2>1, <2>7, <2>8 DEF Keeps, Of, TaskTypes
  <2>11. TaskRight(i)'
    BY <1>t, <1>2, <2>4, <2>6, <2>7, <2>8 DEF TaskRight, OneShot, Of
  <2> QED  BY <2>9, <2>10, <2>11, OneTask
<1> QED  BY <1>1, <1>2

(* A fiber begins: on the stash, or on the instruction.                    *)
LEMMA StepTakes ==
    ASSUME TasksIInv, NEW i \in Task, NEW f \in Fiber, NEW only \in BOOLEAN, NEW what \in Fire,
           Takes(i, only, f, what), what.id = i,
           \/ /\ tasks[i].stash # Empty /\ what.at = "flushing" /\ what.text = tasks[i].stash
           \/ tasks[i].stash = Empty /\ ~only /\ what.at = "running"
    PROVE  TasksIInv'
<1>t. /\ TaskTypes /\ TaskRight(i) /\ DueNow(i, only) /\ Active(i) /\ on /\ i \in DOMAIN tasks
      /\ tasks[i] \in TaskRecord /\ Advanced(i, only)
      /\ job[f] = Free /\ job' = [job EXCEPT ![f] = what]
      /\ flush' \in [Task -> SUBSET Delay] /\ \A k \in Task \ {i} : flush'[k] = flush[k]
      /\ ~only => flush' = flush
      /\ UNCHANGED <<on, hushed, works, made, told>>
  BY DEF TasksIInv, Takes, DueNow, TaskTypes, Active, FlushTaken
<1>w. what # Free /\ job'[f] = what /\ \A g \in Fiber \ {f} : job'[g] = job[g]
  BY <1>t DEF Fire, Free, TaskTypes
<1>o. /\ Of(i)' = Of(i) \cup {f} /\ f \notin Of(i)
      /\ \A k \in Task \ {i} : Of(k)' = Of(k) /\ f \notin Of(k)
      /\ \A k \in Task : \A g \in Of(k) : g \in Fiber \ {f}
  BY <1>t, <1>w DEF Of
<1>a. /\ DOMAIN tasks' = DOMAIN tasks /\ tasks' \in [DOMAIN tasks -> TaskRecord]
      /\ timer' \in [Task -> [Delay -> Nat]]
      /\ \A k \in Task \ {i} : tasks'[k] = tasks[k] /\ timer'[k] = timer[k]
  BY <1>t, Advancing
<1>1. TaskTypes'
  BY <1>t, <1>a DEF TaskTypes
<1>2. ASSUME NEW k \in Task \ {i} PROVE Keeps(k)
  BY <1>t, <1>a, <1>o, <1>w DEF Keeps
<1>3. TaskRight(i)'
  <2>1. /\ tasks'[i].repeat = tasks[i].repeat /\ tasks'[i].stash = tasks[i].stash
        /\ i \in DOMAIN tasks'
    BY <1>t, Advancing
  <2>2. CASE tasks[i].repeat
    <3>1. timer'[i] = OneAt(tasks'[i].due)
      BY <1>t, <2>2, Advancing
    <3>2. tasks[i].stash # Empty => \E g \in Of(i)' : job'[g].at = "flushing"
      BY <1>o, <1>w
    <3> QED  BY <1>t, <2>1, <2>2, <3>1, <3>2 DEF TaskRight, Series
  <2>3. CASE ~tasks[i].repeat
    <3>0. ~only /\ timer'[i] = NoTimer /\ tasks' = tasks /\ Of(i) = {}
      BY <1>t, <2>3, Advancing
    <3>1. ~only /\ timer'[i] = NoTimer /\ Of(i)' = {f} /\ tasks' = tasks /\ flush' = flush
          /\ Of(i) = {}
      BY <1>t, <1>o, <3>0
    <3>2. made[i] > 0 => tasks[i].stash # Empty
      BY <1>t, <2>3, <3>1 DEF TaskRight, OneShot, Active
    <3>3. made[i] \in 0 .. 2
      BY <1>t DEF TaskTypes
    <3> QED  BY <1>t, <1>w, <2>3, <3>1, <3>2, <3>3 DEF TaskRight, OneShot
  <2> QED  BY <2>2, <2>3
<1> QED  BY <1>1, <1>2, <1>3, OneTask

LEMMA StepFires ==
    ASSUME TasksIInv, NEW i \in Task, Fires(i) PROVE TasksIInv'
<1>1. CASE \E only \in BOOLEAN : FireNothing(i, only) \/ FireHeld(i, only)
  BY <1>1, StepNothing, StepHeld
<1>2. ASSUME NEW only \in BOOLEAN, NEW f \in Fiber, FireFlush(i, only, f) PROVE TasksIInv'
  <2>1. PICK w : w = [at |-> "flushing", id |-> i, text |-> tasks[i].stash, only |-> only]
    OBVIOUS
  <2>2. i \in DOMAIN tasks /\ tasks[i].stash # Empty /\ Takes(i, only, f, w)
    BY <1>2, <2>1 DEF FireFlush
  <2>3. tasks[i].stash \in Label
    BY <2>2 DEF TasksIInv, TaskTypes, TaskRecord
  <2>4. w \in Fire /\ w.id = i /\ w.at = "flushing" /\ w.text = tasks[i].stash
    BY <2>1, <2>3 DEF Fire
  <2> QED  BY <2>2, <2>4, StepTakes
<1>3. ASSUME NEW f \in Fiber, FireRun(i, f) PROVE TasksIInv'
  <2>1. PICK w : w = [at |-> "running", id |-> i]
    OBVIOUS
  <2>2. tasks[i].stash = Empty /\ Takes(i, FALSE, f, w)
    BY <1>3, <2>1 DEF FireRun
  <2>3. w \in Fire /\ w.id = i /\ w.at = "running"
    BY <2>1 DEF Fire
  <2> QED  BY <2>2, <2>3, StepTakes
<1> QED  BY <1>1, <1>2, <1>3 DEF Fires

(* What the awaits return to: the fiber's task, and what is known of it.   *)
LEMMA AtWork ==
    ASSUME TasksIInv, NEW f \in Fiber, NEW i, job[f] # Free, job[f].id = i
    PROVE  /\ i \in DOMAIN tasks /\ i \in Task /\ f \in Of(i) /\ on /\ TaskTypes
           /\ tasks[i] \in TaskRecord /\ TaskRight(i) /\ job[f] \in Fire
           /\ job[f].at # "running" => job[f].text \in Label
           /\ \A k \in Task \ {i} : f \notin Of(k)
<1>1. TaskTypes /\ job[f] \in Fire /\ f \in Of(i)
  BY DEF TasksIInv, TaskTypes, Of
<1>2. i \in Task /\ (job[f].at # "running" => job[f].text \in Label)
  BY <1>1 DEF Fire
<1>3. TaskRight(i)
  BY <1>2 DEF TasksIInv
<1>4. i \in DOMAIN tasks /\ on
  BY <1>1, <1>3 DEF TaskRight
<1>5. tasks[i] \in TaskRecord
  BY <1>1, <1>4 DEF TaskTypes
<1>6. \A k \in Task \ {i} : f \notin Of(k)
  BY DEF Of
<1> QED  BY <1>1, <1>2, <1>3, <1>4, <1>5, <1>6

(* A fiber of task i resumes: i's record becomes r, the fiber what.        *)
Turned(i, f, what, r) ==
    /\ job' = [job EXCEPT ![f] = what] /\ tasks' = [tasks EXCEPT ![i] = r]
    /\ timer' \in [Task -> [Delay -> Nat]] /\ flush' \in [Task -> SUBSET Delay]
    /\ made' \in [Task -> 0 .. 2] /\ told' \subseteq Task \X Label
    /\ \A k \in Task \ {i} : /\ timer'[k] = timer[k] /\ flush'[k] = flush[k] /\ made'[k] = made[k]
                             /\ \A u \in Label : <<k, u>> \in told => <<k, u>> \in told'
    /\ UNCHANGED <<on, hushed, works>>

LEMMA Resuming ==
    ASSUME TasksIInv, NEW f \in Fiber, NEW i, job[f] # Free, job[f].id = i,
           NEW what \in Fire \cup {Free}, what = Free \/ (what \in Fire /\ what.id = i),
           NEW r \in TaskRecord, Turned(i, f, what, r)
    PROVE  /\ TaskRight(i)' => TasksIInv'
           /\ i \in DOMAIN tasks' /\ tasks'[i] = r /\ job'[f] = what
           /\ Of(i)' = IF what = Free THEN Of(i) \ {f} ELSE Of(i)
           /\ \A g \in Fiber \ {f} : job'[g] = job[g]
<1>1. /\ i \in DOMAIN tasks /\ i \in Task /\ TaskTypes
  BY AtWork
<1>2. /\ job' \in [Fiber -> Fire \cup {Free}] /\ job'[f] = what
      /\ \A g \in Fiber \ {f} : job'[g] = job[g]
      /\ Of(i)' = IF what = Free THEN Of(i) \ {f} ELSE Of(i)
      /\ \A k \in Task \ {i} : Of(k)' = Of(k) /\ \A g \in Of(k) : job'[g] = job[g]
  <2>1. job[f] \in Fire /\ f \in Of(i) /\ job' = [job EXCEPT ![f] = what]
    BY AtWork DEF Turned
  <2>2. /\ job' \in [Fiber -> Fire \cup {Free}] /\ job'[f] = what
        /\ \A g \in Fiber \ {f} : job'[g] = job[g]
    BY <1>1, <2>1 DEF TaskTypes
  <2>3. \A k \in Task \ {i} : Of(k)' = Of(k) /\ \A g \in Of(k) : job'[g] = job[g]
    BY <2>1, <2>2 DEF Of
  <2>4. Of(i)' = IF what = Free THEN Of(i) \ {f} ELSE Of(i)
    BY <2>1, <2>2 DEF Of, Fire, Free
  <2> QED  BY <2>2, <2>3, <2>4
<1>3. /\ DOMAIN tasks' = DOMAIN tasks /\ tasks'[i] = r
      /\ \A k \in DOMAIN tasks \ {i} : tasks'[k] = tasks[k]
  BY <1>1 DEF TaskTypes, Turned
<1>4. TaskTypes'
  <2>1. tasks' \in [DOMAIN tasks' -> TaskRecord]
    BY <1>1, <1>3 DEF TaskTypes, Turned
  <2> QED  BY <1>1, <1>2, <1>3, <2>1 DEF TaskTypes, Turned
<1>5. ASSUME NEW k \in Task \ {i} PROVE Keeps(k)
  BY <1>2, <1>3 DEF Keeps, Turned
<1>6. TaskRight(i)' => TasksIInv'
  BY <1>1, <1>4, <1>5, OneTask
<1> QED  BY <1>1, <1>2, <1>3, <1>6

LEMMA Queues ==
    ASSUME TaskTypes, NEW i \in Task, NEW d \in Delay
    PROVE  /\ Queue(i, d) =>
                /\ timer' \in [Task -> [Delay -> Nat]] /\ \A k \in Task \ {i} : timer'[k] = timer[k]
                /\ timer[i] = NoTimer => timer'[i] = OneAt(d)
           /\ FlushIn(i, d) =>
                /\ flush' \in [Task -> SUBSET Delay] /\ \A k \in Task \ {i} : flush'[k] = flush[k]
                /\ flush'[i] # {}
<1>1. timer[i] \in [Delay -> Nat] /\ Now(d) \in Delay
  BY Distances, Timers DEF TaskTypes
<1>2. Queued(timer[i], d) \in [Delay -> Nat]
  BY <1>1 DEF Queued
<1>3. ASSUME Queue(i, d)
      PROVE  /\ timer' \in [Task -> [Delay -> Nat]] /\ \A k \in Task \ {i} : timer'[k] = timer[k]
             /\ timer[i] = NoTimer => timer'[i] = OneAt(d)
  BY <1>2, <1>3 DEF Queue, TaskTypes, OneAt
<1>4. ASSUME FlushIn(i, d)
      PROVE  /\ flush' \in [Task -> SUBSET Delay] /\ \A k \in Task \ {i} : flush'[k] = flush[k]
             /\ flush'[i] # {}
  BY <1>4 DEF FlushIn, TaskTypes
<1> QED  BY <1>3, <1>4

(* What a one-shot's fiber knows: it is the only one, and where the result *)
(* is.                                                                     *)
LEMMA Alone ==
    ASSUME TasksIInv, NEW f \in Fiber, NEW i, job[f] # Free, job[f].id = i, ~tasks[i].repeat
    PROVE  /\ Of(i) = {f} /\ OneShot(i) /\ flush[i] = {}
           /\ tasks[i].active => timer[i] = NoTimer
<1>1. OneShot(i) /\ f \in Of(i) /\ on
  BY AtWork DEF TaskRight
<1> QED  BY <1>1 DEF OneShot

LEMMA StepArrives ==
    ASSUME TasksIInv, NEW f \in Fiber, job[f] # Free, Arrives(f) PROVE TasksIInv'
<1>1. PICK i : i = job[f].id
  OBVIOUS
<1>2. /\ i \in DOMAIN tasks /\ i \in Task /\ f \in Of(i) /\ on /\ TaskTypes
      /\ tasks[i] \in TaskRecord /\ TaskRight(i) /\ job[f] \in Fire /\ job[f].text \in Label
      /\ job[f].at \in {"flushing", "sending"}
  BY <1>1, AtWork DEF Arrives
<1>3. PICK what : what = [job[f] EXCEPT !.at = IF job[f].at = "flushing" THEN "flushed" ELSE "sent"]
  OBVIOUS
<1>4. /\ what \in Fire /\ what.id = i /\ what.text = job[f].text
      /\ what.at = IF job[f].at = "flushing" THEN "flushed" ELSE "sent"
  BY <1>1, <1>2, <1>3 DEF Fire
<1>5. job' = [job EXCEPT ![f] = what] /\ told' = told \cup {<<i, job[f].text>>}
      /\ UNCHANGED <<tasks, timer, flush, on, hushed, works, made>>
  BY <1>1, <1>3 DEF Arrives
<1>6. Turned(i, f, what, tasks[i])
  BY <1>2, <1>5 DEF Turned, TaskTypes
<1>7. what # Free
  BY <1>4 DEF Free
<1>8. /\ TaskRight(i)' => TasksIInv'
      /\ i \in DOMAIN tasks' /\ tasks'[i] = tasks[i] /\ job'[f] = what /\ Of(i)' = Of(i)
      /\ \A g \in Fiber \ {f} : job'[g] = job[g]
  BY <1>1, <1>2, <1>4, <1>6, <1>7, Resuming
<1>9. TaskRight(i)'
  <2>1. CASE tasks[i].repeat
    <3>1. \A g \in Of(i) : job[g].at \in {"flushing", "flushed"} => job'[g].at \in {"flushing", "flushed"}
      BY <1>2, <1>4, <1>8 DEF Of
    <3> QED  BY <1>2, <1>5, <1>8, <2>1, <3>1 DEF TaskRight, Series
  <2>2. CASE ~tasks[i].repeat
    <3>1. Of(i) = {f} /\ OneShot(i)
      BY <1>1, <1>2, <2>2, Alone
    <3> QED  BY <1>2, <1>4, <1>5, <1>8, <2>2, <3>1 DEF TaskRight, OneShot
  <2> QED  BY <2>1, <2>2
<1> QED  BY <1>8, <1>9

LEMMA StepFlushFails ==
    ASSUME TasksIInv, NEW f \in Fiber, job[f] # Free, FlushFails(f) PROVE TasksIInv'
<1>1. PICK i : i = job[f].id
  OBVIOUS
<1>2. /\ i \in DOMAIN tasks /\ i \in Task /\ f \in Of(i) /\ on /\ TaskTypes
      /\ tasks[i] \in TaskRecord /\ TaskRight(i) /\ job[f] \in Fire /\ job[f].text \in Label
      /\ job[f].at \in {"flushing", "flushed"}
  BY <1>1, AtWork DEF FlushFails
<1>3. /\ ComesBack(i, tasks[i], SendRetry) /\ job' = [job EXCEPT ![f] = Free]
      /\ UNCHANGED <<on, hushed, works, made, told>>
  BY <1>1 DEF FlushFails, Leaves
<1>s. SendRetry \in Delay /\ SendRetry \in Due
  BY Distances
<1>4. CASE tasks[i].repeat
  <2>1. tasks' = [tasks EXCEPT ![i] = tasks[i]] /\ FlushIn(i, SendRetry) /\ timer' = timer
    BY <1>3, <1>4 DEF ComesBack, SetTo
  <2>2. Turned(i, f, Free, tasks[i]) /\ flush'[i] # {}
    BY <1>s, <1>2, <1>3, <2>1, Queues DEF Turned, TaskTypes
  <2>3. /\ TaskRight(i)' => TasksIInv'
        /\ i \in DOMAIN tasks' /\ tasks'[i] = tasks[i]
    BY <1>1, <1>2, <2>2, Resuming
  <2>4. TaskRight(i)'
    BY <1>2, <1>3, <1>4, <2>1, <2>2, <2>3 DEF TaskRight, Series
  <2> QED  BY <2>3, <2>4
<1>5. CASE ~tasks[i].repeat
  <2>1. PICK r : r = [tasks[i] EXCEPT !.due = SendRetry]
    OBVIOUS
  <2>2. /\ r \in TaskRecord /\ r.repeat = tasks[i].repeat /\ r.stash = tasks[i].stash
        /\ r.active = tasks[i].active /\ r.due = SendRetry
    BY <1>s, <1>2, <2>1 DEF TaskRecord
  <2>3. tasks' = [tasks EXCEPT ![i] = r] /\ Queue(i, SendRetry) /\ flush' = flush
    BY <1>3, <1>5, <2>1 DEF ComesBack, SetTo
  <2>4. /\ Of(i) = {f} /\ OneShot(i) /\ flush[i] = {}
        /\ tasks[i].active => timer[i] = NoTimer
    BY <1>1, <1>5, Alone
  <2>5. Turned(i, f, Free, r) /\ (tasks[i].active => timer'[i] = OneAt(SendRetry))
    BY <1>s, <1>2, <1>3, <2>3, <2>4, Queues DEF Turned, TaskTypes
  <2>6. /\ TaskRight(i)' => TasksIInv'
        /\ i \in DOMAIN tasks' /\ tasks'[i] = r /\ Of(i)' = {}
    BY <1>1, <2>2, <2>4, <2>5, Resuming
  <2>7. tasks[i].stash # Empty
    BY <1>2, <2>4, TasksAssumption DEF OneShot, Empty
  <2>8. TaskRight(i)'
    BY <1>2, <1>3, <1>5, <2>2, <2>3, <2>4, <2>5, <2>6, <2>7 DEF TaskRight, OneShot
  <2> QED  BY <2>6, <2>8
<1> QED  BY <1>4, <1>5

LEMMA StepFlushReturns ==
    ASSUME TasksIInv, NEW f \in Fiber, job[f] # Free, FlushReturns(f) PROVE TasksIInv'
<1>1. PICK i : i = job[f].id
  OBVIOUS
<1>2. /\ i \in DOMAIN tasks /\ i \in Task /\ f \in Of(i) /\ on /\ TaskTypes
      /\ tasks[i] \in TaskRecord /\ TaskRight(i) /\ job[f] \in Fire
      /\ job[f].at = "flushed"
  BY <1>1, AtWork DEF FlushReturns
<1>3. PICK r : r = IF tasks[i].repeat THEN [tasks[i] EXCEPT !.stash = Empty]
                   ELSE [[tasks[i] EXCEPT !.stash = Empty] EXCEPT !.active = FALSE]
  OBVIOUS
<1>4. /\ r \in TaskRecord /\ r.repeat = tasks[i].repeat /\ r.stash = Empty
      /\ r.due = tasks[i].due
      /\ r.active = IF tasks[i].repeat THEN tasks[i].active ELSE FALSE
  BY <1>2, <1>3 DEF TaskRecord
<1>5. PICK what : what = IF tasks[i].repeat /\ ~job[f].only THEN [at |-> "running", id |-> i] ELSE Free
  OBVIOUS
<1>6. /\ what \in Fire \cup {Free} /\ (what = Free \/ (what \in Fire /\ what.id = i))
      /\ ~tasks[i].repeat => what = Free
  BY <1>2, <1>5 DEF Fire
<1>7. /\ job' = [job EXCEPT ![f] = what] /\ tasks' = [tasks EXCEPT ![i] = r]
      /\ UNCHANGED <<timer, flush, on, hushed, works, made, told>>
  <2>1. tasks[i].repeat => [tasks[i] EXCEPT !.stash = Empty].repeat
    BY <1>2 DEF TaskRecord
  <2>2. [tasks[i] EXCEPT !.stash = Empty].repeat = tasks[i].repeat
    BY <1>2 DEF TaskRecord
  <2> QED  BY <1>1, <1>3, <1>5, <2>2 DEF FlushReturns, SetTo
<1>8. Turned(i, f, what, r)
  BY <1>2, <1>7 DEF Turned, TaskTypes
<1>9. /\ TaskRight(i)' => TasksIInv' /\ i \in DOMAIN tasks' /\ tasks'[i] = r
  BY <1>1, <1>4, <1>6, <1>8, Resuming
<1>10. TaskRight(i)'
  <2>1. CASE tasks[i].repeat
    BY <1>2, <1>4, <1>7, <1>9, <2>1 DEF TaskRight, Series
  <2>2. CASE ~tasks[i].repeat
    <3>1. Of(i) = {f} /\ OneShot(i)
      BY <1>1, <1>2, <2>2, Alone
    <3>2. Of(i)' = {}
      BY <1>1, <1>4, <1>6, <1>8, <2>2, <3>1, Resuming
    <3> QED  BY <1>2, <1>4, <1>7, <1>9, <2>2, <3>1, <3>2 DEF TaskRight, OneShot
  <2> QED  BY <2>1, <2>2
<1> QED  BY <1>9, <1>10

LEMMA StepRunFails ==
    ASSUME TasksIInv, NEW f \in Fiber, job[f] # Free, RunFails(f) PROVE TasksIInv'
<1>1. PICK i : i = job[f].id
  OBVIOUS
<1>2. /\ i \in DOMAIN tasks /\ i \in Task /\ f \in Of(i) /\ on /\ TaskTypes
      /\ tasks[i] \in TaskRecord /\ TaskRight(i) /\ job[f] \in Fire /\ job[f].at = "running"
  BY <1>1, AtWork DEF RunFails
<1>3. /\ IF tasks[i].repeat THEN UNCHANGED <<tasks, timer>>
         ELSE SetTo(i, [tasks[i] EXCEPT !.due = RunRetry]) /\ Queue(i, RunRetry)
      /\ job' = [job EXCEPT ![f] = Free]
      /\ UNCHANGED <<flush, on, hushed, works, made, told>>
  BY <1>1 DEF RunFails, Leaves
<1>s. RunRetry \in Delay /\ RunRetry \in Due
  BY Distances
<1>4. CASE tasks[i].repeat
  <2>1. tasks' = [tasks EXCEPT ![i] = tasks[i]] /\ tasks' = tasks /\ timer' = timer
    BY <1>2, <1>3, <1>4 DEF TaskTypes
  <2>2. Turned(i, f, Free, tasks[i])
    BY <1>2, <1>3, <2>1 DEF Turned, TaskTypes
  <2>3. /\ TaskRight(i)' => TasksIInv'
        /\ Of(i)' = Of(i) \ {f} /\ \A g \in Fiber \ {f} : job'[g] = job[g]
    BY <1>1, <1>2, <2>2, Resuming
  <2>4. \A g \in Of(i) : job[g].at \in {"flushing", "flushed"} => g \in Of(i)' /\ job'[g] = job[g]
    BY <1>2, <2>3 DEF Of
  <2>5. TaskRight(i)'
    BY <1>2, <1>3, <1>4, <2>1, <2>4 DEF TaskRight, Series
  <2> QED  BY <2>3, <2>5
<1>5. CASE ~tasks[i].repeat
  <2>1. PICK r : r = [tasks[i] EXCEPT !.due = RunRetry]
    OBVIOUS
  <2>2. /\ r \in TaskRecord /\ r.repeat = tasks[i].repeat /\ r.stash = tasks[i].stash
        /\ r.active = tasks[i].active /\ r.due = RunRetry
    BY <1>s, <1>2, <2>1 DEF TaskRecord
  <2>3. tasks' = [tasks EXCEPT ![i] = r] /\ Queue(i, RunRetry)
    BY <1>3, <1>5, <2>1 DEF SetTo
  <2>4. /\ Of(i) = {f} /\ OneShot(i) /\ flush[i] = {}
        /\ tasks[i].active => timer[i] = NoTimer
    BY <1>1, <1>5, Alone
  <2>5. Turned(i, f, Free, r) /\ (tasks[i].active => timer'[i] = OneAt(RunRetry))
    BY <1>s, <1>2, <1>3, <2>3, <2>4, Queues DEF Turned, TaskTypes
  <2>6. /\ TaskRight(i)' => TasksIInv'
        /\ i \in DOMAIN tasks' /\ tasks'[i] = r /\ Of(i)' = {}
    BY <1>1, <2>2, <2>4, <2>5, Resuming
  <2>7. made[i] = 0
    BY <1>2, <2>4 DEF OneShot
  <2>8. TaskRight(i)'
    BY <1>2, <1>3, <1>5, <2>2, <2>3, <2>4, <2>5, <2>6, <2>7 DEF TaskRight, OneShot
  <2> QED  BY <2>6, <2>8
<1> QED  BY <1>4, <1>5

LEMMA StepRunReturns ==
    ASSUME TasksIInv, NEW f \in Fiber, job[f] # Free, RunReturns(f) PROVE TasksIInv'
<1>1. PICK i : i = job[f].id
  OBVIOUS
<1>2. /\ i \in DOMAIN tasks /\ i \in Task /\ f \in Of(i) /\ on /\ TaskTypes
      /\ tasks[i] \in TaskRecord /\ TaskRight(i) /\ job[f] \in Fire /\ job[f].at = "running"
  BY <1>1, AtWork DEF RunReturns
<1>3. PICK t : t = CHOOSE u \in Unused(i) : TRUE
  OBVIOUS
<1>4. t \in Unused(i) /\ t \in Label
  BY <1>1, <1>3 DEF RunReturns, Unused
<1>5. PICK what : what = [at |-> "sending", id |-> i, text |-> t]
  OBVIOUS
<1>6. what \in Fire /\ what.id = i /\ what.at = "sending" /\ what.text = t /\ what # Free
  BY <1>2, <1>4, <1>5 DEF Fire, Free
<1>7. /\ job' = [job EXCEPT ![f] = what] /\ told' = told \ {<<i, t>>}
      /\ made' = IF tasks[i].repeat \/ made[i] = 2 THEN made ELSE [made EXCEPT ![i] = made[i] + 1]
      /\ UNCHANGED <<tasks, timer, flush, on, hushed, works>>
  BY <1>1, <1>3, <1>5 DEF RunReturns
<1>8. /\ made' \in [Task -> 0 .. 2] /\ \A k \in Task \ {i} : made'[k] = made[k]
      /\ tasks[i].repeat => made'[i] = made[i]
  BY <1>2, <1>7 DEF TaskTypes
<1>9. Turned(i, f, what, tasks[i])
  BY <1>2, <1>7, <1>8 DEF Turned, TaskTypes
<1>10. /\ TaskRight(i)' => TasksIInv'
       /\ i \in DOMAIN tasks' /\ tasks'[i] = tasks[i] /\ job'[f] = what /\ Of(i)' = Of(i)
       /\ \A g \in Fiber \ {f} : job'[g] = job[g]
  BY <1>1, <1>2, <1>6, <1>9, Resuming
<1>11. TaskRight(i)'
  <2>1. CASE tasks[i].repeat
    <3>1. \A g \in Of(i) : job[g].at \in {"flushing", "flushed"} => job'[g] = job[g]
      BY <1>2, <1>10 DEF Of
    <3> QED  BY <1>2, <1>7, <1>8, <1>10, <2>1, <3>1 DEF TaskRight, Series
  <2>2. CASE ~tasks[i].repeat
    <3>1. Of(i) = {f} /\ OneShot(i)
      BY <1>1, <1>2, <2>2, Alone
    <3>2. made[i] = 0 /\ tasks[i].stash = Empty /\ made'[i] = 1
      BY <1>2, <1>7, <2>2, <3>1 DEF OneShot, TaskTypes
    <3> QED  BY <1>2, <1>6, <1>7, <1>10, <2>2, <3>1, <3>2 DEF TaskRight, OneShot
  <2> QED  BY <2>1, <2>2
<1> QED  BY <1>10, <1>11

LEMMA StepSendFails ==
    ASSUME TasksIInv, NEW f \in Fiber, job[f] # Free, SendFails(f) PROVE TasksIInv'
<1>1. PICK i : i = job[f].id
  OBVIOUS
<1>2. /\ i \in DOMAIN tasks /\ i \in Task /\ f \in Of(i) /\ on /\ TaskTypes
      /\ tasks[i] \in TaskRecord /\ TaskRight(i) /\ job[f] \in Fire /\ job[f].text \in Label
      /\ job[f].at \in {"sending", "sent"}
  BY <1>1, AtWork DEF SendFails
<1>3. PICK r : r = [tasks[i] EXCEPT !.stash = job[f].text]
  OBVIOUS
<1>4. /\ r \in TaskRecord /\ r.repeat = tasks[i].repeat /\ r.stash = job[f].text
      /\ r.active = tasks[i].active /\ r.due = tasks[i].due /\ r.stash # Empty
  BY <1>2, <1>3, TasksAssumption DEF TaskRecord, Empty
<1>5. /\ ComesBack(i, r, SendRetry) /\ job' = [job EXCEPT ![f] = Free]
      /\ UNCHANGED <<on, hushed, works, made, told>>
  BY <1>1, <1>3 DEF SendFails, Leaves
<1>s. SendRetry \in Delay /\ SendRetry \in Due
  BY Distances
<1>6. CASE tasks[i].repeat
  <2>1. tasks' = [tasks EXCEPT ![i] = r] /\ FlushIn(i, SendRetry) /\ timer' = timer
    BY <1>4, <1>5, <1>6 DEF ComesBack, SetTo
  <2>2. Turned(i, f, Free, r) /\ flush'[i] # {}
    BY <1>s, <1>2, <1>5, <2>1, Queues DEF Turned, TaskTypes
  <2>3. /\ TaskRight(i)' => TasksIInv'
        /\ i \in DOMAIN tasks' /\ tasks'[i] = r
    BY <1>1, <1>4, <2>2, Resuming
  <2>4. TaskRight(i)'
    BY <1>2, <1>4, <1>5, <1>6, <2>1, <2>2, <2>3 DEF TaskRight, Series
  <2> QED  BY <2>3, <2>4
<1>7. CASE ~tasks[i].repeat
  <2>1. PICK q : q = [r EXCEPT !.due = SendRetry]
    OBVIOUS
  <2>2. /\ q \in TaskRecord /\ q.repeat = r.repeat /\ q.stash = r.stash
        /\ q.active = r.active /\ q.due = SendRetry
    BY <1>s, <1>4, <2>1 DEF TaskRecord
  <2>3. tasks' = [tasks EXCEPT ![i] = q] /\ Queue(i, SendRetry) /\ flush' = flush
    BY <1>4, <1>5, <1>7, <2>1 DEF ComesBack, SetTo
  <2>4. /\ Of(i) = {f} /\ OneShot(i) /\ flush[i] = {}
        /\ tasks[i].active => timer[i] = NoTimer
    BY <1>1, <1>7, Alone
  <2>5. Turned(i, f, Free, q) /\ (tasks[i].active => timer'[i] = OneAt(SendRetry))
    BY <1>s, <1>2, <1>5, <2>3, <2>4, Queues DEF Turned, TaskTypes
  <2>6. /\ TaskRight(i)' => TasksIInv'
        /\ i \in DOMAIN tasks' /\ tasks'[i] = q /\ Of(i)' = {}
    BY <1>1, <2>2, <2>4, <2>5, Resuming
  <2>7. TaskRight(i)'
    BY <1>2, <1>4, <1>5, <1>7, <2>2, <2>3, <2>4, <2>5, <2>6 DEF TaskRight, OneShot
  <2> QED  BY <2>6, <2>7
<1> QED  BY <1>6, <1>7

LEMMA StepSendReturns ==
    ASSUME TasksIInv, NEW f \in Fiber, job[f] # Free, SendReturns(f) PROVE TasksIInv'
<1>1. PICK i : i = job[f].id
  OBVIOUS
<1>2. /\ i \in DOMAIN tasks /\ i \in Task /\ f \in Of(i) /\ on /\ TaskTypes
      /\ tasks[i] \in TaskRecord /\ TaskRight(i) /\ job[f] \in Fire /\ job[f].at = "sent"
  BY <1>1, AtWork DEF SendReturns
<1>3. /\ IF tasks[i].repeat THEN UNCHANGED tasks ELSE Cancelled(i)
      /\ job' = [job EXCEPT ![f] = Free]
      /\ UNCHANGED <<timer, flush, on, hushed, works, made, told>>
  BY <1>1 DEF SendReturns, Leaves
<1>4. CASE tasks[i].repeat
  <2>1. tasks' = [tasks EXCEPT ![i] = tasks[i]] /\ tasks' = tasks
    BY <1>2, <1>3, <1>4 DEF TaskTypes
  <2>2. Turned(i, f, Free, tasks[i])
    BY <1>2, <1>3, <2>1 DEF Turned, TaskTypes
  <2>3. /\ TaskRight(i)' => TasksIInv'
        /\ Of(i)' = Of(i) \ {f} /\ \A g \in Fiber \ {f} : job'[g] = job[g]
    BY <1>1, <1>2, <2>2, Resuming
  <2>4. \A g \in Of(i) : job[g].at \in {"flushing", "flushed"} => g \in Of(i)' /\ job'[g] = job[g]
    BY <1>2, <2>3 DEF Of
  <2>5. TaskRight(i)'
    BY <1>2, <1>3, <1>4, <2>1, <2>4 DEF TaskRight, Series
  <2> QED  BY <2>3, <2>5
<1>5. CASE ~tasks[i].repeat
  <2>1. PICK r : r = [tasks[i] EXCEPT !.active = FALSE]
    OBVIOUS
  <2>2. /\ r \in TaskRecord /\ r.repeat = tasks[i].repeat /\ r.active = FALSE
    BY <1>2, <2>1 DEF TaskRecord
  <2>3. tasks' = [tasks EXCEPT ![i] = r]
    <3>1. CASE tasks[i].active
      BY <1>2, <1>3, <1>5, <2>1, <3>1 DEF Cancelled, Active, SetTo
    <3>2. CASE ~tasks[i].active
      <4>1. tasks' = tasks
        BY <1>2, <1>3, <1>5, <3>2 DEF Cancelled, Active
      <4>2. r = tasks[i]
        BY <1>2, <2>1, <3>2 DEF TaskRecord
      <4> QED  BY <1>2, <4>1, <4>2 DEF TaskTypes
    <3> QED  BY <3>1, <3>2
  <2>4. Of(i) = {f} /\ OneShot(i)
    BY <1>1, <1>5, Alone
  <2>5. Turned(i, f, Free, r)
    BY <1>2, <1>3, <2>3 DEF Turned, TaskTypes
  <2>6. /\ TaskRight(i)' => TasksIInv'
        /\ i \in DOMAIN tasks' /\ tasks'[i] = r /\ Of(i)' = {}
    BY <1>1, <2>2, <2>4, <2>5, Resuming
  <2>7. TaskRight(i)'
    BY <1>2, <1>3, <1>5, <2>2, <2>4, <2>6 DEF TaskRight, OneShot
  <2> QED  BY <2>6, <2>7
<1> QED  BY <1>4, <1>5

(* A process starts, or dies; time passes.  All tasks change, each alike.  *)
LEMMA StepBoot == ASSUME TasksIInv, Boot PROVE TasksIInv'
<1>t. TaskTypes /\ \A i \in Task : TaskRight(i)
  BY DEF TasksIInv
<1>1. /\ ~on /\ on' = TRUE
      /\ tasks' = [i \in DOMAIN tasks |-> IF Active(i) THEN Scheduled(tasks[i]) ELSE tasks[i]]
      /\ timer' = [i \in Task |-> IF Active(i) THEN Queued(NoTimer, tasks'[i].due) ELSE NoTimer]
      /\ flush' = [i \in Task |-> IF Active(i) /\ tasks[i].repeat /\ tasks[i].stash # Empty
                                  THEN {BootFlush} ELSE {}]
      /\ UNCHANGED <<job, hushed, works, made, told>>
  BY DEF Boot
<1>2. ASSUME NEW i \in DOMAIN tasks
      PROVE  /\ tasks'[i] \in TaskRecord /\ tasks'[i].repeat = tasks[i].repeat
             /\ tasks'[i].stash = tasks[i].stash /\ tasks'[i].active = tasks[i].active
  <2>1. tasks[i] \in TaskRecord
    BY <1>t DEF TaskTypes
  <2>2. tasks[i].due \in Due /\ FirstAhead(tasks[i].due) \in Due
    BY <2>1, Occurrences DEF TaskRecord
  <2>3. tasks'[i] = tasks[i] \/ tasks'[i] = [tasks[i] EXCEPT !.due = FirstAhead(tasks[i].due)]
    BY <1>1 DEF Scheduled
  <2> QED  BY <2>1, <2>2, <2>3 DEF TaskRecord
<1>3. DOMAIN tasks' = DOMAIN tasks /\ tasks' \in [DOMAIN tasks -> TaskRecord]
  BY <1>1, <1>2
<1>4. ASSUME NEW i \in Task
      PROVE  /\ timer'[i] \in [Delay -> Nat] /\ flush'[i] \subseteq Delay
             /\ timer'[i] = IF Active(i) THEN OneAt(tasks'[i].due) ELSE NoTimer
             /\ flush'[i] = IF Active(i) /\ tasks[i].repeat /\ tasks[i].stash # Empty
                            THEN {BootFlush} ELSE {}
  <2>1. Active(i) => OneAt(tasks'[i].due) \in [Delay -> Nat]
    BY <1>2, Timers DEF Active, TaskRecord
  <2>2. NoTimer \in [Delay -> Nat] /\ BootFlush \in Delay
    BY Distances DEF NoTimer
  <2> QED  BY <1>1, <2>1, <2>2 DEF OneAt
<1>5. TaskTypes'
  <2>1. timer' \in [Task -> [Delay -> Nat]] /\ flush' \in [Task -> SUBSET Delay]
    BY <1>1, <1>4
  <2> QED  BY <1>t, <1>1, <1>3, <2>1 DEF TaskTypes
<1>6. ASSUME NEW i \in Task PROVE TaskRight(i)'
  <2>1. Of(i) = {} /\ Of(i)' = {}
    BY <1>t, <1>1 DEF TaskRight, Of
  <2>2. TaskRight(i) /\ made' = made
    BY <1>t, <1>1
  <2>3. CASE i \notin DOMAIN tasks
    BY <1>1, <1>3, <1>4, <2>1, <2>2, <2>3 DEF TaskRight, Active
  <2>4. CASE i \in DOMAIN tasks /\ tasks[i].repeat
    BY <1>1, <1>2, <1>3, <1>4, <2>1, <2>2, <2>4 DEF TaskRight, Series, Active
  <2>5. CASE i \in DOMAIN tasks /\ ~tasks[i].repeat
    BY <1>1, <1>2, <1>3, <1>4, <2>1, <2>2, <2>5 DEF TaskRight, OneShot, Active
  <2> QED  BY <2>3, <2>4, <2>5
<1> QED  BY <1>5, <1>6 DEF TasksIInv

LEMMA StepHalt == ASSUME TasksIInv, Halt PROVE TasksIInv'
<1>t. TaskTypes /\ \A i \in Task : TaskRight(i)
  BY DEF TasksIInv
<1>1. /\ on /\ on' = FALSE
      /\ timer' = [i \in Task |-> NoTimer] /\ flush' = [i \in Task |-> {}]
      /\ job' = [f \in Fiber |-> Free]
      /\ made' = [i \in Task |-> IF \E f \in Of(i) : job[f].at \in {"sending", "sent"}
                                 THEN 0 ELSE made[i]]
      /\ UNCHANGED <<tasks, hushed, works, told>>
  BY DEF Halt
<1>2. TaskTypes'
  <2>1. NoTimer \in [Delay -> Nat]
    BY DEF NoTimer
  <2>2. made' \in [Task -> 0 .. 2]
    BY <1>t, <1>1 DEF TaskTypes
  <2> QED  BY <1>t, <1>1, <2>1, <2>2 DEF TaskTypes
<1>3. ASSUME NEW i \in Task PROVE TaskRight(i)'
  <2>1. /\ Of(i)' = {} /\ TaskRight(i) /\ timer'[i] = NoTimer /\ flush'[i] = {}
        /\ made'[i] = 0 \/ (made'[i] = made[i] /\ \A f \in Of(i) : job[f].at \notin {"sending", "sent"})
    BY <1>t, <1>1 DEF Of
  <2>2. CASE i \notin DOMAIN tasks \/ tasks[i].repeat
    BY <1>1, <2>1, <2>2 DEF TaskRight, Series
  <2>3. CASE i \in DOMAIN tasks /\ ~tasks[i].repeat
    <3>0. OneShot(i)
      BY <1>t, <2>3 DEF TaskRight
    <3>1. ASSUME NEW f \in Of(i), job[f].at # "running", job[f].at \notin {"sending", "sent"}
          PROVE  tasks[i].stash # Empty
      <4>1. job[f] \in Fire
        BY <1>t DEF TaskTypes, Of
      <4>2. job[f].at \in {"flushing", "flushed"} /\ job[f].text \in Label
        BY <3>1, <4>1 DEF Fire
      <4> QED  BY <3>0, <4>2, TasksAssumption DEF OneShot, Empty
    <3>2. made'[i] > 0 => ~tasks[i].active \/ tasks[i].stash # Empty
      BY <2>1, <3>0, <3>1 DEF OneShot
    <3>3. made'[i] <= 1
      BY <2>1, <3>0 DEF OneShot
    <3> QED  BY <1>1, <2>1, <2>3, <3>0, <3>2, <3>3 DEF TaskRight, OneShot
  <2> QED  BY <2>2, <2>3
<1> QED  BY <1>2, <1>3 DEF TasksIInv

(* The timer of a due time stays it.                                       *)
LEMMA TimersComeNearer ==
    /\ \A q \in [Delay -> Nat] : Nearer(q) \in [Delay -> Nat]
    /\ Nearer(NoTimer) = NoTimer
    /\ \A d, e \in Due : Now(e) = (IF Now(d) = 0 THEN 0 ELSE Now(d) - 1)
            => Nearer(OneAt(d)) = OneAt(e)
<1>h. Horizon \in Nat /\ Horizon >= 1 /\ Delay = 0 .. Horizon
  BY Distances DEF Delay
<1>1. ASSUME NEW q \in [Delay -> Nat]
      PROVE  /\ Nearer(q) \in [Delay -> Nat] /\ Nearer(q)[0] = q[0] + q[1]
             /\ \A x \in Delay : x # 0 => Nearer(q)[x] = IF x = Horizon THEN 0 ELSE q[x + 1]
  <2>1. ASSUME NEW x \in Delay
        PROVE  /\ x = 0 => Nearer(q)[x] = q[0] + q[1] /\ q[0] + q[1] \in Nat
               /\ x = Horizon => Nearer(q)[x] = 0
               /\ x # 0 /\ x # Horizon => Nearer(q)[x] = q[x + 1] /\ q[x + 1] \in Nat
    <3>1. 0 \in Delay /\ 1 \in Delay
      BY <1>h
    <3>2. CASE x = 0
      <4>1. Nearer(q)[x] = q[0] + q[1]
        BY <1>h, <3>2 DEF Nearer
      <4> QED  BY <1>h, <3>1, <3>2, <4>1
    <3>3. CASE x = Horizon
      <4>1. x # 0 /\ Nearer(q)[x] = 0
        BY <1>h, <3>3 DEF Nearer
      <4> QED  BY <3>3, <4>1
    <3>4. CASE x # 0 /\ x # Horizon
      <4>1. x + 1 \in Delay
        BY <1>h, <3>4
      <4> QED  BY <3>4, <4>1 DEF Nearer
    <3> QED  BY <3>2, <3>3, <3>4
  <2>2. \A x \in Delay : Nearer(q)[x] \in Nat
    BY <1>h, <2>1
  <2>3. Nearer(q) \in [Delay -> Nat]
    BY <2>2 DEF Nearer
  <2> QED  BY <1>h, <2>1, <2>3
<1>2. Nearer(NoTimer) = NoTimer
  <2>1. NoTimer \in [Delay -> Nat] /\ \A x \in Delay : NoTimer[x] = 0
    BY DEF NoTimer
  <2>2. \A x \in Delay : Nearer(NoTimer)[x] = 0
    BY <1>h, <1>1, <2>1
  <2> QED  BY <1>1, <2>1, <2>2
<1>3. ASSUME NEW d \in Due, NEW e \in Due, Now(e) = (IF Now(d) = 0 THEN 0 ELSE Now(d) - 1)
      PROVE  Nearer(OneAt(d)) = OneAt(e)
  <2>1. /\ OneAt(d) \in [Delay -> Nat] /\ OneAt(e) \in [Delay -> Nat]
        /\ Now(d) \in Delay /\ Now(e) \in Delay
        /\ \A x \in Delay : /\ OneAt(d)[x] = IF x = Now(d) THEN 1 ELSE 0
                            /\ OneAt(e)[x] = IF x = Now(e) THEN 1 ELSE 0
    BY Timers
  <2>2. ASSUME NEW x \in Delay PROVE Nearer(OneAt(d))[x] = OneAt(e)[x]
    <3>1. 0 \in Delay /\ 1 \in Delay
      BY <1>h
    <3>n. /\ Nearer(OneAt(d))[0] = OneAt(d)[0] + OneAt(d)[1]
          /\ \A y \in Delay : y # 0 =>
                Nearer(OneAt(d))[y] = IF y = Horizon THEN 0 ELSE OneAt(d)[y + 1]
      BY <1>1, <2>1
    <3>2. CASE x = 0
      BY <1>h, <1>3, <2>1, <3>1, <3>2, <3>n
    <3>3. CASE x = Horizon
      <4>1. x # 0 /\ Nearer(OneAt(d))[x] = 0
        BY <1>h, <3>3, <3>n
      <4>2. Now(e) # x
        BY <1>h, <1>3, <2>1, <3>3
      <4> QED  BY <2>1, <4>1, <4>2
    <3>4. CASE x # 0 /\ x # Horizon
      <4>1. x + 1 \in Delay /\ Nearer(OneAt(d))[x] = OneAt(d)[x + 1]
        BY <1>h, <3>4, <3>n
      <4>2. x = Now(e) <=> x + 1 = Now(d)
        BY <1>h, <1>3, <2>1, <3>4
      <4> QED  BY <2>1, <4>1, <4>2
    <3> QED  BY <3>2, <3>3, <3>4
  <2> QED  BY <1>1, <2>1, <2>2
<1> QED  BY <1>1, <1>2, <1>3

LEMMA StepTick == ASSUME TasksIInv, TaskTick PROVE TasksIInv'
<1>t. TaskTypes /\ \A i \in Task : TaskRight(i)
  BY DEF TasksIInv
<1>1. /\ tasks' = [i \in DOMAIN tasks |-> Sooner(tasks[i])]
      /\ timer' = [i \in Task |-> Nearer(timer[i])]
      /\ flush' = [i \in Task |-> {Now(d - 1) : d \in flush[i]}]
      /\ UNCHANGED <<job, on, hushed, works, made, told>>
  BY DEF TaskTick
<1>2. ASSUME NEW i \in DOMAIN tasks
      PROVE  /\ tasks'[i] \in TaskRecord /\ tasks'[i].repeat = tasks[i].repeat
             /\ tasks'[i].stash = tasks[i].stash /\ tasks'[i].active = tasks[i].active
             /\ tasks[i].due \in Due /\ tasks'[i].due \in Due
             /\ Now(tasks'[i].due) = IF Now(tasks[i].due) = 0 THEN 0 ELSE Now(tasks[i].due) - 1
  <2>1. tasks[i] \in TaskRecord /\ tasks[i].due \in Due
    BY <1>t DEF TaskTypes, TaskRecord
  <2>2. PICK e : e = IF tasks[i].repeat THEN (IF tasks[i].due = -Period THEN -1 ELSE tasks[i].due - 1)
                     ELSE IF tasks[i].due < 0 THEN -1 ELSE tasks[i].due - 1
    OBVIOUS
  <2>3. e \in Due /\ Now(e) = IF Now(tasks[i].due) = 0 THEN 0 ELSE Now(tasks[i].due) - 1
    BY <2>1, <2>2, Distances DEF Due, Now
  <2>4. tasks'[i] = [tasks[i] EXCEPT !.due = e]
    BY <1>1, <2>2 DEF Sooner
  <2> QED  BY <2>1, <2>3, <2>4 DEF TaskRecord
<1>3. DOMAIN tasks' = DOMAIN tasks /\ tasks' \in [DOMAIN tasks -> TaskRecord]
  BY <1>1, <1>2
<1>4. ASSUME NEW i \in Task
      PROVE  /\ timer'[i] = Nearer(timer[i]) /\ timer'[i] \in [Delay -> Nat]
             /\ flush'[i] \subseteq Delay /\ (flush'[i] = {} <=> flush[i] = {})
             /\ Of(i)' = Of(i)
  <2>1. timer[i] \in [Delay -> Nat] /\ flush[i] \subseteq Delay
    BY <1>t DEF TaskTypes
  <2>2. \A d \in Delay : Now(d - 1) \in Delay
    BY Distances DEF Delay, Now
  <2> QED  BY <1>1, <2>1, <2>2, TimersComeNearer DEF Of
<1>5. TaskTypes'
  <2>1. timer' \in [Task -> [Delay -> Nat]] /\ flush' \in [Task -> SUBSET Delay]
    BY <1>1, <1>4
  <2> QED  BY <1>t, <1>1, <1>3, <2>1 DEF TaskTypes
<1>6. ASSUME NEW i \in Task PROVE TaskRight(i)'
  <2>1. i \in DOMAIN tasks /\ timer[i] = OneAt(tasks[i].due) => timer'[i] = OneAt(tasks'[i].due)
    BY <1>2, <1>4, TimersComeNearer
  <2>2. timer[i] = NoTimer => timer'[i] = NoTimer
    BY <1>4, TimersComeNearer
  <2>3. TaskRight(i) /\ UNCHANGED <<job, on, made, told>>
    BY <1>t, <1>1
  <2>4. CASE i \notin DOMAIN tasks
    BY <1>3, <1>4, <2>2, <2>3, <2>4 DEF TaskRight
  <2>5. CASE i \in DOMAIN tasks /\ tasks[i].repeat
    BY <1>2, <1>3, <1>4, <2>1, <2>3, <2>5 DEF TaskRight, Series
  <2>6. CASE i \in DOMAIN tasks /\ ~tasks[i].repeat
    BY <1>2, <1>3, <1>4, <2>1, <2>2, <2>3, <2>6 DEF TaskRight, OneShot
  <2> QED  BY <2>4, <2>5, <2>6
<1> QED  BY <1>5, <1>6 DEF TasksIInv

LEMMA StepTasks == TasksIInv /\ [TasksNext]_taskVars => TasksIInv'
<1> SUFFICES ASSUME TasksIInv, [TasksNext]_taskVars PROVE TasksIInv'
  OBVIOUS
<1>1. ASSUME NEW f \in Fiber, Resumes(f) PROVE TasksIInv'
  BY <1>1, StepArrives, StepFlushFails, StepFlushReturns, StepRunFails, StepRunReturns,
     StepSendFails, StepSendReturns DEF Resumes
<1>2. CASE World
  <2>1. hushed' \in BOOLEAN /\ works' \in BOOLEAN
    BY <1>2 DEF World, TasksIInv, TaskTypes
  <2>2. UNCHANGED <<tasks, timer, flush, job, on, made, told>>
    BY <1>2 DEF World
  <2> QED  BY <2>1, <2>2 DEF TasksIInv, TaskTypes, TaskRight, Series, OneShot, Of
<1>3. CASE UNCHANGED taskVars
  BY <1>3 DEF taskVars, TasksIInv, TaskTypes, TaskRight, Series, OneShot, Of
<1> QED
  BY <1>1, <1>2, <1>3, StepCancel, StepFires, StepCreate, StepBoot, StepHalt, StepTick DEF TasksNext

LEMMA TasksInvariant == TasksSpec => []TasksIInv
  BY InitTasks, StepTasks, PTL DEF TasksSpec

LEMMA TasksAreRight == TasksIInv => TasksInv
<1> SUFFICES ASSUME TasksIInv PROVE TasksInv
  OBVIOUS
<1>t. TaskTypes /\ \A i \in Task : TaskRight(i)
  BY DEF TasksIInv
<1>1. TasksTypeOK
  BY <1>t DEF TaskTypes, TasksTypeOK
<1>2. OneTimerEach
  <2> SUFFICES ASSUME on, NEW i \in Task, Active(i)
               PROVE  IF tasks[i].repeat THEN TimerAt(i)
                      ELSE \/ TimerAt(i) /\ Of(i) = {}
                           \/ Jobs(i) = {} /\ Cardinality(Of(i)) = 1
    BY DEF OneTimerEach
  <2>1. i \in DOMAIN tasks /\ tasks[i] \in TaskRecord /\ TaskRight(i) /\ tasks[i].active
    BY <1>t DEF Active, TaskTypes
  <2>2. tasks[i].due \in Due
    BY <2>1 DEF TaskRecord
  <2>3. timer[i] = OneAt(tasks[i].due) => TimerAt(i)
    BY <2>2, Timers DEF TimerAt, Jobs
  <2>4. timer[i] = NoTimer => Jobs(i) = {}
    BY <2>2, Timers DEF Jobs
  <2>5. CASE tasks[i].repeat
    BY <2>1, <2>3, <2>5 DEF TaskRight, Series
  <2>6. CASE ~tasks[i].repeat
    <3>1. \/ timer[i] = OneAt(tasks[i].due) /\ Of(i) = {}
          \/ timer[i] = NoTimer /\ \E f : Of(i) = {f}
      BY <2>1, <2>6 DEF TaskRight, OneShot
    <3>2. \A f : Cardinality({f}) = 1
      BY FS_Singleton
    <3> QED  BY <2>3, <2>4, <2>6, <3>1, <3>2
  <2> QED  BY <2>5, <2>6
<1>3. StashIsServed
  BY <1>t DEF StashIsServed, TaskRight, Series, Active
<1>4. MadeOnce
  BY <1>t DEF MadeOnce, TaskRight, Series, OneShot
<1>5. MadeIsHeld
  BY <1>t DEF MadeIsHeld, TaskRight, OneShot, TaskTypes
<1> QED  BY <1>1, <1>2, <1>3, <1>4, <1>5 DEF TasksInv

(***************************************************************************)
(* A running task has its one timer or its one fiber, a stashed result of  *)
(* a series is on its way, and a one-shot whose result was made holds it   *)
(* somewhere and never runs again: for any tasks, delays and fire() calls. *)
(***************************************************************************)
THEOREM TasksRunOnce == TasksSpec => []TasksInv
  BY TasksInvariant, TasksAreRight, PTL

(* What a one-shot has stashed goes out of its record only when the fiber  *)
(* that had it sent returns: every other step leaves it.                   *)
LEMMA StashGoes ==
    ASSUME TasksIInv, [TasksNext]_taskVars, NEW i \in DOMAIN tasks, ~tasks[i].repeat
    PROVE  StashKept(i)
<1>t. TaskTypes /\ tasks[i] \in TaskRecord /\ \A k \in DOMAIN tasks : tasks[k] \in TaskRecord
  BY DEF TasksIInv, TaskTypes
<1>s. SUFFICES ASSUME tasks'[i].stash # tasks[i].stash, tasks[i].stash # Empty
               PROVE  <<i, tasks[i].stash>> \in told
  BY DEF StashKept
<1>1. ASSUME NEW k, NEW r, tasks' = [tasks EXCEPT ![k] = r], k \in DOMAIN tasks => r.stash = tasks[k].stash
      PROVE  FALSE
  BY <1>1, <1>s, <1>t DEF TaskTypes
<1>2. ASSUME tasks' = tasks PROVE FALSE
  BY <1>2, <1>s
<1>3. ASSUME NEW k \in DOMAIN tasks, NEW d PROVE [tasks[k] EXCEPT !.due = d].stash = tasks[k].stash
  BY <1>3, <1>t DEF TaskRecord
<1>4. ASSUME NEW k \in Task, NEW d \in TaskAhead, NEW rep \in BOOLEAN, CreateTask(k, d, rep) PROVE FALSE
  <2>1. k # i /\ tasks'[i] = tasks[i]
    BY <1>4 DEF CreateTask
  <2> QED  BY <1>s, <2>1
<1>5. ASSUME NEW k \in Task, CancelTask(k) PROVE FALSE
  <2>1. k \in DOMAIN tasks /\ tasks' = [tasks EXCEPT ![k] = [tasks[k] EXCEPT !.active = FALSE]]
    BY <1>5 DEF CancelTask, Cancelled, Active, SetTo
  <2>2. [tasks[k] EXCEPT !.active = FALSE].stash = tasks[k].stash
    BY <1>t, <2>1 DEF TaskRecord
  <2> QED  BY <1>1, <2>1, <2>2
<1>6. ASSUME NEW k \in Task, NEW only \in BOOLEAN, Advanced(k, only) PROVE FALSE
  <2>1. CASE only \/ ~(Active(k) /\ tasks[k].repeat)
    BY <1>2, <1>6, <2>1 DEF Advanced
  <2>2. CASE ~only /\ Active(k) /\ tasks[k].repeat
    <3>1. k \in DOMAIN tasks
          /\ tasks' = [tasks EXCEPT ![k] = [tasks[k] EXCEPT !.due = NextAhead(tasks[k].due)]]
      BY <1>6, <2>2 DEF Advanced, SetTo, Active
    <3> QED  BY <1>1, <1>3, <3>1
  <2> QED  BY <2>1, <2>2
<1>7. ASSUME NEW k \in Task, Fires(k) PROVE FALSE
  <2>1. ASSUME NEW only \in BOOLEAN, FireNothing(k, only) PROVE FALSE
    BY <1>6, <2>1 DEF FireNothing
  <2>2. ASSUME NEW only \in BOOLEAN, FireHeld(k, only) PROVE FALSE
    <3>1. CASE tasks[k].repeat
      BY <1>6, <2>2, <3>1 DEF FireHeld
    <3>2. CASE ~tasks[k].repeat
      <4>1. k \in DOMAIN tasks /\ tasks' = [tasks EXCEPT ![k] = [tasks[k] EXCEPT !.due = Hold]]
        BY <2>2, <3>2 DEF FireHeld, SetTo, Active
      <4> QED  BY <1>1, <1>3, <4>1
    <3> QED  BY <3>1, <3>2
  <2>3. ASSUME NEW only \in BOOLEAN, NEW f \in Fiber, FireFlush(k, only, f) PROVE FALSE
    BY <1>6, <2>3 DEF FireFlush, Takes
  <2>4. ASSUME NEW f \in Fiber, FireRun(k, f) PROVE FALSE
    BY <1>6, <2>4 DEF FireRun, Takes
  <2> QED  BY <1>7, <2>1, <2>2, <2>3, <2>4 DEF Fires
<1>8. CASE Boot \/ TaskTick
  <2>1. tasks'[i] = tasks[i] \/ \E d : tasks'[i] = [tasks[i] EXCEPT !.due = d]
    BY <1>8 DEF Boot, TaskTick, Scheduled, Sooner
  <2> QED  BY <1>s, <1>3, <2>1
<1>9. ASSUME NEW f \in Fiber, job[f] # Free, Resumes(f) PROVE <<i, tasks[i].stash>> \in told
  <2>1. PICK k : k = job[f].id
    OBVIOUS
  <2>2. k \in DOMAIN tasks /\ tasks[k] \in TaskRecord
    BY <1>9, <2>1, AtWork
  <2>3. CASE Arrives(f) \/ RunReturns(f)
    BY <1>2, <2>3 DEF Arrives, RunReturns
  <2>4. CASE FlushFails(f)
    <3>1. ComesBack(k, tasks[k], SendRetry)
      BY <2>1, <2>4 DEF FlushFails
    <3>2. \/ tasks' = [tasks EXCEPT ![k] = tasks[k]]
          \/ tasks' = [tasks EXCEPT ![k] = [tasks[k] EXCEPT !.due = SendRetry]]
      BY <3>1 DEF ComesBack, SetTo
    <3> QED  BY <1>1, <1>3, <2>2, <3>2
  <2>5. CASE RunFails(f)
    <3>1. tasks' = tasks \/ tasks' = [tasks EXCEPT ![k] = [tasks[k] EXCEPT !.due = RunRetry]]
      BY <2>1, <2>5 DEF RunFails, SetTo
    <3> QED  BY <1>1, <1>2, <1>3, <2>2, <3>1
  <2>6. CASE SendReturns(f)
    <3>1. tasks' = tasks \/ tasks' = [tasks EXCEPT ![k] = [tasks[k] EXCEPT !.active = FALSE]]
      BY <2>1, <2>6 DEF SendReturns, Cancelled, SetTo
    <3>2. [tasks[k] EXCEPT !.active = FALSE].stash = tasks[k].stash
      BY <2>2 DEF TaskRecord
    <3> QED  BY <1>1, <1>2, <3>1, <3>2
  <2>7. CASE FlushReturns(f) \/ SendFails(f)
    <3>1. PICK r : tasks' = [tasks EXCEPT ![k] = r]
      <4>1. CASE FlushReturns(f)
        BY <2>1, <4>1 DEF FlushReturns, SetTo
      <4>2. CASE SendFails(f)
        BY <2>1, <4>2 DEF SendFails, ComesBack, SetTo
      <4> QED  BY <2>7, <4>1, <4>2
    <3>2. k = i
      BY <1>s, <1>t, <3>1 DEF TaskTypes
    <3>3. OneShot(i) /\ f \in Of(i)
      BY <1>9, <2>1, <3>2, AtWork, Alone
    <3> QED  BY <1>s, <2>7, <3>3 DEF OneShot, FlushReturns, SendFails
  <2> QED  BY <1>9, <2>3, <2>4, <2>5, <2>6, <2>7 DEF Resumes
<1>10. CASE Halt \/ World \/ UNCHANGED taskVars
  BY <1>2, <1>10 DEF Halt, World, taskVars
<1> QED
  BY <1>4, <1>5, <1>7, <1>8, <1>9, <1>10 DEF TasksNext, Resumes

(***************************************************************************)
(* A stashed result of a one-shot leaves the record only when the chat got *)
(* that very result (agent_tasks.py:47-49): the tasks' part of             *)
(* KeptUntilTold.                                                          *)
(***************************************************************************)
THEOREM StashesAreKept == TasksSpec => OneShotStashKept
<1>1. TasksIInv /\ [TasksNext]_taskVars
          => [\A i \in DOMAIN tasks : ~tasks[i].repeat => StashKept(i)]_taskVars
  BY StashGoes
<1> QED  BY <1>1, TasksInvariant, PTL DEF TasksSpec, OneShotStashKept
-----------------------------------------------------------------------------
(* Whatever part moves, the tasks and the goals take steps of their own    *)
(* specifications or stand still.                                          *)
LEMMA PartsMove == PromisesSpec => TasksSpec /\ GoalsSpec
<1>1. PromisesInit => TasksInit /\ GoalsInit
  BY DEF PromisesInit
<1>2. ASSUME [PromisesNext]_promisesVars
      PROVE  [TasksNext]_taskVars /\ [GoalsNext]_goalVars
  <2>1. CASE UNCHANGED promisesVars
    BY <2>1 DEF promisesVars
  <2>2. CASE PromisesNext
    BY <2>2 DEF PromisesNext
  <2> QED  BY <1>2, <2>1, <2>2
<1> QED  BY <1>1, <1>2, PTL DEF PromisesSpec, TasksSpec, GoalsSpec

(***************************************************************************)
(* No result and no finding is struck off before the chat got it           *)
(* (agent_tasks.py:47-49, goals.py:48-50).                                 *)
(***************************************************************************)
THEOREM KeptTillTheChatKnows == PromisesSpec => KeptUntilTold
<1>1. TasksSpec /\ GoalsSpec => KeptUntilTold
  BY StashesAreKept, FindingsStayMarked DEF KeptUntilTold
<1> QED  BY <1>1, PartsMove
=============================================================================

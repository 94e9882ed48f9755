---------------------------- MODULE MemoryProofs ----------------------------
(***************************************************************************)
(* What is remembered and what is forgotten - facts, episodes, the         *)
(* keeper's doses, the chat's window - for any number of facts, days,      *)
(* doses, entries and failures.                                            *)
(***************************************************************************)
EXTENDS Session, Facts, Recall, Keeper, SequenceTheorems, TLAPS

-----------------------------------------------------------------------------
(***************************************************************************)
(* Recall.  The resweep sweeps what was forgotten when it began, and a     *)
(* fact restored since is stray.                                           *)
(***************************************************************************)
RecallShape ==
    /\ pass \in [Ingest -> [busy : BOOLEAN, text : UNION {[D -> SUBSET Remark] : D \in SUBSET Day}]]
    /\ sweeping \subseteq forgotten \cup stray

RecallIInv == RecallInv /\ RecallShape

\* A mark is only put for a fact that the sweep has in hand.
LEMMA SuppressedBy ==
    ASSUME NEW f \in Known, marks \in [Item -> SUBSET Known]
    PROVE  /\ Suppressed(f, marks) \in [Item -> SUBSET Known]
           /\ \A i \in Item : Suppressed(f, marks)[i] \subseteq marks[i] \cup {f}
BY DEF Suppressed

LEMMA UnsweptOf ==
    ASSUME NEW f \in Known, marks \in [Item -> SUBSET Known]
    PROVE  /\ Unswept(f) \in [Item -> SUBSET Known]
           /\ \A i \in Item : Unswept(f)[i] = marks[i] \ {f}
BY DEF Unswept

LEMMA ReadText ==
    ASSUME RecallTypeOK, NEW D \in SUBSET Day
    PROVE  [d \in D |-> ToldOn(d)] \in UNION {[E -> SUBSET Remark] : E \in SUBSET Day}
<1>1. [d \in D |-> ToldOn(d)] \in [D -> SUBSET Remark]
  BY DEF ToldOn
<1> QED  BY <1>1

LEMMA InitRecall == RecallInit => RecallIInv
<1> SUFFICES ASSUME RecallInit PROVE RecallIInv
  OBVIOUS
<1> USE RecallAssumption DEF RecallInit, Day, Item
<1>1. RecallTypeOK
  <2>1. 1 \in Day /\ 0 \in 0 .. MaxDay /\ 0 \in 0 .. MaxOutages
    OBVIOUS
  <2>2. \A p \in Ingest : pass[p].busy \in BOOLEAN /\ DOMAIN pass[p].text \subseteq Day
    BY DEF NoPass
  <2> QED  BY <2>1, <2>2 DEF RecallTypeOK
<1>2. [d \in {} |-> {}] \in UNION {[D -> SUBSET Remark] : D \in SUBSET Day}
  <2>1. [d \in {} |-> {}] \in [{} -> SUBSET Remark]
    OBVIOUS
  <2> QED  BY <2>1
<1>3. RecallShape
  BY <1>2 DEF RecallShape, NoPass
<1> QED  BY <1>1, <1>3 DEF RecallIInv, RecallInv, RestoredShows

LEMMA StepRecall == RecallIInv /\ [RecallNext]_recallVars => RecallIInv'
<1> SUFFICES ASSUME RecallIInv, [RecallNext]_recallVars PROVE RecallIInv'
  OBVIOUS
<1> USE RecallAssumption
<1>0. RecallTypeOK /\ RestoredShows /\ RecallShape
  BY DEF RecallIInv, RecallInv
<1>a. ASSUME NEW m \in Remark, Says(m) \/ Withholds(m) PROVE RecallIInv'
  <2>1. said' \in [Remark -> 0 .. MaxDay]
    BY <1>0, <1>a DEF Says, Withholds, RecallTypeOK, Day
  <2>2. concealed' \subseteq Remark /\ late' \subseteq concealed'
    BY <1>0, <1>a DEF Says, Withholds, RecallTypeOK
  <2> QED
    BY <1>0, <1>a, <2>1, <2>2 DEF Says, Withholds, RecallIInv, RecallInv, RecallTypeOK, RestoredShows,
       RecallShape
<1>b. ASSUME NEW p \in Ingest, ReadsDays(p) PROVE RecallIInv'
  <2> DEFINE D == {e \in Days(p) : Changed(e)}
  <2>1. D \in SUBSET Day
    BY <1>0 DEF Days, RecallTypeOK
  <2>2. [d \in D |-> ToldOn(d)] \in UNION {[E -> SUBSET Remark] : E \in SUBSET Day}
    BY <1>0, <2>1, ReadText
  <2>3. RecallShape'
    BY <1>0, <1>b, <2>2 DEF ReadsDays, RecallShape
  <2>4. RecallTypeOK'
    BY <1>0, <1>b, <2>1 DEF ReadsDays, RecallTypeOK, RecallShape
  <2> QED  BY <1>0, <1>b, <2>3, <2>4 DEF ReadsDays, RecallIInv, RecallInv, RestoredShows
<1>c. ASSUME NEW p \in Ingest, WritesEpisodes(p) \/ FailsToIngest(p) PROVE RecallIInv'
  <2>1. [d \in {} |-> {}] \in UNION {[E -> SUBSET Remark] : E \in SUBSET Day}
    <3>1. [d \in {} |-> {}] \in [{} -> SUBSET Remark]
      OBVIOUS
    <3> QED  BY <3>1
  <2>2. pass' = [pass EXCEPT ![p] = NoPass] /\ UNCHANGED <<marks, forgotten, stray>>
    BY <1>c DEF WritesEpisodes, FailsToIngest
  <2>3. (UNCHANGED night \/ night' = "resweep") /\ (UNCHANGED sweeping \/ sweeping' = forgotten)
    BY <1>c DEF WritesEpisodes, FailsToIngest, NightGoesOn
  <2>4. RecallShape'
    BY <1>0, <2>1, <2>2, <2>3 DEF RecallShape, NoPass
  <2>5. episode' \in [Day -> SUBSET Remark]
    <3>1. \A d \in DOMAIN pass[p].text : pass[p].text[d] \subseteq Remark
      BY <1>0 DEF RecallShape
    <3> QED  BY <1>0, <1>c, <3>1 DEF WritesEpisodes, FailsToIngest, RecallTypeOK
  <2>6. late' \subseteq concealed' /\ outages' \in 0 .. MaxOutages
    BY <1>0, <1>c DEF WritesEpisodes, FailsToIngest, Outage, RecallTypeOK
  <2>7. \A q \in Ingest : pass'[q].busy \in BOOLEAN /\ DOMAIN pass'[q].text \subseteq Day
    BY <1>0, <2>2 DEF RecallShape, RecallTypeOK, NoPass
  <2>8. RecallTypeOK'
    BY <1>0, <1>c, <2>2, <2>3, <2>5, <2>6, <2>7 DEF WritesEpisodes, FailsToIngest, RecallTypeOK
  <2> QED  BY <1>0, <2>2, <2>4, <2>8 DEF RecallIInv, RecallInv, RestoredShows
<1>d. ASSUME NEW c \in Capture, Captures(c) PROVE RecallIInv'
  BY <1>0, <1>d DEF Captures, RecallIInv, RecallInv, RecallTypeOK, RestoredShows, RecallShape
<1>e. ASSUME NEW f \in Known, Retracts(f) PROVE RecallIInv'
  BY <1>0, <1>e, SuppressedBy DEF Retracts, Outage, RecallIInv, RecallInv, RecallTypeOK, RestoredShows,
     RecallShape
<1>f. ASSUME NEW f \in Known, Restores(f) PROVE RecallIInv'
  BY <1>0, <1>f, UnsweptOf DEF Restores, Outage, RecallIInv, RecallInv, RecallTypeOK, RestoredShows,
     RecallShape
<1>g. CASE Resweeps
  <2>1. CASE \E f \in sweeping : marks' = Suppressed(f, marks) /\ sweeping' = sweeping \ {f}
    <3>1. PICK f \in sweeping : marks' = Suppressed(f, marks) /\ sweeping' = sweeping \ {f}
      BY <2>1
    <3>2. f \in Known /\ f \in forgotten \cup stray
      BY <1>0 DEF RecallTypeOK, RecallShape
    <3> QED
      BY <1>0, <1>g, <3>1, <3>2, SuppressedBy DEF Resweeps, Outage, RecallIInv, RecallInv, RecallTypeOK,
         RestoredShows, RecallShape
  <2>2. CASE UNCHANGED marks /\ (UNCHANGED sweeping \/ sweeping' = {})
    BY <1>0, <1>g, <2>2 DEF Resweeps, Outage, RecallIInv, RecallInv, RecallTypeOK,
       RestoredShows, RecallShape
  <2> QED  BY <1>g, <2>1, <2>2 DEF Resweeps
<1>h. CASE NightFalls \/ DayBreaks
  BY <1>0, <1>h DEF NightFalls, DayBreaks, RecallIInv, RecallInv, RecallTypeOK, RestoredShows,
     RecallShape, Day
<1>i. CASE UNCHANGED recallVars
  BY <1>0, <1>i DEF recallVars, RecallIInv, RecallInv, RecallTypeOK, RestoredShows, RecallShape
<1> QED
  BY <1>a, <1>b, <1>c, <1>d, <1>e, <1>f, <1>g, <1>h, <1>i DEF RecallNext

(***************************************************************************)
(* Undoing a forget gives back all it had hidden, unless the marks could   *)
(* not be lifted or the resweep had the fact in hand (episodes.py,         *)
(* documents.py, unsuppress_for_fact; engine.py, resweep_forgotten).       *)
(***************************************************************************)
THEOREM RestoredIsShown == RecallSpec => []RecallInv
<1>1. RecallSpec => []RecallIInv
  BY InitRecall, StepRecall, PTL DEF RecallSpec
<1>2. RecallIInv => RecallInv
  BY DEF RecallIInv
<1> QED  BY <1>1, <1>2, PTL
-----------------------------------------------------------------------------
(***************************************************************************)
(* The keeper.  While a message is on its way the file remembers of what   *)
(* was named just what the morning loaded: a recording of the owner's      *)
(* touches the doses done, not the lines.  So a line on its way is not     *)
(* remembered yet, and has been told no oftener than messages failed.      *)
(***************************************************************************)
Once(l) == l[2] # "overdue"

Unnamed == \A l \in Line \ file.nudged : Once(l) => told[l] <= amiss

Sending ==
    morning = "sending" =>
        /\ copy.nudged = file.nudged
        /\ \A l \in lines : Once(l) => l \notin file.nudged
        /\ \A d \in Dose : <<d, "near">> \in lines => <<d, "first">> \in file.nudged

Shaped ==
    /\ file \in [done : SUBSET Dose, nudged : SUBSET Line]
    /\ copy \in [done : SUBSET Dose, nudged : SUBSET Line]
    /\ morning # "sending" => lines = {}

KeeperIInv == KeeperInv /\ Unnamed /\ Sending /\ Shaped

LEMMA LineParts ==
    ASSUME NEW d \in Dose
    PROVE  /\ <<d, "first">> \in Line /\ <<d, "near">> \in Line /\ <<d, "overdue">> \in Line
           /\ Once(<<d, "first">>) /\ Once(<<d, "near">>)
BY DEF Line, Word, Once

\* What the morning names: lines that are not remembered, but for an overdue
\* dose, and a near one only of a dose that was named before.
LEMMA DueLines ==
    ASSUME NEW ask \in Question(file)
    PROVE  /\ Due(file) \cup ask \subseteq Line
           /\ \A l \in Due(file) \cup ask : Once(l) => l \notin file.nudged
           /\ \A d \in Dose : <<d, "near">> \in Due(file) \cup ask => <<d, "first">> \in file.nudged
<1>1. /\ ask \subseteq Milestone \X {"asked"}
      /\ \A l \in ask : l \notin file.nudged
  <2>1. CASE ask = {}
    BY <2>1
  <2>2. ASSUME ask # {} PROVE \E x \in Milestone : ask = {<<x, "asked">>} /\ <<x, "asked">> \notin file.nudged
    BY <2>2 DEF Question
  <2>3. CASE ask # {}
    <3>1. PICK x \in Milestone : ask = {<<x, "asked">>} /\ <<x, "asked">> \notin file.nudged
      BY <2>2, <2>3
    <3>2. <<x, "asked">> \in Milestone \X {"asked"}
      OBVIOUS
    <3> QED  BY <3>1, <3>2
  <2> QED  BY <2>1, <2>3
<1>2. /\ Due(file) \subseteq Dose \X Word
      /\ \A l \in Due(file) : Once(l) => l \notin file.nudged
      /\ \A d \in Dose : <<d, "near">> \in Due(file) => <<d, "first">> \in file.nudged
  BY DEF Due, Word, Once
<1> QED  BY <1>1, <1>2 DEF Line

LEMMA CountedMore ==
    ASSUME KeeperTypeOK, Counted
    PROVE  /\ told' \in [Line -> Nat]
           /\ \A l \in Line : /\ told[l] > 0 => told'[l] > 0
                              /\ l \in lines => told'[l] > 0
                              /\ l \notin lines => told'[l] = told[l]
                              /\ l \in lines /\ Once(l) => told'[l] = told[l] + 1
BY DEF Counted, KeeperTypeOK, Once

LEMMA InitKeeper == KeeperInit => KeeperIInv
<1> SUFFICES ASSUME KeeperInit PROVE KeeperIInv
  OBVIOUS
<1> USE KeeperAssumption DEF KeeperInit, NoFile
<1>1. KeeperTypeOK
  <2>1. phase \in [Dose -> Phase] /\ 0 \in 0 .. MaxAmiss
    BY DEF Phase
  <2>2. FileOK(file) /\ FileOK(copy) /\ told \in [Line -> Nat]
    BY DEF FileOK
  <2> QED  BY <2>1, <2>2 DEF KeeperTypeOK
<1>t. \A l \in Line : told[l] = 0
  OBVIOUS
<1>2. NamedOnce /\ NudgedWasTold /\ FirstComesFirst
  <2>1. NamedOnce /\ NudgedWasTold
    BY <1>t DEF NamedOnce, NudgedWasTold
  <2>2. FirstComesFirst
    <3> SUFFICES ASSUME NEW d \in Dose PROVE ~(told[<<d, "near">>] > 0)
      BY DEF FirstComesFirst
    <3>1. <<d, "near">> \in Line
      BY LineParts
    <3>2. told[<<d, "near">>] = 0
      BY <1>t, <3>1
    <3> QED  BY <3>2
  <2> QED  BY <2>1, <2>2
<1>3. Unnamed /\ Sending /\ Shaped
  BY DEF Unnamed, Sending, Shaped
<1> QED  BY <1>1, <1>2, <1>3 DEF KeeperIInv, KeeperInv

LEMMA StepKeeper == KeeperIInv /\ [KeeperNext]_keeperVars => KeeperIInv'
<1> SUFFICES ASSUME KeeperIInv, [KeeperNext]_keeperVars PROVE KeeperIInv'
  OBVIOUS
<1> USE KeeperAssumption DEF world, check
<1>0. /\ KeeperTypeOK /\ NamedOnce /\ NudgedWasTold /\ FirstComesFirst
      /\ Unnamed /\ Sending /\ Shaped
  BY DEF KeeperIInv, KeeperInv
<1>a. CASE Checks
  <2>1. CASE morning' = "over" /\ UNCHANGED <<copy, lines>>
    BY <1>0, <1>a, <2>1 DEF Checks, KeeperIInv, KeeperInv, KeeperTypeOK, FileOK, NamedOnce,
       NudgedWasTold, FirstComesFirst, Unnamed, Sending, Shaped
  <2>2. CASE \E ask \in Question(file) :
                morning' = "sending" /\ copy' = file /\ lines' = Due(file) \cup ask
    <3>1. PICK ask \in Question(file) :
              morning' = "sending" /\ copy' = file /\ lines' = Due(file) \cup ask
      BY <2>2
    <3>2. UNCHANGED <<phase, shown, file, fresh, told, kept, raced, amiss>>
      BY <1>a DEF Checks
    <3>3. Sending' /\ Unnamed' /\ Shaped'
      BY <1>0, <3>1, <3>2, DueLines DEF Sending, Unnamed, Shaped
    <3>4. KeeperTypeOK'
      BY <1>0, <3>1, <3>2, DueLines DEF KeeperTypeOK, FileOK
    <3> QED
      BY <1>0, <3>2, <3>3, <3>4 DEF KeeperIInv, KeeperInv, NamedOnce, NudgedWasTold, FirstComesFirst
  <2> QED  BY <1>a, <2>1, <2>2 DEF Checks
<1>b. ASSUME HandsOver, ~raced PROVE KeeperIInv'
  <2>1. /\ morning = "sending" /\ Counted /\ morning' = "over" /\ copy' = NoFile /\ lines' = {}
        /\ file' = [done |-> copy.done, nudged |-> file.nudged \cup lines]
        /\ UNCHANGED <<phase, shown, kept, amiss>> /\ raced' \in BOOLEAN
    BY <1>0, <1>b DEF HandsOver, MorningOver, Sending, Shaped, KeeperTypeOK
  <2>2. fresh' \subseteq Dose \cup Milestone
    BY <1>0, <1>b DEF HandsOver, KeeperTypeOK, Line
  <2>3. KeeperTypeOK' /\ Shaped' /\ Sending'
    BY <1>0, <2>1, <2>2, CountedMore DEF KeeperTypeOK, FileOK, NoFile, Shaped, Sending
  <2>n. /\ told' \in [Line -> Nat] /\ told \in [Line -> Nat] /\ lines \subseteq Line
        /\ \A l \in Line : /\ told[l] > 0 => told'[l] > 0
                           /\ l \notin lines => told'[l] = told[l]
                           /\ l \in lines /\ Once(l) => told'[l] \in {told[l], told[l] + 1}
                           /\ Counted /\ l \in lines => told'[l] > 0
    BY <1>0, <2>1, CountedMore DEF KeeperTypeOK
  <2>4. NamedOnce' /\ Unnamed'
    <3>1. amiss \in Nat /\ \A l \in lines : Once(l) => l \notin file.nudged
      BY <1>0, <2>1 DEF Sending, KeeperTypeOK
    <3>2. \A l \in Line : Once(l) => told[l] <= 1 + amiss /\ (l \in lines => told[l] <= amiss)
      BY <1>0, <2>n, <3>1 DEF NamedOnce, Unnamed, Once
    <3>3. \A l \in Line : Once(l) => told'[l] <= 1 + amiss'
      BY <2>1, <2>n, <3>1, <3>2
    <3>4. \A l \in Line \ file'.nudged : Once(l) => told'[l] <= amiss'
      BY <1>0, <2>1, <2>n, <3>1, <3>2 DEF Unnamed
    <3> QED  BY <3>3, <3>4 DEF NamedOnce, Unnamed, Once
  <2>5. NudgedWasTold'
    BY <1>0, <2>1, <2>n DEF NudgedWasTold, KeeperTypeOK, FileOK
  <2>6. FirstComesFirst'
    <3> SUFFICES ASSUME NEW d \in Dose, told'[<<d, "near">>] > 0 PROVE told'[<<d, "first">>] > 0
      BY DEF FirstComesFirst
    <3>1. <<d, "near">> \in Line /\ <<d, "first">> \in Line
      BY LineParts
    <3>2. CASE told[<<d, "near">>] > 0
      BY <1>0, <2>n, <3>1, <3>2 DEF FirstComesFirst
    <3>3. CASE ~(told[<<d, "near">>] > 0)
      <4>1. <<d, "near">> \in lines
        BY <2>n, <3>1, <3>3
      <4>2. told[<<d, "first">>] > 0
        BY <1>0, <2>1, <4>1 DEF Sending, NudgedWasTold
      <4> QED  BY <2>n, <3>1, <4>2
    <3> QED  BY <3>2, <3>3
  <2> QED  BY <2>3, <2>4, <2>5, <2>6 DEF KeeperIInv, KeeperInv
<1>c. CASE Fails \/ KeeperRestarts
  <2>1. /\ morning = "sending" /\ morning' = "over" /\ copy' = NoFile /\ lines' = {}
        /\ amiss' = amiss + 1 /\ amiss' \in 0 .. MaxAmiss
        /\ Counted \/ UNCHANGED told
        /\ UNCHANGED <<phase, shown, file, fresh, kept, raced>>
    BY <1>0, <1>c DEF Fails, KeeperRestarts, MorningOver, Misses, KeeperTypeOK
  <2>2. KeeperTypeOK' /\ Shaped' /\ Sending'
    BY <1>0, <2>1, CountedMore DEF KeeperTypeOK, FileOK, NoFile, Shaped, Sending
  <2>n. /\ told' \in [Line -> Nat] /\ told \in [Line -> Nat] /\ lines \subseteq Line
        /\ \A l \in Line : /\ told[l] > 0 => told'[l] > 0
                           /\ l \notin lines => told'[l] = told[l]
                           /\ l \in lines /\ Once(l) => told'[l] \in {told[l], told[l] + 1}
                           /\ Counted /\ l \in lines => told'[l] > 0
    BY <1>0, <2>1, CountedMore DEF KeeperTypeOK
  <2>3. NamedOnce' /\ Unnamed'
    <3>1. amiss \in Nat /\ \A l \in lines : Once(l) => l \notin file.nudged
      BY <1>0, <2>1 DEF Sending, KeeperTypeOK
    <3>2. \A l \in Line : Once(l) => told[l] <= 1 + amiss /\ (l \in lines => told[l] <= amiss)
      BY <1>0, <2>n, <3>1 DEF NamedOnce, Unnamed, Once
    <3>3. \A l \in Line : Once(l) => told'[l] <= 1 + amiss'
      BY <2>1, <2>n, <3>1, <3>2
    <3>4. \A l \in Line \ file'.nudged : Once(l) => told'[l] <= amiss'
      BY <1>0, <2>1, <2>n, <3>1, <3>2 DEF Unnamed
    <3> QED  BY <3>3, <3>4 DEF NamedOnce, Unnamed, Once
  <2>4. NudgedWasTold'
    BY <1>0, <2>1, <2>n DEF NudgedWasTold, KeeperTypeOK, FileOK
  <2>5. FirstComesFirst'
    <3> SUFFICES ASSUME NEW d \in Dose, told'[<<d, "near">>] > 0 PROVE told'[<<d, "first">>] > 0
      BY DEF FirstComesFirst
    <3>1. <<d, "near">> \in Line /\ <<d, "first">> \in Line
      BY LineParts
    <3>2. CASE told[<<d, "near">>] > 0
      BY <1>0, <2>n, <3>1, <3>2 DEF FirstComesFirst
    <3>3. CASE ~(told[<<d, "near">>] > 0)
      <4>1. <<d, "near">> \in lines
        BY <2>n, <3>1, <3>3
      <4>2. told[<<d, "first">>] > 0
        BY <1>0, <2>1, <4>1 DEF Sending, NudgedWasTold
      <4> QED  BY <2>n, <3>1, <4>2
    <3> QED  BY <3>2, <3>3
  <2> QED  BY <2>2, <2>3, <2>4, <2>5 DEF KeeperIInv, KeeperInv
<1>d. ASSUME NEW d \in Dose, MarksDone(d) \/ CardChanges(d) PROVE KeeperIInv'
  BY <1>0, <1>d DEF MarksDone, CardChanges, KeeperIInv, KeeperInv, KeeperTypeOK, FileOK, NamedOnce,
     NudgedWasTold, FirstComesFirst, Unnamed, Sending, Shaped
<1>e. CASE DayPasses
  <2>1. phase' \in [Dose -> Phase] /\ fresh' \subseteq fresh
    BY <1>0, <1>e DEF DayPasses, KeeperTypeOK, NextPhase, Phase
  <2> QED
    BY <1>0, <1>e, <2>1 DEF DayPasses, KeeperIInv, KeeperInv, KeeperTypeOK, FileOK, NamedOnce,
       NudgedWasTold, FirstComesFirst, Unnamed, Sending, Shaped
<1>f. CASE UNCHANGED keeperVars
  BY <1>0, <1>f DEF keeperVars, KeeperIInv, KeeperInv, KeeperTypeOK, FileOK, NamedOnce, NudgedWasTold,
     FirstComesFirst, Unnamed, Sending, Shaped
<1> QED
  BY <1>a, <1>b, <1>c, <1>d, <1>e, <1>f DEF KeeperNext, Followed

(***************************************************************************)
(* The keeper names a dose once on coming into sight and once near its     *)
(* day, and remembers only what was handed over (kiaan_keeper.py, fire).   *)
(***************************************************************************)
THEOREM DosesAreNamedOnce == KeeperSpec => []KeeperInv
<1>1. KeeperSpec => []KeeperIInv
  BY InitKeeper, StepKeeper, PTL DEF KeeperSpec
<1>2. KeeperIInv => KeeperInv
  BY DEF KeeperIInv
<1> QED  BY <1>1, <1>2, PTL
-----------------------------------------------------------------------------
(***************************************************************************)
(* Facts.  Three arguments that share one induction.  While the holder of  *)
(* the lock has its mirror to do, the trusted rows are right but for what  *)
(* it changed.  A fact that hides an episode of its claim is inactive, or  *)
(* has just been restored by a holder who has not lifted the mark yet.     *)
(* And, as long as no undo restored more than was forgotten, a fact that   *)
(* is held was never superseded, nor was one that an undo can bring back.  *)
(***************************************************************************)
FactRecord == [claim : Claim, by : Author, active : BOOLEAN, over : 0 .. MaxFacts]

FactsShape ==
    /\ index \in Seq(FactRecord)
    /\ held.changed \subseteq Ids
    /\ held.effect = "hide" => held.changed \cap Active = {}
    /\ receipt.ids \subseteq Ids

RowsRight ==
    (follow = "rows" /\ ~marked /\ slips \cap {"cut", "outdated"} = {})
        => \A i \in Ids \ held.changed : rows[i] = Row(i)

JustRestored(i) == held.effect = "show" /\ i \in held.changed

HiddenRight ==
    /\ follow = "rows" => resweep = {} /\ \A c \in Claim : hidden[c] = {}
    /\ slips \cap {"stuck", "oversweep"} = {} =>
          \A c \in Claim : \A i \in hidden[c] :
              i \in Ids /\ index[i].claim = c /\ (~index[i].active \/ JustRestored(i))

Superseded == {i \in Ids \ Active : index[i].over # 0}

LeadsOn == \A S \in SUBSET Superseded : S # {} => \E i \in S : index[i].over \notin S

OversRight ==
    "overreach" \notin slips =>
        /\ \A i \in Active : index[i].over = 0
        /\ \A i \in receipt.took : i \in Ids /\ ~index[i].active /\ index[i].over = 0
        /\ LeadsOn

FactsIInv == FactsTypeOK /\ FactsShape /\ RowsRight /\ HiddenRight /\ OversRight

LEMMA IdsOf ==
    ASSUME index \in Seq(FactRecord)
    PROVE  /\ Len(index) \in Nat /\ Ids = 1 .. Len(index)
           /\ \A i \in Ids : index[i] \in FactRecord
           /\ Active \subseteq Ids
BY DEF Ids, Active

(* Facts listed by their position are an index.                            *)
LEMMA Listed ==
    ASSUME NEW n \in Nat, NEW f \in [1 .. n -> FactRecord]
    PROVE  f \in Seq(FactRecord) /\ Len(f) = n /\ \A i \in 1 .. n : f[i] \in FactRecord
OBVIOUS

(***************************************************************************)
(* What every change of the index under its lock keeps, when it leaves the *)
(* words of a fact alone, says which entries it touched, and brings back   *)
(* none but those it is going to show again.                               *)
(***************************************************************************)
Touches(new, changed, effect) ==
    /\ new \in Seq(FactRecord) /\ Len(index) <= Len(new) /\ Len(new) <= MaxFacts
    /\ changed \subseteq 1 .. Len(new)
    /\ \A i \in Ids : new[i].claim = index[i].claim
    /\ \A i \in 1 .. Len(new) : i \notin changed => i \in Ids /\ new[i].active = index[i].active
    /\ \A i \in Ids : new[i].active => index[i].active \/ (effect = "show" /\ i \in changed)
    /\ effect = "hide" => \A i \in changed : ~new[i].active
    /\ receipt' \in [ids : Subsets, took : Subsets] /\ receipt'.ids \subseteq 1 .. Len(new)
    /\ slips' \subseteq Slips /\ slips \subseteq slips' /\ resweep' = resweep

LEMMA SavesKeep ==
    ASSUME FactsTypeOK, FactsShape, RowsRight, HiddenRight,
           NEW new, NEW changed, NEW effect \in {"none", "hide", "show"},
           Saves(new, changed, effect), Touches(new, changed, effect)
    PROVE  FactsTypeOK' /\ FactsShape' /\ RowsRight' /\ HiddenRight'
<1> USE FactsAssumption DEF Saves, Touches
<1>1. Len(index) \in Nat /\ Ids = 1 .. Len(index) /\ Len(new) \in Nat /\ Ids' = 1 .. Len(new)
  BY DEF FactsShape, Ids
<1>2. Ids \subseteq Ids' /\ Ids' \subseteq 1 .. MaxFacts
  BY <1>1
<1>3. held = Released /\ held.changed = {} /\ held.effect = "none"
  BY DEF Released
<1>4. held' = [changed |-> changed, effect |-> effect] /\ held'.changed = changed /\ held'.effect = effect
  OBVIOUS
<1>5. \A i \in Ids' : index'[i] \in FactRecord
  BY <1>1
<1>6. FactsTypeOK'
  BY <1>1, <1>2, <1>4, <1>5 DEF FactsTypeOK, FactRecord, Subsets
<1>7. FactsShape'
  BY <1>1, <1>4 DEF FactsShape, Active
<1>8. RowsRight'
  BY <1>1, <1>2, <1>3, <1>4 DEF RowsRight, Row
<1>9. HiddenRight'
  <2>1. slips \cap {"stuck", "oversweep"} = {} => \A c \in Claim : \A i \in hidden[c] :
            i \in Ids /\ index[i].claim = c /\ ~index[i].active
    BY <1>3 DEF HiddenRight, JustRestored
  <2>2. slips' \cap {"stuck", "oversweep"} = {} => \A c \in Claim : \A i \in hidden'[c] :
            i \in Ids' /\ index'[i].claim = c /\ (~index'[i].active \/ (effect = "show" /\ i \in changed))
    BY <1>2, <2>1
  <2> QED  BY <1>4, <2>2 DEF HiddenRight, JustRestored
<1> QED  BY <1>6, <1>7, <1>8, <1>9

(***************************************************************************)
(* What superseded or dropped facts can be followed to.  If the index new  *)
(* has no further superseded fact but those of T, and each of these points *)
(* at a fact that is held, every group leads on.                           *)
(***************************************************************************)
LEMMA LeadsFurther ==
    ASSUME LeadsOn, NEW T,
           \A i \in Superseded' : i \in T \/ (i \in Superseded /\ index'[i].over = index[i].over),
           \A i \in T : index'[i].over \notin Superseded'
    PROVE  LeadsOn'
<1> SUFFICES ASSUME NEW S \in SUBSET Superseded', S # {} PROVE \E i \in S : index'[i].over \notin S
  BY DEF LeadsOn
<1>1. CASE \E i \in S : i \in T
  BY <1>1
<1>2. CASE ~\E i \in S : i \in T
  <2>1. S \in SUBSET Superseded /\ \A i \in S : index'[i].over = index[i].over
    BY <1>2
  <2>2. PICK i \in S : index[i].over \notin S
    BY <2>1 DEF LeadsOn
  <2> QED  BY <2>1, <2>2
<1> QED  BY <1>1, <1>2

LEMMA InitFacts == FactsInit => FactsIInv
<1> SUFFICES ASSUME FactsInit PROVE FactsIInv
  OBVIOUS
<1> USE FactsAssumption DEF FactsInit, Released, Unheard
<1>1. index \in Seq(FactRecord) /\ Ids = {} /\ Len(index) = 0
  BY DEF Ids
<1>2. FactsTypeOK
  <2>1. {} \in Subsets /\ \A i \in Ids : FALSE
    BY <1>1 DEF Subsets
  <2>2. rows \in [1 .. MaxFacts -> {"none", "on", "off"}] /\ hidden \in [Claim -> Subsets]
    BY <2>1
  <2>3. /\ held \in [changed : Subsets, effect : {"none", "hide", "show"}]
        /\ receipt \in [ids : Subsets, took : Subsets]
    BY <2>1
  <2>4. Len(index) <= MaxFacts
    BY <1>1
  <2> QED  BY <2>1, <2>2, <2>3, <2>4 DEF FactsTypeOK, Slips
<1>3. FactsShape
  BY <1>1 DEF FactsShape
<1>4. RowsRight /\ HiddenRight
  BY <1>1 DEF RowsRight, HiddenRight
<1>5. OversRight
  BY <1>1 DEF OversRight, LeadsOn, Superseded, Active
<1> QED  BY <1>2, <1>3, <1>4, <1>5 DEF FactsIInv

LEMMA StepFacts == FactsIInv /\ [FactsNext]_factVars => FactsIInv'
<1> SUFFICES ASSUME FactsIInv, [FactsNext]_factVars PROVE FactsIInv'
  OBVIOUS
<1> USE FactsAssumption
<1>0. FactsTypeOK /\ FactsShape /\ RowsRight /\ HiddenRight /\ OversRight
  BY DEF FactsIInv
<1>1. /\ Len(index) \in Nat /\ Ids = 1 .. Len(index) /\ Len(index) <= MaxFacts
      /\ \A i \in Ids : index[i] \in FactRecord
      /\ Active \subseteq Ids /\ Ids \in Subsets
  BY <1>0, IdsOf DEF FactsShape, FactsTypeOK, Subsets
<1>a. ASSUME NEW c \in Claim, NEW who \in Author, NEW over \in Claim \cup {"nothing"},
             AddsFact(c, who, over)
      PROVE  FactsIInv'
  <2>0. PICK n : n = Len(index) + 1
    OBVIOUS
  <2>1. PICK T : T = {i \in Saying(over) : index[i].by = who}
    OBVIOUS
  <2>2. PICK new : new = Append(Under(T, n), Fact(c, who))
    OBVIOUS
  <2>3. /\ Len(index) < MaxFacts /\ UNCHANGED <<receipt, resweep, slips>>
        /\ Saves(new, {n} \cup Saying(over), "none") /\ index' = new
    BY <1>a, <2>0, <2>1, <2>2 DEF AddsFact, Saves
  <2>4. T \subseteq Active /\ Saying(over) \subseteq Active /\ T \subseteq Saying(over)
    BY <2>1 DEF Saying
  <2>5. Under(T, n) \in Seq(FactRecord) /\ Len(Under(T, n)) = Len(index)
    <3>1. n \in 0 .. MaxFacts
      BY <1>1, <2>0, <2>3
    <3>2. Under(T, n) \in [1 .. Len(index) -> FactRecord]
      BY <1>1, <3>1 DEF Under, FactRecord
    <3> QED  BY <1>1, <3>2, Listed
  <2>6. Fact(c, who) \in FactRecord /\ Fact(c, who).active /\ Fact(c, who).over = 0
    BY DEF Fact, FactRecord
  <2>7. new \in Seq(FactRecord) /\ Len(new) = n /\ new[n] = Fact(c, who)
    BY <2>0, <2>2, <2>5, <2>6, <1>1
  <2>8. \A i \in Ids : new[i] = IF i \in T THEN [index[i] EXCEPT !.active = FALSE, !.over = n] ELSE index[i]
    <3>1. \A i \in Ids : new[i] = Under(T, n)[i]
      BY <1>1, <2>0, <2>2, <2>5, <2>6
    <3> QED  BY <3>1 DEF Under
  <2>9. \A i \in Ids : /\ new[i].claim = index[i].claim
                       /\ i \notin T => new[i] = index[i]
                       /\ i \in T => ~new[i].active /\ new[i].over = n
    BY <1>1, <2>8 DEF FactRecord
  <2>b. FactsTypeOK' /\ FactsShape' /\ RowsRight' /\ HiddenRight'
    <3>1. /\ receipt' \in [ids : Subsets, took : Subsets] /\ receipt'.ids \subseteq 1 .. Len(new)
          /\ slips' \subseteq Slips
      BY <1>0, <1>1, <2>0, <2>3, <2>7 DEF FactsTypeOK, FactsShape
    <3>2. {n} \cup Saying(over) \subseteq 1 .. Len(new)
      <4>1. Saying(over) \subseteq 1 .. Len(index)
        BY <1>1, <2>4
      <4>2. Len(new) = n /\ n = Len(index) + 1 /\ Len(index) \in Nat
        BY <1>1, <2>0, <2>7
      <4> QED  BY <4>1, <4>2
    <3>3. \A i \in 1 .. Len(new) : i \notin {n} \cup Saying(over) => i \in Ids /\ new[i].active = index[i].active
      BY <1>1, <2>0, <2>4, <2>7, <2>9
    <3>4. \A i \in Ids : new[i].active => index[i].active
      BY <2>9
    <3>5. Touches(new, {n} \cup Saying(over), "none")
      BY <1>1, <2>0, <2>3, <2>7, <2>9, <3>1, <3>2, <3>3, <3>4 DEF Touches
    <3> QED  BY <1>0, <2>3, <3>5, SavesKeep
  <2>c. OversRight'
    <3> SUFFICES ASSUME "overreach" \notin slips PROVE OversRight'
      BY <2>3 DEF OversRight
    <3>0. /\ LeadsOn
          /\ \A i \in Active : index[i].over = 0
          /\ \A i \in receipt.took : i \in Ids /\ ~index[i].active /\ index[i].over = 0
      BY <1>0 DEF OversRight
    <3>1. Ids' = Ids \cup {n} /\ n \notin Ids
      BY <1>1, <2>0, <2>3, <2>7 DEF Ids
    <3>2. Active' = (Active \ T) \cup {n}
      BY <2>3, <2>4, <2>6, <2>7, <2>9, <3>1 DEF Active
    <3>3. Superseded' \subseteq Superseded \cup T
      BY <2>3, <2>6, <2>7, <2>9, <3>1, <3>2 DEF Superseded, Active
    <3>4. LeadsOn'
      <4>1. \A i \in T : index'[i].over \notin Superseded'
        BY <2>3, <2>4, <2>9, <3>2, <1>1 DEF Superseded
      <4>2. \A i \in Superseded' : i \in T \/ (i \in Superseded /\ index'[i].over = index[i].over)
        BY <2>3, <2>9, <3>3 DEF Superseded
      <4> QED  BY <3>0, <4>1, <4>2, LeadsFurther
    <3>5. \A i \in Active' : index'[i].over = 0
      BY <1>1, <2>3, <2>6, <2>7, <2>9, <3>0, <3>2
    <3>6. \A i \in receipt'.took : i \in Ids' /\ ~index'[i].active /\ index'[i].over = 0
      BY <2>3, <2>4, <2>9, <3>0, <3>1 DEF Active
    <3> QED  BY <3>4, <3>5, <3>6 DEF OversRight
  <2> QED  BY <2>b, <2>c DEF FactsIInv
<1>b. ASSUME NEW S \in SUBSET Ids, Reflags(S) PROVE FactsIInv'
  <2>1. /\ Saves(index, S, "none") /\ UNCHANGED <<receipt, resweep, slips, index>>
        /\ resweep' = resweep /\ slips' = slips
    BY <1>b DEF Reflags, Saves
  <2>2. FactsTypeOK' /\ FactsShape' /\ RowsRight' /\ HiddenRight'
    <3>1. /\ receipt' \in [ids : Subsets, took : Subsets] /\ receipt'.ids \subseteq 1 .. Len(index)
          /\ slips' \subseteq Slips /\ slips \subseteq slips'
      BY <1>0, <1>1, <2>1 DEF FactsTypeOK, FactsShape
    <3>2. index \in Seq(FactRecord) /\ S \subseteq 1 .. Len(index)
      BY <1>0, <1>1 DEF FactsShape
    <3>3. Touches(index, S, "none")
      BY <1>1, <2>1, <3>1, <3>2 DEF Touches
    <3> QED  BY <1>0, <2>1, <3>3, SavesKeep
  <2>3. OversRight'
    BY <1>0, <2>1 DEF OversRight, LeadsOn, Superseded, Active, Ids
  <2> QED  BY <2>2, <2>3 DEF FactsIInv
\* Expires and Forgets.
<1>c. ASSUME NEW S \in SUBSET Active, NEW effect \in {"none", "hide"}, Saves(Drops(S), S, effect),
             UNCHANGED <<resweep, slips>>,
             \/ UNCHANGED receipt
             \/ /\ receipt' \in [ids : Subsets, took : Subsets]
                /\ receipt'.ids \subseteq Ids /\ receipt'.took \subseteq S
      PROVE  FactsIInv'
  <2>1. PICK new : new = Drops(S) /\ index' = new
    BY <1>c DEF Saves
  <2>0. resweep' = resweep /\ slips' = slips /\ Saves(new, S, effect)
    BY <1>c, <2>1
  <2>2. new \in Seq(FactRecord) /\ Len(new) = Len(index)
    <3>1. new \in [1 .. Len(index) -> FactRecord]
      BY <1>1, <2>1 DEF Drops, FactRecord
    <3> QED  BY <1>1, <3>1, Listed
  <2>3. \A i \in Ids : /\ new[i].claim = index[i].claim /\ new[i].over = index[i].over
                       /\ new[i].active = (index[i].active /\ i \notin S)
    BY <1>1, <2>1 DEF Drops, FactRecord
  <2>4. FactsTypeOK' /\ FactsShape' /\ RowsRight' /\ HiddenRight'
    <3>1. /\ receipt' \in [ids : Subsets, took : Subsets] /\ receipt'.ids \subseteq 1 .. Len(new)
          /\ slips' \subseteq Slips /\ slips \subseteq slips'
      BY <1>0, <1>1, <1>c, <2>2 DEF FactsTypeOK, FactsShape
    <3>2. S \subseteq 1 .. Len(new)
      BY <1>1, <2>2
    <3>3. \A i \in 1 .. Len(new) : i \notin S => i \in Ids /\ new[i].active = index[i].active
      BY <1>1, <2>2, <2>3 DEF FactRecord
    <3>4. (\A i \in Ids : new[i].active => index[i].active) /\ (\A i \in S : ~new[i].active)
      BY <1>1, <2>3
    <3>5. Touches(new, S, effect)
      BY <1>1, <2>0, <2>2, <2>3, <3>1, <3>2, <3>3, <3>4 DEF Touches
    <3> QED  BY <1>0, <2>0, <3>5, SavesKeep
  <2>5. OversRight'
    <3> SUFFICES ASSUME "overreach" \notin slips PROVE OversRight'
      BY <1>c DEF OversRight
    <3>0. /\ LeadsOn
          /\ \A i \in Active : index[i].over = 0
          /\ \A i \in receipt.took : i \in Ids /\ ~index[i].active /\ index[i].over = 0
      BY <1>0 DEF OversRight
    <3>1. Ids' = Ids /\ Active' = Active \ S
      <4>1. Ids' = Ids
        BY <1>1, <2>1, <2>2 DEF Ids
      <4> QED  BY <1>1, <2>1, <2>3, <4>1 DEF Active, FactRecord
    <3>2. Superseded' = Superseded
      BY <2>1, <2>3, <3>0, <3>1 DEF Superseded
    <3>3. LeadsOn'
      <4>1. \A i \in Superseded : index'[i].over = index[i].over
        BY <2>1, <2>3 DEF Superseded
      <4> QED  BY <3>0, <3>2, <4>1 DEF LeadsOn
    <3>4. \A i \in Active' : index'[i].over = 0
      BY <1>1, <2>1, <2>3, <3>0, <3>1
    <3>5. \A i \in receipt'.took : i \in Ids' /\ ~index'[i].active /\ index'[i].over = 0
      BY <1>1, <1>c, <2>1, <2>3, <3>0, <3>1
    <3> QED  BY <3>3, <3>4, <3>5 DEF OversRight
  <2> QED  BY <2>4, <2>5 DEF FactsIInv
<1>d. ASSUME NEW S \in SUBSET Active, Expires(S) PROVE FactsIInv'
  BY <1>c, <1>d DEF Expires
<1>e. ASSUME NEW M \in SUBSET Active, NEW S \in SUBSET M, Forgets(M, S) PROVE FactsIInv'
  <2>1. M \in Subsets /\ S \in Subsets /\ S \in SUBSET Active
    BY <1>1 DEF Subsets
  <2>2. /\ Saves(Drops(S), S, "hide") /\ UNCHANGED <<resweep, slips>>
        /\ receipt' = [ids |-> M, took |-> S] \/ receipt' = receipt
    BY <1>e DEF Forgets
  <2>3. CASE receipt' = [ids |-> M, took |-> S]
    <3>1. /\ receipt' \in [ids : Subsets, took : Subsets]
          /\ receipt'.ids \subseteq Ids /\ receipt'.took \subseteq S
      BY <1>1, <2>1, <2>3
    <3> QED  BY <1>c, <2>1, <2>2, <3>1
  <2>4. CASE receipt' = receipt
    BY <1>c, <2>1, <2>2, <2>4
  <2> QED  BY <2>2, <2>3, <2>4
<1>f. ASSUME NEW keep \in Active, NEW S \in SUBSET (Active \ {keep}),
             Saves(Under(S, keep), S, "none"), UNCHANGED <<receipt, resweep, slips>>
      PROVE  FactsIInv'
  <2>1. PICK new : new = Under(S, keep) /\ index' = new
    BY <1>f DEF Saves
  <2>0. resweep' = resweep /\ slips' = slips /\ Saves(new, S, "none")
    BY <1>f, <2>1
  <2>2. new \in Seq(FactRecord) /\ Len(new) = Len(index)
    <3>1. keep \in 0 .. MaxFacts
      BY <1>1
    <3>2. new \in [1 .. Len(index) -> FactRecord]
      BY <1>1, <2>1, <3>1 DEF Under, FactRecord
    <3> QED  BY <1>1, <3>2, Listed
  <2>3. \A i \in Ids : /\ new[i].claim = index[i].claim
                       /\ i \notin S => new[i] = index[i]
                       /\ i \in S => ~new[i].active /\ new[i].over = keep
    BY <1>1, <2>1 DEF Under, FactRecord
  <2>4. FactsTypeOK' /\ FactsShape' /\ RowsRight' /\ HiddenRight'
    <3>1. /\ receipt' \in [ids : Subsets, took : Subsets] /\ receipt'.ids \subseteq 1 .. Len(new)
          /\ slips' \subseteq Slips /\ slips \subseteq slips'
      BY <1>0, <1>1, <1>f, <2>2 DEF FactsTypeOK, FactsShape
    <3>2. S \subseteq 1 .. Len(new)
      BY <1>1, <2>2
    <3>3. \A i \in 1 .. Len(new) : i \notin S => i \in Ids /\ new[i].active = index[i].active
      BY <1>1, <2>2, <2>3 DEF FactRecord
    <3>4. \A i \in Ids : new[i].active => index[i].active
      BY <2>3
    <3>5. Touches(new, S, "none")
      BY <1>1, <2>0, <2>2, <2>3, <3>1, <3>2, <3>3, <3>4 DEF Touches
    <3> QED  BY <1>0, <2>0, <3>5, SavesKeep
  <2>5. OversRight'
    <3> SUFFICES ASSUME "overreach" \notin slips PROVE OversRight'
      BY <1>f DEF OversRight
    <3>0. /\ LeadsOn
          /\ \A i \in Active : index[i].over = 0
          /\ \A i \in receipt.took : i \in Ids /\ ~index[i].active /\ index[i].over = 0
      BY <1>0 DEF OversRight
    <3>1. Ids' = Ids /\ Active' = Active \ S /\ keep \in Active'
      BY <1>1, <2>1, <2>2, <2>3 DEF Ids, Active
    <3>2. Superseded' \subseteq Superseded \cup S
      BY <2>1, <2>3, <3>1 DEF Superseded, Active
    <3>3. LeadsOn'
      <4>1. \A i \in S : index'[i].over \notin Superseded'
        BY <1>1, <2>1, <2>3, <3>1 DEF Superseded
      <4>2. \A i \in Superseded' : i \in S \/ (i \in Superseded /\ index'[i].over = index[i].over)
        BY <2>1, <2>3, <3>1, <3>2 DEF Superseded
      <4> QED  BY <3>0, <4>1, <4>2, LeadsFurther
    <3>4. \A i \in Active' : index'[i].over = 0
      BY <1>1, <2>1, <2>3, <3>0, <3>1
    <3>5. \A i \in receipt'.took : i \in Ids' /\ ~index'[i].active /\ index'[i].over = 0
      BY <1>f, <2>1, <2>3, <3>0, <3>1 DEF Active
    <3> QED  BY <3>3, <3>4, <3>5 DEF OversRight
  <2> QED  BY <2>4, <2>5 DEF FactsIInv
<1>g. CASE Unforgets
  <2>0. PICK back : back = receipt.ids \ Active
    OBVIOUS
  <2>1. PICK new : new = [i \in Ids |-> [index[i] EXCEPT !.active = @ \/ i \in back]] /\ index' = new
    BY <1>g, <2>0 DEF Unforgets, Saves
  <2>2. /\ Saves(new, back, "show") /\ receipt' = Unheard /\ resweep' = resweep
        /\ slips' = IF back \subseteq receipt.took THEN slips ELSE slips \cup {"overreach"}
    BY <1>g, <2>0, <2>1 DEF Unforgets
  <2>3. new \in Seq(FactRecord) /\ Len(new) = Len(index)
    <3>1. new \in [1 .. Len(index) -> FactRecord]
      BY <1>1, <2>1 DEF FactRecord
    <3> QED  BY <1>1, <3>1, Listed
  <2>4. \A i \in Ids : /\ new[i].claim = index[i].claim /\ new[i].over = index[i].over
                       /\ new[i].active = (index[i].active \/ i \in back)
    BY <1>1, <2>1 DEF FactRecord
  <2>5. back \subseteq Ids
    BY <1>0, <2>0 DEF FactsShape
  <2>6. FactsTypeOK' /\ FactsShape' /\ RowsRight' /\ HiddenRight'
    <3>1. /\ receipt' \in [ids : Subsets, took : Subsets] /\ receipt'.ids \subseteq 1 .. Len(new)
          /\ slips' \subseteq Slips /\ slips \subseteq slips'
      BY <1>0, <2>2 DEF FactsTypeOK, Unheard, Subsets, Slips
    <3>2. \A i \in 1 .. Len(new) : i \notin back => i \in Ids /\ new[i].active = index[i].active
      BY <1>1, <2>3, <2>4 DEF FactRecord
    <3>3. \A i \in Ids : new[i].active => index[i].active \/ i \in back
      BY <2>4
    <3>4. Touches(new, back, "show")
      BY <1>1, <2>2, <2>3, <2>4, <2>5, <3>1, <3>2, <3>3 DEF Touches
    <3> QED  BY <1>0, <2>2, <3>4, SavesKeep
  <2>7. OversRight'
    <3> SUFFICES ASSUME "overreach" \notin slips, back \subseteq receipt.took PROVE OversRight'
      BY <2>2 DEF OversRight
    <3>0. /\ LeadsOn
          /\ \A i \in Active : index[i].over = 0
          /\ \A i \in receipt.took : i \in Ids /\ ~index[i].active /\ index[i].over = 0
      BY <1>0 DEF OversRight
    <3>1. Ids' = Ids /\ Active' = Active \cup back
      <4>1. Ids' = Ids
        BY <1>1, <2>1, <2>3 DEF Ids
      <4> QED  BY <1>1, <2>1, <2>4, <2>5, <4>1 DEF Active, FactRecord
    <3>2. Superseded' = Superseded
      BY <2>1, <2>4, <3>0, <3>1 DEF Superseded
    <3>3. LeadsOn'
      <4>1. \A i \in Superseded : index'[i].over = index[i].over
        BY <2>1, <2>4 DEF Superseded
      <4> QED  BY <3>0, <3>2, <4>1 DEF LeadsOn
    <3>4. \A i \in Active' : index'[i].over = 0
      BY <1>1, <2>1, <2>4, <2>5, <3>0, <3>1
    <3> QED  BY <2>2, <3>3, <3>4 DEF OversRight, Unheard
  <2> QED  BY <2>6, <2>7 DEF FactsIInv
\* From here on the index and the log stay as they are.
<1>h. ASSUME UNCHANGED <<index, receipt>>, "overreach" \in slips' <=> "overreach" \in slips
      PROVE  OversRight'
  BY <1>0, <1>h DEF OversRight, LeadsOn, Superseded, Active, Ids
<1>i. CASE Finishes
  <2>0. UNCHANGED <<follow, index, receipt, resweep>> /\ held' = Released
    BY <1>i DEF Finishes
  <2>1. Ids' = Ids /\ Active' = Active /\ \A i \in Ids : Row(i)' = Row(i)
    BY <2>0 DEF Ids, Active, Row
  <2>2. FactsShape'
    BY <1>0, <2>0, <2>1 DEF FactsShape, Released
  <2>3. held' \in [changed : Subsets, effect : {"none", "hide", "show"}]
    BY <2>0 DEF Released, Subsets
  <2>a. CASE follow = "rows"
    <3>1. /\ MirrorLands \/ MirrorFails
          /\ slips' = IF rows' = Mirrored(Ids) THEN slips \ {"cut", "outdated"} ELSE slips
          /\ UNCHANGED hidden
      BY <1>i, <2>a DEF Finishes
    <3>2. Ids \subseteq 1 .. MaxFacts
      BY <1>1 DEF Subsets
    <3>3. \A S : Mirrored(S) \in [1 .. MaxFacts -> {"none", "on", "off"}]
      BY <1>0 DEF Mirrored, Row, FactsTypeOK
    <3>4. \A i \in Ids : Mirrored(Ids)[i] = Row(i)
      BY <3>2 DEF Mirrored
    <3>5. FactsTypeOK'
      <4>1. rows' \in [1 .. MaxFacts -> {"none", "on", "off"}] /\ marked' \in BOOLEAN
        <5>1. CASE MirrorLands
          BY <3>3, <5>1 DEF MirrorLands
        <5>2. CASE MirrorFails
          BY <1>0, <3>3, <5>2 DEF MirrorFails, FactsTypeOK
        <5> QED  BY <3>1, <5>1, <5>2
      <4>2. slips' \subseteq Slips
        BY <1>0, <3>1 DEF FactsTypeOK
      <4> QED  BY <1>0, <2>0, <2>1, <2>3, <3>1, <4>1, <4>2 DEF FactsTypeOK
    <3>6. RowsRight'
      <4> SUFFICES ASSUME ~marked', slips' \cap {"cut", "outdated"} = {}, NEW i \in Ids
                   PROVE  rows'[i] = Row(i)
        BY <2>1 DEF RowsRight
      <4>1. CASE rows' = Mirrored(Ids)
        BY <3>4, <4>1
      <4>2. CASE rows' # Mirrored(Ids)
        <5>1. slips \cap {"cut", "outdated"} = {} /\ ~marked /\ rows' = Mirrored(held.changed)
          BY <3>1, <4>2 DEF MirrorLands, MirrorFails
        <5>2. i \notin held.changed => rows[i] = Row(i)
          BY <1>0, <2>a, <5>1 DEF RowsRight
        <5> QED  BY <3>2, <5>1, <5>2 DEF Mirrored
      <4> QED  BY <4>1, <4>2
    <3>7. HiddenRight'
      <4>1. resweep' = {} /\ \A c \in Claim : hidden'[c] = {}
        BY <1>0, <2>0, <2>a, <3>1 DEF HiddenRight
      <4> QED  BY <4>1 DEF HiddenRight
    <3>8. "overreach" \in slips' <=> "overreach" \in slips
      BY <3>1
    <3> QED  BY <1>h, <2>0, <2>2, <3>5, <3>6, <3>7, <3>8 DEF FactsIInv
  <2>b. CASE follow = "episodes"
    <3>1. /\ hidden' \in {hidden, Hiding(held.effect)}
          /\ slips' = slips \cup (IF held.effect = "show" /\ hidden' # Hiding("show") THEN {"stuck"} ELSE {})
          /\ UNCHANGED <<rows, marked>>
      BY <1>i, <2>b DEF Finishes
    <3>2. held.changed \in Subsets
      BY <1>0 DEF FactsTypeOK
    <3>3. Hiding(held.effect) \in [Claim -> Subsets]
      BY <1>0, <3>2 DEF Hiding, FactsTypeOK, Subsets
    <3>4. FactsTypeOK'
      <4>1. hidden' \in [Claim -> Subsets] /\ slips' \subseteq Slips
        BY <1>0, <3>1, <3>3 DEF FactsTypeOK, Slips
      <4> QED  BY <1>0, <2>0, <2>1, <2>3, <3>1, <4>1 DEF FactsTypeOK
    <3>5. RowsRight'
      BY <2>0, <2>b DEF RowsRight
    <3>6. HiddenRight'
      <4> SUFFICES ASSUME slips' \cap {"stuck", "oversweep"} = {}, NEW c \in Claim, NEW i \in hidden'[c]
                   PROVE  i \in Ids /\ index[i].claim = c /\ ~index[i].active
        BY <2>0, <2>1, <2>b DEF HiddenRight
      <4>1. \A j \in hidden[c] : /\ j \in Ids /\ index[j].claim = c
                                 /\ ~index[j].active \/ JustRestored(j)
        BY <1>0, <3>1 DEF HiddenRight
      <4>2. CASE held.effect = "show"
        <5>1. hidden' = Hiding("show")
          BY <3>1, <4>2
        <5>2. hidden'[c] = hidden[c] \ {j \in held.changed : index[j].claim = c}
          BY <5>1 DEF Hiding
        <5> QED  BY <4>1, <5>2 DEF JustRestored
      <4>3. CASE held.effect # "show"
        <5>1. \A j \in hidden[c] : j \in Ids /\ index[j].claim = c /\ ~index[j].active
          BY <4>1, <4>3 DEF JustRestored
        <5>2. CASE i \in hidden[c]
          BY <5>1, <5>2
        <5>3. CASE i \notin hidden[c]
          <6>1. i \in Hiding(held.effect)[c]
            BY <3>1, <5>3
          <6>2. held.effect = "hide" /\ i \in held.changed /\ index[i].claim = c
            BY <4>3, <5>3, <6>1 DEF Hiding
          <6> QED  BY <1>0, <6>2 DEF FactsShape, Active
        <5> QED  BY <5>2, <5>3
      <4> QED  BY <4>2, <4>3
    <3>7. "overreach" \in slips' <=> "overreach" \in slips
      BY <3>1
    <3> QED  BY <1>h, <2>0, <2>2, <3>4, <3>5, <3>6, <3>7 DEF FactsIInv
  <2> QED  BY <1>0, <2>a, <2>b DEF FactsTypeOK
<1>j. CASE HolderDies
  <2>0. /\ held' = Released /\ resweep' = {}
        /\ slips' = slips \cup (IF follow = "rows" /\ held # Released THEN {"cut"} ELSE {})
                         \cup (IF follow = "episodes" /\ held.effect = "show" THEN {"stuck"} ELSE {})
        /\ UNCHANGED <<follow, index, rows, marked, hidden, receipt>>
    BY <1>j DEF HolderDies
  <2>1. Ids' = Ids /\ Active' = Active /\ \A i \in Ids : Row(i)' = Row(i)
    BY <2>0 DEF Ids, Active, Row
  <2>2. FactsShape'
    BY <1>0, <2>0, <2>1 DEF FactsShape, Released
  <2>3. FactsTypeOK'
    <3>1. held' \in [changed : Subsets, effect : {"none", "hide", "show"}] /\ resweep' \in Subsets
      BY <2>0 DEF Released, Subsets
    <3>2. slips' \subseteq Slips
      BY <1>0, <2>0 DEF FactsTypeOK, Slips
    <3> QED  BY <1>0, <2>0, <2>1, <3>1, <3>2 DEF FactsTypeOK
  <2>4. RowsRight'
    <3> SUFFICES ASSUME follow = "rows", ~marked, slips' \cap {"cut", "outdated"} = {}, NEW i \in Ids
                 PROVE  rows[i] = Row(i)
      BY <2>0, <2>1 DEF RowsRight
    <3>1. held = Released /\ slips \cap {"cut", "outdated"} = {}
      BY <2>0
    <3> QED  BY <1>0, <3>1 DEF RowsRight, Released
  <2>5. HiddenRight'
    <3>1. follow = "rows" => \A c \in Claim : hidden[c] = {}
      BY <1>0 DEF HiddenRight
    <3> SUFFICES ASSUME slips' \cap {"stuck", "oversweep"} = {}, follow # "rows",
                        NEW c \in Claim, NEW i \in hidden[c]
                 PROVE  i \in Ids /\ index[i].claim = c /\ ~index[i].active
      BY <2>0, <2>1, <3>1 DEF HiddenRight
    <3>2. held.effect # "show" /\ slips \cap {"stuck", "oversweep"} = {}
      BY <1>0, <2>0 DEF FactsTypeOK
    <3> QED  BY <1>0, <3>2 DEF HiddenRight, JustRestored
  <2>6. "overreach" \in slips' <=> "overreach" \in slips
    BY <2>0
  <2> QED  BY <1>h, <2>0, <2>2, <2>3, <2>4, <2>5, <2>6 DEF FactsIInv
<1>k. ASSUME NEW c \in Claim, Ingests(c) PROVE FactsIInv'
  <2>0. /\ follow = "episodes" /\ hidden' = [hidden EXCEPT ![c] = {}]
        /\ UNCHANGED <<follow, index, rows, marked, held, receipt, resweep, slips>>
    BY <1>k DEF Ingests
  <2>1. Ids' = Ids /\ Active' = Active
    BY <2>0 DEF Ids, Active
  <2>2. FactsTypeOK'
    BY <1>0, <2>0, <2>1 DEF FactsTypeOK, Subsets
  <2>3. FactsShape' /\ RowsRight'
    BY <1>0, <2>0, <2>1 DEF FactsShape, RowsRight
  <2>4. HiddenRight'
    <3>1. \A d \in Claim : hidden'[d] \subseteq hidden[d]
      BY <1>0, <2>0 DEF FactsTypeOK
    <3> QED  BY <1>0, <2>0, <2>1, <3>1 DEF HiddenRight, JustRestored
  <2> QED  BY <1>h, <2>0, <2>2, <2>3, <2>4 DEF FactsIInv
<1>l. CASE ResweepReads \/ ResweepFails
  <2>0. /\ resweep' = {} \/ (follow = "episodes" /\ resweep' = Forgotten)
        /\ UNCHANGED <<follow, index, rows, marked, hidden, held, receipt, slips>>
    BY <1>l DEF ResweepReads, ResweepFails
  <2>1. Ids' = Ids /\ Active' = Active
    BY <2>0 DEF Ids, Active
  <2>2. FactsTypeOK'
    <3>1. resweep' \in Subsets
      BY <1>1, <2>0 DEF Forgotten, Subsets
    <3> QED  BY <1>0, <2>0, <2>1, <3>1 DEF FactsTypeOK
  <2>3. FactsShape' /\ RowsRight' /\ HiddenRight'
    BY <1>0, <2>0, <2>1 DEF FactsShape, RowsRight, Row, HiddenRight, JustRestored
  <2> QED  BY <1>h, <2>0, <2>2, <2>3 DEF FactsIInv
<1>m. CASE ResweepMarks
  <2>0. /\ resweep # {} /\ resweep' = {}
        /\ hidden' = [c \in Claim |-> hidden[c] \cup {i \in resweep : index[i].claim = c}]
        /\ slips' = IF resweep \subseteq Forgotten THEN slips ELSE slips \cup {"oversweep"}
        /\ UNCHANGED <<follow, index, rows, marked, held, receipt>>
    BY <1>m DEF ResweepMarks
  <2>1. Ids' = Ids /\ Active' = Active
    BY <2>0 DEF Ids, Active
  <2>2. FactsTypeOK'
    <3>1. hidden' \in [Claim -> Subsets]
      BY <1>0, <2>0 DEF FactsTypeOK, Subsets
    <3>2. resweep' \in Subsets /\ slips' \subseteq Slips
      BY <1>0, <2>0 DEF FactsTypeOK, Subsets, Slips
    <3> QED  BY <1>0, <2>0, <2>1, <3>1, <3>2 DEF FactsTypeOK
  <2>3. FactsShape' /\ RowsRight'
    BY <1>0, <2>0, <2>1 DEF FactsShape, RowsRight, Row
  <2>4. HiddenRight'
    <3>1. follow # "rows"
      BY <1>0, <2>0 DEF HiddenRight
    <3> SUFFICES ASSUME slips' \cap {"stuck", "oversweep"} = {}, NEW c \in Claim, NEW i \in hidden'[c]
                 PROVE  /\ i \in Ids /\ index[i].claim = c
                        /\ ~index[i].active \/ JustRestored(i)
      BY <2>0, <2>1, <3>1 DEF HiddenRight, JustRestored
    <3>2. resweep \subseteq Forgotten /\ slips \cap {"stuck", "oversweep"} = {}
      BY <2>0
    <3>3. CASE i \in hidden[c]
      BY <1>0, <3>2, <3>3 DEF HiddenRight
    <3>4. CASE i \in resweep /\ index[i].claim = c
      BY <3>2, <3>4 DEF Forgotten
    <3> QED  BY <2>0, <3>3, <3>4
  <2>5. "overreach" \in slips' <=> "overreach" \in slips
    BY <2>0
  <2> QED  BY <1>h, <2>0, <2>2, <2>3, <2>4, <2>5 DEF FactsIInv
<1>n. ASSUME NEW lagging \in SUBSET Ids, Resyncs(lagging) PROVE FactsIInv'
  <2>0. /\ follow = "rows"
        /\ rows' = [i \in 1 .. MaxFacts |-> IF i \in lagging THEN "on" ELSE Mirrored(Ids)[i]]
        /\ slips' = (slips \ {"cut", "outdated"}) \cup (IF lagging = {} THEN {} ELSE {"outdated"})
        /\ UNCHANGED <<follow, index, marked, hidden, held, receipt, resweep>>
    BY <1>n DEF Resyncs
  <2>1. Ids' = Ids /\ Active' = Active /\ \A i \in Ids : Row(i)' = Row(i)
    BY <2>0 DEF Ids, Active, Row
  <2>2. FactsTypeOK'
    <3>1. Mirrored(Ids) \in [1 .. MaxFacts -> {"none", "on", "off"}]
      BY <1>0 DEF Mirrored, Row, FactsTypeOK
    <3>2. rows' \in [1 .. MaxFacts -> {"none", "on", "off"}]
      BY <2>0, <3>1
    <3>3. slips' \subseteq Slips
      BY <1>0, <2>0 DEF FactsTypeOK, Slips
    <3> QED  BY <1>0, <2>0, <2>1, <3>2, <3>3 DEF FactsTypeOK
  <2>3. RowsRight'
    <3> SUFFICES ASSUME slips' \cap {"cut", "outdated"} = {}, NEW i \in Ids PROVE rows'[i] = Row(i)
      BY <2>1 DEF RowsRight
    <3>1. lagging = {} /\ i \in 1 .. MaxFacts
      BY <1>1, <2>0 DEF Subsets
    <3> QED  BY <2>0, <3>1 DEF Mirrored
  <2>4. FactsShape' /\ HiddenRight'
    <3>1. resweep' = {} /\ \A c \in Claim : hidden'[c] = {}
      BY <1>0, <2>0 DEF HiddenRight
    <3> QED  BY <1>0, <2>0, <2>1, <3>1 DEF FactsShape, HiddenRight
  <2>5. "overreach" \in slips' <=> "overreach" \in slips
    BY <2>0
  <2> QED  BY <1>h, <2>0, <2>2, <2>3, <2>4, <2>5 DEF FactsIInv
<1>o. CASE UNCHANGED factVars
  <2>1. Ids' = Ids /\ Active' = Active
    BY <1>o DEF factVars, Ids, Active
  <2>2. FactsTypeOK' /\ FactsShape' /\ RowsRight' /\ HiddenRight'
    BY <1>0, <1>o, <2>1 DEF factVars, FactsTypeOK, FactsShape, RowsRight, Row, HiddenRight, JustRestored
  <2> QED  BY <1>h, <1>o, <2>2 DEF factVars, FactsIInv
<1>p. ASSUME NEW S \in SUBSET Active, NEW keep \in Ids, Consolidates(keep, S) PROVE FactsIInv'
  BY <1>f, <1>p DEF Consolidates
<1> QED
  BY <1>a, <1>b, <1>d, <1>e, <1>g, <1>i, <1>j, <1>k, <1>l, <1>m, <1>n, <1>o, <1>p DEF FactsNext

(***************************************************************************)
(* While the mirror is trusted its rows say what the index says; what      *)
(* superseded a fact can be followed to one that is held or was dropped;   *)
(* and what an undo restored can be recalled again: for any claims,        *)
(* authors and number of facts, and any number of mishaps.                 *)
(***************************************************************************)
THEOREM FactsAreTrue == FactsSpec => []FactsInv
<1>1. FactsSpec => []FactsIInv
  BY InitFacts, StepFacts, PTL DEF FactsSpec
<1>2. FactsIInv => FactsInv
  <2> SUFFICES ASSUME FactsIInv PROVE FactsInv
    OBVIOUS
  <2>1. TrustedRowsAreRight
    BY DEF FactsIInv, TrustedRowsAreRight, RowsRight, Released
  <2>2. SupersededLeadsOn
    BY DEF FactsIInv, SupersededLeadsOn, OversRight, LeadsOn, Superseded
  <2>3. RestoredIsFindable
    BY DEF FactsIInv, RestoredIsFindable, HiddenRight, JustRestored, Released, Active
  <2> QED  BY <2>1, <2>2, <2>3 DEF FactsIInv, FactsInv
<1> QED  BY <1>1, <1>2, PTL
-----------------------------------------------------------------------------
(***************************************************************************)
(* Session.  An entry of the window is the one said so many entries ago,   *)
(* or it is one that was given up once; what waits in the backlog left the *)
(* window, so it lies a whole window back.                                 *)
(***************************************************************************)
Chats == [window : Seq(Entry), backlog : Seq(Entry)]

Placed(c, s) ==
    /\ Len(c.window) <= Window
    /\ \A i \in 1 .. Len(c.window) : c.window[i].n + Len(c.window) - i <= s
    /\ \A i \in 1 .. Len(c.backlog) : c.backlog[i].n + Window <= s

Climbs(s) == \A i, j \in 1 .. Len(s) : i < j => s[i].n < s[j].n

Ordered(c) ==
    /\ Climbs(c.window) /\ Climbs(c.backlog)
    /\ \A i \in 1 .. Len(c.backlog), j \in 1 .. Len(c.window) : c.backlog[i].n < c.window[j].n

Behind(M, c) ==
    /\ \A m \in M, i \in 1 .. Len(c.backlog) : m < c.backlog[i].n
    /\ \A m \in M, i \in 1 .. Len(c.window) : m < c.window[i].n

Lasting(c, s, g) ==
    \A i \in 1 .. Len(c.window) : c.window[i].n \in g \/ c.window[i].n = s - Len(c.window) + i

Veils(s, S) == \A i \in 1 .. Len(s) : s[i].n \in S => s[i].hidden

Veiled(c, S) == Veils(c.window, S) /\ Veils(c.backlog, S)

\* The entries of a chat, by number.
Has(c, n) == \/ \E i \in 1 .. Len(c.window) : c.window[i].n = n
             \/ \E i \in 1 .. Len(c.backlog) : c.backlog[i].n = n

LEMMA SeqFacts ==
    ASSUME NEW s \in Seq(Entry)
    PROVE  /\ Len(s) \in Nat /\ DOMAIN s = 1 .. Len(s)
           /\ \A i \in 1 .. Len(s) : /\ s[i] \in Entry /\ s[i].n \in Number /\ s[i].n \in Nat
                                     /\ s[i].n > 0 /\ s[i].hidden \in BOOLEAN
<1>1. Len(s) \in Nat /\ DOMAIN s = 1 .. Len(s)
  BY LenProperties
<1>2. ASSUME NEW i \in 1 .. Len(s) PROVE s[i] \in Entry
  BY ElementOfSeq
<1>3. \A e \in Entry : e.n \in Number /\ e.n \in Nat /\ e.n > 0 /\ e.hidden \in BOOLEAN
  BY SessionAssumption DEF Entry, Number
<1> QED  BY <1>1, <1>2, <1>3

LEMMA HeldFacts ==
    ASSUME NEW c \in Chats
    PROVE  \A n : n \in Held(c) <=> Has(c, n)
<1>1. c.window \in Seq(Entry) /\ c.backlog \in Seq(Entry)
  BY DEF Chats
<1>2. DOMAIN c.window = 1 .. Len(c.window) /\ DOMAIN c.backlog = 1 .. Len(c.backlog)
  BY <1>1, SeqFacts
<1> QED  BY <1>2 DEF Held, Numbers, Has

\* The end of a sequence, element by element.
LEMMA Ending ==
    ASSUME NEW S, NEW s \in Seq(S), NEW k \in Nat, k <= Len(s)
    PROVE  /\ LastOf(s, k) \in Seq(S) /\ Len(LastOf(s, k)) = k
           /\ \A i \in 1 .. k : LastOf(s, k)[i] = s[Len(s) - k + i]
<1>1. Len(s) \in Nat /\ \A i \in 1 .. Len(s) : s[i] \in S
  BY LenProperties, ElementOfSeq
<1>2. LastOf(s, k) = SubSeq(s, Len(s) - k + 1, Len(s))
  <2>1. Smaller(k, Len(s)) = k
    BY <1>1 DEF Smaller
  <2> QED  BY <2>1 DEF LastOf
<1>3. \A i \in Len(s) - k + 1 .. Len(s) : s[i] \in S
  BY <1>1
<1>4. /\ SubSeq(s, Len(s) - k + 1, Len(s)) \in Seq(S)
      /\ Len(SubSeq(s, Len(s) - k + 1, Len(s)))
           = IF Len(s) - k + 1 <= Len(s) THEN Len(s) - (Len(s) - k + 1) + 1 ELSE 0
      /\ \A i \in 1 .. Len(s) - (Len(s) - k + 1) + 1 :
           SubSeq(s, Len(s) - k + 1, Len(s))[i] = s[(Len(s) - k + 1) + i - 1]
  <2> PICK a \in Int : a = Len(s) - k + 1
    BY <1>1, SMTT(30)
  <2> PICK b \in Int : b = Len(s)
    BY <1>1
  <2>1. \A i \in a .. b : s[i] \in S
    BY <1>3
  <2>2. /\ SubSeq(s, a, b) \in Seq(S)
        /\ Len(SubSeq(s, a, b)) = IF a <= b THEN b - a + 1 ELSE 0
        /\ \A i \in 1 .. b - a + 1 : SubSeq(s, a, b)[i] = s[a + i - 1]
    BY <2>1, SubSeqProperties
  <2> QED  BY <2>2
<1> QED  BY <1>1, <1>2, <1>4

\* A full window drops its first entry for the new one.
LEMMA Slides ==
    ASSUME NEW w \in Seq(Entry), Len(w) <= Window, NEW e \in Entry
    PROVE  \E v \in Seq(Entry), k \in {0, 1} :
              /\ v = LastOf(Append(w, e), Window)
              /\ (k = 1 <=> Len(w) = Window)
              /\ Len(v) = Len(w) + 1 - k /\ v[Len(v)] = e
              /\ \A i \in 1 .. Len(v) - 1 : v[i] = w[i + k]
<1>w. Window \in Nat /\ 2 <= Window
  BY SessionAssumption
<1>1. /\ Append(w, e) \in Seq(Entry) /\ Len(Append(w, e)) = Len(w) + 1
      /\ \A i \in 1 .. Len(w) : Append(w, e)[i] = w[i]
      /\ Append(w, e)[Len(w) + 1] = e
  BY AppendProperties
<1>0. Len(w) \in Nat
  BY LenProperties
<1>2. PICK a \in Seq(Entry) : a = Append(w, e)
  BY <1>1
<1>3. CASE Len(w) = Window
  <2>1. /\ LastOf(a, Window) \in Seq(Entry) /\ Len(LastOf(a, Window)) = Window
        /\ \A i \in 1 .. Window : LastOf(a, Window)[i] = a[Len(a) - Window + i]
    <3>1. Window <= Len(a)
      BY <1>w, <1>1, <1>2, <1>3
    <3> QED  BY <1>w, <1>2, <3>1, Ending
  <2>2. LastOf(a, Window)[Window] = e
    BY <1>w, <1>0, <1>1, <1>2, <1>3, <2>1
  <2>3. \A i \in 1 .. Window - 1 : LastOf(a, Window)[i] = w[i + 1]
    BY <1>w, <1>0, <1>1, <1>2, <1>3, <2>1
  <2> QED  BY <1>0, <1>2, <1>3, <2>1, <2>2, <2>3
<1>4. CASE Len(w) # Window
  <2>1. Len(a) <= Window /\ Len(a) \in Nat
    BY <1>w, <1>0, <1>1, <1>2, <1>4
  <2>2. LastOf(a, Window) = SubSeq(a, 1, Len(a))
    <3>1. Smaller(Window, Len(a)) = Len(a)
      BY <1>w, <2>1 DEF Smaller
    <3> QED  BY <2>1, <3>1 DEF LastOf
  <2>3. LastOf(a, Window) = a
    BY <2>2, SubSeqFull
  <2> QED  BY <1>0, <1>1, <1>2, <1>4, <2>3
<1> QED  BY <1>3, <1>4

\* What a chat is after one more entry: filing says whether what slides off the
\* window goes to the backlog.
Goes(c, e, d, k, filing) ==
    /\ d \in Chats /\ k \in {0, 1} /\ (k = 1 <=> Len(c.window) = Window)
    /\ Len(d.window) = Len(c.window) + 1 - k
    /\ d.window[Len(d.window)] = e
    /\ \A i \in 1 .. Len(d.window) - 1 : d.window[i] = c.window[i + k]
    /\ IF k = 1 /\ filing
       THEN /\ Len(d.backlog) = Len(c.backlog) + 1
            /\ \A i \in 1 .. Len(c.backlog) : d.backlog[i] = c.backlog[i]
            /\ d.backlog[Len(d.backlog)] = c.window[1]
       ELSE d.backlog = c.backlog

LEMMA PushGoes ==
    ASSUME NEW c \in Chats, Len(c.window) <= Window, NEW e \in Entry
    PROVE  \E k : Goes(c, e, Push(c, e), k, TRUE)
<1>w. Window \in Nat /\ 2 <= Window
  BY SessionAssumption
<1>0. c.window \in Seq(Entry) /\ c.backlog \in Seq(Entry)
  BY DEF Chats
<1>1. PICK v \in Seq(Entry), k \in {0, 1} :
              /\ v = LastOf(Append(c.window, e), Window)
              /\ (k = 1 <=> Len(c.window) = Window)
              /\ Len(v) = Len(c.window) + 1 - k /\ v[Len(v)] = e
              /\ \A i \in 1 .. Len(v) - 1 : v[i] = c.window[i + k]
  BY <1>0, Slides
<1>2. CASE Len(c.window) = Window
  <2>1. c.window[1] \in Entry
    BY <1>w, <1>0, <1>2, SeqFacts
  <2>2. /\ Append(c.backlog, c.window[1]) \in Seq(Entry)
        /\ Len(Append(c.backlog, c.window[1])) = Len(c.backlog) + 1
        /\ \A i \in 1 .. Len(c.backlog) : Append(c.backlog, c.window[1])[i] = c.backlog[i]
        /\ Append(c.backlog, c.window[1])[Len(c.backlog) + 1] = c.window[1]
    BY <1>0, <2>1, AppendProperties
  <2>3. Spilt(c) = [c EXCEPT !.backlog = Append(c.backlog, c.window[1])]
    BY <1>2 DEF Spilt
  <2>4. Spilt(c).window = c.window /\ Spilt(c).backlog = Append(c.backlog, c.window[1])
    BY <2>3 DEF Chats
  <2>5. Push(c, e) = [Spilt(c) EXCEPT !.window = v]
    BY <1>1, <2>4 DEF Push
  <2>6. /\ Push(c, e) \in Chats /\ Push(c, e).window = v
        /\ Push(c, e).backlog = Append(c.backlog, c.window[1])
    BY <1>1, <2>2, <2>3, <2>5 DEF Chats
  <2> QED  BY <1>1, <1>2, <2>2, <2>6 DEF Goes
<1>3. CASE Len(c.window) # Window
  <2>1. Spilt(c) = c
    BY <1>3 DEF Spilt
  <2>2. Push(c, e) = [c EXCEPT !.window = v]
    BY <1>1, <2>1 DEF Push
  <2>3. Push(c, e) \in Chats /\ Push(c, e).window = v /\ Push(c, e).backlog = c.backlog
    BY <1>0, <1>1, <2>2 DEF Chats
  <2> QED  BY <1>1, <1>3, <2>3 DEF Goes
<1> QED  BY <1>2, <1>3

LEMMA ShoveGoes ==
    ASSUME NEW c \in Chats, Len(c.window) <= Window, NEW e \in Entry
    PROVE  \E k : Goes(c, e, Shove(c, e), k, FALSE)
<1>0. c.window \in Seq(Entry) /\ c.backlog \in Seq(Entry)
  BY DEF Chats
<1>1. PICK v \in Seq(Entry), k \in {0, 1} :
              /\ v = LastOf(Append(c.window, e), Window)
              /\ (k = 1 <=> Len(c.window) = Window)
              /\ Len(v) = Len(c.window) + 1 - k /\ v[Len(v)] = e
              /\ \A i \in 1 .. Len(v) - 1 : v[i] = c.window[i + k]
  BY <1>0, Slides
<1>2. Shove(c, e) = [c EXCEPT !.window = v]
  BY <1>1 DEF Shove
<1>3. Shove(c, e) \in Chats /\ Shove(c, e).window = v /\ Shove(c, e).backlog = c.backlog
  BY <1>0, <1>1, <1>2 DEF Chats
<1> QED  BY <1>1, <1>3 DEF Goes

\* What one more entry preserves.
LEMMA GoesOn ==
    ASSUME NEW c \in Chats, NEW e \in Entry, NEW d, NEW k, NEW filing \in BOOLEAN,
           Goes(c, e, d, k, filing), NEW s \in Nat, Placed(c, s), e.n = s + 1
    PROVE  /\ d \in Chats /\ Placed(d, s + 1)
           /\ Ordered(c) => Ordered(d)
           /\ \A M \in SUBSET Int : Behind(M, c) /\ (\A m \in M : m <= s) => Behind(M, d)
           /\ \A g : Lasting(c, s, g) => Lasting(d, s + 1, g)
           /\ \A S : Veiled(c, S) /\ (e.n \in S => e.hidden) => Veiled(d, S)
           /\ Has(d, s + 1)
           /\ \A n : Has(c, n) => Has(d, n) \/ (k = 1 /\ ~filing /\ n = c.window[1].n)
<1>w. Window \in Nat /\ 2 <= Window
  BY SessionAssumption
<1>c. /\ c.window \in Seq(Entry) /\ c.backlog \in Seq(Entry)
      /\ d.window \in Seq(Entry) /\ d.backlog \in Seq(Entry) /\ d \in Chats
  BY DEF Chats, Goes
<1>1. /\ Len(c.window) \in Nat /\ Len(c.backlog) \in Nat
      /\ Len(d.window) \in Nat /\ Len(d.backlog) \in Nat
      /\ \A i \in 1 .. Len(c.window) : c.window[i].n \in Nat
      /\ \A i \in 1 .. Len(c.backlog) : c.backlog[i].n \in Nat
  BY <1>c, SeqFacts
<1>2. /\ k \in {0, 1} /\ (k = 1 <=> Len(c.window) = Window)
      /\ Len(c.window) <= Window
      /\ Len(d.window) = Len(c.window) + 1 - k /\ Len(d.window) >= 1
      /\ d.window[Len(d.window)] = e
      /\ \A i \in 1 .. Len(d.window) - 1 : d.window[i] = c.window[i + k]
  BY <1>w, <1>1 DEF Goes, Placed
<1>k. k \in Nat /\ k <= 1
  BY <1>2
<1>n. /\ 1 \in 1 .. Len(d.window) /\ Len(d.window) \in 1 .. Len(d.window)
      /\ Len(d.window) = Len(c.window) + 1 - k
  BY <1>1, <1>2
<1>e. d.window[Len(d.window)] = e /\ e.n = s + 1
  BY <1>2
<1>m. ASSUME NEW i \in 1 .. Len(d.window), i # Len(d.window)
      PROVE  i + k \in 1 .. Len(c.window) /\ i + k \in Nat /\ d.window[i] = c.window[i + k]
  <2>1. i \in 1 .. Len(d.window) - 1 /\ i \in Nat
    BY <1>1, <1>m
  <2>2. i + k \in 1 .. Len(c.window) /\ i + k \in Nat
    BY <1>1, <1>k, <1>n, <2>1
  <2> QED  BY <1>2, <2>1, <2>2
<1>3. \/ d.backlog = c.backlog
      \/ /\ k = 1 /\ filing /\ Len(d.backlog) = Len(c.backlog) + 1
         /\ \A i \in 1 .. Len(c.backlog) : d.backlog[i] = c.backlog[i]
         /\ d.backlog[Len(d.backlog)] = c.window[1]
  BY DEF Goes
<1>4. /\ \A i \in 1 .. Len(c.window) : c.window[i].n + Len(c.window) - i <= s
      /\ \A i \in 1 .. Len(c.backlog) : c.backlog[i].n + Window <= s
  BY DEF Placed
<1>5. \A i \in 1 .. Len(c.window) : c.window[i].n <= s
  BY <1>1, <1>4
<1>6. \A i \in 1 .. Len(c.backlog) : c.backlog[i].n <= s
  BY <1>w, <1>1, <1>4
<1>7. Placed(d, s + 1)
  <2>1. Len(d.window) <= Window
    BY <1>w, <1>1, <1>2
  <2>2. ASSUME NEW i \in 1 .. Len(d.window) PROVE d.window[i].n + Len(d.window) - i <= s + 1
    <3>1. CASE i = Len(d.window)
      BY <1>1, <1>e, <3>1
    <3>2. CASE i # Len(d.window)
      <4>1. /\ i + k \in 1 .. Len(c.window) /\ d.window[i] = c.window[i + k]
        BY <1>m, <3>2
      <4>2. c.window[i + k].n + Len(c.window) - (i + k) <= s /\ c.window[i + k].n \in Nat
        BY <1>1, <1>4, <4>1
      <4> QED  BY <1>1, <1>k, <1>n, <4>1, <4>2, SMTT(30)
    <3> QED  BY <3>1, <3>2
  <2>3. ASSUME NEW i \in 1 .. Len(d.backlog) PROVE d.backlog[i].n + Window <= s + 1
    <3>1. CASE d.backlog = c.backlog
      BY <1>w, <1>1, <1>4, <3>1
    <3>2. CASE i <= Len(c.backlog) /\ d.backlog # c.backlog
      <4>1. d.backlog[i] = c.backlog[i] /\ i \in 1 .. Len(c.backlog)
        BY <1>1, <1>3, <3>2
      <4>2. c.backlog[i].n + Window <= s /\ c.backlog[i].n \in Nat
        BY <1>1, <1>4, <4>1
      <4> QED  BY <1>w, <4>1, <4>2
    <3>3. CASE i > Len(c.backlog) /\ d.backlog # c.backlog
      <4>1. i = Len(d.backlog) /\ k = 1 /\ d.backlog[i] = c.window[1]
        BY <1>1, <1>3, <3>3
      <4>2. c.window[1].n + Window - 1 <= s /\ c.window[1].n \in Nat
        BY <1>w, <1>1, <1>2, <1>4, <4>1
      <4> QED  BY <1>w, <4>1, <4>2
    <3> QED  BY <1>1, <3>1, <3>2, <3>3
  <2> QED  BY <2>1, <2>2, <2>3 DEF Placed
<1>8. ASSUME Ordered(c) PROVE Ordered(d)
  <2>0. /\ \A i, j \in 1 .. Len(c.window) : i < j => c.window[i].n < c.window[j].n
        /\ \A i, j \in 1 .. Len(c.backlog) : i < j => c.backlog[i].n < c.backlog[j].n
        /\ \A i \in 1 .. Len(c.backlog), j \in 1 .. Len(c.window) : c.backlog[i].n < c.window[j].n
    BY <1>8 DEF Ordered, Climbs
  <2>1. ASSUME NEW i \in 1 .. Len(d.window), NEW j \in 1 .. Len(d.window), i < j
        PROVE  d.window[i].n < d.window[j].n
    <3>1. i + k \in 1 .. Len(c.window) /\ d.window[i] = c.window[i + k]
      BY <1>1, <1>m, <2>1
    <3>2. CASE j = Len(d.window)
      BY <1>1, <1>5, <1>e, <3>1, <3>2
    <3>3. CASE j # Len(d.window)
      <4>1. j + k \in 1 .. Len(c.window) /\ d.window[j] = c.window[j + k] /\ i + k < j + k
        BY <1>1, <1>2, <1>k, <1>m, <2>1, <3>3
      <4> QED  BY <2>0, <3>1, <4>1
    <3> QED  BY <3>2, <3>3
  <2>2. ASSUME NEW i \in 1 .. Len(d.backlog), NEW j \in 1 .. Len(d.backlog), i < j
        PROVE  d.backlog[i].n < d.backlog[j].n
    <3>1. CASE d.backlog = c.backlog
      BY <2>0, <2>2, <3>1
    <3>2. CASE d.backlog # c.backlog
      <4>1. /\ i \in 1 .. Len(c.backlog) /\ d.backlog[i] = c.backlog[i]
            /\ j \in 1 .. Len(c.backlog) \/ j = Len(d.backlog)
            /\ k = 1 /\ 1 \in 1 .. Len(c.window)
        BY <1>w, <1>1, <1>2, <1>3, <2>2, <3>2
      <4>2. CASE j \in 1 .. Len(c.backlog)
        BY <1>3, <2>0, <2>2, <3>2, <4>1, <4>2
      <4>3. CASE j = Len(d.backlog)
        BY <1>3, <2>0, <3>2, <4>1, <4>3
      <4> QED  BY <4>1, <4>2, <4>3
    <3> QED  BY <3>1, <3>2
  <2>3. ASSUME NEW i \in 1 .. Len(d.backlog), NEW j \in 1 .. Len(d.window)
        PROVE  d.backlog[i].n < d.window[j].n
    <3>1. \/ j = Len(d.window) /\ d.window[j] = e
          \/ j + k \in 1 .. Len(c.window) /\ d.window[j] = c.window[j + k]
      BY <1>2, <1>m
    <3>2. CASE i \in 1 .. Len(c.backlog) /\ d.backlog[i] = c.backlog[i]
      BY <1>1, <1>6, <2>0, <3>1, <3>2, SMTT(30)
    <3>3. CASE k = 1 /\ d.backlog[i] = c.window[1]
      <4>1. 1 \in 1 .. Len(c.window) /\ c.window[1].n <= s /\ c.window[1].n \in Nat
        BY <1>w, <1>1, <1>2, <1>5, <3>3
      <4>2. j + k \in 1 .. Len(c.window) => 1 < j + k
        BY <3>3
      <4> QED  BY <2>0, <3>1, <3>3, <4>1, <4>2, SMTT(30)
    <3> QED  BY <1>1, <1>3, <3>2, <3>3
  <2> QED  BY <2>1, <2>2, <2>3 DEF Ordered, Climbs
<1>9. ASSUME NEW M \in SUBSET Int, Behind(M, c), \A m \in M : m <= s PROVE Behind(M, d)
  <2>1. ASSUME NEW m \in M, NEW i \in 1 .. Len(d.backlog) PROVE m < d.backlog[i].n
    <3>1. \/ i \in 1 .. Len(c.backlog) /\ d.backlog[i] = c.backlog[i]
          \/ 1 \in 1 .. Len(c.window) /\ d.backlog[i] = c.window[1]
      BY <1>w, <1>1, <1>2, <1>3
    <3> QED  BY <1>9, <3>1 DEF Behind
  <2>2. ASSUME NEW m \in M, NEW i \in 1 .. Len(d.window) PROVE m < d.window[i].n
    <3>1. \/ d.window[i] = e
          \/ i + k \in 1 .. Len(c.window) /\ d.window[i] = c.window[i + k]
      BY <1>2, <1>m
    <3>2. m <= s /\ m \in Int
      BY <1>9
    <3> QED  BY <1>9, <3>1, <3>2 DEF Behind
  <2> QED  BY <2>1, <2>2 DEF Behind
<1>10. ASSUME NEW g, Lasting(c, s, g) PROVE Lasting(d, s + 1, g)
  <2>1. ASSUME NEW i \in 1 .. Len(d.window)
        PROVE  d.window[i].n \in g \/ d.window[i].n = (s + 1) - Len(d.window) + i
    <3>1. CASE i = Len(d.window)
      BY <1>e, <1>1, <3>1
    <3>2. CASE i # Len(d.window)
      <4>1. i + k \in 1 .. Len(c.window) /\ d.window[i] = c.window[i + k]
        BY <1>m, <3>2
      <4>2. c.window[i + k].n \in g \/ c.window[i + k].n = s - Len(c.window) + (i + k)
        BY <1>10, <4>1 DEF Lasting
      <4>3. (s + 1) - Len(d.window) + i = s - Len(c.window) + (i + k)
        <5>1. i \in Int /\ k \in Int /\ Len(c.window) \in Int
          BY <1>1, <1>k
        <5>2. PICK x \in Int : x = Len(c.window)
          BY <5>1
        <5>3. Len(d.window) = x + 1 - k
          BY <1>n, <5>2
        <5>4. (s + 1) - (x + 1 - k) + i = s - x + (i + k)
          BY <5>1, <5>2
        <5> QED  BY <5>2, <5>3, <5>4
      <4> QED  BY <4>1, <4>2, <4>3
    <3> QED  BY <3>1, <3>2
  <2> QED  BY <2>1 DEF Lasting
<1>11. ASSUME NEW S, Veiled(c, S), e.n \in S => e.hidden PROVE Veiled(d, S)
  <2>1. ASSUME NEW i \in 1 .. Len(d.backlog), d.backlog[i].n \in S PROVE d.backlog[i].hidden
    <3>1. \/ i \in 1 .. Len(c.backlog) /\ d.backlog[i] = c.backlog[i]
          \/ 1 \in 1 .. Len(c.window) /\ d.backlog[i] = c.window[1]
      BY <1>w, <1>1, <1>2, <1>3
    <3> QED  BY <1>11, <2>1, <3>1 DEF Veiled, Veils
  <2>2. ASSUME NEW i \in 1 .. Len(d.window), d.window[i].n \in S PROVE d.window[i].hidden
    <3>1. \/ d.window[i] = e
          \/ i + k \in 1 .. Len(c.window) /\ d.window[i] = c.window[i + k]
      BY <1>2, <1>m
    <3> QED  BY <1>11, <2>2, <3>1 DEF Veiled, Veils
  <2> QED  BY <2>1, <2>2 DEF Veiled, Veils
<1>12. Has(d, s + 1)
  BY <1>1, <1>2 DEF Has
<1>13. ASSUME NEW n, Has(c, n) PROVE Has(d, n) \/ (k = 1 /\ ~filing /\ n = c.window[1].n)
  <2>1. ASSUME NEW i \in 1 .. Len(c.backlog), c.backlog[i].n = n PROVE Has(d, n)
    <3>1. i \in 1 .. Len(d.backlog) /\ d.backlog[i] = c.backlog[i]
      BY <1>1, <1>3
    <3> QED  BY <2>1, <3>1 DEF Has
  <2>2. ASSUME NEW i \in 1 .. Len(c.window), c.window[i].n = n
        PROVE  Has(d, n) \/ (k = 1 /\ ~filing /\ n = c.window[1].n)
    <3>1. CASE i - k \in 1 .. Len(d.window)
      <4>1. i - k \in 1 .. Len(d.window) - 1 /\ (i - k) + k = i
        BY <1>1, <1>2, <3>1
      <4>2. d.window[i - k] = c.window[i]
        BY <1>2, <4>1
      <4> QED  BY <2>2, <3>1, <4>2 DEF Has
    <3>2. CASE i - k \notin 1 .. Len(d.window)
      <4>1. k = 1 /\ i = 1
        BY <1>1, <1>k, <1>n, <3>2
      <4>2. filing => Has(d, n)
        <5>1. ASSUME filing PROVE Has(d, n)
          <6>1. Len(d.backlog) = Len(c.backlog) + 1 /\ d.backlog[Len(d.backlog)] = c.window[1]
            BY <4>1, <5>1 DEF Goes
          <6>2. Len(d.backlog) \in 1 .. Len(d.backlog)
            BY <1>1, <6>1
          <6> QED  BY <2>2, <4>1, <6>1, <6>2 DEF Has
        <5> QED  BY <5>1
      <4> QED  BY <2>2, <4>1, <4>2
    <3> QED  BY <3>1, <3>2
  <2> QED  BY <1>13, <2>1, <2>2 DEF Has
<1> QED  BY <1>c, <1>7, <1>8, <1>9, <1>10, <1>11, <1>12, <1>13
-----------------------------------------------------------------------------
(***************************************************************************)
(* Session: what every step keeps.  The chunk lies between the summary and *)
(* the backlog, and all of it a whole window back; an entry of the window  *)
(* stands at its place from the end, or was given up once: so what the log *)
(* fills the window with again is what is missing in it; and a request     *)
(* that found as many entries as it is about hides every copy of them.     *)
(***************************************************************************)
InLine ==
    /\ Climbs(chunk) /\ Behind(Numbers(chunk), chat)
    /\ Ordered(chat) /\ Behind(summed, chat)
    /\ \A m \in summed, i \in 1 .. Len(chunk) : m < chunk[i].n
    /\ cold \/ Ordered(redis)
    /\ cold \/ Behind(summed, redis)

Chunked ==
    /\ \A i \in 1 .. Len(chunk) : chunk[i].n + Window <= Said
    /\ \A m \in summed : m + Window <= Said
    /\ revived \/ InLine

Kept ==
    /\ alive /\ ~cold => redis = Nothing
    /\ ~alive => chat = Nothing /\ chunk = <<>>
    /\ cold => \A n \in Number : Has(redis, n) => n \in gone
    /\ Lasting(chat, Said, gone)
    /\ cold \/ Lasting(redis, Said, gone)
    /\ \A n \in 1 .. Said : \/ Has(chat, n) \/ Has(redis, n) \/ n \in Numbers(chunk)
                            \/ n \in summed \/ n \in gone

Secretive ==
    /\ secret \subseteq 1 .. Said
    /\ partial \/ (Veiled(chat, secret) /\ Veiled(redis, secret))
    /\ partial \/ Veils(chunk, secret)
    /\ partial \/ \A n \in secret : log[n]

MemoryIInv ==
    /\ SessionTypeOK
    /\ Placed(chat, Said) /\ Placed(redis, Said)
    /\ Chunked /\ Kept /\ Secretive

LEMMA NumbersFacts ==
    ASSUME NEW s \in Seq(Entry)
    PROVE  /\ \A n : n \in Numbers(s) <=> \E i \in 1 .. Len(s) : s[i].n = n
           /\ Numbers(s) \subseteq Number
<1>1. /\ DOMAIN s = 1 .. Len(s)
      /\ \A i \in 1 .. Len(s) : s[i].n \in Number
  BY SeqFacts
<1> QED  BY <1>1 DEF Numbers

LEMMA NothingFacts ==
    /\ Nothing \in Chats /\ Len(Nothing.window) = 0 /\ Len(Nothing.backlog) = 0
    /\ \A n : ~Has(Nothing, n)
    /\ Nothing.window = <<>> /\ Nothing.backlog = <<>>
<1>1. <<>> \in Seq(Entry) /\ Len(<<>>) = 0
  BY EmptySeq
<1>2. Nothing.window = <<>> /\ Nothing.backlog = <<>>
  BY DEF Nothing
<1>3. Nothing \in Chats
  BY <1>1 DEF Chats, Nothing
<1> QED  BY <1>1, <1>2, <1>3 DEF Has

LEMMA HeldInNumber ==
    ASSUME NEW c \in Chats
    PROVE  Held(c) \subseteq Number
<1>1. c.window \in Seq(Entry) /\ c.backlog \in Seq(Entry)
  BY DEF Chats
<1> QED  BY <1>1, NumbersFacts DEF Held

LEMMA InitMemory == SessionInit => MemoryIInv
<1> SUFFICES ASSUME SessionInit PROVE MemoryIInv
  OBVIOUS
<1> USE SessionAssumption
<1>1. <<>> \in Seq(Entry) /\ <<>> \in Seq(BOOLEAN) /\ Len(<<>>) = 0 /\ chat = Nothing
      /\ redis = Nothing /\ log = <<>> /\ chunk = <<>> /\ Said = 0
  BY EmptySeq DEF SessionInit, Said
<1>2. SessionTypeOK
  <2>1. /\ Nothing \in [window : Seq(Entry), backlog : Seq(Entry)]
        /\ Len(Nothing.window) <= Window
    BY NothingFacts DEF Chats
  <2>2. /\ chat \in [window : Seq(Entry), backlog : Seq(Entry)]
        /\ redis \in [window : Seq(Entry), backlog : Seq(Entry)]
        /\ Len(chat.window) <= Window
    BY <1>1, <2>1
  <2>3. log \in Seq(BOOLEAN) /\ Len(log) <= MaxEntries /\ chunk \in Seq(Entry)
    BY <1>1
  <2> QED  BY <2>2, <2>3 DEF SessionInit, SessionTypeOK
<1>3. Placed(chat, Said) /\ Placed(redis, Said)
  BY <1>1, NothingFacts DEF Placed
<1>4. Chunked
  BY <1>1, NothingFacts DEF Chunked, InLine, SessionInit, Climbs, Ordered, Behind
<1>5. Kept
  BY <1>1, NothingFacts DEF Kept, SessionInit, Lasting
<1>6. Secretive
  BY <1>1, NothingFacts DEF Secretive, SessionInit, Veiled, Veils
<1> QED  BY <1>2, <1>3, <1>4, <1>5, <1>6 DEF MemoryIInv

\* What the invariant says of the types.
LEMMA MemoryTypes ==
    ASSUME SessionTypeOK
    PROVE  /\ chat \in Chats /\ redis \in Chats /\ chunk \in Seq(Entry)
           /\ chat.window \in Seq(Entry) /\ chat.backlog \in Seq(Entry)
           /\ redis.window \in Seq(Entry) /\ redis.backlog \in Seq(Entry)
           /\ log \in Seq(BOOLEAN) /\ Said \in Nat /\ Said <= MaxEntries /\ Said = Len(log)
           /\ \A n \in 1 .. Said : n \in Number /\ log[n] \in BOOLEAN
           /\ \A m \in summed : m \in Nat
           /\ Window \in Nat /\ 2 <= Window /\ MaxEntries \in Nat
<1>1. /\ chat \in Chats /\ redis \in Chats /\ chunk \in Seq(Entry)
      /\ chat.window \in Seq(Entry) /\ chat.backlog \in Seq(Entry)
      /\ redis.window \in Seq(Entry) /\ redis.backlog \in Seq(Entry)
      /\ log \in Seq(BOOLEAN)
  BY DEF SessionTypeOK, Chats
<1>2. Said \in Nat /\ Said <= MaxEntries /\ Said = Len(log)
  BY <1>1, LenProperties DEF SessionTypeOK, Said
<1>3. ASSUME NEW n \in 1 .. Said PROVE n \in Number /\ log[n] \in BOOLEAN
  <2>1. log[n] \in BOOLEAN
    BY <1>1, <1>2, ElementOfSeq
  <2> QED  BY <1>2, <2>1, SessionAssumption DEF Number
<1>4. \A m \in summed : m \in Nat
  BY SessionAssumption DEF SessionTypeOK, Number
<1> QED  BY <1>1, <1>2, <1>3, <1>4, SessionAssumption

\* Redis fails, is emptied; the process dies.
LEMMA GivesUpKeeps == MemoryIInv /\ GivesUp => MemoryIInv'
<1> SUFFICES ASSUME MemoryIInv, GivesUp PROVE MemoryIInv'
  OBVIOUS
<1>0. SessionTypeOK /\ Placed(chat, Said) /\ Placed(redis, Said) /\ Chunked /\ Kept /\ Secretive
  BY DEF MemoryIInv
<1>1. /\ alive /\ ~cold /\ cold' = TRUE /\ redis' = chat /\ chat' = Nothing
      /\ gone' = gone \cup Held(chat) /\ log' = log /\ chunk' = chunk /\ talk' = talk
      /\ rolls' = rolls /\ alive' = alive /\ summed' = summed /\ secret' = secret
      /\ partial' = partial /\ revived' = revived
  BY DEF GivesUp
<1>2. Said' = Said
  BY <1>1 DEF Said
<1>3. \A n : n \in Held(chat) <=> Has(chat, n)
  BY <1>0, MemoryTypes, HeldFacts
<1>4. SessionTypeOK'
  BY <1>0, <1>1, <1>3, MemoryTypes, NothingFacts, SessionAssumption, HeldInNumber
     DEF SessionTypeOK, Chats
<1>5. Placed(chat, Said)' /\ Placed(redis, Said)'
  <2>1. Placed(chat, Said)'
    BY <1>1, NothingFacts, SessionAssumption DEF Placed
  <2>2. Placed(redis, Said)'
    BY <1>0, <1>1, <1>2 DEF Placed
  <2> QED  BY <2>1, <2>2
<1>6. Chunked'
  BY <1>0, <1>1, <1>2, NothingFacts DEF Chunked, InLine, Climbs, Ordered, Behind, Numbers
<1>7. Kept'
  BY <1>0, <1>1, <1>2, <1>3, NothingFacts DEF Kept, Lasting, Has, Numbers
<1>8. Secretive'
  BY <1>0, <1>1, <1>2, NothingFacts DEF Secretive, Veiled, Veils
<1> QED  BY <1>4, <1>5, <1>6, <1>7, <1>8 DEF MemoryIInv
LEMMA EmptiedKeeps == MemoryIInv /\ Emptied => MemoryIInv'
<1> SUFFICES ASSUME MemoryIInv, Emptied PROVE MemoryIInv'
  OBVIOUS
<1>0. SessionTypeOK /\ Placed(chat, Said) /\ Placed(redis, Said) /\ Chunked /\ Kept /\ Secretive
  BY DEF MemoryIInv
<1>1. /\ alive /\ ~cold /\ chat' = Nothing /\ gone' = gone \cup Held(chat)
      /\ redis' = redis /\ cold' = cold /\ log' = log /\ chunk' = chunk /\ talk' = talk
      /\ rolls' = rolls /\ alive' = alive /\ summed' = summed /\ secret' = secret
      /\ partial' = partial /\ revived' = revived
  BY DEF Emptied
<1>2. Said' = Said
  BY <1>1 DEF Said
<1>3. \A n : n \in Held(chat) <=> Has(chat, n)
  BY <1>0, MemoryTypes, HeldFacts
<1>4. SessionTypeOK'
  BY <1>0, <1>1, <1>3, MemoryTypes, NothingFacts, SessionAssumption, HeldInNumber
     DEF SessionTypeOK, Chats
<1>5. Placed(chat, Said)' /\ Placed(redis, Said)'
  <2>1. Placed(chat, Said)'
    BY <1>1, NothingFacts, SessionAssumption DEF Placed
  <2>2. Placed(redis, Said)'
    BY <1>0, <1>1, <1>2 DEF Placed
  <2> QED  BY <2>1, <2>2
<1>6. Chunked'
  BY <1>0, <1>1, <1>2, NothingFacts DEF Chunked, InLine, Climbs, Ordered, Behind, Numbers
<1>7. Kept'
  BY <1>0, <1>1, <1>2, <1>3, NothingFacts DEF Kept, Lasting, Has, Numbers
<1>8. Secretive'
  BY <1>0, <1>1, <1>2, NothingFacts DEF Secretive, Veiled, Veils
<1> QED  BY <1>4, <1>5, <1>6, <1>7, <1>8 DEF MemoryIInv

LEMMA DiesKeeps == MemoryIInv /\ Dies => MemoryIInv'
<1> SUFFICES ASSUME MemoryIInv, Dies PROVE MemoryIInv'
  OBVIOUS
<1>0. SessionTypeOK /\ Placed(chat, Said) /\ Placed(redis, Said) /\ Chunked /\ Kept /\ Secretive
  BY DEF MemoryIInv
<1>1. /\ alive /\ alive' = FALSE /\ redis' = (IF cold THEN redis ELSE chat)
      /\ chat' = Nothing /\ chunk' = <<>>
      /\ gone' = gone \cup Numbers(chunk) \cup IF cold THEN Held(chat) ELSE {}
      /\ rolls' = FALSE /\ talk' = "none" /\ cold' = cold /\ log' = log
      /\ summed' = summed /\ secret' = secret /\ partial' = partial /\ revived' = revived
  BY DEF Dies
<1>2. Said' = Said
  BY <1>1 DEF Said
<1>3. /\ \A n : n \in Held(chat) <=> Has(chat, n)
      /\ Numbers(chunk) \subseteq Number /\ Held(chat) \subseteq Number
  BY <1>0, MemoryTypes, HeldFacts, HeldInNumber, NumbersFacts
<1>e. <<>> \in Seq(Entry) /\ Len(<<>>) = 0
  BY EmptySeq
<1>4. SessionTypeOK'
  <2>1. gone' \in SUBSET Number
    BY <1>0, <1>1, <1>3 DEF SessionTypeOK
  <2>2. /\ chat' \in [window : Seq(Entry), backlog : Seq(Entry)]
        /\ redis' \in [window : Seq(Entry), backlog : Seq(Entry)]
        /\ Len(chat'.window) <= Window
    BY <1>0, <1>1, NothingFacts, SessionAssumption DEF SessionTypeOK, Chats
  <2> QED  BY <1>0, <1>1, <1>e, <2>1, <2>2 DEF SessionTypeOK
<1>5. Placed(chat, Said)' /\ Placed(redis, Said)'
  <2>1. Placed(chat, Said)'
    BY <1>1, NothingFacts, SessionAssumption DEF Placed
  <2>2. Placed(redis, Said)'
    BY <1>0, <1>1, <1>2 DEF Placed
  <2> QED  BY <2>1, <2>2
<1>6. Chunked'
  <2>1. Numbers(chunk') = {}
    BY <1>1, <1>e, NumbersFacts DEF Numbers
  <2>2. ASSUME ~revived PROVE InLine'
    <3>1. InLine
      BY <1>0, <2>2 DEF Chunked
    <3> QED  BY <1>1, <1>e, <2>1, <3>1, NothingFacts DEF InLine, Climbs, Ordered, Behind
  <2> QED  BY <1>0, <1>1, <1>2, <1>e, <2>2 DEF Chunked
<1>7. Kept'
  <2>1. /\ Kept /\ redis' = (IF cold THEN redis ELSE chat)
        /\ Has(redis, 0) \/ ~Has(redis, 0)
    BY <1>0, <1>1
  <2>2. \A n \in Number : Has(redis, n) /\ ~cold => FALSE
    BY <1>0, <1>1, NothingFacts DEF Kept
  <2>3. (cold => \A n \in Number : Has(redis, n) => n \in gone)'
    BY <1>0, <1>1 DEF Kept, Has
  <2>4. Lasting(chat, Said, gone)'
    BY <1>1, NothingFacts DEF Lasting
  <2>5. (cold \/ Lasting(redis, Said, gone))'
    BY <1>0, <1>1, <1>2 DEF Kept, Lasting
  <2>6. ASSUME NEW n \in 1 .. Said
        PROVE  (Has(redis, n))' \/ n \in summed \/ n \in gone'
    <3>1. n \in Number
      BY <1>0, MemoryTypes
    <3>2. \/ Has(chat, n) \/ Has(redis, n) \/ n \in Numbers(chunk)
          \/ n \in summed \/ n \in gone
      BY <1>0 DEF Kept
    <3>3. CASE Has(chat, n) /\ cold
      BY <1>1, <1>3, <3>3
    <3>4. CASE Has(chat, n) /\ ~cold
      BY <1>1, <3>4 DEF Has
    <3>5. CASE Has(redis, n)
      BY <1>1, <2>2, <3>1, <3>5 DEF Has
    <3> QED  BY <1>1, <3>2, <3>3, <3>4, <3>5
  <2> QED  BY <1>1, <1>2, <2>3, <2>4, <2>5, <2>6 DEF Kept
<1>8. Secretive'
  BY <1>0, <1>1, <1>2, <1>e, NothingFacts DEF Secretive, Veiled, Veils
<1> QED  BY <1>4, <1>5, <1>6, <1>7, <1>8 DEF MemoryIInv

LEMMA RollEndsKeeps ==
    ASSUME MemoryIInv, NEW empty \in BOOLEAN, RollEnds(empty)
    PROVE  MemoryIInv'
<1>0. SessionTypeOK /\ Placed(chat, Said) /\ Placed(redis, Said) /\ Chunked /\ Kept /\ Secretive
  BY DEF MemoryIInv
<1>1. /\ chunk # <<>> /\ chunk' = <<>>
      /\ summed' = (IF empty THEN summed ELSE summed \cup Numbers(chunk))
      /\ gone' = (IF empty THEN gone \cup Numbers(chunk) ELSE gone)
      /\ chat' = chat /\ redis' = redis /\ cold' = cold /\ log' = log /\ rolls' = rolls
      /\ talk' = talk /\ alive' = alive /\ secret' = secret /\ partial' = partial
      /\ revived' = revived
  BY DEF RollEnds
<1>2. Said' = Said
  BY <1>1 DEF Said
<1>3. /\ \A n : n \in Numbers(chunk) <=> \E i \in 1 .. Len(chunk) : chunk[i].n = n
      /\ Numbers(chunk) \subseteq Number
  BY <1>0, MemoryTypes, NumbersFacts
<1>e. <<>> \in Seq(Entry) /\ Len(<<>>) = 0
  BY EmptySeq
<1>a. alive
  BY <1>0, <1>1 DEF Kept
<1>4. SessionTypeOK'
  <2>1. gone' \in SUBSET Number /\ summed' \in SUBSET Number
    BY <1>0, <1>1, <1>3 DEF SessionTypeOK
  <2> QED  BY <1>0, <1>1, <1>e, <2>1 DEF SessionTypeOK
<1>5. Placed(chat, Said)' /\ Placed(redis, Said)'
  BY <1>0, <1>1, <1>2 DEF Placed
<1>6. Chunked'
  <2>1. Numbers(chunk') = {}
    BY <1>1, <1>e, NumbersFacts DEF Numbers
  <2>2. ASSUME ~revived PROVE InLine'
    <3>1. InLine
      BY <1>0, <2>2 DEF Chunked
    <3>2. Climbs(chunk)' /\ Behind(Numbers(chunk), chat)'
      BY <1>1, <1>e, <2>1 DEF Climbs, Behind
    <3>3. Ordered(chat)' /\ Behind(summed, chat)'
      BY <1>1, <3>1 DEF InLine, Behind, Ordered, Climbs
    <3>4. (cold \/ Ordered(redis))'
      BY <1>1, <3>1 DEF InLine, Ordered, Climbs
    <3>5. (cold \/ Behind(summed, redis))'
      BY <1>0, <1>1, <1>a, NothingFacts DEF Kept, Behind
    <3> QED  BY <1>1, <1>e, <3>2, <3>3, <3>4, <3>5 DEF InLine
  <2>3. \A m \in summed' : m + Window <= Said
    BY <1>0, <1>1, <1>3 DEF Chunked
  <2> QED  BY <1>1, <1>2, <1>e, <2>2, <2>3 DEF Chunked
<1>7. Kept'
  <2>1. (cold => \A n \in Number : Has(redis, n) => n \in gone)'
    BY <1>0, <1>1 DEF Kept, Has
  <2>2. Lasting(chat, Said, gone)' /\ (cold \/ Lasting(redis, Said, gone))'
    BY <1>0, <1>1, <1>2 DEF Kept, Lasting
  <2>3. \A n \in 1 .. Said : \/ Has(chat, n) \/ Has(redis, n)
                             \/ n \in summed' \/ n \in gone'
    BY <1>0, <1>1 DEF Kept
  <2> QED  BY <1>0, <1>1, <1>2, <1>a, <2>1, <2>2, <2>3 DEF Kept, Has
<1>8. Secretive'
  BY <1>0, <1>1, <1>2, <1>e DEF Secretive, Veiled, Veils
<1> QED  BY <1>4, <1>5, <1>6, <1>7, <1>8 DEF MemoryIInv
-----------------------------------------------------------------------------
(***************************************************************************)
(* Session: a beginning and an end of a sequence.                          *)
(***************************************************************************)
LEMMA Beginning ==
    ASSUME NEW S, NEW s \in Seq(S), NEW k \in Nat, k <= Len(s)
    PROVE  /\ SubSeq(s, 1, k) \in Seq(S) /\ Len(SubSeq(s, 1, k)) = k
           /\ \A i \in 1 .. k : SubSeq(s, 1, k)[i] = s[i]
<1>1. Len(s) \in Nat /\ \A i \in 1 .. Len(s) : s[i] \in S
  BY LenProperties, ElementOfSeq
<1>2. \A i \in 1 .. k : s[i] \in S
  BY <1>1
<1>3. /\ SubSeq(s, 1, k) \in Seq(S)
      /\ Len(SubSeq(s, 1, k)) = IF 1 <= k THEN k - 1 + 1 ELSE 0
      /\ \A i \in 1 .. k - 1 + 1 : SubSeq(s, 1, k)[i] = s[1 + i - 1]
  BY <1>2, SubSeqProperties
<1> QED  BY <1>3

LEMMA Remainder ==
    ASSUME NEW S, NEW s \in Seq(S), NEW k \in Nat, k <= Len(s)
    PROVE  /\ SubSeq(s, k + 1, Len(s)) \in Seq(S) /\ Len(SubSeq(s, k + 1, Len(s))) = Len(s) - k
           /\ \A i \in 1 .. Len(s) - k : SubSeq(s, k + 1, Len(s))[i] = s[k + i]
<1>1. Len(s) \in Nat /\ \A i \in 1 .. Len(s) : s[i] \in S
  BY LenProperties, ElementOfSeq
<1> PICK a \in Int : a = k + 1
  OBVIOUS
<1> PICK b \in Int : b = Len(s)
  BY <1>1
<1>2. \A i \in a .. b : s[i] \in S
  BY <1>1
<1>3. /\ SubSeq(s, a, b) \in Seq(S)
      /\ Len(SubSeq(s, a, b)) = IF a <= b THEN b - a + 1 ELSE 0
      /\ \A i \in 1 .. b - a + 1 : SubSeq(s, a, b)[i] = s[a + i - 1]
  BY <1>2, SubSeqProperties
<1>4. \A i \in 1 .. b - k : SubSeq(s, a, b)[i] = s[k + i]
  BY <1>3
<1> QED  BY <1>1, <1>3, <1>4

\* The summary rolls: the head of the backlog is the chunk.
LEMMA RollStartsKeeps == MemoryIInv /\ RollStarts => MemoryIInv'
<1> SUFFICES ASSUME MemoryIInv, RollStarts PROVE MemoryIInv'
  OBVIOUS
<1>0. SessionTypeOK /\ Placed(chat, Said) /\ Placed(redis, Said) /\ Chunked /\ Kept /\ Secretive
  BY DEF MemoryIInv
<1>1. /\ alive /\ rolls' = FALSE
      /\ redis' = redis /\ cold' = cold /\ log' = log /\ summed' = summed /\ gone' = gone
      /\ talk' = talk /\ alive' = alive /\ secret' = secret /\ partial' = partial
      /\ revived' = revived
  BY DEF RollStarts
<1>2. Said' = Said
  BY <1>1 DEF Said
<1>3. CASE UNCHANGED <<chunk, chat>>
  <2>1. SessionTypeOK'
    BY <1>0, <1>1, <1>3 DEF SessionTypeOK
  <2>2. Placed(chat, Said)' /\ Placed(redis, Said)'
    BY <1>0, <1>1, <1>2, <1>3 DEF Placed
  <2>3. Chunked'
    BY <1>0, <1>1, <1>2, <1>3 DEF Chunked, InLine, Climbs, Ordered, Behind, Numbers
  <2>4. Kept'
    BY <1>0, <1>1, <1>2, <1>3 DEF Kept, Lasting, Has, Numbers
  <2>5. Secretive'
    BY <1>0, <1>1, <1>2, <1>3 DEF Secretive, Veiled, Veils
  <2> QED  BY <2>1, <2>2, <2>3, <2>4, <2>5 DEF MemoryIInv
<1>4. CASE chunk = <<>> /\ Len(chat.backlog) >= ChunkSize /\ ~UNCHANGED <<chunk, chat>>
  <2>t. /\ chat.backlog \in Seq(Entry) /\ chat.window \in Seq(Entry) /\ ChunkSize \in Nat
        /\ chat \in Chats
    BY <1>0, MemoryTypes, SessionAssumption
  <2>l. Len(chat.backlog) \in Nat /\ \A i \in 1 .. Len(chat.backlog) : chat.backlog[i].n \in Nat
    BY <2>t, SeqFacts
  <2>1. /\ chunk' = SubSeq(chat.backlog, 1, ChunkSize)
        /\ chat' = [chat EXCEPT !.backlog = SubSeq(chat.backlog, ChunkSize + 1, Len(chat.backlog))]
    BY <1>4 DEF RollStarts
  <2>2. PICK h \in Seq(Entry) : /\ h = chunk' /\ Len(h) = ChunkSize
                                /\ \A i \in 1 .. ChunkSize : h[i] = chat.backlog[i]
    <3>1. ChunkSize <= Len(chat.backlog)
      BY <1>4, <2>t, <2>l
    <3>2. /\ SubSeq(chat.backlog, 1, ChunkSize) \in Seq(Entry)
          /\ Len(SubSeq(chat.backlog, 1, ChunkSize)) = ChunkSize
          /\ \A i \in 1 .. ChunkSize : SubSeq(chat.backlog, 1, ChunkSize)[i] = chat.backlog[i]
      BY <2>t, <3>1, Beginning
    <3> QED  BY <2>1, <3>2
  <2>3. PICK t \in Seq(Entry) :
              /\ t = SubSeq(chat.backlog, ChunkSize + 1, Len(chat.backlog))
              /\ Len(t) = Len(chat.backlog) - ChunkSize
              /\ \A i \in 1 .. Len(chat.backlog) - ChunkSize : t[i] = chat.backlog[ChunkSize + i]
    <3>1. ChunkSize <= Len(chat.backlog)
      BY <1>4, <2>t, <2>l
    <3>2. /\ SubSeq(chat.backlog, ChunkSize + 1, Len(chat.backlog)) \in Seq(Entry)
          /\ Len(SubSeq(chat.backlog, ChunkSize + 1, Len(chat.backlog)))
               = Len(chat.backlog) - ChunkSize
          /\ \A i \in 1 .. Len(chat.backlog) - ChunkSize :
               SubSeq(chat.backlog, ChunkSize + 1, Len(chat.backlog))[i]
                 = chat.backlog[ChunkSize + i]
      BY <2>t, <3>1, Remainder
    <3> QED  BY <3>2
  <2>4. chat' \in Chats /\ chat'.window = chat.window /\ chat'.backlog = t
    BY <2>1, <2>3, <2>t DEF Chats
  <2>5. PICK d \in Chats : d = chat' /\ d.window = chat.window /\ d.backlog = t
    BY <2>4
  <2>6. \A i \in 1 .. Len(t) : /\ ChunkSize + i \in 1 .. Len(chat.backlog)
                               /\ t[i] = chat.backlog[ChunkSize + i]
    BY <2>t, <2>l, <2>3
  <2>7. \A i \in 1 .. Len(h) : i \in 1 .. Len(chat.backlog) /\ h[i] = chat.backlog[i]
    BY <1>4, <2>t, <2>l, <2>2
  <2>n. /\ \A n : n \in Numbers(h) <=> \E i \in 1 .. Len(h) : h[i].n = n
        /\ Len(h) \in Nat /\ Len(t) \in Nat
    BY NumbersFacts, SeqFacts
  <2>8. SessionTypeOK'
    BY <1>0, <1>1, <2>2, <2>5 DEF SessionTypeOK, Chats
  <2>9. Placed(chat, Said)' /\ Placed(redis, Said)'
    <3>1. Placed(d, Said)
      BY <1>0, <2>5, <2>6 DEF Placed
    <3> QED  BY <1>0, <1>1, <1>2, <2>5, <3>1 DEF Placed
  <2>10. Chunked'
    <3>1. \A i \in 1 .. Len(h) : h[i].n + Window <= Said
      BY <1>0, <2>7 DEF Placed
    <3>2. ASSUME ~revived PROVE InLine'
      <4>1. InLine
        BY <1>0, <3>2 DEF Chunked
      <4>2. Climbs(h)
        BY <2>7, <4>1 DEF InLine, Ordered, Climbs
      <4>3. \A i \in 1 .. Len(h), j \in 1 .. Len(t) : h[i].n < t[j].n
        <5>1. ASSUME NEW i \in 1 .. Len(h), NEW j \in 1 .. Len(t) PROVE h[i].n < t[j].n
          <6>1. i < ChunkSize + j /\ ChunkSize + j \in 1 .. Len(chat.backlog)
            BY <2>2, <2>6, <2>n, <2>t
          <6>2. chat.backlog[i].n < chat.backlog[ChunkSize + j].n
            BY <2>7, <4>1, <6>1 DEF InLine, Ordered, Climbs
          <6> QED  BY <2>6, <2>7, <6>2
        <5> QED  BY <5>1
      <4>4. Behind(Numbers(h), d)
        <5>1. ASSUME NEW m \in Numbers(h), NEW j \in 1 .. Len(d.backlog) PROVE m < d.backlog[j].n
          BY <2>5, <2>n, <4>3, <5>1
        <5>2. ASSUME NEW m \in Numbers(h), NEW j \in 1 .. Len(d.window) PROVE m < d.window[j].n
          BY <2>5, <2>7, <2>n, <4>1, <5>2 DEF InLine, Ordered
        <5> QED  BY <5>1, <5>2 DEF Behind
      <4>5. Ordered(d)
        <5>1. Climbs(t)
          <6>1. ASSUME NEW i \in 1 .. Len(t), NEW j \in 1 .. Len(t), i < j PROVE t[i].n < t[j].n
            <7>1. ChunkSize + i < ChunkSize + j
              BY <2>t, <2>n, <6>1
            <7> QED  BY <2>6, <4>1, <7>1 DEF InLine, Ordered, Climbs
          <6> QED  BY <6>1 DEF Climbs
        <5> QED  BY <2>5, <2>6, <4>1, <5>1 DEF InLine, Ordered
      <4>6. Behind(summed, d)
        BY <2>5, <2>6, <4>1 DEF InLine, Behind
      <4>7. \A m \in summed, i \in 1 .. Len(h) : m < h[i].n
        BY <2>7, <4>1 DEF InLine, Behind
      <4>8. cold \/ (Ordered(redis) /\ Behind(summed, redis))
        BY <4>1 DEF InLine
      <4>9. Climbs(chunk)' /\ Behind(Numbers(chunk), chat)'
        BY <2>2, <2>5, <4>2, <4>4 DEF Climbs, Behind, Numbers
      <4>10. Ordered(chat)' /\ Behind(summed, chat)'
        BY <1>1, <2>5, <4>5, <4>6 DEF Climbs, Ordered, Behind
      <4>11. (cold \/ Ordered(redis))' /\ (cold \/ Behind(summed, redis))'
        BY <1>1, <4>8 DEF Climbs, Ordered, Behind
      <4> QED  BY <1>1, <2>2, <4>7, <4>9, <4>10, <4>11 DEF InLine
    <3> QED  BY <1>0, <1>1, <1>2, <2>2, <3>1, <3>2 DEF Chunked
  <2>11. Kept'
    <3>1. ASSUME NEW n, Has(chat, n) PROVE Has(d, n) \/ n \in Numbers(h)
      <4>1. CASE \E i \in 1 .. Len(chat.window) : chat.window[i].n = n
        BY <2>5, <4>1 DEF Has
      <4>2. ASSUME NEW i \in 1 .. Len(chat.backlog), chat.backlog[i].n = n
            PROVE  Has(d, n) \/ n \in Numbers(h)
        <5>1. CASE i <= ChunkSize
          <6>1. i \in 1 .. Len(h) /\ h[i] = chat.backlog[i]
            BY <2>2, <2>l, <2>t, <5>1
          <6> QED  BY <2>n, <4>2, <6>1
        <5>2. CASE ~(i <= ChunkSize)
          <6>1. i - ChunkSize \in 1 .. Len(t) /\ ChunkSize + (i - ChunkSize) = i
            BY <2>3, <2>l, <2>t, <5>2
          <6>2. t[i - ChunkSize] = chat.backlog[i]
            BY <2>6, <6>1
          <6> QED  BY <2>5, <4>2, <6>1, <6>2 DEF Has
        <5> QED  BY <5>1, <5>2
      <4> QED  BY <3>1, <4>1, <4>2 DEF Has
    <3>2. Lasting(chat, Said, gone)' /\ (cold \/ Lasting(redis, Said, gone))'
      BY <1>0, <1>1, <1>2, <2>5 DEF Kept, Lasting
    <3>3. (cold => \A n \in Number : Has(redis, n) => n \in gone)'
      BY <1>0, <1>1 DEF Kept, Has
    <3>4. Numbers(chunk) = {}
      BY <1>4, EmptySeq, NumbersFacts DEF Numbers
    <3>5. \A n \in 1 .. Said : \/ Has(d, n) \/ Has(redis, n) \/ n \in Numbers(h)
                               \/ n \in summed \/ n \in gone
      BY <1>0, <3>1, <3>4 DEF Kept
    <3>6. \A n \in 1 .. Said : \/ Has(chat, n)' \/ Has(redis, n)' \/ n \in Numbers(chunk)'
                               \/ n \in summed \/ n \in gone
      BY <1>1, <2>2, <2>5, <3>5 DEF Has, Numbers
    <3> QED  BY <1>0, <1>1, <1>2, <3>2, <3>3, <3>6 DEF Kept
  <2>12. Secretive'
    <3>1. partial \/ (Veiled(d, secret) /\ Veils(h, secret))
      BY <1>0, <2>5, <2>6, <2>7 DEF Secretive, Veiled, Veils
    <3> QED  BY <1>0, <1>1, <1>2, <2>2, <2>5, <3>1 DEF Secretive, Veiled, Veils
  <2> QED  BY <2>8, <2>9, <2>10, <2>11, <2>12 DEF MemoryIInv
<1> QED  BY <1>3, <1>4 DEF RollStarts
\* The roll failed: the chunk is the head of the backlog again.
LEMMA RollFailsKeeps == MemoryIInv /\ RollFails => MemoryIInv'
<1> SUFFICES ASSUME MemoryIInv, RollFails PROVE MemoryIInv'
  OBVIOUS
<1>0. SessionTypeOK /\ Placed(chat, Said) /\ Placed(redis, Said) /\ Chunked /\ Kept /\ Secretive
  BY DEF MemoryIInv
<1>1. /\ chunk # <<>> /\ chunk' = <<>> /\ chat' = [chat EXCEPT !.backlog = chunk \o chat.backlog]
      /\ redis' = redis /\ cold' = cold /\ log' = log /\ rolls' = rolls /\ talk' = talk
      /\ alive' = alive /\ summed' = summed /\ gone' = gone /\ secret' = secret
      /\ partial' = partial /\ revived' = revived
  BY DEF RollFails
<1>2. Said' = Said
  BY <1>1 DEF Said
<1>a. alive
  BY <1>0, <1>1 DEF Kept
<1>e. <<>> \in Seq(Entry) /\ Len(<<>>) = 0 /\ Numbers(<<>>) = {}
  BY EmptySeq, NumbersFacts DEF Numbers
<1>t. /\ chat \in Chats /\ chat.window \in Seq(Entry) /\ chat.backlog \in Seq(Entry)
      /\ chunk \in Seq(Entry) /\ Len(chat.backlog) \in Nat /\ Len(chunk) \in Nat
      /\ \A n : n \in Numbers(chunk) <=> \E i \in 1 .. Len(chunk) : chunk[i].n = n
  BY <1>0, MemoryTypes, SeqFacts, NumbersFacts
<1>3. PICK b \in Seq(Entry) : /\ b = chunk \o chat.backlog /\ Len(b) = Len(chunk) + Len(chat.backlog)
                              /\ \A i \in 1 .. Len(chunk) + Len(chat.backlog) :
                                   b[i] = IF i <= Len(chunk) THEN chunk[i]
                                          ELSE chat.backlog[i - Len(chunk)]
  <2>1. /\ chunk \o chat.backlog \in Seq(Entry)
        /\ Len(chunk \o chat.backlog) = Len(chunk) + Len(chat.backlog)
        /\ \A i \in 1 .. Len(chunk) + Len(chat.backlog) : (chunk \o chat.backlog)[i] =
              IF i <= Len(chunk) THEN chunk[i] ELSE chat.backlog[i - Len(chunk)]
    BY <1>t, ConcatProperties
  <2> QED  BY <2>1
<1>4. PICK d \in Chats : d = chat' /\ d.window = chat.window /\ d.backlog = b
  <2>1. chat' \in Chats /\ chat'.window = chat.window /\ chat'.backlog = b
    BY <1>1, <1>3, <1>t DEF Chats
  <2> QED  BY <2>1
<1>5. \A i \in 1 .. Len(b) : \/ i \in 1 .. Len(chunk) /\ b[i] = chunk[i]
                             \/ /\ i - Len(chunk) \in 1 .. Len(chat.backlog)
                                /\ b[i] = chat.backlog[i - Len(chunk)]
                                /\ i > Len(chunk)
  BY <1>3, <1>t
<1>6. SessionTypeOK'
  BY <1>0, <1>1, <1>4, <1>e DEF SessionTypeOK, Chats
<1>7. Placed(chat, Said)' /\ Placed(redis, Said)'
  <2>1. Placed(d, Said)
    <3>1. \A i \in 1 .. Len(b) : b[i].n + Window <= Said
      BY <1>0, <1>5 DEF Placed, Chunked
    <3> QED  BY <1>0, <1>4, <3>1 DEF Placed
  <2> QED  BY <1>0, <1>1, <1>2, <1>4, <2>1 DEF Placed
<1>8. Chunked'
  <2>1. ASSUME ~revived PROVE InLine'
    <3>1. InLine
      BY <1>0, <2>1 DEF Chunked
    <3>2. Climbs(b)
      <4>1. ASSUME NEW i \in 1 .. Len(b), NEW j \in 1 .. Len(b), i < j PROVE b[i].n < b[j].n
        <5>1. CASE j <= Len(chunk)
          <6>1. i \in 1 .. Len(chunk) /\ j \in 1 .. Len(chunk) /\ b[i] = chunk[i] /\ b[j] = chunk[j]
            BY <1>3, <1>t, <4>1, <5>1
          <6> QED  BY <3>1, <4>1, <6>1 DEF InLine, Climbs
        <5>2. CASE i <= Len(chunk) /\ j > Len(chunk)
          <6>1. /\ i \in 1 .. Len(chunk) /\ b[i] = chunk[i] /\ j - Len(chunk) \in 1 .. Len(chat.backlog)
                /\ b[j] = chat.backlog[j - Len(chunk)]
            BY <1>3, <1>t, <4>1, <5>2
          <6>2. b[i].n \in Numbers(chunk)
            BY <1>t, <6>1
          <6> QED  BY <3>1, <6>1, <6>2 DEF InLine, Behind
        <5>3. CASE i > Len(chunk)
          <6>1. /\ i - Len(chunk) \in 1 .. Len(chat.backlog) /\ j - Len(chunk) \in 1 .. Len(chat.backlog)
                /\ b[i] = chat.backlog[i - Len(chunk)] /\ b[j] = chat.backlog[j - Len(chunk)]
                /\ i - Len(chunk) < j - Len(chunk)
            BY <1>3, <1>t, <4>1, <5>3
          <6> QED  BY <3>1, <6>1 DEF InLine, Ordered, Climbs
        <5> QED  BY <1>3, <1>t, <5>1, <5>2, <5>3
      <4> QED  BY <4>1 DEF Climbs
    <3>3. ASSUME NEW i \in 1 .. Len(b), NEW j \in 1 .. Len(chat.window)
          PROVE  b[i].n < chat.window[j].n
      <4>1. CASE i \in 1 .. Len(chunk) /\ b[i] = chunk[i]
        <5>1. b[i].n \in Numbers(chunk)
          BY <1>t, <4>1
        <5> QED  BY <3>1, <5>1 DEF InLine, Behind
      <4>2. CASE ~(i \in 1 .. Len(chunk) /\ b[i] = chunk[i])
        BY <1>5, <3>1, <4>2 DEF InLine, Ordered
      <4> QED  BY <4>1, <4>2
    <3>4. Ordered(d)
      BY <1>4, <3>1, <3>2, <3>3 DEF InLine, Ordered
    <3>5. Behind(summed, d)
      BY <1>4, <1>5, <3>1 DEF InLine, Behind
    <3>6. Climbs(chunk)' /\ Behind(Numbers(chunk), chat)'
      BY <1>1, <1>e DEF Climbs, Behind
    <3>7. Ordered(chat)' /\ Behind(summed, chat)'
      BY <1>1, <1>4, <3>4, <3>5 DEF Climbs, Ordered, Behind
    <3>8. (cold \/ Ordered(redis))' /\ (cold \/ Behind(summed, redis))'
      BY <1>1, <3>1 DEF InLine, Climbs, Ordered, Behind
    <3> QED  BY <1>1, <1>e, <3>6, <3>7, <3>8 DEF InLine
  <2> QED  BY <1>0, <1>1, <1>2, <1>e, <2>1 DEF Chunked
<1>9. Kept'
  <2>1. ASSUME NEW n, Has(chat, n) \/ n \in Numbers(chunk) PROVE Has(d, n)
    <3>1. CASE \E i \in 1 .. Len(chat.window) : chat.window[i].n = n
      BY <1>4, <3>1 DEF Has
    <3>2. ASSUME NEW i \in 1 .. Len(chat.backlog), chat.backlog[i].n = n PROVE Has(d, n)
      <4>1. /\ i + Len(chunk) \in 1 .. Len(b) /\ ~(i + Len(chunk) <= Len(chunk))
            /\ (i + Len(chunk)) - Len(chunk) = i
        BY <1>3, <1>t
      <4>2. b[i + Len(chunk)] = chat.backlog[i]
        BY <1>3, <4>1
      <4> QED  BY <1>4, <3>2, <4>1, <4>2 DEF Has
    <3>3. ASSUME NEW i \in 1 .. Len(chunk), chunk[i].n = n PROVE Has(d, n)
      <4>1. i \in 1 .. Len(b) /\ b[i] = chunk[i]
        BY <1>3, <1>t
      <4> QED  BY <1>4, <3>3, <4>1 DEF Has
    <3> QED  BY <1>t, <2>1, <3>1, <3>2, <3>3 DEF Has
  <2>2. Lasting(chat, Said, gone)' /\ (cold \/ Lasting(redis, Said, gone))'
    BY <1>0, <1>1, <1>2, <1>4 DEF Kept, Lasting
  <2>3. (cold => \A n \in Number : Has(redis, n) => n \in gone)'
    BY <1>0, <1>1 DEF Kept, Has
  <2>4. \A n \in 1 .. Said : Has(d, n) \/ Has(redis, n) \/ n \in summed \/ n \in gone
    BY <1>0, <2>1 DEF Kept
  <2>5. \A n \in 1 .. Said : Has(chat, n)' \/ Has(redis, n)' \/ n \in summed \/ n \in gone
    BY <1>1, <1>4, <2>4 DEF Has
  <2> QED  BY <1>0, <1>1, <1>2, <1>a, <2>2, <2>3, <2>5 DEF Kept
<1>10. Secretive'
  <2>1. partial \/ Veiled(d, secret)
    BY <1>0, <1>4, <1>5 DEF Secretive, Veiled, Veils
  <2> QED  BY <1>0, <1>1, <1>2, <1>4, <1>e, <2>1 DEF Secretive, Veiled, Veils
<1> QED  BY <1>6, <1>7, <1>8, <1>9, <1>10 DEF MemoryIInv

\* What the log's tail is.
LEMMA TailFacts ==
    ASSUME SessionTypeOK
    PROVE  /\ LogTail \in Seq(Entry) /\ Len(LogTail) <= Window /\ Len(LogTail) <= Said
           /\ Len(LogTail) = Said \/ Len(LogTail) = Window
           /\ \A i \in 1 .. Len(LogTail) : /\ LogTail[i].n = Said - Len(LogTail) + i
                                           /\ LogTail[i].hidden = log[LogTail[i].n]
<1>1. /\ Said \in Nat /\ Window \in Nat /\ Said <= MaxEntries
      /\ \A n \in 1 .. Said : n \in Number /\ log[n] \in BOOLEAN
  BY MemoryTypes
<1>2. PICK k \in Nat : k = Smaller(Window, Said) /\ k <= Window /\ k <= Said /\ (k = Said \/ k = Window)
  BY <1>1 DEF Smaller
<1>3. PICK f \in Nat : f = Said - k
  BY <1>1, <1>2
<1>4. LogTail = [i \in 1 .. Said - f |-> [n |-> f + i, hidden |-> log[f + i]]]
  BY <1>2, <1>3 DEF LogTail
<1>5. Said - f = k
  BY <1>1, <1>2, <1>3
<1>6. LogTail = [i \in 1 .. k |-> [n |-> f + i, hidden |-> log[f + i]]]
  BY <1>4, <1>5
<1>7. \A i \in 1 .. k : [n |-> f + i, hidden |-> log[f + i]] \in Entry
  BY <1>1, <1>2, <1>3 DEF Entry
<1>8. LogTail \in [1 .. k -> Entry]
  BY <1>6, <1>7
<1>9. LogTail \in Seq(Entry) /\ Len(LogTail) = k
  BY <1>2, <1>8, SeqDef, LenProperties
<1> QED  BY <1>1, <1>2, <1>3, <1>6, <1>9
\* The process starts again, with Redis or without.
LEMMA RestartsKeeps ==
    ASSUME MemoryIInv, NEW reachable \in BOOLEAN, Restarts(reachable)
    PROVE  MemoryIInv'
<1>0. SessionTypeOK /\ Placed(chat, Said) /\ Placed(redis, Said) /\ Chunked /\ Kept /\ Secretive
  BY DEF MemoryIInv
<1>1. PICK c : c = IF reachable THEN redis ELSE Nothing
  OBVIOUS
<1>2. /\ ~alive /\ alive' = TRUE /\ cold' = ~reachable
      /\ chat' = [c EXCEPT !.window = Seeded(c.window)]
      /\ redis' = (IF reachable THEN Nothing ELSE redis)
      /\ gone' = (IF reachable THEN gone ELSE gone \cup Held(redis))
      /\ revived' = (revived \/ (reachable /\ cold /\ redis # Nothing))
      /\ log' = log /\ chunk' = chunk /\ talk' = talk /\ rolls' = rolls
      /\ summed' = summed /\ secret' = secret /\ partial' = partial
  BY <1>1 DEF Restarts
<1>3. Said' = Said
  BY <1>2 DEF Said
<1>e. <<>> \in Seq(Entry) /\ Len(<<>>) = 0 /\ Numbers(<<>>) = {}
  BY EmptySeq, NumbersFacts DEF Numbers
<1>4. chat = Nothing /\ chunk = <<>> /\ (\A n : ~Has(chat, n)) /\ Numbers(chunk) = {}
  BY <1>0, <1>2, <1>e, NothingFacts DEF Kept
<1>t. /\ redis \in Chats /\ Said \in Nat /\ Window \in Nat /\ 2 <= Window
      /\ \A n \in 1 .. Said : n \in Number /\ log[n] \in BOOLEAN
      /\ \A m \in summed : m \in Nat
      /\ \A n : n \in Held(redis) <=> Has(redis, n)
      /\ Held(redis) \subseteq Number
  BY <1>0, MemoryTypes, HeldFacts, HeldInNumber
<1>5. /\ c \in Chats /\ c.window \in Seq(Entry) /\ c.backlog \in Seq(Entry)
      /\ Len(c.window) \in Nat /\ Len(c.backlog) \in Nat
      /\ \A i \in 1 .. Len(c.window) : c.window[i].n \in Number /\ c.window[i].n \in Nat
      /\ \A i \in 1 .. Len(c.backlog) : c.backlog[i].n \in Number /\ c.backlog[i].n \in Nat
  <2>1. c \in Chats
    BY <1>1, <1>t, NothingFacts
  <2>2. c.window \in Seq(Entry) /\ c.backlog \in Seq(Entry)
    BY <2>1 DEF Chats
  <2> QED  BY <2>1, <2>2, SeqFacts
<1>6. PICK l \in Seq(Entry) :
         /\ l = LogTail /\ Len(l) \in Nat /\ Len(l) <= Window /\ Len(l) <= Said
         /\ Len(l) = Said \/ Len(l) = Window
         /\ \A i \in 1 .. Len(l) : l[i].n = Said - Len(l) + i /\ l[i].hidden = log[l[i].n]
  <2>1. /\ LogTail \in Seq(Entry) /\ Len(LogTail) <= Window /\ Len(LogTail) <= Said
        /\ Len(LogTail) = Said \/ Len(LogTail) = Window
        /\ \A i \in 1 .. Len(LogTail) : /\ LogTail[i].n = Said - Len(LogTail) + i
                                        /\ LogTail[i].hidden = log[LogTail[i].n]
    BY <1>0, TailFacts
  <2>2. Len(LogTail) \in Nat
    BY <2>1, LenProperties
  <2> QED  BY <2>1, <2>2
<1>7. PICK w \in Seq(Entry) : w = Seeded(c.window) /\ (w = l \/ w = c.window)
                              /\ (w = l => w = c.window \/ Len(c.window) < Len(l))
  BY <1>5, <1>6 DEF Seeded
<1>8. PICK d \in Chats : d = chat' /\ d.window = w /\ d.backlog = c.backlog
  <2>1. chat' \in Chats /\ chat'.window = w /\ chat'.backlog = c.backlog
    BY <1>2, <1>5, <1>7 DEF Chats
  <2> QED  BY <2>1
<1>9. Placed(c, Said) /\ (c = redis \/ (Len(c.window) = 0 /\ Len(c.backlog) = 0))
  BY <1>0, <1>1, <1>t, NothingFacts DEF Placed
<1>10. Placed(d, Said)
  <2>1. Len(w) <= Window
    BY <1>6, <1>7, <1>9 DEF Placed
  <2>2. \A i \in 1 .. Len(w) : w[i].n + Len(w) - i <= Said
    <3>1. CASE w = c.window
      BY <1>9, <3>1 DEF Placed
    <3>2. CASE w = l
      <4>1. ASSUME NEW i \in 1 .. Len(l) PROVE l[i].n + Len(l) - i <= Said
        <5>1. l[i].n = Said - Len(l) + i
          BY <1>6
        <5> QED  BY <1>6, <1>t, <5>1
      <4> QED  BY <3>2, <4>1
    <3> QED  BY <1>7, <3>1, <3>2
  <2> QED  BY <1>8, <1>9, <2>1, <2>2 DEF Placed
<1>11. SessionTypeOK'
  <2>1. gone' \in SUBSET Number
    BY <1>0, <1>2, <1>t DEF SessionTypeOK
  <2>2. redis' \in Chats /\ chat' \in Chats /\ Len(chat'.window) <= Window
    BY <1>2, <1>8, <1>10, <1>t, NothingFacts DEF Placed
  <2>3. cold' \in BOOLEAN /\ alive' \in BOOLEAN /\ revived' \in BOOLEAN
    BY <1>0, <1>2 DEF SessionTypeOK
  <2> QED  BY <1>0, <1>2, <2>1, <2>2, <2>3 DEF SessionTypeOK, Chats
<1>12. Placed(chat, Said)' /\ Placed(redis, Said)'
  <2>1. Placed(chat, Said)'
    BY <1>3, <1>8, <1>10 DEF Placed
  <2>2. Placed(redis, Said)'
    BY <1>0, <1>2, <1>3, <1>t, NothingFacts DEF Placed
  <2> QED  BY <2>1, <2>2
\* An entry of the backlog, or one condensed, lies before the log's tail.
<1>13. \A i \in 1 .. Len(l) : /\ \A j \in 1 .. Len(c.backlog) : c.backlog[j].n < l[i].n
                              /\ \A m \in summed : m < l[i].n
  <2>1. ASSUME NEW i \in 1 .. Len(l), NEW m \in Nat, m + Window <= Said PROVE m < l[i].n
    BY <1>6, <1>t, <2>1
  <2> QED  BY <1>0, <1>5, <1>9, <1>t, <2>1 DEF Placed, Chunked
<1>14. Chunked'
  <2>1. ASSUME ~revived' PROVE InLine'
    <3>1. Ordered(c) /\ Behind(summed, c)
      <4>1. CASE c = redis /\ ~cold
        BY <1>0, <1>2, <2>1, <4>1 DEF Chunked, InLine
      <4>2. CASE ~(c = redis /\ ~cold)
        <5>1. Len(c.window) = 0 /\ Len(c.backlog) = 0
          BY <1>1, <1>2, <1>9, <2>1, <4>2, NothingFacts
        <5> QED  BY <5>1 DEF Ordered, Climbs, Behind
      <4> QED  BY <4>1, <4>2
    <3>2. Climbs(l)
      BY <1>6, <1>t DEF Climbs
    <3>3. Ordered(d)
      BY <1>7, <1>8, <1>13, <3>1, <3>2 DEF Ordered
    <3>4. Behind(summed, d)
      BY <1>7, <1>8, <1>13, <3>1 DEF Behind
    <3>5. Climbs(chunk)' /\ Behind(Numbers(chunk), chat)'
      BY <1>2, <1>4, <1>e DEF Climbs, Behind
    <3>6. Ordered(chat)' /\ Behind(summed, chat)'
      BY <1>2, <1>8, <3>3, <3>4 DEF Climbs, Ordered, Behind
    <3>7. (cold \/ Ordered(redis))' /\ (cold \/ Behind(summed, redis))'
      <4>1. CASE reachable
        <5>1. redis' = Nothing
          BY <1>2, <4>1
        <5> QED  BY <5>1, NothingFacts DEF Climbs, Ordered, Behind
      <4>2. CASE ~reachable
        BY <1>2, <4>2
      <4> QED  BY <4>1, <4>2
    <3> QED  BY <1>2, <1>4, <1>e, <3>5, <3>6, <3>7 DEF InLine
  <2> QED  BY <1>0, <1>2, <1>3, <2>1 DEF Chunked
<1>15. Kept'
  <2>1. Lasting(c, Said, gone')
    <3>1. CASE c = redis /\ ~cold
      BY <1>0, <1>2, <3>1 DEF Kept, Lasting
    <3>2. CASE c = redis /\ cold
      <4>1. ASSUME NEW i \in 1 .. Len(c.window) PROVE c.window[i].n \in gone
        BY <1>0, <1>5, <3>2 DEF Kept, Has
      <4> QED  BY <1>2, <4>1 DEF Lasting
    <3>3. CASE Len(c.window) = 0
      BY <3>3 DEF Lasting
    <3> QED  BY <1>9, <3>1, <3>2, <3>3
  <2>2. Lasting(d, Said, gone')
    BY <1>6, <1>7, <1>8, <2>1 DEF Lasting
  <2>3. Lasting(chat, Said, gone)' /\ (cold \/ Lasting(redis, Said, gone))'
    <3>1. Lasting(chat, Said, gone)'
      BY <1>3, <1>8, <2>2 DEF Lasting
    <3>2. (cold \/ Lasting(redis, Said, gone))'
      <4>1. CASE reachable
        <5>1. redis' = Nothing
          BY <1>2, <4>1
        <5> QED  BY <5>1, NothingFacts DEF Lasting
      <4>2. CASE ~reachable
        BY <1>2, <4>2
      <4> QED  BY <4>1, <4>2
    <3> QED  BY <3>1, <3>2
  <2>4. (cold => \A n \in Number : Has(redis, n) => n \in gone)'
    <3>1. ~reachable => \A n \in Number : Has(redis, n) => n \in gone'
      BY <1>2, <1>t
    <3> QED  BY <1>2, <3>1 DEF Has
  <2>5. ASSUME NEW n \in 1 .. Said
        PROVE  Has(d, n) \/ n \in summed \/ n \in gone'
    <3>1. Has(redis, n) \/ n \in summed \/ n \in gone
      BY <1>0, <1>4 DEF Kept
    <3>2. CASE Has(redis, n) /\ ~reachable
      BY <1>2, <1>t, <3>2
    <3>3. ASSUME NEW i \in 1 .. Len(c.backlog), c.backlog[i].n = n PROVE Has(d, n)
      BY <1>8, <3>3 DEF Has
    <3>4. ASSUME NEW i \in 1 .. Len(c.window), c.window[i].n = n PROVE Has(d, n) \/ n \in gone'
      <4>1. CASE w = c.window
        BY <1>8, <3>4, <4>1 DEF Has
      <4>2. CASE w # c.window /\ n \notin gone'
        <5>1. n = Said - Len(c.window) + i /\ w = l /\ Len(c.window) < Len(l)
          BY <1>7, <2>1, <3>4, <4>2 DEF Lasting
        <5>2. /\ Len(l) - Len(c.window) + i \in 1 .. Len(l)
              /\ Said - Len(l) + (Len(l) - Len(c.window) + i) = n
          BY <1>5, <1>6, <1>t, <5>1
        <5>3. l[Len(l) - Len(c.window) + i].n = n
          BY <1>6, <5>2
        <5> QED  BY <1>8, <5>1, <5>2, <5>3 DEF Has
      <4> QED  BY <4>1, <4>2
    <3>5. CASE Has(redis, n) /\ reachable
      <4>1. c = redis
        BY <1>1, <3>5
      <4> QED  BY <3>3, <3>4, <3>5, <4>1 DEF Has
    <3> QED  BY <1>2, <3>1, <3>2, <3>5
  <2>6. \A n \in 1 .. Said : Has(chat, n)' \/ n \in summed \/ n \in gone'
    BY <1>8, <2>5 DEF Has
  <2> QED  BY <1>2, <1>3, <2>3, <2>4, <2>6 DEF Kept
<1>16. Secretive'
  <2>1. ASSUME ~partial PROVE Veiled(d, secret)
    <3>1. Veiled(c, secret)
      BY <1>0, <1>9, <2>1 DEF Secretive, Veiled, Veils
    <3>2. Veils(l, secret)
      BY <1>0, <1>6, <2>1 DEF Secretive, Veils
    <3> QED  BY <1>7, <1>8, <3>1, <3>2 DEF Veiled
  <2>2. (partial \/ Veiled(redis, secret))'
    <3>1. CASE redis' = redis
      BY <1>0, <1>2, <3>1 DEF Secretive, Veiled, Veils
    <3>2. CASE redis' = Nothing
      BY <1>2, <3>2, NothingFacts DEF Veiled, Veils
    <3> QED  BY <1>2, <3>1, <3>2
  <2>3. (partial \/ Veiled(chat, secret))'
    BY <1>2, <1>8, <2>1 DEF Veiled, Veils
  <2> QED  BY <1>0, <1>2, <1>3, <1>4, <1>e, <2>2, <2>3 DEF Secretive, Veils
<1> QED  BY <1>11, <1>12, <1>14, <1>15, <1>16 DEF MemoryIInv
-----------------------------------------------------------------------------
(***************************************************************************)
(* Session: entries are said.                                              *)
(***************************************************************************)
\* What a chat d is after a chat c, t - s entries later.
Follows(c, s, d, t) ==
    /\ d \in Chats /\ Placed(d, t)
    /\ Ordered(c) => Ordered(d)
    /\ \A M \in SUBSET Int : Behind(M, c) /\ (\A m \in M : m <= s) => Behind(M, d)
    /\ \A g : Lasting(c, s, g) => Lasting(d, t, g)

LEMMA GoesTwice ==
    ASSUME NEW c \in Chats, NEW e \in Entry, NEW f \in Entry, NEW s \in Nat, NEW filing \in BOOLEAN,
           NEW b, NEW k, Goes(c, e, b, k, filing), NEW d, NEW j, Goes(b, f, d, j, filing),
           Placed(c, s), e.n = s + 1, f.n = s + 2
    PROVE  /\ Follows(c, s, d, s + 2)
           /\ \A S : Veiled(c, S) /\ (e.n \in S => e.hidden) /\ (f.n \in S => f.hidden)
                        => Veiled(d, S)
           /\ Has(d, s + 1) /\ Has(d, s + 2)
           /\ \A n : Has(c, n) => \/ Has(d, n)
                                  \/ /\ ~filing
                                     /\ \E i \in 1 .. Len(c.window) + 2 - Window : n = c.window[i].n
<1>w. Window \in Nat /\ 2 <= Window
  BY SessionAssumption
<1>1. /\ b \in Chats /\ Placed(b, s + 1)
      /\ Ordered(c) => Ordered(b)
      /\ \A M \in SUBSET Int : Behind(M, c) /\ (\A m \in M : m <= s) => Behind(M, b)
      /\ \A g : Lasting(c, s, g) => Lasting(b, s + 1, g)
      /\ \A S : Veiled(c, S) /\ (e.n \in S => e.hidden) => Veiled(b, S)
      /\ Has(b, s + 1)
      /\ \A n : Has(c, n) => Has(b, n) \/ (k = 1 /\ ~filing /\ n = c.window[1].n)
  BY GoesOn
<1>2. PICK t \in Nat : t = s + 1 /\ f.n = t + 1 /\ t + 1 = s + 2
  OBVIOUS
<1>3. /\ d \in Chats /\ Placed(d, t + 1)
      /\ Ordered(b) => Ordered(d)
      /\ \A M \in SUBSET Int : Behind(M, b) /\ (\A m \in M : m <= t) => Behind(M, d)
      /\ \A g : Lasting(b, t, g) => Lasting(d, t + 1, g)
      /\ \A S : Veiled(b, S) /\ (f.n \in S => f.hidden) => Veiled(d, S)
      /\ Has(d, t + 1)
      /\ \A n : Has(b, n) => Has(d, n) \/ (j = 1 /\ ~filing /\ n = b.window[1].n)
  <2>1. Placed(b, t)
    BY <1>1, <1>2
  <2> QED  BY <1>1, <1>2, <2>1, GoesOn
<1>4. Follows(c, s, d, s + 2)
  <2>1. ASSUME NEW M \in SUBSET Int, Behind(M, c), \A m \in M : m <= s PROVE Behind(M, d)
    <3>1. \A m \in M : m <= t
      BY <1>2, <2>1
    <3>2. Behind(M, b)
      BY <1>1, <2>1
    <3> QED  BY <1>3, <3>1, <3>2
  <2>2. d \in Chats /\ Placed(d, s + 2)
    BY <1>2, <1>3
  <2>3. ASSUME NEW g, Lasting(c, s, g) PROVE Lasting(d, s + 2, g)
    BY <1>1, <1>2, <1>3, <2>3
  <2> QED  BY <1>1, <1>3, <2>1, <2>2, <2>3 DEF Follows
<1>5. ASSUME NEW S, Veiled(c, S) /\ (e.n \in S => e.hidden) /\ (f.n \in S => f.hidden)
      PROVE  Veiled(d, S)
  BY <1>1, <1>3, <1>5
\* What the second entry pushes out of a full window is from before the first.
<1>6. /\ Len(c.window) \in Nat /\ k \in {0, 1} /\ Len(b.window) = Len(c.window) + 1 - k
      /\ j \in {0, 1} /\ (j = 1 <=> Len(b.window) = Window)
      /\ k = 1 => Len(c.window) = Window
      /\ \A i \in 1 .. Len(b.window) - 1 : b.window[i] = c.window[i + k]
  <2>1. c.window \in Seq(Entry)
    BY DEF Chats
  <2> QED  BY <2>1, SeqFacts DEF Goes
<1>7. CASE j = 1
  <2>1. /\ b.window[1] = c.window[1 + k] /\ 1 + k \in 1 .. Len(c.window)
        /\ 1 + k = Len(c.window) + 2 - Window
    BY <1>w, <1>6, <1>7
  <2>2. b.window[1].n <= s
    <3>1. /\ c.window[1 + k].n + Len(c.window) - (1 + k) <= s /\ c.window[1 + k].n \in Nat
      <4>1. c.window \in Seq(Entry)
        BY DEF Chats
      <4> QED  BY <2>1, <4>1, SeqFacts DEF Placed
    <3> QED  BY <1>6, <2>1, <3>1, SMTT(30)
  <2>3. Has(d, s + 1)
    BY <1>1, <1>3, <2>2
  <2>4. ASSUME NEW n, Has(c, n), ~Has(d, n)
        PROVE  ~filing /\ \E i \in 1 .. Len(c.window) + 2 - Window : n = c.window[i].n
    <3>1. CASE Has(b, n)
      <4>1. ~filing /\ n = c.window[1 + k].n
        BY <1>3, <2>1, <2>4, <3>1
      <4>2. 1 + k \in 1 .. Len(c.window) + 2 - Window
        BY <1>6, <2>1
      <4> QED  BY <4>1, <4>2
    <3>2. CASE ~Has(b, n)
      <4>1. ~filing /\ n = c.window[1].n
        BY <1>1, <2>4, <3>2
      <4>2. 1 \in 1 .. Len(c.window) + 2 - Window
        BY <1>6, <2>1
      <4> QED  BY <4>1, <4>2
    <3> QED  BY <3>1, <3>2
  <2> QED  BY <1>2, <1>3, <1>4, <1>5, <2>3, <2>4
<1>8. CASE j # 1
  <2>1. k # 1
    BY <1>w, <1>6, <1>8
  <2>2. \A n : Has(c, n) => Has(d, n)
    BY <1>1, <1>3, <1>8, <2>1
  <2> QED  BY <1>1, <1>2, <1>3, <1>4, <1>5, <1>8, <2>2
<1> QED  BY <1>7, <1>8

\* The step of a process that says x more entries, hidden or not.
LEMMA SaysMore ==
    ASSUME MemoryIInv, alive, alive' = alive, NEW d \in Chats, NEW r \in Chats, NEW x \in Nat,
           chat' = d, redis' = r, NEW h \in BOOLEAN,
           chunk' = chunk, rolls' \in BOOLEAN, talk' \in {"none", "plain", "secret"},
           summed' = summed, partial' = partial, revived' = revived,
           log' \in Seq(BOOLEAN), Len(log') = Said + x, Said + x <= MaxEntries,
           \A n \in 1 .. Said : log'[n] = log[n],
           \A n \in Said + 1 .. Said + x : log'[n] = h,
           secret' = IF h THEN secret \cup (Said + 1 .. Said + x) ELSE secret,
           gone \subseteq gone', gone' \subseteq Number,
           Follows(chat, Said, d, Said + x),
           partial \/ (Veiled(d, secret') /\ Veiled(r, secret')),
           Placed(r, Said + x),
           \/ r = redis /\ cold' = cold
           \/ ~cold /\ cold' = TRUE /\ \A n : Has(r, n) => n \in gone',
           \A n : Has(chat, n) => Has(d, n) \/ n \in gone',
           \A n \in Said + 1 .. Said + x : Has(d, n) \/ n \in gone'
    PROVE  MemoryIInv'
<1>0. SessionTypeOK /\ Placed(chat, Said) /\ Placed(redis, Said) /\ Chunked /\ Kept /\ Secretive
  BY DEF MemoryIInv
<1>t. /\ Said \in Nat /\ Window \in Nat /\ MaxEntries \in Nat /\ chunk \in Seq(Entry)
      /\ \A m \in summed : m \in Nat
      /\ \A i \in 1 .. Len(chunk) : chunk[i].n \in Nat
      /\ \A n : n \in Numbers(chunk) <=> \E i \in 1 .. Len(chunk) : chunk[i].n = n
  BY <1>0, MemoryTypes, SeqFacts, NumbersFacts
<1>1. PICK t : t = Said' /\ t = Said + x /\ t \in Nat
  BY <1>t DEF Said
<1>2. Placed(d, t) /\ Placed(r, t) /\ Follows(chat, Said, d, t)
  <2>1. Placed(r, t) /\ Follows(chat, Said, d, t)
    BY <1>1
  <2> QED  BY <2>1 DEF Follows
<1>3. Said <= t
  BY <1>1, <1>t
<1>4. SessionTypeOK'
  <2>1. cold' \in BOOLEAN
    BY <1>0 DEF SessionTypeOK
  <2>2. secret' \in SUBSET Number
    BY <1>0, <1>t DEF SessionTypeOK, Number
  <2>3. d.window \in Seq(Entry) /\ Len(d.window) <= Window
    BY <1>2 DEF Placed, Chats
  <2> QED  BY <1>0, <2>1, <2>2, <2>3 DEF SessionTypeOK, Chats
<1>5. Placed(chat, Said)' /\ Placed(redis, Said)'
  BY <1>1, <1>2 DEF Placed
<1>6. Chunked'
  <2>1. ASSUME ~revived PROVE InLine'
    <3>1. InLine
      BY <1>0, <2>1 DEF Chunked
    <3>2. Ordered(d)
      BY <1>2, <3>1 DEF Follows, InLine
    <3>3. Behind(summed, d)
      <4>1. summed \in SUBSET Int /\ \A m \in summed : m <= Said
        BY <1>0, <1>t DEF Chunked
      <4> QED  BY <1>2, <3>1, <4>1 DEF Follows, InLine
    <3>4. Behind(Numbers(chunk), d)
      <4>1. Numbers(chunk) \in SUBSET Int /\ \A m \in Numbers(chunk) : m <= Said
        <5>1. ASSUME NEW i \in 1 .. Len(chunk) PROVE chunk[i].n \in Int /\ chunk[i].n <= Said
          <6>1. chunk[i].n \in Nat /\ chunk[i].n + Window <= Said
            BY <1>0, <1>t DEF Chunked
          <6> QED  BY <1>t, <6>1
        <5> QED  BY <1>t, <5>1
      <4> QED  BY <1>2, <3>1, <4>1 DEF Follows, InLine
    <3>5. Climbs(chunk)' /\ Behind(Numbers(chunk), chat)'
      BY <3>1, <3>4 DEF InLine, Climbs, Behind, Numbers
    <3>6. Ordered(chat)' /\ Behind(summed, chat)'
      BY <3>2, <3>3 DEF Ordered, Climbs, Behind
    <3>7. (cold \/ Ordered(redis))' /\ (cold \/ Behind(summed, redis))'
      <4>1. CASE cold'
        BY <4>1
      <4>2. CASE ~cold'
        <5>1. r = redis /\ ~cold
          BY <4>2
        <5> QED  BY <3>1, <5>1 DEF InLine, Ordered, Climbs, Behind
      <4> QED  BY <4>1, <4>2
    <3> QED  BY <3>1, <3>5, <3>6, <3>7 DEF InLine
  <2>2. /\ \A i \in 1 .. Len(chunk) : chunk[i].n + Window <= t
        /\ \A m \in summed : m + Window <= t
    <3>1. ASSUME NEW m \in Nat, m + Window <= Said PROVE m + Window <= t
      BY <1>1, <1>3, <1>t, <3>1
    <3> QED  BY <1>0, <1>t, <3>1 DEF Chunked
  <2> QED  BY <1>1, <2>1, <2>2 DEF Chunked
<1>7. Kept'
  <2>1. (alive /\ ~cold => redis = Nothing)'
    BY <1>0 DEF Kept
  <2>2. (cold => \A n \in Number : Has(redis, n) => n \in gone)'
    <3>1. cold' => \A n \in Number : Has(r, n) => n \in gone'
      BY <1>0 DEF Kept
    <3> QED  BY <3>1 DEF Has
  <2>3. Lasting(d, t, gone')
    <3>1. Lasting(chat, Said, gone')
      BY <1>0 DEF Kept, Lasting
    <3> QED  BY <1>2, <3>1 DEF Follows
  <2>4. Lasting(chat, Said, gone)'
    BY <1>1, <2>3 DEF Lasting
  <2>5. (cold \/ Lasting(redis, Said, gone))'
    <3>1. CASE cold'
      BY <3>1
    <3>2. CASE ~cold'
      <4>1. r = Nothing
        BY <2>1, <3>2
      <4> QED  BY <4>1, NothingFacts DEF Lasting
    <3> QED  BY <3>1, <3>2
  <2>6. ASSUME NEW n \in 1 .. t
        PROVE  \/ Has(d, n) \/ Has(r, n) \/ n \in Numbers(chunk)
               \/ n \in summed \/ n \in gone'
    <3>1. CASE n \in Said + 1 .. Said + x
      BY <3>1
    <3>2. CASE n \in 1 .. Said
      <4>1. CASE Has(redis, n)
        <5>1. r = redis
          BY <1>0, <4>1, NothingFacts DEF Kept
        <5> QED  BY <4>1, <5>1
      <4>2. CASE ~Has(redis, n)
        BY <1>0, <3>2, <4>2 DEF Kept
      <4> QED  BY <4>1, <4>2
    <3> QED  BY <1>1, <1>t, <3>1, <3>2
  <2>7. \A n \in 1 .. t : \/ Has(chat, n)' \/ Has(redis, n)' \/ n \in Numbers(chunk)'
                          \/ n \in summed \/ n \in gone'
    BY <2>6 DEF Has, Numbers
  <2> QED  BY <1>1, <2>1, <2>2, <2>4, <2>5, <2>7 DEF Kept
<1>8. Secretive'
  <2>1. secret' \subseteq 1 .. t
    BY <1>0, <1>1, <1>t DEF Secretive
  <2>2. (partial \/ (Veiled(chat, secret) /\ Veiled(redis, secret)))'
    BY DEF Veiled, Veils
  <2>3. (partial \/ Veils(chunk, secret))'
    BY <1>0, <1>t DEF Secretive, Veils, Chunked
  <2>4. (partial \/ \A n \in secret : log[n])'
    <3>1. ASSUME ~partial, NEW n \in secret' PROVE log'[n]
      <4>1. CASE n \in secret
        BY <1>0, <3>1, <4>1 DEF Secretive
      <4>2. CASE n \notin secret
        BY <3>1, <4>2
      <4> QED  BY <4>1, <4>2
    <3> QED  BY <3>1
  <2> QED  BY <1>1, <2>1, <2>2, <2>3, <2>4 DEF Secretive
<1> QED  BY <1>4, <1>5, <1>6, <1>7, <1>8 DEF MemoryIInv
\* The window stays within its bound.
LEMMA GoesShort ==
    ASSUME NEW c \in Chats, Len(c.window) <= Window, NEW e, NEW d, NEW k, NEW filing,
           Goes(c, e, d, k, filing)
    PROVE  d \in Chats /\ Len(d.window) <= Window
<1>1. Window \in Nat /\ c.window \in Seq(Entry)
  BY SessionAssumption DEF Chats
<1>2. Len(c.window) \in Nat
  BY <1>1, SeqFacts
<1> QED  BY <1>1, <1>2 DEF Goes

\* What is placed stays placed while more is said.
LEMMA PlacedLater ==
    ASSUME NEW c \in Chats, NEW s \in Nat, Placed(c, s), NEW x \in Nat
    PROVE  Placed(c, s + x)
<1>1. /\ c.window \in Seq(Entry) /\ c.backlog \in Seq(Entry) /\ Window \in Nat
  BY SessionAssumption DEF Chats
<1>2. /\ Len(c.window) \in Nat
      /\ \A i \in 1 .. Len(c.window) : c.window[i].n \in Nat
      /\ \A i \in 1 .. Len(c.backlog) : c.backlog[i].n \in Nat
  BY <1>1, SeqFacts
<1>3. ASSUME NEW i \in 1 .. Len(c.window) PROVE c.window[i].n + Len(c.window) - i <= s + x
  <2>1. c.window[i].n + Len(c.window) - i <= s /\ c.window[i].n \in Nat
    BY <1>2 DEF Placed
  <2> QED  BY <1>2, <2>1
<1>4. ASSUME NEW i \in 1 .. Len(c.backlog) PROVE c.backlog[i].n + Window <= s + x
  <2>1. c.backlog[i].n + Window <= s /\ c.backlog[i].n \in Nat
    BY <1>2 DEF Placed
  <2> QED  BY <1>1, <2>1
<1> QED  BY <1>3, <1>4 DEF Placed

\* A number said so far is none of the ones to come.
LEMMA VeiledMore ==
    ASSUME NEW c \in Chats, NEW s \in Nat, Placed(c, s), NEW S, NEW T, \A n \in T : n > s,
           Veiled(c, S)
    PROVE  Veiled(c, S \cup T)
<1>t. c.window \in Seq(Entry) /\ c.backlog \in Seq(Entry) /\ Window \in Nat
  BY SessionAssumption DEF Chats
<1>1. /\ Len(c.window) \in Nat
      /\ \A i \in 1 .. Len(c.window) : c.window[i].n \in Nat
      /\ \A i \in 1 .. Len(c.backlog) : c.backlog[i].n \in Nat
  BY <1>t, SeqFacts
<1>2. /\ \A i \in 1 .. Len(c.window) : c.window[i].n + Len(c.window) - i <= s
      /\ \A i \in 1 .. Len(c.backlog) : c.backlog[i].n + Window <= s
  BY DEF Placed
<1>3. \A i \in 1 .. Len(c.window) : c.window[i].n <= s
  BY <1>t, <1>1, <1>2
<1>4. \A i \in 1 .. Len(c.backlog) : c.backlog[i].n <= s
  BY <1>t, <1>1, <1>2
<1>5. \A n : n \in Nat /\ n <= s => n \notin T
  OBVIOUS
<1> QED  BY <1>1, <1>3, <1>4, <1>5 DEF Veiled, Veils

\* The two entries of an exchange, and the log with them.
LEMMA NewestFacts ==
    ASSUME Said \in Nat, MaxEntries \in Nat, Said + 2 <= MaxEntries, NEW hid \in BOOLEAN
    PROVE  /\ Newest(1, hid) \in Entry /\ Newest(1, hid).n = Said + 1 /\ Newest(1, hid).hidden = hid
           /\ Newest(2, hid) \in Entry /\ Newest(2, hid).n = Said + 2 /\ Newest(2, hid).hidden = hid
<1>1. Said + 1 \in Number /\ Said + 2 \in Number
  BY DEF Number
<1> QED  BY <1>1 DEF Newest, Entry

LEMMA TwoMore ==
    ASSUME NEW s \in Seq(BOOLEAN), NEW h \in BOOLEAN
    PROVE  /\ s \o <<h, h>> \in Seq(BOOLEAN) /\ Len(s \o <<h, h>>) = Len(s) + 2
           /\ \A n \in 1 .. Len(s) : (s \o <<h, h>>)[n] = s[n]
           /\ \A n \in Len(s) + 1 .. Len(s) + 2 : (s \o <<h, h>>)[n] = h
<1>1. <<h, h>> \in Seq(BOOLEAN) /\ Len(<<h, h>>) = 2 /\ <<h, h>>[1] = h /\ <<h, h>>[2] = h
  OBVIOUS
<1>2. Len(s) \in Nat
  BY LenProperties
<1>3. PICK t \in Seq(BOOLEAN) : t = <<h, h>> /\ Len(t) = 2 /\ t[1] = h /\ t[2] = h
  BY <1>1
<1>4. /\ s \o t \in Seq(BOOLEAN) /\ Len(s \o t) = Len(s) + Len(t)
      /\ \A i \in 1 .. Len(s) + Len(t) : (s \o t)[i] = IF i <= Len(s) THEN s[i] ELSE t[i - Len(s)]
  BY ConcatProperties
<1>5. \A n \in 1 .. Len(s) : (s \o t)[n] = s[n]
  BY <1>2, <1>3, <1>4
<1>6. ASSUME NEW n \in Len(s) + 1 .. Len(s) + 2 PROVE (s \o t)[n] = h
  <2>1. n - Len(s) = 1 \/ n - Len(s) = 2
    BY <1>2
  <2>2. (s \o t)[n] = t[n - Len(s)]
    BY <1>2, <1>3, <1>4
  <2> QED  BY <1>3, <2>1, <2>2
<1> QED  BY <1>3, <1>4, <1>5, <1>6

\* A proactive message pushes the first entry of a full window out.
LEMMA ProactiveKeeps == MemoryIInv /\ Proactive => MemoryIInv'
<1> SUFFICES ASSUME MemoryIInv, Proactive PROVE MemoryIInv'
  OBVIOUS
<1>0. SessionTypeOK /\ Placed(chat, Said) /\ Placed(redis, Said) /\ Chunked /\ Kept /\ Secretive
  BY DEF MemoryIInv
<1>t. /\ chat \in Chats /\ redis \in Chats /\ Said \in Nat /\ Said = Len(log) /\ log \in Seq(BOOLEAN)
      /\ Window \in Nat /\ MaxEntries \in Nat
  BY <1>0, MemoryTypes
<1>1. /\ alive /\ Said < MaxEntries
      /\ chat' = Shove(chat, Newest(1, FALSE)) /\ log' = Append(log, FALSE)
      /\ gone' = gone \cup Shoved(1)
      /\ redis' = redis /\ cold' = cold /\ chunk' = chunk /\ rolls' = rolls /\ talk' = talk
      /\ alive' = alive /\ summed' = summed /\ secret' = secret /\ partial' = partial
      /\ revived' = revived
  BY DEF Proactive
<1>2. PICK e \in Entry : e = Newest(1, FALSE) /\ e.n = Said + 1
  <2>1. Newest(1, FALSE).n = Said + 1 /\ Said + 1 \in Number
    BY <1>1, <1>t DEF Newest, Number
  <2>2. Newest(1, FALSE) \in Entry
    BY <2>1 DEF Newest, Entry
  <2> QED  BY <2>1, <2>2
<1>3. PICK d, k : d = chat' /\ Goes(chat, e, d, k, FALSE)
  <2>1. Len(chat.window) <= Window
    BY <1>0 DEF Placed
  <2>2. \E k : Goes(chat, e, Shove(chat, e), k, FALSE)
    BY <1>t, <2>1, ShoveGoes
  <2>3. PICK d : d = Shove(chat, e)
    OBVIOUS
  <2>4. d = chat' /\ \E k : Goes(chat, e, d, k, FALSE)
    BY <1>1, <1>2, <2>2, <2>3
  <2> QED  BY <2>4
<1>4. /\ d \in Chats /\ Placed(d, Said + 1)
      /\ Ordered(chat) => Ordered(d)
      /\ \A M \in SUBSET Int : Behind(M, chat) /\ (\A m \in M : m <= Said) => Behind(M, d)
      /\ \A g : Lasting(chat, Said, g) => Lasting(d, Said + 1, g)
      /\ \A S : Veiled(chat, S) /\ (e.n \in S => e.hidden) => Veiled(d, S)
      /\ Has(d, Said + 1)
      /\ \A n : Has(chat, n) => Has(d, n) \/ (k = 1 /\ ~FALSE /\ n = chat.window[1].n)
  <2>1. PICK f \in BOOLEAN : f = FALSE
    OBVIOUS
  <2>2. Goes(chat, e, d, k, f)
    BY <1>3, <2>1
  <2>3. PICK s \in Nat : s = Said
    BY <1>t
  <2>4. Placed(chat, s) /\ e.n = s + 1
    BY <1>0, <1>2, <2>3
  <2>5. /\ d \in Chats /\ Placed(d, s + 1)
        /\ Ordered(chat) => Ordered(d)
        /\ \A M \in SUBSET Int : Behind(M, chat) /\ (\A m \in M : m <= s) => Behind(M, d)
        /\ \A g : Lasting(chat, s, g) => Lasting(d, s + 1, g)
        /\ \A S : Veiled(chat, S) /\ (e.n \in S => e.hidden) => Veiled(d, S)
        /\ Has(d, s + 1)
        /\ \A n : Has(chat, n) => Has(d, n) \/ (k = 1 /\ ~f /\ n = chat.window[1].n)
    BY <1>t, <2>2, <2>4, GoesOn
  <2> QED  BY <2>1, <2>3, <2>5
<1>5. Follows(chat, Said, d, Said + 1)
  BY <1>4 DEF Follows
<1>6. /\ log' \in Seq(BOOLEAN) /\ Len(log') = Said + 1
      /\ \A n \in 1 .. Said : log'[n] = log[n]
      /\ log'[Said + 1] = FALSE
  BY <1>1, <1>t, AppendProperties
<1>7. Shoved(1) \subseteq Number
  <2>1. chat.window \in Seq(Entry)
    BY <1>t DEF Chats
  <2>2. \A i \in 1 .. Len(chat.window) : chat.window[i].n \in Number
    BY <2>1, SeqFacts
  <2>3. Len(chat.window) <= Window /\ Len(chat.window) \in Nat
    BY <1>0, <2>1, SeqFacts DEF Placed
  <2>4. \A i \in 1 .. Len(chat.window) + 1 - Window : i \in 1 .. Len(chat.window)
    BY <1>t, <2>3, SessionAssumption
  <2> QED  BY <2>2, <2>4 DEF Shoved
<1>8. ASSUME k = 1 PROVE chat.window[1].n \in Shoved(1)
  <2>1. Len(chat.window) = Window
    BY <1>3, <1>8 DEF Goes
  <2>2. Len(chat.window) + 1 > Window /\ 1 \in 1 .. Len(chat.window) + 1 - Window
    BY <1>t, <2>1
  <2> QED  BY <2>2 DEF Shoved
<1>9. partial \/ (Veiled(d, secret') /\ Veiled(redis, secret'))
  <2>1. Said + 1 \notin secret
    BY <1>0, <1>t DEF Secretive
  <2>2. secret' = secret /\ e.n \notin secret
    BY <1>1, <1>2, <2>1
  <2>3. partial \/ Veiled(chat, secret)
    BY <1>0 DEF Secretive
  <2>4. partial \/ Veiled(d, secret)
    BY <1>4, <2>2, <2>3
  <2> QED  BY <1>0, <2>2, <2>4 DEF Secretive
<1>10. Placed(redis, Said + 1)
  BY <1>0, <1>t, PlacedLater
<1>11. gone \subseteq gone' /\ gone' \subseteq Number
  BY <1>0, <1>1, <1>7 DEF SessionTypeOK
<1>12. \A n : Has(chat, n) => Has(d, n) \/ n \in gone'
  BY <1>1, <1>4, <1>8
<1>13. \A n \in Said + 1 .. Said + 1 : (Has(d, n) \/ n \in gone') /\ log'[n] = FALSE
  BY <1>4, <1>6, <1>t
<1>14. Said + 1 <= MaxEntries
  BY <1>1, <1>t
<1>15. talk' \in {"none", "plain", "secret"} /\ rolls' \in BOOLEAN
  BY <1>0, <1>1 DEF SessionTypeOK
<1> QED  BY <1>1, <1>3, <1>4, <1>5, <1>6, <1>9, <1>10, <1>11, <1>12, <1>13, <1>14, <1>15, <1>t,
            SaysMore
\* What a switch of private mode pushes out.
LEMMA SwitchesKeeps == MemoryIInv /\ Switches => MemoryIInv'
<1> SUFFICES ASSUME MemoryIInv, Switches PROVE MemoryIInv'
  OBVIOUS
<1>0. SessionTypeOK /\ Placed(chat, Said) /\ Placed(redis, Said) /\ Chunked /\ Kept /\ Secretive
  BY DEF MemoryIInv
<1>t. /\ chat \in Chats /\ redis \in Chats /\ Said \in Nat /\ Said = Len(log) /\ log \in Seq(BOOLEAN)
      /\ Window \in Nat /\ 2 <= Window /\ MaxEntries \in Nat
  BY <1>0, MemoryTypes
<1>1. /\ alive /\ Said + 2 <= MaxEntries
      /\ chat' = Shove(Shove(chat, Newest(1, FALSE)), Newest(2, FALSE))
      /\ log' = log \o <<FALSE, FALSE>> /\ gone' = gone \cup Shoved(2)
      /\ redis' = redis /\ cold' = cold /\ chunk' = chunk /\ rolls' = rolls /\ talk' = talk
      /\ alive' = alive /\ summed' = summed /\ secret' = secret /\ partial' = partial
      /\ revived' = revived
  BY DEF Switches
<1>2. PICK e \in Entry, f \in Entry : /\ e = Newest(1, FALSE) /\ e.n = Said + 1
                                      /\ f = Newest(2, FALSE) /\ f.n = Said + 2
  BY <1>1, <1>t, NewestFacts
<1>3. PICK d, b, k, j : /\ d = chat' /\ Goes(chat, e, b, k, FALSE) /\ Goes(b, f, d, j, FALSE)
  <2>1. Len(chat.window) <= Window
    BY <1>0 DEF Placed
  <2>2. PICK b, k : b = Shove(chat, e) /\ Goes(chat, e, b, k, FALSE)
    BY <1>t, <2>1, ShoveGoes
  <2>3. b \in Chats /\ Len(b.window) <= Window
    BY <1>t, <2>1, <2>2, GoesShort
  <2>4. PICK d, j : d = Shove(b, f) /\ Goes(b, f, d, j, FALSE)
    BY <2>3, ShoveGoes
  <2>5. d = chat'
    BY <1>1, <1>2, <2>2, <2>4
  <2> QED  BY <2>2, <2>4, <2>5
<1>4. /\ Follows(chat, Said, d, Said + 2)
      /\ \A S : Veiled(chat, S) /\ (e.n \in S => e.hidden) /\ (f.n \in S => f.hidden)
                   => Veiled(d, S)
      /\ Has(d, Said + 1) /\ Has(d, Said + 2)
      /\ \A n : Has(chat, n) =>
            \/ Has(d, n)
            \/ \E i \in 1 .. Len(chat.window) + 2 - Window : n = chat.window[i].n
  <2>1. PICK filing \in BOOLEAN, s \in Nat : filing = FALSE /\ s = Said
    BY <1>t
  <2>2. Goes(chat, e, b, k, filing) /\ Goes(b, f, d, j, filing) /\ Placed(chat, s)
        /\ e.n = s + 1 /\ f.n = s + 2
    BY <1>0, <1>2, <1>3, <2>1
  <2>3. /\ Follows(chat, s, d, s + 2)
        /\ \A S : Veiled(chat, S) /\ (e.n \in S => e.hidden) /\ (f.n \in S => f.hidden)
                     => Veiled(d, S)
        /\ Has(d, s + 1) /\ Has(d, s + 2)
        /\ \A n : Has(chat, n) =>
              \/ Has(d, n)
              \/ ~filing /\ \E i \in 1 .. Len(chat.window) + 2 - Window : n = chat.window[i].n
    BY <1>t, <2>2, GoesTwice
  <2> QED  BY <2>1, <2>3
<1>5. d \in Chats
  BY <1>4 DEF Follows
<1>6. /\ log' \in Seq(BOOLEAN) /\ Len(log') = Said + 2
      /\ \A n \in 1 .. Said : log'[n] = log[n]
      /\ \A n \in Said + 1 .. Said + 2 : log'[n] = FALSE
  BY <1>1, <1>t, TwoMore
<1>7. /\ Shoved(2) \subseteq Number
      /\ \A i \in 1 .. Len(chat.window) + 2 - Window : chat.window[i].n \in Shoved(2)
  <2>1. chat.window \in Seq(Entry)
    BY <1>t DEF Chats
  <2>2. \A i \in 1 .. Len(chat.window) : chat.window[i].n \in Number
    BY <2>1, SeqFacts
  <2>3. Len(chat.window) <= Window /\ Len(chat.window) \in Nat
    BY <1>0, <2>1, SeqFacts DEF Placed
  <2>4. \A i \in 1 .. Len(chat.window) + 2 - Window :
           i \in 1 .. Len(chat.window) /\ Len(chat.window) + 2 > Window
    <3>1. CASE Len(chat.window) + 2 - Window <= Len(chat.window)
      BY <1>t, <2>3, <3>1
    <3>2. CASE ~(Len(chat.window) + 2 - Window <= Len(chat.window))
      BY <1>t, <2>3, <3>2
    <3> QED  BY <3>1, <3>2
  <2> QED  BY <2>2, <2>4 DEF Shoved
<1>9. partial \/ (Veiled(d, secret') /\ Veiled(redis, secret'))
  <2>1. Said + 1 \notin secret /\ Said + 2 \notin secret
    BY <1>0, <1>t DEF Secretive
  <2>2. secret' = secret /\ e.n \notin secret /\ f.n \notin secret
    BY <1>1, <1>2, <2>1
  <2>3. partial \/ Veiled(chat, secret)
    BY <1>0 DEF Secretive
  <2>4. partial \/ Veiled(d, secret)
    BY <1>4, <2>2, <2>3
  <2> QED  BY <1>0, <2>2, <2>4 DEF Secretive
<1>10. Placed(redis, Said + 2)
  BY <1>0, <1>t, PlacedLater
<1>11. gone \subseteq gone' /\ gone' \subseteq Number
  BY <1>0, <1>1, <1>7 DEF SessionTypeOK
<1>12. \A n : Has(chat, n) => Has(d, n) \/ n \in gone'
  BY <1>1, <1>4, <1>7
<1>13. \A n \in Said + 1 .. Said + 2 : Has(d, n) \/ n \in gone'
  <2>1. \A n \in Said + 1 .. Said + 2 : n = Said + 1 \/ n = Said + 2
    BY <1>t
  <2> QED  BY <1>4, <2>1
<1>15. talk' \in {"none", "plain", "secret"} /\ rolls' \in BOOLEAN
  BY <1>0, <1>1 DEF SessionTypeOK
<1> QED  BY <1>1, <1>3, <1>4, <1>5, <1>6, <1>9, <1>10, <1>11, <1>12, <1>13, <1>15, <1>t, SaysMore
-----------------------------------------------------------------------------
(***************************************************************************)
(* Session: an exchange, and Redis failing in it.                          *)
(***************************************************************************)
LEMMA SpiltFacts ==
    ASSUME NEW c \in Chats, NEW s \in Nat, Placed(c, s)
    PROVE  /\ Spilt(c) \in Chats /\ Placed(Spilt(c), s + 1)
           /\ \A n : Has(Spilt(c), n) <=> Has(c, n)
           /\ \A S : Veiled(c, S) => Veiled(Spilt(c), S)
<1>t. /\ c.window \in Seq(Entry) /\ c.backlog \in Seq(Entry) /\ Window \in Nat /\ 2 <= Window
  BY SessionAssumption DEF Chats
<1>l. /\ Len(c.window) \in Nat /\ Len(c.backlog) \in Nat
      /\ \A i \in 1 .. Len(c.window) : c.window[i].n \in Nat /\ c.window[i] \in Entry
      /\ \A i \in 1 .. Len(c.backlog) : c.backlog[i].n \in Nat
  BY <1>t, SeqFacts
<1>p. Placed(c, s + 1)
  BY PlacedLater
<1>1. CASE Len(c.window) # Window
  <2>1. Spilt(c) = c
    BY <1>1 DEF Spilt
  <2> QED  BY <1>p, <2>1
<1>2. CASE Len(c.window) = Window
  <2>1. 1 \in 1 .. Len(c.window) /\ c.window[1] \in Entry /\ c.window[1].n \in Nat
    BY <1>2, <1>l, <1>t
  <2>2. PICK b \in Seq(Entry) : /\ b = Append(c.backlog, c.window[1]) /\ Len(b) = Len(c.backlog) + 1
                                /\ \A i \in 1 .. Len(c.backlog) : b[i] = c.backlog[i]
                                /\ b[Len(b)] = c.window[1]
    <3>1. /\ Append(c.backlog, c.window[1]) \in Seq(Entry)
          /\ Len(Append(c.backlog, c.window[1])) = Len(c.backlog) + 1
          /\ \A i \in 1 .. Len(c.backlog) : Append(c.backlog, c.window[1])[i] = c.backlog[i]
          /\ Append(c.backlog, c.window[1])[Len(c.backlog) + 1] = c.window[1]
      BY <1>t, <2>1, AppendProperties
    <3> QED  BY <3>1
  <2>3. Spilt(c) = [c EXCEPT !.backlog = b]
    BY <1>2, <2>2 DEF Spilt
  <2>4. PICK d \in Chats : d = Spilt(c) /\ d.window = c.window /\ d.backlog = b
    BY <2>3 DEF Chats
  <2>5. \A i \in 1 .. Len(b) : \/ i \in 1 .. Len(c.backlog) /\ b[i] = c.backlog[i]
                               \/ b[i] = c.window[1]
    BY <1>l, <2>2
  <2>6. Placed(d, s + 1)
    <3>1. c.window[1].n + Window <= s + 1
      <4>1. c.window[1].n + Len(c.window) - 1 <= s
        BY <2>1 DEF Placed
      <4> QED  BY <1>2, <1>t, <2>1, <4>1
    <3>2. \A i \in 1 .. Len(b) : b[i].n + Window <= s + 1
      BY <1>p, <2>5, <3>1 DEF Placed
    <3> QED  BY <1>p, <2>4, <3>2 DEF Placed
  <2>7. ASSUME NEW n PROVE Has(d, n) <=> Has(c, n)
    <3>1. ASSUME Has(d, n) PROVE Has(c, n)
      <4>1. CASE \E i \in 1 .. Len(c.window) : c.window[i].n = n
        BY <4>1 DEF Has
      <4>2. CASE \E i \in 1 .. Len(b) : b[i].n = n
        BY <2>1, <2>5, <4>2 DEF Has
      <4> QED  BY <2>4, <3>1, <4>1, <4>2 DEF Has
    <3>2. ASSUME NEW i \in 1 .. Len(c.backlog), c.backlog[i].n = n PROVE Has(d, n)
      <4>1. i \in 1 .. Len(b) /\ b[i] = c.backlog[i]
        BY <1>l, <2>2
      <4> QED  BY <2>4, <3>2, <4>1 DEF Has
    <3>3. ASSUME NEW i \in 1 .. Len(c.window), c.window[i].n = n PROVE Has(d, n)
      BY <2>4, <3>3 DEF Has
    <3> QED  BY <3>1, <3>2, <3>3 DEF Has
  <2>8. ASSUME NEW S, Veiled(c, S) PROVE Veiled(d, S)
    BY <2>1, <2>4, <2>5, <2>8 DEF Veiled, Veils
  <2> QED  BY <2>4, <2>6, <2>7, <2>8
<1> QED  BY <1>1, <1>2

\* The process has the entries es and, perhaps, what fell off the chat c last.
Left(c, es, m) ==
    \/ m = [window |-> es, backlog |-> <<>>]
    \/ Len(c.window) = Window /\ m = [window |-> es, backlog |-> <<c.window[1]>>]

\* What follows a chat c of which the window w and, perhaps, the entry that
\* fell off c last are left.
LEMMA CutFollows ==
    ASSUME NEW c \in Chats, NEW s \in Nat, Placed(c, s), NEW es \in Seq(Entry), NEW x \in Nat,
           Len(es) = x, 1 <= x, x <= Window,
           \A i \in 1 .. x : es[i].n = s + i,
           NEW m, Left(c, es, m)
    PROVE  /\ Follows(c, s, m, s + x)
           /\ \A S : Veiled(c, S) /\ Veils(es, S) => Veiled(m, S)
           /\ Has(m, s + x)
<1>t. /\ c.window \in Seq(Entry) /\ c.backlog \in Seq(Entry) /\ Window \in Nat /\ 2 <= Window
  BY SessionAssumption DEF Chats
<1>l. /\ Len(c.window) \in Nat
      /\ \A i \in 1 .. Len(c.window) : c.window[i].n \in Nat /\ c.window[i] \in Entry
  BY <1>t, SeqFacts
<1>1. PICK b \in Seq(Entry) : /\ m = [window |-> es, backlog |-> b] /\ Len(b) \in {0, 1}
                              /\ Len(b) = 1 => Len(c.window) = Window /\ b[1] = c.window[1]
  <2>1. CASE m = [window |-> es, backlog |-> <<>>]
    <3>1. PICK b \in Seq(Entry) : b = <<>> /\ Len(b) = 0
      BY EmptySeq
    <3>2. Len(b) \in {0, 1} /\ ~(Len(b) = 1)
      BY <3>1
    <3> QED  BY <2>1, <3>1, <3>2
  <2>2. CASE Len(c.window) = Window /\ m = [window |-> es, backlog |-> <<c.window[1]>>]
    <3>1. c.window[1] \in Entry
      BY <1>l, <1>t, <2>2
    <3>2. <<c.window[1]>> \in Seq(Entry) /\ Len(<<c.window[1]>>) = 1
          /\ <<c.window[1]>>[1] = c.window[1]
      BY <3>1
    <3> QED  BY <2>2, <3>2
  <2> QED  BY <2>1, <2>2 DEF Left
<1>2. m \in Chats /\ m.window = es /\ m.backlog = b
  BY <1>1 DEF Chats
\* Before the window stands at most what fell off the old one.
<1>3. \A i \in 1 .. Len(b) : /\ i = 1 /\ Len(c.window) = Window /\ b[i] = c.window[1]
                             /\ 1 \in 1 .. Len(c.window) /\ b[i].n \in Nat
                             /\ b[i].n + Window <= s + 1 /\ b[i].n <= s
  <2>1. ASSUME Len(b) = 1
        PROVE  /\ Len(c.window) = Window /\ b[1] = c.window[1] /\ 1 \in 1 .. Len(c.window)
               /\ b[1].n \in Nat /\ b[1].n + Window <= s + 1 /\ b[1].n <= s
    <3>1. Len(c.window) = Window /\ b[1] = c.window[1] /\ 1 \in 1 .. Len(c.window)
      BY <1>1, <1>t, <2>1
    <3>2. c.window[1].n + Len(c.window) - 1 <= s /\ c.window[1].n \in Nat
      BY <1>l, <3>1 DEF Placed
    <3> QED  BY <1>t, <3>1, <3>2
  <2>2. \A i \in 1 .. Len(b) : i = 1 /\ Len(b) = 1
    <3>1. CASE Len(b) = 0
      BY <3>1
    <3>2. CASE Len(b) = 1
      BY <3>2
    <3> QED  BY <1>1, <3>1, <3>2
  <2> QED  BY <2>1, <2>2
<1>4. \A i \in 1 .. x : es[i].n = s + i /\ es[i].n \in Nat /\ es[i].n > s
  OBVIOUS
<1>5. Placed(m, s + x)
  <2>1. \A i \in 1 .. x : es[i].n + x - i <= s + x
    BY <1>4
  <2>2. \A i \in 1 .. Len(b) : b[i].n + Window <= s + x
    BY <1>3, <1>t
  <2> QED  BY <1>2, <2>1, <2>2 DEF Placed
<1>6. Ordered(m)
  <2>1. Climbs(es)
    BY <1>4 DEF Climbs
  <2>2. Climbs(b)
    BY <1>3 DEF Climbs
  <2>3. \A i \in 1 .. Len(b), j \in 1 .. x : b[i].n < es[j].n
    BY <1>3, <1>4
  <2> QED  BY <1>2, <2>1, <2>2, <2>3 DEF Ordered
<1>7. ASSUME NEW M \in SUBSET Int, Behind(M, c), \A k \in M : k <= s PROVE Behind(M, m)
  <2>1. \A k \in M, i \in 1 .. Len(b) : k < b[i].n
    BY <1>3, <1>7 DEF Behind
  <2>2. ASSUME NEW k \in M, NEW i \in 1 .. x PROVE k < es[i].n
    BY <1>4, <1>7
  <2> QED  BY <1>2, <2>1, <2>2 DEF Behind
<1>8. ASSUME NEW g PROVE Lasting(m, s + x, g)
  <2>1. \A i \in 1 .. x : es[i].n = (s + x) - x + i
    BY <1>4
  <2> QED  BY <1>2, <2>1 DEF Lasting
<1>9. ASSUME NEW S, Veiled(c, S), Veils(es, S) PROVE Veiled(m, S)
  BY <1>2, <1>3, <1>9 DEF Veiled, Veils
<1>10. Has(m, s + x)
  BY <1>2, <1>4 DEF Has
<1> QED  BY <1>2, <1>5, <1>6, <1>7, <1>8, <1>9, <1>10 DEF Follows
LEMMA FollowsTwice ==
    ASSUME NEW c, NEW s \in Nat, NEW b, NEW d, Follows(c, s, b, s + 1), Follows(b, s + 1, d, s + 2)
    PROVE  d \in Chats /\ Follows(c, s, d, s + 2)
<1>1. ASSUME NEW M \in SUBSET Int, Behind(M, c), \A m \in M : m <= s PROVE Behind(M, d)
  <2>1. \A m \in M : m <= s + 1
    BY <1>1
  <2>2. Behind(M, b)
    BY <1>1 DEF Follows
  <2> QED  BY <2>1, <2>2 DEF Follows
<1>2. d \in Chats /\ Placed(d, s + 2) /\ (Ordered(c) => Ordered(d))
  BY DEF Follows
<1>3. ASSUME NEW g, Lasting(c, s, g) PROVE Lasting(d, s + 2, g)
  BY <1>3 DEF Follows
<1> QED  BY <1>1, <1>2, <1>3 DEF Follows

\* A turn or a photo's exchange is recorded, in Redis or in memory or in both.
LEMMA RecordedKeeps ==
    ASSUME MemoryIInv, NEW hid \in BOOLEAN, alive, Recorded(hid), alive' = alive,
           chunk' = chunk, rolls' \in BOOLEAN, talk' \in {"none", "plain", "secret"},
           summed' = summed, partial' = partial, revived' = revived
    PROVE  MemoryIInv'
<1>0. SessionTypeOK /\ Placed(chat, Said) /\ Placed(redis, Said) /\ Chunked /\ Kept /\ Secretive
  BY DEF MemoryIInv
<1>t. /\ chat \in Chats /\ redis \in Chats /\ Said \in Nat /\ Said = Len(log) /\ log \in Seq(BOOLEAN)
      /\ Window \in Nat /\ 2 <= Window /\ MaxEntries \in Nat
  BY <1>0, MemoryTypes
<1>1. /\ Said + 2 <= MaxEntries /\ Remembered(hid)
      /\ log' = log \o <<hid, hid>>
      /\ secret' = IF hid THEN secret \cup {Said + 1, Said + 2} ELSE secret
  BY DEF Recorded
<1>2. PICK e \in Entry, f \in Entry : /\ e = Newest(1, hid) /\ e.n = Said + 1 /\ e.hidden = hid
                                      /\ f = Newest(2, hid) /\ f.n = Said + 2 /\ f.hidden = hid
  BY <1>1, <1>t, NewestFacts
<1>3. PICK b, k : b = Push(chat, e) /\ Goes(chat, e, b, k, TRUE)
  <2>1. Len(chat.window) <= Window
    BY <1>0 DEF Placed
  <2> QED  BY <1>t, <2>1, PushGoes
<1>4. /\ b \in Chats /\ Placed(b, Said + 1) /\ Follows(chat, Said, b, Said + 1)
      /\ \A S : Veiled(chat, S) /\ (e.n \in S => e.hidden) => Veiled(b, S)
      /\ Has(b, Said + 1)
      /\ \A n : Has(chat, n) => Has(b, n)
  <2>1. PICK filing \in BOOLEAN, s \in Nat : filing = TRUE /\ s = Said
    BY <1>t
  <2>2. Goes(chat, e, b, k, filing) /\ Placed(chat, s) /\ e.n = s + 1
    BY <1>0, <1>2, <1>3, <2>1
  <2>3. /\ b \in Chats /\ Placed(b, s + 1)
        /\ Ordered(chat) => Ordered(b)
        /\ \A M \in SUBSET Int : Behind(M, chat) /\ (\A m \in M : m <= s) => Behind(M, b)
        /\ \A g : Lasting(chat, s, g) => Lasting(b, s + 1, g)
        /\ \A S : Veiled(chat, S) /\ (e.n \in S => e.hidden) => Veiled(b, S)
        /\ Has(b, s + 1)
        /\ \A n : Has(chat, n) => Has(b, n) \/ (k = 1 /\ ~filing /\ n = chat.window[1].n)
    BY <1>t, <2>2, GoesOn
  <2>4. Follows(chat, s, b, s + 1)
    BY <2>3 DEF Follows
  <2> QED  BY <2>1, <2>3, <2>4
<1>5. PICK d, j : d = Push(b, f) /\ Goes(b, f, d, j, TRUE)
  <2>1. Len(b.window) <= Window
    BY <1>4 DEF Placed
  <2> QED  BY <1>4, <2>1, PushGoes
<1>6. /\ Follows(chat, Said, d, Said + 2)
      /\ \A S : Veiled(chat, S) /\ (e.n \in S => e.hidden) /\ (f.n \in S => f.hidden)
                   => Veiled(d, S)
      /\ Has(d, Said + 1) /\ Has(d, Said + 2)
      /\ \A n : Has(chat, n) => Has(d, n)
  <2>1. PICK filing \in BOOLEAN, s \in Nat : filing = TRUE /\ s = Said
    BY <1>t
  <2>2. Goes(chat, e, b, k, filing) /\ Goes(b, f, d, j, filing) /\ Placed(chat, s)
        /\ e.n = s + 1 /\ f.n = s + 2
    BY <1>0, <1>2, <1>3, <1>5, <2>1
  <2>3. /\ Follows(chat, s, d, s + 2)
        /\ \A S : Veiled(chat, S) /\ (e.n \in S => e.hidden) /\ (f.n \in S => f.hidden)
                     => Veiled(d, S)
        /\ Has(d, s + 1) /\ Has(d, s + 2)
        /\ \A n : Has(chat, n) =>
              \/ Has(d, n)
              \/ ~filing /\ \E i \in 1 .. Len(chat.window) + 2 - Window : n = chat.window[i].n
    BY <1>t, <2>2, GoesTwice
  <2> QED  BY <2>1, <2>3
<1>7. /\ log' \in Seq(BOOLEAN) /\ Len(log') = Said + 2
      /\ \A n \in 1 .. Said : log'[n] = log[n]
      /\ \A n \in Said + 1 .. Said + 2 : log'[n] = hid
  BY <1>1, <1>t, TwoMore
<1>8. /\ secret' = IF hid THEN secret \cup (Said + 1 .. Said + 2) ELSE secret
      /\ Said + 1 \in secret' => hid
      /\ Said + 2 \in secret' => hid
  <2>1. Said + 1 .. Said + 2 = {Said + 1, Said + 2}
    BY <1>t
  <2>2. Said + 1 \notin secret /\ Said + 2 \notin secret
    BY <1>0, <1>t DEF Secretive
  <2> QED  BY <1>1, <2>1, <2>2
\* What was said before is as secret as it was.
<1>9. partial \/ (Veiled(chat, secret') /\ Veiled(redis, secret'))
  <2>1. ASSUME ~partial PROVE Veiled(chat, secret') /\ Veiled(redis, secret')
    <3>1. Veiled(chat, secret) /\ Veiled(redis, secret)
      BY <1>0, <2>1 DEF Secretive
    <3>2. PICK T : T = IF hid THEN Said + 1 .. Said + 2 ELSE {}
      OBVIOUS
    <3>3. /\ \A n \in T : n > Said
          /\ secret' = secret \cup T
      BY <1>8, <1>t, <3>2
    <3>4. PICK S : S = secret \cup T
      OBVIOUS
    <3>5. Veiled(chat, S) /\ Veiled(redis, S)
      BY <1>0, <1>t, <3>1, <3>3, <3>4, VeiledMore
    <3> QED  BY <3>3, <3>4, <3>5
  <2> QED  BY <2>1
<1>10. Placed(redis, Said + 2) /\ Placed(chat, Said + 2) /\ Placed(b, Said + 2)
  <2>1. Placed(b, (Said + 1) + 1)
    BY <1>4, <1>t, PlacedLater
  <2> QED  BY <1>0, <1>t, <2>1, PlacedLater
<1>11. CASE chat' = d /\ UNCHANGED <<redis, cold, gone>>
  <2>1. partial \/ (Veiled(d, secret') /\ Veiled(redis, secret'))
    BY <1>2, <1>6, <1>8, <1>9
  <2>2. d \in Chats /\ gone \subseteq gone' /\ gone' \subseteq Number
    BY <1>0, <1>6, <1>11 DEF SessionTypeOK, Follows
  <2>3. \A n : Has(chat, n) => Has(d, n) \/ n \in gone'
    BY <1>6
  <2>4. \A n \in Said + 1 .. Said + 2 : Has(d, n) \/ n \in gone'
    <3>1. \A n \in Said + 1 .. Said + 2 : n = Said + 1 \/ n = Said + 2
      BY <1>t
    <3> QED  BY <1>6, <3>1
  <2> QED  BY <1>1, <1>6, <1>7, <1>8, <1>10, <1>11, <1>t, <2>1, <2>2, <2>3, <2>4, SaysMore
<1>12. ASSUME ~cold, cold' = TRUE, gone' = gone \cup Held(b),
              NEW cut \in Cuts(chat, <<e, f>>) \cup Cuts(b, <<f>>),
              redis' = cut[1], chat' = cut[2]
       PROVE  MemoryIInv'
  <2>h. /\ \A n : n \in Held(b) <=> Has(b, n)
        /\ Held(b) \subseteq Number
    BY <1>4, HeldFacts, HeldInNumber
  <2>1. PICK r \in Chats, m \in Chats :
           /\ r = redis' /\ m = chat'
           /\ Placed(r, Said + 2) /\ (\A n : Has(r, n) => Has(b, n))
           /\ partial \/ (Veiled(m, secret') /\ Veiled(r, secret'))
           /\ Follows(chat, Said, m, Said + 2) /\ Has(m, Said + 2)
    <3>1. CASE cut \in Cuts(chat, <<e, f>>)
      <4>1. PICK es \in Seq(Entry) : es = <<e, f>> /\ Len(es) = 2 /\ es[1] = e /\ es[2] = f
        <5>1. /\ <<e, f>> \in Seq(Entry) /\ Len(<<e, f>>) = 2
              /\ <<e, f>>[1] = e /\ <<e, f>>[2] = f
          OBVIOUS
        <5> QED  BY <5>1
      <4>2. PICK m : m = cut[2] /\ Left(chat, es, m)
        BY <3>1, <4>1 DEF Cuts, Left
      <4>3. /\ Follows(chat, Said, m, Said + 2)
            /\ \A S : Veiled(chat, S) /\ Veils(es, S) => Veiled(m, S)
            /\ Has(m, Said + 2)
        <5>1. \A i \in 1 .. 2 : es[i].n = Said + i
          <6>1. \A i \in 1 .. 2 : i = 1 \/ i = 2
            OBVIOUS
          <6> QED  BY <1>2, <4>1, <6>1
        <5>2. PICK x \in Nat : x = 2
          OBVIOUS
        <5>3. /\ Follows(chat, Said, m, Said + x)
              /\ \A S : Veiled(chat, S) /\ Veils(es, S) => Veiled(m, S)
              /\ Has(m, Said + x)
          <6>1. PICK s \in Nat : s = Said
            BY <1>t
          <6>2. Len(es) = x /\ 1 <= x /\ x <= Window /\ \A i \in 1 .. x : es[i].n = s + i
            BY <1>t, <4>1, <5>1, <5>2, <6>1
          <6>3. /\ Follows(chat, s, m, s + x)
                /\ \A S : Veiled(chat, S) /\ Veils(es, S) => Veiled(m, S)
                /\ Has(m, s + x)
            <7>1. Placed(chat, s) /\ chat \in Chats
              BY <1>0, <1>t, <6>1
            <7> QED  BY <4>2, <6>2, <7>1, CutFollows
          <6> QED  BY <6>1, <6>3
        <5> QED  BY <5>2, <5>3
      <4>4. Veils(es, secret')
        <5>1. \A i \in 1 .. 2 : i = 1 \/ i = 2
          OBVIOUS
        <5> QED  BY <1>2, <1>8, <4>1, <5>1 DEF Veils
      <4>5. PICK r \in Chats : r = cut[1] /\ (r = chat \/ r = Spilt(chat))
        <5>1. Spilt(chat) \in Chats
          BY <1>0, <1>t, SpiltFacts
        <5> QED  BY <1>t, <3>1, <5>1 DEF Cuts
      <4>6. Placed(r, Said + 2) /\ (\A n : Has(r, n) => Has(b, n))
            /\ \A S : Veiled(chat, S) => Veiled(r, S)
        <5>1. /\ Spilt(chat) \in Chats /\ Placed(Spilt(chat), Said + 1)
              /\ \A n : Has(Spilt(chat), n) <=> Has(chat, n)
              /\ \A S : Veiled(chat, S) => Veiled(Spilt(chat), S)
          BY <1>0, <1>t, SpiltFacts
        <5>2. Placed(Spilt(chat), (Said + 1) + 1)
          <6>1. PICK p \in Chats, t \in Nat : p = Spilt(chat) /\ t = Said + 1 /\ Placed(p, t)
            BY <1>t, <5>1
          <6>2. Placed(p, t + 1)
            BY <6>1, PlacedLater
          <6> QED  BY <6>1, <6>2
        <5> QED  BY <1>4, <1>10, <1>t, <4>5, <5>1, <5>2
      <4>7. m \in Chats
        BY <4>3 DEF Follows
      <4> QED  BY <1>9, <1>12, <4>2, <4>3, <4>4, <4>5, <4>6, <4>7
    <3>2. CASE cut \in Cuts(b, <<f>>)
      <4>1. PICK es \in Seq(Entry) : es = <<f>> /\ Len(es) = 1 /\ es[1] = f
        OBVIOUS
      <4>2. PICK m : m = cut[2] /\ Left(b, es, m)
        BY <3>2, <4>1 DEF Cuts, Left
      <4>3. /\ Follows(b, Said + 1, m, Said + 2)
            /\ \A S : Veiled(b, S) /\ Veils(es, S) => Veiled(m, S)
            /\ Has(m, Said + 2)
        <5>1. PICK t \in Nat : t = Said + 1 /\ t + 1 = Said + 2
          BY <1>t
        <5>2. \A i \in 1 .. 1 : es[i].n = t + i
          <6>1. \A i \in 1 .. 1 : i = 1
            OBVIOUS
          <6> QED  BY <1>2, <4>1, <5>1, <6>1
        <5>3. PICK x \in Nat : x = 1
          OBVIOUS
        <5>4. Placed(b, t)
          BY <1>4, <5>1
        <5>5. /\ Follows(b, t, m, t + x)
              /\ \A S : Veiled(b, S) /\ Veils(es, S) => Veiled(m, S)
              /\ Has(m, t + x)
          <6>1. Len(es) = x /\ 1 <= x /\ x <= Window /\ \A i \in 1 .. x : es[i].n = t + i
            BY <1>t, <4>1, <5>2, <5>3
          <6> QED  BY <1>4, <4>2, <5>4, <6>1, CutFollows
        <5> QED  BY <5>1, <5>3, <5>5
      <4>4. Veils(es, secret')
        <5>1. \A i \in 1 .. 1 : i = 1
          OBVIOUS
        <5> QED  BY <1>2, <1>8, <4>1, <5>1 DEF Veils
      <4>5. PICK r \in Chats : r = cut[1] /\ (r = b \/ r = Spilt(b))
        <5>1. Spilt(b) \in Chats
          BY <1>4, <1>t, SpiltFacts
        <5> QED  BY <1>4, <3>2, <5>1 DEF Cuts
      <4>6. Placed(r, Said + 2) /\ (\A n : Has(r, n) => Has(b, n))
            /\ \A S : Veiled(b, S) => Veiled(r, S)
        <5>1. PICK t \in Nat : t = Said + 1 /\ t + 1 = Said + 2
          BY <1>t
        <5>2. /\ Spilt(b) \in Chats /\ Placed(Spilt(b), t + 1)
              /\ \A n : Has(Spilt(b), n) <=> Has(b, n)
              /\ \A S : Veiled(b, S) => Veiled(Spilt(b), S)
          BY <1>4, <5>1, SpiltFacts
        <5> QED  BY <1>10, <4>5, <5>1, <5>2
      <4>7. m \in Chats /\ Follows(chat, Said, m, Said + 2)
        BY <1>4, <1>t, <4>3, FollowsTwice
      <4>8. partial \/ Veiled(b, secret')
        BY <1>2, <1>4, <1>8, <1>9
      <4> QED  BY <1>12, <4>2, <4>3, <4>4, <4>5, <4>6, <4>7, <4>8
    <3> QED  BY <1>12, <3>1, <3>2
  <2>2. gone \subseteq gone' /\ gone' \subseteq Number /\ \A n : Has(b, n) => n \in gone'
    BY <1>0, <1>12, <2>h DEF SessionTypeOK
  <2>3. /\ \A n : Has(chat, n) => Has(m, n) \/ n \in gone'
        /\ \A n \in Said + 1 .. Said + 2 : Has(m, n) \/ n \in gone'
    <3>1. \A n \in Said + 1 .. Said + 2 : n = Said + 1 \/ n = Said + 2
      BY <1>t
    <3> QED  BY <1>4, <2>1, <2>2, <3>1
  <2>4. \/ r = redis /\ cold' = cold
        \/ ~cold /\ cold' = TRUE /\ \A n : Has(r, n) => n \in gone'
    BY <1>12, <2>1, <2>2
  <2> QED  BY <1>1, <1>7, <1>8, <1>t, <2>1, <2>2, <2>3, <2>4, SaysMore
<1> QED
  <2>1. CASE chat' = Push(Push(chat, Newest(1, hid)), Newest(2, hid)) /\ UNCHANGED <<redis, cold, gone>>
    BY <1>2, <1>3, <1>5, <1>11, <2>1
  <2>2. CASE /\ ~cold /\ cold' = TRUE
             /\ \E cut \in Cuts(chat, <<e, f>>) \cup Cuts(b, <<f>>) : redis' = cut[1] /\ chat' = cut[2]
             /\ gone' = gone \cup Held(b)
    BY <1>12, <2>2
  <2> QED  BY <1>1, <1>2, <1>3, <2>1, <2>2 DEF Remembered
-----------------------------------------------------------------------------
(***************************************************************************)
(* Session: what was said is to be filing secret.                            *)
(***************************************************************************)
\* The window with its last entries hidden.
LEMMA HiddenFacts ==
    ASSUME NEW s \in Seq(Entry), NEW k \in Nat
    PROVE  /\ Hidden(s, k) \in Seq(Entry) /\ Len(Hidden(s, k)) = Len(s)
           /\ \A i \in 1 .. Len(s) : /\ Hidden(s, k)[i].n = s[i].n
                                     /\ s[i].hidden => Hidden(s, k)[i].hidden
                                     /\ i > Len(s) - k => Hidden(s, k)[i].hidden
<1>1. /\ Len(s) \in Nat /\ DOMAIN s = 1 .. Len(s)
      /\ \A i \in 1 .. Len(s) : s[i] \in Entry
  BY SeqFacts
<1>2. Hidden(s, k) = [i \in 1 .. Len(s) |->
                        IF i > Len(s) - k THEN [s[i] EXCEPT !.hidden = TRUE] ELSE s[i]]
  BY <1>1 DEF Hidden
<1>3. \A e \in Entry : /\ [e EXCEPT !.hidden = TRUE] \in Entry
                       /\ [e EXCEPT !.hidden = TRUE].n = e.n
                       /\ [e EXCEPT !.hidden = TRUE].hidden = TRUE
  BY DEF Entry
<1>4. ASSUME NEW i \in 1 .. Len(s)
      PROVE  /\ Hidden(s, k)[i] = IF i > Len(s) - k THEN [s[i] EXCEPT !.hidden = TRUE] ELSE s[i]
             /\ Hidden(s, k)[i] \in Entry
             /\ Hidden(s, k)[i].n = s[i].n
             /\ s[i].hidden => Hidden(s, k)[i].hidden
             /\ i > Len(s) - k => Hidden(s, k)[i].hidden
  <2>1. Hidden(s, k)[i] = IF i > Len(s) - k THEN [s[i] EXCEPT !.hidden = TRUE] ELSE s[i]
    BY <1>2
  <2>2. s[i] \in Entry
    BY <1>1
  <2> QED  BY <1>3, <2>1, <2>2
<1>5. PICK n \in Nat : n = Len(s)
  BY <1>1
<1>6. Hidden(s, k) \in [1 .. n -> Entry]
  <2>1. DOMAIN Hidden(s, k) = 1 .. n /\ \A i \in 1 .. n : Hidden(s, k)[i] \in Entry
    BY <1>2, <1>4, <1>5
  <2> QED  BY <1>2, <1>5, <2>1
<1>7. Hidden(s, k) \in Seq(Entry) /\ Len(Hidden(s, k)) = n
  BY <1>6, SeqDef, LenProperties
<1> QED  BY <1>4, <1>5, <1>7

\* What follows from entries of the same numbers, a part of them, at the end
\* of the window or at its beginning.
PartOf(c, d, o) ==
    /\ o + Len(d.window) <= Len(c.window)
    /\ \A i \in 1 .. Len(d.window) : d.window[i].n = c.window[o + i].n
    /\ d.backlog = c.backlog \/ d.backlog = <<>>

LEMMA PartFollows ==
    ASSUME NEW c \in Chats, NEW s \in Nat, Placed(c, s), NEW d \in Chats,
           NEW o \in Nat, PartOf(c, d, o)
    PROVE  /\ Placed(d, s)
           /\ Ordered(c) => Ordered(d)
           /\ \A M : Behind(M, c) => Behind(M, d)
           /\ o + Len(d.window) = Len(c.window) => \A g : Lasting(c, s, g) => Lasting(d, s, g)
           /\ \A n : Has(d, n) => Has(c, n)
<1>t. /\ c.window \in Seq(Entry) /\ c.backlog \in Seq(Entry) /\ Window \in Nat
      /\ d.window \in Seq(Entry) /\ d.backlog \in Seq(Entry)
  BY SessionAssumption DEF Chats
<1>l. /\ Len(c.window) \in Nat /\ Len(d.window) \in Nat /\ Len(<<>>) = 0
      /\ \A i \in 1 .. Len(c.window) : c.window[i].n \in Nat
  BY <1>t, SeqFacts, EmptySeq
<1>p. /\ o + Len(d.window) <= Len(c.window)
      /\ \A i \in 1 .. Len(d.window) : d.window[i].n = c.window[o + i].n
      /\ d.backlog = c.backlog \/ d.backlog = <<>>
  BY DEF PartOf
<1>1. \A i \in 1 .. Len(d.window) : /\ o + i \in 1 .. Len(c.window)
                                     /\ d.window[i].n = c.window[o + i].n
  BY <1>l, <1>p
<1>2. \A i \in 1 .. Len(d.backlog) : i \in 1 .. Len(c.backlog) /\ d.backlog[i] = c.backlog[i]
  BY <1>l, <1>p
<1>3. Placed(d, s)
  <2>1. ASSUME NEW i \in 1 .. Len(d.window) PROVE d.window[i].n + Len(d.window) - i <= s
    <3>1. /\ c.window[o + i].n + Len(c.window) - (o + i) <= s /\ c.window[o + i].n \in Nat
          /\ d.window[i].n = c.window[o + i].n
      BY <1>1, <1>l DEF Placed
    <3> QED  BY <1>l, <1>p, <3>1, SMTT(30)
  <2>2. Len(d.window) <= Window
    BY <1>l, <1>p, <1>t DEF Placed
  <2> QED  BY <1>2, <2>1, <2>2 DEF Placed
<1>4. ASSUME Ordered(c) PROVE Ordered(d)
  <2>1. Climbs(d.window)
    <3>1. ASSUME NEW i \in 1 .. Len(d.window), NEW j \in 1 .. Len(d.window), i < j
          PROVE  d.window[i].n < d.window[j].n
      <4>1. o + i < o + j
        BY <3>1
      <4> QED  BY <1>1, <1>4, <4>1 DEF Ordered, Climbs
    <3> QED  BY <3>1 DEF Climbs
  <2>2. Climbs(d.backlog)
    BY <1>2, <1>4 DEF Ordered, Climbs
  <2>3. \A i \in 1 .. Len(d.backlog), j \in 1 .. Len(d.window) : d.backlog[i].n < d.window[j].n
    BY <1>1, <1>2, <1>4 DEF Ordered
  <2> QED  BY <2>1, <2>2, <2>3 DEF Ordered
<1>5. ASSUME NEW M, Behind(M, c) PROVE Behind(M, d)
  BY <1>1, <1>2, <1>5 DEF Behind
<1>6. ASSUME o + Len(d.window) = Len(c.window), NEW g, Lasting(c, s, g) PROVE Lasting(d, s, g)
  <2>1. ASSUME NEW i \in 1 .. Len(d.window)
        PROVE  d.window[i].n \in g \/ d.window[i].n = s - Len(d.window) + i
    <3>1. \/ c.window[o + i].n \in g
          \/ c.window[o + i].n = s - Len(c.window) + (o + i)
      BY <1>1, <1>6 DEF Lasting
    <3>2. s - Len(c.window) + (o + i) = s - Len(d.window) + i
      <4>1. PICK x \in Int, y \in Int : x = Len(c.window) /\ y = Len(d.window) /\ x = o + y
        BY <1>6, <1>l
      <4>2. s - (o + y) + (o + i) = s - y + i
        BY <4>1
      <4> QED  BY <4>1, <4>2
    <3> QED  BY <1>1, <3>1, <3>2
  <2> QED  BY <2>1 DEF Lasting
<1>7. ASSUME NEW n, Has(d, n) PROVE Has(c, n)
  BY <1>1, <1>2, <1>7 DEF Has
<1> QED  BY <1>3, <1>4, <1>5, <1>6, <1>7
\* What is to be filing secret now is among the last entries, and a window that
\* is long enough has them.
LEMMA LatestLie ==
    ASSUME SessionTypeOK, NEW k \in Nat, Smaller(Retro, Said) <= k
    PROVE  /\ \A n \in Latest(Retro) : n \in 1 .. Said /\ n > Said - k /\ n + Window > Said
           /\ Latest(Retro) \subseteq 1 .. Said
<1>1. Said \in Nat /\ Retro \in Nat /\ Window \in Nat /\ Retro <= Window
  BY MemoryTypes, SessionAssumption
<1>2. PICK q \in Nat : q = Smaller(Retro, Said) /\ q <= Retro /\ q <= Said /\ q <= k
  BY <1>1 DEF Smaller
<1>3. Latest(Retro) = Said - q + 1 .. Said
  BY <1>2 DEF Latest
<1> QED  BY <1>1, <1>2, <1>3

LEMMA LogHiddenFacts ==
    ASSUME SessionTypeOK, NEW k \in Nat
    PROVE  /\ LogHidden(k) \in Seq(BOOLEAN) /\ Len(LogHidden(k)) = Said
           /\ \A n \in 1 .. Said : /\ log[n] => LogHidden(k)[n]
                                   /\ n > Said - k => LogHidden(k)[n]
<1>1. PICK s \in Nat : s = Said /\ DOMAIN log = 1 .. s
  BY MemoryTypes, LenProperties
<1>2. LogHidden(k) = [i \in 1 .. s |-> log[i] \/ i > s - k]
  BY <1>1 DEF LogHidden
<1>3. LogHidden(k) \in [1 .. s -> BOOLEAN]
  BY <1>2
<1>4. LogHidden(k) \in Seq(BOOLEAN) /\ Len(LogHidden(k)) = s
  BY <1>3, SeqDef, LenProperties
<1> QED  BY <1>1, <1>2, <1>4

LEMMA RedactsKeeps ==
    ASSUME MemoryIInv, alive, Redacts, alive' = alive, chunk' = chunk,
           rolls' \in BOOLEAN, talk' \in {"none", "plain", "secret"},
           summed' = summed, revived' = revived
    PROVE  MemoryIInv'
<1>0. SessionTypeOK /\ Placed(chat, Said) /\ Placed(redis, Said) /\ Chunked /\ Kept /\ Secretive
  BY DEF MemoryIInv
<1>t. /\ chat \in Chats /\ redis \in Chats /\ Said \in Nat /\ Said = Len(log) /\ log \in Seq(BOOLEAN)
      /\ Window \in Nat /\ 2 <= Window /\ MaxEntries \in Nat /\ Said <= MaxEntries
      /\ chat.window \in Seq(Entry) /\ chat.backlog \in Seq(Entry) /\ chunk \in Seq(Entry)
      /\ Retro \in Nat
  BY <1>0, MemoryTypes, SessionAssumption
<1>l. /\ Len(chat.window) \in Nat /\ Len(chat.window) <= Window
      /\ \A i \in 1 .. Len(chat.window) : chat.window[i].n \in Nat
      /\ \A i \in 1 .. Len(chat.backlog) : chat.backlog[i].n \in Nat
      /\ \A i \in 1 .. Len(chunk) : chunk[i].n \in Nat
  BY <1>0, <1>t, SeqFacts DEF Placed
<1>1. PICK k \in Nat : k = Smaller(Retro, Len(chat.window)) /\ k <= Len(chat.window)
  BY <1>t, <1>l DEF Smaller
<1>2. PICK w \in Seq(Entry) :
         /\ w = Hidden(chat.window, k) /\ Len(w) = Len(chat.window)
         /\ \A i \in 1 .. Len(w) : /\ w[i].n = chat.window[i].n
                                   /\ chat.window[i].hidden => w[i].hidden
                                   /\ i > Len(w) - k => w[i].hidden
  <2>1. /\ Hidden(chat.window, k) \in Seq(Entry)
        /\ Len(Hidden(chat.window, k)) = Len(chat.window)
        /\ \A i \in 1 .. Len(chat.window) :
              /\ Hidden(chat.window, k)[i].n = chat.window[i].n
              /\ chat.window[i].hidden => Hidden(chat.window, k)[i].hidden
              /\ i > Len(chat.window) - k => Hidden(chat.window, k)[i].hidden
    BY <1>t, HiddenFacts
  <2> QED  BY <2>1
<1>3. /\ log' = LogHidden(k) /\ secret' = secret \cup Latest(Retro)
      /\ \/ /\ chat' = [chat EXCEPT !.window = w]
            /\ partial' = (partial \/ k < Smaller(Retro, Said) \/ redis # Nothing)
            /\ UNCHANGED <<redis, cold, gone>>
         \/ /\ ~cold /\ cold' = TRUE
            /\ \/ redis' = chat /\ chat' = [window |-> w, backlog |-> <<>>]
               \/ \E i \in 0 .. Len(w) - 1 :
                     /\ redis' = [chat EXCEPT !.window = SubSeq(w, 1, i)]
                     /\ chat' = [window |-> SubSeq(w, i + 1, Len(w)), backlog |-> <<>>]
            /\ gone' = gone \cup Held(chat)
            /\ partial' = TRUE
  BY <1>1, <1>2 DEF Redacts
<1>4. /\ log' \in Seq(BOOLEAN) /\ Len(log') = Said
      /\ \A n \in 1 .. Said : /\ log[n] => log'[n]
                              /\ n > Said - k => log'[n]
  BY <1>0, <1>3, LogHiddenFacts
<1>5. Said' = Said
  BY <1>4 DEF Said
<1>6. secret' \subseteq 1 .. Said
  <2>1. Latest(Retro) \subseteq 1 .. Said
    <3>1. PICK q \in Nat : q = Smaller(Retro, Said)
      BY <1>t DEF Smaller
    <3> QED  BY <1>0, <3>1, LatestLie
  <2> QED  BY <1>0, <1>3, <2>1 DEF Secretive
<1>h. /\ \A n : n \in Held(chat) <=> Has(chat, n)
      /\ Held(chat) \subseteq Number
  BY <1>t, HeldFacts, HeldInNumber
\* It is enough that the window of the new chat is the end of the hidden one.
<1>7. ASSUME NEW d \in Chats, chat' = d, NEW r \in Chats, redis' = r,
             NEW o \in Nat, o + Len(d.window) = Len(chat.window),
             \A i \in 1 .. Len(d.window) : d.window[i].n = chat.window[o + i].n,
             d.backlog = chat.backlog \/ d.backlog = <<>>,
             \/ r = redis /\ cold' = cold
             \/ ~cold /\ cold' = TRUE /\ Placed(r, Said) /\ \A n : Has(r, n) => n \in gone',
             gone \subseteq gone', gone' \subseteq Number,
             \A n : Has(chat, n) => Has(d, n) \/ n \in gone',
             partial' \in BOOLEAN,
             partial' \/ (Veiled(d, secret') /\ Veiled(r, secret') /\ Veils(chunk, secret')
                            /\ \A n \in secret' : log'[n])
      PROVE  MemoryIInv'
  <2>1. /\ Placed(d, Said)
        /\ Ordered(chat) => Ordered(d)
        /\ \A M : Behind(M, chat) => Behind(M, d)
        /\ \A g : Lasting(chat, Said, g) => Lasting(d, Said, g)
    <3>1. PICK s \in Nat : s = Said
      BY <1>t
    <3>2. Placed(chat, s) /\ o + Len(d.window) <= Len(chat.window)
      BY <1>0, <1>7, <1>l, <3>1
    <3>3. /\ Placed(d, s)
          /\ Ordered(chat) => Ordered(d)
          /\ \A M : Behind(M, chat) => Behind(M, d)
          /\ o + Len(d.window) = Len(chat.window) =>
                \A g : Lasting(chat, s, g) => Lasting(d, s, g)
      <4>1. PartOf(chat, d, o)
        BY <1>7, <3>2 DEF PartOf
      <4> QED  BY <1>t, <3>2, <4>1, PartFollows
    <3> QED  BY <1>7, <3>1, <3>3
  <2>2. Placed(r, Said)
    BY <1>0, <1>7
  <2>3. SessionTypeOK'
    <3>1. cold' \in BOOLEAN
      BY <1>0, <1>7 DEF SessionTypeOK
    <3>2. secret' \in SUBSET Number
      BY <1>6, <1>t DEF Number
    <3>3. Len(d.window) <= Window
      BY <2>1 DEF Placed
    <3> QED  BY <1>0, <1>4, <1>7, <1>t, <3>1, <3>2, <3>3 DEF SessionTypeOK, Chats
  <2>4. Placed(chat, Said)' /\ Placed(redis, Said)'
    BY <1>5, <1>7, <2>1, <2>2 DEF Placed
  <2>5. Chunked'
    <3>1. ASSUME ~revived PROVE InLine'
      <4>1. InLine
        BY <1>0, <3>1 DEF Chunked
      <4>2. Ordered(d) /\ Behind(summed, d) /\ Behind(Numbers(chunk), d)
        BY <2>1, <4>1 DEF InLine
      <4>3. Climbs(chunk)' /\ Behind(Numbers(chunk), chat)'
        BY <1>7, <4>1, <4>2 DEF InLine, Climbs, Behind, Numbers
      <4>4. Ordered(chat)' /\ Behind(summed, chat)'
        BY <1>7, <4>2 DEF Ordered, Climbs, Behind
      <4>5. (cold \/ Ordered(redis))' /\ (cold \/ Behind(summed, redis))'
        <5>1. CASE cold'
          BY <5>1
        <5>2. CASE ~cold'
          <6>1. r = redis /\ ~cold
            BY <1>7, <5>2
          <6> QED  BY <1>7, <4>1, <6>1 DEF InLine, Ordered, Climbs, Behind
        <5> QED  BY <5>1, <5>2
      <4> QED  BY <4>1, <4>3, <4>4, <4>5 DEF InLine
    <3> QED  BY <1>0, <1>5, <3>1 DEF Chunked
  <2>6. Kept'
    <3>1. (alive /\ ~cold => redis = Nothing)'
      BY <1>0, <1>7 DEF Kept
    <3>2. (cold => \A n \in Number : Has(redis, n) => n \in gone)'
      <4>1. cold' => \A n \in Number : Has(r, n) => n \in gone'
        BY <1>0, <1>7 DEF Kept
      <4> QED  BY <1>7, <4>1 DEF Has
    <3>3. Lasting(d, Said, gone')
      <4>1. Lasting(chat, Said, gone')
        BY <1>0, <1>7 DEF Kept, Lasting
      <4> QED  BY <2>1, <4>1
    <3>4. Lasting(chat, Said, gone)'
      BY <1>5, <1>7, <3>3 DEF Lasting
    <3>5. (cold \/ Lasting(redis, Said, gone))'
      <4>1. CASE cold'
        BY <4>1
      <4>2. CASE ~cold'
        <5>1. redis' = Nothing
          BY <3>1, <4>2
        <5> QED  BY <5>1, NothingFacts DEF Lasting
      <4> QED  BY <4>1, <4>2
    <3>6. ASSUME NEW n \in 1 .. Said
          PROVE  \/ Has(d, n) \/ Has(r, n) \/ n \in Numbers(chunk)
                 \/ n \in summed \/ n \in gone'
      <4>1. CASE Has(redis, n)
        <5>1. r = redis
          BY <1>0, <1>7, <4>1, NothingFacts DEF Kept
        <5> QED  BY <4>1, <5>1
      <4>2. CASE ~Has(redis, n)
        BY <1>0, <1>7, <4>2 DEF Kept
      <4> QED  BY <4>1, <4>2
    <3>7. \A n \in 1 .. Said : \/ Has(chat, n)' \/ Has(redis, n)' \/ n \in Numbers(chunk)'
                               \/ n \in summed \/ n \in gone'
      BY <1>7, <3>6 DEF Has, Numbers
    <3> QED  BY <1>5, <3>1, <3>2, <3>4, <3>5, <3>7 DEF Kept
  <2>7. Secretive'
    <3>1. (partial \/ (Veiled(chat, secret) /\ Veiled(redis, secret)))'
      BY <1>7 DEF Veiled, Veils
    <3>2. (partial \/ Veils(chunk, secret))'
      BY <1>7 DEF Veils
    <3>3. (partial \/ \A n \in secret : log[n])'
      BY <1>7
    <3> QED  BY <1>5, <1>6, <3>1, <3>2, <3>3 DEF Secretive
  <2> QED  BY <2>3, <2>4, <2>5, <2>6, <2>7 DEF MemoryIInv
<1>8. CASE /\ chat' = [chat EXCEPT !.window = w]
           /\ partial' = (partial \/ k < Smaller(Retro, Said) \/ redis # Nothing)
           /\ UNCHANGED <<redis, cold, gone>>
  <2>1. PICK d \in Chats : d = chat' /\ d.window = w /\ d.backlog = chat.backlog
    <3>1. chat' \in Chats /\ chat'.window = w /\ chat'.backlog = chat.backlog
      BY <1>2, <1>8, <1>t DEF Chats
    <3> QED  BY <3>1
  <2>2. ASSUME ~partial'
        PROVE  /\ Veiled(d, secret') /\ Veiled(redis, secret') /\ Veils(chunk, secret')
               /\ \A n \in secret' : log'[n]
    <3>1. ~partial /\ ~(k < Smaller(Retro, Said)) /\ redis = Nothing
      BY <1>8, <2>2
    <3>2. /\ Veiled(chat, secret) /\ Veils(chunk, secret)
          /\ \A n \in secret : log[n]
      BY <1>0, <3>1 DEF Secretive
    <3>3. \A n \in Latest(Retro) : n \in 1 .. Said /\ n > Said - k /\ n + Window > Said
      <4>1. Smaller(Retro, Said) \in Nat
        BY <1>t DEF Smaller
      <4>2. Smaller(Retro, Said) <= k
        BY <3>1, <4>1
      <4> QED  BY <1>0, <4>2, LatestLie
    <3>4. ASSUME NEW i \in 1 .. Len(w), w[i].n \in secret' PROVE w[i].hidden
      <4>1. i \in 1 .. Len(chat.window) /\ w[i].n = chat.window[i].n
        BY <1>2
      <4>2. CASE chat.window[i].n \in secret
        BY <1>2, <3>2, <4>1, <4>2 DEF Veiled, Veils
      <4>3. CASE chat.window[i].n \in Latest(Retro)
        <5>1. chat.window[i].n > Said - k /\ chat.window[i].n \in Nat
          BY <1>l, <3>3, <4>1, <4>3
        <5>2. chat.window[i].n + Len(chat.window) - i <= Said
          BY <1>0, <4>1 DEF Placed
        <5>3. i > Len(chat.window) - k
          BY <1>l, <1>t, <5>1, <5>2
        <5> QED  BY <1>2, <5>3
      <4> QED  BY <1>3, <3>4, <4>1, <4>2, <4>3
    <3>5. ASSUME NEW i \in 1 .. Len(chat.backlog), chat.backlog[i].n \in secret'
          PROVE  chat.backlog[i].hidden
      <4>1. chat.backlog[i].n + Window <= Said /\ chat.backlog[i].n \in Nat
        BY <1>0, <1>l DEF Placed
      <4>2. chat.backlog[i].n \notin Latest(Retro)
        BY <1>t, <3>3, <4>1
      <4> QED  BY <1>3, <3>2, <3>5, <4>2 DEF Veiled, Veils
    <3>6. ASSUME NEW i \in 1 .. Len(chunk), chunk[i].n \in secret' PROVE chunk[i].hidden
      <4>1. chunk[i].n + Window <= Said /\ chunk[i].n \in Nat
        BY <1>0, <1>l DEF Chunked
      <4>2. chunk[i].n \notin Latest(Retro)
        BY <1>t, <3>3, <4>1
      <4> QED  BY <1>3, <3>2, <3>6, <4>2 DEF Veils
    <3>7. ASSUME NEW n \in secret' PROVE log'[n]
      BY <1>3, <1>4, <1>6, <3>2, <3>3, <3>7
    <3>8. Veiled(redis, secret')
      BY <3>1, NothingFacts DEF Veiled, Veils
    <3>9. Veiled(d, secret')
      BY <2>1, <3>4, <3>5 DEF Veiled, Veils
    <3> QED  BY <3>6, <3>7, <3>8, <3>9 DEF Veils
  <2>3. \A n : Has(chat, n) => Has(d, n)
    BY <1>2, <2>1 DEF Has
  <2>4. /\ 0 \in Nat /\ 0 + Len(d.window) = Len(chat.window)
        /\ \A i \in 1 .. Len(d.window) : d.window[i].n = chat.window[0 + i].n
    BY <1>2, <1>l, <2>1
  <2>5. partial' \in BOOLEAN /\ gone \subseteq gone' /\ gone' \subseteq Number
    BY <1>0, <1>8 DEF SessionTypeOK
  <2> QED  BY <1>7, <1>8, <1>t, <2>1, <2>2, <2>3, <2>4, <2>5
<1>9. CASE /\ ~cold /\ cold' = TRUE
           /\ redis' = chat /\ chat' = [window |-> w, backlog |-> <<>>]
           /\ gone' = gone \cup Held(chat) /\ partial' = TRUE
  <2>1. PICK d \in Chats : d = chat' /\ d.window = w /\ d.backlog = <<>>
    <3>1. chat' \in Chats /\ chat'.window = w /\ chat'.backlog = <<>>
      BY <1>9, EmptySeq DEF Chats
    <3> QED  BY <3>1
  <2>2. /\ 0 \in Nat /\ 0 + Len(d.window) = Len(chat.window)
        /\ \A i \in 1 .. Len(d.window) : d.window[i].n = chat.window[0 + i].n
    BY <1>2, <1>l, <2>1
  <2>3. /\ partial' \in BOOLEAN /\ gone \subseteq gone' /\ gone' \subseteq Number
        /\ \A n : Has(chat, n) => n \in gone'
    BY <1>0, <1>9, <1>h DEF SessionTypeOK
  <2> QED  BY <1>0, <1>7, <1>9, <1>t, <2>1, <2>2, <2>3
<1>10. ASSUME ~cold, cold' = TRUE, NEW i \in 0 .. Len(w) - 1,
              redis' = [chat EXCEPT !.window = SubSeq(w, 1, i)],
              chat' = [window |-> SubSeq(w, i + 1, Len(w)), backlog |-> <<>>],
              gone' = gone \cup Held(chat), partial' = TRUE
       PROVE  MemoryIInv'
  <2>0. i \in Nat /\ i <= Len(w) /\ Len(w) \in Nat
    BY <1>2, <1>l
  <2>1. PICK u \in Seq(Entry) : /\ u = SubSeq(w, 1, i) /\ Len(u) = i
                                /\ \A j \in 1 .. i : u[j] = w[j]
    <3>1. /\ SubSeq(w, 1, i) \in Seq(Entry) /\ Len(SubSeq(w, 1, i)) = i
          /\ \A j \in 1 .. i : SubSeq(w, 1, i)[j] = w[j]
      BY <2>0, Beginning
    <3> QED  BY <3>1
  <2>2. PICK v \in Seq(Entry) : /\ v = SubSeq(w, i + 1, Len(w)) /\ Len(v) = Len(w) - i
                                /\ \A j \in 1 .. Len(w) - i : v[j] = w[i + j]
    <3>1. /\ SubSeq(w, i + 1, Len(w)) \in Seq(Entry)
          /\ Len(SubSeq(w, i + 1, Len(w))) = Len(w) - i
          /\ \A j \in 1 .. Len(w) - i : SubSeq(w, i + 1, Len(w))[j] = w[i + j]
      BY <2>0, Remainder
    <3> QED  BY <3>1
  <2>3. PICK d \in Chats : d = chat' /\ d.window = v /\ d.backlog = <<>>
    <3>1. chat' \in Chats /\ chat'.window = v /\ chat'.backlog = <<>>
      BY <1>10, <2>2, EmptySeq DEF Chats
    <3> QED  BY <3>1
  <2>4. PICK r \in Chats : r = redis' /\ r.window = u /\ r.backlog = chat.backlog
    <3>1. redis' \in Chats /\ redis'.window = u /\ redis'.backlog = chat.backlog
      BY <1>10, <1>t, <2>1 DEF Chats
    <3> QED  BY <3>1
  <2>5. /\ i + Len(d.window) = Len(chat.window)
        /\ \A j \in 1 .. Len(d.window) : d.window[j].n = chat.window[i + j].n
    <3>1. \A j \in 1 .. Len(w) - i : i + j \in 1 .. Len(w) /\ v[j] = w[i + j]
      BY <2>0, <2>2
    <3> QED  BY <1>2, <1>l, <2>0, <2>2, <2>3, <3>1
  <2>6. Placed(r, Said) /\ \A n : Has(r, n) => Has(chat, n)
    <3>1. PICK o \in Nat : o = 0
      OBVIOUS
    <3>2. /\ o + Len(r.window) <= Len(chat.window)
          /\ \A j \in 1 .. Len(r.window) : r.window[j].n = chat.window[o + j].n
      BY <1>2, <1>l, <2>0, <2>1, <2>4, <3>1
    <3>3. PICK s \in Nat : s = Said /\ Placed(chat, s)
      BY <1>0, <1>t
    <3>4. Placed(r, s) /\ \A n : Has(r, n) => Has(chat, n)
      <4>1. PartOf(chat, r, o)
        BY <2>4, <3>2 DEF PartOf
      <4> QED  BY <1>t, <3>3, <4>1, PartFollows
    <3> QED  BY <3>3, <3>4
  <2>7. /\ partial' \in BOOLEAN /\ gone \subseteq gone' /\ gone' \subseteq Number
        /\ \A n : Has(chat, n) => n \in gone'
    BY <1>0, <1>10, <1>h DEF SessionTypeOK
  <2> QED  BY <1>7, <1>10, <2>0, <2>3, <2>4, <2>5, <2>6, <2>7
<1> QED  BY <1>3, <1>8, <1>9, <1>10
LEMMA StepMemory == MemoryIInv /\ [SessionNext]_sessionVars => MemoryIInv'
<1> SUFFICES ASSUME MemoryIInv, [SessionNext]_sessionVars PROVE MemoryIInv'
  OBVIOUS
<1>0. SessionTypeOK /\ Placed(chat, Said) /\ Placed(redis, Said) /\ Chunked /\ Kept /\ Secretive
  BY DEF MemoryIInv
<1>1. ASSUME NEW says \in {"plain", "secret", "retro"}, TurnStarts(says) PROVE MemoryIInv'
  <2>1. /\ alive /\ alive' = alive /\ chunk' = chunk /\ rolls' = rolls /\ summed' = summed
        /\ revived' = revived /\ talk' \in {"none", "plain", "secret"}
    BY <1>1 DEF TurnStarts
  <2>2. rolls' \in BOOLEAN
    BY <1>0, <2>1 DEF SessionTypeOK
  <2>3. CASE Redacts
    BY <2>1, <2>2, <2>3, RedactsKeeps
  <2>4. CASE UNCHANGED <<chat, redis, cold, log, gone, secret, partial>>
    <3>1. Said' = Said
      BY <2>4 DEF Said
    <3>2. SessionTypeOK'
      BY <1>0, <2>1, <2>2, <2>4 DEF SessionTypeOK
    <3>3. Placed(chat, Said)' /\ Placed(redis, Said)'
      BY <1>0, <2>4, <3>1 DEF Placed
    <3>4. Chunked'
      BY <1>0, <2>1, <2>4, <3>1 DEF Chunked, InLine, Climbs, Ordered, Behind, Numbers
    <3>5. Kept'
      BY <1>0, <2>1, <2>4, <3>1 DEF Kept, Lasting, Has, Numbers
    <3>6. Secretive'
      BY <1>0, <2>1, <2>4, <3>1 DEF Secretive, Veiled, Veils
    <3> QED  BY <3>2, <3>3, <3>4, <3>5, <3>6 DEF MemoryIInv
  <2> QED  BY <1>1, <2>3, <2>4 DEF TurnStarts
<1>2. CASE TurnEnds
  <2>1. talk' \in {"none", "plain", "secret"} /\ rolls' \in BOOLEAN
    BY <1>2 DEF TurnEnds
  <2>2. PICK hid \in BOOLEAN : Recorded(hid)
    BY <1>2 DEF TurnEnds
  <2> QED  BY <1>2, <2>1, <2>2, RecordedKeeps DEF TurnEnds
<1>3. CASE Switches
  BY <1>3, SwitchesKeeps
<1>4. CASE Proactive
  BY <1>4, ProactiveKeeps
<1>5. ASSUME NEW hid \in BOOLEAN, Exchange(hid) PROVE MemoryIInv'
  <2>1. talk' \in {"none", "plain", "secret"} /\ rolls' \in BOOLEAN
    BY <1>0, <1>5 DEF Exchange, SessionTypeOK
  <2> QED  BY <1>5, <2>1, RecordedKeeps DEF Exchange
<1>6. CASE RollStarts
  BY <1>6, RollStartsKeeps
<1>7. CASE RollFails
  BY <1>7, RollFailsKeeps
<1>8. ASSUME NEW empty \in BOOLEAN, RollEnds(empty) PROVE MemoryIInv'
  BY <1>8, RollEndsKeeps
<1>9. CASE GivesUp
  BY <1>9, GivesUpKeeps
<1>10. CASE Emptied
  BY <1>10, EmptiedKeeps
<1>11. CASE Dies
  BY <1>11, DiesKeeps
<1>12. ASSUME NEW reachable \in BOOLEAN, Restarts(reachable) PROVE MemoryIInv'
  BY <1>12, RestartsKeeps
<1>13. CASE UNCHANGED sessionVars
  <2>0. /\ alive' = alive /\ chunk' = chunk /\ rolls' = rolls /\ summed' = summed
        /\ revived' = revived /\ talk' = talk /\ chat' = chat /\ redis' = redis /\ cold' = cold
        /\ log' = log /\ gone' = gone /\ secret' = secret /\ partial' = partial
    BY <1>13 DEF sessionVars
  <2>1. Said' = Said
    BY <2>0 DEF Said
  <2>2. SessionTypeOK'
    BY <1>0, <2>0 DEF SessionTypeOK
  <2>3. Placed(chat, Said)' /\ Placed(redis, Said)'
    BY <1>0, <2>0, <2>1 DEF Placed
  <2>4. Chunked'
    BY <1>0, <2>0, <2>1 DEF Chunked, InLine, Climbs, Ordered, Behind, Numbers
  <2>5. Kept'
    BY <1>0, <2>0, <2>1 DEF Kept, Lasting, Has, Numbers
  <2>6. Secretive'
    BY <1>0, <2>0, <2>1 DEF Secretive, Veiled, Veils
  <2> QED  BY <2>2, <2>3, <2>4, <2>5, <2>6 DEF MemoryIInv
<1> QED  BY <1>1, <1>2, <1>3, <1>4, <1>5, <1>6, <1>7, <1>8, <1>9, <1>10, <1>11, <1>12, <1>13
         DEF SessionNext

\* Rising, over the three parts.
LEMMA InOrderHolds == MemoryIInv => InOrder
<1> SUFFICES ASSUME MemoryIInv, ~revived PROVE
       /\ Rising(chunk \o chat.backlog \o chat.window)
       /\ \A m \in summed, n \in Numbers(chunk \o chat.backlog \o chat.window) : m < n
  BY DEF InOrder
<1>1. InLine
  BY DEF MemoryIInv, Chunked
<1>2. /\ chunk \in Seq(Entry) /\ chat.backlog \in Seq(Entry) /\ chat.window \in Seq(Entry)
  BY MemoryTypes DEF MemoryIInv
<1>3. PICK p \in Nat, q \in Nat, r \in Nat :
         p = Len(chunk) /\ q = Len(chat.backlog) /\ r = Len(chat.window)
  BY <1>2, LenProperties
<1>4. PICK b \in Seq(Entry) :
         /\ b = chunk \o chat.backlog /\ Len(b) = p + q
         /\ \A i \in 1 .. p + q : b[i] = IF i <= p THEN chunk[i] ELSE chat.backlog[i - p]
  <2>1. /\ chunk \o chat.backlog \in Seq(Entry)
        /\ Len(chunk \o chat.backlog) = Len(chunk) + Len(chat.backlog)
        /\ \A i \in 1 .. Len(chunk) + Len(chat.backlog) : (chunk \o chat.backlog)[i] =
              IF i <= Len(chunk) THEN chunk[i] ELSE chat.backlog[i - Len(chunk)]
    BY <1>2, ConcatProperties
  <2> QED  BY <1>3, <2>1
<1>c. PICK w \in Seq(Entry) : w = chat.window /\ r = Len(w)
  BY <1>2, <1>3
<1>k. PICK l \in Nat : l = Len(b)
  BY <1>4
<1>d. l = p + q
  BY <1>4, <1>k
<1>5. PICK a \in Seq(Entry) :
         /\ a = b \o w /\ Len(a) = l + r
         /\ \A i \in 1 .. l + r : a[i] = IF i <= l THEN b[i] ELSE w[i - l]
  <2>1. /\ b \o w \in Seq(Entry) /\ Len(b \o w) = Len(b) + Len(w)
        /\ \A i \in 1 .. Len(b) + Len(w) : (b \o w)[i] = IF i <= Len(b) THEN b[i] ELSE w[i - Len(b)]
    BY ConcatProperties
  <2> QED  BY <1>c, <1>k, <2>1
<1>6. a = chunk \o chat.backlog \o chat.window
  BY <1>4, <1>5, <1>c, <1>d
<1>n. /\ Len(a) = p + q + r
      /\ \A i \in 1 .. Len(a) : i \in Int /\ 1 <= i /\ i <= p + q + r
  <2>1. Len(a) = p + q + r
    BY <1>5, <1>d
  <2> QED  BY <2>1
\* Each entry of the whole is one of the three parts.
<1>7. ASSUME NEW i \in 1 .. Len(a)
      PROVE  \/ i <= p /\ i \in 1 .. p /\ a[i] = chunk[i]
             \/ i > p /\ i <= p + q /\ i - p \in 1 .. q /\ a[i] = chat.backlog[i - p]
             \/ i > p + q /\ i - (p + q) \in 1 .. r /\ a[i] = chat.window[i - (p + q)]
  <2>1. CASE i <= p
    <3>1. i \in 1 .. p /\ i \in 1 .. p + q /\ i \in 1 .. p + q + r /\ i <= p + q
      BY <2>1
    <3> QED  BY <1>4, <1>5, <1>c, <1>d, <2>1, <3>1
  <2>2. CASE i > p /\ i <= p + q
    <3>1. i - p \in 1 .. q /\ i \in 1 .. p + q /\ i \in 1 .. p + q + r /\ ~(i <= p)
      BY <2>2
    <3> QED  BY <1>4, <1>5, <1>c, <1>d, <2>2, <3>1
  <2>3. CASE i > p + q
    <3>1. i - (p + q) \in 1 .. r /\ i \in 1 .. p + q + r /\ ~(i <= p + q)
      BY <1>n, <2>3
    <3> QED  BY <1>5, <1>c, <1>d, <2>3, <3>1
  <2>4. i \in Int
    <3>1. Len(a) \in Int
      BY <1>5, <1>c, LenProperties
    <3> QED  BY <3>1
  <2>5. (i <= p) \/ (i > p /\ i <= p + q) \/ (i > p + q)
    BY <1>3, <2>4
  <2> QED  BY <2>1, <2>2, <2>3, <2>5
<1>8. DOMAIN a = 1 .. Len(a) /\ \A i \in 1 .. p : chunk[i].n \in Numbers(chunk)
  BY <1>2, <1>3, SeqFacts, NumbersFacts
<1>9. /\ \A i, j \in 1 .. p : i < j => chunk[i].n < chunk[j].n
      /\ \A i, j \in 1 .. q : i < j => chat.backlog[i].n < chat.backlog[j].n
      /\ \A i, j \in 1 .. r : i < j => chat.window[i].n < chat.window[j].n
      /\ \A i \in 1 .. p, j \in 1 .. q : chunk[i].n < chat.backlog[j].n
      /\ \A i \in 1 .. p, j \in 1 .. r : chunk[i].n < chat.window[j].n
      /\ \A i \in 1 .. q, j \in 1 .. r : chat.backlog[i].n < chat.window[j].n
  BY <1>1, <1>3, <1>8 DEF InLine, Climbs, Ordered, Behind
<1>10. ASSUME NEW i \in 1 .. Len(a), NEW j \in 1 .. Len(a), i < j PROVE a[i].n < a[j].n
  <2>1. CASE i <= p
    <3>1. i \in 1 .. p /\ a[i] = chunk[i]
      BY <1>7, <2>1
    <3> QED  BY <1>7, <1>9, <1>10, <3>1
  <2>2. CASE i > p /\ i <= p + q
    <3>1. i - p \in 1 .. q /\ a[i] = chat.backlog[i - p]
      BY <1>7, <2>2
    <3>2. \/ j - p \in 1 .. q /\ a[j] = chat.backlog[j - p] /\ i - p < j - p
          \/ j - (p + q) \in 1 .. r /\ a[j] = chat.window[j - (p + q)]
      BY <1>7, <1>10, <2>2
    <3> QED  BY <1>9, <3>1, <3>2
  <2>3. CASE i > p + q
    <3>1. /\ i \in Int /\ j \in Int /\ i - (p + q) < j - (p + q)
          /\ ~(i <= p) /\ ~(i <= p + q) /\ ~(j <= p) /\ ~(j <= p + q)
      BY <1>n, <1>10, <2>3
    <3>2. i - (p + q) \in 1 .. r /\ a[i] = chat.window[i - (p + q)]
      BY <1>7, <3>1
    <3>3. j - (p + q) \in 1 .. r /\ a[j] = chat.window[j - (p + q)]
      BY <1>7, <3>1
    <3> QED  BY <1>9, <3>1, <3>2, <3>3
  <2>4. i \in Int
    <3>1. Len(a) \in Int
      BY <1>5, <1>c, LenProperties
    <3> QED  BY <3>1
  <2>5. (i <= p) \/ (i > p /\ i <= p + q) \/ (i > p + q)
    BY <1>3, <2>4
  <2> QED  BY <2>1, <2>2, <2>3, <2>5
<1>11. ASSUME NEW m \in summed, NEW n \in Numbers(a) PROVE m < n
  <2>1. PICK i \in 1 .. Len(a) : a[i].n = n
    BY NumbersFacts
  <2>2. /\ \A j \in 1 .. p : m < chunk[j].n
        /\ \A j \in 1 .. q : m < chat.backlog[j].n
        /\ \A j \in 1 .. r : m < chat.window[j].n
    BY <1>1, <1>3 DEF InLine, Behind
  <2> QED  BY <1>7, <2>1, <2>2
<1>12. Rising(a)
  BY <1>8, <1>10 DEF Rising
<1> QED  BY <1>6, <1>11, <1>12

(* The session forgets nothing by accident, in order, and shows no secret: *)
(* whatever Redis, the process and the summarizing model do meanwhile      *)
(* (session.py, secrets.py).                                               *)
THEOREM TheSessionRemembers == SessionSpec => []MemoryInv
<1>1. MemoryIInv => MemoryInv
  <2> SUFFICES ASSUME MemoryIInv PROVE MemoryInv
    OBVIOUS
  <2>0. SessionTypeOK /\ Kept /\ Secretive
    BY DEF MemoryIInv
  <2>t. /\ chat \in Chats /\ chunk \in Seq(Entry) /\ redis \in Chats
        /\ chat.window \in Seq(Entry) /\ chat.backlog \in Seq(Entry)
        /\ redis.window \in Seq(Entry) /\ redis.backlog \in Seq(Entry)
    BY <2>0, MemoryTypes
  <2>1. InOrder
    BY InOrderHolds
  <2>2. NothingForgotten
    <3>1. \A n \in 1 .. Said : n \in Number
      BY <2>0, MemoryTypes
    <3>2. \A n : n \in Held(chat) <=> Has(chat, n)
      BY <2>t, HeldFacts
    <3>3. \A n \in Number : alive /\ Has(redis, n) => n \in gone
      BY <2>0, NothingFacts DEF Kept
    <3> QED  BY <2>0, <3>1, <3>2, <3>3 DEF NothingForgotten, Kept
  <2>3. SecretsHidden
    <3>1. /\ DOMAIN chunk = 1 .. Len(chunk)
          /\ DOMAIN chat.window = 1 .. Len(chat.window)
          /\ DOMAIN chat.backlog = 1 .. Len(chat.backlog)
          /\ DOMAIN redis.window = 1 .. Len(redis.window)
          /\ DOMAIN redis.backlog = 1 .. Len(redis.backlog)
      BY <2>t, SeqFacts
    <3>2. partial \/ /\ Conceals(chunk)
                     /\ Conceals(chat.window) /\ Conceals(chat.backlog)
                     /\ Conceals(redis.window) /\ Conceals(redis.backlog)
                     /\ \A n \in secret : log[n]
      BY <2>0, <3>1 DEF Secretive, Veiled, Veils, Conceals
    <3> QED  BY <3>2 DEF SecretsHidden
  <2> QED  BY <2>0, <2>1, <2>2, <2>3 DEF MemoryInv, SessionInv
<1> QED  BY <1>1, InitMemory, StepMemory, PTL DEF SessionSpec
=============================================================================

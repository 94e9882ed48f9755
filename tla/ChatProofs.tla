----------------------------- MODULE ChatProofs -----------------------------
(***************************************************************************)
(* A turn of the chat, for any number of messages and of asks and for      *)
(* every set of tools, number of tiers and step cap.  The intake (Burst)   *)
(* loses, repeats and reorders nothing; the tool loop (AgentLoop) keeps    *)
(* its rails; and, while Redis answers, a yes executes the ask put to the  *)
(* owner last, and executes it once (Confirm).                             *)
(***************************************************************************)
EXTENDS Confirm, Burst, AgentLoop, SequenceTheorems, TLAPS

(***************************************************************************)
(* The intake.  Besides BurstInv the induction needs Unseen: a draft whose *)
(* event is not set has seen everything that came.                         *)
(***************************************************************************)
Unseen == flusher.at = "waiting" /\ ~superseded => buffer = <<>>

BurstIInv == BurstInv /\ Unseen

-----------------------------------------------------------------------------
LEMMA Regroup ==
    ASSUME NEW t \in Seq(Messages), NEW d \in Seq(Messages), NEW b \in Seq(Messages)
    PROVE  /\ t \o d \o b = t \o <<>> \o (d \o b)
           /\ t \o d \o b = (t \o d) \o <<>> \o b
           /\ t \o <<>> \o b = t \o b \o <<>>
<1>1. t \o <<>> = t /\ (t \o d) \o <<>> = t \o d /\ (t \o b) \o <<>> = t \o b
  BY ConcatEmptySeq, ConcatProperties
<1>2. t \o (d \o b) = t \o d \o b
  BY ConcatAssociative
<1> QED  BY <1>1, <1>2

LEMMA Longer ==
    ASSUME NEW s \in Seq(Messages), NEW b \in Seq(Messages), NEW e \in Messages
    PROVE  s \o Append(b, e) = Append(s \o b, e)
<1>1. Append(b, e) = b \o <<e>> /\ <<e>> \in Seq(Messages)
  BY AppendIsConcat
<1>2. s \o b \in Seq(Messages)
  BY ConcatProperties
<1>3. Append(s \o b, e) = (s \o b) \o <<e>>
  BY <1>2, AppendIsConcat
<1> QED  BY <1>1, <1>3, ConcatAssociative

LEMMA CountedOn ==
    ASSUME NEW c \in Nat
    PROVE  Append([n \in 1 .. c |-> n], c + 1) = [n \in 1 .. c + 1 |-> n]
OBVIOUS
-----------------------------------------------------------------------------
LEMMA InitBurst == BurstInit => BurstIInv
<1> SUFFICES ASSUME BurstInit PROVE BurstIInv
  OBVIOUS
<1> USE BurstAssumption DEF BurstInit, Idling
<1>e. <<>> \in Seq(Messages) /\ 0 \in 0 .. MaxMessages
  OBVIOUS
<1>f. flusher \in [at : Flushing \cup {"idle"}, draft : Seq(Messages)]
  BY <1>e
<1>1. BurstTypeOK
  BY <1>e, <1>f DEF BurstTypeOK
<1>2. InTurn
  BY DEF InTurn, Drafted
<1> QED  BY <1>1, <1>2 DEF BurstIInv, BurstInv, NoneStranded, OneVoice, Unseen

LEMMA StepBurst == BurstIInv /\ [BurstNext]_burstVars => BurstIInv'
<1> SUFFICES ASSUME BurstIInv, [BurstNext]_burstVars PROVE BurstIInv'
  OBVIOUS
<1> USE BurstAssumption
<1>0. BurstTypeOK /\ InTurn /\ NoneStranded /\ OneVoice /\ Unseen
  BY DEF BurstIInv, BurstInv
<1>t. /\ buffer \in Seq(Messages) /\ taken \in Seq(Messages) /\ flusher.draft \in Seq(Messages)
      /\ flusher = [at |-> flusher.at, draft |-> flusher.draft]
      /\ flusher.at \in Flushing \cup {"idle"}
      /\ <<>> \in Seq(Messages) /\ Drafted \in Seq(Messages)
  BY <1>0 DEF BurstTypeOK, Drafted
<1>1. ASSUME Arrives PROVE BurstIInv'
  <2>1. came + 1 \in Messages /\ buffer' = Append(buffer, came + 1)
    BY <1>1, <1>0 DEF Arrives, BurstTypeOK, Messages
  <2>2. flusher'.at # "idle" /\ flusher'.at \in Flushing
    BY <1>1, <1>t DEF Arrives, Idling, Flushing
  <2>3. flusher' \in [at : Flushing \cup {"idle"}, draft : Seq(Messages)]
    BY <1>1, <1>t, <1>0 DEF Arrives, Idling, Flushing, BurstTypeOK
  <2>4. BurstTypeOK'
    <3>1. buffer' \in Seq(Messages)
      BY <1>t, <2>1, AppendProperties
    <3>2. came' \in 0 .. MaxMessages
      BY <1>1, <1>0 DEF Arrives, BurstTypeOK
    <3>3. superseded' \in BOOLEAN /\ broken' \in BOOLEAN
      BY <1>1, <1>0 DEF Arrives, BurstTypeOK
    <3> QED  BY <1>1, <1>0, <2>3, <3>1, <3>2, <3>3 DEF Arrives, BurstTypeOK
  <2>5. Drafted' = Drafted
    BY <1>1, <1>t DEF Arrives, Drafted, Idling
  <2>6. InTurn'
    <3>1. taken \o Drafted \in Seq(Messages)
      BY <1>t, ConcatProperties
    <3>2. taken' \o Drafted' \o buffer' = Append(taken \o Drafted \o buffer, came + 1)
      BY <1>1, <1>t, <2>1, <2>5, <3>1, Longer DEF Arrives
    <3>3. came' = came + 1 /\ came \in Nat
      BY <1>1, <1>0 DEF Arrives, BurstTypeOK
    <3> QED  BY <1>0, <3>2, <3>3, CountedOn DEF InTurn
  <2>7. OneVoice' /\ Unseen'
    BY <1>1, <1>0, <1>t DEF Arrives, OneVoice, Unseen, Idling
  <2> QED  BY <2>2, <2>4, <2>6, <2>7 DEF BurstIInv, BurstInv, NoneStranded
<1>2. ASSUME Pops PROVE BurstIInv'
  <2>1. BurstTypeOK' /\ OneVoice' /\ Unseen' /\ NoneStranded'
    BY <1>2, <1>0, <1>t DEF Pops, BurstTypeOK, Flushing, OneVoice, Unseen, NoneStranded
  <2>2. Drafted = <<>> /\ Drafted' = buffer /\ buffer' = <<>>
    BY <1>2 DEF Pops, Drafted
  <2>3. InTurn'
    BY <1>2, <1>0, <1>t, <2>2, Regroup DEF Pops, InTurn
  <2> QED  BY <2>1, <2>3 DEF BurstIInv, BurstInv
<1>3. ASSUME FoldsBack PROVE BurstIInv'
  <2>1. flusher.draft \o buffer \in Seq(Messages)
    BY <1>t, ConcatProperties
  <2>2. BurstTypeOK' /\ OneVoice' /\ Unseen' /\ NoneStranded'
    BY <1>3, <1>0, <1>t, <2>1
       DEF FoldsBack, Granted, BurstTypeOK, Flushing, Idling, OneVoice, Unseen, NoneStranded
  <2>3. Drafted = flusher.draft /\ Drafted' = <<>>
    BY <1>3, <1>t DEF FoldsBack, Granted, Drafted, Idling
  <2>4. InTurn'
    <3>1. taken' \o Drafted' \o buffer' = taken \o <<>> \o (flusher.draft \o buffer)
      BY <1>3, <2>3 DEF FoldsBack
    <3>2. taken \o flusher.draft \o buffer = taken' \o Drafted' \o buffer'
      BY <1>t, <3>1, Regroup, SMTT(30)
    <3>3. came' = came
      BY <1>3 DEF FoldsBack
    <3> QED  BY <1>0, <2>3, <3>2, <3>3 DEF InTurn
  <2> QED  BY <2>2, <2>4 DEF BurstIInv, BurstInv
<1>4. ASSUME Composes PROVE BurstIInv'
  <2>1. taken \o flusher.draft \in Seq(Messages)
    BY <1>t, ConcatProperties
  <2>2. BurstTypeOK' /\ OneVoice' /\ Unseen' /\ NoneStranded'
    BY <1>4, <1>0, <1>t, <2>1
       DEF Composes, Granted, BurstTypeOK, Flushing, OneVoice, Unseen, NoneStranded
  <2>3. Drafted = flusher.draft /\ Drafted' = <<>>
    BY <1>4, <1>t DEF Composes, Granted, Drafted
  <2>4. InTurn'
    <3>1. taken' \o Drafted' \o buffer' = (taken \o flusher.draft) \o <<>> \o buffer
      BY <1>4, <2>3 DEF Composes
    <3>2. taken \o flusher.draft \o buffer = taken' \o Drafted' \o buffer'
      BY <1>t, <3>1, Regroup
    <3>3. came' = came
      BY <1>4 DEF Composes
    <3> QED  BY <1>0, <2>3, <3>2, <3>3 DEF InTurn
  <2> QED  BY <2>2, <2>4 DEF BurstIInv, BurstInv
<1>5. ASSUME \/ Composed \/ Raises \/ Delivers \/ Other \/ UNCHANGED burstVars
      PROVE  BurstIInv'
  <2>0. flusher' \in [at : Flushing \cup {"idle"}, draft : Seq(Messages)]
    <3>1. CASE Composed \/ TriesAgain
      <4>1. PICK a \in {"replying", "again"} : flusher' = [flusher EXCEPT !.at = a]
        BY <3>1 DEF Composed, TriesAgain
      <4>2. flusher' = [at |-> a, draft |-> flusher.draft]
        BY <4>1, <1>t
      <4> QED  BY <4>2, <1>t DEF Flushing
    <3>2. CASE Raises \/ Replied
      <4>1. \E a \in {"idle", "gathering"} : flusher' = [at |-> a, draft |-> <<>>]
        BY <3>2 DEF Raises, Replied, Idling
      <4> QED  BY <4>1, <1>t DEF Flushing
    <3>3. CASE Other \/ UNCHANGED burstVars
      BY <3>3, <1>0 DEF Other, burstVars, BurstTypeOK
    <3> QED  BY <1>5, <3>1, <3>2, <3>3 DEF Delivers
  <2>1. BurstTypeOK'
    BY <1>5, <1>0, <2>0 DEF Composed, Raises, Delivers, TriesAgain, Replied, Other, burstVars,
       BurstTypeOK
  <2>2. Drafted' = Drafted
    BY <1>5, <1>t DEF Composed, Raises, Delivers, TriesAgain, Replied, Other, burstVars,
       Drafted, Idling
  <2>3. InTurn'
    BY <1>5, <1>0, <2>2 DEF Composed, Raises, Delivers, TriesAgain, Replied, Other, burstVars,
       InTurn
  <2>4. OneVoice' /\ Unseen' /\ NoneStranded'
    BY <1>5, <1>0, <1>t DEF Composed, Raises, Delivers, TriesAgain, Replied, Other, burstVars,
       Idling, OneVoice, Unseen, NoneStranded
  <2> QED  BY <2>1, <2>3, <2>4 DEF BurstIInv, BurstInv
<1> QED  BY <1>1, <1>2, <1>3, <1>4, <1>5 DEF BurstNext
-----------------------------------------------------------------------------
(* No message is lost, taken twice or taken out of turn, and none is left  *)
(* without a flusher but by a turn that raised.                            *)
THEOREM TakenInTurn == BurstSpec => []BurstInv
<1>1. BurstIInv => BurstInv
  BY DEF BurstIInv
<1> QED  BY <1>1, InitBurst, StepBurst, PTL DEF BurstSpec

(* A reply is composed from everything that came before.                   *)
THEOREM RepliesHearTheWholeThought == BurstSpec => WholeThought
<1>1. BurstIInv /\ [BurstNext]_burstVars =>
        [flusher.at = "waiting" /\ flusher'.at = "composing" => buffer = <<>>]_burstVars
  <2> SUFFICES ASSUME BurstIInv, BurstNext, flusher.at = "waiting", flusher'.at = "composing"
               PROVE  buffer = <<>>
    BY DEF burstVars
  <2>1. flusher = [at |-> flusher.at, draft |-> flusher.draft]
    BY DEF BurstIInv, BurstInv, BurstTypeOK
  <2>2. CASE Composes
    BY <2>2 DEF Composes, Granted, BurstIInv, Unseen
  <2>3. CASE Arrives \/ Pops \/ FoldsBack \/ Composed \/ Raises \/ Delivers \/ Other
    BY <2>1, <2>3 DEF Arrives, Pops, FoldsBack, Granted, Composed, Raises, Delivers,
       TriesAgain, Replied, Other, Idling
  <2> QED  BY <2>2, <2>3 DEF BurstNext
<1> QED  BY <1>1, InitBurst, StepBurst, PTL DEF BurstSpec, WholeThought
-----------------------------------------------------------------------------
(***************************************************************************)
(* The tool loop.  LoopInv is inductive; the taint rail, the repeat rail,  *)
(* the last-step rule and the contested claims are conjuncts of it.        *)
(***************************************************************************)
\* The local variables of a tier that starts have their types.
LEMMA FreshType == Fresh \in LoopState
  BY BoundsAssumption DEF Fresh, LoopState, Rails

\* So have those of the next pass, and only the step differs.
LEMMA ContinueType ==
  ASSUME NEW l \in LoopState, l.step < MaxSteps
  PROVE  /\ [l EXCEPT !.step = @ + 1] \in LoopState
         /\ [l EXCEPT !.step = @ + 1].step = l.step + 1
         /\ [l EXCEPT !.step = @ + 1].seen = l.seen
         /\ [l EXCEPT !.step = @ + 1].text = l.text
         /\ [l EXCEPT !.step = @ + 1].tainted = l.tainted
         /\ [l EXCEPT !.step = @ + 1].drafted = l.drafted
  BY BoundsAssumption DEF LoopState

\* The invariant holds initially.
LEMMA InitLoop == LoopInit => LoopInv
<1> SUFFICES ASSUME LoopInit PROVE LoopInv OBVIOUS
<1>1. LoopTypeOK
  <2>1. tier \in 1..Tiers
    BY BoundsAssumption DEF LoopInit
  <2>2. loop \in LoopState
    BY FreshType DEF LoopInit
  <2>3. landed \in [Call -> Nat]
    BY DEF LoopInit
  <2>4. QED
    BY <2>1, <2>2, <2>3 DEF LoopInit, LoopTypeOK
<1>2. QED
  BY <1>1, BoundsAssumption
     DEF LoopInit, LoopInv, Fresh, TaintLock, OncePerTier, ClaimsAreContested

\* A tier that gives up leaves the invariant standing: the next one starts fresh.
LEMMA FailTierInv == ASSUME LoopInv, FailTier, Quiet, answer = "none" PROVE LoopInv'
<1>1. CASE tier < Tiers
  <2>1. /\ tier' = tier + 1 /\ loop' = Fresh /\ answer' = "none"
        /\ UNCHANGED <<asked, killed, landed, tried>>
    BY <1>1 DEF FailTier, Quiet
  <2>2. LoopTypeOK'
    BY <2>1, <1>1, FreshType, BoundsAssumption DEF LoopInv, LoopTypeOK
  <2>3. \A c \in Call : landed[c] < tier + 1
    BY BoundsAssumption DEF LoopInv, LoopTypeOK, OncePerTier
  <2>4. OncePerTier' /\ (answer' = "none" => \A c \in Call : loop'.seen[c] = 0 => landed'[c] < tier')
    BY <2>1, <2>3, BoundsAssumption DEF LoopInv, LoopTypeOK, OncePerTier
  <2>5. ~loop'.text /\ ~loop'.drafted
    BY <2>1 DEF Fresh
  <2>6. QED
    BY <2>1, <2>2, <2>4, <2>5 DEF LoopInv, TaintLock, ClaimsAreContested
<1>2. CASE ~(tier < Tiers)
  <2>1. /\ answer' = "outage"
        /\ UNCHANGED <<asked, tier, loop, killed, landed, tried>>
    BY <1>2 DEF FailTier, Quiet
  <2>2. QED
    BY <2>1 DEF LoopInv, LoopTypeOK, Ends, TaintLock, OncePerTier, ClaimsAreContested
<1>3. QED BY <1>1, <1>2

\* Ending the turn without touching the world.
LEMMA FinishInv ==
  ASSUME LoopInv, NEW how \in Ends, Finish(how), Quiet,
         how = "claim" => loop.fixes["falsehood"] = 3 \/ Last
  PROVE  LoopInv'
<1>1. /\ answer' = how /\ answer' # "none"
      /\ UNCHANGED <<asked, tier, loop, killed, landed, tried>>
  BY DEF Finish, Quiet, Ends
<1>2. QED
  BY <1>1 DEF LoopInv, LoopTypeOK, TaintLock, OncePerTier, ClaimsAreContested, Last

\* Going on with local variables l that keep the flags, and the calls seen.
LEMMA ContinueInv ==
  ASSUME LoopInv, Running, NEW l \in LoopState, Continue(l), Quiet,
         l.step = loop.step, l.text => l.tainted,
         l.drafted => loop.step + 1 < MaxSteps,
         \A c \in Call : l.seen[c] = 0 => loop.seen[c] = 0
  PROVE  LoopInv'
<1>1. l.step < MaxSteps
  BY DEF Running
<1>2. /\ loop' \in LoopState
      /\ loop'.step = l.step + 1 /\ loop'.seen = l.seen /\ loop'.text = l.text
      /\ loop'.tainted = l.tainted /\ loop'.drafted = l.drafted
  BY <1>1, ContinueType DEF Continue
<1>3. UNCHANGED <<asked, tier, answer, killed, landed, tried>>
  BY DEF Continue, Quiet
<1>4. QED
  BY <1>2, <1>3
     DEF LoopInv, LoopTypeOK, TaintLock, OncePerTier, ClaimsAreContested, Running

\* The corrections stay within their types.
LEMMA SendBackType ==
  ASSUME LoopTypeOK, NEW d \in Drafts, Caught(d) # "none", Running
  PROVE  [loop EXCEPT !.fixes[Caught(d)] = @ + 1, !.drafted = TRUE,
                      !.challenged = IF Caught(d) = "contract"
                                     THEN @ \cup ({d.reason} \ {""}) ELSE @] \in LoopState
<1> DEFINE r == Caught(d)
<1> DEFINE ch == IF r = "contract" THEN loop.challenged \cup ({d.reason} \ {""}) ELSE loop.challenged
<1> DEFINE fx == [loop.fixes EXCEPT ![r] = @ + 1]
<1>1. loop \in LoopState
  BY DEF LoopTypeOK
<1>2. r \in Rails
  BY DEF Caught, Rails
<1>3. loop.fixes[r] < 3
  <2>1. loop.fixes[r] \in 0..3
    BY <1>1, <1>2 DEF LoopState
  <2>2. QED
    BY <2>1 DEF Caught, Contract, Referent, Deflection, Falsehood
<1>4. fx \in [Rails -> 0..3]
  BY <1>1, <1>2, <1>3 DEF LoopState
<1>5. ch \subseteq Reasons
  <2>1. r = "contract" => d.reason \in Reasons
    BY DraftsAssumption DEF Caught, Contract
  <2>2. QED BY <1>1, <2>1 DEF LoopState
<1>6. [loop EXCEPT !.fixes[Caught(d)] = @ + 1, !.drafted = TRUE,
                   !.challenged = IF Caught(d) = "contract"
                                  THEN @ \cup ({d.reason} \ {""}) ELSE @]
      = [loop EXCEPT !.fixes = fx, !.drafted = TRUE, !.challenged = ch]
  BY <1>1 DEF LoopState
<1> HIDE DEF r, ch, fx
<1>7. QED
  BY <1>1, <1>4, <1>5, <1>6, ZenonT(30) DEF LoopState

\* A call about to run, and one that has run, leave typed local variables.
LEMMA StartedType ==
  ASSUME LoopTypeOK, NEW c \in Call, MayRun(c)
  PROVE  /\ Started(c) \in LoopState
         /\ Started(c).step = loop.step /\ ~Started(c).drafted
         /\ Started(c).text = loop.text /\ Started(c).tainted = loop.tainted
         /\ Started(c).seen = [loop.seen EXCEPT ![c] = 1]
<1>1. loop \in LoopState
  BY DEF LoopTypeOK
<1>2. c \in Searches => loop.searches < 2
  BY <1>1 DEF MayRun, Refused, LoopState
<1>3. [loop.seen EXCEPT ![c] = 1] \in [Call -> 0..2]
  BY <1>1 DEF LoopState
<1> DEFINE s == IF c \in Searches THEN loop.searches + 1 ELSE loop.searches
<1> DEFINE sn == [loop.seen EXCEPT ![c] = 1]
<1>4. s \in 0..2
  BY <1>1, <1>2 DEF LoopState
<1>5. Started(c) = [loop EXCEPT !.seen = sn, !.ran = TRUE, !.drafted = FALSE, !.searches = s]
  BY <1>1 DEF Started, LoopState
<1>6. sn \in [Call -> 0..2] /\ sn = [loop.seen EXCEPT ![c] = 1]
  BY <1>3
<1> HIDE DEF s, sn
<1>7. QED
  BY <1>1, <1>4, <1>5, <1>6 DEF LoopState

LEMMA AfterType ==
  ASSUME NEW l \in LoopState, NEW c \in Call, NEW error \in BOOLEAN
  PROVE  /\ After(c, l, error) \in LoopState
         /\ After(c, l, error).step = l.step /\ After(c, l, error).seen = l.seen
         /\ After(c, l, error).drafted = l.drafted
         /\ (l.text => l.tainted) => (After(c, l, error).text => After(c, l, error).tainted)
<1> DEFINE nm == l.names \cup {c}
<1> DEFINE w == l.wrote \/ (c \notin Reads /\ ~error)
<1> DEFINE x == l.text \/ c \in Untrusted
<1> DEFINE y == l.tainted \/ c \in Untrusted
<1>1. After(c, l, error) = [l EXCEPT !.names = nm, !.text = x, !.wrote = w, !.tainted = y]
  BY Zenon DEF After
<1>2. nm \in SUBSET Call /\ w \in BOOLEAN /\ x \in BOOLEAN /\ y \in BOOLEAN
  BY DEF LoopState
<1>3. (l.text => l.tainted) => (x => y)
  BY DEF LoopState
<1> HIDE DEF nm, w, x, y
<1>4. QED
  BY <1>1, <1>2, <1>3 DEF LoopState

\* Running a tool keeps the invariant: this is where calls land.
LEMMA RunInv ==
  ASSUME LoopInv, NEW c \in Call, NEW error \in BOOLEAN, NEW direct \in BOOLEAN,
         NEW lands \in BOOLEAN, Run(c, error, direct, lands)
  PROVE  LoopInv'
<1> USE DEF LoopInv
<1>1. LoopTypeOK /\ MayRun(c) /\ Running /\ answer = "none" /\ loop.seen[c] = 0
  BY DEF Run, MayRun, Running
<1>2. loop \in LoopState /\ landed \in [Call -> Nat] /\ tier \in Nat
  BY <1>1, BoundsAssumption DEF LoopTypeOK
<1>3. landed' \in [Call -> Nat] /\ \A k \in Call : landed'[k] = IF k = c /\ lands THEN landed[k] + 1 ELSE landed[k]
  BY <1>2 DEF Run
<1>4. landed[c] < tier
  BY <1>1
<1>5. \A k \in Call : landed'[k] <= tier
  BY <1>2, <1>3, <1>4 DEF OncePerTier
<1>6. ~(loop.text /\ c \in Writes)
  <2>1. c \in Writes => c \notin Reads
    BY CallsAssumption
  <2>2. loop.text => loop.tainted
    OBVIOUS
  <2>3. QED BY <1>1, <2>1, <2>2 DEF MayRun, Refused
<1>7. tried' = {}
  BY <1>6 DEF Run, TaintLock
<1>8. UNCHANGED <<asked, killed, tier>>
  BY DEF Run, Finish, Continue
<1>9. CASE direct
  <2>1. answer' = "direct" /\ UNCHANGED loop
    BY <1>9 DEF Run, Finish
  <2>2. QED
    BY <2>1, <1>1, <1>3, <1>5, <1>7, <1>8 
       DEF LoopTypeOK, TaintLock, OncePerTier, ClaimsAreContested, Ends
<1>10. CASE ~direct
  <2> DEFINE l == After(c, Started(c), error)
  <2>1. loop' = [l EXCEPT !.step = @ + 1] /\ UNCHANGED answer
    BY <1>10 DEF Run, Continue
  <2> DEFINE b == Started(c)
  <2>a. /\ b \in LoopState /\ b.step = loop.step /\ ~b.drafted
        /\ b.text = loop.text /\ b.tainted = loop.tainted
        /\ b.seen = [loop.seen EXCEPT ![c] = 1]
    BY <1>1, StartedType
  <2>b. l = After(c, b, error)
    OBVIOUS
  <2> HIDE DEF b, l
  <2>2. /\ l \in LoopState /\ l.step = loop.step /\ ~l.drafted
        /\ l.text => l.tainted
        /\ l.seen = [loop.seen EXCEPT ![c] = 1]
    BY <2>a, <2>b, AfterType
  <2>3. l.step < MaxSteps
    BY <1>1, <2>2 DEF Running
  <2>4. /\ loop' \in LoopState /\ loop'.seen = [loop.seen EXCEPT ![c] = 1]
        /\ loop'.text => loop'.tainted
        /\ ~loop'.drafted
    BY <2>1, <2>2, <2>3, ContinueType
  <2>5. \A k \in Call : loop'.seen[k] = 0 => loop.seen[k] = 0 /\ k # c
    BY <2>4, <1>2 DEF LoopState
  <2>6. \A k \in Call : loop'.seen[k] = 0 => landed'[k] < tier
    BY <2>5, <1>1, <1>3
  <2>7. QED
    BY <2>1, <2>4, <2>6, <1>1, <1>3, <1>5, <1>7, <1>8
       DEF LoopTypeOK, TaintLock, OncePerTier, ClaimsAreContested
<1>11. QED BY <1>9, <1>10

\* Every step keeps the invariant.
LEMMA StepLoop == LoopInv /\ [LoopNext]_loopVars => LoopInv'
<1> SUFFICES ASSUME LoopInv, [LoopNext]_loopVars PROVE LoopInv' OBVIOUS
<1>0. loop \in LoopState
  BY DEF LoopInv, LoopTypeOK
<1>1. CASE Enter
  <2>1. CASE killed
    BY <1>1, <2>1, FinishInv DEF Enter, Ends
  <2>2. CASE ~killed
    <3>1. /\ loop' = [loop EXCEPT !.on = TRUE]
          /\ UNCHANGED <<asked, tier, answer, killed, landed, tried>>
      BY <1>1, <2>2 DEF Enter, Quiet
    <3>2. /\ loop' \in LoopState /\ loop'.step = loop.step /\ loop'.seen = loop.seen
          /\ loop'.text = loop.text /\ loop'.tainted = loop.tainted /\ loop'.drafted = loop.drafted
      BY <3>1, <1>0 DEF LoopState
    <3>3. QED
      BY <3>1, <3>2, <1>1
         DEF LoopInv, LoopTypeOK, TaintLock, OncePerTier, ClaimsAreContested, Enter
  <2>3. QED BY <2>1, <2>2
<1>2. CASE StepCap \/ ModelError \/ EmptyReply
  BY <1>2, FailTierInv DEF StepCap, ModelError, EmptyReply, Running
<1>3. CASE Malformed
  <2> DEFINE l == [loop EXCEPT !.malformed = 1, !.drafted = FALSE]
  <2>1. CASE loop.malformed = 1
    BY <1>3, <2>1, FailTierInv DEF Malformed, Running
  <2>2. CASE loop.malformed # 1
    <3>1. Running /\ Continue(l) /\ Quiet
      BY <1>3, <2>2 DEF Malformed
    <3>2. l \in LoopState
      <4>1. \A m \in 0..1 : [loop EXCEPT !.malformed = m, !.drafted = FALSE] \in LoopState
        BY <1>0 DEF LoopState
      <4>2. 1 \in 0..1
        OBVIOUS
      <4>3. QED BY <4>1, <4>2
    <3>3. /\ l.step = loop.step /\ l.seen = loop.seen
          /\ l.text = loop.text /\ l.tainted = loop.tainted /\ ~l.drafted
      BY <1>0 DEF LoopState
    <3> HIDE DEF l
    <3>4. QED BY <3>1, <3>2, <3>3, ContinueInv DEF LoopInv
  <2>3. QED BY <2>1, <2>2
<1>4. ASSUME NEW d \in Drafts, SendBack(d) PROVE LoopInv'
  <2> DEFINE l == [loop EXCEPT !.fixes[Caught(d)] = @ + 1, !.drafted = TRUE,
                               !.challenged = IF Caught(d) = "contract"
                                              THEN @ \cup ({d.reason} \ {""}) ELSE @]
  <2>1. Running /\ Caught(d) # "none" /\ Continue(l) /\ Quiet
    BY <1>4 DEF SendBack
  <2>2. l \in LoopState
    BY <2>1, SendBackType DEF LoopInv
  <2>3. /\ l.step = loop.step /\ l.seen = loop.seen
        /\ l.text = loop.text /\ l.tainted = loop.tainted
    BY <1>0 DEF LoopState
  <2>4. loop.step \in Nat /\ MaxSteps \in Nat
    BY <1>0, BoundsAssumption DEF LoopState
  <2>5. loop.step < MaxSteps /\ ~Last
    BY <2>1 DEF Running, Caught, Contract, Referent, Deflection, Falsehood
  <2>6. loop.step + 1 < MaxSteps
    BY <2>4, <2>5 DEF Last
  <2> HIDE DEF l
  <2>7. QED BY <2>1, <2>2, <2>3, <2>6, ContinueInv DEF LoopInv
<1>5. ASSUME NEW d \in Drafts, Reply(d) PROVE LoopInv'
  <2> DEFINE how == IF Unbacked(d) /\ "claims" \in d.marks THEN "claim" ELSE "reply"
  <2>1. how \in Ends /\ Finish(how) /\ Quiet
    BY <1>5 DEF Reply, Ends
  <2>2. ~Falsehood(d)
    BY <1>5 DEF Reply, Caught
  <2>3. loop.fixes["falsehood"] \in 0..3
    BY <1>0 DEF LoopState, Rails
  <2>4. how = "claim" => loop.fixes["falsehood"] = 3 \/ Last
    BY <2>2, <2>3 DEF Falsehood
  <2> HIDE DEF how
  <2>5. QED BY <2>1, <2>4, FinishInv
<1>6. ASSUME NEW c \in Call, Refuse(c) PROVE LoopInv'
  <2> DEFINE l == [loop EXCEPT !.drafted = FALSE]
  <2>1. Running /\ Continue(l) /\ Quiet
    BY <1>6 DEF Refuse
  <2>2. /\ l \in LoopState /\ l.step = loop.step /\ l.seen = loop.seen
        /\ l.text = loop.text /\ l.tainted = loop.tainted /\ ~l.drafted
    BY <1>0 DEF LoopState
  <2> HIDE DEF l
  <2>3. QED BY <2>1, <2>2, ContinueInv DEF LoopInv
<1>7. ASSUME NEW c \in Call, Repeat(c) PROVE LoopInv'
  <2> DEFINE l == [loop EXCEPT !.seen[c] = 2, !.drafted = FALSE]
  <2>1. CASE loop.seen[c] = 2
    BY <1>7, <2>1, FailTierInv DEF Repeat, Running
  <2>2. CASE loop.seen[c] # 2
    <3>1. Running /\ Continue(l) /\ Quiet
      BY <1>7, <2>2 DEF Repeat
    <3>2. loop.seen \in [Call -> 0..2]
      BY <1>0 DEF LoopState
    <3> DEFINE sn == [loop.seen EXCEPT ![c] = 2]
    <3>3. sn \in [Call -> 0..2] /\ \A k \in Call : sn[k] = 0 => loop.seen[k] = 0
      BY <3>2
    <3>4. l = [loop EXCEPT !.seen = sn, !.drafted = FALSE]
      BY <1>0 DEF LoopState
    <3> HIDE DEF l, sn
    <3>5. /\ l \in LoopState /\ l.step = loop.step /\ l.seen = sn
          /\ l.text = loop.text /\ l.tainted = loop.tainted /\ ~l.drafted
      BY <3>3, <3>4, <1>0 DEF LoopState
    <3>6. QED BY <3>1, <3>3, <3>5, ContinueInv DEF LoopInv
  <2>3. QED BY <2>1, <2>2
<1>8. ASSUME NEW c \in Call, Halted(c) PROVE LoopInv'
  BY <1>8, FinishInv DEF Halted, Ends
<1>9. ASSUME NEW c \in Call, AskOwner(c) PROVE LoopInv'
  <2>1. c \notin Reads
    BY <1>9, CallsAssumption DEF AskOwner
  <2>2. ~loop.text
    BY <1>9, <2>1 DEF LoopInv, AskOwner, MayRun, Refused
  <2>3. /\ answer' = "ask" /\ tried' = tried
        /\ UNCHANGED <<asked, tier, loop, killed, landed>>
    BY <1>9, <2>2 DEF AskOwner, Finish
  <2>4. QED
    BY <2>3 DEF LoopInv, LoopTypeOK, TaintLock, OncePerTier, ClaimsAreContested, Ends
<1>10. ASSUME NEW c \in Call, NEW error \in BOOLEAN, NEW direct \in BOOLEAN,
              NEW lands \in BOOLEAN, Run(c, error, direct, lands)
       PROVE LoopInv'
  BY <1>10, RunInv
<1>11. CASE Switch
  BY <1>11 DEF Switch, LoopInv, LoopTypeOK, TaintLock, OncePerTier, ClaimsAreContested
<1>12. CASE UNCHANGED loopVars
  BY <1>12 DEF loopVars, LoopInv, LoopTypeOK, TaintLock, OncePerTier, ClaimsAreContested, Last
<1>13. QED
  BY <1>1, <1>2, <1>3, <1>4, <1>5, <1>6, <1>7, <1>8, <1>9, <1>10, <1>11, <1>12
     DEF LoopNext, Decide, Over

\* The inductive invariant is an invariant of the loop.
THEOREM LoopInvariant == LoopSpec => []LoopInv
<1>1. QED BY InitLoop, StepLoop, PTL DEF LoopSpec

\* The variables always have their types: the counters of the rails never pass
\* their limits, whatever the model answers.
THEOREM LoopTyped == LoopSpec => []LoopTypeOK
<1>1. LoopInv => LoopTypeOK BY DEF LoopInv
<1>2. QED BY <1>1, LoopInvariant, PTL

\* The taint rail: no write is sent and no confirmation asked while third-party
\* text is in the transcript.
THEOREM UntrustedTextCannotAct == LoopSpec => []TaintLock
<1>1. LoopInv => TaintLock BY DEF LoopInv
<1>2. QED BY <1>1, LoopInvariant, PTL

\* The repeat rail: after t tiers a call has landed at most t times.
THEOREM LandsOncePerTier == LoopSpec => []OncePerTier
<1>1. LoopInv => OncePerTier BY DEF LoopInv
<1>2. QED BY <1>1, LoopInvariant, PTL

\* The step cap never throws a drafted reply away.
THEOREM DraftsAreKept == LoopSpec => []ReplyBeatsSilence
<1>1. LoopInv => ReplyBeatsSilence
  BY BoundsAssumption DEF LoopInv, ReplyBeatsSilence
<1>2. QED BY <1>1, LoopInvariant, PTL

\* A claim no tool call stands behind reaches the user only after three
\* corrections or on the last step.
THEOREM ClaimsMeetTheRail == LoopSpec => []ClaimsAreContested
<1>1. LoopInv => ClaimsAreContested BY DEF LoopInv
<1>2. QED BY <1>1, LoopInvariant, PTL

-----------------------------------------------------------------------------
(***************************************************************************)
(* The asks: type correctness, and what a yes and a tap execute.           *)
(***************************************************************************)
USE ConfirmAssumption

LEMMA TypeInit == Init => TypeOK
<1>1. TTL + 1 \in Age
  BY DEF Age
<1>2. Init => [a \in Ask |-> TTL + 1] \in [Ask -> Age]
  BY <1>1
<1>3. Init => pending \in Stash \cup {None} /\ nonce \in Nonce \cup {NoNonce}
              /\ saved \in Saved \cup {None} /\ turn \in [Turn -> Busy \cup {Idle}]
  BY DEF Init
<1>4. Init => buttons \subseteq Button /\ latest \in Ask \cup {Plain} /\ closed \subseteq Ask
  BY DEF Init
<1>5. Init => stashes \in [Ask -> 0 .. 2] /\ ran \in [Ask -> 0 .. 2]
  BY DEF Init
<1>6. Init => server \in Server /\ dead \in BOOLEAN /\ age \in [Ask -> Age]
  BY <1>2 DEF Init, Server
<1>. QED
  BY <1>3, <1>4, <1>5, <1>6 DEF TypeOK

(* The stash an answer meets is well formed. *)
LEMMA LoadedType ==
  ASSUME TypeOK
  PROVE  /\ Loaded \in Stash \cup {None}
         /\ Loaded # None => Loaded.ask \in Ask
BY DEF TypeOK, Loaded, Record, Stash, Saved, Age, None

LEMMA TypeGated ==
  ASSUME TypeOK, NEW a \in Ask, Gated(a)
  PROVE  /\ pending' \in Stash \cup {None} /\ nonce' \in Nonce
         /\ saved' \in Saved \cup {None}
         /\ server' \in Server /\ dead' \in BOOLEAN
         /\ stashes' \in [Ask -> 0 .. 2] /\ latest' \in Ask
         /\ closed' \subseteq Ask
         /\ ran' \in [Ask -> 0 .. 2] /\ age' \in [Ask -> Age]
         /\ pending' = [ask |-> a, age |-> 0]
<1>1. pending' \in Stash /\ nonce' \in Nonce /\ latest' \in Ask
      /\ pending' = [ask |-> a, age |-> 0]
  BY DEF TypeOK, Gated, Put, Stash, Nonce, Age
<1>2. stashes' \in [Ask -> 0 .. 2] /\ age' \in [Ask -> Age]
  BY DEF TypeOK, Gated, Put, Age
<1>3. saved' \in Saved \cup {None}
  <2>1. [ask |-> a, nonce |-> <<a, 1>>, age |-> 0] \in Saved
    BY DEF Saved, Nonce
  <2> QED  BY <2>1 DEF TypeOK, Gated
<1>4. server' \in Server /\ dead' \in BOOLEAN /\ ran' \in [Ask -> 0 .. 2]
  BY DEF TypeOK, Gated, Touched
<1>5. closed' \subseteq Ask
  BY LoadedType DEF TypeOK, Gated, Replaced
<1> QED  BY <1>1, <1>2, <1>3, <1>4, <1>5

LEMMA TypeDispatch ==
  ASSUME TypeOK, NEW t \in Turn, NEW word, NEW via \in Ask \cup {Plain, Typed},
         Dispatch(t, word, via), buttons' \subseteq buttons
  PROVE  TypeOK'
<1>1. Outcome(Loaded, word, via) \in Busy \cup {Idle}
  <2>1. CASE Loaded # None /\ word = "yes" /\ ~Expired(Loaded)
    BY <2>1, LoadedType DEF Outcome, Busy
  <2>2. CASE ~(Loaded # None /\ word = "yes" /\ ~Expired(Loaded))
    BY <2>2 DEF Outcome, Busy
  <2> QED  BY <2>1, <2>2
<1>2. turn' \in [Turn -> Busy \cup {Idle}]
  BY <1>1 DEF TypeOK, Dispatch
<1>3. pending' \in Stash \cup {None} /\ nonce' \in Nonce \cup {NoNonce}
      /\ saved' \in Saved \cup {None} /\ dead' \in BOOLEAN
  BY DEF TypeOK, Dispatch, Popped, Touched
<1>4. closed' \subseteq Ask
  BY LoadedType DEF TypeOK, Dispatch
<1> QED  BY <1>2, <1>3, <1>4 DEF TypeOK, Dispatch

(* What a reply puts on screen is well formed: a stash in the process has  *)
(* a nonce.                                                                *)
NonceOfPending == pending # None => nonce \in Nonce

LEMMA KeyboardType ==
  ASSUME NEW t, NEW via, NEW about \in Ask \cup {Plain}, NEW held, NEW n,
         held # None => n \in Nonce
  PROVE  Keyboard(t, via, about, held, n) \subseteq Button
BY DEF Keyboard, Button

TypeInv == TypeOK /\ NonceOfPending

LEMMA TypeStep == TypeInv /\ [Next]_vars => TypeInv'
<1>. SUFFICES ASSUME TypeOK, NonceOfPending, [Next]_vars PROVE TypeInv'
  BY DEF TypeInv
<1>1. ASSUME NEW t \in Turn, NEW w, Message(t, w) PROVE TypeInv'
  <2>1. TypeOK'
    BY <1>1, TypeDispatch DEF Message
  <2>2. NonceOfPending'
    BY <1>1 DEF Message, Dispatch, Popped, NonceOfPending
  <2> QED  BY <2>1, <2>2 DEF TypeInv
<1>2. ASSUME NEW t \in Turn, NEW b \in buttons, NEW w, Tap(t, b, w) PROVE TypeInv'
  <2>1. CASE b.nonce = CurrentNonce
    <3>1. b.about \in Ask \cup {Plain, Typed}
      BY DEF TypeOK, Button
    <3>2. TypeOK'
      BY <1>2, <2>1, <3>1, TypeDispatch DEF Tap
    <3>3. NonceOfPending'
      BY <1>2, <2>1 DEF Tap, Dispatch, Popped, NonceOfPending
    <3> QED  BY <3>2, <3>3 DEF TypeInv
  <2>2. CASE b.nonce # CurrentNonce
    BY <1>2, <2>2 DEF Tap, Touched, TypeInv, TypeOK, NonceOfPending
  <2> QED  BY <2>1, <2>2
<1>3. ASSUME NEW t \in Turn, Aside(t) PROVE TypeInv'
  <2>1. Keyboard(t, Typed, Plain, pending, nonce) \subseteq Button
    BY KeyboardType DEF NonceOfPending
  <2> QED  BY <1>3, <2>1 DEF Aside, TypeInv, TypeOK, NonceOfPending
<1>4. ASSUME NEW t \in Turn, TurnReplies(t) PROVE TypeInv'
  <2>1. Keyboard(t, Typed, Plain, pending, nonce) \subseteq Button
    BY KeyboardType DEF NonceOfPending
  <2> QED  BY <1>4, <2>1 DEF TurnReplies, TypeInv, TypeOK, NonceOfPending
<1>5. ASSUME NEW t \in Turn, Act(t) PROVE TypeInv'
  <2>1. Keyboard(t, turn[t].via, Plain, pending, nonce) \subseteq Button
    BY KeyboardType DEF NonceOfPending
  <2>2. ran' \in [Ask -> 0 .. 2]
    <3>. DEFINE a == turn[t].ask
                n == IF ran[a] = 2 THEN 2 ELSE ran[a] + 1
    <3>1. a \in Ask
      BY <1>5 DEF Act, TypeOK, Busy, Idle
    <3>2. n \in 0 .. 2
      BY <3>1 DEF TypeOK
    <3>3. ran' = [ran EXCEPT ![a] = n]
      BY <1>5 DEF Act
    <3>. HIDE DEF n
    <3> QED  BY <3>2, <3>3 DEF TypeOK
  <2>3. turn' \in [Turn -> Busy \cup {Idle}]
    BY <1>5 DEF Act, TypeOK
  <2> QED  BY <1>5, <2>1, <2>2, <2>3 DEF Act, TypeInv, TypeOK, NonceOfPending
<1>6. ASSUME NEW t \in Turn, Regate(t) PROVE TypeInv'
  <2>. DEFINE a == turn[t].ask
  <2>1. a \in Ask /\ stashes[a] + 1 \in 1 .. 2
    BY <1>6 DEF Regate, TypeOK
  <2>2. pending' \in Stash /\ nonce' \in Nonce /\ latest' \in Ask
    BY <1>6, <2>1 DEF Regate, Put, Stash, Nonce, Age
  <2>3. stashes' \in [Ask -> 0 .. 2]
    <3>1. stashes' = [stashes EXCEPT ![a] = stashes[a] + 1]
      BY <1>6 DEF Regate, Put
    <3> QED  BY <2>1, <3>1 DEF TypeOK
  <2>4. age' \in [Ask -> Age]
    <3>1. age' = [age EXCEPT ![a] = 0] /\ 0 \in Age
      BY <1>6 DEF Regate, Put, Age
    <3> QED  BY <2>1, <3>1 DEF TypeOK
  <2>5. Keyboard(t, turn[t].via, a, pending', nonce') \subseteq Button
    BY <2>1, <2>2, KeyboardType
  <2>6. closed' \subseteq Ask
    BY <1>6, LoadedType DEF Regate, Replaced, TypeOK
  <2>7. turn' \in [Turn -> Busy \cup {Idle}] /\ UNCHANGED <<saved, server, dead, ran>>
    BY <1>6 DEF Regate, TypeOK
  <2>8. buttons' \subseteq Button
    BY <1>6, <2>5 DEF Regate, TypeOK
  <2> QED  BY <2>2, <2>3, <2>4, <2>6, <2>7, <2>8 DEF TypeInv, TypeOK, NonceOfPending
<1>7. ASSUME NEW t \in Turn, NEW a \in Ask, TurnAsks(t, a) PROVE TypeInv'
  <2>1. Gated(a)
    BY <1>7 DEF TurnAsks
  <2>2. Keyboard(t, Typed, a, pending', nonce') \subseteq Button
    BY <2>1, TypeGated, KeyboardType
  <2>3. turn' \in [Turn -> Busy \cup {Idle}] /\ buttons' \subseteq Button
    BY <1>7, <2>2 DEF TurnAsks, TypeOK
  <2> QED  BY <2>1, <2>3, TypeGated DEF TypeInv, TypeOK, NonceOfPending
<1>8. ASSUME NEW a \in Ask, JobAsks(a) PROVE TypeInv'
  <2>1. Gated(a)
    BY <1>8 DEF JobAsks
  <2>2. buttons' \subseteq Button /\ turn' \in [Turn -> Busy \cup {Idle}]
    BY <1>8, <2>1, TypeGated DEF JobAsks, TypeOK, Button
  <2> QED  BY <2>1, <2>2, TypeGated DEF TypeInv, TypeOK, NonceOfPending
<1>9. ASSUME Tick PROVE TypeInv'
  <2>1. \A d \in Age : Older(d) \in Age
    BY DEF Older, Age
  <2>2. age' \in [Ask -> Age]
    BY <1>9, <2>1 DEF Tick, TypeOK
  <2>3. pending' \in Stash \cup {None} /\ (pending' # None => pending # None)
    BY <1>9, <2>1 DEF Tick, TypeOK, Stash
  <2>4. saved' \in Saved \cup {None}
    BY <1>9 DEF Tick, TypeOK, Saved
  <2> QED  BY <1>9, <2>2, <2>3, <2>4 DEF Tick, TypeInv, TypeOK, NonceOfPending
<1>10. ASSUME Restart PROVE TypeInv'
  BY <1>10 DEF Restart, TypeInv, TypeOK, NonceOfPending
<1>11. ASSUME Redis PROVE TypeInv'
  BY <1>11 DEF Redis, TypeInv, TypeOK, NonceOfPending, Server
<1>12. CASE UNCHANGED vars
  BY <1>12 DEF vars, TypeInv, TypeOK, NonceOfPending
<1> QED
  BY <1>1, <1>2, <1>3, <1>4, <1>5, <1>6, <1>7, <1>8, <1>9, <1>10, <1>11, <1>12 DEF Next

(* Every reachable state is well typed. *)
THEOREM ConfirmTyped == Spec => []TypeOK
<1>1. Init => TypeInv
  BY TypeInit DEF TypeInv, NonceOfPending, Init
<1>2. TypeInv => TypeOK
  BY DEF TypeInv
<1> QED
  BY <1>1, <1>2, TypeStep, PTL DEF Spec

-----------------------------------------------------------------------------
(* While Redis answers.                                                    *)

(* A turn's word either starts the stash's ask or starts none. *)
LEMMA DispatchStarts ==
  ASSUME NEW t \in Turn, NEW word, NEW via, TypeOK, Dispatch(t, word, via),
         NEW u \in Turn, turn'[u].phase = "running"
  PROVE  \/ turn'[u] = turn[u]
         \/ u = t /\ Loaded # None /\ turn'[u].ask = Loaded.ask
<1>1. u # t => turn'[u] = turn[u]
  BY DEF Dispatch, TypeOK
<1>2. turn'[t] = Outcome(Loaded, word, via)
  BY DEF Dispatch, TypeOK
<1>3. Outcome(Loaded, word, via).phase = "running" =>
        Loaded # None /\ Outcome(Loaded, word, via).ask = Loaded.ask
  BY DEF Outcome, Idle
<1> QED  BY <1>1, <1>2, <1>3

LEMMA LoadedIsOpen ==
  ASSUME OpenStash, Loaded # None
  PROVE  Loaded.ask = latest /\ latest \notin closed
BY DEF OpenStash, Loaded, Record

LEMMA DispatchKeeps ==
  ASSUME NEW t \in Turn, NEW word, NEW via, Steady, Ready,
         Dispatch(t, word, via)
  PROVE  /\ OpenStash' /\ AskedBefore' /\ OneRunner' /\ RunsOnce'
         /\ server' = "up" /\ ~dead'
<1>. USE DEF Steady
<1>1. server' = "up" /\ ~dead' /\ RunsOnce'
  BY DEF Dispatch, Popped, Touched, RunsOnce
<1>2. OpenStash'
  BY DEF Dispatch, Popped, Reachable, OpenStash
<1>3. AskedBefore'
  BY LoadedIsOpen DEF Dispatch, AskedBefore
<1>4. ran' = ran /\ closed \subseteq closed' /\ (Loaded # None => Loaded.ask \in closed')
  BY DEF Dispatch
<1>5. Loaded # None => Loaded.ask \in Ask /\ Loaded.ask \notin closed
  BY LoadedIsOpen, LoadedType
<1>6. Loaded # None => ran[Loaded.ask] = 0 /\ saved' = None
  BY <1>5 DEF OneRunner, TypeOK, Dispatch, Popped, Reachable
<1>7. \A u \in Turn : turn[u] = Idle /\ (u # t => turn'[u] = Idle)
  BY DEF Ready, Dispatch, TypeOK
<1>8. \A u \in Turn : turn'[u].phase = "running" =>
        turn'[u].ask \in closed' /\ ran'[turn'[u].ask] = 0 /\ saved' = None
  BY <1>4, <1>6, <1>7, DispatchStarts DEF Idle
<1>9. \A a \in Ask : ran'[a] > 0 => a \in closed'
  BY <1>4 DEF OneRunner
<1>10. \A u, v \in Turn : turn'[u] # Idle /\ turn'[v] # Idle => u = v
  BY <1>7
<1> QED  BY <1>1, <1>2, <1>3, <1>8, <1>9, <1>10 DEF OneRunner

LEMMA GatedKeeps ==
  ASSUME NEW a \in Ask, Steady, Gated(a),
         \A u \in Turn : turn'[u] # Idle => turn'[u] = turn[u],
         (\E u \in Turn : turn'[u].phase = "running") => saved' = None
  PROVE  /\ OpenStash' /\ AskedBefore' /\ OneRunner' /\ RunsOnce'
         /\ server' = "up" /\ ~dead'
<1>. USE DEF Steady
<1>1. server' = "up" /\ ~dead' /\ RunsOnce'
  BY DEF Gated, Touched, RunsOnce
<1>2. a \notin closed /\ a # latest
  BY DEF Gated, AskedBefore
<1>3. closed' = closed \cup Replaced /\ a \notin closed'
  BY <1>2, LoadedIsOpen DEF Gated, Replaced
<1>4. latest' = a /\ pending' = [ask |-> a, age |-> 0]
      /\ (saved' # None => saved'.ask = a)
  BY DEF Gated, Put, Reachable
<1>5. OpenStash'
  BY <1>3, <1>4 DEF OpenStash
<1>6. Replaced \subseteq {latest}
  BY LoadedIsOpen DEF Replaced
<1>7. stashes' = [stashes EXCEPT ![a] = stashes[a] + 1] /\ stashes[a] = 0
  BY DEF Gated, Put
<1>8. \A b \in Ask : stashes'[b] = IF b = a THEN 1 ELSE stashes[b]
  BY <1>7 DEF TypeOK
<1>9. AskedBefore'
  BY <1>3, <1>4, <1>6, <1>8 DEF AskedBefore
<1>10. OneRunner'
  BY <1>3 DEF Gated, OneRunner, Idle
<1> QED  BY <1>1, <1>5, <1>9, <1>10

LEMMA UpBefore == server' = "up" /\ [Next]_vars => server = "up"
<1>1. ASSUME NEW t, NEW w, NEW via, Dispatch(t, w, via) PROVE server' = server
  BY <1>1 DEF Dispatch
<1>2. ASSUME NEW a, Gated(a) PROVE server' = server
  BY <1>2 DEF Gated
<1>3. ASSUME NEW t, NEW b, NEW w, Tap(t, b, w) PROVE server' = server
  BY <1>1, <1>3 DEF Tap
<1> QED
  BY <1>1, <1>2, <1>3 DEF Next, vars, Message, Aside, TurnAsks, TurnReplies, Act, Regate,
     JobAsks, Tick, Restart, Redis

LEMMA SteadyStep ==
  ASSUME Steady, TypeOK', [Next]_vars, server' = "up"
  PROVE  Steady'
<1>. USE DEF Steady
<1>1. ASSUME NEW t \in Turn, NEW w, Message(t, w) PROVE Steady'
  BY <1>1, DispatchKeeps DEF Message
<1>2. ASSUME NEW t \in Turn, NEW b \in buttons, NEW w, Tap(t, b, w) PROVE Steady'
  <2>1. CASE b.nonce = CurrentNonce
    BY <1>2, <2>1, DispatchKeeps DEF Tap
  <2>2. CASE b.nonce # CurrentNonce
    <3>1. Touched \/ UNCHANGED dead
      BY <1>2, <2>2, Zenon DEF Tap
    <3>2. server # "down"
      OBVIOUS
    <3>3. ~dead'
      BY <3>1, <3>2, Zenon DEF Touched
    <3> QED  BY <1>2, <2>2, <3>3 DEF Tap, OpenStash, AskedBefore, OneRunner, RunsOnce
  <2> QED  BY <2>1, <2>2
<1>3. ASSUME NEW t \in Turn, Aside(t) PROVE Steady'
  BY <1>3 DEF Aside, OpenStash, AskedBefore, OneRunner, RunsOnce
<1>4. ASSUME NEW t \in Turn, TurnReplies(t) PROVE Steady'
  <2>1. \A u \in Turn : turn'[u] # Idle => turn'[u] = turn[u]
    BY <1>4 DEF TurnReplies, TypeOK
  <2>2. OneRunner'
    BY <1>4, <2>1 DEF TurnReplies, OneRunner, Idle
  <2> QED  BY <1>4, <2>2 DEF TurnReplies, OpenStash, AskedBefore, RunsOnce
<1>5. ASSUME NEW t \in Turn, Act(t) PROVE Steady'
  <2>. DEFINE a == turn[t].ask
  <2>1. a \in Ask /\ a \in closed /\ ran[a] = 0
    BY <1>5 DEF Act, OneRunner, TypeOK, Busy, Idle
  <2>2. ran' = [ran EXCEPT ![a] = 1]
    BY <1>5, <2>1 DEF Act
  <2>3. \A b \in Ask : ran'[b] = IF b = a THEN 1 ELSE ran[b]
    BY <2>1, <2>2 DEF TypeOK
  <2>4. \A u \in Turn : turn'[u] = IF u = t THEN Idle ELSE turn[u]
    BY <1>5 DEF Act, TypeOK
  <2>5. \A u \in Turn : turn'[u] = Idle
    BY <1>5, <2>4 DEF Act, OneRunner, Idle
  <2>6. OneRunner'
    BY <1>5, <2>1, <2>3, <2>5 DEF Act, OneRunner, Idle
  <2>7. RunsOnce'
    BY <2>3 DEF RunsOnce
  <2> QED  BY <1>5, <2>6, <2>7 DEF Act, OpenStash, AskedBefore
<1>6. ASSUME NEW t \in Turn, Regate(t) PROVE Steady'
  <2>. DEFINE a == turn[t].ask
  <2>1. a \in Ask /\ ran[a] = 0 /\ saved = None /\ stashes[a] + 1 > 0
    BY <1>6 DEF Regate, OneRunner, TypeOK, Busy, Idle
  <2>2. /\ pending' = [ask |-> a, age |-> 0] /\ latest' = a
        /\ stashes' = [stashes EXCEPT ![a] = stashes[a] + 1]
        /\ closed' = (closed \cup Replaced) \ {a}
        /\ UNCHANGED <<saved, server, dead, ran>>
    BY <1>6 DEF Regate, Put
  <2>3. \A u \in Turn : turn'[u] = IF u = t THEN Idle ELSE turn[u]
    BY <1>6 DEF Regate, TypeOK
  <2>4. \A u \in Turn : turn'[u] = Idle
    BY <1>6, <2>3 DEF Regate, OneRunner, Idle
  <2>5. OpenStash'
    BY <2>1, <2>2 DEF OpenStash
  <2>6. Replaced \subseteq {latest}
    BY LoadedIsOpen DEF Replaced
  <2>7. \A b \in Ask : stashes'[b] = IF b = a THEN stashes[a] + 1 ELSE stashes[b]
    BY <2>1, <2>2 DEF TypeOK
  <2>8. AskedBefore'
    <3>. SUFFICES ASSUME NEW b \in Ask, b = latest' \/ b \in closed' PROVE stashes'[b] > 0
      BY DEF AskedBefore
    <3>1. CASE b = a
      BY <2>1, <2>7, <3>1
    <3>2. CASE b # a
      BY <2>2, <2>6, <2>7, <3>2 DEF AskedBefore
    <3> QED  BY <3>1, <3>2
  <2>9. OneRunner'
    BY <2>1, <2>2, <2>4 DEF OneRunner, Idle
  <2> QED  BY <2>2, <2>5, <2>8, <2>9 DEF RunsOnce
<1>7. ASSUME NEW t \in Turn, NEW a \in Ask, TurnAsks(t, a) PROVE Steady'
  <2>1. \A u \in Turn : turn'[u] # Idle => turn'[u] = turn[u]
    BY <1>7 DEF TurnAsks, TypeOK
  <2>2. \A u \in Turn : turn'[u] = Idle
    BY <1>7 DEF TurnAsks, OneRunner, TypeOK, Idle
  <2> QED  BY <1>7, <2>1, <2>2, GatedKeeps DEF TurnAsks, Idle
<1>8. ASSUME NEW a \in Ask, JobAsks(a) PROVE Steady'
  <2>1. saved' = None \/ saved' = saved
    BY <1>8, ConfirmAssumption DEF JobAsks, Gated
  <2>2. (\E u \in Turn : turn'[u].phase = "running") => saved' = None
    BY <1>8, <2>1 DEF JobAsks, OneRunner
  <2> QED  BY <1>8, <2>2, GatedKeeps DEF JobAsks
<1>9. ASSUME Tick PROVE Steady'
  <2>1. OpenStash'
    BY <1>9 DEF Tick, OpenStash, TypeOK, Stash, Saved, None
  <2>2. saved = None => saved' = None
    BY <1>9 DEF Tick
  <2> QED  BY <1>9, <2>1, <2>2 DEF Tick, AskedBefore, OneRunner, RunsOnce
<1>10. ASSUME Restart PROVE Steady'
  <2>1. OneRunner'
    BY <1>10 DEF Restart, OneRunner, Idle
  <2> QED  BY <1>10, <2>1 DEF Restart, OpenStash, AskedBefore, RunsOnce
<1>11. ASSUME Redis PROVE Steady'
  BY <1>11 DEF Redis
<1>12. CASE UNCHANGED vars
  BY <1>12 DEF vars, OpenStash, AskedBefore, OneRunner, RunsOnce
<1> QED
  BY <1>1, <1>2, <1>3, <1>4, <1>5, <1>6, <1>7, <1>8, <1>9, <1>10, <1>11, <1>12 DEF Next

LEMMA InitConfirm == Init => ConfirmInv
<1>1. Init => OpenStash /\ AskedBefore /\ server = "up" /\ ~dead
  BY AskAssumption DEF Init, OpenStash, AskedBefore
<1>2. Init => OneRunner /\ RunsOnce
  BY DEF Init, OneRunner, RunsOnce, Idle
<1> QED  BY <1>1, <1>2, TypeInit DEF ConfirmInv, Steady

(* While Redis has always answered, no action is executed twice, what is   *)
(* stashed or saved is the open ask put last, and what runs is closed.     *)
THEOREM ExecutedOnce == Spec => []ConfirmInv
<1>1. ConfirmInv /\ TypeOK' /\ [Next]_vars => ConfirmInv'
  <2>1. server' = "up" /\ [Next]_vars => server = "up"
    BY UpBefore
  <2> QED  BY <2>1, SteadyStep DEF ConfirmInv
<1> QED
  BY <1>1, InitConfirm, ConfirmTyped, PTL DEF Spec

(* What a yes starts is the open ask put to the owner last. *)
THEOREM YesIsForTheLatest ==
  Spec => YesMeansTheLatest
<1>. DEFINE Latest == \A t \in Turn, a \in Ask :
                        server = "up" /\ Starts(t, a) => a = latest /\ a \notin closed
<1>1. ConfirmInv /\ [Next]_vars => [Latest]_vars
  <2>. SUFFICES ASSUME ConfirmInv, Next, NEW t \in Turn, NEW a \in Ask,
                       server = "up", Starts(t, a)
                PROVE  a = latest /\ a \notin closed
    OBVIOUS
  <2>. USE DEF ConfirmInv, Steady, Starts
  <2>1. ASSUME NEW u \in Turn, NEW w, NEW via, Dispatch(u, w, via)
        PROVE  a = latest /\ a \notin closed
    BY <2>1, DispatchStarts, LoadedIsOpen DEF Idle
  <2>2. ASSUME turn' = turn PROVE FALSE
    BY <2>2 DEF Idle
  <2>3. ASSUME NEW u \in Turn, turn' = [turn EXCEPT ![u] = Idle] PROVE FALSE
    BY <2>3 DEF Idle, TypeOK
  <2>4. ASSUME Restart PROVE FALSE
    BY <2>4 DEF Restart, Idle
  <2> QED
    BY <2>1, <2>2, <2>3, <2>4
       DEF Next, Message, Tap, Aside, TurnAsks, TurnReplies, Act, Regate, JobAsks, Tick, Redis
<1> QED
  BY <1>1, ExecutedOnce, PTL DEF Spec, YesMeansTheLatest
-----------------------------------------------------------------------------
(* Whether Redis answers or not.                                           *)

(* The labels agree: the buttons of an ask carry a nonce of that ask, the  *)
(* process and Redis hold an ask under its own nonce, and no stash is      *)
(* younger than its ask.                                                   *)
Labelled ==
    /\ \A b \in buttons : b.about \in Ask => b.nonce[1] = b.about
    /\ pending = None => nonce = NoNonce
    /\ pending # None => /\ nonce = <<pending.ask, stashes[pending.ask]>>
                         /\ stashes[pending.ask] > 0
                         /\ age[pending.ask] = pending.age
    /\ saved # None => saved.nonce[1] = saved.ask /\ age[saved.ask] <= saved.age

LabelInv == TypeOK /\ Labelled /\ TapMeansItsAsk

(* The current nonce is one of the ask an answer would meet.               *)
LEMMA NonceOfLoaded ==
  ASSUME TypeOK, Labelled, Loaded # None, CurrentNonce # NoNonce
  PROVE  CurrentNonce[1] = Loaded.ask
<1>1. CASE pending # None
  BY <1>1 DEF Loaded, CurrentNonce, Labelled, TypeOK, Stash, NoNonce
<1>2. CASE pending = None
  BY <1>2 DEF Loaded, CurrentNonce, Labelled, Record
<1> QED  BY <1>1, <1>2

(* The ask an answer would meet, if it has not expired, is fresh.          *)
LEMMA LoadedIsFresh ==
  ASSUME TypeOK, Labelled, Loaded # None, ~Expired(Loaded)
  PROVE  Loaded.ask \in Ask /\ age[Loaded.ask] <= TTL
<1>1. CASE pending # None
  <2>1. pending \in Stash /\ Loaded = pending /\ age[pending.ask] = pending.age
    BY <1>1 DEF Loaded, Labelled, TypeOK
  <2> QED  BY <2>1 DEF Expired, Stash, Age
<1>2. CASE pending = None
  <2>1. saved \in Saved /\ Loaded.ask = saved.ask /\ age[saved.ask] <= saved.age
    BY <1>2 DEF Loaded, Labelled, Record, TypeOK
  <2>2. saved.ask \in Ask /\ saved.age \in 0 .. TTL - 1 /\ age[saved.ask] \in 0 .. TTL + 1
    BY <2>1 DEF Saved, TypeOK, Age
  <2> QED  BY <2>1, <2>2
<1> QED  BY <1>1, <1>2

LEMMA OutcomeRuns ==
  ASSUME NEW p, NEW word, NEW via, Outcome(p, word, via).phase = "running"
  PROVE  /\ p # None /\ ~Expired(p)
         /\ Outcome(p, word, via).ask = p.ask /\ Outcome(p, word, via).via = via
BY DEF Outcome, Idle

LEMMA LabelledDispatch ==
  ASSUME LabelInv, NEW t \in Turn, NEW word, NEW via, Dispatch(t, word, via),
         buttons' \subseteq buttons, via \in Ask => (Loaded # None => via = Loaded.ask)
  PROVE  Labelled' /\ TapMeansItsAsk'
<1>. USE DEF LabelInv
<1>1. /\ (pending' = None /\ nonce' = NoNonce) \/ UNCHANGED <<pending, nonce>>
      /\ saved' = None \/ saved' = saved
      /\ UNCHANGED <<stashes, age>>
  BY DEF Dispatch, Popped
<1>2. Labelled'
  BY <1>1 DEF Labelled
<1>3. \A u \in Turn : turn'[u] = IF u = t THEN Outcome(Loaded, word, via) ELSE turn[u]
  BY DEF Dispatch, TypeOK
<1>4. TapMeansItsAsk'
  BY <1>3, OutcomeRuns DEF TapMeansItsAsk
<1> QED  BY <1>2, <1>4

(* A fresh ask relabels the stash and its buttons.                         *)
LEMMA LabelledPut ==
  ASSUME LabelInv, TypeOK', NEW a \in Ask, Put(a),
         \/ saved' = saved \/ saved' = None
         \/ saved' = [ask |-> a, nonce |-> <<a, 1>>, age |-> 0],
         \A b \in buttons' : b \in buttons \/ b = [about |-> a, nonce |-> nonce']
  PROVE  Labelled'
<1>. USE DEF LabelInv
<1>1. /\ pending' = [ask |-> a, age |-> 0] /\ nonce' = <<a, stashes[a] + 1>>
      /\ \A b \in Ask : age'[b] = IF b = a THEN 0 ELSE age[b]
      /\ \A b \in Ask : stashes'[b] = IF b = a THEN stashes[a] + 1 ELSE stashes[b]
  BY DEF Put, TypeOK
<1>2. /\ pending' # None /\ pending'.ask = a /\ pending'.age = 0 /\ nonce'[1] = a
      /\ stashes'[a] > 0
  BY <1>1 DEF None, TypeOK
<1>3. \A b \in buttons' : b.about \in Ask => b.nonce[1] = b.about
  BY <1>2 DEF Labelled
<1>4. saved' # None => saved'.nonce[1] = saved'.ask /\ age'[saved'.ask] <= saved'.age
  <2>1. CASE saved' = saved /\ saved # None
    <3>1. saved.ask \in Ask /\ saved.age \in Nat
      BY <2>1 DEF TypeOK, Saved
    <3> QED  BY <1>1, <2>1, <3>1 DEF Labelled
  <2>2. CASE saved' = [ask |-> a, nonce |-> <<a, 1>>, age |-> 0]
    BY <1>1, <2>2
  <2> QED  BY <2>1, <2>2
<1> QED  BY <1>1, <1>2, <1>3, <1>4 DEF Labelled

LEMMA LabelStep == LabelInv /\ TypeOK' /\ [Next]_vars => LabelInv'
<1>. SUFFICES ASSUME LabelInv, TypeOK', [Next]_vars PROVE Labelled' /\ TapMeansItsAsk'
  BY DEF LabelInv
<1>. USE DEF LabelInv
<1>1. ASSUME NEW t \in Turn, NEW w, Message(t, w) PROVE Labelled' /\ TapMeansItsAsk'
  BY <1>1, AskAssumption, LabelledDispatch DEF Message
<1>2. ASSUME NEW t \in Turn, NEW b \in buttons, NEW w, Tap(t, b, w)
      PROVE  Labelled' /\ TapMeansItsAsk'
  <2>1. CASE b.nonce = CurrentNonce
    <3>1. b \in Button
      BY DEF TypeOK
    <3>2. b.nonce # NoNonce
      BY <3>1 DEF Button, Nonce, NoNonce
    <3>3. b.about \in Ask => (Loaded # None => b.about = Loaded.ask)
      BY <2>1, <3>2, NonceOfLoaded DEF Labelled
    <3>4. buttons' \subseteq buttons
      BY <1>2 DEF Tap
    <3> QED  BY <1>2, <2>1, <3>3, <3>4, LabelledDispatch DEF Tap
  <2>2. CASE b.nonce # CurrentNonce
    <3>1. buttons' \subseteq buttons
      BY <1>2 DEF Tap
    <3>2. UNCHANGED <<pending, nonce, saved, turn, stashes, age>>
      BY <1>2, <2>2 DEF Tap
    <3> QED  BY <3>1, <3>2 DEF Labelled, TapMeansItsAsk
  <2> QED  BY <2>1, <2>2
<1>3. ASSUME NEW via, NEW t \in Turn,
             buttons' = buttons \cup Keyboard(t, via, Plain, pending, nonce),
             UNCHANGED <<pending, nonce, saved, stashes, age>>
      PROVE  Labelled'
  <2>1. \A b \in buttons' : b.about \in Ask => b \in buttons
    BY <1>3, AskAssumption DEF Keyboard
  <2> QED  BY <1>3, <2>1 DEF Labelled
<1>4. ASSUME NEW t \in Turn, turn' = [turn EXCEPT ![t] = Idle] \/ turn' = turn
      PROVE  TapMeansItsAsk'
  BY <1>4 DEF TapMeansItsAsk, TypeOK, Idle
<1>5. ASSUME NEW t \in Turn, Aside(t) \/ TurnReplies(t) \/ Act(t)
      PROVE  Labelled' /\ TapMeansItsAsk'
  BY <1>3, <1>4, <1>5 DEF Aside, TurnReplies, Act
<1>6. ASSUME NEW t \in Turn, Regate(t) PROVE Labelled' /\ TapMeansItsAsk'
  <2>. DEFINE a == turn[t].ask
  <2>1. a \in Ask /\ Put(a) /\ saved' = saved
    BY <1>6 DEF Regate, TypeOK, Busy, Idle
  <2>2. \A b \in buttons' : b \in buttons \/ b = [about |-> a, nonce |-> nonce']
    BY <1>6 DEF Regate, Keyboard
  <2>. HIDE DEF a
  <2>3. Labelled'
    BY <2>1, <2>2, LabelledPut
  <2> QED  BY <1>4, <1>6, <2>3 DEF Regate
<1>7. ASSUME NEW a \in Ask, Gated(a),
             \A b \in buttons' : b \in buttons \/ b = [about |-> a, nonce |-> nonce']
      PROVE  Labelled'
  BY <1>7, LabelledPut DEF Gated
<1>8. ASSUME NEW t \in Turn, NEW a \in Ask, TurnAsks(t, a) PROVE Labelled' /\ TapMeansItsAsk'
  BY <1>4, <1>7, <1>8 DEF TurnAsks, Keyboard
<1>9. ASSUME NEW a \in Ask, JobAsks(a) PROVE Labelled' /\ TapMeansItsAsk'
  <2>1. TapMeansItsAsk'
    BY <1>9 DEF JobAsks, TapMeansItsAsk
  <2> QED  BY <1>7, <1>9, <2>1 DEF JobAsks
<1>10. ASSUME Tick PROVE Labelled' /\ TapMeansItsAsk'
  <2>1. pending # None => /\ pending' # None /\ pending'.ask = pending.ask
                          /\ pending'.age = Older(pending.age) /\ pending.ask \in Ask
    BY <1>10 DEF Tick, TypeOK, Stash, None
  <2>2. saved' # None => /\ saved # None /\ saved'.ask = saved.ask /\ saved'.nonce = saved.nonce
                         /\ saved'.age = saved.age + 1 /\ saved.ask \in Ask
                         /\ saved.age \in 0 .. TTL - 1
    BY <1>10 DEF Tick, TypeOK, Saved
  <2>3. \A a \in Ask : age'[a] = Older(age[a]) /\ age[a] \in Age
    BY <1>10 DEF Tick, TypeOK
  <2>4. \A d \in Age : Older(d) <= d + 1
    BY DEF Age, Older
  <2>5. saved' # None => saved'.nonce[1] = saved'.ask /\ age'[saved'.ask] <= saved'.age
    <3>. SUFFICES ASSUME saved' # None
                  PROVE  saved'.nonce[1] = saved'.ask /\ age'[saved'.ask] <= saved'.age
      OBVIOUS
    <3>1. Older(age[saved.ask]) <= age[saved.ask] + 1 /\ age[saved.ask] \in Int
      BY <2>2, <2>3, <2>4 DEF Age
    <3>2. Older(age[saved.ask]) \in Int
      BY <2>2, <2>3 DEF Age, Older
    <3>3. age[saved.ask] <= saved.age /\ saved.nonce[1] = saved.ask
      BY <2>2 DEF Labelled
    <3> QED  BY <2>2, <2>3, <3>1, <3>2, <3>3
  <2>6. pending' # None => pending # None
    BY <1>10 DEF Tick
  <2>7. pending' # None => /\ nonce' = <<pending'.ask, stashes'[pending'.ask]>>
                           /\ stashes'[pending'.ask] > 0
                           /\ age'[pending'.ask] = pending'.age
    BY <1>10, <2>1, <2>3, <2>6 DEF Tick, Labelled
  <2>8. pending' = None => nonce' = NoNonce
    BY <1>10, <2>1 DEF Tick, Labelled
  <2> QED  BY <1>10, <2>5, <2>7, <2>8 DEF Tick, Labelled, TapMeansItsAsk
<1>11. ASSUME Restart PROVE Labelled' /\ TapMeansItsAsk'
  BY <1>11 DEF Restart, Labelled, TapMeansItsAsk, Idle
<1>12. ASSUME Redis \/ UNCHANGED vars PROVE Labelled' /\ TapMeansItsAsk'
  BY <1>12 DEF Redis, vars, Labelled, TapMeansItsAsk
<1> QED
  BY <1>1, <1>2, <1>5, <1>6, <1>8, <1>9, <1>10, <1>11, <1>12 DEF Next

LEMMA LabelInvariant == Spec => []LabelInv
<1>1. Init => LabelInv
  BY TypeInit DEF Init, LabelInv, Labelled, TapMeansItsAsk, Idle
<1> QED
  BY <1>1, LabelStep, ConfirmTyped, PTL DEF Spec

-----------------------------------------------------------------------------
(* The buttons outlive a restart.                                          *)

(* While an ask of the loop is the open one, Redis holds it with its age.  *)
Survives ==
    \A a \in Loop :
        latest = a /\ a \notin closed /\ age[a] < TTL /\ stashes[a] = 1
            => saved = [ask |-> a, nonce |-> <<a, 1>>, age |-> age[a]]

LEMMA SurvivesStep ==
  ASSUME Steady, Steady', Labelled, Survives, [Next]_vars
  PROVE  Survives'
<1>. USE DEF Steady
<1>1. ASSUME UNCHANGED <<latest, closed, age, stashes, saved>> PROVE Survives'
  BY <1>1 DEF Survives
<1>2. ASSUME NEW t \in Turn, NEW word, NEW via, Dispatch(t, word, via) PROVE Survives'
  <2>1. CASE Loaded = None
    BY <1>1, <1>2, <2>1 DEF Dispatch
  <2>2. CASE Loaded # None
    <3>1. latest' \in closed'
      BY <1>2, <2>2, LoadedIsOpen DEF Dispatch
    <3> QED  BY <3>1 DEF Survives
  <2> QED  BY <2>1, <2>2
<1>3. ASSUME NEW a \in Ask, Gated(a) PROVE Survives'
  <2>1. latest' = a /\ age'[a] = 0
    BY <1>3 DEF Gated, Put, TypeOK
  <2>2. a \in Loop => saved' = [ask |-> a, nonce |-> <<a, 1>>, age |-> 0]
    BY <1>3 DEF Gated, Reachable
  <2> QED  BY <2>1, <2>2 DEF Survives
<1>4. ASSUME NEW t \in Turn, Regate(t) PROVE Survives'
  <2>. DEFINE a == turn[t].ask
  <2>1. a \in Ask /\ stashes[a] \in Nat /\ stashes[a] > 0
    BY <1>4 DEF Regate, OneRunner, AskedBefore, TypeOK, Busy, Idle
  <2>2. latest' = a /\ stashes' = [stashes EXCEPT ![a] = @ + 1]
    BY <1>4 DEF Regate, Put
  <2>. HIDE DEF a
  <2>3. latest' = a /\ stashes'[a] = stashes[a] + 1
    BY <2>1, <2>2 DEF TypeOK
  <2>4. stashes'[a] # 1
    BY <2>1, <2>3
  <2> QED  BY <2>3, <2>4 DEF Survives
<1>5. CASE Tick
  <2>. SUFFICES ASSUME NEW a \in Loop, latest = a, a \notin closed, age'[a] < TTL, stashes[a] = 1
                PROVE  saved' = [ask |-> a, nonce |-> <<a, 1>>, age |-> age'[a]]
    BY <1>5 DEF Tick, Survives
  <2>1. a \in Ask /\ age[a] \in Age /\ age'[a] = Older(age[a])
    BY <1>5, ConfirmAssumption DEF Tick, TypeOK
  <2>2. age[a] < TTL - 1 /\ age'[a] = age[a] + 1
    BY <2>1 DEF Older, Age
  <2>3. saved = [ask |-> a, nonce |-> <<a, 1>>, age |-> age[a]]
    BY <2>1, <2>2 DEF Survives, Age
  <2>4. saved # None /\ saved.age = age[a] /\ saved.age # TTL - 1
    BY <2>1, <2>2, <2>3 DEF None, Age
  <2>5. saved' = [saved EXCEPT !.age = @ + 1]
    BY <1>5, <2>4 DEF Tick
  <2> QED  BY <2>2, <2>3, <2>5
<1>6. ASSUME NEW t \in Turn, NEW b \in buttons, NEW w, Tap(t, b, w) PROVE Survives'
  BY <1>1, <1>2, <1>6 DEF Tap
<1> QED
  BY <1>1, <1>2, <1>3, <1>4, <1>5, <1>6
     DEF Next, vars, Message, Aside, TurnAsks, TurnReplies, Act, JobAsks, Restart, Redis

LEMMA SurvivesInvariant == Spec => [](server = "up" => Survives)
<1>1. Init => Survives
  BY AskAssumption, ConfirmAssumption DEF Init, Survives
<1>2. ConfirmInv /\ ConfirmInv' /\ LabelInv /\ (server = "up" => Survives) /\ [Next]_vars
        => (server = "up" => Survives)'
  <2>1. server' = "up" /\ [Next]_vars => server = "up"
    BY UpBefore
  <2> QED  BY <2>1, SurvivesStep DEF ConfirmInv, LabelInv
<1> QED
  BY <1>1, <1>2, ExecutedOnce, LabelInvariant, PTL DEF Spec

(* A tap on the buttons of an ask executes that ask or nothing; an ask of  *)
(* the loop is answered by its buttons for as long as it is open and       *)
(* fresh, whatever restarts come between, until Redis fails.               *)
THEOREM AsksAreAnswered == Spec => []AsksInv
<1>1. ConfirmInv /\ LabelInv /\ (server = "up" => Survives) => AsksInv
  <2>. SUFFICES ASSUME ConfirmInv, LabelInv, server = "up" => Survives,
                       NEW a \in Loop, server = "up", latest = a, a \notin closed,
                       age[a] < TTL, stashes[a] = 1
                PROVE  CurrentNonce = <<a, 1>>
    BY DEF AsksInv, Answerable, LabelInv
  <2>1. saved = [ask |-> a, nonce |-> <<a, 1>>, age |-> age[a]]
    BY DEF Survives
  <2>2. Record = saved /\ saved # None
    BY <2>1 DEF ConfirmInv, Steady, Record, Reachable, None
  <2>3. CASE pending = None
    BY <2>1, <2>2, <2>3 DEF CurrentNonce, LabelInv, Labelled
  <2>4. CASE pending # None
    <3>1. pending.ask = a /\ nonce = <<a, 1>>
      BY <2>4 DEF ConfirmInv, Steady, OpenStash, LabelInv, Labelled
    <3> QED  BY <3>1 DEF CurrentNonce, NoNonce
  <2> QED  BY <2>3, <2>4
<1> QED
  BY <1>1, ExecutedOnce, LabelInvariant, SurvivesInvariant, PTL

(* What a yes starts was put to the owner at most TTL ago.                 *)
LEMMA YesIsFresh == Spec => OnlyFresh
<1>. DEFINE Recent == \A t \in Turn, a \in Ask : Starts(t, a) => age[a] <= TTL
<1>1. LabelInv /\ [Next]_vars => [Recent]_vars
  <2>. SUFFICES ASSUME LabelInv, Next, NEW t \in Turn, NEW a \in Ask, Starts(t, a)
                PROVE  age[a] <= TTL
    OBVIOUS
  <2>. USE DEF LabelInv, Starts
  <2>1. ASSUME NEW u \in Turn, NEW w, NEW via, Dispatch(u, w, via) PROVE age[a] <= TTL
    <3>1. turn'[t] = IF t = u THEN Outcome(Loaded, w, via) ELSE turn[t]
      BY <2>1 DEF Dispatch, TypeOK
    <3>2. t = u
      BY <3>1 DEF Idle
    <3>3. Loaded # None /\ ~Expired(Loaded) /\ Loaded.ask = a
      BY <3>1, <3>2, OutcomeRuns
    <3> QED  BY <3>3, LoadedIsFresh
  <2>2. ASSUME turn' = turn PROVE FALSE
    BY <2>2 DEF Idle
  <2>3. ASSUME NEW u \in Turn, turn' = [turn EXCEPT ![u] = Idle] PROVE FALSE
    BY <2>3 DEF Idle, TypeOK
  <2>4. ASSUME Restart PROVE FALSE
    BY <2>4 DEF Restart, Idle
  <2> QED
    BY <2>1, <2>2, <2>3, <2>4
       DEF Next, Message, Tap, Aside, TurnAsks, TurnReplies, Act, Regate, JobAsks, Tick, Redis
<1> QED
  BY <1>1, LabelInvariant, PTL DEF Spec, OnlyFresh

(* A yes answers the ask it was given to, while Redis has always answered, *)
(* and only a fresh one, whether Redis answers or not.                     *)
THEOREM YesIsForAFreshAsk == Spec => YesIsExact
<1>. QED
  BY YesIsForTheLatest, YesIsFresh DEF YesIsExact
=============================================================================

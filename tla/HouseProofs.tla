----------------------------- MODULE HouseProofs -----------------------------
(***************************************************************************)
(* The duties' memory, the library and the voice, for any number of items, *)
(* files, versions, Echos, edits and failures.                             *)
(***************************************************************************)
EXTENDS Voice, Library, Duties, FiniteSetTheorems, TLAPS

-----------------------------------------------------------------------------
(***************************************************************************)
(* The duties.  Each duty speaks of its own items, and each kind keeps its *)
(* own account between what is marked, what is on its way and what was     *)
(* told: an alert on its way is due and unmarked, an item of the steward's *)
(* or the brief's on its way is marked.  What is due and unmarked has been *)
(* told no oftener than something went wrong; a question on its way was    *)
(* heard only if its message is being sent once more.                      *)
(***************************************************************************)
OwnLines ==
    /\ lines["alerts"] \subseteq Alert /\ lines["settle"] \subseteq Stewards
    /\ lines["brief"] \subseteq Question
    /\ \A k \in Duty \ busy : lines[k] = {}
    /\ passe \subseteq lines["alerts"]

AlertAccount ==
    \A i \in Alert :
        /\ told[i] <= 1 + amiss
        /\ i \in mark => told[i] > 0 \/ i \in unsure
        /\ i \in due \ mark => told[i] <= amiss
        /\ i \in lines["alerts"] \ passe => i \in due \ mark

StewardAccount ==
    \A i \in Stewards :
        /\ told[i] <= 1 + amiss + held
        /\ i \in mark => told[i] > 0 \/ i \in unsure \/ i \in lost \/ i \in lines["settle"]
        /\ i \in due \ mark => told[i] <= amiss + held
        /\ i \in lines["settle"] => i \in mark /\ told[i] <= amiss + held

QuestionAccount ==
    \A q \in Question :
        /\ told[q] <= 2 /\ told[q] <= 1 + amiss
        /\ q \in mark => told[q] > 0 \/ q \in unsure \/ q \in lost \/ q \in lines["brief"]
        /\ q \notin mark => told[q] = 0
        /\ q \in lines["brief"] =>
                /\ q \in mark /\ told[q] <= amiss
                /\ told[q] <= (IF q \in resent THEN 1 ELSE 0)

DutiesIInv ==
    DutiesTypeOK /\ OwnLines /\ AlertAccount /\ StewardAccount /\ QuestionAccount

LEMMA InitDuties == DutiesInit => DutiesIInv
<1> SUFFICES ASSUME DutiesInit PROVE DutiesIInv
  OBVIOUS
<1> USE DutiesAssumption DEF DutiesInit
<1>1. DutiesTypeOK
  BY DEF DutiesTypeOK
<1>2. OwnLines
  BY DEF OwnLines, Duty
<1>3. AlertAccount
  BY DEF AlertAccount, Item, OwnLines, Duty
<1>4. StewardAccount
  BY DEF StewardAccount, Item, OwnLines, Duty
<1>5. QuestionAccount
  BY DEF QuestionAccount, Item, OwnLines, Duty
<1> QED  BY <1>1, <1>2, <1>3, <1>4, <1>5 DEF DutiesIInv

LEMMA StepDuties == DutiesIInv /\ [DutiesNext]_dutiesVars => DutiesIInv'
<1> SUFFICES ASSUME DutiesIInv, [DutiesNext]_dutiesVars PROVE DutiesIInv'
  OBVIOUS
<1> USE DutiesAssumption DEF Item, Stewards, Duty
<1>0. DutiesTypeOK /\ OwnLines /\ AlertAccount /\ StewardAccount /\ QuestionAccount
  BY DEF DutiesIInv
<1>a. CASE LooksAround
  <2> USE DEF LooksAround, Unsaid, Says, Held
  <2>1. DutiesTypeOK'
    <3>1. lines' \in [Duty -> SUBSET Item]
      BY <1>0, <1>a DEF DutiesTypeOK
    <3>2. busy' \subseteq Duty /\ mark' \subseteq Item /\ passe' \subseteq Alert
          /\ resent' \subseteq Item /\ unsure' \subseteq Item
      BY <1>0, <1>a DEF DutiesTypeOK
    <3>3. told' \in [Item -> Nat]
      BY <1>0, <1>a DEF DutiesTypeOK
    <3>4. held' \in 0 .. MaxNight /\ amiss' \in 0 .. MaxAmiss
      BY <1>0, <1>a DEF DutiesTypeOK
    <3> QED  BY <1>0, <1>a, <3>1, <3>2, <3>3, <3>4 DEF DutiesTypeOK
  <2>2. OwnLines'
    <3>1. lines'["settle"] = lines["settle"] /\ lines'["brief"] = lines["brief"]
      BY <1>0, <1>a DEF DutiesTypeOK
    <3>2. lines'["alerts"] = {} \/ "alerts" \in busy'
      BY <1>0, <1>a DEF DutiesTypeOK, OwnLines
    <3>3. passe' \subseteq lines'["alerts"] /\ busy \ {"alerts"} \subseteq busy'
      BY <1>0, <1>a, <3>1 DEF DutiesTypeOK, OwnLines
    <3>4. /\ lines'["alerts"] \subseteq Alert /\ lines'["settle"] \subseteq Stewards
          /\ lines'["brief"] \subseteq Question
      BY <1>0, <1>a, <3>1 DEF DutiesTypeOK, OwnLines
    <3> QED  BY <1>0, <3>1, <3>2, <3>3, <3>4 DEF OwnLines
  <2>3. AlertAccount'
    BY <1>0, <1>a DEF DutiesTypeOK, OwnLines, AlertAccount
  <2>4. StewardAccount'
    BY <1>0, <1>a DEF DutiesTypeOK, OwnLines, StewardAccount
  <2>5. QuestionAccount'
    BY <1>0, <1>a DEF DutiesTypeOK, OwnLines, QuestionAccount
  <2> QED  BY <2>1, <2>2, <2>3, <2>4, <2>5 DEF DutiesIInv
<1>b. ASSUME NEW i \in Alert, Alerts(i) PROVE DutiesIInv'
  <2> USE DEF Alerts, Turn, Delivered, Heard, Misses, ToldOf, MarksIt, Drops, EndsDuty
  <2>1. DutiesTypeOK'
    <3>1. lines' \in [Duty -> SUBSET Item]
      BY <1>0, <1>b DEF DutiesTypeOK
    <3>2. busy' \subseteq Duty /\ mark' \subseteq Item /\ passe' \subseteq Alert
          /\ resent' \subseteq Item /\ unsure' \subseteq Item
      BY <1>0, <1>b DEF DutiesTypeOK
    <3>3. told' \in [Item -> Nat]
      BY <1>0, <1>b DEF DutiesTypeOK
    <3>4. held' \in 0 .. MaxNight /\ amiss' \in 0 .. MaxAmiss
      BY <1>0, <1>b DEF DutiesTypeOK
    <3> QED  BY <1>0, <1>b, <3>1, <3>2, <3>3, <3>4 DEF DutiesTypeOK
  <2>2. OwnLines'
    <3>1. lines'["settle"] = lines["settle"] /\ lines'["brief"] = lines["brief"]
      BY <1>0, <1>b DEF DutiesTypeOK
    <3>2. lines'["alerts"] = {} \/ "alerts" \in busy'
      BY <1>0, <1>b DEF DutiesTypeOK, OwnLines
    <3>3. passe' \subseteq lines'["alerts"] /\ busy \ {"alerts"} \subseteq busy'
      BY <1>0, <1>b, <3>1 DEF DutiesTypeOK, OwnLines
    <3>4. /\ lines'["alerts"] \subseteq Alert /\ lines'["settle"] \subseteq Stewards
          /\ lines'["brief"] \subseteq Question
      BY <1>0, <1>b, <3>1 DEF DutiesTypeOK, OwnLines
    <3> QED  BY <1>0, <3>1, <3>2, <3>3, <3>4 DEF OwnLines
  <2>3. AlertAccount'
    BY <1>0, <1>b DEF DutiesTypeOK, OwnLines, AlertAccount
  <2>4. StewardAccount'
    BY <1>0, <1>b DEF DutiesTypeOK, OwnLines, StewardAccount
  <2>5. QuestionAccount'
    BY <1>0, <1>b DEF DutiesTypeOK, OwnLines, QuestionAccount
  <2> QED  BY <2>1, <2>2, <2>3, <2>4, <2>5 DEF DutiesIInv
<1>c. ASSUME NEW i \in Alert, AlertFails(i) PROVE DutiesIInv'
  <2> USE DEF AlertFails, Turn, Undelivered, Perhaps, Heard, Misses, ToldOf, Drops, EndsDuty
  <2>1. DutiesTypeOK'
    <3>1. lines' \in [Duty -> SUBSET Item]
      BY <1>0, <1>c DEF DutiesTypeOK
    <3>2. busy' \subseteq Duty /\ mark' \subseteq Item /\ passe' \subseteq Alert
          /\ resent' \subseteq Item /\ unsure' \subseteq Item
      BY <1>0, <1>c DEF DutiesTypeOK
    <3>3. told' \in [Item -> Nat]
      BY <1>0, <1>c DEF DutiesTypeOK
    <3>4. held' \in 0 .. MaxNight /\ amiss' \in 0 .. MaxAmiss
      BY <1>0, <1>c DEF DutiesTypeOK
    <3> QED  BY <1>0, <1>c, <3>1, <3>2, <3>3, <3>4 DEF DutiesTypeOK
  <2>2. OwnLines'
    <3>1. lines'["settle"] = lines["settle"] /\ lines'["brief"] = lines["brief"]
      BY <1>0, <1>c DEF DutiesTypeOK
    <3>2. lines'["alerts"] = {} \/ "alerts" \in busy'
      BY <1>0, <1>c DEF DutiesTypeOK, OwnLines
    <3>3. passe' \subseteq lines'["alerts"] /\ busy \ {"alerts"} \subseteq busy'
      BY <1>0, <1>c, <3>1 DEF DutiesTypeOK, OwnLines
    <3>4. /\ lines'["alerts"] \subseteq Alert /\ lines'["settle"] \subseteq Stewards
          /\ lines'["brief"] \subseteq Question
      BY <1>0, <1>c, <3>1 DEF DutiesTypeOK, OwnLines
    <3> QED  BY <1>0, <3>1, <3>2, <3>3, <3>4 DEF OwnLines
  <2>3. AlertAccount'
    BY <1>0, <1>c DEF DutiesTypeOK, OwnLines, AlertAccount
  <2>4. StewardAccount'
    BY <1>0, <1>c DEF DutiesTypeOK, OwnLines, StewardAccount
  <2>5. QuestionAccount'
    BY <1>0, <1>c DEF DutiesTypeOK, OwnLines, QuestionAccount
  <2> QED  BY <2>1, <2>2, <2>3, <2>4, <2>5 DEF DutiesIInv
<1>d. CASE Settles
  <2> USE DEF Settles, Unsaid, Looked, Says, Held
  <2>1. DutiesTypeOK'
    <3>1. lines' \in [Duty -> SUBSET Item]
      BY <1>0, <1>d DEF DutiesTypeOK
    <3>2. busy' \subseteq Duty /\ mark' \subseteq Item /\ passe' \subseteq Alert
          /\ resent' \subseteq Item /\ unsure' \subseteq Item
      BY <1>0, <1>d DEF DutiesTypeOK
    <3>3. told' \in [Item -> Nat]
      BY <1>0, <1>d DEF DutiesTypeOK
    <3>4. held' \in 0 .. MaxNight /\ amiss' \in 0 .. MaxAmiss
      BY <1>0, <1>d DEF DutiesTypeOK
    <3> QED  BY <1>0, <1>d, <3>1, <3>2, <3>3, <3>4 DEF DutiesTypeOK
  <2>2. OwnLines'
    <3>1. lines'["alerts"] = lines["alerts"] /\ lines'["brief"] = lines["brief"]
      BY <1>0, <1>d DEF DutiesTypeOK
    <3>2. lines'["settle"] = {} \/ "settle" \in busy'
      BY <1>0, <1>d DEF DutiesTypeOK, OwnLines
    <3>3. passe' \subseteq lines'["alerts"] /\ busy \ {"settle"} \subseteq busy'
      BY <1>0, <1>d, <3>1 DEF DutiesTypeOK, OwnLines
    <3>4. /\ lines'["alerts"] \subseteq Alert /\ lines'["settle"] \subseteq Stewards
          /\ lines'["brief"] \subseteq Question
      BY <1>0, <1>d, <3>1 DEF DutiesTypeOK, OwnLines
    <3> QED  BY <1>0, <3>1, <3>2, <3>3, <3>4 DEF OwnLines
  <2>3. AlertAccount'
    BY <1>0, <1>d DEF DutiesTypeOK, OwnLines, AlertAccount
  <2>4. StewardAccount'
    BY <1>0, <1>d DEF DutiesTypeOK, OwnLines, StewardAccount
  <2>5. QuestionAccount'
    BY <1>0, <1>d DEF DutiesTypeOK, OwnLines, QuestionAccount
  <2> QED  BY <2>1, <2>2, <2>3, <2>4, <2>5 DEF DutiesIInv
<1>e. CASE SettleTold
  <2> USE DEF SettleTold, Delivered, Heard, Misses, ToldOf, EndsDuty
  <2>1. DutiesTypeOK'
    BY <1>0, <1>e DEF DutiesTypeOK, OwnLines
  <2>2. OwnLines'
    BY <1>0, <1>e DEF DutiesTypeOK, OwnLines
  <2>3. AlertAccount'
    BY <1>0, <1>e DEF DutiesTypeOK, OwnLines, AlertAccount
  <2>4. StewardAccount'
    BY <1>0, <1>e DEF DutiesTypeOK, OwnLines, StewardAccount
  <2>5. QuestionAccount'
    BY <1>0, <1>e DEF DutiesTypeOK, OwnLines, QuestionAccount
  <2> QED  BY <2>1, <2>2, <2>3, <2>4, <2>5 DEF DutiesIInv
<1>f. CASE SettleFails
  <2> USE DEF SettleFails, Undelivered, Perhaps, Heard, Misses, ToldOf, TakenBack, EndsDuty
  <2>1. DutiesTypeOK'
    BY <1>0, <1>f DEF DutiesTypeOK, OwnLines
  <2>2. OwnLines'
    BY <1>0, <1>f DEF DutiesTypeOK, OwnLines
  <2>3. AlertAccount'
    BY <1>0, <1>f DEF DutiesTypeOK, OwnLines, AlertAccount
  <2>4. StewardAccount'
    BY <1>0, <1>f DEF DutiesTypeOK, OwnLines, StewardAccount
  <2>5. QuestionAccount'
    BY <1>0, <1>f DEF DutiesTypeOK, OwnLines, QuestionAccount
  <2> QED  BY <2>1, <2>2, <2>3, <2>4, <2>5 DEF DutiesIInv
<1>g. CASE Composes
  <2> USE DEF Composes, Unsaid, Says
  <2>1. DutiesTypeOK'
    BY <1>0, <1>g DEF DutiesTypeOK, OwnLines
  <2>2. OwnLines'
    BY <1>0, <1>g DEF DutiesTypeOK, OwnLines
  <2>3. AlertAccount'
    BY <1>0, <1>g DEF DutiesTypeOK, OwnLines, AlertAccount
  <2>4. StewardAccount'
    BY <1>0, <1>g DEF DutiesTypeOK, OwnLines, StewardAccount
  <2>5. QuestionAccount'
    BY <1>0, <1>g DEF DutiesTypeOK, OwnLines, QuestionAccount
  <2> QED  BY <2>1, <2>2, <2>3, <2>4, <2>5 DEF DutiesIInv
<1>h. CASE BriefTold
  <2> USE DEF BriefTold, Delivered, Heard, Misses, ToldOf, EndsDuty
  <2>1. DutiesTypeOK'
    BY <1>0, <1>h DEF DutiesTypeOK, OwnLines
  <2>2. OwnLines'
    BY <1>0, <1>h DEF DutiesTypeOK, OwnLines
  <2>3. AlertAccount'
    BY <1>0, <1>h DEF DutiesTypeOK, OwnLines, AlertAccount
  <2>4. StewardAccount'
    BY <1>0, <1>h DEF DutiesTypeOK, OwnLines, StewardAccount
  <2>5. QuestionAccount'
    BY <1>0, <1>h DEF DutiesTypeOK, OwnLines, QuestionAccount
  <2> QED  BY <2>1, <2>2, <2>3, <2>4, <2>5 DEF DutiesIInv
<1>i. CASE BriefFails
  <2> USE DEF BriefFails, Undelivered, Perhaps, Heard, Misses, ToldOf, EndsDuty
  <2>1. DutiesTypeOK'
    BY <1>0, <1>i DEF DutiesTypeOK, OwnLines
  <2>2. OwnLines'
    BY <1>0, <1>i DEF DutiesTypeOK, OwnLines
  <2>3. AlertAccount'
    BY <1>0, <1>i DEF DutiesTypeOK, OwnLines, AlertAccount
  <2>4. StewardAccount'
    BY <1>0, <1>i DEF DutiesTypeOK, OwnLines, StewardAccount
  <2>5. QuestionAccount'
    BY <1>0, <1>i DEF DutiesTypeOK, OwnLines, QuestionAccount
  <2> QED  BY <2>1, <2>2, <2>3, <2>4, <2>5 DEF DutiesIInv
<1>j. CASE Restarts
  <2> USE DEF Restarts, Perhaps, Heard, Misses, ToldOf
  <2>1. DutiesTypeOK'
    BY <1>0, <1>j DEF DutiesTypeOK, OwnLines
  <2>2. OwnLines'
    BY <1>0, <1>j DEF DutiesTypeOK, OwnLines
  <2>3. AlertAccount'
    BY <1>0, <1>j DEF DutiesTypeOK, OwnLines, AlertAccount
  <2>4. StewardAccount'
    BY <1>0, <1>j DEF DutiesTypeOK, OwnLines, StewardAccount
  <2>5. QuestionAccount'
    BY <1>0, <1>j DEF DutiesTypeOK, OwnLines, QuestionAccount
  <2> QED  BY <2>1, <2>2, <2>3, <2>4, <2>5 DEF DutiesIInv
<1>k. ASSUME NEW i \in Item, Arises(i) PROVE DutiesIInv'
  <2> USE DEF Arises
  <2>1. DutiesTypeOK'
    BY <1>0, <1>k DEF DutiesTypeOK, OwnLines
  <2>2. OwnLines'
    BY <1>0, <1>k DEF DutiesTypeOK, OwnLines
  <2>3. AlertAccount'
    BY <1>0, <1>k DEF DutiesTypeOK, OwnLines, AlertAccount
  <2>4. StewardAccount'
    BY <1>0, <1>k DEF DutiesTypeOK, OwnLines, StewardAccount
  <2>5. QuestionAccount'
    BY <1>0, <1>k DEF DutiesTypeOK, OwnLines, QuestionAccount
  <2> QED  BY <2>1, <2>2, <2>3, <2>4, <2>5 DEF DutiesIInv
<1>l. ASSUME NEW i \in Item, Passes(i) PROVE DutiesIInv'
  <2> USE DEF Passes
  <2>1. DutiesTypeOK'
    BY <1>0, <1>l DEF DutiesTypeOK, OwnLines
  <2>2. OwnLines'
    BY <1>0, <1>l DEF DutiesTypeOK, OwnLines
  <2>3. AlertAccount'
    BY <1>0, <1>l DEF DutiesTypeOK, OwnLines, AlertAccount
  <2>4. StewardAccount'
    BY <1>0, <1>l DEF DutiesTypeOK, OwnLines, StewardAccount
  <2>5. QuestionAccount'
    BY <1>0, <1>l DEF DutiesTypeOK, OwnLines, QuestionAccount
  <2> QED  BY <2>1, <2>2, <2>3, <2>4, <2>5 DEF DutiesIInv
<1>m. ASSUME NEW q \in Question, AskedLongAgo(q) PROVE DutiesIInv'
  <2> USE DEF AskedLongAgo
  <2>1. DutiesTypeOK'
    BY <1>0, <1>m DEF DutiesTypeOK, OwnLines
  <2>2. OwnLines'
    BY <1>0, <1>m DEF DutiesTypeOK, OwnLines
  <2>3. AlertAccount'
    BY <1>0, <1>m DEF DutiesTypeOK, OwnLines, AlertAccount
  <2>4. StewardAccount'
    BY <1>0, <1>m DEF DutiesTypeOK, OwnLines, StewardAccount
  <2>5. QuestionAccount'
    BY <1>0, <1>m DEF DutiesTypeOK, OwnLines, QuestionAccount
  <2> QED  BY <2>1, <2>2, <2>3, <2>4, <2>5 DEF DutiesIInv
<1>o. ASSUME NEW i \in Alert, AlertRaises(i) PROVE DutiesIInv'
  <2> USE DEF AlertRaises, Turn, Raises, Perhaps, Heard, Misses, ToldOf
  <2>1. DutiesTypeOK'
    BY <1>0, <1>o DEF DutiesTypeOK, OwnLines
  <2>2. OwnLines'
    BY <1>0, <1>o DEF DutiesTypeOK, OwnLines
  <2>3. AlertAccount'
    BY <1>0, <1>o DEF DutiesTypeOK, OwnLines, AlertAccount
  <2>4. StewardAccount'
    BY <1>0, <1>o DEF DutiesTypeOK, OwnLines, StewardAccount
  <2>5. QuestionAccount'
    BY <1>0, <1>o DEF DutiesTypeOK, OwnLines, QuestionAccount
  <2> QED  BY <2>1, <2>2, <2>3, <2>4, <2>5 DEF DutiesIInv
<1>p. CASE SettleRaises
  <2> USE DEF SettleRaises, Raises, Perhaps, Heard, Misses, ToldOf
  <2>1. DutiesTypeOK'
    BY <1>0, <1>p DEF DutiesTypeOK, OwnLines
  <2>2. OwnLines'
    BY <1>0, <1>p DEF DutiesTypeOK, OwnLines
  <2>3. AlertAccount'
    BY <1>0, <1>p DEF DutiesTypeOK, OwnLines, AlertAccount
  <2>4. StewardAccount'
    BY <1>0, <1>p DEF DutiesTypeOK, OwnLines, StewardAccount
  <2>5. QuestionAccount'
    BY <1>0, <1>p DEF DutiesTypeOK, OwnLines, QuestionAccount
  <2> QED  BY <2>1, <2>2, <2>3, <2>4, <2>5 DEF DutiesIInv
<1>q. CASE BriefRaises
  <2> USE DEF BriefRaises, Raises, Perhaps, Heard, Misses, ToldOf
  <2>1. DutiesTypeOK'
    BY <1>0, <1>q DEF DutiesTypeOK, OwnLines
  <2>2. OwnLines'
    BY <1>0, <1>q DEF DutiesTypeOK, OwnLines
  <2>3. AlertAccount'
    BY <1>0, <1>q DEF DutiesTypeOK, OwnLines, AlertAccount
  <2>4. StewardAccount'
    BY <1>0, <1>q DEF DutiesTypeOK, OwnLines, StewardAccount
  <2>5. QuestionAccount'
    BY <1>0, <1>q DEF DutiesTypeOK, OwnLines, QuestionAccount
  <2> QED  BY <2>1, <2>2, <2>3, <2>4, <2>5 DEF DutiesIInv
<1>n. CASE UNCHANGED dutiesVars
  BY <1>0, <1>n DEF dutiesVars, DutiesIInv, DutiesTypeOK, OwnLines, AlertAccount, StewardAccount,
     QuestionAccount
<1> QED
  BY <1>a, <1>b, <1>c, <1>d, <1>e, <1>f, <1>g, <1>h, <1>i, <1>j, <1>k, <1>l, <1>m, <1>n, <1>o, <1>p, <1>q
     DEF DutiesNext, AlertSteps, SettleSteps, BriefSteps

(***************************************************************************)
(* A marker means that its thing was said, or that its message timed out   *)
(* and counts as delivered; and a thing is said once an occasion but for   *)
(* what failed or was held, through the second attempt at a message that   *)
(* raised (home_alerts.py, house_steward.py, curiosity.py,                 *)
(* telegram_bot.py, _deliver).                                             *)
(***************************************************************************)
THEOREM MarksAreTrue == DutiesSpec => []DutiesInv
<1>1. DutiesSpec => []DutiesIInv
  BY InitDuties, StepDuties, PTL DEF DutiesSpec
<1>2. DutiesIInv => DutiesInv
  <2> SUFFICES ASSUME DutiesIInv PROVE DutiesInv
    OBVIOUS
  <2> USE DutiesAssumption DEF DutiesIInv, Item, Stewards, Duty
  <2>1. SaidOnce
    BY DEF SaidOnce, AlertAccount, StewardAccount, QuestionAccount
  <2>2. \A k \in Duty : lines[k] # {} => k \in busy
    BY DEF OwnLines
  <2>3. \A i \in mark : i \in Alert \/ i \in Stewards \/ i \in Question
    BY DEF DutiesTypeOK
  <2>4. MarkedWasTold
    BY <2>2, <2>3 DEF MarkedWasTold, AlertAccount, StewardAccount, QuestionAccount
  <2> QED  BY <2>1, <2>4 DEF DutiesInv
<1> QED  BY <1>1, <1>2, PTL
-----------------------------------------------------------------------------
(***************************************************************************)
(* The voice.  What is answered is new: said since the boot, and after     *)
(* what was marked of its Echo.  An answered thing that is still the last  *)
(* of its Echo is marked, or was said before the boot; and no two Echos    *)
(* have the same thing said to them.  The lock keeps a second poll from    *)
(* beginning while the answer of the first is on its way.                  *)
(***************************************************************************)
Polling ==
    {Still} \cup [at : {"read"}, todo : SUBSET Echo]
        \cup [at : {"speak", "mirror"}, todo : SUBSET Echo, n : 1 .. MaxSaid]

VoiceShape ==
    /\ last \in [Echo -> [n : 0 .. MaxSaid, to : Address]]
    /\ poll \in Polling /\ (lock = "poll" <=> poll.at # "rest")
    /\ floor \in 0 .. said /\ boots \in Nat /\ misses \in Nat
    /\ heard \in [1 .. MaxSaid -> Nat]
    /\ reply \in [1 .. MaxSaid -> SUBSET {"room", "telegram", "failed"}]

NewIsNew ==
    /\ \A e \in Echo : /\ last[e].n <= said /\ seen[e] <= last[e].n
                       /\ seen[e] > 0 /\ last[e].n > seen[e] => last[e].n > floor
    /\ \A e, f \in Echo : e # f /\ last[e].n > 0 => last[e].n # last[f].n

AnsweredIsMarked ==
    \A n \in 1 .. MaxSaid :
        heard[n] > 0 =>
            /\ n <= said
            /\ \A e \in Echo : last[e].n = n => n <= seen[e] \/ n <= floor

VoiceIInv == VoiceInv /\ VoiceShape /\ NewIsNew /\ AnsweredIsMarked

LEMMA InitVoice == VoiceInit => VoiceIInv
<1> SUFFICES ASSUME VoiceInit PROVE VoiceIInv
  OBVIOUS
<1> USE VoiceAssumption DEF VoiceInit
<1>0. 0 \in 0 .. MaxSaid /\ 0 \in 0 .. 0 /\ "alexa" \in Address
  BY DEF Address
<1>1. VoiceShape
  BY <1>0 DEF VoiceShape, Polling, Still
<1>2. VoiceTypeOK
  BY <1>0 DEF VoiceTypeOK, Still
<1>3. AnsweredOnce /\ Mirrored /\ NoAudioAtRest /\ RefusedForCause
  BY DEF AnsweredOnce, Mirrored, NoAudioAtRest, RefusedForCause, Still
<1>4. NewIsNew /\ AnsweredIsMarked
  BY DEF NewIsNew, AnsweredIsMarked
<1> QED  BY <1>1, <1>2, <1>3, <1>4 DEF VoiceIInv, VoiceInv

LEMMA PollParts ==
    ASSUME poll \in Polling
    PROVE  /\ poll.at \in {"read", "speak", "mirror"} => poll.todo \subseteq Echo
           /\ poll.at \in {"speak", "mirror"} =>
                 /\ poll.n \in 1 .. MaxSaid
                 /\ poll = [at |-> poll.at, todo |-> poll.todo, n |-> poll.n]
<1>1. CASE poll = Still
  BY <1>1 DEF Still
<1>2. CASE poll \in [at : {"read"}, todo : SUBSET Echo]
  BY <1>2
<1>3. CASE poll \in [at : {"speak", "mirror"}, todo : SUBSET Echo, n : 1 .. MaxSaid]
  BY <1>3
<1> QED  BY <1>1, <1>2, <1>3 DEF Polling

LEMMA StepVoice == VoiceIInv /\ [VoiceNext]_voiceVars => VoiceIInv'
<1> SUFFICES ASSUME VoiceIInv, [VoiceNext]_voiceVars PROVE VoiceIInv'
  OBVIOUS
<1> USE VoiceAssumption DEF echoVars, noteVars
<1>0. /\ VoiceTypeOK /\ AnsweredOnce /\ Mirrored /\ NoAudioAtRest /\ RefusedForCause
      /\ VoiceShape /\ NewIsNew /\ AnsweredIsMarked
  BY DEF VoiceIInv, VoiceInv
<1>p. /\ poll.at \in {"read", "speak", "mirror"} => poll.todo \subseteq Echo
      /\ poll.at \in {"speak", "mirror"} =>
            poll.n \in 1 .. MaxSaid /\ poll = [at |-> poll.at, todo |-> poll.todo, n |-> poll.n]
  BY <1>0, PollParts DEF VoiceShape
<1>a. ASSUME NEW e \in Echo, Utters(e) PROVE VoiceIInv'
  <2> USE DEF Utters
  <2>1. VoiceShape'
    BY <1>0, <1>a DEF VoiceTypeOK, VoiceShape, Polling
  <2>2. VoiceTypeOK'
    BY <1>0, <1>a, <2>1 DEF VoiceTypeOK, VoiceShape, Polling
  <2>3. NewIsNew'
    BY <1>0, <1>a DEF VoiceTypeOK, VoiceShape, NewIsNew
  <2>4. AnsweredIsMarked'
    BY <1>0, <1>a DEF VoiceTypeOK, VoiceShape, NewIsNew, AnsweredIsMarked
  <2>5. AnsweredOnce'
    BY <1>0, <1>a DEF VoiceTypeOK, VoiceShape, Polling, NewIsNew, AnsweredIsMarked, AnsweredOnce
  <2>6. Mirrored'
    BY <1>0, <1>a DEF VoiceTypeOK, VoiceShape, Polling, Mirrored
  <2>7. NoAudioAtRest' /\ RefusedForCause'
    BY <1>0, <1>a DEF VoiceTypeOK, VoiceShape, NoAudioAtRest, RefusedForCause
  <2> QED  BY <2>1, <2>2, <2>3, <2>4, <2>5, <2>6, <2>7 DEF VoiceIInv, VoiceInv
<1>b. ASSUME NEW e \in Echo, ReadFails(e) PROVE VoiceIInv'
  <2> USE DEF ReadFails, Rest
  <2>1. VoiceShape'
    <3>1. poll' = [at |-> "read", todo |-> poll.todo \ {e}]
      BY <1>b, <1>p
    <3>2. poll' \in Polling
      BY <1>b, <1>p, <3>1 DEF Polling
    <3> QED  BY <1>0, <1>b, <3>2 DEF VoiceTypeOK, VoiceShape
  <2>2. VoiceTypeOK'
    BY <1>0, <1>b, <2>1 DEF VoiceTypeOK, VoiceShape, Polling
  <2>3. NewIsNew'
    BY <1>0, <1>b DEF VoiceTypeOK, VoiceShape, NewIsNew
  <2>4. AnsweredIsMarked'
    BY <1>0, <1>b DEF VoiceTypeOK, VoiceShape, NewIsNew, AnsweredIsMarked
  <2>5. AnsweredOnce'
    BY <1>0, <1>b DEF VoiceTypeOK, VoiceShape, Polling, NewIsNew, AnsweredIsMarked, AnsweredOnce
  <2>6. Mirrored'
    BY <1>0, <1>b DEF VoiceTypeOK, VoiceShape, Polling, Mirrored
  <2>7. NoAudioAtRest' /\ RefusedForCause'
    BY <1>0, <1>b DEF VoiceTypeOK, VoiceShape, NoAudioAtRest, RefusedForCause
  <2> QED  BY <2>1, <2>2, <2>3, <2>4, <2>5, <2>6, <2>7 DEF VoiceIInv, VoiceInv
<1>c. CASE TurnTakes
  <2> USE DEF TurnTakes
  <2>1. VoiceShape'
    BY <1>0, <1>c DEF VoiceTypeOK, VoiceShape, Polling
  <2>2. VoiceTypeOK'
    BY <1>0, <1>c, <2>1 DEF VoiceTypeOK, VoiceShape, Polling
  <2>3. NewIsNew'
    BY <1>0, <1>c DEF VoiceTypeOK, VoiceShape, NewIsNew
  <2>4. AnsweredIsMarked'
    BY <1>0, <1>c DEF VoiceTypeOK, VoiceShape, NewIsNew, AnsweredIsMarked
  <2>5. AnsweredOnce'
    BY <1>0, <1>c DEF VoiceTypeOK, VoiceShape, Polling, NewIsNew, AnsweredIsMarked, AnsweredOnce
  <2>6. Mirrored'
    BY <1>0, <1>c DEF VoiceTypeOK, VoiceShape, Polling, Mirrored
  <2>7. NoAudioAtRest' /\ RefusedForCause'
    BY <1>0, <1>c DEF VoiceTypeOK, VoiceShape, NoAudioAtRest, RefusedForCause
  <2> QED  BY <2>1, <2>2, <2>3, <2>4, <2>5, <2>6, <2>7 DEF VoiceIInv, VoiceInv
<1>d. CASE TurnEnds
  <2> USE DEF TurnEnds
  <2>1. VoiceShape'
    BY <1>0, <1>d DEF VoiceTypeOK, VoiceShape, Polling
  <2>2. VoiceTypeOK'
    BY <1>0, <1>d, <2>1 DEF VoiceTypeOK, VoiceShape, Polling
  <2>3. NewIsNew'
    BY <1>0, <1>d DEF VoiceTypeOK, VoiceShape, NewIsNew
  <2>4. AnsweredIsMarked'
    BY <1>0, <1>d DEF VoiceTypeOK, VoiceShape, NewIsNew, AnsweredIsMarked
  <2>5. AnsweredOnce'
    BY <1>0, <1>d DEF VoiceTypeOK, VoiceShape, Polling, NewIsNew, AnsweredIsMarked, AnsweredOnce
  <2>6. Mirrored'
    BY <1>0, <1>d DEF VoiceTypeOK, VoiceShape, Polling, Mirrored
  <2>7. NoAudioAtRest' /\ RefusedForCause'
    BY <1>0, <1>d DEF VoiceTypeOK, VoiceShape, NoAudioAtRest, RefusedForCause
  <2> QED  BY <2>1, <2>2, <2>3, <2>4, <2>5, <2>6, <2>7 DEF VoiceIInv, VoiceInv
<1>e. CASE PollBegins
  <2> USE DEF PollBegins
  <2>1. VoiceShape'
    BY <1>0, <1>e DEF VoiceTypeOK, VoiceShape, Polling
  <2>2. VoiceTypeOK'
    BY <1>0, <1>e, <2>1 DEF VoiceTypeOK, VoiceShape, Polling
  <2>3. NewIsNew'
    BY <1>0, <1>e DEF VoiceTypeOK, VoiceShape, NewIsNew
  <2>4. AnsweredIsMarked'
    BY <1>0, <1>e DEF VoiceTypeOK, VoiceShape, NewIsNew, AnsweredIsMarked
  <2>5. AnsweredOnce'
    BY <1>0, <1>e DEF VoiceTypeOK, VoiceShape, Polling, NewIsNew, AnsweredIsMarked, AnsweredOnce
  <2>6. Mirrored'
    <3>1. poll.at = "rest"
      BY <1>0, <1>e DEF VoiceShape
    <3> QED  BY <1>0, <1>e, <3>1 DEF VoiceShape, Mirrored
  <2>7. NoAudioAtRest' /\ RefusedForCause'
    BY <1>0, <1>e DEF VoiceTypeOK, VoiceShape, NoAudioAtRest, RefusedForCause
  <2> QED  BY <2>1, <2>2, <2>3, <2>4, <2>5, <2>6, <2>7 DEF VoiceIInv, VoiceInv
<1>f. ASSUME NEW e \in Echo, Reads(e) PROVE VoiceIInv'
  <2> USE DEF Reads, Rest, IsNew, Addressed
  <2>0. last[e].n \in 0 .. MaxSaid /\ last[e].n <= said /\ poll.todo \subseteq Echo
    BY <1>0, <1>f, <1>p DEF VoiceShape, NewIsNew
  <2>1. VoiceShape'
    <3>1. CASE IsNew(e) /\ Addressed(e)
      <4>1. last[e].n \in 1 .. MaxSaid
        BY <1>0, <2>0, <3>1 DEF VoiceTypeOK
      <4>2. poll' \in Polling
        BY <1>f, <2>0, <3>1, <4>1 DEF Polling
      <4>3. heard' \in [1 .. MaxSaid -> Nat]
        <5>1. PICK n \in 1 .. MaxSaid : n = last[e].n
          BY <4>1
        <5>2. heard' = [heard EXCEPT ![n] = @ + 1]
          BY <1>f, <3>1, <5>1
        <5>3. heard \in [1 .. MaxSaid -> Nat] /\ heard[n] + 1 \in Nat
          BY <1>0, <5>1 DEF VoiceShape
        <5> QED  BY <5>2, <5>3
      <4>4. lock' = "poll" <=> poll'.at # "rest"
        BY <1>0, <1>f, <3>1 DEF VoiceShape
      <4> QED  BY <1>0, <1>f, <4>2, <4>3, <4>4 DEF VoiceShape
    <3>2. CASE ~(IsNew(e) /\ Addressed(e))
      <4>1. poll' \in Polling
        BY <1>f, <2>0, <3>2 DEF Polling
      <4> QED  BY <1>0, <1>f, <3>2, <4>1 DEF VoiceShape
    <3> QED  BY <3>1, <3>2
  <2>2. VoiceTypeOK'
    BY <1>0, <1>f, <2>1 DEF VoiceTypeOK, VoiceShape, Polling
  <2>3. NewIsNew'
    BY <1>0, <1>f DEF VoiceTypeOK, VoiceShape, NewIsNew
  <2>4. AnsweredIsMarked'
    <3> SUFFICES ASSUME NEW n \in 1 .. MaxSaid, heard'[n] > 0
                 PROVE  n <= said /\ \A g \in Echo : last[g].n = n => n <= seen'[g] \/ n <= floor
      BY <1>f DEF AnsweredIsMarked
    <3>1. CASE n = last[e].n
      BY <1>0, <1>f, <2>0, <3>1 DEF VoiceTypeOK, VoiceShape, NewIsNew
    <3>2. CASE n # last[e].n
      <4>1. heard[n] > 0
        BY <1>0, <1>f, <3>2 DEF VoiceShape
      <4> QED  BY <1>0, <1>f, <2>0, <3>2, <4>1 DEF VoiceTypeOK, AnsweredIsMarked
    <3> QED  BY <3>1, <3>2
  <2>5. AnsweredOnce'
    <3>1. heard \in [1 .. MaxSaid -> Nat] /\ \A n \in 1 .. MaxSaid : heard[n] <= 1
      BY <1>0 DEF VoiceShape, AnsweredOnce
    <3>2. CASE IsNew(e) /\ Addressed(e)
      <4>1. PICK n \in 1 .. MaxSaid : n = last[e].n
        BY <1>0, <2>0, <3>2 DEF VoiceTypeOK
      <4>2. heard' = [heard EXCEPT ![n] = @ + 1] /\ poll'.n = n /\ floor' = floor
        BY <1>f, <3>2, <4>1
      <4>3. n > floor
        BY <1>0, <1>f, <3>2, <4>1 DEF VoiceTypeOK, VoiceShape, NewIsNew
      <4>4. heard[n] = 0
        <5>1. heard[n] > 0 => n <= seen[e] \/ n <= floor
          BY <1>0, <4>1 DEF AnsweredIsMarked
        <5>2. ~(n <= seen[e]) /\ ~(n <= floor) /\ heard[n] \in Nat
          BY <1>0, <3>1, <3>2, <4>1, <4>3 DEF VoiceTypeOK, VoiceShape
        <5> QED  BY <5>1, <5>2
      <4>5. \A m \in 1 .. MaxSaid : heard'[m] <= 1
        BY <3>1, <4>2, <4>4
      <4> QED  BY <4>2, <4>3, <4>5 DEF AnsweredOnce
    <3>3. CASE ~(IsNew(e) /\ Addressed(e))
      BY <1>0, <1>f, <3>3 DEF VoiceShape, Polling, AnsweredOnce
    <3> QED  BY <3>2, <3>3
  <2>6. Mirrored'
    BY <1>0, <1>f DEF VoiceTypeOK, VoiceShape, Polling, Mirrored
  <2>7. NoAudioAtRest' /\ RefusedForCause'
    BY <1>0, <1>f DEF VoiceTypeOK, VoiceShape, NoAudioAtRest, RefusedForCause
  <2> QED  BY <2>1, <2>2, <2>3, <2>4, <2>5, <2>6, <2>7 DEF VoiceIInv, VoiceInv
<1>g. CASE Speaks
  <2> USE DEF Speaks
  <2>1. VoiceShape'
    <3>1. poll' = [at |-> "mirror", todo |-> poll.todo, n |-> poll.n]
      BY <1>g, <1>p
    <3>2. poll' \in Polling
      BY <1>g, <1>p, <3>1 DEF Polling
    <3>3. poll.n \in 1 .. MaxSaid
      BY <1>g, <1>p
    <3>4. reply' \in [1 .. MaxSaid -> SUBSET {"room", "telegram", "failed"}]
      BY <1>0, <1>g, <3>3 DEF VoiceShape
    <3> QED  BY <1>0, <1>g, <3>1, <3>2, <3>4 DEF VoiceTypeOK, VoiceShape
  <2>2. VoiceTypeOK'
    BY <1>0, <1>g, <2>1 DEF VoiceTypeOK, VoiceShape, Polling
  <2>3. NewIsNew'
    BY <1>0, <1>g DEF VoiceTypeOK, VoiceShape, NewIsNew
  <2>4. AnsweredIsMarked'
    BY <1>0, <1>g DEF VoiceTypeOK, VoiceShape, NewIsNew, AnsweredIsMarked
  <2>5. AnsweredOnce'
    BY <1>0, <1>g DEF VoiceTypeOK, VoiceShape, Polling, NewIsNew, AnsweredIsMarked, AnsweredOnce
  <2>6. Mirrored'
    BY <1>0, <1>g DEF VoiceTypeOK, VoiceShape, Polling, Mirrored
  <2>7. NoAudioAtRest' /\ RefusedForCause'
    BY <1>0, <1>g DEF VoiceTypeOK, VoiceShape, NoAudioAtRest, RefusedForCause
  <2> QED  BY <2>1, <2>2, <2>3, <2>4, <2>5, <2>6, <2>7 DEF VoiceIInv, VoiceInv
<1>h. CASE Mirrors
  <2> USE DEF Mirrors, Spares
  <2>1. VoiceShape'
    <3>1. poll' = [at |-> "read", todo |-> poll.todo]
      BY <1>h, <1>p
    <3>2. poll' \in Polling
      BY <1>h, <1>p, <3>1 DEF Polling
    <3> QED  BY <1>0, <1>h, <3>2 DEF VoiceTypeOK, VoiceShape
  <2>2. VoiceTypeOK'
    BY <1>0, <1>h, <2>1 DEF VoiceTypeOK, VoiceShape, Polling
  <2>3. NewIsNew'
    BY <1>0, <1>h DEF VoiceTypeOK, VoiceShape, NewIsNew
  <2>4. AnsweredIsMarked'
    BY <1>0, <1>h DEF VoiceTypeOK, VoiceShape, NewIsNew, AnsweredIsMarked
  <2>5. AnsweredOnce'
    BY <1>0, <1>h DEF VoiceTypeOK, VoiceShape, Polling, NewIsNew, AnsweredIsMarked, AnsweredOnce
  <2>6. Mirrored'
    BY <1>0, <1>h DEF VoiceTypeOK, VoiceShape, Polling, Mirrored
  <2>7. NoAudioAtRest' /\ RefusedForCause'
    BY <1>0, <1>h DEF VoiceTypeOK, VoiceShape, NoAudioAtRest, RefusedForCause
  <2> QED  BY <2>1, <2>2, <2>3, <2>4, <2>5, <2>6, <2>7 DEF VoiceIInv, VoiceInv
<1>i. CASE MirrorFails
  <2> USE DEF MirrorFails
  <2>1. VoiceShape'
    <3>1. poll' = [at |-> "read", todo |-> poll.todo]
      BY <1>i, <1>p
    <3>2. poll' \in Polling
      BY <1>i, <1>p, <3>1 DEF Polling
    <3>3. poll.n \in 1 .. MaxSaid
      BY <1>i, <1>p
    <3>4. reply' \in [1 .. MaxSaid -> SUBSET {"room", "telegram", "failed"}]
      BY <1>0, <1>i, <3>3 DEF VoiceShape
    <3> QED  BY <1>0, <1>i, <3>1, <3>2, <3>4 DEF VoiceTypeOK, VoiceShape
  <2>2. VoiceTypeOK'
    BY <1>0, <1>i, <2>1 DEF VoiceTypeOK, VoiceShape, Polling
  <2>3. NewIsNew'
    BY <1>0, <1>i DEF VoiceTypeOK, VoiceShape, NewIsNew
  <2>4. AnsweredIsMarked'
    BY <1>0, <1>i DEF VoiceTypeOK, VoiceShape, NewIsNew, AnsweredIsMarked
  <2>5. AnsweredOnce'
    BY <1>0, <1>i DEF VoiceTypeOK, VoiceShape, Polling, NewIsNew, AnsweredIsMarked, AnsweredOnce
  <2>6. Mirrored'
    BY <1>0, <1>i DEF VoiceTypeOK, VoiceShape, Polling, Mirrored
  <2>7. NoAudioAtRest' /\ RefusedForCause'
    BY <1>0, <1>i DEF VoiceTypeOK, VoiceShape, NoAudioAtRest, RefusedForCause
  <2> QED  BY <2>1, <2>2, <2>3, <2>4, <2>5, <2>6, <2>7 DEF VoiceIInv, VoiceInv
<1>j. CASE PollEnds
  <2> USE DEF PollEnds, Still
  <2>1. VoiceShape'
    BY <1>0, <1>j DEF VoiceTypeOK, VoiceShape, Polling
  <2>2. VoiceTypeOK'
    BY <1>0, <1>j, <2>1 DEF VoiceTypeOK, VoiceShape, Polling
  <2>3. NewIsNew'
    BY <1>0, <1>j DEF VoiceTypeOK, VoiceShape, NewIsNew
  <2>4. AnsweredIsMarked'
    BY <1>0, <1>j DEF VoiceTypeOK, VoiceShape, NewIsNew, AnsweredIsMarked
  <2>5. AnsweredOnce'
    BY <1>0, <1>j DEF VoiceTypeOK, VoiceShape, Polling, NewIsNew, AnsweredIsMarked, AnsweredOnce
  <2>6. Mirrored'
    BY <1>0, <1>j DEF VoiceTypeOK, VoiceShape, Polling, Mirrored
  <2>7. NoAudioAtRest' /\ RefusedForCause'
    BY <1>0, <1>j DEF VoiceTypeOK, VoiceShape, NoAudioAtRest, RefusedForCause
  <2> QED  BY <2>1, <2>2, <2>3, <2>4, <2>5, <2>6, <2>7 DEF VoiceIInv, VoiceInv
<1>k. CASE ProbeEnds
  <2> USE DEF ProbeEnds
  <2>1. VoiceShape'
    BY <1>0, <1>k DEF VoiceTypeOK, VoiceShape, Polling
  <2>2. VoiceTypeOK'
    BY <1>0, <1>k, <2>1 DEF VoiceTypeOK, VoiceShape, Polling
  <2>3. NewIsNew'
    BY <1>0, <1>k DEF VoiceTypeOK, VoiceShape, NewIsNew
  <2>4. AnsweredIsMarked'
    BY <1>0, <1>k DEF VoiceTypeOK, VoiceShape, NewIsNew, AnsweredIsMarked
  <2>5. AnsweredOnce'
    BY <1>0, <1>k DEF VoiceTypeOK, VoiceShape, Polling, NewIsNew, AnsweredIsMarked, AnsweredOnce
  <2>6. Mirrored'
    BY <1>0, <1>k DEF VoiceTypeOK, VoiceShape, Polling, Mirrored
  <2>7. NoAudioAtRest' /\ RefusedForCause'
    BY <1>0, <1>k DEF VoiceTypeOK, VoiceShape, NoAudioAtRest, RefusedForCause
  <2> QED  BY <2>1, <2>2, <2>3, <2>4, <2>5, <2>6, <2>7 DEF VoiceIInv, VoiceInv
<1>l. ASSUME NEW x \in Note, NoteComes(x) PROVE VoiceIInv'
  <2> USE DEF NoteComes
  <2>1. VoiceShape'
    BY <1>0, <1>l DEF VoiceTypeOK, VoiceShape, Polling
  <2>2. VoiceTypeOK'
    BY <1>0, <1>l, <2>1 DEF VoiceTypeOK, VoiceShape, Polling
  <2>3. NewIsNew'
    BY <1>0, <1>l DEF VoiceTypeOK, VoiceShape, NewIsNew
  <2>4. AnsweredIsMarked'
    BY <1>0, <1>l DEF VoiceTypeOK, VoiceShape, NewIsNew, AnsweredIsMarked
  <2>5. AnsweredOnce'
    BY <1>0, <1>l DEF VoiceTypeOK, VoiceShape, Polling, NewIsNew, AnsweredIsMarked, AnsweredOnce
  <2>6. Mirrored'
    BY <1>0, <1>l DEF VoiceTypeOK, VoiceShape, Polling, Mirrored
  <2>7. NoAudioAtRest' /\ RefusedForCause'
    BY <1>0, <1>l DEF VoiceTypeOK, VoiceShape, NoAudioAtRest, RefusedForCause
  <2> QED  BY <2>1, <2>2, <2>3, <2>4, <2>5, <2>6, <2>7 DEF VoiceIInv, VoiceInv
<1>m. ASSUME NEW x \in Note, Refuses(x) PROVE VoiceIInv'
  <2> USE DEF Refuses, GivesUp
  <2>1. VoiceShape'
    BY <1>0, <1>m DEF VoiceTypeOK, VoiceShape, Polling
  <2>2. VoiceTypeOK'
    BY <1>0, <1>m, <2>1 DEF VoiceTypeOK, VoiceShape, Polling
  <2>3. NewIsNew'
    BY <1>0, <1>m DEF VoiceTypeOK, VoiceShape, NewIsNew
  <2>4. AnsweredIsMarked'
    BY <1>0, <1>m DEF VoiceTypeOK, VoiceShape, NewIsNew, AnsweredIsMarked
  <2>5. AnsweredOnce'
    BY <1>0, <1>m DEF VoiceTypeOK, VoiceShape, Polling, NewIsNew, AnsweredIsMarked, AnsweredOnce
  <2>6. Mirrored'
    BY <1>0, <1>m DEF VoiceTypeOK, VoiceShape, Polling, Mirrored
  <2>7. NoAudioAtRest' /\ RefusedForCause'
    BY <1>0, <1>m DEF VoiceTypeOK, VoiceShape, NoAudioAtRest, RefusedForCause
  <2> QED  BY <2>1, <2>2, <2>3, <2>4, <2>5, <2>6, <2>7 DEF VoiceIInv, VoiceInv
<1>n. ASSUME NEW x \in Note, Downloads(x) PROVE VoiceIInv'
  <2> USE DEF Downloads
  <2>1. VoiceShape'
    BY <1>0, <1>n DEF VoiceTypeOK, VoiceShape, Polling
  <2>2. VoiceTypeOK'
    BY <1>0, <1>n, <2>1 DEF VoiceTypeOK, VoiceShape, Polling
  <2>3. NewIsNew'
    BY <1>0, <1>n DEF VoiceTypeOK, VoiceShape, NewIsNew
  <2>4. AnsweredIsMarked'
    BY <1>0, <1>n DEF VoiceTypeOK, VoiceShape, NewIsNew, AnsweredIsMarked
  <2>5. AnsweredOnce'
    BY <1>0, <1>n DEF VoiceTypeOK, VoiceShape, Polling, NewIsNew, AnsweredIsMarked, AnsweredOnce
  <2>6. Mirrored'
    BY <1>0, <1>n DEF VoiceTypeOK, VoiceShape, Polling, Mirrored
  <2>7. NoAudioAtRest' /\ RefusedForCause'
    BY <1>0, <1>n DEF VoiceTypeOK, VoiceShape, NoAudioAtRest, RefusedForCause
  <2> QED  BY <2>1, <2>2, <2>3, <2>4, <2>5, <2>6, <2>7 DEF VoiceIInv, VoiceInv
<1>o. ASSUME NEW x \in Note, Transcribes(x) PROVE VoiceIInv'
  <2> USE DEF Transcribes
  <2>1. VoiceShape'
    BY <1>0, <1>o DEF VoiceTypeOK, VoiceShape, Polling
  <2>2. VoiceTypeOK'
    BY <1>0, <1>o, <2>1 DEF VoiceTypeOK, VoiceShape, Polling
  <2>3. NewIsNew'
    BY <1>0, <1>o DEF VoiceTypeOK, VoiceShape, NewIsNew
  <2>4. AnsweredIsMarked'
    BY <1>0, <1>o DEF VoiceTypeOK, VoiceShape, NewIsNew, AnsweredIsMarked
  <2>5. AnsweredOnce'
    BY <1>0, <1>o DEF VoiceTypeOK, VoiceShape, Polling, NewIsNew, AnsweredIsMarked, AnsweredOnce
  <2>6. Mirrored'
    BY <1>0, <1>o DEF VoiceTypeOK, VoiceShape, Polling, Mirrored
  <2>7. NoAudioAtRest' /\ RefusedForCause'
    BY <1>0, <1>o DEF VoiceTypeOK, VoiceShape, NoAudioAtRest, RefusedForCause
  <2> QED  BY <2>1, <2>2, <2>3, <2>4, <2>5, <2>6, <2>7 DEF VoiceIInv, VoiceInv
<1>w. CASE VoiceRestarts
  <2> USE DEF VoiceRestarts, Still
  <2>1. VoiceShape'
    BY <1>0, <1>w DEF VoiceTypeOK, VoiceShape, Polling
  <2>2. VoiceTypeOK'
    BY <1>0, <1>w, <2>1 DEF VoiceTypeOK, VoiceShape, Polling
  <2>3. NewIsNew'
    BY <1>0, <1>w DEF VoiceTypeOK, VoiceShape, NewIsNew
  <2>4. AnsweredIsMarked'
    BY <1>0, <1>w DEF VoiceTypeOK, VoiceShape, NewIsNew, AnsweredIsMarked
  <2>5. AnsweredOnce'
    BY <1>0, <1>w DEF VoiceTypeOK, VoiceShape, Polling, NewIsNew, AnsweredIsMarked, AnsweredOnce
  <2>6. Mirrored'
    BY <1>0, <1>w DEF VoiceTypeOK, VoiceShape, Polling, Mirrored
  <2>7. NoAudioAtRest' /\ RefusedForCause'
    BY <1>0, <1>w DEF VoiceTypeOK, VoiceShape, NoAudioAtRest, RefusedForCause
  <2> QED  BY <2>1, <2>2, <2>3, <2>4, <2>5, <2>6, <2>7 DEF VoiceIInv, VoiceInv
<1>z. CASE UNCHANGED voiceVars
  BY <1>0, <1>z DEF voiceVars, VoiceIInv, VoiceInv, VoiceShape, VoiceTypeOK, NewIsNew, AnsweredIsMarked,
     AnsweredOnce, Mirrored, NoAudioAtRest, RefusedForCause
<1> QED
  BY <1>a, <1>b, <1>c, <1>d, <1>e, <1>f, <1>g, <1>h, <1>i, <1>j, <1>k, <1>l, <1>m, <1>n, <1>o, <1>w, <1>z
     DEF VoiceNext, Listens, Takes

(***************************************************************************)
(* What is said to an Echo is answered once, in its process' life or over  *)
(* a restart, and on Telegram too; no audio stays on disk (voice_echo.py,  *)
(* voice.py).                                                              *)
(***************************************************************************)
THEOREM VoiceAnswersOnce == VoiceSpec => []VoiceInv
<1>1. VoiceSpec => []VoiceIInv
  BY InitVoice, StepVoice, PTL DEF VoiceSpec
<1>2. VoiceIInv => VoiceInv
  BY DEF VoiceIInv
<1> QED  BY <1>1, <1>2, PTL
-----------------------------------------------------------------------------
(***************************************************************************)
(* The library.  A sync that has read a file and is at its tags supersedes *)
(* whatever row of it is live: until two syncs meet on the file, that is   *)
(* the row it found.  A row of a note that says it is private is local     *)
(* from the moment it is stored, and the sync knows when it reads it; the  *)
(* row it found was stored once, so superseding it makes no new row.       *)
(***************************************************************************)
Syncing ==
    [at : {"resting", "walking", "tagging"}, todo : SUBSET Path, seen : SUBSET Path,
     path : Path \cup {Absent}, found : Version \cup {NoRow}, read : Version \cup {Absent},
     local : BOOLEAN]

LibraryShape ==
    /\ sync \in [Syncs -> Syncing]
    /\ subjects \in [Capture -> SUBSET (Person \cup {NoRow})]

AtTags(s) == sync[s].at = "tagging"

Tagging ==
    \A s \in Syncs : AtTags(s) =>
        /\ sync[s].path \in Path /\ sync[s].read \in Version
        /\ sync[s].read \in Hinted => sync[s].local
        /\ sync[s].found \in Version => note[<<sync[s].path, sync[s].found>>] # "none"

OneAtMost ==
    doubled \/ /\ \A p \in Path : \A v, w \in LiveRows(p) : v = w
               /\ \A s \in Syncs : AtTags(s) => LiveRows(sync[s].path) \subseteq {sync[s].found}

HintedIsLocal ==
    \A p \in Path, v \in Hinted : note[<<p, v>>] # "none" => exposure[<<p, v>>] = "local_only"

LibraryIInv ==
    LibraryTypeOK /\ LibraryShape /\ Tagging /\ OneAtMost /\ HintedIsLocal /\ HintsStay

\* What Looks does with one file, the row it finds and the tagger's flag.
LooksAt(s, p, flagged, found) ==
    /\ flagged => Amiss
    /\ ~flagged => UNCHANGED failures
    /\ \/ /\ sync' = [sync EXCEPT ![s].todo = @ \ {p}]
          /\ UNCHANGED inCloud
       \/ /\ vault[p] # Absent
          /\ sync' = [sync EXCEPT ![s] = [@ EXCEPT !.at = "tagging", !.path = p,
                !.found = found, !.read = vault[p],
                !.local = flagged \/ vault[p] \in Hinted \cup Private]]
          /\ inCloud' = IF Tagger(vault[p]) = "cloud" THEN inCloud \cup {vault[p]} ELSE inCloud

LEMMA InitLibrary == LibraryInit => LibraryIInv
<1> SUFFICES ASSUME LibraryInit PROVE LibraryIInv
  OBVIOUS
<1> USE LibraryAssumption DEF LibraryInit, Resting, Syncing
<1>1. LibraryTypeOK
  <2>1. 0 \in 0 .. MaxEdits /\ 0 \in 0 .. MaxFailures
    OBVIOUS
  <2> QED  BY <2>1 DEF LibraryTypeOK, Stored
<1>2. LibraryShape
  BY DEF LibraryShape
<1>3. Tagging
  BY DEF Tagging, AtTags
<1>4. \A p \in Path : LiveRows(p) = {}
  BY DEF LiveRows, Row
<1>5. OneAtMost
  BY <1>4 DEF OneAtMost, AtTags
<1>6. HintedIsLocal /\ HintsStay
  BY DEF HintedIsLocal, HintsStay, Row
<1> QED  BY <1>1, <1>2, <1>3, <1>5, <1>6 DEF LibraryIInv

\* What a capture inherits is of rows that the cloud may see.
LEMMA InheritsNoHint ==
    ASSUME NEW c \in Capture, NEW about, NEW rows \in SUBSET Row, inherited[c] \subseteq Version,
           inherited[c] \cap Hinted = {},
           \A r \in rows : r[2] \in Hinted => exposure'[r] = "local_only"
    PROVE  Inherits(c, about, rows) \subseteq Version /\ Inherits(c, about, rows) \cap Hinted = {}
BY DEF Inherits, MayInherit, Row

LEMMA StepLibrary == LibraryIInv /\ [LibraryNext]_libraryVars => LibraryIInv'
<1> SUFFICES ASSUME LibraryIInv, [LibraryNext]_libraryVars PROVE LibraryIInv'
  OBVIOUS
<1> USE LibraryAssumption
<1>0. LibraryTypeOK /\ LibraryShape /\ Tagging /\ OneAtMost /\ HintedIsLocal /\ HintsStay
  BY DEF LibraryIInv
<1>a. ASSUME NEW p \in Path, Edits(p) PROVE LibraryIInv'
  <2> USE DEF Edits
  <2>1. LibraryTypeOK'
    BY <1>0, <1>a DEF LibraryTypeOK, LibraryShape, Stored
  <2>2. LibraryShape'
    BY <1>0, <1>a DEF LibraryShape
  <2>3. Tagging'
    BY <1>0, <1>a DEF LibraryShape, Tagging, AtTags
  <2>4. OneAtMost'
    BY <1>0, <1>a DEF LibraryTypeOK, LibraryShape, Tagging, AtTags, OneAtMost, LiveRows, Row
  <2>5. HintedIsLocal' /\ HintsStay'
    BY <1>0, <1>a DEF LibraryTypeOK, HintedIsLocal, HintsStay, Row
  <2> QED  BY <2>1, <2>2, <2>3, <2>4, <2>5 DEF LibraryIInv
<1>b. ASSUME NEW s \in Syncs, Starts(s) PROVE LibraryIInv'
  <2> USE DEF Starts, Resting
  <2>1. LibraryTypeOK'
    BY <1>0, <1>b DEF LibraryTypeOK, LibraryShape, Stored
  <2>2. LibraryShape'
    BY <1>0, <1>b DEF LibraryShape, Syncing
  <2>3. Tagging'
    BY <1>0, <1>b DEF LibraryShape, Tagging, AtTags
  <2>4. OneAtMost'
    BY <1>0, <1>b DEF LibraryTypeOK, LibraryShape, Tagging, AtTags, OneAtMost, LiveRows, Row
  <2>5. HintedIsLocal' /\ HintsStay'
    BY <1>0, <1>b DEF LibraryTypeOK, HintedIsLocal, HintsStay, Row
  <2> QED  BY <2>1, <2>2, <2>3, <2>4, <2>5 DEF LibraryIInv
<1>c. ASSUME NEW s \in Syncs, SkipsOne(s) PROVE LibraryIInv'
  <2> USE DEF SkipsOne, Amiss
  <2>0. PICK rec \in Syncing : rec.at = "walking" /\ sync' = [sync EXCEPT ![s] = rec]
    <3> DEFINE r == [sync[s] EXCEPT !.at = "walking", !.todo = @ \ {sync[s].path}, !.path = Absent,
                         !.found = NoRow, !.read = Absent, !.local = FALSE]
    <3>1. sync[s] \in Syncing
      BY <1>0 DEF LibraryShape
    <3>2. r \in Syncing /\ r.at = "walking"
      BY <3>1 DEF Syncing
    <3>3. sync' = [sync EXCEPT ![s] = r]
      BY <1>c
    <3> HIDE DEF r
    <3> QED  BY <3>2, <3>3
  <2>1. LibraryTypeOK'
    BY <1>0, <1>c, <2>0 DEF LibraryTypeOK, LibraryShape, Stored
  <2>2. LibraryShape'
    BY <1>0, <1>c, <2>0 DEF LibraryShape
  <2>3. Tagging'
    BY <1>0, <1>c, <2>0 DEF LibraryShape, Tagging, AtTags
  <2>4. OneAtMost'
    BY <1>0, <1>c, <2>0 DEF LibraryTypeOK, LibraryShape, Tagging, AtTags, OneAtMost, LiveRows, Row
  <2>5. HintedIsLocal' /\ HintsStay'
    BY <1>0, <1>c DEF LibraryTypeOK, HintedIsLocal, HintsStay, Row
  <2> QED  BY <2>1, <2>2, <2>3, <2>4, <2>5 DEF LibraryIInv
<1>d. ASSUME NEW s \in Syncs, Ends(s) PROVE LibraryIInv'
  <2> USE DEF Ends, Unseen, Resting
  <2>1. LibraryTypeOK'
    BY <1>0, <1>d DEF LibraryTypeOK, LibraryShape, Stored
  <2>2. LibraryShape'
    BY <1>0, <1>d DEF LibraryShape, Syncing
  <2>3. Tagging'
    BY <1>0, <1>d DEF LibraryShape, Tagging, AtTags, Row
  <2>4. OneAtMost'
    <3>1. \A p \in Path : LiveRows(p)' \subseteq LiveRows(p)
      BY <1>d DEF LiveRows, Row
    <3>2. \A t \in Syncs : AtTags(t)' => AtTags(t) /\ sync'[t] = sync[t]
      BY <1>0, <1>d DEF LibraryShape, AtTags
    <3>3. ASSUME NEW t \in Syncs, ~doubled, AtTags(t)' PROVE LiveRows(sync[t].path)' \subseteq {sync'[t].found}
      <4>1. AtTags(t) /\ sync'[t] = sync[t] /\ sync[t].path \in Path
        BY <1>0, <3>2, <3>3 DEF Tagging
      <4>2. LiveRows(sync[t].path) \subseteq {sync[t].found}
        BY <1>0, <3>3, <4>1 DEF OneAtMost
      <4>3. LiveRows(sync[t].path)' \subseteq LiveRows(sync[t].path)
        BY <3>1, <4>1 DEF LiveRows
      <4> QED  BY <4>1, <4>2, <4>3
    <3> QED  BY <1>0, <1>d, <3>1, <3>3 DEF OneAtMost
  <2>5. HintedIsLocal' /\ HintsStay'
    BY <1>0, <1>d DEF LibraryTypeOK, HintedIsLocal, HintsStay, Row
  <2> QED  BY <2>1, <2>2, <2>3, <2>4, <2>5 DEF LibraryIInv
<1>e. CASE Repairs
  <2> USE DEF Repairs, Amiss
  <2>1. LibraryTypeOK'
    BY <1>0, <1>e DEF LibraryTypeOK, LibraryShape, Stored
  <2>2. LibraryShape'
    BY <1>0, <1>e DEF LibraryShape
  <2>3. Tagging'
    BY <1>0, <1>e DEF LibraryShape, Tagging, AtTags, Row
  <2>4. OneAtMost'
    BY <1>0, <1>e DEF LibraryTypeOK, LibraryShape, Tagging, AtTags, OneAtMost, LiveRows, Row
  <2>5. HintedIsLocal' /\ HintsStay'
    BY <1>0, <1>e DEF LibraryTypeOK, HintedIsLocal, HintsStay, Row
  <2> QED  BY <2>1, <2>2, <2>3, <2>4, <2>5 DEF LibraryIInv
<1>f. ASSUME NEW c \in Capture, NEW x \in Person, LinksPerson(c, x) PROVE LibraryIInv'
  <2> USE DEF LinksPerson
  <2>1. LibraryTypeOK'
    BY <1>0, <1>f DEF LibraryTypeOK, LibraryShape, Stored
  <2>2. LibraryShape'
    BY <1>0, <1>f DEF LibraryShape
  <2>3. Tagging'
    BY <1>0, <1>f DEF LibraryShape, Tagging, AtTags
  <2>4. OneAtMost'
    BY <1>0, <1>f DEF LibraryTypeOK, LibraryShape, Tagging, AtTags, OneAtMost, LiveRows, Row
  <2>5. HintedIsLocal' /\ HintsStay'
    BY <1>0, <1>f DEF LibraryTypeOK, HintedIsLocal, HintsStay, Row
  <2> QED  BY <2>1, <2>2, <2>3, <2>4, <2>5 DEF LibraryIInv
<1>g. ASSUME NEW s \in Syncs, NEW force \in BOOLEAN, Looks(s, force) PROVE LibraryIInv'
  <2>p. PICK p \in sync[s].todo : \E flagged \in BOOLEAN, found \in Found(p) :
            LooksAt(s, p, flagged, found)
    BY <1>g DEF Looks, LooksAt
  <2>1. PICK flagged \in BOOLEAN, found \in Found(p) : LooksAt(s, p, flagged, found)
    BY <2>p
  <2>2. p \in Path /\ sync[s].at = "walking" /\ vault[p] \in Version \cup {Absent}
    <3>1. sync[s] \in Syncing
      BY <1>0 DEF LibraryShape
    <3>2. sync[s].todo \subseteq Path
      BY <3>1 DEF Syncing
    <3> QED  BY <1>0, <1>g, <3>2 DEF Looks, LibraryTypeOK
  <2>3. found \in Version \cup {NoRow} /\ (doubled \/ LiveRows(p) \subseteq {found})
    BY <1>0, <2>1, <2>2 DEF Found, LiveRows, OneAtMost
  <2>4. UNCHANGED <<vault, note, exposure, newest, subjects, inherited, doubled, edits>>
    BY <1>g DEF Looks
  <2>s. PICK rec \in Syncing :
            /\ sync' = [sync EXCEPT ![s] = rec]
            /\ \/ rec.at = "walking" /\ UNCHANGED inCloud
               \/ /\ rec.at = "tagging" /\ rec.path = p /\ rec.found = found
                  /\ rec.read = vault[p] /\ vault[p] \in Version
                  /\ vault[p] \in Hinted => rec.local
                  /\ inCloud' = IF Tagger(vault[p]) = "cloud" THEN inCloud \cup {vault[p]} ELSE inCloud
    <3>1. CASE sync' = [sync EXCEPT ![s].todo = @ \ {p}] /\ UNCHANGED inCloud
      <4> DEFINE r == [sync[s] EXCEPT !.todo = @ \ {p}]
      <4>1. sync[s] \in Syncing
        BY <1>0 DEF LibraryShape
      <4>2. r \in Syncing /\ r.at = "walking"
        BY <2>2, <4>1 DEF Syncing
      <4> QED  BY <3>1, <4>2
    <3>2. CASE ~(sync' = [sync EXCEPT ![s].todo = @ \ {p}] /\ UNCHANGED inCloud)
      <4> DEFINE r == [sync[s] EXCEPT !.at = "tagging", !.path = p, !.found = found, !.read = vault[p],
                           !.local = flagged \/ vault[p] \in Hinted \cup Private]
      <4>1. /\ vault[p] \in Version /\ sync' = [sync EXCEPT ![s] = r]
            /\ inCloud' = IF Tagger(vault[p]) = "cloud" THEN inCloud \cup {vault[p]} ELSE inCloud
        BY <2>1, <2>2, <3>2 DEF LooksAt
      <4>2. sync[s] \in Syncing
        BY <1>0 DEF LibraryShape
      <4>3. /\ r \in Syncing /\ r.at = "tagging" /\ r.path = p /\ r.found = found /\ r.read = vault[p]
            /\ vault[p] \in Hinted => r.local
        BY <2>2, <2>3, <4>1, <4>2 DEF Syncing
      <4> QED  BY <4>1, <4>3
    <3> QED  BY <3>1, <3>2
  <2>5. LibraryTypeOK'
    BY <1>0, <2>1, <2>2, <2>4, <2>s DEF LooksAt, LibraryTypeOK, LibraryShape, Stored, Amiss
  <2>6. LibraryShape'
    BY <1>0, <2>4, <2>s DEF LibraryShape
  <2>7. Tagging'
    <3>1. found \in Version => note[<<p, found>>] # "none"
      BY <2>1 DEF Found, LiveRows
    <3> QED  BY <1>0, <2>2, <2>4, <2>s, <3>1 DEF LibraryShape, Tagging, AtTags
  <2>8. OneAtMost'
    BY <1>0, <2>2, <2>3, <2>4, <2>s DEF LibraryShape, AtTags, OneAtMost, LiveRows
  <2>9. HintedIsLocal' /\ HintsStay'
    BY <1>0, <2>4, <2>s DEF HintedIsLocal, HintsStay, Tagger
  <2> QED  BY <2>5, <2>6, <2>7, <2>8, <2>9 DEF LibraryIInv
<1>h. ASSUME NEW s \in Syncs, Stores(s) PROVE LibraryIInv'
  <2>0. PICK p, v : p = sync[s].path /\ v = sync[s].read
    OBVIOUS
  <2>1. p \in Path /\ v \in Version /\ (v \in Hinted => sync[s].local)
    BY <1>0, <1>h, <2>0 DEF Stores, Tagging, AtTags
  <2>2. /\ note' = Superseding(s)
        /\ exposure' = [exposure EXCEPT ![<<p, v>>] = IF sync[s].local THEN "local_only" ELSE "cloud_ok"]
        /\ newest' = [newest EXCEPT ![p] = v]
        /\ doubled' = (doubled \/ \E t \in Syncs \ {s} : AtTags(t) /\ sync[t].path = p)
        /\ inherited' = [c \in Capture |-> IF Stored(c) THEN Inherits(c, subjects[c], {<<p, v>>})
                                           ELSE inherited[c]]
        /\ sync' = [sync EXCEPT ![s] = [sync[s] EXCEPT !.at = "walking", !.todo = @ \ {p}, !.path = Absent,
                        !.found = NoRow, !.read = Absent, !.local = FALSE]]
        /\ UNCHANGED <<vault, inCloud, subjects, edits, failures>>
    BY <1>h, <2>0 DEF Stores, AtTags
  <2>3. <<p, v>> \in Row /\ (v \in Hinted => exposure'[<<p, v>>] = "local_only")
    BY <1>0, <2>1, <2>2 DEF LibraryTypeOK, Row
  <2>4. \A c \in Capture : inherited'[c] \subseteq Version /\ inherited'[c] \cap Hinted = {}
    <3> SUFFICES ASSUME NEW c \in Capture
                 PROVE  inherited'[c] \subseteq Version /\ inherited'[c] \cap Hinted = {}
      OBVIOUS
    <3>1. inherited[c] \subseteq Version /\ inherited[c] \cap Hinted = {}
      BY <1>0 DEF LibraryTypeOK, HintsStay
    <3>2. Inherits(c, subjects[c], {<<p, v>>}) \subseteq Version
          /\ Inherits(c, subjects[c], {<<p, v>>}) \cap Hinted = {}
      BY <2>3, <3>1, InheritsNoHint
    <3> QED  BY <2>2, <3>1, <3>2
  <2>s. PICK rec \in Syncing : rec.at = "walking" /\ sync' = [sync EXCEPT ![s] = rec]
    <3> DEFINE r == [sync[s] EXCEPT !.at = "walking", !.todo = @ \ {p}, !.path = Absent,
                         !.found = NoRow, !.read = Absent, !.local = FALSE]
    <3>1. sync[s] \in Syncing
      BY <1>0 DEF LibraryShape
    <3>2. r \in Syncing /\ r.at = "walking"
      BY <3>1 DEF Syncing
    <3>3. sync' = [sync EXCEPT ![s] = r]
      BY <2>2
    <3> HIDE DEF r
    <3> QED  BY <3>2, <3>3
  <2>5. LibraryShape'
    BY <1>0, <2>2, <2>s DEF LibraryShape
  <2>6. Tagging'
    <3>1. ASSUME NEW r \in Row, note[r] # "none" PROVE note'[r] # "none"
      BY <2>2, <3>1 DEF Superseding
    <3> QED  BY <1>0, <2>s, <3>1 DEF LibraryShape, Tagging, AtTags, Row
  <2>7. LibraryTypeOK'
    <3>1. note' \in [Row -> {"none", "live", "superseded", "deleted"}]
      BY <1>0, <2>2 DEF LibraryTypeOK, Superseding
    <3>2. exposure' \in [Row -> {"cloud_ok", "local_only"}] /\ newest' \in [Path -> Version \cup {NoRow}]
      BY <1>0, <2>1, <2>2 DEF LibraryTypeOK
    <3>3. inherited' \in [Capture -> SUBSET Version]
      BY <2>2, <2>4
    <3>4. doubled' \in BOOLEAN
      BY <1>0, <2>2 DEF LibraryTypeOK
    <3>5. \A t \in Syncs : sync'[t].at \in {"resting", "walking", "tagging"}
      BY <2>5 DEF LibraryShape, Syncing
    <3> QED  BY <1>0, <2>2, <3>1, <3>2, <3>3, <3>4, <3>5 DEF LibraryTypeOK, Stored
  <2>8. OneAtMost'
    <3> SUFFICES ASSUME ~doubled' PROVE OneAtMost'
      BY DEF OneAtMost
    <3>1. ~doubled /\ \A t \in Syncs \ {s} : AtTags(t) => sync[t].path # p
      BY <2>2
    <3>2. LiveRows(p) \subseteq {sync[s].found}
      BY <1>0, <1>h, <2>0, <3>1 DEF OneAtMost, Stores, AtTags
    <3>3. LiveRows(p)' \subseteq {v}
      BY <2>0, <2>1, <2>2, <3>2 DEF LiveRows, Superseding, Row
    <3>4. \A q \in Path \ {p} : LiveRows(q)' = LiveRows(q)
      BY <2>0, <2>1, <2>2 DEF LiveRows, Superseding, Row
    <3>5. \A t \in Syncs \ {s} : sync'[t] = sync[t]
      BY <1>0, <2>s DEF LibraryShape
    <3>6. ~AtTags(s)'
      BY <1>0, <2>s DEF LibraryShape, AtTags
    <3>7. \A q \in Path : \A x, y \in LiveRows(q)' : x = y
      BY <1>0, <3>1, <3>3, <3>4 DEF OneAtMost
    <3>8. ASSUME NEW t \in Syncs, AtTags(t)' PROVE LiveRows(sync[t].path)' \subseteq {sync'[t].found}
      <4>1. t # s /\ AtTags(t) /\ sync[t].path \in Path \ {p} /\ sync'[t] = sync[t]
        BY <1>0, <3>1, <3>5, <3>6, <3>8 DEF AtTags, Tagging
      <4>2. LiveRows(sync[t].path) \subseteq {sync[t].found}
        BY <1>0, <3>1, <4>1 DEF OneAtMost
      <4> QED  BY <3>4, <4>1, <4>2 DEF LiveRows
    <3> QED  BY <3>7, <3>8 DEF OneAtMost
  <2>9. HintedIsLocal'
    <3> SUFFICES ASSUME NEW q \in Path, NEW w \in Hinted, note'[<<q, w>>] # "none"
                 PROVE  exposure'[<<q, w>>] = "local_only"
      BY DEF HintedIsLocal
    <3>0. <<q, w>> \in Row
      BY DEF Row
    <3>1. CASE <<q, w>> = <<p, v>>
      BY <2>3, <3>1
    <3>2. CASE <<q, w>> # <<p, v>>
      <4>1. exposure'[<<q, w>>] = exposure[<<q, w>>]
        BY <1>0, <2>2, <3>0, <3>2 DEF LibraryTypeOK
      <4>2. note[<<q, w>>] # "none"
        <5>1. CASE <<q, w>> = <<p, sync[s].found>>
          <6>1. sync[s].found = w /\ w \in Version /\ p = q
            BY <5>1
          <6> QED  BY <1>0, <1>h, <2>0, <6>1 DEF Stores, Tagging, AtTags
        <5>2. CASE <<q, w>> # <<p, sync[s].found>>
          BY <2>0, <2>2, <3>0, <3>2, <5>2 DEF Superseding
        <5> QED  BY <5>1, <5>2
      <4> QED  BY <1>0, <4>1, <4>2 DEF HintedIsLocal
    <3> QED  BY <3>1, <3>2
  <2>a. HintsStay'
    BY <1>0, <2>2, <2>4 DEF HintsStay
  <2> QED  BY <2>5, <2>6, <2>7, <2>8, <2>9, <2>a DEF LibraryIInv
<1>i. ASSUME NEW c \in Capture, Captures(c) PROVE LibraryIInv'
  <2>1. PICK about \in SUBSET Person :
            /\ subjects' = [subjects EXCEPT ![c] = about]
            /\ inherited' = [inherited EXCEPT ![c] = Inherits(c, about, LiveNotes)]
    BY <1>i DEF Captures
  <2>2. UNCHANGED <<vault, note, exposure, newest, sync, inCloud, doubled, edits, failures>>
    BY <1>i DEF Captures
  <2>3. LiveNotes \subseteq Row /\ \A r \in LiveNotes : r[2] \in Hinted => exposure'[r] = "local_only"
    BY <1>0, <2>2 DEF LiveNotes, HintedIsLocal, Row
  <2>4. Inherits(c, about, LiveNotes) \subseteq Version /\ Inherits(c, about, LiveNotes) \cap Hinted = {}
    BY <1>0, <2>3, InheritsNoHint DEF LibraryTypeOK, HintsStay
  <2>5. LibraryTypeOK' /\ LibraryShape'
    BY <1>0, <2>1, <2>2, <2>4 DEF LibraryTypeOK, LibraryShape, Stored
  <2>6. HintsStay'
    BY <1>0, <2>1, <2>2, <2>4 DEF HintsStay, LibraryTypeOK
  <2>7. Tagging' /\ OneAtMost' /\ HintedIsLocal'
    BY <1>0, <2>2 DEF Tagging, OneAtMost, HintedIsLocal, AtTags, LiveRows
  <2> QED  BY <2>5, <2>6, <2>7 DEF LibraryIInv
<1>j. CASE UNCHANGED libraryVars
  BY <1>0, <1>j DEF libraryVars, LibraryIInv, LibraryTypeOK, LibraryShape, Tagging, OneAtMost,
     HintedIsLocal, HintsStay, AtTags, LiveRows, Stored
<1> QED
  BY <1>a, <1>b, <1>c, <1>d, <1>e, <1>f, <1>g, <1>h, <1>i, <1>j DEF LibraryNext

(***************************************************************************)
(* A file of the vault has one version that can be found until two syncs   *)
(* meet on it, and what says it is private never reaches the cloud         *)
(* (notes.py, index_file, documents.py, relate).                           *)
(***************************************************************************)
THEOREM HintsAreKept == LibrarySpec => []LibraryInv
<1>1. LibrarySpec => []LibraryIInv
  BY InitLibrary, StepLibrary, PTL DEF LibrarySpec
<1>2. LibraryIInv => LibraryInv
  <2> SUFFICES ASSUME LibraryIInv, NEW p \in Path, ~doubled PROVE Cardinality(LiveRows(p)) <= 1
    BY DEF LibraryIInv, LibraryInv, OneVersion
  <2>1. LiveRows(p) = {} \/ \E v \in LiveRows(p) : LiveRows(p) = {v}
    BY DEF LibraryIInv, OneAtMost
  <2>2. Cardinality({}) = 0 /\ \A v : Cardinality({v}) = 1
    BY FS_EmptySet, FS_Singleton
  <2> QED  BY <2>1, <2>2
<1> QED  BY <1>1, <1>2, PTL
=============================================================================

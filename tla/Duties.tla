-------------------------------- MODULE Duties --------------------------------
(* What the scheduled duties say, and what they remember of having said it:   *)
(* the home alerts, the chief of staff's "still open", the house steward's    *)
(* evening message, the curiosity question of the morning brief               *)
(* (triggers/home_alerts.py, chief_of_staff.py, house_steward.py, briefs.py,  *)
(* curiosity.py).                                                             *)
(*                                                                            *)
(* Each keeps a file of marks, one per thing it speaks of, and each writes    *)
(* the mark at another moment.  An alert and a digest are marked when they    *)
(* are out; the steward marks first and takes its marks back when the message *)
(* is held or fails; a question is marked as it is composed, never to nag.    *)
(* Between the look, the message and the mark the house, the hours and the    *)
(* process may change; and a message goes through Telegram, which may have    *)
(* taken what raises (telegram_bot.py, _deliver).                             *)
EXTENDS Naturals, FiniteSets

CONSTANTS
    Alert,          \* a stretch of the AC, a day's energy, a digest of open things
    Level,          \* a filter at one of its two levels
    Month,          \* the comparison of a month, on the first of the next
    Question,       \* gaps that could be asked about
    MaxNight,       \* bound: messages held by quiet hours or the kill switch
    MaxAmiss        \* bound: failed messages and crashes

Stewards == Level \cup Month          \* what the steward marks first
Item == Alert \cup Stewards \cup Question

\* Each duty has a file of its own, a month other keys than a filter.
ASSUME DutiesAssumption ==
    /\ Alert \cap (Stewards \cup Question) = {} /\ Stewards \cap Question = {}
    /\ Level \cap Month = {}
    /\ MaxNight \in Nat /\ MaxAmiss \in Nat

VARIABLES
    due,         \* items the world calls for now
    mark,        \* items marked in the files
    lines,       \* duty |-> what it is about to say
    busy,        \* duties that wait for their message
    passe,       \* alerts about to be said whose occasion is over
    resent,      \* items whose message raised and is sent once more
    told,        \* ghost: item |-> how often it was handed over on this occasion
    lost,        \* ghost: items of the steward's or the brief's that went under
    unsure,      \* ghost: items that were not told, and count as delivered
    held,        \* messages held so far
    amiss        \* what has failed so far

dutiesVars == <<due, mark, lines, busy, passe, resent, told, lost, unsure, held, amiss>>

Duty == {"alerts", "settle", "brief"}

DutiesInit ==
    /\ due = {} /\ mark = {}
    /\ lines = [k \in Duty |-> {}] /\ busy = {} /\ passe = {} /\ resent = {}
    /\ told = [i \in Item |-> 0] /\ lost = {} /\ unsure = {} /\ held = 0 /\ amiss = 0

Misses == amiss < MaxAmiss /\ amiss' = amiss + 1
Held == held < MaxNight /\ held' = held + 1

Unsaid(S) == (due \cap S) \ mark
ToldOf(S) == told' = [i \in Item |-> IF i \in S THEN told[i] + 1 ELSE told[i]]
Says(k, S) == lines' = [lines EXCEPT ![k] = S] /\ busy' = busy \cup {k}
EndsDuty(k) == lines' = [lines EXCEPT ![k] = {}] /\ busy' = busy \ {k}

(* -------------------------- a message goes out -------------------------- *)

\* What is sent of the items M counts for those whose occasion is not over.
Heard(M) == ToldOf(M \ passe)
Perhaps(M) == Heard(M) \/ UNCHANGED told

\* The message of M counts as delivered: it was taken, or the first attempt
\* timed out, and Telegram may have accepted it.
Delivered(M) ==
    /\ \/ Heard(M) /\ UNCHANGED <<unsure, amiss>>
       \/ /\ M \cap resent = {} /\ Misses
          /\ \/ Heard(M) /\ UNCHANGED unsure
             \/ unsure' = unsure \cup (M \ passe) /\ UNCHANGED told
    /\ resent' = resent \ M

\* The first attempt raises, taken or not or in part: it is sent once more.
\* (There is nothing to count of a message that names none of these items.)
Raises(M) ==
    /\ M # {} /\ M \cap resent = {} /\ Misses
    /\ Perhaps(M) /\ resent' = resent \cup M
    /\ UNCHANGED unsure

\* A refusal, or the second attempt raises.
Undelivered(M) == Misses /\ Perhaps(M) /\ resent' = resent \ M /\ UNCHANGED unsure

(* -------------------- home alerts, still open: mark after ------------- *)

\* decide_alerts, fire_still_open: what is due and not marked, one message each.
LooksAround ==
    /\ "alerts" \notin busy /\ Unsaid(Alert) # {}
    /\ \/ Says("alerts", Unsaid(Alert)) /\ UNCHANGED held
       \/ Held /\ UNCHANGED <<lines, busy>>
    /\ UNCHANGED <<due, mark, passe, resent, told, lost, unsure, amiss>>

\* The marks of an occasion that is over do not count for the next.
MarksIt(i) == mark' = mark \cup ({i} \ passe)

Drops(i) ==
    IF lines["alerts"] = {i} THEN EndsDuty("alerts")
    ELSE lines' = [lines EXCEPT !["alerts"] = @ \ {i}] /\ UNCHANGED busy

\* One after the other.
Turn(i) == i \in lines["alerts"] /\ resent \cap lines["alerts"] \subseteq {i}

Alerts(i) ==
    /\ Turn(i) /\ Delivered({i}) /\ MarksIt(i)
    /\ Drops(i) /\ passe' = passe \ {i}
    /\ UNCHANGED <<due, lost, held>>

AlertRaises(i) ==
    /\ Turn(i) /\ Raises({i})
    /\ UNCHANGED <<due, mark, lines, busy, passe, lost, held>>

\* "An undelivered alert must not burn its marker."
AlertFails(i) ==
    /\ Turn(i) /\ Undelivered({i})
    /\ Drops(i) /\ passe' = passe \ {i}
    /\ UNCHANGED <<due, mark, lost, held>>

(* --------------- house steward: mark first, take back ------------------ *)

\* The marks as the evening's look leaves them: gone for what is fine again,
\* set for what is to be said.
Looked == (mark \ (Level \ due)) \cup (due \cap Stewards)

\* The marks when the message is held or failed: every filter's is gone, also
\* one that was told on another night; the month's only when it was held.
TakenBack == mark \ Level

\* The evening check: the ledger and the marks are saved, and if anything is
\* worth a hand (Other: the AC, the purifier, the display are on), it is said.
Settles ==
    /\ "settle" \notin busy
    /\ \E Other \in BOOLEAN :
          LET news == Unsaid(Stewards) IN
          \/ /\ news = {} /\ ~Other /\ mark' = Looked /\ mark' # mark
             /\ UNCHANGED <<lines, busy, held>>
          \/ /\ news # {} \/ Other
             /\ mark' = Looked
             /\ Says("settle", news) /\ UNCHANGED held
          \/ /\ news # {} \/ Other
             /\ mark' = Looked \ (Level \cup (news \cap Month))
             /\ Held /\ UNCHANGED <<lines, busy>>
    /\ UNCHANGED <<due, passe, resent, told, lost, unsure, amiss>>

SettleTold ==
    /\ "settle" \in busy
    /\ Delivered(lines["settle"]) /\ EndsDuty("settle")
    /\ UNCHANGED <<due, mark, passe, lost, held>>

SettleRaises ==
    /\ Raises(lines["settle"])
    /\ UNCHANGED <<due, mark, lines, busy, passe, lost, held>>

SettleFails ==
    /\ "settle" \in busy /\ Undelivered(lines["settle"])
    /\ mark' = TakenBack
    /\ lost' = lost \cup (lines["settle"] \cap Month)
    /\ EndsDuty("settle")
    /\ UNCHANGED <<due, passe, held>>

(* ---------------- curiosity: marked when composed ---------------------- *)

\* daily_line: one question, marked before the brief that carries it is sent.
Composes ==
    /\ "brief" \notin busy
    /\ \E q \in Unsaid(Question) :
          /\ mark' = mark \cup {q}
          /\ Says("brief", {q})
    /\ UNCHANGED <<due, passe, resent, told, lost, unsure, held, amiss>>

\* A slip: a brief that failed gives its question back.
BriefGivesBack ==
    /\ "brief" \in busy /\ Undelivered(lines["brief"])
    /\ mark' = mark \ lines["brief"]
    /\ EndsDuty("brief")
    /\ UNCHANGED <<due, passe, lost, held>>

BriefTold ==
    /\ "brief" \in busy
    /\ Delivered(lines["brief"]) /\ EndsDuty("brief")
    /\ UNCHANGED <<due, mark, passe, lost, held>>

BriefRaises ==
    /\ Raises(lines["brief"])
    /\ UNCHANGED <<due, mark, lines, busy, passe, lost, held>>

BriefFails ==
    /\ "brief" \in busy /\ Undelivered(lines["brief"])
    /\ lost' = lost \cup lines["brief"]
    /\ EndsDuty("brief")
    /\ UNCHANGED <<due, mark, passe, held>>

(* ------------------------------ the world ------------------------------ *)

\* The process dies with messages on their way: what was marked stays marked.
Restarts ==
    /\ busy # {} /\ Misses
    /\ \E k \in busy : Perhaps(lines[k])
    /\ lost' = lost \cup lines["settle"] \cup lines["brief"]
    /\ lines' = [k \in Duty |-> {}] /\ busy' = {} /\ passe' = {} /\ resent' = {}
    /\ UNCHANGED <<due, mark, unsure, held>>

\* An occasion comes.  A filter that was fine for less than a day has its mark
\* still: to the evening check it is the same occasion.
Arises(i) ==
    /\ i \notin due /\ due' = due \cup {i}
    /\ IF i \in Question \cup mark THEN UNCHANGED <<told, lost, unsure>>
       ELSE told' = [told EXCEPT ![i] = 0] /\ lost' = lost \ {i} /\ unsure' = unsure \ {i}
    /\ UNCHANGED <<mark, lines, busy, passe, resent, held, amiss>>

\* ... and goes: the next stretch, day or digest has a marker of its own.
Passes(i) ==
    /\ i \in due /\ due' = due \ {i}
    /\ i \notin Month \cap lines["settle"]
    /\ mark' = IF i \in Alert \cup Month THEN mark \ {i} ELSE mark
    /\ passe' = passe \cup ({i} \cap lines["alerts"])
    /\ UNCHANGED <<lines, busy, resent, told, lost, unsure, held, amiss>>

\* Two weeks after it was asked a question may be asked again.
AskedLongAgo(q) ==
    /\ q \in mark \cap Question /\ q \notin lines["brief"]
    /\ mark' = mark \ {q} /\ lost' = lost \ {q} /\ unsure' = unsure \ {q}
    /\ told' = [told EXCEPT ![q] = 0]
    /\ UNCHANGED <<due, lines, busy, passe, resent, held, amiss>>

AlertSteps == LooksAround \/ \E i \in Alert : Alerts(i) \/ AlertRaises(i) \/ AlertFails(i)
SettleSteps == Settles \/ SettleTold \/ SettleRaises \/ SettleFails
BriefSteps == Composes \/ BriefTold \/ BriefRaises \/ BriefFails

DutiesNext ==
    \/ AlertSteps \/ SettleSteps \/ BriefSteps \/ Restarts
    \/ \E i \in Item : Arises(i) \/ Passes(i)
    \/ \E q \in Question : AskedLongAgo(q)

\* The jobs run every half hour, every evening, every morning.
DutiesFairness == WF_dutiesVars(AlertSteps) /\ WF_dutiesVars(SettleSteps)
                      /\ WF_dutiesVars(BriefSteps)

DutiesSpec == DutiesInit /\ [][DutiesNext]_dutiesVars /\ DutiesFairness

(* ------------------------------ properties ----------------------------- *)

DutiesTypeOK ==
    /\ due \subseteq Item /\ mark \subseteq Item
    /\ lines \in [Duty -> SUBSET Item] /\ busy \subseteq Duty /\ passe \subseteq Alert
    /\ resent \subseteq Item
    /\ told \in [Item -> Nat] /\ lost \subseteq Item /\ unsure \subseteq Item
    /\ held \in 0..MaxNight /\ amiss \in 0..MaxAmiss

\* A marker means the thing was said on this occasion, or that its message timed
\* out: that is all for an alert; the steward's and the brief's may also be on
\* their way, have failed after the mark, or gone under with the process.
MarkedWasTold ==
    /\ \A i \in mark \cap Alert : told[i] > 0 \/ i \in unsure
    /\ \A i \in mark \ Alert :
            told[i] > 0 \/ i \in unsure \/ i \in lost \/ \E k \in busy : i \in lines[k]

\* Once an occasion, but for what failed or a crash: an alert; a filter also when
\* a later evening's message is held or fails, which takes back the marks of
\* earlier ones; and a question, which is marked before it is sent, at most
\* twice whatever fails, when a message that raised had been heard.
SaidOnce ==
    /\ \A i \in Alert : told[i] <= 1 + amiss
    /\ \A i \in Stewards : told[i] <= 1 + amiss + held
    /\ \A q \in Question : told[q] <= 2 /\ told[q] <= 1 + amiss

\* The safety of the duties' memory, with its type.
DutiesInv == DutiesTypeOK /\ MarkedWasTold /\ SaidOnce

\* What stays due is said in the end by the alerts and the steward, unless its
\* message timed out or a crash takes it after its mark.
DueIsSaid ==
    \A i \in Alert \cup Level : []<>(i \in due => told[i] > 0 \/ i \in lost \/ i \in unsure)
================================================================================

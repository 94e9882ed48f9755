-------------------------------- MODULE Keeper --------------------------------
(* Kiaan's keeper (triggers/kiaan_keeper.py): the vaccination schedule of a   *)
(* child, what of it is done, and what the owner was told of it.              *)
(*                                                                            *)
(* A dose grows due by age; it is done when a card, a photo or the owner says *)
(* so.  Every morning one message names what is newly due, near or overdue,   *)
(* and the state file remembers what was named once the message is out.  The  *)
(* file is loaded before the message and saved whole after it; meanwhile the  *)
(* owner may record a dose in the same file, and the process may die.         *)
EXTENDS Naturals, FiniteSets

CONSTANTS
    Dose,           \* the schedule
    Milestone,      \* sitting, walking, first words...
    MaxAmiss        \* bound: failed messages and crashes

ASSUME KeeperAssumption == MaxAmiss \in Nat

\* A dose's age: not yet, within three weeks, within three days, its window
\* open, past it, and too long past to be named.
Phase == {"later", "soon", "near", "open", "overdue", "lapsed"}
NextPhase(ph) == CASE ph = "later" -> "soon" [] ph = "soon" -> "near" [] ph = "near" -> "open"
                [] ph = "open" -> "overdue" [] OTHER -> "lapsed"

\* What is named of a dose.
Word == {"first", "near", "overdue"}
Line == (Dose \X Word) \cup (Milestone \X {"asked"})

VARIABLES
    phase,       \* dose |-> where it is by the child's age
    shown,       \* doses that a card or a photo shows as given
    file,        \* the state file: done (the owner's word), nudged and asked
    fresh,       \* overdue doses named less than a fortnight ago, and the
                 \* milestones asked about in the last week
    morning,     \* "due", "sending", "over"
    copy,        \* what the morning's check loaded and goes by
    lines,       \* what its message names
    told,        \* ghost: line |-> how often it was handed over (overdue: whether)
    kept,        \* ghost: doses the owner was told are recorded
    raced,       \* ghost: has the check saved over a recording
    amiss        \* what has failed so far

world == <<phase, shown>>
check == <<morning, copy, lines>>
keeperVars == <<phase, shown, file, fresh, morning, copy, lines, told, kept,
                raced, amiss>>

NoFile == [done |-> {}, nudged |-> {}]

KeeperInit ==
    /\ phase \in [Dose -> {"later", "overdue"}] /\ shown = {}
    /\ file = NoFile /\ fresh = {}
    /\ morning = "over" /\ copy = NoFile /\ lines = {}
    /\ told = [l \in Line |-> 0] /\ kept = {} /\ raced = FALSE
    /\ amiss = 0

Misses == amiss < MaxAmiss /\ amiss' = amiss + 1

\* done_map: the card, the photo of a vaccination day, the owner.
Done(f) == shown \cup f.done

(* ----------------------------- the morning ----------------------------- *)

\* A slip: a dose in sight is named every morning.
EveryMorning(f) ==
    {<<d, "first">> : d \in {e \in Dose \ Done(f) : phase[e] \in {"soon", "near", "open"}}}

\* What is to be named: a dose that comes into sight once, once more within
\* three days of it, an overdue one when a fortnight has passed since the last
\* time.
Due(f) ==
    LET Soon == {d \in Dose \ Done(f) : phase[d] \in {"soon", "near", "open"}}
        First == {d \in Soon : <<d, "first">> \notin f.nudged}
        Near == {d \in Soon \ First : phase[d] = "near" /\ <<d, "near">> \notin f.nudged}
        Overdue == {d \in Dose \ Done(f) : phase[d] = "overdue" /\ d \notin fresh}
    IN  First \X {"first"} \cup Near \X {"near"} \cup Overdue \X {"overdue"}

\* One milestone question a week, for one whose window the child is in and no
\* note or photo tells of, and once each.
Question(f) ==
    {{}} \cup {{<<m, "asked">>} : m \in {x \in Milestone : /\ fresh \cap Milestone = {}
                                                        /\ <<x, "asked">> \notin f.nudged}}

\* Nothing is said in quiet hours or under the kill switch: the next morning
\* looks again.
Checks ==
    /\ morning = "due"
    /\ \/ morning' = "over" /\ UNCHANGED <<copy, lines>>
       \/ \E ask \in Question(file) :
             /\ Due(file) \cup ask # {}
             /\ morning' = "sending" /\ copy' = file /\ lines' = Due(file) \cup ask
    /\ UNCHANGED <<world, file, fresh, told, kept, raced, amiss>>

MorningOver == morning' = "over" /\ copy' = NoFile /\ lines' = {}

Counted == told' = [l \in Line |-> IF l \notin lines THEN told[l]
                                    ELSE IF l[2] = "overdue" THEN 1 ELSE told[l] + 1]

\* The message is out: the loaded state is saved with what was named.
HandsOver ==
    /\ morning = "sending"
    /\ Counted
    /\ file' = [copy EXCEPT !.nudged = @ \cup lines]
    /\ fresh' = fresh \cup {l[1] : l \in {k \in lines : k[2] \in {"overdue", "asked"}}}
    /\ raced' = (raced \/ file.done # copy.done)
    /\ MorningOver
    /\ UNCHANGED <<world, kept, amiss>>

\* It is not, as far as Telegram says: the state stays, it is said again.
Fails ==
    /\ morning = "sending" /\ Misses
    /\ Counted \/ UNCHANGED told
    /\ MorningOver
    /\ UNCHANGED <<world, file, fresh, kept, raced>>

\* The process dies before the message or between it and the file; the morning
\* is not made up for.
KeeperRestarts ==
    /\ morning = "sending" /\ Misses
    /\ Counted \/ UNCHANGED told
    /\ MorningOver
    /\ UNCHANGED <<world, file, fresh, kept, raced>>

(* ------------------------------- the owner ----------------------------- *)

\* mark_done, after a yes: given or skipped, it is not named again.
MarksDone(d) ==
    /\ d \notin Done(file)
    /\ file' = [file EXCEPT !.done = @ \cup {d}]
    /\ kept' = kept \cup {d}
    /\ UNCHANGED <<world, fresh, check, told, raced, amiss>>

\* A card or a labelled photo is stored, or forgotten again.
CardChanges(d) ==
    /\ shown' \in {shown \cup {d}, shown \ {d}} /\ shown' # shown
    /\ UNCHANGED <<phase, file, fresh, check, told, kept, raced, amiss>>

(* ------------------------------- the days ------------------------------ *)

\* The child grows: the doses of D move on, a fortnight ends for those of F,
\* and the next morning comes.
DayPasses ==
    /\ morning = "over"
    /\ \E D \in SUBSET Dose, F \in SUBSET fresh :
           /\ phase' = [d \in Dose |-> IF d \in D THEN NextPhase(phase[d]) ELSE phase[d]]
           /\ fresh' = fresh \ F
    /\ morning' = "due"
    /\ UNCHANGED <<shown, file, copy, lines, told, kept, raced, amiss>>

\* Bound: what follows a check that saved over a recording is not followed.
Followed == ~raced

KeeperNext ==
    /\ Followed
    /\ \/ Checks \/ HandsOver \/ Fails \/ KeeperRestarts \/ DayPasses
       \/ \E d \in Dose : MarksDone(d) \/ CardChanges(d)

KeeperSpec == KeeperInit /\ [][KeeperNext]_keeperVars

(* ------------------------------ properties ----------------------------- *)

FileOK(f) == f.done \subseteq Dose /\ f.nudged \subseteq Line

KeeperTypeOK ==
    /\ phase \in [Dose -> Phase] /\ shown \subseteq Dose
    /\ FileOK(file) /\ FileOK(copy) /\ fresh \subseteq Dose \cup Milestone
    /\ morning \in {"due", "sending", "over"} /\ lines \subseteq Line
    /\ told \in [Line -> Nat] /\ kept \subseteq Dose
    /\ raced \in BOOLEAN /\ amiss \in 0..MaxAmiss

\* "ONE nudge, and one more three days before": a dose is named once on coming
\* into sight and once near its day, and a milestone is asked about once; again
\* only for a message reported lost or a crash between the message and the file.
NamedOnce == \A l \in Line : l[2] # "overdue" => told[l] <= 1 + amiss

\* "Delivery truth decides what is remembered": what the file says was named
\* was handed over.
NudgedWasTold == \A l \in file.nudged : told[l] > 0

\* The near warning never comes before the first one.
FirstComesFirst == \A d \in Dose : told[<<d, "near">>] > 0 => told[<<d, "first">>] > 0

\* The keeper's safety, with its type.
KeeperInv == KeeperTypeOK /\ NamedOnce /\ NudgedWasTold /\ FirstComesFirst
================================================================================

------------------------------- MODULE Goals -------------------------------
(***************************************************************************)
(* Goals (triggers/goals.py): pursuits with steps, a journal and a         *)
(* read-only work cycle on a cadence, whose report is sent to the goal's   *)
(* chat.  A goal has one queued job: a job of the same name is replaced.   *)
(*                                                                         *)
(* Times are abstracted: a queued cycle may come at any moment.  What is   *)
(* in a report are items: findings, a step checked off, a step added.      *)
(***************************************************************************)
EXTENDS Integers, FiniteSets

CONSTANTS
    Goal,       \* goal ids, all of one chat
    Finding,    \* what research can find
    GoalStep,   \* steps of a goal, by their words
    MaxActive,  \* MAX_ACTIVE_PER_PERSON
    MaxCycles   \* MAX_CYCLES_PER_DAY

ASSUME GoalsAssumption ==
    /\ MaxActive \in Nat /\ MaxCycles \in Nat
    /\ Finding \cap GoalStep = {}

VARIABLES
    goals,      \* goals.json: the records, by id
    queued,     \* the goals with a queued cycle
    cycle,      \* what the cycle of each goal awaits
    awake,      \* the process runs
    held,       \* can_send_proactively() says no
    known,      \* the chat is the owner's or enrolled
    cycles,     \* ghost: cycles of each goal since midnight
    owed        \* ghost: items recorded for a report the chat did not get yet

goalVars == <<goals, queued, cycle, awake, held, known, cycles, owed>>

Note   == {"done", "added"} \X GoalStep
Item   == Finding \cup Note
NoFind == "nothing new"

ASSUME ItemAssumption == NoFind \notin Item

GoalRecord == [status : {"active", "paused", "done"}, open : SUBSET GoalStep,
               closed : SUBSET GoalStep, journal : SUBSET Finding,
               unreported : SUBSET Item, count : 0 .. MaxCycles, today : BOOLEAN]

Rest  == [at |-> "rest"]
Cycle == [at : {"working"}, journal : SUBSET Finding, carry : SUBSET Item]
         \cup [at : {"reporting", "reported"}, report : SUBSET Item, carry : SUBSET Item]

GoalsTypeOK ==
    /\ DOMAIN goals \subseteq Goal
    /\ \A g \in DOMAIN goals : goals[g] \in GoalRecord
    /\ queued \subseteq Goal
    /\ cycle \in [Goal -> Cycle \cup {Rest}]
    /\ awake \in BOOLEAN /\ held \in BOOLEAN /\ known \in BOOLEAN
    /\ cycles \in [Goal -> Nat]
    /\ owed \in [Goal -> SUBSET Item]
-----------------------------------------------------------------------------
ActiveGoals == {g \in DOMAIN goals : goals[g].status = "active"}

NewGoal(steps) == [status |-> "active", open |-> steps, closed |-> {}, journal |-> {},
                   unreported |-> {}, count |-> 0, today |-> FALSE]

Mutate(g, r) == goals' = [goals EXCEPT ![g] = r]

Enqueue(g) == queued' = queued \cup {g}

GoalsInit ==
    /\ goals = [g \in {} |-> NewGoal({})]
    /\ queued = {}
    /\ cycle = [g \in Goal |-> Rest]
    /\ awake = TRUE /\ held = FALSE /\ known = TRUE
    /\ cycles = [g \in Goal |-> 0]
    /\ owed = [g \in Goal |-> {}]

(* create: refused while MAX_ACTIVE_PER_PERSON goals are active. *)
CreateGoal(g, steps) ==
    /\ awake /\ g \notin DOMAIN goals
    /\ Cardinality(ActiveGoals) < MaxActive
    /\ goals' = [h \in DOMAIN goals \cup {g} |-> IF h = g THEN NewGoal(steps) ELSE goals[h]]
    /\ Enqueue(g)
    /\ UNCHANGED <<cycle, awake, held, known, cycles, owed>>

(* Slip: a resumed goal is not scheduled. *)
SetStatusOnly(g, status) ==
    /\ awake /\ g \in DOMAIN goals
    /\ goals[g].status \notin {"done", status}
    /\ Mutate(g, [goals[g] EXCEPT !.status = status])
    /\ UNCHANGED <<queued, cycle, awake, held, known, cycles, owed>>

(* set_status: resolve() never finds a goal that is done; a goal that is   *)
(* resumed is scheduled.                                                   *)
SetStatus(g, status) ==
    /\ awake /\ g \in DOMAIN goals
    /\ goals[g].status \notin {"done", status}
    /\ Mutate(g, [goals[g] EXCEPT !.status = status])
    /\ IF status = "active" THEN Enqueue(g) ELSE UNCHANGED queued
    /\ UNCHANGED <<cycle, awake, held, known, cycles, owed>>

(* update: a step checked off, reopened or added in conversation.  A note  *)
(* of the user's also goes to the journal; it is left out, since it is     *)
(* never word for word what research reports.                              *)
UpdateGoal(g, s) ==
    /\ awake /\ g \in DOMAIN goals /\ goals[g].status # "done"
    /\ \/ /\ s \in goals[g].open
          /\ Mutate(g, [goals[g] EXCEPT !.open = @ \ {s}, !.closed = @ \cup {s}])
       \/ /\ s \in goals[g].closed
          /\ Mutate(g, [goals[g] EXCEPT !.closed = @ \ {s}, !.open = @ \cup {s}])
       \/ /\ s \notin goals[g].open \cup goals[g].closed
          /\ Mutate(g, [goals[g] EXCEPT !.open = @ \cup {s}])
    /\ UNCHANGED <<queued, cycle, awake, held, known, cycles, owed>>
-----------------------------------------------------------------------------
(* fire(): the queued cycle of goal g comes.  Cycles are at least 12 hours *)
(* apart, so the one before has ended.                                     *)
Comes(g) == awake /\ g \in queued /\ cycle[g] = Rest

CycleSkipped(g) ==
    /\ Comes(g) /\ g \notin ActiveGoals
    /\ queued' = queued \ {g}
    /\ UNCHANGED <<goals, cycle, awake, held, known, cycles, owed>>

Today(r) == IF r.today THEN r.count ELSE 0

(* Enough for today: only scheduled again. *)
CycleCapped(g) ==
    /\ Comes(g) /\ g \in ActiveGoals
    /\ Today(goals[g]) >= MaxCycles
    /\ UNCHANGED <<goals, queued, cycle, awake, held, known, cycles, owed>>

(* The cadence moves on and the cycle is counted before anything else.     *)
Counted(g) ==
    /\ Comes(g) /\ g \in ActiveGoals
    /\ Today(goals[g]) < MaxCycles
    /\ Mutate(g, [goals[g] EXCEPT !.count = Today(goals[g]) + 1, !.today = TRUE])
    /\ cycles' = [cycles EXCEPT ![g] = @ + 1]
    /\ UNCHANGED <<queued, awake, held, known, owed>>

(* Quiet hours skip the cycle. *)
CycleHeld(g) == Counted(g) /\ held /\ UNCHANGED cycle

(* The research begins; what it will report besides, and the journal it    *)
(* compares its finding with, are read now.                                *)
CycleBegins(g) ==
    /\ Counted(g) /\ ~held
    /\ cycle' = [cycle EXCEPT ![g] = [at |-> "working", journal |-> goals[g].journal,
                                      carry |-> goals[g].unreported]]

(* The research raised, or found nothing and nothing is carried. *)
CycleEnds(g) ==
    /\ cycle[g].at = "working"
    /\ cycle' = [cycle EXCEPT ![g] = Rest]
    /\ UNCHANGED <<goals, queued, awake, held, known, cycles, owed>>

Applied(r, done, add, x) ==
    [r EXCEPT !.open    = (@ \ done) \cup add,
              !.closed  = @ \cup done,
              !.journal = @ \cup x]

Notes(done, add) == ({"done"} \X done) \cup ({"added"} \X add)

Report(g, fresh) == cycle[g].carry \cup fresh

(* It found x (or nothing new), and names an open step it settles and new  *)
(* ones to add.  Steps and journal are those of the record as it is now,   *)
(* what is carried and what was known are those the cycle began with.      *)
CycleFinds(g, x, done, add) ==
    LET unseen == {x} \ (cycle[g].journal \cup {NoFind})
        fresh  == unseen \cup Notes(done, add)
        report == Report(g, fresh)
    IN  /\ cycle[g].at = "working"
        /\ report # {}
        /\ Mutate(g, Applied(goals[g], done, add, unseen))
        /\ owed' = [owed EXCEPT ![g] = @ \cup fresh]
        /\ cycle' = [cycle EXCEPT ![g] = [at |-> "reporting", report |-> report,
                                          carry |-> cycle[g].carry]]
        /\ UNCHANGED <<queued, awake, held, known, cycles>>
-----------------------------------------------------------------------------
ReportArrives(g) ==
    /\ cycle[g].at = "reporting" /\ known
    /\ cycle' = [cycle EXCEPT ![g].at = "reported"]
    /\ owed' = [owed EXCEPT ![g] = @ \ cycle[g].report]
    /\ UNCHANGED <<goals, queued, awake, held, known, cycles>>

(* The channel does not know the chat any more and says False: the next    *)
(* cycle carries the report.                                               *)
ReportDropped(g) ==
    /\ cycle[g].at = "reporting" /\ ~known
    /\ Mutate(g, [goals[g] EXCEPT !.unreported = cycle[g].report])
    /\ cycle' = [cycle EXCEPT ![g] = Rest]
    /\ UNCHANGED <<queued, awake, held, known, cycles, owed>>

(* The send raised: the exception leaves fire(). *)
ReportRaises(g) ==
    /\ cycle[g].at \in {"reporting", "reported"} /\ known
    /\ cycle' = [cycle EXCEPT ![g] = Rest]
    /\ UNCHANGED <<goals, queued, awake, held, known, cycles, owed>>

ReportReturns(g) ==
    /\ cycle[g].at = "reported"
    /\ IF cycle[g].carry = {} THEN UNCHANGED goals
       ELSE Mutate(g, [goals[g] EXCEPT !.unreported = {}])
    /\ cycle' = [cycle EXCEPT ![g] = Rest]
    /\ UNCHANGED <<queued, awake, held, known, cycles, owed>>
-----------------------------------------------------------------------------
Midnight ==
    /\ goals' = [g \in DOMAIN goals |-> [goals[g] EXCEPT !.today = FALSE]]
    /\ cycles' = [g \in Goal |-> 0]
    /\ UNCHANGED <<queued, cycle, awake, held, known, owed>>

InReport(g) == IF cycle[g].at \in {"reporting", "reported"} THEN cycle[g].report ELSE {}

(* A crash may lose the report being sent. *)
GoalsHalt ==
    /\ awake
    /\ awake' = FALSE
    /\ queued' = {}
    /\ cycle' = [g \in Goal |-> Rest]
    /\ owed' = [g \in Goal |-> IF g \in DOMAIN goals
                               THEN owed[g] \ (InReport(g) \ goals[g].unreported)
                               ELSE owed[g]]
    /\ UNCHANGED <<goals, held, known, cycles>>

(* init(): every active goal is scheduled. *)
GoalsBoot ==
    /\ ~awake
    /\ awake' = TRUE
    /\ queued' = ActiveGoals
    /\ UNCHANGED <<goals, cycle, held, known, cycles, owed>>

Surroundings ==
    /\ \/ held' = ~held /\ UNCHANGED known
       \/ known' = ~known /\ UNCHANGED held
    /\ UNCHANGED <<goals, queued, cycle, awake, cycles, owed>>

Comings(g) == CycleSkipped(g) \/ CycleCapped(g) \/ CycleHeld(g) \/ CycleBegins(g)

Finds(g) ==
    /\ cycle[g] # Rest
    /\ \E x \in Finding \cup {NoFind},
          done \in {{}} \cup {{s} : s \in goals[g].open},
          add \in SUBSET (GoalStep \ (goals[g].open \cup goals[g].closed)) :
            CycleFinds(g, x, done, add)

Reports(g) == ReportArrives(g) \/ ReportDropped(g) \/ ReportReturns(g)

GoalsNext ==
    \/ \E g \in Goal, steps \in SUBSET GoalStep : CreateGoal(g, steps)
    \/ \E g \in Goal, st \in {"active", "paused", "done"} : SetStatus(g, st)
    \/ \E g \in Goal, s \in GoalStep : UpdateGoal(g, s)
    \/ \E g \in Goal : \/ Comings(g) \/ CycleEnds(g) \/ Finds(g)
                       \/ Reports(g) \/ ReportRaises(g)
    \/ Midnight \/ GoalsHalt \/ GoalsBoot \/ Surroundings

GoalsSpec == GoalsInit /\ [][GoalsNext]_goalVars

(* One event loop runs what is due and resumes what returned; days pass;   *)
(* strong fairness: research and sends do not fail every time.             *)
GoalsFairness ==
    /\ WF_goalVars(Midnight) /\ WF_goalVars(GoalsBoot)
    /\ \A g \in Goal : /\ WF_goalVars(Comings(g))
                       /\ SF_goalVars(Finds(g))
                       /\ SF_goalVars(ReportArrives(g))
                       /\ SF_goalVars(ReportReturns(g) \/ ReportDropped(g))
-----------------------------------------------------------------------------
(* However often goals are paused, resumed or re-armed by a restart, no    *)
(* goal has more than MaxCycles cycles a day (goals.py:29).                *)
CountIsToday == \A g \in DOMAIN goals : cycles[g] = Today(goals[g])

CyclesCapped == \A g \in Goal : cycles[g] <= MaxCycles

(* An active goal always has its next cycle queued: a held, capped or      *)
(* failed one never ends the cadence (goals.py:273-274).                   *)
ActiveGoalsWake == awake => ActiveGoals \subseteq queued

(* What a cycle carries is what the record still holds. *)
CarryIsUnreported ==
    \A g \in Goal : cycle[g] # Rest =>
        /\ g \in DOMAIN goals
        /\ cycle[g].carry = goals[g].unreported
        /\ cycle[g].at # "working" => cycle[g].carry \subseteq cycle[g].report
        /\ cycle[g].at = "reported" => cycle[g].report \cap owed[g] = {}

GoalsInv ==
    /\ GoalsTypeOK /\ CountIsToday /\ CyclesCapped /\ ActiveGoalsWake
    /\ CarryIsUnreported
    /\ \A g \in Goal \ DOMAIN goals : cycles[g] = 0

(* What was marked unreported stays marked until the chat got it           *)
(* (goals.py:48-50).                                                       *)
UnreportedTold ==
    [][\A g \in DOMAIN goals :
          goals[g].unreported \cap owed[g] \subseteq goals'[g].unreported]_goalVars

(* Every item a cycle recorded was heard, is marked unreported, is in the  *)
(* report being sent or was lost with the process that was sending it      *)
(* (goals.py:48-50, "the next cycle's ping carries it").                   *)
FindingsCarried ==
    \A g \in DOMAIN goals :
        owed[g] \subseteq goals[g].unreported \cup InReport(g)

(* If the process stays up, not quiet, and the chat stays known, what is   *)
(* unreported of a goal that stays active reaches the chat.                *)
GoalCalm(g) == <>[](awake /\ ~held /\ known /\ g \in ActiveGoals)

CarriedReportArrives ==
    \A g \in Goal : GoalCalm(g) => []<>(g \in DOMAIN goals => goals[g].unreported = {})
=============================================================================

------------------------------ MODULE CodeAgent ------------------------------
(* Coding tasks handed to Claude Code (tools/code_agent.py): each runs in a   *)
(* worktree and on a branch of its own, in the background of the process that *)
(* started it, and is retried once by the next larger model.                  *)
(*                                                                            *)
(* What a task is and where it stands is in data/code_jobs.json, which the    *)
(* Telegram bot and the terminal share; that it runs is known only to the     *)
(* process that runs it, and that process can end at any moment.              *)
EXTENDS Naturals, Sequences, FiniteSets, SequencesExt

CONSTANTS Job,          \* the tasks that may be asked for
          Picks,        \* the models a task may be begun with
          MaxExit       \* bound: how often a process may end

Process == {"bot", "terminal"}
LADDER == <<"haiku", "sonnet", "opus">>
Model == ToSet(LADDER) \cup {"fable"}

ASSUME CodeAssumption == IsFiniteSet(Job) /\ Picks \subseteq Model /\ MaxExit \in Nat

VARIABLES
    order,     \* the tasks in the file, oldest first
    job,       \* the record of each
    tree,      \* the worktrees that exist
    branch,    \* the branches that exist
    step,      \* how far the task's run is, in the process that runs it
    by,        \* the process a task was started in
    hand,      \* the task a process is starting or discarding, and how far
    reported,      \* what the owner was told of the task's end
    exits      \* how often a process ended

codeVars == <<order, job, tree, branch, step, by, hand, reported, exits>>

JobRecord == [status : {"none", "running", "done", "failed", "discarded"},
           model : Model, from : Model \cup {""}]
Working == {"first", "second"}
Ended == {"done", "failed"}
FreeHand == [does |-> "nothing"]

CodeTypeOK ==
    /\ order \in Seq(Job) /\ IsInjective(order)
    /\ job \in [Job -> JobRecord]
    /\ tree \subseteq Job /\ branch \subseteq Job /\ exits \in 0..MaxExit
    /\ step \in [Job -> Working \cup {"none"} \cup Ended]
    /\ by \in [Job -> Process]
    /\ reported \in [Job -> {"nothing", "done", "failed"}]

CodeInit ==
    /\ order = <<>>
    /\ job = [j \in Job |-> [status |-> "none", model |-> "sonnet", from |-> ""]]
    /\ tree = {} /\ branch = {}
    /\ step = [j \in Job |-> "none"]
    /\ by \in [Job -> {"bot"}]
    /\ hand = [p \in Process |-> FreeHand]
    /\ reported = [j \in Job |-> "nothing"]
    /\ exits = 0

Listed == ToSet(order)
Running == {j \in Listed : job[j].status = "running"}
Fresh == Job \ (Listed \cup tree \cup branch \cup {hand[p].of : p \in {q \in Process : hand[q] # FreeHand}})

(* --------------------------------- start -------------------------------- *)

\* A slip: what already runs is not looked at.
StartsAnyway(p) == TRUE

\* One task at a time, by the file.
MayStart(p) == Running = {}

\* The worktree and its branch come first, then the record and the run.  No
\* await parts them, so only the other process gets in between.
Begins(p) ==
    /\ hand[p] = FreeHand /\ MayStart(p)
    /\ \E j \in Fresh : hand' = [hand EXCEPT ![p] = [does |-> "start", of |-> j]]
    /\ UNCHANGED <<order, job, tree, branch, step, by, reported, exits>>

Opens(p) ==
    /\ hand[p].does = "start"
    /\ LET j == hand[p].of IN
       \/ /\ j \notin tree
          /\ tree' = tree \cup {j} /\ branch' = branch \cup {j}
          /\ UNCHANGED <<order, job, step, by, hand, reported, exits>>
       \/ /\ j \in tree
          /\ order' = Append(order, j)
          /\ \E m \in Picks :
                job' = [job EXCEPT ![j] = [status |-> "running", model |-> m, from |-> ""]]
          /\ step' = [step EXCEPT ![j] = "first"]
          /\ by' = [by EXCEPT ![j] = p]
          /\ hand' = [hand EXCEPT ![p] = FreeHand]
          /\ UNCHANGED <<tree, branch, reported, exits>>

\* git refuses, or the link or the file fails: whatever was made stays.
StartFails(p) ==
    /\ hand[p].does = "start"
    /\ hand' = [hand EXCEPT ![p] = FreeHand]
    /\ UNCHANGED <<order, job, tree, branch, step, by, reported, exits>>

(* ---------------------------------- run --------------------------------- *)

NextRung(m) == {LADDER[i + 1] : i \in {k \in 1..(Len(LADDER) - 1) : LADDER[k] = m}}

MayClimb(j) == NextRung(job[j].model) # {} /\ job[j].from = ""

\* A failed or unfinished attempt is continued, in the same worktree, by the
\* next larger model - once.
Escalates(j) ==
    /\ step[j] = "first" /\ MayClimb(j)
    /\ \E m \in NextRung(job[j].model) :
          job' = [job EXCEPT ![j].model = m, ![j].from = job[j].model]
    /\ step' = [step EXCEPT ![j] = "second"]
    /\ UNCHANGED <<order, tree, branch, by, hand, reported, exits>>

\* It ended (well, unfinished with no rung left, failed, timed out), or git
\* could not tell the difference to main.
Finishes(j) ==
    /\ step[j] \in Working
    /\ \E s \in Ended : /\ job' = [job EXCEPT ![j].status = s]
                       /\ step' = [step EXCEPT ![j] = s]
    /\ UNCHANGED <<order, tree, branch, by, hand, reported, exits>>

\* The report: once, by the bot; the terminal never set a way to send one.
SendsReport(j) ==
    /\ step[j] \in Ended
    /\ step' = [step EXCEPT ![j] = "none"]
    /\ reported' \in IF by[j] = "bot"
                 THEN {reported, [reported EXCEPT ![j] = step[j]]} ELSE {reported}
    /\ UNCHANGED <<order, job, tree, branch, by, hand, exits>>

(* -------------------------------- discard ------------------------------- *)

MayDrop(j) == job[j].status # "running"

\* The one named, or the last.
Discards(p) ==
    /\ hand[p] = FreeHand
    /\ \E j \in Listed :
          /\ MayDrop(j)
          /\ hand' = [hand EXCEPT ![p] = [does |-> "discard", of |-> j]]
          /\ tree' = tree \ {j}
          /\ branch' \in {branch, branch \ {j}}
    /\ UNCHANGED <<order, job, step, by, reported, exits>>

Marks(p) ==
    /\ hand[p].does = "discard"
    /\ job' = [job EXCEPT ![hand[p].of].status = "discarded"]
    /\ hand' = [hand EXCEPT ![p] = FreeHand]
    /\ UNCHANGED <<order, tree, branch, step, by, reported, exits>>

(* --------------------------------- exits -------------------------------- *)

\* The process ends: its runs end with it, and no start looks for them.
Exits(p) ==
    /\ exits < MaxExit /\ exits' = exits + 1
    /\ hand[p] # FreeHand \/ \E j \in Job : by[j] = p /\ step[j] # "none"
    /\ step' = [j \in Job |-> IF by[j] = p THEN "none" ELSE step[j]]
    /\ hand' = [hand EXCEPT ![p] = FreeHand]
    /\ UNCHANGED <<order, job, tree, branch, by, reported>>

Turns(p) == Begins(p) \/ Opens(p) \/ StartFails(p) \/ Discards(p) \/ Marks(p)
Proceeds(j) == Escalates(j) \/ Finishes(j) \/ SendsReport(j)

CodeNext ==
    \/ \E p \in Process : Turns(p) \/ Exits(p)
    \/ \E j \in Job : Proceeds(j)

CodeSpec == CodeInit /\ [][CodeNext]_codeVars

-----------------------------------------------------------------------------
(* What is checked. *)

\* While a model edits, its worktree and its branch are there and the file says
\* that it runs: nothing discards the ground under it.
GroundStays ==
    \A j \in Job : step[j] \in Working =>
        /\ j \in tree \cap branch
        /\ job[j].status = "running"

\* One larger model at most continues the work of a smaller one, on the rung
\* that follows.
ClimbsOnce ==
    \A j \in Job : job[j].from # "" => NextRung(job[j].from) = {job[j].model}

\* A process runs one task at a time; two run in two processes only when both
\* looked before either had written.
OneEach ==
    \A p \in Process : Cardinality({j \in Job : by[j] = p /\ step[j] \in Working}) <= 1

\* The owner is told what the file says, and a task that was discarded left no
\* worktree.
ToldIsTrue ==
    /\ \A j \in Job : reported[j] # "nothing" => job[j].status \in {reported[j], "discarded"}
    /\ \A j \in Job : job[j].status = "discarded" => j \notin tree

\* A coding task works on ground that stays, climbs one rung at most, is alone
\* in its process, and its report is true.
CodeInv == CodeTypeOK /\ GroundStays /\ ClimbsOnce /\ OneEach /\ ToldIsTrue
=============================================================================

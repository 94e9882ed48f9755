----------------------------- MODULE AgentTasks -----------------------------
(***************************************************************************)
(* Agent tasks (triggers/agent_tasks.py): instructions the agent loop      *)
(* executes at a set time, read-only, and whose result is sent to the      *)
(* owner.  A result whose send fails is stashed in the record and sent     *)
(* again; it is never computed again.                                      *)
(*                                                                         *)
(* There is no claim: fire() awaits the model and the send while other     *)
(* jobs of the task may fire.  As in Reminders, instants are distances     *)
(* from now, and a fiber is a fire() call suspended in an await.  Results  *)
(* are labels; a new one takes a label that is nowhere in use.             *)
(***************************************************************************)
EXTENDS Integers, FiniteSets

CONSTANTS
    Task,       \* task ids
    Fiber,      \* fire() calls that can be suspended at once
    Label,      \* labels of results
    Period,     \* distance of two occurrences
    Hold,       \* a task held by quiet hours comes back in (30 min)
    RunRetry,   \* ... whose run failed (15 min)
    SendRetry,  \* ... whose send failed (5 min)
    BootFlush,  \* a stash found at start is sent in (2 min)
    TaskAhead,  \* distances from now a request may name
    Horizon     \* bound: the longest delay of a job

ASSUME TasksAssumption ==
    /\ Period \in Nat \ {0} /\ Horizon \in Nat
    /\ {Period, Hold, RunRetry, SendRetry, BootFlush} \subseteq 1 .. Horizon
    /\ TaskAhead \subseteq -1 .. Horizon
    /\ 0 \notin Label

VARIABLES
    tasks,      \* agent_tasks.json: the records, by id
    timer,      \* timer[i][d]: queued jobs of task i that run in d
    flush,      \* delays of its queued redeliver-only jobs
    job,        \* what each fire() call awaits
    on,         \* the process runs
    hushed,     \* can_send_proactively() says no
    works,      \* the model tiers and Telegram answer
    made,       \* ghost: results made for a one-shot, lost ones left out
    told        \* ghost: the results that reached the chat

taskVars == <<tasks, timer, flush, job, on, hushed, works, made, told>>

Empty == 0                          \* pending_result is ""
Delay == 0 .. Horizon
Due   == -Period .. Horizon

TaskRecord == [due : Due, repeat : BOOLEAN, active : BOOLEAN,
               stash : Label \cup {Empty}]

Free == [at |-> "free"]
Fire == [at : {"running"}, id : Task]
        \cup [at : {"flushing", "flushed"}, id : Task, text : Label, only : BOOLEAN]
        \cup [at : {"sending", "sent"}, id : Task, text : Label]

TasksTypeOK ==
    /\ DOMAIN tasks \subseteq Task
    /\ \A i \in DOMAIN tasks : tasks[i] \in TaskRecord
    /\ timer \in [Task -> [Delay -> Nat]]
    /\ flush \in [Task -> SUBSET Delay]
    /\ job \in [Fiber -> Fire \cup {Free}]
    /\ on \in BOOLEAN /\ hushed \in BOOLEAN /\ works \in BOOLEAN
    /\ made \in [Task -> 0 .. 2]
    /\ told \subseteq Task \X Label
-----------------------------------------------------------------------------
Active(i) == i \in DOMAIN tasks /\ tasks[i].active
Of(i)     == {f \in Fiber : job[f] # Free /\ job[f].id = i}

SetTo(i, r)   == tasks' = [tasks EXCEPT ![i] = r]
NoTimer       == [d \in Delay |-> 0]
Now(d)        == IF d < 0 THEN 0 ELSE d
Queued(q, d)  == [q EXCEPT ![Now(d)] = @ + 1]
Queue(i, d)   == timer' = [timer EXCEPT ![i] = Queued(@, d)]
FlushIn(i, d) == flush' = [flush EXCEPT ![i] = @ \cup {d}]

(* fire() moves a series to its first occurrence that lies ahead;          *)
(* _schedule, when it finds one missed, to the first that is not past.     *)
NextAhead(d)  == IF d > 0 THEN d + Period ELSE Period - ((-d) % Period)
FirstAhead(d) == d % Period

NewTask(d, rep) == [due |-> d, repeat |-> rep, active |-> TRUE, stash |-> Empty]

(* _schedule: a series that missed occurrences skips them, for good. *)
Scheduled(r) == IF r.due < 0 /\ r.repeat THEN [r EXCEPT !.due = FirstAhead(@)] ELSE r

(* A label nothing refers to. *)
InUse(i) == {tasks[i].stash} \cup {job[f].text : f \in {g \in Of(i) : job[g].at # "running"}}
Unused(i) == Label \ InUse(i)
-----------------------------------------------------------------------------
TasksInit ==
    /\ tasks = [i \in {} |-> NewTask(0, FALSE)]
    /\ timer = [i \in Task |-> NoTimer]
    /\ flush = [i \in Task |-> {}]
    /\ job = [f \in Fiber |-> Free]
    /\ on = TRUE /\ hushed = FALSE /\ works = TRUE
    /\ made = [i \in Task |-> 0]
    /\ told = {}

CreateTask(i, d, rep) ==
    LET r == Scheduled(NewTask(d, rep))
    IN  /\ on /\ i \notin DOMAIN tasks
        /\ tasks' = [k \in DOMAIN tasks \cup {i} |-> IF k = i THEN r ELSE tasks[k]]
        /\ Queue(i, r.due)
        /\ UNCHANGED <<flush, job, on, hushed, works, made, told>>

(* cancel() leaves the queued jobs to find out. *)
Cancelled(i) == IF Active(i) THEN SetTo(i, [tasks[i] EXCEPT !.active = FALSE])
                ELSE UNCHANGED tasks

CancelTask(i) ==
    /\ on /\ Active(i)
    /\ Cancelled(i)
    /\ UNCHANGED <<timer, flush, job, on, hushed, works, made, told>>

(* Slip: a starting process leaves stashes to the next occurrence. *)
BootLeavesStash ==
    /\ ~on
    /\ on' = TRUE
    /\ tasks' = [i \in DOMAIN tasks |-> IF Active(i) THEN Scheduled(tasks[i]) ELSE tasks[i]]
    /\ timer' = [i \in Task |-> IF Active(i) THEN Queued(NoTimer, tasks'[i].due) ELSE NoTimer]
    /\ UNCHANGED <<flush, job, hushed, works, made, told>>

(* init(): every active task is scheduled, a stashed series is re-armed. *)
Boot ==
    /\ ~on
    /\ on' = TRUE
    /\ tasks' = [i \in DOMAIN tasks |-> IF Active(i) THEN Scheduled(tasks[i]) ELSE tasks[i]]
    /\ timer' = [i \in Task |-> IF Active(i) THEN Queued(NoTimer, tasks'[i].due) ELSE NoTimer]
    /\ flush' = [i \in Task |-> IF Active(i) /\ tasks[i].repeat /\ tasks[i].stash # Empty
                                THEN {BootFlush} ELSE {}]
    /\ UNCHANGED <<job, hushed, works, made, told>>

(* A crash loses the queue, the fibers and the results they hold. *)
Halt ==
    /\ on
    /\ on' = FALSE
    /\ timer' = [i \in Task |-> NoTimer]
    /\ flush' = [i \in Task |-> {}]
    /\ job' = [f \in Fiber |-> Free]
    /\ made' = [i \in Task |-> IF \E f \in Of(i) : job[f].at \in {"sending", "sent"}
                               THEN 0 ELSE made[i]]
    /\ UNCHANGED <<tasks, hushed, works, told>>

World ==
    /\ \/ hushed' = ~hushed /\ UNCHANGED works
       \/ works' = ~works /\ UNCHANGED hushed
    /\ UNCHANGED <<tasks, timer, flush, job, on, made, told>>
-----------------------------------------------------------------------------
(* fire(): a job of task i runs; `only` for a redeliver-only job.  The     *)
(* occurrence of a series moves on before anything else.                   *)

DueNow(i, only) == on /\ IF only THEN 0 \in flush[i] ELSE timer[i][0] > 0

Consumed(i) == [timer[i] EXCEPT ![0] = @ - 1]

Advanced(i, only) ==
    IF only THEN UNCHANGED <<tasks, timer>>
    ELSE IF Active(i) /\ tasks[i].repeat
    THEN LET d == NextAhead(tasks[i].due)
         IN  /\ SetTo(i, [tasks[i] EXCEPT !.due = d])
             /\ timer' = [timer EXCEPT ![i] = Queued(Consumed(i), d)]
    ELSE UNCHANGED tasks /\ timer' = [timer EXCEPT ![i] = Consumed(i)]

FlushTaken(i, only) == IF only THEN [flush EXCEPT ![i] = @ \ {0}] ELSE flush

(* Bound: the fire() of an occurrence ends before the next one is due, a   *)
(* day later at the earliest.                                              *)
Settled(i) == \A f \in Of(i) : job[f].at \in {"flushing", "flushed"} /\ job[f].only

Takes(i, only, f, what) ==
    /\ DueNow(i, only) /\ Active(i) /\ ~hushed
    /\ ~only /\ tasks[i].repeat => Settled(i)
    /\ job[f] = Free
    /\ Advanced(i, only)
    /\ flush' = FlushTaken(i, only)
    /\ job' = [job EXCEPT ![f] = what]
    /\ UNCHANGED <<on, hushed, works, made, told>>

(* Cancelled or gone; or redeliver-only, and nothing is stashed. *)
FireNothing(i, only) ==
    /\ DueNow(i, only)
    /\ \/ ~Active(i)
       \/ only /\ ~hushed /\ tasks[i].stash = Empty
    /\ Advanced(i, only)
    /\ flush' = FlushTaken(i, only)
    /\ UNCHANGED <<job, on, hushed, works, made, told>>

(* Quiet hours: a one-shot comes back later, its new time persisted; a     *)
(* series skips this occurrence, but a stash keeps its redelivery.         *)
FireHeld(i, only) ==
    /\ DueNow(i, only) /\ Active(i) /\ hushed
    /\ IF tasks[i].repeat
       THEN /\ Advanced(i, only)
            /\ flush' = [flush EXCEPT ![i] = FlushTaken(i, only)[i]
                            \cup IF tasks[i].stash # Empty THEN {Hold} ELSE {}]
       ELSE /\ SetTo(i, [tasks[i] EXCEPT !.due = Hold])
            /\ timer' = [timer EXCEPT ![i] = Queued(Consumed(i), Hold)]
            /\ flush' = FlushTaken(i, only)
    /\ UNCHANGED <<job, on, hushed, works, made, told>>

(* Slip: the stash is cleared before the send. *)
FireFlushClears(i, only, f) ==
    /\ i \in DOMAIN tasks /\ tasks[i].stash # Empty /\ ~tasks[i].repeat
    /\ DueNow(i, only) /\ ~hushed /\ job[f] = Free
    /\ SetTo(i, [tasks[i] EXCEPT !.stash = Empty])
    /\ timer' = [timer EXCEPT ![i] = Consumed(i)]
    /\ job' = [job EXCEPT ![f] = [at |-> "flushing", id |-> i, text |-> tasks[i].stash,
                                  only |-> only]]
    /\ UNCHANGED <<flush, on, hushed, works, made, told>>

(* A stashed result is sent first, labelled as a possible repeat ... *)
FireFlush(i, only, f) ==
    /\ i \in DOMAIN tasks /\ tasks[i].stash # Empty
    /\ Takes(i, only, f, [at |-> "flushing", id |-> i, text |-> tasks[i].stash,
                          only |-> only])

(* ... otherwise the instruction runs. *)
FireRun(i, f) ==
    /\ i \in DOMAIN tasks /\ tasks[i].stash = Empty
    /\ Takes(i, FALSE, f, [at |-> "running", id |-> i])
-----------------------------------------------------------------------------
(* What the awaits return.                                                 *)

Leaves(f) == job' = [job EXCEPT ![f] = Free]

(* A failed attempt of task i comes back in d: a one-shot as itself, its   *)
(* new time persisted, a series as a redeliver-only job.                   *)
ComesBack(i, r, d) ==
    IF r.repeat THEN SetTo(i, r) /\ FlushIn(i, d) /\ UNCHANGED timer
    ELSE SetTo(i, [r EXCEPT !.due = d]) /\ Queue(i, d) /\ UNCHANGED flush

(* Telegram has the message; the call has not returned. *)
Arrives(f) ==
    /\ job[f].at \in {"flushing", "sending"} /\ works
    /\ job' = [job EXCEPT ![f].at = IF @ = "flushing" THEN "flushed" ELSE "sent"]
    /\ told' = told \cup {<<job[f].id, job[f].text>>}
    /\ UNCHANGED <<tasks, timer, flush, on, hushed, works, made>>

FlushFails(f) ==
    /\ job[f].at \in {"flushing", "flushed"} /\ ~works
    /\ ComesBack(job[f].id, tasks[job[f].id], SendRetry)
    /\ Leaves(f)
    /\ UNCHANGED <<on, hushed, works, made, told>>

(* The stash went out.  A one-shot is over; an occurrence goes on to its   *)
(* fresh run.  What is cleared is what is stashed now.                     *)
FlushReturns(f) ==
    LET i == job[f].id
        r == [tasks[i] EXCEPT !.stash = Empty]
    IN  /\ job[f].at = "flushed"
        /\ SetTo(i, IF r.repeat THEN r ELSE [r EXCEPT !.active = FALSE])
        /\ job' = [job EXCEPT ![f] = IF r.repeat /\ ~job[f].only
                                     THEN [at |-> "running", id |-> i] ELSE Free]
        /\ UNCHANGED <<timer, flush, on, hushed, works, made, told>>

(* Slip: a failed run is not tried again. *)
RunFailsDrops(f) ==
    /\ job[f].at = "running" /\ ~works
    /\ job' = [job EXCEPT ![f] = Free]
    /\ UNCHANGED <<tasks, timer, flush, on, hushed, works, made, told>>

(* The run raised, or both tiers were down and it is empty. *)
RunFails(f) ==
    LET i == job[f].id
    IN  /\ job[f].at = "running" /\ ~works
        /\ IF tasks[i].repeat THEN UNCHANGED <<tasks, timer>>
           ELSE SetTo(i, [tasks[i] EXCEPT !.due = RunRetry]) /\ Queue(i, RunRetry)
        /\ Leaves(f)
        /\ UNCHANGED <<flush, on, hushed, works, made, told>>

RunReturns(f) ==
    LET i == job[f].id
    IN  /\ job[f].at = "running" /\ works
        /\ Unused(i) # {}
        /\ LET t == CHOOSE u \in Unused(i) : TRUE
           IN  /\ job' = [job EXCEPT ![f] = [at |-> "sending", id |-> i, text |-> t]]
               /\ told' = told \ {<<i, t>>}
        /\ made' = IF tasks[i].repeat \/ made[i] = 2 THEN made
                   ELSE [made EXCEPT ![i] = @ + 1]
        /\ UNCHANGED <<tasks, timer, flush, on, hushed, works>>

(* The send raised, before or after Telegram had the message. *)
SendFails(f) ==
    /\ job[f].at \in {"sending", "sent"} /\ ~works
    /\ ComesBack(job[f].id, [tasks[job[f].id] EXCEPT !.stash = job[f].text], SendRetry)
    /\ Leaves(f)
    /\ UNCHANGED <<on, hushed, works, made, told>>

SendReturns(f) ==
    LET i == job[f].id
    IN  /\ job[f].at = "sent"
        /\ IF tasks[i].repeat THEN UNCHANGED tasks ELSE Cancelled(i)
        /\ Leaves(f)
        /\ UNCHANGED <<timer, flush, on, hushed, works, made, told>>
-----------------------------------------------------------------------------
(* The clock.  A past due time of a series keeps its phase; of a one-shot, *)
(* only that it is past.                                                   *)
Nearer(q) == [d \in Delay |-> CASE d = 0       -> q[0] + (IF Horizon = 0 THEN 0 ELSE q[1])
                                [] d = Horizon -> 0
                                [] OTHER       -> q[d + 1]]

Sooner(r) == [r EXCEPT !.due = IF r.repeat THEN (IF @ = -Period THEN -1 ELSE @ - 1)
                               ELSE IF @ < 0 THEN -1 ELSE @ - 1]

TaskTick ==
    /\ tasks' = [i \in DOMAIN tasks |-> Sooner(tasks[i])]
    /\ timer' = [i \in Task |-> Nearer(timer[i])]
    /\ flush' = [i \in Task |-> {Now(d - 1) : d \in flush[i]}]
    /\ UNCHANGED <<job, on, hushed, works, made, told>>
-----------------------------------------------------------------------------
Fires(i) ==
    \/ \E only \in BOOLEAN :
          \/ FireNothing(i, only) \/ FireHeld(i, only)
          \/ \E f \in Fiber : FireFlush(i, only, f)
    \/ \E f \in Fiber : FireRun(i, f)

Resumes(f) ==
    /\ job[f] # Free
    /\ \/ Arrives(f) \/ FlushFails(f) \/ FlushReturns(f) \/ RunFails(f)
       \/ RunReturns(f) \/ SendFails(f) \/ SendReturns(f)

TasksNext ==
    \/ \E i \in Task : CancelTask(i) \/ Fires(i)
    \/ \E i \in Task, d \in TaskAhead, rep \in BOOLEAN : CreateTask(i, d, rep)
    \/ \E f \in Fiber : Resumes(f)
    \/ Boot \/ Halt \/ World \/ TaskTick

TasksSpec == TasksInit /\ [][TasksNext]_taskVars

(* One event loop runs what is due and resumes what returned; a process    *)
(* that went down is started again; time passes.                           *)
TasksFairness ==
    /\ WF_taskVars(TaskTick) /\ WF_taskVars(Boot)
    /\ \A i \in Task : WF_taskVars(Fires(i))
    /\ \A f \in Fiber : WF_taskVars(Resumes(f))
-----------------------------------------------------------------------------
(* An active task of a running process has exactly one timer: a queued job *)
(* at the persisted time, or, for a one-shot, the fire() call that is      *)
(* working on it.  Two would run it twice, none would forget it; an        *)
(* occurrence held or missed is never run early (agent_tasks.py:139-145,   *)
(* :157-171, :198-211).                                                    *)
Jobs(i)   == {d \in Delay : timer[i][d] > 0}

TimerAt(i) ==
    /\ Jobs(i) = {Now(tasks[i].due)}
    /\ timer[i][Now(tasks[i].due)] = 1

OneTimerEach ==
    on => \A i \in Task : Active(i) =>
        IF tasks[i].repeat THEN TimerAt(i)
        ELSE \/ TimerAt(i) /\ Of(i) = {}
             \/ Jobs(i) = {} /\ Cardinality(Of(i)) = 1

(* A stashed result of a series always has a redelivery on its way.        *)
(* (agent_tasks.py:131-133, :184-190: it must not wait for next week.)     *)
StashIsServed ==
    on => \A i \in Task : Active(i) /\ tasks[i].repeat /\ tasks[i].stash # Empty =>
        \/ flush[i] # {}
        \/ \E f \in Of(i) : job[f].at \in {"flushing", "flushed"}

(* A one-shot is never run again once a result of it exists, on disk or in *)
(* flight: only a crash that loses the result allows another run           *)
(* (agent_tasks.py:47-49, "without the duplicate-execution path").         *)
MadeOnce == \A i \in Task : made[i] <= 1

(* ... because what was made is stashed, in flight, or the task is over.   *)
MadeIsHeld ==
    \A i \in DOMAIN tasks :
        ~tasks[i].repeat /\ made[i] > 0 =>
            \/ ~tasks[i].active
            \/ tasks[i].stash # Empty
            \/ \E f \in Of(i) : job[f].at # "running"

TasksInv ==
    /\ TasksTypeOK /\ OneTimerEach /\ StashIsServed /\ MadeOnce /\ MadeIsHeld

(* A stashed result of a one-shot leaves the record only after the chat    *)
(* got that very result (agent_tasks.py:47-49).                            *)
StashKept(i) ==
    i \in DOMAIN tasks /\ tasks[i].stash # Empty /\ tasks'[i].stash # tasks[i].stash
        => <<i, tasks[i].stash>> \in told

OneShotStashKept == [][\A i \in DOMAIN tasks : ~tasks[i].repeat => StashKept(i)]_taskVars

(* If the process stays up, not quiet, and model and Telegram answer from  *)
(* some time on, every one-shot ends and every stash is flushed.           *)
TasksCalm == <>[](on /\ ~hushed /\ works)

ResultsArrive ==
    TasksCalm => \A i \in Task :
        /\ []<>(Active(i) => tasks[i].repeat)
        /\ []<>(Active(i) => tasks[i].stash = Empty)
=============================================================================

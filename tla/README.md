# Formal model of kyraan

kyraan is a personal assistant that lives in one Python process: a Telegram
bot with a command line and a voice channel beside it, a language model behind
a tool loop, a governance kernel in front of the tools, and a set of timers
that speak without being asked (reminders, agent tasks, goals, watchers, daily
duties). It persists to JSON files, mirrors some of them to Postgres and keeps
short-lived state in Redis. Paths below are relative to the repository's
`src/kyraan/` unless they start with `docs/` or `tests/`.

The models here are TLA+ modules read off that source, one per component. An
`MC...` module composes those that TLC checks in one run and gives the
constants their values, together with its `.cfg`. A `...Proofs` module holds
the theorems TLAPS checks for every value of the constants. `PROJECT.json` maps
each definition to the lines it stands for, and lists the runs, for every
property a slip of the code that the property notices ("mutants"; the
definitions commented `Slip:`), the sentences of the repository the code does
not keep ("findings"), the hazards and the theorems.

## How the parts fit together

```
 Telegram --- photos, files --> intake (no lock)
          --- ingest, burst, chat lock --+
 Echo poll, voice notes -----------------+--> orchestrator.handle_message
 buttons (taps) -------------------------+       |  rails: pending ask? yes/no/other
                                                 |  tier chain: frontier, standby, cheap
 job queue --> reminders, agent tasks, goals     v
               event rules, slack watch,      agent_loop (5 decisions, rails, taint)
               whereabouts, duties, keeper       |
                    |                            v
                    +-------> kernel: kill switch, gates, confirmation, rails, retries
                                                 |
                                  tools (Google, home, Spotify, Slack, code agent, stores)
 every model call --> router: budget, circuit breaker, ledger
 what was said --> session (window, summary) --> extraction --> review --> facts
                                             --> episodes, documents, notes
 stores: JSON files --mirror--> Postgres;  Redis: pending ask, window and backlog
```

The Telegram process runs on one asyncio loop, so code between two `await`s is
atomic with respect to the other tasks of the process; what runs in worker
threads (`asyncio.to_thread`, the document store, faces, the pins' handlers) and
in other processes (the command line, scripts, the old bot across a redeploy)
is not, and the file stores are read and written under a lock file where the
code takes one. A model takes as one step what lies between two awaits, or what
is done under one lock.

## Inventory

| component (source) | state it keeps | what is hard | what makes it correct | module |
|---|---|---|---|---|
| Reminders (`triggers/store.py`, `scheduler.py`, wiring in `channels/telegram_bot.py`) | records with claim, takeover and delivered marks; the job queue | sends that raise after acceptance, crashes in a send, two processes, quiet hours, records moved while a send is awaited | at least once, at most one unlabelled copy, never early, one timer, nobody stranded | Reminders, Delivery |
| Confirmations (`orchestrator.py`, buttons, `redis_kv.py`) | one stash per chat with a nonce, its copy in Redis | background asks without the chat lock, taps that wait, Redis failing at any call, survivors of dead processes | a yes executes the latest fresh ask, once; a tap its own | Confirm |
| Rails before the loop (`orchestrator._dispatch`, `agents/commands.py`) | offers, review list, private document thread, what was said last | five things a "yes" may answer, each with its own age | no answer is given to the wrong question; what is private stays local | Rails |
| Tool loop and tier chain (`agents/agent_loop.py`, `orchestrator.tier_chain`) | transcript flags, correction counters, calls seen, taint | eight rails that compete for five steps, a tier that dies after a tool ran | tainted text never acts, drafts are kept, claims are contested, every turn ends | AgentLoop |
| Governance kernel (`control_plane/kernel.py`, `kill_switch.py`, `tools/registry.py`) | running calls, the action's rails and yes, the MCP child and its pipes | timeouts of writes, fallbacks that meet a gate, late answers of cancelled requests | what acts runs on a yes, once, never while killed; answers go to their askers | McpStdio, Kernel |
| Agent tasks (`triggers/agent_tasks.py`) | records, stashed results | run and send are two awaits and nothing claims a task | once per occurrence; a computed result is delivered | AgentTasks |
| Goals (`triggers/goals.py`) | goals, daily cycle counts | caps, re-arming, a send that raises | the cadence never ends, the cap holds, findings are told | Goals |
| Promise mirror (`store/promises.py`, `sync_state.py`) | file, Postgres copy, stale mark, breaker | outages, crashes between file and mirror | no read misses a save that returned | PromiseMirror |
| Message bursts (`telegram_bot._ingest_inner`, `handle_burst`) | buffer, flusher, lock | messages arriving while a flush waits | every message once, in order, heard before the reply | Burst |
| Session, private mode (`agents/session.py`, `secrets.py`) | window, backlog, summary, log, Redis copy | summaries computed meanwhile, outages, restarts | condensed once and in order, nothing dropped by accident, secrets hidden in every copy | Session |
| Facts (`memory/engine.py`, `store/facts.py`) | index, fact table, stale mark | Postgres failing at each call under the lock, resweeps without it | a trusted mirror says what the index says; what was restored is found | Facts |
| Recall (`store/episodes.py`) | episodes, captures, marks of what is forgotten | ingest, forget, unforget and the nightly resweep in threads | forgotten is hidden in the end, restored is shown | Recall |
| Memory review (`memory/store.py`, `review_scaling.py`, `extraction.py`, `conflicts.py`, `lessons.py`) | pending files, facts, statistics | auto-approval earned and lost by its own outcomes | only what was reviewed, or lapsed after trust was earned, becomes a fact | Review |
| Documents (`store/documents.py`, `doc_understanding.py`) | rows, originals on disk, subjects | uploads, deletions, sweeps and readings overlap | a listed document has its original; the owner's word about it stays | Originals, Reading |
| Notes (`store/notes.py`) | rows of the vault | two syncs on a file that changes | one live version; private notes stay out of the cloud | Library |
| Photos and faces (`agents/photo.py`, `faces.py`) | stashed photo, templates, their mirror | handlers without lock, threads, a resync script | templates only of what was agreed to; private photos stay local | Intake |
| Slack watch (`triggers/slack_watch.py`) | watermark per channel | a tick that takes minutes, overwritten state, crashes | a mention is shown, in order, once but for failures | SlackWatch |
| Event rules (`triggers/event_rules.py`) | rules, last_met, last fired | sends that fail, quiet hours, crash between marks | once a crossing, and never silently | EventRules |
| Whereabouts (`triggers/whereabouts.py`) | last fix, armed, places | worker threads that load, modify and save | "nearly home" once a trip, a saved place stays | Whereabouts |
| Daily duties (`triggers/home_alerts.py`, `chief_of_staff.py`, `house_steward.py`, `briefs.py`, `curiosity.py`) | one file of marks each | marks before, after or while the message is composed | a mark means it was said; once an occasion | Duties |
| Kiaan's keeper (`triggers/kiaan_keeper.py`) | doses done, nudged, asked | state saved whole after an await | a dose is named once per stage | Keeper |
| Voice (`channels/voice_echo.py`, `voice.py`) | last utterance per Echo, temporary audio | a poll beside typed turns, restarts | an utterance is answered once; no audio stays | Voice |
| Undo (`store/actions.py`, `orchestrator._undo_command`) | log of actions with inverses | log and marks may be missed | a step back restores what was, once | Undo |
| Code agent (`tools/code_agent.py`) | jobs file, worktrees, branches | several processes, each running its own | the ground stays, one rung up at most, reports are true | CodeAgent |
| Model router (`model_router/router.py`) | the day's ledger | calls in flight together, failed writes, midnight | ledger and bill agree, overrun bounded, one warning | Router |
| Wake planner; persons, contacts, entities, triples; panel; command line; logging, health, configuration; file locks; scripts | | | single statements, or a gate that a model takes as a choice | not modelled |


## The runs

Models that share no state share a run: the MC module extends them all, the
variable `part` says which one moves in a behaviour, and each part is explored
as if it were alone (`UNCHANGED` for the others; a part that stands still
is in one initial state, so that no combination is counted twice). An
invariant of the run is the invariant of one part.

| run | module | what is composed | asks |
|---|---|---|---|
| `reminders` | MCTriggers | Reminders, EventRules, Whereabouts, in one process | is everything that goes off by itself said once, and said at all |
| `overlap` | MCOverlap | Reminders in two processes, beside Reading, Undo, Rails, Review, CodeAgent, Router | what two actors over one file do to each other; does Reminders implement `Delivery` |
| `kernel` | MCHouse | Kernel with McpStdio, Voice, Library, Duties | does the gate hold, is each thing of the house said or answered once |
| `promises` | MCPromises | AgentTasks, Goals, PromiseMirror, Originals, SlackWatch, Intake | is what was kept for later kept, and delivered |
| `chat` | MCChat | Confirm, Burst, AgentLoop, Session, Facts, Recall, Keeper | is every message answered, every yes meant, every memory true |
| `moved_while_sending` | MCReminders | Reminders | violated: a reminder that was moved is delivered at its new time |
| `confirm_twice` | MCConfirm | Confirm | violated: an ask runs once |
| `mirror_cut` | MCPromiseMirror | PromiseMirror | violated: an unmarked mirror is current |
| `loop_nothing_done` | MCAgentLoop | AgentLoop | violated: "nothing was done" |
| `unshaken_child` | MCKernel | Kernel | violated: no call before the handshake |
| `goal_report_lost` | Goals | Goals | violated: what a cycle found is told or marked |
| `secrets_resurface` | Session | Session | violated: what was redacted stays redacted |

All runs set `CHECK_DEADLOCK FALSE` where something in them is bounded (clocks
that stop at a horizon, things that may be sent a number of times): a behaviour
that has used its bounds up may stand still.

Fairness, in the runs with liveness, is stated per part (`part = p /\ A`), with
the `...Fairness` formula of the module repeated by the MC module. It is assumed
only of what the code's scheduling gives: the job queue runs what is due,
awaited calls end (each is under a timeout), a process that went down is
started again by launchd, nights and days pass, asyncio grants a lock in the
order it was asked for. Strong fairness is used for a lock that others may take in
between, and for calls which are tried again and again (a send, a goal's
research), of which some succeeds. Never assumed: that a single call works,
that a process stays up, that a user answers.

## The modules

### Reminders and Delivery

`Reminders.tla` models the record store, the scheduler and the wiring of the
job queue. `store` is the JSON file, `jobs[p]` the queue of process `p`,
`fiber` the `fire()` calls suspended in the send they await. Time is relative:
due times count down, stamps are ages, and `Tick` moves all of them, so the
clock never stops while the state space is finite. A handler is one action up
to the await; the send is split into `Accept` (Telegram has it) and the return
(`Finish`) or `Raise`, which may come before or after acceptance. `Crash` kills
the queue and the fibers and keeps the file, `Start` is `init()`. Ghosts count
what reached the chat: `got`, and `plains`, the copies without the "this may be
a repeat" label. A move, or the next occurrence of a series, begins a new
promise.

`Delivery.tla` says what a user can rely on for one promise: it is pending,
copies reach the chat, it is retired after a copy or because its chat is not
deliverable, and a copy that could be a second one is labelled. `Reminders`
implements it (`KeepsDelivery`, a refinement: copies come from `Accept`, moves
start a new promise).

Checked: in one process, for a one-shot and a series, with crashes, quiet hours
and sends that raise, one unlabelled copy, nothing early, one timer
(`RemindersInv`), and a one-shot is settled, a series keeps pinging
(`DueIsHeard`); in two overlapping processes with rescheduling and an
undeliverable chat, the evidence of a copy (`PromiseInv`), the refinement, and
`NothingDropped`: a running process never drops the last watch of a pending
reminder and the doubt of a copy stays with the record.

`moved_while_sending` is violated: a reminder moved while its send is awaited is
retired and never fires at its new time. Three more things the model has and no
run reports: two overlapping processes send one occurrence of a series twice,
the second time unlabelled and a period early, since rolling the record forward
releases the claim (`scheduler.py:50` says an overlapping process sends nothing
the second time); rescheduling clears the doubt flag of a record (`Rolled`) and
stamps it delivered, so that an id-less snooze may clone a reminder that was
moved and not delivered; a reminder created by the old process after the new
one ran `init()` has its job in the old process alone (`scheduler.py:36`).

Bounds: two ids, one a series; two fibers, the least with which two sends of one
reminder meet; one or two processes. Each threshold (lease, watch, retry, hold)
is one unit, which keeps the order of the code's minutes (no send outlives the
lease without being taken over, a watch comes back when the lease is over); a
period of two and a horizon of three let a whole cycle of a series pass. In
`overlap` (slack 0, horizon 2) the explored slices are a one-shot beside a series
nobody moves, a one-shot that may be moved, and a series that may be moved
(`Slice`): the three together do not fit, and promises meet only in the choice of the
fiber. A fire() call takes the first fiber that is free (`FirstFree`, `FirstFiber`):
fibers have no identity. Fairness: the clock ticks, due jobs run, awaited sends end.

### Confirm

`Confirm.tla` models the pending confirmation of one chat: the in-process stash
with its nonce, the copy in Redis with its TTL, the answer words and taps, the
re-gated replay, the asks of background jobs (Slack watch, a shared location,
face enrollment), which take no chat lock, and restarts. `turn` is the chat
lock and its holder.

Checked: while Redis always answered, a yes executes the ask put last, at most
once, also when a replay asks again, and an ask survives a restart and stays
answerable by its buttons; with Redis failing at any call, a tap still means its
ask (`AsksInv`) and a yes runs nothing stale (`YesIsExact`). `confirm_twice` is violated: an
ask whose record could not be deleted is executed again after a restart. One
more thing the model has and no run reports: the buttons go under every reply
while a stash is held, so a background ask can put its buttons under a reply
about something else.

Bounds: two asks (of the loop and of a job), two turns, one of them of the
voice channel; a time-to-live of one unit, so that an ask is fresh, stale in
the process or expired in Redis. `server` remembers whether Redis ever failed;
after it did, `chat` puts the loop's ask a second time only when the job asks
nothing (`Slice`).

### Burst

`Burst.tla` models the intake of a chat. `buffer` holds the messages that came,
`flusher` the one handler that gathers them (with the fragments it popped),
`superseded` the event of the present draft, `lock` the chat's lock, which taps
and the voice poll (`Other`) take as well. Quiet times are left out: gathering
may end at any moment. A turn that raises leaves what came meanwhile in the
buffer, without a flusher, until the next message; the ghost `broken` marks that.

Checked: however drafts are folded back, every message is taken once and in
turn (`BurstInv`), composition starts only with everything heard
(`WholeThought`), and every message is taken at last, unless a turn raised.
Bounds: four messages, enough for two folds and a message behind the safe point.

### AgentLoop

`AgentLoop.tla` models one message: up to `MaxSteps` decisions in each tier of
the chain. The model's reply is an input: a tool call with arguments, an
unusable answer, or a draft that matches any set of patterns the rails look
for. The rails are taken in the code's order, each with its own budget
(`loop`). `asked` says whether the message is a plain listing ask, `killed` is
the kill switch, which the code reads when a tier starts.

Checked (`LoopInv`): third-party text in the transcript never leads to a write
or a question; one landing per tier for the same call; a draft is never lost;
a false claim is contested; and every turn ends with an answer.
`loop_nothing_done` is violated: a tool ran in a tier that then failed, and the
outage reply says nothing was done. Three more things the model has and no run
reports: after three corrections a false claim is the answer; a plain listing
always costs a second model call; the tools that reach neither `run_tool` nor
`run_skill` (`Native`) run while the kill switch is engaged (`agent_loop.py:734`).

Bounds: four decisions (the code has five; four leave room for three
corrections and a draft on the last step), two tiers, a draft that matches up to
two patterns, or one when a reason not to answer it is given (the rails look at one
pattern each, so two are enough for one to shadow another).

### Session

`Session.tla` models what a chat remembers: window and backlog (`chat`), the
chunk being condensed, the log on disk, and what Redis keeps of the first two
once the process gave it up. Entries are numbered as they are said, and `hidden`
is the placeholder of a private entry. Redis may fail before or within a
handler (`Cuts`, the second half of `Redacts`), be emptied, and be unreachable
when the process starts. Whether a turn is private is free: the window of
`agents/secrets.py` is the choice of what a turn says.

Ghosts: `summed` holds the entries condensed, `gone` those the code lets go (a
proactive message or the switch of private mode pushes entries off without
keeping them, a summary may come back empty, memory is lost with the process or
with Redis), `secret` those a request or a private turn is about. `partial` is
set by a request that found too few entries in the window, or Redis out;
`revived` by a process that read back what Redis kept over an outage.

Checked (`MemoryInv`): entries are condensed in the order they were said, none
twice, whatever fails (until `revived`), and nothing else than `gone` is lost;
what is to be kept secret is hidden in the window, the backlog, the chunk, the
log and Redis (unless `partial`). `secrets_resurface` is violated: words redacted while
Redis was out are back in the window of the process that reaches Redis again.
Three more things the model has and no run reports: after an outage with a full
window the next process keeps Redis' old window, since it is no subset of the
log's tail, and the talk of the outage is missing from it; `record_proactive`
and `_finish_turn` never feed the summary; private mode is kept in memory and in
Redis, so a restart while Redis is out ends it silently (`secrets.py:82`).

Bounds: a window of two, chunks of one, requests about two entries, four
entries: the smallest instance in which entries leave the window while a chunk
is condensed and a restart restores a hole. `secrets_resurface` takes a window
of three, chunks of two and six entries, and the invariant was checked at that
size too.

### AgentTasks, Goals and PromiseMirror

`AgentTasks.tla` has the records of `agent_tasks.json`, the queued jobs of each
task (`timer`, and `flush` for the redeliver-only ones), and the `fire()` calls
(`job`), each suspended in one of its three awaits: the run, the send, or the
send of a stashed result. A send is split as in Reminders, so that it can fail
after Telegram had the message. Time is relative. Results are labels; a fresh
one takes a label nothing refers to, which keeps the state space finite. Tasks
are the owner's (`init` schedules no others).

`Goals.tla` has the records of `goals.json`, the goals with a queued cycle, and
what each cycle awaits. Times are abstracted: a queued cycle may come at any
moment, days pass by `Midnight`. A report is a set of items (findings, steps
checked off, steps added); the ghost `owed` holds those that were recorded
for a report and have not reached the chat.

`PromiseMirror.tla` models one store: the file, its copy in Postgres, the
stale mark and the breaker that stops attempts for a while. Contents are
version numbers, since each mirror is a full copy. Reads check the mark and
then read, in two steps.

Checked: a task of a running process has exactly one timer or one fiber, a one-shot is not
run again while a result of it exists, a stash of a series has a redelivery on
its way (`TasksInv`); an active goal always has its next cycle queued and at most
`MaxCycles` a day (`GoalsInv`); a result leaves its record, and a finding its
mark, only when told (`KeptUntilTold`); no read misses a save that had returned
(`ReadsSeeReturnedSaves`), and an unmarked mirror is level with its file unless
a crash cut a save short (`TrustedOrCut`); and what was kept arrives
(`AllArrives`). `mirror_cut` is violated: a crash between file and mirror leaves
Postgres behind and trusted. `goal_report_lost` is violated: a report whose send
raises is never told, nor marked unreported. Three more things the models have
and no run reports: a redelivery of a series that waits in its send while the
occurrence runs and stashes a new result clears the new stash when it returns
(`agent_tasks.py:245`); resuming a paused goal does not look at
`MAX_ACTIVE_PER_PERSON` (`goals.py:149`); a mark that cannot be written
(`MarkFails`, FALSE in the runs) loses a save the same way as `mirror_cut`.

Bounds: one task with two fibers (the least with which an occurrence and a
redelivery meet), a period of two and delays of one and two units in the order
of the code (a send comes back sooner than a run); one goal with one step and
one finding (goals meet only in the count of active ones, and two cycles of one
goal are what a carried report needs), two cycles a day as in the code; two
writers, one reader, three saves. A `fire()` of an occurrence ends before the
next one is due, a day later at the earliest (`Settled`), and a cycle before the
next, twelve hours later. In `promises` quiet hours and a chat that is out of reach
are explored one at a time (`OneTrouble`).

### McpStdio and Kernel

`McpStdio.tla` models the MCP adapter of the registry: one child process, one
request at a time under a lock, a handshake after every spawn. `child` is
`self._proc` with its two pipes, `at` where each caller is in `call()`, `want`
the id it waits for. A caller can be cancelled at every await (`Cancel`, the
kernel's `wait_for`); the child, external, serves lines in order, dies
(`Die`) and is reaped later (`Reap`). Ids are reused once nothing names them.

`Kernel.tla` extends it with the gate in front of every tool: the validation of
the registry (`Loads`), `run_tool` (`Verdict` takes the checks in the code's
order), attempts, retries, the one fallback hop and the failure policy
(`Conclude`), and `run_skill`, which opens an action with its own rails and its
own yes. Tools of the MCP server go through the adapter, the others end in any
way. The kill switch may change at any moment. An adapter that raises something
else than the registry's own errors is left out: the exception leaves
`run_tool` as it is.

Checked (`GateHolds`): what acts runs on a yes to it, never as a fallback;
nothing is sent twice in one action; a guest stays in scope, through fallbacks
too; fallbacks never ask; answers go to their askers. Nothing that acts starts
while the kill switch is engaged (`KillStopsActing`); every call ends
(`CallsEnd`). `unshaken_child` is violated: a call that times out during the
handshake leaves the child in place and the next call uses it, since
`CancelledError` is no `Exception`. Two more things the model has and no run
reports: a write that passed the kill switch and waits for the adapter's lock is
sent after the switch was engaged (`registry.py:284`); after an end of file
mid-call the dead child stays in `self._proc` until its exit status is seen, so
the next call may fail as well.

Bounds: two callers (one acts for the owner, one is a guest), three tools,
registries that fall back in a cycle, to a disabled tool and silently, and
registries that must be refused; two steps per action (the code has eight: two
are enough for a repetition and for the limit); one retry; a new call starts
only when the pipes are empty (`MaxBacklog`), which still leaves answers to
cancelled requests in front of a running one. `NoBlindRetry` is what
`config/permissions.yaml` gives (no retries for tools that act); the registry
does not insist on it, and without it `NothingIsSentTwice` and `KillSwitchHolds`
would not hold. Fairness: every attempt is under `wait_for`, and nothing else is
assumed.

### EventRules and Whereabouts

`EventRules.tla` models the quarter-hourly tick over the watch rules: the list is
read once, each rule's entity is read through the kernel, and on the way from
unmet to met the rule speaks or acts. The two marks on the file (`met`,
`coolingDown`) keep it from doing so twice; the ghosts `fired` and `heard` count
what it did since its condition came to hold. Checked (`EventRulesInv`): a rule
fires once a crossing, but for a failed send or a crash, and what the file calls
alerted was heard; a crossing is heard in the end (`DueIsHeard`). Observed: the "do
not disturb" hours hold an announcement, against "each firing announced"; a
switch that timed out counts as done.

`Whereabouts.tla` models fixes against the last one and the remembered places, in
four zones of distance. Whoever changes the file loads it, computes (the tracker
and the pins ask Home Assistant for the home meanwhile) and saves it whole: the
handlers of pins in threads, the tracker and the owner's commands one at a time on
the event loop (`hand`). Any of these saves may go over another's, and the model
follows what comes of it: `rearmed` and `unvisited` count the saves that undid a
nudge or an arrival they had not seen, `overtaken` names the places whose last
change a later save did not contain. Checked (`WhereaboutsInv`): "nearly home" once a
trip and "you are at" once a visit, with one more for each such save; what the owner
was last told of a place is so, unless it was overtaken. Observed: a second "nearly
home" takes two overlapping fixes, and "remember this place", confirmed, is gone when
a fix was loaded before it.

Bounds: two rules (one announces, one switches), a night, a failure; one place,
one pin beside the event loop, one save over a nudge or an arrival at a time. A
fix differs from the last one and is never in the house, the place is remembered one
step from home, where "nearly home" and "you are at" meet, and the loop loads what it
takes up at once (`OnTheWay`).

### SlackWatch

`SlackWatch.tla` models the tick over the watched channels: it loads the state
file, reads a channel's last day, and surfaces each mention above the watermark;
drafting takes minutes and the file is saved once at the end (`copy` is what the
tick works on). Meanwhile the owner says yes to a draft, which writes to the
same file, and the process may die. Checked (`SlackWatchInv`): a mention below a
watermark was shown to the owner or is more than a day old, mentions are shown
in order, and once but for crashes, failures and writes that are overwritten;
and every mention reaches the owner (`AllArrives`). Observed: the tick's save goes
over the line posted meanwhile; a crash asks again; a chat holds one ask, so a
second mention's draft replaces the first. Bounds: one channel, three messages,
one night, one failure.

### Duties and Keeper

`Duties.tla` models what the home alerts, the "still open" digest, the house
steward and the brief's curiosity question remember of what they said. Each
writes its mark at another moment: alerts and digests when the message is out,
the steward before it (and takes its marks back when it is held or fails),
questions as they are composed. A message goes through `_deliver`: refused, it has
failed; timed out, it counts as delivered (`unsure` when it was not); raising
otherwise, it is sent once more whatever was heard of it (`resent`). Checked
(`DutiesInv`): a mark means that its thing was said, or its message timed out; a thing
is said once an occasion, but for what failed, was held or went under in a crash
(`lost`), a question at most twice; what stays due is said in the end, unless it is
`unsure` or `lost` (`HouseKeepsUp`). Observed: a timeout burns the marker of an alert
that nobody heard, against "an undelivered alert must not burn its ... marker"
(`home_alerts.py`:102), and a question is asked twice when its first send raised
after Telegram took it; the steward takes back the marks of all filters of its
message and not that of a month, and saves its file before the send; a comment
in `briefs.py` says a later tick catches a brief up, and `run_daily` does not; the
health alerts mark before they deliver.

`Keeper.tla` models the vaccination keeper of `kiaan_keeper.py`: doses grow due by
age, one morning message names what is new, near or overdue, and the state file
is loaded before and saved whole after it. Checked (`KeeperInv`): a dose is named
once on coming into sight and once near its day, in this order, and what the file
remembers as named was handed over. Observed: the save at the end goes over a
dose the owner recorded meanwhile (`raced`); what follows that is not followed
(`Followed`), so the depth is in crashes and failures between the message and the file.

`Keeper`, `EventRules` and the parts of `HouseKeepsUp` outside `Duties` take "said" as the
code does: what `_deliver` reports as delivered, a timeout included.

Bounds: one item of each kind, one night, two failures, and in a run the things of
one duty only, since the duties share no file; one dose with its six phases, and
two milestones.

### Voice

`Voice.tla` models the poll of the Echos (read the last utterance, mark it, have
the turn answer it aloud, mirror it to Telegram), under the owner's chat lock,
and the voice notes, which wait for the probe of the recognizer and lie in a
temporary file. Marks live in the process: after a restart the first thing seen
is only marked. Checked (`VoiceInv`): an utterance is answered once, in one
process and over a restart; what was answered aloud is on Telegram too, unless
its send failed; no audio is at rest unless a process died with it (`strayed`);
a note is refused only when there is no recognizer. What is said to kyraan by name is heard
in the end (`HouseKeepsUp`). Observed: Home Assistant keeps only the last utterance,
so an earlier one is never seen; one that was marked and not answered when the
process died is lost. Bounds: one Echo, three utterances, one note, one restart.

### Originals and Reading

`Originals.tla` models the bytes of uploaded documents: rows in Postgres and files
under `data/documents`, without a transaction across both. Uploads, deletions
and the nightly sweep run in threads, in several steps each, and the process may
die between any two. Checked (`OriginalsInv`): a listed document has its original,
unless an upload had it in hand when a deletion or the sweep condemned it
(`overtaken`); what no row names is gone in the end (`AllArrives`).

`Reading.tla` models whom a document is about. The people of the caption join its
subjects; with a photo come those whom the vision model proposes, or the faces
recognized in it (`IngestsPhoto`, ghost `spotted`), with a file comes the second
reading, which writes the subjects it began with, corrected, seconds later. "That
is Ruma" reads a photo's subjects and writes them back (`Links`, `Linked`); there are
renames and deletions. Checked (`ReadingInv`): whom the owner named stays until a
reading finds the text merely mentions them, or a reading or a link that began
before overwrites it (`overtaken`); nobody is on a document but by its text, by the
owner's word or, on a photo only, by the vision model or a face. Not in it: the
owner himself, whom "that's me" links and who is no subject of the registry.

Bounds: one text that two uploads of different types can be read as, two
uploaders, one failure, no deletion between what the sweep judged and its unlinks
(`OneRemover`; `OriginalsAreKept` has them together); one file or one photo, two people
of whom one is in the file's text, two readings or links.

### Library

`Library.tla` models the vault's notes as rows: a sync decides file by file
from the row it finds, the nightly one and the owner's run in threads of their
own, a file may change under both, the tagging model and the index may fail.
Checked (`LibraryInv`): one version of a file can be found, until two syncs meet
on it (`doubled`), and a note whose folder, title or tags say it is private
never has its body or its tags in the cloud; and the library follows the vault
in the end (`HouseKeepsUp`). Observed: two syncs that meet leave two live
versions until the file changes; `repair_suppression` lifts the marks of notes
too. Bounds: one file, three versions (plain, hinted, too thin to index), one
capture, two edits, one failure.

### Intake

`Intake.tla` models what is sent as a photo or a file: who sent it with what
caption, the vision call (in the cloud, or local in private mode), the stash of
"the photo you just sent", the gated question, enrollment in a thread,
forgetting, and the resync script that copies the templates to the mirror.
Checked (`IntakeInv`): templates hold samples of the owner's photos that were
agreed to, guests are kept from them, a photo sent in private mode is not shown
to the cloud, an enrollment shot never becomes a moment, nothing is kept of a photo
that nothing looked at, and the script brings the mirror to the files. "Enrollment
shots stay out" (`photo.py`:250) is about moments: a text in such a shot is kept as a
document, and before the ask (`photo.py`:191-241); and a photo kept as a moment may be
enrolled later from the stash ("remember as"), which the model has too. Observed: pages of a scanned PDF go to the cloud in private mode as well;
a guest's photo with an enrolling caption and no other text is dropped; an
enrollment that runs while the face is forgotten brings its template back.
Bounds: one message of one of four kinds, one person, one run of the script. The
conditions of several messages meeting are in the theorem.

### Facts, Recall and Review

`Facts.tla` models the memory index, changed under its lock, and what follows
under the same lock: the mirror to the fact table, with its stale mark, and the marks
that hide the episodes about a forgotten fact; Postgres may fail at each. The
nightly sweep and the resync script take no lock. A behaviour follows the rows
or the episodes (`follow`), which never influence each other. Checked
(`FactsInv`): while the mirror is trusted its rows say what the index says, what
superseded a fact can be followed to one that is held or was dropped, and what
an undo restored can be recalled again; `slips` names the mishaps for which the
code has no repair. In the run no claim is short-term (`Passing`), so that facts
expire in the theorem only. The episodes of a forgotten fact are hidden in the end
(`ForgottenGoes`).

`Recall.tla` models what can be recalled: the half-hourly and nightly ingests,
which write a day's episodes from the unredacted words of the log, the marks of
forgotten facts on episodes and captures, the nightly resweep, and redactions.
Checked (`RecallInv`): undoing a forget lifts all its marks, unless lifting
failed or the resweep had the fact in hand (`stray`); what is forgotten is
hidden in the end, and what is redacted leaves the episodes unless the last
ingest of its day was over (`late`) (`ForgottenGoes`). Observed: words redacted
after the last ingest of their day stay in its episode in clear; an unforget
that races the resweep leaves the marks.

`Review.tla` models what becomes a fact or a rule: files of `pending_review`,
reviews, the earned auto-approval with its holdback and its lapse window, the
nightly sweep in a thread beside the chat, disputes and lessons. Checked
(`ReviewInv`): a fact was approved by the one in whose name it stands, who is the
person it came from or the owner, or it came from the owner and nobody objected in
its window; trust is lost with an objection; a dispute shows on the fact; a rule is
drafted once under one fingerprint. Each has its exceptions in the model, as the
code has them (`mishaps`): an objection while the sweep adds the fact (`raced`), an
automatic approval that is not on record when its fact is forgotten, because it was
not written yet or because 50 later ones have pushed it out (`unrecorded`), a
process that ends between the draft and its mark (`redrafted`), a mark that 200
later ones have pushed out (`crowded`). Observed: the owner's script
`review_memory.py` takes the files of all and adds what it approves in the owner's
name, and rejecting a dispute there leaves its flags; a group's fingerprint is the
words of the first correction in sight, so that a group decided about is drafted
again under its next fingerprint, once that correction has left the 14 days or the
logs are read in another order: the "once ever" of `lessons.py`:140 is a promise
about fingerprints, not about groups, and the model promises no more.

Bounds: two claims, one author, two entries of the index, one kind of mishap a
behaviour; one remark, one capture, one fact, three days, one outage. For
the review: three files, three facts, two fingerprints, statistics of one review, a
trailing window of one, one automatic approval and one mark remembered (the code's
200, 10, 50 and 200 are counts, which the rules only reach and pass), every third
proposal held back as in the code. It has two slices: two people over two sayings,
with at most one other file beside a drafted rule (`Between`), and the owner alone
with three sayings, whose facts lapse one after another (`Unwatched`).

### Undo

`Undo.tla` models the action log of a chat and the undo command. Every write
observes what its inverse will need, acts, and is logged; the log may miss an
action, or the mark that it was undone (`amiss`). Checked (`UndoInv`): with a log
that missed nothing, undoing step by step goes back through the states there
were, and an inverse runs once. Bounds: one switch with two positions, two
items, three writes, one kind of mishap.

### Rails

`Rails.tla` models the order in which a message of the owner meets the rails
before the model does, and what each leaves behind for the next one: the gated
ask, "did you mean", the review list, the private document's thread, private
mode. A turn is one step (Confirm has the interleavings of the ask). A yes to
"did you mean" dispatches the phrase as a message of its own (`Further`): it may ask,
list, act or, as "private mode on" does, go to the loop, since the switch is looked
for before the rails. A confirmed action may meet the gate again and is asked about
once more (`Regated`). Asks also come from a photo's face (`Enrolls`) and from the
Slack watch, whose job stashes before it sends and records after (`JobAsks`,
`JobRecords`). Checked (`RailsInv`): a yes or no after an ask recorded in words runs
it, refuses it, is asked once more or is told that it is gone, and never becomes
something else; "approve 1" decides about the list shown last, unless the owner spoke
of something else; a document's thread is continuous; what is private stays here.
Observed: an ask in private mode leaves a placeholder in the history, so that after a
restart a yes to it becomes small talk of the local model; an ask of the Slack watch
whose send failed waits unseen; a photo ends neither the review list nor the thread; a suggestion survives five minutes, so that a later
"yes" runs it; an ask dropped within the last five turns makes a "yes" get the
notice of an orphan; "next song", a switch or a fragment do not drop the ask that
waits; in private mode "code:" still goes to the coding agent in the cloud; a
failed local follow-up about a document goes to the cloud; "private mode off" leaves the
document's thread. Bounds: two turns are looked back at (the code has five).

### CodeAgent

`CodeAgent.tla` models coding tasks: the jobs file which the bot and the
terminal share, worktrees, branches, the one retry by the next larger model,
reports and discards; a process may end at any moment. Checked (`CodeInv`): a
task that runs has its worktree and branch, climbs one rung at most, a process
runs one at a time, and what was reported is what happened. Observed: after a
restart the file says "running" for ever; the report of a task that ended while
the bot was down is lost; a crash between worktree and record leaves an orphan.
Bounds: two jobs, of which the first in the file is always the same
one (`FirstTask`: they are interchangeable), two processes, one exit.

### Router

`Router.tla` models model calls against the day's ledger: admitted, sent,
retried, recorded under the lock, with several calls in flight, two processes,
writes that raise, charges for answers that did not come, and midnight. Checked
(`RouterInv`): what was charged is in the ledger, in flight, or was lost to a
crash or a failure (`unbooked`); the budget is passed by no more than what was in flight
when it was reached, and a guest's cap likewise; a day is warned about once for
each limit. Observed: a warning goes to whoever's turn noticed the limit, so a
guest's turn may take the owner's (`orchestrator.py:763-771`, against `:752-757`).
Bounds: two calls in flight, two attempts, costs of one unit, a budget of one, one
turn (that two turns which notice a limit together warn once is in the theorem).


## What is proved

The theorems listed in `PROJECT.json` hold for every value of the constants that
satisfies the named assumption of the module (how many reminders, processes,
messages, documents, failures there are; how the delays compare, where the code
fixes it). Where a theorem assumes more, its statement says so: there are two
such assumptions, `Proc = {p}` with `MaxMoves = 0` in `OneVoicePerReminder`, and
`~MarkFails` for the mirror. Each rests on an inductive invariant. TLC accepted
these invariants on the runs' bounds before they were proved, and where a first
attempt was not inductive, its counterexample is what the conjuncts below
exclude.

| module of proofs | theorems about | inductive invariant, and why it is needed |
|---|---|---|
| RemindersProofs | Reminders, Delivery | `PromiseInv`: a plain copy on its way or arrived has its evidence on the record (retired, claimed or in doubt), so that the next claim is granted only with the label; a send is never younger than the record's moves. With `Fresh` (an unused id was never moved) every step maps to a step of `Delivery` or to none (`ImplementsDelivery`). For `OneVoicePerReminder`, `AllAlone`: the jobs of a reminder and its sends are together one timer, at or after the due time, and evidence stays until a series rolls on |
| ChatProofs | Burst, AgentLoop, Confirm | `BurstIInv`: a draft whose event is not set has seen everything that came. `LoopInv`: a text taints the turn, a tier that has not made a call has not landed it, and a draft leaves a step. `ConfirmInv`, while Redis answers: what is stashed or saved is the open ask put last, an ask runs in one turn, and what runs is closed. `LabelInv`, always: the nonce of stash, copy and buttons names the ask; no stash is younger than its ask. `Survives`: Redis holds the open ask of the loop with its age, which is why its buttons outlive a restart |
| KernelProofs | Kernel, McpStdio, Router | `KernelInv`: what runs has passed its gate, retries are bounded by the registry that loaded, and what an action sent is recorded by its rails. `McpInv`: every line in the pipes that bears the id somebody waits for is that caller's own. `RouterIInv`: a call owes something between its answer and the write only, and what was sent counts as an attempt; what the admitted calls may still cost bounds how far the ledger goes over a limit |
| TriggersProofs | EventRules, Whereabouts | `RulesIInv`: what has gone wrong pays for every firing but one. `WhereIInv`: a nudge disarmed the file and an arrival is on it, or a save that went over them pays for the next |
| HouseProofs | Duties, Voice, Library | `DutiesIInv`: each kind of duty has an account of what is marked, on its way and told. `VoiceIInv`: what an Echo said last is newer than the floor unless seen, and what was answered is marked. `LibraryIInv`: a sync at its tags supersedes whatever row is live, and a hinted row is local from the moment it is stored |
| MemoryProofs | Session, Facts, Recall, Keeper | `MemoryIInv`: an entry of the window stands at its place from the end or was given up once, the chunk lies between summary and backlog and a whole window back, so that the log refills what is missing; what was said in secret is veiled in every copy unless a request found fewer. `FactsIInv`: rows follow the index but for what the change in hand has still to do, what is hidden belongs to what is inactive, and supersession leads on without a cycle. `RecallIInv`: a resweep sweeps what was forgotten when it began. `KeeperIInv`: what is not on the file was told no oftener than something failed |
| OverlapProofs | Undo, Reading, Rails, Review, CodeAgent | `UndoIInv`: what stands at each write is what the standing write before it left, so an inverse that matches leads back to it; the items are counted by the writes that made and took them. `ReadingIInv`: what a reader carries away was on the document for a reason. `RailsIInv`: an ask that hangs is still within sight of who looks back, and a command is not on offer once its stash is gone. `ReviewIInv`: an open file was not refused, what the sweep or a thread has in hand was there when it looked, and the counter holds no review older than what restarts it. `CodeIInv`: who starts a task has none that runs, what is started is in nobody else's hand, what is discarded does not run |
| PromisesProofs | PromiseMirror, Originals, Goals, Intake, SlackWatch, AgentTasks, and MCPromises, which composes them | `MirrorInv`: who is between file and mirror holds the mark. `OriginalsIInv`: a file in hand is fresh, a condemned one is free. `GoalsInv` is inductive itself. `IntakeIInv`: how far a photo's handler is says whether the cloud saw it, what may become a template is the owner's, an undisturbed script covers everybody enrolled. `SlackIInv`: what lies below a watermark was heard, what lies above was shown no oftener than something failed. `TasksIInv`: a one-shot has its timer or one fiber, never both, and where its result is follows from what the fiber does; it speaks of one task at a time, so every step is checked at the task it is about |

Action properties follow from the same invariants: `NothingIsDropped` and
`DoubtIsSticky`, `KillSwitchHolds`, `YesIsForAFreshAsk`,
`RepliesHearTheWholeThought`, `StashesAreKept`, `FindingsStayMarked`, and from the
last two `KeptTillTheChatKnows`, for the composition in which any part moves.

The accounts of the router are sums over its calls, and the induction theorems of
the library, which take an operator as a parameter, are out of the provers'
reach. The lemmas about sums (`TakeOut`, `SumChanged`, `SumBounded`) argue instead
by the smallest set of calls at which a sum would not be what it should, which
exists because inclusion of finite sets is well-founded (`WFMin`).

What the theorems do not say. `OneVoicePerReminder` is about one process whose
reminders nobody moves: with a second process both the label of a series and its
one timer are lost, and a move starts a promise of its own while the old send is
on its way (`moved_while_sending`). `ExecutedOnce` is about the time in which
Redis has always answered: `confirm_twice` shows the other case. The theorems
about what is kept until `raced`, `overtaken`, `doubled`, `partial` or a slip say
nothing about what follows it; these ghosts mark where the code has no repair,
and the sections above name each.

## What is only model-checked, or not claimed

- Liveness (`DueIsHeard`, `CallsEnd`, `HouseKeepsUp`, `AllArrives`,
  `EveryoneAnswered`, `ForgottenGoes`): TLAPS does not reason about ENABLED, hence
  not about fairness.
- `RemindersInv` with two processes, or with reminders that are moved, is false:
  the theorem and the run are about one process and no moves. What holds there
  too is `PromiseInv`, `NothingDropped` and the refinement of `Delivery`.
- The runs that expect a violation are counterexamples to a sentence of the
  repository, each quoted under `findings`.

## Plan

The plan is carried out: every safety property that a passing run checks is stated
by a theorem, `RemindersInv` and the two of the mirror under the assumptions named
above. What could follow:

1. What of `RemindersInv` survives a second process, and a reminder that is moved.
2. `Delivery` for moved reminders, which needs a promise for each move.
3. The parts listed below as not modelled, should they get a protocol of their own.

## Not modelled

- The wake planner and its budget of notifications, persons, contacts, entities
  and triples, the web panel and the queries behind it: read-mostly, or without a
  protocol of their own.
- The command line and file sending beyond the process they run in; logging,
  health and configuration; the scripts of operation (deployment, watchdog,
  backup, migration, evaluation).
- File locks and the access to Postgres: they appear as what is atomic.
- Judgement of language models (classification, extraction, wording), audio and
  vision, ranking by similarity, the contents of prompts and briefs. Where one of
  them decides something (a draft matches a pattern, two facts conflict, a face
  is recognized), the decision is an input of the model that uses it.

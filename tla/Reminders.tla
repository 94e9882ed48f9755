----------------------------- MODULE Reminders -----------------------------
(***************************************************************************)
(* Reminders: the JSON record store (triggers/store.py), the scheduler     *)
(* that fires them (triggers/scheduler.py) and the wiring to the Telegram  *)
(* job queue (channels/telegram_bot.py, _wire_scheduler).                  *)
(*                                                                         *)
(* Time is relative.  Every stored instant is kept as its distance from    *)
(* now: `due` counts down to the due time and goes negative when it is     *)
(* past, stamps are ages, a queued job counts down to its run time.  Tick  *)
(* moves all of them by one unit.  Distances beyond the last threshold the *)
(* code compares them with are merged, which keeps the model finite        *)
(* without stopping the clock.                                             *)
(*                                                                         *)
(* A handler is atomic up to the one await it makes while it owns a claim: *)
(* the send.  A fiber is a fire() call suspended in that await.            *)
(***************************************************************************)
EXTENDS Integers, FiniteSets

CONSTANTS
    Id,         \* reminder ids (uuid4: never reused)
    Series,     \* the ids whose record has a repeat rule
    Unknown,    \* the ids whose chat is neither the owner's nor enrolled
    Proc,       \* bot processes that may overlap across a restart
    Fiber,      \* fire() calls that can be awaiting a send at once
    Lease,      \* a claim younger than this is live (120 s)
    Watch,      \* delay of the job that watches a live lease (130 s)
    Retry,      \* delay of the job that retries a raised send (150 s)
    Hold,       \* delay of the job held by quiet hours (15 min)
    Slack,      \* lateness that is not yet "overdue" (60 s)
    Period,     \* distance of two occurrences of a series
    Lookback,   \* how far back an id-less snooze looks (45 min)
    Ahead,      \* distances from now that a request may name
    Horizon,    \* bound: the longest delay of a job
    MaxMoves    \* bound: how often a reminder is rescheduled

ASSUME RemindersAssumption ==
    /\ Series \subseteq Id /\ Unknown \subseteq Id
    /\ Lease \in Nat \ {0} /\ Slack \in Nat /\ Period \in Nat \ {0}
    /\ Lookback \in Nat /\ MaxMoves \in Nat /\ Horizon \in Nat
    /\ {Watch, Retry, Hold} \subseteq 1 .. Horizon
    /\ Lease <= Watch /\ Lease <= Retry
    /\ Ahead \subseteq -(Slack + 1) .. Horizon

VARIABLES
    store,      \* reminders.json: the records, by id
    used,       \* ids ever created
    up,         \* which processes run
    jobs,       \* jobs[p][i][d]: jobs named i in p's queue that run in d
    fiber,      \* what each fire() call awaits
    quiet,      \* kill switch, or the recipient's quiet hours
    moves,      \* how often the user moved each reminder
    got,        \* ghost: ids whose present promise reached the chat
    plains      \* ghost: its unlabelled copies that did (2: two or more)

vars == <<store, used, up, jobs, fiber, quiet, moves, got, plains>>
ghosts == <<got, plains>>

NoStamp == -1                   \* "" in claimed_at and delivered_at
OldAge  == (IF Lease > Lookback THEN Lease ELSE Lookback) + 1 \* older ages are merged
Stamp   == {NoStamp} \cup 0 .. OldAge
Delay   == 0 .. Horizon

Record == [due : Int, sent : BOOLEAN, claimed : Stamp, takeover : BOOLEAN,
           delivered : Stamp]

Idle   == [phase |-> "idle"]
Flight == [phase : {"sending", "reached"}, proc : Proc, id : Id, due : Int,
           plain : BOOLEAN, move : Nat]

TypeOK ==
    /\ DOMAIN store \subseteq Id
    /\ \A i \in DOMAIN store : store[i] \in Record
    /\ used \subseteq Id
    /\ up \in [Proc -> BOOLEAN]
    /\ jobs \in [Proc -> [Id -> [Delay -> Nat]]]
    /\ fiber \in [Fiber -> Flight \cup {Idle}]
    /\ quiet \in BOOLEAN
    /\ moves \in [Id -> Nat]
    /\ got \subseteq Id
    /\ plains \in [Id -> 0 .. 2]
-----------------------------------------------------------------------------
(* The store's operations, each a read-modify-write of the file under its  *)
(* lock.                                                                   *)

NewRecord(d) == [due |-> d, sent |-> FALSE, claimed |-> NoStamp,
                 takeover |-> FALSE, delivered |-> NoStamp]

Added(s, i, d) == [k \in DOMAIN s \cup {i} |-> IF k = i THEN NewRecord(d) ELSE s[k]]

Pending(i) == i \in DOMAIN store /\ ~store[i].sent

(* claim_for_send grants the claim unless the record is gone, retired or   *)
(* under a live lease; taking over a stale lease is remembered.            *)
ClaimHeld(r) == r.claimed # NoStamp /\ r.claimed < Lease
Claimable(i) == Pending(i) /\ ~ClaimHeld(store[i])
(* Slip: a re-claim forgets an earlier doubt. *)
ClaimedForgets(r) == [r EXCEPT !.claimed = 0, !.takeover = r.claimed # NoStamp]

Claimed(r)   == [r EXCEPT !.claimed = 0,
                          !.takeover = r.takeover \/ r.claimed # NoStamp]
Released(r)  == [r EXCEPT !.claimed = NoStamp]
Retired(r)   == [r EXCEPT !.sent = TRUE]
Rolled(r, d) == [r EXCEPT !.due = d,
                          !.delivered = IF r.claimed = NoStamp THEN 0 ELSE r.claimed,
                          !.claimed = NoStamp,
                          !.takeover = FALSE]

Update(s, i, r) == IF i \in DOMAIN s THEN [s EXCEPT ![i] = r] ELSE s
Without(s, i)   == [k \in DOMAIN s \ {i} |-> s[k]]

(* The next FUTURE occurrence of a series whose stored time is d from now. *)
NextDue(d) == IF d > 0 THEN d + Period ELSE Period - ((-d) % Period)

Overdue(d) == d < -Slack
-----------------------------------------------------------------------------
(* The job queue.  run_once adds a job and never replaces one of the same  *)
(* name; a run time that is past runs at once.                             *)

NoJobs == [i \in Id |-> [d \in Delay |-> 0]]

SoonIn(d) == IF d < 0 THEN 0 ELSE d

Plus(q, i, d) == [q EXCEPT ![i][SoonIn(d)] = @ + 1]
Only(q, i, d) == [q EXCEPT ![i] = [x \in Delay |-> IF x = SoonIn(d) THEN 1 ELSE 0]]
Gone(q, i)    == [q EXCEPT ![i] = [x \in Delay |-> 0]]

Schedule(p, i, d) == jobs' = [jobs EXCEPT ![p] = Plus(jobs[p], i, d)]

(* _schedule: an overdue one-shot runs now, an overdue series skips to its *)
(* next occurrence, which also rolls its record.                           *)
ScheduledRecord(i, r) ==
    IF Overdue(r.due) /\ i \in Series THEN Rolled(r, NextDue(r.due)) ELSE r

(* The ghosts of the reminders in S start over: a moved reminder, or the   *)
(* next occurrence of a series, is a promise of its own.                   *)
NewPromise(S) ==
    /\ got' = got \ S
    /\ plains' = [i \in Id |-> IF i \in S THEN 0 ELSE plains[i]]
-----------------------------------------------------------------------------
Init ==
    /\ store = [i \in {} |-> NewRecord(0)]
    /\ used = {}
    /\ up = [p \in Proc |-> FALSE]
    /\ jobs = [p \in Proc |-> NoJobs]
    /\ fiber = [f \in Fiber |-> Idle]
    /\ quiet = FALSE
    /\ moves = [i \in Id |-> 0]
    /\ got = {}
    /\ plains = [i \in Id |-> 0]

(* init(): a starting process schedules every pending record. *)
Start(p) ==
    /\ ~up[p]
    /\ up' = [up EXCEPT ![p] = TRUE]
    /\ store' = [i \in DOMAIN store |->
                   IF Pending(i) THEN ScheduledRecord(i, store[i]) ELSE store[i]]
    /\ \A i \in DOMAIN store : store'[i].due <= Horizon
    /\ jobs' = [jobs EXCEPT ![p] =
                  [i \in Id |-> [d \in Delay |->
                     IF Pending(i) /\ d = SoonIn(store'[i].due) THEN 1 ELSE 0]]]
    /\ NewPromise({i \in Series : Pending(i) /\ Overdue(store[i].due)})
    /\ UNCHANGED <<used, fiber, quiet, moves>>

(* A crash or a redeploy: the queue and the fibers die, the file stays. *)
Crash(p) ==
    /\ up[p]
    /\ up' = [up EXCEPT ![p] = FALSE]
    /\ jobs' = [jobs EXCEPT ![p] = NoJobs]
    /\ fiber' = [f \in Fiber |->
                   IF fiber[f] # Idle /\ fiber[f].proc = p THEN Idle ELSE fiber[f]]
    /\ UNCHANGED <<store, used, quiet, moves, ghosts>>

SetQuiet ==
    /\ quiet' = ~quiet
    /\ UNCHANGED <<store, used, up, jobs, fiber, moves, ghosts>>
-----------------------------------------------------------------------------
(* What the conversation does: reminders.create, .cancel, .reschedule,     *)
(* .snooze.                                                                *)

CreateAs(p, i, d) ==
    LET r == ScheduledRecord(i, NewRecord(d))
    IN  /\ i \in Id \ used
        /\ r.due <= Horizon
        /\ used' = used \cup {i}
        /\ store' = [Added(store, i, d) EXCEPT ![i] = r]
        /\ Schedule(p, i, r.due)
        /\ UNCHANGED <<up, fiber, quiet, moves, ghosts>>

Create(p, i, d) == up[p] /\ CreateAs(p, i, d)

Cancel(p, i) ==
    /\ up[p] /\ Pending(i)
    /\ store' = Without(store, i)
    /\ jobs' = [jobs EXCEPT ![p] = Gone(jobs[p], i)]
    /\ UNCHANGED <<used, up, fiber, quiet, moves, ghosts>>

(* reschedule_reminder, which an id'd snooze calls too.  The present       *)
(* promise is a new one from here on.                                      *)
Reschedule(p, i, d) ==
    /\ up[p] /\ Pending(i)
    /\ moves[i] < MaxMoves
    /\ moves' = [moves EXCEPT ![i] = @ + 1]
    /\ store' = [store EXCEPT ![i] = Rolled(@, d)]
    /\ jobs' = [jobs EXCEPT ![p] = Only(jobs[p], i, d)]
    /\ NewPromise({i})
    /\ UNCHANGED <<used, up, fiber, quiet>>

(* The id-less snooze takes the record of the chat it believes delivered   *)
(* last, and clones it as a one-shot.                                      *)
DeliveryStamp(r) == IF r.claimed # NoStamp THEN r.claimed ELSE r.delivered

SnoozeCandidates ==
    {i \in DOMAIN store \ Unknown :
        /\ store[i].sent \/ i \in Series
        /\ DeliveryStamp(store[i]) \in 0 .. Lookback}

LastDelivered ==
    {i \in SnoozeCandidates : \A k \in SnoozeCandidates :
        DeliveryStamp(store[i]) <= DeliveryStamp(store[k])}

Snooze(p, i, d) ==
    /\ up[p]
    /\ LastDelivered # {}
    /\ d > 0
    /\ i \notin Series \cup Unknown
    /\ CreateAs(p, i, d)
-----------------------------------------------------------------------------
(* fire(): a job of i runs in p.                                           *)

Run(p, i) == up[p] /\ jobs[p][i][0] > 0
Consumed(p, i) == [jobs[p] EXCEPT ![i][0] = @ - 1]
Requeue(p, i, d) == jobs' = [jobs EXCEPT ![p] = Plus(Consumed(p, i), i, d)]

(* Retired or cancelled meanwhile: nothing is sent. *)
FireSkip(p, i) ==
    /\ Run(p, i) /\ ~Pending(i)
    /\ jobs' = [jobs EXCEPT ![p] = Consumed(p, i)]
    /\ UNCHANGED <<store, used, up, fiber, quiet, moves, ghosts>>

(* Slip: a live claim ends the job, nobody watches the lease. *)
FireDeferDrops(p, i) ==
    /\ Run(p, i) /\ Pending(i) /\ ~Claimable(i)
    /\ jobs' = [jobs EXCEPT ![p] = Consumed(p, i)]
    /\ UNCHANGED <<store, used, up, fiber, quiet, moves, ghosts>>

(* Another claim is live: watch it. *)
FireDefer(p, i) ==
    /\ Run(p, i) /\ Pending(i) /\ ~Claimable(i)
    /\ Requeue(p, i, Watch)
    /\ UNCHANGED <<store, used, up, fiber, quiet, moves, ghosts>>

(* Held by quiet hours or the kill switch: claimed and released again. *)
FireQuiet(p, i) ==
    /\ Run(p, i) /\ Claimable(i) /\ quiet
    /\ store' = [store EXCEPT ![i] = Released(Claimed(@))]
    /\ Requeue(p, i, Hold)
    /\ UNCHANGED <<used, up, fiber, quiet, moves, ghosts>>

(* The claim is taken and the send begins; whether the text says "this may *)
(* be a repeat" is read off the claimed record.                            *)
FireBegin(p, i, f) ==
    /\ Run(p, i) /\ Claimable(i) /\ ~quiet /\ i \notin Unknown
    /\ fiber[f] = Idle
    /\ store' = [store EXCEPT ![i] = Claimed(@)]
    /\ jobs' = [jobs EXCEPT ![p] = Consumed(p, i)]
    /\ fiber' = [fiber EXCEPT ![f] =
                   [phase |-> "sending", proc |-> p, id |-> i, due |-> store[i].due,
                    plain |-> ~Claimed(store[i]).takeover, move |-> moves[i]]]
    /\ UNCHANGED <<used, up, quiet, moves, ghosts>>

(* What fire() does after the send returned, True or False: a series rolls *)
(* to the occurrence after the one fired, a one-shot is retired.           *)
SettledRecord(i, r, d) == IF i \in Series THEN Rolled(r, NextDue(d)) ELSE Retired(r)

(* Slip: the next occurrence gets no job. *)
SettledNoNext(i, q, d)  == q

SettledQueue(i, q, d) == IF i \in Series THEN Plus(q, i, NextDue(d)) ELSE q

(* A chat the channel does not deliver to: send_fn returns False without   *)
(* awaiting anything, and the record is settled as if delivered.           *)
FireWithheld(p, i) ==
    /\ Run(p, i) /\ Claimable(i) /\ ~quiet /\ i \in Unknown
    /\ LET d == store[i].due
       IN  /\ i \in Series => NextDue(d) <= Horizon
           /\ store' = [store EXCEPT ![i] = SettledRecord(i, Claimed(@), d)]
           /\ jobs' = [jobs EXCEPT ![p] = SettledQueue(i, Consumed(p, i), d)]
    /\ UNCHANGED <<used, up, fiber, quiet, moves, ghosts>>

(* Telegram has accepted the message; the call has not returned yet. *)
Accept(f) ==
    /\ fiber[f].phase = "sending"
    /\ fiber' = [fiber EXCEPT ![f].phase = "reached"]
    /\ LET i == fiber[f].id
           current == fiber[f].move = moves[i]
       IN  /\ got' = IF current THEN got \cup {i} ELSE got
           /\ plains' = IF current /\ fiber[f].plain /\ plains[i] < 2
                        THEN [plains EXCEPT ![i] = @ + 1] ELSE plains
    /\ UNCHANGED <<store, used, up, jobs, quiet, moves>>

(* Slips: the failed send releases its claim; it retires the record. *)
RaiseReleases(f) ==
    /\ fiber[f].phase \in {"sending", "reached"}
    /\ fiber' = [fiber EXCEPT ![f] = Idle]
    /\ store' = Update(store, fiber[f].id, Released(store[fiber[f].id]))
    /\ Schedule(fiber[f].proc, fiber[f].id, Retry)
    /\ UNCHANGED <<used, up, quiet, moves, ghosts>>

RaiseRetires(f) ==
    /\ fiber[f].phase \in {"sending", "reached"}
    /\ fiber' = [fiber EXCEPT ![f] = Idle]
    /\ store' = Update(store, fiber[f].id, Retired(store[fiber[f].id]))
    /\ UNCHANGED <<jobs, used, up, quiet, moves, ghosts>>

(* The send raised, before or after Telegram accepted it: the claim stays  *)
(* and a retry is queued for after its lease.                              *)
Raise(f) ==
    /\ fiber[f].phase \in {"sending", "reached"}
    /\ fiber' = [fiber EXCEPT ![f] = Idle]
    /\ Schedule(fiber[f].proc, fiber[f].id, Retry)
    /\ UNCHANGED <<store, used, up, quiet, moves, ghosts>>

(* The send returned.  A record cancelled meanwhile stays gone, but a      *)
(* series' next job is queued all the same.                                *)
Finish(f) ==
    LET i == fiber[f].id
        p == fiber[f].proc
        d == fiber[f].due
    IN  /\ fiber[f].phase = "reached"
        /\ i \in Series => NextDue(d) <= Horizon
        /\ fiber' = [fiber EXCEPT ![f] = Idle]
        /\ store' = Update(store, i, SettledRecord(i, store[i], d))
        /\ jobs' = [jobs EXCEPT ![p] = SettledQueue(i, jobs[p], d)]
        /\ NewPromise({i} \cap Series)
        /\ UNCHANGED <<used, up, quiet, moves>>
-----------------------------------------------------------------------------
(* The clock.  A series' past due time keeps its phase, a one-shot's only  *)
(* whether it is overdue.                                                  *)

Older(a) == IF a = NoStamp \/ a = OldAge THEN a ELSE a + 1

Sooner(i, d) ==
    IF i \in Series
    THEN IF d - 1 < -(Slack + Period) THEN d - 1 + Period ELSE d - 1
    ELSE IF d <= -(Slack + 1) THEN d ELSE d - 1

Nearer(timers) == [d \in Delay |-> CASE d = 0       -> timers[0] + timers[1]
                                      [] d = Horizon -> 0
                                      [] OTHER       -> timers[d + 1]]

Tick ==
    /\ store' = [i \in DOMAIN store |->
                   [store[i] EXCEPT !.due = Sooner(i, @),
                                    !.claimed = Older(@),
                                    !.delivered = Older(@)]]
    /\ jobs' = [p \in Proc |-> [i \in Id |-> Nearer(jobs[p][i])]]
    /\ fiber' = [f \in Fiber |->
                   IF fiber[f] = Idle THEN Idle
                   ELSE [fiber[f] EXCEPT !.due = Sooner(fiber[f].id, @)]]
    /\ UNCHANGED <<used, up, quiet, moves, ghosts>>
-----------------------------------------------------------------------------
Fire(p, i) ==
    \/ FireSkip(p, i) \/ FireDefer(p, i) \/ FireQuiet(p, i) \/ FireWithheld(p, i)
    \/ \E f \in Fiber : FireBegin(p, i, f)

Converse(p, i) ==
    \/ Cancel(p, i)
    \/ \E d \in Ahead : Create(p, i, d) \/ Reschedule(p, i, d) \/ Snooze(p, i, d)

Next ==
    \/ \E p \in Proc : Start(p) \/ Crash(p)
    \/ \E p \in Proc, i \in Id : Converse(p, i) \/ Fire(p, i)
    \/ \E f \in Fiber : Accept(f) \/ Raise(f) \/ Finish(f)
    \/ SetQuiet
    \/ Tick

Spec == Init /\ [][Next]_vars

(* One event loop runs every due job and resumes every fiber, a process    *)
(* that went down is started again and time passes.  Strong fairness on    *)
(* the send: the network does not fail every attempt of a reminder.        *)
Sends(i, f) == fiber[f] # Idle /\ fiber[f].id = i

Fairness ==
    /\ WF_vars(Tick)
    /\ \A p \in Proc : WF_vars(Start(p))
    /\ \A p \in Proc, i \in Id : WF_vars(Fire(p, i))
    /\ \A i \in Id : /\ SF_vars(\E f \in Fiber : Sends(i, f) /\ Accept(f))
                     /\ SF_vars(\E f \in Fiber : Sends(i, f) /\ Finish(f))

FairSpec == Spec /\ Fairness
-----------------------------------------------------------------------------
Unmoved(i) == moves[i] = 0

(* However often a send is retried, taken over after a crash or held by    *)
(* quiet hours, the chat gets at most one copy of a promise without the    *)
(* "this may be a repeat" label (store.py claim_for_send, scheduler.fire). *)
OnePlainCopy == \A i \in Id : Unmoved(i) => plains[i] <= 1

(* The same for one-shots alone: it survives overlapping processes too.    *)
OneShotPlainOnce == \A i \in Id \ Series : Unmoved(i) => plains[i] <= 1

(* A one-shot is retired only after the chat got it, or because the        *)
(* channel does not deliver to its chat: delivery is at least once         *)
(* (scheduler.py:91-96).                                                   *)
RetiredWasDelivered ==
    \A i \in DOMAIN store \ Series :
        store[i].sent /\ Unmoved(i) => i \in got \cup Unknown

(* The same for moved reminders as well: the move replaces the promise, so *)
(* retiring the record keeps the promise only if it went out since.        *)
MovedWasDelivered ==
    \A i \in DOMAIN store \ Series : store[i].sent => i \in got \cup Unknown

(* Nothing is sent ahead of the due time on the record that is claimed     *)
(* (scheduler.py:50-52: a duplicate job, an overlapping process, or a      *)
(* stale schedule sends nothing the second time).                          *)
NeverEarly == \A f \in Fiber : fiber[f] # Idle => fiber[f].due <= 0

(* One process keeps one timer per reminder: the queued jobs and the       *)
(* fibers of a reminder are never two, so a series cannot start to ping    *)
(* twice per occurrence.                                                   *)
Timers(p, i) == {<<"job", d>> : d \in {x \in Delay : jobs[p][i][x] > 0}}
                \cup {<<"fiber", f>> : f \in {g \in Fiber : Sends(i, g) /\ fiber[g].proc = p}}

OneTimer ==
    \A p \in Proc, i \in Id :
        /\ Cardinality(Timers(p, i)) <= 1
        /\ \A d \in Delay : jobs[p][i][d] <= 1

(* No second plain copy, none before its time, and one timer each. *)
RemindersInv == OnePlainCopy /\ NeverEarly /\ OneTimer

(* A running process never drops the watch of a reminder it still owes:    *)
(* after every step that leaves the record pending, a job or a fiber is    *)
(* left to carry it (the "stranded" reminders of scheduler.py:63-67).      *)
Watches(p, i) ==
    \/ \E d \in Delay : jobs[p][i][d] > 0
    \/ \E f \in Fiber : Sends(i, f) /\ fiber[f].proc = p

WatchKept ==
    \A p \in Proc, i \in Id :
        up[p] /\ up'[p] /\ Watches(p, i) /\ Pending(i)' => Watches(p, i)'

KeepsWatch == [][WatchKept]_vars

(* The doubt that an earlier attempt may have arrived is sticky            *)
(* (store.py:129-131): a one-shot that no user moves keeps it for good,     *)
(* whatever quiet hours release, re-claim or restart comes between.        *)
Doubt(s, i) == i \in DOMAIN s /\ s[i].takeover

DoubtKept ==
    \A i \in Id \ Series :
        Unmoved(i)' /\ Doubt(store, i) /\ i \in DOMAIN store' => Doubt(store', i)

OneShotStickyDoubt == [][DoubtKept]_vars

(* Why OneShotPlainOnce and RetiredWasDelivered hold: the inductive         *)
(* invariant.  A plain send in flight, or a plain copy that arrived, is     *)
(* always evidenced by the record: it is retired, claimed or in doubt, so   *)
(* the next claim is granted only with the label.                          *)
PlainFlight(i, f) == Sends(i, f) /\ fiber[f].phase = "sending" /\ fiber[f].plain

Evidence(i) == store[i].sent \/ store[i].claimed # NoStamp \/ store[i].takeover

UnusedIsBlank ==
    /\ DOMAIN store \subseteq used
    /\ \A i \in Id \ used : plains[i] = 0 /\ \A f \in Fiber : ~Sends(i, f)

FlightIsOld == \A i \in Id, f \in Fiber : Sends(i, f) => fiber[f].move <= moves[i]

ReachedWasGot ==
    \A i \in Id \ Series, f \in Fiber :
        Unmoved(i) /\ Sends(i, f) /\ fiber[f].phase = "reached" => i \in got

OnePlainFlight ==
    \A i \in Id \ Series, f, g \in Fiber :
        Unmoved(i) /\ PlainFlight(i, f) =>
            /\ PlainFlight(i, g) => f = g
            /\ plains[i] = 0
            /\ i \in DOMAIN store => Evidence(i)

PlainIsEvidenced ==
    \A i \in (Id \ Series) \cap DOMAIN store :
        Unmoved(i) /\ plains[i] > 0 => Evidence(i)

PromiseInv ==
    /\ TypeOK /\ UnusedIsBlank /\ FlightIsOld /\ ReachedWasGot
    /\ OnePlainFlight /\ PlainIsEvidenced
    /\ OneShotPlainOnce /\ RetiredWasDelivered

(* If some process stays up and it stays neither quiet nor killed, every   *)
(* pending one-shot is delivered or withheld, moved or cancelled.          *)
Calm == (\E p \in Proc : <>[]up[p]) /\ <>[]~quiet

PromisesKept ==
    Calm => \A i \in Id \ Series : []<>~Pending(i)

(* ... and a series keeps pinging until it is cancelled. *)
SeriesKeepsPinging ==
    Calm => \A i \in Series \ Unknown :
        []<>(i \notin DOMAIN store \/ \E f \in Fiber :
                Sends(i, f) /\ fiber[f].phase = "reached")
-----------------------------------------------------------------------------
(* What became of a one-shot, read off the file: it is gone when the user  *)
(* cancelled it, and a moved one is a promise of its own.                  *)
Fate(i) ==
    IF i \notin used THEN "none"
    ELSE IF moves[i] > 0 THEN "moved"
    ELSE IF i \notin DOMAIN store THEN "dropped"
    ELSE IF store[i].sent THEN "kept" ELSE "open"

D == INSTANCE Delivery WITH
        Promise  <- Id \ Series,
        Withheld <- Unknown \ Series,
        status   <- [i \in Id \ Series |-> Fate(i)],
        told     <- {i \in got \ Series : Unmoved(i)},
        copies   <- [i \in Id \ Series |-> IF Unmoved(i) THEN plains[i] ELSE 0]

(* The store, the jobs and the claims deliver what Delivery promises: each *)
(* step of a process, of the user, of a crash or of the clock is a step of *)
(* Delivery or none (scheduler.py:46-96, store.py:103-137).                *)
KeepsDelivery == D!DeliverySpec

(* Nothing a running process owes is dropped, and no doubt forgotten.      *)
NothingDropped == KeepsWatch /\ OneShotStickyDoubt
=============================================================================

-------------------------- MODULE RemindersProofs --------------------------
(***************************************************************************)
(* Theorems about Reminders, for every value of its constants: any number  *)
(* of reminders, overlapping processes and concurrent sends, any delays.   *)
(***************************************************************************)
EXTENDS Reminders, FiniteSetTheorems, TLAPS

USE DEF NoStamp

Queue == [Id -> [Delay -> Nat]]

LEMMA OldAgeType == OldAge \in Nat \ {0}
BY RemindersAssumption DEF OldAge

LEMMA DelayZero == 0 \in Delay /\ Horizon \in Nat /\ Horizon >= 1
BY RemindersAssumption DEF Delay

LEMMA NextDueType == ASSUME NEW d \in Int PROVE NextDue(d) \in Int
<1>1. (-d) \in Int /\ Period \in Int /\ Period > 0
  BY RemindersAssumption
<1>2. (-d) % Period \in Int
  BY <1>1
<1>. QED
  BY <1>1, <1>2 DEF NextDue

LEMMA OlderType == ASSUME NEW a \in Stamp PROVE Older(a) \in Stamp
BY OldAgeType DEF Older, Stamp

LEMMA SoonerType == ASSUME NEW i, NEW d \in Int PROVE Sooner(i, d) \in Int
BY RemindersAssumption DEF Sooner

LEMMA ClaimTypes ==
  ASSUME NEW r \in Record
  PROVE  Claimed(r) \in Record /\ Released(r) \in Record /\ Retired(r) \in Record
<1>1. 0 \in Stamp /\ -1 \in Stamp
  BY OldAgeType DEF Stamp
<1>. QED
  BY <1>1 DEF Claimed, Released, Retired, Record

LEMMA NewType == ASSUME NEW d \in Int PROVE NewRecord(d) \in Record
BY OldAgeType DEF NewRecord, Record, Stamp

LEMMA RolledType == ASSUME NEW r \in Record, NEW d \in Int PROVE Rolled(r, d) \in Record
<1>1. (IF r.claimed = NoStamp THEN 0 ELSE r.claimed) \in Stamp
  BY OldAgeType DEF Record, Stamp
<1>2. NoStamp \in Stamp
  BY DEF Stamp
<1>. QED
  BY <1>1, <1>2 DEF Rolled, Record

LEMMA ScheduledType == ASSUME NEW r \in Record, NEW i PROVE ScheduledRecord(i, r) \in Record
<1>1. r.due \in Int
  BY DEF Record
<1>. QED
  BY <1>1, NextDueType, RolledType DEF ScheduledRecord

LEMMA SettledType ==
  ASSUME NEW r \in Record, NEW d \in Int, NEW i PROVE SettledRecord(i, r, d) \in Record
BY NextDueType, RolledType, ClaimTypes DEF SettledRecord

LEMMA PlusType ==
  ASSUME NEW q \in Queue, NEW i \in Id, NEW d \in Int PROVE Plus(q, i, d) \in Queue
<1>1. q[i] \in [Delay -> Nat]
  BY DEF Queue
<1>2. [q[i] EXCEPT ![SoonIn(d)] = @ + 1] \in [Delay -> Nat]
  <2>1. CASE SoonIn(d) \in Delay
    BY <1>1, <2>1
  <2>2. CASE SoonIn(d) \notin Delay
    BY <1>1, <2>2
  <2>. QED
    BY <2>1, <2>2
<1>3. Plus(q, i, d) = [q EXCEPT ![i] = [q[i] EXCEPT ![SoonIn(d)] = @ + 1]]
  BY DEF Plus
<1>. QED
  BY <1>2, <1>3 DEF Queue

LEMMA OnlyType ==
  ASSUME NEW q \in Queue, NEW i \in Id, NEW d \in Int PROVE Only(q, i, d) \in Queue
BY DEF Only, Queue

LEMMA GoneType == ASSUME NEW q \in Queue, NEW i \in Id PROVE Gone(q, i) \in Queue
BY DEF Gone, Queue

LEMMA SettledQueueType ==
  ASSUME NEW q \in Queue, NEW i \in Id, NEW d \in Int PROVE SettledQueue(i, q, d) \in Queue
BY PlusType, NextDueType DEF SettledQueue

LEMMA NearerType == ASSUME NEW t \in [Delay -> Nat] PROVE Nearer(t) \in [Delay -> Nat]
<1>1. ASSUME NEW d \in Delay PROVE Nearer(t)[d] \in Nat
  <2>1. CASE d = 0
    BY <2>1, DelayZero DEF Nearer, Delay
  <2>2. CASE d # 0 /\ d = Horizon
    BY <2>2 DEF Nearer
  <2>3. CASE d # 0 /\ d # Horizon
    BY <2>3, DelayZero DEF Nearer, Delay
  <2>. QED
    BY <2>1, <2>2, <2>3
<1>. QED
  BY <1>1 DEF Nearer

LEMMA DelaysType == Watch \in Int /\ Retry \in Int /\ Hold \in Int
BY RemindersAssumption

LEMMA ConsumedType ==
  ASSUME TypeOK, NEW p \in Proc, NEW i \in Id, Run(p, i)
  PROVE  Consumed(p, i) \in Queue
<1>1. jobs[p] \in Queue /\ jobs[p][i][0] > 0
  BY DEF TypeOK, Queue, Run
<1>. QED
  BY <1>1, DelayZero DEF Consumed, Queue

LEMMA JobsType ==
  ASSUME TypeOK, NEW p \in Proc, NEW q \in Queue
  PROVE  [jobs EXCEPT ![p] = q] \in [Proc -> Queue]
BY DEF TypeOK, Queue

LEMMA StoreType ==
  ASSUME TypeOK, NEW i, NEW r \in Record
  PROVE  /\ DOMAIN [store EXCEPT ![i] = r] = DOMAIN store
         /\ \A k \in DOMAIN store : [store EXCEPT ![i] = r][k] \in Record
BY DEF TypeOK

-----------------------------------------------------------------------------
(* Type correctness.                                                       *)

LEMMA TypeInit == Init => TypeOK
<1>. SUFFICES ASSUME Init PROVE TypeOK
  OBVIOUS
<1>1. jobs \in [Proc -> [Id -> [Delay -> Nat]]]
  BY DEF Init, NoJobs
<1>2. fiber \in [Fiber -> Flight \cup {Idle}]
  BY DEF Init
<1>3. DOMAIN store = {}
  BY DEF Init
<1>4. DOMAIN store \subseteq Id /\ \A i \in DOMAIN store : store[i] \in Record
  BY <1>3
<1>5. up \in [Proc -> BOOLEAN] /\ quiet \in BOOLEAN
  BY DEF Init
<1>6. used \subseteq Id /\ got \subseteq Id
  BY DEF Init
<1>7. moves \in [Id -> Nat] /\ plains \in [Id -> 0 .. 2]
  BY DEF Init
<1>. QED
  BY <1>1, <1>2, <1>4, <1>5, <1>6, <1>7 DEF TypeOK

LEMMA TypeStep == TypeOK /\ [Next]_vars => TypeOK'
<1>. SUFFICES ASSUME TypeOK, [Next]_vars PROVE TypeOK'
  OBVIOUS
<1>. USE DEF Queue
<1>1. ASSUME NEW p \in Proc, Start(p) PROVE TypeOK'
  <2>1. \A i \in DOMAIN store : store'[i] \in Record
    BY <1>1, ScheduledType DEF Start, TypeOK
  <2>2. DOMAIN store' = DOMAIN store
    BY <1>1 DEF Start
  <2>3. jobs' \in [Proc -> Queue]
    BY <1>1 DEF Start, TypeOK
  <2>4. got' \subseteq Id /\ plains' \in [Id -> 0 .. 2]
    BY <1>1 DEF Start, NewPromise, TypeOK
  <2>. QED
    BY <1>1, <2>1, <2>2, <2>3, <2>4 DEF Start, TypeOK
<1>2. ASSUME NEW p \in Proc, Crash(p) PROVE TypeOK'
  <2>1. jobs' \in [Proc -> Queue]
    BY <1>2 DEF Crash, TypeOK, NoJobs
  <2>2. fiber' \in [Fiber -> Flight \cup {Idle}]
    BY <1>2 DEF Crash, TypeOK
  <2>. QED
    BY <1>2, <2>1, <2>2 DEF Crash, TypeOK, ghosts
<1>3. ASSUME NEW p \in Proc, NEW i \in Id, NEW d \in Int, CreateAs(p, i, d) PROVE TypeOK'
  <2>. DEFINE r == ScheduledRecord(i, NewRecord(d))
  <2>1. NewRecord(d) \in Record
    BY NewType
  <2>2. r \in Record /\ r.due \in Int
    BY <2>1, ScheduledType DEF Record
  <2>3. /\ store' = [Added(store, i, d) EXCEPT ![i] = r]
        /\ used' = used \cup {i}
        /\ jobs' = [jobs EXCEPT ![p] = Plus(jobs[p], i, r.due)]
        /\ UNCHANGED <<up, fiber, quiet, moves, ghosts>>
    BY <1>3 DEF CreateAs, Schedule
  <2>. HIDE DEF r
  <2>4. /\ DOMAIN store' \subseteq Id
        /\ \A k \in DOMAIN store' : store'[k] \in Record
    BY <2>1, <2>2, <2>3 DEF Added, TypeOK
  <2>5. jobs' \in [Proc -> Queue]
    BY <2>2, <2>3, PlusType, JobsType DEF TypeOK
  <2>. QED
    BY <2>3, <2>4, <2>5 DEF TypeOK, ghosts
<1>4. ASSUME NEW p \in Proc, NEW i \in Id, Cancel(p, i) PROVE TypeOK'
  <2>1. jobs' \in [Proc -> Queue]
    BY <1>4, GoneType, JobsType DEF Cancel, TypeOK
  <2>. QED
    BY <1>4, <2>1 DEF Cancel, Without, TypeOK, ghosts
<1>5. ASSUME NEW p \in Proc, NEW i \in Id, NEW d \in Int, Reschedule(p, i, d) PROVE TypeOK'
  <2>1. i \in DOMAIN store /\ store[i] \in Record
    BY <1>5 DEF Reschedule, Pending, TypeOK
  <2>2. Rolled(store[i], d) \in Record
    BY <2>1, RolledType
  <2>3. /\ DOMAIN store' = DOMAIN store
        /\ \A k \in DOMAIN store : store'[k] \in Record
    BY <1>5, <2>2, StoreType DEF Reschedule
  <2>4. jobs' \in [Proc -> Queue]
    BY <1>5, OnlyType, JobsType DEF Reschedule, TypeOK
  <2>5. /\ got' \subseteq Id /\ plains' \in [Id -> 0 .. 2] /\ moves' \in [Id -> Nat]
    BY <1>5 DEF Reschedule, NewPromise, TypeOK
  <2>. QED
    BY <1>5, <2>3, <2>4, <2>5 DEF Reschedule, TypeOK
<1>6. ASSUME NEW p \in Proc, NEW i \in Id, FireSkip(p, i) PROVE TypeOK'
  BY <1>6, ConsumedType, JobsType DEF FireSkip, TypeOK, ghosts
<1>7. ASSUME NEW p \in Proc, NEW i \in Id, FireDefer(p, i) PROVE TypeOK'
  <2>1. jobs' \in [Proc -> Queue]
    BY <1>7, DelaysType, ConsumedType, PlusType, JobsType DEF FireDefer, Requeue
  <2>. QED
    BY <1>7, <2>1 DEF FireDefer, TypeOK, ghosts
<1>8. ASSUME NEW p \in Proc, NEW i \in Id, FireQuiet(p, i) PROVE TypeOK'
  <2>1. jobs' \in [Proc -> Queue]
    BY <1>8, DelaysType, ConsumedType, PlusType, JobsType DEF FireQuiet, Requeue
  <2>2. Released(Claimed(store[i])) \in Record
    BY <1>8, ClaimTypes DEF FireQuiet, Claimable, Pending, TypeOK
  <2>. QED
    BY <1>8, <2>1, <2>2, StoreType DEF FireQuiet, TypeOK, ghosts
<1>9. ASSUME NEW p \in Proc, NEW i \in Id, NEW f \in Fiber, FireBegin(p, i, f) PROVE TypeOK'
  <2>1. jobs' \in [Proc -> Queue]
    BY <1>9, ConsumedType, JobsType DEF FireBegin
  <2>2. store[i] \in Record /\ Claimed(store[i]) \in Record
    BY <1>9, ClaimTypes DEF FireBegin, Claimable, Pending, TypeOK
  <2>3. fiber' \in [Fiber -> Flight \cup {Idle}]
    BY <1>9, <2>2 DEF FireBegin, Flight, Record, TypeOK
  <2>. QED
    BY <1>9, <2>1, <2>2, <2>3, StoreType DEF FireBegin, TypeOK, ghosts
<1>10. ASSUME NEW p \in Proc, NEW i \in Id, FireWithheld(p, i) PROVE TypeOK'
  <2>1. /\ store[i] \in Record /\ store[i].due \in Int
        /\ SettledRecord(i, Claimed(store[i]), store[i].due) \in Record
    BY <1>10, ClaimTypes, SettledType DEF FireWithheld, Claimable, Pending, TypeOK, Record
  <2>2. jobs' \in [Proc -> Queue]
    BY <1>10, <2>1, ConsumedType, SettledQueueType, JobsType DEF FireWithheld
  <2>. QED
    BY <1>10, <2>1, <2>2, StoreType DEF FireWithheld, TypeOK, ghosts
<1>11. ASSUME NEW f \in Fiber, Accept(f) PROVE TypeOK'
  <2>1. fiber[f] \in Flight
    BY <1>11 DEF Accept, TypeOK, Idle
  <2>2. fiber' \in [Fiber -> Flight \cup {Idle}]
    BY <1>11, <2>1 DEF Accept, TypeOK, Flight
  <2>3. fiber[f].id \in Id
    BY <2>1 DEF Flight
  <2>4. got' \subseteq Id
    BY <1>11, <2>3 DEF Accept, TypeOK
  <2>5. plains' \in [Id -> 0 .. 2]
    <3>1. plains' = plains \/ (plains[fiber[f].id] < 2
                               /\ plains' = [plains EXCEPT ![fiber[f].id] = @ + 1])
      BY <1>11 DEF Accept
    <3>2. plains \in [Id -> 0 .. 2]
      BY DEF TypeOK
    <3>. QED
      BY <2>3, <3>1, <3>2
  <2>. QED
    BY <1>11, <2>2, <2>4, <2>5 DEF Accept, TypeOK
<1>12. ASSUME NEW f \in Fiber, Raise(f) PROVE TypeOK'
  <2>1. fiber[f] \in Flight
    BY <1>12 DEF Raise, TypeOK, Idle
  <2>2. fiber[f].id \in Id /\ fiber[f].proc \in Proc
    BY <2>1 DEF Flight
  <2>3. jobs' \in [Proc -> Queue]
    BY <1>12, <2>2, DelaysType, PlusType, JobsType DEF Raise, Schedule, TypeOK
  <2>. QED
    BY <1>12, <2>3 DEF Raise, TypeOK, ghosts
<1>13. ASSUME NEW f \in Fiber, Finish(f) PROVE TypeOK'
  <2>. DEFINE i == fiber[f].id  p == fiber[f].proc  d == fiber[f].due
  <2>1. fiber[f] \in Flight
    BY <1>13 DEF Finish, TypeOK, Idle
  <2>2. i \in Id /\ p \in Proc /\ d \in Int
    BY <2>1 DEF Flight
  <2>3. /\ fiber' = [fiber EXCEPT ![f] = Idle]
        /\ store' = Update(store, i, SettledRecord(i, store[i], d))
        /\ jobs' = [jobs EXCEPT ![p] = SettledQueue(i, jobs[p], d)]
        /\ NewPromise({i} \cap Series)
        /\ UNCHANGED <<used, up, quiet, moves>>
    BY <1>13 DEF Finish
  <2>. HIDE DEF i, p, d
  <2>4. jobs' \in [Proc -> Queue]
    BY <2>2, <2>3, SettledQueueType, JobsType DEF TypeOK
  <2>5. /\ DOMAIN store' = DOMAIN store
        /\ \A k \in DOMAIN store : store'[k] \in Record
    <3>1. i \in DOMAIN store => SettledRecord(i, store[i], d) \in Record
      BY <2>2, SettledType DEF TypeOK
    <3>. QED
      BY <2>3, <3>1, StoreType DEF Update, TypeOK
  <2>6. got' \subseteq Id /\ plains' \in [Id -> 0 .. 2]
    BY <2>3 DEF NewPromise, TypeOK
  <2>. QED
    BY <2>3, <2>4, <2>5, <2>6 DEF TypeOK
<1>14. CASE SetQuiet
  BY <1>14 DEF SetQuiet, TypeOK, ghosts
<1>15. CASE Tick
  <2>1. /\ DOMAIN store' = DOMAIN store
        /\ \A i \in DOMAIN store : store'[i] \in Record
    <3>1. DOMAIN store' = DOMAIN store
      BY <1>15 DEF Tick
    <3>2. ASSUME NEW i \in DOMAIN store PROVE store'[i] \in Record
      <4>1. store[i] \in Record
        BY DEF TypeOK
      <4>2. /\ Sooner(i, store[i].due) \in Int
            /\ Older(store[i].claimed) \in Stamp
            /\ Older(store[i].delivered) \in Stamp
        BY <4>1, OlderType, SoonerType DEF Record
      <4>3. store'[i] = [store[i] EXCEPT !.due = Sooner(i, @),
                                         !.claimed = Older(@),
                                         !.delivered = Older(@)]
        BY <1>15 DEF Tick
      <4>. QED
        BY <4>1, <4>2, <4>3 DEF Record
    <3>. QED
      BY <3>1, <3>2
  <2>2. jobs' \in [Proc -> Queue]
    BY <1>15, NearerType DEF Tick, TypeOK
  <2>3. fiber' \in [Fiber -> Flight \cup {Idle}]
    <3>1. ASSUME NEW f \in Fiber, fiber[f] # Idle
          PROVE  [fiber[f] EXCEPT !.due = Sooner(fiber[f].id, @)] \in Flight
      <4>1. fiber[f] \in Flight
        BY <3>1 DEF TypeOK
      <4>2. Sooner(fiber[f].id, fiber[f].due) \in Int
        BY <4>1, SoonerType DEF Flight
      <4>. QED
        BY <4>1, <4>2 DEF Flight
    <3>. QED
      BY <1>15, <3>1 DEF Tick
  <2>. QED
    BY <1>15, <2>1, <2>2, <2>3 DEF Tick, TypeOK, ghosts
<1>16. CASE UNCHANGED vars
  BY <1>16 DEF vars, TypeOK
<1>17. Ahead \subseteq Int
  BY RemindersAssumption
<1>. QED
  BY <1>1, <1>2, <1>3, <1>4, <1>5, <1>6, <1>7, <1>8, <1>9, <1>10, <1>11, <1>12, <1>13,
     <1>14, <1>15, <1>16, <1>17 DEF Next, Converse, Fire, Create, Snooze

(* Every reachable state is well typed. *)
THEOREM TypeCorrect == Spec => []TypeOK
<1>. QED
  BY TypeInit, TypeStep, PTL DEF Spec
-----------------------------------------------------------------------------
(* At least one copy and at most one plain copy of a one-shot's promise.   *)

LEMMA PromiseInit == Init => PromiseInv
<1>. SUFFICES ASSUME Init PROVE PromiseInv
  OBVIOUS
<1>1. TypeOK
  BY TypeInit
<1>2. /\ DOMAIN store = {}
      /\ \A i \in Id, f \in Fiber : ~Sends(i, f)
      /\ \A i \in Id : plains[i] = 0
  BY DEF Init, Sends
<1>. QED
  BY <1>1, <1>2 DEF PromiseInv, UnusedIsBlank, FlightIsOld, ReachedWasGot, OnePlainFlight,
     PlainFlight, PlainIsEvidenced, OneShotPlainOnce, RetiredWasDelivered

(* A step that leaves the fibers, the moves and the ghosts of one-shots    *)
(* alone, and takes no evidence from a one-shot that stays in the store,   *)
(* preserves everything but the retirement rule.                           *)
LEMMA PromiseFrame ==
  ASSUME PromiseInv, TypeOK',
         UNCHANGED moves,
         \A i \in Id, f \in Fiber :
             Sends(i, f)' => /\ Sends(i, f)
                             /\ fiber'[f].move = fiber[f].move
                             /\ fiber'[f].phase = fiber[f].phase
                             /\ fiber'[f].plain = fiber[f].plain,
         \A i \in Id \ Series : plains'[i] = plains[i] /\ (i \in got => i \in got'),
         \A i \in Id : i \notin used => plains'[i] = 0,
         used \subseteq used', DOMAIN store' \subseteq used',
         \A i \in (Id \ Series) \cap DOMAIN store' :
             \/ i \in DOMAIN store /\ (Evidence(i) => Evidence(i)')
             \/ i \notin used,
         \A i \in DOMAIN store' \ Series :
             store'[i].sent /\ Unmoved(i) => i \in got' \cup Unknown
  PROVE  PromiseInv'
<1>1. UnusedIsBlank'
  BY DEF PromiseInv, UnusedIsBlank
<1>2. FlightIsOld'
  BY DEF PromiseInv, FlightIsOld
<1>3. ReachedWasGot'
  BY DEF PromiseInv, ReachedWasGot, Unmoved
<1>4. \A i \in Id, f \in Fiber : PlainFlight(i, f)' => PlainFlight(i, f)
  BY DEF PlainFlight
<1>5. \A i \in Id, f \in Fiber : PlainFlight(i, f) => i \in used
  BY DEF PromiseInv, UnusedIsBlank, PlainFlight
<1>6. OnePlainFlight'
  BY <1>4, <1>5 DEF PromiseInv, OnePlainFlight, Unmoved
<1>7. PlainIsEvidenced'
  BY DEF PromiseInv, PlainIsEvidenced, UnusedIsBlank, Unmoved
<1>8. OneShotPlainOnce' /\ RetiredWasDelivered'
  BY DEF PromiseInv, OneShotPlainOnce, RetiredWasDelivered, Unmoved
<1>. QED
  BY <1>1, <1>2, <1>3, <1>6, <1>7, <1>8 DEF PromiseInv

LEMMA PromiseStep == PromiseInv /\ [Next]_vars => PromiseInv'
<1>. SUFFICES ASSUME PromiseInv, [Next]_vars PROVE PromiseInv'
  OBVIOUS
<1>t. TypeOK /\ TypeOK'
  BY TypeStep DEF PromiseInv
<1>u. /\ DOMAIN store \subseteq used
      /\ \A i \in Id \ used : plains[i] = 0
      /\ \A i \in DOMAIN store \ Series : store[i].sent /\ Unmoved(i) => i \in got \cup Unknown
  BY DEF PromiseInv, UnusedIsBlank, RetiredWasDelivered
<1>1. ASSUME NEW p \in Proc, Start(p) PROVE PromiseInv'
  <2>1. /\ DOMAIN store' = DOMAIN store
        /\ \A i \in DOMAIN store \ Series : store'[i] = store[i]
    BY <1>1 DEF Start, ScheduledRecord
  <2>2. /\ \A i \in Id \ Series : plains'[i] = plains[i] /\ (i \in got => i \in got')
        /\ \A i \in Id \ used : plains'[i] = 0
    BY <1>1, <1>u DEF Start, NewPromise
  <2>3. UNCHANGED <<used, fiber, moves>>
    BY <1>1 DEF Start
  <2>4. \A k \in (Id \ Series) \cap DOMAIN store' :
            k \in DOMAIN store /\ (Evidence(k) => Evidence(k)')
    BY <2>1 DEF Evidence
  <2>5. \A k \in DOMAIN store' \ Series : store'[k].sent /\ Unmoved(k) => k \in got' \cup Unknown
    BY <1>t, <1>u, <2>1, <2>2 DEF TypeOK
  <2>. QED
    BY <1>t, <1>u, <2>1, <2>2, <2>3, <2>4, <2>5, PromiseFrame DEF Sends
<1>2. ASSUME NEW p \in Proc, Crash(p) PROVE PromiseInv'
  <2>1. \A i \in Id, f \in Fiber : Sends(i, f)' => Sends(i, f) /\ fiber'[f] = fiber[f]
    BY <1>2 DEF Crash, Sends
  <2>. QED
    BY <1>2, <1>t, <1>u, <2>1, PromiseFrame DEF Crash, Evidence, Unmoved, ghosts
<1>3. ASSUME NEW p \in Proc, NEW i \in Id, NEW d \in Int, CreateAs(p, i, d) PROVE PromiseInv'
  <2>1. /\ i \notin used /\ used' = used \cup {i}
        /\ DOMAIN store' = DOMAIN store \cup {i}
        /\ \A k \in DOMAIN store : k # i => store'[k] = store[k]
        /\ store'[i] = ScheduledRecord(i, NewRecord(d))
        /\ UNCHANGED <<fiber, moves, ghosts>>
    BY <1>3, <1>u DEF CreateAs, Added
  <2>2. i \notin Series => ~store'[i].sent
    BY <2>1 DEF ScheduledRecord, NewRecord
  <2>. QED
    BY <1>t, <1>u, <2>1, <2>2, PromiseFrame DEF Sends, Evidence, Unmoved, ghosts
<1>4. ASSUME NEW p \in Proc, NEW i \in Id, Cancel(p, i) PROVE PromiseInv'
  <2>1. /\ DOMAIN store' \subseteq DOMAIN store
        /\ \A k \in DOMAIN store' : store'[k] = store[k]
        /\ UNCHANGED <<used, fiber, moves, ghosts>>
    BY <1>4 DEF Cancel, Without
  <2>. QED
    BY <1>t, <1>u, <2>1, PromiseFrame DEF Sends, Evidence, Unmoved, ghosts
<1>6. ASSUME NEW p \in Proc, NEW i \in Id, FireSkip(p, i) \/ FireDefer(p, i) PROVE PromiseInv'
  <2>1. UNCHANGED <<store, used, fiber, moves, ghosts>>
    BY <1>6 DEF FireSkip, FireDefer
  <2>. QED
    BY <1>t, <1>u, <2>1, PromiseFrame DEF Sends, Evidence, Unmoved, ghosts
<1>8. ASSUME NEW p \in Proc, NEW i \in Id, FireQuiet(p, i) PROVE PromiseInv'
  <2>1. /\ store' = [store EXCEPT ![i] = Released(Claimed(@))]
        /\ i \in DOMAIN store /\ ~store[i].sent /\ store[i] \in Record
        /\ UNCHANGED <<used, fiber, moves, ghosts>>
    BY <1>8, <1>t DEF FireQuiet, Claimable, Pending, TypeOK
  <2>2. /\ store'[i].sent = FALSE
        /\ store'[i].takeover = (store[i].takeover \/ store[i].claimed # NoStamp)
    BY <2>1 DEF Released, Claimed, Record
  <2>3. \A k \in DOMAIN store' : k # i => store'[k] = store[k]
    BY <2>1
  <2>4. DOMAIN store' = DOMAIN store
    BY <2>1
  <2>. QED
    BY <1>t, <1>u, <2>1, <2>2, <2>3, <2>4, PromiseFrame DEF Sends, Evidence, Unmoved, ghosts
<1>10. ASSUME NEW p \in Proc, NEW i \in Id, FireWithheld(p, i) PROVE PromiseInv'
  <2>1. /\ store' = [store EXCEPT ![i] = SettledRecord(i, Claimed(@), @.due)]
        /\ i \in DOMAIN store /\ i \in Unknown /\ store[i] \in Record
        /\ UNCHANGED <<used, fiber, moves, ghosts>>
    BY <1>10, <1>t DEF FireWithheld, Claimable, Pending, TypeOK
  <2>2. /\ \A k \in DOMAIN store' : k # i => store'[k] = store[k]
        /\ DOMAIN store' = DOMAIN store
    BY <2>1
  <2>3. i \notin Series => store'[i].sent
    BY <2>1 DEF SettledRecord, Retired, Claimed, Record
  <2>. QED
    BY <1>t, <1>u, <2>1, <2>2, <2>3, PromiseFrame DEF Sends, Evidence, Unmoved, ghosts
<1>12. ASSUME NEW f \in Fiber, Raise(f) PROVE PromiseInv'
  <2>1. \A i \in Id, g \in Fiber : Sends(i, g)' => Sends(i, g) /\ fiber'[g] = fiber[g]
    BY <1>12, <1>t DEF Raise, Sends, TypeOK
  <2>2. UNCHANGED <<store, used, moves, ghosts>>
    BY <1>12 DEF Raise
  <2>. QED
    BY <1>t, <1>u, <2>1, <2>2, PromiseFrame DEF Evidence, Unmoved, ghosts
<1>13. ASSUME NEW f \in Fiber, Finish(f) PROVE PromiseInv'
  <2>. DEFINE i == fiber[f].id  d == fiber[f].due
  <2>1. \A k \in Id, g \in Fiber : Sends(k, g)' => Sends(k, g) /\ fiber'[g] = fiber[g]
    BY <1>13, <1>t DEF Finish, Sends, TypeOK
  <2>2. fiber[f].phase = "reached" /\ i \in Id /\ Sends(i, f)
    BY <1>13, <1>t DEF Finish, TypeOK, Idle, Flight, Sends
  <2>3. /\ store' = Update(store, i, SettledRecord(i, store[i], d))
        /\ NewPromise({i} \cap Series)
        /\ UNCHANGED <<used, moves>>
    BY <1>13 DEF Finish
  <2>4. i \notin Series /\ Unmoved(i) => i \in got
    BY <2>2 DEF PromiseInv, ReachedWasGot
  <2>. HIDE DEF i, d
  <2>5. /\ DOMAIN store' = DOMAIN store
        /\ \A k \in DOMAIN store : k # i => store'[k] = store[k]
        /\ i \in DOMAIN store /\ i \notin Series => store'[i].sent
    BY <2>3, <1>t DEF Update, SettledRecord, Retired, TypeOK, Record
  <2>6. /\ \A k \in Id \ Series : plains'[k] = plains[k] /\ (k \in got => k \in got')
        /\ \A k \in Id \ used : plains'[k] = 0
    BY <2>3, <1>u DEF NewPromise
  <2>7. \A k \in (Id \ Series) \cap DOMAIN store' :
            k \in DOMAIN store /\ (Evidence(k) => Evidence(k)')
    BY <2>5 DEF Evidence
  <2>8. \A k \in DOMAIN store' \ Series : store'[k].sent /\ Unmoved(k) => k \in got' \cup Unknown
    BY <1>t, <1>u, <2>4, <2>5, <2>6 DEF TypeOK
  <2>. QED
    BY <1>t, <1>u, <2>1, <2>3, <2>5, <2>6, <2>7, <2>8, PromiseFrame
<1>14. CASE SetQuiet
  BY <1>14, <1>t, <1>u, PromiseFrame DEF SetQuiet, Sends, Evidence, Unmoved, ghosts
<1>15. CASE Tick
  <2>1. \A k \in Id, g \in Fiber :
          Sends(k, g)' => /\ Sends(k, g)
                          /\ fiber'[g].move = fiber[g].move
                          /\ fiber'[g].phase = fiber[g].phase
                          /\ fiber'[g].plain = fiber[g].plain
    <3>1. ASSUME NEW g \in Fiber, fiber'[g] # Idle
          PROVE  /\ fiber[g] \in Flight
                 /\ fiber'[g] = [fiber[g] EXCEPT !.due = Sooner(fiber[g].id, @)]
      BY <1>15, <1>t, <3>1 DEF Tick, TypeOK
    <3>. QED
      BY <3>1 DEF Sends, Flight, Idle
  <2>2. /\ DOMAIN store' = DOMAIN store
        /\ \A k \in DOMAIN store : /\ store'[k].sent = store[k].sent
                                   /\ store'[k].takeover = store[k].takeover
                                   /\ store'[k].claimed = Older(store[k].claimed)
    BY <1>15, <1>t DEF Tick, TypeOK, Record
  <2>3. \A a \in Stamp : a # NoStamp => Older(a) # NoStamp
    BY OldAgeType DEF Stamp, Older
  <2>4. \A k \in DOMAIN store : Evidence(k) => Evidence(k)'
    BY <1>t, <2>2, <2>3 DEF Evidence, TypeOK, Record
  <2>. QED
    BY <1>15, <1>t, <1>u, <2>1, <2>2, <2>4, PromiseFrame DEF Tick, Unmoved, ghosts
<1>16. CASE UNCHANGED vars
  BY <1>16, <1>t, <1>u, PromiseFrame DEF vars, Sends, Evidence, Unmoved
<1>5. ASSUME NEW p \in Proc, NEW i \in Id, NEW d \in Int, Reschedule(p, i, d) PROVE PromiseInv'
  <2>1. /\ i \in DOMAIN store
        /\ moves' = [moves EXCEPT ![i] = @ + 1]
        /\ store' = [store EXCEPT ![i] = Rolled(@, d)]
        /\ got' = got \ {i}
        /\ plains' = [k \in Id |-> IF k \in {i} THEN 0 ELSE plains[k]]
        /\ UNCHANGED <<used, fiber>>
    BY <1>5 DEF Reschedule, Pending, NewPromise
  <2>2. /\ moves'[i] > 0 /\ moves[i] <= moves'[i] /\ ~Unmoved(i)'
        /\ \A k \in Id : k # i => moves'[k] = moves[k]
    BY <2>1, <1>t DEF TypeOK, Unmoved
  <2>3. /\ DOMAIN store' = DOMAIN store
        /\ \A k \in DOMAIN store : k # i => store'[k] = store[k]
    BY <2>1
  <2>4. \A k \in Id, g \in Fiber : Sends(k, g)' <=> Sends(k, g)
    BY <2>1 DEF Sends
  <2>5. UnusedIsBlank'
    BY <2>1, <2>3, <2>4 DEF PromiseInv, UnusedIsBlank
  <2>6. FlightIsOld'
    <3>. SUFFICES ASSUME NEW k \in Id, NEW g \in Fiber, Sends(k, g)
                  PROVE  fiber[g].move <= moves'[k]
      BY <2>1, <2>4 DEF FlightIsOld
    <3>1. fiber[g].move <= moves[k] /\ fiber[g].move \in Nat
      BY <1>t DEF PromiseInv, FlightIsOld, TypeOK, Flight, Sends
    <3>2. moves[k] <= moves'[k] /\ moves[k] \in Nat /\ moves'[k] \in Nat
      <4>1. moves[k] \in Nat /\ moves'[k] \in Nat
        BY <1>t DEF TypeOK
      <4>2. k # i => moves'[k] = moves[k]
        BY <2>2
      <4>. QED
        BY <2>2, <4>1, <4>2
    <3>. QED
      BY <3>1, <3>2
  <2>7. ReachedWasGot'
    BY <2>1, <2>2, <2>4 DEF PromiseInv, ReachedWasGot, Unmoved
  <2>8. OnePlainFlight'
    BY <2>1, <2>2, <2>3, <2>4 DEF PromiseInv, OnePlainFlight, PlainFlight, Unmoved, Evidence
  <2>9. PlainIsEvidenced' /\ OneShotPlainOnce' /\ RetiredWasDelivered'
    BY <2>1, <2>2, <2>3 DEF PromiseInv, PlainIsEvidenced, OneShotPlainOnce, RetiredWasDelivered,
       Unmoved, Evidence
  <2>. QED
    BY <1>t, <2>5, <2>6, <2>7, <2>8, <2>9 DEF PromiseInv
<1>9. ASSUME NEW p \in Proc, NEW i \in Id, NEW f \in Fiber, FireBegin(p, i, f) PROVE PromiseInv'
  <2>1. /\ i \in DOMAIN store /\ ~store[i].sent /\ store[i] \in Record
        /\ fiber[f] = Idle
        /\ store' = [store EXCEPT ![i] = Claimed(@)]
        /\ fiber' = [fiber EXCEPT ![f] =
                   [phase |-> "sending", proc |-> p, id |-> i, due |-> store[i].due,
                    plain |-> ~Claimed(store[i]).takeover, move |-> moves[i]]]
        /\ UNCHANGED <<used, moves, ghosts>>
    BY <1>9, <1>t DEF FireBegin, Claimable, Pending, TypeOK
  <2>2. /\ fiber'[f].phase = "sending" /\ fiber'[f].id = i /\ fiber'[f].move = moves[i]
        /\ fiber'[f].plain = ~Claimed(store[i]).takeover /\ fiber'[f] # Idle
        /\ \A g \in Fiber : g # f => fiber'[g] = fiber[g]
    BY <2>1, <1>t DEF TypeOK, Idle
  <2>3. /\ DOMAIN store' = DOMAIN store
        /\ \A k \in DOMAIN store : k # i => store'[k] = store[k]
        /\ store'[i].claimed # NoStamp /\ ~store'[i].sent
        /\ Claimed(store[i]).takeover = (store[i].takeover \/ store[i].claimed # NoStamp)
    <3>1. store'[i] = Claimed(store[i]) /\ Claimed(store[i]).claimed = 0
      BY <2>1 DEF Claimed, Record
    <3>2. Claimed(store[i]).takeover = (store[i].takeover \/ store[i].claimed # NoStamp)
      BY <2>1 DEF Claimed, Record
    <3>3. Claimed(store[i]).sent = store[i].sent
      BY <2>1 DEF Claimed, Record
    <3>. QED
      BY <2>1, <3>1, <3>2, <3>3
  <2>4. \A k \in DOMAIN store : Evidence(k) => Evidence(k)'
    BY <2>3 DEF Evidence
  <2>5. Evidence(i)'
    BY <2>3 DEF Evidence
  <2>6. fiber'[f].plain => ~Evidence(i)
    BY <2>1, <2>2, <2>3 DEF Evidence
  <2>7. \A k \in Id, g \in Fiber : g # f => (Sends(k, g)' <=> Sends(k, g))
    BY <2>2 DEF Sends
  <2>8. \A k \in Id : Sends(k, f)' => k = i
    BY <2>2 DEF Sends
  <2>9. UnusedIsBlank'
    BY <1>u, <2>1, <2>3, <2>7, <2>8 DEF PromiseInv, UnusedIsBlank, ghosts
  <2>10. FlightIsOld'
    BY <1>t, <2>1, <2>2, <2>7, <2>8 DEF PromiseInv, FlightIsOld, TypeOK
  <2>11. ReachedWasGot'
    BY <2>1, <2>2, <2>7, <2>8 DEF PromiseInv, ReachedWasGot, Unmoved, ghosts
  <2>12. OnePlainFlight'
    <3>. SUFFICES ASSUME NEW k \in Id \ Series, NEW g \in Fiber, NEW h \in Fiber,
                         Unmoved(k), PlainFlight(k, g)'
                  PROVE  /\ PlainFlight(k, h)' => g = h
                         /\ plains[k] = 0
                         /\ k \in DOMAIN store => Evidence(k)'
      BY <2>1, <2>3 DEF OnePlainFlight, Unmoved, ghosts
    <3>1. \A x \in Fiber : x # f => (PlainFlight(k, x)' <=> PlainFlight(k, x))
      BY <2>2, <2>7 DEF PlainFlight
    <3>2. CASE g # f
      <4>1. PlainFlight(k, g)
        BY <3>1, <3>2
      <4>2. plains[k] = 0 /\ (k \in DOMAIN store => Evidence(k))
        BY <4>1 DEF PromiseInv, OnePlainFlight
      <4>3. PlainFlight(k, h)' /\ h # f => g = h
        BY <3>1, <4>1 DEF PromiseInv, OnePlainFlight
      <4>4. ~PlainFlight(k, f)'
        BY <2>1, <2>2, <2>6, <2>8, <4>2 DEF PlainFlight, Sends
      <4>. QED
        BY <2>4, <4>2, <4>3, <4>4
    <3>3. CASE g = f
      <4>1. k = i /\ ~Evidence(k)
        BY <2>6, <2>8, <3>3 DEF PlainFlight
      <4>2. \A x \in Fiber : ~PlainFlight(k, x)
        BY <2>1, <4>1 DEF PromiseInv, OnePlainFlight
      <4>3. plains[k] = 0
        <5>1. k \in DOMAIN store
          BY <2>1, <4>1
        <5>2. plains[k] \in 0 .. 2
          BY <1>t DEF TypeOK
        <5>3. ~(plains[k] > 0)
          BY <4>1, <5>1 DEF PromiseInv, PlainIsEvidenced
        <5>. QED
          BY <5>2, <5>3
      <4>. QED
        BY <2>5, <3>1, <3>3, <4>1, <4>2, <4>3
    <3>. QED
      BY <3>2, <3>3
  <2>13. PlainIsEvidenced'
    BY <2>1, <2>3, <2>4 DEF PromiseInv, PlainIsEvidenced, Unmoved, ghosts
  <2>14. OneShotPlainOnce' /\ RetiredWasDelivered'
    BY <2>1, <2>3 DEF PromiseInv, OneShotPlainOnce, RetiredWasDelivered, Unmoved, ghosts
  <2>. QED
    BY <1>t, <2>9, <2>10, <2>11, <2>12, <2>13, <2>14 DEF PromiseInv
<1>11. ASSUME NEW f \in Fiber, Accept(f) PROVE PromiseInv'
  <2>. DEFINE i == fiber[f].id
  <2>1. fiber[f] \in Flight /\ i \in Id /\ fiber[f].phase = "sending" /\ Sends(i, f)
    BY <1>11, <1>t DEF Accept, TypeOK, Idle, Flight, Sends
  <2>2. /\ fiber' = [fiber EXCEPT ![f].phase = "reached"]
        /\ UNCHANGED <<store, used, moves>>
        /\ got' = IF fiber[f].move = moves[i] THEN got \cup {i} ELSE got
        /\ plains' = IF fiber[f].move = moves[i] /\ fiber[f].plain /\ plains[i] < 2
                     THEN [plains EXCEPT ![i] = @ + 1] ELSE plains
    BY <1>11 DEF Accept
  <2>. HIDE DEF i
  <2>3. /\ fiber'[f] = [fiber[f] EXCEPT !.phase = "reached"]
        /\ \A g \in Fiber : g # f => fiber'[g] = fiber[g]
    BY <2>2, <1>t DEF TypeOK
  <2>4. /\ fiber'[f].phase = "reached" /\ fiber'[f].id = fiber[f].id
        /\ fiber'[f].move = fiber[f].move /\ fiber'[f] # Idle
    BY <2>1, <2>3 DEF Flight, Idle
  <2>5. \A k \in Id, g \in Fiber : Sends(k, g)' <=> Sends(k, g)
    BY <2>1, <2>3, <2>4 DEF Sends, Idle
  <2>6. \A k \in Id : Sends(k, f) => k = i
    BY <2>1 DEF Sends
  <2>7. \A k \in Id : k # i => plains'[k] = plains[k]
    BY <2>2
  <2>8. Unmoved(i) => fiber[f].move = moves[i]
    BY <1>t, <2>1 DEF PromiseInv, FlightIsOld, TypeOK, Flight, Unmoved
  <2>9. UnusedIsBlank'
    BY <2>1, <2>2, <2>5, <2>7 DEF PromiseInv, UnusedIsBlank
  <2>10. FlightIsOld'
    BY <2>2, <2>3, <2>4, <2>5 DEF PromiseInv, FlightIsOld
  <2>11. ReachedWasGot'
    <3>. SUFFICES ASSUME NEW k \in Id \ Series, NEW g \in Fiber,
                         Unmoved(k), Sends(k, g), fiber'[g].phase = "reached"
                  PROVE  k \in got'
      BY <2>2, <2>5 DEF ReachedWasGot, Unmoved
    <3>1. CASE g = f
      BY <2>2, <2>6, <2>8, <3>1
    <3>2. CASE g # f
      BY <2>2, <2>3, <3>2 DEF PromiseInv, ReachedWasGot
    <3>. QED
      BY <3>1, <3>2
  <2>12. \A k \in Id, g \in Fiber : PlainFlight(k, g)' => PlainFlight(k, g) /\ g # f
    BY <2>3, <2>4, <2>5 DEF PlainFlight
  <2>13. i \notin Series /\ Unmoved(i) /\ fiber[f].plain => PlainFlight(i, f)
    BY <2>1 DEF PlainFlight
  <2>14. OnePlainFlight'
    <3>. SUFFICES ASSUME NEW k \in Id \ Series, NEW g \in Fiber, NEW h \in Fiber,
                         Unmoved(k), PlainFlight(k, g)'
                  PROVE  /\ PlainFlight(k, h)' => g = h
                         /\ plains'[k] = 0
                         /\ k \in DOMAIN store => Evidence(k)
      BY <2>2 DEF OnePlainFlight, Unmoved, Evidence
    <3>1. PlainFlight(k, g) /\ g # f
      BY <2>12
    <3>2. plains[k] = 0 /\ (k \in DOMAIN store => Evidence(k))
      BY <3>1 DEF PromiseInv, OnePlainFlight
    <3>3. PlainFlight(k, h)' => g = h
      BY <2>12, <3>1 DEF PromiseInv, OnePlainFlight
    <3>4. plains'[k] = 0
      <4>1. CASE k # i
        BY <2>7, <3>2, <4>1
      <4>2. CASE k = i
        BY <2>2, <2>13, <3>1, <3>2, <4>2 DEF PromiseInv, OnePlainFlight
      <4>. QED
        BY <4>1, <4>2
    <3>. QED
      BY <3>2, <3>3, <3>4
  <2>15. i \notin Series /\ Unmoved(i) =>
            /\ plains'[i] <= 1
            /\ plains'[i] > 0 /\ i \in DOMAIN store => Evidence(i)
    <3>. SUFFICES ASSUME i \notin Series, Unmoved(i)
                  PROVE  /\ plains'[i] <= 1
                         /\ plains'[i] > 0 /\ i \in DOMAIN store => Evidence(i)
      OBVIOUS
    <3>1. CASE fiber[f].plain
      <4>1. plains[i] = 0 /\ (i \in DOMAIN store => Evidence(i))
        BY <2>1, <2>13, <3>1 DEF PromiseInv, OnePlainFlight
      <4>2. plains'[i] = 0 \/ plains'[i] = 1
        BY <2>1, <2>2, <4>1, <1>t DEF TypeOK
      <4>. QED
        BY <4>1, <4>2
    <3>2. CASE ~fiber[f].plain
      BY <2>1, <2>2, <3>2 DEF PromiseInv, OneShotPlainOnce, PlainIsEvidenced
    <3>. QED
      BY <3>1, <3>2
  <2>16. PlainIsEvidenced' /\ OneShotPlainOnce'
    BY <2>2, <2>7, <2>15 DEF PromiseInv, PlainIsEvidenced, OneShotPlainOnce, Unmoved, Evidence
  <2>17. RetiredWasDelivered'
    BY <2>2 DEF PromiseInv, RetiredWasDelivered, Unmoved
  <2>. QED
    BY <1>t, <2>9, <2>10, <2>11, <2>14, <2>16, <2>17 DEF PromiseInv
<1>17. Ahead \subseteq Int
  BY RemindersAssumption
<1>. QED
  BY <1>1, <1>2, <1>3, <1>4, <1>5, <1>6, <1>8, <1>9, <1>10, <1>11, <1>12, <1>13,
     <1>14, <1>15, <1>16, <1>17 DEF Next, Converse, Fire, Create, Snooze

(* The invariant of every execution: a plain copy that is on its way or    *)
(* arrived is evidenced by the record of its one-shot.                     *)
THEOREM PromiseInvariant == Spec => []PromiseInv
<1>. QED
  BY PromiseInit, PromiseStep, PTL DEF Spec

(* The chat gets at most one copy of a one-shot reminder without the "may  *)
(* be a repeat" label: across crashes, overlapping processes, raised sends *)
(* and quiet hours, as long as the user does not move the reminder.        *)
THEOREM PlainAtMostOnce == Spec => []OneShotPlainOnce
<1>. QED
  BY PromiseInvariant, PTL DEF PromiseInv

(* A one-shot is retired only after a copy reached the chat (or its chat   *)
(* is one the channel does not deliver to): no promise is lost.            *)
THEOREM DeliveredAtLeastOnce == Spec => []RetiredWasDelivered
<1>. QED
  BY PromiseInvariant, PTL DEF PromiseInv
-----------------------------------------------------------------------------
(* The doubt that an earlier copy may have arrived is sticky.              *)

LEMMA DoubtStep == TypeOK /\ UnusedIsBlank /\ [Next]_vars => [DoubtKept]_vars
<1>. SUFFICES ASSUME TypeOK, UnusedIsBlank, [Next]_vars PROVE [DoubtKept]_vars
  OBVIOUS
<1>t. \A i \in DOMAIN store : store[i] \in Record
  BY DEF TypeOK
<1>1. ASSUME NEW p \in Proc, Start(p) PROVE DoubtKept
  BY <1>1 DEF Start, ScheduledRecord, DoubtKept, Doubt
<1>2. ASSUME NEW p \in Proc, Crash(p) PROVE DoubtKept
  BY <1>2 DEF Crash, DoubtKept, Doubt
<1>3. ASSUME NEW p \in Proc, NEW i \in Id, NEW d \in Int, CreateAs(p, i, d) PROVE DoubtKept
  <2>1. \A k \in DOMAIN store : store'[k] = store[k]
    BY <1>3 DEF CreateAs, Added, UnusedIsBlank
  <2>. QED
    BY <2>1 DEF DoubtKept, Doubt
<1>4. ASSUME NEW p \in Proc, NEW i \in Id, Cancel(p, i) PROVE DoubtKept
  BY <1>4 DEF Cancel, Without, DoubtKept, Doubt
<1>5. ASSUME NEW p \in Proc, NEW i \in Id, NEW d \in Int, Reschedule(p, i, d) PROVE DoubtKept
  <2>1. ~Unmoved(i)'
    BY <1>5 DEF Reschedule, TypeOK, Unmoved
  <2>2. \A k \in DOMAIN store : k # i => store'[k] = store[k]
    BY <1>5 DEF Reschedule
  <2>. QED
    BY <2>1, <2>2 DEF DoubtKept, Doubt
<1>6. ASSUME NEW p \in Proc, NEW i \in Id, FireSkip(p, i) \/ FireDefer(p, i) PROVE DoubtKept
  BY <1>6 DEF FireSkip, FireDefer, DoubtKept, Doubt
<1>7. ASSUME NEW i \in Id,
             \/ store' = [store EXCEPT ![i] = Claimed(@)]
             \/ store' = [store EXCEPT ![i] = Released(Claimed(@))]
             \/ store' = [store EXCEPT ![i] = SettledRecord(i, Claimed(@), @.due)]
             \/ \E d \in Int : store' = Update(store, i, SettledRecord(i, store[i], d))
      PROVE  DoubtKept
  <2>1. \A r \in Record : r.takeover => /\ Claimed(r).takeover
                                       /\ Released(Claimed(r)).takeover
                                       /\ Retired(r).takeover
                                       /\ Retired(Claimed(r)).takeover
    BY DEF Claimed, Released, Retired, Record
  <2>2. \A k \in DOMAIN store : k # i => store'[k] = store[k]
    BY <1>7 DEF Update
  <2>3. i \in DOMAIN store /\ i \notin Series /\ store[i].takeover => store'[i].takeover
    BY <1>7, <1>t, <2>1 DEF Update, SettledRecord
  <2>. QED
    BY <2>2, <2>3 DEF DoubtKept, Doubt
<1>8. ASSUME NEW p \in Proc, NEW i \in Id, FireQuiet(p, i) PROVE DoubtKept
  BY <1>7, <1>8 DEF FireQuiet
<1>9. ASSUME NEW p \in Proc, NEW i \in Id, NEW f \in Fiber, FireBegin(p, i, f) PROVE DoubtKept
  BY <1>7, <1>9 DEF FireBegin
<1>10. ASSUME NEW p \in Proc, NEW i \in Id, FireWithheld(p, i) PROVE DoubtKept
  BY <1>7, <1>10 DEF FireWithheld
<1>11. ASSUME NEW f \in Fiber, Accept(f) \/ Raise(f) PROVE DoubtKept
  BY <1>11 DEF Accept, Raise, DoubtKept, Doubt
<1>13. ASSUME NEW f \in Fiber, Finish(f) PROVE DoubtKept
  <2>1. fiber[f].id \in Id /\ fiber[f].due \in Int
    BY <1>13 DEF Finish, TypeOK, Idle, Flight
  <2>. QED
    BY <1>7, <1>13, <2>1 DEF Finish
<1>14. CASE SetQuiet
  BY <1>14 DEF SetQuiet, DoubtKept, Doubt
<1>15. CASE Tick
  <2>1. \A k \in DOMAIN store : store'[k].takeover = store[k].takeover
    BY <1>15, <1>t DEF Tick, Record
  <2>. QED
    BY <2>1 DEF DoubtKept, Doubt
<1>17. Ahead \subseteq Int
  BY RemindersAssumption
<1>. QED
  BY <1>1, <1>2, <1>3, <1>4, <1>5, <1>6, <1>8, <1>9, <1>10, <1>11, <1>13,
     <1>14, <1>15, <1>17 DEF Next, Converse, Fire, Create, Snooze

(* Once delivery of a one-shot is in doubt, nothing but the user moving    *)
(* the reminder makes the record forget it.                                *)
THEOREM DoubtIsSticky == Spec => OneShotStickyDoubt
<1>1. PromiseInv => TypeOK /\ UnusedIsBlank
  BY DEF PromiseInv
<1>. QED
  BY <1>1, PromiseInvariant, DoubtStep, PTL DEF Spec, OneShotStickyDoubt
-----------------------------------------------------------------------------
(* A running process keeps a timer for every reminder it watches.          *)

LEMMA PlusKeeps ==
  ASSUME NEW q \in Queue, NEW i \in Id, NEW d \in Int, NEW k \in Id, NEW x \in Delay
  PROVE  Plus(q, i, d)[k][x] >= q[k][x]
<1>1. q[k] \in [Delay -> Nat] /\ q[i] \in [Delay -> Nat]
  BY DEF Queue
<1>2. Plus(q, i, d) = [q EXCEPT ![i] = [q[i] EXCEPT ![SoonIn(d)] = @ + 1]]
  BY DEF Plus
<1>3. CASE k = i
  <2>1. Plus(q, i, d)[i] = [q[i] EXCEPT ![SoonIn(d)] = @ + 1]
    BY <1>2 DEF Queue
  <2>. QED
    BY <1>1, <1>3, <2>1
<1>4. CASE k # i
  BY <1>1, <1>2, <1>4 DEF Queue
<1>. QED
  BY <1>3, <1>4

LEMMA PlusAdds ==
  ASSUME NEW q \in Queue, NEW i \in Id, NEW d \in Int, d <= Horizon
  PROVE  \E x \in Delay : Plus(q, i, d)[i][x] > 0
<1>1. SoonIn(d) \in Delay
  BY DelayZero DEF SoonIn, Delay
<1>2. q[i] \in [Delay -> Nat]
  BY DEF Queue
<1>3. Plus(q, i, d)[i] = [q[i] EXCEPT ![SoonIn(d)] = @ + 1]
  BY DEF Plus, Queue
<1>4. Plus(q, i, d)[i][SoonIn(d)] > 0
  BY <1>1, <1>2, <1>3
<1>. QED
  BY <1>1, <1>4

LEMMA NearerKeeps ==
  ASSUME NEW t \in [Delay -> Nat], NEW d \in Delay, t[d] > 0
  PROVE  \E x \in Delay : Nearer(t)[x] > 0
<1>1. CASE d <= 1
  <2>1. 0 \in Delay /\ 1 \in Delay /\ t[0] \in Nat /\ t[1] \in Nat
    BY DelayZero DEF Delay
  <2>2. d = 0 \/ d = 1
    BY <1>1 DEF Delay
  <2>3. Nearer(t)[0] = t[0] + t[1]
    BY <2>1, DelayZero DEF Nearer
  <2>. QED
    BY <2>1, <2>2, <2>3
<1>2. CASE d > 1
  <2>1. d - 1 \in Delay /\ d - 1 # 0 /\ d - 1 # Horizon
    BY <1>2, DelayZero DEF Delay
  <2>2. Nearer(t)[d - 1] = t[(d - 1) + 1]
    BY <2>1 DEF Nearer
  <2>3. (d - 1) + 1 = d
    BY DEF Delay
  <2>. QED
    BY <2>1, <2>2, <2>3
<1>. QED
  BY <1>1, <1>2 DEF Delay

(* Adding a job to some queue takes none from another timer.               *)
LEMMA PlusLeaves ==
  ASSUME TypeOK, NEW q \in Proc, NEW k \in Id, NEW d \in Int, NEW Q \in Queue,
         jobs' = [jobs EXCEPT ![q] = Plus(Q, k, d)],
         NEW p \in Proc, NEW i \in Id,
         q = p => \A x \in Delay : Q[i][x] = jobs[p][i][x],
         NEW y \in Delay, jobs[p][i][y] > 0
  PROVE  jobs'[p][i][y] > 0
<1>1. jobs[p][i][y] \in Nat
  BY DEF TypeOK
<1>2. CASE q = p
  <2>1. jobs'[p] = Plus(Q, k, d)
    BY <1>2 DEF TypeOK
  <2>2. Plus(Q, k, d)[i][y] >= Q[i][y]
    BY PlusKeeps
  <2>3. Plus(Q, k, d)[i][y] \in Nat
    BY PlusType DEF Queue
  <2>. QED
    BY <1>1, <1>2, <2>1, <2>2, <2>3
<1>3. CASE q # p
  BY <1>3 DEF TypeOK
<1>. QED
  BY <1>2, <1>3

(* A step in which p's fibers stay and its queue loses nothing of i.       *)
LEMMA WatchFrame ==
  ASSUME NEW p \in Proc, NEW i \in Id, Watches(p, i),
         \A f \in Fiber : Sends(i, f) /\ fiber[f].proc = p =>
             Sends(i, f)' /\ fiber'[f].proc = p,
         \A d \in Delay : jobs[p][i][d] > 0 => jobs'[p][i][d] > 0
  PROVE  Watches(p, i)'
BY DEF Watches

LEMMA ConsumedKeeps ==
  ASSUME TypeOK, NEW p \in Proc, NEW i \in Id, Run(p, i), NEW k \in Id, k # i, NEW x \in Delay
  PROVE  Consumed(p, i)[k][x] = jobs[p][k][x]
BY DEF Consumed, TypeOK

LEMMA WatchStep == TypeOK /\ [Next]_vars => [WatchKept]_vars
<1>. SUFFICES ASSUME TypeOK, Next PROVE WatchKept
  OBVIOUS
<1>. SUFFICES ASSUME NEW p \in Proc, NEW i \in Id,
                     up[p], up'[p], Watches(p, i), Pending(i)'
              PROVE  Watches(p, i)'
  BY DEF WatchKept
<1>q. \A q \in Proc : jobs[q] \in Queue
  BY DEF TypeOK, Queue
<1>n. \A k \in Id, d \in Delay : jobs[p][k][d] \in Nat
  BY DEF TypeOK
<1>1. ASSUME NEW q \in Proc, Start(q) PROVE Watches(p, i)'
  BY <1>1, WatchFrame DEF Start, TypeOK, Sends
<1>2. ASSUME NEW q \in Proc, Crash(q) PROVE Watches(p, i)'
  <2>1. p # q /\ jobs'[p] = jobs[p]
    BY <1>2 DEF Crash, TypeOK
  <2>. QED
    BY <1>2, <2>1, WatchFrame DEF Crash, Sends
<1>3. ASSUME NEW q \in Proc, NEW k \in Id, NEW d \in Int, CreateAs(q, k, d) PROVE Watches(p, i)'
  <2>. DEFINE r == ScheduledRecord(k, NewRecord(d))
  <2>1. r.due \in Int
    BY NewType, ScheduledType DEF Record
  <2>2. jobs' = [jobs EXCEPT ![q] = Plus(jobs[q], k, r.due)] /\ UNCHANGED fiber
    BY <1>3 DEF CreateAs, Schedule
  <2>. HIDE DEF r
  <2>3. \A x \in Delay : jobs[p][i][x] > 0 => jobs'[p][i][x] > 0
    BY <1>q, <2>1, <2>2, PlusLeaves
  <2>. QED
    BY <2>2, <2>3, WatchFrame DEF Sends
<1>4. ASSUME NEW q \in Proc, NEW k \in Id, Cancel(q, k) PROVE Watches(p, i)'
  <2>1. k # i
    BY <1>4 DEF Cancel, Without, Pending
  <2>2. jobs'[p][i] = jobs[p][i] /\ UNCHANGED fiber
    BY <1>4, <2>1 DEF Cancel, Gone, TypeOK
  <2>. QED
    BY <2>2, WatchFrame DEF Sends
<1>5. ASSUME NEW q \in Proc, NEW k \in Id, NEW d \in Ahead, Reschedule(q, k, d) PROVE Watches(p, i)'
  <2>1. jobs' = [jobs EXCEPT ![q] = Only(jobs[q], k, d)] /\ UNCHANGED fiber
    BY <1>5 DEF Reschedule
  <2>2. CASE q = p /\ k = i
    <3>1. SoonIn(d) \in Delay
      BY RemindersAssumption DEF SoonIn, Delay
    <3>2. jobs'[p][i] = [x \in Delay |-> IF x = SoonIn(d) THEN 1 ELSE 0]
      BY <2>1, <2>2 DEF Only, TypeOK
    <3>3. jobs'[p][i][SoonIn(d)] > 0
      BY <3>1, <3>2
    <3>. QED
      BY <3>1, <3>3 DEF Watches
  <2>3. CASE ~(q = p /\ k = i)
    <3>1. jobs'[p][i] = jobs[p][i]
      BY <2>1, <2>3 DEF Only, TypeOK
    <3>. QED
      BY <2>1, <3>1, WatchFrame DEF Sends
  <2>. QED
    BY <2>2, <2>3
<1>6. ASSUME NEW q \in Proc, NEW k \in Id, Run(q, k), q # p \/ k # i,
             \/ jobs' = [jobs EXCEPT ![q] = Consumed(q, k)]
             \/ \E d \in Int : jobs' = [jobs EXCEPT ![q] = Plus(Consumed(q, k), k, d)],
             \A f \in Fiber : fiber[f] # Idle => fiber'[f] = fiber[f]
      PROVE  Watches(p, i)'
  <2>1. \A f \in Fiber : Sends(i, f) => fiber'[f] = fiber[f]
    BY <1>6 DEF Sends
  <2>2. CASE q # p
    <3>1. jobs'[p] = jobs[p]
      BY <1>6, <2>2 DEF TypeOK
    <3>. QED
      BY <2>1, <3>1, WatchFrame DEF Sends
  <2>3. CASE q = p /\ k # i
    <3>1. Consumed(p, k) \in Queue /\ \A x \in Delay : Consumed(p, k)[i][x] = jobs[p][i][x]
      BY <1>6, <2>3, ConsumedType, ConsumedKeeps
    <3>2. CASE jobs' = [jobs EXCEPT ![q] = Consumed(q, k)]
      <4>1. \A x \in Delay : jobs'[p][i][x] = jobs[p][i][x]
        BY <2>3, <3>1, <3>2 DEF TypeOK
      <4>. QED
        BY <2>1, <4>1, WatchFrame DEF Sends
    <3>3. ASSUME NEW d \in Int, jobs' = [jobs EXCEPT ![q] = Plus(Consumed(q, k), k, d)]
          PROVE  Watches(p, i)'
      <4>. DEFINE Q == Consumed(p, k)
      <4>1. Q \in Queue /\ \A x \in Delay : Q[i][x] = jobs[p][i][x]
        BY <3>1
      <4>3. jobs' = [jobs EXCEPT ![p] = Plus(Q, k, d)]
        BY <2>3, <3>3
      <4>. HIDE DEF Q
      <4>2. ASSUME NEW y \in Delay, jobs[p][i][y] > 0 PROVE jobs'[p][i][y] > 0
        <5>1. jobs'[p] = Plus(Q, k, d)
          BY <4>3 DEF TypeOK
        <5>2. Plus(Q, k, d)[i][y] >= Q[i][y]
          BY <4>1, PlusKeeps
        <5>4. Plus(Q, k, d) \in Queue
          BY <4>1, PlusType
        <5>5. Plus(Q, k, d)[i][y] \in Nat
          BY <5>4 DEF Queue
        <5>3. jobs[p][i][y] \in Nat /\ Q[i][y] = jobs[p][i][y]
          BY <1>n, <4>1
        <5>. QED
          BY <4>2, <5>1, <5>2, <5>3, <5>5
      <4>. QED
        BY <2>1, <4>2, WatchFrame DEF Sends
    <3>. QED
      BY <1>6, <3>2, <3>3
  <2>. QED
    BY <1>6, <2>2, <2>3
<1>7. ASSUME NEW q \in Proc, NEW k \in Id, FireSkip(q, k) PROVE Watches(p, i)'
  <2>1. k # i
    BY <1>7 DEF FireSkip, Pending
  <2>. QED
    BY <1>6, <1>7, <2>1 DEF FireSkip
<1>8. ASSUME NEW q \in Proc, NEW k \in Id, NEW d \in 1 .. Horizon, Run(q, k), Requeue(q, k, d),
             UNCHANGED fiber
      PROVE  Watches(p, i)'
  <2>1. CASE q = p /\ k = i
    <3>1. Consumed(p, i) \in Queue
      BY <1>8, <2>1, ConsumedType
    <3>2. \E x \in Delay : Plus(Consumed(p, i), i, d)[i][x] > 0
      BY <3>1, PlusAdds
    <3>3. jobs'[p] = Plus(Consumed(p, i), i, d)
      BY <1>8, <2>1 DEF Requeue, TypeOK
    <3>. QED
      BY <3>2, <3>3 DEF Watches
  <2>2. CASE ~(q = p /\ k = i)
    <3>1. d \in Int /\ jobs' = [jobs EXCEPT ![q] = Plus(Consumed(q, k), k, d)]
      BY <1>8 DEF Requeue
    <3>. QED
      BY <1>6, <1>8, <2>2, <3>1
  <2>. QED
    BY <2>1, <2>2
<1>9. ASSUME NEW q \in Proc, NEW k \in Id, FireDefer(q, k) \/ FireQuiet(q, k) PROVE Watches(p, i)'
  BY <1>8, <1>9, RemindersAssumption DEF FireDefer, FireQuiet
<1>10. ASSUME NEW q \in Proc, NEW k \in Id, NEW f \in Fiber, FireBegin(q, k, f) PROVE Watches(p, i)'
  <2>1. CASE q = p /\ k = i
    <3>1. Sends(i, f)' /\ fiber'[f].proc = p
      BY <1>10, <2>1 DEF FireBegin, Sends, TypeOK, Idle
    <3>. QED
      BY <3>1 DEF Watches
  <2>2. CASE ~(q = p /\ k = i)
    <3>1. \A g \in Fiber : fiber[g] # Idle => fiber'[g] = fiber[g]
      BY <1>10 DEF FireBegin
    <3>. QED
      BY <1>6, <1>10, <2>2, <3>1 DEF FireBegin
  <2>. QED
    BY <2>1, <2>2
<1>11. ASSUME NEW q \in Proc, NEW k \in Id, FireWithheld(q, k) PROVE Watches(p, i)'
  <2>1. store[k] \in Record /\ store[k].due \in Int /\ NextDue(store[k].due) \in Int
    BY <1>11, NextDueType DEF FireWithheld, Claimable, Pending, TypeOK, Record
  <2>2. CASE k \in Series /\ q = p /\ k = i
    <3>1. Consumed(p, i) \in Queue
      BY <1>11, <2>2, ConsumedType DEF FireWithheld
    <3>2. jobs'[p] = Plus(Consumed(p, i), i, NextDue(store[i].due))
      BY <1>11, <2>2 DEF FireWithheld, SettledQueue, TypeOK
    <3>3. NextDue(store[i].due) <= Horizon
      BY <1>11, <2>2 DEF FireWithheld
    <3>. QED
      BY <2>1, <2>2, <3>1, <3>2, <3>3, PlusAdds DEF Watches
  <2>3. CASE k \notin Series /\ k = i
    <3>1. store'[i].sent
      BY <1>11, <2>1, <2>3 DEF FireWithheld, SettledRecord, Retired, Claimed, Record, Claimable, Pending
    <3>. QED
      BY <3>1 DEF Pending
  <2>4. CASE ~(q = p /\ k = i)
    BY <1>6, <1>11, <2>1, <2>4 DEF FireWithheld, SettledQueue
  <2>. QED
    BY <2>2, <2>3, <2>4
<1>12. ASSUME NEW f \in Fiber, Accept(f) PROVE Watches(p, i)'
  <2>1. \A g \in Fiber : Sends(i, g) /\ fiber[g].proc = p => Sends(i, g)' /\ fiber'[g].proc = p
    BY <1>12 DEF Accept, Sends, TypeOK, Flight, Idle
  <2>. QED
    BY <1>12, <2>1, WatchFrame DEF Accept
<1>13. ASSUME NEW f \in Fiber, NEW d \in Int, d <= Horizon, fiber[f] \in Flight,
              fiber' = [fiber EXCEPT ![f] = Idle],
              jobs' = [jobs EXCEPT ![fiber[f].proc] = Plus(@, fiber[f].id, d)]
       PROVE  Watches(p, i)'
  <2>. DEFINE q == fiber[f].proc  k == fiber[f].id
  <2>1. q \in Proc /\ k \in Id
    BY <1>13 DEF Flight
  <2>2. jobs' = [jobs EXCEPT ![q] = Plus(jobs[q], k, d)]
    BY <1>13
  <2>3. CASE q = p /\ k = i
    <3>1. jobs'[p] = Plus(jobs[p], i, d)
      BY <2>2, <2>3 DEF TypeOK
    <3>2. \E x \in Delay : Plus(jobs[p], i, d)[i][x] > 0
      BY <1>13, <1>q, PlusAdds
    <3>. QED
      BY <3>1, <3>2 DEF Watches
  <2>4. CASE ~(q = p /\ k = i)
    <3>1. \A g \in Fiber : Sends(i, g) /\ fiber[g].proc = p => Sends(i, g)' /\ fiber'[g].proc = p
      BY <1>13, <2>4 DEF Sends, TypeOK
    <3>2. \A x \in Delay : jobs[p][i][x] > 0 => jobs'[p][i][x] > 0
      BY <1>q, <2>1, <2>2, PlusLeaves
    <3>. QED
      BY <3>1, <3>2, WatchFrame
  <2>. QED
    BY <2>3, <2>4
<1>14. ASSUME NEW f \in Fiber, Raise(f) PROVE Watches(p, i)'
  <2>1. fiber[f] \in Flight
    BY <1>14 DEF Raise, TypeOK, Idle
  <2>2. Retry \in Int /\ Retry <= Horizon
    BY RemindersAssumption
  <2>3. fiber' = [fiber EXCEPT ![f] = Idle]
    BY <1>14 DEF Raise
  <2>4. jobs' = [jobs EXCEPT ![fiber[f].proc] = Plus(@, fiber[f].id, Retry)]
    BY <1>14, <2>1 DEF Raise, Schedule, TypeOK, Flight
  <2>. QED
    BY <1>13, <2>1, <2>2, <2>3, <2>4
<1>15. ASSUME NEW f \in Fiber, Finish(f) PROVE Watches(p, i)'
  <2>1. fiber[f] \in Flight
    BY <1>15 DEF Finish, TypeOK, Idle
  <2>. DEFINE k == fiber[f].id  d == fiber[f].due
  <2>2. k \in Id /\ d \in Int /\ NextDue(d) \in Int
    BY <2>1, NextDueType DEF Flight
  <2>3. CASE k \in Series
    <3>1. /\ NextDue(d) <= Horizon
          /\ fiber' = [fiber EXCEPT ![f] = Idle]
          /\ jobs' = [jobs EXCEPT ![fiber[f].proc] = Plus(@, fiber[f].id, NextDue(d))]
      BY <1>15, <2>1, <2>3 DEF Finish, SettledQueue, TypeOK, Flight
    <3>. QED
      BY <1>13, <2>1, <2>2, <3>1
  <2>4. CASE k \notin Series /\ k = i
    <3>1. ~Pending(i)'
      BY <1>15, <2>2, <2>4 DEF Finish, Update, SettledRecord, Retired, Pending, TypeOK, Record
    <3>. QED
      BY <3>1
  <2>5. CASE k \notin Series /\ k # i
    <3>1. jobs' = jobs
      BY <1>15, <2>1, <2>5 DEF Finish, SettledQueue, TypeOK, Flight
    <3>2. \A g \in Fiber : Sends(i, g) => fiber'[g] = fiber[g]
      BY <1>15, <2>5 DEF Finish, Sends, TypeOK
    <3>. QED
      BY <3>1, <3>2, WatchFrame DEF Sends
  <2>. QED
    BY <2>3, <2>4, <2>5
<1>16. CASE SetQuiet
  BY <1>16, WatchFrame DEF SetQuiet, Sends
<1>17. CASE Tick
  <2>1. ASSUME NEW d \in Delay, jobs[p][i][d] > 0 PROVE Watches(p, i)'
    <3>1. jobs'[p][i] = Nearer(jobs[p][i]) /\ jobs[p][i] \in [Delay -> Nat]
      BY <1>17 DEF Tick, TypeOK
    <3>. QED
      BY <2>1, <3>1, NearerKeeps DEF Watches
  <2>2. ASSUME NEW f \in Fiber, Sends(i, f), fiber[f].proc = p PROVE Watches(p, i)'
    <3>1. Sends(i, f)' /\ fiber'[f].proc = p
      BY <1>17, <2>2 DEF Tick, Sends, TypeOK, Flight, Idle
    <3>. QED
      BY <3>1 DEF Watches
  <2>. QED
    BY <2>1, <2>2 DEF Watches
<1>18. Ahead \subseteq Int
  BY RemindersAssumption
<1>. QED
  BY <1>1, <1>2, <1>3, <1>4, <1>5, <1>7, <1>9, <1>10, <1>11, <1>12, <1>14, <1>15,
     <1>16, <1>17, <1>18 DEF Next, Converse, Fire, Create, Snooze

(* No step of a running process leaves a reminder it still owes without a  *)
(* job or a send that will come back to it.                                *)
THEOREM NothingStranded == Spec => KeepsWatch
<1>. QED
  BY TypeCorrect, WatchStep, PTL DEF Spec, KeepsWatch

(* Nothing a running process owes is dropped, and no doubt forgotten.      *)
THEOREM NothingIsDropped == Spec => NothingDropped
<1>. QED
  BY NothingStranded, DoubtIsSticky DEF NothingDropped
-----------------------------------------------------------------------------
(* Reminders implements Delivery.                                          *)

(* An id that was never created was never moved either.                    *)
Fresh == \A i \in Id \ used : moves[i] = 0

LEMMA FreshInit == Init => Fresh
BY DEF Init, Fresh

LEMMA FreshStep == TypeOK /\ UnusedIsBlank /\ Fresh /\ [Next]_vars => Fresh'
<1>. SUFFICES ASSUME TypeOK, UnusedIsBlank, Fresh, [Next]_vars PROVE Fresh'
  OBVIOUS
<1>1. ASSUME NEW p \in Proc, NEW i \in Id, NEW d \in Ahead, Reschedule(p, i, d) PROVE Fresh'
  BY <1>1 DEF Reschedule, Pending, UnusedIsBlank, Fresh, TypeOK
<1>2. ASSUME UNCHANGED moves, used \subseteq used' PROVE Fresh'
  BY <1>2 DEF Fresh
<1>3. ASSUME NEW p \in Proc, Start(p) \/ Crash(p) PROVE Fresh'
  BY <1>2, <1>3 DEF Start, Crash
<1>4. ASSUME NEW p \in Proc, NEW i \in Id, NEW d, CreateAs(p, i, d) PROVE Fresh'
  BY <1>2, <1>4 DEF CreateAs
<1>5. ASSUME NEW p \in Proc, NEW i \in Id, Cancel(p, i) PROVE Fresh'
  BY <1>2, <1>5 DEF Cancel
<1>6. ASSUME NEW p \in Proc, NEW i \in Id, Fire(p, i) PROVE Fresh'
  BY <1>2, <1>6 DEF Fire, FireSkip, FireDefer, FireQuiet, FireWithheld, FireBegin
<1>7. ASSUME NEW f \in Fiber, Accept(f) \/ Raise(f) \/ Finish(f) PROVE Fresh'
  BY <1>2, <1>7 DEF Accept, Raise, Finish
<1>8. CASE SetQuiet \/ Tick \/ UNCHANGED vars
  BY <1>2, <1>8 DEF SetQuiet, Tick, vars
<1>. QED
  BY <1>1, <1>3, <1>4, <1>5, <1>6, <1>7, <1>8 DEF Next, Converse, Create, Snooze

(* What Delivery sees of one promise, and the steps it allows on it.       *)
Told(i)   == i \in got /\ Unmoved(i)
Copies(i) == IF Unmoved(i) THEN plains[i] ELSE 0

Same(i) == Fate(i)' = Fate(i) /\ (Told(i)' <=> Told(i)) /\ Copies(i)' = Copies(i)

Turns(i, from, to) ==
    Fate(i) = from /\ Fate(i)' = to /\ (Told(i)' <=> Told(i)) /\ Copies(i)' = Copies(i)

Telling(i) ==
    /\ Fate(i)' = Fate(i) /\ Fate(i) \in {"open", "kept", "dropped"}
    /\ Told(i)'
    /\ Copies(i)' = Copies(i) \/ (Copies(i) = 0 /\ Copies(i)' = 1)

Moving(i) == Fate(i) = "open" /\ Fate(i)' = "moved" /\ ~Told(i)' /\ Copies(i)' = 0

LEMMA OthersSame ==
  ASSUME TypeOK, TypeOK', NEW i \in Id \ Series,
         \A k \in Id \ Series : k # i => Same(k),
         \/ Same(i) \/ Telling(i) \/ Moving(i)
         \/ Turns(i, "none", "open")
         \/ Turns(i, "open", "kept") /\ (Told(i) \/ i \in Unknown)
         \/ Turns(i, "open", "dropped")
  PROVE  [D!DeliveryNext]_(D!deliveryVars)
<1>. DEFINE P == Id \ Series
            S == [k \in P |-> Fate(k)]
            T == {k \in got \ Series : Unmoved(k)}
            C == [k \in P |-> IF Unmoved(k) THEN plains[k] ELSE 0]
<1>1. /\ \A k \in P : S[k] = Fate(k) /\ S'[k] = Fate(k)'
      /\ \A k \in P : C[k] = Copies(k) /\ C'[k] = Copies(k)'
      /\ \A k \in P : (k \in T <=> Told(k)) /\ (k \in T' <=> Told(k)')
      /\ T \subseteq P /\ T' \subseteq P
  BY DEF Copies, Told, TypeOK
<1>2. /\ S = [k \in P |-> S[k]] /\ S' = [k \in P |-> S'[k]]
      /\ C = [k \in P |-> C[k]] /\ C' = [k \in P |-> C'[k]]
  OBVIOUS
<1>3. /\ \A k \in P : k # i => S'[k] = S[k] /\ C'[k] = C[k] /\ (k \in T' <=> k \in T)
  BY <1>1 DEF Same
<1>4. ASSUME NEW v, S'[i] = v PROVE S' = [S EXCEPT ![i] = v]
  BY <1>2, <1>3, <1>4
<1>5. ASSUME NEW v, C'[i] = v PROVE C' = [C EXCEPT ![i] = v]
  BY <1>2, <1>3, <1>5
<1>6. ASSUME S'[i] = S[i] PROVE S' = S
  BY <1>2, <1>3, <1>6
<1>7. ASSUME C'[i] = C[i] PROVE C' = C
  BY <1>2, <1>3, <1>7
<1>8. ASSUME i \in T' <=> i \in T PROVE T' = T
  BY <1>1, <1>3, <1>8
<1>9. ASSUME i \in T' PROVE T' = T \cup {i}
  BY <1>1, <1>3, <1>9
<1>10. ASSUME i \notin T' PROVE T' = T \ {i}
  BY <1>1, <1>3, <1>10
<1>. HIDE DEF S, T, C
<1>11. D!deliveryVars = <<S, T, C>> /\ (D!deliveryVars)' = <<S', T', C'>>
  BY DEF D!deliveryVars, S, T, C
<1>12. CASE Same(i)
  <2>1. S' = S /\ T' = T /\ C' = C
    BY <1>1, <1>6, <1>7, <1>8, <1>12 DEF Same
  <2>. QED
    BY <1>11, <2>1
<1>13. CASE Telling(i)
  <2>1. S' = S /\ T' = T \cup {i} /\ S[i] \in {"open", "kept", "dropped"}
    BY <1>1, <1>6, <1>9, <1>13 DEF Telling
  <2>2. C' = C \/ (C[i] = 0 /\ C' = [C EXCEPT ![i] = 1])
    BY <1>1, <1>5, <1>7, <1>13 DEF Telling
  <2>3. D!Tells(i)
    BY <2>1, <2>2 DEF D!Tells, S, T, C
  <2>. QED
    BY <2>3 DEF D!DeliveryNext
<1>14. CASE Moving(i)
  <2>1. S[i] = "open" /\ S' = [S EXCEPT ![i] = "moved"]
    BY <1>1, <1>4, <1>14 DEF Moving
  <2>2. T' = T \ {i} /\ C' = [C EXCEPT ![i] = 0]
    BY <1>1, <1>5, <1>10, <1>14 DEF Moving
  <2>3. D!Moves(i)
    BY <2>1, <2>2 DEF D!Moves, D!Becomes, S, T, C
  <2>. QED
    BY <2>3 DEF D!DeliveryNext
<1>15. ASSUME NEW from, NEW to, Turns(i, from, to)
       PROVE  S[i] = from /\ S' = [S EXCEPT ![i] = to] /\ T' = T /\ C' = C
  BY <1>1, <1>4, <1>7, <1>8, <1>15 DEF Turns
<1>16. CASE Turns(i, "none", "open")
  <2>1. D!Makes(i)
    BY <1>15, <1>16 DEF D!Makes, D!Becomes, S, T, C
  <2>. QED
    BY <2>1 DEF D!DeliveryNext
<1>17. CASE Turns(i, "open", "kept") /\ (Told(i) \/ i \in Unknown)
  <2>1. i \in T \cup (Unknown \ Series)
    BY <1>1, <1>17
  <2>2. D!Keeps(i)
    BY <1>15, <1>17, <2>1 DEF D!Keeps, D!Becomes, S, T, C
  <2>. QED
    BY <2>2 DEF D!DeliveryNext
<1>18. CASE Turns(i, "open", "dropped")
  <2>1. D!Drops(i)
    BY <1>15, <1>18 DEF D!Drops, D!Becomes, S, T, C
  <2>. QED
    BY <2>1 DEF D!DeliveryNext
<1>. QED
  BY <1>12, <1>13, <1>14, <1>16, <1>17, <1>18

LEMMA AllSame ==
  ASSUME TypeOK, TypeOK', \A k \in Id \ Series : Same(k)
  PROVE  [D!DeliveryNext]_(D!deliveryVars)
<1>1. CASE Id \ Series = {}
  <2>1. UNCHANGED D!deliveryVars
    BY <1>1 DEF D!deliveryVars, TypeOK
  <2>. QED
    BY <2>1
<1>2. CASE Id \ Series # {}
  BY <1>2, OthersSame
<1>. QED
  BY <1>1, <1>2

LEMMA MapsInit == Init => D!DeliveryInit
BY DEF Init, D!DeliveryInit, Fate, Unmoved

LEMMA MapsStep == PromiseInv /\ Fresh /\ [Next]_vars => [D!DeliveryNext]_(D!deliveryVars)
<1>. SUFFICES ASSUME PromiseInv, Fresh, [Next]_vars PROVE [D!DeliveryNext]_(D!deliveryVars)
  OBVIOUS
<1>t. TypeOK /\ TypeOK'
  BY TypeStep DEF PromiseInv
<1>u. DOMAIN store \subseteq used
  BY DEF PromiseInv, UnusedIsBlank
<1>m. \A k \in Id : moves[k] \in Nat /\ moves'[k] \in Nat
  BY <1>t DEF TypeOK
<1>1. ASSUME NEW p \in Proc, Start(p) PROVE [D!DeliveryNext]_(D!deliveryVars)
  <2>1. /\ DOMAIN store' = DOMAIN store /\ UNCHANGED <<used, moves>>
        /\ \A k \in DOMAIN store \ Series : store'[k] = store[k]
        /\ \A k \in Id \ Series : (k \in got' <=> k \in got) /\ plains'[k] = plains[k]
    BY <1>1 DEF Start, ScheduledRecord, NewPromise
  <2>2. \A k \in Id \ Series : Same(k)
    BY <2>1 DEF Same, Fate, Told, Copies, Unmoved
  <2>. QED
    BY <1>t, <2>2, AllSame
<1>2. ASSUME UNCHANGED <<used, moves, ghosts>>, DOMAIN store' = DOMAIN store,
             \A k \in DOMAIN store : store'[k].sent = store[k].sent
      PROVE  [D!DeliveryNext]_(D!deliveryVars)
  <2>1. \A k \in Id \ Series : Same(k)
    BY <1>2 DEF Same, Fate, Told, Copies, Unmoved, ghosts
  <2>. QED
    BY <1>t, <2>1, AllSame
<1>3. ASSUME NEW p \in Proc, NEW i \in Id, NEW d \in Int, CreateAs(p, i, d)
      PROVE  [D!DeliveryNext]_(D!deliveryVars)
  <2>1. /\ i \notin used /\ used' = used \cup {i}
        /\ DOMAIN store' = DOMAIN store \cup {i}
        /\ \A k \in DOMAIN store : k # i => store'[k] = store[k]
        /\ store'[i] = ScheduledRecord(i, NewRecord(d))
        /\ UNCHANGED <<moves, ghosts>>
    BY <1>3, <1>u DEF CreateAs, Added
  <2>2. \A k \in Id \ Series : k # i => Same(k)
    BY <2>1 DEF Same, Fate, Told, Copies, Unmoved, ghosts
  <2>3. CASE i \in Series
    BY <1>t, <2>2, <2>3, AllSame
  <2>4. CASE i \notin Series
    <3>1. ~store'[i].sent /\ moves[i] = 0
      BY <2>1, <2>4 DEF ScheduledRecord, NewRecord, Fresh
    <3>2. Turns(i, "none", "open")
      BY <2>1, <3>1 DEF Turns, Fate, Told, Copies, Unmoved, ghosts
    <3>. QED
      BY <1>t, <2>2, <2>4, <3>2, OthersSame
  <2>. QED
    BY <2>3, <2>4
<1>4. ASSUME NEW p \in Proc, NEW i \in Id, Cancel(p, i) PROVE [D!DeliveryNext]_(D!deliveryVars)
  <2>1. /\ i \in DOMAIN store /\ i \in used /\ ~store[i].sent
        /\ DOMAIN store' = DOMAIN store \ {i}
        /\ \A k \in DOMAIN store' : store'[k] = store[k]
        /\ UNCHANGED <<used, moves, ghosts>>
    BY <1>4, <1>u DEF Cancel, Without, Pending
  <2>2. \A k \in Id \ Series : k # i => Same(k)
    BY <2>1 DEF Same, Fate, Told, Copies, Unmoved, ghosts
  <2>3. Unmoved(i) => Turns(i, "open", "dropped")
    BY <2>1 DEF Turns, Fate, Told, Copies, Unmoved, ghosts
  <2>4. ~Unmoved(i) => Same(i)
    BY <1>m, <2>1 DEF Same, Fate, Told, Copies, Unmoved, ghosts
  <2>. QED
    BY <1>t, <2>2, <2>3, <2>4, AllSame, OthersSame
<1>5. ASSUME NEW p \in Proc, NEW i \in Id, NEW d \in Ahead, Reschedule(p, i, d)
      PROVE  [D!DeliveryNext]_(D!deliveryVars)
  <2>1. /\ i \in DOMAIN store /\ i \in used /\ ~store[i].sent
        /\ moves' = [moves EXCEPT ![i] = @ + 1]
        /\ store' = [store EXCEPT ![i] = Rolled(@, d)]
        /\ got' = got \ {i}
        /\ plains' = [k \in Id |-> IF k \in {i} THEN 0 ELSE plains[k]]
        /\ UNCHANGED used
    BY <1>5, <1>u DEF Reschedule, Pending, NewPromise
  <2>2. moves'[i] > 0 /\ ~Unmoved(i)' /\ \A k \in Id : k # i => moves'[k] = moves[k]
    BY <2>1, <1>t DEF TypeOK, Unmoved
  <2>3. DOMAIN store' = DOMAIN store /\ \A k \in DOMAIN store : k # i => store'[k] = store[k]
    BY <2>1
  <2>4. \A k \in Id \ Series : k # i => Same(k)
    <3>1. \A k \in Id : k # i => plains'[k] = plains[k] /\ (k \in got' <=> k \in got)
      BY <2>1
    <3>. QED
      BY <2>1, <2>2, <2>3, <3>1 DEF Same, Fate, Told, Copies, Unmoved
  <2>5. Unmoved(i) => Moving(i)
    BY <2>1, <2>2 DEF Moving, Fate, Told, Copies, Unmoved
  <2>6. ~Unmoved(i) => Same(i)
    BY <1>m, <2>1, <2>2 DEF Same, Fate, Told, Copies, Unmoved
  <2>. QED
    BY <1>t, <2>4, <2>5, <2>6, AllSame, OthersSame
<1>6. ASSUME NEW p \in Proc, NEW i \in Id, FireSkip(p, i) \/ FireDefer(p, i)
      PROVE  [D!DeliveryNext]_(D!deliveryVars)
  BY <1>2, <1>6 DEF FireSkip, FireDefer
<1>7. ASSUME NEW p \in Proc, NEW i \in Id,
             FireQuiet(p, i) \/ \E f \in Fiber : FireBegin(p, i, f)
      PROVE  [D!DeliveryNext]_(D!deliveryVars)
  <2>1. /\ i \in DOMAIN store /\ store[i] \in Record
        /\ \/ store' = [store EXCEPT ![i] = Released(Claimed(@))]
           \/ store' = [store EXCEPT ![i] = Claimed(@)]
        /\ UNCHANGED <<used, moves, ghosts>>
    BY <1>7, <1>t DEF FireQuiet, FireBegin, Claimable, Pending, TypeOK
  <2>2. Claimed(store[i]).sent = store[i].sent /\ Released(Claimed(store[i])).sent = store[i].sent
    BY <2>1 DEF Claimed, Released, Record
  <2>. QED
    BY <1>2, <2>1, <2>2
<1>8. ASSUME NEW p \in Proc, NEW i \in Id, FireWithheld(p, i)
      PROVE  [D!DeliveryNext]_(D!deliveryVars)
  <2>1. /\ store' = [store EXCEPT ![i] = SettledRecord(i, Claimed(@), @.due)]
        /\ i \in DOMAIN store /\ i \in used /\ i \in Unknown /\ store[i] \in Record
        /\ ~store[i].sent
        /\ UNCHANGED <<used, moves, ghosts>>
    BY <1>8, <1>t, <1>u DEF FireWithheld, Claimable, Pending, TypeOK
  <2>2. DOMAIN store' = DOMAIN store /\ \A k \in DOMAIN store : k # i => store'[k] = store[k]
    BY <2>1
  <2>3. \A k \in Id \ Series : k # i => Same(k)
    BY <2>1, <2>2 DEF Same, Fate, Told, Copies, Unmoved, ghosts
  <2>4. CASE i \in Series
    BY <1>t, <2>3, <2>4, AllSame
  <2>5. CASE i \notin Series
    <3>1. store'[i].sent
      BY <2>1, <2>5 DEF SettledRecord, Retired, Claimed, Record
    <3>2. Unmoved(i) => Turns(i, "open", "kept")
      BY <2>1, <2>2, <3>1 DEF Turns, Fate, Told, Copies, Unmoved, ghosts
    <3>3. ~Unmoved(i) => Same(i)
      BY <1>m, <2>1 DEF Same, Fate, Told, Copies, Unmoved, ghosts
    <3>. QED
      BY <1>t, <2>1, <2>3, <2>5, <3>2, <3>3, OthersSame
  <2>. QED
    BY <2>4, <2>5
<1>9. ASSUME NEW f \in Fiber, NEW i, i = fiber[f].id, Accept(f)
      PROVE  [D!DeliveryNext]_(D!deliveryVars)
  <2>1. fiber[f] \in Flight /\ i \in Id /\ fiber[f].phase = "sending" /\ Sends(i, f)
    BY <1>9, <1>t DEF Accept, TypeOK, Idle, Flight, Sends
  <2>2. /\ UNCHANGED <<store, used, moves>>
        /\ got' = IF fiber[f].move = moves[i] THEN got \cup {i} ELSE got
        /\ plains' = IF fiber[f].move = moves[i] /\ fiber[f].plain /\ plains[i] < 2
                     THEN [plains EXCEPT ![i] = @ + 1] ELSE plains
    BY <1>9 DEF Accept
  <2>3. \A k \in Id : k # i => plains'[k] = plains[k] /\ (k \in got' <=> k \in got)
    BY <2>2
  <2>4. \A k \in Id \ Series : k # i => Same(k)
    BY <2>2, <2>3 DEF Same, Fate, Told, Copies, Unmoved
  <2>5. CASE i \in Series
    BY <1>t, <2>4, <2>5, AllSame
  <2>6. CASE i \notin Series /\ ~Unmoved(i)
    <3>1. Same(i)
      BY <2>2, <2>6 DEF Same, Fate, Told, Copies, Unmoved
    <3>. QED
      BY <1>t, <2>1, <2>4, <2>6, <3>1, OthersSame
  <2>7. CASE i \notin Series /\ Unmoved(i)
    <3>1. fiber[f].move = moves[i] /\ moves[i] = 0
      BY <1>t, <2>1, <2>7 DEF PromiseInv, FlightIsOld, TypeOK, Flight, Unmoved
    <3>2. i \in used
      BY <2>1 DEF PromiseInv, UnusedIsBlank
    <3>3. fiber[f].plain => plains[i] = 0
      BY <2>1, <2>7 DEF PromiseInv, OnePlainFlight, PlainFlight
    <3>4. plains[i] \in 0 .. 2 /\ plains \in [Id -> 0 .. 2]
      BY <1>t, <2>1 DEF TypeOK
    <3>5. plains'[i] = plains[i] \/ (plains[i] = 0 /\ plains'[i] = 1)
      BY <2>1, <2>2, <3>3, <3>4
    <3>6. Told(i)'
      BY <2>2, <3>1 DEF Told, Unmoved
    <3>7. Fate(i)' = Fate(i) /\ Fate(i) \in {"open", "kept", "dropped"}
      BY <2>2, <3>1, <3>2 DEF Fate
    <3>8. Telling(i)
      BY <2>2, <2>7, <3>1, <3>5, <3>6, <3>7 DEF Telling, Copies, Unmoved
    <3>. QED
      BY <1>t, <2>1, <2>4, <2>7, <3>8, OthersSame
  <2>. QED
    BY <2>5, <2>6, <2>7
<1>10. ASSUME NEW f \in Fiber, Raise(f) PROVE [D!DeliveryNext]_(D!deliveryVars)
  BY <1>2, <1>10 DEF Raise
<1>11. ASSUME NEW f \in Fiber, NEW i, i = fiber[f].id, Finish(f)
       PROVE  [D!DeliveryNext]_(D!deliveryVars)
  <2>. DEFINE d == fiber[f].due
  <2>1. fiber[f].phase = "reached" /\ i \in Id /\ Sends(i, f)
    BY <1>11, <1>t DEF Finish, TypeOK, Idle, Flight, Sends
  <2>2. /\ store' = Update(store, i, SettledRecord(i, store[i], d))
        /\ NewPromise({i} \cap Series)
        /\ UNCHANGED <<used, moves>>
    BY <1>11 DEF Finish
  <2>3. i \notin Series /\ Unmoved(i) => i \in got
    BY <2>1 DEF PromiseInv, ReachedWasGot
  <2>. HIDE DEF d
  <2>4. /\ DOMAIN store' = DOMAIN store
        /\ \A k \in DOMAIN store : k # i => store'[k] = store[k]
        /\ i \in DOMAIN store /\ i \notin Series => store'[i].sent
    BY <2>2, <1>t DEF Update, SettledRecord, Retired, TypeOK, Record
  <2>5. \A k \in Id \ Series : plains'[k] = plains[k] /\ (k \in got' <=> k \in got)
    BY <2>2 DEF NewPromise
  <2>6. \A k \in Id \ Series : k # i => Same(k)
    BY <2>2, <2>4, <2>5 DEF Same, Fate, Told, Copies, Unmoved
  <2>7. CASE i \in Series
    BY <1>t, <2>6, <2>7, AllSame
  <2>8. CASE i \notin Series
    <3>1. CASE Fate(i) = "open"
      <4>1. i \in DOMAIN store /\ i \in used /\ moves[i] = 0 /\ ~store[i].sent
        BY <1>m, <2>1, <3>1 DEF Fate
      <4>2. Turns(i, "open", "kept") /\ Told(i)
        BY <2>1, <2>2, <2>3, <2>4, <2>5, <2>8, <4>1 DEF Turns, Fate, Told, Copies, Unmoved
      <4>. QED
        BY <1>t, <2>1, <2>6, <2>8, <4>2, OthersSame
    <3>2. CASE Fate(i) # "open"
      <4>1. Same(i)
        BY <2>1, <2>2, <2>4, <2>5, <2>8, <3>2 DEF Same, Fate, Told, Copies, Unmoved
      <4>. QED
        BY <1>t, <2>1, <2>6, <2>8, <4>1, OthersSame
    <3>. QED
      BY <3>1, <3>2
  <2>. QED
    BY <2>7, <2>8
<1>12. CASE SetQuiet \/ UNCHANGED vars
  BY <1>2, <1>12 DEF SetQuiet, vars, ghosts
<1>13. CASE Tick
  <2>1. DOMAIN store' = DOMAIN store /\ \A k \in DOMAIN store : store'[k].sent = store[k].sent
    BY <1>13, <1>t DEF Tick, TypeOK, Record
  <2>. QED
    BY <1>2, <1>13, <2>1 DEF Tick
<1>14. Ahead \subseteq Int
  BY RemindersAssumption
<1>15. ASSUME NEW p \in Proc, Start(p) \/ Crash(p) PROVE [D!DeliveryNext]_(D!deliveryVars)
  BY <1>1, <1>2, <1>15 DEF Crash
<1>16. ASSUME NEW p \in Proc, NEW i \in Id, Converse(p, i)
       PROVE  [D!DeliveryNext]_(D!deliveryVars)
  BY <1>3, <1>4, <1>5, <1>14, <1>16 DEF Converse, Create, Snooze
<1>17. ASSUME NEW p \in Proc, NEW i \in Id, Fire(p, i)
       PROVE  [D!DeliveryNext]_(D!deliveryVars)
  BY <1>6, <1>7, <1>8, <1>17 DEF Fire
<1>. QED
  BY <1>9, <1>10, <1>11, <1>12, <1>13, <1>15, <1>16, <1>17 DEF Next

(* The store, the jobs, the claims and the retries of every process, with  *)
(* crashes, overlap and raised sends, do what Delivery promises of each    *)
(* reminder that fires once.                                               *)
THEOREM ImplementsDelivery == Spec => KeepsDelivery
<1>1. PromiseInv => TypeOK /\ UnusedIsBlank
  BY DEF PromiseInv
<1>2. Spec => []Fresh
  BY <1>1, PromiseInvariant, FreshInit, FreshStep, PTL DEF Spec
<1>. QED
  BY <1>2, PromiseInvariant, MapsInit, MapsStep, PTL DEF Spec, KeepsDelivery, D!DeliverySpec
-----------------------------------------------------------------------------
(***************************************************************************)
(* One process.  The file is then only changed between two steps of the    *)
(* same loop, and a reminder nobody moves has one timer: a queued job or a *)
(* send.  A copy without the label that is on its way or arrived leaves    *)
(* its evidence on the record of a series too, until the series rolls on.  *)
(***************************************************************************)
Empty(t)  == \A d \in Delay : t[d] = 0
Single(t) == /\ \A d \in Delay : t[d] <= 1
             /\ \A d, e \in Delay : t[d] > 0 /\ t[e] > 0 => d = e

OneClock(p, i) ==
    /\ Single(jobs[p][i])
    /\ \A f \in Fiber : Sends(i, f) => Empty(jobs[p][i])
    /\ \A f, g \in Fiber : Sends(i, f) /\ Sends(i, g) => f = g
    /\ i \notin used => Empty(jobs[p][i])

InTime(p, i) ==
    /\ \A d \in Delay : jobs[p][i][d] > 0 /\ Pending(i) => store[i].due <= d
    /\ \A f \in Fiber : Sends(i, f) =>
         /\ fiber[f].due <= 0 /\ fiber[f].move = 0 /\ up[p]
         /\ Pending(i) => store[i].due <= 0

OneLabel(i) ==
    /\ plains[i] <= 1 /\ moves[i] = 0
    /\ i \in Unknown => plains[i] = 0 /\ \A f \in Fiber : ~Sends(i, f)
    /\ \A f \in Fiber : PlainFlight(i, f) => plains[i] = 0 /\ (i \in DOMAIN store => Evidence(i))
    /\ i \in DOMAIN store /\ plains[i] > 0 => Evidence(i)

Alone(p, i) == OneClock(p, i) /\ InTime(p, i) /\ OneLabel(i)

LEMMA ConsumedEmpties ==
  ASSUME NEW t \in [Delay -> Nat], Single(t), t[0] > 0
  PROVE  Empty([t EXCEPT ![0] = @ - 1])
<1>1. 0 \in Delay
  BY DelayZero
<1>. QED
  BY <1>1 DEF Single, Empty

LEMMA PlusSingle ==
  ASSUME NEW t \in [Delay -> Nat], Empty(t), NEW x
  PROVE  /\ Single([t EXCEPT ![x] = @ + 1])
         /\ \A d \in Delay : [t EXCEPT ![x] = @ + 1][d] > 0 => d = x
BY DEF Single, Empty

LEMMA NearerSingle ==
  ASSUME NEW t \in [Delay -> Nat]
  PROVE  /\ Single(t) => Single(Nearer(t))
         /\ Empty(t) => Empty(Nearer(t))
         /\ \A d \in Delay : Nearer(t)[d] > 0 =>
              \E e \in Delay : t[e] > 0 /\ (d = 0 => e <= 1) /\ (d > 0 => e = d + 1)
<1>h. 0 \in Delay /\ 1 \in Delay /\ Horizon \in Nat /\ Horizon >= 1
  BY DelayZero DEF Delay
<1>1. Nearer(t)[0] = t[0] + t[1]
  BY <1>h DEF Nearer
<1>2. Nearer(t)[Horizon] = 0
  BY <1>h DEF Nearer, Delay
<1>3. ASSUME NEW d \in Delay, d # 0, d # Horizon
      PROVE  d + 1 \in Delay /\ Nearer(t)[d] = t[d + 1]
  BY <1>h, <1>3 DEF Nearer, Delay
<1>4. ASSUME NEW d \in Delay, Nearer(t)[d] > 0
      PROVE  \E e \in Delay : t[e] > 0 /\ (d = 0 => e <= 1) /\ (d > 0 => e = d + 1)
  <2>1. CASE d = 0
    <3>1. t[0] > 0 \/ t[1] > 0
      BY <1>h, <1>1, <1>4, <2>1
    <3>. QED
      BY <1>h, <2>1, <3>1
  <2>2. CASE d # 0
    <3>1. d # Horizon
      BY <1>2, <1>4
    <3>. QED
      BY <1>3, <1>4, <2>2, <3>1
  <2>. QED
    BY <2>1, <2>2
<1>5. ASSUME Empty(t) PROVE Empty(Nearer(t))
  BY <1>h, <1>1, <1>2, <1>3, <1>5 DEF Empty
<1>6. ASSUME Single(t) PROVE Single(Nearer(t))
  <2>1. ASSUME NEW d \in Delay PROVE Nearer(t)[d] <= 1
    <3>1. CASE d = 0
      <4>1. t[0] \in Nat /\ t[1] \in Nat /\ t[0] <= 1 /\ t[1] <= 1 /\ ~(t[0] > 0 /\ t[1] > 0)
        BY <1>h, <1>6 DEF Single
      <4>. QED
        BY <1>1, <3>1, <4>1
    <3>2. CASE d # 0
      BY <1>2, <1>3, <1>6, <3>2 DEF Single
    <3>. QED
      BY <3>1, <3>2
  <2>2. ASSUME NEW d \in Delay, NEW e \in Delay, Nearer(t)[d] > 0, Nearer(t)[e] > 0 PROVE d = e
    <3>1. PICK x \in Delay : t[x] > 0 /\ (d = 0 => x <= 1) /\ (d > 0 => x = d + 1)
      BY <1>4, <2>2
    <3>2. PICK y \in Delay : t[y] > 0 /\ (e = 0 => y <= 1) /\ (e > 0 => y = e + 1)
      BY <1>4, <2>2
    <3>3. x = y
      BY <1>6, <3>1, <3>2 DEF Single
    <3>. QED
      BY <3>1, <3>2, <3>3 DEF Delay
  <2>. QED
    BY <2>1, <2>2 DEF Single
<1>. QED
  BY <1>4, <1>5, <1>6

(* A step that leaves a reminder alone. *)
LEMMA AloneFrame ==
  ASSUME NEW p \in Proc, NEW i \in Id, Alone(p, i),
         jobs'[p][i] = jobs[p][i], up'[p] = up[p], i \in used' <=> i \in used,
         \A f \in Fiber : (Sends(i, f)' <=> Sends(i, f)) /\ (Sends(i, f) => fiber'[f] = fiber[f]),
         i \in DOMAIN store' <=> i \in DOMAIN store,
         i \in DOMAIN store => store'[i] = store[i],
         plains'[i] = plains[i], moves'[i] = moves[i]
  PROVE  Alone(p, i)'
<1>1. OneClock(p, i)'
  BY DEF Alone, OneClock
<1>2. Pending(i)' <=> Pending(i)
  BY DEF Pending
<1>3. InTime(p, i)'
  BY <1>2 DEF Alone, InTime, Pending
<1>4. OneLabel(i)'
  BY DEF Alone, OneLabel, PlainFlight, Evidence
<1>. QED
  BY <1>1, <1>3, <1>4 DEF Alone
-----------------------------------------------------------------------------
(* One process and no moves: every step keeps every reminder alone.        *)
AllAlone(p) == \A i \in Id : Alone(p, i)

LEMMA AloneInit == ASSUME NEW p \in Proc, Init PROVE AllAlone(p)
<1>. SUFFICES ASSUME NEW i \in Id PROVE Alone(p, i)
  BY DEF AllAlone
<1>1. /\ DOMAIN store = {} /\ used = {} /\ plains[i] = 0 /\ moves[i] = 0
      /\ \A d \in Delay : jobs[p][i][d] = 0
      /\ \A f \in Fiber : fiber[f] = Idle
  BY DEF Init, NoJobs
<1>2. \A f \in Fiber : ~Sends(i, f)
  BY <1>1 DEF Sends
<1>. QED
  BY <1>1, <1>2 DEF Alone, OneClock, InTime, OneLabel, Single, Empty, PlainFlight

(* What the types say of one flight and one queue. *)
LEMMA FlightFacts ==
  ASSUME TypeOK, NEW p, Proc = {p}, NEW f \in Fiber, fiber[f] # Idle
  PROVE  /\ fiber[f] \in Flight /\ fiber[f].proc = p /\ fiber[f].id \in Id
         /\ fiber[f].due \in Int /\ fiber[f].move \in Nat /\ fiber[f].plain \in BOOLEAN
         /\ Sends(fiber[f].id, f)
<1>1. fiber[f] \in Flight
  BY DEF TypeOK
<1>. QED
  BY <1>1 DEF Flight, Sends

LEMMA RowType ==
  ASSUME TypeOK, NEW p \in Proc, NEW i \in Id PROVE jobs[p][i] \in [Delay -> Nat]
BY DEF TypeOK

LEMMA ConsumedRow ==
  ASSUME TypeOK, NEW p \in Proc, NEW i \in Id, Run(p, i), Single(jobs[p][i])
  PROVE  /\ Consumed(p, i) \in Queue
         /\ Empty(Consumed(p, i)[i])
         /\ \A k \in Id \ {i} : Consumed(p, i)[k] = jobs[p][k]
<1>1. jobs[p] \in Queue /\ jobs[p][i] \in [Delay -> Nat]
  BY DEF TypeOK, Queue
<1>2. Consumed(p, i)[i] = [jobs[p][i] EXCEPT ![0] = @ - 1]
  BY <1>1 DEF Consumed, Queue
<1>3. \A k \in Id \ {i} : Consumed(p, i)[k] = jobs[p][k]
  BY <1>1 DEF Consumed, Queue
<1>. QED
  BY <1>1, <1>2, <1>3, ConsumedEmpties, ConsumedType DEF Run

(* A row that got its one job at d is a row with one job. *)
LEMMA OneJob ==
  ASSUME NEW q \in Queue, NEW i \in Id, NEW d \in Int, Empty(q[i])
  PROVE  /\ Single(Plus(q, i, d)[i])
         /\ \A x \in Delay : Plus(q, i, d)[i][x] > 0 => x = SoonIn(d)
         /\ \A k \in Id \ {i} : Plus(q, i, d)[k] = q[k]
<1>1. q[i] \in [Delay -> Nat]
  BY DEF Queue
<1>2. /\ Plus(q, i, d)[i] = [q[i] EXCEPT ![SoonIn(d)] = @ + 1]
      /\ \A k \in Id \ {i} : Plus(q, i, d)[k] = q[k]
  BY DEF Plus, Queue
<1>3. PICK y : y = SoonIn(d)
  OBVIOUS
<1>4. /\ Single([q[i] EXCEPT ![y] = @ + 1])
      /\ \A x \in Delay : [q[i] EXCEPT ![y] = @ + 1][x] > 0 => x = y
  BY <1>1, PlusSingle
<1>. QED
  BY <1>2, <1>3, <1>4

LEMMA EmptySingle == ASSUME NEW t, Empty(t) PROVE Single(t)
BY DEF Empty, Single
-----------------------------------------------------------------------------
(* The steps of one process, each for one reminder.                        *)

Sole(p) == /\ Proc = {p} /\ MaxMoves = 0
           /\ TypeOK /\ UnusedIsBlank /\ AllAlone(p)

LEMMA SoleFacts ==
  ASSUME NEW p, Sole(p), NEW i \in Id
  PROVE  /\ p \in Proc /\ TypeOK /\ Alone(p, i) /\ moves[i] = 0
         /\ jobs[p] \in Queue /\ jobs[p][i] \in [Delay -> Nat]
         /\ i \in DOMAIN store => store[i] \in Record /\ store[i].due \in Int
<1>1. TypeOK /\ Alone(p, i) /\ p \in Proc
  BY DEF Sole, AllAlone
<1>2. i \in DOMAIN store => store[i] \in Record /\ store[i].due \in Int
  BY <1>1 DEF TypeOK, Record
<1>. QED
  BY <1>1, <1>2 DEF TypeOK, Queue, Alone, OneLabel

LEMMA AloneStart ==
  ASSUME NEW p, Sole(p), Start(p), NEW i \in Id PROVE Alone(p, i)'
<1>1. /\ p \in Proc /\ TypeOK /\ Alone(p, i)
      /\ i \in DOMAIN store => store[i] \in Record /\ store[i].due \in Int
  BY SoleFacts
<1>2. \A f \in Fiber : ~Sends(i, f)
  BY <1>1 DEF Start, Alone, InTime
<1>3. \A f \in Fiber : ~Sends(i, f)'
  BY <1>2 DEF Start, Sends
<1>4. /\ i \in DOMAIN store' <=> i \in DOMAIN store
      /\ i \in DOMAIN store => store'[i] = IF Pending(i) THEN ScheduledRecord(i, store[i]) ELSE store[i]
      /\ i \in DOMAIN store => store'[i].due <= Horizon
  BY DEF Start
<1>5. i \in DOMAIN store => store'[i] \in Record /\ store'[i].due \in Int
  BY <1>1, <1>4, ScheduledType DEF Record
<1>6. \A d \in Delay : jobs'[p][i][d] = IF Pending(i) /\ d = SoonIn(store'[i].due) THEN 1 ELSE 0
  BY <1>1 DEF Start, TypeOK
<1>7. OneClock(p, i)'
  <2>1. Single(jobs'[p][i])
    BY <1>6 DEF Single
  <2>2. i \notin used' => Empty(jobs'[p][i])
    <3>1. i \notin used' => ~Pending(i)
      BY DEF Start, Sole, UnusedIsBlank, Pending
    <3>. QED
      BY <1>6, <3>1 DEF Empty
  <2>. QED
    BY <1>3, <2>1, <2>2 DEF OneClock
<1>8. InTime(p, i)'
  <2>1. ASSUME NEW d \in Delay, jobs'[p][i][d] > 0 PROVE store'[i].due <= d
    <3>1. Pending(i) /\ d = SoonIn(store'[i].due)
      BY <1>6, <2>1
    <3>2. i \in DOMAIN store
      BY <3>1 DEF Pending
    <3>. QED
      BY <1>5, <3>1, <3>2 DEF SoonIn
  <2>. QED
    BY <1>3, <2>1 DEF InTime, Pending
<1>9. OneLabel(i)'
  <2>1. moves'[i] = 0 /\ plains[i] <= 1
    BY <1>1 DEF Start, Alone, OneLabel
  <2>2. plains'[i] = IF i \in Series /\ Pending(i) /\ Overdue(store[i].due) THEN 0 ELSE plains[i]
    BY DEF Start, NewPromise
  <2>3. ASSUME i \in DOMAIN store', plains'[i] > 0 PROVE Evidence(i)'
    <3>1. store'[i] = store[i]
      BY <1>4, <2>2, <2>3 DEF ScheduledRecord
    <3>2. Evidence(i)
      BY <1>1, <1>4, <2>2, <2>3 DEF Alone, OneLabel
    <3>. QED
      BY <3>1, <3>2 DEF Evidence
  <2>4. i \in Unknown => plains'[i] = 0
    BY <1>1, <2>2 DEF Alone, OneLabel
  <2>. QED
    BY <1>3, <2>1, <2>2, <2>3, <2>4 DEF OneLabel, PlainFlight
<1>. QED
  BY <1>7, <1>8, <1>9 DEF Alone

LEMMA AloneCrash ==
  ASSUME NEW p, Sole(p), Crash(p), NEW i \in Id PROVE Alone(p, i)'
<1>1. p \in Proc /\ TypeOK /\ Alone(p, i)
  BY SoleFacts
<1>2. \A f \in Fiber : fiber'[f] = Idle
  <2>1. ASSUME NEW f \in Fiber PROVE fiber'[f] = Idle
    <3>1. fiber[f] # Idle => fiber[f].proc = p
      BY FlightFacts DEF Sole
    <3>. QED
      BY <3>1 DEF Crash
  <2>. QED
    BY <2>1
<1>3. \A f \in Fiber : ~Sends(i, f)'
  BY <1>2 DEF Sends
<1>4. \A d \in Delay : jobs'[p][i][d] = 0
  BY <1>1 DEF Crash, TypeOK, NoJobs
<1>5. Empty(jobs'[p][i]) /\ Single(jobs'[p][i])
  BY <1>4 DEF Empty, Single
<1>6. OneClock(p, i)'
  BY <1>3, <1>5 DEF OneClock
<1>7. InTime(p, i)'
  BY <1>3, <1>4 DEF InTime
<1>8. OneLabel(i)'
  BY <1>1, <1>3 DEF Crash, ghosts, Alone, OneLabel, PlainFlight, Evidence
<1>. QED
  BY <1>6, <1>7, <1>8 DEF Alone

LEMMA AloneCreate ==
  ASSUME NEW p, Sole(p), NEW k \in Id, NEW d \in Int, CreateAs(p, k, d), NEW i \in Id
  PROVE  Alone(p, i)'
<1>1. p \in Proc /\ TypeOK /\ Alone(p, i) /\ jobs[p] \in Queue
  BY SoleFacts
<1>2. PICK r : r = ScheduledRecord(k, NewRecord(d))
  OBVIOUS
<1>3. r \in Record /\ r.due \in Int
  BY <1>2, NewType, ScheduledType DEF Record
<1>4. /\ k \notin used /\ used' = used \cup {k}
      /\ store' = [Added(store, k, d) EXCEPT ![k] = r]
      /\ jobs' = [jobs EXCEPT ![p] = Plus(jobs[p], k, r.due)]
      /\ UNCHANGED <<up, fiber, moves, plains>>
  BY <1>2 DEF CreateAs, Schedule, ghosts
<1>5. \A f \in Fiber : (Sends(i, f)' <=> Sends(i, f)) /\ fiber'[f] = fiber[f]
  BY <1>4 DEF Sends
<1>6. jobs'[p] = Plus(jobs[p], k, r.due)
  BY <1>1, <1>4 DEF TypeOK
<1>7. CASE i # k
  <2>1. jobs'[p][i] = jobs[p][i]
    BY <1>1, <1>6, <1>7 DEF Plus, Queue
  <2>2. /\ i \in DOMAIN store' <=> i \in DOMAIN store
        /\ i \in DOMAIN store => store'[i] = store[i]
    BY <1>4, <1>7 DEF Added
  <2>3. i \in used' <=> i \in used
    BY <1>4, <1>7
  <2>. QED
    BY <1>1, <1>4, <1>5, <2>1, <2>2, <2>3, AloneFrame
<1>8. CASE i = k
  <2>1. /\ plains[i] = 0 /\ \A f \in Fiber : ~Sends(i, f)
        /\ Empty(jobs[p][i]) /\ moves[i] = 0
    BY <1>1, <1>4, <1>8 DEF Sole, UnusedIsBlank, Alone, OneClock, OneLabel
  <2>2. \A f \in Fiber : ~Sends(i, f)'
    BY <1>5, <2>1
  <2>3. /\ Single(jobs'[p][i])
        /\ \A x \in Delay : jobs'[p][i][x] > 0 => x = SoonIn(r.due)
    BY <1>1, <1>3, <1>6, <1>8, <2>1, OneJob
  <2>4. store'[i] = r
    BY <1>4, <1>8 DEF Added
  <2>5. OneClock(p, i)'
    BY <1>4, <1>8, <2>2, <2>3 DEF OneClock
  <2>6. InTime(p, i)'
    <3>1. ASSUME NEW x \in Delay, jobs'[p][i][x] > 0 PROVE store'[i].due <= x
      BY <1>3, <2>3, <2>4, <3>1 DEF SoonIn
    <3>. QED
      BY <2>2, <3>1 DEF InTime
  <2>7. OneLabel(i)'
    BY <1>4, <2>1, <2>2 DEF OneLabel, PlainFlight
  <2>. QED
    BY <2>5, <2>6, <2>7 DEF Alone
<1>. QED
  BY <1>7, <1>8

LEMMA AloneCancel ==
  ASSUME NEW p, Sole(p), NEW k \in Id, Cancel(p, k), NEW i \in Id PROVE Alone(p, i)'
<1>1. p \in Proc /\ TypeOK /\ Alone(p, i) /\ jobs[p] \in Queue
  BY SoleFacts
<1>2. /\ store' = Without(store, k)
      /\ jobs'[p] = Gone(jobs[p], k)
      /\ UNCHANGED <<used, up, fiber, moves, plains>>
  BY <1>1 DEF Cancel, ghosts, TypeOK
<1>3. \A f \in Fiber : (Sends(i, f)' <=> Sends(i, f)) /\ fiber'[f] = fiber[f]
  BY <1>2 DEF Sends
<1>4. CASE i # k
  <2>1. jobs'[p][i] = jobs[p][i]
    BY <1>1, <1>2, <1>4 DEF Gone, Queue
  <2>2. /\ i \in DOMAIN store' <=> i \in DOMAIN store
        /\ i \in DOMAIN store => store'[i] = store[i]
    BY <1>2, <1>4 DEF Without
  <2>. QED
    BY <1>1, <1>2, <1>3, <2>1, <2>2, AloneFrame
<1>5. CASE i = k
  <2>1. \A d \in Delay : jobs'[p][i][d] = 0
    BY <1>1, <1>2, <1>5 DEF Gone, Queue
  <2>2. i \notin DOMAIN store'
    BY <1>2, <1>5 DEF Without
  <2>3. Empty(jobs'[p][i]) /\ Single(jobs'[p][i])
    BY <2>1 DEF Empty, Single
  <2>4. OneClock(p, i)'
    BY <1>1, <1>3, <2>3 DEF Alone, OneClock
  <2>5. InTime(p, i)'
    BY <1>1, <1>2, <1>3, <2>1, <2>2 DEF Alone, InTime, Pending
  <2>6. OneLabel(i)'
    BY <1>1, <1>2, <1>3, <2>2 DEF Alone, OneLabel, PlainFlight
  <2>. QED
    BY <2>4, <2>5, <2>6 DEF Alone
<1>. QED
  BY <1>4, <1>5
-----------------------------------------------------------------------------
(* A job runs: the row of its reminder was that one job.                   *)

LEMMA RunFacts ==
  ASSUME NEW p, Sole(p), NEW k \in Id, Run(p, k)
  PROVE  /\ p \in Proc /\ TypeOK /\ Alone(p, k) /\ jobs[p] \in Queue /\ up[p]
         /\ Consumed(p, k) \in Queue /\ Empty(Consumed(p, k)[k])
         /\ \A i \in Id \ {k} : Consumed(p, k)[i] = jobs[p][i]
         /\ \A f \in Fiber : ~Sends(k, f)
         /\ Pending(k) => store[k] \in Record /\ store[k].due \in Int /\ store[k].due <= 0
         /\ k \in used
<1>1. p \in Proc /\ TypeOK /\ Alone(p, k) /\ jobs[p] \in Queue
  BY SoleFacts
<1>2. up[p] /\ jobs[p][k][0] > 0 /\ 0 \in Delay
  BY DelayZero DEF Run
<1>3. /\ Consumed(p, k) \in Queue /\ Empty(Consumed(p, k)[k])
      /\ \A i \in Id \ {k} : Consumed(p, k)[i] = jobs[p][i]
  BY <1>1, ConsumedRow DEF Alone, OneClock
<1>4. ~Empty(jobs[p][k])
  BY <1>2 DEF Empty
<1>5. k \in used /\ \A f \in Fiber : ~Sends(k, f)
  BY <1>1, <1>4 DEF Alone, OneClock
<1>6. Pending(k) => store[k] \in Record /\ store[k].due \in Int
  BY SoleFacts DEF Pending
<1>7. Pending(k) => store[k].due <= 0
  BY <1>1, <1>2 DEF Alone, InTime
<1>. QED
  BY <1>1, <1>2, <1>3, <1>5, <1>6, <1>7

(* What a step of k leaves of another reminder. *)
LEMMA OthersAlone ==
  ASSUME NEW p, Sole(p), NEW k \in Id, NEW i \in Id, i # k,
         jobs'[p][i] = jobs[p][i], up'[p] = up[p], used' = used, moves' = moves,
         \A f \in Fiber : (Sends(i, f)' <=> Sends(i, f)) /\ (Sends(i, f) => fiber'[f] = fiber[f]),
         i \in DOMAIN store' <=> i \in DOMAIN store,
         i \in DOMAIN store => store'[i] = store[i],
         plains'[i] = plains[i]
  PROVE  Alone(p, i)'
BY SoleFacts, AloneFrame

LEMMA AloneSkip ==
  ASSUME NEW p, Sole(p), NEW k \in Id, FireSkip(p, k), NEW i \in Id PROVE Alone(p, i)'
<1>1. /\ p \in Proc /\ TypeOK /\ Alone(p, k) /\ Empty(Consumed(p, k)[k])
      /\ \A j \in Id \ {k} : Consumed(p, k)[j] = jobs[p][j]
  BY RunFacts DEF FireSkip
<1>2. /\ jobs'[p] = Consumed(p, k)
      /\ UNCHANGED <<store, used, up, fiber, moves, plains>>
  BY <1>1 DEF FireSkip, ghosts, TypeOK
<1>3. \A f \in Fiber : (Sends(i, f)' <=> Sends(i, f)) /\ fiber'[f] = fiber[f]
  BY <1>2 DEF Sends
<1>4. CASE i # k
  BY <1>1, <1>2, <1>3, <1>4, OthersAlone
<1>5. CASE i = k
  <2>1. Empty(jobs'[p][i]) /\ Single(jobs'[p][i])
    BY <1>1, <1>2, <1>5, EmptySingle
  <2>2. OneClock(p, i)'
    BY <1>1, <1>2, <1>3, <1>5, <2>1 DEF Alone, OneClock
  <2>3. InTime(p, i)'
    BY <1>1, <1>2, <1>3, <1>5, <2>1 DEF Alone, InTime, Pending, Empty
  <2>4. OneLabel(i)'
    BY <1>1, <1>2, <1>3, <1>5 DEF Alone, OneLabel, PlainFlight, Evidence
  <2>. QED
    BY <2>2, <2>3, <2>4 DEF Alone
<1>. QED
  BY <1>4, <1>5

(* A deferred job comes back; so does a held one, and its record keeps what *)
(* it knew.                                                                *)
LEMMA AloneRequeue ==
  ASSUME NEW p, Sole(p), NEW k \in Id, Run(p, k), NEW d \in Nat, Requeue(p, k, d),
         Pending(k), Pending(k)', DOMAIN store' = DOMAIN store, store'[k].due = store[k].due,
         Evidence(k) => Evidence(k)',
         \A i \in DOMAIN store : i # k => store'[i] = store[i],
         UNCHANGED <<used, up, fiber, moves, plains>>, NEW i \in Id
  PROVE  Alone(p, i)'
<1>1. /\ p \in Proc /\ TypeOK /\ Alone(p, k) /\ jobs[p] \in Queue /\ up[p]
      /\ Consumed(p, k) \in Queue /\ Empty(Consumed(p, k)[k])
      /\ \A j \in Id \ {k} : Consumed(p, k)[j] = jobs[p][j]
      /\ \A f \in Fiber : ~Sends(k, f)
      /\ Pending(k) => store[k] \in Record /\ store[k].due \in Int /\ store[k].due <= 0
      /\ k \in used
  BY RunFacts
<1>2. jobs'[p] = Plus(Consumed(p, k), k, d)
  BY <1>1 DEF Requeue, TypeOK
<1>3. /\ Single(jobs'[p][k])
      /\ \A x \in Delay : jobs'[p][k][x] > 0 => x = SoonIn(d)
      /\ \A j \in Id \ {k} : jobs'[p][j] = jobs[p][j]
  BY <1>1, <1>2, OneJob
<1>4. \A f \in Fiber : (Sends(i, f)' <=> Sends(i, f)) /\ fiber'[f] = fiber[f]
  BY DEF Sends
<1>5. CASE i # k
  BY <1>3, <1>4, <1>5, OthersAlone
<1>6. CASE i = k
  <2>1. \A f \in Fiber : ~Sends(i, f)'
    BY <1>1, <1>4, <1>6
  <2>2. OneClock(p, i)'
    BY <1>1, <1>3, <1>6, <2>1 DEF OneClock
  <2>3. InTime(p, i)'
    <3>1. store[k].due \in Int /\ store[k].due <= 0
      BY <1>1
    <3>2. ASSUME NEW x \in Delay PROVE store'[i].due <= x
      BY <1>6, <3>1 DEF Delay
    <3>. QED
      BY <2>1, <3>2 DEF InTime
  <2>4. OneLabel(i)'
    BY <1>1, <1>6, <2>1 DEF Alone, OneLabel, PlainFlight
  <2>. QED
    BY <2>2, <2>3, <2>4 DEF Alone
<1>. QED
  BY <1>5, <1>6

LEMMA AloneDefer ==
  ASSUME NEW p, Sole(p), NEW k \in Id, FireDefer(p, k), NEW i \in Id PROVE Alone(p, i)'
<1>1. Run(p, k) /\ Pending(k) /\ Requeue(p, k, Watch) /\ Watch \in Nat
  BY RemindersAssumption DEF FireDefer
<1>2. UNCHANGED <<store, used, up, fiber, moves, plains>>
  BY DEF FireDefer, ghosts
<1>3. Pending(k)' /\ (Evidence(k) => Evidence(k)')
  BY <1>1, <1>2 DEF Pending, Evidence
<1>4. /\ DOMAIN store' = DOMAIN store /\ store'[k].due = store[k].due
      /\ \A j \in DOMAIN store : j # k => store'[j] = store[j]
      /\ UNCHANGED <<used, up, fiber, moves, plains>>
  BY <1>2
<1>. QED
  BY <1>1, <1>3, <1>4, AloneRequeue

LEMMA AloneQuiet ==
  ASSUME NEW p, Sole(p), NEW k \in Id, FireQuiet(p, k), NEW i \in Id PROVE Alone(p, i)'
<1>1. /\ Run(p, k) /\ Pending(k) /\ Requeue(p, k, Hold) /\ Hold \in Nat
      /\ store' = [store EXCEPT ![k] = Released(Claimed(store[k]))]
      /\ UNCHANGED <<used, up, fiber, moves, plains>>
  BY RemindersAssumption DEF FireQuiet, Claimable, ghosts
<1>2. store[k] \in Record /\ k \in DOMAIN store
  BY <1>1, RunFacts DEF Pending
<1>3. /\ DOMAIN store' = DOMAIN store
      /\ store'[k] = Released(Claimed(store[k]))
      /\ \A j \in DOMAIN store : j # k => store'[j] = store[j]
  BY <1>1, <1>2
<1>4. /\ store'[k].due = store[k].due /\ store'[k].sent = store[k].sent
      /\ store'[k].takeover = (store[k].takeover \/ store[k].claimed # NoStamp)
  BY <1>2, <1>3 DEF Released, Claimed, Record
<1>5. Pending(k)' /\ (Evidence(k) => Evidence(k)')
  BY <1>1, <1>2, <1>3, <1>4 DEF Pending, Evidence
<1>. QED
  BY <1>1, <1>3, <1>4, <1>5, AloneRequeue

LEMMA AloneBegin ==
  ASSUME NEW p, Sole(p), NEW k \in Id, NEW f \in Fiber, FireBegin(p, k, f), NEW i \in Id
  PROVE  Alone(p, i)'
<1>1. /\ p \in Proc /\ TypeOK /\ Alone(p, k) /\ up[p]
      /\ Empty(Consumed(p, k)[k])
      /\ \A j \in Id \ {k} : Consumed(p, k)[j] = jobs[p][j]
      /\ \A g \in Fiber : ~Sends(k, g)
      /\ k \in used /\ k \notin Unknown /\ Pending(k)
      /\ store[k] \in Record /\ store[k].due \in Int /\ store[k].due <= 0
  BY RunFacts DEF FireBegin, Claimable
<1>2. /\ jobs'[p] = Consumed(p, k)
      /\ store' = [store EXCEPT ![k] = Claimed(store[k])]
      /\ fiber[f] = Idle
      /\ fiber' = [fiber EXCEPT ![f] =
                     [phase |-> "sending", proc |-> p, id |-> k, due |-> store[k].due,
                      plain |-> ~Claimed(store[k]).takeover, move |-> moves[k]]]
      /\ UNCHANGED <<used, up, moves, plains>>
  BY <1>1 DEF FireBegin, ghosts, TypeOK
<1>3. /\ k \in DOMAIN store /\ k \in DOMAIN store' /\ DOMAIN store' = DOMAIN store
      /\ store'[k] = Claimed(store[k])
      /\ \A j \in DOMAIN store : j # k => store'[j] = store[j]
  BY <1>1, <1>2 DEF Pending
<1>4. /\ fiber'[f].phase = "sending" /\ fiber'[f].id = k /\ fiber'[f].due = store[k].due
      /\ fiber'[f].plain = ~Claimed(store[k]).takeover /\ fiber'[f].move = moves[k]
      /\ fiber'[f] # Idle
      /\ \A g \in Fiber \ {f} : fiber'[g] = fiber[g]
  BY <1>1, <1>2 DEF TypeOK, Idle
<1>5. CASE i # k
  <2>1. \A g \in Fiber : (Sends(i, g)' <=> Sends(i, g)) /\ (Sends(i, g) => fiber'[g] = fiber[g])
    BY <1>2, <1>4, <1>5 DEF Sends
  <2>2. i \in DOMAIN store => store'[i] = store[i]
    BY <1>3, <1>5
  <2>. QED
    BY <1>1, <1>2, <1>3, <1>5, <2>1, <2>2, OthersAlone
<1>6. CASE i = k
  <2>1. \A g \in Fiber : Sends(i, g)' <=> g = f
    BY <1>1, <1>4, <1>6 DEF Sends
  <2>2. Empty(jobs'[p][i]) /\ Single(jobs'[p][i])
    BY <1>1, <1>2, <1>6, EmptySingle
  <2>3. OneClock(p, i)'
    BY <2>1, <2>2 DEF OneClock
  <2>4. /\ store'[i].due = store[k].due
        /\ store'[i].claimed = 0
        /\ Claimed(store[k]).takeover = (store[k].takeover \/ store[k].claimed # NoStamp)
    BY <1>1, <1>3, <1>6, ZenonT(30) DEF Claimed, Record
  <2>5. InTime(p, i)'
    <3>1. moves[k] = 0
      BY <1>1 DEF Alone, OneLabel
    <3>2. fiber'[f].due <= 0 /\ fiber'[f].move = 0 /\ up'[p] /\ store'[i].due <= 0
      BY <1>1, <1>2, <1>4, <2>4, <3>1
    <3>. QED
      BY <2>1, <2>2, <3>2 DEF InTime, Empty
  <2>6. Evidence(i)'
    BY <2>4 DEF Evidence
  <2>7. fiber'[f].plain => plains[i] = 0
    <3>1. ASSUME fiber'[f].plain PROVE ~Evidence(k)
      BY <1>1, <1>4, <2>4, <3>1 DEF Evidence, Pending
    <3>2. plains[k] > 0 => Evidence(k)
      BY <1>1, <1>3 DEF Alone, OneLabel
    <3>3. plains \in [Id -> 0 .. 2]
      BY <1>1 DEF TypeOK
    <3>. QED
      BY <1>6, <3>1, <3>2, <3>3
  <2>8. OneLabel(i)'
    BY <1>1, <1>2, <1>6, <2>1, <2>6, <2>7 DEF Alone, OneLabel, PlainFlight
  <2>. QED
    BY <2>3, <2>5, <2>8 DEF Alone
<1>. QED
  BY <1>5, <1>6
(* The row of a settled reminder: a series has the job of its next          *)
(* occurrence, and its record that due time.                               *)
LEMMA SettledRow ==
  ASSUME NEW q \in Queue, NEW k \in Id, NEW d \in Int, NEW r \in Record, Empty(q[k])
  PROVE  /\ SettledQueue(k, q, d) \in Queue
         /\ Single(SettledQueue(k, q, d)[k])
         /\ \A x \in Delay : SettledQueue(k, q, d)[k][x] > 0 => SettledRecord(k, r, d).due <= x
         /\ \A i \in Id \ {k} : SettledQueue(k, q, d)[i] = q[i]
         /\ k \notin Series => SettledRecord(k, r, d).sent
<1>1. NextDue(d) \in Int /\ SettledQueue(k, q, d) \in Queue
  BY NextDueType, SettledQueueType
<1>2. CASE k \in Series
  <2>1. SettledQueue(k, q, d) = Plus(q, k, NextDue(d))
    BY <1>2 DEF SettledQueue
  <2>2. SettledRecord(k, r, d).due = NextDue(d)
    BY <1>2 DEF SettledRecord, Rolled, Record
  <2>3. /\ Single(Plus(q, k, NextDue(d))[k])
        /\ \A x \in Delay : Plus(q, k, NextDue(d))[k][x] > 0 => x = SoonIn(NextDue(d))
        /\ \A j \in Id \ {k} : Plus(q, k, NextDue(d))[j] = q[j]
    BY <1>1, OneJob
  <2>. QED
    BY <1>1, <1>2, <2>1, <2>2, <2>3 DEF SoonIn
<1>3. CASE k \notin Series
  <2>1. SettledQueue(k, q, d) = q
    BY <1>3 DEF SettledQueue
  <2>2. SettledRecord(k, r, d).sent
    BY <1>3 DEF SettledRecord, Retired, Record
  <2>3. \A x \in Delay : ~(q[k][x] > 0)
    BY DEF Empty
  <2>. QED
    BY <1>1, <1>3, <2>1, <2>2, <2>3, EmptySingle
<1>. QED
  BY <1>2, <1>3

LEMMA AloneWithheld ==
  ASSUME NEW p, Sole(p), NEW k \in Id, FireWithheld(p, k), NEW i \in Id PROVE Alone(p, i)'
<1>1. /\ p \in Proc /\ TypeOK /\ Alone(p, k)
      /\ Consumed(p, k) \in Queue /\ Empty(Consumed(p, k)[k])
      /\ \A j \in Id \ {k} : Consumed(p, k)[j] = jobs[p][j]
      /\ \A f \in Fiber : ~Sends(k, f)
      /\ k \in used /\ Pending(k) /\ k \in Unknown
      /\ store[k] \in Record /\ store[k].due \in Int
  BY RunFacts DEF FireWithheld, Claimable
<1>2. PICK d \in Int : d = store[k].due
  BY <1>1
<1>3. PICK r \in Record : r = Claimed(store[k])
  BY <1>1, ClaimTypes
<1>4. /\ store' = [store EXCEPT ![k] = SettledRecord(k, r, d)]
      /\ jobs'[p] = SettledQueue(k, Consumed(p, k), d)
      /\ UNCHANGED <<used, up, fiber, moves, plains>>
  BY <1>1, <1>2, <1>3 DEF FireWithheld, ghosts, TypeOK
<1>5. /\ DOMAIN store' = DOMAIN store /\ k \in DOMAIN store
      /\ store'[k] = SettledRecord(k, r, d)
      /\ \A j \in DOMAIN store : j # k => store'[j] = store[j]
  BY <1>1, <1>4 DEF Pending
<1>6. /\ Single(jobs'[p][k])
      /\ \A x \in Delay : jobs'[p][k][x] > 0 => SettledRecord(k, r, d).due <= x
      /\ \A j \in Id \ {k} : jobs'[p][j] = jobs[p][j]
  <2>1. PICK q \in Queue : q = Consumed(p, k)
    BY <1>1
  <2>2. /\ Single(SettledQueue(k, q, d)[k])
        /\ \A x \in Delay : SettledQueue(k, q, d)[k][x] > 0 => SettledRecord(k, r, d).due <= x
        /\ \A j \in Id \ {k} : SettledQueue(k, q, d)[j] = q[j]
    BY <1>1, <2>1, SettledRow
  <2>. QED
    BY <1>1, <1>4, <2>1, <2>2
<1>7. \A f \in Fiber : (Sends(i, f)' <=> Sends(i, f)) /\ fiber'[f] = fiber[f]
  BY <1>4 DEF Sends
<1>8. CASE i # k
  <2>1. /\ i \in DOMAIN store' <=> i \in DOMAIN store
        /\ i \in DOMAIN store => store'[i] = store[i]
    BY <1>5, <1>8
  <2>. QED
    BY <1>4, <1>6, <1>7, <1>8, <2>1, OthersAlone
<1>9. CASE i = k
  <2>1. \A f \in Fiber : ~Sends(i, f)'
    BY <1>1, <1>7, <1>9
  <2>2. OneClock(p, i)'
    BY <1>1, <1>4, <1>6, <1>9, <2>1 DEF OneClock
  <2>3. InTime(p, i)'
    BY <1>5, <1>6, <1>9, <2>1 DEF InTime
  <2>4. OneLabel(i)'
    <3>1. plains[k] = 0 /\ moves[k] = 0
      BY <1>1 DEF Alone, OneLabel
    <3>. QED
      BY <1>4, <1>9, <2>1, <3>1 DEF OneLabel, PlainFlight
  <2>. QED
    BY <2>2, <2>3, <2>4 DEF Alone
<1>. QED
  BY <1>8, <1>9
-----------------------------------------------------------------------------
(* The end of a send: its reminder had no job, and no other send.          *)

LEMMA SendFacts ==
  ASSUME NEW p, Sole(p), NEW f \in Fiber, fiber[f] # Idle, NEW k, k = fiber[f].id
  PROVE  /\ p \in Proc /\ TypeOK /\ k \in Id /\ Alone(p, k) /\ jobs[p] \in Queue
         /\ fiber[f] \in Flight /\ fiber[f].proc = p
         /\ fiber[f].due \in Int /\ fiber[f].due <= 0
         /\ fiber[f].move = 0 /\ moves[k] = 0 /\ up[p]
         /\ Empty(jobs[p][k]) /\ Sends(k, f)
         /\ \A g \in Fiber : Sends(k, g) <=> g = f
         /\ k \in used /\ k \notin Unknown
         /\ Pending(k) => store[k].due <= 0
         /\ plains[k] \in 0 .. 1
<1>1. /\ fiber[f] \in Flight /\ fiber[f].proc = p /\ k \in Id
      /\ fiber[f].due \in Int /\ Sends(k, f)
  BY FlightFacts DEF Sole
<1>2. p \in Proc /\ TypeOK /\ Alone(p, k) /\ jobs[p] \in Queue /\ moves[k] = 0
  BY <1>1, SoleFacts
<1>3. /\ Empty(jobs[p][k])
      /\ \A g \in Fiber : Sends(k, g) <=> g = f
  BY <1>1, <1>2 DEF Alone, OneClock
<1>4. /\ fiber[f].due <= 0 /\ fiber[f].move = 0 /\ up[p]
      /\ Pending(k) => store[k].due <= 0
  BY <1>1, <1>2 DEF Alone, InTime
<1>5. k \in used /\ k \notin Unknown
  BY <1>1, <1>2 DEF Sole, UnusedIsBlank, Alone, OneLabel
<1>6. plains[k] \in 0 .. 1
  <2>1. plains \in [Id -> 0 .. 2] /\ plains[k] <= 1
    BY <1>2 DEF TypeOK, Alone, OneLabel
  <2>. QED
    BY <1>1, <2>1
<1>. QED
  BY <1>1, <1>2, <1>3, <1>4, <1>5, <1>6

LEMMA AloneAccept ==
  ASSUME NEW p, Sole(p), NEW f \in Fiber, Accept(f), NEW i \in Id PROVE Alone(p, i)'
<1>0. fiber[f] # Idle
  BY DEF Accept, Idle
<1>1. PICK k : k = fiber[f].id
  OBVIOUS
<1>2. /\ p \in Proc /\ TypeOK /\ k \in Id /\ Alone(p, k) /\ Empty(jobs[p][k])
      /\ fiber[f] \in Flight /\ fiber[f].due <= 0 /\ fiber[f].move = 0 /\ moves[k] = 0 /\ up[p]
      /\ Sends(k, f) /\ k \in used /\ k \notin Unknown
      /\ \A g \in Fiber : Sends(k, g) <=> g = f
      /\ Pending(k) => store[k].due <= 0
      /\ plains[k] \in 0 .. 1
  BY <1>0, <1>1, SendFacts
<1>3. /\ fiber' = [fiber EXCEPT ![f] = [fiber[f] EXCEPT !.phase = "reached"]]
      /\ plains' = IF fiber[f].plain THEN [plains EXCEPT ![k] = @ + 1] ELSE plains
      /\ UNCHANGED <<store, used, up, jobs, moves>>
      /\ fiber[f].phase = "sending"
  BY <1>1, <1>2 DEF Accept
<1>4. /\ fiber'[f] = [fiber[f] EXCEPT !.phase = "reached"]
      /\ \A g \in Fiber \ {f} : fiber'[g] = fiber[g]
  BY <1>2, <1>3 DEF TypeOK
<1>5. /\ fiber'[f].phase = "reached" /\ fiber'[f].id = k /\ fiber'[f].due = fiber[f].due
      /\ fiber'[f].move = 0 /\ fiber'[f] # Idle
  BY <1>1, <1>2, <1>4 DEF Flight, Idle
<1>6. CASE i # k
  <2>1. \A g \in Fiber : (Sends(i, g)' <=> Sends(i, g)) /\ (Sends(i, g) => fiber'[g] = fiber[g])
    BY <1>1, <1>4, <1>5, <1>6 DEF Sends
  <2>2. plains'[i] = plains[i]
    BY <1>2, <1>3, <1>6 DEF TypeOK
  <2>. QED
    BY <1>2, <1>3, <1>6, <2>1, <2>2, OthersAlone
<1>7. CASE i = k
  <2>1. \A g \in Fiber : Sends(i, g)' <=> g = f
    BY <1>2, <1>4, <1>5, <1>7 DEF Sends
  <2>2. OneClock(p, i)'
    BY <1>2, <1>3, <1>7, <2>1 DEF Alone, OneClock
  <2>3. InTime(p, i)'
    <3>1. fiber'[f].due <= 0 /\ fiber'[f].move = 0 /\ up'[p]
      BY <1>2, <1>3, <1>5
    <3>2. Pending(i)' <=> Pending(i)
      BY <1>3 DEF Pending
    <3>. QED
      BY <1>2, <1>3, <1>7, <2>1, <3>1, <3>2 DEF Alone, InTime
  <2>4. \A g \in Fiber : ~PlainFlight(i, g)'
    BY <1>5, <2>1 DEF PlainFlight
  <2>5. /\ plains'[i] = IF fiber[f].plain THEN plains[i] + 1 ELSE plains[i]
    BY <1>2, <1>3, <1>7 DEF TypeOK
  <2>6. fiber[f].plain => plains[i] = 0 /\ (i \in DOMAIN store => Evidence(i))
    BY <1>2, <1>3, <1>7 DEF Alone, OneLabel, PlainFlight
  <2>7. plains'[i] <= 1
    BY <1>2, <1>7, <2>5, <2>6
  <2>8. ASSUME i \in DOMAIN store', plains'[i] > 0 PROVE Evidence(i)'
    <3>1. Evidence(i)
      BY <1>2, <1>3, <1>7, <2>5, <2>6, <2>8 DEF Alone, OneLabel
    <3>. QED
      BY <1>3, <3>1 DEF Evidence
  <2>9. OneLabel(i)'
    BY <1>2, <1>3, <1>7, <2>4, <2>7, <2>8 DEF OneLabel
  <2>. QED
    BY <2>2, <2>3, <2>9 DEF Alone
<1>. QED
  BY <1>6, <1>7

LEMMA AloneRaise ==
  ASSUME NEW p, Sole(p), NEW f \in Fiber, Raise(f), NEW i \in Id PROVE Alone(p, i)'
<1>0. fiber[f] # Idle
  BY DEF Raise, Idle
<1>1. PICK k : k = fiber[f].id
  OBVIOUS
<1>2. /\ p \in Proc /\ TypeOK /\ k \in Id /\ Alone(p, k) /\ jobs[p] \in Queue
      /\ Empty(jobs[p][k]) /\ fiber[f].proc = p
      /\ k \in used
      /\ \A g \in Fiber : Sends(k, g) <=> g = f
      /\ Pending(k) => store[k].due <= 0
  BY <1>0, <1>1, SendFacts
<1>3. /\ fiber' = [fiber EXCEPT ![f] = Idle]
      /\ jobs'[p] = Plus(jobs[p], k, Retry)
      /\ UNCHANGED <<store, used, up, moves, plains>>
  BY <1>1, <1>2 DEF Raise, Schedule, ghosts, TypeOK
<1>4. /\ Single(jobs'[p][k])
      /\ \A j \in Id \ {k} : jobs'[p][j] = jobs[p][j]
  BY <1>2, <1>3, OneJob, DelaysType
<1>5. fiber'[f] = Idle /\ \A g \in Fiber \ {f} : fiber'[g] = fiber[g]
  BY <1>2, <1>3 DEF TypeOK
<1>6. CASE i # k
  <2>1. \A g \in Fiber : (Sends(i, g)' <=> Sends(i, g)) /\ (Sends(i, g) => fiber'[g] = fiber[g])
    BY <1>1, <1>5, <1>6 DEF Sends
  <2>. QED
    BY <1>2, <1>3, <1>4, <1>6, <2>1, OthersAlone
<1>7. CASE i = k
  <2>1. \A g \in Fiber : ~Sends(i, g)'
    BY <1>2, <1>5, <1>7 DEF Sends
  <2>2. OneClock(p, i)'
    BY <1>2, <1>3, <1>4, <1>7, <2>1 DEF OneClock
  <2>3. InTime(p, i)'
    <3>1. ASSUME NEW x \in Delay, Pending(i) PROVE store[i].due <= x
      <4>1. store[i].due \in Int /\ store[i].due <= 0
        BY <1>2, <1>7, <3>1, SoleFacts DEF Pending
      <4>. QED
        BY <4>1 DEF Delay
    <3>2. Pending(i)' <=> Pending(i)
      BY <1>3 DEF Pending
    <3>. QED
      BY <1>3, <2>1, <3>1, <3>2 DEF InTime
  <2>4. OneLabel(i)'
    BY <1>2, <1>3, <1>7, <2>1 DEF Alone, OneLabel, PlainFlight, Evidence
  <2>. QED
    BY <2>2, <2>3, <2>4 DEF Alone
<1>. QED
  BY <1>6, <1>7

LEMMA AloneFinish ==
  ASSUME NEW p, Sole(p), NEW f \in Fiber, Finish(f), NEW i \in Id PROVE Alone(p, i)'
<1>0. fiber[f] # Idle
  BY DEF Finish, Idle
<1>1. PICK k : k = fiber[f].id
  OBVIOUS
<1>2. /\ p \in Proc /\ TypeOK /\ k \in Id /\ Alone(p, k) /\ jobs[p] \in Queue
      /\ Empty(jobs[p][k]) /\ fiber[f].proc = p /\ fiber[f].due \in Int
      /\ k \in used /\ k \notin Unknown
      /\ \A g \in Fiber : Sends(k, g) <=> g = f
  BY <1>0, <1>1, SendFacts
<1>3. PICK d \in Int : d = fiber[f].due
  BY <1>2
<1>4. /\ fiber' = [fiber EXCEPT ![f] = Idle]
      /\ store' = Update(store, k, SettledRecord(k, store[k], d))
      /\ jobs'[p] = SettledQueue(k, jobs[p], d)
      /\ plains' = [j \in Id |-> IF j \in {k} \cap Series THEN 0 ELSE plains[j]]
      /\ UNCHANGED <<used, up, moves>>
  BY <1>1, <1>2, <1>3 DEF Finish, NewPromise, TypeOK
<1>5. /\ DOMAIN store' = DOMAIN store
      /\ k \in DOMAIN store => store'[k] = SettledRecord(k, store[k], d)
      /\ \A j \in DOMAIN store : j # k => store'[j] = store[j]
  BY <1>4 DEF Update
<1>6. fiber'[f] = Idle /\ \A g \in Fiber \ {f} : fiber'[g] = fiber[g]
  BY <1>2, <1>4 DEF TypeOK
<1>7. PICK r \in Record : k \in DOMAIN store => r = store[k]
  <2>1. k \in DOMAIN store => store[k] \in Record
    BY <1>2, SoleFacts
  <2>2. NewRecord(0) \in Record
    BY NewType
  <2>. QED
    BY <2>1, <2>2
<1>8. /\ Single(jobs'[p][k])
      /\ \A x \in Delay : jobs'[p][k][x] > 0 => SettledRecord(k, r, d).due <= x
      /\ \A j \in Id \ {k} : jobs'[p][j] = jobs[p][j]
      /\ k \notin Series => SettledRecord(k, r, d).sent
  BY <1>2, <1>4, SettledRow
<1>9. CASE i # k
  <2>1. \A g \in Fiber : (Sends(i, g)' <=> Sends(i, g)) /\ (Sends(i, g) => fiber'[g] = fiber[g])
    BY <1>1, <1>6, <1>9 DEF Sends
  <2>2. plains'[i] = plains[i]
    BY <1>4, <1>9
  <2>. QED
    BY <1>2, <1>4, <1>5, <1>8, <1>9, <2>1, <2>2, OthersAlone
<1>10. CASE i = k
  <2>1. \A g \in Fiber : ~Sends(i, g)'
    BY <1>2, <1>6, <1>10 DEF Sends
  <2>2. OneClock(p, i)'
    BY <1>2, <1>4, <1>8, <1>10, <2>1 DEF OneClock
  <2>3. InTime(p, i)'
    <3>1. Pending(i)' => store'[i] = SettledRecord(k, r, d)
      BY <1>5, <1>7, <1>10 DEF Pending
    <3>. QED
      BY <1>8, <1>10, <2>1, <3>1 DEF InTime
  <2>4. /\ plains'[i] = IF i \in Series THEN 0 ELSE plains[i]
        /\ plains[i] <= 1 /\ moves'[i] = 0
    BY <1>2, <1>4, <1>10 DEF Alone, OneLabel
  <2>5. i \in DOMAIN store' /\ plains'[i] > 0 => Evidence(i)'
    <3>1. i \notin Series /\ i \in DOMAIN store' => store'[i].sent
      BY <1>5, <1>7, <1>8, <1>10
    <3>. QED
      BY <2>4, <3>1 DEF Evidence
  <2>6. OneLabel(i)'
    BY <1>2, <1>10, <2>1, <2>4, <2>5 DEF OneLabel, PlainFlight
  <2>. QED
    BY <2>2, <2>3, <2>6 DEF Alone
<1>. QED
  BY <1>9, <1>10
-----------------------------------------------------------------------------
(* The clock: what was due stays due, and a job comes nearer no faster than *)
(* the due time of its record.                                             *)
LEMMA SoonerFacts ==
  ASSUME NEW i, NEW d \in Int
  PROVE  /\ Sooner(i, d) \in Int
         /\ d <= 0 => Sooner(i, d) <= 0
         /\ \A x \in Nat : d <= x + 1 => Sooner(i, d) <= x
BY RemindersAssumption DEF Sooner

LEMMA AloneTick ==
  ASSUME NEW p, Sole(p), Tick, NEW i \in Id PROVE Alone(p, i)'
<1>1. /\ p \in Proc /\ TypeOK /\ Alone(p, i) /\ jobs[p][i] \in [Delay -> Nat]
      /\ i \in DOMAIN store => store[i] \in Record /\ store[i].due \in Int
  BY SoleFacts
<1>2. jobs'[p][i] = Nearer(jobs[p][i])
  BY <1>1 DEF Tick
<1>3. UNCHANGED <<used, up, moves, plains>>
  BY DEF Tick, ghosts
<1>4. /\ i \in DOMAIN store' <=> i \in DOMAIN store
      /\ i \in DOMAIN store => /\ store'[i].due = Sooner(i, store[i].due)
                               /\ store'[i].sent = store[i].sent
                               /\ store'[i].takeover = store[i].takeover
                               /\ store'[i].claimed = Older(store[i].claimed)
  <2>1. i \in DOMAIN store => store'[i] = [store[i] EXCEPT !.due = Sooner(i, @),
                                                           !.claimed = Older(@),
                                                           !.delivered = Older(@)]
    BY DEF Tick
  <2>2. DOMAIN store' = DOMAIN store
    BY DEF Tick
  <2>. QED
    BY <1>1, <2>1, <2>2 DEF Record
<1>5. ASSUME NEW f \in Fiber
      PROVE  /\ Sends(i, f)' <=> Sends(i, f)
             /\ Sends(i, f) => /\ fiber'[f].due = Sooner(i, fiber[f].due)
                               /\ fiber'[f].move = fiber[f].move
                               /\ fiber'[f].phase = fiber[f].phase
                               /\ fiber'[f].plain = fiber[f].plain
                               /\ fiber[f].due \in Int
  <2>1. CASE fiber[f] = Idle
    <3>1. fiber'[f] = Idle
      BY <2>1 DEF Tick
    <3>. QED
      BY <2>1, <3>1 DEF Sends
  <2>2. CASE fiber[f] # Idle
    <3>1. fiber[f] \in Flight
      BY <1>1, <2>2 DEF TypeOK
    <3>2. fiber'[f] = [fiber[f] EXCEPT !.due = Sooner(fiber[f].id, @)]
      BY <2>2 DEF Tick
    <3>3. /\ fiber'[f].id = fiber[f].id /\ fiber'[f].due = Sooner(fiber[f].id, fiber[f].due)
          /\ fiber'[f].move = fiber[f].move /\ fiber'[f].phase = fiber[f].phase
          /\ fiber'[f].plain = fiber[f].plain /\ fiber'[f] # Idle /\ fiber[f].due \in Int
      BY <3>1, <3>2 DEF Flight, Idle
    <3>. QED
      BY <2>2, <3>3 DEF Sends
  <2>. QED
    BY <2>1, <2>2
<1>6. /\ Single(jobs[p][i]) => Single(jobs'[p][i])
      /\ Empty(jobs[p][i]) => Empty(jobs'[p][i])
      /\ \A d \in Delay : jobs'[p][i][d] > 0 =>
           \E e \in Delay : jobs[p][i][e] > 0 /\ (d = 0 => e <= 1) /\ (d > 0 => e = d + 1)
  BY <1>1, <1>2, NearerSingle
<1>7. OneClock(p, i)'
  BY <1>1, <1>3, <1>5, <1>6 DEF Alone, OneClock
<1>8. InTime(p, i)'
  <2>1. ASSUME NEW d \in Delay, jobs'[p][i][d] > 0, Pending(i)' PROVE store'[i].due <= d
    <3>1. PICK e \in Delay : jobs[p][i][e] > 0 /\ (d = 0 => e <= 1) /\ (d > 0 => e = d + 1)
      BY <1>6, <2>1
    <3>2. Pending(i)
      BY <1>4, <2>1 DEF Pending
    <3>3. store[i].due <= e /\ store[i].due \in Int /\ store'[i].due = Sooner(i, store[i].due)
      BY <1>1, <1>4, <3>1, <3>2 DEF Alone, InTime, Pending
    <3>4. d \in Nat /\ store[i].due <= d + 1
      BY <3>1, <3>3 DEF Delay
    <3>. QED
      BY <3>3, <3>4, SoonerFacts
  <2>2. ASSUME NEW f \in Fiber, Sends(i, f)'
        PROVE  /\ fiber'[f].due <= 0 /\ fiber'[f].move = 0 /\ up'[p]
               /\ Pending(i)' => store'[i].due <= 0
    <3>1. /\ fiber[f].due <= 0 /\ fiber[f].move = 0 /\ up[p]
          /\ Pending(i) => store[i].due <= 0
      BY <1>1, <1>5, <2>2 DEF Alone, InTime
    <3>2. fiber'[f].due <= 0 /\ fiber'[f].move = 0
      BY <1>5, <2>2, <3>1, SoonerFacts
    <3>3. ASSUME Pending(i)' PROVE store'[i].due <= 0
      <4>1. Pending(i) /\ i \in DOMAIN store
        BY <1>4, <3>3 DEF Pending
      <4>. QED
        BY <1>1, <1>4, <3>1, <4>1, SoonerFacts
    <3>. QED
      BY <1>3, <3>1, <3>2, <3>3
  <2>. QED
    BY <2>1, <2>2 DEF InTime
<1>9. OneLabel(i)'
  <2>1. i \in DOMAIN store => (Evidence(i) => Evidence(i)')
    <3>1. ASSUME NEW a \in Stamp, a # NoStamp PROVE Older(a) # NoStamp
      BY <3>1, OldAgeType DEF Older, Stamp
    <3>2. i \in DOMAIN store => store[i].claimed \in Stamp
      BY <1>1 DEF Record
    <3>. QED
      BY <1>4, <3>1, <3>2 DEF Evidence
  <2>2. \A f \in Fiber : PlainFlight(i, f)' => PlainFlight(i, f)
    BY <1>5 DEF PlainFlight
  <2>. QED
    BY <1>1, <1>3, <1>4, <1>5, <2>1, <2>2 DEF Alone, OneLabel
<1>. QED
  BY <1>7, <1>8, <1>9 DEF Alone

LEMMA AloneStep ==
  ASSUME NEW p, Sole(p), [Next]_vars PROVE AllAlone(p)'
<1>. SUFFICES ASSUME NEW i \in Id PROVE Alone(p, i)'
  BY DEF AllAlone
<1>0. Proc = {p} /\ MaxMoves = 0
  BY DEF Sole
<1>1. CASE \E q \in Proc : Start(q) \/ Crash(q)
  BY <1>0, <1>1, AloneStart, AloneCrash
<1>2. ASSUME NEW q \in Proc, NEW k \in Id, Converse(q, k) PROVE Alone(p, i)'
  <2>0. Ahead \subseteq Int
    BY RemindersAssumption
  <2>1. ASSUME NEW d \in Int PROVE ~Reschedule(p, k, d)
    <3>1. moves[k] = 0
      BY SoleFacts
    <3>. QED
      BY <1>0, <3>1 DEF Reschedule
  <2>2. ASSUME NEW d \in Int, Create(p, k, d) \/ Snooze(p, k, d) PROVE CreateAs(p, k, d)
    BY <2>2 DEF Create, Snooze
  <2>. QED
    BY <1>0, <1>2, <2>0, <2>1, <2>2, AloneCancel, AloneCreate DEF Converse
<1>3. ASSUME NEW q \in Proc, NEW k \in Id, Fire(q, k) PROVE Alone(p, i)'
  BY <1>0, <1>3, AloneSkip, AloneDefer, AloneQuiet, AloneWithheld, AloneBegin DEF Fire
<1>4. ASSUME NEW f \in Fiber, Accept(f) \/ Raise(f) \/ Finish(f) PROVE Alone(p, i)'
  BY <1>4, AloneAccept, AloneRaise, AloneFinish
<1>5. CASE SetQuiet \/ UNCHANGED vars
  <2>1. UNCHANGED <<store, used, up, jobs, fiber, moves, plains>>
    BY <1>5 DEF SetQuiet, vars, ghosts
  <2>2. \A f \in Fiber : (Sends(i, f)' <=> Sends(i, f)) /\ fiber'[f] = fiber[f]
    BY <2>1 DEF Sends
  <2>3. p \in Proc /\ Alone(p, i)
    BY SoleFacts
  <2>. QED
    BY <2>1, <2>2, <2>3, AloneFrame
<1>6. CASE Tick
  BY <1>6, AloneTick
<1>. QED
  BY <1>1, <1>2, <1>3, <1>4, <1>5, <1>6 DEF Next

(* One clock is one timer. *)
LEMMA AloneTells ==
  ASSUME NEW p, Sole(p) PROVE RemindersInv
<1>1. Proc = {p} /\ TypeOK
  BY DEF Sole
<1>2. OnePlainCopy
  BY SoleFacts DEF OnePlainCopy, Alone, OneLabel
<1>3. NeverEarly
  <2>1. ASSUME NEW f \in Fiber, fiber[f] # Idle PROVE fiber[f].due <= 0
    <3>1. PICK k : k = fiber[f].id
      OBVIOUS
    <3>. QED
      BY <2>1, <3>1, SendFacts
  <2>. QED
    BY <2>1 DEF NeverEarly
<1>4. ASSUME NEW q \in Proc, NEW i \in Id
      PROVE  Cardinality(Timers(q, i)) <= 1 /\ \A d \in Delay : jobs[q][i][d] <= 1
  <2>1. q = p
    BY <1>1
  <2>2. OneClock(p, i) /\ jobs[p][i] \in [Delay -> Nat]
    BY SoleFacts DEF Alone
  <2>3. \A d \in Delay : jobs[q][i][d] <= 1
    BY <2>1, <2>2 DEF OneClock, Single
  <2>4. Timers(q, i) = {} \/ \E t : Timers(q, i) = {t}
    <3>1. CASE \E d \in Delay : jobs[p][i][d] > 0
      <4>1. PICK d \in Delay : jobs[p][i][d] > 0
        BY <3>1
      <4>2. \A e \in Delay : jobs[p][i][e] > 0 => e = d
        BY <2>2, <4>1 DEF OneClock, Single
      <4>3. \A f \in Fiber : ~Sends(i, f)
        BY <2>2, <4>1 DEF OneClock, Empty
      <4>4. Timers(q, i) = {<<"job", d>>}
        BY <2>1, <4>1, <4>2, <4>3 DEF Timers
      <4>. QED
        BY <4>4
    <3>2. CASE ~(\E d \in Delay : jobs[p][i][d] > 0) /\ \E f \in Fiber : Sends(i, f)
      <4>1. PICK f \in Fiber : Sends(i, f)
        BY <3>2
      <4>2. \A g \in Fiber : Sends(i, g) => g = f
        BY <2>2, <4>1 DEF OneClock
      <4>3. fiber[f].proc = p
        BY <1>1, <4>1, FlightFacts DEF Sends
      <4>4. Timers(q, i) = {<<"fiber", f>>}
        BY <2>1, <3>2, <4>1, <4>2, <4>3 DEF Timers
      <4>. QED
        BY <4>4
    <3>3. CASE ~(\E d \in Delay : jobs[p][i][d] > 0) /\ ~(\E f \in Fiber : Sends(i, f))
      BY <2>1, <3>3 DEF Timers
    <3>. QED
      BY <3>1, <3>2, <3>3
  <2>5. Cardinality(Timers(q, i)) <= 1
    <3>1. CASE Timers(q, i) = {}
      <4>1. Cardinality(Timers(q, i)) = 0
        BY <3>1, FS_EmptySet
      <4>. QED
        BY <4>1
    <3>2. ASSUME NEW t, Timers(q, i) = {t} PROVE Cardinality(Timers(q, i)) <= 1
      <4>1. Cardinality({t}) = 1
        BY FS_Singleton
      <4>. QED
        BY <3>2, <4>1
    <3>. QED
      BY <2>4, <3>1, <3>2
  <2>. QED
    BY <2>3, <2>5
<1>5. OneTimer
  BY <1>4 DEF OneTimer
<1>. QED
  BY <1>2, <1>3, <1>5 DEF RemindersInv

(* In one process, as long as nobody moves a reminder: at most one copy     *)
(* without the label reaches the chat, of a series too; nothing is sent     *)
(* before its time; and every reminder has one timer, however often a send  *)
(* fails, the process crashes in the middle of one, quiet hours hold it or  *)
(* the user cancels it meanwhile (store.py:103-137, scheduler.py:38-143).   *)
(* With a second process the file no longer speaks for one loop, and both   *)
(* the labels of a series and its one timer are lost.                      *)
THEOREM OneVoicePerReminder ==
  ASSUME NEW p, Proc = {p}, MaxMoves = 0
  PROVE  Spec => []RemindersInv
<1>1. Init => AllAlone(p)
  BY AloneInit
<1>2. PromiseInv /\ AllAlone(p) /\ [Next]_vars => AllAlone(p)'
  <2>. SUFFICES ASSUME PromiseInv, AllAlone(p), [Next]_vars PROVE AllAlone(p)'
    OBVIOUS
  <2>1. Sole(p)
    BY DEF PromiseInv, Sole
  <2>. QED
    BY <2>1, AloneStep
<1>3. PromiseInv /\ AllAlone(p) => RemindersInv
  <2>. SUFFICES ASSUME PromiseInv, AllAlone(p) PROVE RemindersInv
    OBVIOUS
  <2>1. Sole(p)
    BY DEF PromiseInv, Sole
  <2>. QED
    BY <2>1, AloneTells
<1>. QED
  BY <1>1, <1>2, <1>3, PromiseInvariant, PTL DEF Spec
=============================================================================

--------------------------- MODULE TriggersProofs ---------------------------
(***************************************************************************)
(* The watch rules and the lines about where the owner is, for any number  *)
(* of rules, places, handlers, nights and failures.                        *)
(***************************************************************************)
EXTENDS EventRules, Whereabouts, FiniteSetTheorems, TLAPS

-----------------------------------------------------------------------------
(***************************************************************************)
(* The watch rules.  What has gone wrong pays for every firing but one:    *)
(* before the one that will be marked, a rule has fired no oftener than    *)
(* something failed.  That is so of a rule whose condition holds and is    *)
(* not marked met, and of one whose message or switch is awaited, though   *)
(* its condition may have come and gone meanwhile.                         *)
(***************************************************************************)
Awaited == at \in {"reply", "switch"}

Owing ==
    /\ at = "nothing" <=> on = {}
    /\ \A r \in holds \ met : fired[r] <= misses
    /\ Awaited => \A r \in on : r \notin met /\ fired[r] <= misses

RulesIInv == EventRulesInv /\ Owing

LEMMA OneAwaited == Cardinality({}) <= 1 /\ \A x : Cardinality({x}) <= 1
<1>1. Cardinality({}) = 0 /\ \A x : Cardinality({x}) = 1
  BY FS_Singleton, FS_EmptySet
<1> QED  BY <1>1

LEMMA InitRules == EventRulesInit => RulesIInv
<1> SUFFICES ASSUME EventRulesInit PROVE RulesIInv
  OBVIOUS
<1> USE EventRulesAssumption DEF EventRulesInit
<1>1. EventRulesTypeOK
  <2>1. holds \subseteq Rule /\ 0 \in 0 .. MaxNight /\ 0 \in 0 .. MaxMisses
    OBVIOUS
  <2> QED  BY <2>1, OneAwaited DEF EventRulesTypeOK
<1>2. OncePerCrossing /\ MetWasHeard /\ Owing
  BY DEF OncePerCrossing, MetWasHeard, Owing, Awaited
<1> QED  BY <1>1, <1>2 DEF RulesIInv, EventRulesInv

LEMMA StepRules == RulesIInv /\ [EventRulesNext]_rulesVars => RulesIInv'
<1> SUFFICES ASSUME RulesIInv, [EventRulesNext]_rulesVars PROVE RulesIInv'
  OBVIOUS
<1> USE EventRulesAssumption
<1>0. EventRulesTypeOK /\ OncePerCrossing /\ MetWasHeard /\ Owing
  BY DEF RulesIInv, EventRulesInv
<1> USE DEF ruleFile, where, firings, outside
<1>a. ASSUME NEW r \in Rule, Creates(r) \/ Cancels(r) \/ Reactivates(r) PROVE RulesIInv'
  BY <1>0, <1>a DEF Creates, Cancels, Reactivates, RulesIInv, EventRulesInv, EventRulesTypeOK,
     OncePerCrossing, MetWasHeard, Owing, Awaited
<1>b. CASE Ticks
  BY <1>0, <1>b DEF Ticks, BetweenTicks, RulesIInv, EventRulesInv, EventRulesTypeOK,
     OncePerCrossing, MetWasHeard, Owing, Awaited
<1>c. ASSUME NEW r \in Rule, ReadFails(r) \/ Rearms(r) \/ Holds(r) PROVE RulesIInv'
  BY <1>0, <1>c, OneAwaited DEF ReadFails, Rearms, Holds, Takes, Passes, Misses, RulesIInv,
     EventRulesInv, EventRulesTypeOK, OncePerCrossing, MetWasHeard, Owing, Awaited
<1>d. ASSUME NEW r \in Rule, SpeaksUp(r) \/ Switches(r) PROVE RulesIInv'
  BY <1>0, <1>d, OneAwaited DEF SpeaksUp, Switches, Begins, Takes, Due, RulesIInv,
     EventRulesInv, EventRulesTypeOK, OncePerCrossing, MetWasHeard, Owing, Awaited
<1>e. ASSUME NEW r \in Rule, Fires(r) PROVE RulesIInv'
  <2> USE DEF Fires, Counted, Marked, Passes
  <2>1. EventRulesTypeOK'
    <3>1. on' \subseteq tick' /\ Cardinality(on') <= 1
      BY <1>0, <1>e, OneAwaited DEF EventRulesTypeOK
    <3>2. /\ at' \in {"nothing", "reply", "switch", "announcement"} /\ tick' \subseteq Rule
          /\ met' \subseteq Rule /\ coolingDown' \subseteq Rule /\ heard' \subseteq Rule
      BY <1>0, <1>e DEF EventRulesTypeOK
    <3>3. fired' \in [Rule -> Nat]
      BY <1>0, <1>e DEF EventRulesTypeOK
    <3> QED  BY <1>0, <1>e, <3>1, <3>2, <3>3 DEF EventRulesTypeOK
  <2>2. OncePerCrossing'
    BY <1>0, <1>e DEF OncePerCrossing, EventRulesTypeOK, Owing, Awaited
  <2>3. MetWasHeard'
    BY <1>0, <1>e DEF MetWasHeard, EventRulesTypeOK
  <2>4. Owing'
    BY <1>0, <1>e DEF OncePerCrossing, Owing, Awaited, EventRulesTypeOK
  <2> QED  BY <2>1, <2>2, <2>3, <2>4 DEF RulesIInv, EventRulesInv
<1>f. ASSUME NEW r \in Rule, Fails(r) PROVE RulesIInv'
  <2> USE DEF Fails, Counted, Passes, Misses
  <2>1. EventRulesTypeOK'
    BY <1>0, <1>f, OneAwaited DEF EventRulesTypeOK, Owing
  <2>2. OncePerCrossing'
    BY <1>0, <1>f DEF OncePerCrossing, EventRulesTypeOK, Owing, Awaited
  <2>3. MetWasHeard'
    BY <1>0, <1>f DEF MetWasHeard, EventRulesTypeOK
  <2>4. Owing'
    BY <1>0, <1>f DEF OncePerCrossing, Owing, Awaited, EventRulesTypeOK
  <2> QED  BY <2>1, <2>2, <2>3, <2>4 DEF RulesIInv, EventRulesInv
<1>g. ASSUME NEW r \in Rule, Announces(r) PROVE RulesIInv'
  BY <1>0, <1>g, OneAwaited DEF Announces, Passes, RulesIInv, EventRulesInv,
     EventRulesTypeOK, OncePerCrossing, MetWasHeard, Owing, Awaited
<1>h. CASE BotRestarts
  <2> USE DEF BotRestarts, Counted, Misses
  <2>0. \/ UNCHANGED <<ruleFile, firings>>
        \/ \E r \in on : Awaited /\ Counted(r) /\ coolingDown' \subseteq Rule /\ UNCHANGED <<rule, met>>
    BY <1>0, <1>h DEF Owing, Awaited, EventRulesTypeOK
  <2>1. EventRulesTypeOK'
    BY <1>0, <1>h, <2>0, OneAwaited DEF EventRulesTypeOK
  <2>2. OncePerCrossing'
    BY <1>0, <1>h, <2>0 DEF OncePerCrossing, EventRulesTypeOK, Owing
  <2>3. MetWasHeard'
    BY <1>0, <1>h, <2>0 DEF MetWasHeard, EventRulesTypeOK
  <2>4. Owing'
    BY <1>0, <1>h, <2>0 DEF OncePerCrossing, Owing, Awaited, EventRulesTypeOK
  <2> QED  BY <2>1, <2>2, <2>3, <2>4 DEF RulesIInv, EventRulesInv
<1>i. ASSUME NEW r \in Rule, Crosses(r) PROVE RulesIInv'
  BY <1>0, <1>i DEF Crosses, RulesIInv, EventRulesInv,
     EventRulesTypeOK, OncePerCrossing, MetWasHeard, Owing, Awaited
<1>j. ASSUME NEW r \in Rule, Cools(r) PROVE RulesIInv'
  BY <1>0, <1>j DEF Cools, RulesIInv, EventRulesInv,
     EventRulesTypeOK, OncePerCrossing, MetWasHeard, Owing, Awaited
<1>k. CASE QuietBegins \/ QuietEnds \/ Engages \/ Releases
  <2> USE DEF QuietBegins, QuietEnds, Engages, Releases, Misses
  <2>1. EventRulesTypeOK'
    <3>1. nights' \in 0 .. MaxNight /\ misses' \in 0 .. MaxMisses
      BY <1>0, <1>k DEF EventRulesTypeOK
    <3> QED  BY <1>0, <1>k, <3>1 DEF EventRulesTypeOK
  <2>2. OncePerCrossing'
    BY <1>0, <1>k DEF OncePerCrossing, EventRulesTypeOK, Owing, Awaited
  <2>3. MetWasHeard'
    BY <1>0, <1>k DEF MetWasHeard, EventRulesTypeOK
  <2>4. Owing'
    BY <1>0, <1>k DEF OncePerCrossing, Owing, Awaited, EventRulesTypeOK
  <2> QED  BY <2>1, <2>2, <2>3, <2>4 DEF RulesIInv, EventRulesInv
<1>l. CASE UNCHANGED rulesVars
  BY <1>0, <1>l DEF rulesVars, RulesIInv, EventRulesInv, EventRulesTypeOK, OncePerCrossing,
     MetWasHeard, Owing, Awaited
<1>m. ASSUME NEW r \in Rule, Steps(r) PROVE RulesIInv'
  BY <1>m, <1>c, <1>d, <1>e, <1>f, <1>g DEF Steps
<1> QED
  BY <1>a, <1>b, <1>h, <1>i, <1>j, <1>k, <1>l, <1>m DEF EventRulesNext

(***************************************************************************)
(* A watch rule speaks once for a crossing, a failed send or a crash aside *)
(* (EventRulesInv), and what its file calls alerted was (event_rules.py,   *)
(* check_rules).                                                           *)
(***************************************************************************)
THEOREM RulesFireOnce == EventRulesSpec => []EventRulesInv
<1>1. EventRulesSpec => []RulesIInv
  BY InitRules, StepRules, PTL DEF EventRulesSpec
<1>2. RulesIInv => EventRulesInv
  BY DEF RulesIInv
<1> QED  BY <1>1, <1>2, PTL
-----------------------------------------------------------------------------
(***************************************************************************)
(* Whereabouts.  "Nearly home" disarms the file and only a fix from far    *)
(* off, with which a trip begins, arms it again; "you are at" puts the     *)
(* place among those the last fix was inside.  So a line that could be     *)
(* told again is paid for: by a save that was loaded before the nudge, or  *)
(* the arrival, and went over it.                                          *)
(***************************************************************************)
Paid ==
    /\ trip <= rearmed + (IF file.armed THEN 0 ELSE 1)
    /\ \A p \in Place : visit[p] <= unvisited[p] + (IF p \in file.inside THEN 1 ELSE 0)
    /\ PlacesKept

WhereIInv == WhereaboutsTypeOK /\ hand = [h \in Hand |-> hand[h]] /\ Paid

\* A job that saves what it loaded, of either kind.
Writes(f, job) ==
    \/ job.does = "observe" /\ \E home \in BOOLEAN : Records(f, job.fix, home)
    \/ job.does = "put" /\ Puts(f, job.place, job.fix)

\* A fix that is recorded, over whatever file, leaves what was told paid for.
LEMMA RecordsPay ==
    ASSUME WhereaboutsTypeOK, Paid, NEW f, FileOK(f), NEW fix \in Position,
           NEW home \in BOOLEAN, Records(f, fix, home)
    PROVE  /\ FileOK(file)' /\ Paid'
           /\ trip' \in Nat /\ rearmed' \in Nat
           /\ visit' \in [Place -> Nat] /\ unvisited' \in [Place -> Nat]
           /\ kept' \subseteq Place /\ overtaken' \subseteq Place
<1>1. /\ FileOK(file) /\ trip \in Nat /\ visit \in [Place -> Nat]
      /\ rearmed \in Nat /\ unvisited \in [Place -> Nat]
      /\ kept \subseteq Place /\ overtaken \subseteq Place
  BY DEF WhereaboutsTypeOK
<1>2. /\ file' = [f EXCEPT !.last = fix, !.armed = Armed(f, fix, home),
                    !.inside = Inside(f, fix) \cup {p \in @ : f.places[p] = None}]
      /\ file'.armed = Armed(f, fix, home)
      /\ file'.inside = Inside(f, fix) \cup {p \in f.inside : f.places[p] = None}
      /\ file'.places = f.places
  BY DEF Records, Observed, FileOK
<1>3. FileOK(file)'
  <2>1. Armed(f, fix, home) \in BOOLEAN
    BY DEF Armed, FileOK
  <2> QED  BY <1>2, <2>1 DEF FileOK, Inside
<1>4. trip' \in Nat /\ rearmed' \in Nat /\ trip' <= rearmed' + (IF file'.armed THEN 0 ELSE 1)
  <2>1. CASE fix = Far
    BY <2>1 DEF Records
  <2>2. CASE fix # Far /\ Homeward(f, fix, home)
    <3>1. f.armed /\ ~file'.armed
      BY <1>2, <2>2 DEF Homeward, Armed
    <3>2. trip' = trip + 1 /\ rearmed' = rearmed + (IF file.armed THEN 0 ELSE 1)
      BY <2>2, <3>1 DEF Records, Renudges
    <3> QED  BY <1>1, <3>1, <3>2 DEF Paid
  <2>3. CASE fix # Far /\ ~Homeward(f, fix, home)
    <3>1. file'.armed = f.armed /\ trip' = trip /\ rearmed' = rearmed + Renudges(f)
      BY <1>2, <2>3 DEF Records, Armed, FileOK
    <3> QED  BY <1>1, <3>1 DEF Paid, Renudges
  <2> QED  BY <2>1, <2>2, <2>3
<1>5. /\ visit' \in [Place -> Nat] /\ unvisited' \in [Place -> Nat]
      /\ \A p \in Place : visit'[p] <= unvisited'[p] + (IF p \in file'.inside THEN 1 ELSE 0)
  <2>1. ASSUME NEW p \in Place
        PROVE  /\ visit'[p] \in Nat /\ unvisited'[p] \in Nat
               /\ visit'[p] <= unvisited'[p] + (IF p \in file'.inside THEN 1 ELSE 0)
    <3>0. visit[p] \in Nat /\ unvisited[p] \in Nat
          /\ visit[p] <= unvisited[p] + (IF p \in file.inside THEN 1 ELSE 0)
      BY <1>1 DEF Paid
    <3>1. CASE p \in Outside(f, fix)
      BY <3>1 DEF Records
    <3>2. CASE p \in Arrivals(f, fix)
      <4>1. p \notin f.inside /\ p \notin Outside(f, fix) /\ p \in file'.inside
        BY <1>2, <3>2 DEF Arrivals, Inside, Outside
      <4>2. visit'[p] = visit[p] + 1
            /\ unvisited'[p] = unvisited[p] + (IF p \in file.inside THEN 1 ELSE 0)
        BY <3>2, <4>1 DEF Records, Unvisits
      <4> QED  BY <3>0, <4>1, <4>2
    <3>3. CASE p \notin Outside(f, fix) /\ p \notin Arrivals(f, fix)
      <4>1. visit'[p] = visit[p] /\ unvisited'[p] = unvisited[p] + Unvisits(f, p)
        BY <3>3 DEF Records
      <4>2. p \in f.inside => p \in file'.inside
        BY <1>2, <3>3 DEF Outside, Inside
      <4> QED  BY <3>0, <4>1, <4>2 DEF Unvisits
    <3> QED  BY <3>1, <3>2, <3>3
  <2>2. visit' = [p \in Place |-> visit'[p]] /\ unvisited' = [p \in Place |-> unvisited'[p]]
    BY DEF Records
  <2> QED  BY <2>1, <2>2
<1>6. PlacesKept' /\ kept' \subseteq Place /\ overtaken' \subseteq Place
  <2>1. kept' = kept /\ overtaken' = overtaken \cup Differs(f)
    BY DEF Records
  <2> QED  BY <1>1, <1>2, <2>1 DEF Paid, PlacesKept, Saved, Differs
<1> QED  BY <1>3, <1>4, <1>5, <1>6 DEF Paid

\* So does the owner's word about a place.
LEMMA PutsPay ==
    ASSUME WhereaboutsTypeOK, Paid, NEW f, FileOK(f), NEW p \in Place,
           NEW spot \in Position \cup {None}, Puts(f, p, spot)
    PROVE  /\ FileOK(file)' /\ Paid'
           /\ trip' \in Nat /\ rearmed' \in Nat
           /\ visit' \in [Place -> Nat] /\ unvisited' \in [Place -> Nat]
           /\ kept' \subseteq Place /\ overtaken' \subseteq Place
<1>1. /\ FileOK(file) /\ trip \in Nat /\ visit \in [Place -> Nat]
      /\ rearmed \in Nat /\ unvisited \in [Place -> Nat]
      /\ kept \subseteq Place /\ overtaken \subseteq Place
  BY DEF WhereaboutsTypeOK
<1>2. /\ file' = [f EXCEPT !.places[p] = spot]
      /\ file'.armed = f.armed /\ file'.inside = f.inside
      /\ file'.places = [f.places EXCEPT ![p] = spot]
  BY DEF Puts, FileOK
<1>3. FileOK(file)'
  BY <1>2 DEF FileOK
<1>4. trip' \in Nat /\ rearmed' \in Nat /\ trip' <= rearmed' + (IF file'.armed THEN 0 ELSE 1)
  <2>1. trip' = trip /\ rearmed' = rearmed + Renudges(f)
    BY DEF Puts
  <2> QED  BY <1>1, <1>2, <2>1 DEF Paid, Renudges
<1>5. /\ visit' \in [Place -> Nat] /\ unvisited' \in [Place -> Nat]
      /\ \A q \in Place : visit'[q] <= unvisited'[q] + (IF q \in file'.inside THEN 1 ELSE 0)
  <2>1. ASSUME NEW q \in Place
        PROVE  /\ visit'[q] \in Nat /\ unvisited'[q] \in Nat
               /\ visit'[q] <= unvisited'[q] + (IF q \in file'.inside THEN 1 ELSE 0)
    <3>0. visit[q] \in Nat /\ unvisited[q] \in Nat
          /\ visit[q] <= unvisited[q] + (IF q \in file.inside THEN 1 ELSE 0)
      BY <1>1 DEF Paid
    <3>1. visit'[q] = visit[q] /\ unvisited'[q] = unvisited[q] + Unvisits(f, q)
      BY DEF Puts
    <3> QED  BY <1>2, <3>0, <3>1 DEF Unvisits
  <2>2. visit' = visit /\ unvisited' = [q \in Place |-> unvisited'[q]]
    BY DEF Puts
  <2> QED  BY <1>1, <2>1, <2>2
<1>6. PlacesKept' /\ kept' \subseteq Place /\ overtaken' \subseteq Place
  <2>1. overtaken' = (overtaken \cup Differs(f)) \ {p}
        /\ kept' = IF spot = None THEN kept \ {p} ELSE kept \cup {p}
    BY DEF Puts
  <2>2. overtaken' \subseteq Place /\ kept' \subseteq Place
    BY <1>1, <2>1 DEF Differs
  <2>3. ASSUME NEW q \in Place \ overtaken' PROVE q \in kept' <=> q \in Saved'
    <3>1. CASE q = p
      BY <1>2, <2>1, <3>1 DEF Saved, FileOK
    <3>2. CASE q # p
      <4>1. q \notin overtaken /\ f.places[q] = file.places[q] /\ file'.places[q] = f.places[q]
        BY <1>2, <2>1, <2>3, <3>2 DEF Differs, FileOK
      <4>2. q \in kept <=> q \in Saved
        BY <4>1 DEF Paid, PlacesKept
      <4>3. (q \in Saved <=> file.places[q] # None) /\ (q \in Saved' <=> file'.places[q] # None)
        BY DEF Saved
      <4> QED  BY <2>1, <3>2, <4>1, <4>2, <4>3
    <3> QED  BY <3>1, <3>2
  <2> QED  BY <2>2, <2>3 DEF PlacesKept
<1> QED  BY <1>3, <1>4, <1>5, <1>6 DEF Paid

LEMMA InitWhere == WhereaboutsInit => WhereIInv
<1> SUFFICES ASSUME WhereaboutsInit PROVE WhereIInv
  OBVIOUS
<1> USE DEF WhereaboutsInit, None
<1>1. FileOK(file)
  BY DEF FileOK
<1>2. \A h \in Hand : hand[h].at = "idle" /\ HandOK(hand[h])
  BY DEF Free, HandOK
<1>3. WhereaboutsTypeOK
  BY <1>1, <1>2 DEF WhereaboutsTypeOK
<1>4. Paid
  BY DEF Paid, PlacesKept, Saved
<1>5. hand = [h \in Hand |-> hand[h]]
  OBVIOUS
<1> QED  BY <1>3, <1>4, <1>5 DEF WhereIInv

\* A job that is taken up, or whose file is loaded, changes nothing else.
LEMMA HandMoves ==
    ASSUME WhereIInv, NEW h \in Hand, NEW w, HandOK(w),
           hand' = [hand EXCEPT ![h] = w], UNCHANGED <<file, ghost>>
    PROVE  WhereIInv'
<1>1. WhereaboutsTypeOK /\ hand = [k \in Hand |-> hand[k]] /\ Paid
  BY DEF WhereIInv
<1>2. \A k \in Hand : HandOK(hand'[k])
  BY <1>1 DEF WhereaboutsTypeOK
<1>3. WhereaboutsTypeOK'
  BY <1>1, <1>2 DEF WhereaboutsTypeOK, FileOK, ghost, HandOK, JobOK
<1>4. Paid'
  BY <1>1 DEF Paid, PlacesKept, Saved, ghost
<1>5. hand' = [k \in Hand |-> hand'[k]]
  BY <1>1
<1> QED  BY <1>3, <1>4, <1>5 DEF WhereIInv

LEMMA StepWhere == WhereIInv /\ [WhereaboutsNext]_whereVars => WhereIInv'
<1> SUFFICES ASSUME WhereIInv, [WhereaboutsNext]_whereVars PROVE WhereIInv'
  OBVIOUS
<1>0. WhereaboutsTypeOK /\ hand = [h \in Hand |-> hand[h]] /\ Paid
  BY DEF WhereIInv
<1>1. Loop \in Hand
  BY DEF Hand
<1>a. ASSUME NEW h \in Hand, NEW job, JobOK(job), TakesUp(h, job) PROVE WhereIInv'
  <2>1. HandOK([at |-> "begun", job |-> job])
    BY <1>a DEF HandOK
  <2> QED  BY <1>a, <2>1, HandMoves DEF TakesUp
<1>b. ASSUME NEW h \in Hand, LoadsWatches(h) PROVE WhereIInv'
  <2> DEFINE w == [at |-> "loaded", job |-> hand[h].job, copy |-> file]
  <2>1. HandOK(hand[h]) /\ FileOK(file)
    BY <1>0 DEF WhereaboutsTypeOK
  <2>2. HandOK(w)
    BY <1>b, <2>1 DEF HandOK, LoadsWatches
  <2>3. hand' = [hand EXCEPT ![h] = w]
    BY <1>0, <1>b DEF LoadsWatches
  <2>4. UNCHANGED <<file, ghost>>
    BY <1>b DEF LoadsWatches
  <2> HIDE DEF w
  <2> QED  BY <2>2, <2>3, <2>4, HandMoves
<1>c. ASSUME NEW h \in Hand, Saves(h) PROVE WhereIInv'
  <2> DEFINE f == hand[h].copy  job == hand[h].job
  <2>1. HandOK(hand[h]) /\ hand[h].at = "loaded"
    BY <1>0, <1>c DEF WhereaboutsTypeOK, Saves
  <2>2. FileOK(f) /\ JobOK(job)
    BY <2>1 DEF HandOK
  <2>3. Writes(f, job) /\ hand' = [hand EXCEPT ![h] = Free]
    BY <1>c DEF Saves, Writes
  <2> HIDE DEF f, job
  <2>4. /\ FileOK(file)' /\ Paid'
        /\ trip' \in Nat /\ rearmed' \in Nat
        /\ visit' \in [Place -> Nat] /\ unvisited' \in [Place -> Nat]
        /\ kept' \subseteq Place /\ overtaken' \subseteq Place
    <3>1. CASE job.does = "observe" /\ \E home \in BOOLEAN : Records(f, job.fix, home)
      <4>1. PICK home \in BOOLEAN : Records(f, job.fix, home)
        BY <3>1
      <4>2. job.fix \in Position
        BY <2>2, <3>1 DEF JobOK
      <4> QED  BY <1>0, <2>2, <4>1, <4>2, RecordsPay
    <3>2. CASE job.does = "put" /\ Puts(f, job.place, job.fix)
      <4>1. job.place \in Place /\ job.fix \in Position \cup {None}
        BY <2>2, <3>2 DEF JobOK
      <4> QED  BY <1>0, <2>2, <3>2, <4>1, PutsPay
    <3> QED  BY <2>3, <3>1, <3>2 DEF Writes
  <2>5. \A k \in Hand : HandOK(hand'[k])
    <3>1. HandOK(Free)
      BY DEF HandOK, Free
    <3> QED  BY <1>0, <2>3, <3>1 DEF WhereaboutsTypeOK
  <2>6. hand' = [k \in Hand |-> hand'[k]]
    BY <1>0, <2>3
  <2>7. WhereaboutsTypeOK'
    BY <2>4, <2>5 DEF WhereaboutsTypeOK, HandOK, JobOK, FileOK
  <2> QED  BY <2>4, <2>6, <2>7 DEF WhereIInv
<1>d. CASE Polls
  <2>1. PICK fix \in Position : TakesUp(Loop, [does |-> "observe", fix |-> fix])
    BY <1>d DEF Polls
  <2>2. JobOK([does |-> "observe", fix |-> fix])
    BY DEF JobOK
  <2> QED  BY <1>1, <1>a, <2>1, <2>2
<1>e. ASSUME NEW h \in Hand, Shares(h) PROVE WhereIInv'
  <2>1. PICK fix \in Position : TakesUp(h, [does |-> "observe", fix |-> fix])
    BY <1>e DEF Shares
  <2>2. JobOK([does |-> "observe", fix |-> fix])
    BY DEF JobOK
  <2> QED  BY <1>a, <2>1, <2>2
<1>f. ASSUME NEW p \in Place, RemembersPlace(p) \/ ForgetsPlace(p) PROVE WhereIInv'
  <2>1. PICK spot \in {file.last, None} :
            TakesUp(Loop, [does |-> "put", place |-> p, fix |-> spot])
    BY <1>f DEF RemembersPlace, ForgetsPlace
  <2>2. spot \in Position \cup {None}
    BY <1>0, <2>1 DEF WhereaboutsTypeOK, FileOK
  <2>3. JobOK([does |-> "put", place |-> p, fix |-> spot])
    BY <2>2 DEF JobOK
  <2> QED  BY <1>1, <1>a, <2>1, <2>3
<1>g. CASE UNCHANGED whereVars
  <2>1. UNCHANGED <<file, ghost>> /\ hand' = hand
    BY <1>g DEF whereVars
  <2>2. hand' = [hand EXCEPT ![Loop] = hand[Loop]]
    BY <1>0, <2>1
  <2>3. HandOK(hand[Loop])
    BY <1>0, <1>1 DEF WhereaboutsTypeOK
  <2> QED  BY <1>1, <2>1, <2>2, <2>3, HandMoves
<1> QED
  BY <1>b, <1>c, <1>d, <1>e, <1>f, <1>g DEF WhereaboutsNext

(***************************************************************************)
(* "Nearly home" is said once a trip and "you are at" once a visit,        *)
(* whichever source the fixes come from, and what the owner was told of a  *)
(* place is so: but for the saves, of the tracker, of a pin's thread or of *)
(* a command, that had been loaded before and went over what had come      *)
(* since, one line for each (whereabouts.py, observe, remember_place).     *)
(***************************************************************************)
THEOREM ToldOnceATrip == WhereaboutsSpec => []WhereaboutsInv
<1>1. WhereaboutsSpec => []WhereIInv
  BY InitWhere, StepWhere, PTL DEF WhereaboutsSpec
<1>2. WhereIInv => WhereaboutsInv
  <2> SUFFICES ASSUME WhereIInv PROVE WhereaboutsInv
    OBVIOUS
  <2>1. WhereaboutsTypeOK /\ Paid
    BY DEF WhereIInv
  <2>2. OncePerTrip
    BY <2>1 DEF WhereaboutsTypeOK, Paid, OncePerTrip
  <2>3. OncePerVisit
    BY <2>1 DEF WhereaboutsTypeOK, Paid, OncePerVisit
  <2> QED  BY <2>1, <2>2, <2>3 DEF WhereaboutsInv, Paid
<1> QED  BY <1>1, <1>2, PTL
=============================================================================

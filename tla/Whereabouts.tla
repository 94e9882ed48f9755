------------------------------ MODULE Whereabouts -----------------------------
(* Where the owner is (triggers/whereabouts.py), from the pins shared in      *)
(* Telegram and from the phone's tracker.                                     *)
(*                                                                            *)
(* A fix is compared with the last one and with the remembered places, in one *)
(* state file, and what it earns - "nearly home" once per trip, "you are at"  *)
(* once per visit - is told afterwards.  Whoever changes the file loads it    *)
(* whole and saves it whole, without a lock: the handlers of pins in worker   *)
(* threads, any number at a time, and on the event loop the tracker, which    *)
(* asks Home Assistant for the home in between, and the owner's commands.     *)
EXTENDS Naturals, FiniteSets

CONSTANTS
    Pin,            \* handlers of shared pins that can be at work together
    Place,          \* names of places
    MaxOver         \* bound: saves over a nudge, or over an arrival, at a time

ASSUME WhereaboutsAssumption == MaxOver \in Nat /\ "loop" \notin Pin

\* Distances from home: in it, two in the ring of "nearly home", and far enough
\* for a new trip.
Position == 0..3
Ring == {1, 2}
Far == 3
None == 4

\* The event loop has one change of the file in hand at a time.
Loop == "loop"
Hand == Pin \cup {Loop}

VARIABLES
    file,        \* the state file: last fix, armed, places, inside
    hand,        \* thread |-> what it does to the file, its fix, what it loaded
    trip,        \* ghost: "nearly home" lines since a far fix
    visit,       \* ghost: place |-> "you are at" lines since a fix outside it
    rearmed,     \* ghost: saves since a far fix that undid a nudge they had not seen
    unvisited,   \* ghost: place |-> saves since a fix outside it that undid an arrival
    kept,        \* ghost: the places the owner was last told are saved
    overtaken    \* ghost: places whose last change a later save did not contain

ghost == <<trip, visit, rearmed, unvisited, kept, overtaken>>
whereVars == <<file, hand, ghost>>

Free == [at |-> "idle"]
Saved == {p \in Place : file.places[p] # None}

WhereaboutsInit ==
    /\ file = [last |-> None, armed |-> TRUE, places |-> [p \in Place |-> None],
               inside |-> {}]
    /\ hand = [h \in Hand |-> Free]
    /\ trip = 0 /\ visit = [p \in Place |-> 0]
    /\ rearmed = 0 /\ unvisited = [p \in Place |-> 0]
    /\ kept = {} /\ overtaken = {}

(* -------------------------------- observe ------------------------------ *)

At(f, p, fix) == f.places[p] = fix
Inside(f, fix) == {p \in Place : f.places[p] # None /\ At(f, p, fix)}
Outside(f, fix) == {p \in Place : f.places[p] # None /\ ~At(f, p, fix)}

\* In the ring, armed, and nearer than the last fix was.  Without the position
\* of home nothing is compared.
Homeward(f, fix, home) ==
    home /\ f.armed /\ fix \in Ring /\ f.last # None /\ f.last > fix

Arrivals(f, fix) == Inside(f, fix) \ f.inside

\* A slip: the nudge does not disarm.
StaysArmed(f, fix, home) == TRUE

\* Armed again by a far fix, disarmed by the nudge.
Armed(f, fix, home) ==
    IF home /\ fix = Far THEN TRUE ELSE f.armed /\ ~Homeward(f, fix, home)

\* A name that is no longer a place keeps what its last fix said.
Observed(f, fix, home) ==
    [f EXCEPT !.last = fix, !.armed = Armed(f, fix, home),
              !.inside = Inside(f, fix) \cup {p \in @ : f.places[p] = None}]

\* Saved over the file, a copy undoes a nudge, or an arrival, it does not contain.
Renudges(f) == IF f.armed /\ ~file.armed THEN 1 ELSE 0
Unvisits(f, p) == IF p \in file.inside \ f.inside THEN 1 ELSE 0
Differs(f) == {p \in Place : f.places[p] # file.places[p]}

\* The fix is saved with what it earned; whether that reaches the owner depends
\* on the quiet hours and the chat, and it is not tried again.
Records(f, fix, home) ==
    /\ file' = Observed(f, fix, home)
    /\ IF fix = Far
       THEN trip' = 0 /\ rearmed' = 0
       ELSE /\ trip' = IF Homeward(f, fix, home) THEN trip + 1 ELSE trip
            /\ rearmed' = rearmed + Renudges(f)
    /\ visit' = [p \in Place |->
                    IF p \in Outside(f, fix) THEN 0
                    ELSE IF p \in Arrivals(f, fix) THEN visit[p] + 1 ELSE visit[p]]
    /\ unvisited' = [p \in Place |->
                    IF p \in Outside(f, fix) THEN 0 ELSE unvisited[p] + Unvisits(f, p)]
    /\ overtaken' = overtaken \cup Differs(f)
    /\ UNCHANGED kept

\* A place is put where the last fix was, or taken out; the owner is told.
Puts(f, p, where) ==
    /\ file' = [f EXCEPT !.places[p] = where]
    /\ rearmed' = rearmed + Renudges(f)
    /\ unvisited' = [q \in Place |-> unvisited[q] + Unvisits(f, q)]
    /\ kept' = IF where = None THEN kept \ {p} ELSE kept \cup {p}
    /\ overtaken' = (overtaken \cup Differs(f)) \ {p}
    /\ UNCHANGED <<trip, visit>>

(* ------------------------- load, change and save ----------------------- *)

TakesUp(h, job) ==
    /\ hand[h] = Free
    /\ hand' = [hand EXCEPT ![h] = [at |-> "begun", job |-> job]]
    /\ UNCHANGED <<file, ghost>>

\* A pin, or an edit of a live location, reaches its handler.
Shares(h) == h \in Pin /\ \E fix \in Position : TakesUp(h, [does |-> "observe", fix |-> fix])

\* The tracker reports, and not a rough position.
Polls == \E fix \in Position : TakesUp(Loop, [does |-> "observe", fix |-> fix])

\* "Remember this place as p": where the last fix was, if it is not hours old.
RemembersPlace(p) ==
    /\ file.last # None
    /\ TakesUp(Loop, [does |-> "put", place |-> p, fix |-> file.last])

ForgetsPlace(p) == TakesUp(Loop, [does |-> "put", place |-> p, fix |-> None])

\* The file is loaded...
LoadsWatches(h) ==
    /\ hand[h].at = "begun"
    /\ hand' = [hand EXCEPT ![h] = [at |-> "loaded", job |-> @.job, copy |-> file]]
    /\ UNCHANGED <<file, ghost>>

\* Bound: so many saves over what they had not seen are followed.
Followed == \A p \in Place : rearmed' + unvisited'[p] <= MaxOver

\* ... and saved whole.
Saves(h) ==
    /\ hand[h].at = "loaded"
    /\ LET job == hand[h].job
       IN  \/ /\ job.does = "observe"
              /\ \E home \in BOOLEAN : Records(hand[h].copy, job.fix, home)
           \/ job.does = "put" /\ Puts(hand[h].copy, job.place, job.fix)
    /\ Followed
    /\ hand' = [hand EXCEPT ![h] = Free]

WhereaboutsNext ==
    \/ Polls
    \/ \E h \in Hand : Shares(h) \/ LoadsWatches(h) \/ Saves(h)
    \/ \E p \in Place : RemembersPlace(p) \/ ForgetsPlace(p)

WhereaboutsSpec == WhereaboutsInit /\ [][WhereaboutsNext]_whereVars

(* ------------------------------ properties ----------------------------- *)

FileOK(f) == /\ f.last \in Position \cup {None} /\ f.armed \in BOOLEAN
             /\ f.places \in [Place -> Position \cup {None}]
             /\ f.inside \subseteq Place

JobOK(job) == \/ job.does = "observe" /\ job.fix \in Position
              \/ job.does = "put" /\ job.place \in Place /\ job.fix \in Position \cup {None}

HandOK(w) == /\ w.at \in {"idle", "begun", "loaded"}
             /\ w.at # "idle" => JobOK(w.job)
             /\ w.at = "loaded" => FileOK(w.copy)

WhereaboutsTypeOK ==
    /\ FileOK(file)
    /\ \A h \in Hand : HandOK(hand[h])
    /\ trip \in Nat /\ visit \in [Place -> Nat]
    /\ rearmed \in Nat /\ unvisited \in [Place -> Nat]
    /\ kept \subseteq Place /\ overtaken \subseteq Place

\* "Once per trip" and "once per visit", whichever source the fixes come from
\* and in whatever order: again only for a save that had been loaded before the
\* nudge, or the arrival, and went over it.
OncePerTrip == trip <= 1 + rearmed
OncePerVisit == \A p \in Place : visit[p] <= 1 + unvisited[p]

\* What the owner was last told of a place is so, unless a save went over it that
\* had been loaded before.
PlacesKept == \A p \in Place \ overtaken : p \in kept <=> p \in Saved

\* The safety of whereabouts, with its type.
WhereaboutsInv == WhereaboutsTypeOK /\ OncePerTrip /\ OncePerVisit /\ PlacesKept
================================================================================

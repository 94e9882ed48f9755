--------------------------------- MODULE Undo ---------------------------------
(***************************************************************************)
(* The action log and the undo command (store/actions.py, UNDO_MAP of      *)
(* loop_tools.py, _undo_command of orchestrator.py), for one chat, whose   *)
(* turns are serial.  Every write observes what its inverse will need,     *)
(* acts, and is logged with the inverse; the log is in Postgres and may    *)
(* miss an action or the mark that it was undone.  "undo" asks about the   *)
(* newest action on record, "undo the reminder" about the newest of its    *)
(* kind, and the inverse runs on the owner's yes.                          *)
(*                                                                         *)
(* The tools are taken by the kind of their inverse: a switch goes back to *)
(* the state observed, an item made is cancelled, an item cancelled is     *)
(* made again as a new one, an item moved goes back to its time, a spoken  *)
(* word has no inverse, and music has one that nothing executes.           *)
(***************************************************************************)
EXTENDS Integers, Sequences, FiniteSets

CONSTANTS
    Switch, Position,    \* what can be switched, and its states
    Time,                \* when an item may be due
    MaxItems, MaxLog, MaxAmiss    \* bounds

ASSUME UndoAssumption ==
    /\ {MaxItems, MaxLog, MaxAmiss} \subseteq Nat
    /\ Switch \cap (0 .. MaxItems) = {} /\ "gone" \notin Time

VARIABLES
    switch,     \* the state of each switch
    items,      \* every item made: when it is due, or "gone"
    log,        \* every write; those with logged = FALSE are not on record
    ask,        \* the undo that waits for a yes: an index of log, or 0
    asked,      \* ghost: how many writes there were when it was asked
    runs,       \* ghost: for each write, how often its inverse ran
    first,      \* ghost: the switches as they were
    amiss       \* ghost: what the log does not know of

undoVars == <<switch, items, log, ask, asked, runs, first, amiss>>

Live     == {i \in DOMAIN items : items[i] # "gone"}
OnRecord == {k \in DOMAIN log : log[k].logged /\ ~log[k].undone}
Newest(S) == CHOOSE k \in S : \A j \in S : j <= k

UndoInit ==
    /\ switch \in [Switch -> Position]
    /\ items = <<>> /\ log = <<>> /\ ask = 0 /\ asked = 0 /\ runs = <<>>
    /\ first = switch /\ amiss = {}

Amiss(S) == amiss' = amiss \cup S /\ Cardinality(amiss') <= MaxAmiss

(* record_action: a failure of the log is logged elsewhere, and forgotten. *)
Records(kind, about, to, inverse, was) ==
    /\ Len(log) < MaxLog
    /\ \E ok \in BOOLEAN :
          /\ log' = Append(log, [kind |-> kind, about |-> about, to |-> to, inverse |-> inverse,
                                 was |-> was, logged |-> ok, undone |-> FALSE])
          /\ Amiss(IF ok THEN {} ELSE {"unlogged"})
    /\ runs' = Append(runs, 0)
    /\ UNCHANGED <<ask, asked, first>>

(* _undo_home_switch: the state that was observed, if any.                 *)
SwitchInverse(s, v, observed) ==
    IF observed THEN <<"switch", switch[s]>> ELSE <<"none", v>>

(* A switch that is seen to be there already is no write to undo.          *)
Switches(s, v) ==
    \E observed \in BOOLEAN :
        LET inverse == SwitchInverse(s, v, observed)
        IN  /\ switch' = [switch EXCEPT ![s] = v] /\ UNCHANGED items
            /\ IF observed /\ switch[s] = v THEN UNCHANGED <<log, ask, asked, runs, first, amiss>>
               ELSE Records("home", s, v, inverse[1], inverse[2])

Creates(t) ==
    /\ Len(items) < MaxItems /\ items' = Append(items, t) /\ UNCHANGED switch
    /\ Records("reminders", Len(items'), t, "cancel", "gone")

(* capture_prior reads the item before it is cancelled, or fails to.       *)
Cancels(i) ==
    /\ i \in Live /\ items' = [items EXCEPT ![i] = "gone"] /\ UNCHANGED switch
    /\ \E inverse \in {"recreate", "none"} : Records("reminders", i, "gone", inverse, items[i])

Moves(i, t) ==
    /\ i \in Live /\ items[i] # t /\ items' = [items EXCEPT ![i] = t] /\ UNCHANGED switch
    /\ Records("reminders", i, t, "move", items[i])

(* A spoken word; music that plays, and what else UNDO_MAP gives an        *)
(* inverse that _run_undo does not know (goals, media, coding tasks).      *)
Plays(kind, inverse) ==
    /\ Records(kind, 0, "gone", inverse, "gone") /\ UNCHANGED <<switch, items>>

(* Somebody at the wall, another chat, a reminder that fires.              *)
Elsewhere ==
    /\ \/ \E s \in Switch, v \in Position : switch' = [switch EXCEPT ![s] = v] /\ UNCHANGED items
       \/ \E i \in Live : items' = [items EXCEPT ![i] = "gone"] /\ UNCHANGED switch
    /\ Amiss({"elsewhere"})
    /\ UNCHANGED <<log, ask, asked, runs, first>>
-----------------------------------------------------------------------------
Undoable(k) == log[k].inverse # "none"

(* Slip: the plain undo reaches for the newest action that can be undone. *)
ReachesPast(family) ==
    LET about == {k \in OnRecord : Undoable(k) /\ (family = "any" \/ log[k].kind = family)}
    IN  IF about = {} THEN 0 ELSE Newest(about)

(* last_action, last_action_of.                                            *)
LastAction(family) ==
    LET about == {k \in OnRecord : family = "any" \/ log[k].kind = family}
    IN  IF about = {} THEN 0 ELSE Newest(about)

(* _undo_command: nothing on record, or nothing to be done about it, is    *)
(* said; otherwise the inverse of this very action is asked about.         *)
AsksUndo(family) ==
    /\ ask = 0 /\ LastAction(family) # 0
    /\ ask' = (IF Undoable(LastAction(family)) THEN LastAction(family) ELSE 0)
    /\ asked' = Len(log)
    /\ UNCHANGED <<switch, items, log, runs, first, amiss>>

(* What _run_undo does for each inverse; the rest is refused, as is an     *)
(* item that is no longer there.                                           *)
Inverts(a) ==
    \/ a.inverse = "switch" /\ switch' = [switch EXCEPT ![a.about] = a.was] /\ UNCHANGED items
    \/ /\ a.inverse = "recreate" /\ Len(items) < MaxItems
       /\ items' = Append(items, a.was) /\ UNCHANGED switch
    \/ /\ a.inverse \in {"cancel", "move"} /\ a.about \in Live
       /\ items' = [items EXCEPT ![a.about] = a.was] /\ UNCHANGED switch

(* The yes, whatever was done since the ask: the inverse runs, and then    *)
(* the action is marked, or Postgres fails and it is not.                  *)
RunsUndo ==
    /\ ask # 0 /\ ask' = 0
    /\ Inverts(log[ask])
    /\ runs' = [runs EXCEPT ![ask] = @ + 1] /\ runs[ask] < 2
    /\ \E marked \in BOOLEAN :
          /\ log' = (IF marked THEN [log EXCEPT ![ask].undone = TRUE] ELSE log)
          /\ Amiss((IF marked THEN {} ELSE {"unmarked"})
                   \cup (IF Len(log) > asked THEN {"overtaken"} ELSE {}))
    /\ UNCHANGED <<asked, first>>

(* The inverse is refused, the owner says no, or the ask goes stale.       *)
Leaves ==
    /\ ask # 0 /\ ask' = 0
    /\ UNCHANGED <<switch, items, log, asked, runs, first, amiss>>

UndoNext ==
    \/ \E s \in Switch, v \in Position : Switches(s, v)
    \/ \E t \in Time : Creates(t) \/ (\E i \in Live : Moves(i, t))
    \/ \E i \in Live : Cancels(i)
    \/ Plays("home", "none") \/ Plays("music", "music.pause")
    \/ \E family \in {"any", "home", "reminders"} : AsksUndo(family)
    \/ Elsewhere \/ RunsUndo \/ Leaves

UndoSpec == UndoInit /\ [][UndoNext]_undoVars
-----------------------------------------------------------------------------
Inverses == {"switch", "cancel", "recreate", "move", "none", "music.pause"}
Spot     == Position \cup Time \cup {"gone"}
Write    == [kind : {"home", "reminders", "music"}, about : Switch \cup (0 .. MaxItems), to : Spot,
             inverse : Inverses, was : Spot, logged : BOOLEAN, undone : BOOLEAN]

UndoTypeOK ==
    /\ switch \in [Switch -> Position] /\ first \in [Switch -> Position]
    /\ Len(items) <= MaxItems /\ \A i \in DOMAIN items : items[i] \in Time \cup {"gone"}
    /\ Len(log) <= MaxLog /\ \A k \in DOMAIN log : log[k] \in Write
    /\ {ask, asked} \subseteq 0 .. MaxLog /\ DOMAIN runs = DOMAIN log
    /\ amiss \subseteq {"unlogged", "unmarked", "overtaken", "elsewhere"}

(* Undoing steps back through the writes (actions.py:4-8): whatever was    *)
(* done and undone, a switch is where the newest write that still stands   *)
(* put it, or where it was first, and there are as many items as the       *)
(* writes that stand have made and not cancelled.  It may fail when        *)
(* somebody else moved things, when Postgres missed a write or a mark, and *)
(* when something was done between the ask and the yes.                    *)
StepsBack ==
    amiss = {} =>
        /\ \A s \in Switch :
              LET here == {k \in DOMAIN log : ~log[k].undone /\ log[k].about = s}
              IN  switch[s] = IF here = {} THEN first[s] ELSE log[Newest(here)].to
        /\ LET made == {k \in DOMAIN log : ~log[k].undone /\ log[k].kind = "reminders"
                                            /\ log[k].inverse = "cancel"}
               cancelled == {k \in DOMAIN log : ~log[k].undone /\ log[k].kind = "reminders"
                                            /\ log[k].to = "gone"}
           IN  Cardinality(Live) = Cardinality(made) - Cardinality(cancelled)

(* An inverse runs once, unless the mark that it ran was lost.             *)
UndoneOnce == "unmarked" \notin amiss => \A k \in DOMAIN runs : runs[k] <= 1

UndoInv == UndoTypeOK /\ StepsBack /\ UndoneOnce
=============================================================================

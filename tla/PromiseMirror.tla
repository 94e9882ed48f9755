--------------------------- MODULE PromiseMirror ---------------------------
(***************************************************************************)
(* A promise store (reminders, agent tasks, cost ledger) and its Postgres  *)
(* mirror.  The JSON file is the write authority; a save writes it, then   *)
(* mirrors the full state, and when that fails marks the mirror stale      *)
(* (store/promises.py, store/sync_state.py).  Reads come from Postgres     *)
(* unless the mark, or a failure, sends them to the file.                  *)
(*                                                                         *)
(* A mirror is a full-state copy, so contents are versions: the file's n   *)
(* is the n-th save.  A save holds the store's file lock to its end.       *)
(***************************************************************************)
EXTENDS Integers

CONSTANTS
    Writer,     \* processes that save: the bot, an overlapping one, a script
    Reader,     \* reads in progress at once
    MarkFails,  \* whether writing the mark's file may fail (OSError)
    MaxSaves    \* bound: saves

ASSUME MirrorAssumption == MarkFails \in BOOLEAN /\ MaxSaves \in Nat

VARIABLES
    file,       \* the version in the file
    pg,         \* the version in Postgres
    stale,      \* the persisted mark
    answers,    \* whether Postgres answers
    breaker,    \* the writers whose breaker is open (60 s)
    save,       \* how far each writer's save got; all but one are idle
    read,       \* what each read has decided
    acked,      \* ghost: the version of the last save that returned
    cut         \* ghost: a crash cut the last save short

vars == <<file, pg, stale, answers, breaker, save, read, acked, cut>>

Version == 0 .. MaxSaves
Step == {"idle", "written", "failed", "mirrored"}
NoRead  == [phase |-> "idle"]
AtPg    == [phase : {"pg"}, low : Version]
Result  == [phase : {"done"}, low : Version, got : Version]

TypeOK ==
    /\ file \in Version /\ pg \in Version /\ acked \in Version
    /\ stale \in BOOLEAN /\ answers \in BOOLEAN /\ cut \in BOOLEAN
    /\ breaker \subseteq Writer
    /\ save \in [Writer -> Step]
    /\ read \in [Reader -> {NoRead} \cup AtPg \cup Result]

Init ==
    /\ file = 0 /\ pg = 0 /\ acked = 0
    /\ stale = FALSE /\ answers = TRUE /\ cut = FALSE
    /\ breaker = {}
    /\ save = [w \in Writer |-> "idle"]
    /\ read = [r \in Reader |-> NoRead]
-----------------------------------------------------------------------------
Goes(w, step) == save' = [save EXCEPT ![w] = step]

LockFree == \A w \in Writer : save[w] = "idle"

(* _save_all: the file first. *)
WriteFile(w) ==
    /\ LockFree /\ file < MaxSaves
    /\ file' = file + 1
    /\ Goes(w, "written")
    /\ UNCHANGED <<pg, stale, answers, breaker, read, acked, cut>>

(* Slip: an open breaker skips the mirror and its mark. *)
SkipMirrorUnmarked(w) ==
    /\ save[w] = "written" /\ w \in breaker
    /\ Goes(w, "idle")
    /\ acked' = file
    /\ UNCHANGED <<file, pg, stale, answers, breaker, read, cut>>

(* _guarded_mirror.  While the breaker is open nothing is tried. *)
SkipMirror(w) ==
    /\ save[w] = "written" /\ w \in breaker
    /\ Goes(w, "failed")
    /\ UNCHANGED <<file, pg, stale, answers, breaker, read, acked, cut>>

Mirror(w) ==
    /\ save[w] = "written" /\ w \notin breaker /\ answers
    /\ pg' = file
    /\ Goes(w, "mirrored")
    /\ UNCHANGED <<file, stale, answers, breaker, read, acked, cut>>

(* The connection, a statement or the commit failed; a failed commit may   *)
(* have been applied.                                                      *)
MirrorFails(w) ==
    /\ save[w] = "written" /\ w \notin breaker
    /\ pg' \in (IF answers THEN {pg, file} ELSE {pg})
    /\ breaker' = breaker \cup {w}
    /\ Goes(w, "failed")
    /\ UNCHANGED <<file, stale, answers, read, acked, cut>>

(* mark_stale and clear_stale end the save. *)
Returns(w) ==
    /\ Goes(w, "idle")
    /\ acked' = file
    /\ cut' = FALSE
    /\ UNCHANGED <<file, pg, answers, breaker, read>>

MarkStale(w) ==
    /\ save[w] = "failed"
    /\ stale' = TRUE \/ (MarkFails /\ UNCHANGED stale)
    /\ Returns(w)

(* Slip: the mark is cleared by a mirror that did not run. *)
ClearStaleEarly(w) ==
    /\ save[w] \in {"written", "mirrored"}
    /\ stale' = FALSE
    /\ Returns(w)

ClearStale(w) ==
    /\ save[w] = "mirrored"
    /\ stale' = FALSE \/ (MarkFails /\ UNCHANGED stale)
    /\ Returns(w)
-----------------------------------------------------------------------------
(* load_reminders, load_tasks, load_ledger: the mark is read first. *)
ReadMark(r) ==
    /\ read' = [read EXCEPT ![r] =
                  IF stale THEN [phase |-> "done", low |-> acked, got |-> file]
                  ELSE [phase |-> "pg", low |-> acked]]
    /\ UNCHANGED <<file, pg, stale, answers, breaker, save, acked, cut>>

Got(r, version) ==
    /\ read[r].phase = "pg"
    /\ read' = [read EXCEPT ![r] = [phase |-> "done", low |-> read[r].low, got |-> version]]
    /\ UNCHANGED <<file, pg, stale, answers, breaker, save, acked, cut>>

ReadPg(r) == answers /\ Got(r, pg)

(* Any failure falls back to the file. *)
ReadFile(r) == Got(r, file)
-----------------------------------------------------------------------------
BreakerCloses(w) ==
    /\ w \in breaker
    /\ breaker' = breaker \ {w}
    /\ UNCHANGED <<file, pg, stale, answers, save, read, acked, cut>>

(* The process dies: its lock is released, its breaker forgotten. *)
Crash(w) ==
    /\ Goes(w, "idle")
    /\ breaker' = breaker \ {w}
    /\ cut' = (cut \/ save[w] # "idle")
    /\ UNCHANGED <<file, pg, stale, answers, read, acked>>

Postgres ==
    /\ answers' = ~answers
    /\ UNCHANGED <<file, pg, stale, breaker, save, read, acked, cut>>

Save(w) == \/ WriteFile(w) \/ SkipMirror(w) \/ Mirror(w) \/ MirrorFails(w)
           \/ MarkStale(w) \/ ClearStale(w)

Next ==
    \/ \E w \in Writer : Save(w) \/ BreakerCloses(w) \/ Crash(w)
    \/ \E r \in Reader : ReadMark(r) \/ ReadPg(r) \/ ReadFile(r)
    \/ Postgres

Spec == Init /\ [][Next]_vars
-----------------------------------------------------------------------------
(* A read never misses a save that had returned when it began, though the  *)
(* mark is checked before Postgres is asked: a reminder the owner was told *)
(* of is never taken for a cancelled one (sync_state.py:11-17).            *)
ReadsSeeReturnedSaves ==
    \A r \in Reader : read[r].phase = "done" => read[r].got >= read[r].low

(* Between saves an unmarked mirror equals the file, unless a crash cut    *)
(* the last save short.                                                    *)
TrustedOrCut == LockFree /\ ~stale /\ ~cut => pg = file

(* The same with crashes: any deferred mirror marks the store stale        *)
(* (sync_state.py:15-17).                                                  *)
TrustedIsCurrent == LockFree /\ ~stale => pg = file

(* Why they hold: an unmarked mirror holds every save that returned, and   *)
(* keeps doing so between a read's two steps.                              *)
OneSave ==
    \A w, v \in Writer : save[w] # "idle" /\ save[v] # "idle" => w = v

UnmarkedIsAcked ==
    /\ acked <= file /\ pg <= file
    /\ ~stale => pg >= acked
    /\ \A r \in Reader : read[r].phase = "pg" => pg >= read[r].low

MirroredIsFile ==
    /\ \A w \in Writer : save[w] = "mirrored" => pg = file
    /\ \A r \in Reader : read[r].phase # "idle" => read[r].low <= file

MirrorInv ==
    /\ TypeOK /\ OneSave /\ UnmarkedIsAcked /\ MirroredIsFile
    /\ ReadsSeeReturnedSaves /\ TrustedOrCut
=============================================================================

----------------------------- MODULE MCOverlap -----------------------------
(* Two processes over the same files, and what the chat does with what it  *)
(* kept: reminders across an overlapping restart, the reading of documents *)
(* and who they are about, undo, the rails that route a message before any *)
(* model, the review of memory, the coding agent, and the day's spend.   *)
(* The models share no state, so one part moves in each behaviour.       *)
EXTENDS Reminders, Reading, Undo, Rails, Review, CodeAgent, Router

CONSTANTS one, held, daily, f1, f2, d1, x1, off, c1, c2, c3, she, job1

VARIABLE part

overlapVars == <<vars, readingVars, undoVars, railsVars, reviewVars, codeVars, routerVars, part>>

AheadNear   == {1}
MCInText    == {<<d1, x1>>}
MCAbout     == [c \in Saying |-> owner]
MCNear      == {<<c1, c2>>}
MCStatement == {<<owner, c1, "nothing">>, <<she, c2, c1>>, <<owner, c2, c1>>, <<owner, c3, "nothing">>}

(* The slices of the reminders that are explored: a one-shot beside a    *)
(* series whose chat is withheld, which nobody moves; a one-shot alone,  *)
(* which may be moved; and a series alone, which may be moved.           *)
Slice ==
    \/ part = "pair"   /\ used' \subseteq {one, held} /\ UNCHANGED moves
    \/ part = "single" /\ used' \subseteq {one}
    \/ part = "series" /\ used' \subseteq {daily}

(* What is interchangeable is taken in one order: the first fiber that   *)
(* is free, and the task job1 stands first in the file.                  *)
FirstFiber == fiber[f2] = Idle /\ fiber'[f2] # Idle => fiber[f1] # Idle
FirstTask  == \A k \in DOMAIN order' : k = 1 => order'[k] = job1

(* The slices of the review: two people over two sayings, with at most one *)
(* other file beside a drafted rule; and the owner alone, whose facts come *)
(* in by the window one after another.                                     *)
Rulings(k) == {f \in DOMAIN files' : (files'[f].says \in Lesson) = k}
Between ==
    /\ Len(facts') <= 2 /\ (asking'[owner] # Nothing => asking'[owner].says # c3)
    /\ Rulings(TRUE) = {} \/ Rulings(FALSE) = {} \/ Len(files') <= 2
Unwatched == seen' = <<>> /\ scan' = <<>> /\ asking'[she] = Nothing /\ ~retuned'

(* Documents have nothing in common: files, or photos.                   *)
OneKind == stored' \subseteq (IF part = "photos" THEN Photo ELSE Doc \ Photo)

(* A part that stands still is in one initial state.                     *)
OverlapInit ==
    /\ Init /\ ReadingInit /\ UndoInit /\ RailsInit /\ ReviewInit /\ CodeInit /\ RouterInit
    /\ part \in {"pair", "single", "series", "reading", "photos", "undo", "rails", "review", "lapses",
                "code", "router"}
    /\ part # "undo" => switch = [s \in Switch |-> off]

OverlapNext ==
    /\ UNCHANGED part
    /\ \/ part \in {"pair", "single", "series"} /\ Next /\ Slice /\ FirstFiber
          /\ UNCHANGED <<readingVars, undoVars, railsVars, reviewVars, codeVars, routerVars>>
       \/ part \in {"reading", "photos"} /\ ReadingNext /\ OneKind
          /\ UNCHANGED <<vars, undoVars, railsVars, reviewVars, codeVars, routerVars>>
       \/ part = "undo" /\ UndoNext
          /\ UNCHANGED <<vars, readingVars, railsVars, reviewVars, codeVars, routerVars>>
       \/ part = "rails" /\ RailsNext
          /\ UNCHANGED <<vars, readingVars, undoVars, reviewVars, codeVars, routerVars>>
       \/ part \in {"review", "lapses"} /\ ReviewNext
          /\ (part = "review" => Between) /\ (part = "lapses" => Unwatched)
          /\ UNCHANGED <<vars, readingVars, undoVars, railsVars, codeVars, routerVars>>
       \/ part = "code" /\ CodeNext /\ FirstTask
          /\ UNCHANGED <<vars, readingVars, undoVars, railsVars, reviewVars, routerVars>>
       \/ part = "router" /\ RouterNext
          /\ UNCHANGED <<vars, readingVars, undoVars, railsVars, reviewVars, codeVars>>

OverlapSpec == OverlapInit /\ [][OverlapNext]_overlapVars
=============================================================================

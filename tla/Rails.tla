--------------------------------- MODULE Rails ---------------------------------
(* What a message of the owner's means (orchestrator._dispatch): the rails it *)
(* is tried against, in their order, before the tool loop gets it.            *)
(*                                                                            *)
(* A "yes" may answer a gated ask, a "did you mean", the model's own question *)
(* or nothing that is still there; "approve 1" is about the list shown last,  *)
(* and only until the owner speaks of something else; a question may go on    *)
(* about a private document, which the cloud must not read.  What is waiting  *)
(* is kept in the process, and what was said is read back from the history.   *)
(* A chat's turns take its lock: a turn is one step here (module Confirm has  *)
(* the interleavings of the ask alone).                                       *)
EXTENDS Naturals, Sequences

CONSTANT Look       \* how many of Kyraan's turns are looked back at for an ask

ASSUME RailsAssumption == Look \in Nat \ {0}

\* What Kyraan's turn is to one who looks back: it asks for a yes, settles one
\* ("Done", "cancel"), asks a question of its own, or neither.
Line == {"ask", "settled", "question", "other"}
Wait == {"none", "fresh", "stale"}

\* What a message is, by the first pattern it fits.
ConfirmWord == {"yes", "ok"}
DenyWord == {"no"}
AckWord == {"ok", "thanks"}
Word == ConfirmWord \cup DenyWord \cup AckWord
          \cup {"switch", "skip", "fragment", "decision", "review", "near", "talk", "names"}
          \cup {"help", "day", "volume", "photos", "place", "glance", "saved",
                "claim", "relation", "upkeep", "health"}
          \cup {"forget", "code", "dose", "rule", "person", "tidy"}

VARIABLES
    said,        \* Kyraan's last turns, as the history has them
    pending,     \* the gated ask that waits
    kept,        \* Redis still has it (an ask of the loop)
    offer,       \* the command offered by "did you mean"
    review,      \* the list of facts shown for review
    thread,      \* a private document is being talked about
    private,     \* private mode is on
    sending,      \* Slack watch has put an ask, of which nothing is recorded yet
    did,         \* ghost: what became of the message just heard, if one was
    hung,        \* ghost: an ask was put, in words that were kept, and the owner
                 \*   has not spoken since
    aside,       \* ghost: the owner spoke of something else since the list
    apart,       \* ghost: another turn came after the thread's last answer
    heard        \* ghost: that message, and how things were before it

railsVars == <<said, pending, kept, offer, review, thread, private, sending, did,
               hung, aside, apart, heard>>

Told(w) == IF w \in ConfirmWord \cup DenyWord \cup {"names"} THEN w ELSE "talk"

Heard == [word : Word, hung : BOOLEAN, aside : BOOLEAN, apart : BOOLEAN,
          private : BOOLEAN]

\* What "did you mean" may offer, as the rails take it: "private mode on" is
\* for none of them, the switch being looked for before the rails.
Phrase == {"day", "place", "glance", "upkeep", "health", "tidy", "rule", "review", "talk"}
AskedNow == {"asked", "asked again", "asked by the loop"}

\* Nothing the owner said: the ghosts speak of a step that is a message.
Silence == [word |-> "talk", hung |-> FALSE, aside |-> FALSE, apart |-> FALSE,
            private |-> FALSE]
Unheard == did' = "none" /\ heard' = Silence

RailsInit ==
    /\ said = <<>> /\ pending = "none" /\ kept = FALSE
    /\ offer = "none" /\ review = "none" /\ thread = FALSE /\ private = FALSE
    /\ sending = FALSE
    /\ did = "none" /\ hung = FALSE /\ aside = FALSE /\ apart = FALSE
    /\ heard = Silence

Pushed(t) == Append(IF Len(said) < Look THEN said ELSE Tail(said), t)

\* The turn is recorded, in private mode as a placeholder.  A reply that has to
\* say first that an ask was dropped does not begin with "Done".
Says(t, dropped) ==
    said' = Pushed(IF private \/ (dropped /\ t = "settled") THEN "other" ELSE t)

\* Turns that no private document answered end its thread.
LeavesThread == thread' = FALSE /\ apart' = TRUE

(* ------------------------- before the ask is looked at ------------------ *)

\* "private mode on/off" is taken before everything, and ends no thread.
SwitchesMode(w) ==
    /\ w = "switch"
    /\ private' \in BOOLEAN
    /\ said' = Pushed("other") /\ did' = "switched"
    /\ UNCHANGED <<pending, kept, offer, review, thread, aside, apart>>

\* "next song": the ask that waits goes on waiting.
Skips(w) ==
    /\ w = "skip"
    /\ said' = Pushed("other") /\ did' = "rail"
    /\ LeavesThread
    /\ UNCHANGED <<pending, kept, offer, review, private, aside>>

\* A bare time is no request, unless it answers a question.
Answering == \E i \in 1..Len(said) : i > Len(said) - 3 /\ said[i] = "question"

Swallows(w) ==
    /\ w = "fragment" /\ pending = "none" /\ ~Answering
    /\ said' = Pushed("other") /\ did' = "swallowed"
    /\ LeavesThread
    /\ UNCHANGED <<pending, kept, offer, review, private, aside>>

Early(w) ==
    \/ w \in {"switch", "skip"}
    \/ w = "fragment" /\ pending = "none" /\ ~Answering

(* ------------------------------- the ask -------------------------------- *)

\* What is popped: the process' stash, or what Redis kept over a restart.
Stash == IF pending # "none" THEN pending ELSE IF kept THEN "fresh" ELSE "none"

Resolved == pending' = "none" /\ kept' = FALSE

\* A confirmed action replies in its own words: "Done", or "Recorded", "Added".
Runs(w) ==
    /\ Stash = "fresh" /\ w \in ConfirmWord
    /\ \E t \in {"settled", "other"} : Says(t, FALSE)
    /\ did' = "ran" /\ Resolved

\* Or it meets the gate again, and is stashed and asked about once more.
Regated(w) ==
    /\ Stash = "fresh" /\ w \in ConfirmWord
    /\ Says("ask", FALSE) /\ did' = "asked again"
    /\ pending' = "fresh" /\ kept' = FALSE

Denies(w) ==
    /\ Stash = "fresh" /\ w \in DenyWord
    /\ Says("settled", FALSE) /\ did' = "denied" /\ Resolved

Expires(w) ==
    /\ Stash = "stale" /\ w \in ConfirmWord \cup DenyWord
    /\ said' = Pushed("other") /\ did' = "expired" /\ Resolved

Answers(w) ==
    /\ Runs(w) \/ Regated(w) \/ Denies(w) \/ Expires(w)
    /\ LeavesThread
    /\ UNCHANGED <<offer, review, private, aside>>

\* Else the owner moved on: the ask is dropped, and the reply says so.
MovesOn(w) ==
    /\ ~Early(w)
    /\ Stash = "none" \/ w \notin ConfirmWord \cup DenyWord
Dropped == Stash = "fresh"

(* --------------------- the list, the offer, the ask gone ---------------- *)

Decides(w) ==
    /\ MovesOn(w) /\ w = "decision" /\ review = "fresh"
    /\ Says("other", Dropped) /\ did' = "decided"
    /\ review' = "none" /\ LeavesThread /\ Resolved
    /\ UNCHANGED <<offer, private, aside>>

\* What is left of the list once a message was no decision about it.
Passed == "none"

\* A message gets past the ask and the list.
Beyond(w) ==
    /\ MovesOn(w) /\ ~(w = "decision" /\ review = "fresh")
    /\ UNCHANGED private

\* The last ask in the turns looked back at, with nothing after it that reads
\* like its end.
Unsettled ==
    \E i \in 1..Len(said) :
        said[i] = "ask" /\ \A j \in i + 1 .. Len(said) : said[j] \notin {"ask", "settled"}

\* A slip: only a stale ask is told of, not one that went with the process.
NeverMissed(w) == FALSE

\* A yes or no to an ask that died is told so.
Orphaned(w) == w \in ConfirmWord \cup DenyWord /\ Unsettled

\* "Did you mean ...?" "Yes", when nothing waits any more.
TakesOffer(w) == w \in ConfirmWord /\ offer = "fresh"

OfferLeft(w) == IF w \in DenyWord \/ TakesOffer(w) THEN "none" ELSE offer

Misses(w) ==
    /\ Beyond(w) /\ ~TakesOffer(w) /\ Orphaned(w)
    /\ Says("settled", FALSE) /\ did' = "missed" /\ Resolved
    /\ offer' = OfferLeft(w) /\ review' = Passed /\ aside' = TRUE /\ LeavesThread

\* What goes on to the commands and the models: the message, or in its place
\* the phrase that was offered, which is dispatched as a message of its own.
Further(w, p) ==
    /\ Beyond(w)
    /\ IF TakesOffer(w) THEN p \in Phrase ELSE p = w /\ ~Orphaned(w)
    /\ aside' = (p # "review")

Acknowledges(w) ==
    /\ w \in AckWord
    /\ Says("other", Dropped) /\ did' = "acknowledged" /\ Resolved
    /\ review' = Passed /\ LeavesThread

(* ---------------------------- commands ---------------------------------- *)

\* A phrase Kyraan knows is read, or done at once, without the model...
Obeyed ==
    /\ Says("other", Dropped) /\ did' = "rail" /\ Resolved
    /\ review' = Passed /\ LeavesThread

\* ... or it is asked about first.
Gated ==
    /\ Says("ask", Dropped) /\ did' = "asked"
    /\ pending' = "fresh" /\ kept' = FALSE
    /\ review' = Passed /\ LeavesThread

Helps(w) == w = "help" /\ Obeyed

\* A face or a document is forgotten after a yes, if there is such a one.
Forgets(w) == w = "forget" /\ (Gated \/ Obeyed)

\* "code: ..." and "code discard" are asked about, "code status" is read.
Codes(w) == w = "code" /\ (Gated \/ Obeyed)

\* What Kiaan got or skipped is asked about, his status is read.
Doses(w) == w = "dose" /\ (Gated \/ Obeyed)

\* What is open today, the headlines, the house.
ShowsDay(w) == w = "day" /\ Obeyed

\* A volume above the cap is asked about.
SetsVolume(w) == w = "volume" /\ (Gated \/ Obeyed)

Photos(w) == w = "photos" /\ Obeyed

\* Two rules that act are set after one yes.
SetsRule(w) == w = "rule" /\ Gated

\* Where the owner is, the places he names, his phone.
Places(w) == w = "place" /\ Obeyed

\* Duties, a greeting, somebody's medicines.
Glances(w) == w = "glance" /\ Obeyed

\* "Did you save it?"
Saved(w) == w = "saved" /\ Obeyed

\* "This is my medicine" is about the photo just sent.
Claims(w) == w = "claim" /\ Obeyed

Registers(w) == w = "person" /\ (Gated \/ Obeyed)

\* "She is Ruma" is about the photo just sent.
Relates(w) == w = "relation" /\ Obeyed

\* The last turn, the vault, the learned rules.
Upkeep(w) == w = "upkeep" /\ Obeyed

Reports(w) == w = "health" /\ Obeyed

\* Consolidation and undo are asked about, when there is anything to do.
Tidies(w) == w = "tidy" /\ (Gated \/ Obeyed)

Commands(w) ==
    \/ Helps(w) \/ Forgets(w) \/ Codes(w) \/ Doses(w) \/ ShowsDay(w) \/ SetsVolume(w)
    \/ Photos(w) \/ SetsRule(w) \/ Places(w) \/ Glances(w) \/ Saved(w) \/ Claims(w)
    \/ Registers(w) \/ Relates(w) \/ Upkeep(w) \/ Reports(w) \/ Tidies(w)

Lists(w) ==
    /\ w = "review"
    /\ Says("other", Dropped) /\ did' = "listed" /\ Resolved
    /\ review' \in {"none", "fresh"}
    /\ LeavesThread

\* A command in other words is offered, never in private mode.
Offers(w) ==
    /\ w = "near" /\ ~private
    /\ Says("other", Dropped) /\ did' = "offered" /\ Resolved
    /\ offer' = "fresh" /\ review' = Passed /\ LeavesThread

(* ------------------------------ the models ------------------------------- *)

\* Nothing above took it; after-photo words and a registry name may have missed.
Spoken(w) ==
    \/ w \in {"talk", "names", "fragment", "decision", "yes", "no",
              "photos", "saved", "claim", "relation"}
    \/ w = "near" /\ private

Reaches(w) == Spoken(w) /\ review' = Passed

\* A private turn is the local model's, without tools, or nobody's.
Locally(w) ==
    /\ Reaches(w) /\ private
    /\ Says("other", Dropped)
    /\ did' = "local" /\ Resolved /\ LeavesThread

\* So is a message that names a private document, or any while one is talked
\* about: the local model answers, or says it is about something else.
AboutDocument(w) ==
    /\ Reaches(w) /\ ~private
    /\ w = "names" \/ thread
    /\ Says("other", Dropped) /\ Resolved
    /\ \/ did' = (IF w = "names" THEN "document" ELSE "followed")
          /\ thread' = TRUE /\ apart' = FALSE
       \/ w = "names" /\ did' = "refused" /\ LeavesThread

\* The rest is the tool loop's, in the cloud first; a follow-up the local model
\* left alone too.
LoopTakes(w) ==
    /\ Reaches(w) /\ ~private /\ w # "names"
    /\ LeavesThread
    /\ \/ Resolved /\ did' = "loop" /\ \E t \in Line \ {"ask"} : Says(t, Dropped)
       \/ /\ Says("ask", Dropped) /\ did' = "asked by the loop"
          /\ pending' = "fresh" /\ kept' \in BOOLEAN

\* Each leaves the offer as it is: only a no, or the yes that takes it, ends it.
Serves(p) ==
    \/ Acknowledges(p) \/ Commands(p) \/ Lists(p)
    \/ Locally(p) \/ AboutDocument(p) \/ LoopTakes(p)

Speaks(w) ==
    \/ SwitchesMode(w) \/ Skips(w) \/ Swallows(w) \/ Answers(w) \/ Decides(w) \/ Misses(w)
    \/ \E p \in Word : Further(w, p) /\ (Offers(p) \/ (Serves(p) /\ offer' = OfferLeft(w)))

(* --------------------------- meanwhile ----------------------------------- *)

\* A reminder or an alert is said in between.
Interjects ==
    /\ \E t \in {"other", "settled", "question"} :
          /\ said' = Pushed(t)
          /\ hung' = (hung /\ t # "settled" /\ \E i \in 1..Len(said') : said'[i] = "ask")
    /\ UNCHANGED <<pending, kept, offer, review, thread, private, sending, aside, apart>>
    /\ Unheard

\* A photo's face is to be remembered: the ask is the reply, no message's turn.
Enrolls ==
    /\ Says("ask", FALSE) /\ pending' = "fresh" /\ kept' = FALSE /\ hung' = ~private
    /\ UNCHANGED <<offer, review, thread, private, sending, aside, apart>>
    /\ Unheard

\* Slack watch asks from its job, outside the chat's turns: the ask is stashed
\* and sent...
JobAsks ==
    /\ ~sending /\ sending' = TRUE
    /\ pending' = "fresh" /\ kept' = FALSE
    /\ UNCHANGED <<said, offer, review, thread, private, hung, aside, apart>>
    /\ Unheard

\* ... and recorded as it is once it was sent; nothing is when the send failed.
JobRecords ==
    /\ sending /\ sending' = FALSE
    /\ \/ said' = Pushed("ask") /\ hung' = (hung \/ pending # "none")
       \/ UNCHANGED <<said, hung>>
    /\ UNCHANGED <<pending, kept, offer, review, thread, private, aside, apart>>
    /\ Unheard

Aged(x) == IF x = "none" THEN "none" ELSE "stale"

FiveMinutes ==
    /\ pending' = Aged(pending) /\ offer' = Aged(offer) /\ review' = Aged(review)
    /\ kept' = FALSE
    /\ thread' \in {thread, FALSE}
    /\ UNCHANGED <<said, private, sending, hung, aside, apart>>
    /\ Unheard

\* The history comes back from the log, private mode from Redis.
Restarts ==
    /\ pending' = "none" /\ offer' = "none" /\ review' = "none" /\ thread' = FALSE
    /\ sending' = FALSE
    /\ UNCHANGED <<said, kept, private, hung, aside, apart>>
    /\ Unheard

\* The owner's word reaches the rails; an ask in the reply hangs from then on,
\* unless a placeholder stands for it.
Message(w) ==
    /\ Speaks(w)
    /\ hung' = (did' \in AskedNow /\ ~private)
    /\ heard' = [word |-> Told(w), hung |-> hung, aside |-> aside, apart |-> apart,
                 private |-> private]
    /\ UNCHANGED sending

RailsNext ==
    \/ \E w \in Word : Message(w)
    \/ Interjects \/ Enrolls \/ JobAsks \/ JobRecords \/ FiveMinutes \/ Restarts

RailsSpec == RailsInit /\ [][RailsNext]_railsVars

(* ------------------------------ properties ----------------------------- *)

RailsTypeOK ==
    /\ said \in Seq(Line) /\ Len(said) <= Look
    /\ {pending, offer, review} \subseteq Wait
    /\ {kept, thread, private, sending, hung, aside, apart} \subseteq BOOLEAN
    /\ heard \in Heard

\* A yes or no that follows an ask recorded in words, whatever was said unasked
\* in between, runs it, refuses it, is asked once more, or is told that it is
\* gone: it never becomes small talk for a model, a thumbs up, or the answer to
\* something else.
NeverImprovised ==
    heard.hung /\ heard.word \in ConfirmWord \cup DenyWord
       => did \in {"ran", "denied", "asked again", "expired", "missed"}

\* "Anything else leaves them pending": a decision counts for the list that was
\* shown when the owner spoke of nothing else since.
DecidesTheListShown == did = "decided" => ~heard.aside

\* The private document goes on being the subject only from turn to turn.
ThreadIsContinuous == did = "followed" => ~heard.apart

\* In private mode no message reaches the cloud's loop, and one that names a
\* private document never does.
StaysHere ==
    heard.private \/ heard.word = "names"
       => did \notin {"loop", "asked by the loop", "offered"}

\* The safety of the rails, with their type.
RailsInv ==
    /\ RailsTypeOK /\ NeverImprovised /\ DecidesTheListShown
    /\ ThreadIsContinuous /\ StaysHere
================================================================================

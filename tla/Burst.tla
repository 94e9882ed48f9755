------------------------------- MODULE Burst -------------------------------
(***************************************************************************)
(* The intake of one chat (telegram_bot._ingest_inner): messages that come *)
(* close together are answered by one reply.  The first message starts a   *)
(* flusher, which gathers, takes what is buffered, waits for the chat's    *)
(* lock and composes; a message that comes while it waits sets the event   *)
(* of the draft, and the draft is folded back in front of the buffer.      *)
(*                                                                         *)
(* Updates are handled concurrently, so a message may come at any time.    *)
(* The quiet times are left out: gathering may end at any moment.  Nothing *)
(* of this survives the process.                                           *)
(***************************************************************************)
EXTENDS Integers, Sequences

CONSTANT MaxMessages    \* bound: messages are numbered as they come

ASSUME BurstAssumption == MaxMessages \in Nat

VARIABLES
    buffer,     \* _burst_buffers[chat_id]
    flusher,    \* what the flusher does, and the fragments it took
    superseded, \* the event of the present draft is set
    lock,       \* who holds the chat's lock
    came,       \* ghost: how many messages came
    taken,      \* ghost: the messages handed to the orchestrator, in turn
    broken      \* ghost: the last flusher was ended by an exception

burstVars == <<buffer, flusher, superseded, lock, came, taken, broken>>

Messages == 1 .. MaxMessages
Flushing == {"gathering", "waiting", "composing", "replying", "again"}
Idling   == [at |-> "idle", draft |-> <<>>]

BurstTypeOK ==
    /\ buffer \in Seq(Messages) /\ taken \in Seq(Messages)
    /\ flusher \in [at : Flushing \cup {"idle"}, draft : Seq(Messages)]
    /\ superseded \in BOOLEAN /\ broken \in BOOLEAN
    /\ lock \in {"free", "burst", "other"}
    /\ came \in 0 .. MaxMessages
-----------------------------------------------------------------------------
BurstInit ==
    /\ buffer = <<>> /\ taken = <<>>
    /\ flusher = Idling
    /\ superseded = FALSE /\ broken = FALSE
    /\ lock = "free"
    /\ came = 0

(* Slip: the event is only set once the reply is composed. *)
ArrivesLate ==
    /\ came < MaxMessages
    /\ came' = came + 1
    /\ buffer' = Append(buffer, came')
    /\ IF flusher.at = "idle"
       THEN flusher' = [Idling EXCEPT !.at = "gathering"] /\ UNCHANGED superseded
       ELSE superseded' = (superseded \/ flusher.at = "composing") /\ UNCHANGED flusher
    /\ broken' = FALSE
    /\ UNCHANGED <<lock, taken>>

(* The first message starts the flusher, a later one supersedes its draft. *)
Arrives ==
    /\ came < MaxMessages
    /\ came' = came + 1
    /\ buffer' = Append(buffer, came')
    /\ IF flusher.at = "idle"
       THEN flusher' = [Idling EXCEPT !.at = "gathering"] /\ UNCHANGED superseded
       ELSE superseded' = TRUE /\ UNCHANGED flusher
    /\ broken' = FALSE
    /\ UNCHANGED <<lock, taken>>

(* Quiet at last, or waited long enough: the event is made anew and the    *)
(* buffer popped.                                                          *)
Pops ==
    /\ flusher.at = "gathering"
    /\ flusher' = [at |-> "waiting", draft |-> buffer]
    /\ buffer' = <<>>
    /\ superseded' = FALSE
    /\ UNCHANGED <<lock, came, taken, broken>>

Granted == flusher.at = "waiting" /\ lock = "free"

(* Slip: the newcomers go first. *)
FoldsBehind ==
    /\ Granted /\ superseded
    /\ buffer' = buffer \o flusher.draft
    /\ flusher' = [Idling EXCEPT !.at = "gathering"]
    /\ UNCHANGED <<superseded, lock, came, taken, broken>>

(* handle_burst finds the event set and raises BurstSuperseded.            *)
FoldsBack ==
    /\ Granted /\ superseded
    /\ buffer' = flusher.draft \o buffer
    /\ flusher' = [Idling EXCEPT !.at = "gathering"]
    /\ UNCHANGED <<superseded, lock, came, taken, broken>>

Composes ==
    /\ Granted /\ ~superseded
    /\ flusher' = [flusher EXCEPT !.at = "composing"]
    /\ lock' = "burst"
    /\ taken' = taken \o flusher.draft
    /\ UNCHANGED <<buffer, superseded, came, broken>>

Composed ==
    /\ flusher.at = "composing"
    /\ flusher' = [flusher EXCEPT !.at = "replying"]
    /\ lock' = "free"
    /\ UNCHANGED <<buffer, superseded, came, taken, broken>>

(* The turn raised: the flusher goes, what it did not take stays.          *)
Raises ==
    /\ flusher.at = "composing"
    /\ flusher' = Idling
    /\ lock' = "free"
    /\ broken' = TRUE
    /\ UNCHANGED <<buffer, superseded, came, taken>>

(* _deliver: one more try, except when Telegram refused the text or may    *)
(* have it.                                                                *)
TriesAgain ==
    /\ flusher.at = "replying"
    /\ flusher' = [flusher EXCEPT !.at = "again"]
    /\ UNCHANGED <<buffer, superseded, lock, came, taken, broken>>

(* Delivered or given up: what came meanwhile starts the next round.       *)
Replied ==
    /\ flusher.at \in {"replying", "again"}
    /\ flusher' = IF buffer = <<>> THEN Idling ELSE [Idling EXCEPT !.at = "gathering"]
    /\ UNCHANGED <<buffer, superseded, lock, came, taken, broken>>

(* A tap, or the poll of the voice channel, takes the lock for its turn. *)
Other ==
    /\ \/ lock = "free" /\ lock' = "other"
       \/ lock = "other" /\ lock' = "free"
    /\ UNCHANGED <<buffer, flusher, superseded, came, taken, broken>>

Delivers == TriesAgain \/ Replied

BurstNext ==
    \/ Arrives \/ Pops \/ FoldsBack \/ Composes \/ Composed \/ Raises
    \/ Delivers \/ Other

BurstSpec == BurstInit /\ [][BurstNext]_burstVars

(* Waits are bounded, turns and sends end, and asyncio's lock is granted   *)
(* in the order it was asked for.                                          *)
BurstFairness ==
    /\ WF_burstVars(Pops) /\ WF_burstVars(Delivers)
    /\ WF_burstVars(Composed \/ Raises)
    /\ WF_burstVars(lock = "other" /\ Other)
    /\ SF_burstVars(FoldsBack \/ Composes)
-----------------------------------------------------------------------------
(* No message is lost, taken twice or taken out of turn, however drafts    *)
(* are folded back (telegram_bot.py:460-469).                              *)
Drafted == IF flusher.at = "waiting" THEN flusher.draft ELSE <<>>

InTurn == taken \o Drafted \o buffer = [n \in 1 .. came |-> n]

(* A message is left in the buffer without a flusher only when a turn      *)
(* ended in an exception (telegram_bot.py:477-483).                        *)
NoneStranded == flusher.at = "idle" /\ buffer # <<>> => broken

OneVoice == (flusher.at = "composing") <=> (lock = "burst")

BurstInv == BurstTypeOK /\ InTurn /\ NoneStranded /\ OneVoice

(* A reply never starts on half a thought: whatever came before the        *)
(* composition began is part of it (telegram_bot.py:414-417, orchestrator  *)
(* .handle_burst).                                                         *)
WholeThought ==
    [][flusher.at = "waiting" /\ flusher'.at = "composing" => buffer = <<>>]_burstVars

(* Every message is taken up, unless a raised turn left it waiting for the *)
(* next one.                                                               *)
EveryMessageTaken == []<>(Len(taken) = came \/ broken)
=============================================================================

-------------------------------- MODULE Voice --------------------------------
(* What is said to Kyraan: to an Echo in the room (channels/voice_echo.py),   *)
(* and as a voice note (channels/voice.py, telegram_bot._on_voice).           *)
(*                                                                            *)
(* An Echo keeps only the last thing said to it.  A poll under the owner's    *)
(* chat lock reads it, marks it and has the turn answer it, aloud and on      *)
(* Telegram; what was marked lives in the process.  A voice note waits for    *)
(* the probe of the recognizer, is written to a temporary file, and becomes   *)
(* a typed message.                                                           *)
EXTENDS Naturals, FiniteSets

CONSTANTS Echo,         \* the Echos listened on
          Note,         \* voice notes
          MaxSaid,      \* bound: things said to an Echo
          MaxBoot,      \* bound: restarts
          MaxMiss       \* bound: failed reads of Home Assistant

ASSUME VoiceAssumption ==
    /\ IsFiniteSet(Echo) /\ IsFiniteSet(Note)
    /\ MaxSaid \in Nat /\ MaxBoot \in Nat /\ MaxMiss \in Nat

VARIABLES
    last,      \* what Home Assistant has as the last thing said to each Echo
    seen,      \* the process' mark of the last one handled, 0 before the first
    said,      \* how many things were said
    poll,      \* the tick
    lock,      \* the owner's chat lock
    boots,     \* restarts so far
    misses,    \* failed reads so far
    probe,     \* the recognizer's probe
    voiceNote,      \* how far each voice note is
    temp,      \* the notes whose audio is on disk
    base,      \* ghost: the first thing marked of each Echo since the boot
    floor,     \* ghost: what had been said before the boot
    heard,     \* ghost: how often each thing was answered
    reply,     \* ghost: where the answer to each was given
    strayed    \* ghost: audio left by a process that ended

echoVars == <<last, seen, said, poll, misses, base, floor, heard, reply>>
noteVars == <<probe, voiceNote, temp, strayed>>
voiceVars == <<echoVars, noteVars, lock, boots>>

\* "Kyraan ...", one of Kyraan's own commands without the name, or neither.
Address == {"named", "command", "alexa"}
Still == [at |-> "rest"]

VoiceTypeOK ==
    /\ \A e \in Echo : last[e].n \in 0..MaxSaid /\ last[e].to \in Address
    /\ seen \in [Echo -> 0..MaxSaid] /\ said \in 0..MaxSaid
    /\ poll.at \in {"rest", "read", "speak", "mirror"}
    /\ lock \in {"free", "poll", "turn"}
    /\ probe \in {"off", "running", "good", "bad"}
    /\ voiceNote \in [Note -> {"none", "waiting", "saved", "heard", "refused", "unclear", "lost"}]
    /\ temp \subseteq Note /\ strayed \subseteq Note

VoiceInit ==
    /\ last = [e \in Echo |-> [n |-> 0, to |-> "alexa"]]
    /\ seen = [e \in Echo |-> 0] /\ said = 0
    /\ poll = Still /\ lock = "free" /\ boots = 0 /\ misses = 0
    /\ probe = "running" /\ voiceNote = [x \in Note |-> "none"] /\ temp = {}
    /\ base = seen /\ floor = 0 /\ strayed = {}
    /\ heard = [n \in 1..MaxSaid |-> 0] /\ reply = [n \in 1..MaxSaid |-> {}]

(* ------------------------------ in the room ----------------------------- *)

\* Whatever is said takes the place of what was said before.
Utters(e) ==
    /\ said < MaxSaid /\ said' = said + 1
    /\ \E a \in Address : last' = [last EXCEPT ![e] = [n |-> said + 1, to |-> a]]
    /\ UNCHANGED <<seen, poll, misses, base, floor, heard, reply, noteVars, lock, boots>>

\* A typed turn, or another job of the chat, has the lock.
TurnTakes == /\ lock = "free" /\ lock' = "turn"
             /\ UNCHANGED <<echoVars, noteVars, boots>>
TurnEnds == /\ lock = "turn" /\ lock' = "free"
            /\ UNCHANGED <<echoVars, noteVars, boots>>

PollBegins ==
    /\ lock = "free" /\ lock' = "poll"
    /\ poll' = [at |-> "read", todo |-> Echo]
    /\ UNCHANGED <<last, seen, said, misses, base, floor, heard, reply, noteVars, boots>>

Rest(e) == [at |-> "read", todo |-> poll.todo \ {e}]

ReadFails(e) ==
    /\ poll.at = "read" /\ e \in poll.todo
    /\ misses < MaxMiss /\ misses' = misses + 1
    /\ poll' = Rest(e)
    /\ UNCHANGED <<last, seen, said, base, floor, heard, reply, noteVars, lock, boots>>

\* A slip: what was said before the boot is answered.
AnyIsNew(e) == last[e].n > seen[e]

\* The first thing seen of an Echo is only marked.
IsNew(e) == seen[e] > 0 /\ last[e].n > seen[e]

\* Kyraan's name was said, as Alexa spells it, or a command only Kyraan has.
Addressed(e) == last[e].to # "alexa"

\* The words are the owner's turn; the mark comes before it.
Reads(e) ==
    /\ poll.at = "read" /\ e \in poll.todo
    /\ seen' = IF last[e].n = 0 THEN seen ELSE [seen EXCEPT ![e] = last[e].n]
    /\ IF IsNew(e) /\ Addressed(e)
       THEN /\ poll' = [at |-> "speak", todo |-> poll.todo \ {e}, n |-> last[e].n]
            /\ heard' = [heard EXCEPT ![last[e].n] = @ + 1]
       ELSE poll' = Rest(e) /\ UNCHANGED heard
    /\ base' = IF seen[e] = 0 THEN [base EXCEPT ![e] = last[e].n] ELSE base
    /\ UNCHANGED <<last, said, misses, floor, reply, noteVars, lock, boots>>

\* The answer is announced on the Echo, unless that fails or is not allowed ...
Speaks ==
    /\ poll.at = "speak" /\ poll' = [poll EXCEPT !.at = "mirror"]
    /\ \/ reply' = [reply EXCEPT ![poll.n] = @ \cup {"room"}]
       \/ UNCHANGED reply
    /\ UNCHANGED <<last, seen, said, misses, base, floor, heard, noteVars, lock, boots>>

\* Whether the Echo spoke or not, Telegram gets the answer too.
Spares(n) == FALSE

\* ... and sent to Telegram.
Mirrors ==
    /\ poll.at = "mirror" /\ poll' = [at |-> "read", todo |-> poll.todo]
    /\ reply' = IF Spares(poll.n) THEN reply
                ELSE [reply EXCEPT ![poll.n] = @ \cup {"telegram"}]
    /\ UNCHANGED <<last, seen, said, misses, base, floor, heard, noteVars, lock, boots>>

MirrorFails ==
    /\ poll.at = "mirror" /\ misses < MaxMiss /\ misses' = misses + 1
    /\ reply' = [reply EXCEPT ![poll.n] = @ \cup {"failed"}]
    /\ poll' = [at |-> "read", todo |-> poll.todo]
    /\ UNCHANGED <<last, seen, said, base, floor, heard, noteVars, lock, boots>>

PollEnds ==
    /\ poll.at = "read" /\ poll.todo = {} /\ poll' = Still /\ lock' = "free"
    /\ UNCHANGED <<last, seen, said, misses, base, floor, heard, reply, noteVars, boots>>

(* ------------------------------- voice notes ---------------------------- *)

\* The probe imports the recognizer in a process of its own, which may die; its
\* time is bounded.
ProbeEnds ==
    /\ probe = "running" /\ probe' \in {"good", "bad"}
    /\ UNCHANGED <<echoVars, voiceNote, temp, strayed, lock, boots>>

NoteComes(x) ==
    /\ voiceNote[x] = "none" /\ voiceNote' = [voiceNote EXCEPT ![x] = "waiting"]
    /\ UNCHANGED <<echoVars, probe, temp, strayed, lock, boots>>

\* It is given up when the probe failed; while it runs the note waits for it
\* (both for 90 seconds: the wait ends with the probe at the latest).
GivesUp == probe = "bad"

Refuses(x) ==
    /\ voiceNote[x] = "waiting" /\ GivesUp
    /\ voiceNote' = [voiceNote EXCEPT ![x] = "refused"]
    /\ UNCHANGED <<echoVars, probe, temp, strayed, lock, boots>>

Downloads(x) ==
    /\ voiceNote[x] = "waiting" /\ probe = "good"
    /\ voiceNote' = [voiceNote EXCEPT ![x] = "saved"] /\ temp' = temp \cup {x}
    /\ UNCHANGED <<echoVars, probe, strayed, lock, boots>>

\* Whatever came of it, the file goes; what was understood is a typed message.
\* A download that fails takes the handler with it, and no answer is given.
Transcribes(x) ==
    /\ voiceNote[x] = "saved" /\ temp' = temp \ {x}
    /\ \E r \in {"heard", "unclear", "lost"} : voiceNote' = [voiceNote EXCEPT ![x] = r]
    /\ UNCHANGED <<echoVars, probe, strayed, lock, boots>>

(* ---------------------------------- both -------------------------------- *)

VoiceRestarts ==
    /\ boots < MaxBoot /\ boots' = boots + 1
    /\ seen' = [e \in Echo |-> 0] /\ base' = seen' /\ floor' = said
    /\ poll' = Still /\ lock' = "free" /\ probe' = "running"
    /\ voiceNote' = [x \in Note |-> IF voiceNote[x] \in {"waiting", "saved"} THEN "lost" ELSE voiceNote[x]]
    /\ strayed' = strayed \cup temp
    /\ UNCHANGED <<last, said, misses, heard, reply, temp>>

Listens == \/ PollBegins \/ Speaks \/ Mirrors \/ PollEnds
           \/ \E e \in Echo : Reads(e)
Takes(x) == Refuses(x) \/ Downloads(x) \/ Transcribes(x)

VoiceNext ==
    \/ \E e \in Echo : Utters(e) \/ ReadFails(e)
    \/ TurnTakes \/ TurnEnds \/ Listens \/ MirrorFails \/ ProbeEnds
    \/ \E x \in Note : NoteComes(x) \/ Takes(x)
    \/ VoiceRestarts

\* The poll runs every two seconds, and whoever has the lock gives it back; a
\* poll that waits for the lock is served in turn.
VoiceFairness ==
    /\ WF_voiceVars(TurnEnds) /\ SF_voiceVars(PollBegins)
    /\ \A e \in Echo : WF_voiceVars(Reads(e))
    /\ WF_voiceVars(Speaks) /\ WF_voiceVars(Mirrors) /\ WF_voiceVars(PollEnds)
    /\ WF_voiceVars(ProbeEnds) /\ \A x \in Note : WF_voiceVars(Takes(x))

VoiceSpec == VoiceInit /\ [][VoiceNext]_voiceVars /\ VoiceFairness

-----------------------------------------------------------------------------
(* What is checked. *)

\* Nothing that was said is answered twice, not over a restart either, and
\* nothing that was said before the boot is answered after it.
AnsweredOnce ==
    /\ \A n \in 1..MaxSaid : heard[n] <= 1
    /\ poll.at \in {"speak", "mirror"} => poll.n > floor

\* An answered question has its answer on Telegram, or Telegram was tried.
Mirrored ==
    \A n \in 1..MaxSaid :
        heard[n] = 1 /\ boots = 0 =>
            \/ reply[n] \cap {"telegram", "failed"} # {}
            \/ poll.at \in {"speak", "mirror"} /\ poll.n = n

\* No audio stays on disk but of a note that is being transcribed, and of one
\* whose process ended meanwhile.
NoAudioAtRest == \A x \in temp : voiceNote[x] = "saved" \/ x \in strayed

\* A note is refused only by a probe that failed, in this process' life or an
\* earlier one's.
RefusedForCause == \A x \in Note : voiceNote[x] = "refused" /\ boots = 0 => probe = "bad"

\* Things said are answered once, here and on Telegram, and voice leaves no
\* trace.
VoiceInv == VoiceTypeOK /\ AnsweredOnce /\ Mirrored /\ NoAudioAtRest /\ RefusedForCause

\* The last thing said to an Echo by Kyraan's name is answered in time, unless
\* it is the first one seen of it, or the process restarts.
SaidIsHeard ==
    \A e \in Echo :
        []<>(last[e].to = "named" => heard[last[e].n] = 1 \/ last[e].n <= base[e])
=============================================================================

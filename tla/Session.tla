------------------------------ MODULE Session ------------------------------
(***************************************************************************)
(* What one chat remembers (agents/session.py) and what it must not        *)
(* (agents/secrets.py): a bounded window of entries that goes into every   *)
(* prompt, a backlog of entries that left it, a rolling summary the        *)
(* backlog is condensed into, and the log on disk a restart reads the      *)
(* window back from.  Entries of private turns are recorded as a           *)
(* placeholder; a request about what was just said       *)
(* ("isko secret rakho") turns the last entries into placeholders, in the  *)
(* window and, for later readers, in the log.                              *)
(*                                                                         *)
(* Window and backlog live in Redis until it fails; from then on the       *)
(* process keeps them in memory, until it restarts.  Entries are numbered  *)
(* as they are said.  An action is what runs between two awaits.           *)
(***************************************************************************)
EXTENDS Integers, Sequences

CONSTANTS
    Window,     \* _HISTORY_MAX_ENTRIES
    ChunkSize,  \* _SUMMARY_CHUNK
    Retro,      \* RETRO_ENTRIES
    MaxEntries  \* bound: entries in a behaviour

ASSUME SessionAssumption ==
    /\ ChunkSize \in Nat \ {0}
    /\ Retro \in Nat \ {0} /\ Window \in Nat /\ Retro <= Window
    /\ 2 <= Window       \* an exchange fits
    /\ MaxEntries \in Nat

VARIABLES
    chat,       \* the window and the backlog the process sees
    redis,      \* what Redis has of them, once the process gave it up
    cold,       \* the process gave Redis up
    log,        \* chat.jsonl: for each entry, whether a reader sees it hidden
    chunk,      \* the chunk being condensed
    rolls,      \* a task to roll the summary was started
    talk,       \* the turn under way: "none", "plain", "secret"
    alive,      \* the process runs
    summed,     \* ghost: the entries condensed into the summary
    gone,       \* ghost: the entries that left without being condensed
    secret,     \* ghost: the entries that are to be kept secret
    partial,    \* ghost: a request did not reach every copy it is about
    revived     \* ghost: a process read back what Redis kept over an outage

sessionVars == <<chat, redis, cold, log, chunk, rolls, talk,
                 alive, summed, gone, secret, partial, revived>>

Number   == 1 .. MaxEntries
Entry    == [n : Number, hidden : BOOLEAN]
Nothing  == [window |-> <<>>, backlog |-> <<>>]

SessionTypeOK ==
    /\ chat \in [window : Seq(Entry), backlog : Seq(Entry)]
    /\ redis \in [window : Seq(Entry), backlog : Seq(Entry)]
    /\ Len(chat.window) <= Window
    /\ log \in Seq(BOOLEAN) /\ Len(log) <= MaxEntries
    /\ chunk \in Seq(Entry)
    /\ talk \in {"none", "plain", "secret"}
    /\ cold \in BOOLEAN /\ rolls \in BOOLEAN /\ alive \in BOOLEAN
    /\ partial \in BOOLEAN /\ revived \in BOOLEAN
    /\ summed \subseteq Number /\ gone \subseteq Number /\ secret \subseteq Number
-----------------------------------------------------------------------------
Smaller(a, b) == IF a < b THEN a ELSE b
LastOf(s, k)  == SubSeq(s, Len(s) - Smaller(k, Len(s)) + 1, Len(s))
Numbers(s)    == {s[i].n : i \in DOMAIN s}
Held(c)       == Numbers(c.window) \cup Numbers(c.backlog)

Said    == Len(log)
Latest(k) == Said - Smaller(k, Said) + 1 .. Said

(* The entry about to fall off a full window goes to the backlog ...       *)
Spilt(c) == IF Len(c.window) = Window
            THEN [c EXCEPT !.backlog = Append(@, c.window[1])] ELSE c

(* ... before the new one is appended to the window.                       *)
Push(c, e) == [Spilt(c) EXCEPT !.window = LastOf(Append(@, e), Window)]

(* Redis failed at one of these two calls: what it has by then, and what   *)
(* goes on in memory.                                                      *)
Cuts(c, es) ==
    LET memory == [window |-> es, backlog |-> <<>>]
    IN  {<<Spilt(c), memory>>}
        \cup IF Len(c.window) = Window
             THEN {<<c, [memory EXCEPT !.backlog = <<c.window[1]>>]>>} ELSE {}

(* record_proactive and _finish_turn let it fall. *)
Shove(c, e) == [c EXCEPT !.window = LastOf(Append(@, e), Window)]
Shoved(k)   == IF Len(chat.window) + k > Window
               THEN {chat.window[i].n : i \in 1 .. Len(chat.window) + k - Window} ELSE {}

Newest(i, hid) == [n |-> Said + i, hidden |-> hid]

(* The exchange of a turn: what the user said and the reply. *)
Remembered(hid) ==
    LET said == Newest(1, hid)
        reply == Newest(2, hid)
    IN  \/ /\ chat' = Push(Push(chat, said), reply)
           /\ UNCHANGED <<redis, cold, gone>>
        \/ /\ ~cold /\ cold' = TRUE
           /\ \E cut \in Cuts(chat, <<said, reply>>) \cup Cuts(Push(chat, said), <<reply>>) :
                 redis' = cut[1] /\ chat' = cut[2]
           /\ gone' = gone \cup Held(Push(chat, said))

Recorded(hid) ==
    /\ Said + 2 <= MaxEntries
    /\ Remembered(hid)
    /\ log' = log \o <<hid, hid>>
    /\ secret' = IF hid THEN secret \cup {Said + 1, Said + 2} ELSE secret

SessionInit ==
    /\ chat = Nothing /\ redis = Nothing
    /\ cold = FALSE
    /\ log = <<>> /\ chunk = <<>>
    /\ rolls = FALSE
    /\ talk = "none"
    /\ alive = TRUE
    /\ summed = {} /\ gone = {} /\ secret = {}
    /\ partial = FALSE /\ revived = FALSE
-----------------------------------------------------------------------------
(* Turns.  Whether one is private is decided when it starts: here, freely. *)

Hidden(s, k) ==
    [i \in DOMAIN s |-> IF i > Len(s) - k THEN [s[i] EXCEPT !.hidden = TRUE] ELSE s[i]]

(* The log's records are not rewritten: its readers apply the request.     *)
LogHidden(k) == [i \in DOMAIN log |-> log[i] \/ i > Said - k]

(* redact_recent: as many entries of the log as it found in the window.    *)
(* Redis may fail when the window is cleared, or while it is written.      *)
Redacts ==
    LET k == Smaller(Retro, Len(chat.window))
        new == Hidden(chat.window, k)
    IN  /\ log' = LogHidden(k)
        /\ secret' = secret \cup Latest(Retro)
        /\ \/ /\ chat' = [chat EXCEPT !.window = new]
              /\ partial' = (partial \/ k < Smaller(Retro, Said) \/ redis # Nothing)
              /\ UNCHANGED <<redis, cold, gone>>
           \/ /\ ~cold /\ cold' = TRUE /\ k > 0
              /\ \/ redis' = chat /\ chat' = [window |-> new, backlog |-> <<>>]
                 \/ \E i \in 0 .. Len(new) - 1 :
                       /\ redis' = [chat EXCEPT !.window = SubSeq(new, 1, i)]
                       /\ chat' = [window |-> SubSeq(new, i + 1, Len(new)), backlog |-> <<>>]
              /\ gone' = gone \cup Held(chat)
              /\ partial' = TRUE

(* says: nothing of the kind, something private, "keep that secret".       *)
TurnStarts(says) ==
    /\ alive /\ talk = "none"
    /\ talk' = IF says = "plain" THEN "plain" ELSE "secret"
    /\ IF says = "retro" THEN Redacts
       ELSE UNCHANGED <<chat, redis, cold, log, gone, secret, partial>>
    /\ UNCHANGED <<chunk, rolls, alive, summed, revived>>

TurnEnds ==
    /\ alive /\ talk # "none"
    /\ Recorded(talk = "secret")
    /\ talk' = "none"
    /\ rolls' = TRUE
    /\ UNCHANGED <<chunk, alive, summed, partial, revived>>

(* "private mode on", "private mode off": a turn without awaits.           *)
Switches ==
    /\ alive /\ talk = "none"
    /\ Said + 2 <= MaxEntries
    /\ chat' = Shove(Shove(chat, Newest(1, FALSE)), Newest(2, FALSE))
    /\ log' = log \o <<FALSE, FALSE>>
    /\ gone' = gone \cup Shoved(2)
    /\ UNCHANGED <<redis, cold, chunk, rolls, talk, alive, summed, secret, partial, revived>>

(* record_exchange: a photo's turn, which does not take the chat's lock.   *)
Exchange(hid) ==
    /\ alive
    /\ Recorded(hid)
    /\ UNCHANGED <<chunk, rolls, talk, alive, summed, partial,
                   revived>>

Proactive ==
    /\ alive /\ Said < MaxEntries
    /\ chat' = Shove(chat, Newest(1, FALSE))
    /\ log' = Append(log, FALSE)
    /\ gone' = gone \cup Shoved(1)
    /\ UNCHANGED <<redis, cold, chunk, rolls, talk, alive, summed,
                   secret, partial, revived>>
-----------------------------------------------------------------------------
(* _roll_summary: one roll at a time; a task that meets another one goes.  *)
RollStarts ==
    /\ alive /\ rolls
    /\ rolls' = FALSE
    /\ IF chunk = <<>> /\ Len(chat.backlog) >= ChunkSize
       THEN /\ chunk' = SubSeq(chat.backlog, 1, ChunkSize)
            /\ chat' = [chat EXCEPT !.backlog = SubSeq(@, ChunkSize + 1, Len(@))]
       ELSE UNCHANGED <<chunk, chat>>
    /\ UNCHANGED <<redis, cold, log, talk, alive, summed, gone,
                   secret, partial, revived>>

(* The model answered; with nothing, the old summary stays. *)
RollEnds(empty) ==
    /\ chunk # <<>>
    /\ chunk' = <<>>
    /\ summed' = IF empty THEN summed ELSE summed \cup Numbers(chunk)
    /\ gone' = IF empty THEN gone \cup Numbers(chunk) ELSE gone
    /\ UNCHANGED <<chat, redis, cold, log, rolls, talk, alive,
                   secret, partial, revived>>

(* Slip: the chunk goes behind what left the window meanwhile. *)
RollFailsBehind ==
    /\ chunk # <<>>
    /\ chat' = [chat EXCEPT !.backlog = @ \o chunk]
    /\ chunk' = <<>>
    /\ UNCHANGED <<redis, cold, log, rolls, talk, alive, summed,
                   gone, secret, partial, revived>>

(* It failed: the chunk goes back in front of the backlog. *)
RollFails ==
    /\ chunk # <<>>
    /\ chat' = [chat EXCEPT !.backlog = chunk \o @]
    /\ chunk' = <<>>
    /\ UNCHANGED <<redis, cold, log, rolls, talk, alive, summed,
                   gone, secret, partial, revived>>
-----------------------------------------------------------------------------
(* A call to Redis failed: the process goes on in memory, with nothing.    *)
GivesUp ==
    /\ alive /\ ~cold
    /\ cold' = TRUE
    /\ redis' = chat
    /\ chat' = Nothing
    /\ gone' = gone \cup Held(chat)
    /\ UNCHANGED <<log, chunk, rolls, talk, alive, summed,
                   secret, partial, revived>>

(* Redis was emptied. *)
Emptied ==
    /\ alive /\ ~cold
    /\ chat' = Nothing
    /\ gone' = gone \cup Held(chat)
    /\ UNCHANGED <<redis, cold, log, chunk, rolls, talk, alive, summed,
                   secret, partial, revived>>

Dies ==
    /\ alive
    /\ alive' = FALSE
    /\ redis' = IF cold THEN redis ELSE chat
    /\ chat' = Nothing
    /\ chunk' = <<>>
    /\ gone' = gone \cup Numbers(chunk) \cup IF cold THEN Held(chat) ELSE {}
    /\ rolls' = FALSE
    /\ talk' = "none"
    /\ UNCHANGED <<cold, log, summed, secret, partial, revived>>

(* seed_history_from_log: the log's tail fills an empty window, and one    *)
(* that is the tail with a hole in it.  Placeholders all read the same.    *)
LogTail == LET first == Said - Smaller(Window, Said)
           IN  [i \in 1 .. Said - first |-> [n |-> first + i, hidden |-> log[first + i]]]

Text(e)  == IF e.hidden THEN 0 ELSE e.n
Texts(s) == {Text(s[i]) : i \in DOMAIN s}

Seeded(live) ==
    IF Len(live) < Len(LogTail) /\ Texts(live) \subseteq Texts(LogTail)
    THEN LogTail ELSE live

Restarts(reachable) ==
    LET c == IF reachable THEN redis ELSE Nothing
    IN  /\ ~alive
        /\ alive' = TRUE
        /\ cold' = ~reachable
        /\ chat' = [c EXCEPT !.window = Seeded(@)]
        /\ redis' = IF reachable THEN Nothing ELSE redis
        /\ gone' = IF reachable THEN gone ELSE gone \cup Held(redis)
        /\ revived' = (revived \/ (reachable /\ cold /\ redis # Nothing))
        /\ UNCHANGED <<log, chunk, rolls, talk, summed, secret,
                       partial>>
-----------------------------------------------------------------------------
SessionNext ==
    \/ \E says \in {"plain", "secret", "retro"} : TurnStarts(says)
    \/ TurnEnds \/ Switches \/ Proactive
    \/ \E hid \in BOOLEAN : Exchange(hid)
    \/ RollStarts \/ RollFails
    \/ \E empty \in BOOLEAN : RollEnds(empty)
    \/ GivesUp \/ Emptied \/ Dies
    \/ \E reachable \in BOOLEAN : Restarts(reachable)

SessionSpec == SessionInit /\ [][SessionNext]_sessionVars
-----------------------------------------------------------------------------
Rising(s) == \A i, j \in DOMAIN s : i < j => s[i].n < s[j].n

(* Entries are condensed in the order they were said and none twice,       *)
(* whatever fails or comes meanwhile (session.py:143-144, :208).           *)
InOrder ==
    revived \/
    /\ Rising(chunk \o chat.backlog \o chat.window)
    /\ \A m \in summed, n \in Numbers(chunk \o chat.backlog \o chat.window) : m < n

(* What falls off the window is condensed, except what this code lets go:  *)
(* pushed out by a proactive message or a switch, lost with Redis, with    *)
(* the process, or to an empty answer (orchestrator.py:782-783).           *)
NothingForgotten ==
    alive => 1 .. Said \subseteq
        Held(chat) \cup Numbers(chunk) \cup summed \cup gone

SessionInv == SessionTypeOK /\ InOrder /\ NothingForgotten

(* What is to be kept secret is hidden wherever a later prompt reads: in   *)
(* the window, in what is condensed, in the log and in what Redis keeps    *)
(* for the next process (secrets.py:18-31) - as long as the requests found *)
(* what they are about in the window, and Redis answered.                  *)
Conceals(s) == \A i \in DOMAIN s : s[i].n \in secret => s[i].hidden

SecretsHidden ==
    partial \/ /\ Conceals(chunk)
               /\ \A c \in {chat, redis} : Conceals(c.window) /\ Conceals(c.backlog)
               /\ \A n \in secret : log[n]

(* What the session remembers, and that no secret is in it. *)
MemoryInv == SessionInv /\ SecretsHidden

(* "secrets stay redacted across restarts" (session.py:252): what a reader *)
(* of the log sees hidden, a prompt sees hidden.                           *)
RedactedStaysRedacted ==
    \A i \in DOMAIN chat.window : log[chat.window[i].n] => chat.window[i].hidden
=============================================================================

------------------------------ MODULE SlackWatch ------------------------------
(* The watch on Slack mentions (triggers/slack_watch.py, wired in             *)
(* channels/telegram_bot.py).                                                 *)
(*                                                                            *)
(* Every two minutes a tick loads its state file, reads the last day of each  *)
(* watched channel, and hands the owner every mention that is above the       *)
(* channel's watermark: a model drafts a reply, the chat asks for a yes.      *)
(* Drafting takes minutes; the file is saved once, when the tick is through.  *)
(* Meanwhile messages come in, the owner says yes to an earlier draft (which  *)
(* writes the posted line to the same file), and the process may die.         *)
EXTENDS Naturals, FiniteSets, FiniteSetsExt

CONSTANTS
    Channel,        \* the watched channels
    MaxMessage,     \* bound: messages said in them
    MaxNight,       \* bound: how often quiet hours begin
    MaxAmiss        \* bound: failed calls, crashes, days without a tick

ASSUME SlackWatchAssumption ==
    MaxMessage \in Nat /\ MaxNight \in Nat /\ MaxAmiss \in Nat

VARIABLES
    history,     \* the messages in the order they were said: channel, mention
    horizon,     \* those that are more than a day old
    stateFile,        \* the state file: watermarks, the channels that have one, posted
    copy,        \* what the tick loaded and works on
    left,        \* channels this tick has still to read
    cur,         \* the channel (one or none) it is surfacing mentions of
    queue,       \* the mentions it found there and has not surfaced
    newest,      \* the last message it read there
    lastOk,      \* the last mention it surfaced there
    running,     \* is a tick under way
    pending,     \* the mentions (one or none) a yes would post the draft for
    quiet,       \* do quiet hours or the kill switch hold proactive messages
    asked,       \* ghost: message |-> how often the owner was shown it
    first,       \* ghost: channel |-> the watermark it began with
    nights,      \* how often quiet hours began
    amiss        \* what has failed so far

slack == <<history, horizon>>
tickVars == <<copy, left, cur, queue, newest, lastOk, running>>
outside == <<quiet, nights>>
slackVars == <<history, horizon, stateFile, copy, left, cur, queue, newest, lastOk,
               running, pending, quiet, asked, first, nights, amiss>>

Message == 1..MaxMessage
Said == DOMAIN history
NoFile == [marks |-> [c \in Channel |-> 0], seen |-> {}, posted |-> {}]

SlackWatchInit ==
    /\ history = [m \in {} |-> [channel |-> 0, mention |-> FALSE]] /\ horizon = 0
    /\ stateFile = NoFile /\ copy = NoFile
    /\ left = {} /\ cur = {} /\ queue = {} /\ newest = 0 /\ lastOk = 0
    /\ running = FALSE /\ pending = {} /\ quiet = FALSE
    /\ asked = [m \in Message |-> 0] /\ first = [c \in Channel |-> 0]
    /\ nights = 0 /\ amiss = 0

Misses == amiss < MaxAmiss /\ amiss' = amiss + 1

Larger(a, b) == Max({a, b})
Rows(c) == {m \in Said : history[m].channel = c /\ m > horizon}

(* ------------------------------- the tick ------------------------------ *)

\* Not under quiet hours or the kill switch: the watermarks stay.
Loads ==
    /\ ~running /\ ~quiet
    /\ running' = TRUE /\ copy' = stateFile /\ left' = Channel
    /\ UNCHANGED <<slack, stateFile, cur, queue, newest, lastOk, pending, outside,
                   asked, first, amiss>>

ReadFails(c) ==
    /\ c \in left /\ cur = {} /\ Misses
    /\ left' = left \ {c}
    /\ UNCHANGED <<slack, stateFile, copy, cur, queue, newest, lastOk, running, pending,
                   outside, asked, first>>

\* A channel seen for the first time starts from now.
StartsFromNow(c) ==
    /\ c \in left /\ cur = {} /\ c \notin copy.seen
    /\ copy' = [copy EXCEPT !.seen = @ \cup {c},
                            !.marks[c] = Max(Rows(c) \cup {0})]
    /\ left' = left \ {c}
    /\ UNCHANGED <<slack, stateFile, cur, queue, newest, lastOk, running, pending,
                   outside, asked, first, amiss>>

Fresh(c) == {m \in Rows(c) : m > copy.marks[c] /\ history[m].mention}

Reads(c) ==
    /\ c \in left /\ cur = {} /\ c \in copy.seen
    /\ cur' = {c} /\ queue' = Fresh(c)
    /\ newest' = Max(Rows(c) \cup {0}) /\ lastOk' = 0
    /\ left' = left \ {c}
    /\ UNCHANGED <<slack, stateFile, copy, running, pending, outside, asked, first, amiss>>

Oldest == Min(queue)

\* One of three drafts passes the tests (it speaks to the sender, repeats
\* nothing, is no essay), or the mention goes out without one.
Drafted == {pending, {Oldest}}

\* The oldest is surfaced: with a draft to say yes to, which takes the place of
\* any earlier one, or without.
Surfaces(c) ==
    /\ cur = {c} /\ queue # {}
    /\ asked' = [asked EXCEPT ![Oldest] = @ + 1]
    /\ pending' \in Drafted
    /\ lastOk' = Oldest /\ queue' = queue \ {Oldest}
    /\ UNCHANGED <<slack, stateFile, copy, left, cur, newest, running, outside, first,
                   amiss>>

ClosesChannel == cur' = {} /\ queue' = {} /\ newest' = 0 /\ lastOk' = 0

\* A slip: the channel is taken for read, its mention surfaced or not.
PassesAll(c) == [copy EXCEPT !.marks[c] = Larger(@, newest)]

\* The watermark passes the mentions that were surfaced, not this one.
PassesSurfaced(c) == [copy EXCEPT !.marks[c] = Larger(@, lastOk)]

\* Drafting or asking raises: the channel waits for the next tick, so that the
\* order is kept.  The owner may have been shown it all the same.
SurfaceFails(c) ==
    /\ cur = {c} /\ queue # {} /\ Misses
    /\ asked' \in {asked, [asked EXCEPT ![Oldest] = @ + 1]}
    /\ copy' = PassesSurfaced(c)
    /\ ClosesChannel
    /\ UNCHANGED <<slack, stateFile, left, running, pending, outside, first>>

\* Everything that was read was surfaced, or needed none.
Passes(c) ==
    /\ cur = {c} /\ queue = {}
    /\ copy' = [copy EXCEPT !.marks[c] = Larger(@, newest)]
    /\ ClosesChannel
    /\ UNCHANGED <<slack, stateFile, left, running, pending, outside, asked, first, amiss>>

\* The whole state as the tick has it, over what came to be in the file.
Saves ==
    /\ running /\ left = {} /\ cur = {}
    /\ stateFile' = copy /\ running' = FALSE /\ copy' = NoFile
    /\ first' = [c \in Channel |-> IF c \in copy.seen \ stateFile.seen THEN copy.marks[c]
                                   ELSE first[c]]
    /\ UNCHANGED <<slack, left, cur, queue, newest, lastOk, pending, outside, asked,
                   amiss>>

Restarts ==
    /\ running \/ pending # {}
    /\ Misses
    /\ running' = FALSE /\ copy' = NoFile /\ left' = {} /\ ClosesChannel
    /\ pending' \in {pending, {}}
    /\ UNCHANGED <<slack, stateFile, outside, asked, first>>

(* ------------------------------- the owner ----------------------------- *)

\* A yes posts the draft; note_posted remembers the line.
Posts ==
    /\ pending # {} /\ pending' = {}
    /\ stateFile' = [stateFile EXCEPT !.posted = @ \cup pending]
    /\ UNCHANGED <<slack, tickVars, outside, asked, first, amiss>>

Declines ==
    /\ pending # {} /\ pending' = {}
    /\ UNCHANGED <<slack, stateFile, tickVars, outside, asked, first, amiss>>

(* ------------------------------ the world ------------------------------ *)

Says(c, mention) ==
    /\ Cardinality(Said) < MaxMessage
    /\ history' = [m \in Said \cup {Cardinality(Said) + 1} |->
                      IF m \in Said THEN history[m]
                      ELSE [channel |-> c, mention |-> mention]]
    /\ UNCHANGED <<horizon, stateFile, tickVars, pending, outside, asked, first, amiss>>

\* A day passes in which the watch is out of action, or as good as.
DayPasses ==
    /\ horizon < Cardinality(Said) /\ Misses
    /\ horizon' = Cardinality(Said)
    /\ UNCHANGED <<history, stateFile, tickVars, pending, outside, asked, first>>

NightFalls ==
    /\ ~quiet /\ nights < MaxNight
    /\ quiet' = TRUE /\ nights' = nights + 1
    /\ UNCHANGED <<slack, stateFile, tickVars, pending, asked, first, amiss>>

DayBreaks ==
    /\ quiet /\ quiet' = FALSE
    /\ UNCHANGED <<slack, stateFile, tickVars, pending, nights, asked, first, amiss>>

TickSteps ==
    Loads \/ Saves
        \/ \E c \in Channel : ReadFails(c) \/ StartsFromNow(c) \/ Reads(c)
                                 \/ Surfaces(c) \/ SurfaceFails(c) \/ Passes(c)

SlackWatchNext ==
    \/ TickSteps \/ Restarts \/ Posts \/ Declines \/ DayPasses \/ NightFalls \/ DayBreaks
    \/ \E c \in Channel : \E mention \in BOOLEAN : Says(c, mention)

\* The timer fires and a tick goes on to its end; quiet hours end.
SlackWatchFairness == WF_slackVars(TickSteps) /\ WF_slackVars(DayBreaks)

SlackWatchSpec == SlackWatchInit /\ [][SlackWatchNext]_slackVars /\ SlackWatchFairness

(* ------------------------------ properties ----------------------------- *)

FileOK(f) == /\ f.marks \in [Channel -> 0..MaxMessage]
             /\ f.seen \subseteq Channel /\ f.posted \subseteq Message

SlackWatchTypeOK ==
    /\ Said \subseteq Message /\ horizon \in 0..MaxMessage
    /\ \A m \in Said : history[m].channel \in Channel /\ history[m].mention \in BOOLEAN
    /\ FileOK(stateFile) /\ FileOK(copy)
    /\ left \subseteq Channel /\ cur \subseteq Channel /\ Cardinality(cur) <= 1
    /\ queue \subseteq Message /\ newest \in 0..MaxMessage /\ lastOk \in 0..MaxMessage
    /\ running \in BOOLEAN /\ pending \subseteq Message /\ quiet \in BOOLEAN
    /\ asked \in [Message -> Nat] /\ first \in [Channel -> 0..MaxMessage]
    /\ nights \in 0..MaxNight /\ amiss \in 0..MaxAmiss

\* The mentions of a channel the watch answers for: said since it began there.
Watched(c) == {m \in Said : /\ history[m].channel = c /\ history[m].mention
                            /\ c \in stateFile.seen /\ m > first[c]}

\* "The watermark advances only past messages that were surfaced": a mention
\* below it was shown to the owner, unless it grew a day old unread.
NoneSkipped ==
    \A c \in Channel : \A m \in Watched(c) :
        m <= stateFile.marks[c] => asked[m] > 0 \/ m <= horizon

\* A mention is shown once; again only after a crash or a failure.
OnceAsked == \A m \in Message : asked[m] <= 1 + amiss

\* The mentions of a channel are shown in the order they were made.
InOrder ==
    \A c \in Channel : \A m, n \in Watched(c) :
        m < n /\ asked[n] > 0 => asked[m] > 0 \/ m <= horizon

\* The Slack watch's safety, with its type.
SlackWatchInv == SlackWatchTypeOK /\ NoneSkipped /\ OnceAsked /\ InOrder

\* A mention of the owner in a watched channel reaches the owner, through quiet
\* hours, failures and restarts, unless the watch is out for a day.
MentionReaches ==
    []<>(\A c \in Channel : \A m \in Watched(c) : asked[m] > 0 \/ m <= horizon)
================================================================================

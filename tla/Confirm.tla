------------------------------ MODULE Confirm ------------------------------
(***************************************************************************)
(* The confirmation flow of one chat: a gated action is stashed and asked  *)
(* about (orchestrator._gated), and the next message, or a tap on the      *)
(* ask's Yes/No buttons, resolves it (orchestrator._dispatch,              *)
(* telegram_bot._on_callback).  The stash lives in the process; an ask of  *)
(* the agent loop is also saved in Redis, so that it survives a restart.   *)
(*                                                                         *)
(* Text messages, taps and the poll of the voice channel take the chat's   *)
(* lock.  What asks on its own does not (Slack watch, a shared location, a *)
(* face to enroll).  A turn is atomic up to its awaits: the agent loop     *)
(* thinking, and the confirmed handler running.                            *)
(***************************************************************************)
EXTENDS Integers

CONSTANTS
    Ask,        \* actions the owner is asked about, each asked once
    Loop,       \* the asks of the agent loop: rebuildable from a record
    Job,        \* the asks of background jobs: made without the lock
    Nested,     \* the asks whose confirmed replay may need another yes
    Turn,       \* turns that can be in progress at once
    Chat,       \* the turns of the text channel: their replies carry buttons
    TTL         \* freshness of an ask (300 s)

ASSUME ConfirmAssumption ==
    /\ Loop \subseteq Ask /\ Job \subseteq Ask /\ Nested \subseteq Ask
    /\ Job \cap Loop = {}
    /\ Chat \subseteq Turn
    /\ TTL \in Nat \ {0}

VARIABLES
    pending,    \* the stashed ask and its age
    nonce,      \* the nonce its buttons carry
    saved,      \* Redis: the ask that survives a restart
    server,     \* whether Redis answers, and has always answered
    dead,       \* the process gave Redis up, until it restarts
    turn,       \* what each turn awaits
    buttons,    \* Yes/No buttons on screen: the ask the message is about, its nonce
    stashes,    \* how often each ask was stashed: names its nonces
    latest,     \* ghost: the ask put to the owner last
    closed,     \* ghost: the asks that were answered, dropped or replaced
    ran,        \* ghost: how often each action was executed
    age         \* ghost: time since the ask was last put to the owner

vars == <<pending, nonce, saved, server, dead, turn, buttons, stashes,
          latest, closed, ran, age>>

None  == [ask |-> "none"]
Typed == "typed"            \* the answer was typed or spoken
Plain == "plain"            \* a message that is about no ask
NoNonce == <<"none", 0>>

ASSUME AskAssumption == Ask \cap {Plain, Typed} = {}

Nonce   == Ask \X (1 .. 2)
Age     == 0 .. TTL + 1
Server  == {"up", "down", "back"}
Stash   == [ask : Ask, age : Age]
Saved   == [ask : Ask, nonce : Nonce, age : 0 .. TTL - 1]
Button  == [about : Ask \cup {Plain}, nonce : Nonce]
Idle    == [phase |-> "idle"]
Busy    == {[phase |-> "thinking"]}
           \cup [phase : {"running"}, ask : Ask, via : Ask \cup {Plain, Typed}]

TypeOK ==
    /\ pending \in Stash \cup {None}
    /\ nonce \in Nonce \cup {NoNonce}
    /\ saved \in Saved \cup {None}
    /\ server \in Server /\ dead \in BOOLEAN
    /\ turn \in [Turn -> Busy \cup {Idle}]
    /\ buttons \subseteq Button
    /\ stashes \in [Ask -> 0 .. 2]
    /\ latest \in Ask \cup {Plain}
    /\ closed \subseteq Ask
    /\ ran \in [Ask -> 0 .. 2]
    /\ age \in [Ask -> Age]

Init ==
    /\ pending = None /\ nonce = NoNonce /\ saved = None
    /\ server = "up" /\ dead = FALSE
    /\ turn = [t \in Turn |-> Idle]
    /\ buttons = {}
    /\ stashes = [a \in Ask |-> 0]
    /\ latest = Plain /\ closed = {}
    /\ ran = [a \in Ask |-> 0]
    /\ age = [a \in Ask |-> TTL + 1]
-----------------------------------------------------------------------------
(* Redis.  The first failed call makes the process give it up.             *)
Reachable == server # "down" /\ ~dead
Touched   == dead' = (dead \/ server = "down")
Record    == IF Reachable THEN saved ELSE None

(* The stash an answer meets: the process' own, or the restart survivor,   *)
(* whose freshness is left to Redis.                                       *)
Loaded == IF pending # None THEN pending
          ELSE IF Record # None THEN [ask |-> Record.ask, age |-> 0] ELSE None

CurrentNonce == IF nonce # NoNonce THEN nonce
                ELSE IF Record # None THEN Record.nonce ELSE NoNonce

(* Slip: the answered ask stays in Redis. *)
PoppedHere ==
    /\ pending' = None
    /\ nonce' = NoNonce
    /\ UNCHANGED <<saved, dead>>

Popped ==
    /\ pending' = None
    /\ nonce' = NoNonce
    /\ saved' = IF Reachable THEN None ELSE saved
    /\ Touched

(* A fresh nonce for ask a, which is now the one put to the owner. *)
Put(a) ==
    /\ stashes' = [stashes EXCEPT ![a] = @ + 1]
    /\ nonce' = <<a, stashes[a] + 1>>
    /\ pending' = [ask |-> a, age |-> 0]
    /\ latest' = a
    /\ age' = [age EXCEPT ![a] = 0]

Replaced == IF Loaded = None THEN {} ELSE {Loaded.ask}

(* Slip: an ask that cannot be saved leaves the saved one. *)
GatedBeside(a) ==
    /\ stashes[a] = 0
    /\ Put(a)
    /\ saved' = IF Reachable /\ a \in Loop
                THEN [ask |-> a, nonce |-> <<a, 1>>, age |-> 0] ELSE saved
    /\ Touched
    /\ closed' = closed \cup Replaced
    /\ UNCHANGED <<server, ran>>

(* _gated: stash the ask; an ask of the loop is saved, any other one       *)
(* removes what is saved.                                                  *)
Gated(a) ==
    /\ stashes[a] = 0
    /\ Put(a)
    /\ saved' = IF ~Reachable THEN saved
                ELSE IF a \in Loop THEN [ask |-> a, nonce |-> <<a, 1>>, age |-> 0]
                ELSE None
    /\ Touched
    /\ closed' = closed \cup Replaced
    /\ UNCHANGED <<server, ran>>

(* Buttons go under every reply of the text channel while a stash is held  *)
(* in the process.                                                         *)
Keyboard(t, via, about, held, n) ==
    IF t \in Chat /\ via = Typed /\ held # None
    THEN {[about |-> about, nonce |-> n]} ELSE {}
-----------------------------------------------------------------------------
(* A message or a tap is dispatched, one at a time: each takes the lock.   *)
Ready == \A t \in Turn : turn[t] = Idle

Expired(p) == p.age > TTL

(* What a word does to the turn: a fresh yes replays the call; an answer   *)
(* otherwise ends the turn; anything else goes on to the agent loop.       *)
Outcome(p, word, via) ==
    IF p # None /\ word = "yes" /\ ~Expired(p)
    THEN [phase |-> "running", ask |-> p.ask, via |-> via]
    ELSE IF word \in {"yes", "no"} THEN Idle ELSE [phase |-> "thinking"]

Dispatch(t, word, via) ==
    LET p == Loaded
    IN  /\ turn' = [turn EXCEPT ![t] = Outcome(p, word, via)]
        /\ IF p = None THEN Touched /\ UNCHANGED <<pending, nonce, saved, closed>>
           ELSE Popped /\ closed' = closed \cup {p.ask}
        /\ UNCHANGED <<server, stashes, latest, ran, age>>

Message(t, word) ==
    /\ Ready
    /\ Dispatch(t, word, Typed)
    /\ UNCHANGED buttons

(* Phrases that are served before the stash is looked at. *)
Aside(t) ==
    /\ Ready
    /\ buttons' = buttons \cup Keyboard(t, Typed, Plain, pending, nonce)
    /\ UNCHANGED <<pending, nonce, saved, server, dead, turn, stashes,
                   latest, closed, ran, age>>

(* A tap removes its buttons, unless that edit fails, and is refused when  *)
(* its nonce is not the current one.                                       *)
Tap(t, b, word) ==
    /\ t \in Chat /\ Ready
    /\ b \in buttons
    /\ buttons' \in {buttons, buttons \ {b}}
    /\ IF b.nonce = CurrentNonce THEN Dispatch(t, word, b.about)
       ELSE /\ IF nonce = NoNonce THEN Touched ELSE UNCHANGED dead
            /\ UNCHANGED <<pending, nonce, saved, server, turn, stashes,
                           latest, closed, ran, age>>
-----------------------------------------------------------------------------
(* The turn ends: with an ask, or with a reply.                            *)
TurnAsks(t, a) ==
    /\ turn[t].phase = "thinking" /\ a \notin Job
    /\ Gated(a)
    /\ turn' = [turn EXCEPT ![t] = Idle]
    /\ buttons' = buttons \cup Keyboard(t, Typed, a, pending', nonce')

TurnReplies(t) ==
    /\ turn[t].phase = "thinking"
    /\ turn' = [turn EXCEPT ![t] = Idle]
    /\ buttons' = buttons \cup Keyboard(t, Typed, Plain, pending, nonce)
    /\ UNCHANGED <<pending, nonce, saved, server, dead, stashes, latest, closed, ran, age>>

(* The confirmed replay executes the action. *)
Act(t) ==
    /\ turn[t].phase = "running"
    /\ turn' = [turn EXCEPT ![t] = Idle]
    /\ ran' = [ran EXCEPT ![turn[t].ask] = IF @ = 2 THEN 2 ELSE @ + 1]
    /\ buttons' = buttons \cup Keyboard(t, turn[t].via, Plain, pending, nonce)
    /\ UNCHANGED <<pending, nonce, saved, server, dead, stashes, latest, closed, age>>

(* It needs another yes instead: stashed again, in the process only. *)
Regate(t) ==
    LET a == turn[t].ask
    IN  /\ turn[t].phase = "running" /\ a \in Nested
        /\ stashes[a] < 2
        /\ Put(a)
        /\ turn' = [turn EXCEPT ![t] = Idle]
        /\ buttons' = buttons \cup Keyboard(t, turn[t].via, a, pending', nonce')
        /\ closed' = (closed \cup Replaced) \ {a}
        /\ UNCHANGED <<saved, server, dead, ran>>

(* A background job asks, whatever turn is in progress; the ask of a       *)
(* shared location carries no buttons.                                     *)
JobAsks(a) ==
    /\ a \in Job
    /\ Gated(a)
    /\ buttons' \in {buttons, buttons \cup {[about |-> a, nonce |-> nonce']}}
    /\ UNCHANGED turn
-----------------------------------------------------------------------------
Older(d) == IF d = TTL + 1 THEN d ELSE d + 1

Tick ==
    /\ pending' = IF pending = None THEN None ELSE [pending EXCEPT !.age = Older(@)]
    /\ saved' = IF saved = None \/ saved.age = TTL - 1 THEN None
                ELSE [saved EXCEPT !.age = @ + 1]
    /\ age' = [a \in Ask |-> Older(age[a])]
    /\ UNCHANGED <<nonce, server, dead, turn, buttons, stashes, latest, closed, ran>>

Restart ==
    /\ pending' = None /\ nonce' = NoNonce
    /\ dead' = FALSE
    /\ turn' = [t \in Turn |-> Idle]
    /\ UNCHANGED <<saved, server, buttons, stashes, latest, closed, ran, age>>

Redis ==
    /\ server' = IF server = "down" THEN "back" ELSE "down"
    /\ UNCHANGED <<pending, nonce, saved, dead, turn, buttons, stashes,
                   latest, closed, ran, age>>

Words == {"yes", "no", "other"}

Next ==
    \/ \E t \in Turn, w \in Words : Message(t, w)
    \/ \E t \in Turn, b \in buttons, w \in {"yes", "no"} : Tap(t, b, w)
    \/ \E t \in Turn : Aside(t) \/ TurnReplies(t) \/ Act(t) \/ Regate(t)
    \/ \E t \in Turn, a \in Ask : TurnAsks(t, a)
    \/ \E a \in Ask : JobAsks(a)
    \/ Tick \/ Restart \/ Redis

Spec == Init /\ [][Next]_vars
-----------------------------------------------------------------------------
Starts(t, a) == /\ turn'[t].phase = "running" /\ turn'[t].ask = a
                /\ turn[t] = Idle

(* No action is executed twice for one ask, whatever is typed, tapped or   *)
(* restarted (test_confirm_persistence.py:75, "the survivor must not fire  *)
(* twice").                                                                *)
RunsOnce == \A a \in Ask : ran[a] <= 1

(* What a yes executes is the ask put to the owner last, never one that    *)
(* was answered, dropped or replaced: neither from an older button, nor    *)
(* out of Redis after a restart (orchestrator.py:46-49, :2087-2088).       *)
YesMeansTheLatest ==
    [][\A t \in Turn, a \in Ask :
          server = "up" /\ Starts(t, a) => a = latest /\ a \notin closed]_vars

(* ... and it was put to the owner at most TTL ago, though the stash that  *)
(* comes back from Redis starts with a new age (orchestrator.py:51-53).    *)
OnlyFresh == [][\A t \in Turn, a \in Ask : Starts(t, a) => age[a] <= TTL]_vars

(* A tap on the buttons of an ask executes that ask or nothing. *)
TapMeansItsAsk ==
    \A t \in Turn : turn[t].phase = "running" /\ turn[t].via \in Ask
                        => turn[t].via = turn[t].ask

(* An ask of the loop stays answerable across a restart: while it is the   *)
(* latest, unanswered and fresh, its buttons carry the current nonce       *)
(* (orchestrator.py:2060-2065, :2042-2045).  The second ask of a replay is *)
(* only held in the process and is not promised that.                      *)
Answerable ==
    \A a \in Loop :
        (server = "up" /\ latest = a /\ a \notin closed /\ age[a] < TTL /\ stashes[a] = 1)
            => CurrentNonce = <<a, 1>>

(* Why RunsOnce and YesMeansTheLatest hold until Redis fails: what is      *)
(* stashed or saved is the ask put to the owner last and is open; what a   *)
(* turn runs is closed, and nothing is saved beside it for a replay that   *)
(* asks again to leave behind.                                             *)
OpenStash ==
    /\ pending # None => pending.ask = latest /\ latest \notin closed
    /\ saved # None => saved.ask = latest /\ latest \notin closed

AskedBefore ==
    \A a \in Ask : a = latest \/ a \in closed => stashes[a] > 0

OneRunner ==
    /\ \A a \in Ask : ran[a] > 0 => a \in closed
    /\ \A t \in Turn : turn[t].phase = "running" =>
          turn[t].ask \in closed /\ ran[turn[t].ask] = 0 /\ saved = None
    /\ \A t, u \in Turn : turn[t] # Idle /\ turn[u] # Idle => t = u

Steady ==
    /\ TypeOK /\ server = "up" /\ ~dead
    /\ OpenStash /\ AskedBefore /\ OneRunner /\ RunsOnce

ConfirmInv == TypeOK /\ (server = "up" => Steady)

(* What an ask, its buttons and its answers agree on. *)
AsksInv == ConfirmInv /\ Answerable /\ TapMeansItsAsk

(* A yes answers the ask it was given to, and only while that is fresh.    *)
YesIsExact == YesMeansTheLatest /\ OnlyFresh
=============================================================================

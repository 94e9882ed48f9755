------------------------------ MODULE EventRules ------------------------------
(* Watch rules (triggers/event_rules.py): a state of the house that the owner *)
(* asked to be told of, or to have answered with a switch.                    *)
(*                                                                            *)
(* A quarter-hourly tick reads the file of rules once, then takes the rules   *)
(* one after the other: the entity is read through the kernel, the condition  *)
(* compared, and on the way from unmet to met the rule speaks or acts.  What  *)
(* keeps it from doing so twice are two marks on the file, last_met and the   *)
(* time it last fired.  The tick awaits the house and the chat, so the world, *)
(* the owner, the quiet hours and a restart come between its steps.  The      *)
(* marks are written by the tick alone, and a tick never overlaps itself:     *)
(* only the list of active rules can be stale in its hands.                   *)
EXTENDS Naturals, FiniteSets

CONSTANTS
    Rule,           \* rules that can be made
    Acting,         \* those that switch something when they fire
    MaxNight,       \* bound: how often quiet hours begin
    MaxMisses        \* bound: failed calls, crashes, uses of the kill switch

ASSUME EventRulesAssumption ==
    Acting \subseteq Rule /\ MaxNight \in Nat /\ MaxMisses \in Nat

VARIABLES
    rule,        \* rule |-> "none", "active", "cancelled"
    met,         \* rules with last_met on the file
    coolingDown,     \* rules whose cooldown has not run out
    holds,       \* rules whose condition the house meets now
    tick,        \* the rules this tick has still to take
    at,          \* what the tick awaits: "nothing", "reply", "switch", "announcement"
    on,          \* the rules (one or none) it awaits that for
    quietNow,       \* is it in the quiet hours
    killed,      \* is the kill switch engaged
    fired,       \* ghost: rule |-> how often it fired since its condition came to hold
    heard,       \* ghost: rules that fired since a tick last saw them unmet
    nights,      \* how often quiet hours began
    misses        \* what has failed so far

ruleFile == <<rule, met, coolingDown>>
where == <<tick, at, on>>
firings == <<fired, heard>>
outside == <<holds, quietNow, killed, nights>>
rulesVars == <<rule, met, coolingDown, holds, tick, at, on, quietNow, killed, fired,
               heard, nights, misses>>

EventRulesInit ==
    /\ rule = [r \in Rule |-> "none"] /\ met = {} /\ coolingDown = {}
    /\ holds \in SUBSET Rule
    /\ tick = {} /\ at = "nothing" /\ on = {}
    /\ quietNow = FALSE /\ killed = FALSE
    /\ fired = [r \in Rule |-> 0] /\ heard = {}
    /\ nights = 0 /\ misses = 0

Misses == misses < MaxMisses /\ misses' = misses + 1

(* ------------------------------- the owner ----------------------------- *)

\* rules.create, when the owner has confirmed it.
Creates(r) ==
    /\ rule[r] = "none" /\ ~killed
    /\ rule' = [rule EXCEPT ![r] = "active"]
    /\ UNCHANGED <<met, coolingDown, where, outside, firings, misses>>

\* rules.cancel, and the undo of a creation.
Cancels(r) ==
    /\ rule[r] = "active"
    /\ rule' = [rule EXCEPT ![r] = "cancelled"]
    /\ UNCHANGED <<met, coolingDown, where, outside, firings, misses>>

\* The undo of a cancel: the rule comes back with the marks it had.
Reactivates(r) ==
    /\ rule[r] = "cancelled"
    /\ rule' = [rule EXCEPT ![r] = "active"]
    /\ UNCHANGED <<met, coolingDown, where, outside, firings, misses>>

(* ------------------------------- the tick ------------------------------ *)

BetweenTicks == tick = {} /\ on = {}

Ticks ==
    /\ BetweenTicks /\ ~killed
    /\ tick' = {r \in Rule : rule[r] = "active"} /\ tick' # {}
    /\ UNCHANGED <<ruleFile, at, on, outside, firings, misses>>

\* The tick is done with rule r.
Passes(r) == tick' = tick \ {r} /\ at' = "nothing" /\ on' = {}

Takes(r) == r \in tick /\ on = {}

\* home.get_state raises: the entity is out of reach or the kill switch was
\* engaged under the tick.
ReadFails(r) ==
    /\ Takes(r)
    /\ IF killed THEN UNCHANGED misses ELSE Misses
    /\ Passes(r)
    /\ UNCHANGED <<ruleFile, outside, firings>>

\* The condition does not hold: the rule is armed for the next crossing.
Rearms(r) ==
    /\ Takes(r) /\ ~killed /\ r \notin holds
    /\ met' = met \ {r} /\ heard' = heard \ {r}
    /\ Passes(r)
    /\ UNCHANGED <<rule, coolingDown, outside, fired, misses>>

\* A slip: the cooldown is trusted to keep the rule from nagging.
DueWhileItHolds(r) == r \in holds /\ r \notin coolingDown

Due(r) == r \in holds /\ r \notin met /\ r \notin coolingDown

\* It holds, and there is nothing to say: it was said, or it is too soon, or it
\* is night.
Holds(r) ==
    /\ Takes(r) /\ ~killed /\ r \in holds
    /\ Due(r) => r \notin Acting /\ quietNow
    /\ Passes(r)
    /\ UNCHANGED <<ruleFile, outside, firings, misses>>

Begins(r, what) ==
    /\ Takes(r) /\ ~killed /\ r \in holds /\ Due(r)
    /\ at' = what /\ on' = {r}
    /\ UNCHANGED <<ruleFile, tick, outside, firings, misses>>

SpeaksUp(r) == r \notin Acting /\ ~quietNow /\ Begins(r, "reply")
Switches(r) == r \in Acting /\ Begins(r, "switch")

Counted(r) == /\ fired' = [fired EXCEPT ![r] = @ + 1]
              /\ heard' = heard \cup {r}

Marked(r) == met' = met \cup {r} /\ coolingDown' = coolingDown \cup {r}

\* The message was delivered, or the switch thrown: both marks are written
\* before anything else is awaited, and an act is announced if it may be.
Fires(r) ==
    /\ on = {r} /\ at \in {"reply", "switch"}
    /\ at = "switch" => ~killed
    /\ Counted(r) /\ Marked(r)
    /\ IF at = "switch" /\ ~quietNow
       THEN at' = "announcement" /\ UNCHANGED <<tick, on>>
       ELSE Passes(r)
    /\ UNCHANGED <<rule, outside, misses>>

\* Nothing is marked when it was not: the next tick tries again.  What was
\* reported as lost may have arrived.
Fails(r) ==
    /\ on = {r} /\ at \in {"reply", "switch"}
    /\ IF at = "switch" /\ killed
       THEN UNCHANGED <<firings, misses>>
       ELSE Misses /\ (Counted(r) \/ UNCHANGED firings)
    /\ Passes(r)
    /\ UNCHANGED <<ruleFile, outside>>

\* The announcement of an act, sent or not: nothing depends on it.
Announces(r) ==
    /\ on = {r} /\ at = "announcement"
    /\ Passes(r)
    /\ UNCHANGED <<ruleFile, outside, firings, misses>>

\* The process dies, if need be between the deed and one of its marks.
BotRestarts ==
    /\ ~BetweenTicks /\ Misses
    /\ \/ UNCHANGED <<ruleFile, firings>>
       \/ /\ at \in {"reply", "switch"}
          /\ \A r \in on : Counted(r)
          /\ coolingDown' \in {coolingDown, coolingDown \cup on}
          /\ UNCHANGED <<rule, met>>
    /\ tick' = {} /\ at' = "nothing" /\ on' = {}
    /\ UNCHANGED outside

(* ------------------------------ the world ------------------------------ *)

\* The condition comes to hold, or ceases to: a state, a number, the minutes it
\* has lasted, or an entity that is unavailable.
Crosses(r) ==
    /\ \/ r \notin holds /\ fired' = [fired EXCEPT ![r] = 0] /\ holds' = holds \cup {r}
       \/ r \in holds /\ holds' = holds \ {r} /\ UNCHANGED fired
    /\ UNCHANGED <<ruleFile, where, quietNow, killed, heard, nights, misses>>

Cools(r) ==
    /\ r \in coolingDown /\ coolingDown' = coolingDown \ {r}
    /\ UNCHANGED <<rule, met, where, outside, firings, misses>>

QuietBegins ==
    /\ ~quietNow /\ nights < MaxNight
    /\ quietNow' = TRUE /\ nights' = nights + 1
    /\ UNCHANGED <<ruleFile, where, holds, killed, firings, misses>>

QuietEnds ==
    /\ quietNow /\ quietNow' = FALSE
    /\ UNCHANGED <<ruleFile, where, holds, killed, nights, firings, misses>>

Engages ==
    /\ ~killed /\ Misses /\ killed' = TRUE
    /\ UNCHANGED <<ruleFile, where, holds, quietNow, nights, firings>>

Releases ==
    /\ killed /\ killed' = FALSE
    /\ UNCHANGED <<ruleFile, where, holds, quietNow, nights, firings, misses>>

Steps(r) ==
    ReadFails(r) \/ Rearms(r) \/ Holds(r) \/ SpeaksUp(r) \/ Switches(r)
        \/ Fires(r) \/ Fails(r) \/ Announces(r)

EventRulesNext ==
    \/ Ticks \/ BotRestarts \/ QuietBegins \/ QuietEnds \/ Engages \/ Releases
    \/ \E r \in Rule : Creates(r) \/ Cancels(r) \/ Reactivates(r) \/ Steps(r)
                          \/ Crosses(r) \/ Cools(r)

\* The timer fires every quarter of an hour and takes its rules one by one; a
\* night and a cooldown end; the owner lets go of the kill switch.
EventRulesFairness ==
    /\ WF_rulesVars(Ticks) /\ WF_rulesVars(QuietEnds) /\ WF_rulesVars(Releases)
    /\ \A r \in Rule : WF_rulesVars(Steps(r)) /\ WF_rulesVars(Cools(r))

EventRulesSpec == EventRulesInit /\ [][EventRulesNext]_rulesVars /\ EventRulesFairness

(* ------------------------------ properties ----------------------------- *)

EventRulesTypeOK ==
    /\ rule \in [Rule -> {"none", "active", "cancelled"}]
    /\ met \subseteq Rule /\ coolingDown \subseteq Rule /\ holds \subseteq Rule
    /\ tick \subseteq Rule
    /\ at \in {"nothing", "reply", "switch", "announcement"}
    /\ on \subseteq tick /\ Cardinality(on) <= 1
    /\ quietNow \in BOOLEAN /\ killed \in BOOLEAN
    /\ fired \in [Rule -> Nat] /\ heard \subseteq Rule
    /\ nights \in 0..MaxNight /\ misses \in 0..MaxMisses

\* A rule fires once for a crossing, however long its condition holds and
\* however often it is cancelled and brought back; once more only for a message
\* reported lost that arrived, or for a crash between the deed and its mark.
OncePerCrossing == \A r \in Rule : fired[r] <= 1 + misses

\* What the file calls alerted was: a rule that is marked met has fired since a
\* tick last saw its condition unmet.
MetWasHeard == met \subseteq heard

\* The watch rules' safety, with their type.
EventRulesInv == EventRulesTypeOK /\ OncePerCrossing /\ MetWasHeard

\* An armed rule whose condition comes to hold fires in the end, through the
\* quiet hours, failed sends, a cooldown and restarts, unless the condition
\* ends or the rule is cancelled first.
CrossingIsHeard ==
    \A r \in Rule :
        []<>(rule[r] = "active" /\ r \in holds => fired[r] > 0 \/ r \in met \cap heard)
================================================================================

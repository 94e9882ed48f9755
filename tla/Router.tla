------------------------------- MODULE Router -------------------------------
(***************************************************************************)
(* Model calls and the day's ledger (model_router/router.py).  A call runs *)
(* in a worker thread: it is admitted against the ledger, and what it cost *)
(* is written there when the answer is back, under the file's lock.  Calls *)
(* of several turns overlap, and so do two processes at a redeploy.        *)
(*                                                                         *)
(* Costs are whole units; the ledger holds the keys of the present day.    *)
(***************************************************************************)
EXTENDS Integers, FiniteSets, Functions

CONSTANTS
    ModelCall,        \* the calls that may be in flight at a time
    Turn,        \* the turns that may end at a time, one per process
    Budget,      \* cost_monitor.daily_budget_usd
    GuestCap,    \* persons.daily_budget of the guest
    AlertAt,     \* alert_threshold_pct of the budget
    QuotaAt,     \* 80% of the provider's daily_token_limit
    Attempts,    \* tries of one call
    MaxCost,     \* the most one answer costs
    MaxTokens,   \* bound on the tokens counted in a day
    MaxLost      \* bound on what is charged in a day and never recorded

ASSUME RouterAssumption ==
    /\ Budget \in Nat \ {0} /\ GuestCap \in Nat \ {0}
    /\ Attempts \in Nat \ {0} /\ MaxCost \in Nat
    /\ AlertAt \in Nat \ {0} /\ QuotaAt \in Nat \ {0} /\ MaxTokens \in Nat /\ MaxLost \in Nat
    /\ IsFiniteSet(ModelCall)

VARIABLES
    ledger,      \* today's keys of data/cost_ledger.json
    calls,       \* where each call stands
    skipping,     \* the provider is skipped (_cooldown_until)
    alarm,       \* what a turn that ends found crossed
    warned,        \* ghost: the warnings given today, and to whom
    billed,      \* ghost: what the provider charged for answers the day's ledger is due
    unbooked         \* ghost: the part of it no write recorded

routerVars == <<ledger, calls, skipping, alarm, warned, billed, unbooked>>

Payer == {"owner", "guest"}
Kinds  == {"quota", "budget"}
Costs == 0 .. MaxCost   \* what an answer may cost (_cost_usd)
AtRest == [at |-> "idle", who |-> "owner", attempt |-> 0, owed |-> 0]
NewDay  == [spent |-> 0, guest |-> 0, tokens |-> 0, alerted |-> {}]
-----------------------------------------------------------------------------
RouterInit ==
    /\ ledger = NewDay
    /\ calls = [c \in ModelCall |-> AtRest]
    /\ skipping = FALSE
    /\ alarm = [t \in Turn |-> "nothing"]
    /\ warned = {} /\ billed = 0 /\ unbooked = 0

Affordable(who) ==
    /\ ledger.spent < Budget
    /\ who = "guest" => ledger.guest < GuestCap

CallAsks(c, who) ==
    /\ calls[c].at = "idle" /\ Affordable(who)
    /\ calls' = [calls EXCEPT ![c] = [AtRest EXCEPT !.at = "admitted", !.who = who]]
    /\ UNCHANGED <<ledger, skipping, alarm, warned, billed, unbooked>>

(* The token guard refuses what is too large (the mark that a heavy call   *)
(* leaves decides a log line only), then the circuit breaker.              *)
Guarded(c) ==
    /\ calls[c].at = "admitted"
    /\ \/ calls' = [calls EXCEPT ![c] = AtRest]
       \/ ~skipping /\ calls' = [calls EXCEPT ![c].at = "sent", ![c].attempt = 1]
    /\ UNCHANGED <<ledger, skipping, alarm, warned, billed, unbooked>>

CallAnswers(c) ==
    /\ calls[c].at = "sent"
    /\ \E cost \in Costs :
         /\ calls' = [calls EXCEPT ![c].at = "answered", ![c].owed = cost]
         /\ billed' = billed + cost
    /\ UNCHANGED <<ledger, skipping, alarm, warned, unbooked>>

(* What follows a failure within the try: another attempt, or, for what    *)
(* no attempt can change and after the last one, the end.  A rate limit at *)
(* the end, or credits that ran out, cool the provider.                    *)
Retried(c) ==
    \/ /\ calls[c].attempt < Attempts
       /\ calls' = [calls EXCEPT ![c].at = "sent", ![c].attempt = @ + 1, ![c].owed = 0]
       /\ UNCHANGED skipping
    \/ /\ calls' = [calls EXCEPT ![c] = AtRest]
       /\ skipping' \in {skipping, TRUE}

(* The provider fails, or its answer does not arrive though it is charged. *)
Errs(c) ==
    /\ calls[c].at = "sent"
    /\ \E cost \in {n \in Costs : unbooked + n <= MaxLost} :
         billed' = billed + cost /\ unbooked' = unbooked + cost
    /\ Retried(c)
    /\ UNCHANGED <<ledger, alarm, warned>>

(* _record_cost: the day's sum, and a guest's own beside it. *)
RecordsSpend(c) ==
    /\ calls[c].at = "answered"
    /\ ledger' = [ledger EXCEPT !.spent = @ + calls[c].owed,
                     !.guest = @ + IF calls[c].who = "guest" THEN calls[c].owed ELSE 0]
    /\ calls' = [calls EXCEPT ![c].at = "recorded", ![c].owed = 0]
    /\ UNCHANGED <<skipping, alarm, warned, billed, unbooked>>

(* The write raises: caught like a failure of the provider, and the paid   *)
(* answer is asked for again.                                              *)
RecordRaises(c) ==
    /\ calls[c].at = "answered"
    /\ calls[c].owed > 0 /\ unbooked + calls[c].owed <= MaxLost
    /\ unbooked' = unbooked + calls[c].owed
    /\ Retried(c)
    /\ UNCHANGED <<ledger, alarm, warned, billed>>

Counts(c) ==
    /\ calls[c].at = "recorded"
    /\ \E n \in {0, 1} : ledger' = [ledger EXCEPT !.tokens = IF @ < MaxTokens THEN @ + n ELSE @]
    /\ calls' = [calls EXCEPT ![c] = AtRest]
    /\ UNCHANGED <<skipping, alarm, warned, billed, unbooked>>

CountRaises(c) ==
    /\ calls[c].at = "recorded"
    /\ Retried(c)
    /\ UNCHANGED <<ledger, alarm, warned, billed, unbooked>>

CoolsOff ==
    /\ skipping /\ skipping' = FALSE
    /\ UNCHANGED <<ledger, calls, alarm, warned, billed, unbooked>>
-----------------------------------------------------------------------------
Crossed(k) == IF k = "quota" THEN ledger.tokens >= QuotaAt ELSE ledger.spent >= AlertAt

(* A turn ends and looks at the ledger, without its lock.                  *)
TurnNotices(t, k) ==
    /\ alarm[t] = "nothing" /\ Crossed(k)
    /\ k = "quota" => k \notin ledger.alerted
    /\ alarm' = [alarm EXCEPT ![t] = k]
    /\ UNCHANGED <<ledger, calls, skipping, warned, billed, unbooked>>

(* Slip: what was seen before the lock is not looked at again. *)
WarnsUnseen(t, who) ==
    /\ alarm[t] \in Kinds
    /\ ledger' = [ledger EXCEPT !.alerted = @ \cup {alarm[t]}]
    /\ warned' = warned \cup {<<alarm[t], who, t>>}
    /\ alarm' = [alarm EXCEPT ![t] = "nothing"]
    /\ UNCHANGED <<calls, skipping, billed, unbooked>>

(* Under the lock: the first to get here marks the day and warns whoever   *)
(* the turn was for.  A quota seen before midnight marks the day it was    *)
(* read on, a budget the present day.                                      *)
Warns(t, who) ==
    /\ alarm[t] # "nothing"
    /\ IF alarm[t] \in ledger.alerted \cup {"quota of yesterday"} THEN UNCHANGED <<ledger, warned>>
       ELSE /\ ledger' = [ledger EXCEPT !.alerted = @ \cup {alarm[t]}]
            /\ warned' = warned \cup {<<alarm[t], who, t>>}
    /\ alarm' = [alarm EXCEPT ![t] = "nothing"]
    /\ UNCHANGED <<calls, skipping, billed, unbooked>>
-----------------------------------------------------------------------------
(* What is charged and not yet written. *)
Owed == SumFunction([c \in ModelCall |-> calls[c].owed])

(* The process ends: the ledger stays, what was not written is lost.       *)
Reboots ==
    /\ \E c \in ModelCall : calls[c].at # "idle"
    /\ unbooked + Owed <= MaxLost
    /\ calls' = [c \in ModelCall |-> AtRest]
    /\ skipping' = FALSE
    /\ alarm' = [t \in Turn |-> "nothing"]
    /\ unbooked' = unbooked + Owed
    /\ UNCHANGED <<ledger, warned, billed>>

DayTurns ==
    /\ ledger # NewDay
    /\ ledger' = NewDay
    /\ alarm' = [t \in Turn |-> IF alarm[t] = "quota" THEN "quota of yesterday" ELSE alarm[t]]
    /\ warned' = {} /\ unbooked' = 0
    /\ billed' = Owed
    /\ UNCHANGED <<calls, skipping>>

RouterNext ==
    \/ \E c \in ModelCall :
         \/ \E who \in Payer : CallAsks(c, who)
         \/ Guarded(c) \/ CallAnswers(c) \/ Errs(c) \/ RecordsSpend(c) \/ RecordRaises(c)
         \/ Counts(c) \/ CountRaises(c)
    \/ \E t \in Turn : \/ \E k \in Kinds : TurnNotices(t, k)
                      \/ \E who \in Payer : Warns(t, who)
    \/ CoolsOff \/ Reboots \/ DayTurns

RouterSpec == RouterInit /\ [][RouterNext]_routerVars
-----------------------------------------------------------------------------
RouterTypeOK ==
    /\ ledger \in [spent : Nat, guest : Nat, tokens : 0 .. MaxTokens, alerted : SUBSET Kinds]
    /\ calls \in [ModelCall -> [at : {"idle", "admitted", "sent", "answered", "recorded"},
                           who : Payer, attempt : 0 .. Attempts, owed : 0 .. MaxCost]]
    /\ skipping \in BOOLEAN /\ billed \in Nat /\ unbooked \in Nat
    /\ alarm \in [Turn -> Kinds \cup {"nothing", "quota of yesterday"}]
    /\ warned \subseteq Kinds \X Payer \X Turn

(* The ledger agrees with the bill: what was charged and is not in it is   *)
(* in flight, or was lost to a crash, a failed write or an answer that did *)
(* not arrive (router.py:74-97).                                           *)
Accounting == billed = ledger.spent + unbooked + Owed

(* What a call may still write: one cost for each attempt left.            *)
MayCost(c) ==
    CASE calls[c].at = "idle" -> 0
      [] calls[c].at = "admitted" -> Attempts * MaxCost
      [] calls[c].at \in {"sent", "answered"} -> (Attempts - calls[c].attempt + 1) * MaxCost
      [] calls[c].at = "recorded" -> (Attempts - calls[c].attempt) * MaxCost

StillToCome(who) ==
    SumFunction([c \in ModelCall |-> IF who = "owner" \/ calls[c].who = who THEN MayCost(c) ELSE 0])

(* The budget is passed by no more than the calls already in flight when   *)
(* it was reached, and a guest's cap likewise, restarts included           *)
(* (router.py:598-625).                                                    *)
OverrunBounded ==
    LET room == Cardinality(ModelCall) * Attempts * MaxCost
    IN  /\ ledger.spent + StillToCome("owner") < Budget + room
        /\ ledger.guest + StillToCome("guest") < GuestCap + room

(* A day is warned about at most once for each limit, however many turns   *)
(* and processes notice it together (router.py:112-175).                   *)
WarnedOnce ==
    /\ \A v, w \in warned : v[1] = w[1] => v = w
    /\ {w[1] : w \in warned} = ledger.alerted

RouterInv == RouterTypeOK /\ Accounting /\ OverrunBounded /\ WarnedOnce
=============================================================================

----------------------------- MODULE MCTriggers -----------------------------
(* What goes off by itself in one process: reminders, the watch rules, and *)
(* the lines about where the owner is.  The models share no state, so one  *)
(* part moves in each behaviour.                                         *)
EXTENDS Reminders, EventRules, Whereabouts

CONSTANTS f1, f2

VARIABLE part

triggerVars == <<vars, rulesVars, whereVars, part>>

AheadNear == {1}

(* Sends that wait are interchangeable: one takes the first that is free.  *)
FirstFree == fiber[f2] = Idle /\ fiber'[f2] # Idle => fiber[f1] # Idle

(* A source reports when the owner has moved, and never from the house;  *)
(* places are remembered one step from home, and what the loop takes up   *)
(* it loads at once.                                                     *)
OnTheWay ==
    /\ hand[Loop].at = "begun" => hand'[Loop].at # "begun"
    /\ \A h \in Hand : hand'[h].at = "begun" =>
            IF hand'[h].job.does = "put" THEN hand'[h].job.fix \in {1, None}
            ELSE hand'[h].job.fix # 0 /\ (hand[h].at = "idle" => hand'[h].job.fix # file.last)

(* A part that stands still is in one initial state.                     *)
TriggersInit ==
    /\ Init /\ EventRulesInit /\ WhereaboutsInit
    /\ part \in {"reminders", "rules", "where"}
    /\ part # "rules" => holds = {}

TriggersNext ==
    /\ UNCHANGED part
    /\ \/ part = "reminders" /\ Next /\ FirstFree /\ UNCHANGED <<rulesVars, whereVars>>
       \/ part = "rules" /\ EventRulesNext /\ UNCHANGED <<vars, whereVars>>
       \/ part = "where" /\ WhereaboutsNext /\ OnTheWay /\ UNCHANGED <<vars, rulesVars>>

(* Fairness and EventRulesFairness, each for the part that moves.        *)
TriggersFairness ==
    LET Stirs(p, A) == part = p /\ A
    IN  /\ WF_vars(Stirs("reminders", Tick))
        /\ \A p \in Proc : WF_vars(Stirs("reminders", Start(p)))
        /\ \A p \in Proc, i \in Id : WF_vars(Stirs("reminders", Fire(p, i)))
        /\ \A i \in Id :
            /\ SF_vars(Stirs("reminders", \E f \in Fiber : Sends(i, f) /\ Accept(f)))
            /\ SF_vars(Stirs("reminders", \E f \in Fiber : Sends(i, f) /\ Finish(f)))
        /\ WF_rulesVars(Stirs("rules", Ticks)) /\ WF_rulesVars(Stirs("rules", QuietEnds))
        /\ WF_rulesVars(Stirs("rules", Releases))
        /\ \A r \in Rule :
            WF_rulesVars(Stirs("rules", Steps(r))) /\ WF_rulesVars(Stirs("rules", Cools(r)))

TriggersSpec == TriggersInit /\ [][TriggersNext]_triggerVars /\ TriggersFairness
-----------------------------------------------------------------------------
(* Every reminder is kept, a one-shot once and a series until it is      *)
(* cancelled, and a rule whose condition comes true is heard             *)
(* (scheduler.py:63-67, :91-96, :187-203, event_rules.py).               *)
DueIsHeard == PromisesKept /\ SeriesKeepsPinging /\ CrossingIsHeard
=============================================================================

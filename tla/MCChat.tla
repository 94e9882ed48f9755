------------------------------- MODULE MCChat -------------------------------
(* One chat: its messages come in (Burst), each is a turn of the tool loop *)
(* (AgentLoop), a turn may ask for a yes (Confirm), what was said is       *)
(* remembered (Session) and becomes facts and episodes (Facts, Recall),    *)
(* and the morning speaks of what is due (Keeper).  The models share no    *)
(* state, so one part moves in each behaviour.                             *)
EXTENDS MCConfirm, MCAgentLoop, Burst, Session, Facts, Recall, Keeper

CONSTANTS r1, k1, p1

VARIABLE part

talkVars == <<vars, burstVars, sessionVars, loopVars>>
chatVars == <<talkVars, factVars, recallVars, keeperVars, part>>

MCSpeaks   == {<<k1, r1>>, <<k1, p1>>}

(* A part that stands still is in one initial state. *)
ChatInit ==
    /\ Init /\ BurstInit /\ SessionInit /\ LoopInit
    /\ FactsInit /\ RecallInit /\ KeeperInit
    /\ part \in {"confirm", "burst", "session", "loop", "facts", "recall", "keeper"}
    /\ part # "loop" => asked = [readOnly |-> FALSE, plain |-> FALSE, sole |-> FALSE]
    /\ part # "facts" => follow = "rows"
    /\ part # "keeper" => phase = [d \in Dose |-> "later"]

(* The slices of the confirmations that are explored: while Redis answers, *)
(* all; when it fails, an ask that is put again when its action runs, and  *)
(* two asks that are each put once.                                        *)
Slice == server = "up" \/ stashes[slack] = 0 \/ stashes[event] <= 1

Talks ==
    \/ part = "confirm" /\ Next /\ Slice' /\ UNCHANGED <<burstVars, sessionVars, loopVars>>
    \/ part = "burst" /\ BurstNext /\ UNCHANGED <<vars, sessionVars, loopVars>>
    \/ part = "session" /\ SessionNext /\ UNCHANGED <<vars, burstVars, loopVars>>
    \/ part = "loop" /\ LoopNext /\ UNCHANGED <<vars, burstVars, sessionVars>>

ChatNext ==
    /\ UNCHANGED part
    /\ \/ Talks /\ UNCHANGED <<factVars, recallVars, keeperVars>>
       \/ part = "facts" /\ FactsNext /\ UNCHANGED <<talkVars, recallVars, keeperVars>>
       \/ part = "recall" /\ RecallNext /\ UNCHANGED <<talkVars, factVars, keeperVars>>
       \/ part = "keeper" /\ KeeperNext /\ UNCHANGED <<talkVars, factVars, recallVars>>

(* The fairness of the part that moves: BurstFairness, LoopFairness,       *)
(* FactsFairness, RecallFairness.  The strong ones of three parts share a  *)
(* conjunct: only one part's action is ever enabled.                       *)
ChatFairness ==
    LET Stirs(p, A) == part = p /\ A
        Strong ==
            \/ /\ Stirs("burst", FoldsBack \/ Composes)
               /\ UNCHANGED <<vars, sessionVars, loopVars, factVars, recallVars, keeperVars>>
            \/ /\ Stirs("facts", ResweepMarks)
               /\ UNCHANGED <<talkVars, recallVars, keeperVars>>
            \/ /\ Stirs("recall", DayBreaks)
               /\ UNCHANGED <<talkVars, factVars, keeperVars>>
    IN  /\ SF_chatVars(Strong /\ UNCHANGED part)
        /\ WF_burstVars(Stirs("burst", Pops)) /\ WF_burstVars(Stirs("burst", Delivers))
        /\ WF_burstVars(Stirs("burst", Composed \/ Raises))
        /\ WF_burstVars(Stirs("burst", lock = "other" /\ Other))
        /\ WF_loopVars(Stirs("loop", Decide))
        /\ WF_factVars(Stirs("facts", Finishes)) /\ WF_factVars(Stirs("facts", ResweepReads))
        /\ WF_recallVars(Stirs("recall", NightFalls)) /\ WF_recallVars(Stirs("recall", Resweeps))
        /\ WF_recallVars(Stirs("recall", ReadsDays("nightly")))
        /\ \A p \in Ingest : WF_recallVars(Stirs("recall", WritesEpisodes(p)))

ChatSpec == ChatInit /\ [][ChatNext]_chatVars /\ ChatFairness
-----------------------------------------------------------------------------
(* Every message is taken into a reply, and every turn ends with something *)
(* to say to the user (telegram_bot.py, agent_loop.py).                    *)
EveryTurnAnswered == []<>(part = "loop" => answer # "none")
EveryoneAnswered  == EveryMessageTaken /\ EveryTurnAnswered

(* What is forgotten leaves the facts' episodes, the recall and, when it   *)
(* was asked to be secret, the days already written (engine.py:633-646,    *)
(* episodes.py).                                                           *)
ForgottenGoes == ForgottenIsSwept /\ ForgottenLeaves /\ RedactedLeaves
=============================================================================

----------------------------- MODULE MCPromises -----------------------------
(* What is kept for later: agent tasks, goals, the mirror of such a file,  *)
(* the originals of documents, the marks of the Slack watch, and what is *)
(* sent as a photo or a file.  The models share no state, so one part    *)
(* moves in each behaviour.                                              *)
EXTENDS AgentTasks, Goals, PromiseMirror, Originals, SlackWatch, Intake

CONSTANTS scan, b1, b2, pdf, jpg

VARIABLE part

promisesVars == <<taskVars, goalVars, vars, originalsVars, slackVars, intakeVars, part>>

AheadNear == {1, -1}
MCReads   == {<<b1, scan>>, <<b2, scan>>}
MCExtOf   == [b \in Bytes |-> IF b = b1 THEN pdf ELSE jpg]

Sent(k, f, x, c) == [kind |-> k, from |-> f, face |-> x, caption |-> c]
MCSendable == {Sent("photo", "owner", TRUE, "words"), Sent("photo", "guest", TRUE, "natural"),
               Sent("pdf", "owner", FALSE, "bare"), Sent("photo", "owner", TRUE, "bare")}

(* Quiet hours and a chat that is out of reach are explored one at a time.  *)
OneTrouble == ~hushed' \/ works'

(* Nothing is deleted while the nightly sweep unlinks what it judged.      *)
OneRemover == doomed' = {} \/ orphans'.at # "judged"

PromisesInit ==
    /\ TasksInit /\ GoalsInit /\ Init /\ OriginalsInit /\ SlackWatchInit /\ IntakeInit
    /\ part \in {"tasks", "goals", "mirror", "originals", "slack", "intake"}

PromisesNext ==
    /\ UNCHANGED part
    /\ \/ part = "tasks" /\ TasksNext /\ OneTrouble
          /\ UNCHANGED <<goalVars, vars, originalsVars, slackVars, intakeVars>>
       \/ part = "goals" /\ GoalsNext
          /\ UNCHANGED <<taskVars, vars, originalsVars, slackVars, intakeVars>>
       \/ part = "mirror" /\ Next
          /\ UNCHANGED <<taskVars, goalVars, originalsVars, slackVars, intakeVars>>
       \/ part = "originals" /\ OriginalsNext /\ OneRemover
          /\ UNCHANGED <<taskVars, goalVars, vars, slackVars, intakeVars>>
       \/ part = "slack" /\ SlackWatchNext
          /\ UNCHANGED <<taskVars, goalVars, vars, originalsVars, intakeVars>>
       \/ part = "intake" /\ IntakeNext
          /\ UNCHANGED <<taskVars, goalVars, vars, originalsVars, slackVars>>

(* TasksFairness, GoalsFairness, OriginalsFairness and SlackWatchFairness, *)
(* each for the part that moves.                                         *)
PromisesFairness ==
    LET Stirs(p, A) == part = p /\ A
    IN  /\ WF_taskVars(Stirs("tasks", TaskTick)) /\ WF_taskVars(Stirs("tasks", Boot))
        /\ \A i \in Task : WF_taskVars(Stirs("tasks", Fires(i)))
        /\ \A f \in Fiber : WF_taskVars(Stirs("tasks", Resumes(f)))
        /\ WF_goalVars(Stirs("goals", Midnight)) /\ WF_goalVars(Stirs("goals", GoalsBoot))
        /\ \A g \in Goal :
            /\ WF_goalVars(Stirs("goals", Comings(g))) /\ SF_goalVars(Stirs("goals", Finds(g)))
            /\ SF_goalVars(Stirs("goals", ReportArrives(g)))
            /\ SF_goalVars(Stirs("goals", ReportReturns(g) \/ ReportDropped(g)))
        /\ \A f \in File : WF_originalsVars(Stirs("originals", Ages(f)))
        /\ WF_originalsVars(Stirs("originals", Lists))
        /\ WF_originalsVars(Stirs("originals", Judges))
        /\ WF_originalsVars(Stirs("originals", Sweeps))
        /\ WF_originalsVars(Stirs("originals", Unlinks))
        /\ \A u \in Uploader :
            WF_originalsVars(Stirs("originals", Merges(u) \/ Writes(u) \/ Commits(u)))
        /\ WF_slackVars(Stirs("slack", TickSteps)) /\ WF_slackVars(Stirs("slack", DayBreaks))

PromisesSpec == PromisesInit /\ [][PromisesNext]_promisesVars /\ PromisesFairness
-----------------------------------------------------------------------------
(* No result and no finding is struck off before the chat got it         *)
(* (agent_tasks.py:47-49, goals.py:48-50).                               *)
KeptUntilTold == OneShotStashKept /\ UnreportedTold

(* Results, findings and mentions reach the chat, and the files nobody   *)
(* keeps are removed (agent_tasks.py:245-260, goals.py:48-50,            *)
(* slack_watch.py, documents.py).                                        *)
AllArrives == ResultsArrive /\ CarriedReportArrives /\ MentionReaches /\ OrphansGo
=============================================================================

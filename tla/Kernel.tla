------------------------------- MODULE Kernel -------------------------------
(***************************************************************************)
(* The gate in front of every tool (control_plane/kernel.py) with the      *)
(* registry it obeys (tools/registry.py): run_skill opens an action,       *)
(* run_tool checks the kill switch, the viewer's stage, the permission and *)
(* the loop rails, then runs the tool under its timeout, its retries and   *)
(* its failure policy.  Tools of an MCP server go through module McpStdio, *)
(* the others to an adapter that may end in any way.                       *)
(***************************************************************************)
EXTENDS McpStdio, FiniteSets

CONSTANTS
  Tools, Args,
  Exempt,        \* MEDIA_AUTO_EXEMPT: writes that may be automatic
  Remote,        \* the tools of the MCP server
  Bad,           \* <<tool, args>> that _validate_args refuses
  Scope,         \* the tools the stage of a caller's viewer allows
  Acting,        \* the callers that run actions (run_skill); the others only call tools
  Requests,      \* per caller, the calls it may make: [tool, args, yes, meta]
  Offered,       \* the tool sections config/permissions.yaml may hold
  MaxToolSteps,  \* _MAX_TOOL_STEPS
  MaxBacklog     \* bound: lines an unread MCP pipe may hold when a new call starts

ToolSpec == [perm : {"auto", "confirm", "disabled"}, effect : {"read", "write", "notify"},
          retries : Nat, fail : {"surface", "silent"} \cup Tools]
Signature == Tools \X Args

ASSUME ToolsAssumption ==
  /\ Exempt \subseteq Tools /\ Remote \subseteq Tools /\ Bad \subseteq Signature
  /\ Acting \subseteq Callers
  /\ Requests \in [Callers -> SUBSET [tool : Tools, args : Args, yes : BOOLEAN, meta : BOOLEAN]]
  /\ Scope \in [Callers -> SUBSET Tools] /\ Offered \subseteq [Tools -> ToolSpec]
  /\ {"surface", "silent"} \cap Tools = {}
ASSUME KernelBounds == MaxToolSteps \in Nat \ {0} /\ MaxBacklog \in Nat
\* config/permissions.yaml never gives a tool that acts a retry ("never blind-retry a
\* write"); the registry itself does not insist on it.
ASSUME NoBlindRetry == \A r \in Offered, t \in Tools : r[t].effect # "read" => r[t].retries = 0

VARIABLES
  specs,   \* the registry, validated at startup
  killed,  \* the kill switch file exists
  act,     \* per caller: the action it is in and the call that runs
  sent,    \* history: what the action (the call, outside one) has sent that acts
  again,   \* history: what was sent a second time
  sprung   \* history: a fallback has asked for a confirmation

kernelVars == <<specs, killed, act, sent, again, sprung>>
vars == <<mcpVars, kernelVars>>

\* Validation of the tools section: _validate for each entry, then the fallbacks.
Entry(r, t) ==
  /\ r[t].effect # "read" /\ r[t].perm = "auto" => t \in Exempt
  /\ r[t].fail # t
  /\ r[t].fail = "silent" => r[t].effect = "notify"
Loads(r) ==
  \A t \in Tools : Entry(r, t) /\ (r[t].fail \in Tools => r[r[t].fail].perm # "confirm")

NoCall == [tool |-> "none"]
Call == [tool : Tools, args : Args, yes : BOOLEAN, meta : BOOLEAN, hop : BOOLEAN, tries : Nat]
\* skill: inside run_skill; yes: _skill_confirmed; steps: _tool_steps.
Idle == [skill |-> FALSE, yes |-> FALSE, steps |-> {}, call |-> NoCall]

TypeOK ==
  /\ McpTypeOK
  /\ specs \in Offered /\ killed \in BOOLEAN
  /\ act \in [Callers -> [skill : BOOLEAN, yes : BOOLEAN, steps : SUBSET Signature,
                          call : Call \cup {NoCall}]]
  /\ \A c \in Callers :
       act[c].call # NoCall => act[c].call.tries <= specs[act[c].call.tool].retries
  /\ sent \in [Callers -> SUBSET Signature] /\ again \subseteq Signature
  /\ sprung \in BOOLEAN

Init ==
  /\ McpInit /\ specs \in {r \in Offered : Loads(r)} /\ killed = FALSE
  /\ act = [c \in Callers |-> Idle] /\ sent = [c \in Callers |-> {}]
  /\ again = {} /\ sprung = FALSE

Busy(c) == act[c].call # NoCall
Effect(t) == specs[t].effect
Sig(k) == <<k.tool, k.args>>

----------------------------------------------------------------------------
(* run_tool *)

\* The exemption of a machinery read from the rails; outside an action there are none.
Counted(c, k) == act[c].skill /\ ~(k.meta /\ Effect(k.tool) = "read")

\* A slip: a fallback is not stopped.
SlipStopped(k) == killed /\ ~k.hop

Stopped(k) == killed
OutOfScope(c, k) == k.tool \notin Scope[c]

Verdict(c, k) ==
  IF Stopped(k) THEN "kill"
  ELSE IF OutOfScope(c, k) THEN "scope"
  ELSE IF specs[k.tool].perm = "disabled" THEN "disabled"
  ELSE IF specs[k.tool].perm = "confirm" /\ ~(k.yes \/ act[c].yes) THEN "confirm"
  ELSE IF Counted(c, k) /\ Sig(k) \in act[c].steps THEN "loop"
  ELSE IF Counted(c, k) /\ Cardinality(act[c].steps) >= MaxToolSteps THEN "limit"
  ELSE IF Sig(k) \in Bad THEN "badargs" ELSE "run"

\* A slip: no call of a turn is recorded.
SlipRecorded(c, k) == act[c].steps

\* The rails record the call before its arguments are validated.
Recorded(c, k) ==
  IF Counted(c, k) /\ Verdict(c, k) \in {"badargs", "run"}
    THEN act[c].steps \cup {Sig(k)} ELSE act[c].steps

\* One attempt: the call goes to its adapter.
Attempt(c, k) ==
  /\ at' = [at EXCEPT ![c] = IF k.tool \in Remote THEN "queued" ELSE "builtin"]
  /\ IF Effect(k.tool) = "read" THEN UNCHANGED <<sent, again>>
     ELSE /\ sent' = [sent EXCEPT ![c] = @ \cup {Sig(k)}]
          /\ again' = IF Sig(k) \in sent[c] THEN again \cup {Sig(k)} ELSE again
  /\ UNCHANGED <<want, child>>

\* The call is over; outside an action the history of what it sent ends with it.
Over(c) ==
  /\ act' = [act EXCEPT ![c].call = NoCall]
  /\ sent' = IF act[c].skill THEN sent ELSE [sent EXCEPT ![c] = {}]
  /\ UNCHANGED <<at, want, child, again>>

\* The gate: refuse, or start the first attempt.
Gate(c, k) ==
  IF Verdict(c, k) = "run"
    THEN /\ Attempt(c, k) /\ act' = [act EXCEPT ![c].call = k, ![c].steps = Recorded(c, k)]
         /\ UNCHANGED sprung
    ELSE /\ act' = [act EXCEPT ![c].call = NoCall, ![c].steps = Recorded(c, k)]
         /\ sent' = IF act[c].skill THEN sent ELSE [sent EXCEPT ![c] = {}]
         /\ sprung' = (sprung \/ (k.hop /\ Verdict(c, k) = "confirm"))
         /\ UNCHANGED <<at, want, child, again>>

\* Someone calls run_tool: a step of an action, or the agent loop outside any.
RunTool(c, r) ==
  /\ ~Busy(c) /\ Len(child.inq) + Len(child.outq) <= MaxBacklog
  /\ Gate(c, [tool |-> r.tool, args |-> r.args, yes |-> r.yes, meta |-> r.meta,
              hop |-> FALSE, tries |-> 0])
  /\ UNCHANGED <<out, specs, killed>>

----------------------------------------------------------------------------
(* How an attempt ends *)

\* A slip: a fallback has a fallback.
SlipHop(c, k) == [k EXCEPT !.tool = specs[k.tool].fail, !.meta = FALSE, !.tries = 0]

\* The fallback is a new run_tool with the same arguments and the same yes, and no
\* fallback of its own.
Hop(c, k) == [k EXCEPT !.tool = specs[k.tool].fail, !.meta = FALSE, !.hop = TRUE, !.tries = 0]

Policy(c, k) ==
  IF specs[k.tool].fail \in Tools /\ ~k.hop THEN Gate(c, Hop(c, k))
  ELSE Over(c) /\ UNCHANGED sprung

\* The kernel cannot tell whose answer it is.
Answer(o) == o \in {"ok", "crossed"}
\* A timed-out write ends the call at once: its outcome is unknown.
Maybe(k, o) == o = "timeout" /\ Effect(k.tool) = "write"
Retries(k, o) == o \in {"transient", "timeout"} /\ k.tries < specs[k.tool].retries

Conclude(c) ==
  /\ Busy(c) /\ out[c] # "none" /\ out' = [out EXCEPT ![c] = "none"]
  /\ LET k == act[c].call
         o == out[c]
     IN \/ (Answer(o) \/ Maybe(k, o)) /\ Over(c) /\ UNCHANGED sprung
        \/ ~Maybe(k, o) /\ Retries(k, o)
             /\ Attempt(c, [k EXCEPT !.tries = @ + 1])
             /\ act' = [act EXCEPT ![c].call.tries = @ + 1] /\ UNCHANGED sprung
        \/ ~Maybe(k, o) /\ ~Retries(k, o) /\ ~Answer(o) /\ Policy(c, k)
  /\ UNCHANGED <<specs, killed>>

\* A builtin adapter ends in any way it likes, or is timed out.
Builtin(c) ==
  /\ at[c] = "builtin" /\ \E o \in Outcomes \ {"crossed"} : Leave(c, o)
  /\ UNCHANGED child

----------------------------------------------------------------------------
(* run_skill *)

\* An action starts; yes when the owner has confirmed it.  Its rails start empty.
RunSkill(c, yes) ==
  /\ c \in Acting /\ ~Busy(c) /\ ~act[c].skill /\ ~killed
  /\ act' = [act EXCEPT ![c] = [Idle EXCEPT !.skill = TRUE, !.yes = yes]]
  /\ sent' = [sent EXCEPT ![c] = {}]
  /\ UNCHANGED <<mcpVars, specs, killed, again, sprung>>

SkillEnds(c) ==
  /\ ~Busy(c) /\ act[c].skill
  /\ act' = [act EXCEPT ![c] = Idle]
  /\ sent' = [sent EXCEPT ![c] = {}]
  /\ UNCHANGED <<mcpVars, specs, killed, again, sprung>>
----------------------------------------------------------------------------

\* Anybody touches or removes the KILL_SWITCH file.
Switch == killed' = ~killed /\ UNCHANGED <<mcpVars, specs, act, sent, again, sprung>>

Kernel(c) ==
  \/ \E r \in Requests[c] : RunTool(c, r)
  \/ Conclude(c) \/ SkillEnds(c)
  \/ \E yes \in BOOLEAN : RunSkill(c, yes)

Next ==
  \/ \E c \in Callers : Kernel(c)
  \/ \E c \in Callers : (Adapter(c) \/ Cancel(c) \/ Builtin(c)) /\ UNCHANGED kernelVars
  \/ Child /\ UNCHANGED kernelVars
  \/ Switch

Spec == Init /\ [][Next]_vars
\* Every attempt is under wait_for, and the kernel's code after it does not wait.  The
\* child, the lock and the callers owe nothing.
FairSpec ==
  /\ Spec
  /\ \A c \in Callers :
       /\ WF_vars(Conclude(c))
       /\ WF_vars((Cancel(c) \/ Builtin(c)) /\ UNCHANGED kernelVars)

----------------------------------------------------------------------------
(* What the gate promises *)

\* A tool that acts and is not exempt never runs unless the owner said yes to that
\* tool or to the action it is a step of: never as the fallback of another tool.
YesIsForThisTool ==
  \A c \in Callers :
    LET k == act[c].call
    IN Busy(c) /\ Effect(k.tool) # "read" /\ k.tool \notin Exempt
         => (k.yes \/ act[c].yes) /\ ~k.hop

\* A fallback never springs a confirmation on the user in the middle of a failure
\* (tools/registry.py:134).
HopNeverAsks == ~sprung

\* Within one action, and within one call outside any, what acts is sent at most once
\* with the same arguments: by retry, by fallback or by the model's repetition.
SentOnce == again = {}

\* While the kill switch is engaged no attempt of a tool that acts starts, whatever
\* retry or fallback is under way.
KillStopsActing ==
  [][\A c \in Callers :
       killed /\ at[c] = "out" /\ at'[c] # "out" => Effect(act'[c].call.tool) = "read"]_vars

\* A guest's call never reaches a tool outside the guest's stage, not by fallback either.
StageIsAWall == \A c \in Callers : Busy(c) => act[c].call.tool \in Scope[c]

\* The answer a caller gets is the answer to its own request, whatever the earlier
\* callers left in the pipe when they were cancelled.
OwnAnswer == \A c \in Callers : out[c] # "crossed"

\* What the gate holds of every call: it acts on a yes to this tool, once, inside the
\* caller's stage, asks nothing in the middle of a failure, and gets its own answer.
GateHolds ==
  /\ TypeOK
  /\ YesIsForThisTool /\ HopNeverAsks /\ SentOnce /\ StageIsAWall /\ OwnAnswer

\* Every call ends: retries and fallbacks are finite, and every wait has a timeout.
CallsEnd == \A c \in Callers : []<>~Busy(c)

(* What a comment says of the adapter, and the code does not do *)

\* A child that failed its handshake is not used as if it had succeeded
\* (tools/registry.py:240).
HandshakeFirst == \A c \in Callers : at[c] = "reading" => child.shook \/ child.state # "up"
=============================================================================

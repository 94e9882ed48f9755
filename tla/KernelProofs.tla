---------------------------- MODULE KernelProofs ----------------------------
(***************************************************************************)
(* Proofs about Kernel, for any callers, tools and any registry that the   *)
(* validation accepts, and about the bill of the model calls (Router), for *)
(* any number of calls and turns.                                          *)
(***************************************************************************)
EXTENDS Kernel, Router, TLAPS, FiniteSetTheorems, WellFoundedInduction

ActState == [skill : BOOLEAN, yes : BOOLEAN, steps : SUBSET Signature, call : Call \cup {NoCall}]

\* The kernel's half of TypeOK without the bound on retries.
KType ==
  /\ specs \in Offered /\ killed \in BOOLEAN /\ act \in [Callers -> ActState]
  /\ at \in [Callers -> Places] /\ sent \in [Callers -> SUBSET Signature]
  /\ again \subseteq Signature /\ sprung \in BOOLEAN
  /\ out \in [Callers -> Outcomes \cup {"none"}]

LEMMA TypeIsKType == TypeOK => KType
  BY DEF TypeOK, McpTypeOK, KType, ActState

LEMMA NoCallIsNoCall == NoCall \notin Call
<1>1. SUFFICES ASSUME NoCall \in Call PROVE FALSE OBVIOUS
<1>2. DOMAIN NoCall = {"tool"} BY DEF NoCall
<1>3. DOMAIN NoCall = {"tool", "args", "yes", "meta", "hop", "tries"} BY <1>1 DEF Call
<1> QED BY <1>2, <1>3

(* What the gate lets through *)

\* A call that the gate lets run is in scope, not disabled, confirmed if it must be, and
\* new to the rails that count it; the kill switch is off.
LEMMA GateLetsThrough ==
  ASSUME NEW c, NEW k, Verdict(c, k) = "run"
  PROVE  /\ ~killed /\ k.tool \in Scope[c] /\ specs[k.tool].perm # "disabled"
         /\ specs[k.tool].perm = "confirm" => k.yes \/ act[c].yes
         /\ Counted(c, k) => Sig(k) \notin act[c].steps
BY DEF Verdict, Stopped, OutOfScope

LEMMA GateAsks ==
  ASSUME NEW c, NEW k, Verdict(c, k) = "confirm"
  PROVE  specs[k.tool].perm = "confirm"
BY DEF Verdict, Stopped, OutOfScope

\* What the gate leaves behind.
LEMMA GateShape ==
  ASSUME KType, NEW c \in Callers, NEW k \in Call, Gate(c, k)
  PROVE  /\ act' \in [Callers -> ActState] /\ at' \in [Callers -> Places]
         /\ sent' \in [Callers -> SUBSET Signature] /\ again' \subseteq Signature
         /\ \A d \in Callers \ {c} : act'[d] = act[d] /\ at'[d] = at[d] /\ sent'[d] = sent[d]
         /\ act'[c].skill = act[c].skill /\ act'[c].yes = act[c].yes
         /\ act'[c].steps = Recorded(c, k)
         /\ \/ Verdict(c, k) = "run" /\ act'[c].call = k /\ Attempt(c, k) /\ sprung' = sprung
            \/ /\ Verdict(c, k) # "run" /\ act'[c].call = NoCall /\ at' = at /\ again' = again
               /\ sent'[c] = IF act[c].skill THEN sent[c] ELSE {}
               /\ sprung' = (sprung \/ (k.hop /\ Verdict(c, k) = "confirm"))
<1>1. Sig(k) \in Signature BY DEF Sig, Signature, Call
<1>2. Recorded(c, k) \subseteq Signature BY <1>1 DEF Recorded, KType, ActState
<1>3. act[c] \in ActState /\ act \in [Callers -> ActState] BY DEF KType
<1>4. CASE Verdict(c, k) = "run"
  <2> DEFINE new == [act[c] EXCEPT !.call = k, !.steps = Recorded(c, k)]
  <2>1. act' = [act EXCEPT ![c] = new] BY <1>3, <1>4 DEF Gate
  <2>2. new \in ActState /\ new.call = k /\ new.steps = Recorded(c, k)
        /\ new.skill = act[c].skill /\ new.yes = act[c].yes
    BY <1>2, <1>3 DEF ActState
  <2> HIDE DEF new
  <2>3. act' \in [Callers -> ActState] /\ act'[c] = new /\ \A d \in Callers \ {c} : act'[d] = act[d]
    BY <2>1, <2>2, <1>3
  <2>4. Attempt(c, k) /\ sprung' = sprung BY <1>4 DEF Gate
  <2>5. at' \in [Callers -> Places] /\ \A d \in Callers \ {c} : at'[d] = at[d]
    BY <2>4 DEF Attempt, KType, Places
  <2>6. sent' \in [Callers -> SUBSET Signature] /\ \A d \in Callers \ {c} : sent'[d] = sent[d]
    BY <2>4, <1>1 DEF Attempt, KType
  <2>7. again' \subseteq Signature BY <2>4, <1>1 DEF Attempt, KType
  <2> QED BY <2>2, <2>3, <2>4, <2>5, <2>6, <2>7, <1>4
<1>5. CASE Verdict(c, k) # "run"
  <2> DEFINE new == [act[c] EXCEPT !.call = NoCall, !.steps = Recorded(c, k)]
  <2>1. act' = [act EXCEPT ![c] = new] BY <1>3, <1>5 DEF Gate
  <2>2. new \in ActState /\ new.call = NoCall /\ new.steps = Recorded(c, k)
        /\ new.skill = act[c].skill /\ new.yes = act[c].yes
    BY <1>2, <1>3 DEF ActState
  <2> HIDE DEF new
  <2>3. act' \in [Callers -> ActState] /\ act'[c] = new /\ \A d \in Callers \ {c} : act'[d] = act[d]
    BY <2>1, <2>2, <1>3
  <2>4. /\ at' = at /\ again' = again
        /\ sent' = IF act[c].skill THEN sent ELSE [sent EXCEPT ![c] = {}]
        /\ sprung' = (sprung \/ (k.hop /\ Verdict(c, k) = "confirm"))
    BY <1>5 DEF Gate
  <2>5. /\ sent' \in [Callers -> SUBSET Signature]
        /\ sent'[c] = (IF act[c].skill THEN sent[c] ELSE {})
        /\ \A d \in Callers \ {c} : sent'[d] = sent[d]
    BY <2>4 DEF KType
  <2> QED BY <2>2, <2>3, <2>4, <2>5, <1>5 DEF KType
<1> QED BY <1>4, <1>5

(* The invariant *)

\* What an action has sent is recorded by its rails; a call outside an action has sent
\* nothing yet, or what it is running.
SentIsRecorded ==
  \A c \in Callers :
    /\ act[c].skill => sent[c] \subseteq act[c].steps
    /\ ~act[c].skill /\ ~Busy(c) => sent[c] = {}
    /\ ~act[c].skill /\ Busy(c) /\ ~act[c].call.hop => sent[c] \subseteq {Sig(act[c].call)}

RetriesBounded ==
  \A c \in Callers : Busy(c) => act[c].call.tries <= specs[act[c].call.tool].retries

\* The inductive invariant: the registry is one that loads, and what runs has passed
\* its gate.
KernelInv ==
  /\ KType /\ Loads(specs) /\ RetriesBounded
  /\ YesIsForThisTool /\ StageIsAWall /\ HopNeverAsks /\ SentOnce /\ SentIsRecorded

\* A tool that acts and is not confirm-gated is exempt or disabled.
LEMMA ActingTools ==
  ASSUME KType, Loads(specs), NEW t \in Tools, Effect(t) # "read"
  PROVE  specs[t].perm \in {"confirm", "disabled"} \/ t \in Exempt
<1>1. specs[t].perm \in {"auto", "confirm", "disabled"} BY ToolsAssumption DEF KType, ToolSpec
<1> QED BY <1>1 DEF Loads, Entry, Effect

LEMMA InitKernelInv == Init => KernelInv
<1> SUFFICES ASSUME Init PROVE KernelInv OBVIOUS
<1>1. Idle \in ActState BY DEF Idle, ActState
<1>2. KType BY <1>1 DEF Init, McpInit, KType, Places
<1>3. \A c \in Callers : ~Busy(c) /\ sent[c] = {} /\ ~act[c].skill BY DEF Init, Busy, Idle
<1>4. Loads(specs) /\ HopNeverAsks /\ SentOnce BY DEF Init, HopNeverAsks, SentOnce
<1> QED BY <1>2, <1>3, <1>4 DEF KernelInv, RetriesBounded, YesIsForThisTool, StageIsAWall, SentIsRecorded

\* A gate that is asked for a call the rails may count keeps the invariant.
LEMMA GateKeeps ==
  ASSUME KernelInv, NEW c \in Callers, NEW k \in Call, Gate(c, k), specs' = specs,
         killed' \in BOOLEAN, out' \in [Callers -> Outcomes \cup {"none"}],
         k.tries = 0, k.hop => specs[k.tool].perm # "confirm",
         ~act[c].skill => Sig(k) \notin sent[c],
         ~act[c].skill /\ ~k.hop => sent[c] = {}
  PROVE  KernelInv'
<1>1. KType BY DEF KernelInv
<1>2. k.tool \in Tools /\ k.hop \in BOOLEAN BY DEF Call
<1>3. /\ act' \in [Callers -> ActState] /\ at' \in [Callers -> Places]
      /\ sent' \in [Callers -> SUBSET Signature] /\ again' \subseteq Signature
      /\ \A d \in Callers \ {c} : act'[d] = act[d] /\ at'[d] = at[d] /\ sent'[d] = sent[d]
      /\ act'[c].skill = act[c].skill /\ act'[c].yes = act[c].yes
      /\ act'[c].steps = Recorded(c, k)
  BY <1>1, GateShape
<1>4. \/ Verdict(c, k) = "run" /\ act'[c].call = k /\ Attempt(c, k) /\ sprung' = sprung
      \/ /\ Verdict(c, k) # "run" /\ act'[c].call = NoCall /\ at' = at /\ again' = again
         /\ sent'[c] = IF act[c].skill THEN sent[c] ELSE {}
         /\ sprung' = (sprung \/ (k.hop /\ Verdict(c, k) = "confirm"))
  BY <1>1, GateShape
<1>5. sprung' = FALSE
  <2>1. sprung = FALSE BY DEF KernelInv, HopNeverAsks, KType
  <2>2. ~(k.hop /\ Verdict(c, k) = "confirm") BY GateAsks
  <2> QED BY <1>4, <2>1, <2>2
<1>6. KType' BY <1>1, <1>3, <1>5 DEF KType
<1>7. act[c].steps \subseteq act'[c].steps BY <1>3 DEF Recorded
<1>8. CASE Verdict(c, k) = "run"
  <2>1. act'[c].call = k /\ Attempt(c, k) BY <1>4, <1>8
  <2>2. /\ ~killed /\ k.tool \in Scope[c] /\ specs[k.tool].perm # "disabled"
        /\ specs[k.tool].perm = "confirm" => k.yes \/ act[c].yes
        /\ Counted(c, k) => Sig(k) \notin act[c].steps
    BY <1>8, GateLetsThrough
  <2>3. Effect(k.tool) # "read" /\ k.tool \notin Exempt => (k.yes \/ act[c].yes) /\ ~k.hop
    BY <1>1, <1>2, <2>2, ActingTools DEF KernelInv
  <2>4. Effect(k.tool) # "read" => Sig(k) \notin sent[c]
    <3>1. act[c].skill => sent[c] \subseteq act[c].steps BY DEF KernelInv, SentIsRecorded
    <3>2. Effect(k.tool) # "read" /\ act[c].skill => Counted(c, k) BY DEF Counted
    <3> QED BY <2>2, <3>1, <3>2
  <2>5. again' = {} BY <2>1, <2>4 DEF Attempt, KernelInv, SentOnce
  <2>6. sent'[c] \subseteq sent[c] \cup {Sig(k)} /\ (Effect(k.tool) = "read" => sent'[c] = sent[c])
    BY <2>1, <1>1 DEF Attempt, KType
  <2>7. act[c].skill /\ Effect(k.tool) # "read" => Sig(k) \in act'[c].steps
    BY <1>3, <1>8 DEF Recorded, Counted
  <2>8. act[c].skill => sent'[c] \subseteq act'[c].steps
    BY <1>7, <2>6, <2>7 DEF KernelInv, SentIsRecorded
  <2>9. ~act[c].skill /\ ~k.hop => sent'[c] \subseteq {Sig(k)} BY <2>6
  <2>10. k # NoCall BY NoCallIsNoCall
  <2>11. k.tries <= specs[k.tool].retries
    <3>1. specs[k.tool].retries \in Nat BY <1>1, <1>2, ToolsAssumption DEF KType, ToolSpec
    <3> QED BY <3>1
  <2>12. SentIsRecorded'
    BY <1>3, <2>1, <2>8, <2>9, <2>10 DEF SentIsRecorded, KernelInv, Busy, Sig
  <2>13. YesIsForThisTool' BY <1>3, <2>1, <2>3 DEF YesIsForThisTool, KernelInv, Busy, Effect
  <2>14. StageIsAWall' BY <1>3, <2>1, <2>2 DEF StageIsAWall, KernelInv, Busy
  <2>15. RetriesBounded' BY <1>3, <2>1, <2>11 DEF RetriesBounded, KernelInv, Busy
  <2> QED BY <1>5, <1>6, <2>5, <2>12, <2>13, <2>14, <2>15 DEF KernelInv, HopNeverAsks, SentOnce, Loads, Entry
<1>9. CASE Verdict(c, k) # "run"
  <2>1. act'[c].call = NoCall /\ again' = again
        /\ sent'[c] = IF act[c].skill THEN sent[c] ELSE {}
    BY <1>4, <1>9
  <2>2. SentIsRecorded' BY <1>3, <1>7, <2>1 DEF SentIsRecorded, KernelInv, Busy, Sig
  <2>3. YesIsForThisTool' BY <1>3, <2>1 DEF YesIsForThisTool, KernelInv, Busy, Effect
  <2>4. StageIsAWall' BY <1>3, <2>1 DEF StageIsAWall, KernelInv, Busy
  <2>5. RetriesBounded' BY <1>3, <2>1 DEF RetriesBounded, KernelInv, Busy
  <2> QED BY <1>5, <1>6, <2>1, <2>2, <2>3, <2>4, <2>5 DEF KernelInv, HopNeverAsks, SentOnce, Loads, Entry
<1> QED BY <1>8, <1>9

\* A call that ends, an action that starts or ends: nothing runs for c afterwards.
LEMMA QuietKeeps ==
  ASSUME KernelInv, NEW c \in Callers, NEW a \in ActState, a.call = NoCall,
         act' = [act EXCEPT ![c] = a],
         a.skill => sent'[c] \subseteq a.steps, ~a.skill => sent'[c] = {},
         sent' \in [Callers -> SUBSET Signature],
         \A d \in Callers \ {c} : sent'[d] = sent[d],
         UNCHANGED <<at, again, sprung, specs, killed>>,
         out' \in [Callers -> Outcomes \cup {"none"}]
  PROVE  KernelInv'
<1>1. KType BY DEF KernelInv
<1>2. /\ act' \in [Callers -> ActState] /\ act'[c] = a
      /\ \A d \in Callers \ {c} : act'[d] = act[d]
  BY <1>1 DEF KType
<1>3. KType' BY <1>1, <1>2 DEF KType
<1>4. SentIsRecorded' BY <1>2 DEF SentIsRecorded, KernelInv, Busy, Sig
<1>5. YesIsForThisTool' BY <1>2 DEF YesIsForThisTool, KernelInv, Busy, Effect
<1>6. StageIsAWall' BY <1>2 DEF StageIsAWall, KernelInv, Busy
<1>7. RetriesBounded' BY <1>2 DEF RetriesBounded, KernelInv, Busy
<1> QED BY <1>3, <1>4, <1>5, <1>6, <1>7 DEF KernelInv, HopNeverAsks, SentOnce, Loads, Entry

LEMMA OverKeeps ==
  ASSUME KernelInv, NEW c \in Callers, Over(c), UNCHANGED <<sprung, specs, killed>>,
         out' \in [Callers -> Outcomes \cup {"none"}]
  PROVE  KernelInv'
<1>1. KType BY DEF KernelInv
<1> DEFINE a == [act[c] EXCEPT !.call = NoCall]
<1>2. act' = [act EXCEPT ![c] = a] BY <1>1 DEF Over, KType
<1>3. a \in ActState /\ a.call = NoCall /\ a.skill = act[c].skill /\ a.steps = act[c].steps
  BY <1>1 DEF KType, ActState
<1> HIDE DEF a
<1>4. /\ sent' \in [Callers -> SUBSET Signature]
      /\ sent'[c] = (IF act[c].skill THEN sent[c] ELSE {})
      /\ \A d \in Callers \ {c} : sent'[d] = sent[d]
  BY <1>1 DEF Over, KType
<1>5. a.skill => sent'[c] \subseteq a.steps BY <1>3, <1>4 DEF KernelInv, SentIsRecorded
<1>6. ~a.skill => sent'[c] = {} BY <1>3, <1>4
<1>7. UNCHANGED <<at, again>> BY DEF Over
<1> QED BY <1>2, <1>3, <1>4, <1>5, <1>6, <1>7, QuietKeeps

\* A retry is a retry of a read: nothing that acts has a budget of retries.
LEMMA RetryIsARead ==
  ASSUME KType, NEW k \in Call, NEW o, Retries(k, o)
  PROVE  Effect(k.tool) = "read"
<1>1. k.tries \in Nat /\ k.tool \in Tools BY DEF Call
<1>2. specs \in Offered /\ specs[k.tool].retries \in Nat BY <1>1, ToolsAssumption DEF KType, ToolSpec
<1>3. specs[k.tool].retries # 0 BY <1>1, <1>2 DEF Retries
<1> QED BY <1>1, <1>2, <1>3, NoBlindRetry DEF Effect

LEMMA RetryKeeps ==
  ASSUME KernelInv, NEW c \in Callers, Busy(c), NEW o, Retries(act[c].call, o),
         Attempt(c, [act[c].call EXCEPT !.tries = @ + 1]),
         act' = [act EXCEPT ![c].call.tries = @ + 1],
         UNCHANGED <<sprung, specs, killed>>,
         out' \in [Callers -> Outcomes \cup {"none"}]
  PROVE  KernelInv'
<1> DEFINE k == act[c].call
           k2 == [k EXCEPT !.tries = @ + 1]
           a == [act[c] EXCEPT !.call = k2]
<1>1. KType BY DEF KernelInv
<1>2. act[c] \in ActState /\ k \in Call BY <1>1 DEF KType, ActState, Busy
<1>3. k2 \in Call /\ k2.tool = k.tool /\ k2.args = k.args /\ k2.yes = k.yes /\ k2.hop = k.hop
      /\ k2.tries = k.tries + 1
  BY <1>2 DEF Call
<1>4. act' = [act EXCEPT ![c] = a] BY <1>1, <1>2 DEF KType, ActState, Call
<1> HIDE DEF k2
<1>5. a \in ActState /\ a.call = k2 /\ a.skill = act[c].skill /\ a.yes = act[c].yes
      /\ a.steps = act[c].steps
  BY <1>2, <1>3 DEF ActState
<1> HIDE DEF a
<1>6. /\ act' \in [Callers -> ActState] /\ act'[c] = a
      /\ \A d \in Callers \ {c} : act'[d] = act[d]
  BY <1>1, <1>4, <1>5 DEF KType
<1>7. Effect(k.tool) = "read" BY <1>1, <1>2, RetryIsARead
<1>8. UNCHANGED <<sent, again>> BY <1>3, <1>7 DEF Attempt, k2
<1>9. at' \in [Callers -> Places] BY <1>1 DEF Attempt, KType, Places
<1>10. KType' BY <1>1, <1>6, <1>8, <1>9 DEF KType
<1>11. Sig(k2) = Sig(k) BY <1>3 DEF Sig
<1>12. k2 # NoCall BY <1>3, NoCallIsNoCall
<1>13. k2.tries <= specs[k2.tool].retries
  <2>1. k.tries \in Nat /\ specs[k.tool].retries \in Nat
    BY <1>1, <1>2, ToolsAssumption DEF KType, ToolSpec, Call
  <2> QED BY <1>3, <2>1 DEF Retries
<1>14. SentIsRecorded' BY <1>3, <1>5, <1>6, <1>8, <1>11, <1>12 DEF SentIsRecorded, KernelInv, Busy, Sig
<1>15. YesIsForThisTool' BY <1>3, <1>5, <1>6, <1>7 DEF YesIsForThisTool, KernelInv, Busy, Effect
<1>16. StageIsAWall' BY <1>3, <1>5, <1>6 DEF StageIsAWall, KernelInv, Busy
<1>17. RetriesBounded' BY <1>3, <1>5, <1>6, <1>13 DEF RetriesBounded, KernelInv, Busy
<1> QED BY <1>8, <1>10, <1>14, <1>15, <1>16, <1>17
     DEF KernelInv, HopNeverAsks, SentOnce, Loads, Entry

LEMMA RunToolKeeps ==
  ASSUME KernelInv, NEW c \in Callers, NEW r \in Requests[c], RunTool(c, r)
  PROVE  KernelInv'
<1> DEFINE k == [tool |-> r.tool, args |-> r.args, yes |-> r.yes, meta |-> r.meta,
                 hop |-> FALSE, tries |-> 0]
<1>1. r \in [tool : Tools, args : Args, yes : BOOLEAN, meta : BOOLEAN] BY ToolsAssumption
<1>2. k \in Call /\ k.tries = 0 /\ ~k.hop BY <1>1 DEF Call
<1>3. Gate(c, k) /\ UNCHANGED <<out, specs, killed>> /\ ~Busy(c) BY DEF RunTool
<1>4. killed' \in BOOLEAN /\ out' \in [Callers -> Outcomes \cup {"none"}]
  BY <1>3 DEF KernelInv, KType
<1>5. ~act[c].skill => sent[c] = {} BY <1>3 DEF KernelInv, SentIsRecorded
<1> HIDE DEF k
<1> QED BY <1>2, <1>3, <1>4, <1>5, GateKeeps

\* The ways an attempt ends, one at a time.
LEMMA ConcludeCases ==
  ASSUME NEW c \in Callers, Conclude(c)
  PROVE  /\ Busy(c) /\ out' = [out EXCEPT ![c] = "none"] /\ UNCHANGED <<specs, killed>>
         /\ \/ Over(c) /\ UNCHANGED sprung
            \/ /\ Retries(act[c].call, out[c]) /\ UNCHANGED sprung
               /\ Attempt(c, [act[c].call EXCEPT !.tries = @ + 1])
               /\ act' = [act EXCEPT ![c].call.tries = @ + 1]
            \/ /\ specs[act[c].call.tool].fail \in Tools /\ ~act[c].call.hop
               /\ Gate(c, Hop(c, act[c].call))
BY DEF Conclude, Policy

LEMMA HopIsACall ==
  ASSUME NEW c \in Callers, NEW k \in Call, specs[k.tool].fail \in Tools
  PROVE  /\ Hop(c, k) \in Call /\ Hop(c, k).tool = specs[k.tool].fail
         /\ Hop(c, k).tries = 0 /\ Hop(c, k).hop = TRUE
BY DEF Hop, Call

LEMMA ConcludeKeeps ==
  ASSUME KernelInv, NEW c \in Callers, Conclude(c)
  PROVE  KernelInv'
<1> DEFINE k == act[c].call
<1>1. KType /\ Busy(c) /\ k \in Call BY ConcludeCases DEF KernelInv, KType, ActState, Busy
<1>2. out' \in [Callers -> Outcomes \cup {"none"}] /\ UNCHANGED <<specs, killed>>
  BY <1>1, ConcludeCases DEF KType
<1>3. CASE Over(c) /\ UNCHANGED sprung BY <1>2, <1>3, OverKeeps
<1>4. CASE /\ Retries(k, out[c]) /\ UNCHANGED sprung
           /\ Attempt(c, [k EXCEPT !.tries = @ + 1])
           /\ act' = [act EXCEPT ![c].call.tries = @ + 1]
  BY <1>1, <1>2, <1>4, RetryKeeps
<1>5. CASE specs[k.tool].fail \in Tools /\ ~k.hop /\ Gate(c, Hop(c, k))
  <2> DEFINE h == Hop(c, k)
  <2>1. h \in Call /\ h.tool = specs[k.tool].fail /\ h.tries = 0 /\ h.hop = TRUE
    BY <1>1, <1>5, HopIsACall
  <2>2. k.tool \in Tools BY <1>1 DEF Call
  <2>3. specs[h.tool].perm # "confirm" /\ h.tool # k.tool
    BY <1>5, <2>1, <2>2 DEF KernelInv, Loads, Entry
  <2>4. Sig(h) # Sig(k) BY <2>3 DEF Sig
  <2>5. ~act[c].skill => Sig(h) \notin sent[c]
    BY <1>1, <1>5, <2>4 DEF KernelInv, SentIsRecorded
  <2>6. killed' \in BOOLEAN /\ specs' = specs BY <1>1, <1>2 DEF KType
  <2> HIDE DEF h
  <2> QED BY <1>2, <1>5, <2>1, <2>3, <2>5, <2>6, GateKeeps DEF h
<1> QED BY <1>3, <1>4, <1>5, ConcludeCases

LEMMA SkillKeeps ==
  ASSUME KernelInv, NEW c \in Callers,
         SkillEnds(c) \/ \E yes \in BOOLEAN : RunSkill(c, yes)
  PROVE  KernelInv'
<1>1. KType BY DEF KernelInv
<1>2. PICK a \in ActState :
        a.call = NoCall /\ act' = [act EXCEPT ![c] = a]
  <2>1. CASE SkillEnds(c)
    <3>1. Idle \in ActState /\ Idle.call = NoCall BY DEF Idle, ActState
    <3> QED BY <2>1, <3>1 DEF SkillEnds
  <2>2. ASSUME NEW yes \in BOOLEAN, RunSkill(c, yes)
        PROVE  \E a \in ActState : a.call = NoCall /\ act' = [act EXCEPT ![c] = a]
    <3> DEFINE a == [Idle EXCEPT !.skill = TRUE, !.yes = yes]
    <3>1. a \in ActState /\ a.call = NoCall BY DEF Idle, ActState
    <3> QED BY <2>2, <3>1 DEF RunSkill
  <2> QED BY <2>1, <2>2
<1>3. sent' = [sent EXCEPT ![c] = {}] /\ UNCHANGED <<at, out, again, sprung, specs, killed>>
  BY DEF SkillEnds, RunSkill, mcpVars
<1>4. /\ sent' \in [Callers -> SUBSET Signature] /\ sent'[c] = {}
      /\ \A d \in Callers \ {c} : sent'[d] = sent[d]
  BY <1>1, <1>3 DEF KType
<1>5. out' \in [Callers -> Outcomes \cup {"none"}] BY <1>1, <1>3 DEF KType
<1> QED BY <1>2, <1>3, <1>4, <1>5, QuietKeeps

(* The adapter *)

ChildState == [state : {"none", "up", "dead", "reaped"}, shook : BOOLEAN,
               inq : Seq(Request), outq : Seq(Reply)]

\* Every line in a pipe with the id a caller waits for is that caller's.
Owned(q, w) == \A i \in 1..Len(q), c \in Callers : q[i].id = w[c] => q[i].by = c
McpInv == McpTypeOK /\ Owned(child.inq, want) /\ Owned(child.outq, want) /\ OwnAnswer

LEMMA LeaveKeeps ==
  ASSUME McpInv, NEW c \in Callers, NEW o \in Outcomes \ {"crossed"}, Leave(c, o)
  PROVE  /\ at' \in [Callers -> Places] /\ want' \in [Callers -> Ids \cup {0}]
         /\ out' \in [Callers -> Outcomes \cup {"none"}] /\ OwnAnswer'
         /\ Owned(child.inq, want') /\ Owned(child.outq, want')
<1>1. /\ at' \in [Callers -> Places] /\ want' \in [Callers -> Ids \cup {0}]
      /\ out' \in [Callers -> Outcomes \cup {"none"}]
  BY DEF Leave, McpInv, McpTypeOK, Places, Outcomes
<1>2. OwnAnswer' BY DEF Leave, McpInv, McpTypeOK, OwnAnswer
<1>3. \A d \in Callers : want'[d] = want[d] \/ want'[d] = 0 BY DEF Leave, McpInv, McpTypeOK
<1>4. \A i \in 1..Len(child.inq) : child.inq[i].id # 0
  <2>1. child.inq \in Seq(Request) BY DEF McpInv, McpTypeOK
  <2>2. \A r \in Request : r.id # 0 BY IdsAssumption DEF Request
  <2> QED BY <2>1, <2>2
<1>5. \A i \in 1..Len(child.outq) : child.outq[i].id # 0
  <2>1. child.outq \in Seq(Reply) BY DEF McpInv, McpTypeOK
  <2>2. \A r \in Reply : r.id # 0 BY IdsAssumption DEF Reply
  <2> QED BY <2>1, <2>2
<1>6. \A q : Owned(q, want) /\ (\A i \in 1..Len(q) : q[i].id # 0) => Owned(q, want')
  BY <1>3 DEF Owned
<1> QED BY <1>1, <1>2, <1>4, <1>5, <1>6 DEF McpInv

LEMMA NoChildIsEmpty ==
  /\ NoChild \in ChildState /\ NewChild \in ChildState
  /\ NoChild.inq = <<>> /\ NoChild.outq = <<>> /\ NewChild.inq = <<>> /\ NewChild.outq = <<>>
  /\ \A w : Owned(<<>>, w)
<1>1. NoChild \in ChildState /\ NoChild.inq = <<>> /\ NoChild.outq = <<>>
  BY DEF NoChild, ChildState
<1>2. NewChild \in ChildState /\ NewChild.inq = <<>> /\ NewChild.outq = <<>>
  BY <1>1 DEF NewChild, NoChild, ChildState
<1>3. \A w : Owned(<<>>, w) BY DEF Owned
<1> QED BY <1>1, <1>2, <1>3

LEMMA WriteKeeps ==
  ASSUME McpInv, NEW c \in Callers, NEW ch \in ChildState, NEW kind \in {"initialize", "call"},
         NEW place \in Places, Write(c, ch, kind, place),
         ch.inq = child.inq \/ ch.inq = <<>>,
         \A i \in 1..Len(ch.outq) : \E j \in 1..Len(child.outq) : ch.outq[i] = child.outq[j]
  PROVE  McpInv'
<1>1. CASE ch.state # "up" /\ Leave(c, "transient") /\ child' = NoChild
  <2>1. "transient" \in Outcomes \ {"crossed"} BY DEF Outcomes
  <2>2. child' \in ChildState /\ child'.inq = <<>> /\ child'.outq = <<>> BY <1>1, NoChildIsEmpty
  <2>3. Owned(child'.inq, want') /\ Owned(child'.outq, want') BY <2>2, NoChildIsEmpty
  <2> QED BY <1>1, <2>1, <2>2, <2>3, LeaveKeeps DEF McpInv, McpTypeOK, ChildState
<1>2. CASE /\ Ids \ Named # {} /\ want' = [want EXCEPT ![c] = NewId]
           /\ child' = IF ch.state = "up"
                       THEN [ch EXCEPT !.inq = Append(@, [id |-> NewId, kind |-> kind, by |-> c])]
                       ELSE ch
           /\ at' = [at EXCEPT ![c] = place] /\ UNCHANGED out
  <2> DEFINE line == [id |-> NewId, kind |-> kind, by |-> c]
  <2>1. NewId \in Ids /\ NewId \notin Named BY <1>2 DEF NewId
  <2>2. line \in Request /\ line.id = NewId /\ line.by = c BY <2>1 DEF Request
  <2> HIDE DEF line
  <2>3. /\ at' \in [Callers -> Places] /\ want' \in [Callers -> Ids \cup {0}]
        /\ out' \in [Callers -> Outcomes \cup {"none"}] /\ OwnAnswer'
    <3>1. at \in [Callers -> Places] /\ want \in [Callers -> Ids \cup {0}]
          /\ out \in [Callers -> Outcomes \cup {"none"}]
      BY DEF McpInv, McpTypeOK
    <3>2. at' \in [Callers -> Places] BY <1>2, <3>1
    <3>3. want' \in [Callers -> Ids \cup {0}] BY <1>2, <2>1, <3>1
    <3> QED BY <1>2, <3>1, <3>2, <3>3 DEF McpInv, OwnAnswer
  <2>4. want'[c] = NewId /\ \A d \in Callers \ {c} : want'[d] = want[d] /\ want[d] # NewId
    BY <1>2, <2>1 DEF McpInv, McpTypeOK, Named
  <2>5. ch.inq \in Seq(Request) /\ ch.outq \in Seq(Reply)
        /\ child.inq \in Seq(Request) /\ child.outq \in Seq(Reply)
    BY DEF ChildState, McpInv, McpTypeOK
  <2>6. \A i \in 1..Len(ch.inq) : ch.inq[i].id # NewId BY <2>1, <2>5 DEF Named
  <2>7. \A i \in 1..Len(ch.outq) : ch.outq[i].id # NewId BY <2>1, <2>5 DEF Named
  <2>8. Owned(ch.inq, want') /\ Owned(ch.outq, want')
    <3>1. Owned(ch.inq, want') BY <2>4, <2>5, <2>6 DEF Owned, McpInv
    <3>2. Owned(ch.outq, want') BY <2>4, <2>5, <2>7 DEF Owned, McpInv
    <3> QED BY <3>1, <3>2
  <2>9. Append(ch.inq, line) \in Seq(Request) /\ Owned(Append(ch.inq, line), want')
    <3>1. Append(ch.inq, line) \in Seq(Request) BY <2>2, <2>5
    <3>2. \A i \in 1..Len(Append(ch.inq, line)) :
            \/ i \in 1..Len(ch.inq) /\ Append(ch.inq, line)[i] = ch.inq[i]
            \/ Append(ch.inq, line)[i] = line
      BY <2>2, <2>5
    <3> QED BY <2>2, <2>4, <2>8, <3>1, <3>2 DEF Owned
  <2>10. child' \in ChildState /\ Owned(child'.inq, want') /\ Owned(child'.outq, want')
    <3>1. CASE ch.state = "up"
      <4>1. child' = [ch EXCEPT !.inq = Append(ch.inq, line)] BY <1>2, <3>1 DEF line
      <4>2. /\ child' \in ChildState /\ child'.inq = Append(ch.inq, line)
            /\ child'.outq = ch.outq
        BY <4>1, <2>9 DEF ChildState
      <4> QED BY <4>2, <2>8, <2>9
    <3>2. CASE ch.state # "up" BY <1>2, <2>8, <3>2
    <3> QED BY <3>1, <3>2
  <2> QED BY <2>3, <2>10 DEF McpInv, McpTypeOK, ChildState
<1> QED BY <1>1, <1>2 DEF Write

LEMMA TailOwned ==
  ASSUME NEW S, NEW q \in Seq(S), q # <<>>
  PROVE  /\ Tail(q) \in Seq(S) /\ Head(q) = q[1] /\ 1 \in 1..Len(q)
         /\ \A i \in 1..Len(Tail(q)) : i + 1 \in 1..Len(q) /\ Tail(q)[i] = q[i + 1]
OBVIOUS

\* One line of the adapter after another keeps the pipes in order.
LEMMA AdapterKeeps ==
  ASSUME McpInv, NEW c \in Callers, Adapter(c) \/ Cancel(c) \/ Builtin(c)
  PROVE  McpInv'
<1>1. /\ child.inq \in Seq(Request) /\ child.outq \in Seq(Reply) /\ child \in ChildState
      /\ at \in [Callers -> Places] /\ want \in [Callers -> Ids \cup {0}]
      /\ out \in [Callers -> Outcomes \cup {"none"}]
      /\ Owned(child.inq, want) /\ Owned(child.outq, want) /\ OwnAnswer
  BY DEF McpInv, McpTypeOK, ChildState
<1>2. /\ "reading" \in Places /\ "shaking" \in Places /\ "spawning" \in Places
      /\ "call" \in {"initialize", "call"} /\ "initialize" \in {"initialize", "call"}
  BY DEF Places
<1>3. {"ok", "hard", "transient", "timeout"} = Outcomes \ {"crossed"} BY DEF Outcomes
<1>4. CASE Acquire(c)
  <2>1. CASE Write(c, child, "call", "reading") BY <1>1, <1>2, <2>1, WriteKeeps
  <2>2. CASE at' = [at EXCEPT ![c] = "spawning"] /\ UNCHANGED <<want, out, child>>
    BY <1>1, <1>2, <2>2 DEF McpInv, McpTypeOK, OwnAnswer
  <2> QED BY <1>4, <2>1, <2>2 DEF Acquire
<1>5. CASE Missing(c) BY <1>1, <1>3, <1>5, LeaveKeeps DEF Missing, McpInv, McpTypeOK
<1>6. CASE Spawned(c)
  <2>1. Write(c, NewChild, "initialize", "shaking") BY <1>6 DEF Spawned
  <2>2. Len(NewChild.outq) = 0 BY NoChildIsEmpty
  <2> QED BY <1>2, <2>1, <2>2, NoChildIsEmpty, WriteKeeps
<1>7. CASE Skip(c)
  <2>1. child.outq # <<>> /\ child' = [child EXCEPT !.outq = Tail(@)] /\ UNCHANGED <<at, want, out>>
    BY <1>7 DEF Skip
  <2>2. /\ child' \in ChildState /\ child'.inq = child.inq /\ child'.outq = Tail(child.outq)
    BY <1>1, <2>1, TailOwned DEF ChildState
  <2>3. Owned(Tail(child.outq), want) BY <1>1, <2>1, TailOwned DEF Owned
  <2> QED BY <1>1, <2>1, <2>2, <2>3 DEF McpInv, McpTypeOK, ChildState, OwnAnswer
<1>8. ASSUME NEW good \in BOOLEAN, Shook(c, good) PROVE McpInv'
  <2> DEFINE ch == [child EXCEPT !.outq = Tail(@), !.shook = TRUE]
  <2>1. child.outq # <<>> BY <1>8 DEF Shook
  <2>2. ch \in ChildState /\ ch.inq = child.inq /\ ch.outq = Tail(child.outq)
    BY <1>1, <2>1, TailOwned DEF ChildState
  <2>3. \A i \in 1..Len(ch.outq) : \E j \in 1..Len(child.outq) : ch.outq[i] = child.outq[j]
    BY <1>1, <2>1, <2>2, TailOwned
  <2>4. CASE Write(c, ch, "call", "reading")
    <3> HIDE DEF ch
    <3> QED BY <1>2, <2>2, <2>3, <2>4, WriteKeeps
  <2>5. CASE Leave(c, "hard") /\ child' = NoChild
    <3>1. child' \in ChildState /\ child'.inq = <<>> /\ child'.outq = <<>> BY <2>5, NoChildIsEmpty
    <3>2. Owned(child'.inq, want') /\ Owned(child'.outq, want') BY <3>1, NoChildIsEmpty
    <3> QED BY <1>3, <2>5, <3>1, <3>2, LeaveKeeps DEF McpInv, McpTypeOK, ChildState
  <2> QED BY <1>8, <2>4, <2>5 DEF Shook
<1>9. ASSUME NEW good \in BOOLEAN, Answered(c, good) PROVE McpInv'
  <2>1. child.outq # <<>> /\ child' = [child EXCEPT !.outq = Tail(@)]
        /\ Head(child.outq).id = want[c]
    BY <1>9 DEF Answered, Mine
  <2>2. Head(child.outq).by = c BY <1>1, <2>1, TailOwned DEF Owned
  <2>3. Leave(c, "ok") \/ Leave(c, "hard") BY <1>9, <2>2 DEF Answered
  <2>4. /\ child' \in ChildState /\ child'.inq = child.inq /\ child'.outq = Tail(child.outq)
    BY <1>1, <2>1, TailOwned DEF ChildState
  <2>5. /\ at' \in [Callers -> Places] /\ want' \in [Callers -> Ids \cup {0}]
        /\ out' \in [Callers -> Outcomes \cup {"none"}] /\ OwnAnswer'
        /\ Owned(child.inq, want') /\ Owned(child.outq, want')
    BY <1>3, <2>3, LeaveKeeps
  <2>6. Owned(Tail(child.outq), want') BY <1>1, <2>1, <2>5, TailOwned DEF Owned
  <2> QED BY <2>4, <2>5, <2>6 DEF McpInv, McpTypeOK, ChildState
<1>10. CASE Closed(c)
  <2>1. Leave(c, "transient") /\ (child' = child \/ child' = NoChild) BY <1>10 DEF Closed
  <2>2. /\ at' \in [Callers -> Places] /\ want' \in [Callers -> Ids \cup {0}]
        /\ out' \in [Callers -> Outcomes \cup {"none"}] /\ OwnAnswer'
        /\ Owned(child.inq, want') /\ Owned(child.outq, want')
    BY <1>3, <2>1, LeaveKeeps
  <2>3. child' \in ChildState /\ Owned(child'.inq, want') /\ Owned(child'.outq, want')
    BY <1>1, <2>1, <2>2, NoChildIsEmpty
  <2> QED BY <2>2, <2>3 DEF McpInv, McpTypeOK, ChildState
<1>11. CASE Cancel(c) BY <1>1, <1>3, <1>11, LeaveKeeps DEF Cancel, McpInv, McpTypeOK
<1>12. CASE Builtin(c)
  <2>1. PICK o \in Outcomes \ {"crossed"} : Leave(c, o) /\ UNCHANGED child BY <1>12 DEF Builtin
  <2> QED BY <1>1, <2>1, LeaveKeeps DEF McpInv, McpTypeOK
<1> QED BY <1>4, <1>5, <1>6, <1>7, <1>8, <1>9, <1>10, <1>11, <1>12 DEF Adapter

LEMMA ChildKeeps ==
  ASSUME McpInv, Child
  PROVE  McpInv'
<1>1. /\ child.inq \in Seq(Request) /\ child.outq \in Seq(Reply) /\ child \in ChildState
      /\ Owned(child.inq, want) /\ Owned(child.outq, want) /\ UNCHANGED <<at, want, out>>
  BY DEF McpInv, McpTypeOK, ChildState, Child, Serve, Die, Reap
<1>2. CASE Serve
  <2> DEFINE q == Head(child.inq)
             line == [id |-> q.id, by |-> q.by]
  <2>1. child.inq # <<>> /\ child' = [child EXCEPT !.inq = Tail(@), !.outq = Append(@, line)]
    BY <1>2 DEF Serve
  <2>2. q \in Request BY <1>1, <2>1, TailOwned
  <2>2a. line \in Reply BY <2>2 DEF Request, Reply
  <2>3. \A d \in Callers : line.id = want[d] => line.by = d BY <1>1, <2>1, TailOwned DEF Owned
  <2> HIDE DEF line
  <2>4. Append(child.outq, line) \in Seq(Reply) BY <1>1, <2>2a
  <2>5. \A i \in 1..Len(Append(child.outq, line)) :
          \/ i \in 1..Len(child.outq) /\ Append(child.outq, line)[i] = child.outq[i]
          \/ Append(child.outq, line)[i] = line
    BY <1>1, <2>2a
  <2>6. Owned(Append(child.outq, line), want) BY <1>1, <2>3, <2>5 DEF Owned
  <2>7. Owned(Tail(child.inq), want) BY <1>1, <2>1, TailOwned DEF Owned
  <2>8. /\ child' \in ChildState /\ child'.inq = Tail(child.inq)
        /\ child'.outq = Append(child.outq, line)
    BY <1>1, <2>1, <2>4, TailOwned DEF ChildState
  <2> QED BY <1>1, <2>6, <2>7, <2>8 DEF McpInv, McpTypeOK, ChildState, OwnAnswer
<1>3. CASE Die
  <2>1. child' = [child EXCEPT !.state = "dead", !.inq = <<>>] BY <1>3 DEF Die
  <2>2. child' \in ChildState /\ child'.inq = <<>> /\ child'.outq = child.outq
    <3>1. <<>> \in Seq(Request) OBVIOUS
    <3> QED BY <1>1, <2>1, <3>1 DEF ChildState
  <2> QED BY <1>1, <2>2, NoChildIsEmpty DEF McpInv, McpTypeOK, ChildState, OwnAnswer
<1>4. CASE Reap
  <2>1. child' = [child EXCEPT !.state = "reaped"] BY <1>4 DEF Reap
  <2>2. child' \in ChildState /\ child'.inq = child.inq /\ child'.outq = child.outq
    BY <1>1, <2>1 DEF ChildState
  <2> QED BY <1>1, <2>2 DEF McpInv, McpTypeOK, ChildState, OwnAnswer
<1> QED BY <1>2, <1>3, <1>4 DEF Child

(* The theorems *)

Inv == McpInv /\ KernelInv

LEMMA InitInv == Init => Inv
<1> SUFFICES ASSUME Init PROVE Inv OBVIOUS
<1>1. McpInit BY DEF Init
<1>2. child \in ChildState /\ child.inq = <<>> /\ child.outq = <<>>
  BY <1>1, NoChildIsEmpty DEF McpInit
<1>3. /\ at \in [Callers -> Places] /\ want \in [Callers -> Ids \cup {0}]
      /\ out \in [Callers -> Outcomes \cup {"none"}] /\ OwnAnswer
  BY <1>1 DEF McpInit, Places, OwnAnswer
<1>4. McpInv BY <1>2, <1>3, NoChildIsEmpty DEF McpInv, McpTypeOK, ChildState
<1> QED BY <1>4, InitKernelInv DEF Inv

\* The kernel's own steps leave the pipes alone.
LEMMA KernelKeepsMcp ==
  ASSUME McpInv, KernelInv', UNCHANGED <<want, child>>,
         \A c \in Callers : out'[c] \in {out[c], "none"}
  PROVE  McpInv'
<1>1. /\ at' \in [Callers -> Places] /\ out' \in [Callers -> Outcomes \cup {"none"}]
  BY DEF KernelInv, KType
<1>2. OwnAnswer' BY DEF McpInv, OwnAnswer
<1> QED BY <1>1, <1>2 DEF McpInv, McpTypeOK

LEMMA StillKernel ==
  ASSUME KernelInv, McpInv', UNCHANGED kernelVars
  PROVE  KernelInv'
BY DEF KernelInv, McpInv, McpTypeOK, kernelVars, KType, Loads, Entry, RetriesBounded, YesIsForThisTool,
       StageIsAWall, HopNeverAsks, SentOnce, SentIsRecorded, Busy, Effect, Sig

LEMMA GateLeavesPipes ==
  ASSUME NEW c, NEW k, Gate(c, k)
  PROVE  UNCHANGED <<want, child>>
BY DEF Gate, Attempt

LEMMA NextInv ==
  ASSUME Inv, [Next]_vars
  PROVE  Inv'
<1>1. CASE UNCHANGED vars
  <2>1. McpInv' BY <1>1 DEF Inv, McpInv, McpTypeOK, OwnAnswer, Owned, vars, mcpVars
  <2> QED BY <1>1, <2>1, StillKernel DEF Inv, vars
<1>2. ASSUME NEW c \in Callers, NEW r \in Requests[c], RunTool(c, r) PROVE Inv'
  <2>1. KernelInv' BY <1>2, RunToolKeeps DEF Inv
  <2>2. UNCHANGED <<want, child, out>> BY <1>2, GateLeavesPipes DEF RunTool
  <2> QED BY <2>1, <2>2, KernelKeepsMcp DEF Inv
<1>3. ASSUME NEW c \in Callers, Conclude(c) PROVE Inv'
  <2>1. KernelInv' BY <1>3, ConcludeKeeps DEF Inv
  <2>2. UNCHANGED <<want, child>>
    BY <1>3, GateLeavesPipes DEF Conclude, Over, Attempt, Policy
  <2>3. \A d \in Callers : out'[d] \in {out[d], "none"}
    BY <1>3, ConcludeCases DEF Inv, McpInv, McpTypeOK
  <2> QED BY <2>1, <2>2, <2>3, KernelKeepsMcp DEF Inv
<1>4. ASSUME NEW c \in Callers, SkillEnds(c) \/ \E yes \in BOOLEAN : RunSkill(c, yes) PROVE Inv'
  <2>1. KernelInv' BY <1>4, SkillKeeps DEF Inv
  <2>2. UNCHANGED <<want, child, out>> BY <1>4 DEF SkillEnds, RunSkill, mcpVars
  <2> QED BY <2>1, <2>2, KernelKeepsMcp DEF Inv
<1>5. ASSUME NEW c \in Callers, Adapter(c) \/ Cancel(c) \/ Builtin(c), UNCHANGED kernelVars
      PROVE  Inv'
  BY <1>5, AdapterKeeps, StillKernel DEF Inv
<1>6. CASE Child /\ UNCHANGED kernelVars BY <1>6, ChildKeeps, StillKernel DEF Inv
<1>7. CASE Switch
  <2>1. UNCHANGED <<mcpVars, specs, act, sent, again, sprung>> /\ killed' \in BOOLEAN
    BY <1>7 DEF Switch, Inv, KernelInv, KType
  <2>2. McpInv' BY <2>1 DEF Inv, McpInv, McpTypeOK, OwnAnswer, Owned, mcpVars
  <2>3. KernelInv'
    BY <2>1, <2>2 DEF Inv, KernelInv, McpInv, McpTypeOK, KType, Loads, Entry, RetriesBounded, YesIsForThisTool,
           StageIsAWall, HopNeverAsks, SentOnce, SentIsRecorded, Busy, Effect, Sig
  <2> QED BY <2>2, <2>3 DEF Inv
<1> QED BY <1>1, <1>2, <1>3, <1>4, <1>5, <1>6, <1>7 DEF Next, Kernel

LEMMA InvAlways == Spec => []Inv
<1>1. Init => Inv BY InitInv
<1>2. Inv /\ [Next]_vars => Inv' BY NextInv
<1> QED BY <1>1, <1>2, PTL DEF Spec

\* For every registry that loads, a tool that acts and is not exempt runs only on a yes
\* to it, or to the action it is a step of, and never as a fallback.
THEOREM WritesAreConfirmed == Spec => []YesIsForThisTool
<1>1. Inv => YesIsForThisTool BY DEF Inv, KernelInv
<1> QED BY <1>1, InvAlways, PTL

\* No fallback ever asks the user.
THEOREM FallbacksNeverAsk == Spec => []HopNeverAsks
<1>1. Inv => HopNeverAsks BY DEF Inv, KernelInv
<1> QED BY <1>1, InvAlways, PTL

\* Within one action nothing that acts is sent twice with the same arguments.
THEOREM NothingIsSentTwice == Spec => []SentOnce
<1>1. Inv => SentOnce BY DEF Inv, KernelInv
<1> QED BY <1>1, InvAlways, PTL

\* No viewer's call reaches a tool outside the viewer's stage.
THEOREM GuestsStayInScope == Spec => []StageIsAWall
<1>1. Inv => StageIsAWall BY DEF Inv, KernelInv
<1> QED BY <1>1, InvAlways, PTL

\* With any number of callers, cancelled at any moment, an answer goes to its asker.
THEOREM AnswersAreOwn == Spec => []OwnAnswer
<1>1. Inv => OwnAnswer BY DEF Inv, McpInv
<1> QED BY <1>1, InvAlways, PTL

\* Whoever engages the kill switch, and in the middle of whatever: a gate refuses and
\* only a read is retried.
LEMMA KillStep ==
  ASSUME Inv, Next, NEW c \in Callers, killed, at[c] = "out", at'[c] # "out"
  PROVE  Effect(act'[c].call.tool) = "read"
<1>0. KType BY DEF Inv, KernelInv
<1>1. \A d \in Callers : \A k : Gate(d, k) => at' = at
  BY GateLetsThrough DEF Gate
<1>2. ASSUME NEW d \in Callers, NEW r \in Requests[d], RunTool(d, r) PROVE FALSE
  BY <1>1, <1>2 DEF RunTool
<1>3. ASSUME NEW d \in Callers, Conclude(d) PROVE Effect(act'[c].call.tool) = "read"
  <2>1. CASE Over(d) BY <2>1 DEF Over
  <2>2. CASE /\ Retries(act[d].call, out[d])
             /\ Attempt(d, [act[d].call EXCEPT !.tries = @ + 1])
             /\ act' = [act EXCEPT ![d].call.tries = @ + 1]
    <3>1. act[d].call \in Call
      BY <1>0, <1>3, ConcludeCases DEF KType, ActState, Busy
    <3>2. Effect(act[d].call.tool) = "read" BY <1>0, <2>2, <3>1, RetryIsARead
    <3>3. d = c BY <1>0, <2>2 DEF Attempt, KType
    <3>4. act'[c].call.tool = act[c].call.tool
      BY <1>0, <2>2, <3>1, <3>3 DEF KType, ActState, Call
    <3> QED BY <3>2, <3>3, <3>4
  <2>3. CASE Gate(d, Hop(d, act[d].call)) BY <1>1, <2>3
  <2> QED BY <1>3, <2>1, <2>2, <2>3, ConcludeCases
<1>4. ASSUME NEW d \in Callers, SkillEnds(d) \/ \E yes \in BOOLEAN : RunSkill(d, yes) PROVE FALSE
  BY <1>4 DEF SkillEnds, RunSkill, mcpVars
<1>5. ASSUME NEW d \in Callers, Adapter(d) \/ Cancel(d) \/ Builtin(d) PROVE FALSE
  <2>1. at[d] # "out"
    BY <1>5 DEF Adapter, Acquire, Missing, Spawned, Skip, Shook, Answered, Closed, Cancel, Builtin
  <2>2. \A e \in Callers \ {d} : at'[e] = at[e]
    BY <1>0, <1>5 DEF Adapter, Acquire, Missing, Spawned, Skip, Shook, Answered, Closed, Cancel,
       Builtin, Write, Leave, KType
  <2> QED BY <2>1, <2>2
<1>6. CASE Child BY <1>6 DEF Child, Serve, Die, Reap
<1>7. CASE Switch BY <1>7 DEF Switch, mcpVars
<1> QED BY <1>2, <1>3, <1>4, <1>5, <1>6, <1>7 DEF Next, Kernel

\* While the kill switch is engaged nothing that acts is attempted.
THEOREM KillSwitchHolds == Spec => KillStopsActing
<1>1. Inv /\ [Next]_vars
      => [\A c \in Callers :
            killed /\ at[c] = "out" /\ at'[c] # "out" => Effect(act'[c].call.tool) = "read"]_vars
  BY KillStep
<1> QED BY <1>1, InvAlways, PTL DEF Spec, KillStopsActing

\* The types of the kernel and of the adapter.
THEOREM TypeCorrect == Spec => []TypeOK
<1>1. Inv => TypeOK
  BY DEF Inv, KernelInv, KType, McpInv, TypeOK, ActState, RetriesBounded, Busy
<1> QED BY <1>1, InvAlways, PTL

\* The gate, whole: for every registry that loads and any number of callers.
THEOREM TheGateHolds == Spec => []GateHolds
<1>1. Inv => GateHolds
  BY DEF Inv, KernelInv, KType, McpInv, TypeOK, ActState, RetriesBounded, Busy, GateHolds
<1> QED BY <1>1, InvAlways, PTL
-----------------------------------------------------------------------------
(***************************************************************************)
(* Sums.  SumFunction adds the values of a function up, choosing the next  *)
(* argument as it goes.  That the choice does not matter is shown without  *)
(* induction over an operator: by the smallest set at which it would.      *)
(***************************************************************************)
AnyOf(s) == CHOOSE x \in s : TRUE

Adds(g, f, D) ==
    g = [s \in SUBSET D |-> IF s = {} THEN 0 ELSE f[AnyOf(s)] + g[s \ {AnyOf(s)}]]

Alike(f, h, D) == \A x \in D : f[x] = h[x]

Meet(g, k, s) == g[s] = k[s]

Splits(g, f, D) ==
    \A s \in SUBSET D : g[s] \in Int /\ \A y \in s : g[s] = f[y] + g[s \ {y}]

LEMMA Smallest ==
    ASSUME NEW D, IsFiniteSet(D), NEW Amiss \in SUBSET (SUBSET D), Amiss # {}
    PROVE  \E T \in Amiss : \A U \in SUBSET T : U # T => U \notin Amiss
<1>1. PICK R : R = StrictSubsetOrdering(D)
  OBVIOUS
<1>2. IsWellFoundedOn(R, SUBSET D)
  BY <1>1, FS_StrictSubsetOrderingWellFounded, FS_FiniteSubsetsOfFinite, Zenon
<1>3. PICK T \in Amiss : \A U \in Amiss : ~(<<U, T>> \in R)
  BY <1>2, WFMin
<1>4. ASSUME NEW U \in SUBSET T, U # T, U \in Amiss PROVE FALSE
  <2>1. <<U, T>> \in (SUBSET D) \X (SUBSET D)
    OBVIOUS
  <2>2. <<U, T>>[1] \subseteq <<U, T>>[2] /\ <<U, T>>[1] # <<U, T>>[2]
    BY <1>4
  <2>3. <<U, T>> \in R
    BY <1>1, <2>1, <2>2, Zenon DEF StrictSubsetOrdering
  <2> QED  BY <1>3, <1>4, <2>3
<1> QED  BY <1>4

LEMMA AnyIn == ASSUME NEW s, s # {} PROVE AnyOf(s) \in s
BY DEF AnyOf

LEMMA AddsAll ==
    ASSUME NEW g, NEW f, NEW D, Adds(g, f, D)
    PROVE  /\ g[{}] = 0
           /\ \A s \in SUBSET D : s # {} => g[s] = f[AnyOf(s)] + g[s \ {AnyOf(s)}]
<1>1. ASSUME NEW s \in SUBSET D
      PROVE  g[s] = IF s = {} THEN 0 ELSE f[AnyOf(s)] + g[s \ {AnyOf(s)}]
  BY Zenon DEF Adds
<1>2. {} \in SUBSET D
  OBVIOUS
<1>3. g[{}] = 0
  BY <1>1, <1>2, Zenon
<1>4. ASSUME NEW s \in SUBSET D, s # {} PROVE g[s] = f[AnyOf(s)] + g[s \ {AnyOf(s)}]
  BY <1>1, <1>4, Zenon
<1> QED  BY <1>3, <1>4

\* Two ways to add the same up come to the same, set by set.
LEMMA OneSum ==
    ASSUME NEW D, IsFiniteSet(D), NEW f, NEW h, NEW C, NEW E, D \subseteq C, D \subseteq E,
           NEW g, Adds(g, f, C), NEW k, Adds(k, h, E), Alike(f, h, D)
    PROVE  \A s \in SUBSET D : Meet(g, k, s)
<1>. USE DEF Meet
<1>1. PICK Amiss : Amiss = {s \in SUBSET D : g[s] # k[s]}
  OBVIOUS
<1>2. SUFFICES ASSUME Amiss # {} PROVE FALSE
  BY <1>1
<1>3. PICK T \in Amiss : \A U \in SUBSET T : U # T => U \notin Amiss
  BY <1>1, <1>2, Smallest
<1>4. T \in SUBSET D /\ g[T] # k[T] /\ T \in SUBSET C /\ T \in SUBSET E
  BY <1>1, <1>3
<1>5. T # {}
  BY <1>4, AddsAll
<1>6. AnyOf(T) \in T
  BY <1>5, AnyIn
<1>7. /\ g[T] = f[AnyOf(T)] + g[T \ {AnyOf(T)}]
      /\ k[T] = h[AnyOf(T)] + k[T \ {AnyOf(T)}]
  <2>1. \A s \in SUBSET C : s # {} => g[s] = f[AnyOf(s)] + g[s \ {AnyOf(s)}]
    BY AddsAll
  <2>2. \A s \in SUBSET E : s # {} => k[s] = h[AnyOf(s)] + k[s \ {AnyOf(s)}]
    BY AddsAll
  <2> QED  BY <1>4, <1>5, <2>1, <2>2, Zenon
<1>8. T \ {AnyOf(T)} \in SUBSET T /\ T \ {AnyOf(T)} # T
  BY <1>6
<1>9. T \ {AnyOf(T)} \notin Amiss /\ T \ {AnyOf(T)} \in SUBSET D
  BY <1>3, <1>4, <1>8
<1>10. g[T \ {AnyOf(T)}] = k[T \ {AnyOf(T)}]
  BY <1>1, <1>9
<1>11. f[AnyOf(T)] = h[AnyOf(T)]
  BY <1>4, <1>6 DEF Alike
<1> QED  BY <1>4, <1>7, <1>10, <1>11

LEMMA CanAdd == ASSUME NEW f, NEW D, IsFiniteSet(D) PROVE \E g : Adds(g, f, D)
<1>1. PICK Amiss : Amiss = {T \in SUBSET D : ~\E g : Adds(g, f, T)}
  OBVIOUS
<1>2. CASE Amiss = {}
  <2>1. D \notin Amiss /\ D \in SUBSET D
    BY <1>2
  <2> QED  BY <1>1, <2>1
<1>3. CASE Amiss # {}
  <2>1. PICK T \in Amiss : \A U \in SUBSET T : U # T => U \notin Amiss
    <3>1. Amiss \in SUBSET (SUBSET D)
      BY <1>1, Zenon
    <3> QED  BY <1>3, <3>1, Smallest
  <2>2. T \in SUBSET D /\ IsFiniteSet(T)
    BY <1>1, <2>1, FS_Subset
  <2>. DEFINE G(U) == CHOOSE g : Adds(g, f, U)
  <2>3. ASSUME NEW U \in SUBSET T, U # T PROVE Adds(G(U), f, U)
    <3>1. U \notin Amiss /\ U \in SUBSET D
      BY <2>1, <2>2, <2>3
    <3>2. \E g : Adds(g, f, U)
      BY <1>1, <3>1
    <3> QED  BY <3>2
  <2>. HIDE DEF G
  <2>. DEFINE h == [s \in SUBSET T |-> IF s = {} THEN 0
                                       ELSE f[AnyOf(s)] + G(s \ {AnyOf(s)})[s \ {AnyOf(s)}]]
  <2>4. ASSUME NEW s \in SUBSET T
        PROVE  h[s] = IF s = {} THEN 0 ELSE f[AnyOf(s)] + h[s \ {AnyOf(s)}]
    <3>1. CASE s = {}
      BY <3>1
    <3>2. CASE s # {}
      <4>1. PICK u : u = s \ {AnyOf(s)}
        OBVIOUS
      <4>2. u \in SUBSET T /\ u # T /\ AnyOf(s) \in s
        BY <3>2, <4>1, AnyIn
      <4>3. Adds(G(u), f, u)
        BY <2>3, <4>2
      <4>4. h[u] = G(u)[u]
        <5>1. CASE u = {}
          <6>1. G(u)[u] = 0
            BY <5>1, <4>3, AddsAll
          <6> QED  BY <5>1, <6>1, <4>2
        <5>2. CASE u # {}
          <6>1. PICK v : v = u \ {AnyOf(u)}
            OBVIOUS
          <6>2. v \in SUBSET T /\ v # T /\ v \subseteq u /\ v \in SUBSET v /\ u \in SUBSET u
            BY <6>1, <4>2, <5>2, AnyIn
          <6>3. Adds(G(v), f, v)
            BY <2>3, <6>2
          <6>4. IsFiniteSet(v)
            BY <2>2, <6>2, FS_Subset
          <6>5. G(u)[v] = G(v)[v]
            <7>1. Alike(f, f, v)
              BY DEF Alike
            <7> QED  BY <4>3, <6>2, <6>3, <6>4, <7>1, OneSum DEF Meet
          <6>6. G(u)[u] = f[AnyOf(u)] + G(u)[v]
            BY <4>3, <5>2, <6>1, <6>2, AddsAll
          <6>7. h[u] = f[AnyOf(u)] + G(v)[v]
            BY <4>2, <5>2, <6>1
          <6> QED  BY <6>5, <6>6, <6>7
        <5> QED  BY <5>1, <5>2
      <4>5. h[s] = f[AnyOf(s)] + G(u)[u]
        BY <3>2, <4>1
      <4> QED  BY <3>2, <4>1, <4>4, <4>5
    <3> QED  BY <3>1, <3>2
  <2>5. h = [s \in SUBSET T |-> IF s = {} THEN 0 ELSE f[AnyOf(s)] + h[s \ {AnyOf(s)}]]
    <3>. DEFINE k == [s \in SUBSET T |-> IF s = {} THEN 0 ELSE f[AnyOf(s)] + h[s \ {AnyOf(s)}]]
    <3>1. \A s \in SUBSET T : h[s] = k[s]
      BY <2>4
    <3>2. h = [s \in SUBSET T |-> h[s]] /\ k = [s \in SUBSET T |-> k[s]]
      OBVIOUS
    <3> HIDE DEF h, k
    <3>3. h = k
      BY <3>1, <3>2
    <3> QED  BY <3>3 DEF k
  <2> HIDE DEF h
  <2>6. Adds(h, f, T)
    BY <2>5, Zenon DEF Adds
  <2> QED  BY <1>1, <2>1, <2>6
<1> QED  BY <1>2, <1>3

\* SumFunction adds up all of the function.
LEMMA SumIsASum ==
    ASSUME NEW f, IsFiniteSet(DOMAIN f)
    PROVE  \E g : Adds(g, f, DOMAIN f) /\ SumFunction(f) = g[DOMAIN f]
<1>1. SumFunction(f) = (CHOOSE g : Adds(g, f, DOMAIN f))[DOMAIN f]
  BY Zenon DEF SumFunction, SumFunctionOnSet, FoldFunctionOnSet, MapThenFoldSet, Adds, AnyOf
<1>2. \E g : Adds(g, f, DOMAIN f)
  BY CanAdd
<1> QED  BY <1>1, <1>2, Zenon

\* What is added first does not matter.
LEMMA TakeOut ==
    ASSUME NEW D, IsFiniteSet(D), NEW f \in [D -> Int], NEW g, Adds(g, f, D)
    PROVE  Splits(g, f, D)
<1>. DEFINE Good(s) == g[s] \in Int /\ \A x \in s : g[s] = f[x] + g[s \ {x}]
<1>1. PICK Amiss : Amiss = {s \in SUBSET D : ~Good(s)}
  OBVIOUS
<1>2. SUFFICES ASSUME Amiss # {} PROVE FALSE
  BY <1>1 DEF Splits
<1>3. PICK T \in Amiss : \A U \in SUBSET T : U # T => U \notin Amiss
  <2>1. Amiss \in SUBSET (SUBSET D)
    BY <1>1, Zenon
  <2> QED  BY <1>2, <2>1, Smallest
<1>4. T \in SUBSET D /\ ~Good(T)
  BY <1>1, <1>3
<1>5. \A U \in SUBSET T : U # T => Good(U)
  BY <1>1, <1>3, <1>4
<1>6. T # {}
  <2>1. g[{}] = 0
    BY AddsAll
  <2>2. Good({})
    BY <2>1
  <2> HIDE DEF Good
  <2> QED  BY <1>4, <2>2
<1>7. AnyOf(T) \in T /\ AnyOf(T) \in D
  BY <1>4, <1>6, AnyIn
<1>8. PICK c, u : c = AnyOf(T) /\ u = T \ {c}
  OBVIOUS
<1>9. g[T] = f[c] + g[u]
  BY <1>4, <1>6, <1>8, AddsAll
<1>10. Good(u) /\ f[c] \in Int /\ c \in T
  BY <1>5, <1>7, <1>8
<1>11. g[T] \in Int
  BY <1>9, <1>10
<1>12. ASSUME NEW x \in T PROVE g[T] = f[x] + g[T \ {x}]
  <2>1. CASE x = c
    BY <2>1, <1>8, <1>9
  <2>2. CASE x # c
    <3>1. x \in u /\ f[x] \in Int /\ c \in T \ {x} /\ T \ {x} # T /\ u \ {x} # T
      BY <2>2, <1>4, <1>8, <1>10
    <3>2. Good(T \ {x}) /\ Good(u \ {x})
      BY <1>5, <1>8, <3>1
    <3>3. (T \ {x}) \ {c} = u \ {x}
      BY <1>8
    <3>4. g[u] = f[x] + g[u \ {x}]
      BY <1>10, <3>1
    <3>5. g[T \ {x}] = f[c] + g[u \ {x}]
      BY <3>1, <3>2, <3>3
    <3>6. g[u \ {x}] \in Int
      BY <3>2
    <3> QED  BY <1>9, <1>10, <3>1, <3>4, <3>5, <3>6
  <2> QED  BY <2>1, <2>2
<1> QED  BY <1>4, <1>11, <1>12

\* Elsewhere than at the change the two sums are one.
LEMMA RestTheSame ==
    ASSUME NEW D, IsFiniteSet(D), NEW f, NEW h, NEW E \in SUBSET D, Alike(f, h, E),
           NEW g, Adds(g, f, D), NEW k, Adds(k, h, D)
    PROVE  Meet(g, k, E)
<1>1. E \in SUBSET E /\ E \subseteq D /\ IsFiniteSet(E)
  BY FS_Subset
<1>2. \A s \in SUBSET E : Meet(g, k, s)
  BY <1>1, OneSum
<1> QED  BY <1>1, <1>2

\* A sum follows a change at one argument.
LEMMA SumChanged ==
    ASSUME NEW D, IsFiniteSet(D), NEW f \in [D -> Int], NEW h \in [D -> Int], NEW x \in D,
           \A y \in D \ {x} : f[y] = h[y]
    PROVE  /\ SumFunction(f) \in Int /\ SumFunction(h) \in Int
           /\ SumFunction(h) = SumFunction(f) - f[x] + h[x]
<1>1. DOMAIN f = D /\ DOMAIN h = D
  OBVIOUS
<1>2. PICK g : Adds(g, f, D) /\ SumFunction(f) = g[D]
  BY <1>1, SumIsASum
<1>3. PICK k : Adds(k, h, D) /\ SumFunction(h) = k[D]
  BY <1>1, SumIsASum
<1>4. PICK E : E = D \ {x}
  OBVIOUS
<1>5. D \in SUBSET D /\ E \in SUBSET D /\ E \in SUBSET E /\ E \subseteq D
  BY <1>4
<1>6. /\ g[D] \in Int /\ g[E] \in Int /\ g[D] = f[x] + g[E]
  <2>1. Splits(g, f, D)
    BY <1>2, TakeOut
  <2> QED  BY <1>4, <1>5, <2>1 DEF Splits
<1>7. /\ k[D] \in Int /\ k[E] \in Int /\ k[D] = h[x] + k[E]
  <2>1. Splits(k, h, D)
    BY <1>3, TakeOut
  <2> QED  BY <1>4, <1>5, <2>1 DEF Splits
<1>8. g[E] = k[E]
  <2>1. Adds(g, f, D) /\ Adds(k, h, D) /\ Alike(f, h, E)
    BY <1>2, <1>3, <1>4 DEF Alike
  <2>2. Meet(g, k, E)
    BY <1>5, <2>1, RestTheSame
  <2> QED  BY <2>2 DEF Meet
<1>9. f[x] \in Int /\ h[x] \in Int
  OBVIOUS
<1> QED  BY <1>2, <1>3, <1>6, <1>7, <1>8, <1>9

\* A sum of numbers up to K is at most K for each.
LEMMA SumBounded ==
    ASSUME NEW D, IsFiniteSet(D), NEW K \in Nat, NEW f \in [D -> 0 .. K]
    PROVE  SumFunction(f) \in Nat /\ SumFunction(f) <= Cardinality(D) * K
<1>1. DOMAIN f = D /\ f \in [D -> Int]
  OBVIOUS
<1>2. PICK g : Adds(g, f, D) /\ SumFunction(f) = g[D]
  BY <1>1, SumIsASum
<1>. DEFINE Good(s) == g[s] \in Nat /\ g[s] <= Cardinality(s) * K
<1>3. PICK Amiss : Amiss = {s \in SUBSET D : ~Good(s)}
  OBVIOUS
<1>4. CASE Amiss = {}
  BY <1>2, <1>3, <1>4
<1>5. CASE Amiss # {}
  <2>1. PICK T \in Amiss : \A U \in SUBSET T : U # T => U \notin Amiss
    <3>1. Amiss \in SUBSET (SUBSET D)
      BY <1>3, Zenon
    <3> QED  BY <1>5, <3>1, Smallest
  <2>2. T \in SUBSET D /\ ~Good(T) /\ IsFiniteSet(T)
    BY <1>3, <2>1, FS_Subset
  <2>3. CASE T = {}
    <3>1. g[{}] = 0 /\ Cardinality({}) = 0
      BY <1>2, AddsAll, FS_EmptySet
    <3>2. 0 * K = 0
      OBVIOUS
    <3> QED  BY <2>2, <2>3, <3>1, <3>2
  <2>4. CASE T # {}
    <3>1. PICK c \in T : TRUE
      BY <2>4
    <3>2. PICK u : u = T \ {c}
      OBVIOUS
    <3>3. u \in SUBSET T /\ u # T /\ u \in SUBSET D /\ f[c] \in 0 .. K
      BY <2>2, <3>1, <3>2
    <3>4. Good(u)
      BY <1>3, <2>1, <3>3
    <3>5. g[T] = f[c] + g[u]
      <4>1. Splits(g, f, D)
        BY <1>1, <1>2, TakeOut
      <4> QED  BY <2>2, <3>1, <3>2, <4>1 DEF Splits
    <3>6. Cardinality(u) = Cardinality(T) - 1 /\ Cardinality(T) \in Nat /\ Cardinality(u) \in Nat
      <4>1. IsFiniteSet(u)
        BY <2>2, <3>3, FS_Subset
      <4> QED  BY <2>2, <3>1, <3>2, <4>1, FS_RemoveElement, FS_CardinalityType
    <3>7. Cardinality(T) * K = Cardinality(u) * K + K
      BY <3>6
    <3> QED  BY <2>2, <3>3, <3>4, <3>5, <3>6, <3>7
  <2> QED  BY <2>3, <2>4
<1> QED  BY <1>4, <1>5
-----------------------------------------------------------------------------
(***************************************************************************)
(* The calls and the day's ledger.  Besides RouterInv the induction needs  *)
(* that a call owes something only between its answer and the write, and   *)
(* that what was sent is counted as an attempt.                            *)
(***************************************************************************)
CallState == [at : {"idle", "admitted", "sent", "answered", "recorded"},
              who : Payer, attempt : 0 .. Attempts, owed : 0 .. MaxCost]

RightCall(r) ==
    /\ r.owed # 0 => r.at = "answered"
    /\ r.at \in {"sent", "answered", "recorded"} => r.attempt # 0

RouterIInv == RouterInv /\ \A c \in ModelCall : RightCall(calls[c])

\* What a call that stands at r may still write, and what of it is who's.
DueAt(r) ==
    CASE r.at = "idle" -> 0
      [] r.at = "admitted" -> Attempts * MaxCost
      [] r.at \in {"sent", "answered"} -> (Attempts - r.attempt + 1) * MaxCost
      [] r.at = "recorded" -> (Attempts - r.attempt) * MaxCost

Share(who, r) == IF who = "owner" \/ r.who = who THEN DueAt(r) ELSE 0

Most == Attempts * MaxCost

LEMMA AttemptsLeft ==
    ASSUME NEW a \in 0 .. Attempts
    PROVE  /\ Most \in Nat /\ (Attempts - a) * MaxCost \in Nat
           /\ (Attempts - a) * MaxCost <= Most
           /\ (Attempts - a + 1) * MaxCost = (Attempts - a) * MaxCost + MaxCost
           /\ a # 0 => (Attempts - a) * MaxCost + MaxCost <= Most
           /\ a = 1 => (Attempts - a) * MaxCost + MaxCost = Most
           /\ a # 0 => (Attempts - (a - 1)) * MaxCost = (Attempts - a) * MaxCost + MaxCost
<1>1. MaxCost \in Nat /\ Attempts \in Nat /\ a \in Nat /\ a <= Attempts
  BY RouterAssumption
<1>2. PICK b \in Nat : b = Attempts - a
  BY <1>1
<1>3. Attempts = a + b
  BY <1>1, <1>2
<1>4. a * MaxCost \in Nat /\ b * MaxCost \in Nat /\ Most = a * MaxCost + b * MaxCost
  BY <1>1, <1>2, <1>3 DEF Most
<1>5. (b + 1) * MaxCost = b * MaxCost + MaxCost
  BY <1>1, <1>2
<1>6. ASSUME a # 0 PROVE a * MaxCost >= MaxCost
  <2>1. PICK e \in Nat : a = e + 1
    BY <1>1, <1>6
  <2>2. a * MaxCost = e * MaxCost + MaxCost /\ e * MaxCost \in Nat
    BY <1>1, <2>1
  <2> QED  BY <1>1, <2>2
<1>7. Attempts - (a - 1) = b + 1
  BY <1>1, <1>2
<1>8. a = 1 => a * MaxCost = MaxCost
  BY <1>1
<1> QED  BY <1>1, <1>2, <1>4, <1>5, <1>6, <1>7, <1>8

LEMMA Dues ==
    ASSUME NEW r \in CallState, RightCall(r), NEW who \in Payer
    PROVE  /\ Share(who, r) \in 0 .. Most
           /\ DueAt(r) \in 0 .. Most
<1>1. DueAt(r) \in 0 .. Most
  <2>1. /\ Most \in Nat /\ (Attempts - r.attempt) * MaxCost \in Nat
        /\ (Attempts - r.attempt) * MaxCost <= Most
        /\ (Attempts - r.attempt + 1) * MaxCost = (Attempts - r.attempt) * MaxCost + MaxCost
        /\ r.attempt # 0 => (Attempts - r.attempt) * MaxCost + MaxCost <= Most
    BY AttemptsLeft DEF CallState
  <2>2. MaxCost \in Nat
    BY RouterAssumption
  <2>3. CASE r.at = "idle"
    BY <2>1, <2>3 DEF DueAt
  <2>4. CASE r.at = "admitted"
    BY <2>1, <2>4 DEF DueAt, Most
  <2>5. CASE r.at \in {"sent", "answered"}
    BY <2>1, <2>2, <2>5 DEF DueAt, RightCall
  <2>6. CASE r.at = "recorded"
    BY <2>1, <2>6 DEF DueAt
  <2> QED  BY <2>3, <2>4, <2>5, <2>6 DEF CallState
<1>2. Most \in Nat
  BY RouterAssumption DEF Most
<1> QED  BY <1>1, <1>2 DEF Share

Owes == [c \in ModelCall |-> calls[c].owed]
Coming(who) == [c \in ModelCall |-> Share(who, calls[c])]

LEMMA SumsOfCalls ==
    /\ Owed = SumFunction(Owes)
    /\ \A who \in Payer : StillToCome(who) = SumFunction(Coming(who))
<1>1. ASSUME NEW who PROVE StillToCome(who) = SumFunction(Coming(who))
  <2>1. ASSUME NEW c PROVE MayCost(c) = DueAt(calls[c])
    BY Zenon DEF MayCost, DueAt
  <2>2. Coming(who) = [c \in ModelCall |-> IF who = "owner" \/ calls[c].who = who THEN MayCost(c) ELSE 0]
    BY <2>1, Zenon DEF Coming, Share
  <2> QED  BY <2>2, Zenon DEF StillToCome
<1>2. Owed = SumFunction(Owes)
  BY Zenon DEF Owed, Owes
<1> QED  BY <1>1, <1>2

LEMMA NextSums ==
    /\ Owed' = SumFunction(Owes')
    /\ \A who \in Payer : StillToCome(who)' = SumFunction(Coming(who)')
<1>1. ASSUME NEW who PROVE StillToCome(who)' = SumFunction(Coming(who)')
  <2>1. ASSUME NEW c PROVE MayCost(c)' = DueAt(calls'[c])
    BY Zenon DEF MayCost, DueAt
  <2>2. Coming(who)' = [c \in ModelCall |-> IF who = "owner" \/ calls'[c].who = who THEN MayCost(c)' ELSE 0]
    BY <2>1, Zenon DEF Coming, Share
  <2> QED  BY <2>2, Zenon DEF StillToCome
<1>2. Owed' = SumFunction(Owes')
  BY Zenon DEF Owed, Owes
<1> QED  BY <1>1, <1>2

LEMMA SumsTyped ==
    ASSUME calls \in [ModelCall -> CallState], \A c \in ModelCall : RightCall(calls[c])
    PROVE  /\ Owes \in [ModelCall -> 0 .. MaxCost]
           /\ \A who \in Payer : Coming(who) \in [ModelCall -> 0 .. Most]
<1>1. ASSUME NEW c \in ModelCall PROVE calls[c] \in CallState /\ calls[c].owed \in 0 .. MaxCost
  BY DEF CallState
<1>2. ASSUME NEW who \in Payer, NEW c \in ModelCall PROVE Share(who, calls[c]) \in 0 .. Most
  BY <1>1, Dues
<1> QED  BY <1>1, <1>2 DEF Owes, Coming

\* All that the calls may still write is at most one cost for each attempt of each.
LEMMA RoomForAll ==
    ASSUME calls \in [ModelCall -> CallState], \A c \in ModelCall : RightCall(calls[c])
    PROVE  /\ Owed \in Nat
           /\ \A who \in Payer : /\ StillToCome(who) \in Nat
                                 /\ StillToCome(who) <= Cardinality(ModelCall) * Attempts * MaxCost
<1>1. IsFiniteSet(ModelCall) /\ MaxCost \in Nat /\ Attempts \in Nat /\ Most \in Nat
  BY RouterAssumption DEF Most
<1>2. Owed \in Nat
  BY <1>1, SumsOfCalls, SumsTyped, SumBounded
<1>3. ASSUME NEW who \in Payer
      PROVE  StillToCome(who) \in Nat /\ StillToCome(who) <= Cardinality(ModelCall) * Most
  BY <1>1, SumsOfCalls, SumsTyped, SumBounded
<1>4. Cardinality(ModelCall) * Most = Cardinality(ModelCall) * Attempts * MaxCost
  <2>1. Cardinality(ModelCall) \in Nat
    BY <1>1, FS_CardinalityType
  <2> QED  BY <1>1, <2>1 DEF Most
<1> QED  BY <1>2, <1>3, <1>4

\* One call that moves on moves the sums by its own part.
LEMMA OneCallMoves ==
    ASSUME calls \in [ModelCall -> CallState], \A d \in ModelCall : RightCall(calls[d]),
           NEW c \in ModelCall, NEW r \in CallState, RightCall(r),
           calls' = [calls EXCEPT ![c] = r]
    PROVE  /\ calls' \in [ModelCall -> CallState] /\ \A d \in ModelCall : RightCall(calls'[d])
           /\ Owed' = Owed - calls[c].owed + r.owed
           /\ \A who \in Payer :
                StillToCome(who)' = StillToCome(who) - Share(who, calls[c]) + Share(who, r)
<1>1. /\ calls' \in [ModelCall -> CallState] /\ calls'[c] = r
      /\ \A d \in ModelCall \ {c} : calls'[d] = calls[d]
      /\ \A d \in ModelCall : RightCall(calls'[d])
  <2>1. /\ calls' \in [ModelCall -> CallState] /\ calls'[c] = r
        /\ \A d \in ModelCall \ {c} : calls'[d] = calls[d]
    OBVIOUS
  <2> QED  BY <2>1
<1>2. IsFiniteSet(ModelCall) /\ MaxCost \in Nat /\ Most \in Nat
  BY RouterAssumption DEF Most
<1>3. /\ Owes \in [ModelCall -> Int] /\ Owes' \in [ModelCall -> Int]
      /\ \A who \in Payer : /\ Coming(who) \in [ModelCall -> Int]
                            /\ Coming(who)' \in [ModelCall -> Int]
  <2>1. /\ Owes' \in [ModelCall -> 0 .. MaxCost]
        /\ \A who \in Payer : Coming(who)' \in [ModelCall -> 0 .. Most]
    <3>1. ASSUME NEW d \in ModelCall PROVE calls'[d] \in CallState /\ calls'[d].owed \in 0 .. MaxCost
      BY <1>1 DEF CallState
    <3>2. ASSUME NEW who \in Payer, NEW d \in ModelCall PROVE Share(who, calls'[d]) \in 0 .. Most
      BY <1>1, <3>1, Dues
    <3> QED  BY <3>1, <3>2 DEF Owes, Coming
  <2>2. 0 .. MaxCost \subseteq Int /\ 0 .. Most \subseteq Int
    BY <1>2
  <2> QED  BY <2>1, <2>2, SumsTyped
<1>4. Owed' = Owed - calls[c].owed + r.owed
  <2>1. Owes[c] = calls[c].owed /\ Owes'[c] = r.owed /\ \A d \in ModelCall \ {c} : Owes[d] = Owes'[d]
    BY <1>1 DEF Owes
  <2>2. SumFunction(Owes') = SumFunction(Owes) - Owes[c] + Owes'[c]
    <3>1. PICK f, h : f = Owes /\ h = Owes'
      OBVIOUS
    <3>2. f \in [ModelCall -> Int] /\ h \in [ModelCall -> Int] /\ \A d \in ModelCall \ {c} : f[d] = h[d]
      BY <1>3, <2>1, <3>1
    <3>3. SumFunction(h) = SumFunction(f) - f[c] + h[c]
      BY <1>2, <3>2, SumChanged
    <3> QED  BY <3>1, <3>3
  <2>3. Owed = SumFunction(Owes) /\ Owed' = SumFunction(Owes')
    BY SumsOfCalls, NextSums
  <2> QED  BY <2>1, <2>2, <2>3
<1>5. ASSUME NEW who \in Payer
      PROVE  StillToCome(who)' = StillToCome(who) - Share(who, calls[c]) + Share(who, r)
  <2>1. /\ Coming(who)[c] = Share(who, calls[c]) /\ Coming(who)'[c] = Share(who, r)
        /\ \A d \in ModelCall \ {c} : Coming(who)[d] = Coming(who)'[d]
    BY <1>1 DEF Coming
  <2>2. SumFunction(Coming(who)') = SumFunction(Coming(who)) - Coming(who)[c] + Coming(who)'[c]
    <3>1. PICK f, h : f = Coming(who) /\ h = Coming(who)'
      OBVIOUS
    <3>2. f \in [ModelCall -> Int] /\ h \in [ModelCall -> Int] /\ \A d \in ModelCall \ {c} : f[d] = h[d]
      BY <1>3, <2>1, <3>1
    <3>3. SumFunction(h) = SumFunction(f) - f[c] + h[c]
      BY <1>2, <3>2, SumChanged
    <3> QED  BY <3>1, <3>3
  <2>3. StillToCome(who) = SumFunction(Coming(who)) /\ StillToCome(who)' = SumFunction(Coming(who)')
    BY SumsOfCalls, NextSums
  <2> QED  BY <2>1, <2>2, <2>3
<1> QED  BY <1>1, <1>4, <1>5

-----------------------------------------------------------------------------
Ledger == [spent : Nat, guest : Nat, tokens : 0 .. MaxTokens, alerted : SUBSET Kinds]

Room == Cardinality(ModelCall) * Attempts * MaxCost

LEMMA RouterTyped ==
    ASSUME RouterIInv
    PROVE  /\ ledger \in Ledger /\ calls \in [ModelCall -> CallState]
           /\ skipping \in BOOLEAN /\ billed \in Nat /\ unbooked \in Nat
           /\ \A c \in ModelCall : RightCall(calls[c])
           /\ billed = ledger.spent + unbooked + Owed
           /\ ledger.spent + StillToCome("owner") < Budget + Room
           /\ ledger.guest + StillToCome("guest") < GuestCap + Room
           /\ ledger.spent \in Nat /\ ledger.guest \in Nat /\ Budget \in Nat /\ GuestCap \in Nat
           /\ Room \in Nat
<1>1. Cardinality(ModelCall) \in Nat /\ Attempts \in Nat /\ MaxCost \in Nat
  BY RouterAssumption, FS_CardinalityType
<1>2. Room \in Nat
  BY <1>1 DEF Room
<1>3. ledger \in Ledger /\ calls \in [ModelCall -> CallState]
  BY DEF RouterIInv, RouterInv, RouterTypeOK, Ledger, CallState
<1>4. ledger.spent \in Nat /\ ledger.guest \in Nat
  BY <1>3 DEF Ledger
<1>5. Budget \in Nat /\ GuestCap \in Nat
  BY RouterAssumption
<1> QED
  BY <1>2, <1>3, <1>4, <1>5 DEF RouterIInv, RouterInv, RouterTypeOK, Accounting, OverrunBounded, Room

\* What is left to show of a step of a call: that what it puts on the ledger it
\* could still write, or was admitted to write.
LEMMA CallMoves ==
    ASSUME RouterIInv, NEW c \in ModelCall, NEW r \in CallState, RightCall(r),
           calls' = [calls EXCEPT ![c] = r],
           ledger' \in Ledger, ledger'.alerted = ledger.alerted, UNCHANGED <<alarm, warned>>,
           skipping' \in BOOLEAN, billed' \in Nat, unbooked' \in Nat,
           billed' + ledger.spent + unbooked + calls[c].owed
               = billed + ledger'.spent + unbooked' + r.owed,
           \/ ledger'.spent + Share("owner", r) <= ledger.spent + Share("owner", calls[c])
           \/ ledger'.spent < Budget,
           \/ ledger'.guest + Share("guest", r) <= ledger.guest + Share("guest", calls[c])
           \/ ledger'.guest < GuestCap
    PROVE  RouterIInv'
<1>1. /\ calls' \in [ModelCall -> CallState] /\ \A d \in ModelCall : RightCall(calls'[d])
      /\ Owed' = Owed - calls[c].owed + r.owed
      /\ \A who \in Payer :
           StillToCome(who)' = StillToCome(who) - Share(who, calls[c]) + Share(who, r)
  BY RouterTyped, OneCallMoves
<1>2. /\ Owed \in Nat
      /\ \A who \in Payer : /\ StillToCome(who) \in Nat /\ StillToCome(who) <= Room
  BY RouterTyped, RoomForAll DEF Room
<1>3. \A who \in Payer : StillToCome(who)' \in Nat /\ StillToCome(who)' <= Room
  <2>1. \A d \in ModelCall : RightCall(calls'[d]) /\ calls'[d] \in CallState
    BY <1>1
  <2>2. ASSUME NEW who \in Payer
        PROVE  StillToCome(who)' \in Nat /\ StillToCome(who)' <= Cardinality(ModelCall) * Most
    <3>1. PICK h : h = Coming(who)'
      OBVIOUS
    <3>2. h \in [ModelCall -> 0 .. Most]
      <4>1. ASSUME NEW d \in ModelCall PROVE Share(who, calls'[d]) \in 0 .. Most
        BY <2>1, Dues
      <4> QED  BY <3>1, <4>1 DEF Coming
    <3>3. IsFiniteSet(ModelCall) /\ Most \in Nat
      BY RouterAssumption DEF Most
    <3>4. SumFunction(h) \in Nat /\ SumFunction(h) <= Cardinality(ModelCall) * Most
      BY <3>2, <3>3, SumBounded
    <3>5. StillToCome(who)' = SumFunction(h)
      BY <3>1, NextSums
    <3> QED  BY <3>4, <3>5
  <2>3. Cardinality(ModelCall) * Most = Room
    <3>1. Cardinality(ModelCall) \in Nat /\ Attempts \in Nat /\ MaxCost \in Nat
      BY RouterAssumption, FS_CardinalityType
    <3> QED  BY <3>1 DEF Most, Room
  <2> QED  BY <2>2, <2>3
<1>4. /\ calls[c].owed \in Nat /\ r.owed \in Nat
      /\ \A who \in Payer : Share(who, r) \in Nat /\ Share(who, calls[c]) \in Nat
  <2>1. MaxCost \in Nat /\ Most \in Nat
    BY RouterAssumption DEF Most
  <2>2. calls[c] \in CallState /\ RightCall(calls[c])
    BY RouterTyped
  <2>3. \A who \in Payer : Share(who, r) \in 0 .. Most /\ Share(who, calls[c]) \in 0 .. Most
    BY <2>2, Dues
  <2> QED  BY <2>1, <2>2, <2>3 DEF CallState
<1>5. ledger'.spent \in Nat /\ ledger'.guest \in Nat
  BY DEF Ledger
<1>6. Accounting'
  <2>1. /\ billed \in Nat /\ unbooked \in Nat /\ ledger.spent \in Nat
        /\ billed = ledger.spent + unbooked + Owed
    BY RouterTyped
  <2>2. Owed' = Owed - calls[c].owed + r.owed /\ Owed \in Nat
    BY <1>1, <1>2
  <2>3. billed' = ledger'.spent + unbooked' + Owed'
    <3>1. calls[c].owed \in Nat /\ r.owed \in Nat /\ ledger'.spent \in Nat
      BY <1>4, <1>5
    <3>2. billed' \in Nat /\ unbooked' \in Nat
      OBVIOUS
    <3>3. billed' + ledger.spent + unbooked + calls[c].owed
             = billed + ledger'.spent + unbooked' + r.owed
      OBVIOUS
    <3>4. billed' + calls[c].owed = Owed + ledger'.spent + unbooked' + r.owed
      <4>1. PICK o, p, u, x : o = Owed /\ p = ledger.spent /\ u = unbooked /\ x = calls[c].owed
        OBVIOUS
      <4>2. PICK b, q, v, y : b = billed' /\ q = ledger'.spent /\ v = unbooked' /\ y = r.owed
        OBVIOUS
      <4>3. {o, p, u, x} \subseteq Nat /\ {b, q, v, y} \subseteq Nat
        BY ONLY <2>1, <2>2, <3>1, <3>2, <4>1, <4>2
      <4>4. b + p + u + x = (p + u + o) + q + v + y
        BY ONLY <2>1, <3>3, <4>1, <4>2
      <4>5. b + x = o + q + v + y
        BY ONLY <4>3, <4>4
      <4> QED  BY ONLY <4>1, <4>2, <4>5
    <3> QED  BY ONLY <2>2, <3>1, <3>2, <3>4
  <2> QED  BY <2>3 DEF Accounting
<1>7. "owner" \in Payer /\ "guest" \in Payer
  BY DEF Payer
<1>8. /\ ledger'.spent + StillToCome("owner")' < Budget + Room
      /\ ledger'.guest + StillToCome("guest")' < GuestCap + Room
  <2>1. /\ StillToCome("owner")' = StillToCome("owner") - Share("owner", calls[c]) + Share("owner", r)
        /\ StillToCome("owner") \in Nat /\ StillToCome("owner")' \in Nat /\ StillToCome("owner")' <= Room
        /\ Share("owner", r) \in Nat /\ Share("owner", calls[c]) \in Nat
    BY <1>1, <1>2, <1>3, <1>4, <1>7
  <2>2. /\ StillToCome("guest")' = StillToCome("guest") - Share("guest", calls[c]) + Share("guest", r)
        /\ StillToCome("guest") \in Nat /\ StillToCome("guest")' \in Nat /\ StillToCome("guest")' <= Room
        /\ Share("guest", r) \in Nat /\ Share("guest", calls[c]) \in Nat
    BY <1>1, <1>2, <1>3, <1>4, <1>7
  <2>3. ledger'.spent + StillToCome("owner")' < Budget + Room
    BY <2>1, <1>5, RouterTyped
  <2>4. ledger'.guest + StillToCome("guest")' < GuestCap + Room
    BY <2>2, <1>5, RouterTyped
  <2> QED  BY <2>3, <2>4
<1>9. OverrunBounded'
  BY <1>8 DEF OverrunBounded, Room
<1>10. WarnedOnce'
  BY DEF WarnedOnce, RouterIInv, RouterInv
<1>11. RouterTypeOK'
  BY <1>1 DEF RouterTypeOK, RouterIInv, RouterInv, Ledger, CallState
<1> QED  BY <1>1, <1>6, <1>9, <1>10, <1>11 DEF RouterIInv, RouterInv

\* A step of a call that leaves the ledger alone.
LEMMA QuietMove ==
    ASSUME RouterIInv, NEW c \in ModelCall, NEW r \in CallState, RightCall(r),
           calls' = [calls EXCEPT ![c] = r], UNCHANGED <<ledger, alarm, warned>>,
           skipping' \in BOOLEAN, billed' \in Nat, unbooked' \in Nat,
           billed' + unbooked + calls[c].owed = billed + unbooked' + r.owed,
           \A who \in Payer : Share(who, r) <= Share(who, calls[c])
    PROVE  RouterIInv'
<1>1. /\ ledger' = ledger /\ ledger \in Ledger /\ ledger.spent \in Nat /\ ledger.guest \in Nat
      /\ calls[c] \in CallState /\ RightCall(calls[c]) /\ billed \in Nat /\ unbooked \in Nat
  BY RouterTyped
<1>2. /\ calls[c].owed \in Nat /\ r.owed \in Nat
      /\ \A who \in Payer : Share(who, r) \in Nat /\ Share(who, calls[c]) \in Nat
  <2>1. MaxCost \in Nat /\ Most \in Nat
    BY RouterAssumption DEF Most
  <2>2. \A who \in Payer : Share(who, r) \in 0 .. Most /\ Share(who, calls[c]) \in 0 .. Most
    BY <1>1, Dues
  <2> QED  BY <1>1, <2>1, <2>2 DEF CallState
<1>3. "owner" \in Payer /\ "guest" \in Payer
  BY DEF Payer
<1>4. billed' + ledger.spent + unbooked + calls[c].owed
          = billed + ledger'.spent + unbooked' + r.owed
  BY <1>1, <1>2
<1>5. /\ ledger'.spent + Share("owner", r) <= ledger.spent + Share("owner", calls[c])
      /\ ledger'.guest + Share("guest", r) <= ledger.guest + Share("guest", calls[c])
  <2>1. /\ Share("owner", r) <= Share("owner", calls[c])
        /\ Share("guest", r) <= Share("guest", calls[c])
        /\ Share("owner", r) \in Nat /\ Share("owner", calls[c]) \in Nat
        /\ Share("guest", r) \in Nat /\ Share("guest", calls[c]) \in Nat
    BY <1>2, <1>3
  <2> QED  BY <1>1, <2>1
<1> QED  BY <1>1, <1>4, <1>5, CallMoves

LEMMA AtRestIsIdle ==
    /\ AtRest \in CallState /\ RightCall(AtRest) /\ AtRest.owed = 0 /\ AtRest.at = "idle"
    /\ \A who \in Payer : Share(who, AtRest) = 0
<1>1. 0 \in 0 .. Attempts /\ 0 \in 0 .. MaxCost
  BY RouterAssumption
<1>2. AtRest \in CallState
  BY <1>1 DEF AtRest, CallState, Payer
<1> QED  BY <1>2 DEF AtRest, RightCall, Share, DueAt

LEMMA AsksStep ==
    ASSUME RouterIInv, NEW c \in ModelCall, NEW who \in Payer, CallAsks(c, who)
    PROVE  RouterIInv'
<1>. DEFINE r == [AtRest EXCEPT !.at = "admitted", !.who = who]
<1>1. /\ r \in CallState /\ RightCall(r) /\ r.owed = 0 /\ r.who = who /\ r.at = "admitted"
  BY AtRestIsIdle DEF AtRest, CallState, RightCall
<1>2. /\ calls' = [calls EXCEPT ![c] = r] /\ Affordable(who) /\ calls[c].at = "idle"
      /\ UNCHANGED <<ledger, skipping, alarm, warned, billed, unbooked>>
  BY DEF CallAsks
<1> HIDE DEF r
<1>3. /\ ledger \in Ledger /\ ledger.spent \in Nat /\ ledger.guest \in Nat
      /\ calls[c] \in CallState /\ RightCall(calls[c]) /\ billed \in Nat /\ unbooked \in Nat
      /\ skipping \in BOOLEAN
  BY RouterTyped
<1>4. calls[c].owed = 0
  BY <1>2, <1>3 DEF RightCall
<1>5. ledger'.spent < Budget
  BY <1>2 DEF Affordable
<1>6. \/ ledger'.guest + Share("guest", r) <= ledger.guest + Share("guest", calls[c])
      \/ ledger'.guest < GuestCap
  <2>1. CASE who = "guest"
    BY <1>2, <2>1 DEF Affordable
  <2>2. CASE who = "owner"
    <3>1. Share("guest", r) = 0
      BY <1>1, <2>2 DEF Share
    <3>2. Share("guest", calls[c]) = 0
      BY <1>2 DEF Share, DueAt
    <3> QED  BY <1>2, <1>3, <3>1, <3>2
  <2> QED  BY <2>1, <2>2 DEF Payer
<1>7. billed' + ledger.spent + unbooked + calls[c].owed
          = billed + ledger'.spent + unbooked' + r.owed
  BY <1>1, <1>2, <1>3, <1>4
<1> QED  BY <1>1, <1>2, <1>3, <1>5, <1>6, <1>7, CallMoves

\* An attempt that starts costs no more than was left before it.
LEMMA NextAttempt ==
    ASSUME NEW q \in CallState, RightCall(q), NEW r \in CallState, r.at = "sent", r.who = q.who,
           \/ q.at = "admitted" /\ r.attempt = 1
           \/ q.at \in {"sent", "answered", "recorded"} /\ r.attempt = q.attempt + 1
    PROVE  \A who \in Payer : Share(who, r) <= Share(who, q)
<1>1. Most \in Nat /\ MaxCost \in Nat /\ Attempts \in Nat
  BY RouterAssumption DEF Most
<1>2. r.attempt \in 0 .. Attempts /\ q.attempt \in 0 .. Attempts
  BY DEF CallState
<1>3. DueAt(r) = (Attempts - r.attempt + 1) * MaxCost
  BY DEF DueAt
<1>4. DueAt(r) = (Attempts - r.attempt) * MaxCost + MaxCost
  BY <1>2, <1>3, AttemptsLeft
<1>5. CASE q.at = "admitted" /\ r.attempt = 1
  <2>1. DueAt(q) = Most
    BY <1>5 DEF DueAt, Most
  <2>2. DueAt(r) = Most
    BY <1>2, <1>4, <1>5, AttemptsLeft
  <2> QED  BY <1>1, <2>1, <2>2 DEF Share
<1>6. CASE q.at \in {"sent", "answered", "recorded"} /\ r.attempt = q.attempt + 1
  <2>1. r.attempt # 0 /\ r.attempt - 1 = q.attempt
    BY <1>2, <1>6
  <2>2. (Attempts - (r.attempt - 1)) * MaxCost = (Attempts - r.attempt) * MaxCost + MaxCost
    BY <1>2, <2>1, AttemptsLeft
  <2>3. DueAt(r) = (Attempts - q.attempt) * MaxCost
    BY <1>4, <2>1, <2>2
  <2>4. /\ (Attempts - q.attempt) * MaxCost \in Nat
        /\ (Attempts - q.attempt + 1) * MaxCost = (Attempts - q.attempt) * MaxCost + MaxCost
    BY <1>2, AttemptsLeft
  <2>5. DueAt(q) = (Attempts - q.attempt) * MaxCost \/ DueAt(q) = (Attempts - q.attempt) * MaxCost + MaxCost
    BY <1>6, <2>4 DEF DueAt
  <2>6. DueAt(r) <= DueAt(q) /\ DueAt(r) \in Nat
    BY <1>1, <2>3, <2>4, <2>5
  <2> QED  BY <2>6 DEF Share
<1> QED  BY <1>5, <1>6

LEMMA RetriedMove ==
    ASSUME RouterIInv, NEW c \in ModelCall, calls[c].at \in {"sent", "answered", "recorded"},
           Retried(c), UNCHANGED <<ledger, alarm, warned>>, billed' \in Nat, unbooked' \in Nat,
           billed' + unbooked + calls[c].owed = billed + unbooked'
    PROVE  RouterIInv'
<1>1. /\ calls[c] \in CallState /\ RightCall(calls[c]) /\ skipping \in BOOLEAN
      /\ billed \in Nat /\ unbooked \in Nat
  BY RouterTyped
<1>2. skipping' \in BOOLEAN
  BY <1>1 DEF Retried
<1>3. CASE /\ calls[c].attempt < Attempts
           /\ calls' = [calls EXCEPT ![c].at = "sent", ![c].attempt = @ + 1, ![c].owed = 0]
  <2>. DEFINE r == [calls[c] EXCEPT !.at = "sent", !.attempt = @ + 1, !.owed = 0]
  <2>1. calls[c].attempt \in 0 .. Attempts /\ calls[c].who \in Payer /\ 0 \in 0 .. MaxCost
    BY <1>1, RouterAssumption DEF CallState
  <2>2. calls[c].attempt + 1 \in 0 .. Attempts /\ calls[c].attempt + 1 # 0
    BY <1>3, <2>1, RouterAssumption
  <2>3. r \in CallState
    BY <1>1, <2>1, <2>2 DEF CallState
  <2>4. /\ r.at = "sent" /\ r.who = calls[c].who /\ r.owed = 0 /\ r.attempt = calls[c].attempt + 1
    BY <1>1 DEF CallState
  <2>5. calls' = [calls EXCEPT ![c] = r]
    BY <1>3
  <2> HIDE DEF r
  <2>6. RightCall(r)
    BY <2>2, <2>4 DEF RightCall
  <2>7. \A who \in Payer : Share(who, r) <= Share(who, calls[c])
    BY <1>1, <2>3, <2>4, NextAttempt
  <2>8. billed' + unbooked + calls[c].owed = billed + unbooked' + r.owed
    BY <1>1, <2>4
  <2> QED  BY <1>2, <2>3, <2>5, <2>6, <2>7, <2>8, QuietMove
<1>4. CASE calls' = [calls EXCEPT ![c] = AtRest]
  <2>1. \A who \in Payer : Share(who, AtRest) <= Share(who, calls[c])
    <3>1. ASSUME NEW who \in Payer PROVE Share(who, AtRest) <= Share(who, calls[c])
      <4>1. Share(who, calls[c]) \in 0 .. Most
        BY <1>1, Dues
      <4>2. Most \in Nat
        BY RouterAssumption DEF Most
      <4> QED  BY <4>1, <4>2, AtRestIsIdle
    <3> QED  BY <3>1
  <2>2. billed' + unbooked + calls[c].owed = billed + unbooked' + AtRest.owed
    BY <1>1, AtRestIsIdle
  <2> QED  BY <1>2, <1>4, <2>1, <2>2, AtRestIsIdle, QuietMove
<1> QED  BY <1>3, <1>4 DEF Retried

LEMMA GuardedStep ==
    ASSUME RouterIInv, NEW c \in ModelCall, Guarded(c)
    PROVE  RouterIInv'
<1>1. /\ calls[c] \in CallState /\ RightCall(calls[c]) /\ skipping \in BOOLEAN
      /\ billed \in Nat /\ unbooked \in Nat /\ calls[c].at = "admitted" /\ calls[c].owed = 0
  BY RouterTyped DEF Guarded, RightCall
<1>2. UNCHANGED <<ledger, skipping, alarm, warned, billed, unbooked>>
  BY DEF Guarded
<1>3. CASE calls' = [calls EXCEPT ![c] = AtRest]
  <2>1. ASSUME NEW who \in Payer PROVE Share(who, AtRest) <= Share(who, calls[c])
    <3>1. Share(who, calls[c]) \in 0 .. Most /\ Most \in Nat
      BY <1>1, Dues, RouterAssumption DEF Most
    <3> QED  BY <3>1, AtRestIsIdle
  <2>2. billed' + unbooked + calls[c].owed = billed + unbooked' + AtRest.owed
    BY <1>1, <1>2, AtRestIsIdle
  <2> QED  BY <1>1, <1>2, <1>3, <2>1, <2>2, AtRestIsIdle, QuietMove
<1>4. CASE calls' = [calls EXCEPT ![c].at = "sent", ![c].attempt = 1]
  <2>. DEFINE r == [calls[c] EXCEPT !.at = "sent", !.attempt = 1]
  <2>1. r \in CallState
    <3>1. 1 \in 0 .. Attempts
      BY RouterAssumption
    <3> QED  BY <1>1, <3>1 DEF CallState
  <2>2. r.at = "sent" /\ r.who = calls[c].who /\ r.owed = calls[c].owed /\ r.attempt = 1
    BY <1>1 DEF CallState
  <2>3. calls' = [calls EXCEPT ![c] = r]
    BY <1>4
  <2> HIDE DEF r
  <2>4. RightCall(r)
    BY <1>1, <2>2 DEF RightCall
  <2>5. \A who \in Payer : Share(who, r) <= Share(who, calls[c])
    BY <1>1, <2>1, <2>2, NextAttempt
  <2>6. billed' + unbooked + calls[c].owed = billed + unbooked' + r.owed
    BY <1>1, <1>2, <2>2
  <2> QED  BY <1>1, <1>2, <2>1, <2>3, <2>4, <2>5, <2>6, QuietMove
<1> QED  BY <1>3, <1>4 DEF Guarded

LEMMA AnswersStep ==
    ASSUME RouterIInv, NEW c \in ModelCall, CallAnswers(c)
    PROVE  RouterIInv'
<1>1. /\ calls[c] \in CallState /\ RightCall(calls[c]) /\ skipping \in BOOLEAN
      /\ billed \in Nat /\ unbooked \in Nat /\ calls[c].at = "sent" /\ calls[c].owed = 0
  BY RouterTyped DEF CallAnswers, RightCall
<1>2. PICK cost \in Costs : /\ calls' = [calls EXCEPT ![c].at = "answered", ![c].owed = cost]
                            /\ billed' = billed + cost
  BY DEF CallAnswers
<1>3. UNCHANGED <<ledger, skipping, alarm, warned, unbooked>>
  BY DEF CallAnswers
<1>4. cost \in 0 .. MaxCost /\ cost \in Nat
  BY RouterAssumption DEF Costs
<1>. DEFINE r == [calls[c] EXCEPT !.at = "answered", !.owed = cost]
<1>5. r \in CallState
  BY <1>1, <1>4 DEF CallState
<1>6. r.at = "answered" /\ r.who = calls[c].who /\ r.owed = cost /\ r.attempt = calls[c].attempt
  BY <1>1 DEF CallState
<1>7. calls' = [calls EXCEPT ![c] = r]
  BY <1>2
<1> HIDE DEF r
<1>8. RightCall(r)
  BY <1>1, <1>6 DEF RightCall
<1>9. \A who \in Payer : Share(who, r) <= Share(who, calls[c])
  <2>1. DueAt(r) = DueAt(calls[c])
    BY <1>1, <1>6 DEF DueAt
  <2>2. \A who \in Payer : Share(who, r) = Share(who, calls[c]) /\ Share(who, calls[c]) \in 0 .. Most
    BY <1>1, <1>6, <2>1, Dues DEF Share
  <2>3. Most \in Nat
    BY RouterAssumption DEF Most
  <2> QED  BY <2>2, <2>3
<1>10. billed' \in Nat /\ billed' + unbooked + calls[c].owed = billed + unbooked' + r.owed
  BY <1>1, <1>2, <1>3, <1>4, <1>6
<1> QED  BY <1>1, <1>3, <1>5, <1>7, <1>8, <1>9, <1>10, QuietMove

LEMMA FailsStep ==
    ASSUME RouterIInv, NEW c \in ModelCall, Errs(c) \/ RecordRaises(c) \/ CountRaises(c)
    PROVE  RouterIInv'
<1>1. /\ calls[c] \in CallState /\ RightCall(calls[c]) /\ calls[c].owed \in Nat
      /\ billed \in Nat /\ unbooked \in Nat
  BY RouterTyped, RouterAssumption DEF CallState
<1>2. CASE Errs(c)
  <2>1. PICK cost \in Costs : billed' = billed + cost /\ unbooked' = unbooked + cost
    BY <1>2 DEF Errs
  <2>2. calls[c].owed = 0 /\ cost \in Nat
    BY <1>1, <1>2, RouterAssumption DEF Errs, RightCall, Costs
  <2>3. billed' \in Nat /\ unbooked' \in Nat /\ billed' + unbooked + calls[c].owed = billed + unbooked'
    BY <1>1, <2>1, <2>2
  <2>4. calls[c].at \in {"sent", "answered", "recorded"} /\ Retried(c) /\ UNCHANGED <<ledger, alarm, warned>>
    BY <1>2 DEF Errs
  <2> QED  BY <2>3, <2>4, RetriedMove
<1>3. CASE RecordRaises(c)
  <2>1. /\ unbooked' = unbooked + calls[c].owed /\ billed' = billed /\ Retried(c)
        /\ calls[c].at \in {"sent", "answered", "recorded"} /\ UNCHANGED <<ledger, alarm, warned>>
    BY <1>3 DEF RecordRaises
  <2>2. billed' \in Nat /\ unbooked' \in Nat /\ billed' + unbooked + calls[c].owed = billed + unbooked'
    BY <1>1, <2>1
  <2> QED  BY <2>1, <2>2, RetriedMove
<1>4. CASE CountRaises(c)
  <2>1. /\ unbooked' = unbooked /\ billed' = billed /\ Retried(c)
        /\ calls[c].at \in {"sent", "answered", "recorded"} /\ UNCHANGED <<ledger, alarm, warned>>
    BY <1>4 DEF CountRaises
  <2>2. calls[c].owed = 0
    BY <1>1, <1>4 DEF CountRaises, RightCall
  <2>3. billed' \in Nat /\ unbooked' \in Nat /\ billed' + unbooked + calls[c].owed = billed + unbooked'
    BY <1>1, <2>1, <2>2
  <2> QED  BY <2>1, <2>3, RetriedMove
<1> QED  BY <1>2, <1>3, <1>4

LEMMA RecordsStep ==
    ASSUME RouterIInv, NEW c \in ModelCall, RecordsSpend(c)
    PROVE  RouterIInv'
<1>1. /\ calls[c] \in CallState /\ RightCall(calls[c]) /\ skipping \in BOOLEAN /\ ledger \in Ledger
      /\ billed \in Nat /\ unbooked \in Nat /\ calls[c].at = "answered"
  BY RouterTyped DEF RecordsSpend
<1>2. UNCHANGED <<skipping, alarm, warned, billed, unbooked>>
  BY DEF RecordsSpend
<1>3. PICK owed : owed = calls[c].owed
  OBVIOUS
<1>4. PICK theirs : theirs = IF calls[c].who = "guest" THEN owed ELSE 0
  OBVIOUS
<1>5. owed \in Nat /\ owed <= MaxCost /\ MaxCost \in Nat /\ theirs \in Nat
  BY <1>1, <1>3, <1>4, RouterAssumption DEF CallState
<1>6. ledger' = [ledger EXCEPT !.spent = @ + owed, !.guest = @ + theirs]
  BY <1>3, <1>4 DEF RecordsSpend
<1>7. /\ ledger' \in Ledger /\ ledger'.alerted = ledger.alerted
      /\ ledger'.spent = ledger.spent + owed /\ ledger'.guest = ledger.guest + theirs
      /\ ledger.spent \in Nat /\ ledger.guest \in Nat
  <2>1. ledger.spent \in Nat /\ ledger.guest \in Nat
    BY <1>1 DEF Ledger
  <2>2. ledger.spent + owed \in Nat /\ ledger.guest + theirs \in Nat
    BY <1>5, <2>1
  <2>3. ledger' \in Ledger
    BY <1>1, <1>6, <2>2 DEF Ledger
  <2>4. /\ ledger'.alerted = ledger.alerted
        /\ ledger'.spent = ledger.spent + owed /\ ledger'.guest = ledger.guest + theirs
    BY <1>1, <1>6 DEF Ledger
  <2> QED  BY <2>1, <2>3, <2>4
<1>. DEFINE r == [calls[c] EXCEPT !.at = "recorded", !.owed = 0]
<1>8. /\ r \in CallState /\ r.at = "recorded" /\ r.who = calls[c].who /\ r.owed = 0
      /\ r.attempt = calls[c].attempt /\ r.attempt \in 0 .. Attempts
  <2>1. 0 \in 0 .. MaxCost
    BY <1>5
  <2>2. r \in CallState
    BY <1>1, <2>1 DEF CallState
  <2>3. /\ r.at = "recorded" /\ r.who = calls[c].who /\ r.owed = 0 /\ r.attempt = calls[c].attempt
        /\ calls[c].attempt \in 0 .. Attempts
    BY <1>1 DEF CallState
  <2> QED  BY <2>2, <2>3
<1>9. calls' = [calls EXCEPT ![c] = r]
  BY DEF RecordsSpend
<1> HIDE DEF r
<1>10. RightCall(r)
  BY <1>1, <1>8 DEF RightCall
<1>11. billed' + ledger.spent + unbooked + calls[c].owed = billed + ledger'.spent + unbooked' + r.owed
  BY <1>1, <1>2, <1>3, <1>5, <1>7, <1>8
<1>12. DueAt(calls[c]) = DueAt(r) + MaxCost /\ DueAt(r) \in Nat
  <2>1. /\ DueAt(calls[c]) = (Attempts - r.attempt + 1) * MaxCost
        /\ DueAt(r) = (Attempts - r.attempt) * MaxCost
    BY <1>1, <1>8 DEF DueAt
  <2> QED  BY <1>8, <2>1, AttemptsLeft
<1>13. ledger'.spent + Share("owner", r) <= ledger.spent + Share("owner", calls[c])
  <2>1. Share("owner", r) = DueAt(r) /\ Share("owner", calls[c]) = DueAt(calls[c])
    BY DEF Share
  <2> QED  BY <1>5, <1>7, <1>12, <2>1
<1>14. ledger'.guest + Share("guest", r) <= ledger.guest + Share("guest", calls[c])
  <2>1. CASE calls[c].who = "guest"
    <3>1. Share("guest", r) = DueAt(r) /\ Share("guest", calls[c]) = DueAt(calls[c]) /\ theirs = owed
      BY <1>4, <1>8, <2>1 DEF Share
    <3> QED  BY <1>5, <1>7, <1>12, <3>1
  <2>2. CASE calls[c].who # "guest"
    <3>1. Share("guest", r) = 0 /\ Share("guest", calls[c]) = 0 /\ theirs = 0
      BY <1>4, <1>8, <2>2 DEF Share
    <3> QED  BY <1>7, <3>1
  <2> QED  BY <2>1, <2>2
<1> QED  BY <1>1, <1>2, <1>7, <1>8, <1>9, <1>10, <1>11, <1>13, <1>14, CallMoves

LEMMA CountsStep ==
    ASSUME RouterIInv, NEW c \in ModelCall, Counts(c)
    PROVE  RouterIInv'
<1>1. /\ calls[c] \in CallState /\ RightCall(calls[c]) /\ skipping \in BOOLEAN /\ ledger \in Ledger
      /\ billed \in Nat /\ unbooked \in Nat /\ calls[c].at = "recorded" /\ calls[c].owed = 0
  BY RouterTyped DEF Counts, RightCall
<1>2. UNCHANGED <<skipping, alarm, warned, billed, unbooked>> /\ calls' = [calls EXCEPT ![c] = AtRest]
  BY DEF Counts
<1>3. PICK n \in {0, 1} : ledger' = [ledger EXCEPT !.tokens = IF @ < MaxTokens THEN @ + n ELSE @]
  BY DEF Counts
<1>4. /\ ledger' \in Ledger /\ ledger'.alerted = ledger.alerted
      /\ ledger'.spent = ledger.spent /\ ledger'.guest = ledger.guest
      /\ ledger.spent \in Nat /\ ledger.guest \in Nat
  <2>1. MaxTokens \in Nat /\ ledger.tokens \in 0 .. MaxTokens
    BY <1>1, RouterAssumption DEF Ledger
  <2>2. (IF ledger.tokens < MaxTokens THEN ledger.tokens + n ELSE ledger.tokens) \in 0 .. MaxTokens
    BY <2>1
  <2> QED  BY <1>1, <1>3, <2>2 DEF Ledger
<1>5. billed' + ledger.spent + unbooked + calls[c].owed
          = billed + ledger'.spent + unbooked' + AtRest.owed
  BY <1>1, <1>2, <1>4, AtRestIsIdle
<1>6. ASSUME NEW who \in Payer PROVE Share(who, AtRest) = 0 /\ Share(who, calls[c]) \in Nat
  <2>1. Most \in Nat /\ Share(who, calls[c]) \in 0 .. Most
    BY <1>1, Dues, RouterAssumption DEF Most
  <2> QED  BY <2>1, AtRestIsIdle
<1>7. /\ ledger'.spent + Share("owner", AtRest) <= ledger.spent + Share("owner", calls[c])
      /\ ledger'.guest + Share("guest", AtRest) <= ledger.guest + Share("guest", calls[c])
  <2>1. "owner" \in Payer /\ "guest" \in Payer
    BY DEF Payer
  <2>2. /\ Share("owner", AtRest) = 0 /\ Share("owner", calls[c]) \in Nat
        /\ Share("guest", AtRest) = 0 /\ Share("guest", calls[c]) \in Nat
    BY <1>6, <2>1
  <2> QED  BY <1>4, <2>2
<1> QED  BY <1>1, <1>2, <1>4, <1>5, <1>7, AtRestIsIdle, CallMoves
-----------------------------------------------------------------------------
\* What leaves the calls and the sums of the ledger alone.
LEMMA BooksStay ==
    ASSUME RouterIInv, UNCHANGED <<calls, billed, unbooked>>, ledger' \in Ledger,
           ledger'.spent = ledger.spent, ledger'.guest = ledger.guest
    PROVE  /\ Accounting' /\ OverrunBounded'
           /\ \A c \in ModelCall : RightCall(calls'[c])
<1>1. Owed' = Owed
  BY DEF Owed
<1>2. StillToCome("owner")' = StillToCome("owner") /\ StillToCome("guest")' = StillToCome("guest")
  BY DEF StillToCome, MayCost
<1> QED
  BY <1>1, <1>2 DEF RouterIInv, RouterInv, Accounting, OverrunBounded

LEMMA WarningsStep ==
    ASSUME RouterIInv,
           \/ CoolsOff
           \/ \E t \in Turn, k \in Kinds : TurnNotices(t, k)
           \/ \E t \in Turn, who \in Payer : Warns(t, who)
    PROVE  RouterIInv'
<1>. USE DEF RouterIInv, RouterInv
<1>1. /\ ledger \in Ledger /\ alarm \in [Turn -> Kinds \cup {"nothing", "quota of yesterday"}]
      /\ warned \subseteq Kinds \X Payer \X Turn
  BY RouterTyped DEF RouterTypeOK
<1>2. CASE CoolsOff
  <2>1. Accounting' /\ OverrunBounded' /\ \A c \in ModelCall : RightCall(calls'[c])
    BY <1>1, <1>2, BooksStay DEF CoolsOff
  <2>2. RouterTypeOK' /\ WarnedOnce'
    BY <1>2 DEF CoolsOff, RouterTypeOK, WarnedOnce
  <2> QED  BY <2>1, <2>2
<1>3. ASSUME NEW t \in Turn, NEW k \in Kinds, TurnNotices(t, k) PROVE RouterIInv'
  <2>1. Accounting' /\ OverrunBounded' /\ \A c \in ModelCall : RightCall(calls'[c])
    BY <1>1, <1>3, BooksStay DEF TurnNotices
  <2>2. WarnedOnce'
    BY <1>3 DEF TurnNotices, WarnedOnce
  <2>3. RouterTypeOK'
    BY <1>3 DEF TurnNotices, RouterTypeOK
  <2> QED  BY <2>1, <2>2, <2>3
<1>4. ASSUME NEW t \in Turn, NEW who \in Payer, Warns(t, who) PROVE RouterIInv'
  <2>1. alarm' \in [Turn -> Kinds \cup {"nothing", "quota of yesterday"}]
    BY <1>1, <1>4 DEF Warns
  <2>2. CASE UNCHANGED <<ledger, warned>>
    <3>1. Accounting' /\ OverrunBounded' /\ \A c \in ModelCall : RightCall(calls'[c])
      BY <1>1, <1>4, <2>2, BooksStay DEF Warns
    <3>2. WarnedOnce'
      BY <2>2 DEF WarnedOnce
    <3>3. RouterTypeOK'
      BY <1>4, <2>1, <2>2 DEF Warns, RouterTypeOK
    <3> QED  BY <3>1, <3>2, <3>3
  <2>3. CASE /\ ledger' = [ledger EXCEPT !.alerted = @ \cup {alarm[t]}]
             /\ warned' = warned \cup {<<alarm[t], who, t>>}
             /\ alarm[t] \notin ledger.alerted \cup {"quota of yesterday"}
    <3>1. alarm[t] \in Kinds
      BY <1>1, <1>4, <2>3 DEF Warns
    <3>2. /\ ledger' \in Ledger /\ ledger'.spent = ledger.spent /\ ledger'.guest = ledger.guest
          /\ ledger'.alerted = ledger.alerted \cup {alarm[t]}
      BY <1>1, <2>3, <3>1 DEF Ledger
    <3>3. Accounting' /\ OverrunBounded' /\ \A c \in ModelCall : RightCall(calls'[c])
      BY <1>4, <3>2, BooksStay DEF Warns
    <3>4. WarnedOnce'
      <4>1. PICK w : w = <<alarm[t], who, t>>
        OBVIOUS
      <4>2. w[1] = alarm[t] /\ warned' = warned \cup {w} /\ w[1] \notin ledger.alerted
        BY <2>3, <4>1
      <4>3. /\ \A u, v \in warned : u[1] = v[1] => u = v
            /\ {v[1] : v \in warned} = ledger.alerted
        BY DEF WarnedOnce
      <4>4. \A v \in warned : v[1] # w[1]
        BY <4>2, <4>3
      <4>5. \A u, v \in warned' : u[1] = v[1] => u = v
        BY <4>2, <4>3, <4>4
      <4>6. {v[1] : v \in warned'} = ledger'.alerted
        BY <3>2, <4>2, <4>3
      <4> QED  BY <4>5, <4>6 DEF WarnedOnce
    <3>5. RouterTypeOK'
      <4>1. warned' \subseteq Kinds \X Payer \X Turn
        <5>1. <<alarm[t], who, t>> \in Kinds \X Payer \X Turn
          BY <1>4, <3>1
        <5> QED  BY <1>1, <2>3, <5>1
      <4>2. UNCHANGED <<calls, skipping, billed, unbooked>>
        BY <1>4 DEF Warns
      <4> QED  BY <2>1, <3>2, <4>1, <4>2 DEF RouterTypeOK, Ledger
    <3> QED  BY <3>3, <3>4, <3>5
  <2> QED  BY <1>4, <2>2, <2>3 DEF Warns
<1> QED  BY <1>2, <1>3, <1>4

\* Where no call is under way nothing is owed and nothing is to come.
LEMMA NothingUnderWay ==
    ASSUME calls' = [c \in ModelCall |-> AtRest]
    PROVE  /\ calls' \in [ModelCall -> CallState] /\ \A c \in ModelCall : RightCall(calls'[c])
           /\ Owed' = 0
           /\ \A who \in Payer : StillToCome(who)' = 0
<1>1. IsFiniteSet(ModelCall) /\ 0 \in Nat /\ Cardinality(ModelCall) \in Nat
  BY RouterAssumption, FS_CardinalityType
<1>2. calls' \in [ModelCall -> CallState] /\ \A c \in ModelCall : calls'[c] = AtRest
  BY AtRestIsIdle
<1>3. ASSUME NEW f \in [ModelCall -> 0 .. 0] PROVE SumFunction(f) = 0
  <2>1. SumFunction(f) \in Nat /\ SumFunction(f) <= Cardinality(ModelCall) * 0
    BY <1>1, SumBounded
  <2> QED  BY <1>1, <2>1
<1>4. Owed' = 0
  <2>1. PICK f : f = Owes'
    OBVIOUS
  <2>2. f \in [ModelCall -> 0 .. 0]
    BY <1>2, <2>1, AtRestIsIdle DEF Owes
  <2> QED  BY <1>3, <2>1, <2>2, NextSums
<1>5. ASSUME NEW who \in Payer PROVE StillToCome(who)' = 0
  <2>1. PICK f : f = Coming(who)'
    OBVIOUS
  <2>2. f \in [ModelCall -> 0 .. 0]
    BY <1>2, <2>1, AtRestIsIdle DEF Coming
  <2> QED  BY <1>3, <2>1, <2>2, NextSums
<1> QED  BY <1>2, <1>4, <1>5, AtRestIsIdle

LEMMA RebootsStep ==
    ASSUME RouterIInv, Reboots \/ DayTurns
    PROVE  RouterIInv'
<1>. USE DEF RouterIInv, RouterInv
<1>1. /\ ledger \in Ledger /\ billed \in Nat /\ unbooked \in Nat /\ Owed \in Nat
      /\ alarm \in [Turn -> Kinds \cup {"nothing", "quota of yesterday"}]
      /\ ledger.spent \in Nat /\ ledger.guest \in Nat /\ Room \in Nat
      /\ Budget \in Nat \ {0} /\ GuestCap \in Nat \ {0}
      /\ \A who \in Payer : StillToCome(who) \in Nat /\ StillToCome(who) <= Room
  <2>1. /\ Owed \in Nat
        /\ \A who \in Payer : StillToCome(who) \in Nat /\ StillToCome(who) <= Room
    BY RouterTyped, RoomForAll DEF Room
  <2> QED  BY <2>1, RouterTyped, RouterAssumption DEF RouterTypeOK
<1>2. "owner" \in Payer /\ "guest" \in Payer
  BY DEF Payer
<1>3. CASE Reboots
  <2>1. /\ calls' = [c \in ModelCall |-> AtRest] /\ skipping' = FALSE
        /\ alarm' = [t \in Turn |-> "nothing"] /\ unbooked' = unbooked + Owed
        /\ UNCHANGED <<ledger, warned, billed>>
    BY <1>3 DEF Reboots
  <2>2. /\ calls' \in [ModelCall -> CallState] /\ \A c \in ModelCall : RightCall(calls'[c])
        /\ Owed' = 0 /\ StillToCome("owner")' = 0 /\ StillToCome("guest")' = 0
    BY <1>2, <2>1, NothingUnderWay
  <2>3. Accounting'
    <3>1. billed = ledger.spent + unbooked + Owed
      BY DEF Accounting
    <3>2. /\ billed \in Nat /\ unbooked \in Nat /\ Owed \in Nat /\ ledger.spent \in Nat
          /\ billed' = billed /\ ledger' = ledger /\ unbooked' = unbooked + Owed /\ Owed' = 0
      BY <1>1, <2>1, <2>2
    <3>3. billed' = ledger'.spent + unbooked' + Owed'
      BY ONLY <3>1, <3>2
    <3> QED  BY <3>3 DEF Accounting
  <2>4. OverrunBounded'
    <3>1. /\ ledger.spent + StillToCome("owner") < Budget + Room
          /\ ledger.guest + StillToCome("guest") < GuestCap + Room
      BY DEF OverrunBounded, Room
    <3>2. /\ StillToCome("owner") \in Nat /\ StillToCome("guest") \in Nat
      BY <1>1, <1>2
    <3>3. /\ ledger'.spent + StillToCome("owner")' < Budget + Room
          /\ ledger'.guest + StillToCome("guest")' < GuestCap + Room
      <4>1. ledger' = ledger /\ StillToCome("owner")' = 0 /\ StillToCome("guest")' = 0
        BY <2>1, <2>2
      <4>2. /\ ledger.spent \in Nat /\ ledger.guest \in Nat /\ Room \in Nat
            /\ Budget \in Nat /\ GuestCap \in Nat
        BY <1>1
      <4> QED  BY ONLY <3>1, <3>2, <4>1, <4>2
    <3> QED  BY <3>3 DEF OverrunBounded, Room
  <2>5. RouterTypeOK' /\ WarnedOnce'
    <3>1. unbooked' \in Nat /\ alarm' \in [Turn -> Kinds \cup {"nothing", "quota of yesterday"}]
      <4>1. unbooked \in Nat /\ Owed \in Nat
        BY <1>1
      <4>2. unbooked' \in Nat
        BY ONLY <2>1, <4>1
      <4>3. alarm' \in [Turn -> Kinds \cup {"nothing", "quota of yesterday"}]
        BY ONLY <2>1
      <4> QED  BY <4>2, <4>3
    <3> QED  BY <2>1, <2>2, <3>1 DEF RouterTypeOK, WarnedOnce, CallState
  <2> QED  BY <2>2, <2>3, <2>4, <2>5
<1>4. CASE DayTurns
  <2>1. /\ ledger' = NewDay /\ warned' = {} /\ unbooked' = 0 /\ billed' = Owed
        /\ alarm' = [t \in Turn |-> IF alarm[t] = "quota" THEN "quota of yesterday" ELSE alarm[t]]
        /\ UNCHANGED <<calls, skipping>>
    BY <1>4 DEF DayTurns
  <2>2. /\ Owed' = Owed /\ StillToCome("owner")' = StillToCome("owner")
        /\ StillToCome("guest")' = StillToCome("guest")
    <3>1. Owed' = Owed
      BY <2>1 DEF Owed
    <3>2. calls' = calls
      BY <2>1
    <3>3. ASSUME NEW who PROVE StillToCome(who)' = StillToCome(who)
      BY ONLY <3>2 DEF StillToCome, MayCost
    <3> QED  BY <3>1, <3>3
  <2>3. /\ NewDay \in Ledger /\ NewDay.spent = 0 /\ NewDay.guest = 0 /\ NewDay.alerted = {}
    BY RouterAssumption DEF NewDay, Ledger
  <2>4. Accounting'
    <3>1. /\ Owed \in Nat /\ billed' = Owed /\ Owed' = Owed /\ unbooked' = 0
          /\ ledger'.spent = 0
      BY <1>1, <2>1, <2>2, <2>3
    <3>2. billed' = ledger'.spent + unbooked' + Owed'
      BY ONLY <3>1
    <3> QED  BY <3>2 DEF Accounting
  <2>5. OverrunBounded'
    <3>1. /\ StillToCome("owner") \in Nat /\ StillToCome("owner") <= Room
          /\ StillToCome("guest") \in Nat /\ StillToCome("guest") <= Room
      BY <1>1, <1>2
    <3>2. /\ ledger'.spent + StillToCome("owner")' < Budget + Room
          /\ ledger'.guest + StillToCome("guest")' < GuestCap + Room
      <4>1. ledger'.spent = 0 /\ ledger'.guest = 0
        BY <2>1, <2>3
      <4>2. Room \in Nat /\ Budget \in Nat \ {0} /\ GuestCap \in Nat \ {0}
        BY <1>1
      <4> QED  BY ONLY <2>2, <3>1, <4>1, <4>2
    <3> QED  BY <3>2 DEF OverrunBounded, Room
  <2>6. WarnedOnce'
    BY <2>1, <2>3 DEF WarnedOnce
  <2>7. RouterTypeOK'
    <3>1. alarm' \in [Turn -> Kinds \cup {"nothing", "quota of yesterday"}]
      BY <1>1, <2>1
    <3> QED  BY <1>1, <2>1, <2>3, <3>1 DEF RouterTypeOK, Ledger
  <2> QED  BY <2>1, <2>4, <2>5, <2>6, <2>7
<1> QED  BY <1>3, <1>4

LEMMA InitRouter == RouterInit => RouterIInv
<1>1. SUFFICES ASSUME RouterInit PROVE RouterIInv
  OBVIOUS
<1>2. calls = [c \in ModelCall |-> AtRest] /\ ledger = NewDay /\ billed = 0 /\ unbooked = 0
      /\ warned = {} /\ skipping = FALSE /\ alarm = [t \in Turn |-> "nothing"]
  BY <1>1 DEF RouterInit
<1>3. /\ NewDay \in Ledger /\ NewDay.spent = 0 /\ NewDay.guest = 0 /\ NewDay.alerted = {}
  BY RouterAssumption DEF NewDay, Ledger
<1>4. calls \in [ModelCall -> CallState] /\ \A c \in ModelCall : RightCall(calls[c])
  BY <1>2, AtRestIsIdle
<1>5. /\ Owed \in Nat
      /\ \A who \in Payer : StillToCome(who) \in Nat /\ StillToCome(who) <= Room
  BY <1>4, RoomForAll DEF Room
<1>6. Owed = 0
  <2>1. PICK f : f = Owes
    OBVIOUS
  <2>2. f \in [ModelCall -> 0 .. 0]
    BY <1>2, <2>1, AtRestIsIdle DEF Owes
  <2>3. SumFunction(f) \in Nat /\ SumFunction(f) <= Cardinality(ModelCall) * 0
    <3>1. IsFiniteSet(ModelCall) /\ 0 \in Nat
      BY RouterAssumption
    <3> QED  BY <2>2, <3>1, SumBounded
  <2>4. Cardinality(ModelCall) * 0 = 0
    BY RouterAssumption, FS_CardinalityType
  <2> QED  BY <2>1, <2>3, <2>4, SumsOfCalls
<1>7. Accounting
  BY <1>2, <1>3, <1>6 DEF Accounting
<1>8. OverrunBounded
  <2>1. "owner" \in Payer /\ "guest" \in Payer /\ Budget \in Nat \ {0} /\ GuestCap \in Nat \ {0}
    BY RouterAssumption DEF Payer
  <2>2. Room \in Nat
    <3>1. Cardinality(ModelCall) \in Nat /\ Attempts \in Nat /\ MaxCost \in Nat
      BY RouterAssumption, FS_CardinalityType
    <3> QED  BY <3>1 DEF Room
  <2>3. ledger.spent + StillToCome("owner") < Budget + Room /\ ledger.guest + StillToCome("guest") < GuestCap + Room
    BY <1>2, <1>3, <1>5, <2>1, <2>2
  <2> QED  BY <2>3 DEF OverrunBounded, Room
<1>9. RouterTypeOK /\ WarnedOnce
  <2>1. WarnedOnce
    BY <1>2, <1>3 DEF WarnedOnce
  <2>2. RouterTypeOK
    BY <1>2, <1>3, <1>4 DEF RouterTypeOK, CallState, Ledger
  <2> QED  BY <2>1, <2>2
<1> QED  BY <1>4, <1>7, <1>8, <1>9 DEF RouterIInv, RouterInv

LEMMA StepRouter == RouterIInv /\ [RouterNext]_routerVars => RouterIInv'
<1>1. SUFFICES ASSUME RouterIInv, [RouterNext]_routerVars PROVE RouterIInv'
  OBVIOUS
<1>2. ASSUME NEW c \in ModelCall, NEW who \in Payer, CallAsks(c, who) PROVE RouterIInv'
  BY <1>1, <1>2, AsksStep
<1>3. ASSUME NEW c \in ModelCall, Guarded(c) PROVE RouterIInv'
  BY <1>1, <1>3, GuardedStep
<1>4. ASSUME NEW c \in ModelCall, CallAnswers(c) PROVE RouterIInv'
  BY <1>1, <1>4, AnswersStep
<1>5. ASSUME NEW c \in ModelCall, Errs(c) \/ RecordRaises(c) \/ CountRaises(c) PROVE RouterIInv'
  BY <1>1, <1>5, FailsStep
<1>6. ASSUME NEW c \in ModelCall, RecordsSpend(c) PROVE RouterIInv'
  BY <1>1, <1>6, RecordsStep
<1>7. ASSUME NEW c \in ModelCall, Counts(c) PROVE RouterIInv'
  BY <1>1, <1>7, CountsStep
<1>8. ASSUME \/ CoolsOff
             \/ \E t \in Turn, k \in Kinds : TurnNotices(t, k)
             \/ \E t \in Turn, who \in Payer : Warns(t, who)
      PROVE  RouterIInv'
  BY <1>1, <1>8, WarningsStep
<1>9. ASSUME Reboots \/ DayTurns PROVE RouterIInv'
  BY <1>1, <1>9, RebootsStep
<1>10. CASE UNCHANGED routerVars
  <2>1. /\ UNCHANGED <<ledger, calls, billed, unbooked, skipping, alarm, warned>>
        /\ ledger \in Ledger
    BY <1>1, <1>10, RouterTyped DEF routerVars
  <2>2. Accounting' /\ OverrunBounded' /\ \A c \in ModelCall : RightCall(calls'[c])
    BY <1>1, <2>1, BooksStay
  <2>3. RouterTypeOK' /\ WarnedOnce'
    BY <1>1, <2>1 DEF RouterIInv, RouterInv, RouterTypeOK, WarnedOnce
  <2> QED  BY <2>2, <2>3 DEF RouterIInv, RouterInv
<1> QED
  BY <1>1, <1>2, <1>3, <1>4, <1>5, <1>6, <1>7, <1>8, <1>9, <1>10 DEF RouterNext

\* The ledger agrees with the bill but for what is in flight or was lost; the
\* budget and a guest's cap are passed by no more than the attempts in flight
\* when they were reached; and a day is warned about once for each limit: for any
\* number of calls and turns, restarts and failed writes (model_router/router.py).
THEOREM BillsAddUp == RouterSpec => []RouterInv
<1>1. RouterIInv => RouterInv
  BY DEF RouterIInv
<1> QED  BY <1>1, InitRouter, StepRouter, PTL DEF RouterSpec
=============================================================================

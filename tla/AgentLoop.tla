----------------------------- MODULE AgentLoop -----------------------------
(***************************************************************************)
(* One message through the model-driven tool loop (agents/agent_loop.py)   *)
(* and down the tier chain (agents/orchestrator.py).  A tier runs at most  *)
(* MaxSteps decisions of its model.  A decision is a reply, which the      *)
(* rails may send back for another try, or a tool call, which the guards   *)
(* may refuse.  A tier that cannot finish hands the whole message to the   *)
(* next tier, which starts again with an empty transcript.  The kill       *)
(* switch is a file that anybody may touch at any moment.                  *)
(***************************************************************************)
EXTENDS Naturals, Sequences, FiniteSets

CONSTANTS
  Reads,      \* calls (a tool with its arguments) of tools in _READ_ONLY_TOOLS
  Writes,     \* calls of state-changing tools that run without a confirmation
  Asking,      \* calls of tools that ask the owner first
  Searches,   \* the web.search calls
  Untrusted,  \* the reads whose results are third-party text (taint.py)
  Listings,   \* the reads of DIRECT_RENDER
  Native,     \* calls whose executor reaches neither run_tool nor run_skill
  Denied,     \* calls outside the viewer's stage
  Drafts,     \* the draft replies the model may write, see DraftsAssumption
  Tiers,      \* how many tiers tier_chain() returns
  MaxSteps    \* _MAX_STEPS

Call == Reads \cup Writes \cup Asking
Reasons == {"", "ambiguous_referent", "missing_user_fact", "capability_missing", "other"}
Marks == {"who", "asks", "claims", "narrates", "lists"}
Rails == {"contract", "referent", "deflection", "falsehood"}

ASSUME CallsAssumption ==
  /\ Reads \cap Writes = {} /\ Reads \cap Asking = {} /\ Writes \cap Asking = {}
  /\ Searches \subseteq Untrusted /\ Untrusted \subseteq Reads /\ Listings \subseteq Reads
  /\ Native \subseteq Reads \cup Writes /\ Denied \subseteq Call
ASSUME BoundsAssumption == Tiers \in Nat \ {0} /\ MaxSteps \in Nat \ {0}

\* What a draft reply looks like to the rails: the reason the model declares for
\* not answering ("answers" when it declares none), and which of the rails'
\* patterns the text matches.
ASSUME DraftsAssumption ==
  Drafts \subseteq [reason : Reasons \cup {"answers"}, marks : SUBSET Marks]

VARIABLES
  asked,    \* the turn: a scheduled (read only) run? a plain "list my ..."? is one person named?
  tier,     \* the tier that is running, 1 .. Tiers
  loop,     \* the tier's local variables, a record
  killed,   \* the kill switch file exists
  answer,   \* how the turn ended, "none" while it runs
  landed,   \* history: how often each call changed the world
  tried     \* history: the writes sent and the confirmations asked while third-party
            \* text was in the transcript

loopVars == <<asked, tier, loop, killed, answer, landed, tried>>

\* The local variables of _run_inner when a tier starts.  "text" and "drafted"
\* are history: third-party text is in the transcript; the last decision was a reply.
Fresh == [on |-> FALSE, step |-> 0, malformed |-> 0, seen |-> [c \in Call |-> 0],
          fixes |-> [r \in Rails |-> 0], challenged |-> {}, ran |-> FALSE, names |-> {},
          wrote |-> FALSE, tainted |-> FALSE, searches |-> 0, text |-> FALSE,
          drafted |-> FALSE]

LoopInit ==
  /\ asked \in [readOnly : BOOLEAN, plain : BOOLEAN, sole : BOOLEAN]
  /\ tier = 1 /\ loop = Fresh /\ killed = FALSE /\ answer = "none"
  /\ landed = [c \in Call |-> 0] /\ tried = {}

Ends == {"reply", "claim", "direct", "ask", "outage", "kill"}
LoopState ==
  [on : BOOLEAN, step : 0..MaxSteps, malformed : 0..1, seen : [Call -> 0..2],
   fixes : [Rails -> 0..3], challenged : SUBSET Reasons, ran : BOOLEAN,
   names : SUBSET Call, wrote : BOOLEAN, tainted : BOOLEAN, searches : 0..2,
   text : BOOLEAN, drafted : BOOLEAN]

\* The types of the variables.
LoopTypeOK ==
  /\ asked \in [readOnly : BOOLEAN, plain : BOOLEAN, sole : BOOLEAN]
  /\ tier \in 1..Tiers /\ loop \in LoopState /\ killed \in BOOLEAN
  /\ answer \in Ends \cup {"none"}
  /\ landed \in [Call -> Nat] /\ tried \subseteq Call

----------------------------------------------------------------------------
(* The frame of a tier *)

Running == answer = "none" /\ loop.on /\ loop.step < MaxSteps
Last == loop.step = MaxSteps - 1
Quiet == UNCHANGED <<asked, killed, landed, tried>>

\* AgentUnavailable: the next tier takes the message from the start, or, when
\* none is left, the honest outage.
FailTier ==
  IF tier < Tiers
    THEN tier' = tier + 1 /\ loop' = Fresh /\ UNCHANGED answer
    ELSE answer' = "outage" /\ UNCHANGED <<tier, loop>>

Finish(how) == answer' = how /\ UNCHANGED <<tier, loop>>

\* The next pass of the for loop, with l for local variables.
Continue(l) == loop' = [l EXCEPT !.step = @ + 1] /\ UNCHANGED <<tier, answer>>

\* A tier starts: the kill switch is read once, here.
Enter ==
  /\ answer = "none" /\ ~loop.on
  /\ IF killed THEN Finish("kill")
     ELSE loop' = [loop EXCEPT !.on = TRUE] /\ UNCHANGED <<tier, answer>>
  /\ Quiet

\* A slip: the last tier has no cap.
SlipStepCap == answer = "none" /\ loop.on /\ loop.step = MaxSteps /\ tier < Tiers /\ FailTier /\ Quiet

\* The for loop runs out.
StepCap == answer = "none" /\ loop.on /\ loop.step = MaxSteps /\ FailTier /\ Quiet

\* The provider fails, or an unexpected exception leaves the loop.
ModelError == Running /\ FailTier /\ Quiet

\* The decision is no JSON object, or names no tool: one more try, then the tier ends.
Malformed ==
  /\ Running
  /\ IF loop.malformed = 1 THEN FailTier
     ELSE Continue([loop EXCEPT !.malformed = 1, !.drafted = FALSE])
  /\ Quiet

EmptyReply == Running /\ FailTier /\ Quiet

----------------------------------------------------------------------------
(* A reply and the rails that may send it back, in the order of the code *)

Contract(d) ==
  /\ d.reason # "answers" /\ loop.fixes["contract"] < 2 /\ ~Last
  /\ d.reason \notin loop.challenged /\ d.reason # "missing_user_fact"
  /\ d.reason = "ambiguous_referent" => asked.sole

Referent(d) ==
  "who" \in d.marks /\ loop.fixes["referent"] < 1 /\ ~Last /\ asked.sole

Deflection(d) ==
  "asks" \in d.marks /\ loop.fixes["deflection"] < 2 /\ ~asked.readOnly /\ ~Last

\* The draft claims or promises a write, narrates a lookup or recites a listing
\* that no tool call of this tier stands behind.
Unbacked(d) ==
  \/ "claims" \in d.marks /\ ~asked.readOnly /\ ~loop.wrote
  \/ "narrates" \in d.marks /\ ~loop.ran
  \/ "lists" \in d.marks /\ ~asked.readOnly /\ loop.names \cap Listings = {}

Falsehood(d) == Unbacked(d) /\ loop.fixes["falsehood"] < 3 /\ ~Last

\* The first rail that catches the draft, "none" when it stands.
Caught(d) ==
  IF Contract(d) THEN "contract"
  ELSE IF Referent(d) THEN "referent"
  ELSE IF Deflection(d) THEN "deflection"
  ELSE IF Falsehood(d) THEN "falsehood" ELSE "none"

SendBack(d) ==
  /\ Running /\ Caught(d) # "none"
  /\ Continue([loop EXCEPT !.fixes[Caught(d)] = @ + 1, !.drafted = TRUE,
                           !.challenged = IF Caught(d) = "contract"
                                          THEN @ \cup ({d.reason} \ {""}) ELSE @])
  /\ Quiet

Reply(d) ==
  /\ Running /\ Caught(d) = "none"
  /\ Finish(IF Unbacked(d) /\ "claims" \in d.marks THEN "claim" ELSE "reply")
  /\ Quiet

----------------------------------------------------------------------------
(* A tool call *)

\* The guards that answer a call with a SYSTEM line instead of running it.
Refused(c) ==
  \/ asked.readOnly /\ c \notin Reads
  \/ c \in Denied
  \/ c \in Searches /\ loop.searches >= 2
  \/ loop.tainted /\ c \notin Reads

Refuse(c) == Running /\ Refused(c) /\ Continue([loop EXCEPT !.drafted = FALSE]) /\ Quiet

\* The same call a second time is answered "its result is above", a third ends the tier.
Repeat(c) ==
  /\ Running /\ ~Refused(c) /\ loop.seen[c] > 0
  /\ IF loop.seen[c] = 2 THEN FailTier
     ELSE Continue([loop EXCEPT !.seen[c] = 2, !.drafted = FALSE])
  /\ Quiet

\* The local variables once the call is about to run.
Started(c) == [loop EXCEPT !.seen[c] = 1, !.ran = TRUE, !.drafted = FALSE,
                           !.searches = IF c \in Searches THEN @ + 1 ELSE @]

MayRun(c) == Running /\ ~Refused(c) /\ loop.seen[c] = 0
\* The kernel reads the kill switch at every call that passes through it.
Stopped(c) == killed /\ c \notin Native

\* The kernel finds the kill switch engaged; the turn ends with that notice.
Halted(c) == MayRun(c) /\ Stopped(c) /\ Finish("kill") /\ Quiet

\* The tool asks for a confirmation: the call is stashed (module Confirm) and
\* the turn ends with the question.
AskOwner(c) ==
  /\ MayRun(c) /\ ~Stopped(c) /\ c \in Asking
  /\ Finish("ask")
  /\ tried' = IF loop.text THEN tried \cup {c} ELSE tried
  /\ UNCHANGED <<asked, killed, landed>>

\* The executor renders a plain listing itself, unless a tool already ran.
Rendered(c, l) == ~l.ran /\ asked.plain /\ c \in Listings

\* A slip: a call that failed taints nothing.
SlipAfter(c, l, error) ==
  [l EXCEPT !.names = @ \cup {c}, !.text = @ \/ c \in Untrusted,
            !.wrote = @ \/ (c \notin Reads /\ ~error),
            !.tainted = @ \/ (c \in Untrusted /\ ~error)]

\* The local variables after the call, "error" or not.
After(c, l, error) ==
  [l EXCEPT !.names = @ \cup {c}, !.text = @ \/ c \in Untrusted,
            !.wrote = @ \/ (c \notin Reads /\ ~error),
            !.tainted = @ \/ c \in Untrusted]

\* The executor runs.  A result of its own making ("__direct_reply__") ends the
\* turn.  An error goes to the model; a write that timed out may have landed.  A
\* gated call runs without its confirmation only to refuse bad arguments.
Run(c, error, direct, lands) ==
  /\ MayRun(c) /\ ~Stopped(c)
  /\ c \in Asking => error /\ ~lands
  /\ error => ~direct
  /\ Rendered(c, Started(c)) /\ ~error => direct
  /\ c \in Reads => ~lands
  /\ c \in Writes /\ ~error => lands
  /\ landed' = IF lands THEN [landed EXCEPT ![c] = @ + 1] ELSE landed
  /\ tried' = IF loop.text /\ c \in Writes THEN tried \cup {c} ELSE tried
  /\ IF direct THEN Finish("direct") ELSE Continue(After(c, Started(c), error))
  /\ UNCHANGED <<asked, killed>>

----------------------------------------------------------------------------

\* Anybody touches or removes the KILL_SWITCH file.
Switch ==
  /\ answer = "none" /\ killed' = ~killed
  /\ UNCHANGED <<asked, tier, loop, answer, landed, tried>>

Decide ==
  \/ Enter \/ StepCap \/ ModelError \/ Malformed \/ EmptyReply
  \/ \E d \in Drafts : SendBack(d) \/ Reply(d)
  \/ \E c \in Call : Refuse(c) \/ Repeat(c) \/ Halted(c) \/ AskOwner(c)
  \/ \E c \in Call, error, direct, lands \in BOOLEAN : Run(c, error, direct, lands)

\* The turn is over.
Over == answer # "none" /\ UNCHANGED loopVars

LoopNext == Decide \/ Switch \/ Over
LoopSpec == LoopInit /\ [][LoopNext]_loopVars
\* A turn that can go on does: the coroutine is awaited until it returns, and
\* every model and tool call has a timeout.
LoopFairness == WF_loopVars(Decide)
FairLoopSpec == LoopSpec /\ LoopFairness

----------------------------------------------------------------------------
(* What the loop promises *)

\* Once third-party text is in the transcript, no tool that changes anything is
\* sent and no confirmation is asked for the rest of that tier's loop: an
\* injected snippet cannot act (the taint rail).
TaintLock == tried = {}

\* Within one tier a call with the same arguments changes the world at most
\* once, however often the model repeats it: after t tiers at most t times.
OncePerTier == \A c \in Call : landed[c] <= tier

\* A drafted reply is never thrown away by the step cap: on the last step the
\* draft stands ("a reply beats silence").
ReplyBeatsSilence == loop.on /\ loop.step = MaxSteps => ~loop.drafted

\* A reply that claims a write no tool of the tier stands behind reaches the
\* user only after three corrections, or on the last step.
ClaimsAreContested == answer = "claim" => loop.fixes["falsehood"] = 3 \/ Last

\* Every turn ends with something to say to the user.
Answered == []<>(answer # "none")

\* The inductive invariant: untrusted text in the transcript always has the
\* taint flag up, and a call lands in the running tier only if the tier has it
\* in calls_seen.
LoopInv ==
  /\ LoopTypeOK
  /\ loop.text => loop.tainted
  /\ TaintLock
  /\ OncePerTier
  /\ answer = "none" => \A c \in Call : loop.seen[c] = 0 => landed[c] < tier
  /\ loop.drafted => loop.step < MaxSteps
  /\ ClaimsAreContested

(* What a doc says of it, and the code does not do *)

\* The outage reply says "nothing was done" (docs/architecture.md:149).
NothingWasDone == answer = "outage" => \A c \in Call : landed[c] = 0

=============================================================================

-------------------------------- MODULE Facts --------------------------------
(***************************************************************************)
(* What is remembered (memory/engine.py).  The index file is the authority *)
(* and every change to it happens under its lock: the file is written,     *)
(* then, still under the lock, the change is mirrored to Postgres          *)
(* (store/facts.py) and the episodes that mention a forgotten fact are     *)
(* marked (store/episodes.py).  Postgres may fail at each of these, and    *)
(* the nightly sweep and the resync script read the index without a lock.  *)
(*                                                                         *)
(* A fact is an entry of the index, known by its position; its words are a *)
(* claim, and one claim supersedes or contradicts another by quoting it.   *)
(* The rows and the episodes never influence each other, so a behaviour    *)
(* follows one of the two.                                                 *)
(***************************************************************************)
EXTENDS Integers, Sequences, FiniteSets

CONSTANTS
    Claim,       \* what a fact may say
    Passing,     \* the claims that are short-term (meta "term": "short")
    Author,      \* whose turn a fact was approved in
    MaxFacts,    \* bound on the entries of the index
    MaxSlips     \* bound on the kinds of mishap in one behaviour

ASSUME FactsAssumption == Passing \subseteq Claim /\ MaxFacts \in Nat \ {0} /\ MaxSlips \in Nat

VARIABLES
    follow,      \* "rows" or "episodes"
    index,       \* memory/index.json
    rows,        \* the fact table: "none", "on" or "off" for each entry
    marked,      \* the mirror is marked stale (pg_sync_state.json)
    hidden,      \* for each claim, the facts whose forgetting hides its episodes
    held,        \* what the holder of the index lock has still to do
    receipt,     \* the newest forgetting in the action log, and what it took
    resweep,     \* the entries the nightly sweep read as forgotten
    slips        \* ghost: what went wrong, where the code has no repair

factVars == <<follow, index, rows, marked, hidden, held, receipt, resweep, slips>>

Ids    == DOMAIN index
Active == {i \in Ids : index[i].active}
Saying(c) == {i \in Active : index[i].claim = c}

Bounded == Cardinality(slips') <= MaxSlips

(* Forgotten: deactivated, neither superseded nor expired.                 *)
Forgotten == {i \in Ids : ~index[i].active /\ index[i].over = 0 /\ index[i].claim \notin Passing}

Released     == [changed |-> {}, effect |-> "none"]
Unheard  == [ids |-> {}, took |-> {}]
-----------------------------------------------------------------------------
FactsInit ==
    /\ follow \in {"rows", "episodes"}
    /\ index = <<>>
    /\ rows = [i \in 1 .. MaxFacts |-> "none"]
    /\ marked = FALSE
    /\ hidden = [c \in Claim |-> {}]
    /\ held = Released
    /\ receipt = Unheard /\ resweep = {} /\ slips = {}

(* One change of the index under its lock: the file is written, and what   *)
(* follows it stays to be done by the holder.                              *)
Saves(new, changed, effect) ==
    /\ held = Released /\ changed # {}
    /\ index' = new
    /\ held' = [changed |-> changed, effect |-> effect]
    /\ UNCHANGED <<follow, rows, marked, hidden>>

Drops(S)    == [i \in Ids |-> [index[i] EXCEPT !.active = @ /\ i \notin S]]
Under(S, j) == [i \in Ids |-> IF i \in S THEN [index[i] EXCEPT !.active = FALSE, !.over = j]
                                          ELSE index[i]]
Fact(c, who) == [claim |-> c, by |-> who, active |-> TRUE, over |-> 0]

(* A claim that is held is not added again.  What a new fact quotes and    *)
(* the same author said is superseded by it; what somebody else said stays *)
(* and is flagged as disputed (Review).                                    *)
AddsFact(c, who, over) ==
    LET old == Saying(over)
        new == Len(index) + 1
    IN  /\ Saying(c) = {} /\ over # c /\ Len(index) < MaxFacts
        /\ Saves(Append(Under({i \in old : index[i].by = who}, new), Fact(c, who)),
                 {new} \cup old, "none")
        /\ UNCHANGED <<receipt, resweep, slips>>

(* flag_disputed, clear_flag: the flags of two facts change, and are       *)
(* mirrored.                                                               *)
Reflags(S) ==
    /\ S \subseteq Ids /\ Cardinality(S) <= 2
    /\ Saves(index, S, "none")
    /\ UNCHANGED <<receipt, resweep, slips>>

Expires(S) ==
    /\ S \subseteq {i \in Active : index[i].claim \in Passing}
    /\ Saves(Drops(S), S, "none")
    /\ UNCHANGED <<receipt, resweep, slips>>

(* What matches is observed for the undo log; what is forgotten may be the *)
(* one of them that the owner's words single out (_narrow_forget).  The    *)
(* panel's forgetting is not in that log.                                  *)
Forgets(M, S) ==
    /\ M \subseteq Active /\ (S = M \/ (S \subseteq M /\ Cardinality(S) = 1))
    /\ Saves(Drops(S), S, "hide")
    /\ receipt' \in {[ids |-> M, took |-> S], receipt}
    /\ UNCHANGED <<resweep, slips>>

(* The undo of the newest forgetting reactivates what it finds inactive.   *)
Unforgets ==
    LET back == receipt.ids \ Active
    IN  /\ Saves([i \in Ids |-> [index[i] EXCEPT !.active = @ \/ i \in back]], back, "show")
        /\ receipt' = Unheard
        /\ slips' = IF back \subseteq receipt.took THEN slips ELSE slips \cup {"overreach"}
        /\ Bounded
        /\ UNCHANGED <<resweep>>

(* The fact to keep is looked up again under the lock: a scan proposed it, *)
(* and the owner's yes came later.                                         *)
Consolidates(keep, dups) ==
    /\ keep \in Active /\ dups \subseteq Active \ {keep}
    /\ Saves(Under(dups, keep), dups, "none")
    /\ UNCHANGED <<receipt, resweep, slips>>
-----------------------------------------------------------------------------
(* mirror_entries: the changed rows, and all of them first when the mirror *)
(* is marked; a failure, or the breaker after one, marks it.  A failure    *)
(* after the full pass leaves the rows right and the mark standing.        *)
Row(i) == IF index[i].active THEN "on" ELSE "off"
Mirrored(S) == [i \in 1 .. MaxFacts |-> IF i \in S THEN Row(i) ELSE rows[i]]

(* Slip: the rows that changed stand for all of them. *)
LandsWithoutRepair ==
    /\ rows' = Mirrored(held.changed) /\ marked' = FALSE

MirrorLands ==
    /\ rows' = Mirrored(IF marked THEN Ids ELSE held.changed)
    /\ marked' = FALSE

MirrorFails ==
    /\ marked' = TRUE
    /\ UNCHANGED rows \/ (marked /\ rows' = Mirrored(Ids))

Hiding(effect) ==
    [c \in Claim |->
        LET about == {i \in held.changed : index[i].claim = c}
        IN  CASE effect = "hide" -> hidden[c] \cup about
              [] effect = "show" -> hidden[c] \ about
              [] OTHER -> hidden[c]]

(* The holder finishes: mirror, episodes (best effort, apart from the      *)
(* mirror), and the lock is free.                                          *)
Finishes ==
    /\ held # Released /\ held' = Released
    /\ \/ /\ follow = "rows"
          /\ MirrorLands \/ MirrorFails
          /\ slips' = IF rows' = Mirrored(Ids) THEN slips \ {"cut", "outdated"} ELSE slips
          /\ UNCHANGED hidden
       \/ /\ follow = "episodes"
          /\ hidden' \in {hidden, Hiding(held.effect)}
          /\ slips' = slips \cup (IF held.effect = "show" /\ hidden' # Hiding("show") THEN {"stuck"} ELSE {})
          /\ UNCHANGED <<rows, marked>>
    /\ Bounded
    /\ UNCHANGED <<follow, index, receipt, resweep>>

(* The process ends with the file written and the rest undone.             *)
HolderDies ==
    /\ held # Released \/ resweep # {}
    /\ held' = Released /\ resweep' = {}
    /\ slips' = slips \cup (IF follow = "rows" /\ held # Released THEN {"cut"} ELSE {})
                     \cup (IF follow = "episodes" /\ held.effect = "show" THEN {"stuck"} ELSE {})
    /\ Bounded
    /\ UNCHANGED <<follow, index, rows, marked, hidden, receipt>>
-----------------------------------------------------------------------------
(* Yesterday's talk becomes an episode that mentions a claim, unmarked.    *)
Ingests(c) ==
    /\ follow = "episodes" /\ hidden[c] # {}
    /\ hidden' = [hidden EXCEPT ![c] = {}]
    /\ UNCHANGED <<follow, index, rows, marked, held, receipt, resweep, slips>>

(* Slip: only facts the index holds superseded are swept again. *)
ResweepSkips ==
    /\ follow = "episodes" /\ resweep = {}
    /\ resweep' = {i \in Ids : ~index[i].active /\ index[i].over # 0} /\ resweep' # {}
    /\ UNCHANGED <<follow, index, rows, marked, hidden, held, receipt, slips>>

(* resweep_forgotten reads the index without its lock...                   *)
ResweepReads ==
    /\ follow = "episodes"
    /\ resweep = {} /\ resweep' = Forgotten /\ Forgotten # {}
    /\ UNCHANGED <<follow, index, rows, marked, hidden, held, receipt, slips>>

(* ...and marks the episodes afterwards.                                   *)
ResweepMarks ==
    /\ resweep # {}
    /\ hidden' = [c \in Claim |-> hidden[c] \cup {i \in resweep : index[i].claim = c}]
    /\ slips' = IF resweep \subseteq Forgotten THEN slips ELSE slips \cup {"oversweep"}
    /\ resweep' = {}
    /\ UNCHANGED <<follow, index, rows, marked, held, receipt>>

ResweepFails ==
    /\ resweep # {} /\ resweep' = {}
    /\ UNCHANGED <<follow, index, rows, marked, hidden, held, receipt, slips>>

(* resync_facts.py, a process of its own: it reads the file without the    *)
(* lock and writes every row, those of facts deactivated meanwhile as it   *)
(* read them.  It does not touch the mark.                                 *)
Resyncs(late) ==
    /\ follow = "rows" /\ late \subseteq Ids \ Active /\ Ids # {}
    /\ rows' = [i \in 1 .. MaxFacts |-> IF i \in late THEN "on" ELSE Mirrored(Ids)[i]]
    /\ slips' = (slips \ {"cut", "outdated"}) \cup (IF late = {} THEN {} ELSE {"outdated"})
    /\ Bounded
    /\ UNCHANGED <<follow, index, marked, hidden, held, receipt, resweep>>
-----------------------------------------------------------------------------
FactsNext ==
    \/ \E c \in Claim, who \in Author, over \in Claim \cup {"nothing"} : AddsFact(c, who, over)
    \/ \E S \in SUBSET Ids : Reflags(S)
    \/ \E S \in SUBSET Active : Expires(S) \/ (\E T \in SUBSET S : Forgets(S, T))
                                \/ \E keep \in Ids : Consolidates(keep, S)
    \/ Unforgets \/ Finishes \/ HolderDies
    \/ \E c \in Claim : Ingests(c)
    \/ ResweepReads \/ ResweepMarks \/ ResweepFails
    \/ \E late \in SUBSET Ids : Resyncs(late)

(* A holder of the lock finishes or dies; the sweep runs every night, and  *)
(* Postgres is there on some of the nights.                                *)
FactsFairness ==
    /\ WF_factVars(Finishes) /\ WF_factVars(ResweepReads)
    /\ SF_factVars(ResweepMarks)

FactsSpec == FactsInit /\ [][FactsNext]_factVars /\ FactsFairness
-----------------------------------------------------------------------------
Subsets == SUBSET (1 .. MaxFacts)
Slips   == {"cut", "outdated", "overreach", "stuck", "oversweep"}

FactsTypeOK ==
    /\ follow \in {"rows", "episodes"}
    /\ Len(index) <= MaxFacts
    /\ \A i \in Ids : index[i] \in [claim : Claim, by : Author, active : BOOLEAN,
                                     over : 0 .. MaxFacts]
    /\ rows \in [1 .. MaxFacts -> {"none", "on", "off"}]
    /\ marked \in BOOLEAN /\ hidden \in [Claim -> Subsets]
    /\ held \in [changed : Subsets, effect : {"none", "hide", "show"}]
    /\ receipt \in [ids : Subsets, took : Subsets] /\ resweep \in Subsets
    /\ slips \subseteq Slips

(* While the mirror is trusted it says of every fact what the index says   *)
(* (facts.py:125-156): the exceptions are a process that died between the  *)
(* two writes, and a script that wrote what it had read before a change.   *)
TrustedRowsAreRight ==
    (follow = "rows" /\ held = Released /\ ~marked /\ slips \cap {"cut", "outdated"} = {})
        => \A i \in Ids : rows[i] = Row(i)

(* What superseded a fact can be followed to one that is held, or that the *)
(* owner forgot, or that expired: no group of facts hides behind itself    *)
(* (engine.py:604-630).  The exception is an undo that restored more than  *)
(* was forgotten.                                                          *)
SupersededLeadsOn ==
    "overreach" \notin slips =>
        \A S \in SUBSET {i \in Ids \ Active : index[i].over # 0} :
            S # {} => \E i \in S : index[i].over \notin S

(* What an undo restored can be recalled again, unless Postgres was out    *)
(* while it ran, the process ended there, or the nightly sweep had read it *)
(* as forgotten before (engine.py:633-687).                                *)
RestoredIsFindable ==
    (held = Released /\ slips \cap {"stuck", "oversweep"} = {})
        => \A c \in Claim : hidden[c] \cap Active = {}

FactsInv == FactsTypeOK /\ TrustedRowsAreRight /\ SupersededLeadsOn /\ RestoredIsFindable

(* The episodes of a forgotten fact are hidden in the end, whatever failed *)
(* when it was forgotten (engine.py:633-646).                              *)
ForgottenIsSwept ==
    \A i \in 1 .. MaxFacts :
        []<>(follow = "episodes" /\ i \in Forgotten => i \in hidden[index[i].claim])
=============================================================================

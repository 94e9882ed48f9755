-------------------------------- MODULE Review --------------------------------
(***************************************************************************)
(* What may become a fact or a rule, and on whose word (memory/store.py,   *)
(* review_scaling.py, extraction.py, conflicts.py, lessons.py).            *)
(*                                                                         *)
(* Whatever is extracted waits as a file of pending_review for the person  *)
(* whose turn it came from.  Once 200 reviews of the owner, nine of the    *)
(* last ten of them approvals, have earned it, two of three of the owner's *)
(* files carry a window of 24 hours after which the nightly sweep promotes *)
(* them, in a thread of its own beside the chat.  Disputes between two     *)
(* people and rules drafted from corrections wait in the same queue.       *)
(***************************************************************************)
EXTENDS Integers, Sequences, FiniteSets

CONSTANTS
    Saying,       \* what a fact may say
    Lesson,       \* fingerprints of groups of corrections: words of the first one in sight
    Teller, owner,
    About,        \* whose queue a dispute about a saying goes to (_subject_owner_for)
    Near,         \* pairs of sayings that say the same in other words
    Statement,    \* what messages may be found to state: <<who, what, what it replaces>>
    TotalNeeded, Trailing, HoldEvery,
    AutoRecent,   \* the automatic approvals that are remembered
    MarksKept,    \* the drafted fingerprints that are remembered
    MaxFiles, MaxEntries, MaxMishaps   \* bounds: files, facts, kinds of mishap

ASSUME ReviewAssumption ==
    /\ owner \in Teller /\ Near \subseteq Saying \X Saying /\ About \in [Saying -> Teller]
    /\ Statement \subseteq Teller \X Saying \X (Saying \cup {"nothing"})
    /\ {TotalNeeded, AutoRecent, MarksKept} \subseteq Nat
    /\ {Trailing, HoldEvery} \subseteq Nat \ {0}
    /\ {MaxFiles, MaxEntries, MaxMishaps} \subseteq Nat
    /\ Saying \cap Lesson = {} /\ Lesson \cap Nat = {}

VARIABLES
    files,        \* pending_review: every file ever written; "gone" when unlinked
    facts,        \* the index: what is said, by whom, whether it is active and disputed
    stats,        \* review_stats.json
    retuned,      \* the model or the extraction prompt is not the one in the stats
    seen, rules,  \* learned_rules.json: the fingerprints drafted, the rules adopted
    asking,       \* for each person, the extraction that waits for the model
    sweep, scan,  \* what the nightly threads are at
    word,         \* ghost: what became of each file
    clean,        \* ghost: the owner's reviews in a row with nothing to restart them
    byLapse,      \* ghost: the facts the sweep added
    mishaps       \* ghost: what went wrong where the code has no repair

reviewVars == <<files, facts, stats, retuned, seen, rules, asking, sweep, scan,
                word, clean, byLapse, mishaps>>

Open  == {f \in DOMAIN files : files[f].kind # "gone"}
Held     == {i \in DOMAIN facts : facts[i].active}
Nothing  == [kind |-> "none"]
Ready    == [file |-> 0, step |-> "idle", over |-> "nothing"]
Alike(a, b) == a = b \/ <<a, b>> \in Near \/ <<b, a>> \in Near
Smaller(a, b) == IF a < b THEN a ELSE b

(* The last n of a list that x is put behind.                              *)
Latest(s, x, n) == LET all == Append(s, x) IN IF Len(all) > n THEN Tail(all) ELSE all

ReviewInit ==
    /\ files = <<>> /\ facts = <<>>
    /\ stats = [reviewed |-> 0, recent |-> <<>>, since |-> 0, auto |-> <<>>]
    /\ retuned = FALSE /\ seen = <<>> /\ rules = {}
    /\ asking = [p \in Teller |-> Nothing] /\ sweep = Ready /\ scan = <<>>
    /\ word = <<>> /\ clean = 0 /\ byLapse = {} /\ mishaps = {}

Mishap(S) == mishaps' = mishaps \cup S /\ Cardinality(mishaps') <= MaxMishaps
-----------------------------------------------------------------------------
(* review_mode, next_proposal_holds: trust is read off the counters, after *)
(* a change of the model or of the prompt has reset them.                  *)
Reset(s) == [s EXCEPT !.recent = <<>>, !.since = 0]
Approvals(s) == Cardinality({k \in DOMAIN s.recent : s.recent[k]})
Sampled ==
    /\ ~retuned /\ stats.reviewed >= TotalNeeded
    /\ Len(stats.recent) >= Trailing /\ 10 * Approvals(stats) >= 9 * Len(stats.recent)

CountedStats == IF retuned THEN Reset(stats)
           ELSE IF Sampled THEN [stats EXCEPT !.since = (@ + 1) % HoldEvery] ELSE stats

(* record_decision: a review by a person.                                  *)
Decided(s, yes) ==
    [s EXCEPT !.reviewed = Smaller(@ + 1, TotalNeeded), !.recent = Latest(@, yes, Trailing)]

Erased(p)   == [p EXCEPT !.kind = "gone", !.over = "nothing", !.auto = FALSE]
Unlinked(F) == [f \in DOMAIN files |-> IF f \in F THEN Erased(files[f]) ELSE files[f]]
Became(F, w)  == [f \in DOMAIN word |-> IF f \in F /\ word[f] = "waits" THEN w ELSE word[f]]

Filed(w, F, new) ==
    /\ Len(files) + Len(new) <= MaxFiles
    /\ word' = Became(F, w) \o [k \in DOMAIN new |-> "waits"]

Proposal(c, over, p, auto) == [kind |-> "fact", says |-> c, over |-> over, reviewer |-> p, auto |-> auto]
Notice(new, old, c) ==
    [kind |-> "dispute", says |-> new, over |-> old, reviewer |-> About[c], auto |-> FALSE]

Rule(l) == [kind |-> "rule", says |-> l, over |-> "nothing", reviewer |-> owner, auto |-> FALSE]

(* propose_from_message: what is known, here or in the queue, is read      *)
(* before the model is asked; the lines of a fact stay in its file after   *)
(* the fact is forgotten.                                                  *)
Known == {facts[i].says : i \in DOMAIN facts} \cup {files[f].says : f \in {g \in Open : files[g].kind = "fact"}}

Asks(p, c, over) ==
    /\ asking[p] = Nothing /\ c \notin Known
    /\ asking' = [asking EXCEPT ![p] = [kind |-> "asks", says |-> c, over |-> over]]
    /\ UNCHANGED <<files, facts, stats, retuned, seen, rules, sweep, scan, word, clean, byLapse, mishaps>>

Trusted(p) == p = owner /\ Sampled /\ stats.since + 1 < HoldEvery

(* propose_fact, and the person's own older wordings leave the queue.      *)
Proposes(p) ==
    LET new  == Proposal(asking[p].says, asking[p].over, p, Trusted(p))
        olds == {f \in Open : files[f].kind = "fact" /\ files[f].reviewer = p
                                  /\ Alike(files[f].says, new.says)}
    IN  /\ asking[p] # Nothing /\ asking' = [asking EXCEPT ![p] = Nothing]
        /\ Len(files) < MaxFiles
        /\ files' = Append(Unlinked(olds), new) /\ word' = Append(Became(olds, "dropped"), "waits")
        /\ stats' = IF p = owner THEN CountedStats ELSE stats
        /\ retuned' = (retuned /\ p # owner)
        /\ mishaps' = IF new.auto /\ clean < Trailing THEN mishaps \cup {"unearned"} ELSE mishaps
        /\ UNCHANGED <<facts, seen, rules, sweep, scan, clean, byLapse>>

(* The model answers with nothing that is a fact of this message.          *)
Drops(p) ==
    /\ asking[p] # Nothing /\ asking' = [asking EXCEPT ![p] = Nothing]
    /\ UNCHANGED <<files, facts, stats, retuned, seen, rules, sweep, scan, word, clean, byLapse, mishaps>>
-----------------------------------------------------------------------------
(* add_fact: nothing for a saying that is held; the same person's fact it  *)
(* replaces goes, another's stays, both are disputed, and a notice goes to *)
(* the one it is about.                                                    *)
Stating(c) == {i \in Held : facts[i].says = c}
Rivals(c, over) == IF Stating(c) # {} THEN {} ELSE Stating(over)
Others(c, over, who) == {i \in Rivals(c, over) : facts[i].by # who}

WithFact(c, over, who) ==
    LET others == Others(c, over, who)
        settled == [i \in DOMAIN facts |->
                       [facts[i] EXCEPT !.active = @ /\ i \notin Rivals(c, over) \ others,
                                        !.disputed = @ \/ i \in others]]
    IN  IF Stating(c) # {} THEN facts
        ELSE Append(settled, [says |-> c, by |-> who, active |-> TRUE, disputed |-> others # {}])

Notices(c, over, who) ==
    LET others == Others(c, over, who)
    IN  IF others = {} THEN <<>> ELSE <<Notice(Len(facts) + 1, CHOOSE i \in others : TRUE, c)>>

Adds(c, over, who) == facts' = WithFact(c, over, who) /\ Len(facts') <= MaxEntries

(* A yes to a fact: counted, added in the name of whoever gives it, and    *)
(* the file unlinked, or left to be decided again if the process ends      *)
(* before.  In the chat everyone has a queue of their own; the script of   *)
(* the owner takes the files of all.                                       *)
Approves(f, who) ==
    LET p == files[f]
        notices == Notices(p.says, p.over, who)
    IN  /\ p.kind = "fact" /\ who \in {p.reviewer, owner}
        /\ Adds(p.says, p.over, who) /\ Filed("approved", {f}, notices)
        /\ files' \in {Unlinked({f}) \o notices, files \o notices}
        /\ stats' = Decided(stats, TRUE) /\ clean' = Smaller(clean + 1, Trailing)
        /\ UNCHANGED <<retuned, seen, rules, asking, sweep, scan, byLapse, mishaps>>

(* What the sweep is adding right now can be rejected or purged under it.  *)
Raced(F) == IF sweep.step = "added" /\ sweep.file \in F THEN {"raced"} ELSE {}

(* A no to a fact.  The script says it to any file, and leaves the flags   *)
(* of a dispute where they are.                                            *)
Rejects(f) ==
    /\ files' = Unlinked({f}) /\ word' = Became({f}, "rejected")
    /\ IF files[f].kind = "dispute" THEN UNCHANGED <<stats, clean>>
       ELSE stats' = Decided(stats, FALSE) /\ clean' = Smaller(clean + 1, Trailing)
    /\ Mishap(Raced({f}))
    /\ UNCHANGED <<facts, retuned, seen, rules, asking, sweep, scan, byLapse>>

(* engine.forget: a fact the sweep added lately was wrongly approved, and  *)
(* trust starts again; what says the same leaves the queue.                *)
Purged(S)    == {f \in Open : files[f].kind = "fact" /\ \E i \in S : Alike(facts[i].says, files[f].says)}
Off(fs, S)   == [i \in DOMAIN fs |-> [fs[i] EXCEPT !.active = @ /\ i \notin S]]
Settled(fs, S)  == [i \in DOMAIN fs |-> [fs[i] EXCEPT !.disputed = @ /\ i \notin S]]
Wrong(S)     == \E i \in S, k \in DOMAIN stats.auto : stats.auto[k] = facts[i].says

Loses(S, settled, slips) ==
    /\ files' = Unlinked(settled \cup Purged(S))
    /\ word' = Became(settled \cup Purged(S), "dropped")
    /\ stats' = IF Wrong(S) THEN Reset(stats) ELSE stats
    /\ clean' = IF S \cap byLapse # {} THEN 0 ELSE clean
    /\ Mishap(slips \cup Raced(Purged(S))
              \cup (IF S \cap byLapse # {} /\ ~Wrong(S) THEN {"unrecorded"} ELSE {}))

ForgetsEntry(i) ==
    /\ i \in Held /\ facts' = Off(facts, {i}) /\ Loses({i}, {}, {})
    /\ UNCHANGED <<retuned, seen, rules, asking, sweep, scan, byLapse>>

(* resolve_dispute: the flags of both facts are cleared, whichever notice  *)
(* put them there.  Keeping a new fact that is gone is refused.            *)
Parties(f) == {files[f].says, files[f].over}
Shared(f)  == IF \E g \in Open \ {f} : files[g].kind = "dispute" /\ Parties(g) \cap Parties(f) # {}
              THEN {"shared"} ELSE {}

KeepsNew(f) ==
    /\ files[f].kind = "dispute" /\ files[f].says \in Held
    /\ facts' = Settled(Off(facts, {files[f].over}), Parties(f))
    /\ files' = Unlinked({f}) /\ word' = Became({f}, "approved")
    /\ Mishap(Shared(f))
    /\ UNCHANGED <<stats, clean, retuned, seen, rules, asking, sweep, scan, byLapse>>

KeepsOld(f) ==
    /\ files[f].kind = "dispute"
    /\ facts' = Settled(Off(facts, {files[f].says}), Parties(f))
    /\ Loses({files[f].says} \cap Held, {f}, Shared(f))
    /\ UNCHANGED <<retuned, seen, rules, asking, sweep, scan, byLapse>>
-----------------------------------------------------------------------------
(* The configuration of the models or the extraction prompt changes.       *)
Retunes ==
    /\ ~retuned /\ retuned' = TRUE /\ clean' = 0
    /\ UNCHANGED <<files, facts, stats, seen, rules, asking, sweep, scan, word, byLapse, mishaps>>

(* sweep_auto_approvals: it reads a file whose window has passed, which it *)
(* may have done on any night...                                           *)
SweepReads(f) ==
    /\ sweep = Ready /\ f \in Open /\ files[f].auto
    /\ sweep' = [file |-> f, step |-> "read", over |-> files[f].over]
    /\ UNCHANGED <<files, facts, stats, retuned, seen, rules, asking, scan, word, clean, byLapse, mishaps>>

(* ...registers the fact in the owner's name, whatever became of the file...*)
SweepAdds ==
    LET f == sweep.file
        c == files[f].says
        notices == Notices(c, sweep.over, owner)
    IN  /\ sweep.step = "read" /\ sweep' = [sweep EXCEPT !.step = "added", !.over = "nothing"]
        /\ Adds(c, sweep.over, owner) /\ Filed("lapsed", {f}, notices) /\ files' = files \o notices
        /\ byLapse' = byLapse \cup (DOMAIN facts' \ DOMAIN facts)
        /\ Mishap(IF f \in Open THEN {} ELSE {"raced"})
        /\ UNCHANGED <<stats, retuned, seen, rules, asking, scan, clean>>

(* ...unlinks the file, which fails if it is gone, and only then records   *)
(* what it approved; older records make room for it.                       *)
SweepEnds ==
    /\ sweep.step = "added" /\ sweep' = Ready
    /\ LET f == sweep.file
       IN  IF f \in Open
           THEN /\ files' = Unlinked({f})
                /\ stats' \in {[stats EXCEPT !.auto = Latest(@, files[f].says, AutoRecent)], stats}
           ELSE UNCHANGED <<files, stats>>
    /\ UNCHANGED <<facts, retuned, seen, rules, asking, scan, word, clean, byLapse, mishaps>>

SweepDies ==
    /\ sweep # Ready /\ sweep' = Ready
    /\ UNCHANGED <<files, facts, stats, retuned, seen, rules, asking, scan, word, clean, byLapse, mishaps>>

(* conflicts.scan: a pair of two people's facts that the model finds at    *)
(* odds, kept if they are held and not both disputed...                    *)
ScanReads(i, j) ==
    /\ scan = <<>> /\ {i, j} \subseteq Held /\ i < j /\ facts[i].by # facts[j].by
    /\ ~(facts[i].disputed /\ facts[j].disputed)
    /\ scan' = <<i, j>>
    /\ UNCHANGED <<files, facts, stats, retuned, seen, rules, asking, sweep, word, clean, byLapse, mishaps>>

(* Slip: the notice is filed and the facts are left unflagged. *)
ScanOnlyFiles ==
    /\ scan # <<>> /\ scan' = <<>>
    /\ facts' = facts
    /\ Filed("waits", {}, <<Notice(scan[2], scan[1], facts[scan[2]].says)>>)
    /\ files' = Append(files, Notice(scan[2], scan[1], facts[scan[2]].says))
    /\ UNCHANGED <<stats, retuned, seen, rules, asking, sweep, clean, byLapse, mishaps>>

(* ...and after the model's answer those still held are flagged, and the   *)
(* notice is filed for both.                                               *)
ScanApplies ==
    /\ scan # <<>> /\ scan' = <<>>
    /\ facts' = [i \in DOMAIN facts |->
                    [facts[i] EXCEPT !.disputed = @ \/ (i \in {scan[1], scan[2]} /\ facts[i].active)]]
    /\ LET notices == <<Notice(scan[2], scan[1], facts[scan[2]].says)>>
       IN  Filed("waits", {}, notices) /\ files' = files \o notices
    /\ UNCHANGED <<stats, retuned, seen, rules, asking, sweep, clean, byLapse, mishaps>>

(* scan_and_propose: a group of corrections is drafted under the first one *)
(* that the lookback still reaches, and marked with its words; older marks *)
(* make room.  Or the process ends between the file and the mark.  The     *)
(* same group goes by another fingerprint once that first correction has   *)
(* left the lookback, or the logs are read in another order.               *)
Marked == {seen[k] : k \in DOMAIN seen}

Drafts(l) ==
    /\ l \notin Marked
    /\ Filed("waits", {}, <<Rule(l)>>) /\ files' = Append(files, Rule(l))
    /\ \/ seen' = Latest(seen, l, MarksKept)
          /\ Mishap(IF Len(seen) < MarksKept THEN {} ELSE {"crowded"})
       \/ seen' = seen /\ Mishap({"redrafted"})
    /\ UNCHANGED <<facts, stats, retuned, rules, asking, sweep, scan, clean, byLapse>>

(* The owner's yes or no to a rule, and lessons.retire.                    *)
DecidesRule(f, yes) ==
    /\ files[f].kind = "rule" /\ files' = Unlinked({f})
    /\ word' = Became({f}, IF yes THEN "approved" ELSE "rejected")
    /\ rules' = IF yes THEN rules \cup {files[f].says} ELSE rules
    /\ UNCHANGED <<facts, stats, retuned, seen, asking, sweep, scan, clean, byLapse, mishaps>>

(* One item of a decision on the list the reviewer was shown; a file that  *)
(* has left the queue meanwhile is passed over.                            *)
Reviews(f) ==
    \/ (\E who \in Teller : Approves(f, who)) \/ Rejects(f) \/ KeepsNew(f) \/ KeepsOld(f)
    \/ \E yes \in BOOLEAN : DecidesRule(f, yes)

Retires(l) ==
    /\ l \in rules /\ rules' = rules \ {l}
    /\ UNCHANGED <<files, facts, stats, retuned, seen, asking, sweep, scan, word, clean, byLapse, mishaps>>
-----------------------------------------------------------------------------
ReviewNext ==
    \/ \E m \in Statement : Asks(m[1], m[2], m[3])
    \/ \E p \in Teller : Proposes(p) \/ Drops(p)
    \/ \E f \in Open : Reviews(f) \/ SweepReads(f)
    \/ \E i \in Held : ForgetsEntry(i) \/ (\E j \in Held : ScanReads(i, j))
    \/ Retunes \/ ScanApplies \/ SweepAdds \/ SweepEnds \/ SweepDies
    \/ \E l \in Lesson : Drafts(l) \/ Retires(l)

ReviewSpec == ReviewInit /\ [][ReviewNext]_reviewVars
-----------------------------------------------------------------------------
Mishaps == {"raced", "unrecorded", "unearned", "shared", "redrafted", "crowded"}
Ends    == {"waits", "approved", "rejected", "dropped", "lapsed"}
Entry   == [says : Saying, by : Teller, active : BOOLEAN, disputed : BOOLEAN]

ReviewTypeOK ==
    /\ Len(files) <= MaxFiles /\ Len(facts) <= MaxEntries
    /\ \A f \in DOMAIN files : /\ files[f].kind \in {"fact", "dispute", "rule", "gone"}
                               /\ files[f].auto \in BOOLEAN
    /\ \A i \in DOMAIN facts : facts[i] \in Entry
    /\ stats.reviewed <= TotalNeeded /\ Len(stats.recent) <= Trailing /\ stats.since < HoldEvery
    /\ Len(stats.auto) <= AutoRecent /\ Len(seen) <= MarksKept
    /\ Marked \cup rules \subseteq Lesson /\ clean <= Trailing
    /\ DOMAIN word = DOMAIN files /\ \A f \in DOMAIN word : word[f] \in Ends
    /\ byLapse \subseteq DOMAIN facts /\ mishaps \subseteq Mishaps

(* The file and the decision about it that a fact rests on.                *)
Vouches(f, i) ==
    /\ files[f].says = facts[i].says /\ facts[i].by \in {files[f].reviewer, owner}
    /\ word[f] = "approved" \/ (word[f] = "lapsed" /\ files[f].reviewer = owner)

(* What is remembered was approved by the one in whose name it stands: the *)
(* person it came from, or the owner, who has a script for the files of    *)
(* all.  Only what came from the owner may have stood for a window that    *)
(* nobody objected in (store.py:3-7, 93-101, review.py:6-9,                *)
(* review_scaling.py:9-15).  The exception is an objection that arrives    *)
(* while the sweep is adding the fact.                                     *)
OnlyReviewed ==
    "raced" \in mishaps \/ \A i \in Held : \E f \in DOMAIN files : Vouches(f, i)

(* A window opens only after as many reviews as the rule asks for since    *)
(* the last thing that should have restarted them: a change of the model   *)
(* or of the prompt, an automatic approval forgotten as wrong              *)
(* (review_scaling.py:9-14).  The exception is a fact forgotten while its  *)
(* approval is not on record: between the approval and the record of it,   *)
(* or once AutoRecent later ones have taken its place.                     *)
TrustIsEarned == "unearned" \in mishaps => "unrecorded" \in mishaps

(* While a dispute waits for its reviewer, and both facts are held, both   *)
(* carry the flag (engine.py:238-240), unless the resolution of another    *)
(* dispute about one of them has cleared it.                               *)
DisputesShow ==
    "shared" \in mishaps \/
    \A f \in Open : (files[f].kind = "dispute" /\ Parties(f) \subseteq Held)
                           => \A i \in Parties(f) : facts[i].disputed

(* No rule is proposed twice under one fingerprint, whatever the owner     *)
(* said to the first (lessons.py:143-146).  The exceptions are a process   *)
(* that ends before the mark, and a mark that MarksKept later ones have    *)
(* pushed out.  Of a group nothing is promised: decided about under one    *)
(* fingerprint, it can be drafted again under its next.                    *)
DraftedOnce ==
    {"redrafted", "crowded"} \cap mishaps # {} \/
    \A f, g \in DOMAIN files : (f # g /\ files[f].says \in Lesson) => files[f].says # files[g].says

ReviewInv == ReviewTypeOK /\ OnlyReviewed /\ TrustIsEarned /\ DisputesShow /\ DraftedOnce
=============================================================================

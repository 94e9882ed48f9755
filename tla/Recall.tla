-------------------------------- MODULE Recall --------------------------------
(* What can still be recalled of what was said and shown (store/episodes.py,  *)
(* the redactions of agents/secrets.py, the forget cascade of                 *)
(* memory/engine.py and store/documents.py).                                  *)
(*                                                                            *)
(* Every half hour today's conversation, and every night yesterday's and      *)
(* today's, is chunked, tagged by a model, embedded and written as episodes,  *)
(* from the words of the chat log that are not redacted.  A fact the owner    *)
(* forgets hides the episodes and the captures that speak of it, by a mark in *)
(* suppressed_by; the marks are set at once when Postgres answers, and every  *)
(* night again for every fact that is forgotten.  All of these run in worker  *)
(* threads.  A day's chunks are taken together: a chunk keeps its id as the   *)
(* day grows, so a day written again is the same rows with other words.       *)
EXTENDS Naturals, FiniteSets

CONSTANTS
    Remark,        \* what is said in a chat
    Capture,        \* photos and moments
    Known,           \* what can be forgotten
    Speaks,         \* <<fact, message or capture>>: enough words in common
    MaxDay,         \* bound: the last day repeats
    MaxOutages        \* bound: outages

ASSUME RecallAssumption ==
    /\ Speaks \subseteq Known \X (Remark \cup Capture)
    /\ MaxDay \in Nat \ {0} /\ MaxOutages \in Nat

VARIABLES
    today,       \* the day
    night,       \* tonight's duties: "before", "ingest", "resweep", "after"
    said,        \* message |-> the day it was said, or 0
    concealed,      \* messages a redact record of the log covers
    late,        \* ghost: secrets no ingest will look at any more
    pass,        \* ingest |-> the days it will write, with what it read of them
    episode,     \* day |-> the messages its episodes show
    ingested,       \* captures that were ingested
    marks,       \* day or capture |-> the facts that hide it
    forgotten,   \* facts that are inactive and not superseded
    sweeping,    \* the facts tonight's resweep still has to take
    stray,       \* ghost: facts restored under a resweep, or whose marks were not lifted
    outages        \* what has failed so far

recallVars == <<today, night, said, concealed, late, pass, episode, ingested, marks,
                forgotten, sweeping, stray, outages>>

Day == 1..MaxDay
Ingest == {"nightly", "catchup"}
Item == Day \cup Capture
NoPass == [busy |-> FALSE, text |-> [d \in {} |-> {}]]

\* apply_redactions, records_for_day: what a reader of the log may use of a day.
ToldOn(d) == {m \in Remark : said[m] = d} \ concealed

\* Does a forgotten fact hide it: two words in common with an episode, the
\* distinctive words with a capture.
Hit(f, i) == IF i \in Day THEN \E m \in episode[i] : <<f, m>> \in Speaks
             ELSE i \in ingested /\ <<f, i>> \in Speaks

RecallInit ==
    /\ today = 1 /\ night = "before"
    /\ said = [m \in Remark |-> 0] /\ concealed = {} /\ late = {}
    /\ pass = [p \in Ingest |-> NoPass]
    /\ episode = [d \in Day |-> {}] /\ ingested = {}
    /\ marks = [i \in Item |-> {}]
    /\ forgotten = {} /\ sweeping = {} /\ stray = {} /\ outages = 0

Outage == outages < MaxOutages /\ outages' = outages + 1

(* ------------------------------ the chat log --------------------------- *)

Says(m) ==
    /\ said[m] = 0
    /\ said' = [said EXCEPT ![m] = today]
    /\ UNCHANGED <<today, night, concealed, late, pass, episode, ingested, marks,
                   forgotten, sweeping, stray, outages>>

\* "Keep this between us": a record of the log covers what was just said.  A
\* day is read again until the night after it, no longer.
Withholds(m) ==
    /\ said[m] # 0 /\ m \notin concealed
    /\ concealed' = concealed \cup {m}
    /\ late' = IF \/ said[m] = today
                  \/ said[m] + 1 = today /\ night = "before"
               THEN late ELSE late \cup {m}
    /\ UNCHANGED <<today, night, said, pass, episode, ingested, marks, forgotten,
                   sweeping, stray, outages>>

(* ------------------------------- ingest -------------------------------- *)

Days(p) == IF p = "catchup" THEN {today} ELSE {today - 1, today} \cap Day

\* skip_unchanged: only the chunks whose text is another one are worked on.
Changed(d) == ToldOn(d) # episode[d]

\* The log is read and compared with what is stored...
ReadsDays(p) ==
    /\ ~pass[p].busy
    /\ p = "nightly" => night = "ingest"
    /\ pass' = [pass EXCEPT ![p] =
                   [busy |-> TRUE, text |-> [d \in {e \in Days(p) : Changed(e)} |-> ToldOn(d)]]]
    /\ UNCHANGED <<today, night, said, concealed, late, episode, ingested, marks,
                   forgotten, sweeping, stray, outages>>

NightGoesOn(p) ==
    IF p = "nightly" /\ night = "ingest"
    THEN night' = "resweep" /\ sweeping' = forgotten
    ELSE UNCHANGED <<night, sweeping>>

\* ... and written when the models have answered, over what is there by then.
\* The marks of the row stay.
WritesEpisodes(p) ==
    /\ pass[p].busy
    /\ episode' = [d \in Day |-> IF d \in DOMAIN pass[p].text THEN pass[p].text[d]
                                 ELSE episode[d]]
    /\ pass' = [pass EXCEPT ![p] = NoPass]
    /\ NightGoesOn(p)
    /\ UNCHANGED <<today, said, concealed, late, ingested, marks, forgotten, stray, outages>>

\* The embedder or Postgres is away: the pass writes nothing, and the night
\* goes on with its next stage.
FailsToIngest(p) ==
    /\ pass[p].busy /\ Outage
    /\ pass' = [pass EXCEPT ![p] = NoPass]
    /\ late' = IF p = "nightly" THEN late \cup {m \in concealed : said[m] + 1 = today} ELSE late
    /\ NightGoesOn(p)
    /\ UNCHANGED <<today, said, concealed, episode, ingested, marks, forgotten, stray>>

\* A photo arrives; the forgotten facts are not looked at.
Captures(c) ==
    /\ c \notin ingested
    /\ ingested' = ingested \cup {c}
    /\ UNCHANGED <<today, night, said, concealed, late, pass, episode, marks,
                   forgotten, sweeping, stray, outages>>

(* --------------------------- the forget cascade ------------------------ *)

\* suppress_for_fact of both stores.
Suppressed(f, m) == [i \in Item |-> IF Hit(f, i) THEN m[i] \cup {f} ELSE m[i]]

\* The fact is inactive whether or not the sweep behind it succeeds.
Retracts(f) ==
    /\ f \notin forgotten
    /\ forgotten' = forgotten \cup {f}
    /\ stray' = stray \ {f}
    /\ \/ marks' = Suppressed(f, marks) /\ UNCHANGED outages
       \/ Outage /\ UNCHANGED marks
    /\ UNCHANGED <<today, night, said, concealed, late, pass, episode, ingested, sweeping>>

\* A slip: the inverse was written for episodes alone.
UnsweepsEpisodes(f) == [i \in Item |-> IF i \in Day THEN marks[i] \ {f} ELSE marks[i]]

Unswept(f) == [i \in Item |-> marks[i] \ {f}]

\* unforget: undo of a forget.
Restores(f) ==
    /\ f \in forgotten
    /\ forgotten' = forgotten \ {f}
    /\ \/ /\ marks' = Unswept(f)
          /\ stray' = IF f \in sweeping THEN stray \cup {f} ELSE stray
          /\ UNCHANGED outages
       \/ /\ Outage /\ stray' = stray \cup {f}
          /\ UNCHANGED marks
    /\ UNCHANGED <<today, night, said, concealed, late, pass, episode, ingested, sweeping>>

\* resweep_forgotten: the index was read when it began; each fact is a
\* transaction of its own, and a fact restored since is swept all the same.
Resweeps ==
    /\ night = "resweep"
    /\ \/ /\ \E f \in sweeping : marks' = Suppressed(f, marks) /\ sweeping' = sweeping \ {f}
          /\ UNCHANGED <<night, outages>>
       \/ /\ sweeping = {} /\ night' = "after"
          /\ UNCHANGED <<marks, sweeping, outages>>
       \/ /\ sweeping # {} /\ Outage /\ sweeping' = {} /\ night' = "after"
          /\ UNCHANGED marks
    /\ UNCHANGED <<today, said, concealed, late, pass, episode, ingested, forgotten, stray>>

(* -------------------------------- the day ------------------------------ *)

NightFalls ==
    /\ night = "before"
    /\ night' = "ingest"
    /\ UNCHANGED <<today, said, concealed, late, pass, episode, ingested, marks,
                   forgotten, sweeping, stray, outages>>

\* A pass takes minutes: none is under way from one day to the next.
DayBreaks ==
    /\ night = "after" /\ \A p \in Ingest : ~pass[p].busy
    /\ night' = "before"
    /\ today' = IF today < MaxDay THEN today + 1 ELSE today
    /\ UNCHANGED <<said, concealed, late, pass, episode, ingested, marks, forgotten,
                   sweeping, stray, outages>>

RecallNext ==
    \/ \E m \in Remark : Says(m) \/ Withholds(m)
    \/ \E p \in Ingest : ReadsDays(p) \/ WritesEpisodes(p) \/ FailsToIngest(p)
    \/ \E c \in Capture : Captures(c)
    \/ \E f \in Known : Retracts(f) \/ Restores(f)
    \/ Resweeps \/ NightFalls \/ DayBreaks

\* The night comes every day, and its stages and the passes run to their end.
RecallFairness ==
    /\ WF_recallVars(NightFalls) /\ WF_recallVars(Resweeps) /\ SF_recallVars(DayBreaks)
    /\ WF_recallVars(ReadsDays("nightly"))
    /\ \A p \in Ingest : WF_recallVars(WritesEpisodes(p))

RecallSpec == RecallInit /\ [][RecallNext]_recallVars /\ RecallFairness

(* ------------------------------ properties ----------------------------- *)

RecallTypeOK ==
    /\ today \in Day /\ night \in {"before", "ingest", "resweep", "after"}
    /\ said \in [Remark -> 0..MaxDay] /\ concealed \subseteq Remark /\ late \subseteq concealed
    /\ \A p \in Ingest : pass[p].busy \in BOOLEAN /\ DOMAIN pass[p].text \subseteq Day
    /\ episode \in [Day -> SUBSET Remark] /\ ingested \subseteq Capture
    /\ marks \in [Item -> SUBSET Known]
    /\ forgotten \subseteq Known /\ sweeping \subseteq Known /\ stray \subseteq Known
    /\ outages \in 0..MaxOutages

\* A fact that is not forgotten hides nothing: undoing a forget gives back
\* every episode and capture it had hidden, unless the marks could not be
\* lifted or the night's resweep had the fact in hand.
RestoredShows == \A i \in Item : marks[i] \subseteq forgotten \cup stray

RecallInv == RecallTypeOK /\ RestoredShows

\* What a forgotten fact speaks of is hidden in the end, if it was written
\* after the fact was forgotten or while Postgres was away.
ForgottenLeaves ==
    []<>(\A f \in forgotten : \A i \in Item : Hit(f, i) => f \in marks[i])

\* A message the owner asked to keep secret leaves the episode that already
\* shows it, though a pass that had read it may write it once more; unless it
\* was redacted after the last ingest of its day, or that ingest failed.
RedactedLeaves ==
    []<>(\A m \in concealed \ late : \A d \in Day : m \notin episode[d])

===============================================================================

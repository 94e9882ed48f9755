------------------------------- MODULE Library -------------------------------
(* The notes of the owner's vault as rows of the document store             *)
(* (store/notes.py), and the captures they illustrate (relate of            *)
(* store/documents.py).                                                     *)
(*                                                                          *)
(* A sync walks the vault and decides file by file, from the row it finds,  *)
(* whether to index: the row it found is marked superseded in the           *)
(* transaction that stores the new one, and what is no longer in the vault  *)
(* is marked deleted at the end.  The nightly sync and the one the owner    *)
(* asks for run in threads of their own.  Tagging asks a model: the cloud   *)
(* one only when neither folder nor title says the note is private.  A note *)
(* and a capture about the same person whose title words recur are related, *)
(* and the capture takes the note's tags.                                   *)
EXTENDS Naturals, FiniteSets

CONSTANTS
    Path,           \* files of the vault
    Version,        \* contents a file can have; a row is known by path and contents
    Absent, NoRow,
    Thin,           \* versions with too little text to be indexed
    Hinted,         \* versions whose folder, title or tags say they are private
    Private,        \* versions a model flags
    Capture, Person,
    Mentions,       \* <<version, person>>: who a note is about
    Illustrates,    \* <<version, capture>>: the title words recur
    MaxEdits, MaxFailures   \* bounds

ASSUME LibraryAssumption ==
    /\ Thin \cup Hinted \cup Private \subseteq Version
    /\ Mentions \subseteq Version \X Person /\ Illustrates \subseteq Version \X Capture
    /\ Absent \notin Version /\ NoRow \notin Version
    /\ {MaxEdits, MaxFailures} \subseteq Nat

VARIABLES
    vault,       \* path |-> what the file says now
    note,        \* <<path, version>> |-> "none", "live", "superseded", "deleted"
    exposure,    \* <<path, version>> |-> "cloud_ok" or "local_only"
    newest,      \* path |-> the version stored last
    sync,        \* who syncs |-> where it is
    inCloud,        \* versions whose body went to the cloud to be tagged
    subjects,    \* capture |-> who it is about; NoRow before it is stored
    inherited,   \* capture |-> the versions whose tags it carries
    doubled,     \* ghost: two syncs met on a path, or marks were lifted
    edits, failures

libraryVars == <<vault, note, exposure, newest, sync, inCloud, subjects, inherited,
                 doubled, edits, failures>>

Syncs == {"nightly", "asked"}
Row == Path \X Version
Resting == [at |-> "resting", todo |-> {}, seen |-> {}, path |-> Absent,
            found |-> NoRow, read |-> Absent, local |-> FALSE]

LiveRows(p) == {v \in Version : note[<<p, v>>] = "live"}
Stored(c) == subjects[c] # {NoRow}

LibraryInit ==
    /\ vault \in [Path -> Version \cup {Absent}]
    /\ note = [r \in Row |-> "none"] /\ exposure = [r \in Row |-> "cloud_ok"]
    /\ newest = [p \in Path |-> NoRow]
    /\ sync = [s \in Syncs |-> Resting] /\ inCloud = {}
    /\ subjects = [c \in Capture |-> {NoRow}] /\ inherited = [c \in Capture |-> {}]
    /\ doubled = FALSE /\ edits = 0 /\ failures = 0

Amiss == failures < MaxFailures /\ failures' = failures + 1

Edits(p) ==
    /\ edits < MaxEdits /\ edits' = edits + 1
    /\ vault' \in {[vault EXCEPT ![p] = v] : v \in (Version \cup {Absent}) \ {vault[p]}}
    /\ UNCHANGED <<note, exposure, newest, sync, inCloud, subjects, inherited, doubled, failures>>

(* --------------------------------- a sync ------------------------------ *)

Starts(s) ==
    /\ sync[s].at = "resting"
    /\ LET here == {p \in Path : vault[p] # Absent} IN
        sync' = [sync EXCEPT ![s] = [Resting EXCEPT !.at = "walking", !.todo = here, !.seen = here]]
    /\ UNCHANGED <<vault, note, exposure, newest, inCloud, subjects, inherited, doubled, edits, failures>>

\* The row index_file compares with: the live one written last.
Found(p) ==
    LET live == LiveRows(p) IN
    IF live = {} THEN {NoRow} ELSE IF newest[p] \in live THEN {newest[p]} ELSE live

\* Folder and title hints are known up front; those notes tag locally.
Tagger(v) == IF v \in Hinted THEN "local" ELSE "cloud"

\* The file is read and compared; gone, unchanged or thin, it is passed by,
\* and a row it had stays.  Otherwise it is tagged: a tagger that fails
\* flags the note itself.
Looks(s, force) ==
    /\ sync[s].at = "walking"
    /\ force => s = "asked"
    /\ \E p \in sync[s].todo, flagged \in BOOLEAN : \E found \in Found(p) :
        LET v == vault[p]
            passed == v = Absent \/ v \in Thin \/ (v = found /\ ~force)
            local  == flagged \/ v \in Hinted \cup Private
        IN /\ flagged => Amiss
           /\ ~flagged => UNCHANGED failures
           /\ IF passed
              THEN /\ ~flagged
                   /\ sync' = [sync EXCEPT ![s].todo = @ \ {p}]
                   /\ UNCHANGED inCloud
              ELSE /\ sync' = [sync EXCEPT ![s] = [@ EXCEPT !.at = "tagging", !.path = p,
                                   !.found = found, !.read = v, !.local = local]]
                   /\ inCloud' = IF Tagger(v) = "cloud" THEN inCloud \cup {v} ELSE inCloud
    /\ UNCHANGED <<vault, note, exposure, newest, subjects, inherited, doubled, edits>>

\* A slip: the tags of a note ride along whoever may see it.
TagsRideAlong(shown) == TRUE

\* A local-only note's tags stay with the note.
MayInherit(shown) == shown = "cloud_ok"

\* relate, from the note's side and from the capture's.
Related(v, c, about) == <<v, c>> \in Illustrates /\ \E x \in about : <<v, x>> \in Mentions

Inherits(c, about, rows) ==
    inherited[c] \cup {r[2] : r \in {q \in rows : Related(q[2], c, about) /\ MayInherit(exposure'[q])}}

\* The row that was found is superseded, and these contents are live, though
\* they may have been superseded or deleted before.
Superseding(s) ==
    [r \in Row |-> IF r = <<sync[s].path, sync[s].read>> THEN "live"
                   ELSE IF r = <<sync[s].path, sync[s].found>> THEN "superseded"
                   ELSE note[r]]

Stores(s) ==
    /\ sync[s].at = "tagging"
    /\ LET p == sync[s].path
           r == <<p, sync[s].read>>
       IN /\ note' = Superseding(s)
          /\ exposure' = [exposure EXCEPT ![r] = IF sync[s].local THEN "local_only" ELSE "cloud_ok"]
          /\ newest' = [newest EXCEPT ![p] = sync[s].read]
          /\ doubled' = (doubled \/ \E t \in Syncs \ {s} : sync[t].at = "tagging" /\ sync[t].path = p)
          /\ inherited' = [c \in Capture |-> IF Stored(c) THEN Inherits(c, subjects[c], {r})
                                             ELSE inherited[c]]
          /\ sync' = [sync EXCEPT ![s] = [sync[s] EXCEPT !.at = "walking", !.todo = @ \ {p}, !.path = Absent,
                          !.found = NoRow, !.read = Absent, !.local = FALSE]]
    /\ UNCHANGED <<vault, inCloud, subjects, edits, failures>>

\* One file that fails does not stop the walk.
SkipsOne(s) ==
    /\ sync[s].at = "tagging" /\ Amiss
    /\ sync' = [sync EXCEPT ![s] = [sync[s] EXCEPT !.at = "walking", !.todo = @ \ {sync[s].path},
                    !.path = Absent, !.found = NoRow, !.read = Absent, !.local = FALSE]]
    /\ UNCHANGED <<vault, note, exposure, newest, inCloud, subjects, inherited, doubled, edits>>

\* A slip: a note that is gone stays as it was indexed last.
Ghosts(s) == {}

\* The live rows of files the walk did not see.
Unseen(s) == {r \in Row : note[r] = "live" /\ r[1] \notin sync[s].seen}

Ends(s) ==
    /\ sync[s].at = "walking" /\ sync[s].todo = {}
    /\ note' = [r \in Row |-> IF r \in Unseen(s) THEN "deleted" ELSE note[r]]
    /\ sync' = [sync EXCEPT ![s] = Resting]
    /\ UNCHANGED <<vault, exposure, newest, inCloud, subjects, inherited, doubled, edits, failures>>

\* repair_suppression, an operator's tool: the marks of everything that a
\* fact cannot hide are lifted, and those of the notes are among them.
Repairs ==
    /\ Amiss
    /\ note' = [r \in Row |-> IF note[r] = "none" THEN "none" ELSE "live"]
    /\ doubled' = TRUE
    /\ UNCHANGED <<vault, exposure, newest, sync, inCloud, subjects, inherited, edits>>

(* ------------------------------- a capture ----------------------------- *)

LiveNotes == {r \in Row : note[r] = "live"}

Captures(c) ==
    /\ ~Stored(c)
    /\ UNCHANGED exposure
    /\ \E about \in SUBSET Person :
        /\ subjects' = [subjects EXCEPT ![c] = about]
        /\ inherited' = [inherited EXCEPT ![c] = Inherits(c, about, LiveNotes)]
    /\ UNCHANGED <<vault, note, newest, sync, inCloud, doubled, edits, failures>>

\* "That is Ruma", of the photo just sent; nothing is related anew.
LinksPerson(c, x) ==
    /\ Stored(c) /\ x \notin subjects[c]
    /\ subjects' = [subjects EXCEPT ![c] = @ \cup {x}]
    /\ UNCHANGED <<vault, note, exposure, newest, sync, inCloud, inherited, doubled, edits, failures>>

LibraryNext ==
    \/ \E p \in Path : Edits(p)
    \/ \E s \in Syncs :
        \/ Starts(s) \/ Stores(s) \/ SkipsOne(s) \/ Ends(s)
        \/ \E force \in BOOLEAN : Looks(s, force)
    \/ Repairs
    \/ \E c \in Capture :
        Captures(c) \/ \E x \in Person : LinksPerson(c, x)

\* The nightly sync comes again and goes on to its end.
LibraryFairness ==
    /\ WF_libraryVars(Starts("nightly")) /\ WF_libraryVars(Looks("nightly", FALSE))
    /\ WF_libraryVars(Stores("nightly")) /\ WF_libraryVars(Ends("nightly"))

LibrarySpec == LibraryInit /\ [][LibraryNext]_libraryVars /\ LibraryFairness

(* ------------------------------ properties ----------------------------- *)

LibraryTypeOK ==
    /\ vault \in [Path -> Version \cup {Absent}]
    /\ note \in [Row -> {"none", "live", "superseded", "deleted"}]
    /\ exposure \in [Row -> {"cloud_ok", "local_only"}]
    /\ newest \in [Path -> Version \cup {NoRow}]
    /\ \A s \in Syncs : sync[s].at \in {"resting", "walking", "tagging"}
    /\ inCloud \subseteq Version
    /\ \A c \in Capture : Stored(c) => subjects[c] \subseteq Person
    /\ inherited \in [Capture -> SUBSET Version]
    /\ doubled \in BOOLEAN
    /\ edits \in 0..MaxEdits /\ failures \in 0..MaxFailures

\* A file has one version that can be found, as long as no two syncs met on
\* it and nobody lifted the marks.
OneVersion == doubled \/ \A p \in Path : Cardinality(LiveRows(p)) <= 1

\* A note whose folder, title or tags say it is private never goes to the
\* cloud: not its body when it is tagged, nor its tags on a capture that the
\* cloud may see.
HintsStay == inCloud \cap Hinted = {} /\ \A c \in Capture : inherited[c] \cap Hinted = {}

LibraryInv == LibraryTypeOK /\ OneVersion /\ HintsStay

\* What a file says is found in the end, and what is gone is found no more,
\* whatever syncs met and whichever index failed on the way.
VaultIsFollowed ==
    \A p \in Path :
        []<>IF vault[p] = Absent THEN LiveRows(p) = {}
            ELSE vault[p] \in Thin \/ note[<<p, vault[p]>>] = "live"

==============================================================================

-------------------------------- MODULE Reading --------------------------------
(* Whom a stored document is about (store/documents.py,                        *)
(* store/doc_understanding.py, agents/photo.py).  A caption names people, and   *)
(* with a photo come those the vision model proposes and the faces recognized;  *)
(* of a file a second reading, a task of its own that the local model keeps for *)
(* seconds, works out subjects and mentions from the text and writes the        *)
(* subjects it began with, corrected; and the owner renames the document, names *)
(* somebody in a photo, sends it again, or deletes it, at any time.             *)
EXTENDS Naturals, FiniteSets

CONSTANTS
    Doc,            \* documents
    Photo,          \* those that are photos or moments; the others are files
    Registered,     \* the registry
    InText,         \* <<document, person>>: the name stands in the text
    Labelled,       \* <<document, person>>: behind "father's name", "nominee"
    Reader          \* readings that can be under way together

ASSUME ReadingAssumption ==
    Doc # {} /\ Photo \subseteq Doc /\ Labelled \subseteq InText /\ InText \subseteq Doc \X Registered

VARIABLES
    stored,      \* documents that are there
    subjects,    \* document |-> whom it is about
    reading,     \* reader |-> the document it is at, the subjects it found there,
                 \*   and whom it is to add
    ever,        \* ghost: whom the owner named, in a caption, a title or a word
    spotted,        \* ghost: whom the vision model or a face put on a photo
    told,        \* ghost: the same, of the document as it is stored now
    overtaken    \* ghost: what a reading that began before has overwritten

readingVars == <<stored, subjects, reading, ever, spotted, told, overtaken>>

Nobody == [at |-> "idle", doc |-> CHOOSE d \in Doc : TRUE, was |-> {}, who |-> {}]
People(pairs, d) == {x \in Registered : <<d, x>> \in pairs}

ReadingInit ==
    /\ stored = {} /\ subjects = [d \in Doc |-> {}]
    /\ reading = [r \in Reader |-> Nobody]
    /\ ever = {} /\ spotted = {} /\ told = {} /\ overtaken = {}

\* Stored, or merged into what the same bytes or the same text made before: the
\* people named, and those found, join its subjects.
Joins(d, named, found) ==
    /\ stored' = stored \cup {d}
    /\ subjects' = [subjects EXCEPT ![d] = @ \cup named \cup found]
    /\ ever' = ever \cup ({d} \X named) /\ spotted' = spotted \cup ({d} \X found)
    /\ told' = told \cup ({d} \X named)
    /\ overtaken' = overtaken \ ({d} \X (named \cup found))

\* A file has a caption; its second reading is queued.
Ingests(d, captioned, r) ==
    /\ d \notin Photo /\ reading[r].at = "idle"
    /\ Joins(d, captioned, {})
    /\ reading' = [reading EXCEPT ![r] = [Nobody EXCEPT !.at = "due", !.doc = d]]

\* A photo has a caption and what is proposed of it: the people of the vision
\* model's answer and title, or the faces known here.
IngestsPhoto(d, captioned, proposed) ==
    /\ d \in Photo
    /\ Joins(d, captioned, proposed)
    /\ UNCHANGED reading

\* rename_document: a union in one statement.
Renames(d, x) ==
    /\ d \in stored
    /\ subjects' = [subjects EXCEPT ![d] = @ \cup {x}]
    /\ ever' = ever \cup {<<d, x>>}
    /\ told' = told \cup {<<d, x>>}
    /\ overtaken' = overtaken \ {<<d, x>>}
    /\ UNCHANGED <<stored, reading, spotted>>

Deletes(d) ==
    /\ d \in stored
    /\ stored' = stored \ {d}
    /\ subjects' = [subjects EXCEPT ![d] = {}]
    /\ told' = told \ ({d} \X Registered) /\ overtaken' = overtaken \ ({d} \X Registered)
    /\ UNCHANGED <<reading, ever, spotted>>

\* "That is Ruma", after a photo: its subjects are read...
Links(d, x, r) ==
    /\ d \in stored \cap Photo /\ reading[r].at = "idle"
    /\ reading' = [reading EXCEPT ![r] = [at |-> "linking", doc |-> d, was |-> subjects[d],
                                        who |-> {x}]]
    /\ UNCHANGED <<stored, subjects, ever, spotted, told, overtaken>>

\* ... and written with the one named, who was not among them.
Linked(r) ==
    LET d   == reading[r].doc
        who == {d} \X reading[r].who
        now == reading[r].was \cup reading[r].who
    IN /\ reading[r].at = "linking"
       /\ reading' = [reading EXCEPT ![r] = Nobody]
       /\ IF d \in stored /\ ~(reading[r].who \subseteq reading[r].was)
          THEN /\ subjects' = [subjects EXCEPT ![d] = now]
               /\ ever' = ever \cup who /\ told' = told \cup who
               /\ overtaken' = (overtaken \ who) \cup {t \in told : t[1] = d /\ t[2] \notin now}
          ELSE UNCHANGED <<subjects, ever, told, overtaken>>
       /\ UNCHANGED <<stored, spotted>>

\* The second reading begins, with the subjects as they are then.
OpensText(r) ==
    LET d == reading[r].doc
    IN /\ reading[r].at = "due"
       /\ reading' = [reading EXCEPT ![r] = IF d \in stored
                                           THEN [@ EXCEPT !.at = "open", !.was = subjects[d]]
                                           ELSE Nobody]
       /\ UNCHANGED <<stored, subjects, ever, spotted, told, overtaken>>

\* gate: only names that stand in the text, and none of them twice.
Sifted(d, s, m) ==
    [subjects |-> s \cap People(InText, d), mentions |-> (m \cap People(InText, d)) \ s]

\* people_roles: without a usable answer the labels of the text decide.
ByLabels(d) ==
    [subjects |-> People(InText, d) \ People(Labelled, d), mentions |-> People(Labelled, d)]

\* understand: what the local model answers, or Nothing.
Silent == [subjects |-> {}, mentions |-> {}]
Understood(d, s, m) == IF s \cup m = {} THEN Silent ELSE Sifted(d, s, m)

Roles(d, s, m) ==
    IF Understood(d, s, m) = Silent THEN ByLabels(d) ELSE Understood(d, s, m)

\* A slip: what the reading finds replaces what was known.
OnlyFound(was, roles) == roles.subjects

\* Whom it was about, less those merely mentioned, and those the text is about.
Corrected(was, roles) == (was \ roles.mentions) \cup roles.subjects

\* The model answers (s, m), or nothing; the subjects are written when there
\* is news, and whom the owner named since the reading began is not among them.
Enriches(r, s, m) ==
    LET d     == reading[r].doc
        was   == reading[r].was
        roles == Roles(d, s, m)
        news  == ~(roles.subjects \subseteq was) \/ roles.mentions # {}
    IN /\ reading[r].at = "open"
       /\ reading' = [reading EXCEPT ![r] = Nobody]
       /\ IF news /\ d \in stored
          THEN /\ subjects' = [subjects EXCEPT ![d] = Corrected(was, roles)]
               /\ told' = told \ ({d} \X roles.mentions)
               /\ overtaken' = (overtaken \ ({d} \X roles.mentions))
                                \cup {t \in told' : t[1] = d /\ t[2] \notin was \cup roles.subjects}
          ELSE UNCHANGED <<subjects, told, overtaken>>
       /\ UNCHANGED <<stored, ever, spotted>>

ReadingNext ==
    \/ \E d \in Doc, X, Y \in SUBSET Registered, r \in Reader : Ingests(d, X, r) \/ IngestsPhoto(d, X, Y)
    \/ \E d \in Doc : Deletes(d) \/ \E x \in Registered : Renames(d, x)
    \/ \E d \in Doc, x \in Registered, r \in Reader : Links(d, x, r)
    \/ \E r \in Reader : Linked(r) \/ OpensText(r)
    \/ \E r \in Reader, s, m \in SUBSET Registered : Enriches(r, s, m)

ReadingSpec == ReadingInit /\ [][ReadingNext]_readingVars

(* ------------------------------ properties ----------------------------- *)

ReadingTypeOK ==
    /\ stored \subseteq Doc /\ subjects \in [Doc -> SUBSET Registered]
    /\ reading \in [Reader -> [at : {"idle", "due", "open", "linking"}, doc : Doc,
                             was : SUBSET Registered, who : SUBSET Registered]]
    /\ told \subseteq Doc \X Registered /\ overtaken \subseteq told /\ told \subseteq ever

\* Whom the owner named stays on the document until a reading finds that the
\* text merely mentions them, or one that began before overwrites it.
OwnersWordStays == \A t \in told \ overtaken : t[2] \in subjects[t[1]]

\* Nobody is on a document whom neither its text names, nor the owner ever did,
\* nor the vision model or a face put there; and of a file the text and the
\* owner are all there is.
Grounds == InText \cup ever \cup spotted
NobodyInvented ==
    /\ \A d \in Doc : subjects[d] \subseteq People(Grounds, d)
    /\ \A d \in Doc \ Photo : subjects[d] \subseteq People(InText \cup ever, d)

ReadingInv == ReadingTypeOK /\ OwnersWordStays /\ NobodyInvented

===============================================================================

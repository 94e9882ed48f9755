------------------------------ MODULE Originals ------------------------------
(* What becomes of the bytes of an uploaded document                         *)
(* (store/documents.py): the row in Postgres and the original under          *)
(* data/documents are two stores with no transaction across them.  An upload *)
(* looks for the same bytes, writes the file, then commits the row; a        *)
(* deletion commits the rows, then unlinks the files; a nightly sweep lists  *)
(* the directory, asks the database which files are named, and unlinks the   *)
(* rest.  The three run in worker threads and meet in any order, each may    *)
(* fail between two steps, and the process may die at any of them.           *)
(*                                                                           *)
(* A document is known by its text (the id is a digest of it).  The same     *)
(* bytes can be read as slightly different texts, and different bytes as the *)
(* same one: ReadsAs says which.  Whom a document is about is Reading's;     *)
(* here only the file matters.                                               *)
EXTENDS Naturals, FiniteSets

CONSTANTS
    Text,           \* what a document can say: its identity
    Bytes,          \* uploads, byte for byte
    Ext,            \* the file types that are stored
    ReadsAs,          \* <<bytes, text>>: the texts a pass of OCR can make of them
    ExtOf,          \* the type of each upload; NoExt when it is not stored
    NoExt, NoBytes, NoText,
    Uploader,       \* worker threads that take uploads
    MaxTrouble        \* bound: failed unlinks, failed stores and crashes

ASSUME OriginalsAssumption ==
    /\ ReadsAs \subseteq Bytes \X Text
    /\ ExtOf \in [Bytes -> Ext \cup {NoExt}]
    /\ NoExt \notin Ext /\ NoBytes \notin Bytes /\ NoText \notin Text
    /\ MaxTrouble \in Nat

VARIABLES
    document,    \* text |-> its row: bytes by hash, and the file it names; or NoRow
    disk,        \* <<text, ext>> |-> "none", "fresh" or "old" (over an hour)
    upload,      \* uploader |-> where its ingest is
    doomed,      \* the files a deletion still has to unlink
    orphans,     \* the nightly sweep: listed, then judged
    overtaken,   \* files that an upload and a removal had in hand together
    trouble        \* what has gone wrong so far

originalsVars == <<document, disk, upload, doomed, orphans, overtaken, trouble>>

File == Text \X Ext
NoRow == [hash |-> NoBytes, path |-> NoExt]
Live(t) == document[t] # NoRow

Idle == [at |-> "idle", bytes |-> NoBytes, text |-> NoText]
Resting == [at |-> "resting", files |-> {}]

Names(t) == IF document[t].path = NoExt THEN {} ELSE {<<t, document[t].path>>}
Named == UNION {Names(t) : t \in Text}
OnDisk == {f \in File : disk[f] # "none"}
\* Files that are written, and whose rows are not committed yet.
InHand == {<<upload[u].text, ExtOf[upload[u].bytes]>> :
              u \in {v \in Uploader : upload[v].at = "written"}}
Condemned == doomed \cup (IF orphans.at = "judged" THEN orphans.files ELSE {})

OriginalsInit ==
    /\ document = [t \in Text |-> NoRow]
    /\ disk = [f \in File |-> "none"]
    /\ upload = [u \in Uploader |-> Idle]
    /\ doomed = {} /\ orphans = Resting
    /\ overtaken = {} /\ trouble = 0

(* ------------------------------ an upload ------------------------------ *)

\* The same bytes are the same document, whatever OCR made of them this time:
\* the row found is only given the new title and people, in a transaction of
\* its own, and its id is the answer.  Otherwise the upload goes on to be stored.
Looks(u) ==
    /\ upload[u] = Idle
    /\ \E r \in ReadsAs :
        upload' = [upload EXCEPT ![u] =
            [at |-> IF \E s \in Text : document[s].hash = r[1] THEN "merging" ELSE "new",
             bytes |-> r[1], text |-> r[2]]]
    /\ UNCHANGED <<document, disk, doomed, orphans, overtaken, trouble>>

Merges(u) ==
    /\ upload[u].at = "merging"
    /\ upload' = [upload EXCEPT ![u] = Idle]
    /\ UNCHANGED <<document, disk, doomed, orphans, overtaken, trouble>>

\* _store_original: the bytes go to <id>.<ext>, over what was there, before
\* the row exists.  A type that is not stored leaves the row without a file.
Writes(u) ==
    LET f == <<upload[u].text, ExtOf[upload[u].bytes]>> IN
    /\ upload[u].at = "new"
    /\ upload' = [upload EXCEPT ![u].at = "written"]
    /\ IF f \in File
       THEN /\ disk' = [disk EXCEPT ![f] = "fresh"]
            /\ overtaken' = (overtaken \ {f}) \cup ({f} \cap Condemned)
       ELSE UNCHANGED <<disk, overtaken>>
    /\ UNCHANGED <<document, doomed, orphans, trouble>>

\* The upsert: a new file replaces the one the row named, and no file leaves
\* the row with the one it had.
Upserted(t, b) ==
    [hash |-> b,
     path |-> IF ExtOf[b] # NoExt THEN ExtOf[b] ELSE document[t].path]

Commits(u) ==
    /\ upload[u].at = "written"
    /\ document' = [document EXCEPT ![upload[u].text] =
                        Upserted(upload[u].text, upload[u].bytes)]
    /\ upload' = [upload EXCEPT ![u] = Idle]
    /\ UNCHANGED <<disk, doomed, orphans, overtaken, trouble>>

\* The database fails under it: the file stays, the row is as it was.
FailsToStore(u) ==
    /\ upload[u].at \in {"new", "written"} /\ trouble < MaxTrouble
    /\ upload' = [upload EXCEPT ![u] = Idle]
    /\ trouble' = trouble + 1
    /\ UNCHANGED <<document, disk, doomed, orphans, overtaken>>

(* ------------------------------ a deletion ----------------------------- *)

\* A slip: the files go inside the transaction, which may still roll back.
UnlinksFirst(T, commits) ==
    /\ document' = IF commits THEN [t \in Text |-> IF t \in T THEN NoRow ELSE document[t]]
                              ELSE document
    /\ disk' = [f \in File |-> IF f \in UNION {Names(t) : t \in T} THEN "none" ELSE disk[f]]
    /\ UNCHANGED <<doomed, overtaken>>

\* All rows go in one transaction or none does; only then are their files
\* condemned.
Removes(T, commits) ==
    /\ IF commits
       THEN /\ document' = [t \in Text |-> IF t \in T THEN NoRow ELSE document[t]]
            /\ doomed' = UNION {Names(t) : t \in T}
            /\ overtaken' = (overtaken \ doomed') \cup (doomed' \cap InHand)
       ELSE UNCHANGED <<document, doomed, overtaken>>
    /\ UNCHANGED disk

Deletes ==
    /\ doomed = {}
    /\ \E T \in SUBSET {t \in Text : Live(t)}, commits \in BOOLEAN :
        /\ T # {}
        /\ commits \/ trouble < MaxTrouble
        /\ Removes(T, commits)
        /\ trouble' = IF commits THEN trouble ELSE trouble + 1
    /\ UNCHANGED <<upload, orphans>>

\* Each unlink is contained: one that fails is logged, and the file stays.
Unlinks ==
    /\ \E f \in doomed, works \in BOOLEAN :
        /\ doomed' = doomed \ {f}
        /\ works \/ trouble < MaxTrouble
        /\ disk' = IF works THEN [disk EXCEPT ![f] = "none"] ELSE disk
        /\ trouble' = IF works THEN trouble ELSE trouble + 1
    /\ UNCHANGED <<document, upload, orphans, overtaken>>

(* --------------------------- the nightly sweep ------------------------- *)

\* An hour passes over a file; no upload sits between its file and its row
\* for that long.
Ages(f) ==
    /\ disk[f] = "fresh" /\ f \notin InHand
    /\ disk' = [disk EXCEPT ![f] = "old"]
    /\ UNCHANGED <<document, upload, doomed, orphans, overtaken, trouble>>

Lists ==
    /\ orphans = Resting
    /\ \E f \in File : disk[f] = "old"
    /\ orphans' = [at |-> "listed", files |-> {f \in File : disk[f] = "old"}]
    /\ UNCHANGED <<document, disk, upload, doomed, overtaken, trouble>>

\* A file is spared only when a row names exactly it: a superseded extension
\* of a living document is an orphan too.
Spares(files) == files \cap Named

\* The files written since they were listed are not looked at again.
Judges ==
    /\ orphans.at = "listed"
    /\ LET orphaned == orphans.files \ Spares(orphans.files) IN
        /\ orphans' = IF orphaned = {} THEN Resting
                      ELSE [at |-> "judged", files |-> orphaned]
        /\ overtaken' = overtaken \cup {f \in orphaned : disk[f] = "fresh"}
    /\ UNCHANGED <<document, disk, upload, doomed, trouble>>

Sweeps ==
    /\ orphans.at = "judged"
    /\ \E f \in orphans.files, works \in BOOLEAN :
        /\ works \/ trouble < MaxTrouble
        /\ disk' = IF works THEN [disk EXCEPT ![f] = "none"] ELSE disk
        /\ trouble' = IF works THEN trouble ELSE trouble + 1
        /\ orphans' = IF orphans.files = {f} THEN Resting
                      ELSE [orphans EXCEPT !.files = @ \ {f}]
    /\ UNCHANGED <<document, upload, doomed, overtaken>>

\* The process dies: what a thread had in hand is gone, both stores stay.
Dies ==
    /\ trouble < MaxTrouble
    /\ trouble' = trouble + 1
    /\ upload' = [u \in Uploader |-> Idle]
    /\ doomed' = {} /\ orphans' = Resting
    /\ UNCHANGED <<document, disk, overtaken>>

OriginalsNext ==
    \/ \E u \in Uploader :
        Looks(u) \/ Merges(u) \/ Writes(u) \/ Commits(u) \/ FailsToStore(u)
    \/ Deletes \/ Unlinks
    \/ \E f \in File : Ages(f)
    \/ Lists \/ Judges \/ Sweeps
    \/ Dies

\* Time passes, the sweep runs every night, and a thread that runs goes on.
OriginalsFairness ==
    /\ \A f \in File : WF_originalsVars(Ages(f))
    /\ WF_originalsVars(Lists)
    /\ WF_originalsVars(Judges) /\ WF_originalsVars(Sweeps) /\ WF_originalsVars(Unlinks)
    /\ \A u \in Uploader :
        WF_originalsVars(Merges(u) \/ Writes(u) \/ Commits(u))

OriginalsSpec == OriginalsInit /\ [][OriginalsNext]_originalsVars /\ OriginalsFairness

(* ------------------------------ properties ----------------------------- *)

OriginalsTypeOK ==
    /\ document \in [Text -> [hash : Bytes \cup {NoBytes}, path : Ext \cup {NoExt}]]
    /\ disk \in [File -> {"none", "fresh", "old"}]
    /\ upload \in [Uploader -> [at : {"idle", "merging", "new", "written"},
                               bytes : Bytes \cup {NoBytes}, text : Text \cup {NoText}]]
    /\ doomed \subseteq File /\ overtaken \subseteq File
    /\ orphans \in [at : {"resting", "listed", "judged"}, files : SUBSET File]
    /\ trouble \in 0..MaxTrouble

\* A document that is still listed has its original: whatever fails or dies
\* between the two stores, in an upload, a deletion or the sweep, leaves a file
\* too many and never one too few.  The one way to lose it is an upload that
\* has its file in hand while a deletion or the sweep condemns it.
BytesKept == Named \subseteq OnDisk \cup overtaken

OriginalsInv == OriginalsTypeOK /\ BytesKept

\* What no row names is gone in the end: the bytes of a deleted document do
\* not stay behind a failed unlink, a crash or a replaced extension.
OrphansGo == \A f \in File : []<>(f \in OnDisk => f \in Named)

=============================================================================

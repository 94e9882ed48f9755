-------------------------------- MODULE Intake --------------------------------
(* Photos and files that are sent to Kyraan (telegram_bot._on_photo, _on_pdf, *)
(* _on_document, agents/photo.py), and the faces it is asked to remember      *)
(* (agents/faces.py).                                                         *)
(*                                                                            *)
(* A photo is looked at by a model in the cloud and kept; a face in it becomes*)
(* a template only after a yes, in a file of this machine and a row of the    *)
(* mirror.  The handlers of media take no lock: photos are downloaded, looked *)
(* at and answered side by side, and beside the owner's turns.  The terminal  *)
(* and the resync script are processes of their own.                          *)
EXTENDS Naturals, FiniteSets

CONSTANTS Media,        \* what may be sent
          Name,         \* the people a face may be remembered as
          Sendable,     \* the kinds of message explored
          MaxSync       \* bound: runs of the resync script

\* What a message is: its sender, its caption, and whether one face shows in it.
\*   phrase   "remember this face as X"     natural  "remember this is X"
\*   words    another wording with "face", "remember", ... in it
\*   me       "this is me"                  bare     no caption
Caption == {"phrase", "natural", "words", "me", "bare", "talk"}
Shape == [kind : {"photo", "pdf", "file"}, from : {"owner", "guest"},
          face : BOOLEAN, caption : Caption]

ASSUME IntakeAssumption ==
    Sendable \subseteq Shape /\ IsFiniteSet(Name) /\ MaxSync \in Nat

VARIABLES
    shape,     \* what each message is, once sent
    at,        \* how far its handler is
    seen,      \* the enrolled people that were recognized in it
    store,     \* what was kept of it
    hand,      \* the photo last stashed ("the photo you just sent")
    ask,       \* the gated ask that waits in the owner's chat
    face,      \* the template files: the photos each holds a sample of
    row,       \* the mirror's rows
    fiber,     \* an enrollment's thread
    wiping,    \* people whose file is gone and whose rows are to go
    sync,      \* the resync script
    rounds,    \* how often it was run
    private,   \* private mode is on
    cloud,     \* ghost: what the cloud was shown
    leaked,    \* ghost: what it was shown while private mode was on
    shut,      \* ghost: photos that came while private mode was on
    shots,     \* ghost: photos whose own caption made an enrollment ask
    agreed,    \* ghost: the names whose ask got a yes
    calm,      \* ghost: no template changed and no statement failed since the
               \* script began
    level      \* ghost: no template changed since a calm run of it ended

mediaVars == <<shape, at, seen, store>>
faceVars == <<face, row, fiber, wiping, calm, level>>
scriptVars == <<sync, rounds>>
ghostVars == <<cloud, leaked, shut, shots, agreed>>
intakeVars == <<mediaVars, hand, ask, faceVars, scriptVars, private, ghostVars>>

NoPhoto == "none"
NoAsk == [does |-> "none"]
NoThread == [step |-> "none"]
Unsent == [kind |-> "none"]
Stage == {"unsent", "fetching", "looking", "called", "pages", "done"}
PhotoAsk == [does : {"these", "latest", "forget"}, name : Name, photo : Media \cup {NoPhoto}]
Thread == [step : {"read", "write", "mirror"}, name : Name, photo : Media, held : SUBSET Media]

IntakeTypeOK ==
    /\ shape \in [Media -> Shape \cup {Unsent}]
    /\ at \in [Media -> Stage]
    /\ seen \in [Media -> SUBSET Name]
    /\ store \in [Media -> {"nothing", "document", "moment"}]
    /\ hand \in Media \cup {NoPhoto}
    /\ ask \in PhotoAsk \cup {NoAsk}
    /\ face \in [Name -> SUBSET Media] /\ row \in [Name -> SUBSET Media]
    /\ fiber \in Thread \cup {NoThread}
    /\ wiping \subseteq Name /\ private \in BOOLEAN
    /\ cloud \subseteq Media /\ leaked \subseteq cloud
    /\ shut \subseteq Media /\ shots \subseteq Media

IntakeInit ==
    /\ shape = [m \in Media |-> Unsent] /\ at = [m \in Media |-> "unsent"]
    /\ seen = [m \in Media |-> {}] /\ store = [m \in Media |-> "nothing"]
    /\ hand = NoPhoto /\ ask = NoAsk
    /\ face = [n \in Name |-> {}] /\ row = [n \in Name |-> {}]
    /\ fiber = NoThread /\ wiping = {} /\ sync = NoThread /\ rounds = 0
    /\ private = FALSE
    /\ cloud = {} /\ leaked = {} /\ shut = {} /\ shots = {} /\ agreed = {}
    /\ calm = FALSE /\ level = TRUE

Enrolled == {n \in Name : face[n] # {}}
GoesTo(m, s) == at' = [at EXCEPT ![m] = s]
Shown(m) == /\ cloud' = cloud \cup {m}
            /\ leaked' = IF private THEN leaked \cup {m} ELSE leaked

(* ------------------------------ what is sent ---------------------------- *)

\* The owner's media are always taken, a guest's by a grant; the rest is
\* answered with a line, or with silence.
Sends(m) ==
    /\ at[m] = "unsent"
    /\ \E s \in Sendable : shape' = [shape EXCEPT ![m] = s]
    /\ GoesTo(m, "fetching") \/ GoesTo(m, "done")
    /\ UNCHANGED <<seen, store, hand, ask, faceVars, scriptVars, private, ghostVars>>

Owned(m) == shape[m].from = "owner"
Is(m, k) == shape[m].kind = k

\* The name a caption asks to enroll, by the patterns: a natural wording needs
\* one face in the photo, a bare photo that Kyraan itself asked for it.
Asked(m) ==
    IF ~Owned(m) THEN {NoPhoto} ELSE
    CASE shape[m].caption \in {"phrase", "me"} -> Name
      [] shape[m].caption = "natural" -> IF shape[m].face THEN Name ELSE {NoPhoto}
      [] shape[m].caption = "bare" -> Name \cup {NoPhoto}
      [] OTHER -> {NoPhoto}

\* A slip: private mode is not looked at.
NeverCloses(m) == FALSE

\* Private mode: the owner's photo is not looked at.
Closed(m) == private /\ Owned(m)

\* The templates are the owner's: nobody else's photo is compared with them.
Recognizes(m) == Owned(m)

Enrolling(m, n) == /\ ask' = [does |-> "these", name |-> n, photo |-> m]
                   /\ shots' = shots \cup {m}

\* The photo is downloaded: stashed, then refused, or made an ask (unless
\* recognition is not set up), or looked at.
Fetched(m) ==
    /\ at[m] = "fetching" /\ Is(m, "photo")
    /\ hand' = IF Owned(m) THEN m ELSE hand
    /\ shut' = IF private /\ Owned(m) THEN shut \cup {m} ELSE shut
    /\ \/ /\ Closed(m)
          /\ GoesTo(m, "done") /\ UNCHANGED <<ask, seen, shots>>
       \/ /\ ~Closed(m)
          /\ \E n \in Asked(m) \ {NoPhoto} : Enrolling(m, n) \/ UNCHANGED <<ask, shots>>
          /\ GoesTo(m, "done") /\ UNCHANGED seen
       \/ /\ ~Closed(m) /\ NoPhoto \in Asked(m)
          /\ \E r \in SUBSET Enrolled :
                /\ r # {} => Recognizes(m)
                /\ seen' = [seen EXCEPT ![m] = r]
          /\ GoesTo(m, "looking") /\ UNCHANGED <<ask, shots>>
    /\ UNCHANGED <<shape, store, faceVars, scriptVars, private, cloud, leaked, agreed>>

\* The recognition's thread is back: the photo goes to the cloud model.
Calls(m) ==
    /\ at[m] = "looking"
    /\ GoesTo(m, "called") /\ Shown(m)
    /\ UNCHANGED <<shape, seen, store, hand, ask, faceVars, scriptVars, private,
                   shut, shots, agreed>>

Worded(m) == shape[m].caption \in {"phrase", "natural", "words"}

\* A slip: an enrollment shot is a memory like any other.
KeptAnyway(text, wish) == IF text THEN "document" ELSE "moment"

\* What is kept of a photo: a text in it as a document, whatever the caption
\* wished; else the photo as a moment, unless the model read a wish to enroll.
Kept(text, wish) == CASE text -> "document" [] ~text /\ ~wish -> "moment" [] OTHER -> "nothing"

\* The answer: it is kept, or that fails; and the channel asks for the enrollment
\* that a caption with a word for it wished (the owner's only, and unless
\* recognition is not set up).
Answers(m) ==
    /\ at[m] = "called" /\ GoesTo(m, "done")
    /\ \E text, wish \in BOOLEAN :
          /\ wish => Worded(m)
          /\ store' \in {store, [store EXCEPT ![m] = Kept(text, wish)]}
          /\ \/ wish /\ Owned(m) /\ \E n \in Name : Enrolling(m, n)
             \/ UNCHANGED <<ask, shots>>
    /\ UNCHANGED <<shape, seen, hand, faceVars, scriptVars, private, cloud, leaked, shut, agreed>>

\* The model is out, or the download or the handler fails: said so.
CallFails(m) ==
    /\ at[m] \in {"fetching", "called", "pages"} /\ GoesTo(m, "done")
    /\ UNCHANGED <<shape, seen, store, hand, ask, faceVars, scriptVars, private, ghostVars>>

\* A PDF with a text layer, and any other file, is read here ...
ReadsPhoto(m) ==
    /\ at[m] = "fetching" /\ ~Is(m, "photo") /\ GoesTo(m, "done")
    /\ store' \in {store, [store EXCEPT ![m] = "document"]}
    /\ UNCHANGED <<shape, seen, hand, ask, faceVars, scriptVars, private, ghostVars>>

\* ... and the pages of a scan by the model in the cloud, one after another.
Scans(m) ==
    /\ at[m] \in {"fetching", "pages"} /\ Is(m, "pdf")
    /\ Shown(m)
    /\ GoesTo(m, "pages")
    /\ UNCHANGED <<shape, seen, store, hand, ask, faceVars, scriptVars, private,
                   shut, shots, agreed>>

Scanned(m) ==
    /\ at[m] = "pages" /\ GoesTo(m, "done")
    /\ store' \in {store, [store EXCEPT ![m] = "document"]}
    /\ UNCHANGED <<shape, seen, hand, ask, faceVars, scriptVars, private, ghostVars>>

(* --------------------------- the owner's turns -------------------------- *)

\* A chat's turns are serialized; an enrollment is the whole of one.
FiberFree == fiber = NoThread

\* "remember as X", through the tool loop: the photo last stashed.
AsksLatest ==
    /\ FiberFree /\ hand # NoPhoto
    /\ \E n \in Name : ask' = [does |-> "latest", name |-> n, photo |-> hand]
    /\ UNCHANGED <<mediaVars, hand, faceVars, scriptVars, private, ghostVars>>

AsksForget ==
    /\ FiberFree
    /\ \E n \in Enrolled : ask' = [does |-> "forget", name |-> n, photo |-> NoPhoto]
    /\ UNCHANGED <<mediaVars, hand, faceVars, scriptVars, private, ghostVars>>

MovesOn ==
    /\ FiberFree /\ ask # NoAsk /\ ask' = NoAsk
    /\ UNCHANGED <<mediaVars, hand, faceVars, scriptVars, private, ghostVars>>

\* The photo is out of hand after ten minutes.
PhotoAges ==
    /\ hand # NoPhoto /\ hand' = NoPhoto
    /\ UNCHANGED <<mediaVars, ask, faceVars, scriptVars, private, ghostVars>>

SwitchesPrivate ==
    /\ FiberFree /\ private' = ~private
    /\ UNCHANGED <<mediaVars, hand, ask, faceVars, scriptVars, ghostVars>>

\* What a yes enrolls: the bytes the ask was about - but the loop's tool runs
\* again, and takes what is in hand now.
Taken == IF ask.does = "latest" THEN hand ELSE ask.photo

Enrolls ==
    /\ FiberFree /\ ask # NoAsk /\ ask.does \in {"these", "latest"}
    /\ ask' = NoAsk
    /\ agreed' = agreed \cup {ask.name}
    /\ fiber' = IF Taken # NoPhoto /\ shape[Taken].face
                THEN [step |-> "read", name |-> ask.name, photo |-> Taken, held |-> {}]
                ELSE NoThread
    /\ UNCHANGED <<mediaVars, hand, face, row, wiping, calm, level, scriptVars,
                   private, cloud, leaked, shut, shots>>

\* The file goes at once; its rows follow.
UnlinksFace(n) ==
    /\ face[n] # {}
    /\ face' = [face EXCEPT ![n] = {}]
    /\ wiping' = wiping \cup {n}
    /\ calm' = FALSE /\ level' = FALSE
    /\ UNCHANGED <<mediaVars, hand, row, fiber, scriptVars, private, ghostVars>>

ForgetsFace == /\ FiberFree /\ ask # NoAsk /\ ask.does = "forget" /\ ask' = NoAsk
           /\ UnlinksFace(ask.name)

\* At the terminal, in a process of its own.
ForgetsThere == UNCHANGED ask /\ \E n \in Name : UnlinksFace(n)

\* The mirror may be out: then only the log knows.
Wipes(n) ==
    /\ n \in wiping /\ wiping' = wiping \ {n}
    /\ \/ row' = [row EXCEPT ![n] = {}] /\ UNCHANGED calm
       \/ row' = row /\ calm' = FALSE
    /\ UNCHANGED <<mediaVars, hand, ask, face, fiber, level, scriptVars, private, ghostVars>>

(* --------------------------- the enrollment's thread -------------------- *)

ReadFace == [fiber EXCEPT !.step = "write", !.held = face[fiber.name]]

EnrollReads ==
    /\ fiber.step = "read" /\ fiber' = ReadFace
    /\ UNCHANGED <<mediaVars, hand, ask, face, row, wiping, calm, level,
                   scriptVars, private, ghostVars>>

\* The samples that were read, and the new one.
Adds == [face EXCEPT ![fiber.name] = fiber.held \cup {fiber.photo}]

EnrollWrites ==
    /\ fiber.step = "write"
    /\ face' = Adds
    /\ fiber' = [fiber EXCEPT !.step = "mirror"]
    /\ calm' = FALSE /\ level' = FALSE
    /\ UNCHANGED <<mediaVars, hand, ask, row, wiping, scriptVars, private, ghostVars>>

EnrollMirrors ==
    /\ fiber.step = "mirror" /\ fiber' = NoThread
    /\ \/ /\ row' = [row EXCEPT ![fiber.name] = fiber.held \cup {fiber.photo}]
          /\ UNCHANGED calm
       \/ row' = row /\ calm' = FALSE
    /\ UNCHANGED <<mediaVars, hand, ask, face, wiping, level, scriptVars, private, ghostVars>>

(* --------------------------- the resync script -------------------------- *)

SyncBegins ==
    /\ sync = NoThread /\ rounds < MaxSync /\ rounds' = rounds + 1
    /\ sync' = [step |-> "list", todo |-> Enrolled, slugs |-> {}]
    /\ calm' = (wiping = {} /\ fiber = NoThread)
    /\ UNCHANGED <<mediaVars, hand, ask, face, row, fiber, wiping, level, private, ghostVars>>

\* A file that is gone by now is passed over, and its rows go in the end.
SyncReads ==
    /\ sync.step = "list"
    /\ \E n \in sync.todo :
          sync' = IF face[n] = {}
                  THEN [sync EXCEPT !.todo = @ \ {n}]
                  ELSE [step |-> "read", todo |-> sync.todo \ {n},
                        slugs |-> sync.slugs \cup {n}, name |-> n, held |-> face[n]]
    /\ UNCHANGED <<mediaVars, hand, ask, faceVars, rounds, private, ghostVars>>

SyncMirrors ==
    /\ sync.step = "read"
    /\ sync' = [step |-> "list", todo |-> sync.todo, slugs |-> sync.slugs]
    /\ \/ row' = [row EXCEPT ![sync.name] = sync.held] /\ UNCHANGED calm
       \/ row' = row /\ calm' = FALSE
    /\ UNCHANGED <<mediaVars, hand, ask, face, fiber, wiping, level, rounds, private, ghostVars>>

\* Rows whose file the script did not see are deleted.
Swept(n) == IF n \in sync.slugs THEN row[n] ELSE {}

SyncEnds ==
    /\ sync.step = "list" /\ sync.todo = {}
    /\ sync' = NoThread
    /\ \/ row' = [n \in Name |-> Swept(n)] /\ level' = (level \/ calm)
       \/ UNCHANGED <<row, level>>
    /\ calm' = FALSE
    /\ UNCHANGED <<mediaVars, hand, ask, face, fiber, wiping, rounds, private, ghostVars>>

Handles(m) ==
    \/ Sends(m) \/ Fetched(m) \/ Calls(m) \/ Answers(m) \/ CallFails(m)
    \/ ReadsPhoto(m) \/ Scans(m) \/ Scanned(m)

IntakeNext ==
    \/ \E m \in Media : Handles(m)
    \/ AsksLatest \/ AsksForget \/ MovesOn \/ PhotoAges \/ SwitchesPrivate \/ Enrolls
    \/ ForgetsFace \/ ForgetsThere \/ \E n \in Name : Wipes(n)
    \/ EnrollReads \/ EnrollWrites \/ EnrollMirrors
    \/ SyncBegins \/ SyncReads \/ SyncMirrors \/ SyncEnds

IntakeSpec == IntakeInit /\ [][IntakeNext]_intakeVars

-----------------------------------------------------------------------------
(* What is checked. *)

Samples == UNION {{n} \X face[n] : n \in Name}

\* A template is made of photos the owner sent, each with one face in it, and
\* under a name the owner said yes to.
Consent ==
    \A s \in Samples :
        /\ Owned(s[2]) /\ shape[s[2]].face
        /\ s[1] \in agreed

\* Nobody else's photo is compared with the templates, or can be enrolled.
GuestsAreNotRead ==
    /\ \A m \in Media : seen[m] # {} => Owned(m)
    /\ hand # NoPhoto => Owned(hand)
    /\ ask # NoAsk /\ ask.photo # NoPhoto => Owned(ask.photo)

\* A photo that comes while private mode is on is never shown to the cloud.
ShutStaysShut == shut \cap cloud = {}

\* Enrollment shots stay out of the memories (photo.py:250): a photo whose own
\* caption made an ask is never kept as a moment.  As a document it may be: the
\* code keeps a text it read before it asks.  And of a photo that nothing looked
\* at, refused in private mode or asked about at once, nothing is kept.
ShotsStayOut ==
    \A m \in Media :
        /\ m \in shots => store[m] # "moment"
        /\ Is(m, "photo") /\ store[m] # "nothing" => m \in cloud

\* Once the script ran undisturbed the mirror holds what the files hold, until a
\* template changes.
MirrorIsLevel == level => row = face

\* Templates hold what was agreed to, guests are kept from them, private photos
\* from the cloud, enrollment shots from the moments, and the script brings the
\* mirror to the files.
IntakeInv == IntakeTypeOK /\ Consent /\ GuestsAreNotRead /\ ShutStaysShut
             /\ ShotsStayOut /\ MirrorIsLevel
=============================================================================

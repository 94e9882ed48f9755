------------------------------ MODULE MCHouse ------------------------------
(* The house at work: tool calls under the kernel, the Echos and the voice *)
(* notes, the notes of the vault, and the day's duties.  The models share  *)
(* no state, so one part moves in each behaviour; nor do the duties, each  *)
(* with a file of its own, so one of them has something to say in each.    *)
EXTENDS MCKernel, Voice, Library, Duties

CONSTANTS v1, v2, v3, photo, mother

VARIABLE part

houseVars == <<vars, voiceVars, libraryVars, dutiesVars, part>>

MCMentions    == {<<v1, mother>>, <<v2, mother>>}
MCIllustrates == {<<v1, photo>>, <<v2, photo>>}

DutyItems == [alerts |-> Alert, settle |-> Stewards, brief |-> Question]

(* A part that stands still is in one initial state. *)
HouseInit ==
    /\ Init /\ VoiceInit /\ LibraryInit /\ DutiesInit
    /\ part \in {"kernel", "voice", "library"} \cup Duty
    /\ part # "kernel" => specs = CHOOSE r \in Offered : Loads(r)
    /\ part # "library" => vault = [p \in Path |-> Absent]

HouseNext ==
    /\ UNCHANGED part
    /\ \/ part = "kernel" /\ Next /\ UNCHANGED <<voiceVars, libraryVars, dutiesVars>>
       \/ part = "voice" /\ VoiceNext /\ UNCHANGED <<vars, libraryVars, dutiesVars>>
       \/ part = "library" /\ LibraryNext /\ UNCHANGED <<vars, voiceVars, dutiesVars>>
       \/ /\ part \in Duty /\ DutiesNext /\ due' \subseteq DutyItems[part]
          /\ UNCHANGED <<vars, voiceVars, libraryVars>>

(* The fairness of FairSpec, VoiceFairness, LibraryFairness and            *)
(* DutiesFairness, each for the part that moves.                           *)
HouseFairness ==
    LET Stirs(p, A) == part = p /\ A
    IN  /\ \A c \in Callers :
            /\ WF_vars(Stirs("kernel", Conclude(c)))
            /\ WF_vars(Stirs("kernel", (Cancel(c) \/ Builtin(c)) /\ UNCHANGED kernelVars))
        /\ WF_voiceVars(Stirs("voice", TurnEnds)) /\ WF_voiceVars(Stirs("voice", Speaks))
        /\ WF_voiceVars(Stirs("voice", Mirrors)) /\ WF_voiceVars(Stirs("voice", PollEnds))
        /\ WF_voiceVars(Stirs("voice", ProbeEnds)) /\ SF_voiceVars(Stirs("voice", PollBegins))
        /\ \A e \in Echo : WF_voiceVars(Stirs("voice", Reads(e)))
        /\ \A x \in Note : WF_voiceVars(Stirs("voice", Takes(x)))
        /\ WF_libraryVars(Stirs("library", Starts("nightly")))
        /\ WF_libraryVars(Stirs("library", Looks("nightly", FALSE)))
        /\ WF_libraryVars(Stirs("library", Stores("nightly")))
        /\ WF_libraryVars(Stirs("library", Ends("nightly")))
        /\ \A k \in Duty :
            /\ WF_dutiesVars(Stirs(k, AlertSteps)) /\ WF_dutiesVars(Stirs(k, SettleSteps))
            /\ WF_dutiesVars(Stirs(k, BriefSteps))

HouseSpec == HouseInit /\ [][HouseNext]_houseVars /\ HouseFairness
-----------------------------------------------------------------------------
(* Alerts and reminders of the house are said, what is said to an Echo is  *)
(* heard, and the library follows the vault (home_alerts.py,               *)
(* house_steward.py, voice_echo.py, documents.py).                         *)
HouseKeepsUp == DueIsSaid /\ SaidIsHeard /\ VaultIsFollowed
=============================================================================

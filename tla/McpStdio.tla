------------------------------ MODULE McpStdio ------------------------------
(***************************************************************************)
(* The MCP adapter of the tool registry (tools/registry.py): one child     *)
(* process, one request on its pipe at a time.  A caller may be cancelled  *)
(* at every await (the kernel's wait_for), the child may be slow, die, or  *)
(* answer a request whose caller is gone.  The child is external: it       *)
(* serves the lines it reads in order.  Lines that are no reply, the       *)
(* environment and the decoding of results are left out.                   *)
(***************************************************************************)
EXTENDS Naturals, Sequences

CONSTANTS Callers,  \* concurrent calls of adapter.call
          Ids       \* the values of the request counter, reused when nothing names them

ASSUME IdsAssumption == Ids \subseteq Nat \ {0}

VARIABLES
  at,    \* where each caller is: "out", "builtin" (another adapter), "queued" for the lock, ...
  want,  \* the id each caller waits for, 0 when it waits for none
  out,   \* how its last call ended, "none" when the kernel has taken notice
  child  \* self._proc and its two pipes

mcpVars == <<at, want, out, child>>

\* "none": self._proc is None.  "up".  "dead": the process is gone, returncode is not
\* yet set.  "reaped": returncode is set.  "shook": its handshake has finished.
NoChild == [state |-> "none", shook |-> FALSE, inq |-> <<>>, outq |-> <<>>]
NewChild == [NoChild EXCEPT !.state = "up"]

Places == {"out", "builtin", "queued", "spawning", "shaking", "reading"}
Outcomes == {"ok", "hard", "transient", "timeout", "crossed"}
Request == [id : Ids, kind : {"initialize", "call"}, by : Callers]
Reply == [id : Ids, by : Callers]

McpTypeOK ==
  /\ at \in [Callers -> Places] /\ want \in [Callers -> Ids \cup {0}]
  /\ out \in [Callers -> Outcomes \cup {"none"}]
  /\ child \in [state : {"none", "up", "dead", "reaped"}, shook : BOOLEAN,
                inq : Seq(Request), outq : Seq(Reply)]

McpInit ==
  /\ at = [c \in Callers |-> "out"] /\ want = [c \in Callers |-> 0]
  /\ out = [c \in Callers |-> "none"] /\ child = NoChild

----------------------------------------------------------------------------
InLock(c) == at[c] \in {"spawning", "shaking", "reading"}

\* The counter of the code never repeats and ids are only compared: an id that no line
\* in the pipes and no caller names is as good as a new one.
Named == {want[c] : c \in Callers} \cup {child.inq[i].id : i \in DOMAIN child.inq}
         \cup {child.outq[i].id : i \in DOMAIN child.outq}

NewId == CHOOSE i \in Ids : i \notin Named

\* c leaves the adapter with an outcome and the lock is released.
Leave(c, o) ==
  /\ at' = [at EXCEPT ![c] = "out"] /\ want' = [want EXCEPT ![c] = 0]
  /\ out' = [out EXCEPT ![c] = o]

\* _request up to its first readline: the line goes to the child ch.  A pipe whose
\* reader is gone breaks, and call() forgets the child; when the break is not seen
\* by drain() the line is lost and the read finds the end of file.
Write(c, ch, kind, place) ==
  \/ /\ Ids \ Named # {} /\ want' = [want EXCEPT ![c] = NewId]
     /\ child' = IF ch.state = "up"
                 THEN [ch EXCEPT !.inq = Append(@, [id |-> NewId, kind |-> kind, by |-> c])]
                 ELSE ch
     /\ at' = [at EXCEPT ![c] = place] /\ UNCHANGED out
  \/ ch.state # "up" /\ Leave(c, "transient") /\ child' = NoChild

\* call() gets the lock: a child that runs (returncode is None) is used as it is.
Acquire(c) ==
  /\ at[c] = "queued" /\ \A d \in Callers : ~InLock(d)
  /\ \/ child.state \in {"up", "dead"} /\ Write(c, child, "call", "reading")
     \/ /\ child.state \in {"none", "reaped"}
        /\ at' = [at EXCEPT ![c] = "spawning"] /\ UNCHANGED <<want, out, child>>

\* The executable is not on the PATH.
Missing(c) == at[c] = "spawning" /\ Leave(c, "hard") /\ UNCHANGED child

\* The new process is assigned to self._proc and the handshake starts.
Spawned(c) == at[c] = "spawning" /\ Write(c, NewChild, "initialize", "shaking")

\* The next line on stdout: a reply to another request is skipped.
Mine(c, r) == r.id = want[c]

Skip(c) ==
  /\ at[c] \in {"shaking", "reading"} /\ child.outq # <<>> /\ ~Mine(c, Head(child.outq))
  /\ child' = [child EXCEPT !.outq = Tail(@)] /\ UNCHANGED <<at, want, out>>

\* The handshake is answered: on success the call itself is written in the same
\* step, on an error the child is killed and forgotten.
Shook(c, good) ==
  /\ at[c] = "shaking" /\ child.outq # <<>> /\ Mine(c, Head(child.outq))
  /\ LET ch == [child EXCEPT !.outq = Tail(@), !.shook = TRUE]
     IN IF good THEN Write(c, ch, "call", "reading")
        ELSE Leave(c, "hard") /\ child' = NoChild

\* The call is answered, well or with an error.
Answered(c, good) ==
  /\ at[c] = "reading" /\ child.outq # <<>> /\ Mine(c, Head(child.outq))
  /\ Leave(c, IF Head(child.outq).by # c THEN "crossed" ELSE IF good THEN "ok" ELSE "hard")
  /\ child' = [child EXCEPT !.outq = Tail(@)]

\* End of file mid-request: the handshake's handler forgets the child, call() does not.
Closed(c) ==
  /\ at[c] \in {"shaking", "reading"} /\ child.outq = <<>> /\ child.state \in {"dead", "reaped"}
  /\ Leave(c, "transient")
  /\ child' = IF at[c] = "shaking" THEN NoChild ELSE child

\* The kernel's timeout cancels the call wherever it waits.  CancelledError is no
\* Exception: the handler around the handshake does not run.
Cancel(c) == at[c] \notin {"out", "builtin"} /\ Leave(c, "timeout") /\ UNCHANGED child

----------------------------------------------------------------------------
(* The child process *)

\* It reads a line and answers it.  What the answer says is chosen when it is read.
Serve ==
  /\ child.state = "up" /\ child.inq # <<>>
  /\ LET q == Head(child.inq)
     IN child' = [child EXCEPT !.inq = Tail(@), !.outq = Append(@, [id |-> q.id, by |-> q.by])]
  /\ UNCHANGED <<at, want, out>>

\* It dies; what it has written can still be read.
Die ==
  /\ child.state = "up" /\ child' = [child EXCEPT !.state = "dead", !.inq = <<>>]
  /\ UNCHANGED <<at, want, out>>

\* The event loop's child watcher sets returncode.
Reap ==
  /\ child.state = "dead" /\ child' = [child EXCEPT !.state = "reaped"]
  /\ UNCHANGED <<at, want, out>>

Adapter(c) ==
  \/ Acquire(c) \/ Missing(c) \/ Spawned(c) \/ Skip(c) \/ Closed(c)
  \/ \E good \in BOOLEAN : Shook(c, good) \/ Answered(c, good)
Child == Serve \/ Die \/ Reap
=============================================================================

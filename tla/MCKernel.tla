---- MODULE MCKernel ----
(* Registries for TLC: a read and a confirmed write of an MCP server and an exempt *)
(* automatic tool; two registries that load and three that must not.              *)
EXTENDS Kernel, TLC
CONSTANTS owner, guest, read, write, play, good, bad
MCCallers == {owner, guest}
MCTools == {read, write, play}
MCRemote == {read, write}
MCExempt == {play}
MCArgs == {good, bad}
MCBad == {<<read, bad>>}
MCScope == (owner :> MCTools) @@ (guest :> {read})
MCActing == {owner}
Ask(t, a, y, m) == [tool |-> t, args |-> a, yes |-> y, meta |-> m]
MCRequests ==
  (owner :> {Ask(read, good, FALSE, FALSE), Ask(read, good, FALSE, TRUE), Ask(play, good, FALSE, FALSE),
             Ask(write, good, FALSE, FALSE), Ask(write, good, TRUE, TRUE)})
  @@ (guest :> {Ask(read, good, FALSE, FALSE), Ask(read, bad, FALSE, FALSE), Ask(play, good, FALSE, FALSE)})
E1(p, e, n, f) == [perm |-> p, effect |-> e, retries |-> n, fail |-> f]
Reg(r, w, p) == (read :> r) @@ (write :> w) @@ (play :> p)
\* read falls back to play, and play to read: a cycle.
Cycle == Reg(E1("auto", "read", 0, play), E1("confirm", "write", 0, "surface"),
             E1("auto", "notify", 0, read))
Quiet == Reg(E1("auto", "read", 1, write), E1("disabled", "write", 0, "surface"),
             E1("auto", "notify", 0, "silent"))
\* A fallback that asks, an automatic write, a tool that falls back to itself.
Springs == Reg(E1("auto", "read", 0, write), E1("confirm", "write", 0, "surface"),
               E1("auto", "notify", 0, "surface"))
Automatic == Reg(E1("auto", "read", 0, "surface"), E1("auto", "write", 0, "surface"),
                 E1("auto", "notify", 0, "surface"))
Itself == Reg(E1("auto", "read", 0, read), E1("confirm", "write", 0, "surface"),
              E1("auto", "notify", 0, "surface"))
MCOffered == {Cycle, Quiet, Springs, Automatic, Itself}
====

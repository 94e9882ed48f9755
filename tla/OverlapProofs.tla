---------------------------- MODULE OverlapProofs ----------------------------
(***************************************************************************)
(* Five things of the house that several actors do at once, for every      *)
(* value of the constants: the two readings of a document (Reading), the   *)
(* undo of the last writes (Undo), the rails an exchange moves on (Rails), *)
(* what waits for the owner's review (Review) and the coding agent         *)
(* (CodeAgent).  Each part first strengthens the component's invariant to  *)
(* one that every step keeps.                                              *)
(***************************************************************************)
EXTENDS Reading, Undo, Rails, Review, CodeAgent,
        FiniteSetTheorems, SequenceTheorems, WellFoundedInduction, TLAPS

-----------------------------------------------------------------------------
(* The least of a set of numbers.                                          *)
LEMMA Least == ASSUME NEW T \in SUBSET Nat, T # {} PROVE \E x \in T : \A y \in T : x <= y
<1>1. PICK R : R = {ss \in Nat \X Nat : ss[1] < ss[2]}
  OBVIOUS
<1>2. R = OpToRel(<, Nat)
  BY <1>1, Zenon DEF OpToRel
<1>3. IsWellFoundedOn(R, Nat)
  BY <1>2, NatLessThanWellFounded, Zenon
<1>4. PICK x \in T : \A y \in T : ~(<<y, x>> \in R)
  BY <1>3, WFMin
<1>5. \A y \in T : ~(y < x)
  BY <1>1, <1>4
<1> QED  BY <1>4, <1>5

LEMMA NewestIs ==
    ASSUME NEW n \in Nat, NEW S \in SUBSET (1 .. n), S # {}
    PROVE  Newest(S) \in S /\ \A j \in S : j <= Newest(S)
<1>1. PICK U : U = {n - x : x \in S}
  OBVIOUS
<1>2. \A x \in S : x \in 1 .. n /\ n - x \in Nat
  OBVIOUS
<1>3. U \in SUBSET Nat /\ U # {}
  BY <1>1, <1>2
<1>4. PICK u \in U : \A v \in U : u <= v
  BY <1>3, Least
<1>5. PICK x \in S : u = n - x
  BY <1>1
<1>6. ASSUME NEW y \in S PROVE y <= x
  <2>1. n - y \in U
    BY <1>1
  <2>2. n - x <= n - y
    BY <1>4, <1>5, <2>1
  <2>3. x \in 1 .. n /\ y \in 1 .. n
    OBVIOUS
  <2> QED  BY <2>2, <2>3
<1>7. \E k \in S : \A j \in S : j <= k
  BY <1>6
<1> QED  BY <1>7 DEF Newest

LEMMA NewestOf ==
    ASSUME NEW n \in Nat, NEW S \in SUBSET (1 .. n), NEW k \in S, \A j \in S : j <= k
    PROVE  Newest(S) = k
<1>1. Newest(S) \in S /\ k <= Newest(S) /\ Newest(S) <= k
  BY NewestIs
<1>2. Newest(S) \in Nat /\ k \in Nat
  <2>1. \A j \in S : j \in Nat
    OBVIOUS
  <2> QED  BY <1>1, <2>1
<1> QED  BY <1>1, <1>2
-----------------------------------------------------------------------------
(***************************************************************************)
(* The chain of writes.  Of the writes that stand about one switch, each   *)
(* observed what the one before it had put; only the newest of a kind is   *)
(* undone, so the chain loses its last link and the switch is put where    *)
(* the link before it had it.  What waits for a yes is such a last link as *)
(* long as nothing was written since the ask.                              *)
(***************************************************************************)
StandsAt(s) == {k \in 1 .. Len(log) : ~log[k].undone /\ log[k].about = s}
Before(S, k) == {j \in S : j < k}
PutBy(s, S) == IF S = {} THEN first[s] ELSE log[Newest(S)].to

Chained(s) ==
    /\ switch[s] = PutBy(s, StandsAt(s))
    /\ \A k \in StandsAt(s) :
          log[k].inverse = "switch" => log[k].was = PutBy(s, Before(StandsAt(s), k))

MadeBy == {k \in 1 .. Len(log) : ~log[k].undone /\ log[k].kind = "reminders" /\ log[k].inverse = "cancel"}
GoneBy == {k \in 1 .. Len(log) : ~log[k].undone /\ log[k].kind = "reminders" /\ log[k].to = "gone"}
Counted == Cardinality(Live) = Cardinality(MadeBy) - Cardinality(GoneBy)

UndoShape ==
    /\ switch \in [Switch -> Position] /\ first \in [Switch -> Position]
    /\ items \in Seq(Time \cup {"gone"}) /\ Len(items) <= MaxItems
    /\ log \in Seq(Write) /\ Len(log) <= MaxLog
    /\ ask \in 0 .. Len(log) /\ asked \in 0 .. Len(log)
    /\ runs \in Seq(Nat) /\ Len(runs) = Len(log)
    /\ amiss \subseteq {"unlogged", "unmarked", "overtaken", "elsewhere"}

\* What each kind of write leaves for its inverse.
WriteRight(w) ==
    /\ w.about \in Switch => w.kind = "home" /\ w.inverse \in {"switch", "none"}
    /\ w.inverse = "switch" => w.about \in Switch /\ w.was \in Position
    /\ w.kind = "home" => w.inverse \in {"switch", "none"}
    /\ w.inverse = "cancel" => w.kind = "reminders" /\ w.was = "gone" /\ w.to # "gone"
    /\ w.inverse = "recreate" => w.kind = "reminders" /\ w.was \in Time /\ w.to = "gone"
    /\ w.inverse = "move" => w.kind = "reminders" /\ w.was \in Time /\ w.to # "gone"

WritesRight == \A k \in 1 .. Len(log) : WriteRight(log[k])

\* What waits for a yes stands, and is the newest of its kind unless something
\* was written since.
AskRight ==
    ask # 0 =>
        /\ ~log[ask].undone /\ log[ask].inverse # "none"
        /\ (amiss = {} /\ asked = Len(log)) =>
              \A j \in 1 .. Len(log) : (~log[j].undone /\ log[j].kind = log[ask].kind) => j <= ask

RunsRight ==
    "unmarked" \notin amiss =>
        \A k \in 1 .. Len(log) : runs[k] <= 1 /\ (~log[k].undone => runs[k] = 0)

BackRight ==
    amiss = {} =>
        /\ \A k \in 1 .. Len(log) : log[k].logged
        /\ \A s \in Switch : Chained(s)
        /\ Counted

UndoIInv == UndoShape /\ WritesRight /\ AskRight /\ RunsRight /\ BackRight

LEMMA UndoShapes ==
    ASSUME UndoShape
    PROVE  /\ DOMAIN log = 1 .. Len(log) /\ DOMAIN items = 1 .. Len(items) /\ DOMAIN runs = 1 .. Len(log)
           /\ Len(log) \in Nat /\ Len(items) \in Nat
           /\ \A k \in 1 .. Len(log) : log[k] \in Write /\ runs[k] \in Nat
           /\ \A i \in 1 .. Len(items) : items[i] \in Time \cup {"gone"}
BY DEF UndoShape

LEMMA UndoIsSafe == UndoIInv => UndoInv
<1> SUFFICES ASSUME UndoIInv PROVE UndoInv
  OBVIOUS
<1>1. UndoShape
  BY DEF UndoIInv
<1>2. DOMAIN log = 1 .. Len(log) /\ DOMAIN runs = 1 .. Len(log) /\ Len(log) \in Nat
  BY <1>1, UndoShapes
<1>3. UndoTypeOK
  <2>1. {ask, asked} \subseteq 0 .. MaxLog
    BY <1>1, <1>2, UndoAssumption DEF UndoShape
  <2> QED  BY <1>1, <2>1, UndoShapes DEF UndoShape, UndoTypeOK
<1>4. UndoneOnce
  BY <1>2 DEF UndoIInv, RunsRight, UndoneOnce
<1>5. StepsBack
  <2> SUFFICES ASSUME amiss = {} PROVE StepsBack
    BY DEF StepsBack
  <2>1. (\A s \in Switch : Chained(s)) /\ Counted
    BY DEF UndoIInv, BackRight
  <2>2. \A s \in Switch : {k \in DOMAIN log : ~log[k].undone /\ log[k].about = s} = StandsAt(s)
    BY <1>2 DEF StandsAt
  <2>3. /\ MadeBy = {k \in DOMAIN log : ~log[k].undone /\ log[k].kind = "reminders"
                                            /\ log[k].inverse = "cancel"}
        /\ GoneBy = {k \in DOMAIN log : ~log[k].undone /\ log[k].kind = "reminders"
                                            /\ log[k].to = "gone"}
    BY <1>2 DEF MadeBy, GoneBy
  <2> QED  BY <2>1, <2>2, <2>3 DEF Chained, PutBy, Counted, StepsBack
<1> QED  BY <1>3, <1>4, <1>5 DEF UndoInv

LEMMA InitUndo == UndoInit => UndoIInv
<1> SUFFICES ASSUME UndoInit PROVE UndoIInv
  OBVIOUS
<1>1. log = <<>> /\ items = <<>> /\ runs = <<>> /\ ask = 0 /\ asked = 0 /\ amiss = {} /\ first = switch
  BY DEF UndoInit
<1>2. Len(<<>>) = 0 /\ DOMAIN <<>> = {} /\ MaxLog \in Nat /\ MaxItems \in Nat
  BY UndoAssumption
<1>3. UndoShape
  BY <1>1, <1>2 DEF UndoInit, UndoShape
<1>4. \A s \in Switch : StandsAt(s) = {}
  BY <1>1, <1>2 DEF StandsAt
<1>5. \A s \in Switch : Chained(s)
  BY <1>1, <1>4 DEF Chained, PutBy
<1>6. Live = {} /\ MadeBy = {} /\ GoneBy = {}
  BY <1>1, <1>2 DEF Live, MadeBy, GoneBy
<1>7. Counted
  BY <1>6, FS_EmptySet DEF Counted
<1> QED  BY <1>1, <1>2, <1>3, <1>5, <1>7 DEF UndoIInv, WritesRight, AskRight, RunsRight, BackRight
-----------------------------------------------------------------------------
\* A write goes on the log.
Logged(w) ==
    /\ w \in Write /\ WriteRight(w) /\ w.undone = FALSE
    /\ log' = Append(log, w) /\ Len(log) < MaxLog
    /\ runs' = Append(runs, 0)
    /\ ask' = ask /\ asked' = asked /\ first' = first
    /\ amiss \subseteq amiss' /\ amiss' \subseteq {"unlogged", "unmarked", "overtaken", "elsewhere"}
    /\ amiss' = {} => w.logged

LEMMA LogGrows ==
    ASSUME UndoShape, NEW w, Logged(w)
    PROVE  /\ log' \in Seq(Write) /\ Len(log') = Len(log) + 1 /\ Len(log) + 1 \in 1 .. Len(log')
           /\ \A k \in 1 .. Len(log) : log'[k] = log[k] /\ runs'[k] = runs[k]
           /\ log'[Len(log) + 1] = w /\ runs'[Len(log) + 1] = 0
           /\ runs' \in Seq(Nat) /\ Len(runs') = Len(log')
           /\ 1 .. Len(log') = (1 .. Len(log)) \cup {Len(log) + 1}
           /\ Len(log) + 1 \notin 1 .. Len(log)
<1>1. /\ log \in Seq(Write) /\ Len(log) \in Nat /\ w \in Write /\ log' = Append(log, w)
      /\ runs \in Seq(Nat) /\ Len(runs) = Len(log) /\ runs' = Append(runs, 0)
  BY UndoShapes DEF UndoShape, Logged
<1>2. /\ log' \in Seq(Write) /\ Len(log') = Len(log) + 1
      /\ \A k \in 1 .. Len(log) : log'[k] = log[k]
      /\ log'[Len(log) + 1] = w
  BY <1>1
<1>3. /\ runs' \in Seq(Nat) /\ Len(runs') = Len(log) + 1
      /\ \A k \in 1 .. Len(log) : runs'[k] = runs[k]
      /\ runs'[Len(log) + 1] = 0
  BY <1>1
<1> QED  BY <1>1, <1>2, <1>3

\* What stands about a switch after one more write, and where it puts it.
LEMMA StandsGrow ==
    ASSUME UndoShape, NEW w, Logged(w), NEW s
    PROVE  /\ StandsAt(s)' = IF w.about = s THEN StandsAt(s) \cup {Len(log) + 1} ELSE StandsAt(s)
           /\ \A S \in SUBSET (1 .. Len(log)) : PutBy(s, S)' = PutBy(s, S)
<1>1. /\ Len(log) \in Nat /\ 1 .. Len(log') = (1 .. Len(log)) \cup {Len(log) + 1}
      /\ Len(log) + 1 \notin 1 .. Len(log)
      /\ \A k \in 1 .. Len(log) : log'[k] = log[k]
      /\ log'[Len(log) + 1] = w /\ w.undone = FALSE /\ first' = first
  BY LogGrows, UndoShapes DEF Logged
<1>2. PICK n : n = Len(log) + 1
  OBVIOUS
<1>3. StandsAt(s)' = {k \in (1 .. Len(log)) \cup {n} : ~log'[k].undone /\ log'[k].about = s}
  BY <1>1, <1>2 DEF StandsAt
<1>4. w.about = s => StandsAt(s)' = StandsAt(s) \cup {n}
  BY <1>1, <1>2, <1>3 DEF StandsAt
<1>5. w.about # s => StandsAt(s)' = StandsAt(s)
  BY <1>1, <1>2, <1>3 DEF StandsAt
<1>6. ASSUME NEW S \in SUBSET (1 .. Len(log)) PROVE PutBy(s, S)' = PutBy(s, S)
  <2>1. CASE S = {}
    BY <1>1, <2>1 DEF PutBy
  <2>2. CASE S # {}
    <3>1. Newest(S) \in 1 .. Len(log)
      BY <1>1, <2>2, NewestIs
    <3> QED  BY <1>1, <2>2, <3>1 DEF PutBy
  <2> QED  BY <2>1, <2>2
<1> QED  BY <1>2, <1>4, <1>5, <1>6

LEMMA ChainGrows ==
    ASSUME UndoShape, NEW w, Logged(w), NEW s \in Switch, Chained(s),
           switch'[s] = (IF w.about = s THEN w.to ELSE switch[s]),
           (w.about = s /\ w.inverse = "switch") => w.was = switch[s]
    PROVE  Chained(s)'
<1>1. PICK n : n = Len(log) + 1
  OBVIOUS
<1>2. /\ n \in Nat /\ Len(log) \in Nat /\ \A k \in 1 .. Len(log) : log'[k] = log[k] /\ k # n /\ k < n
      /\ log'[n] = w
  BY <1>1, LogGrows, UndoShapes
<1>3. PICK A \in SUBSET (1 .. Len(log)) : A = StandsAt(s)
  BY DEF StandsAt
<1>4. \A S \in SUBSET (1 .. Len(log)) : PutBy(s, S)' = PutBy(s, S)
  BY StandsGrow
<1>5. /\ switch[s] = PutBy(s, A)
      /\ \A k \in A : log[k].inverse = "switch" => log[k].was = PutBy(s, Before(A, k))
  BY <1>3 DEF Chained
<1>6. ASSUME NEW B, B = StandsAt(s)', switch'[s] = PutBy(s, B)',
             \A k \in B : log'[k].inverse = "switch" => log'[k].was = PutBy(s, Before(B, k))'
      PROVE  Chained(s)'
  BY <1>6 DEF Chained
<1>7. \A k \in A : Before(A, k) \in SUBSET (1 .. Len(log)) /\ log'[k] = log[k]
  BY <1>2, <1>3 DEF Before
<1>8. CASE w.about # s
  <2>1. StandsAt(s)' = A
    BY <1>3, <1>8, StandsGrow
  <2>2. switch'[s] = PutBy(s, A)'
    BY <1>4, <1>5, <1>8
  <2>3. \A k \in A : log'[k].inverse = "switch" => log'[k].was = PutBy(s, Before(A, k))'
    BY <1>4, <1>5, <1>7
  <2> QED  BY <1>6, <2>1, <2>2, <2>3
<1>9. CASE w.about = s
  <2>1. PICK B : B = A \cup {n}
    OBVIOUS
  <2>2. StandsAt(s)' = B
    BY <1>1, <1>3, <1>9, <2>1, StandsGrow
  <2>3. Newest(B) = n /\ B # {}
    <3>1. B \in SUBSET (1 .. n) /\ n \in B /\ \A j \in B : j <= n
      BY <1>1, <1>2, <1>3, <2>1
    <3> QED  BY <1>2, <3>1, NewestOf
  <2>4. switch'[s] = PutBy(s, B)'
    <3>1. PutBy(s, B)' = log'[n].to
      BY <2>3 DEF PutBy
    <3> QED  BY <1>2, <1>9, <3>1
  <2>5. ASSUME NEW k \in B, log'[k].inverse = "switch"
        PROVE  log'[k].was = PutBy(s, Before(B, k))'
    <3>1. CASE k \in A
      <4>1. Before(B, k) = Before(A, k)
        <5>1. ~(n < k)
          BY <1>2, <1>3, <3>1
        <5> QED  BY <2>1, <5>1 DEF Before
      <4> QED  BY <1>4, <1>5, <1>7, <2>5, <3>1, <4>1
    <3>2. CASE k = n
      <4>1. Before(B, n) = A
        <5>1. ~(n < n) /\ \A j \in A : j < n
          BY <1>2, <1>3
        <5> QED  BY <2>1, <5>1 DEF Before
      <4>2. PutBy(s, Before(B, k))' = PutBy(s, A)
        BY <1>4, <3>2, <4>1
      <4> QED  BY <1>2, <1>5, <1>9, <2>5, <3>2, <4>2
    <3> QED  BY <2>1, <3>1, <3>2
  <2> QED  BY <1>6, <2>2, <2>4, <2>5
<1> QED  BY <1>8, <1>9

\* The writes that count the items.
LEMMA CountsGrow ==
    ASSUME UndoShape, NEW w, Logged(w)
    PROVE  /\ IsFiniteSet(MadeBy) /\ IsFiniteSet(GoneBy)
           /\ Cardinality(MadeBy)' = Cardinality(MadeBy)
                  + (IF w.kind = "reminders" /\ w.inverse = "cancel" THEN 1 ELSE 0)
           /\ Cardinality(GoneBy)' = Cardinality(GoneBy)
                  + (IF w.kind = "reminders" /\ w.to = "gone" THEN 1 ELSE 0)
<1>1. PICK n : n = Len(log) + 1
  OBVIOUS
<1>2. /\ Len(log) \in Nat /\ n \in Nat /\ 1 .. Len(log') = (1 .. Len(log)) \cup {n}
      /\ n \notin 1 .. Len(log)
      /\ \A k \in 1 .. Len(log) : log'[k] = log[k]
      /\ log'[n] = w /\ w.undone = FALSE
  BY <1>1, LogGrows, UndoShapes DEF Logged
<1>3. MadeBy \subseteq 1 .. Len(log) /\ GoneBy \subseteq 1 .. Len(log)
  BY DEF MadeBy, GoneBy
<1>4. IsFiniteSet(1 .. Len(log))
  <2>1. 1 \in Int /\ Len(log) \in Int
    BY <1>2
  <2> QED  BY ONLY <2>1, FS_Interval
<1>5. IsFiniteSet(MadeBy) /\ IsFiniteSet(GoneBy) /\ n \notin MadeBy /\ n \notin GoneBy
  BY <1>2, <1>3, <1>4, FS_Subset
<1>6. /\ MadeBy' = {k \in (1 .. Len(log)) \cup {n} : ~log'[k].undone /\ log'[k].kind = "reminders"
                                              /\ log'[k].inverse = "cancel"}
      /\ GoneBy' = {k \in (1 .. Len(log)) \cup {n} : ~log'[k].undone /\ log'[k].kind = "reminders"
                                              /\ log'[k].to = "gone"}
  BY <1>2 DEF MadeBy, GoneBy
<1>7. /\ (w.kind = "reminders" /\ w.inverse = "cancel") => MadeBy' = MadeBy \cup {n}
      /\ ~(w.kind = "reminders" /\ w.inverse = "cancel") => MadeBy' = MadeBy
  BY <1>2, <1>6 DEF MadeBy
<1>8. /\ (w.kind = "reminders" /\ w.to = "gone") => GoneBy' = GoneBy \cup {n}
      /\ ~(w.kind = "reminders" /\ w.to = "gone") => GoneBy' = GoneBy
  BY <1>2, <1>6 DEF GoneBy
<1>9. /\ Cardinality(MadeBy \cup {n}) = Cardinality(MadeBy) + 1 /\ Cardinality(MadeBy) \in Nat
      /\ Cardinality(GoneBy \cup {n}) = Cardinality(GoneBy) + 1 /\ Cardinality(GoneBy) \in Nat
  BY <1>5, FS_AddElement, FS_CardinalityType
<1>10. Cardinality(MadeBy)' = Cardinality(MadeBy') /\ Cardinality(GoneBy)' = Cardinality(GoneBy')
  OBVIOUS
<1> QED  BY <1>5, <1>7, <1>8, <1>9, <1>10
-----------------------------------------------------------------------------
\* A write that is logged keeps what does not depend on what it was about.
LEMMA WriteStep ==
    ASSUME UndoIInv, NEW w, Logged(w),
           switch' \in [Switch -> Position],
           items' \in Seq(Time \cup {"gone"}), Len(items') <= MaxItems,
           amiss' = {} =>
              /\ \A s \in Switch : switch'[s] = (IF w.about = s THEN w.to ELSE switch[s])
              /\ (w.about \in Switch /\ w.inverse = "switch") => w.was = switch[w.about]
              /\ Cardinality(Live)' = Cardinality(Live)
                    + (IF w.kind = "reminders" /\ w.inverse = "cancel" THEN 1 ELSE 0)
                    - (IF w.kind = "reminders" /\ w.to = "gone" THEN 1 ELSE 0)
    PROVE  UndoIInv'
<1>1. UndoShape /\ WritesRight /\ AskRight /\ RunsRight /\ BackRight
  BY DEF UndoIInv
<1>2. PICK n : n = Len(log) + 1
  OBVIOUS
<1>3. /\ Len(log) \in Nat /\ n \in Nat /\ 1 .. Len(log') = (1 .. Len(log)) \cup {n}
      /\ n \notin 1 .. Len(log) /\ Len(log') = n
      /\ \A k \in 1 .. Len(log) : log'[k] = log[k] /\ runs'[k] = runs[k]
      /\ log'[n] = w /\ runs'[n] = 0
      /\ log' \in Seq(Write) /\ runs' \in Seq(Nat) /\ Len(runs') = Len(log')
  BY <1>1, <1>2, LogGrows, UndoShapes
<1>4. /\ w.undone = FALSE /\ WriteRight(w) /\ Len(log) < MaxLog
      /\ ask' = ask /\ asked' = asked /\ first' = first
      /\ amiss \subseteq amiss' /\ amiss' \subseteq {"unlogged", "unmarked", "overtaken", "elsewhere"}
      /\ amiss' = {} => w.logged
  BY DEF Logged
<1>5. UndoShape'
  <2>1. ask' \in 0 .. Len(log') /\ asked' \in 0 .. Len(log') /\ Len(log') <= MaxLog
    BY <1>1, <1>2, <1>3, <1>4, UndoAssumption DEF UndoShape
  <2> QED  BY <1>1, <1>3, <1>4, <2>1 DEF UndoShape
<1>6. WritesRight'
  <2>1. \A k \in 1 .. Len(log') : WriteRight(log'[k])
    BY <1>1, <1>3, <1>4 DEF WritesRight
  <2> QED  BY <2>1 DEF WritesRight, WriteRight
<1>7. AskRight'
  <2> SUFFICES ASSUME ask # 0
               PROVE  /\ ~log'[ask].undone /\ log'[ask].inverse # "none" /\ asked # Len(log')
    BY <1>4 DEF AskRight
  <2>1. ask \in 1 .. Len(log) /\ asked \in 0 .. Len(log)
    BY <1>1 DEF UndoShape
  <2>2. asked # Len(log')
    BY <1>2, <1>3, <2>1
  <2> QED  BY <1>1, <1>3, <2>1, <2>2 DEF AskRight
<1>8. RunsRight'
  <2> SUFFICES ASSUME "unmarked" \notin amiss', NEW k \in 1 .. Len(log')
               PROVE  runs'[k] <= 1 /\ (~log'[k].undone => runs'[k] = 0)
    BY DEF RunsRight
  <2>1. CASE k \in 1 .. Len(log)
    BY <1>1, <1>3, <1>4, <2>1 DEF RunsRight
  <2>2. CASE k = n
    BY <1>3, <2>2
  <2> QED  BY <1>3, <2>1, <2>2
<1>9. BackRight'
  <2> SUFFICES ASSUME amiss' = {}
               PROVE  /\ \A k \in 1 .. Len(log') : log'[k].logged
                      /\ \A s \in Switch : Chained(s)'
                      /\ Counted'
    BY DEF BackRight
  <2>1. amiss = {}
    BY <1>4
  <2>2. \A k \in 1 .. Len(log') : log'[k].logged
    BY <1>1, <1>3, <1>4, <2>1 DEF BackRight
  <2>3. ASSUME NEW s \in Switch PROVE Chained(s)'
    <3>1. /\ Chained(s) /\ switch'[s] = (IF w.about = s THEN w.to ELSE switch[s])
          /\ (w.about = s /\ w.inverse = "switch") => w.was = switch[s]
      BY <1>1, <2>1 DEF BackRight
    <3> QED  BY <1>1, <3>1, ChainGrows
  <2>4. Counted'
    <3>1. Cardinality(Live) = Cardinality(MadeBy) - Cardinality(GoneBy)
      BY <1>1, <2>1 DEF BackRight, Counted
    <3>2. /\ Cardinality(MadeBy)' = Cardinality(MadeBy)
                  + (IF w.kind = "reminders" /\ w.inverse = "cancel" THEN 1 ELSE 0)
          /\ Cardinality(GoneBy)' = Cardinality(GoneBy)
                  + (IF w.kind = "reminders" /\ w.to = "gone" THEN 1 ELSE 0)
          /\ Cardinality(MadeBy) \in Nat /\ Cardinality(GoneBy) \in Nat
      BY <1>1, CountsGrow, FS_CardinalityType
    <3>3. Cardinality(Live)' = Cardinality(Live)
                    + (IF w.kind = "reminders" /\ w.inverse = "cancel" THEN 1 ELSE 0)
                    - (IF w.kind = "reminders" /\ w.to = "gone" THEN 1 ELSE 0)
      OBVIOUS
    <3>4. Cardinality(Live)' = Cardinality(MadeBy)' - Cardinality(GoneBy)'
      BY <3>1, <3>2, <3>3
    <3> QED  BY <3>4 DEF Counted
  <2> QED  BY <2>2, <2>3, <2>4
<1> QED  BY <1>5, <1>6, <1>7, <1>8, <1>9 DEF UndoIInv

\* The items in use after one is made, moved or gone.
LEMMA LiveMade ==
    ASSUME UndoShape, NEW t \in Time, items' = Append(items, t), Len(items) < MaxItems
    PROVE  /\ items' \in Seq(Time \cup {"gone"}) /\ Len(items') = Len(items) + 1 /\ Len(items') <= MaxItems
           /\ Cardinality(Live)' = Cardinality(Live) + 1 /\ Cardinality(Live) \in Nat
<1>1. PICK n : n = Len(items) + 1
  OBVIOUS
<1>2. /\ Len(items) \in Nat /\ DOMAIN items = 1 .. Len(items) /\ items \in Seq(Time \cup {"gone"})
      /\ MaxItems \in Nat /\ "gone" \notin Time
  BY UndoShapes, UndoAssumption DEF UndoShape
<1>3. /\ items' \in Seq(Time \cup {"gone"}) /\ Len(items') = n
      /\ \A i \in 1 .. Len(items) : items'[i] = items[i]
      /\ items'[n] = t /\ DOMAIN items' = 1 .. n
  BY <1>1, <1>2
<1>4. 1 .. n = (1 .. Len(items)) \cup {n} /\ n \notin 1 .. Len(items)
  BY <1>1, <1>2
<1>5. Live' = {i \in (1 .. Len(items)) \cup {n} : items'[i] # "gone"}
  BY <1>3, <1>4 DEF Live
<1>6. Live = {i \in 1 .. Len(items) : items[i] # "gone"}
  BY <1>2 DEF Live
<1>7. Live' = Live \cup {n} /\ n \notin Live /\ t # "gone"
  BY <1>2, <1>3, <1>4, <1>5, <1>6
<1>8. IsFiniteSet(Live)
  <2>1. IsFiniteSet(1 .. Len(items)) /\ Live \subseteq 1 .. Len(items)
    BY <1>2, <1>6, FS_Interval
  <2> QED  BY <2>1, FS_Subset
<1>9. Cardinality(Live') = Cardinality(Live) + 1 /\ Cardinality(Live) \in Nat
  BY <1>7, <1>8, FS_AddElement, FS_CardinalityType
<1>10. Cardinality(Live)' = Cardinality(Live')
  OBVIOUS
<1> QED  BY <1>1, <1>2, <1>3, <1>9, <1>10

LEMMA LiveSet ==
    ASSUME UndoShape, NEW i \in Live, NEW t \in Time \cup {"gone"}, items' = [items EXCEPT ![i] = t]
    PROVE  /\ items' \in Seq(Time \cup {"gone"}) /\ Len(items') = Len(items) /\ Len(items') <= MaxItems
           /\ Cardinality(Live)' = Cardinality(Live) - (IF t = "gone" THEN 1 ELSE 0)
           /\ Cardinality(Live) \in Nat
<1>1. /\ Len(items) \in Nat /\ DOMAIN items = 1 .. Len(items) /\ items \in Seq(Time \cup {"gone"})
      /\ Len(items) <= MaxItems /\ i \in 1 .. Len(items) /\ items[i] # "gone"
  BY UndoShapes DEF UndoShape, Live
<1>2. /\ items' \in Seq(Time \cup {"gone"}) /\ Len(items') = Len(items)
      /\ \A k \in 1 .. Len(items) : items'[k] = IF k = i THEN t ELSE items[k]
      /\ DOMAIN items' = 1 .. Len(items)
  BY <1>1
<1>3. Live' = {k \in 1 .. Len(items) : items'[k] # "gone"} /\ Live = {k \in 1 .. Len(items) : items[k] # "gone"}
  BY <1>1, <1>2 DEF Live
<1>4. (t = "gone" => Live' = Live \ {i}) /\ (t # "gone" => Live' = Live)
  BY <1>1, <1>2, <1>3
<1>5. IsFiniteSet(Live)
  <2>1. IsFiniteSet(1 .. Len(items)) /\ Live \subseteq 1 .. Len(items)
    BY <1>1, <1>3, FS_Interval
  <2> QED  BY <2>1, FS_Subset
<1>6. Cardinality(Live \ {i}) = Cardinality(Live) - 1 /\ Cardinality(Live) \in Nat
  BY <1>5, FS_RemoveElement, FS_CardinalityType
<1>7. Cardinality(Live)' = Cardinality(Live')
  OBVIOUS
<1>8. Cardinality(Live') = Cardinality(Live) - (IF t = "gone" THEN 1 ELSE 0)
  <2>1. CASE t = "gone"
    BY <1>4, <1>6, <2>1
  <2>2. CASE t # "gone"
    BY <1>4, <1>6, <2>2
  <2> QED  BY <2>1, <2>2
<1> QED  BY <1>1, <1>2, <1>6, <1>7, <1>8
-----------------------------------------------------------------------------
NewWrite(kind, about, to, inverse, was, ok) ==
    [kind |-> kind, about |-> about, to |-> to, inverse |-> inverse,
     was |-> was, logged |-> ok, undone |-> FALSE]

\* What is recorded goes on the log, or is missed there.
LEMMA RecordsLogs ==
    ASSUME UndoShape, NEW kind, NEW about, NEW to, NEW inverse, NEW was,
           Records(kind, about, to, inverse, was),
           \A ok \in BOOLEAN : /\ NewWrite(kind, about, to, inverse, was, ok) \in Write
                               /\ WriteRight(NewWrite(kind, about, to, inverse, was, ok))
    PROVE  \E ok \in BOOLEAN : Logged(NewWrite(kind, about, to, inverse, was, ok))
<1>1. PICK ok \in BOOLEAN : /\ log' = Append(log, NewWrite(kind, about, to, inverse, was, ok))
                            /\ amiss' = amiss \cup (IF ok THEN {} ELSE {"unlogged"})
  BY Zenon DEF Records, Amiss, NewWrite
<1>2. /\ Len(log) < MaxLog /\ runs' = Append(runs, 0)
      /\ ask' = ask /\ asked' = asked /\ first' = first
  BY Zenon DEF Records
<1>3. /\ NewWrite(kind, about, to, inverse, was, ok).undone = FALSE
      /\ NewWrite(kind, about, to, inverse, was, ok).logged = ok
  BY Zenon DEF NewWrite
<1>4. amiss \subseteq amiss' /\ amiss' \subseteq {"unlogged", "unmarked", "overtaken", "elsewhere"}
  BY <1>1 DEF UndoShape
<1>5. amiss' = {} => ok
  BY <1>1
<1>6. Logged(NewWrite(kind, about, to, inverse, was, ok))
  BY <1>1, <1>2, <1>3, <1>4, <1>5, Zenon DEF Logged
<1> QED  BY <1>6, Zenon

\* Nothing happens that the log knows of or anything else can tell.
LEMMA SameUndo ==
    ASSUME UndoIInv, UNCHANGED <<switch, items, log, ask, asked, runs, first, amiss>>
    PROVE  UndoIInv'
<1>1. \A s \in Switch : Chained(s)' = Chained(s)
  BY DEF Chained, PutBy, StandsAt, Before
<1>2. Counted' = Counted
  BY DEF Counted, Live, MadeBy, GoneBy
<1>3. BackRight'
  BY <1>1, <1>2 DEF UndoIInv, BackRight
<1> QED  BY <1>3 DEF UndoIInv, UndoShape, WritesRight, AskRight, RunsRight

LEMMA SwitchesStep ==
    ASSUME UndoIInv, NEW s \in Switch, NEW v \in Position, Switches(s, v)
    PROVE  UndoIInv'
<1>1. UndoShape
  BY DEF UndoIInv
<1>2. PICK observed \in BOOLEAN :
         /\ switch' = [switch EXCEPT ![s] = v] /\ items' = items
         /\ IF observed /\ switch[s] = v THEN UNCHANGED <<log, ask, asked, runs, first, amiss>>
            ELSE Records("home", s, v, SwitchInverse(s, v, observed)[1], SwitchInverse(s, v, observed)[2])
  BY DEF Switches
<1>3. switch \in [Switch -> Position] /\ switch[s] \in Position
  BY <1>1 DEF UndoShape
<1>4. switch' \in [Switch -> Position] /\ \A r \in Switch : switch'[r] = IF r = s THEN v ELSE switch[r]
  BY <1>2, <1>3
<1>5. CASE observed /\ switch[s] = v
  <2>1. switch' = switch
    BY <1>2, <1>3, <1>4, <1>5
  <2> QED  BY <1>2, <1>5, <2>1, SameUndo
<1>6. CASE ~(observed /\ switch[s] = v)
  <2>1. PICK inverse, was : /\ inverse = SwitchInverse(s, v, observed)[1]
                            /\ was = SwitchInverse(s, v, observed)[2]
    OBVIOUS
  <2>2. inverse \in {"switch", "none"} /\ was \in Position /\ (inverse = "switch" => was = switch[s])
    BY <1>3, <2>1 DEF SwitchInverse
  <2>3. ASSUME NEW ok \in BOOLEAN
        PROVE  /\ NewWrite("home", s, v, inverse, was, ok) \in Write
               /\ WriteRight(NewWrite("home", s, v, inverse, was, ok))
    BY <2>2 DEF NewWrite, Write, Spot, Inverses, WriteRight
  <2>4. Records("home", s, v, inverse, was)
    BY <1>2, <1>6, <2>1
  <2>5. PICK ok \in BOOLEAN : Logged(NewWrite("home", s, v, inverse, was, ok))
    BY <1>1, <2>3, <2>4, RecordsLogs
  <2>6. PICK w : w = NewWrite("home", s, v, inverse, was, ok)
    OBVIOUS
  <2>7. w.about = s /\ w.to = v /\ w.kind = "home" /\ w.inverse = inverse /\ w.was = was
    BY <2>6 DEF NewWrite
  <2>8. Live' = Live /\ Cardinality(Live) \in Nat
    <3>1. DOMAIN items = 1 .. Len(items) /\ Len(items) \in Nat
      BY <1>1, UndoShapes
    <3>2. IsFiniteSet(1 .. Len(items)) /\ Live \subseteq 1 .. Len(items)
      BY <3>1, FS_Interval DEF Live
    <3> QED  BY <1>2, <3>2, FS_Subset, FS_CardinalityType DEF Live
  <2>9. /\ \A r \in Switch : switch'[r] = (IF w.about = r THEN w.to ELSE switch[r])
        /\ (w.about \in Switch /\ w.inverse = "switch") => w.was = switch[w.about]
    BY <1>4, <2>2, <2>7
  <2>10. Cardinality(Live)' = Cardinality(Live)
                    + (IF w.kind = "reminders" /\ w.inverse = "cancel" THEN 1 ELSE 0)
                    - (IF w.kind = "reminders" /\ w.to = "gone" THEN 1 ELSE 0)
    BY <2>7, <2>8
  <2>11. items' \in Seq(Time \cup {"gone"}) /\ Len(items') <= MaxItems
    BY <1>1, <1>2 DEF UndoShape
  <2> QED  BY <1>4, <2>5, <2>6, <2>9, <2>10, <2>11, WriteStep
<1> QED  BY <1>5, <1>6

\* A write about an item: what it records matches what it does to the items.
LEMMA ItemStep ==
    ASSUME UndoIInv, NEW about \in 0 .. MaxItems, NEW to \in Time \cup {"gone"}, NEW was \in Time \cup {"gone"},
           NEW kind \in {"home", "reminders", "music"}, NEW inverse \in Inverses,
           switch' = switch, Records(kind, about, to, inverse, was),
           inverse # "switch", kind = "home" => inverse = "none",
           inverse = "cancel" => kind = "reminders" /\ was = "gone" /\ to # "gone",
           inverse = "recreate" => kind = "reminders" /\ was \in Time /\ to = "gone",
           inverse = "move" => kind = "reminders" /\ was \in Time /\ to # "gone",
           items' \in Seq(Time \cup {"gone"}), Len(items') <= MaxItems,
           Cardinality(Live)' = Cardinality(Live)
                    + (IF kind = "reminders" /\ inverse = "cancel" THEN 1 ELSE 0)
                    - (IF kind = "reminders" /\ to = "gone" THEN 1 ELSE 0)
    PROVE  UndoIInv'
<1>1. UndoShape
  BY DEF UndoIInv
<1>2. about \notin Switch
  BY UndoAssumption
<1>3. ASSUME NEW ok \in BOOLEAN
      PROVE  /\ NewWrite(kind, about, to, inverse, was, ok) \in Write
             /\ WriteRight(NewWrite(kind, about, to, inverse, was, ok))
  <2>1. NewWrite(kind, about, to, inverse, was, ok) \in Write
    BY DEF NewWrite, Write, Spot
  <2>2. WriteRight(NewWrite(kind, about, to, inverse, was, ok))
    BY <1>2 DEF NewWrite, WriteRight
  <2> QED  BY <2>1, <2>2
<1>4. PICK ok \in BOOLEAN : Logged(NewWrite(kind, about, to, inverse, was, ok))
  BY <1>1, <1>3, RecordsLogs
<1>5. PICK w : w = NewWrite(kind, about, to, inverse, was, ok)
  OBVIOUS
<1>6. w.about = about /\ w.to = to /\ w.kind = kind /\ w.inverse = inverse /\ w.was = was
  BY <1>5 DEF NewWrite
<1>7. switch' \in [Switch -> Position]
  BY <1>1 DEF UndoShape
<1>8. /\ \A r \in Switch : switch'[r] = (IF w.about = r THEN w.to ELSE switch[r])
      /\ (w.about \in Switch /\ w.inverse = "switch") => w.was = switch[w.about]
  BY <1>2, <1>6
<1> QED  BY <1>4, <1>5, <1>6, <1>7, <1>8, WriteStep

LEMMA CreatesStep ==
    ASSUME UndoIInv, NEW t \in Time, Creates(t)
    PROVE  UndoIInv'
<1>1. UndoShape /\ "gone" \notin Time /\ MaxItems \in Nat
  BY UndoAssumption DEF UndoIInv
<1>2. /\ items' \in Seq(Time \cup {"gone"}) /\ Len(items') = Len(items) + 1 /\ Len(items') <= MaxItems
      /\ Cardinality(Live)' = Cardinality(Live) + 1 /\ Cardinality(Live) \in Nat
  BY <1>1, LiveMade DEF Creates
<1>3. Len(items') \in 0 .. MaxItems
  BY <1>1, <1>2, UndoShapes
<1>4. "cancel" \in Inverses /\ "gone" \in Time \cup {"gone"} /\ t # "gone"
  BY <1>1 DEF Inverses
<1>5. switch' = switch /\ Records("reminders", Len(items'), t, "cancel", "gone")
  BY DEF Creates
<1> QED  BY <1>2, <1>3, <1>4, <1>5, ItemStep

LEMMA CancelsStep ==
    ASSUME UndoIInv, NEW i \in Live, Cancels(i)
    PROVE  UndoIInv'
<1>1. UndoShape /\ "gone" \notin Time /\ MaxItems \in Nat
  BY UndoAssumption DEF UndoIInv
<1>2. /\ items' \in Seq(Time \cup {"gone"}) /\ Len(items') <= MaxItems
      /\ Cardinality(Live)' = Cardinality(Live) - 1 /\ Cardinality(Live) \in Nat
  BY <1>1, LiveSet DEF Cancels
<1>3. i \in 0 .. MaxItems /\ items[i] \in Time
  BY <1>1, UndoShapes DEF Live, UndoShape
<1>4. PICK inverse \in {"recreate", "none"} : Records("reminders", i, "gone", inverse, items[i])
  BY DEF Cancels
<1>5. inverse \in Inverses /\ "gone" \in Time \cup {"gone"}
  BY DEF Inverses
<1>6. switch' = switch
  BY DEF Cancels
<1>7. Cardinality(Live)' = Cardinality(Live)
                    + (IF "reminders" = "reminders" /\ inverse = "cancel" THEN 1 ELSE 0)
                    - (IF "reminders" = "reminders" /\ "gone" = "gone" THEN 1 ELSE 0)
  BY <1>2, <1>4
<1>8. inverse = "recreate" \/ inverse = "none"
  BY <1>4
<1>9. CASE inverse = "recreate"
  BY <1>2, <1>3, <1>4, <1>5, <1>6, <1>7, <1>9, ItemStep
<1>10. CASE inverse = "none"
  BY <1>2, <1>3, <1>4, <1>5, <1>6, <1>7, <1>10, ItemStep
<1> QED  BY <1>8, <1>9, <1>10

LEMMA MovesStep ==
    ASSUME UndoIInv, NEW i \in Live, NEW t \in Time, Moves(i, t)
    PROVE  UndoIInv'
<1>1. UndoShape /\ "gone" \notin Time /\ MaxItems \in Nat /\ t # "gone"
  BY UndoAssumption DEF UndoIInv
<1>2. /\ items' \in Seq(Time \cup {"gone"}) /\ Len(items') <= MaxItems
      /\ Cardinality(Live)' = Cardinality(Live) - (IF t = "gone" THEN 1 ELSE 0)
      /\ Cardinality(Live) \in Nat
  <2>1. t \in Time \cup {"gone"} /\ items' = [items EXCEPT ![i] = t]
    BY DEF Moves
  <2> QED  BY <1>1, <2>1, LiveSet
<1>3. i \in 0 .. MaxItems /\ items[i] \in Time
  BY <1>1, UndoShapes DEF Live, UndoShape
<1>4. "move" \in Inverses /\ switch' = switch /\ Records("reminders", i, t, "move", items[i])
  BY DEF Inverses, Moves
<1> QED  BY <1>1, <1>2, <1>3, <1>4, ItemStep

LEMMA PlaysStep ==
    ASSUME UndoIInv, NEW kind \in {"home", "music"}, NEW inverse \in {"none", "music.pause"},
           kind = "home" => inverse = "none", Plays(kind, inverse)
    PROVE  UndoIInv'
<1>1. UndoShape /\ MaxItems \in Nat
  BY UndoAssumption DEF UndoIInv
<1>2. items' \in Seq(Time \cup {"gone"}) /\ Len(items') <= MaxItems
  BY <1>1 DEF Plays, UndoShape
<1>3. Live' = Live /\ Cardinality(Live) \in Nat
  <2>1. DOMAIN items = 1 .. Len(items) /\ Len(items) \in Nat
    BY <1>1, UndoShapes
  <2>2. IsFiniteSet(1 .. Len(items)) /\ Live \subseteq 1 .. Len(items)
    BY <2>1, FS_Interval DEF Live
  <2> QED  BY <2>2, FS_Subset, FS_CardinalityType DEF Live, Plays
<1>4. Cardinality(Live)' = Cardinality(Live)
  BY <1>3
<1>5. switch' = switch /\ Records(kind, 0, "gone", inverse, "gone") /\ 0 \in 0 .. MaxItems
  BY <1>1 DEF Plays
<1>6. kind \in {"home", "reminders", "music"} /\ inverse \in Inverses /\ "gone" \in Time \cup {"gone"}
      /\ kind # "reminders" /\ inverse \notin {"switch", "cancel", "recreate", "move"}
  BY DEF Inverses
<1>7. Cardinality(Live)' = Cardinality(Live)
                    + (IF kind = "reminders" /\ inverse = "cancel" THEN 1 ELSE 0)
                    - (IF kind = "reminders" /\ "gone" = "gone" THEN 1 ELSE 0)
  BY <1>3, <1>4, <1>6
<1> QED  BY <1>2, <1>5, <1>6, <1>7, ItemStep
-----------------------------------------------------------------------------
\* The back of the log as it was: the writes, and where they lead.
LEMMA BackSame ==
    ASSUME UndoIInv, UNCHANGED <<switch, items, log, first, amiss>>
    PROVE  BackRight'
<1>1. \A s \in Switch : Chained(s)' = Chained(s)
  BY DEF Chained, PutBy, StandsAt, Before
<1>2. Counted' = Counted
  BY DEF Counted, Live, MadeBy, GoneBy
<1> QED  BY <1>1, <1>2 DEF UndoIInv, BackRight

LEMMA LeavesStep == UndoIInv /\ Leaves => UndoIInv'
<1> SUFFICES ASSUME UndoIInv, Leaves PROVE UndoIInv'
  OBVIOUS
<1>1. ask' = 0 /\ UNCHANGED <<switch, items, log, asked, runs, first, amiss>>
  BY DEF Leaves
<1>2. BackRight'
  BY <1>1, BackSame
<1>3. Len(log) \in Nat
  BY UndoShapes DEF UndoIInv
<1> QED  BY <1>1, <1>2, <1>3 DEF UndoIInv, UndoShape, WritesRight, AskRight, RunsRight

LEMMA AsksUndoStep ==
    ASSUME UndoIInv, NEW family, AsksUndo(family)
    PROVE  UndoIInv'
<1>1. UndoShape /\ DOMAIN log = 1 .. Len(log) /\ Len(log) \in Nat
  BY UndoShapes DEF UndoIInv
<1>2. /\ UNCHANGED <<switch, items, log, runs, first, amiss>> /\ asked' = Len(log)
      /\ LastAction(family) # 0
      /\ ask' = (IF Undoable(LastAction(family)) THEN LastAction(family) ELSE 0)
  BY DEF AsksUndo
<1>3. PICK S : S = {k \in OnRecord : family = "any" \/ log[k].kind = family}
  OBVIOUS
<1>4. S \in SUBSET (1 .. Len(log)) /\ S # {} /\ LastAction(family) = Newest(S)
  <2>1. S \subseteq 1 .. Len(log)
    BY <1>1, <1>3 DEF OnRecord
  <2>2. LastAction(family) = IF S = {} THEN 0 ELSE Newest(S)
    BY <1>3 DEF LastAction
  <2> QED  BY <1>2, <2>1, <2>2
<1>5. PICK k \in S : k = Newest(S) /\ \A j \in S : j <= k
  BY <1>1, <1>4, NewestIs
<1>6. k \in 1 .. Len(log) /\ k # 0 /\ ~log[k].undone
  BY <1>1, <1>3, <1>4 DEF OnRecord
<1>7. (ask' = k /\ log[k].inverse # "none") \/ ask' = 0
  BY <1>2, <1>4, <1>5 DEF Undoable
<1>8. AskRight'
  <2>1. CASE ask' = 0
    BY <2>1 DEF AskRight
  <2>2. CASE ask' = k /\ log[k].inverse # "none"
    <3>1. ASSUME amiss = {}, NEW j \in 1 .. Len(log), ~log[j].undone, log[j].kind = log[k].kind
          PROVE  j <= k
      <4>1. log[j].logged
        BY <3>1 DEF UndoIInv, BackRight
      <4>2. j \in S
        BY <1>1, <1>3, <3>1, <4>1 DEF OnRecord
      <4> QED  BY <1>5, <4>2
    <3> QED  BY <1>2, <1>6, <2>2, <3>1 DEF AskRight
  <2> QED  BY <1>7, <2>1, <2>2
<1>9. BackRight'
  BY <1>2, BackSame
<1>10. ask' \in 0 .. Len(log) /\ asked' \in 0 .. Len(log)
  BY <1>1, <1>2, <1>6, <1>7
<1> QED  BY <1>1, <1>2, <1>8, <1>9, <1>10 DEF UndoIInv, UndoShape, WritesRight, RunsRight

LEMMA ElsewhereStep == UndoIInv /\ Elsewhere => UndoIInv'
<1> SUFFICES ASSUME UndoIInv, Elsewhere PROVE UndoIInv'
  OBVIOUS
<1>1. UndoShape
  BY DEF UndoIInv
<1>2. UNCHANGED <<log, ask, asked, runs, first>> /\ amiss' = amiss \cup {"elsewhere"}
  BY DEF Elsewhere, Amiss
<1>3. switch' \in [Switch -> Position] /\ items' \in Seq(Time \cup {"gone"}) /\ Len(items') <= MaxItems
  <2>1. CASE \E s \in Switch, v \in Position : switch' = [switch EXCEPT ![s] = v] /\ UNCHANGED items
    BY <1>1, <2>1 DEF UndoShape
  <2>2. CASE \E i \in Live : items' = [items EXCEPT ![i] = "gone"] /\ UNCHANGED switch
    <3>1. PICK i \in Live : items' = [items EXCEPT ![i] = "gone"] /\ switch' = switch
      BY <2>2
    <3> QED  BY <1>1, <3>1, LiveSet DEF UndoShape
  <2> QED  BY <2>1, <2>2 DEF Elsewhere
<1> QED  BY <1>1, <1>2, <1>3 DEF UndoIInv, UndoShape, WritesRight, AskRight, RunsRight, BackRight
-----------------------------------------------------------------------------
\* One write is marked as undone.
LEMMA MarkedIs ==
    ASSUME UndoShape, NEW a \in 1 .. Len(log), log' = [log EXCEPT ![a].undone = TRUE]
    PROVE  /\ log' \in Seq(Write) /\ Len(log') = Len(log)
           /\ \A k \in 1 .. Len(log) : k # a => log'[k] = log[k]
           /\ \A k \in 1 .. Len(log) :
                 /\ log'[k].kind = log[k].kind /\ log'[k].about = log[k].about /\ log'[k].to = log[k].to
                 /\ log'[k].inverse = log[k].inverse /\ log'[k].was = log[k].was
                 /\ (log[k].logged => log'[k].logged)
           /\ log'[a].undone
<1>1. /\ log \in Seq(Write) /\ Len(log) \in Nat /\ log[a] \in Write
  BY UndoShapes DEF UndoShape
<1>2. PICK w : w = [log[a] EXCEPT !.undone = TRUE]
  OBVIOUS
<1>3. /\ w \in Write /\ w.undone /\ w.kind = log[a].kind /\ w.about = log[a].about /\ w.to = log[a].to
      /\ w.inverse = log[a].inverse /\ w.was = log[a].was /\ (log[a].logged => w.logged)
  BY <1>1, <1>2 DEF Write
<1>4. log' = [log EXCEPT ![a] = w]
  BY <1>2
<1>5. /\ log' \in Seq(Write) /\ Len(log') = Len(log)
      /\ \A k \in 1 .. Len(log) : log'[k] = IF k = a THEN w ELSE log[k]
  <2>1. w \in Write /\ log \in Seq(Write)
    BY <1>1, <1>3
  <2>2. /\ [log EXCEPT ![a] = w] \in Seq(Write) /\ Len([log EXCEPT ![a] = w]) = Len(log)
        /\ \A j \in 1 .. Len(log) : [log EXCEPT ![a] = w][j] = IF j = a THEN w ELSE log[j]
    BY <2>1, ExceptSeq
  <2> QED  BY <1>4, <2>2, Zenon
<1> QED  BY <1>3, <1>5

\* A switch whose last link is taken off is where the link before had put it.
LEMMA ChainShrinks ==
    ASSUME UndoShape, NEW a \in 1 .. Len(log), log' = [log EXCEPT ![a].undone = TRUE], first' = first,
           ~log[a].undone, NEW s \in Switch, Chained(s),
           log[a].about = s => /\ log[a].inverse = "switch" /\ switch'[s] = log[a].was
                               /\ \A j \in StandsAt(s) : j <= a,
           log[a].about # s => switch'[s] = switch[s]
    PROVE  Chained(s)'
<1>1. /\ Len(log') = Len(log) /\ Len(log) \in Nat
      /\ \A k \in 1 .. Len(log) : k # a => log'[k] = log[k]
      /\ \A k \in 1 .. Len(log) : /\ log'[k].about = log[k].about /\ log'[k].to = log[k].to
                                  /\ log'[k].inverse = log[k].inverse /\ log'[k].was = log[k].was
      /\ log'[a].undone
  BY MarkedIs, UndoShapes
<1>2. PICK A \in SUBSET (1 .. Len(log)) : A = StandsAt(s)
  BY DEF StandsAt
<1>3. /\ switch[s] = PutBy(s, A)
      /\ \A k \in A : log[k].inverse = "switch" => log[k].was = PutBy(s, Before(A, k))
  BY <1>2 DEF Chained
<1>4. ASSUME NEW S \in SUBSET (1 .. Len(log)) PROVE PutBy(s, S)' = PutBy(s, S)
  <2>1. CASE S = {}
    BY <2>1 DEF PutBy
  <2>2. CASE S # {}
    <3>1. Newest(S) \in 1 .. Len(log)
      BY <1>1, <2>2, NewestIs
    <3> QED  BY <1>1, <2>2, <3>1 DEF PutBy
  <2> QED  BY <2>1, <2>2
<1>5. ASSUME NEW B, B = StandsAt(s)', switch'[s] = PutBy(s, B)',
             \A k \in B : log'[k].inverse = "switch" => log'[k].was = PutBy(s, Before(B, k))'
      PROVE  Chained(s)'
  BY <1>5 DEF Chained
<1>6. StandsAt(s)' = {k \in 1 .. Len(log) : ~log'[k].undone /\ log'[k].about = s}
  BY <1>1 DEF StandsAt
<1>7. StandsAt(s)' = A \ {a}
  BY <1>1, <1>2, <1>6 DEF StandsAt
<1>8. \A S \in SUBSET (1 .. Len(log)) : \A k \in S : Before(S, k) \in SUBSET (1 .. Len(log))
  BY DEF Before
<1>9. CASE log[a].about # s
  <2>1. a \notin A /\ A \ {a} = A
    BY <1>2, <1>9 DEF StandsAt
  <2>2. switch'[s] = PutBy(s, A)'
    BY <1>3, <1>4, <1>9
  <2>3. \A k \in A : log'[k].inverse = "switch" => log'[k].was = PutBy(s, Before(A, k))'
    BY <1>1, <1>2, <1>3, <1>4, <1>8
  <2> QED  BY <1>5, <1>7, <2>1, <2>2, <2>3
<1>10. CASE log[a].about = s
  <2>1. a \in A /\ \A j \in A : j <= a
    BY <1>2, <1>10 DEF StandsAt
  <2>2. PICK B \in SUBSET (1 .. Len(log)) : B = A \ {a}
    OBVIOUS
  <2>3. Before(A, a) = B
    <3>1. \A j \in A : j < a <=> j # a
      BY <1>2, <2>1
    <3> QED  BY <2>2, <3>1 DEF Before
  <2>4. switch'[s] = PutBy(s, B)'
    <3>1. log[a].was = PutBy(s, Before(A, a)) /\ switch'[s] = log[a].was
      BY <1>3, <1>10, <2>1
    <3> QED  BY <1>4, <2>3, <3>1
  <2>5. ASSUME NEW k \in B, log'[k].inverse = "switch"
        PROVE  log'[k].was = PutBy(s, Before(B, k))'
    <3>1. Before(B, k) = Before(A, k)
      <4>1. ~(a < k) /\ k \in A
        BY <1>2, <2>1, <2>2
      <4> QED  BY <2>2, <4>1 DEF Before
    <3>2. log[k].was = PutBy(s, Before(A, k)) /\ log'[k].was = log[k].was
      BY <1>1, <1>2, <1>3, <2>2, <2>5
    <3>3. Before(A, k) \in SUBSET (1 .. Len(log))
      BY <1>2, <1>8, <2>2
    <3> QED  BY <1>4, <3>1, <3>2, <3>3
  <2> QED  BY <1>5, <1>7, <2>2, <2>4, <2>5
<1> QED  BY <1>9, <1>10

LEMMA CountsShrink ==
    ASSUME UndoShape, NEW a \in 1 .. Len(log), log' = [log EXCEPT ![a].undone = TRUE], ~log[a].undone
    PROVE  /\ Cardinality(MadeBy)' = Cardinality(MadeBy)
                  - (IF log[a].kind = "reminders" /\ log[a].inverse = "cancel" THEN 1 ELSE 0)
           /\ Cardinality(GoneBy)' = Cardinality(GoneBy)
                  - (IF log[a].kind = "reminders" /\ log[a].to = "gone" THEN 1 ELSE 0)
           /\ Cardinality(MadeBy) \in Nat /\ Cardinality(GoneBy) \in Nat
<1>1. /\ Len(log') = Len(log) /\ Len(log) \in Nat
      /\ \A k \in 1 .. Len(log) : k # a => log'[k] = log[k]
      /\ log'[a].undone
  BY MarkedIs, UndoShapes
<1>2. MadeBy \subseteq 1 .. Len(log) /\ GoneBy \subseteq 1 .. Len(log)
  BY DEF MadeBy, GoneBy
<1>3. IsFiniteSet(MadeBy) /\ IsFiniteSet(GoneBy)
  <2>1. IsFiniteSet(1 .. Len(log))
    BY <1>1, FS_Interval
  <2> QED  BY <1>2, <2>1, FS_Subset
<1>4. /\ MadeBy' = {k \in 1 .. Len(log) : ~log'[k].undone /\ log'[k].kind = "reminders"
                                              /\ log'[k].inverse = "cancel"}
      /\ GoneBy' = {k \in 1 .. Len(log) : ~log'[k].undone /\ log'[k].kind = "reminders"
                                              /\ log'[k].to = "gone"}
  BY <1>1 DEF MadeBy, GoneBy
<1>5. MadeBy' = MadeBy \ {a} /\ GoneBy' = GoneBy \ {a}
  BY <1>1, <1>4 DEF MadeBy, GoneBy
<1>6. /\ (log[a].kind = "reminders" /\ log[a].inverse = "cancel") <=> a \in MadeBy
      /\ (log[a].kind = "reminders" /\ log[a].to = "gone") <=> a \in GoneBy
  BY DEF MadeBy, GoneBy
<1>7. /\ Cardinality(MadeBy \ {a}) = Cardinality(MadeBy) - (IF a \in MadeBy THEN 1 ELSE 0)
      /\ Cardinality(GoneBy \ {a}) = Cardinality(GoneBy) - (IF a \in GoneBy THEN 1 ELSE 0)
      /\ Cardinality(MadeBy) \in Nat /\ Cardinality(GoneBy) \in Nat
  <2>1. ASSUME NEW S, IsFiniteSet(S)
        PROVE  Cardinality(S \ {a}) = Cardinality(S) - (IF a \in S THEN 1 ELSE 0) /\ Cardinality(S) \in Nat
    <3>1. CASE a \in S
      BY <2>1, <3>1, FS_RemoveElement, FS_CardinalityType
    <3>2. CASE a \notin S
      <4>1. S \ {a} = S
        BY <3>2, Zenon
      <4>2. Cardinality(S) \in Nat
        BY <2>1, FS_CardinalityType
      <4>3. Cardinality(S \ {a}) = Cardinality(S) /\ (IF a \in S THEN 1 ELSE 0) = 0
        BY <4>1, <3>2, Zenon
      <4> QED  BY <4>2, <4>3
    <3> QED  BY <3>1, <3>2
  <2> QED  BY <1>3, <2>1
<1>8. Cardinality(MadeBy)' = Cardinality(MadeBy') /\ Cardinality(GoneBy)' = Cardinality(GoneBy')
  OBVIOUS
<1> QED  BY <1>5, <1>6, <1>7, <1>8
-----------------------------------------------------------------------------
\* What the inverse does: to a switch what it was, to the items what the write
\* is no longer counted for.
LEMMA InvertsIs ==
    ASSUME UndoIInv, NEW a \in 1 .. Len(log), Inverts(log[a])
    PROVE  /\ switch' \in [Switch -> Position]
           /\ items' \in Seq(Time \cup {"gone"}) /\ Len(items') <= MaxItems
           /\ \A s \in Switch : /\ (log[a].about # s => switch'[s] = switch[s])
                                /\ (log[a].about = s => /\ log[a].inverse = "switch"
                                                        /\ switch'[s] = log[a].was)
           /\ Cardinality(Live)' = Cardinality(Live)
                  - (IF log[a].kind = "reminders" /\ log[a].inverse = "cancel" THEN 1 ELSE 0)
                  + (IF log[a].kind = "reminders" /\ log[a].to = "gone" THEN 1 ELSE 0)
           /\ Cardinality(Live) \in Nat
<1>1. UndoShape /\ WriteRight(log[a]) /\ "gone" \notin Time /\ MaxItems \in Nat
  BY UndoAssumption DEF UndoIInv, WritesRight
<1>2. /\ switch \in [Switch -> Position] /\ items \in Seq(Time \cup {"gone"}) /\ Len(items) <= MaxItems
      /\ Len(items) \in Nat /\ DOMAIN items = 1 .. Len(items)
  BY <1>1, UndoShapes DEF UndoShape
<1>3. Cardinality(Live) \in Nat
  <2>1. IsFiniteSet(1 .. Len(items)) /\ Live \subseteq 1 .. Len(items)
    BY <1>2, FS_Interval DEF Live
  <2> QED  BY <2>1, FS_Subset, FS_CardinalityType
<1>4. CASE log[a].inverse = "switch" /\ switch' = [switch EXCEPT ![log[a].about] = log[a].was] /\ UNCHANGED items
  <2>1. log[a].about \in Switch /\ log[a].was \in Position /\ log[a].kind # "reminders"
    BY <1>1, <1>4 DEF WriteRight
  <2>2. switch' \in [Switch -> Position]
    BY <1>2, <1>4, <2>1
  <2>3. \A s \in Switch : switch'[s] = IF s = log[a].about THEN log[a].was ELSE switch[s]
    BY <1>2, <1>4, <2>1
  <2>4. Live' = Live
    BY <1>4 DEF Live
  <2>5. Cardinality(Live)' = Cardinality(Live)
    BY <2>4
  <2>6. /\ items' \in Seq(Time \cup {"gone"}) /\ Len(items') <= MaxItems
    BY <1>2, <1>4
  <2>7. Cardinality(Live)' = Cardinality(Live)
                  - (IF log[a].kind = "reminders" /\ log[a].inverse = "cancel" THEN 1 ELSE 0)
                  + (IF log[a].kind = "reminders" /\ log[a].to = "gone" THEN 1 ELSE 0)
    BY <1>3, <2>1, <2>5
  <2> QED  BY <1>3, <1>4, <2>2, <2>3, <2>6, <2>7
<1>5. CASE log[a].inverse \in {"recreate", "cancel", "move"} /\ UNCHANGED switch
  <2>1. log[a].about \notin Switch /\ log[a].kind = "reminders"
    BY <1>1, <1>5 DEF WriteRight
  <2>2. switch' \in [Switch -> Position] /\ \A s \in Switch : switch'[s] = switch[s] /\ log[a].about # s
    BY <1>2, <1>5, <2>1
  <2>3. /\ items' \in Seq(Time \cup {"gone"}) /\ Len(items') <= MaxItems
        /\ Cardinality(Live)' = Cardinality(Live)
                  - (IF log[a].kind = "reminders" /\ log[a].inverse = "cancel" THEN 1 ELSE 0)
                  + (IF log[a].kind = "reminders" /\ log[a].to = "gone" THEN 1 ELSE 0)
    <3>1. CASE log[a].inverse = "recreate"
      <4>1. log[a].was \in Time /\ log[a].to = "gone"
        BY <1>1, <3>1 DEF WriteRight
      <4>2. Len(items) < MaxItems /\ items' = Append(items, log[a].was)
        BY <3>1 DEF Inverts
      <4>3. /\ items' \in Seq(Time \cup {"gone"}) /\ Len(items') <= MaxItems
            /\ Cardinality(Live)' = Cardinality(Live) + 1
        BY <1>1, <4>1, <4>2, LiveMade
      <4> QED  BY <1>3, <2>1, <3>1, <4>1, <4>3
    <3>2. CASE log[a].inverse = "cancel"
      <4>1. log[a].was = "gone" /\ log[a].to # "gone"
        BY <1>1, <3>2 DEF WriteRight
      <4>2. log[a].about \in Live /\ items' = [items EXCEPT ![log[a].about] = "gone"]
        BY <3>2, <4>1 DEF Inverts
      <4>3. "gone" \in Time \cup {"gone"}
        OBVIOUS
      <4>4. /\ items' \in Seq(Time \cup {"gone"}) /\ Len(items') <= MaxItems
            /\ Cardinality(Live)' = Cardinality(Live) - (IF "gone" = "gone" THEN 1 ELSE 0)
        BY <1>1, <4>2, <4>3, LiveSet
      <4> QED  BY <1>3, <2>1, <3>2, <4>1, <4>4
    <3>3. CASE log[a].inverse = "move"
      <4>1. log[a].was \in Time /\ log[a].to # "gone"
        BY <1>1, <3>3 DEF WriteRight
      <4>2. log[a].about \in Live /\ items' = [items EXCEPT ![log[a].about] = log[a].was]
        BY <3>3 DEF Inverts
      <4>3. log[a].was \in Time \cup {"gone"} /\ log[a].was # "gone"
        BY <1>1, <4>1
      <4>4. /\ items' \in Seq(Time \cup {"gone"}) /\ Len(items') <= MaxItems
            /\ Cardinality(Live)' = Cardinality(Live) - (IF log[a].was = "gone" THEN 1 ELSE 0)
        BY <1>1, <4>2, <4>3, LiveSet
      <4> QED  BY <1>3, <2>1, <3>3, <4>1, <4>3, <4>4
    <3> QED  BY <1>5, <3>1, <3>2, <3>3
  <2> QED  BY <1>3, <2>2, <2>3
<1> QED  BY <1>4, <1>5 DEF Inverts

\* The yes: the newest of its kind is taken back and marked, or Postgres misses
\* the mark, or something came between.
LEMMA RunsUndoStep == UndoIInv /\ RunsUndo => UndoIInv'
<1> SUFFICES ASSUME UndoIInv, RunsUndo PROVE UndoIInv'
  OBVIOUS
<1>1. UndoShape /\ WritesRight /\ AskRight /\ RunsRight /\ BackRight
  BY DEF UndoIInv
<1>2. PICK a \in 1 .. Len(log) : a = ask
  BY <1>1 DEF UndoShape, RunsUndo
<1>3. PICK marked \in BOOLEAN :
         /\ ask' = 0 /\ Inverts(log[a]) /\ runs' = [runs EXCEPT ![a] = @ + 1] /\ runs[a] < 2
         /\ log' = (IF marked THEN [log EXCEPT ![a].undone = TRUE] ELSE log)
         /\ amiss' = amiss \cup ((IF marked THEN {} ELSE {"unmarked"})
                                 \cup (IF Len(log) > asked THEN {"overtaken"} ELSE {}))
         /\ asked' = asked /\ first' = first
  BY <1>2 DEF RunsUndo, Amiss
<1>4. ~log[a].undone
  BY <1>1, <1>2 DEF AskRight
<1>5. /\ switch' \in [Switch -> Position]
      /\ items' \in Seq(Time \cup {"gone"}) /\ Len(items') <= MaxItems
      /\ \A s \in Switch : /\ (log[a].about # s => switch'[s] = switch[s])
                           /\ (log[a].about = s => /\ log[a].inverse = "switch"
                                                   /\ switch'[s] = log[a].was)
      /\ Cardinality(Live)' = Cardinality(Live)
             - (IF log[a].kind = "reminders" /\ log[a].inverse = "cancel" THEN 1 ELSE 0)
             + (IF log[a].kind = "reminders" /\ log[a].to = "gone" THEN 1 ELSE 0)
      /\ Cardinality(Live) \in Nat
  BY <1>3, InvertsIs
<1>6. /\ runs' \in Seq(Nat) /\ Len(runs') = Len(log) /\ runs'[a] = runs[a] + 1
      /\ \A k \in 1 .. Len(log) : k # a => runs'[k] = runs[k]
  BY <1>1, <1>3, UndoShapes DEF UndoShape
<1>7. /\ amiss \subseteq amiss' /\ amiss' \subseteq {"unlogged", "unmarked", "overtaken", "elsewhere"}
      /\ ~marked => "unmarked" \in amiss'
      /\ Len(log) > asked => "overtaken" \in amiss'
  BY <1>1, <1>3 DEF UndoShape
<1>8. /\ log' \in Seq(Write) /\ Len(log') = Len(log) /\ Len(log) \in Nat
      /\ \A k \in 1 .. Len(log) :
            /\ log'[k].kind = log[k].kind /\ log'[k].about = log[k].about /\ log'[k].to = log[k].to
            /\ log'[k].inverse = log[k].inverse /\ log'[k].was = log[k].was
            /\ (log[k].logged => log'[k].logged)
            /\ (k # a => log'[k] = log[k])
  <2>1. CASE marked
    BY <1>1, <1>3, <2>1, MarkedIs, UndoShapes
  <2>2. CASE ~marked
    BY <1>1, <1>3, <2>2, UndoShapes DEF UndoShape
  <2> QED  BY <2>1, <2>2
<1>9. UndoShape'
  <2>1. ask' \in 0 .. Len(log') /\ asked' \in 0 .. Len(log') /\ Len(log') <= MaxLog
    BY <1>1, <1>3, <1>8 DEF UndoShape
  <2> QED  BY <1>1, <1>3, <1>5, <1>6, <1>7, <1>8, <2>1 DEF UndoShape
<1>10. WritesRight'
  <2>1. \A k \in 1 .. Len(log) : WriteRight(log'[k])
    BY <1>1, <1>8 DEF WritesRight, WriteRight
  <2> QED  BY <1>8, <2>1 DEF WritesRight, WriteRight
<1>11. AskRight'
  BY <1>3 DEF AskRight
<1>12. RunsRight'
  <2> SUFFICES ASSUME "unmarked" \notin amiss', NEW k \in 1 .. Len(log')
               PROVE  runs'[k] <= 1 /\ (~log'[k].undone => runs'[k] = 0)
    BY DEF RunsRight
  <2>1. marked /\ \A j \in 1 .. Len(log) : runs[j] <= 1 /\ (~log[j].undone => runs[j] = 0)
    BY <1>1, <1>7 DEF RunsRight
  <2>2. log'[a].undone
    BY <1>1, <1>3, <2>1, MarkedIs
  <2>3. CASE k = a
    BY <1>4, <1>6, <2>1, <2>2, <2>3
  <2>4. CASE k # a
    BY <1>6, <1>8, <2>1, <2>4
  <2> QED  BY <2>3, <2>4
<1>13. BackRight'
  <2> SUFFICES ASSUME amiss' = {}
               PROVE  /\ \A k \in 1 .. Len(log') : log'[k].logged
                      /\ \A s \in Switch : Chained(s)'
                      /\ Counted'
    BY DEF BackRight
  <2>1. /\ amiss = {} /\ marked /\ ~(Len(log) > asked)
        /\ log' = [log EXCEPT ![a].undone = TRUE]
    BY <1>3, <1>7
  <2>2. asked = Len(log)
    BY <1>1, <1>8, <2>1 DEF UndoShape
  <2>3. \A j \in 1 .. Len(log) : (~log[j].undone /\ log[j].kind = log[a].kind) => j <= a
    BY <1>1, <1>2, <2>1, <2>2 DEF AskRight
  <2>4. \A k \in 1 .. Len(log') : log'[k].logged
    BY <1>1, <1>8, <2>1 DEF BackRight
  <2>5. ASSUME NEW s \in Switch PROVE Chained(s)'
    <3>1. Chained(s)
      BY <1>1, <2>1 DEF BackRight
    <3>2. log[a].about = s => /\ log[a].inverse = "switch" /\ switch'[s] = log[a].was
                              /\ \A j \in StandsAt(s) : j <= a
      <4> SUFFICES ASSUME log[a].about = s, NEW j \in StandsAt(s) PROVE j <= a
        BY <1>5
      <4>1. j \in 1 .. Len(log) /\ ~log[j].undone /\ log[j].about = s
        BY DEF StandsAt
      <4>2. log[j].kind = "home" /\ log[a].kind = "home"
        BY <1>1, <4>1 DEF WritesRight, WriteRight
      <4> QED  BY <2>3, <4>1, <4>2
    <3>3. log[a].about # s => switch'[s] = switch[s]
      BY <1>5
    <3> QED  BY <1>1, <1>3, <1>4, <2>1, <3>1, <3>2, <3>3, ChainShrinks
  <2>6. Counted'
    <3>1. Cardinality(Live) = Cardinality(MadeBy) - Cardinality(GoneBy)
      BY <1>1, <2>1 DEF BackRight, Counted
    <3>2. /\ Cardinality(MadeBy)' = Cardinality(MadeBy)
                  - (IF log[a].kind = "reminders" /\ log[a].inverse = "cancel" THEN 1 ELSE 0)
          /\ Cardinality(GoneBy)' = Cardinality(GoneBy)
                  - (IF log[a].kind = "reminders" /\ log[a].to = "gone" THEN 1 ELSE 0)
          /\ Cardinality(MadeBy) \in Nat /\ Cardinality(GoneBy) \in Nat
      BY <1>1, <1>4, <2>1, CountsShrink
    <3>3. Cardinality(Live)' = Cardinality(Live)
                  - (IF log[a].kind = "reminders" /\ log[a].inverse = "cancel" THEN 1 ELSE 0)
                  + (IF log[a].kind = "reminders" /\ log[a].to = "gone" THEN 1 ELSE 0)
      BY <1>5
    <3>4. Cardinality(Live)' = Cardinality(MadeBy)' - Cardinality(GoneBy)'
      BY <3>1, <3>2, <3>3
    <3> QED  BY <3>4 DEF Counted
  <2> QED  BY <2>4, <2>5, <2>6
<1> QED  BY <1>9, <1>10, <1>11, <1>12, <1>13 DEF UndoIInv
-----------------------------------------------------------------------------
LEMMA UndoStep == UndoIInv /\ [UndoNext]_undoVars => UndoIInv'
<1> SUFFICES ASSUME UndoIInv, [UndoNext]_undoVars PROVE UndoIInv'
  OBVIOUS
<1>1. ASSUME NEW s \in Switch, NEW v \in Position, Switches(s, v) PROVE UndoIInv'
  BY <1>1, SwitchesStep
<1>2. ASSUME NEW t \in Time, Creates(t) PROVE UndoIInv'
  BY <1>2, CreatesStep
<1>3. ASSUME NEW t \in Time, NEW i \in Live, Moves(i, t) PROVE UndoIInv'
  BY <1>3, MovesStep
<1>4. ASSUME NEW i \in Live, Cancels(i) PROVE UndoIInv'
  BY <1>4, CancelsStep
<1>5. CASE Plays("home", "none")
  BY <1>5, PlaysStep
<1>6. CASE Plays("music", "music.pause")
  BY <1>6, PlaysStep
<1>7. ASSUME NEW family \in {"any", "home", "reminders"}, AsksUndo(family) PROVE UndoIInv'
  BY <1>7, AsksUndoStep
<1>8. CASE Elsewhere \/ RunsUndo \/ Leaves
  BY <1>8, ElsewhereStep, RunsUndoStep, LeavesStep
<1>9. CASE UNCHANGED undoVars
  BY <1>9, SameUndo DEF undoVars
<1> QED  BY <1>1, <1>2, <1>3, <1>4, <1>5, <1>6, <1>7, <1>8, <1>9 DEF UndoNext

\* Undoing steps back through the writes: a switch is where the newest write
\* that stands put it, there are as many items as the writes that stand made
\* and did not cancel, and no inverse runs twice, for every sequence of writes
\* and undos (store/actions.py, _undo_command of orchestrator.py).
THEOREM UndoHolds == UndoSpec => []UndoInv
<1>1. UndoInit => UndoIInv
  BY InitUndo
<1>2. UndoIInv /\ [UndoNext]_undoVars => UndoIInv'
  BY UndoStep
<1>3. UndoIInv => UndoInv
  BY UndoIsSafe
<1> QED  BY <1>1, <1>2, <1>3, PTL DEF UndoSpec

-----------------------------------------------------------------------------
(***************************************************************************)
(* The second reading.  What a reader took with it was on the document for *)
(* a reason, however long ago it read it; and only of photos is anything   *)
(* proposed.                                                               *)
(***************************************************************************)
Carries ==
    \A r \in Reader : reading[r].was \subseteq People(Grounds, reading[r].doc)
OnPhotos == spotted \subseteq Photo \X Registered

ReadingIInv == ReadingInv /\ Carries /\ OnPhotos

ReadingState == [at : {"idle", "due", "open", "linking"}, doc : Doc,
                 was : SUBSET Registered, who : SUBSET Registered]

LEMMA NobodyTyped ==
    Nobody \in ReadingState /\ Nobody.was = {} /\ Nobody.doc \in Doc
<1>1. (CHOOSE d \in Doc : TRUE) \in Doc
  BY ReadingAssumption
<1> QED  BY <1>1 DEF Nobody, ReadingState

LEMMA InitReading == ReadingInit => ReadingIInv
<1> SUFFICES ASSUME ReadingInit PROVE ReadingIInv
  OBVIOUS
<1>1. ReadingTypeOK
  BY NobodyTyped DEF ReadingInit, ReadingTypeOK, ReadingState
<1>2. OwnersWordStays /\ NobodyInvented /\ Carries /\ OnPhotos
  BY NobodyTyped DEF ReadingInit, OwnersWordStays, NobodyInvented, Carries, OnPhotos
<1> QED  BY <1>1, <1>2 DEF ReadingIInv, ReadingInv

\* More is named, and nothing is forgotten that the owner said.
LEMMA PeopleGrow ==
    ASSUME NEW A, NEW B, A \subseteq B, NEW d
    PROVE  People(A, d) \subseteq People(B, d)
BY DEF People

\* Of a file nothing is proposed: what has grounds is in the text or named.
LEMMA FilesHaveWords ==
    ASSUME OnPhotos, NEW d \in Doc \ Photo
    PROVE  People(Grounds, d) = People(InText \cup ever, d)
BY DEF People, Grounds, OnPhotos

LEMMA GroundsSuffice ==
    ASSUME OnPhotos, \A d \in Doc : subjects[d] \subseteq People(Grounds, d)
    PROVE  NobodyInvented
BY FilesHaveWords DEF NobodyInvented

\* The grounds grow with whom the owner names and whom a photo shows.
LEMMA GroundsGrow ==
    ASSUME ever \subseteq ever', spotted \subseteq spotted', NEW d \in Doc
    PROVE  People(Grounds, d) \subseteq People(Grounds', d)
BY PeopleGrow DEF Grounds

\* Naming somebody, in a caption or a title, and finding somebody in a photo.
LEMMA NamingKeeps ==
    ASSUME ReadingIInv, NEW d \in Doc, NEW X \in SUBSET Registered, NEW Y \in SUBSET Registered,
           d \in Photo \/ Y = {},
           subjects' = [subjects EXCEPT ![d] = @ \cup X \cup Y],
           ever' = ever \cup ({d} \X X), spotted' = spotted \cup ({d} \X Y),
           told' = told \cup ({d} \X X),
           overtaken' = overtaken \ ({d} \X (X \cup Y))
    PROVE  /\ subjects' \in [Doc -> SUBSET Registered]
           /\ told' \subseteq Doc \X Registered /\ overtaken' \subseteq told' /\ told' \subseteq ever'
           /\ OwnersWordStays' /\ NobodyInvented' /\ OnPhotos'
           /\ \A e \in Doc : People(Grounds, e) \subseteq People(Grounds', e)
<1>1. ReadingTypeOK /\ OwnersWordStays /\ NobodyInvented /\ OnPhotos
  BY DEF ReadingIInv, ReadingInv
<1>2. /\ subjects' \in [Doc -> SUBSET Registered] /\ subjects'[d] = subjects[d] \cup X \cup Y
      /\ \A e \in Doc : subjects[e] \subseteq subjects'[e] /\ (e # d => subjects'[e] = subjects[e])
  BY <1>1 DEF ReadingTypeOK
<1>3. told' \subseteq Doc \X Registered /\ overtaken' \subseteq told' /\ told' \subseteq ever'
  BY <1>1 DEF ReadingTypeOK
<1>4. OwnersWordStays'
  <2> SUFFICES ASSUME NEW t \in told' \ overtaken' PROVE t[2] \in subjects'[t[1]]
    BY DEF OwnersWordStays
  <2>1. CASE t \in {d} \X (X \cup Y)
    BY <1>2, <2>1
  <2>2. CASE t \notin {d} \X (X \cup Y)
    <3>1. t \in told \ overtaken /\ t[1] \in Doc
      BY <1>1, <2>2 DEF ReadingTypeOK
    <3> QED  BY <1>1, <1>2, <3>1 DEF OwnersWordStays
  <2> QED  BY <2>1, <2>2
<1>5. \A e \in Doc : People(Grounds, e) \subseteq People(Grounds', e)
  BY GroundsGrow
<1>6. OnPhotos'
  BY <1>1 DEF OnPhotos
<1>7. \A e \in Doc : subjects'[e] \subseteq People(Grounds', e)
  <2> SUFFICES ASSUME NEW e \in Doc PROVE subjects'[e] \subseteq People(Grounds', e)
    OBVIOUS
  <2>1. subjects[e] \subseteq People(Grounds', e)
    BY <1>1, <1>5 DEF NobodyInvented
  <2>2. X \cup Y \subseteq People(Grounds', d)
    BY DEF People, Grounds
  <2> QED  BY <1>2, <2>1, <2>2
<1>8. NobodyInvented'
  <2>1. \A e \in Doc \ Photo : People(Grounds', e) = People(InText \cup ever', e)
    BY <1>6 DEF People, Grounds, OnPhotos
  <2> QED  BY <1>7, <2>1 DEF NobodyInvented
<1> QED  BY <1>2, <1>3, <1>4, <1>5, <1>6, <1>8

\* A step that names nobody new and leaves the subjects with grounds.
LEMMA NobodyNew ==
    ASSUME OnPhotos', \A e \in Doc : subjects'[e] \subseteq People(Grounds', e)
    PROVE  NobodyInvented'
<1>1. \A e \in Doc \ Photo : People(Grounds', e) = People(InText \cup ever', e)
  BY DEF People, Grounds, OnPhotos
<1> QED  BY <1>1 DEF NobodyInvented

\* What is found is in the text.
LEMMA RolesInText ==
    ASSUME NEW d \in Doc, NEW s \in SUBSET Registered, NEW m \in SUBSET Registered
    PROVE  /\ Roles(d, s, m).subjects \subseteq People(InText, d)
           /\ Roles(d, s, m).mentions \subseteq Registered
           /\ Roles(d, s, m).subjects \cap Roles(d, s, m).mentions = {}
<1>1. People(InText, d) \subseteq Registered /\ People(Labelled, d) \subseteq Registered
  BY DEF People
<1> QED  BY <1>1 DEF Roles, ByLabels, Understood, Sifted, Silent

LEMMA IngestsStep ==
    ASSUME ReadingIInv, NEW d \in Doc, NEW X \in SUBSET Registered, NEW Y \in SUBSET Registered,
           Joins(d, X, Y), d \in Photo \/ Y = {},
           \/ UNCHANGED reading
           \/ \E r \in Reader : reading' = [reading EXCEPT ![r] = [Nobody EXCEPT !.at = "due", !.doc = d]]
    PROVE  ReadingIInv'
<1>1. /\ subjects' \in [Doc -> SUBSET Registered]
      /\ told' \subseteq Doc \X Registered /\ overtaken' \subseteq told' /\ told' \subseteq ever'
      /\ OwnersWordStays' /\ NobodyInvented' /\ OnPhotos'
      /\ \A e \in Doc : People(Grounds, e) \subseteq People(Grounds', e)
  BY NamingKeeps DEF Joins
<1>2. stored' \subseteq Doc /\ reading \in [Reader -> ReadingState] /\ Carries
  BY DEF ReadingIInv, ReadingInv, ReadingTypeOK, Joins, ReadingState
<1>3. CASE UNCHANGED reading
  <2>1. Carries'
    BY <1>1, <1>2, <1>3 DEF Carries, ReadingState
  <2> QED  BY <1>1, <1>2, <1>3, <2>1 DEF ReadingIInv, ReadingInv, ReadingTypeOK, ReadingState
<1>4. ASSUME NEW r \in Reader, reading' = [reading EXCEPT ![r] = [Nobody EXCEPT !.at = "due", !.doc = d]]
      PROVE  ReadingIInv'
  <2>1. /\ [Nobody EXCEPT !.at = "due", !.doc = d] \in ReadingState
        /\ [Nobody EXCEPT !.at = "due", !.doc = d].was = {}
    BY NobodyTyped DEF ReadingState
  <2>2. /\ reading' \in [Reader -> ReadingState] /\ reading'[r].was = {}
        /\ \A q \in Reader : q # r => reading'[q] = reading[q]
    BY <1>2, <1>4, <2>1
  <2>3. Carries'
    BY <1>1, <1>2, <2>2 DEF Carries, ReadingState
  <2> QED  BY <1>1, <1>2, <2>2, <2>3 DEF ReadingIInv, ReadingInv, ReadingTypeOK, ReadingState
<1> QED  BY <1>3, <1>4

LEMMA RenamesStep ==
    ASSUME ReadingIInv, NEW d \in Doc, NEW x \in Registered, Renames(d, x)
    PROVE  ReadingIInv'
<1>1. {d} \X {x} = {<<d, x>>} /\ {x} \in SUBSET Registered /\ {x} \cup {} = {x} /\ {d} \X {} = {}
  OBVIOUS
<1>2. /\ subjects' = [subjects EXCEPT ![d] = @ \cup {x} \cup {}]
      /\ ever' = ever \cup ({d} \X {x}) /\ told' = told \cup ({d} \X {x})
      /\ spotted' = spotted \cup ({d} \X {}) /\ overtaken' = overtaken \ ({d} \X ({x} \cup {}))
      /\ stored' = stored /\ reading' = reading
  BY <1>1 DEF Renames
<1>3. /\ subjects' \in [Doc -> SUBSET Registered]
      /\ told' \subseteq Doc \X Registered /\ overtaken' \subseteq told' /\ told' \subseteq ever'
      /\ OwnersWordStays' /\ NobodyInvented' /\ OnPhotos'
      /\ \A e \in Doc : People(Grounds, e) \subseteq People(Grounds', e)
  BY <1>1, <1>2, NamingKeeps
<1>4. ReadingTypeOK /\ Carries
  BY DEF ReadingIInv, ReadingInv
<1>5. Carries'
  BY <1>2, <1>3, <1>4 DEF Carries, ReadingTypeOK
<1> QED  BY <1>2, <1>3, <1>4, <1>5 DEF ReadingIInv, ReadingInv, ReadingTypeOK

LEMMA DeletesStep ==
    ASSUME ReadingIInv, NEW d \in Doc, Deletes(d)
    PROVE  ReadingIInv'
<1>0. ReadingTypeOK /\ OwnersWordStays /\ NobodyInvented /\ Carries /\ OnPhotos
  BY DEF ReadingIInv, ReadingInv
<1>1. /\ stored' \subseteq Doc /\ reading' = reading /\ ever' = ever /\ spotted' = spotted
      /\ told' = told \ ({d} \X Registered) /\ overtaken' = overtaken \ ({d} \X Registered)
  BY <1>0 DEF Deletes, ReadingTypeOK
<1>2. /\ subjects' \in [Doc -> SUBSET Registered] /\ subjects'[d] = {}
      /\ \A e \in Doc : e # d => subjects'[e] = subjects[e]
  BY <1>0 DEF Deletes, ReadingTypeOK
<1>3. OwnersWordStays'
  <2> SUFFICES ASSUME NEW t \in told' \ overtaken' PROVE t[2] \in subjects'[t[1]]
    BY DEF OwnersWordStays
  <2>1. t \in told \ overtaken /\ t[1] \in Doc /\ t[1] # d
    BY <1>0, <1>1 DEF ReadingTypeOK
  <2> QED  BY <1>0, <1>2, <2>1 DEF OwnersWordStays
<1>4. NobodyInvented' /\ Carries' /\ OnPhotos'
  BY <1>0, <1>1, <1>2 DEF NobodyInvented, Carries, OnPhotos, Grounds
<1> QED  BY <1>0, <1>1, <1>2, <1>3, <1>4 DEF ReadingIInv, ReadingInv, ReadingTypeOK

\* A reading that begins, or a link that has read.
LEMMA BeginsStep ==
    ASSUME ReadingIInv, NEW r \in Reader, NEW new \in ReadingState,
           new.was \subseteq People(Grounds, new.doc),
           reading' = [reading EXCEPT ![r] = new],
           UNCHANGED <<stored, subjects, ever, spotted, told, overtaken>>
    PROVE  ReadingIInv'
<1>0. ReadingTypeOK /\ OwnersWordStays /\ NobodyInvented /\ Carries /\ OnPhotos
  BY DEF ReadingIInv, ReadingInv
<1>1. /\ reading' \in [Reader -> ReadingState] /\ reading'[r] = new
      /\ \A q \in Reader : q # r => reading'[q] = reading[q]
  BY <1>0 DEF ReadingTypeOK, ReadingState
<1>2. Carries'
  BY <1>0, <1>1 DEF Carries, Grounds
<1>3. OwnersWordStays' /\ NobodyInvented' /\ OnPhotos'
  BY <1>0 DEF OwnersWordStays, NobodyInvented, OnPhotos, Grounds
<1>4. ReadingTypeOK'
  BY <1>0, <1>1 DEF ReadingTypeOK, ReadingState
<1> QED  BY <1>2, <1>3, <1>4 DEF ReadingIInv, ReadingInv

\* What is written from what was read before: some are taken off, and some are
\* put on, each with grounds; what was named meanwhile is overtaken.
LEMMA WritesBack ==
    ASSUME ReadingIInv, NEW r \in Reader, NEW d \in Doc, NEW now \in SUBSET Registered,
           NEW less \in SUBSET Registered, NEW more \in SUBSET Registered,
           reading' = [reading EXCEPT ![r] = Nobody],
           subjects' = [subjects EXCEPT ![d] = now],
           stored' = stored, spotted' = spotted, ever' = ever \cup ({d} \X more),
           told' = (told \ ({d} \X less)) \cup ({d} \X more),
           overtaken' \subseteq told',
           \A t \in told' : t[1] = d /\ t \notin overtaken' => t[2] \in now,
           \A t \in overtaken : t[1] # d => t \in overtaken',
           now \subseteq People(Grounds', d)
    PROVE  ReadingIInv'
<1>0. ReadingTypeOK /\ OwnersWordStays /\ NobodyInvented /\ Carries /\ OnPhotos
  BY DEF ReadingIInv, ReadingInv
<1>1. /\ reading' \in [Reader -> ReadingState] /\ reading'[r] = Nobody
      /\ \A q \in Reader : q # r => reading'[q] = reading[q]
  BY <1>0, NobodyTyped DEF ReadingTypeOK, ReadingState
<1>2. /\ subjects' \in [Doc -> SUBSET Registered] /\ subjects'[d] = now
      /\ \A e \in Doc : e # d => subjects'[e] = subjects[e]
  BY <1>0 DEF ReadingTypeOK
<1>3. told' \subseteq Doc \X Registered /\ told' \subseteq ever'
  BY <1>0 DEF ReadingTypeOK
<1>4. OwnersWordStays'
  <2> SUFFICES ASSUME NEW t \in told' \ overtaken' PROVE t[2] \in subjects'[t[1]]
    BY DEF OwnersWordStays
  <2>1. CASE t[1] = d
    BY <1>2, <2>1
  <2>2. CASE t[1] # d
    <3>1. t \in told \ overtaken /\ t[1] \in Doc
      BY <1>0, <2>2 DEF ReadingTypeOK
    <3> QED  BY <1>0, <1>2, <2>2, <3>1 DEF OwnersWordStays
  <2> QED  BY <2>1, <2>2
<1>5. \A e \in Doc : People(Grounds, e) \subseteq People(Grounds', e)
  BY GroundsGrow
<1>6. OnPhotos'
  BY <1>0 DEF OnPhotos
<1>7. NobodyInvented'
  <2>1. \A e \in Doc : subjects'[e] \subseteq People(Grounds', e)
    BY <1>0, <1>2, <1>5 DEF NobodyInvented
  <2> QED  BY <1>6, <2>1, NobodyNew
<1>8. Carries'
  BY <1>0, <1>1, <1>5, NobodyTyped DEF Carries, ReadingTypeOK
<1>9. ReadingTypeOK'
  BY <1>0, <1>1, <1>2, <1>3 DEF ReadingTypeOK, ReadingState
<1> QED  BY <1>4, <1>6, <1>7, <1>8, <1>9 DEF ReadingIInv, ReadingInv

LEMMA LeavesReading ==
    ASSUME ReadingIInv, NEW r \in Reader, reading' = [reading EXCEPT ![r] = Nobody],
           UNCHANGED <<stored, subjects, ever, spotted, told, overtaken>>
    PROVE  ReadingIInv'
<1>1. Nobody.was \subseteq People(Grounds, Nobody.doc)
  BY NobodyTyped
<1> QED  BY <1>1, NobodyTyped, BeginsStep

LEMMA LinkedStep ==
    ASSUME ReadingIInv, NEW r \in Reader, Linked(r)
    PROVE  ReadingIInv'
<1>0. ReadingTypeOK /\ Carries
  BY DEF ReadingIInv, ReadingInv
<1>1. PICK d \in Doc : d = reading[r].doc
  BY <1>0 DEF ReadingTypeOK
<1>2. PICK was \in SUBSET Registered : was = reading[r].was
  BY <1>0 DEF ReadingTypeOK
<1>3. PICK who \in SUBSET Registered : who = reading[r].who
  BY <1>0 DEF ReadingTypeOK
<1>4. reading' = [reading EXCEPT ![r] = Nobody] /\ stored' = stored /\ spotted' = spotted
  BY DEF Linked
<1>5. CASE d \in stored /\ ~(who \subseteq was)
  <2>1. /\ subjects' = [subjects EXCEPT ![d] = was \cup who]
        /\ ever' = ever \cup ({d} \X who) /\ told' = told \cup ({d} \X who)
        /\ overtaken' = (overtaken \ ({d} \X who))
                           \cup {t \in told : t[1] = d /\ t[2] \notin was \cup who}
    BY <1>1, <1>2, <1>3, <1>5 DEF Linked
  <2>2. told' = (told \ ({d} \X {})) \cup ({d} \X who)
    BY <2>1
  <2>3. overtaken' \subseteq told'
    BY <1>0, <2>1 DEF ReadingTypeOK
  <2>4. \A t \in told' : t[1] = d /\ t \notin overtaken' => t[2] \in was \cup who
    BY <2>1
  <2>5. \A t \in overtaken : t[1] # d => t \in overtaken'
    BY <2>1
  <2>6. was \cup who \subseteq People(Grounds', d)
    <3>1. was \subseteq People(Grounds, d)
      BY <1>0, <1>1, <1>2 DEF Carries
    <3>2. People(Grounds, d) \subseteq People(Grounds', d)
      BY <1>4, <2>1, GroundsGrow
    <3>3. who \subseteq People(Grounds', d)
      BY <2>1 DEF People, Grounds
    <3> QED  BY <3>1, <3>2, <3>3
  <2>7. was \cup who \in SUBSET Registered /\ {} \in SUBSET Registered
    OBVIOUS
  <2> QED  BY <1>4, <2>1, <2>2, <2>3, <2>4, <2>5, <2>6, <2>7, WritesBack
<1>6. CASE ~(d \in stored /\ ~(who \subseteq was))
  <2>1. UNCHANGED <<subjects, ever, told, overtaken>>
    BY <1>1, <1>2, <1>3, <1>6 DEF Linked
  <2> QED  BY <1>4, <2>1, LeavesReading
<1> QED  BY <1>5, <1>6

LEMMA EnrichesStep ==
    ASSUME ReadingIInv, NEW r \in Reader, NEW s \in SUBSET Registered, NEW m \in SUBSET Registered,
           Enriches(r, s, m)
    PROVE  ReadingIInv'
<1>0. ReadingTypeOK /\ Carries
  BY DEF ReadingIInv, ReadingInv
<1>1. PICK d \in Doc : d = reading[r].doc
  BY <1>0 DEF ReadingTypeOK
<1>2. PICK was \in SUBSET Registered : was = reading[r].was
  BY <1>0 DEF ReadingTypeOK
<1>3. PICK found \in SUBSET Registered : found = Roles(d, s, m).subjects
  BY RolesInText DEF People
<1>4. PICK less \in SUBSET Registered : less = Roles(d, s, m).mentions
  BY RolesInText
<1>5. found \subseteq People(InText, d) /\ found \cap less = {}
  BY <1>3, <1>4, RolesInText
<1>6. reading' = [reading EXCEPT ![r] = Nobody] /\ stored' = stored /\ ever' = ever /\ spotted' = spotted
  BY DEF Enriches
<1>7. CASE UNCHANGED <<subjects, told, overtaken>>
  BY <1>6, <1>7, LeavesReading
<1>8. CASE ~UNCHANGED <<subjects, told, overtaken>>
  <2>0. PICK now \in SUBSET Registered : now = (was \ less) \cup found
    OBVIOUS
  <2>1. /\ subjects' = [subjects EXCEPT ![d] = now]
        /\ told' = told \ ({d} \X less)
        /\ overtaken' = (overtaken \ ({d} \X less))
                           \cup {t \in told' : t[1] = d /\ t[2] \notin was \cup found}
    BY <1>1, <1>2, <1>3, <1>4, <1>8, <2>0 DEF Enriches, Corrected
  <2>2. told' = (told \ ({d} \X less)) \cup ({d} \X {}) /\ ever' = ever \cup ({d} \X {})
    BY <1>6, <2>1
  <2>3. overtaken' \subseteq told'
    BY <1>0, <2>1 DEF ReadingTypeOK
  <2>4. \A t \in told' : t[1] = d /\ t \notin overtaken' => t[2] \in now
    <3> SUFFICES ASSUME NEW t \in told', t[1] = d, t \notin overtaken'
                 PROVE  t[2] \in now
      OBVIOUS
    <3>1. t[2] \in was \cup found
      BY <2>1
    <3>2. t \in told /\ t[2] \in Registered /\ t = <<t[1], t[2]>>
      BY <1>0, <2>1 DEF ReadingTypeOK
    <3>3. t[2] \notin less
      BY <2>1, <3>2
    <3> QED  BY <2>0, <3>1, <3>3
  <2>5. \A t \in overtaken : t[1] # d => t \in overtaken'
    BY <2>1
  <2>6. now \subseteq People(Grounds', d)
    <3>1. was \subseteq People(Grounds, d)
      BY <1>0, <1>1, <1>2 DEF Carries
    <3>2. People(Grounds, d) \subseteq People(Grounds', d)
      BY <1>6, GroundsGrow
    <3>3. People(InText, d) \subseteq People(Grounds', d)
      BY PeopleGrow DEF Grounds
    <3> QED  BY <1>5, <2>0, <3>1, <3>2, <3>3
  <2>7. PICK none \in SUBSET Registered : none = {}
    OBVIOUS
  <2>8. told' = (told \ ({d} \X less)) \cup ({d} \X none) /\ ever' = ever \cup ({d} \X none)
    BY <2>2, <2>7
  <2>9. /\ subjects' = [subjects EXCEPT ![d] = now]
        /\ \A t \in told' : t[1] = d /\ t \notin overtaken' => t[2] \in now
    BY <2>1, <2>4
  <2> QED  BY <1>6, <2>3, <2>5, <2>6, <2>8, <2>9, WritesBack
<1> QED  BY <1>7, <1>8

LEMMA OpensStep ==
    ASSUME ReadingIInv, NEW r \in Reader, OpensText(r)
    PROVE  ReadingIInv'
<1>0. ReadingTypeOK /\ NobodyInvented
  BY DEF ReadingIInv, ReadingInv
<1>1. PICK d \in Doc : d = reading[r].doc
  BY <1>0 DEF ReadingTypeOK
<1>2. UNCHANGED <<stored, subjects, ever, spotted, told, overtaken>>
  BY DEF OpensText
<1>3. CASE d \in stored
  <2>1. PICK new \in ReadingState : new = [reading[r] EXCEPT !.at = "open", !.was = subjects[d]]
    BY <1>0 DEF ReadingTypeOK, ReadingState
  <2>2. new.was = subjects[d] /\ new.doc = d
    BY <1>0, <1>1, <2>1 DEF ReadingTypeOK
  <2>3. new.was \subseteq People(Grounds, new.doc)
    BY <1>0, <2>2 DEF NobodyInvented
  <2>4. reading' = [reading EXCEPT ![r] = new]
    BY <1>1, <1>3, <2>1 DEF OpensText
  <2> QED  BY <1>2, <2>3, <2>4, BeginsStep
<1>4. CASE d \notin stored
  <2>1. reading' = [reading EXCEPT ![r] = Nobody]
    BY <1>1, <1>4 DEF OpensText
  <2> QED  BY <1>2, <2>1, LeavesReading
<1> QED  BY <1>3, <1>4

LEMMA LinksStep ==
    ASSUME ReadingIInv, NEW d \in Doc, NEW x \in Registered, NEW r \in Reader, Links(d, x, r)
    PROVE  ReadingIInv'
<1>0. ReadingTypeOK /\ NobodyInvented
  BY DEF ReadingIInv, ReadingInv
<1>1. PICK new \in ReadingState :
        new = [at |-> "linking", doc |-> d, was |-> subjects[d], who |-> {x}]
  BY <1>0 DEF ReadingTypeOK, ReadingState
<1>2. new.was \subseteq People(Grounds, new.doc)
  BY <1>0, <1>1 DEF NobodyInvented
<1>3. reading' = [reading EXCEPT ![r] = new] /\ UNCHANGED <<stored, subjects, ever, spotted, told, overtaken>>
  BY <1>1 DEF Links
<1> QED  BY <1>2, <1>3, BeginsStep

LEMMA StepReading ==
    ASSUME ReadingIInv, [ReadingNext]_readingVars
    PROVE  ReadingIInv'
<1>1. ASSUME NEW d \in Doc, NEW X \in SUBSET Registered, NEW r \in Reader, Ingests(d, X, r)
      PROVE  ReadingIInv'
  BY <1>1, IngestsStep DEF Ingests
<1>2. ASSUME NEW d \in Doc, NEW X \in SUBSET Registered, NEW Y \in SUBSET Registered, IngestsPhoto(d, X, Y)
      PROVE  ReadingIInv'
  BY <1>2, IngestsStep DEF IngestsPhoto
<1>3. CASE UNCHANGED readingVars
  BY <1>3 DEF readingVars, ReadingIInv, ReadingInv, ReadingTypeOK, OwnersWordStays, NobodyInvented,
              Carries, OnPhotos, Grounds
<1> QED  BY <1>1, <1>2, <1>3, RenamesStep, DeletesStep, LinksStep, LinkedStep, OpensStep, EnrichesStep
         DEF ReadingNext

\* Whom the owner named stays on a document until a reading finds them merely
\* mentioned, or one that began before overwrites it, and nobody is on it whom
\* neither its text nor the owner ever named, nor, on a photo alone, the vision
\* model or a face put there: however many second readings and links are under
\* way, of whatever documents, sent again, renamed and deleted meanwhile.
THEOREM ReadingHolds == ReadingSpec => []ReadingInv
<1>1. ReadingIInv => ReadingInv
  BY DEF ReadingIInv
<1> QED  BY InitReading, StepReading, <1>1, PTL DEF ReadingSpec

-----------------------------------------------------------------------------
(***************************************************************************)
(* The rails.  An ask that hangs is still seen by who looks back, and a    *)
(* command is not on offer once the ask's stash is gone; a list that may   *)
(* be decided about was shown last; a thread that goes on was not left.    *)
(***************************************************************************)
HangsInSight == hung => Unsettled /\ (pending = "none" => offer # "fresh")
ListIsLast == review = "fresh" => ~aside
ThreadHolds == thread => ~apart

RailsIInv == RailsInv /\ HangsInSight /\ ListIsLast /\ ThreadHolds

\* One turn more, and the oldest forgotten when there is no room.
LEMMA OneMoreTurn ==
    ASSUME said \in Seq(Line), Len(said) <= Look, NEW t \in Line
    PROVE  /\ Pushed(t) \in Seq(Line) /\ Len(Pushed(t)) \in 1 .. Look
           /\ Pushed(t)[Len(Pushed(t))] = t
           /\ \E k \in {0, 1} :
                 /\ Len(Pushed(t)) = Len(said) + 1 - k
                 /\ \A i \in 1 .. Len(said) - k : Pushed(t)[i] = said[i + k]
<1>1. Len(said) \in Nat /\ Look \in Nat /\ Look >= 1
  BY RailsAssumption, LenProperties
<1>2. CASE Len(said) < Look
  <2>1. Pushed(t) = Append(said, t)
    BY <1>2 DEF Pushed
  <2>2. /\ Append(said, t) \in Seq(Line) /\ Len(Append(said, t)) = Len(said) + 1
        /\ \A i \in 1 .. Len(said) : Append(said, t)[i] = said[i]
        /\ Append(said, t)[Len(said) + 1] = t
    OBVIOUS
  <2>3. \A i \in 1 .. Len(said) - 0 : i \in 1 .. Len(said) /\ i + 0 = i
    BY <1>1
  <2> QED  BY <1>1, <1>2, <2>1, <2>2, <2>3
<1>3. CASE Len(said) >= Look
  <2>1. Pushed(t) = Append(Tail(said), t)
    BY <1>1, <1>3 DEF Pushed
  <2>2. said # <<>>
    BY <1>1, <1>3
  <2>3. /\ Tail(said) \in Seq(Line) /\ Len(Tail(said)) = Len(said) - 1
        /\ \A i \in 1 .. Len(said) - 1 : Tail(said)[i] = said[i + 1]
    BY <1>1, <2>2, HeadTailProperties
  <2>4. /\ Append(Tail(said), t) \in Seq(Line) /\ Len(Append(Tail(said), t)) = Len(said)
        /\ \A i \in 1 .. Len(said) - 1 : Append(Tail(said), t)[i] = Tail(said)[i]
        /\ Append(Tail(said), t)[Len(said)] = t
    BY <1>1, <2>3
  <2> QED  BY <1>1, <1>3, <2>1, <2>3, <2>4
<1> QED  BY <1>1, <1>2, <1>3

\* An ask just put is in sight.
LEMMA AskInSight ==
    ASSUME said \in Seq(Line), Len(said) <= Look, said' = Pushed("ask")
    PROVE  Unsettled'
<1>1. Len(said') \in 1 .. Look /\ said'[Len(said')] = "ask"
  BY OneMoreTurn DEF Line
<1>2. \A j \in Len(said') + 1 .. Len(said') : FALSE
  BY <1>1
<1> QED  BY <1>1, <1>2 DEF Unsettled

\* What a message leads to, whichever rail takes it.
Typed ==
    /\ said' \in Seq(Line) /\ Len(said') <= Look
    /\ pending' \in Wait /\ offer' \in Wait /\ review' \in Wait
    /\ kept' \in BOOLEAN /\ thread' \in BOOLEAN /\ private' \in BOOLEAN
    /\ aside' \in BOOLEAN /\ apart' \in BOOLEAN

Leads(w) ==
    /\ did' \in AskedNow /\ ~private => said' = Pushed("ask") /\ pending' = "fresh"
    /\ review' = "fresh" => aside' = FALSE \/ (review = "fresh" /\ aside' = aside)
    /\ thread' = TRUE => apart' = FALSE \/ (thread = TRUE /\ apart' = apart)
    /\ did' = "decided" => review = "fresh"
    /\ did' = "followed" => thread = TRUE
    /\ did' \in {"loop", "asked by the loop", "offered"} => private = FALSE /\ w # "names"

Heeds(w) ==
    (w \in ConfirmWord \cup DenyWord /\ did' \notin {"ran", "denied", "asked again", "expired", "missed"})
       => (pending = "none" /\ (offer = "fresh" \/ ~Unsettled))

Follows(w) == Typed /\ Leads(w) /\ Heeds(w)

RailsTyped ==
    /\ said \in Seq(Line) /\ Len(said) <= Look
    /\ pending \in Wait /\ offer \in Wait /\ review \in Wait
    /\ kept \in BOOLEAN /\ thread \in BOOLEAN /\ private \in BOOLEAN
    /\ aside \in BOOLEAN /\ apart \in BOOLEAN

LEMMA PushedTyped ==
    ASSUME RailsTyped, NEW t \in Line
    PROVE  Pushed(t) \in Seq(Line) /\ Len(Pushed(t)) <= Look
BY OneMoreTurn DEF RailsTyped

LEMMA SaysTyped ==
    ASSUME RailsTyped, NEW t \in Line, NEW d \in BOOLEAN, Says(t, d)
    PROVE  /\ said' \in Seq(Line) /\ Len(said') <= Look
           /\ t = "ask" /\ ~private => said' = Pushed("ask")
<1>1. (IF private \/ (d /\ t = "settled") THEN "other" ELSE t) \in Line
  BY DEF Line
<1>2. said' \in Seq(Line) /\ Len(said') <= Look
  BY <1>1, PushedTyped DEF Says
<1>3. t = "ask" /\ ~private => said' = Pushed("ask")
  BY DEF Says
<1> QED  BY <1>2, <1>3

LEMMA Lines ==
    {"ask", "settled", "question", "other"} = Line /\ Dropped \in BOOLEAN /\ FALSE \in BOOLEAN
BY DEF Line, Dropped

LEMMA BeforeTheAsk ==
    ASSUME RailsTyped, NEW w \in Word, SwitchesMode(w) \/ Skips(w) \/ Swallows(w)
    PROVE  Follows(w)
<1>1. said' \in Seq(Line) /\ Len(said') <= Look
  BY Lines, PushedTyped DEF SwitchesMode, Skips, Swallows
<1>2. Typed
  BY <1>1 DEF RailsTyped, Typed, SwitchesMode, Skips, Swallows, LeavesThread
<1>3. Leads(w)
  BY DEF Leads, AskedNow, SwitchesMode, Skips, Swallows, LeavesThread
<1>4. Heeds(w)
  BY DEF Heeds, SwitchesMode, Skips, Swallows, ConfirmWord, DenyWord
<1> QED  BY <1>2, <1>3, <1>4 DEF Follows

LEMMA AtTheAsk ==
    ASSUME RailsTyped, NEW w \in Word, Answers(w)
    PROVE  Follows(w)
<1>1. said' \in Seq(Line) /\ Len(said') <= Look
  BY Lines, PushedTyped, SaysTyped DEF Answers, Runs, Regated, Denies, Expires
<1>2. \/ did' \in {"ran", "denied", "expired"} /\ Resolved
      \/ /\ did' = "asked again" /\ pending' = "fresh" /\ kept' = FALSE
         /\ ~private => said' = Pushed("ask")
  BY Lines, SaysTyped DEF Answers, Runs, Regated, Denies, Expires
<1>3. LeavesThread /\ UNCHANGED <<offer, review, private, aside>>
  BY DEF Answers
<1>4. Typed
  BY <1>1, <1>2, <1>3 DEF RailsTyped, Typed, Resolved, LeavesThread, Wait
<1>5. Leads(w) /\ Heeds(w)
  BY <1>2, <1>3 DEF Leads, Heeds, AskedNow, LeavesThread
<1> QED  BY <1>4, <1>5 DEF Follows

\* Past the ask, a yes or a no has found no stash.
LEMMA NoStash ==
    ASSUME RailsTyped, NEW w, MovesOn(w), w \in ConfirmWord \cup DenyWord
    PROVE  pending = "none"
BY DEF RailsTyped, MovesOn, Stash, Wait

LEMMA ListAndMissed ==
    ASSUME RailsTyped, NEW w \in Word, Decides(w) \/ Misses(w)
    PROVE  Follows(w)
<1>1. CASE Decides(w)
  <2>1. said' \in Seq(Line) /\ Len(said') <= Look
    BY <1>1, Lines, SaysTyped DEF Decides
  <2>2. Typed
    BY <1>1, <2>1 DEF Decides, RailsTyped, Typed, Resolved, LeavesThread, Wait
  <2>3. Leads(w)
    BY <1>1 DEF Decides, Leads, LeavesThread, AskedNow
  <2>4. Heeds(w)
    BY <1>1 DEF Decides, Heeds, ConfirmWord, DenyWord
  <2> QED  BY <2>2, <2>3, <2>4 DEF Follows
<1>2. CASE Misses(w)
  <2>1. said' \in Seq(Line) /\ Len(said') <= Look
    BY <1>2, Lines, SaysTyped DEF Misses
  <2>2. offer' \in Wait
    BY <1>2 DEF Misses, OfferLeft, RailsTyped, Wait
  <2>3. Typed
    BY <1>2, <2>1, <2>2
       DEF Misses, Beyond, Resolved, LeavesThread, Passed, RailsTyped, Typed, Wait
  <2>4. Leads(w) /\ Heeds(w)
    <3>1. did' = "missed" /\ review' = "none" /\ LeavesThread
      BY <1>2 DEF Misses, Passed
    <3> QED  BY <3>1 DEF Leads, Heeds, LeavesThread, AskedNow
  <2> QED  BY <2>3, <2>4 DEF Follows
<1> QED  BY <1>1, <1>2

\* What gets further than an ask that is gone, as itself or as what was offered.
LEMMA FurtherFacts ==
    ASSUME RailsTyped, NEW w \in Word, NEW p \in Word, Further(w, p)
    PROVE  /\ Heeds(w) /\ private' = private /\ aside' \in BOOLEAN
           /\ aside' = FALSE <=> p = "review"
           /\ w = "names" => p = "names"
           /\ OfferLeft(w) \in Wait
<1>1. MovesOn(w) /\ private' = private /\ aside' = (p # "review")
  BY DEF Further, Beyond
<1>2. /\ ~TakesOffer(w) => p = w /\ ~Orphaned(w)
      /\ TakesOffer(w) => offer = "fresh" /\ w # "names"
  BY DEF Further, TakesOffer, ConfirmWord
<1>3. Heeds(w)
  BY <1>1, <1>2, NoStash DEF Heeds, Orphaned
<1>4. OfferLeft(w) \in Wait
  BY DEF OfferLeft, RailsTyped, Wait
<1> QED  BY <1>1, <1>2, <1>3, <1>4

LEMMA TheRails ==
    ASSUME RailsTyped, NEW w \in Word, NEW p \in Word, Further(w, p),
           \/ Offers(p)
           \/ offer' = OfferLeft(w) /\ (Acknowledges(p) \/ Obeyed \/ Gated \/ Lists(p))
    PROVE  Follows(w)
<1>1. /\ said' \in Seq(Line) /\ Len(said') <= Look
      /\ did' \in {"acknowledged", "rail", "asked", "listed", "offered"}
      /\ did' = "asked" => (~private => said' = Pushed("ask")) /\ pending' = "fresh"
      /\ pending' \in {"none", "fresh"} /\ kept' = FALSE
  BY Lines, SaysTyped DEF Acknowledges, Obeyed, Gated, Lists, Offers, Resolved
<1>2. /\ offer' \in {OfferLeft(w), "fresh"} /\ LeavesThread
      /\ review' \in {"none", "fresh"} /\ (review' = "fresh" => p = "review")
      /\ did' = "offered" => private = FALSE /\ p = "near"
  BY DEF Acknowledges, Obeyed, Gated, Lists, Offers, Passed, RailsTyped
<1>3. Typed
  BY <1>1, <1>2, FurtherFacts DEF RailsTyped, Typed, LeavesThread, Wait
<1>4. Leads(w)
  BY <1>1, <1>2, FurtherFacts DEF Leads, AskedNow, LeavesThread
<1> QED  BY <1>3, <1>4, FurtherFacts DEF Follows

LEMMA TheModels ==
    ASSUME RailsTyped, NEW w \in Word, NEW p \in Word, Further(w, p), offer' = OfferLeft(w),
           Locally(p) \/ AboutDocument(p) \/ LoopTakes(p)
    PROVE  Follows(w)
<1>0. offer' \in Wait /\ review' = "none"
  BY FurtherFacts DEF Locally, AboutDocument, LoopTakes, Reaches, Passed
<1>1. CASE Locally(p)
  <2>1. said' \in Seq(Line) /\ Len(said') <= Look
    BY <1>1, Lines, SaysTyped DEF Locally
  <2>2. did' = "local" /\ Resolved /\ LeavesThread
    BY <1>1 DEF Locally
  <2>3. Typed
    BY <1>0, <2>1, <2>2, FurtherFacts DEF RailsTyped, Typed, LeavesThread, Resolved, Wait
  <2>4. Leads(w)
    BY <1>0, <2>2 DEF Leads, AskedNow, LeavesThread
  <2> QED  BY <2>3, <2>4, FurtherFacts DEF Follows
<1>2. CASE AboutDocument(p)
  <2>1. said' \in Seq(Line) /\ Len(said') <= Look
    BY <1>2, Lines, SaysTyped DEF AboutDocument
  <2>2. /\ Resolved /\ thread' \in BOOLEAN /\ apart' \in BOOLEAN
        /\ thread' = TRUE => apart' = FALSE
        /\ did' \in {"document", "followed", "refused"} /\ (did' = "followed" => thread = TRUE)
    BY <1>2 DEF AboutDocument, LeavesThread, RailsTyped
  <2>3. Typed
    BY <1>0, <2>1, <2>2, FurtherFacts DEF RailsTyped, Typed, Resolved, Wait
  <2>4. Leads(w)
    BY <1>0, <2>2 DEF Leads, AskedNow
  <2> QED  BY <2>3, <2>4, FurtherFacts DEF Follows
<1>3. CASE LoopTakes(p)
  <2>1. /\ said' \in Seq(Line) /\ Len(said') <= Look
        /\ did' \in {"loop", "asked by the loop"} /\ pending' \in Wait /\ kept' \in BOOLEAN
        /\ did' = "asked by the loop" => (~private => said' = Pushed("ask")) /\ pending' = "fresh"
    BY <1>3, Lines, SaysTyped DEF LoopTakes, Resolved, Wait
  <2>2. LeavesThread /\ private = FALSE /\ w # "names"
    BY <1>3, FurtherFacts DEF LoopTakes, RailsTyped
  <2>3. Typed
    BY <1>0, <2>1, <2>2, FurtherFacts DEF RailsTyped, Typed, LeavesThread, Wait
  <2>4. Leads(w)
    BY <1>0, <2>1, <2>2 DEF Leads, AskedNow, LeavesThread
  <2> QED  BY <2>3, <2>4, FurtherFacts DEF Follows
<1> QED  BY <1>1, <1>2, <1>3

LEMMA EveryWord ==
    ASSUME RailsTyped, NEW w \in Word, Speaks(w)
    PROVE  Follows(w)
<1>1. \A p \in Word : Commands(p) => Obeyed \/ Gated
  BY DEF Commands, Helps, Forgets, Codes, Doses, ShowsDay, SetsVolume, Photos, SetsRule, Places,
         Glances, Saved, Claims, Registers, Relates, Upkeep, Reports, Tidies
<1> QED  BY <1>1, BeforeTheAsk, AtTheAsk, ListAndMissed, TheRails, TheModels DEF Speaks, Serves

LEMMA RailsTypes == RailsTypeOK => RailsTyped /\ hung \in BOOLEAN
BY DEF RailsTypeOK, RailsTyped

LEMMA RailsMessage ==
    ASSUME RailsIInv, NEW w \in Word, Message(w)
    PROVE  RailsIInv'
<1>0. RailsTyped /\ hung \in BOOLEAN /\ sending \in BOOLEAN
  BY RailsTypes DEF RailsIInv, RailsInv, RailsTypeOK
<1>1. Typed /\ Leads(w) /\ Heeds(w)
  BY <1>0, EveryWord DEF Message, Follows
<1>2. /\ hung' = (did' \in AskedNow /\ ~private) /\ sending' = sending
      /\ heard' = [word |-> Told(w), hung |-> hung, aside |-> aside, apart |-> apart,
                   private |-> private]
  BY DEF Message
<1>3. Told(w) \in Word /\ (Told(w) \in ConfirmWord \cup DenyWord => Told(w) = w)
      /\ (Told(w) = "names" => w = "names")
  BY DEF Told, Word, ConfirmWord, DenyWord, AckWord
<1>4. RailsTypeOK'
  <2>1. heard' \in Heard
    BY <1>0, <1>2, <1>3 DEF Heard, RailsTyped
  <2>2. hung' \in BOOLEAN /\ sending' \in BOOLEAN
    BY <1>0, <1>2, Zenon
  <2> QED  BY <1>1, <2>1, <2>2 DEF RailsTypeOK, Typed
<1>5. heard'.hung = hung /\ heard'.word = Told(w) /\ heard'.aside = aside
      /\ heard'.apart = apart /\ heard'.private = private
  BY <1>2
<1>6. NeverImprovised'
  BY <1>1, <1>3, <1>5 DEF NeverImprovised, Heeds, RailsIInv, HangsInSight
<1>7. DecidesTheListShown' /\ ThreadIsContinuous'
  BY <1>1, <1>5 DEF DecidesTheListShown, ThreadIsContinuous, Leads, RailsIInv, ListIsLast,
                    ThreadHolds
<1>8. StaysHere'
  BY <1>1, <1>3, <1>5 DEF StaysHere, Leads
<1>9. HangsInSight'
  BY <1>0, <1>1, <1>2, AskInSight DEF HangsInSight, Leads, RailsTyped
<1>10. ListIsLast' /\ ThreadHolds'
  <2>1. review' = "fresh" => ~aside'
    BY <1>0, <1>1 DEF Leads, RailsIInv, ListIsLast, RailsTyped, Typed
  <2>2. thread' => ~apart'
    BY <1>0, <1>1 DEF Leads, RailsIInv, ThreadHolds, RailsTyped, Typed
  <2> QED  BY <2>1, <2>2 DEF ListIsLast, ThreadHolds
<1> QED  BY <1>4, <1>6, <1>7, <1>8, <1>9, <1>10 DEF RailsIInv, RailsInv

\* What is said unasked pushes an ask out of sight or leaves it in sight.
LEMMA StaysInSight ==
    ASSUME RailsTyped, NEW t \in {"other", "question"}, said' = Pushed(t), Unsettled,
           \E i \in 1 .. Len(said') : said'[i] = "ask"
    PROVE  Unsettled'
<1>1. PICK n \in Nat : n = Len(said)
  BY LenProperties DEF RailsTyped
<1>2. PICK k \in {0, 1} :
         /\ Len(said') = n + 1 - k
         /\ \A i \in 1 .. n - k : said'[i] = said[i + k]
  BY <1>1, OneMoreTurn DEF RailsTyped, Line
<1>3. said'[Len(said')] = t
  BY OneMoreTurn DEF RailsTyped, Line
<1>4. PICK i \in 1 .. n : said[i] = "ask" /\ \A j \in i + 1 .. n : said[j] \notin {"ask", "settled"}
  BY <1>1 DEF Unsettled
<1>5. PICK a \in 1 .. n + 1 - k : said'[a] = "ask"
  BY <1>2
<1>6. a \in 1 .. n - k /\ said[a + k] = "ask" /\ a + k \in 1 .. n
  BY <1>2, <1>3, <1>5
<1>7. a + k <= i
  BY <1>4, <1>6
<1>8. PICK m \in 1 .. n - k : m + k = i
  BY <1>5, <1>7
<1>9. said'[m] = "ask"
  BY <1>2, <1>4, <1>8
<1>10. ASSUME NEW j \in m + 1 .. n + 1 - k PROVE said'[j] \notin {"ask", "settled"}
  <2>1. CASE j = n + 1 - k
    BY <1>2, <1>3, <2>1
  <2>2. CASE j # n + 1 - k
    <3>1. j \in 1 .. n - k /\ j + k \in i + 1 .. n
      BY <1>8, <1>10, <2>2
    <3> QED  BY <1>2, <1>4, <3>1
  <2> QED  BY <2>1, <2>2
<1> QED  BY <1>2, <1>8, <1>9, <1>10 DEF Unsettled

LEMMA SilenceTyped == Silence \in Heard /\ ~Silence.hung
BY DEF Silence, Heard, Word

LEMMA RailsMeanwhile ==
    ASSUME RailsIInv, Interjects \/ Enrolls \/ JobAsks \/ JobRecords \/ FiveMinutes \/ Restarts
    PROVE  RailsIInv'
<1>0. RailsTyped /\ hung \in BOOLEAN /\ heard \in Heard /\ sending \in BOOLEAN
  BY RailsTypes DEF RailsIInv, RailsInv, RailsTypeOK
<1>1. /\ did' = "none" /\ heard' = Silence /\ private' = private /\ aside' = aside /\ apart' = apart
  BY DEF Interjects, Enrolls, JobAsks, JobRecords, FiveMinutes, Restarts, Unheard
<1>2. said' \in Seq(Line) /\ Len(said') <= Look
  BY <1>0, Lines, PushedTyped, SaysTyped
     DEF Interjects, Enrolls, JobAsks, JobRecords, FiveMinutes, Restarts, RailsTyped
<1>3. /\ review' \in Wait /\ (review' = "fresh" => review = "fresh")
      /\ thread' \in BOOLEAN /\ (thread' => thread) /\ sending' \in BOOLEAN
      /\ pending' \in Wait /\ offer' \in Wait /\ kept' \in BOOLEAN /\ hung' \in BOOLEAN
  <2>1. CASE Interjects \/ Enrolls \/ JobAsks \/ JobRecords
    <3>1. hung' \in BOOLEAN
      BY <1>0, <2>1 DEF Interjects, Enrolls, JobAsks, JobRecords, RailsTyped
    <3>2. review' = review /\ offer' = offer /\ pending' \in {pending, "fresh"}
      BY <2>1 DEF Interjects, Enrolls, JobAsks, JobRecords
    <3>3. thread' = thread /\ kept' \in BOOLEAN /\ sending' \in BOOLEAN
      BY <1>0, <2>1, Zenon DEF Interjects, Enrolls, JobAsks, JobRecords, RailsTyped
    <3> QED  BY <1>0, <3>1, <3>2, <3>3 DEF RailsTyped, Wait
  <2>2. CASE FiveMinutes \/ Restarts
    <3>1. /\ review' \in {"none", "stale"} /\ offer' \in {"none", "stale"}
          /\ pending' \in {"none", "stale"}
      BY <2>2 DEF FiveMinutes, Restarts, Aged
    <3>2. /\ thread' \in {thread, FALSE} /\ hung' = hung /\ kept' \in {kept, FALSE}
          /\ sending' \in {sending, FALSE}
      BY <2>2, Zenon DEF FiveMinutes, Restarts
    <3>3. /\ thread' \in BOOLEAN /\ (thread' => thread) /\ kept' \in BOOLEAN /\ hung' \in BOOLEAN
          /\ sending' \in BOOLEAN
      <4>1. thread \in BOOLEAN /\ kept \in BOOLEAN /\ hung \in BOOLEAN /\ sending \in BOOLEAN
        BY <1>0 DEF RailsTyped
      <4>2. thread' \in BOOLEAN /\ kept' \in BOOLEAN /\ hung' \in BOOLEAN /\ sending' \in BOOLEAN
        BY <3>2, <4>1, Zenon
      <4>3. thread' => thread
        BY <3>2, <4>1
      <4> QED  BY <4>2, <4>3
    <3> QED  BY <3>1, <3>3 DEF Wait
  <2> QED  BY <2>1, <2>2
<1>4. RailsTypeOK'
  BY <1>0, <1>1, <1>2, <1>3, SilenceTyped DEF RailsTypeOK, RailsTyped
<1>5. NeverImprovised' /\ DecidesTheListShown' /\ ThreadIsContinuous' /\ StaysHere'
  BY <1>1, SilenceTyped DEF NeverImprovised, DecidesTheListShown, ThreadIsContinuous, StaysHere
<1>6. ListIsLast' /\ ThreadHolds'
  BY <1>1, <1>3 DEF RailsIInv, ListIsLast, ThreadHolds
<1>7. HangsInSight'
  <2>1. CASE Interjects
    <3>1. ASSUME hung' PROVE Unsettled'
      <4>1. PICK t \in {"other", "settled", "question"} :
               /\ said' = Pushed(t)
               /\ hung' = (hung /\ t # "settled" /\ \E i \in 1 .. Len(said') : said'[i] = "ask")
        BY <2>1 DEF Interjects
      <4>2. hung /\ t \in {"other", "question"} /\ \E i \in 1 .. Len(said') : said'[i] = "ask"
        BY <3>1, <4>1
      <4> QED  BY <1>0, <4>1, <4>2, StaysInSight DEF RailsIInv, HangsInSight
    <3>2. hung' => hung /\ UNCHANGED <<pending, offer>>
      BY <2>1 DEF Interjects
    <3> QED  BY <3>1, <3>2 DEF RailsIInv, HangsInSight
  <2>2. CASE Enrolls
    <3>1. hung' = ~private /\ pending' = "fresh" /\ (~private => said' = Pushed("ask"))
      BY <1>0, <2>2, Lines, SaysTyped DEF Enrolls
    <3>2. hung' => Unsettled'
      BY <1>0, <3>1, AskInSight DEF RailsTyped
    <3> QED  BY <3>1, <3>2 DEF HangsInSight
  <2>3. CASE JobAsks
    <3>1. hung' = hung /\ said' = said /\ pending' = "fresh"
      BY <2>3 DEF JobAsks
    <3> QED  BY <3>1 DEF RailsIInv, HangsInSight, Unsettled
  <2>4. CASE JobRecords
    <3>1. UNCHANGED <<pending, offer>>
      BY <2>4 DEF JobRecords
    <3>2. CASE said' = Pushed("ask") /\ hung' = (hung \/ pending # "none")
      <4>1. Unsettled'
        BY <1>0, <3>2, AskInSight DEF RailsTyped
      <4> QED  BY <3>1, <3>2, <4>1 DEF RailsIInv, HangsInSight
    <3>3. CASE UNCHANGED <<said, hung>>
      BY <3>1, <3>3 DEF RailsIInv, HangsInSight, Unsettled
    <3> QED  BY <2>4, <3>2, <3>3 DEF JobRecords
  <2>5. CASE FiveMinutes \/ Restarts
    <3>1. hung' = hung /\ Unsettled' = Unsettled /\ offer' # "fresh"
      BY <2>5 DEF FiveMinutes, Restarts, Aged, Unsettled
    <3> QED  BY <3>1 DEF RailsIInv, HangsInSight
  <2> QED  BY <2>1, <2>2, <2>3, <2>4, <2>5
<1> QED  BY <1>4, <1>5, <1>6, <1>7 DEF RailsIInv, RailsInv

LEMMA InitRails == RailsInit => RailsIInv
<1> SUFFICES ASSUME RailsInit PROVE RailsIInv
  OBVIOUS
<1>1. said = <<>> /\ said \in Seq(Line) /\ Len(said) <= Look
  BY RailsAssumption DEF RailsInit
<1>2. heard \in Heard /\ ~heard.hung
  BY SilenceTyped DEF RailsInit
<1>3. RailsTypeOK
  BY <1>1, <1>2 DEF RailsInit, RailsTypeOK, Wait
<1> QED
  BY <1>2, <1>3 DEF RailsInit, RailsIInv, RailsInv, NeverImprovised, DecidesTheListShown,
              ThreadIsContinuous, StaysHere, HangsInSight, ListIsLast, ThreadHolds

\* Whatever the owner says after an ask, however far the process or the five
\* minutes have taken the ask meanwhile: a yes or a no runs it, refuses it, is
\* asked once more, or is told that it is gone; a decision is about the list shown last; a private
\* document stays the subject from turn to turn only; and a private turn never
\* reaches the cloud.  For any number of turns looked back at.
THEOREM RailsHold == RailsSpec => []RailsInv
<1>1. RailsIInv /\ [RailsNext]_railsVars => RailsIInv'
  <2> SUFFICES ASSUME RailsIInv, [RailsNext]_railsVars PROVE RailsIInv'
    OBVIOUS
  <2>1. ASSUME NEW w \in Word, Message(w) PROVE RailsIInv'
    BY <2>1, RailsMessage
  <2>2. CASE Interjects \/ Enrolls \/ JobAsks \/ JobRecords \/ FiveMinutes \/ Restarts
    BY <2>2, RailsMeanwhile
  <2>3. CASE UNCHANGED railsVars
    BY <2>3 DEF railsVars, RailsIInv, RailsInv, RailsTypeOK, NeverImprovised, DecidesTheListShown,
                ThreadIsContinuous, StaysHere, HangsInSight, Unsettled, ListIsLast, ThreadHolds
  <2> QED  BY <2>1, <2>2, <2>3 DEF RailsNext
<1>2. RailsIInv => RailsInv
  BY DEF RailsIInv
<1> QED  BY InitRails, <1>1, <1>2, PTL DEF RailsSpec

-----------------------------------------------------------------------------
(***************************************************************************)
(* What waits for a review.  A file in the queue was not refused, a notice *)
(* is about facts that exist, and a drafted lesson is marked as drafted;   *)
(* what the sweep holds is a file that was there; and the reviews on the   *)
(* counter were given since the last thing that restarts it.               *)
(***************************************************************************)
Paper == [kind : {"fact", "dispute", "rule", "gone"}, says : Saying \cup Lesson \cup Nat,
          over : Saying \cup {"nothing"} \cup Nat, reviewer : Teller, auto : BOOLEAN]
Stats == [reviewed : 0 .. TotalNeeded, recent : Seq(BOOLEAN), since : 0 .. HoldEvery - 1,
          auto : Seq(Saying)]

SeenRight == seen \in Seq(Lesson) /\ Len(seen) <= MarksKept

ReviewShape ==
    /\ files \in Seq(Paper) /\ facts \in Seq(Entry) /\ word \in Seq(Ends)
    /\ Len(word) = Len(files) /\ Len(files) <= MaxFiles /\ Len(facts) <= MaxEntries
    /\ stats \in Stats /\ Len(stats.recent) <= Trailing /\ Len(stats.auto) <= AutoRecent
    /\ retuned \in BOOLEAN /\ rules \subseteq Lesson
    /\ SeenRight
    /\ clean \in 0 .. Trailing /\ byLapse \subseteq 1 .. Len(facts) /\ mishaps \subseteq Mishaps

AskingRight ==
    /\ DOMAIN asking = Teller
    /\ \A p \in Teller : asking[p] # Nothing =>
          asking[p].says \in Saying /\ asking[p].over \in Saying \cup {"nothing"}

\* A mark is missing: it was never made, or is pushed out.
Unmarked == {"redrafted", "crowded"} \cap mishaps # {}

\* One file: what it says is of its kind, and while it waits it was not refused.
PaperRight(f) ==
    /\ files[f].kind = "fact" => files[f].says \in Saying
    /\ files[f].kind = "dispute" => {files[f].says, files[f].over} \subseteq 1 .. Len(facts)
    /\ files[f].kind = "rule" => files[f].says \in Lesson
    /\ files[f].auto => files[f].kind = "fact" /\ files[f].reviewer = owner
    /\ files[f].says \in Lesson => files[f].says \in Marked \/ Unmarked
    /\ files[f].kind # "gone" => word[f] \in {"waits", "approved", "lapsed"}
    /\ word[f] = "lapsed" => files[f].reviewer = owner

PapersRight == \A f \in 1 .. Len(files) : PaperRight(f)

Hand == [file : Nat, step : {"idle", "read", "added"}, over : Saying \cup {"nothing"} \cup Nat]

HandsRight ==
    /\ sweep \in Hand
    /\ sweep.step \in {"read", "added"} =>
          /\ sweep.file \in 1 .. Len(files) /\ files[sweep.file].says \in Saying
          /\ files[sweep.file].reviewer = owner
    /\ scan # <<>> => scan[1] \in 1 .. Len(facts) /\ scan[2] \in 1 .. Len(facts)

Restarted == Len(stats.recent) <= clean \/ retuned \/ "unrecorded" \in mishaps

ReviewIInv ==
    /\ ReviewShape /\ AskingRight /\ PapersRight /\ HandsRight /\ Restarted
    /\ OnlyReviewed /\ TrustIsEarned /\ DisputesShow /\ DraftedOnce

\* What is put behind a list stands at its end, unless the list keeps nothing,
\* and goes on standing behind what stood before it.
LEMMA LatestIs ==
    ASSUME NEW T, NEW s \in Seq(T), NEW x \in T, NEW n \in Nat, Len(s) <= n
    PROVE  /\ Latest(s, x, n) \in Seq(T)
           /\ Len(Latest(s, x, n)) = Smaller(Len(s) + 1, n)
           /\ Len(s) < n => Latest(s, x, n) = Append(s, x)
<1>1. PICK all \in Seq(T) : all = Append(s, x) /\ Len(all) = Len(s) + 1
  <2>1. Append(s, x) \in Seq(T) /\ Len(Append(s, x)) = Len(s) + 1
    OBVIOUS
  <2> QED  BY <2>1
<1>2. Latest(s, x, n) = IF Len(all) > n THEN Tail(all) ELSE all
  BY <1>1 DEF Latest
<1>3. Len(s) \in Nat
  OBVIOUS
<1>4. CASE Len(all) > n
  <2>1. all # <<>>
    BY <1>1, <1>3
  <2>2. Tail(all) \in Seq(T) /\ Len(Tail(all)) = Len(all) - 1
    BY <2>1
  <2> QED  BY <1>1, <1>2, <1>3, <1>4, <2>2 DEF Smaller
<1>5. CASE ~(Len(all) > n)
  BY <1>1, <1>2, <1>3, <1>5 DEF Smaller
<1> QED  BY <1>4, <1>5

LEMMA ReviewShapes ==
    ASSUME ReviewShape
    PROVE  /\ DOMAIN files = 1 .. Len(files) /\ DOMAIN facts = 1 .. Len(facts)
           /\ DOMAIN word = 1 .. Len(files)
           /\ Len(files) \in Nat /\ Len(facts) \in Nat
           /\ \A f \in 1 .. Len(files) : files[f] \in Paper /\ word[f] \in Ends
           /\ \A i \in 1 .. Len(facts) : facts[i] \in Entry
BY DEF ReviewShape

\* The strengthening gives what the run checks.
LEMMA ReviewIsSafe == ReviewIInv => ReviewInv
<1> SUFFICES ASSUME ReviewIInv PROVE ReviewInv
  OBVIOUS
<1>1. ReviewShape
  BY DEF ReviewIInv
<1>2. \A f \in DOMAIN files : /\ files[f].kind \in {"fact", "dispute", "rule", "gone"}
                              /\ files[f].auto \in BOOLEAN
  BY <1>1, ReviewShapes DEF Paper
<1>3. stats.reviewed <= TotalNeeded /\ Len(stats.recent) <= Trailing /\ stats.since < HoldEvery
  <2>1. /\ HoldEvery \in Nat \ {0} /\ TotalNeeded \in Nat
    BY ReviewAssumption
  <2> QED  BY <1>1, <2>1 DEF ReviewShape, Stats
<1>4. Marked \subseteq Lesson /\ Len(seen) <= MarksKept
  BY <1>1 DEF ReviewShape, SeenRight, Marked
<1>5. ReviewTypeOK
  BY <1>1, <1>2, <1>3, <1>4, ReviewShapes DEF ReviewShape, ReviewTypeOK
<1> QED  BY <1>5 DEF ReviewIInv, ReviewInv
-----------------------------------------------------------------------------
\* What a step does to the files, and to what became of them.
Turned(U, N) ==
    /\ files' \in Seq(Paper) /\ Len(files') = Len(files) + Len(N)
    /\ \A f \in 1 .. Len(files) :
          files'[f] = IF f \in U THEN Erased(files[f]) ELSE files[f]
    /\ \A k \in 1 .. Len(N) : files'[Len(files) + k] = N[k]

Worded(F, w, N) ==
    /\ word' \in Seq(Ends) /\ Len(word') = Len(files) + Len(N)
    /\ \A f \in 1 .. Len(files) :
          word'[f] = IF f \in F /\ word[f] = "waits" THEN w ELSE word[f]
    /\ \A k \in 1 .. Len(N) : word'[Len(files) + k] = "waits"

LEMMA UnlinkedIs ==
    ASSUME ReviewShape, NEW U
    PROVE  /\ Unlinked(U) \in Seq(Paper) /\ Len(Unlinked(U)) = Len(files)
           /\ \A f \in 1 .. Len(files) :
                 Unlinked(U)[f] = IF f \in U THEN Erased(files[f]) ELSE files[f]
<1>1. DOMAIN files = 1 .. Len(files) /\ Len(files) \in Nat
  BY ReviewShapes
<1>2. \A f \in 1 .. Len(files) : files[f] \in Paper /\ Erased(files[f]) \in Paper
  BY ReviewShapes, ReviewAssumption DEF Paper, Erased
<1>3. Unlinked(U) = [f \in 1 .. Len(files) |-> IF f \in U THEN Erased(files[f]) ELSE files[f]]
  BY <1>1 DEF Unlinked
<1> QED  BY <1>1, <1>2, <1>3

LEMMA BecameIs ==
    ASSUME ReviewShape, NEW F, NEW w \in Ends
    PROVE  /\ Became(F, w) \in Seq(Ends) /\ Len(Became(F, w)) = Len(files)
           /\ \A f \in 1 .. Len(files) :
                 Became(F, w)[f] = IF f \in F /\ word[f] = "waits" THEN w ELSE word[f]
<1>1. DOMAIN word = 1 .. Len(files) /\ Len(files) \in Nat
      /\ \A f \in 1 .. Len(files) : word[f] \in Ends
  BY ReviewShapes
<1>2. Became(F, w) = [f \in 1 .. Len(files) |-> IF f \in F /\ word[f] = "waits" THEN w ELSE word[f]]
  BY <1>1 DEF Became
<1> QED  BY <1>1, <1>2

\* Files unlinked and others put behind them, in whichever way it is written.
LEMMA TurnedBy ==
    ASSUME ReviewShape, NEW U, NEW N \in Seq(Paper)
    PROVE  /\ files' = Unlinked(U) \o N => Turned(U, N)
           /\ files' = files \o N => Turned({}, N)
           /\ files' = Unlinked(U) => Turned(U, <<>>)
           /\ files' = files => Turned({}, <<>>)
           /\ \A x \in Paper : /\ (files' = Append(Unlinked(U), x) => Turned(U, <<x>>))
                               /\ (files' = Append(files, x) => Turned({}, <<x>>))
<1>1. /\ Unlinked(U) \in Seq(Paper) /\ Len(Unlinked(U)) = Len(files)
      /\ \A f \in 1 .. Len(files) :
            Unlinked(U)[f] = IF f \in U THEN Erased(files[f]) ELSE files[f]
  BY UnlinkedIs
<1>2. Len(files) \in Nat /\ Len(N) \in Nat /\ files \in Seq(Paper)
  BY ReviewShapes DEF ReviewShape
<1>3. ASSUME NEW s \in Seq(Paper), Len(s) = Len(files)
      PROVE  /\ s \o N \in Seq(Paper) /\ Len(s \o N) = Len(files) + Len(N)
             /\ \A f \in 1 .. Len(files) : (s \o N)[f] = s[f]
             /\ \A k \in 1 .. Len(N) : (s \o N)[Len(files) + k] = N[k]
  <2>1. /\ s \o N \in Seq(Paper) /\ Len(s \o N) = Len(s) + Len(N)
        /\ \A i \in 1 .. Len(s) + Len(N) : (s \o N)[i] = IF i <= Len(s) THEN s[i] ELSE N[i - Len(s)]
    BY ConcatProperties
  <2>2. \A f \in 1 .. Len(files) : f \in 1 .. Len(s) + Len(N) /\ f <= Len(s)
    BY <1>2, <1>3
  <2>3. ASSUME NEW k \in 1 .. Len(N) PROVE (s \o N)[Len(files) + k] = N[k]
    <3>1. /\ Len(files) + k \in 1 .. Len(s) + Len(N) /\ ~(Len(files) + k <= Len(s))
          /\ (Len(files) + k) - Len(s) = k
      BY <1>2, <1>3
    <3> QED  BY <2>1, <3>1
  <2> QED  BY <1>3, <2>1, <2>2, <2>3
<1>4. files' = Unlinked(U) \o N => Turned(U, N)
  BY <1>1, <1>3 DEF Turned
<1>5. files' = files \o N => Turned({}, N)
  BY <1>2, <1>3 DEF Turned
<1>6. files' = Unlinked(U) => Turned(U, <<>>)
  BY <1>1, <1>2 DEF Turned
<1>7. files' = files => Turned({}, <<>>)
  BY <1>2 DEF Turned
<1>8. ASSUME NEW x \in Paper, NEW s \in Seq(Paper), Len(s) = Len(files)
      PROVE  /\ Append(s, x) \in Seq(Paper) /\ Len(Append(s, x)) = Len(files) + Len(<<x>>)
             /\ \A f \in 1 .. Len(files) : Append(s, x)[f] = s[f]
             /\ \A k \in 1 .. Len(<<x>>) : Append(s, x)[Len(files) + k] = <<x>>[k]
  <2>1. Len(<<x>>) = 1 /\ <<x>>[1] = x /\ \A k \in 1 .. 1 : k = 1
    OBVIOUS
  <2>2. /\ Append(s, x) \in Seq(Paper) /\ Len(Append(s, x)) = Len(s) + 1
        /\ \A f \in 1 .. Len(s) : Append(s, x)[f] = s[f]
        /\ Append(s, x)[Len(s) + 1] = x
    BY <1>8
  <2> QED  BY <1>8, <2>1, <2>2
<1>9. ASSUME NEW x \in Paper
      PROVE  /\ files' = Append(Unlinked(U), x) => Turned(U, <<x>>)
             /\ files' = Append(files, x) => Turned({}, <<x>>)
  <2>1. files' = Append(Unlinked(U), x) => Turned(U, <<x>>)
    BY <1>1, <1>8 DEF Turned
  <2>2. files' = Append(files, x) => Turned({}, <<x>>)
    BY <1>2, <1>8 DEF Turned
  <2> QED  BY <2>1, <2>2
<1> QED  BY <1>4, <1>5, <1>6, <1>7, <1>9

\* The same for what became of them.
LEMMA WordedBy ==
    ASSUME ReviewShape, NEW F, NEW w \in Ends, NEW N \in Seq(Paper)
    PROVE  /\ word' = Became(F, w) \o [k \in DOMAIN N |-> "waits"] => Worded(F, w, N)
           /\ word' = Became(F, w) => Worded(F, w, <<>>)
           /\ \A x : word' = Append(Became(F, w), "waits") => Worded(F, w, <<x>>)
           /\ word' = word => Worded({}, w, <<>>)
<1>1. /\ Became(F, w) \in Seq(Ends) /\ Len(Became(F, w)) = Len(files)
      /\ \A f \in 1 .. Len(files) :
            Became(F, w)[f] = IF f \in F /\ word[f] = "waits" THEN w ELSE word[f]
  BY BecameIs
<1>2. Len(files) \in Nat /\ word \in Seq(Ends) /\ Len(word) = Len(files) /\ "waits" \in Ends
  BY ReviewShapes DEF ReviewShape, Ends
<1>3. word' = Became(F, w) \o [k \in DOMAIN N |-> "waits"] => Worded(F, w, N)
  <2>1. PICK n \in Nat : n = Len(N) /\ DOMAIN N = 1 .. n
    BY LenProperties
  <2>2. PICK t \in Seq(Ends) : /\ t = [k \in DOMAIN N |-> "waits"] /\ Len(t) = n
                               /\ \A k \in 1 .. n : t[k] = "waits"
    <3>1. /\ [k \in 1 .. n |-> "waits"] \in Seq(Ends) /\ Len([k \in 1 .. n |-> "waits"]) = n
          /\ \A k \in 1 .. n : [i \in 1 .. n |-> "waits"][k] = "waits"
      BY <1>2
    <3> QED  BY <2>1, <3>1
  <2>3. PICK s \in Seq(Ends) : s = Became(F, w) /\ Len(s) = Len(files)
    BY <1>1
  <2>4. /\ s \o t \in Seq(Ends) /\ Len(s \o t) = Len(s) + Len(t)
        /\ \A i \in 1 .. Len(s) + Len(t) : (s \o t)[i] = IF i <= Len(s) THEN s[i] ELSE t[i - Len(s)]
    BY ConcatProperties
  <2>5. \A f \in 1 .. Len(files) : f \in 1 .. Len(s) + Len(t) /\ f <= Len(s)
    BY <1>2, <2>2, <2>3
  <2>6. ASSUME NEW k \in 1 .. Len(N) PROVE (s \o t)[Len(files) + k] = "waits"
    <3>1. /\ Len(files) + k \in 1 .. Len(s) + Len(t) /\ ~(Len(files) + k <= Len(s))
          /\ (Len(files) + k) - Len(s) = k
      BY <1>2, <2>1, <2>2, <2>3
    <3> QED  BY <2>1, <2>2, <2>4, <3>1
  <2> QED  BY <1>1, <2>1, <2>2, <2>3, <2>4, <2>5, <2>6 DEF Worded
<1>4. word' = Became(F, w) => Worded(F, w, <<>>)
  BY <1>1, <1>2 DEF Worded
<1>5. ASSUME NEW x, word' = Append(Became(F, w), "waits") PROVE Worded(F, w, <<x>>)
  <2>1. Len(<<x>>) = 1 /\ \A k \in 1 .. 1 : k = 1
    OBVIOUS
  <2>2. PICK s \in Seq(Ends) : s = Became(F, w) /\ Len(s) = Len(files)
    BY <1>1
  <2>3. /\ Append(s, "waits") \in Seq(Ends) /\ Len(Append(s, "waits")) = Len(s) + 1
        /\ \A f \in 1 .. Len(s) : Append(s, "waits")[f] = s[f]
        /\ Append(s, "waits")[Len(s) + 1] = "waits"
    BY <1>2
  <2> QED  BY <1>1, <1>5, <2>1, <2>2, <2>3 DEF Worded
<1>6. word' = word => Worded({}, w, <<>>)
  BY <1>2 DEF Worded
<1> QED  BY <1>3, <1>4, <1>5, <1>6
-----------------------------------------------------------------------------
\* What a step does to the facts: none is taken back into use or comes to say
\* something else.
Remembers ==
    /\ facts' \in Seq(Entry) /\ Len(facts') <= MaxEntries /\ Len(facts) <= Len(facts')
    /\ \A i \in 1 .. Len(facts) :
          /\ facts'[i].says = facts[i].says /\ facts'[i].by = facts[i].by
          /\ facts'[i].active => facts[i].active

FlagsStay == \A i \in 1 .. Len(facts) : facts[i].disputed => facts'[i].disputed

\* A notice about two facts that exist by then, and are flagged if they are held.
NoticeRight(p) ==
    /\ p \in Paper /\ p.kind = "dispute" /\ p.auto = FALSE
    /\ \A i \in {p.says, p.over} : i \in 1 .. Len(facts') /\ (facts'[i].active => facts'[i].disputed)

LEMMA Same ==
    ASSUME ReviewShape, facts' = facts
    PROVE  Remembers /\ FlagsStay
BY ReviewShapes DEF ReviewShape, Remembers, FlagsStay

LEMMA Switched ==
    ASSUME NEW fs \in Seq(Entry), NEW S
    PROVE  /\ Off(fs, S) \in Seq(Entry) /\ Len(Off(fs, S)) = Len(fs)
           /\ \A i \in 1 .. Len(fs) : /\ Off(fs, S)[i].says = fs[i].says
                                      /\ Off(fs, S)[i].by = fs[i].by
                                      /\ (Off(fs, S)[i].active => (fs[i].active /\ i \notin S))
                                      /\ Off(fs, S)[i].disputed = fs[i].disputed
           /\ Settled(fs, S) \in Seq(Entry) /\ Len(Settled(fs, S)) = Len(fs)
           /\ \A i \in 1 .. Len(fs) : /\ Settled(fs, S)[i].says = fs[i].says
                                      /\ Settled(fs, S)[i].by = fs[i].by
                                      /\ Settled(fs, S)[i].active = fs[i].active
                                      /\ (i \notin S => Settled(fs, S)[i].disputed = fs[i].disputed)
<1>1. DOMAIN fs = 1 .. Len(fs) /\ Len(fs) \in Nat /\ \A i \in 1 .. Len(fs) : fs[i] \in Entry
  OBVIOUS
<1>2. ASSUME NEW i \in 1 .. Len(fs)
      PROVE  /\ [fs[i] EXCEPT !.active = @ /\ i \notin S] \in Entry
             /\ [fs[i] EXCEPT !.active = @ /\ i \notin S].says = fs[i].says
             /\ [fs[i] EXCEPT !.active = @ /\ i \notin S].by = fs[i].by
             /\ [fs[i] EXCEPT !.active = @ /\ i \notin S].active => fs[i].active /\ i \notin S
             /\ [fs[i] EXCEPT !.active = @ /\ i \notin S].disputed = fs[i].disputed
  <2>1. fs[i] \in Entry
    BY <1>1
  <2> QED  BY <2>1 DEF Entry
<1>3. ASSUME NEW i \in 1 .. Len(fs)
      PROVE  /\ [fs[i] EXCEPT !.disputed = @ /\ i \notin S] \in Entry
             /\ [fs[i] EXCEPT !.disputed = @ /\ i \notin S].says = fs[i].says
             /\ [fs[i] EXCEPT !.disputed = @ /\ i \notin S].by = fs[i].by
             /\ [fs[i] EXCEPT !.disputed = @ /\ i \notin S].active = fs[i].active
             /\ i \notin S => [fs[i] EXCEPT !.disputed = @ /\ i \notin S].disputed = fs[i].disputed
  <2>1. fs[i] \in Entry
    BY <1>1
  <2> QED  BY <2>1 DEF Entry
<1>4. Off(fs, S) = [i \in 1 .. Len(fs) |-> [fs[i] EXCEPT !.active = @ /\ i \notin S]]
  BY <1>1 DEF Off
<1>5. Settled(fs, S) = [i \in 1 .. Len(fs) |-> [fs[i] EXCEPT !.disputed = @ /\ i \notin S]]
  BY <1>1 DEF Settled
<1>6. Off(fs, S) \in Seq(Entry) /\ Len(Off(fs, S)) = Len(fs)
  BY <1>1, <1>2, <1>4
<1>7. Settled(fs, S) \in Seq(Entry) /\ Len(Settled(fs, S)) = Len(fs)
  BY <1>1, <1>3, <1>5
<1> QED  BY <1>2, <1>3, <1>4, <1>5, <1>6, <1>7

\* add_fact: the new one says what was approved, and whoever it contradicts is
\* flagged with it and told of.
LEMMA AddsFact ==
    ASSUME ReviewShape, NEW c \in Saying, NEW over, NEW who \in Teller, Adds(c, over, who)
    PROVE  /\ Remembers /\ FlagsStay
           /\ \A i \in 1 .. Len(facts') : i > Len(facts) => facts'[i].says = c /\ facts'[i].by = who
           /\ Notices(c, over, who) \in Seq(Paper) /\ Len(Notices(c, over, who)) \in {0, 1}
           /\ \A k \in 1 .. Len(Notices(c, over, who)) : NoticeRight(Notices(c, over, who)[k])
<1>0. /\ facts \in Seq(Entry) /\ DOMAIN facts = 1 .. Len(facts) /\ Len(facts) \in Nat
      /\ \A i \in 1 .. Len(facts) : facts[i] \in Entry
  BY ReviewShapes DEF ReviewShape
<1>1. CASE Stating(c) # {}
  <2>1. facts' = facts
    BY <1>1 DEF Adds, WithFact
  <2>2. Notices(c, over, who) = <<>>
    BY <1>1 DEF Notices, Others, Rivals
  <2>3. \A i \in 1 .. Len(facts) : ~(i > Len(facts))
    BY <1>0
  <2> QED  BY <2>1, <2>2, <2>3, Same
<1>2. CASE Stating(c) = {}
  <2> DEFINE others == Others(c, over, who)
             settled == [i \in DOMAIN facts |->
                       [facts[i] EXCEPT !.active = @ /\ i \notin Rivals(c, over) \ others,
                                        !.disputed = @ \/ i \in others]]
             new == [says |-> c, by |-> who, active |-> TRUE, disputed |-> others # {}]
  <2>1. others \subseteq Rivals(c, over) /\ Rivals(c, over) \subseteq 1 .. Len(facts)
    BY <1>0 DEF Others, Rivals, Stating, Held
  <2>2. ASSUME NEW i \in 1 .. Len(facts)
        PROVE  /\ settled[i] \in Entry /\ settled[i].says = facts[i].says
               /\ settled[i].by = facts[i].by
               /\ settled[i].active => facts[i].active
               /\ facts[i].disputed => settled[i].disputed
               /\ i \in others => settled[i].disputed
    <3>1. facts[i] \in Entry
      BY <1>0
    <3>2. settled[i] = [facts[i] EXCEPT !.active = @ /\ i \notin Rivals(c, over) \ others,
                                        !.disputed = @ \/ i \in others]
      BY <1>0
    <3> HIDE DEF settled, others
    <3> QED  BY <3>1, <3>2 DEF Entry
  <2>3. settled \in Seq(Entry) /\ Len(settled) = Len(facts)
    <3>1. settled = [i \in 1 .. Len(facts) |-> settled[i]]
      BY <1>0
    <3>2. \A i \in 1 .. Len(facts) : settled[i] \in Entry
      BY <2>2
    <3> HIDE DEF settled
    <3> QED  BY <1>0, <3>1, <3>2
  <2>4. new \in Entry
    BY DEF Entry
  <2>5. facts' = Append(settled, new)
    BY <1>2 DEF Adds, WithFact
  <2> HIDE DEF settled, new, others
  <2>6. /\ facts' \in Seq(Entry) /\ Len(facts') = Len(facts) + 1
        /\ \A i \in 1 .. Len(facts) : facts'[i] = settled[i]
        /\ facts'[Len(facts) + 1] = new
    BY <2>3, <2>4, <2>5
  <2>7. new.says = c /\ new.by = who /\ new.disputed = (others # {})
    BY DEF new
  <2>8. Len(facts') <= MaxEntries
    BY DEF Adds
  <2>9. Remembers /\ FlagsStay
    BY <1>0, <2>2, <2>6, <2>8 DEF Remembers, FlagsStay
  <2>10. \A i \in 1 .. Len(facts') : i > Len(facts) => facts'[i].says = c /\ facts'[i].by = who
    BY <1>0, <2>6, <2>7
  <2>11. CASE others = {}
    <3>1. Notices(c, over, who) = <<>>
      BY <2>11 DEF Notices, others
    <3> QED  BY <2>9, <2>10, <3>1
  <2>12. CASE others # {}
    <3>1. PICK old \in others : old = CHOOSE i \in others : TRUE
      BY <2>12
    <3>2. PICK p : p = Notice(Len(facts) + 1, old, c)
      OBVIOUS
    <3>3. Notices(c, over, who) = <<p>>
      BY <2>12, <3>1, <3>2 DEF Notices, others
    <3>4. p.says = Len(facts) + 1 /\ p.over = old /\ p.kind = "dispute" /\ p.auto = FALSE
      BY <3>2 DEF Notice
    <3>5. p \in Paper
      BY <1>0, <2>1, <3>1, <3>2, ReviewAssumption DEF Notice, Paper
    <3>6. old \in 1 .. Len(facts) /\ facts'[old].disputed
      BY <2>1, <2>2, <2>6, <3>1
    <3>7. facts'[Len(facts) + 1].disputed
      BY <2>6, <2>7, <2>12
    <3>8. NoticeRight(p)
      BY <1>0, <2>6, <3>4, <3>5, <3>6, <3>7 DEF NoticeRight
    <3>9. <<p>> \in Seq(Paper) /\ Len(<<p>>) = 1 /\ \A k \in 1 .. 1 : <<p>>[k] = p
      BY <3>5
    <3> QED  BY <2>9, <2>10, <3>3, <3>8, <3>9
  <2> QED  BY <2>11, <2>12
<1> QED  BY <1>1, <1>2
-----------------------------------------------------------------------------
\* What may be put into the queue.
NewRight(p) ==
    /\ p \in Paper /\ p.kind # "gone"
    /\ p.kind = "fact" => p.says \in Saying
    /\ p.kind = "dispute" => NoticeRight(p)
    /\ p.kind = "rule" => p.says \in Lesson /\ p.says \notin Marked
                            /\ (p.says \in Marked' \/ Unmarked')
    /\ p.auto => p.kind = "fact" /\ p.reviewer = owner

\* A step over the queue: files go, others come, those that are decided about
\* and stay have been approved.
QueueTurns(U, F, w, N) ==
    /\ w \in Ends /\ N \in Seq(Paper) /\ Len(N) \in {0, 1}
    /\ Turned(U, N) /\ Worded(F, w, N) /\ Len(files') <= MaxFiles
    /\ Remembers /\ mishaps \subseteq mishaps' /\ (Marked \subseteq Marked' \/ Unmarked')
    /\ w \in {"approved", "lapsed"} \/ F \subseteq U
    /\ w = "lapsed" => \A f \in F : files[f].reviewer = owner
    /\ \A k \in 1 .. Len(N) : NewRight(N[k])

LEMMA NewIsBehind ==
    ASSUME ReviewShape, NEW U, NEW F, NEW w, NEW N, QueueTurns(U, F, w, N), NEW f \in 1 .. Len(files')
    PROVE  \/ f \in 1 .. Len(files)
           \/ Len(N) = 1 /\ f = Len(files) + 1 /\ files'[f] = N[1] /\ word'[f] = "waits"
<1>1. /\ Len(N) \in {0, 1} /\ Len(files') = Len(files) + Len(N) /\ Len(files) \in Nat
      /\ \A k \in 1 .. Len(N) : files'[Len(files) + k] = N[k] /\ word'[Len(files) + k] = "waits"
  BY ReviewShapes DEF QueueTurns, Turned, Worded
<1>2. CASE Len(N) = 0
  BY <1>1, <1>2
<1>3. CASE Len(N) = 1
  <2>1. 1 \in 1 .. Len(N) /\ (f \in 1 .. Len(files) \/ f = Len(files) + 1)
    BY <1>1, <1>3
  <2> QED  BY <1>1, <1>3, <2>1
<1> QED  BY <1>1, <1>2, <1>3

LEMMA QueueStaysRight ==
    ASSUME ReviewIInv, NEW U, NEW F, NEW w, NEW N, QueueTurns(U, F, w, N)
    PROVE  PapersRight'
<1>0. ReviewShape /\ PapersRight
  BY DEF ReviewIInv
<1>1. SUFFICES ASSUME NEW f \in 1 .. Len(files') PROVE PaperRight(f)'
  BY DEF PapersRight
<1>2. Len(facts) \in Nat /\ Len(facts') \in Nat /\ Len(facts) <= Len(facts')
  BY <1>0, ReviewShapes, LenProperties DEF QueueTurns, Remembers
<1>3. CASE f \in 1 .. Len(files)
  <2>1. /\ files'[f] = IF f \in U THEN Erased(files[f]) ELSE files[f]
        /\ word'[f] = IF f \in F /\ word[f] = "waits" THEN w ELSE word[f]
    BY <1>3 DEF QueueTurns, Turned, Worded
  <2>2. PaperRight(f)
    BY <1>0, <1>3 DEF PapersRight
  <2>3. /\ Marked \subseteq Marked' \/ Unmarked'
        /\ Unmarked => Unmarked'
        /\ w \in {"approved", "lapsed"} \/ F \subseteq U
        /\ f \in F /\ w = "lapsed" => files[f].reviewer = owner
    BY DEF QueueTurns, Unmarked
  <2>4. CASE f \in U
    <3>1. /\ files'[f].kind = "gone" /\ files'[f].says = files[f].says /\ files'[f].auto = FALSE
          /\ files'[f].reviewer = files[f].reviewer
      <4>1. files[f] \in Paper
        BY <1>0, <1>3, ReviewShapes
      <4> QED  BY <2>1, <2>4, <4>1 DEF Erased, Paper
    <3> QED  BY <2>1, <2>2, <2>3, <3>1 DEF PaperRight
  <2>5. CASE f \notin U
    <3>1. files'[f] = files[f] /\ word'[f] \in {word[f], "approved", "lapsed"}
      BY <2>1, <2>3, <2>5
    <3>2. 1 .. Len(facts) \subseteq 1 .. Len(facts')
      BY <1>2
    <3> QED  BY <2>1, <2>2, <2>3, <3>1, <3>2 DEF PaperRight
  <2> QED  BY <2>4, <2>5
<1>4. CASE f \notin 1 .. Len(files)
  <2>1. Len(N) = 1 /\ files'[f] = N[1] /\ word'[f] = "waits"
    BY <1>0, <1>4, NewIsBehind
  <2>2. NewRight(N[1])
    BY <2>1 DEF QueueTurns
  <2>3. N[1].kind = "dispute" => {N[1].says, N[1].over} \subseteq 1 .. Len(facts') /\ N[1].says \in Nat
    BY <2>2 DEF NewRight, NoticeRight
  <2>4. N[1].says \in Lesson => N[1].kind = "rule"
    <3>1. N[1].kind \in {"fact", "dispute", "rule", "gone"}
      BY <2>2 DEF NewRight, Paper
    <3> QED  BY <2>2, <2>3, <3>1, ReviewAssumption DEF NewRight
  <2> QED  BY <2>1, <2>2, <2>3, <2>4 DEF NewRight, PaperRight
<1> QED  BY <1>3, <1>4

LEMMA ReviewedStay ==
    ASSUME ReviewIInv, NEW U, NEW F, NEW w, NEW N, QueueTurns(U, F, w, N),
           \A i \in 1 .. Len(facts') : i > Len(facts) =>
              "raced" \in mishaps' \/ \E f \in 1 .. Len(files') : Vouches(f, i)'
    PROVE  OnlyReviewed'
<1>0. ReviewShape /\ OnlyReviewed
  BY DEF ReviewIInv
<1>1. /\ DOMAIN files = 1 .. Len(files) /\ DOMAIN facts = 1 .. Len(facts) /\ Len(facts) \in Nat
      /\ Len(files) \in Nat
  BY <1>0, ReviewShapes
<1>2. /\ DOMAIN files' = 1 .. Len(files') /\ DOMAIN facts' = 1 .. Len(facts')
      /\ Len(facts') \in Nat /\ Len(files') \in Nat /\ Len(files) <= Len(files')
  BY <1>1, LenProperties DEF QueueTurns, Turned, Remembers
<1>3. ASSUME NEW f \in 1 .. Len(files)
      PROVE  /\ f \in DOMAIN files' /\ files'[f].says = files[f].says
             /\ files'[f].reviewer = files[f].reviewer
             /\ word[f] # "waits" => word'[f] = word[f]
  <2>1. /\ files'[f] = IF f \in U THEN Erased(files[f]) ELSE files[f]
        /\ word'[f] = IF f \in F /\ word[f] = "waits" THEN w ELSE word[f]
    BY DEF QueueTurns, Turned, Worded
  <2>2. files'[f].says = files[f].says /\ files'[f].reviewer = files[f].reviewer
    <3>1. files[f] \in Paper
      BY <1>0, ReviewShapes
    <3> QED  BY <2>1, <3>1 DEF Erased, Paper
  <2> QED  BY <1>1, <1>2, <2>1, <2>2
<1>4. SUFFICES ASSUME "raced" \notin mishaps', NEW i \in DOMAIN facts', facts'[i].active
               PROVE  \E f \in DOMAIN files' : Vouches(f, i)'
  BY DEF OnlyReviewed, Held
<1>5. CASE i \in 1 .. Len(facts)
  <2>1. facts'[i].says = facts[i].says /\ facts'[i].by = facts[i].by /\ i \in Held
    BY <1>1, <1>4, <1>5 DEF QueueTurns, Remembers, Held
  <2>2. PICK f \in DOMAIN files : Vouches(f, i)
    BY <1>0, <1>4, <2>1 DEF OnlyReviewed, QueueTurns
  <2>3. f \in DOMAIN files' /\ Vouches(f, i)'
    BY <1>1, <1>3, <2>1, <2>2 DEF Vouches
  <2> QED  BY <2>3
<1>6. CASE i \notin 1 .. Len(facts)
  <2>1. i \in 1 .. Len(facts') /\ i > Len(facts)
    BY <1>1, <1>2, <1>6
  <2> QED  BY <1>2, <1>4, <2>1
<1> QED  BY <1>5, <1>6

LEMMA DisputesStay ==
    ASSUME ReviewIInv, NEW U, NEW F, NEW w, NEW N, QueueTurns(U, F, w, N),
           \A f \in 1 .. Len(files), i \in 1 .. Len(facts) :
              (f \notin U /\ files[f].kind = "dispute" /\ i \in Parties(f) /\ facts[i].disputed)
                 => facts'[i].disputed \/ "shared" \in mishaps'
    PROVE  DisputesShow'
<1>0. ReviewShape /\ PapersRight /\ DisputesShow
  BY DEF ReviewIInv
<1>1. /\ DOMAIN files = 1 .. Len(files) /\ DOMAIN facts = 1 .. Len(facts)
      /\ DOMAIN files' = 1 .. Len(files')
  BY <1>0, ReviewShapes, LenProperties DEF QueueTurns, Turned
<1>2. SUFFICES ASSUME "shared" \notin mishaps', NEW f \in 1 .. Len(files'),
                      files'[f].kind = "dispute",
                      {files'[f].says, files'[f].over} \subseteq Held',
                      NEW i \in {files'[f].says, files'[f].over}
               PROVE  facts'[i].disputed
  BY <1>1 DEF DisputesShow, Open, Parties
<1>3. CASE f \in 1 .. Len(files)
  <2>1. f \notin U /\ files'[f] = files[f]
    <3>1. files'[f] = IF f \in U THEN Erased(files[f]) ELSE files[f]
      BY <1>3 DEF QueueTurns, Turned
    <3> QED  BY <1>2, <3>1 DEF Erased
  <2>2. files[f].kind = "dispute" /\ Parties(f) \subseteq 1 .. Len(facts) /\ i \in Parties(f)
    BY <1>0, <1>2, <1>3, <2>1 DEF PapersRight, PaperRight, Parties
  <2>3. Parties(f) \subseteq Held
    <3> SUFFICES ASSUME NEW j \in Parties(f) PROVE j \in Held
      OBVIOUS
    <3>1. j \in Held' /\ j \in 1 .. Len(facts)
      BY <1>2, <2>1, <2>2 DEF Parties
    <3> QED  BY <1>1, <3>1 DEF Held, QueueTurns, Remembers
  <2>4. facts[i].disputed
    BY <1>0, <1>1, <1>2, <1>3, <2>2, <2>3 DEF DisputesShow, Open, QueueTurns
  <2> QED  BY <1>2, <1>3, <2>1, <2>2, <2>4
<1>4. CASE f \notin 1 .. Len(files)
  <2>1. Len(N) = 1 /\ files'[f] = N[1]
    BY <1>0, <1>4, NewIsBehind
  <2>2. NoticeRight(files'[f])
    BY <1>2, <2>1 DEF QueueTurns, NewRight
  <2> QED  BY <1>2, <2>2 DEF NoticeRight, Held
<1> QED  BY <1>3, <1>4

LEMMA DraftedStay ==
    ASSUME ReviewIInv, NEW U, NEW F, NEW w, NEW N, QueueTurns(U, F, w, N)
    PROVE  DraftedOnce'
<1>0. ReviewShape /\ PapersRight /\ DraftedOnce
  BY DEF ReviewIInv
<1>1. DOMAIN files = 1 .. Len(files) /\ DOMAIN files' = 1 .. Len(files')
  BY <1>0, ReviewShapes, LenProperties DEF QueueTurns, Turned
<1>2. SUFFICES ASSUME ~Unmarked', NEW f \in 1 .. Len(files'), NEW g \in 1 .. Len(files'),
                      f # g, files'[f].says \in Lesson
               PROVE  files'[f].says # files'[g].says
  BY <1>1 DEF DraftedOnce, Unmarked
<1>3. ~Unmarked
  BY <1>2 DEF QueueTurns, Unmarked
<1>4. ASSUME NEW h \in 1 .. Len(files')
      PROVE  \/ h \in 1 .. Len(files) /\ files'[h].says = files[h].says
             \/ h = Len(files) + 1 /\ (files'[h].says \in Lesson => files'[h].says \notin Marked)
  <2>1. CASE h \in 1 .. Len(files)
    <3>1. files'[h] = IF h \in U THEN Erased(files[h]) ELSE files[h]
      BY <2>1 DEF QueueTurns, Turned
    <3>2. files[h] \in Paper
      BY <1>0, <2>1, ReviewShapes
    <3> QED  BY <2>1, <3>1, <3>2 DEF Erased, Paper
  <2>2. CASE h \notin 1 .. Len(files)
    <3>1. Len(N) = 1 /\ h = Len(files) + 1 /\ files'[h] = N[1]
      BY <1>0, <2>2, NewIsBehind
    <3>2. NewRight(N[1])
      BY <3>1 DEF QueueTurns
    <3>3. N[1].says \in Lesson => N[1].kind = "rule"
      <4>1. N[1].kind \in {"fact", "dispute", "rule", "gone"}
        BY <3>2 DEF NewRight, Paper
      <4>2. N[1].kind = "dispute" => N[1].says \in Nat
        BY <3>2 DEF NewRight, NoticeRight
      <4> QED  BY <3>2, <4>1, <4>2, ReviewAssumption DEF NewRight
    <3> QED  BY <3>1, <3>2, <3>3 DEF NewRight
  <2> QED  BY <2>1, <2>2
<1>5. \A h \in 1 .. Len(files) : files[h].says \in Lesson => files[h].says \in Marked
  BY <1>0, <1>3 DEF PapersRight, PaperRight
<1>6. CASE f \in 1 .. Len(files) /\ g \in 1 .. Len(files)
  <2>1. ~(f = Len(files) + 1) /\ ~(g = Len(files) + 1)
    BY <1>0, <1>6, ReviewShapes
  <2> QED  BY <1>0, <1>1, <1>2, <1>3, <1>4, <1>6, <2>1 DEF DraftedOnce, Unmarked
<1>7. CASE ~(f \in 1 .. Len(files) /\ g \in 1 .. Len(files))
  BY <1>2, <1>4, <1>5, <1>7
<1> QED  BY <1>6, <1>7
-----------------------------------------------------------------------------
\* The rest of the invariant: what does not depend on the queue.
ReviewRest ==
    /\ stats \in Stats /\ Len(stats.recent) <= Trailing /\ Len(stats.auto) <= AutoRecent
    /\ retuned \in BOOLEAN /\ rules \subseteq Lesson
    /\ SeenRight
    /\ clean \in 0 .. Trailing /\ byLapse \subseteq 1 .. Len(facts) /\ mishaps \subseteq Mishaps
    /\ AskingRight /\ HandsRight /\ Restarted /\ TrustIsEarned

LEMMA RestHolds == ReviewIInv => ReviewRest
BY DEF ReviewIInv, ReviewShape, ReviewRest

\* Every new fact has a file that was decided for it, and every flag that a
\* dispute still needs stays.
Backed ==
    \A i \in 1 .. Len(facts') : i > Len(facts) =>
       "raced" \in mishaps' \/ \E f \in 1 .. Len(files') : Vouches(f, i)'

Flagged(U) ==
    \A f \in 1 .. Len(files), i \in 1 .. Len(facts) :
       (f \notin U /\ files[f].kind = "dispute" /\ i \in Parties(f) /\ facts[i].disputed)
          => facts'[i].disputed \/ "shared" \in mishaps'

LEMMA QueueStep ==
    ASSUME ReviewIInv, NEW U, NEW F, NEW w, NEW N, QueueTurns(U, F, w, N), Backed, Flagged(U),
           ReviewRest'
    PROVE  ReviewIInv'
<1>1. PapersRight' /\ OnlyReviewed' /\ DisputesShow' /\ DraftedOnce'
  BY QueueStaysRight, ReviewedStay, DisputesStay, DraftedStay DEF Backed, Flagged
<1>2. /\ files' \in Seq(Paper) /\ facts' \in Seq(Entry) /\ word' \in Seq(Ends)
      /\ Len(word') = Len(files') /\ Len(files') <= MaxFiles /\ Len(facts') <= MaxEntries
  BY DEF QueueTurns, Turned, Worded, Remembers
<1> QED  BY <1>1, <1>2 DEF ReviewIInv, ReviewShape, ReviewRest

\* When nothing is added, nothing has to be backed.
LEMMA NothingNew ==
    ASSUME ReviewShape, Len(facts') = Len(facts)
    PROVE  Backed
BY ReviewShapes DEF Backed

LEMMA FlagsSuffice == FlagsStay => \A U : Flagged(U)
BY DEF FlagsStay, Flagged

LEMMA MarksStay == seen' = seen => Marked \subseteq Marked'
BY DEF Marked

\* A step that leaves the queue and the facts alone.
LEMMA StillStep ==
    ASSUME ReviewIInv, UNCHANGED <<files, facts, word, seen>>, mishaps \subseteq mishaps', ReviewRest'
    PROVE  ReviewIInv'
<1>0. ReviewShape
  BY DEF ReviewIInv
<1>1. /\ <<>> \in Seq(Paper) /\ Len(<<>>) = 0 /\ "approved" \in Ends
  BY DEF Ends
<1>2. Turned({}, <<>>) /\ Worded({}, "approved", <<>>)
  BY <1>0, <1>1, TurnedBy, WordedBy
<1>3. Len(files') <= MaxFiles
  BY <1>0 DEF ReviewShape
<1>4. Remembers /\ FlagsStay /\ Backed
  BY <1>0, Same, NothingNew
<1>5. QueueTurns({}, {}, "approved", <<>>)
  BY <1>1, <1>2, <1>3, <1>4, MarksStay DEF QueueTurns
<1> QED  BY <1>4, <1>5, QueueStep, FlagsSuffice

\* Files of the queue go with what became of them, nothing comes.
LEMMA GoneStep ==
    ASSUME ReviewIInv, NEW F, NEW w \in Ends, files' = Unlinked(F), word' = Became(F, w),
           w # "lapsed", Remembers, Len(facts') = Len(facts), Flagged(F),
           seen' = seen, mishaps \subseteq mishaps', ReviewRest'
    PROVE  ReviewIInv'
<1>0. ReviewShape
  BY DEF ReviewIInv
<1>1. <<>> \in Seq(Paper) /\ Len(<<>>) = 0
  OBVIOUS
<1>2. Turned(F, <<>>) /\ Worded(F, w, <<>>)
  BY <1>0, <1>1, TurnedBy, WordedBy
<1>3. Len(files') <= MaxFiles
  BY <1>0, UnlinkedIs DEF ReviewShape
<1>4. QueueTurns(F, F, w, <<>>)
  BY <1>1, <1>2, <1>3, MarksStay DEF QueueTurns
<1> QED  BY <1>0, <1>4, QueueStep, NothingNew

\* What a hand holds stays where it was.
LEMMA HandsStay ==
    ASSUME ReviewIInv, NEW U, NEW N, Turned(U, N), Remembers,
           sweep' = sweep \/ sweep' = Ready, scan' = scan \/ scan' = <<>>
    PROVE  HandsRight'
<1>1. ReviewShape /\ HandsRight
  BY DEF ReviewIInv
<1>2. /\ Len(files) \in Nat /\ Len(files') \in Nat /\ Len(files) <= Len(files')
      /\ Len(facts) \in Nat /\ Len(facts') \in Nat /\ Len(facts) <= Len(facts')
  <2>1. Len(files') = Len(files) + Len(N) /\ Len(files') \in Nat /\ Len(files) \in Nat
    BY <1>1, ReviewShapes, LenProperties DEF Turned
  <2>2. Len(facts) \in Nat /\ Len(facts') \in Nat /\ Len(facts) <= Len(facts')
    BY <1>1, ReviewShapes, LenProperties DEF Remembers
  <2>3. Len(files) <= Len(files')
    <3>1. CASE Len(files') < Len(files)
      <4>1. Len(files) \in 1 .. Len(files)
        BY <2>1, <3>1
      <4> QED  BY <2>1, <3>1, SMT
    <3> QED  BY <2>1, <3>1
  <2> QED  BY <2>1, <2>2, <2>3
<1>3. ASSUME NEW f \in 1 .. Len(files), files[f].says \in Saying, files[f].reviewer = owner
      PROVE  f \in 1 .. Len(files') /\ files'[f].says \in Saying /\ files'[f].reviewer = owner
  <2>1. files'[f] = IF f \in U THEN Erased(files[f]) ELSE files[f]
    BY DEF Turned
  <2>2. files'[f].says = files[f].says /\ files'[f].reviewer = files[f].reviewer
    <3>1. files[f] \in Paper
      BY <1>1, ReviewShapes
    <3> QED  BY <2>1, <3>1 DEF Erased, Paper
  <2> QED  BY <1>2, <1>3, <2>2
<1>4. /\ sweep' \in Hand
      /\ sweep'.step \in {"read", "added"} =>
            /\ sweep'.file \in 1 .. Len(files') /\ files'[sweep'.file].says \in Saying
            /\ files'[sweep'.file].reviewer = owner
  <2>1. CASE sweep' = sweep
    BY <1>1, <1>3, <2>1 DEF HandsRight
  <2>2. CASE sweep' = Ready
    BY <2>2 DEF Ready, Hand
  <2> QED  BY <2>1, <2>2
<1>5. scan' # <<>> => scan'[1] \in 1 .. Len(facts') /\ scan'[2] \in 1 .. Len(facts')
  BY <1>1, <1>2 DEF HandsRight
<1> QED  BY <1>4, <1>5 DEF HandsRight
-----------------------------------------------------------------------------
\* The counters of trust, and what went wrong.
Counters ==
    /\ stats' \in Stats /\ Len(stats'.recent) <= Trailing /\ Len(stats'.auto) <= AutoRecent
    /\ retuned' \in BOOLEAN /\ clean' \in 0 .. Trailing /\ Restarted'

Wrongs == mishaps \subseteq mishaps' /\ mishaps' \subseteq Mishaps /\ TrustIsEarned'

LEMMA SameCounters ==
    ASSUME ReviewIInv, UNCHANGED <<stats, retuned, clean>>, mishaps \subseteq mishaps'
    PROVE  Counters
BY DEF ReviewIInv, ReviewShape, Restarted, Counters

LEMMA WrongsBy ==
    ASSUME ReviewIInv, NEW S \in SUBSET (Mishaps \ {"unearned"}), mishaps' = mishaps \cup S
    PROVE  Wrongs
BY DEF ReviewIInv, ReviewShape, TrustIsEarned, Wrongs

LEMMA SameWrongs == ReviewIInv /\ mishaps' = mishaps => Wrongs
BY DEF ReviewIInv, ReviewShape, TrustIsEarned, Wrongs

LEMMA LapsesStay ==
    ASSUME ReviewIInv, Remembers, byLapse' = byLapse
    PROVE  byLapse' \subseteq 1 .. Len(facts')
<1>1. Len(facts) \in Nat /\ Len(facts') \in Nat /\ Len(facts) <= Len(facts')
  BY ReviewShapes, LenProperties DEF ReviewIInv, Remembers
<1> QED  BY <1>1 DEF ReviewIInv, ReviewShape

LEMMA RestBy ==
    ASSUME Counters, Wrongs, AskingRight', HandsRight', SeenRight',
           rules' \subseteq Lesson, byLapse' \subseteq 1 .. Len(facts')
    PROVE  ReviewRest'
BY DEF Counters, Wrongs, ReviewRest, SeenRight

\* A review counts once, and no window of reviews grows beyond its length.
LEMMA DecidedCounters ==
    ASSUME ReviewIInv, NEW yes \in BOOLEAN, stats' = Decided(stats, yes),
           clean' = Smaller(clean + 1, Trailing), retuned' = retuned, mishaps \subseteq mishaps'
    PROVE  Counters
<1>1. /\ stats \in Stats /\ Len(stats.recent) <= Trailing /\ Len(stats.auto) <= AutoRecent
      /\ clean \in 0 .. Trailing /\ retuned \in BOOLEAN /\ Restarted
  BY DEF ReviewIInv, ReviewShape
<1>2. TotalNeeded \in Nat /\ Trailing \in Nat \ {0} /\ HoldEvery \in Nat \ {0}
  BY ReviewAssumption
<1>3. stats.reviewed \in 0 .. TotalNeeded /\ stats.recent \in Seq(BOOLEAN)
  BY <1>1 DEF Stats
<1>5. PICK rec \in Seq(BOOLEAN) : /\ rec = Latest(stats.recent, yes, Trailing)
                                  /\ Len(rec) = Smaller(Len(stats.recent) + 1, Trailing)
  BY <1>1, <1>2, <1>3, LatestIs
<1>6. PICK n \in 0 .. TotalNeeded : n = Smaller(stats.reviewed + 1, TotalNeeded)
  BY <1>2, <1>3 DEF Smaller
<1>7. stats' = [stats EXCEPT !.reviewed = n, !.recent = rec]
  BY <1>5, <1>6 DEF Decided
<1>8. stats' \in Stats /\ stats'.recent = rec /\ stats'.auto = stats.auto
  <2>1. \A r \in 0 .. TotalNeeded :
           LET t == [stats EXCEPT !.reviewed = r, !.recent = rec]
           IN  t \in Stats /\ t.recent = rec /\ t.auto = stats.auto
    BY <1>1 DEF Stats
  <2>2. LET t == [stats EXCEPT !.reviewed = n, !.recent = rec]
        IN  t \in Stats /\ t.recent = rec /\ t.auto = stats.auto
    BY <2>1
  <2> QED  BY <1>7, <2>2, Zenon
<1>9. Len(rec) <= Trailing /\ clean' \in 0 .. Trailing /\ (Len(stats.recent) <= clean => Len(rec) <= clean')
  <2>1. Len(stats.recent) \in Nat
    BY <1>3
  <2> QED  BY <1>1, <1>2, <1>5, <2>1 DEF Smaller
<1> QED  BY <1>1, <1>8, <1>9 DEF Restarted, Counters
-----------------------------------------------------------------------------
LEMMA InitReview == ReviewInit => ReviewIInv
<1> SUFFICES ASSUME ReviewInit PROVE ReviewIInv
  OBVIOUS
<1>1. /\ {TotalNeeded, AutoRecent, MarksKept} \subseteq Nat /\ HoldEvery \in Nat \ {0} /\ Trailing \in Nat \ {0}
      /\ MaxFiles \in Nat /\ MaxEntries \in Nat
  BY ReviewAssumption
<1>2. files = <<>> /\ facts = <<>> /\ word = <<>> /\ Len(<<>>) = 0 /\ DOMAIN <<>> = {}
  BY DEF ReviewInit
<1>3. stats \in Stats /\ stats.recent = <<>> /\ stats.auto = <<>>
  BY <1>1 DEF ReviewInit, Stats
<1>4. ReviewShape
  <2>1. files \in Seq(Paper) /\ facts \in Seq(Entry) /\ word \in Seq(Ends)
    BY <1>2
  <2>2. Len(word) = Len(files) /\ Len(files) <= MaxFiles /\ Len(facts) <= MaxEntries
    BY <1>1, <1>2
  <2>3. /\ Len(stats.recent) <= Trailing /\ clean \in 0 .. Trailing
        /\ Len(stats.auto) <= AutoRecent /\ SeenRight
    BY <1>1, <1>2, <1>3 DEF ReviewInit, SeenRight
  <2> QED  BY <1>3, <2>1, <2>2, <2>3 DEF ReviewInit, ReviewShape
<1>5. AskingRight
  BY DEF ReviewInit, AskingRight, Nothing
<1>6. PapersRight
  BY <1>2 DEF PapersRight
<1>7. HandsRight
  BY DEF ReviewInit, HandsRight, Hand, Ready
<1>8. Restarted
  BY <1>2, <1>3 DEF ReviewInit, Restarted
<1>9. OnlyReviewed /\ DisputesShow /\ DraftedOnce
  BY <1>2 DEF OnlyReviewed, DisputesShow, DraftedOnce, Held, Open
<1>10. TrustIsEarned
  BY DEF ReviewInit, TrustIsEarned
<1> QED  BY <1>4, <1>5, <1>6, <1>7, <1>8, <1>9, <1>10 DEF ReviewIInv
-----------------------------------------------------------------------------
\* Nothing of the queue moves: the hands are where they were, or let go.
LEMMA StillHands ==
    ASSUME ReviewIInv, files' = files, facts' = facts,
           sweep' = sweep \/ sweep' = Ready, scan' = scan \/ scan' = <<>>
    PROVE  Remembers /\ HandsRight'
<1>1. ReviewShape /\ <<>> \in Seq(Paper)
  BY DEF ReviewIInv
<1>2. Turned({}, <<>>)
  BY <1>1, TurnedBy
<1>3. Remembers
  BY <1>1, Same
<1> QED  BY <1>2, <1>3, HandsStay

\* A step that only changes what is asked, or the rules in use.
LEMMA AsideStep ==
    ASSUME ReviewIInv, UNCHANGED <<files, facts, stats, retuned, seen, sweep, scan,
                                   word, clean, byLapse, mishaps>>,
           AskingRight', rules' \subseteq Lesson
    PROVE  ReviewIInv'
<1>1. Remembers /\ HandsRight'
  BY StillHands
<1>2. Counters /\ Wrongs
  BY SameCounters, SameWrongs
<1>3. byLapse' \subseteq 1 .. Len(facts') /\ SeenRight'
  BY <1>1, LapsesStay DEF ReviewIInv, ReviewShape, SeenRight
<1>4. ReviewRest'
  BY <1>1, <1>2, <1>3, RestBy
<1> QED  BY <1>4, StillStep

LEMMA AsksStep ==
    ASSUME ReviewIInv, NEW m \in Statement, Asks(m[1], m[2], m[3])
    PROVE  ReviewIInv'
<1>1. m[1] \in Teller /\ m[2] \in Saying /\ m[3] \in Saying \cup {"nothing"}
  BY ReviewAssumption
<1>2. asking' = [asking EXCEPT ![m[1]] = [kind |-> "asks", says |-> m[2], over |-> m[3]]]
  BY DEF Asks
<1>3. AskingRight'
  <2>0. DOMAIN asking = Teller
    BY DEF ReviewIInv, AskingRight
  <2>4. DOMAIN asking' = Teller
    BY <1>2, <2>0
  <2> SUFFICES ASSUME NEW p \in Teller, asking'[p] # Nothing
               PROVE  asking'[p].says \in Saying /\ asking'[p].over \in Saying \cup {"nothing"}
    BY <2>4 DEF AskingRight
  <2>1. asking'[p] = asking[p] \/ asking'[p] = [kind |-> "asks", says |-> m[2], over |-> m[3]]
    BY <1>2, <2>0
  <2>2. CASE asking'[p] = asking[p]
    BY <2>2 DEF ReviewIInv, AskingRight
  <2>3. CASE asking'[p] = [kind |-> "asks", says |-> m[2], over |-> m[3]]
    BY <1>1, <2>3
  <2> QED  BY <2>1, <2>2, <2>3
<1>4. rules' \subseteq Lesson
  BY DEF Asks, ReviewIInv, ReviewShape
<1> QED  BY <1>3, <1>4, AsideStep DEF Asks

\* Whoever's answer has come is no longer asked about.
LEMMA AskedStays ==
    ASSUME ReviewIInv, NEW p \in Teller,
           asking' = [asking EXCEPT ![p] = Nothing] \/ asking' = asking
    PROVE  AskingRight'
<1>1. DOMAIN asking = Teller
  BY DEF ReviewIInv, AskingRight
<1>2. DOMAIN asking' = Teller /\ \A q \in Teller : asking'[q] = asking[q] \/ asking'[q] = Nothing
  <2>1. CASE asking' = [asking EXCEPT ![p] = Nothing]
    BY <1>1, <2>1
  <2>2. CASE asking' = asking
    BY <1>1, <2>2
  <2> QED  BY <2>1, <2>2
<1> QED  BY <1>2 DEF ReviewIInv, AskingRight

LEMMA DropsStep ==
    ASSUME ReviewIInv, NEW p \in Teller, Drops(p)
    PROVE  ReviewIInv'
<1>1. AskingRight' /\ rules' \subseteq Lesson
  BY AskedStays DEF Drops, ReviewIInv, ReviewShape
<1> QED  BY <1>1, AsideStep DEF Drops

LEMMA RetiresStep ==
    ASSUME ReviewIInv, NEW l \in Lesson, Retires(l)
    PROVE  ReviewIInv'
<1>1. AskingRight' /\ rules' \subseteq Lesson
  BY DEF Retires, ReviewIInv, ReviewShape, AskingRight
<1> QED  BY <1>1, AsideStep DEF Retires

LEMMA RetunesStep == ReviewIInv /\ Retunes => ReviewIInv'
<1> SUFFICES ASSUME ReviewIInv, Retunes PROVE ReviewIInv'
  OBVIOUS
<1>1. Remembers /\ HandsRight'
  BY StillHands DEF Retunes
<1>2. Trailing \in Nat
  BY ReviewAssumption
<1>3. Counters
  BY <1>2 DEF Retunes, ReviewIInv, ReviewShape, Restarted, Counters
<1>4. Wrongs /\ AskingRight' /\ SeenRight' /\ rules' \subseteq Lesson
  BY SameWrongs DEF Retunes, ReviewIInv, ReviewShape, AskingRight, SeenRight
<1>5. byLapse' \subseteq 1 .. Len(facts')
  BY <1>1, LapsesStay DEF Retunes
<1>6. ReviewRest'
  BY <1>1, <1>3, <1>4, <1>5, RestBy
<1> QED  BY <1>6, StillStep DEF Retunes

\* A step of a thread that takes something in hand or lets it go.
LEMMA HandStep ==
    ASSUME ReviewIInv, UNCHANGED <<files, facts, stats, retuned, seen, rules, asking,
                                   word, clean, byLapse, mishaps>>, HandsRight'
    PROVE  ReviewIInv'
<1>1. Counters /\ Wrongs /\ Remembers
  BY SameCounters, SameWrongs, Same DEF ReviewIInv
<1>2. AskingRight' /\ SeenRight' /\ rules' \subseteq Lesson
  BY DEF ReviewIInv, ReviewShape, AskingRight, SeenRight
<1>3. byLapse' \subseteq 1 .. Len(facts')
  BY <1>1, LapsesStay
<1>4. ReviewRest'
  BY <1>1, <1>2, <1>3, RestBy
<1> QED  BY <1>4, StillStep

LEMMA SweepReadsStep ==
    ASSUME ReviewIInv, NEW f \in Open, SweepReads(f)
    PROVE  ReviewIInv'
<1>1. f \in 1 .. Len(files) /\ files[f].says \in Saying /\ files[f].reviewer = owner
  <2>1. f \in 1 .. Len(files)
    BY ReviewShapes DEF ReviewIInv, Open
  <2> QED  BY <2>1 DEF ReviewIInv, PapersRight, PaperRight, SweepReads
<1>2. scan' = scan /\ files' = files /\ facts' = facts
  BY DEF SweepReads
<1>3. sweep' \in Hand /\ sweep'.file = f
  <2>1. files[f] \in Paper /\ f \in Nat
    BY <1>1, ReviewShapes DEF ReviewIInv
  <2>2. sweep' = [file |-> f, step |-> "read", over |-> files[f].over]
    BY DEF SweepReads
  <2> QED  BY <2>1, <2>2 DEF Paper, Hand
<1>4. HandsRight'
  BY <1>1, <1>2, <1>3 DEF ReviewIInv, HandsRight
<1> QED  BY <1>4, HandStep DEF SweepReads

LEMMA SweepDiesStep == ReviewIInv /\ SweepDies => ReviewIInv'
BY StillHands, HandStep DEF SweepDies

LEMMA ScanReadsStep ==
    ASSUME ReviewIInv, NEW i \in Held, NEW j \in Held, ScanReads(i, j)
    PROVE  ReviewIInv'
<1>1. i \in 1 .. Len(facts) /\ j \in 1 .. Len(facts)
  BY ReviewShapes DEF ReviewIInv, Held
<1>2. scan' = <<i, j>> /\ sweep' = sweep /\ files' = files /\ facts' = facts
  BY DEF ScanReads
<1>3. scan'[1] = i /\ scan'[2] = j
  BY <1>2
<1>4. HandsRight'
  BY <1>1, <1>2, <1>3 DEF ReviewIInv, HandsRight
<1> QED  BY <1>4, HandStep DEF ScanReads
-----------------------------------------------------------------------------
LEMMA GoneHands ==
    ASSUME ReviewIInv, NEW F, files' = Unlinked(F), Remembers,
           UNCHANGED <<sweep, scan>> \/ (sweep' = Ready /\ scan' = scan)
    PROVE  HandsRight'
<1>1. ReviewShape /\ <<>> \in Seq(Paper)
  BY DEF ReviewIInv
<1>2. Turned(F, <<>>)
  BY <1>1, TurnedBy
<1> QED  BY <1>2, HandsStay

LEMMA RejectsStep ==
    ASSUME ReviewIInv, NEW f \in Open, Rejects(f)
    PROVE  ReviewIInv'
<1>1. Remembers /\ FlagsStay /\ Len(facts') = Len(facts)
  BY Same DEF Rejects, ReviewIInv
<1>2. Wrongs
  <2>1. Raced({f}) \in SUBSET (Mishaps \ {"unearned"})
    BY DEF Raced, Mishaps
  <2>2. mishaps' = mishaps \cup Raced({f})
    BY DEF Rejects, Mishap
  <2> QED  BY <2>1, <2>2, WrongsBy
<1>3. Counters
  <2>1. /\ mishaps \subseteq mishaps' /\ retuned' = retuned
        /\ \/ UNCHANGED <<stats, clean>>
           \/ stats' = Decided(stats, FALSE) /\ clean' = Smaller(clean + 1, Trailing)
    BY <1>2 DEF Rejects, Wrongs
  <2>2. FALSE \in BOOLEAN
    OBVIOUS
  <2> QED  BY <2>1, <2>2, SameCounters, DecidedCounters
<1>4. HandsRight'
  BY <1>1, GoneHands DEF Rejects
<1>5. byLapse' \subseteq 1 .. Len(facts')
  BY <1>1, LapsesStay DEF Rejects
<1>6. AskingRight' /\ SeenRight' /\ rules' \subseteq Lesson
  BY DEF Rejects, ReviewIInv, ReviewShape, AskingRight, SeenRight
<1>7. ReviewRest'
  BY <1>2, <1>3, <1>4, <1>5, <1>6, RestBy
<1>8. /\ files' = Unlinked({f}) /\ word' = Became({f}, "rejected") /\ "rejected" \in Ends
      /\ seen' = seen /\ mishaps \subseteq mishaps' /\ Flagged({f})
  BY <1>1, <1>2, FlagsSuffice DEF Rejects, Wrongs, Ends
<1> QED  BY <1>1, <1>7, <1>8, GoneStep

\* What is forgotten takes along what says the same; a wrong approval restarts
\* the counter, or is one nobody has recorded yet.
LEMMA LosesStep ==
    ASSUME ReviewIInv, NEW S, NEW settled, NEW slips \in SUBSET (Mishaps \ {"unearned"}),
           Loses(S, settled, slips), Remembers, Len(facts') = Len(facts),
           Flagged(settled \cup Purged(S)),
           UNCHANGED <<retuned, seen, rules, asking, sweep, scan, byLapse>>
    PROVE  ReviewIInv'
<1>1. PICK T \in SUBSET (Mishaps \ {"unearned"}) :
         /\ mishaps' = mishaps \cup T
         /\ (S \cap byLapse # {} /\ ~Wrong(S)) => "unrecorded" \in T
  <2> DEFINE T == slips \cup Raced(Purged(S))
                    \cup (IF S \cap byLapse # {} /\ ~Wrong(S) THEN {"unrecorded"} ELSE {})
  <2>1. T \in SUBSET (Mishaps \ {"unearned"})
    BY DEF Raced, Mishaps
  <2>2. mishaps' = mishaps \cup T
    BY DEF Loses, Mishap
  <2>3. (S \cap byLapse # {} /\ ~Wrong(S)) => "unrecorded" \in T
    OBVIOUS
  <2> QED  BY <2>1, <2>2, <2>3
<1>2. Wrongs
  BY <1>1, WrongsBy
<1>3. Counters
  <2>1. /\ stats \in Stats /\ Len(stats.recent) <= Trailing /\ Len(stats.auto) <= AutoRecent
        /\ clean \in 0 .. Trailing /\ retuned \in BOOLEAN /\ Restarted
    BY DEF ReviewIInv, ReviewShape
  <2>2. Trailing \in Nat \ {0} /\ HoldEvery \in Nat \ {0}
    BY ReviewAssumption
  <2>3. clean' \in {0, clean} /\ clean' \in 0 .. Trailing
    BY <2>1, <2>2 DEF Loses
  <2>4. CASE Wrong(S)
    <3>1. stats' = [stats EXCEPT !.recent = <<>>, !.since = 0]
      BY <2>4 DEF Loses, Reset
    <3>2. <<>> \in Seq(BOOLEAN) /\ Len(<<>>) = 0 /\ 0 \in 0 .. HoldEvery - 1
      BY <2>2
    <3>3. stats' \in Stats /\ stats'.recent = <<>> /\ stats'.auto = stats.auto
      <4>1. \A r \in Seq(BOOLEAN), n \in 0 .. HoldEvery - 1 :
               LET t == [stats EXCEPT !.recent = r, !.since = n]
               IN  t \in Stats /\ t.recent = r /\ t.auto = stats.auto
        BY <2>1 DEF Stats
      <4> QED  BY <3>1, <3>2, <4>1
    <3> QED  BY <2>1, <2>2, <2>3, <3>2, <3>3 DEF Counters, Restarted
  <2>5. CASE ~Wrong(S)
    <3>1. stats' = stats
      BY <2>5 DEF Loses
    <3>2. clean' = clean \/ "unrecorded" \in mishaps'
      BY <1>1, <2>5 DEF Loses
    <3>3. "unrecorded" \in mishaps => "unrecorded" \in mishaps'
      BY <1>1
    <3> QED  BY <2>1, <2>3, <3>1, <3>2, <3>3 DEF Counters, Restarted
  <2> QED  BY <2>4, <2>5
<1>4. /\ files' = Unlinked(settled \cup Purged(S)) /\ word' = Became(settled \cup Purged(S), "dropped")
      /\ "dropped" \in Ends
  BY DEF Loses, Ends
<1>5. HandsRight'
  BY <1>4, GoneHands
<1>6. byLapse' \subseteq 1 .. Len(facts')
  BY LapsesStay
<1>7. AskingRight' /\ SeenRight' /\ rules' \subseteq Lesson
  BY DEF ReviewIInv, ReviewShape, AskingRight, SeenRight
<1>8. ReviewRest'
  BY <1>2, <1>3, <1>5, <1>6, <1>7, RestBy
<1> QED  BY <1>2, <1>4, <1>8, GoneStep DEF Wrongs

LEMMA ForgetsStep ==
    ASSUME ReviewIInv, NEW i \in Held, ForgetsEntry(i)
    PROVE  ReviewIInv'
<1>1. facts \in Seq(Entry) /\ Len(facts) <= MaxEntries /\ Len(facts) \in Nat
  BY ReviewShapes DEF ReviewIInv, ReviewShape
<1>2. facts' = Off(facts, {i})
  BY DEF ForgetsEntry
<1>3. Remembers /\ FlagsStay /\ Len(facts') = Len(facts)
  <2>1. /\ facts' \in Seq(Entry) /\ Len(facts') = Len(facts)
        /\ \A k \in 1 .. Len(facts) : /\ facts'[k].says = facts[k].says
                                     /\ facts'[k].by = facts[k].by
                                     /\ (facts'[k].active => facts[k].active)
                                     /\ facts'[k].disputed = facts[k].disputed
    BY <1>1, <1>2, Switched
  <2> QED  BY <1>1, <2>1 DEF Remembers, FlagsStay
<1>4. {} \in SUBSET (Mishaps \ {"unearned"}) /\ Flagged({} \cup Purged({i}))
  BY <1>3, FlagsSuffice
<1>5. Loses({i}, {}, {}) /\ UNCHANGED <<retuned, seen, rules, asking, sweep, scan, byLapse>>
  BY DEF ForgetsEntry
<1> QED  BY <1>3, <1>4, <1>5, LosesStep

\* Settling a dispute takes the flags of its two facts, which another dispute
\* may still need.
LEMMA SettledFlags ==
    ASSUME ReviewIInv, NEW f \in Open, NEW S, NEW U, f \in U, Shared(f) \subseteq mishaps',
           facts' = Settled(Off(facts, S), Parties(f))
    PROVE  Remembers /\ Len(facts') = Len(facts) /\ Flagged(U)
<1>1. facts \in Seq(Entry) /\ Len(facts) <= MaxEntries /\ Len(facts) \in Nat
      /\ DOMAIN files = 1 .. Len(files)
  BY ReviewShapes DEF ReviewIInv, ReviewShape
<1>2. PICK fs \in Seq(Entry) : /\ fs = Off(facts, S) /\ Len(fs) = Len(facts)
                               /\ \A i \in 1 .. Len(facts) : /\ fs[i].says = facts[i].says
                                                             /\ fs[i].by = facts[i].by
                                                             /\ (fs[i].active => facts[i].active)
                                                             /\ (facts[i].disputed => fs[i].disputed)
  BY <1>1, Switched
<1>3. /\ facts' \in Seq(Entry) /\ Len(facts') = Len(fs)
      /\ \A i \in 1 .. Len(fs) : /\ facts'[i].says = fs[i].says
                                 /\ facts'[i].by = fs[i].by
                                 /\ (facts'[i].active => fs[i].active)
                                 /\ ((i \notin Parties(f) /\ fs[i].disputed) => facts'[i].disputed)
  BY <1>2, Switched
<1>4. Remembers /\ Len(facts') = Len(facts)
  BY <1>1, <1>2, <1>3 DEF Remembers
<1>5. ASSUME NEW g \in 1 .. Len(files), NEW i \in 1 .. Len(facts),
             g \notin U, files[g].kind = "dispute", i \in Parties(g), facts[i].disputed
      PROVE  facts'[i].disputed \/ "shared" \in mishaps'
  <2>1. CASE i \in Parties(f)
    <3>1. g \in Open \ {f} /\ Parties(g) \cap Parties(f) # {}
      BY <1>1, <1>5, <2>1 DEF Open
    <3> QED  BY <1>5, <3>1 DEF Shared
  <2>2. CASE i \notin Parties(f)
    BY <1>2, <1>3, <1>5, <2>2
  <2> QED  BY <2>1, <2>2
<1> QED  BY <1>4, <1>5 DEF Flagged

LEMMA KeepsNewStep ==
    ASSUME ReviewIInv, NEW f \in Open, KeepsNew(f)
    PROVE  ReviewIInv'
<1>1. mishaps' = mishaps \cup Shared(f) /\ Shared(f) \in SUBSET (Mishaps \ {"unearned"})
  BY DEF KeepsNew, Mishap, Shared, Mishaps
<1>2. Remembers /\ Len(facts') = Len(facts) /\ Flagged({f})
  BY <1>1, SettledFlags DEF KeepsNew
<1>3. Wrongs
  BY <1>1, WrongsBy
<1>4. Counters
  BY <1>3, SameCounters DEF KeepsNew, Wrongs
<1>5. HandsRight'
  BY <1>2, GoneHands DEF KeepsNew
<1>6. byLapse' \subseteq 1 .. Len(facts')
  BY <1>2, LapsesStay DEF KeepsNew
<1>7. AskingRight' /\ SeenRight' /\ rules' \subseteq Lesson
  BY DEF KeepsNew, ReviewIInv, ReviewShape, AskingRight, SeenRight
<1>8. ReviewRest'
  BY <1>3, <1>4, <1>5, <1>6, <1>7, RestBy
<1>9. /\ files' = Unlinked({f}) /\ word' = Became({f}, "approved") /\ "approved" \in Ends
      /\ seen' = seen /\ mishaps \subseteq mishaps'
  BY <1>3 DEF KeepsNew, Wrongs, Ends
<1> QED  BY <1>2, <1>8, <1>9, GoneStep

LEMMA KeepsOldStep ==
    ASSUME ReviewIInv, NEW f \in Open, KeepsOld(f)
    PROVE  ReviewIInv'
<1> DEFINE S == {files[f].says} \cap Held
<1>1. Shared(f) \subseteq mishaps' /\ Shared(f) \in SUBSET (Mishaps \ {"unearned"})
  BY DEF KeepsOld, Loses, Mishap, Shared, Mishaps
<1>2. Remembers /\ Len(facts') = Len(facts) /\ Flagged({f} \cup Purged(S))
  BY <1>1, SettledFlags DEF KeepsOld
<1> QED  BY <1>1, <1>2, LosesStep DEF KeepsOld

LEMMA DecidesRuleStep ==
    ASSUME ReviewIInv, NEW f \in Open, NEW yes \in BOOLEAN, DecidesRule(f, yes)
    PROVE  ReviewIInv'
<1>1. Remembers /\ FlagsStay /\ Len(facts') = Len(facts)
  BY Same DEF DecidesRule, ReviewIInv
<1>2. Wrongs /\ Counters
  BY SameWrongs, SameCounters DEF DecidesRule
<1>3. HandsRight'
  BY <1>1, GoneHands DEF DecidesRule
<1>4. byLapse' \subseteq 1 .. Len(facts')
  BY <1>1, LapsesStay DEF DecidesRule
<1>5. AskingRight' /\ SeenRight'
  BY DEF DecidesRule, ReviewIInv, ReviewShape, AskingRight, SeenRight
<1>6. rules' \subseteq Lesson
  <2>1. f \in 1 .. Len(files)
    BY ReviewShapes DEF ReviewIInv, Open
  <2>2. files[f].says \in Lesson /\ rules \subseteq Lesson
    BY <2>1 DEF DecidesRule, ReviewIInv, ReviewShape, PapersRight, PaperRight
  <2> QED  BY <2>2 DEF DecidesRule
<1>7. ReviewRest'
  BY <1>1, <1>2, <1>3, <1>4, <1>5, <1>6, RestBy
<1>8. PICK w \in {"approved", "rejected"} : word' = Became({f}, w)
  BY DEF DecidesRule
<1>9. /\ files' = Unlinked({f}) /\ w \in Ends
      /\ seen' = seen /\ mishaps \subseteq mishaps' /\ Flagged({f})
  BY <1>1, FlagsSuffice DEF DecidesRule, Ends
<1> QED  BY <1>1, <1>7, <1>8, <1>9, GoneStep
-----------------------------------------------------------------------------
\* A proposal is put behind the queue, with a window when the owner's reviews
\* have earned it.
LEMMA ProposesStep ==
    ASSUME ReviewIInv, NEW p \in Teller, Proposes(p)
    PROVE  ReviewIInv'
<1> DEFINE new  == Proposal(asking[p].says, asking[p].over, p, Trusted(p))
           olds == {f \in Open : files[f].kind = "fact" /\ files[f].reviewer = p
                                   /\ Alike(files[f].says, new.says)}
<1>1. /\ files' = Append(Unlinked(olds), new) /\ word' = Append(Became(olds, "dropped"), "waits")
      /\ mishaps' = IF new.auto /\ clean < Trailing THEN mishaps \cup {"unearned"} ELSE mishaps
      /\ Len(files) < MaxFiles
  BY DEF Proposes
<1>2. /\ new.kind = "fact" /\ new.says \in Saying /\ new \in Paper /\ new.auto = Trusted(p)
      /\ new.reviewer = p
  <2>1. asking[p].says \in Saying /\ asking[p].over \in Saying \cup {"nothing"}
    BY DEF Proposes, ReviewIInv, AskingRight
  <2>2. Trusted(p) \in BOOLEAN
    BY Zenon DEF Trusted
  <2>3. \A b \in BOOLEAN : /\ Proposal(asking[p].says, asking[p].over, p, b) \in Paper
                           /\ Proposal(asking[p].says, asking[p].over, p, b).auto = b
    BY <2>1 DEF Proposal, Paper
  <2>4. new \in Paper /\ new.auto = Trusted(p)
    BY <2>2, <2>3
  <2> QED  BY <2>1, <2>4 DEF Proposal
<1> HIDE DEF new, olds
<1>3. ReviewShape /\ <<>> \in Seq(Paper) /\ "dropped" \in Ends
  BY DEF ReviewIInv, Ends
<1>4. Turned(olds, <<new>>) /\ Worded(olds, "dropped", <<new>>)
  BY <1>1, <1>2, <1>3, TurnedBy, WordedBy
<1>5. Remembers /\ FlagsStay /\ Len(facts') = Len(facts)
  BY <1>3, Same DEF Proposes
<1>6. Wrongs
  <2>1. CASE new.auto /\ clean < Trailing
    <3>1. Sampled
      BY <1>2, <2>1 DEF Trusted
    <3>2. ~retuned /\ Len(stats.recent) >= Trailing
      BY <3>1 DEF Sampled
    <3>3. clean \in Nat /\ Trailing \in Nat /\ Len(stats.recent) \in Nat
      BY <1>3, ReviewAssumption, LenProperties DEF ReviewShape, Stats
    <3>4. "unrecorded" \in mishaps
      BY <2>1, <3>2, <3>3 DEF ReviewIInv, Restarted
    <3>5. mishaps' = mishaps \cup {"unearned"}
      BY <1>1, <2>1
    <3> QED  BY <1>3, <3>4, <3>5 DEF ReviewShape, Wrongs, Mishaps, TrustIsEarned
  <2>2. CASE ~(new.auto /\ clean < Trailing)
    BY <1>1, <2>2, SameWrongs
  <2> QED  BY <2>1, <2>2
<1>7. Counters
  <2>1. /\ stats \in Stats /\ Len(stats.recent) <= Trailing /\ Len(stats.auto) <= AutoRecent
        /\ clean \in 0 .. Trailing /\ retuned \in BOOLEAN /\ Restarted
    BY DEF ReviewIInv, ReviewShape
  <2>2. Trailing \in Nat \ {0} /\ HoldEvery \in Nat \ {0}
    BY ReviewAssumption
  <2>3. "unrecorded" \in mishaps => "unrecorded" \in mishaps'
    BY <1>6 DEF Wrongs
  <2>4. /\ clean' = clean /\ retuned' \in BOOLEAN
        /\ p # owner => (retuned => retuned') /\ stats' = stats
        /\ p = owner => stats' = CountedStats
    BY DEF Proposes
  <2>5. CASE p # owner
    BY <2>1, <2>3, <2>4, <2>5 DEF Counters, Restarted
  <2>6. CASE p = owner /\ retuned
    <3>1. stats' = [stats EXCEPT !.recent = <<>>, !.since = 0]
      BY <2>4, <2>6 DEF CountedStats, Reset
    <3>2. <<>> \in Seq(BOOLEAN) /\ Len(<<>>) = 0 /\ 0 \in 0 .. HoldEvery - 1
      BY <2>2
    <3>3. stats' \in Stats /\ stats'.recent = <<>> /\ stats'.auto = stats.auto
      <4>1. \A r \in Seq(BOOLEAN), n \in 0 .. HoldEvery - 1 :
               LET t == [stats EXCEPT !.recent = r, !.since = n]
               IN  t \in Stats /\ t.recent = r /\ t.auto = stats.auto
        BY <2>1 DEF Stats
      <4> QED  BY <3>1, <3>2, <4>1
    <3> QED  BY <2>1, <2>2, <2>4, <3>2, <3>3 DEF Counters, Restarted
  <2>7. CASE p = owner /\ ~retuned
    <3>1. stats' = stats \/ stats' = [stats EXCEPT !.since = (stats.since + 1) % HoldEvery]
      BY <2>4, <2>7 DEF CountedStats
    <3>2. stats' \in Stats /\ stats'.recent = stats.recent /\ stats'.auto = stats.auto
      <4>1. PICK k \in 0 .. HoldEvery - 1 : k = (stats.since + 1) % HoldEvery
        BY <2>1, <2>2 DEF Stats
      <4>2. \A n \in 0 .. HoldEvery - 1 :
               LET t == [stats EXCEPT !.since = n]
               IN  t \in Stats /\ t.recent = stats.recent /\ t.auto = stats.auto
        BY <2>1 DEF Stats
      <4>3. CASE stats' = stats
        BY <2>1, <4>3
      <4>4. CASE stats' = [stats EXCEPT !.since = k]
        BY <4>2, <4>4
      <4> QED  BY <3>1, <4>1, <4>3, <4>4
    <3> QED  BY <2>1, <2>3, <2>4, <2>7, <3>2 DEF Counters, Restarted
  <2> QED  BY <2>5, <2>6, <2>7
<1>8. HandsRight'
  BY <1>4, <1>5, HandsStay DEF Proposes
<1>9. byLapse' \subseteq 1 .. Len(facts')
  BY <1>5, LapsesStay DEF Proposes
<1>10. seen' = seen /\ SeenRight' /\ rules' \subseteq Lesson /\ AskingRight'
  BY AskedStays DEF Proposes, ReviewIInv, ReviewShape, SeenRight
<1>11. ReviewRest'
  BY <1>6, <1>7, <1>8, <1>9, <1>10, RestBy
<1>12. NewRight(new)
  BY <1>2 DEF NewRight, Trusted
<1>13. <<new>> \in Seq(Paper) /\ Len(<<new>>) = 1 /\ \A k \in 1 .. 1 : <<new>>[k] = new
  BY <1>2
<1>14. Len(files') <= MaxFiles
  <2>1. Len(files') = Len(files) + 1 /\ Len(files) \in Nat /\ MaxFiles \in Nat
    BY <1>3, <1>4, <1>13, ReviewShapes, ReviewAssumption DEF Turned
  <2> QED  BY <1>1, <2>1
<1>15. QueueTurns(olds, olds, "dropped", <<new>>)
  BY <1>3, <1>4, <1>5, <1>6, <1>10, <1>12, <1>13, <1>14, MarksStay DEF QueueTurns, Wrongs
<1> QED  BY <1>3, <1>5, <1>11, <1>15, QueueStep, NothingNew, FlagsSuffice
-----------------------------------------------------------------------------
\* A fact is added for a file that is decided about, and the notice of a dispute
\* is put behind the queue.
LEMMA AddsStep ==
    ASSUME ReviewIInv, NEW c \in Saying, NEW over, NEW who \in Teller, Adds(c, over, who),
           NEW f \in 1 .. Len(files), files[f].says = c,
           NEW U, NEW w \in {"approved", "lapsed"}, Filed(w, {f}, Notices(c, over, who)),
           files' = Unlinked(U) \o Notices(c, over, who) \/ (files' = files \o Notices(c, over, who) /\ U = {}),
           who \in {files[f].reviewer, owner}, w = "lapsed" => files[f].reviewer = owner,
           files[f].kind # "gone" \/ "raced" \in mishaps',
           seen' = seen, mishaps \subseteq mishaps', ReviewRest'
    PROVE  ReviewIInv'
<1> DEFINE N == Notices(c, over, who)
<1>1. ReviewShape /\ PapersRight
  BY DEF ReviewIInv
<1>2. /\ Remembers /\ FlagsStay
      /\ \A i \in 1 .. Len(facts') : i > Len(facts) => facts'[i].says = c /\ facts'[i].by = who
      /\ N \in Seq(Paper) /\ Len(N) \in {0, 1}
      /\ \A k \in 1 .. Len(N) : NoticeRight(N[k])
  BY <1>1, AddsFact
<1> HIDE DEF N
<1>3. Turned(U, N) /\ Worded({f}, w, N)
  <2>1. word' = Became({f}, w) \o [k \in DOMAIN N |-> "waits"] /\ w \in Ends
    BY DEF Filed, N, Ends
  <2>2. files' = Unlinked(U) \o N \/ (files' = files \o N /\ U = {})
    BY DEF N
  <2>3. Worded({f}, w, N)
    BY <1>1, <1>2, <2>1, WordedBy
  <2>4. Turned(U, N)
    BY <1>1, <1>2, <2>2, TurnedBy
  <2> QED  BY <2>3, <2>4
<1>4. Len(files') <= MaxFiles
  <2>1. Len(files) + Len(N) <= MaxFiles
    BY DEF Filed, N
  <2> QED  BY <1>3, <2>1 DEF Turned
<1>5. \A k \in 1 .. Len(N) : NewRight(N[k])
  BY <1>2 DEF NewRight, NoticeRight
<1>6. QueueTurns(U, {f}, w, N)
  BY <1>2, <1>3, <1>4, <1>5, MarksStay DEF QueueTurns, Ends
<1>7. Backed
  <2>1. CASE "raced" \in mishaps'
    BY <2>1 DEF Backed
  <2>2. CASE files[f].kind # "gone"
    <3>1. word[f] \in {"waits", "approved", "lapsed"}
      BY <1>1, <2>2 DEF PapersRight, PaperRight
    <3>2. word'[f] = IF f \in {f} /\ word[f] = "waits" THEN w ELSE word[f]
      BY <1>3 DEF Worded
    <3>3. word'[f] = "approved" \/ (word'[f] = "lapsed" /\ files[f].reviewer = owner)
      BY <1>1, <3>1, <3>2 DEF PapersRight, PaperRight
    <3>4. /\ f \in 1 .. Len(files') /\ files'[f].says = c /\ files'[f].reviewer = files[f].reviewer
      <4>1. files[f] \in Paper /\ Len(files) \in Nat
        BY <1>1, ReviewShapes
      <4>2. files'[f] = IF f \in U THEN Erased(files[f]) ELSE files[f]
        BY <1>3 DEF Turned
      <4>3. Len(files') = Len(files) + Len(N) /\ Len(N) \in {0, 1}
        BY <1>2, <1>3 DEF Turned
      <4>4. files'[f].says = files[f].says /\ files'[f].reviewer = files[f].reviewer
        BY <4>1, <4>2 DEF Erased, Paper
      <4>5. f \in 1 .. Len(files')
        BY <4>1, <4>3
      <4> QED  BY <4>4, <4>5
    <3>5. ASSUME NEW k \in 1 .. Len(facts'), k > Len(facts) PROVE Vouches(f, k)'
      <4>1. facts'[k].says = c /\ facts'[k].by = who
        BY <1>2, <3>5
      <4>2. who \in {files'[f].reviewer, owner}
        BY <3>4
      <4> QED  BY <3>3, <3>4, <4>1, <4>2 DEF Vouches
    <3> QED  BY <3>4, <3>5 DEF Backed
  <2> QED  BY <2>1, <2>2
<1> QED  BY <1>2, <1>6, <1>7, QueueStep, FlagsSuffice

LEMMA ApprovesStep ==
    ASSUME ReviewIInv, NEW f \in Open, NEW who \in Teller, Approves(f, who)
    PROVE  ReviewIInv'
<1> DEFINE c == files[f].says
           over == files[f].over
           N == Notices(c, over, who)
<1>1. ReviewShape /\ PapersRight
  BY DEF ReviewIInv
<1>2. f \in 1 .. Len(files) /\ files[f].kind = "fact" /\ files[f].kind # "gone" /\ files[f] \in Paper
  BY <1>1, ReviewShapes DEF Open, Approves
<1>3. c \in Saying
  BY <1>1, <1>2 DEF PapersRight, PaperRight, Paper
<1>4. /\ Adds(c, over, who) /\ Filed("approved", {f}, N) /\ who \in {files[f].reviewer, owner}
      /\ files' \in {Unlinked({f}) \o N, files \o N}
      /\ stats' = Decided(stats, TRUE) /\ clean' = Smaller(clean + 1, Trailing)
      /\ UNCHANGED <<retuned, seen, rules, asking, sweep, scan, byLapse, mishaps>>
  BY DEF Approves
<1>5. PICK U : files' = Unlinked(U) \o N \/ (files' = files \o N /\ U = {})
  BY <1>4
<1>6. Remembers /\ N \in Seq(Paper)
  BY <1>1, <1>3, <1>4, AddsFact
<1> HIDE DEF c, over, N
<1>7. Turned(U, N)
  BY <1>1, <1>5, <1>6, TurnedBy
<1>8. Counters /\ Wrongs
  BY <1>4, DecidedCounters, SameWrongs
<1>9. HandsRight'
  BY <1>4, <1>6, <1>7, HandsStay
<1>10. byLapse' \subseteq 1 .. Len(facts')
  BY <1>4, <1>6, LapsesStay
<1>11. AskingRight' /\ SeenRight' /\ rules' \subseteq Lesson
  BY <1>1, <1>4 DEF ReviewIInv, ReviewShape, AskingRight, SeenRight
<1>12. ReviewRest'
  BY <1>8, <1>9, <1>10, <1>11, RestBy
<1> QED  BY <1>2, <1>3, <1>4, <1>5, <1>12, AddsStep DEF c, N

LEMMA SweepAddsStep == ReviewIInv /\ SweepAdds => ReviewIInv'
<1> SUFFICES ASSUME ReviewIInv, SweepAdds PROVE ReviewIInv'
  OBVIOUS
<1> DEFINE f == sweep.file
           c == files[f].says
           N == Notices(c, sweep.over, owner)
<1>1. ReviewShape /\ HandsRight
  BY DEF ReviewIInv
<1>2. /\ sweep.step = "read" /\ sweep' = [sweep EXCEPT !.step = "added", !.over = "nothing"]
      /\ Adds(c, sweep.over, owner) /\ Filed("lapsed", {f}, N) /\ files' = files \o N
      /\ byLapse' = byLapse \cup (DOMAIN facts' \ DOMAIN facts)
      /\ Mishap(IF f \in Open THEN {} ELSE {"raced"})
      /\ UNCHANGED <<stats, retuned, seen, rules, asking, scan, clean>>
  BY DEF SweepAdds
<1>3. f \in 1 .. Len(files) /\ c \in Saying /\ owner \in Teller /\ files[f].reviewer = owner
  BY <1>1, <1>2, ReviewAssumption DEF HandsRight
<1>4. Remembers /\ N \in Seq(Paper)
  BY <1>1, <1>2, <1>3, AddsFact
<1>5. PICK T \in SUBSET (Mishaps \ {"unearned"}) : /\ mishaps' = mishaps \cup T
                                                   /\ (f \notin Open => "raced" \in T)
  BY <1>2 DEF Mishap, Mishaps
<1>6. sweep' \in Hand /\ sweep'.file = f
  BY <1>1, <1>2 DEF HandsRight, Hand
<1> HIDE DEF f, c, N
<1>7. Turned({}, N)
  BY <1>1, <1>2, <1>4, TurnedBy
<1>8. Wrongs
  BY <1>5, WrongsBy
<1>9. Counters
  BY <1>2, <1>8, SameCounters DEF Wrongs
<1>10. HandsRight'
  <2>1. /\ Len(files) \in Nat /\ Len(files') \in Nat /\ Len(N) \in Nat /\ Len(files') = Len(files) + Len(N)
        /\ Len(facts) \in Nat /\ Len(facts') \in Nat /\ Len(facts) <= Len(facts')
    BY <1>1, <1>4, <1>7, ReviewShapes, LenProperties DEF Turned, Remembers
  <2>2. files'[f].says \in Saying /\ files'[f].reviewer = owner
    <3>1. files'[f] = IF f \in {} THEN Erased(files[f]) ELSE files[f]
      BY <1>3, <1>7 DEF Turned
    <3> QED  BY <1>3, <3>1 DEF c
  <2>3. f \in 1 .. Len(files')
    BY <1>3, <2>1
  <2>4. scan' # <<>> => scan'[1] \in 1 .. Len(facts') /\ scan'[2] \in 1 .. Len(facts')
    BY <1>1, <1>2, <2>1 DEF HandsRight
  <2> QED  BY <1>6, <2>2, <2>3, <2>4 DEF HandsRight
<1>11. byLapse' \subseteq 1 .. Len(facts')
  <2>1. /\ DOMAIN facts' = 1 .. Len(facts') /\ byLapse \subseteq 1 .. Len(facts)
        /\ Len(facts) \in Nat /\ Len(facts') \in Nat /\ Len(facts) <= Len(facts')
    BY <1>1, <1>4, ReviewShapes, LenProperties DEF ReviewShape, Remembers
  <2> QED  BY <1>2, <2>1
<1>12. AskingRight' /\ SeenRight' /\ rules' \subseteq Lesson
  BY <1>1, <1>2 DEF ReviewIInv, ReviewShape, AskingRight, SeenRight
<1>13. ReviewRest'
  BY <1>8, <1>9, <1>10, <1>11, <1>12, RestBy
<1>14. files[f].kind # "gone" \/ "raced" \in mishaps'
  BY <1>1, <1>3, <1>5, ReviewShapes DEF Open
<1> QED  BY <1>2, <1>3, <1>8, <1>13, <1>14, AddsStep DEF c, N, Wrongs

LEMMA SweepEndsStep == ReviewIInv /\ SweepEnds => ReviewIInv'
<1> SUFFICES ASSUME ReviewIInv, SweepEnds PROVE ReviewIInv'
  OBVIOUS
<1> DEFINE f == sweep.file
<1>1. ReviewShape /\ HandsRight /\ <<>> \in Seq(Paper) /\ Len(<<>>) = 0
  BY DEF ReviewIInv
<1>2. /\ sweep.step = "added" /\ sweep' = Ready
      /\ UNCHANGED <<facts, retuned, seen, rules, asking, scan, word, clean, byLapse, mishaps>>
      /\ f \in Open => /\ files' = Unlinked({f})
                       /\ stats' \in {[stats EXCEPT !.auto = Latest(@, files[f].says, AutoRecent)], stats}
      /\ f \notin Open => UNCHANGED <<files, stats>>
  BY DEF SweepEnds
<1>3. files[f].says \in Saying
  BY <1>1, <1>2 DEF HandsRight
<1> HIDE DEF f
<1>4. Remembers /\ FlagsStay /\ Len(facts') = Len(facts)
  BY <1>1, <1>2, Same
<1>5. CASE f \notin Open
  BY <1>2, <1>5, StillHands, HandStep
<1>6. CASE f \in Open
  <2>1. Turned({f}, <<>>) /\ Worded({}, "approved", <<>>)
    BY <1>1, <1>2, <1>6, TurnedBy, WordedBy DEF Ends
  <2>2. HandsRight'
    BY <1>2, <1>4, <2>1, HandsStay
  <2>3. stats' \in Stats /\ stats'.recent = stats.recent /\ Len(stats'.auto) <= AutoRecent
    <3>1. stats \in Stats /\ Len(stats.auto) <= AutoRecent /\ AutoRecent \in Nat
      BY <1>1, ReviewAssumption DEF ReviewShape
    <3>2. \A s \in Seq(Saying) :
             LET t == [stats EXCEPT !.auto = s]
             IN  t \in Stats /\ t.recent = stats.recent /\ t.auto = s
      BY <3>1 DEF Stats
    <3>3. stats.auto \in Seq(Saying) /\ Len(stats.auto) \in Nat
      BY <3>1 DEF Stats
    <3>4. PICK s \in Seq(Saying) : /\ s = Latest(stats.auto, files[f].says, AutoRecent)
                                   /\ Len(s) = Smaller(Len(stats.auto) + 1, AutoRecent)
      <4>1. PICK a \in Seq(Saying), c \in Saying : a = stats.auto /\ c = files[f].says
        BY <1>3, <3>3
      <4>2. Len(a) <= AutoRecent
        BY <3>1, <4>1
      <4>3. /\ Latest(a, c, AutoRecent) \in Seq(Saying)
            /\ Len(Latest(a, c, AutoRecent)) = Smaller(Len(a) + 1, AutoRecent)
        <5>1. AutoRecent \in Nat
          BY <3>1
        <5> HIDE <3>1, <3>2, <3>3, <4>1
        <5> QED  BY <4>2, <5>1, LatestIs
      <4> QED  BY <4>1, <4>3
    <3>5. Len(s) <= AutoRecent
      BY <3>1, <3>3, <3>4 DEF Smaller
    <3>6. stats' = [stats EXCEPT !.auto = s] \/ stats' = stats
      BY <1>2, <1>6, <3>4
    <3>7. CASE stats' = [stats EXCEPT !.auto = s]
      BY <3>2, <3>5, <3>7
    <3> QED  BY <3>1, <3>6, <3>7
  <2>4. Counters
    BY <1>1, <1>2, <2>3 DEF ReviewIInv, ReviewShape, Restarted, Counters
  <2>5. Wrongs /\ AskingRight' /\ SeenRight' /\ rules' \subseteq Lesson
    BY <1>2, SameWrongs DEF ReviewIInv, ReviewShape, AskingRight, SeenRight
  <2>6. byLapse' \subseteq 1 .. Len(facts')
    BY <1>2, <1>4, LapsesStay
  <2>7. ReviewRest'
    BY <2>2, <2>4, <2>5, <2>6, RestBy
  <2>8. Len(files') <= MaxFiles
    BY <1>1, <1>2, <1>6, UnlinkedIs DEF ReviewShape
  <2>9. QueueTurns({f}, {}, "approved", <<>>)
    BY <1>1, <1>2, <1>4, <2>1, <2>8, MarksStay DEF QueueTurns, Ends
  <2> QED  BY <1>1, <1>4, <2>7, <2>9, QueueStep, NothingNew, FlagsSuffice
<1> QED  BY <1>5, <1>6
-----------------------------------------------------------------------------
\* A notice is put behind the queue once the two facts it is about are flagged.
LEMMA ScanAppliesStep == ReviewIInv /\ ScanApplies => ReviewIInv'
<1> SUFFICES ASSUME ReviewIInv, ScanApplies PROVE ReviewIInv'
  OBVIOUS
<1> DEFINE p == Notice(scan[2], scan[1], facts[scan[2]].says)
<1>1. ReviewShape /\ HandsRight
  BY DEF ReviewIInv
<1>2. /\ scan # <<>> /\ scan' = <<>>
      /\ facts' = [i \in DOMAIN facts |->
                    [facts[i] EXCEPT !.disputed = @ \/ (i \in {scan[1], scan[2]} /\ facts[i].active)]]
      /\ Filed("waits", {}, <<p>>) /\ files' = files \o <<p>>
      /\ UNCHANGED <<stats, retuned, seen, rules, asking, sweep, clean, byLapse, mishaps>>
  BY DEF ScanApplies
<1>3. /\ scan[1] \in 1 .. Len(facts) /\ scan[2] \in 1 .. Len(facts)
      /\ facts \in Seq(Entry) /\ DOMAIN facts = 1 .. Len(facts) /\ Len(facts) \in Nat
      /\ \A i \in 1 .. Len(facts) : facts[i] \in Entry
  BY <1>1, <1>2, ReviewShapes DEF HandsRight, ReviewShape
<1>4. /\ p \in Paper /\ p.kind = "dispute" /\ p.auto = FALSE /\ p.says = scan[2] /\ p.over = scan[1]
  <2>1. About[facts[scan[2]].says] \in Teller
    BY <1>3, ReviewAssumption DEF Entry
  <2> QED  BY <1>3, <2>1 DEF Notice, Paper
<1> HIDE DEF p
<1>5. ASSUME NEW i \in 1 .. Len(facts)
      PROVE  /\ facts'[i] \in Entry /\ facts'[i].says = facts[i].says
             /\ facts'[i].by = facts[i].by
             /\ facts'[i].active => facts[i].active
             /\ facts[i].disputed => facts'[i].disputed
             /\ (i \in {scan[1], scan[2]} /\ facts'[i].active) => facts'[i].disputed
  <2>1. facts[i] \in Entry
    BY <1>3
  <2>2. facts'[i] = [facts[i] EXCEPT !.disputed = facts[i].disputed
                                        \/ (i \in {scan[1], scan[2]} /\ facts[i].active)]
    BY <1>2, <1>3
  <2> QED  BY <2>1, <2>2 DEF Entry
<1>6. facts' \in Seq(Entry) /\ Len(facts') = Len(facts)
  <2>1. facts' = [i \in 1 .. Len(facts) |-> facts'[i]]
    BY <1>2, <1>3
  <2> QED  BY <1>3, <1>5, <2>1
<1>7. Remembers /\ FlagsStay
  <2>1. FlagsStay
    BY <1>5 DEF FlagsStay
  <2>2. Len(facts') <= MaxEntries /\ Len(facts) <= Len(facts')
    BY <1>1, <1>3, <1>6 DEF ReviewShape
  <2> QED  BY <1>5, <1>6, <2>1, <2>2 DEF Remembers
<1>8. NewRight(p)
  <2>1. \A i \in {p.says, p.over} : i \in 1 .. Len(facts') /\ (facts'[i].active => facts'[i].disputed)
    BY <1>3, <1>4, <1>5, <1>6
  <2> QED  BY <1>4, <2>1 DEF NewRight, NoticeRight
<1>9. <<p>> \in Seq(Paper) /\ Len(<<p>>) = 1 /\ \A k \in 1 .. 1 : <<p>>[k] = p
  BY <1>4
<1>10. Turned({}, <<p>>) /\ Worded({}, "waits", <<p>>)
  BY <1>1, <1>2, <1>9, TurnedBy, WordedBy DEF Filed, Ends
<1>11. Len(files') <= MaxFiles
  BY <1>2, <1>10 DEF Turned, Filed
<1>12. HandsRight'
  BY <1>2, <1>7, <1>10, HandsStay
<1>13. Counters /\ Wrongs
  BY <1>2, SameCounters, SameWrongs
<1>14. byLapse' \subseteq 1 .. Len(facts')
  BY <1>2, <1>7, LapsesStay
<1>15. AskingRight' /\ SeenRight' /\ rules' \subseteq Lesson
  BY <1>1, <1>2 DEF ReviewIInv, ReviewShape, AskingRight, SeenRight
<1>16. ReviewRest'
  BY <1>12, <1>13, <1>14, <1>15, RestBy
<1>17. QueueTurns({}, {}, "waits", <<p>>)
  BY <1>2, <1>7, <1>8, <1>9, <1>10, <1>11, MarksStay DEF QueueTurns, Ends
<1> QED  BY <1>1, <1>6, <1>7, <1>16, <1>17, QueueStep, NothingNew, FlagsSuffice

\* A lesson is drafted that is not marked yet; it is marked now, or the process
\* ended before the mark.
LEMMA DraftsStep ==
    ASSUME ReviewIInv, NEW l \in Lesson, Drafts(l)
    PROVE  ReviewIInv'
<1> DEFINE p == Rule(l)
<1>1. ReviewShape
  BY DEF ReviewIInv
<1>2. /\ l \notin Marked /\ Filed("waits", {}, <<p>>) /\ files' = Append(files, p)
      /\ UNCHANGED <<facts, stats, retuned, rules, asking, sweep, scan, clean, byLapse>>
  BY DEF Drafts
<1>3. /\ p \in Paper /\ p.kind = "rule" /\ p.auto = FALSE /\ p.says = l
  BY ReviewAssumption DEF Rule, Paper
<1> HIDE DEF p
<1>4. /\ SeenRight' /\ (Marked \subseteq Marked' \/ Unmarked')
      /\ Wrongs /\ (l \in Marked' \/ Unmarked')
  <2>1. SeenRight /\ MarksKept \in Nat /\ seen \in Seq(Lesson) /\ Len(seen) \in Nat
    BY <1>1, ReviewAssumption DEF ReviewShape, SeenRight
  <2>2. PICK new \in Seq(Lesson) : /\ new = Latest(seen, l, MarksKept)
                                   /\ Len(new) = Smaller(Len(seen) + 1, MarksKept)
                                   /\ Len(seen) < MarksKept => new = Append(seen, l)
    BY <2>1, LatestIs DEF SeenRight
  <2>3. CASE seen' = new /\ Len(seen) < MarksKept /\ Mishap({})
    <3>1. SeenRight'
      BY <2>1, <2>2, <2>3 DEF SeenRight, Smaller
    <3>2. seen' = Append(seen, l)
      BY <2>2, <2>3
    <3>3. Marked \subseteq Marked' /\ l \in Marked'
      BY <2>1, <3>2 DEF Marked
    <3>4. mishaps' = mishaps
      BY <2>3 DEF Mishap
    <3> QED  BY <3>1, <3>3, <3>4, SameWrongs
  <2>4. CASE seen' = new /\ Mishap({"crowded"})
    <3>1. SeenRight'
      BY <2>1, <2>2, <2>4 DEF SeenRight, Smaller
    <3>2. mishaps' = mishaps \cup {"crowded"} /\ {"crowded"} \in SUBSET (Mishaps \ {"unearned"})
      BY <2>4 DEF Mishap, Mishaps
    <3> QED  BY <3>1, <3>2, WrongsBy DEF Unmarked
  <2>5. CASE seen' = seen /\ Mishap({"redrafted"})
    <3>1. SeenRight'
      BY <2>1, <2>5 DEF SeenRight
    <3>2. mishaps' = mishaps \cup {"redrafted"} /\ {"redrafted"} \in SUBSET (Mishaps \ {"unearned"})
      BY <2>5 DEF Mishap, Mishaps
    <3> QED  BY <3>1, <3>2, WrongsBy DEF Unmarked
  <2> QED  BY <2>1, <2>2, <2>3, <2>4, <2>5 DEF Drafts
<1>5. Remembers /\ FlagsStay /\ Len(facts') = Len(facts)
  BY <1>1, <1>2, Same
<1>6. NewRight(p)
  BY <1>2, <1>3, <1>4 DEF NewRight
<1>7. <<p>> \in Seq(Paper) /\ Len(<<p>>) = 1 /\ \A k \in 1 .. 1 : <<p>>[k] = p
  BY <1>3
<1>8. Turned({}, <<p>>) /\ Worded({}, "waits", <<p>>)
  BY <1>1, <1>2, <1>3, <1>7, TurnedBy, WordedBy DEF Filed, Ends
<1>9. Len(files') <= MaxFiles
  BY <1>2, <1>8 DEF Turned, Filed
<1>10. HandsRight'
  BY <1>2, <1>5, <1>8, HandsStay
<1>11. Counters
  BY <1>2, <1>4, SameCounters DEF Wrongs
<1>12. byLapse' \subseteq 1 .. Len(facts')
  BY <1>2, <1>5, LapsesStay
<1>13. AskingRight' /\ rules' \subseteq Lesson
  BY <1>1, <1>2 DEF ReviewIInv, ReviewShape, AskingRight
<1>14. ReviewRest'
  BY <1>4, <1>10, <1>11, <1>12, <1>13, RestBy
<1>15. QueueTurns({}, {}, "waits", <<p>>)
  BY <1>4, <1>5, <1>6, <1>7, <1>8, <1>9 DEF QueueTurns, Wrongs, Ends
<1> QED  BY <1>1, <1>5, <1>14, <1>15, QueueStep, NothingNew, FlagsSuffice
-----------------------------------------------------------------------------
LEMMA ReviewsStep ==
    ASSUME ReviewIInv, NEW f \in Open, Reviews(f)
    PROVE  ReviewIInv'
<1>1. ASSUME NEW who \in Teller, Approves(f, who) PROVE ReviewIInv'
  BY <1>1, ApprovesStep
<1>2. CASE Rejects(f)
  BY <1>2, RejectsStep
<1>3. CASE KeepsNew(f)
  BY <1>3, KeepsNewStep
<1>4. CASE KeepsOld(f)
  BY <1>4, KeepsOldStep
<1>5. ASSUME NEW yes \in BOOLEAN, DecidesRule(f, yes) PROVE ReviewIInv'
  BY <1>5, DecidesRuleStep
<1> QED  BY <1>1, <1>2, <1>3, <1>4, <1>5 DEF Reviews

LEMMA ReviewStep == ReviewIInv /\ [ReviewNext]_reviewVars => ReviewIInv'
<1> SUFFICES ASSUME ReviewIInv, [ReviewNext]_reviewVars PROVE ReviewIInv'
  OBVIOUS
<1>1. ASSUME NEW m \in Statement, Asks(m[1], m[2], m[3]) PROVE ReviewIInv'
  BY <1>1, AsksStep
<1>2. ASSUME NEW p \in Teller, Proposes(p) \/ Drops(p) PROVE ReviewIInv'
  BY <1>2, ProposesStep, DropsStep
<1>3. ASSUME NEW f \in Open, Reviews(f) \/ SweepReads(f) PROVE ReviewIInv'
  BY <1>3, ReviewsStep, SweepReadsStep
<1>4. ASSUME NEW i \in Held, ForgetsEntry(i) PROVE ReviewIInv'
  BY <1>4, ForgetsStep
<1>5. ASSUME NEW i \in Held, NEW j \in Held, ScanReads(i, j) PROVE ReviewIInv'
  BY <1>5, ScanReadsStep
<1>6. ASSUME NEW l \in Lesson, Drafts(l) \/ Retires(l) PROVE ReviewIInv'
  BY <1>6, DraftsStep, RetiresStep
<1>7. CASE Retunes \/ ScanApplies \/ SweepAdds \/ SweepEnds \/ SweepDies
  BY <1>7, RetunesStep, ScanAppliesStep, SweepAddsStep, SweepEndsStep, SweepDiesStep
<1>8. CASE UNCHANGED reviewVars
  <2>1. /\ UNCHANGED <<files, facts, stats, retuned, seen, rules, asking, sweep, scan,
                       word, clean, byLapse, mishaps>>
    BY <1>8 DEF reviewVars
  <2>2. HandsRight'
    BY <2>1, StillHands
  <2> QED  BY <2>1, <2>2, HandStep
<1> QED  BY <1>1, <1>2, <1>3, <1>4, <1>5, <1>6, <1>7, <1>8 DEF ReviewNext

\* What is remembered was approved by the one in whose name it stands, the person
\* it came from or the owner, or came from the owner and stood for a window that
\* nobody objected in; a window opens only for reviews that earned it, a waiting
\* dispute is flagged at both facts, and no rule is proposed twice under one
\* fingerprint whose mark is kept, for every queue, whatever the threads of the
\* night interleave with (memory/store.py, review_scaling.py, conflicts.py,
\* lessons.py).
THEOREM ReviewHolds == ReviewSpec => []ReviewInv
<1>1. ReviewInit => ReviewIInv
  BY InitReview
<1>2. ReviewIInv /\ [ReviewNext]_reviewVars => ReviewIInv'
  BY ReviewStep
<1>3. ReviewIInv => ReviewInv
  BY ReviewIsSafe
<1> QED  BY <1>1, <1>2, <1>3, PTL DEF ReviewSpec

-----------------------------------------------------------------------------
(***************************************************************************)
(* The coding agent.  Who is starting a task has none that runs, and what  *)
(* is started is in nobody's list and nobody else's hand; what is being    *)
(* discarded does not run and has lost its worktree; and what was not      *)
(* reported yet stands in the file, unless discarded since.                *)
(***************************************************************************)
Hands == {FreeHand} \cup [does : {"start", "discard"}, of : Job]

Starting(p, j) == hand[p] # FreeHand /\ hand[p].does = "start" /\ hand[p].of = j
Dropping(p, j) == hand[p] # FreeHand /\ hand[p].does = "discard" /\ hand[p].of = j

StartRight ==
    \A p \in Process, j \in Job : Starting(p, j) =>
        /\ j \notin Listed
        /\ j \in tree => j \in branch
        /\ \A q \in Process : hand[q] # FreeHand /\ hand[q].of = j => q = p
        /\ \A k \in Job : by[k] = p => step[k] \notin Working

DropRight ==
    \A p \in Process, j \in Job : Dropping(p, j) =>
        j \in Listed /\ job[j].status # "running" /\ j \notin tree

Alone ==
    \A p \in Process, j, k \in Job :
        by[j] = p /\ by[k] = p /\ step[j] \in Working /\ step[k] \in Working => j = k

FileRight ==
    /\ \A j \in Job \ Listed : step[j] = "none" /\ job[j].status = "none"
    /\ \A j \in Job : step[j] \in Ended => job[j].status \in {step[j], "discarded"}

CodeIInv ==
    /\ CodeTypeOK /\ hand \in [Process -> Hands]
    /\ GroundStays /\ ClimbsOnce /\ ToldIsTrue
    /\ StartRight /\ DropRight /\ Alone /\ FileRight

LEMMA Rungs ==
    /\ \A m : NextRung(m) \subseteq Model
    /\ \A m : \A n \in NextRung(m) : NextRung(m) = {n}
    /\ "sonnet" \in Model
<1>1. Len(LADDER) = 3 /\ DOMAIN LADDER = 1 .. 3
  BY DEF LADDER
<1>2. LADDER[1] = "haiku" /\ LADDER[2] = "sonnet" /\ LADDER[3] = "opus"
  BY DEF LADDER
<1>3. ToSet(LADDER) = {"haiku", "sonnet", "opus"}
  <2>1. \A i \in 1 .. 3 : i = 1 \/ i = 2 \/ i = 3
    OBVIOUS
  <2>2. ToSet(LADDER) = {LADDER[i] : i \in 1 .. 3}
    BY <1>1 DEF ToSet
  <2> QED  BY <1>2, <2>1, <2>2
<1>4. \A i \in 1 .. (Len(LADDER) - 1) : i = 1 \/ i = 2
  BY <1>1
<1>5. ASSUME NEW m, NEW n \in NextRung(m)
      PROVE  (m = "haiku" /\ n = "sonnet") \/ (m = "sonnet" /\ n = "opus")
  <2>1. PICK i \in 1 .. (Len(LADDER) - 1) : LADDER[i] = m /\ n = LADDER[i + 1]
    BY DEF NextRung
  <2>2. CASE i = 1
    <3>1. i + 1 = 2
      BY <2>2
    <3>2. m = LADDER[1] /\ n = LADDER[2]
      BY <2>1, <2>2, <3>1, Zenon
    <3> QED  BY <1>2, <3>2, Zenon
  <2>3. CASE i = 2
    <3>1. i + 1 = 3
      BY <2>3
    <3> QED  BY <1>2, <2>1, <2>3, <3>1, Zenon
  <2> QED  BY <1>4, <2>2, <2>3
<1>6. ASSUME NEW m, NEW n \in NextRung(m) PROVE n \in Model
  BY <1>3, <1>5 DEF Model
<1>7. ASSUME NEW m, NEW n \in NextRung(m) PROVE NextRung(m) = {n}
  <2>1. \A x \in NextRung(m) : x = n
    BY <1>5
  <2> QED  BY <2>1
<1> QED  BY <1>3, <1>6, <1>7 DEF Model

LEMMA Appended ==
    ASSUME order \in Seq(Job), IsInjective(order), NEW j \in Job, j \notin Listed
    PROVE  /\ Append(order, j) \in Seq(Job) /\ IsInjective(Append(order, j))
           /\ ToSet(Append(order, j)) = Listed \cup {j}
<1>1. Len(order) \in Nat /\ DOMAIN order = 1 .. Len(order)
  OBVIOUS
<1>2. /\ Append(order, j) \in Seq(Job) /\ Len(Append(order, j)) = Len(order) + 1
      /\ \A i \in 1 .. Len(order) : Append(order, j)[i] = order[i]
      /\ Append(order, j)[Len(order) + 1] = j
  BY <1>1
<1>3. DOMAIN Append(order, j) = 1 .. Len(order) + 1
  BY <1>2
<1>4. \A i \in 1 .. Len(order) + 1 : i \in 1 .. Len(order) \/ i = Len(order) + 1
  BY <1>1
<1>5. \A i \in 1 .. Len(order) : i \in 1 .. Len(order) + 1 /\ order[i] # j /\ i # Len(order) + 1
  BY <1>1 DEF Listed, ToSet
<1>6. Len(order) + 1 \in 1 .. Len(order) + 1
  BY <1>1
<1>7. IsInjective(Append(order, j))
  BY <1>1, <1>2, <1>3, <1>4, <1>5 DEF IsInjective
<1>8. ToSet(Append(order, j)) = Listed \cup {j}
  BY <1>1, <1>2, <1>3, <1>4, <1>5, <1>6 DEF Listed, ToSet
<1> QED  BY <1>2, <1>7, <1>8

LEMMA InitCode == CodeInit => CodeIInv
<1>. SUFFICES ASSUME CodeInit PROVE CodeIInv
  OBVIOUS
<1>1. order = <<>> /\ Listed = {}
  <2>1. order = <<>> /\ DOMAIN order = {}
    <3>1. order = <<>>
      BY Zenon DEF CodeInit
    <3>2. <<>> \in Seq(Job) /\ Len(<<>>) = 0 /\ DOMAIN <<>> = 1 .. 0 /\ 1 .. 0 = {}
      OBVIOUS
    <3> HIDE DEF CodeInit
    <3> QED  BY <3>1, <3>2, Zenon
  <2> QED  BY <2>1, Zenon DEF Listed, ToSet
<1>2. order \in Seq(Job) /\ IsInjective(order)
  BY <1>1 DEF IsInjective
<1>3. job \in [Job -> JobRecord] /\ \A j \in Job : job[j].status = "none" /\ job[j].from = ""
  BY Rungs DEF CodeInit, JobRecord
<1>4. by \in [Job -> Process]
  BY DEF CodeInit, Process
<1>5. CodeTypeOK
  <2>1. exits \in 0 .. MaxExit
    <3>1. exits = 0 /\ MaxExit \in Nat
      BY CodeAssumption DEF CodeInit
    <3> QED  BY <3>1
  <2> QED  BY <1>2, <1>3, <1>4, <2>1 DEF CodeInit, CodeTypeOK
<1>6. hand \in [Process -> Hands] /\ \A p \in Process : hand[p] = FreeHand
  BY DEF CodeInit, Hands
<1>7. \A j \in Job : step[j] = "none" /\ reported[j] = "nothing" /\ step[j] \notin Working \cup Ended
  BY DEF CodeInit, Working, Ended
<1>8. GroundStays /\ ClimbsOnce /\ ToldIsTrue
  BY <1>3, <1>7 DEF GroundStays, ClimbsOnce, ToldIsTrue
<1>9. StartRight /\ DropRight /\ Alone /\ FileRight
  BY <1>3, <1>6, <1>7 DEF StartRight, DropRight, Starting, Dropping, Alone, FileRight
<1> QED  BY <1>5, <1>6, <1>8, <1>9 DEF CodeIInv

LEMMA OneEachHolds == CodeTypeOK /\ Alone => OneEach
<1> SUFFICES ASSUME CodeTypeOK, Alone, NEW p \in Process
             PROVE  Cardinality({j \in Job : by[j] = p /\ step[j] \in Working}) <= 1
  BY DEF OneEach
<1> DEFINE W == {j \in Job : by[j] = p /\ step[j] \in Working}
<1>1. CASE W = {}
  BY <1>1, FS_EmptySet
<1>2. CASE W # {}
  <2>1. PICK j : j \in W
    BY <1>2
  <2>2. \A k \in W : k = j
    BY <2>1 DEF Alone
  <2>3. W = {j}
    BY <2>1, <2>2
  <2>4. Cardinality({j}) = 1
    BY FS_Singleton
  <2> HIDE DEF W
  <2>5. Cardinality(W) = 1
    BY <2>3, <2>4
  <2> QED  BY <2>5 DEF W
<1> QED  BY <1>1, <1>2

\* What a hand holds.
LEMMA HandFacts ==
    ASSUME hand \in [Process -> Hands], NEW p \in Process
    PROVE  /\ hand[p] = FreeHand <=> hand[p].does = "nothing"
           /\ hand[p].does \in {"start", "discard"} => hand[p].of \in Job
           /\ hand[p].does = "start" => Starting(p, hand[p].of)
           /\ hand[p].does = "discard" => Dropping(p, hand[p].of)
<1>1. PICK h \in Hands : h = hand[p]
  OBVIOUS
<1>2. CASE h = FreeHand
  BY <1>1, <1>2 DEF FreeHand
<1>3. CASE h \in [does : {"start", "discard"}, of : Job]
  <2>1. h.does \in {"start", "discard"} /\ h.of \in Job /\ h # FreeHand
    BY <1>3 DEF FreeHand
  <2> QED  BY <1>1, <2>1 DEF Starting, Dropping
<1> QED  BY <1>2, <1>3 DEF Hands

\* Who works is in the file.
LEMMA WorkersListed ==
    ASSUME CodeIInv, NEW j \in Job, step[j] \in Working
    PROVE  j \in Running /\ j \in Listed
BY DEF CodeIInv, FileRight, GroundStays, Running, Working

LEMMA CodeBegins ==
    ASSUME CodeIInv, NEW p \in Process, Begins(p)
    PROVE  CodeIInv'
<1>1. PICK j \in Fresh : hand' = [hand EXCEPT ![p] = [does |-> "start", of |-> j]]
  BY DEF Begins
<1>2. /\ j \in Job /\ j \notin Listed /\ j \notin tree
      /\ \A q \in Process : hand[q] # FreeHand => hand[q].of # j
  BY DEF Fresh
<1>3. \A k \in Job : step[k] \notin Working
  BY WorkersListed DEF Begins, MayStart
<1>4. /\ hand' \in [Process -> Hands]
      /\ \A q \in Process : q # p => hand'[q] = hand[q]
      /\ hand'[p] = [does |-> "start", of |-> j]
  BY <1>1, <1>2 DEF CodeIInv, Hands
<1>5. UNCHANGED <<order, job, tree, branch, step, by, reported, exits, Listed>>
  BY DEF Begins, Listed
<1>6. CodeTypeOK' /\ GroundStays' /\ ClimbsOnce' /\ ToldIsTrue' /\ Alone' /\ FileRight'
  BY <1>5 DEF CodeIInv, CodeTypeOK, GroundStays, ClimbsOnce, ToldIsTrue, Alone, FileRight
<1>7. StartRight'
  BY <1>2, <1>3, <1>4, <1>5 DEF CodeIInv, StartRight, Starting
<1>8. DropRight'
  BY <1>4, <1>5 DEF CodeIInv, DropRight, Dropping
<1> QED  BY <1>4, <1>6, <1>7, <1>8 DEF CodeIInv

LEMMA CodeOpens ==
    ASSUME CodeIInv, NEW p \in Process, Opens(p)
    PROVE  CodeIInv'
<1>1. PICK j \in Job : j = hand[p].of /\ Starting(p, j)
  BY HandFacts DEF CodeIInv, Opens
<1>2. /\ j \notin Listed /\ (j \in tree => j \in branch)
      /\ \A q \in Process : hand[q] # FreeHand /\ hand[q].of = j => q = p
      /\ \A k \in Job : by[k] = p => step[k] \notin Working
  BY <1>1 DEF CodeIInv, StartRight
<1>3. step[j] = "none" /\ job[j].status = "none" /\ reported[j] = "nothing"
  BY <1>2 DEF CodeIInv, CodeTypeOK, FileRight, ToldIsTrue
<1>4. CASE /\ j \notin tree
           /\ tree' = tree \cup {j} /\ branch' = branch \cup {j}
           /\ UNCHANGED <<order, job, step, by, hand, reported, exits>>
  <2>1. Listed' = Listed
    BY <1>4 DEF Listed
  <2>2. CodeTypeOK' /\ GroundStays' /\ ClimbsOnce' /\ Alone' /\ FileRight'
    BY <1>4, <2>1 DEF CodeIInv, CodeTypeOK, GroundStays, ClimbsOnce, Alone, FileRight
  <2>3. ToldIsTrue'
    BY <1>3, <1>4 DEF CodeIInv, ToldIsTrue
  <2>4. StartRight'
    BY <1>4, <2>1 DEF CodeIInv, StartRight, Starting
  <2>5. DropRight'
    BY <1>2, <1>4, <2>1 DEF CodeIInv, DropRight, Dropping
  <2> QED  BY <1>4, <2>2, <2>3, <2>4, <2>5 DEF CodeIInv
<1>5. CASE /\ j \in tree
           /\ order' = Append(order, j)
           /\ \E m \in Picks :
                 job' = [job EXCEPT ![j] = [status |-> "running", model |-> m, from |-> ""]]
           /\ step' = [step EXCEPT ![j] = "first"]
           /\ by' = [by EXCEPT ![j] = p]
           /\ hand' = [hand EXCEPT ![p] = FreeHand]
           /\ UNCHANGED <<tree, branch, reported, exits>>
  <2>1. PICK m \in Picks :
           job' = [job EXCEPT ![j] = [status |-> "running", model |-> m, from |-> ""]]
    BY <1>5
  <2>2. order' \in Seq(Job) /\ IsInjective(order') /\ Listed' = Listed \cup {j}
    <3>1. /\ Append(order, j) \in Seq(Job) /\ IsInjective(Append(order, j))
          /\ ToSet(Append(order, j)) = Listed \cup {j}
      BY <1>2, Appended DEF CodeIInv, CodeTypeOK
    <3>2. order' = Append(order, j)
      BY <1>5
    <3> QED  BY <3>1, <3>2 DEF Listed
  <2>3. /\ job' \in [Job -> JobRecord] /\ job'[j].status = "running" /\ job'[j].from = ""
        /\ \A k \in Job : k # j => job'[k] = job[k]
    BY <2>1, CodeAssumption DEF CodeIInv, CodeTypeOK, JobRecord
  <2>4. /\ step' \in [Job -> Working \cup {"none"} \cup Ended] /\ step'[j] = "first"
        /\ \A k \in Job : k # j => step'[k] = step[k]
    BY <1>5 DEF CodeIInv, CodeTypeOK, Working
  <2>5. /\ by' \in [Job -> Process] /\ by'[j] = p /\ \A k \in Job : k # j => by'[k] = by[k]
    BY <1>5 DEF CodeIInv, CodeTypeOK
  <2>6. /\ hand' \in [Process -> Hands] /\ hand'[p] = FreeHand
        /\ \A q \in Process : q # p => hand'[q] = hand[q]
    BY <1>5 DEF CodeIInv, Hands
  <2>7. CodeTypeOK'
    BY <1>5, <2>2, <2>3, <2>4, <2>5 DEF CodeIInv, CodeTypeOK
  <2>8. GroundStays'
    BY <1>2, <1>5, <2>3, <2>4 DEF CodeIInv, GroundStays
  <2>9. ClimbsOnce'
    BY <2>3 DEF CodeIInv, ClimbsOnce
  <2>10. ToldIsTrue'
    BY <1>3, <1>5, <2>3 DEF CodeIInv, ToldIsTrue
  <2>11. StartRight'
    <3> SUFFICES ASSUME NEW q \in Process, NEW i \in Job, Starting(q, i)'
                 PROVE  /\ i \notin Listed' /\ (i \in tree' => i \in branch')
                        /\ \A x \in Process : hand'[x] # FreeHand /\ hand'[x].of = i => x = q
                        /\ \A k \in Job : by'[k] = q => step'[k] \notin Working
      BY DEF StartRight
    <3>1. q # p /\ hand'[q] = hand[q] /\ Starting(q, i)
      BY <2>6 DEF Starting
    <3>2. i # j
      BY <1>1, <1>2, <3>1 DEF Starting
    <3>3. /\ i \notin Listed /\ (i \in tree => i \in branch)
          /\ \A x \in Process : hand[x] # FreeHand /\ hand[x].of = i => x = q
          /\ \A k \in Job : by[k] = q => step[k] \notin Working
      BY <3>1 DEF CodeIInv, StartRight
    <3>4. \A k \in Job : by'[k] = q => step'[k] \notin Working
      BY <2>4, <2>5, <3>1, <3>3
    <3>5. \A x \in Process : hand'[x] # FreeHand => hand'[x] = hand[x]
      BY <2>6
    <3> QED  BY <1>5, <2>2, <3>2, <3>3, <3>4, <3>5
  <2>12. DropRight'
    <3> SUFFICES ASSUME NEW q \in Process, NEW i \in Job, Dropping(q, i)'
                 PROVE  i \in Listed' /\ job'[i].status # "running" /\ i \notin tree'
      BY DEF DropRight
    <3>1. Dropping(q, i)
      BY <2>6, <1>1 DEF Dropping
    <3>2. i \in Listed /\ job[i].status # "running" /\ i \notin tree
      BY <3>1 DEF CodeIInv, DropRight
    <3> QED  BY <1>2, <1>5, <2>2, <2>3, <3>2
  <2>13. Alone'
    BY <1>2, <2>4, <2>5 DEF CodeIInv, Alone
  <2>14. FileRight'
    <3>1. \A k \in Job \ Listed' : k # j /\ k \in Job \ Listed
      BY <2>2
    <3>2. "first" \notin Ended
      BY DEF Ended
    <3>3. \A k \in Job : k # j => job'[k] = job[k]
      BY <2>3, Zenon
    <3> QED  BY <2>4, <3>1, <3>2, <3>3 DEF CodeIInv, FileRight
  <2> QED  BY <2>6, <2>7, <2>8, <2>9, <2>10, <2>11, <2>12, <2>13, <2>14 DEF CodeIInv
<1> QED  BY <1>1, <1>4, <1>5 DEF Opens

LEMMA CodeRuns ==
    ASSUME CodeIInv, NEW j \in Job, Proceeds(j)
    PROVE  CodeIInv'
<1>l. Listed' = Listed /\ hand' = hand /\ order' = order /\ tree' = tree /\ branch' = branch
      /\ by' = by /\ exits' = exits
  BY DEF Proceeds, Escalates, Finishes, SendsReport, Listed
<1>t. /\ job \in [Job -> JobRecord] /\ step \in [Job -> Working \cup {"none"} \cup Ended]
      /\ reported \in [Job -> {"nothing", "done", "failed"}]
  BY DEF CodeIInv, CodeTypeOK
<1>1. CASE Escalates(j)
  <2>1. PICK m \in NextRung(job[j].model) :
           job' = [job EXCEPT ![j].model = m, ![j].from = job[j].model]
    BY <1>1 DEF Escalates
  <2>2. m \in Model /\ NextRung(job[j].model) = {m}
    BY Rungs
  <2>3. /\ job'[j] = [job[j] EXCEPT !.model = m, !.from = job[j].model]
        /\ job'[j] \in JobRecord /\ job' \in [Job -> JobRecord]
        /\ job'[j].status = job[j].status /\ job'[j].from = job[j].model /\ job'[j].model = m
        /\ \A k \in Job : k # j => job'[k] = job[k]
    BY <1>t, <2>1, <2>2 DEF JobRecord
  <2>4. /\ step' \in [Job -> Working \cup {"none"} \cup Ended]
        /\ step[j] = "first" /\ step'[j] = "second" /\ reported' = reported
        /\ \A k \in Job : k # j => step'[k] = step[k]
    BY <1>1, <1>t DEF Escalates, Working
  <2>5. CodeTypeOK'
    BY <1>l, <2>3, <2>4 DEF CodeIInv, CodeTypeOK
  <2>6. ClimbsOnce'
    BY <2>2, <2>3 DEF CodeIInv, ClimbsOnce
  <2>7. GroundStays' /\ ToldIsTrue'
    BY <1>l, <2>3, <2>4 DEF CodeIInv, GroundStays, ToldIsTrue, Working
  <2>8. StartRight'
    BY <1>l, <2>4 DEF CodeIInv, StartRight, Starting, Working
  <2>9. DropRight'
    <3>1. \A k \in Job : job'[k].status = job[k].status
      BY <2>3
    <3> QED  BY <1>l, <3>1 DEF CodeIInv, DropRight, Dropping
  <2>10. Alone'
    BY <1>l, <2>4 DEF CodeIInv, Alone, Working
  <2>11. FileRight'
    BY <1>l, <2>3, <2>4 DEF CodeIInv, FileRight, Ended
  <2> QED  BY <1>l, <2>5, <2>6, <2>7, <2>8, <2>9, <2>10, <2>11 DEF CodeIInv
<1>2. CASE Finishes(j)
  <2>0. job[j].status = "running" /\ reported[j] = "nothing" /\ j \in Listed
    <3>1. job[j].status = "running"
      BY <1>2 DEF Finishes, CodeIInv, GroundStays
    <3> QED  BY <1>2, <1>t, <3>1, WorkersListed DEF Finishes, CodeIInv, ToldIsTrue
  <2>1. PICK s \in Ended : /\ job' = [job EXCEPT ![j].status = s]
                           /\ step' = [step EXCEPT ![j] = s]
    BY <1>2 DEF Finishes
  <2>3. /\ job' \in [Job -> JobRecord]
        /\ job'[j].status = s /\ job'[j].from = job[j].from /\ job'[j].model = job[j].model
        /\ \A k \in Job : k # j => job'[k] = job[k]
    BY <1>t, <2>1 DEF JobRecord, Ended
  <2>4. /\ step' \in [Job -> Working \cup {"none"} \cup Ended]
        /\ step'[j] = s /\ reported' = reported
        /\ \A k \in Job : k # j => step'[k] = step[k]
    BY <1>2, <1>t, <2>1 DEF Finishes
  <2>w. s \notin Working /\ s # "none" /\ s # "discarded" /\ s # "running"
    BY DEF Ended, Working
  <2>5. CodeTypeOK'
    BY <1>l, <2>3, <2>4 DEF CodeIInv, CodeTypeOK
  <2>6. ClimbsOnce'
    BY <2>3 DEF CodeIInv, ClimbsOnce
  <2>7. GroundStays' /\ ToldIsTrue'
    BY <1>l, <2>0, <2>3, <2>4, <2>w DEF CodeIInv, GroundStays, ToldIsTrue
  <2>8. StartRight'
    BY <1>l, <2>4, <2>w DEF CodeIInv, StartRight, Starting
  <2>9. DropRight'
    BY <1>l, <2>0, <2>3, <2>w DEF CodeIInv, DropRight, Dropping
  <2>10. Alone'
    BY <1>l, <2>4, <2>w DEF CodeIInv, Alone
  <2>11. FileRight'
    BY <1>l, <2>0, <2>3, <2>4 DEF CodeIInv, FileRight
  <2> QED  BY <1>l, <2>5, <2>6, <2>7, <2>8, <2>9, <2>10, <2>11 DEF CodeIInv
<1>3. CASE SendsReport(j)
  <2>1. /\ job' = job /\ step' \in [Job -> Working \cup {"none"} \cup Ended] /\ step'[j] = "none"
        /\ \A k \in Job : k # j => step'[k] = step[k]
    BY <1>3, <1>t DEF SendsReport
  <2>2. /\ reported' \in [Job -> {"nothing", "done", "failed"}]
        /\ reported'[j] \in {reported[j], step[j]}
        /\ \A k \in Job : k # j => reported'[k] = reported[k]
    BY <1>3, <1>t DEF SendsReport, Ended
  <2>3. job[j].status \in {step[j], "discarded"}
    BY <1>3 DEF SendsReport, CodeIInv, FileRight
  <2>w. "none" \notin Working /\ "none" \notin Ended
    BY DEF Working, Ended
  <2>4. CodeTypeOK'
    BY <1>l, <2>1, <2>2 DEF CodeIInv, CodeTypeOK
  <2>5. GroundStays' /\ ClimbsOnce' /\ Alone'
    BY <1>l, <2>1, <2>w DEF CodeIInv, GroundStays, ClimbsOnce, Alone
  <2>8. FileRight'
    BY <1>l, <2>1, <2>w DEF CodeIInv, FileRight
  <2>6. ToldIsTrue'
    BY <1>l, <2>1, <2>2, <2>3 DEF CodeIInv, ToldIsTrue
  <2>7. StartRight' /\ DropRight'
    BY <1>l, <2>1, <2>w DEF CodeIInv, StartRight, Starting, DropRight, Dropping
  <2> QED  BY <1>l, <2>4, <2>5, <2>6, <2>7, <2>8 DEF CodeIInv
<1> QED  BY <1>1, <1>2, <1>3 DEF Proceeds

LEMMA CodeDrops ==
    ASSUME CodeIInv, NEW p \in Process, Discards(p) \/ Marks(p) \/ StartFails(p) \/ Exits(p)
    PROVE  CodeIInv'
<1>t. /\ job \in [Job -> JobRecord] /\ step \in [Job -> Working \cup {"none"} \cup Ended]
      /\ hand \in [Process -> Hands]
  BY DEF CodeIInv, CodeTypeOK
<1>l. Listed' = Listed /\ order' = order /\ by' = by /\ reported' = reported
  BY DEF Discards, Marks, StartFails, Exits, Listed
<1>1. CASE Discards(p)
  <2>1. PICK j \in Listed : /\ job[j].status # "running"
                            /\ hand' = [hand EXCEPT ![p] = [does |-> "discard", of |-> j]]
                            /\ tree' = tree \ {j} /\ branch' \in {branch, branch \ {j}}
    BY <1>1 DEF Discards, MayDrop
  <2>0. j \in Job /\ step[j] \notin Working
    BY <2>1 DEF CodeIInv, CodeTypeOK, Listed, ToSet, GroundStays
  <2>2. /\ hand' \in [Process -> Hands] /\ hand'[p] = [does |-> "discard", of |-> j]
        /\ \A q \in Process : q # p => hand'[q] = hand[q]
    BY <1>t, <2>0, <2>1 DEF Hands
  <2>3. job' = job /\ step' = step /\ exits' = exits
    BY <1>1 DEF Discards
  <2>4. CodeTypeOK' /\ ClimbsOnce' /\ Alone' /\ FileRight'
    BY <1>l, <2>1, <2>3 DEF CodeIInv, CodeTypeOK, ClimbsOnce, Alone, FileRight
  <2>5. GroundStays' /\ ToldIsTrue'
    BY <1>l, <2>0, <2>1, <2>3 DEF CodeIInv, GroundStays, ToldIsTrue
  <2>6. StartRight'
    BY <1>l, <2>1, <2>2, <2>3 DEF CodeIInv, StartRight, Starting
  <2>7. DropRight'
    BY <1>l, <2>1, <2>2, <2>3 DEF CodeIInv, DropRight, Dropping
  <2> QED  BY <2>2, <2>4, <2>5, <2>6, <2>7 DEF CodeIInv
<1>2. CASE Marks(p)
  <2>0. PICK j \in Job : j = hand[p].of /\ Dropping(p, j)
    BY <1>2, <1>t, HandFacts DEF Marks
  <2>1. j \in Listed /\ job[j].status # "running" /\ j \notin tree /\ step[j] \notin Working
    BY <2>0 DEF CodeIInv, DropRight, GroundStays
  <2>2. /\ hand' \in [Process -> Hands] /\ hand'[p] = FreeHand
        /\ \A q \in Process : q # p => hand'[q] = hand[q]
    BY <1>2, <1>t DEF Marks, Hands
  <2>3. step' = step /\ exits' = exits /\ tree' = tree /\ branch' = branch
    BY <1>2 DEF Marks
  <2>4. /\ job' \in [Job -> JobRecord]
        /\ job'[j].status = "discarded"
        /\ job'[j].from = job[j].from /\ job'[j].model = job[j].model
        /\ \A k \in Job : k # j => job'[k] = job[k]
    BY <1>2, <1>t, <2>0 DEF Marks, JobRecord
  <2>5. CodeTypeOK' /\ ClimbsOnce' /\ Alone'
    BY <1>l, <2>3, <2>4 DEF CodeIInv, CodeTypeOK, ClimbsOnce, Alone
  <2>6. GroundStays' /\ ToldIsTrue' /\ FileRight'
    BY <1>l, <2>1, <2>3, <2>4 DEF CodeIInv, GroundStays, ToldIsTrue, FileRight
  <2>7. StartRight'
    BY <1>l, <2>2, <2>3 DEF CodeIInv, StartRight, Starting
  <2>8. DropRight'
    BY <1>l, <2>2, <2>3, <2>4 DEF CodeIInv, DropRight, Dropping
  <2> QED  BY <2>2, <2>5, <2>6, <2>7, <2>8 DEF CodeIInv
<1>3. CASE StartFails(p)
  <2>2. /\ hand' \in [Process -> Hands] /\ hand'[p] = FreeHand
        /\ \A q \in Process : q # p => hand'[q] = hand[q]
    BY <1>3, <1>t DEF StartFails, Hands
  <2>3. step' = step /\ exits' = exits /\ tree' = tree /\ branch' = branch /\ job' = job
    BY <1>3 DEF StartFails
  <2>4. CodeTypeOK' /\ ClimbsOnce' /\ Alone' /\ GroundStays' /\ ToldIsTrue' /\ FileRight'
    BY <1>l, <2>3 DEF CodeIInv, CodeTypeOK, ClimbsOnce, Alone, GroundStays, ToldIsTrue, FileRight
  <2>5. StartRight' /\ DropRight'
    BY <1>l, <2>2, <2>3 DEF CodeIInv, StartRight, Starting, DropRight, Dropping
  <2> QED  BY <2>2, <2>4, <2>5 DEF CodeIInv
<1>4. CASE Exits(p)
  <2>1. exits' \in 0 .. MaxExit
    BY <1>4, CodeAssumption DEF Exits, CodeIInv, CodeTypeOK
  <2>2. /\ hand' \in [Process -> Hands] /\ hand'[p] = FreeHand
        /\ \A q \in Process : q # p => hand'[q] = hand[q]
    BY <1>4, <1>t DEF Exits, Hands
  <2>3. /\ step' \in [Job -> Working \cup {"none"} \cup Ended]
        /\ \A k \in Job : step'[k] \in {step[k], "none"}
    BY <1>4, <1>t DEF Exits
  <2>4. tree' = tree /\ branch' = branch /\ job' = job
    BY <1>4 DEF Exits
  <2>w. "none" \notin Working /\ "none" \notin Ended
    BY DEF Working, Ended
  <2>5. CodeTypeOK' /\ ClimbsOnce' /\ ToldIsTrue'
    BY <1>l, <2>1, <2>3, <2>4 DEF CodeIInv, CodeTypeOK, ClimbsOnce, ToldIsTrue
  <2>6. Alone' /\ GroundStays' /\ FileRight'
    BY <1>l, <2>3, <2>4, <2>w DEF CodeIInv, Alone, GroundStays, FileRight
  <2>7. StartRight' /\ DropRight'
    BY <1>l, <2>2, <2>3, <2>4, <2>w DEF CodeIInv, StartRight, Starting, DropRight, Dropping
  <2> QED  BY <2>2, <2>5, <2>6, <2>7 DEF CodeIInv
<1> QED  BY <1>1, <1>2, <1>3, <1>4

\* A coding task works on ground that stays: while a model edits, nobody
\* discards the worktree and the file says that it runs; the work climbs one
\* rung at most, a process has one task at work, and what the owner was told is
\* what the file says - for any number of tasks and of ends of the processes.
THEOREM CodeHolds == CodeSpec => []CodeInv
<1>1. CodeIInv /\ [CodeNext]_codeVars => CodeIInv'
  <2> SUFFICES ASSUME CodeIInv, [CodeNext]_codeVars PROVE CodeIInv'
    OBVIOUS
  <2>1. ASSUME NEW p \in Process, Turns(p) \/ Exits(p) PROVE CodeIInv'
    BY <2>1, CodeBegins, CodeOpens, CodeDrops DEF Turns
  <2>2. ASSUME NEW j \in Job, Proceeds(j) PROVE CodeIInv'
    BY <2>2, CodeRuns
  <2>3. CASE UNCHANGED codeVars
    <3>1. UNCHANGED <<order, job, tree, branch, step, by, hand, reported, exits, Listed>>
      BY <2>3 DEF codeVars, Listed
    <3>2. CodeTypeOK' /\ GroundStays' /\ ClimbsOnce' /\ ToldIsTrue'
      BY <3>1 DEF CodeIInv, CodeTypeOK, GroundStays, ClimbsOnce, ToldIsTrue
    <3>3. StartRight' /\ DropRight' /\ Alone' /\ FileRight'
      BY <3>1 DEF CodeIInv, StartRight, Starting, DropRight, Dropping, Alone, FileRight
    <3> QED  BY <3>1, <3>2, <3>3 DEF CodeIInv
  <2> QED  BY <2>1, <2>2, <2>3 DEF CodeNext
<1>2. CodeIInv => CodeInv
  BY OneEachHolds DEF CodeIInv, CodeInv
<1> QED  BY InitCode, <1>1, <1>2, PTL DEF CodeSpec
==============================================================================

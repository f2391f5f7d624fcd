-------------------------- MODULE CdcManagerProofs --------------------------
(***************************************************************************)
(* Theorems about CdcManager, for any number of tables, callers, slots and *)
(* chunks: its types, the semaphore, the status flags, and, as long as     *)
(* nobody calls Restart, the list of tables and the status of the loop.    *)
(***************************************************************************)
EXTENDS CdcManager, FiniteSetTheorems, SequenceTheorems, TLAPS

\* Workers that hold a slot of the semaphore.
Holding == {"mark", "chunk", "unmark", "release"}
Holders == {w \in Tables : pc[w] \in Holding}

\* The types of all variables but sem.
Types ==
  /\ pg \subseteq Tables /\ registry \subseteq pg
  /\ proc \in {"down", "running", "stopping", "closed"}
  /\ tables \in Seq(Tables) /\ tracked \subseteq Tables
  /\ isRunning \in [Tables -> BOOLEAN] /\ globalRunning \in BOOLEAN /\ stopClosed \in BOOLEAN
  /\ loop \in {"none", "start", "initial", "select", "visit", "marked"}
  /\ turn \in Seq(Tables) /\ (loop = "marked" => turn # <<>>)
  /\ pc \in [Runners -> PassLabels] /\ on \in [Callers -> Tables]
  /\ left \in [Runners -> 0..MaxChunks]
  /\ op \in {"idle", "wait", "relist"} /\ listed \subseteq registry
  /\ upsets \in 0..MaxTroubles

\* Workers exist during the initial sync only; Restart waits for the loop, and while it
\* is at work the manager is not running, nor is there a loop once it goes on; a process
\* that is down has nothing.
LifeInv ==
  /\ \A w \in Tables : pc[w] \in {"idle", "queued"} \cup Holding
  /\ loop # "initial" => \A w \in Tables : pc[w] = "idle"
  /\ op # "idle" => proc = "running" /\ ~globalRunning
  /\ proc = "running" /\ ~globalRunning /\ op # "wait" => loop = "none"
  /\ proc = "closed" => loop = "none"
  /\ proc = "down" => /\ tables = <<>> /\ tracked = {} /\ registry = {}
                      /\ loop = "none" /\ ~stopClosed /\ ~globalRunning
                      /\ \A r \in Runners : pc[r] = "idle"
                      /\ \A t \in Tables : ~isRunning[t]

\* As many slots are in use as there are workers between Acquire and Release.
SlotsInv == sem = Cardinality(Holders) /\ sem <= ParallelWorkers

\* A flag belongs to a tracked table.
FlagInv == FlagsSettle /\ \A t \in Tables : isRunning[t] => t \in tracked

\* Without Restart stopChan is closed by the shutdown only.
StatusInv == WithRestart \/ (/\ op = "idle" /\ (globalRunning => loop # "none")
                             /\ stopClosed => proc \in {"stopping", "closed"} /\ ~globalRunning)

\* m.tables lists known, tracked tables, each once; the caller that is about to add one
\* is alone in the critical section and adds one that is not tracked.
ListInv ==
  /\ ListedOnce
  /\ Elems(tables) \subseteq tracked /\ tracked \subseteq registry
  /\ WithRestart \/ Elems(tables) = tracked
  /\ \A c \in Callers : pc[c] \in {"lock", "append"} => on[c] \in registry
  /\ \A c \in Callers : pc[c] = "append" => on[c] \notin tracked
  /\ \A c, d \in Callers : pc[c] = "append" /\ pc[d] = "append" => c = d

ManagerInv == Types /\ LifeInv /\ SlotsInv /\ FlagInv /\ StatusInv /\ ListInv

-----------------------------------------------------------------------------
\* An order of a set is a sequence of its members, each once.
LEMMA OrdersOnce ==
  ASSUME NEW S \in SUBSET Tables, NEW s \in Orders(S)
  PROVE  /\ s \in Seq(Tables) /\ Elems(s) = S
         /\ \A i, j \in 1..Len(s) : s[i] = s[j] => i = j
<1>1. IsFiniteSet(S) /\ Cardinality(S) \in Nat
  BY ManagerAssumption, FS_Subset, FS_CardinalityType
<1> DEFINE n == Cardinality(S)
<1>2. s \in [1..n -> S] /\ Elems(s) = S
  BY DEF Orders
<1> HIDE DEF n
<1>3. n \in Nat
  BY <1>1 DEF n
<1>4. s \in Seq(Tables) /\ Len(s) = n
  BY <1>2, <1>3
<1>5. s \in Surjection(1..n, S)
  BY <1>2, <1>4 DEF Surjection, Elems
<1>6. IsFiniteSet(1..n) /\ Cardinality(1..n) = Cardinality(S)
  BY <1>3, FS_Interval DEF n
<1>7. s \in Injection(1..n, S)
  BY <1>5, <1>6, FS_SurjSameCardinalityImpliesInj
<1> QED BY <1>2, <1>4, <1>7 DEF Injection, IsInjective

\* What a table, a caller and a runner are.
LEMMA RunnersSplit ==
  /\ Tables \subseteq Runners
  /\ Callers \subseteq Runners
  /\ \A c \in Callers : c \notin Tables
  /\ \A r \in Runners : r \in Tables \/ r \in Callers
BY ManagerAssumption DEF Runners

\* A runner's table.
LEMMA AtType == ASSUME Types, NEW r \in Runners PROVE At(r) \in Tables
<1>1. CASE r \in Tables
  BY <1>1 DEF At
<1>2. CASE r \in Callers /\ r \notin Tables
  BY <1>2 DEF Types, At
<1> QED BY <1>1, <1>2, RunnersSplit

-----------------------------------------------------------------------------
\* A process that vanishes leaves the invariant in its initial shape.
LEMMA InvVanish == ASSUME ManagerInv, Vanish, upsets' \in 0..MaxTroubles PROVE ManagerInv'
<1>1. on0 \in [Callers -> Tables]
  BY ManagerAssumption DEF on0
<1>2. Types'
  <2>1. isRunning' \in [Tables -> BOOLEAN] /\ pc' \in [Runners -> PassLabels]
    BY DEF Vanish, PassLabels
  <2>2. left' \in [Runners -> 0..MaxChunks]
    BY ManagerAssumption DEF Vanish
  <2>3. on' \in [Callers -> Tables]
    BY <1>1 DEF Vanish
  <2>4. tables' = <<>> /\ turn' = <<>> /\ <<>> \in Seq(Tables)
    BY DEF Vanish
  <2>5. pg' \subseteq Tables /\ registry' = {} /\ tracked' = {} /\ listed' = {}
    BY DEF Vanish, ManagerInv, Types
  <2> QED BY <2>1, <2>2, <2>3, <2>4, <2>5 DEF Types, Vanish
<1>3. LifeInv'
  BY RunnersSplit DEF Vanish, LifeInv
<1>4. SlotsInv'
  <2>1. Holders' = {}
    BY RunnersSplit DEF Vanish, Holders, Holding
  <2> QED BY <2>1, FS_EmptySet, ManagerAssumption DEF Vanish, SlotsInv
<1>5. FlagInv'
  BY DEF Vanish, FlagInv, FlagsSettle
<1>6. StatusInv'
  BY DEF Vanish, StatusInv
<1>7. ListInv'
  BY RunnersSplit DEF Vanish, ListInv, ListedOnce, Elems
<1> QED BY <1>2, <1>3, <1>4, <1>5, <1>6, <1>7 DEF ManagerInv

\* Boot lists every table that is not excluded, once.
LEMMA InvBoot == ASSUME ManagerInv, Boot PROVE ManagerInv'
<1> USE DEF Boot, StartLoop, Calm, Upset, passVars, opVars
<1>1. /\ tables' \in Seq(Tables) /\ Elems(tables') = tracked'
      /\ \A i, j \in 1..Len(tables') : tables'[i] = tables'[j] => i = j
  <2>1. pg \ Excluded \in SUBSET Tables
    BY DEF ManagerInv, Types
  <2> QED BY <2>1, OrdersOnce
<1>2. Types'
  <2>1. upsets' \in 0..MaxTroubles
    BY ManagerAssumption DEF ManagerInv, Types
  <2> QED BY <1>1, <2>1 DEF ManagerInv, Types
<1>3. LifeInv'
  BY DEF ManagerInv, Types, LifeInv
<1>4. SlotsInv'
  BY DEF ManagerInv, SlotsInv, Holders
<1>5. FlagInv'
  BY DEF ManagerInv, LifeInv, FlagInv, FlagsSettle
<1>6. StatusInv'
  BY DEF ManagerInv, LifeInv, StatusInv
<1>7. ListInv'
  BY <1>1, RunnersSplit DEF ManagerInv, Types, LifeInv, ListInv, ListedOnce, Elems
<1> QED BY <1>2, <1>3, <1>4, <1>5, <1>6, <1>7 DEF ManagerInv

\* What becomes of the process when nobody dies.
LEMMA InvLife ==
  ASSUME ManagerInv, Stop \/ ClosePool \/ Restart \/ RestartWaited \/ \E t \in Tables : CreateTable(t)
  PROVE  ManagerInv'
<1> USE DEF schemaVars, listVars, flagVars, loopVars, passVars, opVars, Calm
<1>1. CASE Vanish /\ Calm
  BY <1>1, InvVanish DEF ManagerInv, Types
<1>2. ASSUME ~Vanish PROVE ManagerInv'
  <2>1. Types'
    BY <1>2 DEF ManagerInv, Types, Stop, StopLoop, ClosePool, Restart, RestartWaited, CreateTable
  <2>2. LifeInv'
    BY <1>2 DEF ManagerInv, Types, LifeInv, Stop, StopLoop, ClosePool, Restart, RestartWaited, CreateTable
  <2>3. SlotsInv'
    BY <1>2 DEF ManagerInv, SlotsInv, Holders, Stop, StopLoop, ClosePool, Restart, RestartWaited, CreateTable
  <2>4. FlagInv'
    BY <1>2 DEF ManagerInv, FlagInv, FlagsSettle, At, Stop, StopLoop, ClosePool, Restart, RestartWaited, CreateTable
  <2>5. StatusInv'
    BY <1>2 DEF ManagerInv, StatusInv, Types, LifeInv, Stop, StopLoop, ClosePool, Restart, RestartWaited, CreateTable
  <2>6. ListInv'
    BY <1>2 DEF ManagerInv, ListInv, ListedOnce, Elems, Stop, StopLoop, ClosePool, Restart, RestartWaited, CreateTable
  <2> QED BY <2>1, <2>2, <2>3, <2>4, <2>5, <2>6 DEF ManagerInv
<1> QED BY <1>1, <1>2 DEF Stop, StopLoop, ClosePool, Restart, RestartWaited, CreateTable

\* Relist replaces the list by one of tables it tracks.
LEMMA InvRelist == ASSUME ManagerInv, Relist PROVE ManagerInv'
<1> USE DEF Relist, StartLoop, Calm, Upset, schemaVars, passVars
<1>1. /\ tables' \in Seq(Tables) /\ Elems(tables') = listed
      /\ \A i, j \in 1..Len(tables') : tables'[i] = tables'[j] => i = j
  <2>1. listed \in SUBSET Tables
    BY DEF ManagerInv, Types
  <2> QED BY <2>1, OrdersOnce
<1>2. Types'
  <2>1. upsets' \in 0..MaxTroubles
    BY ManagerAssumption DEF ManagerInv, Types
  <2> QED BY <1>1, <2>1 DEF ManagerInv, Types
<1>3. LifeInv'
  BY DEF ManagerInv, Types, LifeInv
<1>4. SlotsInv'
  BY DEF ManagerInv, SlotsInv, Holders
<1>5. FlagInv'
  BY DEF ManagerInv, Types, LifeInv, FlagInv, FlagsSettle, At
<1>6. StatusInv'
  BY DEF ManagerInv, StatusInv
<1>7. ListInv'
  <2>1. ListedOnce'
    BY <1>1 DEF ListedOnce
  <2>2. WithRestart
    BY DEF ManagerInv, StatusInv
  <2>3. Elems(tables)' \subseteq tracked' /\ tracked' \subseteq registry'
    BY <1>1 DEF ManagerInv, Types, ListInv, Elems
  <2> QED BY <2>1, <2>2, <2>3 DEF ManagerInv, ListInv, Unlocked
<1> QED BY <1>2, <1>3, <1>4, <1>5, <1>6, <1>7 DEF ManagerInv

\* The flag of a pass is set and taken back for the table of the pass.
LEMMA FlagType ==
  ASSUME Types, NEW t \in Tables, NEW b \in BOOLEAN, Flag(t, b)
  PROVE  /\ isRunning' \in [Tables -> BOOLEAN]
         /\ t \in tracked => isRunning'[t] = b
         /\ t \notin tracked => isRunning'[t] = isRunning[t]
         /\ \A u \in Tables : u # t => isRunning'[u] = isRunning[u]
BY DEF Types, Flag

\* A pass changes its own label, its flag and its chunks.
LEMMA InvPass == ASSUME ManagerInv, NEW r \in Runners, PassStep(r) PROVE ManagerInv'
<1>0. /\ UNCHANGED <<pg, registry, proc, tables, tracked, globalRunning, stopClosed,
                       loop, turn, sem, on, op, listed, upsets>>
      /\ pc[r] \in {"mark", "chunk", "unmark"}
      /\ pc'[r] \in {"chunk", "unmark", IF r \in Tables THEN "release" ELSE "idle"}
      /\ pc' \in [Runners -> PassLabels]
      /\ \A x \in Runners : x # r => pc'[x] = pc[x]
  BY DEF ManagerInv, Types, PassStep, Mark, Chunk, Unmark, PassLabels,
         schemaVars, listVars, flagVars, loopVars, opVars
<1>1. At(r) \in Tables /\ \A x \in Runners : At(x)' = At(x)
  BY <1>0, AtType DEF ManagerInv, At
<1>2. Types'
  <2>1. isRunning' \in [Tables -> BOOLEAN]
    BY <1>1, FlagType DEF ManagerInv, Types, PassStep, Mark, Chunk, Unmark, flagVars
  <2>2. left' \in [Runners -> 0..MaxChunks]
    <3>1. left \in [Runners -> 0..MaxChunks] /\ MaxChunks \in Nat
      BY ManagerAssumption DEF ManagerInv, Types
    <3>2. left[r] \in 0..MaxChunks
      BY <3>1
    <3>3. \A n \in 0..(left[r] - 1) : n \in 0..MaxChunks
      BY <3>1, <3>2
    <3>4. \E n \in 0..MaxChunks : left' = left \/ left' = [left EXCEPT ![r] = n]
      <4>1. CASE Mark(r)
        BY <4>1 DEF Mark
      <4>2. CASE Chunk(r)
        BY <4>2, <3>1, <3>3 DEF Chunk
      <4>3. CASE Unmark(r)
        <5>1. 0 \in 0..MaxChunks /\ left' = [left EXCEPT ![r] = 0]
          BY <4>3, <3>1 DEF Unmark
        <5> QED BY <5>1
      <4> QED BY <4>1, <4>2, <4>3 DEF PassStep
    <3> QED BY <3>1, <3>4
  <2> QED BY <1>0, <2>1, <2>2 DEF ManagerInv, Types
<1>3. LifeInv'
  <2>1. r \in Tables => pc'[r] \in Holding
    BY <1>0 DEF Holding
  <2>2. \A w \in Tables : pc'[w] = pc[w] \/ (w = r /\ pc'[w] \in Holding)
    BY <1>0, <2>1, RunnersSplit
  <2>3. proc # "down"
    BY <1>0 DEF ManagerInv, LifeInv
  <2>4. r \in Tables => loop = "initial"
    BY <1>0 DEF ManagerInv, LifeInv
  <2> QED BY <1>0, <2>2, <2>3, <2>4 DEF ManagerInv, LifeInv
<1>4. SlotsInv'
  <2>1. Holders' = Holders
    BY <1>0, RunnersSplit DEF Holders, Holding
  <2> QED BY <1>0, <2>1 DEF ManagerInv, SlotsInv
<1>5. FlagInv'
  <2> USE DEF ManagerInv, FlagInv, FlagsSettle, Types
  <2>1. CASE Mark(r)
    <3>1. Flag(At(r), TRUE) /\ pc'[r] = "chunk"
      BY <2>1 DEF Mark
    <3> SUFFICES ASSUME NEW t \in Tables, isRunning'[t]
                 PROVE  /\ t \in tracked
                        /\ \/ \E x \in Runners : At(x)' = t /\ pc'[x] \in {"chunk", "unmark"}
                           \/ loop = "marked" /\ Head(turn) = t
      BY <1>0
    <3>2. CASE t = At(r) /\ t \in tracked
      BY <1>1, <3>1, <3>2
    <3>3. CASE isRunning[t]
      BY <1>0, <1>1, <3>1, <3>3
    <3> QED BY <1>1, <3>1, <3>2, <3>3, FlagType
  <2>2. CASE Chunk(r)
    BY <1>0, <1>1, <2>2 DEF Chunk, flagVars
  <2>3. CASE Unmark(r)
    <3>1. Flag(At(r), FALSE)
      BY <2>3 DEF Unmark
    <3>2. ~isRunning'[At(r)]
      BY <1>1, <3>1, FlagType
    <3>3. \A t \in Tables : isRunning'[t] => t # At(r) /\ isRunning[t]
      BY <1>1, <3>1, <3>2, FlagType
    <3> QED BY <1>0, <1>1, <3>3
  <2> QED BY <2>1, <2>2, <2>3 DEF PassStep
<1>6. StatusInv'
  BY <1>0 DEF ManagerInv, StatusInv
<1>7. ListInv'
  <2>1. \A c \in Callers : pc'[c] \in {"lock", "append"} => pc'[c] = pc[c]
    BY <1>0, RunnersSplit
  <2> QED BY <1>0, <2>1 DEF ManagerInv, ListInv, ListedOnce, Elems
<1> QED BY <1>2, <1>3, <1>4, <1>5, <1>6, <1>7 DEF ManagerInv

\* A worker takes a slot and gives it back.
LEMMA InvSlot ==
  ASSUME ManagerInv, NEW w \in Tables, Acquire(w) \/ Release(w) PROVE ManagerInv'
<1> USE DEF Acquire, Release, schemaVars, listVars, flagVars, loopVars, opVars
<1>1. w \in Runners /\ \A x \in Runners : At(x)' = At(x)
  BY RunnersSplit DEF At
<1>2. Types'
  BY <1>1 DEF ManagerInv, Types, PassLabels
<1>3. LifeInv'
  <2>1. \A x \in Runners : x # w => pc'[x] = pc[x]
    BY DEF ManagerInv, Types
  <2>2. pc[w] # "idle" /\ pc'[w] \in {"idle", "mark"}
    BY <1>1 DEF ManagerInv, Types
  <2> QED BY <1>1, <2>1, <2>2, RunnersSplit DEF ManagerInv, LifeInv, Holding
<1>4. SlotsInv'
  <2>1. Holders \subseteq Tables /\ IsFiniteSet(Holders) /\ Cardinality(Holders) \in Nat
    BY ManagerAssumption, FS_Subset, FS_CardinalityType DEF Holders
  <2>2. CASE Acquire(w)
    <3>1. w \notin Holders /\ Holders' = Holders \cup {w}
      BY <2>2, <1>1, RunnersSplit DEF ManagerInv, Types, Holders, Holding
    <3>2. Cardinality(Holders') = Cardinality(Holders) + 1
      BY <2>1, <3>1, FS_AddElement
    <3> QED BY <2>1, <2>2, <3>2, ManagerAssumption DEF ManagerInv, SlotsInv
  <2>3. CASE Release(w)
    <3>1. w \in Holders /\ Holders' = Holders \ {w}
      BY <2>3, <1>1, RunnersSplit DEF ManagerInv, Types, Holders, Holding
    <3>2. Cardinality(Holders') = Cardinality(Holders) - 1
      BY <2>1, <3>1, FS_RemoveElement
    <3> QED BY <2>1, <2>3, <3>2, ManagerAssumption DEF ManagerInv, SlotsInv
  <2> QED BY <2>2, <2>3
<1>5. FlagInv'
  <2>1. \A x \in Runners : pc[x] \in {"chunk", "unmark"} => pc'[x] = pc[x]
    BY DEF ManagerInv, Types
  <2> QED BY <1>1, <2>1 DEF ManagerInv, FlagInv, FlagsSettle
<1>6. StatusInv'
  BY DEF ManagerInv, StatusInv
<1>7. ListInv'
  <2>1. \A c \in Callers : pc'[c] = pc[c]
    BY RunnersSplit DEF ManagerInv, Types
  <2> QED BY <2>1 DEF ManagerInv, ListInv, ListedOnce, Elems
<1> QED BY <1>2, <1>3, <1>4, <1>5, <1>6, <1>7 DEF ManagerInv

\* The loop spawns the workers, waits for them, ticks and leaves.
LEMMA InvTurns ==
  ASSUME ManagerInv, Spawn \/ InitialDone \/ Tick \/ LoopExit PROVE ManagerInv'
<1>0. /\ UNCHANGED <<pg, registry, proc, tables, tracked, isRunning, globalRunning,
                       stopClosed, sem, on, left, op, listed, upsets>>
      /\ loop \in {"start", "initial", "select"} /\ loop' \in {"none", "initial", "select", "visit"}
      /\ loop = "initial" => \A w \in Tables : pc[w] = "idle"
      /\ loop' = "none" => stopClosed
      /\ loop' = "initial" <=> loop = "start"
      /\ turn' \in {turn, tables}
  BY DEF Spawn, InitialDone, Tick, LoopExit, schemaVars, listVars, flagVars, passVars, opVars
<1>1. /\ \A w \in Tables : pc[w] = "idle"
      /\ \A w \in Tables : pc'[w] = "idle" \/ (pc'[w] = "queued" /\ loop' = "initial")
      /\ \A c \in Callers : pc'[c] = pc[c]
      /\ pc' \in [Runners -> PassLabels]
  <2>1. \A w \in Tables : pc[w] = "idle"
    BY <1>0 DEF ManagerInv, LifeInv
  <2>2. CASE pc' = pc
    <3>1. pc \in [Runners -> PassLabels]
      BY DEF ManagerInv, Types
    <3> QED BY <2>1, <2>2, <3>1
  <2>3. CASE Spawn
    <3>1. Elems(tables) \subseteq Tables
      BY DEF ManagerInv, Types, ListInv
    <3> QED BY <2>1, <2>3, <3>1, RunnersSplit DEF ManagerInv, Types, PassLabels, Spawn
  <2> QED BY <2>2, <2>3 DEF InitialDone, Tick, LoopExit, passVars
<1>2. Types'
  BY <1>0, <1>1 DEF ManagerInv, Types
<1>3. LifeInv'
  BY <1>0, <1>1, RunnersSplit DEF ManagerInv, Types, LifeInv
<1>4. SlotsInv'
  <2>1. Holders' = {} /\ Holders = {}
    BY <1>1 DEF Holders, Holding
  <2> QED BY <1>0, <2>1 DEF ManagerInv, SlotsInv
<1>5. FlagInv'
  <2>1. \A r \in Runners : pc[r] \in {"chunk", "unmark"} => pc'[r] = pc[r]
    BY <1>1, RunnersSplit
  <2> QED BY <1>0, <2>1 DEF ManagerInv, FlagInv, FlagsSettle, At
<1>6. StatusInv'
  BY <1>0 DEF ManagerInv, StatusInv
<1>7. ListInv'
  BY <1>0, <1>1 DEF ManagerInv, ListInv, ListedOnce, Elems
<1> QED BY <1>2, <1>3, <1>4, <1>5, <1>6, <1>7 DEF ManagerInv

\* The loop visits a table.
LEMMA InvVisit == ASSUME ManagerInv, Visit \/ Leave PROVE ManagerInv'
<1>0. /\ UNCHANGED <<pg, registry, proc, tables, tracked, globalRunning, stopClosed,
                       sem, pc, on, left, op, listed, upsets>>
      /\ loop \in {"visit", "marked"} /\ loop' \in {"select", "visit", "marked"}
  BY DEF Visit, Leave, schemaVars, listVars, passVars, opVars
<1>1. turn # <<>> => Head(turn) \in Tables /\ Tail(turn) \in Seq(Tables)
  BY HeadTailProperties DEF ManagerInv, Types
<1>2. Types'
  <2>1. isRunning' \in [Tables -> BOOLEAN]
    BY <1>1, FlagType DEF ManagerInv, Types, Visit, Leave
  <2>2. turn' \in Seq(Tables) /\ (loop' = "marked" => turn' # <<>>)
    BY <1>1 DEF ManagerInv, Types, Visit, Leave
  <2> QED BY <1>0, <2>1, <2>2 DEF ManagerInv, Types
<1>3. LifeInv'
  BY <1>0 DEF ManagerInv, Types, LifeInv
<1>4. SlotsInv'
  BY <1>0 DEF ManagerInv, SlotsInv, Holders
<1>5. FlagInv'
  <2> USE DEF ManagerInv, FlagInv, FlagsSettle
  <2>1. CASE UNCHANGED isRunning /\ loop = "visit"
    BY <1>0, <2>1 DEF At
  <2>2. CASE Leave
    <3>1. Head(turn) \in Tables /\ Flag(Head(turn), FALSE)
      BY <1>1, <2>2 DEF Types, Leave
    <3>2. \A t \in Tables : isRunning'[t] => t # Head(turn) /\ isRunning[t]
      BY <3>1, FlagType
    <3> QED BY <1>0, <3>2 DEF At
  <2>3. CASE turn # <<>> /\ Flag(Head(turn), TRUE) /\ loop = "visit" /\ loop' = "marked" /\ turn' = turn
    <3>1. \A t \in Tables : isRunning'[t] => isRunning[t] \/ (t = Head(turn) /\ t \in tracked)
      BY <1>1, <2>3, FlagType
    <3> QED BY <1>0, <2>3, <3>1 DEF At
  <2> QED BY <2>1, <2>2, <2>3 DEF Visit
<1>6. StatusInv'
  BY <1>0 DEF ManagerInv, StatusInv
<1>7. ListInv'
  BY <1>0 DEF ManagerInv, ListInv, ListedOnce, Elems
<1> QED BY <1>2, <1>3, <1>4, <1>5, <1>6, <1>7 DEF ManagerInv

\* TriggerTableSync up to its pass: only Register touches the list, alone and for a
\* table that is not on it.
LEMMA InvCaller ==
  ASSUME ManagerInv, NEW c \in Callers,
         Lookup(c) \/ Lock(c) \/ Register(c) \/ \E t \in Tables : Trigger(c, t)
  PROVE  ManagerInv'
<1>0. /\ UNCHANGED <<pg, proc, isRunning, globalRunning, stopClosed, loop, turn, sem, left,
                       op, listed>>
      /\ c \in Runners /\ c \notin Tables
      /\ pc[c] \in {"idle", "lookup", "lock", "append"} /\ pc' \in [Runners -> PassLabels]
      /\ pc'[c] \in {"idle", "lookup", "lock", "append", "mark"}
      /\ \A x \in Runners : x # c => pc'[x] = pc[x]
      /\ on' \in [Callers -> Tables] /\ \A d \in Callers : d # c => on'[d] = on[d]
      /\ proc # "down"
  <2>1. c \in Runners /\ c \notin Tables
    BY RunnersSplit
  <2>2. proc # "down"
    BY <2>1 DEF ManagerInv, LifeInv, Lookup, Lock, Register, Trigger
  <2> QED BY <2>1, <2>2 DEF ManagerInv, Types, PassLabels, Lookup, Lock, Register, Trigger,
                            schemaVars, listVars, flagVars, loopVars, opVars
<1>1. /\ registry \subseteq registry' /\ registry' \subseteq pg
      /\ tracked \subseteq tracked' /\ tracked' \subseteq Tables
      /\ tables' \in Seq(Tables)
  <2>1. /\ on[c] \in Tables /\ registry \subseteq pg
        /\ tracked \subseteq Tables /\ tables \in Seq(Tables)
    BY DEF ManagerInv, Types
  <2>2. CASE Lookup(c)
    BY <2>1, <2>2 DEF Lookup, listVars
  <2>3. CASE Register(c)
    BY <2>1, <2>3, AppendProperties DEF Register, schemaVars
  <2> QED BY <2>1, <2>2, <2>3 DEF Lock, Trigger, schemaVars, listVars
<1>2. Types'
  <2>1. upsets' \in 0..MaxTroubles
    BY ManagerAssumption DEF ManagerInv, Types, Lookup, Lock, Register, Trigger, Upset, Calm
  <2> QED BY <1>0, <1>1, <2>1 DEF ManagerInv, Types
<1>3. LifeInv'
  BY <1>0, RunnersSplit DEF ManagerInv, LifeInv
<1>4. SlotsInv'
  <2>1. Holders' = Holders
    BY <1>0, RunnersSplit DEF Holders
  <2> QED BY <1>0, <2>1 DEF ManagerInv, SlotsInv
<1>5. FlagInv'
  <2>1. \A x \in Runners : pc[x] \in {"chunk", "unmark"} => pc'[x] = pc[x] /\ At(x)' = At(x)
    BY <1>0, RunnersSplit DEF At
  <2> QED BY <1>0, <1>1, <2>1 DEF ManagerInv, FlagInv, FlagsSettle
<1>6. StatusInv'
  BY <1>0 DEF ManagerInv, StatusInv
<1>7. ListInv'
  <2>1. CASE Register(c)
    <3> DEFINE n == Len(tables)
    <3>1. /\ on[c] \in Tables \ tracked /\ on[c] \in registry /\ tables \in Seq(Tables) /\ n \in Nat
          /\ \A i \in 1..n : tables[i] \in tracked
      BY <2>1, LenProperties DEF ManagerInv, Types, ListInv, Register, Elems
    <3>2. /\ tables' = Append(tables, on[c]) /\ tracked' = tracked \cup {on[c]}
          /\ pc'[c] = "mark" /\ UNCHANGED <<registry, on>>
      BY <2>1 DEF Register, schemaVars, ManagerInv, Types, Runners
    <3>3. /\ Len(tables') = n + 1 /\ tables'[n + 1] = on[c]
          /\ \A i \in 1..n : tables'[i] = tables[i]
      BY <3>1, <3>2, AppendProperties
    <3>4. \A i \in 1..(n + 1) : i \in 1..n \/ i = n + 1
      BY <3>1
    <3>5. ListedOnce'
      BY <3>1, <3>3, <3>4 DEF ManagerInv, ListInv, ListedOnce
    <3>6. Elems(tables)' = Elems(tables) \cup {on[c]}
      <4>1. \A i \in 1..n : i \in 1..(n + 1)
        BY <3>1
      <4>2. n + 1 \in 1..(n + 1)
        BY <3>1
      <4> QED BY <3>3, <3>4, <4>1, <4>2 DEF Elems
    <3>7. \A d \in Callers : pc'[d] # "append"
      BY <1>0, <2>1, <3>2, RunnersSplit DEF ManagerInv, ListInv, Register
    <3> QED BY <1>0, <3>1, <3>2, <3>5, <3>6, <3>7, RunnersSplit DEF ManagerInv, ListInv
  <2>2. CASE ~Register(c)
    <3>1. UNCHANGED <<tables, tracked>>
      BY <2>2 DEF Lookup, Lock, Trigger, listVars
    <3>2. pc'[c] \in {"lock", "append"} => on'[c] \in registry'
      BY <1>0, <2>2 DEF ManagerInv, Types, ListInv, Lookup, Lock, Trigger, schemaVars
    <3>3. pc'[c] = "append" => on'[c] \notin tracked /\ \A d \in Callers : pc[d] # "append"
      BY <1>0, <2>2 DEF ManagerInv, Types, Lookup, Lock, Trigger, Unlocked
    <3> QED BY <1>0, <1>1, <3>1, <3>2, <3>3, RunnersSplit DEF ManagerInv, ListInv, ListedOnce, Elems
  <2> QED BY <2>1, <2>2
<1> QED BY <1>2, <1>3, <1>4, <1>5, <1>6, <1>7 DEF ManagerInv

\* ManagerInv is inductive.
LEMMA InvInit == Init => ManagerInv
<1> SUFFICES ASSUME Init PROVE ManagerInv
  OBVIOUS
<1> USE DEF Init
<1>1. on0 \in [Callers -> Tables]
  BY ManagerAssumption DEF on0
<1>2. Types
  <2>1. pc \in [Runners -> PassLabels] /\ isRunning \in [Tables -> BOOLEAN]
    BY DEF PassLabels
  <2>2. left \in [Runners -> 0..MaxChunks] /\ upsets \in 0..MaxTroubles
    BY ManagerAssumption
  <2>3. tables \in Seq(Tables) /\ turn \in Seq(Tables)
    OBVIOUS
  <2>4. pg \subseteq Tables
    BY ManagerAssumption
  <2> QED BY <1>1, <2>1, <2>2, <2>3, <2>4 DEF Types
<1>3. LifeInv
  BY RunnersSplit DEF LifeInv
<1>4. SlotsInv
  <2>1. Holders = {}
    BY RunnersSplit DEF Holders, Holding
  <2> QED BY <2>1, FS_EmptySet, ManagerAssumption DEF SlotsInv
<1>5. FlagInv /\ StatusInv
  BY DEF FlagInv, FlagsSettle, StatusInv
<1>6. ListInv
  BY RunnersSplit DEF ListInv, ListedOnce, Elems
<1> QED BY <1>2, <1>3, <1>4, <1>5, <1>6 DEF ManagerInv

LEMMA InvNext == ManagerInv /\ [Next]_vars => ManagerInv'
<1> SUFFICES ASSUME ManagerInv, [Next]_vars PROVE ManagerInv'
  OBVIOUS
<1>1. CASE Boot
  BY <1>1, InvBoot
<1>2. CASE Stop \/ ClosePool \/ Restart \/ RestartWaited \/ \E t \in Tables : CreateTable(t)
  BY <1>2, InvLife
<1>3. CASE Exit \/ Crash \/ TornTick
  <2>1. Vanish /\ upsets' \in 0..MaxTroubles
    BY <1>3, ManagerAssumption DEF Exit, Crash, TornTick, Calm, Upset, ManagerInv, Types
  <2> QED BY <2>1, InvVanish
<1>4. CASE Relist
  BY <1>4, InvRelist
<1>5. CASE LoopStep
  BY <1>5, InvTurns, InvVisit DEF LoopStep
<1>6. ASSUME NEW w \in Tables, WorkerStep(w) PROVE ManagerInv'
  BY <1>6, InvPass, InvSlot, RunnersSplit DEF WorkerStep
<1>7. ASSUME NEW c \in Callers, CallerStep(c) \/ \E t \in Tables : Trigger(c, t) PROVE ManagerInv'
  BY <1>7, InvPass, InvCaller, RunnersSplit DEF CallerStep
<1>8. CASE UNCHANGED vars
  <2> USE <1>8 DEF vars, schemaVars, listVars, flagVars, loopVars, passVars, opVars
  <2>1. Types' /\ LifeInv'
    BY DEF ManagerInv, Types, LifeInv
  <2>2. SlotsInv' /\ StatusInv'
    BY DEF ManagerInv, SlotsInv, Holders, StatusInv
  <2>3. FlagInv'
    BY DEF ManagerInv, FlagInv, FlagsSettle, At
  <2>4. ListInv'
    BY DEF ManagerInv, ListInv, ListedOnce, Elems
  <2> QED BY <2>1, <2>2, <2>3, <2>4 DEF ManagerInv
<1> QED BY <1>1, <1>2, <1>3, <1>4, <1>5, <1>6, <1>7, <1>8 DEF Next

\* ManagerInv holds of every reachable state.
THEOREM ManagerInductive == Spec => []ManagerInv
<1> QED BY InvInit, InvNext, PTL DEF Spec

-----------------------------------------------------------------------------
\* The manager keeps its types, and no more workers than it has slots.
THEOREM ManagerTypeCorrect == Spec => []TypeOK
<1>1. ManagerInv => TypeOK
  <2> SUFFICES ASSUME ManagerInv PROVE sem \in 0..ParallelWorkers
    BY DEF ManagerInv, Types, TypeOK
  <2>1. Cardinality(Holders) \in Nat
    BY ManagerAssumption, FS_Subset, FS_CardinalityType DEF Holders
  <2> QED BY <2>1, ManagerAssumption DEF ManagerInv, SlotsInv
<1> QED BY <1>1, ManagerInductive, PTL

\* However many tables and slots there are, no more passes of the initial sync are at
\* work than there are slots.
THEOREM SemaphoreHolds == Spec => []WorkersBounded
<1>1. ManagerInv => WorkersBounded
  <2> DEFINE W == {w \in Tables : pc[w] \in {"mark", "chunk", "unmark"}}
  <2> SUFFICES ASSUME ManagerInv PROVE Cardinality(W) <= ParallelWorkers
    BY DEF WorkersBounded
  <2>1. IsFiniteSet(Holders) /\ Cardinality(Holders) \in Nat
    BY ManagerAssumption, FS_Subset, FS_CardinalityType DEF Holders
  <2>2. W \subseteq Holders
    BY DEF Holders, Holding
  <2>3. Cardinality(W) <= Cardinality(Holders) /\ Cardinality(W) \in Nat
    BY <2>1, <2>2, FS_Subset, FS_CardinalityType
  <2> QED BY <2>1, <2>3, ManagerAssumption DEF ManagerInv, SlotsInv
<1> QED BY <1>1, ManagerInductive, PTL

\* A table shown as running is being passed over, however its passes end and whoever
\* else passes over it.
THEOREM FlagsAreTaken == Spec => []FlagsSettle
<1>1. ManagerInv => FlagsSettle
  BY DEF ManagerInv, FlagInv
<1> QED BY <1>1, ManagerInductive, PTL

\* Neither two callers who ask for the same new table at once nor Restart puts a table
\* on the list twice.
THEOREM NeverListedTwice == Spec => []ListedOnce
<1>1. ManagerInv => ListedOnce
  BY DEF ManagerInv, ListInv
<1> QED BY <1>1, ManagerInductive, PTL

\* As long as nobody calls Restart, the list and the status map agree.
THEOREM ListAgrees == ASSUME ~WithRestart PROVE Spec => []TrackedOnce
<1>1. ManagerInv => TrackedOnce
  <2> SUFFICES ASSUME ManagerInv PROVE TrackedOnce
    OBVIOUS
  <2> DEFINE n == Len(tables)
  <2>1. tables \in Seq(Tables) /\ n \in Nat /\ Elems(tables) = tracked
    BY LenProperties DEF ManagerInv, Types, ListInv
  <2>2. tables \in [1..n -> tracked]
    BY <2>1, LenProperties DEF Elems
  <2>3. tables \in Bijection(1..n, tracked)
    BY <2>1, <2>2 DEF ManagerInv, ListInv, ListedOnce, Elems,
                      Bijection, Injection, Surjection, IsInjective
  <2>4. Cardinality(tracked) = n
    BY <2>1, <2>3, FS_CountingElements DEF ExistsBijection
  <2> QED BY <2>1, <2>4 DEF TrackedOnce
<1> QED BY <1>1, ManagerInductive, PTL

\* As long as nobody calls Restart, a manager that says it runs has a loop.
THEOREM StatusIsTrue == ASSUME ~WithRestart PROVE Spec => []StatusTruthful
<1>1. ManagerInv => StatusTruthful
  BY DEF ManagerInv, StatusInv, StatusTruthful
<1> QED BY <1>1, ManagerInductive, PTL

-----------------------------------------------------------------------------
(***************************************************************************)
(* The schedule of the passes.                                             *)
(***************************************************************************)
pass == [t \in Tables |-> passOf(t)]

\* A step that leaves the process, the loop and its turn alone and neither starts nor
\* ends a worker does not show.
LEMMA ScheduleKept ==
  ASSUME UNCHANGED <<proc, loop, turn>>,
         \A t \in Tables : pc'[t] = "idle" <=> pc[t] = "idle"
  PROVE  UNCHANGED Sched!schedVars
<1>1. \A t \in Tables : passOf(t)' = passOf(t)
  BY DEF passOf
<1> QED BY <1>1 DEF Sched!schedVars

\* The steps of the process.
LEMMA ScheduleLife ==
  ASSUME ManagerInv, ~WithRestart,
         \/ Boot \/ Stop \/ ClosePool \/ Vanish
         \/ \E t \in Tables : CreateTable(t)
         \/ Restart \/ RestartWaited \/ Relist
  PROVE  [Sched!SchedNext]_(Sched!schedVars)
<1> USE DEF Sched!SchedNext, Sched!schedVars
<1>1. CASE Boot
  <2>1. \A t \in Tables : loop = "none" /\ pc[t] = "idle" /\ pc'[t] = "idle" /\ loop' \in {"none", "start"}
    BY <1>1, RunnersSplit DEF Boot, StartLoop, passVars, ManagerInv, LifeInv
  <2>2. loop' = "start" => pass' \in [Tables -> {"chunk", "wait"}]
    BY DEF pass, passOf
  <2>3. loop' # "start" => pass' = pass
    BY <2>1 DEF pass, passOf
  <2> QED BY <1>1, <2>2, <2>3 DEF Boot, Sched!Launch, pass
<1>2. CASE Stop
  <2>1. /\ proc = "running" /\ proc' = "stopping"
        /\ UNCHANGED <<loop, turn, pc>>
    BY <1>2 DEF Stop, StopLoop, ManagerInv, StatusInv, loopVars, passVars
  <2> QED BY <2>1 DEF Sched!Halt, passOf
<1>3. CASE ClosePool
  BY <1>3 DEF ClosePool, Sched!Close, Sched!All, passOf, loopVars, passVars
<1>4. CASE Vanish
  BY <1>4 DEF Vanish, Sched!Die, passOf
<1>5. CASE \E t \in Tables : CreateTable(t)
  BY <1>5, ScheduleKept DEF CreateTable, loopVars, passVars
<1>6. CASE Restart \/ RestartWaited \/ Relist
  BY <1>6 DEF Restart, RestartWaited, Relist, ManagerInv, StatusInv
<1> QED BY <1>1, <1>2, <1>3, <1>4, <1>5, <1>6

\* The steps of the loop.
LEMMA ScheduleTurns ==
  ASSUME ManagerInv, ~WithRestart, LoopStep
  PROVE  [Sched!SchedNext]_(Sched!schedVars)
<1> USE DEF Sched!SchedNext, Sched!schedVars
<1>0. UNCHANGED proc /\ \A t \in Tables : loop # "initial" => pc[t] = "idle"
  BY DEF LoopStep, Spawn, InitialDone, Tick, Visit, Leave, LoopExit, ManagerInv, LifeInv
<1>1. CASE Spawn
  <2> DEFINE S == {t \in Tables : pc'[t] = "idle"}
  <2>1. \A t \in Tables : passOf(t) = "chunk" /\ passOf(t)' = IF t \in S THEN "wait" ELSE "chunk"
    BY <1>1 DEF Spawn, passOf
  <2>2. Sched!EndChunks
    BY <1>0, <2>1 DEF Sched!EndChunks
  <2> QED BY <2>2
<1>2. CASE InitialDone \/ Tick
  <2>1. \A t \in Tables : passOf(t) = "wait" /\ passOf(t)' = "wait"
    BY <1>0, <1>2 DEF InitialDone, Tick, passOf, passVars
  <2> QED BY <1>0, <2>1
<1>3. CASE Visit
  <2>1. /\ \A t \in Tables : passOf(t) = "wait" /\ pc'[t] = "idle"
        /\ loop' \in {"select", "visit"} \/ (loop' = "marked" /\ turn' = turn /\ turn # <<>>)
    BY <1>0, <1>3 DEF Visit, passOf, passVars
  <2>2. CASE loop' # "marked"
    <3>1. \A t \in Tables : passOf(t)' = "wait"
      BY <2>1, <2>2 DEF passOf
    <3> QED BY <1>0, <2>1, <3>1
  <2>3. CASE loop' = "marked"
    <3>1. Head(turn) \in Tables
      BY <2>1, <2>3, HeadTailProperties DEF ManagerInv, Types
    <3>2. \A t \in Tables : passOf(t)' = IF t = Head(turn) THEN "incr" ELSE "wait"
      BY <2>1, <2>3 DEF passOf
    <3>3. Sched!BeginIncremental
      BY <1>0, <2>1, <3>1, <3>2 DEF Sched!BeginIncremental, Sched!All
    <3> QED BY <3>3
  <2> QED BY <2>2, <2>3
<1>4. CASE Leave
  <2>1. Head(turn) \in Tables
    BY <1>4, HeadTailProperties DEF Leave, ManagerInv, Types
  <2>2. \A t \in Tables : passOf(t)' = "wait" /\ passOf(t) = IF t = Head(turn) THEN "incr" ELSE "wait"
    BY <1>0, <1>4 DEF Leave, passOf, passVars
  <2>3. Sched!EndIncremental
    BY <1>0, <2>1, <2>2 DEF Sched!EndIncremental
  <2> QED BY <2>3
<1>5. CASE LoopExit
  <2>1. \A t \in Tables : passOf(t) = "wait" /\ passOf(t)' = "none"
    BY <1>0, <1>5 DEF LoopExit, passOf
  <2>2. proc = "stopping"
    BY <1>5 DEF LoopExit, ManagerInv, StatusInv, LifeInv
  <2>3. Sched!Leave
    BY <1>0, <2>1, <2>2 DEF Sched!Leave, Sched!All
  <2> QED BY <2>3
<1> QED BY <1>1, <1>2, <1>3, <1>4, <1>5 DEF LoopStep

\* The steps of workers and callers: only a worker's last one shows.
LEMMA ScheduleRunners ==
  ASSUME ManagerInv,
         \/ \E w \in Tables : WorkerStep(w)
         \/ \E c \in Callers : CallerStep(c) \/ \E t \in Tables : Trigger(c, t)
  PROVE  [Sched!SchedNext]_(Sched!schedVars)
<1>0. pc \in [Runners -> PassLabels]
  BY DEF ManagerInv, Types
<1>1. ASSUME NEW c \in Callers, CallerStep(c) \/ \E t \in Tables : Trigger(c, t)
      PROVE  UNCHANGED Sched!schedVars
  <2>1. UNCHANGED <<proc, loop, turn>> /\ \A t \in Tables : pc'[t] = pc[t]
    BY <1>0, <1>1, RunnersSplit
       DEF CallerStep, PassStep, Mark, Chunk, Unmark, Lookup, Lock, Register, Trigger, loopVars
  <2> QED BY <2>1, ScheduleKept
<1>2. ASSUME NEW w \in Tables, Acquire(w) \/ PassStep(w) PROVE UNCHANGED Sched!schedVars
  <2>1. /\ UNCHANGED <<proc, loop, turn>>
        /\ \A t \in Tables : pc'[t] = pc[t] \/ (pc[t] # "idle" /\ pc'[t] # "idle")
    BY <1>0, <1>2, RunnersSplit DEF Acquire, PassStep, Mark, Chunk, Unmark, loopVars
  <2> QED BY <2>1, ScheduleKept
<1>3. ASSUME NEW w \in Tables, Release(w) PROVE Sched!EndChunks
  <2>1. UNCHANGED <<proc, loop, turn>> /\ pc[w] # "idle" /\ pc' = [pc EXCEPT ![w] = "idle"]
    BY <1>3 DEF Release, loopVars
  <2>2. loop = "initial"
    BY <2>1 DEF ManagerInv, LifeInv
  <2>3. \A t \in Tables : passOf(t)' = IF t \in {w} THEN "wait" ELSE passOf(t)
    BY <1>0, <2>1, <2>2, RunnersSplit DEF passOf
  <2>4. passOf(w) = "chunk"
    BY <2>1, <2>2 DEF passOf
  <2> QED BY <2>1, <2>3, <2>4 DEF Sched!EndChunks
<1> QED BY <1>1, <1>2, <1>3 DEF WorkerStep, Sched!SchedNext

\* For any number of tables, callers and slots: without Restart the manager gives every
\* table the schedule of TableSchedule, and so what CdcTable assumes of its loop.
THEOREM ManagerImplementsSchedule == ASSUME ~WithRestart PROVE Spec => ImplementsSchedule
<1>1. Init => Sched!SchedInit
  BY DEF Init, Sched!SchedInit, Sched!All, passOf
<1>2. ManagerInv /\ [Next]_vars => [Sched!SchedNext]_(Sched!schedVars)
  <2> SUFFICES ASSUME ManagerInv, [Next]_vars PROVE [Sched!SchedNext]_(Sched!schedVars)
    OBVIOUS
  <2>1. CASE UNCHANGED vars
    BY <2>1, ScheduleKept DEF vars, loopVars, passVars
  <2>2. CASE Next
    BY <2>2, ScheduleLife, ScheduleTurns, ScheduleRunners DEF Next, Exit, Crash, TornTick
  <2> QED BY <2>1, <2>2
<1> QED BY <1>1, <1>2, ManagerInductive, PTL DEF Spec, ImplementsSchedule, Sched!SchedSpec

=============================================================================

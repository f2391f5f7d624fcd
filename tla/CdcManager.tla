----------------------------- MODULE CdcManager -----------------------------
(***************************************************************************)
(* The control plane of internal/clickhouse/cdc.go: which tables are       *)
(* tracked, which goroutine passes over which table when, and how the      *)
(* whole is started, stopped and restarted.  What a pass does to its table *)
(* is CdcTable's business; here a pass marks the table as running, goes    *)
(* through some chunks, looking at stopChan before each, and unmarks it.   *)
(*                                                                         *)
(* Goroutines: the loop (syncLoop), one worker per table during the        *)
(* initial sync (parallelInitialSync, bounded by a semaphore), callers of  *)
(* TriggerTableSync (the file pipeline, and the handler ReindexEntities,   *)
(* to which main gives no route), and, where the constant allows it,       *)
(* somebody who calls Restart.                                             *)
(***************************************************************************)
EXTENDS Naturals, Sequences, FiniteSets

CONSTANTS
  Tables,           \* names of PostgreSQL tables
  Preloaded,        \* those that exist before the first start
  Excluded,         \* cdcExcludedTables
  Keyless,          \* tables without a primary key
  Callers,          \* goroutines that call TriggerTableSync
  ParallelWorkers,  \* CDCConfig.ParallelWorkers
  MaxChunks,        \* chunks of a pass (a bound)
  WithRestart,      \* may Restart be called
  Troubles,         \* what may go wrong, see Kinds
  MaxTroubles       \* how many times in a behaviour (a bound)

Kinds == { "ddl",      \* ensureGlobalTables fails
           "catalog",  \* registry.AddTable fails
           "torn",     \* the unlocked read of m.tables meets an append
           "crash" }   \* the process dies

ASSUME ManagerAssumption ==
  /\ IsFiniteSet(Tables) /\ Tables \cap Callers = {} /\ (Tables # {} \/ Callers = {})
  /\ Preloaded \subseteq Tables /\ Excluded \subseteq Tables /\ Keyless \subseteq Tables
  /\ ParallelWorkers \in Nat \ {0} /\ MaxChunks \in Nat /\ MaxTroubles \in Nat
  /\ Troubles \subseteq Kinds /\ WithRestart \in BOOLEAN

VARIABLES
  pg,             \* tables that exist in PostgreSQL
  registry,       \* tables the SchemaRegistry knows
  proc,           \* "down", "running", "stopping", "closed"
  tables,         \* m.tables
  tracked,        \* keys of m.tableStatus
  isRunning,      \* m.tableStatus[t].IsRunning
  globalRunning,  \* m.globalStatus.IsRunning
  stopClosed,     \* m.stopChan is closed
  loop,           \* syncLoop: "none", "start", "initial", "select", "visit", "marked"
  turn,           \* tables the loop has still to visit on this tick
  sem,            \* slots of the semaphore in use
  pc,             \* of workers (named by their tables) and callers
  on,             \* the table a caller has asked for
  left,           \* chunks a pass still has to do, at most
  op,             \* Restart: "idle", "wait", "relist"
  listed,         \* the tables Restart has read from the registry
  upsets          \* troubles so far

schemaVars == <<pg, registry>>
flagVars   == <<isRunning, globalRunning>>
listVars   == <<tables, tracked>>
loopVars   == <<loop, turn>>
passVars   == <<sem, pc, on, left>>
opVars     == <<op, listed>>
vars == <<schemaVars, proc, listVars, flagVars, stopClosed, loopVars, passVars, opVars, upsets>>

Runners == Tables \cup Callers
At(r)   == IF r \in Tables THEN r ELSE on[r]
Elems(s) == {s[i] : i \in 1..Len(s)}

on0      == [c \in Callers |-> CHOOSE t \in Tables : TRUE]    \* nothing asked for yet

\* Every order of a set: GetAllTables ranges over a map.
Orders(S) == {s \in [1..Cardinality(S) -> S] : Elems(s) = S}

\* k goes wrong once more, if it may.
Upset(k) == k \in Troubles /\ upsets < MaxTroubles /\ upsets' = upsets + 1
Calm     == UNCHANGED upsets

\* m.mu is free: nobody is inside the critical section of TriggerTableSync.
Unlocked == \A c \in Callers : pc[c] # "append"

Init ==
  /\ pg = Preloaded /\ registry = {} /\ proc = "down"
  /\ tables = <<>> /\ tracked = {}
  /\ isRunning = [t \in Tables |-> FALSE] /\ globalRunning = FALSE /\ stopClosed = FALSE
  /\ loop = "none" /\ turn = <<>> /\ sem = 0
  /\ pc = [r \in Runners |-> "idle"] /\ on = on0
  /\ left = [r \in Runners |-> 0]
  /\ op = "idle" /\ listed = {} /\ upsets = 0

(***************************************************************************)
(* Life and death of the process.                                          *)
(***************************************************************************)

\* FileLoader.createTable, or anyone: a table appears in PostgreSQL.
CreateTable(t) ==
  /\ t \notin pg /\ pg' = pg \cup {t}
  /\ UNCHANGED <<registry, proc, listVars, flagVars, stopClosed, loopVars, passVars, opVars, upsets>>

\* CDCManager.Start: no loop without tables, nor without the global tables.
StartLoop(names) ==
  \/ /\ names # <<>> /\ Calm
     /\ globalRunning' = TRUE /\ loop' = "start"
  \/ /\ IF names = <<>> THEN Calm ELSE Upset("ddl")
     /\ UNCHANGED <<globalRunning, loop>>

\* main: LoadSchema, NewCDCManager and Start.
Boot ==
  /\ proc = "down" /\ proc' = "running"
  /\ registry' = pg
  /\ tables' \in Orders(pg \ Excluded)
  /\ tracked' = pg \ Excluded
  /\ StartLoop(tables')
  /\ UNCHANGED <<pg, isRunning, stopClosed, turn, passVars, opVars>>

\* The process is gone, and everything it held in memory.
Vanish ==
  /\ proc' = "down" /\ registry' = {} /\ tables' = <<>> /\ tracked' = {}
  /\ isRunning' = [t \in Tables |-> FALSE] /\ globalRunning' = FALSE /\ stopClosed' = FALSE
  /\ loop' = "none" /\ turn' = <<>> /\ sem' = 0
  /\ pc' = [r \in Runners |-> "idle"] /\ left' = [r \in Runners |-> 0] /\ on' = on0
  /\ op' = "idle" /\ listed' = {}
  /\ UNCHANGED pg

\* Mistake: the status is not updated.
StopLoop_KeepsStatus(next) ==
  \/ /\ ~stopClosed /\ stopClosed' = TRUE
     /\ proc' = next
     /\ UNCHANGED <<schemaVars, listVars, flagVars, loopVars, passVars>>
  \/ stopClosed /\ Vanish

\* CDCManager.Stop up to its wait.  Closing a closed channel panics.
StopLoop(next) ==
  \/ /\ ~stopClosed /\ stopClosed' = TRUE /\ globalRunning' = FALSE
     /\ proc' = next
     /\ UNCHANGED <<schemaVars, listVars, isRunning, loopVars, passVars>>
  \/ stopClosed /\ Vanish

\* SIGTERM.  It is taken not to arrive while Restart is at work.
Stop ==
  /\ proc = "running" /\ op = "idle" /\ Unlocked
  /\ StopLoop("stopping")
  /\ op' = "idle" /\ listed' = {} /\ Calm

\* Mistake: the pool is closed without waiting for the loop.
ClosePool_NoWait ==
  /\ proc = "stopping"
  /\ proc' = "closed"
  /\ UNCHANGED <<schemaVars, listVars, flagVars, stopClosed, loopVars, passVars, opVars, upsets>>

\* wg.Wait returns once syncLoop has left; then main closes the ClickHouse pool.
ClosePool ==
  /\ proc = "stopping" /\ loop = "none"
  /\ proc' = "closed"
  /\ UNCHANGED <<schemaVars, listVars, flagVars, stopClosed, loopVars, passVars, opVars, upsets>>

Exit  == proc = "closed" /\ Vanish /\ Calm
Crash == proc # "down" /\ Vanish /\ Upset("crash")

(***************************************************************************)
(* A chunked pass (syncTableChunked) by a worker or a caller.              *)
(***************************************************************************)

\* updateTableStatus: nothing happens for a table that is not tracked.
Flag(t, b) == IF t \in tracked THEN isRunning' = [isRunning EXCEPT ![t] = b]
                               ELSE UNCHANGED isRunning

\* The pass is under way; tables that are unknown or have no key, and a closed pool,
\* end it before its first chunk.
Mark(r) ==
  /\ pc[r] = "mark" /\ Unlocked
  /\ Flag(At(r), TRUE)
  /\ pc' = [pc EXCEPT ![r] = "chunk"]
  /\ \E n \in 0..MaxChunks :
       /\ At(r) \notin registry \/ At(r) \in Keyless \/ proc = "closed" => n = 0
       /\ left' = [left EXCEPT ![r] = n]
  /\ UNCHANGED <<schemaVars, proc, listVars, globalRunning, stopClosed, loopVars, sem, on, opVars, upsets>>

\* One turn of the chunk loop: a closed stopChan, an exhausted range or a chunk that
\* ended in the dead letter ends the pass.
Chunk(r) ==
  /\ pc[r] = "chunk"
  /\ IF stopClosed \/ left[r] = 0
       THEN pc' = [pc EXCEPT ![r] = "unmark"] /\ UNCHANGED left
       ELSE /\ \E n \in 0..(left[r] - 1) : left' = [left EXCEPT ![r] = n]
            /\ UNCHANGED pc
  /\ UNCHANGED <<schemaVars, proc, listVars, flagVars, stopClosed, loopVars, sem, on, opVars, upsets>>

\* Mistake: a pass that was stopped returns without its deferred update.
Unmark_NotWhenStopped(r) ==
  /\ pc[r] = "unmark" /\ Unlocked
  /\ IF stopClosed THEN UNCHANGED isRunning ELSE Flag(At(r), FALSE)
  /\ pc' = [pc EXCEPT ![r] = IF r \in Tables THEN "release" ELSE "idle"]
  /\ left' = [left EXCEPT ![r] = 0]
  /\ UNCHANGED <<schemaVars, proc, listVars, globalRunning, stopClosed, loopVars, sem, on, opVars, upsets>>

\* The deferred update; a caller returns, a worker still holds its slot.
Unmark(r) ==
  /\ pc[r] = "unmark" /\ Unlocked
  /\ Flag(At(r), FALSE)
  /\ pc' = [pc EXCEPT ![r] = IF r \in Tables THEN "release" ELSE "idle"]
  /\ left' = [left EXCEPT ![r] = 0]
  /\ UNCHANGED <<schemaVars, proc, listVars, globalRunning, stopClosed, loopVars, sem, on, opVars, upsets>>

(***************************************************************************)
(* The loop: parallelInitialSync, then a visit of every table per tick.    *)
(***************************************************************************)

Spawn ==
  /\ loop = "start" /\ loop' = "initial"
  /\ pc' = [r \in Runners |-> IF r \in Elems(tables) THEN "queued" ELSE pc[r]]
  /\ UNCHANGED <<schemaVars, proc, listVars, flagVars, stopClosed, turn, sem, on, left, opVars, upsets>>

\* Mistake: the worker starts without a slot.
Acquire_NoSlot(w) ==
  /\ pc[w] = "queued" /\ sem' = sem + 1
  /\ pc' = [pc EXCEPT ![w] = "mark"]
  /\ UNCHANGED <<schemaVars, proc, listVars, flagVars, stopClosed, loopVars, on, left, opVars, upsets>>

Acquire(w) ==
  /\ pc[w] = "queued" /\ sem < ParallelWorkers /\ sem' = sem + 1
  /\ pc' = [pc EXCEPT ![w] = "mark"]
  /\ UNCHANGED <<schemaVars, proc, listVars, flagVars, stopClosed, loopVars, on, left, opVars, upsets>>

\* Mistake: a stopped worker keeps its slot.
Release_Leaks(w) ==
  /\ pc[w] = "release" /\ sem' = (IF stopClosed THEN sem ELSE sem - 1)
  /\ pc' = [pc EXCEPT ![w] = "idle"]
  /\ UNCHANGED <<schemaVars, proc, listVars, flagVars, stopClosed, loopVars, on, left, opVars, upsets>>

Release(w) ==
  /\ pc[w] = "release" /\ sem' = sem - 1
  /\ pc' = [pc EXCEPT ![w] = "idle"]
  /\ UNCHANGED <<schemaVars, proc, listVars, flagVars, stopClosed, loopVars, on, left, opVars, upsets>>

\* Mistake: incremental mode begins while workers are still at it.
InitialDone_Early ==
  /\ loop = "initial"
  /\ loop' = "select"
  /\ UNCHANGED <<schemaVars, proc, listVars, flagVars, stopClosed, turn, passVars, opVars, upsets>>

\* The inner wg.Wait.
InitialDone ==
  /\ loop = "initial" /\ \A w \in Tables : pc[w] = "idle"
  /\ loop' = "select"
  /\ UNCHANGED <<schemaVars, proc, listVars, flagVars, stopClosed, turn, passVars, opVars, upsets>>

\* Mistake: only the tables known when the registry was loaded are visited.
Tick_OldTables ==
  /\ loop = "select" /\ loop' = "visit"
  /\ turn' = SelectSeq(tables, LAMBDA t : t \in Preloaded)
  /\ UNCHANGED <<schemaVars, proc, listVars, flagVars, stopClosed, passVars, opVars, upsets>>

\* The ticker fires: range m.tables, read without m.mu.
Tick ==
  /\ loop = "select" /\ loop' = "visit"
  /\ turn' = tables
  /\ UNCHANGED <<schemaVars, proc, listVars, flagVars, stopClosed, passVars, opVars, upsets>>

\* That read races with the append of TriggerTableSync.  A torn slice header (old
\* array, new length) makes the loop read a string beyond the array: the process dies.
TornTick == loop = "select" /\ ~Unlocked /\ Vanish /\ Upset("torn")

\* incrementalSync of the next table; without a known key it returns before it marks.
Visit ==
  /\ loop = "visit"
  /\ \/ turn = <<>> /\ loop' = "select" /\ UNCHANGED <<turn, isRunning>>
     \/ /\ turn # <<>> /\ Head(turn) \in registry \ Keyless /\ Unlocked
        /\ Flag(Head(turn), TRUE)
        /\ loop' = "marked" /\ UNCHANGED turn
     \/ /\ turn # <<>> /\ Head(turn) \notin registry \ Keyless
        /\ turn' = Tail(turn) /\ UNCHANGED <<loop, isRunning>>
  /\ UNCHANGED <<schemaVars, proc, listVars, globalRunning, stopClosed, passVars, opVars, upsets>>

\* The incremental pass is over.
Leave ==
  /\ loop = "marked" /\ Unlocked
  /\ Flag(Head(turn), FALSE)
  /\ turn' = Tail(turn) /\ loop' = "visit"
  /\ UNCHANGED <<schemaVars, proc, listVars, globalRunning, stopClosed, passVars, opVars, upsets>>

\* stopChan is closed: syncLoop returns.
LoopExit ==
  /\ loop = "select" /\ stopClosed
  /\ loop' = "none"
  /\ UNCHANGED <<schemaVars, proc, listVars, flagVars, stopClosed, turn, passVars, opVars, upsets>>

(***************************************************************************)
(* TriggerTableSync.                                                       *)
(***************************************************************************)

\* Refused once the pool is closed.
Trigger(c, t) ==
  /\ pc[c] = "idle" /\ proc \in {"running", "stopping"}
  /\ on' = [on EXCEPT ![c] = t]
  /\ pc' = [pc EXCEPT ![c] = "lookup"]
  /\ UNCHANGED <<schemaVars, proc, listVars, flagVars, stopClosed, loopVars, sem, left, opVars, upsets>>

\* Mistake: a table that is not found is looked for until it appears.
Lookup_Forever(c) ==
  /\ pc[c] = "lookup" /\ Calm
  /\ \/ on[c] \in registry /\ UNCHANGED registry
     \/ on[c] \in pg \ registry /\ registry' = registry \cup {on[c]}
  /\ pc' = [pc EXCEPT ![c] = "lock"]
  /\ UNCHANGED <<pg, proc, listVars, flagVars, stopClosed, loopVars, sem, on, left, opVars>>

\* registry.GetTable, and AddTable for a table it does not know.
Lookup(c) ==
  /\ pc[c] = "lookup"
  /\ \/ /\ on[c] \in registry /\ Calm
        /\ UNCHANGED registry /\ pc' = [pc EXCEPT ![c] = "lock"]
     \/ /\ on[c] \in pg \ registry /\ Calm
        /\ registry' = registry \cup {on[c]} /\ pc' = [pc EXCEPT ![c] = "lock"]
     \/ /\ on[c] \notin registry
        /\ IF on[c] \in pg THEN Upset("catalog") ELSE Calm
        /\ UNCHANGED registry /\ pc' = [pc EXCEPT ![c] = "idle"]
  /\ UNCHANGED <<pg, proc, listVars, flagVars, stopClosed, loopVars, sem, on, left, opVars>>

\* Mistake: the map is consulted before the lock is taken.
Lock_CheckFirst(c) ==
  /\ pc[c] = "lock"
  /\ pc' = [pc EXCEPT ![c] = IF on[c] \in tracked THEN "mark" ELSE "append"]
  /\ UNCHANGED <<schemaVars, proc, listVars, flagVars, stopClosed, loopVars, sem, on, left, opVars, upsets>>

\* m.mu.Lock, and the look into m.tableStatus.
Lock(c) ==
  /\ pc[c] = "lock" /\ Unlocked
  /\ pc' = [pc EXCEPT ![c] = IF on[c] \in tracked THEN "mark" ELSE "append"]
  /\ UNCHANGED <<schemaVars, proc, listVars, flagVars, stopClosed, loopVars, sem, on, left, opVars, upsets>>

\* The table is tracked from now on; m.mu.Unlock.
Register(c) ==
  /\ pc[c] = "append"
  /\ tracked' = tracked \cup {on[c]} /\ tables' = Append(tables, on[c])
  /\ pc' = [pc EXCEPT ![c] = "mark"]
  /\ UNCHANGED <<schemaVars, proc, flagVars, stopClosed, loopVars, sem, on, left, opVars, upsets>>

(***************************************************************************)
(* Restart (nothing in the repository calls it).                           *)
(***************************************************************************)

\* With the loop running: Stop.  The registry is read before m.mu is taken.
Restart ==
  /\ WithRestart /\ op = "idle" /\ proc = "running" /\ Unlocked
  /\ \/ /\ globalRunning /\ StopLoop("running")
        /\ op' = (IF stopClosed THEN "idle" ELSE "wait") /\ listed' = {}
     \/ /\ ~globalRunning /\ op' = "relist" /\ listed' = registry
        /\ UNCHANGED <<schemaVars, proc, listVars, flagVars, stopClosed, loopVars, passVars>>
  /\ Calm

\* Stop's wg.Wait has returned, the registry is read.
RestartWaited ==
  /\ op = "wait" /\ loop = "none" /\ proc = "running"
  /\ op' = "relist" /\ listed' = registry
  /\ UNCHANGED <<schemaVars, proc, listVars, flagVars, stopClosed, loopVars, passVars, upsets>>

\* Mistake: every table of the registry is appended to the list.
Relist_Appends ==
  /\ op = "relist" /\ proc = "running" /\ Unlocked
  /\ \E order \in Orders(listed) : tables' = tables \o order
  /\ tracked' = tracked \cup listed
  /\ StartLoop(tables')
  /\ op' = "idle" /\ listed' = {}
  /\ UNCHANGED <<schemaVars, proc, isRunning, stopClosed, turn, passVars>>

\* The list is replaced, excluded tables and all, the status map only grows; then
\* Start.  stopChan is not made anew.
Relist ==
  /\ op = "relist" /\ proc = "running" /\ Unlocked
  /\ tables' \in Orders(listed)
  /\ tracked' = tracked \cup listed
  /\ StartLoop(tables')
  /\ op' = "idle" /\ listed' = {}
  /\ UNCHANGED <<schemaVars, proc, isRunning, stopClosed, turn, passVars>>

-----------------------------------------------------------------------------
PassStep(r) == Mark(r) \/ Chunk(r) \/ Unmark(r)
WorkerStep(w) == Acquire(w) \/ PassStep(w) \/ Release(w)
CallerStep(c) == Lookup(c) \/ Lock(c) \/ Register(c) \/ PassStep(c)
LoopStep == Spawn \/ InitialDone \/ Tick \/ Visit \/ Leave \/ LoopExit

Next ==
  \/ Boot \/ Stop \/ ClosePool \/ Exit \/ Crash
  \/ \E t \in Tables : CreateTable(t) \/ WorkerStep(t)
  \/ \E c \in Callers : CallerStep(c) \/ \E t \in Tables : Trigger(c, t)
  \/ LoopStep \/ TornTick
  \/ Restart \/ RestartWaited \/ Relist

Spec == Init /\ [][Next]_vars
\* Goroutines are scheduled, critical sections are left, passes end, main goes on with
\* its shutdown, and select, which picks at random, does not prefer the ticker for
\* ever.  Nothing makes anyone start the process or ask for a sync.
Fairness ==
  /\ WF_vars(LoopStep) /\ SF_vars(LoopExit)
  /\ \A r \in Runners : WF_vars(PassStep(r))
  /\ \A w \in Tables : SF_vars(Acquire(w)) /\ WF_vars(Release(w))
  /\ \A c \in Callers : WF_vars(Lookup(c)) /\ SF_vars(Lock(c)) /\ WF_vars(Register(c))
  /\ WF_vars(ClosePool) /\ WF_vars(Exit)
  /\ WF_vars(RestartWaited) /\ SF_vars(Relist)

FairSpec == Spec /\ Fairness

(***************************************************************************)
(* Properties.                                                             *)
(***************************************************************************)

PassLabels == {"idle", "queued", "lookup", "lock", "append", "mark", "chunk", "unmark", "release"}

\* The type invariant of the manager.
TypeOK ==
  /\ pg \subseteq Tables /\ registry \subseteq pg
  /\ proc \in {"down", "running", "stopping", "closed"}
  /\ tables \in Seq(Tables) /\ tracked \subseteq Tables
  /\ isRunning \in [Tables -> BOOLEAN] /\ globalRunning \in BOOLEAN /\ stopClosed \in BOOLEAN
  /\ loop \in {"none", "start", "initial", "select", "visit", "marked"}
  /\ turn \in Seq(Tables) /\ (loop = "marked" => turn # <<>>)
  /\ sem \in 0..ParallelWorkers
  /\ pc \in [Runners -> PassLabels] /\ on \in [Callers -> Tables]
  /\ left \in [Runners -> 0..MaxChunks]
  /\ op \in {"idle", "wait", "relist"} /\ listed \subseteq registry
  /\ upsets \in 0..MaxTroubles

\* m.tables and m.tableStatus agree and no table is listed twice (it would be copied
\* twice per tick), whoever asks for the same new table at the same time.
TrackedOnce == Cardinality(tracked) = Len(tables) /\ Elems(tables) = tracked

\* No table is listed twice, even when Restart replaces the list while somebody else
\* adds to it.  (TrackedOnce does not survive that: Restart's copy of the registry may
\* be older than the entry it overwrites.)
ListedOnce == \A i, j \in 1..Len(tables) : tables[i] = tables[j] => i = j

\* The initial sync keeps to its semaphore.
WorkersBounded ==
  Cardinality({w \in Tables : pc[w] \in {"mark", "chunk", "unmark"}}) <= ParallelWorkers

\* A status does not stay stuck: a table is shown as running only while some pass over
\* it is, whichever way the passes end.
FlagsSettle ==
  \A t \in Tables : isRunning[t] =>
    \/ \E r \in Runners : At(r) = t /\ pc[r] \in {"chunk", "unmark"}
    \/ loop = "marked" /\ Head(turn) = t

\* GET /api/cdc/status tells the truth about the loop.
StatusTruthful == globalRunning => loop # "none"

staysUp == <>[](proc = "running")

\* While the process stays up and nobody has called Stop or Restart, the loop visits
\* every tracked table again and again, those added after the start included.
VisitedForever ==
  staysUp => \A t \in Tables \ Keyless :
    [](t \in tracked /\ proc = "running"
       => <>((loop = "marked" /\ Head(turn) = t) \/ proc # "running" \/ stopClosed))

\* Stop's wg.Wait returns, whatever the loop, the workers and the callers are doing,
\* unless the process dies first.
StopReturns == proc = "stopping" ~> proc # "stopping"

\* Somebody who asks for a sync gets an answer.
TriggersReturn == \A c \in Callers : pc[c] # "idle" ~> pc[c] = "idle"

-----------------------------------------------------------------------------
\* The schedule of every table's passes by the loop.
passOf(t) ==
  IF loop = "none" THEN "none"
  ELSE IF loop = "start" \/ pc[t] # "idle" THEN "chunk"
  ELSE IF loop = "marked" /\ Head(turn) = t THEN "incr"
  ELSE "wait"

Sched == INSTANCE TableSchedule WITH pass <- [t \in Tables |-> passOf(t)]

\* The manager gives every table the schedule that CdcTable relies on: its initial
\* pass, and everybody else's, before any incremental one, one incremental pass at a
\* time, and no pass of the loop on a closed pool.
ImplementsSchedule == Sched!SchedSpec

=============================================================================

------------------------------ MODULE CdcTable ------------------------------
(***************************************************************************)
(* How one PostgreSQL table is copied into its ClickHouse search index by  *)
(* internal/clickhouse/cdc.go and SearchRepository.BulkIndex.              *)
(*                                                                         *)
(* Several goroutines may copy the same table at once: the CDC loop        *)
(* (syncLoop: one chunked pass after every start, then one incremental     *)
(* pass per tick) and any number of TriggerTableSync calls (chunked        *)
(* passes), which the file pipeline makes when it has loaded a file.  They *)
(* share only lastSyncedID[table], read and written under separate         *)
(* acquisitions of m.mu, and ClickHouse.                                   *)
(*                                                                         *)
(* A primary key is a number in 1..MaxId; a row's content is a version     *)
(* number, 0 meaning "no such row".  Every row is taken to have at least   *)
(* one searchable token, and one of its tokens stands for all of them.     *)
(*                                                                         *)
(* What may go wrong around the code is a constant, Disturbances, and      *)
(* MaxDisturbances bounds how often it does in one behaviour.              *)
(***************************************************************************)
EXTENDS Integers, FiniteSets

CONSTANTS
  Triggers,         \* goroutines that call TriggerTableSync
  Loop,             \* the goroutine of syncLoop
  MaxId,            \* largest primary key (a bound)
  MaxVersion,       \* largest content version (a bound)
  ChunkSize,        \* CDCConfig.ChunkSize
  BatchSize,        \* CDCConfig.BatchSize
  MaxRetries,       \* CDCConfig.MaxRetries
  PkIsBigint,       \* the key column decodes to a Go int64 (int8/bigserial)
  UpdatedAt,        \* the table has an updated_at column that every update bumps
  SoftDeleted,      \* keys of the rows whose is_deleted column is true
  Disturbances,     \* what the environment may do, see Kinds
  MaxDisturbances,  \* how many times in a behaviour (a bound)
  StatsCap          \* token statistics are counted up to here (a bound)

Kinds == { "query",       \* a PostgreSQL query fails
           "resume",      \* the query of loadCheckpoints fails
           "short",       \* a result stream breaks off (statement_timeout, lost connection)
           "send",        \* a ClickHouse batch is refused
           "ambiguous",   \* a batch is applied and the call still returns an error
           "ackloss",     \* a batch is acknowledged and lost (wait_for_async_insert = 0)
           "deadletter",  \* InsertDeadLetter fails
           "crash",       \* the process dies
           "stop",        \* SIGTERM: main's shutdown sequence
           "late",        \* a row commits below the highest committed key
           "update",      \* a committed row changes
           "delete" }     \* a committed row goes away

ASSUME ConstantsAssumption ==
  /\ Loop \notin Triggers
  /\ MaxId \in Nat \ {0} /\ MaxVersion \in Nat \ {0}
  /\ ChunkSize \in Nat \ {0} /\ BatchSize \in Nat \ {0} /\ MaxRetries \in Nat \ {0}
  /\ PkIsBigint \in BOOLEAN /\ UpdatedAt \in BOOLEAN
  /\ SoftDeleted \subseteq 1..MaxId
  /\ Disturbances \subseteq Kinds /\ MaxDisturbances \in Nat
  /\ StatsCap \in Nat \ {0}

Ids      == 1..MaxId
Threads  == Triggers \cup {Loop}
Content  == [Ids -> 0..MaxVersion]
NoRows   == [i \in Ids |-> 0]
RowsOf(c) == {i \in Ids : c[i] > 0}

VARIABLES
  row,         \* PostgreSQL: the committed version of every key
  proc,        \* "down", "running", "stopping" (stopChan closed), "closed" (pool closed)
  lastSynced,  \* m.lastSyncedID[table]
  \* per goroutine
  pc,          \* where it is
  frame,       \* its locals, see Frame
  \* ClickHouse
  idx,         \* search_<table>: the visible version of every key
  tokens,      \* keys whose tokens are in search_token_entity
  stats,       \* how often each key was counted in search_token_stats
  dead,        \* search_index_errors: ranges <<start, end>>
  \* what happened, to state properties with
  passed,      \* the largest key up to which some pass has read, or tried to
  skipped,     \* keys a chunk passed over because its query failed or broke off
  late,        \* keys that committed at or below passed
  torn,        \* keys that were stored but had no tokens when a process ended
  lost,        \* keys whose acknowledged batch never became visible
  upsets       \* disturbances so far

envVars    == <<row, late>>
threadVars == <<pc, frame>>
chVars     == <<idx, tokens, stats, dead, lost>>
vars == <<row, proc, lastSynced, threadVars, chVars, passed, skipped, late, torn, upsets>>

\* The locals of a pass.  Every turn of the chunk loop declares its own hi, recs and
\* attempt.
Frame == [ mode    : {"chunk", "incr"},         \* syncTableChunked, incrementalSync
           cur     : 0..MaxId,                  \* currentID, lastID
           hi      : 0..MaxId,                  \* endID, newMaxID
           total   : 0..MaxId,                  \* totalRows (which holds MAX(pk))
           recs    : Content,                   \* records, as read
           attempt : 0..MaxRetries ]            \* turns of the ingest loop
FreshFrame(m, from, to) ==
  [mode |-> m, cur |-> from, hi |-> 0, total |-> to, recs |-> NoRows, attempt |-> 0]
EmptyFrame == FreshFrame("chunk", 0, 0)

committed == RowsOf(row)
stored    == RowsOf(idx)

\* Top(m, S): m is MAX over S, and 0 when S is empty (COALESCE(MAX(pk), 0)).
Top(m, S) == (\A i \in S : i <= m) /\ (m \in S \/ m = 0)

Larger(a, b)  == IF a > b THEN a ELSE b
Smaller(a, b) == IF a < b THEN a ELSE b

\* The environment does k once more, if it may.
Disturb(k) == /\ k \in Disturbances
              /\ upsets < MaxDisturbances
              /\ upsets' = upsets + 1

Calm == UNCHANGED upsets

Goto(t, label) == pc' = [pc EXCEPT ![t] = label]

\* A pass is over: the loop waits for its ticker, a trigger returns to its caller.
Resting(t) == IF t = Loop THEN "wait" ELSE "idle"
Return(t)  == Goto(t, Resting(t)) /\ frame' = [frame EXCEPT ![t] = EmptyFrame]

\* A call of syncTableChunked, with its own locals.
Begin(t) == Goto(t, "max") /\ frame' = [frame EXCEPT ![t] = EmptyFrame]

\* Rows with key in (a, b], as the query that reads them sees them.
ReadRange(a, b) == [i \in Ids |-> IF a < i /\ i <= b THEN row[i] ELSE 0]

Init ==
  /\ \E n \in 0..MaxId : row = [i \in Ids |-> IF i <= n THEN 1 ELSE 0]
  /\ proc = "down" /\ lastSynced = 0
  /\ pc = [t \in Threads |-> "idle"] /\ frame = [t \in Threads |-> EmptyFrame]
  /\ idx = NoRows /\ tokens = {} /\ stats = NoRows /\ dead = {}
  /\ passed = 0 /\ skipped = {} /\ late = {} /\ torn = {} /\ lost = {}
  /\ upsets = 0

(***************************************************************************)
(* PostgreSQL (external): rows appear, change and go away.                 *)
(***************************************************************************)

\* A new key is normally above all others; a transaction that drew its key from
\* the sequence earlier and commits later, or an explicit key, breaks that.
Commit(i) ==
  /\ row[i] = 0
  /\ \/ i > passed /\ (\A j \in committed : j < i) /\ Calm
     \/ ~(i > passed /\ (\A j \in committed : j < i)) /\ Disturb("late")
  /\ row' = [row EXCEPT ![i] = 1]
  /\ late' = IF i <= passed THEN late \cup {i} ELSE late
  /\ UNCHANGED <<proc, lastSynced, threadVars, chVars, passed, skipped, torn>>

Update(i) ==
  /\ row[i] > 0 /\ row[i] < MaxVersion
  /\ Disturb("update")
  /\ row' = [row EXCEPT ![i] = @ + 1]
  /\ UNCHANGED <<proc, lastSynced, threadVars, chVars, passed, skipped, late, torn>>

Delete(i) ==
  /\ row[i] > 0
  /\ Disturb("delete")
  /\ row' = [row EXCEPT ![i] = 0]
  /\ UNCHANGED <<proc, lastSynced, threadVars, chVars, passed, skipped, late, torn>>

(***************************************************************************)
(* The process.                                                            *)
(***************************************************************************)

\* Mistake: resume one key too high.
Start_SkipOne ==
  /\ proc = "down"
  /\ \E m \in 0..MaxId : Top(m, stored \ SoftDeleted) /\ lastSynced' = Smaller(m + 1, MaxId)
  /\ proc' = "running" /\ Begin(Loop)
  /\ UNCHANGED <<envVars, chVars, passed, skipped, torn, upsets>>

\* main -> Start: loadCheckpoints resumes from the largest live key in the index;
\* when that query fails lastSyncedID keeps Go's zero value.
Start ==
  /\ proc = "down"
  /\ \E m \in 0..MaxId :
       /\ \/ Top(m, stored \ SoftDeleted) /\ Calm
          \/ m = 0 /\ Disturb("resume")
       /\ lastSynced' = m
  /\ proc' = "running"
  /\ Begin(Loop)
  /\ UNCHANGED <<envVars, chVars, passed, skipped, torn>>

\* main on SIGTERM: CDCManager.Stop closes stopChan ...
Stop ==
  /\ proc = "running" /\ Disturb("stop")
  /\ proc' = "stopping"
  /\ UNCHANGED <<envVars, lastSynced, threadVars, chVars, passed, skipped, torn>>

\* Mistake: the pool is closed without waiting for the loop.
ClosePool_NoWait ==
  /\ proc = "stopping"
  /\ proc' = "closed"
  /\ UNCHANGED <<envVars, lastSynced, threadVars, chVars, passed, skipped, torn, upsets>>

\* ... waits for syncLoop (and for nobody else), then closes the ClickHouse pool.
ClosePool ==
  /\ proc = "stopping" /\ pc[Loop] = "idle"
  /\ proc' = "closed"
  /\ UNCHANGED <<envVars, lastSynced, threadVars, chVars, passed, skipped, torn, upsets>>

Vanish ==
  /\ proc' = "down" /\ lastSynced' = 0
  /\ pc' = [t \in Threads |-> "idle"] /\ frame' = [t \in Threads |-> EmptyFrame]
  /\ torn' = torn \cup (stored \ tokens)
  /\ UNCHANGED <<envVars, chVars, passed, skipped>>

Exit  == proc = "closed" /\ Vanish /\ Calm
Crash == proc # "down" /\ Disturb("crash") /\ Vanish

(***************************************************************************)
(* A chunked pass: syncTableChunked.                                       *)
(***************************************************************************)

\* TriggerTableSync, refused once the pool is closed.
Trigger(t) ==
  /\ t \in Triggers /\ pc[t] = "idle" /\ proc \in {"running", "stopping"}
  /\ Begin(t)
  /\ UNCHANGED <<envVars, proc, lastSynced, chVars, passed, skipped, torn, upsets>>

\* EnsureSearchIndex fails on a closed pool; a failed MAX query leaves totalRows 0.
ReadMax(t) ==
  /\ pc[t] = "max"
  /\ IF proc = "closed"
       THEN Return(t) /\ Calm
       ELSE /\ \E m \in 0..MaxId :
                 /\ \/ Top(m, committed) /\ Calm
                    \/ m = 0 /\ Disturb("query")
                 /\ frame' = [frame EXCEPT ![t].total = m]
            /\ Goto(t, "ckpt")
  /\ UNCHANGED <<envVars, proc, lastSynced, chVars, passed, skipped, torn>>

\* Mistake: every chunked pass starts from key 0.
ReadCheckpoint_FromZero(t) ==
  /\ pc[t] = "ckpt"
  /\ IF lastSynced >= frame[t].total
       THEN Return(t)
       ELSE Goto(t, "head") /\ frame' = [frame EXCEPT ![t].cur = 0]
  /\ UNCHANGED <<envVars, proc, lastSynced, chVars, passed, skipped, torn, upsets>>

\* startID := m.lastSyncedID under RLock; nothing to do when startID >= totalRows.
ReadCheckpoint(t) ==
  /\ pc[t] = "ckpt"
  /\ IF lastSynced >= frame[t].total
       THEN Return(t)
       ELSE Goto(t, "head") /\ frame' = [frame EXCEPT ![t].cur = lastSynced]
  /\ UNCHANGED <<envVars, proc, lastSynced, chVars, passed, skipped, torn, upsets>>

\* Top of the chunk loop: a closed stopChan ends the pass.
ChunkHead(t) ==
  /\ pc[t] = "head"
  /\ IF proc = "running"
       THEN /\ frame' = [frame EXCEPT ![t].hi = Smaller(frame[t].cur + ChunkSize, frame[t].total)]
            /\ Goto(t, "query")
       ELSE Return(t)
  /\ UNCHANGED <<envVars, proc, lastSynced, chVars, passed, skipped, torn, upsets>>

\* currentID += ChunkSize, and round the loop or out of it.
Advance(t) ==
  LET next == frame[t].cur + ChunkSize IN
  IF next < frame[t].total
    THEN /\ frame' = [frame EXCEPT ![t] = FreshFrame("chunk", next, frame[t].total)]
         /\ Goto(t, "head")
    ELSE Return(t)

\* The chunk's rows.  rows.Err is never consulted, so a stream that breaks off
\* after key k counts as the whole chunk; a failed query (k = cur) is logged and the
\* loop continues with the next chunk.  No records, no ingest and no checkpoint.
ChunkQuery(t) ==
  LET lo == frame[t].cur  top == frame[t].hi IN
  /\ pc[t] = "query"
  /\ \E k \in lo..top :
       /\ \/ k = top /\ Calm
          \/ k < top /\ k = lo /\ Disturb("query")
          \/ k < top /\ k > lo /\ Disturb("short")
       /\ skipped' = skipped \cup RowsOf(ReadRange(k, top))
       /\ IF RowsOf(ReadRange(lo, k)) = {}
            THEN Advance(t)
            ELSE /\ Goto(t, "ingest")
                 /\ frame' = [frame EXCEPT ![t].recs = ReadRange(lo, k)]
  /\ passed' = Larger(passed, top)
  /\ UNCHANGED <<envVars, proc, lastSynced, chVars, torn>>

(***************************************************************************)
(* An incremental pass: incrementalSync, from the loop's ticker.           *)
(***************************************************************************)

\* Mistake: ">= lastID" in the incremental query.
Tick_Inclusive ==
  /\ pc[Loop] = "wait"
  /\ frame' = [frame EXCEPT ![Loop] =
                 FreshFrame("incr", IF lastSynced = 0 THEN 0 ELSE lastSynced - 1, 0)]
  /\ Goto(Loop, "iquery")
  /\ UNCHANGED <<envVars, proc, lastSynced, chVars, passed, skipped, torn, upsets>>

\* select picks at random when the ticker and stopChan are both ready.
Tick ==
  /\ pc[Loop] = "wait"
  /\ frame' = [frame EXCEPT ![Loop] = FreshFrame("incr", lastSynced, 0)]
  /\ Goto(Loop, "iquery")
  /\ UNCHANGED <<envVars, proc, lastSynced, chVars, passed, skipped, torn, upsets>>

\* Mistake: the loop leaves only after the pool is closed, and Stop waits for it.
LoopExit_AfterPool ==
  /\ pc[Loop] = "wait" /\ proc = "closed"
  /\ Goto(Loop, "idle")
  /\ UNCHANGED <<envVars, proc, lastSynced, frame, chVars, passed, skipped, torn, upsets>>

LoopExit ==
  /\ pc[Loop] = "wait" /\ proc = "stopping"
  /\ Goto(Loop, "idle")
  /\ UNCHANGED <<envVars, proc, lastSynced, frame, chVars, passed, skipped, torn, upsets>>

\* The first BatchSize rows above lastID are those up to some key k.  newMaxID grows
\* only through a Go int64: an int4 key leaves it at 0.  A broken stream gives a
\* shorter prefix.
IncrementalQuery ==
  LET lo == frame[Loop].cur IN
  /\ pc[Loop] = "iquery"
  /\ \/ \E k \in lo..MaxId :
          LET batch == RowsOf(ReadRange(lo, k))
              full  == k = MaxId \/ Cardinality(batch) = BatchSize
          IN /\ Cardinality(batch) <= BatchSize
             /\ \/ full /\ Calm
                \/ ~full /\ Disturb("short")
             /\ IF batch = {}
                  THEN Return(Loop) /\ UNCHANGED passed
                  ELSE /\ \E m \in batch :
                            /\ Top(m, batch)
                            /\ frame' = [frame EXCEPT
                                 ![Loop].recs = ReadRange(lo, k),
                                 ![Loop].hi = IF PkIsBigint THEN m ELSE 0]
                            /\ passed' = Larger(passed, m)
                       /\ Goto(Loop, "ingest")
     \/ Disturb("query") /\ Return(Loop) /\ UNCHANGED passed
  /\ UNCHANGED <<envVars, proc, lastSynced, chVars, skipped, torn>>

(***************************************************************************)
(* Ingest: up to MaxRetries calls of BulkIndex, then a dead letter.        *)
(***************************************************************************)

\* BulkIndex returns nil, having done nothing, when the pool is not available.
IngestStart(t) ==
  /\ pc[t] = "ingest"
  /\ Goto(t, IF proc = "closed" THEN "store" ELSE "main")
  /\ UNCHANGED <<envVars, proc, lastSynced, frame, chVars, passed, skipped, torn, upsets>>

\* Mistakes: one attempt too many; taking the last failure for a success.
Failed_OneMore(t) ==
  /\ frame' = [frame EXCEPT ![t].attempt = @ + 1]
  /\ Goto(t, IF frame[t].attempt <= MaxRetries THEN "ingest" ELSE "dead")

Failed_AsSuccess(t) ==
  /\ frame' = [frame EXCEPT ![t].attempt = @ + 1]
  /\ Goto(t, IF frame[t].attempt + 1 < MaxRetries THEN "ingest" ELSE "store")

\* BulkIndex returned an error.
Failed(t) ==
  /\ frame' = [frame EXCEPT ![t].attempt = @ + 1]
  /\ Goto(t, IF frame[t].attempt + 1 < MaxRetries THEN "ingest" ELSE "dead")

\* The outcome of one batch.Send.  Applied: the batch took effect.  Lost: it was
\* acknowledged and dropped.  Sends on a closed pool fail.
Outcome(t, next, Applied, Lost, Nothing) ==
  \/ proc # "closed" /\ Calm /\ Applied /\ Goto(t, next) /\ UNCHANGED frame
  \/ proc # "closed" /\ Disturb("ackloss") /\ Lost /\ Goto(t, next) /\ UNCHANGED frame
  \/ proc # "closed" /\ Disturb("send") /\ Nothing /\ Failed(t)
  \/ proc # "closed" /\ Disturb("ambiguous") /\ Applied /\ Failed(t)
  \/ proc = "closed" /\ Calm /\ Nothing /\ Failed(t)

\* ReplacingMergeTree(updated_at): the larger updated_at wins; without such a column
\* it is the insertion time and the last writer wins.
Merge(old, new) ==
  [i \in Ids |-> IF new[i] = 0 THEN old[i]
                 ELSE IF UpdatedAt THEN Larger(old[i], new[i]) ELSE new[i]]

SendMain(t) ==
  /\ pc[t] = "main"
  /\ Outcome(t, "tokens",
             idx' = Merge(idx, frame[t].recs) /\ UNCHANGED lost,
             lost' = lost \cup RowsOf(frame[t].recs) /\ UNCHANGED idx,
             UNCHANGED <<idx, lost>>)
  /\ UNCHANGED <<envVars, proc, lastSynced, tokens, stats, dead, passed, skipped, torn>>

SendTokens(t) ==
  /\ pc[t] = "tokens"
  /\ Outcome(t, "stats",
             tokens' = tokens \cup RowsOf(frame[t].recs) /\ UNCHANGED lost,
             lost' = lost \cup RowsOf(frame[t].recs) /\ UNCHANGED tokens,
             UNCHANGED <<tokens, lost>>)
  /\ UNCHANGED <<envVars, proc, lastSynced, idx, stats, dead, passed, skipped, torn>>

Count(s, keys) ==
  [i \in Ids |-> IF i \in keys THEN Smaller(s[i] + 1, StatsCap) ELSE s[i]]

SendStats(t) ==
  /\ pc[t] = "stats"
  /\ Outcome(t, "store",
             stats' = Count(stats, RowsOf(frame[t].recs)),
             UNCHANGED stats,
             UNCHANGED stats)
  /\ UNCHANGED <<envVars, proc, lastSynced, idx, tokens, dead, lost, passed, skipped, torn>>

\* Mistakes: moving on past a dead-lettered range; recording where the range ends only.
DeadLetter_MovesOn(t) ==
  /\ pc[t] = "dead"
  /\ dead' = dead \cup {<<frame[t].cur, frame[t].hi>>} /\ lastSynced' = frame[t].hi
  /\ Return(t)
  /\ UNCHANGED <<envVars, proc, idx, tokens, stats, lost, passed, skipped, torn, upsets>>

DeadLetter_EndOnly(t) ==
  /\ pc[t] = "dead"
  /\ dead' = dead \cup {<<frame[t].hi, frame[t].hi>>}
  /\ Return(t)
  /\ UNCHANGED <<envVars, proc, lastSynced, idx, tokens, stats, lost, passed, skipped, torn, upsets>>

\* Retries exhausted: record the range, give the pass up, leave lastSyncedID alone.
DeadLetter(t) ==
  /\ pc[t] = "dead"
  /\ \/ proc # "closed" /\ Calm /\ dead' = dead \cup {<<frame[t].cur, frame[t].hi>>}
     \/ (IF proc = "closed" THEN Calm ELSE Disturb("deadletter")) /\ UNCHANGED dead
  /\ Return(t)
  /\ UNCHANGED <<envVars, proc, lastSynced, idx, tokens, stats, lost, passed, skipped, torn>>

\* Mistake: the end of the whole pass instead of the end of the chunk.
StoreCheckpoint_Total(t) ==
  /\ pc[t] = "store"
  /\ lastSynced' = Larger(frame[t].hi, frame[t].total)
  /\ IF frame[t].mode = "chunk" THEN Advance(t) ELSE Return(t)
  /\ UNCHANGED <<envVars, proc, chVars, passed, skipped, torn, upsets>>

\* m.lastSyncedID[table] = endID (chunked) or newMaxID (incremental).
StoreCheckpoint(t) ==
  /\ pc[t] = "store"
  /\ lastSynced' = frame[t].hi
  /\ IF frame[t].mode = "chunk" THEN Advance(t) ELSE Return(t)
  /\ UNCHANGED <<envVars, proc, chVars, passed, skipped, torn, upsets>>

-----------------------------------------------------------------------------
ThreadStep(t) ==
  \/ ReadMax(t) \/ ReadCheckpoint(t) \/ ChunkHead(t) \/ ChunkQuery(t)
  \/ IngestStart(t) \/ SendMain(t) \/ SendTokens(t) \/ SendStats(t)
  \/ DeadLetter(t) \/ StoreCheckpoint(t)

LoopStep == ThreadStep(Loop) \/ Tick \/ LoopExit \/ IncrementalQuery

Environment ==
  \/ \E i \in Ids : Commit(i) \/ Update(i) \/ Delete(i)
  \/ Start \/ Stop \/ Crash

Next ==
  \/ Environment
  \/ ClosePool \/ Exit
  \/ \E t \in Triggers : Trigger(t) \/ ThreadStep(t)
  \/ LoopStep

Spec == Init /\ [][Next]_vars

\* Goroutines are scheduled, the ticker fires, main goes on with its shutdown, and
\* select, which picks at random, does not prefer the ticker for ever.  Nothing
\* makes anyone start the process, load a file or commit a row.
Fairness ==
  /\ WF_vars(LoopStep) /\ SF_vars(LoopExit)
  /\ \A t \in Triggers : WF_vars(ThreadStep(t))
  /\ WF_vars(ClosePool) /\ WF_vars(Exit)

FairSpec == Spec /\ Fairness

(***************************************************************************)
(* Properties.                                                             *)
(***************************************************************************)

Labels == { "idle", "wait", "max", "ckpt", "head", "query", "iquery",
            "ingest", "main", "tokens", "stats", "dead", "store" }

\* The type invariant of the table's copy: what every variable may hold.
TypeOK ==
  /\ row \in Content /\ idx \in Content
  /\ proc \in {"down", "running", "stopping", "closed"}
  /\ lastSynced \in 0..MaxId /\ passed \in 0..MaxId
  /\ pc \in [Threads -> Labels] /\ frame \in [Threads -> Frame]
  /\ \A t \in Threads : pc[t] # "dead" => frame[t].attempt < MaxRetries
  /\ tokens \subseteq Ids /\ stats \in [Ids -> 0..StatsCap]
  /\ dead \subseteq (Nat \X Nat)
  /\ skipped \subseteq Ids /\ late \subseteq Ids /\ torn \subseteq Ids /\ lost \subseteq Ids
  /\ upsets \in 0..MaxDisturbances

\* A row can be found when both its record and its tokens are in ClickHouse.
searchable == stored \cap tokens

\* Rows the code gives up without knowing: read past, committed too late, or
\* acknowledged by ClickHouse and dropped.
excused == skipped \cup late \cup lost

\* Every row at or below k is accounted for: it can be found, it is excused, or an
\* earlier process ended between its record and its tokens.
Covered(k) == \A i \in committed : i <= k => i \in searchable \cup excused \cup torn

\* The checkpoint never runs ahead of the index: while the pool is open, every row
\* at or below lastSyncedID can be found, unless a chunk passed it over, it committed
\* below what had been read, its batch was dropped after the acknowledgement, or an
\* earlier process ended between its record and its tokens.  Whatever the
\* interleaving of passes, retries, dead letters, crashes and shutdowns.
CheckpointCovers == proc # "closed" => Covered(lastSynced)

\* Nothing else gets lost on a restart: the next process resumes from the largest
\* stored key, and below every stored key there is no unexcused row that is not
\* stored (loadCheckpoints relies on it).
ResumePointCovers ==
  \A k \in stored : \A i \in committed : i <= k => i \in stored \cup excused

atRest == proc \in {"running", "stopping"} /\ \A t \in Threads : pc[t] \in {"idle", "wait"}

\* Key i lies in the range of a dead letter.
Reported(i) == \E r \in dead : r[1] < i /\ i <= r[2]

\* When no pass is running, every row that has a record but no tokens lies in a
\* range of search_index_errors, so an operator can find it there; rows torn by the
\* end of a process and dropped acknowledgements are the exceptions.
GapsAreReported ==
  atRest => \A i \in stored \ (tokens \cup torn \cup lost) : Reported(i)

\* search_token_stats is a SummingMergeTree: a row sent twice is counted twice.  The
\* statistics go last in BulkIndex and the checkpoint moves only after them, so
\* retries, dead letters and crashes do not double a count as long as only the loop
\* copies the table, every process finds its checkpoint, and a refused batch is not
\* applied.
StatsCountedOnce == \A i \in Ids : stats[i] <= 1

\* Within one process the checkpoint of a table that only the loop copies never
\* moves back.
CheckpointMonotone ==
  [][proc # "down" /\ proc' # "down" => lastSynced' >= lastSynced]_vars

staysUp == <>[](proc = "running")

\* A committed row is eventually in the index (record and tokens), if the process
\* stays up.
EventuallySearchable ==
  staysUp => \A i \in Ids : i \in committed ~> (i \in searchable \/ i \notin committed)

\* Whatever batches fail and processes end, once a process stays up every committed row
\* can be found, unless an earlier one ended between its record and its tokens; and
\* even then its record is there.
EventuallyStored ==
  staysUp => \A i \in Ids : i \in committed
                            ~> (i \in searchable \/ i \in torn \cap stored \/ i \notin committed)

\* Once SIGTERM has been handled the process ends: Stop's wg.Wait returns, whatever
\* pass the loop is in.
ShutdownCompletes == proc = "stopping" ~> proc = "down"

-----------------------------------------------------------------------------
\* The abstract feed this copy implements.  A closed pool has no mark: what passes
\* store then is never used, the process is about to exit.
feedMark == IF proc = "closed" THEN 0 ELSE lastSynced

Feed == INSTANCE SearchFeed WITH source  <- committed,
                                 index   <- searchable,
                                 givenUp <- excused \cup torn,
                                 mark    <- feedMark

\* The copy of a table implements SearchFeed: every step of every goroutine, and
\* every failure, is a step the abstract feed may take.
ImplementsFeed == Feed!FeedSpec

\* The schedule of the loop's passes over this table.
loopPass ==
  [t \in {"table"} |-> IF pc[Loop] = "idle" THEN "none"
                       ELSE IF pc[Loop] = "wait" THEN "wait" ELSE frame[Loop].mode]

Sched == INSTANCE TableSchedule WITH Tables <- {"table"}, pass <- loopPass

\* The loop passes over the table, and main closes the pool, in the order the manager
\* guarantees (CdcManager implements the same schedule): one chunked pass first, and
\* never a pass of the loop on a closed pool.
ImplementsSchedule == Sched!SchedSpec

(***************************************************************************)
(* The inductive invariant behind CheckpointCovers.                        *)
(***************************************************************************)

Reading   == {"head", "query", "iquery"}
Ingesting == {"ingest", "main", "tokens", "stats", "dead", "store"}

\* What a pass knows: its mode and bounds fit together, it started from a covered
\* key, its records are all the unexcused rows of the range it read, and each batch
\* of BulkIndex that it has got past holds them.
PassInv(t) ==
  LET f == frame[t]  rows == RowsOf(f.recs) IN
  /\ pc[t] \in {"max", "ckpt", "head", "query"} => f.mode = "chunk"
  /\ pc[t] = "iquery" => f.mode = "incr"
  /\ pc[t] = "head" => f.cur < f.total
  /\ pc[t] \in {"query"} \cup Ingesting /\ f.mode = "chunk" =>
       f.cur < f.total /\ f.hi = Smaller(f.cur + ChunkSize, f.total)
  /\ pc[t] \in Reading \cup Ingesting => f.cur <= passed
  /\ pc[t] \in Ingesting => f.hi <= passed /\ \A k \in rows : f.cur < k /\ k <= passed
  /\ proc # "closed" =>
       /\ pc[t] \in Reading \cup Ingesting => Covered(f.cur)
       /\ pc[t] \in Ingesting =>
            \A i \in committed :
              f.cur < i /\ (i <= f.hi \/ \E k \in rows : i <= k) => i \in rows \cup excused
       /\ pc[t] \in {"tokens", "stats", "store"} => rows \subseteq stored \cup lost
       /\ pc[t] \in {"stats", "store"} => rows \subseteq tokens \cup lost

\* Keys in the index or below the checkpoint have been read past, torn rows are half
\* there, and a process that is gone has left no goroutine, and no half-written row
\* outside torn.
HistoryInv ==
  /\ lastSynced <= passed
  /\ \A k \in stored : k <= passed
  /\ torn \subseteq stored
  /\ proc = "down" => lastSynced = 0 /\ stored \ tokens \subseteq torn
                      /\ \A t \in Threads : pc[t] = "idle"

IndInv == TypeOK /\ CheckpointCovers /\ ResumePointCovers /\ HistoryInv
          /\ \A t \in Threads : PassInv(t)

(***************************************************************************)
(* What is needed besides for the properties that hold of the loop alone,  *)
(* and for the reports of gaps.                                            *)
(***************************************************************************)

\* When the key column decodes to an int64, the rows a pass is ingesting lie in the
\* range (cur, hi] that a dead letter records and the checkpoint moves to.
RangeInv ==
  \A t \in Threads : pc[t] \in Ingesting =>
    /\ frame[t].cur < frame[t].hi
    /\ \A k \in RowsOf(frame[t].recs) : frame[t].cur < k /\ k <= frame[t].hi

\* While the pool is open, a row with a record and no tokens has been reported, or
\* some pass still has it in hand.
ReportInv ==
  proc \in {"running", "stopping"} =>
    \A i \in stored \ (tokens \cup torn \cup lost) :
      \/ Reported(i)
      \/ \E t \in Threads : pc[t] \in Ingesting /\ i \in RowsOf(frame[t].recs)

\* A pass of the loop starts where the checkpoint is, and nobody else moves it.
LoopAhead ==
  pc[Loop] \in Reading \cup Ingesting => lastSynced <= frame[Loop].cur

\* A counted row is stored, so the next process resumes above it; in this one it lies
\* below the checkpoint, or below where the loop is about to move it.
CountInv ==
  \A i \in Ids : stats[i] > 0 =>
    /\ stats[i] = 1 /\ i \in stored
    /\ proc # "down" => \/ i <= lastSynced
                        \/ pc[Loop] = "store" /\ i <= frame[Loop].hi

=============================================================================

---------------------------- MODULE PipelineJobs ----------------------------
(***************************************************************************)
(* Importing folders of files: PipelineProcessor (processor.go), with      *)
(* FileLoader (loader.go), which makes a table of each file or sheet, and  *)
(* the call that hands the new table to the CDC.                           *)
(*                                                                         *)
(* A job is a goroutine that takes the files of its folder one by one.     *)
(* Jobs run side by side, over the same folder too, without any lock but   *)
(* p.mu around each update of their progress; a table's name is made of    *)
(* the file's name and the second.  PostgreSQL runs every statement of its *)
(* own, jobs live in memory only, and the process may end at any moment.   *)
(*                                                                         *)
(* What the CDC does with a table it tracks is in CdcTable; here a pass is *)
(* one step, which copies the rows above the table's checkpoint.  A pass   *)
(* of syncTableChunked (a trigger's, or the loop's first) that cannot read *)
(* a chunk goes on with the next, and what it has not read stays below the *)
(* checkpoint.  A process that finds no table, or cannot prepare           *)
(* ClickHouse, has no loop.                                                *)
(***************************************************************************)
EXTENDS Integers, FiniteSets, SequencesExt

CONSTANTS
  Jobs,          \* job ids (uuids: never used twice)
  NumFiles,      \* files are numbered in the order filepath.Walk finds them
  FolderOf,      \* the files in each job's folder
  Parts,         \* for each file, its sheets, by the name a table gets from them;
                 \* a .csv or .json file has one, an unreadable file none
  Base,          \* each file's name without the directory
  LongNames,     \* names that push the time out of the 63 characters of a table name
  Endless,       \* .jsonl files with a broken line
  Batches,       \* INSERTs it takes to load a sheet
  OtherTables,   \* PostgreSQL has tables that no job has made, too
  MaxTime,       \* seconds that pass (a bound)
  MaxFailures,   \* statements, passes and moves that fail (a bound)
  MaxCrashes     \* how often the process ends (a bound)

Files  == 1..NumFiles
Names  == UNION {ToSet(Parts[f]) : f \in Files}
Tables == Names \X (0..MaxTime)

ASSUME JobsAssumption ==
  /\ NumFiles \in Nat \ {0} /\ FolderOf \in [Jobs -> SUBSET Files]
  /\ DOMAIN Parts = Files /\ DOMAIN Base = Files /\ LongNames \subseteq Names
  /\ \A f \in Files : Len(Parts[f]) \in Nat /\ DOMAIN Parts[f] = 1..Len(Parts[f])
  /\ Endless \subseteq Files /\ Batches \in [Names -> Nat \ {0}]
  /\ OtherTables \in BOOLEAN /\ {MaxTime, MaxFailures, MaxCrashes} \subseteq Nat

VARIABLES
  job,        \* p.jobs: the progress of each job that this process knows
  files,      \* and the status of its files
  go,         \* the job's goroutine
  folder,     \* files in their place
  errorDir,   \* what is in ./ErrorFiles, by name and second
  exists, rows,       \* PostgreSQL: the tables, and their rows in key order
  tracked, mark,      \* CDC: tables on its list, and their checkpoints (m.lastSyncedID)
  looping, initial,   \* CDC: it has a loop, whose first passes have still to take these tables
  tokens,             \* ClickHouse has the tables of tokens (ensureGlobalTables, at a loop's start)
  indexed,            \* and the rows of each table
  clock,
  failures, crashes,
  started, done,      \* history: job ids used; loads shown as completed, with their table
  used, owner,        \* history: loads that dropped (and so claimed) a table name; the last one
  refused, skipped,   \* history: tables the CDC failed to take or copy when it should have,
                      \* in this process; rows that a chunked pass has gone past
  clobbered           \* history: files whose copy in ErrorFiles was overwritten

progressVars == <<job, files>>
diskVars     == <<folder, errorDir, clobbered>>
tableVars    == <<exists, rows, used, owner>>
loopVars     == <<looping, initial, tokens>>
cdcVars      == <<tracked, mark, loopVars, indexed, refused, skipped>>
boundVars    == <<clock, failures, crashes>>
vars == <<progressVars, go, diskVars, tableVars, cdcVars, boundVars, started, done>>

Idle    == [pc |-> "none", todo |-> {}, file |-> 0, part |-> 0, table |-> <<>>, batch |-> 0, loaded |-> <<>>]
Nothing == 0
Known   == DOMAIN job

Init ==
  /\ job = [j \in {} |-> 0] /\ files = [j \in {} |-> 0] /\ go = [j \in Jobs |-> Idle]
  /\ folder = Files /\ errorDir = [n \in Range(Base) \X (0..MaxTime) |-> Nothing] /\ clobbered = {}
  /\ exists = {} /\ rows = [t \in Tables |-> <<>>]
  /\ used = [t \in Tables |-> {}] /\ owner = [t \in Tables |-> <<>>]
  /\ tracked = {} /\ mark = [t \in Tables |-> 0] /\ looping = OtherTables /\ initial = {}
  /\ tokens \in {TRUE, looping}
  /\ indexed = [t \in Tables |-> {}] /\ refused = {} /\ skipped = [t \in Tables |-> {}]
  /\ clock = 0 /\ failures = 0 /\ crashes = 0 /\ started = {} /\ done = {}

Fail == failures < MaxFailures /\ failures' = failures + 1
Work == UNCHANGED failures

-----------------------------------------------------------------------------
(***************************************************************************)
(* A job: StartJob and processFolder.                                      *)
(***************************************************************************)
At(j, pc) == j \in Known /\ go[j].pc = pc

Goto(j, pc) == go' = [go EXCEPT ![j].pc = pc]

StartJob(j) ==
  /\ j \notin started /\ started' = started \cup {j}
  /\ job' = [i \in Known \cup {j} |-> IF i = j
       THEN [status |-> "running", total |-> 0, processed |-> 0, successful |-> 0, failed |-> 0, rows |-> 0]
       ELSE job[i]]
  /\ files' = [i \in Known \cup {j} |-> IF i = j THEN [f \in {} |-> ""] ELSE files[i]]
  /\ Goto(j, "discover")
  /\ UNCHANGED <<diskVars, tableVars, cdcVars, boundVars, done>>

\* The folder cannot be walked, or has no supported file: updateJobError.
NothingToDo(j) ==
  /\ At(j, "discover")
  /\ \/ FolderOf[j] \cap folder = {} /\ Work
     \/ Fail
  /\ job' = [job EXCEPT ![j].status = "failed"] /\ Goto(j, "none")
  /\ UNCHANGED <<files, diskVars, tableVars, cdcVars, clock, crashes, started, done>>

Discover(j) ==
  /\ At(j, "discover") /\ FolderOf[j] \cap folder # {}
  /\ LET found == FolderOf[j] \cap folder IN
       /\ job' = [job EXCEPT ![j].total = Cardinality(found)]
       /\ files' = [files EXCEPT ![j] = [f \in found |-> "pending"]]
       /\ go' = [go EXCEPT ![j] = [@ EXCEPT !.pc = "next", !.todo = found]]
  /\ UNCHANGED <<diskVars, tableVars, cdcVars, boundVars, started, done>>

BeginFile(j) ==
  /\ At(j, "next") /\ go[j].todo # {}
  /\ LET f == Min(go[j].todo) IN
       /\ files' = [files EXCEPT ![j][f] = "processing"]
       /\ go' = [go EXCEPT ![j] = [Idle EXCEPT !.pc = "open", !.todo = go[j].todo \ {f}, !.file = f]]
  /\ UNCHANGED <<job, diskVars, tableVars, cdcVars, boundVars, started, done>>

\* Mistake: a job whose files have not all been loaded is left running.
EndJob_IfAllLoaded(j) ==
  /\ At(j, "next") /\ go[j].todo = {} /\ job[j].failed = 0
  /\ job' = [job EXCEPT ![j].status = "completed"] /\ go' = [go EXCEPT ![j] = Idle]
  /\ UNCHANGED <<files, diskVars, tableVars, cdcVars, boundVars, started, done>>

EndJob(j) ==
  /\ At(j, "next") /\ go[j].todo = {}
  /\ job' = [job EXCEPT ![j].status = "completed"] /\ go' = [go EXCEPT ![j] = Idle]
  /\ UNCHANGED <<files, diskVars, tableVars, cdcVars, boundVars, started, done>>

-----------------------------------------------------------------------------
(***************************************************************************)
(* A file: LoadAndInsert.                                                  *)
(***************************************************************************)
\* Mistake: one sheet too many.
NextPart_OneMore(g) ==
  IF g.part <= Len(Parts[g.file])
  THEN [g EXCEPT !.pc = "drop", !.part = @ + 1, !.batch = 0]
  ELSE [g EXCEPT !.pc = IF g.loaded = <<>> THEN "failed" ELSE "completed"]

\* A sheet that fails is skipped; a file fails if none of its sheets was loaded.
NextPart(g) ==
  IF g.part < Len(Parts[g.file])
  THEN [g EXCEPT !.pc = "drop", !.part = @ + 1, !.batch = 0]
  ELSE [g EXCEPT !.pc = IF g.loaded = <<>> THEN "failed" ELSE "completed"]

Sheet(g) == Parts[g.file][g.part]

\* generateTableName, generateTableNameWithSheet.
TableName(g) == <<Sheet(g), IF Sheet(g) \in LongNames THEN 0 ELSE clock>>

\* The decoder of a .jsonl file answers every Decode after a syntax error with the same
\* error, and loadJSONL goes on asking.
Open(j) ==
  /\ At(j, "open")
  /\ LET g == go[j] IN
       IF g.file \notin folder THEN Goto(j, "failed")
       ELSE g.file \notin Endless /\ go' = [go EXCEPT ![j] = NextPart(g)]
  /\ UNCHANGED <<progressVars, diskVars, tableVars, cdcVars, boundVars, started, done>>

\* A statement's answer: it arrives, or it is an error or lost.
Answer(j, next) ==
  \/ go' = [go EXCEPT ![j] = next] /\ Work
  \/ go' = [go EXCEPT ![j] = NextPart(go[j])] /\ Fail

Refusal(j) == go' = [go EXCEPT ![j] = NextPart(go[j])] /\ UNCHANGED <<exists, rows>>

LoaderFrame == UNCHANGED <<progressVars, diskVars, cdcVars, clock, crashes, started, done>>

\* createTable: DROP TABLE IF EXISTS.
Drop(j) ==
  /\ At(j, "drop")
  /\ LET g == go[j]  t == TableName(g)  l == <<j, g.file, g.part>> IN
       \/ /\ exists' = exists \ {t} /\ rows' = [rows EXCEPT ![t] = <<>>]
          /\ used' = [used EXCEPT ![t] = @ \cup {l}] /\ owner' = [owner EXCEPT ![t] = l]
          /\ Answer(j, [g EXCEPT !.pc = "create", !.table = t])
       \/ Fail /\ Refusal(j) /\ UNCHANGED <<used, owner>>
  /\ LoaderFrame

\* createTable: CREATE TABLE, which fails if somebody else has made the table meanwhile.
Create(j) ==
  /\ At(j, "create")
  /\ LET g == go[j] IN
       \/ /\ g.table \notin exists
          /\ exists' = exists \cup {g.table} /\ UNCHANGED rows
          /\ Answer(j, [g EXCEPT !.pc = "insert"])
       \/ g.table \in exists /\ Work /\ Refusal(j)
       \/ Fail /\ Refusal(j)
  /\ LoaderFrame /\ UNCHANGED <<used, owner>>

\* What comes after a batch: the next one, or the sheet is loaded (its LoadResult).
Inserted(g) ==
  IF g.batch + 1 < Batches[Sheet(g)] THEN [g EXCEPT !.batch = @ + 1]
  ELSE NextPart([g EXCEPT !.loaded = Append(@, <<g.part, g.table>>)])

\* Mistake: a batch that fails is only logged.
Insert_GoesOn(j) ==
  /\ At(j, "insert")
  /\ LET g == go[j]  t == g.table IN
       \/ /\ t \in exists
          /\ rows' = [rows EXCEPT ![t] = Append(@, <<<<j, g.file, g.part>>, g.batch + 1>>)]
          /\ UNCHANGED exists
          /\ Answer(j, Inserted(g))
       \/ Fail /\ go' = [go EXCEPT ![j] = Inserted(g)] /\ UNCHANGED <<exists, rows>>
  /\ LoaderFrame /\ UNCHANGED <<used, owner>>

\* insertBatch.  Somebody else's table may lack the columns.
Insert(j) ==
  /\ At(j, "insert")
  /\ LET g == go[j]  t == g.table IN
       \/ /\ t \in exists
          /\ rows' = [rows EXCEPT ![t] = Append(@, <<<<j, g.file, g.part>>, g.batch + 1>>)]
          /\ UNCHANGED exists
          /\ Answer(j, Inserted(g))
       \/ t \notin exists /\ Work /\ Refusal(j)
       \/ (\E l \in used[t] : l[2] # g.file) /\ Work /\ Refusal(j)
       \/ Fail /\ Refusal(j)
  /\ LoaderFrame /\ UNCHANGED <<used, owner>>

-----------------------------------------------------------------------------
(***************************************************************************)
(* The rest of processFile: status, counters, error folder, CDC, counter.  *)
(***************************************************************************)
Completed(j) ==
  /\ At(j, "completed")
  /\ files' = [files EXCEPT ![j][go[j].file] = "completed"] /\ Goto(j, "count rows")
  /\ done' = done \cup {<<<<j, go[j].file, r[1]>>, r[2]>> : r \in ToSet(go[j].loaded)}
  /\ UNCHANGED <<job, diskVars, tableVars, cdcVars, boundVars, started>>

\* What results hold, batch by batch, so that it can be counted.
BatchesOf(results) == UNION {{r} \X (1..Batches[r[2][1]]) : r \in results}

CountRows(j) ==
  /\ At(j, "count rows")
  /\ LET loaded == go[j].loaded  results == {<<n, loaded[n][2]>> : n \in DOMAIN loaded} IN
       job' = [job EXCEPT ![j].successful = @ + 1, ![j].rows = @ + Cardinality(BatchesOf(results))]
  /\ Goto(j, "trigger")
  /\ UNCHANGED <<files, diskVars, tableVars, cdcVars, boundVars, started, done>>

-----------------------------------------------------------------------------
(***************************************************************************)
(* Passes of the CDC.                                                      *)
(***************************************************************************)
\* The rows at some places of a table, in key order.
RowsAt(t, places) == {rows[t][k] : k \in places}
Above(t) == (mark[t] + 1)..Len(rows[t])

\* The checkpoint moves to n, over the rows that are read and those that are not.
Pass(t, n, unread) ==
  /\ mark' = [mark EXCEPT ![t] = n]
  /\ indexed' = [indexed EXCEPT ![t] = @ \cup RowsAt(t, ((mark[t] + 1)..n) \ unread)]
  /\ skipped' = [skipped EXCEPT ![t] = @ \cup RowsAt(t, unread)]

\* Nothing goes wrong; the table may have fewer rows than the one its name had before.
CopyAll(t) == IF Above(t) = {} THEN UNCHANGED <<mark, indexed, skipped>> ELSE Pass(t, Len(rows[t]), {})

\* A chunked pass in which something fails: it may end anywhere, and may have passed over
\* chunks below the last one that it could read.
CopySome(t) ==
  \/ UNCHANGED <<mark, indexed, skipped>>
  \/ \E n \in Above(t) : \E unread \in SUBSET ((mark[t] + 1)..(n - 1)) : Pass(t, n, unread)


Asked(j) == go' = [go EXCEPT ![j].loaded = Tail(@)]

\* TriggerTableSync, in the job's goroutine: the table is tracked and copied.  It may
\* not become known (the registry's queries fail), or its pass may fail; that is only logged.
\* Without the tables of tokens every batch does.
Trigger(j) ==
  /\ At(j, "trigger") /\ go[j].loaded # <<>>
  /\ LET t == Head(go[j].loaded)[2] IN
       \/ /\ t \in exists /\ Work /\ tokens
          /\ tracked' = tracked \cup {t} /\ CopyAll(t) /\ UNCHANGED refused
       \/ /\ t \notin exists /\ Work                            \* somebody has dropped it
          /\ UNCHANGED <<tracked, mark, indexed, refused, skipped>>
       \/ /\ Fail /\ tokens /\ refused' = refused \cup {t}
          /\ tracked' = tracked \cup {t} /\ CopySome(t)
       \/ /\ Fail /\ refused' = refused \cup {t}
          /\ UNCHANGED <<tracked, mark, indexed, skipped>>
       \/ /\ t \in exists /\ Work /\ ~tokens /\ refused' = refused \cup {t}
          /\ tracked' = tracked \cup {t} /\ UNCHANGED <<mark, indexed, skipped>>
  /\ Asked(j)
  /\ UNCHANGED <<progressVars, diskVars, tableVars, loopVars, clock, crashes, started, done>>

Failed(j) ==
  /\ At(j, "failed")
  /\ files' = [files EXCEPT ![j][go[j].file] = "failed"] /\ Goto(j, "move")
  /\ UNCHANGED <<job, diskVars, tableVars, cdcVars, boundVars, started, done>>

\* The new name's second is that of the move.
Put(f, what) ==
  /\ errorDir' = [errorDir EXCEPT ![<<Base[f], clock>>] = what]
  /\ clobbered' = clobbered \cup ({errorDir[Base[f], clock]} \ {Nothing, what})

\* Mistake: the file is removed whether it could be copied or not.
Move_RemovesAnyway(j) ==
  /\ At(j, "move")
  /\ LET f == go[j].file IN
       \/ /\ f \in folder /\ Put(f, f) /\ Work
          /\ folder' = folder \ {f} /\ Goto(j, "count failure")
       \/ /\ f \in folder /\ Put(f, Nothing) /\ Fail
          /\ UNCHANGED folder /\ Goto(j, "remove")
       \/ /\ f \notin folder /\ Work
          /\ UNCHANGED diskVars /\ Goto(j, "count failure")
  /\ UNCHANGED <<progressVars, tableVars, cdcVars, clock, crashes, started, done>>

\* moveToErrorFolder: rename, else copy and remove, else leave it.  A copy that breaks off
\* leaves a stump.
Move(j) ==
  /\ At(j, "move")
  /\ LET f == go[j].file IN
       \/ /\ f \in folder /\ Put(f, f) /\ Work
          /\ folder' = folder \ {f} /\ Goto(j, "count failure")
       \/ /\ f \in folder /\ Put(f, f) /\ Fail
          /\ UNCHANGED folder /\ Goto(j, "remove")
       \/ /\ f \in folder /\ Put(f, Nothing) /\ Fail
          /\ UNCHANGED folder /\ Goto(j, "count failure")
       \/ /\ f \notin folder /\ Work
          /\ UNCHANGED diskVars /\ Goto(j, "count failure")
  /\ UNCHANGED <<progressVars, tableVars, cdcVars, clock, crashes, started, done>>

RemoveSource(j) ==
  /\ At(j, "remove")
  /\ folder' = folder \ {go[j].file} /\ Goto(j, "count failure")
  /\ UNCHANGED <<progressVars, errorDir, clobbered, tableVars, cdcVars, boundVars, started, done>>

\* Mistake: a file that failed is counted as processed at once, and once more here.
CountFailure_Twice(j) ==
  /\ At(j, "count failure")
  /\ job' = [job EXCEPT ![j].failed = @ + 1, ![j].processed = @ + 1] /\ Goto(j, "trigger")
  /\ UNCHANGED <<files, diskVars, tableVars, cdcVars, boundVars, started, done>>

CountFailure(j) ==
  /\ At(j, "count failure")
  /\ job' = [job EXCEPT ![j].failed = @ + 1] /\ Goto(j, "trigger")
  /\ UNCHANGED <<files, diskVars, tableVars, cdcVars, boundVars, started, done>>

Processed(j) ==
  /\ At(j, "trigger") /\ go[j].loaded = <<>>
  /\ job' = [job EXCEPT ![j].processed = @ + 1] /\ Goto(j, "next")
  /\ UNCHANGED <<files, diskVars, tableVars, cdcVars, boundVars, started, done>>

Step(j) ==
  \/ NothingToDo(j) \/ Discover(j) \/ BeginFile(j) \/ EndJob(j)
  \/ Open(j) \/ Drop(j) \/ Create(j) \/ Insert(j)
  \/ Completed(j) \/ CountRows(j) \/ Trigger(j)
  \/ Failed(j) \/ Move(j) \/ RemoveSource(j) \/ CountFailure(j) \/ Processed(j)

-----------------------------------------------------------------------------
\* parallelInitialSync: the loop's first passes, over the tables there were at the start.
InitialPass(t) ==
  /\ looping /\ t \in initial /\ initial' = initial \ {t}
  /\ \/ CopyAll(t) /\ Work
     \/ CopySome(t) /\ Fail
  /\ UNCHANGED <<progressVars, go, diskVars, tableVars, tracked, looping, tokens, refused,
                 clock, crashes, started, done>>

\* Then it visits every table it tracks, again and again (incrementalSync); a visit that
\* fails leaves the checkpoint where it is, and goes past nothing.
Visit(t) ==
  /\ looping /\ initial = {} /\ t \in tracked \cap exists /\ CopyAll(t)
  /\ UNCHANGED <<progressVars, go, diskVars, tableVars, tracked, loopVars, refused, boundVars,
                 started, done>>

Second ==
  /\ clock < MaxTime /\ clock' = clock + 1
  /\ UNCHANGED <<progressVars, go, diskVars, tableVars, cdcVars, failures, crashes, started, done>>

\* The process ends (a panic, a shutdown, which waits for no job) and a new one starts.  It
\* knows no job, and its CDC tracks every table there is.
\* Unless there are none, or ensureGlobalTables fails, it recovers its checkpoints from the
\* index (where the row at the checkpoint is the last one), and a loop begins.
Crash ==
  /\ crashes < MaxCrashes /\ crashes' = crashes + 1
  /\ job' = [j \in {} |-> 0] /\ files' = [j \in {} |-> 0] /\ go' = [j \in Jobs |-> Idle]
  /\ tracked' = exists
  /\ \/ /\ looping' = (OtherTables \/ exists # {}) /\ Work
        /\ initial' = (IF looping' THEN exists ELSE {}) /\ refused' = {}
        /\ mark' = [t \in Tables |-> IF looping' /\ t \in exists THEN mark[t] ELSE 0]
        /\ tokens' = (tokens \/ looping')
     \/ /\ looping' = FALSE /\ Fail
        /\ initial' = {} /\ refused' = exists
        /\ mark' = [t \in Tables |-> 0] /\ UNCHANGED tokens
  /\ UNCHANGED <<diskVars, tableVars, indexed, skipped, clock, started, done>>

Next ==
  \/ \E j \in Jobs : StartJob(j) \/ Step(j)
  \/ \E t \in Tables : InitialPass(t) \/ Visit(t)
  \/ Second \/ Crash

Spec == Init /\ [][Next]_vars

\* Goroutines run, and the loop, where there is one, comes round (CdcManager's
\* VisitedForever).
FairSpec == /\ Spec /\ \A j \in Jobs : WF_vars(Step(j))
            /\ WF_vars(\E t \in Tables : InitialPass(t)) /\ WF_vars(\E t \in Tables : Visit(t))

(***************************************************************************)
(* Properties.                                                             *)
(***************************************************************************)
\* Every variable has its type; in particular a file hands on results of its own sheets only.
TypeOK ==
  /\ Known \subseteq started /\ started \subseteq Jobs /\ DOMAIN files = Known
  /\ \A j \in Known :
       /\ job[j].status \in {"running", "completed", "failed"}
       /\ \A f \in DOMAIN files[j] : files[j][f] \in {"pending", "processing", "completed", "failed"}
       /\ go[j].todo \subseteq DOMAIN files[j] /\ go[j].batch \in Nat
       /\ go[j].file # 0 => go[j].part \in 0..Len(Parts[go[j].file])
       /\ \A r \in ToSet(go[j].loaded) : r[2][1] = Parts[go[j].file][r[1]]
  /\ folder \cup clobbered \subseteq Files /\ Range(errorDir) \subseteq Files \cup {Nothing}
  /\ tracked \cup refused \cup exists \cup initial \subseteq Tables /\ {looping, tokens} \subseteq BOOLEAN
  /\ \A t \in Tables \ exists : rows[t] = <<>>

\* What GetJobProgress shows adds up at every moment: statuses and counters are written
\* under separate locks, but no counter runs ahead of the statuses or more than one file
\* behind, and a completed job's counters are those of its files.
CountersAgree == \A j \in Known :
  LET Are(s) == Cardinality({f \in DOMAIN files[j] : files[j][f] = s})
      J == job[j]
  IN /\ J.successful <= Are("completed") /\ J.failed <= Are("failed")
     /\ Are("completed") + Are("failed") <= J.processed + 1
     /\ J.processed <= J.successful + J.failed /\ J.successful + J.failed <= J.processed + 1
     /\ J.status = "completed" => /\ J.processed = J.total /\ J.total = Cardinality(DOMAIN files[j])
                                  /\ J.successful = Are("completed") /\ J.failed = Are("failed")
                                  /\ J.rows = Cardinality(BatchesOf({d \in done : d[1][1] = j}))

\* A load shown as completed has all its rows in its table, whatever failed and whoever
\* else was at work, unless somebody has dropped the table of that name since; and if
\* nobody else ever used the name, they are its only rows, each there once.
LoadedUnlessReplaced == \A d \in done :
  LET l == d[1]  t == d[2] IN
  /\ owner[t] = l => \A b \in 1..Batches[t[1]] : <<l, b>> \in ToSet(rows[t])
  /\ used[t] = {l} => rows[t] = [b \in 1..Batches[t[1]] |-> <<l, b>>]

\* A file is in its place or in the error folder, or a namesake that failed in the same
\* second, or a copy that broke off, has overwritten it there.
FilesKept == \A f \in Files : f \in folder \/ f \in Range(errorDir) \/ f \in clobbered

\* Every job ends: completed, failed, or forgotten with its process, and with it the
\* stream of its progress (StreamJobProgress).  There are finitely many jobs: from some
\* moment on none is running.
Running  == \E j \in Known : job[j].status = "running"
JobsEnd  == <>[]~Running

\* In the end the rows of every completed load are in the search index, but for what the
\* code gives up: rows that a chunked pass has gone past (CdcTable's skipped), a table whose
\* name was used twice, and one that the CDC failed to take or copy in a process that goes
\* on without tracking it, or has no loop to make up for it.
MakesUp(t) == looping /\ t \in tracked
Caught == \A d \in done : LET t == d[2] IN
  \/ ToSet(rows[t]) \subseteq indexed[t] \cup skipped[t]
  \/ used[t] # {d[1]}
  \/ t \in refused /\ ~MakesUp(t)
=============================================================================

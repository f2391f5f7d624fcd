----------------------------- MODULE JobsProofs -----------------------------
(***************************************************************************)
(* PipelineJobs for any number of jobs, files, sheets, batches, failures   *)
(* and crashes: types, FilesKept, LoadedUnlessReplaced and CountersAgree,  *)
(* and that no step takes a job back.                                      *)
(*                                                                         *)
(* The argument for the loads.  Call a load a job, a file and a sheet.  A  *)
(* load drops its table once, and only then writes it; it is never begun   *)
(* again, since a file leaves a job's list before it is opened, sheets are *)
(* counted upwards, and job ids are not used twice.  So as long as a load  *)
(* owns its table's name, no statement takes rows from it (Holds), from    *)
(* its CREATE to its last batch, and as long as nobody else has used the   *)
(* name, no statement adds any.                                            *)
(***************************************************************************)
EXTENDS PipelineJobs, LeastNumber, SequenceTheorems, FiniteSetTheorems, TLAPS

AnyLoad == Jobs \X Files \X Nat

Pcs == {"none", "discover", "next", "open", "drop", "create", "insert", "completed", "count rows",
        "trigger", "failed", "move", "remove", "count failure"}

Loading  == {"drop", "create", "insert"}              \* a sheet is being loaded
Before   == {"open", "completed"} \cup Loading        \* nothing of the file has been shown yet
WithFile == Pcs \ {"none", "discover", "next"}

LoadResults == Seq(Nat \X Tables)                     \* sheets and their tables

GoType == [pc : Pcs, todo : SUBSET Files, file : Files \cup {0}, part : Nat,
           table : Tables \cup {<<>>}, batch : Nat, loaded : LoadResults]

Fields == {"status", "total", "processed", "successful", "failed", "rows"}

IsProgress(r) == r = [x \in Fields |-> r[x]] /\ r.status \in {"running", "completed", "failed"}

\* The first n batches of load l are in table t, if it is still l's; and if nobody else has
\* used the name, nothing else is.
Holds(l, t, n) ==
  /\ owner[t] = l => \A b \in 1..n : <<l, b>> \in ToSet(rows[t])
  /\ used[t] = {l} => Len(rows[t]) = n /\ \A b \in 1..n : rows[t][b] = <<l, b>>

MyLoad(j, g) == <<j, g.file, g.part>>

\* What goroutine g of job j has done so far, and what it will not do again.
FileFits(j, g) ==
  /\ g.todo \subseteq DOMAIN files[j]
  /\ g.pc \in WithFile => g.file # 0
  /\ g.pc = "discover" => g.file = 0
  /\ g.file # 0 => g.file \in DOMAIN files[j] \ g.todo /\ g.part \in 0..Len(Parts[g.file])
  /\ g.file = 0 => g.loaded = <<>>
  /\ g.pc = "remove" => g.file \in Range(errorDir) \cup clobbered

SheetFits(j, g) ==
  /\ g.pc \in Loading => g.part > 0 /\ g.batch < Batches[Sheet(g)]
  /\ g.pc \in {"drop", "create"} => g.batch = 0
  /\ g.pc \in {"create", "insert"} => /\ g.table \in Tables /\ g.table[1] = Sheet(g)
                                      /\ MyLoad(j, g) \in used[g.table]
                                      /\ Holds(MyLoad(j, g), g.table, g.batch)

OwnSheets(g) == \A r \in ToSet(g.loaded) : r[1] \in 1..g.part /\ r[2][1] = Parts[g.file][r[1]]

ResultsFit(j, g) == OwnSheets(g) /\ \A r \in ToSet(g.loaded) :
  (g.pc \in Loading => r[1] < g.part) /\ Holds(<<j, g.file, r[1]>>, r[2], Batches[r[2][1]])

NothingTwice(j, g) == \A d \in done : d[1][1] = j =>
  g.pc # "discover" /\ d[1][2] \notin g.todo /\ (g.pc \in Before => d[1][2] # g.file)

Fit(j, g) == FileFits(j, g) /\ SheetFits(j, g) /\ ResultsFit(j, g) /\ NothingTwice(j, g)

Workers == /\ go \in [Jobs -> GoType]
           /\ \A j \in Known : Fit(j, go[j])
           /\ \A j \in Jobs \ Known : go[j] = Idle

Progress ==
  /\ Known \subseteq started /\ started \subseteq Jobs
  /\ job = [j \in Known |-> job[j]] /\ files = [j \in Known |-> files[j]]
  /\ \A j \in Known :
       /\ IsProgress(job[j]) /\ DOMAIN files[j] \subseteq Files
       /\ files[j] \in [DOMAIN files[j] -> {"pending", "processing", "completed", "failed"}]

Disk ==
  /\ folder \subseteq Files /\ clobbered \subseteq Files /\ clock \in 0..MaxTime
  /\ errorDir \in [Range(Base) \X (0..MaxTime) -> Files \cup {Nothing}]
  /\ FilesKept

Store ==
  /\ tracked \cup refused \cup exists \subseteq Tables
  /\ rows \in [Tables -> Seq(AnyLoad \X Nat)] /\ \A t \in Tables \ exists : rows[t] = <<>>
  /\ used \in [Tables -> SUBSET AnyLoad] /\ owner \in [Tables -> AnyLoad \cup {<<>>}]

Results ==
  /\ done \subseteq AnyLoad \X Tables
  /\ \A d \in done : d[1][1] \in started /\ Holds(d[1], d[2], Batches[d[2][1]])

IInv == Progress /\ Disk /\ Store /\ Workers /\ Results

-----------------------------------------------------------------------------
(***************************************************************************)
(* Sequences and names.                                                    *)
(***************************************************************************)
LEMMA ToSetOfAppend ==
  ASSUME NEW S, NEW s \in Seq(S), NEW e \in S
  PROVE  Append(s, e) \in Seq(S) /\ ToSet(Append(s, e)) = ToSet(s) \cup {e}
<1>1. Append(s, e) \in Seq(S) /\ Len(Append(s, e)) = Len(s) + 1
      /\ \A i \in 1..Len(s) : Append(s, e)[i] = s[i]
      /\ Append(s, e)[Len(s) + 1] = e
  BY AppendProperties
<1>2. Len(s) \in Nat /\ DOMAIN s = 1..Len(s) /\ DOMAIN Append(s, e) = 1..(Len(s) + 1)
  BY <1>1, LenProperties
<1>3. ASSUME NEW x \in ToSet(Append(s, e)) PROVE x \in ToSet(s) \cup {e}
  <2>1. PICK i \in 1..(Len(s) + 1) : x = Append(s, e)[i]
    BY <1>2, <1>3 DEF ToSet
  <2>2. i \in 1..Len(s) \/ i = Len(s) + 1
    BY <1>2, <2>1
  <2> QED BY <1>1, <1>2, <2>1, <2>2 DEF ToSet
<1>4. ASSUME NEW x \in ToSet(s) PROVE x \in ToSet(Append(s, e))
  <2>1. PICK i \in 1..Len(s) : x = s[i]
    BY <1>2, <1>4 DEF ToSet
  <2>2. i \in 1..(Len(s) + 1)
    BY <1>2, <2>1
  <2> QED BY <1>1, <1>2, <2>1, <2>2 DEF ToSet
<1>5. e \in ToSet(Append(s, e))
  <2>1. Len(s) + 1 \in 1..(Len(s) + 1)
    BY <1>2
  <2> QED BY <1>1, <1>2, <2>1 DEF ToSet
<1> QED BY <1>1, <1>3, <1>4, <1>5

LEMMA ToSetOfTail ==
  ASSUME NEW S, NEW s \in Seq(S), s # <<>>
  PROVE  Head(s) \in ToSet(s) /\ Head(s) \in S /\ Tail(s) \in Seq(S) /\ ToSet(Tail(s)) \subseteq ToSet(s)
<1>1. /\ Head(s) \in S /\ Head(s) = s[1] /\ Tail(s) \in Seq(S)
      /\ Len(Tail(s)) = Len(s) - 1 /\ \A i \in 1..Len(Tail(s)) : Tail(s)[i] = s[i + 1]
  BY HeadTailProperties
<1>2. Len(s) \in Nat /\ Len(s) # 0 /\ DOMAIN s = 1..Len(s) /\ DOMAIN Tail(s) = 1..(Len(s) - 1)
  BY <1>1, LenProperties, EmptySeq
<1>3. Head(s) \in ToSet(s)
  <2>1. 1 \in 1..Len(s)
    BY <1>2
  <2> QED BY <1>1, <1>2, <2>1 DEF ToSet
<1>4. ASSUME NEW x \in ToSet(Tail(s)) PROVE x \in ToSet(s)
  <2>1. PICK i \in 1..(Len(s) - 1) : x = Tail(s)[i]
    BY <1>2, <1>4 DEF ToSet
  <2>2. i + 1 \in 1..Len(s) /\ x = s[i + 1]
    BY <1>1, <1>2, <2>1
  <2> QED BY <1>2, <2>2 DEF ToSet
<1> QED BY <1>1, <1>3, <1>4

LEMMA EmptyToSet == ToSet(<<>>) = {}
  BY DEF ToSet

LEMMA ToSetOfSeq ==
  ASSUME NEW S, NEW s \in Seq(S)
  PROVE  ToSet(s) \subseteq S
<1>1. DOMAIN s = 1..Len(s) /\ \A i \in 1..Len(s) : s[i] \in S
  BY LenProperties, ElementOfSeq
<1> QED BY <1>1 DEF ToSet

\* A sheet's name is one a table may have, and it takes at least one batch to load it.
LEMMA SheetMeans ==
  ASSUME NEW f \in Files, NEW n \in 1..Len(Parts[f])
  PROVE  Parts[f][n] \in Names /\ Batches[Parts[f][n]] \in Nat \ {0}
<1>1. Parts[f][n] \in ToSet(Parts[f])
  BY JobsAssumption DEF ToSet
<1>2. Parts[f][n] \in Names
  BY <1>1 DEF Names
<1> QED BY <1>2, JobsAssumption

LEMMA FilesAreNumbers == Files \subseteq Nat /\ 0 \notin Files
  BY JobsAssumption DEF Files
-----------------------------------------------------------------------------
(***************************************************************************)
(* The steps that leave the tables alone.                                  *)
(***************************************************************************)
LEMMA IdleMeans == Idle \in GoType /\ Idle.pc = "none" /\ Idle.file = 0 /\ Idle.loaded = <<>> /\ Idle.todo = {}
                   /\ Idle.part = 0 /\ Idle.batch = 0 /\ Idle.table = <<>>
  BY EmptySeq DEF Idle, GoType, Pcs, LoadResults

LEMMA InitHolds == Init => IInv
<1>1. SUFFICES ASSUME Init PROVE IInv
  OBVIOUS
<1>2. Known = {}
  BY <1>1 DEF Init, Known
<1>3. Progress
  BY <1>1, <1>2 DEF Init, Progress, Known
<1>4. Disk
  BY <1>1, JobsAssumption DEF Init, Disk, FilesKept
<1>5. Store
  BY <1>1, EmptySeq DEF Init, Store
<1>6. Workers
  BY <1>1, <1>2, IdleMeans DEF Init, Workers
<1>7. Results
  BY <1>1 DEF Init, Results
<1> QED BY <1>3, <1>4, <1>5, <1>6, <1>7 DEF IInv

\* A goroutine's own step, while the tables stay as they are and no file is given up.
LEMMA WorkerStep ==
  ASSUME Workers, Known \subseteq Jobs, NEW j \in Known, Known' = Known, go' = [go EXCEPT ![j] = go'[j]],
         \A i \in Known \ {j} : DOMAIN files'[i] = DOMAIN files[i],
         Range(errorDir) \cup clobbered \subseteq Range(errorDir') \cup clobbered',
         UNCHANGED tableVars, \A d \in done' \ done : d[1][1] = j,
         go'[j] \in GoType, Fit(j, go[j])'
  PROVE  Workers'
<1>1. go' \in [Jobs -> GoType]
  BY DEF Workers
<1>2. ASSUME NEW i \in Known \ {j} PROVE Fit(i, go[i])'
  <2>1. Fit(i, go[i]) /\ go'[i] = go[i] /\ DOMAIN files'[i] = DOMAIN files[i]
    BY DEF Workers
  <2>2. UNCHANGED <<rows, used, owner>>
    BY DEF tableVars
  <2>3. FileFits(i, go[i])'
    <3>1. FileFits(i, go[i])
      BY <2>1 DEF Fit
    <3>2. go[i].pc = "remove" => go[i].file \in (Range(errorDir) \cup clobbered)'
      BY <3>1 DEF FileFits
    <3> QED BY <2>1, <3>1, <3>2 DEF FileFits
  <2>4. SheetFits(i, go[i])' /\ ResultsFit(i, go[i])'
    BY <2>1, <2>2 DEF Fit, SheetFits, ResultsFit, OwnSheets, Holds
  <2>5. NothingTwice(i, go[i])'
    BY <2>1 DEF Fit, NothingTwice
  <2> QED BY <2>3, <2>4, <2>5 DEF Fit
<1>3. \A i \in Jobs \ Known : go'[i] = Idle
  BY DEF Workers
<1> QED BY <1>1, <1>2, <1>3 DEF Workers

\* What a step leaves alone stays in order.
LEMMA StoreStays ==
  ASSUME Store, Results, UNCHANGED <<tableVars, done>>, started \subseteq started',
         tracked' \cup refused' \subseteq Tables
  PROVE  Store' /\ Results'
  BY DEF Store, Results, tableVars, Holds

LEMMA DiskStays == ASSUME Disk, UNCHANGED diskVars, UNCHANGED clock PROVE Disk'
  BY DEF Disk, diskVars, FilesKept

\* The job's progress record: status and counters.
LEMMA ProgressStep ==
  ASSUME Progress, NEW j \in Known, started' = started, files' = files,
         job' = [job EXCEPT ![j] = job'[j]], IsProgress(job'[j])
  PROVE  Progress' /\ Known' = Known
<1>1. Known' = Known
  BY DEF Known
<1>2. job' = [i \in Known |-> job'[i]]
  BY <1>1 DEF Known
<1>3. \A i \in Known : IsProgress(job'[i])
  BY DEF Progress, Known
<1> QED BY <1>1, <1>2, <1>3 DEF Progress, IsProgress

LEMMA ProgressStays ==
  ASSUME Progress, UNCHANGED <<progressVars, started>>
  PROVE  Progress' /\ Known' = Known
  BY DEF Progress, progressVars, Known, IsProgress

LEMMA StartJobHolds ==
  ASSUME IInv, NEW j \in Jobs, StartJob(j)
  PROVE  IInv'
<1>1. /\ j \notin started /\ started' = started \cup {j}
      /\ Known' = Known \cup {j} /\ j \notin Known /\ Known \subseteq Jobs
      /\ go' = [go EXCEPT ![j] = [@ EXCEPT !.pc = "discover"]] /\ go[j] = Idle
      /\ UNCHANGED <<diskVars, tableVars, cdcVars, boundVars, done>>
  BY DEF StartJob, Goto, Known, IInv, Progress, Workers
<1>2. /\ \A i \in Known : job'[i] = job[i] /\ files'[i] = files[i]
      /\ files'[j] = [f \in {} |-> ""]
      /\ job'[j] = [status |-> "running", total |-> 0, processed |-> 0, successful |-> 0, failed |-> 0, rows |-> 0]
      /\ job' = [i \in Known' |-> job'[i]] /\ files' = [i \in Known' |-> files'[i]]
  <2>1. job' = [i \in Known \cup {j} |-> IF i = j
          THEN [status |-> "running", total |-> 0, processed |-> 0, successful |-> 0, failed |-> 0, rows |-> 0]
          ELSE job[i]]
    BY SMTT(30) DEF StartJob
  <2>2. files' = [i \in Known \cup {j} |-> IF i = j THEN [f \in {} |-> ""] ELSE files[i]]
    BY SMTT(30) DEF StartJob
  <2> QED BY <1>1, <2>1, <2>2
<1>3. Progress'
  <2>1. IsProgress(job'[j]) /\ \A i \in Known : IsProgress(job'[i])
    BY <1>2 DEF IsProgress, Fields, IInv, Progress
  <2>2. \A i \in Known' : /\ DOMAIN files'[i] \subseteq Files
                          /\ files'[i] \in [DOMAIN files'[i] -> {"pending", "processing", "completed", "failed"}]
    BY <1>1, <1>2 DEF IInv, Progress
  <2>3. Known' \subseteq started' /\ started' \subseteq Jobs
    BY <1>1 DEF IInv, Progress
  <2> QED BY <1>1, <1>2, <2>1, <2>2, <2>3 DEF Progress, IsProgress
<1>4. Workers'
  <2>1. go'[j] = [Idle EXCEPT !.pc = "discover"] /\ go'[j] \in GoType
    BY <1>1, IdleMeans DEF IInv, Workers, GoType, Pcs
  <2>2. /\ go'[j].pc = "discover" /\ go'[j].file = 0 /\ go'[j].loaded = <<>> /\ go'[j].todo = {}
    BY <2>1 DEF Idle
  <2>3. \A d \in done : d[1][1] # j
    BY <1>1 DEF IInv, Results
  <2>4. Fit(j, go[j])'
    BY <1>1, <2>2, <2>3, EmptyToSet
       DEF Fit, FileFits, SheetFits, ResultsFit, OwnSheets, NothingTwice, WithFile, Loading, Before
  <2>5. ASSUME NEW i \in Known PROVE Fit(i, go[i])'
    <3>1. Fit(i, go[i]) /\ go'[i] = go[i] /\ files'[i] = files[i]
      BY <1>1, <1>2 DEF IInv, Workers
    <3>2. UNCHANGED <<errorDir, clobbered, rows, used, owner, done>>
      BY <1>1 DEF tableVars, diskVars
    <3>3. FileFits(i, go[i])' /\ NothingTwice(i, go[i])'
      BY <3>1, <3>2 DEF Fit, FileFits, NothingTwice
    <3>4. SheetFits(i, go[i])' /\ ResultsFit(i, go[i])'
      <4>1. \A l, t, k : Holds(l, t, k)' <=> Holds(l, t, k)
        BY <3>2 DEF Holds
      <4>2. SheetFits(i, go[i])'
        BY <3>1, <3>2, <4>1 DEF Fit, SheetFits
      <4>3. ResultsFit(i, go[i])'
        BY <3>1, <4>1 DEF Fit, ResultsFit, OwnSheets
      <4> QED BY <4>2, <4>3
    <3> QED BY <3>3, <3>4 DEF Fit
  <2>6. go' \in [Jobs -> GoType] /\ \A i \in Jobs \ Known' : go'[i] = Idle
    BY <1>1, <2>1 DEF IInv, Workers
  <2> QED BY <1>1, <2>4, <2>5, <2>6 DEF Workers
<1>5. Store' /\ Results' /\ Disk'
  BY <1>1, StoreStays, DiskStays DEF IInv, Store, cdcVars, boundVars
<1> QED BY <1>3, <1>4, <1>5 DEF IInv

\* The steps of a job in which nothing but its own progress changes.
LEMMA ProgressOnlyHolds ==
  ASSUME IInv, NEW j \in Jobs, NothingToDo(j) \/ EndJob(j) \/ CountRows(j) \/ CountFailure(j) \/ Processed(j)
  PROVE  IInv'
<1>1. /\ j \in Known /\ Known \subseteq Jobs
      /\ UNCHANGED <<files, diskVars, tableVars, cdcVars, clock, started, done>>
      /\ go[j] \in GoType /\ Fit(j, go[j]) /\ go \in [Jobs -> GoType]
  BY DEF NothingToDo, EndJob, CountRows, CountFailure, Processed, At, IInv, Progress, Workers, boundVars
<1>2. IsProgress(job[j]) /\ job = [i \in Known |-> job[i]]
  BY <1>1 DEF IInv, Progress
<1>3. job' = [job EXCEPT ![j] = job'[j]] /\ IsProgress(job'[j])
  <2>1. CASE NothingToDo(j)
    <3>1. job'[j] = [job[j] EXCEPT !.status = "failed"] /\ job' = [job EXCEPT ![j] = job'[j]]
      BY <1>1, <1>2, <2>1 DEF NothingToDo
    <3> QED BY <1>2, <3>1 DEF IsProgress, Fields
  <2>2. CASE EndJob(j)
    <3>1. job'[j] = [job[j] EXCEPT !.status = "completed"] /\ job' = [job EXCEPT ![j] = job'[j]]
      BY <1>1, <1>2, <2>2 DEF EndJob
    <3> QED BY <1>2, <3>1 DEF IsProgress, Fields
  <2>3. CASE CountRows(j)
    <3> DEFINE loaded == go[j].loaded
               n == job[j].rows + Cardinality(BatchesOf({<<i, loaded[i][2]>> : i \in DOMAIN loaded}))
    <3>1. job' = [job EXCEPT ![j].successful = @ + 1, ![j].rows = n]
      BY <2>3 DEF CountRows
    <3> HIDE DEF n
    <3>2. job'[j] = [job[j] EXCEPT !.successful = job[j].successful + 1, !.rows = n]
          /\ job' = [job EXCEPT ![j] = job'[j]]
      BY <1>1, <1>2, <3>1
    <3> QED BY <1>2, <3>2 DEF IsProgress, Fields
  <2>4. CASE CountFailure(j)
    <3>1. job'[j] = [job[j] EXCEPT !.failed = job[j].failed + 1] /\ job' = [job EXCEPT ![j] = job'[j]]
      BY <1>1, <1>2, <2>4 DEF CountFailure
    <3> QED BY <1>2, <3>1 DEF IsProgress, Fields
  <2>5. CASE Processed(j)
    <3>1. job'[j] = [job[j] EXCEPT !.processed = job[j].processed + 1] /\ job' = [job EXCEPT ![j] = job'[j]]
      BY <1>1, <1>2, <2>5 DEF Processed
    <3> QED BY <1>2, <3>1 DEF IsProgress, Fields
  <2> QED BY <1>1, <2>1, <2>2, <2>3, <2>4, <2>5
<1>4. Progress' /\ Known' = Known
  BY <1>1, <1>3, ProgressStep DEF IInv
<1>5. go'[j] \in GoType /\ go' = [go EXCEPT ![j] = go'[j]]
      /\ \/ go'[j] = Idle
         \/ go'[j] = [go[j] EXCEPT !.pc = "none"] /\ go[j].pc = "discover"
         \/ go'[j] = [go[j] EXCEPT !.pc = "trigger"] /\ go[j].pc \in {"count rows", "count failure"}
         \/ go'[j] = [go[j] EXCEPT !.pc = "next"] /\ go[j].pc = "trigger"
  <2>1. CASE NothingToDo(j)
    <3>1. go' = [go EXCEPT ![j] = [@ EXCEPT !.pc = "none"]] /\ go[j].pc = "discover"
      BY <2>1 DEF NothingToDo, Goto, At
    <3> QED BY <1>1, <3>1 DEF GoType, Pcs
  <2>2. CASE EndJob(j)
    BY <1>1, <2>2, IdleMeans DEF EndJob
  <2>3. CASE CountRows(j)
    <3>1. go' = [go EXCEPT ![j] = [@ EXCEPT !.pc = "trigger"]] /\ go[j].pc = "count rows"
      BY <2>3 DEF CountRows, Goto, At
    <3> QED BY <1>1, <3>1 DEF GoType, Pcs
  <2>4. CASE CountFailure(j)
    <3>1. go' = [go EXCEPT ![j] = [@ EXCEPT !.pc = "trigger"]] /\ go[j].pc = "count failure"
      BY <2>4 DEF CountFailure, Goto, At
    <3> QED BY <1>1, <3>1 DEF GoType, Pcs
  <2>5. CASE Processed(j)
    <3>1. go' = [go EXCEPT ![j] = [@ EXCEPT !.pc = "next"]] /\ go[j].pc = "trigger"
      BY <2>5 DEF Processed, Goto, At
    <3> QED BY <1>1, <3>1 DEF GoType, Pcs
  <2> QED BY <1>1, <2>1, <2>2, <2>3, <2>4, <2>5
<1>6. Fit(j, go[j])'
  <2>1. UNCHANGED <<files, errorDir, clobbered, rows, used, owner, done>>
    BY <1>1 DEF tableVars, diskVars
  <2>2. CASE go'[j] = Idle
    BY <2>1, <2>2, IdleMeans, EmptyToSet
       DEF Fit, FileFits, SheetFits, ResultsFit, OwnSheets, NothingTwice, WithFile, Loading, Before
  <2>3. CASE go'[j] # Idle
    <3>1. /\ go'[j].todo = go[j].todo /\ go'[j].file = go[j].file /\ go'[j].part = go[j].part
          /\ go'[j].loaded = go[j].loaded /\ go'[j].batch = go[j].batch /\ go'[j].table = go[j].table
          /\ go'[j].pc \in {"none", "trigger", "next"}
          /\ go'[j].pc = "trigger" => go[j].pc \in {"count rows", "count failure"}
      BY <1>1, <1>5, <2>3 DEF GoType
    <3>2. FileFits(j, go[j])'
      BY <1>1, <2>1, <3>1 DEF Fit, FileFits, WithFile, Pcs
    <3>3. SheetFits(j, go[j])'
      BY <3>1 DEF SheetFits, Loading
    <3>4. ResultsFit(j, go[j])'
      <4>1. \A l, t, n : Holds(l, t, n)' <=> Holds(l, t, n)
        BY <2>1 DEF Holds
      <4>2. ResultsFit(j, go[j]) /\ go'[j].pc \notin Loading
        BY <1>1, <3>1 DEF Fit, Loading
      <4> QED BY <3>1, <4>1, <4>2 DEF ResultsFit, OwnSheets
    <3>5. NothingTwice(j, go[j])'
      BY <1>1, <2>1, <3>1 DEF Fit, NothingTwice, Before, Loading
    <3> QED BY <3>2, <3>3, <3>4, <3>5 DEF Fit
  <2> QED BY <2>2, <2>3
<1>7. Workers'
  BY <1>1, <1>4, <1>5, <1>6, WorkerStep DEF IInv, diskVars
<1>8. Store' /\ Results' /\ Disk'
  BY <1>1, StoreStays, DiskStays DEF IInv, Store, cdcVars
<1> QED BY <1>4, <1>7, <1>8 DEF IInv

\* A file's status.
LEMMA StatusStep ==
  ASSUME Progress, NEW j \in Known, NEW f \in DOMAIN files[j], UNCHANGED <<job, started>>,
         NEW s \in {"pending", "processing", "completed", "failed"},
         files' = [files EXCEPT ![j][f] = s]
  PROVE  Progress' /\ Known' = Known /\ \A i \in Known : DOMAIN files'[i] = DOMAIN files[i]
<1>1. Known' = Known
  BY DEF Known
<1>2. /\ files' = [i \in Known |-> files'[i]]
      /\ \A i \in Known : DOMAIN files'[i] = DOMAIN files[i]
      /\ \A i \in Known : files'[i] \in [DOMAIN files[i] -> {"pending", "processing", "completed", "failed"}]
  BY DEF Progress
<1> QED BY <1>1, <1>2 DEF Progress

LEMMA GoRecord ==
  ASSUME NEW c \in Pcs, NEW t \in SUBSET Files, NEW f \in Files \cup {0}, NEW p \in Nat,
         NEW u \in Tables \cup {<<>>}, NEW b \in Nat, NEW l \in LoadResults
  PROVE  [pc |-> c, todo |-> t, file |-> f, part |-> p, table |-> u, batch |-> b, loaded |-> l] \in GoType
  BY DEF GoType

LEMMA DiscoverHolds ==
  ASSUME IInv, NEW j \in Jobs, Discover(j)
  PROVE  IInv'
<1> DEFINE found == FolderOf[j] \cap folder
<1>1. /\ j \in Known /\ Known \subseteq Jobs /\ go[j].pc = "discover"
      /\ UNCHANGED <<diskVars, tableVars, cdcVars, boundVars, started, done>>
      /\ go[j] \in GoType /\ Fit(j, go[j]) /\ go \in [Jobs -> GoType]
      /\ IsProgress(job[j]) /\ job = [i \in Known |-> job[i]] /\ files = [i \in Known |-> files[i]]
      /\ found \subseteq Files
  BY JobsAssumption DEF Discover, At, IInv, Progress, Workers
<1>2. /\ job' = [job EXCEPT ![j].total = Cardinality(found)]
      /\ files' = [files EXCEPT ![j] = [f \in found |-> "pending"]]
      /\ go' = [go EXCEPT ![j] = [@ EXCEPT !.pc = "next", !.todo = found]]
  BY DEF Discover
<1> HIDE DEF found
<1>3. /\ Known' = Known /\ job' = [i \in Known |-> job'[i]] /\ files' = [i \in Known |-> files'[i]]
      /\ \A i \in Known \ {j} : job'[i] = job[i] /\ files'[i] = files[i]
      /\ IsProgress(job'[j]) /\ files'[j] = [f \in found |-> "pending"]
  BY <1>1, <1>2 DEF Known, IsProgress, Fields
<1>4. Progress'
  <2>1. \A i \in Known : IsProgress(job'[i])
    BY <1>3 DEF IInv, Progress
  <2>2. \A i \in Known : /\ DOMAIN files'[i] \subseteq Files
                         /\ files'[i] \in [DOMAIN files'[i] -> {"pending", "processing", "completed", "failed"}]
    BY <1>1, <1>3 DEF IInv, Progress
  <2> QED BY <1>1, <1>3, <2>1, <2>2 DEF IInv, Progress, IsProgress
<1>5. /\ go' = [go EXCEPT ![j] = go'[j]] /\ go'[j] \in GoType
      /\ go'[j].pc = "next" /\ go'[j].todo = found /\ go'[j].file = go[j].file
      /\ go'[j].loaded = go[j].loaded /\ go'[j].part = go[j].part
  BY <1>1, <1>2 DEF GoType, Pcs
<1>6. Fit(j, go[j])'
  <2>1. UNCHANGED <<errorDir, clobbered, rows, used, owner, done>>
    BY <1>1 DEF tableVars, diskVars
  <2>2. \A d \in done : d[1][1] # j
    BY <1>1 DEF Fit, NothingTwice
  <2>3. go[j].file = 0 /\ go[j].loaded = <<>>
    BY <1>1 DEF Fit, FileFits
  <2>4. DOMAIN files'[j] = found
    BY <1>3
  <2>5. FileFits(j, go[j])' /\ SheetFits(j, go[j])'
    BY <1>5, <2>3, <2>4 DEF FileFits, SheetFits, WithFile, Loading
  <2>6. ResultsFit(j, go[j])' /\ NothingTwice(j, go[j])'
    BY <1>5, <2>1, <2>2, <2>3, EmptyToSet DEF ResultsFit, OwnSheets, NothingTwice
  <2> QED BY <2>5, <2>6 DEF Fit
<1>7. Workers'
  BY <1>1, <1>3, <1>5, <1>6, WorkerStep DEF IInv, diskVars
<1>8. Store' /\ Results' /\ Disk'
  BY <1>1, StoreStays, DiskStays DEF IInv, Store, cdcVars, boundVars
<1> QED BY <1>4, <1>7, <1>8 DEF IInv

LEMMA BeginFileHolds ==
  ASSUME IInv, NEW j \in Jobs, BeginFile(j)
  PROVE  IInv'
<1>1. /\ j \in Known /\ Known \subseteq Jobs /\ go[j].pc = "next" /\ go[j].todo # {}
      /\ UNCHANGED <<job, diskVars, tableVars, cdcVars, boundVars, started, done>>
      /\ go[j] \in GoType /\ Fit(j, go[j]) /\ go \in [Jobs -> GoType]
  BY DEF BeginFile, At, IInv, Progress, Workers
<1>2. PICK f \in go[j].todo :
        /\ files' = [files EXCEPT ![j][f] = "processing"]
        /\ go' = [go EXCEPT ![j] = [Idle EXCEPT !.pc = "open", !.todo = go[j].todo \ {f}, !.file = f]]
  <2>1. go[j].todo \in SUBSET Nat
    BY <1>1, FilesAreNumbers DEF GoType
  <2>2. Min(go[j].todo) \in go[j].todo
    BY <1>1, <2>1, MinExists DEF Min
  <2> QED BY <2>2 DEF BeginFile
<1>3. f \in DOMAIN files[j] /\ f \in Files /\ go[j].todo \subseteq DOMAIN files[j] /\ f # 0
      /\ \A d \in done : d[1][1] = j => d[1][2] \notin go[j].todo
  BY <1>1, FilesAreNumbers DEF Fit, FileFits, NothingTwice, GoType
<1>4. Progress' /\ Known' = Known /\ \A i \in Known : DOMAIN files'[i] = DOMAIN files[i]
  BY <1>1, <1>2, <1>3, StatusStep DEF IInv
<1>5. /\ go' = [go EXCEPT ![j] = go'[j]] /\ go'[j] \in GoType
      /\ go'[j].pc = "open" /\ go'[j].todo = go[j].todo \ {f} /\ go'[j].file = f
      /\ go'[j].loaded = <<>> /\ go'[j].part = 0
  <2>1. go'[j] = [pc |-> "open", todo |-> go[j].todo \ {f}, file |-> f, part |-> 0, table |-> <<>>,
                  batch |-> 0, loaded |-> <<>>]
    BY <1>1, <1>2 DEF Idle
  <2>2. <<>> \in LoadResults
    BY EmptySeq DEF LoadResults
  <2>3. go[j].todo \ {f} \in SUBSET Files /\ f \in Files
    BY <1>1, <1>3 DEF GoType
  <2>4. go'[j] \in GoType
    <3>1. "open" \in Pcs
      BY DEF Pcs
    <3>2. [pc |-> "open", todo |-> go[j].todo \ {f}, file |-> f, part |-> 0, table |-> <<>>,
           batch |-> 0, loaded |-> <<>>] \in GoType
      BY <2>2, <2>3, <3>1, GoRecord
    <3> QED BY <2>1, <3>2
  <2> QED BY <1>1, <1>2, <2>1, <2>4
<1>6. Fit(j, go[j])'
  <2>1. UNCHANGED <<errorDir, clobbered, rows, used, owner, done>>
    BY <1>1 DEF tableVars, diskVars
  <2>2. FileFits(j, go[j])'
    BY <1>1, <1>3, <1>4, <1>5, JobsAssumption DEF FileFits
  <2>3. SheetFits(j, go[j])' /\ ResultsFit(j, go[j])'
    BY <1>5, EmptyToSet DEF SheetFits, ResultsFit, OwnSheets, Loading
  <2>4. NothingTwice(j, go[j])'
    BY <1>3, <1>5, <2>1 DEF NothingTwice
  <2> QED BY <2>2, <2>3, <2>4 DEF Fit
<1>7. Workers'
  BY <1>1, <1>4, <1>5, <1>6, WorkerStep DEF IInv, diskVars
<1>8. Store' /\ Results' /\ Disk'
  BY <1>1, StoreStays, DiskStays DEF IInv, Store, cdcVars, boundVars
<1> QED BY <1>4, <1>7, <1>8 DEF IInv

\* The next sheet is a later one of the same file, and is loaded from its first batch.
LEMMA NextPartMeans ==
  ASSUME NEW g \in GoType, g.file # 0, g.part \in 0..Len(Parts[g.file])
  PROVE  /\ NextPart(g) \in GoType
         /\ NextPart(g).todo = g.todo /\ NextPart(g).file = g.file /\ NextPart(g).loaded = g.loaded
         /\ \/ /\ NextPart(g).pc = "drop" /\ NextPart(g).part = g.part + 1 /\ NextPart(g).batch = 0
               /\ NextPart(g).part \in 1..Len(Parts[g.file])
            \/ NextPart(g).pc \in {"completed", "failed"} /\ NextPart(g).part = g.part
<1>1. /\ g.file \in Files /\ Len(Parts[g.file]) \in Nat /\ g.part \in Nat /\ g.part + 1 \in Nat
      /\ g.todo \in SUBSET Files /\ g.table \in Tables \cup {<<>>} /\ g.batch \in Nat
      /\ g.loaded \in LoadResults
  BY JobsAssumption DEF GoType
<1>2. CASE g.part < Len(Parts[g.file])
  <2>1. NextPart(g) = [g EXCEPT !.pc = "drop", !.part = g.part + 1, !.batch = 0]
    BY <1>2 DEF NextPart
  <2>2. NextPart(g) = [pc |-> "drop", todo |-> g.todo, file |-> g.file, part |-> g.part + 1,
                       table |-> g.table, batch |-> 0, loaded |-> g.loaded]
    BY <2>1 DEF GoType
  <2>3. NextPart(g) \in GoType
    <3>1. "drop" \in Pcs
      BY DEF Pcs
    <3>2. [pc |-> "drop", todo |-> g.todo, file |-> g.file, part |-> g.part + 1,
           table |-> g.table, batch |-> 0, loaded |-> g.loaded] \in GoType
      BY <1>1, <3>1, GoRecord
    <3> QED BY <2>2, <3>2
  <2> QED BY <1>1, <1>2, <2>2, <2>3
<1>3. CASE ~(g.part < Len(Parts[g.file]))
  <2>1. PICK c \in {"completed", "failed"} : NextPart(g) = [g EXCEPT !.pc = c]
    BY <1>3 DEF NextPart
  <2>2. NextPart(g) = [pc |-> c, todo |-> g.todo, file |-> g.file, part |-> g.part,
                       table |-> g.table, batch |-> g.batch, loaded |-> g.loaded]
    BY <2>1 DEF GoType
  <2>3. NextPart(g) \in GoType
    <3>1. c \in Pcs
      BY DEF Pcs
    <3>2. [pc |-> c, todo |-> g.todo, file |-> g.file, part |-> g.part,
           table |-> g.table, batch |-> g.batch, loaded |-> g.loaded] \in GoType
      BY <1>1, <3>1, GoRecord
    <3> QED BY <2>2, <3>2
  <2> QED BY <2>2, <2>3
<1> QED BY <1>2, <1>3

LEMMA NextPartFits ==
  ASSUME NEW j, NEW g \in GoType, g.file # 0, g.pc \in Before, FileFits(j, g), NothingTwice(j, g), OwnSheets(g)
  PROVE  /\ NextPart(g) \in GoType /\ NextPart(g).file = g.file /\ NextPart(g).loaded = g.loaded
         /\ FileFits(j, NextPart(g)) /\ NothingTwice(j, NextPart(g)) /\ SheetFits(j, NextPart(g))
         /\ OwnSheets(NextPart(g)) /\ NextPart(g).pc \notin {"create", "insert"}
         /\ NextPart(g).pc \in Loading => \A r \in ToSet(g.loaded) : r[1] < NextPart(g).part
<1> DEFINE n == NextPart(g)
<1>1. /\ n \in GoType /\ n.todo = g.todo /\ n.file = g.file /\ n.loaded = g.loaded
      /\ \/ n.pc = "drop" /\ n.part = g.part + 1 /\ n.batch = 0 /\ n.part \in 1..Len(Parts[g.file])
         \/ n.pc \in {"completed", "failed"} /\ n.part = g.part
  BY NextPartMeans DEF FileFits
<1> HIDE DEF n
<1>2. g.file \in Files /\ Len(Parts[g.file]) \in Nat /\ g.part \in Nat
  BY JobsAssumption DEF GoType
<1>3. FileFits(j, n)
  BY <1>1, <1>2 DEF FileFits
<1>4. NothingTwice(j, n)
  BY <1>1 DEF NothingTwice
<1>5. SheetFits(j, n)
  <2>1. ASSUME n.pc = "drop" PROVE Batches[Sheet(n)] \in Nat \ {0}
    BY <1>1, <1>2, <2>1, SheetMeans DEF Sheet
  <2> QED BY <1>1, <1>2, <2>1 DEF SheetFits, Loading
<1>6. OwnSheets(n) /\ (n.pc \in Loading => \A r \in ToSet(g.loaded) : r[1] < n.part)
  BY <1>1, <1>2 DEF OwnSheets, Loading
<1>7. n.pc \notin {"create", "insert"}
  BY <1>1
<1> QED BY <1>1, <1>3, <1>4, <1>5, <1>6, <1>7 DEF n

LEMMA OpenHolds ==
  ASSUME IInv, NEW j \in Jobs, Open(j)
  PROVE  IInv'
<1>1. /\ j \in Known /\ Known \subseteq Jobs /\ go[j].pc = "open"
      /\ UNCHANGED <<progressVars, diskVars, tableVars, cdcVars, boundVars, started, done>>
      /\ go[j] \in GoType /\ Fit(j, go[j]) /\ go \in [Jobs -> GoType]
  BY DEF Open, At, IInv, Progress, Workers
<1>2. Progress' /\ Known' = Known
  BY <1>1, ProgressStays DEF IInv
<1>3. UNCHANGED <<files, errorDir, clobbered, rows, used, owner, done>>
  BY <1>1 DEF tableVars, diskVars, progressVars
<1>4. go' = [go EXCEPT ![j] = go'[j]] /\ go'[j] \in GoType /\ Fit(j, go[j])'
  <2>1. CASE go' = [go EXCEPT ![j] = [@ EXCEPT !.pc = "failed"]]
    <3>1. /\ go' = [go EXCEPT ![j] = go'[j]] /\ go'[j] \in GoType /\ go'[j].pc = "failed"
          /\ go'[j].todo = go[j].todo /\ go'[j].file = go[j].file /\ go'[j].part = go[j].part
          /\ go'[j].loaded = go[j].loaded
      BY <1>1, <2>1 DEF GoType, Pcs
    <3>2. FileFits(j, go[j])' /\ SheetFits(j, go[j])'
      BY <1>1, <1>3, <3>1 DEF Fit, FileFits, SheetFits, WithFile, Loading, Pcs
    <3>3. ResultsFit(j, go[j])'
      BY <1>1, <1>3, <3>1 DEF Fit, ResultsFit, OwnSheets, Loading, Holds
    <3>4. NothingTwice(j, go[j])'
      BY <1>1, <1>3, <3>1 DEF Fit, NothingTwice, Before, Loading
    <3> QED BY <3>1, <3>2, <3>3, <3>4 DEF Fit
  <2>2. CASE go' = [go EXCEPT ![j] = NextPart(go[j])]
    <3>1. PICK n : n = NextPart(go[j])
      OBVIOUS
    <3>2. go[j].file # 0 /\ go[j].pc \in Before /\ FileFits(j, go[j]) /\ NothingTwice(j, go[j]) /\ ResultsFit(j, go[j])
      BY <1>1 DEF Fit, FileFits, WithFile, Pcs, Before
    <3>3. /\ n \in GoType /\ n.file = go[j].file /\ n.loaded = go[j].loaded
          /\ FileFits(j, n) /\ NothingTwice(j, n) /\ SheetFits(j, n)
          /\ OwnSheets(n) /\ n.pc \notin {"create", "insert"}
          /\ n.pc \in Loading => \A r \in ToSet(n.loaded) : r[1] < n.part
      BY <1>1, <3>1, <3>2, NextPartFits DEF ResultsFit
    <3>4. go'[j] = n /\ go' = [go EXCEPT ![j] = go'[j]]
      BY <1>1, <2>2, <3>1
    <3>5. FileFits(j, go[j])' /\ NothingTwice(j, go[j])'
      BY <1>3, <3>3, <3>4 DEF FileFits, NothingTwice
    <3>6. SheetFits(j, go[j])'
      BY <3>3, <3>4 DEF SheetFits
    <3>7. ResultsFit(j, go[j])'
      <4>1. \A l, t, k : Holds(l, t, k)' <=> Holds(l, t, k)
        BY <1>3 DEF Holds
      <4> QED BY <3>2, <3>3, <3>4, <4>1 DEF ResultsFit, OwnSheets
    <3> QED BY <3>3, <3>4, <3>5, <3>6, <3>7 DEF Fit
  <2> QED BY <2>1, <2>2 DEF Open, Goto
<1>5. Workers'
  BY <1>1, <1>2, <1>3, <1>4, WorkerStep DEF IInv
<1>6. Store' /\ Results' /\ Disk'
  BY <1>1, StoreStays, DiskStays DEF IInv, Store, cdcVars, boundVars
<1> QED BY <1>2, <1>5, <1>6 DEF IInv

\* A file's loads are shown: they are complete, and never begun again.
LEMMA CompletedHolds ==
  ASSUME IInv, NEW j \in Jobs, Completed(j)
  PROVE  IInv'
<1>1. /\ j \in Known /\ Known \subseteq Jobs /\ go[j].pc = "completed"
      /\ UNCHANGED <<job, diskVars, tableVars, cdcVars, boundVars, started>>
      /\ go[j] \in GoType /\ Fit(j, go[j]) /\ go \in [Jobs -> GoType]
      /\ files' = [files EXCEPT ![j][go[j].file] = "completed"]
      /\ go' = [go EXCEPT ![j] = [@ EXCEPT !.pc = "count rows"]]
      /\ done' = done \cup {<<<<j, go[j].file, r[1]>>, r[2]>> : r \in ToSet(go[j].loaded)}
  BY DEF Completed, Goto, At, IInv, Progress, Workers
<1>2. go[j].file \in DOMAIN files[j] \ go[j].todo /\ go[j].file \in Files
  BY <1>1 DEF Fit, FileFits, WithFile, Pcs, GoType
<1>3. Progress' /\ Known' = Known /\ \A i \in Known : DOMAIN files'[i] = DOMAIN files[i]
  BY <1>1, <1>2, StatusStep DEF IInv
<1>4. UNCHANGED <<errorDir, clobbered, rows, used, owner>>
  BY <1>1 DEF tableVars, diskVars
<1>5. /\ go' = [go EXCEPT ![j] = go'[j]] /\ go'[j] \in GoType /\ go'[j].pc = "count rows"
      /\ go'[j].todo = go[j].todo /\ go'[j].file = go[j].file /\ go'[j].part = go[j].part
      /\ go'[j].loaded = go[j].loaded
  BY <1>1 DEF GoType, Pcs
<1>6. ASSUME NEW d \in done' \ done
      PROVE  /\ d[1][1] = j /\ d[1][2] = go[j].file /\ d \in AnyLoad \X Tables
             /\ Holds(d[1], d[2], Batches[d[2][1]])
  <2>1. PICK r \in ToSet(go[j].loaded) : d = <<<<j, go[j].file, r[1]>>, r[2]>>
    BY <1>1, <1>6
  <2>2. r \in Nat \X Tables
    BY <1>1, <2>1, ToSetOfSeq DEF GoType, LoadResults
  <2>3. Holds(<<j, go[j].file, r[1]>>, r[2], Batches[r[2][1]])
    BY <1>1, <2>1 DEF Fit, ResultsFit
  <2> QED BY <1>2, <2>1, <2>2, <2>3 DEF AnyLoad
<1>7. Fit(j, go[j])'
  <2>1. FileFits(j, go[j])' /\ SheetFits(j, go[j])'
    BY <1>1, <1>2, <1>3, <1>4, <1>5 DEF Fit, FileFits, SheetFits, WithFile, Loading, Pcs
  <2>2. ResultsFit(j, go[j])'
    <3>1. \A l, t, k : Holds(l, t, k)' <=> Holds(l, t, k)
      BY <1>4 DEF Holds
    <3>2. ResultsFit(j, go[j]) /\ go'[j].pc \notin Loading
      BY <1>1, <1>5 DEF Fit, Loading
    <3> QED BY <1>5, <3>1, <3>2 DEF ResultsFit, OwnSheets
  <2>3. NothingTwice(j, go[j])'
    BY <1>1, <1>2, <1>5, <1>6 DEF Fit, NothingTwice, Before, Loading
  <2> QED BY <2>1, <2>2, <2>3 DEF Fit
<1>8. Workers'
  BY <1>1, <1>3, <1>4, <1>5, <1>6, <1>7, WorkerStep DEF IInv
<1>9. Results'
  <2>1. done' \subseteq AnyLoad \X Tables
    BY <1>6 DEF IInv, Results
  <2>2. ASSUME NEW d \in done' PROVE d[1][1] \in started /\ Holds(d[1], d[2], Batches[d[2][1]])
    BY <1>1, <1>6 DEF IInv, Results, Progress
  <2> QED BY <1>1, <1>4, <2>1, <2>2 DEF Results, Holds
<1>10. Store' /\ Disk'
  BY <1>1, DiskStays DEF IInv, Store, cdcVars, boundVars, tableVars
<1> QED BY <1>3, <1>8, <1>9, <1>10 DEF IInv

LEMMA FailedHolds ==
  ASSUME IInv, NEW j \in Jobs, Failed(j)
  PROVE  IInv'
<1>1. /\ j \in Known /\ Known \subseteq Jobs /\ go[j].pc = "failed"
      /\ UNCHANGED <<job, diskVars, tableVars, cdcVars, boundVars, started, done>>
      /\ go[j] \in GoType /\ Fit(j, go[j]) /\ go \in [Jobs -> GoType]
      /\ files' = [files EXCEPT ![j][go[j].file] = "failed"]
      /\ go' = [go EXCEPT ![j] = [@ EXCEPT !.pc = "move"]]
  BY DEF Failed, Goto, At, IInv, Progress, Workers
<1>2. go[j].file \in DOMAIN files[j] \ go[j].todo /\ go[j].file \in Files
  BY <1>1 DEF Fit, FileFits, WithFile, Pcs, GoType
<1>3. Progress' /\ Known' = Known /\ \A i \in Known : DOMAIN files'[i] = DOMAIN files[i]
  BY <1>1, <1>2, StatusStep DEF IInv
<1>4. UNCHANGED <<errorDir, clobbered, rows, used, owner, done>>
  BY <1>1 DEF tableVars, diskVars
<1>5. /\ go' = [go EXCEPT ![j] = go'[j]] /\ go'[j] \in GoType /\ go'[j].pc = "move"
      /\ go'[j].todo = go[j].todo /\ go'[j].file = go[j].file /\ go'[j].part = go[j].part
      /\ go'[j].loaded = go[j].loaded
  BY <1>1 DEF GoType, Pcs
<1>6. Fit(j, go[j])'
  <2>1. FileFits(j, go[j])' /\ SheetFits(j, go[j])'
    BY <1>1, <1>2, <1>3, <1>4, <1>5 DEF Fit, FileFits, SheetFits, WithFile, Loading, Pcs
  <2>2. ResultsFit(j, go[j])'
    <3>1. \A l, t, k : Holds(l, t, k)' <=> Holds(l, t, k)
      BY <1>4 DEF Holds
    <3>2. ResultsFit(j, go[j]) /\ go'[j].pc \notin Loading
      BY <1>1, <1>5 DEF Fit, Loading
    <3> QED BY <1>5, <3>1, <3>2 DEF ResultsFit, OwnSheets
  <2>3. NothingTwice(j, go[j])'
    BY <1>1, <1>4, <1>5 DEF Fit, NothingTwice, Before, Loading
  <2> QED BY <2>1, <2>2, <2>3 DEF Fit
<1>7. Workers'
  BY <1>1, <1>3, <1>4, <1>5, <1>6, WorkerStep DEF IInv
<1>8. Store' /\ Results' /\ Disk'
  BY <1>1, StoreStays, DiskStays DEF IInv, Store, cdcVars, boundVars
<1> QED BY <1>3, <1>7, <1>8 DEF IInv

LEMMA TriggerHolds ==
  ASSUME IInv, NEW j \in Jobs, Trigger(j)
  PROVE  IInv'
<1>1. /\ j \in Known /\ Known \subseteq Jobs /\ go[j].pc = "trigger" /\ go[j].loaded # <<>>
      /\ UNCHANGED <<progressVars, diskVars, tableVars, clock, started, done>>
      /\ go[j] \in GoType /\ Fit(j, go[j]) /\ go \in [Jobs -> GoType]
  BY DEF Trigger, At, IInv, Progress, Workers
<1> DEFINE rest == Tail(go[j].loaded)
<1>2. Progress' /\ Known' = Known
  BY <1>1, ProgressStays DEF IInv
<1>3. UNCHANGED <<files, errorDir, clobbered, rows, used, owner, done>>
  BY <1>1 DEF tableVars, diskVars, progressVars
<1>4. /\ Head(go[j].loaded) \in Nat \X Tables /\ Tail(go[j].loaded) \in LoadResults
      /\ ToSet(Tail(go[j].loaded)) \subseteq ToSet(go[j].loaded)
  <2>1. go[j].loaded \in Seq(Nat \X Tables)
    BY <1>1 DEF GoType, LoadResults
  <2> QED BY <1>1, <2>1, ToSetOfTail DEF LoadResults
<1>5. /\ go' = [go EXCEPT ![j] = go'[j]] /\ go'[j] \in GoType /\ go'[j].pc = "trigger"
      /\ go'[j].todo = go[j].todo /\ go'[j].file = go[j].file /\ go'[j].part = go[j].part
      /\ go'[j].loaded = Tail(go[j].loaded)
  <2>1. go' = [go EXCEPT ![j] = [@ EXCEPT !.loaded = rest]]
    BY DEF Trigger, Asked
  <2>2. rest \in LoadResults
    BY <1>4
  <2> HIDE DEF rest
  <2>3. go' = [go EXCEPT ![j] = go'[j]] /\ go'[j] = [go[j] EXCEPT !.loaded = rest]
    BY <1>1, <2>1
  <2>4. /\ go'[j].pc = "trigger" /\ go'[j].todo = go[j].todo /\ go'[j].file = go[j].file
        /\ go'[j].part = go[j].part /\ go'[j].loaded = rest
    BY <1>1, <2>3 DEF GoType
  <2>5. go'[j] \in GoType
    BY <1>1, <2>2, <2>3 DEF GoType
  <2> QED BY <2>3, <2>4, <2>5 DEF rest
<1>6. Fit(j, go[j])'
  <2>1. FileFits(j, go[j])' /\ SheetFits(j, go[j])'
    BY <1>1, <1>3, <1>5 DEF Fit, FileFits, SheetFits, WithFile, Loading, Pcs
  <2>2. ResultsFit(j, go[j])'
    <3>1. \A l, t, k : Holds(l, t, k)' <=> Holds(l, t, k)
      BY <1>3 DEF Holds
    <3>2. ResultsFit(j, go[j]) /\ go'[j].pc \notin Loading
      BY <1>1, <1>5 DEF Fit, Loading
    <3> QED BY <1>4, <1>5, <3>1, <3>2 DEF ResultsFit, OwnSheets
  <2>3. NothingTwice(j, go[j])'
    BY <1>1, <1>3, <1>5 DEF Fit, NothingTwice, Before, Loading
  <2> QED BY <2>1, <2>2, <2>3 DEF Fit
<1>7. Workers'
  BY <1>1, <1>2, <1>3, <1>5, <1>6, WorkerStep DEF IInv
<1>8. tracked' \cup refused' \subseteq Tables
  <2>1. Head(go[j].loaded)[2] \in Tables
    BY <1>4
  <2> QED BY <2>1 DEF Trigger, IInv, Store, cdcVars
<1>9. Store' /\ Results' /\ Disk'
  BY <1>1, <1>8, StoreStays, DiskStays DEF IInv
<1> QED BY <1>2, <1>7, <1>9 DEF IInv

-----------------------------------------------------------------------------
(***************************************************************************)
(* The files: what is overwritten in the error folder is clobbered.        *)
(***************************************************************************)
LEMMA PutMeans ==
  ASSUME Disk, NEW f \in Files, NEW what \in {f, Nothing}, Put(f, what)
  PROVE  /\ errorDir' \in [Range(Base) \X (0..MaxTime) -> Files \cup {Nothing}]
         /\ clobbered' \subseteq Files
         /\ what \in Range(errorDir')
         /\ \A x \in Files : x \in Range(errorDir) \cup clobbered => x \in Range(errorDir') \cup clobbered'
<1> DEFINE p == <<Base[f], clock>>
<1>1. p \in Range(Base) \X (0..MaxTime)
  BY JobsAssumption DEF Range, Disk
<1>2. /\ errorDir' = [errorDir EXCEPT ![p] = what]
      /\ clobbered' = clobbered \cup ({errorDir[p]} \ {Nothing, what})
  BY DEF Put
<1> HIDE DEF p
<1>3. /\ errorDir \in [Range(Base) \X (0..MaxTime) -> Files \cup {Nothing}] /\ clobbered \subseteq Files
      /\ 0 \notin Files
  BY FilesAreNumbers DEF Disk
<1>4. errorDir' \in [Range(Base) \X (0..MaxTime) -> Files \cup {Nothing}] /\ clobbered' \subseteq Files
  BY <1>1, <1>2, <1>3 DEF Nothing
<1>5. what \in Range(errorDir')
  <2>1. p \in DOMAIN errorDir' /\ errorDir'[p] = what
    BY <1>1, <1>2, <1>3
  <2> QED BY <2>1 DEF Range
<1>6. ASSUME NEW x \in Files, x \in Range(errorDir) PROVE x \in Range(errorDir') \cup clobbered'
  <2>1. PICK q \in Range(Base) \X (0..MaxTime) : x = errorDir[q]
    <3>1. PICK q \in DOMAIN errorDir : x = errorDir[q]
      BY <1>6 DEF Range
    <3> QED BY <1>3, <3>1
  <2>2. CASE q = p
    BY <1>2, <1>3, <1>5, <1>6, <2>1, <2>2 DEF Nothing
  <2>3. CASE q # p
    <3>1. q \in DOMAIN errorDir' /\ errorDir'[q] = x
      BY <1>1, <1>2, <1>3, <2>1, <2>3
    <3> QED BY <3>1 DEF Range
  <2> QED BY <2>2, <2>3
<1>7. clobbered \subseteq clobbered'
  BY <1>2
<1> QED BY <1>4, <1>5, <1>6, <1>7

\* A file is moved away, or copied and then removed, or stays.
LEMMA MoveHolds ==
  ASSUME IInv, NEW j \in Jobs, Move(j) \/ RemoveSource(j)
  PROVE  IInv'
<1>1. /\ j \in Known /\ Known \subseteq Jobs /\ go[j].pc \in {"move", "remove"}
      /\ UNCHANGED <<progressVars, tableVars, cdcVars, clock, started, done>>
      /\ go[j] \in GoType /\ Fit(j, go[j]) /\ go \in [Jobs -> GoType]
  BY DEF Move, RemoveSource, boundVars, At, IInv, Progress, Workers
<1>2. Progress' /\ Known' = Known
  BY <1>1, ProgressStays DEF IInv
<1>3. UNCHANGED <<files, rows, used, owner, done>>
  BY <1>1 DEF tableVars, progressVars
<1> DEFINE f == go[j].file
<1>4. f \in Files /\ f # 0
  BY <1>1 DEF Fit, FileFits, WithFile, Pcs, GoType
<1>5. /\ Disk' /\ \A x \in Files : x \in Range(errorDir) \cup clobbered => x \in Range(errorDir') \cup clobbered'
      /\ \/ go' = [go EXCEPT ![j] = [@ EXCEPT !.pc = "count failure"]]
         \/ /\ go' = [go EXCEPT ![j] = [@ EXCEPT !.pc = "remove"]]
            /\ f \in Range(errorDir')
  <2>1. CASE f \in folder /\ Put(f, f) /\ folder' = folder \ {f}
             /\ go' = [go EXCEPT ![j] = [@ EXCEPT !.pc = "count failure"]]
    BY <1>1, <1>4, <2>1, PutMeans DEF IInv, Disk, FilesKept
  <2>2. CASE Put(f, f) /\ UNCHANGED folder /\ go' = [go EXCEPT ![j] = [@ EXCEPT !.pc = "remove"]]
    BY <1>1, <1>4, <2>2, PutMeans DEF IInv, Disk, FilesKept
  <2>3. CASE Put(f, Nothing) /\ UNCHANGED folder /\ go' = [go EXCEPT ![j] = [@ EXCEPT !.pc = "count failure"]]
    BY <1>1, <1>4, <2>3, PutMeans DEF IInv, Disk, FilesKept
  <2>4. CASE UNCHANGED diskVars /\ go' = [go EXCEPT ![j] = [@ EXCEPT !.pc = "count failure"]]
    BY <1>1, <2>4, DiskStays DEF IInv, diskVars
  <2>5. CASE RemoveSource(j)
    <3>1. f \in Range(errorDir) \cup clobbered
      BY <1>1, <2>5 DEF RemoveSource, At, Fit, FileFits
    <3>2. /\ folder' = folder \ {f} /\ UNCHANGED <<errorDir, clobbered, clock>>
          /\ go' = [go EXCEPT ![j] = [@ EXCEPT !.pc = "count failure"]]
      BY <2>5 DEF RemoveSource, Goto, boundVars
    <3> QED BY <3>1, <3>2 DEF IInv, Disk, FilesKept
  <2> QED BY <1>1, <2>1, <2>2, <2>3, <2>4, <2>5 DEF Move, Goto
<1>6. /\ go' = [go EXCEPT ![j] = go'[j]] /\ go'[j] \in GoType /\ go'[j].pc \in {"count failure", "remove"}
      /\ go'[j].todo = go[j].todo /\ go'[j].file = go[j].file /\ go'[j].part = go[j].part
      /\ go'[j].loaded = go[j].loaded
      /\ go'[j].pc = "remove" => f \in Range(errorDir')
  <2>1. CASE go' = [go EXCEPT ![j] = [@ EXCEPT !.pc = "count failure"]]
    BY <1>1, <2>1 DEF GoType, Pcs
  <2>2. CASE go' = [go EXCEPT ![j] = [@ EXCEPT !.pc = "remove"]] /\ f \in Range(errorDir')
    <3>1. /\ go' = [go EXCEPT ![j] = go'[j]] /\ go'[j] \in GoType /\ go'[j].pc = "remove"
          /\ go'[j].todo = go[j].todo /\ go'[j].file = go[j].file /\ go'[j].part = go[j].part
          /\ go'[j].loaded = go[j].loaded
      BY <1>1, <2>2 DEF GoType, Pcs
    <3> QED BY <2>2, <3>1
  <2> QED BY <1>5, <2>1, <2>2
<1>7. Fit(j, go[j])'
  <2>1. FileFits(j, go[j])' /\ SheetFits(j, go[j])'
    BY <1>1, <1>3, <1>6 DEF Fit, FileFits, SheetFits, WithFile, Loading, Pcs
  <2>2. ResultsFit(j, go[j])'
    <3>1. \A l, t, k : Holds(l, t, k)' <=> Holds(l, t, k)
      BY <1>3 DEF Holds
    <3>2. ResultsFit(j, go[j]) /\ go'[j].pc \notin Loading
      BY <1>1, <1>6 DEF Fit, Loading
    <3> QED BY <1>6, <3>1, <3>2 DEF ResultsFit, OwnSheets
  <2>3. NothingTwice(j, go[j])'
    BY <1>1, <1>3, <1>6 DEF Fit, NothingTwice, Before, Loading
  <2> QED BY <2>1, <2>2, <2>3 DEF Fit
<1>8. Workers'
  <2>1. ASSUME NEW i \in Known \ {j} PROVE Fit(i, go[i])'
    <3>1. Fit(i, go[i]) /\ go'[i] = go[i] /\ go[i] \in GoType
      BY <1>1, <1>6 DEF IInv, Workers
    <3>2. FileFits(i, go[i])'
      <4>1. FileFits(i, go[i])
        BY <3>1 DEF Fit
      <4>2. go[i].pc = "remove" => go[i].file \in Range(errorDir') \cup clobbered'
        BY <1>5, <3>1, <4>1 DEF FileFits, GoType, WithFile, Pcs
      <4> QED BY <1>3, <3>1, <4>1, <4>2 DEF FileFits
    <3>3. SheetFits(i, go[i])' /\ ResultsFit(i, go[i])'
      <4>1. \A l, t, k : Holds(l, t, k)' <=> Holds(l, t, k)
        BY <1>3 DEF Holds
      <4>2. SheetFits(i, go[i])'
        BY <1>3, <3>1, <4>1 DEF Fit, SheetFits
      <4>3. ResultsFit(i, go[i])'
        BY <3>1, <4>1 DEF Fit, ResultsFit, OwnSheets
      <4> QED BY <4>2, <4>3
    <3>4. NothingTwice(i, go[i])'
      BY <1>3, <3>1 DEF Fit, NothingTwice
    <3> QED BY <3>2, <3>3, <3>4 DEF Fit
  <2> QED BY <1>1, <1>2, <1>6, <1>7, <2>1 DEF IInv, Workers
<1>9. Store' /\ Results'
  BY <1>1, StoreStays DEF IInv, Store, cdcVars
<1> QED BY <1>2, <1>5, <1>8, <1>9 DEF IInv

-----------------------------------------------------------------------------
(***************************************************************************)
(* The tables: a load's statements touch no other load's rows, but by a    *)
(* DROP that claims the name.                                              *)
(***************************************************************************)
LEMMA DropKeeps ==
  ASSUME Store, NEW u \in Tables, NEW m \in AnyLoad,
         rows' = [rows EXCEPT ![u] = <<>>], used' = [used EXCEPT ![u] = @ \cup {m}],
         owner' = [owner EXCEPT ![u] = m],
         NEW l, l # m, NEW t \in Tables, NEW n, Holds(l, t, n)
  PROVE  Holds(l, t, n)'
<1>1. CASE t = u
  BY <1>1 DEF Holds, Store
<1>2. CASE t # u
  BY <1>2 DEF Holds, Store
<1> QED BY <1>1, <1>2

LEMMA DropBegins ==
  ASSUME Store, NEW u \in Tables, NEW m \in AnyLoad,
         rows' = [rows EXCEPT ![u] = <<>>], used' = [used EXCEPT ![u] = @ \cup {m}]
  PROVE  Holds(m, u, 0)' /\ m \in used'[u]
<1>1. rows'[u] = <<>> /\ m \in used'[u]
  BY DEF Store
<1>2. Len(<<>>) = 0 /\ \A b \in 1..0 : FALSE
  BY EmptySeq
<1> QED BY <1>1, <1>2 DEF Holds

LEMMA AppendKeeps ==
  ASSUME Store, NEW u \in Tables, NEW m \in AnyLoad, m \in used[u], NEW b \in Nat,
         rows' = [rows EXCEPT ![u] = Append(@, <<m, b>>)], UNCHANGED <<used, owner>>,
         NEW l, l # m, NEW t \in Tables, NEW n, Holds(l, t, n)
  PROVE  Holds(l, t, n)'
<1>1. CASE t = u
  <2>1. rows'[u] = Append(rows[u], <<m, b>>) /\ rows[u] \in Seq(AnyLoad \X Nat)
    BY DEF Store
  <2>2. ToSet(rows'[u]) = ToSet(rows[u]) \cup {<<m, b>>}
    <3>1. PICK S, s, e : S = AnyLoad \X Nat /\ s = rows[u] /\ e = <<m, b>>
      OBVIOUS
    <3>2. s \in Seq(S) /\ e \in S
      BY <2>1, <3>1
    <3>3. ToSet(Append(s, e)) = ToSet(s) \cup {e}
      BY <3>2, ToSetOfAppend
    <3> QED BY <2>1, <3>1, <3>3
  <2>3. used[u] # {l}
    OBVIOUS
  <2> QED BY <1>1, <2>2, <2>3 DEF Holds
<1>2. CASE t # u
  <2>1. rows'[t] = rows[t]
    BY <1>2 DEF Store
  <2> QED BY <2>1 DEF Holds
<1> QED BY <1>1, <1>2

LEMMA AppendExtends ==
  ASSUME Store, NEW u \in Tables, NEW m \in AnyLoad, NEW b \in Nat, Holds(m, u, b),
         rows' = [rows EXCEPT ![u] = Append(@, <<m, b + 1>>)], UNCHANGED <<used, owner>>
  PROVE  Holds(m, u, b + 1)'
<1>1. rows'[u] = Append(rows[u], <<m, b + 1>>) /\ rows[u] \in Seq(AnyLoad \X Nat)
      /\ <<m, b + 1>> \in AnyLoad \X Nat
  BY DEF Store
<1>2. ToSet(rows'[u]) = ToSet(rows[u]) \cup {<<m, b + 1>>}
  <2>1. PICK S, s, e : S = AnyLoad \X Nat /\ s = rows[u] /\ e = <<m, b + 1>>
    OBVIOUS
  <2>2. s \in Seq(S) /\ e \in S
    BY <1>1, <2>1
  <2>3. ToSet(Append(s, e)) = ToSet(s) \cup {e}
    BY <2>2, ToSetOfAppend
  <2> QED BY <1>1, <2>1, <2>3
<1>3. \A x \in 1..(b + 1) : x \in 1..b \/ x = b + 1
  OBVIOUS
<1>4. ASSUME owner[u] = m, NEW x \in 1..(b + 1) PROVE <<m, x>> \in ToSet(rows'[u])
  BY <1>2, <1>3, <1>4 DEF Holds
<1>5. ASSUME used[u] = {m}
      PROVE  Len(rows'[u]) = b + 1 /\ \A x \in 1..(b + 1) : rows'[u][x] = <<m, x>>
  <2>1. Len(rows[u]) = b /\ \A x \in 1..b : rows[u][x] = <<m, x>>
    BY <1>5 DEF Holds
  <2>2. /\ Len(rows'[u]) = Len(rows[u]) + 1 /\ rows'[u][Len(rows[u]) + 1] = <<m, b + 1>>
        /\ \A x \in 1..Len(rows[u]) : rows'[u][x] = rows[u][x]
    BY <1>1, AppendProperties
  <2> QED BY <1>3, <2>1, <2>2
<1> QED BY <1>4, <1>5 DEF Holds

\* A statement of job j's load keeps what every other load has stored.
LEMMA LoaderStep ==
  ASSUME IInv, NEW j \in Known, go[j].pc \in Loading,
         go' = [go EXCEPT ![j] = go'[j]], go'[j] \in GoType, Fit(j, go[j])', Store',
         UNCHANGED <<progressVars, diskVars, clock, started, done>>,
         \A t \in Tables : used[t] \subseteq used'[t],
         \A l \in AnyLoad : \A t \in Tables : \A n : l # MyLoad(j, go[j]) /\ Holds(l, t, n) => Holds(l, t, n)'
  PROVE  IInv'
<1>1. Progress' /\ Known' = Known /\ Known \subseteq Jobs
  BY ProgressStays DEF IInv, Progress
<1>2. UNCHANGED <<files, errorDir, clobbered>>
  BY DEF progressVars, diskVars
<1>3. ASSUME NEW i \in Known \ {j} PROVE Fit(i, go[i])'
  <2>1. /\ Fit(i, go[i]) /\ go'[i] = go[i] /\ go[i] \in GoType /\ i \in Jobs
        /\ \A f, p : <<i, f, p>> # MyLoad(j, go[j])
    BY <1>1 DEF IInv, Workers, MyLoad
  <2>2. FileFits(i, go[i])' /\ NothingTwice(i, go[i])'
    BY <1>2, <2>1 DEF Fit, FileFits, NothingTwice
  <2>3. SheetFits(i, go[i])'
    <3>1. SheetFits(i, go[i])
      BY <2>1 DEF Fit
    <3>2. ASSUME go[i].pc \in {"create", "insert"}
          PROVE  MyLoad(i, go[i]) \in used'[go[i].table] /\ Holds(MyLoad(i, go[i]), go[i].table, go[i].batch)'
      <4>1. go[i].table \in Tables /\ MyLoad(i, go[i]) \in used[go[i].table]
            /\ Holds(MyLoad(i, go[i]), go[i].table, go[i].batch)
        BY <3>1, <3>2 DEF SheetFits
      <4>2. MyLoad(i, go[i]) \in AnyLoad /\ MyLoad(i, go[i]) # MyLoad(j, go[j])
        <5>1. go[i].file # 0
          BY <2>1, <3>2 DEF Fit, FileFits, WithFile, Pcs
        <5> QED BY <2>1, <5>1 DEF MyLoad, AnyLoad, GoType
      <4>3. PICK l, t, n : l = MyLoad(i, go[i]) /\ t = go[i].table /\ n = go[i].batch
        OBVIOUS
      <4>4. Holds(l, t, n)'
        BY <4>1, <4>2, <4>3
      <4> QED BY <2>1, <4>1, <4>3, <4>4 DEF MyLoad, Holds
    <3> QED BY <2>1, <3>1, <3>2 DEF SheetFits, MyLoad
  <2>4. ResultsFit(i, go[i])'
    <3>1. ResultsFit(i, go[i])
      BY <2>1 DEF Fit
    <3>2. ASSUME NEW r \in ToSet(go[i].loaded)
          PROVE  Holds(<<i, go[i].file, r[1]>>, r[2], Batches[r[2][1]])'
      <4>1. r \in Nat \X Tables
        BY <2>1, <3>2, ToSetOfSeq DEF GoType, LoadResults
      <4>2. go[i].file # 0
        BY <2>1, <3>2, EmptyToSet DEF Fit, FileFits
      <4>3. PICK f \in Files : f = go[i].file
        BY <2>1, <4>2 DEF GoType
      <4>4. <<i, f, r[1]>> \in AnyLoad /\ Holds(<<i, f, r[1]>>, r[2], Batches[r[2][1]])
        BY <2>1, <3>1, <3>2, <4>1, <4>3 DEF ResultsFit, AnyLoad
      <4>5. Holds(<<i, f, r[1]>>, r[2], Batches[r[2][1]])'
        BY <2>1, <4>1, <4>4
      <4> QED BY <2>1, <4>3, <4>5
    <3> QED BY <2>1, <3>1, <3>2 DEF ResultsFit, OwnSheets
  <2> QED BY <2>2, <2>3, <2>4 DEF Fit
<1>4. Workers'
  BY <1>1, <1>3 DEF IInv, Workers
<1>5. Results'
  <2>1. ASSUME NEW d \in done PROVE Holds(d[1], d[2], Batches[d[2][1]])'
    <3>1. d[1] \in AnyLoad /\ d[2] \in Tables /\ Holds(d[1], d[2], Batches[d[2][1]])
      BY DEF IInv, Results
    <3>2. d[1] # MyLoad(j, go[j])
      BY DEF IInv, Workers, Fit, NothingTwice, Before, MyLoad
    <3> QED BY <3>1, <3>2
  <2> QED BY <2>1 DEF IInv, Results
<1>6. Disk'
  BY DiskStays DEF IInv
<1> QED BY <1>1, <1>4, <1>5, <1>6 DEF IInv

\* The goroutine goes on to the next sheet, with the results g.
LEMMA NextSheetFits ==
  ASSUME IInv, NEW j \in Known, go[j].pc \in Loading,
         NEW g \in GoType, g.pc \in Loading, g.file = go[j].file, g.todo = go[j].todo, OwnSheets(g),
         g.part = go[j].part, go' = [go EXCEPT ![j] = NextPart(g)],
         UNCHANGED <<files, errorDir, clobbered, done>>,
         \A r \in ToSet(g.loaded) : Holds(<<j, g.file, r[1]>>, r[2], Batches[r[2][1]])'
  PROVE  go'[j] \in GoType /\ go' = [go EXCEPT ![j] = go'[j]] /\ Fit(j, go[j])'
<1>1. j \in Jobs /\ go \in [Jobs -> GoType] /\ Fit(j, go[j])
  BY DEF IInv, Progress, Workers
<1>2. g.file # 0 /\ g.pc \in Before
  BY <1>1 DEF Fit, FileFits, WithFile, Pcs, Before, Loading
<1>3. FileFits(j, g) /\ NothingTwice(j, g)
  <2>1. g.pc \notin {"discover", "remove"}
    BY DEF Loading
  <2> QED BY <1>1, <1>2, <2>1 DEF Fit, FileFits, NothingTwice, Before
<1>4. PICK n : n = NextPart(g)
  OBVIOUS
<1>5. /\ n \in GoType /\ n.file = g.file /\ n.loaded = g.loaded
      /\ FileFits(j, n) /\ NothingTwice(j, n) /\ SheetFits(j, n)
      /\ OwnSheets(n) /\ n.pc \notin {"create", "insert"}
      /\ n.pc \in Loading => \A r \in ToSet(n.loaded) : r[1] < n.part
  BY <1>2, <1>3, <1>4, NextPartFits
<1>6. go'[j] = n /\ go' = [go EXCEPT ![j] = go'[j]]
  BY <1>1, <1>4
<1>7. FileFits(j, go[j])' /\ NothingTwice(j, go[j])'
  BY <1>5, <1>6 DEF FileFits, NothingTwice
<1>8. SheetFits(j, go[j])'
  BY <1>5, <1>6 DEF SheetFits
<1>9. ResultsFit(j, go[j])'
  BY <1>5, <1>6 DEF ResultsFit, OwnSheets
<1> QED BY <1>5, <1>6, <1>7, <1>8, <1>9 DEF Fit

\* What every step of a load finds.
LEMMA LoadingMeans ==
  ASSUME IInv, NEW j \in Known, go[j].pc \in Loading
  PROVE  /\ j \in Jobs /\ go \in [Jobs -> GoType] /\ go[j] \in GoType
         /\ FileFits(j, go[j]) /\ SheetFits(j, go[j]) /\ ResultsFit(j, go[j]) /\ NothingTwice(j, go[j])
         /\ go[j].file \in Files /\ go[j].part \in 1..Len(Parts[go[j].file])
         /\ Sheet(go[j]) \in Names /\ Batches[Sheet(go[j])] \in Nat \ {0}
         /\ MyLoad(j, go[j]) \in AnyLoad
         /\ \A r \in ToSet(go[j].loaded) : <<j, go[j].file, r[1]>> # MyLoad(j, go[j])
<1>1. /\ j \in Jobs /\ go \in [Jobs -> GoType] /\ go[j] \in GoType
      /\ FileFits(j, go[j]) /\ SheetFits(j, go[j]) /\ ResultsFit(j, go[j]) /\ NothingTwice(j, go[j])
  BY DEF IInv, Progress, Workers, Fit
<1>2. go[j].file \in Files /\ go[j].part \in 0..Len(Parts[go[j].file]) /\ go[j].part > 0
  BY <1>1 DEF FileFits, SheetFits, WithFile, Pcs, Loading, GoType
<1>3. Len(Parts[go[j].file]) \in Nat /\ go[j].part \in Nat
  BY <1>1, <1>2, JobsAssumption DEF GoType
<1>4. go[j].part \in 1..Len(Parts[go[j].file])
  BY <1>2, <1>3
<1>5. Sheet(go[j]) \in Names /\ Batches[Sheet(go[j])] \in Nat \ {0}
  BY <1>2, <1>4, SheetMeans DEF Sheet
<1>6. \A r \in ToSet(go[j].loaded) : <<j, go[j].file, r[1]>> # MyLoad(j, go[j])
  <2>1. SUFFICES ASSUME NEW r \in ToSet(go[j].loaded) PROVE r[1] # go[j].part
    BY DEF MyLoad
  <2>2. r[1] < go[j].part /\ r[1] \in 1..go[j].part
    BY <1>1 DEF ResultsFit, OwnSheets
  <2> QED BY <1>3, <2>2
<1> QED BY <1>1, <1>2, <1>4, <1>5, <1>6 DEF MyLoad, AnyLoad

\* The results of the file so far are of other loads than the one under way.
LEMMA ResultsKept ==
  ASSUME IInv, NEW j \in Known, go[j].pc \in Loading,
         \A l \in AnyLoad : \A t \in Tables : \A n : l # MyLoad(j, go[j]) /\ Holds(l, t, n) => Holds(l, t, n)'
  PROVE  \A r \in ToSet(go[j].loaded) : \A f : f = go[j].file =>
           Holds(<<j, f, r[1]>>, r[2], Batches[r[2][1]])'
<1>1. SUFFICES ASSUME NEW r \in ToSet(go[j].loaded), NEW f, f = go[j].file
               PROVE  Holds(<<j, f, r[1]>>, r[2], Batches[r[2][1]])'
  OBVIOUS
<1>2. /\ go[j] \in GoType /\ j \in Jobs /\ f \in Files /\ ResultsFit(j, go[j])
      /\ <<j, f, r[1]>> # MyLoad(j, go[j])
  BY <1>1, LoadingMeans
<1>3. r \in Nat \X Tables
  BY <1>1, <1>2, ToSetOfSeq DEF GoType, LoadResults
<1>4. <<j, f, r[1]>> \in AnyLoad /\ Holds(<<j, f, r[1]>>, r[2], Batches[r[2][1]])
  BY <1>1, <1>2, <1>3 DEF ResultsFit, AnyLoad
<1> QED BY <1>2, <1>3, <1>4

\* After a statement that fails, or whose answer is lost, the sheet is skipped.
LEMMA SkipHolds ==
  ASSUME IInv, NEW j \in Known, go[j].pc \in Loading, go' = [go EXCEPT ![j] = NextPart(go[j])], Store',
         UNCHANGED <<progressVars, diskVars, clock, started, done>>,
         \A t \in Tables : used[t] \subseteq used'[t],
         \A l \in AnyLoad : \A t \in Tables : \A n : l # MyLoad(j, go[j]) /\ Holds(l, t, n) => Holds(l, t, n)'
  PROVE  IInv'
<1>1. PICK g : g = go[j]
  OBVIOUS
<1>2. g \in GoType /\ OwnSheets(g)
  BY <1>1, LoadingMeans DEF ResultsFit
<1>3. \A r \in ToSet(g.loaded) : Holds(<<j, g.file, r[1]>>, r[2], Batches[r[2][1]])'
  BY <1>1, ResultsKept
<1>4. go'[j] \in GoType /\ go' = [go EXCEPT ![j] = go'[j]] /\ Fit(j, go[j])'
  BY <1>1, <1>2, <1>3, NextSheetFits DEF progressVars, diskVars
<1> QED BY <1>4, LoaderStep

LEMMA DropHolds ==
  ASSUME IInv, NEW j \in Jobs, Drop(j)
  PROVE  IInv'
<1> DEFINE g == go[j]  t == TableName(g)  m == MyLoad(j, g)
<1>1. /\ j \in Known /\ g.pc = "drop" /\ g.pc \in Loading
      /\ UNCHANGED <<progressVars, diskVars, cdcVars, clock, started, done>>
  BY DEF Drop, At, LoaderFrame, Loading
<1>2. /\ go \in [Jobs -> GoType] /\ g \in GoType /\ m \in AnyLoad /\ Store
      /\ FileFits(j, g) /\ SheetFits(j, g) /\ ResultsFit(j, g) /\ NothingTwice(j, g)
      /\ Sheet(g) \in Names
  BY <1>1, LoadingMeans DEF IInv
<1>3. t \in Tables /\ t[1] = Sheet(g)
  <2>1. clock \in 0..MaxTime /\ 0 \in 0..MaxTime
    BY JobsAssumption DEF IInv, Disk
  <2> QED BY <1>2, <2>1 DEF TableName, Tables
<1>4. CASE /\ exists' = exists \ {t} /\ rows' = [rows EXCEPT ![t] = <<>>]
           /\ used' = [used EXCEPT ![t] = @ \cup {m}] /\ owner' = [owner EXCEPT ![t] = m]
           /\ Answer(j, [g EXCEPT !.pc = "create", !.table = t])
  <2>1. PICK u \in Tables, x \in AnyLoad : u = t /\ x = m
    BY <1>2, <1>3
  <2>2. /\ rows' = [rows EXCEPT ![u] = <<>>] /\ used' = [used EXCEPT ![u] = @ \cup {x}]
        /\ owner' = [owner EXCEPT ![u] = x] /\ exists' = exists \ {u}
    BY <1>4, <2>1
  <2>3. Store'
    BY <1>1, <1>2, <2>2, EmptySeq DEF Store, cdcVars
  <2>4. \A v \in Tables : used[v] \subseteq used'[v]
    BY <1>2, <2>2 DEF Store
  <2>5. \A l \in AnyLoad : \A v \in Tables : \A n : l # m /\ Holds(l, v, n) => Holds(l, v, n)'
    BY <1>2, <2>1, <2>2, DropKeeps
  <2>6. CASE go' = [go EXCEPT ![j] = NextPart(go[j])]
    BY <1>1, <2>3, <2>4, <2>5, <2>6, SkipHolds
  <2>7. CASE go' = [go EXCEPT ![j] = [g EXCEPT !.pc = "create", !.table = t]]
    <3>1. /\ go'[j] \in GoType /\ go' = [go EXCEPT ![j] = go'[j]] /\ go'[j].pc = "create"
          /\ go'[j].table = u /\ go'[j].todo = g.todo /\ go'[j].file = g.file /\ go'[j].part = g.part
          /\ go'[j].batch = g.batch /\ go'[j].loaded = g.loaded
      BY <1>2, <1>3, <2>1, <2>7 DEF GoType, Pcs
    <3>2. FileFits(j, go[j])' /\ NothingTwice(j, go[j])'
      BY <1>1, <1>2, <3>1 DEF FileFits, NothingTwice, WithFile, Pcs, Before, Loading, progressVars, diskVars
    <3>3. SheetFits(j, go[j])'
      <4>1. g.batch = 0 /\ g.part > 0 /\ g.batch < Batches[Sheet(g)]
        BY <1>1, <1>2 DEF SheetFits
      <4>2. Holds(x, u, 0)' /\ x \in used'[u]
        BY <1>2, <2>2, DropBegins
      <4>3. x = <<j, g.file, g.part>> /\ Sheet(go[j])' = Sheet(g)
        BY <2>1, <3>1 DEF MyLoad, Sheet
      <4> QED BY <1>3, <2>1, <3>1, <4>1, <4>2, <4>3 DEF SheetFits, MyLoad
    <3>4. ResultsFit(j, go[j])'
      BY <1>1, <1>2, <2>5, <3>1, ResultsKept DEF ResultsFit, OwnSheets, Loading
    <3>5. Fit(j, go[j])'
      BY <3>2, <3>3, <3>4 DEF Fit
    <3> QED BY <1>1, <2>3, <2>4, <2>5, <3>1, <3>5, LoaderStep
  <2> QED BY <1>4, <2>6, <2>7 DEF Answer
<1>5. CASE Refusal(j) /\ UNCHANGED <<used, owner>>
  <2>1. go' = [go EXCEPT ![j] = NextPart(go[j])] /\ UNCHANGED tableVars
    BY <1>5 DEF Refusal, tableVars
  <2>2. Store'
    BY <1>1, <1>2, <2>1 DEF Store, cdcVars, tableVars
  <2>3. \A v \in Tables : used[v] \subseteq used'[v]
    BY <2>1 DEF tableVars
  <2>4. \A l \in AnyLoad : \A v \in Tables : \A n : l # m /\ Holds(l, v, n) => Holds(l, v, n)'
    BY <2>1 DEF tableVars, Holds
  <2> QED BY <1>1, <2>1, <2>2, <2>3, <2>4, SkipHolds
<1> QED BY <1>4, <1>5 DEF Drop, MyLoad

LEMMA CreateHolds ==
  ASSUME IInv, NEW j \in Jobs, Create(j)
  PROVE  IInv'
<1> DEFINE g == go[j]  t == g.table  m == MyLoad(j, g)
<1>1. /\ j \in Known /\ g.pc = "create" /\ g.pc \in Loading
      /\ UNCHANGED <<progressVars, diskVars, cdcVars, clock, started, done, used, owner>>
  BY DEF Create, At, LoaderFrame, Loading
<1>2. /\ go \in [Jobs -> GoType] /\ g \in GoType /\ m \in AnyLoad /\ Store
      /\ FileFits(j, g) /\ SheetFits(j, g) /\ ResultsFit(j, g) /\ NothingTwice(j, g)
  BY <1>1, LoadingMeans DEF IInv
<1>3. rows' = rows /\ exists' \subseteq Tables /\ exists \subseteq exists'
  BY <1>1, <1>2 DEF Create, Refusal, Store, SheetFits
<1>4. Store'
  BY <1>1, <1>2, <1>3 DEF Store, cdcVars
<1>5. \A v \in Tables : used[v] \subseteq used'[v]
  BY <1>1
<1>6. \A l, v, n : Holds(l, v, n)' <=> Holds(l, v, n)
  BY <1>1, <1>3 DEF Holds
<1>7. CASE go' = [go EXCEPT ![j] = NextPart(go[j])]
  BY <1>1, <1>4, <1>5, <1>6, <1>7, SkipHolds
<1>8. CASE go' = [go EXCEPT ![j] = [g EXCEPT !.pc = "insert"]]
  <2>1. /\ go'[j] \in GoType /\ go' = [go EXCEPT ![j] = go'[j]] /\ go'[j].pc = "insert"
        /\ go'[j].table = t /\ go'[j].todo = g.todo /\ go'[j].file = g.file /\ go'[j].part = g.part
        /\ go'[j].batch = g.batch /\ go'[j].loaded = g.loaded
    BY <1>2, <1>8 DEF GoType, Pcs
  <2>2. FileFits(j, go[j])' /\ NothingTwice(j, go[j])'
    BY <1>1, <1>2, <2>1 DEF FileFits, NothingTwice, WithFile, Pcs, Before, Loading, progressVars, diskVars
  <2>3. SheetFits(j, go[j])'
    BY <1>1, <1>2, <1>6, <2>1 DEF SheetFits, MyLoad, Sheet, Loading
  <2>4. ResultsFit(j, go[j])'
    BY <1>1, <1>2, <1>6, <2>1 DEF ResultsFit, OwnSheets, Loading
  <2>5. Fit(j, go[j])'
    BY <2>2, <2>3, <2>4 DEF Fit
  <2> QED BY <1>1, <1>4, <1>5, <1>6, <2>1, <2>5, LoaderStep
<1> QED BY <1>7, <1>8 DEF Create, Answer, Refusal

LEMMA InsertHolds ==
  ASSUME IInv, NEW j \in Jobs, Insert(j)
  PROVE  IInv'
<1> DEFINE g == go[j]  t == g.table  m == MyLoad(j, g)
<1>1. /\ j \in Known /\ g.pc = "insert" /\ g.pc \in Loading
      /\ UNCHANGED <<progressVars, diskVars, cdcVars, clock, started, done, used, owner>>
  BY DEF Insert, At, LoaderFrame, Loading
<1>2. /\ go \in [Jobs -> GoType] /\ g \in GoType /\ m \in AnyLoad /\ Store
      /\ FileFits(j, g) /\ SheetFits(j, g) /\ ResultsFit(j, g) /\ NothingTwice(j, g)
      /\ g.file \in Files /\ g.part \in 1..Len(Parts[g.file])
      /\ Batches[Sheet(g)] \in Nat \ {0}
  BY <1>1, LoadingMeans DEF IInv
<1>3. /\ t \in Tables /\ t[1] = Sheet(g) /\ m \in used[t] /\ Holds(m, t, g.batch)
      /\ g.batch \in Nat /\ g.batch < Batches[Sheet(g)]
  BY <1>1, <1>2 DEF SheetFits, GoType
<1>4. \A v \in Tables : used[v] \subseteq used'[v]
  BY <1>1
<1>5. CASE /\ t \in exists /\ UNCHANGED exists
           /\ rows' = [rows EXCEPT ![t] = Append(@, <<m, g.batch + 1>>)]
           /\ Answer(j, Inserted(g))
  <2>1. PICK u \in Tables, x \in AnyLoad, b \in Nat : u = t /\ x = m /\ b = g.batch
    BY <1>2, <1>3
  <2>2. rows' = [rows EXCEPT ![u] = Append(@, <<x, b + 1>>)] /\ UNCHANGED <<used, owner, exists>>
        /\ u \in exists /\ x \in used[u] /\ Holds(x, u, b) /\ b + 1 \in Nat
    BY <1>1, <1>3, <1>5, <2>1
  <2>3. Store'
    <3>1. Append(rows[u], <<x, b + 1>>) \in Seq(AnyLoad \X Nat)
      <4>1. rows[u] \in Seq(AnyLoad \X Nat) /\ <<x, b + 1>> \in AnyLoad \X Nat
        BY <1>2, <2>2 DEF Store
      <4> QED BY <4>1, AppendProperties
    <3>2. rows' \in [Tables -> Seq(AnyLoad \X Nat)] /\ \A v \in Tables \ exists : rows'[v] = <<>>
      BY <1>2, <2>2, <3>1 DEF Store
    <3> QED BY <1>1, <1>2, <2>2, <3>2 DEF Store, cdcVars
  <2>4. \A l \in AnyLoad : \A v \in Tables : \A n : l # m /\ Holds(l, v, n) => Holds(l, v, n)'
    BY <1>2, <2>1, <2>2, AppendKeeps
  <2>5. Holds(x, u, b + 1)'
    BY <1>2, <2>2, AppendExtends
  <2>6. CASE go' = [go EXCEPT ![j] = NextPart(go[j])]
    BY <1>1, <1>4, <2>3, <2>4, <2>6, SkipHolds
  <2>7. CASE go' = [go EXCEPT ![j] = [g EXCEPT !.batch = @ + 1]] /\ g.batch + 1 < Batches[Sheet(g)]
    <3>1. /\ go'[j] \in GoType /\ go' = [go EXCEPT ![j] = go'[j]] /\ go'[j].pc = "insert"
          /\ go'[j].table = u /\ go'[j].todo = g.todo /\ go'[j].file = g.file /\ go'[j].part = g.part
          /\ go'[j].batch = b + 1 /\ go'[j].loaded = g.loaded
      <4>1. PICK h, q : h = go[j] /\ q = [h EXCEPT !.batch = b + 1]
        OBVIOUS
      <4>2. h \in GoType /\ h.pc = "insert" /\ h.table = u /\ h = g
        BY <1>1, <1>2, <2>1, <4>1
      <4>3. q \in GoType /\ q.pc = "insert" /\ q.table = u /\ q.todo = h.todo /\ q.file = h.file
            /\ q.part = h.part /\ q.batch = b + 1 /\ q.loaded = h.loaded
        BY <2>2, <4>1, <4>2 DEF GoType
      <4>4. go' = [go EXCEPT ![j] = q]
        BY <2>1, <2>7, <4>1
      <4>5. go'[j] = q /\ go' = [go EXCEPT ![j] = go'[j]]
        BY <1>2, <4>4
      <4> QED BY <4>2, <4>3, <4>5
    <3>2. FileFits(j, go[j])' /\ NothingTwice(j, go[j])'
      BY <1>1, <1>2, <3>1 DEF FileFits, NothingTwice, WithFile, Pcs, Before, Loading, progressVars, diskVars
    <3>3. SheetFits(j, go[j])'
      <4>1. x = <<j, g.file, g.part>> /\ Sheet(go[j])' = Sheet(g) /\ b + 1 < Batches[Sheet(g)] /\ g.part > 0
        BY <1>1, <1>2, <2>1, <2>7, <3>1 DEF MyLoad, Sheet, SheetFits
      <4> QED BY <1>1, <1>3, <2>1, <2>5, <3>1, <4>1 DEF SheetFits, MyLoad
    <3>4. ResultsFit(j, go[j])'
      BY <1>1, <1>2, <2>4, <3>1, ResultsKept DEF ResultsFit, OwnSheets, Loading
    <3>5. Fit(j, go[j])'
      BY <3>2, <3>3, <3>4 DEF Fit
    <3> QED BY <1>1, <1>4, <2>3, <2>4, <3>1, <3>5, LoaderStep
  <2>8. CASE /\ go' = [go EXCEPT ![j] = NextPart([g EXCEPT !.loaded = Append(@, <<g.part, g.table>>)])]
             /\ ~(g.batch + 1 < Batches[Sheet(g)])
    <3> DEFINE e == <<g.part, g.table>>
               k == [g EXCEPT !.loaded = Append(@, e)]
    <3>1. /\ Append(g.loaded, e) \in LoadResults
          /\ ToSet(Append(g.loaded, e)) = ToSet(g.loaded) \cup {e}
      <4>1. PICK S, s : S = Nat \X Tables /\ s = g.loaded
        OBVIOUS
      <4>2. s \in Seq(S) /\ e \in S
        BY <1>2, <1>3, <4>1 DEF GoType, LoadResults
      <4> HIDE DEF e
      <4>3. Append(s, e) \in Seq(S) /\ ToSet(Append(s, e)) = ToSet(s) \cup {e}
        BY <4>2, ToSetOfAppend
      <4> QED BY <4>1, <4>3 DEF LoadResults
    <3>2. PICK new : new = Append(g.loaded, e)
      OBVIOUS
    <3>3. /\ k \in GoType /\ k.pc = "insert" /\ k.file = g.file /\ k.todo = g.todo /\ k.part = g.part
          /\ k.loaded = new
      <4>1. k = [g EXCEPT !.loaded = new] /\ new \in LoadResults
        BY <1>2, <3>1, <3>2
      <4> HIDE DEF k
      <4> QED BY <1>1, <1>2, <4>1 DEF GoType
    <3>4. OwnSheets(k)
      <4>1. \A r \in ToSet(g.loaded) : r[1] \in 1..g.part /\ r[2][1] = Parts[g.file][r[1]]
        BY <1>2 DEF ResultsFit, OwnSheets
      <4>2. e[1] \in 1..g.part /\ e[2][1] = Parts[g.file][e[1]]
        BY <1>2, <1>3 DEF Sheet
      <4> HIDE DEF e, k
      <4> QED BY <3>1, <3>2, <3>3, <4>1, <4>2 DEF OwnSheets
    <3>5. PICK f : f = g.file
      OBVIOUS
    <3>6. ASSUME NEW r \in ToSet(new) PROVE Holds(<<j, f, r[1]>>, r[2], Batches[r[2][1]])'
      <4>1. CASE r \in ToSet(g.loaded)
        BY <1>1, <2>4, <3>5, <4>1, ResultsKept
      <4>2. CASE r = e
        <5>1. <<j, f, r[1]>> = x /\ r[2] = u /\ Batches[r[2][1]] = Batches[Sheet(g)]
          BY <1>3, <2>1, <3>5, <4>2 DEF MyLoad
        <5>2. b + 1 = Batches[Sheet(g)]
          BY <1>2, <1>3, <2>1, <2>8
        <5>3. PICK y, z : y = Batches[r[2][1]] /\ z = r[2] /\ y = b + 1
          BY <5>1, <5>2
        <5> QED BY <2>5, <5>1, <5>3
      <4> QED BY <3>1, <3>2, <3>6, <4>1, <4>2
    <3>7. go'[j] \in GoType /\ go' = [go EXCEPT ![j] = go'[j]] /\ Fit(j, go[j])'
      <4>1. PICK q : q = k
        OBVIOUS
      <4>2. go' = [go EXCEPT ![j] = NextPart(q)]
        BY <2>8, <4>1
      <4> HIDE DEF k
      <4>3. /\ q \in GoType /\ q.pc \in Loading /\ q.file = go[j].file /\ q.todo = go[j].todo
            /\ OwnSheets(q) /\ q.part = go[j].part
            /\ \A r \in ToSet(q.loaded) : Holds(<<j, q.file, r[1]>>, r[2], Batches[r[2][1]])'
        BY <3>3, <3>4, <3>5, <3>6, <4>1 DEF Loading
      <4> QED BY <1>1, <4>2, <4>3, NextSheetFits DEF progressVars, diskVars
    <3> QED BY <1>1, <1>4, <2>3, <2>4, <3>7, LoaderStep
  <2> QED BY <1>5, <2>6, <2>7, <2>8 DEF Answer, Inserted
<1>6. CASE Refusal(j)
  <2>1. go' = [go EXCEPT ![j] = NextPart(go[j])] /\ UNCHANGED <<exists, rows>>
    BY <1>6 DEF Refusal
  <2>2. Store'
    BY <1>1, <1>2, <2>1 DEF Store, cdcVars
  <2>3. \A l \in AnyLoad : \A v \in Tables : \A n : l # m /\ Holds(l, v, n) => Holds(l, v, n)'
    BY <1>1, <2>1 DEF Holds
  <2> QED BY <1>1, <1>4, <2>1, <2>2, <2>3, SkipHolds
<1> QED BY <1>5, <1>6 DEF Insert, MyLoad

-----------------------------------------------------------------------------
(***************************************************************************)
(* The CDC's loop, the clock and the end of the process.                   *)
(***************************************************************************)
LEMMA WorkersStay ==
  ASSUME Workers, UNCHANGED <<progressVars, go, diskVars, tableVars, done>>
  PROVE  Workers'
<1>1. Known' = Known /\ UNCHANGED <<files, errorDir, clobbered, rows, used, owner>>
  BY DEF Known, progressVars, diskVars, tableVars
<1>2. ASSUME NEW j \in Known PROVE Fit(j, go[j])'
  <2>1. Fit(j, go[j])
    BY DEF Workers
  <2>2. \A l, t, k : Holds(l, t, k)' <=> Holds(l, t, k)
    BY <1>1 DEF Holds
  <2>3. FileFits(j, go[j])' /\ NothingTwice(j, go[j])'
    BY <1>1, <2>1 DEF Fit, FileFits, NothingTwice
  <2>4. SheetFits(j, go[j])'
    BY <1>1, <2>1, <2>2 DEF Fit, SheetFits
  <2>5. ResultsFit(j, go[j])'
    BY <2>1, <2>2 DEF Fit, ResultsFit, OwnSheets
  <2> QED BY <2>3, <2>4, <2>5 DEF Fit
<1> QED BY <1>1, <1>2 DEF Workers

LEMMA VisitHolds ==
  ASSUME IInv, NEW t \in Tables, InitialPass(t) \/ Visit(t)
  PROVE  IInv'
<1>1. UNCHANGED <<progressVars, go, diskVars, tableVars, tracked, refused, clock, started, done>>
  BY DEF InitialPass, Visit, boundVars
<1>2. Progress' /\ Workers'
  BY <1>1, ProgressStays, WorkersStay DEF IInv
<1>3. Store' /\ Results' /\ Disk'
  BY <1>1, StoreStays, DiskStays DEF IInv, Store
<1> QED BY <1>2, <1>3 DEF IInv

LEMMA SecondHolds == ASSUME IInv, Second PROVE IInv'
<1>1. /\ UNCHANGED <<progressVars, go, diskVars, tableVars, cdcVars, started, done>>
      /\ clock < MaxTime /\ clock' = clock + 1
  BY DEF Second
<1>2. Progress' /\ Workers'
  BY <1>1, ProgressStays, WorkersStay DEF IInv
<1>3. Store' /\ Results'
  BY <1>1, StoreStays DEF IInv, Store, cdcVars
<1>4. clock' \in 0..MaxTime
  BY <1>1, JobsAssumption DEF IInv, Disk
<1>5. Disk'
  BY <1>1, <1>4 DEF IInv, Disk, diskVars, FilesKept
<1> QED BY <1>2, <1>3, <1>5 DEF IInv

LEMMA CrashHolds == ASSUME IInv, Crash PROVE IInv'
<1>1. /\ job' = [j \in {} |-> 0] /\ files' = [j \in {} |-> 0] /\ go' = [j \in Jobs |-> Idle]
      /\ tracked' = exists /\ refused' \subseteq exists
      /\ UNCHANGED <<diskVars, tableVars, clock, started, done>>
  BY DEF Crash
<1>2. Known' = {}
  BY <1>1 DEF Known
<1>3. Progress'
  BY <1>1, <1>2 DEF IInv, Progress
<1>4. Workers'
  BY <1>1, <1>2, IdleMeans DEF Workers
<1>5. Store' /\ Results'
  BY <1>1, StoreStays DEF IInv, Store
<1>6. Disk'
  BY <1>1, DiskStays DEF IInv
<1> QED BY <1>3, <1>4, <1>5, <1>6 DEF IInv

LEMMA StutterHolds == ASSUME IInv, UNCHANGED vars PROVE IInv'
<1>1. UNCHANGED <<progressVars, go, diskVars, tableVars, cdcVars, boundVars, started, done>>
  BY DEF vars
<1>2. Progress' /\ Workers'
  BY <1>1, ProgressStays, WorkersStay DEF IInv
<1>3. Store' /\ Results' /\ Disk'
  BY <1>1, StoreStays, DiskStays DEF IInv, Store, boundVars, cdcVars
<1> QED BY <1>2, <1>3 DEF IInv

-----------------------------------------------------------------------------
(***************************************************************************)
(* The theorems.                                                           *)
(***************************************************************************)
LEMMA StepHolds == IInv /\ [Next]_vars => IInv'
<1>1. SUFFICES ASSUME IInv, [Next]_vars PROVE IInv'
  OBVIOUS
<1>2. ASSUME NEW j \in Jobs, StartJob(j) PROVE IInv'
  BY <1>1, <1>2, StartJobHolds
<1>3. ASSUME NEW j \in Jobs, Step(j) PROVE IInv'
  <2>1. CASE NothingToDo(j) \/ EndJob(j) \/ CountRows(j) \/ CountFailure(j) \/ Processed(j)
    BY <1>1, <2>1, ProgressOnlyHolds
  <2>2. CASE Discover(j)
    BY <1>1, <2>2, DiscoverHolds
  <2>3. CASE BeginFile(j)
    BY <1>1, <2>3, BeginFileHolds
  <2>4. CASE Open(j)
    BY <1>1, <2>4, OpenHolds
  <2>5. CASE Drop(j)
    BY <1>1, <2>5, DropHolds
  <2>6. CASE Create(j)
    BY <1>1, <2>6, CreateHolds
  <2>7. CASE Insert(j)
    BY <1>1, <2>7, InsertHolds
  <2>8. CASE Completed(j)
    BY <1>1, <2>8, CompletedHolds
  <2>9. CASE Trigger(j)
    BY <1>1, <2>9, TriggerHolds
  <2>10. CASE Failed(j)
    BY <1>1, <2>10, FailedHolds
  <2>11. CASE Move(j) \/ RemoveSource(j)
    BY <1>1, <2>11, MoveHolds
  <2> QED BY <1>3, <2>1, <2>2, <2>3, <2>4, <2>5, <2>6, <2>7, <2>8, <2>9, <2>10, <2>11 DEF Step
<1>4. ASSUME NEW t \in Tables, InitialPass(t) \/ Visit(t) PROVE IInv'
  BY <1>1, <1>4, VisitHolds
<1>5. CASE Second
  BY <1>1, <1>5, SecondHolds
<1>6. CASE Crash
  BY <1>1, <1>6, CrashHolds
<1>7. CASE UNCHANGED vars
  BY <1>1, <1>7, StutterHolds
<1> QED BY <1>1, <1>2, <1>3, <1>4, <1>5, <1>6, <1>7 DEF Next

LEMMA IInvHolds == Spec => []IInv
  BY InitHolds, StepHolds, PTL DEF Spec

-----------------------------------------------------------------------------
(***************************************************************************)
(* The CDC's loop: jobs leave it alone.                                    *)
(***************************************************************************)
Loop == initial \subseteq Tables /\ looping \in BOOLEAN /\ tokens \in BOOLEAN

LEMMA JobsLeaveTheLoop ==
  ASSUME NEW j \in Jobs, StartJob(j) \/ Step(j)
  PROVE  UNCHANGED loopVars
<1>1. UNCHANGED cdcVars => UNCHANGED loopVars
  BY DEF cdcVars
<1>2. CASE StartJob(j) \/ NothingToDo(j) \/ Discover(j) \/ BeginFile(j) \/ EndJob(j) \/ Open(j)
  BY <1>1, <1>2 DEF StartJob, NothingToDo, Discover, BeginFile, EndJob, Open
<1>3. CASE Drop(j) \/ Create(j) \/ Insert(j)
  <2>1. LoaderFrame
    BY <1>3 DEF Drop, Create, Insert
  <2> QED BY <1>1, <2>1 DEF LoaderFrame
<1>4. CASE Completed(j) \/ CountRows(j) \/ Failed(j) \/ RemoveSource(j) \/ CountFailure(j) \/ Processed(j)
  BY <1>1, <1>4 DEF Completed, CountRows, Failed, RemoveSource, CountFailure, Processed
<1>5. CASE Move(j)
  BY <1>1, <1>5 DEF Move
<1>6. CASE Trigger(j)
  BY <1>6 DEF Trigger
<1> QED BY <1>2, <1>3, <1>4, <1>5, <1>6 DEF Step

LEMMA StepLoop == IInv /\ Loop /\ [Next]_vars => Loop'
<1>1. SUFFICES ASSUME IInv, Loop, [Next]_vars PROVE Loop'
  OBVIOUS
<1>2. UNCHANGED loopVars => Loop'
  BY <1>1 DEF Loop, loopVars
<1>3. ASSUME NEW j \in Jobs, StartJob(j) \/ Step(j) PROVE Loop'
  BY <1>2, <1>3, JobsLeaveTheLoop
<1>4. ASSUME NEW t \in Tables, InitialPass(t) PROVE Loop'
  BY <1>1, <1>4 DEF InitialPass, Loop
<1>5. ASSUME NEW t \in Tables, Visit(t) PROVE Loop'
  BY <1>2, <1>5 DEF Visit
<1>6. CASE Second \/ UNCHANGED vars
  BY <1>2, <1>6 DEF Second, vars, cdcVars
<1>7. CASE Crash
  <2>1. exists \subseteq Tables
    BY <1>1 DEF IInv, Store
  <2>2. initial' \subseteq exists
    BY <1>7 DEF Crash
  <2>3. looping' \in BOOLEAN
    <3>1. looping' = (OtherTables \/ exists # {}) \/ looping' = FALSE
      BY <1>7 DEF Crash
    <3> QED BY <3>1
  <2>4. tokens' \in BOOLEAN
    <3>1. tokens' = (tokens \/ looping') \/ tokens' = tokens
      BY <1>7 DEF Crash
    <3>2. tokens \in BOOLEAN
      BY <1>1 DEF Loop
    <3> QED BY <3>1, <3>2
  <2> QED BY <2>1, <2>2, <2>3, <2>4 DEF Loop
<1> QED BY <1>1, <1>3, <1>4, <1>5, <1>6, <1>7 DEF Next

LEMMA LoopHolds == Spec => []Loop
<1>1. Init => Loop
  BY JobsAssumption DEF Init, Loop
<1> QED BY <1>1, StepLoop, IInvHolds, PTL DEF Spec

\* Types: a job's record, its files' statuses and its goroutine are what the code can make
\* of them, and a file's results name its own sheets (LoadAndInsert's LoadResults).
THEOREM JobsTypeCorrect == Spec => []TypeOK
<1>1. IInv /\ Loop => TypeOK
  <2>1. SUFFICES ASSUME IInv, Loop PROVE TypeOK
    OBVIOUS
  <2>2. Known \subseteq started /\ started \subseteq Jobs /\ DOMAIN files = Known
    BY <2>1 DEF IInv, Progress, Known
  <2>3. ASSUME NEW j \in Known
        PROVE  /\ job[j].status \in {"running", "completed", "failed"}
               /\ \A f \in DOMAIN files[j] : files[j][f] \in {"pending", "processing", "completed", "failed"}
    BY <2>1 DEF IInv, Progress, IsProgress
  <2>4. ASSUME NEW j \in Known
        PROVE  /\ go[j].todo \subseteq DOMAIN files[j] /\ go[j].batch \in Nat
               /\ go[j].file # 0 => go[j].part \in 0..Len(Parts[go[j].file])
               /\ \A r \in ToSet(go[j].loaded) : r[2][1] = Parts[go[j].file][r[1]]
    <3>1. go[j] \in GoType /\ Fit(j, go[j])
      BY <2>1, <2>2, <2>4 DEF IInv, Workers
    <3>2. go[j].batch \in Nat
      BY <3>1 DEF GoType
    <3> QED BY <3>1, <3>2 DEF Fit, FileFits, ResultsFit, OwnSheets
  <2>5. folder \cup clobbered \subseteq Files /\ Range(errorDir) \subseteq Files \cup {Nothing}
    BY <2>1 DEF IInv, Disk, Range
  <2>6. tracked \cup refused \cup exists \subseteq Tables /\ \A t \in Tables \ exists : rows[t] = <<>>
    BY <2>1 DEF IInv, Store
  <2>7. tracked \cup refused \cup exists \cup initial \subseteq Tables /\ {looping, tokens} \subseteq BOOLEAN
    BY <2>1, <2>6 DEF Loop
  <2> QED BY <2>2, <2>3, <2>4, <2>5, <2>6, <2>7 DEF TypeOK
<1> QED BY <1>1, IInvHolds, LoopHolds, PTL

\* However moves to the error folder fail, and whoever shares it, no file disappears unless
\* another file, or a copy that breaks off, takes its name there (moveToErrorFolder).
THEOREM FilesAlwaysKept == Spec => []FilesKept
<1>1. IInv => FilesKept
  BY DEF IInv, Disk
<1> QED BY <1>1, IInvHolds, PTL

\* A load that processFile has shown as completed is whole while the name of its table is
\* its own, and alone in it if nobody else has used the name (createTable, insertBatch).
THEOREM LoadsAreKept == Spec => []LoadedUnlessReplaced
<1>1. IInv => LoadedUnlessReplaced
  <2>1. SUFFICES ASSUME IInv, NEW d \in done
                 PROVE  LET l == d[1]  t == d[2] IN
                          /\ owner[t] = l => \A b \in 1..Batches[t[1]] : <<l, b>> \in ToSet(rows[t])
                          /\ used[t] = {l} => rows[t] = [b \in 1..Batches[t[1]] |-> <<l, b>>]
    BY DEF LoadedUnlessReplaced
  <2>2. PICK l, t, n : l = d[1] /\ t = d[2] /\ n = Batches[t[1]]
    OBVIOUS
  <2>3. Holds(l, t, n) /\ t \in Tables
    BY <2>1, <2>2 DEF IInv, Results
  <2>4. ASSUME used[t] = {l} PROVE rows[t] = [b \in 1..n |-> <<l, b>>]
    <3>1. Len(rows[t]) = n /\ \A b \in 1..n : rows[t][b] = <<l, b>>
      BY <2>3, <2>4 DEF Holds
    <3>2. rows[t] \in Seq(AnyLoad \X Nat)
      BY <2>1, <2>3 DEF IInv, Store
    <3>3. rows[t] \in [1..Len(rows[t]) -> AnyLoad \X Nat]
      BY <3>2, LenProperties
    <3> QED BY <3>1, <3>3
  <2> QED BY <2>2, <2>3, <2>4 DEF Holds
<1> QED BY <1>1, IInvHolds, PTL

-----------------------------------------------------------------------------
(***************************************************************************)
(* The counters.  Between two updates of a job's progress a counter is one *)
(* file behind the statuses or the other counters; which one, the place    *)
(* its goroutine has come to tells.                                        *)
(***************************************************************************)
Begun    == Before \cup {"failed"}                    \* the file's end is still to be shown
GivingUp == {"move", "remove", "count failure"}       \* its failure is shown, not yet counted

Due(g, pcs) == IF g.pc \in pcs THEN 1 ELSE 0

Ended       == {"completed", "failed"}
Shown(j, s) == {f \in DOMAIN files[j] : files[j][f] = s}

ResultsOf(j, g) == {<<<<j, g.file, r[1]>>, r[2]>> : r \in ToSet(g.loaded)}

Numbered(loaded) == {<<n, loaded[n][2]>> : n \in DOMAIN loaded}

\* The loads whose rows have been added to the job's.
Counted(j, g) == {d \in done : d[1][1] = j /\ ~(g.pc = "count rows" /\ d[1][2] = g.file)}

StatusesFit(j, g) == \A f \in DOMAIN files[j] :
  (files[j][f] \in Ended) <=> (f \notin g.todo /\ ~(g.pc \in Begun /\ f = g.file))

CountersFit(j, g) == LET J == job[j] IN
  /\ J.processed \in Nat /\ J.successful \in Nat /\ J.failed \in Nat
  /\ Cardinality(Shown(j, "completed")) = J.successful + Due(g, {"count rows"})
  /\ Cardinality(Shown(j, "failed")) = J.failed + Due(g, GivingUp)
  /\ J.successful + J.failed = J.processed + Due(g, {"trigger"})
  /\ J.total = Cardinality(DOMAIN files[j])

RowsFit(j, g) ==
  /\ IsFiniteSet(BatchesOf(Counted(j, g))) /\ job[j].rows = Cardinality(BatchesOf(Counted(j, g)))
  /\ g.pc = "count rows" => {d \in done : d[1][1] = j /\ d[1][2] = g.file} = ResultsOf(j, g)

\* No sheet is twice among a file's results.
SheetsOnce(g) == g.pc \in Before \cup {"count rows"} =>
  \A i \in DOMAIN g.loaded : \A k \in DOMAIN g.loaded : g.loaded[i][1] = g.loaded[k][1] => i = k

JobFits(j, g) ==
  /\ g.pc = "discover" => DOMAIN files[j] = {}
  /\ job[j].status = "running" <=> g.pc # "none"
  /\ job[j].status = "completed" => g.todo = {}

Tallied(j, g) == StatusesFit(j, g) /\ CountersFit(j, g) /\ RowsFit(j, g) /\ SheetsOnce(g) /\ JobFits(j, g)

CountInv == \A j \in Known : Tallied(j, go[j])

\* Batches can be counted, and those of different results apart.
LEMMA BatchesMeans ==
  ASSUME NEW R, NEW x
  PROVE  x \in BatchesOf(R) <=> \E r \in R : \E b \in 1..Batches[r[2][1]] : x = <<r, b>>
<1>1. x \in BatchesOf(R) <=> \E r \in R : x \in {r} \X (1..Batches[r[2][1]])
  BY DEF BatchesOf
<1>2. \A r, S : x \in {r} \X S <=> \E b \in S : x = <<r, b>>
  OBVIOUS
<1> QED BY <1>1, <1>2

LEMMA BatchesFinite ==
  ASSUME NEW R, IsFiniteSet(R), \A r \in R : Batches[r[2][1]] \in Nat
  PROVE  IsFiniteSet(BatchesOf(R))
<1> DEFINE f == [r \in R |-> {r} \X (1..Batches[r[2][1]])]
           S == {f[r] : r \in R}
<1>1. f \in Surjection(R, S)
  BY DEF Surjection
<1>2. IsFiniteSet(S)
  <2> HIDE DEF f, S
  <2> QED BY <1>1, FS_Surjection
<1>3. ASSUME NEW T \in S PROVE IsFiniteSet(T)
  <2>1. PICK r \in R : T = {r} \X (1..Batches[r[2][1]])
    OBVIOUS
  <2>2. PICK n \in Nat : n = Batches[r[2][1]]
    OBVIOUS
  <2>3. IsFiniteSet(1..n)
    BY FS_Interval
  <2>4. IsFiniteSet({r})
    BY FS_Singleton
  <2>5. IsFiniteSet({r} \X (1..n))
    BY <2>3, <2>4, FS_Product
  <2> QED BY <2>1, <2>2, <2>5
<1>4. IsFiniteSet(UNION S)
  <2> HIDE DEF S
  <2> QED BY <1>2, <1>3, FS_UNION
<1> QED BY <1>4 DEF BatchesOf

LEMMA BatchesApart ==
  ASSUME NEW Q, NEW R, Q \cap R = {}, IsFiniteSet(BatchesOf(Q)), IsFiniteSet(BatchesOf(R))
  PROVE  /\ IsFiniteSet(BatchesOf(Q \cup R))
         /\ Cardinality(BatchesOf(Q \cup R)) = Cardinality(BatchesOf(Q)) + Cardinality(BatchesOf(R))
<1>1. BatchesOf(Q \cup R) = BatchesOf(Q) \cup BatchesOf(R)
  <2>1. \A x : x \in BatchesOf(Q \cup R) <=> x \in BatchesOf(Q) \/ x \in BatchesOf(R)
    BY BatchesMeans
  <2> QED BY <2>1
<1>2. BatchesOf(Q) \cap BatchesOf(R) = {}
  <2>1. ASSUME NEW x, x \in BatchesOf(Q), x \in BatchesOf(R) PROVE FALSE
    <3>1. PICK q \in Q : \E b \in 1..Batches[q[2][1]] : x = <<q, b>>
      BY <2>1, BatchesMeans
    <3>2. PICK r \in R : \E b \in 1..Batches[r[2][1]] : x = <<r, b>>
      BY <2>1, BatchesMeans
    <3>3. x[1] = q /\ x[1] = r
      BY <3>1, <3>2
    <3> QED BY <3>3
  <2> QED BY <2>1
<1>3. Cardinality({}) = 0
  BY FS_EmptySet
<1>4. /\ IsFiniteSet(BatchesOf(Q) \cup BatchesOf(R))
      /\ Cardinality(BatchesOf(Q) \cup BatchesOf(R)) =
           Cardinality(BatchesOf(Q)) + Cardinality(BatchesOf(R)) - Cardinality(BatchesOf(Q) \cap BatchesOf(R))
  BY FS_Union
<1>5. Cardinality(BatchesOf(Q)) \in Nat /\ Cardinality(BatchesOf(R)) \in Nat
  BY FS_CardinalityType
<1>6. Cardinality(BatchesOf(Q) \cup BatchesOf(R)) = Cardinality(BatchesOf(Q)) + Cardinality(BatchesOf(R)) - 0
  BY <1>2, <1>3, <1>4
<1>7. Cardinality(BatchesOf(Q \cup R)) = Cardinality(BatchesOf(Q)) + Cardinality(BatchesOf(R)) - 0
  BY <1>1, <1>6
<1>8. PICK a \in Nat, b \in Nat : a = Cardinality(BatchesOf(Q)) /\ b = Cardinality(BatchesOf(R))
  BY <1>5
<1>9. Cardinality(BatchesOf(Q \cup R)) = a + b - 0 /\ a + b - 0 = a + b
  BY <1>7, <1>8
<1>10. IsFiniteSet(BatchesOf(Q \cup R))
  BY <1>1, <1>4
<1> QED BY <1>8, <1>9, <1>10

\* The rows of a file's results are those of its loads, if no sheet is there twice.
LEMMA LoadsOfResults ==
  ASSUME NEW j, NEW g, g.loaded \in LoadResults,
         \A i \in DOMAIN g.loaded : \A k \in DOMAIN g.loaded : g.loaded[i][1] = g.loaded[k][1] => i = k
  PROVE  /\ IsFiniteSet(BatchesOf(ResultsOf(j, g)))
         /\ Cardinality(BatchesOf(Numbered(g.loaded))) = Cardinality(BatchesOf(ResultsOf(j, g)))
<1> PICK s, f : s = g.loaded /\ f = g.file
  OBVIOUS
<1> DEFINE P == {<<n, s[n][2]>> : n \in DOMAIN s}
           Load(n) == <<<<j, f, s[n][1]>>, s[n][2]>>
           L == {Load(n) : n \in DOMAIN s}
<1>1. L = ResultsOf(j, g) /\ P = Numbered(g.loaded)
  BY DEF ToSet, ResultsOf, Numbered
<1>2. /\ Len(s) \in Nat /\ DOMAIN s = 1..Len(s)
      /\ \A n \in DOMAIN s : s[n] \in Nat \X Tables /\ Batches[s[n][2][1]] \in Nat
  <2>1. Len(s) \in Nat /\ DOMAIN s = 1..Len(s) /\ \A n \in DOMAIN s : s[n] \in Nat \X Tables
    BY LenProperties, ElementOfSeq DEF LoadResults
  <2> QED BY <2>1, JobsAssumption DEF Tables
<1>3. IsFiniteSet(P)
  <2> DEFINE p == [n \in DOMAIN s |-> <<n, s[n][2]>>]
  <2>1. p \in Surjection(DOMAIN s, P)
    BY DEF Surjection
  <2>2. IsFiniteSet(DOMAIN s)
    <3>1. PICK m \in Nat : DOMAIN s = 1..m
      BY <1>2
    <3>2. IsFiniteSet(1..m)
      BY FS_Interval
    <3> QED BY <3>1, <3>2
  <2> HIDE DEF p, P
  <2> QED BY <2>1, <2>2, FS_Surjection
<1>4. IsFiniteSet(BatchesOf(P))
  <2>1. \A r \in P : Batches[r[2][1]] \in Nat
    BY <1>2
  <2> HIDE DEF P
  <2> QED BY <1>3, <2>1, BatchesFinite
<1> DEFINE h == [x \in BatchesOf(P) |-> <<Load(x[1][1]), x[2]>>]
<1>5. ASSUME NEW x \in BatchesOf(P)
      PROVE  \E n \in DOMAIN s : \E b \in 1..Batches[s[n][2][1]] : x = <<<<n, s[n][2]>>, b>> /\ h[x] = <<Load(n), b>>
  <2>1. PICK r \in P : \E b \in 1..Batches[r[2][1]] : x = <<r, b>>
    <3> HIDE DEF P
    <3> QED BY BatchesMeans
  <2>2. PICK n \in DOMAIN s : r = <<n, s[n][2]>>
    OBVIOUS
  <2> QED BY <2>1, <2>2, SMTT(30)
<1>6. h \in Bijection(BatchesOf(P), BatchesOf(L))
  <2>1. ASSUME NEW x \in BatchesOf(P) PROVE h[x] \in BatchesOf(L)
    <3>1. PICK n \in DOMAIN s : \E b \in 1..Batches[s[n][2][1]] : x = <<<<n, s[n][2]>>, b>> /\ h[x] = <<Load(n), b>>
      BY <1>5
    <3>2. PICK b \in 1..Batches[s[n][2][1]] : h[x] = <<Load(n), b>>
      BY <3>1
    <3>3. Load(n) \in L /\ Load(n)[2][1] = s[n][2][1]
      OBVIOUS
    <3> HIDE DEF L, Load, h
    <3> QED BY <3>2, <3>3, BatchesMeans
  <2>2. ASSUME NEW x \in BatchesOf(P), NEW y \in BatchesOf(P), h[x] = h[y] PROVE x = y
    <3>1. PICK n \in DOMAIN s : \E b \in 1..Batches[s[n][2][1]] : x = <<<<n, s[n][2]>>, b>> /\ h[x] = <<Load(n), b>>
      BY <1>5
    <3>2. PICK m \in DOMAIN s : \E b \in 1..Batches[s[m][2][1]] : y = <<<<m, s[m][2]>>, b>> /\ h[y] = <<Load(m), b>>
      BY <1>5, SMTT(30)
    <3>3. PICK b : x = <<<<n, s[n][2]>>, b>> /\ h[x] = <<Load(n), b>>
      BY <3>1
    <3>4. PICK c : y = <<<<m, s[m][2]>>, c>> /\ h[y] = <<Load(m), c>>
      BY <3>2
    <3>5. Load(n) = Load(m) /\ b = c
      <4> HIDE DEF Load, h
      <4> QED BY <2>2, <3>3, <3>4
    <3>6. s[n][1] = s[m][1]
      BY <3>5
    <3> QED BY <3>3, <3>4, <3>5, <3>6
  <2>3. ASSUME NEW y \in BatchesOf(L) PROVE \E x \in BatchesOf(P) : h[x] = y
    <3>1. PICK r \in L : \E b \in 1..Batches[r[2][1]] : y = <<r, b>>
      <4> HIDE DEF L
      <4> QED BY <2>3, BatchesMeans
    <3>2. PICK n \in DOMAIN s : r = Load(n)
      OBVIOUS
    <3>3. PICK b \in 1..Batches[s[n][2][1]] : y = <<Load(n), b>>
      BY <3>1, <3>2
    <3>4. <<n, s[n][2]>> \in P
      OBVIOUS
    <3>5. <<<<n, s[n][2]>>, b>> \in BatchesOf(P)
      <4>1. PICK r0 : r0 = <<n, s[n][2]>>
        OBVIOUS
      <4>2. r0 \in P /\ b \in 1..Batches[r0[2][1]]
        BY <3>4, <4>1
      <4> HIDE DEF P
      <4> QED BY <4>1, <4>2, BatchesMeans
    <3> QED BY <3>3, <3>5
  <2> HIDE DEF P, L
  <2> QED BY <2>1, <2>2, <2>3 DEF Bijection, Injection, Surjection, IsInjective
<1>7. ExistsBijection(BatchesOf(P), BatchesOf(L))
  BY <1>6 DEF ExistsBijection
<1>8. IsFiniteSet(BatchesOf(L)) /\ Cardinality(BatchesOf(L)) = Cardinality(BatchesOf(P))
  <2> HIDE DEF P, L
  <2> QED BY <1>4, <1>7, FS_Bijection
<1> QED BY <1>1, <1>8

LEMMA FilesAreFinite ==
  ASSUME NEW S \in SUBSET Files
  PROVE  IsFiniteSet(S) /\ Cardinality(S) \in Nat
<1>1. IsFiniteSet(Files)
  <2>1. PICK n \in Nat : Files = 1..n
    BY JobsAssumption DEF Files
  <2>2. IsFiniteSet(1..n)
    BY FS_Interval
  <2> QED BY <2>1, <2>2
<1>2. IsFiniteSet(S)
  BY <1>1, FS_Subset
<1> QED BY <1>2, FS_CardinalityType

\* A file whose end is shown is one more among those shown so, and none of the others moves.
LEMMA OneMoreShown ==
  ASSUME Progress, NEW j \in Known, NEW f \in DOMAIN files[j], files[j][f] \notin Ended,
         NEW s \in Ended, files' = [files EXCEPT ![j][f] = s]
  PROVE  /\ DOMAIN files'[j] = DOMAIN files[j]
         /\ Cardinality(Shown(j, s))' = Cardinality(Shown(j, s)) + 1
         /\ \A t \in Ended \ {s} : Shown(j, t)' = Shown(j, t)
<1>1. /\ DOMAIN files'[j] = DOMAIN files[j] /\ files'[j][f] = s
      /\ \A x \in DOMAIN files[j] \ {f} : files'[j][x] = files[j][x]
  BY DEF Progress
<1>2. Shown(j, s)' = Shown(j, s) \cup {f} /\ f \notin Shown(j, s)
  BY <1>1 DEF Shown
<1>3. \A t \in Ended \ {s} : Shown(j, t)' = Shown(j, t)
  BY <1>1 DEF Shown
<1>4. Shown(j, s) \in SUBSET Files
  BY DEF Shown, Progress
<1>5. IsFiniteSet(Shown(j, s))
  BY <1>4, FilesAreFinite
<1>6. Cardinality(Shown(j, s) \cup {f}) = Cardinality(Shown(j, s)) + 1
  BY <1>2, <1>5, FS_AddElement
<1>7. Cardinality(Shown(j, s))' = Cardinality(Shown(j, s)')
  OBVIOUS
<1> QED BY <1>1, <1>2, <1>3, <1>6, <1>7

\* What another job's step leaves alone.
LEMMA OthersTallied ==
  ASSUME CountInv, NEW j \in Known, Known' = Known,
         \A i \in Known \ {j} : go'[i] = go[i] /\ job'[i] = job[i] /\ files'[i] = files[i],
         done \subseteq done', \A d \in done' \ done : d[1][1] = j,
         Tallied(j, go[j])'
  PROVE  CountInv'
<1>1. ASSUME NEW i \in Known \ {j} PROVE Tallied(i, go[i])'
  <2>1. Tallied(i, go[i]) /\ go'[i] = go[i] /\ job'[i] = job[i] /\ files'[i] = files[i]
    BY DEF CountInv
  <2>2. \A d \in done' : d[1][1] = i => d \in done
    OBVIOUS
  <2>3. Counted(i, go[i])' = Counted(i, go[i])
    BY <2>1, <2>2 DEF Counted
  <2>4. {d \in done' : d[1][1] = i /\ d[1][2] = go[i].file} = {d \in done : d[1][1] = i /\ d[1][2] = go[i].file}
    BY <2>2
  <2>5. StatusesFit(i, go[i])' /\ JobFits(i, go[i])' /\ SheetsOnce(go[i])'
    BY <2>1, ZenonT(60) DEF Tallied, StatusesFit, JobFits, SheetsOnce
  <2>6. CountersFit(i, go[i])'
    BY <2>1, ZenonT(60) DEF Tallied, CountersFit, Shown, Due
  <2>7. RowsFit(i, go[i])'
    <3>1. ResultsOf(i, go[i])' = ResultsOf(i, go[i])
      BY <2>1 DEF ResultsOf
    <3>2. RowsFit(i, go[i])
      BY <2>1 DEF Tallied
    <3> QED BY <2>1, <2>3, <2>4, <3>1, <3>2, ZenonT(60) DEF RowsFit
  <2> QED BY <2>5, <2>6, <2>7 DEF Tallied
<1> QED BY <1>1 DEF CountInv

\* A goroutine's step between two updates of the progress.
LEMMA MoveTallied ==
  ASSUME CountInv, NEW j \in Known, UNCHANGED <<progressVars, done>>,
         \A i \in Known \ {j} : go'[i] = go[i],
         go'[j].todo = go[j].todo, go'[j].file = go[j].file,
         go[j].pc \notin {"none", "count rows"}, go'[j].pc \notin {"none", "discover", "count rows"},
         go'[j].pc \in Begun <=> go[j].pc \in Begun,
         go'[j].pc \in GivingUp <=> go[j].pc \in GivingUp,
         go'[j].pc = "trigger" <=> go[j].pc = "trigger",
         SheetsOnce(go'[j])
  PROVE  CountInv'
<1>1. Known' = Known /\ UNCHANGED <<job, files, done>> /\ Tallied(j, go[j])
  BY DEF Known, progressVars, CountInv
<1>2. Counted(j, go[j])' = Counted(j, go[j])
  BY <1>1 DEF Counted
<1>3. StatusesFit(j, go[j])'
  BY <1>1 DEF Tallied, StatusesFit
<1>4. CountersFit(j, go[j])'
  <2>1. Due(go[j], {"count rows"})' = Due(go[j], {"count rows"}) /\ Due(go[j], GivingUp)' = Due(go[j], GivingUp)
        /\ Due(go[j], {"trigger"})' = Due(go[j], {"trigger"})
    BY DEF Due, GivingUp
  <2> QED BY <1>1, <2>1 DEF Tallied, CountersFit, Shown
<1>5. RowsFit(j, go[j])'
  BY <1>1, <1>2 DEF Tallied, RowsFit
<1>6. JobFits(j, go[j])' /\ SheetsOnce(go[j])'
  BY <1>1 DEF Tallied, JobFits
<1>7. Tallied(j, go[j])'
  BY <1>3, <1>4, <1>5, <1>6 DEF Tallied
<1> QED BY <1>1, <1>7, OthersTallied

LEMMA NoneCounted == IsFiniteSet(BatchesOf({})) /\ Cardinality(BatchesOf({})) = 0
<1>1. BatchesOf({}) = {}
  BY DEF BatchesOf
<1> QED BY <1>1, FS_EmptySet

LEMMA StartJobTallied ==
  ASSUME IInv, CountInv, NEW j \in Jobs, StartJob(j)
  PROVE  CountInv'
<1>1. /\ j \notin started /\ Known' = Known \cup {j} /\ j \notin Known /\ Known \subseteq Jobs
      /\ go' = [go EXCEPT ![j] = [@ EXCEPT !.pc = "discover"]] /\ go[j] = Idle /\ go \in [Jobs -> GoType]
      /\ done' = done
  BY DEF StartJob, Goto, Known, IInv, Progress, Workers
<1>2. /\ job' = [i \in Known \cup {j} |-> IF i = j
           THEN [status |-> "running", total |-> 0, processed |-> 0, successful |-> 0, failed |-> 0, rows |-> 0]
           ELSE job[i]]
      /\ files' = [i \in Known \cup {j} |-> IF i = j THEN [f \in {} |-> ""] ELSE files[i]]
  BY SMTT(30) DEF StartJob
<1>3. /\ \A i \in Known : job'[i] = job[i] /\ files'[i] = files[i] /\ go'[i] = go[i]
      /\ DOMAIN files'[j] = {}
      /\ job'[j] = [status |-> "running", total |-> 0, processed |-> 0, successful |-> 0, failed |-> 0, rows |-> 0]
      /\ go'[j].pc = "discover" /\ go'[j].todo = {}
  <2>1. \A i \in Known : job'[i] = job[i] /\ files'[i] = files[i]
    BY <1>1, <1>2
  <2>2. \A i \in Known : go'[i] = go[i]
    BY <1>1
  <2>3. go'[j] = [Idle EXCEPT !.pc = "discover"]
    BY <1>1
  <2> QED BY <1>1, <1>2, <2>1, <2>2, <2>3 DEF Idle
<1>4. ASSUME NEW i \in Known PROVE Tallied(i, go[i])'
  <2>1. Tallied(i, go[i]) /\ go'[i] = go[i] /\ job'[i] = job[i] /\ files'[i] = files[i] /\ done' = done
    BY <1>1, <1>3 DEF CountInv
  <2>2. Counted(i, go[i])' = Counted(i, go[i]) /\ ResultsOf(i, go[i])' = ResultsOf(i, go[i])
    BY <2>1 DEF Counted, ResultsOf
  <2>3. StatusesFit(i, go[i])' /\ JobFits(i, go[i])' /\ SheetsOnce(go[i])'
    BY <2>1 DEF Tallied, StatusesFit, JobFits, SheetsOnce
  <2>4. CountersFit(i, go[i])'
    BY <2>1 DEF Tallied, CountersFit, Shown, Due
  <2>5. RowsFit(i, go[i])'
    BY <2>1, <2>2 DEF Tallied, RowsFit
  <2> QED BY <2>3, <2>4, <2>5 DEF Tallied
<1>5. Tallied(j, go[j])'
  <2>1. StatusesFit(j, go[j])' /\ JobFits(j, go[j])' /\ SheetsOnce(go[j])'
    BY <1>3 DEF StatusesFit, JobFits, SheetsOnce, Before, Loading
  <2>2. CountersFit(j, go[j])'
    <3>1. \A s : Shown(j, s)' = {}
      BY <1>3 DEF Shown
    <3>2. Cardinality({}) = 0
      BY FS_EmptySet
    <3>3. Due(go'[j], {"count rows"}) = 0 /\ Due(go'[j], GivingUp) = 0 /\ Due(go'[j], {"trigger"}) = 0
      BY <1>3 DEF Due, GivingUp
    <3>4. /\ Cardinality(Shown(j, "completed")') = 0 /\ Cardinality(Shown(j, "failed")') = 0
          /\ Cardinality(DOMAIN files'[j]) = 0
      BY <1>3, <3>1, <3>2
    <3>5. /\ job'[j].processed = 0 /\ job'[j].successful = 0 /\ job'[j].failed = 0 /\ job'[j].total = 0
      BY <1>3
    <3>6. job'[j].successful + job'[j].failed = 0 + 0 /\ 0 + 0 = 0 /\ 0 \in Nat
      BY <3>5
    <3> QED BY <3>3, <3>4, <3>5, <3>6 DEF CountersFit
  <2>3. RowsFit(j, go[j])'
    <3>1. \A d \in done : d[1][1] # j
      BY <1>1 DEF IInv, Results
    <3>2. Counted(j, go[j])' = {}
      BY <1>1, <3>1 DEF Counted
    <3> QED BY <1>3, <3>2, NoneCounted DEF RowsFit
  <2> QED BY <2>1, <2>2, <2>3 DEF Tallied
<1> QED BY <1>1, <1>4, <1>5 DEF CountInv

\* What IInv says of a job and its goroutine.
LEMMA JobMeans ==
  ASSUME IInv, NEW j \in Known
  PROVE  /\ j \in Jobs /\ go \in [Jobs -> GoType] /\ Known \subseteq Jobs /\ go[j] \in GoType /\ Fit(j, go[j])
         /\ job = [i \in Known |-> job[i]] /\ files = [i \in Known |-> files[i]]
         /\ IsProgress(job[j]) /\ DOMAIN files[j] \in SUBSET Files
  BY DEF IInv, Progress, Workers

LEMMA DiscoverTallied ==
  ASSUME IInv, CountInv, NEW j \in Jobs, Discover(j)
  PROVE  CountInv'
<1> DEFINE found == FolderOf[j] \cap folder
<1>1. /\ job' = [job EXCEPT ![j].total = Cardinality(found)]
      /\ files' = [files EXCEPT ![j] = [f \in found |-> "pending"]]
      /\ go' = [go EXCEPT ![j] = [@ EXCEPT !.pc = "next", !.todo = found]]
      /\ j \in Known /\ go[j].pc = "discover" /\ done' = done
  BY DEF Discover, At
<1> HIDE DEF found
<1>2. /\ j \in Known /\ go[j].pc = "discover" /\ Tallied(j, go[j]) /\ Known' = Known
      /\ \A i \in Known \ {j} : go'[i] = go[i] /\ job'[i] = job[i] /\ files'[i] = files[i]
      /\ files'[j] = [f \in found |-> "pending"]
      /\ job'[j] = [job[j] EXCEPT !.total = Cardinality(found)]
      /\ go'[j] = [go[j] EXCEPT !.pc = "next", !.todo = found]
  BY <1>1, JobMeans DEF CountInv, Known
<1>3. /\ go'[j].pc = "next" /\ go'[j].todo = found /\ DOMAIN files'[j] = found
      /\ job'[j].total = Cardinality(found) /\ job'[j].status = job[j].status /\ job'[j].rows = job[j].rows
      /\ job'[j].processed = job[j].processed /\ job'[j].successful = job[j].successful
      /\ job'[j].failed = job[j].failed
  <2>1. go'[j].pc = "next" /\ go'[j].todo = found /\ DOMAIN files'[j] = found
    BY <1>1, <1>2, JobMeans DEF GoType
  <2>2. PICK n : n = Cardinality(found)
    OBVIOUS
  <2>3. job'[j] = [job[j] EXCEPT !.total = n] /\ IsProgress(job[j])
    BY <1>1, <1>2, <2>2, JobMeans
  <2>4. /\ job'[j].total = n /\ job'[j].status = job[j].status /\ job'[j].rows = job[j].rows
        /\ job'[j].processed = job[j].processed /\ job'[j].successful = job[j].successful
        /\ job'[j].failed = job[j].failed
    BY <2>3 DEF IsProgress, Fields
  <2> QED BY <2>1, <2>2, <2>4
<1>4. StatusesFit(j, go[j])' /\ SheetsOnce(go[j])' /\ JobFits(j, go[j])'
  <2>1. StatusesFit(j, go[j])'
    BY <1>2, <1>3 DEF StatusesFit, Ended
  <2>2. SheetsOnce(go[j])'
    BY <1>3 DEF SheetsOnce, Before, Loading
  <2>3. job[j].status = "running"
    BY <1>2 DEF Tallied, JobFits
  <2> QED BY <1>3, <2>1, <2>2, <2>3 DEF JobFits
<1>5. CountersFit(j, go[j])'
  <2>1. DOMAIN files[j] = {} /\ CountersFit(j, go[j])
    BY <1>2 DEF Tallied, JobFits
  <2>2. \A s \in Ended : Shown(j, s) = {} /\ Shown(j, s)' = {}
    BY <1>2, <2>1 DEF Shown, Ended
  <2>3. /\ Due(go[j], {"count rows"})' = 0 /\ Due(go[j], GivingUp)' = 0 /\ Due(go[j], {"trigger"})' = 0
        /\ Due(go[j], {"count rows"}) = 0 /\ Due(go[j], GivingUp) = 0 /\ Due(go[j], {"trigger"}) = 0
    BY <1>2, <1>3 DEF Due, GivingUp
  <2> QED BY <1>3, <2>1, <2>2, <2>3 DEF CountersFit, Ended
<1>6. RowsFit(j, go[j])'
  <2>1. Counted(j, go[j])' = Counted(j, go[j])
    BY <1>1, <1>2, <1>3 DEF Counted
  <2> QED BY <1>2, <1>3, <2>1 DEF Tallied, RowsFit
<1>7. Tallied(j, go[j])'
  BY <1>4, <1>5, <1>6 DEF Tallied
<1> QED BY <1>1, <1>2, <1>7, OthersTallied

LEMMA BeginFileTallied ==
  ASSUME IInv, CountInv, NEW j \in Jobs, BeginFile(j)
  PROVE  CountInv'
<1>1. /\ j \in Known /\ go[j].pc = "next" /\ go[j].todo # {} /\ job' = job /\ done' = done
  BY DEF BeginFile, At
<1>2. PICK f \in go[j].todo :
        /\ files' = [files EXCEPT ![j][f] = "processing"]
        /\ go' = [go EXCEPT ![j] = [Idle EXCEPT !.pc = "open", !.todo = go[j].todo \ {f}, !.file = f]]
  <2>1. go[j].todo \in SUBSET Nat
    BY <1>1, JobMeans, FilesAreNumbers DEF GoType
  <2>2. Min(go[j].todo) \in go[j].todo
    BY <1>1, <2>1, MinExists DEF Min
  <2> QED BY <2>2 DEF BeginFile
<1>3. /\ Known' = Known /\ Tallied(j, go[j]) /\ f \in DOMAIN files[j]
      /\ \A i \in Known \ {j} : go'[i] = go[i] /\ job'[i] = job[i] /\ files'[i] = files[i]
      /\ DOMAIN files'[j] = DOMAIN files[j] /\ files'[j][f] = "processing"
      /\ \A x \in DOMAIN files[j] \ {f} : files'[j][x] = files[j][x]
  <2>1. f \in DOMAIN files[j]
    BY <1>1, JobMeans DEF Fit, FileFits
  <2>2. Known' = Known /\ Tallied(j, go[j]) /\ \A i \in Known \ {j} : go'[i] = go[i] /\ job'[i] = job[i]
    BY <1>1, <1>2, JobMeans DEF CountInv, Known
  <2> QED BY <1>1, <1>2, <2>1, <2>2, JobMeans
<1>4. go'[j].pc = "open" /\ go'[j].todo = go[j].todo \ {f} /\ go'[j].file = f /\ go'[j].loaded = <<>>
  <2>1. go'[j] = [Idle EXCEPT !.pc = "open", !.todo = go[j].todo \ {f}, !.file = f]
    BY <1>1, <1>2, JobMeans
  <2> QED BY <2>1 DEF Idle
<1>5. StatusesFit(j, go[j]) /\ StatusesFit(j, go[j])'
  BY <1>1, <1>3, <1>4 DEF Tallied, StatusesFit, Ended, Begun, Before, Loading
<1>6. CountersFit(j, go[j])'
  <2>1. files[j][f] \notin Ended
    BY <1>3, <1>5 DEF StatusesFit
  <2>2. \A s \in Ended : Shown(j, s)' = Shown(j, s)
    BY <1>3, <2>1 DEF Shown, Ended
  <2>3. /\ Due(go'[j], {"count rows"}) = 0 /\ Due(go'[j], GivingUp) = 0 /\ Due(go'[j], {"trigger"}) = 0
        /\ Due(go[j], {"count rows"}) = 0 /\ Due(go[j], GivingUp) = 0 /\ Due(go[j], {"trigger"}) = 0
    BY <1>1, <1>4 DEF Due, GivingUp
  <2> QED BY <1>1, <1>3, <2>2, <2>3 DEF Tallied, CountersFit, Ended
<1>7. RowsFit(j, go[j])'
  <2>1. Counted(j, go[j])' = Counted(j, go[j])
    BY <1>1, <1>4 DEF Counted
  <2> QED BY <1>1, <1>3, <1>4, <2>1 DEF Tallied, RowsFit
<1>8. SheetsOnce(go[j])' /\ JobFits(j, go[j])'
  <2>1. SheetsOnce(go[j])'
    BY <1>4 DEF SheetsOnce
  <2>2. job[j].status = "running"
    BY <1>1, <1>3, JobMeans DEF Tallied, JobFits
  <2> QED BY <1>1, <1>4, <2>1, <2>2 DEF JobFits
<1>9. Tallied(j, go[j])'
  BY <1>5, <1>6, <1>7, <1>8 DEF Tallied
<1> QED BY <1>1, <1>3, <1>9, OthersTallied

LEMMA OneDue == ASSUME NEW n \in Nat, NEW a, NEW b, a = n + 0, b = a + 1 PROVE b = n + 1
  OBVIOUS

\* A file's end is shown: the counter that belongs to it is due.
LEMMA EndTallied ==
  ASSUME IInv, CountInv, NEW j \in Known, job' = job, go[j].pc \in Begun,
         NEW s \in Ended, files' = [files EXCEPT ![j][go[j].file] = s],
         NEW c \in Pcs, go'[j].pc = c, \A i \in Known \ {j} : go'[i] = go[i],
         go'[j].todo = go[j].todo, go'[j].file = go[j].file,
         s = "completed" <=> c = "count rows", s = "failed" <=> c = "move"
  PROVE  /\ Known' = Known /\ StatusesFit(j, go[j])' /\ CountersFit(j, go[j])' /\ JobFits(j, go[j])'
         /\ \A i \in Known \ {j} : go'[i] = go[i] /\ job'[i] = job[i] /\ files'[i] = files[i]
<1>1. PICK f : f = go[j].file
  OBVIOUS
<1>2. f \in DOMAIN files[j] \ go[j].todo
  BY <1>1, JobMeans DEF Fit, FileFits, WithFile, Pcs, Begun, Before, Loading
<1>3. /\ Known' = Known /\ Tallied(j, go[j]) /\ c \in {"count rows", "move"}
      /\ \A i \in Known \ {j} : go'[i] = go[i] /\ job'[i] = job[i] /\ files'[i] = files[i]
      /\ DOMAIN files'[j] = DOMAIN files[j] /\ files'[j][f] = s
      /\ \A x \in DOMAIN files[j] \ {f} : files'[j][x] = files[j][x]
  <2>1. Known' = Known /\ Tallied(j, go[j]) /\ \A i \in Known \ {j} : go'[i] = go[i] /\ job'[i] = job[i]
    BY JobMeans DEF CountInv, Known
  <2> QED BY <1>1, <1>2, <2>1, JobMeans DEF Ended
<1>4. go'[j].pc = c /\ go'[j].todo = go[j].todo /\ go'[j].file = f
  BY <1>1
<1>5. StatusesFit(j, go[j]) /\ StatusesFit(j, go[j])' /\ files[j][f] \notin Ended
  <2>1. StatusesFit(j, go[j])
    BY <1>3 DEF Tallied
  <2>2. files[j][f] \notin Ended
    BY <1>1, <1>2, <2>1 DEF StatusesFit
  <2>3. c \notin Begun
    BY <1>3 DEF Begun, Before, Loading
  <2>4. ASSUME NEW x \in DOMAIN files[j]
        PROVE  (files'[j][x] \in Ended) <=> (x \notin go'[j].todo /\ ~(go'[j].pc \in Begun /\ x = go'[j].file))
    <3>1. CASE x = f
      BY <1>2, <1>3, <1>4, <2>3, <3>1
    <3>2. CASE x # f
      BY <1>1, <1>3, <1>4, <2>1, <2>3, <3>2 DEF StatusesFit
    <3> QED BY <3>1, <3>2
  <2> QED BY <1>3, <2>1, <2>2, <2>4 DEF StatusesFit
<1>6. CountersFit(j, go[j])'
  <2>1. /\ Cardinality(Shown(j, s)') = Cardinality(Shown(j, s)) + 1
        /\ \A t \in Ended \ {s} : Shown(j, t)' = Shown(j, t)
    BY <1>1, <1>2, <1>5, OneMoreShown DEF IInv
  <2>2. /\ Due(go'[j], {"count rows"}) = (IF s = "completed" THEN 1 ELSE 0)
        /\ Due(go'[j], GivingUp) = (IF s = "failed" THEN 1 ELSE 0) /\ Due(go'[j], {"trigger"}) = 0
    BY <1>3, <1>4 DEF Due, GivingUp, Ended
  <2>3. Due(go[j], {"count rows"}) = 0 /\ Due(go[j], GivingUp) = 0 /\ Due(go[j], {"trigger"}) = 0
    BY DEF Due, GivingUp, Begun, Before, Loading
  <2>4. CountersFit(j, go[j])
    BY <1>3 DEF Tallied
  <2>5. CASE s = "completed"
    <3>1. Cardinality(Shown(j, "completed")') = Cardinality(Shown(j, "completed")) + 1
      BY <2>1, <2>5 DEF Shown
    <3>2. Shown(j, "failed")' = Shown(j, "failed")
      BY <2>1, <2>5 DEF Ended
    <3>3. Cardinality(Shown(j, "completed")') = job[j].successful + 1
      <4>1. Cardinality(Shown(j, "completed")) = job[j].successful + 0 /\ job[j].successful \in Nat
        BY <2>3, <2>4 DEF CountersFit
      <4> QED BY <3>1, <4>1, OneDue, Zenon
    <3> QED BY <1>3, <2>2, <2>3, <2>4, <2>5, <3>2, <3>3 DEF CountersFit
  <2>6. CASE s = "failed"
    <3>1. Cardinality(Shown(j, "failed")') = Cardinality(Shown(j, "failed")) + 1
      BY <2>1, <2>6 DEF Shown
    <3>2. Shown(j, "completed")' = Shown(j, "completed")
      BY <2>1, <2>6 DEF Ended
    <3>3. Cardinality(Shown(j, "failed")') = job[j].failed + 1
      <4>1. Cardinality(Shown(j, "failed")) = job[j].failed + 0 /\ job[j].failed \in Nat
        BY <2>3, <2>4 DEF CountersFit
      <4> QED BY <3>1, <4>1, OneDue, Zenon
    <3> QED BY <1>3, <2>2, <2>3, <2>4, <2>6, <3>2, <3>3 DEF CountersFit
  <2> QED BY <2>5, <2>6 DEF Ended
<1>7. JobFits(j, go[j])'
  BY <1>3, <1>4 DEF Tallied, JobFits, Begun, Before, Loading
<1> QED BY <1>1, <1>3, <1>4, <1>5, <1>6, <1>7

LEMMA CompletedTallied ==
  ASSUME IInv, CountInv, NEW j \in Jobs, Completed(j)
  PROVE  CountInv'
<1>1. /\ j \in Known /\ go[j].pc = "completed" /\ job' = job
      /\ files' = [files EXCEPT ![j][go[j].file] = "completed"]
      /\ go' = [go EXCEPT ![j] = [@ EXCEPT !.pc = "count rows"]]
      /\ done' = done \cup ResultsOf(j, go[j])
  BY DEF Completed, At, Goto, ResultsOf
<1>2. /\ go'[j].pc = "count rows" /\ go'[j].todo = go[j].todo /\ go'[j].file = go[j].file
      /\ go'[j].loaded = go[j].loaded /\ \A i \in Known \ {j} : go'[i] = go[i]
  BY <1>1, JobMeans DEF GoType
<1>3. /\ Known' = Known /\ StatusesFit(j, go[j])' /\ CountersFit(j, go[j])' /\ JobFits(j, go[j])'
      /\ \A i \in Known \ {j} : go'[i] = go[i] /\ job'[i] = job[i] /\ files'[i] = files[i]
  <2>1. /\ go[j].pc \in Begun /\ "count rows" \in Pcs /\ "completed" \in Ended /\ "completed" # "failed"
        /\ "count rows" # "move"
    BY <1>1 DEF Begun, Before, Pcs, Ended
  <2> QED BY <1>1, <1>2, <2>1, EndTallied
<1>4. Tallied(j, go[j])
  BY <1>1 DEF CountInv
<1>5. \A d \in done : d[1][1] = j => d[1][2] # go[j].file
  BY <1>1, JobMeans DEF Fit, NothingTwice, Before
<1>6. ResultsOf(j, go[j])' = ResultsOf(j, go[j]) /\ \A d \in ResultsOf(j, go[j]) : d[1][1] = j /\ d[1][2] = go[j].file
  <2>1. PICK g, h : g = go[j] /\ h = go'[j]
    OBVIOUS
  <2>2. g.file = h.file /\ g.loaded = h.loaded
    BY <1>2, <2>1
  <2>3. ResultsOf(j, h) = ResultsOf(j, g)
    BY <2>2 DEF ResultsOf
  <2>4. \A d \in ResultsOf(j, g) : d[1][1] = j /\ d[1][2] = g.file
    BY DEF ResultsOf
  <2> QED BY <2>1, <2>3, <2>4
<1>7. RowsFit(j, go[j])'
  <2>1. Counted(j, go[j])' = Counted(j, go[j])
    BY <1>1, <1>2, <1>5, <1>6 DEF Counted
  <2>2. {d \in done' : d[1][1] = j /\ d[1][2] = go'[j].file} = ResultsOf(j, go[j])
    BY <1>1, <1>2, <1>5, <1>6, ZenonT(60)
  <2> QED BY <1>1, <1>4, <1>6, <2>1, <2>2 DEF Tallied, RowsFit
<1>8. SheetsOnce(go[j])'
  <2>1. SheetsOnce(go[j]) /\ go[j].pc \in Before /\ go'[j].loaded = go[j].loaded
    BY <1>1, <1>2, <1>4 DEF Tallied, Before
  <2> QED BY <2>1 DEF SheetsOnce
<1>9. Tallied(j, go[j])'
  BY <1>3, <1>7, <1>8 DEF Tallied
<1> QED BY <1>1, <1>3, <1>6, <1>9, OthersTallied

LEMMA FailedTallied ==
  ASSUME IInv, CountInv, NEW j \in Jobs, Failed(j)
  PROVE  CountInv'
<1>1. /\ j \in Known /\ go[j].pc = "failed" /\ job' = job /\ done' = done
      /\ files' = [files EXCEPT ![j][go[j].file] = "failed"]
      /\ go' = [go EXCEPT ![j] = [@ EXCEPT !.pc = "move"]]
  BY DEF Failed, At, Goto
<1>2. /\ go'[j].pc = "move" /\ go'[j].todo = go[j].todo /\ go'[j].file = go[j].file
      /\ \A i \in Known \ {j} : go'[i] = go[i]
  BY <1>1, JobMeans DEF GoType
<1>3. /\ Known' = Known /\ StatusesFit(j, go[j])' /\ CountersFit(j, go[j])' /\ JobFits(j, go[j])'
      /\ \A i \in Known \ {j} : go'[i] = go[i] /\ job'[i] = job[i] /\ files'[i] = files[i]
  <2>1. /\ go[j].pc \in Begun /\ "move" \in Pcs /\ "failed" \in Ended /\ "completed" # "failed"
        /\ "count rows" # "move"
    BY <1>1 DEF Begun, Pcs, Ended
  <2> QED BY <1>1, <1>2, <2>1, EndTallied
<1>4. RowsFit(j, go[j])'
  <2>1. Counted(j, go[j])' = Counted(j, go[j]) /\ Tallied(j, go[j])
    BY <1>1, <1>2 DEF Counted, CountInv
  <2> QED BY <1>1, <1>2, <2>1 DEF Tallied, RowsFit
<1>5. SheetsOnce(go[j])'
  BY <1>2 DEF SheetsOnce, Before, Loading
<1>6. Tallied(j, go[j])'
  BY <1>3, <1>4, <1>5 DEF Tallied
<1> QED BY <1>1, <1>3, <1>6, OthersTallied

\* A job's step in which only its own record changes: no file's status, no load.
LEMMA RecordTallied ==
  ASSUME IInv, CountInv, NEW j \in Known, UNCHANGED <<files, done>>,
         job' = [job EXCEPT ![j] = job'[j]], go' = [go EXCEPT ![j] = go'[j]],
         go'[j].todo = go[j].todo, go'[j].pc # "count rows",
         go[j].pc \notin Begun, go'[j].pc \notin Begun,
         CountersFit(j, go[j])', RowsFit(j, go[j])', JobFits(j, go[j])'
  PROVE  CountInv'
<1>1. /\ Known' = Known /\ Tallied(j, go[j])
      /\ \A i \in Known \ {j} : go'[i] = go[i] /\ job'[i] = job[i] /\ files'[i] = files[i]
  BY JobMeans DEF CountInv, Known
<1>2. StatusesFit(j, go[j])'
  BY <1>1 DEF Tallied, StatusesFit
<1>3. SheetsOnce(go[j])'
  BY DEF SheetsOnce, Begun
<1>4. Tallied(j, go[j])'
  BY <1>2, <1>3 DEF Tallied
<1> QED BY <1>1, <1>4, OthersTallied

LEMMA NothingToDoTallied ==
  ASSUME IInv, CountInv, NEW j \in Jobs, NothingToDo(j)
  PROVE  CountInv'
<1>1. /\ j \in Known /\ go[j].pc = "discover" /\ UNCHANGED <<files, done>> /\ Tallied(j, go[j])
      /\ job' = [job EXCEPT ![j].status = "failed"] /\ go' = [go EXCEPT ![j] = [@ EXCEPT !.pc = "none"]]
  BY DEF NothingToDo, At, Goto, CountInv
<1>2. /\ job' = [job EXCEPT ![j] = job'[j]] /\ job'[j].status = "failed" /\ job'[j].total = job[j].total
      /\ job'[j].processed = job[j].processed /\ job'[j].successful = job[j].successful
      /\ job'[j].failed = job[j].failed /\ job'[j].rows = job[j].rows
  BY <1>1, JobMeans, ZenonT(60) DEF IsProgress, Fields
<1>3. go' = [go EXCEPT ![j] = go'[j]] /\ go'[j].pc = "none" /\ go'[j].todo = go[j].todo
  BY <1>1, JobMeans DEF GoType
<1>4. CountersFit(j, go[j])'
  <2>1. /\ Due(go'[j], {"count rows"}) = 0 /\ Due(go'[j], GivingUp) = 0 /\ Due(go'[j], {"trigger"}) = 0
        /\ Due(go[j], {"count rows"}) = 0 /\ Due(go[j], GivingUp) = 0 /\ Due(go[j], {"trigger"}) = 0
    BY <1>1, <1>3 DEF Due, GivingUp
  <2> QED BY <1>1, <1>2, <2>1 DEF Tallied, CountersFit, Shown
<1>5. RowsFit(j, go[j])'
  <2>1. Counted(j, go[j])' = Counted(j, go[j])
    BY <1>1, <1>3 DEF Counted
  <2> QED BY <1>1, <1>2, <1>3, <2>1 DEF Tallied, RowsFit
<1>6. JobFits(j, go[j])'
  BY <1>1, <1>2, <1>3 DEF JobFits
<1> QED BY <1>1, <1>2, <1>3, <1>4, <1>5, <1>6, RecordTallied DEF Begun, Before, Loading

LEMMA EndJobTallied ==
  ASSUME IInv, CountInv, NEW j \in Jobs, EndJob(j)
  PROVE  CountInv'
<1>1. /\ j \in Known /\ go[j].pc = "next" /\ go[j].todo = {} /\ UNCHANGED <<files, done>> /\ Tallied(j, go[j])
      /\ job' = [job EXCEPT ![j].status = "completed"] /\ go' = [go EXCEPT ![j] = Idle]
  BY DEF EndJob, At, CountInv
<1>2. /\ job' = [job EXCEPT ![j] = job'[j]] /\ job'[j].status = "completed" /\ job'[j].total = job[j].total
      /\ job'[j].processed = job[j].processed /\ job'[j].successful = job[j].successful
      /\ job'[j].failed = job[j].failed /\ job'[j].rows = job[j].rows
  BY <1>1, JobMeans, ZenonT(60) DEF IsProgress, Fields
<1>3. go' = [go EXCEPT ![j] = go'[j]] /\ go'[j].pc = "none" /\ go'[j].todo = go[j].todo
  BY <1>1, JobMeans, IdleMeans
<1>4. CountersFit(j, go[j])'
  <2>1. /\ Due(go'[j], {"count rows"}) = 0 /\ Due(go'[j], GivingUp) = 0 /\ Due(go'[j], {"trigger"}) = 0
        /\ Due(go[j], {"count rows"}) = 0 /\ Due(go[j], GivingUp) = 0 /\ Due(go[j], {"trigger"}) = 0
    BY <1>1, <1>3 DEF Due, GivingUp
  <2> QED BY <1>1, <1>2, <2>1 DEF Tallied, CountersFit, Shown
<1>5. RowsFit(j, go[j])'
  <2>1. Counted(j, go[j])' = Counted(j, go[j])
    BY <1>1, <1>3 DEF Counted
  <2> QED BY <1>1, <1>2, <1>3, <2>1 DEF Tallied, RowsFit
<1>6. JobFits(j, go[j])'
  BY <1>1, <1>2, <1>3 DEF JobFits
<1> QED BY <1>1, <1>2, <1>3, <1>4, <1>5, <1>6, RecordTallied DEF Begun, Before, Loading

LEMMA CountersMove ==
  ASSUME NEW j, files' = files, CountersFit(j, go[j]), job'[j].total = job[j].total,
         NEW p \in Nat, NEW u \in Nat, NEW f \in Nat,
         job'[j].processed = p, job'[j].successful = u, job'[j].failed = f,
         u + Due(go'[j], {"count rows"}) = job[j].successful + Due(go[j], {"count rows"}),
         f + Due(go'[j], GivingUp) = job[j].failed + Due(go[j], GivingUp),
         u + f = p + Due(go'[j], {"trigger"})
  PROVE  CountersFit(j, go[j])'
<1>1. \A t : Shown(j, t)' = Shown(j, t)
  BY DEF Shown
<1>2. /\ Cardinality(Shown(j, "completed")') = u + Due(go'[j], {"count rows"})
      /\ Cardinality(Shown(j, "failed")') = f + Due(go'[j], GivingUp)
  BY <1>1 DEF CountersFit
<1>3. job'[j].total = Cardinality(DOMAIN files'[j])
  BY DEF CountersFit
<1> QED BY <1>2, <1>3 DEF CountersFit

LEMMA CountFailureTallied ==
  ASSUME IInv, CountInv, NEW j \in Jobs, CountFailure(j)
  PROVE  CountInv'
<1>1. /\ j \in Known /\ go[j].pc = "count failure" /\ UNCHANGED <<files, done>> /\ Tallied(j, go[j])
      /\ job' = [job EXCEPT ![j].failed = @ + 1] /\ go' = [go EXCEPT ![j] = [@ EXCEPT !.pc = "trigger"]]
  BY DEF CountFailure, At, Goto, CountInv
<1>2. /\ job' = [job EXCEPT ![j] = job'[j]] /\ job'[j].failed = job[j].failed + 1 /\ job'[j].total = job[j].total
      /\ job'[j].processed = job[j].processed /\ job'[j].successful = job[j].successful
      /\ job'[j].status = job[j].status /\ job'[j].rows = job[j].rows
  <2>1. PICK n : n = job[j].failed + 1
    OBVIOUS
  <2>2. job'[j] = [job[j] EXCEPT !.failed = n] /\ job' = [job EXCEPT ![j] = job'[j]] /\ IsProgress(job[j])
    BY <1>1, <2>1, JobMeans
  <2> QED BY <2>1, <2>2 DEF IsProgress, Fields
<1>3. go' = [go EXCEPT ![j] = go'[j]] /\ go'[j].pc = "trigger" /\ go'[j].todo = go[j].todo
  BY <1>1, JobMeans DEF GoType
<1>4. CountersFit(j, go[j])'
  <2>1. /\ Due(go'[j], {"count rows"}) = 0 /\ Due(go'[j], GivingUp) = 0 /\ Due(go'[j], {"trigger"}) = 1
        /\ Due(go[j], {"count rows"}) = 0 /\ Due(go[j], GivingUp) = 1 /\ Due(go[j], {"trigger"}) = 0
    BY <1>1, <1>3 DEF Due, GivingUp
  <2>2. CountersFit(j, go[j]) /\ files' = files
    BY <1>1 DEF Tallied
  <2>3. PICK p \in Nat, u \in Nat, f \in Nat : p = job[j].processed /\ u = job[j].successful /\ f = job[j].failed
    BY <2>2 DEF CountersFit
  <2>4. u + f = p /\ f + 1 \in Nat
    <3>1. job[j].successful + job[j].failed = job[j].processed + Due(go[j], {"trigger"})
      BY <2>2 DEF CountersFit
    <3>2. u + f = p + 0
      BY <2>1, <2>3, <3>1
    <3> QED BY <3>2
  <2>5. u + 0 = u + 0 /\ (f + 1) + 0 = f + 1 /\ u + (f + 1) = p + 1
    BY <2>4
  <2> QED BY <1>2, <2>1, <2>2, <2>3, <2>4, <2>5, CountersMove, ZenonT(60)
<1>5. RowsFit(j, go[j])'
  <2>1. Counted(j, go[j])' = Counted(j, go[j])
    BY <1>1, <1>3 DEF Counted
  <2> QED BY <1>1, <1>2, <1>3, <2>1 DEF Tallied, RowsFit
<1>6. JobFits(j, go[j])'
  BY <1>1, <1>2, <1>3 DEF Tallied, JobFits
<1> QED BY <1>1, <1>2, <1>3, <1>4, <1>5, <1>6, RecordTallied DEF Begun, Before, Loading

LEMMA ProcessedTallied ==
  ASSUME IInv, CountInv, NEW j \in Jobs, Processed(j)
  PROVE  CountInv'
<1>1. /\ j \in Known /\ go[j].pc = "trigger" /\ UNCHANGED <<files, done>> /\ Tallied(j, go[j])
      /\ job' = [job EXCEPT ![j].processed = @ + 1] /\ go' = [go EXCEPT ![j] = [@ EXCEPT !.pc = "next"]]
  BY DEF Processed, At, Goto, CountInv
<1>2. /\ job' = [job EXCEPT ![j] = job'[j]] /\ job'[j].processed = job[j].processed + 1 /\ job'[j].total = job[j].total
      /\ job'[j].failed = job[j].failed /\ job'[j].successful = job[j].successful
      /\ job'[j].status = job[j].status /\ job'[j].rows = job[j].rows
  <2>1. PICK n : n = job[j].processed + 1
    OBVIOUS
  <2>2. job'[j] = [job[j] EXCEPT !.processed = n] /\ job' = [job EXCEPT ![j] = job'[j]] /\ IsProgress(job[j])
    BY <1>1, <2>1, JobMeans
  <2> QED BY <2>1, <2>2 DEF IsProgress, Fields
<1>3. go' = [go EXCEPT ![j] = go'[j]] /\ go'[j].pc = "next" /\ go'[j].todo = go[j].todo
  BY <1>1, JobMeans DEF GoType
<1>4. CountersFit(j, go[j])'
  <2>1. /\ Due(go'[j], {"count rows"}) = 0 /\ Due(go'[j], GivingUp) = 0 /\ Due(go'[j], {"trigger"}) = 0
        /\ Due(go[j], {"count rows"}) = 0 /\ Due(go[j], GivingUp) = 0 /\ Due(go[j], {"trigger"}) = 1
    BY <1>1, <1>3 DEF Due, GivingUp
  <2>2. CountersFit(j, go[j]) /\ files' = files
    BY <1>1 DEF Tallied
  <2>3. PICK p \in Nat, u \in Nat, f \in Nat : p = job[j].processed /\ u = job[j].successful /\ f = job[j].failed
    BY <2>2 DEF CountersFit
  <2>4. u + f = p + 1 /\ p + 1 \in Nat
    <3>1. job[j].successful + job[j].failed = job[j].processed + Due(go[j], {"trigger"})
      BY <2>2 DEF CountersFit
    <3>2. u + f = p + 1
      BY <2>1, <2>3, <3>1
    <3> QED BY <3>2
  <2>5. u + f = (p + 1) + 0
    BY <2>4
  <2> QED BY <1>2, <2>1, <2>2, <2>3, <2>4, <2>5, CountersMove
<1>5. RowsFit(j, go[j])'
  <2>1. Counted(j, go[j])' = Counted(j, go[j])
    BY <1>1, <1>3 DEF Counted
  <2> QED BY <1>1, <1>2, <1>3, <2>1 DEF Tallied, RowsFit
<1>6. JobFits(j, go[j])'
  BY <1>1, <1>2, <1>3 DEF Tallied, JobFits
<1> QED BY <1>1, <1>2, <1>3, <1>4, <1>5, <1>6, RecordTallied DEF Begun, Before, Loading

\* Every batch of a completed file is counted, once.
LEMMA CountRowsTallied ==
  ASSUME IInv, CountInv, NEW j \in Jobs, CountRows(j)
  PROVE  CountInv'
<1> DEFINE m == Cardinality(BatchesOf(Numbered(go[j].loaded)))
<1>1. /\ j \in Known /\ go[j].pc = "count rows" /\ UNCHANGED <<files, done>> /\ Tallied(j, go[j])
      /\ job' = [job EXCEPT ![j].successful = @ + 1, ![j].rows = @ + m]
      /\ go' = [go EXCEPT ![j] = [@ EXCEPT !.pc = "trigger"]]
  BY DEF CountRows, Numbered, At, Goto, CountInv
<1>2. PICK L : L = ResultsOf(j, go[j])
  OBVIOUS
<1>3. IsFiniteSet(BatchesOf(L)) /\ m = Cardinality(BatchesOf(L))
  <2>1. /\ go[j].loaded \in LoadResults
        /\ \A i \in DOMAIN go[j].loaded : \A k \in DOMAIN go[j].loaded :
             go[j].loaded[i][1] = go[j].loaded[k][1] => i = k
    BY <1>1, JobMeans DEF GoType, Tallied, SheetsOnce
  <2> QED BY <1>2, <2>1, LoadsOfResults
<1> HIDE DEF m
<1>4. /\ job' = [job EXCEPT ![j] = job'[j]] /\ job'[j].total = job[j].total
      /\ job'[j].successful = job[j].successful + 1 /\ job'[j].rows = job[j].rows + m
      /\ job'[j].processed = job[j].processed /\ job'[j].failed = job[j].failed
      /\ job'[j].status = job[j].status
  <2>1. PICK n, r : n = job[j].successful + 1 /\ r = job[j].rows + m
    OBVIOUS
  <2>2. /\ job'[j] = [job[j] EXCEPT !.successful = n, !.rows = r] /\ job' = [job EXCEPT ![j] = job'[j]]
        /\ IsProgress(job[j])
    BY <1>1, <2>1, JobMeans
  <2> QED BY <2>1, <2>2 DEF IsProgress, Fields
<1>5. go' = [go EXCEPT ![j] = go'[j]] /\ go'[j].pc = "trigger" /\ go'[j].todo = go[j].todo
  BY <1>1, JobMeans DEF GoType
<1>6. CountersFit(j, go[j])'
  <2>1. /\ Due(go'[j], {"count rows"}) = 0 /\ Due(go'[j], GivingUp) = 0 /\ Due(go'[j], {"trigger"}) = 1
        /\ Due(go[j], {"count rows"}) = 1 /\ Due(go[j], GivingUp) = 0 /\ Due(go[j], {"trigger"}) = 0
    BY <1>1, <1>5 DEF Due, GivingUp
  <2>2. CountersFit(j, go[j]) /\ files' = files
    BY <1>1 DEF Tallied
  <2>3. PICK p \in Nat, u \in Nat, f \in Nat : p = job[j].processed /\ u = job[j].successful /\ f = job[j].failed
    BY <2>2 DEF CountersFit
  <2>4. u + f = p /\ u + 1 \in Nat
    <3>1. job[j].successful + job[j].failed = job[j].processed + Due(go[j], {"trigger"})
      BY <2>2 DEF CountersFit
    <3>2. u + f = p + 0
      BY <2>1, <2>3, <3>1
    <3> QED BY <3>2
  <2>5. (u + 1) + 0 = u + 1 /\ (u + 1) + f = p + 1
    BY <2>4
  <2> QED BY <1>4, <2>1, <2>2, <2>3, <2>4, <2>5, CountersMove, ZenonT(60)
<1>7. RowsFit(j, go[j])'
  <2>1. /\ IsFiniteSet(BatchesOf(Counted(j, go[j]))) /\ job[j].rows = Cardinality(BatchesOf(Counted(j, go[j])))
        /\ {d \in done : d[1][1] = j /\ d[1][2] = go[j].file} = L
    BY <1>1, <1>2 DEF Tallied, RowsFit
  <2>2. Counted(j, go[j])' = Counted(j, go[j]) \cup L /\ Counted(j, go[j]) \cap L = {}
    BY <1>1, <1>5, <2>1 DEF Counted
  <2>3. /\ IsFiniteSet(BatchesOf(Counted(j, go[j])'))
        /\ Cardinality(BatchesOf(Counted(j, go[j])')) = job[j].rows + m
    <3>1. PICK Q : Q = Counted(j, go[j])
      OBVIOUS
    <3> QED BY <1>3, <2>1, <2>2, <3>1, BatchesApart
  <2> QED BY <1>4, <1>5, <2>3 DEF RowsFit
<1>8. JobFits(j, go[j])'
  BY <1>1, <1>4, <1>5 DEF Tallied, JobFits
<1> QED BY <1>1, <1>4, <1>5, <1>6, <1>7, <1>8, RecordTallied DEF Begun, Before, Loading

LEMMA SheetsOnceMeans ==
  ASSUME NEW g, SheetsOnce(g), g.pc \in Before, NEW h, h.loaded = g.loaded
  PROVE  SheetsOnce(h)
  BY DEF SheetsOnce

\* A file's steps up to its end leave it begun, with each sheet at most once in its results.
LEMMA FileTallied ==
  ASSUME IInv, CountInv, NEW j \in Known, UNCHANGED <<progressVars, done>>, go[j].pc \in Before,
         NEW n, go' = [go EXCEPT ![j] = n], n.todo = go[j].todo, n.file = go[j].file, n.pc \in Begun, SheetsOnce(n)
  PROVE  CountInv'
<1>1. go'[j] = n /\ \A i \in Known \ {j} : go'[i] = go[i]
  BY JobMeans
<1>2. go[j].pc \in Begun /\ {go[j].pc, n.pc} \cap {"none", "discover", "count rows", "trigger"} = {}
      /\ {go[j].pc, n.pc} \cap GivingUp = {}
  BY DEF Begun, Before, Loading, GivingUp
<1> QED BY <1>1, <1>2, MoveTallied

LEMMA SkipTallied ==
  ASSUME IInv, CountInv, NEW j \in Known, UNCHANGED <<progressVars, done>>, go[j].pc \in Before,
         go' = [go EXCEPT ![j] = NextPart(go[j])]
  PROVE  CountInv'
<1>1. PICK n : n = NextPart(go[j])
  OBVIOUS
<1>2. go[j] \in GoType /\ go[j].file # 0 /\ go[j].part \in 0..Len(Parts[go[j].file]) /\ SheetsOnce(go[j])
  BY JobMeans DEF Fit, FileFits, WithFile, Pcs, Before, Loading, CountInv, Tallied
<1>3. n.todo = go[j].todo /\ n.file = go[j].file /\ n.loaded = go[j].loaded /\ n.pc \in {"drop", "completed", "failed"}
  BY <1>1, <1>2, NextPartMeans
<1>4. n.pc \in Begun
  BY <1>3 DEF Begun, Before, Loading
<1>5. SheetsOnce(n)
  BY <1>2, <1>3, SheetsOnceMeans
<1>6. go' = [go EXCEPT ![j] = n]
  BY <1>1
<1> QED BY <1>3, <1>4, <1>5, <1>6, FileTallied

LEMMA OpenTallied ==
  ASSUME IInv, CountInv, NEW j \in Jobs, Open(j)
  PROVE  CountInv'
<1>1. j \in Known /\ go[j].pc = "open" /\ go[j].pc \in Before /\ UNCHANGED <<progressVars, done>>
  BY DEF Open, At, Before
<1>2. CASE go' = [go EXCEPT ![j] = NextPart(go[j])]
  BY <1>1, <1>2, SkipTallied
<1>3. CASE go' = [go EXCEPT ![j] = [@ EXCEPT !.pc = "failed"]]
  <2>1. PICK n : n = [go[j] EXCEPT !.pc = "failed"]
    OBVIOUS
  <2>2. n.todo = go[j].todo /\ n.file = go[j].file /\ n.loaded = go[j].loaded /\ n.pc \in Begun
    BY <1>1, <2>1, JobMeans DEF GoType, Begun
  <2>3. SheetsOnce(n)
    BY <1>1, <2>2, SheetsOnceMeans DEF CountInv, Tallied
  <2> QED BY <1>1, <1>3, <2>1, <2>2, <2>3, FileTallied
<1> QED BY <1>2, <1>3 DEF Open, Goto

LEMMA DropCreateTallied ==
  ASSUME IInv, CountInv, NEW j \in Jobs, Drop(j) \/ Create(j)
  PROVE  CountInv'
<1>1. j \in Known /\ go[j].pc \in {"drop", "create"} /\ go[j].pc \in Before /\ UNCHANGED <<progressVars, done>>
  BY DEF Drop, Create, At, LoaderFrame, Before, Loading
<1>2. \/ go' = [go EXCEPT ![j] = NextPart(go[j])]
      \/ go' = [go EXCEPT ![j] = [go[j] EXCEPT !.pc = "create", !.table = TableName(go[j])]]
      \/ go' = [go EXCEPT ![j] = [go[j] EXCEPT !.pc = "insert"]]
  BY DEF Drop, Create, Answer, Refusal
<1>3. CASE go' = [go EXCEPT ![j] = NextPart(go[j])]
  BY <1>1, <1>3, SkipTallied
<1>4. CASE go' # [go EXCEPT ![j] = NextPart(go[j])]
  <2>1. PICK t : t = TableName(go[j])
    OBVIOUS
  <2>2. PICK n : /\ go' = [go EXCEPT ![j] = n]
                 /\ n = [go[j] EXCEPT !.pc = "create", !.table = t] \/ n = [go[j] EXCEPT !.pc = "insert"]
    <3>1. CASE go' = [go EXCEPT ![j] = [go[j] EXCEPT !.pc = "create", !.table = t]]
      BY <3>1
    <3>2. CASE go' = [go EXCEPT ![j] = [go[j] EXCEPT !.pc = "insert"]]
      BY <3>2
    <3> QED BY <1>2, <1>4, <2>1, <3>1, <3>2
  <2>3. n.todo = go[j].todo /\ n.file = go[j].file /\ n.loaded = go[j].loaded /\ n.pc \in {"create", "insert"}
    BY <1>1, <2>2, JobMeans DEF GoType
  <2>4. n.pc \in Begun /\ SheetsOnce(n)
    BY <1>1, <2>3, SheetsOnceMeans DEF CountInv, Tallied, Begun, Before, Loading
  <2> QED BY <1>1, <2>2, <2>3, <2>4, FileTallied
<1> QED BY <1>3, <1>4

LEMMA InsertTallied ==
  ASSUME IInv, CountInv, NEW j \in Jobs, Insert(j)
  PROVE  CountInv'
<1>1. /\ j \in Known /\ go[j].pc = "insert" /\ go[j].pc \in Loading /\ go[j].pc \in Before
      /\ UNCHANGED <<progressVars, done>>
  BY DEF Insert, At, LoaderFrame, Before, Loading
<1>2. PICK g : g = go[j]
  OBVIOUS
<1>3. /\ g \in GoType /\ g.file \in Files /\ g.file # 0 /\ g.part \in 1..Len(Parts[g.file]) /\ SheetsOnce(g)
      /\ g.pc = "insert" /\ \A r \in ToSet(g.loaded) : r[1] < g.part /\ r[1] \in Nat
  <2>1. /\ g \in GoType /\ g.file \in Files /\ g.part \in 1..Len(Parts[g.file]) /\ ResultsFit(j, g)
    BY <1>1, <1>2, LoadingMeans
  <2>2. \A r \in ToSet(g.loaded) : r[1] < g.part /\ r[1] \in 1..g.part
    <3>1. g.pc \in Loading
      BY <1>1, <1>2
    <3> QED BY <2>1, <3>1 DEF ResultsFit, OwnSheets
  <2>3. \A r \in ToSet(g.loaded) : r[1] \in Nat
    BY <2>2
  <2> QED BY <1>1, <1>2, <2>1, <2>2, <2>3, FilesAreNumbers DEF CountInv, Tallied
<1>4. \/ go' = [go EXCEPT ![j] = NextPart(go[j])]
      \/ go' = [go EXCEPT ![j] = Inserted(go[j])]
  BY DEF Insert, Answer, Refusal
<1>5. CASE go' = [go EXCEPT ![j] = NextPart(go[j])]
  BY <1>1, <1>5, SkipTallied
<1>6. CASE go' = [go EXCEPT ![j] = Inserted(go[j])]
  <2>1. CASE g.batch + 1 < Batches[Sheet(g)]
    <3>1. PICK b, n : b = g.batch + 1 /\ n = [g EXCEPT !.batch = b]
      OBVIOUS
    <3>2. n = Inserted(g) /\ go' = [go EXCEPT ![j] = n]
      BY <1>2, <1>6, <2>1, <3>1 DEF Inserted
    <3>3. n.todo = g.todo /\ n.file = g.file /\ n.loaded = g.loaded /\ n.pc = "insert"
      BY <1>3, <3>1 DEF GoType
    <3>4. n.pc \in Begun /\ SheetsOnce(n)
      BY <1>1, <1>2, <1>3, <3>3, SheetsOnceMeans DEF Begun
    <3> QED BY <1>1, <1>2, <3>2, <3>3, <3>4, FileTallied
  <2>2. CASE ~(g.batch + 1 < Batches[Sheet(g)])
    <3>1. PICK e : e = <<g.part, g.table>>
      OBVIOUS
    <3>2. PICK s : s = Append(g.loaded, e)
      OBVIOUS
    <3>3. PICK h : h = [g EXCEPT !.loaded = s]
      OBVIOUS
    <3>4. PICK n : n = NextPart(h)
      OBVIOUS
    <3>5. go' = [go EXCEPT ![j] = n]
      BY <1>2, <1>6, <2>2, <3>1, <3>2, <3>3, <3>4 DEF Inserted
    <3>6. /\ s \in LoadResults /\ DOMAIN s = 1..(Len(g.loaded) + 1) /\ s[Len(g.loaded) + 1] = e
          /\ \A i \in 1..Len(g.loaded) : s[i] = g.loaded[i]
      <4>1. PICK S, l : S = Nat \X Tables /\ l = g.loaded
        OBVIOUS
      <4>2. g.table \in Tables /\ g.part \in Nat
        BY <1>1, <1>2, <1>3, LoadingMeans DEF SheetFits, GoType
      <4>3. l \in Seq(S) /\ e \in S
        BY <1>3, <3>1, <4>1, <4>2 DEF GoType, LoadResults
      <4>4. /\ Append(l, e) \in Seq(S) /\ Len(Append(l, e)) = Len(l) + 1
            /\ \A i \in 1..Len(l) : Append(l, e)[i] = l[i] /\ Append(l, e)[Len(l) + 1] = e
            /\ Append(l, e)[Len(l) + 1] = e
        BY <4>3, AppendProperties
      <4>5. DOMAIN Append(l, e) = 1..Len(Append(l, e))
        BY <4>4, LenProperties
      <4> QED BY <3>2, <4>1, <4>4, <4>5 DEF LoadResults
    <3>7. \A i \in 1..Len(g.loaded) : g.loaded[i] \in ToSet(g.loaded)
      <4>1. DOMAIN g.loaded = 1..Len(g.loaded)
        BY <1>3, LenProperties DEF GoType, LoadResults
      <4> QED BY <4>1 DEF ToSet
    <3>8. \A i \in DOMAIN s : \A k \in DOMAIN s : s[i][1] = s[k][1] => i = k
      <4>1. PICK m \in Nat : m = Len(g.loaded) /\ DOMAIN g.loaded = 1..m
        BY <1>3, LenProperties DEF GoType, LoadResults
      <4>2. SUFFICES ASSUME NEW i \in 1..(m + 1), NEW k \in 1..(m + 1), s[i][1] = s[k][1] PROVE i = k
        BY <3>6, <4>1
      <4>3. \A x \in 1..m : s[x] = g.loaded[x] /\ g.loaded[x][1] < g.part /\ g.loaded[x][1] \in Nat
        BY <1>3, <3>6, <3>7, <4>1
      <4>4. s[m + 1][1] = g.part /\ g.part \in Nat
        BY <1>3, <3>1, <3>6, <4>1 DEF GoType
      <4>5. CASE i \in 1..m /\ k \in 1..m
        <5>1. g.pc \in Before
          BY <1>3 DEF Before, Loading
        <5> QED BY <1>3, <4>1, <4>2, <4>3, <4>5, <5>1 DEF SheetsOnce
      <4>6. CASE i = m + 1 /\ k \in 1..m
        BY <4>2, <4>3, <4>4, <4>6
      <4>7. CASE i \in 1..m /\ k = m + 1
        BY <4>2, <4>3, <4>4, <4>7
      <4>8. i \in 1..m \/ i = m + 1
        BY <4>1
      <4>9. k \in 1..m \/ k = m + 1
        BY <4>1
      <4> QED BY <4>5, <4>6, <4>7, <4>8, <4>9
    <3>9. h \in GoType /\ h.todo = g.todo /\ h.file = g.file /\ h.loaded = s /\ h.part = g.part
      BY <1>3, <3>3, <3>6 DEF GoType
    <3>10. n.todo = h.todo /\ n.file = h.file /\ n.loaded = h.loaded /\ n.pc \in {"drop", "completed", "failed"}
      <4>1. h.file # 0 /\ h.part \in 0..Len(Parts[h.file])
        BY <1>3, <3>9
      <4> QED BY <3>4, <3>9, <4>1, NextPartMeans
    <3>11. n.pc \in Begun /\ SheetsOnce(n)
      BY <3>8, <3>9, <3>10 DEF SheetsOnce, Begun, Before, Loading
    <3> QED BY <1>1, <1>2, <3>5, <3>9, <3>10, <3>11, FileTallied
  <2> QED BY <2>1, <2>2
<1> QED BY <1>4, <1>5, <1>6

LEMMA TriggerTallied ==
  ASSUME IInv, CountInv, NEW j \in Jobs, Trigger(j)
  PROVE  CountInv'
<1>1. /\ j \in Known /\ go[j].pc = "trigger" /\ UNCHANGED <<progressVars, done>>
      /\ go' = [go EXCEPT ![j].loaded = Tail(@)]
  BY DEF Trigger, At, Asked
<1>2. /\ go'[j].pc = "trigger" /\ go'[j].todo = go[j].todo /\ go'[j].file = go[j].file
      /\ \A i \in Known \ {j} : go'[i] = go[i]
  <2>1. PICK s : s = Tail(go[j].loaded)
    OBVIOUS
  <2>2. go' = [go EXCEPT ![j] = [@ EXCEPT !.loaded = s]]
    BY <1>1, <2>1
  <2> QED BY <1>1, <2>2, JobMeans DEF GoType
<1>3. SheetsOnce(go'[j])
  BY <1>2 DEF SheetsOnce, Before, Loading
<1> QED BY <1>1, <1>2, <1>3, MoveTallied

LEMMA MovingTallied ==
  ASSUME IInv, CountInv, NEW j \in Jobs, Move(j) \/ RemoveSource(j)
  PROVE  CountInv'
<1>1. j \in Known /\ go[j].pc \in {"move", "remove"} /\ UNCHANGED <<progressVars, done>>
  BY DEF Move, RemoveSource, At
<1>2. PICK c \in {"remove", "count failure"} : go' = [go EXCEPT ![j].pc = c]
  BY DEF Move, RemoveSource, Goto
<1>3. /\ go'[j].pc = c /\ go'[j].todo = go[j].todo /\ go'[j].file = go[j].file
      /\ \A i \in Known \ {j} : go'[i] = go[i]
  BY <1>1, <1>2, JobMeans DEF GoType
<1>4. SheetsOnce(go'[j])
  BY <1>3 DEF SheetsOnce, Before, Loading
<1>5. /\ go[j].pc \in GivingUp /\ go'[j].pc \in GivingUp /\ go[j].pc \notin Begun /\ go'[j].pc \notin Begun
      /\ {go[j].pc, go'[j].pc} \cap {"none", "discover", "count rows", "trigger"} = {}
  BY <1>1, <1>3 DEF GivingUp, Begun, Before, Loading
<1> QED BY <1>1, <1>3, <1>4, <1>5, MoveTallied

LEMMA CountNext == IInv /\ CountInv /\ [Next]_vars => CountInv'
<1>1. SUFFICES ASSUME IInv, CountInv, [Next]_vars PROVE CountInv'
  OBVIOUS
<1>2. ASSUME NEW j \in Jobs, StartJob(j) PROVE CountInv'
  BY <1>1, <1>2, StartJobTallied
<1>3. ASSUME NEW j \in Jobs, Step(j) PROVE CountInv'
  <2>1. CASE NothingToDo(j)
    BY <1>1, <2>1, NothingToDoTallied
  <2>2. CASE Discover(j)
    BY <1>1, <2>2, DiscoverTallied
  <2>3. CASE BeginFile(j)
    BY <1>1, <2>3, BeginFileTallied
  <2>4. CASE EndJob(j)
    BY <1>1, <2>4, EndJobTallied
  <2>5. CASE Open(j)
    BY <1>1, <2>5, OpenTallied
  <2>6. CASE Drop(j) \/ Create(j)
    BY <1>1, <2>6, DropCreateTallied
  <2>7. CASE Insert(j)
    BY <1>1, <2>7, InsertTallied
  <2>8. CASE Completed(j)
    BY <1>1, <2>8, CompletedTallied
  <2>9. CASE CountRows(j)
    BY <1>1, <2>9, CountRowsTallied
  <2>10. CASE Trigger(j)
    BY <1>1, <2>10, TriggerTallied
  <2>11. CASE Failed(j)
    BY <1>1, <2>11, FailedTallied
  <2>12. CASE Move(j) \/ RemoveSource(j)
    BY <1>1, <2>12, MovingTallied
  <2>13. CASE CountFailure(j)
    BY <1>1, <2>13, CountFailureTallied
  <2>14. CASE Processed(j)
    BY <1>1, <2>14, ProcessedTallied
  <2> QED BY <1>3, <2>1, <2>2, <2>3, <2>4, <2>5, <2>6, <2>7, <2>8, <2>9, <2>10, <2>11, <2>12, <2>13, <2>14 DEF Step
<1>4. CASE UNCHANGED <<progressVars, go, done>>
  <2>1. Known' = Known /\ UNCHANGED <<job, files, go, done>>
    BY <1>4 DEF progressVars, Known
  <2>2. ASSUME NEW j \in Known PROVE Tallied(j, go[j])'
    <3>1. Tallied(j, go[j])
      BY <1>1, <2>1, <2>2 DEF CountInv
    <3>2. StatusesFit(j, go[j])' /\ JobFits(j, go[j])' /\ SheetsOnce(go[j])'
      BY <2>1, <3>1 DEF Tallied, StatusesFit, JobFits
    <3>3. CountersFit(j, go[j])'
      BY <2>1, <3>1 DEF Tallied, CountersFit, Shown
    <3>4. Counted(j, go[j])' = Counted(j, go[j])
      BY <2>1 DEF Counted
    <3>5. RowsFit(j, go[j])'
      BY <2>1, <3>1, <3>4 DEF Tallied, RowsFit
    <3> QED BY <3>2, <3>3, <3>5 DEF Tallied
  <2> QED BY <2>1, <2>2 DEF CountInv
<1>5. CASE Crash
  <2>1. Known' = {}
    BY <1>5 DEF Crash, Known
  <2> QED BY <2>1 DEF CountInv
<1>6. (\E t \in Tables : InitialPass(t) \/ Visit(t)) \/ Second \/ UNCHANGED vars
        => UNCHANGED <<progressVars, go, done>>
  BY DEF InitialPass, Visit, Second, vars
<1> QED BY <1>1, <1>2, <1>3, <1>4, <1>5, <1>6 DEF Next

\* What GetJobProgress shows adds up at every moment, for any number of jobs, files and
\* batches, whatever fails and whoever else is at work (processFile and processFolder write
\* statuses and counters under separate locks).
THEOREM ProgressAddsUp == Spec => []CountersAgree
<1>1. Init => CountInv
  BY DEF Init, CountInv, Known
<1>2. IInv /\ CountInv => CountersAgree
  <2>1. SUFFICES ASSUME IInv, CountInv, NEW j \in Known
                 PROVE  LET Are(s) == Cardinality({f \in DOMAIN files[j] : files[j][f] = s})
                            J == job[j]
                        IN /\ J.successful <= Are("completed") /\ J.failed <= Are("failed")
                           /\ Are("completed") + Are("failed") <= J.processed + 1
                           /\ J.processed <= J.successful + J.failed /\ J.successful + J.failed <= J.processed + 1
                           /\ J.status = "completed" =>
                                /\ J.processed = J.total /\ J.total = Cardinality(DOMAIN files[j])
                                /\ J.successful = Are("completed") /\ J.failed = Are("failed")
                                /\ J.rows = Cardinality(BatchesOf({d \in done : d[1][1] = j}))
    BY DEF CountersAgree
  <2>2. PICK C, F, D : C = Shown(j, "completed") /\ F = Shown(j, "failed") /\ D = DOMAIN files[j]
    OBVIOUS
  <2>3. PICK p \in Nat, u \in Nat, e \in Nat : p = job[j].processed /\ u = job[j].successful /\ e = job[j].failed
    BY <2>1 DEF CountInv, Tallied, CountersFit
  <2>4. PICK x, y, z : /\ x = Due(go[j], {"count rows"}) /\ y = Due(go[j], GivingUp) /\ z = Due(go[j], {"trigger"})
    OBVIOUS
  <2>5. /\ <<x, y, z>> \in {<<1, 0, 0>>, <<0, 1, 0>>, <<0, 0, 1>>, <<0, 0, 0>>}
        /\ go[j].pc = "none" => x = 0 /\ y = 0 /\ z = 0
    <3>1. CASE go[j].pc = "count rows"
      BY <2>4, <3>1 DEF Due, GivingUp
    <3>2. CASE go[j].pc \in GivingUp
      BY <2>4, <3>2 DEF Due, GivingUp
    <3>3. CASE go[j].pc = "trigger"
      BY <2>4, <3>3 DEF Due, GivingUp
    <3>4. CASE go[j].pc \notin {"count rows", "trigger"} \cup GivingUp
      BY <2>4, <3>4 DEF Due
    <3> QED BY <3>1, <3>2, <3>3, <3>4
  <2>6. /\ Cardinality(C) = u + x /\ Cardinality(F) = e + y /\ u + e = p + z
        /\ job[j].total = Cardinality(D)
    BY <2>1, <2>2, <2>3, <2>4 DEF CountInv, Tallied, CountersFit
  <2>7. /\ u <= Cardinality(C) /\ e <= Cardinality(F) /\ Cardinality(C) + Cardinality(F) <= p + 1
        /\ p <= u + e /\ u + e <= p + 1
    BY <2>5, <2>6
  <2>8. ASSUME job[j].status = "completed"
        PROVE  /\ p = job[j].total /\ u = Cardinality(C) /\ e = Cardinality(F)
               /\ job[j].rows = Cardinality(BatchesOf({d \in done : d[1][1] = j}))
    <3>1. go[j].pc = "none" /\ go[j].todo = {}
      BY <2>1, <2>8 DEF CountInv, Tallied, JobFits
    <3>2. D = C \cup F /\ C \cap F = {}
      BY <2>1, <2>2, <3>1 DEF CountInv, Tallied, StatusesFit, Ended, Shown, Begun, Before, Loading
    <3>3. IsFiniteSet(C) /\ IsFiniteSet(F) /\ Cardinality(C) \in Nat /\ Cardinality(F) \in Nat
      <4>1. C \in SUBSET Files /\ F \in SUBSET Files
        BY <2>1, <2>2, JobMeans DEF Shown
      <4> QED BY <4>1, FilesAreFinite
    <3>4. Cardinality(C \cup F) = Cardinality(C) + Cardinality(F) - Cardinality(C \cap F)
      BY <3>3, FS_Union
    <3>5. Cardinality(C \cap F) = 0
      BY <3>2, FS_EmptySet
    <3>6. u = Cardinality(C) /\ e = Cardinality(F) /\ u + e = p
      BY <2>5, <2>6, <3>1
    <3>7. Cardinality(D) = p
      BY <3>2, <3>4, <3>5, <3>6
    <3>8. Counted(j, go[j]) = {d \in done : d[1][1] = j}
      BY <3>1 DEF Counted
    <3> QED BY <2>1, <2>6, <3>6, <3>7, <3>8 DEF CountInv, Tallied, RowsFit
  <2> QED BY <2>2, <2>3, <2>6, <2>7, <2>8 DEF Shown
<1> QED BY <1>1, <1>2, CountNext, IInvHolds, PTL DEF Spec


-----------------------------------------------------------------------------
(***************************************************************************)
(* What the end of a job rests on.                                         *)
(***************************************************************************)
\* From one part of a file's handling to a later one: there is no way back.
Later(a, b) ==
  \/ a = "open" /\ b \in Loading \cup {"completed", "failed"}
  \/ a \in Loading /\ b \in {"completed", "failed"}
  \/ a = "completed" /\ b = "count rows"
  \/ a = "failed" /\ b = "move"
  \/ a = "move" /\ b \in {"remove", "count failure"}
  \/ a = "remove" /\ b = "count failure"
  \/ a \in {"count rows", "count failure"} /\ b = "trigger"
  \/ a = "trigger" /\ b = "next"

\* A later sheet, or further with the same one.
FurtherSheet(g, h) ==
  /\ {g.pc, h.pc} \subseteq Loading /\ h.part <= Len(Parts[h.file]) /\ h.batch < Batches[Sheet(h)]
  /\ \/ h.part > g.part
     \/ h.part = g.part /\ <<g.pc, h.pc>> \in {<<"drop", "create">>, <<"create", "insert">>}
     \/ h.part = g.part /\ g.pc = "insert" /\ h.pc = "insert" /\ h.batch > g.batch

FurtherFile(g, h) ==
  /\ h.todo = g.todo /\ h.file = g.file
  /\ \/ Later(g.pc, h.pc)
     \/ FurtherSheet(g, h)
     \/ g.pc = "trigger" /\ h.pc = "trigger" /\ Len(h.loaded) < Len(g.loaded)

\* A goroutine that is at h is closer to its end than at g: by a file, a step of a file's
\* handling, a sheet, a statement, a batch or a table handed to the CDC.
Further(g, h) ==
  \/ g.pc = "discover" /\ h.pc \in {"next", "none"}
  \/ g.pc = "next" /\ h.pc = "none"
  \/ g.pc = "next" /\ h.pc = "open" /\ h.todo \subseteq g.todo /\ h.todo # g.todo
  \/ FurtherFile(g, h)

\* No step takes a job back, whatever fails: no sheet is loaded again, no file taken again,
\* no goroutine started for a job that has one or had one (StartJob, processFolder,
\* LoadAndInsert).  Files, sheets, batches and results are finitely many, and so are the
\* steps a job can take; only a .jsonl file with a broken line keeps it where it is.
JobsMoveOn == [][\A j \in Known \cap Known' : go'[j] = go[j] \/ Further(go[j], go'[j])]_vars

\* A goroutine that moves, moves on; the others stay where they are.
LEMMA OneMovesOn ==
  ASSUME IInv, NEW j \in Known, NEW n, go' = [go EXCEPT ![j] = n], Further(go[j], n)
  PROVE  \A i \in Known : go'[i] = go[i] \/ Further(go[i], go'[i])
  BY JobMeans

\* The next statement of a file's handling.
LEMMA NextStage ==
  ASSUME IInv, NEW j \in Known, NEW c, go' = [go EXCEPT ![j].pc = c], Later(go[j].pc, c)
  PROVE  \A i \in Known : go'[i] = go[i] \/ Further(go[i], go'[i])
<1>1. PICK n : n = [go[j] EXCEPT !.pc = c]
  OBVIOUS
<1>2. n.pc = c /\ n.todo = go[j].todo /\ n.file = go[j].file
  BY <1>1, JobMeans DEF GoType
<1>3. go' = [go EXCEPT ![j] = n]
  BY <1>1
<1> QED BY <1>2, <1>3, OneMovesOn DEF Further, FurtherFile

\* The next sheet, or the end of the file.
LEMMA NextPartFurther ==
  ASSUME NEW g \in GoType, g.file # 0, g.part \in 0..Len(Parts[g.file]), g.pc \in {"open"} \cup Loading
  PROVE  FurtherFile(g, NextPart(g))
<1>1. PICK n : n = NextPart(g)
  OBVIOUS
<1>2. /\ n.todo = g.todo /\ n.file = g.file
      /\ \/ n.pc = "drop" /\ n.part = g.part + 1 /\ n.batch = 0 /\ n.part \in 1..Len(Parts[g.file])
         \/ n.pc \in {"completed", "failed"}
  BY <1>1, NextPartMeans
<1>3. g.file \in Files /\ Len(Parts[g.file]) \in Nat /\ g.part \in Nat
  BY JobsAssumption DEF GoType
<1>4. CASE n.pc \in {"completed", "failed"} \/ g.pc = "open"
  <2>1. Later(g.pc, n.pc)
    BY <1>2, <1>4, Zenon DEF Later, Loading
  <2> QED BY <1>1, <1>2, <2>1 DEF FurtherFile
<1>5. CASE n.pc = "drop" /\ g.pc \in Loading
  <2>1. n.part > g.part /\ n.part <= Len(Parts[n.file])
    BY <1>2, <1>3, <1>5
  <2>2. Batches[Sheet(n)] \in Nat \ {0}
    BY <1>2, <1>3, <1>5, SheetMeans DEF Sheet
  <2>3. n.batch < Batches[Sheet(n)]
    BY <1>2, <1>5, <2>2
  <2> QED BY <1>1, <1>2, <1>5, <2>1, <2>3 DEF FurtherFile, FurtherSheet, Loading
<1> QED BY <1>2, <1>4, <1>5

\* A statement fails, or the file turns out to have no sheet left.
LEMMA SkipMovesOn ==
  ASSUME IInv, NEW j \in Known, go[j].pc \in {"open"} \cup Loading, go' = [go EXCEPT ![j] = NextPart(go[j])]
  PROVE  \A i \in Known : go'[i] = go[i] \/ Further(go[i], go'[i])
<1>1. go[j] \in GoType /\ go[j].file # 0 /\ go[j].part \in 0..Len(Parts[go[j].file])
  BY JobMeans DEF Fit, FileFits, WithFile, Pcs, Loading
<1>2. Further(go[j], NextPart(go[j]))
  BY <1>1, NextPartFurther DEF Further
<1> QED BY <1>2, OneMovesOn

\* A statement succeeds.
LEMMA LoadingMovesOn ==
  ASSUME IInv, NEW j \in Jobs, Drop(j) \/ Create(j)
  PROVE  \A i \in Known : go'[i] = go[i] \/ Further(go[i], go'[i])
<1>1. j \in Known /\ go[j].pc \in {"drop", "create"} /\ go[j].pc \in Loading
  BY DEF Drop, Create, At, Loading
<1>2. CASE go' = [go EXCEPT ![j] = NextPart(go[j])]
  BY <1>1, <1>2, SkipMovesOn
<1>3. CASE go' # [go EXCEPT ![j] = NextPart(go[j])]
  <2>1. PICK t : t = TableName(go[j])
    OBVIOUS
  <2>2. PICK n : /\ go' = [go EXCEPT ![j] = n]
                 /\ \/ go[j].pc = "drop" /\ n = [go[j] EXCEPT !.pc = "create", !.table = t]
                    \/ go[j].pc = "create" /\ n = [go[j] EXCEPT !.pc = "insert"]
    <3>1. CASE Drop(j)
      BY <1>3, <2>1, <3>1 DEF Drop, At, Answer, Refusal
    <3>2. CASE Create(j)
      BY <1>3, <3>2 DEF Create, At, Answer, Refusal
    <3> QED BY <3>1, <3>2
  <2>3. /\ n.todo = go[j].todo /\ n.file = go[j].file /\ n.part = go[j].part /\ n.batch = go[j].batch
        /\ <<go[j].pc, n.pc>> \in {<<"drop", "create">>, <<"create", "insert">>}
    BY <1>1, <2>2, JobMeans DEF GoType
  <2>4. /\ n.part <= Len(Parts[n.file]) /\ n.batch < Batches[Sheet(n)] /\ {go[j].pc, n.pc} \subseteq Loading
    <3>1. go[j].part \in 1..Len(Parts[go[j].file]) /\ go[j].batch < Batches[Sheet(go[j])]
      BY <1>1, LoadingMeans DEF SheetFits
    <3>2. Sheet(n) = Sheet(go[j])
      BY <2>3 DEF Sheet
    <3>3. go[j].part <= Len(Parts[go[j].file])
      <4>1. go[j].file \in Files
        BY <1>1, LoadingMeans
      <4>2. Len(Parts[go[j].file]) \in Nat
        BY <4>1, JobsAssumption
      <4> QED BY <3>1, <4>2
    <3> QED BY <2>3, <3>1, <3>2, <3>3 DEF Loading
  <2>5. Further(go[j], n)
    BY <2>3, <2>4 DEF Further, FurtherFile, FurtherSheet
  <2> QED BY <1>1, <2>2, <2>5, OneMovesOn
<1> QED BY <1>2, <1>3

\* A batch is stored: the next one, or the sheet is loaded.
LEMMA InsertMovesOn ==
  ASSUME IInv, NEW j \in Jobs, Insert(j)
  PROVE  \A i \in Known : go'[i] = go[i] \/ Further(go[i], go'[i])
<1>1. j \in Known /\ go[j].pc = "insert" /\ go[j].pc \in Loading
  BY DEF Insert, At, Loading
<1>2. PICK g : g = go[j]
  OBVIOUS
<1>3. /\ g \in GoType /\ g.file \in Files /\ g.file # 0 /\ g.part \in 1..Len(Parts[g.file]) /\ g.pc = "insert"
      /\ Len(Parts[g.file]) \in Nat /\ g.part <= Len(Parts[g.file]) /\ g.batch \in Nat
  <2>1. g \in GoType /\ g.file \in Files /\ g.part \in 1..Len(Parts[g.file])
    BY <1>1, <1>2, LoadingMeans
  <2>2. Len(Parts[g.file]) \in Nat /\ g.batch \in Nat
    BY <2>1, JobsAssumption DEF GoType
  <2> QED BY <1>1, <1>2, <2>1, <2>2, FilesAreNumbers
<1>4. \/ go' = [go EXCEPT ![j] = NextPart(go[j])]
      \/ go' = [go EXCEPT ![j] = Inserted(go[j])]
  BY DEF Insert, Answer, Refusal
<1>5. CASE go' = [go EXCEPT ![j] = NextPart(go[j])]
  BY <1>1, <1>5, SkipMovesOn
<1>6. CASE go' = [go EXCEPT ![j] = Inserted(go[j])]
  <2>1. CASE g.batch + 1 < Batches[Sheet(g)]
    <3>1. PICK b, n : b = g.batch + 1 /\ n = [g EXCEPT !.batch = b]
      OBVIOUS
    <3>2. n = Inserted(g) /\ go' = [go EXCEPT ![j] = n]
      BY <1>2, <1>6, <2>1, <3>1 DEF Inserted
    <3>3. n.todo = g.todo /\ n.file = g.file /\ n.part = g.part /\ n.pc = "insert" /\ n.batch = b
      BY <1>3, <3>1 DEF GoType
    <3>4. b < Batches[Sheet(n)] /\ b > g.batch
      BY <1>3, <2>1, <3>1, <3>3 DEF Sheet
    <3>5. FurtherFile(g, n)
      BY <1>3, <3>3, <3>4 DEF FurtherFile, FurtherSheet, Loading
    <3> QED BY <1>1, <1>2, <3>2, <3>5, OneMovesOn DEF Further
  <2>2. CASE ~(g.batch + 1 < Batches[Sheet(g)])
    <3>1. PICK s : s = Append(g.loaded, <<g.part, g.table>>)
      OBVIOUS
    <3>2. PICK h : h = [g EXCEPT !.loaded = s]
      OBVIOUS
    <3>3. PICK n : n = NextPart(h)
      OBVIOUS
    <3>4. go' = [go EXCEPT ![j] = n]
      BY <1>2, <1>6, <2>2, <3>1, <3>2, <3>3 DEF Inserted
    <3>5. s \in LoadResults
      <4>1. g.table \in Tables /\ g.part \in Nat /\ g.loaded \in LoadResults
        BY <1>1, <1>2, <1>3, LoadingMeans DEF SheetFits, GoType
      <4> QED BY <3>1, <4>1, AppendProperties DEF LoadResults
    <3>6. /\ h \in GoType /\ h.todo = g.todo /\ h.file = g.file /\ h.part = g.part /\ h.pc = "insert"
          /\ h.batch = g.batch
      BY <1>3, <3>2, <3>5 DEF GoType
    <3>7. FurtherFile(h, n)
      <4>1. h.file # 0 /\ h.part \in 0..Len(Parts[h.file]) /\ h.pc \in {"open"} \cup Loading
        BY <1>3, <3>6 DEF Loading
      <4> QED BY <3>3, <3>6, <4>1, NextPartFurther
    <3>8. FurtherFile(g, n)
      BY <1>3, <3>6, <3>7 DEF FurtherFile, FurtherSheet
    <3> QED BY <1>1, <1>2, <3>4, <3>8, OneMovesOn DEF Further
  <2> QED BY <2>1, <2>2
<1> QED BY <1>4, <1>5, <1>6

\* A file less to take, the end, a table less to hand over.
LEMMA FolderMovesOn ==
  ASSUME IInv, NEW j \in Jobs, NothingToDo(j) \/ Discover(j) \/ BeginFile(j) \/ EndJob(j)
  PROVE  \A i \in Known : go'[i] = go[i] \/ Further(go[i], go'[i])
<1>1. j \in Known /\ go[j] \in GoType
  BY JobMeans DEF NothingToDo, Discover, BeginFile, EndJob, At
<1>2. CASE NothingToDo(j)
  <2>1. PICK n : n = [go[j] EXCEPT !.pc = "none"]
    OBVIOUS
  <2>2. go[j].pc = "discover" /\ n.pc = "none" /\ go' = [go EXCEPT ![j] = n]
    BY <1>1, <1>2, <2>1 DEF NothingToDo, At, Goto, GoType
  <2> QED BY <1>1, <2>2, OneMovesOn DEF Further
<1>3. CASE Discover(j)
  <2>1. PICK S : go' = [go EXCEPT ![j] = [@ EXCEPT !.pc = "next", !.todo = S]]
    BY <1>3 DEF Discover
  <2>2. PICK n : n = [go[j] EXCEPT !.pc = "next", !.todo = S]
    OBVIOUS
  <2>3. go[j].pc = "discover" /\ n.pc = "next" /\ go' = [go EXCEPT ![j] = n]
    BY <1>1, <1>3, <2>1, <2>2 DEF Discover, At, GoType
  <2> QED BY <1>1, <2>3, OneMovesOn DEF Further
<1>4. CASE BeginFile(j)
  <2>1. PICK f : /\ f = Min(go[j].todo)
                 /\ go' = [go EXCEPT ![j] = [Idle EXCEPT !.pc = "open", !.todo = go[j].todo \ {f}, !.file = f]]
    BY <1>4 DEF BeginFile
  <2>2. PICK n : n = [Idle EXCEPT !.pc = "open", !.todo = go[j].todo \ {f}, !.file = f]
    OBVIOUS
  <2>3. f \in go[j].todo
    <3>1. go[j].todo # {} /\ go[j].todo \in SUBSET Nat
      BY <1>1, <1>4, FilesAreNumbers DEF BeginFile, GoType
    <3>2. \E x \in go[j].todo : \A y \in go[j].todo : x <= y
      BY <3>1, MinExists
    <3> QED BY <2>1, <3>2 DEF Min
  <2>4. go[j].pc = "next" /\ n.pc = "open" /\ n.todo = go[j].todo \ {f} /\ go' = [go EXCEPT ![j] = n]
    BY <1>1, <1>4, <2>1, <2>2 DEF BeginFile, At, Idle
  <2> QED BY <1>1, <2>3, <2>4, OneMovesOn DEF Further
<1>5. CASE EndJob(j)
  BY <1>1, <1>5, IdleMeans, OneMovesOn DEF EndJob, At, Further
<1> QED BY <1>2, <1>3, <1>4, <1>5

LEMMA TriggerMovesOn ==
  ASSUME IInv, NEW j \in Jobs, Trigger(j)
  PROVE  \A i \in Known : go'[i] = go[i] \/ Further(go[i], go'[i])
<1>1. /\ j \in Known /\ go[j].pc = "trigger" /\ go[j].loaded # <<>> /\ go' = [go EXCEPT ![j].loaded = Tail(@)]
      /\ go[j] \in GoType
  BY JobMeans DEF Trigger, At, Asked
<1>2. PICK s : s = Tail(go[j].loaded)
  OBVIOUS
<1>3. PICK n : n = [go[j] EXCEPT !.loaded = s]
  OBVIOUS
<1>4. Len(s) < Len(go[j].loaded)
  <2>1. go[j].loaded \in Seq(Nat \X Tables)
    BY <1>1 DEF GoType, LoadResults
  <2>2. Len(s) = Len(go[j].loaded) - 1 /\ Len(go[j].loaded) \in Nat
    BY <1>1, <1>2, <2>1, HeadTailProperties, LenProperties
  <2> QED BY <2>2
<1>5. n.pc = "trigger" /\ n.todo = go[j].todo /\ n.file = go[j].file /\ n.loaded = s /\ go' = [go EXCEPT ![j] = n]
  BY <1>1, <1>2, <1>3 DEF GoType
<1> QED BY <1>1, <1>4, <1>5, OneMovesOn DEF Further, FurtherFile

\* The rest of a file's handling: one statement after the other.
LEMMA StagesMoveOn ==
  ASSUME IInv, NEW j \in Jobs,
         Completed(j) \/ CountRows(j) \/ Failed(j) \/ Move(j) \/ RemoveSource(j) \/ CountFailure(j) \/ Processed(j)
  PROVE  \A i \in Known : go'[i] = go[i] \/ Further(go[i], go'[i])
<1>1. PICK c : j \in Known /\ go' = [go EXCEPT ![j].pc = c] /\ Later(go[j].pc, c)
  <2>1. CASE Completed(j)
    BY <2>1 DEF Completed, At, Goto, Later
  <2>2. CASE CountRows(j)
    BY <2>2 DEF CountRows, At, Goto, Later
  <2>3. CASE Failed(j)
    BY <2>3 DEF Failed, At, Goto, Later
  <2>4. CASE Move(j)
    BY <2>4 DEF Move, At, Goto, Later
  <2>5. CASE RemoveSource(j)
    BY <2>5 DEF RemoveSource, At, Goto, Later
  <2>6. CASE CountFailure(j)
    BY <2>6 DEF CountFailure, At, Goto, Later
  <2>7. CASE Processed(j)
    BY <2>7 DEF Processed, At, Goto, Later
  <2> QED BY <2>1, <2>2, <2>3, <2>4, <2>5, <2>6, <2>7
<1> QED BY <1>1, NextStage

\* A job's goroutine never comes back to where it was, whatever fails and however many jobs
\* share the folder: what JobsEnd rests on.
THEOREM JobsNeverTurnBack == Spec => JobsMoveOn
<1> DEFINE On == \A j \in Known \cap Known' : go'[j] = go[j] \/ Further(go[j], go'[j])
<1>1. ASSUME IInv, [Next]_vars PROVE [On]_vars
  <2>1. ASSUME NEW j \in Jobs, StartJob(j) PROVE On
    <3>1. j \notin Known /\ go' = [go EXCEPT ![j].pc = "discover"]
      BY <1>1, <2>1 DEF StartJob, Goto, IInv, Progress
    <3> QED BY <1>1, <3>1 DEF IInv, Workers, Progress
  <2>2. ASSUME NEW j \in Jobs, Step(j) PROVE \A i \in Known : go'[i] = go[i] \/ Further(go[i], go'[i])
    <3>1. CASE Open(j)
      <4>1. j \in Known /\ go[j].pc = "open"
        BY <3>1 DEF Open, At
      <4>2. CASE go' = [go EXCEPT ![j] = NextPart(go[j])]
        BY <1>1, <4>1, <4>2, SkipMovesOn
      <4>3. CASE go' = [go EXCEPT ![j].pc = "failed"]
        <5>1. Later(go[j].pc, "failed")
          BY <4>1 DEF Later
        <5> QED BY <1>1, <4>1, <4>3, <5>1, NextStage
      <4> QED BY <3>1, <4>2, <4>3 DEF Open, Goto
    <3>2. CASE NothingToDo(j) \/ Discover(j) \/ BeginFile(j) \/ EndJob(j)
      BY <1>1, <3>2, FolderMovesOn
    <3>3. CASE Drop(j) \/ Create(j)
      BY <1>1, <3>3, LoadingMovesOn
    <3>4. CASE Insert(j)
      BY <1>1, <3>4, InsertMovesOn
    <3>5. CASE Trigger(j)
      BY <1>1, <3>5, TriggerMovesOn
    <3>6. CASE Completed(j) \/ CountRows(j) \/ Failed(j) \/ Move(j) \/ RemoveSource(j) \/ CountFailure(j)
               \/ Processed(j)
      BY <1>1, <3>6, StagesMoveOn
    <3> QED BY <2>2, <3>1, <3>2, <3>3, <3>4, <3>5, <3>6 DEF Step
  <2>3. CASE Crash
    BY <2>3 DEF Crash, Known
  <2>4. CASE (\E t \in Tables : InitialPass(t) \/ Visit(t)) \/ Second
    BY <2>4 DEF InitialPass, Visit, Second
  <2> QED BY <1>1, <2>1, <2>2, <2>3, <2>4 DEF Next
<1> QED BY <1>1, IInvHolds, PTL DEF Spec, JobsMoveOn

=============================================================================

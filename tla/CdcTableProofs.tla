--------------------------- MODULE CdcTableProofs ---------------------------
(***************************************************************************)
(* Proofs about CdcTable: type correctness, the inductive invariant, and   *)
(* what follows from it; then the reports of gaps, and what holds when     *)
(* only the loop copies the table.                                         *)
(***************************************************************************)
EXTENDS CdcTable, TLAPS

-----------------------------------------------------------------------------
\* A range read is a content, and its rows are the committed rows of the range.
LEMMA ReadRangeRows ==
  ASSUME row \in Content, NEW a \in Int, NEW b \in Int
  PROVE  /\ ReadRange(a, b) \in Content
         /\ RowsOf(ReadRange(a, b)) = {i \in committed : a < i /\ i <= b}
BY ConstantsAssumption DEF ReadRange, Content, RowsOf, committed, Ids

\* Merging a batch into the index adds exactly its rows.
LEMMA MergeRows ==
  ASSUME NEW old \in Content, NEW new \in Content
  PROVE  /\ Merge(old, new) \in Content
         /\ RowsOf(Merge(old, new)) = RowsOf(old) \cup RowsOf(new)
BY ConstantsAssumption DEF Merge, Content, RowsOf, Ids, Larger

\* Counting rows keeps the statistics within their bound.
LEMMA CountType ==
  ASSUME NEW s \in [Ids -> 0..StatsCap], NEW keys
  PROVE  Count(s, keys) \in [Ids -> 0..StatsCap]
BY ConstantsAssumption DEF Count, Smaller, Ids

\* A fresh frame is of the right type and holds no rows.
LEMMA FreshFrameType ==
  ASSUME NEW m \in {"chunk", "incr"}, NEW a \in 0..MaxId, NEW b \in 0..MaxId
  PROVE  /\ FreshFrame(m, a, b) \in Frame
         /\ FreshFrame(m, a, b).attempt = 0
         /\ FreshFrame(m, a, b).mode = m
         /\ FreshFrame(m, a, b).cur = a
         /\ FreshFrame(m, a, b).total = b
         /\ RowsOf(FreshFrame(m, a, b).recs) = {}
BY ConstantsAssumption DEF FreshFrame, Frame, Content, NoRows, RowsOf, Ids

\* The frame of a resting goroutine is of the right type.
LEMMA EmptyFrameType == EmptyFrame \in Frame /\ EmptyFrame.attempt = 0 /\ RowsOf(NoRows) = {}
BY FreshFrameType, ConstantsAssumption DEF EmptyFrame, NoRows, RowsOf, Ids

\* A pass that returns leaves an empty frame and rests; nothing else of it changes.
LEMMA ReturnType ==
  ASSUME TypeOK, NEW t \in Threads, Return(t)
  PROVE  pc' \in [Threads -> Labels] /\ frame' \in [Threads -> Frame]
BY EmptyFrameType DEF TypeOK, Return, Goto, Resting, Labels

\* Going round the chunk loop, or out of it, keeps the types.
LEMMA AdvanceType ==
  ASSUME TypeOK, NEW t \in Threads, Advance(t)
  PROVE  pc' \in [Threads -> Labels] /\ frame' \in [Threads -> Frame]
<1> DEFINE next == frame[t].cur + ChunkSize
<1>1. CASE next < frame[t].total
  <2>1. next \in 0..MaxId /\ frame[t].total \in 0..MaxId
    BY <1>1, ConstantsAssumption DEF TypeOK, Frame
  <2>2. FreshFrame("chunk", next, frame[t].total) \in Frame
    BY <2>1, FreshFrameType
  <2> QED BY <1>1, <2>2 DEF Advance, TypeOK, Goto, Labels
<1>2. CASE ~(next < frame[t].total)
  BY <1>2, ReturnType DEF Advance
<1> QED BY <1>1, <1>2

\* A failed attempt keeps the types: the counter stays within MaxRetries.
LEMMA FailedType ==
  ASSUME TypeOK, NEW t \in Threads, Failed(t), frame[t].attempt < MaxRetries
  PROVE  pc' \in [Threads -> Labels] /\ frame' \in [Threads -> Frame]
<1>1. frame[t].attempt + 1 \in 0..MaxRetries
  BY ConstantsAssumption DEF TypeOK, Frame
<1> QED BY <1>1 DEF TypeOK, Failed, Goto, Labels, Frame

\* A pass that goes to label l keeps the types of pc, and the bound on its attempts
\* when l is not "dead" and they stay below MaxRetries.
LEMMA GotoType ==
  ASSUME TypeOK, NEW t \in Threads, NEW l \in Labels, Goto(t, l),
         l # "dead" => frame'[t].attempt < MaxRetries,
         \A u \in Threads \ {t} : frame'[u] = frame[u]
  PROVE  /\ pc' \in [Threads -> Labels]
         /\ \A u \in Threads :
              pc'[u] # "dead" => frame'[u].attempt < MaxRetries
BY DEF TypeOK, Goto

\* A pass that returns or goes round the chunk loop counts its attempts from 0.
LEMMA ReturnAttempts ==
  ASSUME TypeOK, NEW t \in Threads, Return(t) \/ Advance(t)
  PROVE  \A u \in Threads : pc'[u] # "dead" => frame'[u].attempt < MaxRetries
<1>1. frame'[t].attempt = 0
  BY EmptyFrameType DEF TypeOK, Return, Advance, FreshFrame
<1>2. \A u \in Threads \ {t} : frame'[u] = frame[u] /\ pc'[u] = pc[u]
  BY DEF TypeOK, Return, Advance, Goto
<1> QED BY <1>1, <1>2, ConstantsAssumption DEF TypeOK

\* So does one that begins.
LEMMA BeginType ==
  ASSUME TypeOK, NEW t \in Threads, Begin(t)
  PROVE  /\ pc' \in [Threads -> Labels] /\ frame' \in [Threads -> Frame]
         /\ \A u \in Threads : pc'[u] # "dead" => frame'[u].attempt < MaxRetries
<1>1. frame'[t].attempt = 0
  BY EmptyFrameType DEF Begin, TypeOK
<1>2. \A u \in Threads \ {t} : frame'[u] = frame[u]
  BY DEF Begin, TypeOK
<1>3. Goto(t, "max")
  BY DEF Begin
<1>4. frame' \in [Threads -> Frame]
  BY EmptyFrameType DEF Begin, TypeOK
<1> QED BY <1>1, <1>2, <1>3, <1>4, GotoType, ConstantsAssumption DEF Labels

\* Disturbances are counted up to their bound.
LEMMA UpsetsType ==
  ASSUME TypeOK, Calm \/ \E k \in Kinds : Disturb(k)
  PROVE  upsets' \in 0..MaxDisturbances
BY ConstantsAssumption DEF TypeOK, Calm, Disturb

-----------------------------------------------------------------------------
\* The initial states are of the right type.
LEMMA TypeInit == Init => TypeOK
<1> SUFFICES ASSUME Init PROVE TypeOK
  OBVIOUS
<1>1. NoRows \in Content /\ NoRows \in [Ids -> 0..StatsCap]
  BY ConstantsAssumption DEF NoRows, Content, Ids
<1>2. row \in Content
  BY ConstantsAssumption DEF Init, Content, Ids
<1>3. pc \in [Threads -> Labels] /\ frame \in [Threads -> Frame]
  BY EmptyFrameType DEF Init, Labels
<1>4. \A t \in Threads : frame[t].attempt < MaxRetries
  BY ConstantsAssumption, EmptyFrameType DEF Init
<1> QED BY <1>1, <1>2, <1>3, <1>4, ConstantsAssumption DEF Init, TypeOK

\* PostgreSQL's steps keep the types.
LEMMA TypeEnvironment ==
  ASSUME TypeOK, NEW i \in Ids, Commit(i) \/ Update(i) \/ Delete(i)
  PROVE  TypeOK'
<1>1. upsets' \in 0..MaxDisturbances
  BY UpsetsType DEF Commit, Update, Delete, Kinds
<1>2. row' \in Content
  BY ConstantsAssumption DEF TypeOK, Commit, Update, Delete, Content
<1>3. late' \subseteq Ids
  BY DEF TypeOK, Commit, Update, Delete
<1> QED BY <1>1, <1>2, <1>3 DEF TypeOK, Commit, Update, Delete, threadVars, chVars

\* So do the steps of the process.
LEMMA TypeProcess ==
  ASSUME TypeOK, Start \/ Stop \/ ClosePool \/ Exit \/ Crash
  PROVE  TypeOK'
<1>1. upsets' \in 0..MaxDisturbances
  BY UpsetsType DEF Start, Stop, ClosePool, Exit, Crash, Kinds, Calm, TypeOK
<1>2. CASE Start
  <2>1. Loop \in Threads
    BY DEF Threads
  <2>2. /\ pc' \in [Threads -> Labels] /\ frame' \in [Threads -> Frame]
        /\ \A u \in Threads : pc'[u] # "dead" => frame'[u].attempt < MaxRetries
    BY <1>2, <2>1, BeginType DEF Start
  <2> QED BY <1>1, <1>2, <2>2 DEF Start, TypeOK, envVars, chVars
<1>3. CASE Stop \/ ClosePool
  BY <1>1, <1>3 DEF Stop, ClosePool, TypeOK, envVars, threadVars, chVars
<1>4. CASE Exit \/ Crash
  <2>1. Vanish BY <1>4 DEF Exit, Crash
  <2>2. pc' \in [Threads -> Labels] /\ frame' \in [Threads -> Frame]
    BY <2>1, EmptyFrameType DEF Vanish, Labels
  <2>3. torn' \subseteq Ids
    BY <2>1 DEF Vanish, TypeOK, stored, RowsOf
  <2>4. \A u \in Threads : frame'[u].attempt < MaxRetries
    BY <2>1, ConstantsAssumption, EmptyFrameType DEF Vanish
  <2> QED BY <1>1, <2>1, <2>2, <2>3, <2>4, ConstantsAssumption DEF Vanish, TypeOK, envVars, chVars
<1> QED BY <1>2, <1>3, <1>4

\* The steps before a chunk is read keep the types.
LEMMA TypeRead ==
  ASSUME TypeOK, NEW t \in Threads,
         Trigger(t) \/ ReadMax(t) \/ ReadCheckpoint(t) \/ ChunkHead(t)
  PROVE  TypeOK'
<1>1. upsets' \in 0..MaxDisturbances
  BY UpsetsType DEF Trigger, ReadMax, ReadCheckpoint, ChunkHead, Kinds, Calm, TypeOK
<1>2. CASE Trigger(t)
  BY <1>1, <1>2, BeginType DEF Trigger, TypeOK, envVars, chVars
<1>3. CASE ReadMax(t) /\ Return(t)
  BY <1>1, <1>3, ReturnType, ReturnAttempts DEF ReadMax, TypeOK, envVars, chVars
<1>4. CASE ReadMax(t) /\ ~Return(t)
  <2>1. PICK m \in 0..MaxId : frame' = [frame EXCEPT ![t].total = m]
    BY <1>4 DEF ReadMax
  <2>2. frame' \in [Threads -> Frame]
    BY <2>1 DEF TypeOK, Frame
  <2>3. Goto(t, "ckpt")
    BY <1>4 DEF ReadMax
  <2>4. /\ pc' \in [Threads -> Labels]
        /\ \A u \in Threads : pc'[u] # "dead" => frame'[u].attempt < MaxRetries
    <3>1. pc[t] = "max"
      BY <1>4 DEF ReadMax
    <3>2. frame'[t].attempt < MaxRetries /\ \A u \in Threads \ {t} : frame'[u] = frame[u]
      BY <2>1, <3>1 DEF TypeOK, Frame
    <3> QED BY <2>3, <3>2, GotoType DEF Labels
  <2> QED BY <1>1, <1>4, <2>2, <2>4 DEF ReadMax, TypeOK, envVars, chVars
<1>5. CASE (ReadCheckpoint(t) \/ ChunkHead(t)) /\ Return(t)
  BY <1>1, <1>5, ReturnType, ReturnAttempts
  DEF ReadCheckpoint, ChunkHead, TypeOK, envVars, chVars
<1>6. CASE ReadCheckpoint(t) /\ ~Return(t)
  <2>1. frame' = [frame EXCEPT ![t].cur = lastSynced] /\ Goto(t, "head")
    BY <1>6 DEF ReadCheckpoint
  <2>2. frame' \in [Threads -> Frame]
    BY <2>1 DEF TypeOK, Frame
  <2>3. /\ pc' \in [Threads -> Labels]
        /\ \A u \in Threads : pc'[u] # "dead" => frame'[u].attempt < MaxRetries
    <3>1. pc[t] = "ckpt"
      BY <1>6 DEF ReadCheckpoint
    <3>2. frame'[t].attempt < MaxRetries /\ \A u \in Threads \ {t} : frame'[u] = frame[u]
      BY <2>1, <3>1 DEF TypeOK, Frame
    <3> QED BY <2>1, <3>2, GotoType DEF Labels
  <2> QED BY <1>1, <1>6, <2>2, <2>3 DEF ReadCheckpoint, TypeOK, envVars, chVars
<1>7. CASE ChunkHead(t) /\ ~Return(t)
  <2> DEFINE top == Smaller(frame[t].cur + ChunkSize, frame[t].total)
  <2>1. frame' = [frame EXCEPT ![t].hi = top] /\ Goto(t, "query")
    BY <1>7 DEF ChunkHead
  <2>2. top \in 0..MaxId
    BY ConstantsAssumption DEF TypeOK, Frame, Smaller
  <2> HIDE DEF top
  <2>3. frame' \in [Threads -> Frame]
    BY <2>1, <2>2 DEF TypeOK, Frame
  <2>4. /\ pc' \in [Threads -> Labels]
        /\ \A u \in Threads : pc'[u] # "dead" => frame'[u].attempt < MaxRetries
    <3>1. pc[t] = "head"
      BY <1>7 DEF ChunkHead
    <3>2. frame'[t].attempt < MaxRetries /\ \A u \in Threads \ {t} : frame'[u] = frame[u]
      BY <2>1, <3>1 DEF TypeOK, Frame
    <3> QED BY <2>1, <3>2, GotoType DEF Labels
  <2> QED BY <1>1, <1>7, <2>3, <2>4 DEF ChunkHead, TypeOK, envVars, chVars
<1> QED BY <1>2, <1>3, <1>4, <1>5, <1>6, <1>7

\* The chunk query keeps the types.
LEMMA TypeChunkQuery ==
  ASSUME TypeOK, NEW t \in Threads, ChunkQuery(t)
  PROVE  TypeOK'
<1> DEFINE lo == frame[t].cur
           top == frame[t].hi
<1>1. upsets' \in 0..MaxDisturbances
  BY UpsetsType DEF ChunkQuery, Kinds
<1>2. lo \in 0..MaxId /\ top \in 0..MaxId
  BY DEF TypeOK, Frame
<1>3. passed' \in 0..MaxId
  BY <1>2 DEF ChunkQuery, TypeOK, Larger
<1>4. PICK k \in lo..top :
        /\ skipped' = skipped \cup RowsOf(ReadRange(k, top))
        /\ \/ Advance(t)
           \/ Goto(t, "ingest") /\ frame' = [frame EXCEPT ![t].recs = ReadRange(lo, k)]
  BY DEF ChunkQuery
<1>5. skipped' \subseteq Ids
  BY <1>4 DEF TypeOK, RowsOf
<1>6. ReadRange(lo, k) \in Content
  BY <1>2, ReadRangeRows DEF TypeOK
<1>7. CASE Advance(t)
  BY <1>1, <1>3, <1>5, <1>7, AdvanceType, ReturnAttempts DEF ChunkQuery, TypeOK, envVars, chVars
<1>8. CASE Goto(t, "ingest") /\ frame' = [frame EXCEPT ![t].recs = ReadRange(lo, k)]
  <2> HIDE DEF lo
  <2>1. frame' \in [Threads -> Frame]
    BY <1>6, <1>8 DEF TypeOK, Frame
  <2>2. pc[t] = "query"
    BY DEF ChunkQuery
  <2>3. /\ pc' \in [Threads -> Labels]
        /\ \A u \in Threads : pc'[u] # "dead" => frame'[u].attempt < MaxRetries
    BY <1>8, <2>2, GotoType DEF TypeOK, Labels
  <2> QED BY <1>1, <1>3, <1>5, <2>1, <2>3 DEF ChunkQuery, TypeOK, envVars, chVars
<1> QED BY <1>4, <1>7, <1>8

\* The loop's own steps keep the types.
LEMMA TypeLoop ==
  ASSUME TypeOK, Tick \/ LoopExit \/ IncrementalQuery
  PROVE  TypeOK'
<1>0. Loop \in Threads
  BY DEF Threads
<1>1. CASE Tick
  <2> DEFINE f == FreshFrame("incr", lastSynced, 0)
  <2>1. f \in Frame /\ f.attempt < MaxRetries
    BY ConstantsAssumption, FreshFrameType DEF TypeOK
  <2> HIDE DEF f
  <2>2. frame' = [frame EXCEPT ![Loop] = f]
    BY <1>1 DEF Tick, f
  <2>3. frame' \in [Threads -> Frame]
    BY <2>1, <2>2 DEF TypeOK
  <2>4. /\ pc' \in [Threads -> Labels]
        /\ \A u \in Threads : pc'[u] # "dead" => frame'[u].attempt < MaxRetries
    BY <1>0, <1>1, <2>1, <2>2, GotoType DEF TypeOK, Labels, Tick
  <2> QED BY <1>1, <2>3, <2>4 DEF Tick, TypeOK, envVars, chVars
<1>2. CASE LoopExit
  BY <1>0, <1>2 DEF LoopExit, Goto, TypeOK, Labels, envVars, chVars
<1>3. CASE IncrementalQuery
  <2> DEFINE lo == frame[Loop].cur
  <2>1. upsets' \in 0..MaxDisturbances
    BY <1>3, UpsetsType DEF IncrementalQuery, Kinds
  <2>2. lo \in 0..MaxId
    BY <1>0 DEF TypeOK, Frame
  <2>3. CASE Return(Loop) /\ UNCHANGED passed
    BY <1>0, <1>3, <2>1, <2>3, ReturnType, ReturnAttempts
    DEF IncrementalQuery, TypeOK, envVars, chVars
  <2>4. CASE ~(Return(Loop) /\ UNCHANGED passed)
    <3>0. PICK k \in lo..MaxId :
            /\ \E m \in RowsOf(ReadRange(lo, k)) :
                 /\ frame' = [frame EXCEPT ![Loop].recs = ReadRange(lo, k),
                                           ![Loop].hi = IF PkIsBigint THEN m ELSE 0]
                 /\ passed' = Larger(passed, m)
            /\ Goto(Loop, "ingest")
      BY <1>3, <2>4 DEF IncrementalQuery
    <3>1. PICK m \in RowsOf(ReadRange(lo, k)) :
            /\ frame' = [frame EXCEPT ![Loop].recs = ReadRange(lo, k),
                                      ![Loop].hi = IF PkIsBigint THEN m ELSE 0]
            /\ passed' = Larger(passed, m)
      BY <3>0
    <3>2. ReadRange(lo, k) \in Content /\ m \in Ids
      BY <2>2, ReadRangeRows DEF TypeOK, RowsOf
    <3>3. passed' \in 0..MaxId
      BY <3>1, <3>2 DEF TypeOK, Larger, Ids
    <3> HIDE DEF lo
    <3>4. frame' \in [Threads -> Frame]
      <4> DEFINE h == IF PkIsBigint THEN m ELSE 0
                 c == ReadRange(lo, k)
      <4>1. h \in 0..MaxId /\ c \in Content
        BY <3>2, ConstantsAssumption DEF Ids
      <4>2. frame' = [frame EXCEPT ![Loop] = [@ EXCEPT !.recs = c, !.hi = h]]
        BY <1>0, <3>1 DEF TypeOK
      <4> HIDE DEF h, c
      <4> QED BY <1>0, <4>1, <4>2 DEF TypeOK, Frame
    <3>5. /\ pc' \in [Threads -> Labels]
          /\ \A u \in Threads : pc'[u] # "dead" => frame'[u].attempt < MaxRetries
      <4>1. pc[Loop] = "iquery"
        BY <1>3 DEF IncrementalQuery
      <4> QED BY <1>0, <3>0, <3>1, <4>1, GotoType DEF TypeOK, Labels
    <3> QED BY <1>3, <2>1, <3>3, <3>4, <3>5 DEF IncrementalQuery, TypeOK, envVars, chVars
  <2> QED BY <2>3, <2>4
<1> QED BY <1>1, <1>2, <1>3

\* A batch that is sent leads to the next batch, or to a failed attempt.
LEMMA SendOutcome ==
  ASSUME TypeOK, NEW t \in Threads, SendMain(t) \/ SendTokens(t) \/ SendStats(t)
  PROVE  /\ upsets' \in 0..MaxDisturbances
         /\ pc' \in [Threads -> Labels] /\ frame' \in [Threads -> Frame]
         /\ \A u \in Threads : pc'[u] # "dead" => frame'[u].attempt < MaxRetries
<1>1. upsets' \in 0..MaxDisturbances
  BY UpsetsType DEF SendMain, SendTokens, SendStats, Outcome, Kinds
<1>2. pc[t] # "dead"
  BY DEF SendMain, SendTokens, SendStats
<1>3. frame[t].attempt < MaxRetries
  BY <1>2 DEF TypeOK
<1>4. CASE Failed(t)
  <2>1. pc' \in [Threads -> Labels] /\ frame' \in [Threads -> Frame]
    BY <1>3, <1>4, FailedType
  <2>2. \A u \in Threads \ {t} : frame'[u] = frame[u] /\ pc'[u] = pc[u]
    BY <1>4 DEF Failed, Goto, TypeOK
  <2>3. pc'[t] # "dead" => frame'[t].attempt < MaxRetries
    BY <1>4 DEF Failed, Goto, TypeOK, Frame
  <2> QED BY <1>1, <2>1, <2>2, <2>3 DEF TypeOK
<1>5. CASE ~Failed(t)
  <2>1. PICK l \in {"tokens", "stats", "store"} : Goto(t, l) /\ UNCHANGED frame
    BY <1>5 DEF SendMain, SendTokens, SendStats, Outcome
  <2> QED BY <1>1, <1>3, <2>1, GotoType DEF TypeOK, Labels
<1> QED BY <1>4, <1>5

\* The three batches of BulkIndex keep the types.
LEMMA TypeSend ==
  ASSUME TypeOK, NEW t \in Threads, SendMain(t) \/ SendTokens(t) \/ SendStats(t)
  PROVE  TypeOK'
<1>1. frame[t].recs \in Content
  BY DEF TypeOK, Frame
<1>2. idx' \in Content
  BY <1>1, MergeRows DEF TypeOK, SendMain, SendTokens, SendStats, Outcome
<1>3. tokens' \subseteq Ids /\ lost' \subseteq Ids
  BY DEF TypeOK, SendMain, SendTokens, SendStats, Outcome, RowsOf
<1>4. stats' \in [Ids -> 0..StatsCap]
  BY CountType DEF TypeOK, SendMain, SendTokens, SendStats, Outcome
<1> QED BY <1>2, <1>3, <1>4, SendOutcome DEF TypeOK, SendMain, SendTokens, SendStats, envVars

\* The rest of the ingest loop keeps the types.
LEMMA TypeIngest ==
  ASSUME TypeOK, NEW t \in Threads, IngestStart(t) \/ DeadLetter(t) \/ StoreCheckpoint(t)
  PROVE  TypeOK'
<1>1. upsets' \in 0..MaxDisturbances
  BY UpsetsType DEF IngestStart, DeadLetter, StoreCheckpoint, Kinds, Calm, TypeOK
<1>2. frame[t].cur \in 0..MaxId /\ frame[t].hi \in 0..MaxId
  BY DEF TypeOK, Frame
<1>3. CASE IngestStart(t)
  <2>1. frame[t].attempt < MaxRetries
    BY <1>3 DEF IngestStart, TypeOK
  <2>2. PICK l \in {"store", "main"} : Goto(t, l)
    BY <1>3 DEF IngestStart
  <2>3. UNCHANGED frame
    BY <1>3 DEF IngestStart
  <2>4. /\ pc' \in [Threads -> Labels]
        /\ \A u \in Threads : pc'[u] # "dead" => frame'[u].attempt < MaxRetries
    BY <2>1, <2>2, <2>3, GotoType DEF Labels
  <2> QED BY <1>1, <1>3, <2>4 DEF IngestStart, TypeOK, envVars, chVars
<1>4. CASE DeadLetter(t)
  <2>1. dead' \subseteq Nat \X Nat
    BY <1>2, <1>4 DEF DeadLetter, TypeOK
  <2>2. Return(t)
    BY <1>4 DEF DeadLetter
  <2> QED BY <1>1, <1>4, <2>1, <2>2, ReturnType, ReturnAttempts DEF DeadLetter, TypeOK, envVars
<1>5. CASE StoreCheckpoint(t)
  <2>1. lastSynced' \in 0..MaxId
    BY <1>2, <1>5 DEF StoreCheckpoint
  <2>2. Return(t) \/ Advance(t)
    BY <1>5 DEF StoreCheckpoint
  <2>3. pc' \in [Threads -> Labels] /\ frame' \in [Threads -> Frame]
    BY <2>2, ReturnType, AdvanceType
  <2> QED BY <1>1, <1>5, <2>1, <2>2, <2>3, ReturnAttempts DEF StoreCheckpoint, TypeOK, envVars, chVars
<1> QED BY <1>3, <1>4, <1>5

\* Every step keeps the types.
LEMMA TypeNext == TypeOK /\ [Next]_vars => TypeOK'
<1> SUFFICES ASSUME TypeOK, [Next]_vars PROVE TypeOK'
  OBVIOUS
<1>1. CASE Environment
  BY <1>1, TypeEnvironment, TypeProcess DEF Environment
<1>2. CASE ClosePool \/ Exit
  BY <1>2, TypeProcess
<1>3. ASSUME NEW t \in Threads, Trigger(t) \/ ThreadStep(t)
      PROVE  TypeOK'
  BY <1>3, TypeRead, TypeChunkQuery, TypeSend, TypeIngest DEF ThreadStep
<1>4. CASE LoopStep
  BY <1>3, <1>4, TypeLoop DEF LoopStep, Threads
<1>5. CASE UNCHANGED vars
  BY <1>5 DEF vars, envVars, threadVars, chVars, TypeOK
<1> QED BY <1>1, <1>2, <1>3, <1>4, <1>5 DEF Next, Threads

\* Whatever the table's size, the number of goroutines and the disturbances: every
\* variable stays within its type, in particular no ingest makes more than MaxRetries
\* attempts.
THEOREM TypeCorrect == Spec => []TypeOK
<1> QED BY TypeInit, TypeNext, PTL DEF Spec

-----------------------------------------------------------------------------
\* What holds of every step: nothing found, given up or read past is taken back, and
\* a row that appears below what has been read is late.
Grows ==
  /\ stored \subseteq stored' /\ tokens \subseteq tokens' /\ lost \subseteq lost'
  /\ excused \subseteq excused' /\ torn \subseteq torn'
  /\ passed <= passed'
  /\ \A i \in committed' \ committed : i <= passed => i \in excused'

\* PostgreSQL's steps take nothing back, and a late row is excused.
LEMMA GrowsEnvironment ==
  ASSUME TypeOK, NEW i \in Ids, Commit(i) \/ Update(i) \/ Delete(i)
  PROVE  Grows
<1>1. UNCHANGED <<idx, tokens, lost, skipped, torn, passed>>
  BY DEF Commit, Update, Delete, chVars
<1>2. \A j \in Ids : j \in committed' \ committed => j = i /\ Commit(i)
  BY DEF Commit, Update, Delete, committed, RowsOf, TypeOK, Content
<1>3. committed' \subseteq Ids
  BY DEF committed, RowsOf
<1>4. late \subseteq late' /\ (Commit(i) /\ i <= passed => i \in late')
  BY DEF Commit, Update, Delete
<1> QED BY <1>1, <1>2, <1>3, <1>4 DEF Grows, TypeOK, stored, excused

\* The steps of the process take nothing back.
LEMMA GrowsProcess ==
  ASSUME TypeOK, Start \/ Stop \/ ClosePool \/ Exit \/ Crash
  PROVE  Grows
<1>1. UNCHANGED <<row, idx, tokens, lost, skipped, late, passed>> /\ torn \subseteq torn'
  BY DEF Start, Stop, ClosePool, Exit, Crash, Vanish, chVars, envVars
<1> QED BY <1>1 DEF Grows, TypeOK, stored, excused, committed

\* The steps of a pass take nothing back.
LEMMA GrowsThread ==
  ASSUME TypeOK, NEW t \in Threads, Trigger(t) \/ ThreadStep(t)
  PROVE  Grows
<1>1. UNCHANGED <<row, late, torn>>
  BY DEF Trigger, ThreadStep, ReadMax, ReadCheckpoint, ChunkHead, ChunkQuery, IngestStart,
         SendMain, SendTokens, SendStats, DeadLetter, StoreCheckpoint, envVars
<1>2. frame[t].recs \in Content /\ frame[t].hi \in 0..MaxId
  BY DEF TypeOK, Frame
<1>3. stored \subseteq stored' /\ tokens \subseteq tokens' /\ lost \subseteq lost'
  BY <1>2, MergeRows
  DEF TypeOK, Trigger, ThreadStep, ReadMax, ReadCheckpoint, ChunkHead, ChunkQuery, IngestStart,
      SendMain, SendTokens, SendStats, DeadLetter, StoreCheckpoint, Outcome, chVars, stored
<1>4. skipped \subseteq skipped' /\ passed <= passed'
  <2>1. CASE ChunkQuery(t)
    BY <1>2, <2>1 DEF TypeOK, ChunkQuery, Larger
  <2>2. CASE ~ChunkQuery(t)
    <3>1. UNCHANGED <<skipped, passed>>
      BY <2>2 DEF Trigger, ThreadStep, ReadMax, ReadCheckpoint, ChunkHead,
           IngestStart, SendMain, SendTokens, SendStats, DeadLetter, StoreCheckpoint
    <3> QED BY <3>1 DEF TypeOK
  <2> QED BY <2>1, <2>2
<1> QED BY <1>1, <1>3, <1>4 DEF Grows, committed, excused

\* The loop's own steps take nothing back.
LEMMA GrowsLoop ==
  ASSUME TypeOK, Tick \/ LoopExit \/ IncrementalQuery
  PROVE  Grows
<1>1. UNCHANGED <<row, late, torn, skipped, idx, tokens, lost>>
  BY DEF Tick, LoopExit, IncrementalQuery, envVars, chVars
<1>2. passed <= passed'
  <2>1. CASE UNCHANGED passed
    BY <2>1 DEF TypeOK
  <2>2. CASE ~UNCHANGED passed
    <3>1. PICK m \in Ids : passed' = Larger(passed, m)
      BY <2>2 DEF Tick, LoopExit, IncrementalQuery, RowsOf
    <3> QED BY <3>1 DEF Larger, TypeOK, Ids
  <2> QED BY <2>1, <2>2
<1> QED BY <1>1, <1>2 DEF Grows, committed, excused, stored

-----------------------------------------------------------------------------
\* What is covered stays covered.
LEMMA CoveredStable ==
  ASSUME TypeOK, Grows, NEW k \in Int, k <= passed, Covered(k)
  PROVE  Covered(k)'
<1> SUFFICES ASSUME NEW i \in committed', i <= k
             PROVE  i \in searchable' \cup excused' \cup torn'
  BY DEF Covered
<1>1. i \in Int
  BY ConstantsAssumption DEF committed, RowsOf, Ids
<1>2. CASE i \in committed
  BY <1>2 DEF Covered, Grows, searchable
<1>3. CASE i \notin committed
  <2>1. i <= passed
    BY <1>1 DEF TypeOK
  <2> QED BY <1>3, <2>1 DEF Grows
<1> QED BY <1>2, <1>3

\* A goroutine's invariant survives the steps of the others.
LEMMA PassStable ==
  ASSUME TypeOK, TypeOK', Grows, NEW t \in Threads, PassInv(t),
         pc'[t] = pc[t], frame'[t] = frame[t], proc' # "closed" => proc # "closed"
  PROVE  PassInv(t)'
<1> DEFINE f == frame[t]
           rows == RowsOf(f.recs)
<1>1. f \in Frame /\ f.cur \in Int /\ f.hi \in Int /\ rows \subseteq Int
  BY ConstantsAssumption DEF TypeOK, Frame, RowsOf, Ids
<1>2. passed \in Int /\ passed' \in Int /\ passed <= passed'
  BY DEF TypeOK, Grows
<1>3. pc[t] \in Reading \cup Ingesting => f.cur <= passed'
  BY <1>1, <1>2 DEF PassInv
<1>4. pc[t] \in Ingesting => f.hi <= passed' /\ \A k \in rows : f.cur < k /\ k <= passed'
  BY <1>1, <1>2 DEF PassInv
<1>5. ASSUME proc # "closed", pc[t] \in Reading \cup Ingesting
      PROVE  Covered(f.cur)'
  BY <1>1, <1>5, CoveredStable DEF PassInv
<1>6. ASSUME proc # "closed", pc[t] \in Ingesting, NEW i \in committed', f.cur < i,
             i <= f.hi \/ \E k \in rows : i <= k
      PROVE  i \in rows \cup excused'
  <2>1. i \in Int
    BY ConstantsAssumption DEF committed, RowsOf, Ids
  <2>2. CASE i \in committed
    BY <1>6, <2>2 DEF PassInv, Grows
  <2>3. CASE i \notin committed
    <3>1. i <= passed
      BY <1>1, <1>2, <1>6, <2>1 DEF PassInv
    <3> QED BY <2>3, <3>1 DEF Grows
  <2> QED BY <2>2, <2>3
<1>7. proc # "closed" /\ pc[t] \in {"tokens", "stats", "store"} => rows \subseteq stored' \cup lost'
  BY DEF PassInv, Grows
<1>8. proc # "closed" /\ pc[t] \in {"stats", "store"} => rows \subseteq tokens' \cup lost'
  BY DEF PassInv, Grows
<1> QED BY <1>3, <1>4, <1>5, <1>6, <1>7, <1>8 DEF PassInv, Covered

\* A goroutine that is not copying has nothing to know, but the mode of a pass that
\* is about to begin.
LEMMA PassAtRest ==
  ASSUME NEW t \in Threads,
         \/ pc'[t] \in {"idle", "wait"}
         \/ pc'[t] \in {"max", "ckpt"} /\ frame'[t].mode = "chunk"
  PROVE  PassInv(t)'
BY DEF PassInv, Reading, Ingesting

\* Below a stored key nothing unexcused is missing, as long as no new key is stored.
LEMMA ResumeStable ==
  ASSUME TypeOK, Grows, ResumePointCovers, HistoryInv, stored' = stored
  PROVE  ResumePointCovers'
<1> SUFFICES ASSUME NEW k \in stored, NEW i \in committed', i <= k
             PROVE  i \in stored' \cup excused'
  BY DEF ResumePointCovers
<1>1. i \in Int /\ k \in Int /\ k <= passed /\ passed \in Int
  BY ConstantsAssumption DEF committed, stored, RowsOf, Ids, TypeOK, HistoryInv
<1>2. CASE i \in committed
  BY <1>2 DEF ResumePointCovers, Grows
<1>3. CASE i \notin committed
  BY <1>1, <1>3 DEF Grows
<1> QED BY <1>2, <1>3

\* A goroutine's step is its own: the others and the process stay as they are.
LEMMA OwnStep ==
  ASSUME TypeOK, HistoryInv, NEW t \in Threads,
         \/ Trigger(t) \/ ThreadStep(t)
         \/ t = Loop /\ (Tick \/ LoopExit \/ IncrementalQuery)
  PROVE  /\ proc' = proc /\ proc # "down" /\ torn' = torn
         /\ \A u \in Threads \ {t} : pc'[u] = pc[u] /\ frame'[u] = frame[u]
<1>1. proc' = proc /\ torn' = torn
  BY DEF Trigger, ThreadStep, ReadMax, ReadCheckpoint, ChunkHead, ChunkQuery, IngestStart,
         SendMain, SendTokens, SendStats, DeadLetter, StoreCheckpoint, Tick, LoopExit,
         IncrementalQuery
<1>2. proc # "down"
  BY DEF Trigger, ThreadStep, ReadMax, ReadCheckpoint, ChunkHead, ChunkQuery, IngestStart,
         SendMain, SendTokens, SendStats, DeadLetter, StoreCheckpoint, Tick, LoopExit,
         IncrementalQuery, HistoryInv
<1>3. \/ Begin(t) \/ Return(t) \/ Advance(t) \/ Failed(t)
      \/ /\ \E l \in Labels : Goto(t, l)
         /\ \E f : frame' = [frame EXCEPT ![t] = f]
  <2>1. CASE ThreadStep(t) \/ Trigger(t)
    <3>1. CASE Trigger(t) \/ ReadMax(t) \/ ReadCheckpoint(t) \/ ChunkHead(t)
      BY <3>1 DEF Trigger, ReadMax, ReadCheckpoint, ChunkHead, Labels
    <3>2. CASE ChunkQuery(t)
      BY <3>2 DEF ChunkQuery, Labels
    <3>3. CASE SendMain(t) \/ SendTokens(t) \/ SendStats(t)
      <4>1. frame = [frame EXCEPT ![t] = frame[t]]
        BY DEF TypeOK
      <4> QED BY <3>3, <4>1 DEF SendMain, SendTokens, SendStats, Outcome, Labels
    <3>4. CASE IngestStart(t) \/ DeadLetter(t) \/ StoreCheckpoint(t)
      <4>1. frame = [frame EXCEPT ![t] = frame[t]]
        BY DEF TypeOK
      <4> QED BY <3>4, <4>1 DEF IngestStart, DeadLetter, StoreCheckpoint, Labels
    <3> QED BY <2>1, <3>1, <3>2, <3>3, <3>4 DEF ThreadStep
  <2>2. CASE t = Loop /\ (Tick \/ LoopExit)
    <3>1. frame = [frame EXCEPT ![t] = frame[t]]
      BY DEF TypeOK
    <3> QED BY <2>2, <3>1 DEF Tick, LoopExit, Labels
  <2>3. CASE t = Loop /\ IncrementalQuery
    <3>1. CASE Return(Loop)
      BY <2>3, <3>1
    <3>2. CASE ~Return(Loop)
      <4>1. Goto(Loop, "ingest")
        BY <2>3, <3>2 DEF IncrementalQuery
      <4>2. \E c, h : frame' = [frame EXCEPT ![Loop].recs = c, ![Loop].hi = h]
        BY <2>3, <3>2 DEF IncrementalQuery
      <4>3. \E f : frame' = [frame EXCEPT ![Loop] = f]
        BY <2>3, <4>2 DEF TypeOK
      <4> QED BY <2>3, <4>1, <4>3 DEF Labels
    <3> QED BY <3>1, <3>2
  <2> QED BY <2>1, <2>2, <2>3
<1>4. \A u \in Threads \ {t} : pc'[u] = pc[u] /\ frame'[u] = frame[u]
  BY <1>3 DEF Begin, Return, Advance, Failed, Goto, TypeOK
<1> QED BY <1>1, <1>2, <1>4

\* A step of t that neither stores nor moves the checkpoint keeps everything but
\* perhaps what t itself knows.
LEMMA QuietStep ==
  ASSUME IndInv, TypeOK', Grows, NEW t \in Threads,
         proc' = proc, proc # "down", torn' = torn,
         \A u \in Threads \ {t} : pc'[u] = pc[u] /\ frame'[u] = frame[u],
         stored' = stored, lastSynced' = lastSynced,
         PassInv(t)'
  PROVE  IndInv'
<1>1. passed \in Int /\ passed' \in Int /\ passed <= passed' /\ lastSynced \in Int
      /\ lastSynced <= passed
  BY DEF IndInv, TypeOK, Grows, HistoryInv
<1>2. CheckpointCovers'
  <2>1. proc # "closed" => Covered(lastSynced)'
    BY <1>1, CoveredStable DEF IndInv, CheckpointCovers
  <2> QED BY <2>1 DEF CheckpointCovers, Covered
<1>3. ResumePointCovers'
  BY ResumeStable DEF IndInv
<1>4. HistoryInv'
  <2>1. \A k \in stored : k \in Int
    BY ConstantsAssumption DEF stored, RowsOf, Ids
  <2> QED BY <1>1, <2>1 DEF IndInv, HistoryInv
<1>5. \A u \in Threads \ {t} : PassInv(u)'
  BY PassStable DEF IndInv
<1> QED BY <1>2, <1>3, <1>4, <1>5 DEF IndInv

-----------------------------------------------------------------------------
\* The steps of a goroutine, one lemma per action.

\* The steps before a chunk is read: a pass starts from a covered key.
LEMMA InvRead ==
  ASSUME IndInv, TypeOK', NEW t \in Threads,
         Trigger(t) \/ ReadMax(t) \/ ReadCheckpoint(t) \/ ChunkHead(t)
  PROVE  IndInv'
<1>1. Grows
  BY GrowsThread DEF IndInv, ThreadStep
<1>2. stored' = stored /\ lastSynced' = lastSynced /\ passed' = passed
  BY DEF Trigger, ReadMax, ReadCheckpoint, ChunkHead, chVars, stored
<1>3. PassInv(t)'
  <2>1. CASE Trigger(t)
    <3>1. pc'[t] = "max" /\ frame'[t].mode = "chunk"
      BY <2>1, ConstantsAssumption, FreshFrameType
      DEF IndInv, TypeOK, Trigger, Begin, Goto, EmptyFrame, FreshFrame
    <3> QED BY <3>1, PassAtRest
  <2>2. CASE Return(t)
    BY <2>2, PassAtRest DEF IndInv, TypeOK, Return, Goto, Resting
  <2>3. CASE ReadMax(t) /\ ~Return(t)
    <3>1. pc'[t] = "ckpt" /\ frame'[t].mode = frame[t].mode /\ pc[t] = "max"
      BY <2>3 DEF IndInv, TypeOK, Frame, ReadMax, Goto
    <3>2. frame[t].mode = "chunk"
      BY <3>1 DEF IndInv, PassInv
    <3> QED BY <3>1, <3>2, PassAtRest
  <2>4. CASE ReadCheckpoint(t) /\ ~Return(t)
    <3>1. /\ pc[t] = "ckpt" /\ pc'[t] = "head" /\ lastSynced < frame[t].total
          /\ frame'[t] = [frame[t] EXCEPT !.cur = lastSynced]
      BY <2>4 DEF IndInv, TypeOK, Frame, ReadCheckpoint, Goto
    <3>2. /\ frame'[t].mode = "chunk" /\ frame'[t].cur = lastSynced
          /\ frame'[t].total = frame[t].total
      BY <3>1 DEF IndInv, TypeOK, Frame, PassInv
    <3>3. lastSynced <= passed' /\ (proc' # "closed" => Covered(lastSynced)')
      <4>1. lastSynced \in Int /\ lastSynced <= passed
        BY DEF IndInv, TypeOK, HistoryInv
      <4>2. proc' = proc
        BY <2>4 DEF ReadCheckpoint
      <4>3. proc # "closed" => Covered(lastSynced)'
        BY <1>1, <1>2, <4>1, CoveredStable DEF IndInv, CheckpointCovers
      <4> QED BY <1>2, <4>1, <4>2, <4>3
    <3> QED BY <1>2, <3>1, <3>2, <3>3 DEF PassInv, Reading, Ingesting, Covered
  <2>5. CASE ChunkHead(t) /\ ~Return(t)
    <3>1. /\ pc[t] = "head" /\ pc'[t] = "query"
          /\ frame'[t] = [frame[t] EXCEPT !.hi = Smaller(frame[t].cur + ChunkSize, frame[t].total)]
      BY <2>5 DEF IndInv, TypeOK, Frame, ChunkHead, Goto
    <3>2. /\ frame'[t].mode = "chunk" /\ frame'[t].cur = frame[t].cur
          /\ frame'[t].total = frame[t].total /\ frame[t].cur < frame[t].total
          /\ frame'[t].hi = Smaller(frame[t].cur + ChunkSize, frame[t].total)
      BY <3>1 DEF IndInv, TypeOK, Frame, PassInv
    <3>3. frame[t].cur <= passed' /\ (proc' # "closed" => Covered(frame[t].cur)')
      <4>1. frame[t].cur \in Int /\ frame[t].cur <= passed
        BY <3>1 DEF IndInv, TypeOK, Frame, PassInv, Reading
      <4>2. proc' = proc
        BY <2>5 DEF ChunkHead
      <4>3. proc # "closed" => Covered(frame[t].cur)
        BY <3>1 DEF IndInv, PassInv, Reading
      <4>4. proc # "closed" => \A i \in committed' : i <= frame[t].cur =>
                                 i \in searchable' \cup excused' \cup torn'
        <5>1. ASSUME NEW c \in Int, c <= passed, Covered(c) PROVE Covered(c)'
          BY <1>1, <5>1, CoveredStable DEF IndInv
        <5> QED BY <4>1, <4>3, <5>1 DEF Covered
      <4> QED BY <1>2, <3>2, <4>1, <4>2, <4>4 DEF Covered
    <3> QED BY <1>2, <3>1, <3>2, <3>3 DEF PassInv, Reading, Ingesting, Covered
  <2> QED BY <2>1, <2>2, <2>3, <2>4, <2>5
<1>4. /\ proc' = proc /\ proc # "down" /\ torn' = torn
      /\ \A u \in Threads \ {t} : pc'[u] = pc[u] /\ frame'[u] = frame[u]
  BY OwnStep DEF IndInv, ThreadStep
<1> QED BY <1>1, <1>2, <1>3, <1>4, QuietStep

\* The chunk query: the records are all the unexcused rows of the range.
LEMMA InvChunkQuery ==
  ASSUME IndInv, TypeOK', NEW t \in Threads, ChunkQuery(t)
  PROVE  IndInv'
<1> DEFINE lo  == frame[t].cur
           top == frame[t].hi
           n   == frame[t].total
<1>1. Grows
  BY GrowsThread DEF IndInv, ThreadStep
<1>2. /\ stored' = stored /\ lastSynced' = lastSynced /\ row' = row /\ late' = late
      /\ proc' = proc /\ pc[t] = "query" /\ passed' = Larger(passed, top)
  BY DEF ChunkQuery, chVars, envVars, stored
<1>3. /\ lo \in 0..MaxId /\ top \in 0..MaxId /\ n \in 0..MaxId
      /\ frame[t].mode = "chunk" /\ lo < n /\ top = Smaller(lo + ChunkSize, n)
      /\ lo <= passed /\ passed \in 0..MaxId
      /\ proc # "closed" => Covered(lo)
  BY <1>2 DEF IndInv, TypeOK, Frame, PassInv, Reading
<1>4. top <= passed' /\ lo <= passed'
  BY <1>2, <1>3 DEF Larger
<1>5. PICK k \in lo..top :
        /\ skipped' = skipped \cup RowsOf(ReadRange(k, top))
        /\ IF RowsOf(ReadRange(lo, k)) = {}
             THEN Advance(t)
             ELSE Goto(t, "ingest") /\ frame' = [frame EXCEPT ![t].recs = ReadRange(lo, k)]
  BY DEF ChunkQuery
<1>6. /\ ReadRange(lo, k) \in Content
      /\ RowsOf(ReadRange(lo, k)) = {i \in committed : lo < i /\ i <= k}
      /\ RowsOf(ReadRange(k, top)) = {i \in committed : k < i /\ i <= top}
  BY <1>3, ReadRangeRows DEF IndInv, TypeOK
<1>7. committed' = committed /\ committed \subseteq Int
  BY <1>2, ConstantsAssumption DEF committed, RowsOf, Ids
<1>8. \A i \in committed : k < i /\ i <= top => i \in excused'
  BY <1>5, <1>6 DEF excused
<1>9. proc # "closed" => \A i \in committed : i <= lo => i \in searchable' \cup excused' \cup torn'
  BY <1>1, <1>3 DEF Covered, Grows, searchable
<1> HIDE DEF lo, top, n
<1>10. PassInv(t)'
  <2>1. CASE RowsOf(ReadRange(lo, k)) = {} /\ lo + ChunkSize < n
    <3>1. /\ frame'[t] = FreshFrame("chunk", lo + ChunkSize, n) /\ pc'[t] = "head"
      BY <1>5, <2>1 DEF Advance, Goto, IndInv, TypeOK, lo, n
    <3>2. lo + ChunkSize \in 0..MaxId /\ top = lo + ChunkSize
      BY <1>3, <2>1, ConstantsAssumption DEF Smaller
    <3>3. frame'[t].mode = "chunk" /\ frame'[t].cur = top /\ frame'[t].total = n
      BY <1>3, <3>1, <3>2, FreshFrameType
    <3>4. proc # "closed" => \A i \in committed : i <= top => i \in searchable' \cup excused' \cup torn'
      BY <1>3, <1>6, <1>7, <1>8, <1>9, <2>1
    <3> QED BY <1>2, <1>4, <1>7, <2>1, <3>1, <3>2, <3>3, <3>4 DEF PassInv, Reading, Ingesting, Covered
  <2>2. CASE RowsOf(ReadRange(lo, k)) = {} /\ ~(lo + ChunkSize < n)
    <3>1. Return(t)
      BY <1>5, <2>2 DEF Advance, lo, n
    <3> QED BY <3>1, PassAtRest DEF IndInv, TypeOK, Return, Goto, Resting
  <2>3. CASE RowsOf(ReadRange(lo, k)) # {}
    <3>1. pc'[t] = "ingest" /\ frame'[t] = [frame[t] EXCEPT !.recs = ReadRange(lo, k)]
      BY <1>5, <2>3 DEF Goto, IndInv, TypeOK
    <3>2. /\ frame'[t].mode = "chunk" /\ frame'[t].cur = lo /\ frame'[t].hi = top
          /\ frame'[t].total = n /\ frame'[t].recs = ReadRange(lo, k)
      BY <1>3, <3>1 DEF IndInv, TypeOK, Frame, lo, top, n
    <3> DEFINE rows == RowsOf(ReadRange(lo, k))
    <3>0. rows = {i \in committed : lo < i /\ i <= k} /\ k \in Int /\ k <= top
          /\ top \in Int /\ passed' \in Int
      BY <1>2, <1>3, <1>6 DEF Larger
    <3> HIDE DEF rows
    <3>3. \A j \in rows : lo < j /\ j <= passed'
      BY <1>4, <1>7, <3>0
    <3>4. \A i \in committed : lo < i /\ (i <= top \/ \E j \in rows : i <= j) => i \in rows \cup excused'
      BY <1>7, <1>8, <3>0
    <3> QED BY <1>2, <1>3, <1>4, <1>7, <1>9, <3>1, <3>2, <3>3, <3>4
        DEF PassInv, Reading, Ingesting, Covered, rows
  <2> QED BY <2>1, <2>2, <2>3
<1>11. /\ proc # "down" /\ torn' = torn
       /\ \A u \in Threads \ {t} : pc'[u] = pc[u] /\ frame'[u] = frame[u]
  BY OwnStep DEF IndInv, ThreadStep
<1> QED BY <1>1, <1>2, <1>10, <1>11, QuietStep

\* The loop's own steps: the incremental batch holds every row up to its largest key.
LEMMA InvLoop ==
  ASSUME IndInv, TypeOK', Tick \/ LoopExit \/ IncrementalQuery
  PROVE  IndInv'
<1>0. Loop \in Threads
  BY DEF Threads
<1>1. Grows
  BY GrowsLoop DEF IndInv
<1>2. stored' = stored /\ lastSynced' = lastSynced /\ row' = row /\ proc' = proc
  BY DEF Tick, LoopExit, IncrementalQuery, chVars, envVars, stored
<1>3. CASE Return(Loop) \/ LoopExit
  <2>1. PassInv(Loop)'
    BY <1>0, <1>3, PassAtRest DEF IndInv, TypeOK, LoopExit, Return, Goto, Resting
  <2> QED BY <1>0, <1>1, <1>2, <2>1, OwnStep, QuietStep DEF IndInv
<1>4. CASE Tick
  <2>1. frame'[Loop] = FreshFrame("incr", lastSynced, 0) /\ pc'[Loop] = "iquery"
    BY <1>0, <1>4 DEF Tick, Goto, IndInv, TypeOK
  <2>2. lastSynced \in 0..MaxId /\ lastSynced <= passed /\ passed \in 0..MaxId /\ passed' = passed
    BY <1>4 DEF IndInv, TypeOK, HistoryInv, Tick
  <2>3. frame'[Loop].mode = "incr" /\ frame'[Loop].cur = lastSynced
    BY <2>1, <2>2, FreshFrameType, ConstantsAssumption
  <2>4. proc # "closed" => Covered(lastSynced)'
    BY <1>1, <1>2, <2>2, CoveredStable DEF IndInv, CheckpointCovers
  <2>5. PassInv(Loop)'
    BY <1>2, <2>1, <2>2, <2>3, <2>4 DEF PassInv, Reading, Ingesting, Covered
  <2> QED BY <1>0, <1>1, <1>2, <1>4, <2>5, OwnStep, QuietStep DEF IndInv
<1>5. CASE IncrementalQuery /\ ~Return(Loop)
  <2> DEFINE lo == frame[Loop].cur
  <2>1. PICK k \in lo..MaxId :
          /\ Goto(Loop, "ingest")
          /\ \E m \in RowsOf(ReadRange(lo, k)) :
               /\ Top(m, RowsOf(ReadRange(lo, k)))
               /\ frame' = [frame EXCEPT ![Loop].recs = ReadRange(lo, k),
                                         ![Loop].hi = IF PkIsBigint THEN m ELSE 0]
               /\ passed' = Larger(passed, m)
    BY <1>5 DEF IncrementalQuery
  <2>2. PICK m \in RowsOf(ReadRange(lo, k)) :
               /\ Top(m, RowsOf(ReadRange(lo, k)))
               /\ frame' = [frame EXCEPT ![Loop].recs = ReadRange(lo, k),
                                         ![Loop].hi = IF PkIsBigint THEN m ELSE 0]
               /\ passed' = Larger(passed, m)
    BY <2>1
  <2> DEFINE rows == RowsOf(ReadRange(lo, k))
             h    == IF PkIsBigint THEN m ELSE 0
  <2>3. /\ lo \in 0..MaxId /\ pc[Loop] = "iquery" /\ frame[Loop].mode = "incr"
        /\ lo <= passed /\ passed \in 0..MaxId
        /\ proc # "closed" => Covered(lo)
    BY <1>0, <1>5 DEF IndInv, TypeOK, Frame, PassInv, Reading, IncrementalQuery
  <2>4. rows = {i \in committed : lo < i /\ i <= k}
    BY <2>3, ReadRangeRows DEF IndInv, TypeOK
  <2>5. committed' = committed /\ committed \subseteq Int
    BY <1>2, ConstantsAssumption DEF committed, RowsOf, Ids
  <2>6. proc # "closed" => \A i \in committed : i <= lo => i \in searchable' \cup excused' \cup torn'
    BY <1>1, <2>3 DEF Covered, Grows, searchable
  <2>7. m \in Int /\ m <= k /\ \A j \in rows : j <= m
    BY <2>2, <2>4, <2>5 DEF Top
  <2>8. m <= passed' /\ lo <= passed' /\ h <= passed' /\ passed' \in Int
    BY <2>2, <2>3, <2>7 DEF Larger
  <2>9. /\ pc'[Loop] = "ingest" /\ frame'[Loop].mode = "incr" /\ frame'[Loop].cur = lo
        /\ frame'[Loop].recs = ReadRange(lo, k) /\ frame'[Loop].hi = h
    <3> HIDE DEF h
    <3>1. frame'[Loop] = [frame[Loop] EXCEPT !.recs = ReadRange(lo, k), !.hi = h]
      BY <1>0, <2>2 DEF IndInv, TypeOK, h
    <3>2. pc'[Loop] = "ingest"
      BY <1>0, <2>1 DEF Goto, IndInv, TypeOK
    <3> QED BY <1>0, <2>3, <3>1, <3>2 DEF IndInv, TypeOK, Frame
  <2>10. \A j \in rows : lo < j /\ j <= passed'
    <3> SUFFICES ASSUME NEW j \in rows PROVE lo < j /\ j <= passed'
      OBVIOUS
    <3> HIDE DEF rows, h, lo
    <3>1. j \in Int /\ lo < j
      BY <2>4, <2>5
    <3>2. j <= m
      BY <2>7
    <3> QED BY <2>7, <2>8, <3>1, <3>2
  <2>11. \A i \in committed : lo < i /\ (i <= h \/ \E j \in rows : i <= j) => i \in rows \cup excused'
    <3> SUFFICES ASSUME NEW i \in committed, lo < i, i <= h \/ \E j \in rows : i <= j
                 PROVE  i \in rows
      OBVIOUS
    <3>1. i \in Int /\ k \in Int /\ lo \in Int
      BY <2>3, <2>5
    <3>2. i <= m => i <= k
      BY <2>7, <3>1
    <3>3. i <= h => i <= k
      BY <2>3, <2>7, <3>1, <3>2
    <3>4. (\E j \in rows : i <= j) => i <= k
      BY <2>7, <3>1, <2>4, <2>5
    <3> QED BY <2>4, <3>3, <3>4
  <2>12. PassInv(Loop)'
    <3> HIDE DEF rows, h, lo
    <3> QED BY <1>2, <2>5, <2>6, <2>8, <2>9, <2>10, <2>11 DEF PassInv, Reading, Ingesting, Covered, rows
  <2> QED BY <1>0, <1>1, <1>2, <1>5, <2>12, OwnStep, QuietStep DEF IndInv
<1> QED BY <1>3, <1>4, <1>5

\* A goroutine that stays in the ingest loop keeps its bounds and its records, so it
\* still knows what it knew; it must know more only when it has got past a batch.
LEMMA IngestStays ==
  ASSUME IndInv, TypeOK', Grows, NEW t \in Threads,
         pc[t] \in Ingesting, pc'[t] \in Ingesting, proc' = proc,
         frame'[t].mode = frame[t].mode, frame'[t].cur = frame[t].cur,
         frame'[t].hi = frame[t].hi, frame'[t].total = frame[t].total,
         frame'[t].recs = frame[t].recs,
         proc # "closed" /\ pc'[t] \in {"tokens", "stats", "store"} =>
           RowsOf(frame[t].recs) \subseteq stored' \cup lost',
         proc # "closed" /\ pc'[t] \in {"stats", "store"} =>
           RowsOf(frame[t].recs) \subseteq tokens' \cup lost'
  PROVE  PassInv(t)'
<1> DEFINE f == frame[t]
           rows == RowsOf(f.recs)
<1>1. f.cur \in Int /\ f.hi \in Int /\ rows \subseteq Int
  BY ConstantsAssumption DEF IndInv, TypeOK, Frame, RowsOf, Ids
<1>2. passed \in Int /\ passed' \in Int /\ passed <= passed'
  BY DEF IndInv, TypeOK, Grows
<1>3. /\ f.mode = "chunk" => f.cur < f.total /\ f.hi = Smaller(f.cur + ChunkSize, f.total)
      /\ f.cur <= passed' /\ f.hi <= passed'
      /\ \A k \in rows : f.cur < k /\ k <= passed'
  BY <1>1, <1>2 DEF IndInv, PassInv
<1>4. proc # "closed" => Covered(f.cur)'
  <2>1. \A c \in Int : c <= passed /\ Covered(c) =>
          \A i \in committed' : i <= c => i \in searchable' \cup excused' \cup torn'
    <3> SUFFICES ASSUME NEW c \in Int, c <= passed, Covered(c)
                 PROVE  Covered(c)'
      BY DEF Covered
    <3> QED BY CoveredStable DEF IndInv
  <2>2. f.cur <= passed /\ (proc # "closed" => Covered(f.cur))
    BY DEF IndInv, PassInv
  <2> QED BY <1>1, <2>1, <2>2 DEF Covered
<1>5. ASSUME proc # "closed", NEW i \in committed', f.cur < i, i <= f.hi \/ \E k \in rows : i <= k
      PROVE  i \in rows \cup excused'
  <2>1. i \in Int
    BY ConstantsAssumption DEF committed, RowsOf, Ids
  <2>2. CASE i \in committed
    BY <1>5, <2>2 DEF IndInv, PassInv, Grows
  <2>3. CASE i \notin committed
    <3>0. f.hi <= passed /\ \A k \in rows : k <= passed
      BY DEF IndInv, PassInv
    <3>1. i <= passed
      BY <1>1, <1>2, <1>5, <2>1, <3>0
    <3> QED BY <2>3, <3>1 DEF Grows
  <2> QED BY <2>2, <2>3
<1> HIDE DEF f, rows
<1>6. frame'[t].cur = f.cur /\ frame'[t].hi = f.hi /\ frame'[t].mode = f.mode
      /\ frame'[t].total = f.total /\ RowsOf(frame'[t].recs) = rows
  BY DEF f, rows
<1>7. /\ proc # "closed" /\ pc'[t] \in {"tokens", "stats", "store"} => rows \subseteq stored' \cup lost'
      /\ proc # "closed" /\ pc'[t] \in {"stats", "store"} => rows \subseteq tokens' \cup lost'
  BY DEF f, rows
<1>8. proc # "closed" => \A i \in committed' : i <= f.cur => i \in searchable' \cup excused' \cup torn'
  BY <1>4, <1>6 DEF Covered, f
<1> QED BY <1>3, <1>5, <1>6, <1>7, <1>8 DEF PassInv, Reading, Ingesting, Covered

\* A goroutine whose batch is sent stays in the ingest loop with its records, and is
\* past the batch only if the batch took effect or is lost.
LEMMA SendStays ==
  ASSUME IndInv, TypeOK', Grows, NEW t \in Threads,
         SendMain(t) \/ SendTokens(t) \/ SendStats(t)
  PROVE  PassInv(t)'
<1> DEFINE rows == RowsOf(frame[t].recs)
<1>1. pc[t] \in Ingesting /\ proc' = proc /\ frame[t] \in Frame
  BY DEF IndInv, TypeOK, SendMain, SendTokens, SendStats, Ingesting
<1>2. CASE Failed(t)
  <2>1. frame'[t] = [frame[t] EXCEPT !.attempt = frame[t].attempt + 1]
    BY <1>2 DEF Failed, IndInv, TypeOK
  <2>2. pc'[t] \in {"ingest", "dead"}
    BY <1>2 DEF Failed, Goto, IndInv, TypeOK
  <2>3. /\ frame'[t].mode = frame[t].mode /\ frame'[t].cur = frame[t].cur
        /\ frame'[t].hi = frame[t].hi /\ frame'[t].total = frame[t].total
        /\ frame'[t].recs = frame[t].recs
    BY <1>1, <2>1 DEF Frame
  <2> QED BY <1>1, <2>2, <2>3, IngestStays DEF Ingesting
<1>3. CASE ~Failed(t)
  <2>1. frame' = frame /\ proc # "closed"
    BY <1>3 DEF SendMain, SendTokens, SendStats, Outcome
  <2>2. CASE SendMain(t)
    <3>1. pc'[t] = "tokens"
      BY <1>3, <2>2 DEF SendMain, Outcome, Goto, IndInv, TypeOK
    <3>2. idx' = Merge(idx, frame[t].recs) \/ lost' = lost \cup rows
      BY <1>3, <2>2 DEF SendMain, Outcome
    <3>3. rows \subseteq stored' \cup lost'
      BY <1>1, <3>2, MergeRows DEF Frame, IndInv, TypeOK, stored
    <3> QED BY <1>1, <2>1, <3>1, <3>3, IngestStays DEF Ingesting
  <2>3. CASE SendTokens(t)
    <3>1. pc[t] = "tokens" /\ pc'[t] = "stats"
      BY <1>3, <2>3 DEF SendTokens, Outcome, Goto, IndInv, TypeOK
    <3>2. tokens' = tokens \cup rows \/ lost' = lost \cup rows
      BY <1>3, <2>3 DEF SendTokens, Outcome
    <3>3. rows \subseteq stored \cup lost
      BY <2>1, <3>1 DEF IndInv, PassInv
    <3> QED BY <1>1, <2>1, <3>1, <3>2, <3>3, IngestStays DEF Ingesting, Grows
  <2>4. CASE SendStats(t)
    <3>1. pc[t] = "stats" /\ pc'[t] = "store"
      BY <1>3, <2>4 DEF SendStats, Outcome, Goto, IndInv, TypeOK
    <3>2. rows \subseteq stored \cup lost /\ rows \subseteq tokens \cup lost
      BY <2>1, <3>1 DEF IndInv, PassInv
    <3> QED BY <1>1, <2>1, <3>1, <3>2, IngestStays DEF Ingesting, Grows
  <2> QED BY <2>2, <2>3, <2>4
<1> QED BY <1>2, <1>3

\* The three batches: getting past one means its rows are there, or lost.
LEMMA InvSend ==
  ASSUME IndInv, TypeOK', NEW t \in Threads,
         SendMain(t) \/ SendTokens(t) \/ SendStats(t)
  PROVE  IndInv'
<1> DEFINE rows == RowsOf(frame[t].recs)
<1>1. Grows
  BY GrowsThread DEF IndInv, ThreadStep
<1>2. /\ proc' = proc /\ proc # "down" /\ torn' = torn
      /\ \A u \in Threads \ {t} : pc'[u] = pc[u] /\ frame'[u] = frame[u]
  BY OwnStep DEF IndInv, ThreadStep
<1>3. PassInv(t)'
  BY <1>1, SendStays
<1>4. /\ lastSynced' = lastSynced /\ row' = row /\ passed' = passed
      /\ lost \subseteq lost' /\ late' = late /\ skipped' = skipped
  BY DEF SendMain, SendTokens, SendStats, Outcome, envVars
<1>5. CASE stored' = stored
  BY <1>1, <1>2, <1>3, <1>4, <1>5, QuietStep
<1>6. CASE stored' # stored
  <2>1. pc[t] = "main" /\ proc # "closed" /\ idx' = Merge(idx, frame[t].recs)
    BY <1>6 DEF SendMain, SendTokens, SendStats, Outcome, stored
  <2>2. frame[t] \in Frame /\ frame[t].recs \in Content /\ idx \in Content
    BY DEF IndInv, TypeOK, Frame
  <2>3. stored' = stored \cup rows
    BY <2>1, <2>2, MergeRows DEF stored
  <2>4. committed' = committed /\ committed \subseteq Int /\ stored \subseteq Int /\ rows \subseteq Int
    BY <1>4, ConstantsAssumption DEF committed, stored, RowsOf, Ids
  <2>5. /\ \A k \in rows : frame[t].cur < k /\ k <= passed
        /\ Covered(frame[t].cur)
        /\ \A i \in committed :
             frame[t].cur < i /\ (\E k \in rows : i <= k) => i \in rows \cup excused
        /\ frame[t].cur \in Int
    BY <2>1, <2>2 DEF IndInv, PassInv, Reading, Ingesting, Frame
  <2>6. torn \subseteq stored /\ searchable \subseteq stored
    BY DEF IndInv, HistoryInv, searchable
  <2>7. ResumePointCovers'
    <3> HIDE DEF rows
    <3> SUFFICES ASSUME NEW k \in stored', NEW i \in committed', i <= k
                 PROVE  i \in stored' \cup excused'
      BY DEF ResumePointCovers
    <3>1. excused \subseteq excused'
      BY <1>1 DEF Grows
    <3>2. CASE k \in stored
      BY <2>3, <2>4, <3>1, <3>2 DEF IndInv, ResumePointCovers
    <3>3. CASE k \in rows /\ i <= frame[t].cur
      BY <2>3, <2>4, <2>5, <2>6, <3>1, <3>3 DEF Covered
    <3>4. CASE k \in rows /\ ~(i <= frame[t].cur)
      BY <2>3, <2>4, <2>5, <3>1, <3>4
    <3> QED BY <2>3, <3>2, <3>3, <3>4
  <2>8. CheckpointCovers'
    <3>1. lastSynced \in Int /\ lastSynced <= passed
      BY DEF IndInv, TypeOK, HistoryInv
    <3>2. proc # "closed" => Covered(lastSynced)'
      BY <1>1, <1>4, <3>1, CoveredStable DEF IndInv, CheckpointCovers
    <3> QED BY <1>2, <3>2 DEF CheckpointCovers
  <2>9. HistoryInv'
    <3> HIDE DEF rows
    <3> QED BY <1>2, <1>4, <2>3, <2>5 DEF IndInv, HistoryInv
  <2>10. \A u \in Threads \ {t} : PassInv(u)'
    BY <1>1, <1>2, PassStable DEF IndInv
  <2> QED BY <1>3, <2>7, <2>8, <2>9, <2>10 DEF IndInv
<1> QED BY <1>5, <1>6

\* The rest of the ingest loop moves no row and no checkpoint.
LEMMA InvIngest ==
  ASSUME IndInv, TypeOK', NEW t \in Threads, IngestStart(t) \/ DeadLetter(t)
  PROVE  IndInv'
<1>1. Grows
  BY GrowsThread DEF IndInv, ThreadStep
<1>2. /\ proc' = proc /\ proc # "down" /\ torn' = torn
      /\ \A u \in Threads \ {t} : pc'[u] = pc[u] /\ frame'[u] = frame[u]
  BY OwnStep DEF IndInv, ThreadStep
<1>3. stored' = stored /\ lastSynced' = lastSynced
  BY DEF IngestStart, DeadLetter, chVars, stored
<1>4. PassInv(t)'
  <2>1. CASE IngestStart(t)
    <3>1. /\ pc[t] \in Ingesting /\ frame' = frame
          /\ pc'[t] = IF proc = "closed" THEN "store" ELSE "main"
      BY <2>1 DEF IngestStart, Ingesting, Goto, IndInv, TypeOK
    <3> QED BY <1>1, <1>2, <3>1, IngestStays DEF Ingesting
  <2>2. CASE DeadLetter(t)
    BY <2>2, PassAtRest DEF IndInv, TypeOK, DeadLetter, Return, Goto, Resting
  <2> QED BY <2>1, <2>2
<1> QED BY <1>1, <1>2, <1>3, <1>4, QuietStep

\* The checkpoint moves to the end of a range all of whose rows are accounted for.
LEMMA InvStore ==
  ASSUME IndInv, TypeOK', NEW t \in Threads, StoreCheckpoint(t)
  PROVE  IndInv'
<1> DEFINE lo  == frame[t].cur
           top == frame[t].hi
           n   == frame[t].total
           rows == RowsOf(frame[t].recs)
<1>1. Grows
  BY GrowsThread DEF IndInv, ThreadStep
<1>2. /\ proc' = proc /\ proc # "down" /\ torn' = torn
      /\ \A u \in Threads \ {t} : pc'[u] = pc[u] /\ frame'[u] = frame[u]
  BY OwnStep DEF IndInv, ThreadStep
<1>3. /\ lastSynced' = top /\ pc[t] = "store"
      /\ UNCHANGED <<row, idx, tokens, lost, late, skipped, passed>>
  BY DEF StoreCheckpoint, envVars, chVars
<1>4. /\ lo \in 0..MaxId /\ top \in 0..MaxId /\ n \in 0..MaxId
      /\ passed \in 0..MaxId /\ lo <= passed /\ top <= passed
      /\ frame[t].mode = "chunk" => lo < n /\ top = Smaller(lo + ChunkSize, n)
  BY <1>3 DEF IndInv, TypeOK, Frame, PassInv, Ingesting
<1>5. committed \subseteq Int /\ rows \subseteq Int
  BY ConstantsAssumption DEF committed, RowsOf, Ids
<1>6. proc # "closed" => \A i \in committed : i <= top => i \in searchable \cup excused \cup torn
  <2> SUFFICES ASSUME proc # "closed", NEW i \in committed, i <= top
               PROVE  i \in searchable \cup excused \cup torn
    OBVIOUS
  <2>1. /\ Covered(lo)
        /\ lo < i => i \in rows \cup excused
        /\ rows \subseteq stored \cup lost /\ rows \subseteq tokens \cup lost
    BY <1>3 DEF IndInv, PassInv, Ingesting
  <2>2. CASE i <= lo
    BY <2>1, <2>2 DEF Covered
  <2>3. CASE lo < i
    BY <2>1, <2>3 DEF searchable, excused
  <2> QED BY <1>4, <1>5, <2>2, <2>3
<1>7. committed' = committed /\ searchable' = searchable /\ excused' = excused /\ stored' = stored
  BY <1>3 DEF committed, searchable, excused, stored
<1> HIDE DEF lo, top, n, rows
<1>8. CheckpointCovers'
  BY <1>2, <1>3, <1>6, <1>7 DEF CheckpointCovers, Covered
<1>9. ResumePointCovers'
  BY <1>7 DEF IndInv, ResumePointCovers
<1>10. HistoryInv'
  BY <1>2, <1>3, <1>4, <1>7 DEF IndInv, HistoryInv
<1>11. PassInv(t)'
  <2>1. CASE Return(t)
    BY <2>1, PassAtRest DEF IndInv, TypeOK, Return, Goto, Resting
  <2>2. CASE ~Return(t)
    <3>1. /\ lo + ChunkSize < n /\ frame[t].mode = "chunk" /\ pc'[t] = "head"
          /\ frame'[t] = FreshFrame("chunk", lo + ChunkSize, n)
      BY <2>2 DEF StoreCheckpoint, Advance, Goto, IndInv, TypeOK, lo, n
    <3>2. lo + ChunkSize \in 0..MaxId /\ top = lo + ChunkSize
      BY <1>4, <3>1, ConstantsAssumption DEF Smaller
    <3>3. frame'[t].mode = "chunk" /\ frame'[t].cur = top /\ frame'[t].total = n
      BY <1>4, <3>1, <3>2, FreshFrameType
    <3> QED BY <1>2, <1>3, <1>4, <1>6, <1>7, <3>1, <3>2, <3>3 DEF PassInv, Reading, Ingesting, Covered
  <2> QED BY <2>1, <2>2
<1>12. \A u \in Threads \ {t} : PassInv(u)'
  BY <1>1, <1>2, PassStable DEF IndInv
<1> QED BY <1>8, <1>9, <1>10, <1>11, <1>12 DEF IndInv

-----------------------------------------------------------------------------
\* The steps of PostgreSQL and of the process.

\* PostgreSQL's steps: new rows lie above what was read, or are excused.
LEMMA InvEnvironment ==
  ASSUME IndInv, TypeOK', NEW i \in Ids, Commit(i) \/ Update(i) \/ Delete(i)
  PROVE  IndInv'
<1>1. Grows
  BY GrowsEnvironment DEF IndInv
<1>2. UNCHANGED <<proc, lastSynced, pc, frame, idx, tokens, torn, passed>>
  BY DEF Commit, Update, Delete, threadVars, chVars
<1>3. CheckpointCovers'
  <2>1. lastSynced \in Int /\ lastSynced <= passed
    BY DEF IndInv, TypeOK, HistoryInv
  <2>2. proc # "closed" => Covered(lastSynced)'
    BY <1>1, <1>2, <2>1, CoveredStable DEF IndInv, CheckpointCovers
  <2> QED BY <1>2, <2>2 DEF CheckpointCovers
<1>4. ResumePointCovers'
  BY <1>1, <1>2, ResumeStable DEF IndInv, stored
<1>5. HistoryInv'
  BY <1>2 DEF IndInv, HistoryInv, stored
<1>6. \A u \in Threads : PassInv(u)'
  BY <1>1, <1>2, PassStable DEF IndInv
<1> QED BY <1>3, <1>4, <1>5, <1>6 DEF IndInv

\* A start resumes from a covered key.
LEMMA InvStart ==
  ASSUME IndInv, TypeOK', Start
  PROVE  IndInv'
<1>1. UNCHANGED <<row, late, idx, tokens, lost, passed, skipped, torn>> /\ proc = "down"
  BY DEF Start, envVars, chVars
<1>2. /\ committed' = committed /\ stored' = stored /\ searchable' = searchable
      /\ excused' = excused
  BY <1>1 DEF committed, stored, searchable, excused
<1>3. lastSynced' = 0 \/ lastSynced' \in stored
  BY DEF Start, Top
<1>4. CheckpointCovers'
  <2>1. \A i \in committed : i <= lastSynced' => i \in searchable \cup excused \cup torn
    <3>1. CASE lastSynced' = 0
      BY <3>1, ConstantsAssumption DEF committed, RowsOf, Ids
    <3>2. CASE lastSynced' \in stored
      <4>1. stored \subseteq searchable \cup torn
        BY <1>1 DEF IndInv, HistoryInv, searchable
      <4> QED BY <3>2, <4>1 DEF IndInv, ResumePointCovers
    <3> QED BY <1>3, <3>1, <3>2
  <2> QED BY <1>1, <1>2, <2>1 DEF CheckpointCovers, Covered
<1>5. ResumePointCovers'
  BY <1>2 DEF IndInv, ResumePointCovers
<1>6. HistoryInv'
  <2>1. proc' = "running"
    BY DEF Start
  <2> QED BY <1>1, <1>2, <1>3, <2>1 DEF IndInv, HistoryInv, TypeOK
<1>7. \A u \in Threads : PassInv(u)'
  <2>1. \A u \in Threads \ {Loop} : pc'[u] = "idle"
    BY <1>1 DEF Start, Begin, Goto, IndInv, TypeOK, HistoryInv
  <2>2. pc'[Loop] = "max" /\ frame'[Loop].mode = "chunk"
    BY ConstantsAssumption, FreshFrameType
    DEF IndInv, TypeOK, Start, Begin, Goto, EmptyFrame, Threads
  <2> QED BY <2>1, <2>2, PassAtRest
<1> QED BY <1>4, <1>5, <1>6, <1>7 DEF IndInv

\* Stop and the closing of the pool only shorten what has to hold.
LEMMA InvShutdown ==
  ASSUME IndInv, TypeOK', Stop \/ ClosePool
  PROVE  IndInv'
<1>1. /\ UNCHANGED <<row, late, lastSynced, pc, frame, idx, tokens, lost, passed, skipped, torn>>
      /\ proc # "closed" /\ proc' # "down"
  BY DEF Stop, ClosePool, envVars, threadVars, chVars
<1>2. /\ committed' = committed /\ stored' = stored /\ searchable' = searchable
      /\ excused' = excused
  BY <1>1 DEF committed, stored, searchable, excused
<1>3. Grows
  BY GrowsProcess DEF IndInv
<1>4. CheckpointCovers' /\ ResumePointCovers' /\ HistoryInv'
  BY <1>1, <1>2 DEF IndInv, CheckpointCovers, ResumePointCovers, HistoryInv, Covered
<1>5. \A u \in Threads : PassInv(u)'
  BY <1>1, <1>3, PassStable DEF IndInv
<1> QED BY <1>4, <1>5 DEF IndInv

\* A process that ends leaves its half-written rows in torn.
LEMMA InvVanish ==
  ASSUME IndInv, TypeOK', Vanish
  PROVE  IndInv'
<1>1. /\ UNCHANGED <<row, late, idx, tokens, lost, passed, skipped>>
      /\ torn' = torn \cup (stored \ tokens) /\ lastSynced' = 0
      /\ \A u \in Threads : pc'[u] = "idle"
  BY DEF Vanish, envVars, chVars
<1>2. /\ committed' = committed /\ stored' = stored /\ excused' = excused
  BY <1>1 DEF committed, stored, excused
<1>3. CheckpointCovers'
  BY <1>1, ConstantsAssumption DEF CheckpointCovers, Covered, committed, RowsOf, Ids
<1>4. ResumePointCovers'
  BY <1>2 DEF IndInv, ResumePointCovers
<1>5. HistoryInv'
  BY <1>1, <1>2 DEF IndInv, HistoryInv, TypeOK
<1>6. \A u \in Threads : PassInv(u)'
  BY <1>1, PassAtRest
<1> QED BY <1>3, <1>4, <1>5, <1>6 DEF IndInv

-----------------------------------------------------------------------------
\* The invariant holds initially.
LEMMA InvInit == Init => IndInv
<1> SUFFICES ASSUME Init PROVE IndInv
  OBVIOUS
<1>1. stored = {} /\ torn = {} /\ lastSynced = 0 /\ passed = 0 /\ \A t \in Threads : pc[t] = "idle"
  BY EmptyFrameType DEF Init, stored
<1>2. CheckpointCovers
  BY <1>1, ConstantsAssumption DEF CheckpointCovers, Covered, committed, RowsOf, Ids
<1>3. ResumePointCovers /\ HistoryInv
  BY <1>1 DEF ResumePointCovers, HistoryInv
<1>4. \A t \in Threads : PassInv(t)
  BY <1>1 DEF PassInv, Reading, Ingesting
<1> QED BY <1>2, <1>3, <1>4, TypeInit DEF IndInv

\* Every step keeps the invariant.
LEMMA InvNext == IndInv /\ [Next]_vars => IndInv'
<1> SUFFICES ASSUME IndInv, [Next]_vars PROVE IndInv'
  OBVIOUS
<1>1. TypeOK'
  BY TypeNext DEF IndInv
<1>2. CASE Environment
  <2>1. CASE Crash
    BY <1>1, <2>1, InvVanish DEF Crash
  <2> QED BY <1>1, <1>2, <2>1, InvEnvironment, InvStart, InvShutdown DEF Environment
<1>3. CASE ClosePool \/ Exit
  BY <1>1, <1>3, InvShutdown, InvVanish DEF Exit
<1>4. ASSUME NEW t \in Threads, Trigger(t) \/ ThreadStep(t)
      PROVE  IndInv'
  BY <1>1, <1>4, InvRead, InvChunkQuery, InvSend, InvIngest, InvStore DEF ThreadStep
<1>5. CASE LoopStep
  BY <1>1, <1>4, <1>5, InvLoop DEF LoopStep, Threads
<1>6. CASE UNCHANGED vars
  <2>1. UNCHANGED <<row, proc, lastSynced, pc, frame, idx, tokens, lost, passed, skipped, late, torn>>
    BY <1>6 DEF vars, envVars, threadVars, chVars
  <2>2. /\ committed' = committed /\ stored' = stored /\ searchable' = searchable
        /\ excused' = excused
    BY <2>1 DEF committed, stored, searchable, excused
  <2> QED BY <1>1, <2>1, <2>2
      DEF IndInv, CheckpointCovers, ResumePointCovers, HistoryInv, Covered, PassInv
<1> QED BY <1>2, <1>3, <1>4, <1>5, <1>6 DEF Next, Threads

\* The inductive invariant holds of every reachable state.
THEOREM Inductive == Spec => []IndInv
<1> QED BY InvInit, InvNext, PTL DEF Spec

\* For every number of keys, goroutines, retries and disturbances: while the pool is
\* open, every committed row at or below lastSyncedID can be found, or is excused or
\* torn.
THEOREM CheckpointNeverRunsAhead == Spec => []CheckpointCovers
<1>1. IndInv => CheckpointCovers
  BY DEF IndInv
<1> QED BY <1>1, Inductive, PTL

\* For every value of the constants: resuming from the largest stored key, which is
\* what loadCheckpoints does, leaves no unexcused row without its record.
THEOREM ResumingIsSafe == Spec => []ResumePointCovers
<1>1. IndInv => ResumePointCovers
  BY DEF IndInv
<1> QED BY <1>1, Inductive, PTL

-----------------------------------------------------------------------------
\* The refinement: every step of the copy is a step of the abstract feed.

\* What the abstract feed's variables are mapped to: its types, and an honest mark.
FeedInv ==
  /\ committed \subseteq Feed!Keys /\ searchable \subseteq Feed!Keys
  /\ excused \cup torn \subseteq Feed!Keys /\ feedMark \in 0..MaxId
  /\ Feed!Honest(feedMark, committed, searchable, excused \cup torn)

\* They are what the feed expects.
LEMMA FeedTypes == IndInv => FeedInv
<1> SUFFICES ASSUME IndInv PROVE FeedInv
  OBVIOUS
<1>1. feedMark \in 0..MaxId
  BY ConstantsAssumption DEF IndInv, TypeOK, feedMark
<1>2. /\ committed \subseteq Ids /\ searchable \subseteq Ids
      /\ excused \cup torn \subseteq Ids
  BY DEF IndInv, TypeOK, committed, searchable, stored, excused, RowsOf
<1>3. Feed!Honest(feedMark, committed, searchable, excused \cup torn)
  <2>1. CASE proc = "closed"
    BY <1>2, <2>1, ConstantsAssumption DEF Feed!Honest, feedMark, Ids
  <2>2. CASE proc # "closed"
    BY <2>2 DEF IndInv, CheckpointCovers, Covered, Feed!Honest, feedMark
  <2> QED BY <2>1, <2>2
<1> QED BY <1>1, <1>2, <1>3 DEF FeedInv, Ids, Feed!Keys

\* The initial states are initial states of the feed.
LEMMA FeedInitial == Init => Feed!FeedInit
<1> SUFFICES ASSUME Init PROVE Feed!FeedInit
  OBVIOUS
<1>1. searchable = {} /\ excused = {} /\ torn = {} /\ feedMark = 0
  BY EmptyFrameType DEF Init, searchable, stored, excused, feedMark
<1>2. committed \subseteq Ids
  BY DEF committed, RowsOf
<1> QED BY <1>1, <1>2 DEF Feed!FeedInit, Feed!Keys, Ids

\* A commit is an insertion, a deletion a removal, an update nothing.
LEMMA FeedEnvironment ==
  ASSUME IndInv, IndInv', NEW i \in Ids, Commit(i) \/ Update(i) \/ Delete(i)
  PROVE  [Feed!FeedNext]_(Feed!feedVars)
<1>1. UNCHANGED <<proc, lastSynced, idx, tokens, torn, skipped, lost>>
  BY DEF Commit, Update, Delete, chVars
<1>2. searchable' = searchable /\ feedMark' = feedMark
  BY <1>1 DEF searchable, stored, feedMark
<1>3. CASE Commit(i)
  <2>1. committed' = committed \cup {i} /\ i \notin committed
    BY <1>3, ConstantsAssumption DEF Commit, committed, RowsOf, IndInv, TypeOK, Content
  <2>2. late' = late \/ late' = late \cup {i}
    BY <1>3 DEF Commit
  <2>3. (excused \cup torn)' \in {excused \cup torn, (excused \cup torn) \cup {i}}
    BY <1>1, <2>2 DEF excused
  <2>4. FeedInv'
    BY FeedTypes, PTL
  <2>5. i \in Feed!Keys \ committed
    BY <2>1 DEF Ids, Feed!Keys
  <2>6. Feed!Honest(feedMark, committed', searchable, (excused \cup torn)')
    BY <1>2, <2>4 DEF FeedInv
  <2> QED BY <1>2, <2>1, <2>3, <2>5, <2>6 DEF Feed!Insert, Feed!FeedNext
<1>4. CASE Delete(i)
  <2>1. committed' = committed \ {i} /\ i \in committed
    BY <1>4, ConstantsAssumption DEF Delete, committed, RowsOf, IndInv, TypeOK, Content
  <2>2. excused' = excused /\ torn' = torn
    BY <1>1, <1>4 DEF Delete, excused
  <2> QED BY <1>2, <2>1, <2>2 DEF Feed!Remove, Feed!FeedNext
<1>5. CASE Update(i)
  <2>1. committed' = committed
    BY <1>5, ConstantsAssumption DEF Update, committed, RowsOf, IndInv, TypeOK, Content
  <2>2. excused' = excused /\ torn' = torn
    BY <1>1, <1>5 DEF Update, excused
  <2> QED BY <1>2, <2>1, <2>2 DEF Feed!feedVars
<1> QED BY <1>3, <1>4, <1>5

\* The process moves the mark when it starts and forgets it when it stops.
LEMMA FeedProcess ==
  ASSUME IndInv, IndInv', Start \/ Stop \/ ClosePool \/ Exit \/ Crash
  PROVE  [Feed!FeedNext]_(Feed!feedVars)
<1>1. UNCHANGED <<row, late, skipped, idx, tokens, lost>> /\ torn \subseteq torn'
  BY DEF Start, Stop, ClosePool, Exit, Crash, Vanish, chVars, envVars, threadVars
<1>2. committed' = committed /\ searchable' = searchable /\ excused' = excused
  BY <1>1 DEF committed, searchable, stored, excused
<1>0. FeedInv'
  BY FeedTypes, PTL
<1>3. /\ (excused \cup torn)' \subseteq Feed!Keys /\ feedMark' \in 0..MaxId
      /\ Feed!Honest(feedMark', committed', searchable', (excused \cup torn)')
  BY <1>0 DEF FeedInv
<1>4. CASE Start
  <2>1. torn' = torn
    BY <1>4 DEF Start
  <2>2. (excused \cup torn)' = excused \cup torn
    BY <1>2, <2>1
  <2>3. Feed!Honest(feedMark', committed, searchable, excused \cup torn)
    BY <1>2, <1>3, <2>2
  <2> QED BY <1>2, <1>3, <2>2, <2>3 DEF Feed!MoveMark, Feed!FeedNext
<1>5. CASE Stop
  BY <1>2, <1>5 DEF Stop, feedMark, Feed!feedVars
<1>6. CASE ClosePool \/ Exit \/ Crash
  <2>1. feedMark' = 0
    BY <1>6 DEF ClosePool, Exit, Crash, Vanish, feedMark
  <2>2. excused \cup torn \subseteq (excused \cup torn)'
    BY <1>1, <1>2
  <2> QED BY <1>2, <1>3, <2>1, <2>2 DEF Feed!Forget, Feed!FeedNext
<1> QED BY <1>4, <1>5, <1>6

\* A goroutine finds rows, gives rows up, or moves the mark; never two of these at once.
LEMMA FeedThread ==
  ASSUME IndInv, IndInv', NEW t \in Threads,
         \/ Trigger(t) \/ ThreadStep(t)
         \/ t = Loop /\ (Tick \/ LoopExit \/ IncrementalQuery)
  PROVE  [Feed!FeedNext]_(Feed!feedVars)
<1>1. proc' = proc /\ torn' = torn
  BY OwnStep DEF IndInv
<1>2. row' = row /\ late' = late
  BY DEF Trigger, ThreadStep, ReadMax, ReadCheckpoint, ChunkHead, ChunkQuery, IngestStart,
         SendMain, SendTokens, SendStats, DeadLetter, StoreCheckpoint,
         Tick, LoopExit, IncrementalQuery, envVars
<1>3. committed' = committed
  BY <1>2 DEF committed
<1>0. FeedInv'
  BY FeedTypes, PTL
<1>4. Grows
  BY GrowsThread, GrowsLoop DEF IndInv
<1>5. /\ searchable' \subseteq Feed!Keys /\ (excused \cup torn)' \subseteq Feed!Keys
      /\ feedMark' \in 0..MaxId
      /\ Feed!Honest(feedMark', committed', searchable', (excused \cup torn)')
  BY <1>0 DEF FeedInv
<1>6. CASE UNCHANGED <<lastSynced, skipped, lost>>
  <2>1. feedMark' = feedMark /\ (excused \cup torn)' = excused \cup torn
    BY <1>1, <1>2, <1>6 DEF feedMark, excused
  <2>2. searchable \subseteq searchable'
    BY <1>4 DEF Grows, searchable
  <2> QED BY <1>3, <1>5, <2>1, <2>2 DEF Feed!Index, Feed!FeedNext
<1>7. CASE UNCHANGED <<lastSynced, idx, tokens>>
  <2>1. feedMark' = feedMark /\ searchable' = searchable
    BY <1>1, <1>7 DEF feedMark, searchable, stored
  <2>2. excused \cup torn \subseteq (excused \cup torn)'
    BY <1>1, <1>4 DEF Grows
  <2> QED BY <1>3, <1>5, <2>1, <2>2 DEF Feed!GiveUp, Feed!FeedNext
<1>8. CASE UNCHANGED <<idx, tokens, skipped, lost>>
  <2>1. searchable' = searchable /\ (excused \cup torn)' = excused \cup torn
    BY <1>1, <1>2, <1>8 DEF searchable, stored, excused
  <2>2. Feed!Honest(feedMark', committed, searchable, excused \cup torn)
    BY <1>3, <1>5, <2>1
  <2> QED BY <1>3, <1>5, <2>1, <2>2 DEF Feed!MoveMark, Feed!FeedNext
<1>9. \/ UNCHANGED <<lastSynced, skipped, lost>>
      \/ UNCHANGED <<lastSynced, idx, tokens>>
      \/ UNCHANGED <<idx, tokens, skipped, lost>>
  BY DEF Trigger, ThreadStep, ReadMax, ReadCheckpoint, ChunkHead, ChunkQuery, IngestStart,
         SendMain, SendTokens, SendStats, Outcome, DeadLetter, StoreCheckpoint,
         Tick, LoopExit, IncrementalQuery, chVars
<1> QED BY <1>6, <1>7, <1>8, <1>9

\* Every step is a step of the feed or leaves it alone.
LEMMA FeedStep == IndInv /\ IndInv' /\ [Next]_vars => [Feed!FeedNext]_(Feed!feedVars)
<1> SUFFICES ASSUME IndInv, IndInv', [Next]_vars PROVE [Feed!FeedNext]_(Feed!feedVars)
  OBVIOUS
<1>1. CASE Environment
  BY <1>1, FeedEnvironment, FeedProcess DEF Environment
<1>2. CASE ClosePool \/ Exit
  BY <1>2, FeedProcess
<1>3. CASE (\E t \in Triggers : Trigger(t) \/ ThreadStep(t)) \/ LoopStep
  BY <1>3, FeedThread DEF LoopStep, Threads
<1>4. CASE UNCHANGED vars
  BY <1>4 DEF vars, envVars, threadVars, chVars, Feed!feedVars, committed, searchable,
              stored, excused, feedMark
<1> QED BY <1>1, <1>2, <1>3, <1>4 DEF Next

\* For every value of the constants, copying a table implements the abstract feed:
\* whatever the goroutines, failures and restarts, the checkpoint stays honest, and
\* what can be found or was given up is never taken back.
THEOREM CopyImplementsFeed == Spec => ImplementsFeed
<1> QED BY FeedInitial, FeedStep, Inductive, PTL DEF Spec, ImplementsFeed, Feed!FeedSpec

-----------------------------------------------------------------------------
\* The schedule: every step passes over the table in the order TableSchedule allows.

\* A step of a pass of the loop stays in the pass, or ends it and waits.
LEMMA PassGoesOn ==
  ASSUME IndInv, ThreadStep(Loop) \/ IncrementalQuery
  PROVE  /\ proc' = proc /\ pc[Loop] \notin {"idle", "wait"}
         /\ \/ pc'[Loop] = "wait"
            \/ pc'[Loop] \notin {"idle", "wait"} /\ frame'[Loop].mode = frame[Loop].mode
<1> USE DEF TypeOK, Threads, Goto
<1>1. TypeOK /\ Loop \in Threads
  BY DEF IndInv
<1>2. proc' = proc /\ pc[Loop] \notin {"idle", "wait"}
  BY DEF ThreadStep, ReadMax, ReadCheckpoint, ChunkHead, ChunkQuery, IngestStart, SendMain,
         SendTokens, SendStats, DeadLetter, StoreCheckpoint, IncrementalQuery
<1>3. frame[Loop] \in Frame
  BY <1>1
<1>4. Return(Loop) => pc'[Loop] = "wait"
  BY <1>1 DEF Return, Resting
<1>5. frame[Loop].mode = "chunk" /\ Advance(Loop)
        => pc'[Loop] = "wait" \/ (pc'[Loop] = "head" /\ frame'[Loop].mode = frame[Loop].mode)
  BY <1>1, <1>4 DEF Advance, FreshFrame
<1>6. Failed(Loop) => pc'[Loop] \in {"ingest", "dead"} /\ frame'[Loop].mode = frame[Loop].mode
  BY <1>1, <1>3 DEF Failed, Frame
<1>7. pc[Loop] \in {"max", "ckpt", "head", "query"} => frame[Loop].mode = "chunk"
  BY <1>1 DEF IndInv, PassInv
<1>8. CASE ReadMax(Loop) \/ ReadCheckpoint(Loop) \/ ChunkHead(Loop)
  BY <1>1, <1>2, <1>3, <1>4, <1>8 DEF ReadMax, ReadCheckpoint, ChunkHead, Frame
<1>9. CASE ChunkQuery(Loop)
  BY <1>1, <1>2, <1>3, <1>5, <1>7, <1>9 DEF ChunkQuery, Frame
<1>10. CASE SendMain(Loop) \/ SendTokens(Loop) \/ SendStats(Loop)
  BY <1>1, <1>2, <1>6, <1>10 DEF SendMain, SendTokens, SendStats, Outcome
<1>11. CASE IngestStart(Loop) \/ DeadLetter(Loop)
  BY <1>1, <1>2, <1>4, <1>11 DEF IngestStart, DeadLetter
<1>12. CASE StoreCheckpoint(Loop)
  BY <1>1, <1>2, <1>4, <1>5, <1>12 DEF StoreCheckpoint
<1>13. CASE IncrementalQuery
  <2>1. CASE Return(Loop)
    BY <1>2, <1>4, <2>1
  <2>2. CASE ~Return(Loop)
    <3>1. Goto(Loop, "ingest")
      BY <1>13, <2>2 DEF IncrementalQuery
    <3>2. \E c, h : frame' = [frame EXCEPT ![Loop].recs = c, ![Loop].hi = h]
      BY <1>13, <2>2 DEF IncrementalQuery
    <3> QED BY <1>1, <1>2, <1>3, <3>1, <3>2 DEF Frame
  <2> QED BY <2>1, <2>2
<1> QED BY <1>8, <1>9, <1>10, <1>11, <1>12, <1>13 DEF ThreadStep

\* The loop's steps and the steps of the process, mapped to the schedule.
LEMMA ScheduleLoop ==
  ASSUME IndInv, LoopStep \/ Start \/ Stop \/ ClosePool \/ Exit \/ Crash
  PROVE  [Sched!SchedNext]_(Sched!schedVars)
<1> USE DEF Sched!SchedNext, Sched!schedVars, Sched!All, loopPass
<1>1. TypeOK /\ Loop \in Threads /\ frame[Loop].mode \in {"chunk", "incr"}
  BY DEF IndInv, TypeOK, Threads, Frame
<1>2. CASE ThreadStep(Loop) \/ IncrementalQuery
  <2>1. /\ proc' = proc /\ pc[Loop] \notin {"idle", "wait"}
        /\ \/ pc'[Loop] = "wait"
           \/ pc'[Loop] \notin {"idle", "wait"} /\ frame'[Loop].mode = frame[Loop].mode
    BY <1>2, PassGoesOn
  <2>2. CASE pc'[Loop] = "wait" /\ frame[Loop].mode = "chunk"
    <3>1. Sched!EndChunks
      BY <2>1, <2>2 DEF Sched!EndChunks
    <3> QED BY <3>1
  <2>3. CASE pc'[Loop] = "wait" /\ frame[Loop].mode = "incr"
    <3>1. Sched!EndIncremental
      BY <2>1, <2>3 DEF Sched!EndIncremental
    <3> QED BY <3>1
  <2>4. CASE pc'[Loop] # "wait"
    BY <2>1, <2>4
  <2> QED BY <1>1, <2>2, <2>3, <2>4
<1>3. CASE Tick
  <2>1. pc[Loop] = "wait" /\ pc'[Loop] = "iquery" /\ frame'[Loop].mode = "incr" /\ proc' = proc
    BY <1>1, <1>3 DEF Tick, Goto, FreshFrame, TypeOK
  <2>2. Sched!BeginIncremental
    BY <2>1 DEF Sched!BeginIncremental
  <2> QED BY <2>2
<1>4. CASE LoopExit
  <2>1. /\ pc[Loop] = "wait" /\ pc'[Loop] = "idle" /\ proc = "stopping" /\ proc' = proc
    BY <1>1, <1>4 DEF LoopExit, Goto, TypeOK
  <2>2. Sched!Leave
    BY <2>1 DEF Sched!Leave
  <2> QED BY <2>2
<1>5. CASE Start
  <2>1. pc[Loop] = "idle" \/ proc # "down"
    BY <1>1 DEF IndInv, HistoryInv
  <2>2. pc'[Loop] = "max" /\ frame'[Loop].mode = "chunk" /\ proc = "down" /\ proc' = "running"
    BY <1>1, <1>5 DEF Start, Begin, Goto, EmptyFrame, FreshFrame, TypeOK
  <2>3. Sched!Launch
    BY <2>1, <2>2 DEF Sched!Launch
  <2> QED BY <2>3
<1>6. CASE Stop
  <2>1. Sched!Halt
    BY <1>6 DEF Stop, Sched!Halt, threadVars
  <2> QED BY <2>1
<1>7. CASE ClosePool
  <2>1. Sched!Close
    BY <1>7 DEF ClosePool, Sched!Close, threadVars
  <2> QED BY <2>1
<1>8. CASE Exit \/ Crash
  <2>1. proc' = "down" /\ pc'[Loop] = "idle"
    BY <1>1, <1>8 DEF Exit, Crash, Vanish
  <2>2. Sched!Die
    BY <2>1 DEF Sched!Die
  <2> QED BY <2>2
<1> QED BY <1>2, <1>3, <1>4, <1>5, <1>6, <1>7, <1>8 DEF LoopStep

\* PostgreSQL's steps and those of other goroutines leave the loop and the process alone.
LEMMA ScheduleOthers ==
  ASSUME IndInv,
         (\E i \in Ids : Commit(i) \/ Update(i) \/ Delete(i))
           \/ (\E t \in Triggers : Trigger(t) \/ ThreadStep(t))
  PROVE  UNCHANGED Sched!schedVars
<1>1. CASE \E i \in Ids : Commit(i) \/ Update(i) \/ Delete(i)
  BY <1>1 DEF Commit, Update, Delete, threadVars, Sched!schedVars, loopPass
<1>2. ASSUME NEW t \in Triggers, Trigger(t) \/ ThreadStep(t)
      PROVE  UNCHANGED Sched!schedVars
  <2>1. t \in Threads /\ Loop \in Threads \ {t}
    BY ConstantsAssumption DEF Threads
  <2>2. proc' = proc /\ pc'[Loop] = pc[Loop] /\ frame'[Loop] = frame[Loop]
    BY <1>2, <2>1, OwnStep DEF IndInv
  <2> QED BY <2>2 DEF Sched!schedVars, loopPass
<1> QED BY <1>1, <1>2

\* For every value of the constants, the loop's passes over the table follow the
\* schedule: a chunked pass after the start, incremental passes afterwards, and none
\* on a closed pool.
THEOREM CopyImplementsSchedule == Spec => ImplementsSchedule
<1>1. Init => Sched!SchedInit
  BY DEF Init, Sched!SchedInit, Sched!All, loopPass, Threads
<1>2. IndInv /\ [Next]_vars => [Sched!SchedNext]_(Sched!schedVars)
  <2> SUFFICES ASSUME IndInv, [Next]_vars PROVE [Sched!SchedNext]_(Sched!schedVars)
    OBVIOUS
  <2>1. CASE UNCHANGED vars
    BY <2>1 DEF vars, threadVars, Sched!schedVars, loopPass
  <2>2. CASE Next
    BY <2>2, ScheduleLoop, ScheduleOthers DEF Next, Environment
  <2> QED BY <2>1, <2>2
<1> QED BY <1>1, <1>2, Inductive, PTL DEF Spec, ImplementsSchedule, Sched!SchedSpec

-----------------------------------------------------------------------------
\* Rows in hand: what a step does to the range and the records a pass is ingesting.

\* What PostgreSQL and the process do leaves every pass as it is, or ends them all.
LEMMA PassesAside ==
  ASSUME IndInv, Environment \/ ClosePool \/ Exit
  PROVE  \/ UNCHANGED <<pc, frame>>
         \/ \A u \in Threads : pc'[u] \in {"idle", "max"}
<1>1. CASE Start
  <2>1. \A u \in Threads : pc[u] = "idle"
    BY <1>1 DEF Start, IndInv, HistoryInv
  <2>2. \A u \in Threads : pc'[u] \in {"idle", "max"}
    BY <1>1, <2>1 DEF Start, Begin, Goto, IndInv, TypeOK
  <2> QED BY <2>2
<1>2. CASE Exit \/ Crash
  BY <1>2 DEF Exit, Crash, Vanish
<1>3. CASE ClosePool \/ Stop \/ \E i \in Ids : Commit(i) \/ Update(i) \/ Delete(i)
  BY <1>3 DEF ClosePool, Commit, Update, Delete, Stop, threadVars
<1> QED BY <1>1, <1>2, <1>3 DEF Environment

\* A step of a goroutine: of a pass that calls TriggerTableSync, or of the loop.
Moves(t) == \/ Trigger(t) \/ ThreadStep(t)
            \/ t = Loop /\ (Tick \/ LoopExit \/ IncrementalQuery)

\* A step that ends in the ingest loop keeps the bounds and the records in hand, unless
\* it has just read them.
LEMMA InHand ==
  ASSUME TypeOK, NEW t \in Threads, Moves(t), pc'[t] \in Ingesting
  PROVE  \/ ChunkQuery(t)
         \/ t = Loop /\ IncrementalQuery
         \/ /\ pc[t] \in Ingesting
            /\ frame'[t].cur = frame[t].cur /\ frame'[t].hi = frame[t].hi
            /\ frame'[t].recs = frame[t].recs
<1> SUFFICES ASSUME ~ChunkQuery(t), ~(t = Loop /\ IncrementalQuery)
             PROVE  /\ pc[t] \in Ingesting
                    /\ frame'[t].cur = frame[t].cur /\ frame'[t].hi = frame[t].hi
                    /\ frame'[t].recs = frame[t].recs
  OBVIOUS
<1> USE DEF TypeOK, Goto, Ingesting
<1>1. frame[t] \in Frame
  OBVIOUS
<1>2. Return(t) => pc'[t] \in {"idle", "wait"}
  BY DEF Return, Resting
<1>3. Advance(t) => pc'[t] \in {"idle", "wait", "head"}
  BY <1>2 DEF Advance
<1>4. Failed(t) => /\ frame'[t].cur = frame[t].cur /\ frame'[t].hi = frame[t].hi
                   /\ frame'[t].recs = frame[t].recs
  BY <1>1 DEF Failed, Frame
<1>5. CASE SendMain(t) \/ SendTokens(t) \/ SendStats(t)
  BY <1>1, <1>4, <1>5 DEF SendMain, SendTokens, SendStats, Outcome
<1>6. CASE IngestStart(t)
  BY <1>6 DEF IngestStart
<1>7. CASE DeadLetter(t) \/ StoreCheckpoint(t)
  BY <1>2, <1>3, <1>7 DEF DeadLetter, StoreCheckpoint
<1>8. CASE Trigger(t) \/ ReadMax(t) \/ ReadCheckpoint(t) \/ ChunkHead(t)
  BY <1>2, <1>8 DEF Trigger, Begin, ReadMax, ReadCheckpoint, ChunkHead
<1>9. CASE t = Loop /\ (Tick \/ LoopExit)
  BY <1>9 DEF Tick, LoopExit
<1> QED BY <1>5, <1>6, <1>7, <1>8, <1>9 DEF Moves, ThreadStep

\* A pass leaves the ingest loop by recording a dead letter or by moving the checkpoint.
LEMMA LeavesHand ==
  ASSUME TypeOK, NEW t \in Threads, Moves(t), pc[t] \in Ingesting, pc'[t] \notin Ingesting
  PROVE  DeadLetter(t) \/ StoreCheckpoint(t)
<1> USE DEF TypeOK, Goto, Ingesting
<1>1. CASE SendMain(t) \/ SendTokens(t) \/ SendStats(t) \/ IngestStart(t)
  BY <1>1 DEF SendMain, SendTokens, SendStats, Outcome, Failed, IngestStart
<1>2. CASE \/ Trigger(t) \/ ReadMax(t) \/ ReadCheckpoint(t) \/ ChunkHead(t) \/ ChunkQuery(t)
           \/ t = Loop /\ (Tick \/ LoopExit \/ IncrementalQuery)
  BY <1>2 DEF Trigger, ReadMax, ReadCheckpoint, ChunkHead, ChunkQuery, Tick, LoopExit,
              IncrementalQuery
<1> QED BY <1>1, <1>2 DEF Moves, ThreadStep

\* What has just been read lies between the bounds of the pass.
LEMMA RangeRead ==
  ASSUME IndInv, PkIsBigint, NEW t \in Threads,
         ChunkQuery(t) \/ (t = Loop /\ IncrementalQuery), pc'[t] \in Ingesting
  PROVE  /\ frame'[t].cur = frame[t].cur /\ frame'[t].cur < frame'[t].hi
         /\ \A k \in RowsOf(frame'[t].recs) : frame'[t].cur < k /\ k <= frame'[t].hi
<1> DEFINE lo == frame[t].cur
<1>1. frame[t] \in Frame /\ lo \in 0..MaxId /\ frame[t].hi \in 0..MaxId
  BY DEF IndInv, TypeOK, Frame
<1>2. ~Return(t) /\ ~Advance(t)
  BY DEF Return, Advance, Resting, Goto, Ingesting, IndInv, TypeOK
<1>3. CASE ChunkQuery(t)
  <2>1. PICK k \in lo..frame[t].hi : frame' = [frame EXCEPT ![t].recs = ReadRange(lo, k)]
    BY <1>2, <1>3 DEF ChunkQuery
  <2>2. /\ frame'[t].cur = lo /\ frame'[t].hi = frame[t].hi
        /\ frame'[t].recs = ReadRange(lo, k)
    BY <1>1, <2>1 DEF IndInv, TypeOK, Frame
  <2>3. RowsOf(ReadRange(lo, k)) = {i \in committed : lo < i /\ i <= k} /\ committed \subseteq Int
    BY <1>1, ReadRangeRows, ConstantsAssumption DEF IndInv, TypeOK, committed, RowsOf, Ids
  <2>4. lo < frame[t].hi
    <3>1. lo < frame[t].total /\ frame[t].hi = Smaller(lo + ChunkSize, frame[t].total)
      BY <1>3 DEF ChunkQuery, IndInv, PassInv
    <3> QED BY <1>1, <3>1, ConstantsAssumption DEF Smaller, Frame
  <2>5. k \in Int /\ k <= frame[t].hi
    BY <1>1, <2>1
  <2>6. \A j \in RowsOf(frame'[t].recs) : j \in Int /\ lo < j /\ j <= k
    BY <2>2, <2>3
  <2>7. \A j \in RowsOf(frame'[t].recs) : lo < j /\ j <= frame[t].hi
    <3> HIDE DEF lo
    <3> QED BY <1>1, <2>5, <2>6
  <2> QED BY <2>2, <2>4, <2>7
<1>4. CASE t = Loop /\ IncrementalQuery
  <2>0. PICK k \in lo..MaxId : \E m \in RowsOf(ReadRange(lo, k)) :
          /\ Top(m, RowsOf(ReadRange(lo, k)))
          /\ frame' = [frame EXCEPT ![t].recs = ReadRange(lo, k),
                                    ![t].hi = IF PkIsBigint THEN m ELSE 0]
    BY <1>2, <1>4 DEF IncrementalQuery
  <2>1. PICK m \in RowsOf(ReadRange(lo, k)) :
          /\ Top(m, RowsOf(ReadRange(lo, k)))
          /\ frame' = [frame EXCEPT ![t].recs = ReadRange(lo, k),
                                    ![t].hi = IF PkIsBigint THEN m ELSE 0]
    BY <2>0
  <2>2. /\ frame'[t].cur = lo /\ frame'[t].hi = m /\ frame'[t].recs = ReadRange(lo, k)
    BY <1>1, <2>1 DEF IndInv, TypeOK, Frame
  <2>3. RowsOf(ReadRange(lo, k)) = {i \in committed : lo < i /\ i <= k}
    BY <1>1, ReadRangeRows DEF IndInv, TypeOK
  <2>4. lo < m /\ \A j \in RowsOf(frame'[t].recs) : lo < j /\ j <= m
    BY <2>1, <2>2, <2>3 DEF Top
  <2> QED BY <2>2, <2>4
<1> QED BY <1>3, <1>4

\* Every step is PostgreSQL's or the process's, or some goroutine's.
LEMMA StepKinds ==
  ASSUME [Next]_vars
  PROVE  \/ Environment \/ ClosePool \/ Exit \/ UNCHANGED vars
         \/ \E t \in Threads : Moves(t)
BY DEF Next, LoopStep, Moves, Threads

\* The rows in hand stay within the bounds of their pass.
LEMMA RangeNext ==
  ASSUME IndInv, PkIsBigint, RangeInv, [Next]_vars
  PROVE  RangeInv'
<1>1. CASE Environment \/ ClosePool \/ Exit \/ UNCHANGED vars
  <2>1. UNCHANGED <<pc, frame>> \/ \A u \in Threads : pc'[u] \in {"idle", "max"}
    BY <1>1, PassesAside DEF vars, threadVars
  <2> QED BY <2>1 DEF RangeInv, Ingesting
<1>2. ASSUME NEW t \in Threads, Moves(t)
      PROVE  RangeInv'
  <2>1. \A u \in Threads \ {t} : pc'[u] = pc[u] /\ frame'[u] = frame[u]
    BY <1>2, OwnStep DEF IndInv, Moves
  <2>2. pc'[t] \in Ingesting =>
          /\ frame'[t].cur < frame'[t].hi
          /\ \A k \in RowsOf(frame'[t].recs) : frame'[t].cur < k /\ k <= frame'[t].hi
    BY <1>2, InHand, RangeRead DEF IndInv, RangeInv
  <2> QED BY <2>1, <2>2 DEF RangeInv
<1> QED BY <1>1, <1>2, StepKinds

\* Initially nothing is in hand.
LEMMA RangeInit == Init => RangeInv
BY DEF Init, RangeInv, Ingesting

-----------------------------------------------------------------------------
\* Reports of gaps.

\* A report stays.
LEMMA ReportedStays ==
  ASSUME [Next]_vars, NEW i, Reported(i)
  PROVE  Reported(i)'
<1>1. dead \subseteq dead'
  BY DEF Next, Environment, LoopStep, ThreadStep, Commit, Update, Delete, Start, Stop, Crash,
         Exit, Vanish, ClosePool, Trigger, ReadMax, ReadCheckpoint, ChunkHead, ChunkQuery,
         IngestStart, SendMain, SendTokens, SendStats, DeadLetter, StoreCheckpoint, Tick,
         LoopExit, IncrementalQuery, vars, chVars
<1> QED BY <1>1 DEF Reported

\* A goroutine that gives up rows without tokens reports them.
LEMMA ReportMoves ==
  ASSUME IndInv, RangeInv, ReportInv, "deadletter" \notin Disturbances,
         [Next]_vars, NEW t \in Threads, Moves(t)
  PROVE  ReportInv'
<1> DEFINE InSomeHand(i) == \E u \in Threads : pc[u] \in Ingesting /\ i \in RowsOf(frame[u].recs)
<1>1. /\ proc' = proc /\ torn' = torn
      /\ \A u \in Threads \ {t} : pc'[u] = pc[u] /\ frame'[u] = frame[u]
  BY OwnStep DEF IndInv, Moves
<1>2. Grows
  BY GrowsThread, GrowsLoop DEF IndInv, Moves
<1> SUFFICES ASSUME proc \in {"running", "stopping"},
                    NEW i \in stored' \ (tokens' \cup torn' \cup lost')
             PROVE  Reported(i)' \/ InSomeHand(i)'
  BY <1>1 DEF ReportInv
<1>3. CASE i \in stored
  <2>1. Reported(i) \/ InSomeHand(i)
    BY <1>2, <1>3 DEF ReportInv, Grows
  <2>2. CASE Reported(i)
    BY <2>2, ReportedStays
  <2>3. CASE \E u \in Threads \ {t} : pc[u] \in Ingesting /\ i \in RowsOf(frame[u].recs)
    BY <1>1, <2>3
  <2>4. CASE pc[t] \in Ingesting /\ i \in RowsOf(frame[t].recs)
    <3>1. CASE pc'[t] \in Ingesting
      <4>1. frame'[t].recs = frame[t].recs
        BY <2>4, <3>1, InHand DEF IndInv, ChunkQuery, IncrementalQuery, Ingesting
      <4> QED BY <2>4, <3>1, <4>1
    <3>2. CASE DeadLetter(t)
      <4>1. <<frame[t].cur, frame[t].hi>> \in dead'
        BY <3>2 DEF DeadLetter, Disturb
      <4>2. frame[t].cur < i /\ i <= frame[t].hi
        BY <2>4 DEF RangeInv
      <4> QED BY <4>1, <4>2 DEF Reported
    <3>3. CASE StoreCheckpoint(t)
      <4>1. RowsOf(frame[t].recs) \subseteq tokens \cup lost
        BY <3>3 DEF StoreCheckpoint, IndInv, PassInv
      <4> QED BY <1>2, <2>4, <4>1 DEF Grows
    <3> QED BY <2>4, <3>1, <3>2, <3>3, LeavesHand DEF IndInv
  <2> QED BY <2>1, <2>2, <2>3, <2>4
<1>4. CASE i \notin stored
  <2>1. SendMain(t) /\ idx' = Merge(idx, frame[t].recs)
    BY <1>4 DEF Moves, ThreadStep, Trigger, ReadMax, ReadCheckpoint, ChunkHead, ChunkQuery,
           IngestStart, SendMain, SendTokens, SendStats, Outcome, DeadLetter, StoreCheckpoint,
           Tick, LoopExit, IncrementalQuery, chVars, stored
  <2>2. i \in RowsOf(frame[t].recs)
    BY <1>4, <2>1, MergeRows DEF IndInv, TypeOK, Frame, stored
  <2>3. pc[t] = "main" /\ pc'[t] \in Ingesting
    BY <2>1 DEF SendMain, Outcome, Failed, Goto, Ingesting, IndInv, TypeOK
  <2>4. frame'[t].recs = frame[t].recs
    BY <2>3, InHand DEF IndInv, ChunkQuery, IncrementalQuery
  <2> QED BY <2>2, <2>3, <2>4
<1> QED BY <1>3, <1>4

\* PostgreSQL's steps and those of the process report nothing and hide nothing.
LEMMA ReportAside ==
  ASSUME IndInv, ReportInv, Environment \/ ClosePool \/ Exit \/ UNCHANGED vars
  PROVE  ReportInv'
<1>1. UNCHANGED <<idx, tokens, lost, dead>>
  BY DEF Environment, Commit, Update, Delete, Start, Stop, Crash, Exit, Vanish, ClosePool,
         vars, chVars
<1>2. CASE Start
  <2>1. stored \ tokens \subseteq torn /\ torn' = torn
    BY <1>2 DEF Start, IndInv, HistoryInv
  <2> QED BY <1>1, <2>1 DEF ReportInv, stored
<1>3. CASE ClosePool \/ Exit \/ Crash
  BY <1>3 DEF ClosePool, Exit, Crash, Vanish, ReportInv
<1>4. CASE (\E i \in Ids : Commit(i) \/ Update(i) \/ Delete(i)) \/ Stop \/ UNCHANGED vars
  <2>1. UNCHANGED <<pc, frame, torn>> /\ (proc' = proc \/ Stop)
    BY <1>4 DEF Commit, Update, Delete, Stop, vars, threadVars
  <2>2. proc' \in {"running", "stopping"} => proc \in {"running", "stopping"}
    BY <2>1 DEF Stop
  <2> QED BY <1>1, <2>1, <2>2 DEF ReportInv, Reported, stored
<1> QED BY <1>2, <1>3, <1>4 DEF Environment

\* For every number of keys, goroutines and retries, when the key decodes to an int64 and
\* InsertDeadLetter does not fail: whenever no pass is running, a row with a record and no
\* tokens lies in a range of search_index_errors, unless it is torn or lost.
THEOREM GapsAlwaysReported ==
  ASSUME PkIsBigint, "deadletter" \notin Disturbances
  PROVE  Spec => []GapsAreReported
<1> DEFINE I == IndInv /\ RangeInv /\ ReportInv
<1>1. Init => I
  <2>1. Init => ReportInv
    BY DEF Init, ReportInv
  <2> QED BY <2>1, InvInit, RangeInit
<1>2. I /\ [Next]_vars => I'
  <2> SUFFICES ASSUME I, [Next]_vars PROVE I'
    OBVIOUS
  <2>1. ReportInv'
    BY StepKinds, ReportMoves, ReportAside
  <2> QED BY <2>1, InvNext, RangeNext
<1>3. I => GapsAreReported
  <2> SUFFICES ASSUME ReportInv, atRest PROVE GapsAreReported
    BY DEF GapsAreReported
  <2>1. \A t \in Threads : pc[t] \notin Ingesting
    BY DEF atRest, Ingesting
  <2> QED BY <2>1 DEF atRest, ReportInv, GapsAreReported
<1> QED BY <1>1, <1>2, <1>3, PTL DEF Spec

-----------------------------------------------------------------------------
\* A table that only the loop copies.

\* The invariants of a table that only the loop copies hold initially.
LEMMA LoopInit == Init => LoopAhead /\ CountInv /\ lost = {}
<1> SUFFICES ASSUME Init PROVE LoopAhead /\ CountInv
  BY DEF Init
<1>1. LoopAhead
  BY DEF Init, LoopAhead, Reading, Ingesting, Threads
<1>2. CountInv
  BY DEF Init, CountInv, NoRows
<1> QED BY <1>1, <1>2

\* Only a checkpoint, a start or an end of the process moves lastSyncedID.
LEMMA MarkStays ==
  ASSUME NEW t \in Threads, Moves(t), ~StoreCheckpoint(t)
  PROVE  lastSynced' = lastSynced
BY DEF Moves, Trigger, ThreadStep, ReadMax, ReadCheckpoint, ChunkHead, ChunkQuery,
       IngestStart, SendMain, SendTokens, SendStats, DeadLetter, Tick, LoopExit,
       IncrementalQuery

\* A pass that comes to read does so at the checkpoint, or above where it was.
LEMMA ReadsAhead ==
  ASSUME IndInv, NEW t \in Threads, Moves(t), ~StoreCheckpoint(t), pc'[t] \in Reading
  PROVE  \/ frame'[t].cur = lastSynced
         \/ pc[t] \in Reading /\ frame[t].cur <= frame'[t].cur
<1> USE DEF Goto, Reading
<1>1. TypeOK /\ frame[t] \in Frame /\ frame[t].cur \in 0..MaxId /\ frame[t].total \in 0..MaxId
  BY DEF IndInv, TypeOK, Frame
<1>2. ~Return(t)
  BY <1>1 DEF Return, Resting, TypeOK
<1>3. CASE ReadCheckpoint(t)
  BY <1>1, <1>2, <1>3 DEF ReadCheckpoint, TypeOK, Frame
<1>4. CASE ChunkHead(t)
  BY <1>1, <1>2, <1>4 DEF ChunkHead, TypeOK, Frame
<1>5. CASE ChunkQuery(t)
  <2>1. frame'[t] = FreshFrame("chunk", frame[t].cur + ChunkSize, frame[t].total)
    BY <1>1, <1>2, <1>5 DEF ChunkQuery, Advance, TypeOK
  <2>2. frame'[t].cur = frame[t].cur + ChunkSize
    BY <2>1 DEF FreshFrame
  <2> QED BY <1>1, <1>5, <2>2, ConstantsAssumption DEF ChunkQuery
<1>6. CASE t = Loop /\ Tick
  BY <1>1, <1>6 DEF Tick, FreshFrame, TypeOK
<1>7. CASE Trigger(t) \/ ReadMax(t) \/ IngestStart(t) \/ DeadLetter(t)
  BY <1>1, <1>2, <1>7 DEF Trigger, Begin, ReadMax, IngestStart, DeadLetter, TypeOK
<1>8. CASE SendMain(t) \/ SendTokens(t) \/ SendStats(t)
  BY <1>1, <1>8 DEF SendMain, SendTokens, SendStats, Outcome, Failed, TypeOK
<1>9. CASE t = Loop /\ (LoopExit \/ IncrementalQuery)
  BY <1>1, <1>2, <1>9 DEF LoopExit, IncrementalQuery, TypeOK
<1> QED BY <1>3, <1>4, <1>5, <1>6, <1>7, <1>8, <1>9 DEF Moves, ThreadStep

\* The loop's pass stays ahead of the checkpoint, which therefore only moves up.
LEMMA AheadMoves ==
  ASSUME IndInv, TypeOK', PkIsBigint, RangeInv, LoopAhead, Moves(Loop)
  PROVE  LoopAhead' /\ lastSynced <= lastSynced'
<1> DEFINE lo == frame[Loop].cur
<1>0. Loop \in Threads
  BY DEF Threads
<1>1. /\ frame[Loop] \in Frame /\ lo \in Int /\ lastSynced \in Int
      /\ frame'[Loop].cur \in Int /\ frame[Loop].hi \in Int /\ frame[Loop].total \in Int
  BY <1>0 DEF IndInv, TypeOK, Frame
<1>2. CASE StoreCheckpoint(Loop)
  <2>1. pc[Loop] = "store" /\ lastSynced' = frame[Loop].hi
    BY <1>2 DEF StoreCheckpoint
  <2>2. lastSynced <= lo /\ lo < frame[Loop].hi
    BY <1>0, <2>1 DEF LoopAhead, RangeInv, Ingesting
  <2>3. CASE Return(Loop)
    <3>1. pc'[Loop] \in {"idle", "wait"}
      BY <1>0, <2>3 DEF Return, Resting, Goto, IndInv, TypeOK
    <3> QED BY <1>1, <2>1, <2>2, <3>1 DEF LoopAhead, Reading, Ingesting
  <2>4. CASE ~Return(Loop)
    <3>1. /\ frame[Loop].mode = "chunk" /\ lo + ChunkSize < frame[Loop].total
          /\ frame'[Loop] = FreshFrame("chunk", lo + ChunkSize, frame[Loop].total)
      BY <1>0, <1>2, <2>4 DEF StoreCheckpoint, Advance, IndInv, TypeOK
    <3>2. frame'[Loop].cur = lo + ChunkSize
      BY <3>1 DEF FreshFrame
    <3>3. frame[Loop].hi = lo + ChunkSize
      <4>1. frame[Loop].hi = Smaller(lo + ChunkSize, frame[Loop].total)
        BY <1>0, <2>1, <3>1 DEF IndInv, PassInv, Ingesting
      <4> QED BY <1>1, <3>1, <4>1, ConstantsAssumption DEF Smaller
    <3> QED BY <1>1, <2>1, <2>2, <3>2, <3>3 DEF LoopAhead
  <2> QED BY <2>3, <2>4
<1>3. CASE ~StoreCheckpoint(Loop)
  <2>1. lastSynced' = lastSynced
    BY <1>0, <1>3, MarkStays
  <2>2. CASE pc'[Loop] \in Reading
    BY <1>0, <1>1, <1>3, <2>1, <2>2, ReadsAhead DEF LoopAhead
  <2>3. CASE pc'[Loop] \in Ingesting
    <3>1. frame'[Loop].cur = lo /\ pc[Loop] \in Reading \cup Ingesting
      BY <1>0, <2>3, InHand, RangeRead DEF IndInv, ChunkQuery, IncrementalQuery, Reading
    <3> QED BY <1>1, <2>1, <3>1 DEF LoopAhead
  <2>4. CASE pc'[Loop] \notin Reading \cup Ingesting
    BY <1>1, <2>1, <2>4 DEF LoopAhead
  <2> QED BY <1>1, <2>1, <2>2, <2>3, <2>4
<1> QED BY <1>2, <1>3

\* So it does whatever PostgreSQL and the process do, until the process ends.
LEMMA AheadNext ==
  ASSUME IndInv, TypeOK', Triggers = {}, PkIsBigint, RangeInv, LoopAhead, [Next]_vars
  PROVE  LoopAhead' /\ (proc # "down" /\ proc' # "down" => lastSynced <= lastSynced')
<1>0. Loop \in Threads /\ Threads = {Loop} /\ lastSynced \in Int
  BY DEF Threads, IndInv, TypeOK
<1>1. CASE Environment \/ ClosePool \/ Exit \/ UNCHANGED vars
  <2>1. CASE Start \/ Exit \/ Crash
    <3>1. proc = "down" \/ proc' = "down"
      BY <2>1 DEF Start, Exit, Crash, Vanish
    <3>2. pc'[Loop] \in {"idle", "max"}
      BY <1>0, <2>1 DEF Start, Begin, Goto, Exit, Crash, Vanish, IndInv, TypeOK
    <3> QED BY <3>1, <3>2 DEF LoopAhead, Reading, Ingesting
  <2>2. CASE ~(Start \/ Exit \/ Crash)
    <3>1. UNCHANGED <<pc, frame, lastSynced>>
      BY <1>1, <2>2 DEF Environment, Commit, Update, Delete, Stop, ClosePool, vars, threadVars
    <3> QED BY <1>0, <3>1 DEF LoopAhead
  <2> QED BY <2>1, <2>2
<1>2. CASE Moves(Loop)
  BY <1>2, AheadMoves
<1> QED BY <1>0, <1>1, <1>2, StepKinds

\* For every table that only the loop copies and whose key decodes to an int64: within one
\* process lastSyncedID never moves back.
THEOREM CheckpointOnlyMovesUp ==
  ASSUME PkIsBigint, Triggers = {}
  PROVE  Spec => CheckpointMonotone
<1> DEFINE I == IndInv /\ RangeInv /\ LoopAhead
<1>1. Init => I
  BY InvInit, RangeInit, LoopInit
<1>2. I /\ [Next]_vars =>
        I' /\ (proc # "down" /\ proc' # "down" => lastSynced <= lastSynced')
  BY InvNext, TypeNext, RangeNext, AheadNext DEF IndInv
<1>3. I /\ I' /\ [Next]_vars =>
        [proc # "down" /\ proc' # "down" => lastSynced' >= lastSynced]_vars
  <2> SUFFICES ASSUME I, I', [Next]_vars, proc # "down", proc' # "down"
               PROVE  lastSynced' >= lastSynced
    OBVIOUS
  <2>1. lastSynced <= lastSynced' /\ lastSynced \in Int /\ lastSynced' \in Int
    BY <1>2 DEF IndInv, TypeOK
  <2> QED BY <2>1
<1> QED BY <1>1, <1>2, <1>3, PTL DEF Spec, CheckpointMonotone

-----------------------------------------------------------------------------
\* Statistics.

\* An acknowledged batch is not dropped.
LEMMA NothingLost ==
  ASSUME "ackloss" \notin Disturbances, lost = {}, [Next]_vars
  PROVE  lost' = {}
BY DEF Next, Environment, LoopStep, ThreadStep, Commit, Update, Delete, Start, Stop, Crash,
       Exit, Vanish, ClosePool, Trigger, ReadMax, ReadCheckpoint, ChunkHead, ChunkQuery,
       IngestStart, SendMain, SendTokens, SendStats, Outcome, Disturb, DeadLetter,
       StoreCheckpoint, Tick, LoopExit, IncrementalQuery, vars, chVars

\* A counted row lies below the checkpoint of the next process too.
LEMMA CountAside ==
  ASSUME IndInv, CountInv, SoftDeleted = {}, "resume" \notin Disturbances,
         Environment \/ ClosePool \/ Exit \/ UNCHANGED vars
  PROVE  CountInv'
<1>1. UNCHANGED <<stats, idx>>
  BY DEF Environment, Commit, Update, Delete, Start, Stop, Crash, Exit, Vanish, ClosePool,
         vars, chVars
<1>2. stored' = stored
  BY <1>1 DEF stored
<1>3. CASE Start
  <2>1. \A i \in stored : i <= lastSynced'
    BY <1>3 DEF Start, Disturb, Top
  <2> QED BY <1>1, <1>2, <2>1 DEF CountInv
<1>4. CASE Exit \/ Crash
  <2>1. proc' = "down"
    BY <1>4 DEF Exit, Crash, Vanish
  <2> QED BY <1>1, <1>2, <2>1 DEF CountInv
<1>5. CASE (\E i \in Ids : Commit(i) \/ Update(i) \/ Delete(i)) \/ Stop \/ ClosePool \/ UNCHANGED vars
  <2>1. UNCHANGED <<pc, frame, lastSynced>> /\ (proc' # "down" => proc # "down")
    BY <1>5 DEF Commit, Update, Delete, Stop, ClosePool, vars, threadVars
  <2> QED BY <1>1, <1>2, <2>1 DEF CountInv
<1> QED BY <1>3, <1>4, <1>5 DEF Environment

\* The statistics batch counts rows above the checkpoint, which nobody has counted yet.
LEMMA CountSend ==
  ASSUME IndInv, PkIsBigint, RangeInv, LoopAhead, CountInv, lost = {},
         "ackloss" \notin Disturbances, "ambiguous" \notin Disturbances, SendStats(Loop)
  PROVE  CountInv'
<1> DEFINE rows == RowsOf(frame[Loop].recs)
<1>0. Loop \in Threads
  BY DEF Threads
<1>1. /\ pc[Loop] = "stats" /\ UNCHANGED <<proc, lastSynced, idx>>
      /\ stored' = stored /\ frame[Loop].cur \in Int /\ frame[Loop].hi \in Int
      /\ lastSynced \in Int
  BY <1>0 DEF SendStats, IndInv, TypeOK, Frame, stored
<1>2. lastSynced <= frame[Loop].cur /\ \A k \in rows : frame[Loop].cur < k /\ k <= frame[Loop].hi
  BY <1>0, <1>1 DEF LoopAhead, RangeInv, Ingesting
<1>3. CASE UNCHANGED stats
  BY <1>1, <1>3 DEF CountInv, IndInv, TypeOK, HistoryInv
<1>4. CASE ~UNCHANGED stats
  <2>1. /\ proc # "closed" /\ stats' = Count(stats, rows)
        /\ pc'[Loop] = "store" /\ frame' = frame
    BY <1>0, <1>4 DEF SendStats, Outcome, Disturb, Goto, IndInv, TypeOK
  <2>2. rows \subseteq stored /\ proc # "down"
    BY <1>0, <1>1, <2>1 DEF IndInv, PassInv, HistoryInv
  <2> SUFFICES ASSUME NEW i \in Ids, stats'[i] > 0
               PROVE  /\ stats'[i] = 1 /\ i \in stored'
                      /\ i <= lastSynced' \/ (pc'[Loop] = "store" /\ i <= frame'[Loop].hi)
    BY DEF CountInv
  <2>3. CASE i \in rows
    <3>1. stats[i] \in 0..StatsCap /\ i \in Int
      BY ConstantsAssumption DEF IndInv, TypeOK, Ids
    <3>2. ~(stats[i] > 0)
      BY <1>1, <1>2, <2>2, <2>3, <3>1 DEF CountInv
    <3>3. stats'[i] = 1
      BY <2>1, <2>3, <3>1, <3>2, ConstantsAssumption DEF Count, Smaller
    <3> QED BY <1>1, <1>2, <2>1, <2>2, <2>3, <3>3
  <2>4. CASE i \notin rows
    <3>1. stats'[i] = stats[i]
      BY <2>1, <2>4 DEF Count
    <3> QED BY <1>1, <2>2, <2>4, <3>1 DEF CountInv
  <2> QED BY <2>3, <2>4
<1> QED BY <1>3, <1>4

\* Every other step of the loop counts nothing; the checkpoint moves up to what was counted.
LEMMA CountMoves ==
  ASSUME IndInv, TypeOK', PkIsBigint, RangeInv, LoopAhead, CountInv, Moves(Loop), ~SendStats(Loop)
  PROVE  CountInv'
<1>0. Loop \in Threads
  BY DEF Threads
<1>1. stats' = stats
  BY DEF Moves, Trigger, ThreadStep, ReadMax, ReadCheckpoint, ChunkHead, ChunkQuery,
         IngestStart, SendMain, SendTokens, DeadLetter, StoreCheckpoint, Tick, LoopExit,
         IncrementalQuery, chVars
<1>2. stored \subseteq stored' /\ proc' = proc /\ proc # "down"
  BY <1>0, GrowsThread, GrowsLoop, OwnStep DEF Grows, Moves, IndInv
<1>3. /\ lastSynced \in Int /\ lastSynced' \in Int /\ lastSynced <= lastSynced'
      /\ Ids \subseteq Int
  <2>1. lastSynced <= lastSynced'
    BY AheadMoves
  <2> QED BY <2>1, ConstantsAssumption DEF IndInv, TypeOK, Ids
<1>4. pc[Loop] = "store" => lastSynced' = frame[Loop].hi
  BY DEF Moves, Trigger, ThreadStep, ReadMax, ReadCheckpoint, ChunkHead, ChunkQuery,
         IngestStart, SendMain, SendTokens, DeadLetter, StoreCheckpoint, Tick, LoopExit,
         IncrementalQuery
<1> SUFFICES ASSUME NEW i \in Ids, stats[i] > 0
             PROVE  stats[i] = 1 /\ i \in stored' /\ i <= lastSynced'
  BY <1>1 DEF CountInv
<1>5. stats[i] = 1 /\ i \in stored /\ (i <= lastSynced \/ (pc[Loop] = "store" /\ i <= frame[Loop].hi))
  BY <1>2 DEF CountInv
<1> QED BY <1>2, <1>3, <1>4, <1>5

\* For every table that only the loop copies and whose key decodes to an int64, when no row is
\* soft-deleted, every process finds its checkpoint, and an acknowledged batch takes effect
\* and a refused one does not: whatever fails or dies, no row is counted twice.
THEOREM StatsNeverCountedTwice ==
  ASSUME PkIsBigint, Triggers = {}, SoftDeleted = {},
         Disturbances \cap {"resume", "ackloss", "ambiguous"} = {}
  PROVE  Spec => []StatsCountedOnce
<1> DEFINE I == IndInv /\ RangeInv /\ LoopAhead /\ CountInv /\ lost = {}
<1>0. "resume" \notin Disturbances /\ "ackloss" \notin Disturbances /\ "ambiguous" \notin Disturbances
  OBVIOUS
<1>1. Init => I
  BY InvInit, RangeInit, LoopInit
<1>2. I /\ [Next]_vars => I'
  <2> SUFFICES ASSUME I, [Next]_vars PROVE I'
    OBVIOUS
  <2>1. IndInv' /\ TypeOK' /\ RangeInv' /\ LoopAhead' /\ lost' = {}
    BY <1>0, InvNext, TypeNext, RangeNext, AheadNext, NothingLost DEF IndInv
  <2>2. CountInv'
    <3>1. CASE Environment \/ ClosePool \/ Exit \/ UNCHANGED vars
      BY <1>0, <3>1, CountAside
    <3>2. CASE Moves(Loop)
      BY <1>0, <2>1, <3>2, CountSend, CountMoves
    <3> QED BY <3>1, <3>2, StepKinds DEF Threads
  <2> QED BY <2>1, <2>2
<1>3. I => StatsCountedOnce
  BY DEF IndInv, TypeOK, CountInv, StatsCountedOnce
<1> QED BY <1>1, <1>2, <1>3, PTL DEF Spec

=============================================================================

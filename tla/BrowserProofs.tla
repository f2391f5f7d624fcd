--------------------------- MODULE BrowserProofs ---------------------------
(***************************************************************************)
(* TableBrowser for any tables, pages, clicks, requests and failures:      *)
(* types, and SteadyWalk.                                                  *)
(*                                                                         *)
(* The argument.  As long as nothing untoward happens, at most one request *)
(* is under way that will write what a table shows, and it is a step of    *)
(* the current table's: its answer finds the globals as they were when it  *)
(* was sent.  The cursor it carries leads to the page that currentPage     *)
(* names, and cursorHistory holds the cursors of the pages from the second *)
(* one to that one.                                                        *)
(***************************************************************************)
EXTENDS TableBrowser, SequenceTheorems, TLAPS

\* The cursors in circulation: there is a page behind each of them.
Given == {None} \cup {c \in Cursor : c # None /\ c[2] < Pages[c[1]]}

IsCall(c) ==
  /\ c.kind \in {"tables", "health", "cdc", "schema", "stats", "first", "records", "search", "global"}
  /\ c.kind \in {"schema", "first", "records", "search"} => c.table \in Tables
  /\ c.kind = "stats" => c.table \in Tables \cup {None}
  /\ c.kind \in {"first", "records"} => c.arg \in Given
  /\ c.kind = "global" => c.arg \in Terms

IsRow(r) == \/ \E t \in Tables : \E k \in 1..Pages[t] : r = Row("page", t, k)
            \/ \E t \in Tables : r = Row("search", t, 0)
            \/ r \in {Blank, NoRecords}

WalkTypes ==
  /\ currentTable \in Tables \cup {None} /\ currentCursor \in Given
  /\ cursorHistory \in Seq(Given) /\ currentPage = Len(cursorHistory) + 1
  /\ isSearchMode \in BOOLEAN
SchemaTypes == tableSchema \in Tables \cup {None, Broken} /\ header \in Tables \cup {None}
BodyTypes   == IsRow(rows) /\ prevOn \in BOOLEAN /\ nextOn \in BOOLEAN
PageTypes   == listed \in BOOLEAN /\ badges \subseteq {"redis", "clickhouse", "cdc"}
GlobalTypes == view \in {"table", "global"} /\ globalBox \in {"nothing", "searching", "failed"} \cup Terms
CallTypes   == IsABag(calls) /\ \A c \in DOMAIN calls : IsCall(c)
BoundTypes  == clicks \in 0..MaxClicks /\ failures \in 0..MaxFailures /\ disturbed \in BOOLEAN

Types == WalkTypes /\ SchemaTypes /\ BodyTypes /\ PageTypes /\ GlobalTypes /\ CallTypes /\ BoundTypes

\* The cursor that leads to page p of table t.
LeadsTo(t, p) == IF p = 1 THEN None ELSE <<t, p - 1>>

Described(t) == tableSchema = t /\ header = t

\* currentCursor when page p is shown: the last page leaves it alone.
CursorAt(t, p) == IF p < Pages[t] THEN <<t, p>> ELSE LeadsTo(t, p)

Shows(t) == IF isSearchMode
            THEN rows = Row("search", t, 0) /\ ~prevOn /\ ~nextOn
            ELSE /\ rows = Row("page", t, currentPage)
                 /\ prevOn = (currentPage > 1) /\ nextOn = (currentPage < Pages[t])

AtRest(t) == ~DataPending /\ Described(t) /\ Shows(t) /\ currentCursor = CursorAt(t, currentPage)

\* Request c is the only one that will write what the table shows, and what it finds.
UnderWay(t, c) ==
  /\ PendingOf(DataKinds) = {c} /\ calls[c] = 1 /\ c.table = t
  /\ c.kind \in {"schema", "stats"} => currentPage = 1
  /\ c.kind # "search" => ~isSearchMode /\ currentCursor = LeadsTo(t, currentPage)
  /\ c.kind # "schema" => Described(t)
  /\ c.kind \in {"first", "records"} => c.arg = LeadsTo(t, currentPage)
  /\ c.kind = "search" => currentCursor = CursorAt(t, currentPage)

InOrder(t) == currentPage <= Pages[t] /\ \A i \in 1..Len(cursorHistory) : cursorHistory[i] = <<t, i>>

Walk == (currentTable # None /\ ~disturbed) =>
  /\ InOrder(currentTable)
  /\ AtRest(currentTable) \/ \E c \in DOMAIN calls : UnderWay(currentTable, c)

IInv == Types /\ Walk

-----------------------------------------------------------------------------
(***************************************************************************)
(* Cursors and pages.                                                      *)
(***************************************************************************)
LEMMA NoneIsNoTable == None \notin Tables /\ Broken \notin Tables /\ None # Broken
  BY BrowserAssumption

LEMMA GivenMeans ==
  /\ None \in Given
  /\ \A t \in Tables : \A k \in 1..Pages[t] : <<t, k>> # None /\ (k < Pages[t] => <<t, k>> \in Given)
  /\ \A c \in Given \ {None} : c[1] \in Tables /\ c[2] \in Nat /\ c[2] + 1 \in 1..Pages[c[1]]
<1>1. \A t \in Tables : Pages[t] \in Nat \ {0}
  BY BrowserAssumption
<1>2. \A t \in Tables : \A k \in 1..Pages[t] : <<t, k>> # None
  BY BrowserAssumption
<1> DEFINE Of(t) == {<<t, k>> : k \in 1..Pages[t]}
           All   == UNION {Of(t) : t \in Tables}
<1>3. Cursor = All \cup {None}
  BY DEF Cursor
<1>4. ASSUME NEW t \in Tables, NEW k \in 1..Pages[t] PROVE <<t, k>> \in Cursor
  <2>1. <<t, k>> \in Of(t)
    OBVIOUS
  <2> HIDE DEF Of
  <2>2. <<t, k>> \in All
    BY <2>1
  <2> HIDE DEF All
  <2> QED BY <1>3, <2>2
<1>5. ASSUME NEW c \in Given \ {None}
      PROVE  c[1] \in Tables /\ c[2] \in Nat /\ c[2] + 1 \in 1..Pages[c[1]]
  <2>1. c \in Cursor /\ c[2] < Pages[c[1]]
    BY <1>5 DEF Given
  <2>2. PICK t \in Tables : \E k \in 1..Pages[t] : c = <<t, k>>
    <3> HIDE DEF All
    <3>1. c \in All
      BY <1>3, <1>5, <2>1
    <3>2. PICK t \in Tables : c \in Of(t)
      <4> HIDE DEF Of
      <4> QED BY <3>1 DEF All
    <3> QED BY <3>2
  <2>3. PICK k \in 1..Pages[t] : c = <<t, k>>
    BY <2>2
  <2> QED BY <1>1, <2>1, <2>3
<1> QED BY <1>1, <1>2, <1>3, <1>4, <1>5 DEF Given

LEMMA NextCursorMeans ==
  ASSUME NEW t \in Tables, NEW k \in 1..Pages[t]
  PROVE  /\ NextCursor(t, k) \in Given
         /\ (NextCursor(t, k) # None) = (k < Pages[t])
         /\ (IF NextCursor(t, k) # None THEN NextCursor(t, k) ELSE LeadsTo(t, k)) = CursorAt(t, k)
  BY GivenMeans DEF NextCursor, CursorAt, LeadsTo

LEMMA LeadsToMeans ==
  ASSUME NEW t \in Tables, NEW p \in 1..Pages[t]
  PROVE  LeadsTo(t, p) \in Given /\ Answers(t, LeadsTo(t, p)) = {p}
<1>1. Pages[t] \in Nat \ {0}
  BY BrowserAssumption
<1>2. CASE p = 1
  BY <1>2, GivenMeans DEF LeadsTo, Answers
<1>3. CASE p # 1
  <2>1. p - 1 \in 1..Pages[t] /\ p - 1 < Pages[t]
    BY <1>1, <1>3
  <2>2. LeadsTo(t, p) = <<t, p - 1>> /\ <<t, p - 1>> \in Given \ {None}
    BY <1>3, <2>1, GivenMeans DEF LeadsTo
  <2> QED BY <1>1, <2>2 DEF Answers
<1> QED BY <1>2, <1>3

LEMMA AnswersMean ==
  ASSUME NEW t \in Tables, NEW c \in Given
  PROVE  Answers(t, c) \subseteq 0..Pages[t]
<1>1. Pages[t] \in Nat \ {0}
  BY BrowserAssumption
<1> QED BY <1>1, GivenMeans DEF Answers

-----------------------------------------------------------------------------
(***************************************************************************)
(* Requests.                                                               *)
(***************************************************************************)
\* The requests that write what a table shows are the same as before.
SameData == /\ PendingOf(DataKinds)' = PendingOf(DataKinds)
            /\ \A d \in PendingOf(DataKinds) : calls'[d] = calls[d]

LEMMA SendMeans ==
  ASSUME CallTypes, NEW c, IsCall(c), Send(c)
  PROVE  /\ CallTypes'
         /\ c.kind \notin DataKinds => SameData
         /\ c.kind \in DataKinds /\ ~DataPending => PendingOf(DataKinds)' = {c} /\ calls'[c] = 1
<1>1. /\ IsABag(calls') /\ DOMAIN calls' = DOMAIN calls \cup {c}
      /\ c \notin DOMAIN calls => calls'[c] = 1
      /\ \A d \in DOMAIN calls \ {c} : calls'[d] = calls[d]
  BY DEF CallTypes, Send, IsABag, SetToBag, (+)
<1> QED BY <1>1 DEF CallTypes, SameData, PendingOf, DataPending, IsCall

LEMMA FinishMeans ==
  ASSUME CallTypes, NEW c \in DOMAIN calls, Finish(c)
  PROVE  /\ CallTypes'
         /\ c.kind \notin DataKinds => SameData
         /\ PendingOf(DataKinds) = {c} /\ calls[c] = 1 => ~DataPending'
<1>1. /\ IsABag(calls') /\ DOMAIN calls' = {d \in DOMAIN calls : d # c \/ calls[c] > 1}
      /\ \A d \in DOMAIN calls' \ {c} : calls'[d] = calls[d]
  BY DEF CallTypes, Finish, IsABag, SetToBag, (-)
<1> QED BY <1>1 DEF CallTypes, SameData, PendingOf, DataPending, IsCall

LEMMA ContinueMeans ==
  ASSUME CallTypes, NEW c \in DOMAIN calls, NEW n, IsCall(n), Continue(c, n)
  PROVE  /\ CallTypes'
         /\ {c.kind, n.kind} \cap DataKinds = {} => SameData
         /\ PendingOf(DataKinds) = {c} /\ calls[c] = 1 /\ n.kind \in DataKinds /\ n # c
              => PendingOf(DataKinds)' = {n} /\ calls'[n] = 1
<1>1. PICK b : b = calls (-) SetToBag({c})
  OBVIOUS
<1>2. /\ IsABag(b) /\ DOMAIN b = {d \in DOMAIN calls : d # c \/ calls[c] > 1}
      /\ \A d \in DOMAIN b \ {c} : b[d] = calls[d]
  BY <1>1 DEF CallTypes, IsABag, SetToBag, (-)
<1>3. calls' = b (+) SetToBag({n})
  BY <1>1 DEF Continue
<1>4. /\ IsABag(calls') /\ DOMAIN calls' = DOMAIN b \cup {n}
      /\ n \notin DOMAIN b => calls'[n] = 1
      /\ \A d \in DOMAIN b \ {n} : calls'[d] = b[d]
  BY <1>2, <1>3 DEF IsABag, SetToBag, (+)
<1>5. CallTypes'
  BY <1>2, <1>4 DEF CallTypes, IsCall
<1>6. ASSUME {c.kind, n.kind} \cap DataKinds = {} PROVE SameData
  BY <1>2, <1>4, <1>6 DEF SameData, PendingOf
<1>7. ASSUME PendingOf(DataKinds) = {c}, calls[c] = 1, n.kind \in DataKinds, n # c
      PROVE  PendingOf(DataKinds)' = {n} /\ calls'[n] = 1
  BY <1>2, <1>4, <1>7 DEF PendingOf
<1> QED BY <1>5, <1>6, <1>7

\* What does not touch a table's requests leaves its walk in order.
LEMMA WalkStays ==
  ASSUME Walk, SameData, UNCHANGED <<walkVars, schemaVars, bodyVars>>, disturbed => disturbed'
  PROVE  Walk'
<1>1. SUFFICES ASSUME currentTable # None, ~disturbed
               PROVE  /\ InOrder(currentTable)'
                      /\ AtRest(currentTable)' \/ \E c \in DOMAIN calls' : UnderWay(currentTable, c)'
  BY DEF Walk, walkVars
<1>2. UNCHANGED <<currentTable, currentCursor, cursorHistory, currentPage, isSearchMode,
                  tableSchema, header, rows, prevOn, nextOn>>
  BY DEF walkVars, schemaVars, bodyVars
<1>3. InOrder(currentTable)'
  BY <1>1, <1>2 DEF Walk, InOrder
<1>4. CASE AtRest(currentTable)
  <2>1. ~DataPending'
    BY <1>4 DEF AtRest, SameData, DataPending
  <2>2. Described(currentTable)' /\ currentCursor' = CursorAt(currentTable, currentPage)'
    BY <1>2, <1>4 DEF AtRest, Described, CursorAt, LeadsTo
  <2>3. Shows(currentTable)'
    BY <1>2, <1>4 DEF AtRest, Shows
  <2> QED BY <1>3, <2>1, <2>2, <2>3 DEF AtRest
<1>5. ASSUME NEW c \in DOMAIN calls, UnderWay(currentTable, c)
      PROVE  c \in DOMAIN calls' /\ UnderWay(currentTable, c)'
  <2>1. PendingOf(DataKinds)' = {c} /\ calls'[c] = 1
    BY <1>5 DEF UnderWay, SameData
  <2>2. c \in DOMAIN calls'
    BY <2>1 DEF PendingOf
  <2> QED BY <1>2, <1>5, <2>1, <2>2 DEF UnderWay, Described
<1> QED BY <1>1, <1>3, <1>4, <1>5 DEF Walk

-----------------------------------------------------------------------------
(***************************************************************************)
(* The user's clicks.                                                      *)
(***************************************************************************)
LEMMA NoHistory == <<>> \in Seq(Given) /\ Len(<<>>) = 0
  BY EmptySeq

LEMMA InitHolds == Init => IInv
<1>1. SUFFICES ASSUME Init PROVE IInv
  OBVIOUS
<1>2. PICK c : c = Call("tables", None, None)
  OBVIOUS
<1>3. calls = SetToBag({c}) /\ IsCall(c)
  BY <1>1, <1>2 DEF Init, Call, IsCall
<1>4. CallTypes
  BY <1>3 DEF CallTypes, IsABag, SetToBag
<1>5. WalkTypes
  <2>1. cursorHistory = <<>> /\ currentPage = 1 /\ currentTable = None /\ currentCursor = None
        /\ isSearchMode \in BOOLEAN
    BY <1>1 DEF Init
  <2>2. cursorHistory \in Seq(Given) /\ Len(cursorHistory) = 0
    BY <2>1, NoHistory
  <2> QED BY <2>1, <2>2, GivenMeans DEF WalkTypes
<1>6. SchemaTypes /\ BodyTypes /\ PageTypes /\ GlobalTypes
  BY <1>1 DEF Init, SchemaTypes, BodyTypes, PageTypes, GlobalTypes, IsRow
<1>7. BoundTypes
  <2>1. MaxClicks \in Nat /\ MaxFailures \in Nat
    BY BrowserAssumption
  <2>2. clicks = 0 /\ failures = 0 /\ disturbed \in BOOLEAN
    BY <1>1 DEF Init
  <2> QED BY <2>1, <2>2 DEF BoundTypes
<1>8. Walk
  BY <1>1 DEF Init, Walk
<1> QED BY <1>4, <1>5, <1>6, <1>7, <1>8 DEF IInv, Types

LEMMA ClickMeans ==
  ASSUME BoundTypes, Click, disturbed' \in BOOLEAN
  PROVE  BoundTypes'
  BY BrowserAssumption DEF BoundTypes, Click

\* A click that sends request c of the table shown, when nothing else is under way.
LEMMA SentIsUnderWay ==
  ASSUME CallTypes, NEW c, IsCall(c), c.kind \in DataKinds, Send(c), ~DataPending, currentTable' # None,
         c.table = currentTable', InOrder(currentTable)',
         c.kind \in {"schema", "stats"} => currentPage' = 1,
         c.kind # "search" => ~isSearchMode' /\ currentCursor' = LeadsTo(currentTable, currentPage)',
         c.kind # "schema" => Described(currentTable)',
         c.kind \in {"first", "records"} => c.arg = LeadsTo(currentTable, currentPage)',
         c.kind = "search" => currentCursor' = CursorAt(currentTable, currentPage)'
  PROVE  Walk'
<1>1. PendingOf(DataKinds)' = {c} /\ calls'[c] = 1
  BY SendMeans
<1>2. c \in DOMAIN calls'
  BY <1>1 DEF PendingOf
<1>3. UnderWay(currentTable, c)'
  BY <1>1 DEF UnderWay
<1> QED BY <1>2, <1>3 DEF Walk

LEMMA SelectTableHolds ==
  ASSUME IInv, NEW t \in Tables \cup {None}, SelectTable(t)
  PROVE  IInv'
<1>1. /\ currentTable' = t /\ view' = "table" /\ Click
      /\ UNCHANGED <<tableSchema, header, rows, prevOn, nextOn, listed, badges, globalBox>>
  BY DEF SelectTable, schemaVars, bodyVars, pageVars
<1>2. SchemaTypes' /\ BodyTypes' /\ PageTypes' /\ GlobalTypes'
  BY <1>1 DEF IInv, Types, SchemaTypes, BodyTypes, PageTypes, GlobalTypes
<1>3. BoundTypes'
  <2>1. disturbed' \in BOOLEAN
    BY DEF SelectTable, Disturb, DataPending, IInv, Types, BoundTypes
  <2> QED BY <1>1, <2>1, ClickMeans DEF IInv, Types
<1>4. CASE t = None
  <2>1. UNCHANGED <<currentCursor, cursorHistory, currentPage, isSearchMode, calls>>
    BY <1>4 DEF SelectTable
  <2>2. WalkTypes' /\ CallTypes'
    BY <1>1, <1>4, <2>1 DEF IInv, Types, WalkTypes, CallTypes
  <2>3. Walk'
    BY <1>1, <1>4 DEF Walk
  <2> QED BY <1>2, <1>3, <2>2, <2>3 DEF IInv, Types
<1>5. CASE t # None
  <2>1. /\ t \in Tables /\ disturbed' = DataPending /\ cursorHistory' = <<>> /\ currentCursor' = None
        /\ currentPage' = 1 /\ isSearchMode' = FALSE /\ Send(Call("schema", t, None))
    BY <1>5 DEF SelectTable
  <2>2. PICK c : c = Call("schema", t, None)
    OBVIOUS
  <2>3. IsCall(c) /\ c.kind = "schema" /\ c.table = t /\ c.kind \in DataKinds /\ Send(c)
    BY <2>1, <2>2 DEF Call, IsCall, DataKinds
  <2>4. CallTypes'
    BY <2>3, SendMeans DEF IInv, Types
  <2>5. WalkTypes'
    <3>1. cursorHistory' \in Seq(Given) /\ Len(cursorHistory') = 0 /\ isSearchMode' \in BOOLEAN
      BY <2>1, NoHistory
    <3> QED BY <1>1, <2>1, <3>1, GivenMeans DEF WalkTypes
  <2>6. Walk'
    <3>1. SUFFICES ASSUME ~disturbed' PROVE Walk'
      BY DEF Walk
    <3>2. InOrder(currentTable)'
      <4>1. Pages[t] \in Nat \ {0} /\ Len(<<>>) = 0 /\ \A i \in 1..0 : FALSE
        BY <2>1, BrowserAssumption, EmptySeq
      <4> QED BY <1>1, <2>1, <4>1 DEF InOrder
    <3>3. currentCursor' = LeadsTo(currentTable, currentPage)'
      BY <2>1 DEF LeadsTo
    <3> QED BY <1>1, <1>5, <2>1, <2>3, <3>1, <3>2, <3>3, SentIsUnderWay DEF IInv, Types
  <2> QED BY <1>2, <1>3, <2>4, <2>5, <2>6 DEF IInv, Types
<1> QED BY <1>4, <1>5

\* What a click on the table shown finds, when nothing untoward has happened.
LEMMA RestMeans ==
  ASSUME IInv, currentTable # None, ~disturbed, ~DataPending
  PROVE  /\ currentTable \in Tables /\ InOrder(currentTable) /\ AtRest(currentTable)
         /\ currentPage \in 1..Pages[currentTable] /\ Pages[currentTable] \in Nat \ {0}
<1>1. currentTable \in Tables /\ cursorHistory \in Seq(Given) /\ currentPage = Len(cursorHistory) + 1
  BY DEF IInv, Types, WalkTypes
<1>2. InOrder(currentTable) /\ (AtRest(currentTable) \/ \E c \in DOMAIN calls : UnderWay(currentTable, c))
  BY DEF IInv, Walk
<1>3. AtRest(currentTable)
  BY <1>2 DEF UnderWay, DataPending
<1>4. Len(cursorHistory) \in Nat /\ Pages[currentTable] \in Nat \ {0}
  BY <1>1, LenProperties, BrowserAssumption
<1> QED BY <1>1, <1>2, <1>3, <1>4 DEF InOrder

LEMMA NextPageHolds == ASSUME IInv, NextPage PROVE IInv'
<1>1. /\ nextOn /\ ~isSearchMode /\ Click /\ Disturb(FALSE)
      /\ cursorHistory' = Append(cursorHistory, currentCursor) /\ currentPage' = currentPage + 1
      /\ LoadRecords("records", currentTable, currentCursor)
      /\ UNCHANGED <<currentTable, currentCursor, isSearchMode, tableSchema, header, rows, prevOn, nextOn,
                     listed, badges, view, globalBox>>
  BY DEF NextPage, schemaVars, bodyVars, pageVars, globalVars
<1>2. SchemaTypes' /\ BodyTypes' /\ PageTypes' /\ GlobalTypes'
  BY <1>1 DEF IInv, Types, SchemaTypes, BodyTypes, PageTypes, GlobalTypes
<1>3. BoundTypes'
  BY <1>1, ClickMeans DEF IInv, Types, BoundTypes, Disturb, DataPending
<1>4. /\ cursorHistory \in Seq(Given) /\ currentCursor \in Given /\ Len(cursorHistory) \in Nat
      /\ cursorHistory' \in Seq(Given) /\ Len(cursorHistory') = Len(cursorHistory) + 1
      /\ \A i \in 1..Len(cursorHistory) : cursorHistory'[i] = cursorHistory[i]
      /\ cursorHistory'[Len(cursorHistory) + 1] = currentCursor
  BY <1>1, AppendProperties, LenProperties DEF IInv, Types, WalkTypes
<1>5. WalkTypes'
  BY <1>1, <1>4 DEF IInv, Types, WalkTypes
<1>6. CASE currentTable = None
  <2>1. CallTypes'
    BY <1>1, <1>6 DEF LoadRecords, IInv, Types, CallTypes
  <2>2. Walk'
    BY <1>1, <1>6 DEF Walk
  <2> QED BY <1>2, <1>3, <1>5, <2>1, <2>2 DEF IInv, Types
<1>7. CASE currentTable # None
  <2>1. PICK c : c = Call("records", currentTable, currentCursor)
    OBVIOUS
  <2>2. /\ IsCall(c) /\ c.kind = "records" /\ c.table = currentTable /\ c.arg = currentCursor
        /\ c.kind \in DataKinds /\ Send(c)
    BY <1>1, <1>4, <1>7, <2>1 DEF Call, IsCall, DataKinds, LoadRecords, IInv, Types, WalkTypes
  <2>3. CallTypes'
    BY <2>2, SendMeans DEF IInv, Types
  <2>4. Walk'
    <3>1. SUFFICES ASSUME ~disturbed' PROVE Walk'
      BY DEF Walk
    <3>2. ~disturbed /\ ~DataPending
      BY <1>1, <3>1 DEF Disturb
    <3>3. /\ currentTable \in Tables /\ InOrder(currentTable) /\ AtRest(currentTable)
          /\ currentPage \in 1..Pages[currentTable] /\ Pages[currentTable] \in Nat \ {0}
      BY <1>7, <3>2, RestMeans
    <3>4. /\ currentPage < Pages[currentTable] /\ currentCursor = <<currentTable, currentPage>>
          /\ Described(currentTable)
      BY <1>1, <3>3 DEF AtRest, Shows, CursorAt
    <3>5. InOrder(currentTable)'
      <4>1. currentPage = Len(cursorHistory) + 1
        BY DEF IInv, Types, WalkTypes
      <4>2. \A i \in 1..(Len(cursorHistory) + 1) : i \in 1..Len(cursorHistory) \/ i = Len(cursorHistory) + 1
        BY <1>4
      <4> QED BY <1>1, <1>4, <3>3, <3>4, <4>1, <4>2 DEF InOrder
    <3>6. currentCursor' = LeadsTo(currentTable, currentPage)'
      BY <1>1, <3>3, <3>4 DEF LeadsTo
    <3>7. Described(currentTable)'
      BY <1>1, <3>4 DEF Described
    <3> QED BY <1>1, <1>7, <2>2, <3>2, <3>5, <3>6, <3>7, SentIsUnderWay DEF IInv, Types
  <2> QED BY <1>2, <1>3, <1>5, <2>3, <2>4 DEF IInv, Types
<1> QED BY <1>6, <1>7

LEMMA PrevPageHolds == ASSUME IInv, PrevPage PROVE IInv'
<1> DEFINE popped == SubSeq(cursorHistory, 1, Len(cursorHistory) - 1)
           top    == IF popped = <<>> THEN None ELSE popped[Len(popped)]
<1>1. /\ prevOn /\ currentPage # 1 /\ ~isSearchMode /\ Click /\ Disturb(FALSE)
      /\ cursorHistory' = popped /\ currentCursor' = top /\ currentPage' = currentPage - 1
      /\ LoadRecords("records", currentTable, top)
      /\ UNCHANGED <<currentTable, isSearchMode, tableSchema, header, rows, prevOn, nextOn,
                     listed, badges, view, globalBox>>
  BY DEF PrevPage, schemaVars, bodyVars, pageVars, globalVars
<1>2. SchemaTypes' /\ BodyTypes' /\ PageTypes' /\ GlobalTypes'
  BY <1>1 DEF IInv, Types, SchemaTypes, BodyTypes, PageTypes, GlobalTypes
<1>3. BoundTypes'
  BY <1>1, ClickMeans DEF IInv, Types, BoundTypes, Disturb, DataPending
<1>4. PICK n \in Nat : /\ Len(cursorHistory) = n + 1 /\ currentPage = n + 2
                       /\ \A i \in 1..n : cursorHistory[i] \in Given
  <2>1. cursorHistory \in Seq(Given) /\ currentPage = Len(cursorHistory) + 1
    BY DEF IInv, Types, WalkTypes
  <2>2. Len(cursorHistory) \in Nat /\ \A i \in 1..Len(cursorHistory) : cursorHistory[i] \in Given
    BY <2>1, LenProperties, ElementOfSeq
  <2> QED BY <1>1, <2>1, <2>2
<1>5. /\ popped \in Seq(Given) /\ Len(popped) = n
      /\ \A i \in 1..n : popped[i] = cursorHistory[i]
  <2>1. popped = SubSeq(cursorHistory, 1, n)
    BY <1>4
  <2> HIDE DEF popped
  <2> QED BY <1>4, <2>1, SubSeqProperties
<1> HIDE DEF popped
<1>6. top = (IF n = 0 THEN None ELSE cursorHistory[n]) /\ top \in Given
  <2>1. CASE n = 0
    <3>1. popped = <<>>
      BY <1>5, <2>1, EmptySeq
    <3> QED BY <2>1, <3>1, GivenMeans
  <2>2. CASE n # 0
    <3>1. n \in 1..n /\ popped # <<>>
      BY <1>4, <1>5, <2>2, EmptySeq
    <3> QED BY <1>4, <1>5, <2>2, <3>1
  <2> QED BY <2>1, <2>2
<1> HIDE DEF top
<1>7. WalkTypes'
  BY <1>1, <1>4, <1>5, <1>6 DEF IInv, Types, WalkTypes
<1>8. CASE currentTable = None
  <2>1. CallTypes'
    BY <1>1, <1>8 DEF LoadRecords, IInv, Types, CallTypes
  <2>2. Walk'
    BY <1>1, <1>8 DEF Walk
  <2> QED BY <1>2, <1>3, <1>7, <2>1, <2>2 DEF IInv, Types
<1>9. CASE currentTable # None
  <2>1. PICK c : c = Call("records", currentTable, top)
    OBVIOUS
  <2>2. /\ IsCall(c) /\ c.kind = "records" /\ c.table = currentTable /\ c.arg = top
        /\ c.kind \in DataKinds /\ Send(c)
    BY <1>1, <1>6, <1>9, <2>1 DEF Call, IsCall, DataKinds, LoadRecords, IInv, Types, WalkTypes
  <2>3. CallTypes'
    BY <2>2, SendMeans DEF IInv, Types
  <2>4. Walk'
    <3>1. SUFFICES ASSUME ~disturbed' PROVE Walk'
      BY DEF Walk
    <3>2. ~disturbed /\ ~DataPending
      BY <1>1, <3>1 DEF Disturb
    <3>3. /\ currentTable \in Tables /\ InOrder(currentTable) /\ AtRest(currentTable)
          /\ currentPage \in 1..Pages[currentTable] /\ Pages[currentTable] \in Nat \ {0}
      BY <1>9, <3>2, RestMeans
    <3>4. InOrder(currentTable)'
      BY <1>1, <1>4, <1>5, <3>3 DEF InOrder
    <3>5. currentCursor' = LeadsTo(currentTable, currentPage)'
      BY <1>1, <1>4, <1>6, <3>3 DEF LeadsTo, InOrder
    <3>6. Described(currentTable)'
      BY <1>1, <3>3 DEF AtRest, Described
    <3> QED BY <1>1, <1>9, <2>2, <3>2, <3>4, <3>5, <3>6, SentIsUnderWay DEF IInv, Types
  <2> QED BY <1>2, <1>3, <1>7, <2>3, <2>4 DEF IInv, Types
<1> QED BY <1>8, <1>9

LEMMA RefreshHolds == ASSUME IInv, Refresh PROVE IInv'
<1>1. /\ Click /\ LoadRecords("records", currentTable, currentCursor)
      /\ Disturb(isSearchMode \/ (currentTable # None /\ currentPage < Pages[currentTable]))
      /\ UNCHANGED <<currentTable, currentCursor, cursorHistory, currentPage, isSearchMode,
                     tableSchema, header, rows, prevOn, nextOn, listed, badges, view, globalBox>>
  BY DEF Refresh, walkVars, schemaVars, bodyVars, pageVars, globalVars
<1>2. WalkTypes' /\ SchemaTypes' /\ BodyTypes' /\ PageTypes' /\ GlobalTypes'
  BY <1>1 DEF IInv, Types, WalkTypes, SchemaTypes, BodyTypes, PageTypes, GlobalTypes
<1>3. BoundTypes'
  BY <1>1, ClickMeans DEF IInv, Types, BoundTypes, Disturb, DataPending, WalkTypes
<1>4. CASE currentTable = None
  <2>1. CallTypes'
    BY <1>1, <1>4 DEF LoadRecords, IInv, Types, CallTypes
  <2>2. Walk'
    BY <1>1, <1>4 DEF Walk
  <2> QED BY <1>2, <1>3, <2>1, <2>2 DEF IInv, Types
<1>5. CASE currentTable # None
  <2>1. PICK c : c = Call("records", currentTable, currentCursor)
    OBVIOUS
  <2>2. /\ IsCall(c) /\ c.kind = "records" /\ c.table = currentTable /\ c.arg = currentCursor
        /\ c.kind \in DataKinds /\ Send(c)
    BY <1>1, <1>5, <2>1 DEF Call, IsCall, DataKinds, LoadRecords, IInv, Types, WalkTypes
  <2>3. CallTypes'
    BY <2>2, SendMeans DEF IInv, Types
  <2>4. Walk'
    <3>1. SUFFICES ASSUME ~disturbed' PROVE Walk'
      BY DEF Walk
    <3>2. ~disturbed /\ ~DataPending /\ ~isSearchMode /\ ~(currentPage < Pages[currentTable])
      BY <1>1, <1>5, <3>1 DEF Disturb
    <3>3. InOrder(currentTable) /\ AtRest(currentTable)
      BY <1>5, <3>2, RestMeans
    <3>4. currentCursor = LeadsTo(currentTable, currentPage)
      BY <3>2, <3>3 DEF AtRest, CursorAt
    <3>5. InOrder(currentTable)' /\ Described(currentTable)'
      BY <1>1, <3>3 DEF AtRest, Described, InOrder
    <3>6. currentCursor' = LeadsTo(currentTable, currentPage)'
      BY <1>1, <3>4 DEF LeadsTo
    <3> QED BY <1>1, <1>5, <2>2, <3>2, <3>5, <3>6, SentIsUnderWay DEF IInv, Types
  <2> QED BY <1>2, <1>3, <2>3, <2>4 DEF IInv, Types
<1> QED BY <1>4, <1>5

LEMMA SearchRecordsHolds == ASSUME IInv, SearchRecords PROVE IInv'
<1>1. /\ Click /\ Disturb(FALSE) /\ currentTable # None /\ Send(Call("search", currentTable, None))
      /\ UNCHANGED <<currentTable, currentCursor, cursorHistory, currentPage, isSearchMode,
                     tableSchema, header, rows, prevOn, nextOn, listed, badges, view, globalBox>>
  BY DEF SearchRecords, walkVars, schemaVars, bodyVars, pageVars, globalVars
<1>2. WalkTypes' /\ SchemaTypes' /\ BodyTypes' /\ PageTypes' /\ GlobalTypes'
  BY <1>1 DEF IInv, Types, WalkTypes, SchemaTypes, BodyTypes, PageTypes, GlobalTypes
<1>3. BoundTypes'
  BY <1>1, ClickMeans DEF IInv, Types, BoundTypes, Disturb, DataPending
<1>4. PICK c : c = Call("search", currentTable, None)
  OBVIOUS
<1>5. IsCall(c) /\ c.kind = "search" /\ c.table = currentTable /\ c.kind \in DataKinds /\ Send(c)
  BY <1>1, <1>4 DEF Call, IsCall, DataKinds, IInv, Types, WalkTypes
<1>6. CallTypes'
  BY <1>5, SendMeans DEF IInv, Types
<1>7. Walk'
  <2>1. SUFFICES ASSUME ~disturbed' PROVE Walk'
    BY DEF Walk
  <2>2. ~disturbed /\ ~DataPending
    BY <1>1, <2>1 DEF Disturb
  <2>3. InOrder(currentTable) /\ AtRest(currentTable)
    BY <1>1, <2>2, RestMeans
  <2>4. InOrder(currentTable)' /\ Described(currentTable)'
    BY <1>1, <2>3 DEF AtRest, Described, InOrder
  <2>5. currentCursor' = CursorAt(currentTable, currentPage)'
    BY <1>1, <2>3 DEF AtRest, CursorAt, LeadsTo
  <2> QED BY <1>1, <1>5, <2>2, <2>4, <2>5, SentIsUnderWay DEF IInv, Types
<1> QED BY <1>2, <1>3, <1>6, <1>7 DEF IInv, Types

LEMMA GlobalSearchHolds ==
  ASSUME IInv, NEW x \in Terms, PerformGlobalSearch(x)
  PROVE  IInv'
<1>1. /\ Click /\ view' = "global" /\ globalBox' = "searching" /\ Send(Call("global", None, x))
      /\ UNCHANGED <<walkVars, schemaVars, bodyVars, pageVars, disturbed>>
  BY DEF PerformGlobalSearch
<1>2. WalkTypes' /\ SchemaTypes' /\ BodyTypes' /\ PageTypes' /\ GlobalTypes'
  BY <1>1 DEF IInv, Types, WalkTypes, SchemaTypes, BodyTypes, PageTypes, GlobalTypes,
              walkVars, schemaVars, bodyVars, pageVars
<1>3. BoundTypes'
  BY <1>1, ClickMeans DEF IInv, Types, BoundTypes
<1>4. PICK c : c = Call("global", None, x)
  OBVIOUS
<1>5. IsCall(c) /\ c.kind \notin DataKinds /\ Send(c)
  BY <1>1, <1>4 DEF Call, IsCall, DataKinds
<1>6. CallTypes' /\ SameData
  BY <1>5, SendMeans DEF IInv, Types
<1>7. Walk'
  BY <1>1, <1>6, WalkStays DEF IInv
<1> QED BY <1>2, <1>3, <1>6, <1>7 DEF IInv, Types

-----------------------------------------------------------------------------
(***************************************************************************)
(* Responses.                                                              *)
(***************************************************************************)
LEMMA ResponseMeans ==
  ASSUME BoundTypes, NEW bad \in BOOLEAN, Fine \/ Fails(bad)
  PROVE  BoundTypes' /\ (disturbed => disturbed') /\ (~bad => disturbed' = disturbed)
<1>1. MaxFailures \in Nat
  BY BrowserAssumption
<1>2. CASE Fine
  BY <1>2 DEF Fine, BoundTypes
<1>3. CASE Fails(bad)
  <2>1. failures' \in 0..MaxFailures /\ clicks' = clicks
    BY <1>1, <1>3 DEF Fails, BoundTypes
  <2>2. disturbed' \in BOOLEAN /\ (disturbed => disturbed') /\ (~bad => disturbed' = disturbed)
    BY <1>3 DEF Fails, BoundTypes
  <2> QED BY <2>1, <2>2 DEF BoundTypes
<1> QED BY <1>2, <1>3

\* A request of the table shown is the one under way, as long as nothing untoward happens.
LEMMA PendingMeans ==
  ASSUME IInv, currentTable # None, ~disturbed, NEW call \in DOMAIN calls, call.kind \in DataKinds
  PROVE  /\ currentTable \in Tables /\ InOrder(currentTable) /\ UnderWay(currentTable, call)
         /\ currentPage \in 1..Pages[currentTable] /\ Pages[currentTable] \in Nat \ {0}
<1>1. currentTable \in Tables /\ cursorHistory \in Seq(Given) /\ currentPage = Len(cursorHistory) + 1
  BY DEF IInv, Types, WalkTypes
<1>2. InOrder(currentTable) /\ (AtRest(currentTable) \/ \E c \in DOMAIN calls : UnderWay(currentTable, c))
  BY DEF IInv, Walk
<1>3. call \in PendingOf(DataKinds)
  BY DEF PendingOf
<1>4. PICK c : UnderWay(currentTable, c)
  BY <1>2, <1>3 DEF AtRest, DataPending
<1>5. c = call
  BY <1>3, <1>4 DEF UnderWay
<1>6. Len(cursorHistory) \in Nat /\ Pages[currentTable] \in Nat \ {0}
  BY <1>1, LenProperties, BrowserAssumption
<1> QED BY <1>1, <1>2, <1>4, <1>5, <1>6 DEF InOrder

\* The next step of selectTable is under way.
LEMMA NextIsUnderWay ==
  ASSUME IInv, currentTable # None, ~disturbed, NEW call \in DOMAIN calls, call.kind \in {"schema", "stats"},
         NEW n, IsCall(n), n.kind \in {"stats", "first"}, n # call, n.table = currentTable,
         n.kind = "first" => n.arg = currentCursor, Continue(call, n),
         UNCHANGED walkVars, Described(currentTable)'
  PROVE  Walk'
<1>1. call.kind \in DataKinds /\ n.kind \in DataKinds
  BY DEF DataKinds
<1>2. InOrder(currentTable) /\ UnderWay(currentTable, call)
  BY <1>1, PendingMeans
<1>3. PendingOf(DataKinds)' = {n} /\ calls'[n] = 1
  BY <1>1, <1>2, ContinueMeans DEF IInv, Types, UnderWay
<1>4. UNCHANGED <<currentTable, currentCursor, cursorHistory, currentPage, isSearchMode>>
  BY DEF walkVars
<1>5. n \in DOMAIN calls'
  BY <1>3 DEF PendingOf
<1>6. InOrder(currentTable)'
  BY <1>2, <1>4 DEF InOrder
<1>7. currentPage = 1 /\ ~isSearchMode /\ currentCursor = LeadsTo(currentTable, currentPage)
  BY <1>2 DEF UnderWay
<1>8. UnderWay(currentTable, n)'
  BY <1>3, <1>4, <1>7 DEF UnderWay, LeadsTo
<1> QED BY <1>5, <1>6, <1>8 DEF Walk

LEMMA PageLoadHolds ==
  ASSUME IInv, NEW call \in DOMAIN calls, LoadTables(call) \/ LoadHealthStatus(call) \/ LoadCDCStatus(call)
  PROVE  IInv'
<1>1. /\ UNCHANGED <<walkVars, schemaVars, bodyVars, globalVars>>
      /\ (Fine \/ Fails(FALSE)) /\ call.kind \in {"tables", "health", "cdc"}
      /\ listed' \in BOOLEAN /\ badges' \subseteq {"redis", "clickhouse", "cdc"}
  BY DEF LoadTables, LoadHealthStatus, LoadCDCStatus, IInv, Types, PageTypes
<1>2. WalkTypes' /\ SchemaTypes' /\ BodyTypes' /\ PageTypes' /\ GlobalTypes'
  BY <1>1 DEF IInv, Types, WalkTypes, SchemaTypes, BodyTypes, PageTypes, GlobalTypes,
              walkVars, schemaVars, bodyVars, globalVars
<1>3. BoundTypes' /\ (disturbed => disturbed')
  BY <1>1, ResponseMeans DEF IInv, Types
<1>4. PICK h, k : h = Call("health", None, None) /\ k = Call("cdc", None, None)
  OBVIOUS
<1>5. IsCall(h) /\ IsCall(k) /\ {call.kind, h.kind, k.kind} \cap DataKinds = {}
  BY <1>1, <1>4 DEF Call, IsCall, DataKinds
<1>6. Finish(call) \/ Continue(call, h) \/ Continue(call, k)
  BY <1>4 DEF LoadTables, LoadHealthStatus, LoadCDCStatus
<1>7. CallTypes' /\ SameData
  BY <1>5, <1>6, FinishMeans, ContinueMeans DEF IInv, Types
<1>8. Walk'
  BY <1>1, <1>3, <1>7, WalkStays DEF IInv
<1> QED BY <1>2, <1>3, <1>7, <1>8 DEF IInv, Types

LEMMA GlobalArrivesHolds ==
  ASSUME IInv, NEW call \in DOMAIN calls, GlobalSearchArrives(call)
  PROVE  IInv'
<1>1. /\ UNCHANGED <<walkVars, schemaVars, bodyVars, pageVars, view>> /\ Finish(call)
      /\ call.kind = "global" /\ (Fine \/ Fails(FALSE)) /\ globalBox' \in {call.arg, "failed"}
  BY DEF GlobalSearchArrives
<1>2. IsCall(call)
  BY DEF IInv, Types, CallTypes
<1>3. WalkTypes' /\ SchemaTypes' /\ BodyTypes' /\ PageTypes' /\ GlobalTypes'
  BY <1>1, <1>2 DEF IInv, Types, WalkTypes, SchemaTypes, BodyTypes, PageTypes, GlobalTypes, IsCall,
                    walkVars, schemaVars, bodyVars, pageVars
<1>4. BoundTypes' /\ (disturbed => disturbed')
  BY <1>1, ResponseMeans DEF IInv, Types
<1>5. CallTypes' /\ SameData
  BY <1>1, FinishMeans DEF IInv, Types, DataKinds
<1>6. Walk'
  BY <1>1, <1>4, <1>5, WalkStays DEF IInv
<1> QED BY <1>3, <1>4, <1>5, <1>6 DEF IInv, Types

LEMMA SchemaHolds ==
  ASSUME IInv, NEW call \in DOMAIN calls, LoadTableSchema(call)
  PROVE  IInv'
<1>1. /\ call.kind = "schema" /\ (Fine \/ Fails(TRUE)) /\ IsCall(call)
      /\ Continue(call, Call("stats", currentTable, None))
      /\ UNCHANGED <<walkVars, bodyVars, pageVars, globalVars>>
  BY DEF LoadTableSchema, IInv, Types, CallTypes
<1>2. SchemaTypes'
  BY <1>1 DEF LoadTableSchema, IInv, Types, SchemaTypes, IsCall
<1>3. WalkTypes' /\ BodyTypes' /\ PageTypes' /\ GlobalTypes'
  BY <1>1 DEF IInv, Types, WalkTypes, BodyTypes, PageTypes, GlobalTypes, walkVars, bodyVars, pageVars, globalVars
<1>4. BoundTypes' /\ (disturbed => disturbed')
  BY <1>1, ResponseMeans DEF IInv, Types
<1>5. PICK n : n = Call("stats", currentTable, None)
  OBVIOUS
<1>6. IsCall(n) /\ n.kind = "stats" /\ n.table = currentTable /\ n # call /\ Continue(call, n)
  BY <1>1, <1>5 DEF Call, IsCall, IInv, Types, WalkTypes
<1>7. CallTypes'
  BY <1>6, ContinueMeans DEF IInv, Types
<1>8. Walk'
  <2>1. SUFFICES ASSUME currentTable' # None, ~disturbed' PROVE Walk'
    BY DEF Walk
  <2>2. currentTable' = currentTable /\ currentTable # None /\ ~disturbed
    BY <1>1, <1>4, <2>1 DEF walkVars
  <2>3. ~Fails(TRUE)
    BY <2>1 DEF Fails
  <2>4. tableSchema' = call.table /\ header' = call.table
    BY <2>3 DEF LoadTableSchema
  <2>5. UnderWay(currentTable, call)
    BY <1>1, <2>2, PendingMeans DEF DataKinds
  <2>6. Described(currentTable)'
    BY <2>2, <2>4, <2>5 DEF Described, UnderWay
  <2> QED BY <1>1, <1>6, <2>2, <2>6, NextIsUnderWay
<1> QED BY <1>2, <1>3, <1>4, <1>7, <1>8 DEF IInv, Types

LEMMA StatsHolds ==
  ASSUME IInv, NEW call \in DOMAIN calls, LoadTableStats(call)
  PROVE  IInv'
<1>1. /\ call.kind = "stats" /\ (Fine \/ Fails(FALSE))
      /\ UNCHANGED <<walkVars, schemaVars, bodyVars, pageVars, globalVars>>
  BY DEF LoadTableStats
<1>2. WalkTypes' /\ SchemaTypes' /\ BodyTypes' /\ PageTypes' /\ GlobalTypes'
  BY <1>1 DEF IInv, Types, WalkTypes, SchemaTypes, BodyTypes, PageTypes, GlobalTypes,
              walkVars, schemaVars, bodyVars, pageVars, globalVars
<1>3. BoundTypes' /\ disturbed' = disturbed
  BY <1>1, ResponseMeans DEF IInv, Types
<1>4. CASE currentTable = None
  <2>1. Finish(call)
    BY <1>4 DEF LoadTableStats
  <2>2. CallTypes'
    BY <2>1, FinishMeans DEF IInv, Types
  <2>3. Walk'
    BY <1>1, <1>4 DEF Walk, walkVars
  <2> QED BY <1>2, <1>3, <2>2, <2>3 DEF IInv, Types
<1>5. CASE currentTable # None
  <2>1. PICK n : n = Call("first", currentTable, currentCursor)
    OBVIOUS
  <2>2. /\ IsCall(n) /\ n.kind = "first" /\ n.table = currentTable /\ n.arg = currentCursor
        /\ n # call /\ Continue(call, n)
    BY <1>1, <1>5, <2>1 DEF LoadTableStats, Call, IsCall, IInv, Types, WalkTypes
  <2>3. CallTypes'
    BY <2>2, ContinueMeans DEF IInv, Types
  <2>4. Walk'
    <3>1. SUFFICES ASSUME ~disturbed PROVE Walk'
      BY <1>3 DEF Walk
    <3>2. UnderWay(currentTable, call)
      BY <1>1, <1>5, <3>1, PendingMeans DEF DataKinds
    <3>3. Described(currentTable)'
      BY <1>1, <3>2 DEF UnderWay, Described, walkVars, schemaVars
    <3> QED BY <1>1, <1>5, <2>2, <3>1, <3>3, NextIsUnderWay
  <2> QED BY <1>2, <1>3, <2>3, <2>4 DEF IInv, Types
<1> QED BY <1>4, <1>5

\* What displayRecords leaves behind.
LEMMA ShowRecordsMeans ==
  ASSUME IInv, NEW call, NEW what, IsRow(what), NEW next \in Given, ShowRecords(call, what, next)
  PROVE  /\ IsRow(rows') /\ prevOn' \in BOOLEAN /\ nextOn' \in BOOLEAN /\ currentCursor' \in Given
         /\ Displays(what) => /\ rows' = what /\ prevOn' = (currentPage # 1) /\ nextOn' = (next # None)
                              /\ currentCursor' = IF next # None THEN next ELSE currentCursor
<1>1. CASE Displays(what)
  BY <1>1 DEF ShowRecords, IInv, Types, WalkTypes
<1>2. CASE ~Displays(what)
  BY <1>2 DEF ShowRecords, IInv, Types, WalkTypes, BodyTypes, IsRow
<1> QED BY <1>1, <1>2

LEMMA RecordsHolds ==
  ASSUME IInv, NEW call \in DOMAIN calls, RecordsArrive(call)
  PROVE  IInv'
<1>1. /\ call.kind \in {"first", "records"} /\ Finish(call) /\ IsCall(call)
      /\ UNCHANGED <<currentTable, cursorHistory, currentPage, isSearchMode,
                     tableSchema, header, listed, badges, view, globalBox>>
  BY DEF RecordsArrive, schemaVars, pageVars, globalVars, IInv, Types, CallTypes
<1>2. call.table \in Tables /\ call.arg \in Given
  BY <1>1 DEF IsCall
<1>3. IsRow(NoRecords) /\ None \in Given
  BY GivenMeans DEF IsRow
<1>4. SchemaTypes' /\ PageTypes' /\ GlobalTypes'
  BY <1>1 DEF IInv, Types, SchemaTypes, PageTypes, GlobalTypes
<1>5. CallTypes'
  BY <1>1, FinishMeans DEF IInv, Types
<1>6. BoundTypes'
  <2>1. Fine \/ Fails(TRUE)
    BY DEF RecordsArrive
  <2> QED BY <2>1, ResponseMeans DEF IInv, Types
<1>7. ASSUME IsRow(rows'), prevOn' \in BOOLEAN, nextOn' \in BOOLEAN, currentCursor' \in Given
      PROVE  WalkTypes' /\ BodyTypes'
  BY <1>1, <1>7 DEF IInv, Types, WalkTypes, BodyTypes
<1>8. ASSUME Fine, NEW k \in Answers(call.table, call.arg),
             IF k = 0 THEN ShowRecords(call, NoRecords, None)
             ELSE ShowRecords(call, Row("page", call.table, k), NextCursor(call.table, k))
      PROVE  IInv'
  <2>1. Pages[call.table] \in Nat \ {0} /\ k \in 0..Pages[call.table]
    BY <1>2, <1>8, AnswersMean, BrowserAssumption
  <2>2. k # 0 => k \in 1..Pages[call.table]
    BY <2>1
  <2>3. PICK what, next : /\ ShowRecords(call, what, next)
                          /\ IF k = 0 THEN what = NoRecords /\ next = None
                             ELSE what = Row("page", call.table, k) /\ next = NextCursor(call.table, k)
    BY <1>8
  <2>4. IsRow(what) /\ next \in Given
    BY <1>2, <1>3, <2>2, <2>3, NextCursorMeans DEF IsRow
  <2>5. /\ IsRow(rows') /\ prevOn' \in BOOLEAN /\ nextOn' \in BOOLEAN /\ currentCursor' \in Given
        /\ Displays(what) => /\ rows' = what /\ prevOn' = (currentPage # 1) /\ nextOn' = (next # None)
                             /\ currentCursor' = IF next # None THEN next ELSE currentCursor
    BY <2>3, <2>4, ShowRecordsMeans
  <2>6. Walk'
    <3>1. SUFFICES ASSUME currentTable # None, ~disturbed PROVE Walk'
      BY <1>1, <1>8 DEF Walk, Fine
    <3>2. PICK t, p : t = currentTable /\ p = currentPage
      OBVIOUS
    <3>3. /\ t \in Tables /\ InOrder(t) /\ UnderWay(t, call) /\ p \in 1..Pages[t] /\ Pages[t] \in Nat \ {0}
      BY <1>1, <3>1, <3>2, PendingMeans DEF DataKinds
    <3>4. /\ call.table = t /\ call.arg = LeadsTo(t, p) /\ ~isSearchMode
          /\ currentCursor = LeadsTo(t, p) /\ Described(t)
      BY <1>1, <3>2, <3>3 DEF UnderWay
    <3>5. k = p /\ what = Row("page", t, p) /\ next = NextCursor(t, p)
      <4>1. k = p
        BY <1>8, <3>3, <3>4, LeadsToMeans
      <4> QED BY <2>3, <3>3, <3>4, <4>1
    <3>6. Displays(what)
      BY <3>3, <3>4, NoneIsNoTable DEF Displays, Described
    <3>7. currentCursor' = CursorAt(t, p) /\ nextOn' = (p < Pages[t])
      BY <2>5, <3>3, <3>4, <3>5, <3>6, NextCursorMeans
    <3>8. ~DataPending'
      BY <1>1, <3>3, FinishMeans DEF UnderWay, IInv, Types
    <3>9. Shows(t)'
      <4>1. prevOn' = (p > 1)
        BY <2>5, <3>2, <3>3, <3>6
      <4> QED BY <1>1, <2>5, <3>2, <3>4, <3>5, <3>6, <3>7, <4>1 DEF Shows
    <3>10. InOrder(t)' /\ Described(t)'
      BY <1>1, <3>3, <3>4 DEF InOrder, Described
    <3> QED BY <1>1, <3>2, <3>7, <3>8, <3>9, <3>10 DEF Walk, AtRest
  <2> QED BY <1>4, <1>5, <1>6, <1>7, <2>5, <2>6 DEF IInv, Types
<1>9. ASSUME Fails(TRUE), ShowRecords(call, NoRecords, None) \/ UNCHANGED <<bodyVars, currentCursor>>
      PROVE  IInv'
  <2>1. IsRow(rows') /\ prevOn' \in BOOLEAN /\ nextOn' \in BOOLEAN /\ currentCursor' \in Given
    <3>1. CASE ShowRecords(call, NoRecords, None)
      <4>1. PICK what, next : what = NoRecords /\ next = None
        OBVIOUS
      <4> QED BY <1>3, <3>1, <4>1, ShowRecordsMeans
    <3>2. CASE UNCHANGED <<bodyVars, currentCursor>>
      BY <3>2 DEF bodyVars, IInv, Types, WalkTypes, BodyTypes
    <3> QED BY <1>9, <3>1, <3>2
  <2>2. Walk'
    BY <1>9 DEF Walk, Fails
  <2> QED BY <1>4, <1>5, <1>6, <1>7, <2>1, <2>2 DEF IInv, Types
<1> QED BY <1>8, <1>9 DEF RecordsArrive

LEMMA SearchArrivesHolds ==
  ASSUME IInv, NEW call \in DOMAIN calls, SearchArrives(call)
  PROVE  IInv'
<1>1. /\ call.kind = "search" /\ Finish(call) /\ IsCall(call)
      /\ UNCHANGED <<currentTable, currentCursor, cursorHistory, currentPage,
                     tableSchema, header, listed, badges, view, globalBox>>
  BY DEF SearchArrives, schemaVars, pageVars, globalVars, IInv, Types, CallTypes
<1>2. call.table \in Tables /\ IsRow(Row("search", call.table, 0)) /\ IsRow(NoRecords) /\ IsRow(Blank)
  BY <1>1 DEF IsCall, IsRow
<1>3. SchemaTypes' /\ PageTypes' /\ GlobalTypes'
  BY <1>1 DEF IInv, Types, SchemaTypes, PageTypes, GlobalTypes
<1>4. CallTypes'
  BY <1>1, FinishMeans DEF IInv, Types
<1>5. BoundTypes'
  <2>1. Fine \/ Fails(TRUE)
    BY DEF SearchArrives
  <2> QED BY <2>1, ResponseMeans DEF IInv, Types
<1>6. IsRow(rows') /\ prevOn' \in BOOLEAN /\ nextOn' \in BOOLEAN /\ isSearchMode' \in BOOLEAN
  BY <1>2 DEF SearchArrives, ShowResults, bodyVars, IInv, Types, WalkTypes, BodyTypes
<1>7. WalkTypes' /\ BodyTypes'
  BY <1>1, <1>6 DEF IInv, Types, WalkTypes, BodyTypes
<1>8. Walk'
  <2>1. SUFFICES ASSUME currentTable # None, ~disturbed' PROVE Walk'
    BY <1>1 DEF Walk
  <2>2. Fine /\ ShowResults(Row("search", call.table, 0))
    BY <2>1 DEF SearchArrives, Fails
  <2>3. ~disturbed
    BY <2>1, <2>2 DEF Fine
  <2>4. PICK t, p : t = currentTable /\ p = currentPage
    OBVIOUS
  <2>5. t \in Tables /\ InOrder(t) /\ UnderWay(t, call)
    BY <1>1, <2>1, <2>3, <2>4, PendingMeans DEF DataKinds
  <2>6. call.table = t /\ Described(t) /\ currentCursor = CursorAt(t, p)
    BY <1>1, <2>4, <2>5 DEF UnderWay
  <2>7. Displays(Row("search", call.table, 0))
    BY <2>5, <2>6, NoneIsNoTable DEF Displays, Described
  <2>8. rows' = Row("search", t, 0) /\ ~prevOn' /\ ~nextOn' /\ isSearchMode'
    BY <2>2, <2>6, <2>7 DEF ShowResults
  <2>9. ~DataPending'
    BY <1>1, <2>5, FinishMeans DEF UnderWay, IInv, Types
  <2>10. InOrder(t)' /\ Described(t)' /\ Shows(t)'
    BY <1>1, <2>5, <2>6, <2>8 DEF InOrder, Described, Shows
  <2> QED BY <1>1, <2>4, <2>6, <2>9, <2>10 DEF Walk, AtRest
<1> QED BY <1>3, <1>4, <1>5, <1>7, <1>8 DEF IInv, Types

-----------------------------------------------------------------------------
(***************************************************************************)
(* The theorems.                                                           *)
(***************************************************************************)
LEMMA StepHolds == IInv /\ [Next]_vars => IInv'
<1>1. SUFFICES ASSUME IInv, [Next]_vars PROVE IInv'
  OBVIOUS
<1>2. ASSUME NEW t \in Tables \cup {None}, SelectTable(t) PROVE IInv'
  BY <1>1, <1>2, SelectTableHolds
<1>3. ASSUME NEW x \in Terms, PerformGlobalSearch(x) PROVE IInv'
  BY <1>1, <1>3, GlobalSearchHolds
<1>4. CASE NextPage
  BY <1>1, <1>4, NextPageHolds
<1>5. CASE PrevPage
  BY <1>1, <1>5, PrevPageHolds
<1>6. CASE Refresh
  BY <1>1, <1>6, RefreshHolds
<1>7. CASE SearchRecords
  BY <1>1, <1>7, SearchRecordsHolds
<1>8. ASSUME NEW call \in DOMAIN calls, Respond(call) PROVE IInv'
  <2>1. CASE LoadTables(call) \/ LoadHealthStatus(call) \/ LoadCDCStatus(call)
    BY <1>1, <2>1, PageLoadHolds
  <2>2. CASE LoadTableSchema(call)
    BY <1>1, <2>2, SchemaHolds
  <2>3. CASE LoadTableStats(call)
    BY <1>1, <2>3, StatsHolds
  <2>4. CASE RecordsArrive(call)
    BY <1>1, <2>4, RecordsHolds
  <2>5. CASE SearchArrives(call)
    BY <1>1, <2>5, SearchArrivesHolds
  <2>6. CASE GlobalSearchArrives(call)
    BY <1>1, <2>6, GlobalArrivesHolds
  <2> QED BY <1>8, <2>1, <2>2, <2>3, <2>4, <2>5, <2>6 DEF Respond
<1>9. CASE UNCHANGED vars
  <2>1. UNCHANGED <<walkVars, schemaVars, bodyVars, pageVars, globalVars, calls, clicks, failures, disturbed>>
    BY <1>9 DEF vars
  <2>2. Types'
    BY <1>1, <2>1 DEF IInv, Types, WalkTypes, SchemaTypes, BodyTypes, PageTypes, GlobalTypes, CallTypes, BoundTypes,
                      walkVars, schemaVars, bodyVars, pageVars, globalVars
  <2>3. Walk'
    BY <1>1, <2>1, WalkStays DEF IInv, SameData, PendingOf
  <2> QED BY <2>2, <2>3 DEF IInv
<1> QED BY <1>1, <1>2, <1>3, <1>4, <1>5, <1>6, <1>7, <1>8, <1>9 DEF Next, User

LEMMA IInvHolds == Spec => []IInv
  BY InitHolds, StepHolds, PTL DEF Spec

\* The page's globals keep their types whatever the user clicks and in whatever order
\* responses arrive; every cursor in circulation has a page behind it.
THEOREM BrowserTypeCorrect == Spec => []TypeOK
<1>1. IInv => TypeOK
  <2>1. SUFFICES ASSUME IInv PROVE TypeOK
    OBVIOUS
  <2>2. Given \subseteq Cursor /\ Seq(Given) \subseteq Seq(Cursor)
    <3>1. Given \subseteq Cursor
      BY DEF Given, Cursor
    <3> QED BY <3>1
  <2>3. /\ currentTable \in Tables \cup {None} /\ currentCursor \in Cursor
        /\ cursorHistory \in Seq(Cursor) /\ currentPage = Len(cursorHistory) + 1
    BY <2>1, <2>2 DEF IInv, Types, WalkTypes
  <2>4. {isSearchMode, prevOn, nextOn, listed, disturbed} \subseteq BOOLEAN
    BY <2>1 DEF IInv, Types, WalkTypes, BodyTypes, PageTypes, BoundTypes
  <2>5. rows \in (UNION {{Row("page", t, k) : k \in 1..Pages[t]} : t \in Tables})
                 \cup {Row("search", t, 0) : t \in Tables} \cup {Blank, NoRecords}
    BY <2>1 DEF IInv, Types, BodyTypes, IsRow
  <2> QED BY <2>1, <2>3, <2>4, <2>5 DEF TypeOK, IInv, Types, SchemaTypes, PageTypes, GlobalTypes, CallTypes, BoundTypes
<1> QED BY <1>1, IInvHolds, PTL

\* After any walk in which nothing untoward happened the page shows the page it names
\* (selectTable, nextPage, prevPage, searchRecords, displayRecords).
THEOREM WalkShowsItsPage == Spec => []SteadyWalk
<1>1. IInv => SteadyWalk
  <2>1. SUFFICES ASSUME IInv, Steady PROVE AtRest(currentTable)
    BY DEF SteadyWalk, AtRest, Described, Shows
  <2> QED BY <2>1, RestMeans DEF Steady
<1> QED BY <1>1, IInvHolds, PTL
=============================================================================

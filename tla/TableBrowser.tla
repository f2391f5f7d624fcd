---------------------------- MODULE TableBrowser ----------------------------
(***************************************************************************)
(* The table browser of web/app.js: a page with global variables, handlers *)
(* that the user's clicks start, and requests whose responses may arrive   *)
(* in any order, as an error object, or not at all.                        *)
(*                                                                         *)
(* A handler runs without interruption up to an await; its continuation is *)
(* the member of calls that stands for its request.  A continuation reads  *)
(* the globals as they are when the response arrives.                      *)
(*                                                                         *)
(* The tables do not change here: table t has Pages[t] pages, and page k's *)
(* next_cursor is <<t, k>>, or absent on the last page.                    *)
(***************************************************************************)
EXTENDS Integers, Sequences, Bags

CONSTANTS
  Tables,       \* tables of the server
  Pages,        \* how many pages each table has
  Terms,        \* what the user may type into the global search
  None,         \* no table, no cursor, no term
  Broken,       \* tableSchema holds an error object, which has no columns
  MaxCalls,     \* requests under way at a time (a bound)
  MaxClicks,    \* what the user does in a behaviour (a bound)
  MaxFailures   \* requests that fail in a behaviour (a bound)

ASSUME BrowserAssumption ==
  /\ Pages \in [Tables -> Nat \ {0}]
  /\ {None, Broken} \cap (Tables \cup Terms) = {} /\ None # Broken
  /\ \A t \in Tables : \A k \in 1..Pages[t] : <<t, k>> # None
  /\ {MaxCalls, MaxClicks, MaxFailures} \subseteq Nat

VARIABLES
  currentTable, currentCursor, cursorHistory, currentPage, isSearchMode,
  tableSchema,  \* the table it describes, None, or Broken
  header,       \* the table whose columns the table head shows
  rows,         \* what the table body shows
  prevOn, nextOn,  \* the two buttons are enabled
  listed,       \* the table selector is filled
  badges,       \* status badges that have been set
  view,         \* which of the two result containers is visible
  globalBox,    \* what the global container shows
  calls,        \* requests under way, a bag
  clicks, failures,
  disturbed     \* since the last clean selection, something happened that the page
                \* does not cope with, see Click, Fail and Refresh

walkVars   == <<currentTable, currentCursor, cursorHistory, currentPage, isSearchMode>>
schemaVars == <<tableSchema, header>>
bodyVars   == <<rows, prevOn, nextOn>>
pageVars   == <<listed, badges>>
globalVars == <<view, globalBox>>
vars == <<walkVars, schemaVars, bodyVars, pageVars, globalVars, calls, clicks, failures, disturbed>>

Cursor == (UNION {{<<t, k>> : k \in 1..Pages[t]} : t \in Tables}) \cup {None}

Row(what, t, k) == [what |-> what, table |-> t, page |-> k]
Blank           == Row("blank", None, 0)    \* the body has been emptied
NoRecords       == Row("empty", None, 0)    \* "No records found"

Call(kind, t, c) == [kind |-> kind, table |-> t, arg |-> c]

\* The steps of selectTable, and everything else that writes what a table shows.
DataKinds == {"schema", "stats", "first", "records", "search"}

PendingOf(kinds) == {c \in DOMAIN calls : c.kind \in kinds}
DataPending      == PendingOf(DataKinds) # {}

NextCursor(t, k) == IF k < Pages[t] THEN <<t, k>> ELSE None

\* The pages a server may answer with.  A cursor taken from another table is a position
\* nobody can foretell; past the end there are no records (page 0).
Answers(t, c) == IF c = None THEN {1}
                 ELSE IF c[1] = t THEN {c[2] + 1} ELSE 0..Pages[t]

Send(call)          == calls' = calls (+) SetToBag({call})
Finish(call)        == calls' = calls (-) SetToBag({call})
Continue(call, new) == calls' = (calls (-) SetToBag({call})) (+) SetToBag({new})

Init ==
  /\ currentTable = None /\ currentCursor = None /\ cursorHistory = <<>>
  /\ currentPage = 1 /\ isSearchMode = FALSE
  /\ tableSchema = None /\ header = None
  /\ rows = Blank /\ prevOn = FALSE /\ nextOn = FALSE
  /\ listed = FALSE /\ badges = {}
  /\ view = "table" /\ globalBox = "nothing"
  /\ calls = SetToBag({Call("tables", None, None)})   \* loadTables, on DOMContentLoaded
  /\ clicks = 0 /\ failures = 0 /\ disturbed = FALSE

(***************************************************************************)
(* The user.  A click while a table is still loading is not coped with.    *)
(***************************************************************************)
Click == clicks < MaxClicks /\ clicks' = clicks + 1 /\ UNCHANGED failures

Room == BagCardinality(calls) < MaxCalls

Disturb(bad) == disturbed' = (disturbed \/ DataPending \/ bad)

\* loadRecords up to its await.
LoadRecords(kind, t, c) == IF t = None THEN UNCHANGED calls ELSE Send(Call(kind, t, c))

\* Mistake: the walk through the table before is not forgotten.
SelectTable_KeepsHistory(t) ==
  /\ listed /\ Click /\ Room
  /\ currentTable' = t /\ view' = "table"
  /\ disturbed' = DataPending
  /\ currentCursor' = None /\ currentPage' = 1 /\ isSearchMode' = FALSE
  /\ LoadRecords("schema", t, None)
  /\ UNCHANGED <<cursorHistory, schemaVars, bodyVars, pageVars, globalBox>>

SelectTable(t) ==
  /\ listed /\ Click
  /\ currentTable' = t /\ view' = "table"
  /\ IF t = None
     THEN /\ Disturb(FALSE)
          /\ UNCHANGED <<currentCursor, cursorHistory, currentPage, isSearchMode, calls>>
     ELSE /\ Room
          /\ disturbed' = DataPending
          /\ cursorHistory' = <<>> /\ currentCursor' = None
          /\ currentPage' = 1 /\ isSearchMode' = FALSE
          /\ Send(Call("schema", t, None))
  /\ UNCHANGED <<schemaVars, bodyVars, pageVars, globalBox>>

NextPage ==
  /\ view = "table" /\ nextOn /\ ~isSearchMode /\ Click /\ Room
  /\ cursorHistory' = Append(cursorHistory, currentCursor)
  /\ currentPage' = currentPage + 1
  /\ LoadRecords("records", currentTable, currentCursor)
  /\ Disturb(FALSE)
  /\ UNCHANGED <<currentTable, currentCursor, isSearchMode,
                 schemaVars, bodyVars, pageVars, globalVars>>

\* Mistake: it goes to the cursor it has popped, the one of the page shown.
PrevPage_TakesPopped ==
  /\ view = "table" /\ prevOn /\ ~(currentPage = 1 \/ isSearchMode) /\ Click /\ Room
  /\ cursorHistory' = SubSeq(cursorHistory, 1, Len(cursorHistory) - 1)
  /\ currentCursor' = cursorHistory[Len(cursorHistory)]
  /\ LoadRecords("records", currentTable, currentCursor')
  /\ currentPage' = currentPage - 1
  /\ Disturb(FALSE)
  /\ UNCHANGED <<currentTable, isSearchMode, schemaVars, bodyVars, pageVars, globalVars>>

PrevPage ==
  /\ view = "table" /\ prevOn /\ ~(currentPage = 1 \/ isSearchMode) /\ Click /\ Room
  /\ LET popped == SubSeq(cursorHistory, 1, Len(cursorHistory) - 1)
         top    == IF popped = <<>> THEN None ELSE popped[Len(popped)]
     IN /\ cursorHistory' = popped
        /\ currentCursor' = top
        /\ LoadRecords("records", currentTable, top)
  /\ currentPage' = currentPage - 1
  /\ Disturb(FALSE)
  /\ UNCHANGED <<currentTable, isSearchMode, schemaVars, bodyVars, pageVars, globalVars>>

\* searchRecords with an empty term loads records with the cursor of the page after the
\* one shown, and leaves search mode on: only the last page survives it.
Refresh ==
  /\ view = "table" /\ Click /\ Room
  /\ LoadRecords("records", currentTable, currentCursor)
  /\ Disturb(isSearchMode \/ (currentTable # None /\ currentPage < Pages[currentTable]))
  /\ UNCHANGED <<walkVars, schemaVars, bodyVars, pageVars, globalVars>>

SearchRecords ==
  /\ view = "table" /\ currentTable # None /\ Click /\ Room
  /\ Send(Call("search", currentTable, None))
  /\ Disturb(FALSE)
  /\ UNCHANGED <<walkVars, schemaVars, bodyVars, pageVars, globalVars>>

PerformGlobalSearch(x) ==
  /\ Click /\ Room
  /\ view' = "global" /\ globalBox' = "searching"
  /\ Send(Call("global", None, x))
  /\ UNCHANGED <<walkVars, schemaVars, bodyVars, pageVars, disturbed>>

(***************************************************************************)
(* Continuations.                                                          *)
(***************************************************************************)
\* A response with the expected content.
Fine == UNCHANGED <<clicks, failures, disturbed>>

\* The request fails, or the response is an error object; bad says whether the page then
\* no longer shows what it claims.
Fails(bad) == /\ failures < MaxFailures /\ failures' = failures + 1
              /\ disturbed' = (disturbed \/ bad)
              /\ UNCHANGED clicks

LoadTables(call) ==
  /\ call.kind = "tables"
  /\ \/ Fine /\ listed' = TRUE /\ Continue(call, Call("health", None, None))
     \/ Fails(FALSE) /\ Finish(call) /\ UNCHANGED listed
  /\ UNCHANGED <<walkVars, schemaVars, bodyVars, badges, globalVars>>

LoadHealthStatus(call) ==
  /\ call.kind = "health"
  /\ \/ Fine /\ badges' = badges \cup {"redis", "clickhouse"}
     \/ Fails(FALSE) /\ UNCHANGED badges
  /\ Continue(call, Call("cdc", None, None))
  /\ UNCHANGED <<walkVars, schemaVars, bodyVars, listed, globalVars>>

\* Without an answer the badge says "Unknown".
LoadCDCStatus(call) ==
  /\ call.kind = "cdc"
  /\ Fine \/ Fails(FALSE)
  /\ badges' = badges \cup {"cdc"}
  /\ Finish(call)
  /\ UNCHANGED <<walkVars, schemaVars, bodyVars, listed, globalVars>>

\* loadTableSchema catches its errors, and selectTable goes on to the statistics, of
\* whatever table is current by now.
LoadTableSchema(call) ==
  /\ call.kind = "schema"
  /\ \/ Fine /\ tableSchema' = call.table /\ header' = call.table
     \/ Fails(TRUE) /\ tableSchema' \in {tableSchema, Broken} /\ UNCHANGED header
  /\ Continue(call, Call("stats", currentTable, None))
  /\ UNCHANGED <<walkVars, bodyVars, pageVars, globalVars>>


LoadTableStats(call) ==
  /\ call.kind = "stats"
  /\ Fine \/ Fails(FALSE)
  /\ IF currentTable = None THEN Finish(call)
     ELSE Continue(call, Call("first", currentTable, currentCursor))
  /\ UNCHANGED <<walkVars, schemaVars, bodyVars, pageVars, globalVars>>

\* displayRecords empties the body first and throws when the schema has no columns to
\* show the rows with (an absent schema is good enough for no rows).
Displays(what) == tableSchema \notin {None, Broken} \/ (what = NoRecords /\ tableSchema = None)

ShowRecords(call, what, next) ==
  IF Displays(what)
  THEN /\ rows' = what
       /\ prevOn' = (currentPage # 1) /\ nextOn' = (next # None)
       /\ currentCursor' = IF next # None THEN next ELSE currentCursor
  ELSE rows' = Blank /\ UNCHANGED <<prevOn, nextOn, currentCursor>>

RecordsArrive(call) ==
  /\ call.kind \in {"first", "records"}
  /\ \/ /\ Fine
        /\ \E k \in Answers(call.table, call.arg) :
             IF k = 0 THEN ShowRecords(call, NoRecords, None)
             ELSE ShowRecords(call, Row("page", call.table, k), NextCursor(call.table, k))
     \/ Fails(TRUE) /\ ShowRecords(call, NoRecords, None)           \* an error object
     \/ Fails(TRUE) /\ UNCHANGED <<bodyVars, currentCursor>>        \* no response
  /\ Finish(call)
  /\ UNCHANGED <<currentTable, cursorHistory, currentPage, isSearchMode,
                 schemaVars, pageVars, globalVars>>

\* Mistake: an error is only logged.
GlobalSearchArrives_OnlyLogs(call) ==
  /\ call.kind = "global"
  /\ \/ Fine /\ globalBox' = call.arg
     \/ Fails(FALSE) /\ UNCHANGED globalBox
  /\ Finish(call)
  /\ UNCHANGED <<walkVars, schemaVars, bodyVars, pageVars, view>>

ShowResults(what) ==
  IF Displays(what)
  THEN rows' = what /\ prevOn' = FALSE /\ nextOn' = FALSE /\ isSearchMode' = TRUE
  ELSE rows' = Blank /\ UNCHANGED <<prevOn, nextOn, isSearchMode>>

SearchArrives(call) ==
  /\ call.kind = "search"
  /\ \/ Fine /\ ShowResults(Row("search", call.table, 0))
     \/ Fails(TRUE) /\ ShowResults(NoRecords)
     \/ Fails(TRUE) /\ UNCHANGED <<bodyVars, isSearchMode>>
  /\ Finish(call)
  /\ UNCHANGED <<currentTable, currentCursor, cursorHistory, currentPage,
                 schemaVars, pageVars, globalVars>>

GlobalSearchArrives(call) ==
  /\ call.kind = "global"
  /\ \/ Fine /\ globalBox' = call.arg
     \/ Fails(FALSE) /\ globalBox' = "failed"
  /\ Finish(call)
  /\ UNCHANGED <<walkVars, schemaVars, bodyVars, pageVars, view>>

Respond(call) ==
  \/ LoadTables(call) \/ LoadHealthStatus(call) \/ LoadCDCStatus(call)
  \/ LoadTableSchema(call) \/ LoadTableStats(call)
  \/ RecordsArrive(call) \/ SearchArrives(call) \/ GlobalSearchArrives(call)

User == \/ \E t \in Tables \cup {None} : SelectTable(t)
        \/ NextPage \/ PrevPage \/ Refresh \/ SearchRecords
        \/ \E x \in Terms : PerformGlobalSearch(x)

Next == User \/ \E call \in DOMAIN calls : Respond(call)

Spec == Init /\ [][Next]_vars

\* A fetch ends, in a response or an error.  Clicks are bounded, so one condition does.
FairSpec == Spec /\ WF_vars(\E call \in DOMAIN calls : Respond(call))

(***************************************************************************)
(* Properties.                                                             *)
(***************************************************************************)
\* Every variable has its type, and currentPage counts cursorHistory.
TypeOK ==
  /\ currentTable \in Tables \cup {None} /\ currentCursor \in Cursor
  /\ cursorHistory \in Seq(Cursor) /\ currentPage = Len(cursorHistory) + 1
  /\ {isSearchMode, prevOn, nextOn, listed, disturbed} \subseteq BOOLEAN
  /\ tableSchema \in Tables \cup {None, Broken} /\ header \in Tables \cup {None}
  /\ rows \in (UNION {{Row("page", t, k) : k \in 1..Pages[t]} : t \in Tables})
             \cup {Row("search", t, 0) : t \in Tables} \cup {Blank, NoRecords}
  /\ badges \subseteq {"redis", "clickhouse", "cdc"}
  /\ view \in {"table", "global"} /\ globalBox \in {"nothing", "searching", "failed"} \cup Terms
  /\ IsABag(calls) /\ clicks \in 0..MaxClicks /\ failures \in 0..MaxFailures

\* Nothing is loading and nothing untoward happened.
Steady == currentTable # None /\ ~disturbed /\ ~DataPending

\* After any walk with next, previous, search and selection in which the user waits for
\* the answers, the page shows exactly the page it names, of the table it names, under
\* that table's columns, with the buttons that lead somewhere; or search results, with
\* both buttons off.
SteadyWalk == Steady =>
  /\ tableSchema = currentTable /\ header = currentTable
  /\ IF isSearchMode
     THEN rows = Row("search", currentTable, 0) /\ ~prevOn /\ ~nextOn
     ELSE /\ rows = Row("page", currentTable, currentPage)
          /\ prevOn = (currentPage > 1) /\ nextOn = (currentPage < Pages[currentTable])


\* The placeholder of a global search is always replaced, by some search's results or by
\* an error.
GlobalSearchAnswered == (globalBox = "searching") ~> (globalBox # "searching")
=============================================================================

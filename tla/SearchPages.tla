---------------------------- MODULE SearchPages ----------------------------
(***************************************************************************)
(* Searching page by page: SearchRepository.SearchFullHistoryBitmap behind *)
(* GET /api/search (SearchOptimized) and GET /api/tables/{table}/search    *)
(* (SearchRecords), while the CDC goes on writing the index.               *)
(*                                                                         *)
(* A request reads Limit+1 ids of matching records, newest first, from the *)
(* bitmap of the term, and then looks the records up, one query per table. *)
(* Only then it decides whether there is more: on what is left of the ids, *)
(* counted with the copies that ClickHouse has not merged yet.             *)
(*                                                                         *)
(* A global id stands for 16 bits of a hash of its table's name above 48   *)
(* bits of the row's key.  Homes[g] holds the tables whose hash g carries: *)
(* several if hashes collide, none if the table is gone from the registry. *)
(***************************************************************************)
EXTENDS Integers, FiniteSets

CONSTANTS
  MaxGlobalId,   \* largest global id (a bound)
  Tables,        \* tables of the registry
  Homes,         \* the tables a global id may belong to
  Limit,         \* records on a page
  MaxCopies,     \* unmerged copies of a row (a bound)
  MaxWrites      \* how often the index changes (a bound)

GlobalIds == 1..MaxGlobalId

ASSUME SearchAssumption ==
  /\ MaxGlobalId \in Nat /\ Homes \in [GlobalIds -> SUBSET Tables] /\ "unknown" \notin Tables
  /\ Limit \in Nat \ {0} /\ MaxCopies \in Nat \ {0} /\ MaxWrites \in Nat

Items == {i \in Tables \X GlobalIds : i[1] \in Homes[i[2]]}

VARIABLES
  bitmap,    \* search_token_bitmap: ids whose records have the term
  copies,    \* search_<table>: visible copies of each row with is_deleted = 0
  endpoint,  \* "all" or "table", which handler the walk asks
  pc,        \* the request: "idle", "lookup" (the goroutines per table)
  ids,       \* globalIDs
  route,     \* the table each of them was assigned to
  todo,      \* tables still to be looked up
  found,     \* how many copies of each record came back
  cursor,    \* LastGlobalID, 0 for none
  walk, page, seen, owed,   \* as in PageWalk
  due,       \* what the request under way owes
  writes

indexVars   == <<bitmap, copies, writes>>
requestVars == <<pc, ids, route, todo, found>>
walkVars    == <<cursor, walk, page, seen, owed>>
vars        == <<indexVars, endpoint, requestVars, walkVars, due>>

Nobody == [g \in GlobalIds |-> 0]

Present == {i \in Items : i[2] \in bitmap /\ copies[i] > 0}

Before == {p \in Items \X Items : p[1][2] > p[2][2]}

Init ==
  /\ bitmap \in SUBSET GlobalIds /\ copies \in [Items -> 0..1]
  /\ endpoint \in {"all", "table"}
  /\ pc = "idle" /\ ids = {} /\ route = [g \in {} |-> 0] /\ todo = {} /\ found = Nobody
  /\ cursor = 0 /\ walk = "none" /\ page = {} /\ seen = {} /\ owed = {} /\ due = {}
  /\ writes = 0

(***************************************************************************)
(* The index, as the CDC and ClickHouse's merges change it (external).     *)
(***************************************************************************)
Write ==
  /\ writes < MaxWrites /\ writes' = writes + 1
  /\ \/ \E g \in GlobalIds \ bitmap : bitmap' = bitmap \cup {g} /\ UNCHANGED copies
     \/ /\ \E i \in Items : \E n \in 0..MaxCopies :        \* stored again, merged, or deleted
             n <= copies[i] + 1 /\ n # copies[i] /\ copies' = [copies EXCEPT ![i] = n]
        /\ UNCHANGED bitmap
  /\ owed' = owed \cap Present' /\ due' = due \cap Present'
  /\ UNCHANGED <<endpoint, requestVars, cursor, walk, page, seen>>

(***************************************************************************)
(* A request.                                                              *)
(***************************************************************************)
Newest(n, S) == {g \in S : Cardinality({h \in S : h > g}) < n}

\* Mistake: the record of the cursor once more.
Matching_Inclusive == {g \in bitmap : cursor = 0 \/ g <= cursor}

Matching == {g \in bitmap : cursor = 0 \/ g < cursor}

\* getTableName takes the first table with the hash it meets, in map order.
Routes(S) == {r \in [S -> Tables \cup {"unknown"}] : \A g \in S :
                r[g] \in IF Homes[g] = {} THEN {"unknown"} ELSE Homes[g]}

GiveUp == /\ walk' = "void" /\ page' = {} /\ seen' = {} /\ owed' = {} /\ cursor' = 0

\* The bitmap query.  A stream that breaks off goes unnoticed: too few ids (short).
BitmapQuery ==
  /\ pc = "idle" /\ (walk = "on" \/ cursor = 0)
  /\ \E r \in Routes(Newest(Limit + 1, Matching)) :
       /\ ids' = DOMAIN r /\ route' = r
       /\ todo' = {r[g] : g \in DOMAIN r} \ {"unknown"}
       \* a row whose id goes to a namesake of its table will not be looked up
       /\ due' = {i \in IF walk = "on" THEN owed ELSE Present : i[2] \in DOMAIN r => i[1] = r[i[2]]}
  /\ pc' = "lookup" /\ found' = Nobody
  /\ UNCHANGED <<indexVars, endpoint, walkVars>>

BitmapQueryShort ==
  /\ pc = "idle" /\ (walk = "on" \/ cursor = 0)
  /\ Matching # {} /\ GiveUp
  /\ UNCHANGED <<indexVars, endpoint, requestVars, due>>

\* It fails: SearchOptimized answers 500, and the client may ask again; SearchRecords
\* turns to PostgreSQL: to MultiColumnSearch, which starts from the first row and gives no
\* cursor to go on from, or, for a single column, to GetRecords, whose cursor is another.
BitmapQueryFails ==
  /\ pc = "idle" /\ endpoint = "table" /\ (walk = "on" \/ cursor = 0)
  /\ GiveUp
  /\ UNCHANGED <<indexVars, endpoint, requestVars, due>>

\* What a lookup of table t answers: the records of S among the ids that went to t.
Answered(t, S) == [g \in GlobalIds |-> IF g \notin ids \/ route[g] # t THEN found[g]
                                       ELSE IF g \in S THEN copies[<<t, g>>] ELSE 0]

Lookup(t) ==
  /\ pc = "lookup" /\ t \in todo
  /\ found' = Answered(t, ids) /\ todo' = todo \ {t}
  /\ UNCHANGED <<indexVars, endpoint, pc, ids, route, walkVars, due>>

\* The goroutine returns with no records, or, if the stream breaks off, with the newest
\* ones; nobody hears of it.
LookupFails(t) ==
  /\ pc = "lookup" /\ t \in todo
  /\ LET asked == {g \in ids : route[g] = t} IN
       \E n \in 0..(Cardinality(asked) - 1) :
         /\ found' = Answered(t, Newest(n, asked))
         /\ due' = {i \in due : ~(i[1] = t /\ i[2] \in asked \ Newest(n, asked))}
  /\ todo' = todo \ {t}
  /\ UNCHANGED <<indexVars, endpoint, pc, ids, route, walkVars>>

\* How many records came back for the ids of S.
CountOf(S) == Cardinality({c \in S \X (1..MaxCopies) : c[2] <= found[c[1]]})

\* Mistake: the page is cut before the records are in the order of their ids.
Above_Ascending(g) == CountOf({h \in ids : h < g})

Above(g) == CountOf({h \in ids : h > g})

\* Mistake: the ids decide, although they may have lost their records.
HasMore_ByIds == Cardinality(ids) > Limit

Shown   == {g \in ids : found[g] > 0 /\ Above(g) < Limit}
HasMore == CountOf(ids) > Limit

Finish == pc' = "idle" /\ ids' = {} /\ route' = [g \in {} |-> 0] /\ todo' = {} /\ found' = Nobody /\ due' = {}

\* Sort, cut to the page, and encode the cursor if there is more.  Ids left over that lost
\* their records end the walk too early.
Assemble ==
  /\ pc = "lookup" /\ todo = {}
  /\ IF ~HasMore /\ Cardinality(ids) > Limit THEN GiveUp
     ELSE /\ page' = {<<route[g], g>> : g \in Shown}
          /\ seen' = (IF walk = "on" THEN seen ELSE {}) \cup page'
          /\ owed' = due
          /\ walk' = IF HasMore THEN "on" ELSE "over"
          /\ cursor' = IF HasMore /\ Shown # {} THEN CHOOSE g \in Shown : \A h \in Shown : g <= h ELSE 0
  /\ Finish
  /\ UNCHANGED <<indexVars, endpoint>>

Next == \/ Write
        \/ BitmapQuery \/ BitmapQueryShort \/ BitmapQueryFails
        \/ \E t \in Tables : Lookup(t) \/ LookupFails(t)
        \/ Assemble

Spec == Init /\ [][Next]_vars

\* A client in the middle of a walk goes on; the request's queries end, one way or the
\* other, and the goroutines are waited for.
FairSpec == /\ Spec
            /\ WF_vars(walk = "on" /\ BitmapQuery)
            /\ WF_vars(\E t \in Tables : Lookup(t) \/ LookupFails(t))
            /\ WF_vars(Assemble)

(***************************************************************************)
(* Properties.                                                             *)
(***************************************************************************)
\* Every variable has its type, and a walk that goes on has a cursor.
TypeOK ==
  /\ bitmap \subseteq GlobalIds /\ copies \in [Items -> 0..MaxCopies]
  /\ endpoint \in {"all", "table"} /\ pc \in {"idle", "lookup"}
  /\ ids \subseteq GlobalIds /\ route \in [ids -> Tables \cup {"unknown"}]
  /\ todo \subseteq Tables /\ found \in [GlobalIds -> 0..MaxCopies]
  /\ walk \in {"none", "on", "over", "void"} /\ cursor \in 0..MaxGlobalId
  /\ (walk = "on") = (cursor # 0)
  /\ page \cup seen \cup owed \cup due \subseteq Items /\ writes \in 0..MaxWrites

\* A walk through the results is one of PageWalk's: no record twice on different pages,
\* none out of order, and none missed that could be found throughout, except where a
\* lookup failed, a namesake's id got in the way, or too few records were left of the ids.
Promise == INSTANCE PageWalk WITH items <- Present, before <- Before
ImplementsWalk == Promise!WalkSpec

\* Every walk ends, even while the index grows: each page starts below the one before.
WalkEnds == (walk = "on") ~> (walk # "on")
=============================================================================

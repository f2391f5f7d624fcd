---------------------------- MODULE KeysetPages ----------------------------
(***************************************************************************)
(* Listing a table page by page: GET /api/tables/{table}/records, as       *)
(* DynamicHandler.GetRecords and DynamicRepository.GetRecords answer it.   *)
(*                                                                         *)
(* A page is one query for Limit+1 rows past the cursor.  The cursor is    *)
(* the last row of the page before, through JSON, where every number is a  *)
(* float64: that of the sort column as well as that of the key.  Of the    *)
(* primary key only the first column is compared and sorted by, and a      *)
(* table without one has no cursor condition.  The first page goes through *)
(* a cache.  Rows come, change and go away between two pages.              *)
(***************************************************************************)
EXTENDS Integers, FiniteSets

CONSTANTS
  MaxId,       \* rows are numbered up to here (a bound)
  Keys,        \* what PrimaryKey[0] may hold, row by row: the same in two rows if the
               \* key has more columns than one
  NoKey,       \* the table has no primary key
  Values,      \* what the sort column may hold, numbers
  Null,        \* its NULL
  Absent,      \* no row with that key
  Limit,       \* rows on a page
  Exact,       \* 2^53: numbers up to here survive JSON unchanged
  MaxChanges   \* how often the table changes (a bound)

ASSUME KeysetAssumption ==
  /\ MaxId \in Nat /\ Limit \in Nat \ {0} /\ Exact \in Nat /\ MaxChanges \in Nat
  /\ Values \subseteq Int /\ Keys \subseteq [1..MaxId -> Int] /\ NoKey \notin Keys
  /\ Null \notin Int /\ Absent \notin Int /\ Null # Absent

VARIABLES
  table,     \* PostgreSQL: the sort column of every row
  key,       \* its PrimaryKey[0], or NoKey
  order,     \* sort_by and sort_dir of the walk: by key, by the column up or down
  cache,     \* the cached answer to the request without a cursor
  fill,      \* such an answer that another request has read and not stored yet
  last,      \* next_cursor, before it is encoded
  walk,      \* "none", "on", "over", "void" as in PageWalk
  page,      \* the page it was shown last
  seen,      \* rows shown by the walk
  owed,      \* rows there since its first page was read, see Owable
  changes

listVars == <<cache, fill>>
walkVars == <<last, walk, page, seen, owed>>
vars     == <<table, key, order, listVars, walkVars, changes>>

Ids    == 1..MaxId
Column == Values \cup {Null}
Items  == Ids \X Column
Empty  == [rows |-> {}, more |-> FALSE, last |-> <<>>, since |-> {}, whole |-> FALSE, held |-> FALSE]

Present == {<<i, table[i]>> : i \in {j \in Ids : table[j] # Absent}}

\* The first column of a row's key.  Rows of a table without a key cannot be told apart.
KeyIn(k, r) == IF k = NoKey THEN 0 ELSE k[r[1]]
Key(r)      == KeyIn(key, r)

\* ORDER BY column ASC, key ASC: NULLs last; DESC, DESC is the same backwards.
Smaller(v, w)      == v # Null /\ (w = Null \/ v < w)
Ascending(k, a, b) == Smaller(a[2], b[2]) \/ (a[2] = b[2] /\ KeyIn(k, a) < KeyIn(k, b))
Before == [k \in Keys \cup {NoKey} |->
  [pk   |-> {p \in Items \X Items : KeyIn(k, p[1]) < KeyIn(k, p[2])},
   asc  |-> {p \in Items \X Items : Ascending(k, p[1], p[2])},
   desc |-> {p \in Items \X Items : Ascending(k, p[2], p[1])}]]

Precedes(a, b) == <<a, b>> \in Before[key][order]

\* Between 2^53 and 2^54 a float64 holds every second integer; halfway goes to the one
\* that is a multiple of 4.
Json(i) == LET over == i - Exact
           IN IF over <= 0 THEN i
              ELSE CASE over % 4 = 1 -> i - 1
                     [] over % 4 = 3 -> i + 1
                     [] OTHER        -> i

\* What the next request finds in the cursor for a value of the sort column.
JsonValue(v) == IF v = Null THEN Null ELSE Json(v)

\* Mistake: no tiebreaker.
Past_ByColumn(c, r) ==
  LET v == JsonValue(c[2])  k == Json(Key(c))
  IN CASE key = NoKey  -> TRUE
       [] order = "pk" -> Key(r) > k
       [] OTHER        -> /\ v # Null /\ r[2] # Null
                          /\ IF order = "asc" THEN r[2] > v ELSE r[2] < v

\* The condition of buildQuery: row r lies past cursor c.  It is unknown, hence not true,
\* as soon as a NULL is compared; without a primary key there is none.
Past(c, r) ==
  LET v == JsonValue(c[2])  k == Json(Key(c))
  IN CASE key = NoKey  -> TRUE
       [] order = "pk" -> Key(r) > k
       [] OTHER        -> /\ v # Null /\ r[2] # Null
                          /\ IF order = "asc" THEN r[2] > v \/ (r[2] = v /\ Key(r) > k)
                             ELSE r[2] < v \/ (r[2] = v /\ Key(r) < k)

Matching(c) == {r \in Present : Past(c, r)}

\* Rows that may be the first of S: PostgreSQL gives ties in any order.
FirstOf(p, S) == p \subseteq S /\ \A a \in p : \A b \in S : Precedes(b, a) => b \in p

\* Mistake: the first row of the page instead.
LastOf_First(l, p) == l \in p /\ \A a \in p : ~Precedes(a, l)

LastOf(l, p) == l \in p /\ \A a \in p : ~Precedes(l, a)

\* A cursor taken from row l finds the rows behind it: there is a key to compare, and what
\* is compared comes back from JSON as it was.
Usable(l) == /\ key # NoKey /\ Json(Key(l)) = Key(l)
             /\ order = "pk" \/ (l[2] # Null /\ Json(l[2]) = l[2])

\* No row that is left for later ties with l: the condition would lose it.
NoTie(l, rest) == \A r \in rest : Precedes(l, r)

\* What a walk that starts now has to be shown: rows without a sort value are lost to
\* the condition, so nothing is promised of them.
Owable == {r \in Present : order = "pk" \/ r[2] # Null}

\* Page p, with more to come behind cursor l, or an answer that spoils the walk: then it
\* does not matter any more what it says.
Spoilt == [Empty EXCEPT !.held = TRUE]
Answer(p, m, l, whole) ==
  IF whole THEN [rows |-> p, more |-> m, last |-> l, since |-> Owable, whole |-> TRUE, held |-> TRUE]
  ELSE Spoilt

Pages(S) == {p \in SUBSET S : Cardinality(p) <= Limit /\ FirstOf(p, S)}

\* Pages with more to come.
FullPages(S) == {p \in Pages(S) : Cardinality(p) = Limit /\ p # S}

\* Mistake: the cursor is taken from row Limit+1, before that row is cut off.
MoreAnswers_ExtraRow(S) ==
  UNION {{Answer(p, TRUE, l, Usable(l) /\ NoTie(l, S \ (p \cup {l}))) :
            l \in {k \in S \ p : FirstOf(p \cup {k}, S)}} : p \in FullPages(S)}

\* The query whose condition selects S finds more rows than it shows (json.Marshal may
\* fail on the last of them, and then has_more comes without a cursor);
MoreAnswers(S) ==
  UNION {{Spoilt} \cup
         {Answer(p, TRUE, l, Usable(l) /\ NoTie(l, S \ p)) : l \in {k \in p : LastOf(k, p)}} :
         p \in FullPages(S)}

\* or it finds all there are.  rows.Err is never looked at: a stream that breaks off
\* before row Limit+1 is taken for the end of the list.
LastAnswers(S) == {Answer(p, FALSE, <<>>, p = S) : p \in Pages(S)}

Answers(S) == MoreAnswers(S) \cup LastAnswers(S)

Init ==
  /\ table \in [Ids -> Column \cup {Absent}]
  /\ key \in Keys \cup {NoKey} /\ order \in {"pk", "asc", "desc"}
  /\ cache = Empty /\ fill = Empty
  /\ last = <<>> /\ walk = "none" /\ page = {} /\ seen = {} /\ owed = {}
  /\ changes = 0

\* Mistake: no cursor goes out with a full page.
Receive_NoCursor(a, old, due) ==
  /\ walk' = IF a.more THEN "on" ELSE "over"
  /\ page' = a.rows /\ seen' = old \cup a.rows /\ owed' = due /\ last' = <<>>

\* The walk has been given answer a, and owes due.
Receive(a, old, due) ==
  IF a.whole
  THEN /\ walk' = IF a.more THEN "on" ELSE "over"
       /\ page' = a.rows /\ seen' = old \cup a.rows /\ owed' = due /\ last' = a.last
  ELSE walk' = "void" /\ page' = {} /\ seen' = {} /\ owed' = {} /\ last' = <<>>

\* A request without a cursor, answered from the cache or by a query.
FirstPage ==
  /\ walk # "on"
  /\ \/ cache.held /\ Receive(cache, {}, cache.since) /\ UNCHANGED cache
     \/ /\ ~cache.held
        /\ \E a \in Answers(Present) : Receive(a, {}, a.since) /\ cache' = a
  /\ UNCHANGED <<table, key, order, fill, changes>>

\* A request with the cursor of the page before.
NextPage ==
  /\ walk = "on"
  /\ \E a \in Answers(Matching(last)) : Receive(a, seen, owed)
  /\ UNCHANGED <<table, key, order, listVars, changes>>

\* Another client's request for the first page: its query, and later its cache.Set.
OtherQuery ==
  /\ ~cache.held /\ ~fill.held
  /\ \E a \in Answers(Present) : fill' = a
  /\ UNCHANGED <<table, key, order, cache, walkVars, changes>>

OtherStore ==
  /\ fill.held /\ cache' = fill /\ fill' = Empty
  /\ UNCHANGED <<table, key, order, walkVars, changes>>

\* The cached answer expires.
Expire == cache.held /\ cache' = Empty /\ UNCHANGED <<table, key, order, fill, walkVars, changes>>

\* A transaction inserts, updates or deletes a row.
Write ==
  /\ changes < MaxChanges /\ changes' = changes + 1
  /\ \E i \in Ids, v \in Column \cup {Absent} : table' = [table EXCEPT ![i] = v]
  /\ owed' = owed \cap Present'
  /\ cache' = [cache EXCEPT !.since = @ \cap Present']
  /\ fill' = [fill EXCEPT !.since = @ \cap Present']
  /\ UNCHANGED <<key, order, last, walk, page, seen>>

Next == FirstPage \/ NextPage \/ OtherQuery \/ OtherStore \/ Expire \/ Write

Spec == Init /\ [][Next]_vars

(***************************************************************************)
(* Properties.                                                             *)
(***************************************************************************)
AnswerType == [rows : SUBSET Items, more : BOOLEAN, last : Items \cup {<<>>},
               since : SUBSET Items, whole : BOOLEAN, held : BOOLEAN]

\* Every variable has its type; a walk that goes on has a usable cursor.
TypeOK ==
  /\ table \in [Ids -> Column \cup {Absent}] /\ key \in Keys \cup {NoKey} /\ order \in {"pk", "asc", "desc"}
  /\ {cache, fill} \subseteq AnswerType
  /\ walk \in {"none", "on", "over", "void"} /\ page \cup seen \subseteq Items /\ owed \subseteq Items
  /\ last \in Items \cup {<<>>} /\ (walk = "on" => last # <<>> /\ Usable(last))
  /\ changes \in 0..MaxChanges

\* At every point of a walk the cursor separates what was shown from what is to come: no
\* row beyond it has been shown, and an owed row that is not beyond it has not been missed.
CursorSeparates == walk = "on" =>
  /\ \A r \in seen : ~Precedes(last, r)
  /\ \A r \in owed : Precedes(last, r) \/ r \in seen

\* A cached first page is as good as a fresh one, for the rows that have not changed.
CacheSeparates == \A a \in {cache, fill} : a.held /\ a.whole =>
  IF a.more THEN \A r \in a.since : Precedes(a.last, r) \/ r \in a.rows
  ELSE a.since \subseteq a.rows

\* A walk is one of PageWalk's: no row twice, none out of order, none missed that was
\* there all along, whatever the sorting, the ties, the cache and the writers do, unless
\* it is void: no usable key, a cursor that JSON or NULL spoils, ties of a composite
\* key cut by the end of a page, or a stream that breaks off.
Promise == INSTANCE PageWalk
  WITH items <- Present, before <- Before[key][order]
ImplementsWalk == Promise!WalkSpec
=============================================================================

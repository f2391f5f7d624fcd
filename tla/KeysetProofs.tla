---------------------------- MODULE KeysetProofs ----------------------------
(***************************************************************************)
(* KeysetPages for tables of any size, values, page limits and writers:    *)
(* the cursor separates what was shown from what is to come, cached first  *)
(* pages included, and every walk is one of PageWalk's.                    *)
(*                                                                         *)
(* The argument: the rows of a page are the first ones past its cursor,    *)
(* and ties - rows of one value and one first key column, or two versions  *)
(* of one row - stay on one side of it, because a page whose end would     *)
(* part them spoils the walk.                                              *)
(***************************************************************************)
EXTENDS KeysetPages, TLAPS

Orders == {"pk", "asc", "desc"}

\* What the cursor l tells of a walk that has shown s and owes o.
Separates(s, o, l) ==
  /\ l \in s
  /\ \A r \in s : ~Precedes(l, r)
  /\ \A r \in o : Precedes(l, r) \/ r \in s

\* An answer, fresh or cached.
Sound(a) ==
  /\ a \in AnswerType /\ a.since \subseteq Owable
  /\ a.held /\ a.whole /\ a.more => Usable(a.last) /\ Separates(a.rows, a.since, a.last)
  /\ a.held /\ a.whole /\ ~a.more => a.since \subseteq a.rows

IInv ==
  /\ TypeOK /\ Sound(cache) /\ Sound(fill)
  /\ owed \subseteq Owable
  /\ walk = "on" => Separates(seen, owed, last)

-----------------------------------------------------------------------------
Keyed == key \in Keys \cup {NoKey}

\* What the order of a list is, without the sets of pairs.
LEMMA PrecedesMeans ==
  ASSUME Keyed, NEW a \in Items, NEW b \in Items
  PROVE  /\ order = "pk"   => (Precedes(a, b) <=> Key(a) < Key(b))
         /\ order = "asc"  => (Precedes(a, b) <=> Ascending(key, a, b))
         /\ order = "desc" => (Precedes(a, b) <=> Ascending(key, b, a))
  BY DEF Precedes, Before, Key, Keyed

LEMMA ItemParts == ASSUME Keyed, NEW a \in Items
                   PROVE  /\ Key(a) \in Int /\ KeyIn(key, a) = Key(a)
                          /\ a[2] \in Int \/ a[2] = Null
                          /\ a # <<>>
<1>1. PICK i \in Ids, v \in Column : a = <<i, v>>
  BY DEF Items
<1>2. a[1] = i /\ a[2] = v /\ a # <<>>
  BY <1>1
<1>3. v \in Int \/ v = Null
  BY KeysetAssumption DEF Column
<1>4. KeyIn(key, a) \in Int
  <2>1. CASE key = NoKey
    BY <2>1 DEF KeyIn
  <2>2. CASE key \in [Ids -> Int] /\ key # NoKey
    BY <1>2, <2>2 DEF KeyIn
  <2> QED BY <2>1, <2>2, KeysetAssumption DEF Keyed, Ids
<1> QED BY <1>2, <1>3, <1>4 DEF Key

\* The list is in a strict weak order: rows that tie come before, or after, the same rows.
LEMMA OrderIsStrict ==
  ASSUME Keyed, order \in Orders, NEW a \in Items, NEW b \in Items, NEW c \in Items
  PROVE  /\ ~Precedes(a, a)
         /\ Precedes(a, b) /\ Precedes(b, c) => Precedes(a, c)
         /\ Precedes(a, c) => Precedes(a, b) \/ Precedes(b, c)
<1>1. /\ Key(a) \in Int /\ Key(b) \in Int /\ Key(c) \in Int
      /\ KeyIn(key, a) = Key(a) /\ KeyIn(key, b) = Key(b) /\ KeyIn(key, c) = Key(c)
      /\ a[2] \in Int \/ a[2] = Null
      /\ b[2] \in Int \/ b[2] = Null
      /\ c[2] \in Int \/ c[2] = Null
  BY ItemParts
<1>2. Null \notin Int
  BY KeysetAssumption
<1>3. CASE order = "pk"
  BY <1>1, <1>3, PrecedesMeans
<1>4. CASE order = "asc"
  <2>1. /\ ~Ascending(key, a, a)
        /\ Ascending(key, a, b) /\ Ascending(key, b, c) => Ascending(key, a, c)
        /\ Ascending(key, a, c) => Ascending(key, a, b) \/ Ascending(key, b, c)
    BY <1>1, <1>2 DEF Ascending, Smaller
  <2> QED BY <1>4, <2>1, PrecedesMeans
<1>5. CASE order = "desc"
  <2>1. /\ ~Ascending(key, a, a)
        /\ Ascending(key, c, b) /\ Ascending(key, b, a) => Ascending(key, c, a)
        /\ Ascending(key, c, a) => Ascending(key, b, a) \/ Ascending(key, c, b)
    BY <1>1, <1>2 DEF Ascending, Smaller
  <2> QED BY <1>5, <2>1, PrecedesMeans
<1> QED BY <1>3, <1>4, <1>5 DEF Orders

\* The condition of the query, with a cursor that it can use: it selects no row that does
\* not come later, and every later one that a walk may owe.
LEMMA PastIsLater ==
  ASSUME Keyed, order \in Orders, NEW c \in Items, NEW r \in Items, Usable(c)
  PROVE  /\ Past(c, r) => Precedes(c, r)
         /\ Precedes(c, r) /\ (order = "pk" \/ r[2] # Null) => Past(c, r)
<1>1. /\ Key(c) \in Int /\ Key(r) \in Int /\ KeyIn(key, c) = Key(c) /\ KeyIn(key, r) = Key(r)
      /\ c[2] \in Int \/ c[2] = Null
      /\ r[2] \in Int \/ r[2] = Null
  BY ItemParts
<1>2. key # NoKey /\ Json(Key(c)) = Key(c)
  BY DEF Usable
<1>3. CASE order = "pk"
  <2>1. Past(c, r) <=> Key(r) > Key(c)
    BY <1>2, <1>3 DEF Past
  <2> QED BY <1>1, <1>3, <2>1, PrecedesMeans
<1>4. CASE order # "pk"
  <2>1. c[2] # Null /\ JsonValue(c[2]) = c[2]
    BY <1>4 DEF Usable, JsonValue
  <2>2. Past(c, r) <=> /\ r[2] # Null
                       /\ IF order = "asc" THEN r[2] > c[2] \/ (r[2] = c[2] /\ Key(r) > Key(c))
                          ELSE r[2] < c[2] \/ (r[2] = c[2] /\ Key(r) < Key(c))
    BY <1>2, <1>4, <2>1 DEF Past
  <2>3. CASE order = "asc"
    BY <1>1, <2>1, <2>2, <2>3, PrecedesMeans DEF Ascending, Smaller
  <2>4. CASE order = "desc"
    BY <1>1, <2>1, <2>2, <2>4, PrecedesMeans DEF Ascending, Smaller
  <2> QED BY <1>4, <2>3, <2>4 DEF Orders
<1> QED BY <1>3, <1>4

\* Rows of a table.
LEMMA RowsAreItems ==
  ASSUME table \in [Ids -> Column \cup {Absent}]
  PROVE  Present \subseteq Items /\ Owable \subseteq Present
  BY DEF Present, Owable, Items

LEMMA NothingHeld == Empty \in AnswerType /\ Spoilt \in AnswerType /\ Spoilt.held /\ ~Spoilt.whole
                     /\ Spoilt.since = {}
  BY DEF Empty, Spoilt, AnswerType

\* What an answer to a query is.
LEMMA AnswerMeans ==
  ASSUME table \in [Ids -> Column \cup {Absent}],
         NEW S \in SUBSET Items, NEW a \in Answers(S)
  PROVE  /\ a \in AnswerType /\ a.held /\ a.since \subseteq Owable
         /\ a.whole => /\ a.since = Owable /\ a.rows \subseteq S /\ FirstOf(a.rows, S)
                       /\ a.more  => /\ LastOf(a.last, a.rows) /\ Usable(a.last)
                                     /\ NoTie(a.last, S \ a.rows)
                       /\ ~a.more => a.rows = S
<1>0. Owable \subseteq Items
  BY RowsAreItems
<1>1. CASE a = Spoilt
  BY <1>1, NothingHeld
<1>2. CASE \E p \in FullPages(S) : \E l \in p :
             LastOf(l, p) /\ a = Answer(p, TRUE, l, Usable(l) /\ NoTie(l, S \ p)) /\ a # Spoilt
  <2>1. PICK p \in FullPages(S) : \E l \in p :
             LastOf(l, p) /\ a = Answer(p, TRUE, l, Usable(l) /\ NoTie(l, S \ p)) /\ a # Spoilt
    BY <1>2
  <2>2. PICK l \in p : LastOf(l, p) /\ a = Answer(p, TRUE, l, Usable(l) /\ NoTie(l, S \ p)) /\ a # Spoilt
    BY <2>1
  <2>3. p \subseteq S /\ FirstOf(p, S) /\ l \in Items
    BY <2>2 DEF FullPages, Pages
  <2>4. Usable(l) /\ NoTie(l, S \ p)
    BY <2>2 DEF Answer
  <2>5. a = [rows |-> p, more |-> TRUE, last |-> l, since |-> Owable, whole |-> TRUE, held |-> TRUE]
    BY <2>2, <2>4 DEF Answer
  <2>6. a \in AnswerType
    BY <1>0, <2>3, <2>5 DEF AnswerType
  <2>7. /\ a.rows = p /\ a.more = TRUE /\ a.last = l /\ a.since = Owable /\ a.held = TRUE
        /\ a.whole = TRUE
    BY <2>5
  <2> QED BY <2>2, <2>3, <2>4, <2>6, <2>7
<1>3. CASE a \in LastAnswers(S) /\ a # Spoilt
  <2>1. PICK p \in Pages(S) : a = Answer(p, FALSE, <<>>, p = S)
    BY <1>3 DEF LastAnswers
  <2>2. p = S /\ FirstOf(p, S)
    BY <1>3, <2>1 DEF Answer, Pages
  <2>3. a = [rows |-> p, more |-> FALSE, last |-> <<>>, since |-> Owable, whole |-> TRUE, held |-> TRUE]
    BY <2>1, <2>2 DEF Answer
  <2>4. a \in AnswerType
    BY <1>0, <2>2, <2>3 DEF AnswerType
  <2>5. /\ a.rows = p /\ a.more = FALSE /\ a.since = Owable /\ a.held = TRUE /\ a.whole = TRUE
    BY <2>3
  <2> QED BY <2>2, <2>4, <2>5
<1>4. a \in MoreAnswers(S) /\ a # Spoilt => \E p \in FullPages(S) : \E l \in p :
             LastOf(l, p) /\ a = Answer(p, TRUE, l, Usable(l) /\ NoTie(l, S \ p)) /\ a # Spoilt
  BY DEF MoreAnswers
<1> QED BY <1>1, <1>2, <1>3, <1>4 DEF Answers

\* An answer to the request without a cursor is sound.
LEMMA FreshIsSound ==
  ASSUME order \in Orders, table \in [Ids -> Column \cup {Absent}],
         NEW a \in Answers(Present)
  PROVE  Sound(a)
<1>1. Present \subseteq Items /\ Owable \subseteq Present
  BY RowsAreItems
<1>2. /\ a \in AnswerType /\ a.held /\ a.since \subseteq Owable
      /\ a.whole => /\ a.since = Owable /\ a.rows \subseteq Present /\ FirstOf(a.rows, Present)
                    /\ a.more  => /\ LastOf(a.last, a.rows) /\ Usable(a.last)
                                  /\ NoTie(a.last, Present \ a.rows)
                    /\ ~a.more => a.rows = Present
  BY <1>1, AnswerMeans
<1>3. a.whole /\ a.more => Separates(a.rows, a.since, a.last)
  BY <1>1, <1>2 DEF Separates, LastOf, NoTie
<1> QED BY <1>1, <1>2, <1>3 DEF Sound

\* What a first page that is sound does for the walk that starts with it.
LEMMA FirstFits ==
  ASSUME Keyed, order \in Orders, NEW a, Sound(a), a.held, a.whole,
         NEW o \in a.since, NEW i \in a.rows, Precedes(o, i)
  PROVE  o \in a.rows
<1>1. a.rows \subseteq Items /\ o \in Items /\ a.more \in BOOLEAN
  BY DEF Sound, AnswerType
<1>2. CASE a.more
  <2>1. Separates(a.rows, a.since, a.last)
    BY <1>2 DEF Sound
  <2>2. ~Precedes(a.last, i) /\ a.last \in Items
    BY <1>1, <2>1 DEF Separates
  <2>3. ~Precedes(a.last, o)
    BY <1>1, <2>2, OrderIsStrict
  <2> QED BY <2>1, <2>3 DEF Separates
<1>3. CASE ~a.more
  BY <1>3 DEF Sound
<1> QED BY <1>1, <1>2, <1>3

\* What the next page does for a walk that has shown s, owes o and stands at l.
LEMMA NextFits ==
  ASSUME Keyed, order \in Orders, table \in [Ids -> Column \cup {Absent}],
         NEW s \in SUBSET Items, NEW o \in SUBSET Owable,
         NEW l \in Items, Usable(l), Separates(s, o, l),
         NEW a \in Answers(Matching(l)), a.whole
  PROVE  /\ a.rows \cap s = {}
         /\ \A i \in a.rows, j \in s : Precedes(j, i)
         /\ \A r \in o : (\E i \in a.rows : Precedes(r, i)) => r \in s \cup a.rows
         /\ a.more => Usable(a.last) /\ Separates(s \cup a.rows, o, a.last)
         /\ ~a.more => o \subseteq s \cup a.rows
<1> DEFINE S == Matching(l)
<1>1. Present \subseteq Items /\ Owable \subseteq Present
  BY RowsAreItems
<1>2. \A r \in S : r \in Present /\ Precedes(l, r)
  BY <1>1, PastIsLater DEF Matching
<1>3. \A r \in o : r \in s \/ r \in S
  <2>1. SUFFICES ASSUME NEW r \in o, r \notin s PROVE r \in S
    OBVIOUS
  <2>2. r \in Items /\ r \in Present /\ (order = "pk" \/ r[2] # Null)
    BY <1>1 DEF Owable
  <2>3. Precedes(l, r)
    BY <2>1 DEF Separates
  <2> QED BY <2>2, <2>3, PastIsLater DEF Matching
<1>4. /\ a.rows \subseteq S /\ FirstOf(a.rows, S)
      /\ a.more  => LastOf(a.last, a.rows) /\ Usable(a.last) /\ NoTie(a.last, S \ a.rows)
      /\ ~a.more => a.rows = S
  BY <1>1, <1>2, AnswerMeans
<1>5. \A i \in a.rows, j \in s : Precedes(j, i) /\ i # j
  <2>1. SUFFICES ASSUME NEW i \in a.rows, NEW j \in s PROVE Precedes(j, i) /\ i # j
    OBVIOUS
  <2>2. Precedes(l, i) /\ i \in Items
    BY <1>1, <1>2, <1>4
  <2>3. ~Precedes(l, j)
    BY DEF Separates
  <2> QED BY <2>2, <2>3, OrderIsStrict
<1>6. \A r \in o : (\E i \in a.rows : Precedes(r, i)) => r \in s \cup a.rows
  BY <1>3, <1>4 DEF FirstOf
<1>7. ASSUME a.more PROVE Usable(a.last) /\ Separates(s \cup a.rows, o, a.last)
  <2>1. LastOf(a.last, a.rows) /\ Usable(a.last) /\ a.last \in Present
    BY <1>2, <1>4, <1>7 DEF LastOf
  <2>2. \A r \in s \cup a.rows : ~Precedes(a.last, r)
    <3>1. ASSUME NEW r \in s PROVE ~Precedes(a.last, r)
      <4>1. Precedes(r, a.last) /\ a.last \in Items /\ r \in Items
        BY <1>1, <1>5, <2>1 DEF LastOf
      <4> QED BY <4>1, OrderIsStrict
    <3> QED BY <2>1, <3>1 DEF LastOf
  <2>3. \A r \in o : Precedes(a.last, r) \/ r \in s \cup a.rows
    BY <1>3, <1>4, <1>7 DEF NoTie
  <2> QED BY <2>1, <2>2, <2>3 DEF Separates, LastOf
<1>8. ~a.more => o \subseteq s \cup a.rows
  BY <1>3, <1>4
<1> QED BY <1>5, <1>6, <1>7, <1>8

-----------------------------------------------------------------------------
\* A walk that is begun, or goes on, keeps the invariant and is one of PageWalk's.
LEMMA InitHolds ==
  ASSUME Init PROVE IInv /\ Promise!WalkInit
<1>1. Present \subseteq Items /\ Owable = Owable
  BY RowsAreItems DEF Init
<1>2. Empty \in AnswerType /\ Empty.held = FALSE /\ Empty.since = {}
  BY DEF Empty, AnswerType
<1>3. Sound(Empty)
  BY <1>2 DEF Sound
<1>4. Before[key][order] \subseteq Items \X Items
  BY DEF Init, Before
<1>5. TypeOK
  BY <1>2, KeysetAssumption DEF Init, TypeOK
<1>6. IInv
  BY <1>3, <1>5 DEF Init, IInv
<1> QED BY <1>1, <1>4, <1>6 DEF Promise!WalkInit, Init

LEMMA FirstPageHolds ==
  ASSUME IInv, FirstPage
  PROVE  IInv' /\ [Promise!WalkNext]_(Promise!pageVars)
<1>1. /\ table \in [Ids -> Column \cup {Absent}] /\ order \in Orders /\ Keyed
      /\ Present \subseteq Items /\ Owable \subseteq Present
      /\ Sound(cache) /\ Sound(fill)
  BY RowsAreItems DEF IInv, TypeOK, Orders, Keyed
<1>2. /\ table' = table /\ key' = key /\ order' = order /\ fill' = fill /\ changes' = changes /\ walk # "on"
      /\ Present' = Present /\ Owable' = Owable
  BY DEF FirstPage, Present, Owable
<1>3. PICK a : Sound(a) /\ a.held /\ Receive(a, {}, a.since) /\ cache' = a
  <2>1. CASE cache.held /\ Receive(cache, {}, cache.since) /\ UNCHANGED cache
    BY <1>1, <2>1
  <2>2. CASE \E a \in Answers(Present) : Receive(a, {}, a.since) /\ cache' = a
    <3>1. PICK a \in Answers(Present) : Receive(a, {}, a.since) /\ cache' = a
      BY <2>2
    <3>2. Sound(a) /\ a.held
      BY <1>1, FreshIsSound, AnswerMeans
    <3> QED BY <3>1, <3>2
  <2> QED BY <2>1, <2>2 DEF FirstPage
<1>4. a \in AnswerType /\ a.since \subseteq Owable /\ a.rows \subseteq Items /\ a.more \in BOOLEAN
      /\ a.last \in Items \cup {<<>>}
  BY <1>3 DEF Sound, AnswerType
<1>5. Sound(cache)' /\ Sound(fill)'
  BY <1>1, <1>2, <1>3 DEF Sound, Usable, Key, Owable, Separates, Precedes
<1>6. CASE ~a.whole
  <2>1. walk' = "void" /\ page' = {} /\ seen' = {} /\ owed' = {} /\ last' = <<>>
    BY <1>3, <1>6 DEF Receive
  <2>2. TypeOK'
    BY <1>1, <1>2, <1>5, <2>1 DEF TypeOK, IInv, Sound
  <2>3. IInv'
    BY <1>5, <2>1, <2>2 DEF IInv
  <2> QED BY <1>2, <2>1, <2>3 DEF Promise!WalkNext, Promise!Void
<1>7. CASE a.whole
  <2>1. /\ walk' = IF a.more THEN "on" ELSE "over"
        /\ page' = a.rows /\ seen' = a.rows /\ owed' = a.since /\ last' = a.last
    BY <1>3, <1>7 DEF Receive
  <2>2. a.more => Usable(a.last) /\ Separates(a.rows, a.since, a.last) /\ a.last # <<>>
    BY <1>1, <1>3, <1>4, <1>7, ItemParts DEF Sound, Separates
  <2>3. ~a.more => a.since \subseteq a.rows
    BY <1>3, <1>7 DEF Sound
  <2>4. a.more => Usable(last') /\ Usable(a.last)'
    BY <1>2, <2>1, <2>2 DEF Usable, Key
  <2>5. TypeOK'
    BY <1>1, <1>2, <1>4, <1>5, <2>1, <2>2 DEF TypeOK, IInv, Sound, Usable, Key
  <2>6. walk' = "on" => Separates(seen, owed, last)'
    BY <1>2, <2>1, <2>2 DEF Separates, Precedes
  <2>7. IInv'
    BY <1>2, <1>4, <1>5, <2>1, <2>5, <2>6 DEF IInv
  <2>8. \A o \in a.since : (\E i \in a.rows : <<o, i>> \in Before[key][order]) => o \in a.rows
    BY <1>1, <1>3, <1>7, FirstFits DEF Precedes
  <2>9. Promise!Fits(a.rows, {}, a.since)
    BY <2>8 DEF Promise!Fits
  <2>10. Promise!Begin
    BY <1>1, <1>2, <1>4, <2>1, <2>3, <2>9 DEF Promise!Begin, Promise!Show
  <2> QED BY <2>7, <2>10 DEF Promise!WalkNext
<1> QED BY <1>6, <1>7

LEMMA NextPageHolds ==
  ASSUME IInv, NextPage
  PROVE  IInv' /\ [Promise!WalkNext]_(Promise!pageVars)
<1>1. /\ table \in [Ids -> Column \cup {Absent}] /\ order \in Orders /\ Keyed
      /\ Present \subseteq Items /\ Owable \subseteq Present
      /\ owed \subseteq Owable /\ seen \subseteq Items
  BY RowsAreItems DEF IInv, TypeOK, Orders, Keyed
<1>2. /\ table' = table /\ key' = key /\ order' = order /\ cache' = cache /\ fill' = fill /\ changes' = changes
      /\ walk = "on" /\ Present' = Present /\ Owable' = Owable
  BY DEF NextPage, Present, Owable, listVars
<1>3. last \in Items /\ Usable(last) /\ Separates(seen, owed, last)
  BY <1>2 DEF IInv, TypeOK
<1>4. PICK a \in Answers(Matching(last)) : Receive(a, seen, owed)
  BY DEF NextPage
<1>5. a \in AnswerType
  BY <1>1, AnswerMeans DEF Matching
<1>6. a.rows \subseteq Items /\ a.more \in BOOLEAN /\ a.last \in Items \cup {<<>>}
  BY <1>5 DEF AnswerType
<1>7. Sound(cache)' /\ Sound(fill)'
  BY <1>2 DEF IInv, Sound, Usable, Key, Owable, Separates, Precedes
<1>8. CASE ~a.whole
  <2>1. walk' = "void" /\ page' = {} /\ seen' = {} /\ owed' = {} /\ last' = <<>>
    BY <1>4, <1>8 DEF Receive
  <2>2. TypeOK'
    BY <1>1, <1>2, <2>1 DEF TypeOK, IInv
  <2>3. IInv'
    BY <1>7, <2>1, <2>2 DEF IInv
  <2> QED BY <1>2, <2>1, <2>3 DEF Promise!WalkNext, Promise!Void
<1>9. CASE a.whole
  <2>1. /\ walk' = IF a.more THEN "on" ELSE "over"
        /\ page' = a.rows /\ seen' = seen \cup a.rows /\ owed' = owed /\ last' = a.last
    BY <1>4, <1>9 DEF Receive
  <2>2. /\ a.rows \cap seen = {}
        /\ \A i \in a.rows, j \in seen : Precedes(j, i)
        /\ \A r \in owed : (\E i \in a.rows : Precedes(r, i)) => r \in seen \cup a.rows
        /\ a.more => Usable(a.last) /\ Separates(seen \cup a.rows, owed, a.last)
        /\ ~a.more => owed \subseteq seen \cup a.rows
    BY <1>1, <1>3, <1>4, <1>9, NextFits
  <2>3. a.more => a.last # <<>> /\ Usable(a.last)'
    BY <1>1, <1>2, <1>6, <2>2, ItemParts DEF Usable, Key, Separates
  <2>4. TypeOK'
    BY <1>1, <1>2, <1>6, <2>1, <2>2, <2>3 DEF TypeOK, IInv, Usable, Key
  <2>5. walk' = "on" => Separates(seen, owed, last)'
    BY <1>2, <2>1, <2>2 DEF Separates, Precedes
  <2>6. IInv'
    BY <1>1, <1>2, <1>7, <2>1, <2>4, <2>5 DEF IInv
  <2>7. Promise!Fits(a.rows, seen, owed)
    BY <2>2 DEF Promise!Fits, Precedes
  <2>8. Promise!Continue
    BY <1>1, <1>2, <1>6, <2>1, <2>2, <2>7 DEF Promise!Continue, Promise!Show
  <2> QED BY <2>6, <2>8 DEF Promise!WalkNext
<1> QED BY <1>8, <1>9

\* Another request fills the cache, or the cached answer expires.
LEMMA CacheStepsHold ==
  ASSUME IInv, OtherQuery \/ OtherStore \/ Expire
  PROVE  IInv' /\ UNCHANGED <<Present, Before[key][order], owed, page, seen, walk>>
<1>1. /\ table \in [Ids -> Column \cup {Absent}] /\ order \in Orders /\ Keyed
      /\ Present \subseteq Items
      /\ Sound(cache) /\ Sound(fill)
  BY RowsAreItems DEF IInv, TypeOK, Orders, Keyed
<1>2. /\ table' = table /\ key' = key /\ order' = order /\ changes' = changes
      /\ UNCHANGED <<last, walk, page, seen, owed>>
      /\ Present' = Present /\ Owable' = Owable
  BY DEF OtherQuery, OtherStore, Expire, Present, Owable, walkVars
<1>3. Sound(Empty)
  BY DEF Sound, Empty, AnswerType
<1>4. /\ cache' = cache \/ cache' = fill \/ cache' = Empty
      /\ fill' = fill \/ fill' = Empty \/ \E a \in Answers(Present) : fill' = a
  BY DEF OtherQuery, OtherStore, Expire
<1>5. Sound(cache') /\ Sound(fill')
  BY <1>1, <1>3, <1>4, FreshIsSound
<1>6. Sound(cache)' /\ Sound(fill)'
  BY <1>2, <1>5 DEF Sound, Usable, Key, Owable, Separates, Precedes
<1>7. TypeOK'
  BY <1>2, <1>5 DEF IInv, TypeOK, Sound, Usable, Key
<1>8. IInv'
  BY <1>2, <1>6, <1>7 DEF IInv, Separates, Precedes
<1> QED BY <1>2, <1>8

\* A row comes, changes or goes: what is owed shrinks, and the cursor stays where it is.
LEMMA WriteHolds ==
  ASSUME IInv, Write
  PROVE  IInv' /\ Promise!Change
<1>1. /\ table \in [Ids -> Column \cup {Absent}]
      /\ Sound(cache) /\ Sound(fill) /\ owed \subseteq Owable
  BY DEF IInv, TypeOK
<1>2. table' \in [Ids -> Column \cup {Absent}]
  BY <1>1 DEF Write
<1>3. Present' \subseteq Items
  BY <1>2 DEF Present, Items
<1>4. /\ key' = key /\ order' = order /\ UNCHANGED <<last, walk, page, seen>> /\ owed' = owed \cap Present'
      /\ changes' \in 0..MaxChanges
  BY KeysetAssumption DEF Write, IInv, TypeOK
<1>5. ASSUME NEW a, NEW b, Sound(a), b = [a EXCEPT !.since = @ \cap Present']
      PROVE  Sound(b)'
  <2>1. b \in AnswerType /\ b.since = a.since \cap Present' /\ b.rows = a.rows
        /\ b.more = a.more /\ b.last = a.last /\ b.held = a.held /\ b.whole = a.whole
    BY <1>5 DEF Sound, AnswerType
  <2>2. b.since \subseteq Owable'
    BY <1>4, <1>5, <2>1 DEF Sound, Owable
  <2> QED BY <1>4, <1>5, <2>1, <2>2 DEF Sound, Usable, Key, Separates, Precedes
<1>6. Sound(cache)' /\ Sound(fill)'
  <2>1. PICK c, d, e, f : c = cache /\ d = cache' /\ e = fill /\ f = fill'
    OBVIOUS
  <2>2. Sound(d)' /\ Sound(f)'
    BY <1>1, <1>5, <2>1 DEF Write
  <2> QED BY <2>1, <2>2 DEF Sound
<1>7. TypeOK'
  BY <1>2, <1>4, <1>6 DEF IInv, TypeOK, Sound, Usable, Key
<1>8. owed' \subseteq Owable'
  BY <1>1, <1>4 DEF Owable
<1>9. walk' = "on" => Separates(seen, owed, last)'
  BY <1>4 DEF IInv, Separates, Precedes
<1>10. IInv'
  BY <1>6, <1>7, <1>8, <1>9 DEF IInv
<1> QED BY <1>3, <1>4, <1>10 DEF Promise!Change

\* Every step keeps the invariant, and is a step of PageWalk's or none.
LEMMA StepHolds ==
  ASSUME IInv, [Next]_vars
  PROVE  IInv' /\ [Promise!WalkNext]_(Promise!pageVars)
<1>1. CASE FirstPage
  BY <1>1, FirstPageHolds
<1>2. CASE NextPage
  BY <1>2, NextPageHolds
<1>3. CASE OtherQuery \/ OtherStore \/ Expire
  BY <1>3, CacheStepsHold DEF Promise!pageVars
<1>4. CASE Write
  BY <1>4, WriteHolds DEF Promise!WalkNext
<1>5. CASE UNCHANGED vars
  <2>1. IInv'
    BY <1>5 DEF vars, listVars, walkVars, IInv, TypeOK, Sound, Separates, Precedes, Usable, Key,
                Owable, Present
  <2>2. UNCHANGED Promise!pageVars
    BY <1>5 DEF vars, listVars, walkVars, Promise!pageVars, Present
  <2> QED BY <2>1, <2>2
<1> QED BY <1>1, <1>2, <1>3, <1>4, <1>5 DEF Next

LEMMA IInvHolds == Spec => []IInv
  BY InitHolds, StepHolds, PTL DEF Spec

-----------------------------------------------------------------------------
\* Every variable of the listing keeps its type, for tables, values and page limits of any size.
THEOREM KeysetTypeCorrect == Spec => []TypeOK
<1>1. IInv => TypeOK
  BY DEF IInv
<1> QED BY <1>1, IInvHolds, PTL

\* The cursor separates what a walk has been shown from what it has still to be shown: the
\* condition of buildQuery finds what it must behind every cursor that LastRecord's way through
\* JSON leaves usable, whatever keys and values there are.
THEOREM CursorAlwaysSeparates == Spec => []CursorSeparates
<1>1. IInv => CursorSeparates
  BY DEF IInv, CursorSeparates, Separates
<1> QED BY <1>1, IInvHolds, PTL

\* A cached first page serves a walk as well as one read now.
THEOREM CacheAlwaysSeparates == Spec => []CacheSeparates
<1>1. ASSUME IInv, NEW a \in {cache, fill}, a.held, a.whole
      PROVE  IF a.more THEN \A r \in a.since : Precedes(a.last, r) \/ r \in a.rows
             ELSE a.since \subseteq a.rows
  BY <1>1 DEF IInv, Sound, Separates
<1>2. IInv => CacheSeparates
  BY <1>1 DEF CacheSeparates
<1> QED BY <1>2, IInvHolds, PTL

\* Walking a table by keyset cursors is a walk as PageWalk promises it: no row twice, none
\* out of order, none missed that was there all along, unless the walk is void: no usable key,
\* a cursor that JSON or NULL spoils, ties that the end of a page parts, a broken stream.
THEOREM KeysetImplementsWalk == Spec => ImplementsWalk
<1>1. Init => Promise!WalkInit
  BY InitHolds
<1>2. IInv /\ [Next]_vars => [Promise!WalkNext]_(Promise!pageVars)
  BY StepHolds
<1> QED BY <1>1, <1>2, IInvHolds, PTL DEF Spec, ImplementsWalk, Promise!WalkSpec
=============================================================================

---------------------------- MODULE SearchProofs ----------------------------
(***************************************************************************)
(* SearchPages for any number of ids, tables, copies and writes, and any   *)
(* page size: every walk through the results is one of PageWalk's.         *)
(*                                                                         *)
(* The argument.  While a request is under way, everything it owes is      *)
(* either shown already, or its id was fetched (and then its record comes  *)
(* back), or Limit+1 newer ids were fetched (Accounted).  Records are cut  *)
(* by their number, copies included; but a record has fewer records above  *)
(* it than an older one, so what is cut off is older than what is shown.   *)
(***************************************************************************)
EXTENDS SearchPages, LeastNumber, FiniteSetTheorems, TLAPS

\* The cursor separates what was shown from what is to come.
CursorSeparates == walk = "on" =>
  /\ \A i \in seen : i[2] >= cursor
  /\ \A i \in owed : i[2] >= cursor => i \in seen

Fetched(i) == i[2] \in ids /\ i[1] = route[i[2]] /\ (i[1] \in todo \/ found[i[2]] > 0)
Older(i)   == Cardinality(ids) > Limit /\ \A g \in ids : g > i[2]

\* What the request under way owes is shown, will come, or is left for a later page.
Accounted == \A i \in due : Fetched(i) \/ (walk = "on" /\ i \in seen) \/ Older(i)

RequestInv == pc = "lookup" =>
  /\ \A g \in ids : route[g] \in Homes[g] \cup {"unknown"}
  /\ \A g \in GlobalIds : found[g] > 0 => g \in ids /\ route[g] \in Tables
  /\ walk = "on" => (\A g \in ids : g < cursor) /\ due \subseteq owed
  /\ Accounted

IInv == TypeOK /\ CursorSeparates /\ owed \subseteq Present /\ due \subseteq Present /\ RequestInv

-----------------------------------------------------------------------------
(***************************************************************************)
(* The greatest of some ids, and what is cut off at the front.             *)
(***************************************************************************)
LEMMA MaxExists ==
  ASSUME NEW T \in SUBSET GlobalIds, T # {}
  PROVE  \E x \in T : \A y \in T : y <= x
<1> DEFINE U == {MaxGlobalId - g : g \in T}
<1>1. U \in SUBSET Nat /\ U # {}
  <2>1. \A g \in T : g \in Int /\ g <= MaxGlobalId
    BY DEF GlobalIds
  <2>2. MaxGlobalId \in Int
    BY SearchAssumption
  <2>3. \A g \in T : MaxGlobalId - g \in Nat
    BY <2>1, <2>2
  <2> QED BY <2>3
<1>2. PICK u \in U : \A v \in U : u <= v
  <2> HIDE DEF U
  <2> QED BY <1>1, MinExists
<1>3. PICK x \in T : u = MaxGlobalId - x
  OBVIOUS
<1>4. ASSUME NEW y \in T PROVE y <= x
  <2>1. u <= MaxGlobalId - y
    BY <1>2, <1>4
  <2>2. x \in Int /\ y \in Int /\ MaxGlobalId \in Int
    BY <1>3, <1>4, SearchAssumption DEF GlobalIds
  <2> QED BY <1>3, <2>1, <2>2
<1> QED BY <1>4

LEMMA IdsAreFinite ==
  ASSUME NEW S \in SUBSET GlobalIds
  PROVE  IsFiniteSet(S) /\ Cardinality(S) \in Nat
<1>1. IsFiniteSet(GlobalIds)
  BY SearchAssumption, FS_Interval DEF GlobalIds
<1> QED BY <1>1, FS_Subset, FS_CardinalityType

\* ORDER BY global_id DESC LIMIT n: nothing newer is left out, and nothing at all unless
\* there were n.
LEMMA NewestMeans ==
  ASSUME NEW S \in SUBSET GlobalIds, NEW n \in Nat
  PROVE  /\ Newest(n, S) \subseteq S
         /\ \A g \in Newest(n, S), h \in S : h \in Newest(n, S) \/ h < g
         /\ Newest(n, S) = S \/ Cardinality(Newest(n, S)) >= n
<1> DEFINE N == Newest(n, S)
           Over(g) == {h \in S : h > g}
<1>1. N \subseteq S
  BY DEF Newest
<1>2. \A g \in S : Over(g) \in SUBSET GlobalIds /\ Cardinality(Over(g)) \in Nat
  BY IdsAreFinite
<1> S \in SUBSET Int
  BY DEF GlobalIds
<1>3. \A g, h \in S : h >= g => Cardinality(Over(h)) <= Cardinality(Over(g))
  <2>1. SUFFICES ASSUME NEW g \in S, NEW h \in S, h >= g
                 PROVE  Cardinality(Over(h)) <= Cardinality(Over(g))
    OBVIOUS
  <2>2. \A k \in S : k > h => k > g
    BY <2>1
  <2>3. Over(h) \in SUBSET Over(g)
    BY <2>2
  <2>4. IsFiniteSet(Over(g))
    BY <1>2, <2>1, IdsAreFinite
  <2> QED BY <2>3, <2>4, FS_Subset
<1>4. \A g \in N, h \in S : h \in N \/ h < g
  <2>1. SUFFICES ASSUME NEW g \in N, NEW h \in S, h >= g PROVE h \in N
    <3>1. \A g \in N, h \in S : g \in Int /\ h \in Int
      BY <1>1
    <3> QED BY <3>1
  <2>2. Cardinality(Over(h)) <= Cardinality(Over(g)) /\ Cardinality(Over(g)) < n
    BY <1>1, <1>3, <2>1 DEF Newest
  <2>3. Cardinality(Over(h)) \in Nat /\ Cardinality(Over(g)) \in Nat
    BY <1>1, <1>2
  <2> QED BY <2>2, <2>3 DEF Newest
<1>5. ASSUME N # S PROVE Cardinality(N) >= n
  <2>1. PICK g \in S \ N : \A h \in S \ N : h <= g
    <3> HIDE DEF N
    <3> QED BY <1>1, <1>5, MaxExists
  <2>2. Cardinality(Over(g)) >= n
    <3>1. ~(Cardinality(Over(g)) < n) /\ Cardinality(Over(g)) \in Nat
      BY <1>2, <2>1 DEF Newest
    <3> QED BY <3>1
  <2>3. Over(g) \in SUBSET N
    <3>1. \A h \in S : h > g => h \in N
      <4> HIDE DEF N
      <4>1. \A h \in S : h \in Int /\ g \in Int
        BY <2>1
      <4> QED BY <2>1, <4>1
    <3> QED BY <3>1
  <2>4. IsFiniteSet(N)
    BY <1>1, IdsAreFinite
  <2>5. Cardinality(Over(g)) <= Cardinality(N)
    BY <2>3, <2>4, FS_Subset
  <2>6. Cardinality(Over(g)) \in Nat /\ Cardinality(N) \in Nat
    BY <1>1, <1>2, IdsAreFinite
  <2> QED BY <2>2, <2>5, <2>6
<1> QED BY <1>1, <1>4, <1>5

-----------------------------------------------------------------------------
(***************************************************************************)
(* Counting records.                                                       *)
(***************************************************************************)
Records(S) == {c \in S \X (1..MaxCopies) : c[2] <= found[c[1]]}

LEMMA CountIsFinite ==
  ASSUME NEW S \in SUBSET GlobalIds
  PROVE  IsFiniteSet(Records(S)) /\ CountOf(S) = Cardinality(Records(S)) /\ CountOf(S) \in Nat
<1>1. IsFiniteSet(S) /\ IsFiniteSet(1..MaxCopies)
  BY IdsAreFinite, SearchAssumption, FS_Interval
<1>2. IsFiniteSet(S \X (1..MaxCopies))
  BY <1>1, FS_Product
<1>3. Records(S) \in SUBSET (S \X (1..MaxCopies))
  BY DEF Records
<1>4. IsFiniteSet(Records(S))
  BY <1>2, <1>3, FS_Subset
<1> QED BY <1>4, FS_CardinalityType DEF CountOf, Records

LEMMA CountGrows ==
  ASSUME NEW S \in SUBSET GlobalIds, NEW T \in SUBSET S
  PROVE  CountOf(T) <= CountOf(S)
<1>1. Records(T) \in SUBSET Records(S)
  BY DEF Records
<1>2. T \in SUBSET GlobalIds
  OBVIOUS
<1> QED BY <1>1, <1>2, CountIsFinite, FS_Subset

\* An id that came back counts.
LEMMA CountCounts ==
  ASSUME NEW S \in SUBSET GlobalIds, NEW T \in SUBSET S, NEW g \in S \ T, found[g] \in Nat,
         found[g] > 0
  PROVE  CountOf(T) < CountOf(S)
<1>1. 1 \in 1..MaxCopies
  BY SearchAssumption
<1>2. <<g, 1>> \in Records(S) /\ <<g, 1>> \notin Records(T)
  BY <1>1 DEF Records
<1>3. Records(T) \in SUBSET Records(S)
  BY DEF Records
<1>4. T \in SUBSET GlobalIds
  OBVIOUS
<1>5. IsFiniteSet(Records(S)) /\ CountOf(S) = Cardinality(Records(S)) /\ CountOf(S) \in Nat
  BY CountIsFinite
<1>6. CountOf(T) = Cardinality(Records(T)) /\ CountOf(T) \in Nat
  BY <1>4, CountIsFinite
<1>7. Records(T) # Records(S)
  BY <1>2
<1>8. CountOf(T) <= CountOf(S) /\ CountOf(T) # CountOf(S)
  <2> HIDE DEF Records
  <2> QED BY <1>3, <1>5, <1>6, <1>7, FS_Subset
<1> QED BY <1>5, <1>6, <1>8

\* The page: nothing that came back is left out in front of what is shown; with more to
\* come it has a last record; without, it is complete.
LEMMA PageMeans ==
  ASSUME TypeOK
  PROVE  /\ Shown \subseteq ids /\ \A g \in Shown : found[g] > 0
         /\ \A g \in Shown, h \in ids : h > g /\ found[h] > 0 => h \in Shown
         /\ HasMore => Shown # {}
         /\ ~HasMore => \A h \in ids : found[h] > 0 => h \in Shown
<1> DEFINE Over(g) == {h \in ids : h > g}
<1>1. ids \in SUBSET GlobalIds /\ Limit \in Nat /\ Limit > 0
      /\ \A g \in ids : found[g] \in Nat /\ Over(g) \in SUBSET GlobalIds /\ g \in Int
  <2>1. ids \in SUBSET GlobalIds /\ \A g \in GlobalIds : found[g] \in 0..MaxCopies
    BY DEF TypeOK
  <2>2. \A g \in GlobalIds : g \in Int
    BY DEF GlobalIds
  <2> QED BY <2>1, <2>2, SearchAssumption
<1>2. \A g \in ids : CountOf(Over(g)) \in Nat
  BY <1>1, CountIsFinite
<1>3. CountOf(ids) \in Nat
  BY <1>1, CountIsFinite
<1>4. ASSUME NEW g \in Shown, NEW h \in ids, h > g, found[h] > 0 PROVE h \in Shown
  <2>1. g \in ids /\ CountOf(Over(g)) < Limit
    BY DEF Shown, Above
  <2>2. Over(h) \in SUBSET Over(g)
    BY <1>1, <1>4, <2>1
  <2>3. CountOf(Over(h)) <= CountOf(Over(g))
    BY <1>1, <2>1, <2>2, CountGrows
  <2>4. CountOf(Over(h)) < Limit
    BY <1>1, <1>2, <2>1, <2>3
  <2> QED BY <1>4, <2>4 DEF Shown, Above
<1>5. ASSUME HasMore PROVE Shown # {}
  <2> DEFINE F == {g \in ids : found[g] > 0}
  <2>1. F # {}
    <3>1. SUFFICES ASSUME F = {} PROVE FALSE
      OBVIOUS
    <3>2. Records(ids) = {}
      BY <1>1, <3>1 DEF Records
    <3>3. CountOf(ids) = 0
      BY <1>1, <3>2, CountIsFinite, FS_EmptySet
    <3> QED BY <1>1, <1>5, <3>3 DEF HasMore
  <2>2. PICK g \in F : \A h \in F : h <= g
    BY <1>1, <2>1, MaxExists
  <2>3. Records(Over(g)) = {}
    BY <1>1, <2>2 DEF Records
  <2>4. CountOf(Over(g)) = 0
    BY <1>1, <2>3, CountIsFinite, FS_EmptySet
  <2> QED BY <1>1, <2>4 DEF Shown, Above
<1>6. ASSUME ~HasMore, NEW h \in ids, found[h] > 0 PROVE h \in Shown
  <2>1. Over(h) \in SUBSET ids /\ h \notin Over(h)
    BY <1>1
  <2>2. CountOf(Over(h)) < CountOf(ids)
    BY <1>1, <1>6, <2>1, CountCounts
  <2>3. CountOf(ids) <= Limit
    BY <1>1, <1>3, <1>6 DEF HasMore
  <2>4. CountOf(Over(h)) < Limit
    BY <1>1, <1>2, <1>3, <2>2, <2>3
  <2> QED BY <1>6, <2>4 DEF Shown, Above
<1> QED BY <1>4, <1>5, <1>6 DEF Shown

-----------------------------------------------------------------------------
(***************************************************************************)
(* The invariant, and that every step is one of PageWalk's.                *)
(***************************************************************************)
LEMMA ItemParts ==
  /\ \A i \in Items : i = <<i[1], i[2]>> /\ i[1] \in Tables /\ i[2] \in GlobalIds /\ i[2] \in Nat
                      /\ i[1] \in Homes[i[2]]
  /\ \A t, g : <<t, g>> \in Items <=> t \in Tables /\ g \in GlobalIds /\ t \in Homes[g]
  BY DEF Items, GlobalIds

LEMMA InitHolds == Init => IInv /\ Promise!WalkInit
<1>1. SUFFICES ASSUME Init PROVE IInv /\ Promise!WalkInit
  OBVIOUS
<1>2. copies \in [Items -> 0..MaxCopies]
  BY <1>1, SearchAssumption DEF Init
<1>3. found \in [GlobalIds -> 0..MaxCopies] /\ cursor \in 0..MaxGlobalId /\ writes \in 0..MaxWrites
  BY <1>1, SearchAssumption DEF Init, Nobody
<1>4. route \in [ids -> Tables \cup {"unknown"}]
  BY <1>1 DEF Init
<1>5. TypeOK
  BY <1>1, <1>2, <1>3, <1>4 DEF Init, TypeOK
<1>6. IInv
  BY <1>1, <1>5 DEF Init, IInv, CursorSeparates, RequestInv
<1> QED BY <1>1, <1>6 DEF Init, Promise!WalkInit, Present, Before

\* The index changes: what disappears is owed no longer.
LEMMA WriteHolds ==
  ASSUME IInv, Write
  PROVE  IInv' /\ Promise!Change
<1>1. /\ UNCHANGED <<endpoint, pc, ids, route, todo, found, cursor, walk, page, seen>>
      /\ owed' = owed \cap Present' /\ due' = due \cap Present'
      /\ writes' \in 0..MaxWrites
  BY SearchAssumption DEF Write, requestVars, IInv, TypeOK
<1>2. bitmap' \subseteq GlobalIds /\ copies' \in [Items -> 0..MaxCopies]
  <2>1. bitmap \subseteq GlobalIds /\ copies \in [Items -> 0..MaxCopies]
    BY DEF IInv, TypeOK
  <2>2. CASE \E g \in GlobalIds \ bitmap : bitmap' = bitmap \cup {g} /\ UNCHANGED copies
    BY <2>1, <2>2
  <2>3. CASE (\E i \in Items, n \in 0..MaxCopies : copies' = [copies EXCEPT ![i] = n]) /\ UNCHANGED bitmap
    BY <2>1, <2>3
  <2> QED BY <2>2, <2>3 DEF Write
<1>3. TypeOK'
  BY <1>1, <1>2 DEF IInv, TypeOK
<1>4. CursorSeparates' /\ RequestInv'
  BY <1>1 DEF IInv, CursorSeparates, RequestInv, Accounted, Fetched, Older
<1>5. IInv'
  BY <1>1, <1>3, <1>4 DEF IInv
<1>6. Present' \subseteq Items
  BY DEF Present
<1> QED BY <1>1, <1>5, <1>6 DEF Promise!Change, Before

\* The ids of a page: what is owed and not among them was shown, or is older than all of them.
LEMMA BitmapQueryHolds ==
  ASSUME IInv, BitmapQuery
  PROVE  IInv' /\ UNCHANGED <<Present, Before, owed, page, seen, walk>>
<1> DEFINE N == Newest(Limit + 1, Matching)
<1>1. PICK r \in Routes(N) :
        /\ ids' = DOMAIN r /\ route' = r
        /\ todo' = {r[g] : g \in DOMAIN r} \ {"unknown"}
        /\ due' = {i \in IF walk = "on" THEN owed ELSE Present : i[2] \in DOMAIN r => i[1] = r[i[2]]}
  BY DEF BitmapQuery
<1>2. /\ UNCHANGED <<bitmap, copies, writes, endpoint, cursor, walk, page, seen, owed>>
      /\ pc = "idle" /\ pc' = "lookup" /\ found' = Nobody
      /\ walk = "on" \/ cursor = 0
  BY DEF BitmapQuery, indexVars, walkVars
<1>3. Matching \in SUBSET GlobalIds /\ Limit + 1 \in Nat
  BY SearchAssumption DEF IInv, TypeOK, Matching
<1>4. /\ N \subseteq Matching
      /\ \A g \in N, h \in Matching : h \in N \/ h < g
      /\ N = Matching \/ Cardinality(N) >= Limit + 1
  BY <1>3, NewestMeans
<1> HIDE DEF N
<1>5. /\ ids' = N /\ route' \in [N -> Tables \cup {"unknown"}]
      /\ \A g \in N : route'[g] \in Homes[g] \cup {"unknown"}
  BY <1>1 DEF Routes
<1>6. todo' = {route'[g] : g \in N} \ {"unknown"}
  BY <1>1, <1>5
<1>7. /\ Present' = Present /\ due' \subseteq Present
      /\ walk = "on" => due' \subseteq owed
      /\ \A i \in due' : i[2] \in N => i[1] = route'[i[2]]
  BY <1>1, <1>2, <1>5 DEF IInv, Present
<1>8. TypeOK'
  <2>1. found' \in [GlobalIds -> 0..MaxCopies]
    BY <1>2, SearchAssumption DEF Nobody
  <2>2. todo' \subseteq Tables
    BY <1>5, <1>6
  <2>3. due' \subseteq Items
    BY <1>7 DEF Present
  <2> QED BY <1>2, <1>3, <1>4, <1>5, <2>1, <2>2, <2>3 DEF IInv, TypeOK
<1>9. ASSUME NEW i \in due' PROVE Fetched(i)' \/ (walk = "on" /\ i \in seen) \/ Older(i)'
  <2>1. i \in Items /\ i[2] \in bitmap /\ i[2] \in Nat /\ i[1] \in Tables
    BY <1>7, ItemParts DEF Present
  <2>2. CASE i[2] \in N
    <3>1. i[1] = route'[i[2]] /\ i[1] # "unknown"
      BY <1>7, <2>1, <2>2, SearchAssumption
    <3>2. i[1] \in todo'
      BY <1>6, <2>2, <3>1
    <3> QED BY <1>5, <2>2, <3>1, <3>2 DEF Fetched
  <2>3. CASE i[2] \notin N /\ i[2] \in Matching
    <3>1. N # Matching
      BY <2>3
    <3>2. Cardinality(N) >= Limit + 1 /\ Cardinality(N) \in Nat
      BY <1>3, <1>4, <3>1, IdsAreFinite
    <3>3. Cardinality(N) > Limit
      BY <3>2, SearchAssumption
    <3>4. \A g \in N : i[2] < g
      BY <1>4, <2>3
    <3>5. \A g \in N : g \in Int
      BY <1>3, <1>4 DEF GlobalIds
    <3>6. \A g \in N : g > i[2]
      BY <2>1, <3>4, <3>5
    <3> QED BY <1>5, <3>3, <3>6 DEF Older
  <2>4. CASE i[2] \notin Matching
    <3>1. cursor # 0 /\ ~(i[2] < cursor)
      BY <2>1, <2>4 DEF Matching
    <3>2. walk = "on" /\ cursor \in Nat
      BY <1>2, <3>1 DEF IInv, TypeOK
    <3>3. i[2] >= cursor
      BY <2>1, <3>1, <3>2
    <3> QED BY <1>7, <3>2, <3>3 DEF IInv, CursorSeparates
  <2> QED BY <2>2, <2>3, <2>4
<1>10. ASSUME walk = "on" PROVE \A g \in N : g < cursor
  BY <1>4, <1>10 DEF Matching, IInv, TypeOK
<1>11. \A g \in GlobalIds : ~(found'[g] > 0)
  BY <1>2 DEF Nobody
<1>12. RequestInv'
  BY <1>2, <1>5, <1>7, <1>9, <1>10, <1>11 DEF RequestInv, Accounted
<1>13. CursorSeparates' /\ owed' \subseteq Present'
  BY <1>2, <1>7 DEF IInv, CursorSeparates
<1> QED BY <1>2, <1>7, <1>8, <1>12, <1>13 DEF IInv, Before

\* The walk has no answer to go on from.
LEMMA GiveUpHolds ==
  ASSUME IInv, BitmapQueryShort \/ BitmapQueryFails
  PROVE  IInv' /\ Promise!Void
<1>1. /\ UNCHANGED <<bitmap, copies, writes, endpoint, pc, ids, route, todo, found, due>>
      /\ pc = "idle"
      /\ walk' = "void" /\ page' = {} /\ seen' = {} /\ owed' = {} /\ cursor' = 0
  BY DEF BitmapQueryShort, BitmapQueryFails, GiveUp, indexVars, requestVars
<1>2. TypeOK'
  BY <1>1, SearchAssumption DEF IInv, TypeOK
<1>3. IInv'
  BY <1>1, <1>2 DEF IInv, CursorSeparates, RequestInv, Present
<1> QED BY <1>1, <1>3 DEF Promise!Void, Present, Before
\* A table's records are read: they are there for what the request still owes.
LEMMA LookupHolds ==
  ASSUME IInv, NEW t \in Tables, Lookup(t)
  PROVE  IInv' /\ UNCHANGED <<Present, Before, owed, page, seen, walk>>
<1>1. /\ UNCHANGED <<bitmap, copies, writes, endpoint, pc, ids, route, cursor, walk, page, seen, owed, due>>
      /\ pc = "lookup" /\ found' = Answered(t, ids) /\ todo' = todo \ {t}
  BY DEF Lookup, indexVars, walkVars
<1>2. RequestInv /\ TypeOK
  BY DEF IInv
<1>3. \A g \in GlobalIds : found'[g] = IF g \notin ids \/ route[g] # t THEN found[g] ELSE copies[<<t, g>>]
  BY <1>1, <1>2 DEF Answered, TypeOK
<1>4. \A g \in ids : g \in GlobalIds /\ (route[g] = t => <<t, g>> \in Items)
  BY <1>1, <1>2, ItemParts, SearchAssumption DEF RequestInv, TypeOK
<1>5. found' \in [GlobalIds -> 0..MaxCopies]
  <2>1. found' = [g \in GlobalIds |-> found'[g]]
    BY <1>1 DEF Answered
  <2>2. \A g \in GlobalIds : found'[g] \in 0..MaxCopies
    BY <1>2, <1>3, <1>4 DEF TypeOK
  <2> QED BY <2>1, <2>2
<1>6. TypeOK'
  BY <1>1, <1>2, <1>5 DEF TypeOK
<1>7. ASSUME NEW i \in due, Fetched(i) PROVE Fetched(i)'
  <2>1. i[2] \in ids /\ i[1] = route[i[2]] /\ i[2] \in GlobalIds
    BY <1>4, <1>7 DEF Fetched
  <2>2. CASE i[1] = t
    <3>1. i = <<t, i[2]>> /\ copies[i] > 0
      BY <2>2, ItemParts DEF IInv, Present
    <3>2. found'[i[2]] = copies[i]
      BY <1>3, <2>1, <2>2, <3>1
    <3> QED BY <1>1, <2>1, <3>1, <3>2 DEF Fetched
  <2>3. CASE i[1] # t
    BY <1>1, <1>3, <1>7, <2>1, <2>3 DEF Fetched
  <2> QED BY <2>2, <2>3
<1>8. Accounted'
  BY <1>1, <1>2, <1>7 DEF RequestInv, Accounted, Older
<1>9. \A g \in GlobalIds : found'[g] > 0 => g \in ids /\ route[g] \in Tables
  BY <1>1, <1>2, <1>3 DEF RequestInv
<1>10. RequestInv'
  BY <1>1, <1>2, <1>8, <1>9 DEF RequestInv
<1> QED BY <1>1, <1>6, <1>10 DEF IInv, CursorSeparates, Present, Before

\* A table's lookup fails: what may be missing is owed no longer.
LEMMA LookupFailsHolds ==
  ASSUME IInv, NEW t \in Tables, LookupFails(t)
  PROVE  IInv' /\ UNCHANGED <<Present, Before, owed, page, seen, walk>>
<1> DEFINE asked == {g \in ids : route[g] = t}
<1>1. /\ UNCHANGED <<bitmap, copies, writes, endpoint, pc, ids, route, cursor, walk, page, seen, owed>>
      /\ pc = "lookup" /\ todo' = todo \ {t}
  BY DEF LookupFails, indexVars, walkVars
<1>2. RequestInv /\ TypeOK
  BY DEF IInv
<1>3. PICK n \in 0..(Cardinality(asked) - 1) :
        /\ found' = Answered(t, Newest(n, asked))
        /\ due' = {i \in due : ~(i[1] = t /\ i[2] \in asked \ Newest(n, asked))}
  BY DEF LookupFails
<1> DEFINE S == Newest(n, asked)
<1>4. S \subseteq asked
  BY DEF Newest
<1> HIDE DEF S
<1>5. \A g \in GlobalIds : found'[g] = IF g \notin ids \/ route[g] # t THEN found[g]
                                       ELSE IF g \in S THEN copies[<<t, g>>] ELSE 0
  BY <1>3 DEF Answered, S
<1>6. \A g \in ids : g \in GlobalIds /\ (route[g] = t => <<t, g>> \in Items)
  BY <1>1, <1>2, ItemParts, SearchAssumption DEF RequestInv, TypeOK
<1>7. found' \in [GlobalIds -> 0..MaxCopies]
  <2>1. found' = [g \in GlobalIds |-> found'[g]]
    BY <1>3 DEF Answered
  <2>2. /\ \A i \in Items : copies[i] \in 0..MaxCopies
        /\ \A g \in GlobalIds : found[g] \in 0..MaxCopies
        /\ 0 \in 0..MaxCopies
    BY <1>2, SearchAssumption DEF TypeOK
  <2>3. ASSUME NEW g \in GlobalIds PROVE found'[g] \in 0..MaxCopies
    <3>1. CASE g \notin ids \/ route[g] # t
      BY <1>5, <2>2, <3>1
    <3>2. CASE g \in ids /\ route[g] = t
      BY <1>5, <1>6, <2>2, <3>2
    <3> QED BY <3>1, <3>2
  <2> QED BY <2>1, <2>3
<1>8. due' \subseteq due /\ \A i \in due' : i[1] = t /\ i[2] \in asked => i[2] \in S
  BY <1>3 DEF S
<1>9. TypeOK'
  BY <1>1, <1>2, <1>7, <1>8 DEF TypeOK
<1>10. ASSUME NEW i \in due', Fetched(i) PROVE Fetched(i)'
  <2>1. i[2] \in ids /\ i[1] = route[i[2]] /\ i[2] \in GlobalIds /\ i \in due
    BY <1>6, <1>8, <1>10 DEF Fetched
  <2>2. CASE i[1] = t
    <3>1. i = <<t, i[2]>> /\ copies[i] > 0
      BY <2>1, <2>2, ItemParts DEF IInv, Present
    <3>2. i[2] \in S
      BY <1>8, <2>1, <2>2
    <3>3. found'[i[2]] = copies[i]
      BY <1>5, <2>1, <2>2, <3>1, <3>2
    <3> QED BY <1>1, <2>1, <3>1, <3>3 DEF Fetched
  <2>3. CASE i[1] # t
    BY <1>1, <1>5, <1>10, <2>1, <2>3 DEF Fetched
  <2> QED BY <2>2, <2>3
<1>11. Accounted'
  BY <1>1, <1>2, <1>8, <1>10 DEF RequestInv, Accounted, Older
<1>12. \A g \in GlobalIds : found'[g] > 0 => g \in ids /\ route[g] \in Tables
  <2>1. SUFFICES ASSUME NEW g \in GlobalIds, found'[g] > 0 PROVE g \in ids /\ route[g] \in Tables
    OBVIOUS
  <2>2. CASE g \in ids /\ route[g] = t
    BY <2>2
  <2>3. CASE g \notin ids \/ route[g] # t
    <3>1. found'[g] = found[g]
      BY <1>5, <2>3
    <3> QED BY <1>1, <1>2, <2>1, <3>1 DEF RequestInv
  <2> QED BY <2>2, <2>3
<1>13. RequestInv'
  BY <1>1, <1>2, <1>8, <1>11, <1>12 DEF RequestInv
<1> QED BY <1>1, <1>8, <1>9, <1>13 DEF IInv, CursorSeparates, Present, Before

\* The page: it fits the walk, and its last record separates what was shown from the rest.
LEMMA AssembleHolds ==
  ASSUME IInv, Assemble
  PROVE  IInv' /\ Promise!WalkNext
<1>1. /\ UNCHANGED <<bitmap, copies, writes, endpoint>>
      /\ pc = "lookup" /\ todo = {}
      /\ pc' = "idle" /\ ids' = {} /\ route' = [g \in {} |-> 0] /\ todo' = {} /\ found' = Nobody /\ due' = {}
  BY DEF Assemble, Finish, indexVars
<1>2. RequestInv /\ TypeOK
  BY DEF IInv
<1>3. Present' = Present /\ Before' = Before
  BY <1>1 DEF Present, Before
<1>4. /\ found' \in [GlobalIds -> 0..MaxCopies] /\ route' \in [ids' -> Tables \cup {"unknown"}]
      /\ RequestInv'
  BY <1>1, SearchAssumption DEF Nobody, RequestInv
<1>5. CASE ~HasMore /\ Cardinality(ids) > Limit
  <2>1. walk' = "void" /\ page' = {} /\ seen' = {} /\ owed' = {} /\ cursor' = 0
    BY <1>5 DEF Assemble, GiveUp
  <2>2. TypeOK'
    BY <1>1, <1>2, <1>4, <2>1, SearchAssumption DEF TypeOK
  <2>3. IInv'
    BY <1>1, <1>4, <2>1, <2>2 DEF IInv, CursorSeparates
  <2> QED BY <1>3, <2>1, <2>3 DEF Promise!WalkNext, Promise!Void
<1>6. CASE ~(~HasMore /\ Cardinality(ids) > Limit)
  <2> DEFINE old == IF walk = "on" THEN seen ELSE {}
             p   == {<<route[g], g>> : g \in Shown}
  <2>1. /\ page' = p /\ seen' = old \cup p /\ owed' = due
        /\ walk' = IF HasMore THEN "on" ELSE "over"
        /\ cursor' = IF HasMore /\ Shown # {} THEN CHOOSE g \in Shown : \A h \in Shown : g <= h ELSE 0
    BY <1>6 DEF Assemble
  <2>2. /\ Shown \subseteq ids /\ \A g \in Shown : found[g] > 0
        /\ \A g \in Shown, h \in ids : h > g /\ found[h] > 0 => h \in Shown
        /\ HasMore => Shown # {}
        /\ ~HasMore => \A h \in ids : found[h] > 0 => h \in Shown
    BY <1>2, PageMeans
  <2>3. \A g \in ids : g \in GlobalIds /\ g \in Nat
    BY <1>2 DEF TypeOK, GlobalIds
  <2>4. \A g \in Shown : <<route[g], g>> \in Items
    BY <1>1, <1>2, <2>2, <2>3, ItemParts, SearchAssumption DEF RequestInv
  <2> HIDE DEF HasMore, Shown
  <2>5. p \subseteq Items /\ old \subseteq Items /\ due \subseteq Items
        /\ \A i \in p : i[2] \in Shown /\ i[2] \in ids /\ i[2] \in Nat
    BY <1>2, <2>2, <2>3, <2>4 DEF TypeOK
  <2>6. \A j \in old : j[2] \in Nat /\ walk = "on" /\ j[2] >= cursor
    BY <1>2, ItemParts DEF IInv, TypeOK, CursorSeparates
  <2>7. \A i \in p, j \in old : j[2] > i[2]
    <3>1. SUFFICES ASSUME NEW i \in p, NEW j \in old PROVE j[2] > i[2]
      OBVIOUS
    <3>2. i[2] < cursor /\ cursor \in Nat
      BY <1>1, <1>2, <2>5, <2>6, <3>1 DEF RequestInv, TypeOK
    <3> HIDE DEF p, old
    <3> QED BY <2>5, <2>6, <3>1, <3>2
  <2>8. ASSUME NEW o \in due, NEW g \in Shown, o[2] >= g PROVE o \in old \cup p
    <3>1. o \in Items /\ o = <<o[1], o[2]>> /\ o[2] \in Nat /\ g \in ids /\ g \in Nat
      BY <2>2, <2>3, <2>5, <2>8, ItemParts
    <3>2. ~Older(o)
      BY <2>8, <3>1 DEF Older
    <3>3. CASE Fetched(o)
      <4>1. o[2] \in ids /\ o[1] = route[o[2]] /\ found[o[2]] > 0
        BY <1>1, <3>3 DEF Fetched
      <4>2. o[2] \in Shown
        BY <2>2, <2>8, <3>1, <4>1
      <4> QED BY <3>1, <4>1, <4>2
    <3>4. CASE walk = "on" /\ o \in seen
      BY <3>4
    <3> QED BY <1>1, <1>2, <2>8, <3>2, <3>3, <3>4 DEF RequestInv, Accounted
  <2>9. ASSUME ~HasMore, NEW o \in due PROVE o \in old \cup p
    <3>1. ~Older(o)
      BY <1>6, <2>9 DEF Older
    <3>2. CASE Fetched(o)
      <4>1. o[2] \in ids /\ o[1] = route[o[2]] /\ found[o[2]] > 0 /\ o = <<o[1], o[2]>>
        BY <1>1, <2>5, <3>2, ItemParts DEF Fetched
      <4> QED BY <2>2, <2>9, <4>1
    <3>3. CASE walk = "on" /\ o \in seen
      BY <3>3
    <3> QED BY <1>1, <1>2, <3>1, <3>2, <3>3 DEF RequestInv, Accounted
  <2>10. Promise!Fits(p, old, due)
    <3>1. p \cap old = {}
      BY <2>5, <2>7
    <3>2. \A i \in p, j \in old : <<j, i>> \in Before
      BY <2>5, <2>7 DEF Before
    <3>3. \A o \in due, i \in p : <<o, i>> \in Before => o \in old \cup p
      <4>1. SUFFICES ASSUME NEW o \in due, NEW i \in p, <<o, i>> \in Before PROVE o \in old \cup p
        OBVIOUS
      <4>2. o[2] > i[2] /\ i[2] \in Shown /\ o[2] \in Nat /\ i[2] \in Nat
        BY <2>5, <4>1, ItemParts DEF Before
      <4> QED BY <2>8, <4>2
    <3> QED BY <3>1, <3>2, <3>3 DEF Promise!Fits
  <2>11. CASE HasMore
    <3>1. PICK g \in Shown : \A h \in Shown : g <= h
      <4>1. Shown \in SUBSET Nat /\ Shown # {}
        BY <2>2, <2>3, <2>11
      <4> QED BY <4>1, MinExists
    <3>2. cursor' \in Shown /\ \A h \in Shown : cursor' <= h
      BY <2>1, <2>11, <3>1
    <3>3. cursor' \in 1..MaxGlobalId /\ walk' = "on"
      BY <2>1, <2>2, <2>3, <2>11, <3>2 DEF GlobalIds
    <3>4. TypeOK'
      <4>1. cursor' \in 0..MaxGlobalId /\ cursor' # 0
        BY <3>3, SearchAssumption
      <4>2. page' \subseteq Items /\ seen' \subseteq Items /\ owed' \subseteq Items /\ due' \subseteq Items
        <5> HIDE DEF p, old
        <5> QED BY <1>1, <2>1, <2>5
      <4> QED BY <1>1, <1>2, <1>4, <3>3, <4>1, <4>2 DEF TypeOK
    <3>5. \A i \in seen' : i[2] >= cursor'
      <4>1. \A i \in p : i[2] >= cursor'
        <5>1. \A i \in p : i[2] \in Nat /\ cursor' <= i[2] /\ cursor' \in Nat
          BY <2>5, <3>2, <3>3
        <5> HIDE DEF p
        <5> QED BY <5>1
      <4>2. PICK i \in p : i[2] = cursor'
        <5>1. <<route[cursor'], cursor'>> \in p
          BY <3>2
        <5> QED BY <5>1
      <4>3. \A j \in old : j[2] >= cursor'
        <5>1. SUFFICES ASSUME NEW j \in old PROVE j[2] >= cursor'
          OBVIOUS
        <5>2. j[2] > i[2] /\ j[2] \in Nat /\ i[2] \in Nat
          BY <2>5, <2>6, <2>7
        <5> QED BY <4>2, <5>2
      <4> QED BY <2>1, <4>1, <4>3
    <3>6. \A o \in owed' : o[2] >= cursor' => o \in seen'
      BY <2>1, <2>8, <3>2
    <3>7. owed' \subseteq Present'
      BY <1>3, <2>1 DEF IInv
    <3>8. IInv'
      BY <1>1, <1>4, <3>4, <3>5, <3>6, <3>7 DEF IInv, CursorSeparates
    <3>9. Promise!Show(old)
      BY <1>3, <2>1, <2>5, <2>10, <3>3 DEF Promise!Show
    <3>10. Promise!Begin \/ Promise!Continue
      <4>1. CASE walk = "on"
        BY <1>1, <1>2, <2>1, <3>9, <4>1 DEF Promise!Continue, RequestInv
      <4>2. CASE walk # "on"
        BY <2>1, <3>9, <4>2 DEF Promise!Begin, IInv
      <4> QED BY <4>1, <4>2
    <3> QED BY <3>8, <3>10 DEF Promise!WalkNext
  <2>12. CASE ~HasMore
    <3>1. cursor' = 0 /\ walk' = "over" /\ owed' \subseteq seen'
      BY <2>1, <2>9, <2>12
    <3>2. TypeOK'
      BY <1>1, <1>2, <1>4, <2>1, <2>5, <3>1, SearchAssumption DEF TypeOK
    <3>3. IInv'
      BY <1>1, <1>3, <1>4, <2>1, <3>1, <3>2 DEF IInv, CursorSeparates
    <3>4. Promise!Show(old)
      BY <1>3, <2>1, <2>5, <2>10, <3>1 DEF Promise!Show
    <3>5. Promise!Begin \/ Promise!Continue
      <4>1. CASE walk = "on"
        BY <1>1, <1>2, <2>1, <3>4, <4>1 DEF Promise!Continue, RequestInv
      <4>2. CASE walk # "on"
        BY <2>1, <3>4, <4>2 DEF Promise!Begin, IInv
      <4> QED BY <4>1, <4>2
    <3> QED BY <3>3, <3>5 DEF Promise!WalkNext
  <2> QED BY <2>11, <2>12
<1> QED BY <1>5, <1>6

\* Every step keeps the invariant, and is a step of PageWalk's or none.
LEMMA StepHolds ==
  ASSUME IInv, [Next]_vars
  PROVE  IInv' /\ [Promise!WalkNext]_(Promise!pageVars)
<1>1. CASE Write
  BY <1>1, WriteHolds DEF Promise!WalkNext
<1>2. CASE BitmapQuery
  BY <1>2, BitmapQueryHolds DEF Promise!pageVars
<1>3. CASE BitmapQueryShort \/ BitmapQueryFails
  BY <1>3, GiveUpHolds DEF Promise!WalkNext
<1>4. CASE \E t \in Tables : Lookup(t) \/ LookupFails(t)
  BY <1>4, LookupHolds, LookupFailsHolds DEF Promise!pageVars
<1>5. CASE Assemble
  BY <1>5, AssembleHolds
<1>6. CASE UNCHANGED vars
  <2>1. IInv'
    BY <1>6 DEF vars, indexVars, requestVars, walkVars, IInv, TypeOK, CursorSeparates, RequestInv,
                Accounted, Fetched, Older, Present
  <2>2. UNCHANGED Promise!pageVars
    BY <1>6 DEF vars, indexVars, requestVars, walkVars, Promise!pageVars, Present, Before
  <2> QED BY <2>1, <2>2
<1> QED BY <1>1, <1>2, <1>3, <1>4, <1>5, <1>6 DEF Next

LEMMA IInvHolds == Spec => []IInv
  BY InitHolds, StepHolds, PTL DEF Spec

-----------------------------------------------------------------------------
\* Every variable of a search keeps its type, for any number of ids, tables and copies.
THEOREM SearchTypeCorrect == Spec => []TypeOK
<1>1. IInv => TypeOK
  BY DEF IInv
<1> QED BY <1>1, IInvHolds, PTL

\* Walking through the results of a search is a walk as PageWalk promises it, while the
\* index changes and lookups fail: no record twice, none out of order, none missed that
\* the walk owes.
THEOREM SearchImplementsWalk == Spec => ImplementsWalk
<1>1. Init => Promise!WalkInit
  BY InitHolds
<1>2. IInv /\ [Next]_vars => [Promise!WalkNext]_(Promise!pageVars)
  BY StepHolds
<1> QED BY <1>1, <1>2, IInvHolds, PTL DEF Spec, ImplementsWalk, Promise!WalkSpec
-----------------------------------------------------------------------------
(***************************************************************************)
(* What a walk's end rests on.                                             *)
(***************************************************************************)
\* Every page of a walk after which there are more shows something and leaves the cursor
\* below where it was, and nothing else moves the cursor: a walk has at most as many pages
\* as there are ids, however many records are written meanwhile (SearchFullHistoryBitmap's
\* condition global_id < cursor, and its cut).
EachPageGoesDown ==
  [][walk = "on" /\ walk' = "on" =>
       IF pc = "lookup" /\ pc' = "idle" THEN cursor' < cursor /\ page' # {} ELSE cursor' = cursor]_vars

LEMMA AssembleGoesDown ==
  ASSUME IInv, Assemble, walk = "on", walk' = "on"
  PROVE  cursor' < cursor /\ page' # {}
<1>1. pc = "lookup" /\ TypeOK /\ RequestInv
  BY DEF Assemble, IInv
<1>2. ~(~HasMore /\ Cardinality(ids) > Limit)
  BY DEF Assemble, GiveUp
<1>3. /\ HasMore /\ page' = {<<route[g], g>> : g \in Shown}
      /\ cursor' = IF HasMore /\ Shown # {} THEN CHOOSE g \in Shown : \A h \in Shown : g <= h ELSE 0
  BY <1>2 DEF Assemble
<1>4. Shown \subseteq ids /\ Shown # {}
  BY <1>1, <1>3, PageMeans
<1>5. /\ ids \subseteq Nat
      /\ \A g \in ids : g < cursor
  BY <1>1 DEF TypeOK, GlobalIds, RequestInv
<1> HIDE DEF HasMore, Shown
<1>6. \E g \in Shown : \A h \in Shown : g <= h
  BY <1>4, <1>5, MinExists
<1>7. cursor' \in Shown
  BY <1>3, <1>4, <1>6
<1> QED BY <1>3, <1>4, <1>5, <1>7

\* Each page of a walk through the results of a search leads further down, whatever is
\* written to the index meanwhile and however many copies of a record there are.
THEOREM SearchesGoDown == Spec => EachPageGoesDown
<1> DEFINE Down == walk = "on" /\ walk' = "on" =>
                     IF pc = "lookup" /\ pc' = "idle" THEN cursor' < cursor /\ page' # {}
                     ELSE cursor' = cursor
<1>1. ASSUME IInv, [Next]_vars PROVE [Down]_vars
  <2>1. CASE Write
    BY <2>1 DEF Write, requestVars
  <2>2. CASE BitmapQuery
    BY <2>2 DEF BitmapQuery, walkVars
  <2>3. CASE BitmapQueryShort \/ BitmapQueryFails
    BY <2>3 DEF BitmapQueryShort, BitmapQueryFails, GiveUp
  <2>4. CASE \E t \in Tables : Lookup(t) \/ LookupFails(t)
    BY <2>4 DEF Lookup, LookupFails, walkVars
  <2>5. CASE Assemble
    <3>1. pc = "lookup" /\ pc' = "idle"
      BY <2>5 DEF Assemble, Finish
    <3> QED BY <1>1, <2>5, <3>1, AssembleGoesDown
  <2> QED BY <1>1, <2>1, <2>2, <2>3, <2>4, <2>5 DEF Next
<1> QED BY <1>1, IInvHolds, PTL DEF Spec, EachPageGoesDown
=============================================================================

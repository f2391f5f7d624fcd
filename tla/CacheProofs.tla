---------------------------- MODULE CacheProofs ----------------------------
(***************************************************************************)
(* LayeredCache for every number of processes and requests, every pair of  *)
(* TTLs and every timeout: types, and the bound on the age of an answer.   *)
(*                                                                         *)
(* Every place a page can be in has its own bound, counted from a time the *)
(* place knows: an entry's from its expiry, a page in a request's hands    *)
(* from the request's start.  The clock appears only in the deadline, so   *)
(* that a tick disturbs nothing but that.                                  *)
(***************************************************************************)
EXTENDS LayeredCache, TLAPS

\* A page in Redis was read before it was put there by no more than a request's time; one
\* in a process's map may have been in Redis before.
RedisAge == redis.read + RedisTTL + Timeout >= redis.expires
LocalAge == \A p \in Processes :
  local[p].read + LocalTTL + RedisTTL + 2 * Timeout > local[p].expires

\* No request lives past its deadline.
InTime(r) == req[r].start <= now /\ now <= req[r].start + Timeout

\* What a request holds, by what it is about to do with it.
Own(r)    == req[r].page >= req[r].start
Shared(r) == req[r].page + RedisTTL + Timeout > req[r].start
Given(r)  == req[r].page + LocalTTL + RedisTTL + 2 * Timeout > req[r].start + 1

Handed(r) ==
  /\ req[r].pc # "idle" => InTime(r)
  /\ req[r].pc \in {"set local", "set redis"} => Own(r)
  /\ req[r].pc = "store" => Shared(r)
  /\ req[r].pc = "answer" => Given(r)

Aged == Typed /\ RedisAge /\ LocalAge /\ \A r \in Requests : Handed(r)

\* The ages, and nothing dated later than the clock.
IInv == Aged /\ NoneAhead

-----------------------------------------------------------------------------
\* In the beginning there is nothing cached and nobody asks.
LEMMA InitAged == Init => Aged
<1> USE CacheAssumption
<1> SUFFICES ASSUME Init PROVE Aged
  OBVIOUS
<1>1. Typed
  BY DEF Init, Typed, Times, Entries, Absent, Nobody, Steps
<1>2. RedisAge /\ LocalAge
  BY DEF Init, RedisAge, LocalAge, Absent
<1>3. \A r \in Requests : Handed(r)
  BY DEF Init, Handed, Nobody
<1> QED BY <1>1, <1>2, <1>3 DEF Aged

\* What types say of single times.
LEMMA TimesAreNat ==
  ASSUME Typed
  PROVE  /\ now \in Nat /\ redis.read \in Nat /\ redis.expires \in Nat
         /\ \A p \in Processes : local[p].read \in Nat /\ local[p].expires \in Nat
         /\ \A r \in Requests : req[r].start \in Nat /\ req[r].page \in Nat
         /\ Times \subseteq Nat /\ Absent \in Entries
<1>1. Times \subseteq Nat
  BY CacheAssumption DEF Times
<1>2. Absent \in Entries
  BY CacheAssumption DEF Absent, Entries, Times
<1>3. redis.read \in Times /\ redis.expires \in Nat
  BY DEF Typed, Entries
<1>4. \A p \in Processes : local[p].read \in Times /\ local[p].expires \in Nat
  BY DEF Typed, Entries
<1>5. \A r \in Requests : req[r].start \in Times /\ req[r].page \in Times
  BY DEF Typed
<1> QED BY <1>1, <1>2, <1>3, <1>4, <1>5 DEF Typed

\* A request's steps: each is about one request and the map of its process.
LEMMA ServeKeeps == ASSUME Aged, NEW r \in Requests, Serve(r) PROVE Aged'
<1> USE CacheAssumption
<1> DEFINE p == ServedBy[r]
<1>0. p \in Processes
  OBVIOUS
<1>1. /\ now \in Nat /\ redis.read \in Nat /\ redis.expires \in Nat
      /\ local[p].read \in Nat /\ local[p].expires \in Nat
      /\ req[r].start \in Nat /\ req[r].page \in Nat
  BY <1>0, TimesAreNat DEF Aged
<1>a. /\ now \in Times /\ redis.read \in Times /\ local[p].read \in Times
      /\ req[r].page \in Times /\ Absent \in Entries
  BY <1>0, TimesAreNat DEF Aged, Typed, Entries
<1>2. CASE LoadLocal(r)
  <2>1. now' = now /\ local' = local /\ redis' = redis /\ sweep' = sweep
    BY <1>2 DEF LoadLocal
  <2>2. CASE Fresh(local[p])
    <3>1. req' = [req EXCEPT ![r] = [@ EXCEPT !.pc = "answer", !.page = local[p].read]]
      BY <1>2, <2>2 DEF LoadLocal, Hold
    <3>2. InTime(r)
      BY <1>2 DEF Aged, Handed, LoadLocal, At
    <3>3. local[p].read + LocalTTL + RedisTTL + 2 * Timeout > local[p].expires /\ now < local[p].expires
      BY <1>0, <2>2 DEF Aged, LocalAge, Fresh
    <3>4. req'[r].pc = "answer" /\ req'[r].page = local[p].read /\ req'[r].start = req[r].start
      BY <3>1 DEF Aged, Typed
    <3>5. Handed(r)'
      <4>1. Given(r)' /\ InTime(r)'
        BY <1>1, <2>1, <3>2, <3>3, <3>4 DEF InTime, Given
      <4> QED BY <3>4, <4>1 DEF Handed
    <3>6. \A s \in Requests \ {r} : Handed(s)'
      BY <2>1, <3>1 DEF Aged, Typed, Handed, InTime, Own, Shared, Given
    <3>7. Typed'
      BY <1>a, <2>1, <3>1 DEF Aged, Typed, Steps
    <3> QED BY <2>1, <3>5, <3>6, <3>7 DEF Aged, RedisAge, LocalAge
  <2>3. CASE ~Fresh(local[p])
    <3>1. req' = [req EXCEPT ![r].pc = IF Present(local[p]) THEN "drop" ELSE "redis"]
      BY <1>2, <2>3 DEF LoadLocal, Goto
    <3>2. \A s \in Requests : Handed(s)'
      BY <1>2, <2>1, <3>1 DEF Aged, Typed, Handed, InTime, Own, Shared, Given, LoadLocal, At
    <3>3. Typed'
      BY <2>1, <3>1 DEF Aged, Typed, Steps
    <3> QED BY <2>1, <3>2, <3>3 DEF Aged, RedisAge, LocalAge
  <2> QED BY <2>2, <2>3
<1>3. CASE DropLocal(r)
  <2>1. now' = now /\ redis' = redis /\ sweep' = sweep
        /\ local' = [local EXCEPT ![p] = Absent] /\ req' = [req EXCEPT ![r].pc = "redis"]
    BY <1>3 DEF DropLocal, Goto
  <2>2. Typed'
    BY <1>a, <2>1 DEF Aged, Typed, Steps
  <2>3. LocalAge'
    <3>1. Absent.read = 0 /\ Absent.expires = 0
      BY DEF Absent
    <3>2. \A q \in Processes : local'[q] = IF q = p THEN Absent ELSE local[q]
      BY <1>0, <2>1 DEF Aged, Typed
    <3> QED BY <3>1, <3>2 DEF Aged, LocalAge
  <2>5. now' = now /\ req' = [req EXCEPT ![r].pc = "redis"]
    BY <2>1
  <2>4. \A s \in Requests : Handed(s)'
    BY <1>3, <2>5 DEF Aged, Typed, Handed, InTime, Own, Shared, Given, DropLocal, At
  <2> QED BY <2>1, <2>2, <2>3, <2>4 DEF Aged, RedisAge
<1>4. CASE AskRedis(r)
  <2>1. now' = now /\ local' = local /\ redis' = redis /\ sweep' = sweep
    BY <1>4 DEF AskRedis
  <2>2. CASE Fresh(redis) /\ Hold(r, "store", redis.read)
    <3>1. req' = [req EXCEPT ![r] = [@ EXCEPT !.pc = "store", !.page = redis.read]]
      BY <2>2 DEF Hold
    <3>2. InTime(r) /\ RedisAge /\ now < redis.expires
      BY <1>4, <2>2 DEF Aged, Handed, AskRedis, At, Fresh
    <3>3. req'[r].pc = "store" /\ req'[r].page = redis.read /\ req'[r].start = req[r].start
      BY <3>1 DEF Aged, Typed
    <3>4. Handed(r)'
      <4>1. Shared(r)' /\ InTime(r)'
        BY <1>1, <2>1, <3>2, <3>3 DEF InTime, Shared, RedisAge
      <4> QED BY <3>3, <4>1 DEF Handed
    <3>5. \A s \in Requests \ {r} : Handed(s)'
      BY <2>1, <3>1 DEF Aged, Typed, Handed, InTime, Own, Shared, Given
    <3>6. Typed'
      BY <1>a, <2>1, <3>1 DEF Aged, Typed, Steps
    <3> QED BY <2>1, <3>4, <3>5, <3>6 DEF Aged, RedisAge, LocalAge
  <2>3. CASE Goto(r, "query")
    <3>1. req' = [req EXCEPT ![r].pc = "query"]
      BY <2>3 DEF Goto
    <3>2. \A s \in Requests : Handed(s)'
      BY <1>4, <2>1, <3>1 DEF Aged, Typed, Handed, InTime, Own, Shared, Given, AskRedis, At
    <3>3. Typed'
      BY <2>1, <3>1 DEF Aged, Typed, Steps
    <3> QED BY <2>1, <3>2, <3>3 DEF Aged, RedisAge, LocalAge
  <2> QED BY <1>4, <2>2, <2>3 DEF AskRedis
<1> DEFINE Kept == [read |-> req[r].page, expires |-> now + LocalTTL]
           Put  == [read |-> req[r].page, expires |-> now + RedisTTL]
<1>b. Kept \in Entries /\ Put \in Entries
  <2>1. now + LocalTTL \in Nat /\ now + RedisTTL \in Nat
    BY <1>1
  <2> QED BY <1>a, <2>1 DEF Entries
<1>c. /\ Kept.read = req[r].page /\ Kept.expires = now + LocalTTL
      /\ Put.read = req[r].page /\ Put.expires = now + RedisTTL
  OBVIOUS
<1> HIDE DEF Kept, Put
<1>5. CASE StoreLocal(r)
  <2>1. now' = now /\ redis' = redis /\ sweep' = sweep
        /\ local' = [local EXCEPT ![p] = Kept] /\ req' = [req EXCEPT ![r].pc = "answer"]
    BY <1>5 DEF StoreLocal, Keep, Goto, Kept
  <2>2. InTime(r) /\ Shared(r)
    BY <1>5 DEF Aged, Handed, StoreLocal, At
  <2>3. Typed'
    BY <1>b, <2>1 DEF Aged, Typed, Steps
  <2>4. LocalAge'
    <3> SUFFICES ASSUME NEW q \in Processes
                 PROVE local'[q].read + LocalTTL + RedisTTL + 2 * Timeout > local'[q].expires
      BY DEF LocalAge
    <3>1. CASE q = p
      <4>1. local'[q] = Kept
        BY <2>1, <3>1 DEF Aged, Typed
      <4> QED BY <1>1, <1>c, <2>2, <4>1 DEF InTime, Shared
    <3>2. CASE q # p
      BY <2>1, <3>2 DEF Aged, Typed, LocalAge
    <3> QED BY <3>1, <3>2
  <2>5. Handed(r)'
    <3>1. req'[r].pc = "answer" /\ req'[r].page = req[r].page /\ req'[r].start = req[r].start
      BY <2>1 DEF Aged, Typed
    <3>2. Given(r)'
      BY <1>1, <2>2, <3>1 DEF Shared, Given
    <3>3. InTime(r)'
      BY <2>1, <2>2, <3>1 DEF InTime
    <3> QED BY <3>1, <3>2, <3>3 DEF Handed
  <2>6. \A s \in Requests \ {r} : Handed(s)'
    BY <2>1 DEF Aged, Typed, Handed, InTime, Own, Shared, Given
  <2> QED BY <2>1, <2>3, <2>4, <2>5, <2>6 DEF Aged, RedisAge
<1>6. CASE Query(r)
  <2>1. now' = now /\ local' = local /\ redis' = redis /\ sweep' = sweep
    BY <1>6 DEF Query
  <2>2. CASE Hold(r, "set local", now)
    <3>1. req' = [req EXCEPT ![r] = [@ EXCEPT !.pc = "set local", !.page = now]]
      BY <2>2 DEF Hold
    <3>2. InTime(r)
      BY <1>6 DEF Aged, Handed, Query, At
    <3>3. req'[r].pc = "set local" /\ req'[r].page = now /\ req'[r].start = req[r].start
      BY <3>1 DEF Aged, Typed
    <3>4. Handed(r)'
      BY <1>1, <2>1, <3>2, <3>3 DEF Handed, InTime, Own
    <3>5. \A s \in Requests \ {r} : Handed(s)'
      BY <2>1, <3>1 DEF Aged, Typed, Handed, InTime, Own, Shared, Given
    <3>6. Typed'
      BY <1>1, <2>1, <3>1 DEF Aged, Typed, Steps
    <3> QED BY <2>1, <3>4, <3>5, <3>6 DEF Aged, RedisAge, LocalAge
  <2>3. CASE Goto(r, "idle")
    <3>1. req' = [req EXCEPT ![r].pc = "idle"]
      BY <2>3 DEF Goto
    <3>2. \A s \in Requests : Handed(s)'
      BY <2>1, <3>1 DEF Aged, Typed, Handed, InTime, Own, Shared, Given
    <3>3. Typed'
      BY <2>1, <3>1 DEF Aged, Typed, Steps
    <3> QED BY <2>1, <3>2, <3>3 DEF Aged, RedisAge, LocalAge
  <2> QED BY <1>6, <2>2, <2>3 DEF Query
<1>7. CASE SetLocal(r)
  <2>1. now' = now /\ redis' = redis /\ sweep' = sweep
        /\ local' = [local EXCEPT ![p] = Kept] /\ req' = [req EXCEPT ![r].pc = "set redis"]
    BY <1>7 DEF SetLocal, Keep, Goto, Kept
  <2>2. InTime(r) /\ Own(r)
    BY <1>7 DEF Aged, Handed, SetLocal, At
  <2>3. Typed'
    BY <1>b, <2>1 DEF Aged, Typed, Steps
  <2>4. LocalAge'
    <3> SUFFICES ASSUME NEW q \in Processes
                 PROVE local'[q].read + LocalTTL + RedisTTL + 2 * Timeout > local'[q].expires
      BY DEF LocalAge
    <3>1. CASE q = p
      <4>1. local'[q] = Kept
        BY <2>1, <3>1 DEF Aged, Typed
      <4> QED BY <1>1, <1>c, <2>2, <4>1 DEF InTime, Own
    <3>2. CASE q # p
      BY <2>1, <3>2 DEF Aged, Typed, LocalAge
    <3> QED BY <3>1, <3>2
  <2>5. \A s \in Requests : Handed(s)'
    BY <2>1, <2>2 DEF Aged, Typed, Handed, InTime, Own, Shared, Given
  <2> QED BY <2>1, <2>3, <2>4, <2>5 DEF Aged, RedisAge
<1>8. CASE SetRedis(r)
  <2>1. now' = now /\ local' = local /\ sweep' = sweep /\ req' = [req EXCEPT ![r].pc = "answer"]
    BY <1>8 DEF SetRedis, Goto
  <2>2. InTime(r) /\ Own(r)
    BY <1>8 DEF Aged, Handed, SetRedis, At
  <2>3. redis' = Put \/ redis' = redis
    BY <1>8 DEF SetRedis, Put
  <2>4. RedisAge'
    <3>1. CASE redis' = Put
      BY <1>1, <1>c, <2>2, <3>1 DEF RedisAge, InTime, Own
    <3>2. CASE redis' = redis
      BY <3>2 DEF Aged, RedisAge
    <3> QED BY <2>3, <3>1, <3>2
  <2>5. Typed'
    BY <1>b, <2>1, <2>3 DEF Aged, Typed, Steps
  <2>6. Handed(r)'
    <3>1. req'[r].pc = "answer" /\ req'[r].page = req[r].page /\ req'[r].start = req[r].start
      BY <2>1 DEF Aged, Typed
    <3>2. Given(r)' /\ InTime(r)'
      BY <1>1, <2>1, <2>2, <3>1 DEF InTime, Own, Given
    <3> QED BY <3>1, <3>2 DEF Handed
  <2>7. \A s \in Requests \ {r} : Handed(s)'
    BY <2>1 DEF Aged, Typed, Handed, InTime, Own, Shared, Given
  <2> QED BY <2>1, <2>4, <2>5, <2>6, <2>7 DEF Aged, LocalAge
<1>9. CASE Answer(r)
  <2>1. now' = now /\ local' = local /\ redis' = redis /\ sweep' = sweep
        /\ req' = [req EXCEPT ![r].pc = "idle"]
    BY <1>9 DEF Answer, Goto
  <2>2. \A s \in Requests : Handed(s)'
    BY <2>1 DEF Aged, Typed, Handed, InTime, Own, Shared, Given
  <2>3. Typed'
    BY <2>1 DEF Aged, Typed, Steps
  <2> QED BY <2>1, <2>2, <2>3 DEF Aged, RedisAge, LocalAge
<1> QED BY <1>2, <1>3, <1>4, <1>5, <1>6, <1>7, <1>8, <1>9 DEF Serve

\* A request that begins has nothing in its hands and the whole of its time.
LEMMA BeginKeeps == ASSUME Aged, NEW r \in Requests, Begin(r) PROVE Aged'
<1> USE CacheAssumption
<1>1. now' = now /\ local' = local /\ redis' = redis /\ sweep' = sweep
      /\ req' = [req EXCEPT ![r] = [pc |-> "load", start |-> now, page |-> 0]]
  BY DEF Begin
<1>2. Typed'
  <2>1. [pc |-> "load", start |-> now, page |-> 0] \in [pc : Steps, start : Times, page : Times]
    <3>1. 0 \in Times
      BY DEF Times
    <3>2. now \in Times /\ "load" \in Steps
      BY DEF Aged, Typed, Steps
    <3> QED BY <3>1, <3>2
  <2> QED BY <1>1, <2>1 DEF Aged, Typed
<1>3. now \in Nat
  BY TimesAreNat DEF Aged
<1>4. Handed(r)'
  <2>1. req'[r].pc = "load" /\ req'[r].start = now
    BY <1>1 DEF Aged, Typed
  <2>2. InTime(r)'
    BY <1>1, <1>3, <2>1 DEF InTime
  <2> QED BY <2>1, <2>2 DEF Handed
<1>5. \A s \in Requests \ {r} : Handed(s)'
  BY <1>1 DEF Aged, Typed, Handed, InTime, Own, Shared, Given
<1> QED BY <1>1, <1>2, <1>4, <1>5 DEF Aged, RedisAge, LocalAge

\* Entries that go and processes that start anew take nothing from the bounds.
LEMMA ForgettingKeeps ==
  ASSUME Aged, NEW p \in Processes, Sweep(p) \/ SweepDelete(p) \/ Crash(p) PROVE Aged'
<1> USE CacheAssumption
<1>0. Absent \in Entries
  BY TimesAreNat DEF Aged
<1>1. CASE Sweep(p)
  BY <1>1 DEF Sweep, Aged, Typed, RedisAge, LocalAge, Handed, InTime, Own, Shared, Given
<1>2. CASE SweepDelete(p)
  <2>1. now' = now /\ redis' = redis /\ req' = req
        /\ local' = [local EXCEPT ![p] = Absent] /\ sweep' = [sweep EXCEPT ![p] = "idle"]
    BY <1>2 DEF SweepDelete
  <2>2. Typed'
    BY <1>0, <2>1 DEF Aged, Typed
  <2>3. LocalAge'
    BY <2>1 DEF Aged, Typed, LocalAge, Absent
  <2> QED BY <2>1, <2>2, <2>3 DEF Aged, RedisAge, Handed, InTime, Own, Shared, Given
<1>3. CASE Crash(p)
  <2>1. now' = now /\ redis' = redis /\ local' = [local EXCEPT ![p] = Absent]
        /\ sweep' = [sweep EXCEPT ![p] = "idle"]
        /\ req' = [r \in Requests |-> IF ServedBy[r] = p THEN Nobody ELSE req[r]]
    BY <1>3 DEF Crash
  <2>2. Typed'
    <3>1. Nobody \in [pc : Steps, start : Times, page : Times]
      BY DEF Nobody, Steps, Times
    <3> QED BY <1>0, <2>1, <3>1 DEF Aged, Typed
  <2>3. LocalAge'
    BY <2>1 DEF Aged, Typed, LocalAge, Absent
  <2>4. \A r \in Requests : Handed(r)'
    <3> SUFFICES ASSUME NEW r \in Requests PROVE Handed(r)'
      OBVIOUS
    <3>1. CASE ServedBy[r] = p
      <4>1. req'[r].pc = "idle"
        BY <2>1, <3>1 DEF Nobody
      <4> QED BY <4>1 DEF Handed
    <3>2. CASE ServedBy[r] # p
      <4>1. req'[r] = req[r]
        BY <2>1, <3>2
      <4> QED BY <2>1, <4>1 DEF Aged, Handed, InTime, Own, Shared, Given
    <3> QED BY <3>1, <3>2
  <2> QED BY <2>1, <2>2, <2>3, <2>4 DEF Aged, RedisAge
<1> QED BY <1>1, <1>2, <1>3

LEMMA EvictKeeps == ASSUME Aged, Evict PROVE Aged'
<1> USE CacheAssumption
<1>1. redis' = Absent /\ now' = now /\ local' = local /\ req' = req /\ sweep' = sweep
  BY DEF Evict
<1>2. Typed'
  BY <1>1, TimesAreNat DEF Aged, Typed
<1>3. RedisAge'
  BY <1>1 DEF RedisAge, Absent
<1> QED BY <1>1, <1>2, <1>3 DEF Aged, LocalAge, Handed, InTime, Own, Shared, Given

\* Time passes only while every request is before its deadline.
LEMMA TickKeeps == ASSUME Aged, Tick PROVE Aged'
<1> USE CacheAssumption
<1>1. now' = now + 1 /\ now < MaxTime /\ now \in Nat
      /\ local' = local /\ redis' = redis /\ req' = req /\ sweep' = sweep
  BY DEF Tick, Aged, Typed, Times
<1>2. Typed'
  BY <1>1 DEF Aged, Typed, Times
<1>3. \A r \in Requests : Handed(r)'
  <2> SUFFICES ASSUME NEW r \in Requests PROVE Handed(r)'
    OBVIOUS
  <2>1. req[r].start \in Nat
    BY TimesAreNat DEF Aged
  <2>2. ASSUME req[r].pc # "idle" PROVE InTime(r)'
    <3>1. now < req[r].start + Timeout
      BY <2>2 DEF Tick
    <3>2. InTime(r)
      BY <2>2 DEF Aged, Handed
    <3>3. req'[r].start = req[r].start
      BY <1>1
    <3> QED BY <1>1, <2>1, <3>1, <3>2, <3>3 DEF InTime
  <2> QED BY <1>1, <2>2 DEF Aged, Handed, Own, Shared, Given
<1> QED BY <1>1, <1>2, <1>3 DEF Aged, RedisAge, LocalAge

\* Every step keeps the ages.
LEMMA StepAged == Aged /\ [Next]_vars => Aged'
<1> SUFFICES ASSUME Aged, [Next]_vars PROVE Aged'
  OBVIOUS
<1>1. CASE \E r \in Requests : Begin(r) \/ Serve(r)
  BY <1>1, BeginKeeps, ServeKeeps
<1>2. CASE \E p \in Processes : Sweep(p) \/ SweepDelete(p) \/ Crash(p)
  BY <1>2, ForgettingKeeps
<1>3. CASE Evict
  BY <1>3, EvictKeeps
<1>4. CASE Tick
  BY <1>4, TickKeeps
<1>5. CASE UNCHANGED vars
  BY <1>5 DEF vars, Aged, Typed, RedisAge, LocalAge, Handed, InTime, Own, Shared, Given
<1> QED BY <1>1, <1>2, <1>3, <1>4, <1>5 DEF Next

\* A page is dated when it is read, and a request when it begins: whatever is copied from
\* one place to another has its date from before.
LEMMA StepNoneAhead == Typed /\ NoneAhead /\ [Next]_vars => NoneAhead'
<1> SUFFICES ASSUME Typed, NoneAhead, [Next]_vars PROVE NoneAhead'
  OBVIOUS
<1> USE CacheAssumption
<1>0. now \in Nat
  BY TimesAreNat
<1>n. Absent.read = 0 /\ Nobody.start = 0 /\ Nobody.page = 0
  BY DEF Absent, Nobody
<1>1. ASSUME NEW r \in Requests, Begin(r) PROVE NoneAhead'
  BY <1>0, <1>1 DEF Begin, Typed, NoneAhead
<1>2. ASSUME NEW r \in Requests, Serve(r) PROVE NoneAhead'
  <2> DEFINE p == ServedBy[r]
  <2>0. p \in Processes
    OBVIOUS
  <2>1. CASE LoadLocal(r)
    <3>1. CASE Hold(r, "answer", local[p].read)
      BY <2>0, <2>1, <3>1 DEF LoadLocal, Hold, Typed, NoneAhead
    <3>2. CASE Goto(r, IF Present(local[p]) THEN "drop" ELSE "redis")
      BY <2>1, <3>2 DEF LoadLocal, Goto, Typed, NoneAhead
    <3> QED BY <2>1, <3>1, <3>2 DEF LoadLocal
  <2>2. CASE DropLocal(r)
    BY <1>0, <1>n, <2>0, <2>2 DEF DropLocal, Goto, Typed, NoneAhead
  <2>3. CASE AskRedis(r)
    <3>1. CASE Hold(r, "store", redis.read)
      BY <2>3, <3>1 DEF AskRedis, Hold, Typed, NoneAhead
    <3>2. CASE Goto(r, "query")
      BY <2>3, <3>2 DEF AskRedis, Goto, Typed, NoneAhead
    <3> QED BY <2>3, <3>1, <3>2 DEF AskRedis
  <2>4. CASE StoreLocal(r)
    BY <2>0, <2>4 DEF StoreLocal, Keep, Goto, Typed, NoneAhead
  <2>5. CASE Query(r)
    <3>1. CASE Hold(r, "set local", now)
      BY <1>0, <2>5, <3>1 DEF Query, Hold, Typed, NoneAhead
    <3>2. CASE Goto(r, "idle")
      BY <2>5, <3>2 DEF Query, Goto, Typed, NoneAhead
    <3> QED BY <2>5, <3>1, <3>2 DEF Query
  <2>6. CASE SetLocal(r)
    BY <2>0, <2>6 DEF SetLocal, Keep, Goto, Typed, NoneAhead
  <2>7. CASE SetRedis(r)
    <3>1. redis'.read = req[r].page \/ redis' = redis
      <4>1. \/ redis' = [read |-> req[r].page, expires |-> now + RedisTTL]
            \/ redis' = redis
        BY <2>7 DEF SetRedis
      <4> QED BY <4>1
    <3>2. now' = now /\ local' = local /\ req' = [req EXCEPT ![r].pc = "answer"]
      BY <2>7 DEF SetRedis, Goto
    <3> QED BY <3>1, <3>2 DEF Typed, NoneAhead
  <2>8. CASE Answer(r)
    BY <2>8 DEF Answer, Goto, Typed, NoneAhead
  <2> QED BY <1>2, <2>1, <2>2, <2>3, <2>4, <2>5, <2>6, <2>7, <2>8 DEF Serve
<1>3. ASSUME NEW p \in Processes, Sweep(p) \/ SweepDelete(p) \/ Crash(p) PROVE NoneAhead'
  <2>1. CASE Sweep(p)
    BY <2>1 DEF Sweep, NoneAhead
  <2>2. CASE SweepDelete(p)
    BY <1>0, <1>n, <2>2 DEF SweepDelete, Typed, NoneAhead
  <2>3. CASE Crash(p)
    <3>1. now' = now /\ redis' = redis /\ local' = [local EXCEPT ![p] = Absent]
      BY <2>3 DEF Crash
    <3>2. \A r \in Requests : req'[r] = Nobody \/ req'[r] = req[r]
      BY <2>3 DEF Crash
    <3> QED BY <1>0, <1>n, <3>1, <3>2 DEF Typed, NoneAhead
  <2> QED BY <1>3, <2>1, <2>2, <2>3
<1>4. CASE Evict
  BY <1>0, <1>n, <1>4 DEF Evict, NoneAhead
<1>5. CASE Tick
  <2>1. now' = now + 1 /\ local' = local /\ redis' = redis /\ req' = req
    BY <1>5 DEF Tick
  <2> QED BY <1>0, <2>1, TimesAreNat DEF NoneAhead
<1>6. CASE UNCHANGED vars
  BY <1>6 DEF vars, NoneAhead
<1> QED BY <1>1, <1>2, <1>3, <1>4, <1>5, <1>6 DEF Next

\* The invariant holds in the beginning, and every step keeps it.
LEMMA InitHolds == Init => IInv
<1>1. Init => NoneAhead
  BY DEF Init, NoneAhead, Absent, Nobody
<1> QED BY <1>1, InitAged DEF IInv

LEMMA StepHolds == IInv /\ [Next]_vars => IInv'
  BY StepAged, StepNoneAhead DEF IInv, Aged

-----------------------------------------------------------------------------
\* The invariant holds throughout.
THEOREM CacheInductive == Spec => []IInv
  BY InitHolds, StepHolds, PTL DEF Spec

\* Every variable has its type, and no page that is kept or held, and no request, is dated
\* later than the clock.
THEOREM CacheTypeCorrect == Spec => []TypeOK
<1>1. IInv => TypeOK
  BY DEF IInv, Aged, TypeOK
<1> QED BY <1>1, CacheInductive, PTL

\* No answer is older than both TTLs and three requests together, for all TTLs, timeouts,
\* processes and requests.
THEOREM StalenessIsBounded == Spec => []BoundedStaleness
<1>1. IInv => BoundedStaleness
  <2> SUFFICES ASSUME IInv, NEW r \in Requests, At(r, "answer")
               PROVE req[r].page + MaxAge > now + 1
    BY DEF BoundedStaleness
  <2>1. InTime(r) /\ Given(r)
    BY DEF IInv, Aged, Handed, At
  <2>2. req[r].page \in Nat /\ req[r].start \in Nat /\ now \in Nat
    BY TimesAreNat DEF IInv, Aged
  <2> QED BY <2>1, <2>2, CacheAssumption DEF InTime, Given, MaxAge
<1> QED BY <1>1, CacheInductive, PTL
=============================================================================

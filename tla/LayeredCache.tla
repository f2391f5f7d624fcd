---------------------------- MODULE LayeredCache ----------------------------
(***************************************************************************)
(* The two caches in front of the first page of a table's records:         *)
(* MultiLayerCache (a map in each process, multilayer_cache.go), RedisCache*)
(* (shared by the processes, redis.go), and the requests that fill and use *)
(* them (DynamicHandler.GetRecords).  One key.                             *)
(*                                                                         *)
(* What matters of a cached page is when it was read from PostgreSQL.  A   *)
(* page found in Redis is kept by the process for the whole of its own     *)
(* TTL, however long Redis had it, and requests hold a page in their hands *)
(* between any two steps.                                                  *)
(***************************************************************************)
EXTENDS Integers

CONSTANTS
  Processes,     \* API servers that share the Redis
  Requests,      \* requests, each served by one goroutine at a time
  ServedBy,      \* the process of each request
  LocalTTL,      \* 30 s
  RedisTTL,      \* 5 min
  Timeout,       \* how long a request lasts at most: h.timeout, and the ping or the read
                 \* of Redis that it began before (redis.go has time limits of its own)
  MaxTime        \* ticks of the clock (a bound)

ASSUME CacheAssumption ==
  /\ ServedBy \in [Requests -> Processes]
  /\ LocalTTL \in Nat \ {0} /\ RedisTTL \in Nat \ {0} /\ Timeout \in Nat \ {0} /\ MaxTime \in Nat

VARIABLES
  now,       \* the clock
  local,     \* localCache of each process: a page's entry
  redis,     \* and Redis's
  req,       \* requests: where they are, since when, and the page they hold
  sweep      \* cleanupLoop of each process: "idle", or "delete" of what it saw expired

vars == <<now, local, redis, req, sweep>>

Times   == 0..MaxTime
Entries == [read : Times, expires : Nat]
Absent  == [read |-> 0, expires |-> 0]
Fresh(e)   == now < e.expires
Present(e) == e.expires > 0

Steps == {"idle", "load", "drop", "redis", "store", "query", "set local", "set redis", "answer"}
Nobody == [pc |-> "idle", start |-> 0, page |-> 0]

Init ==
  /\ now = 0 /\ local = [p \in Processes |-> Absent] /\ redis = Absent
  /\ req = [r \in Requests |-> Nobody] /\ sweep = [p \in Processes |-> "idle"]

At(r, pc) == req[r].pc = pc
Goto(r, pc) == req' = [req EXCEPT ![r].pc = pc]
Hold(r, pc, page) == req' = [req EXCEPT ![r] = [@ EXCEPT !.pc = pc, !.page = page]]

(***************************************************************************)
(* GetRecords without a cursor.                                            *)
(***************************************************************************)
Begin(r) ==
  /\ At(r, "idle") /\ req' = [req EXCEPT ![r] = [pc |-> "load", start |-> now, page |-> 0]]
  /\ UNCHANGED <<now, local, redis, sweep>>

\* Mistake: a hit gives the entry another TTL.
LoadLocal_Slides(r) ==
  /\ At(r, "load")
  /\ LET e == local[ServedBy[r]] IN
       IF Fresh(e)
       THEN /\ Hold(r, "answer", e.read)
            /\ local' = [local EXCEPT ![ServedBy[r]] = [e EXCEPT !.expires = now + LocalTTL]]
       ELSE Goto(r, IF Present(e) THEN "drop" ELSE "redis") /\ UNCHANGED local
  /\ UNCHANGED <<now, redis, sweep>>

LoadLocal(r) ==
  /\ At(r, "load")
  /\ LET e == local[ServedBy[r]] IN
       IF Fresh(e) THEN Hold(r, "answer", e.read)
       ELSE Goto(r, IF Present(e) THEN "drop" ELSE "redis")
  /\ UNCHANGED <<now, local, redis, sweep>>

\* The expired entry is deleted by its key: what another request has stored meanwhile, too.
DropLocal(r) ==
  /\ At(r, "drop") /\ Goto(r, "redis")
  /\ local' = [local EXCEPT ![ServedBy[r]] = Absent]
  /\ UNCHANGED <<now, redis, sweep>>

\* Redis has the page, or not, or does not answer.
AskRedis(r) ==
  /\ At(r, "redis")
  /\ \/ Fresh(redis) /\ Hold(r, "store", redis.read)
     \/ Goto(r, "query")
  /\ UNCHANGED <<now, local, redis, sweep>>

Keep(r) == local' = [local EXCEPT ![ServedBy[r]] = [read |-> req[r].page, expires |-> now + LocalTTL]]

StoreLocal(r) ==
  /\ At(r, "store") /\ Keep(r) /\ Goto(r, "answer")
  /\ UNCHANGED <<now, redis, sweep>>

\* PostgreSQL answers, or the request ends with an error.
Query(r) ==
  /\ At(r, "query")
  /\ \/ Hold(r, "set local", now)
     \/ Goto(r, "idle")
  /\ UNCHANGED <<now, local, redis, sweep>>

SetLocal(r) ==
  /\ At(r, "set local") /\ Keep(r) /\ Goto(r, "set redis")
  /\ UNCHANGED <<now, redis, sweep>>

\* Mistake: the two times are swapped.
SetRedis_Swapped(r) ==
  /\ At(r, "set redis") /\ Goto(r, "answer")
  /\ redis' = [read |-> now + RedisTTL, expires |-> req[r].page]
  /\ UNCHANGED <<now, local, sweep>>

\* An older page may replace a newer one; an error is not looked at.
SetRedis(r) ==
  /\ At(r, "set redis") /\ Goto(r, "answer")
  /\ \/ redis' = [read |-> req[r].page, expires |-> now + RedisTTL]
     \/ UNCHANGED redis
  /\ UNCHANGED <<now, local, sweep>>

Answer(r) ==
  /\ At(r, "answer") /\ Goto(r, "idle")
  /\ UNCHANGED <<now, local, redis, sweep>>

Serve(r) == \/ LoadLocal(r) \/ DropLocal(r) \/ AskRedis(r) \/ StoreLocal(r)
            \/ Query(r) \/ SetLocal(r) \/ SetRedis(r) \/ Answer(r)

(***************************************************************************)
(* cleanupLoop, and the world.                                             *)
(***************************************************************************)
Sweep(p) ==
  /\ sweep[p] = "idle" /\ Present(local[p]) /\ now > local[p].expires
  /\ sweep' = [sweep EXCEPT ![p] = "delete"]
  /\ UNCHANGED <<now, local, redis, req>>

SweepDelete(p) ==
  /\ sweep[p] = "delete" /\ sweep' = [sweep EXCEPT ![p] = "idle"]
  /\ local' = [local EXCEPT ![p] = Absent]
  /\ UNCHANGED <<now, redis, req>>

\* Redis forgets the page (evicted, flushed, restarted).
Evict == redis # Absent /\ redis' = Absent /\ UNCHANGED <<now, local, req, sweep>>

\* A process starts anew.
Crash(p) ==
  /\ local' = [local EXCEPT ![p] = Absent] /\ sweep' = [sweep EXCEPT ![p] = "idle"]
  /\ req' = [r \in Requests |-> IF ServedBy[r] = p THEN Nobody ELSE req[r]]
  /\ UNCHANGED <<now, redis>>

\* A request is over in time: its context ends what waits for PostgreSQL at the deadline,
\* and Redis' own limits what waits for Redis soon after.
Tick ==
  /\ now < MaxTime /\ now' = now + 1
  /\ \A r \in Requests : req[r].pc # "idle" => now < req[r].start + Timeout
  /\ UNCHANGED <<local, redis, req, sweep>>

Next ==
  \/ \E r \in Requests : Begin(r) \/ Serve(r)
  \/ \E p \in Processes : Sweep(p) \/ SweepDelete(p) \/ Crash(p)
  \/ Evict \/ Tick

Spec == Init /\ [][Next]_vars

(***************************************************************************)
(* Properties.                                                             *)
(***************************************************************************)
\* What the variables hold.
Typed ==
  /\ now \in Times /\ local \in [Processes -> Entries] /\ redis \in Entries
  /\ req \in [Requests -> [pc : Steps, start : Times, page : Times]]
  /\ sweep \in [Processes -> {"idle", "delete"}]

\* What has happened, has happened by now.
NoneAhead ==
  /\ redis.read <= now /\ \A p \in Processes : local[p].read <= now
  /\ \A r \in Requests : req[r].start <= now /\ req[r].page <= now

\* Every variable has its type, and wherever a page is kept or held, it was read by now.
TypeOK == Typed /\ NoneAhead

\* An answer may be as old as both TTLs together and three requests under way: one that
\* had read the page and put it into Redis late, one that found it there at the last
\* moment and kept it late, and one that took it from there at the last moment.  It is
\* never older, whoever stores, drops, sweeps and overwrites in between.
MaxAge == RedisTTL + LocalTTL + 3 * Timeout
BoundedStaleness == \A r \in Requests : At(r, "answer") => req[r].page + MaxAge > now + 1
=============================================================================

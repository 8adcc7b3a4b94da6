----------------------- MODULE DistributedLockProofs -----------------------
(***************************************************************************)
(* Mutual exclusion of the redis lock, for any number of clients, any      *)
(* number of failed calls and any MaxMissed that leaves a renewal in time. *)
(*                                                                         *)
(* MutualExclusion is not inductive: that a client in its critical section *)
(* still owns the key depends on the time the key has left.  Held counts   *)
(* it: what the key has lost since the last renewal is at most one unit    *)
(* per missed renewal and one for the renewal that is due.                 *)
(*                                                                         *)
(* Then, of the components the lock runs beside: reads that are shared in  *)
(* the cache, and what is there once an application serves.                *)
(***************************************************************************)
EXTENDS Infrastructure, FiniteSetTheorems, TLAPS

(* The key belongs to c, its watchdog runs, and the key has the time left  *)
(* that the watchdog's record allows.                                      *)
Held(c) == /\ holder = c
           /\ dog[c]
           /\ ttl + missed[c] + (IF due[c] THEN 1 ELSE 0) >= Periods

OwnersHold == \A c \in Clients : Owns(c) => Held(c)

IInv == TypeOK /\ OwnersHold

-----------------------------------------------------------------------------
(* Every variable keeps its type; the key is free exactly when it has no   *)
(* time left, and only a running watchdog has a renewal due (SET NX, the   *)
(* script of Unlock, EXPIRE and the expiration itself).                    *)
THEOREM TypeCorrect == Spec => []TypeOK
<1>1. Init => TypeOK
  BY FreeAssumption, MaxMissedAssumption, MaxErrorsAssumption
     DEF Init, TypeOK, Running, Periods
<1>2. TypeOK /\ [Next]_vars => TypeOK'
  <2> SUFFICES ASSUME TypeOK, [Next]_vars PROVE TypeOK'
    OBVIOUS
  <2> USE FreeAssumption, MaxMissedAssumption, MaxErrorsAssumption DEF TypeOK, Running, Periods
  <2>1. CASE Tick
    BY <2>1 DEF Tick
  <2>2. ASSUME NEW c \in Clients, TryLockWins(c) PROVE TypeOK'
    BY <2>2 DEF TryLockWins, SetNX, StartWatchdog
  <2>3. ASSUME NEW c \in Clients, TryLockLoses(c) PROVE TypeOK'
    BY <2>3 DEF TryLockLoses, StartWatchdog
  <2>4. ASSUME NEW c \in Clients, TryLockAgain(c) PROVE TypeOK'
    BY <2>4 DEF TryLockAgain, StartWatchdog
  <2>5. ASSUME NEW c \in Clients, TryLockErrs(c) PROVE TypeOK'
    BY <2>5 DEF TryLockErrs, SetNX, dogVars
  <2>6. ASSUME NEW c \in Clients, LockTimesOut(c) PROVE TypeOK'
    BY <2>6 DEF LockTimesOut, dogVars
  <2>7. ASSUME NEW c \in Clients, Unlock(c) PROVE TypeOK'
    <3>1. CASE holder # c
      BY <2>7, <3>1 DEF Unlock
    <3>2. CASE holder = c
      <4> DEFINE stillDue == due[c] /\ leaked[c]
      <4>1. due' = [due EXCEPT ![c] = stillDue]
        BY <2>7, <3>2 DEF Unlock
      <4>2. due' \in [Clients -> BOOLEAN]
        BY <4>1, Zenon
      <4>3. dog' = [dog EXCEPT ![c] = FALSE] /\ leaked' = leaked
        BY <2>7, <3>2 DEF Unlock
      <4>4. \A d \in Clients : due'[d] => Running(d)'
        BY <4>1, <4>3
      <4>5. missed' \in [Clients -> 0..MaxMissed]
        BY <2>7, <3>2 DEF Unlock
      <4> QED
        BY <2>7, <3>2, <4>2, <4>3, <4>4, <4>5 DEF Unlock
    <3> QED
      BY <3>1, <3>2
  <2>8. ASSUME NEW c \in Clients, UnlockErrs(c) PROVE TypeOK'
    BY <2>8 DEF UnlockErrs, dogVars
  <2>9. ASSUME NEW c \in Clients, ContextEnds(c) PROVE TypeOK'
    BY <2>9 DEF ContextEnds
  <2>10. ASSUME NEW c \in Clients, NewContext(c) PROVE TypeOK'
    BY <2>10 DEF NewContext, dogVars
  <2>11. ASSUME NEW c \in Clients, Crash(c) PROVE TypeOK'
    BY <2>11 DEF Crash
  <2>12. ASSUME NEW c \in Clients, Watchdog(c) PROVE TypeOK'
    <3>1. CASE Renew(c)
      BY <3>1 DEF Renew
    <3>2. CASE RenewFails(c)
      BY <3>2 DEF RenewFails
    <3> QED
      BY <2>12, <3>1, <3>2 DEF Watchdog
  <2>13. CASE UNCHANGED vars
    BY <2>13 DEF vars, dogVars
  <2> QED
    BY <2>1, <2>2, <2>3, <2>4, <2>5, <2>6, <2>7, <2>8, <2>9, <2>10, <2>11,
       <2>12, <2>13 DEF Next
<1> QED
  BY <1>1, <1>2, PTL DEF Spec

-----------------------------------------------------------------------------
(* A step leaves the key to its owner: the one that can take time off it   *)
(* is Tick, and it cannot take the last unit.                              *)
LEMMA TickLeavesKey ==
  ASSUME TypeOK, OwnersHold, Tick
  PROVE  OwnersHold'
<1> SUFFICES ASSUME NEW c \in Clients, Owns(c)' PROVE Held(c)'
  BY DEF OwnersHold
<1>1. Held(c) /\ ~due[c] /\ due'[c]
  BY DEF OwnersHold, Owns, Tick, Held, Running, TypeOK
<1>2. missed[c] \in Nat /\ missed[c] <= MaxMissed /\ MaxMissed + 1 < Periods
  BY MaxMissedAssumption DEF TypeOK
<1>3. ttl \in Nat /\ ttl + missed[c] >= Periods
  BY <1>1 DEF Held, TypeOK, Periods
<1>4. ttl >= 2 /\ ttl' = ttl - 1
  BY <1>2, <1>3, MaxMissedAssumption DEF Tick, Periods
<1>5. holder' = c /\ dog'[c] /\ missed'[c] = missed[c]
  BY <1>1, <1>3, <1>4 DEF Tick, Held
<1> QED
  BY <1>1, <1>2, <1>3, <1>4, <1>5 DEF Held, Periods

(* Two clients that both own the key are the same client.                  *)
LEMMA OwnersHoldExclude == OwnersHold => MutualExclusion
  BY DEF OwnersHold, MutualExclusion, Held

(* A client in its critical section whose context is not done still has    *)
(* the key in redis (TryLock, watchdog, Unlock): so two clients are never  *)
(* in their critical sections together.                                    *)
THEOREM MutualExclusionHolds == Spec => []MutualExclusion
<1>1. Init => OwnersHold
  BY DEF Init, OwnersHold, Owns
<1>2. TypeOK /\ OwnersHold /\ [Next]_vars => OwnersHold'
  <2> SUFFICES ASSUME TypeOK, OwnersHold, [Next]_vars PROVE OwnersHold'
    OBVIOUS
  <2> USE FreeAssumption, MaxMissedAssumption DEF TypeOK, OwnersHold, Owns, Held, Periods
  <2>1. CASE Tick
    BY <2>1, TickLeavesKey
  <2>2. ASSUME NEW c \in Clients, TryLockWins(c) PROVE OwnersHold'
    <3>1. \A d \in Clients : ~Owns(d)
      BY <2>2 DEF TryLockWins, SetNX
    <3>2. \A d \in Clients \ {c} : ~Owns(d)'
      BY <2>2, <3>1 DEF TryLockWins
    <3>3. Held(c)'
      BY <2>2 DEF TryLockWins, SetNX, StartWatchdog
    <3> QED
      BY <3>2, <3>3
  <2>3. ASSUME NEW c \in Clients, TryLockLoses(c) PROVE OwnersHold'
    BY <2>3 DEF TryLockLoses, StartWatchdog
  <2>4. ASSUME NEW c \in Clients, TryLockAgain(c) PROVE OwnersHold'
    BY <2>4 DEF TryLockAgain, StartWatchdog
  <2>5. ASSUME NEW c \in Clients, TryLockErrs(c) PROVE OwnersHold'
    BY <2>5 DEF TryLockErrs, SetNX, dogVars
  <2>6. ASSUME NEW c \in Clients, LockTimesOut(c) PROVE OwnersHold'
    BY <2>6 DEF LockTimesOut, dogVars
  <2>7. ASSUME NEW c \in Clients, Unlock(c) PROVE OwnersHold'
    BY <2>7 DEF Unlock
  <2>8. ASSUME NEW c \in Clients, UnlockErrs(c) PROVE OwnersHold'
    BY <2>8 DEF UnlockErrs, dogVars
  <2>9. ASSUME NEW c \in Clients, ContextEnds(c) PROVE OwnersHold'
    BY <2>9 DEF ContextEnds
  <2>10. ASSUME NEW c \in Clients, NewContext(c) PROVE OwnersHold'
    BY <2>10 DEF NewContext, dogVars
  <2>11. ASSUME NEW c \in Clients, Crash(c) PROVE OwnersHold'
    BY <2>11 DEF Crash
  <2>12. ASSUME NEW c \in Clients, Watchdog(c) PROVE OwnersHold'
    <3>1. CASE Renew(c)
      BY <3>1 DEF Renew
    <3>2. CASE RenewFails(c)
      BY <3>2 DEF RenewFails
    <3> QED
      BY <2>12, <3>1, <3>2 DEF Watchdog
  <2>13. CASE UNCHANGED vars
    BY <2>13 DEF vars, dogVars
  <2> QED
    BY <2>1, <2>2, <2>3, <2>4, <2>5, <2>6, <2>7, <2>8, <2>9, <2>10, <2>11,
       <2>12, <2>13 DEF Next
<1> QED
  BY <1>1, <1>2, TypeCorrect, OwnersHoldExclude, PTL DEF Spec

-----------------------------------------------------------------------------
(* The cache (module Cache), for any requests, flights and bounds.         *)
(* Finitely many flights, of which None is none.                           *)
CacheBounds == IsFiniteSet(Flights) /\ None \notin Flights

FlightType ==
  [key : {"none", "cache", "call"}, stage : {"landed", "begun", "fetched"}, res : Int,
   err : BOOLEAN, members : SUBSET Requests]
CacheTypes ==
  /\ db \in Int /\ redis \in Int /\ timeouts \in Nat
  /\ value \in [Requests -> Int]
  /\ flight \in [Flights -> FlightType]
  /\ group \in [{"cache", "call"} -> Flights \union {None}]

(* Of the reads under way, all but the one that others may join were       *)
(* forgotten when some request gave up.                                    *)
Reads == {f \in Flights : flight[f].key = "call" /\ flight[f].stage = "begun"}
Forgotten == Reads \ {group["call"]}
CacheInv == CacheTypes /\ Cardinality(Forgotten) <= timeouts

(* At the start nothing is under way.                                      *)
LEMMA CacheInit == CacheBounds /\ Cache!Init => CacheInv
<1> SUFFICES ASSUME CacheBounds, Cache!Init PROVE CacheInv
  OBVIOUS
<1>1. CacheTypes
  BY DEF Cache!Init, Cache!Landed, Cache!Nothing, CacheTypes, FlightType
<1>2. Forgotten = {}
  BY DEF Cache!Init, Cache!Landed, Forgotten, Reads
<1>3. Cardinality(Forgotten) = 0
  BY <1>2, FS_EmptySet
<1> QED BY <1>1, <1>3 DEF CacheInv, CacheTypes

(* The forgotten reads are no more than they were.                         *)
LEMMA FewerForgotten ==
  ASSUME CacheBounds, CacheInv, Forgotten' \subseteq Forgotten, timeouts' \in Nat,
         timeouts' >= timeouts
  PROVE  Cardinality(Forgotten') <= timeouts'
<1>1. IsFiniteSet(Forgotten)
  BY FS_Subset DEF CacheBounds, Forgotten, Reads
<1>2. IsFiniteSet(Forgotten') /\ Cardinality(Forgotten') <= Cardinality(Forgotten)
  BY <1>1, FS_Subset
<1>3. Cardinality(Forgotten) \in Nat /\ Cardinality(Forgotten') \in Nat
  BY <1>1, <1>2, FS_CardinalityType
<1> QED BY <1>2, <1>3 DEF CacheInv, CacheTypes

(* A request joins the flight of its key or starts one where there is none, *)
(* so what is under way besides is the same.                               *)
LEMMA DoingOnce ==
  ASSUME CacheBounds, CacheInv, NEW r \in Requests, NEW key \in {"cache", "call"},
         Cache!Do(r, key)
  PROVE  /\ flight' \in [Flights -> FlightType]
         /\ group' \in [{"cache", "call"} -> Flights \union {None}]
         /\ Forgotten' \subseteq Forgotten
<1>0. flight \in [Flights -> FlightType] /\ group \in [{"cache", "call"} -> Flights \union {None}]
  BY DEF CacheInv, CacheTypes
<1>1. CASE Cache!Joins(r, key)
  <2> DEFINE g == group[key]
             x == [flight[g] EXCEPT !.members = flight[g].members \union {r}]
  <2>1. g \in Flights /\ group' = group /\ flight' = [flight EXCEPT ![g] = x]
    BY <1>0, <1>1 DEF Cache!Joins
  <2>2. flight[g] \in FlightType
    BY <1>0, <2>1
  <2>3. x \in FlightType /\ x.key = flight[g].key /\ x.stage = flight[g].stage
    BY <2>2 DEF FlightType
  <2> HIDE DEF x
  <2>4. flight' \in [Flights -> FlightType]
    BY <1>0, <2>1, <2>3
  <2>5. \A f \in Flights : flight'[f].key = flight[f].key /\ flight'[f].stage = flight[f].stage
    BY <1>0, <2>1, <2>3
  <2> QED BY <1>0, <2>1, <2>4, <2>5 DEF Forgotten, Reads
<1>2. CASE group[key] = None /\ Cache!Leads(r, key)
  <2> DEFINE x == [[[Cache!Landed EXCEPT !.key = key] EXCEPT !.stage = "begun"]
                     EXCEPT !.members = {r}]
  <2>1. PICK f \in Flights : /\ flight[f] = Cache!Landed
                             /\ flight' = [flight EXCEPT ![f] = x]
                             /\ group' = [group EXCEPT ![key] = f]
    BY <1>2 DEF Cache!Leads
  <2>2. x \in FlightType /\ x.key = key
    <3>1. Cache!Landed \in FlightType
      BY DEF Cache!Landed, Cache!Nothing, FlightType
    <3> QED BY <3>1 DEF FlightType
  <2> HIDE DEF x
  <2>3. /\ flight' \in [Flights -> FlightType]
        /\ group' \in [{"cache", "call"} -> Flights \union {None}]
        /\ flight'[f] = x /\ \A h \in Flights \ {f} : flight'[h] = flight[h]
        /\ group'[key] = f /\ \A k \in {"cache", "call"} \ {key} : group'[k] = group[k]
    BY <1>0, <2>1, <2>2
  <2>4. ASSUME NEW h \in Forgotten' PROVE h \in Forgotten
    <3>1. CASE key = "call"
      <4>1. h \in Flights /\ h # f
        BY <2>3, <2>4, <3>1 DEF Forgotten, Reads
      <4> QED BY <1>2, <2>3, <2>4, <3>1, <4>1 DEF Forgotten, Reads, CacheBounds
    <3>2. CASE key = "cache"
      <4>1. h \in Flights /\ h # f
        BY <2>2, <2>3, <2>4, <3>2 DEF Forgotten, Reads
      <4> QED BY <2>3, <2>4, <3>2, <4>1 DEF Forgotten, Reads
    <3> QED BY <3>1, <3>2
  <2> QED BY <2>3, <2>4
<1> QED BY <1>1, <1>2 DEF Cache!Do

(* A flight goes from one stage to the next: no read begins.               *)
LEMMA Fetching ==
  ASSUME CacheInv, NEW f \in Flights, NEW key, NEW v \in Int, Cache!Fetches(f, key, v),
         group' = group
  PROVE  flight' \in [Flights -> FlightType] /\ Forgotten' \subseteq Forgotten
<1>0. flight \in [Flights -> FlightType] /\ flight[f] \in FlightType
  BY DEF CacheInv, CacheTypes
<1>1. PICK err \in BOOLEAN :
        flight' = [flight EXCEPT ![f].stage = "fetched",
                                 ![f].res = IF err THEN Cache!Nothing ELSE v, ![f].err = err]
  BY DEF Cache!Fetches
<1> DEFINE w == IF err THEN Cache!Nothing ELSE v
           x == [flight[f] EXCEPT !.stage = "fetched", !.res = w, !.err = err]
<1>2. flight' = [flight EXCEPT ![f] = x]
  BY <1>0, <1>1
<1>3. w \in Int
  BY DEF Cache!Nothing
<1> HIDE DEF w
<1>4. x \in FlightType /\ x.stage = "fetched"
  BY <1>0, <1>3 DEF FlightType
<1> HIDE DEF x
<1> QED BY <1>0, <1>2, <1>4 DEF Forgotten, Reads

(* It lands, and its key is free if it was still its own.                  *)
LEMMA Landing ==
  ASSUME CacheBounds, CacheInv, NEW f \in Flights, Cache!Lands(f)
  PROVE  /\ flight' \in [Flights -> FlightType]
         /\ group' \in [{"cache", "call"} -> Flights \union {None}]
         /\ Forgotten' \subseteq Forgotten
<1>0. /\ flight \in [Flights -> FlightType] /\ flight[f].stage = "fetched"
      /\ group \in [{"cache", "call"} -> Flights \union {None}]
  BY DEF CacheInv, CacheTypes, Cache!Lands
<1>1. Cache!Landed \in FlightType /\ Cache!Landed.stage = "landed"
  BY DEF Cache!Landed, Cache!Nothing, FlightType
<1>2. /\ flight' \in [Flights -> FlightType] /\ flight'[f] = Cache!Landed
      /\ \A h \in Flights \ {f} : flight'[h] = flight[h]
  BY <1>0, <1>1 DEF Cache!Lands
<1>3. /\ group' \in [{"cache", "call"} -> Flights \union {None}]
      /\ group'["call"] = group["call"] \/ group["call"] = f
  BY <1>0 DEF Cache!Lands
<1> QED BY <1>0, <1>1, <1>2, <1>3 DEF Forgotten, Reads

(* A request that gives up makes a forgotten read of at most one.          *)
LEMMA GivingUp ==
  ASSUME CacheBounds, CacheInv, NEW r \in Requests, Cache!Timeout(r)
  PROVE  CacheInv'
<1> DEFINE x(f) == [flight[f] EXCEPT !.members = flight[f].members \ {r}]
<1>0. /\ flight \in [Flights -> FlightType] /\ db \in Int /\ redis \in Int /\ timeouts \in Nat
      /\ group \in [{"cache", "call"} -> Flights \union {None}] /\ value \in [Requests -> Int]
  BY DEF CacheInv, CacheTypes
<1>1. ASSUME NEW f \in Flights
      PROVE  x(f) \in FlightType /\ x(f).key = flight[f].key /\ x(f).stage = flight[f].stage
  <2>1. flight[f] \in FlightType
    BY <1>0
  <2> QED BY <2>1 DEF FlightType
<1>2. flight' = [f \in Flights |-> x(f)]
  BY DEF Cache!Timeout
<1> HIDE DEF x
<1>3. Reads' = Reads
  BY <1>1, <1>2 DEF Reads
<1>4. CacheTypes'
  <2>1. flight' \in [Flights -> FlightType]
    BY <1>1, <1>2
  <2>2. /\ group' \in [{"cache", "call"} -> Flights \union {None}]
        /\ value' \in [Requests -> Int] /\ timeouts' \in Nat /\ db' \in Int /\ redis' \in Int
    BY <1>0 DEF Cache!Timeout, Cache!Nothing
  <2> QED BY <2>1, <2>2 DEF CacheTypes
<1>5. Forgotten' \subseteq Forgotten \union {group["call"]}
  BY <1>3 DEF Forgotten
<1>6. IsFiniteSet(Forgotten) /\ Cardinality(Forgotten) \in Nat
  BY FS_Subset, FS_CardinalityType DEF CacheBounds, Forgotten, Reads
<1>7. /\ IsFiniteSet(Forgotten \union {group["call"]})
      /\ Cardinality(Forgotten \union {group["call"]}) <= Cardinality(Forgotten) + 1
  BY <1>6, FS_AddElement
<1>8. Cardinality(Forgotten') <= Cardinality(Forgotten \union {group["call"]})
  BY <1>5, <1>7, FS_Subset
<1>9. /\ Cardinality(Forgotten') \in Nat
      /\ Cardinality(Forgotten \union {group["call"]}) \in Nat
  BY <1>5, <1>7, FS_Subset, FS_CardinalityType
<1>10. timeouts' = timeouts + 1
  BY DEF Cache!Timeout
<1> QED BY <1>0, <1>4, <1>6, <1>7, <1>8, <1>9, <1>10 DEF CacheInv

(* The other steps leave flights, keys and the count alone.                *)
LEMMA CacheSteps == CacheBounds /\ CacheInv /\ [Cache!Next]_(Cache!vars) => CacheInv'
<1> SUFFICES ASSUME CacheBounds, CacheInv, [Cache!Next]_(Cache!vars) PROVE CacheInv'
  OBVIOUS
<1> USE DEF CacheInv
<1>1. ASSUME NEW r \in Requests, Cache!Request(r) PROVE CacheInv'
  <2>1. CASE Cache!Get(r)
    BY <2>1, DoingOnce, FewerForgotten DEF Cache!Get, CacheTypes
  <2>2. CASE Cache!GetCall(r)
    BY <2>2, DoingOnce, FewerForgotten DEF Cache!GetCall, CacheTypes
  <2>3. CASE Cache!Timeout(r)
    BY <2>3, GivingUp
  <2>4. CASE \/ Cache!GetAnswered(r) \/ Cache!SetRedis(r) \/ Cache!Update(r) \/ Cache!Delete(r)
             \/ Cache!EndRequest(r)
    <3>1. CacheTypes'
      BY <2>4 DEF Cache!GetAnswered, Cache!SetRedis, Cache!Set, Cache!Update, Cache!Delete,
                  Cache!EndRequest, Cache!Nothing, CacheTypes
    <3>2. flight' = flight /\ group' = group /\ timeouts' = timeouts
      BY <2>4 DEF Cache!GetAnswered, Cache!SetRedis, Cache!Update, Cache!Delete, Cache!EndRequest
    <3>3. Forgotten' = Forgotten
      BY <3>2 DEF Forgotten, Reads
    <3> QED BY <3>1, <3>2, <3>3
  <2> QED BY <1>1, <2>1, <2>2, <2>3, <2>4 DEF Cache!Request
<1>2. ASSUME NEW f \in Flights, Cache!Flying(f) PROVE CacheInv'
  <2>1. CASE Cache!GetRedis(f) \/ Cache!Call(f)
    BY <2>1, Fetching, FewerForgotten DEF Cache!GetRedis, Cache!Call, CacheTypes
  <2>2. CASE Cache!RedisAnswers(f)
    BY <2>2, Landing, FewerForgotten DEF Cache!RedisAnswers, CacheTypes
  <2>3. CASE Cache!SourceAnswers(f)
    <3>1. value' \in [Requests -> Int]
      BY <2>3 DEF Cache!SourceAnswers, CacheTypes, FlightType
    <3> QED BY <2>3, <3>1, Landing, FewerForgotten DEF Cache!SourceAnswers, CacheTypes
  <2> QED BY <1>2, <2>1, <2>2, <2>3 DEF Cache!Flying
<1>3. CASE Cache!Tick
  <2>1. CacheTypes'
    BY <1>3 DEF Cache!Tick, Cache!Nothing, CacheTypes
  <2>2. Forgotten' = Forgotten /\ timeouts' = timeouts
    BY <1>3 DEF Cache!Tick, Forgotten, Reads
  <2> QED BY <2>1, <2>2
<1>4. CASE UNCHANGED Cache!vars
  BY <1>4 DEF Cache!vars, CacheTypes, Forgotten, Reads
<1> QED BY <1>1, <1>2, <1>3, <1>4 DEF Cache!Next

(* FiniteSets of the cache's module is the one of this module.             *)
LEMMA SameCardinality == ASSUME NEW S PROVE Cache!Cardinality(S) = Cardinality(S)
BY DEF Cardinality, Cache!Cardinality

(* At any moment at most one read of the source is under way, and one more *)
(* for each time a read was given up: for any requests and flights, and    *)
(* any number of updates and of reads given up.                            *)
THEOREM ReadsAlwaysShared ==
  ASSUME CacheBounds
  PROVE  Cache!Init /\ [][Cache!Next]_(Cache!vars) => []ReadsShared
<1>1. Cache!Init => CacheInv
  BY CacheInit
<1>2. CacheInv /\ [Cache!Next]_(Cache!vars) => CacheInv'
  BY CacheSteps
<1>3. CacheInv => ReadsShared
  <2> SUFFICES ASSUME CacheInv PROVE Cardinality(Reads) <= 1 + timeouts
    BY SameCardinality DEF ReadsShared, Cache!ReadsShared, Reads
  <2>1. IsFiniteSet(Forgotten) /\ Cardinality(Forgotten) \in Nat
    BY FS_Subset, FS_CardinalityType DEF CacheBounds, Forgotten, Reads
  <2>2. /\ IsFiniteSet(Forgotten \union {group["call"]})
        /\ Cardinality(Forgotten \union {group["call"]}) <= Cardinality(Forgotten) + 1
    BY <2>1, FS_AddElement
  <2>3. Reads \subseteq Forgotten \union {group["call"]}
    BY DEF Forgotten
  <2>4. /\ Cardinality(Reads) <= Cardinality(Forgotten \union {group["call"]})
        /\ Cardinality(Reads) \in Nat
        /\ Cardinality(Forgotten \union {group["call"]}) \in Nat
    BY <2>2, <2>3, FS_Subset, FS_CardinalityType
  <2> QED BY <2>1, <2>2, <2>4 DEF CacheInv, CacheTypes
<1> QED BY <1>1, <1>2, <1>3, PTL


-----------------------------------------------------------------------------
(* The applications (module Application), for any single components and    *)
(* routes, and whatever is listened to or panics.                          *)
(* The steps from some point of Run on.                                    *)
SinglesBooted == {"register", "serve", "closed"}
AllBound == {"starters", "building", "singles"} \union SinglesBooted
DatabaseDone == {"redis", "tables", "other", "prepares"} \union AllBound
AnyStep == {"middlewares", "db"} \union DatabaseDone

(* What has been done at the step an application has come to; that a       *)
(* database is where one was asked for; and that what was ever bound to    *)
(* the private application is marked.                                      *)
AppInv ==
  /\ at \in [App!Apps -> AnyStep]
  /\ singlemap \in [App!Apps -> SUBSET Singles]
  /\ booted \in [App!Apps -> SUBSET Singles]
  /\ marked = singlemap["private"]
  /\ installed \subseteq withDB
  /\ \A a \in App!Apps :
       /\ at[a] \in DatabaseDone \/ singlemap[a] # {} => (a \in withDB => a \in installed)
       /\ at[a] \in AllBound => singlemap[a] = Singles
       /\ at[a] \in SinglesBooted => booted[a] = Singles

(* At the start no application has booted anything ...                     *)
LEMMA AppInit == App!Init => AppInv
BY DEF App!Init, App!Steps, App!Apps, AppInv, AnyStep, DatabaseDone, AllBound, SinglesBooted

(* The order of Run.                                                       *)
LEMMA NextSteps ==
  /\ App!After("middlewares") = "db" /\ App!After("db") = "redis"
  /\ App!After("redis") = "tables" /\ App!After("tables") = "other"
  /\ App!After("other") = "prepares" /\ App!After("prepares") = "starters"
  /\ App!After("starters") = "building" /\ App!After("building") = "singles"
  /\ App!After("singles") = "register" /\ App!After("register") = "serve"
<1> DEFINE Place(i, s) == (CHOOSE j \in DOMAIN App!Steps : App!Steps[j] = s) = i
<1>1. DOMAIN App!Steps = 1..12
  BY DEF App!Steps
<1>2. /\ Place(1, "middlewares") /\ Place(2, "db") /\ Place(3, "redis") /\ Place(4, "tables")
      /\ Place(5, "other") /\ Place(6, "prepares") /\ Place(7, "starters")
      /\ Place(8, "building") /\ Place(9, "singles") /\ Place(10, "register")
  BY <1>1 DEF App!Steps
<1> QED BY <1>2 DEF App!After, App!Steps

(* Run goes on, and nothing that the invariant speaks of has changed.      *)
LEMMA GoesOn ==
  ASSUME AppInv, NEW a \in App!Apps, NEW s \in {"middlewares", "tables", "other", "starters"},
         App!Continue(a, s), withDB' = withDB
  PROVE  AppInv'
BY NextSteps DEF App!Continue, App!Running, App!Advance, App!Goto, App!components, AppInv, AnyStep,
   DatabaseDone, AllBound, SinglesBooted

(* ... and every step of Run keeps what is done in its order.              *)
LEMMA AppSteps == AppInv /\ [App!Next]_(App!vars) => AppInv'
<1> SUFFICES ASSUME AppInv, [App!Next]_(App!vars) PROVE AppInv'
  OBVIOUS
<1> USE DEF App!Running, App!Advance, App!Goto, App!components, App!interrupts
<1>0. withDB' = withDB
  BY DEF App!Next, App!vars
<1>1. ASSUME NEW a \in App!Apps,
             \/ App!addMiddlewares(a) \/ App!installDBTable(a) \/ App!otherBooting(a)
             \/ App!Starters(a)
      PROVE  AppInv'
  BY <1>0, <1>1, GoesOn DEF App!addMiddlewares, App!installDBTable, App!otherBooting, App!Starters
<1>2. ASSUME NEW a \in App!Apps, App!InstallDatabase(a) PROVE AppInv'
  BY <1>0, <1>2, NextSteps DEF App!InstallDatabase, AppInv, AnyStep, DatabaseDone, AllBound,
     SinglesBooted
<1>3. ASSUME NEW a \in App!Apps, App!InstallRedis(a) \/ App!Prepared(a) PROVE AppInv'
  BY <1>0, <1>3, NextSteps DEF App!InstallRedis, App!Prepared, AppInv, AnyStep, DatabaseDone, AllBound,
     SinglesBooted
<1>4. ASSUME NEW a \in App!Apps,
             \/ App!RedisConnected(a) \/ App!ListenFatal(a) \/ App!RouteFatal(a)
             \/ App!RunHook(a) \/ App!HookPanics(a)
      PROVE  AppInv'
  BY <1>0, <1>4 DEF App!RedisConnected, App!ListenFatal, App!RouteFatal, App!RunHook, App!HookPanics,
              AppInv
<1>5. ASSUME NEW a \in App!Apps, NEW c \in Singles, NEW calls, App!Prepare(a, c, calls)
      PROVE  AppInv'
  BY <1>0, <1>5 DEF App!Prepare, App!bind, App!Apps, AppInv, DatabaseDone, AllBound, SinglesBooted
<1>6. ASSUME NEW a \in App!Apps, App!building(a) PROVE AppInv'
  BY <1>0, <1>6, NextSteps DEF App!building, AppInv, AnyStep, DatabaseDone, AllBound, SinglesBooted
<1>7. ASSUME NEW a \in App!Apps, NEW c \in Singles, NEW registers, App!Booting(a, c, registers)
      PROVE  AppInv'
  BY <1>0, <1>7 DEF App!Booting, AppInv, DatabaseDone, AllBound, SinglesBooted
<1>8. ASSUME NEW a \in App!Apps, App!Booted(a) \/ App!shutdown(a) PROVE AppInv'
  BY <1>0, <1>8, NextSteps DEF App!Booted, App!shutdown, AppInv, AnyStep, DatabaseDone, AllBound,
     SinglesBooted
<1>9. ASSUME NEW a \in App!Apps, App!Shutdown(a) PROVE AppInv'
  BY <1>0, <1>9 DEF App!Shutdown, AppInv, AnyStep, DatabaseDone, AllBound, SinglesBooted
<1>10. CASE App!Interrupt \/ UNCHANGED App!vars
  BY <1>0, <1>10 DEF App!Interrupt, App!vars, AppInv
<1> HIDE DEF App!Running, App!Advance, App!Goto, App!components, App!interrupts
<1> QED BY <1>1, <1>2, <1>3, <1>4, <1>5, <1>6, <1>7, <1>8, <1>9, <1>10, Zenon DEF App!Next, App!RunStep

(* An application that serves has booted every single component, and each  *)
(* component finds a database exactly when the application it looks for it *)
(* in was given one: also while the other application takes it over.       *)
THEOREM ServedWhenBooted == App!Spec => []ServedFromBooted
<1>1. AppInv => ServedFromBooted
  <2> SUFFICES ASSUME AppInv, NEW a \in App!Apps, at[a] = "serve", NEW c \in Singles
               PROVE  /\ c \in booted[a]
                      /\ App!appOf(c) \in installed <=> App!appOf(c) \in withDB
    BY DEF ServedFromBooted, App!ServedFromBooted
  <2>1. booted[a] = Singles /\ singlemap[a] = Singles /\ (a \in installed <=> a \in withDB)
    BY DEF AppInv, DatabaseDone, AllBound, SinglesBooted
  <2>2. CASE c \in marked
    BY <2>1, <2>2 DEF AppInv, App!Apps, App!appOf
  <2>3. CASE c \notin marked
    BY <2>1, <2>3 DEF AppInv, App!Apps, App!appOf
  <2> QED BY <2>1, <2>2, <2>3
<1> QED BY <1>1, AppInit, AppSteps, PTL DEF App!Spec

=============================================================================

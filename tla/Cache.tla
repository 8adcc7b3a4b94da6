------------------------------- MODULE Cache -------------------------------
(***************************************************************************)
(* CacheImpl (infra/store/cacher.go) for one key: the store of a request's *)
(* worker, redis, and the source behind them, which is a database that     *)
(* counts its updates.  Reads of redis and of the source are shared by the *)
(* requests that want them at once (singleflight); an update of the source *)
(* is followed by Delete.                                                  *)
(*                                                                         *)
(* Redis and the database are external.  A statement of either may fail.   *)
(* Get writes redis before or after it returns (asyncWrite), which is the  *)
(* same to everybody else: a request is busy until the write is done.      *)
(***************************************************************************)
EXTENDS Integers, FiniteSets

CONSTANTS Requests,
          Flights,      \* calls of singleflight, by a name that is used again
          None,
          Expiration,   \* cache.expiration, in ticks
          MaxUpdates,   \* bound on the updates of the database
          MaxTimeouts   \* bound on the reads of the source given up

VARIABLES
  db,        \* the version of the value in the database
  redis,     \* the version in redis, or -1
  ttl,       \* the time it has left
  memory,    \* the version in the store of each request's worker, or -1
  step,      \* where each request is
  value,     \* what it is going to write to redis
  group,     \* sfGroup: the flight of "cache:" and of "call:"
  flight,    \* the calls in progress
  timeouts

vars == <<db, redis, ttl, memory, step, value, group, flight, timeouts>>

Nothing == -1
Landed == [key |-> "none", stage |-> "landed", res |-> Nothing, err |-> FALSE, members |-> {}]

Init ==
  /\ db = 0 /\ redis = Nothing /\ ttl = 0
  /\ memory = [r \in Requests |-> Nothing]
  /\ step = [r \in Requests |-> "idle"]
  /\ value = [r \in Requests |-> Nothing]
  /\ group = [key \in {"cache", "call"} |-> None]
  /\ flight = [f \in Flights |-> Landed]
  /\ timeouts = 0

-----------------------------------------------------------------------------
(* singleflight: a call joins the flight of its key, or starts one.        *)
Joins(r, key) ==
  /\ group[key] # None
  /\ flight' = [flight EXCEPT ![group[key]].members = @ \union {r}]
  /\ UNCHANGED group

Leads(r, key) ==
  \E f \in Flights :
    /\ flight[f] = Landed
    /\ flight' = [flight EXCEPT ![f] = [Landed EXCEPT !.key = key, !.stage = "begun",
                                                       !.members = {r}]]
    /\ group' = [group EXCEPT ![key] = f]

(* Mutation: a read that is under way is not joined.                       *)
DoAlone(r, key) == Leads(r, key)

Do(r, key) == Joins(r, key) \/ (group[key] = None /\ Leads(r, key))

(* What the flight f fetches has come, or its error.                       *)
Fetches(f, key, v) ==
  /\ flight[f].key = key /\ flight[f].stage = "begun"
  /\ \E err \in BOOLEAN :
       flight' = [flight EXCEPT ![f].stage = "fetched", ![f].res = IF err THEN Nothing ELSE v,
                                ![f].err = err]

Lands(f) ==
  /\ flight[f].stage = "fetched"
  /\ flight' = [flight EXCEPT ![f] = Landed]
  /\ group' = [key \in DOMAIN group |-> IF group[key] = f THEN None ELSE group[key]]

-----------------------------------------------------------------------------
(* Get: what the store of the worker has is returned at once.              *)
Get(r) ==
  /\ step[r] = "idle" /\ memory[r] = Nothing
  /\ Do(r, "cache")
  /\ step' = [step EXCEPT ![r] = "cache"]
  /\ UNCHANGED <<db, redis, ttl, memory, value, timeouts>>

GetRedis(f) ==
  /\ Fetches(f, "cache", redis)
  /\ UNCHANGED <<db, redis, ttl, memory, step, value, group, timeouts>>

(* A hit goes to the store of each request that waits; a miss sends them   *)
(* to the source; an error, which may be the leader's context, ends all.   *)
RedisAnswers(f) ==
  /\ flight[f].key = "cache" /\ Lands(f)
  /\ LET x == flight[f]
         miss == ~x.err /\ x.res = Nothing
     IN /\ memory' = [r \in Requests |-> IF r \in x.members THEN x.res ELSE memory[r]]
        /\ step' = [r \in Requests |-> IF r \in x.members THEN IF miss THEN "miss" ELSE "idle"
                                       ELSE step[r]]
  /\ UNCHANGED <<db, redis, ttl, value, timeouts>>

GetCall(r) ==
  /\ step[r] = "miss"
  /\ Do(r, "call")
  /\ step' = [step EXCEPT ![r] = "call"]
  /\ UNCHANGED <<db, redis, ttl, memory, value, timeouts>>

Call(f) ==
  /\ Fetches(f, "call", db)
  /\ UNCHANGED <<db, redis, ttl, memory, step, value, group, timeouts>>

(* The answer is in the channel of each request that waits, or an error.   *)
SourceAnswers(f) ==
  /\ flight[f].key = "call" /\ Lands(f)
  /\ value' = [r \in Requests |-> IF r \in flight[f].members THEN flight[f].res ELSE value[r]]
  /\ step' = [r \in Requests |-> IF r \in flight[f].members THEN "answered" ELSE step[r]]
  /\ UNCHANGED <<db, redis, ttl, memory, timeouts>>

GetAnswered(r) ==
  /\ step[r] = "answered"
  /\ memory' = [memory EXCEPT ![r] = value[r]]
  /\ step' = [step EXCEPT ![r] = IF value[r] = Nothing THEN "idle" ELSE "write"]
  /\ UNCHANGED <<db, redis, ttl, value, group, flight, timeouts>>

(* After 20 s, also when the answer has just come: whichever flight is in  *)
(* the group by then is forgotten.                                         *)
Timeout(r) ==
  /\ step[r] \in {"call", "answered"} /\ timeouts < MaxTimeouts
  /\ timeouts' = timeouts + 1
  /\ group' = [group EXCEPT !["call"] = None]
  /\ flight' = [f \in Flights |-> [flight[f] EXCEPT !.members = @ \ {r}]]
  /\ step' = [step EXCEPT ![r] = "idle"]
  /\ value' = [value EXCEPT ![r] = Nothing]
  /\ UNCHANGED <<db, redis, ttl, memory>>

(* Mutation: Set without an expiration.                                    *)
SetForever(r) ==
  /\ redis' = value[r]
  /\ UNCHANGED ttl

Set(r) ==
  /\ redis' = value[r]
  /\ ttl' = Expiration

SetRedis(r) ==
  /\ step[r] = "write"
  /\ Set(r) \/ UNCHANGED <<redis, ttl>>
  /\ step' = [step EXCEPT ![r] = "idle"]
  /\ value' = [value EXCEPT ![r] = Nothing]
  /\ UNCHANGED <<db, memory, group, flight, timeouts>>

(* The request has changed the database and is going to call Delete.       *)
Update(r) ==
  /\ step[r] = "idle" /\ db < MaxUpdates
  /\ db' = db + 1
  /\ step' = [step EXCEPT ![r] = "delete"]
  /\ UNCHANGED <<redis, ttl, memory, value, group, flight, timeouts>>

Delete(r) ==
  /\ step[r] = "delete"
  /\ memory' = [memory EXCEPT ![r] = Nothing]
  /\ (redis' = Nothing /\ ttl' = 0) \/ UNCHANGED <<redis, ttl>>
  /\ step' = [step EXCEPT ![r] = "idle"]
  /\ UNCHANGED <<db, value, group, flight, timeouts>>

(* The next request of the name has a store of its own.                    *)
EndRequest(r) ==
  /\ step[r] = "idle" /\ memory[r] # Nothing
  /\ memory' = [memory EXCEPT ![r] = Nothing]
  /\ UNCHANGED <<db, redis, ttl, step, value, group, flight, timeouts>>

(* Time goes by in redis.                                                  *)
Tick ==
  /\ redis # Nothing /\ ttl > 0
  /\ ttl' = ttl - 1
  /\ redis' = IF ttl' = 0 THEN Nothing ELSE redis
  /\ UNCHANGED <<db, memory, step, value, group, flight, timeouts>>

Request(r) ==
  \/ Get(r) \/ GetCall(r) \/ GetAnswered(r) \/ Timeout(r) \/ SetRedis(r)
  \/ Update(r) \/ Delete(r) \/ EndRequest(r)
Flying(f) == GetRedis(f) \/ RedisAnswers(f) \/ Call(f) \/ SourceAnswers(f)
Next == Tick \/ (\E r \in Requests : Request(r)) \/ (\E f \in Flights : Flying(f))

-----------------------------------------------------------------------------
(* At any moment no more than one read of the source is under way,         *)
(* however many requests have missed, besides one for each time that a     *)
(* request gave up and let the flight of the key be forgotten.  (A request *)
(* that finds the flight landed, and has missed redis before the answer    *)
(* was written there, reads the source again: that is one at a time too.)  *)
ReadsShared ==
  Cardinality({f \in Flights : flight[f].key = "call" /\ flight[f].stage = "begun"})
    <= 1 + timeouts

(* A version that is out of date does not stay in redis: not the one that  *)
(* a slow Get writes after the Delete of an update, nor the one that a     *)
(* Delete failed to remove.                                                *)
StaleExpires == (redis # Nothing /\ redis < db) ~> (redis = Nothing \/ redis = db)

=============================================================================

------------------------- MODULE MCDistributedLock -------------------------
(* The infrastructure components of a process: the applications that set   *)
(* them up, and what they share outside it: the lock with three clients,   *)
(* the cache with two requests, and a partition of the message queue.  One *)
(* of them runs, and the others stand still.                               *)
EXTENDS Infrastructure

CONSTANTS Messages, MaxLog, MaxRestarts, topic, consume, query
VARIABLES kind,
  attempt, partition, committed, position, handling, toCommit, tried, restarts

cacheVars == <<db, redis, left, memory, step, value, group, flight, timeouts>>
queueVars == <<attempt, partition, committed, position, handling, toCommit, tried, restarts>>
appVars == <<withDB, at, installed, client, singlemap, marked, listened, eventsPath, booted, hooks, callbacks,
             firing, ran, stopped, process>>

Queue == INSTANCE MQ

(* ListenEvent called so that its event has a route (for the other way     *)
(* round, see MCApplication): consume is a handler of POST, query of GET.  *)
MCListens == {<<consume, topic>>, <<query, topic>>}
MCRoutes == [m \in {consume, query} |-> IF m = consume THEN "POST" ELSE "GET"]

MCInit ==
  kind \in {"lock", "cache", "queue", "app"} /\ Init /\ Cache!Init /\ Queue!Init /\ App!Init

MCNext ==
  /\ kind' = kind
  /\ \/ kind = "lock" /\ Next /\ UNCHANGED <<cacheVars, queueVars, appVars>>
     \/ kind = "cache" /\ Cache!Next /\ UNCHANGED <<vars, queueVars, appVars>>
     \/ kind = "queue" /\ Queue!Next /\ UNCHANGED <<vars, cacheVars, appVars>>
     \/ kind = "app" /\ App!Next /\ UNCHANGED <<vars, cacheVars, queueVars>>

MCFairness ==
  /\ WF_cacheVars(kind = "cache" /\ Cache!Tick)
  /\ WF_queueVars(kind = "queue" /\ Queue!Consume)

MCSpec == MCInit /\ [][MCNext]_<<kind, vars, cacheVars, queueVars, appVars>> /\ MCFairness

(* A version that is out of date does not stay in redis.                   *)
StaleExpires == kind = "cache" => Cache!StaleExpires

(* A message that the broker has taken is handled, whatever is lost in a   *)
(* restart.                                                                *)
TakenIsTried == kind = "queue" => Queue!TakenIsTried
=============================================================================

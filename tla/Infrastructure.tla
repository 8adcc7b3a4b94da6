--------------------------- MODULE Infrastructure ---------------------------
(* The infrastructure components of a process: the lock of Redis (module   *)
(* DistributedLock), the cache (module Cache), and the applications that   *)
(* set them up (module Application).                                       *)
EXTENDS DistributedLock

CONSTANTS Requests, Flights, None, Expiration, MaxUpdates, MaxTimeouts,  \* the cache's
          Singles, MaxPanics, Listens, Routes                            \* the applications'
VARIABLES
  db, redis, left, memory, step, value, group, flight, timeouts,
  withDB, at, installed, client, singlemap, marked, listened, eventsPath, booted, hooks, callbacks, firing,
  ran, stopped, process

Cache == INSTANCE Cache WITH ttl <- left
App == INSTANCE Application WITH db <- installed

(* However many requests have missed the cache, one read of its source is  *)
(* under way at a time, and one more for each read that was forgotten.     *)
ReadsShared == Cache!ReadsShared

(* An application that serves has single components that have booted with  *)
(* it, and find a database exactly when the application they look for it   *)
(* in was given one.                                                       *)
ServedFromBooted == App!ServedFromBooted
=============================================================================

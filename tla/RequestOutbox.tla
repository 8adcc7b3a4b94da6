--------------------------- MODULE RequestOutbox ---------------------------
(* What a request uses and leaves behind: the pools its objects come from  *)
(* (module RequestPools), and the events its transaction saves (module     *)
(* DomainEvents).                                                          *)
EXTENDS RequestPools

CONSTANTS Sides, Pods, Events, NoEvent,
  SingleRetryNum, StatusWorks, MayRefuse, MaxTime, MaxPublished, MaxCrashes
VARIABLES
  side, now, row, id, fate, published, tx, saved, pusher, retry, todo, current, failed, crashes

Outbox == INSTANCE DomainEvents

(* An event whose transaction was rolled back is never published.          *)
RolledBackNeverPublished == Outbox!RolledBackNeverPublished

(* The row of an event that was committed is there until it is published,  *)
(* unless NextID gave its id to another event too.                         *)
CommittedNotLost == Outbox!CommittedNotLost

(* The retry loop leaves an event alone while push has it.                 *)
PushAndRetryDisjoint == Outbox!PushAndRetryDisjoint
=============================================================================

---------------------------- MODULE RequestPools ----------------------------
(***************************************************************************)
(* The objects that internal/ recycles from one request to the next:       *)
(* services (service_pool.go) and infrastructure components                *)
(* (infra_pool.go), each in a sync.Pool, and the worker of a request       *)
(* (worker.go), whom BeginRequest makes an object serve.                   *)
(*                                                                         *)
(* A request is handled by three nested middlewares (app.go): on the way   *)
(* out the components are put back, then the services, then the worker is  *)
(* cleared, each unless DeferRecycle has been called by then.  A handler   *)
(* may leave a goroutine behind that goes on using its objects.            *)
(***************************************************************************)
EXTENDS FiniteSets

CONSTANTS Workers,    \* requests, by their worker; a name is reused when nothing uses it
          NoWorker,
          Services,   \* service elements
          Coms,       \* infrastructure components
          NoObject

Objects == Services \cup Coms

ASSUME NoWorkerAssumption == NoWorker \notin Workers
ASSUME ObjectsAssumption == NoObject \notin Objects /\ Services \cap Coms = {}

VARIABLES
  stage,     \* where each request is
  held,      \* worker.services and worker.coms
  freeing,   \* what a free handler has still to put back
  called,    \* the service CallService has created for the worker and is calling
  deferred,  \* worker.deferRecycle
  async,     \* a goroutine of the handler still runs
  inTime,    \* history: DeferRecycle was called before the handler returned
  pool,      \* the objects in the sync.Pools
  serves     \* the worker each object was given by BeginRequest

workerVars == <<stage, held, freeing, called, deferred, async, inTime>>
vars == <<workerVars, pool, serves>>

Init ==
  /\ stage = [w \in Workers |-> "none"]
  /\ held = [w \in Workers |-> {}]
  /\ freeing = [w \in Workers |-> {}]
  /\ called = [w \in Workers |-> NoObject]
  /\ deferred = [w \in Workers |-> FALSE]
  /\ async = [w \in Workers |-> FALSE]
  /\ inTime = [w \in Workers |-> FALSE]
  /\ pool = {}
  /\ serves = [o \in Objects |-> NoWorker]

Goto(w, s) == stage' = [stage EXCEPT ![w] = s]

(* Code of request w is running: its handler, or a goroutine of it.        *)
Handling(w) == stage[w] = "handling"
Running(w) == Handling(w) \/ async[w]

(* sync.Pool.Get: one of the pool, or a new one from New.  A name may be   *)
(* given to a new object when nothing refers to the old one.               *)
New == {o \in Objects : o \notin pool /\ \A w \in Workers : o \notin held[w] /\ o # called[w]}

(* beginRequest: whatever o still knew of its last worker is overwritten.  *)
BeginRequest(w, o) == serves' = [serves EXCEPT ![o] = w]

(* Mutation: the object stays in the pool.                                 *)
MallocShared(o) == o \in pool \cup New /\ UNCHANGED pool

Malloc(o) == o \in pool \cup New /\ pool' = pool \ {o}

-----------------------------------------------------------------------------
(* newWorkerHandle, on the way in.                                         *)
NewWorker(w) ==
  /\ stage[w] = "none"
  /\ Goto(w, "handling")
  /\ UNCHANGED <<held, freeing, called, deferred, async, inTime, pool, serves>>

(* ServicePool.get and InfraPool.get, on the context of the request.       *)
GetObject(w, o) ==
  /\ Handling(w)
  /\ Malloc(o)
  /\ BeginRequest(w, o)
  /\ held' = [held EXCEPT ![w] = @ \cup {o}]
  /\ UNCHANGED <<stage, freeing, called, deferred, async, inTime>>

(* CallService with this worker: the service is not one of the worker's.   *)
(* (Without a worker it makes one that no middleware sees.)                *)
CallService(w, o) ==
  /\ Running(w)
  /\ called[w] = NoObject
  /\ o \in Services
  /\ Malloc(o)
  /\ BeginRequest(w, o)
  /\ called' = [called EXCEPT ![w] = o]
  /\ UNCHANGED <<stage, held, freeing, deferred, async, inTime>>

(* It is put back when the function returns, unless recycling is deferred. *)
CallServiceReturns(w) ==
  /\ called[w] # NoObject
  /\ pool' = IF deferred[w] THEN pool ELSE pool \cup {called[w]}
  /\ called' = [called EXCEPT ![w] = NoObject]
  /\ UNCHANGED <<stage, held, freeing, deferred, async, inTime, serves>>

(* The handler starts a goroutine; it ends.                                *)
GoAsync(w) ==
  /\ Handling(w) /\ ~async[w]
  /\ async' = [async EXCEPT ![w] = TRUE]
  /\ UNCHANGED <<stage, held, freeing, called, deferred, inTime, pool, serves>>

AsyncEnds(w) ==
  /\ async[w]
  /\ called[w] = NoObject
  /\ async' = [async EXCEPT ![w] = FALSE]
  /\ UNCHANGED <<stage, held, freeing, called, deferred, inTime, pool, serves>>

(* The flag is a plain field, and may be set at any time by code of the    *)
(* request.                                                                *)
DeferRecycle(w) ==
  /\ Running(w)
  /\ deferred' = [deferred EXCEPT ![w] = TRUE]
  /\ inTime' = [inTime EXCEPT ![w] = @ \/ Handling(w)]
  /\ UNCHANGED <<stage, held, freeing, called, async, pool, serves>>

-----------------------------------------------------------------------------
(* The handler returns; the middlewares finish from the inside out.        *)
HandlerReturns(w) ==
  /\ Handling(w)
  /\ called[w] = NoObject \/ async[w]
  /\ Goto(w, "coms")
  /\ UNCHANGED <<held, freeing, called, deferred, async, inTime, pool, serves>>

(* It panics, and nothing recovers: no middleware finishes.                *)
HandlerPanics(w) ==
  /\ Handling(w)
  /\ Goto(w, "over")
  /\ called' = [called EXCEPT ![w] = IF async[w] THEN @ ELSE NoObject]
  /\ UNCHANGED <<held, freeing, deferred, async, inTime, pool, serves>>

(* Mutation: the flag is not looked at.                                    *)
StartFreeAlways(w, here, next, S) ==
  /\ stage[w] = here
  /\ freeing' = [freeing EXCEPT ![w] = held[w] \cap S]
  /\ Goto(w, next)
  /\ UNCHANGED <<held, called, deferred, async, inTime, pool, serves>>

(* freeHandle looks at the flag once, then puts the objects back.          *)
StartFree(w, here, next, S) ==
  /\ stage[w] = here
  /\ freeing' = [freeing EXCEPT ![w] = IF deferred[w] THEN {} ELSE held[w] \cap S]
  /\ Goto(w, next)
  /\ UNCHANGED <<held, called, deferred, async, inTime, pool, serves>>

Free(w, o) ==
  /\ o \in freeing[w]
  /\ pool' = pool \cup {o}
  /\ freeing' = [freeing EXCEPT ![w] = @ \ {o}]
  /\ UNCHANGED <<stage, held, called, deferred, async, inTime, serves>>

FreeComs(w) == StartFree(w, "coms", "freeComs", Coms)

FreeServices(w) ==
  /\ freeing[w] = {}
  /\ StartFree(w, "freeComs", "freeServices", Services)

(* The worker's logger and context are cleared, unless deferred.           *)
ClearWorker(w) ==
  /\ stage[w] = "freeServices"
  /\ freeing[w] = {}
  /\ Goto(w, IF deferred[w] THEN "over" ELSE "cleared")
  /\ UNCHANGED <<held, freeing, called, deferred, async, inTime, pool, serves>>

(* Nothing of the request runs any more: its worker is garbage.            *)
Collect(w) ==
  /\ stage[w] \in {"over", "cleared"}
  /\ ~async[w]
  /\ called[w] = NoObject
  /\ Goto(w, "none")
  /\ held' = [held EXCEPT ![w] = {}]
  /\ deferred' = [deferred EXCEPT ![w] = FALSE]
  /\ inTime' = [inTime EXCEPT ![w] = FALSE]
  /\ UNCHANGED <<freeing, called, async, pool, serves>>

(* sync.Pool drops an object.                                              *)
PoolDrops(o) ==
  /\ o \in pool
  /\ pool' = pool \ {o}
  /\ UNCHANGED <<workerVars, serves>>

Next ==
  \/ \E w \in Workers :
       \/ NewWorker(w) \/ CallServiceReturns(w) \/ GoAsync(w) \/ AsyncEnds(w)
       \/ DeferRecycle(w) \/ HandlerReturns(w) \/ HandlerPanics(w)
       \/ FreeComs(w) \/ FreeServices(w) \/ ClearWorker(w) \/ Collect(w)
       \/ \E o \in Objects : GetObject(w, o) \/ CallService(w, o) \/ Free(w, o)
  \/ \E o \in Objects : PoolDrops(o)

Spec == Init /\ [][Next]_vars

-----------------------------------------------------------------------------
(* Properties *)

TypeOK ==
  /\ stage \in [Workers -> {"none", "handling", "coms", "freeComs", "freeServices",
                            "cleared", "over"}]
  /\ held \in [Workers -> SUBSET Objects]
  /\ freeing \in [Workers -> SUBSET Objects]
  /\ \A w \in Workers : freeing[w] \subseteq held[w]
  /\ called \in [Workers -> Services \cup {NoObject}]
  /\ deferred \in [Workers -> BOOLEAN]
  /\ async \in [Workers -> BOOLEAN]
  /\ inTime \in [Workers -> BOOLEAN]
  /\ \A w \in Workers : inTime[w] => deferred[w]
  /\ pool \subseteq Objects
  /\ serves \in [Objects -> Workers \cup {NoWorker}]

(* What the code of a request that is being handled uses is its own: no    *)
(* other request gets the same service or component, and it serves the     *)
(* worker of that request, although requests, goroutines left behind and   *)
(* sync.Pool exchange objects at any time.                                 *)
HandlerOwnsObjects ==
  \A w \in Workers : Handling(w) =>
    \A o \in held[w] :
      /\ serves[o] = w
      /\ o \notin pool
      /\ \A v \in Workers \ {w} : Handling(v) => o \notin held[v] /\ o # called[v]

(* A goroutine left behind by a handler that has called DeferRecycle keeps *)
(* its objects for as long as it runs: nothing that it got is recycled     *)
(* when the request ends.                                                  *)
DeferredObjectsStay ==
  \A w \in Workers : inTime[w] /\ Running(w) =>
    \A o \in held[w] : serves[o] = w /\ o \notin pool

(* A free handler puts back only what nobody else has got meanwhile: an    *)
(* object is never put into its pool twice.                                *)
PutOnce ==
  \A w \in Workers : \A o \in freeing[w] :
    /\ o \notin pool
    /\ \A v \in Workers \ {w} : o \notin freeing[v] /\ (Handling(v) => o \notin held[v])
=============================================================================

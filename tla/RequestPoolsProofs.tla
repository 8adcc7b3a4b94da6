------------------------- MODULE RequestPoolsProofs -------------------------
(***************************************************************************)
(* Proofs about the recycling of services and components, for any number   *)
(* of requests and objects, and about the events their transactions save.  *)
(***************************************************************************)
EXTENDS RequestOutbox, Integers, TLAPS

Stages == {"none", "handling", "coms", "freeComs", "freeServices", "cleared", "over"}

(* What the stage of a request says of its sets.                           *)
StageInv ==
  \A w \in Workers :
    /\ freeing[w] # {} => stage[w] \in {"freeComs", "freeServices"} /\ ~inTime[w]
    /\ stage[w] = "freeComs" => freeing[w] \subseteq Coms
    /\ stage[w] = "none" => held[w] = {} /\ ~inTime[w]

TypeInv == TypeOK /\ StageInv

-----------------------------------------------------------------------------
(* Types. *)

(* They hold at the start ...                                              *)
LEMMA InitTypes == Init => TypeInv
<1> SUFFICES ASSUME Init
             PROVE  TypeInv
  OBVIOUS
<1>1. /\ stage \in [Workers -> Stages]
      /\ held \in [Workers -> SUBSET Objects]
      /\ freeing \in [Workers -> SUBSET Objects]
      /\ called \in [Workers -> Services \cup {NoObject}]
      /\ pool \subseteq Objects
      /\ serves \in [Objects -> Workers \cup {NoWorker}]
  BY DEF Init, Stages
<1>2. /\ deferred \in [Workers -> BOOLEAN]
      /\ async \in [Workers -> BOOLEAN]
      /\ inTime \in [Workers -> BOOLEAN]
  BY DEF Init
<1>3. \A w \in Workers : stage[w] = "none" /\ held[w] = {} /\ freeing[w] = {} /\ ~inTime[w]
  BY DEF Init
<1> QED BY <1>1, <1>2, <1>3 DEF TypeInv, TypeOK, StageInv, Stages

(* Steps that change the stage, the flags or what is called, and not the   *)
(* sets.                                                                   *)
LEMMA FlagTypes ==
  ASSUME TypeInv, NEW w \in Workers,
         \/ NewWorker(w) \/ CallServiceReturns(w) \/ GoAsync(w) \/ AsyncEnds(w)
         \/ DeferRecycle(w) \/ HandlerReturns(w) \/ HandlerPanics(w) \/ ClearWorker(w)
  PROVE  TypeInv'
<1> USE DEF TypeInv, TypeOK, StageInv
<1>1. CASE NewWorker(w)
  BY <1>1 DEF NewWorker, Goto
<1>2. CASE CallServiceReturns(w)
  BY <1>2 DEF CallServiceReturns, Objects
<1>3. CASE GoAsync(w) \/ AsyncEnds(w)
  <2>1. async' \in [Workers -> BOOLEAN]
    BY <1>3 DEF GoAsync, AsyncEnds
  <2> QED BY <1>3, <2>1 DEF GoAsync, AsyncEnds
<1>4. CASE DeferRecycle(w)
  <2> DEFINE d == [deferred EXCEPT ![w] = TRUE]
             b == inTime[w] \/ Handling(w)
             i == [inTime EXCEPT ![w] = b]
  <2>1. b \in BOOLEAN
    OBVIOUS
  <2> HIDE DEF b
  <2>2. i \in [Workers -> BOOLEAN] /\ \A v \in Workers : v # w => i[v] = inTime[v]
    BY <2>1
  <2>3. d \in [Workers -> BOOLEAN] /\ d[w] = TRUE /\ \A v \in Workers : v # w => d[v] = deferred[v]
    OBVIOUS
  <2>4. deferred' = d /\ inTime' = i
    BY <1>4 DEF DeferRecycle, b
  <2>5. i[w] => inTime[w] \/ stage[w] = "handling"
    BY <2>2 DEF b, Handling
  <2> HIDE DEF d, i
  <2>6. UNCHANGED <<stage, held, freeing, called, async, pool, serves>>
    BY <1>4 DEF DeferRecycle
  <2>7. \A v \in Workers : inTime'[v] => deferred'[v]
    BY <2>2, <2>3, <2>4
  <2>8. \A v \in Workers : inTime'[v] => inTime[v] \/ stage[v] = "handling"
    BY <2>2, <2>4, <2>5
  <2>9. StageInv'
    BY <2>6, <2>8
  <2> QED BY <2>2, <2>3, <2>4, <2>6, <2>7, <2>9
<1>5. CASE HandlerReturns(w)
  BY <1>5 DEF HandlerReturns, Goto, Handling
<1>6. CASE HandlerPanics(w)
  <2>1. called' \in [Workers -> Services \cup {NoObject}]
    BY <1>6 DEF HandlerPanics
  <2> QED BY <1>6, <2>1 DEF HandlerPanics, Goto, Handling
<1>7. CASE ClearWorker(w)
  <2>1. PICK s \in {"over", "cleared"} : stage' = [stage EXCEPT ![w] = s]
    BY <1>7 DEF ClearWorker, Goto
  <2> QED BY <1>7, <2>1 DEF ClearWorker
<1> QED BY <1>1, <1>2, <1>3, <1>4, <1>5, <1>6, <1>7

(* An object from the pool, or a new one, is an object.                    *)
LEMMA MallocTypes ==
  ASSUME TypeInv, NEW o \in Objects, Malloc(o)
  PROVE  pool' \subseteq Objects
BY DEF TypeInv, TypeOK, Malloc

(* ... and every step of a worker keeps them.                              *)
LEMMA NextTypes == TypeInv /\ [Next]_vars => TypeInv'
<1> SUFFICES ASSUME TypeInv, [Next]_vars
             PROVE  TypeInv'
  OBVIOUS
<1> USE DEF TypeInv, TypeOK, StageInv
<1>1. ASSUME NEW w \in Workers, NEW o \in Objects, GetObject(w, o)
      PROVE  TypeInv'
  <2>1. pool' \subseteq Objects
    BY <1>1, MallocTypes DEF GetObject
  <2>2. serves' \in [Objects -> Workers \cup {NoWorker}]
    BY <1>1 DEF GetObject, BeginRequest
  <2>3. /\ held' \in [Workers -> SUBSET Objects]
        /\ \A v \in Workers : held[v] \subseteq held'[v] /\ (stage[v] = "none" => held'[v] = {})
    BY <1>1 DEF GetObject, Handling
  <2> QED BY <1>1, <2>1, <2>2, <2>3 DEF GetObject
<1>2. ASSUME NEW w \in Workers, NEW o \in Objects, CallService(w, o)
      PROVE  TypeInv'
  <2>1. pool' \subseteq Objects
    BY <1>2, MallocTypes DEF CallService
  <2>2. serves' \in [Objects -> Workers \cup {NoWorker}]
    BY <1>2 DEF CallService, BeginRequest
  <2>3. called' \in [Workers -> Services \cup {NoObject}]
    BY <1>2 DEF CallService
  <2> QED BY <1>2, <2>1, <2>2, <2>3 DEF CallService
<1>3. ASSUME NEW w \in Workers, NEW o \in Objects, Free(w, o)
      PROVE  TypeInv'
  BY <1>3 DEF Free
<1>4. ASSUME NEW w \in Workers, FreeComs(w)
      PROVE  TypeInv'
  <2>1. PICK F \in SUBSET (held[w] \cap Coms) :
          freeing' = [freeing EXCEPT ![w] = F] /\ (inTime[w] => F = {})
    BY <1>4 DEF FreeComs, StartFree
  <2>2. stage' = [stage EXCEPT ![w] = "freeComs"]
    BY <1>4 DEF FreeComs, StartFree, Goto
  <2>3. UNCHANGED <<held, called, deferred, async, inTime, pool, serves>>
    BY <1>4 DEF FreeComs, StartFree
  <2>4. StageInv'
    BY <2>1, <2>2, <2>3
  <2> QED BY <2>1, <2>2, <2>3, <2>4
<1>5. ASSUME NEW w \in Workers, FreeServices(w)
      PROVE  TypeInv'
  <2>1. PICK F \in SUBSET held[w] :
          freeing' = [freeing EXCEPT ![w] = F] /\ (inTime[w] => F = {})
    BY <1>5 DEF FreeServices, StartFree
  <2>2. stage' = [stage EXCEPT ![w] = "freeServices"]
    BY <1>5 DEF FreeServices, StartFree, Goto
  <2>3. UNCHANGED <<held, called, deferred, async, inTime, pool, serves>>
    BY <1>5 DEF FreeServices, StartFree
  <2>4. StageInv'
    BY <2>1, <2>2, <2>3
  <2> QED BY <2>1, <2>2, <2>3, <2>4
<1>6. ASSUME NEW w \in Workers, Collect(w)
      PROVE  TypeInv'
  <2>1. /\ inTime' = [inTime EXCEPT ![w] = FALSE]
        /\ deferred' = [deferred EXCEPT ![w] = FALSE]
        /\ held' = [held EXCEPT ![w] = {}]
        /\ stage' = [stage EXCEPT ![w] = "none"]
        /\ freeing[w] = {}
        /\ UNCHANGED <<freeing, called, async, pool, serves>>
    BY <1>6 DEF Collect, Goto
  <2>2. inTime' \in [Workers -> BOOLEAN] /\ deferred' \in [Workers -> BOOLEAN]
    BY <2>1
  <2>3. \A v \in Workers : IF v = w THEN ~inTime'[v] /\ held'[v] = {} /\ stage'[v] = "none"
                           ELSE /\ inTime'[v] = inTime[v] /\ deferred'[v] = deferred[v]
                                /\ held'[v] = held[v] /\ stage'[v] = stage[v]
    BY <2>1
  <2>4. /\ stage' \in [Workers -> {"none", "handling", "coms", "freeComs", "freeServices",
                                   "cleared", "over"}]
        /\ held' \in [Workers -> SUBSET Objects]
    BY <2>1
  <2>5. StageInv'
    BY <2>1, <2>3
  <2>6. \A v \in Workers : (freeing'[v] \subseteq held'[v]) /\ (inTime'[v] => deferred'[v])
    BY <2>1, <2>3
  <2> QED BY <2>1, <2>2, <2>4, <2>5, <2>6
<1>7. ASSUME NEW o \in Objects, PoolDrops(o)
      PROVE  TypeInv'
  BY <1>7 DEF PoolDrops, workerVars
<1>8. CASE UNCHANGED vars
  BY <1>8 DEF vars, workerVars
<1> QED BY <1>1, <1>2, <1>3, <1>4, <1>5, <1>6, <1>7, <1>8, FlagTypes DEF Next

(* Types hold for any number of requests and objects.                      *)
THEOREM TypeCorrect == Spec => []TypeOK
<1>1. Spec => []TypeInv
  BY InitTypes, NextTypes, PTL DEF Spec
<1> QED BY <1>1, PTL DEF TypeInv

-----------------------------------------------------------------------------
(* Ownership. *)

(* What a request has got is its own while it is handled, and for ever if  *)
(* recycling was deferred in time; otherwise until a free handler has put  *)
(* it back, the services one handler later than the components.            *)
Owns(w, o) ==
  /\ o \in held[w]
  /\ \/ inTime[w]
     \/ stage[w] \in {"handling", "coms"}
     \/ o \in freeing[w]
     \/ stage[w] = "freeComs" /\ o \in Services

(* An object that is owned, or being called, serves its owner and is not   *)
(* in its pool; it is not both.                                            *)
OwnerInv ==
  \A w \in Workers :
    /\ \A o \in Objects : Owns(w, o) => o \notin pool /\ serves[o] = w /\ o # called[w]
    /\ called[w] # NoObject => called[w] \notin pool /\ serves[called[w]] = w

(* At the start no worker owns anything ...                                *)
LEMMA InitOwner == Init => OwnerInv
BY DEF Init, OwnerInv, Owns

(* Steps after which nobody owns or calls more, and no pool has more.      *)
LEMMA NothingTaken ==
  ASSUME OwnerInv, serves' = serves, pool' \subseteq pool,
         \A w \in Workers : called'[w] \in {called[w], NoObject},
         \A w \in Workers, o \in Objects : Owns(w, o)' => Owns(w, o) /\ o # NoObject
  PROVE  OwnerInv'
<1> SUFFICES ASSUME NEW w \in Workers
             PROVE  /\ \A o \in Objects :
                         Owns(w, o)' => o \notin pool' /\ serves'[o] = w /\ o # called'[w]
                    /\ called'[w] # NoObject => called'[w] \notin pool' /\ serves'[called'[w]] = w
  BY DEF OwnerInv
<1>1. \A o \in Objects : Owns(w, o)' => o \notin pool' /\ serves'[o] = w /\ o # called'[w]
  <2> SUFFICES ASSUME NEW o \in Objects, Owns(w, o)'
               PROVE  o \notin pool' /\ serves'[o] = w /\ o # called'[w]
    OBVIOUS
  <2>1. Owns(w, o) /\ o # NoObject
    OBVIOUS
  <2> HIDE DEF Owns
  <2>2. o \notin pool /\ serves[o] = w /\ o # called[w]
    BY <2>1 DEF OwnerInv
  <2> QED BY <2>1, <2>2
<1>2. called'[w] # NoObject => called'[w] \notin pool' /\ serves'[called'[w]] = w
  BY DEF OwnerInv
<1> QED BY <1>1, <1>2

(* An object that Malloc returns was nobody's, and is in no pool after it. *)
LEMMA MallocNobodys ==
  ASSUME TypeInv, OwnerInv, NEW o \in Objects, Malloc(o)
  PROVE  /\ o \notin pool' /\ pool' \subseteq pool
         /\ \A v \in Workers : ~Owns(v, o) /\ called[v] # o
BY ObjectsAssumption DEF Malloc, New, OwnerInv, Owns, TypeInv, TypeOK

(* A worker that takes an object, pooled or new, is its one owner.         *)
LEMMA GetOwner ==
  ASSUME TypeInv, OwnerInv, NEW w \in Workers, NEW o \in Objects, GetObject(w, o)
  PROVE  OwnerInv'
<1>1. /\ Handling(w)
      /\ held' = [held EXCEPT ![w] = held[w] \cup {o}]
      /\ serves' = [serves EXCEPT ![o] = w]
      /\ UNCHANGED <<stage, freeing, called, deferred, async, inTime>>
  BY DEF GetObject, BeginRequest
<1>2. /\ o \notin pool' /\ pool' \subseteq pool
      /\ \A v \in Workers : ~Owns(v, o) /\ called[v] # o
  BY MallocNobodys DEF GetObject
<1>3. /\ serves'[o] = w /\ \A x \in Objects : x # o => serves'[x] = serves[x]
      /\ held'[w] = held[w] \cup {o} /\ \A v \in Workers : v # w => held'[v] = held[v]
  BY <1>1 DEF TypeInv, TypeOK
<1>4. ASSUME NEW v \in Workers, NEW x \in Objects, Owns(v, x)', ~(v = w /\ x = o)
      PROVE  Owns(v, x) /\ x # o
  <2>1. Owns(v, x)
    BY <1>1, <1>3, <1>4 DEF Owns
  <2> QED BY <1>2, <2>1
<1>5. ASSUME NEW v \in Workers, NEW x \in Objects, Owns(v, x)'
      PROVE  x \notin pool' /\ serves'[x] = v /\ x # called'[v]
  <2>1. CASE v = w /\ x = o
    BY <1>1, <1>2, <1>3, <2>1
  <2>2. CASE ~(v = w /\ x = o)
    <3>1. Owns(v, x) /\ x # o
      BY <1>4, <1>5, <2>2
    <3>2. x \notin pool /\ serves[x] = v /\ x # called[v]
      BY <3>1 DEF OwnerInv
    <3> QED BY <1>1, <1>2, <1>3, <3>1, <3>2
  <2> QED BY <2>1, <2>2
<1>6. ASSUME NEW v \in Workers, called'[v] # NoObject
      PROVE  called'[v] \notin pool' /\ serves'[called'[v]] = v
  <2>1. called'[v] = called[v] /\ called[v] \in Objects /\ called[v] # o
    BY <1>1, <1>2, <1>6 DEF TypeInv, TypeOK, Objects
  <2>2. called[v] \notin pool /\ serves[called[v]] = v
    BY <1>6, <2>1 DEF OwnerInv
  <2> QED BY <1>2, <1>3, <2>1, <2>2
<1> QED BY <1>5, <1>6 DEF OwnerInv

(* A call of a service takes an object that nobody has.                    *)
LEMMA CallOwner ==
  ASSUME TypeInv, OwnerInv, NEW w \in Workers, NEW o \in Objects, CallService(w, o)
  PROVE  OwnerInv'
<1>1. /\ called' = [called EXCEPT ![w] = o]
      /\ serves' = [serves EXCEPT ![o] = w]
      /\ UNCHANGED <<stage, held, freeing, deferred, async, inTime>>
  BY DEF CallService, BeginRequest
<1>2. /\ o \notin pool' /\ pool' \subseteq pool
      /\ \A v \in Workers : ~Owns(v, o) /\ called[v] # o
  BY MallocNobodys DEF CallService
<1>3. /\ serves'[o] = w /\ \A x \in Objects : x # o => serves'[x] = serves[x]
      /\ called'[w] = o /\ \A v \in Workers : v # w => called'[v] = called[v]
  BY <1>1 DEF TypeInv, TypeOK
<1>4. ASSUME NEW v \in Workers, NEW x \in Objects, Owns(v, x)'
      PROVE  x \notin pool' /\ serves'[x] = v /\ x # called'[v]
  <2>1. Owns(v, x)
    BY <1>1, <1>4 DEF Owns
  <2>2. x # o
    BY <1>2, <2>1
  <2>3. x \notin pool /\ serves[x] = v /\ x # called[v]
    BY <2>1 DEF OwnerInv
  <2> QED BY <1>2, <1>3, <2>2, <2>3
<1>5. ASSUME NEW v \in Workers, called'[v] # NoObject
      PROVE  called'[v] \notin pool' /\ serves'[called'[v]] = v
  <2>1. CASE v = w
    BY <1>2, <1>3, <2>1
  <2>2. CASE v # w
    <3>1. called'[v] = called[v] /\ called[v] \in Objects /\ called[v] # o
      BY <1>2, <1>3, <1>5, <2>2 DEF TypeInv, TypeOK, Objects
    <3>2. called[v] \notin pool /\ serves[called[v]] = v
      BY <1>5, <3>1 DEF OwnerInv
    <3> QED BY <1>2, <1>3, <3>1, <3>2
  <2> QED BY <2>1, <2>2
<1> QED BY <1>4, <1>5 DEF OwnerInv

(* An object that is put back was its owner's, who does not own it after   *)
(* that: nobody else does.                                                 *)
LEMMA ReturnOwner ==
  ASSUME TypeInv, OwnerInv, NEW w \in Workers, NEW o \in Objects,
         Free(w, o) \/ (CallServiceReturns(w) /\ o = called[w])
  PROVE  OwnerInv'
<1>1. serves[o] = w /\ serves' = serves /\ pool' \subseteq pool \cup {o}
  <2>1. CASE Free(w, o)
    <3>1. Owns(w, o)
      BY <2>1 DEF Free, Owns, TypeInv, TypeOK
    <3> QED BY <2>1, <3>1 DEF Free, OwnerInv
  <2>2. CASE CallServiceReturns(w) /\ o = called[w]
    BY <2>2 DEF CallServiceReturns, OwnerInv
  <2> QED BY <2>1, <2>2
<1>2. /\ UNCHANGED <<stage, held, inTime>>
      /\ \A v \in Workers : called'[v] \in {called[v], NoObject}
      /\ \A v \in Workers : freeing'[v] \subseteq freeing[v]
  <2>1. CASE Free(w, o)
    BY <2>1 DEF Free, TypeInv, TypeOK
  <2>2. CASE CallServiceReturns(w)
    BY <2>2 DEF CallServiceReturns, TypeInv, TypeOK
  <2> QED BY <2>1, <2>2
<1>3. ~Owns(w, o)' /\ called'[w] # o
  <2>1. CASE Free(w, o)
    <3>1. /\ o \in freeing[w] /\ freeing'[w] = freeing[w] \ {o} /\ called' = called
          /\ UNCHANGED <<stage, inTime, held>>
      BY <2>1 DEF Free, TypeInv, TypeOK
    <3>2. stage[w] \in {"freeComs", "freeServices"} /\ ~inTime[w]
      BY <3>1 DEF TypeInv, StageInv
    <3>3. stage[w] = "freeComs" => o \notin Services
      BY <3>1, ObjectsAssumption DEF TypeInv, StageInv
    <3>4. Owns(w, o)
      BY <3>1 DEF Owns, TypeInv, TypeOK
    <3>5. called[w] # o
      BY <3>4 DEF OwnerInv
    <3> QED BY <3>1, <3>2, <3>3, <3>5 DEF Owns
  <2>2. CASE CallServiceReturns(w) /\ o = called[w]
    <3>1. called'[w] = NoObject /\ UNCHANGED <<stage, inTime, held, freeing>>
      BY <2>2 DEF CallServiceReturns, TypeInv, TypeOK
    <3>2. ~Owns(w, o)
      BY <2>2 DEF OwnerInv
    <3> QED BY <3>1, <3>2, ObjectsAssumption DEF Owns
  <2> QED BY <2>1, <2>2
<1>4. ASSUME NEW v \in Workers, NEW x \in Objects, Owns(v, x)'
      PROVE  x \notin pool' /\ serves'[x] = v /\ x # called'[v]
  <2>1. Owns(v, x)
    BY <1>2, <1>4 DEF Owns
  <2>2. x \notin pool /\ serves[x] = v /\ x # called[v]
    BY <2>1 DEF OwnerInv
  <2>3. x # o
    BY <1>1, <1>3, <1>4, <2>2
  <2> QED BY <1>1, <1>2, <2>2, <2>3, ObjectsAssumption
<1>5. ASSUME NEW v \in Workers, called'[v] # NoObject
      PROVE  called'[v] \notin pool' /\ serves'[called'[v]] = v
  <2>1. called'[v] = called[v] /\ called[v] \notin pool /\ serves[called[v]] = v
    BY <1>2, <1>5 DEF OwnerInv
  <2>2. called[v] # o
    BY <1>1, <1>3, <2>1
  <2> QED BY <1>1, <2>1, <2>2
<1> QED BY <1>4, <1>5 DEF OwnerInv

(* On its way a request only ever gives objects up.                        *)
LEMMA LeaveOwner ==
  ASSUME TypeInv, OwnerInv, NEW w \in Workers,
         \/ NewWorker(w) \/ GoAsync(w) \/ AsyncEnds(w) \/ DeferRecycle(w)
         \/ HandlerReturns(w) \/ HandlerPanics(w) \/ FreeComs(w) \/ FreeServices(w)
         \/ ClearWorker(w) \/ Collect(w)
  PROVE  OwnerInv'
<1>1. UNCHANGED <<pool, serves>>
  BY DEF NewWorker, GoAsync, AsyncEnds, DeferRecycle, HandlerReturns, HandlerPanics, FreeComs,
         FreeServices, StartFree, ClearWorker, Collect
<1>2. ASSUME NEW v \in Workers
      PROVE  called'[v] \in {called[v], NoObject}
  <2>1. CASE HandlerPanics(w)
    BY <2>1 DEF HandlerPanics, TypeInv, TypeOK
  <2> QED BY <2>1 DEF NewWorker, GoAsync, AsyncEnds, DeferRecycle, HandlerReturns, FreeComs,
         FreeServices, StartFree, ClearWorker, Collect
<1>3. ASSUME NEW v \in Workers, NEW o \in Objects, Owns(v, o)'
      PROVE  Owns(v, o)
  <2>t. /\ stage \in [Workers -> Stages] /\ held \in [Workers -> SUBSET Objects]
        /\ freeing \in [Workers -> SUBSET Objects]
        /\ \A x \in Workers : freeing[x] \subseteq held[x]
    BY DEF TypeInv, TypeOK, Stages
  <2>1. CASE NewWorker(w)
    <3>1. UNCHANGED <<held, freeing, inTime>> /\ stage' = [stage EXCEPT ![w] = "handling"]
          /\ held[w] = {}
      BY <2>1 DEF NewWorker, Goto, TypeInv, StageInv
    <3> QED BY <1>3, <2>t, <3>1 DEF Owns
  <2>2. CASE GoAsync(w) \/ AsyncEnds(w)
    <3>1. UNCHANGED <<held, freeing, inTime, stage>>
      BY <2>2 DEF GoAsync, AsyncEnds
    <3> QED BY <1>3, <3>1 DEF Owns
  <2>3. CASE DeferRecycle(w)
    <3>1. UNCHANGED <<held, freeing, stage>>
      BY <2>3 DEF DeferRecycle
    <3>2. inTime'[v] => inTime[v] \/ stage[v] = "handling"
      <4> DEFINE b == inTime[w] \/ Handling(w)
      <4>1. inTime' = [inTime EXCEPT ![w] = b]
        BY <2>3 DEF DeferRecycle
      <4>2. CASE v = w
        <5>1. inTime'[v] = b
          BY <4>1, <4>2 DEF TypeInv, TypeOK
        <5> QED BY <4>2, <5>1 DEF Handling
      <4>3. CASE v # w
        <5>1. inTime'[v] = inTime[v]
          BY <4>1, <4>3 DEF TypeInv, TypeOK
        <5> QED BY <5>1
      <4> QED BY <4>2, <4>3
    <3> QED BY <1>3, <3>1, <3>2 DEF Owns
  <2>4. CASE HandlerReturns(w)
    <3>1. UNCHANGED <<held, freeing, inTime>> /\ stage' = [stage EXCEPT ![w] = "coms"]
          /\ stage[w] = "handling"
      BY <2>4 DEF HandlerReturns, Goto, Handling
    <3> QED BY <1>3, <2>t, <3>1 DEF Owns
  <2>5. CASE HandlerPanics(w) \/ ClearWorker(w)
    <3>1. UNCHANGED <<held, freeing, inTime>>
      BY <2>5 DEF HandlerPanics, ClearWorker
    <3>2. PICK s \in {"over", "cleared"} : stage' = [stage EXCEPT ![w] = s]
      BY <2>5 DEF HandlerPanics, ClearWorker, Goto
    <3> QED BY <1>3, <2>t, <3>1, <3>2 DEF Owns
  <2>6. CASE FreeComs(w)
    <3>1. UNCHANGED <<held, inTime>> /\ stage' = [stage EXCEPT ![w] = "freeComs"]
          /\ stage[w] = "coms" /\ (\A x \in Workers : x # w => freeing'[x] = freeing[x])
      BY <2>6, <2>t DEF FreeComs, StartFree, Goto
    <3> QED BY <1>3, <2>t, <3>1 DEF Owns
  <2>7. CASE FreeServices(w)
    <3>1. /\ UNCHANGED <<held, inTime>> /\ stage' = [stage EXCEPT ![w] = "freeServices"]
          /\ stage[w] = "freeComs" /\ (\A x \in Workers : x # w => freeing'[x] = freeing[x])
          /\ freeing'[w] \subseteq Services
      BY <2>7, <2>t DEF FreeServices, StartFree, Goto
    <3> QED BY <1>3, <2>t, <3>1 DEF Owns
  <2>8. CASE Collect(w)
    <3>1. /\ freeing' = freeing /\ held' = [held EXCEPT ![w] = {}]
          /\ stage' = [stage EXCEPT ![w] = "none"]
      BY <2>8 DEF Collect, Goto
    <3>2. v # w
      BY <1>3, <2>t, <3>1 DEF Owns
    <3>3. inTime'[v] = inTime[v]
      BY <2>8, <3>2 DEF Collect, TypeInv, TypeOK
    <3> QED BY <1>3, <2>t, <3>1, <3>2, <3>3 DEF Owns
  <2> QED BY <2>1, <2>2, <2>3, <2>4, <2>5, <2>6, <2>7, <2>8
<1> QED BY <1>1, <1>2, <1>3, NothingTaken, ObjectsAssumption

(* ... and every step of a worker keeps what each owns its own.            *)
LEMMA NextOwner == TypeInv /\ OwnerInv /\ [Next]_vars => OwnerInv'
<1> SUFFICES ASSUME TypeInv, OwnerInv, [Next]_vars
             PROVE  OwnerInv'
  OBVIOUS
<1>1. ASSUME NEW w \in Workers, CallServiceReturns(w)
      PROVE  OwnerInv'
  <2>1. called[w] \in Objects
    BY <1>1 DEF CallServiceReturns, TypeInv, TypeOK, Objects
  <2> QED BY <1>1, <2>1, ReturnOwner
<1>2. ASSUME NEW o \in Objects, PoolDrops(o)
      PROVE  OwnerInv'
  BY <1>2 DEF PoolDrops, workerVars, OwnerInv, Owns
<1>3. CASE UNCHANGED vars
  BY <1>3 DEF vars, workerVars, OwnerInv, Owns
<1> QED BY <1>1, <1>2, <1>3, GetOwner, CallOwner, ReturnOwner, LeaveOwner DEF Next

-----------------------------------------------------------------------------
(* A request that is being handled has its services and components to      *)
(* itself, for any number of requests and objects.                         *)
THEOREM HandlerOwns == Spec => []HandlerOwnsObjects
<1>1. TypeInv /\ OwnerInv => HandlerOwnsObjects
  <2> SUFFICES ASSUME TypeInv, OwnerInv, NEW w \in Workers, Handling(w), NEW o \in held[w]
               PROVE  /\ serves[o] = w /\ o \notin pool
                      /\ \A v \in Workers \ {w} : Handling(v) => o \notin held[v] /\ o # called[v]
    BY DEF HandlerOwnsObjects
  <2>1. o \in Objects /\ Owns(w, o)
    BY DEF Handling, Owns, TypeInv, TypeOK
  <2>2. serves[o] = w /\ o \notin pool
    BY <2>1 DEF OwnerInv
  <2>3. ASSUME NEW v \in Workers, v # w, Handling(v)
        PROVE  o \notin held[v] /\ o # called[v]
    <3>1. o \in held[v] => Owns(v, o)
      BY <2>3 DEF Handling, Owns
    <3>2. o # NoObject
      BY <2>1, ObjectsAssumption
    <3> QED BY <2>1, <2>2, <2>3, <3>1, <3>2 DEF OwnerInv
  <2> QED BY <2>2, <2>3
<1>2. Spec => []TypeInv
  BY InitTypes, NextTypes, PTL DEF Spec
<1> QED BY <1>1, <1>2, InitOwner, NextOwner, PTL DEF Spec

(* A request that has called DeferRecycle before its handler returned      *)
(* keeps its objects for as long as a goroutine of it runs.                *)
THEOREM DeferredStay == Spec => []DeferredObjectsStay
<1>1. TypeInv /\ OwnerInv => DeferredObjectsStay
  <2> SUFFICES ASSUME TypeInv, OwnerInv, NEW w \in Workers, inTime[w], NEW o \in held[w]
               PROVE  serves[o] = w /\ o \notin pool
    BY DEF DeferredObjectsStay
  <2>1. o \in Objects /\ Owns(w, o)
    BY DEF Owns, TypeInv, TypeOK
  <2> QED BY <2>1 DEF OwnerInv
<1>2. Spec => []TypeInv
  BY InitTypes, NextTypes, PTL DEF Spec
<1> QED BY <1>1, <1>2, InitOwner, NextOwner, PTL DEF Spec

(* No object is put into its pool while it is there, or in two hands.      *)
THEOREM PutOnceOnly == Spec => []PutOnce
<1>1. TypeInv /\ OwnerInv => PutOnce
  <2> SUFFICES ASSUME TypeInv, OwnerInv, NEW w \in Workers, NEW o \in freeing[w]
               PROVE  /\ o \notin pool
                      /\ \A v \in Workers \ {w} : o \notin freeing[v] /\ (Handling(v) => o \notin held[v])
    BY DEF PutOnce
  <2>1. o \in Objects /\ Owns(w, o)
    BY DEF Owns, TypeInv, TypeOK
  <2>2. serves[o] = w /\ o \notin pool
    BY <2>1 DEF OwnerInv
  <2>3. ASSUME NEW v \in Workers, v # w
        PROVE  o \notin freeing[v] /\ (Handling(v) => o \notin held[v])
    <3>1. o \in freeing[v] \/ (Handling(v) /\ o \in held[v]) => Owns(v, o)
      BY DEF Handling, Owns, TypeInv, TypeOK
    <3> QED BY <2>1, <2>2, <2>3, <3>1 DEF OwnerInv
  <2> QED BY <2>2, <2>3
<1>2. Spec => []TypeInv
  BY InitTypes, NextTypes, PTL DEF Spec
<1> QED BY <1>1, <1>2, InitOwner, NextOwner, PTL DEF Spec

-----------------------------------------------------------------------------
(* The outbox (module DomainEvents), for any events, pods and side,        *)
(* whether or not the statements about status 1 work and whatever the      *)
(* database refuses.                                                       *)

(* The bounds of the model, and that no event is NoEvent.                  *)
OutboxBounds ==
  /\ MaxTime \in Nat \ {0} /\ MaxPublished \in Nat \ {0} /\ MaxCrashes \in Nat
  /\ NoEvent \notin Events

(* What becomes of an event that may be pushed: its transaction ended, and *)
(* Execute saw neither an error nor a panic.                               *)
Sent == {"committed", "norow", "uncommitted"}

(* A retry loop has fetched the event and is not done with it.             *)
Waits(e) == \E p \in Pods : e \in todo[p] \/ e = current[p]

(* The event has yet to be pushed, or its push is under way.               *)
Busy(e) == pusher[e] # "none" \/ \E p \in Pods : e \in saved[p]

(* An event is in the list of one worker at most, as long as its           *)
(* transaction is open and then until it is pushed.                        *)
SavedInv ==
  \A p \in Pods :
    /\ tx[p] = "idle" => saved[p] = {}
    /\ \A e \in saved[p] : /\ tx[p] = "open" => fate[e] = "saved"
                           /\ tx[p] = "push" => fate[e] \in Sent
                           /\ pusher[e] = "none"
                           /\ \A q \in Pods : e \in saved[q] => q = p

(* What is or was published, and a row outside a transaction, is of a      *)
(* transaction that did not roll back.                                     *)
SentInv ==
  \A e \in Events :
    published[e] > 0 \/ pusher[e] # "none" \/ Waits(e) \/ row[e] \in {"pending", "failed"} =>
      fate[e] \in Sent

(* NextID has named exactly the events that were saved.                    *)
NamedInv == \A e \in Events : fate[e] = "new" <=> id[e] = Outbox!NoId

(* A row is deleted only after pubHandler has returned nil for its event.  *)
DoneInv ==
  /\ \A e \in Events : pusher[e] = "delete" => published[e] > 0
  /\ \A p \in Pods : retry[p] = "delete" => published[current[p]] > 0

(* The row of an event whose push is ahead or under way is not marked, and *)
(* no retry loop has it, unless it shares its id.                          *)
Aside == \A e \in Events : Busy(e) /\ (row[e] = "failed" \/ Waits(e)) => Outbox!Clashed(e)

OutboxInv ==
  /\ Outbox!TypeOK /\ SavedInv /\ SentInv /\ NamedInv /\ DoneInv
  /\ Outbox!CommittedNotLost /\ Aside

(* At the start no event exists.                                           *)
LEMMA InitOutbox == OutboxBounds /\ Outbox!Init => OutboxInv
<1> SUFFICES ASSUME OutboxBounds, Outbox!Init PROVE OutboxInv
  OBVIOUS
<1>1. Outbox!TypeOK
  BY DEF OutboxBounds, Outbox!Init, Outbox!TypeOK, Outbox!Ids, Outbox!NoId
<1>2. SavedInv /\ SentInv /\ NamedInv /\ DoneInv /\ Outbox!CommittedNotLost /\ Aside
  BY DEF OutboxBounds, Outbox!Init, SavedInv, SentInv, NamedInv, DoneInv, Outbox!CommittedNotLost,
     Aside, Sent, Waits, Busy, Outbox!NoId
<1> QED BY <1>1, <1>2 DEF OutboxInv

-----------------------------------------------------------------------------
(* Each action keeps it *)

(* A transaction that begins has nothing saved yet.                        *)
LEMMA BeginKeeps ==
  ASSUME OutboxBounds, OutboxInv, NEW p \in Pods, Outbox!Begin(p)
  PROVE  OutboxInv'
<1>1. Outbox!TypeOK'
  BY DEF OutboxInv, Outbox!Begin, Outbox!retryVars, Outbox!TypeOK, OutboxBounds
<1>2. SavedInv'
  BY DEF OutboxInv, Outbox!Begin, Outbox!retryVars, Outbox!TypeOK, SavedInv, SentInv, Sent
<1>3. SentInv' /\ NamedInv' /\ DoneInv' /\ Outbox!CommittedNotLost' /\ Aside'
  BY DEF OutboxInv, Outbox!Begin, Outbox!retryVars, SentInv, NamedInv, DoneInv,
     Outbox!CommittedNotLost, Aside, Waits, Outbox!Clashed, Busy
<1> QED BY <1>1, <1>2, <1>3 DEF OutboxInv

(* Save: a new event is nobody's; if the id it gets has been given before, *)
(* both events are clashed from now on.                                    *)
LEMMA SaveKeeps ==
  ASSUME OutboxBounds, OutboxInv, NEW p \in Pods, NEW e \in Events, Outbox!Save(p, e)
  PROVE  OutboxInv'
<1>1. Outbox!TypeOK'
  BY DEF OutboxInv, Outbox!Save, Outbox!Insert, Outbox!addPubToWOrker, Outbox!Times, Outbox!NextID,
     Outbox!Ids, Outbox!retryVars, Outbox!TypeOK, OutboxBounds
<1>2. SavedInv'
  BY DEF OutboxInv, Outbox!Save, Outbox!Insert, Outbox!addPubToWOrker, Outbox!Times, Outbox!NextID,
     Outbox!Ids, Outbox!retryVars, Outbox!TypeOK, SavedInv, SentInv, Sent
<1>3. SentInv'
  BY DEF OutboxInv, Outbox!Save, Outbox!Insert, Outbox!addPubToWOrker, Outbox!Times, Outbox!NextID,
     Outbox!Ids, Outbox!retryVars, Outbox!TypeOK, SavedInv, SentInv, Sent, Waits, OutboxBounds
<1>4. NamedInv'
  BY DEF OutboxInv, Outbox!Save, Outbox!Insert, Outbox!addPubToWOrker, Outbox!Times, Outbox!NextID,
     Outbox!Ids, Outbox!retryVars, Outbox!TypeOK, NamedInv, SavedInv, Outbox!NoId, Sent
<1>5. Outbox!CommittedNotLost'
  BY DEF OutboxInv, Outbox!Save, Outbox!Insert, Outbox!addPubToWOrker, Outbox!Times, Outbox!NextID,
     Outbox!Ids, Outbox!retryVars, Outbox!TypeOK, Outbox!CommittedNotLost, Outbox!Clashed, SavedInv,
     SentInv, Sent, NamedInv, DoneInv, OutboxBounds
<1>6. Aside'
  BY DEF OutboxInv, Outbox!Save, Outbox!Insert, Outbox!addPubToWOrker, Outbox!Times, Outbox!NextID,
     Outbox!Ids, Outbox!retryVars, Outbox!TypeOK, Aside, Busy, Waits, Outbox!Clashed, SavedInv,
     SentInv, Sent, NamedInv, OutboxBounds
<1>7. DoneInv'
  BY DEF OutboxInv, Outbox!Save, Outbox!retryVars, DoneInv
<1> QED BY <1>1, <1>2, <1>3, <1>4, <1>5, <1>6, <1>7 DEF OutboxInv

(* The same for an event received, whose id is the sender's.               *)
LEMMA SaveSubKeeps ==
  ASSUME OutboxBounds, OutboxInv, NEW p \in Pods, NEW e \in Events, Outbox!SaveSub(p, e)
  PROVE  OutboxInv'
<1>1. Outbox!TypeOK'
  BY DEF OutboxInv, Outbox!SaveSub, Outbox!Insert, Outbox!NextID, Outbox!Ids, Outbox!retryVars,
     Outbox!TypeOK, OutboxBounds
<1>2. SavedInv'
  BY DEF OutboxInv, Outbox!SaveSub, Outbox!Insert, Outbox!NextID, Outbox!Ids, Outbox!retryVars,
     Outbox!TypeOK, SavedInv, SentInv, Sent
<1>3. SentInv'
  BY DEF OutboxInv, Outbox!SaveSub, Outbox!Insert, Outbox!NextID, Outbox!Ids, Outbox!retryVars,
     Outbox!TypeOK, SavedInv, SentInv, Sent, Waits, OutboxBounds
<1>4. NamedInv'
  BY DEF OutboxInv, Outbox!SaveSub, Outbox!Insert, Outbox!NextID, Outbox!Ids, Outbox!retryVars,
     Outbox!TypeOK, NamedInv, SavedInv, Outbox!NoId, Sent
<1>5. Outbox!CommittedNotLost'
  BY DEF OutboxInv, Outbox!SaveSub, Outbox!Insert, Outbox!NextID, Outbox!Ids, Outbox!retryVars,
     Outbox!TypeOK, Outbox!CommittedNotLost, Outbox!Clashed, SavedInv, SentInv, Sent, NamedInv,
     DoneInv, OutboxBounds
<1>6. Aside'
  BY DEF OutboxInv, Outbox!SaveSub, Outbox!Insert, Outbox!NextID, Outbox!Ids, Outbox!retryVars,
     Outbox!TypeOK, Aside, Busy, Waits, Outbox!Clashed, SavedInv, SentInv, Sent, NamedInv,
     OutboxBounds
<1>7. DoneInv'
  BY DEF OutboxInv, Outbox!SaveSub, Outbox!retryVars, DoneInv
<1> QED BY <1>1, <1>2, <1>3, <1>4, <1>5, <1>6, <1>7 DEF OutboxInv

(* COMMIT: the events saved become pending rows, none of them marked.      *)
LEMMA CommitKeeps ==
  ASSUME OutboxBounds, OutboxInv, NEW p \in Pods, Outbox!Commit(p)
  PROVE  OutboxInv'
<1>1. Outbox!TypeOK'
  BY DEF OutboxInv, Outbox!Commit, Outbox!EndTransaction, Outbox!retryVars, Outbox!TypeOK,
     OutboxBounds
<1>2. SavedInv'
  BY DEF OutboxInv, Outbox!Commit, Outbox!EndTransaction, Outbox!retryVars, Outbox!TypeOK, SavedInv,
     SentInv, Sent
<1>3. SentInv'
  BY DEF OutboxInv, Outbox!Commit, Outbox!EndTransaction, Outbox!retryVars, Outbox!TypeOK, SavedInv,
     SentInv, Sent, Waits, OutboxBounds
<1>4. NamedInv'
  BY DEF OutboxInv, Outbox!Commit, Outbox!EndTransaction, Outbox!retryVars, Outbox!TypeOK, NamedInv,
     SavedInv, Outbox!NoId, Sent
<1>5. Outbox!CommittedNotLost'
  BY DEF OutboxInv, Outbox!Commit, Outbox!EndTransaction, Outbox!retryVars, Outbox!TypeOK,
     Outbox!CommittedNotLost, Outbox!Clashed, SavedInv, SentInv, Sent, NamedInv, DoneInv,
     OutboxBounds
<1>6. Aside'
  BY DEF OutboxInv, Outbox!Commit, Outbox!EndTransaction, Outbox!retryVars, Outbox!TypeOK, Aside,
     Busy, Waits, Outbox!Clashed, SavedInv, SentInv, Sent, NamedInv, OutboxBounds
<1>7. DoneInv'
  BY DEF OutboxInv, Outbox!Commit, Outbox!retryVars, DoneInv
<1> QED BY <1>1, <1>2, <1>3, <1>4, <1>5, <1>6, <1>7 DEF OutboxInv

(* A COMMIT that was refused leaves no row, and the events may be pushed.  *)
LEMMA CommitFailsKeeps ==
  ASSUME OutboxBounds, OutboxInv, NEW p \in Pods, Outbox!CommitFails(p)
  PROVE  OutboxInv'
<1>1. Outbox!TypeOK'
  BY DEF OutboxInv, Outbox!CommitFails, Outbox!EndTransaction, Outbox!retryVars, Outbox!TypeOK,
     OutboxBounds
<1>2. SavedInv'
  BY DEF OutboxInv, Outbox!CommitFails, Outbox!EndTransaction, Outbox!retryVars, Outbox!TypeOK,
     SavedInv, SentInv, Sent
<1>3. SentInv'
  BY DEF OutboxInv, Outbox!CommitFails, Outbox!EndTransaction, Outbox!retryVars, Outbox!TypeOK,
     SavedInv, SentInv, Sent, Waits, OutboxBounds
<1>4. NamedInv'
  BY DEF OutboxInv, Outbox!CommitFails, Outbox!EndTransaction, Outbox!retryVars, Outbox!TypeOK,
     NamedInv, SavedInv, Outbox!NoId, Sent
<1>5. Outbox!CommittedNotLost'
  BY DEF OutboxInv, Outbox!CommitFails, Outbox!EndTransaction, Outbox!retryVars, Outbox!TypeOK,
     Outbox!CommittedNotLost, Outbox!Clashed, SavedInv, SentInv, Sent, NamedInv, DoneInv,
     OutboxBounds
<1>6. Aside'
  BY DEF OutboxInv, Outbox!CommitFails, Outbox!EndTransaction, Outbox!retryVars, Outbox!TypeOK,
     Aside, Busy, Waits, Outbox!Clashed, SavedInv, SentInv, Sent, NamedInv, OutboxBounds
<1>7. DoneInv'
  BY DEF OutboxInv, Outbox!CommitFails, Outbox!retryVars, DoneInv
<1> QED BY <1>1, <1>2, <1>3, <1>4, <1>5, <1>6, <1>7 DEF OutboxInv

(* A rollback empties the list in the store: none of its events is pushed. *)
LEMMA RollbackKeeps ==
  ASSUME OutboxBounds, OutboxInv, NEW p \in Pods, Outbox!Rollback(p)
  PROVE  OutboxInv'
<1>1. Outbox!TypeOK'
  BY DEF OutboxInv, Outbox!Rollback, Outbox!EndTransaction, Outbox!retryVars, Outbox!TypeOK,
     OutboxBounds
<1>2. SavedInv'
  BY DEF OutboxInv, Outbox!Rollback, Outbox!EndTransaction, Outbox!retryVars, Outbox!TypeOK,
     SavedInv, SentInv, Sent
<1>3. SentInv'
  BY DEF OutboxInv, Outbox!Rollback, Outbox!EndTransaction, Outbox!retryVars, Outbox!TypeOK,
     SavedInv, SentInv, Sent, Waits, OutboxBounds
<1>4. NamedInv'
  BY DEF OutboxInv, Outbox!Rollback, Outbox!EndTransaction, Outbox!retryVars, Outbox!TypeOK,
     NamedInv, SavedInv, Outbox!NoId, Sent
<1>5. Outbox!CommittedNotLost'
  BY DEF OutboxInv, Outbox!Rollback, Outbox!EndTransaction, Outbox!retryVars, Outbox!TypeOK,
     Outbox!CommittedNotLost, Outbox!Clashed, SavedInv, SentInv, Sent, NamedInv, DoneInv,
     OutboxBounds
<1>6. Aside'
  BY DEF OutboxInv, Outbox!Rollback, Outbox!EndTransaction, Outbox!retryVars, Outbox!TypeOK, Aside,
     Busy, Waits, Outbox!Clashed, SavedInv, SentInv, Sent, NamedInv, OutboxBounds
<1>7. DoneInv'
  BY DEF OutboxInv, Outbox!Rollback, Outbox!retryVars, DoneInv
<1> QED BY <1>1, <1>2, <1>3, <1>4, <1>5, <1>6, <1>7 DEF OutboxInv

(* push: the events leave the list, each for a goroutine of its own.       *)
LEMMA PushEventKeeps ==
  ASSUME OutboxBounds, OutboxInv, NEW p \in Pods, Outbox!PushEvent(p)
  PROVE  OutboxInv'
<1>1. Outbox!TypeOK'
  BY DEF OutboxInv, Outbox!PushEvent, Outbox!retryVars, Outbox!TypeOK, OutboxBounds
<1>2. SavedInv'
  BY DEF OutboxInv, Outbox!PushEvent, Outbox!retryVars, Outbox!TypeOK, SavedInv, SentInv, Sent
<1>3. SentInv'
  BY DEF OutboxInv, Outbox!PushEvent, Outbox!retryVars, Outbox!TypeOK, SavedInv, SentInv, Sent,
     Waits, OutboxBounds
<1>4. DoneInv'
  BY DEF OutboxInv, Outbox!PushEvent, Outbox!retryVars, Outbox!TypeOK, DoneInv, OutboxBounds
<1>5. Aside'
  BY DEF OutboxInv, Outbox!PushEvent, Outbox!retryVars, Outbox!TypeOK, Aside, Busy, Waits,
     Outbox!Clashed, SavedInv, SentInv, Sent, NamedInv, OutboxBounds
<1>6. NamedInv' /\ Outbox!CommittedNotLost'
  BY DEF OutboxInv, Outbox!PushEvent, Outbox!retryVars, NamedInv, Outbox!CommittedNotLost,
     Outbox!Clashed
<1> QED BY <1>1, <1>2, <1>3, <1>4, <1>5, <1>6 DEF OutboxInv

(* The goroutine deletes the row only after pubHandler returned nil.       *)
LEMMA PushSucceedsKeeps ==
  ASSUME OutboxBounds, OutboxInv, NEW e \in Events, Outbox!PushSucceeds(e)
  PROVE  OutboxInv'
<1>1. Outbox!TypeOK'
  BY DEF OutboxInv, Outbox!PushSucceeds, Outbox!Deliver, Outbox!requestVars, Outbox!retryVars,
     Outbox!TypeOK, OutboxBounds
<1>2. SavedInv'
  BY DEF OutboxInv, Outbox!PushSucceeds, Outbox!Deliver, Outbox!requestVars, Outbox!retryVars,
     Outbox!TypeOK, SavedInv, SentInv, Sent
<1>3. SentInv'
  BY DEF OutboxInv, Outbox!PushSucceeds, Outbox!Deliver, Outbox!requestVars, Outbox!retryVars,
     Outbox!TypeOK, SavedInv, SentInv, Sent, Waits, OutboxBounds
<1>4. DoneInv'
  BY DEF OutboxInv, Outbox!PushSucceeds, Outbox!Deliver, Outbox!requestVars, Outbox!retryVars,
     Outbox!TypeOK, DoneInv, OutboxBounds
<1>5. Outbox!CommittedNotLost'
  BY DEF OutboxInv, Outbox!PushSucceeds, Outbox!Deliver, Outbox!requestVars, Outbox!retryVars,
     Outbox!TypeOK, Outbox!CommittedNotLost, Outbox!Clashed, SavedInv, SentInv, Sent, NamedInv,
     DoneInv, OutboxBounds
<1>6. Aside'
  BY DEF OutboxInv, Outbox!PushSucceeds, Outbox!Deliver, Outbox!requestVars, Outbox!retryVars,
     Outbox!TypeOK, Aside, Busy, Waits, Outbox!Clashed, SavedInv, SentInv, Sent, NamedInv,
     OutboxBounds
<1>7. NamedInv'
  BY DEF OutboxInv, Outbox!PushSucceeds, Outbox!requestVars, Outbox!retryVars, NamedInv
<1> QED BY <1>1, <1>2, <1>3, <1>4, <1>5, <1>6, <1>7 DEF OutboxInv

(* After an error it marks the row, whether or not the event got through.  *)
LEMMA PushFailsKeeps ==
  ASSUME OutboxBounds, OutboxInv, NEW e \in Events, Outbox!PushFails(e)
  PROVE  OutboxInv'
<1>1. Outbox!TypeOK'
  BY DEF OutboxInv, Outbox!PushFails, Outbox!MayDeliver, Outbox!Deliver, Outbox!requestVars,
     Outbox!retryVars, Outbox!TypeOK, OutboxBounds
<1>2. SavedInv'
  BY DEF OutboxInv, Outbox!PushFails, Outbox!MayDeliver, Outbox!Deliver, Outbox!requestVars,
     Outbox!retryVars, Outbox!TypeOK, SavedInv, SentInv, Sent
<1>3. SentInv'
  BY DEF OutboxInv, Outbox!PushFails, Outbox!MayDeliver, Outbox!Deliver, Outbox!requestVars,
     Outbox!retryVars, Outbox!TypeOK, SavedInv, SentInv, Sent, Waits, OutboxBounds
<1>4. DoneInv'
  BY DEF OutboxInv, Outbox!PushFails, Outbox!MayDeliver, Outbox!Deliver, Outbox!requestVars,
     Outbox!retryVars, Outbox!TypeOK, DoneInv, OutboxBounds
<1>5. Outbox!CommittedNotLost'
  BY DEF OutboxInv, Outbox!PushFails, Outbox!MayDeliver, Outbox!Deliver, Outbox!requestVars,
     Outbox!retryVars, Outbox!TypeOK, Outbox!CommittedNotLost, Outbox!Clashed, SavedInv, SentInv,
     Sent, NamedInv, DoneInv, OutboxBounds
<1>6. Aside'
  BY DEF OutboxInv, Outbox!PushFails, Outbox!MayDeliver, Outbox!Deliver, Outbox!requestVars,
     Outbox!retryVars, Outbox!TypeOK, Aside, Busy, Waits, Outbox!Clashed, SavedInv, SentInv, Sent,
     NamedInv, OutboxBounds
<1>7. NamedInv'
  BY DEF OutboxInv, Outbox!PushFails, Outbox!requestVars, Outbox!retryVars, NamedInv
<1> QED BY <1>1, <1>2, <1>3, <1>4, <1>5, <1>6, <1>7 DEF OutboxInv

(* The rows deleted carry the id of an event that was published: they are  *)
(* that event's, or clash with it.                                         *)
LEMMA PushDeleteKeeps ==
  ASSUME OutboxBounds, OutboxInv, NEW e \in Events, Outbox!PushDelete(e)
  PROVE  OutboxInv'
<1>1. Outbox!TypeOK'
  BY DEF OutboxInv, Outbox!PushDelete, Outbox!DeletePubEvent, Outbox!DeleteSubEvent,
     Outbox!DeleteRow, Outbox!requestVars, Outbox!retryVars, Outbox!TypeOK, OutboxBounds
<1>2. SavedInv'
  BY DEF OutboxInv, Outbox!PushDelete, Outbox!DeletePubEvent, Outbox!DeleteSubEvent,
     Outbox!DeleteRow, Outbox!requestVars, Outbox!retryVars, Outbox!TypeOK, SavedInv, SentInv, Sent
<1>3. SentInv'
  BY DEF OutboxInv, Outbox!PushDelete, Outbox!DeletePubEvent, Outbox!DeleteSubEvent,
     Outbox!DeleteRow, Outbox!requestVars, Outbox!retryVars, Outbox!TypeOK, SavedInv, SentInv, Sent,
     Waits, OutboxBounds
<1>4. DoneInv'
  BY DEF OutboxInv, Outbox!PushDelete, Outbox!DeletePubEvent, Outbox!DeleteSubEvent,
     Outbox!DeleteRow, Outbox!requestVars, Outbox!retryVars, Outbox!TypeOK, DoneInv, OutboxBounds
<1>5. Outbox!CommittedNotLost'
  BY DEF OutboxInv, Outbox!PushDelete, Outbox!DeletePubEvent, Outbox!DeleteSubEvent,
     Outbox!DeleteRow, Outbox!requestVars, Outbox!retryVars, Outbox!TypeOK, Outbox!CommittedNotLost,
     Outbox!Clashed, SavedInv, SentInv, Sent, NamedInv, DoneInv, OutboxBounds
<1>6. Aside'
  BY DEF OutboxInv, Outbox!PushDelete, Outbox!DeletePubEvent, Outbox!DeleteSubEvent,
     Outbox!DeleteRow, Outbox!requestVars, Outbox!retryVars, Outbox!TypeOK, Aside, Busy, Waits,
     Outbox!Clashed, SavedInv, SentInv, Sent, NamedInv, OutboxBounds
<1>7. NamedInv'
  BY DEF OutboxInv, Outbox!PushDelete, Outbox!requestVars, Outbox!retryVars, NamedInv
<1> QED BY <1>1, <1>2, <1>3, <1>4, <1>5, <1>6, <1>7 DEF OutboxInv

(* A row is marked by its own goroutine, which ends, or by a clashing one. *)
LEMMA PushMarkKeeps ==
  ASSUME OutboxBounds, OutboxInv, NEW e \in Events, Outbox!PushMark(e)
  PROVE  OutboxInv'
<1>1. Outbox!TypeOK'
  BY DEF OutboxInv, Outbox!PushMark, Outbox!MarkPub, Outbox!SetSubEventFail, Outbox!MarkRow,
     Outbox!requestVars, Outbox!retryVars, Outbox!TypeOK, OutboxBounds
<1>2. SavedInv'
  BY DEF OutboxInv, Outbox!PushMark, Outbox!MarkPub, Outbox!SetSubEventFail, Outbox!MarkRow,
     Outbox!requestVars, Outbox!retryVars, Outbox!TypeOK, SavedInv, SentInv, Sent
<1>3. SentInv'
  BY DEF OutboxInv, Outbox!PushMark, Outbox!MarkPub, Outbox!SetSubEventFail, Outbox!MarkRow,
     Outbox!requestVars, Outbox!retryVars, Outbox!TypeOK, SavedInv, SentInv, Sent, Waits,
     OutboxBounds
<1>4. DoneInv'
  BY DEF OutboxInv, Outbox!PushMark, Outbox!MarkPub, Outbox!SetSubEventFail, Outbox!MarkRow,
     Outbox!requestVars, Outbox!retryVars, Outbox!TypeOK, DoneInv, OutboxBounds
<1>5. Outbox!CommittedNotLost'
  BY DEF OutboxInv, Outbox!PushMark, Outbox!MarkPub, Outbox!SetSubEventFail, Outbox!MarkRow,
     Outbox!requestVars, Outbox!retryVars, Outbox!TypeOK, Outbox!CommittedNotLost, Outbox!Clashed,
     SavedInv, SentInv, Sent, NamedInv, DoneInv, OutboxBounds
<1>6. Aside'
  BY DEF OutboxInv, Outbox!PushMark, Outbox!MarkPub, Outbox!SetSubEventFail, Outbox!MarkRow,
     Outbox!requestVars, Outbox!retryVars, Outbox!TypeOK, Aside, Busy, Waits, Outbox!Clashed,
     SavedInv, SentInv, Sent, NamedInv, OutboxBounds
<1>7. NamedInv'
  BY DEF OutboxInv, Outbox!PushMark, Outbox!requestVars, Outbox!retryVars, NamedInv
<1> QED BY <1>1, <1>2, <1>3, <1>4, <1>5, <1>6, <1>7 DEF OutboxInv

(* The UPDATE is refused, and the goroutine ends.                          *)
LEMMA PushMarkRefusedKeeps ==
  ASSUME OutboxBounds, OutboxInv, NEW e \in Events, Outbox!PushMarkRefused(e)
  PROVE  OutboxInv'
<1>1. Outbox!TypeOK'
  BY DEF OutboxInv, Outbox!PushMarkRefused, Outbox!requestVars, Outbox!retryVars, Outbox!TypeOK,
     OutboxBounds
<1>2. SavedInv'
  BY DEF OutboxInv, Outbox!PushMarkRefused, Outbox!requestVars, Outbox!retryVars, Outbox!TypeOK,
     SavedInv, SentInv, Sent
<1>3. SentInv'
  BY DEF OutboxInv, Outbox!PushMarkRefused, Outbox!requestVars, Outbox!retryVars, Outbox!TypeOK,
     SavedInv, SentInv, Sent, Waits, OutboxBounds
<1>4. DoneInv'
  BY DEF OutboxInv, Outbox!PushMarkRefused, Outbox!requestVars, Outbox!retryVars, Outbox!TypeOK,
     DoneInv, OutboxBounds
<1>5. Aside'
  BY DEF OutboxInv, Outbox!PushMarkRefused, Outbox!requestVars, Outbox!retryVars, Outbox!TypeOK,
     Aside, Busy, Waits, Outbox!Clashed, SavedInv, SentInv, Sent, NamedInv, OutboxBounds
<1>6. NamedInv' /\ Outbox!CommittedNotLost'
  BY DEF OutboxInv, Outbox!PushMarkRefused, Outbox!requestVars, Outbox!retryVars, NamedInv,
     Outbox!CommittedNotLost, Outbox!Clashed
<1> QED BY <1>1, <1>2, <1>3, <1>4, <1>5, <1>6 DEF OutboxInv

(* The timer of the retry loop fires.                                      *)
LEMMA RetryTickKeeps ==
  ASSUME OutboxBounds, OutboxInv, NEW p \in Pods, Outbox!RetryTick(p)
  PROVE  OutboxInv'
<1>1. Outbox!TypeOK'
  BY DEF OutboxInv, Outbox!RetryTick, Outbox!requestVars, Outbox!TypeOK, OutboxBounds
<1>2. DoneInv'
  BY DEF OutboxInv, Outbox!RetryTick, Outbox!requestVars, Outbox!TypeOK, DoneInv, OutboxBounds
<1>3. SavedInv' /\ SentInv' /\ NamedInv' /\ Outbox!CommittedNotLost' /\ Aside'
  BY DEF OutboxInv, Outbox!RetryTick, Outbox!requestVars, SavedInv, SentInv, NamedInv,
     Outbox!CommittedNotLost, Aside, Waits, Outbox!Clashed, Busy
<1> QED BY <1>1, <1>2, <1>3 DEF OutboxInv

(* Rows fetched are marked: no goroutine has them, or they are clashed.    *)
LEMMA RetryScanKeeps ==
  ASSUME OutboxBounds, OutboxInv, NEW p \in Pods, Outbox!RetryScan(p)
  PROVE  OutboxInv'
<1>1. Outbox!TypeOK'
  BY DEF OutboxInv, Outbox!RetryScan, Outbox!FailedEvents, Outbox!getFailPubEvents,
     Outbox!getFailSubEvents, Outbox!FailedRows, Outbox!requestVars, Outbox!TypeOK, OutboxBounds
<1>2. SentInv'
  BY DEF OutboxInv, Outbox!RetryScan, Outbox!FailedEvents, Outbox!getFailPubEvents,
     Outbox!getFailSubEvents, Outbox!FailedRows, Outbox!requestVars, Outbox!TypeOK, SavedInv,
     SentInv, Sent, Waits, OutboxBounds
<1>3. DoneInv'
  BY DEF OutboxInv, Outbox!RetryScan, Outbox!FailedEvents, Outbox!getFailPubEvents,
     Outbox!getFailSubEvents, Outbox!FailedRows, Outbox!requestVars, Outbox!TypeOK, DoneInv,
     OutboxBounds
<1>4. Aside'
  BY DEF OutboxInv, Outbox!RetryScan, Outbox!FailedEvents, Outbox!getFailPubEvents,
     Outbox!getFailSubEvents, Outbox!FailedRows, Outbox!requestVars, Outbox!TypeOK, Aside, Busy,
     Waits, Outbox!Clashed, SavedInv, SentInv, Sent, NamedInv, OutboxBounds
<1>5. SavedInv' /\ NamedInv' /\ Outbox!CommittedNotLost'
  BY DEF OutboxInv, Outbox!RetryScan, Outbox!requestVars, SavedInv, NamedInv,
     Outbox!CommittedNotLost, Outbox!Clashed
<1> QED BY <1>1, <1>2, <1>3, <1>4, <1>5 DEF OutboxInv

(* The SELECT fails.                                                       *)
LEMMA RetryScanFailsKeeps ==
  ASSUME OutboxBounds, OutboxInv, NEW p \in Pods, Outbox!RetryScanFails(p)
  PROVE  OutboxInv'
<1>1. Outbox!TypeOK'
  BY DEF OutboxInv, Outbox!RetryScanFails, Outbox!requestVars, Outbox!TypeOK, OutboxBounds
<1>2. DoneInv'
  BY DEF OutboxInv, Outbox!RetryScanFails, Outbox!requestVars, Outbox!TypeOK, DoneInv, OutboxBounds
<1>3. SavedInv' /\ SentInv' /\ NamedInv' /\ Outbox!CommittedNotLost' /\ Aside'
  BY DEF OutboxInv, Outbox!RetryScanFails, Outbox!requestVars, SavedInv, SentInv, NamedInv,
     Outbox!CommittedNotLost, Aside, Waits, Outbox!Clashed, Busy
<1> QED BY <1>1, <1>2, <1>3 DEF OutboxInv

(* The loop deletes a row only after it has published the event.           *)
LEMMA RetrySucceedsKeeps ==
  ASSUME OutboxBounds, OutboxInv, NEW p \in Pods, NEW e \in Events, Outbox!RetrySucceeds(p, e)
  PROVE  OutboxInv'
<1>1. Outbox!TypeOK'
  BY DEF OutboxInv, Outbox!RetrySucceeds, Outbox!Deliver, Outbox!requestVars, Outbox!TypeOK,
     OutboxBounds
<1>2. SentInv'
  BY DEF OutboxInv, Outbox!RetrySucceeds, Outbox!Deliver, Outbox!requestVars, Outbox!TypeOK,
     SavedInv, SentInv, Sent, Waits, OutboxBounds
<1>3. DoneInv'
  BY DEF OutboxInv, Outbox!RetrySucceeds, Outbox!Deliver, Outbox!requestVars, Outbox!TypeOK,
     DoneInv, OutboxBounds
<1>4. Outbox!CommittedNotLost'
  BY DEF OutboxInv, Outbox!RetrySucceeds, Outbox!Deliver, Outbox!requestVars, Outbox!TypeOK,
     Outbox!CommittedNotLost, Outbox!Clashed, SavedInv, SentInv, Sent, NamedInv, DoneInv,
     OutboxBounds
<1>5. Aside'
  BY DEF OutboxInv, Outbox!RetrySucceeds, Outbox!Deliver, Outbox!requestVars, Outbox!TypeOK, Aside,
     Busy, Waits, Outbox!Clashed, SavedInv, SentInv, Sent, NamedInv, OutboxBounds
<1>6. SavedInv' /\ NamedInv'
  BY DEF OutboxInv, Outbox!RetrySucceeds, Outbox!requestVars, SavedInv, NamedInv
<1> QED BY <1>1, <1>2, <1>3, <1>4, <1>5, <1>6 DEF OutboxInv

(* After an error the loop goes on to the next event.                      *)
LEMMA RetryErrsKeeps ==
  ASSUME OutboxBounds, OutboxInv, NEW p \in Pods, NEW e \in Events, Outbox!RetryErrs(p, e)
  PROVE  OutboxInv'
<1>1. Outbox!TypeOK'
  BY DEF OutboxInv, Outbox!RetryErrs, Outbox!MayDeliver, Outbox!Deliver, Outbox!requestVars,
     Outbox!TypeOK, OutboxBounds
<1>2. SentInv'
  BY DEF OutboxInv, Outbox!RetryErrs, Outbox!MayDeliver, Outbox!Deliver, Outbox!requestVars,
     Outbox!TypeOK, SavedInv, SentInv, Sent, Waits, OutboxBounds
<1>3. DoneInv'
  BY DEF OutboxInv, Outbox!RetryErrs, Outbox!MayDeliver, Outbox!Deliver, Outbox!requestVars,
     Outbox!TypeOK, DoneInv, OutboxBounds
<1>4. Outbox!CommittedNotLost'
  BY DEF OutboxInv, Outbox!RetryErrs, Outbox!MayDeliver, Outbox!Deliver, Outbox!requestVars,
     Outbox!TypeOK, Outbox!CommittedNotLost, Outbox!Clashed, SavedInv, SentInv, Sent, NamedInv,
     DoneInv, OutboxBounds
<1>5. Aside'
  BY DEF OutboxInv, Outbox!RetryErrs, Outbox!MayDeliver, Outbox!Deliver, Outbox!requestVars,
     Outbox!TypeOK, Aside, Busy, Waits, Outbox!Clashed, SavedInv, SentInv, Sent, NamedInv,
     OutboxBounds
<1>6. SavedInv' /\ NamedInv'
  BY DEF OutboxInv, Outbox!RetryErrs, Outbox!requestVars, SavedInv, NamedInv
<1> QED BY <1>1, <1>2, <1>3, <1>4, <1>5, <1>6 DEF OutboxInv

(* A panic drops the events that were fetched.                             *)
LEMMA RetryPanicsKeeps ==
  ASSUME OutboxBounds, OutboxInv, NEW p \in Pods, NEW e \in Events, Outbox!RetryPanics(p, e)
  PROVE  OutboxInv'
<1>1. Outbox!TypeOK'
  BY DEF OutboxInv, Outbox!RetryPanics, Outbox!MayDeliver, Outbox!Deliver, Outbox!requestVars,
     Outbox!TypeOK, OutboxBounds
<1>2. SentInv'
  BY DEF OutboxInv, Outbox!RetryPanics, Outbox!MayDeliver, Outbox!Deliver, Outbox!requestVars,
     Outbox!TypeOK, SavedInv, SentInv, Sent, Waits, OutboxBounds
<1>3. DoneInv'
  BY DEF OutboxInv, Outbox!RetryPanics, Outbox!MayDeliver, Outbox!Deliver, Outbox!requestVars,
     Outbox!TypeOK, DoneInv, OutboxBounds
<1>4. Outbox!CommittedNotLost'
  BY DEF OutboxInv, Outbox!RetryPanics, Outbox!MayDeliver, Outbox!Deliver, Outbox!requestVars,
     Outbox!TypeOK, Outbox!CommittedNotLost, Outbox!Clashed, SavedInv, SentInv, Sent, NamedInv,
     DoneInv, OutboxBounds
<1>5. Aside'
  BY DEF OutboxInv, Outbox!RetryPanics, Outbox!MayDeliver, Outbox!Deliver, Outbox!requestVars,
     Outbox!TypeOK, Aside, Busy, Waits, Outbox!Clashed, SavedInv, SentInv, Sent, NamedInv,
     OutboxBounds
<1>6. SavedInv' /\ NamedInv'
  BY DEF OutboxInv, Outbox!RetryPanics, Outbox!requestVars, SavedInv, NamedInv
<1> QED BY <1>1, <1>2, <1>3, <1>4, <1>5, <1>6 DEF OutboxInv

(* The rows deleted carry the id of the event just published.              *)
LEMMA RetryDeletedKeeps ==
  ASSUME OutboxBounds, OutboxInv, NEW p \in Pods, Outbox!RetryDeleted(p)
  PROVE  OutboxInv'
<1>1. Outbox!TypeOK'
  BY DEF OutboxInv, Outbox!RetryDeleted, Outbox!DeletePubEvent, Outbox!DeleteSubEvent,
     Outbox!DeleteRow, Outbox!requestVars, Outbox!TypeOK, OutboxBounds
<1>2. SentInv'
  BY DEF OutboxInv, Outbox!RetryDeleted, Outbox!DeletePubEvent, Outbox!DeleteSubEvent,
     Outbox!DeleteRow, Outbox!requestVars, Outbox!TypeOK, SavedInv, SentInv, Sent, Waits,
     OutboxBounds
<1>3. DoneInv'
  BY DEF OutboxInv, Outbox!RetryDeleted, Outbox!DeletePubEvent, Outbox!DeleteSubEvent,
     Outbox!DeleteRow, Outbox!requestVars, Outbox!TypeOK, DoneInv, OutboxBounds
<1>4. Outbox!CommittedNotLost'
  BY DEF OutboxInv, Outbox!RetryDeleted, Outbox!DeletePubEvent, Outbox!DeleteSubEvent,
     Outbox!DeleteRow, Outbox!requestVars, Outbox!TypeOK, Outbox!CommittedNotLost, Outbox!Clashed,
     SavedInv, SentInv, Sent, NamedInv, DoneInv, OutboxBounds
<1>5. Aside'
  BY DEF OutboxInv, Outbox!RetryDeleted, Outbox!DeletePubEvent, Outbox!DeleteSubEvent,
     Outbox!DeleteRow, Outbox!requestVars, Outbox!TypeOK, Aside, Busy, Waits, Outbox!Clashed,
     SavedInv, SentInv, Sent, NamedInv, OutboxBounds
<1>6. SavedInv' /\ NamedInv'
  BY DEF OutboxInv, Outbox!RetryDeleted, Outbox!requestVars, SavedInv, NamedInv
<1> QED BY <1>1, <1>2, <1>3, <1>4, <1>5, <1>6 DEF OutboxInv

(* The DELETE is refused: the row stays marked.                            *)
LEMMA RetryDeleteRefusedKeeps ==
  ASSUME OutboxBounds, OutboxInv, NEW p \in Pods, Outbox!RetryDeleteRefused(p)
  PROVE  OutboxInv'
<1>1. Outbox!TypeOK'
  BY DEF OutboxInv, Outbox!RetryDeleteRefused, Outbox!requestVars, Outbox!TypeOK, OutboxBounds
<1>2. SentInv'
  BY DEF OutboxInv, Outbox!RetryDeleteRefused, Outbox!requestVars, Outbox!TypeOK, SavedInv, SentInv,
     Sent, Waits, OutboxBounds
<1>3. DoneInv'
  BY DEF OutboxInv, Outbox!RetryDeleteRefused, Outbox!requestVars, Outbox!TypeOK, DoneInv,
     OutboxBounds
<1>4. Aside'
  BY DEF OutboxInv, Outbox!RetryDeleteRefused, Outbox!requestVars, Outbox!TypeOK, Aside, Busy,
     Waits, Outbox!Clashed, SavedInv, SentInv, Sent, NamedInv, OutboxBounds
<1>5. SavedInv' /\ NamedInv' /\ Outbox!CommittedNotLost'
  BY DEF OutboxInv, Outbox!RetryDeleteRefused, Outbox!requestVars, SavedInv, NamedInv,
     Outbox!CommittedNotLost, Outbox!Clashed
<1> QED BY <1>1, <1>2, <1>3, <1>4, <1>5 DEF OutboxInv

(* The round is over.                                                      *)
LEMMA RetryEndsKeeps ==
  ASSUME OutboxBounds, OutboxInv, NEW p \in Pods, Outbox!RetryEnds(p)
  PROVE  OutboxInv'
<1>1. Outbox!TypeOK'
  BY DEF OutboxInv, Outbox!RetryEnds, Outbox!requestVars, Outbox!TypeOK, OutboxBounds
<1>2. DoneInv'
  BY DEF OutboxInv, Outbox!RetryEnds, Outbox!requestVars, Outbox!TypeOK, DoneInv, OutboxBounds
<1>3. SavedInv' /\ SentInv' /\ NamedInv' /\ Outbox!CommittedNotLost' /\ Aside'
  BY DEF OutboxInv, Outbox!RetryEnds, Outbox!requestVars, SavedInv, SentInv, NamedInv,
     Outbox!CommittedNotLost, Aside, Waits, Outbox!Clashed, Busy
<1> QED BY <1>1, <1>2, <1>3 DEF OutboxInv

(* A crash: the database rolls back what was open, and the pod's list,     *)
(* goroutines and loop are gone.                                           *)
LEMMA CrashKeeps ==
  ASSUME OutboxBounds, OutboxInv, NEW p \in Pods, Outbox!Crash(p)
  PROVE  OutboxInv'
<1>1. Outbox!TypeOK'
  BY DEF OutboxInv, Outbox!Crash, Outbox!EndTransaction, Outbox!TypeOK, OutboxBounds
<1>2. SavedInv'
  BY DEF OutboxInv, Outbox!Crash, Outbox!EndTransaction, Outbox!TypeOK, SavedInv, SentInv, Sent
<1>3. SentInv'
  BY DEF OutboxInv, Outbox!Crash, Outbox!EndTransaction, Outbox!TypeOK, SavedInv, SentInv, Sent,
     Waits, OutboxBounds
<1>4. NamedInv'
  BY DEF OutboxInv, Outbox!Crash, Outbox!EndTransaction, Outbox!TypeOK, NamedInv, SavedInv,
     Outbox!NoId, Sent
<1>5. DoneInv'
  BY DEF OutboxInv, Outbox!Crash, Outbox!EndTransaction, Outbox!TypeOK, DoneInv, OutboxBounds
<1>6. Outbox!CommittedNotLost'
  BY DEF OutboxInv, Outbox!Crash, Outbox!EndTransaction, Outbox!TypeOK, Outbox!CommittedNotLost,
     Outbox!Clashed, SavedInv, SentInv, Sent, NamedInv, DoneInv, OutboxBounds
<1>7. Aside'
  BY DEF OutboxInv, Outbox!Crash, Outbox!EndTransaction, Outbox!TypeOK, Aside, Busy, Waits,
     Outbox!Clashed, SavedInv, SentInv, Sent, NamedInv, OutboxBounds
<1> QED BY <1>1, <1>2, <1>3, <1>4, <1>5, <1>6, <1>7 DEF OutboxInv

(* A step that changes nothing but the side's name, which none does.       *)
LEMMA StutterKeeps ==
  ASSUME OutboxInv, UNCHANGED <<side, Outbox!vars>>
  PROVE  OutboxInv'
<1>1. Outbox!TypeOK' /\ SavedInv' /\ NamedInv' /\ DoneInv'
  BY DEF OutboxInv, Outbox!vars, Outbox!requestVars, Outbox!retryVars, Outbox!TypeOK, SavedInv,
     NamedInv, DoneInv
<1>2. SentInv' /\ Outbox!CommittedNotLost' /\ Aside'
  BY DEF OutboxInv, Outbox!vars, Outbox!requestVars, Outbox!retryVars, SentInv,
     Outbox!CommittedNotLost, Aside, Waits, Busy, Outbox!Clashed
<1> QED BY <1>1, <1>2 DEF OutboxInv

-----------------------------------------------------------------------------
(* Every step keeps it *)

(* The steps of a request,                                                 *)
LEMMA RequestKeeps ==
  ASSUME OutboxBounds, OutboxInv, NEW p \in Pods, Outbox!Request(p)
  PROVE  OutboxInv'
BY BeginKeeps, CommitKeeps, CommitFailsKeeps, RollbackKeeps, PushEventKeeps, SaveKeeps,
   SaveSubKeeps DEF Outbox!Request

(* those of the goroutine that pushes an event,                            *)
LEMMA PushKeeps ==
  ASSUME OutboxBounds, OutboxInv, NEW e \in Events, Outbox!Push(e)
  PROVE  OutboxInv'
BY PushSucceedsKeeps, PushFailsKeeps, PushDeleteKeeps, PushMarkKeeps, PushMarkRefusedKeeps DEF
   Outbox!Push

(* those of the retry loops,                                               *)
LEMMA RetryKeeps ==
  ASSUME OutboxBounds, OutboxInv, NEW p \in Pods, Outbox!Retry(p)
  PROVE  OutboxInv'
<1>1. CASE Outbox!RetryRound(p)
  <2>1. CASE \E e \in Events : Outbox!RetryEvent(p, e)
    BY <2>1, RetrySucceedsKeeps, RetryErrsKeeps, RetryPanicsKeeps DEF Outbox!RetryEvent
  <2> QED BY <1>1, <2>1, RetryScanKeeps, RetryScanFailsKeeps, RetryDeletedKeeps,
             RetryDeleteRefusedKeeps DEF Outbox!RetryRound
<1>2. CASE Outbox!RetryLoop(p)
  BY <1>2, RetryTickKeeps, RetryEndsKeeps DEF Outbox!RetryLoop
<1> QED BY <1>1, <1>2 DEF Outbox!Retry, Outbox!retryPub, Outbox!retrySub, Outbox!RetryPubEvent,
           Outbox!RetrySubEvent

(* and so all of them,                                                     *)
LEMMA NextKeeps == OutboxBounds /\ OutboxInv /\ [Outbox!Next]_<<side, Outbox!vars>> => OutboxInv'
<1> SUFFICES ASSUME OutboxBounds, OutboxInv, [Outbox!Next]_<<side, Outbox!vars>> PROVE OutboxInv'
  OBVIOUS
<1>1. CASE \E p \in Pods : Outbox!Request(p) \/ Outbox!Retry(p) \/ Outbox!Crash(p)
  BY <1>1, RequestKeeps, RetryKeeps, CrashKeeps
<1>2. CASE \E e \in Events : Outbox!Push(e)
  BY <1>2, PushKeeps
<1>3. CASE UNCHANGED <<side, Outbox!vars>>
  BY <1>3, StutterKeeps
<1> QED BY <1>1, <1>2, <1>3 DEF Outbox!Next

(* in every behaviour of the outbox.                                       *)
LEMMA OutboxInvariance ==
  ASSUME OutboxBounds
  PROVE  Outbox!Spec => []OutboxInv
<1>1. Outbox!Init => OutboxInv
  BY InitOutbox
<1>2. OutboxInv /\ [Outbox!Next]_<<side, Outbox!vars>> => OutboxInv'
  BY NextKeeps
<1>3. QED BY <1>1, <1>2, PTL DEF Outbox!Spec

-----------------------------------------------------------------------------
(* The theorems *)

(* Every variable keeps its type.                                          *)
THEOREM OutboxTypeCorrect ==
  ASSUME OutboxBounds
  PROVE  Outbox!Spec => []Outbox!TypeOK
BY OutboxInvariance, PTL DEF OutboxInv

(* Execute after a rollback: an event whose transaction was rolled back,   *)
(* by an error, a panic or a crash, has not been published and never is.   *)
THEOREM RolledBackNever ==
  ASSUME OutboxBounds
  PROVE  Outbox!Spec => []RolledBackNeverPublished
<1>1. OutboxInv => Outbox!RolledBackNeverPublished
  BY DEF OutboxInv, Outbox!TypeOK, SentInv, Sent, Outbox!RolledBackNeverPublished
<1>2. QED BY <1>1, OutboxInvariance, PTL DEF RolledBackNeverPublished

(* DELETE follows pubHandler's nil: an event whose row was committed keeps *)
(* it until the event has been published, whatever statement is refused    *)
(* and whoever crashes, unless NextID gave its id twice.                   *)
THEOREM CommittedStays ==
  ASSUME OutboxBounds
  PROVE  Outbox!Spec => []CommittedNotLost
BY OutboxInvariance, PTL DEF OutboxInv, CommittedNotLost

(* push and retryPub in one event: no retry loop has an event whose first  *)
(* push is under way, unless it shares its id.                             *)
THEOREM Disjoint ==
  ASSUME OutboxBounds
  PROVE  Outbox!Spec => []PushAndRetryDisjoint
<1>1. OutboxInv => Outbox!PushAndRetryDisjoint
  BY DEF OutboxInv, Aside, Busy, Waits, Outbox!PushAndRetryDisjoint
<1>2. QED BY <1>1, OutboxInvariance, PTL DEF PushAndRetryDisjoint

=============================================================================

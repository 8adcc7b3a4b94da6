----------------------------- MODULE ThriftPool -----------------------------
(***************************************************************************)
(* The client connection pool of infra/rpc: ThriftPool (thrift_pool.go)    *)
(* driven by ThriftPoolAgent.Do (thrift_agent.go).                         *)
(*                                                                         *)
(* One process per goroutine that calls Do, one for ClearConn (it closes   *)
(* idle connections that have expired), one for the owner of the pool, who *)
(* calls Release and Recover.  A section run under p.lock is one step; the *)
(* atomic loads and stores of count and status outside the lock, Dial,     *)
(* Check, Close and the user's call are steps of their own.                *)
(*                                                                         *)
(* Time is abstracted: an idle connection may have expired, and a waiting  *)
(* Get may have reached its deadline, at any moment.                       *)
(***************************************************************************)
EXTENDS Integers, Sequences, FiniteSets

CONSTANTS Callers,      \* goroutines that call ThriftPoolAgent.Do
          Conns,        \* names of connections; a name is reused once nothing refers to it
          NoConn,       \* the nil *IdleClient
          MaxConn,      \* config.MaxConn
          MaxReleases   \* bound: how many times the owner calls Release

ASSUME MaxConnAssumption == MaxConn \in Nat \ {0}
ASSUME MaxReleasesAssumption == MaxReleases \in Nat
ASSUME NoConnAssumption == NoConn \notin Conns
ASSUME CallersAssumption == IsFiniteSet(Callers)

VARIABLES
  idle,      \* p.idle, newest first
  count,     \* p.count
  status,    \* p.status: poolOpen or poolStop
  open,      \* the connections for which Transport.IsOpen() is true
  raw,       \* *config.ClientPtrPtr, which every IdleClient has as its RawClient:
             \* the connection dialled last
  pc,        \* where each caller is
  conn,      \* the local variable client of each caller
  reaper,    \* where ClearConn is
  expired,   \* the connection ClearConn has taken out of idle
  owner,     \* where the owner of the pool is
  doomed,    \* the copy of idle that Release closes
  releases   \* number of calls of Release

callerVars == <<pc, conn>>
reaperVars == <<reaper, expired>>
ownerVars  == <<status, owner, doomed, releases>>
vars == <<idle, count, open, raw, callerVars, reaperVars, ownerVars>>

CallerPcs == {"out", "acquire", "wait", "dial", "check", "use", "reconnect",
              "redial", "recheck", "retry", "put", "putcheck", "push", "close"}

IdleConns == {idle[i] : i \in 1..Len(idle)}
DoomedConns == {doomed[i] : i \in 1..Len(doomed)}

(* A name that a dial may give to its connection: nothing refers to it.    *)
Fresh == {c \in Conns :
            /\ c \notin open \cup IdleConns \cup DoomedConns \cup {expired, raw}
            /\ \A p \in Callers : conn[p] # c}

Goto(p, label) == pc' = [pc EXCEPT ![p] = label]

(* NewThriftPool: initConn runs min(MaxConn, 10) goroutines, each a Get and *)
(* a Put, and waits for them.  A goroutine may pop the connection another   *)
(* one has just put, and a dial may fail, so any number up to that bound of *)
(* connections is idle when the constructor returns.  (A connection that    *)
(* was dialled and lost before that leaves no trace here.)                  *)
maxInitConnCount == 10
InitCount == IF MaxConn > maxInitConnCount THEN maxInitConnCount ELSE MaxConn

Init ==
  /\ idle \in UNION {[1..k -> Conns] : k \in 0..InitCount}
  /\ \A i, j \in 1..Len(idle) : idle[i] = idle[j] => i = j
  /\ count = Len(idle)
  /\ open = IdleConns
  /\ raw \in IF idle = <<>> THEN {NoConn} ELSE IdleConns
  /\ status = "open"
  /\ pc = [p \in Callers |-> "out"]
  /\ conn = [p \in Callers |-> NoConn]
  /\ reaper = "scan"
  /\ expired = NoConn
  /\ owner = "run"
  /\ doomed = <<>>
  /\ releases = 0

-----------------------------------------------------------------------------
(* Get *)

(* Do calls Get, which fails at once when the pool is closed.              *)
Call(p) ==
  /\ pc[p] = "out"
  /\ status = "open"
  /\ Goto(p, "acquire")
  /\ UNCHANGED <<idle, count, open, raw, conn, reaperVars, ownerVars>>

(* No idle connection and no room for another one.                         *)
Full == idle = <<>> /\ count >= MaxConn

(* Mutation: the connection stays in the list while a caller uses it.      *)
TakeWithoutRemove(p) ==
  \/ /\ idle = <<>> /\ count < MaxConn
     /\ count' = count + 1
     /\ Goto(p, "dial")
     /\ UNCHANGED <<idle, conn>>
  \/ /\ idle # <<>>
     /\ conn' = [conn EXCEPT ![p] = Head(idle)]
     /\ Goto(p, "check")
     /\ UNCHANGED <<idle, count>>

(* What Get does under the lock when the pool is not Full.                 *)
TakeSlotOrConn(p) ==
  \/ /\ idle = <<>> /\ count < MaxConn
     /\ count' = count + 1
     /\ Goto(p, "dial")
     /\ UNCHANGED <<idle, conn>>
  \/ /\ idle # <<>>
     /\ conn' = [conn EXCEPT ![p] = Head(idle)]
     /\ idle' = Tail(idle)
     /\ Goto(p, "check")
     /\ UNCHANGED count

Acquire(p) ==
  /\ pc[p] = "acquire"
  /\ \/ TakeSlotOrConn(p)
     \/ Full /\ Goto(p, "wait") /\ UNCHANGED <<idle, count, conn>>
  /\ UNCHANGED <<open, raw, reaperVars, ownerVars>>

(* A round of the waiting loop that finds the pool no longer Full.  The    *)
(* loop does not look at status again.                                     *)
Reacquire(p) ==
  /\ pc[p] = "wait"
  /\ TakeSlotOrConn(p)
  /\ UNCHANGED <<open, raw, reaperVars, ownerVars>>

(* Mutation: a Get that waits does not look at its deadline.               *)
GiveUpNever(p) ==
  /\ pc[p] = "wait"
  /\ FALSE
  /\ UNCHANGED vars

(* The deadline of a waiting Get has passed: ErrOverMax.                   *)
GiveUp(p) ==
  /\ pc[p] = "wait"
  /\ Goto(p, "out")
  /\ UNCHANGED <<idle, count, open, raw, conn, reaperVars, ownerVars>>

-----------------------------------------------------------------------------
(* Dial and Check, in Get and again in Reconnect *)

DialSucceeds(p) ==
  /\ pc[p] \in {"dial", "redial"}
  /\ \E c \in Fresh :
       /\ open' = open \cup {c}
       /\ raw' = c
       /\ conn' = [conn EXCEPT ![p] = c]
  /\ Goto(p, IF pc[p] = "dial" THEN "check" ELSE "recheck")
  /\ UNCHANGED <<idle, count, reaperVars, ownerVars>>

(* Mutation: a failed dial does not give its slot back.                    *)
DialFailsLeaks(p) ==
  /\ pc[p] \in {"dial", "redial"}
  /\ Goto(p, "out")
  /\ UNCHANGED <<idle, count, open, raw, conn, reaperVars, ownerVars>>

DialFails(p) ==
  /\ pc[p] \in {"dial", "redial"}
  /\ count' = count - 1
  /\ Goto(p, "out")
  /\ UNCHANGED <<idle, open, raw, conn, reaperVars, ownerVars>>

CheckPasses(p) ==
  /\ pc[p] \in {"check", "recheck"}
  /\ conn[p] \in open
  /\ Goto(p, IF pc[p] = "check" THEN "use" ELSE "retry")
  /\ UNCHANGED <<idle, count, open, raw, conn, reaperVars, ownerVars>>

(* ErrSocketDisconnect: the client is dropped without being closed.        *)
CheckFails(p) ==
  /\ pc[p] \in {"check", "recheck"}
  /\ conn[p] \notin open
  /\ count' = count - 1
  /\ conn' = [conn EXCEPT ![p] = NoConn]
  /\ Goto(p, "out")
  /\ UNCHANGED <<idle, open, raw, reaperVars, ownerVars>>

-----------------------------------------------------------------------------
(* Do: the user's call, with one retry over a new connection *)

(* The call goes through RawClient, so it uses the connection raw names.   *)
(* An answer, an error of the application or a panic leads to the deferred *)
(* Put.                                                                    *)
CallReturns(p) ==
  /\ pc[p] = "use"
  /\ Goto(p, "put")
  /\ UNCHANGED <<idle, count, open, raw, conn, reaperVars, ownerVars>>

(* net.Error or TTransportException.                                       *)
CallFails(p) ==
  /\ pc[p] = "use"
  /\ Goto(p, "reconnect")
  /\ UNCHANGED <<idle, count, open, raw, conn, reaperVars, ownerVars>>

(* Reconnect first closes the old connection.                              *)
ReconnectClose(p) ==
  /\ pc[p] = "reconnect"
  /\ open' = open \ {conn[p]}
  /\ conn' = [conn EXCEPT ![p] = NoConn]
  /\ Goto(p, "redial")
  /\ UNCHANGED <<idle, count, raw, reaperVars, ownerVars>>

(* The second call's error is returned but not assigned to err, so the     *)
(* deferred function puts the connection back whatever the outcome.        *)
RetryEnds(p) ==
  /\ pc[p] = "retry"
  /\ Goto(p, "put")
  /\ UNCHANGED <<idle, count, open, raw, conn, reaperVars, ownerVars>>

-----------------------------------------------------------------------------
(* Put *)

PutStatus(p) ==
  /\ pc[p] = "put"
  /\ Goto(p, IF status = "stop" THEN "close" ELSE "putcheck")
  /\ UNCHANGED <<idle, count, open, raw, conn, reaperVars, ownerVars>>

(* Over the maximum, or disconnected: give the slot back, then close.      *)
PutCheck(p) ==
  /\ pc[p] = "putcheck"
  /\ IF count > MaxConn \/ conn[p] \notin open
     THEN count' = count - 1 /\ Goto(p, "close")
     ELSE Goto(p, "push") /\ UNCHANGED count
  /\ UNCHANGED <<idle, open, raw, conn, reaperVars, ownerVars>>

PutPush(p) ==
  /\ pc[p] = "push"
  /\ idle' = <<conn[p]>> \o idle
  /\ conn' = [conn EXCEPT ![p] = NoConn]
  /\ Goto(p, "out")
  /\ UNCHANGED <<count, open, raw, reaperVars, ownerVars>>

PutClose(p) ==
  /\ pc[p] = "close"
  /\ open' = open \ {conn[p]}
  /\ conn' = [conn EXCEPT ![p] = NoConn]
  /\ Goto(p, "out")
  /\ UNCHANGED <<idle, count, raw, reaperVars, ownerVars>>

-----------------------------------------------------------------------------
(* ClearConn: it calls CheckTimeout for ever, also on a closed pool *)

(* Mutation: ClearConn does nothing on a closed pool.                      *)
ReapTakeOpenOnly ==
  /\ reaper = "scan"
  /\ status = "open"
  /\ idle # <<>>
  /\ expired' = idle[Len(idle)]
  /\ idle' = SubSeq(idle, 1, Len(idle) - 1)
  /\ reaper' = "close"
  /\ UNCHANGED <<count, open, raw, callerVars, ownerVars>>

ReapTake ==
  /\ reaper = "scan"
  /\ idle # <<>>
  /\ expired' = idle[Len(idle)]
  /\ idle' = SubSeq(idle, 1, Len(idle) - 1)
  /\ reaper' = "close"
  /\ UNCHANGED <<count, open, raw, callerVars, ownerVars>>

ReapClose ==
  /\ reaper = "close"
  /\ open' = open \ {expired}
  /\ expired' = NoConn
  /\ reaper' = "count"
  /\ UNCHANGED <<idle, count, raw, callerVars, ownerVars>>

ReapCount ==
  /\ reaper = "count"
  /\ count' = count - 1
  /\ reaper' = "scan"
  /\ UNCHANGED <<idle, open, raw, callerVars, expired, ownerVars>>

-----------------------------------------------------------------------------
(* Release and Recover *)

ReleaseStop ==
  /\ owner = "run" /\ releases < MaxReleases
  /\ status' = "stop"
  /\ releases' = releases + 1
  /\ owner' = "zero"
  /\ UNCHANGED <<idle, count, open, raw, callerVars, reaperVars, doomed>>

(* count is cleared before the lock is taken, and whatever is still out.   *)
ReleaseZero ==
  /\ owner = "zero"
  /\ count' = 0
  /\ owner' = "drain"
  /\ UNCHANGED <<idle, open, raw, callerVars, reaperVars, status, doomed, releases>>

ReleaseDrain ==
  /\ owner = "drain"
  /\ doomed' = idle
  /\ idle' = <<>>
  /\ owner' = "closing"
  /\ UNCHANGED <<count, open, raw, callerVars, reaperVars, status, releases>>

ReleaseClose ==
  /\ owner = "closing"
  /\ IF doomed = <<>>
     THEN owner' = "released" /\ UNCHANGED <<open, doomed>>
     ELSE /\ open' = open \ {Head(doomed)}
          /\ doomed' = Tail(doomed)
          /\ UNCHANGED owner
  /\ UNCHANGED <<idle, count, raw, callerVars, reaperVars, status, releases>>

Recover ==
  /\ owner = "released"
  /\ status' = "open"
  /\ owner' = "run"
  /\ UNCHANGED <<idle, count, open, raw, callerVars, reaperVars, doomed, releases>>

-----------------------------------------------------------------------------
(* The other end goes away: IsOpen() is false from now on.                 *)
PeerCloses ==
  /\ \E c \in open : open' = open \ {c}
  /\ UNCHANGED <<idle, count, raw, callerVars, reaperVars, ownerVars>>

(* What a caller does inside Do, once it has called it.                    *)
Step(p) ==
  \/ Acquire(p) \/ Reacquire(p) \/ GiveUp(p)
  \/ DialSucceeds(p) \/ DialFails(p) \/ CheckPasses(p) \/ CheckFails(p)
  \/ CallReturns(p) \/ CallFails(p) \/ ReconnectClose(p) \/ RetryEnds(p)
  \/ PutStatus(p) \/ PutCheck(p) \/ PutPush(p) \/ PutClose(p)

Reap == ReapTake \/ ReapClose \/ ReapCount
Release == ReleaseStop \/ ReleaseZero \/ ReleaseDrain \/ ReleaseClose
ReleaseRest == ReleaseZero \/ ReleaseDrain \/ ReleaseClose

Next == \/ \E p \in Callers : Call(p) \/ Step(p)
        \/ Reap \/ Release \/ Recover \/ PeerCloses

Spec == Init /\ [][Next]_vars

(* What a caller does by itself.  A dial and a call of the user are not    *)
(* among it: thriftDial makes its socket without a timeout, so either may  *)
(* last for ever.                                                          *)
Scheduled(p) ==
  \/ Acquire(p) \/ Reacquire(p) \/ GiveUp(p) \/ CheckPasses(p) \/ CheckFails(p)
  \/ ReconnectClose(p) \/ PutStatus(p) \/ PutCheck(p) \/ PutPush(p) \/ PutClose(p)

(* Goroutines are scheduled; a wait in Get has a deadline; every idle      *)
(* connection expires; a Release runs to its end.  Nothing forces a dial   *)
(* or a call to end, a new call, a Release or a Recover.                   *)
Fairness == /\ \A p \in Callers : WF_vars(Scheduled(p))
            /\ WF_vars(Reap)
            /\ WF_vars(ReleaseRest)

FairSpec == Spec /\ Fairness

-----------------------------------------------------------------------------
(* Properties *)

TypeOK ==
  /\ idle \in Seq(Conns)
  /\ count \in Int
  /\ status \in {"open", "stop"}
  /\ open \subseteq Conns
  /\ raw \in Conns \cup {NoConn}
  /\ pc \in [Callers -> CallerPcs]
  /\ conn \in [Callers -> Conns \cup {NoConn}]
  /\ reaper \in {"scan", "close", "count"}
  /\ expired \in Conns \cup {NoConn}
  /\ owner \in {"run", "zero", "drain", "closing", "released"}
  /\ doomed \in Seq(Conns)
  /\ releases \in 0..MaxReleases

(* A connection has one owner: it is idle once, or in the hands of one     *)
(* caller, or being closed by ClearConn or by Release.  (Get takes it out  *)
(* of the list under the lock and every path of Do gives it up once, also  *)
(* while Release and ClearConn run.)                                       *)
OneOwner ==
  /\ \A i, j \in 1..Len(idle) : idle[i] = idle[j] => i = j
  /\ \A i, j \in 1..Len(doomed) : doomed[i] = doomed[j] => i = j
  /\ IdleConns \cap DoomedConns = {}
  /\ expired \notin IdleConns \cup DoomedConns
  /\ \A p \in Callers : conn[p] # NoConn =>
       /\ conn[p] \notin IdleConns \cup DoomedConns \cup {expired}
       /\ \A q \in Callers : conn[q] = conn[p] => q = p

(* Where a caller accounts for one unit of count.                          *)
CountedPcs == {"dial", "check", "use", "reconnect", "redial", "recheck",
               "retry", "put", "putcheck", "push"}
Counted == {p \in Callers : pc[p] \in CountedPcs}

(* Until the first Release, count is exactly the number of connections     *)
(* that are idle, in use, being dialled or being expired, although it is   *)
(* updated outside the lock in eight places: no path leaks a slot.         *)
CountExact ==
  releases = 0 =>
    count = Len(idle) + Cardinality(Counted) + (IF reaper = "scan" THEN 0 ELSE 1)

(* The pool never has more than MaxConn connections open, until the first  *)
(* Release.                                                                *)
AtMostMaxConn == releases = 0 => Cardinality(open) <= MaxConn

(* Callers the network may keep for ever, in a dial or in a call.          *)
Dialling == {p \in Callers : pc[p] \in {"dial", "redial"}}
Calling == {p \in Callers : pc[p] \in {"use", "retry"}}

(* Of a pool that stays closed no connection stays open but those in the   *)
(* hands of callers whose call never returns, although Put may push one    *)
(* after Release has emptied the list and a waiting Get may still dial:    *)
(* ClearConn closes the stragglers, and a caller that is stuck keeps       *)
(* nobody else's connection open.                                          *)
StoppedPoolDrains ==
  <>[](status = "stop") => <>[](open \subseteq {conn[p] : p \in Calling})

(* Every call of Do returns, unless its own dial or its own call of the    *)
(* user never does: whatever becomes of the others, and however many of    *)
(* them hold a connection for ever.  A full pool ends a wait with          *)
(* ErrOverMax.                                                             *)
DoReturns ==
  \A p \in Callers : []<>(pc[p] = "out") \/ <>[](p \in Dialling \union Calling)

=============================================================================

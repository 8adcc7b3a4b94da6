-------------------------- MODULE DistributedLock --------------------------
(***************************************************************************)
(* The redis lock of infra/dlm (distributed_lock.go), for one key.         *)
(*                                                                         *)
(* A client is one DLMImpl, with a value of its own (BeginRequest) and one *)
(* context at a time (SetContext).  Every attempt to take the lock that    *)
(* gets an answer from redis starts a watchdog goroutine, which renews the *)
(* key three times per expiration until its context is cancelled.  Only    *)
(* the last watchdog can be cancelled by Unlock.                           *)
(*                                                                         *)
(* Time passes in units of a third of the expiration.  Redis is external:  *)
(* SET NX, EXPIRE and the script of Unlock are atomic.  A watchdog that is *)
(* running reaches redis once in each unit of time, but for MaxMissed      *)
(* renewals in a row that may fail.                                        *)
(***************************************************************************)
EXTENDS Integers

CONSTANTS Clients,
          Free,        \* the key is not set
          MaxMissed,   \* renewals in a row that may fail
          MaxErrors    \* bound: calls of TryLock and Unlock that end with an error

(* watchdog ticks every expiration / 3.                                    *)
Periods == 3

ASSUME FreeAssumption == Free \notin Clients
ASSUME MaxMissedAssumption == MaxMissed \in Nat /\ MaxMissed + 1 < Periods
ASSUME MaxErrorsAssumption == MaxErrors \in Nat

VARIABLES
  holder,    \* the value of the key in redis: the client it belongs to
  ttl,       \* its remaining time to live
  pc,        \* "out", waiting in Lock or SpinLock, in the critical section, dead
  dog,       \* the watchdog that dlm.cancelFunc cancels is running
  leaked,    \* watchdogs that nothing but the context can cancel are running
  due,       \* the client's watchdogs have to renew in this unit of time
  missed,    \* renewals in a row that have failed
  ctxDone,   \* the client's context has been cancelled or has timed out
  errors     \* number of calls that ended with an error of redis

dogVars == <<dog, leaked, due, missed>>
vars == <<holder, ttl, pc, dogVars, ctxDone, errors>>

Running(c) == dog[c] \/ leaked[c]

Init ==
  /\ holder = Free
  /\ ttl = 0
  /\ pc = [c \in Clients |-> "out"]
  /\ dog = [c \in Clients |-> FALSE]
  /\ leaked = [c \in Clients |-> FALSE]
  /\ due = [c \in Clients |-> FALSE]
  /\ missed = [c \in Clients |-> 0]
  /\ ctxDone = [c \in Clients |-> FALSE]
  /\ errors = 0

-----------------------------------------------------------------------------
(* TryLock *)

(* SET key value NX EX expiration *)
SetNX(c) ==
  /\ holder = Free
  /\ holder' = c
  /\ ttl' = Periods

(* A watchdog starts whether or not the lock was taken; cancelFunc of the  *)
(* one before is overwritten.                                              *)
StartWatchdog(c) ==
  /\ leaked' = [leaked EXCEPT ![c] = @ \/ dog[c]]
  /\ dog' = [dog EXCEPT ![c] = TRUE]
  /\ UNCHANGED <<due, missed>>

(* The first attempt, of Lock, TryLock or SpinLock, and the next ones of   *)
(* Lock and SpinLock.                                                      *)
TryLockWins(c) ==
  /\ pc[c] \in {"out", "wait"}
  /\ ~ctxDone[c]
  /\ SetNX(c)
  /\ StartWatchdog(c)
  /\ pc' = [pc EXCEPT ![c] = "cs"]
  /\ UNCHANGED <<ctxDone, errors>>

(* Lock and SpinLock try again; TryLock, and SpinLock at its limit, return.*)
TryLockLoses(c) ==
  /\ pc[c] \in {"out", "wait"}
  /\ ~ctxDone[c]
  /\ holder # Free
  /\ StartWatchdog(c)
  /\ \E next \in {"out", "wait"} : pc' = [pc EXCEPT ![c] = next]
  /\ UNCHANGED <<holder, ttl, ctxDone, errors>>

(* The lock is not reentrant: its holder loses too.                        *)
TryLockAgain(c) ==
  /\ pc[c] = "cs"
  /\ ~ctxDone[c]
  /\ holder # Free
  /\ StartWatchdog(c)
  /\ UNCHANGED <<holder, ttl, pc, ctxDone, errors>>

(* SET fails, or its answer is lost: no watchdog, the caller gets an error.*)
TryLockErrs(c) ==
  /\ pc[c] \in {"out", "wait"}
  /\ errors < MaxErrors
  /\ errors' = errors + 1
  /\ pc' = [pc EXCEPT ![c] = "out"]
  /\ SetNX(c) \/ UNCHANGED <<holder, ttl>>
  /\ UNCHANGED <<dogVars, ctxDone>>

(* Lock returns when its context is done.                                  *)
LockTimesOut(c) ==
  /\ pc[c] = "wait"
  /\ ctxDone[c]
  /\ pc' = [pc EXCEPT ![c] = "out"]
  /\ UNCHANGED <<holder, ttl, dogVars, ctxDone, errors>>

-----------------------------------------------------------------------------
(* Mutation: the script deletes the key whatever its value.                *)
UnlockUnchecked(c) ==
  /\ pc[c] = "cs"
  /\ holder' = Free
  /\ ttl' = 0
  /\ dog' = [dog EXCEPT ![c] = FALSE]
  /\ due' = [due EXCEPT ![c] = @ /\ leaked[c]]
  /\ pc' = [pc EXCEPT ![c] = "out"]
  /\ UNCHANGED <<leaked, missed, ctxDone, errors>>

(* Unlock: delete the key if it has the client's value, and only then      *)
(* cancel the watchdog.                                                    *)
Unlock(c) ==
  /\ pc[c] = "cs"
  /\ IF holder = c
     THEN /\ holder' = Free
          /\ ttl' = 0
          /\ dog' = [dog EXCEPT ![c] = FALSE]
          /\ due' = [due EXCEPT ![c] = @ /\ leaked[c]]
          /\ missed' = [missed EXCEPT ![c] = IF leaked[c] THEN @ ELSE 0]
     ELSE UNCHANGED <<holder, ttl, dog, due, missed>>
  /\ pc' = [pc EXCEPT ![c] = "out"]
  /\ UNCHANGED <<leaked, ctxDone, errors>>

(* The script fails, or its answer is lost: the watchdog goes on.          *)
UnlockErrs(c) ==
  /\ pc[c] = "cs"
  /\ errors < MaxErrors
  /\ errors' = errors + 1
  /\ pc' = [pc EXCEPT ![c] = "out"]
  /\ \/ holder = c /\ holder' = Free /\ ttl' = 0
     \/ UNCHANGED <<holder, ttl>>
  /\ UNCHANGED <<dogVars, ctxDone>>

-----------------------------------------------------------------------------
(* The context of a client ends: so do all its watchdogs.                  *)
ContextEnds(c) ==
  /\ pc[c] # "dead"
  /\ ~ctxDone[c]
  /\ ctxDone' = [ctxDone EXCEPT ![c] = TRUE]
  /\ dog' = [dog EXCEPT ![c] = FALSE]
  /\ leaked' = [leaked EXCEPT ![c] = FALSE]
  /\ due' = [due EXCEPT ![c] = FALSE]
  /\ missed' = [missed EXCEPT ![c] = 0]
  /\ UNCHANGED <<holder, ttl, pc, errors>>

(* BeginRequest or SetContext: a new context.                              *)
NewContext(c) ==
  /\ pc[c] = "out"
  /\ ctxDone[c]
  /\ ctxDone' = [ctxDone EXCEPT ![c] = FALSE]
  /\ UNCHANGED <<holder, ttl, pc, dogVars, errors>>

Crash(c) ==
  /\ pc[c] # "dead"
  /\ pc' = [pc EXCEPT ![c] = "dead"]
  /\ dog' = [dog EXCEPT ![c] = FALSE]
  /\ leaked' = [leaked EXCEPT ![c] = FALSE]
  /\ due' = [due EXCEPT ![c] = FALSE]
  /\ missed' = [missed EXCEPT ![c] = 0]
  /\ UNCHANGED <<holder, ttl, ctxDone, errors>>

-----------------------------------------------------------------------------
(* watchdog: EXPIRE key expiration, whoever the key belongs to.            *)
Renew(c) ==
  /\ due[c]
  /\ ttl' = IF holder = Free THEN 0 ELSE Periods
  /\ due' = [due EXCEPT ![c] = FALSE]
  /\ missed' = [missed EXCEPT ![c] = 0]
  /\ UNCHANGED <<holder, pc, dog, leaked, ctxDone, errors>>

(* Its error is ignored.                                                   *)
RenewFails(c) ==
  /\ due[c]
  /\ missed[c] < MaxMissed
  /\ due' = [due EXCEPT ![c] = FALSE]
  /\ missed' = [missed EXCEPT ![c] = @ + 1]
  /\ UNCHANGED <<holder, ttl, pc, dog, leaked, ctxDone, errors>>

(* A unit of time passes; redis drops a key whose time to live is over.    *)
Tick ==
  /\ \A c \in Clients : ~due[c]
  /\ ttl' = IF ttl > 0 THEN ttl - 1 ELSE 0
  /\ holder' = IF ttl' = 0 THEN Free ELSE holder
  /\ due' = [c \in Clients |-> Running(c)]
  /\ UNCHANGED <<pc, dog, leaked, missed, ctxDone, errors>>

Watchdog(c) == Renew(c) \/ RenewFails(c)

Next == \/ Tick
        \/ \E c \in Clients :
             \/ TryLockWins(c) \/ TryLockLoses(c) \/ TryLockAgain(c)
             \/ TryLockErrs(c) \/ LockTimesOut(c) \/ Unlock(c) \/ UnlockErrs(c)
             \/ ContextEnds(c) \/ NewContext(c) \/ Crash(c)
             \/ Watchdog(c)

Spec == Init /\ [][Next]_vars

-----------------------------------------------------------------------------
(* Properties *)

TypeOK ==
  /\ holder \in Clients \cup {Free}
  /\ ttl \in 0..Periods
  /\ holder = Free <=> ttl = 0
  /\ pc \in [Clients -> {"out", "wait", "cs", "dead"}]
  /\ dog \in [Clients -> BOOLEAN]
  /\ leaked \in [Clients -> BOOLEAN]
  /\ due \in [Clients -> BOOLEAN]
  /\ \A c \in Clients : due[c] => Running(c)
  /\ missed \in [Clients -> 0..MaxMissed]
  /\ ctxDone \in [Clients -> BOOLEAN]
  /\ errors \in 0..MaxErrors

(* A client in its critical section whose context is not done owns the key *)
(* for as long as it stays there, however long that is.                    *)
Owns(c) == pc[c] = "cs" /\ ~ctxDone[c]

(* Two clients are never in their critical sections together, unless the   *)
(* context of one of them is done: the watchdog keeps the key alive beyond *)
(* its expiration, an Unlock that comes too late does not delete the key   *)
(* of the next holder.                                                     *)
MutualExclusion == \A c, d \in Clients : Owns(c) /\ Owns(d) => c = d

=============================================================================

--------------------------- MODULE CircuitBreaker ---------------------------
(***************************************************************************)
(* One circuit breaker of infra/rate/sentinel/core/circuitbreaker          *)
(* (circuit_breaker.go), shared by the goroutines whose entries pass       *)
(* through it: TryPass on entry, the hook that TryPass leaves for a        *)
(* blocked entry, OnRequestComplete on exit.                               *)
(*                                                                         *)
(* The three strategies (slow ratio, error ratio, error count) share their *)
(* control, line by line; what counts against a request and what opens the *)
(* breaker is theirs.  Each atomic access to the state, the probe counter, *)
(* the time stamp and the statistics is a step.                            *)
(***************************************************************************)
EXTENDS Integers, FiniteSets

CONSTANTS Requests,       \* goroutines that enter the resource, one entry at a time
          Rules,          \* the rules a breaker may be built from
          RetryTimeout,   \* rule.RetryTimeoutMs, in units of the clock
          MaxCount,       \* bound: requests counted before the window slides
          MaxProbe        \* bound: a larger curProbeNumber counts as this one

ASSUME RulesAssumption ==
  \A r \in Rules : /\ r.strategy \in {"SlowRequestRatio", "ErrorRatio", "ErrorCount"}
                   /\ r.threshold \in Nat /\ r.scale \in Nat \ {0}
                   /\ r.minRequestAmount \in Nat
                   /\ r.probeNum \in Nat
ASSUME RetryTimeoutAssumption == RetryTimeout \in Nat \ {0}
ASSUME MaxProbeAssumption == MaxProbe \in Nat /\ \A r \in Rules : r.probeNum <= MaxProbe
ASSUME MaxCountAssumption == MaxCount \in Nat \ {0}

VARIABLES
  rule,       \* the rule of this breaker
  state,      \* Closed, HalfOpen or Open
  wait,       \* time left until nextRetryTimestampMs
  curProbe,   \* curProbeNumber
  stat,       \* the counters of the current window: bad and total
  pc,         \* where each request is
  hooked,     \* the request's entry carries the hook of fromOpenToHalfOpen
  bad,        \* the request was slow or had an error
  tripped,    \* the sum the request has computed exceeds the threshold
  probing,    \* history: requests let in by the current half-open period, not out yet
  openFor,    \* history: time since the breaker last became Open
  rolledBack  \* history: it became Open by the hook

localVars   == <<pc, hooked, bad, tripped>>
historyVars == <<probing, openFor, rolledBack>>
vars == <<rule, state, wait, curProbe, stat, localVars, historyVars>>

Pcs == {"out", "probe", "checks", "run", "sum", "status", "reread", "trip", "toOpen",
        "zero", "stamp", "addProbe", "probed", "toClosed", "zeroClosed", "reset"}

Goto(r, label) == pc' = [pc EXCEPT ![r] = label]

(* The request leaves, and is no probe any more.                           *)
Leave(r) == Goto(r, "out") /\ probing' = probing \ {r}

(* cas, with what the history variables keep of it.                        *)
Cas(from, to) == state = from /\ state' = to

BecomeOpen(byHook) == /\ probing' = {}
                      /\ openFor' = 0
                      /\ rolledBack' = byHook

(* A counter as NewEmptyBucket and reset leave it.                         *)
NoCounts == [bad |-> 0, total |-> 0]

(* currentCounter: the window that counts, or one that has just begun.     *)
currentCounter == {stat, NoCounts}

(* What counts against a rule, a slow request or one with an error ...     *)
slowRtCounts(rt, err) == rt = "slow"
errorCounts(rt, err) == err
Counts(rt, err) ==
  IF rule.strategy = "SlowRequestRatio" THEN slowRtCounts(rt, err) ELSE errorCounts(rt, err)

(* ... and the comparisons of the three OnRequestComplete.  A ratio of no  *)
(* requests at all is not a number and exceeds nothing.                    *)
Ratio(s) == s.total > 0 /\ s.bad * rule.scale >= rule.threshold * s.total

slowRtTripped(s) == s.total >= rule.minRequestAmount /\ Ratio(s)
errorRatioTripped(s) == s.total >= rule.minRequestAmount /\ Ratio(s)
errorCountTripped(s) == s.total >= rule.minRequestAmount /\ s.bad >= rule.threshold

Tripped(s) ==
  \/ rule.strategy = "SlowRequestRatio" /\ slowRtTripped(s)
  \/ rule.strategy = "ErrorRatio" /\ errorRatioTripped(s)
  \/ rule.strategy = "ErrorCount" /\ errorCountTripped(s)

Init ==
  /\ rule \in Rules
  /\ state = "Closed"
  /\ wait = 0
  /\ curProbe = 0
  /\ stat = NoCounts
  /\ pc = [r \in Requests |-> "out"]
  /\ hooked = [r \in Requests |-> FALSE]
  /\ bad = [r \in Requests |-> FALSE]
  /\ tripped = [r \in Requests |-> FALSE]
  /\ probing = {}
  /\ openFor = 0
  /\ rolledBack = FALSE

Tick ==
  /\ wait' = IF wait > 0 THEN wait - 1 ELSE 0
  /\ openFor' = IF openFor < RetryTimeout THEN openFor + 1 ELSE openFor
  /\ UNCHANGED <<rule, state, curProbe, stat, localVars, probing, rolledBack>>

-----------------------------------------------------------------------------
(* TryPass *)

PassClosed(r) ==
  /\ pc[r] = "out"
  /\ state = "Closed"
  /\ Goto(r, "checks")
  /\ UNCHANGED <<rule, state, wait, curProbe, stat, hooked, bad, tripped, historyVars>>

PassHalfOpen(r) ==
  /\ pc[r] = "out"
  /\ state = "HalfOpen"
  /\ rule.probeNum > 0
  /\ Goto(r, "checks")
  /\ probing' = probing \cup {r}
  /\ UNCHANGED <<rule, state, wait, curProbe, stat, hooked, bad, tripped, openFor, rolledBack>>

(* Mutation: the time stamp is not looked at.                              *)
SeeOpen(r) ==
  /\ pc[r] = "out"
  /\ state = "Open"
  /\ Goto(r, "probe")
  /\ UNCHANGED <<rule, state, wait, curProbe, stat, hooked, bad, tripped, historyVars>>

(* Open, and retryTimeoutArrived().                                        *)
SeeRetryTimeout(r) ==
  /\ pc[r] = "out"
  /\ state = "Open"
  /\ wait = 0
  /\ Goto(r, "probe")
  /\ UNCHANGED <<rule, state, wait, curProbe, stat, hooked, bad, tripped, historyVars>>

(* Mutation: a test and a store in place of the cas.                       *)
openToHalfOpenUnchecked(r) ==
  /\ pc[r] = "probe"
  /\ state' = "HalfOpen"
  /\ hooked' = [hooked EXCEPT ![r] = TRUE]
  /\ probing' = probing \cup {r}
  /\ Goto(r, "checks")
  /\ UNCHANGED <<rule, wait, curProbe, stat, bad, tripped, openFor, rolledBack>>

(* fromOpenToHalfOpen: the request that wins the cas is let in and its     *)
(* entry gets the hook; the others are blocked.                            *)
fromOpenToHalfOpen(r) ==
  /\ pc[r] = "probe"
  /\ IF state = "Open"
     THEN /\ Cas("Open", "HalfOpen")
          /\ hooked' = [hooked EXCEPT ![r] = TRUE]
          /\ probing' = {r}
          /\ Goto(r, "checks")
     ELSE Leave(r) /\ UNCHANGED <<state, hooked>>
  /\ UNCHANGED <<rule, wait, curProbe, stat, bad, tripped, openFor, rolledBack>>

(* The breakers and slots that come later let the entry in ...             *)
Admit(r) ==
  /\ pc[r] = "checks"
  /\ Goto(r, "run")
  /\ UNCHANGED <<rule, state, wait, curProbe, stat, hooked, bad, tripped, historyVars>>

(* Mutation: no hook, a blocked probe leaves the breaker half-open.        *)
BlockedWithoutHook(r) ==
  /\ pc[r] = "checks"
  /\ Goto(r, "out")
  /\ hooked' = [hooked EXCEPT ![r] = FALSE]
  /\ probing' = probing \ {r}
  /\ UNCHANGED <<rule, state, wait, curProbe, stat, bad, tripped, openFor, rolledBack>>

(* ... or block it.  Exit then runs the hook, which takes the breaker back *)
(* to Open but sets neither the time stamp nor the probe counter.          *)
Blocked(r) ==
  /\ pc[r] = "checks"
  /\ Goto(r, "out")
  /\ hooked' = [hooked EXCEPT ![r] = FALSE]
  /\ IF hooked[r] /\ state = "HalfOpen"
     THEN Cas("HalfOpen", "Open") /\ BecomeOpen(TRUE)
     ELSE probing' = probing \ {r} /\ UNCHANGED <<state, openFor, rolledBack>>
  /\ UNCHANGED <<rule, wait, curProbe, stat, bad, tripped>>

-----------------------------------------------------------------------------
(* OnRequestComplete *)

(* The request ends; it is counted in the current window, or in a new one. *)
Complete(r) ==
  /\ pc[r] = "run"
  /\ \E rt \in {"fast", "slow"}, err \in BOOLEAN, s \in currentCounter :
       /\ s.total < MaxCount
       /\ bad' = [bad EXCEPT ![r] = Counts(rt, err)]
       /\ stat' = [bad |-> s.bad + (IF Counts(rt, err) THEN 1 ELSE 0), total |-> s.total + 1]
  /\ hooked' = [hooked EXCEPT ![r] = FALSE]
  /\ Goto(r, "sum")
  /\ UNCHANGED <<rule, state, wait, curProbe, tripped, historyVars>>

Sum(r) ==
  /\ pc[r] = "sum"
  /\ tripped' = [tripped EXCEPT ![r] = Tripped(stat)]
  /\ Goto(r, "status")
  /\ UNCHANGED <<rule, state, wait, curProbe, stat, hooked, bad, historyVars>>

(* The branch to take; bad and tripped are not used after it.              *)
ReadStatus(r) ==
  /\ pc[r] = "status"
  /\ \/ state = "Open" /\ Leave(r)
     \/ state = "HalfOpen" /\ bad[r] /\ Goto(r, "toOpen") /\ UNCHANGED probing
     \/ state = "HalfOpen" /\ ~bad[r] /\ Goto(r, "addProbe") /\ UNCHANGED probing
     \/ state = "Closed" /\ tripped[r] /\ Goto(r, "reread") /\ UNCHANGED probing
     \/ state = "Closed" /\ ~tripped[r] /\ Leave(r)
  /\ bad' = [bad EXCEPT ![r] = FALSE]
  /\ tripped' = [tripped EXCEPT ![r] = FALSE]
  /\ UNCHANGED <<rule, state, wait, curProbe, stat, hooked, openFor, rolledBack>>

ReadStatusAgain(r) ==
  /\ pc[r] = "reread"
  /\ \/ state = "Closed" /\ Goto(r, "trip") /\ UNCHANGED probing
     \/ state = "HalfOpen" /\ Goto(r, "toOpen") /\ UNCHANGED probing
     \/ state = "Open" /\ Leave(r)
  /\ UNCHANGED <<rule, state, wait, curProbe, stat, hooked, bad, tripped, openFor, rolledBack>>

(* fromClosedToOpen and fromHalfOpenToOpen: the cas comes first, the time  *)
(* stamp after it.                                                         *)
OpenFrom(r, from, next) ==
  /\ IF state = from
     THEN Cas(from, "Open") /\ Goto(r, next) /\ BecomeOpen(FALSE)
     ELSE Leave(r) /\ UNCHANGED <<state, openFor, rolledBack>>
  /\ UNCHANGED <<rule, wait, curProbe, stat, hooked, bad, tripped>>

fromClosedToOpen(r) == pc[r] = "trip" /\ OpenFrom(r, "Closed", "stamp")

fromHalfOpenToOpen(r) == pc[r] = "toOpen" /\ OpenFrom(r, "HalfOpen", "zero")

resetCurProbeNum(r) ==
  /\ pc[r] \in {"zero", "zeroClosed"}
  /\ curProbe' = 0
  /\ Goto(r, IF pc[r] = "zero" THEN "stamp" ELSE "reset")
  /\ UNCHANGED <<rule, state, wait, stat, hooked, bad, tripped, historyVars>>

updateNextRetryTimestamp(r) ==
  /\ pc[r] = "stamp"
  /\ wait' = RetryTimeout
  /\ Leave(r)
  /\ UNCHANGED <<rule, state, curProbe, stat, hooked, bad, tripped, openFor, rolledBack>>

(* A request that adds its probe after the hook has ended the period leaves *)
(* it in the counter, so the counter may exceed every ProbeNum.             *)
addCurProbeNum(r) ==
  /\ pc[r] = "addProbe"
  /\ curProbe' = IF curProbe < MaxProbe THEN curProbe + 1 ELSE curProbe
  /\ Goto(r, "probed")
  /\ UNCHANGED <<rule, state, wait, stat, hooked, bad, tripped, historyVars>>

EnoughProbes(r) ==
  /\ pc[r] = "probed"
  /\ IF rule.probeNum = 0 \/ curProbe >= rule.probeNum
     THEN Goto(r, "toClosed") /\ UNCHANGED probing
     ELSE Leave(r)
  /\ UNCHANGED <<rule, state, wait, curProbe, stat, hooked, bad, tripped, openFor, rolledBack>>

fromHalfOpenToClosed(r) ==
  /\ pc[r] = "toClosed"
  /\ IF state = "HalfOpen"
     THEN Cas("HalfOpen", "Closed") /\ Goto(r, "zeroClosed") /\ probing' = {}
     ELSE Goto(r, "reset") /\ UNCHANGED <<state, probing>>
  /\ UNCHANGED <<rule, wait, curProbe, stat, hooked, bad, tripped, openFor, rolledBack>>

(* The statistics are cleared also by a request that has lost the cas.     *)
resetMetric(r) ==
  /\ pc[r] = "reset"
  /\ stat' = NoCounts
  /\ Leave(r)
  /\ UNCHANGED <<rule, state, wait, curProbe, hooked, bad, tripped, openFor, rolledBack>>

-----------------------------------------------------------------------------
TryPass(r) == PassClosed(r) \/ PassHalfOpen(r) \/ SeeRetryTimeout(r)

(* What a request does once TryPass has begun.                             *)
Step(r) == \/ fromOpenToHalfOpen(r) \/ Admit(r) \/ Blocked(r)
           \/ Complete(r) \/ Sum(r) \/ ReadStatus(r) \/ ReadStatusAgain(r)
           \/ fromClosedToOpen(r) \/ fromHalfOpenToOpen(r)
           \/ resetCurProbeNum(r) \/ updateNextRetryTimestamp(r)
           \/ addCurProbeNum(r) \/ EnoughProbes(r)
           \/ fromHalfOpenToClosed(r) \/ resetMetric(r)

Next == Tick \/ \E r \in Requests : TryPass(r) \/ Step(r)

Spec == Init /\ [][Next]_vars

(* A goroutine that has entered goes on, and exits its entry.              *)
Fairness == \A r \in Requests : WF_vars(Step(r))

FairSpec == Spec /\ Fairness

-----------------------------------------------------------------------------
(* Properties *)

TypeOK ==
  /\ rule \in Rules
  /\ state \in {"Closed", "HalfOpen", "Open"}
  /\ wait \in 0..RetryTimeout
  /\ curProbe \in 0..MaxProbe
  /\ stat \in [bad : 0..MaxCount, total : 0..MaxCount]
  /\ stat.bad <= stat.total
  /\ pc \in [Requests -> Pcs]
  /\ hooked \in [Requests -> BOOLEAN]
  /\ bad \in [Requests -> BOOLEAN]
  /\ tripped \in [Requests -> BOOLEAN]
  /\ probing \subseteq {r \in Requests : pc[r] # "out"}
  /\ openFor \in 0..RetryTimeout
  /\ rolledBack \in BOOLEAN

(* Without ProbeNum, a half-open breaker has let in exactly one entry, and *)
(* that entry has not ended yet: nobody else gets through, and the breaker *)
(* is not left half-open with nobody to decide it, whichever completions   *)
(* of older requests interfere.                                            *)
OneProbe ==
  state = "HalfOpen" /\ rule.probeNum = 0 => Cardinality(probing) = 1

(* Requests that have made the breaker Open and not set the time stamp yet.*)
Stampers == {r \in Requests : pc[r] \in {"zero", "stamp"}}

(* Nobody finds that the retry timeout of an Open breaker has arrived      *)
(* before RetryTimeout has passed since it opened, but for two windows in  *)
(* which the time stamp is an old one: a goroutine that opened it is       *)
(* between its cas and its store, or the hook has taken it back to Open.   *)
NoEarlyProbe ==
  [][\A r \in Requests : pc[r] = "out" /\ pc'[r] = "probe" =>
       openFor >= RetryTimeout \/ rolledBack \/ Stampers # {}]_vars

(* A breaker is the three states of the drawing at circuit_breaker.go:28,  *)
(* however its steps interleave: no other arrow is ever taken, a half-open *)
(* period has the probes it has let in, and without ProbeNum its one probe *)
(* does not leave it undecided: it is decided with no help from requests   *)
(* that have yet to come.                                                  *)
States == INSTANCE BreakerStates WITH probeNum <- rule.probeNum, probes <- probing

ImplementsStates == States!FairSpec
=============================================================================

------------------------ MODULE CircuitBreakerProofs ------------------------
(***************************************************************************)
(* The circuit breaker for any number of requests, any set of rules and    *)
(* any retry timeout: its types, the single probe of a half-open period,   *)
(* and the retry timeout that no request jumps.                            *)
(***************************************************************************)
EXTENDS CircuitBreaker, FiniteSetTheorems, TLAPS

(* The assumptions in the form the steps use.                              *)
LEMMA ConstantTypes ==
  /\ RetryTimeout \in Nat /\ RetryTimeout > 0
  /\ MaxCount \in Nat /\ MaxCount > 0
  /\ MaxProbe \in Nat
  BY RetryTimeoutAssumption, MaxCountAssumption, MaxProbeAssumption

(* The step that opens the breaker, whoever takes it.                      *)
LEMMA OpenKeepsTypes ==
  ASSUME TypeOK, NEW r \in Requests, NEW next \in {"stamp", "zero"}, Goto(r, next),
         state' = "Open", BecomeOpen(FALSE),
         UNCHANGED <<rule, wait, curProbe, stat, hooked, bad, tripped>>
  PROVE  TypeOK'
<1>1. pc' \in [Requests -> Pcs]
  BY DEF TypeOK, Goto, Pcs
<1>2. openFor' \in 0..RetryTimeout
  BY ConstantTypes DEF BecomeOpen
<1>3. stat' \in [bad : 0..MaxCount, total : 0..MaxCount] /\ stat'.bad <= stat'.total
  BY DEF TypeOK
<1>4. /\ hooked' \in [Requests -> BOOLEAN] /\ bad' \in [Requests -> BOOLEAN]
      /\ tripped' \in [Requests -> BOOLEAN]
  BY DEF TypeOK
<1> QED
  BY <1>1, <1>2, <1>3, <1>4 DEF TypeOK, BecomeOpen

(* Every variable keeps its type, no window counts more bad requests than  *)
(* requests, and a request of the current half-open period has not left    *)
(* (TryPass, the hook, OnRequestComplete).                                 *)
THEOREM TypeCorrect == Spec => []TypeOK
<1>1. Init => TypeOK
  <2> SUFFICES ASSUME Init PROVE TypeOK
    OBVIOUS
  <2>1. stat \in [bad : 0..MaxCount, total : 0..MaxCount] /\ stat.bad <= stat.total
    BY ConstantTypes DEF Init, NoCounts
  <2>2. pc \in [Requests -> Pcs]
    BY DEF Init, Pcs
  <2>3. wait \in 0..RetryTimeout /\ curProbe \in 0..MaxProbe /\ openFor \in 0..RetryTimeout
    BY ConstantTypes DEF Init
  <2> QED
    BY <2>1, <2>2, <2>3 DEF Init, TypeOK
<1>2. TypeOK /\ [Next]_vars => TypeOK'
  <2> SUFFICES ASSUME TypeOK, [Next]_vars PROVE TypeOK'
    OBVIOUS
  <2> USE ConstantTypes DEF TypeOK, Pcs, Goto, Leave, Cas, BecomeOpen, localVars, historyVars
  <2>1. CASE Tick
    BY <2>1 DEF Tick
  <2>2. ASSUME NEW r \in Requests, TryPass(r) PROVE TypeOK'
    BY <2>2 DEF TryPass, PassClosed, PassHalfOpen, SeeRetryTimeout
  <2>3. ASSUME NEW r \in Requests, fromOpenToHalfOpen(r) PROVE TypeOK'
    <3>1. CASE state = "Open"
      <4>1. pc' \in [Requests -> Pcs] /\ pc'[r] = "checks"
        BY <2>3, <3>1 DEF fromOpenToHalfOpen
      <4>2. hooked' \in [Requests -> BOOLEAN]
        BY <2>3, <3>1 DEF fromOpenToHalfOpen
      <4>3. probing' \subseteq {q \in Requests : pc'[q] # "out"}
        BY <2>3, <3>1, <4>1 DEF fromOpenToHalfOpen
      <4> QED
        BY <2>3, <3>1, <4>1, <4>2, <4>3 DEF fromOpenToHalfOpen
    <3>2. CASE state # "Open"
      BY <2>3, <3>2 DEF fromOpenToHalfOpen
    <3> QED
      BY <3>1, <3>2
  <2>4. ASSUME NEW r \in Requests, Admit(r) PROVE TypeOK'
    BY <2>4 DEF Admit
  <2>5. ASSUME NEW r \in Requests, Blocked(r) PROVE TypeOK'
    <3>1. CASE hooked[r] /\ state = "HalfOpen"
      BY <2>5, <3>1 DEF Blocked
    <3>2. CASE ~(hooked[r] /\ state = "HalfOpen")
      BY <2>5, <3>2 DEF Blocked
    <3> QED
      BY <3>1, <3>2
  <2>6. ASSUME NEW r \in Requests, Complete(r) PROVE TypeOK'
    <3>0. PICK rt \in {"fast", "slow"}, err \in BOOLEAN, s \in currentCounter :
            /\ s.total < MaxCount
            /\ bad' = [bad EXCEPT ![r] = Counts(rt, err)]
            /\ stat' = [bad |-> s.bad + (IF Counts(rt, err) THEN 1 ELSE 0), total |-> s.total + 1]
      BY <2>6 DEF Complete
    <3>b. Counts(rt, err) \in BOOLEAN
      BY DEF Counts, slowRtCounts, errorCounts
    <3> DEFINE b == Counts(rt, err)
    <3>1. /\ s.total < MaxCount
          /\ bad' = [bad EXCEPT ![r] = b]
          /\ stat' = [bad |-> s.bad + (IF b THEN 1 ELSE 0), total |-> s.total + 1]
          /\ b \in BOOLEAN
      BY <3>0, <3>b
    <3>s. s \in {stat, [bad |-> 0, total |-> 0]}
      BY DEF currentCounter, NoCounts
    <3> HIDE DEF b
    <3>2. s.bad \in 0..MaxCount /\ s.total \in 0..MaxCount /\ s.bad <= s.total
      BY <3>s
    <3>3. stat' \in [bad : 0..MaxCount, total : 0..MaxCount] /\ stat'.bad <= stat'.total
      BY <3>1, <3>2
    <3>4. bad' \in [Requests -> BOOLEAN]
      BY <3>1
    <3> QED
      BY <2>6, <3>3, <3>4 DEF Complete
  <2>7. ASSUME NEW r \in Requests, Sum(r) PROVE TypeOK'
    <3>1. Tripped(stat) \in BOOLEAN
      BY DEF Tripped, slowRtTripped, errorRatioTripped, errorCountTripped, Ratio
    <3>2. tripped' = [tripped EXCEPT ![r] = Tripped(stat)]
      BY <2>7 DEF Sum
    <3>3. tripped' \in [Requests -> BOOLEAN]
      BY <3>1, <3>2, Zenon
    <3> QED
      BY <2>7, <3>3 DEF Sum
  <2>8. ASSUME NEW r \in Requests, ReadStatus(r) PROVE TypeOK'
    BY <2>8 DEF ReadStatus
  <2>9. ASSUME NEW r \in Requests, ReadStatusAgain(r) PROVE TypeOK'
    BY <2>9 DEF ReadStatusAgain
  <2>10. ASSUME NEW r \in Requests, fromClosedToOpen(r) PROVE TypeOK'
    <3>1. CASE state = "Closed"
      BY <2>10, <3>1, OpenKeepsTypes DEF fromClosedToOpen, OpenFrom
    <3>2. CASE state # "Closed"
      BY <2>10, <3>2 DEF fromClosedToOpen, OpenFrom
    <3> QED
      BY <3>1, <3>2
  <2>11. ASSUME NEW r \in Requests, fromHalfOpenToOpen(r) PROVE TypeOK'
    <3>1. CASE state = "HalfOpen"
      BY <2>11, <3>1, OpenKeepsTypes DEF fromHalfOpenToOpen, OpenFrom
    <3>2. CASE state # "HalfOpen"
      BY <2>11, <3>2 DEF fromHalfOpenToOpen, OpenFrom
    <3> QED
      BY <3>1, <3>2
  <2>12. ASSUME NEW r \in Requests, resetCurProbeNum(r) PROVE TypeOK'
    BY <2>12 DEF resetCurProbeNum
  <2>13. ASSUME NEW r \in Requests, updateNextRetryTimestamp(r) PROVE TypeOK'
    BY <2>13 DEF updateNextRetryTimestamp
  <2>14. ASSUME NEW r \in Requests, addCurProbeNum(r) PROVE TypeOK'
    BY <2>14 DEF addCurProbeNum
  <2>15. ASSUME NEW r \in Requests, EnoughProbes(r) PROVE TypeOK'
    BY <2>15 DEF EnoughProbes
  <2>16. ASSUME NEW r \in Requests, fromHalfOpenToClosed(r) PROVE TypeOK'
    BY <2>16 DEF fromHalfOpenToClosed
  <2>17. ASSUME NEW r \in Requests, resetMetric(r) PROVE TypeOK'
    BY <2>17 DEF resetMetric, NoCounts
  <2>18. CASE UNCHANGED vars
    BY <2>18 DEF vars
  <2> QED
    BY <2>1, <2>2, <2>3, <2>4, <2>5, <2>6, <2>7, <2>8, <2>9, <2>10, <2>11, <2>12,
       <2>13, <2>14, <2>15, <2>16, <2>17, <2>18 DEF Next, Step
<1> QED
  BY <1>1, <1>2, PTL DEF Spec

-----------------------------------------------------------------------------
(* A breaker that nobody is about to stamp, and that no hook has taken     *)
(* back to Open, stays Open for RetryTimeout: what is left of the wait and *)
(* the time gone since it opened add up to it.                             *)
WaitIsRest ==
  state = "Open" /\ ~rolledBack /\ Stampers = {} => openFor + wait >= RetryTimeout

(* A request that is not a stamper before its step leaves the others to it.*)
LEMMA StampersStay ==
  ASSUME TypeOK, NEW r \in Requests, pc[r] \notin {"zero", "stamp"},
         NEW label, Goto(r, label)
  PROVE  Stampers \subseteq Stampers'
  BY DEF TypeOK, Goto, Stampers

(* A step that neither opens the breaker nor touches the clock keeps it.   *)
LEMMA WaitKept ==
  ASSUME TypeOK, WaitIsRest, Stampers \subseteq Stampers',
         state' = "Open" => state = "Open", UNCHANGED <<wait, openFor, rolledBack>>
  PROVE  WaitIsRest'
<1> SUFFICES ASSUME state' = "Open", ~rolledBack', Stampers' = {}
             PROVE  openFor' + wait' >= RetryTimeout
  BY DEF WaitIsRest
<1>1. state = "Open" /\ ~rolledBack /\ Stampers = {}
  OBVIOUS
<1> QED
  BY <1>1 DEF WaitIsRest

(* The same for a step that moves one request, which is no stamper.        *)
LEMMA StepKeepsWait ==
  ASSUME TypeOK, WaitIsRest, NEW r \in Requests, pc[r] \notin {"zero", "stamp"},
         NEW label, Goto(r, label),
         state' = "Open" => state = "Open", UNCHANGED <<wait, openFor, rolledBack>>
  PROVE  WaitIsRest'
  BY StampersStay, WaitKept

(* Every step of the breaker, of an entry and of the clock keeps it.       *)
LEMMA WaitIsRestStep == TypeOK /\ WaitIsRest /\ [Next]_vars => WaitIsRest'
<1> SUFFICES ASSUME TypeOK, WaitIsRest, [Next]_vars PROVE WaitIsRest'
  OBVIOUS
<1>1. CASE Tick
  <2>1. Stampers' = Stampers
    BY <1>1 DEF Tick, Stampers, localVars
  <2>2. wait \in Nat /\ openFor \in 0..RetryTimeout
    BY ConstantTypes DEF TypeOK
  <2> QED
    BY <1>1, <2>1, <2>2, ConstantTypes DEF Tick, WaitIsRest
<1>2. ASSUME NEW r \in Requests, TryPass(r) PROVE WaitIsRest'
  <2>1. pc[r] \notin {"zero", "stamp"} /\ UNCHANGED <<state, wait, openFor, rolledBack>>
    BY <1>2 DEF TryPass, PassClosed, PassHalfOpen, SeeRetryTimeout, historyVars
  <2>2. Goto(r, "checks") \/ Goto(r, "probe")
    BY <1>2 DEF TryPass, PassClosed, PassHalfOpen, SeeRetryTimeout
  <2> QED
    BY <2>1, <2>2, StepKeepsWait
<1>3. ASSUME NEW r \in Requests, fromOpenToHalfOpen(r) PROVE WaitIsRest'
  <2>1. pc[r] = "probe" /\ UNCHANGED <<wait, openFor, rolledBack>>
    BY <1>3 DEF fromOpenToHalfOpen
  <2>2. state' = "Open" => state = "Open"
    BY <1>3 DEF fromOpenToHalfOpen, Cas
  <2>3. Goto(r, "checks") \/ Goto(r, "out")
    BY <1>3 DEF fromOpenToHalfOpen, Leave
  <2> QED
    BY <2>1, <2>2, <2>3, StepKeepsWait
<1>4. ASSUME NEW r \in Requests, Admit(r) \/ Complete(r) \/ Sum(r) \/ addCurProbeNum(r)
      PROVE  WaitIsRest'
  <2>1. pc[r] \notin {"zero", "stamp"} /\ UNCHANGED <<state, wait, openFor, rolledBack>>
    BY <1>4 DEF Admit, Complete, Sum, addCurProbeNum, historyVars
  <2>2. PICK label \in Pcs : Goto(r, label)
    BY <1>4 DEF Admit, Complete, Sum, addCurProbeNum, Pcs
  <2> QED
    BY <2>1, <2>2, StepKeepsWait
<1>5. ASSUME NEW r \in Requests, Blocked(r) PROVE WaitIsRest'
  <2>1. CASE hooked[r] /\ state = "HalfOpen"
    BY <1>5, <2>1 DEF Blocked, BecomeOpen, WaitIsRest
  <2>2. CASE ~(hooked[r] /\ state = "HalfOpen")
    <3>1. /\ pc[r] = "checks" /\ Goto(r, "out")
          /\ UNCHANGED <<state, wait, openFor, rolledBack>>
      BY <1>5, <2>2 DEF Blocked
    <3> QED
      BY <3>1, StepKeepsWait
  <2> QED
    BY <2>1, <2>2
<1>6. ASSUME NEW r \in Requests,
             ReadStatus(r) \/ ReadStatusAgain(r) \/ EnoughProbes(r) \/ resetMetric(r)
      PROVE  WaitIsRest'
  <2>1. pc[r] \notin {"zero", "stamp"} /\ UNCHANGED <<state, wait, openFor, rolledBack>>
    BY <1>6 DEF ReadStatus, ReadStatusAgain, EnoughProbes, resetMetric
  <2>2. \E label \in Pcs : Goto(r, label)
    BY <1>6 DEF ReadStatus, ReadStatusAgain, EnoughProbes, resetMetric, Leave, Pcs
  <2> QED
    BY <2>1, <2>2, StepKeepsWait
<1>7. ASSUME NEW r \in Requests, fromClosedToOpen(r) \/ fromHalfOpenToOpen(r)
      PROVE  WaitIsRest'
  <2> DEFINE from == IF pc[r] = "trip" THEN "Closed" ELSE "HalfOpen"
  <2> DEFINE next == IF pc[r] = "trip" THEN "stamp" ELSE "zero"
  <2>1. pc[r] \in {"trip", "toOpen"} /\ OpenFrom(r, from, next)
    BY <1>7 DEF fromClosedToOpen, fromHalfOpenToOpen
  <2>2. CASE state = from
    <3>1. pc' = [pc EXCEPT ![r] = next] /\ next \in {"zero", "stamp"}
      BY <2>1, <2>2 DEF OpenFrom, Goto
    <3>2. r \in Stampers'
      BY <3>1 DEF Stampers, TypeOK
    <3> QED
      BY <3>2 DEF WaitIsRest
  <2>3. CASE state # from
    <3>1. Goto(r, "out") /\ UNCHANGED <<state, wait, openFor, rolledBack>>
      BY <2>1, <2>3 DEF OpenFrom, Leave
    <3> QED
      BY <2>1, <3>1, StepKeepsWait
  <2> QED
    BY <2>2, <2>3
<1>8. ASSUME NEW r \in Requests, resetCurProbeNum(r) PROVE WaitIsRest'
  <2>1. Stampers \subseteq Stampers' /\ UNCHANGED <<state, wait, openFor, rolledBack>>
    BY <1>8 DEF resetCurProbeNum, Goto, Stampers, TypeOK, historyVars
  <2> QED
    BY <2>1, WaitKept
<1>9. ASSUME NEW r \in Requests, updateNextRetryTimestamp(r) PROVE WaitIsRest'
  <2>1. wait' = RetryTimeout /\ openFor' = openFor
    BY <1>9 DEF updateNextRetryTimestamp
  <2>2. openFor + RetryTimeout >= RetryTimeout
    BY ConstantTypes DEF TypeOK
  <2> QED
    BY <2>1, <2>2 DEF WaitIsRest
<1>10. ASSUME NEW r \in Requests, fromHalfOpenToClosed(r) PROVE WaitIsRest'
  <2>1. pc[r] = "toClosed" /\ UNCHANGED <<wait, openFor, rolledBack>>
    BY <1>10 DEF fromHalfOpenToClosed
  <2>2. state' = "Open" => state = "Open"
    BY <1>10 DEF fromHalfOpenToClosed, Cas
  <2>3. Goto(r, "zeroClosed") \/ Goto(r, "reset")
    BY <1>10 DEF fromHalfOpenToClosed
  <2> QED
    BY <2>1, <2>2, <2>3, StepKeepsWait
<1>11. CASE UNCHANGED vars
  <2>1. Stampers' = Stampers /\ UNCHANGED <<state, wait, openFor, rolledBack>>
    BY <1>11 DEF vars, Stampers, localVars, historyVars
  <2> QED
    BY <2>1, WaitKept
<1> QED
  BY <1>1, <1>2, <1>3, <1>4, <1>5, <1>6, <1>7, <1>8, <1>9, <1>10, <1>11 DEF Next, Step

(* No request finds the retry timeout of an Open breaker over before       *)
(* RetryTimeout has passed since it opened, but for the two windows that   *)
(* NoEarlyProbe names (retryTimeoutArrived against the cas and the store   *)
(* of fromClosedToOpen and fromHalfOpenToOpen, and against the hook).      *)
THEOREM NoEarlyProbeHolds == Spec => NoEarlyProbe
<1>1. Init => WaitIsRest
  BY DEF Init, WaitIsRest
<1>2. Spec => []WaitIsRest
  BY <1>1, WaitIsRestStep, TypeCorrect, PTL DEF Spec
<1>3. TypeOK /\ WaitIsRest /\ [Next]_vars =>
        [\A r \in Requests : pc[r] = "out" /\ pc'[r] = "probe" =>
           openFor >= RetryTimeout \/ rolledBack \/ Stampers # {}]_vars
  <2> SUFFICES ASSUME TypeOK, WaitIsRest, [Next]_vars,
                      NEW r \in Requests, pc[r] = "out", pc'[r] = "probe"
               PROVE  openFor >= RetryTimeout \/ rolledBack \/ Stampers # {}
    OBVIOUS
  <2>1. SeeRetryTimeout(r)
    <3>1. pc' # pc
      OBVIOUS
    <3>2. PICK q \in Requests : TryPass(q) \/ Step(q)
      BY <3>1 DEF Next, Tick, vars, localVars
    <3>3. q = r
      BY <3>2 DEF TryPass, PassClosed, PassHalfOpen, SeeRetryTimeout, Step,
           fromOpenToHalfOpen, Admit, Blocked, Complete, Sum, ReadStatus, ReadStatusAgain,
           fromClosedToOpen, fromHalfOpenToOpen, OpenFrom, resetCurProbeNum,
           updateNextRetryTimestamp, addCurProbeNum, EnoughProbes,
           fromHalfOpenToClosed, resetMetric, Leave, Goto, TypeOK
    <3>4. ~Step(r)
      BY DEF Step,
           fromOpenToHalfOpen, Admit, Blocked, Complete, Sum, ReadStatus, ReadStatusAgain,
           fromClosedToOpen, fromHalfOpenToOpen, resetCurProbeNum,
           updateNextRetryTimestamp, addCurProbeNum, EnoughProbes,
           fromHalfOpenToClosed, resetMetric
    <3> QED
      BY <3>2, <3>3, <3>4 DEF TryPass, PassClosed, PassHalfOpen, Goto, TypeOK
  <2>2. state = "Open" /\ wait = 0 /\ openFor \in Nat
    BY <2>1 DEF SeeRetryTimeout, TypeOK
  <2> QED
    BY <2>2, ConstantTypes DEF WaitIsRest
<1> QED
  BY <1>2, <1>3, TypeCorrect, PTL DEF Spec, NoEarlyProbe

-----------------------------------------------------------------------------
(* Where the probe of a half-open period may be: it carries the hook until *)
(* its checks are over, and it has not looked at a Closed breaker.         *)
ProbePcs == {"checks", "run", "sum", "status", "toOpen", "addProbe", "probed", "toClosed"}

IsProbe(p) == /\ probing = {p}
              /\ pc[p] \in ProbePcs
              /\ pc[p] = "checks" => hooked[p]

ProbeOfPeriod ==
  rule.probeNum = 0 =>
    IF state = "HalfOpen" THEN \E p \in Requests : IsProbe(p) ELSE probing = {}

(* A step of another request leaves the probe where it is.                 *)
LEMMA OthersKeepProbe ==
  ASSUME TypeOK, NEW r \in Requests, NEW p \in Requests, p # r, IsProbe(p),
         NEW label, Goto(r, label), probing' = probing \/ probing' = probing \ {r},
         hooked' = hooked \/ hooked' = [hooked EXCEPT ![r] = FALSE]
  PROVE  IsProbe(p)'
  BY DEF TypeOK, Goto, IsProbe

(* The same for the probe's own step, when it stays one.                   *)
LEMMA ProbeMoves ==
  ASSUME TypeOK, NEW p \in Requests, IsProbe(p),
         NEW label \in ProbePcs \ {"checks"}, Goto(p, label), probing' = probing
  PROVE  IsProbe(p)'
  BY DEF TypeOK, Goto, IsProbe, ProbePcs

(* Every step of the breaker, of an entry and of the clock keeps it.       *)
LEMMA ProbeOfPeriodStep == TypeOK /\ ProbeOfPeriod /\ [Next]_vars => ProbeOfPeriod'
<1> SUFFICES ASSUME TypeOK, ProbeOfPeriod, [Next]_vars, rule'.probeNum = 0
             PROVE  IF state' = "HalfOpen" THEN \E p \in Requests : IsProbe(p)'
                                          ELSE probing' = {}
  BY DEF ProbeOfPeriod
<1>0. rule' = rule
  BY DEF Next, Step, TryPass, Tick, PassClosed, PassHalfOpen, SeeRetryTimeout,
     fromOpenToHalfOpen, Admit, Blocked, Complete, Sum, ReadStatus, ReadStatusAgain,
     fromClosedToOpen, fromHalfOpenToOpen, OpenFrom, resetCurProbeNum,
     updateNextRetryTimestamp, addCurProbeNum, EnoughProbes,
     fromHalfOpenToClosed, resetMetric, vars
<1>1. rule.probeNum = 0
  BY <1>0
<1>2. CASE UNCHANGED <<state, probing, pc, hooked>>
  BY <1>1, <1>2 DEF ProbeOfPeriod, IsProbe
<1>3. ASSUME NEW r \in Requests, fromOpenToHalfOpen(r), state = "Open"
      PROVE  state' = "HalfOpen" /\ IsProbe(r)'
  BY <1>3 DEF fromOpenToHalfOpen, Cas, Goto, IsProbe, ProbePcs, TypeOK
<1>4. ASSUME NEW r \in Requests, state # "HalfOpen", TryPass(r) \/ Step(r),
             ~fromOpenToHalfOpen(r) \/ state # "Open"
      PROVE  state' # "HalfOpen" /\ probing' = {}
  <2>1. probing = {}
    BY <1>1, <1>4 DEF ProbeOfPeriod
  <2> QED
    BY <1>4, <2>1 DEF TryPass, PassClosed, PassHalfOpen, SeeRetryTimeout, Step,
       fromOpenToHalfOpen, Admit, Blocked, Complete, Sum, ReadStatus, ReadStatusAgain,
       fromClosedToOpen, fromHalfOpenToOpen, OpenFrom, BecomeOpen, resetCurProbeNum,
       updateNextRetryTimestamp, addCurProbeNum, EnoughProbes,
       fromHalfOpenToClosed, resetMetric, Leave, Cas, historyVars
<1>5. ASSUME NEW r \in Requests, state = "HalfOpen", TryPass(r) \/ Step(r),
             state' # "HalfOpen"
      PROVE  probing' = {}
  BY <1>5 DEF TryPass, PassClosed, PassHalfOpen, SeeRetryTimeout, Step,
     fromOpenToHalfOpen, Admit, Blocked, Complete, Sum, ReadStatus, ReadStatusAgain,
     fromClosedToOpen, fromHalfOpenToOpen, OpenFrom, BecomeOpen, resetCurProbeNum,
     updateNextRetryTimestamp, addCurProbeNum, EnoughProbes,
     fromHalfOpenToClosed, resetMetric, Leave, Cas, historyVars
<1>6. ASSUME NEW r \in Requests, NEW p \in Requests, IsProbe(p), p # r,
             state = "HalfOpen", state' = "HalfOpen", TryPass(r) \/ Step(r)
      PROVE  IsProbe(p)'
  <2>1. \E label \in Pcs : Goto(r, label)
    BY <1>6 DEF TryPass, PassClosed, PassHalfOpen, SeeRetryTimeout, Step,
       fromOpenToHalfOpen, Admit, Blocked, Complete, Sum, ReadStatus, ReadStatusAgain,
       fromClosedToOpen, fromHalfOpenToOpen, OpenFrom, resetCurProbeNum,
       updateNextRetryTimestamp, addCurProbeNum, EnoughProbes,
       fromHalfOpenToClosed, resetMetric, Leave, Pcs
  <2>2. probing' = probing \/ probing' = probing \ {r}
    BY <1>1, <1>6 DEF TryPass, PassClosed, PassHalfOpen, SeeRetryTimeout, Step,
       fromOpenToHalfOpen, Admit, Blocked, Complete, Sum, ReadStatus, ReadStatusAgain,
       fromClosedToOpen, fromHalfOpenToOpen, OpenFrom, resetCurProbeNum,
       updateNextRetryTimestamp, addCurProbeNum, EnoughProbes,
       fromHalfOpenToClosed, resetMetric, Leave, Cas, historyVars
  <2>3. hooked' = hooked \/ hooked' = [hooked EXCEPT ![r] = FALSE]
    BY <1>6 DEF TryPass, PassClosed, PassHalfOpen, SeeRetryTimeout, Step,
       fromOpenToHalfOpen, Admit, Blocked, Complete, Sum, ReadStatus, ReadStatusAgain,
       fromClosedToOpen, fromHalfOpenToOpen, OpenFrom, resetCurProbeNum,
       updateNextRetryTimestamp, addCurProbeNum, EnoughProbes,
       fromHalfOpenToClosed, resetMetric, Leave
  <2> QED
    BY <1>6, <2>1, <2>2, <2>3, OthersKeepProbe
<1>7. ASSUME NEW p \in Requests, IsProbe(p),
             state = "HalfOpen", state' = "HalfOpen", TryPass(p) \/ Step(p)
      PROVE  IsProbe(p)'
  <2>1. Admit(p) \/ Complete(p) \/ Sum(p) \/ ReadStatus(p) \/ addCurProbeNum(p) \/ EnoughProbes(p)
    BY <1>7 DEF IsProbe, ProbePcs, TryPass, PassClosed, PassHalfOpen, SeeRetryTimeout, Step,
       fromOpenToHalfOpen, Blocked, ReadStatusAgain, fromClosedToOpen, fromHalfOpenToOpen,
       OpenFrom, resetCurProbeNum, updateNextRetryTimestamp,
       fromHalfOpenToClosed, resetMetric, Cas
  <2>2. probing' = probing
    BY <1>1, <1>7, <2>1 DEF Admit, Complete, Sum, ReadStatus, addCurProbeNum, EnoughProbes, historyVars
  <2>3. \E label \in ProbePcs \ {"checks"} : Goto(p, label)
    BY <1>1, <1>7, <2>1 DEF Admit, Complete, Sum, ReadStatus, addCurProbeNum, EnoughProbes, ProbePcs
  <2> QED
    BY <1>7, <2>2, <2>3, ProbeMoves
<1> QED
  <2>1. CASE Tick \/ UNCHANGED vars
    BY <1>2, <2>1 DEF Tick, vars, localVars, historyVars
  <2>2. ASSUME NEW r \in Requests, TryPass(r) \/ Step(r), state # "HalfOpen"
        PROVE  IF state' = "HalfOpen" THEN \E p \in Requests : IsProbe(p)'
                                     ELSE probing' = {}
    BY <1>3, <1>4, <2>2
  <2>3. ASSUME NEW r \in Requests, TryPass(r) \/ Step(r), state = "HalfOpen"
        PROVE  IF state' = "HalfOpen" THEN \E p \in Requests : IsProbe(p)'
                                     ELSE probing' = {}
    <3>1. PICK p \in Requests : IsProbe(p)
      BY <1>1, <2>3 DEF ProbeOfPeriod
    <3> QED
      BY <1>5, <1>6, <1>7, <2>3, <3>1
  <2> QED
    BY <2>1, <2>2, <2>3 DEF Next

(* Without ProbeNum a half-open breaker has exactly one entry inside that  *)
(* it let in during this period (the cas of fromOpenToHalfOpen, the hook   *)
(* of a blocked entry, the stale completions of OnRequestComplete).        *)
THEOREM OneProbeHolds == Spec => []OneProbe
<1>1. Init => ProbeOfPeriod
  BY DEF Init, ProbeOfPeriod
<1>2. ProbeOfPeriod => OneProbe
  BY FS_Singleton DEF ProbeOfPeriod, OneProbe, IsProbe
<1> QED
  BY <1>1, <1>2, ProbeOfPeriodStep, TypeCorrect, PTL DEF Spec

-----------------------------------------------------------------------------
(* Outside a half-open period no entry is being waited for.                *)
NoProbes == state # "HalfOpen" => probing = {}

(* Every step keeps it: a half-open period ends with its probes.           *)
LEMMA NoProbesStep == TypeOK /\ NoProbes /\ [Next]_vars => NoProbes'
<1> SUFFICES ASSUME TypeOK, NoProbes, [Next]_vars, state' # "HalfOpen" PROVE probing' = {}
  BY DEF NoProbes
<1>1. CASE Tick \/ UNCHANGED vars
  BY <1>1 DEF NoProbes, Tick, vars, historyVars
<1>2. ASSUME NEW r \in Requests, TryPass(r) \/ Step(r) PROVE probing' = {}
  <2>1. CASE state = "HalfOpen"
    BY <1>2, <2>1 DEF TryPass, PassClosed, PassHalfOpen, SeeRetryTimeout, Step,
       fromOpenToHalfOpen, Admit, Blocked, Complete, Sum, ReadStatus, ReadStatusAgain,
       fromClosedToOpen, fromHalfOpenToOpen, OpenFrom, BecomeOpen, resetCurProbeNum,
       updateNextRetryTimestamp, addCurProbeNum, EnoughProbes,
       fromHalfOpenToClosed, resetMetric, Leave, Cas, historyVars
  <2>2. CASE probing = {}
    BY <1>2, <2>2 DEF TryPass, PassClosed, PassHalfOpen, SeeRetryTimeout, Step,
       fromOpenToHalfOpen, Admit, Blocked, Complete, Sum, ReadStatus, ReadStatusAgain,
       fromClosedToOpen, fromHalfOpenToOpen, OpenFrom, BecomeOpen, resetCurProbeNum,
       updateNextRetryTimestamp, addCurProbeNum, EnoughProbes,
       fromHalfOpenToClosed, resetMetric, Leave, Cas, historyVars
  <2> QED
    BY <2>1, <2>2 DEF NoProbes
<1> QED
  BY <1>1, <1>2 DEF Next

(* A request's step takes one of the arrows, or none; that it is no        *)
(* undecided single probe that leaves is ProbeOfPeriod of the next state.  *)
LEMMA StepTakesArrow ==
  ASSUME TypeOK, NoProbes, ProbeOfPeriod, ProbeOfPeriod', NEW r \in Requests,
         TryPass(r) \/ Step(r)
  PROVE  [States!Next]_(States!vars)
<1>1. rule' = rule
  BY DEF Step, TryPass, PassClosed, PassHalfOpen, SeeRetryTimeout,
     fromOpenToHalfOpen, Admit, Blocked, Complete, Sum, ReadStatus, ReadStatusAgain,
     fromClosedToOpen, fromHalfOpenToOpen, OpenFrom, resetCurProbeNum,
     updateNextRetryTimestamp, addCurProbeNum, EnoughProbes,
     fromHalfOpenToClosed, resetMetric
<1>2. CASE state' # state
  <2>1. \/ fromOpenToHalfOpen(r) /\ state = "Open"
        \/ Blocked(r) /\ state = "HalfOpen"
        \/ fromClosedToOpen(r) \/ fromHalfOpenToOpen(r)
        \/ fromHalfOpenToClosed(r)
    BY <1>2 DEF Step, TryPass, PassClosed, PassHalfOpen, SeeRetryTimeout,
       fromOpenToHalfOpen, Admit, Blocked, Complete, Sum, ReadStatus, ReadStatusAgain,
       resetCurProbeNum, updateNextRetryTimestamp, addCurProbeNum, EnoughProbes, resetMetric
  <2>2. States!Probe(r) \/ States!Decide \/ States!SwitchToOpen
    BY <1>1, <1>2, <2>1 DEF fromOpenToHalfOpen, Blocked, fromClosedToOpen, fromHalfOpenToOpen,
       fromHalfOpenToClosed, OpenFrom, BecomeOpen, Cas, States!Probe, States!Decide,
       States!SwitchToOpen, States!ProbeFailed, States!ProbeSucceeded, States!Move
  <2> QED
    BY <2>2 DEF States!Next
<1>3. CASE state' = state /\ state # "HalfOpen"
  <2>1. probing = {} /\ (probing' = probing \/ probing' = probing \ {r})
    BY <1>3 DEF NoProbes, TryPass, PassClosed, PassHalfOpen, SeeRetryTimeout, Step,
       fromOpenToHalfOpen, Admit, Blocked, Complete, Sum, ReadStatus, ReadStatusAgain,
       fromClosedToOpen, fromHalfOpenToOpen, OpenFrom, BecomeOpen, resetCurProbeNum,
       updateNextRetryTimestamp, addCurProbeNum, EnoughProbes,
       fromHalfOpenToClosed, resetMetric, Leave, Cas, historyVars
  <2> QED
    BY <1>1, <1>3, <2>1 DEF States!vars
<1>4. CASE state' = state /\ state = "HalfOpen"
  <2>1. \/ probing' = probing \/ probing' = probing \ {r}
        \/ rule.probeNum > 0 /\ probing' = probing \cup {r}
    BY <1>4 DEF TryPass, PassClosed, PassHalfOpen, SeeRetryTimeout, Step,
       fromOpenToHalfOpen, Admit, Blocked, Complete, Sum, ReadStatus, ReadStatusAgain,
       fromClosedToOpen, fromHalfOpenToOpen, OpenFrom, BecomeOpen, resetCurProbeNum,
       updateNextRetryTimestamp, addCurProbeNum, EnoughProbes,
       fromHalfOpenToClosed, resetMetric, Leave, Cas, historyVars
  <2>2. CASE rule.probeNum = 0
    <3>1. PICK p \in Requests : probing = {p}
      BY <1>4, <2>2 DEF ProbeOfPeriod, IsProbe
    <3>2. PICK q \in Requests : probing' = {q}
      BY <1>1, <1>4, <2>2 DEF ProbeOfPeriod, IsProbe
    <3>3. probing' = probing
      BY <2>1, <2>2, <3>1, <3>2
    <3> QED
      BY <1>1, <1>4, <3>3 DEF States!vars
  <2>3. CASE rule.probeNum # 0
    <3>1. rule.probeNum > 0
      BY <2>3, RulesAssumption DEF TypeOK
    <3>2. probing' = probing \/ States!ProbeAgain(r) \/ States!ProbeLeaves(r)
      BY <1>1, <1>4, <2>1, <3>1 DEF States!ProbeAgain, States!ProbeLeaves, States!Move
    <3> QED
      BY <1>1, <1>4, <3>2 DEF States!vars, States!Next
  <2> QED
    BY <2>2, <2>3
<1> QED
  BY <1>2, <1>3, <1>4

(* The breaker implements the three states the package draws: every        *)
(* interleaving of TryPass, the hook and OnRequestComplete is, seen from   *)
(* state and probes, a walk along the arrows.                              *)
THEOREM StatesImplemented == Spec => States!Spec
<1>1. Init => NoProbes /\ ProbeOfPeriod /\ States!Init
  BY RulesAssumption DEF Init, NoProbes, ProbeOfPeriod, States!Init
<1>2. TypeOK /\ NoProbes /\ ProbeOfPeriod /\ ProbeOfPeriod' /\ [Next]_vars => [States!Next]_(States!vars)
  <2> SUFFICES ASSUME TypeOK, NoProbes, ProbeOfPeriod, ProbeOfPeriod', [Next]_vars
               PROVE  [States!Next]_(States!vars)
    OBVIOUS
  <2>1. CASE Tick \/ UNCHANGED vars
    BY <2>1 DEF Tick, vars, historyVars, States!vars
  <2> QED
    BY <2>1, StepTakesArrow DEF Next
<1> QED
  BY <1>1, <1>2, NoProbesStep, ProbeOfPeriodStep, TypeCorrect, PTL DEF Spec, States!Spec
=============================================================================

----------------------------- MODULE Throttling -----------------------------
(***************************************************************************)
(* The throttling checker of infra/rate/sentinel/core/flow                 *)
(* (tc_throttling.go): requests share lastPassedTime, the time at which    *)
(* the last of them passes, and each of them passes now, is told how long  *)
(* to wait, or is blocked.                                                 *)
(*                                                                         *)
(* Every atomic access to lastPassedTime is a step.  Batches are such that *)
(* DoCheck gets that far: an empty batch passes, and a batch beyond the    *)
(* threshold is blocked, before lastPassedTime is looked at.               *)
(***************************************************************************)
EXTENDS Integers, Sequences, FiniteSets

CONSTANTS Requests,         \* goroutines that call DoCheck, one batch at a time
          Batches,          \* the values of batchCount
          Threshold,        \* tokens in one statInterval
          StatInterval,     \* statIntervalNs, in units of the clock
          MaxQueueingTime,  \* maxQueueingTimeNs, in units of the clock
          Start,            \* the clock when the checker is made
          MaxTime,          \* bound on the clock
          MaxPasses         \* bound: requests let through

ASSUME ThresholdAssumption == Threshold \in Nat \ {0} /\ StatInterval \in Nat \ {0}
ASSUME BatchesAssumption == Batches \subseteq 1..Threshold
ASSUME TimesAssumption == MaxQueueingTime \in Nat /\ Start \in Nat /\ MaxTime \in Nat

VARIABLES
  now,             \* the clock
  lastPassedTime,
  pc,              \* where each call of DoCheck is
  curNano,         \* the time at which it began
  intervalNs,      \* the interval its batch needs
  loaded,          \* what it has loaded from lastPassedTime
  passes,          \* history: when the requests let through pass, and their intervals
  slipped          \* history: an interval was taken back, or added when already over

locals == <<pc, curNano, intervalNs, loaded>>
vars == <<now, lastPassedTime, locals, passes, slipped>>

(* math.Ceil(batchCount / threshold * statIntervalNs)                      *)
IntervalOf(batch) == (batch * StatInterval + Threshold - 1) \div Threshold

Goto(r, label) == pc' = [pc EXCEPT ![r] = label]

(* DoCheck lets r through, at time t.                                      *)
Pass(r, t) ==
  /\ passes' = Append(passes, [at |-> t, interval |-> intervalNs[r]])
  /\ Goto(r, "out")

Init ==
  /\ now = Start
  /\ lastPassedTime = 0
  /\ pc = [r \in Requests |-> "out"]
  /\ curNano = [r \in Requests |-> Start]
  /\ intervalNs = [r \in Requests |-> 0]
  /\ loaded = [r \in Requests |-> 0]
  /\ passes = <<>>
  /\ slipped = FALSE

Tick ==
  /\ now < MaxTime
  /\ now' = now + 1
  /\ UNCHANGED <<lastPassedTime, locals, passes, slipped>>

-----------------------------------------------------------------------------
(* DoCheck *)

Begin(r) ==
  /\ pc[r] = "out"
  /\ Len(passes) + Cardinality({x \in Requests : pc[x] # "out"}) < MaxPasses
  /\ curNano' = [curNano EXCEPT ![r] = now]
  /\ \E b \in Batches : intervalNs' = [intervalNs EXCEPT ![r] = IntervalOf(b)]
  /\ Goto(r, "load")
  /\ UNCHANGED <<now, lastPassedTime, loaded, passes, slipped>>

(* Mutation: a request may pass one unit before its time.                  *)
LoadEarly(r) ==
  /\ pc[r] = "load"
  /\ loaded' = [loaded EXCEPT ![r] = lastPassedTime]
  /\ Goto(r, IF lastPassedTime + intervalNs[r] <= curNano[r] + 1 THEN "cas" ELSE "estimate")
  /\ UNCHANGED <<now, lastPassedTime, curNano, intervalNs, passes, slipped>>

Load(r) ==
  /\ pc[r] = "load"
  /\ loaded' = [loaded EXCEPT ![r] = lastPassedTime]
  /\ Goto(r, IF lastPassedTime + intervalNs[r] <= curNano[r] THEN "cas" ELSE "estimate")
  /\ UNCHANGED <<now, lastPassedTime, curNano, intervalNs, passes, slipped>>

(* The time of this request has come, unless another one was faster.       *)
CompareAndSwap(r) ==
  /\ pc[r] = "cas"
  /\ IF lastPassedTime = loaded[r]
     THEN lastPassedTime' = curNano[r] /\ Pass(r, curNano[r])
     ELSE Goto(r, "estimate") /\ UNCHANGED <<lastPassedTime, passes>>
  /\ UNCHANGED <<now, curNano, intervalNs, loaded, slipped>>

(* The request is blocked, or queues.                                      *)
Estimate(r) ==
  /\ pc[r] = "estimate"
  /\ Goto(r, IF lastPassedTime + intervalNs[r] - curNano[r] > MaxQueueingTime
             THEN "out" ELSE "add")
  /\ UNCHANGED <<now, lastPassedTime, curNano, intervalNs, loaded, passes, slipped>>

(* AddInt64 returns the new value, which is when the request passes unless *)
(* it is over; others may have made the queue too long since Estimate.     *)
Add(r) ==
  /\ pc[r] = "add"
  /\ lastPassedTime' = lastPassedTime + intervalNs[r]
  /\ IF lastPassedTime' - curNano[r] > MaxQueueingTime
     THEN Goto(r, "subtract") /\ UNCHANGED passes
     ELSE Pass(r, IF lastPassedTime' > curNano[r] THEN lastPassedTime' ELSE curNano[r])
  /\ slipped' = (slipped \/ lastPassedTime' < curNano[r])
  /\ UNCHANGED <<now, curNano, intervalNs, loaded>>

(* Blocked: take the interval back.                                        *)
Subtract(r) ==
  /\ pc[r] = "subtract"
  /\ lastPassedTime' = lastPassedTime - intervalNs[r]
  /\ slipped' = TRUE
  /\ Goto(r, "out")
  /\ UNCHANGED <<now, curNano, intervalNs, loaded, passes>>

DoCheck(r) == \/ Begin(r) \/ Load(r) \/ CompareAndSwap(r)
              \/ Estimate(r) \/ Add(r) \/ Subtract(r)

Next == Tick \/ \E r \in Requests : DoCheck(r)

Spec == Init /\ [][Next]_vars

-----------------------------------------------------------------------------
(* Properties *)

Intervals == {IntervalOf(b) : b \in Batches}

(* Types; nobody passes before the checker was made.                       *)
TypeOK ==
  /\ now \in Nat /\ now >= Start
  /\ lastPassedTime \in Int
  /\ pc \in [Requests -> {"out", "load", "cas", "estimate", "add", "subtract"}]
  /\ curNano \in [Requests -> Nat]
  /\ \A r \in Requests : Start <= curNano[r] /\ curNano[r] <= now
  /\ intervalNs \in [Requests -> Intervals \cup {0}]
  /\ loaded \in [Requests -> Int]
  /\ passes \in Seq([at : Nat, interval : Intervals])
  /\ \A i \in 1..Len(passes) : passes[i].at >= Start
  /\ slipped \in BOOLEAN

(* Two requests pass at least the interval of the second of them apart.    *)
Spaced ==
  \A i, j \in 1..Len(passes) : i < j =>
    passes[j].at >= passes[i].at + passes[j].interval

(* However their atomic steps interleave, requests are spaced until one of *)
(* two things has happened: a request that was blocked has taken its       *)
(* interval back, after others had built on it; or a request whose time    *)
(* was over, and that lost the compare-and-swap, has passed at once and    *)
(* left a lastPassedTime older than that.                                  *)
SpacedUnlessSlip == slipped \/ Spaced

=============================================================================

------------------------------- MODULE HotSpot -------------------------------
(***************************************************************************)
(* A hot spot rule: requests are limited one argument at a time, with      *)
(* counters that LRU caches hold for the arguments seen last               *)
(* (infra/rate/sentinel/core/hotspot).  A cache locks itself for one call; *)
(* the counters it hands out are used after that, evicted or not.          *)
(***************************************************************************)
EXTENDS Integers, Sequences, FiniteSets, FiniteSetsExt, SequencesExt

CONSTANTS Requests,     \* goroutines that meet the rule, again and again
          Args,         \* the arguments
          Thresholds,   \* Threshold, or what SpecificItems has for an argument
          Batches,      \* values of batchCount
          BurstCount,
          Duration,     \* DurationInSec, in units of the clock
          MaxQueueing,  \* MaxQueueingTimeMs, in units of the clock
          Capacity,     \* ParamsMaxCapacity
          Cells,        \* numbers for counters, 1..n
          MaxClock,     \* bound on the clock
          MaxCalls      \* bound: requests

VARIABLES
  behavior,    \* "reject" or "throttling" for a rule on QPS, or "concurrency"
  clock,
  times,       \* RuleTimeCounter, the argument used last in front
  tokens,      \* RuleTokenCounter
  concurrency, \* ConcurrencyCounter
  heap,        \* the counters
  req,         \* the requests
  passes,      \* history: tokens that passed for an argument at a time
  inside,      \* requests that have passed and not completed
  slips,       \* history: see Slip
  evictions,   \* history: counters of an argument thrown out
  calls        \* requests so far

hsVars == <<behavior, clock, times, tokens, concurrency, heap, req, passes, inside, slips,
            evictions, calls>>

NoArg == "none"
Idle == [pc |-> "idle", arg |-> NoArg, batch |-> 0, now |-> 0, at |-> 0, time |-> 0, token |-> 0,
         old |-> 0]

Horizon == MaxClock + MaxQueueing + Duration

TypeOK ==
  /\ behavior \in {"reject", "throttling", "concurrency"} /\ clock \in 0..MaxClock
  /\ {times, tokens, concurrency} \subseteq
       UNION {[1..n -> [arg : Args, cell : Cells]] : n \in 0..Capacity}
  /\ heap \in [Cells -> Int]
  /\ passes \in [Args -> [0..Horizon -> Nat]]
  /\ {inside, slips, evictions} \subseteq [Args -> Nat] /\ calls \in 0..MaxCalls

Init ==
  /\ behavior \in {"reject", "throttling", "concurrency"}
  /\ clock = 0 /\ times = <<>> /\ tokens = <<>> /\ concurrency = <<>>
  /\ heap = [c \in Cells |-> 0]
  /\ req = [r \in Requests |-> Idle]
  /\ passes = [a \in Args |-> [t \in 0..Horizon |-> 0]]
  /\ inside = [a \in Args |-> 0] /\ slips = [a \in Args |-> 0]
  /\ evictions = [a \in Args |-> 0] /\ calls = 0

-----------------------------------------------------------------------------
(* LRU                                                                     *)
ArgsOf(lru) == {lru[i].arg : i \in DOMAIN lru}
CellsOf(lru) == {lru[i].cell : i \in DOMAIN lru}
Place(lru, a) == CHOOSE i \in DOMAIN lru : lru[i].arg = a
EntryOf(lru, a) == lru[Place(lru, a)]

MoveToFront(lru, a) == <<EntryOf(lru, a)>> \o RemoveAt(lru, Place(lru, a))

AddIfAbsent(lru, a, cell) ==
  IF a \in ArgsOf(lru) THEN MoveToFront(lru, a)
  ELSE SubSeq(<<[arg |-> a, cell |-> cell]>> \o lru, 1, Min({Capacity, Len(lru) + 1}))

Get(lru, a) == IF a \in ArgsOf(lru) THEN MoveToFront(lru, a) ELSE lru

(* A counter nobody points to.                                             *)
Fresh ==
  CHOOSE c \in Cells :
    /\ c \notin CellsOf(times) \union CellsOf(tokens) \union CellsOf(concurrency)
    /\ \A r \in Requests : c \notin {req[r].time, req[r].token}

Evicted(lru, next) ==
  [a \in Args |-> IF a \in ArgsOf(lru) \ ArgsOf(next) THEN evictions[a] + 1 ELSE evictions[a]]

-----------------------------------------------------------------------------
MaxCount(a) == Thresholds[a] + BurstCount
Interval(a, batch) == (batch * Duration) \div Thresholds[a]

Goto(r, pc) == req' = [req EXCEPT ![r].pc = pc]
Leave(r) == req' = [req EXCEPT ![r] = Idle]

Pass(r, t) ==
  /\ passes' = [passes EXCEPT ![req[r].arg][t] = @ + req[r].batch]
  /\ Leave(r)

caches == <<times, tokens, concurrency>>
history == <<passes, inside, slips, evictions>>

(* A slip: two requests have changed the counters of an argument at once,  *)
(* or one of them on what it had read of them before the other.            *)
Slip(a, happens) == slips' = IF happens THEN [slips EXCEPT ![a] = @ + 1] ELSE slips
Others(r, pc) == \E q \in Requests \ {r} : req[q].pc = pc /\ req[q].arg = req[r].arg

Tick == clock < MaxClock /\ clock' = clock + 1
        /\ UNCHANGED <<behavior, caches, heap, req, history, calls>>

(* PerformChecking up to the loop.                                         *)
Call(r, a, batch) ==
  /\ req[r].pc = "idle" /\ calls < MaxCalls
  /\ calls' = calls + 1
  /\ req' = IF behavior # "concurrency"
                 /\ (Thresholds[a] <= 0 \/ (behavior = "reject" /\ batch > MaxCount(a)))
            THEN req
            ELSE [req EXCEPT ![r] = [Idle EXCEPT !.arg = a, !.batch = batch,
                   !.pc = IF behavior = "concurrency" THEN "check" ELSE "clock"]]
  /\ UNCHANGED <<behavior, clock, caches, heap, history>>

ReadClock(r) ==
  /\ req[r].pc = "clock"
  /\ req' = [req EXCEPT ![r].pc = "time", ![r].now = clock]
  /\ UNCHANGED <<behavior, clock, caches, heap, history, calls>>

(* The first to come for an argument leaves its time in the cache.         *)
AddTime(r) ==
  LET a == req[r].arg  absent == a \notin ArgsOf(times) IN
    /\ req[r].pc = "time"
    /\ times' = AddIfAbsent(times, a, Fresh)
    /\ evictions' = Evicted(times, times')
    /\ heap' = IF absent THEN [heap EXCEPT ![Fresh] = req[r].now] ELSE heap
    /\ CASE absent /\ behavior = "throttling" -> Pass(r, req[r].now)
         [] absent /\ behavior = "reject" -> Goto(r, "fill") /\ UNCHANGED passes
         [] OTHER -> /\ req' = [req EXCEPT ![r].pc = "load", ![r].time = EntryOf(times', a).cell]
                     /\ UNCHANGED passes
    /\ UNCHANGED <<behavior, clock, tokens, concurrency, inside, slips, calls>>

(* ... and its tokens in the other, unless some are there from before.     *)
FillTokens(r) ==
  LET a == req[r].arg IN
    /\ req[r].pc = "fill"
    /\ tokens' = AddIfAbsent(tokens, a, Fresh)
    /\ evictions' = Evicted(tokens, tokens')
    /\ heap' = IF a \in ArgsOf(tokens) THEN heap
               ELSE [heap EXCEPT ![Fresh] = MaxCount(a) - req[r].batch]
    /\ Pass(r, req[r].now)
    /\ Slip(a, a \in ArgsOf(tokens))
    /\ UNCHANGED <<behavior, clock, times, concurrency, inside, calls>>

(* As LoadTime, if the window never passed (mutant).                       *)
LoadTimeNever(r) ==
  /\ req[r].pc = "load"
  /\ req' = [req EXCEPT ![r].old = heap[req[r].time],
                        ![r].pc = IF behavior = "reject" THEN "take" ELSE "cas"]
  /\ UNCHANGED <<behavior, clock, caches, heap, history, calls>>

(* Tokens are added when the window has passed.  A throttled request that  *)
(* would have to wait too long is blocked.                                 *)
LoadTime(r) ==
  LET a == req[r].arg  last == heap[req[r].time]  expected == last + Interval(a, req[r].batch) IN
    /\ req[r].pc = "load"
    /\ CASE behavior = "reject" ->
              req' = [req EXCEPT ![r].old = last,
                        ![r].pc = IF req[r].now - last > Duration THEN "refill" ELSE "take"]
         [] /\ behavior # "reject"
            /\ expected <= req[r].now \/ expected - req[r].now < MaxQueueing ->
              req' = [req EXCEPT ![r].old = last, ![r].at = expected, ![r].pc = "cas"]
         [] OTHER -> Leave(r)
    /\ UNCHANGED <<behavior, clock, caches, heap, history, calls>>

(* Refill: the counter of tokens is added if it is gone.                   *)
AddTokens(r) ==
  LET a == req[r].arg  absent == a \notin ArgsOf(tokens) IN
    /\ req[r].pc = "refill"
    /\ tokens' = AddIfAbsent(tokens, a, Fresh)
    /\ evictions' = Evicted(tokens, tokens')
    /\ heap' = IF absent THEN [heap EXCEPT ![Fresh] = MaxCount(a) - req[r].batch] ELSE heap
    /\ req' = IF absent THEN [req EXCEPT ![r].pc = "stamp"]
              ELSE [req EXCEPT ![r].pc = "rest", ![r].token = EntryOf(tokens', a).cell]
    /\ UNCHANGED <<behavior, clock, times, concurrency, passes, inside, slips, calls>>

(* What is left of rest and of what has been added since last.             *)
Refilled(r, last, rest) ==
  LET toAdd == ((req[r].now - last) * Thresholds[req[r].arg]) \div Duration IN
    (IF toAdd + rest > MaxCount(req[r].arg) THEN MaxCount(req[r].arg) ELSE toAdd + rest)
      - req[r].batch

(* The tokens are loaded, to be refilled or to be taken from; at keeps     *)
(* what they become.                                                       *)
LoadTokens(r) ==
  LET rest == heap[req[r].token]
      new == IF req[r].pc = "rest" THEN Refilled(r, req[r].old, rest) ELSE rest - req[r].batch
  IN /\ req[r].pc \in {"rest", "left"}
     /\ IF new < 0 THEN Leave(r)
        ELSE req' = [req EXCEPT ![r].at = new,
                       ![r].now = IF req[r].pc = "rest" THEN @ ELSE 0,
                       ![r].pc = IF req[r].pc = "rest" THEN "cas refill" ELSE "cas take",
                       ![r].time = IF req[r].pc = "rest" THEN @ ELSE 0,
                       ![r].old = rest]
     /\ UNCHANGED <<behavior, clock, caches, heap, history, calls>>

(* The compare-and-swap, and then the new time in a store of its own.      *)
CasRefill(r) ==
  LET ok == heap[req[r].token] = req[r].old IN
    /\ req[r].pc = "cas refill"
    /\ heap' = IF ok THEN [heap EXCEPT ![req[r].token] = req[r].at] ELSE heap
    /\ Goto(r, IF ok THEN "stamp" ELSE "clock")
    /\ Slip(req[r].arg, ok /\ \/ Others(r, "stamp")
                              \/ req[r].at > Refilled(r, heap[req[r].time], req[r].old))
    /\ UNCHANGED <<behavior, clock, caches, passes, inside, evictions, calls>>

Stamp(r) ==
  /\ req[r].pc = "stamp"
  /\ heap' = [heap EXCEPT ![req[r].time] = req[r].now]
  /\ Slip(req[r].arg, heap[req[r].time] > req[r].now)
  /\ passes' = [passes EXCEPT ![req[r].arg][req[r].now] = @ + req[r].batch]
  /\ Leave(r)
  /\ UNCHANGED <<behavior, clock, caches, inside, evictions, calls>>

(* Within the window: without a counter of tokens the loop goes on until   *)
(* the window has passed.                                                  *)
GetTokens(r) ==
  LET a == req[r].arg IN
    /\ req[r].pc = "take"
    /\ tokens' = Get(tokens, a)
    /\ req' = IF a \in ArgsOf(tokens)
              THEN [req EXCEPT ![r].pc = "left", ![r].token = EntryOf(tokens, a).cell]
              ELSE [req EXCEPT ![r].pc = "clock", ![r].time = 0, ![r].old = 0]
    /\ UNCHANGED <<behavior, clock, times, concurrency, heap, history, calls>>

(* As CasTake, with a store in place of the compare-and-swap (mutant).     *)
CasTakeStores(r) ==
  /\ req[r].pc = "cas take"
  /\ heap' = [heap EXCEPT ![req[r].token] = req[r].at]
  /\ Pass(r, clock)
  /\ UNCHANGED <<behavior, clock, caches, inside, slips, evictions, calls>>

CasTake(r) ==
  LET ok == heap[req[r].token] = req[r].old IN
    /\ req[r].pc = "cas take"
    /\ IF ok THEN heap' = [heap EXCEPT ![req[r].token] = req[r].at] /\ Pass(r, clock)
       ELSE req' = [req EXCEPT ![r] = [Idle EXCEPT !.pc = "clock", !.arg = req[r].arg,
                                                   !.batch = req[r].batch]]
            /\ UNCHANGED <<heap, passes>>
    /\ UNCHANGED <<behavior, clock, caches, inside, slips, evictions, calls>>

(* Throttling: the compare-and-swap puts the time of the request into the  *)
(* counter, and for a request that waits a store puts its turn there.      *)
CasTime(r) ==
  LET ok == heap[req[r].time] = req[r].old IN
    /\ req[r].pc = "cas"
    /\ heap' = IF ok THEN [heap EXCEPT ![req[r].time] = req[r].now] ELSE heap
    /\ CASE ~ok -> Goto(r, "clock") /\ UNCHANGED passes
         [] ok /\ req[r].at > req[r].now -> Goto(r, "store") /\ UNCHANGED passes
         [] OTHER -> Pass(r, req[r].now)
    /\ Slip(req[r].arg, ok /\ Others(r, "store"))
    /\ UNCHANGED <<behavior, clock, caches, inside, evictions, calls>>

StoreTime(r) ==
  /\ req[r].pc = "store"
  /\ heap' = [heap EXCEPT ![req[r].time] = req[r].at]
  /\ Pass(r, req[r].at)
  /\ UNCHANGED <<behavior, clock, caches, inside, slips, evictions, calls>>

-----------------------------------------------------------------------------
(* A rule on concurrency: performCheckingForConcurrencyMetric.             *)
CheckConcurrency(r) ==
  LET a == req[r].arg  absent == a \notin ArgsOf(concurrency) IN
    /\ req[r].pc = "check"
    /\ concurrency' = AddIfAbsent(concurrency, a, Fresh)
    /\ evictions' = Evicted(concurrency, concurrency')
    /\ heap' = IF absent THEN [heap EXCEPT ![Fresh] = 0] ELSE heap
    /\ req' = IF absent THEN [req EXCEPT ![r].pc = "enter"]
              ELSE [req EXCEPT ![r].pc = "compare", ![r].token = EntryOf(concurrency', a).cell]
    /\ UNCHANGED <<behavior, clock, times, tokens, passes, inside, slips, calls>>

(* As CompareConcurrency, off by one (mutant).                             *)
CompareConcurrencyLate(r) ==
  /\ req[r].pc = "compare"
  /\ IF heap[req[r].token] <= Thresholds[req[r].arg]
     THEN req' = [req EXCEPT ![r].pc = "enter", ![r].token = 0] ELSE Leave(r)
  /\ UNCHANGED <<behavior, clock, caches, heap, history, calls>>

CompareConcurrency(r) ==
  /\ req[r].pc = "compare"
  /\ IF heap[req[r].token] + 1 <= Thresholds[req[r].arg]
     THEN req' = [req EXCEPT ![r].pc = "enter", ![r].token = 0] ELSE Leave(r)
  /\ UNCHANGED <<behavior, clock, caches, heap, history, calls>>

(* OnEntryPassed and OnCompleted of ConcurrencyStatSlot: the counter that  *)
(* is there, which may be another than the one that was compared.          *)
GetConcurrency(r) ==
  LET a == req[r].arg  found == a \in ArgsOf(concurrency)
      next == IF req[r].pc = "enter" THEN "count in" ELSE "count out"
  IN /\ req[r].pc \in {"enter", "inside"}
     /\ concurrency' = Get(concurrency, a)
     /\ req' = [req EXCEPT ![r].pc = next,
                           ![r].token = IF found THEN EntryOf(concurrency, a).cell ELSE 0]
     /\ UNCHANGED <<behavior, clock, times, tokens, heap, history, calls>>

CountIn(r) ==
  LET a == req[r].arg IN
    /\ req[r].pc = "count in"
    /\ heap' = IF req[r].token = 0 THEN heap ELSE [heap EXCEPT ![req[r].token] = @ + 1]
    /\ req' = [req EXCEPT ![r].pc = "inside", ![r].token = 0]
    /\ inside' = [inside EXCEPT ![a] = @ + 1]
    /\ Slip(a, Others(r, "enter") \/ Others(r, "count in"))
    /\ UNCHANGED <<behavior, clock, caches, passes, evictions, calls>>

CountOut(r) ==
  /\ req[r].pc = "count out"
  /\ heap' = IF req[r].token = 0 THEN heap ELSE [heap EXCEPT ![req[r].token] = @ - 1]
  /\ inside' = [inside EXCEPT ![req[r].arg] = @ - 1]
  /\ Leave(r)
  /\ UNCHANGED <<behavior, clock, caches, passes, slips, evictions, calls>>

-----------------------------------------------------------------------------
Step(r) ==
  \/ ReadClock(r) \/ AddTime(r) \/ FillTokens(r) \/ LoadTime(r) \/ AddTokens(r) \/ LoadTokens(r)
  \/ CasRefill(r) \/ Stamp(r) \/ GetTokens(r) \/ CasTake(r) \/ CasTime(r) \/ StoreTime(r)
  \/ CheckConcurrency(r) \/ CompareConcurrency(r) \/ GetConcurrency(r) \/ CountIn(r) \/ CountOut(r)

Next ==
  \/ Tick
  \/ \E r \in Requests : Step(r) \/ \E a \in Args, batch \in Batches : Call(r, a, batch)

(* Goroutines run, the clock goes on, and what has been let in completes.  *)
Fairness == WF_hsVars(Tick) /\ \A r \in Requests : WF_hsVars(Step(r))

Spec == Init /\ [][Next]_hsVars /\ Fairness

-----------------------------------------------------------------------------
PassedUntil(a, t) == MapThenSumSet(LAMBDA u : passes[a][u], 0..t)

(* The time a request is put off by is exact: it is rounded down.          *)
Even(a) == \A batch \in Batches : (batch * Duration) % Thresholds[a] = 0

(* What has passed for an argument until any time is what the rule allows  *)
(* and has added since the start: a burst and the rate for Reject, one and *)
(* the rate for Throttling.  It holds until the argument is thrown out of  *)
(* a cache or two requests change its counters at once.                    *)
RateHeld ==
  \A a \in Args : Thresholds[a] > 0 /\ slips[a] = 0 /\ evictions[a] = 0 =>
    \A t \in 0..Horizon :
      LET added == (t * Thresholds[a]) \div Duration IN
        /\ behavior = "reject" => PassedUntil(a, t) <= MaxCount(a) + added
        /\ behavior = "throttling" /\ Even(a) => PassedUntil(a, t) <= Max(Batches) + added

(* The counter of an argument that was never thrown out is the number of   *)
(* requests inside, and the threshold holds but for those that were        *)
(* compared while another had not been counted.                            *)
ConcurrencyHeld ==
  behavior = "concurrency" =>
    \A a \in Args : evictions[a] = 0 =>
      /\ a \in ArgsOf(concurrency) => heap[EntryOf(concurrency, a).cell] = inside[a]
      /\ inside[a] <= Max({Thresholds[a], 1}) + slips[a]

(* No request goes round the loop for ever.  One whose argument has a time *)
(* and no tokens goes round until the window has passed, which it cannot   *)
(* here when the clock stops.                                              *)
Spins(r) ==
  LET a == req[r].arg IN
    /\ a \in ArgsOf(times) \ ArgsOf(tokens)
    /\ clock = MaxClock /\ clock - heap[EntryOf(times, a).cell] <= Duration
CallsEnd == \A r \in Requests : req[r].pc # "idle" ~> req[r].pc = "idle" \/ Spins(r)

=============================================================================

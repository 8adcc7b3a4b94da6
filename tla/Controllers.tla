---------------------------- MODULE Controllers ----------------------------
(* The traffic controllers a request meets: that of a flow rule that       *)
(* throttles (module Throttling) and that of a hot spot rule (module       *)
(* HotSpot); and the sliding window of statistics that others decide with  *)
(* (module LeapArray).  They share nothing: the requests of one are not    *)
(* those of the other, and each has a clock.                               *)
EXTENDS Throttling

CONSTANTS HotRequests, HotBatches, Args, Thresholds, BurstCount, Duration, MaxQueueing, Capacity,
          Cells, MaxClock, MaxCalls,
          Goroutines, NoGoroutine, SampleCount, BucketLength, SecondLength, Values, MaxRt,
          WindowStart, WindowEnd, MaxEvents, MaxReaders
VARIABLES
  behavior, clock, times, tokens, concurrency, heap, req, hotPasses, inside, slips, evictions,
  calls,
  time, start, bucket, lock, call, events, lost

(* NewLeapArray and its callers: there is a bucket, a bucket has a length, *)
(* what is recorded is not negative, and no goroutine is none.             *)
WindowBounds ==
  /\ SampleCount \in Nat \ {0} /\ BucketLength \in Nat \ {0} /\ SecondLength \in Nat \ {0}
  /\ MaxRt \in Nat \ {0} /\ Values \subseteq Nat
  /\ WindowStart \in Nat /\ WindowEnd \in Nat /\ MaxEvents \in Nat
  /\ IsFiniteSet(Goroutines) /\ NoGoroutine \notin Goroutines
ASSUME WindowAssumption == WindowBounds

HotSpot == INSTANCE HotSpot WITH
  Requests <- HotRequests, Batches <- HotBatches, passes <- hotPasses

LeapArray == INSTANCE LeapArray WITH
  Start <- WindowStart, MaxTime <- WindowEnd, now <- time, slipped <- lost

(* The requests with an argument that PerformChecking lets pass keep the   *)
(* rate of its rule until the argument is thrown out of a cache or a slip. *)
RateHeld == HotSpot!RateHeld

(* The concurrency counter of an argument, which ConcurrencyStatSlot keeps,*)
(* is exact and its threshold holds, but for requests that compare at the  *)
(* same time.                                                              *)
ConcurrencyHeld == HotSpot!ConcurrencyHeld

(* The statistics that rules decide with are neither more nor less than    *)
(* what was recorded in their window, unless a bucket was read or written  *)
(* around the reset of it.                                                 *)
StatisticsExact == LeapArray!StatisticsExact
=============================================================================

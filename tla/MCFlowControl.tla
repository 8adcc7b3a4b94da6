--------------------------- MODULE MCFlowControl ---------------------------
(* Instances of what the flow and hot spot rules decide with, and of the   *)
(* metric log their statistics go to.  The five share nothing, so one of   *)
(* them runs and the others stand still.                                   *)
EXTENDS Controllers, TLC

VARIABLES kind,
  second, active, fetched, queue, log, cache, search, counts,
  stored, filled, recent, half, at, local, refused, slow

hotSpotVars == <<behavior, clock, times, tokens, concurrency, heap, req, hotPasses, inside, slips,
                evictions, calls>>
windowVars == <<time, start, bucket, lock, call, events, lost>>
logVars == <<second, active, fetched, queue, log, cache, search, counts>>
warmUpVars == <<stored, filled, recent, half, at, local, refused, slow>>
all == <<kind, vars, hotSpotVars, windowVars, logVars, warmUpVars>>

Two == CHOOSE pair \in SUBSET Requests : Cardinality(pair) = 2

MCThresholds == [a \in Args |-> IF a = "a" THEN 2 ELSE 1]

Query(b, e, max, res) == [b |-> b, e |-> e, max |-> max, res |-> res]

MetricLog == INSTANCE MetricLog WITH
  Resources <- Args, Traffic <- {{}, {"a"}, {"a", "b"}},
  Queries <- {Query(0, 3, 0, ""), Query(1, 2, 0, "b"), Query(2, 3, 0, ""), Query(0, 3, 1, "")},
  SecsPerDay <- 2, Window <- 3, MaxSingleSize <- 2, MaxFileAmount <- 2,
  MaxSec <- 3, MaxCrashes <- 1, MaxFaults <- 1, MaxSearches <- 2,
  clock <- second

WarmUp == INSTANCE WarmUp WITH
  Requests <- Two, Threshold <- 2, WarmUpPeriodSec <- 2, ColdFactor <- 2,
  MaxAge <- 5, MaxSlow <- 1,
  window <- recent, pc <- at, req <- local

MCInit ==
  /\ kind \in {"throttling", "hot spot", "window", "log", "warm up"}
  /\ Init /\ HotSpot!Init /\ LeapArray!Init /\ MetricLog!Init /\ WarmUp!Init
  /\ kind = "hot spot" \/ behavior = "reject"
  /\ kind = "warm up" \/ stored = 0

MCNext ==
  /\ kind' = kind
  /\ \/ kind = "throttling" /\ Next /\ UNCHANGED <<hotSpotVars, windowVars, logVars, warmUpVars>>
     \/ kind = "hot spot" /\ HotSpot!Next /\ UNCHANGED <<vars, windowVars, logVars, warmUpVars>>
     \/ kind = "window" /\ LeapArray!Next /\ UNCHANGED <<vars, hotSpotVars, logVars, warmUpVars>>
     \/ kind = "log" /\ MetricLog!Next /\ UNCHANGED <<vars, hotSpotVars, windowVars, warmUpVars>>
     \/ kind = "warm up" /\ WarmUp!Next /\ UNCHANGED <<vars, hotSpotVars, windowVars, logVars>>

MCFairness ==
  /\ WF_hotSpotVars(kind = "hot spot" /\ HotSpot!Tick)
  /\ \A r \in Two : WF_hotSpotVars(kind = "hot spot" /\ HotSpot!Step(r))
  /\ WF_warmUpVars(kind = "warm up" /\ WarmUp!Tick)
  /\ \A r \in Two : WF_warmUpVars(kind = "warm up" /\ (WarmUp!Begin(r) \/ WarmUp!Step(r)))

MCSpec == MCInit /\ [][MCNext]_all /\ MCFairness

(* Every call of the hot spot checkers ends, or spins.                     *)
CallsEnd == kind = "hot spot" => HotSpot!CallsEnd

(* A warm-up rule gets warm under load.                                    *)
WarmsUp == kind = "warm up" => WarmUp!WarmsUp

(* A search of the metric log from its start finds what was written.       *)
ColdSearchFinds == MetricLog!ColdSearchFinds
=============================================================================

--------------------------- MODULE SentinelEntry ---------------------------
(* What an entry goes through: a circuit breaker (module CircuitBreaker)   *)
(* and the slot chain of its resource (module SlotChain).                  *)
EXTENDS CircuitBreaker

CONSTANTS Entries, Contexts, IsolationThreshold, SystemThreshold, ProbeNums, Outbound, MaxPanics, MaxTraces
VARIABLES gauge, passes, blocks, completes, breaker, probeNum, probed, prober, context, pool, entry,
  panics, traces, late, overlaps

Chain == INSTANCE SlotChain

(* The concurrency of a resource node is the number of entries inside, but *)
(* for those a panic let in.                                               *)
GaugeExact == Chain!GaugeExact

(* The isolation rule, which reads that concurrency, holds but for those   *)
(* and for entries that were checked at the same time.                     *)
IsolationHolds == Chain!IsolationHolds

(* A context from the pool of the chain serves one entry at a time.        *)
ContextOwned == Chain!ContextOwned
=============================================================================

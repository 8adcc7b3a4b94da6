------------------------------- MODULE MCEntry -------------------------------
(* What an entry goes through: the slot chain of its resource, and a       *)
(* circuit breaker by itself with one rule of each strategy.  One of the   *)
(* two runs, and the other stands still.                                   *)
EXTENDS SentinelEntry

VARIABLE kind

chainVars == <<gauge, passes, blocks, completes, breaker, probeNum, probed, prober, context, pool,
               entry, panics, traces, late, overlaps>>

MCRules ==
  {[strategy |-> "ErrorCount", threshold |-> 1, scale |-> 1, minRequestAmount |-> 1, probeNum |-> 0],
   [strategy |-> "ErrorRatio", threshold |-> 1, scale |-> 2, minRequestAmount |-> 2, probeNum |-> 2],
   [strategy |-> "SlowRequestRatio", threshold |-> 1, scale |-> 2, minRequestAmount |-> 1, probeNum |-> 0]}
MCEntries == 1..3
MCContexts == 1..2
MCOutbound == {2}

(* Only the one that runs starts in its initial states.  The breaker of    *)
(* the chain has opened before, which lets it get into its other states.   *)
MCInit ==
  /\ kind \in {"breaker", "chain"} /\ Init /\ Chain!Init
  /\ kind = "chain" => rule.strategy = "ErrorCount" /\ breaker = "open"
  /\ kind = "breaker" => breaker = "closed" /\ probeNum = 0

MCNext ==
  /\ kind' = kind
  /\ \/ kind = "breaker" /\ Next /\ UNCHANGED chainVars
     \/ kind = "chain" /\ Chain!Next /\ UNCHANGED vars

MCFairness ==
  /\ \A r \in Requests : WF_vars(kind = "breaker" /\ Step(r))
  /\ \A e \in Entries : WF_chainVars(kind = "chain" /\ (Chain!Step(e) \/ Chain!Exit(e)))

MCSpec == MCInit /\ [][MCNext]_<<kind, vars, chainVars>> /\ MCFairness

(* The breaker of a chain does not stay half-open, but for a panic that    *)
(* keeps its probe from it, or for too few requests.                       *)
ProbeComesBack == kind = "chain" => Chain!ProbeComesBack
=============================================================================

------------------------------ MODULE SlotChain ------------------------------
(***************************************************************************)
(* Entries of one resource on their way through the default slot chain:    *)
(* api.Entry takes a context from the pool, the chain runs its rule slots  *)
(* and its statistic slots on it, and Exit runs the statistic slots once   *)
(* more and puts the context back.  An entry keeps its pointer to the      *)
(* context for ever.  Each step below reads or writes what entries share.  *)
(***************************************************************************)
EXTENDS Integers, Sequences, FiniteSets

CONSTANTS Entries,            \* numbers of the entries, 1..n
          Contexts,           \* contexts the pool can come to hold, 1..n
          IsolationThreshold, \* of the isolation rule
          SystemThreshold,    \* of the system rule on inbound concurrency
          ProbeNums,          \* what ProbeNum of the breaker's rule may be
          Outbound,           \* bound: entries that may be outbound
          MaxPanics,          \* bound: panics of slots
          MaxTraces           \* bound: errors traced

Nodes == {"resource", "inbound"}
NoEntry == 0

(* The slots of the default chain that check something, and one of the     *)
(* user's: Add...Slot keeps a chain sorted by Order (1000 to 5000, 6000),  *)
(* whatever the order of adding.                                           *)
CheckSlots == <<"system", "flow", "isolation", "hotspot", "breaker", "custom">>

(* The statistic slots that write something, node by node.                 *)
StatSlots == <<"resource", "inbound", "hotspot", "breaker">>

VARIABLES
  gauge,     \* BaseStatNode.concurrency of the two nodes
  passes,    \* MetricEventPass of the two nodes, ever
  blocks,    \* MetricEventBlock
  completes, \* MetricEventComplete
  breaker,   \* the state of the resource's circuit breaker, which counts errors
  probeNum,  \* ProbeNum of its rule: 0 is a single probe that nobody follows
  probed,    \* its curProbeNumber
  prober,    \* history: the entry that last made it half-open, unless its
             \* completion was left out
  context,   \* the contexts
  pool,      \* the contexts in ctxPool
  entry,     \* the entries
  panics,    \* panics so far
  traces,    \* errors traced so far
  late,      \* entries an error was traced for after their exit
  overlaps   \* entries counted since some other entry was checked and let in

vars == <<gauge, passes, blocks, completes, breaker, probeNum, probed, prober, context, pool, entry,
          panics, traces, late, overlaps>>

(* err: the entry the error was set for.                                   *)
NewContext == [entry |-> NoEntry, err |-> NoEntry, result |-> "pass"]

(* at: the next of the slots of the list that pc goes through.  by: a      *)
(* rule has blocked it.  failed: the error its completion counted.         *)
NewEntry ==
  [pc |-> "new", at |-> 1, ctx |-> 0, inbound |-> FALSE, by |-> "none", result |-> "none",
   probe |-> FALSE, in |-> {}, out |-> {}, failed |-> NoEntry, others |-> 0]

TypeOK ==
  /\ gauge \in [Nodes -> -Cardinality(Entries)..Cardinality(Entries)]
  /\ {passes, blocks, completes} \subseteq [Nodes -> 0..Cardinality(Entries)]
  /\ breaker \in {"closed", "open", "half"} /\ probeNum \in ProbeNums /\ probed \in Nat
  /\ prober \in {NoEntry} \union Entries
  /\ context \in [Contexts -> [entry : {NoEntry} \union Entries, err : {NoEntry} \union Entries,
                               result : {"pass", "blocked"}]]
  /\ pool \subseteq Contexts
  /\ entry \in [Entries ->
       [pc : {"new", "check", "pass", "block", "in", "hooks", "complete", "refurbish", "done"},
        at : 1..Len(CheckSlots) + 1, ctx : {0} \union Contexts, inbound : BOOLEAN,
        by : {"none", "rule"},
        result : {"none", "pass", "blocked", "panic"},
        probe : BOOLEAN, in : SUBSET Nodes, out : SUBSET Nodes,
        failed : {NoEntry} \union Entries, others : 0..Cardinality(Entries)]]
  /\ panics \in 0..MaxPanics /\ traces \in 0..MaxTraces
  /\ late \subseteq Entries /\ overlaps \in 0..Cardinality(Entries)

Init ==
  /\ gauge = [n \in Nodes |-> 0]
  /\ passes = [n \in Nodes |-> 0] /\ blocks = [n \in Nodes |-> 0]
  /\ completes = [n \in Nodes |-> 0]
  /\ breaker \in {"closed", "open"} /\ probeNum \in ProbeNums
  /\ probed = 0 /\ prober = NoEntry
  /\ context = [c \in Contexts |-> NewContext] /\ pool = {}
  /\ entry = [e \in Entries |-> NewEntry]
  /\ panics = 0 /\ traces = 0 /\ late = {} /\ overlaps = 0

stats == <<gauge, passes, blocks, completes>>
circuit == <<breaker, probeNum, probed, prober>>
bounds == <<panics, traces, late, overlaps>>

(* Contexts that are neither in the pool nor in use are not made yet.      *)
InUse == {entry[e].ctx : e \in {f \in Entries : entry[f].pc \notin {"new", "done"}}}
Unmade == Contexts \ (pool \union InUse \union {entry[e].ctx : e \in Entries})

-----------------------------------------------------------------------------
(* api.Entry up to the chain: what the pool gives is used as it comes, and *)
(* what it makes is the first of those not made yet.                       *)
Begin(e, inbound) ==
  /\ entry[e].pc = "new" /\ \A f \in Entries : f < e => entry[f].pc # "new"
  /\ \E c \in pool \union {m \in Unmade : \A d \in Unmade : m <= d} :
       /\ context' = [context EXCEPT ![c].entry = e]
       /\ pool' = pool \ {c}
       /\ entry' = [entry EXCEPT ![e].pc = "check", ![e].ctx = c, ![e].inbound = inbound]
  /\ UNCHANGED <<stats, circuit, bounds>>

(* As Blocks, off by one (mutant).                                         *)
BlocksLate(n, threshold) == gauge[n] > threshold

Blocks(n, threshold) == gauge[n] + 1 > threshold

(* A rule on the concurrency of the inbound node; one on its rate, its     *)
(* response time, or the load of the machine may say no as well.           *)
SystemVerdicts(e) ==
  IF ~entry[e].inbound THEN {"pass"}
  ELSE {"blocked"} \union IF gauge["inbound"] >= SystemThreshold THEN {} ELSE {"pass"}

IsolationVerdicts ==
  IF Blocks("resource", IsolationThreshold) THEN {"blocked"} ELSE {"pass"}

(* TryPass: a half-open breaker lets others than the first follow when its *)
(* rule has a ProbeNum.                                                    *)
BreakerVerdicts ==
  [closed |-> {"pass"}, open |-> {"probe", "blocked"},
   half |-> IF probeNum > 0 THEN {"pass"} ELSE {"blocked"}][breaker]

(* Flow and hot spot rules depend on windows and clocks: either answer.    *)
(* An argument that is no map key makes the hot spot slot panic, and a     *)
(* slot of the user's may do what it wants.                                *)
FlowVerdicts == {"pass", "blocked"}
HotSpotVerdicts == FlowVerdicts \union IF panics < MaxPanics THEN {"panic"} ELSE {}

Verdicts(e, slot) ==
  CASE slot = "system" -> SystemVerdicts(e)
    [] slot = "flow" -> FlowVerdicts
    [] slot = "isolation" -> IsolationVerdicts
    [] slot = "breaker" -> BreakerVerdicts
    [] OTHER -> HotSpotVerdicts

(* A slot of the chain that has nothing against an entry hands back the    *)
(* result it finds in the context, which stops the chain when it is        *)
(* blocked; that of the user returns nil.                                  *)
Stops(e, slot, verdict) ==
  \/ verdict = "blocked"
  \/ /\ slot # "custom" /\ (slot = "system" => entry[e].inbound)
     /\ context[entry[e].ctx].result = "blocked"

Check(e, verdict) ==
  LET me == entry[e]  slot == CheckSlots[me.at]  stops == Stops(e, slot, verdict) IN
    /\ me.pc = "check" /\ me.at <= Len(CheckSlots)
    /\ verdict \in Verdicts(e, slot) /\ verdict # "panic"
    /\ IF verdict = "probe" THEN breaker' = "half" /\ prober' = e ELSE UNCHANGED <<breaker, prober>>
    /\ entry' = [entry EXCEPT
         ![e].probe = @ \/ verdict = "probe",
         ![e].by = IF verdict = "blocked" THEN "rule" ELSE @,
         ![e].others = IF slot = "isolation" THEN 0 ELSE @,
         ![e].at = IF stops THEN 1 ELSE @ + 1,
         ![e].pc = IF stops THEN "block" ELSE @]
    /\ context' = IF stops THEN [context EXCEPT ![me.ctx].result = "blocked"] ELSE context
    /\ UNCHANGED <<stats, probeNum, probed, pool, bounds>>

(* The deferred function of SlotChain.Entry: the error is kept in the      *)
(* context and nil is returned, which api.Entry takes for a pass.  No      *)
(* statistic slot has run.                                                 *)
CheckPanics(e) ==
  LET me == entry[e] IN
    /\ me.pc = "check" /\ me.at <= Len(CheckSlots) /\ "panic" \in Verdicts(e, CheckSlots[me.at])
    /\ context' = [context EXCEPT ![me.ctx].err = e]
    /\ entry' = [entry EXCEPT ![e].pc = "in", ![e].at = 1, ![e].result = "panic"]
    /\ panics' = panics + 1
    /\ UNCHANGED <<stats, circuit, pool, traces, late, overlaps>>

Passed(e) ==
  LET me == entry[e] IN
    /\ me.pc = "check" /\ me.at > Len(CheckSlots)
    /\ context' = [context EXCEPT ![me.ctx].result = "pass"]
    /\ entry' = [entry EXCEPT ![e].pc = "pass", ![e].at = 1, ![e].result = "pass"]
    /\ UNCHANGED <<stats, circuit, pool, bounds>>

(* The nodes stat.Slot writes for an entry, and the place after them.      *)
Written(e) == IF entry[e].inbound THEN <<"resource", "inbound">> ELSE <<"resource">>
LastOf(e) == Len(Written(e))

(* OnEntryPassed of stat.Slot, one node after the other; the slots after   *)
(* it write nothing that entries share here.                               *)
OnEntryPassed(e) ==
  LET me == entry[e]  n == Written(e)[me.at]
      waits(f) == f # e /\ entry[f].pc \in {"check", "pass"} /\ "resource" \notin entry[f].in
  IN
    /\ me.pc = "pass"
    /\ gauge' = [gauge EXCEPT ![n] = @ + 1] /\ passes' = [passes EXCEPT ![n] = @ + 1]
    /\ entry' = [f \in Entries |->
         CASE f = e -> [me EXCEPT !.in = @ \union {n}, !.at = IF @ = LastOf(e) THEN 1 ELSE @ + 1,
                                  !.pc = IF me.at = LastOf(e) THEN "in" ELSE @]
           [] n = "resource" /\ waits(f) -> [entry[f] EXCEPT !.others = @ + 1]
           [] OTHER -> entry[f]]
    /\ overlaps' = IF n = "resource" /\ me.others > 0 THEN overlaps + 1 ELSE overlaps
    /\ UNCHANGED <<blocks, completes, circuit, context, pool, panics, traces, late>>

(* OnEntryBlocked, after which api.Entry copies the error and calls Exit.  *)
OnEntryBlocked(e) ==
  LET me == entry[e]  n == Written(e)[me.at] IN
    /\ me.pc = "block"
    /\ blocks' = [blocks EXCEPT ![n] = @ + 1]
    /\ entry' = [entry EXCEPT ![e].at = IF @ = LastOf(e) THEN 1 ELSE @ + 1,
                              ![e].pc = IF me.at = LastOf(e) THEN "hooks" ELSE @,
                              ![e].result = "blocked"]
    /\ UNCHANGED <<gauge, passes, completes, circuit, context, pool, bounds>>

-----------------------------------------------------------------------------
(* TraceError, SetError, or Exit(WithError(err)) called once more, by      *)
(* whoever holds the entry, which need not be in the chain any longer.     *)
Trace(e) ==
  /\ entry[e].result \in {"pass", "panic"} /\ entry[e].pc \in {"in", "hooks", "complete", "done"}
  /\ traces < MaxTraces
  /\ context' = [context EXCEPT ![entry[e].ctx].err = e]
  /\ late' = IF entry[e].pc = "done" THEN late \union {e} ELSE late
  /\ traces' = traces + 1
  /\ UNCHANGED <<stats, circuit, pool, entry, panics, overlaps>>

(* Exit, which sync.Once lets through one time.                            *)
Exit(e) ==
  /\ entry[e].pc = "in"
  /\ entry' = [entry EXCEPT ![e].pc = "hooks"]
  /\ UNCHANGED <<stats, circuit, context, pool, bounds>>

(* As ExitHandlers, if the probe of a blocked entry stayed (mutant).       *)
ExitHandlersKeep(e) ==
  /\ entry[e].pc = "hooks"
  /\ entry' = [entry EXCEPT ![e].pc = IF entry[e].result = "blocked" THEN "refurbish" ELSE "complete"]
  /\ UNCHANGED <<stats, circuit, context, pool, bounds>>

(* As ExitHandlers, if a blocked entry was completed as well (mutant).     *)
ExitHandlersComplete(e) ==
  /\ entry[e].pc = "hooks"
  /\ entry' = [entry EXCEPT ![e].pc = "complete"]
  /\ UNCHANGED <<stats, circuit, context, pool, bounds>>

(* The exit handler a breaker has given its probe: if the entry was        *)
(* blocked after all, the breaker is open again; the probes it has counted *)
(* stay counted.                                                           *)
ExitHandlers(e) ==
  LET blocked == context[entry[e].ctx].result = "blocked" IN
    /\ entry[e].pc = "hooks"
    /\ breaker' = IF entry[e].probe /\ blocked /\ breaker = "half" THEN "open" ELSE breaker
    /\ entry' = [entry EXCEPT ![e].pc = IF blocked THEN "refurbish" ELSE "complete"]
    /\ UNCHANGED <<stats, probeNum, probed, prober, context, pool, bounds>>

(* OnCompleted of stat.Slot for a node: also for an entry a panic let in,  *)
(* which the node has never counted.                                       *)
OnCompleted(e) ==
  LET me == entry[e]  n == Written(e)[me.at] IN
    /\ me.pc = "complete" /\ me.at <= LastOf(e)
    /\ completes' = [completes EXCEPT ![n] = @ + 1] /\ gauge' = [gauge EXCEPT ![n] = @ - 1]
    /\ entry' = [entry EXCEPT ![e].out = @ \union {n}, ![e].at = @ + 1,
                              ![e].failed = context[me.ctx].err]
    /\ UNCHANGED <<passes, blocks, circuit, context, pool, bounds>>

(* What a completion does to a half-open breaker: an error opens it, and   *)
(* it closes once ProbeNum requests have completed without.                *)
OnHalfOpen(failed) ==
  /\ breaker' = IF failed THEN "open"
                ELSE IF probeNum = 0 \/ probed + 1 >= probeNum THEN "closed" ELSE "half"
  /\ probed' = IF breaker' = "half" THEN probed + 1 ELSE 0

(* The last slot tells the breaker, with the error it finds by then; one   *)
(* that is closed may have had enough errors, of this request or others.   *)
OnRequestComplete(e) ==
  LET me == entry[e] IN
    /\ me.pc = "complete" /\ me.at > LastOf(e)
    /\ \/ breaker = "open" /\ UNCHANGED <<breaker, probed>>
       \/ breaker = "half" /\ OnHalfOpen(context[me.ctx].err # NoEntry)
       \/ breaker = "closed" /\ breaker' \in {"closed", "open"} /\ UNCHANGED probed
    /\ entry' = [entry EXCEPT ![e].pc = "refurbish", ![e].at = 1]
    /\ UNCHANGED <<stats, probeNum, prober, context, pool, bounds>>

(* The hot spot slot meets an argument that is no map key under rules that *)
(* were loaded after it was checked: the slots after it are left out.      *)
CompletionPanics(e) ==
  /\ entry[e].pc = "complete" /\ entry[e].at > LastOf(e) /\ panics < MaxPanics
  /\ entry' = [entry EXCEPT ![e].pc = "refurbish", ![e].at = 1]
  /\ panics' = panics + 1
  /\ prober' = IF prober = e THEN NoEntry ELSE prober
  /\ UNCHANGED <<stats, breaker, probeNum, probed, context, pool, traces, late, overlaps>>

(* What is left of an entry: the pointer to its context.                   *)
Left(me) == [NewEntry EXCEPT !.pc = "done", !.ctx = me.ctx, !.result = me.result, !.in = me.in, !.out = me.out]

(* Every field of a context, the error too.                                *)
Reset(c) == NewContext

(* As Refurbish, if it came once more with every Exit (mutant).            *)
RefurbishTwice(e) ==
  /\ entry[e].pc \in {"refurbish", "done"} /\ entry[e].ctx \notin pool
  /\ context' = [context EXCEPT ![entry[e].ctx] = Reset(entry[e].ctx)]
  /\ pool' = pool \union {entry[e].ctx}
  /\ entry' = [entry EXCEPT ![e] = Left(@)]
  /\ UNCHANGED <<stats, circuit, bounds>>

Refurbish(e) ==
  /\ entry[e].pc = "refurbish"
  /\ context' = [context EXCEPT ![entry[e].ctx] = Reset(entry[e].ctx)]
  /\ pool' = pool \union {entry[e].ctx}
  /\ entry' = [entry EXCEPT ![e] = Left(@)]
  /\ UNCHANGED <<stats, circuit, bounds>>

-----------------------------------------------------------------------------
Step(e) ==
  \/ \E v \in {"pass", "blocked", "probe"} : Check(e, v)
  \/ CheckPanics(e) \/ Passed(e) \/ OnEntryPassed(e) \/ OnEntryBlocked(e)
  \/ ExitHandlers(e) \/ OnCompleted(e) \/ OnRequestComplete(e) \/ CompletionPanics(e) \/ Refurbish(e)

Next ==
  \E e \in Entries :
    Step(e) \/ Trace(e) \/ Exit(e) \/ \E inbound \in {TRUE, e \notin Outbound} : Begin(e, inbound)

(* Goroutines run, and whoever got an entry calls Exit: an entry waits for *)
(* one or the other.                                                       *)
Fairness == \A e \in Entries : WF_vars(Step(e) \/ Exit(e))

Spec == Init /\ [][Next]_vars /\ Fairness

-----------------------------------------------------------------------------
(* The concurrency of a node is the number of entries inside, less one for *)
(* ever for each that a panic let in; and what it has counted in and out   *)
(* tells the same.                                                         *)
GaugeExact ==
  \A n \in Nodes :
    LET inside == {e \in Entries : n \in entry[e].in \ entry[e].out}
        uncounted == {e \in Entries : n \in entry[e].out \ entry[e].in}
    IN /\ gauge[n] = Cardinality(inside) - Cardinality(uncounted)
       /\ gauge[n] = passes[n] - completes[n]
       /\ \A e \in uncounted : entry[e].result = "panic"

(* An isolation rule holds for the entries inside, but for those a panic   *)
(* let in, for the gap each of them leaves, and for those that were        *)
(* checked before another was counted.                                     *)
IsolationHolds ==
  LET inside == {e \in Entries : "resource" \in entry[e].in \ entry[e].out}
      uncounted == {e \in Entries : "resource" \in entry[e].out \ entry[e].in}
  IN Cardinality(inside) <= IsolationThreshold + Cardinality(uncounted) + overlaps

(* A context serves one entry at a time: none is blocked but by a rule, or *)
(* completes with the error of another, unless that was traced after the   *)
(* other's exit.                                                           *)
ContextOwned ==
  /\ \A e \in Entries : entry[e].pc \notin {"new", "done"} =>
       context[entry[e].ctx].entry = e /\ entry[e].ctx \notin pool
  /\ \A c \in pool : context[c].entry = NoEntry
  /\ \A e \in Entries :
       /\ (entry[e].pc = "hooks" /\ entry[e].result = "blocked") => entry[e].by # "none"
       /\ entry[e].failed \in {NoEntry, e} \union late

(* A half-open breaker is left when entries are exited, blocked probes and *)
(* panics of slots among them, but for two cases.  Without a ProbeNum, a   *)
(* panic on the way out of the very probe of this period has kept its      *)
(* completion from the breaker, which waits for it for ever.  With one,    *)
(* every entry has left and fewer than ProbeNum have succeeded: it waits   *)
(* for more, which it lets in.                                             *)
ProbeComesBack ==
  breaker = "half" ~>
    \/ breaker # "half"
    \/ probeNum = 0 /\ prober = NoEntry
    \/ probed < probeNum /\ \A e \in Entries : entry[e].pc \in {"new", "done"}

=============================================================================

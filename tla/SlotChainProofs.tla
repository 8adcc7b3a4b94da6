--------------------------- MODULE SlotChainProofs ---------------------------
(***************************************************************************)
(* Proofs about the slot chain, for any entries and contexts, and any      *)
(* isolation threshold.                                                    *)
(***************************************************************************)
EXTENDS SentinelEntry, Sequences, FiniteSetTheorems, TLAPS

(* Finitely many entries, none of which is NoEntry; 0 is no context, and   *)
(* thresholds and bounds are numbers.                                      *)
Bounds == /\ IsFiniteSet(Entries) /\ Entries \subseteq Nat \ {0} /\ Contexts \subseteq Nat \ {0}
          /\ IsolationThreshold \in Nat /\ MaxPanics \in Nat /\ MaxTraces \in Nat

-----------------------------------------------------------------------------
(* The inductive invariant *)

(* TypeOK, but for the ranges of what is counted: these follow from what   *)
(* the counters are (CountInv).                                            *)
EntryType ==
  [pc : {"new", "check", "pass", "block", "in", "hooks", "complete", "refurbish", "done"},
   at : 1..7, ctx : {0} \union Contexts, inbound : BOOLEAN,
   by : {"none", "rule"},
   result : {"none", "pass", "blocked", "panic"},
   probe : BOOLEAN, in : SUBSET Chain!Nodes, out : SUBSET Chain!Nodes,
   failed : {Chain!NoEntry} \union Entries, others : Nat]
ContextType ==
  [entry : {Chain!NoEntry} \union Entries, err : {Chain!NoEntry} \union Entries,
   result : {"pass", "blocked"}]

(* The breaker, whatever the ProbeNum of its rule.                         *)
CircuitType ==
  /\ breaker \in {"closed", "open", "half"} /\ probeNum \in ProbeNums /\ probed \in Nat
  /\ prober \in {Chain!NoEntry} \union Entries

TypeInv ==
  /\ gauge \in [Chain!Nodes -> Int]
  /\ passes \in [Chain!Nodes -> Nat] /\ blocks \in [Chain!Nodes -> Nat]
  /\ completes \in [Chain!Nodes -> Nat]
  /\ CircuitType
  /\ context \in [Contexts -> ContextType] /\ pool \subseteq Contexts
  /\ entry \in [Entries -> EntryType]
  /\ panics \in 0..MaxPanics /\ traces \in 0..MaxTraces
  /\ late \subseteq Entries /\ overlaps \in Nat

(* The nodes of an entry, and those before the place of stat.Slot in them. *)
NodesOf(e) == IF entry[e].inbound THEN Chain!Nodes ELSE {"resource"}
Before(at) == {n \in Chain!Nodes : at > IF n = "resource" THEN 1 ELSE 2}

(* What the place of an entry says of its result and of the nodes that     *)
(* have counted it.                                                        *)
PlaceOK(e) ==
  LET me == entry[e] IN
    /\ me.pc = "new" => me.at = 1 /\ me.ctx = 0
    /\ me.pc \in {"new", "check"} => me.result = "none" /\ me.in = {}
    /\ me.pc = "pass" => me.result = "pass" /\ me.at <= Chain!LastOf(e) /\ me.in = Before(me.at)
    /\ me.pc = "block" => /\ me.at <= Chain!LastOf(e) /\ me.by # "none"
                          /\ me.result = IF me.at = 1 THEN "none" ELSE "blocked"
    /\ me.pc \in {"in", "complete"} => me.result \in {"pass", "panic"}
    /\ me.pc \in {"in", "hooks"} => me.at = 1
    /\ me.pc = "hooks" => me.result # "none" /\ (me.result = "blocked" => me.by # "none")
    /\ me.pc = "complete" => me.at <= Chain!LastOf(e) + 1 /\ me.out = Before(me.at)
    /\ me.pc \in {"in", "hooks", "complete"} /\ me.result = "pass" => me.in = NodesOf(e)
    /\ me.pc \notin {"complete", "refurbish", "done"} => me.out = {}
    /\ me.result \in {"none", "blocked"} => me.in = {} /\ me.out = {}
    /\ me.result # "panic" => me.out \subseteq me.in
PlaceInv == \A e \in Entries : PlaceOK(e)

Active(e) == entry[e].pc \notin {"new", "done"}
WasBlocked(e) == entry[e].pc = "block" \/ entry[e].result = "blocked"

(* Who has a context has it alone, and finds no more in it than it and     *)
(* those that were traced late have put there; what is in the pool was     *)
(* reset; what is not made yet is as it will be made.                      *)
Owns(e) ==
  /\ context[entry[e].ctx].entry = e /\ entry[e].ctx \notin pool
  /\ context[entry[e].ctx].err \in {Chain!NoEntry, e} \union late
  /\ context[entry[e].ctx].result = "blocked" <=> WasBlocked(e)
ContextInv ==
  /\ \A e \in Entries : entry[e].pc # "new" => entry[e].ctx \in Contexts
  /\ \A e \in Entries : Active(e) => Owns(e)
  /\ \A e \in Entries : entry[e].failed \in {Chain!NoEntry, e} \union late
  /\ \A c \in pool : /\ context[c].entry = Chain!NoEntry /\ context[c].result = "pass"
                     /\ context[c].err \in {Chain!NoEntry} \union late
  /\ \A c \in Contexts : (\A e \in Entries : entry[e].ctx # c) => context[c] = Chain!NewContext

(* The entries a node has counted in and out, and those blocked that it    *)
(* has counted.                                                            *)
CountedIn(n) == {e \in Entries : n \in entry[e].in}
CountedOut(n) == {e \in Entries : n \in entry[e].out}
Refused(n) ==
  {e \in Entries : entry[e].result = "blocked" /\ (n = "inbound" => entry[e].pc # "block")}

CountInv ==
  /\ \A n \in Chain!Nodes : /\ passes[n] = Cardinality(CountedIn(n))
                            /\ completes[n] = Cardinality(CountedOut(n))
                            /\ gauge[n] = passes[n] - completes[n]
                            /\ blocks[n] <= Cardinality(Refused(n))
  /\ overlaps <= passes["resource"]
  /\ \A e \in Entries : entry[e].others <= passes["resource"]

(* Let in by the isolation slot and not counted yet.                       *)
LetIn(e) ==
  \/ entry[e].pc = "check" /\ entry[e].at > 3
  \/ entry[e].pc = "pass" /\ "resource" \notin entry[e].in

(* As long as no other entry is counted, one that was let in finds room.   *)
RoomInv ==
  /\ gauge["resource"] <= IsolationThreshold + overlaps
  /\ \A e \in Entries : LetIn(e) /\ entry[e].others = 0 => gauge["resource"] < IsolationThreshold

IInv == TypeInv /\ PlaceInv /\ ContextInv /\ CountInv /\ RoomInv

-----------------------------------------------------------------------------
(* What the definitions say *)

(* The isolation slot is the third of six.                                 *)
LEMMA SlotFacts ==
  /\ Len(Chain!CheckSlots) = 6
  /\ \A i \in 1..6 :
       /\ Chain!CheckSlots[i] \in {"system", "flow", "isolation", "hotspot", "breaker", "custom"}
       /\ Chain!CheckSlots[i] = "isolation" <=> i = 3
BY DEF Chain!CheckSlots

(* An inbound entry writes two nodes, its resource first.                  *)
LEMMA WrittenFacts ==
  \A e \in Entries :
    /\ Chain!LastOf(e) = IF entry[e].inbound THEN 2 ELSE 1
    /\ Chain!LastOf(e)' = IF entry'[e].inbound THEN 2 ELSE 1
    /\ \A i \in 1..Chain!LastOf(e) : Chain!Written(e)[i] = IF i = 1 THEN "resource" ELSE "inbound"
BY DEF Chain!LastOf, Chain!Written

(* What has been written before the first, the second and the third.       *)
LEMMA BeforeFacts ==
  Before(1) = {} /\ Before(2) = {"resource"} /\ Before(3) = Chain!Nodes
BY DEF Before, Chain!Nodes

(* All that the invariant says of an entry alone, but for others.          *)
SameEntry(f) ==
  /\ entry'[f].pc = entry[f].pc /\ entry'[f].at = entry[f].at /\ entry'[f].ctx = entry[f].ctx
  /\ entry'[f].inbound = entry[f].inbound /\ entry'[f].by = entry[f].by
  /\ entry'[f].result = entry[f].result /\ entry'[f].in = entry[f].in
  /\ entry'[f].out = entry[f].out /\ entry'[f].failed = entry[f].failed

(* An entry that is where it was is still counted accordingly.             *)
LEMMA PlaceKept ==
  ASSUME NEW f \in Entries, PlaceOK(f), SameEntry(f)
  PROVE  PlaceOK(f)'
BY WrittenFacts DEF PlaceOK, SameEntry, NodesOf, Before

(* The step of one entry leaves the others where they were.                *)
LEMMA PlacesKept ==
  ASSUME PlaceInv, NEW e \in Entries, PlaceOK(e)', \A f \in Entries \ {e} : SameEntry(f)
  PROVE  PlaceInv'
BY PlaceKept DEF PlaceInv

(* Two active entries never have the same context.                         *)
LEMMA Alone ==
  ASSUME ContextInv, NEW e \in Entries, NEW f \in Entries, Active(e), Active(f), e # f
  PROVE  entry[e].ctx # entry[f].ctx
BY DEF ContextInv, Owns

(* A step of an entry that leaves its context at most otherwise filled.    *)
LEMMA ContextKept ==
  ASSUME ContextInv, pool \subseteq Contexts, NEW e \in Entries, UNCHANGED <<pool, late>>,
         Active(e), Active(e)', Owns(e)', entry'[e].ctx = entry[e].ctx,
         entry'[e].failed \in {Chain!NoEntry, e} \union late,
         \A f \in Entries \ {e} : SameEntry(f),
         \A d \in Contexts \ {entry[e].ctx} : context'[d] = context[d]
  PROVE  ContextInv'
<1>1. ASSUME NEW f \in Entries, Active(f)' PROVE Owns(f)'
  <2>1. CASE f # e
    <3>1. SameEntry(f) /\ Active(f) /\ Owns(f) /\ entry[f].ctx \in Contexts
      BY <1>1, <2>1 DEF ContextInv, Active, SameEntry
    <3>2. context'[entry[f].ctx] = context[entry[f].ctx]
      BY <2>1, <3>1, Alone
    <3> QED BY <3>1, <3>2 DEF Owns, WasBlocked, SameEntry
  <2> QED BY <2>1
<1>2. \A f \in Entries : /\ entry'[f].pc # "new" => entry'[f].ctx \in Contexts
                         /\ entry'[f].failed \in {Chain!NoEntry, f} \union late'
                         /\ entry'[f].ctx = entry[f].ctx
  BY DEF ContextInv, Active, SameEntry
<1>3. \A d \in pool' : context'[d] = context[d]
  BY DEF ContextInv, Owns
<1>4. \A d \in pool' : /\ context'[d].entry = Chain!NoEntry /\ context'[d].result = "pass"
                       /\ context'[d].err \in {Chain!NoEntry} \union late'
  BY <1>3 DEF ContextInv, Owns
<1>5. \A d \in Contexts : (\A f \in Entries : entry'[f].ctx # d) => context'[d] = Chain!NewContext
  BY <1>2 DEF ContextInv
<1> QED BY <1>1, <1>2, <1>4, <1>5 DEF ContextInv

(* The steps of an entry, and its results.                                 *)
EntryPcs == {"new", "check", "pass", "block", "in", "hooks", "complete", "refurbish", "done"}
EntryResults == {"none", "pass", "blocked", "panic"}

(* What the steps do to the places of entries, and to where they are.      *)
LEMMA Moved ==
  ASSUME NEW t \in [Entries -> EntryType], NEW e \in Entries, NEW i \in 1..7,
         NEW p \in EntryPcs, NEW r \in EntryResults
  PROVE  /\ [t EXCEPT ![e].pc = p, ![e].at = i] \in [Entries -> EntryType]
         /\ [t EXCEPT ![e].pc = p, ![e].at = i, ![e].result = r] \in [Entries -> EntryType]
<1> DEFINE r1 == [t[e] EXCEPT !.pc = p]
           r2 == [r1 EXCEPT !.at = i]
           r3 == [r2 EXCEPT !.result = r]
<1>1. /\ [t EXCEPT ![e].pc = p, ![e].at = i] = [t EXCEPT ![e] = r2]
      /\ [t EXCEPT ![e].pc = p, ![e].at = i, ![e].result = r] = [t EXCEPT ![e] = r3]
  OBVIOUS
<1> HIDE DEF r1, r2, r3
<1>2. r1 \in EntryType
  BY DEF r1, EntryType, EntryPcs
<1>3. r2 \in EntryType
  BY <1>2 DEF r2, EntryType
<1>4. r3 \in EntryType
  BY <1>3 DEF r3, EntryType, EntryResults
<1> QED BY <1>1, <1>3, <1>4

(* What the nodes have counted is the same.                                *)
SameCounts ==
  /\ \A n \in Chain!Nodes : /\ CountedIn(n)' = CountedIn(n) /\ CountedOut(n)' = CountedOut(n)
                            /\ Refused(n)' = Refused(n)
  /\ \A e \in Entries : entry'[e].others <= passes["resource"]

(* Counts are exact while nothing is counted.                              *)
LEMMA CountsKept ==
  ASSUME CountInv, SameCounts, UNCHANGED <<Chain!stats, overlaps>>
  PROVE  CountInv'
BY DEF CountInv, SameCounts, Chain!stats

(* The entries that a node has counted are finitely many.                  *)
LEMMA CountedFinite ==
  ASSUME Bounds, NEW n \in Chain!Nodes
  PROVE  /\ IsFiniteSet(CountedIn(n)) /\ IsFiniteSet(CountedOut(n)) /\ IsFiniteSet(Refused(n))
         /\ CountedIn(n) \subseteq Entries /\ CountedOut(n) \subseteq Entries
         /\ Refused(n) \subseteq Entries
<1>1. /\ CountedIn(n) \subseteq Entries /\ CountedOut(n) \subseteq Entries
      /\ Refused(n) \subseteq Entries
  BY DEF CountedIn, CountedOut, Refused
<1> QED BY <1>1, FS_Subset DEF Bounds

-----------------------------------------------------------------------------
(* Every step keeps the invariant: <1>1 and <1>2 say what it makes of its  *)
(* own entry and of the others, <1>3 to <1>7 are the five parts.           *)

(* api.Entry up to the chain: the context taken is nobody else's.          *)
LEMMA BeginKeeps ==
  ASSUME Bounds, IInv, NEW e \in Entries, NEW inbound \in BOOLEAN, Chain!Begin(e, inbound)
  PROVE  IInv'
<1> USE DEF Chain!NoEntry
<1>t. /\ entry \in [Entries -> EntryType] /\ entry[e] \in EntryType
      /\ context \in [Contexts -> ContextType]
  BY DEF IInv, TypeInv
<1>s. /\ gauge \in [Chain!Nodes -> Int]
      /\ passes \in [Chain!Nodes -> Nat] /\ blocks \in [Chain!Nodes -> Nat]
      /\ completes \in [Chain!Nodes -> Nat] /\ overlaps \in Nat
  BY DEF IInv, TypeInv
<1>c. PICK c \in pool \union Chain!Unmade :
        /\ context' = [context EXCEPT ![c].entry = e] /\ pool' = pool \ {c}
        /\ entry' = [entry EXCEPT ![e].pc = "check", ![e].ctx = c, ![e].inbound = inbound]
  BY DEF Chain!Begin
<1>p. /\ entry[e].pc = "new" /\ c \in Contexts /\ late' = late
      /\ \A f \in Entries : f # e /\ Active(f) => entry[f].ctx # c
      /\ context[c].entry = Chain!NoEntry /\ context[c].result = "pass"
      /\ context[c].err \in {Chain!NoEntry} \union late
  BY DEF IInv, TypeInv, ContextInv, Owns, Chain!Begin, Chain!Unmade, Chain!NewContext, Chain!bounds
<1>1. /\ entry'[e].pc = "check" /\ entry'[e].at = entry[e].at /\ entry'[e].ctx = c
      /\ entry'[e].inbound = inbound /\ entry'[e].by = entry[e].by
      /\ entry'[e].result = entry[e].result /\ entry'[e].in = entry[e].in
      /\ entry'[e].out = entry[e].out /\ entry'[e].failed = entry[e].failed
      /\ entry'[e].others = entry[e].others
  BY <1>t, <1>c, <1>p, SMT DEF EntryType, Chain!Begin
<1>2. \A f \in Entries \ {e} : entry'[f] = entry[f] /\ SameEntry(f)
  BY <1>t, <1>c, <1>p, SMT DEF SameEntry, Chain!Begin
<1>x. /\ context'[c].entry = e /\ context'[c].err = context[c].err
      /\ context'[c].result = context[c].result
      /\ \A d \in Contexts \ {c} : context'[d] = context[d]
  BY <1>t, <1>c, <1>p, <1>p, SMT DEF ContextType, Chain!Begin
<1>3. TypeInv'
  <2>1. entry' \in [Entries -> EntryType]
    <3> DEFINE r1 == [entry[e] EXCEPT !.pc = "check"]
               r2 == [r1 EXCEPT !.ctx = c]
               r3 == [r2 EXCEPT !.inbound = inbound]
    <3>0. entry' = [entry EXCEPT ![e] = r3]
      BY <1>c
    <3> HIDE DEF r1, r2, r3
    <3>1. r1 \in EntryType
      BY <1>t DEF r1, EntryType
    <3>2. r2 \in EntryType
      BY <3>1, <1>t, <1>p DEF r2, EntryType
    <3>3. r3 \in EntryType
      BY <3>2, <1>t DEF r3, EntryType
    <3> QED BY <1>t, <3>0, <3>3
  <2>2. context' \in [Contexts -> ContextType]
    BY <1>t, <1>c, <1>p, <1>p, SMT DEF ContextType
  <2>3. /\ gauge' \in [Chain!Nodes -> Int]
        /\ passes' \in [Chain!Nodes -> Nat] /\ blocks' \in [Chain!Nodes -> Nat]
        /\ completes' \in [Chain!Nodes -> Nat] /\ overlaps' \in Nat
    BY <1>s DEF Chain!stats, Chain!bounds, Chain!Begin
  <2>4. /\ panics' \in 0..MaxPanics /\ traces' \in 0..MaxTraces /\ late' \subseteq Entries
        /\ pool' \subseteq Contexts
    BY <1>p, <1>c DEF IInv, TypeInv, Chain!bounds, Chain!Begin
  <2>5. CircuitType'
    BY DEF IInv, TypeInv, CircuitType, Chain!circuit, Chain!Begin
  <2> QED BY <2>1, <2>2, <2>3, <2>4, <2>5 DEF TypeInv
<1>4. PlaceInv'
  <2>1. PlaceOK(e)'
    BY <1>t, <1>1, WrittenFacts DEF IInv, PlaceInv, PlaceOK, Chain!Nodes, Chain!Begin
  <2> QED BY <1>2, <2>1, PlacesKept DEF IInv
<1>5. ContextInv'
  <2>1. \A f \in Entries : /\ entry'[f].pc # "new" => entry'[f].ctx \in Contexts
                           /\ entry'[f].failed \in {Chain!NoEntry, f} \union late'
    BY <1>1, <1>2, <1>p DEF IInv, ContextInv, Chain!bounds, Chain!Begin
  <2>2. ASSUME NEW f \in Entries, Active(f)' PROVE Owns(f)'
    <3>1. CASE f # e
      <4>1. entry'[f] = entry[f] /\ Active(f) /\ Owns(f) /\ entry[f].ctx \in Contexts
        BY <1>2, <2>2, <3>1 DEF Active, IInv, ContextInv
      <4> QED BY <1>c, <1>p, <1>x, <3>1, <4>1 DEF Owns, WasBlocked
    <3>2. CASE f = e
      BY <1>c, <1>p, <1>1, <1>x, <3>2 DEF IInv, PlaceInv, PlaceOK, Owns, WasBlocked
    <3> QED BY <3>1, <3>2
  <2>3. \A d \in pool' : /\ context'[d].entry = Chain!NoEntry /\ context'[d].result = "pass"
                         /\ context'[d].err \in {Chain!NoEntry} \union late'
    BY <1>p, <1>x, <1>c DEF IInv, ContextInv, Chain!bounds, Chain!Begin
  <2>4. ASSUME NEW d \in Contexts, \A f \in Entries : entry'[f].ctx # d
        PROVE  context'[d] = Chain!NewContext
    <3>1. d # c
      BY <1>1, <2>4
    <3>2. \A f \in Entries : entry[f].ctx # d
      BY <1>2, <2>4, <1>p DEF Bounds, IInv, PlaceInv, PlaceOK
    <3> QED BY <1>x, <3>1, <3>2 DEF IInv, ContextInv
  <2> QED BY <2>1, <2>2, <2>3, <2>4 DEF ContextInv
<1>6. RoomInv'
  <2>1. gauge' = gauge /\ overlaps' = overlaps
    BY DEF Chain!Begin, Chain!stats, Chain!bounds
  <2>2. \A f \in Entries : LetIn(f)' => LetIn(f) /\ entry'[f].others = entry[f].others
    BY <1>1, <1>2, <1>t, SlotFacts DEF LetIn, IInv, PlaceInv, PlaceOK, Chain!Begin
  <2> QED BY <2>1, <2>2 DEF IInv, RoomInv
<1>7. CountInv'
  <2>1. SameCounts
    BY <1>s, <1>t, <1>1, <1>2 DEF IInv, CountInv, SameCounts, CountedIn, CountedOut, Refused,
       Chain!Nodes, Chain!Begin
  <2> QED BY <2>1, CountsKept DEF IInv, Chain!Begin, Chain!stats, Chain!bounds
<1> QED BY <1>3, <1>4, <1>5, <1>6, <1>7 DEF IInv

(* A slot says no only by its own rule, as the context is not blocked yet; *)
(* the isolation slot lets in who finds room.                              *)
LEMMA CheckKeeps ==
  ASSUME Bounds, IInv, NEW e \in Entries, NEW v \in {"pass", "blocked", "probe"}, Chain!Check(e, v)
  PROVE  IInv'
<1> USE DEF Chain!NoEntry
<1>t. /\ entry \in [Entries -> EntryType] /\ entry[e] \in EntryType
      /\ context \in [Contexts -> ContextType]
  BY DEF IInv, TypeInv
<1>s. /\ gauge \in [Chain!Nodes -> Int]
      /\ passes \in [Chain!Nodes -> Nat] /\ blocks \in [Chain!Nodes -> Nat]
      /\ completes \in [Chain!Nodes -> Nat] /\ overlaps \in Nat
  BY DEF IInv, TypeInv
<1>p. entry[e].pc # "new" /\ entry[e].ctx \in Contexts
  BY DEF IInv, ContextInv, Chain!Check
<1>0. Chain!Stops(e, Chain!CheckSlots[entry[e].at], v) <=> v = "blocked"
  BY DEF IInv, ContextInv, PlaceInv, PlaceOK, Owns, Active, WasBlocked, Chain!Stops, Chain!Check
<1>w. /\ entry[e].at \in 1..6 /\ (Chain!CheckSlots[entry[e].at] = "isolation" <=> entry[e].at = 3)
      /\ Chain!CheckSlots[entry[e].at] # "none" /\ entry[e].pc = "check"
  BY <1>t, SlotFacts DEF EntryType, Chain!Check
<1>1. /\ entry'[e].pc = IF v = "blocked" THEN "block" ELSE "check"
      /\ entry'[e].at = IF v = "blocked" THEN 1 ELSE entry[e].at + 1
      /\ entry'[e].ctx = entry[e].ctx /\ entry'[e].inbound = entry[e].inbound
      /\ entry'[e].by = IF v = "blocked" THEN "rule" ELSE entry[e].by
      /\ entry'[e].result = entry[e].result /\ entry'[e].in = entry[e].in
      /\ entry'[e].out = entry[e].out /\ entry'[e].failed = entry[e].failed
      /\ entry'[e].others = IF Chain!CheckSlots[entry[e].at] = "isolation" THEN 0 ELSE entry[e].others
  BY <1>t, <1>0, <1>w, SlotFacts, SMT DEF EntryType, Chain!Check
<1>2. \A f \in Entries \ {e} : entry'[f] = entry[f] /\ SameEntry(f)
  <2>1. \A f \in Entries \ {e} : entry'[f] = entry[f]
    BY <1>t DEF Chain!Check
  <2> QED BY <2>1 DEF SameEntry
<1>x. /\ context'[entry[e].ctx].entry = context[entry[e].ctx].entry
      /\ context'[entry[e].ctx].err = context[entry[e].ctx].err
      /\ context'[entry[e].ctx].result = IF v = "blocked" THEN "blocked"
             ELSE context[entry[e].ctx].result
      /\ \A d \in Contexts \ {entry[e].ctx} : context'[d] = context[d]
  BY <1>t, <1>0, <1>w, SlotFacts, <1>p, SMT DEF Chain!Check
<1>3. TypeInv'
  <2>1. entry' \in [Entries -> EntryType]
    <3> DEFINE r1 == [entry[e] EXCEPT !.probe = (entry[e].probe \/ v = "probe")]
               r2 == [r1 EXCEPT !.by = IF v = "blocked" THEN "rule"
                                     ELSE entry[e].by]
               r3 == [r2 EXCEPT !.others = IF Chain!CheckSlots[entry[e].at] = "isolation" THEN 0
                                         ELSE entry[e].others]
               r4 == [r3 EXCEPT !.at = IF v = "blocked" THEN 1 ELSE entry[e].at + 1]
               r5 == [r4 EXCEPT !.pc = IF v = "blocked" THEN "block" ELSE "check"]
    <3>0. entry' = [entry EXCEPT ![e] = r5]
      BY <1>0 DEF Chain!Check
    <3> HIDE DEF r1, r2, r3, r4, r5
    <3>1. r1 \in EntryType
      BY <1>t DEF r1, EntryType
    <3>2. r2 \in EntryType
      BY <3>1, <1>t, <1>w, SlotFacts DEF r2, EntryType
    <3>3. r3 \in EntryType
      BY <3>2, <1>t DEF r3, EntryType
    <3>4. r4 \in EntryType
      BY <3>3, <1>t, <1>w DEF r4, EntryType
    <3>5. r5 \in EntryType
      BY <3>4, <1>t DEF r5, EntryType
    <3> QED BY <1>t, <3>0, <3>5
  <2>2. context' \in [Contexts -> ContextType]
    BY <1>t, <1>w, SlotFacts, <1>p, SMT DEF ContextType, Chain!Check
  <2>3. /\ gauge' \in [Chain!Nodes -> Int]
        /\ passes' \in [Chain!Nodes -> Nat] /\ blocks' \in [Chain!Nodes -> Nat]
        /\ completes' \in [Chain!Nodes -> Nat] /\ overlaps' \in Nat
    BY <1>s DEF Chain!stats, Chain!bounds, Chain!Check
  <2>4. /\ panics' \in 0..MaxPanics /\ traces' \in 0..MaxTraces /\ late' \subseteq Entries
        /\ pool' \subseteq Contexts
    BY <1>p DEF IInv, TypeInv, Chain!bounds, Chain!Check
  <2>5. CircuitType'
    BY DEF IInv, TypeInv, CircuitType, Chain!circuit, Chain!Check
  <2> QED BY <2>1, <2>2, <2>3, <2>4, <2>5 DEF TypeInv
<1>4. PlaceInv'
  <2>1. PlaceOK(e)'
    BY <1>t, <1>1, <1>w, WrittenFacts DEF IInv, PlaceInv, PlaceOK, Chain!Nodes
  <2> QED BY <1>2, <2>1, PlacesKept DEF IInv
<1>5. ContextInv'
  <2>1. /\ Active(e) /\ Active(e)' /\ entry'[e].ctx = entry[e].ctx
        /\ entry'[e].failed \in {Chain!NoEntry, e} \union late
    <3>1. Active(e) /\ Active(e)' /\ entry'[e].ctx = entry[e].ctx
      BY <1>1, <1>w DEF Active
    <3>2. entry[e].failed \in {Chain!NoEntry, e} \union late
      BY DEF IInv, ContextInv
    <3> QED BY <1>1, <3>1, <3>2
  <2>2. UNCHANGED <<pool, late>>
    BY DEF Chain!bounds, Chain!Check
  <2>3. Owns(e)'
    BY <1>1, <1>w, <1>x, <2>1, <2>2 DEF IInv, ContextInv, Owns, WasBlocked
  <2> QED BY <1>2, <1>x, <2>1, <2>2, <2>3, ContextKept DEF IInv, TypeInv
<1>6. RoomInv'
  <2>1. gauge' = gauge /\ overlaps' = overlaps
    BY DEF Chain!Check, Chain!stats, Chain!bounds
  <2>2. ASSUME NEW f \in Entries, LetIn(f)', entry'[f].others = 0
        PROVE  gauge["resource"] < IsolationThreshold
    <3>1. CASE f # e \/ entry[e].at > 3
      BY <1>w, <1>1, <1>2, <2>2, <3>1 DEF IInv, RoomInv, LetIn
    <3>2. CASE f = e /\ entry[e].at <= 3
      <4>1. Chain!CheckSlots[entry[e].at] = "isolation" /\ v # "blocked"
        BY <1>w, <1>1, <2>2, <3>2 DEF LetIn
      <4>2. v \in Chain!IsolationVerdicts
        BY <4>1 DEF Chain!Check, Chain!Verdicts
      <4> QED BY <1>s, <4>1, <4>2 DEF Chain!IsolationVerdicts, Chain!Blocks, Bounds, Chain!Nodes
    <3> QED BY <1>w, <3>1, <3>2
  <2> QED BY <2>1, <2>2 DEF IInv, RoomInv
<1>7. CountInv'
  <2>1. \A m \in Chain!Nodes : /\ CountedIn(m)' = CountedIn(m) /\ CountedOut(m)' = CountedOut(m)
                               /\ Refused(m)' = Refused(m)
    BY <1>w, <1>1, <1>2 DEF IInv, PlaceInv, PlaceOK, CountedIn, CountedOut, Refused
  <2>2. \A f \in Entries : entry'[f].others <= passes["resource"]
    BY <1>s, <1>1, <1>2 DEF IInv, CountInv, Chain!Nodes
  <2> QED BY <2>1, <2>2, CountsKept DEF IInv, SameCounts, Chain!Check, Chain!bounds
<1> QED BY <1>3, <1>4, <1>5, <1>6, <1>7 DEF IInv

(* A panic lets the entry in, past every statistic slot.                   *)
LEMMA CheckPanicsKeeps ==
  ASSUME Bounds, IInv, NEW e \in Entries, Chain!CheckPanics(e)
  PROVE  IInv'
<1> USE DEF Chain!NoEntry
<1>t. /\ entry \in [Entries -> EntryType] /\ entry[e] \in EntryType
      /\ context \in [Contexts -> ContextType]
  BY DEF IInv, TypeInv
<1>s. /\ gauge \in [Chain!Nodes -> Int]
      /\ passes \in [Chain!Nodes -> Nat] /\ blocks \in [Chain!Nodes -> Nat]
      /\ completes \in [Chain!Nodes -> Nat] /\ overlaps \in Nat
  BY DEF IInv, TypeInv
<1>p. entry[e].pc # "new" /\ entry[e].ctx \in Contexts
  BY DEF IInv, ContextInv, Chain!CheckPanics
<1>1. /\ entry'[e].pc = "in" /\ entry'[e].at = 1 /\ entry'[e].ctx = entry[e].ctx
      /\ entry'[e].inbound = entry[e].inbound /\ entry'[e].by = entry[e].by
      /\ entry'[e].result = "panic" /\ entry'[e].in = entry[e].in /\ entry'[e].out = entry[e].out
      /\ entry'[e].failed = entry[e].failed /\ entry'[e].others = entry[e].others
  BY <1>t, SMT DEF EntryType, Chain!CheckPanics
<1>2. \A f \in Entries \ {e} : entry'[f] = entry[f] /\ SameEntry(f)
  BY <1>t, SMT DEF SameEntry, Chain!CheckPanics
<1>x. /\ context'[entry[e].ctx].entry = context[entry[e].ctx].entry
      /\ context'[entry[e].ctx].err = e
      /\ context'[entry[e].ctx].result = context[entry[e].ctx].result
      /\ \A d \in Contexts \ {entry[e].ctx} : context'[d] = context[d]
  BY <1>t, <1>p, SMT DEF ContextType, Chain!CheckPanics
<1>3. TypeInv'
  <2>1. entry' \in [Entries -> EntryType]
    <3>1. [entry EXCEPT ![e].pc = "in", ![e].at = 1, ![e].result = "panic"]
            \in [Entries -> EntryType]
      <4>1. 1 \in 1..7
        OBVIOUS
      <4>2. "in" \in EntryPcs /\ "panic" \in EntryResults
        BY DEF EntryPcs, EntryResults
      <4> QED BY <1>t, <4>1, <4>2, Moved
    <3> QED BY <3>1 DEF Chain!CheckPanics
  <2>2. context' \in [Contexts -> ContextType]
    BY <1>t, <1>p, SMT DEF ContextType, Chain!CheckPanics
  <2>3. /\ gauge' \in [Chain!Nodes -> Int]
        /\ passes' \in [Chain!Nodes -> Nat] /\ blocks' \in [Chain!Nodes -> Nat]
        /\ completes' \in [Chain!Nodes -> Nat] /\ overlaps' \in Nat
    BY <1>s DEF Chain!stats, Chain!bounds, Chain!CheckPanics
  <2>4. /\ panics' \in 0..MaxPanics /\ traces' \in 0..MaxTraces /\ late' \subseteq Entries
        /\ pool' \subseteq Contexts
    <3>1. "panic" \notin Chain!BreakerVerdicts
      BY DEF IInv, TypeInv, CircuitType, Chain!BreakerVerdicts
    <3>2. panics < MaxPanics
      BY <1>p, <3>1, SlotFacts DEF Chain!CheckPanics, Chain!Verdicts, Chain!SystemVerdicts,
         Chain!IsolationVerdicts, Chain!FlowVerdicts, Chain!HotSpotVerdicts
    <3> QED BY <1>p, <3>2 DEF IInv, TypeInv, Bounds, Chain!CheckPanics
  <2>5. CircuitType'
    BY DEF IInv, TypeInv, CircuitType, Chain!circuit, Chain!CheckPanics
  <2> QED BY <2>1, <2>2, <2>3, <2>4, <2>5 DEF TypeInv
<1>4. PlaceInv'
  <2>1. PlaceOK(e)'
    BY <1>t, <1>1, WrittenFacts DEF IInv, PlaceInv, PlaceOK, Chain!Nodes, Chain!CheckPanics
  <2> QED BY <1>2, <2>1, PlacesKept DEF IInv
<1>5. ContextInv'
  <2>1. /\ Active(e) /\ Active(e)' /\ entry'[e].ctx = entry[e].ctx
        /\ entry'[e].failed \in {Chain!NoEntry, e} \union late
    BY <1>1 DEF IInv, ContextInv, Owns, Active, Chain!CheckPanics
  <2>2. UNCHANGED <<pool, late>>
    BY DEF Chain!bounds, Chain!CheckPanics
  <2>3. Owns(e)'
    BY <1>1, <1>x, <2>1, <2>2 DEF IInv, PlaceInv, PlaceOK, ContextInv, Owns, WasBlocked,
       Chain!CheckPanics
  <2> QED BY <1>2, <1>x, <2>1, <2>2, <2>3, ContextKept DEF IInv, TypeInv
<1>6. RoomInv'
  <2>1. gauge' = gauge /\ overlaps' = overlaps
    BY DEF Chain!CheckPanics, Chain!stats, Chain!bounds
  <2>2. \A f \in Entries : LetIn(f)' => LetIn(f) /\ entry'[f].others = entry[f].others
    BY <1>1, <1>2 DEF LetIn, Chain!CheckPanics
  <2> QED BY <2>1, <2>2 DEF IInv, RoomInv
<1>7. CountInv'
  <2>1. SameCounts
    BY <1>s, <1>t, <1>1, <1>2 DEF IInv, PlaceInv, PlaceOK, CountInv, SameCounts, CountedIn,
       CountedOut, Refused, Chain!Nodes, Chain!CheckPanics
  <2> QED BY <2>1, CountsKept DEF IInv, Chain!CheckPanics, Chain!stats, Chain!bounds
<1> QED BY <1>3, <1>4, <1>5, <1>6, <1>7 DEF IInv

(* The end of the chain; the entry stays let in.                           *)
LEMMA PassedKeeps ==
  ASSUME Bounds, IInv, NEW e \in Entries, Chain!Passed(e)
  PROVE  IInv'
<1> USE DEF Chain!NoEntry
<1>t. /\ entry \in [Entries -> EntryType] /\ entry[e] \in EntryType
      /\ context \in [Contexts -> ContextType]
  BY DEF IInv, TypeInv
<1>s. /\ gauge \in [Chain!Nodes -> Int]
      /\ passes \in [Chain!Nodes -> Nat] /\ blocks \in [Chain!Nodes -> Nat]
      /\ completes \in [Chain!Nodes -> Nat] /\ overlaps \in Nat
  BY DEF IInv, TypeInv
<1>p. entry[e].pc # "new" /\ entry[e].ctx \in Contexts
  BY DEF IInv, ContextInv, Chain!Passed
<1>1. /\ entry'[e].pc = "pass" /\ entry'[e].at = 1 /\ entry'[e].ctx = entry[e].ctx
      /\ entry'[e].inbound = entry[e].inbound /\ entry'[e].by = entry[e].by
      /\ entry'[e].result = "pass" /\ entry'[e].in = entry[e].in /\ entry'[e].out = entry[e].out
      /\ entry'[e].failed = entry[e].failed /\ entry'[e].others = entry[e].others
  BY <1>t, SMT DEF EntryType, Chain!Passed
<1>2. \A f \in Entries \ {e} : entry'[f] = entry[f] /\ SameEntry(f)
  BY <1>t, SMT DEF SameEntry, Chain!Passed
<1>x. /\ context'[entry[e].ctx].entry = context[entry[e].ctx].entry
      /\ context'[entry[e].ctx].err = context[entry[e].ctx].err
      /\ context'[entry[e].ctx].result = "pass"
      /\ \A d \in Contexts \ {entry[e].ctx} : context'[d] = context[d]
  BY <1>t, <1>p, SMT DEF ContextType, Chain!Passed
<1>3. TypeInv'
  <2>1. entry' \in [Entries -> EntryType]
    <3>1. [entry EXCEPT ![e].pc = "pass", ![e].at = 1, ![e].result = "pass"]
            \in [Entries -> EntryType]
      <4>1. 1 \in 1..7
        OBVIOUS
      <4>2. "pass" \in EntryPcs /\ "pass" \in EntryResults
        BY DEF EntryPcs, EntryResults
      <4> QED BY <1>t, <4>1, <4>2, Moved
    <3> QED BY <3>1 DEF Chain!Passed
  <2>2. context' \in [Contexts -> ContextType]
    BY <1>t, <1>p, SMT DEF ContextType, Chain!Passed
  <2>3. /\ gauge' \in [Chain!Nodes -> Int]
        /\ passes' \in [Chain!Nodes -> Nat] /\ blocks' \in [Chain!Nodes -> Nat]
        /\ completes' \in [Chain!Nodes -> Nat] /\ overlaps' \in Nat
    BY <1>s DEF Chain!stats, Chain!bounds, Chain!Passed
  <2>4. /\ panics' \in 0..MaxPanics /\ traces' \in 0..MaxTraces /\ late' \subseteq Entries
        /\ pool' \subseteq Contexts
    BY <1>p DEF IInv, TypeInv, Chain!bounds, Chain!Passed
  <2>5. CircuitType'
    BY DEF IInv, TypeInv, CircuitType, Chain!circuit, Chain!Passed
  <2> QED BY <2>1, <2>2, <2>3, <2>4, <2>5 DEF TypeInv
<1>4. PlaceInv'
  <2>1. PlaceOK(e)'
    BY <1>t, <1>1, WrittenFacts DEF IInv, PlaceInv, PlaceOK, Before, Chain!Nodes, Chain!Passed
  <2> QED BY <1>2, <2>1, PlacesKept DEF IInv
<1>5. ContextInv'
  <2>1. /\ Active(e) /\ Active(e)' /\ entry'[e].ctx = entry[e].ctx
        /\ entry'[e].failed \in {Chain!NoEntry, e} \union late
    BY <1>1 DEF IInv, ContextInv, Owns, Active, Chain!Passed
  <2>2. UNCHANGED <<pool, late>>
    BY DEF Chain!bounds, Chain!Passed
  <2>3. Owns(e)'
    BY <1>1, <1>x, <2>1, <2>2 DEF IInv, ContextInv, Owns, WasBlocked, Chain!Passed
  <2> QED BY <1>2, <1>x, <2>1, <2>2, <2>3, ContextKept DEF IInv, TypeInv
<1>6. RoomInv'
  <2>1. gauge' = gauge /\ overlaps' = overlaps
    BY DEF Chain!Passed, Chain!stats, Chain!bounds
  <2>2. \A f \in Entries : LetIn(f)' => LetIn(f) /\ entry'[f].others = entry[f].others
    BY <1>1, <1>2, <1>t, SlotFacts DEF EntryType, PlaceOK, Chain!Passed
  <2> QED BY <2>1, <2>2 DEF IInv, RoomInv
<1>7. CountInv'
  <2>1. SameCounts
    BY <1>s, <1>t, <1>1, <1>2 DEF IInv, PlaceInv, PlaceOK, CountInv, SameCounts, CountedIn,
       CountedOut, Refused, Chain!Nodes, Chain!Passed
  <2> QED BY <2>1, CountsKept DEF IInv, Chain!Passed, Chain!stats, Chain!bounds
<1> QED BY <1>3, <1>4, <1>5, <1>6, <1>7 DEF IInv

(* A node counts the entry in: who else was let in is no longer alone.     *)
LEMMA OnEntryPassedKeeps ==
  ASSUME Bounds, IInv, NEW e \in Entries, Chain!OnEntryPassed(e)
  PROVE  IInv'
<1> USE DEF Chain!NoEntry
<1>t. /\ entry \in [Entries -> EntryType] /\ entry[e] \in EntryType
      /\ context \in [Contexts -> ContextType]
  BY DEF IInv, TypeInv
<1>s. /\ gauge \in [Chain!Nodes -> Int]
      /\ passes \in [Chain!Nodes -> Nat] /\ blocks \in [Chain!Nodes -> Nat]
      /\ completes \in [Chain!Nodes -> Nat] /\ overlaps \in Nat
  BY DEF IInv, TypeInv
<1>p. entry[e].pc # "new" /\ entry[e].ctx \in Contexts
  BY DEF IInv, ContextInv, Chain!OnEntryPassed
<1>w. /\ Chain!LastOf(e) = (IF entry[e].inbound THEN 2 ELSE 1) /\ entry[e].at \in 1..Chain!LastOf(e)
      /\ Chain!Written(e)[entry[e].at] = (IF entry[e].at = 1 THEN "resource" ELSE "inbound")
      /\ Chain!Written(e)[entry[e].at] \in Chain!Nodes
  BY <1>t, WrittenFacts DEF IInv, EntryType, PlaceInv, PlaceOK, Chain!Nodes, Chain!OnEntryPassed
<1>1. /\ entry'[e].pc = IF entry[e].at = Chain!LastOf(e) THEN "in" ELSE "pass"
      /\ entry'[e].at = IF entry[e].at = Chain!LastOf(e) THEN 1 ELSE entry[e].at + 1
      /\ entry'[e].ctx = entry[e].ctx /\ entry'[e].inbound = entry[e].inbound
      /\ entry'[e].by = entry[e].by /\ entry'[e].result = entry[e].result
      /\ entry'[e].in = entry[e].in \union {Chain!Written(e)[entry[e].at]}
      /\ entry'[e].out = entry[e].out /\ entry'[e].failed = entry[e].failed
      /\ entry'[e].others = entry[e].others
  <2>1. entry'[e].pc = IF entry[e].at = Chain!LastOf(e) THEN "in" ELSE "pass"
    BY <1>t, <1>w DEF EntryType, Chain!OnEntryPassed
  <2>2. entry'[e].at = IF entry[e].at = Chain!LastOf(e) THEN 1 ELSE entry[e].at + 1
    BY <1>t, <1>w DEF EntryType, Chain!OnEntryPassed
  <2>3. entry'[e].in = entry[e].in \union {Chain!Written(e)[entry[e].at]}
    BY <1>t, <1>w DEF EntryType, Chain!OnEntryPassed
  <2>4. /\ entry'[e].ctx = entry[e].ctx /\ entry'[e].inbound = entry[e].inbound
       /\ entry'[e].by = entry[e].by
    BY <1>t, <1>w DEF EntryType, Chain!OnEntryPassed
  <2>5. /\ entry'[e].result = entry[e].result /\ entry'[e].out = entry[e].out
    BY <1>t, <1>w DEF EntryType, Chain!OnEntryPassed
  <2>6. /\ entry'[e].failed = entry[e].failed /\ entry'[e].others = entry[e].others
    BY <1>t, <1>w DEF EntryType, Chain!OnEntryPassed
  <2> QED BY <2>1, <2>2, <2>3, <2>4, <2>5, <2>6
<1>o. \A f \in Entries :
        entry'[f].others = IF /\ Chain!Written(e)[entry[e].at] = "resource" /\ f # e
                              /\ entry[f].pc \in {"check", "pass"} /\ "resource" \notin entry[f].in
                           THEN entry[f].others + 1 ELSE entry[f].others
  BY <1>t, <1>1 DEF EntryType, Chain!OnEntryPassed
<1>2. \A f \in Entries \ {e} : SameEntry(f)
  BY <1>t, <1>w DEF EntryType, SameEntry, Chain!OnEntryPassed
<1>3. TypeInv'
  <2>1. entry' \in [Entries -> EntryType]
    <3> DEFINE r1 == [entry[e] EXCEPT !.in = entry[e].in \union {Chain!Written(e)[entry[e].at]}]
               r2 == [r1 EXCEPT !.at = IF entry[e].at = Chain!LastOf(e) THEN 1 ELSE entry[e].at + 1]
               r3 == [r2 EXCEPT !.pc = IF entry[e].at = Chain!LastOf(e) THEN "in" ELSE "pass"]
    <3>0. entry' = [f \in Entries |->
           CASE f = e -> r3
             [] /\ Chain!Written(e)[entry[e].at] = "resource" /\ f # e
                /\ entry[f].pc \in {"check", "pass"} /\ "resource" \notin entry[f].in ->
                  [entry[f] EXCEPT !.others = @ + 1]
             [] OTHER -> entry[f]]
      BY DEF Chain!OnEntryPassed
    <3> HIDE DEF r1, r2, r3
    <3>1. r1 \in EntryType
      BY <1>t, <1>w DEF r1, EntryType, Chain!OnEntryPassed
    <3>2. r2 \in EntryType
      BY <3>1, <1>t, <1>w DEF r2, EntryType, Chain!OnEntryPassed
    <3>3. r3 \in EntryType
      BY <3>2, <1>t, <1>w DEF r3, EntryType, Chain!OnEntryPassed
    <3>4. \A f \in Entries : [entry[f] EXCEPT !.others = @ + 1] \in EntryType
      BY <1>t DEF EntryType
    <3> QED BY <1>t, <3>0, <3>3, <3>4
  <2>2. context' \in [Contexts -> ContextType]
    BY <1>t DEF Chain!OnEntryPassed
  <2>3. /\ gauge' \in [Chain!Nodes -> Int]
        /\ passes' \in [Chain!Nodes -> Nat] /\ blocks' \in [Chain!Nodes -> Nat]
        /\ completes' \in [Chain!Nodes -> Nat] /\ overlaps' \in Nat
    BY <1>s, <1>w DEF Chain!bounds, Chain!OnEntryPassed
  <2>4. /\ panics' \in 0..MaxPanics /\ traces' \in 0..MaxTraces /\ late' \subseteq Entries
        /\ pool' \subseteq Contexts
    BY <1>p DEF IInv, TypeInv, Chain!bounds, Chain!OnEntryPassed
  <2>5. CircuitType'
    BY DEF IInv, TypeInv, CircuitType, Chain!circuit, Chain!OnEntryPassed
  <2> QED BY <2>1, <2>2, <2>3, <2>4, <2>5 DEF TypeInv
<1>4. PlaceInv'
  <2>1. PlaceOK(e)'
    <3>1. entry[e].in = Before(entry[e].at) /\ entry[e].result = "pass" /\ entry[e].out = {}
      BY DEF IInv, PlaceInv, PlaceOK, Chain!OnEntryPassed
    <3>2. CASE entry[e].at = Chain!LastOf(e)
      <4>1. entry'[e].in = NodesOf(e)'
        BY <1>1, <1>w, <3>1, <3>2, BeforeFacts DEF NodesOf, Chain!Nodes
      <4> QED BY <1>1, <3>1, <3>2, <4>1 DEF PlaceOK
    <3>3. CASE entry[e].at # Chain!LastOf(e)
      <4>1. entry[e].at = 1 /\ Chain!LastOf(e)' = 2 /\ entry'[e].in = Before(2)
        BY <1>1, <1>w, <3>1, <3>3, BeforeFacts, WrittenFacts
      <4> QED BY <1>1, <3>1, <3>3, <4>1 DEF PlaceOK, Before
    <3> QED BY <3>2, <3>3
  <2> QED BY <1>2, <2>1, PlacesKept DEF IInv
<1>5. ContextInv'
  <2>1. /\ Active(e) /\ Active(e)' /\ entry'[e].ctx = entry[e].ctx
        /\ entry'[e].failed \in {Chain!NoEntry, e} \union late
    <3>1. Active(e) /\ Active(e)' /\ entry'[e].ctx = entry[e].ctx
      BY <1>1, <1>w DEF Active, Chain!OnEntryPassed
    <3>2. entry[e].failed \in {Chain!NoEntry, e} \union late
      BY DEF IInv, ContextInv
    <3> QED BY <1>1, <3>1, <3>2
  <2>2. UNCHANGED <<pool, late>>
    BY DEF Chain!bounds, Chain!OnEntryPassed
  <2>3. context' = context
    BY DEF Chain!OnEntryPassed
  <2>4. Owns(e)'
    <3>1. Owns(e)
      BY <2>1 DEF IInv, ContextInv
    <3>2. WasBlocked(e)' <=> WasBlocked(e)
      BY <1>1, <1>w DEF IInv, PlaceInv, PlaceOK, WasBlocked, Chain!OnEntryPassed
    <3> QED BY <2>1, <2>2, <2>3, <3>1, <3>2 DEF Owns
  <2> QED BY <1>2, <2>3, <2>1, <2>2, <2>4, ContextKept DEF IInv, TypeInv
<1>6. RoomInv'
  <2>1. CASE entry[e].at = 1
    <3>1. gauge'["resource"] = gauge["resource"] + 1
      BY <1>s, <1>w, <2>1 DEF Chain!Nodes, Chain!OnEntryPassed
    <3>2. LetIn(e)
      BY <2>1 DEF IInv, PlaceInv, PlaceOK, LetIn, Before, Chain!OnEntryPassed
    <3>3. gauge'["resource"] <= IsolationThreshold + overlaps'
      BY <1>s, <1>t, <1>w, <2>1, <3>1, <3>2 DEF IInv, RoomInv, EntryType, Bounds,
         Chain!OnEntryPassed
    <3>4. ASSUME NEW f \in Entries, LetIn(f)' PROVE entry'[f].others # 0
      <4>1. CASE f = e
        BY <1>w, <1>1, <2>1, <3>4, <4>1 DEF LetIn
      <4>2. CASE f # e
        <5>1. entry[f].pc \in {"check", "pass"} /\ "resource" \notin entry[f].in
          BY <1>2, <3>4, <4>2 DEF LetIn, SameEntry, IInv, PlaceInv, PlaceOK
        <5>2. entry'[f].others = entry[f].others + 1
          BY <1>o, <1>w, <2>1, <4>2, <5>1
        <5>3. entry[f].others \in Nat
          BY <1>t DEF EntryType
        <5> QED BY <5>2, <5>3
      <4> QED BY <4>1, <4>2
    <3> QED BY <3>3, <3>4 DEF RoomInv
  <2>2. CASE entry[e].at # 1
    <3>1. gauge'["resource"] = gauge["resource"] /\ overlaps' = overlaps
      BY <1>s, <1>w, <2>2 DEF Chain!Nodes, Chain!OnEntryPassed
    <3>2. \A f \in Entries : entry'[f].others = entry[f].others
      BY <1>o, <1>w, <2>2
    <3>3. entry'[e].pc = "in"
      BY <1>w, <1>1, <2>2
    <3>4. \A f \in Entries \ {e} : LetIn(f)' => LetIn(f)
      BY <1>2 DEF LetIn, SameEntry
    <3>5. \A f \in Entries : LetIn(f)' => LetIn(f)
      BY <3>3, <3>4 DEF LetIn
    <3> QED BY <3>1, <3>2, <3>5 DEF IInv, RoomInv
  <2> QED BY <2>1, <2>2
<1>7. CountInv'
  <2>n. PICK n \in Chain!Nodes : n = Chain!Written(e)[entry[e].at]
    BY <1>w
  <2>0. n \notin entry[e].in
    BY <2>n, <1>w, BeforeFacts DEF IInv, PlaceInv, PlaceOK, Chain!OnEntryPassed
  <2>1. CountedIn(n)' = CountedIn(n) \union {e} /\ e \notin CountedIn(n)
    <3>1. entry'[e].in = entry[e].in \union {n} BY <2>n, <1>1
    <3> QED BY <1>2, <2>0, <3>1 DEF CountedIn, SameEntry
  <2>2. \A m \in Chain!Nodes : m # n => CountedIn(m)' = CountedIn(m)
    BY <2>n, <1>1, <1>2 DEF CountedIn, SameEntry
  <2>3. \A m \in Chain!Nodes : CountedOut(m)' = CountedOut(m) /\ Refused(m)' = Refused(m)
    <3>1. \A f \in Entries : entry'[f].out = entry[f].out /\ entry'[f].result = entry[f].result
      BY <1>1, <1>2 DEF SameEntry
    <3>2. entry[e].result = "pass"
      BY DEF IInv, PlaceInv, PlaceOK, Chain!OnEntryPassed
    <3>3. \A f \in Entries : f # e => entry'[f].pc = entry[f].pc
      BY <1>2 DEF SameEntry
    <3> QED BY <3>1, <3>2, <3>3 DEF CountedOut, Refused
  <2>4. Cardinality(CountedIn(n)') = Cardinality(CountedIn(n)) + 1
    BY <1>w, <2>1, CountedFinite, FS_AddElement
  <2>5. /\ gauge' = [gauge EXCEPT ![n] = @ + 1] /\ passes' = [passes EXCEPT ![n] = @ + 1]
        /\ blocks' = blocks /\ completes' = completes
    BY <2>n DEF Chain!OnEntryPassed
  <2>6. ASSUME NEW m \in Chain!Nodes
        PROVE  /\ passes'[m] = Cardinality(CountedIn(m)')
               /\ completes'[m] = Cardinality(CountedOut(m)')
               /\ gauge'[m] = passes'[m] - completes'[m] /\ blocks'[m] <= Cardinality(Refused(m)')
    <3>1. CASE m = n
      <4>1. gauge[n] \in Int /\ passes[n] \in Nat /\ completes[n] \in Nat
        BY <1>s, <3>1
      <4>2. gauge'[n] = gauge[n] + 1 /\ passes'[n] = passes[n] + 1
        BY <1>s, <2>5, <3>1
      <4> QED BY <2>3, <2>4, <2>5, <3>1, <4>1, <4>2 DEF IInv, CountInv
    <3>2. CASE m # n
      BY <1>s, <2>2, <2>3, <2>5, <3>2 DEF IInv, CountInv
    <3> QED BY <3>1, <3>2
  <2>7. overlaps' <= passes'["resource"]
    BY <1>s, <1>w, <2>n, <2>5 DEF IInv, CountInv, Chain!OnEntryPassed
  <2>8. \A f \in Entries : entry'[f].others <= passes'["resource"]
    BY <1>s, <1>t, <1>o, <1>w, <2>n, <2>5 DEF IInv, CountInv, EntryType
  <2> QED BY <2>6, <2>7, <2>8 DEF CountInv
<1> QED BY <1>3, <1>4, <1>5, <1>6, <1>7 DEF IInv

(* A node counts the entry as blocked; it has a rule to show for it.       *)
LEMMA OnEntryBlockedKeeps ==
  ASSUME Bounds, IInv, NEW e \in Entries, Chain!OnEntryBlocked(e)
  PROVE  IInv'
<1> USE DEF Chain!NoEntry
<1>t. /\ entry \in [Entries -> EntryType] /\ entry[e] \in EntryType
      /\ context \in [Contexts -> ContextType]
  BY DEF IInv, TypeInv
<1>s. /\ gauge \in [Chain!Nodes -> Int]
      /\ passes \in [Chain!Nodes -> Nat] /\ blocks \in [Chain!Nodes -> Nat]
      /\ completes \in [Chain!Nodes -> Nat] /\ overlaps \in Nat
  BY DEF IInv, TypeInv
<1>p. entry[e].pc # "new" /\ entry[e].ctx \in Contexts
  BY DEF IInv, ContextInv, Chain!OnEntryBlocked
<1>w. /\ Chain!LastOf(e) = (IF entry[e].inbound THEN 2 ELSE 1) /\ entry[e].at \in 1..Chain!LastOf(e)
      /\ Chain!Written(e)[entry[e].at] = (IF entry[e].at = 1 THEN "resource" ELSE "inbound")
      /\ Chain!Written(e)[entry[e].at] \in Chain!Nodes
  BY <1>t, WrittenFacts DEF IInv, EntryType, PlaceInv, PlaceOK, Chain!OnEntryBlocked
<1>1. /\ entry'[e].pc = IF entry[e].at = Chain!LastOf(e) THEN "hooks" ELSE "block"
      /\ entry'[e].at = IF entry[e].at = Chain!LastOf(e) THEN 1 ELSE entry[e].at + 1
      /\ entry'[e].ctx = entry[e].ctx /\ entry'[e].inbound = entry[e].inbound
      /\ entry'[e].by = entry[e].by /\ entry'[e].result = "blocked" /\ entry'[e].in = entry[e].in
      /\ entry'[e].out = entry[e].out /\ entry'[e].failed = entry[e].failed
      /\ entry'[e].others = entry[e].others
  BY <1>t, <1>w, SMT DEF EntryType, Chain!OnEntryBlocked
<1>2. \A f \in Entries \ {e} : entry'[f] = entry[f] /\ SameEntry(f)
  BY <1>t, <1>w, SMT DEF SameEntry, Chain!OnEntryBlocked
<1>3. TypeInv'
  <2>1. entry' \in [Entries -> EntryType]
    <3> DEFINE r1 == [entry[e] EXCEPT !.at = IF entry[e].at = Chain!LastOf(e) THEN 1
                                             ELSE entry[e].at + 1]
               r2 == [r1 EXCEPT !.pc = IF entry[e].at = Chain!LastOf(e) THEN "hooks" ELSE "block"]
               r3 == [r2 EXCEPT !.result = "blocked"]
    <3>0. entry' = [entry EXCEPT ![e] = r3]
      BY DEF Chain!OnEntryBlocked
    <3> HIDE DEF r1, r2, r3
    <3>1. r1 \in EntryType
      BY <1>t, <1>w DEF r1, EntryType, Chain!OnEntryBlocked
    <3>2. r2 \in EntryType
      BY <3>1, <1>t, <1>w DEF r2, EntryType, Chain!OnEntryBlocked
    <3>3. r3 \in EntryType
      BY <3>2, <1>t, <1>w DEF r3, EntryType, Chain!OnEntryBlocked
    <3> QED BY <1>t, <3>0, <3>3
  <2>2. context' \in [Contexts -> ContextType]
    BY <1>t DEF Chain!OnEntryBlocked
  <2>3. /\ gauge' \in [Chain!Nodes -> Int]
        /\ passes' \in [Chain!Nodes -> Nat] /\ blocks' \in [Chain!Nodes -> Nat]
        /\ completes' \in [Chain!Nodes -> Nat] /\ overlaps' \in Nat
    BY <1>s, <1>w DEF Chain!bounds, Chain!OnEntryBlocked
  <2>4. /\ panics' \in 0..MaxPanics /\ traces' \in 0..MaxTraces /\ late' \subseteq Entries
        /\ pool' \subseteq Contexts
    BY <1>p DEF IInv, TypeInv, Chain!bounds, Chain!OnEntryBlocked
  <2>5. CircuitType'
    BY DEF IInv, TypeInv, CircuitType, Chain!circuit, Chain!OnEntryBlocked
  <2> QED BY <2>1, <2>2, <2>3, <2>4, <2>5 DEF TypeInv
<1>4. PlaceInv'
  <2>1. PlaceOK(e)'
    <3>1. entry[e].pc = "block" /\ entry[e].by # "none" /\ entry[e].in = {} /\ entry[e].out = {}
      BY DEF IInv, PlaceInv, PlaceOK, Chain!OnEntryBlocked
    <3>2. Chain!LastOf(e)' = Chain!LastOf(e)
      BY <1>1, WrittenFacts
    <3>3. CASE entry[e].at = Chain!LastOf(e)
      <4>1. entry'[e].pc = "hooks" /\ entry'[e].at = 1
        BY <1>1, <3>3
      <4> QED BY <1>1, <3>1, <4>1 DEF PlaceOK
    <3>4. CASE entry[e].at # Chain!LastOf(e)
      <4>1. entry'[e].pc = "block" /\ entry'[e].at = 2 /\ Chain!LastOf(e)' = 2
        BY <1>1, <1>w, <3>2, <3>4
      <4> QED BY <1>1, <3>1, <4>1 DEF PlaceOK
    <3> QED BY <3>3, <3>4
  <2> QED BY <1>2, <2>1, PlacesKept DEF IInv
<1>5. ContextInv'
  <2>1. /\ Active(e) /\ Active(e)' /\ entry'[e].ctx = entry[e].ctx
        /\ entry'[e].failed \in {Chain!NoEntry, e} \union late
    <3>1. Active(e) /\ Active(e)' /\ entry'[e].ctx = entry[e].ctx
      BY <1>1, <1>w DEF Active, Chain!OnEntryBlocked
    <3>2. entry[e].failed \in {Chain!NoEntry, e} \union late
      BY DEF IInv, ContextInv
    <3> QED BY <1>1, <3>1, <3>2
  <2>2. UNCHANGED <<pool, late>>
    BY DEF Chain!bounds, Chain!OnEntryBlocked
  <2>3. context' = context
    BY DEF Chain!OnEntryBlocked
  <2>4. Owns(e)'
    <3>1. Owns(e)
      BY <2>1 DEF IInv, ContextInv
    <3>2. WasBlocked(e)' <=> WasBlocked(e)
      BY <1>1, <1>w DEF IInv, PlaceInv, PlaceOK, WasBlocked, Chain!OnEntryBlocked
    <3> QED BY <2>1, <2>2, <2>3, <3>1, <3>2 DEF Owns
  <2> QED BY <1>2, <2>3, <2>1, <2>2, <2>4, ContextKept DEF IInv, TypeInv
<1>6. RoomInv'
  <2>1. \A f \in Entries : LetIn(f)' => LetIn(f) /\ entry'[f].others = entry[f].others
    BY <1>1, <1>2 DEF LetIn
  <2> QED BY <2>1 DEF IInv, RoomInv, Chain!bounds, Chain!OnEntryBlocked
<1>7. CountInv'
  <2>n. PICK n \in Chain!Nodes : n = Chain!Written(e)[entry[e].at]
    BY <1>w
  <2>1. \A m \in Chain!Nodes : CountedIn(m)' = CountedIn(m) /\ CountedOut(m)' = CountedOut(m)
    BY <1>1, <1>2 DEF CountedIn, CountedOut
  <2>2. \A f \in Entries, m \in Chain!Nodes : f # e => (f \in Refused(m)' <=> f \in Refused(m))
    BY <1>2 DEF Refused
  <2>3. n \in Chain!Nodes /\ e \in Refused(n)' /\ e \notin Refused(n)
    <3>1. entry[e].pc = "block" /\ (entry[e].at = 1 => entry[e].result = "none")
      BY DEF IInv, PlaceInv, PlaceOK, Chain!OnEntryBlocked
    <3>2. n = IF entry[e].at = 1 THEN "resource" ELSE "inbound"
      BY <1>w, <2>n
    <3>3. entry[e].at # 1 => entry'[e].pc = "hooks"
      BY <1>w, <1>1
    <3> QED BY <1>1, <2>n, <3>1, <3>2, <3>3 DEF Refused
  <2>4. \A m \in Chain!Nodes : e \in Refused(m) => e \in Refused(m)'
    BY <1>w, <2>n, <1>1 DEF PlaceInv, PlaceOK, Refused, Chain!OnEntryBlocked
  <2>5. \A m \in Chain!Nodes : Refused(m)' \subseteq Entries /\ Refused(m) \subseteq Entries
    BY DEF Refused
  <2>6. \A m \in Chain!Nodes : /\ Refused(m)' = Refused(m) \/ Refused(m)' = Refused(m) \union {e}
                               /\ m = n => Refused(m)' = Refused(m) \union {e}
    <3> QED BY <2>2, <2>3, <2>4, <2>5
  <2>7. ASSUME NEW m \in Chain!Nodes
        PROVE  /\ Cardinality(Refused(m)') \in Nat /\ Cardinality(Refused(m)) \in Nat
               /\ Cardinality(Refused(m)') >= Cardinality(Refused(m))
               /\ m = n => Cardinality(Refused(m)') = Cardinality(Refused(m)) + 1
    <3>1. IsFiniteSet(Refused(m))
      BY CountedFinite
    <3>2. /\ Cardinality(Refused(m)) \in Nat
          /\ Cardinality(Refused(m) \union {e}) =
               IF e \in Refused(m) THEN Cardinality(Refused(m)) ELSE Cardinality(Refused(m)) + 1
      BY <3>1, FS_CardinalityType, FS_AddElement
    <3> QED BY <2>3, <2>6, <3>2
  <2>8. /\ blocks' = [blocks EXCEPT ![n] = @ + 1] /\ gauge' = gauge
        /\ passes' = passes /\ completes' = completes /\ overlaps' = overlaps
    BY <2>n DEF Chain!OnEntryBlocked, Chain!bounds
  <2>9. ASSUME NEW m \in Chain!Nodes PROVE blocks'[m] <= Cardinality(Refused(m)')
    <3>1. blocks[m] <= Cardinality(Refused(m)) /\ blocks[m] \in Nat
      BY <1>s DEF IInv, CountInv
    <3>2. blocks'[m] = IF m = n THEN blocks[m] + 1 ELSE blocks[m]
      BY <1>s, <2>8
    <3> QED BY <2>7, <3>1, <3>2
  <2>10. \A f \in Entries : entry'[f].others = entry[f].others
    BY <1>1, <1>2
  <2> QED BY <2>1, <2>8, <2>9, <2>10 DEF IInv, CountInv
<1> QED BY <1>3, <1>4, <1>5, <1>6, <1>7 DEF IInv

(* An error set in a context that may be another's by now: late then.      *)
LEMMA TraceKeeps ==
  ASSUME Bounds, IInv, NEW e \in Entries, Chain!Trace(e)
  PROVE  IInv'
<1> USE DEF Chain!NoEntry
<1>t. /\ entry \in [Entries -> EntryType] /\ entry[e] \in EntryType
      /\ context \in [Contexts -> ContextType]
  BY DEF IInv, TypeInv
<1>s. /\ gauge \in [Chain!Nodes -> Int]
      /\ passes \in [Chain!Nodes -> Nat] /\ blocks \in [Chain!Nodes -> Nat]
      /\ completes \in [Chain!Nodes -> Nat] /\ overlaps \in Nat
  BY DEF IInv, TypeInv
<1>p. entry[e].pc # "new" /\ entry[e].ctx \in Contexts
  BY DEF IInv, ContextInv, Chain!Trace
<1>1. entry' = entry
  BY DEF Chain!Trace
<1>2. \A f \in Entries : SameEntry(f)
  BY <1>1 DEF SameEntry
<1>x. /\ context'[entry[e].ctx].entry = context[entry[e].ctx].entry
      /\ context'[entry[e].ctx].err = e
      /\ context'[entry[e].ctx].result = context[entry[e].ctx].result
      /\ \A d \in Contexts \ {entry[e].ctx} : context'[d] = context[d]
  BY <1>t, <1>p, SMT DEF ContextType, Chain!Trace
<1>3. TypeInv'
  <2>1. entry' \in [Entries -> EntryType]
    BY <1>t, <1>1
  <2>2. context' \in [Contexts -> ContextType]
    BY <1>t, <1>p, SMT DEF ContextType, Chain!Trace
  <2>3. /\ gauge' \in [Chain!Nodes -> Int]
        /\ passes' \in [Chain!Nodes -> Nat] /\ blocks' \in [Chain!Nodes -> Nat]
        /\ completes' \in [Chain!Nodes -> Nat] /\ overlaps' \in Nat
    BY <1>s DEF Chain!stats, Chain!bounds, Chain!Trace
  <2>4. /\ panics' \in 0..MaxPanics /\ traces' \in 0..MaxTraces /\ late' \subseteq Entries
        /\ pool' \subseteq Contexts
    BY <1>p DEF IInv, TypeInv, Bounds, Chain!bounds, Chain!Trace
  <2>5. CircuitType'
    BY DEF IInv, TypeInv, CircuitType, Chain!circuit, Chain!Trace
  <2> QED BY <2>1, <2>2, <2>3, <2>4, <2>5 DEF TypeInv
<1>4. PlaceInv'
  BY <1>2, PlaceKept DEF IInv, PlaceInv
<1>5. ContextInv'
  <2>1. \A f \in Entries : /\ entry'[f].pc # "new" => entry'[f].ctx \in Contexts
                           /\ entry'[f].failed \in {Chain!NoEntry, f} \union late'
    BY <1>1 DEF IInv, ContextInv, Chain!Trace
  <2>2. ASSUME NEW f \in Entries, Active(f)' PROVE Owns(f)'
    <3>1. Active(f) /\ Owns(f) /\ entry[f].ctx \in Contexts
      BY <1>1, <2>2 DEF Active, IInv, ContextInv
    <3>2. /\ context'[entry[f].ctx].entry = context[entry[f].ctx].entry
          /\ context'[entry[f].ctx].result = context[entry[f].ctx].result
      BY <1>x, <3>1
    <3>3. context'[entry[f].ctx].err \in {Chain!NoEntry, f} \union late'
      <4>1. CASE entry[f].ctx # entry[e].ctx
        BY <1>x, <3>1, <4>1 DEF Owns, Chain!Trace
      <4>2. CASE entry[f].ctx = entry[e].ctx /\ Active(e)
        BY <1>x, <3>1, <4>2, Alone DEF IInv
      <4>3. CASE entry[f].ctx = entry[e].ctx /\ ~Active(e)
        BY <1>x, <3>1, <4>3 DEF Active, Chain!Trace
      <4> QED BY <4>1, <4>2, <4>3
    <3> QED BY <1>1, <3>1, <3>2, <3>3 DEF Owns, WasBlocked, Chain!Trace
  <2>3. \A d \in pool' : /\ context'[d].entry = Chain!NoEntry /\ context'[d].result = "pass"
                         /\ context'[d].err \in {Chain!NoEntry} \union late'
    BY <1>p, <1>x DEF IInv, ContextInv, Owns, Active, Chain!Trace
  <2>4. \A d \in Contexts : (\A f \in Entries : entry'[f].ctx # d) => context'[d] = Chain!NewContext
    BY <1>1, <1>x DEF IInv, ContextInv
  <2> QED BY <2>1, <2>2, <2>3, <2>4 DEF ContextInv
<1>6. RoomInv'
  <2>1. gauge' = gauge /\ overlaps' = overlaps
    BY DEF Chain!Trace, Chain!stats, Chain!bounds
  <2>2. \A f \in Entries : LetIn(f)' => LetIn(f) /\ entry'[f].others = entry[f].others
    BY <1>1, <1>2 DEF LetIn, Chain!Trace
  <2> QED BY <2>1, <2>2 DEF IInv, RoomInv
<1>7. CountInv'
  <2>1. SameCounts
    BY <1>s, <1>t, <1>1, <1>2 DEF IInv, CountInv, SameCounts, CountedIn, CountedOut, Refused,
       Chain!Nodes, Chain!Trace
  <2> QED BY <2>1, CountsKept DEF IInv, Chain!Trace, Chain!stats, Chain!bounds
<1> QED BY <1>3, <1>4, <1>5, <1>6, <1>7 DEF IInv

(* An entry that exits.                                                    *)
LEMMA ExitKeeps ==
  ASSUME Bounds, IInv, NEW e \in Entries, Chain!Exit(e)
  PROVE  IInv'
<1> USE DEF Chain!NoEntry
<1>t. /\ entry \in [Entries -> EntryType] /\ entry[e] \in EntryType
      /\ context \in [Contexts -> ContextType]
  BY DEF IInv, TypeInv
<1>s. /\ gauge \in [Chain!Nodes -> Int]
      /\ passes \in [Chain!Nodes -> Nat] /\ blocks \in [Chain!Nodes -> Nat]
      /\ completes \in [Chain!Nodes -> Nat] /\ overlaps \in Nat
  BY DEF IInv, TypeInv
<1>p. entry[e].pc # "new" /\ entry[e].ctx \in Contexts
  BY DEF IInv, ContextInv, Chain!Exit
<1>1. /\ entry'[e].pc = "hooks" /\ entry'[e].at = entry[e].at /\ entry'[e].ctx = entry[e].ctx
      /\ entry'[e].inbound = entry[e].inbound /\ entry'[e].by = entry[e].by
      /\ entry'[e].result = entry[e].result /\ entry'[e].in = entry[e].in
      /\ entry'[e].out = entry[e].out /\ entry'[e].failed = entry[e].failed
      /\ entry'[e].others = entry[e].others
  BY <1>t, SMT DEF EntryType, Chain!Exit
<1>2. \A f \in Entries \ {e} : entry'[f] = entry[f] /\ SameEntry(f)
  BY <1>t, SMT DEF SameEntry, Chain!Exit
<1>3. TypeInv'
  <2>1. entry' \in [Entries -> EntryType]
    BY <1>t, <1>p, SMT DEF ContextType, EntryType, Chain!Exit
  <2>2. context' \in [Contexts -> ContextType]
    BY <1>t DEF Chain!Exit
  <2>3. /\ gauge' \in [Chain!Nodes -> Int]
        /\ passes' \in [Chain!Nodes -> Nat] /\ blocks' \in [Chain!Nodes -> Nat]
        /\ completes' \in [Chain!Nodes -> Nat] /\ overlaps' \in Nat
    BY <1>s DEF Chain!stats, Chain!bounds, Chain!Exit
  <2>4. /\ panics' \in 0..MaxPanics /\ traces' \in 0..MaxTraces /\ late' \subseteq Entries
        /\ pool' \subseteq Contexts
    BY <1>p DEF IInv, TypeInv, Chain!bounds, Chain!Exit
  <2>5. CircuitType'
    BY DEF IInv, TypeInv, CircuitType, Chain!circuit, Chain!Exit
  <2> QED BY <2>1, <2>2, <2>3, <2>4, <2>5 DEF TypeInv
<1>4. PlaceInv'
  <2>1. PlaceOK(e)'
    BY <1>t, <1>1, WrittenFacts DEF IInv, PlaceInv, PlaceOK, NodesOf, Chain!Nodes, Chain!Exit
  <2> QED BY <1>2, <2>1, PlacesKept DEF IInv
<1>5. ContextInv'
  <2>1. /\ Active(e) /\ Active(e)' /\ entry'[e].ctx = entry[e].ctx
        /\ entry'[e].failed \in {Chain!NoEntry, e} \union late
    BY <1>1 DEF IInv, ContextInv, Owns, Active, Chain!Exit
  <2>2. UNCHANGED <<pool, late>>
    BY DEF Chain!bounds, Chain!Exit
  <2>3. context' = context
    BY DEF Chain!Exit
  <2>4. Owns(e)'
    BY <1>1, <2>3, <2>1, <2>2 DEF IInv, ContextInv, Owns, WasBlocked, Chain!Exit
  <2> QED BY <1>2, <2>3, <2>1, <2>2, <2>4, ContextKept DEF IInv, TypeInv
<1>6. RoomInv'
  <2>1. gauge' = gauge /\ overlaps' = overlaps
    BY DEF Chain!Exit, Chain!stats, Chain!bounds
  <2>2. \A f \in Entries : LetIn(f)' => LetIn(f) /\ entry'[f].others = entry[f].others
    BY <1>1, <1>2 DEF LetIn, Chain!Exit
  <2> QED BY <2>1, <2>2 DEF IInv, RoomInv
<1>7. CountInv'
  <2>1. SameCounts
    BY <1>s, <1>t, <1>1, <1>2 DEF IInv, CountInv, SameCounts, CountedIn, CountedOut, Refused,
       Chain!Nodes, Chain!Exit
  <2> QED BY <2>1, CountsKept DEF IInv, Chain!Exit, Chain!stats, Chain!bounds
<1> QED BY <1>3, <1>4, <1>5, <1>6, <1>7 DEF IInv

(* Blocked entries are never completed.                                    *)
LEMMA ExitHandlersKeeps ==
  ASSUME Bounds, IInv, NEW e \in Entries, Chain!ExitHandlers(e)
  PROVE  IInv'
<1> USE DEF Chain!NoEntry
<1>t. /\ entry \in [Entries -> EntryType] /\ entry[e] \in EntryType
      /\ context \in [Contexts -> ContextType]
  BY DEF IInv, TypeInv
<1>s. /\ gauge \in [Chain!Nodes -> Int]
      /\ passes \in [Chain!Nodes -> Nat] /\ blocks \in [Chain!Nodes -> Nat]
      /\ completes \in [Chain!Nodes -> Nat] /\ overlaps \in Nat
  BY DEF IInv, TypeInv
<1>p. entry[e].pc # "new" /\ entry[e].ctx \in Contexts
  BY DEF IInv, ContextInv, Chain!ExitHandlers
<1>1. /\ entry'[e].pc = IF context[entry[e].ctx].result = "blocked" THEN "refurbish" ELSE "complete"
      /\ entry'[e].at = entry[e].at /\ entry'[e].ctx = entry[e].ctx
      /\ entry'[e].inbound = entry[e].inbound /\ entry'[e].by = entry[e].by
      /\ entry'[e].result = entry[e].result /\ entry'[e].in = entry[e].in
      /\ entry'[e].out = entry[e].out /\ entry'[e].failed = entry[e].failed
      /\ entry'[e].others = entry[e].others
  BY <1>t, SMT DEF EntryType, Chain!ExitHandlers
<1>2. \A f \in Entries \ {e} : entry'[f] = entry[f] /\ SameEntry(f)
  BY <1>t, SMT DEF SameEntry, Chain!ExitHandlers
<1>3. TypeInv'
  <2>1. entry' \in [Entries -> EntryType]
    BY <1>t, <1>p, SMT DEF ContextType, EntryType, Chain!ExitHandlers
  <2>2. context' \in [Contexts -> ContextType]
    BY <1>t DEF Chain!ExitHandlers
  <2>3. /\ gauge' \in [Chain!Nodes -> Int]
        /\ passes' \in [Chain!Nodes -> Nat] /\ blocks' \in [Chain!Nodes -> Nat]
        /\ completes' \in [Chain!Nodes -> Nat] /\ overlaps' \in Nat
    BY <1>s DEF Chain!stats, Chain!bounds, Chain!ExitHandlers
  <2>4. /\ panics' \in 0..MaxPanics /\ traces' \in 0..MaxTraces /\ late' \subseteq Entries
        /\ pool' \subseteq Contexts
    BY <1>p DEF IInv, TypeInv, Chain!bounds, Chain!ExitHandlers
  <2>5. CircuitType'
    BY DEF IInv, TypeInv, CircuitType, Chain!circuit, Chain!ExitHandlers
  <2> QED BY <2>1, <2>2, <2>3, <2>4, <2>5 DEF TypeInv
<1>4. PlaceInv'
  <2>1. PlaceOK(e)'
    BY <1>t, <1>1, WrittenFacts DEF IInv, EntryType, PlaceInv, PlaceOK, NodesOf, Before,
       Chain!Nodes, ContextInv, Owns, Active, WasBlocked, Chain!ExitHandlers
  <2> QED BY <1>2, <2>1, PlacesKept DEF IInv
<1>5. ContextInv'
  <2>1. /\ Active(e) /\ Active(e)' /\ entry'[e].ctx = entry[e].ctx
        /\ entry'[e].failed \in {Chain!NoEntry, e} \union late
    BY <1>1 DEF IInv, ContextInv, Owns, Active, Chain!ExitHandlers
  <2>2. UNCHANGED <<pool, late>>
    BY DEF Chain!bounds, Chain!ExitHandlers
  <2>3. context' = context
    BY DEF Chain!ExitHandlers
  <2>4. Owns(e)'
    BY <1>1, <2>3, <2>1, <2>2 DEF IInv, ContextInv, Owns, WasBlocked, Chain!ExitHandlers
  <2> QED BY <1>2, <2>3, <2>1, <2>2, <2>4, ContextKept DEF IInv, TypeInv
<1>6. RoomInv'
  <2>1. gauge' = gauge /\ overlaps' = overlaps
    BY DEF Chain!ExitHandlers, Chain!stats, Chain!bounds
  <2>2. \A f \in Entries : LetIn(f)' => LetIn(f) /\ entry'[f].others = entry[f].others
    BY <1>1, <1>2 DEF LetIn, Chain!ExitHandlers
  <2> QED BY <2>1, <2>2 DEF IInv, RoomInv
<1>7. CountInv'
  <2>1. SameCounts
    BY <1>s, <1>t, <1>1, <1>2 DEF IInv, CountInv, SameCounts, CountedIn, CountedOut, Refused,
       Chain!Nodes, Chain!ExitHandlers
  <2> QED BY <2>1, CountsKept DEF IInv, Chain!ExitHandlers, Chain!stats, Chain!bounds
<1> QED BY <1>3, <1>4, <1>5, <1>6, <1>7 DEF IInv

(* A node counts the entry out, and takes the error of its context.        *)
LEMMA OnCompletedKeeps ==
  ASSUME Bounds, IInv, NEW e \in Entries, Chain!OnCompleted(e)
  PROVE  IInv'
<1> USE DEF Chain!NoEntry
<1>t. /\ entry \in [Entries -> EntryType] /\ entry[e] \in EntryType
      /\ context \in [Contexts -> ContextType]
  BY DEF IInv, TypeInv
<1>s. /\ gauge \in [Chain!Nodes -> Int]
      /\ passes \in [Chain!Nodes -> Nat] /\ blocks \in [Chain!Nodes -> Nat]
      /\ completes \in [Chain!Nodes -> Nat] /\ overlaps \in Nat
  BY DEF IInv, TypeInv
<1>p. entry[e].pc # "new" /\ entry[e].ctx \in Contexts
  BY DEF IInv, ContextInv, Chain!OnCompleted
<1>w. /\ Chain!LastOf(e) = (IF entry[e].inbound THEN 2 ELSE 1) /\ entry[e].at \in 1..Chain!LastOf(e)
      /\ Chain!Written(e)[entry[e].at] = (IF entry[e].at = 1 THEN "resource" ELSE "inbound")
      /\ Chain!Written(e)[entry[e].at] \in Chain!Nodes
  BY <1>t, WrittenFacts DEF EntryType, PlaceInv, PlaceOK, Chain!Nodes, Chain!OnCompleted
<1>1. /\ entry'[e].pc = entry[e].pc /\ entry'[e].at = entry[e].at + 1
      /\ entry'[e].ctx = entry[e].ctx /\ entry'[e].inbound = entry[e].inbound
      /\ entry'[e].by = entry[e].by /\ entry'[e].result = entry[e].result
      /\ entry'[e].in = entry[e].in
      /\ entry'[e].out = entry[e].out \union {Chain!Written(e)[entry[e].at]}
      /\ entry'[e].failed = context[entry[e].ctx].err /\ entry'[e].others = entry[e].others
  BY <1>t, <1>w, SMT DEF EntryType, Chain!OnCompleted
<1>2. \A f \in Entries \ {e} : entry'[f] = entry[f] /\ SameEntry(f)
  BY <1>t, <1>w, SMT DEF SameEntry, Chain!OnCompleted
<1>3. TypeInv'
  <2>1. entry' \in [Entries -> EntryType]
    BY <1>t, <1>w, <1>p, SMT DEF ContextType, EntryType, Chain!OnCompleted
  <2>2. context' \in [Contexts -> ContextType]
    BY <1>t DEF Chain!OnCompleted
  <2>3. /\ gauge' \in [Chain!Nodes -> Int]
        /\ passes' \in [Chain!Nodes -> Nat] /\ blocks' \in [Chain!Nodes -> Nat]
        /\ completes' \in [Chain!Nodes -> Nat] /\ overlaps' \in Nat
    BY <1>s, <1>w DEF Chain!bounds, Chain!OnCompleted
  <2>4. /\ panics' \in 0..MaxPanics /\ traces' \in 0..MaxTraces /\ late' \subseteq Entries
        /\ pool' \subseteq Contexts
    BY <1>p DEF IInv, TypeInv, Chain!bounds, Chain!OnCompleted
  <2>5. CircuitType'
    BY DEF IInv, TypeInv, CircuitType, Chain!circuit, Chain!OnCompleted
  <2> QED BY <2>1, <2>2, <2>3, <2>4, <2>5 DEF TypeInv
<1>4. PlaceInv'
  <2>1. PlaceOK(e)'
    BY <1>t, <1>1, <1>w, BeforeFacts, WrittenFacts DEF EntryType, Chain!OnCompleted
  <2> QED BY <1>2, <2>1, PlacesKept DEF IInv
<1>5. ContextInv'
  <2>1. /\ Active(e) /\ Active(e)' /\ entry'[e].ctx = entry[e].ctx
        /\ entry'[e].failed \in {Chain!NoEntry, e} \union late
    BY <1>1, <1>w DEF IInv, ContextInv, Owns, Active, Chain!OnCompleted
  <2>2. UNCHANGED <<pool, late>>
    BY DEF Chain!bounds, Chain!OnCompleted
  <2>3. context' = context
    BY DEF Chain!OnCompleted
  <2>4. Owns(e)'
    BY <1>1, <1>w, <2>3, <2>1, <2>2 DEF IInv, ContextInv, Owns, WasBlocked, Chain!OnCompleted
  <2> QED BY <1>2, <2>3, <2>1, <2>2, <2>4, ContextKept DEF IInv, TypeInv
<1>6. RoomInv'
  <2>1. \A f \in Entries : LetIn(f)' => LetIn(f) /\ entry'[f].others = entry[f].others
    BY <1>1, <1>2 DEF LetIn, Chain!OnCompleted
  <2>2. gauge'["resource"] <= gauge["resource"] /\ gauge'["resource"] \in Int
    BY <1>s, <1>w DEF Chain!Nodes, Chain!OnCompleted
  <2>3. gauge["resource"] \in Int /\ overlaps' = overlaps
    BY <1>s DEF Chain!Nodes, Chain!bounds, Chain!OnCompleted
  <2>4. overlaps \in Nat /\ IsolationThreshold \in Nat /\ gauge["resource"] <= IsolationThreshold + overlaps
    BY <1>s DEF IInv, RoomInv, Bounds
  <2>5. gauge'["resource"] <= IsolationThreshold + overlaps'
    BY <2>2, <2>3, <2>4
  <2>6. \A f \in Entries : LetIn(f)' /\ entry'[f].others = 0 => gauge'["resource"] < IsolationThreshold
    BY <2>1, <2>2, <2>3, <2>4 DEF IInv, RoomInv
  <2> QED BY <2>5, <2>6 DEF RoomInv
<1>7. CountInv'
  <2>n. PICK n \in Chain!Nodes : n = Chain!Written(e)[entry[e].at]
    BY <1>w
  <2>0. n \notin entry[e].out
    BY <2>n, <1>w, BeforeFacts DEF IInv, PlaceInv, PlaceOK, Chain!OnCompleted
  <2>1. CountedOut(n)' = CountedOut(n) \union {e} /\ e \notin CountedOut(n)
    <3>1. entry'[e].out = entry[e].out \union {n} BY <2>n, <1>1
    <3> QED BY <1>2, <2>0, <3>1 DEF CountedOut
  <2>2. \A m \in Chain!Nodes : m # n => CountedOut(m)' = CountedOut(m)
    BY <2>n, <1>1, <1>2 DEF CountedOut
  <2>3. \A m \in Chain!Nodes : CountedIn(m)' = CountedIn(m) /\ Refused(m)' = Refused(m)
    BY <1>1, <1>2 DEF CountedIn, Refused
  <2>4. Cardinality(CountedOut(n)') = Cardinality(CountedOut(n)) + 1
    BY <1>w, <2>1, CountedFinite, FS_AddElement
  <2>5. /\ gauge' = [gauge EXCEPT ![n] = @ - 1] /\ completes' = [completes EXCEPT ![n] = @ + 1]
        /\ blocks' = blocks /\ passes' = passes /\ overlaps' = overlaps
    BY <2>n DEF Chain!OnCompleted, Chain!bounds
  <2>6. ASSUME NEW m \in Chain!Nodes
        PROVE  /\ passes'[m] = Cardinality(CountedIn(m)')
               /\ completes'[m] = Cardinality(CountedOut(m)')
               /\ gauge'[m] = passes'[m] - completes'[m] /\ blocks'[m] <= Cardinality(Refused(m)')
    <3>1. CASE m = n
      <4>1. gauge[n] \in Int /\ passes[n] \in Nat /\ completes[n] \in Nat
        BY <1>s, <3>1
      <4>2. gauge'[n] = gauge[n] - 1 /\ completes'[n] = completes[n] + 1
        BY <1>s, <2>5, <3>1
      <4> QED BY <2>3, <2>4, <2>5, <3>1, <4>1, <4>2 DEF IInv, CountInv
    <3>2. CASE m # n
      BY <1>s, <2>2, <2>3, <2>5, <3>2 DEF IInv, CountInv
    <3> QED BY <3>1, <3>2
  <2>7. \A f \in Entries : entry'[f].others = entry[f].others
    BY <1>1, <1>2
  <2> QED BY <2>5, <2>6, <2>7 DEF IInv, CountInv
<1> QED BY <1>3, <1>4, <1>5, <1>6, <1>7 DEF IInv

(* The last slot tells the breakers.                                       *)
LEMMA OnRequestCompleteKeeps ==
  ASSUME Bounds, IInv, NEW e \in Entries, Chain!OnRequestComplete(e)
  PROVE  IInv'
<1> USE DEF Chain!NoEntry
<1>t. /\ entry \in [Entries -> EntryType] /\ entry[e] \in EntryType
      /\ context \in [Contexts -> ContextType]
  BY DEF IInv, TypeInv
<1>s. /\ gauge \in [Chain!Nodes -> Int]
      /\ passes \in [Chain!Nodes -> Nat] /\ blocks \in [Chain!Nodes -> Nat]
      /\ completes \in [Chain!Nodes -> Nat] /\ overlaps \in Nat
  BY DEF IInv, TypeInv
<1>p. entry[e].pc # "new" /\ entry[e].ctx \in Contexts
  BY DEF IInv, ContextInv, Chain!OnRequestComplete
<1>1. /\ entry'[e].pc = "refurbish" /\ entry'[e].at = 1 /\ entry'[e].ctx = entry[e].ctx
      /\ entry'[e].inbound = entry[e].inbound /\ entry'[e].by = entry[e].by
      /\ entry'[e].result = entry[e].result /\ entry'[e].in = entry[e].in
      /\ entry'[e].out = entry[e].out /\ entry'[e].failed = entry[e].failed
      /\ entry'[e].others = entry[e].others
  BY <1>t, SMT DEF EntryType, Chain!OnRequestComplete
<1>2. \A f \in Entries \ {e} : entry'[f] = entry[f] /\ SameEntry(f)
  BY <1>t, SMT DEF SameEntry, Chain!OnRequestComplete
<1>3. TypeInv'
  <2>1. entry' \in [Entries -> EntryType]
    <3>1. [entry EXCEPT ![e].pc = "refurbish", ![e].at = 1]
            \in [Entries -> EntryType]
      <4>1. 1 \in 1..7
        OBVIOUS
      <4>2. "refurbish" \in EntryPcs /\ "none" \in EntryResults
        BY DEF EntryPcs, EntryResults
      <4> QED BY <1>t, <4>1, <4>2, Moved
    <3> QED BY <3>1 DEF Chain!OnRequestComplete
  <2>2. context' \in [Contexts -> ContextType]
    BY <1>t DEF Chain!OnRequestComplete
  <2>3. /\ gauge' \in [Chain!Nodes -> Int]
        /\ passes' \in [Chain!Nodes -> Nat] /\ blocks' \in [Chain!Nodes -> Nat]
        /\ completes' \in [Chain!Nodes -> Nat] /\ overlaps' \in Nat
    BY <1>s DEF Chain!stats, Chain!bounds, Chain!OnRequestComplete
  <2>4. /\ panics' \in 0..MaxPanics /\ traces' \in 0..MaxTraces /\ late' \subseteq Entries
        /\ pool' \subseteq Contexts
    BY <1>p DEF IInv, TypeInv, Chain!bounds, Chain!OnRequestComplete
  <2>5. CircuitType'
    BY DEF IInv, TypeInv, CircuitType, Chain!circuit, Chain!OnRequestComplete, Chain!OnHalfOpen
  <2> QED BY <2>1, <2>2, <2>3, <2>4, <2>5 DEF TypeInv
<1>4. PlaceInv'
  <2>1. PlaceOK(e)'
    BY <1>t, <1>1, WrittenFacts DEF EntryType, Before, Chain!Nodes, Chain!OnRequestComplete
  <2> QED BY <1>2, <2>1, PlacesKept DEF IInv
<1>5. ContextInv'
  <2>1. /\ Active(e) /\ Active(e)' /\ entry'[e].ctx = entry[e].ctx
        /\ entry'[e].failed \in {Chain!NoEntry, e} \union late
    BY <1>1 DEF IInv, ContextInv, Owns, Active, Chain!OnRequestComplete
  <2>2. UNCHANGED <<pool, late>>
    BY DEF Chain!bounds, Chain!OnRequestComplete
  <2>3. context' = context
    BY DEF Chain!OnRequestComplete
  <2>4. Owns(e)'
    BY <1>1, <2>3, <2>1, <2>2 DEF IInv, ContextInv, Owns, WasBlocked, Chain!OnRequestComplete
  <2> QED BY <1>2, <2>3, <2>1, <2>2, <2>4, ContextKept DEF IInv, TypeInv
<1>6. RoomInv'
  <2>1. gauge' = gauge /\ overlaps' = overlaps
    BY DEF Chain!OnRequestComplete, Chain!stats, Chain!bounds
  <2>2. \A f \in Entries : LetIn(f)' => LetIn(f) /\ entry'[f].others = entry[f].others
    BY <1>1, <1>2 DEF LetIn, Chain!OnRequestComplete
  <2> QED BY <2>1, <2>2 DEF IInv, RoomInv
<1>7. CountInv'
  <2>1. SameCounts
    BY <1>s, <1>t, <1>1, <1>2 DEF IInv, CountInv, SameCounts, CountedIn, CountedOut, Refused,
       Chain!Nodes, Chain!OnRequestComplete
  <2> QED BY <2>1, CountsKept DEF IInv, Chain!OnRequestComplete, Chain!stats, Chain!bounds
<1> QED BY <1>3, <1>4, <1>5, <1>6, <1>7 DEF IInv

(* A panic skips the slots that come after.                                *)
LEMMA CompletionPanicsKeeps ==
  ASSUME Bounds, IInv, NEW e \in Entries, Chain!CompletionPanics(e)
  PROVE  IInv'
<1> USE DEF Chain!NoEntry
<1>t. /\ entry \in [Entries -> EntryType] /\ entry[e] \in EntryType
      /\ context \in [Contexts -> ContextType]
  BY DEF IInv, TypeInv
<1>s. /\ gauge \in [Chain!Nodes -> Int]
      /\ passes \in [Chain!Nodes -> Nat] /\ blocks \in [Chain!Nodes -> Nat]
      /\ completes \in [Chain!Nodes -> Nat] /\ overlaps \in Nat
  BY DEF IInv, TypeInv
<1>p. entry[e].pc # "new" /\ entry[e].ctx \in Contexts
  BY DEF IInv, ContextInv, Chain!CompletionPanics
<1>1. /\ entry'[e].pc = "refurbish" /\ entry'[e].at = 1 /\ entry'[e].ctx = entry[e].ctx
      /\ entry'[e].inbound = entry[e].inbound /\ entry'[e].by = entry[e].by
      /\ entry'[e].result = entry[e].result /\ entry'[e].in = entry[e].in
      /\ entry'[e].out = entry[e].out /\ entry'[e].failed = entry[e].failed
      /\ entry'[e].others = entry[e].others
  BY <1>t, SMT DEF EntryType, Chain!CompletionPanics
<1>2. \A f \in Entries \ {e} : entry'[f] = entry[f] /\ SameEntry(f)
  BY <1>t, SMT DEF SameEntry, Chain!CompletionPanics
<1>3. TypeInv'
  <2>1. entry' \in [Entries -> EntryType]
    <3>1. [entry EXCEPT ![e].pc = "refurbish", ![e].at = 1]
            \in [Entries -> EntryType]
      <4>1. 1 \in 1..7
        OBVIOUS
      <4>2. "refurbish" \in EntryPcs /\ "none" \in EntryResults
        BY DEF EntryPcs, EntryResults
      <4> QED BY <1>t, <4>1, <4>2, Moved
    <3> QED BY <3>1 DEF Chain!CompletionPanics
  <2>2. context' \in [Contexts -> ContextType]
    BY <1>t DEF Chain!CompletionPanics
  <2>3. /\ gauge' \in [Chain!Nodes -> Int]
        /\ passes' \in [Chain!Nodes -> Nat] /\ blocks' \in [Chain!Nodes -> Nat]
        /\ completes' \in [Chain!Nodes -> Nat] /\ overlaps' \in Nat
    BY <1>s DEF Chain!stats, Chain!bounds, Chain!CompletionPanics
  <2>4. /\ panics' \in 0..MaxPanics /\ traces' \in 0..MaxTraces /\ late' \subseteq Entries
        /\ pool' \subseteq Contexts
    BY <1>p DEF IInv, TypeInv, Bounds, Chain!bounds, Chain!CompletionPanics
  <2>5. CircuitType'
    BY DEF IInv, TypeInv, CircuitType, Chain!circuit, Chain!CompletionPanics
  <2> QED BY <2>1, <2>2, <2>3, <2>4, <2>5 DEF TypeInv
<1>4. PlaceInv'
  <2>1. PlaceOK(e)'
    BY <1>t, <1>1, WrittenFacts DEF EntryType, Before, Chain!Nodes, Chain!CompletionPanics
  <2> QED BY <1>2, <2>1, PlacesKept DEF IInv
<1>5. ContextInv'
  <2>1. /\ Active(e) /\ Active(e)' /\ entry'[e].ctx = entry[e].ctx
        /\ entry'[e].failed \in {Chain!NoEntry, e} \union late
    BY <1>1 DEF IInv, ContextInv, Owns, Active, Chain!CompletionPanics
  <2>2. UNCHANGED <<pool, late>>
    BY DEF Chain!bounds, Chain!CompletionPanics
  <2>3. context' = context
    BY DEF Chain!CompletionPanics
  <2>4. Owns(e)'
    BY <1>1, <2>3, <2>1, <2>2 DEF IInv, ContextInv, Owns, WasBlocked, Chain!CompletionPanics
  <2> QED BY <1>2, <2>3, <2>1, <2>2, <2>4, ContextKept DEF IInv, TypeInv
<1>6. RoomInv'
  <2>1. gauge' = gauge /\ overlaps' = overlaps
    BY DEF Chain!CompletionPanics, Chain!stats, Chain!bounds
  <2>2. \A f \in Entries : LetIn(f)' => LetIn(f) /\ entry'[f].others = entry[f].others
    BY <1>1, <1>2 DEF LetIn, Chain!CompletionPanics
  <2> QED BY <2>1, <2>2 DEF IInv, RoomInv
<1>7. CountInv'
  <2>1. SameCounts
    BY <1>s, <1>t, <1>1, <1>2 DEF IInv, CountInv, SameCounts, CountedIn, CountedOut, Refused,
       Chain!Nodes, Chain!CompletionPanics
  <2> QED BY <2>1, CountsKept DEF IInv, Chain!CompletionPanics, Chain!stats, Chain!bounds
<1> QED BY <1>3, <1>4, <1>5, <1>6, <1>7 DEF IInv

(* The context is reset and given back.                                    *)
LEMMA RefurbishKeeps ==
  ASSUME Bounds, IInv, NEW e \in Entries, Chain!Refurbish(e)
  PROVE  IInv'
<1> USE DEF Chain!NoEntry
<1>t. /\ entry \in [Entries -> EntryType] /\ entry[e] \in EntryType
      /\ context \in [Contexts -> ContextType]
  BY DEF IInv, TypeInv
<1>s. /\ gauge \in [Chain!Nodes -> Int]
      /\ passes \in [Chain!Nodes -> Nat] /\ blocks \in [Chain!Nodes -> Nat]
      /\ completes \in [Chain!Nodes -> Nat] /\ overlaps \in Nat
  BY DEF IInv, TypeInv
<1>p. entry[e].pc # "new" /\ entry[e].ctx \in Contexts
  BY DEF IInv, ContextInv, Chain!Refurbish
<1>1. /\ entry'[e].pc = "done" /\ entry'[e].at = 1 /\ entry'[e].ctx = entry[e].ctx
      /\ entry'[e].inbound = FALSE /\ entry'[e].by = "none" /\ entry'[e].result = entry[e].result
      /\ entry'[e].in = entry[e].in /\ entry'[e].out = entry[e].out
      /\ entry'[e].failed = Chain!NoEntry
      /\ entry'[e].others = 0
  BY <1>t, SMT DEF EntryType, Chain!Refurbish, Chain!Left, Chain!NewEntry
<1>2. \A f \in Entries \ {e} : entry'[f] = entry[f] /\ SameEntry(f)
  BY <1>t, SMT DEF SameEntry, Chain!Refurbish, Chain!Left, Chain!NewEntry
<1>x. /\ context'[entry[e].ctx].entry = Chain!NoEntry /\ context'[entry[e].ctx].err = Chain!NoEntry
      /\ context'[entry[e].ctx].result = "pass"
      /\ \A d \in Contexts \ {entry[e].ctx} : context'[d] = context[d]
  BY <1>t, <1>p, SMT DEF Chain!Refurbish, Chain!NewEntry, Chain!Reset, Chain!NewContext
<1>3. TypeInv'
  <2>1. entry' \in [Entries -> EntryType]
    <3> DEFINE r1 == [Chain!NewEntry EXCEPT !.pc = "done"]
               r2 == [r1 EXCEPT !.ctx = entry[e].ctx]
               r3 == [r2 EXCEPT !.result = entry[e].result]
               r4 == [r3 EXCEPT !.in = entry[e].in]
               r5 == [r4 EXCEPT !.out = entry[e].out]
    <3>0. entry' = [entry EXCEPT ![e] = r5]
      BY DEF Chain!Refurbish, Chain!Left, Chain!NewEntry
    <3>n. Chain!NewEntry \in EntryType
      BY DEF Chain!NewEntry, EntryType
    <3> HIDE DEF r1, r2, r3, r4, r5
    <3>1. r1 \in EntryType
      BY <3>n, <1>t DEF r1, EntryType
    <3>2. r2 \in EntryType
      BY <3>1, <1>t, <1>p DEF r2, EntryType
    <3>3. r3 \in EntryType
      BY <3>2, <1>t DEF r3, EntryType
    <3>4. r4 \in EntryType
      BY <3>3, <1>t DEF r4, EntryType
    <3>5. r5 \in EntryType
      BY <3>4, <1>t DEF r5, EntryType
    <3> QED BY <1>t, <3>0, <3>5
  <2>2. context' \in [Contexts -> ContextType]
    BY <1>t, <1>p, SMT DEF ContextType, Chain!Refurbish, Chain!Reset, Chain!NewContext
  <2>3. /\ gauge' \in [Chain!Nodes -> Int]
        /\ passes' \in [Chain!Nodes -> Nat] /\ blocks' \in [Chain!Nodes -> Nat]
        /\ completes' \in [Chain!Nodes -> Nat] /\ overlaps' \in Nat
    BY <1>s DEF Chain!stats, Chain!bounds, Chain!Refurbish
  <2>4. /\ panics' \in 0..MaxPanics /\ traces' \in 0..MaxTraces /\ late' \subseteq Entries
        /\ pool' \subseteq Contexts
    BY <1>p DEF IInv, TypeInv, Chain!bounds, Chain!Refurbish
  <2>5. CircuitType'
    BY DEF IInv, TypeInv, CircuitType, Chain!circuit, Chain!Refurbish
  <2> QED BY <2>1, <2>2, <2>3, <2>4, <2>5 DEF TypeInv
<1>4. PlaceInv'
  <2>1. PlaceOK(e)'
    BY <1>t, <1>1, WrittenFacts DEF IInv, PlaceInv, PlaceOK, Chain!Nodes, Chain!Refurbish,
       Chain!Left, Chain!NewEntry
  <2> QED BY <1>2, <2>1, PlacesKept DEF IInv
<1>5. ContextInv'
  <2>1. \A f \in Entries : /\ entry'[f].pc # "new" => entry'[f].ctx \in Contexts
                           /\ entry'[f].failed \in {Chain!NoEntry, f} \union late'
    BY <1>1, <1>2, <1>p DEF IInv, ContextInv, Chain!bounds, Chain!Refurbish
  <2>2. ASSUME NEW f \in Entries, Active(f)' PROVE Owns(f)'
    <3>1. /\ f # e /\ entry'[f] = entry[f] /\ Active(f) /\ Active(e)
          /\ Owns(f) /\ entry[f].ctx \in Contexts
      BY <1>1, <1>2, <2>2 DEF Active, IInv, ContextInv, Chain!Refurbish
    <3>2. entry[f].ctx # entry[e].ctx
      BY <3>1, Alone DEF IInv
    <3> QED BY <1>x, <3>1, <3>2 DEF Owns, WasBlocked, Chain!Refurbish, Chain!bounds
  <2>3. \A d \in pool' : /\ context'[d].entry = Chain!NoEntry /\ context'[d].result = "pass"
                         /\ context'[d].err \in {Chain!NoEntry} \union late'
    BY <1>p, <1>x DEF IInv, TypeInv, ContextInv, Chain!bounds, Chain!Refurbish
  <2>4. ASSUME NEW d \in Contexts, \A f \in Entries : entry'[f].ctx # d
        PROVE  context'[d] = Chain!NewContext
    <3>1. d # entry[e].ctx
      BY <1>1, <2>4
    <3>2. \A f \in Entries : entry[f].ctx # d
      BY <1>1, <1>2, <2>4
    <3> QED BY <1>x, <3>1, <3>2 DEF IInv, ContextInv
  <2> QED BY <2>1, <2>2, <2>3, <2>4 DEF ContextInv
<1>6. RoomInv'
  <2>1. gauge' = gauge /\ overlaps' = overlaps
    BY DEF Chain!Refurbish, Chain!stats, Chain!bounds
  <2>2. \A f \in Entries : LetIn(f)' => LetIn(f) /\ entry'[f].others = entry[f].others
    BY <1>1, <1>2 DEF LetIn, Chain!Refurbish
  <2> QED BY <2>1, <2>2 DEF IInv, RoomInv
<1>7. CountInv'
  <2>1. SameCounts
    BY <1>s, <1>t, <1>1, <1>2 DEF IInv, CountInv, SameCounts, CountedIn, CountedOut, Refused,
       Chain!Nodes, Chain!Refurbish, Chain!Left, Chain!NewEntry
  <2> QED BY <2>1, CountsKept DEF IInv, Chain!Refurbish, Chain!stats, Chain!bounds
<1> QED BY <1>3, <1>4, <1>5, <1>6, <1>7 DEF IInv

-----------------------------------------------------------------------------
(* The invariant holds *)

(* It holds at the start,                                                  *)
LEMMA InitIInv ==
  ASSUME Bounds, Chain!Init
  PROVE  IInv
<1> USE DEF Chain!Init, Chain!NewEntry, Chain!NewContext, Chain!NoEntry
<1>1. TypeInv
  BY DEF TypeInv, CircuitType, EntryType, ContextType, Bounds
<1>2. PlaceInv
  BY DEF PlaceInv, PlaceOK
<1>3. ContextInv
  BY DEF ContextInv, Active
<1>4. CountInv
  <2>1. \A n \in Chain!Nodes : CountedIn(n) = {} /\ CountedOut(n) = {} /\ Refused(n) = {}
    BY DEF CountedIn, CountedOut, Refused
  <2>2. \A n \in Chain!Nodes : /\ Cardinality(CountedIn(n)) = 0 /\ Cardinality(CountedOut(n)) = 0
                               /\ Cardinality(Refused(n)) = 0
    BY <2>1, FS_EmptySet
  <2>3. "resource" \in Chain!Nodes /\ \A e \in Entries : entry[e].others = 0
    BY DEF Chain!Nodes
  <2> QED BY <2>2, <2>3 DEF CountInv
<1>5. RoomInv
  BY DEF RoomInv, LetIn, Bounds, Chain!Nodes
<1> QED BY <1>1, <1>2, <1>3, <1>4, <1>5 DEF IInv

(* while nothing happens,                                                  *)
LEMMA StutterKeeps ==
  ASSUME IInv, UNCHANGED Chain!vars
  PROVE  IInv'
<1> USE DEF Chain!vars
<1>1. TypeInv'
  BY DEF IInv, TypeInv, CircuitType
<1>2. PlaceInv'
  BY PlaceKept DEF IInv, PlaceInv, SameEntry
<1>3. ContextInv'
  BY DEF IInv, ContextInv, Owns, Active, WasBlocked
<1>4. CountInv'
  BY DEF IInv, CountInv, CountedIn, CountedOut, Refused
<1>5. RoomInv'
  BY DEF IInv, RoomInv, LetIn
<1> QED BY <1>1, <1>2, <1>3, <1>4, <1>5 DEF IInv

(* after every step of an entry,                                           *)
LEMMA NextKeeps ==
  ASSUME Bounds, IInv, [Chain!Next]_(Chain!vars)
  PROVE  IInv'
<1>1. ASSUME NEW e \in Entries, Chain!Step(e) PROVE IInv'
  BY <1>1, CheckKeeps, CheckPanicsKeeps, PassedKeeps, OnEntryPassedKeeps, OnEntryBlockedKeeps,
     ExitHandlersKeeps, OnCompletedKeeps, OnRequestCompleteKeeps, CompletionPanicsKeeps,
     RefurbishKeeps DEF Chain!Step
<1>2. ASSUME NEW e \in Entries, Chain!Trace(e) \/ Chain!Exit(e) PROVE IInv'
  BY <1>2, TraceKeeps, ExitKeeps
<1>3. ASSUME NEW e \in Entries, NEW inbound \in BOOLEAN, Chain!Begin(e, inbound) PROVE IInv'
  BY <1>3, BeginKeeps
<1>4. CASE UNCHANGED Chain!vars
  BY <1>4, StutterKeeps
<1> QED BY <1>1, <1>2, <1>3, <1>4 DEF Chain!Next

(* and so in every behaviour.                                              *)
LEMMA Invariance ==
  ASSUME Bounds
  PROVE  Chain!Spec => []IInv
<1>1. Chain!Init => IInv
  BY InitIInv
<1>2. IInv /\ [Chain!Next]_(Chain!vars) => IInv'
  BY NextKeeps
<1> QED BY <1>1, <1>2, PTL DEF Chain!Spec

-----------------------------------------------------------------------------
(* What it implies *)

(* FiniteSets of the slot chain's module is the one of this module.        *)
LEMMA SameCardinality == ASSUME NEW S PROVE Chain!Cardinality(S) = Cardinality(S)
BY DEF Cardinality, Chain!Cardinality

(* What two sets have in common does not count for the difference.         *)
LEMMA DifferenceOfSizes ==
  ASSUME NEW A, NEW B, IsFiniteSet(A), IsFiniteSet(B)
  PROVE  Cardinality(A) - Cardinality(B) = Cardinality(A \ B) - Cardinality(B \ A)
<1>1. /\ Cardinality(A \ B) = Cardinality(A) - Cardinality(A \intersect B)
      /\ Cardinality(B \ A) = Cardinality(B) - Cardinality(B \intersect A)
  BY FS_Difference
<1>2. A \intersect B = B \intersect A
  OBVIOUS
<1>3. /\ Cardinality(A) \in Nat /\ Cardinality(B) \in Nat
      /\ Cardinality(A \intersect B) \in Nat
  BY FS_CardinalityType, FS_Intersection
<1> QED BY <1>1, <1>2, <1>3

(* Nothing is counted twice, so counts are bounded by the entries.         *)
LEMMA CountedRange ==
  ASSUME Bounds, IInv, NEW n \in Chain!Nodes
  PROVE  /\ passes[n] \in 0..Cardinality(Entries) /\ blocks[n] \in 0..Cardinality(Entries)
         /\ completes[n] \in 0..Cardinality(Entries) /\ gauge[n] = passes[n] - completes[n]
<1>1. /\ Cardinality(Entries) \in Nat /\ Cardinality(CountedIn(n)) <= Cardinality(Entries)
      /\ Cardinality(CountedOut(n)) <= Cardinality(Entries)
      /\ Cardinality(Refused(n)) <= Cardinality(Entries)
  BY CountedFinite, FS_Subset, FS_CardinalityType DEF Bounds
<1>2. Cardinality(Refused(n)) \in Nat
  BY CountedFinite, FS_CardinalityType
<1>3. passes[n] \in Nat /\ blocks[n] \in Nat /\ completes[n] \in Nat
  BY DEF IInv, TypeInv
<1> QED BY <1>1, <1>2, <1>3 DEF IInv, CountInv

(* The invariant gives the types with their ranges,                        *)
LEMMA InvIsTyped ==
  ASSUME Bounds, IInv
  PROVE  Chain!TypeOK
<1> DEFINE N == Cardinality(Entries)
<1>1. N \in Nat
  BY FS_CardinalityType DEF Bounds
<1>2. gauge \in [Chain!Nodes -> -N..N]
  <2>1. \A n \in Chain!Nodes : gauge[n] \in -N..N
    BY <1>1, CountedRange
  <2> QED BY <2>1 DEF IInv, TypeInv
<1>3. {passes, blocks, completes} \subseteq [Chain!Nodes -> 0..N]
  BY CountedRange DEF IInv, TypeInv
<1>4. /\ overlaps \in 0..N /\ \A e \in Entries : entry[e].others \in 0..N
  <2>1. passes["resource"] \in 0..N
    BY CountedRange DEF Chain!Nodes
  <2>2. \A e \in Entries : entry[e].others \in Nat
    BY DEF IInv, TypeInv, EntryType
  <2> QED BY <1>1, <2>1, <2>2 DEF IInv, TypeInv, CountInv
<1>5. /\ 1..7 = 1..Len(Chain!CheckSlots) + 1
      /\ {"none", "system", "flow", "isolation", "hotspot", "breaker", "custom"}
           = {"none"} \union {Chain!CheckSlots[i] : i \in DOMAIN Chain!CheckSlots}
  BY DEF Chain!CheckSlots
<1>6. entry \in [Entries ->
       [pc : {"new", "check", "pass", "block", "in", "hooks", "complete", "refurbish", "done"},
        at : 1..Len(Chain!CheckSlots) + 1, ctx : {0} \union Contexts, inbound : BOOLEAN,
        by : {"none", "rule"},
        result : {"none", "pass", "blocked", "panic"},
        probe : BOOLEAN, in : SUBSET Chain!Nodes, out : SUBSET Chain!Nodes,
        failed : {Chain!NoEntry} \union Entries, others : 0..N]]
  <2>1. entry \in [Entries -> EntryType]
    BY DEF IInv, TypeInv
  <2> QED BY <1>4, <1>5, <2>1 DEF EntryType
<1>7. Chain!Cardinality(Entries) = N
  BY SameCardinality
<1> QED BY <1>2, <1>3, <1>4, <1>6, <1>7 DEF Chain!TypeOK, IInv, TypeInv, CircuitType, ContextType

(* the gauge as what has passed and not completed,                         *)
LEMMA InvIsExact ==
  ASSUME Bounds, IInv
  PROVE  Chain!GaugeExact
<1> SUFFICES ASSUME NEW n \in Chain!Nodes
             PROVE  LET inside == {e \in Entries : n \in entry[e].in \ entry[e].out}
                        uncounted == {e \in Entries : n \in entry[e].out \ entry[e].in}
                    IN /\ gauge[n] = Cardinality(inside) - Cardinality(uncounted)
                       /\ gauge[n] = passes[n] - completes[n]
                       /\ \A e \in uncounted : entry[e].result = "panic"
  BY SameCardinality DEF Chain!GaugeExact
<1> DEFINE inside == {e \in Entries : n \in entry[e].in \ entry[e].out}
           uncounted == {e \in Entries : n \in entry[e].out \ entry[e].in}
<1>1. inside = CountedIn(n) \ CountedOut(n) /\ uncounted = CountedOut(n) \ CountedIn(n)
  BY DEF CountedIn, CountedOut
<1>2. gauge[n] = Cardinality(inside) - Cardinality(uncounted)
  BY <1>1, CountedFinite, DifferenceOfSizes DEF IInv, CountInv
<1>3. \A e \in uncounted : entry[e].result = "panic"
  BY DEF IInv, PlaceInv, PlaceOK
<1> QED BY <1>2, <1>3 DEF IInv, CountInv

(* the isolation threshold,                                                *)
LEMMA InvIsolates ==
  ASSUME Bounds, IInv
  PROVE  Chain!IsolationHolds
<1> DEFINE inside == {e \in Entries : "resource" \in entry[e].in \ entry[e].out}
           uncounted == {e \in Entries : "resource" \in entry[e].out \ entry[e].in}
<1>1. gauge["resource"] = Cardinality(inside) - Cardinality(uncounted)
  BY InvIsExact, SameCardinality DEF Chain!GaugeExact, Chain!Nodes
<1>2. Cardinality(inside) \in Nat /\ Cardinality(uncounted) \in Nat
  <2>1. inside \subseteq Entries /\ uncounted \subseteq Entries
    OBVIOUS
  <2> QED BY <2>1, FS_Subset, FS_CardinalityType DEF Bounds
<1>3. gauge["resource"] <= IsolationThreshold + overlaps /\ overlaps \in Nat
  BY DEF IInv, RoomInv, TypeInv
<1> HIDE DEF inside, uncounted
<1>4. Cardinality(inside) <= IsolationThreshold + Cardinality(uncounted) + overlaps
  BY <1>1, <1>2, <1>3 DEF Bounds
<1> QED BY <1>4, SameCardinality DEF Chain!IsolationHolds, inside, uncounted

(* and contexts of one owner.                                              *)
LEMMA InvOwns ==
  ASSUME IInv
  PROVE  Chain!ContextOwned
BY DEF IInv, PlaceInv, PlaceOK, ContextInv, Owns, Active, Chain!ContextOwned

-----------------------------------------------------------------------------
(* The theorems *)

(* Every counter, context and entry of the chain keeps its type, and no    *)
(* node counts more than the entries there are.                            *)
THEOREM TypeCorrect ==
  ASSUME Bounds
  PROVE  Chain!Spec => []Chain!TypeOK
BY Invariance, InvIsTyped, PTL

(* The concurrency of a node is the number of entries inside, less one for *)
(* each that a panic let in: OnEntryPassed and OnCompleted of stat.Slot.   *)
THEOREM GaugeAlwaysExact ==
  ASSUME Bounds
  PROVE  Chain!Spec => []GaugeExact
BY Invariance, InvIsExact, PTL DEF GaugeExact

(* The isolation rule holds but for the gap between its check and          *)
(* OnEntryPassed, and for the gaps that panics leave in the gauge.         *)
THEOREM IsolationAlwaysHolds ==
  ASSUME Bounds
  PROVE  Chain!Spec => []IsolationHolds
BY Invariance, InvIsolates, PTL DEF IsolationHolds

(* GetPooledContext and RefurbishContext: a context serves one entry at a  *)
(* time, and an entry completes with no error but its own or a late one.   *)
THEOREM ContextAlwaysOwned ==
  ASSUME Bounds
  PROVE  Chain!Spec => []ContextOwned
BY Invariance, InvOwns, PTL DEF ContextOwned

=============================================================================

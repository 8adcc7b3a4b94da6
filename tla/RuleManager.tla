----------------------------- MODULE RuleManager -----------------------------
(***************************************************************************)
(* The rule managers of Sentinel: flow, circuitbreaker, hotspot and        *)
(* isolation each have one (rule_manager.go), written to one plan, and     *)
(* infra/rate/rate.go adds rules to the one of flow.                       *)
(*                                                                         *)
(* A load compares the rules it is given with currentRules, builds from    *)
(* those that are valid the controllers of each resource, taking over the  *)
(* controllers of equal rules and the statistics of similar ones, swaps    *)
(* the controllers in force and notes the rules.  updateRuleMux is held    *)
(* throughout; the controllers in force can be read all the time.          *)
(***************************************************************************)
EXTENDS Naturals, Sequences, FiniteSets

CONSTANTS Loaders,        \* goroutines that load or add rules
          Nobody,         \* updateRuleMux is free
          Kinds,          \* the managers considered
          Resources,
          All,            \* a load of the rules of every resource
          Rules,
          Nil,            \* a nil *Rule in a list
          Nop,            \* no statistic
          Node,           \* the statistic of the resource
          Names,          \* of statistics; the bound on them
          Loads,          \* what LoadRules is called with, by resource
          ResourceLoads,  \* what LoadRulesOfResource is called with
          Additions,      \* what AddRules is called with
          MaxRules        \* bound on the rules of a resource after AddRules

ASSUME KindsAssumption == Kinds \subseteq {"flow", "breaker", "hotspot", "isolation"}
ASSUME NobodyAssumption == Nobody \notin Loaders /\ All \notin Resources
ASSUME NamesAssumption == Nop \notin Names /\ Node \notin Names

(* res is the resource, key what isStatReusable compares (Nop: the rule    *)
(* needs no statistic, Node: it uses the resource's), limit what           *)
(* isEqualsTo compares besides, other what neither looks at (the ID;       *)
(* ProbeNum of a breaker).                                                 *)
ASSUME RulesAssumption ==
  /\ Nil \notin Rules
  /\ \A r \in Rules : /\ r.res \in Resources
                      /\ r.valid \in BOOLEAN      \* IsValidRule
                      /\ r.supported \in BOOLEAN  \* it has a generator that succeeds
                      /\ r = [res |-> r.res, key |-> r.key, limit |-> r.limit,
                              other |-> r.other, valid |-> r.valid, supported |-> r.supported]

RuleLists == Seq(Rules \cup {Nil})

ASSUME LoadsAssumption ==
  /\ Loads \subseteq [Resources -> Seq(Rules)]
  /\ ResourceLoads \subseteq Resources \X RuleLists
  /\ Additions \subseteq Seq(Rules)

VARIABLES
  kind,          \* which manager this is
  pc,            \* where each loader is
  want,          \* the load it has been called for
  mux,           \* who holds updateRuleMux
  todo,          \* rules still to be built, by resource
  clone,         \* the copy of the controllers in force
  left,          \* positions in the copy that nobody has taken over
  new,           \* the controllers built
  currentRules,  \* the rules loaded last, invalid ones included
  inForce,       \* tcMap, breakers, ruleMap
  reported       \* breakerRules

loadVars == <<todo, clone, left, new>>
vars == <<kind, pc, want, mux, loadVars, currentRules, inForce, reported>>

(* A controller with its statistic; made (history) is TRUE of those the    *)
(* load under way has made.                                                *)
Controllers == [rule : Rules, stat : Names \cup {Nop, Node}, made : BOOLEAN]

Empty == [res \in Resources |-> <<>>]
NoLoad == [target |-> All, rules |-> Empty]

Init ==
  /\ kind \in Kinds
  /\ pc = [l \in Loaders |-> "idle"]
  /\ want = [l \in Loaders |-> NoLoad]
  /\ mux = Nobody
  /\ todo = Empty /\ clone = Empty /\ new = Empty
  /\ left = [res \in Resources |-> {}]
  /\ currentRules = Empty /\ inForce = Empty /\ reported = Empty

Goto(l, p) == pc' = [pc EXCEPT ![l] = p]
Targets(l) == IF want[l].target = All THEN Resources ELSE {want[l].target}

(* Rules without a statistic, or with the resource's, are flow rules.      *)
Fits(rules) ==
  kind # "flow" => \A i \in DOMAIN rules : rules[i] # Nil => rules[i].key \notin {Nop, Node}

-----------------------------------------------------------------------------
(* Rules *)

IsValidRule(r) == r # Nil /\ r.valid

(* A list is gone through, and those of S are appended to another.         *)
Picked(rules, S) ==
  LET upTo[n \in 0 .. Len(rules)] ==
        IF n = 0 THEN <<>>
        ELSE IF rules[n] \in S THEN Append(upTo[n - 1], rules[n])
        ELSE upTo[n - 1]
  IN  upTo[Len(rules)]

ValidRules(rules) == Picked(rules, {r \in Rules : IsValidRule(r)})

isEqualsTo(old, r) == old.res = r.res /\ old.key = r.key /\ old.limit = r.limit

(* It compares all that IsValidRule and the choice of a generator look at, *)
(* in any strategy.  (Thresholds that Float64Equals takes for equal, less  *)
(* than 1e-8 apart, are on the same side of 0 and of 1.)                   *)
ASSUME EqualsAssumption ==
  \A r1, r2 \in Rules :
    isEqualsTo(r1, r2) => r1.valid = r2.valid /\ r1.supported = r2.supported

needStatistic(r) == r.key # Nop
\* Mutation.
isStatReusableIfSameLimit(old, r) == isEqualsTo(old, r) /\ needStatistic(old)
isStatReusable(old, r) == old.res = r.res /\ old.key = r.key /\ needStatistic(old)

(* n is the name of a statistic made for the rule.                         *)
generateStatFor(r, n) == IF r.key \in {Nop, Node} THEN r.key ELSE n

(* calculateReuseIndexFor takes the first equal rule, or else the first    *)
(* whose statistic may be reused, among the positions still there.         *)
Equals(res, r) == {i \in left[res] : isEqualsTo(clone[res][i].rule, r)}
Reusables(res, r) == {i \in left[res] : isStatReusable(clone[res][i].rule, r)}
First(S) == {i \in S : \A j \in S : i <= j}

Uses(controllers, n) ==
  \E res \in Resources : \E i \in DOMAIN controllers[res] : controllers[res][i].stat = n
Unused == {n \in Names : ~(Uses(inForce, n) \/ Uses(clone, n) \/ Uses(new, n))}

-----------------------------------------------------------------------------
(* Calls *)

Call(l, target, rules) ==
  /\ pc[l] = "idle"
  /\ \A res \in Resources : Fits(rules[res])
  /\ want' = [want EXCEPT ![l] = [target |-> target, rules |-> rules]]
  /\ Goto(l, "waiting")
  /\ UNCHANGED <<kind, mux, loadVars, currentRules, inForce, reported>>

LoadRules(l, rules) ==
  Call(l, All, rules)

LoadRulesOfResource(l, res, rules) ==
  Call(l, res, [Empty EXCEPT ![res] = rules])

(* RateLimitImpl.AddRule and AddRules: what GetRules finds in force, and   *)
(* the new rules after it, go to LoadRules.                                *)
RulesOf(controllers) == [i \in DOMAIN controllers |-> controllers[i].rule]
RulesFor(res, rules) == Picked(rules, {r \in Rules : r.res = res})
Appended(res, rules) == RulesOf(inForce[res]) \o RulesFor(res, rules)

AddRules(l, rules) ==
  /\ kind = "flow"
  /\ \A res \in Resources : Len(Appended(res, rules)) <= MaxRules
  /\ Call(l, All, [res \in Resources |-> Appended(res, rules)])

-----------------------------------------------------------------------------
(* The load, under updateRuleMux *)

Acquire(l) ==
  /\ pc[l] = "waiting"
  /\ mux = Nobody

Return(l) ==
  /\ Goto(l, "idle")
  /\ want' = [want EXCEPT ![l] = NoLoad]

(* defer updateRuleMux.Unlock()                                            *)
Release(l) ==
  /\ mux' = Nobody
  /\ todo' = Empty /\ clone' = Empty /\ new' = Empty
  /\ left' = [res \in Resources |-> {}]
  /\ Return(l)

Clears(l) == want[l].target # All /\ want[l].rules[want[l].target] = <<>>

(* reflect.DeepEqual                                                       *)
IsEqual(l) == \A res \in Targets(l) : currentRules[res] = want[l].rules[res]

Ignore(l) ==
  /\ Acquire(l)
  /\ ~Clears(l) /\ IsEqual(l)
  /\ Return(l)
  /\ UNCHANGED <<kind, mux, loadVars, currentRules, inForce, reported>>

(* LoadRulesOfResource without rules: two deletes, under two mutexes.      *)
ClearRules(l) ==
  /\ Acquire(l)
  /\ Clears(l)
  /\ mux' = l
  /\ currentRules' = [currentRules EXCEPT ![want[l].target] = <<>>]
  /\ Goto(l, "clear")
  /\ UNCHANGED <<kind, want, loadVars, inForce, reported>>

ClearControllers(l) ==
  /\ pc[l] = "clear"
  /\ inForce' = [inForce EXCEPT ![want[l].target] = <<>>]
  /\ reported' = [reported EXCEPT ![want[l].target] = <<>>]
  /\ Release(l)
  /\ UNCHANGED <<kind, currentRules>>

(* Invalid rules are dropped before the controllers are built, except by   *)
(* onResourceRuleUpdate of circuitbreaker, which drops them from what it   *)
(* reports and builds from the rules as they came.                         *)
RulesToBuild(l, res) ==
  IF kind = "breaker" /\ want[l].target # All
  THEN want[l].rules[res]
  ELSE ValidRules(want[l].rules[res])

Positions(res) == 1 .. Len(inForce[res])

StartUpdate(l) ==
  /\ Acquire(l)
  /\ ~Clears(l) /\ ~IsEqual(l)
  /\ mux' = l
  /\ Goto(l, "build")
  /\ todo' = [res \in Resources |-> IF res \in Targets(l) THEN RulesToBuild(l, res) ELSE <<>>]
  /\ clone' = inForce
  /\ left' = [res \in Resources |-> Positions(res)]
  /\ new' = Empty
  /\ UNCHANGED <<kind, want, currentRules, inForce, reported>>

(* Rule r is the next of resource res, the resources in any order.         *)
NextRule(l, res, r) ==
  /\ pc[l] = "build"
  /\ todo[res] # <<>>
  /\ r = Head(todo[res])

Done(res) ==
  /\ todo' = [todo EXCEPT ![res] = Tail(@)]
  /\ UNCHANGED <<kind, pc, want, mux, clone, currentRules, inForce, reported>>

AddController(res, c) == new' = [new EXCEPT ![res] = Append(@, c)]
Take(res, i) == left' = [left EXCEPT ![res] = @ \ {i}]

(* isolation keeps no controllers: what is in force are the rules.         *)
BuildIsolation(l, res, r) ==
  /\ NextRule(l, res, r)
  /\ kind = "isolation"
  /\ AddController(res, [rule |-> r, stat |-> Nop, made |-> TRUE])
  /\ Done(res)
  /\ UNCHANGED left

Builds(l, res, r) == NextRule(l, res, r) /\ kind # "isolation"

(* A rule of another resource, or one for which nothing can be generated.  *)
BuildNothing(l, res, r) ==
  /\ Builds(l, res, r)
  /\ \/ r.res # res
     \/ Equals(res, r) = {} /\ ~r.supported
  /\ Done(res)
  /\ UNCHANGED <<left, new>>

(* There is an equal rule: its controller stays.                           *)
BuildEqual(l, res, r) ==
  /\ Builds(l, res, r)
  /\ r.res = res /\ Equals(res, r) # {}
  /\ \E i \in First(Equals(res, r)) : AddController(res, clone[res][i]) /\ Take(res, i)
  /\ Done(res)

Generates(l, res, r) ==
  /\ Builds(l, res, r)
  /\ r.res = res /\ Equals(res, r) = {} /\ r.supported

(* A new controller over the statistic of an old one.                      *)
TakeNothing(res, i) == UNCHANGED left
\* Mutation.
BuildReusingShared(l, res, r) ==
  /\ Generates(l, res, r)
  /\ Reusables(res, r) # {}
  /\ \E i \in First(Reusables(res, r)) :
       /\ AddController(res, [rule |-> r, stat |-> clone[res][i].stat, made |-> TRUE])
       /\ TakeNothing(res, i)
  /\ Done(res)
BuildReusing(l, res, r) ==
  /\ Generates(l, res, r)
  /\ Reusables(res, r) # {}
  /\ \E i \in First(Reusables(res, r)) :
       /\ AddController(res, [rule |-> r, stat |-> clone[res][i].stat, made |-> TRUE])
       /\ Take(res, i)
  /\ Done(res)

BuildNew(l, res, r) ==
  /\ Generates(l, res, r)
  /\ Reusables(res, r) = {}
  /\ \E n \in First(Unused) :
       AddController(res, [rule |-> r, stat |-> generateStatFor(r, n), made |-> TRUE])
  /\ Done(res)
  /\ UNCHANGED left

\* Mutation.
PanicsAndRetries(l, res) ==
  /\ NextRule(l, res, Nil) /\ kind # "isolation"
  /\ todo' = [todo EXCEPT ![res] = RulesToBuild(l, res)]
  /\ left' = [left EXCEPT ![res] = Positions(res)]
  /\ new' = [new EXCEPT ![res] = <<>>]
  /\ UNCHANGED <<kind, pc, want, mux, clone, currentRules, inForce, reported>>
(* The resource of a nil rule is read: the panic is recovered and nothing  *)
(* has changed.                                                            *)
Panics(l, res) ==
  /\ NextRule(l, res, Nil) /\ kind # "isolation"
  /\ Release(l)
  /\ UNCHANGED <<kind, currentRules, inForce, reported>>

(* The controllers are swapped, and with them what breakers report.        *)
\* Mutation.
ReplacedIfAny(l, res) ==
  IF res \in Targets(l) /\ new[res] # <<>>
  THEN [i \in DOMAIN new[res] |-> [new[res][i] EXCEPT !.made = FALSE]]
  ELSE inForce[res]
Replaced(l, res) ==
  IF res \in Targets(l) THEN [i \in DOMAIN new[res] |-> [new[res][i] EXCEPT !.made = FALSE]]
  ELSE inForce[res]

Reports(l, res) ==
  IF kind # "breaker" \/ res \notin Targets(l) THEN reported[res]
  ELSE IF want[l].target # All /\ new[res] = <<>> THEN <<>>
  ELSE ValidRules(want[l].rules[res])

Swap(l) ==
  /\ pc[l] = "build"
  /\ todo = Empty
  /\ inForce' = [res \in Resources |-> Replaced(l, res)]
  /\ reported' = [res \in Resources |-> Reports(l, res)]
  /\ Goto(l, "record")
  /\ UNCHANGED <<kind, want, mux, loadVars, currentRules>>

Record(l) ==
  /\ pc[l] = "record"
  /\ currentRules' = [res \in Resources |-> IF res \in Targets(l) THEN want[l].rules[res]
                                            ELSE currentRules[res]]
  /\ Release(l)
  /\ UNCHANGED <<kind, inForce, reported>>

-----------------------------------------------------------------------------

Build(l) ==
  \E res \in Resources :
    \/ \E r \in Rules :
         \/ BuildIsolation(l, res, r) \/ BuildNothing(l, res, r)
         \/ BuildEqual(l, res, r) \/ BuildReusing(l, res, r) \/ BuildNew(l, res, r)
    \/ Panics(l, res)

Calls(l) ==
  \/ \E rules \in Loads : LoadRules(l, rules)
  \/ \E load \in ResourceLoads : LoadRulesOfResource(l, load[1], load[2])
  \/ \E rules \in Additions : AddRules(l, rules)

Enter(l) == Ignore(l) \/ ClearRules(l) \/ StartUpdate(l)
GoOn(l) == ClearControllers(l) \/ Build(l) \/ Swap(l) \/ Record(l)

Next == \E l \in Loaders : Calls(l) \/ Enter(l) \/ GoOn(l)

Spec == Init /\ [][Next]_vars

(* A load that holds the mutex runs on, and sync.Mutex, which is handed    *)
(* to whoever has waited too long, starves nobody.  Nobody has to call.    *)
FairSpec == Spec /\ \A l \in Loaders : SF_vars(Enter(l)) /\ WF_vars(GoOn(l))

-----------------------------------------------------------------------------
(* Properties *)

ControllersOK ==
  /\ pc \in [Loaders -> {"idle", "waiting", "clear", "build", "record"}]
  /\ mux \in Loaders \cup {Nobody}
  /\ clone \in [Resources -> Seq(Controllers)]
  /\ left \in [Resources -> SUBSET Nat]
  /\ \A res \in Resources : left[res] \subseteq DOMAIN clone[res]
  /\ new \in [Resources -> Seq(Controllers)]
  /\ inForce \in [Resources -> Seq(Controllers)]

TypeOK ==
  /\ ControllersOK
  /\ kind \in Kinds
  /\ want \in [Loaders -> [target : Resources \cup {All}, rules : [Resources -> RuleLists]]]
  /\ todo \in [Resources -> RuleLists]
  /\ currentRules \in [Resources -> RuleLists]
  /\ reported \in [Resources -> RuleLists]

(* Two rules call for the same checks, but for what a manager does not     *)
(* compare: the ID, and in circuitbreaker ProbeNum, which it does use.     *)
SameButOther(r1, r2) == r1.res = r2.res /\ r1.key = r2.key /\ r1.limit = r2.limit

(* When no load is under way, what is in force is what was loaded last: of *)
(* each rule as many controllers as there are valid rules for them in the  *)
(* list, and none for a rule that is not in it.  Two things are left out,  *)
(* where circuitbreaker does not do what it says.  "LoadRules replaces old *)
(* rules": a breaker for a rule that differs in ProbeNum only goes on with *)
(* the old one, so rules are compared but for other.  "Ignoring invalid    *)
(* circuitBreaker rule": LoadRulesOfResource builds breakers for invalid   *)
(* rules all the same, so there may be more than those for the valid ones. *)
(* Either way GetRules reports, as long as there are breakers, exactly the *)
(* valid rules of the list.                                                *)
Enforceable(res, r) == r # Nil /\ (kind = "isolation" \/ (r.res = res /\ r.supported))
RulesInForce ==
  mux = Nobody =>
    \A res \in Resources :
      LET rules == currentRules[res]
          Like(r) == {i \in DOMAIN rules : Enforceable(res, rules[i]) /\ SameButOther(rules[i], r)}
          Valid(r) == {i \in Like(r) : IsValidRule(rules[i])}
          Bound(r) == {i \in DOMAIN inForce[res] : SameButOther(inForce[res][i].rule, r)}
      IN  /\ \A r \in Rules :
               /\ Cardinality(Valid(r)) <= Cardinality(Bound(r))
               /\ Cardinality(Bound(r)) <= Cardinality(Like(r))
               /\ kind # "breaker" => Cardinality(Bound(r)) = Cardinality(Valid(r))
          /\ kind = "breaker" /\ inForce[res] # <<>> => reported[res] = ValidRules(rules)

(* Two controllers in force never count in one statistic, unless it is the *)
(* resource's or none: each event would be counted twice.                  *)
OwnStatistics ==
  \A res1, res2 \in Resources :
    \A i \in DOMAIN inForce[res1], j \in DOMAIN inForce[res2] :
      /\ inForce[res1][i].stat \in Names
      /\ inForce[res1][i].stat = inForce[res2][j].stat
      => res1 = res2 /\ i = j

(* A load that changes the rules of a resource loses no statistic that a   *)
(* rule of the new list could have gone on with: of each kind of statistic *)
(* as many live on as both lists have use for.                             *)
StatsOf(controllers, key) ==
  {controllers[i].stat : i \in {j \in DOMAIN controllers : controllers[j].rule.key = key}} \cap Names
StatisticsCarried ==
  [][\A res \in Resources, key \in {r.key : r \in Rules} :
       inForce'[res] # inForce[res] =>
         LET before == StatsOf(inForce[res], key)
             after == StatsOf(inForce'[res], key)
             kept == before \cap after
         IN  kept = before \/ kept = after]_vars

(* Every call returns: an unchanged list, a clearing, a panic on the way   *)
(* all give updateRuleMux back.                                            *)
LoadsReturn == \A l \in Loaders : pc[l] # "idle" ~> pc[l] = "idle"
=============================================================================

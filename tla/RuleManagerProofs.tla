-------------------------- MODULE RuleManagerProofs --------------------------
(***************************************************************************)
(* Proofs about the rule managers, for any rules, resources and loaders:   *)
(* controllers do not share statistics, loads lose none that could have    *)
(* gone on, and what is in force is what was loaded last.                  *)
(***************************************************************************)
EXTENDS RuleManager, SequenceTheorems, FiniteSetTheorems, WellFoundedInduction, TLAPS

(* updateRuleMux: whoever is past the comparison holds it, and while       *)
(* controllers are built the copy is what is in force.                     *)
Holding == {"clear", "build", "record"}
Locked ==
  /\ \A l \in Loaders : pc[l] \in Holding <=> mux = l
  /\ \A l \in Loaders : pc[l] = "build" => clone = inForce

(* Of two lists of controllers: no statistic of its own is in both, or     *)
(* twice in one, unless it is the same place.                              *)
Own(c) == c.stat \in Names
Distinct(cs) ==
  \A res1, res2 \in Resources : \A i \in DOMAIN cs[res1], j \in DOMAIN cs[res2] :
    Own(cs[res1][i]) /\ cs[res1][i].stat = cs[res2][j].stat => res1 = res2 /\ i = j

(* A statistic that has been taken over from the copy was taken over       *)
(* within its resource, and its position is no longer left.                *)
TakenFromLeft ==
  \A res1, res2 \in Resources : \A i \in DOMAIN new[res1], j \in DOMAIN clone[res2] :
    Own(new[res1][i]) /\ new[res1][i].stat = clone[res2][j].stat
    => res1 = res2 /\ j \notin left[res2]

StatisticsInv ==
  /\ Distinct(inForce)
  /\ \A l \in Loaders : pc[l] = "build" => Distinct(new) /\ TakenFromLeft

IInv == ControllersOK /\ Locked /\ StatisticsInv

(* Nothing is held, built or in force at first.                            *)
LEMMA InitIInv == Init => IInv
BY NobodyAssumption DEF Init, IInv, ControllersOK, Locked, StatisticsInv, Distinct, Empty, Holding

(* A controller appended to a list: the others stay where they are.        *)
LEMMA Appending ==
  ASSUME NEW s \in Seq(Controllers), NEW c \in Controllers
  PROVE  /\ Append(s, c) \in Seq(Controllers)
         /\ DOMAIN Append(s, c) = DOMAIN s \cup {Len(s) + 1}
         /\ Append(s, c)[Len(s) + 1] = c
         /\ Len(s) + 1 \notin DOMAIN s
         /\ \A i \in DOMAIN s : Append(s, c)[i] = s[i]
OBVIOUS

(* A controller may be added if its statistic is in none of those built,   *)
(* and in the copy only at a position that is taken by now.                *)
LEMMA Adding ==
  ASSUME ControllersOK, Distinct(new), TakenFromLeft,
         NEW res \in Resources, NEW c \in Controllers, AddController(res, c),
         clone' = clone,
         \A x \in Resources : left'[x] \subseteq left[x],
         Own(c) => \A x \in Resources : \A j \in DOMAIN new[x] : new[x][j].stat # c.stat,
         Own(c) => \A x \in Resources : \A j \in DOMAIN clone[x] :
                     clone[x][j].stat = c.stat => x = res /\ j \notin left'[x]
  PROVE  /\ new' \in [Resources -> Seq(Controllers)]
         /\ Distinct(new)'
         /\ TakenFromLeft'
<1> DEFINE s == new[res]
           e == Len(s) + 1
<1>1. /\ s \in Seq(Controllers)
      /\ new' = [new EXCEPT ![res] = Append(s, c)]
      /\ new \in [Resources -> Seq(Controllers)]
  BY DEF ControllersOK, AddController
<1>2. /\ Append(s, c) \in Seq(Controllers)
      /\ DOMAIN Append(s, c) = DOMAIN s \cup {e}
      /\ Append(s, c)[e] = c
      /\ e \notin DOMAIN s
      /\ \A i \in DOMAIN s : Append(s, c)[i] = s[i]
  BY <1>1, Appending
<1>3. /\ new' \in [Resources -> Seq(Controllers)]
      /\ new'[res] = Append(s, c)
      /\ \A x \in Resources \ {res} : new'[x] = new[x]
  BY <1>1, <1>2
<1> HIDE DEF s, e
<1>4. \A x \in Resources : \A i \in DOMAIN new'[x] :
        \/ x = res /\ i = e /\ new'[x][i] = c
        \/ i \in DOMAIN new[x] /\ new'[x][i] = new[x][i] /\ (x = res => i # e)
  BY <1>2, <1>3 DEF s
<1>5. Distinct(new)'
  <2> SUFFICES ASSUME NEW x \in Resources, NEW y \in Resources,
                      NEW i \in DOMAIN new'[x], NEW j \in DOMAIN new'[y],
                      Own(new'[x][i]), new'[x][i].stat = new'[y][j].stat
               PROVE  x = y /\ i = j
    BY DEF Distinct, Own
  <2>1. CASE x = res /\ i = e /\ new'[x][i] = c
    BY <2>1, <1>4 DEF Own
  <2>2. CASE y = res /\ j = e /\ new'[y][j] = c
    BY <2>2, <1>4 DEF Own
  <2> QED BY <2>1, <2>2, <1>4 DEF Distinct, Own
<1>6. TakenFromLeft'
  <2> SUFFICES ASSUME NEW x \in Resources, NEW y \in Resources,
                      NEW i \in DOMAIN new'[x], NEW j \in DOMAIN clone[y],
                      Own(new'[x][i]), new'[x][i].stat = clone[y][j].stat
               PROVE  x = y /\ j \notin left'[y]
    BY DEF TakenFromLeft, Own
  <2>1. CASE x = res /\ i = e /\ new'[x][i] = c
    BY <2>1 DEF Own
  <2>2. CASE i \in DOMAIN new[x] /\ new'[x][i] = new[x][i]
    BY <2>2 DEF TakenFromLeft, Own
  <2> QED BY <2>1, <2>2, <1>4
<1> QED BY <1>3, <1>5, <1>6

(* What a step of the building may do without disturbing IInv.             *)
LEMMA BuildStep ==
  ASSUME IInv, NEW l \in Loaders, pc[l] = "build",
         UNCHANGED <<pc, mux, clone, inForce>>,
         left' \in [Resources -> SUBSET Nat],
         \A x \in Resources : left'[x] \subseteq left[x],
         new' \in [Resources -> Seq(Controllers)],
         Distinct(new)', TakenFromLeft'
  PROVE  IInv'
BY DEF IInv, ControllersOK, Locked, StatisticsInv, Distinct, Own

(* Taking a position of the copy.                                          *)
LEMMA Taking ==
  ASSUME ControllersOK, NEW res \in Resources, NEW i, Take(res, i)
  PROVE  /\ left' \in [Resources -> SUBSET Nat]
         /\ \A x \in Resources : left'[x] \subseteq left[x]
         /\ i \notin left'[res]
BY DEF ControllersOK, Take

(* The statistic of a controller that is left may go on in one controller  *)
(* more, whether it is the same or a new one.                              *)
LEMMA TakingOver ==
  ASSUME IInv, NEW l \in Loaders, pc[l] = "build",
         UNCHANGED <<pc, mux, clone, inForce>>,
         NEW res \in Resources, NEW i \in left[res], NEW c \in Controllers,
         c.stat = clone[res][i].stat,
         AddController(res, c), Take(res, i)
  PROVE  IInv'
<1>1. /\ ControllersOK /\ Distinct(clone) /\ Distinct(new) /\ TakenFromLeft
      /\ i \in DOMAIN clone[res]
  BY DEF IInv, Locked, StatisticsInv, ControllersOK
<1>2. /\ left' \in [Resources -> SUBSET Nat]
      /\ \A x \in Resources : left'[x] \subseteq left[x]
      /\ i \notin left'[res]
  BY <1>1, Taking
<1>3. Own(c) => \A x \in Resources : \A j \in DOMAIN new[x] : new[x][j].stat # c.stat
  BY <1>1 DEF TakenFromLeft, Own
<1>4. Own(c) => \A x \in Resources : \A j \in DOMAIN clone[x] :
                  clone[x][j].stat = c.stat => x = res /\ j \notin left'[x]
  BY <1>1, <1>2 DEF Distinct, Own
<1>5. /\ new' \in [Resources -> Seq(Controllers)]
      /\ Distinct(new)'
      /\ TakenFromLeft'
  BY <1>1, <1>2, <1>3, <1>4, Adding
<1> QED BY <1>2, <1>5, BuildStep

(* Each rule that is built, however it gets its statistic, and a panic.    *)
LEMMA BuildIInv ==
  ASSUME IInv, NEW l \in Loaders, NEW res \in Resources, NEW r \in Rules,
         \/ BuildIsolation(l, res, r) \/ BuildNothing(l, res, r)
         \/ BuildEqual(l, res, r) \/ BuildReusing(l, res, r) \/ BuildNew(l, res, r)
  PROVE  IInv'
<1>1. /\ ControllersOK /\ Distinct(clone) /\ Distinct(new) /\ TakenFromLeft
      /\ pc[l] = "build"
      /\ UNCHANGED <<pc, mux, clone, inForce>>
  BY DEF IInv, Locked, StatisticsInv, BuildIsolation, BuildNothing, BuildEqual, BuildReusing,
         BuildNew, Builds, Generates, NextRule, Done
<1>2. ASSUME BuildIsolation(l, res, r)
      PROVE  IInv'
  <2> DEFINE c == [rule |-> r, stat |-> Nop, made |-> TRUE]
  <2>1. c \in Controllers /\ ~Own(c) /\ AddController(res, c) /\ left' = left
    BY <1>2, NamesAssumption DEF BuildIsolation, Controllers, Own
  <2> HIDE DEF c
  <2>2. \A x \in Resources : left'[x] \subseteq left[x]
    BY <2>1
  <2>3. /\ new' \in [Resources -> Seq(Controllers)]
        /\ Distinct(new)'
        /\ TakenFromLeft'
    BY <1>1, <2>1, <2>2, Adding
  <2> QED BY <1>1, <2>1, <2>2, <2>3, BuildStep DEF ControllersOK
<1>3. ASSUME BuildNothing(l, res, r)
      PROVE  IInv'
  BY <1>1, <1>3 DEF BuildNothing, IInv, ControllersOK, Locked, StatisticsInv, Distinct, TakenFromLeft, Own
<1>4. ASSUME BuildEqual(l, res, r)
      PROVE  IInv'
  <2>1. PICK i \in First(Equals(res, r)) : AddController(res, clone[res][i]) /\ Take(res, i)
    BY <1>4 DEF BuildEqual
  <2>2. i \in left[res] /\ clone[res][i] \in Controllers
    BY <2>1, <1>1 DEF First, Equals, ControllersOK
  <2> QED BY <1>1, <2>1, <2>2, TakingOver
<1>5. ASSUME BuildReusing(l, res, r)
      PROVE  IInv'
  <2>1. PICK i \in First(Reusables(res, r)) :
          /\ AddController(res, [rule |-> r, stat |-> clone[res][i].stat, made |-> TRUE])
          /\ Take(res, i)
    BY <1>5 DEF BuildReusing
  <2> DEFINE c == [rule |-> r, stat |-> clone[res][i].stat, made |-> TRUE]
  <2>2. i \in left[res] /\ clone[res][i] \in Controllers
    BY <2>1, <1>1 DEF First, Reusables, ControllersOK
  <2>3. c \in Controllers /\ c.stat = clone[res][i].stat
    BY <2>2 DEF Controllers
  <2> QED BY <1>1, <2>1, <2>2, <2>3, TakingOver
<1>6. ASSUME BuildNew(l, res, r)
      PROVE  IInv'
  <2>1. PICK n \in First(Unused) :
          AddController(res, [rule |-> r, stat |-> generateStatFor(r, n), made |-> TRUE])
    BY <1>6 DEF BuildNew
  <2> DEFINE c == [rule |-> r, stat |-> generateStatFor(r, n), made |-> TRUE]
  <2>2. /\ n \in Names
        /\ \A x \in Resources : \A j \in DOMAIN new[x] : new[x][j].stat # n
        /\ \A x \in Resources : \A j \in DOMAIN clone[x] : clone[x][j].stat # n
    BY DEF First, Unused, Uses
  <2>3. c \in Controllers /\ (Own(c) => c.stat = n)
    BY <2>2, NamesAssumption DEF Controllers, Own, generateStatFor
  <2>4. left' = left /\ \A x \in Resources : left'[x] \subseteq left[x]
    BY <1>6 DEF BuildNew
  <2>5. AddController(res, c)
    BY <2>1
  <2> HIDE DEF c
  <2>6. /\ new' \in [Resources -> Seq(Controllers)]
        /\ Distinct(new)'
        /\ TakenFromLeft'
    BY <1>1, <2>2, <2>3, <2>4, <2>5, Adding
  <2> QED BY <1>1, <2>4, <2>6, BuildStep DEF ControllersOK
<1> QED BY <1>2, <1>3, <1>4, <1>5, <1>6

(* Nothing that IInv speaks of changes but a pc outside the mutex.         *)
LEMMA OutsideStep ==
  ASSUME IInv, NEW l \in Loaders, NEW p \in {"idle", "waiting"}, pc[l] \notin Holding,
         Goto(l, p), UNCHANGED <<mux, clone, left, new, inForce>>
  PROVE  IInv'
<1>1. /\ pc' \in [Loaders -> {"idle", "waiting", "clear", "build", "record"}]
      /\ pc'[l] = p
      /\ \A k \in Loaders \ {l} : pc'[k] = pc[k]
  BY DEF Goto, IInv, ControllersOK
<1>2. ControllersOK' /\ Locked'
  BY <1>1 DEF IInv, ControllersOK, Locked, Holding
<1>3. StatisticsInv'
  BY <1>1 DEF IInv, StatisticsInv, Distinct, TakenFromLeft, Own
<1> QED BY <1>2, <1>3 DEF IInv

(* The mutex is given back, nobody builds then.                            *)
LEMMA ReleaseStep ==
  ASSUME IInv, NEW l \in Loaders, mux = l, Release(l),
         inForce' \in [Resources -> Seq(Controllers)], Distinct(inForce)'
  PROVE  IInv'
<1>1. /\ pc' \in [Loaders -> {"idle", "waiting", "clear", "build", "record"}]
      /\ pc'[l] = "idle" /\ mux' = Nobody
      /\ \A k \in Loaders \ {l} : pc'[k] = pc[k]
  BY DEF Release, Return, Goto, IInv, ControllersOK
<1>2. \A k \in Loaders : pc'[k] \notin Holding
  BY <1>1 DEF IInv, Locked, Holding
<1>3. ControllersOK'
  BY <1>1 DEF Release, ControllersOK, Empty
<1>4. Locked'
  BY <1>1, <1>2, NobodyAssumption DEF Locked, Holding
<1>5. StatisticsInv'
  BY <1>2 DEF StatisticsInv, Holding
<1> QED BY <1>3, <1>4, <1>5 DEF IInv

(* A step inside the mutex that ends outside the building.                 *)
LEMMA InsideStep ==
  ASSUME IInv, NEW l \in Loaders, mux' = l, mux \in {l, Nobody},
         NEW p \in {"clear", "record"}, Goto(l, p), UNCHANGED <<clone, left, new>>,
         inForce' \in [Resources -> Seq(Controllers)], Distinct(inForce)'
  PROVE  IInv'
<1>1. /\ pc' \in [Loaders -> {"idle", "waiting", "clear", "build", "record"}]
      /\ pc'[l] = p
      /\ \A k \in Loaders \ {l} : pc'[k] = pc[k] /\ pc[k] \notin Holding
  BY NobodyAssumption DEF Goto, IInv, ControllersOK, Locked
<1>2. \A k \in Loaders : pc'[k] # "build"
  BY <1>1 DEF Holding
<1>3. ControllersOK'
  BY <1>1 DEF IInv, ControllersOK
<1>4. Locked'
  BY <1>1, <1>2 DEF Locked, Holding
<1>5. StatisticsInv'
  BY <1>2 DEF StatisticsInv
<1> QED BY <1>3, <1>4, <1>5 DEF IInv

(* A load starts with a copy of what is in force, all of it left.          *)
LEMMA StartIInv ==
  ASSUME IInv, NEW l \in Loaders, StartUpdate(l)
  PROVE  IInv'
<1>1. /\ pc' \in [Loaders -> {"idle", "waiting", "clear", "build", "record"}]
      /\ pc'[l] = "build" /\ mux' = l
      /\ \A k \in Loaders \ {l} : pc'[k] = pc[k] /\ pc[k] \notin Holding
      /\ clone' = inForce /\ inForce' = inForce /\ new' = Empty
      /\ left' = [res \in Resources |-> Positions(res)]
  BY NobodyAssumption DEF StartUpdate, Acquire, Goto, IInv, ControllersOK, Locked
<1>2. \A res \in Resources : left'[res] = DOMAIN inForce[res] /\ left'[res] \subseteq Nat
  BY <1>1 DEF Positions, IInv, ControllersOK
<1>3. ControllersOK'
  BY <1>1, <1>2 DEF IInv, ControllersOK, Empty
<1>4. Locked'
  BY <1>1 DEF Locked, Holding
<1>5. \A res \in Resources : DOMAIN new'[res] = {}
  BY <1>1 DEF Empty
<1>6. StatisticsInv'
  BY <1>1, <1>5 DEF IInv, StatisticsInv, Distinct, TakenFromLeft, Own
<1> QED BY <1>3, <1>4, <1>6 DEF IInv

(* What has been built comes into force.                                   *)
LEMMA SwapIInv ==
  ASSUME IInv, NEW l \in Loaders, Swap(l)
  PROVE  IInv'
<1>1. /\ pc[l] = "build" /\ mux = l /\ mux' = l /\ Goto(l, "record")
      /\ UNCHANGED <<clone, left, new, want>>
      /\ inForce' = [res \in Resources |-> Replaced(l, res)]
      /\ Distinct(inForce) /\ Distinct(new) /\ TakenFromLeft /\ clone = inForce
      /\ new \in [Resources -> Seq(Controllers)] /\ inForce \in [Resources -> Seq(Controllers)]
  BY DEF Swap, loadVars, IInv, Locked, StatisticsInv, Holding, ControllersOK
<1>2. \A res \in Resources :
        /\ inForce'[res] \in Seq(Controllers)
        /\ \/ /\ res \in Targets(l)
              /\ DOMAIN inForce'[res] = DOMAIN new[res]
              /\ \A i \in DOMAIN new[res] : inForce'[res][i].stat = new[res][i].stat
           \/ res \notin Targets(l) /\ inForce'[res] = inForce[res]
  <2> TAKE res \in Resources
  <2>1. CASE res \notin Targets(l)
    BY <2>1, <1>1 DEF Replaced
  <2>2. CASE res \in Targets(l)
    <3>1. inForce'[res] = [i \in DOMAIN new[res] |-> [new[res][i] EXCEPT !.made = FALSE]]
      BY <2>2, <1>1 DEF Replaced
    <3>2. ASSUME NEW i \in DOMAIN new[res]
          PROVE  /\ [new[res][i] EXCEPT !.made = FALSE] \in Controllers
                 /\ [new[res][i] EXCEPT !.made = FALSE].stat = new[res][i].stat
      <4>1. new[res][i] \in Controllers
        BY <1>1
      <4> HIDE DEF IInv
      <4> QED BY <4>1 DEF Controllers
    <3>3. inForce'[res] \in Seq(Controllers)
      <4>1. DOMAIN new[res] = 1 .. Len(new[res]) /\ Len(new[res]) \in Nat
        BY <1>1
      <4> QED BY <3>1, <3>2, <4>1
    <3> QED BY <2>2, <3>1, <3>2, <3>3
  <2> QED BY <2>1, <2>2
<1>3. inForce' \in [Resources -> Seq(Controllers)]
  BY <1>1, <1>2
<1>4. Distinct(inForce)'
  <2> SUFFICES ASSUME NEW x \in Resources, NEW y \in Resources,
                      NEW i \in DOMAIN inForce'[x], NEW j \in DOMAIN inForce'[y],
                      Own(inForce'[x][i]), inForce'[x][i].stat = inForce'[y][j].stat
               PROVE  x = y /\ i = j
    BY DEF Distinct, Own
  <2> DEFINE t == inForce'[x][i].stat
  <2>1. /\ x \in Targets(l) => i \in DOMAIN new[x] /\ new[x][i].stat = t
        /\ x \notin Targets(l) => i \in DOMAIN inForce[x] /\ inForce[x][i].stat = t
    BY <1>2
  <2>2. /\ y \in Targets(l) => j \in DOMAIN new[y] /\ new[y][j].stat = t
        /\ y \notin Targets(l) => j \in DOMAIN inForce[y] /\ inForce[y][j].stat = t
    BY <1>2
  <2>3. t \in Names
    BY DEF Own
  <2> HIDE DEF t
  <2>4. CASE x \in Targets(l) /\ y \in Targets(l)
    <3>1. /\ i \in DOMAIN new[x] /\ j \in DOMAIN new[y]
          /\ Own(new[x][i]) /\ new[x][i].stat = new[y][j].stat
      BY <2>1, <2>2, <2>3, <2>4 DEF Own
    <3> QED BY <3>1, <1>1 DEF Distinct
  <2>5. CASE x \in Targets(l) /\ y \notin Targets(l)
    <3>1. /\ i \in DOMAIN new[x] /\ j \in DOMAIN clone[y]
          /\ Own(new[x][i]) /\ new[x][i].stat = clone[y][j].stat
      BY <2>1, <2>2, <2>3, <2>5, <1>1 DEF Own
    <3>2. x = y
      BY <3>1, <1>1 DEF TakenFromLeft
    <3> QED BY <3>2, <2>5
  <2>6. CASE x \notin Targets(l) /\ y \in Targets(l)
    <3>1. /\ j \in DOMAIN new[y] /\ i \in DOMAIN clone[x]
          /\ Own(new[y][j]) /\ new[y][j].stat = clone[x][i].stat
      BY <2>1, <2>2, <2>3, <2>6, <1>1 DEF Own
    <3>2. x = y
      BY <3>1, <1>1 DEF TakenFromLeft
    <3> QED BY <3>2, <2>6
  <2>7. CASE x \notin Targets(l) /\ y \notin Targets(l)
    <3>1. /\ i \in DOMAIN inForce[x] /\ j \in DOMAIN inForce[y]
          /\ Own(inForce[x][i]) /\ inForce[x][i].stat = inForce[y][j].stat
      BY <2>1, <2>2, <2>3, <2>7 DEF Own
    <3> QED BY <3>1, <1>1 DEF Distinct
  <2> QED BY <2>4, <2>5, <2>6, <2>7
<1> QED BY <1>1, <1>3, <1>4, InsideStep

(* Calls and the comparison happen outside the building; Clear, Swap,      *)
(* Record and a panic under the mutex.                                     *)
LEMMA NextIInv ==
  ASSUME IInv, NEW l \in Loaders, Calls(l) \/ Enter(l) \/ GoOn(l)
  PROVE  IInv'
<1>1. /\ ControllersOK /\ Locked /\ Distinct(inForce)
      /\ pc[l] \in Holding => mux = l
  BY DEF IInv, Locked, StatisticsInv
<1>2. ASSUME Calls(l)
      PROVE  IInv'
  <2>1. PICK target, rules : Call(l, target, rules)
    BY <1>2 DEF Calls, LoadRules, LoadRulesOfResource, AddRules
  <2>2. pc[l] \notin Holding /\ Goto(l, "waiting") /\ UNCHANGED <<mux, clone, left, new, inForce>>
    BY <2>1 DEF Call, Holding, loadVars
  <2> QED BY <2>2, OutsideStep
<1>3. ASSUME Ignore(l)
      PROVE  IInv'
  <2>1. pc[l] \notin Holding /\ Goto(l, "idle") /\ UNCHANGED <<mux, clone, left, new, inForce>>
    BY <1>3 DEF Ignore, Acquire, Return, Holding, loadVars
  <2> QED BY <2>1, OutsideStep
<1>4. ASSUME ClearRules(l)
      PROVE  IInv'
  <2>1. /\ mux' = l /\ mux \in {l, Nobody} /\ Goto(l, "clear")
        /\ UNCHANGED <<clone, left, new, inForce>>
    BY <1>4 DEF ClearRules, Acquire, loadVars
  <2>2. inForce' \in [Resources -> Seq(Controllers)] /\ Distinct(inForce)'
    BY <1>1, <2>1 DEF ControllersOK, Distinct, Own
  <2> QED BY <2>1, <2>2, InsideStep
<1>5. ASSUME ClearControllers(l)
      PROVE  IInv'
  <2>1. /\ mux = l /\ Release(l)
        /\ inForce' = [inForce EXCEPT ![want[l].target] = <<>>]
    BY <1>1, <1>5 DEF ClearControllers, Holding
  <2>2. inForce' \in [Resources -> Seq(Controllers)]
    <3>1. <<>> \in Seq(Controllers) /\ inForce \in [Resources -> Seq(Controllers)]
      BY <1>1 DEF ControllersOK
    <3> QED BY <3>1, <2>1
  <2>3. Distinct(inForce)'
    <3>1. \A x \in Resources : \A i \in DOMAIN inForce'[x] :
            i \in DOMAIN inForce[x] /\ inForce'[x][i] = inForce[x][i]
      BY <1>1, <2>1 DEF ControllersOK
    <3> QED BY <1>1, <3>1 DEF Distinct, Own
  <2> QED BY <2>1, <2>2, <2>3, ReleaseStep
<1>6. ASSUME Build(l)
      PROVE  IInv'
  <2>1. CASE \E res \in Resources : Panics(l, res)
    <3>1. mux = l /\ Release(l) /\ inForce' = inForce
      BY <1>1, <2>1 DEF Panics, NextRule, Holding
    <3>2. inForce' \in [Resources -> Seq(Controllers)] /\ Distinct(inForce)'
      BY <1>1, <3>1 DEF ControllersOK, Distinct, Own
    <3> QED BY <3>1, <3>2, ReleaseStep
  <2>2. CASE ~ \E res \in Resources : Panics(l, res)
    <3>1. PICK res \in Resources, r \in Rules :
            \/ BuildIsolation(l, res, r) \/ BuildNothing(l, res, r)
            \/ BuildEqual(l, res, r) \/ BuildReusing(l, res, r) \/ BuildNew(l, res, r)
      BY <1>6, <2>2 DEF Build
    <3> QED BY <3>1, BuildIInv
  <2> QED BY <2>1, <2>2
<1>7. ASSUME Record(l)
      PROVE  IInv'
  <2>1. mux = l /\ Release(l) /\ inForce' = inForce
    BY <1>1, <1>7 DEF Record, Holding
  <2>2. inForce' \in [Resources -> Seq(Controllers)] /\ Distinct(inForce)'
    BY <1>1, <2>1 DEF ControllersOK, Distinct, Own
  <2> QED BY <2>1, <2>2, ReleaseStep
<1> QED BY <1>2, <1>3, <1>4, <1>5, <1>6, <1>7, StartIInv, SwapIInv DEF Enter, GoOn

(* Nothing changes.                                                        *)
LEMMA StutterIInv ==
  ASSUME IInv, UNCHANGED vars
  PROVE  IInv'
BY DEF vars, loadVars, IInv, ControllersOK, Locked, StatisticsInv, Distinct, TakenFromLeft, Own

(* The invariant holds throughout.                                         *)
LEMMA IInvAlways == Spec => []IInv
<1>1. IInv /\ [Next]_vars => IInv'
  BY NextIInv, StutterIInv DEF Next
<1> QED BY <1>1, InitIInv, PTL DEF Spec

(* What is in force are lists of controllers, each for a rule and with a   *)
(* statistic, whatever is loaded and by how many at once.                  *)
THEOREM ControllersTyped == Spec => []ControllersOK
<1>1. IInv => ControllersOK
  BY DEF IInv
<1> QED BY <1>1, IInvAlways, PTL

(* Two controllers in force never count in one statistic of their own,     *)
(* although loads take statistics over from the rules they replace.        *)
THEOREM OwnStatisticsAlways == Spec => []OwnStatistics
<1>1. IInv => OwnStatistics
  BY DEF IInv, StatisticsInv, Distinct, Own, OwnStatistics
<1> QED BY <1>1, IInvAlways, PTL
-----------------------------------------------------------------------------
(* What is carried over.  A statistic of its own is that of a rule of the  *)
(* resource its controller is for.                                         *)
AtHome(cs) ==
  \A res \in Resources : \A i \in DOMAIN cs[res] : Own(cs[res][i]) => cs[res][i].rule.res = res

(* Two controllers of one kind of statistic, and one statistic.            *)
Same(c, d) == c.stat = d.stat /\ c.rule.key = d.rule.key

(* While controllers are built, what was taken from the copy goes on in    *)
(* what is built; and of each kind either nothing is left in the copy, or  *)
(* nothing has been made that was not taken from it.                       *)
GoesOn(res) ==
  \A i \in DOMAIN clone[res] \ left[res] :
    Own(clone[res][i]) => \E j \in DOMAIN new[res] : Same(new[res][j], clone[res][i])
NoneLeft(res, key) == \A i \in left[res] : Own(clone[res][i]) => clone[res][i].rule.key # key
NoneMade(res, key) ==
  \A j \in DOMAIN new[res] : Own(new[res][j]) /\ new[res][j].rule.key = key =>
    \E i \in DOMAIN clone[res] : Same(clone[res][i], new[res][j])

Keys == {r.key : r \in Rules}
Carrying ==
  \A res \in Resources :
    GoesOn(res) /\ \A key \in Keys : NoneLeft(res, key) \/ NoneMade(res, key)

CarryInv ==
  /\ AtHome(inForce)
  /\ \A l \in Loaders : pc[l] = "build" => AtHome(new) /\ Carrying

(* A controller that is added is at the end, and all others stay.          *)
LEMMA AddedOne ==
  ASSUME ControllersOK, NEW res \in Resources, NEW c \in Controllers, AddController(res, c)
  PROVE  /\ \A x \in Resources : \A i \in DOMAIN new[x] :
              i \in DOMAIN new'[x] /\ new'[x][i] = new[x][i]
         /\ \A x \in Resources : \A i \in DOMAIN new'[x] :
              \/ x = res /\ new'[x][i] = c
              \/ i \in DOMAIN new[x] /\ new'[x][i] = new[x][i]
         /\ \E e \in DOMAIN new'[res] : new'[res][e] = c
<1> DEFINE s == new[res]
           e == Len(s) + 1
<1>1. /\ s \in Seq(Controllers)
      /\ new' = [new EXCEPT ![res] = Append(s, c)]
      /\ new \in [Resources -> Seq(Controllers)]
  BY DEF ControllersOK, AddController
<1>2. /\ DOMAIN Append(s, c) = DOMAIN s \cup {e}
      /\ Append(s, c)[e] = c
      /\ e \notin DOMAIN s
      /\ \A i \in DOMAIN s : Append(s, c)[i] = s[i]
  BY <1>1, Appending
<1>3. new'[res] = Append(s, c) /\ \A x \in Resources \ {res} : new'[x] = new[x]
  BY <1>1
<1> HIDE DEF e
<1> QED BY <1>2, <1>3

(* A controller goes on, or its statistic in another of the same kind: it  *)
(* was taken from the copy, and is now in what is built.                   *)
LEMMA CarriedOver ==
  ASSUME IInv, CarryInv, NEW l \in Loaders, pc[l] = "build", UNCHANGED <<pc, clone, inForce>>,
         NEW res \in Resources, NEW i \in left[res], NEW c \in Controllers,
         Same(c, clone[res][i]), Own(c) => c.rule.res = res,
         AddController(res, c), Take(res, i)
  PROVE  CarryInv'
<1>1. /\ ControllersOK /\ AtHome(inForce) /\ AtHome(new) /\ Carrying
      /\ i \in DOMAIN clone[res]
  BY DEF IInv, CarryInv, ControllersOK
<1>2. /\ \A x \in Resources : left'[x] \subseteq left[x]
      /\ \A x \in Resources : \A j \in left[x] \ left'[x] : x = res /\ j = i
  BY <1>1 DEF ControllersOK, Take
<1>3. /\ \A x \in Resources : \A j \in DOMAIN new[x] :
           j \in DOMAIN new'[x] /\ new'[x][j] = new[x][j]
      /\ \A x \in Resources : \A j \in DOMAIN new'[x] :
           \/ x = res /\ new'[x][j] = c
           \/ j \in DOMAIN new[x] /\ new'[x][j] = new[x][j]
      /\ \E e \in DOMAIN new'[res] : new'[res][e] = c
  BY <1>1, AddedOne
<1>4. AtHome(new)'
  BY <1>1, <1>3 DEF AtHome, Own
<1>5. ASSUME NEW x \in Resources PROVE GoesOn(x)'
  <2> SUFFICES ASSUME NEW j \in DOMAIN clone[x], j \notin left'[x], Own(clone[x][j])
               PROVE  \E k \in DOMAIN new'[x] : Same(new'[x][k], clone[x][j])
    BY DEF GoesOn, Own, Same
  <2>1. CASE j \in left[x]
    BY <1>2, <1>3, <2>1
  <2>2. CASE j \notin left[x]
    <3>1. PICK k \in DOMAIN new[x] : Same(new[x][k], clone[x][j])
      BY <1>1, <2>2 DEF Carrying, GoesOn
    <3> QED BY <1>3, <3>1
  <2> QED BY <2>1, <2>2
<1>6. ASSUME NEW x \in Resources, NEW key \in Keys PROVE NoneLeft(x, key)' \/ NoneMade(x, key)'
  <2>1. CASE NoneLeft(x, key)
    BY <1>2, <2>1 DEF NoneLeft, Own
  <2>2. CASE NoneMade(x, key)
    <3>1. ASSUME NEW j \in DOMAIN new'[x], Own(new'[x][j]), new'[x][j].rule.key = key
          PROVE  \E k \in DOMAIN clone[x] : Same(clone[x][k], new'[x][j])
      <4>1. CASE x = res /\ new'[x][j] = c
        BY <1>1, <4>1 DEF Same
      <4>2. CASE j \in DOMAIN new[x] /\ new'[x][j] = new[x][j]
        BY <2>2, <3>1, <4>2 DEF NoneMade
      <4> QED BY <1>3, <4>1, <4>2
    <3> QED BY <3>1 DEF NoneMade, Own, Same
  <2> QED BY <1>1, <2>1, <2>2 DEF Carrying
<1> QED BY <1>1, <1>4, <1>5, <1>6 DEF CarryInv, Carrying, AtHome, Own, Keys

(* A controller is made whose statistic, if it is its own, is of a kind of *)
(* which nothing is left.                                                  *)
LEMMA MadeNew ==
  ASSUME IInv, CarryInv, NEW l \in Loaders, pc[l] = "build",
         UNCHANGED <<pc, clone, left, inForce>>,
         NEW res \in Resources, NEW c \in Controllers, AddController(res, c),
         Own(c) => c.rule.res = res /\ NoneLeft(res, c.rule.key)
  PROVE  CarryInv'
<1>1. ControllersOK /\ AtHome(inForce) /\ AtHome(new) /\ Carrying
  BY DEF IInv, CarryInv
<1>2. /\ \A x \in Resources : \A j \in DOMAIN new[x] :
           j \in DOMAIN new'[x] /\ new'[x][j] = new[x][j]
      /\ \A x \in Resources : \A j \in DOMAIN new'[x] :
           \/ x = res /\ new'[x][j] = c
           \/ j \in DOMAIN new[x] /\ new'[x][j] = new[x][j]
  BY <1>1, AddedOne
<1>3. AtHome(new)'
  BY <1>1, <1>2 DEF AtHome, Own
<1>4. ASSUME NEW x \in Resources PROVE GoesOn(x)'
  <2> SUFFICES ASSUME NEW j \in DOMAIN clone[x], j \notin left[x], Own(clone[x][j])
               PROVE  \E k \in DOMAIN new'[x] : Same(new'[x][k], clone[x][j])
    BY DEF GoesOn, Own, Same
  <2>1. PICK k \in DOMAIN new[x] : Same(new[x][k], clone[x][j])
    BY <1>1 DEF Carrying, GoesOn
  <2> QED BY <1>2, <2>1
<1>5. ASSUME NEW x \in Resources, NEW key \in Keys PROVE NoneLeft(x, key)' \/ NoneMade(x, key)'
  <2>1. CASE NoneLeft(x, key)
    BY <2>1 DEF NoneLeft, Own
  <2>2. CASE NoneMade(x, key) /\ ~NoneLeft(x, key)
    <3>1. ASSUME NEW j \in DOMAIN new'[x], Own(new'[x][j]), new'[x][j].rule.key = key
          PROVE  \E k \in DOMAIN clone[x] : Same(clone[x][k], new'[x][j])
      <4>1. j \in DOMAIN new[x] /\ new'[x][j] = new[x][j]
        BY <1>2, <2>2, <3>1
      <4> QED BY <2>2, <3>1, <4>1 DEF NoneMade
    <3> QED BY <3>1 DEF NoneMade, Own, Same
  <2> QED BY <1>1, <2>1, <2>2 DEF Carrying
<1> QED BY <1>1, <1>3, <1>4, <1>5 DEF CarryInv, Carrying, AtHome, Own, Keys

(* Nobody builds after the step.                                           *)
LEMMA NobodyBuilds ==
  ASSUME CarryInv, AtHome(inForce)', \A l \in Loaders : pc'[l] # "build"
  PROVE  CarryInv'
BY DEF CarryInv

(* Nothing changes of what CarryInv speaks of.                             *)
LEMMA CarryStays ==
  ASSUME CarryInv, UNCHANGED <<pc, clone, left, new, inForce>>
  PROVE  CarryInv'
BY DEF CarryInv, Carrying, GoesOn, NoneLeft, NoneMade, AtHome, Own, Same, Keys

(* Each rule that is built, however it gets its statistic.                 *)
LEMMA BuildCarry ==
  ASSUME IInv, CarryInv, NEW l \in Loaders, NEW res \in Resources, NEW r \in Rules,
         \/ BuildIsolation(l, res, r) \/ BuildNothing(l, res, r)
         \/ BuildEqual(l, res, r) \/ BuildReusing(l, res, r) \/ BuildNew(l, res, r)
  PROVE  CarryInv'
<1>1. /\ ControllersOK /\ pc[l] = "build" /\ UNCHANGED <<pc, mux, clone, inForce>>
      /\ \A i \in left[res] : clone[res][i] \in Controllers
      /\ Locked /\ AtHome(clone)
  BY DEF IInv, Locked, CarryInv, AtHome, Own, ControllersOK, BuildIsolation, BuildNothing, BuildEqual,
         BuildReusing, BuildNew, Builds, Generates, NextRule, Done
<1>2. CASE BuildIsolation(l, res, r)
  <2> DEFINE c == [rule |-> r, stat |-> Nop, made |-> TRUE]
  <2>1. c \in Controllers /\ ~Own(c) /\ AddController(res, c) /\ left' = left
    BY <1>2, NamesAssumption DEF BuildIsolation, Controllers, Own
  <2> HIDE DEF c
  <2> QED BY <1>1, <2>1, MadeNew
<1>3. CASE BuildNothing(l, res, r)
  <2>1. UNCHANGED <<pc, clone, left, new, inForce>>
    BY <1>1, <1>3 DEF BuildNothing
  <2> QED BY <2>1, CarryStays
<1>4. CASE BuildEqual(l, res, r)
  <2>1. PICK i \in First(Equals(res, r)) : AddController(res, clone[res][i]) /\ Take(res, i)
    BY <1>4 DEF BuildEqual
  <2>2. i \in left[res] /\ clone[res][i] \in Controllers /\ i \in DOMAIN clone[res]
    BY <1>1, <2>1 DEF First, Equals, ControllersOK
  <2>3. Same(clone[res][i], clone[res][i]) /\ (Own(clone[res][i]) => clone[res][i].rule.res = res)
    BY <1>1, <2>2 DEF Same, AtHome
  <2> QED BY <1>1, <2>1, <2>2, <2>3, CarriedOver
<1>5. CASE BuildReusing(l, res, r)
  <2>1. PICK i \in First(Reusables(res, r)) :
          /\ AddController(res, [rule |-> r, stat |-> clone[res][i].stat, made |-> TRUE])
          /\ Take(res, i)
    BY <1>5 DEF BuildReusing
  <2> DEFINE c == [rule |-> r, stat |-> clone[res][i].stat, made |-> TRUE]
  <2>2. i \in left[res] /\ clone[res][i] \in Controllers /\ isStatReusable(clone[res][i].rule, r)
    BY <1>1, <2>1 DEF First, Reusables
  <2>3. r.res = res
    BY <1>5 DEF BuildReusing, Generates
  <2>4. c \in Controllers /\ Same(c, clone[res][i]) /\ c.rule.res = res
    BY <2>2, <2>3 DEF Controllers, Same, isStatReusable
  <2> QED BY <1>1, <2>1, <2>2, <2>4, CarriedOver
<1>6. CASE BuildNew(l, res, r)
  <2>1. PICK n \in First(Unused) :
          AddController(res, [rule |-> r, stat |-> generateStatFor(r, n), made |-> TRUE])
    BY <1>6 DEF BuildNew
  <2> DEFINE c == [rule |-> r, stat |-> generateStatFor(r, n), made |-> TRUE]
  <2>2. n \in Names /\ r.res = res /\ Reusables(res, r) = {} /\ left' = left
    BY <1>6 DEF First, Unused, BuildNew, Generates
  <2>3. c \in Controllers /\ c.rule = r /\ (Own(c) => r.key # Nop)
    BY <2>2, NamesAssumption DEF Controllers, Own, generateStatFor
  <2>4. ASSUME Own(c) PROVE NoneLeft(res, r.key)
    <3> SUFFICES ASSUME NEW i \in left[res], Own(clone[res][i]), clone[res][i].rule.key = r.key
                 PROVE  FALSE
      BY DEF NoneLeft
    <3>1. clone[res][i].rule.res = res
      BY <1>1 DEF AtHome, ControllersOK
    <3>2. i \in Reusables(res, r)
      BY <2>2, <2>3, <2>4, <3>1 DEF Reusables, isStatReusable, needStatistic
    <3> QED BY <2>2, <3>2
  <2>5. AddController(res, c)
    BY <2>1
  <2> HIDE DEF c
  <2> QED BY <1>1, <2>2, <2>3, <2>4, <2>5, MadeNew
<1> QED BY <1>2, <1>3, <1>4, <1>5, <1>6

(* What a resource has after the swap is what was built.                   *)
LEMMA Swapped ==
  ASSUME IInv, NEW l \in Loaders, Swap(l), NEW res \in Resources
  PROVE  \/ inForce'[res] = inForce[res]
         \/ /\ DOMAIN inForce'[res] = DOMAIN new[res]
            /\ \A i \in DOMAIN new[res] : /\ inForce'[res][i].stat = new[res][i].stat
                                          /\ inForce'[res][i].rule = new[res][i].rule
<1>1. CASE res \notin Targets(l)
  BY <1>1 DEF Swap, Replaced
<1>2. CASE res \in Targets(l)
  <2>1. inForce'[res] = [i \in DOMAIN new[res] |-> [new[res][i] EXCEPT !.made = FALSE]]
    BY <1>2 DEF Swap, Replaced
  <2>2. \A i \in DOMAIN new[res] : new[res][i] \in Controllers
    BY DEF IInv, ControllersOK
  <2>3. \A c \in Controllers : /\ [c EXCEPT !.made = FALSE].stat = c.stat
                               /\ [c EXCEPT !.made = FALSE].rule = c.rule
    BY DEF Controllers
  <2> QED BY <2>1, <2>2, <2>3
<1> QED BY <1>1, <1>2

(* Everybody but who takes the mutex, or gives it back, is not building.   *)
LEMMA OnlyOneBuilds ==
  ASSUME IInv, NEW l \in Loaders, mux \in {l, Nobody}
  PROVE  \A k \in Loaders \ {l} : pc[k] # "build"
BY NobodyAssumption DEF IInv, Locked, Holding

(* A call, a comparison or a panic changes nothing; a load starts with     *)
(* everything left and nothing made, and swaps what it has built.          *)
LEMMA NextCarry ==
  ASSUME IInv, CarryInv, NEW l \in Loaders, Calls(l) \/ Enter(l) \/ GoOn(l)
  PROVE  CarryInv'
<1>1. /\ ControllersOK /\ AtHome(inForce) /\ DOMAIN pc = Loaders
      /\ pc[l] \in Holding => mux = l
  BY DEF IInv, Locked, CarryInv, ControllersOK
<1>2. ASSUME NEW p \in {"idle", "waiting"}, pc[l] # "build", Goto(l, p),
             UNCHANGED <<clone, left, new, inForce>>
      PROVE  CarryInv'
  <2>1. \A k \in Loaders : pc'[k] = "build" => pc[k] = "build"
    BY <1>1, <1>2 DEF Goto
  <2>2. AtHome(inForce)' /\ (AtHome(new) /\ Carrying => AtHome(new)' /\ Carrying')
    BY <1>1, <1>2 DEF Carrying, GoesOn, NoneLeft, NoneMade, AtHome, Own, Same, Keys
  <2> QED BY <2>1, <2>2 DEF CarryInv
<1>3. ASSUME Calls(l) PROVE CarryInv'
  <2>1. PICK target, rules : Call(l, target, rules)
    BY <1>3 DEF Calls, LoadRules, LoadRulesOfResource, AddRules
  <2>2. pc[l] # "build" /\ Goto(l, "waiting") /\ UNCHANGED <<clone, left, new, inForce>>
    BY <2>1 DEF Call, loadVars
  <2> QED BY <1>2, <2>2
<1>4. ASSUME Ignore(l) PROVE CarryInv'
  <2>1. pc[l] # "build" /\ Goto(l, "idle") /\ UNCHANGED <<clone, left, new, inForce>>
    BY <1>4 DEF Ignore, Acquire, Return, loadVars
  <2> QED BY <1>2, <2>1
<1>5. ASSUME NEW p \in {"idle", "clear", "record"}, mux \in {l, Nobody}, Goto(l, p), AtHome(inForce)'
      PROVE  CarryInv'
  <2>1. \A k \in Loaders : pc'[k] # "build"
    BY <1>1, <1>5, OnlyOneBuilds DEF Goto
  <2> QED BY <1>5, <2>1, NobodyBuilds
<1>6. ASSUME inForce' = inForce PROVE AtHome(inForce)'
  BY <1>1, <1>6 DEF AtHome, Own
<1>7. ASSUME ClearRules(l) PROVE CarryInv'
  <2>1. mux \in {l, Nobody} /\ Goto(l, "clear") /\ inForce' = inForce
    BY <1>7 DEF ClearRules, Acquire
  <2> QED BY <1>5, <1>6, <2>1
<1>8. ASSUME ClearControllers(l) PROVE CarryInv'
  <2>1. mux = l /\ Goto(l, "idle") /\ inForce' = [inForce EXCEPT ![want[l].target] = <<>>]
    BY <1>1, <1>8 DEF ClearControllers, Holding, Release, Return
  <2>2. AtHome(inForce)'
    BY <1>1, <2>1 DEF AtHome, Own, ControllersOK
  <2> QED BY <1>5, <2>1, <2>2
<1>9. ASSUME StartUpdate(l) PROVE CarryInv'
  <2>1. /\ \A k \in Loaders \ {l} : pc'[k] # "build"
        /\ clone' = inForce /\ inForce' = inForce /\ new' = Empty
        /\ left' = [res \in Resources |-> Positions(res)]
    BY <1>1, <1>9, OnlyOneBuilds DEF StartUpdate, Acquire, Goto
  <2>2. \A res \in Resources : DOMAIN new'[res] = {} /\ left'[res] = DOMAIN clone'[res]
    BY <1>1, <2>1 DEF Empty, Positions, ControllersOK
  <2>3. AtHome(new)' /\ Carrying'
    BY <2>2 DEF AtHome, Carrying, GoesOn, NoneMade
  <2> QED BY <1>6, <2>1, <2>3 DEF CarryInv
<1>10. ASSUME Build(l) PROVE CarryInv'
  <2>1. CASE \E res \in Resources : Panics(l, res)
    <3>1. mux = l /\ Goto(l, "idle") /\ inForce' = inForce
      BY <1>1, <2>1 DEF Panics, NextRule, Holding, Release, Return
    <3> QED BY <1>5, <1>6, <3>1
  <2>2. CASE ~ \E res \in Resources : Panics(l, res)
    <3>1. PICK res \in Resources, r \in Rules :
            \/ BuildIsolation(l, res, r) \/ BuildNothing(l, res, r)
            \/ BuildEqual(l, res, r) \/ BuildReusing(l, res, r) \/ BuildNew(l, res, r)
      BY <1>10, <2>2 DEF Build
    <3> QED BY <3>1, BuildCarry
  <2> QED BY <2>1, <2>2
<1>11. ASSUME Swap(l) PROVE CarryInv'
  <2>1. mux = l /\ Goto(l, "record") /\ AtHome(new)
    BY <1>1, <1>11 DEF Swap, Holding, CarryInv
  <2>2. AtHome(inForce)'
    <3> SUFFICES ASSUME NEW res \in Resources, NEW i \in DOMAIN inForce'[res], Own(inForce'[res][i])
                 PROVE  inForce'[res][i].rule.res = res
      BY DEF AtHome, Own
    <3>1. CASE inForce'[res] = inForce[res]
      BY <1>1, <3>1 DEF AtHome, Own
    <3>2. CASE inForce'[res] # inForce[res]
      <4>1. /\ i \in DOMAIN new[res] /\ inForce'[res][i].stat = new[res][i].stat
            /\ inForce'[res][i].rule = new[res][i].rule
        BY <1>11, <3>2, Swapped
      <4> QED BY <2>1, <4>1 DEF AtHome, Own
    <3> QED BY <3>1, <3>2
  <2> QED BY <1>5, <2>1, <2>2
<1>12. ASSUME Record(l) PROVE CarryInv'
  <2>1. mux = l /\ Goto(l, "idle") /\ inForce' = inForce
    BY <1>1, <1>12 DEF Record, Holding, Release, Return
  <2> QED BY <1>5, <1>6, <2>1
<1> QED BY <1>3, <1>4, <1>7, <1>8, <1>9, <1>10, <1>11, <1>12 DEF Enter, GoOn

(* What a step leaves of the statistics of one kind.                       *)
Kept(res, key) ==
  LET before == StatsOf(inForce[res], key)
      after == StatsOf(inForce'[res], key)
      kept == before \cap after
  IN  kept = before \/ kept = after

(* Only a clearing, after which there is none, and a swap, by Carrying.    *)
LEMMA StepKeeps ==
  ASSUME IInv, CarryInv, NEW l \in Loaders, Calls(l) \/ Enter(l) \/ GoOn(l),
         NEW res \in Resources, NEW key \in Keys, inForce'[res] # inForce[res]
  PROVE  Kept(res, key)
<1> DEFINE before == StatsOf(inForce[res], key)
           after == StatsOf(inForce'[res], key)
<1>1. ClearControllers(l) \/ Swap(l)
  BY DEF Calls, LoadRules, LoadRulesOfResource, AddRules, Call, Enter, Ignore, ClearRules, StartUpdate,
         GoOn, Build, Panics, BuildIsolation, BuildNothing, BuildEqual, BuildReusing, BuildNew, Done, Record
<1>2. CASE ClearControllers(l)
  <2>1. inForce'[res] = <<>>
    BY <1>2 DEF ClearControllers, IInv, ControllersOK
  <2>2. after = {}
    BY <2>1 DEF StatsOf
  <2> QED BY <2>2 DEF Kept
<1>3. CASE Swap(l)
  <2>1. /\ ControllersOK /\ Carrying /\ clone = inForce
    BY <1>3 DEF Swap, IInv, Locked, CarryInv
  <2>2. /\ DOMAIN inForce'[res] = DOMAIN new[res]
        /\ \A i \in DOMAIN new[res] : /\ inForce'[res][i].stat = new[res][i].stat
                                      /\ inForce'[res][i].rule = new[res][i].rule
    BY <1>3, Swapped
  <2>3. CASE NoneLeft(res, key)
    <3>1. ASSUME NEW n \in before PROVE n \in after
      <4>1. PICK i \in DOMAIN clone[res] : clone[res][i].rule.key = key /\ clone[res][i].stat = n
        BY <2>1 DEF StatsOf
      <4>2. Own(clone[res][i]) /\ n \in Names
        BY <4>1 DEF StatsOf, Own
      <4>3. i \notin left[res]
        BY <2>3, <4>1, <4>2 DEF NoneLeft
      <4>4. PICK j \in DOMAIN new[res] : Same(new[res][j], clone[res][i])
        BY <2>1, <4>2, <4>3 DEF Carrying, GoesOn
      <4>5. j \in DOMAIN inForce'[res] /\ inForce'[res][j].rule.key = key /\ inForce'[res][j].stat = n
        BY <2>2, <4>1, <4>4 DEF Same
      <4> QED BY <4>2, <4>5 DEF StatsOf
    <3> QED BY <3>1 DEF Kept
  <2>4. CASE NoneMade(res, key)
    <3>1. ASSUME NEW n \in after PROVE n \in before
      <4>1. PICK j \in DOMAIN new[res] : new[res][j].rule.key = key /\ new[res][j].stat = n
        BY <2>2 DEF StatsOf
      <4>2. Own(new[res][j]) /\ n \in Names
        BY <4>1 DEF StatsOf, Own
      <4>3. PICK i \in DOMAIN clone[res] : Same(clone[res][i], new[res][j])
        BY <2>4, <4>1, <4>2 DEF NoneMade
      <4> QED BY <2>1, <4>1, <4>2, <4>3 DEF StatsOf, Same
    <3> QED BY <3>1 DEF Kept
  <2> QED BY <2>1, <2>3, <2>4 DEF Carrying
<1> QED BY <1>1, <1>2, <1>3

(* A load that changes the rules of a resource loses no statistic that a   *)
(* rule of the new list could have gone on with: of each kind of statistic *)
(* either all live on, or all that the new list has lived before.          *)
THEOREM StatisticsAlwaysCarried == Spec => StatisticsCarried
<1>1. Init => CarryInv
  BY DEF Init, CarryInv, AtHome, Empty
<1>2. IInv /\ CarryInv /\ [Next]_vars => CarryInv'
  BY NextCarry, CarryStays DEF Next, vars, loadVars
<1>3. IInv /\ CarryInv /\ [Next]_vars =>
        [\A res \in Resources, key \in Keys : inForce'[res] # inForce[res] => Kept(res, key)]_vars
  BY StepKeeps DEF Next
<1>4. Spec => [][\A res \in Resources, key \in Keys :
                   inForce'[res] # inForce[res] => Kept(res, key)]_vars
  BY <1>1, <1>2, <1>3, IInvAlways, PTL DEF Spec
<1> QED BY <1>4, PTL DEF StatisticsCarried, Kept, Keys

-----------------------------------------------------------------------------
(* What is in force is what was loaded last *)

(* What is in force.  The positions of a list that hold something of S;    *)
(* the rules like r that manager k can enforce, and the controllers for    *)
(* them.                                                                   *)
Places(s, S) == {i \in DOMAIN s : s[i] \in S}
Count(s, S) == Cardinality(Places(s, S))
Valids == {r \in Rules : IsValidRule(r)}
CanEnforce(k, res, q) == k = "isolation" \/ (q.res = res /\ q.supported)
Wanted(k, res, r) == {q \in Rules : CanEnforce(k, res, q) /\ isEqualsTo(q, r)}
Alike(r) == {c \in Controllers : isEqualsTo(c.rule, r)}

(* RulesInForce, of one resource, any list of rules, and what is in force  *)
(* and reported for it.                                                    *)
Fulfils(k, res, rules, cs, rep) ==
  /\ \A r \in Rules :
       /\ Count(rules, Wanted(k, res, r) \cap Valids) <= Count(cs, Alike(r))
       /\ Count(cs, Alike(r)) <= Count(rules, Wanted(k, res, r))
       /\ k # "breaker" => Count(cs, Alike(r)) = Count(rules, Wanted(k, res, r) \cap Valids)
  /\ k = "breaker" /\ cs # <<>> => rep = ValidRules(rules)

Fulfilled(res) == Fulfils(kind, res, currentRules[res], inForce[res], reported[res])

(* While controllers are built: what has been made and what is still to    *)
(* be built are together what the list calls for.                          *)
Adds(k, res, made, rest, list) ==
  \A r \in Rules :
    Count(made, Alike(r)) + Count(rest, Wanted(k, res, r)) = Count(list, Wanted(k, res, r))
Counted(l, res) == Adds(kind, res, new[res], todo[res], RulesToBuild(l, res))

(* The rules of a resource once the load under way has noted them.         *)
Noted(l, res) == IF res \in Targets(l) THEN want[l].rules[res] ELSE currentRules[res]

ForceInv ==
  /\ mux = Nobody => \A res \in Resources : Fulfilled(res)
  /\ \A l \in Loaders :
       /\ pc[l] = "build" =>
            \A res \in Resources : Fulfilled(res) /\ (res \in Targets(l) => Counted(l, res))
       /\ pc[l] = "clear" =>
            /\ want[l].target \in Resources
            /\ currentRules[want[l].target] = <<>>
            /\ \A res \in Resources : res # want[l].target => Fulfilled(res)
       /\ pc[l] = "record" =>
            \A res \in Resources : Fulfils(kind, res, Noted(l, res), inForce[res], reported[res])

(* Induction, for a set of numbers that a property picks out.              *)
LEMMA SetInduction ==
  ASSUME NEW S, 0 \in S, \A n \in Nat : n \in S => n + 1 \in S
  PROVE  Nat \subseteq S
<1> SUFFICES ASSUME Nat \ S # {} PROVE FALSE
  OBVIOUS
<1> DEFINE T == Nat \ S
<1>1. T \subseteq Nat /\ T # {}
  OBVIOUS
<1> HIDE DEF T
<1>2. PICK m \in T : \A k \in T : <<k, m>> \notin OpToRel(<, Nat)
  BY <1>1, WFMin, NatLessThanWellFounded, Zenon
<1>3. \A k \in T : ~(k < m)
  BY <1>1, <1>2, Zenon DEF OpToRel
<1>4. m \in Nat /\ m # 0 /\ m \notin S
  BY <1>1 DEF T
<1>5. m - 1 \in Nat /\ m - 1 < m /\ m = (m - 1) + 1
  BY <1>4
<1>6. m - 1 \in S
  BY <1>3, <1>5 DEF T
<1> QED BY <1>4, <1>5, <1>6

(* What Picked has at its n-th step, given what it had before.             *)
PickedAt(rules, S, upTo, n) ==
  IF n = 0 THEN <<>>
  ELSE IF rules[n] \in S THEN Append(upTo[n - 1], rules[n])
  ELSE upTo[n - 1]

(* There is a function that Picked's definition describes.                 *)
LEMMA PickedExists ==
  ASSUME NEW rules, NEW S, NEW m \in Nat
  PROVE  \E upTo : upTo = [n \in 0 .. m |-> PickedAt(rules, S, upTo, n)]
<1> DEFINE Is(f, k) == f = [n \in 0 .. k |-> PickedAt(rules, S, f, n)]
           D == {k \in Nat : \E f : Is(f, k)}
<1>1. 0 \in D
  <2>1. Is([n \in 0 .. 0 |-> <<>>], 0)
    BY DEF PickedAt
  <2> QED BY <2>1
<1>2. ASSUME NEW k \in Nat, k \in D PROVE k + 1 \in D
  <2>1. PICK f : Is(f, k)
    BY <1>2
  <2> DEFINE g == [n \in 0 .. (k + 1) |->
                     IF n <= k THEN f[n] ELSE PickedAt(rules, S, f, n)]
  <2>2. \A n \in 0 .. k : n \in 0 .. (k + 1) /\ n <= k /\ g[n] = f[n]
    OBVIOUS
  <2>3. ASSUME NEW n \in 0 .. (k + 1) PROVE g[n] = PickedAt(rules, S, g, n)
    <3>1. n # 0 => n - 1 \in 0 .. k
      OBVIOUS
    <3>2. PickedAt(rules, S, g, n) = PickedAt(rules, S, f, n)
      BY <2>2, <3>1 DEF PickedAt
    <3>3. CASE n <= k
      <4>1. n \in 0 .. k
        BY <3>3
      <4>2. f[n] = PickedAt(rules, S, f, n)
        BY <2>1, <4>1
      <4> QED BY <2>2, <3>2, <4>1, <4>2
    <3>4. CASE ~(n <= k)
      BY <3>2, <3>4
    <3> QED BY <3>3, <3>4
  <2>4. g = [n \in 0 .. (k + 1) |-> g[n]]
    OBVIOUS
  <2> HIDE DEF g
  <2>5. Is(g, k + 1)
    BY <2>3, <2>4
  <2> QED BY <2>5
<1> HIDE DEF D
<1>3. m \in D
  BY <1>1, <1>2, SetInduction
<1> QED BY <1>3 DEF D

(* Picked, step by step.                                                   *)
LEMMA PickedSteps ==
  ASSUME NEW rules, Len(rules) \in Nat, NEW S
  PROVE  \E f : /\ Picked(rules, S) = f[Len(rules)]
                /\ \A n \in 0 .. Len(rules) : f[n] = PickedAt(rules, S, f, n)
<1> DEFINE f == CHOOSE upTo : upTo = [n \in 0 .. Len(rules) |-> PickedAt(rules, S, upTo, n)]
<1>1. Picked(rules, S) = f[Len(rules)]
  BY DEF Picked, PickedAt
<1>2. f = [n \in 0 .. Len(rules) |-> PickedAt(rules, S, f, n)]
  BY PickedExists
<1> HIDE DEF f
<1> QED BY <1>1, <1>2

One(c, S) == IF c \in S THEN 1 ELSE 0

(* Positions are finitely many.                                            *)
LEMMA PlacesFinite ==
  ASSUME NEW T, NEW s \in Seq(T), NEW S
  PROVE  IsFiniteSet(Places(s, S)) /\ Count(s, S) \in Nat
<1>1. DOMAIN s = 1 .. Len(s) /\ Len(s) \in Nat
  OBVIOUS
<1>2. IsFiniteSet(1 .. Len(s))
  BY <1>1, FS_Interval
<1>3. Places(s, S) \subseteq 1 .. Len(s)
  BY <1>1 DEF Places
<1>4. IsFiniteSet(Places(s, S))
  BY <1>2, <1>3, FS_Subset
<1> QED BY <1>4, FS_CardinalityType DEF Count

(* There is nothing in the empty list.                                     *)
LEMMA CountNothing ==
  ASSUME NEW S
  PROVE  Count(<<>>, S) = 0
<1>1. Places(<<>>, S) = {}
  BY DEF Places
<1> QED BY <1>1, FS_EmptySet DEF Count

(* Something is counted only if it is somewhere.                           *)
LEMMA CountSome ==
  ASSUME NEW T, NEW s \in Seq(T), NEW S
  PROVE  Count(s, S) # 0 <=> \E i \in DOMAIN s : s[i] \in S
<1>1. IsFiniteSet(Places(s, S))
  BY PlacesFinite
<1>2. Count(s, S) = 0 <=> Places(s, S) = {}
  BY <1>1, FS_EmptySet DEF Count
<1> QED BY <1>2 DEF Places

(* Two lists that hold the same at every position.                         *)
LEMMA CountAlike ==
  ASSUME NEW s, NEW t, NEW S, NEW U, DOMAIN s = DOMAIN t,
         \A i \in DOMAIN s : s[i] \in S <=> t[i] \in U
  PROVE  Count(s, S) = Count(t, U)
<1>1. Places(s, S) = Places(t, U)
  BY DEF Places
<1> QED BY <1>1 DEF Count

(* What is appended counts.                                                *)
LEMMA CountAppend ==
  ASSUME NEW T, NEW s \in Seq(T), NEW c \in T, NEW S
  PROVE  Count(Append(s, c), S) = Count(s, S) + One(c, S)
<1> DEFINE e == Len(s) + 1
           a == Append(s, c)
<1>1. /\ DOMAIN a = DOMAIN s \cup {e} /\ e \notin DOMAIN s
      /\ a[e] = c /\ \A i \in DOMAIN s : a[i] = s[i]
  OBVIOUS
<1> HIDE DEF e, a
<1>2. IsFiniteSet(Places(s, S)) /\ Count(s, S) \in Nat /\ e \notin Places(s, S)
  BY <1>1, PlacesFinite DEF Places
<1>3. CASE c \in S
  <2>1. Places(a, S) = Places(s, S) \cup {e}
    BY <1>1, <1>3 DEF Places
  <2>2. Cardinality(Places(s, S) \cup {e}) = Cardinality(Places(s, S)) + 1
    BY <1>2, FS_AddElement
  <2> QED BY <1>2, <1>3, <2>1, <2>2 DEF Count, One, a
<1>4. CASE c \notin S
  <2>1. Places(a, S) = Places(s, S)
    BY <1>1, <1>4 DEF Places
  <2> QED BY <1>2, <1>4, <2>1 DEF Count, One, a
<1> QED BY <1>3, <1>4

(* The head counts, and then the tail.                                     *)
LEMMA CountTail ==
  ASSUME NEW T, NEW s \in Seq(T), s # <<>>, NEW S
  PROVE  Count(s, S) = Count(Tail(s), S) + One(Head(s), S)
<1> DEFINE t == Tail(s)
<1>1. /\ t \in Seq(T) /\ Len(s) \in Nat /\ Len(t) \in Nat /\ Len(s) = Len(t) + 1
      /\ DOMAIN s = 1 .. Len(s) /\ DOMAIN t = 1 .. Len(t)
      /\ Head(s) = s[1] /\ \A i \in 1 .. Len(t) : t[i] = s[i + 1]
  OBVIOUS
<1> HIDE DEF t
<1> DEFINE later == {i \in Places(s, S) : i # 1}
           f == [i \in Places(t, S) |-> i + 1]
<1>2. \A i \in Places(t, S) : i \in Nat /\ i + 1 \in later
  BY <1>1 DEF Places
<1>3. \A j \in later : j - 1 \in Places(t, S) /\ j = (j - 1) + 1
  BY <1>1 DEF Places
<1>4. f \in Bijection(Places(t, S), later)
  <2>1. f \in [Places(t, S) -> later]
    BY <1>2
  <2>2. \A i, j \in Places(t, S) : f[i] = f[j] => i = j
    BY <1>2
  <2>3. \A j \in later : \E i \in Places(t, S) : f[i] = j
    BY <1>3
  <2> HIDE DEF f, later
  <2> QED BY <2>1, <2>2, <2>3 DEF Bijection, Injection, Surjection, IsInjective
<1>5. IsFiniteSet(Places(t, S)) /\ Count(t, S) \in Nat
  BY <1>1, PlacesFinite
<1>6. IsFiniteSet(later) /\ Cardinality(later) = Count(t, S)
  <2> HIDE DEF f, later
  <2> QED BY <1>4, <1>5, FS_Bijection DEF ExistsBijection, Count
<1>7. CASE Head(s) \in S
  <2>1. Places(s, S) = later \cup {1} /\ 1 \notin later
    BY <1>1, <1>7 DEF Places
  <2> HIDE DEF later
  <2>2. Cardinality(later \cup {1}) = Cardinality(later) + 1
    BY <1>6, <2>1, FS_AddElement
  <2> QED BY <1>6, <1>7, <2>1, <2>2 DEF Count, One, t
<1>8. CASE Head(s) \notin S
  <2>1. Places(s, S) = later
    BY <1>1, <1>8 DEF Places
  <2> HIDE DEF later
  <2> QED BY <1>5, <1>6, <1>8, <2>1 DEF Count, One, t
<1> QED BY <1>7, <1>8

(* What Picked picks: lists of S, and of everything in S as many as there  *)
(* are in the list.                                                        *)
PicksAll(T, rules, S, U) ==
  /\ Picked(rules, S) \in Seq(T \cap S)
  /\ Count(Picked(rules, S), U) = Count(rules, U \cap S)

LEMMA PickedCounts ==
  ASSUME NEW T, NEW rules \in Seq(T), NEW S, NEW U
  PROVE  PicksAll(T, rules, S, U)
<1>1. Len(rules) \in Nat /\ DOMAIN rules = 1 .. Len(rules)
  OBVIOUS
<1>2. PICK f : /\ Picked(rules, S) = f[Len(rules)]
               /\ \A n \in 0 .. Len(rules) : f[n] = PickedAt(rules, S, f, n)
  BY <1>1, PickedSteps
<1> DEFINE upTo(n) == {i \in 1 .. n : rules[i] \in U \cap S}
           Holds(n) == /\ f[n] \in Seq(T \cap S)
                       /\ Count(f[n], U) = Cardinality(upTo(n))
           D == {n \in Nat : n <= Len(rules) => Holds(n)}
<1>3. 0 \in D
  <2>1. f[0] = <<>>
    BY <1>1, <1>2 DEF PickedAt
  <2>2. upTo(0) = {}
    OBVIOUS
  <2>3. Cardinality(upTo(0)) = 0
    BY <2>2, FS_EmptySet
  <2>4. Count(f[0], U) = 0
    BY <2>1, CountNothing
  <2>5. f[0] \in Seq(T \cap S)
    BY <2>1
  <2> HIDE DEF upTo
  <2> QED BY <2>3, <2>4, <2>5
<1>4. ASSUME NEW n \in Nat, n \in D PROVE n + 1 \in D
  <2> SUFFICES ASSUME n + 1 <= Len(rules) PROVE Holds(n + 1)
    OBVIOUS
  <2>1. n <= Len(rules) /\ n + 1 \in 1 .. Len(rules) /\ n + 1 # 0 /\ (n + 1) - 1 = n
        /\ n + 1 \in 0 .. Len(rules)
    BY <1>1
  <2>2. f[n] \in Seq(T \cap S) /\ Count(f[n], U) = Cardinality(upTo(n))
    BY <1>4, <2>1
  <2>3. f[n + 1] = IF rules[n + 1] \in S THEN Append(f[n], rules[n + 1]) ELSE f[n]
    BY <1>2, <2>1 DEF PickedAt
  <2>4. IsFiniteSet(upTo(n)) /\ n + 1 \notin upTo(n)
    <3>1. IsFiniteSet(1 .. n)
      BY FS_Interval
    <3> QED BY <3>1, FS_Subset
  <2>5. rules[n + 1] \in T
    BY <1>1, <2>1
  <2>6. upTo(n + 1) = IF rules[n + 1] \in U \cap S THEN upTo(n) \cup {n + 1} ELSE upTo(n)
    OBVIOUS
  <2> DEFINE q == rules[n + 1]
             g == f[n]
             A == upTo(n)
             B == upTo(n + 1)
  <2>7. Cardinality(A \cup {n + 1}) = Cardinality(A) + 1
    <3> HIDE DEF upTo
    <3> QED BY <2>4, FS_AddElement
  <2>8. /\ g \in Seq(T \cap S) /\ Count(g, U) = Cardinality(A) /\ Cardinality(A) \in Nat
        /\ B = IF q \in U \cap S THEN A \cup {n + 1} ELSE A
        /\ q \in T
    <3>1. Cardinality(A) \in Nat
      BY <2>4, FS_CardinalityType
    <3> HIDE DEF upTo
    <3> QED BY <2>2, <2>5, <2>6, <3>1
  <2>9. f[n + 1] = IF q \in S THEN Append(g, q) ELSE g
    BY <2>3
  <2> HIDE DEF q, g, A, B
  <2>10. f[n + 1] \in Seq(T \cap S) /\ Count(f[n + 1], U) = Cardinality(B)
    <3>1. CASE q \in S
      <4>1. q \in T \cap S
        BY <2>8, <3>1
      <4>2. Count(Append(g, q), U) = Count(g, U) + One(q, U) /\ Append(g, q) \in Seq(T \cap S)
        BY <2>8, <4>1, CountAppend
      <4>3. CASE q \in U
        BY <2>7, <2>8, <2>9, <3>1, <4>2, <4>3 DEF One
      <4>4. CASE q \notin U
        BY <2>7, <2>8, <2>9, <3>1, <4>2, <4>4 DEF One
      <4> QED BY <4>3, <4>4
    <3>2. CASE q \notin S
      BY <2>8, <2>9, <3>2
    <3> QED BY <3>1, <3>2
  <2> HIDE DEF upTo
  <2> QED BY <2>10 DEF B
<1>5. Len(rules) \in D
  <2> HIDE DEF D
  <2> QED BY <1>1, <1>3, <1>4, SetInduction
<1>6. upTo(Len(rules)) = Places(rules, U \cap S)
  BY <1>1 DEF Places
<1> HIDE DEF upTo
<1> QED BY <1>1, <1>2, <1>5, <1>6 DEF Count, PicksAll

(* The valid rules of a list are as many as are valid.                     *)
LEMMA ValidCounts ==
  ASSUME NEW rules \in RuleLists, NEW U
  PROVE  Count(ValidRules(rules), U) = Count(rules, U \cap Valids)
<1> DEFINE T == Rules \cup {Nil}
           V == Valids
<1>1. ValidRules(rules) = Picked(rules, V)
  BY DEF ValidRules, Valids
<1>2. rules \in Seq(T)
  BY DEF RuleLists
<1> HIDE DEF T, V
<1>3. PicksAll(T, rules, V, U)
  BY <1>2, PickedCounts
<1>4. Count(Picked(rules, V), U) = Count(rules, U \cap V)
  BY <1>3 DEF PicksAll
<1> QED BY <1>1, <1>4 DEF V

-----------------------------------------------------------------------------
(* The types of the rules.                                                 *)
RulesOK ==
  /\ kind \in Kinds
  /\ want \in [Loaders -> [target : Resources \cup {All}, rules : [Resources -> RuleLists]]]
  /\ todo \in [Resources -> RuleLists]
  /\ currentRules \in [Resources -> RuleLists]
  /\ reported \in [Resources -> RuleLists]

(* Lists of rules, valid or of one resource, are lists.                    *)
LEMMA PickedTypes ==
  /\ \A rules \in RuleLists : ValidRules(rules) \in RuleLists
  /\ \A res \in Resources, rules \in Seq(Rules) : RulesFor(res, rules) \in Seq(Rules)
  /\ Seq(Rules) \subseteq RuleLists
  /\ <<>> \in RuleLists
<1>1. ASSUME NEW rules \in RuleLists PROVE ValidRules(rules) \in RuleLists
  <2>1. ValidRules(rules) \in Seq((Rules \cup {Nil}) \cap {r \in Rules : IsValidRule(r)})
    <3>1. PicksAll(Rules \cup {Nil}, rules, {r \in Rules : IsValidRule(r)}, {})
      BY PickedCounts DEF RuleLists
    <3> QED BY <3>1 DEF PicksAll, ValidRules
  <2> QED BY <2>1, SeqMonotonic DEF RuleLists
<1>2. ASSUME NEW res \in Resources, NEW rules \in Seq(Rules) PROVE RulesFor(res, rules) \in Seq(Rules)
  <2>1. RulesFor(res, rules) \in Seq(Rules \cap {r \in Rules : r.res = res})
    <3>1. PicksAll(Rules, rules, {r \in Rules : r.res = res}, {})
      BY PickedCounts
    <3> QED BY <3>1 DEF PicksAll, RulesFor
  <2> QED BY <2>1, SeqMonotonic
<1>3. Seq(Rules) \subseteq RuleLists
  BY DEF RuleLists
<1>4. <<>> \in RuleLists
  BY DEF RuleLists
<1> QED BY <1>1, <1>2, <1>3, <1>4

(* No rules at first.                                                      *)
LEMMA InitRulesOK == Init => RulesOK
BY PickedTypes DEF Init, RulesOK, NoLoad, Empty

(* What a load is called with.                                             *)
LEMMA CallTypes ==
  ASSUME ControllersOK, NEW l \in Loaders, Calls(l)
  PROVE  \E target \in Resources \cup {All}, rules \in [Resources -> RuleLists] : Call(l, target, rules)
<1>1. ASSUME NEW rules \in Loads, LoadRules(l, rules)
      PROVE  \E target \in Resources \cup {All}, rs \in [Resources -> RuleLists] : Call(l, target, rs)
  <2>1. rules \in [Resources -> RuleLists]
    BY LoadsAssumption, PickedTypes
  <2> QED BY <1>1, <2>1 DEF LoadRules
<1>2. ASSUME NEW load \in ResourceLoads, LoadRulesOfResource(l, load[1], load[2])
      PROVE  \E target \in Resources \cup {All}, rs \in [Resources -> RuleLists] : Call(l, target, rs)
  <2>1. load[1] \in Resources /\ load[2] \in RuleLists
    BY LoadsAssumption
  <2>2. [Empty EXCEPT ![load[1]] = load[2]] \in [Resources -> RuleLists]
    BY <2>1, PickedTypes DEF Empty
  <2> QED BY <1>2, <2>1, <2>2 DEF LoadRulesOfResource
<1>3. ASSUME NEW rules \in Additions, AddRules(l, rules)
      PROVE  \E target \in Resources \cup {All}, rs \in [Resources -> RuleLists] : Call(l, target, rs)
  <2>1. rules \in Seq(Rules)
    BY LoadsAssumption
  <2>2. ASSUME NEW res \in Resources PROVE Appended(res, rules) \in RuleLists
    <3>1. inForce[res] \in Seq(Controllers) /\ \A c \in Controllers : c.rule \in Rules
      BY DEF ControllersOK, Controllers
    <3>2. RulesOf(inForce[res]) \in Seq(Rules)
      <4> DEFINE s == inForce[res]
      <4>1. /\ DOMAIN s = 1 .. Len(s) /\ Len(s) \in Nat
            /\ \A i \in 1 .. Len(s) : s[i].rule \in Rules
        BY <3>1
      <4> HIDE DEF s
      <4> QED BY <4>1 DEF RulesOf, s
    <3>3. RulesFor(res, rules) \in Seq(Rules)
      BY <2>1, PickedTypes
    <3>4. Appended(res, rules) \in Seq(Rules)
      BY <3>2, <3>3, ConcatProperties DEF Appended
    <3> QED BY <3>4, PickedTypes
  <2>3. [res \in Resources |-> Appended(res, rules)] \in [Resources -> RuleLists]
    BY <2>2
  <2> HIDE DEF RuleLists
  <2> QED BY <1>3, <2>3 DEF AddRules
<1> QED BY <1>1, <1>2, <1>3 DEF Calls

(* Rules stay rules, whatever the step does with them.                     *)
LEMMA NextRulesOK ==
  ASSUME IInv, RulesOK, NEW l \in Loaders, Calls(l) \/ Enter(l) \/ GoOn(l)
  PROVE  RulesOK'
<1> USE DEF loadVars
<1>1. /\ ControllersOK /\ Empty \in [Resources -> RuleLists]
      /\ NoLoad \in [target : Resources \cup {All}, rules : [Resources -> RuleLists]]
  BY PickedTypes DEF IInv, Empty, NoLoad
<1>2. ASSUME Calls(l) PROVE RulesOK'
  <2>1. PICK target \in Resources \cup {All}, rules \in [Resources -> RuleLists] : Call(l, target, rules)
    BY <1>1, <1>2, CallTypes
  <2> QED BY <2>1 DEF Call, RulesOK
<1>3. ASSUME Ignore(l) PROVE RulesOK'
  BY <1>1, <1>3 DEF Ignore, Return, RulesOK
<1>4. ASSUME Release(l), kind' = kind, currentRules' \in [Resources -> RuleLists], reported' \in [Resources -> RuleLists]
      PROVE  RulesOK'
  BY <1>1, <1>4 DEF Release, Return, RulesOK
<1>5. ASSUME ClearRules(l) PROVE RulesOK'
  BY <1>5, PickedTypes DEF ClearRules, RulesOK
<1>6. ASSUME ClearControllers(l) PROVE RulesOK'
  <2>1. /\ Release(l) /\ kind' = kind /\ currentRules' \in [Resources -> RuleLists]
        /\ reported' \in [Resources -> RuleLists]
    BY <1>6, PickedTypes DEF ClearControllers, RulesOK
  <2> QED BY <1>4, <2>1
<1>7. ASSUME StartUpdate(l) PROVE RulesOK'
  <2>1. \A res \in Resources : RulesToBuild(l, res) \in RuleLists
    BY PickedTypes DEF RulesToBuild, RulesOK
  <2> QED BY <1>7, <2>1, PickedTypes DEF StartUpdate, RulesOK
<1>8. ASSUME Build(l) PROVE RulesOK'
  <2>1. CASE \E res \in Resources : Panics(l, res)
    <3>1. /\ Release(l) /\ kind' = kind /\ currentRules' \in [Resources -> RuleLists]
          /\ reported' \in [Resources -> RuleLists]
      BY <2>1 DEF Panics, RulesOK
    <3> QED BY <1>4, <3>1
  <2>2. CASE ~ \E res \in Resources : Panics(l, res)
    <3>1. PICK res \in Resources : todo[res] # <<>> /\ Done(res)
      BY <1>8, <2>2 DEF Build, BuildIsolation, BuildNothing, BuildEqual, BuildReusing, BuildNew,
                        Builds, Generates, NextRule
    <3>2. Tail(todo[res]) \in RuleLists
      BY <3>1 DEF RulesOK, RuleLists
    <3> QED BY <3>1, <3>2 DEF Done, RulesOK
  <2> QED BY <2>1, <2>2
<1>9. ASSUME Swap(l) PROVE RulesOK'
  <2>1. \A res \in Resources : Reports(l, res) \in RuleLists
    BY PickedTypes DEF Reports, RulesOK
  <2> QED BY <1>9, <2>1 DEF Swap, RulesOK
<1>10. ASSUME Record(l) PROVE RulesOK'
  <2>1. /\ Release(l) /\ kind' = kind /\ currentRules' \in [Resources -> RuleLists]
        /\ reported' \in [Resources -> RuleLists]
    BY <1>10 DEF Record, RulesOK
  <2> QED BY <1>4, <2>1
<1> QED BY <1>2, <1>3, <1>5, <1>6, <1>7, <1>8, <1>9, <1>10 DEF Enter, GoOn

-----------------------------------------------------------------------------
(* Rules that are equal to isEqualsTo are so to each other, and are valid  *)
(* and supported together.                                                 *)
LEMMA EqualRules ==
  ASSUME NEW a \in Rules, NEW b \in Rules, isEqualsTo(a, b)
  PROVE  /\ \A r : isEqualsTo(a, r) <=> isEqualsTo(b, r)
         /\ isEqualsTo(b, a)
         /\ a \in Valids <=> b \in Valids
         /\ a.supported <=> b.supported
         /\ a.res = b.res
<1>1. /\ a.valid = b.valid /\ a.supported = b.supported
      /\ a.valid \in BOOLEAN /\ b.valid \in BOOLEAN
      /\ a.supported \in BOOLEAN /\ b.supported \in BOOLEAN
      /\ a # Nil /\ b # Nil
  BY EqualsAssumption, RulesAssumption
<1>2. (\A r : isEqualsTo(a, r) <=> isEqualsTo(b, r)) /\ isEqualsTo(b, a) /\ a.res = b.res
  BY DEF isEqualsTo
<1>3. a.valid <=> b.valid
  BY <1>1, Zenon
<1>4. a \in Valids <=> b \in Valids
  BY <1>1, <1>3, Zenon DEF Valids, IsValidRule
<1>5. a.supported <=> b.supported
  BY <1>1, Zenon
<1> QED BY <1>2, <1>4, <1>5

(* Of fewer things there are fewer.                                        *)
LEMMA CountFewer ==
  ASSUME NEW T, NEW s \in Seq(T), NEW S, NEW U, S \subseteq U
  PROVE  Count(s, S) <= Count(s, U)
<1>1. IsFiniteSet(Places(s, U)) /\ Places(s, S) \subseteq Places(s, U)
  BY PlacesFinite DEF Places
<1> QED BY <1>1, FS_Subset DEF Count

(* Nothing wanted, nothing in force.                                       *)
LEMMA FulfilsNothing ==
  ASSUME NEW k, NEW res
  PROVE  Fulfils(k, res, <<>>, <<>>, <<>>)
BY CountNothing DEF Fulfils

(* Whoever has a controller in force wants it.                             *)
LEMMA InForceWanted ==
  ASSUME NEW k, NEW res, NEW rules \in RuleLists, NEW cs \in Seq(Controllers), NEW rep,
         Fulfils(k, res, rules, cs, rep), NEW i \in DOMAIN cs
  PROVE  CanEnforce(k, res, cs[i].rule)
<1> DEFINE q == cs[i].rule
<1>0. cs[i] \in Controllers
  OBVIOUS
<1>1. cs[i] \in Controllers /\ q \in Rules
  BY <1>0 DEF Controllers
<1>2. cs[i] \in Alike(q)
  BY <1>1 DEF Alike, isEqualsTo
<1>3. Count(cs, Alike(q)) # 0 /\ Count(cs, Alike(q)) \in Nat
  BY <1>2, CountSome, PlacesFinite
<1>4. Count(cs, Alike(q)) <= Count(rules, Wanted(k, res, q)) /\ Count(rules, Wanted(k, res, q)) \in Nat
  BY <1>1, PlacesFinite DEF Fulfils, RuleLists
<1>5. Count(rules, Wanted(k, res, q)) # 0
  BY <1>3, <1>4
<1>6. PICK j \in DOMAIN rules : rules[j] \in Wanted(k, res, q)
  BY <1>5, CountSome DEF RuleLists
<1>7. rules[j] \in Rules /\ CanEnforce(k, res, rules[j]) /\ isEqualsTo(rules[j], q)
  BY <1>6 DEF Wanted
<1>8. (rules[j].supported <=> q.supported) /\ rules[j].res = q.res
  BY <1>1, <1>7, EqualRules
<1> QED BY <1>7, <1>8 DEF CanEnforce

(* One rule is built: nothing is added for a rule that cannot be enforced, *)
(* and for any other a controller of a rule equal to it.                   *)
LEMMA BuildsOne ==
  ASSUME IInv, RulesOK, ForceInv, NEW l \in Loaders, NEW res \in Resources, NEW r \in Rules,
         \/ BuildIsolation(l, res, r) \/ BuildNothing(l, res, r)
         \/ BuildEqual(l, res, r) \/ BuildReusing(l, res, r) \/ BuildNew(l, res, r)
  PROVE  /\ pc[l] = "build" /\ todo[res] # <<>> /\ r = Head(todo[res]) /\ Done(res)
         /\ \/ new' = new /\ ~CanEnforce(kind, res, r)
            \/ /\ CanEnforce(kind, res, r)
               /\ \E c \in Controllers : AddController(res, c) /\ isEqualsTo(c.rule, r)
<1> DEFINE Adding1 == \E c \in Controllers : AddController(res, c) /\ isEqualsTo(c.rule, r)
<1>1. pc[l] = "build" /\ todo[res] # <<>> /\ r = Head(todo[res]) /\ Done(res)
  BY DEF BuildIsolation, BuildNothing, BuildEqual, BuildReusing, BuildNew, Builds, Generates, NextRule
<1>2. /\ \A x : isEqualsTo(x, x)
      /\ ControllersOK /\ clone = inForce
      /\ \A i \in left[res] : i \in DOMAIN clone[res] /\ clone[res][i] \in Controllers
  BY <1>1 DEF isEqualsTo, IInv, Locked, ControllersOK
<1>3. CASE BuildIsolation(l, res, r)
  <2> DEFINE c == [rule |-> r, stat |-> Nop, made |-> TRUE]
  <2>1. c \in Controllers /\ AddController(res, c) /\ c.rule = r /\ kind = "isolation"
    BY <1>3 DEF BuildIsolation, Controllers
  <2> QED BY <1>1, <1>2, <2>1 DEF CanEnforce
<1>4. CASE BuildNothing(l, res, r)
  <2>1. new' = new /\ kind # "isolation" /\ (r.res # res \/ ~r.supported)
    BY <1>4 DEF BuildNothing, Builds
  <2> QED BY <1>1, <2>1 DEF CanEnforce
<1>5. CASE BuildEqual(l, res, r)
  <2>1. PICK i \in First(Equals(res, r)) : AddController(res, clone[res][i])
    BY <1>5 DEF BuildEqual
  <2>2. i \in left[res] /\ isEqualsTo(clone[res][i].rule, r)
    BY <2>1 DEF First, Equals
  <2>3. clone[res][i] \in Controllers /\ i \in DOMAIN inForce[res]
    BY <1>2, <2>2
  <2>4. Fulfilled(res) /\ currentRules[res] \in RuleLists /\ inForce[res] \in Seq(Controllers)
    BY <1>1, <1>2 DEF ForceInv, RulesOK, ControllersOK
  <2>5. CanEnforce(kind, res, inForce[res][i].rule)
    BY <2>3, <2>4, InForceWanted DEF Fulfilled
  <2>6. clone[res][i].rule \in Rules
    BY <2>3 DEF Controllers
  <2>7. (clone[res][i].rule.supported <=> r.supported) /\ clone[res][i].rule.res = r.res
    BY <2>2, <2>6, EqualRules
  <2>8. CanEnforce(kind, res, r)
    BY <1>2, <2>5, <2>7 DEF CanEnforce
  <2> QED BY <1>1, <2>1, <2>2, <2>3, <2>8
<1>6. CASE BuildReusing(l, res, r)
  <2>1. PICK i \in First(Reusables(res, r)) :
          AddController(res, [rule |-> r, stat |-> clone[res][i].stat, made |-> TRUE])
    BY <1>6 DEF BuildReusing
  <2> DEFINE c == [rule |-> r, stat |-> clone[res][i].stat, made |-> TRUE]
  <2>2. i \in left[res]
    BY <2>1 DEF First, Reusables
  <2>3. c \in Controllers /\ c.rule = r
    BY <1>2, <2>2 DEF Controllers
  <2>4. CanEnforce(kind, res, r)
    BY <1>6 DEF BuildReusing, Generates, CanEnforce
  <2> QED BY <1>1, <1>2, <2>1, <2>3, <2>4
<1>7. CASE BuildNew(l, res, r)
  <2>1. PICK n \in First(Unused) :
          AddController(res, [rule |-> r, stat |-> generateStatFor(r, n), made |-> TRUE])
    BY <1>7 DEF BuildNew
  <2> DEFINE c == [rule |-> r, stat |-> generateStatFor(r, n), made |-> TRUE]
  <2>2. c \in Controllers /\ c.rule = r
    BY <2>1 DEF First, Unused, Controllers, generateStatFor
  <2>3. CanEnforce(kind, res, r)
    BY <1>7 DEF BuildNew, Generates, CanEnforce
  <2> QED BY <1>1, <1>2, <2>1, <2>2, <2>3
<1> QED BY <1>3, <1>4, <1>5, <1>6, <1>7

(* One rule less to build, and a controller more if it can be enforced.    *)
LEMMA AddsOne ==
  ASSUME NEW k, NEW res, NEW made \in Seq(Controllers), NEW rest \in RuleLists, NEW list,
         rest # <<>>, Head(rest) \in Rules, Adds(k, res, made, rest, list), NEW made2,
         \/ made2 = made /\ ~CanEnforce(k, res, Head(rest))
         \/ /\ CanEnforce(k, res, Head(rest))
            /\ \E c \in Controllers : made2 = Append(made, c) /\ isEqualsTo(c.rule, Head(rest))
  PROVE  Adds(k, res, made2, Tail(rest), list)
<1> DEFINE r == Head(rest)
           t == Tail(rest)
<1>0. t \in RuleLists
  BY DEF RuleLists
<1> SUFFICES ASSUME NEW q \in Rules
             PROVE  Count(made2, Alike(q)) + Count(t, Wanted(k, res, q)) = Count(list, Wanted(k, res, q))
  BY DEF Adds
<1> DEFINE W == Wanted(k, res, q)
           A == Alike(q)
<1>1. Count(made, A) + Count(rest, W) = Count(list, W)
  BY DEF Adds
<1>2. Count(rest, W) = Count(t, W) + One(r, W)
  BY CountTail DEF RuleLists
<1>3. Count(made, A) \in Nat /\ Count(t, W) \in Nat /\ One(r, W) \in Nat
  <2> HIDE DEF W, A, t
  <2> QED BY <1>0, PlacesFinite DEF RuleLists, One
<1>4. ASSUME made2 = made, ~CanEnforce(k, res, r)
      PROVE  Count(made2, A) + Count(t, W) = Count(list, W)
  <2>1. One(r, W) = 0
    BY <1>4 DEF One, Wanted
  <2> HIDE DEF W, A, t, r
  <2> QED BY <1>1, <1>2, <1>3, <1>4, <2>1
<1>5. ASSUME CanEnforce(k, res, r), NEW c \in Controllers, made2 = Append(made, c), isEqualsTo(c.rule, r)
      PROVE  Count(made2, A) + Count(t, W) = Count(list, W)
  <2>2. c.rule \in Rules
    BY DEF Controllers
  <2>3. isEqualsTo(c.rule, q) <=> isEqualsTo(r, q)
    BY <1>5, <2>2, EqualRules
  <2>4. c \in A <=> r \in W
    BY <1>5, <2>3 DEF Alike, Wanted
  <2>5. One(c, A) = One(r, W)
    BY <2>4 DEF One
  <2>6. Count(made2, A) = Count(made, A) + One(c, A)
    BY <1>5, CountAppend
  <2> HIDE DEF W, A, t, r
  <2> QED BY <1>1, <1>2, <1>3, <2>5, <2>6
<1> QED BY <1>4, <1>5

(* No rules at first, and nothing in force.                                *)
LEMMA InitForce == Init => ForceInv
<1> SUFFICES ASSUME Init PROVE ForceInv
  OBVIOUS
<1>1. \A res \in Resources : currentRules[res] = <<>> /\ inForce[res] = <<>> /\ reported[res] = <<>>
  BY DEF Init, Empty
<1>2. \A res \in Resources : Fulfilled(res)
  BY <1>1, FulfilsNothing DEF Fulfilled
<1>3. \A l \in Loaders : pc[l] = "idle"
  BY DEF Init
<1> QED BY <1>2, <1>3 DEF ForceInv

(* Nothing changes of a resource.                                          *)
LEMMA FulfilledStays ==
  ASSUME kind' = kind, NEW res, Fulfilled(res), currentRules'[res] = currentRules[res],
         inForce'[res] = inForce[res], reported'[res] = reported[res]
  PROVE  Fulfilled(res)'
BY DEF Fulfilled

(* A call or a comparison, of somebody who does not hold the mutex.        *)
LEMMA ForceOutside ==
  ASSUME IInv, RulesOK, ForceInv, NEW l \in Loaders, NEW p \in {"idle", "waiting"}, NEW w, pc[l] \notin Holding,
         Goto(l, p), want' = [want EXCEPT ![l] = w],
         UNCHANGED <<kind, mux, loadVars, currentRules, inForce, reported>>
  PROVE  ForceInv'
<1>1. /\ \A k \in Loaders : pc'[k] \in Holding => k # l /\ pc'[k] = pc[k] /\ want'[k] = want[k]
      /\ UNCHANGED <<todo, new>>
  BY DEF Goto, IInv, ControllersOK, RulesOK, Holding, loadVars
<1>2. \A res : Fulfilled(res)' <=> Fulfilled(res)
  BY DEF Fulfilled
<1>3. \A k \in Loaders : want'[k] = want[k] =>
        \A res : /\ Targets(k)' = Targets(k)
                 /\ Noted(k, res)' = Noted(k, res)
                 /\ RulesToBuild(k, res)' = RulesToBuild(k, res)
  BY DEF Targets, Noted, RulesToBuild
<1>4. \A k \in Loaders : want'[k] = want[k] => \A res : Counted(k, res)' <=> Counted(k, res)
  BY <1>1, <1>3 DEF Counted
<1>5. \A k \in Loaders : pc'[k] \in Holding =>
        /\ pc[k] = pc'[k] /\ want'[k] = want[k] /\ Targets(k)' = Targets(k)
        /\ \A res : (Counted(k, res)' <=> Counted(k, res)) /\ Noted(k, res)' = Noted(k, res)
  BY <1>1, <1>3, <1>4
<1>6. ASSUME mux' = Nobody, NEW res \in Resources PROVE Fulfilled(res)'
  BY <1>2, <1>6 DEF ForceInv
<1>7. ASSUME NEW k \in Loaders, pc'[k] = "build", NEW res \in Resources
      PROVE  Fulfilled(res)' /\ (res \in Targets(k)' => Counted(k, res)')
  BY <1>2, <1>5, <1>7 DEF ForceInv, Holding
<1>8. ASSUME NEW k \in Loaders, pc'[k] = "clear"
      PROVE  /\ want'[k].target \in Resources
             /\ currentRules'[want'[k].target] = <<>>
             /\ \A res \in Resources : res # want'[k].target => Fulfilled(res)'
  BY <1>2, <1>5, <1>8 DEF ForceInv, Holding
<1>9. ASSUME NEW k \in Loaders, pc'[k] = "record", NEW res \in Resources
      PROVE  Fulfils(kind', res, Noted(k, res)', inForce'[res], reported'[res])
  <2>1. pc[k] = "record" /\ Noted(k, res)' = Noted(k, res)
    BY <1>5, <1>9 DEF Holding
  <2>2. Fulfils(kind, res, Noted(k, res), inForce[res], reported[res])
    BY <2>1 DEF ForceInv
  <2> QED BY <2>1, <2>2
<1> QED BY <1>6, <1>7, <1>8, <1>9 DEF ForceInv

(* The mutex is given back, and all that was loaded is in force.           *)
LEMMA ForceReleased ==
  ASSUME IInv, NEW l \in Loaders, mux = l, Release(l), \A res \in Resources : Fulfilled(res)'
  PROVE  ForceInv'
<1>1. \A k \in Loaders : pc'[k] \notin Holding
  BY DEF Release, Return, Goto, IInv, ControllersOK, Locked, Holding
<1> QED BY <1>1 DEF ForceInv, Holding

(* l goes on inside the mutex: nobody else is there.                       *)
LEMMA ForceInside ==
  ASSUME IInv, NEW l \in Loaders, mux \in {l, Nobody}, mux' = l, NEW p, Goto(l, p),
         p = "build" => \A res \in Resources :
                          Fulfilled(res)' /\ (res \in Targets(l)' => Counted(l, res)'),
         p = "clear" => /\ want'[l].target \in Resources
                        /\ currentRules'[want'[l].target] = <<>>
                        /\ \A res \in Resources : res # want'[l].target => Fulfilled(res)',
         p = "record" => \A res \in Resources :
                           Fulfils(kind', res, Noted(l, res)', inForce'[res], reported'[res])
  PROVE  ForceInv'
<1>1. mux' # Nobody
  BY NobodyAssumption
<1>2. \A k \in Loaders : IF k = l THEN pc'[k] = p ELSE pc'[k] \notin Holding
  BY NobodyAssumption DEF Goto, IInv, ControllersOK, Locked
<1> QED BY <1>1, <1>2 DEF ForceInv, Holding

(* Nothing is built yet, and all that the list calls for is still to do.   *)
LEMMA StartForce ==
  ASSUME IInv, RulesOK, ForceInv, NEW l \in Loaders, StartUpdate(l)
  PROVE  ForceInv'
<1>1. /\ mux = Nobody /\ mux' = l /\ Goto(l, "build")
      /\ UNCHANGED <<kind, want, currentRules, inForce, reported>>
      /\ todo' = [res \in Resources |-> IF res \in Targets(l) THEN RulesToBuild(l, res) ELSE <<>>]
      /\ new' = Empty
  BY DEF StartUpdate, Acquire
<1>2. \A res \in Resources : Fulfilled(res)'
  BY <1>1, FulfilledStays DEF ForceInv
<1>3. ASSUME NEW res \in Resources, res \in Targets(l)'
      PROVE  Counted(l, res)'
  <2>1. Targets(l)' = Targets(l) /\ RulesToBuild(l, res)' = RulesToBuild(l, res)
    BY <1>1 DEF Targets, RulesToBuild
  <2>2. todo'[res] = RulesToBuild(l, res) /\ new'[res] = <<>>
    BY <1>1, <1>3, <2>1 DEF Empty
  <2>3. RulesToBuild(l, res) \in RuleLists
    BY PickedTypes DEF RulesToBuild, RulesOK
  <2>4. ASSUME NEW r \in Rules
        PROVE  Count(<<>>, Alike(r)) + Count(RulesToBuild(l, res), Wanted(kind, res, r))
                 = Count(RulesToBuild(l, res), Wanted(kind, res, r))
    <3>1. Count(RulesToBuild(l, res), Wanted(kind, res, r)) \in Nat /\ Count(<<>>, Alike(r)) = 0
      BY <2>3, PlacesFinite, CountNothing DEF RuleLists
    <3> QED BY <3>1
  <2>5. Adds(kind, res, <<>>, RulesToBuild(l, res), RulesToBuild(l, res))
    BY <2>4 DEF Adds
  <2> QED BY <1>1, <2>1, <2>2, <2>5 DEF Counted
<1> QED BY <1>1, <1>2, <1>3, ForceInside

(* A rule is built, or the load panics and leaves everything as it was.    *)
LEMMA BuildForce ==
  ASSUME IInv, RulesOK, ForceInv, NEW l \in Loaders, NEW res \in Resources, NEW r \in Rules,
         \/ BuildIsolation(l, res, r) \/ BuildNothing(l, res, r)
         \/ BuildEqual(l, res, r) \/ BuildReusing(l, res, r) \/ BuildNew(l, res, r)
  PROVE  ForceInv'
<1>1. /\ pc[l] = "build" /\ todo[res] # <<>> /\ r = Head(todo[res]) /\ Done(res)
      /\ \/ new' = new /\ ~CanEnforce(kind, res, r)
         \/ /\ CanEnforce(kind, res, r)
            /\ \E c \in Controllers : AddController(res, c) /\ isEqualsTo(c.rule, r)
  BY BuildsOne
<1>2. /\ UNCHANGED <<kind, pc, want, mux, currentRules, inForce, reported>>
      /\ todo' = [todo EXCEPT ![res] = Tail(@)]
  BY <1>1 DEF Done
<1>3. mux = l /\ Goto(l, "build")
  BY <1>1, <1>2 DEF IInv, Locked, ControllersOK, Holding, Goto
<1>4. \A x \in Resources : Fulfilled(x)'
  BY <1>1, <1>2, FulfilledStays DEF ForceInv
<1>5. ASSUME NEW x \in Resources, x \in Targets(l)'
      PROVE  Counted(l, x)'
  <2>1. Targets(l)' = Targets(l) /\ RulesToBuild(l, x)' = RulesToBuild(l, x)
    BY <1>2 DEF Targets, RulesToBuild
  <2>2. Adds(kind, x, new[x], todo[x], RulesToBuild(l, x))
    BY <1>1, <1>5, <2>1 DEF ForceInv, Counted
  <2>3. new[x] \in Seq(Controllers) /\ todo \in [Resources -> RuleLists] /\ new \in [Resources -> Seq(Controllers)]
    BY DEF IInv, ControllersOK, RulesOK
  <2>4. CASE x # res
    <3>1. todo'[x] = todo[x] /\ new'[x] = new[x]
      BY <1>1, <1>2, <2>3, <2>4 DEF AddController
    <3> QED BY <1>2, <2>1, <2>2, <3>1 DEF Counted
  <2>5. CASE x = res
    <3>1. todo[res] \in RuleLists /\ todo'[res] = Tail(todo[res])
      BY <1>2, <2>3
    <3>2. \/ new'[res] = new[res] /\ ~CanEnforce(kind, res, r)
          \/ /\ CanEnforce(kind, res, r)
             /\ \E c \in Controllers : new'[res] = Append(new[res], c) /\ isEqualsTo(c.rule, r)
      BY <1>1, <2>3 DEF AddController
    <3>3. Adds(kind, res, new'[res], Tail(todo[res]), RulesToBuild(l, res))
      BY <1>1, <2>2, <2>3, <2>5, <3>1, <3>2, AddsOne
    <3> QED BY <1>2, <2>1, <2>5, <3>1, <3>3 DEF Counted
  <2> QED BY <2>4, <2>5
<1> QED BY <1>2, <1>3, <1>4, <1>5, ForceInside

(* All that a list calls for has been built: it is fulfilled.              *)
LEMMA BuiltFulfils ==
  ASSUME NEW k, NEW res, NEW rules \in RuleLists, NEW list, NEW cs \in Seq(Controllers), NEW made \in Seq(Controllers),
         NEW rep,
         \/ list = ValidRules(rules)
         \/ list = rules /\ k = "breaker",
         Adds(k, res, made, <<>>, list),
         DOMAIN cs = DOMAIN made, \A i \in DOMAIN made : cs[i].rule = made[i].rule,
         k = "breaker" /\ made # <<>> => rep = ValidRules(rules)
  PROVE  Fulfils(k, res, rules, cs, rep)
<1>1. ASSUME NEW r \in Rules
      PROVE  /\ Count(cs, Alike(r)) = Count(list, Wanted(k, res, r))
             /\ Count(ValidRules(rules), Wanted(k, res, r)) = Count(rules, Wanted(k, res, r) \cap Valids)
             /\ Count(rules, Wanted(k, res, r) \cap Valids) <= Count(rules, Wanted(k, res, r))
             /\ Count(rules, Wanted(k, res, r) \cap Valids) \in Nat
             /\ Count(rules, Wanted(k, res, r)) \in Nat
             /\ Count(list, Wanted(k, res, r)) \in Nat
  <2>1. \A i \in DOMAIN cs : cs[i] \in Controllers /\ made[i] \in Controllers
    OBVIOUS
  <2>2. Count(cs, Alike(r)) = Count(made, Alike(r))
    <3>1. \A i \in DOMAIN cs : cs[i] \in Alike(r) <=> made[i] \in Alike(r)
      BY <2>1 DEF Alike
    <3> QED BY <3>1, CountAlike
  <2>3. Count(made, Alike(r)) + Count(<<>>, Wanted(k, res, r)) = Count(list, Wanted(k, res, r))
    BY DEF Adds
  <2>4. Count(made, Alike(r)) \in Nat /\ Count(<<>>, Wanted(k, res, r)) = 0
    BY PlacesFinite, CountNothing
  <2>5. Count(rules, Wanted(k, res, r) \cap Valids) <= Count(rules, Wanted(k, res, r))
    <3>1. Wanted(k, res, r) \cap Valids \subseteq Wanted(k, res, r)
      OBVIOUS
    <3> QED BY <3>1, CountFewer DEF RuleLists
  <2>6. Count(ValidRules(rules), Wanted(k, res, r)) = Count(rules, Wanted(k, res, r) \cap Valids)
    BY ValidCounts
  <2>7. /\ Count(rules, Wanted(k, res, r) \cap Valids) \in Nat
        /\ Count(rules, Wanted(k, res, r)) \in Nat
    BY PlacesFinite DEF RuleLists
  <2>8. Count(cs, Alike(r)) = Count(list, Wanted(k, res, r)) /\ Count(list, Wanted(k, res, r)) \in Nat
    BY <2>2, <2>3, <2>4
  <2> QED BY <2>5, <2>6, <2>7, <2>8
<1>2. ASSUME NEW r \in Rules
      PROVE  /\ Count(rules, Wanted(k, res, r) \cap Valids) <= Count(cs, Alike(r))
             /\ Count(cs, Alike(r)) <= Count(rules, Wanted(k, res, r))
             /\ k # "breaker" => Count(cs, Alike(r)) = Count(rules, Wanted(k, res, r) \cap Valids)
  BY <1>1
<1>3. ASSUME k = "breaker", cs # <<>> PROVE rep = ValidRules(rules)
  <2>1. PICK i \in DOMAIN cs : TRUE
    BY <1>3
  <2>2. i \in DOMAIN made
    BY <2>1
  <2>3. made # <<>>
    BY <2>2
  <2> QED BY <1>3, <2>3
<1> QED BY <1>2, <1>3 DEF Fulfils

(* What was built is in force for the rules that are about to be noted.    *)
LEMMA SwapForce ==
  ASSUME IInv, RulesOK, ForceInv, NEW l \in Loaders, Swap(l)
  PROVE  ForceInv'
<1>1. /\ pc[l] = "build" /\ mux = l /\ mux' = l /\ Goto(l, "record")
      /\ UNCHANGED <<kind, want, currentRules>>
      /\ todo = Empty
      /\ inForce' = [res \in Resources |-> Replaced(l, res)]
      /\ reported' = [res \in Resources |-> Reports(l, res)]
      /\ \A res \in Resources : Fulfilled(res) /\ (res \in Targets(l) => Counted(l, res))
      /\ new \in [Resources -> Seq(Controllers)]
  BY DEF Swap, IInv, Locked, Holding, ForceInv, ControllersOK
<1>2. inForce' \in [Resources -> Seq(Controllers)]
  BY SwapIInv DEF IInv, ControllersOK
<1>3. ASSUME NEW res \in Resources
      PROVE  Fulfils(kind', res, Noted(l, res)', inForce'[res], reported'[res])
  <2>1. Noted(l, res)' = Noted(l, res)
    BY <1>1 DEF Noted, Targets
  <2>2. CASE res \notin Targets(l)
    <3>1. inForce'[res] = inForce[res] /\ reported'[res] = reported[res] /\ Noted(l, res) = currentRules[res]
      BY <1>1, <2>2 DEF Replaced, Reports, Noted
    <3> QED BY <1>1, <2>1, <3>1 DEF Fulfilled
  <2>3. CASE res \in Targets(l)
    <3> DEFINE rules == want[l].rules[res]
               list == RulesToBuild(l, res)
               made == new[res]
               cs == inForce'[res]
               rep == reported'[res]
    <3>1. rules \in RuleLists /\ Noted(l, res) = rules
      BY <2>3 DEF RulesOK, Noted
    <3>2. list = ValidRules(rules) \/ (list = rules /\ kind = "breaker")
      BY DEF RulesToBuild
    <3>3. Adds(kind, res, made, <<>>, list)
      BY <1>1, <2>3 DEF Counted, Empty
    <3>4. cs = [i \in DOMAIN made |-> [made[i] EXCEPT !.made = FALSE]]
      BY <1>1, <2>3 DEF Replaced
    <3>5. \A i \in DOMAIN made : made[i] \in Controllers
      BY <1>1
    <3>6. \A c \in Controllers : [c EXCEPT !.made = FALSE].rule = c.rule
      BY DEF Controllers
    <3>7. DOMAIN cs = DOMAIN made /\ \A i \in DOMAIN made : cs[i].rule = made[i].rule
      BY <3>4, <3>5, <3>6
    <3>8. kind = "breaker" /\ made # <<>> => rep = ValidRules(rules)
      BY <1>1, <2>3 DEF Reports
    <3>9. cs \in Seq(Controllers) /\ made \in Seq(Controllers)
      BY <1>1, <1>2
    <3> HIDE DEF rules, list, made, cs, rep
    <3>10. Fulfils(kind, res, rules, cs, rep)
      BY <3>1, <3>2, <3>3, <3>7, <3>8, <3>9, BuiltFulfils
    <3> QED BY <1>1, <2>1, <3>1, <3>10 DEF cs, rep
  <2> QED BY <2>2, <2>3
<1> QED BY <1>1, <1>3, ForceInside

(* Every step preserves it.                                                *)
LEMMA NextForce ==
  ASSUME IInv, RulesOK, ForceInv, NEW l \in Loaders, Calls(l) \/ Enter(l) \/ GoOn(l)
  PROVE  ForceInv'
<1>1. pc[l] \in Holding => mux = l
  BY DEF IInv, Locked
<1>2. ASSUME Calls(l) PROVE ForceInv'
  <2>1. PICK target, rules : Call(l, target, rules)
    BY <1>2 DEF Calls, LoadRules, LoadRulesOfResource, AddRules
  <2>2. /\ pc[l] \notin Holding /\ Goto(l, "waiting")
        /\ want' = [want EXCEPT ![l] = [target |-> target, rules |-> rules]]
        /\ UNCHANGED <<kind, mux, loadVars, currentRules, inForce, reported>>
    BY <2>1 DEF Call, Holding
  <2> QED BY <2>2, ForceOutside
<1>3. ASSUME Ignore(l) PROVE ForceInv'
  <2>1. /\ pc[l] \notin Holding /\ Goto(l, "idle") /\ want' = [want EXCEPT ![l] = NoLoad]
        /\ UNCHANGED <<kind, mux, loadVars, currentRules, inForce, reported>>
    BY <1>3 DEF Ignore, Acquire, Return, Holding
  <2> QED BY <2>1, ForceOutside
<1>4. ASSUME ClearRules(l) PROVE ForceInv'
  <2>1. /\ mux = Nobody /\ mux' = l /\ Goto(l, "clear") /\ want[l].target # All
        /\ currentRules' = [currentRules EXCEPT ![want[l].target] = <<>>]
        /\ UNCHANGED <<kind, want, inForce, reported>>
    BY <1>4 DEF ClearRules, Acquire, Clears
  <2>2. want[l].target \in Resources /\ DOMAIN currentRules = Resources
    BY <2>1 DEF RulesOK
  <2>3. /\ currentRules'[want[l].target] = <<>>
        /\ \A res \in Resources : res # want[l].target => currentRules'[res] = currentRules[res]
    BY <2>1, <2>2
  <2>4. \A res \in Resources : res # want'[l].target => Fulfilled(res)'
    BY <2>1, <2>3, FulfilledStays DEF ForceInv
  <2> QED BY <2>1, <2>2, <2>3, <2>4, ForceInside
<1>5. ASSUME ClearControllers(l) PROVE ForceInv'
  <2> DEFINE target == want[l].target
  <2>1. /\ mux = l /\ Release(l) /\ UNCHANGED <<kind, currentRules>>
        /\ inForce' = [inForce EXCEPT ![target] = <<>>]
        /\ reported' = [reported EXCEPT ![target] = <<>>]
        /\ target \in Resources /\ currentRules[target] = <<>>
        /\ \A res \in Resources : res # target => Fulfilled(res)
        /\ DOMAIN inForce = Resources /\ DOMAIN reported = Resources
    BY <1>1, <1>5 DEF ClearControllers, Holding, ForceInv, IInv, ControllersOK, RulesOK
  <2> HIDE DEF target
  <2>2. ASSUME NEW res \in Resources PROVE Fulfilled(res)'
    <3>1. CASE res = target
      <4>1. currentRules'[res] = <<>> /\ inForce'[res] = <<>> /\ reported'[res] = <<>>
        BY <2>1, <3>1
      <4> QED BY <4>1, FulfilsNothing DEF Fulfilled
    <3>2. CASE res # target
      <4>1. inForce'[res] = inForce[res] /\ reported'[res] = reported[res]
        BY <2>1, <3>2
      <4> QED BY <2>1, <3>2, <4>1, FulfilledStays
    <3> QED BY <3>1, <3>2
  <2> QED BY <2>1, <2>2, ForceReleased
<1>6. ASSUME Build(l) PROVE ForceInv'
  <2>1. CASE \E res \in Resources : Panics(l, res)
    <3>1. /\ pc[l] = "build" /\ mux = l /\ Release(l)
          /\ UNCHANGED <<kind, currentRules, inForce, reported>>
      BY <1>1, <2>1 DEF Panics, NextRule, Holding
    <3>2. \A res \in Resources : Fulfilled(res)'
      BY <3>1, FulfilledStays DEF ForceInv
    <3> QED BY <3>1, <3>2, ForceReleased
  <2>2. CASE ~ \E res \in Resources : Panics(l, res)
    <3>1. PICK res \in Resources, r \in Rules :
            \/ BuildIsolation(l, res, r) \/ BuildNothing(l, res, r)
            \/ BuildEqual(l, res, r) \/ BuildReusing(l, res, r) \/ BuildNew(l, res, r)
      BY <1>6, <2>2 DEF Build
    <3> QED BY <3>1, BuildForce
  <2> QED BY <2>1, <2>2
<1>7. ASSUME Record(l) PROVE ForceInv'
  <2>1. /\ pc[l] = "record" /\ mux = l /\ Release(l) /\ UNCHANGED <<kind, inForce, reported>>
        /\ currentRules' = [res \in Resources |-> Noted(l, res)]
    BY <1>1, <1>7 DEF Record, Holding, Noted
  <2>2. ASSUME NEW res \in Resources PROVE Fulfilled(res)'
    <3>1. Fulfils(kind, res, Noted(l, res), inForce[res], reported[res])
      BY <2>1 DEF ForceInv
    <3>2. currentRules'[res] = Noted(l, res)
      BY <2>1
    <3> QED BY <2>1, <3>1, <3>2 DEF Fulfilled
  <2> QED BY <2>1, <2>2, ForceReleased
<1> QED BY <1>2, <1>3, <1>4, <1>5, <1>6, <1>7, StartForce, SwapForce DEF Enter, GoOn

(* Nothing changes.                                                        *)
LEMMA StutterForce ==
  ASSUME RulesOK, ForceInv, UNCHANGED vars
  PROVE  RulesOK' /\ ForceInv'
BY DEF vars, loadVars, RulesOK, ForceInv, Fulfilled, Counted, Noted, Targets, RulesToBuild

(* It holds throughout, with the invariants it rests on.                   *)
LEMMA ForceAlways == Spec => []IInv /\ []RulesOK /\ []ForceInv
<1>1. IInv /\ RulesOK /\ [Next]_vars => RulesOK'
  BY NextRulesOK, StutterForce DEF Next, vars, loadVars, RulesOK
<1>2. IInv /\ RulesOK /\ ForceInv /\ [Next]_vars => ForceInv'
  BY NextForce, StutterForce DEF Next
<1> QED BY <1>1, <1>2, InitRulesOK, InitForce, IInvAlways, PTL DEF Spec

(* The types of all the state, of rules and of controllers.                *)
THEOREM TypeCorrect == Spec => []TypeOK
<1>1. IInv /\ RulesOK => TypeOK
  BY DEF IInv, RulesOK, TypeOK
<1> QED BY <1>1, ForceAlways, PTL

(* When no load is under way what is in force is what was loaded last:     *)
(* for each rule that can be enforced one controller, rules that differ in *)
(* what no manager compares counted together, and none for any other; and  *)
(* circuitbreaker reports the valid ones of the list.  Whatever was loaded *)
(* before, in what order, by how many at once, and whether or not a load   *)
(* on the way panicked.                                                    *)
THEOREM RulesAlwaysInForce == Spec => []RulesInForce
<1>1. ASSUME IInv, RulesOK, ForceInv PROVE RulesInForce
  <2> SUFFICES ASSUME mux = Nobody, NEW res \in Resources
               PROVE  LET rules == currentRules[res]
                          Like(r) == {i \in DOMAIN rules : Enforceable(res, rules[i]) /\ SameButOther(rules[i], r)}
                          Valid(r) == {i \in Like(r) : IsValidRule(rules[i])}
                          Bound(r) == {i \in DOMAIN inForce[res] : SameButOther(inForce[res][i].rule, r)}
                      IN  /\ \A r \in Rules :
                               /\ Cardinality(Valid(r)) <= Cardinality(Bound(r))
                               /\ Cardinality(Bound(r)) <= Cardinality(Like(r))
                               /\ kind # "breaker" => Cardinality(Bound(r)) = Cardinality(Valid(r))
                          /\ kind = "breaker" /\ inForce[res] # <<>> => reported[res] = ValidRules(rules)
    BY DEF RulesInForce
  <2> DEFINE rules == currentRules[res]
             cs == inForce[res]
             rep == reported[res]
             Like(r) == {i \in DOMAIN rules : Enforceable(res, rules[i]) /\ SameButOther(rules[i], r)}
             Valid(r) == {i \in Like(r) : IsValidRule(rules[i])}
             Bound(r) == {i \in DOMAIN cs : SameButOther(cs[i].rule, r)}
  <2>1. Fulfils(kind, res, rules, cs, rep)
    BY <1>1 DEF ForceInv, Fulfilled
  <2>2. /\ rules \in Seq(Rules \cup {Nil}) /\ cs \in Seq(Controllers)
        /\ \A i \in DOMAIN rules : rules[i] \in Rules \cup {Nil}
        /\ \A i \in DOMAIN cs : cs[i] \in Controllers
    BY <1>1 DEF RulesOK, RuleLists, IInv, ControllersOK
  <2> HIDE DEF rules, cs, rep
  <2>3. \A i \in DOMAIN rules : Enforceable(res, rules[i]) <=> rules[i] \in Rules /\ CanEnforce(kind, res, rules[i])
    BY <2>2, RulesAssumption DEF Enforceable, CanEnforce
  <2>4. \A q, r : SameButOther(q, r) <=> isEqualsTo(q, r)
    BY DEF SameButOther, isEqualsTo
  <2>5. ASSUME NEW r \in Rules
        PROVE  /\ Like(r) = Places(rules, Wanted(kind, res, r))
               /\ Valid(r) = Places(rules, Wanted(kind, res, r) \cap Valids)
               /\ Bound(r) = Places(cs, Alike(r))
    BY <2>2, <2>3, <2>4 DEF Places, Wanted, Valids, Alike
  <2>6. ASSUME NEW r \in Rules
        PROVE  /\ Cardinality(Valid(r)) <= Cardinality(Bound(r))
               /\ Cardinality(Bound(r)) <= Cardinality(Like(r))
               /\ kind # "breaker" => Cardinality(Bound(r)) = Cardinality(Valid(r))
    <3> HIDE DEF Like, Valid, Bound
    <3> QED BY <2>1, <2>5 DEF Fulfils, Count
  <2>7. kind = "breaker" /\ cs # <<>> => rep = ValidRules(rules)
    BY <2>1 DEF Fulfils
  <2> QED BY <2>6, <2>7 DEF rules, cs, rep
<1> QED BY <1>1, ForceAlways, PTL
=============================================================================

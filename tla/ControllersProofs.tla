------------------------- MODULE ControllersProofs -------------------------
(***************************************************************************)
(* Proofs about the throttling checker, about the hot spot rules, on       *)
(* concurrency and on the rate, and about the sliding window of            *)
(* statistics, for any requests and goroutines, any thresholds and         *)
(* lengths, and any interleaving of their atomic steps.                    *)
(***************************************************************************)
EXTENDS Controllers, FiniteSetTheorems, WellFoundedInduction, TLAPS

(* The wait of a batch is a positive number of units of the clock.         *)
LEMMA IntervalType ==
  \A i \in Intervals : i \in Nat /\ i >= 1
<1>1. SUFFICES ASSUME NEW b \in Batches
               PROVE  IntervalOf(b) \in Nat /\ IntervalOf(b) >= 1
  BY DEF Intervals
<1>2. b \in Nat /\ b >= 1
  BY BatchesAssumption, ThresholdAssumption
<1>3. b * StatInterval \in Nat /\ b * StatInterval >= 1
  <2>1. StatInterval \in Nat /\ StatInterval >= 1
    BY ThresholdAssumption
  <2> QED BY <1>2, <2>1
<1>4. ASSUME NEW x \in Nat, x >= 1, NEW t \in Nat, t >= 1
      PROVE  (x + t - 1) \div t \in Nat /\ (x + t - 1) \div t >= 1
  BY <1>4
<1> QED BY <1>3, <1>4, ThresholdAssumption DEF IntervalOf

-----------------------------------------------------------------------------
(* Types. *)

(* A request that has begun has an interval.                               *)
BegunHaveInterval == \A r \in Requests : pc[r] # "out" => intervalNs[r] \in Intervals

TypeInv == TypeOK /\ BegunHaveInterval

(* The members of a sequence of records.                                   *)
LEMMA PassesType ==
  ASSUME TypeInv, NEW i \in 1..Len(passes)
  PROVE  passes[i].at \in Nat
<1> DEFINE R == [at : Nat, interval : Intervals]
<1>1. passes \in Seq(R)
  BY DEF TypeInv, TypeOK
<1>2. \A p \in R : p.at \in Nat
  OBVIOUS
<1> HIDE DEF R
<1>3. passes[i] \in R
  BY <1>1
<1> QED BY <1>2, <1>3

(* The types hold at the start ...                                         *)
LEMMA InitTypes == Init => TypeInv
<1> SUFFICES ASSUME Init
             PROVE  TypeInv
  OBVIOUS
<1>1. passes \in Seq([at : Nat, interval : Intervals]) /\ Len(passes) = 0
  BY DEF Init
<1>2. \A i \in 1..Len(passes) : passes[i].at >= Start
  BY <1>1
<1>3. now \in Nat /\ now >= Start /\ lastPassedTime \in Int
  <2>1. now = Start /\ lastPassedTime = 0
    BY DEF Init
  <2> QED BY <2>1, TimesAssumption
<1>4. /\ pc \in [Requests -> {"out", "load", "cas", "estimate", "add", "subtract"}]
      /\ intervalNs \in [Requests -> Intervals \cup {0}]
      /\ loaded \in [Requests -> Int]
      /\ BegunHaveInterval
  BY DEF Init, BegunHaveInterval
<1>5. /\ curNano \in [Requests -> Nat]
      /\ \A r \in Requests : Start <= curNano[r] /\ curNano[r] <= now
  BY TimesAssumption DEF Init
<1>6. slipped \in BOOLEAN
  BY DEF Init
<1> QED BY <1>1, <1>2, <1>3, <1>4, <1>5, <1>6 DEF TypeInv, TypeOK

(* Appending a pass of a request that has begun.                           *)
LEMMA PassType ==
  ASSUME TypeInv, NEW r \in Requests, pc[r] # "out", NEW t \in Nat, t >= Start, Pass(r, t)
  PROVE  /\ passes' \in Seq([at : Nat, interval : Intervals])
         /\ \A i \in 1..Len(passes') : passes'[i].at >= Start
         /\ Len(passes') = Len(passes) + 1
         /\ \A i \in 1..Len(passes) : passes'[i] = passes[i]
         /\ passes'[Len(passes')] = [at |-> t, interval |-> intervalNs[r]]
<1> DEFINE p == [at |-> t, interval |-> intervalNs[r]]
<1>1. p \in [at : Nat, interval : Intervals]
  BY DEF TypeInv, BegunHaveInterval
<1>2. passes \in Seq([at : Nat, interval : Intervals]) /\ passes' = Append(passes, p)
  BY DEF TypeInv, TypeOK, Pass
<1>3. \A i \in 1..Len(passes) : passes[i].at >= Start
  BY DEF TypeInv, TypeOK
<1>4. p.at >= Start
  OBVIOUS
<1> HIDE DEF p
<1>5. /\ passes' \in Seq([at : Nat, interval : Intervals])
      /\ Len(passes') = Len(passes) + 1
      /\ \A i \in 1..Len(passes) : passes'[i] = passes[i]
      /\ passes'[Len(passes')] = p
  BY <1>1, <1>2
<1>6. \A i \in 1..Len(passes') : passes'[i].at >= Start
  BY <1>2, <1>3, <1>4, <1>5
<1> QED BY <1>5, <1>6 DEF p

(* ... and every step keeps them.                                          *)
LEMMA NextTypes == TypeInv /\ [Next]_vars => TypeInv'
<1> SUFFICES ASSUME TypeInv, [Next]_vars
             PROVE  TypeInv'
  OBVIOUS
<1> USE DEF TypeInv, TypeOK, BegunHaveInterval
<1>1. CASE Tick
  BY <1>1, TimesAssumption DEF Tick, locals
<1>2. ASSUME NEW r \in Requests, Begin(r)
      PROVE  TypeInv'
  <2>1. PICK b \in Batches : intervalNs' = [intervalNs EXCEPT ![r] = IntervalOf(b)]
    BY <1>2 DEF Begin
  <2>2. IntervalOf(b) \in Intervals
    BY DEF Intervals
  <2> QED BY <1>2, <2>1, <2>2 DEF Begin, Goto
<1>3. ASSUME NEW r \in Requests, Load(r)
      PROVE  TypeInv'
  <2>1. pc' \in [Requests -> {"out", "load", "cas", "estimate", "add", "subtract"}]
    BY <1>3 DEF Load, Goto
  <2>2. BegunHaveInterval'
    BY <1>3 DEF Load, Goto
  <2>3. loaded' \in [Requests -> Int]
    BY <1>3 DEF Load
  <2> QED BY <1>3, <2>1, <2>2, <2>3 DEF Load
<1>4. ASSUME NEW r \in Requests, CompareAndSwap(r)
      PROVE  TypeInv'
  <2>1. CASE lastPassedTime = loaded[r]
    <3>1. lastPassedTime' = curNano[r] /\ Pass(r, curNano[r])
      BY <1>4, <2>1 DEF CompareAndSwap
    <3>2. /\ passes' \in Seq([at : Nat, interval : Intervals])
          /\ \A i \in 1..Len(passes') : passes'[i].at >= Start
      <4>1. pc[r] # "out" /\ curNano[r] \in Nat /\ curNano[r] >= Start
        BY <1>4, TimesAssumption DEF CompareAndSwap
      <4> QED BY <3>1, <4>1, PassType
    <3> QED BY <1>4, <3>1, <3>2 DEF CompareAndSwap, Pass, Goto
  <2>2. CASE lastPassedTime # loaded[r]
    BY <1>4, <2>2 DEF CompareAndSwap, Goto
  <2> QED BY <2>1, <2>2
<1>5. ASSUME NEW r \in Requests, Estimate(r)
      PROVE  TypeInv'
  <2>1. pc' \in [Requests -> {"out", "load", "cas", "estimate", "add", "subtract"}]
    BY <1>5 DEF Estimate, Goto
  <2>2. BegunHaveInterval'
    BY <1>5 DEF Estimate, Goto
  <2> QED BY <1>5, <2>1, <2>2 DEF Estimate
<1>6. ASSUME NEW r \in Requests, Add(r)
      PROVE  TypeInv'
  <2>1. intervalNs[r] \in Nat /\ lastPassedTime' \in Int
    BY <1>6, IntervalType DEF Add
  <2>2. slipped' \in BOOLEAN
    BY <1>6 DEF Add
  <2>3. CASE lastPassedTime' - curNano[r] > MaxQueueingTime
    BY <1>6, <2>1, <2>2, <2>3 DEF Add, Goto
  <2>4. CASE ~(lastPassedTime' - curNano[r] > MaxQueueingTime)
    <3> DEFINE t == IF lastPassedTime' > curNano[r] THEN lastPassedTime' ELSE curNano[r]
    <3>1. Pass(r, t)
      BY <1>6, <2>4 DEF Add
    <3>2. t \in Nat /\ t >= Start /\ pc[r] # "out"
      BY <1>6, <2>1, TimesAssumption DEF Add
    <3> HIDE DEF t
    <3>3. /\ passes' \in Seq([at : Nat, interval : Intervals])
          /\ \A i \in 1..Len(passes') : passes'[i].at >= Start
      BY <3>1, <3>2, PassType
    <3> QED BY <1>6, <2>1, <2>2, <3>1, <3>3 DEF Add, Pass, Goto
  <2> QED BY <2>3, <2>4
<1>7. ASSUME NEW r \in Requests, Subtract(r)
      PROVE  TypeInv'
  <2>1. intervalNs[r] \in Nat
    BY <1>7, IntervalType DEF Subtract
  <2> QED BY <1>7, <2>1 DEF Subtract, Goto
<1>8. CASE UNCHANGED vars
  BY <1>8 DEF vars, locals
<1> QED BY <1>1, <1>2, <1>3, <1>4, <1>5, <1>6, <1>7, <1>8 DEF Next, DoCheck

(* Types hold in every state of the checker, and nobody passes before it   *)
(* was made.                                                               *)
THEOREM TypeCorrect == Spec => []TypeOK
<1>1. Spec => []TypeInv
  BY InitTypes, NextTypes, PTL DEF Spec
<1> QED BY <1>1, PTL DEF TypeInv

-----------------------------------------------------------------------------
(* Spacing. *)

(* Why requests are spaced: until an interval is taken back, or added when *)
(* it is over already, no request passes later than lastPassedTime, and a  *)
(* request that may swap it needs no more time than it has.                *)
LastIsLast ==
  /\ \A i \in 1..Len(passes) : passes[i].at <= lastPassedTime
  /\ \A r \in Requests : pc[r] = "cas" => loaded[r] + intervalNs[r] <= curNano[r]

SpacingInv == slipped \/ (LastIsLast /\ Spaced)

(* Nobody has passed at the start ...                                      *)
LEMMA InitSpacing == Init => SpacingInv
BY DEF Init, SpacingInv, LastIsLast, Spaced

(* A request that passes at the new lastPassedTime, an interval after the  *)
(* old one, is spaced from all that passed before.                         *)
LEMMA PassSpaced ==
  ASSUME TypeInv, LastIsLast, Spaced,
         NEW r \in Requests, pc[r] # "out",
         NEW t \in Nat, t >= Start, Pass(r, t),
         lastPassedTime' = t, lastPassedTime + intervalNs[r] <= t
  PROVE  /\ \A i \in 1..Len(passes') : passes'[i].at <= lastPassedTime'
         /\ Spaced'
<1> DEFINE n == Len(passes)
<1>1. n \in Nat /\ lastPassedTime \in Int /\ intervalNs[r] \in Nat
  BY IntervalType DEF TypeInv, TypeOK, BegunHaveInterval
<1>2. /\ Len(passes') = n + 1
      /\ \A i \in 1..n : passes'[i] = passes[i]
      /\ passes'[n + 1] = [at |-> t, interval |-> intervalNs[r]]
  BY PassType
<1>3. \A i \in 1..n : passes[i].at \in Nat /\ passes[i].at <= lastPassedTime
  BY PassesType DEF LastIsLast
<1>4. ASSUME NEW i \in 1..n
      PROVE  passes'[i].at <= t /\ passes'[i].at + intervalNs[r] <= t
  BY <1>1, <1>2, <1>3
<1>5. \A i \in 1..Len(passes') : passes'[i].at <= lastPassedTime'
  BY <1>1, <1>2, <1>4
<1>6. ASSUME NEW i \in 1..(n + 1), NEW j \in 1..(n + 1), i < j
      PROVE  passes'[j].at >= passes'[i].at + passes'[j].interval
  <2>1. CASE j \in 1..n
    <3>1. i \in 1..n /\ passes'[i] = passes[i] /\ passes'[j] = passes[j]
      BY <1>1, <1>2, <1>6, <2>1
    <3> QED BY <1>6, <2>1, <3>1 DEF Spaced
  <2>2. CASE j = n + 1
    <3>1. i \in 1..n
      BY <1>1, <1>6, <2>2
    <3>2. passes'[j].at = t /\ passes'[j].interval = intervalNs[r]
      BY <1>2, <2>2
    <3>3. passes'[i].at \in Nat
      BY <1>2, <1>3, <3>1
    <3> QED BY <1>1, <1>4, <3>1, <3>2, <3>3
  <2> QED BY <1>1, <2>1, <2>2
<1>7. Spaced'
  BY <1>2, <1>6 DEF Spaced
<1> QED BY <1>5, <1>7

(* ... and every step keeps requests apart, or is a slip.                  *)
LEMMA NextSpacing == TypeInv /\ SpacingInv /\ [Next]_vars => SpacingInv'
<1> SUFFICES ASSUME TypeInv, SpacingInv, [Next]_vars, ~slipped'
             PROVE  LastIsLast' /\ Spaced'
  BY DEF SpacingInv
<1>1. ~slipped /\ LastIsLast /\ Spaced
  <2>1. ~slipped
    BY DEF TypeInv, TypeOK, Next, DoCheck, Tick, Begin, Load, CompareAndSwap, Estimate,
           Add, Subtract, vars
  <2> QED BY <2>1 DEF SpacingInv
<1>t. /\ lastPassedTime \in Int
      /\ Len(passes) \in Nat
      /\ \A r \in Requests : curNano[r] \in Nat /\ curNano[r] >= Start /\ loaded[r] \in Int
      /\ pc \in [Requests -> {"out", "load", "cas", "estimate", "add", "subtract"}]
  BY TimesAssumption DEF TypeInv, TypeOK
<1>i. \A r \in Requests : pc[r] # "out" => intervalNs[r] \in Nat
  BY IntervalType DEF TypeInv, BegunHaveInterval
<1>p. \A i \in 1..Len(passes) : passes[i].at \in Nat
  BY PassesType
<1>2. CASE Tick
  BY <1>1, <1>2 DEF Tick, locals, LastIsLast, Spaced
<1>3. ASSUME NEW r \in Requests, Begin(r)
      PROVE  LastIsLast' /\ Spaced'
  <2>1. Spaced' /\ \A i \in 1..Len(passes') : passes'[i].at <= lastPassedTime'
    BY <1>1, <1>3 DEF Begin, LastIsLast, Spaced
  <2>2. ASSUME NEW x \in Requests, pc'[x] = "cas"
        PROVE  loaded'[x] + intervalNs'[x] <= curNano'[x]
    <3>1. x # r /\ pc[x] = "cas"
      BY <1>3, <1>t, <2>2 DEF Begin, Goto
    <3>2. loaded'[x] = loaded[x] /\ intervalNs'[x] = intervalNs[x] /\ curNano'[x] = curNano[x]
      BY <1>3, <3>1 DEF Begin, TypeInv, TypeOK
    <3> QED BY <1>1, <3>1, <3>2 DEF LastIsLast
  <2> QED BY <2>1, <2>2 DEF LastIsLast
<1>4. ASSUME NEW r \in Requests, Load(r)
      PROVE  LastIsLast' /\ Spaced'
  <2>1. Spaced' /\ \A i \in 1..Len(passes') : passes'[i].at <= lastPassedTime'
    BY <1>1, <1>4 DEF Load, LastIsLast, Spaced
  <2>2. ASSUME NEW x \in Requests, pc'[x] = "cas"
        PROVE  loaded'[x] + intervalNs'[x] <= curNano'[x]
    <3>1. intervalNs'[x] = intervalNs[x] /\ curNano'[x] = curNano[x]
      BY <1>4 DEF Load
    <3>2. CASE x = r
      <4>1. loaded'[r] = lastPassedTime
        BY <1>4 DEF Load, TypeInv, TypeOK
      <4>2. lastPassedTime + intervalNs[r] <= curNano[r]
        BY <1>4, <1>t, <2>2, <3>2 DEF Load, Goto
      <4> QED BY <3>1, <3>2, <4>1, <4>2
    <3>3. CASE x # r
      <4>1. loaded'[x] = loaded[x] /\ pc[x] = "cas"
        BY <1>4, <1>t, <2>2, <3>3 DEF Load, Goto, TypeInv, TypeOK
      <4> QED BY <1>1, <3>1, <4>1 DEF LastIsLast
    <3> QED BY <3>2, <3>3
  <2> QED BY <2>1, <2>2 DEF LastIsLast
(* The remaining steps take nobody to the compare-and-swap.                *)
<1>5. ASSUME NEW r \in Requests,
             \/ CompareAndSwap(r) \/ Estimate(r) \/ Add(r)
      PROVE  \A x \in Requests : pc'[x] = "cas" => loaded'[x] + intervalNs'[x] <= curNano'[x]
  <2> SUFFICES ASSUME NEW x \in Requests, pc'[x] = "cas"
               PROVE  loaded'[x] + intervalNs'[x] <= curNano'[x]
    OBVIOUS
  <2>1. UNCHANGED <<curNano, intervalNs, loaded>>
    BY <1>5 DEF CompareAndSwap, Estimate, Add
  <2>2. pc[x] = "cas"
    BY <1>5, <1>t DEF CompareAndSwap, Estimate, Add, Pass, Goto
  <2> QED BY <1>1, <2>1, <2>2 DEF LastIsLast
<1>6. ASSUME NEW r \in Requests, CompareAndSwap(r)
      PROVE  LastIsLast' /\ Spaced'
  <2>1. CASE lastPassedTime = loaded[r]
    <3>1. /\ pc[r] = "cas" /\ pc[r] # "out"
          /\ lastPassedTime' = curNano[r] /\ Pass(r, curNano[r])
      BY <1>6, <2>1 DEF CompareAndSwap
    <3>2. lastPassedTime + intervalNs[r] <= curNano[r]
      BY <1>1, <2>1, <3>1 DEF LastIsLast
    <3> QED BY <1>1, <1>5, <1>6, <1>t, <3>1, <3>2, PassSpaced DEF LastIsLast
  <2>2. CASE lastPassedTime # loaded[r]
    <3>1. UNCHANGED <<lastPassedTime, passes>>
      BY <1>6, <2>2 DEF CompareAndSwap
    <3> QED BY <1>1, <1>5, <1>6, <3>1 DEF LastIsLast, Spaced
  <2> QED BY <2>1, <2>2
<1>7. ASSUME NEW r \in Requests, Estimate(r)
      PROVE  LastIsLast' /\ Spaced'
  <2>1. UNCHANGED <<lastPassedTime, passes>>
    BY <1>7 DEF Estimate
  <2> QED BY <1>1, <1>5, <1>7, <2>1 DEF LastIsLast, Spaced
<1>8. ASSUME NEW r \in Requests, Add(r)
      PROVE  LastIsLast' /\ Spaced'
  <2>1. pc[r] # "out" /\ intervalNs[r] \in Nat
    BY <1>8, <1>i DEF Add
  <2>2. lastPassedTime' = lastPassedTime + intervalNs[r]
    BY <1>8 DEF Add
  <2>3. CASE lastPassedTime' - curNano[r] > MaxQueueingTime
    <3>1. UNCHANGED passes
      BY <1>8, <2>3 DEF Add
    <3>2. \A i \in 1..Len(passes) : passes[i].at <= lastPassedTime'
      BY <1>1, <1>p, <1>t, <2>1, <2>2 DEF LastIsLast
    <3> QED BY <1>1, <1>5, <1>8, <3>1, <3>2 DEF LastIsLast, Spaced
  <2>4. CASE ~(lastPassedTime' - curNano[r] > MaxQueueingTime)
    <3>1. ~(lastPassedTime' < curNano[r])
      BY <1>8 DEF Add
    <3>2. lastPassedTime' \in Nat /\ lastPassedTime' >= Start
      BY <1>t, <2>1, <2>2, <3>1, TimesAssumption
    <3>3. (IF lastPassedTime' > curNano[r] THEN lastPassedTime' ELSE curNano[r]) = lastPassedTime'
      BY <1>t, <3>1, <3>2
    <3>4. Pass(r, lastPassedTime')
      BY <1>8, <2>4, <3>3 DEF Add
    <3>5. lastPassedTime + intervalNs[r] <= lastPassedTime'
      BY <1>t, <2>1, <2>2
    <3>6. /\ \A i \in 1..Len(passes') : passes'[i].at <= lastPassedTime'
          /\ Spaced'
      BY <1>1, <2>1, <3>2, <3>4, <3>5, PassSpaced
    <3> QED BY <1>5, <1>8, <3>6 DEF LastIsLast
  <2> QED BY <2>3, <2>4
<1>9. ASSUME NEW r \in Requests, Subtract(r)
      PROVE  LastIsLast' /\ Spaced'
  BY <1>9 DEF Subtract
<1>10. CASE UNCHANGED vars
  BY <1>1, <1>10 DEF vars, locals, LastIsLast, Spaced
<1> QED BY <1>2, <1>3, <1>4, <1>6, <1>7, <1>8, <1>9, <1>10 DEF Next, DoCheck

(* Until an interval is taken back or added when it is over, any number of *)
(* requests in any interleaving pass at least an interval apart.           *)
THEOREM SpacedUntilSlip == Spec => []SpacedUnlessSlip
<1>1. Spec => []TypeInv
  BY InitTypes, NextTypes, PTL DEF Spec
<1>2. Spec => []SpacingInv
  BY InitSpacing, NextSpacing, <1>1, PTL DEF Spec
<1>3. SpacingInv => SpacedUnlessSlip
  BY DEF SpacingInv, SpacedUnlessSlip
<1> QED BY <1>2, <1>3, PTL
-----------------------------------------------------------------------------
(* The hot spot rules (module HotSpot), for any requests, arguments,       *)
(* thresholds and capacity.                                                *)
(* A cache has room for one counter (NewLRU), there is always another      *)
(* counter to allocate, and 0 is none.                                     *)
HotBounds ==
  /\ Capacity \in Nat \ {0} /\ 0 \notin Cells /\ ~IsFiniteSet(Cells) /\ IsFiniteSet(HotRequests)
  /\ Thresholds \in [Args -> Int]

Elements(s) == {s[i] : i \in 1..Len(s)}
Pair == [arg : Args, cell : Cells]

(* The elements of one sequence after another, and of a part of one.       *)
LEMMA ElementsConcat ==
  ASSUME NEW S, NEW s \in Seq(S), NEW t \in Seq(S)
  PROVE  /\ s \o t \in Seq(S) /\ Len(s \o t) = Len(s) + Len(t)
         /\ \A i \in 1..Len(s) : (s \o t)[i] = s[i]
         /\ Elements(s \o t) = Elements(s) \union Elements(t)
<1>1. /\ s \o t \in Seq(S) /\ Len(s \o t) = Len(s) + Len(t) /\ Len(s) \in Nat /\ Len(t) \in Nat
      /\ \A i \in 1..Len(s) : (s \o t)[i] = s[i]
      /\ \A i \in (Len(s) + 1)..(Len(s) + Len(t)) : (s \o t)[i] = t[i - Len(s)]
  OBVIOUS
<1>2. Elements(s \o t) \subseteq Elements(s) \union Elements(t)
  <2> SUFFICES ASSUME NEW i \in 1..(Len(s) + Len(t))
               PROVE  (s \o t)[i] \in Elements(s) \union Elements(t)
    BY <1>1 DEF Elements
  <2>1. CASE i <= Len(s)
    BY <1>1, <2>1 DEF Elements
  <2>2. CASE i > Len(s)
    <3>1. i - Len(s) \in 1..Len(t) /\ (s \o t)[i] = t[i - Len(s)]
      BY <1>1, <2>2
    <3> QED BY <3>1 DEF Elements
  <2> QED BY <1>1, <2>1, <2>2
<1>3. Elements(s) \subseteq Elements(s \o t)
  BY <1>1 DEF Elements
<1>4. Elements(t) \subseteq Elements(s \o t)
  <2> SUFFICES ASSUME NEW j \in 1..Len(t) PROVE t[j] \in Elements(s \o t)
    BY DEF Elements
  <2>1. /\ j + Len(s) \in 1..Len(s \o t) /\ j + Len(s) \in (Len(s) + 1)..(Len(s) + Len(t))
        /\ j + Len(s) - Len(s) = j
    BY <1>1
  <2>2. (s \o t)[j + Len(s)] = t[j]
    BY <1>1, <2>1
  <2> QED BY <2>1, <2>2 DEF Elements
<1> QED BY <1>1, <1>2, <1>3, <1>4

(* What a part of a sequence has.                                          *)
LEMMA ElementsSub ==
  ASSUME NEW S, NEW s \in Seq(S), NEW m \in Nat \ {0}, NEW n \in Nat, n <= Len(s)
  PROVE  /\ SubSeq(s, m, n) \in Seq(S)
         /\ Elements(SubSeq(s, m, n)) = {s[i] : i \in m..n}
<1>1. CASE m > n
  <2>1. SubSeq(s, m, n) = <<>> /\ m..n = {}
    BY <1>1
  <2> QED BY <2>1 DEF Elements
<1>2. CASE m <= n
  <2>1. /\ SubSeq(s, m, n) \in Seq(S) /\ Len(SubSeq(s, m, n)) = n - m + 1 /\ Len(s) \in Nat
        /\ \A i \in 1..(n - m + 1) : SubSeq(s, m, n)[i] = s[m + i - 1]
    BY <1>2
  <2>2. Elements(SubSeq(s, m, n)) \subseteq {s[i] : i \in m..n}
    <3>1. ASSUME NEW i \in 1..(n - m + 1) PROVE SubSeq(s, m, n)[i] \in {s[j] : j \in m..n}
      <4>1. m + i - 1 \in m..n
        OBVIOUS
      <4> QED BY <2>1, <4>1
    <3>2. Len(SubSeq(s, m, n)) = n - m + 1
      BY <2>1
    <3> QED BY <3>1, <3>2 DEF Elements
  <2>3. ASSUME NEW i \in m..n PROVE s[i] \in Elements(SubSeq(s, m, n))
    <3>1. i - m + 1 \in 1..(n - m + 1) /\ m + (i - m + 1) - 1 = i
      BY <1>2
    <3>2. SubSeq(s, m, n)[i - m + 1] = s[i]
      BY <2>1, <3>1
    <3> QED BY <2>1, <3>1, <3>2 DEF Elements
  <2> QED BY <2>1, <2>2, <2>3
<1> QED BY <1>1, <1>2

(* What a cache holds for an argument is the pair that Place finds.        *)
LEMMA EntryFacts ==
  ASSUME NEW lru \in Seq(Pair)
  PROVE  /\ HotSpot!ArgsOf(lru) = {e.arg : e \in Elements(lru)}
         /\ HotSpot!CellsOf(lru) = {e.cell : e \in Elements(lru)}
         /\ \A a \in HotSpot!ArgsOf(lru) : /\ HotSpot!EntryOf(lru, a) \in Elements(lru)
                                       /\ HotSpot!EntryOf(lru, a).arg = a
<1>1. DOMAIN lru = 1..Len(lru)
  OBVIOUS
<1>2. ASSUME NEW a \in HotSpot!ArgsOf(lru)
      PROVE  HotSpot!EntryOf(lru, a) \in Elements(lru) /\ HotSpot!EntryOf(lru, a).arg = a
  BY <1>1, <1>2 DEF HotSpot!ArgsOf, HotSpot!EntryOf, HotSpot!Place, Elements
<1> QED BY <1>1, <1>2 DEF HotSpot!ArgsOf, HotSpot!CellsOf, Elements

(* To the front, and nothing is lost or added.                             *)
LEMMA FrontKeeps ==
  ASSUME NEW lru \in Seq(Pair), NEW a \in HotSpot!ArgsOf(lru)
  PROVE  /\ HotSpot!MoveToFront(lru, a) \in Seq(Pair)
         /\ Elements(HotSpot!MoveToFront(lru, a)) = Elements(lru)
<1> DEFINE p == HotSpot!Place(lru, a)
           n == Len(lru)
<1>1. p \in 1..n /\ n \in Nat
  BY DEF HotSpot!ArgsOf, HotSpot!Place
<1> HIDE DEF p
<1> DEFINE front == <<lru[p]>>
           before == SubSeq(lru, 1, p - 1)
           after == SubSeq(lru, p + 1, n)
           rest == before \o after
<1>2. front \in Seq(Pair) /\ Elements(front) = {lru[p]}
  BY <1>1 DEF Elements
<1>3. /\ before \in Seq(Pair) /\ after \in Seq(Pair)
      /\ Elements(before) = {lru[i] : i \in 1..(p - 1)}
      /\ Elements(after) = {lru[i] : i \in (p + 1)..n}
  <2>1. p - 1 \in Nat /\ p - 1 <= Len(lru) /\ p + 1 \in Nat \ {0}
    BY <1>1
  <2> QED BY <1>1, <2>1, ElementsSub
<1>4. HotSpot!MoveToFront(lru, a) = front \o rest
  BY DEF HotSpot!MoveToFront, HotSpot!EntryOf, HotSpot!RemoveAt, p
<1> HIDE DEF front, before, after
<1>5. rest \in Seq(Pair) /\ Elements(rest) = Elements(before) \union Elements(after)
  BY <1>3, ElementsConcat
<1> HIDE DEF rest
<1>6. front \o rest \in Seq(Pair) /\ Elements(front \o rest) = {lru[p]} \union Elements(rest)
  BY <1>2, <1>5, ElementsConcat
<1>7. {lru[p]} \union {lru[i] : i \in 1..(p - 1)} \union {lru[i] : i \in (p + 1)..n}
        = Elements(lru)
  <2>1. 1..n = {p} \union 1..(p - 1) \union (p + 1)..n
    BY <1>1
  <2> QED BY <2>1 DEF Elements
<1> QED BY <1>3, <1>5, <1>6, <1>4, <1>7

(* The lesser of two numbers, as AddIfAbsent takes it.                     *)
LEMMA LeastOfTwo ==
  ASSUME NEW m \in Nat, NEW n \in Nat
  PROVE  HotSpot!Min({m, n}) \in {m, n} /\ HotSpot!Min({m, n}) <= m /\ HotSpot!Min({m, n}) <= n
<1>1. \E x \in {m, n} : \A y \in {m, n} : x <= y
  BY m <= n \/ n <= m
<1> QED BY <1>1 DEF HotSpot!Min

(* A new pair is put in front, and those at the end may have to go.        *)
LEMMA AddKeeps ==
  ASSUME HotBounds, NEW lru \in Seq(Pair), NEW a \in Args, a \notin HotSpot!ArgsOf(lru),
         NEW cell \in Cells
  PROVE  /\ HotSpot!AddIfAbsent(lru, a, cell) \in Seq(Pair)
         /\ [arg |-> a, cell |-> cell] \in Elements(HotSpot!AddIfAbsent(lru, a, cell))
         /\ Elements(HotSpot!AddIfAbsent(lru, a, cell)) \ {[arg |-> a, cell |-> cell]}
              \subseteq Elements(lru)
<1> DEFINE x == [arg |-> a, cell |-> cell]
           front == <<x>>
           longer == front \o lru
           n == HotSpot!Min({Capacity, Len(lru) + 1})
<1>1. HotSpot!AddIfAbsent(lru, a, cell) = SubSeq(longer, 1, n)
  BY DEF HotSpot!AddIfAbsent
<1>2. front \in Seq(Pair) /\ Elements(front) = {x} /\ Len(front) = 1 /\ front[1] = x
  BY DEF Pair, Elements
<1> HIDE DEF front
<1>3. /\ longer \in Seq(Pair) /\ Elements(longer) = {x} \union Elements(lru)
      /\ Len(longer) = Len(lru) + 1 /\ longer[1] = x /\ Len(lru) \in Nat
  <2>1. /\ longer \in Seq(Pair) /\ Len(longer) = Len(front) + Len(lru)
        /\ \A i \in 1..Len(front) : longer[i] = front[i]
        /\ Elements(longer) = Elements(front) \union Elements(lru)
    BY <1>2, ElementsConcat
  <2> HIDE DEF longer
  <2>2. Len(lru) \in Nat /\ 1 \in 1..Len(front)
    BY <1>2
  <2> QED BY <1>2, <2>1, <2>2
<1>4. n \in Nat /\ 1 <= n /\ n <= Len(lru) + 1
  <2>1. Capacity \in Nat /\ 1 <= Capacity /\ Len(lru) + 1 \in Nat
    BY <1>3 DEF HotBounds
  <2> QED BY <2>1, LeastOfTwo
<1> HIDE DEF longer, n
<1>5. /\ SubSeq(longer, 1, n) \in Seq(Pair)
      /\ Elements(SubSeq(longer, 1, n)) = {longer[i] : i \in 1..n}
  BY <1>3, <1>4, ElementsSub
<1>6. x \in {longer[i] : i \in 1..n} /\ {longer[i] : i \in 1..n} \subseteq Elements(longer)
  BY <1>3, <1>4 DEF Elements
<1> QED BY <1>3, <1>5, <1>6, <1>1

(* What finitely many have is finite.                                      *)
LEMMA FiniteImage ==
  ASSUME NEW S, IsFiniteSet(S), NEW f, f = [x \in S |-> f[x]]
  PROVE  IsFiniteSet({f[x] : x \in S})
<1> DEFINE T == {f[x] : x \in S}
<1>1. f \in Surjection(S, T)
  BY DEF Surjection
<1> QED BY <1>1, FS_Surjection

(* There is a counter that nobody points to.                               *)
LEMMA FreshIsFree ==
  ASSUME HotBounds, times \in Seq(Pair), tokens \in Seq(Pair), concurrency \in Seq(Pair)
  PROVE  /\ HotSpot!Fresh \in Cells
         /\ HotSpot!Fresh \notin HotSpot!CellsOf(times) \union HotSpot!CellsOf(tokens)
                                 \union HotSpot!CellsOf(concurrency)
         /\ \A r \in HotRequests : HotSpot!Fresh \notin {req[r].time, req[r].token}
<1> DEFINE cached == HotSpot!CellsOf(times) \union HotSpot!CellsOf(tokens)
                       \union HotSpot!CellsOf(concurrency)
           used == cached \union {req[r].time : r \in HotRequests}
                     \union {req[r].token : r \in HotRequests}
<1>1. ASSUME NEW lru \in Seq(Pair) PROVE IsFiniteSet(HotSpot!CellsOf(lru))
  <2>1. HotSpot!CellsOf(lru) = {lru[i].cell : i \in 1..Len(lru)}
    BY DEF HotSpot!CellsOf
  <2>2. IsFiniteSet(1..Len(lru))
    BY FS_Interval
  <2>3. IsFiniteSet({lru[i].cell : i \in 1..Len(lru)})
    <3> DEFINE f == [i \in 1..Len(lru) |-> lru[i].cell]
    <3>1. IsFiniteSet({f[i] : i \in 1..Len(lru)})
      BY <2>2, FiniteImage
    <3> QED BY <3>1
  <2> QED BY <2>1, <2>3
<1>2. IsFiniteSet(cached)
  BY <1>1, FS_Union
<1>3. IsFiniteSet({req[r].time : r \in HotRequests}) /\ IsFiniteSet({req[r].token : r \in HotRequests})
  <2>1. IsFiniteSet({req[r].time : r \in HotRequests})
    <3> DEFINE f == [r \in HotRequests |-> req[r].time]
    <3>1. f = [r \in HotRequests |-> f[r]] /\ {f[r] : r \in HotRequests} = {req[r].time : r \in HotRequests}
      OBVIOUS
    <3> HIDE DEF f
    <3>2. IsFiniteSet(HotRequests)
      BY DEF HotBounds
    <3>3. IsFiniteSet({f[r] : r \in HotRequests})
      <4>1. f = [r \in HotRequests |-> f[r]]
        BY <3>1
      <4> QED BY <3>2, <4>1, FiniteImage
    <3> QED BY <3>1, <3>3
  <2>2. IsFiniteSet({req[r].token : r \in HotRequests})
    <3> DEFINE f == [r \in HotRequests |-> req[r].token]
    <3>1. f = [r \in HotRequests |-> f[r]] /\ {f[r] : r \in HotRequests} = {req[r].token : r \in HotRequests}
      OBVIOUS
    <3> HIDE DEF f
    <3>2. IsFiniteSet(HotRequests)
      BY DEF HotBounds
    <3>3. IsFiniteSet({f[r] : r \in HotRequests})
      <4>1. f = [r \in HotRequests |-> f[r]]
        BY <3>1
      <4> QED BY <3>2, <4>1, FiniteImage
    <3> QED BY <3>1, <3>3
  <2> QED BY <2>1, <2>2
<1>4. IsFiniteSet(used)
  BY <1>2, <1>3, FS_Union
<1>5. PICK c \in Cells : c \notin used
  BY <1>4, FS_Subset DEF HotBounds
<1> QED BY <1>5 DEF HotSpot!Fresh

-----------------------------------------------------------------------------
(* A request of a rule on concurrency, before, inside and after.           *)
HotSteps == {"idle", "check", "compare", "enter", "count in", "inside", "count out"}
HotRequest ==
  [pc : HotSteps, arg : Args \union {"none"}, batch : HotBatches \union {0}, now : {0}, at : {0},
   time : {0}, token : Cells \union {0}, old : {0}]
HotTypes ==
  /\ times = <<>> /\ tokens = <<>>
  /\ concurrency \in Seq(Pair) /\ heap \in [Cells -> Int]
  /\ req \in [HotRequests -> HotRequest]
  /\ \A r \in HotRequests : req[r].pc # "idle" => req[r].arg \in Args
  /\ inside \in [Args -> Int] /\ slips \in [Args -> Nat] /\ evictions \in [Args -> Nat]

(* Who has got past the comparison and is not counted yet.                 *)
Entering(a) == \E r \in HotRequests : req[r].pc \in {"enter", "count in"} /\ req[r].arg = a
Comparing == {"compare", "count in", "count out"}

(* No two arguments share a counter, in the cache or in a request's hands. *)
CountersApart ==
  /\ \A e, f \in Elements(concurrency) : e.arg = f.arg \/ e.cell = f.cell => e = f
  /\ \A r \in HotRequests : \A e \in Elements(concurrency) :
       req[r].token = e.cell => req[r].arg = e.arg
  /\ \A q, r \in HotRequests : req[q].token # 0 /\ req[q].token = req[r].token => req[q].arg = req[r].arg

(* Of an argument that was never thrown out: the counter there is, is what *)
(* the requests have in their hands, and counts them; one that is entering *)
(* has its place, but for those that have slipped in.                      *)
Counted(a) ==
  /\ \A e \in Elements(concurrency) : e.arg = a => heap[e.cell] = inside[a]
  /\ a \notin HotSpot!ArgsOf(concurrency) =>
       /\ inside[a] = 0
       /\ \A r \in HotRequests : req[r].arg = a => req[r].pc \in {"idle", "check"}
  /\ \A r \in HotRequests : req[r].arg = a /\ req[r].pc \in Comparing =>
       \E e \in Elements(concurrency) : e.arg = a /\ e.cell = req[r].token
  /\ inside[a] + (IF Entering(a) THEN 1 ELSE 0) <= HotSpot!Max({Thresholds[a], 1}) + slips[a]

HotPart == HotTypes /\ CountersApart /\ \A a \in Args : evictions[a] = 0 => Counted(a)
HotInv == behavior = "concurrency" => HotPart

(* What a threshold lets in is at least one request.                       *)
LEMMA GreatestOfTwo ==
  ASSUME NEW m \in Int, NEW n \in Int
  PROVE  HotSpot!Max({m, n}) \in Int /\ HotSpot!Max({m, n}) >= m /\ HotSpot!Max({m, n}) >= n
<1>1. \E x \in {m, n} : \A y \in {m, n} : x >= y
  BY m <= n \/ n <= m
<1> QED BY <1>1 DEF HotSpot!Max

(* The first to come for an argument is let in whatever its threshold.     *)
LEMMA PlaceForOne ==
  ASSUME HotBounds, NEW a \in Args
  PROVE  /\ HotSpot!Max({Thresholds[a], 1}) \in Int
         /\ HotSpot!Max({Thresholds[a], 1}) >= Thresholds[a] /\ HotSpot!Max({Thresholds[a], 1}) >= 1
<1> DEFINE t == Thresholds[a]
<1>1. t \in Int
  BY DEF HotBounds
<1> HIDE DEF t
<1>2. HotSpot!Max({t, 1}) \in Int /\ HotSpot!Max({t, 1}) >= t /\ HotSpot!Max({t, 1}) >= 1
  <2>1. 1 \in Int
    OBVIOUS
  <2> QED BY <1>1, <2>1, GreatestOfTwo, Zenon
<1> QED BY <1>2 DEF t

(* One request goes on, and the others are where they were.                *)
LEMMA OneGoesOn ==
  ASSUME HotTypes, NEW r \in HotRequests, NEW y \in HotRequest, req' = [req EXCEPT ![r] = y],
         y.pc # "idle" => y.arg \in Args
  PROVE  /\ req' \in [HotRequests -> HotRequest]
         /\ \A q \in HotRequests : req'[q].pc # "idle" => req'[q].arg \in Args
         /\ req'[r] = y /\ \A q \in HotRequests \ {r} : req'[q] = req[q]
BY DEF HotTypes

(* A request that has left holds nothing.                                  *)
LEMMA IdleRequest ==
  HotSpot!Idle \in HotRequest /\ HotSpot!Idle.pc = "idle" /\ HotSpot!Idle.arg = "none" /\ HotSpot!Idle.token = 0
BY DEF HotSpot!Idle, HotSpot!NoArg, HotRequest, HotSteps

(* What the cache says of an argument, by its pairs.                       *)
LEMMA CacheFacts ==
  ASSUME HotTypes
  PROVE  /\ Elements(concurrency) \subseteq Pair
         /\ \A a : a \in HotSpot!ArgsOf(concurrency) <=> \E e \in Elements(concurrency) : e.arg = a
         /\ \A a \in HotSpot!ArgsOf(concurrency) :
              /\ HotSpot!EntryOf(concurrency, a) \in Elements(concurrency)
              /\ HotSpot!EntryOf(concurrency, a).arg = a
<1>1. concurrency \in Seq(Pair)
  BY DEF HotTypes
<1>2. Elements(concurrency) \subseteq Pair
  BY <1>1 DEF Elements
<1> QED BY <1>1, <1>2, EntryFacts

(* A new call, or a tick.                                                  *)
LEMMA HotCalls ==
  ASSUME HotBounds, HotPart, behavior = "concurrency", NEW r \in HotRequests, NEW a \in Args,
         NEW batch \in HotBatches, HotSpot!Call(r, a, batch)
  PROVE  HotPart'
<1>1. HotTypes /\ CountersApart
  BY DEF HotPart
<1> DEFINE y == [HotSpot!Idle EXCEPT !.arg = a, !.batch = batch, !.pc = "check"]
<1>2. y \in HotRequest /\ y.pc = "check" /\ y.arg = a /\ y.token = 0
  BY DEF HotSpot!Idle, HotSpot!NoArg, HotRequest, HotSteps
<1>3. /\ req[r].pc = "idle" /\ req' = [req EXCEPT ![r] = y]
      /\ UNCHANGED <<behavior, times, tokens, concurrency, heap, inside, slips, evictions>>
  BY DEF HotSpot!Call, HotSpot!caches, HotSpot!history
<1> HIDE DEF y
<1>4. /\ req' \in [HotRequests -> HotRequest]
      /\ \A q \in HotRequests : req'[q].pc # "idle" => req'[q].arg \in Args
      /\ req'[r] = y /\ \A q \in HotRequests \ {r} : req'[q] = req[q]
  BY <1>1, <1>2, <1>3, OneGoesOn
<1>5. HotTypes'
  BY <1>1, <1>3, <1>4 DEF HotTypes
<1>6. CountersApart'
  BY <1>1, <1>2, <1>3, <1>4, CacheFacts DEF CountersApart, HotBounds, Pair
<1>7. ASSUME NEW b \in Args, evictions'[b] = 0 PROVE Counted(b)'
  <2>1. Counted(b)
    BY <1>3, <1>7 DEF HotPart
  <2>2. Entering(b)' <=> Entering(b)
    BY <1>2, <1>3, <1>4 DEF Entering
  <2> QED BY <1>2, <1>3, <1>4, <2>1, <2>2 DEF Counted, Comparing, HotSpot!ArgsOf
<1> QED BY <1>5, <1>6, <1>7 DEF HotPart

(* The comparison: who goes on finds a place.                              *)
LEMMA HotCompares ==
  ASSUME HotBounds, HotPart, NEW r \in HotRequests, HotSpot!CompareConcurrency(r)
  PROVE  HotPart'
<1>1. HotTypes /\ CountersApart /\ req[r] \in HotRequest
  BY DEF HotPart, HotTypes
<1> DEFINE a == req[r].arg
           fits == heap[req[r].token] + 1 <= Thresholds[a]
           y == IF fits THEN [req[r] EXCEPT !.pc = "enter", !.token = 0] ELSE HotSpot!Idle
<1>2. /\ y \in HotRequest /\ y.token = 0 /\ a \in Args
      /\ fits => y.pc = "enter" /\ y.arg = a
      /\ ~fits => y.pc = "idle" /\ y.arg = "none"
  <2>1. a \in Args
    BY <1>1 DEF HotTypes, HotSpot!CompareConcurrency
  <2>2. [req[r] EXCEPT !.pc = "enter", !.token = 0] \in HotRequest
    BY <1>1 DEF HotRequest, HotSteps
  <2>3. /\ [req[r] EXCEPT !.pc = "enter", !.token = 0].pc = "enter"
        /\ [req[r] EXCEPT !.pc = "enter", !.token = 0].token = 0
        /\ [req[r] EXCEPT !.pc = "enter", !.token = 0].arg = a
    BY <1>1 DEF HotRequest
  <2> QED BY <2>1, <2>2, <2>3, IdleRequest
<1>3. /\ req[r].pc = "compare" /\ req' = [req EXCEPT ![r] = y]
      /\ UNCHANGED <<behavior, times, tokens, concurrency, heap, inside, slips, evictions>>
  BY <1>1 DEF HotSpot!CompareConcurrency, HotSpot!caches, HotSpot!history, HotSpot!Leave, HotTypes
<1> HIDE DEF y
<1>4. /\ req' \in [HotRequests -> HotRequest]
      /\ \A q \in HotRequests : req'[q].pc # "idle" => req'[q].arg \in Args
      /\ req'[r] = y /\ \A q \in HotRequests \ {r} : req'[q] = req[q]
  BY <1>1, <1>2, <1>3, OneGoesOn
<1>5. HotTypes'
  BY <1>1, <1>3, <1>4 DEF HotTypes
<1>6. CountersApart'
  BY <1>1, <1>2, <1>3, <1>4, CacheFacts DEF CountersApart, HotBounds, Pair
<1>7. ASSUME NEW b \in Args, evictions'[b] = 0 PROVE Counted(b)'
  <2>1. Counted(b)
    BY <1>3, <1>7 DEF HotPart
  <2>2. /\ \A e \in Elements(concurrency)' : e.arg = b => heap'[e.cell] = inside'[b]
        /\ b \notin HotSpot!ArgsOf(concurrency)' =>
             inside'[b] = 0 /\ \A q \in HotRequests : req'[q].arg = b => req'[q].pc \in {"idle", "check"}
        /\ \A q \in HotRequests : req'[q].arg = b /\ req'[q].pc \in Comparing =>
             \E e \in Elements(concurrency)' : e.arg = b /\ e.cell = req'[q].token
    BY <1>2, <1>3, <1>4, <2>1 DEF Counted, Comparing, HotSpot!ArgsOf
  <2>3. inside'[b] + (IF Entering(b)' THEN 1 ELSE 0) <= HotSpot!Max({Thresholds[b], 1}) + slips'[b]
    <3>1. HotSpot!Max({Thresholds[b], 1}) \in Int /\ HotSpot!Max({Thresholds[b], 1}) >= Thresholds[b]
      BY PlaceForOne
    <3>2. CASE a = b /\ fits
      <4>1. heap[req[r].token] = inside[b]
        BY <1>3, <2>1, <3>2 DEF Counted, Comparing
      <4>2. slips[b] \in Nat /\ inside[b] \in Int /\ Thresholds[b] \in Int
        BY <1>1 DEF HotTypes, HotBounds
      <4> QED BY <1>3, <3>1, <3>2, <4>1, <4>2
    <3>3. CASE ~(a = b /\ fits)
      <4>1. Entering(b)' => Entering(b)
        BY <1>2, <1>3, <1>4, <3>3 DEF Entering
      <4>2. slips[b] \in Nat /\ inside[b] \in Int
        BY <1>1 DEF HotTypes
      <4> QED BY <1>3, <2>1, <3>1, <4>1, <4>2 DEF Counted
    <3> QED BY <3>2, <3>3
  <2> QED BY <2>2, <2>3 DEF Counted
<1> QED BY <1>5, <1>6, <1>7 DEF HotPart

(* What is looked up moves to the front, and stays what it was.            *)
LEMMA Looked ==
  ASSUME HotTypes, NEW a, concurrency' = HotSpot!Get(concurrency, a)
  PROVE  /\ concurrency' \in Seq(Pair) /\ Elements(concurrency)' = Elements(concurrency)
         /\ HotSpot!ArgsOf(concurrency)' = HotSpot!ArgsOf(concurrency)
<1>1. concurrency \in Seq(Pair)
  BY DEF HotTypes
<1>2. concurrency' \in Seq(Pair) /\ Elements(concurrency)' = Elements(concurrency)
  BY <1>1, FrontKeeps DEF HotSpot!Get
<1> QED BY <1>1, <1>2, EntryFacts

(* The counter of a request that enters or leaves is looked up.            *)
LEMMA HotLooksUp ==
  ASSUME HotBounds, HotPart, NEW r \in HotRequests, HotSpot!GetConcurrency(r)
  PROVE  HotPart'
<1>1. HotTypes /\ CountersApart /\ req[r] \in HotRequest
  BY DEF HotPart, HotTypes
<1> DEFINE a == req[r].arg
           found == a \in HotSpot!ArgsOf(concurrency)
           e0 == HotSpot!EntryOf(concurrency, a)
           next == IF req[r].pc = "enter" THEN "count in" ELSE "count out"
           y == [req[r] EXCEPT !.pc = next, !.token = IF found THEN e0.cell ELSE 0]
<1>2. /\ req[r].pc \in {"enter", "inside"} /\ a \in Args
      /\ found => e0 \in Elements(concurrency) /\ e0 \in Pair /\ e0.arg = a
  BY <1>1, CacheFacts DEF HotTypes, HotSpot!GetConcurrency
<1>3. /\ y \in HotRequest /\ y.pc = next /\ y.arg = a
      /\ found => y.token = e0.cell
      /\ ~found => y.token = 0
  BY <1>1, <1>2 DEF HotRequest, HotSteps, Pair
<1>4. /\ req' = [req EXCEPT ![r] = y] /\ concurrency' = HotSpot!Get(concurrency, a)
      /\ UNCHANGED <<behavior, times, tokens, heap, inside, slips, evictions>>
  BY <1>1 DEF HotSpot!GetConcurrency, HotSpot!history, HotTypes
<1> HIDE DEF y, e0
<1>5. /\ req' \in [HotRequests -> HotRequest]
      /\ \A q \in HotRequests : req'[q].pc # "idle" => req'[q].arg \in Args
      /\ req'[r] = y /\ \A q \in HotRequests \ {r} : req'[q] = req[q]
  BY <1>1, <1>2, <1>3, <1>4, OneGoesOn
<1>6. /\ concurrency' \in Seq(Pair) /\ Elements(concurrency)' = Elements(concurrency)
      /\ HotSpot!ArgsOf(concurrency)' = HotSpot!ArgsOf(concurrency)
  BY <1>1, <1>4, Looked
<1>7. HotTypes'
  BY <1>1, <1>4, <1>5, <1>6 DEF HotTypes
<1>8. CountersApart'
  <2>1. \A e \in Elements(concurrency) : e.cell # 0
    BY <1>1, CacheFacts DEF HotBounds, Pair
  <2>0. req'[r].token = IF found THEN e0.cell ELSE 0
    BY <1>3, <1>5
  <2>c. CountersApart
    BY <1>1
  <2>2. \A e \in Elements(concurrency) : req'[r].token = e.cell => e.arg = a
    <3>1. CASE found
      BY <1>2, <2>0, <2>c, <3>1 DEF CountersApart
    <3>2. CASE ~found
      BY <2>0, <2>1, <3>2
    <3> QED BY <3>1, <3>2
  <2>3. \A q \in HotRequests : req'[r].token # 0 /\ req[q].token = req'[r].token => req[q].arg = a
    <3>1. CASE found
      BY <1>2, <2>0, <2>c, <3>1 DEF CountersApart
    <3>2. CASE ~found
      BY <2>0, <3>2
    <3> QED BY <3>1, <3>2
  <2>4. \A q \in HotRequests : \A e \in Elements(concurrency)' :
          req'[q].token = e.cell => req'[q].arg = e.arg
    <3> SUFFICES ASSUME NEW q \in HotRequests, NEW e \in Elements(concurrency), req'[q].token = e.cell
                 PROVE  req'[q].arg = e.arg
      BY <1>6
    <3>1. CASE q = r
      BY <1>3, <1>5, <2>2, <3>1
    <3>2. CASE q # r
      BY <1>1, <1>5, <3>2 DEF CountersApart
    <3> QED BY <3>1, <3>2
  <2>5. ASSUME NEW p \in HotRequests, NEW q \in HotRequests, req'[p].token # 0,
               req'[p].token = req'[q].token
        PROVE  req'[p].arg = req'[q].arg
    <3>1. CASE p = r \/ q = r
      BY <1>3, <1>5, <2>3, <2>5, <3>1
    <3>2. CASE p # r /\ q # r
      BY <1>1, <1>5, <2>5, <3>2 DEF CountersApart
    <3> QED BY <3>1, <3>2
  <2> QED BY <1>1, <1>6, <2>4, <2>5 DEF CountersApart
<1>9. ASSUME NEW b \in Args, evictions'[b] = 0 PROVE Counted(b)'
  <2>1. Counted(b)
    BY <1>4, <1>9 DEF HotPart
  <2>2. Entering(b)' <=> Entering(b)
    BY <1>2, <1>3, <1>5 DEF Entering
  <2>3. a = b => found
    BY <1>2, <2>1 DEF Counted
  <2>4. \A q \in HotRequests : req'[q].arg = b /\ req'[q].pc \in Comparing =>
          \E e \in Elements(concurrency) : e.arg = b /\ e.cell = req'[q].token
    <3>1. ASSUME NEW q \in HotRequests \ {r}, req'[q].arg = b, req'[q].pc \in Comparing
          PROVE  \E e \in Elements(concurrency) : e.arg = b /\ e.cell = req'[q].token
      <4>1. req'[q] = req[q]
        BY <1>5
      <4> QED BY <2>1, <3>1, <4>1 DEF Counted
    <3>2. ASSUME req'[r].arg = b
          PROVE  \E e \in Elements(concurrency) : e.arg = b /\ e.cell = req'[r].token
      <4>1. a = b
        BY <1>3, <1>5, <3>2
      <4> QED BY <1>2, <1>3, <1>5, <2>3, <4>1
    <3> QED BY <3>1, <3>2
  <2>5. b \notin HotSpot!ArgsOf(concurrency) =>
          inside[b] = 0 /\ \A q \in HotRequests : req'[q].arg = b => req'[q].pc \in {"idle", "check"}
    <3> SUFFICES ASSUME b \notin HotSpot!ArgsOf(concurrency)
                 PROVE  inside[b] = 0 /\ \A q \in HotRequests :
                          req'[q].arg = b => req'[q].pc \in {"idle", "check"}
      OBVIOUS
    <3>1. inside[b] = 0 /\ \A q \in HotRequests : req[q].arg = b => req[q].pc \in {"idle", "check"}
      BY <2>1 DEF Counted
    <3>2. a # b
      BY <2>3
    <3>3. req'[r].arg # b
      BY <1>3, <1>5, <3>2
    <3> HIDE DEF a, found, next
    <3> QED BY <1>5, <3>1, <3>3
  <2>6. \A e \in Elements(concurrency)' : e.arg = b => heap'[e.cell] = inside'[b]
    BY <1>4, <1>6, <2>1 DEF Counted
  <2>7. inside'[b] + (IF Entering(b)' THEN 1 ELSE 0) <= HotSpot!Max({Thresholds[b], 1}) + slips'[b]
    BY <1>4, <2>1, <2>2 DEF Counted
  <2>8. \A q \in HotRequests : req'[q].arg = b /\ req'[q].pc \in Comparing =>
          \E e \in Elements(concurrency)' : e.arg = b /\ e.cell = req'[q].token
    BY <1>6, <2>4
  <2>9. b \notin HotSpot!ArgsOf(concurrency)' =>
          inside'[b] = 0 /\ \A q \in HotRequests : req'[q].arg = b => req'[q].pc \in {"idle", "check"}
    BY <1>4, <1>6, <2>5
  <2> HIDE DEF a, found, next
  <2> QED BY <2>6, <2>7, <2>8, <2>9 DEF Counted
<1> QED BY <1>7, <1>8, <1>9 DEF HotPart

(* A function changed at one place.                                        *)
LEMMA OneChanges ==
  ASSUME NEW S, NEW T, NEW f \in [S -> T], NEW x \in S, NEW v \in T
  PROVE  /\ [f EXCEPT ![x] = v] \in [S -> T] /\ [f EXCEPT ![x] = v][x] = v
         /\ \A y \in S \ {x} : [f EXCEPT ![x] = v][y] = f[y]
OBVIOUS

(* The step that changes the counter of a request, up or down, and with it *)
(* the number of requests inside.                                          *)
LEMMA HotCounts ==
  ASSUME HotBounds, HotPart, NEW r \in HotRequests, HotSpot!CountIn(r) \/ HotSpot!CountOut(r)
  PROVE  HotPart'
<1>1. HotTypes /\ CountersApart /\ req[r] \in HotRequest
  BY DEF HotPart, HotTypes
<1> DEFINE a == req[r].arg
           t == req[r].token
           in == req[r].pc = "count in"
           d == IF in THEN 1 ELSE -1
           y == IF in THEN [req[r] EXCEPT !.pc = "inside", !.token = 0] ELSE HotSpot!Idle
           others == \E q \in HotRequests \ {r} :
                       req[q].pc \in {"enter", "count in"} /\ req[q].arg = a
           w == IF in /\ others THEN 1 ELSE 0
<1>2. req[r].pc \in {"count in", "count out"} /\ a \in Args
  BY <1>1 DEF HotTypes, HotSpot!CountIn, HotSpot!CountOut
<1>3. /\ y \in HotRequest /\ y.token = 0
      /\ in => y.pc = "inside" /\ y.arg = a
      /\ ~in => y.pc = "idle" /\ y.arg = "none"
  <2>1. [req[r] EXCEPT !.pc = "inside", !.token = 0] \in HotRequest
    BY <1>1 DEF HotRequest, HotSteps
  <2>2. /\ [req[r] EXCEPT !.pc = "inside", !.token = 0].pc = "inside"
        /\ [req[r] EXCEPT !.pc = "inside", !.token = 0].token = 0
        /\ [req[r] EXCEPT !.pc = "inside", !.token = 0].arg = a
    BY <1>1 DEF HotRequest
  <2> QED BY <2>1, <2>2, IdleRequest
<1>4. /\ req' = [req EXCEPT ![r] = y]
      /\ heap' = IF t = 0 THEN heap ELSE [heap EXCEPT ![t] = heap[t] + d]
      /\ inside' = [inside EXCEPT ![a] = inside[a] + d]
      /\ slips' = IF in /\ others THEN [slips EXCEPT ![a] = slips[a] + 1] ELSE slips
      /\ UNCHANGED <<behavior, times, tokens, concurrency, evictions>>
  <2>1. CASE HotSpot!CountIn(r)
    BY <1>1, <2>1 DEF HotSpot!CountIn, HotSpot!Others, HotSpot!Slip, HotSpot!caches, HotTypes
  <2>2. CASE HotSpot!CountOut(r)
    BY <1>1, <2>2 DEF HotSpot!CountOut, HotSpot!caches, HotSpot!Leave, HotTypes
  <2> QED BY <2>1, <2>2
<1> HIDE DEF y
<1>5. /\ req' \in [HotRequests -> HotRequest]
      /\ \A q \in HotRequests : req'[q].pc # "idle" => req'[q].arg \in Args
      /\ req'[r] = y /\ \A q \in HotRequests \ {r} : req'[q] = req[q]
  BY <1>1, <1>2, <1>3, <1>4, OneGoesOn
<1>6. /\ t \in Cells \union {0} /\ d \in Int
      /\ inside \in [Args -> Int] /\ slips \in [Args -> Nat] /\ heap \in [Cells -> Int]
  BY <1>1 DEF HotTypes, HotRequest
<1>7. inside[a] \in Int /\ slips[a] \in Nat /\ slips[a] + 0 = slips[a] /\ slips[a] + 1 \in Nat
  <2> HIDE DEF a, t, d
  <2>1. inside[a] \in Int /\ slips[a] \in Nat
    BY <1>2, <1>6
  <2> QED BY <2>1
<1>8. inside[a] + d \in Int
  <2> HIDE DEF d, a
  <2> QED BY <1>7, <1>6
<1>9. t # 0 => t \in Cells /\ heap[t] \in Int
  BY <1>6
<1>10. t # 0 => heap[t] + d \in Int
  <2> HIDE DEF d, t
  <2> QED BY <1>9, <1>6
<1>11. /\ inside' \in [Args -> Int] /\ inside'[a] = inside[a] + d
       /\ \A x \in Args \ {a} : inside'[x] = inside[x]
  <2>1. inside' = [inside EXCEPT ![a] = inside[a] + d] /\ inside[a] + d \in Int
    BY <1>4, <1>8
  <2> HIDE DEF a, d
  <2> QED BY <1>2, <1>6, <2>1, OneChanges
<1>12. /\ slips' \in [Args -> Nat] /\ slips'[a] = slips[a] + w
       /\ \A x \in Args \ {a} : slips'[x] = slips[x]
  <2>1. CASE in /\ others
    <3>1. slips' = [slips EXCEPT ![a] = slips[a] + 1] /\ slips[a] + 1 \in Nat
      BY <1>4, <1>7, <2>1
    <3>2. /\ slips' \in [Args -> Nat] /\ slips'[a] = slips[a] + 1
          /\ \A x \in Args \ {a} : slips'[x] = slips[x]
      <4> HIDE DEF a
      <4> QED BY <1>2, <1>6, <3>1, OneChanges
    <3> QED BY <2>1, <3>2
  <2>2. CASE ~(in /\ others)
    <3>1. slips' = slips /\ slips[a] + 0 = slips[a]
      BY <1>4, <1>7, <2>2
    <3> QED BY <1>6, <2>2, <3>1
  <2> QED BY <2>1, <2>2
<1>13. /\ heap' \in [Cells -> Int] /\ \A c \in Cells \ {t} : heap'[c] = heap[c]
       /\ t \in Cells => t = 0 \/ heap'[t] = heap[t] + d
  <2>1. CASE t = 0
    BY <1>4, <1>6, <2>1
  <2>2. CASE t # 0
    <3>1. heap' = [heap EXCEPT ![t] = heap[t] + d] /\ t \in Cells /\ heap[t] + d \in Int
      BY <1>4, <1>9, <1>10, <2>2
    <3> HIDE DEF t, d
    <3> QED BY <1>6, <3>1, OneChanges
  <2> QED BY <2>1, <2>2
<1>14. HotTypes'
  BY <1>1, <1>4, <1>5, <1>11, <1>12, <1>13 DEF HotTypes
<1>15. /\ in /\ others => d = 1 /\ w = 1
       /\ in /\ ~others => d = 1 /\ w = 0
       /\ ~in => d = -1 /\ w = 0
  OBVIOUS
<1> HIDE DEF d, w
<1>16. \A e \in Elements(concurrency) : e.cell \in Cells /\ e.cell # 0
  BY <1>1, CacheFacts DEF HotBounds, Pair
<1>17. CountersApart'
  <2>1. UNCHANGED concurrency
    BY <1>4
  <2>2. req'[r].token = 0 /\ \A q \in HotRequests \ {r} : req'[q] = req[q]
    BY <1>3, <1>5
  <2> QED BY <1>16, <1>1, <2>1, <2>2 DEF CountersApart
<1>18. ASSUME NEW b \in Args, evictions'[b] = 0 PROVE Counted(b)'
  <2>1. Counted(b)
    BY <1>4, <1>18 DEF HotPart
  <2>2. b \notin HotSpot!ArgsOf(concurrency) => a # b
    BY <1>2, <2>1 DEF Counted
  <2>3. a = b => t \in Cells /\ t # 0
    BY <1>16, <1>2, <2>1 DEF Counted, Comparing
  <2>4. \A e \in Elements(concurrency) : e.arg = b => heap'[e.cell] = inside'[b]
    <3> SUFFICES ASSUME NEW e \in Elements(concurrency), e.arg = b
                 PROVE  heap'[e.cell] = inside'[b]
      OBVIOUS
    <3>1. heap[e.cell] = inside[b] /\ e.cell \in Cells
      BY <1>16, <2>1 DEF Counted
    <3>2. CASE a = b
      <4>1. PICK f \in Elements(concurrency) : f.arg = b /\ f.cell = t
        BY <1>2, <2>1, <3>2 DEF Counted, Comparing
      <4>2. e.cell = t
        BY <1>1, <4>1 DEF CountersApart
      <4>3. heap'[t] = heap[t] + d
          BY <1>13, <2>3, <3>2
        <4>4. inside'[b] = inside[b] + d
          BY <1>11, <3>2
        <4> QED BY <3>1, <4>2, <4>3, <4>4
    <3>3. CASE a # b
      <4>1. e.cell # t
        BY <1>1, <3>3 DEF CountersApart
      <4>2. heap'[e.cell] = heap[e.cell] /\ inside'[b] = inside[b]
          BY <1>11, <1>13, <3>1, <3>3, <4>1
        <4> QED BY <3>1, <4>2
    <3> QED BY <3>2, <3>3
  <2>5. b \notin HotSpot!ArgsOf(concurrency) =>
          inside'[b] = 0 /\ \A q \in HotRequests : req'[q].arg = b => req'[q].pc \in {"idle", "check"}
    BY <1>2, <1>3, <1>5, <1>11, <2>1, <2>2 DEF Counted
  <2>6. \A q \in HotRequests : req'[q].arg = b /\ req'[q].pc \in Comparing =>
          \E e \in Elements(concurrency) : e.arg = b /\ e.cell = req'[q].token
    BY <1>3, <1>5, <2>1 DEF Counted, Comparing
  <2>7. inside'[b] + (IF Entering(b)' THEN 1 ELSE 0) <= HotSpot!Max({Thresholds[b], 1}) + slips'[b]
    <3>1. HotSpot!Max({Thresholds[b], 1}) \in Int /\ slips[b] \in Nat /\ inside[b] \in Int
      BY <1>6, PlaceForOne
    <3>2. inside[b] + (IF Entering(b) THEN 1 ELSE 0) <= HotSpot!Max({Thresholds[b], 1}) + slips[b]
      BY <2>1 DEF Counted
    <3>3. CASE a = b /\ in
      <4>1. Entering(b) /\ (Entering(b)' <=> others)
        BY <1>3, <1>5, <3>3 DEF Entering
      <4>2. d = 1 /\ w \in {0, 1} /\ (Entering(b)' => w = 1)
        <5>1. CASE others
          BY <1>15, <3>3, <5>1
        <5>2. CASE ~others
          BY <1>15, <3>3, <4>1, <5>2
        <5> QED BY <5>1, <5>2
      <4>3. inside'[b] = inside[b] + d /\ slips'[b] = slips[b] + w
        BY <1>11, <1>12, <3>3
      <4>4. Entering(b)
        BY <4>1
      <4> HIDE DEF a, t, in, others
      <4> QED BY <3>1, <3>2, <4>2, <4>3, <4>4
    <3>4. CASE ~(a = b /\ in)
      <4>1. Entering(b)' <=> Entering(b)
        BY <1>2, <1>3, <1>5, <3>4 DEF Entering
      <4>2. inside'[b] <= inside[b] /\ inside'[b] \in Int /\ slips'[b] = slips[b]
        <5>1. CASE a = b
          <6>1. inside'[b] = inside[b] + d /\ slips'[b] = slips[b] + w
            BY <1>11, <1>12, <5>1
          <6>2. d = -1 /\ w = 0
            BY <1>15, <3>4, <5>1
          <6> QED BY <3>1, <6>1, <6>2
        <5>2. CASE a # b
          <6>1. inside'[b] = inside[b] /\ slips'[b] = slips[b]
            BY <1>11, <1>12, <5>2
          <6> QED BY <3>1, <6>1
        <5> QED BY <5>1, <5>2
      <4> QED BY <3>1, <3>2, <4>1, <4>2
    <3> QED BY <3>3, <3>4
  <2> QED BY <1>4, <2>4, <2>5, <2>6, <2>7 DEF Counted, HotSpot!ArgsOf
<1> QED BY <1>14, <1>17, <1>18 DEF HotPart

(* The check: an argument that is new gets a counter of its own, for which *)
(* another may be thrown out; any other has the one that is there.         *)
LEMMA HotChecks ==
  ASSUME HotBounds, HotPart, NEW r \in HotRequests, HotSpot!CheckConcurrency(r)
  PROVE  HotPart'
<1>1. /\ HotTypes /\ CountersApart /\ req[r] \in HotRequest /\ concurrency \in Seq(Pair)
      /\ evictions \in [Args -> Nat] /\ heap \in [Cells -> Int]
  BY DEF HotPart, HotTypes
<1> DEFINE a == req[r].arg
           absent == a \notin HotSpot!ArgsOf(concurrency)
<1>2. /\ req[r].pc = "check" /\ a \in Args
      /\ UNCHANGED <<behavior, times, tokens, inside, slips>>
      /\ evictions' = HotSpot!Evicted(concurrency, concurrency')
  BY <1>1 DEF HotTypes, HotSpot!CheckConcurrency
<1>3. CASE ~absent
  <2> DEFINE e0 == HotSpot!EntryOf(concurrency, a)
             y == [req[r] EXCEPT !.pc = "compare", !.token = HotSpot!EntryOf(concurrency', a).cell]
  <2>1. concurrency' = HotSpot!Get(concurrency, a) /\ heap' = heap /\ req' = [req EXCEPT ![r] = y]
    BY <1>1, <1>3 DEF HotSpot!CheckConcurrency, HotSpot!AddIfAbsent, HotSpot!Get, HotTypes
  <2>2. /\ concurrency' \in Seq(Pair) /\ Elements(concurrency)' = Elements(concurrency)
        /\ HotSpot!ArgsOf(concurrency)' = HotSpot!ArgsOf(concurrency)
    BY <1>1, <2>1, Looked
  <2>3. PICK e \in Elements(concurrency) : e.arg = a /\ e.cell = y.token /\ e \in Pair
    <3>1. \A s \in Seq(Pair) : a \in HotSpot!ArgsOf(s) =>
            HotSpot!EntryOf(s, a) \in Elements(s) /\ HotSpot!EntryOf(s, a).arg = a
      BY EntryFacts
    <3>2. HotSpot!EntryOf(concurrency', a) \in Elements(concurrency)
          /\ HotSpot!EntryOf(concurrency', a).arg = a
      BY <1>3, <2>2, <3>1 DEF HotSpot!ArgsOf, Elements
    <3>3. y.token = HotSpot!EntryOf(concurrency', a).cell
      BY <1>1 DEF HotRequest
    <3> QED BY <1>1, <3>2, <3>3, CacheFacts
  <2>4. y \in HotRequest /\ y.pc = "compare" /\ y.arg = a
    <3>1. HotSpot!EntryOf(concurrency', a).cell \in Cells
      BY <1>1, <2>3 DEF HotRequest, Pair
    <3> QED BY <1>1, <3>1 DEF HotRequest, HotSteps
  <2> HIDE DEF y
  <2>5. /\ req' \in [HotRequests -> HotRequest]
        /\ \A q \in HotRequests : req'[q].pc # "idle" => req'[q].arg \in Args
        /\ req'[r] = y /\ \A q \in HotRequests \ {r} : req'[q] = req[q]
    BY <1>1, <1>2, <2>1, <2>4, OneGoesOn
  <2>6. evictions' = evictions
    BY <1>1, <1>2, <2>2 DEF HotSpot!Evicted, HotSpot!ArgsOf
  <2>7. HotTypes'
    BY <1>1, <1>2, <2>1, <2>2, <2>5, <2>6 DEF HotTypes
  <2>8. CountersApart'
    <3>1. \A f \in Elements(concurrency) : req'[r].token = f.cell => f.arg = a
      BY <1>1, <2>3, <2>5 DEF CountersApart
    <3>2. \A q \in HotRequests : req[q].token = req'[r].token => req[q].arg = a
      BY <1>1, <2>3, <2>5 DEF CountersApart
    <3>3. \A q \in HotRequests : \A f \in Elements(concurrency)' :
            req'[q].token = f.cell => req'[q].arg = f.arg
      BY <1>1, <2>2, <2>4, <2>5, <3>1 DEF CountersApart
    <3>4. ASSUME NEW p \in HotRequests, NEW q \in HotRequests, req'[p].token # 0,
                 req'[p].token = req'[q].token
          PROVE  req'[p].arg = req'[q].arg
      <4>1. CASE p = r \/ q = r
        BY <2>4, <2>5, <3>2, <3>4, <4>1
      <4>2. CASE p # r /\ q # r
        BY <1>1, <2>5, <3>4, <4>2 DEF CountersApart
      <4> QED BY <4>1, <4>2
    <3> QED BY <1>1, <2>2, <3>3, <3>4 DEF CountersApart
  <2>9. ASSUME NEW b \in Args, evictions'[b] = 0 PROVE Counted(b)'
    <3>1. Counted(b)
      BY <2>6, <2>9 DEF HotPart
    <3>2. Entering(b)' <=> Entering(b)
      BY <1>2, <2>4, <2>5 DEF Entering
    <3>3. \A q \in HotRequests : req'[q].arg = b /\ req'[q].pc \in Comparing =>
            \E f \in Elements(concurrency) : f.arg = b /\ f.cell = req'[q].token
      BY <2>3, <2>4, <2>5, <3>1 DEF Counted
    <3>4. b \notin HotSpot!ArgsOf(concurrency) =>
            inside[b] = 0 /\ \A q \in HotRequests : req'[q].arg = b => req'[q].pc \in {"idle", "check"}
      BY <1>3, <2>4, <2>5, <3>1 DEF Counted
    <3> QED BY <1>2, <2>1, <2>2, <3>1, <3>2, <3>3, <3>4 DEF Counted
  <2> QED BY <2>7, <2>8, <2>9 DEF HotPart
<1>4. CASE absent
  <2> DEFINE c == HotSpot!Fresh
             x == [arg |-> a, cell |-> c]
             y == [req[r] EXCEPT !.pc = "enter"]
  <2>1. /\ concurrency' = HotSpot!AddIfAbsent(concurrency, a, c)
        /\ heap' = [heap EXCEPT ![c] = 0] /\ req' = [req EXCEPT ![r] = y]
    BY <1>1, <1>4 DEF HotSpot!CheckConcurrency, HotTypes
  <2>2. /\ y \in HotRequest /\ y.pc = "enter" /\ y.arg = a /\ y.token = req[r].token
        /\ x.arg = a /\ x.cell = c
    BY <1>1 DEF HotRequest, HotSteps
  <2>3. /\ c \in Cells /\ c \notin HotSpot!CellsOf(concurrency)
        /\ \A q \in HotRequests : req[q].token # c
    <3>1. times \in Seq(Pair) /\ tokens \in Seq(Pair)
      BY <1>1 DEF HotTypes
    <3> QED BY <1>1, <3>1, FreshIsFree
  <2>4. \A e \in Elements(concurrency) : e.cell # c /\ e.arg # a /\ e.cell \in Cells
    <3> SUFFICES ASSUME NEW e \in Elements(concurrency)
                 PROVE  e.cell # c /\ e.arg # a /\ e.cell \in Cells
      OBVIOUS
    <3>1. e \in Pair /\ e.arg # a
      BY <1>1, <1>4, CacheFacts
    <3>2. e.cell \in HotSpot!CellsOf(concurrency)
      BY <1>1, EntryFacts
    <3> QED BY <2>3, <3>1, <3>2 DEF Pair
  <2> HIDE DEF c, y
  <2>5. /\ concurrency' \in Seq(Pair) /\ x \in Elements(concurrency)'
        /\ Elements(concurrency)' \ {x} \subseteq Elements(concurrency)
    <3> HIDE DEF a
    <3>1. /\ HotSpot!AddIfAbsent(concurrency, a, c) \in Seq(Pair)
          /\ x \in Elements(HotSpot!AddIfAbsent(concurrency, a, c))
          /\ Elements(HotSpot!AddIfAbsent(concurrency, a, c)) \ {x} \subseteq Elements(concurrency)
      BY <1>1, <1>2, <1>4, <2>3, AddKeeps
    <3> QED BY <2>1, <3>1
  <2> HIDE DEF x
  <2>6. /\ req' \in [HotRequests -> HotRequest]
        /\ \A q \in HotRequests : req'[q].pc # "idle" => req'[q].arg \in Args
        /\ req'[r] = y /\ \A q \in HotRequests \ {r} : req'[q] = req[q]
    BY <1>1, <1>2, <2>1, <2>2, OneGoesOn
  <2>7. /\ evictions' \in [Args -> Nat]
        /\ \A b \in Args : evictions'[b] = 0 =>
             /\ evictions[b] = 0
             /\ b \in HotSpot!ArgsOf(concurrency) => b \in HotSpot!ArgsOf(concurrency')
    BY <1>1, <1>2 DEF HotSpot!Evicted
  <2>8. heap' \in [Cells -> Int] /\ heap'[c] = 0 /\ \A d \in Cells \ {c} : heap'[d] = heap[d]
    BY <1>1, <2>1, <2>3
  <2>9. HotTypes'
    BY <1>1, <1>2, <2>5, <2>6, <2>7, <2>8 DEF HotTypes
  <2>10. CountersApart'
    <3>1. \A q \in HotRequests : req'[q].token = req[q].token /\ req'[q].arg = req[q].arg
      BY <2>2, <2>6
    <3>2. \A e, f \in Elements(concurrency)' : e.arg = f.arg \/ e.cell = f.cell => e = f
      BY <1>1, <2>2, <2>4, <2>5 DEF CountersApart
    <3>3. \A q \in HotRequests : \A e \in Elements(concurrency)' :
            req'[q].token = e.cell => req'[q].arg = e.arg
      BY <1>1, <2>2, <2>3, <2>5, <3>1 DEF CountersApart
    <3> QED BY <1>1, <3>1, <3>2, <3>3 DEF CountersApart
  <2>11. ASSUME NEW b \in Args, evictions'[b] = 0 PROVE Counted(b)'
    <3>1. Counted(b)
      BY <2>7, <2>11 DEF HotPart
    <3>2. HotSpot!ArgsOf(concurrency)' = {e.arg : e \in Elements(concurrency)'}
      <4>1. \A s \in Seq(Pair) : HotSpot!ArgsOf(s) = {e.arg : e \in Elements(s)}
        BY EntryFacts
      <4> QED BY <2>5, <4>1 DEF HotSpot!ArgsOf, Elements
    <3>3. CASE b # a
      <4>1. \A e \in Elements(concurrency)' : e.arg = b =>
              e \in Elements(concurrency) /\ heap'[e.cell] = heap[e.cell]
        BY <2>2, <2>4, <2>5, <2>8, <3>3
      <4>2. b \in HotSpot!ArgsOf(concurrency) => b \in HotSpot!ArgsOf(concurrency)'
        BY <2>7, <2>11 DEF HotSpot!ArgsOf
      <4>3. \A q \in HotRequests : req'[q].arg = b => req'[q] = req[q]
        BY <2>2, <2>6, <3>3
      <4>4. \A e \in Elements(concurrency) : e.arg = b => e \in Elements(concurrency)'
        <5> SUFFICES ASSUME NEW e \in Elements(concurrency), e.arg = b
                     PROVE  e \in Elements(concurrency)'
          OBVIOUS
        <5>1. b \in HotSpot!ArgsOf(concurrency)'
          BY <1>1, <4>2, CacheFacts
        <5>2. PICK f \in Elements(concurrency)' : f.arg = b
          BY <3>2, <5>1
        <5> QED BY <1>1, <4>1, <5>2 DEF CountersApart
      <4>5. Entering(b)' <=> Entering(b)
        BY <2>2, <2>6, <3>3 DEF Entering
      <4>6. \A e \in Elements(concurrency)' : e.arg = b => heap'[e.cell] = inside'[b]
        BY <1>2, <3>1, <4>1 DEF Counted
      <4>7. b \notin HotSpot!ArgsOf(concurrency)' =>
              /\ inside'[b] = 0
              /\ \A q \in HotRequests : req'[q].arg = b => req'[q].pc \in {"idle", "check"}
        BY <1>2, <3>1, <4>2, <4>3 DEF Counted
      <4>8. \A q \in HotRequests : req'[q].arg = b /\ req'[q].pc \in Comparing =>
              \E e \in Elements(concurrency)' : e.arg = b /\ e.cell = req'[q].token
        BY <3>1, <4>3, <4>4 DEF Counted
      <4> QED BY <1>2, <3>1, <4>5, <4>6, <4>7, <4>8 DEF Counted
    <3>4. CASE b = a
      <4>1. inside[b] = 0 /\ \A q \in HotRequests : req[q].arg = b => req[q].pc \in {"idle", "check"}
        BY <1>4, <3>1, <3>4 DEF Counted
      <4>2. \A e \in Elements(concurrency)' : e.arg = b => heap'[e.cell] = 0
        BY <2>2, <2>4, <2>5, <2>8, <3>4
      <4>3. b \in HotSpot!ArgsOf(concurrency)'
        BY <2>2, <2>5, <3>2, <3>4
      <4>4. \A q \in HotRequests : req'[q].arg = b => req'[q].pc \notin Comparing
        BY <2>2, <2>6, <4>1 DEF Comparing
      <4>5. 0 + 1 <= HotSpot!Max({Thresholds[b], 1}) + slips[b]
        <5>1. Thresholds[b] \in Int /\ slips[b] \in Nat
          BY <1>1 DEF HotBounds, HotTypes
        <5>2. HotSpot!Max({Thresholds[b], 1}) \in Int /\ HotSpot!Max({Thresholds[b], 1}) >= 1
          BY PlaceForOne
        <5> QED BY <5>1, <5>2
      <4>6. inside'[b] + (IF Entering(b)' THEN 1 ELSE 0)
              <= HotSpot!Max({Thresholds[b], 1}) + slips'[b]
        <5>1. slips[b] \in Nat /\ HotSpot!Max({Thresholds[b], 1}) \in Int
          BY <1>1, PlaceForOne DEF HotTypes
        <5> QED BY <1>2, <4>1, <4>5, <5>1
      <4> QED BY <1>2, <4>1, <4>2, <4>3, <4>4, <4>6 DEF Counted
    <3> QED BY <3>3, <3>4
  <2> QED BY <2>9, <2>10, <2>11 DEF HotPart
<1> QED BY <1>3, <1>4

(* A rule stays what it is.                                                *)
LEMMA SameBehavior ==
  ASSUME [HotSpot!Next]_(HotSpot!hsVars)
  PROVE  behavior' = behavior
<1>1. ASSUME NEW r \in HotRequests, HotSpot!Step(r) PROVE behavior' = behavior
  <2>1. CASE HotSpot!ReadClock(r) \/ HotSpot!AddTime(r) \/ HotSpot!FillTokens(r) \/ HotSpot!LoadTime(r)
    BY <2>1 DEF HotSpot!ReadClock, HotSpot!AddTime, HotSpot!FillTokens, HotSpot!LoadTime
  <2>2. CASE HotSpot!AddTokens(r) \/ HotSpot!LoadTokens(r) \/ HotSpot!CasRefill(r) \/ HotSpot!Stamp(r)
    BY <2>2 DEF HotSpot!AddTokens, HotSpot!LoadTokens, HotSpot!CasRefill, HotSpot!Stamp
  <2>3. CASE HotSpot!GetTokens(r) \/ HotSpot!CasTake(r) \/ HotSpot!CasTime(r) \/ HotSpot!StoreTime(r)
    BY <2>3 DEF HotSpot!GetTokens, HotSpot!CasTake, HotSpot!CasTime, HotSpot!StoreTime
  <2>4. CASE \/ HotSpot!CheckConcurrency(r) \/ HotSpot!CompareConcurrency(r) \/ HotSpot!GetConcurrency(r)
             \/ HotSpot!CountIn(r) \/ HotSpot!CountOut(r)
    BY <2>4 DEF HotSpot!CheckConcurrency, HotSpot!CompareConcurrency, HotSpot!GetConcurrency,
                HotSpot!CountIn, HotSpot!CountOut
  <2> QED BY <1>1, <2>1, <2>2, <2>3, <2>4 DEF HotSpot!Step
<1>2. ASSUME NEW r \in HotRequests, NEW a \in Args, NEW batch \in HotBatches, HotSpot!Call(r, a, batch)
      PROVE  behavior' = behavior
  BY <1>2 DEF HotSpot!Call
<1>3. ASSUME HotSpot!Tick \/ UNCHANGED HotSpot!hsVars PROVE behavior' = behavior
  BY <1>3 DEF HotSpot!Tick, HotSpot!hsVars
<1> QED BY <1>1, <1>2, <1>3 DEF HotSpot!Next

(* Every step: a rule on concurrency makes no other steps than these.      *)
LEMMA HotNext == HotBounds /\ HotInv /\ [HotSpot!Next]_(HotSpot!hsVars) => HotInv'
<1> SUFFICES ASSUME HotBounds, HotInv, [HotSpot!Next]_(HotSpot!hsVars), behavior' = "concurrency"
             PROVE  HotPart'
  BY DEF HotInv, HotPart
<1>0. behavior = "concurrency" /\ HotPart
  <2>1. behavior' = behavior
    BY SameBehavior
  <2> QED BY <2>1 DEF HotInv, HotPart
<1>1. ASSUME NEW r \in HotRequests, NEW a \in Args, NEW batch \in HotBatches, HotSpot!Call(r, a, batch)
      PROVE  HotPart'
  BY <1>0, <1>1, HotCalls
<1>2. ASSUME NEW r \in HotRequests, HotSpot!Step(r) PROVE HotPart'
  <2>1. req[r].pc \in HotSteps
    BY <1>0 DEF HotPart, HotTypes, HotRequest
  <2>2. \/ HotSpot!CheckConcurrency(r) \/ HotSpot!CompareConcurrency(r) \/ HotSpot!GetConcurrency(r)
        \/ HotSpot!CountIn(r) \/ HotSpot!CountOut(r)
    BY <1>2, <2>1
       DEF HotSpot!Step, HotSteps, HotSpot!ReadClock, HotSpot!AddTime, HotSpot!FillTokens, HotSpot!LoadTime,
           HotSpot!AddTokens, HotSpot!LoadTokens, HotSpot!CasRefill, HotSpot!Stamp, HotSpot!GetTokens, HotSpot!CasTake,
           HotSpot!CasTime, HotSpot!StoreTime
  <2> QED BY <1>0, <2>2, HotChecks, HotCompares, HotLooksUp, HotCounts
<1>3. CASE HotSpot!Tick \/ UNCHANGED HotSpot!hsVars
  <2>1. UNCHANGED <<times, tokens, concurrency, heap, req, inside, slips, evictions>>
    BY <1>3 DEF HotSpot!Tick, HotSpot!hsVars, HotSpot!caches, HotSpot!history
  <2>2. HotTypes' /\ CountersApart'
    BY <1>0, <2>1 DEF HotPart, HotTypes, CountersApart
  <2>3. ASSUME NEW a \in Args, evictions'[a] = 0 PROVE Counted(a)'
    <3>1. Counted(a)
      BY <1>0, <2>1, <2>3 DEF HotPart
    <3>2. Entering(a)' <=> Entering(a)
      BY <2>1 DEF Entering
    <3> QED BY <2>1, <3>1, <3>2 DEF Counted, Comparing, HotSpot!ArgsOf
  <2> QED BY <2>2, <2>3 DEF HotPart
<1> QED BY <1>1, <1>2, <1>3 DEF HotSpot!Next

(* Of an argument that was never thrown out of the cache the counter is    *)
(* the number of requests inside, and these are no more than its threshold *)
(* (and one, which the first to come does not look at) but for those that  *)
(* were compared while another had not been counted: for any requests,     *)
(* arguments and thresholds, and any capacity of the cache.                *)
THEOREM ConcurrencyAlwaysHeld ==
  ASSUME HotBounds
  PROVE  HotSpot!Spec => []ConcurrencyHeld
<1>1. HotSpot!Init => HotInv
  <2> SUFFICES ASSUME HotSpot!Init PROVE HotPart
    BY DEF HotInv, HotPart
  <2>1. Elements(concurrency) = {} /\ HotSpot!ArgsOf(concurrency) = {}
    BY DEF HotSpot!Init, Elements, HotSpot!ArgsOf
  <2>2. HotTypes
    BY IdleRequest DEF HotSpot!Init, HotTypes
  <2>3. ASSUME NEW a \in Args PROVE Counted(a)
    <3>1. ~Entering(a) /\ inside[a] = 0 /\ slips[a] = 0
      BY IdleRequest DEF HotSpot!Init, Entering
    <3>2. HotSpot!Max({Thresholds[a], 1}) \in Int /\ HotSpot!Max({Thresholds[a], 1}) >= 1
      BY PlaceForOne
    <3>3. \A q \in HotRequests : req[q].pc = "idle"
      BY IdleRequest DEF HotSpot!Init
    <3>4. inside[a] + (IF Entering(a) THEN 1 ELSE 0) <= HotSpot!Max({Thresholds[a], 1}) + slips[a]
      BY <3>1, <3>2
    <3> QED BY <2>1, <3>1, <3>3, <3>4 DEF Counted, Comparing
  <2> QED BY <2>1, <2>2, <2>3, IdleRequest DEF HotPart, CountersApart, HotSpot!Init
<1>2. HotInv /\ [HotSpot!Next]_(HotSpot!hsVars) => HotInv'
  BY HotNext
<1>3. HotInv => ConcurrencyHeld
  <2> SUFFICES ASSUME HotInv, behavior = "concurrency", NEW a \in Args, evictions[a] = 0
               PROVE  /\ a \in HotSpot!ArgsOf(concurrency) =>
                           heap[HotSpot!EntryOf(concurrency, a).cell] = inside[a]
                      /\ inside[a] <= HotSpot!Max({Thresholds[a], 1}) + slips[a]
    BY DEF ConcurrencyHeld, HotSpot!ConcurrencyHeld
  <2>1. HotTypes /\ Counted(a)
    BY DEF HotInv, HotPart
  <2>2. HotSpot!Max({Thresholds[a], 1}) \in Int
    BY PlaceForOne
  <2>3. inside[a] \in Int /\ slips[a] \in Nat
    BY <2>1 DEF HotTypes
  <2> QED BY <2>1, <2>2, <2>3, CacheFacts DEF Counted
<1> QED BY <1>1, <1>2, <1>3, PTL DEF HotSpot!Spec

-----------------------------------------------------------------------------
(* Sums over sets, which statistics are (module LeapArray).                *)
(* Induction, for a set of numbers that a property picks out.              *)
LEMMA SetInduction ==
  ASSUME NEW S, 0 \in S, \A n \in Nat : n \in S => n + 1 \in S
  PROVE  Nat \subseteq S
<1> SUFFICES ASSUME Nat \ S # {} PROVE FALSE
  OBVIOUS
<1> DEFINE T == Nat \ S
<1>1. T \subseteq Nat /\ T # {}
  OBVIOUS
<1> HIDE DEF T
<1>2. PICK m \in T : \A k \in T : <<k, m>> \notin OpToRel(<, Nat)
  BY <1>1, WFMin, NatLessThanWellFounded, Zenon
<1>3. \A k \in T : ~(k < m)
  BY <1>1, <1>2, Zenon DEF OpToRel
<1>4. m \in Nat /\ m # 0 /\ m \notin S
  BY <1>1 DEF T
<1>5. m - 1 \in Nat /\ m - 1 < m /\ m = (m - 1) + 1
  BY <1>4
<1>6. m - 1 \in S
  BY <1>3, <1>5 DEF T
<1> QED BY <1>4, <1>5, <1>6

(* A sum over a set, an element at a time; the recursion of MapThenSumSet. *)
Pick(s) == CHOOSE x \in s : TRUE
SumStep(w, f, s) == IF s = {} THEN 0 ELSE w[Pick(s)] + f[s \ {Pick(s)}]
Sums(f, w, S) == f = [s \in SUBSET S |-> SumStep(w, f, s)]
Sum(w, S) == LET f == CHOOSE f : Sums(f, w, S) IN f[S]

(* What is picked from a set is in it.                                     *)
LEMMA PickIn == \A s : s # {} => Pick(s) \in s
BY DEF Pick

(* There is a function that the recursion describes.                       *)
LEMMA SumExists ==
  ASSUME NEW S, IsFiniteSet(S), NEW w
  PROVE  \E f : Sums(f, w, S)
<1> DEFINE Upto(n) == {s \in SUBSET S : Cardinality(s) <= n}
           Is(f, n) == f = [s \in Upto(n) |-> SumStep(w, f, s)]
           D == {n \in Nat : \E f : Is(f, n)}
<1>0. \A s \in SUBSET S : IsFiniteSet(s) /\ Cardinality(s) \in Nat /\ Cardinality(s) <= Cardinality(S)
  BY FS_Subset, FS_CardinalityType
<1>1. 0 \in D
  <2>1. \A s \in Upto(0) : s = {}
    BY <1>0, FS_EmptySet
  <2>2. Is([s \in Upto(0) |-> 0], 0)
    <3> HIDE DEF Upto
    <3> QED BY <2>1 DEF SumStep
  <2> QED BY <2>2
<1>2. ASSUME NEW n \in Nat, n \in D PROVE n + 1 \in D
  <2>1. PICK f : Is(f, n)
    BY <1>2
  <2> DEFINE g == [s \in Upto(n + 1) |-> IF s \in Upto(n) THEN f[s] ELSE SumStep(w, f, s)]
  <2>2. \A s \in Upto(n) : s \in Upto(n + 1) /\ g[s] = f[s]
    BY <1>0
  <2>3. ASSUME NEW s \in Upto(n + 1) PROVE g[s] = SumStep(w, g, s)
    <3>1. CASE s = {}
      <4>1. {} \in Upto(n)
        BY FS_EmptySet
      <4>2. f[{}] = SumStep(w, f, {})
        BY <2>1, <4>1
      <4> QED BY <2>2, <3>1, <4>1, <4>2 DEF SumStep
    <3>2. CASE s # {}
      <4> DEFINE x == Pick(s)
                 r == s \ {x}
      <4>1. x \in s
        BY <3>2, PickIn
      <4> HIDE DEF x
      <4>2. Cardinality(r) = Cardinality(s) - 1
        BY <1>0, <4>1, FS_RemoveElement
      <4>3. r \in Upto(n)
        BY <1>0, <4>2
      <4>4. SumStep(w, g, s) = SumStep(w, f, s)
        BY <2>2, <3>2, <4>3 DEF SumStep, x
      <4>5. s \in Upto(n) => f[s] = SumStep(w, f, s)
        BY <2>1
      <4> QED BY <4>4, <4>5
    <3> QED BY <3>1, <3>2
  <2>4. g = [s \in Upto(n + 1) |-> g[s]]
    OBVIOUS
  <2> HIDE DEF g, Upto
  <2>5. Is(g, n + 1)
    BY <2>3, <2>4
  <2> QED BY <2>5
<1> HIDE DEF D
<1>3. Cardinality(S) \in D
  BY <1>0, <1>1, <1>2, SetInduction
<1>4. Upto(Cardinality(S)) = SUBSET S
  BY <1>0
<1> QED BY <1>3, <1>4 DEF D, Sums

(* The sums of two sets agree on what is in both.                          *)
LEMMA SumsAgree ==
  ASSUME NEW S, NEW T, NEW f, NEW g, NEW w, NEW v, Sums(f, w, S), Sums(g, v, T),
         NEW A, IsFiniteSet(A), A \subseteq S, A \subseteq T, \A x \in A : w[x] = v[x]
  PROVE  f[A] = g[A]
<1> DEFINE D == {n \in Nat : \A s \in SUBSET A : Cardinality(s) = n => f[s] = g[s]}
<1>0. \A s \in SUBSET A : IsFiniteSet(s) /\ Cardinality(s) \in Nat
  BY FS_Subset, FS_CardinalityType
<1>1. \A s \in SUBSET A : f[s] = SumStep(w, f, s) /\ g[s] = SumStep(v, g, s)
  BY DEF Sums
<1>2. 0 \in D
  BY <1>0, <1>1, FS_EmptySet DEF SumStep
<1>3. ASSUME NEW n \in Nat, n \in D PROVE n + 1 \in D
  <2> SUFFICES ASSUME NEW s \in SUBSET A, Cardinality(s) = n + 1 PROVE f[s] = g[s]
    OBVIOUS
  <2>1. s # {}
    BY FS_EmptySet
  <2> DEFINE x == Pick(s)
             r == s \ {x}
  <2>2. x \in s
    BY <2>1, PickIn
  <2> HIDE DEF x
  <2>3. Cardinality(r) = n /\ r \in SUBSET A
    <3>1. IsFiniteSet(s)
      BY <1>0
    <3>2. Cardinality(r) = Cardinality(s) - 1
      BY <2>2, <3>1, FS_RemoveElement
    <3> QED BY <3>2
  <2>4. f[r] = g[r] /\ w[x] = v[x]
    BY <1>3, <2>2, <2>3
  <2> QED BY <1>1, <2>1, <2>4 DEF SumStep, x
<1> HIDE DEF D
<1>4. Cardinality(A) \in D
  BY <1>0, <1>2, <1>3, SetInduction
<1> QED BY <1>4 DEF D

(* Sum, by the recursion.                                                  *)
LEMMA SumIs ==
  ASSUME NEW S, IsFiniteSet(S), NEW w
  PROVE  \E f : Sums(f, w, S) /\ Sum(w, S) = f[S]
<1> DEFINE f == CHOOSE f : Sums(f, w, S)
<1>1. Sums(f, w, S)
  BY SumExists
<1>2. Sum(w, S) = f[S]
  BY DEF Sum
<1> HIDE DEF f
<1> QED BY <1>1, <1>2

(* The sum over nothing is 0.                                              *)
LEMMA SumEmpty ==
  ASSUME NEW w
  PROVE  Sum(w, {}) = 0
<1>1. PICK f : Sums(f, w, {}) /\ Sum(w, {}) = f[{}]
  BY SumIs, FS_EmptySet
<1> QED BY <1>1 DEF Sums, SumStep

(* Which weights there are besides does not matter.                        *)
LEMMA SumAgree ==
  ASSUME NEW S, IsFiniteSet(S), NEW w, NEW v, \A x \in S : w[x] = v[x]
  PROVE  Sum(w, S) = Sum(v, S)
<1>1. PICK f : Sums(f, w, S) /\ Sum(w, S) = f[S]
  BY SumIs
<1>2. PICK g : Sums(g, v, S) /\ Sum(v, S) = g[S]
  BY SumIs
<1>3. f[S] = g[S]
  BY <1>1, <1>2, SumsAgree
<1> QED BY <1>1, <1>2, <1>3

(* A part of a sum is the sum of the part.                                 *)
LEMMA SumOfPart ==
  ASSUME NEW S, IsFiniteSet(S), NEW w, NEW f, Sums(f, w, S), NEW A \in SUBSET S
  PROVE  f[A] = Sum(w, A)
<1>1. IsFiniteSet(A)
  BY FS_Subset
<1>2. PICK g : Sums(g, w, A) /\ Sum(w, A) = g[A]
  BY <1>1, SumIs
<1>3. f[A] = g[A]
  BY <1>1, <1>2, SumsAgree
<1> QED BY <1>2, <1>3

(* The picked element first.                                               *)
LEMMA SumPicked ==
  ASSUME NEW S, IsFiniteSet(S), S # {}, NEW w
  PROVE  Sum(w, S) = w[Pick(S)] + Sum(w, S \ {Pick(S)})
<1>1. PICK f : Sums(f, w, S) /\ Sum(w, S) = f[S]
  BY SumIs
<1>2. f[S \ {Pick(S)}] = Sum(w, S \ {Pick(S)})
  BY <1>1, SumOfPart
<1>3. f[S] = SumStep(w, f, S)
  BY <1>1 DEF Sums
<1> QED BY <1>1, <1>2, <1>3 DEF SumStep

(* A sum of natural numbers is one.                                        *)
LEMMA SumType ==
  ASSUME NEW S, IsFiniteSet(S), NEW w, \A x \in S : w[x] \in Nat
  PROVE  Sum(w, S) \in Nat
<1> DEFINE D == {n \in Nat : \A s \in SUBSET S : Cardinality(s) = n => Sum(w, s) \in Nat}
<1>0. \A s \in SUBSET S : IsFiniteSet(s) /\ Cardinality(s) \in Nat
  BY FS_Subset, FS_CardinalityType
<1>1. 0 \in D
  BY <1>0, SumEmpty, FS_EmptySet
<1>2. ASSUME NEW n \in Nat, n \in D PROVE n + 1 \in D
  <2> SUFFICES ASSUME NEW s \in SUBSET S, Cardinality(s) = n + 1 PROVE Sum(w, s) \in Nat
    OBVIOUS
  <2>0. IsFiniteSet(s) /\ s # {}
    BY <1>0, FS_EmptySet
  <2> DEFINE x == Pick(s)
             r == s \ {x}
  <2>1. x \in s
    BY <2>0, PickIn
  <2>2. Sum(w, s) = w[x] + Sum(w, r)
    BY <2>0, SumPicked
  <2> HIDE DEF x
  <2>3. Cardinality(r) = Cardinality(s) - 1
    BY <2>0, <2>1, FS_RemoveElement
  <2>4. Cardinality(r) = n /\ r \in SUBSET S
    BY <2>3
  <2>5. Sum(w, r) \in Nat
    BY <1>2, <2>4
  <2>6. w[x] \in Nat
    BY <2>1
  <2> HIDE DEF r
  <2> QED BY <2>2, <2>5, <2>6
<1> HIDE DEF D
<1>3. Cardinality(S) \in D
  BY <1>0, <1>1, <1>2, SetInduction
<1> QED BY <1>3 DEF D

(* Any element first.                                                      *)
LEMMA SumAny ==
  ASSUME NEW S, IsFiniteSet(S), NEW w, \A x \in S : w[x] \in Nat, NEW y \in S
  PROVE  Sum(w, S) = w[y] + Sum(w, S \ {y})
<1> DEFINE D == {n \in Nat : \A s \in SUBSET S : Cardinality(s) = n =>
                   \A e \in s : Sum(w, s) = w[e] + Sum(w, s \ {e})}
<1>0. \A s \in SUBSET S : IsFiniteSet(s) /\ Cardinality(s) \in Nat /\ Sum(w, s) \in Nat
  <2> SUFFICES ASSUME NEW s \in SUBSET S PROVE IsFiniteSet(s) /\ Cardinality(s) \in Nat /\ Sum(w, s) \in Nat
    OBVIOUS
  <2>1. IsFiniteSet(s) /\ \A x \in s : w[x] \in Nat
    BY FS_Subset
  <2> QED BY <2>1, FS_CardinalityType, SumType
<1>1. 0 \in D
  BY <1>0, FS_EmptySet
<1>2. ASSUME NEW n \in Nat, n \in D PROVE n + 1 \in D
  <2> SUFFICES ASSUME NEW s \in SUBSET S, Cardinality(s) = n + 1, NEW e \in s
               PROVE  Sum(w, s) = w[e] + Sum(w, s \ {e})
    OBVIOUS
  <2> DEFINE x == Pick(s)
             r == s \ {x}
             q == s \ {e}
             both == r \ {e}
  <2>1. x \in s /\ IsFiniteSet(s) /\ s # {}
    BY <1>0, PickIn
  <2>2. Sum(w, s) = w[x] + Sum(w, r)
    BY <2>1, SumPicked
  <2> HIDE DEF x
  <2>3. CASE e = x
    BY <2>2, <2>3
  <2>4. CASE e # x
    <3>1. e \in r /\ x \in q /\ both = q \ {x} /\ r \in SUBSET S /\ q \in SUBSET S /\ both \in SUBSET S
      BY <2>1, <2>4
    <3>2. Cardinality(r) = Cardinality(s) - 1 /\ Cardinality(q) = Cardinality(s) - 1
      BY <2>1, FS_RemoveElement
    <3>3. Cardinality(r) = n /\ Cardinality(q) = n
      BY <3>2
    <3>4. Sum(w, r) = w[e] + Sum(w, both)
      BY <1>2, <3>1, <3>3
    <3>5. Sum(w, q) = w[x] + Sum(w, q \ {x})
      BY <1>2, <3>1, <3>3
    <3>6. w[x] \in Nat /\ w[e] \in Nat /\ Sum(w, both) \in Nat
      BY <1>0, <2>1, <3>1
    <3>7. Sum(w, q) = w[x] + Sum(w, both)
      BY <3>1, <3>5
    <3> HIDE DEF r, q, both
    <3> QED BY <2>2, <3>4, <3>6, <3>7 DEF q
  <2> QED BY <2>3, <2>4
<1> HIDE DEF D
<1>3. Cardinality(S) \in D
  BY <1>0, <1>1, <1>2, SetInduction
<1> QED BY <1>3 DEF D

(* One more.                                                               *)
LEMMA SumAdd ==
  ASSUME NEW S, IsFiniteSet(S), NEW w, \A x \in S : w[x] \in Nat, NEW y, y \notin S, w[y] \in Nat
  PROVE  Sum(w, S \cup {y}) = Sum(w, S) + w[y]
<1>1. IsFiniteSet(S \cup {y}) /\ \A x \in S \cup {y} : w[x] \in Nat
  BY FS_AddElement
<1>2. Sum(w, S \cup {y}) = w[y] + Sum(w, (S \cup {y}) \ {y})
  BY <1>1, SumAny
<1>3. (S \cup {y}) \ {y} = S
  OBVIOUS
<1>4. Sum(w, S \cup {y}) = w[y] + Sum(w, S)
  BY <1>2, <1>3
<1>5. Sum(w, S) \in Nat
  BY SumType
<1> QED BY <1>4, <1>5

(* The sum of two sets that share nothing.                                 *)
LEMMA SumUnion ==
  ASSUME NEW S, IsFiniteSet(S), NEW T, IsFiniteSet(T), S \cap T = {},
         NEW w, \A x \in S \cup T : w[x] \in Nat
  PROVE  Sum(w, S \cup T) = Sum(w, S) + Sum(w, T)
<1> DEFINE D == {n \in Nat : \A s \in SUBSET T : Cardinality(s) = n =>
                   Sum(w, S \cup s) = Sum(w, S) + Sum(w, s)}
<1>0. \A s \in SUBSET T : /\ IsFiniteSet(s) /\ Cardinality(s) \in Nat /\ Sum(w, s) \in Nat
                          /\ IsFiniteSet(S \cup s) /\ Sum(w, S \cup s) \in Nat
  <2> SUFFICES ASSUME NEW s \in SUBSET T
               PROVE  /\ IsFiniteSet(s) /\ Cardinality(s) \in Nat /\ Sum(w, s) \in Nat
                      /\ IsFiniteSet(S \cup s) /\ Sum(w, S \cup s) \in Nat
    OBVIOUS
  <2>1. IsFiniteSet(s) /\ \A x \in s : w[x] \in Nat
    BY FS_Subset
  <2>2. IsFiniteSet(S \cup s) /\ \A x \in S \cup s : w[x] \in Nat
    BY <2>1, FS_Union
  <2> QED BY <2>1, <2>2, FS_CardinalityType, SumType
<1>00. Sum(w, S) \in Nat
  BY SumType
<1>1. 0 \in D
  <2> SUFFICES ASSUME NEW s \in SUBSET T, Cardinality(s) = 0 PROVE Sum(w, S \cup s) = Sum(w, S) + Sum(w, s)
    OBVIOUS
  <2>1. s = {}
    BY <1>0, FS_EmptySet
  <2>2. S \cup s = S
    BY <2>1
  <2> QED BY <1>00, <2>1, <2>2, SumEmpty
<1>2. ASSUME NEW n \in Nat, n \in D PROVE n + 1 \in D
  <2> SUFFICES ASSUME NEW s \in SUBSET T, Cardinality(s) = n + 1
               PROVE  Sum(w, S \cup s) = Sum(w, S) + Sum(w, s)
    OBVIOUS
  <2>1. PICK e : e \in s
    BY <1>0, FS_EmptySet
  <2> DEFINE r == s \ {e}
  <2>2. IsFiniteSet(s) /\ IsFiniteSet(r) /\ IsFiniteSet(S \cup r)
    BY <1>0
  <2>3. Cardinality(r) = Cardinality(s) - 1
    BY <2>1, <2>2, FS_RemoveElement
  <2>4. Cardinality(r) = n /\ r \in SUBSET T
    BY <2>3
  <2>5. Sum(w, S \cup r) = Sum(w, S) + Sum(w, r)
    BY <1>2, <2>4
  <2>6. Sum(w, r \cup {e}) = Sum(w, r) + w[e]
    <3>1. e \notin r /\ w[e] \in Nat /\ \A x \in r : w[x] \in Nat
      BY <2>1
    <3> HIDE DEF r
    <3> QED BY <2>2, <3>1, SumAdd
  <2>7. Sum(w, (S \cup r) \cup {e}) = Sum(w, S \cup r) + w[e]
    <3> DEFINE q == S \cup r
    <3>1. e \notin q /\ w[e] \in Nat /\ \A x \in q : w[x] \in Nat
      BY <2>1
    <3>2. IsFiniteSet(q)
      BY <2>2
    <3> HIDE DEF q
    <3>3. Sum(w, q \cup {e}) = Sum(w, q) + w[e]
      BY <3>1, <3>2, SumAdd
    <3> QED BY <3>3 DEF q
  <2>8. s = r \cup {e} /\ S \cup s = (S \cup r) \cup {e}
    BY <2>1
  <2>9. w[e] \in Nat /\ Sum(w, r) \in Nat
    BY <1>0, <2>1, <2>4
  <2> HIDE DEF r
  <2> QED BY <1>00, <2>5, <2>6, <2>7, <2>8, <2>9
<1> HIDE DEF D
<1>3. Cardinality(T) \in D
  BY <1>0, <1>1, <1>2, SetInduction
<1> QED BY <1>3 DEF D

(* A part weighs no more than the whole, and an element no more than it.   *)
LEMMA SumPart ==
  ASSUME NEW S, IsFiniteSet(S), NEW w, \A x \in S : w[x] \in Nat, NEW A \in SUBSET S
  PROVE  Sum(w, A) <= Sum(w, S) /\ Sum(w, A) \in Nat /\ Sum(w, S) \in Nat
<1>1. IsFiniteSet(A) /\ IsFiniteSet(S \ A) /\ A \cap (S \ A) = {} /\ S = A \cup (S \ A)
  BY FS_Subset
<1> DEFINE B == S \ A
<1>2. \A x \in A \cup B : w[x] \in Nat
  OBVIOUS
<1> HIDE DEF B
<1>3. Sum(w, A \cup B) = Sum(w, A) + Sum(w, B)
  BY <1>1, <1>2, SumUnion DEF B
<1>4. Sum(w, A) \in Nat /\ Sum(w, B) \in Nat /\ S = A \cup B
  BY <1>1, <1>2, SumType DEF B
<1> QED BY <1>3, <1>4

(* Total and count are sums, and so is whatever MapThenSumSet maps.        *)
LEMMA TotalIsSum ==
  ASSUME NEW es, IsFiniteSet(es), NEW w, \A e \in es : w[e] = e.value
  PROVE  LeapArray!Total(es) = Sum(w, es)
<1> DEFINE Is(f) == f = [s \in SUBSET es |-> IF s = {} THEN 0 ELSE Pick(s).value + f[s \ {Pick(s)}]]
           it == CHOOSE f : Is(f)
<1>1. LeapArray!Total(es) = it[es]
  BY DEF LeapArray!Total, LeapArray!MapThenSumSet, LeapArray!MapThenFoldSet, Pick
<1>2. \A f : Is(f) <=> Sums(f, w, es)
  <2>1. \A f : \A s \in SUBSET es :
          SumStep(w, f, s) = IF s = {} THEN 0 ELSE Pick(s).value + f[s \ {Pick(s)}]
    BY PickIn DEF SumStep
  <2> QED BY <2>1 DEF Sums
<1>3. Is(it)
  <2>1. \E f : Is(f)
    BY <1>2, SumExists
  <2> HIDE DEF Is
  <2> QED BY <2>1
<1>4. PICK g : Sums(g, w, es) /\ Sum(w, es) = g[es]
  BY SumIs
<1>5. it[es] = g[es]
  <2>1. Sums(it, w, es)
    BY <1>2, <1>3
  <2> HIDE DEF it
  <2> QED BY <1>4, <2>1, SumsAgree
<1> QED BY <1>1, <1>4, <1>5

(* So is the count of what a reader has taken.                             *)
LEMMA CountIsSum ==
  ASSUME NEW bs, IsFiniteSet(bs), NEW w, \A b \in bs : w[b] = b.mb.count
  PROVE  LeapArray!count(bs) = Sum(w, bs)
<1> DEFINE Is(f) == f = [s \in SUBSET bs |-> IF s = {} THEN 0 ELSE Pick(s).mb.count + f[s \ {Pick(s)}]]
           it == CHOOSE f : Is(f)
<1>1. LeapArray!count(bs) = it[bs]
  BY DEF LeapArray!count, LeapArray!MapThenSumSet, LeapArray!MapThenFoldSet, Pick
<1>2. \A f : Is(f) <=> Sums(f, w, bs)
  <2>1. \A f : \A s \in SUBSET bs :
          SumStep(w, f, s) = IF s = {} THEN 0 ELSE Pick(s).mb.count + f[s \ {Pick(s)}]
    BY PickIn DEF SumStep
  <2> QED BY <2>1 DEF Sums
<1>3. Is(it)
  <2>1. \E f : Is(f)
    BY <1>2, SumExists
  <2> HIDE DEF Is
  <2> QED BY <2>1
<1>4. PICK g : Sums(g, w, bs) /\ Sum(w, bs) = g[bs]
  BY SumIs
<1>5. it[bs] = g[bs]
  <2>1. Sums(it, w, bs)
    BY <1>2, <1>3
  <2> HIDE DEF it
  <2> QED BY <1>4, <2>1, SumsAgree
<1> QED BY <1>1, <1>4, <1>5

(* What is in a bucket, or in the history.                                 *)
Weights(es) == \A e \in es : e.value \in Nat
Counts(bs) == \A b \in bs : b.mb.count \in Nat

(* An event more adds its value to the total.                              *)
LEMMA TotalAdd ==
  ASSUME NEW es, IsFiniteSet(es), Weights(es), NEW e, e \notin es, e.value \in Nat
  PROVE  /\ LeapArray!Total(es \cup {e}) = LeapArray!Total(es) + e.value
         /\ LeapArray!Total(es) \in Nat
<1> DEFINE w == [x \in es \cup {e} |-> x.value]
           all == es \cup {e}
<1>1. IsFiniteSet(all) /\ \A x \in all : w[x] = x.value /\ w[x] \in Nat
  BY FS_AddElement DEF Weights
<1>2. w[e] = e.value /\ \A x \in es : w[x] = x.value /\ w[x] \in Nat
  BY DEF Weights
<1> HIDE DEF w, all
<1>3. LeapArray!Total(es) = Sum(w, es) /\ LeapArray!Total(all) = Sum(w, all)
  BY <1>1, <1>2, TotalIsSum
<1>4. Sum(w, es \cup {e}) = Sum(w, es) + w[e]
  BY <1>2, SumAdd
<1>5. Sum(w, es) \in Nat
  BY <1>2, SumType
<1> QED BY <1>2, <1>3, <1>4, <1>5 DEF all

(* A part of the events has no more than all of them.                      *)
LEMMA TotalPart ==
  ASSUME NEW es, IsFiniteSet(es), Weights(es), NEW part \in SUBSET es
  PROVE  /\ LeapArray!Total(part) <= LeapArray!Total(es)
         /\ LeapArray!Total(part) \in Nat /\ LeapArray!Total(es) \in Nat
<1> DEFINE w == [x \in es |-> x.value]
<1>1. \A x \in es : w[x] = x.value /\ w[x] \in Nat
  BY DEF Weights
<1> HIDE DEF w
<1>2. IsFiniteSet(part) /\ \A x \in part : w[x] = x.value
  BY <1>1, FS_Subset
<1>3. LeapArray!Total(es) = Sum(w, es) /\ LeapArray!Total(part) = Sum(w, part)
  BY <1>1, <1>2, TotalIsSum
<1>4. Sum(w, part) <= Sum(w, es) /\ Sum(w, part) \in Nat /\ Sum(w, es) \in Nat
  BY <1>1, SumPart
<1> QED BY <1>3, <1>4

(* Events of two sets that share none add up.                              *)
LEMMA TotalUnion ==
  ASSUME NEW es, IsFiniteSet(es), Weights(es), NEW fs, IsFiniteSet(fs), Weights(fs), es \cap fs = {}
  PROVE  LeapArray!Total(es \cup fs) = LeapArray!Total(es) + LeapArray!Total(fs)
<1> DEFINE w == [x \in es \cup fs |-> x.value]
           all == es \cup fs
<1>1. IsFiniteSet(all) /\ \A x \in all : w[x] = x.value /\ w[x] \in Nat
  BY FS_Union DEF Weights
<1>2. \A x \in es \cup fs : w[x] = x.value /\ w[x] \in Nat
  BY DEF Weights
<1> HIDE DEF w, all
<1>3. LeapArray!Total(es) = Sum(w, es) /\ LeapArray!Total(fs) = Sum(w, fs) /\ LeapArray!Total(all) = Sum(w, all)
  BY <1>1, <1>2, TotalIsSum
<1>4. Sum(w, es \cup fs) = Sum(w, es) + Sum(w, fs)
  BY <1>2, SumUnion
<1> QED BY <1>3, <1>4 DEF all

(* An event weighs no more than all of them.                               *)
LEMMA TotalMember ==
  ASSUME NEW es, IsFiniteSet(es), Weights(es), NEW e \in es
  PROVE  e.value <= LeapArray!Total(es)
<1> DEFINE w == [x \in es |-> x.value]
<1>1. \A x \in es : w[x] = x.value /\ w[x] \in Nat
  BY DEF Weights
<1>2. w[e] = e.value
  OBVIOUS
<1> HIDE DEF w
<1>3. LeapArray!Total(es) = Sum(w, es)
  BY <1>1, TotalIsSum
<1>4. Sum(w, es) = w[e] + Sum(w, es \ {e})
  BY <1>1, SumAny
<1>5. Sum(w, es \ {e}) \in Nat /\ e.value \in Nat
  BY <1>1, SumPart DEF Weights
<1> QED BY <1>2, <1>3, <1>4, <1>5

(* Without events, and without buckets, there is nothing to count.         *)
LEMMA TotalEmpty == LeapArray!Total({}) = 0 /\ LeapArray!count({}) = 0
<1>1. IsFiniteSet({})
  BY FS_EmptySet
<1>2. LeapArray!Total({}) = Sum([x \in {} |-> 0], {}) /\ LeapArray!count({}) = Sum([x \in {} |-> 0], {})
  BY <1>1, TotalIsSum, CountIsSum
<1> QED BY <1>2, SumEmpty

(* A bucket more adds its count.                                           *)
LEMMA CountAdd ==
  ASSUME NEW bs, IsFiniteSet(bs), Counts(bs), NEW b, b \notin bs, b.mb.count \in Nat
  PROVE  /\ LeapArray!count(bs \cup {b}) = LeapArray!count(bs) + b.mb.count
         /\ LeapArray!count(bs) \in Nat
<1> DEFINE w == [x \in bs \cup {b} |-> x.mb.count]
           all == bs \cup {b}
<1>1. IsFiniteSet(all) /\ \A x \in all : w[x] = x.mb.count /\ w[x] \in Nat
  BY FS_AddElement DEF Counts
<1>2. w[b] = b.mb.count /\ \A x \in bs : w[x] = x.mb.count /\ w[x] \in Nat
  BY DEF Counts
<1> HIDE DEF w, all
<1>3. LeapArray!count(bs) = Sum(w, bs) /\ LeapArray!count(all) = Sum(w, all)
  BY <1>1, <1>2, CountIsSum
<1>4. Sum(w, bs \cup {b}) = Sum(w, bs) + w[b]
  BY <1>2, SumAdd
<1>5. Sum(w, bs) \in Nat
  BY <1>2, SumType
<1> QED BY <1>2, <1>3, <1>4, <1>5 DEF all

(* A bucket has no more than all of them.                                  *)
LEMMA CountMember ==
  ASSUME NEW bs, IsFiniteSet(bs), Counts(bs), NEW b \in bs
  PROVE  b.mb.count <= LeapArray!count(bs) /\ LeapArray!count(bs) \in Nat
<1> DEFINE w == [x \in bs |-> x.mb.count]
<1>1. \A x \in bs : w[x] = x.mb.count /\ w[x] \in Nat
  BY DEF Counts
<1>2. w[b] = b.mb.count /\ w[b] \in Nat
  BY <1>1
<1> HIDE DEF w
<1>3. LeapArray!count(bs) = Sum(w, bs)
  BY <1>1, CountIsSum
<1>4. Sum(w, bs) = w[b] + Sum(w, bs \ {b})
  BY <1>1, SumAny
<1>5. Sum(w, bs \ {b}) \in Nat
  BY <1>1, SumPart
<1> QED BY <1>2, <1>3, <1>4, <1>5

-----------------------------------------------------------------------------
(* The sliding window (module LeapArray).                                  *)

Buckets == LeapArray!Buckets
idx(t) == LeapArray!calculateTimeIdx(t)
cst(t) == LeapArray!calculateStartTime(t)

(* Min finds a least element of natural numbers.                           *)
LEMMA LeastIs ==
  ASSUME NEW S \in SUBSET Nat, S # {}
  PROVE  LeapArray!Min(S) \in S /\ \A y \in S : LeapArray!Min(S) <= y
<1>1. PICK m \in S : \A k \in S : <<k, m>> \notin OpToRel(<, Nat)
  BY WFMin, NatLessThanWellFounded, Zenon
<1>2. \A k \in S : ~(k < m)
  BY <1>1, Zenon DEF OpToRel
<1>3. \A k \in S : m <= k
  BY <1>2
<1>4. \E m1 \in S : \A k \in S : m1 <= k
  BY <1>3
<1> QED BY <1>4 DEF LeapArray!Min

(* Of numbers that have a bound one is the greatest.                       *)
LEMMA GreatestIs ==
  ASSUME NEW S \in SUBSET Nat, S # {}, NEW bound \in Nat, \A y \in S : y <= bound
  PROVE  LeapArray!Max(S) \in S /\ \A y \in S : y <= LeapArray!Max(S)
<1> DEFINE above == {n \in Nat : \A y \in S : y <= n}
           m == LeapArray!Min(above)
<1>1. m \in above /\ \A n \in above : m <= n
  BY LeastIs
<1> HIDE DEF m
<1>2. m \in S
  <2> SUFFICES ASSUME m \notin S PROVE FALSE
    OBVIOUS
  <2>1. m \in Nat /\ \A y \in S : y <= m /\ y # m /\ y \in Nat
    BY <1>1
  <2>2. m # 0
    <3>1. PICK y : y \in S
      OBVIOUS
    <3> QED BY <2>1, <3>1
  <2>3. m - 1 \in above
    BY <2>1, <2>2
  <2>4. ~(m <= m - 1)
    BY <2>1
  <2> HIDE DEF above
  <2> QED BY <1>1, <2>3, <2>4
<1>3. \E x \in S : \A y \in S : x >= y
  BY <1>1, <1>2
<1>4. LeapArray!Max(S) \in S /\ \A y \in S : LeapArray!Max(S) >= y
  BY <1>3 DEF LeapArray!Max
<1> QED BY <1>4

(* Max of two numbers is the greater.                                      *)
LEMMA GreatestOfTwoIs ==
  ASSUME NEW n \in Nat, NEW m \in Nat
  PROVE  LeapArray!Max({n, m}) = IF n >= m THEN n ELSE m
<1>1. \A y \in {n, m} : y <= n + m
  OBVIOUS
<1>2. LeapArray!Max({n, m}) \in {n, m} /\ \A y \in {n, m} : y <= LeapArray!Max({n, m})
  <2> DEFINE S == {n, m}
             b == n + m
  <2>1. S \in SUBSET Nat /\ S # {} /\ b \in Nat /\ \A y \in S : y <= b
    OBVIOUS
  <2> HIDE DEF S, b
  <2>2. LeapArray!Max(S) \in S /\ \A y \in S : y <= LeapArray!Max(S)
    BY <2>1, GreatestIs
  <2> QED BY <2>2 DEF S
<1> QED BY <1>2

(* Quotient and remainder.                                                 *)
LEMMA Division ==
  ASSUME NEW n \in Int, NEW m \in Int, m > 0
  PROVE  /\ n % m \in 0 .. (m - 1) /\ n \div m \in Int
         /\ n = m * (n \div m) + (n % m)
<1>1. n \div m \in Int
  OBVIOUS
<1>2. n % m \in 0 .. (m - 1)
  OBVIOUS
<1>3. n = m * (n \div m) + (n % m)
  OBVIOUS
<1> QED BY <1>1, <1>2, <1>3, Zenon

(* A quotient and a remainder are those of the number they make.           *)
LEMMA Quotient ==
  ASSUME NEW q \in Int, NEW m \in Nat \ {0}, NEW r \in 0 .. (m - 1)
  PROVE  (m * q + r) \div m = q /\ (m * q + r) % m = r
OBVIOUS

(* calculateStartTime goes back to the start of a bucket, that of the      *)
(* index which calculateTimeIdx gives.                                     *)
LEMMA StartOf ==
  ASSUME WindowBounds, NEW t \in Nat
  PROVE  /\ cst(t) \in Nat /\ cst(t) <= t /\ idx(t) \in Buckets
         /\ idx(cst(t)) = idx(t) /\ cst(t) % BucketLength = 0
<1> DEFINE q == t \div BucketLength
           r == t % BucketLength
<1>1. r \in 0 .. (BucketLength - 1) /\ q \in Int /\ t = BucketLength * q + r
  BY Division DEF WindowBounds
<1>2. q \in Nat
  BY DEF WindowBounds
<1>3. cst(t) = t - r /\ idx(t) = q % SampleCount
  BY DEF cst, idx, LeapArray!calculateStartTime, LeapArray!calculateTimeIdx
<1> HIDE DEF q, r
<1>4. BucketLength * q \in Int
  BY <1>2 DEF WindowBounds
<1> DEFINE p == BucketLength * q
<1>5. t = p + r /\ p \in Int /\ t - r = p
  BY <1>1, <1>4
<1>6. p \div BucketLength = q /\ p % BucketLength = 0
  <2>1. 0 \in 0 .. (BucketLength - 1)
    BY DEF WindowBounds
  <2>2. (BucketLength * q + 0) \div BucketLength = q /\ (BucketLength * q + 0) % BucketLength = 0
    BY <1>2, <2>1, Quotient DEF WindowBounds
  <2> QED BY <2>2, <1>4
<1>7. p >= 0
  BY <1>2 DEF WindowBounds
<1> HIDE DEF p
<1>8. cst(t) = p
  BY <1>3, <1>5
<1>9. idx(p) = q % SampleCount
  BY <1>6 DEF idx, LeapArray!calculateTimeIdx
<1>10. q % SampleCount \in Buckets
  BY <1>2, Division DEF Buckets, LeapArray!Buckets, WindowBounds
<1> QED BY <1>1, <1>3, <1>5, <1>6, <1>7, <1>8, <1>9, <1>10

(* Where a goroutine is in a call.                                         *)
Finding == {"eq", "gt", "lt", "lock", "store", "value", "unlock"}
Resetting == {"store", "value", "unlock"}
LoadedAt == {"add", "compare", "keep"}
Recording == LoadedAt \cup {"load"}
Reading == {"scan", "group", "read"}
WindowLabels == {"out"} \cup Finding \cup Recording \cup Reading

MetricBuckets == [count : Nat, minRt : Nat, maxConcurrency : Nat]
Takings == [of : Buckets, sec : Int, mb : MetricBuckets]
WindowCalls ==
  [pc : WindowLabels, op : {"none"} \cup LeapArray!Writes \cup LeapArray!Reads, value : Nat,
   time : Int, old : BOOLEAN, from : Int, to : Int, span : Int,
   left : SUBSET Buckets, picked : SUBSET Buckets, secs : [Buckets -> Int],
   taken : SUBSET Takings, torn : BOOLEAN]

(* Which operations are where, and what they carry.                        *)
CallOK(c) ==
  /\ c \in WindowCalls /\ IsFiniteSet(c.taken)
  /\ c.pc = "out" <=> c.op = "none"
  /\ c.pc \in Finding => c.op \in LeapArray!Writes \cup {"values"} /\ c.time \in Nat
  /\ c.pc \in Recording => c.op \in LeapArray!Writes /\ c.time \in Nat
  /\ c.pc = "add" => c.op = "pass"
  /\ c.pc \in {"compare", "keep"} => c.op # "pass"
  /\ c.pc \in Reading => c.op \in LeapArray!Reads
  /\ c.pc = "group" => c.op = "seconds"
  /\ c.pc # "read" => c.taken = {}
  /\ c.pc \in Finding \cup {"read"} => c.picked = {}
  /\ c.pc \notin LoadedAt => c.old = FALSE
  /\ c.op = "window" => c.from = cst(c.time) - c.span + BucketLength

EventOK(e) == e.value \in Nat /\ e.time \in Nat /\ e.at \in Nat

(* The events of a bucket from a time on, and a MetricBucket with no more  *)
(* in it than these.                                                       *)
EventsOf(es, i, low) == {e \in es : e.op = "pass" /\ e.at >= low /\ idx(e.time) = i}
ValuesOf(es, op, low) == {e.value : e \in {x \in es : x.op = op /\ x.at >= low}}
Within(mb, i, low, es) ==
  /\ mb.count <= LeapArray!Total(EventsOf(es, i, low))
  /\ mb.minRt \in {MaxRt} \cup ValuesOf(es, "rt", low)
  /\ mb.maxConcurrency \in {0} \cup ValuesOf(es, "concurrency", low)
Sound(i, low) == LeapArray!HalfReset(i) \/ Within(bucket[i], i, low, events)

(* A bucket has nothing in it from before its start; one that starts in    *)
(* the future has nothing in it.                                           *)
BucketsInv ==
  /\ \A i \in Buckets : \/ start[i] <= time /\ Sound(i, start[i])
                        \/ bucket[i] = LeapArray!NewMetricBucket
  /\ SampleCount = 1 => \A i \in Buckets : start[i] <= time

(* What a reader has looked at, or is to take, is in its window; what it   *)
(* has taken was so, unless it was torn.                                   *)
LowOf(c) ==
  IF c.op = "values" THEN c.time - LeapArray!Interval
  ELSE IF c.op = "seconds" THEN c.from
  ELSE cst(c.time) + BucketLength - c.span
Seen(c) == IF c.pc = "scan" THEN c.picked ELSE c.left \cup c.picked
Grouped(c) == IF c.pc = "group" THEN c.picked ELSE IF c.op = "seconds" THEN c.left ELSE {}
Ahead(c) ==
  /\ \A i \in Seen(c) : start[i] <= time /\ LowOf(c) <= time /\ Sound(i, LowOf(c))
  /\ c.pc # "scan" => \A i \in Grouped(c) : c.secs[i] <= time /\ Sound(i, c.secs[i])
Behind(c, es) ==
  /\ \A b \in c.taken : b.of \notin c.left
  /\ \A b1, b2 \in c.taken : b1.of = b2.of => b1 = b2
  /\ c.torn = FALSE => \A b \in c.taken : /\ Within(b.mb, b.of, LowOf(c), es)
                                          /\ c.op = "seconds" => Within(b.mb, b.of, b.sec, es)
ReaderOK(g) == call[g].pc \in Reading => Ahead(call[g]) /\ Behind(call[g], events)

(* Who resets a bucket holds the lock, and has given it its start.         *)
ResetterOK(g) ==
  /\ call[g].pc \in Resetting <=> lock = g
  /\ call[g].pc \in {"value", "unlock"} => start[LeapArray!Idx(g)] = LeapArray!bucketStart(g)

(* Who records has found a bucket that has begun.                          *)
WriterOK(g) ==
  call[g].pc \in Recording =>
    /\ start[LeapArray!Idx(g)] <= time
    /\ lost = FALSE =>
         /\ start[LeapArray!Idx(g)] >= LeapArray!bucketStart(g)
         /\ call[g].pc \in LoadedAt /\ (call[g].old = TRUE \/ LeapArray!HalfReset(LeapArray!Idx(g)))
            => start[LeapArray!Idx(g)] > LeapArray!bucketStart(g)

(* Unless something slipped, a bucket has what was recorded for its start, *)
(* while its start is new this is nothing, and nothing was recorded for a  *)
(* later start.                                                            *)
EventsAt(i) == {e \in events : e.op = "pass" /\ cst(e.time) = start[i]}
ExactInv ==
  lost = FALSE =>
    /\ \A i \in Buckets : LeapArray!HalfReset(i) \/ bucket[i].count = LeapArray!Total(EventsAt(i))
    /\ \A i \in Buckets : LeapArray!HalfReset(i) => EventsAt(i) = {}
    /\ \A e \in events : e.op = "pass" => cst(e.time) <= start[idx(e.time)]

WindowTypes ==
  /\ time \in Nat /\ WindowStart <= time /\ lost \in BOOLEAN
  /\ start \in [Buckets -> Nat] /\ \A i \in Buckets : idx(start[i]) = i
  /\ bucket \in [Buckets -> MetricBuckets]
  /\ IsFiniteSet(events) /\ \A e \in events : EventOK(e)
  /\ Cardinality(events) + LeapArray!Pending <= MaxEvents
  /\ DOMAIN call = Goroutines /\ call = [g \in Goroutines |-> call[g]]

GoroutineOK(g) ==
  /\ CallOK(call[g]) /\ call[g].time <= time
  /\ ResetterOK(g) /\ WriterOK(g) /\ ReaderOK(g)

WindowInv ==
  /\ WindowTypes /\ BucketsInv /\ ExactInv
  /\ \A g \in Goroutines : GoroutineOK(g)

(* The sizes of sets that the module of the window knows are the sizes.    *)
LEMMA SizeIs == \A S : LeapArray!Cardinality(S) = Cardinality(S)
BY Zenon DEF LeapArray!Cardinality, LeapArray!IsFiniteSet, Cardinality, IsFiniteSet

-----------------------------------------------------------------------------
(* One goroutine goes on: the others are where they were.                  *)
LEMMA CallChanges ==
  ASSUME WindowTypes, NEW g \in Goroutines, NEW d, call' = [call EXCEPT ![g] = d]
  PROVE  /\ call'[g] = d /\ \A x \in Goroutines : x # g => call'[x] = call[x]
         /\ DOMAIN call' = Goroutines /\ call' = [x \in Goroutines |-> call'[x]]
<1>1. DOMAIN call = Goroutines
  BY DEF WindowTypes
<1> QED BY <1>1

(* Writes begin only if there is room for their events.                    *)
LEMMA PendingChanges ==
  ASSUME WindowBounds, NEW g \in Goroutines, DOMAIN call = Goroutines, DOMAIN call' = Goroutines,
         \A x \in Goroutines : x # g => call'[x] = call[x]
  PROVE  /\ LeapArray!Pending \in Nat /\ LeapArray!Pending' \in Nat
         /\ LeapArray!Pending' <= LeapArray!Pending + 1
         /\ call'[g].op \in LeapArray!Writes /\ call[g].op \in LeapArray!Writes
            => LeapArray!Pending' <= LeapArray!Pending
         /\ call'[g].op \notin LeapArray!Writes => LeapArray!Pending' <= LeapArray!Pending
         /\ call[g].op \in LeapArray!Writes => LeapArray!Pending >= 1
         /\ call[g].op \in LeapArray!Writes /\ call'[g].op \notin LeapArray!Writes
            => LeapArray!Pending' + 1 = LeapArray!Pending
<1> DEFINE P == {x \in Goroutines : call[x].op \in LeapArray!Writes}
           Q == {x \in Goroutines : call'[x].op \in LeapArray!Writes}
<1>1. IsFiniteSet(P) /\ IsFiniteSet(Q)
  BY FS_Subset DEF WindowBounds
<1>2. LeapArray!Pending = Cardinality(P) /\ LeapArray!Pending' = Cardinality(Q)
  BY SizeIs DEF LeapArray!Pending
<1>3. P \ {g} = Q \ {g}
  OBVIOUS
<1>4. /\ call[g].op \in LeapArray!Writes <=> g \in P
      /\ call'[g].op \in LeapArray!Writes <=> g \in Q
  OBVIOUS
<1> HIDE DEF P, Q
<1>5. Cardinality(P) \in Nat /\ Cardinality(Q) \in Nat
  BY <1>1, FS_CardinalityType
<1>6. Cardinality(P \ {g}) = (IF g \in P THEN Cardinality(P) - 1 ELSE Cardinality(P))
  BY <1>1, FS_RemoveElement
<1>7. Cardinality(Q \ {g}) = (IF g \in Q THEN Cardinality(Q) - 1 ELSE Cardinality(Q))
  BY <1>1, FS_RemoveElement
<1>8. Cardinality(P \ {g}) \in Nat
  BY <1>1, FS_Subset, FS_CardinalityType
<1>9. Cardinality(P \ {g}) = Cardinality(Q \ {g})
  BY <1>3
<1> DEFINE p == Cardinality(P)
           q == Cardinality(Q)
           r == Cardinality(P \ {g})
<1>10. p \in Nat /\ q \in Nat /\ r \in Nat
  BY <1>5, <1>8
<1>11. r = (IF g \in P THEN p - 1 ELSE p) /\ r = (IF g \in Q THEN q - 1 ELSE q)
  BY <1>6, <1>7, <1>9
<1> HIDE DEF p, q, r
<1>12. /\ q <= p + 1 /\ (g \in Q /\ g \in P => q <= p) /\ (g \notin Q => q <= p)
       /\ (g \in P => p >= 1) /\ (g \in P /\ g \notin Q => q + 1 = p)
  BY <1>10, <1>11
<1>13. LeapArray!Pending = p /\ LeapArray!Pending' = q
  BY <1>2 DEF p, q
<1> QED BY <1>4, <1>10, <1>12, <1>13

(* The invariant is kept by a step of one goroutine that changes nothing   *)
(* but its own call, and perhaps who holds the lock or whether something   *)
(* was lost: the goroutine has to be where it may be.                      *)
LEMMA QuietStep ==
  ASSUME WindowBounds, WindowInv, NEW g \in Goroutines, NEW d,
         UNCHANGED <<time, start, bucket, events>>, call' = [call EXCEPT ![g] = d],
         CallOK(d), d.time <= time,
         call[g].pc # "value", d.pc \notin {"value", "unlock"},
         lost' \in BOOLEAN, lost = TRUE => lost' = TRUE,
         d.op \in LeapArray!Writes =>
           call[g].op \in LeapArray!Writes \/ Cardinality(events) + LeapArray!Pending < MaxEvents,
         \/ lock' = lock /\ (d.pc \in Resetting <=> call[g].pc \in Resetting)
         \/ lock = NoGoroutine /\ lock' = g /\ d.pc \in Resetting
         \/ lock = g /\ lock' = NoGoroutine /\ d.pc \notin Resetting,
         d.pc \in Recording =>
           /\ start[idx(d.time)] <= time
           /\ lost' = FALSE =>
                /\ start[idx(d.time)] >= cst(d.time)
                /\ d.pc \in LoadedAt /\ (d.old = TRUE \/ LeapArray!HalfReset(idx(d.time)))
                   => start[idx(d.time)] > cst(d.time),
         d.pc \in Reading => Ahead(d) /\ Behind(d, events)
  PROVE  WindowInv'
<1>1. /\ call'[g] = d /\ \A x \in Goroutines : x # g => call'[x] = call[x]
      /\ DOMAIN call' = Goroutines /\ call' = [x \in Goroutines |-> call'[x]]
  BY CallChanges DEF WindowInv
<1>2. ASSUME NEW i PROVE LeapArray!HalfReset(i)' <=> LeapArray!HalfReset(i)
  BY <1>1 DEF LeapArray!HalfReset, LeapArray!Idx
<1>3. ASSUME NEW i, NEW low PROVE Sound(i, low)' <=> Sound(i, low)
  BY <1>2 DEF Sound
<1>4. WindowTypes'
  <2>1. LeapArray!Pending' <= LeapArray!Pending \/ Cardinality(events) + LeapArray!Pending < MaxEvents
    BY <1>1, PendingChanges DEF WindowInv, WindowTypes
  <2>2. /\ LeapArray!Pending \in Nat /\ LeapArray!Pending' \in Nat
        /\ LeapArray!Pending' <= LeapArray!Pending + 1
    BY <1>1, PendingChanges DEF WindowInv, WindowTypes
  <2>3. Cardinality(events) \in Nat /\ MaxEvents \in Nat
        /\ Cardinality(events) + LeapArray!Pending <= MaxEvents
    BY FS_CardinalityType DEF WindowInv, WindowTypes, WindowBounds
  <2>4. Cardinality(events) + LeapArray!Pending' <= MaxEvents
    BY <2>1, <2>2, <2>3
  <2> QED BY <1>1, <2>4 DEF WindowInv, WindowTypes
<1>5. BucketsInv'
  BY <1>3 DEF WindowInv, BucketsInv, LeapArray!NewMetricBucket
<1>6. ExactInv'
  BY <1>2 DEF WindowInv, WindowTypes, ExactInv, EventsAt
<1>7. ASSUME NEW c PROVE Ahead(c)' <=> Ahead(c)
  BY <1>3 DEF Ahead
<1>8. GoroutineOK(g)'
  <2>1. LeapArray!Idx(g)' = idx(d.time) /\ LeapArray!bucketStart(g)' = cst(d.time)
    BY <1>1 DEF LeapArray!Idx, LeapArray!bucketStart, idx, cst
  <2>2. WriterOK(g)'
    BY <1>1, <1>2, <2>1 DEF WriterOK
  <2>3. ReaderOK(g)'
    BY <1>1, <1>7 DEF ReaderOK
  <2>4. ResetterOK(g)'
    BY <1>1 DEF ResetterOK, WindowInv, GoroutineOK, Resetting, WindowBounds
  <2> QED BY <1>1, <2>2, <2>3, <2>4 DEF GoroutineOK
<1>9. ASSUME NEW x \in Goroutines, x # g PROVE GoroutineOK(x)'
  <2>0. GoroutineOK(x) /\ call'[x] = call[x]
    BY <1>1, <1>9 DEF WindowInv
  <2>1. LeapArray!Idx(x)' = LeapArray!Idx(x) /\ LeapArray!bucketStart(x)' = LeapArray!bucketStart(x)
    BY <2>0 DEF LeapArray!Idx, LeapArray!bucketStart
  <2>2. WriterOK(x)'
    <3>1. lost' = FALSE => lost = FALSE
      BY DEF WindowInv, WindowTypes
    <3> QED BY <1>2, <2>0, <2>1, <3>1 DEF WriterOK, GoroutineOK
  <2>3. ReaderOK(x)'
    BY <1>7, <2>0 DEF ReaderOK, GoroutineOK
  <2>4. ResetterOK(x)'
    <3>1. ResetterOK(x) /\ ResetterOK(g)
      BY DEF WindowInv, GoroutineOK
    <3> QED BY <1>9, <2>0, <2>1, <3>1 DEF ResetterOK, WindowBounds
  <2> QED BY <2>0, <2>2, <2>3, <2>4 DEF GoroutineOK
<1> QED BY <1>4, <1>5, <1>6, <1>8, <1>9 DEF WindowInv

-----------------------------------------------------------------------------
(* The steps that are quiet.                                               *)
LEMMA EventsPart ==
  ASSUME NEW es, IsFiniteSet(es), \A e \in es : EventOK(e), NEW i, NEW low
  PROVE  /\ EventsOf(es, i, low) \in SUBSET es
         /\ IsFiniteSet(EventsOf(es, i, low)) /\ Weights(EventsOf(es, i, low))
         /\ LeapArray!Total(EventsOf(es, i, low)) \in Nat
<1>1. EventsOf(es, i, low) \in SUBSET es
  BY DEF EventsOf
<1>2. IsFiniteSet(EventsOf(es, i, low)) /\ Weights(EventsOf(es, i, low))
  BY <1>1, FS_Subset DEF Weights, EventOK
<1> QED BY <1>1, <1>2, TotalPart

(* What was within a window is in a longer one, and after more events.     *)
LEMMA WithinMore ==
  ASSUME NEW es, IsFiniteSet(es), \A e \in es : EventOK(e), NEW fs \in SUBSET es,
         NEW i, NEW low \in Int, NEW less \in Int, less <= low,
         NEW mb \in MetricBuckets, Within(mb, i, low, fs)
  PROVE  Within(mb, i, less, es)
<1>1. EventsOf(fs, i, low) \in SUBSET EventsOf(es, i, less)
  BY DEF EventsOf, EventOK
<1>2. IsFiniteSet(EventsOf(es, i, less)) /\ Weights(EventsOf(es, i, less))
  BY EventsPart
<1>3. /\ LeapArray!Total(EventsOf(fs, i, low)) <= LeapArray!Total(EventsOf(es, i, less))
      /\ LeapArray!Total(EventsOf(fs, i, low)) \in Nat /\ LeapArray!Total(EventsOf(es, i, less)) \in Nat
  BY <1>1, <1>2, TotalPart
<1>4. \A op : ValuesOf(fs, op, low) \subseteq ValuesOf(es, op, less)
  BY DEF ValuesOf, EventOK
<1>5. mb.count \in Nat
  BY DEF MetricBuckets
<1> QED BY <1>3, <1>4, <1>5 DEF Within

(* A new MetricBucket has no more in it than what was recorded.            *)
LEMMA NothingWithin ==
  ASSUME NEW es, IsFiniteSet(es), \A e \in es : EventOK(e), NEW i, NEW low
  PROVE  Within(LeapArray!NewMetricBucket, i, low, es)
<1>1. LeapArray!Total(EventsOf(es, i, low)) \in Nat
  BY EventsPart
<1> QED BY <1>1 DEF Within, LeapArray!NewMetricBucket

(* A bucket that has begun has nothing in it from before any moment up to  *)
(* its start.                                                              *)
LEMMA SoundFrom ==
  ASSUME WindowBounds, WindowInv, NEW i \in Buckets, start[i] <= time,
         NEW low \in Int, low <= start[i]
  PROVE  Sound(i, low)
<1>1. IsFiniteSet(events) /\ (\A e \in events : EventOK(e)) /\ start[i] \in Int /\ bucket[i] \in MetricBuckets
  BY DEF WindowInv, WindowTypes
<1>2. CASE bucket[i] = LeapArray!NewMetricBucket
  BY <1>1, <1>2, NothingWithin DEF Sound
<1>3. CASE Sound(i, start[i])
  BY <1>1, <1>3, WithinMore DEF Sound
<1> QED BY <1>2, <1>3 DEF WindowInv, BucketsInv

(* A goroutine between two calls.                                          *)
LEMMA IdleIs ==
  ASSUME WindowBounds
  PROVE  /\ CallOK(LeapArray!Idle) /\ LeapArray!Idle.pc = "out" /\ LeapArray!Idle.op = "none"
         /\ LeapArray!Idle.time = WindowStart
<1>1. IsFiniteSet({})
  BY FS_EmptySet
<1>2. /\ LeapArray!Idle.pc = "out" /\ LeapArray!Idle.op = "none" /\ LeapArray!Idle.taken = {}
      /\ LeapArray!Idle.time = WindowStart /\ LeapArray!Idle.old = FALSE
  BY DEF LeapArray!Idle
<1>3. LeapArray!Idle \in WindowCalls
  BY DEF LeapArray!Idle, WindowCalls, WindowLabels, Finding, Recording, LoadedAt, Reading, WindowBounds,
         LeapArray!Interval, Buckets, LeapArray!Buckets
<1> QED BY <1>1, <1>2, <1>3 DEF CallOK, Finding, Recording, Reading, LoadedAt

(* What going from one label to another keeps.                             *)
LEMMA GoesTo ==
  ASSUME NEW c \in WindowCalls, NEW label \in WindowLabels
  PROVE  LET d == [c EXCEPT !.pc = label]
         IN /\ d \in WindowCalls /\ d.pc = label
            /\ d.op = c.op /\ d.value = c.value /\ d.time = c.time /\ d.old = c.old /\ d.from = c.from
            /\ d.to = c.to /\ d.span = c.span /\ d.left = c.left /\ d.picked = c.picked
            /\ d.secs = c.secs /\ d.taken = c.taken /\ d.torn = c.torn
BY DEF WindowCalls

(* What a goroutine is doing, and when.                                    *)
LEMMA CallIs ==
  ASSUME WindowBounds, WindowInv, NEW g \in Goroutines
  PROVE  /\ CallOK(call[g]) /\ call[g] \in WindowCalls /\ IsFiniteSet(call[g].taken)
         /\ call[g].time \in Int /\ call[g].time <= time /\ time \in Nat
         /\ lost \in BOOLEAN
         /\ lock = g <=> call[g].pc \in Resetting
BY DEF WindowInv, WindowTypes, GoroutineOK, CallOK, WindowCalls, ResetterOK

(* A goroutine goes on looking for its bucket.                             *)
LEMMA GoStep ==
  ASSUME WindowBounds, WindowInv, NEW g \in Goroutines, NEW label \in {"eq", "gt", "lt", "lock"},
         call[g].pc \in {"eq", "gt", "lt", "lock"},
         UNCHANGED <<time, start, bucket, lock, events, lost>>, LeapArray!Goto(g, label)
  PROVE  WindowInv'
<1> DEFINE c == call[g]
           d == [c EXCEPT !.pc = label]
<1>1. CallOK(c) /\ c \in WindowCalls /\ c.time <= time /\ lost \in BOOLEAN
  BY CallIs
<1>2. call' = [call EXCEPT ![g] = d]
  BY DEF LeapArray!Goto
<1>3. label \in WindowLabels
  BY DEF WindowLabels, Finding
<1>4. /\ d \in WindowCalls /\ d.pc = label
      /\ d.op = c.op /\ d.value = c.value /\ d.time = c.time /\ d.old = c.old /\ d.from = c.from
      /\ d.to = c.to /\ d.span = c.span /\ d.left = c.left /\ d.picked = c.picked
      /\ d.secs = c.secs /\ d.taken = c.taken /\ d.torn = c.torn
  BY <1>1, <1>3, GoesTo
<1>5. c.pc \in {"eq", "gt", "lt", "lock"}
  OBVIOUS
<1>6. call[g].op = c.op /\ call[g].pc = c.pc
  OBVIOUS
<1> HIDE DEF c, d
<1>7. CallOK(d)
  BY <1>1, <1>4, <1>5 DEF CallOK, Finding, Recording, Reading, LoadedAt
<1>8. d.pc \notin {"value", "unlock"} /\ d.pc \notin Resetting /\ d.pc \notin Recording
      /\ d.pc \notin Reading
  BY <1>4 DEF Resetting, Recording, Reading, LoadedAt
<1>9. c.pc \notin Resetting /\ c.pc # "value"
  BY <1>5 DEF Resetting
<1> QED BY <1>1, <1>2, <1>4, <1>6, <1>7, <1>8, <1>9, QuietStep

(* A goroutine that has found its bucket goes on to record, or to read.    *)
LEMMA FoundStep ==
  ASSUME WindowBounds, WindowInv, NEW g \in Goroutines, call[g].pc \in Finding \ {"value"},
         UNCHANGED <<time, start, bucket, events, lost>>, LeapArray!Found(g),
         \/ lock' = lock /\ call[g].pc \notin Resetting
         \/ lock = g /\ lock' = NoGoroutine,
         call[g].op \in LeapArray!Writes =>
           start[idx(call[g].time)] <= time /\ start[idx(call[g].time)] >= cst(call[g].time)
  PROVE  WindowInv'
<1> DEFINE c == call[g]
           label == IF c.op \in LeapArray!Writes THEN "load" ELSE "scan"
           left == IF c.op \in LeapArray!Writes THEN {} ELSE LeapArray!Buckets
           d == [c EXCEPT !.pc = label, !.left = left]
<1>1. CallOK(c) /\ c \in WindowCalls /\ c.time <= time /\ lost \in BOOLEAN /\ time \in Nat
  BY CallIs
<1>2. call' = [call EXCEPT ![g] = d]
  BY DEF LeapArray!Found
<1>3. label \in WindowLabels /\ left \in SUBSET Buckets
  BY DEF WindowLabels, Recording, Reading, Buckets
<1>5. c.pc \in Finding \ {"value"}
  OBVIOUS
<1>6. call[g].op = c.op /\ call[g].pc = c.pc /\ call[g].time = c.time
  OBVIOUS
<1>7. (c.op \in LeapArray!Writes => label = "load") /\ (c.op \notin LeapArray!Writes => label = "scan")
  OBVIOUS
<1> HIDE DEF c, label, left
<1>8. /\ d \in WindowCalls /\ d.pc = label
      /\ d.op = c.op /\ d.value = c.value /\ d.time = c.time /\ d.old = c.old /\ d.from = c.from
      /\ d.to = c.to /\ d.span = c.span /\ d.picked = c.picked
      /\ d.secs = c.secs /\ d.taken = c.taken /\ d.torn = c.torn
  BY <1>1, <1>3 DEF WindowCalls
<1> HIDE DEF d
<1>9. /\ c.taken = {} /\ c.picked = {} /\ c.old = FALSE /\ IsFiniteSet(c.taken) /\ c.time \in Nat
      /\ c.op \in LeapArray!Writes \cup {"values"}
  BY <1>1, <1>5 DEF CallOK, Finding, LoadedAt
<1>10. CallOK(d)
  BY <1>1, <1>5, <1>7, <1>8, <1>9 DEF CallOK, Finding, Recording, Reading, LoadedAt,
     LeapArray!Writes, LeapArray!Reads
<1>11. d.pc \notin {"value", "unlock"} /\ d.pc \notin Resetting
  BY <1>7, <1>8 DEF Resetting
<1>12. d.pc \in Recording => c.op \in LeapArray!Writes /\ d.pc \notin LoadedAt
  BY <1>7, <1>8 DEF Recording, LoadedAt
<1>13. d.pc \in Reading => Ahead(d) /\ Behind(d, events)
  <2> SUFFICES ASSUME d.pc \in Reading PROVE Ahead(d) /\ Behind(d, events)
    OBVIOUS
  <2>1. d.pc = "scan"
    BY <1>7, <1>8 DEF Reading
  <2> QED BY <2>1, <1>8, <1>9 DEF Ahead, Behind, Seen
<1>14. c.pc # "value" /\ lost' \in BOOLEAN /\ (lost = TRUE => lost' = TRUE)
  BY <1>1, <1>5
<1>15. \/ lock' = lock /\ (d.pc \in Resetting <=> c.pc \in Resetting)
       \/ lock = g /\ lock' = NoGoroutine /\ d.pc \notin Resetting
  BY <1>6, <1>11
<1> QED BY <1>1, <1>2, <1>6, <1>8, <1>10, <1>11, <1>12, <1>13, <1>14, <1>15, QuietStep

(* A goroutine that returns, or gives up, has nothing in hand.             *)
LEMMA IdleStep ==
  ASSUME WindowBounds, WindowInv, NEW g \in Goroutines, call[g].pc \notin Resetting,
         UNCHANGED <<time, start, bucket, lock, events, lost>>,
         call' = [call EXCEPT ![g] = LeapArray!Idle]
  PROVE  WindowInv'
<1> DEFINE d == LeapArray!Idle
<1>1. CallOK(d) /\ d.pc = "out" /\ d.op = "none" /\ d.time = WindowStart
  BY IdleIs
<1>2. d.time <= time /\ lost \in BOOLEAN
  BY <1>1 DEF WindowInv, WindowTypes
<1>3. call' = [call EXCEPT ![g] = d]
  OBVIOUS
<1> HIDE DEF d
<1>4. /\ d.pc \notin Resetting /\ d.pc \notin {"value", "unlock"} /\ d.pc \notin Recording
      /\ d.pc \notin Reading /\ d.op \notin LeapArray!Writes
  BY <1>1 DEF Resetting, Recording, Reading, LoadedAt, LeapArray!Writes
<1>5. call[g].pc # "value"
  BY DEF Resetting
<1> QED BY <1>1, <1>2, <1>3, <1>4, <1>5, QuietStep

(* Finding the bucket.                                                     *)
LEMMA ComparesKeep ==
  ASSUME WindowBounds, WindowInv, NEW g \in Goroutines,
         LeapArray!CompareEqual(g) \/ LeapArray!CompareGreater(g) \/ LeapArray!CompareLess(g)
  PROVE  WindowInv'
<1> DEFINE c == call[g]
<1>0. UNCHANGED <<time, start, bucket, lock, events, lost>>
  BY DEF LeapArray!CompareEqual, LeapArray!CompareGreater, LeapArray!CompareLess
<1>1. CallOK(c) /\ c \in WindowCalls /\ c.time <= time
  BY CallIs
<1>2. c.pc \in {"eq", "gt", "lt"}
  BY DEF LeapArray!CompareEqual, LeapArray!CompareGreater, LeapArray!CompareLess, LeapArray!At
<1>3. c.pc \in Finding \ {"value"} /\ c.pc \notin Resetting /\ c.pc \in {"eq", "gt", "lt", "lock"}
      /\ c.time \in Nat
  BY <1>1, <1>2 DEF Finding, Resetting, CallOK
<1>4. /\ cst(c.time) \in Nat /\ cst(c.time) <= c.time /\ idx(c.time) \in Buckets
  BY <1>3, StartOf
<1>5. /\ LeapArray!Idx(g) = idx(c.time) /\ LeapArray!bucketStart(g) = cst(c.time)
  BY DEF LeapArray!Idx, LeapArray!bucketStart, idx, cst
<1>6. start[idx(c.time)] \in Nat /\ time \in Nat /\ (SampleCount = 1 => start[idx(c.time)] <= time)
  BY <1>4 DEF WindowInv, WindowTypes, BucketsInv
<1>7. CASE \E label \in {"eq", "gt", "lt", "lock"} : LeapArray!Goto(g, label)
  BY <1>0, <1>3, <1>7, GoStep
<1>8. CASE LeapArray!Found(g) /\ (c.op \in LeapArray!Writes => start[idx(c.time)] = cst(c.time))
  <2>1. c.op \in LeapArray!Writes =>
          start[idx(c.time)] <= time /\ start[idx(c.time)] >= cst(c.time)
    BY <1>1, <1>3, <1>4, <1>6, <1>8
  <2> QED BY <1>0, <1>3, <1>8, <2>1, FoundStep
<1>9. CASE LeapArray!Found(g) /\ SampleCount = 1 /\ cst(c.time) < start[idx(c.time)]
  <2>1. c.op \in LeapArray!Writes =>
          start[idx(c.time)] <= time /\ start[idx(c.time)] >= cst(c.time)
    BY <1>4, <1>6, <1>9
  <2> QED BY <1>0, <1>3, <1>9, <2>1, FoundStep
<1>10. CASE LeapArray!NotFound(g)
  <2>1. CASE c.op \in LeapArray!Writes
    BY <1>0, <1>3, <1>10, <2>1, IdleStep DEF LeapArray!NotFound
  <2>2. CASE c.op \notin LeapArray!Writes
    <3>1. LeapArray!Found(g)
      BY <1>10, <2>2 DEF LeapArray!NotFound
    <3> QED BY <1>0, <1>3, <2>2, <3>1, FoundStep
  <2> QED BY <2>1, <2>2
<1>11. CASE LeapArray!CompareEqual(g)
  BY <1>5, <1>7, <1>8, <1>11 DEF LeapArray!CompareEqual
<1>12. CASE LeapArray!CompareGreater(g)
  BY <1>7, <1>12 DEF LeapArray!CompareGreater
<1>13. CASE LeapArray!CompareLess(g)
  BY <1>5, <1>7, <1>9, <1>10, <1>13 DEF LeapArray!CompareLess
<1> QED BY <1>11, <1>12, <1>13

(* TryLock keeps the invariant: who gets the lock is the one to reset.     *)
LEMMA TryLockKeeps ==
  ASSUME WindowBounds, WindowInv, NEW g \in Goroutines, LeapArray!TryLock(g)
  PROVE  WindowInv'
<1> DEFINE c == call[g]
           d == [c EXCEPT !.pc = "store"]
<1>0. UNCHANGED <<time, start, bucket, events, lost>> /\ c.pc = "lock"
  BY DEF LeapArray!TryLock, LeapArray!At
<1>1. CASE lock # NoGoroutine
  BY <1>0, <1>1, GoStep DEF LeapArray!TryLock
<1>2. CASE lock = NoGoroutine
  <2>1. CallOK(c) /\ c \in WindowCalls /\ c.time <= time /\ lost \in BOOLEAN
    BY CallIs
  <2>2. call' = [call EXCEPT ![g] = d] /\ lock' = g
    BY <1>2 DEF LeapArray!TryLock, LeapArray!Goto
  <2>3. "store" \in WindowLabels
    BY DEF WindowLabels, Finding
  <2>4. /\ d \in WindowCalls /\ d.pc = "store"
        /\ d.op = c.op /\ d.value = c.value /\ d.time = c.time /\ d.old = c.old /\ d.from = c.from
        /\ d.to = c.to /\ d.span = c.span /\ d.left = c.left /\ d.picked = c.picked
        /\ d.secs = c.secs /\ d.taken = c.taken /\ d.torn = c.torn
    BY <2>1, <2>3, GoesTo
  <2>5. call[g].op = c.op /\ call[g].pc = c.pc
    OBVIOUS
  <2> HIDE DEF c, d
  <2>6. CallOK(d)
    BY <1>0, <2>1, <2>4 DEF CallOK, Finding, Recording, Reading, LoadedAt
  <2>7. d.pc \notin {"value", "unlock"} /\ d.pc \in Resetting /\ d.pc \notin Recording
        /\ d.pc \notin Reading
    BY <2>4 DEF Resetting, Recording, Reading, LoadedAt
  <2>8. call[g].pc # "value"
    BY <1>0, <2>5
  <2> QED BY <1>0, <1>2, <2>1, <2>2, <2>4, <2>5, <2>6, <2>7, <2>8, QuietStep
<1> QED BY <1>1, <1>2

(* Unlock keeps it: the bucket has the start that its holder has stored.   *)
LEMMA UnlockKeeps ==
  ASSUME WindowBounds, WindowInv, NEW g \in Goroutines, LeapArray!Unlock(g)
  PROVE  WindowInv'
<1> DEFINE c == call[g]
<1>0. /\ UNCHANGED <<time, start, bucket, events, lost>> /\ c.pc = "unlock"
      /\ lock' = NoGoroutine /\ LeapArray!Found(g)
  BY DEF LeapArray!Unlock, LeapArray!At
<1>1. CallOK(c) /\ c.time <= time /\ (lock = g <=> c.pc \in Resetting)
  BY CallIs
<1>2. c.pc \in Finding \ {"value"} /\ lock = g /\ c.time \in Nat
  BY <1>0, <1>1 DEF CallOK, Finding, Resetting
<1>3. cst(c.time) \in Nat /\ cst(c.time) <= c.time
  BY <1>2, StartOf
<1>4. start[idx(c.time)] = cst(c.time)
  BY <1>0 DEF WindowInv, GoroutineOK, ResetterOK, LeapArray!Idx, LeapArray!bucketStart, idx, cst
<1>5. start[idx(c.time)] <= time /\ start[idx(c.time)] >= cst(c.time)
  BY <1>1, <1>2, <1>3, <1>4 DEF WindowInv, WindowTypes
<1> QED BY <1>0, <1>2, <1>5, FoundStep

(* Return keeps it.                                                        *)
LEMMA ReturnKeeps ==
  ASSUME WindowBounds, WindowInv, NEW g \in Goroutines, LeapArray!Return(g)
  PROVE  WindowInv'
<1>1. UNCHANGED <<time, start, bucket, lock, events, lost>> /\ call[g].pc = "read"
      /\ call' = [call EXCEPT ![g] = LeapArray!Idle]
  BY DEF LeapArray!Return, LeapArray!At
<1>2. call[g].pc \notin Resetting
  BY <1>1 DEF Resetting
<1> QED BY <1>1, <1>2, IdleStep

(* Loading a MetricBucket: in the middle of a reset it is one that goes.   *)
LEMMA LoadValueKeeps ==
  ASSUME WindowBounds, WindowInv, NEW g \in Goroutines, LeapArray!LoadValue(g)
  PROVE  WindowInv'
<1> DEFINE c == call[g]
           label == IF c.op = "pass" THEN "add" ELSE "compare"
           d == [c EXCEPT !.pc = label]
<1>0. /\ UNCHANGED <<time, start, bucket, lock, events>> /\ c.pc = "load"
      /\ LeapArray!Goto(g, label) /\ lost' = (lost \/ LeapArray!HalfReset(LeapArray!Idx(g)))
  BY DEF LeapArray!LoadValue, LeapArray!At
<1>1. CallOK(c) /\ c \in WindowCalls /\ c.time <= time /\ lost \in BOOLEAN
  BY CallIs
<1>2. call' = [call EXCEPT ![g] = d]
  BY <1>0 DEF LeapArray!Goto
<1>3. label \in WindowLabels
  BY DEF WindowLabels, Recording, LoadedAt
<1>4. /\ d \in WindowCalls /\ d.pc = label
      /\ d.op = c.op /\ d.value = c.value /\ d.time = c.time /\ d.old = c.old /\ d.from = c.from
      /\ d.to = c.to /\ d.span = c.span /\ d.left = c.left /\ d.picked = c.picked
      /\ d.secs = c.secs /\ d.taken = c.taken /\ d.torn = c.torn
  <2> HIDE DEF c, label
  <2> QED BY <1>1, <1>3, GoesTo
<1>5. (c.op = "pass" => label = "add") /\ (c.op # "pass" => label = "compare")
  OBVIOUS
<1>6. WriterOK(g)
  BY DEF WindowInv, GoroutineOK
<1>7. /\ LeapArray!Idx(g) = idx(c.time) /\ LeapArray!bucketStart(g) = cst(c.time)
  BY DEF LeapArray!Idx, LeapArray!bucketStart, idx, cst
<1>8. /\ start[idx(c.time)] <= time
      /\ lost = FALSE => start[idx(c.time)] >= cst(c.time)
  BY <1>0, <1>6, <1>7 DEF WriterOK, Recording
<1>9. /\ lost' \in BOOLEAN /\ (lost = TRUE => lost' = TRUE)
      /\ (lost' = FALSE => lost = FALSE /\ ~LeapArray!HalfReset(idx(c.time)))
  BY <1>0, <1>1, <1>7
<1>10. call[g].op = c.op /\ call[g].pc = c.pc
  OBVIOUS
<1> HIDE DEF c, d, label
<1>11. CallOK(d) /\ c.old = FALSE
  BY <1>0, <1>1, <1>4, <1>5 DEF CallOK, Finding, Recording, Reading, LoadedAt
<1>12. d.pc \notin {"value", "unlock"} /\ d.pc \notin Resetting /\ d.pc \notin Reading
       /\ c.pc \notin Resetting /\ c.pc # "value"
  BY <1>0, <1>4, <1>5 DEF Resetting, Reading
<1>13. d.pc \in Recording =>
           /\ start[idx(d.time)] <= time
           /\ lost' = FALSE =>
                /\ start[idx(d.time)] >= cst(d.time)
                /\ d.pc \in LoadedAt /\ (d.old = TRUE \/ LeapArray!HalfReset(idx(d.time)))
                   => start[idx(d.time)] > cst(d.time)
  BY <1>4, <1>8, <1>9, <1>11
<1> QED BY <1>0, <1>1, <1>2, <1>4, <1>9, <1>10, <1>11, <1>12, <1>13, QuietStep

(* So does a value that is to be stored.                                   *)
LEMMA KeepGoes ==
  ASSUME WindowBounds, WindowInv, NEW g \in Goroutines, call[g].pc = "compare",
         UNCHANGED <<time, start, bucket, lock, events, lost>>, LeapArray!Goto(g, "keep")
  PROVE  WindowInv'
<1> DEFINE c == call[g]
           d == [c EXCEPT !.pc = "keep"]
<1>0. c.pc = "compare"
  OBVIOUS
<1>1. CallOK(c) /\ c \in WindowCalls /\ c.time <= time /\ lost \in BOOLEAN
  BY CallIs
<1>2. call' = [call EXCEPT ![g] = d]
  BY DEF LeapArray!Goto
<1>3. "keep" \in WindowLabels
  BY DEF WindowLabels, Recording, LoadedAt
<1>4. /\ d \in WindowCalls /\ d.pc = "keep"
      /\ d.op = c.op /\ d.value = c.value /\ d.time = c.time /\ d.old = c.old /\ d.from = c.from
      /\ d.to = c.to /\ d.span = c.span /\ d.left = c.left /\ d.picked = c.picked
      /\ d.secs = c.secs /\ d.taken = c.taken /\ d.torn = c.torn
  BY <1>1, <1>3, GoesTo
<1>5. WriterOK(g)
  BY DEF WindowInv, GoroutineOK
<1>6. /\ LeapArray!Idx(g) = idx(c.time) /\ LeapArray!bucketStart(g) = cst(c.time)
  BY DEF LeapArray!Idx, LeapArray!bucketStart, idx, cst
<1>7. /\ start[idx(c.time)] <= time
      /\ lost = FALSE =>
           /\ start[idx(c.time)] >= cst(c.time)
           /\ (c.old = TRUE \/ LeapArray!HalfReset(idx(c.time))) => start[idx(c.time)] > cst(c.time)
  BY <1>0, <1>5, <1>6 DEF WriterOK, Recording, LoadedAt
<1>8. call[g].op = c.op /\ call[g].pc = c.pc
  OBVIOUS
<1> HIDE DEF c, d
<1>9. CallOK(d)
  BY <1>0, <1>1, <1>4 DEF CallOK, Finding, Recording, Reading, LoadedAt
<1>10. d.pc \notin {"value", "unlock"} /\ d.pc \notin Resetting /\ d.pc \notin Reading
       /\ c.pc \notin Resetting /\ c.pc # "value"
  BY <1>0, <1>4 DEF Resetting, Reading
<1>11. d.pc \in Recording =>
           /\ start[idx(d.time)] <= time
           /\ lost' = FALSE =>
                /\ start[idx(d.time)] >= cst(d.time)
                /\ d.pc \in LoadedAt /\ (d.old = TRUE \/ LeapArray!HalfReset(idx(d.time)))
                   => start[idx(d.time)] > cst(d.time)
  BY <1>4, <1>7
<1> QED BY <1>1, <1>2, <1>4, <1>8, <1>9, <1>10, <1>11, QuietStep

(* Calls begin.                                                            *)
LEMMA BeginStep ==
  ASSUME WindowBounds, WindowInv, NEW g \in Goroutines, NEW d, LeapArray!Begin(g, d),
         CallOK(d), d.time <= time, d.pc \in {"eq", "scan"}, d.picked = {},
         d.op \in LeapArray!Writes => Cardinality(events) + LeapArray!Pending < MaxEvents
  PROVE  WindowInv'
<1>1. /\ call[g].pc = "out" /\ call' = [call EXCEPT ![g] = d]
      /\ UNCHANGED <<time, start, bucket, lock, events, lost>>
  BY DEF LeapArray!Begin, LeapArray!At
<1>2. d.pc \notin {"value", "unlock"} /\ d.pc \notin Resetting /\ d.pc \notin Recording
      /\ call[g].pc \notin Resetting /\ call[g].pc # "value"
  BY <1>1 DEF Resetting, Recording, LoadedAt
<1>3. lost \in BOOLEAN
  BY CallIs
<1>4. d.pc \in Reading => Ahead(d) /\ Behind(d, events)
  <2> SUFFICES ASSUME d.pc \in Reading PROVE Ahead(d) /\ Behind(d, events)
    OBVIOUS
  <2>1. d.pc = "scan" /\ d.taken = {}
    BY DEF Reading, CallOK
  <2> QED BY <2>1 DEF Ahead, Behind, Seen
<1> QED BY <1>1, <1>2, <1>3, <1>4, QuietStep

(* The start that a time calls for, whatever the time.                     *)
LEMMA StartIsInt ==
  ASSUME WindowBounds, NEW t \in Int
  PROVE  cst(t) \in Int /\ cst(t) <= t /\ LeapArray!Second(t) \in Int /\ LeapArray!Second(t) <= t
<1> DEFINE r == t % BucketLength
           s == t % SecondLength
<1>1. r \in 0 .. (BucketLength - 1)
  BY Division DEF WindowBounds
<1>2. s \in 0 .. (SecondLength - 1)
  BY Division DEF WindowBounds
<1>3. r \in Nat /\ s \in Nat
  BY <1>1, <1>2 DEF WindowBounds
<1>4. cst(t) = t - r /\ LeapArray!Second(t) = t - s
  BY DEF cst, LeapArray!calculateStartTime, LeapArray!Second
<1> HIDE DEF r, s
<1> QED BY <1>3, <1>4

(* What a goroutine has before its call begins.                            *)
LEMMA IdleFields ==
  ASSUME WindowBounds
  PROVE  /\ LeapArray!Idle \in WindowCalls /\ LeapArray!Idle.taken = {} /\ LeapArray!Idle.picked = {}
         /\ LeapArray!Idle.old = FALSE /\ LeapArray!Interval \in Nat
<1>1. LeapArray!Idle \in WindowCalls
  BY IdleIs DEF CallOK
<1> QED BY <1>1 DEF LeapArray!Idle, LeapArray!Interval, WindowBounds

(* AddCount, AddRt and UpdateConcurrency begin, and keep the invariant.    *)
LEMMA WriteKeeps ==
  ASSUME WindowBounds, WindowInv, NEW g \in Goroutines, NEW op \in LeapArray!Writes, NEW v \in Values,
         LeapArray!Write(g, op, v)
  PROVE  WindowInv'
<1> DEFINE c == LeapArray!Idle
           d == [c EXCEPT !.pc = "eq", !.op = op, !.value = v, !.time = time]
<1>1. /\ c \in WindowCalls /\ c.taken = {} /\ c.picked = {} /\ c.old = FALSE
  BY IdleFields
<1>2. LeapArray!Begin(g, d) /\ Cardinality(events) + LeapArray!Pending < MaxEvents
  BY SizeIs DEF LeapArray!Write
<1>3. v \in Nat /\ time \in Nat
  BY DEF WindowBounds, WindowInv, WindowTypes
<1> HIDE DEF c
<1>4. /\ d \in WindowCalls /\ d.pc = "eq" /\ d.op = op /\ d.time = time /\ d.taken = {}
      /\ d.picked = {} /\ d.old = FALSE
  <2>1. "eq" \in WindowLabels /\ time \in Int
        /\ op \in {"none"} \cup LeapArray!Writes \cup LeapArray!Reads
    BY <1>3 DEF WindowLabels, Finding
  <2> QED BY <1>1, <1>3, <2>1 DEF WindowCalls
<1> HIDE DEF d
<1>5. IsFiniteSet(d.taken)
  BY <1>4, FS_EmptySet
<1>6. CallOK(d)
  BY <1>3, <1>4, <1>5 DEF CallOK, Finding, Recording, Reading, LoadedAt, LeapArray!Writes
<1> QED BY <1>2, <1>3, <1>4, <1>6, BeginStep

(* A read of the whole array begins.                                       *)
LEMMA ReadAllKeeps ==
  ASSUME WindowBounds, WindowInv, NEW g \in Goroutines, LeapArray!ReadAll(g)
  PROVE  WindowInv'
<1> DEFINE c == LeapArray!Idle
           d == [c EXCEPT !.pc = "eq", !.op = "values", !.time = time]
<1>1. /\ c \in WindowCalls /\ c.taken = {} /\ c.picked = {} /\ c.old = FALSE
  BY IdleFields
<1>2. LeapArray!Begin(g, d)
  BY DEF LeapArray!ReadAll
<1>3. time \in Nat
  BY DEF WindowInv, WindowTypes
<1> HIDE DEF c
<1>4. /\ d \in WindowCalls /\ d.pc = "eq" /\ d.op = "values" /\ d.time = time /\ d.taken = {}
      /\ d.picked = {} /\ d.old = FALSE
  <2>1. "eq" \in WindowLabels /\ time \in Int
        /\ "values" \in {"none"} \cup LeapArray!Writes \cup LeapArray!Reads
    BY <1>3 DEF WindowLabels, Finding, LeapArray!Reads
  <2> QED BY <1>1, <2>1 DEF WindowCalls
<1> HIDE DEF d
<1>5. IsFiniteSet(d.taken)
  BY <1>4, FS_EmptySet
<1>6. CallOK(d)
  BY <1>3, <1>4, <1>5 DEF CallOK, Finding, Recording, Reading, LoadedAt
<1>7. d.op \notin LeapArray!Writes
  BY <1>4 DEF LeapArray!Writes
<1> QED BY <1>2, <1>3, <1>4, <1>6, <1>7, BeginStep

(* A read through a window begins.                                         *)
LEMMA WindowReadKeeps ==
  ASSUME WindowBounds, WindowInv, NEW g \in Goroutines, NEW t \in Int, t <= time,
         NEW w \in LeapArray!Windows, LeapArray!getSatisfiedBuckets(g, t, w)
  PROVE  WindowInv'
<1> DEFINE c == LeapArray!Idle
           from == cst(t) - w.interval + BucketLength
           to == cst(t)
           d == [c EXCEPT !.pc = "scan", !.op = "window", !.time = t, !.span = w.interval,
                          !.from = from, !.to = to, !.left = Buckets]
<1>1. /\ c \in WindowCalls /\ c.taken = {} /\ c.picked = {} /\ c.old = FALSE
  BY IdleFields
<1>2. LeapArray!Begin(g, d)
  BY DEF LeapArray!getSatisfiedBuckets, LeapArray!getBucketStartRange, cst, Buckets
<1>3. w.interval \in Int /\ from \in Int /\ to \in Int /\ Buckets \in SUBSET Buckets
  <2>1. w.interval \in Int
    BY DEF LeapArray!Windows
  <2> QED BY <2>1, StartIsInt DEF WindowBounds
<1>4. from = cst(t) - w.interval + BucketLength
  OBVIOUS
<1> HIDE DEF c, from, to
<1>5. /\ d \in WindowCalls /\ d.pc = "scan" /\ d.op = "window" /\ d.time = t /\ d.taken = {}
      /\ d.picked = {} /\ d.old = FALSE /\ d.from = from /\ d.span = w.interval
  BY <1>1, <1>3 DEF WindowCalls, WindowLabels, Reading, LeapArray!Reads
<1> HIDE DEF d
<1>6. IsFiniteSet(d.taken)
  BY <1>5, FS_EmptySet
<1>7. CallOK(d)
  BY <1>4, <1>5, <1>6 DEF CallOK, Finding, Recording, Reading, LoadedAt, LeapArray!Reads
<1>8. d.op \notin LeapArray!Writes
  BY <1>5 DEF LeapArray!Writes
<1> QED BY <1>2, <1>5, <1>7, <1>8, BeginStep

(* A read for the metric log begins.                                       *)
LEMMA SecondsKeep ==
  ASSUME WindowBounds, WindowInv, NEW g \in Goroutines, NEW last \in Int,
         LeapArray!SecondMetricsOnCondition(g, last)
  PROVE  WindowInv'
<1> DEFINE c == LeapArray!Idle
           to == LeapArray!Second(time) - 1
           d == [c EXCEPT !.pc = "scan", !.op = "seconds", !.time = time, !.left = Buckets,
                          !.from = last, !.to = to]
<1>1. /\ c \in WindowCalls /\ c.taken = {} /\ c.picked = {} /\ c.old = FALSE
  BY IdleFields
<1>2. LeapArray!Begin(g, d)
  BY DEF LeapArray!SecondMetricsOnCondition, Buckets
<1>3. time \in Nat /\ time \in Int
  BY DEF WindowInv, WindowTypes
<1>4. to \in Int /\ Buckets \in SUBSET Buckets
  BY <1>3, StartIsInt
<1> HIDE DEF c, to
<1>5. /\ d \in WindowCalls /\ d.pc = "scan" /\ d.op = "seconds" /\ d.time = time /\ d.taken = {}
      /\ d.picked = {} /\ d.old = FALSE
  BY <1>1, <1>3, <1>4 DEF WindowCalls, WindowLabels, Reading, LeapArray!Reads
<1> HIDE DEF d
<1>6. IsFiniteSet(d.taken)
  BY <1>5, FS_EmptySet
<1>7. CallOK(d)
  BY <1>5, <1>6 DEF CallOK, Finding, Recording, Reading, LoadedAt, LeapArray!Reads
<1>8. d.op \notin LeapArray!Writes
  BY <1>5 DEF LeapArray!Writes
<1> QED BY <1>2, <1>3, <1>5, <1>7, <1>8, BeginStep

(* Every call that begins keeps the invariant.                             *)
LEMMA CallKeeps ==
  ASSUME WindowBounds, WindowInv, NEW g \in Goroutines, LeapArray!Call(g)
  PROVE  WindowInv'
<1>0. time \in Nat
  BY DEF WindowInv, WindowTypes
<1>1. CASE \E v \in Values : LeapArray!AddCount(g, v) \/ LeapArray!UpdateConcurrency(g, v)
  BY <1>1, WriteKeeps DEF LeapArray!AddCount, LeapArray!UpdateConcurrency, LeapArray!Writes
<1>2. CASE LeapArray!ReadAll(g)
  BY <1>2, ReadAllKeeps
<1>3. CASE \E w \in LeapArray!Windows : LeapArray!ReadWindow(g, w)
  BY <1>0, <1>3, WindowReadKeeps DEF LeapArray!ReadWindow
<1>4. CASE \E w \in LeapArray!Windows : LeapArray!GetPreviousQPS(g, w)
  <2>1. PICK w \in LeapArray!Windows : LeapArray!GetPreviousQPS(g, w)
    BY <1>4
  <2>2. w.interval \in Nat /\ w.samples \in Nat /\ w.samples > 0
    BY DEF LeapArray!Windows
  <2>3. w.interval \div w.samples \in Nat
    BY <2>2
  <2>4. time - (w.interval \div w.samples) \in Int /\ time - (w.interval \div w.samples) <= time
    BY <1>0, <2>3
  <2> QED BY <2>1, <2>4, WindowReadKeeps DEF LeapArray!GetPreviousQPS
<1>5. CASE \E last \in {LeapArray!Second(t) : t \in WindowStart .. WindowEnd} :
             LeapArray!SecondMetricsOnCondition(g, last)
  <2>1. \A t \in WindowStart .. WindowEnd : LeapArray!Second(t) \in Int
    BY StartIsInt DEF WindowBounds
  <2> QED BY <1>5, <2>1, SecondsKeep
<1> QED BY <1>1, <1>2, <1>3, <1>4, <1>5 DEF LeapArray!Call

(* Readers.                                                                *)
LEMMA ReadStep ==
  ASSUME WindowBounds, WindowInv, NEW g \in Goroutines, NEW d, call[g].pc \in Reading,
         UNCHANGED <<time, start, bucket, lock, events, lost>>, call' = [call EXCEPT ![g] = d],
         CallOK(d), d.time = call[g].time, d.op = call[g].op, d.pc \in Reading,
         Ahead(d), Behind(d, events)
  PROVE  WindowInv'
<1>1. call[g].time <= time /\ lost \in BOOLEAN
  BY CallIs
<1>2. d.pc \notin {"value", "unlock"} /\ d.pc \notin Resetting /\ d.pc \notin Recording
      /\ call[g].pc \notin Resetting /\ call[g].pc # "value"
  BY DEF Resetting, Recording, LoadedAt, Reading
<1>3. d.time <= time
  BY <1>1
<1> QED BY <1>1, <1>2, <1>3, QuietStep

(* The first moment that counts for a reader is a number.                  *)
LEMMA LowIsInt ==
  ASSUME WindowBounds, NEW c \in WindowCalls
  PROVE  LowOf(c) \in Int
<1>1. c.time \in Int /\ c.from \in Int /\ c.span \in Int
  BY DEF WindowCalls
<1>2. LeapArray!Interval \in Int /\ BucketLength \in Int /\ cst(c.time) \in Int
  BY <1>1, StartIsInt DEF LeapArray!Interval, WindowBounds
<1> QED BY <1>1, <1>2 DEF LowOf

(* A bucket that fits the predicate is sound from the first moment that    *)
(* counts.                                                                 *)
LEMMA FitsIsSound ==
  ASSUME WindowBounds, WindowInv, NEW g \in Goroutines, call[g].op \in LeapArray!Reads,
         NEW i \in Buckets, ~LeapArray!isBucketDeprecated(call[g].time, i),
         start[i] \in call[g].from .. call[g].to
  PROVE  /\ start[i] <= time /\ LowOf(call[g]) <= time /\ Sound(i, LowOf(call[g]))
<1> DEFINE c == call[g]
           low == LowOf(c)
<1>1. CallOK(c) /\ c \in WindowCalls /\ c.time \in Int /\ c.time <= time /\ time \in Nat
  BY CallIs
<1>2. start[i] \in Nat
  BY DEF WindowInv, WindowTypes
<1>3. start[i] <= c.time /\ c.time - start[i] <= LeapArray!Interval
  <2>1. LeapArray!Interval \in Nat
    BY IdleFields
  <2> QED BY <1>1, <1>2, <2>1 DEF LeapArray!isBucketDeprecated
<1>4. c.from \in Int /\ c.from <= start[i] /\ c.to \in Int
  BY <1>1, <1>2 DEF WindowCalls
<1>5. low \in Int
  BY <1>1, LowIsInt
<1>6. low <= start[i]
  <2>1. c.op \in LeapArray!Reads
    OBVIOUS
  <2>2. CASE c.op = "values"
    <3>1. LeapArray!Interval \in Nat
      BY IdleFields
    <3> QED BY <1>1, <1>2, <1>3, <2>2, <3>1 DEF LowOf
  <2>3. CASE c.op = "seconds"
    BY <1>4, <2>3 DEF LowOf
  <2>4. CASE c.op = "window"
    <3>1. c.from = cst(c.time) - c.span + BucketLength
      BY <1>1, <2>4 DEF CallOK
    <3>2. cst(c.time) \in Int /\ c.span \in Int /\ BucketLength \in Int
      BY <1>1, StartIsInt DEF WindowCalls, WindowBounds
    <3>3. low = c.from
      BY <2>4, <3>1, <3>2 DEF LowOf
    <3> QED BY <1>4, <3>3
  <2> QED BY <2>1, <2>2, <2>3, <2>4 DEF LeapArray!Reads
<1> HIDE DEF c, low
<1>7. start[i] <= time /\ low <= time
  BY <1>1, <1>2, <1>3, <1>5, <1>6
<1>8. Sound(i, low)
  BY <1>5, <1>6, <1>7, SoundFrom
<1> QED BY <1>7, <1>8 DEF c, low

(* The next bucket is one that is left.                                    *)
LEMMA NextIs ==
  ASSUME WindowBounds, WindowInv, NEW g \in Goroutines, call[g].left # {}
  PROVE  LeapArray!NextBucket(g) \in call[g].left /\ LeapArray!NextBucket(g) \in Buckets
<1>1. call[g].left \in SUBSET Buckets
  BY CallIs DEF WindowCalls
<1>2. call[g].left \in SUBSET Nat
  BY <1>1 DEF Buckets, LeapArray!Buckets, WindowBounds
<1> QED BY <1>1, <1>2, LeastIs DEF LeapArray!NextBucket

(* Before it takes anything a reader has taken nothing.                    *)
LEMMA NothingTaken ==
  ASSUME NEW c, c.taken = {}, NEW es
  PROVE  Behind(c, es)
BY DEF Behind

(* Scan keeps the invariant: a bucket is picked if it fits.                *)
LEMMA ScanKeeps ==
  ASSUME WindowBounds, WindowInv, NEW g \in Goroutines, LeapArray!Scan(g)
  PROVE  WindowInv'
<1> DEFINE c == call[g]
           i == LeapArray!NextBucket(g)
           fits == ~LeapArray!isBucketDeprecated(c.time, i) /\ start[i] \in c.from .. c.to
           left == c.left \ {i}
           picked == IF fits THEN c.picked \cup {i} ELSE c.picked
           d == [c EXCEPT !.left = left, !.picked = picked]
<1>1. /\ c.pc = "scan" /\ c.left # {} /\ UNCHANGED <<time, start, bucket, lock, events, lost>>
      /\ call' = [call EXCEPT ![g] = d]
  BY DEF LeapArray!Scan, LeapArray!At
<1>2. CallOK(c) /\ c \in WindowCalls
  BY CallIs
<1>3. c.pc \in Reading /\ c.op \in LeapArray!Reads /\ c.taken = {} /\ c.old = FALSE
  BY <1>1, <1>2 DEF CallOK, Reading, LoadedAt
<1>4. i \in Buckets
  BY <1>1, NextIs
<1>5. c.left \in SUBSET Buckets /\ c.picked \in SUBSET Buckets
  BY <1>2 DEF WindowCalls
<1>6. left \in SUBSET Buckets /\ picked \in SUBSET Buckets
  BY <1>4, <1>5
<1>7. \A j \in picked : j \in c.picked \/ (fits /\ j = i)
  OBVIOUS
<1>8. Ahead(c)
  BY <1>3 DEF WindowInv, GoroutineOK, ReaderOK
<1>9. fits => start[i] <= time /\ LowOf(c) <= time /\ Sound(i, LowOf(c))
  BY <1>3, <1>4, FitsIsSound
<1>10. c.time = call[g].time /\ c.op = call[g].op /\ call[g].pc = c.pc
  OBVIOUS
<1> HIDE DEF c, i, fits, left, picked
<1>11. /\ d \in WindowCalls /\ d.pc = c.pc /\ d.op = c.op /\ d.time = c.time /\ d.old = c.old
       /\ d.from = c.from /\ d.span = c.span /\ d.left = left /\ d.picked = picked /\ d.taken = c.taken
  BY <1>2, <1>6 DEF WindowCalls
<1> HIDE DEF d
<1>12. CallOK(d)
  BY <1>1, <1>2, <1>3, <1>11 DEF CallOK, Finding, Recording, Reading, LoadedAt
<1>13. LowOf(d) = LowOf(c)
  BY <1>11 DEF LowOf
<1>14. \A j \in picked : start[j] <= time /\ LowOf(c) <= time /\ Sound(j, LowOf(c))
  BY <1>1, <1>7, <1>8, <1>9 DEF Ahead, Seen
<1>15. Ahead(d)
  BY <1>1, <1>11, <1>13, <1>14 DEF Ahead, Seen
<1>16. Behind(d, events)
  BY <1>3, <1>11, NothingTaken
<1> QED BY <1>1, <1>3, <1>10, <1>11, <1>12, <1>15, <1>16, ReadStep

(* All buckets were looked at, or all grouped: those picked are to be taken.*)
LEMMA PassesOn ==
  ASSUME WindowBounds, WindowInv, NEW g \in Goroutines, call[g].pc \in {"scan", "group"},
         call[g].left = {}, NEW label,
         label = IF call[g].pc = "scan" /\ call[g].op = "seconds" THEN "group" ELSE "read",
         UNCHANGED <<time, start, bucket, lock, events, lost>>,
         call' = [call EXCEPT ![g] =
                    [call[g] EXCEPT !.pc = label, !.left = call[g].picked, !.picked = {}]]
  PROVE  WindowInv'
<1> DEFINE c == call[g]
           d == [c EXCEPT !.pc = label, !.left = c.picked, !.picked = {}]
<1>1. c.pc \in {"scan", "group"} /\ c.left = {} /\ call' = [call EXCEPT ![g] = d]
      /\ UNCHANGED <<time, start, bucket, lock, events, lost>>
      /\ label = IF c.pc = "scan" /\ c.op = "seconds" THEN "group" ELSE "read"
  OBVIOUS
<1>2. CallOK(c) /\ c \in WindowCalls
  BY CallIs
<1>3. c.pc \in Reading /\ c.op \in LeapArray!Reads /\ c.taken = {} /\ c.old = FALSE
  BY <1>1, <1>2 DEF CallOK, Reading, LoadedAt
<1>4. c.picked \in SUBSET Buckets /\ {} \in SUBSET Buckets
  BY <1>2 DEF WindowCalls
<1>5. Ahead(c)
  BY <1>3 DEF WindowInv, GoroutineOK, ReaderOK
<1>6. c.time = call[g].time /\ c.op = call[g].op /\ call[g].pc = c.pc
  OBVIOUS
<1> HIDE DEF c
<1>7. label \in WindowLabels /\ label \in Reading
  BY <1>1 DEF WindowLabels, Reading
<1>8. /\ d \in WindowCalls /\ d.pc = label /\ d.op = c.op /\ d.time = c.time /\ d.old = c.old
      /\ d.from = c.from /\ d.span = c.span /\ d.left = c.picked /\ d.picked = {} /\ d.taken = c.taken
      /\ d.secs = c.secs
  BY <1>2, <1>4, <1>7 DEF WindowCalls
<1> HIDE DEF d
<1>9. CallOK(d)
  BY <1>1, <1>2, <1>3, <1>8 DEF CallOK, Finding, Recording, Reading, LoadedAt
<1>10. LowOf(d) = LowOf(c)
  BY <1>8 DEF LowOf
<1>11. \A j \in c.picked : start[j] <= time /\ LowOf(c) <= time /\ Sound(j, LowOf(c))
  BY <1>1, <1>5 DEF Ahead, Seen
<1>12. Seen(d) = c.picked
  BY <1>1, <1>8 DEF Seen
<1>13. d.pc # "scan" => \A j \in Grouped(d) : d.secs[j] <= time /\ Sound(j, d.secs[j])
  <2>1. CASE c.pc = "scan"
    <3>1. Grouped(d) = {}
      BY <1>1, <1>8, <2>1 DEF Grouped
    <3> QED BY <3>1
  <2>2. CASE c.pc = "group"
    <3>1. Grouped(d) = c.picked
      BY <1>1, <1>2, <1>8, <2>2 DEF Grouped, CallOK
    <3>2. Grouped(c) = c.picked
      BY <2>2 DEF Grouped
    <3>3. \A j \in Grouped(c) : c.secs[j] <= time /\ Sound(j, c.secs[j])
      BY <1>5, <2>2 DEF Ahead
    <3> QED BY <1>8, <3>1, <3>2, <3>3
  <2> QED BY <1>1, <2>1, <2>2
<1>14. Ahead(d)
  BY <1>10, <1>11, <1>12, <1>13 DEF Ahead
<1>15. Behind(d, events)
  BY <1>3, <1>8, NothingTaken
<1> QED BY <1>1, <1>3, <1>6, <1>7, <1>8, <1>9, <1>14, <1>15, ReadStep

(* The end of the scan keeps it.                                           *)
LEMMA ScanEndsKeeps ==
  ASSUME WindowBounds, WindowInv, NEW g \in Goroutines, LeapArray!ScanEnds(g)
  PROVE  WindowInv'
<1> DEFINE label == IF call[g].op = "seconds" THEN "group" ELSE "read"
<1>1. /\ call[g].pc = "scan" /\ call[g].left = {}
      /\ UNCHANGED <<time, start, bucket, lock, events, lost>>
      /\ call' = [call EXCEPT ![g] =
                    [call[g] EXCEPT !.pc = label, !.left = call[g].picked, !.picked = {}]]
  BY DEF LeapArray!ScanEnds, LeapArray!At
<1>2. label = IF call[g].pc = "scan" /\ call[g].op = "seconds" THEN "group" ELSE "read"
  BY <1>1
<1> HIDE DEF label
<1>3. call[g].pc \in {"scan", "group"}
  BY <1>1
<1> QED BY <1>1, <1>2, <1>3, PassesOn

(* Grouping by seconds keeps it: the second of a bucket is not after its   *)
(* start.                                                                  *)
LEMMA GroupKeeps ==
  ASSUME WindowBounds, WindowInv, NEW g \in Goroutines, LeapArray!Group(g)
  PROVE  WindowInv'
<1> DEFINE c == call[g]
           i == LeapArray!NextBucket(g)
           left == c.left \ {i}
           picked == c.picked \cup {i}
           second == LeapArray!Second(start[i])
           secs == [c.secs EXCEPT ![i] = second]
           d == [c EXCEPT !.left = left, !.picked = picked, !.secs = secs]
<1>1. c.pc = "group" /\ UNCHANGED <<time, start, bucket, lock, events, lost>>
  BY DEF LeapArray!Group, LeapArray!At
<1>2. CASE c.left = {}
  <2>1. call' = [call EXCEPT ![g] = [call[g] EXCEPT !.pc = "read", !.left = call[g].picked, !.picked = {}]]
    BY <1>2 DEF LeapArray!Group
  <2>2. "read" = (IF call[g].pc = "scan" /\ call[g].op = "seconds" THEN "group" ELSE "read")
        /\ call[g].pc \in {"scan", "group"}
    BY <1>1
  <2> DEFINE label == "read"
  <2>3. /\ label = (IF call[g].pc = "scan" /\ call[g].op = "seconds" THEN "group" ELSE "read")
        /\ call' = [call EXCEPT ![g] = [call[g] EXCEPT !.pc = label, !.left = call[g].picked, !.picked = {}]]
    BY <2>1, <2>2
  <2> HIDE DEF label
  <2> QED BY <1>1, <1>2, <2>2, <2>3, PassesOn
<1>3. CASE c.left # {}
  <2>1. call' = [call EXCEPT ![g] = d]
    <3>1. call' = [call EXCEPT ![g].left = left, ![g].picked = picked, ![g].secs[i] = second]
      BY <1>3 DEF LeapArray!Group
    <3>2. DOMAIN call = Goroutines
      BY DEF WindowInv, WindowTypes
    <3>3. call[g] \in WindowCalls
      BY CallIs
    <3> HIDE DEF i, left, picked, second
    <3> QED BY <3>1, <3>2, <3>3 DEF WindowCalls
  <2>2. CallOK(c) /\ c \in WindowCalls
    BY CallIs
  <2>3. /\ c.pc \in Reading /\ c.op \in LeapArray!Reads /\ c.op = "seconds" /\ c.taken = {}
        /\ c.old = FALSE
    BY <1>1, <2>2 DEF CallOK, Reading, LoadedAt
  <2>4. i \in Buckets /\ i \in c.left
    BY <1>3, NextIs
  <2>5. c.left \in SUBSET Buckets /\ c.picked \in SUBSET Buckets /\ c.secs \in [Buckets -> Int]
    BY <2>2 DEF WindowCalls
  <2>6. left \in SUBSET Buckets /\ picked \in SUBSET Buckets /\ left \cup picked = c.left \cup c.picked
    BY <2>4, <2>5
  <2>7. Ahead(c)
    BY <2>3 DEF WindowInv, GoroutineOK, ReaderOK
  <2>8. start[i] \in Nat /\ time \in Nat
    BY <2>4 DEF WindowInv, WindowTypes
  <2>9. second \in Int /\ second <= start[i]
    BY <2>8, StartIsInt
  <2>10. start[i] <= time
    BY <1>1, <2>4, <2>7 DEF Ahead, Seen
  <2>11. second <= time /\ Sound(i, second)
    <3> HIDE DEF i, second
    <3>1. second <= time
      BY <2>8, <2>9, <2>10
    <3> QED BY <2>4, <2>9, <2>10, <3>1, SoundFrom
  <2>12. secs \in [Buckets -> Int] /\ secs[i] = second /\ \A j \in Buckets : j # i => secs[j] = c.secs[j]
    <3> HIDE DEF second, i, c
    <3> QED BY <2>4, <2>5, <2>9
  <2>13. c.time = call[g].time /\ c.op = call[g].op /\ call[g].pc = c.pc
    OBVIOUS
  <2>14. \A j \in picked : j \in c.picked \/ j = i
    OBVIOUS
  <2> HIDE DEF c, i, left, picked, second, secs
  <2>15. /\ d \in WindowCalls /\ d.pc = c.pc /\ d.op = c.op /\ d.time = c.time /\ d.old = c.old
         /\ d.from = c.from /\ d.span = c.span /\ d.left = left /\ d.picked = picked
         /\ d.secs = secs /\ d.taken = c.taken
    BY <2>2, <2>6, <2>12 DEF WindowCalls
  <2> HIDE DEF d
  <2>16. CallOK(d)
    BY <1>1, <2>2, <2>3, <2>15 DEF CallOK, Finding, Recording, Reading, LoadedAt
  <2>17. LowOf(d) = LowOf(c)
    BY <2>15 DEF LowOf
  <2>18. Seen(d) = Seen(c)
    BY <1>1, <2>6, <2>15 DEF Seen
  <2>19. \A j \in picked : secs[j] <= time /\ Sound(j, secs[j])
    <3> SUFFICES ASSUME NEW j \in picked PROVE secs[j] <= time /\ Sound(j, secs[j])
      OBVIOUS
    <3>1. CASE j = i
      BY <2>11, <2>12, <3>1
    <3>2. CASE j # i
      <4>1. j \in c.picked /\ j \in Buckets
        BY <2>6, <2>14, <3>2
      <4>2. c.secs[j] <= time /\ Sound(j, c.secs[j])
        BY <1>1, <2>7, <4>1 DEF Ahead, Grouped
      <4> QED BY <2>12, <3>2, <4>1, <4>2
    <3> QED BY <3>1, <3>2
  <2>20. Grouped(d) = picked
    BY <1>1, <2>15 DEF Grouped
  <2>21. Ahead(d)
    BY <2>7, <2>15, <2>17, <2>18, <2>19, <2>20 DEF Ahead
  <2>22. Behind(d, events)
    BY <2>3, <2>15, NothingTaken
  <2> QED BY <1>1, <2>1, <2>3, <2>13, <2>15, <2>16, <2>21, <2>22, ReadStep
<1> QED BY <1>2, <1>3

(* Taking a MetricBucket keeps it: unless it is torn, what is taken is     *)
(* within the window.                                                      *)
LEMMA TakeKeeps ==
  ASSUME WindowBounds, WindowInv, NEW g \in Goroutines, LeapArray!Take(g)
  PROVE  WindowInv'
<1> DEFINE c == call[g]
           i == LeapArray!NextBucket(g)
           half == LeapArray!HalfReset(i)
           left == c.left \ {i}
           torn == c.torn \/ half
           b == [of |-> i, sec |-> c.secs[i], mb |-> bucket[i]]
           taken == c.taken \cup {b}
           d == [c EXCEPT !.left = left, !.torn = torn, !.taken = taken]
<1>1. /\ c.pc = "read" /\ c.left # {} /\ UNCHANGED <<time, start, bucket, lock, events, lost>>
      /\ call' = [call EXCEPT ![g] = d]
  BY DEF LeapArray!Take, LeapArray!At
<1>2. CallOK(c) /\ c \in WindowCalls
  BY CallIs
<1>3. /\ c.pc \in Reading /\ c.op \in LeapArray!Reads /\ c.picked = {} /\ c.old = FALSE
      /\ IsFiniteSet(c.taken)
  BY <1>1, <1>2 DEF CallOK, Reading, LoadedAt
<1>4. i \in Buckets /\ i \in c.left
  BY <1>1, NextIs
<1>5. /\ c.left \in SUBSET Buckets /\ c.secs \in [Buckets -> Int] /\ c.torn \in BOOLEAN
      /\ c.taken \in SUBSET Takings
  BY <1>2 DEF WindowCalls
<1>6. bucket[i] \in MetricBuckets
  BY <1>4 DEF WindowInv, WindowTypes
<1>7. b \in Takings /\ b.of = i /\ b.sec = c.secs[i] /\ b.mb = bucket[i]
  BY <1>4, <1>5, <1>6 DEF Takings
<1>8. Ahead(c) /\ Behind(c, events)
  BY <1>3 DEF WindowInv, GoroutineOK, ReaderOK
<1>9. half \in BOOLEAN
  BY DEF LeapArray!HalfReset
<1>10. c.time = call[g].time /\ c.op = call[g].op /\ call[g].pc = c.pc
  OBVIOUS
<1>11. ~half => LeapArray!HalfReset(i) = FALSE
  BY DEF LeapArray!HalfReset
<1>12. torn \in BOOLEAN /\ (torn = FALSE => c.torn = FALSE /\ ~half)
  BY <1>5, <1>9
<1>13. left \in SUBSET Buckets /\ taken \in SUBSET Takings
  <2> HIDE DEF b, i, c
  <2> QED BY <1>5, <1>7
<1>14. IsFiniteSet(taken)
  BY <1>3, FS_AddElement
<1>15. \A x \in taken : x \in c.taken \/ x = b
  OBVIOUS
<1>16. c.torn = TRUE \/ c.torn = FALSE
  BY <1>5
<1>17. left \subseteq c.left /\ i \notin left
  OBVIOUS
<1>18. ~half => Sound(i, LowOf(c)) /\ Within(bucket[i], i, LowOf(c), events)
  BY <1>1, <1>4, <1>8 DEF Ahead, Seen, Sound
<1>19. ~half /\ c.op = "seconds" => Within(bucket[i], i, c.secs[i], events)
  BY <1>1, <1>4, <1>8 DEF Ahead, Grouped, Sound
<1> HIDE DEF c, i, left, half, torn, taken, b
<1>20. /\ d \in WindowCalls /\ d.pc = c.pc /\ d.op = c.op /\ d.time = c.time /\ d.old = c.old
       /\ d.from = c.from /\ d.span = c.span /\ d.left = left /\ d.picked = c.picked
       /\ d.secs = c.secs /\ d.taken = taken /\ d.torn = torn
  BY <1>2, <1>12, <1>13 DEF WindowCalls
<1> HIDE DEF d
<1>21. CallOK(d)
  BY <1>1, <1>2, <1>3, <1>14, <1>20 DEF CallOK, Finding, Recording, Reading, LoadedAt
<1>22. LowOf(d) = LowOf(c)
  BY <1>20 DEF LowOf
<1>23. Seen(d) \subseteq Seen(c) /\ Grouped(d) \subseteq Grouped(c) /\ d.pc # "scan" /\ c.pc # "scan"
  BY <1>1, <1>17, <1>20 DEF Seen, Grouped
<1>24. Ahead(d)
  BY <1>8, <1>20, <1>22, <1>23 DEF Ahead
<1>25. \A x \in taken : x.of \notin left
  BY <1>7, <1>8, <1>15, <1>17 DEF Behind
<1>26. \A x, y \in taken : x.of = y.of => x = y
  BY <1>4, <1>7, <1>8, <1>15 DEF Behind
<1>27. torn = FALSE => \A x \in taken : /\ Within(x.mb, x.of, LowOf(c), events)
                                        /\ c.op = "seconds" => Within(x.mb, x.of, x.sec, events)
  BY <1>7, <1>8, <1>12, <1>15, <1>18, <1>19 DEF Behind
<1>28. Behind(d, events)
  BY <1>20, <1>22, <1>25, <1>26, <1>27 DEF Behind
<1> QED BY <1>1, <1>3, <1>10, <1>20, <1>21, <1>24, <1>28, ReadStep

-----------------------------------------------------------------------------
(* Recording.  There is room for the event, and it is a new one.           *)
LEMMA NewEvent ==
  ASSUME WindowBounds, WindowInv, NEW g \in Goroutines, call[g].pc \in LoadedAt, LeapArray!Record(g)
  PROVE  \E e : /\ events' = events \cup {e} /\ e \notin events /\ EventOK(e)
                /\ e.op = call[g].op /\ e.value = call[g].value /\ e.time = call[g].time
                /\ e.at = time
<1> DEFINE event(n) == [op |-> call[g].op, value |-> call[g].value, time |-> call[g].time,
                        at |-> time, n |-> n]
           free == {n \in 1 .. MaxEvents : event(n) \notin events}
           n0 == LeapArray!Min(free)
           e0 == event(n0)
<1>1. CallOK(call[g]) /\ call[g] \in WindowCalls /\ time \in Nat
  BY CallIs
<1>2. call[g].op \in LeapArray!Writes /\ call[g].time \in Nat /\ call[g].value \in Nat
  BY <1>1 DEF CallOK, WindowCalls, Recording
<1>3. events' = events \cup {e0}
  BY DEF LeapArray!Record
<1>4. IsFiniteSet(events) /\ Cardinality(events) + LeapArray!Pending <= MaxEvents /\ MaxEvents \in Nat
  BY DEF WindowInv, WindowTypes, WindowBounds
<1>5. Cardinality(events) \in Nat
  BY <1>4, FS_CardinalityType
<1>6. LeapArray!Pending \in Nat /\ LeapArray!Pending >= 1
  <2> DEFINE P == {x \in Goroutines : call[x].op \in LeapArray!Writes}
  <2>1. IsFiniteSet(P)
    BY FS_Subset DEF WindowBounds
  <2>2. g \in P
    BY <1>2
  <2> HIDE DEF P
  <2>3. Cardinality(P) \in Nat /\ P # {}
    BY <2>1, <2>2, FS_CardinalityType
  <2>4. Cardinality(P) # 0
    BY <2>1, <2>3, FS_EmptySet
  <2>5. LeapArray!Pending = Cardinality(P)
    BY SizeIs DEF LeapArray!Pending, P
  <2> QED BY <2>3, <2>4, <2>5
<1>7. Cardinality(events) < MaxEvents
  BY <1>4, <1>5, <1>6
<1>8. free # {}
  <2> SUFFICES ASSUME free = {} PROVE FALSE
    OBVIOUS
  <2>1. \A n \in 1 .. MaxEvents : event(n) \in events
    OBVIOUS
  <2>2. \A n, m \in 1 .. MaxEvents : event(n) = event(m) => n = m
    <3> SUFFICES ASSUME NEW n \in 1 .. MaxEvents, NEW m \in 1 .. MaxEvents, event(n) = event(m)
                 PROVE  n = m
      OBVIOUS
    <3>1. event(n).n = n /\ event(m).n = m
      OBVIOUS
    <3> QED BY <3>1
  <2> DEFINE f == [n \in 1 .. MaxEvents |-> event(n)]
  <2> HIDE DEF event
  <2>3. f \in Injection(1 .. MaxEvents, events)
    BY <2>1, <2>2 DEF Injection, IsInjective
  <2> HIDE DEF f
  <2>4. Cardinality(1 .. MaxEvents) <= Cardinality(events)
    BY <1>4, <2>3, FS_Injection
  <2>5. Cardinality(1 .. MaxEvents) = MaxEvents
    <3>1. 1 \in Int /\ MaxEvents \in Int
      BY <1>4
    <3>2. Cardinality(1 .. MaxEvents) = (IF 1 > MaxEvents THEN 0 ELSE MaxEvents - 1 + 1)
      BY <3>1, FS_Interval
    <3> QED BY <1>4, <3>2
  <2> QED BY <1>4, <1>5, <1>7, <2>4, <2>5
<1>9. n0 \in free
  <2>1. free \in SUBSET Nat
    BY <1>4
  <2> HIDE DEF free
  <2> QED BY <1>8, <2>1, LeastIs
<1>10. e0 \notin events
  BY <1>9
<1>11. e0.op = call[g].op /\ e0.value = call[g].value /\ e0.time = call[g].time /\ e0.at = time
  OBVIOUS
<1>12. EventOK(e0)
  BY <1>1, <1>2, <1>11 DEF EventOK
<1> QED BY <1>3, <1>10, <1>11, <1>12

(* What is recorded adds to the windows that have begun, and a bucket may  *)
(* have it in addition.                                                    *)
LEMMA RecordStep ==
  ASSUME WindowBounds, WindowInv, NEW g \in Goroutines, call[g].pc \in LoadedAt, LeapArray!Record(g),
         UNCHANGED <<time, start, lock>>, lost' \in BOOLEAN, lost = TRUE => lost' = TRUE,
         bucket' \in [Buckets -> MetricBuckets],
         \A j \in Buckets : bucket'[j] = bucket[j] \/ start[j] <= time,
         \A j \in Buckets : \A low \in Int :
           low <= time /\ Within(bucket[j], j, low, events) => Within(bucket'[j], j, low, events'),
         ExactInv'
  PROVE  WindowInv'
<1>0. PICK e : /\ events' = events \cup {e} /\ e \notin events /\ EventOK(e)
  BY NewEvent
<1> DEFINE d == LeapArray!Idle
<1>1. call' = [call EXCEPT ![g] = d]
  BY DEF LeapArray!Record
<1>2. CallOK(d) /\ d.pc = "out" /\ d.op = "none" /\ d.time = WindowStart
  BY IdleIs
<1> HIDE DEF d
<1>3. WindowTypes /\ IsFiniteSet(events) /\ (\A x \in events : EventOK(x)) /\ time \in Nat
      /\ WindowStart <= time
  BY DEF WindowInv, WindowTypes
<1>4. /\ call'[g] = d /\ \A x \in Goroutines : x # g => call'[x] = call[x]
      /\ DOMAIN call' = Goroutines /\ call' = [x \in Goroutines |-> call'[x]]
  BY <1>1, <1>3, CallChanges
<1>5. CallOK(call[g]) /\ call[g].pc \in Recording /\ call[g].op \in LeapArray!Writes
  BY CallIs DEF CallOK, Recording
<1>6. IsFiniteSet(events') /\ (\A x \in events' : EventOK(x)) /\ events \in SUBSET events'
      /\ Cardinality(events') = Cardinality(events) + 1
  BY <1>0, <1>3, FS_AddElement
<1>7. WindowTypes'
  <2>1. d.op \notin LeapArray!Writes /\ DOMAIN call = Goroutines
    BY <1>2, <1>3 DEF LeapArray!Writes, WindowTypes
  <2>2. /\ LeapArray!Pending \in Nat /\ LeapArray!Pending' \in Nat
        /\ LeapArray!Pending' + 1 = LeapArray!Pending
    BY <1>4, <1>5, <2>1, PendingChanges
  <2>3. Cardinality(events) \in Nat /\ MaxEvents \in Nat
        /\ Cardinality(events) + LeapArray!Pending <= MaxEvents
    BY <1>3, FS_CardinalityType DEF WindowTypes, WindowBounds
  <2>4. Cardinality(events') + LeapArray!Pending' <= MaxEvents
    <3> DEFINE n == Cardinality(events)
               m == Cardinality(events')
               p == LeapArray!Pending
               q == LeapArray!Pending'
    <3>1. /\ n \in Nat /\ p \in Nat /\ q \in Nat /\ m = n + 1 /\ q + 1 = p /\ n + p <= MaxEvents
          /\ MaxEvents \in Nat
      BY <1>6, <2>2, <2>3
    <3> HIDE DEF n, m, p, q
    <3>2. m + q <= MaxEvents
      BY <3>1
    <3> QED BY <3>2 DEF m, q
  <2> QED BY <1>3, <1>4, <1>6, <2>4 DEF WindowTypes
<1>8. ASSUME NEW i PROVE LeapArray!HalfReset(i)' <=> LeapArray!HalfReset(i)
  <2>1. d.pc # "value" /\ call[g].pc # "value"
    BY <1>2 DEF LoadedAt
  <2> QED BY <1>4, <2>1 DEF LeapArray!HalfReset, LeapArray!Idx
<1>9. ASSUME NEW i \in Buckets, NEW low \in Int, low <= time, Sound(i, low)
      PROVE  Sound(i, low)'
  BY <1>8, <1>9 DEF Sound
<1>10. BucketsInv'
  <2> SUFFICES ASSUME NEW i \in Buckets
               PROVE  \/ start'[i] <= time' /\ Sound(i, start[i])'
                      \/ bucket'[i] = LeapArray!NewMetricBucket
    BY DEF WindowInv, BucketsInv, LeapArray!NewMetricBucket
  <2>1. start[i] \in Int
    BY <1>3 DEF WindowTypes
  <2>2. CASE start[i] <= time /\ Sound(i, start[i])
    <3> DEFINE low == start[i]
    <3>1. low \in Int /\ low <= time /\ Sound(i, low) /\ low' = low
      BY <2>1, <2>2
    <3>2. Within(bucket'[i], i, low, events') \/ LeapArray!HalfReset(i)'
      BY <1>8, <3>1 DEF Sound
    <3>3. Sound(i, start[i])'
      BY <3>1, <3>2 DEF Sound
    <3> QED BY <2>2, <3>3
  <2>3. CASE bucket[i] = LeapArray!NewMetricBucket
    <3>1. CASE bucket'[i] = bucket[i]
      BY <2>3, <3>1
    <3>2. CASE start[i] <= time
      <4>1. Within(bucket[i], i, start[i], events)
        BY <1>3, <2>3, NothingWithin
      <4>2. Within(bucket'[i], i, start[i], events')
        BY <2>1, <3>2, <4>1
      <4> QED BY <3>2, <4>2 DEF Sound
    <3> QED BY <3>1, <3>2
  <2> QED BY <2>2, <2>3 DEF WindowInv, BucketsInv
<1>11. GoroutineOK(g)'
  <2>1. d.pc \notin Resetting /\ d.pc \notin Recording /\ d.pc \notin Reading
    BY <1>2 DEF Resetting, Recording, Reading, LoadedAt
  <2>2. lock # g /\ d.time <= time
    <3>1. call[g].pc \notin Resetting
      BY DEF LoadedAt, Resetting
    <3> QED BY <1>2, <1>3, <3>1, CallIs
  <2>3. d.pc \notin {"value", "unlock"}
    BY <1>2
  <2> QED BY <1>2, <1>4, <2>1, <2>2, <2>3 DEF GoroutineOK, ResetterOK, WriterOK, ReaderOK
<1>12. ASSUME NEW x \in Goroutines, x # g PROVE GoroutineOK(x)'
  <2>c. PICK c : c = call[x]
    OBVIOUS
  <2>0. GoroutineOK(x) /\ call'[x] = call[x] /\ c \in WindowCalls /\ CallOK(c)
    BY <1>4, <1>12, <2>c, CallIs DEF WindowInv
  <2>1. LeapArray!Idx(x)' = LeapArray!Idx(x) /\ LeapArray!bucketStart(x)' = LeapArray!bucketStart(x)
    BY <2>0 DEF LeapArray!Idx, LeapArray!bucketStart
  <2>2. WriterOK(x)'
    <3>1. lost' = FALSE => lost = FALSE
      BY <1>3 DEF WindowTypes
    <3> QED BY <1>8, <2>0, <2>1, <3>1 DEF WriterOK, GoroutineOK
  <2>3. ResetterOK(x)'
    BY <2>0, <2>1 DEF ResetterOK, GoroutineOK
  <2>4. ReaderOK(x)'
    <3> SUFFICES ASSUME c.pc \in Reading PROVE Ahead(c)' /\ Behind(c, events')
      BY <2>c, <2>0 DEF ReaderOK
    <3>1. Ahead(c) /\ Behind(c, events)
      BY <2>c, <2>0 DEF GoroutineOK, ReaderOK
    <3>2. LowOf(c) \in Int
      BY <2>0, LowIsInt
    <3>3. c.picked \in SUBSET Buckets /\ c.left \in SUBSET Buckets /\ c.secs \in [Buckets -> Int]
          /\ c.taken \in SUBSET Takings
      BY <2>0 DEF WindowCalls
    <3>4. Seen(c) \in SUBSET Buckets /\ Grouped(c) \in SUBSET Buckets
      BY <3>3 DEF Seen, Grouped
    <3>5. \A i \in Seen(c) : start[i] <= time /\ LowOf(c) <= time /\ Sound(i, LowOf(c))'
      BY <1>9, <3>1, <3>2, <3>4 DEF Ahead
    <3>6. c.pc # "scan" => \A i \in Grouped(c) : c.secs[i] <= time /\ Sound(i, c.secs[i])'
      BY <1>9, <3>1, <3>3, <3>4 DEF Ahead
    <3>7. Behind(c, events')
      <4>1. ASSUME NEW b \in c.taken, NEW low \in Int, Within(b.mb, b.of, low, events)
            PROVE  Within(b.mb, b.of, low, events')
        <5>1. b.mb \in MetricBuckets /\ low <= low
          BY <3>3 DEF Takings
        <5> QED BY <1>6, <4>1, <5>1, WithinMore
      <4>2. \A b \in c.taken : b.sec \in Int
        BY <3>3 DEF Takings
      <4> QED BY <3>1, <3>2, <4>1, <4>2 DEF Behind
    <3> QED BY <3>5, <3>6, <3>7 DEF Ahead
  <2> QED BY <2>c, <2>0, <2>2, <2>3, <2>4 DEF GoroutineOK
<1> QED BY <1>7, <1>10, <1>11, <1>12 DEF WindowInv

(* What a MetricBucket has after an event is within what was recorded.     *)
LEMMA WithinRecorded ==
  ASSUME NEW es, IsFiniteSet(es), \A x \in es : EventOK(x), NEW e, e \notin es, EventOK(e),
         NEW i, NEW low \in Int, low <= e.at, NEW mb \in MetricBuckets, Within(mb, i, low, es)
  PROVE  /\ Within(mb, i, low, es \cup {e})
         /\ e.op = "pass" /\ idx(e.time) = i
            => Within([mb EXCEPT !.count = @ + e.value], i, low, es \cup {e})
         /\ e.op = "rt" => Within([mb EXCEPT !.minRt = e.value], i, low, es \cup {e})
         /\ e.op = "concurrency"
            => Within([mb EXCEPT !.maxConcurrency = e.value], i, low, es \cup {e})
<1> DEFINE fs == es \cup {e}
<1>1. IsFiniteSet(fs) /\ (\A x \in fs : EventOK(x)) /\ es \in SUBSET fs
  BY FS_AddElement
<1>2. Within(mb, i, low, fs)
  BY <1>1, WithinMore
<1>3. mb.count \in Nat /\ DOMAIN mb = {"count", "minRt", "maxConcurrency"}
  BY DEF MetricBuckets
<1>4. ASSUME e.op = "pass", idx(e.time) = i
      PROVE  Within([mb EXCEPT !.count = @ + e.value], i, low, fs)
  <2> DEFINE old == EventsOf(es, i, low)
             new == EventsOf(fs, i, low)
             m == [mb EXCEPT !.count = @ + e.value]
  <2>1. new = old \cup {e} /\ e \notin old
    BY <1>4 DEF EventsOf
  <2>2. IsFiniteSet(old) /\ Weights(old) /\ e.value \in Nat
    BY EventsPart DEF EventOK
  <2> HIDE DEF old, new
  <2>3. LeapArray!Total(new) = LeapArray!Total(old) + e.value /\ LeapArray!Total(old) \in Nat
    BY <2>1, <2>2, TotalAdd
  <2>4. mb.count <= LeapArray!Total(old)
    BY DEF Within, old
  <2>5. m.count = mb.count + e.value /\ m.minRt = mb.minRt /\ m.maxConcurrency = mb.maxConcurrency
    BY <1>3
  <2> HIDE DEF m
  <2>6. m.count <= LeapArray!Total(new)
    BY <1>3, <2>2, <2>3, <2>4, <2>5
  <2> QED BY <1>2, <2>5, <2>6 DEF Within, new, m
<1>5. ASSUME e.op = "rt" PROVE Within([mb EXCEPT !.minRt = e.value], i, low, fs)
  <2> DEFINE m == [mb EXCEPT !.minRt = e.value]
  <2>1. m.minRt = e.value /\ m.count = mb.count /\ m.maxConcurrency = mb.maxConcurrency
    BY <1>3
  <2>2. e.value \in ValuesOf(fs, "rt", low)
    BY <1>5 DEF ValuesOf, EventOK
  <2> HIDE DEF m
  <2>3. Within(m, i, low, fs)
    BY <1>2, <2>1, <2>2 DEF Within
  <2> QED BY <2>3 DEF m
<1>6. ASSUME e.op = "concurrency" PROVE Within([mb EXCEPT !.maxConcurrency = e.value], i, low, fs)
  <2> DEFINE m == [mb EXCEPT !.maxConcurrency = e.value]
  <2>1. m.maxConcurrency = e.value /\ m.count = mb.count /\ m.minRt = mb.minRt
    BY <1>3
  <2>2. e.value \in ValuesOf(fs, "concurrency", low)
    BY <1>6 DEF ValuesOf, EventOK
  <2> HIDE DEF m
  <2>3. Within(m, i, low, fs)
    BY <1>2, <2>1, <2>2 DEF Within
  <2> QED BY <2>3 DEF m
<1> QED BY <1>2, <1>4, <1>5, <1>6

(* What a goroutine that records knows.                                    *)
LEMMA RecorderIs ==
  ASSUME WindowBounds, WindowInv, NEW g \in Goroutines, call[g].pc \in LoadedAt
  PROVE  /\ call[g].op \in LeapArray!Writes /\ call[g].value \in Nat /\ call[g].old \in BOOLEAN
         /\ idx(call[g].time) \in Buckets /\ cst(call[g].time) \in Nat
         /\ idx(cst(call[g].time)) = idx(call[g].time)
         /\ LeapArray!Idx(g) = idx(call[g].time) /\ LeapArray!bucketStart(g) = cst(call[g].time)
         /\ start[idx(call[g].time)] \in Nat /\ start[idx(call[g].time)] <= time /\ time \in Nat
         /\ bucket \in [Buckets -> MetricBuckets] /\ bucket[idx(call[g].time)] \in MetricBuckets
         /\ lost = FALSE /\ (call[g].old = TRUE \/ LeapArray!HalfReset(idx(call[g].time)))
            => start[idx(call[g].time)] > cst(call[g].time)
         /\ lost \in BOOLEAN
<1> DEFINE c == call[g]
<1>1. CallOK(c) /\ c \in WindowCalls /\ c.pc \in Recording /\ time \in Nat /\ lost \in BOOLEAN
  BY CallIs DEF Recording
<1>2. c.op \in LeapArray!Writes /\ c.value \in Nat /\ c.old \in BOOLEAN /\ c.time \in Nat
  BY <1>1 DEF CallOK, WindowCalls
<1>3. idx(c.time) \in Buckets /\ cst(c.time) \in Nat /\ idx(cst(c.time)) = idx(c.time)
  BY <1>2, StartOf
<1>4. LeapArray!Idx(g) = idx(c.time) /\ LeapArray!bucketStart(g) = cst(c.time)
  BY DEF LeapArray!Idx, LeapArray!bucketStart, idx, cst
<1>5. WriterOK(g)
  BY DEF WindowInv, GoroutineOK
<1>6. start[idx(c.time)] \in Nat /\ bucket \in [Buckets -> MetricBuckets] /\ bucket[idx(c.time)] \in MetricBuckets
  BY <1>3 DEF WindowInv, WindowTypes
<1>7. /\ start[idx(c.time)] <= time
      /\ lost = FALSE /\ (c.old = TRUE \/ LeapArray!HalfReset(idx(c.time)))
         => start[idx(c.time)] > cst(c.time)
  BY <1>1, <1>4, <1>5 DEF WriterOK
<1> QED BY <1>1, <1>2, <1>3, <1>4, <1>6, <1>7

(* A response time or a concurrency is none of the counters' business.     *)
LEMMA ExactAnyway ==
  ASSUME WindowBounds, WindowInv, NEW g \in Goroutines, call[g].pc \in LoadedAt, LeapArray!Record(g),
         call[g].op # "pass", UNCHANGED <<start, lost>>,
         \A j \in Buckets : bucket'[j].count = bucket[j].count
  PROVE  ExactInv'
<1>1. PICK e : /\ events' = events \cup {e} /\ e.op = call[g].op
  BY NewEvent
<1>2. ASSUME NEW i PROVE EventsAt(i)' = EventsAt(i)
  BY <1>1 DEF EventsAt
<1>3. ASSUME NEW i PROVE LeapArray!HalfReset(i)' <=> LeapArray!HalfReset(i)
  <2> DEFINE d == LeapArray!Idle
  <2>1. call' = [call EXCEPT ![g] = d]
    BY DEF LeapArray!Record
  <2>2. d.pc = "out"
    BY IdleIs
  <2> HIDE DEF d
  <2>3. call'[g] = d /\ \A x \in Goroutines : x # g => call'[x] = call[x]
    BY <2>1, CallChanges DEF WindowInv
  <2> QED BY <2>2, <2>3 DEF LoadedAt, LeapArray!HalfReset, LeapArray!Idx
<1>4. ExactInv
  BY DEF WindowInv
<1>5. \A x \in events' : x.op = "pass" => x \in events
  BY <1>1
<1> QED BY <1>2, <1>3, <1>4, <1>5 DEF ExactInv

(* AddRt and UpdateConcurrency store their value, and keep the invariant.  *)
LEMMA StoreValueKeeps ==
  ASSUME WindowBounds, WindowInv, NEW g \in Goroutines, LeapArray!StoreValue(g)
  PROVE  WindowInv'
<1> DEFINE i == idx(call[g].time)
           m == bucket[i]
           mb == IF call[g].op = "rt" THEN [m EXCEPT !.minRt = call[g].value]
                 ELSE [m EXCEPT !.maxConcurrency = call[g].value]
<1>0. /\ call[g].pc = "keep" /\ UNCHANGED <<time, start, lock, lost>> /\ LeapArray!Record(g)
  BY DEF LeapArray!StoreValue, LeapArray!At
<1>1. call[g].pc \in LoadedAt /\ call[g].op # "pass"
  BY <1>0, CallIs DEF LoadedAt, CallOK
<1>2. /\ i \in Buckets /\ start[i] <= time /\ bucket \in [Buckets -> MetricBuckets]
      /\ m \in MetricBuckets /\ call[g].value \in Nat /\ call[g].op \in LeapArray!Writes
      /\ LeapArray!Idx(g) = i /\ lost \in BOOLEAN
  BY <1>1, RecorderIs
<1>3. bucket' = IF call[g].old THEN bucket ELSE [bucket EXCEPT ![i] = mb]
  BY <1>2 DEF LeapArray!StoreValue, LeapArray!Store, LeapArray!Mine
<1>4. PICK e : /\ events' = events \cup {e} /\ e \notin events /\ EventOK(e)
               /\ e.op = call[g].op /\ e.value = call[g].value /\ e.time = call[g].time /\ e.at = time
  BY <1>0, <1>1, NewEvent
<1>5. mb = IF e.op = "rt" THEN [m EXCEPT !.minRt = e.value] ELSE [m EXCEPT !.maxConcurrency = e.value]
  BY <1>4
<1>6. IsFiniteSet(events) /\ \A x \in events : EventOK(x)
  BY DEF WindowInv, WindowTypes
<1>7. e.op = "rt" \/ e.op = "concurrency"
  BY <1>1, <1>2, <1>4 DEF LeapArray!Writes
<1>8. e.value \in Nat
  BY <1>4 DEF EventOK
<1>9. bucket' = bucket \/ bucket' = [bucket EXCEPT ![i] = mb]
  BY <1>3
<1> HIDE DEF mb, i
<1>10. mb \in MetricBuckets /\ mb.count = m.count
  BY <1>2, <1>5, <1>8 DEF MetricBuckets
<1>11. /\ bucket' \in [Buckets -> MetricBuckets]
       /\ \A j \in Buckets : bucket'[j] = bucket[j] \/ (j = i /\ bucket'[j] = mb)
  BY <1>2, <1>9, <1>10
<1>12. \A j \in Buckets : bucket'[j].count = bucket[j].count
  BY <1>10, <1>11
<1>13. ExactInv'
  BY <1>0, <1>1, <1>12, ExactAnyway
<1>14. ASSUME NEW j \in Buckets, NEW low \in Int, low <= time, Within(bucket[j], j, low, events)
       PROVE  Within(bucket'[j], j, low, events')
  <2>1. low <= e.at /\ bucket[j] \in MetricBuckets
    BY <1>2, <1>4, <1>14
  <2>2. /\ Within(bucket[j], j, low, events')
        /\ e.op = "rt" => Within([bucket[j] EXCEPT !.minRt = e.value], j, low, events')
        /\ e.op = "concurrency" => Within([bucket[j] EXCEPT !.maxConcurrency = e.value], j, low, events')
    BY <1>4, <1>6, <1>14, <2>1, WithinRecorded
  <2>3. j = i => Within(mb, j, low, events')
    BY <1>5, <1>7, <2>2
  <2> QED BY <1>11, <2>2, <2>3
<1>15. \A j \in Buckets : bucket'[j] = bucket[j] \/ start[j] <= time
  BY <1>2, <1>11
<1> QED BY <1>0, <1>1, <1>2, <1>11, <1>13, <1>14, <1>15, RecordStep

(* They compare, and are done if the value does not beat the one kept.     *)
LEMMA CompareValueKeeps ==
  ASSUME WindowBounds, WindowInv, NEW g \in Goroutines, LeapArray!CompareValue(g)
  PROVE  WindowInv'
<1>0. /\ call[g].pc = "compare" /\ UNCHANGED <<time, start, bucket, lock, lost>>
      /\ \/ LeapArray!Goto(g, "keep") /\ UNCHANGED events
         \/ LeapArray!Record(g)
  BY DEF LeapArray!CompareValue, LeapArray!At
<1>1. CASE LeapArray!Goto(g, "keep") /\ UNCHANGED events
  BY <1>0, <1>1, KeepGoes
<1>2. CASE LeapArray!Record(g)
  <2>1. call[g].pc \in LoadedAt /\ call[g].op # "pass"
    BY <1>0, CallIs DEF LoadedAt, CallOK
  <2>2. bucket \in [Buckets -> MetricBuckets] /\ lost \in BOOLEAN
    BY <2>1, RecorderIs
  <2>3. ExactInv'
    BY <1>0, <1>2, <2>1, ExactAnyway
  <2>4. IsFiniteSet(events) /\ \A x \in events : EventOK(x)
    BY DEF WindowInv, WindowTypes
  <2>5. PICK e : events' = events \cup {e} /\ EventOK(e)
    BY <1>2, <2>1, NewEvent
  <2>6. IsFiniteSet(events') /\ (\A x \in events' : EventOK(x)) /\ events \in SUBSET events'
    BY <2>4, <2>5, FS_AddElement
  <2>7. ASSUME NEW j \in Buckets, NEW low \in Int, Within(bucket[j], j, low, events)
        PROVE  Within(bucket'[j], j, low, events')
    <3>1. bucket[j] \in MetricBuckets /\ low <= low
      BY <2>2
    <3> QED BY <1>0, <2>6, <2>7, <3>1, WithinMore
  <2> QED BY <1>0, <1>2, <2>1, <2>2, <2>3, <2>7, RecordStep
<1> QED BY <1>0, <1>1, <1>2

(* AddCount adds, and keeps the invariant: unless something slips, the     *)
(* event is counted for the start that its time calls for.                 *)
LEMMA AddValueKeeps ==
  ASSUME WindowBounds, WindowInv, NEW g \in Goroutines, LeapArray!Add(g)
  PROVE  WindowInv'
<1>i. PICK i : i = idx(call[g].time)
  OBVIOUS
<1> DEFINE s == cst(call[g].time)
           m == bucket[i]
           mb == [m EXCEPT !.count = @ + call[g].value]
<1>0. /\ call[g].pc = "add" /\ UNCHANGED <<time, start, lock>> /\ LeapArray!Record(g)
  BY DEF LeapArray!Add, LeapArray!At
<1>1. call[g].pc \in LoadedAt /\ call[g].op = "pass"
  BY <1>0, CallIs DEF LoadedAt, CallOK
<1>2. /\ i \in Buckets /\ start[i] <= time /\ bucket \in [Buckets -> MetricBuckets]
      /\ m \in MetricBuckets /\ call[g].value \in Nat /\ call[g].old \in BOOLEAN
      /\ LeapArray!Idx(g) = i /\ LeapArray!bucketStart(g) = s /\ lost \in BOOLEAN
      /\ start[i] \in Nat /\ s \in Nat /\ idx(s) = i
      /\ lost = FALSE /\ (call[g].old = TRUE \/ LeapArray!HalfReset(i)) => start[i] > s
  BY <1>i, <1>1, RecorderIs
<1>3. /\ bucket' = IF call[g].old THEN bucket ELSE [bucket EXCEPT ![i] = mb]
      /\ lost' = (lost \/ start[i] # s)
  BY <1>2 DEF LeapArray!Add, LeapArray!Store, LeapArray!Mine
<1>4. PICK e : /\ events' = events \cup {e} /\ e \notin events /\ EventOK(e)
               /\ e.op = call[g].op /\ e.value = call[g].value /\ e.time = call[g].time /\ e.at = time
  BY <1>0, <1>1, NewEvent
<1>5. mb = [m EXCEPT !.count = @ + e.value] /\ e.op = "pass" /\ idx(e.time) = i /\ cst(e.time) = s
  BY <1>i, <1>1, <1>4
<1>6. IsFiniteSet(events) /\ \A x \in events : EventOK(x)
  BY DEF WindowInv, WindowTypes
<1>7. e.value \in Nat
  BY <1>4 DEF EventOK
<1>8. bucket' = bucket \/ bucket' = [bucket EXCEPT ![i] = mb]
  BY <1>3
<1>9. call[g].old = FALSE => bucket' = [bucket EXCEPT ![i] = mb]
  BY <1>3
<1> HIDE DEF mb, s
<1>10. mb \in MetricBuckets /\ mb.count = m.count + e.value
  BY <1>2, <1>5, <1>7 DEF MetricBuckets
<1>11. /\ bucket' \in [Buckets -> MetricBuckets]
       /\ \A j \in Buckets : bucket'[j] = bucket[j] \/ (j = i /\ bucket'[j] = mb)
  BY <1>2, <1>8, <1>10
<1>12. /\ call[g].old = FALSE => bucket'[i] = mb
       /\ \A j \in Buckets : j # i => bucket'[j] = bucket[j]
  BY <1>2, <1>9, <1>11
<1>13. ASSUME NEW j \in Buckets, NEW low \in Int, low <= time, Within(bucket[j], j, low, events)
       PROVE  Within(bucket'[j], j, low, events')
  <2>1. low <= e.at /\ bucket[j] \in MetricBuckets
    BY <1>2, <1>4, <1>13
  <2>2. /\ Within(bucket[j], j, low, events')
        /\ e.op = "pass" /\ idx(e.time) = j
           => Within([bucket[j] EXCEPT !.count = @ + e.value], j, low, events')
    BY <1>4, <1>6, <1>13, <2>1, WithinRecorded
  <2>3. j = i => Within(mb, j, low, events')
    BY <1>5, <2>2
  <2> QED BY <1>11, <2>2, <2>3
<1>14. \A j \in Buckets : bucket'[j] = bucket[j] \/ start[j] <= time
  BY <1>2, <1>11
<1>15. /\ lost' \in BOOLEAN /\ (lost = TRUE => lost' = TRUE)
       /\ lost' = FALSE => lost = FALSE /\ start[i] = s
  BY <1>2, <1>3
<1>16. ASSUME NEW j PROVE LeapArray!HalfReset(j)' <=> LeapArray!HalfReset(j)
  <2> DEFINE d == LeapArray!Idle
  <2>1. call' = [call EXCEPT ![g] = d]
    BY <1>0 DEF LeapArray!Record
  <2>2. d.pc = "out"
    BY IdleIs
  <2> HIDE DEF d
  <2>3. call'[g] = d /\ \A x \in Goroutines : x # g => call'[x] = call[x]
    BY <2>1, CallChanges DEF WindowInv
  <2> QED BY <1>0, <2>2, <2>3 DEF LeapArray!HalfReset, LeapArray!Idx
<1>17. ExactInv'
  <2> SUFFICES ASSUME lost' = FALSE
               PROVE  /\ \A j \in Buckets : LeapArray!HalfReset(j)' \/ bucket'[j].count = LeapArray!Total(EventsAt(j)')
                      /\ \A j \in Buckets : LeapArray!HalfReset(j)' => EventsAt(j)' = {}
                      /\ \A x \in events' : x.op = "pass" => cst(x.time) <= start[idx(x.time)]
    BY <1>0 DEF ExactInv
  <2>1. lost = FALSE /\ start[i] = s
    BY <1>15
  <2>2. call[g].old = FALSE /\ ~LeapArray!HalfReset(i)
    <3>1. ~(start[i] > s)
      BY <1>2, <2>1
    <3> QED BY <1>2, <2>1, <3>1
  <2>3. ExactInv
    BY DEF WindowInv
  <2>4. EventsAt(i)' = EventsAt(i) \cup {e} /\ e \notin EventsAt(i)
    BY <1>0, <1>4, <1>5, <2>1 DEF EventsAt
  <2>5. ASSUME NEW j \in Buckets, j # i PROVE EventsAt(j)' = EventsAt(j)
    <3>1. idx(start[j]) = j
      BY DEF WindowInv, WindowTypes
    <3>2. start[j] # s
      BY <1>2, <2>5, <3>1
    <3> QED BY <1>0, <1>4, <1>5, <3>2 DEF EventsAt
  <2>6. IsFiniteSet(EventsAt(i)) /\ Weights(EventsAt(i))
    <3>1. EventsAt(i) \subseteq events
      BY DEF EventsAt
    <3> QED BY <1>6, <3>1, FS_Subset DEF Weights, EventOK
  <2>7. LeapArray!Total(EventsAt(i)') = LeapArray!Total(EventsAt(i)) + e.value
    <3> DEFINE es == EventsAt(i)
    <3>1. IsFiniteSet(es) /\ Weights(es) /\ e \notin es
      BY <2>4, <2>6
    <3> HIDE DEF es
    <3>2. LeapArray!Total(es \cup {e}) = LeapArray!Total(es) + e.value
      BY <1>7, <3>1, TotalAdd
    <3> QED BY <2>4, <3>2 DEF es
  <2>8. bucket[i].count = LeapArray!Total(EventsAt(i))
    BY <1>2, <2>1, <2>2, <2>3 DEF ExactInv
  <2>9. bucket'[i].count = LeapArray!Total(EventsAt(i)')
    BY <1>10, <1>12, <2>2, <2>7, <2>8
  <2>10. \A j \in Buckets : LeapArray!HalfReset(j)' \/ bucket'[j].count = LeapArray!Total(EventsAt(j)')
    <3> SUFFICES ASSUME NEW j \in Buckets, j # i
                 PROVE LeapArray!HalfReset(j)' \/ bucket'[j].count = LeapArray!Total(EventsAt(j)')
      BY <2>9
    <3> QED BY <1>12, <1>16, <2>1, <2>3, <2>5 DEF ExactInv
  <2>11. \A j \in Buckets : LeapArray!HalfReset(j)' => EventsAt(j)' = {}
    BY <1>16, <2>1, <2>2, <2>3, <2>5 DEF ExactInv
  <2>12. \A x \in events' : x.op = "pass" => cst(x.time) <= start[idx(x.time)]
    <3>1. cst(e.time) <= start[idx(e.time)]
      BY <1>2, <1>5, <2>1
    <3> QED BY <1>4, <2>1, <2>3, <3>1 DEF ExactInv
  <2> QED BY <2>10, <2>11, <2>12
<1> QED BY <1>0, <1>1, <1>11, <1>13, <1>14, <1>15, <1>17, RecordStep

-----------------------------------------------------------------------------
(* Resetting.  Only who holds the lock does.                               *)
LEMMA OnlyResetter ==
  ASSUME WindowBounds, WindowInv, NEW g \in Goroutines, call[g].pc \in {"store", "value"}
  PROVE  /\ lock = g /\ \A x \in Goroutines : x # g => call[x].pc \notin Resetting
         /\ call[g].time \in Nat /\ call[g].time <= time /\ time \in Nat
         /\ LeapArray!Idx(g) = idx(call[g].time) /\ LeapArray!bucketStart(g) = cst(call[g].time)
         /\ idx(call[g].time) \in Buckets /\ cst(call[g].time) \in Nat /\ cst(call[g].time) <= time
         /\ idx(cst(call[g].time)) = idx(call[g].time)
<1>1. call[g].pc \in Resetting /\ call[g].pc \in Finding
  BY DEF Resetting, Finding
<1>2. lock = g /\ \A x \in Goroutines : x # g => call[x].pc \notin Resetting
  BY <1>1, CallIs
<1>3. call[g].time \in Nat /\ call[g].time <= time /\ time \in Nat
  BY <1>1, CallIs DEF CallOK
<1>4. idx(call[g].time) \in Buckets /\ cst(call[g].time) \in Nat /\ cst(call[g].time) <= call[g].time
      /\ idx(cst(call[g].time)) = idx(call[g].time)
  BY <1>3, StartOf
<1>5. LeapArray!Idx(g) = idx(call[g].time) /\ LeapArray!bucketStart(g) = cst(call[g].time)
  BY DEF LeapArray!Idx, LeapArray!bucketStart, idx, cst
<1>6. cst(call[g].time) <= time
  BY <1>3, <1>4
<1> QED BY <1>2, <1>3, <1>4, <1>5, <1>6

(* ResetBucketTo stores the start: whoever found the bucket before knows   *)
(* from its new start that he is late.                                     *)
LEMMA ResetStartKeeps ==
  ASSUME WindowBounds, WindowInv, NEW g \in Goroutines, LeapArray!ResetStart(g)
  PROVE  WindowInv'
<1>i. PICK i, s, c, d : i = idx(call[g].time) /\ s = cst(call[g].time) /\ c = call[g]
                        /\ d = [c EXCEPT !.pc = "value"]
  OBVIOUS
<1>0. c.pc = "store" /\ UNCHANGED <<time, bucket, lock, events>> /\ call' = [call EXCEPT ![g] = d]
  BY <1>i DEF LeapArray!ResetStart, LeapArray!At, LeapArray!Goto
<1>1. /\ lock = g /\ \A x \in Goroutines : x # g => call[x].pc \notin Resetting
      /\ c.time \in Nat /\ c.time <= time /\ time \in Nat
      /\ LeapArray!Idx(g) = i /\ LeapArray!bucketStart(g) = s
      /\ i \in Buckets /\ s \in Nat /\ s <= time /\ idx(s) = i /\ i = idx(c.time) /\ s = cst(c.time)
  BY <1>i, <1>0, OnlyResetter
<1>2. /\ start' = [start EXCEPT ![i] = s]
      /\ lost' = (lost \/ start[i] >= s)
  BY <1>1 DEF LeapArray!ResetStart
<1>3. WindowTypes /\ BucketsInv /\ ExactInv /\ start \in [Buckets -> Nat]
      /\ (\A j \in Buckets : idx(start[j]) = j) /\ lost \in BOOLEAN
  BY DEF WindowInv, WindowTypes
<1>4. /\ start' \in [Buckets -> Nat] /\ start'[i] = s
      /\ \A j \in Buckets : j # i => start'[j] = start[j]
  BY <1>1, <1>2, <1>3
<1>5. /\ lost' \in BOOLEAN
      /\ lost' = FALSE => lost = FALSE /\ start[i] < s
  <2>1. lost' \in BOOLEAN /\ (lost' = FALSE => lost = FALSE /\ ~(start[i] >= s))
    BY <1>2, <1>3
  <2>2. start[i] \in Nat
    BY <1>1, <1>3
  <2> QED BY <1>1, <2>1, <2>2
<1>6. /\ call'[g] = d /\ \A x \in Goroutines : x # g => call'[x] = call[x]
      /\ DOMAIN call' = Goroutines /\ call' = [x \in Goroutines |-> call'[x]]
  BY <1>0, <1>3, CallChanges
<1>7. CallOK(c) /\ c \in WindowCalls
  BY <1>i, CallIs
<1>8. /\ d \in WindowCalls /\ d.pc = "value"
      /\ d.op = c.op /\ d.value = c.value /\ d.time = c.time /\ d.old = c.old /\ d.from = c.from
      /\ d.to = c.to /\ d.span = c.span /\ d.left = c.left /\ d.picked = c.picked
      /\ d.secs = c.secs /\ d.taken = c.taken /\ d.torn = c.torn
  <2>1. "value" \in WindowLabels
    BY DEF WindowLabels, Finding
  <2> QED BY <1>i, <1>7, <2>1, GoesTo
<1>9. CallOK(d)
  BY <1>0, <1>7, <1>8 DEF CallOK, Finding, Recording, Reading, LoadedAt
<1>10. \A j : LeapArray!HalfReset(j) = FALSE
  BY <1>i, <1>0, <1>1 DEF LeapArray!HalfReset, Resetting
<1>11. \A j : LeapArray!HalfReset(j)' <=> j = i
  <2>1. LeapArray!Idx(g)' = i
    BY <1>1, <1>6, <1>8 DEF LeapArray!Idx, idx
  <2>2. \A x \in Goroutines : x # g => call'[x].pc # "value"
    BY <1>1, <1>6 DEF Resetting
  <2> QED BY <1>6, <1>8, <2>1, <2>2 DEF LeapArray!HalfReset
<1>12. WindowTypes'
  <2>1. LeapArray!Pending' <= LeapArray!Pending /\ LeapArray!Pending' \in Nat /\ LeapArray!Pending \in Nat
    <3>1. call'[g].op = call[g].op /\ DOMAIN call = Goroutines
      BY <1>i, <1>3, <1>6, <1>8 DEF WindowTypes
    <3> QED BY <1>6, <3>1, PendingChanges
  <2>2. Cardinality(events) \in Nat /\ MaxEvents \in Nat
        /\ Cardinality(events) + LeapArray!Pending <= MaxEvents
    BY <1>3, FS_CardinalityType DEF WindowTypes, WindowBounds
  <2>3. Cardinality(events) + LeapArray!Pending' <= MaxEvents
    BY <2>1, <2>2
  <2>4. \A j \in Buckets : idx(start'[j]) = j
    BY <1>1, <1>3, <1>4
  <2> QED BY <1>0, <1>3, <1>4, <1>5, <1>6, <2>3, <2>4 DEF WindowTypes
<1>13. ASSUME NEW j \in Buckets, NEW low, j # i => Sound(j, low)
       PROVE  Sound(j, low)'
  BY <1>0, <1>10, <1>11, <1>13 DEF Sound
<1>14. BucketsInv'
  <2>1. ASSUME NEW j \in Buckets
        PROVE  \/ start'[j] <= time' /\ Sound(j, start[j])'
               \/ bucket'[j] = LeapArray!NewMetricBucket
    <3>1. CASE j = i
      BY <1>0, <1>1, <1>4, <1>11, <3>1 DEF Sound
    <3>2. CASE j # i
      <4>1. PICK low : low = start[j]
        OBVIOUS
      <4>2. Sound(j, low) => Sound(j, low)'
        BY <1>13
      <4>3. Sound(j, low)' => Sound(j, start[j])'
        BY <1>4, <3>2, <4>1 DEF Sound
      <4> QED BY <1>0, <1>3, <1>4, <3>2, <4>1, <4>2, <4>3 DEF BucketsInv
    <3> QED BY <3>1, <3>2
  <2>2. SampleCount = 1 => \A j \in Buckets : start'[j] <= time'
    BY <1>0, <1>1, <1>3, <1>4 DEF BucketsInv
  <2> QED BY <2>1, <2>2 DEF BucketsInv, LeapArray!NewMetricBucket
<1>15. ExactInv'
  <2> SUFFICES ASSUME lost' = FALSE
               PROVE  /\ \A j \in Buckets : LeapArray!HalfReset(j)' \/ bucket[j].count = LeapArray!Total(EventsAt(j)')
                      /\ \A j \in Buckets : LeapArray!HalfReset(j)' => EventsAt(j)' = {}
                      /\ \A e \in events : e.op = "pass" => cst(e.time) <= start'[idx(e.time)]
    BY <1>0 DEF ExactInv
  <2>1. lost = FALSE /\ start[i] < s /\ start[i] \in Nat
    BY <1>1, <1>3, <1>5
  <2>2. \A e \in events : /\ e.op = "pass" => cst(e.time) <= start[idx(e.time)]
                          /\ cst(e.time) \in Nat /\ idx(e.time) \in Buckets
                          /\ idx(cst(e.time)) = idx(e.time)
    BY <1>3, <2>1, StartOf DEF ExactInv, WindowTypes, EventOK
  <2>3. EventsAt(i)' = {}
    <3>1. \A e \in events : ~(e.op = "pass" /\ cst(e.time) = s)
      BY <1>1, <2>1, <2>2
    <3> QED BY <1>0, <1>4, <3>1 DEF EventsAt
  <2>4. ASSUME NEW j \in Buckets, j # i PROVE EventsAt(j)' = EventsAt(j)
    BY <1>0, <1>4, <2>4 DEF EventsAt
  <2>5. \A e \in events : e.op = "pass" => cst(e.time) <= start'[idx(e.time)]
    <3> SUFFICES ASSUME NEW e \in events, e.op = "pass" PROVE cst(e.time) <= start'[idx(e.time)]
      OBVIOUS
    <3>1. CASE idx(e.time) = i
      BY <1>1, <1>4, <2>1, <2>2, <3>1
    <3>2. CASE idx(e.time) # i
      BY <1>4, <2>2, <3>2
    <3> QED BY <3>1, <3>2
  <2>6. ASSUME NEW j \in Buckets, j # i PROVE bucket[j].count = LeapArray!Total(EventsAt(j)')
    BY <1>3, <1>10, <2>1, <2>4, <2>6 DEF ExactInv
  <2> QED BY <1>11, <2>3, <2>5, <2>6
<1>16. GoroutineOK(g)'
  <2>1. LeapArray!Idx(g)' = i /\ LeapArray!bucketStart(g)' = s
    BY <1>1, <1>6, <1>8 DEF LeapArray!Idx, LeapArray!bucketStart, idx, cst
  <2>2. d.pc \in Resetting /\ d.pc \notin Recording /\ d.pc \notin Reading
    BY <1>8 DEF Resetting, Recording, LoadedAt, Reading
  <2>3. ResetterOK(g)'
    BY <1>0, <1>1, <1>4, <1>6, <2>1, <2>2 DEF ResetterOK
  <2> QED BY <1>0, <1>1, <1>6, <1>8, <1>9, <2>2, <2>3 DEF GoroutineOK, WriterOK, ReaderOK
<1>17. ASSUME NEW x \in Goroutines, x # g PROVE GoroutineOK(x)'
  <2>0. GoroutineOK(x) /\ call'[x] = call[x] /\ call[x] \in WindowCalls /\ CallOK(call[x])
        /\ call[x].pc \notin Resetting
    BY <1>1, <1>6, <1>17, CallIs DEF WindowInv
  <2>1. LeapArray!Idx(x)' = LeapArray!Idx(x) /\ LeapArray!bucketStart(x)' = LeapArray!bucketStart(x)
    BY <2>0 DEF LeapArray!Idx, LeapArray!bucketStart
  <2>2. ResetterOK(x)'
    <3>1. call[x].pc \notin {"value", "unlock"} /\ lock # x
      BY <1>1, <1>17, <2>0 DEF Resetting
    <3> QED BY <1>0, <2>0, <3>1 DEF ResetterOK
  <2>3. WriterOK(x)'
    <3> SUFFICES ASSUME call[x].pc \in Recording PROVE WriterOK(x)'
      BY <2>0 DEF WriterOK
    <3>k. PICK k, b : k = LeapArray!Idx(x) /\ b = LeapArray!bucketStart(x)
      OBVIOUS
    <3>1. call[x].time \in Nat
      BY <2>0 DEF CallOK
    <3>2. k \in Buckets /\ b \in Nat
      BY <3>k, <3>1, StartOf DEF LeapArray!Idx, LeapArray!bucketStart, idx, cst
    <3>3. /\ start[k] <= time
          /\ lost = FALSE =>
               /\ start[k] >= b
               /\ call[x].pc \in LoadedAt /\ call[x].old = TRUE => start[k] > b
      BY <2>0, <3>k DEF GoroutineOK, WriterOK
    <3>4. /\ start'[k] <= time
          /\ lost' = FALSE =>
               /\ start'[k] >= b
               /\ call[x].pc \in LoadedAt /\ (call[x].old = TRUE \/ LeapArray!HalfReset(k)')
                  => start'[k] > b
      <4>1. CASE k = i
        <5>1. start'[k] = s /\ start[k] \in Nat /\ (lost' = FALSE => lost = FALSE /\ start[k] < s)
          BY <1>3, <1>4, <1>5, <3>2, <4>1
        <5> QED BY <1>1, <3>2, <3>3, <5>1
      <4>2. CASE k # i
        <5>1. start'[k] = start[k] /\ (lost' = FALSE => lost = FALSE) /\ ~LeapArray!HalfReset(k)'
          BY <1>4, <1>5, <1>11, <3>2, <4>2
        <5> QED BY <3>3, <5>1
      <4> QED BY <4>1, <4>2
    <3>5. LeapArray!HalfReset(LeapArray!Idx(x))' <=> LeapArray!HalfReset(k)'
      BY <2>1, <3>k DEF LeapArray!HalfReset
    <3> QED BY <1>0, <2>0, <2>1, <3>k, <3>4, <3>5 DEF WriterOK
  <2>4. ReaderOK(x)'
    <3> SUFFICES ASSUME call[x].pc \in Reading PROVE ReaderOK(x)'
      BY <2>0 DEF ReaderOK
    <3>1. PICK k : k = call[x]
      OBVIOUS
    <3>2. Ahead(k) /\ Behind(k, events)
      BY <2>0, <3>1 DEF GoroutineOK, ReaderOK
    <3>3. k.picked \in SUBSET Buckets /\ k.left \in SUBSET Buckets
      BY <2>0, <3>1 DEF WindowCalls
    <3>4. Seen(k) \in SUBSET Buckets /\ Grouped(k) \in SUBSET Buckets
      BY <3>3 DEF Seen, Grouped
    <3>5. \A j \in Seen(k) : start'[j] <= time /\ LowOf(k) <= time /\ Sound(j, LowOf(k))'
      BY <1>1, <1>4, <1>13, <3>2, <3>4 DEF Ahead
    <3>6. k.pc # "scan" => \A j \in Grouped(k) : k.secs[j] <= time /\ Sound(j, k.secs[j])'
      BY <1>13, <3>2, <3>4 DEF Ahead
    <3>7. Ahead(k)'
      BY <1>0, <3>5, <3>6 DEF Ahead
    <3> QED BY <1>0, <2>0, <3>1, <3>2, <3>7 DEF ReaderOK
  <2> QED BY <1>0, <2>0, <2>2, <2>3, <2>4 DEF GoroutineOK
<1> QED BY <1>12, <1>14, <1>15, <1>16, <1>17 DEF WindowInv

(* A reader whose call has the same in all but its old.                    *)
LEMMA SameReader ==
  ASSUME NEW c, NEW d, NEW es, d.pc = c.pc, d.op = c.op, d.time = c.time, d.from = c.from,
         d.span = c.span, d.left = c.left, d.picked = c.picked, d.secs = c.secs, d.taken = c.taken,
         d.torn = c.torn
  PROVE  /\ LowOf(d) = LowOf(c) /\ Seen(d) = Seen(c) /\ Grouped(d) = Grouped(c)
         /\ Behind(c, es) => Behind(d, es)
<1>1. LowOf(d) = LowOf(c) /\ Seen(d) = Seen(c) /\ Grouped(d) = Grouped(c)
  BY DEF LowOf, Seen, Grouped
<1> QED BY <1>1 DEF Behind

(* Then the MetricBucket: whoever has loaded the old one records in vain.  *)
LEMMA ResetValueKeeps ==
  ASSUME WindowBounds, WindowInv, NEW g \in Goroutines, LeapArray!ResetValue(g)
  PROVE  WindowInv'
<1>i. PICK i, c : i = idx(call[g].time) /\ c = call[g]
  OBVIOUS
<1>0. c.pc = "value" /\ UNCHANGED <<time, start, lock, events, lost>>
  BY <1>i DEF LeapArray!ResetValue, LeapArray!At
<1>1. /\ lock = g /\ \A x \in Goroutines : x # g => call[x].pc \notin Resetting
      /\ c.time \in Nat /\ c.time <= time /\ time \in Nat
      /\ LeapArray!Idx(g) = i /\ LeapArray!bucketStart(g) = cst(c.time)
      /\ i \in Buckets /\ i = idx(c.time)
  BY <1>i, <1>0, OnlyResetter
<1>2. /\ bucket' = [bucket EXCEPT ![i] = LeapArray!NewMetricBucket]
      /\ call' = [x \in Goroutines |->
           IF x = g THEN [call[x] EXCEPT !.pc = "unlock"]
           ELSE [call[x] EXCEPT !.old = @ \/ LeapArray!Loaded(x, i)]]
  BY <1>1 DEF LeapArray!ResetValue
<1>3. WindowTypes /\ BucketsInv /\ ExactInv /\ start \in [Buckets -> Nat]
      /\ bucket \in [Buckets -> MetricBuckets]
      /\ (\A j \in Buckets : idx(start[j]) = j) /\ lost \in BOOLEAN
      /\ IsFiniteSet(events) /\ (\A e \in events : EventOK(e)) /\ DOMAIN call = Goroutines
  BY DEF WindowInv, WindowTypes
<1>4. LeapArray!NewMetricBucket \in MetricBuckets /\ LeapArray!NewMetricBucket.count = 0
  BY DEF LeapArray!NewMetricBucket, MetricBuckets, WindowBounds
<1>5. /\ bucket' \in [Buckets -> MetricBuckets] /\ bucket'[i] = LeapArray!NewMetricBucket
      /\ \A j \in Buckets : j # i => bucket'[j] = bucket[j]
  BY <1>1, <1>2, <1>3, <1>4
<1>6. PICK d : d = [c EXCEPT !.pc = "unlock"]
  OBVIOUS
<1>7. /\ call'[g] = d /\ DOMAIN call' = Goroutines
      /\ \A x \in Goroutines : x # g => call'[x] = [call[x] EXCEPT !.old = @ \/ LeapArray!Loaded(x, i)]
      /\ call' = [x \in Goroutines |-> call'[x]]
  BY <1>i, <1>2, <1>6
<1>8. CallOK(c) /\ c \in WindowCalls
  BY <1>i, CallIs
<1>9. /\ d \in WindowCalls /\ d.pc = "unlock"
      /\ d.op = c.op /\ d.value = c.value /\ d.time = c.time /\ d.old = c.old /\ d.from = c.from
      /\ d.to = c.to /\ d.span = c.span /\ d.left = c.left /\ d.picked = c.picked
      /\ d.secs = c.secs /\ d.taken = c.taken /\ d.torn = c.torn
  <2>1. "unlock" \in WindowLabels
    BY DEF WindowLabels, Finding
  <2> QED BY <1>6, <1>8, <2>1, GoesTo
<1>10. CallOK(d)
  BY <1>0, <1>8, <1>9 DEF CallOK, Finding, Recording, Reading, LoadedAt
<1>11. ASSUME NEW x \in Goroutines, x # g
       PROVE  /\ call'[x] \in WindowCalls /\ call'[x].pc = call[x].pc /\ call'[x].op = call[x].op
              /\ call'[x].time = call[x].time /\ call'[x].from = call[x].from
              /\ call'[x].span = call[x].span /\ call'[x].left = call[x].left
              /\ call'[x].picked = call[x].picked /\ call'[x].secs = call[x].secs
              /\ call'[x].taken = call[x].taken /\ call'[x].torn = call[x].torn
              /\ call'[x].old = TRUE =>
                   call[x].old = TRUE \/ (call[x].pc \in LoadedAt /\ LeapArray!Idx(x) = i)
  <2>1. PICK b \in BOOLEAN : b = (call[x].old \/ LeapArray!Loaded(x, i))
    OBVIOUS
  <2>2. call'[x] = [call[x] EXCEPT !.old = b]
    BY <1>7, <1>11, <2>1
  <2>3. call[x] \in WindowCalls
    BY CallIs
  <2>4. /\ call'[x] \in WindowCalls /\ call'[x].pc = call[x].pc /\ call'[x].op = call[x].op
        /\ call'[x].time = call[x].time /\ call'[x].from = call[x].from
        /\ call'[x].span = call[x].span /\ call'[x].left = call[x].left
        /\ call'[x].picked = call[x].picked /\ call'[x].secs = call[x].secs
        /\ call'[x].taken = call[x].taken /\ call'[x].torn = call[x].torn
        /\ call'[x].old = b
    BY <2>2, <2>3 DEF WindowCalls
  <2>5. call[x].old \in BOOLEAN
    BY <2>3 DEF WindowCalls
  <2>6. b = TRUE => call[x].old = TRUE \/ LeapArray!Loaded(x, i)
    BY <2>1, <2>5
  <2>7. LeapArray!Loaded(x, i) => call[x].pc \in LoadedAt /\ LeapArray!Idx(x) = i
    BY DEF LeapArray!Loaded, LoadedAt
  <2> QED BY <2>4, <2>6, <2>7
<1>12. /\ \A j \in Buckets : j # i => LeapArray!HalfReset(j) = FALSE
       /\ LeapArray!HalfReset(i)
  BY <1>i, <1>0, <1>1 DEF LeapArray!HalfReset, Resetting
<1>13. \A j : LeapArray!HalfReset(j)' = FALSE
  <2>1. \A x \in Goroutines : call'[x].pc # "value"
    <3>1. \A x \in Goroutines : x # g => call'[x].pc = call[x].pc
      BY <1>11
    <3>2. \A x \in Goroutines : x # g => call[x].pc # "value"
      BY <1>1 DEF Resetting
    <3>3. call'[g].pc # "value"
      BY <1>7, <1>9
    <3> QED BY <3>1, <3>2, <3>3
  <2> QED BY <2>1 DEF LeapArray!HalfReset
<1>14. WindowTypes'
  <2>1. LeapArray!Pending' = LeapArray!Pending
    <3>1. \A x \in Goroutines : call'[x].op = call[x].op
      BY <1>i, <1>7, <1>9, <1>11
    <3> QED BY <3>1 DEF LeapArray!Pending
  <2> QED BY <1>0, <1>3, <1>5, <1>7, <2>1 DEF WindowTypes
<1>15. ASSUME NEW j \in Buckets, NEW low, j # i => Sound(j, low)
       PROVE  Sound(j, low)'
  <2>1. CASE j = i
    <3>1. Within(LeapArray!NewMetricBucket, i, low, events)
      BY <1>3, NothingWithin
    <3> QED BY <1>0, <1>5, <2>1, <3>1 DEF Sound
  <2>2. CASE j # i
    BY <1>0, <1>5, <1>12, <1>15, <2>2 DEF Sound
  <2> QED BY <2>1, <2>2
<1>16. BucketsInv'
  <2>1. ASSUME NEW j \in Buckets
        PROVE  \/ start'[j] <= time' /\ Sound(j, start[j])'
               \/ bucket'[j] = LeapArray!NewMetricBucket
    <3>1. CASE j = i
      BY <1>5, <3>1
    <3>2. CASE j # i
      <4>1. PICK low : low = start[j]
        OBVIOUS
      <4>2. Sound(j, low) => Sound(j, low)'
        BY <1>15
      <4>3. Sound(j, low)' => Sound(j, start[j])'
        BY <1>0, <4>1 DEF Sound
      <4> QED BY <1>0, <1>3, <1>5, <3>2, <4>1, <4>2, <4>3 DEF BucketsInv
    <3> QED BY <3>1, <3>2
  <2>2. SampleCount = 1 => \A j \in Buckets : start'[j] <= time'
    BY <1>0, <1>3 DEF BucketsInv
  <2> QED BY <2>1, <2>2 DEF BucketsInv, LeapArray!NewMetricBucket
<1>17. ExactInv'
  <2> SUFFICES ASSUME lost = FALSE
               PROVE  /\ \A j \in Buckets : bucket'[j].count = LeapArray!Total(EventsAt(j))
                      /\ \A e \in events : e.op = "pass" => cst(e.time) <= start[idx(e.time)]
    BY <1>0, <1>13 DEF ExactInv, EventsAt
  <2>1. bucket'[i].count = LeapArray!Total(EventsAt(i))
    <3>1. EventsAt(i) = {}
      BY <1>1, <1>3, <1>12 DEF ExactInv
    <3> QED BY <1>4, <1>5, <3>1, TotalEmpty
  <2>2. ASSUME NEW j \in Buckets, j # i PROVE bucket'[j].count = LeapArray!Total(EventsAt(j))
    BY <1>3, <1>5, <1>12, <2>2 DEF ExactInv
  <2> QED BY <1>3, <2>1, <2>2 DEF ExactInv
<1>18. GoroutineOK(g)'
  <2>1. LeapArray!Idx(g)' = i /\ LeapArray!bucketStart(g)' = cst(c.time)
    BY <1>1, <1>7, <1>9 DEF LeapArray!Idx, LeapArray!bucketStart, idx, cst
  <2>2. d.pc \in Resetting /\ d.pc \notin Recording /\ d.pc \notin Reading
    BY <1>9 DEF Resetting, Recording, LoadedAt, Reading
  <2>3. start[i] = cst(c.time)
    BY <1>i, <1>0, <1>1 DEF WindowInv, GoroutineOK, ResetterOK
  <2>4. ResetterOK(g)'
    BY <1>0, <1>1, <1>7, <2>1, <2>2, <2>3 DEF ResetterOK
  <2> QED BY <1>0, <1>1, <1>7, <1>9, <1>10, <2>2, <2>4 DEF GoroutineOK, WriterOK, ReaderOK
<1>19. ASSUME NEW x \in Goroutines, x # g PROVE GoroutineOK(x)'
  <2>k. PICK k, m : k = call[x] /\ m = call'[x]
    OBVIOUS
  <2>0. GoroutineOK(x) /\ k \in WindowCalls /\ CallOK(k) /\ k.pc \notin Resetting
    BY <1>1, <1>19, <2>k, CallIs DEF WindowInv
  <2>1. /\ m \in WindowCalls /\ m.pc = k.pc /\ m.op = k.op
        /\ m.time = k.time /\ m.from = k.from
        /\ m.span = k.span /\ m.left = k.left
        /\ m.picked = k.picked /\ m.secs = k.secs
        /\ m.taken = k.taken /\ m.torn = k.torn
        /\ m.old = TRUE => k.old = TRUE \/ (k.pc \in LoadedAt /\ LeapArray!Idx(x) = i)
    BY <1>11, <1>19, <2>k
  <2>2. LeapArray!Idx(x)' = LeapArray!Idx(x) /\ LeapArray!bucketStart(x)' = LeapArray!bucketStart(x)
    BY <2>k, <2>1 DEF LeapArray!Idx, LeapArray!bucketStart
  <2>3. CallOK(m)
    <3>1. m.old \in BOOLEAN
      BY <2>1 DEF WindowCalls
    <3>2. k.pc \notin LoadedAt => m.old = FALSE
      BY <2>0, <2>1, <3>1 DEF CallOK
    <3> QED BY <2>0, <2>1, <3>2 DEF CallOK
  <2>4. ResetterOK(x)'
    <3>1. k.pc \notin {"value", "unlock"} /\ lock # x
      BY <1>1, <1>19, <2>0 DEF Resetting
    <3> QED BY <1>0, <2>k, <2>0, <2>1, <3>1 DEF ResetterOK
  <2>5. WriterOK(x)'
    <3> SUFFICES ASSUME k.pc \in Recording PROVE WriterOK(x)'
      BY <2>k, <2>1 DEF WriterOK
    <3>1. /\ start[LeapArray!Idx(x)] <= time
          /\ lost = FALSE =>
               /\ start[LeapArray!Idx(x)] >= LeapArray!bucketStart(x)
               /\ k.pc \in LoadedAt /\ (k.old = TRUE \/ LeapArray!HalfReset(LeapArray!Idx(x)))
                  => start[LeapArray!Idx(x)] > LeapArray!bucketStart(x)
      BY <2>k, <2>0 DEF GoroutineOK, WriterOK
    <3>2. LeapArray!HalfReset(LeapArray!Idx(x))' = FALSE
      BY <1>13, <2>2 DEF LeapArray!HalfReset
    <3> QED BY <1>0, <1>12, <2>k, <2>1, <2>2, <3>1, <3>2 DEF WriterOK
  <2>6. ReaderOK(x)'
    <3> SUFFICES ASSUME k.pc \in Reading PROVE Ahead(m)' /\ Behind(m, events)
      BY <1>0, <2>k, <2>1 DEF ReaderOK
    <3>1. Ahead(k) /\ Behind(k, events)
      BY <2>k, <2>0 DEF GoroutineOK, ReaderOK
    <3>2. LowOf(m) = LowOf(k) /\ Seen(m) = Seen(k) /\ Grouped(m) = Grouped(k) /\ Behind(m, events)
      BY <2>1, <3>1, SameReader
    <3>3. k.picked \in SUBSET Buckets /\ k.left \in SUBSET Buckets
      BY <2>0 DEF WindowCalls
    <3>4. Seen(k) \in SUBSET Buckets /\ Grouped(k) \in SUBSET Buckets
      BY <3>3 DEF Seen, Grouped
    <3>5. \A j \in Seen(k) : start[j] <= time /\ LowOf(k) <= time /\ Sound(j, LowOf(k))'
      BY <1>15, <3>1, <3>4 DEF Ahead
    <3>6. k.pc # "scan" => \A j \in Grouped(k) : k.secs[j] <= time /\ Sound(j, k.secs[j])'
      BY <1>15, <3>1, <3>4 DEF Ahead
    <3>7. Ahead(m)'
      BY <1>0, <2>1, <3>2, <3>5, <3>6 DEF Ahead
    <3> QED BY <3>2, <3>7
  <2> QED BY <1>0, <2>k, <2>0, <2>1, <2>3, <2>4, <2>5, <2>6 DEF GoroutineOK
<1> QED BY <1>14, <1>16, <1>17, <1>18, <1>19 DEF WindowInv

-----------------------------------------------------------------------------
(* Time passes.                                                            *)
LEMMA TickKeeps ==
  ASSUME WindowBounds, WindowInv, LeapArray!Tick
  PROVE  WindowInv'
<1>1. time \in Nat /\ time' = time + 1 /\ UNCHANGED <<start, bucket, lock, call, events, lost>>
  BY DEF LeapArray!Tick, WindowInv, WindowTypes
<1>2. time' \in Nat /\ time <= time'
  BY <1>1
<1>3. ASSUME NEW j PROVE LeapArray!HalfReset(j)' <=> LeapArray!HalfReset(j)
  BY <1>1 DEF LeapArray!HalfReset, LeapArray!Idx
<1>4. ASSUME NEW j, NEW low PROVE Sound(j, low)' <=> Sound(j, low)
  BY <1>1, <1>3 DEF Sound
<1>5. start \in [Buckets -> Nat]
  BY DEF WindowInv, WindowTypes
<1>6. WindowTypes'
  <2>1. LeapArray!Pending' = LeapArray!Pending
    BY <1>1 DEF LeapArray!Pending
  <2>2. WindowStart <= time'
    BY <1>1 DEF WindowInv, WindowTypes, WindowBounds
  <2> QED BY <1>1, <1>2, <2>1, <2>2 DEF WindowInv, WindowTypes
<1>7. BucketsInv'
  <2>1. \A j \in Buckets : start[j] <= time => start[j] <= time'
    BY <1>1, <1>5
  <2>2. ASSUME NEW j PROVE Sound(j, start[j])' <=> Sound(j, start[j])
    BY <1>1, <1>3 DEF Sound
  <2> QED BY <1>1, <2>1, <2>2 DEF WindowInv, BucketsInv, LeapArray!NewMetricBucket
<1>8. ExactInv'
  BY <1>1, <1>3 DEF WindowInv, ExactInv, EventsAt
<1>9. ASSUME NEW x \in Goroutines PROVE GoroutineOK(x)'
  <2>k. PICK k : k = call[x]
    OBVIOUS
  <2>0. GoroutineOK(x) /\ k \in WindowCalls /\ CallOK(k) /\ k.time \in Int /\ k.time <= time
    BY <2>k, CallIs DEF WindowInv
  <2>1. k.time <= time'
    BY <1>1, <2>0
  <2>2. LeapArray!Idx(x)' = LeapArray!Idx(x) /\ LeapArray!bucketStart(x)' = LeapArray!bucketStart(x)
    BY <1>1 DEF LeapArray!Idx, LeapArray!bucketStart
  <2>3. ResetterOK(x)'
    BY <1>1, <2>0, <2>2 DEF GoroutineOK, ResetterOK
  <2>4. WriterOK(x)'
    <3> SUFFICES ASSUME k.pc \in Recording PROVE WriterOK(x)'
      BY <1>1, <2>k DEF WriterOK
    <3>1. k.time \in Nat
      BY <2>0 DEF CallOK
    <3>2. LeapArray!Idx(x) \in Buckets
      BY <2>k, <3>1, StartOf DEF LeapArray!Idx, idx
    <3>3. start[LeapArray!Idx(x)] <= time'
      BY <1>1, <1>5, <2>k, <2>0, <3>2 DEF GoroutineOK, WriterOK
    <3>4. LeapArray!HalfReset(LeapArray!Idx(x))' <=> LeapArray!HalfReset(LeapArray!Idx(x))
      BY <1>3, <2>2 DEF LeapArray!HalfReset
    <3> QED BY <1>1, <2>k, <2>0, <2>2, <3>3, <3>4 DEF GoroutineOK, WriterOK
  <2>5. ReaderOK(x)'
    <3> SUFFICES ASSUME k.pc \in Reading PROVE Ahead(k)' /\ Behind(k, events)
      BY <1>1, <2>k DEF ReaderOK
    <3>1. Ahead(k) /\ Behind(k, events)
      BY <2>k, <2>0 DEF GoroutineOK, ReaderOK
    <3>2. k.picked \in SUBSET Buckets /\ k.left \in SUBSET Buckets /\ k.secs \in [Buckets -> Int]
      BY <2>0 DEF WindowCalls
    <3>3. Seen(k) \in SUBSET Buckets /\ Grouped(k) \in SUBSET Buckets
      BY <3>2 DEF Seen, Grouped
    <3>4. LowOf(k) \in Int
      BY <2>0, LowIsInt
    <3>5. \A j \in Seen(k) : start[j] <= time' /\ LowOf(k) <= time' /\ Sound(j, LowOf(k))'
      <4>1. \A j \in Seen(k) : start[j] <= time /\ LowOf(k) <= time /\ Sound(j, LowOf(k)) /\ start[j] \in Nat
        BY <1>5, <3>1, <3>3 DEF Ahead
      <4>2. \A j \in Seen(k) : start[j] <= time' /\ LowOf(k) <= time'
        BY <1>1, <3>4, <4>1
      <4> QED BY <1>4, <4>1, <4>2
    <3>6. k.pc # "scan" => \A j \in Grouped(k) : k.secs[j] <= time' /\ Sound(j, k.secs[j])'
      <4>1. k.pc # "scan" =>
              \A j \in Grouped(k) : k.secs[j] <= time /\ Sound(j, k.secs[j]) /\ k.secs[j] \in Int
        BY <3>1, <3>2, <3>3 DEF Ahead
      <4>2. k.pc # "scan" => \A j \in Grouped(k) : k.secs[j] <= time'
        BY <1>1, <4>1
      <4> QED BY <1>4, <4>1, <4>2
    <3> QED BY <1>1, <3>1, <3>5, <3>6 DEF Ahead
  <2> QED BY <1>1, <2>k, <2>0, <2>1, <2>3, <2>4, <2>5 DEF GoroutineOK
<1> QED BY <1>6, <1>7, <1>8, <1>9 DEF WindowInv

-----------------------------------------------------------------------------
(* At first.  The buckets have the starts that belong to them.             *)
LEMMA FirstStarts ==
  ASSUME WindowBounds, NEW i \in Buckets
  PROVE  LET s == cst(WindowStart) + BucketLength * ((i - idx(WindowStart) + SampleCount) % SampleCount)
         IN s \in Nat /\ idx(s) = i /\ (SampleCount = 1 => s <= WindowStart)
<1> DEFINE q == WindowStart \div BucketLength
           r == q % SampleCount
           a == q \div SampleCount
           n == i - r + SampleCount
           k == n % SampleCount
           s == cst(WindowStart) + BucketLength * k
<1>1. WindowStart \in Nat /\ q \in Nat
  BY DEF WindowBounds
<1>2. idx(WindowStart) = r
  BY DEF idx, LeapArray!calculateTimeIdx
<1>3. r \in 0 .. (SampleCount - 1) /\ a \in Int /\ q = SampleCount * a + r
  <2> HIDE DEF q
  <2> QED BY <1>1, Division DEF WindowBounds
<1>4. SampleCount \in Nat \ {0} /\ BucketLength \in Nat \ {0} /\ i \in 0 .. (SampleCount - 1)
  BY DEF WindowBounds, Buckets, LeapArray!Buckets
<1>5. cst(WindowStart) = BucketLength * q
  <2> DEFINE b == WindowStart % BucketLength
             p == BucketLength * q
  <2>1. b \in 0 .. (BucketLength - 1) /\ WindowStart = p + b
    BY <1>1, Division DEF WindowBounds
  <2>2. p \in Int
    BY <1>1, <1>4
  <2>3. cst(WindowStart) = WindowStart - b
    BY DEF cst, LeapArray!calculateStartTime
  <2> HIDE DEF b, p
  <2>4. cst(WindowStart) = p
    BY <1>1, <1>4, <2>1, <2>2, <2>3
  <2> QED BY <2>4 DEF p
<1> HIDE DEF q, r, a
<1>6. n \in Int /\ k \in 0 .. (SampleCount - 1)
  <2>1. n \in Int
    BY <1>3, <1>4
  <2> HIDE DEF n
  <2> QED BY <1>4, <2>1, Division
<1>7. \E b \in Int : q + k = SampleCount * b + i
  <2>1. CASE i >= r
    <3>1. i - r \in 0 .. (SampleCount - 1)
      BY <1>3, <1>4, <2>1
    <3>2. (SampleCount * 1 + (i - r)) % SampleCount = i - r
      <4> DEFINE z == i - r
      <4> HIDE DEF z
      <4>1. z \in 0 .. (SampleCount - 1)
        BY <3>1 DEF z
      <4>2. (SampleCount * 1 + z) % SampleCount = z
        BY <1>4, <4>1, Quotient
      <4> QED BY <4>2 DEF z
    <3>3. n = SampleCount * 1 + (i - r)
      BY <1>3, <1>4
    <3>4. k = i - r
      BY <3>2, <3>3
    <3> DEFINE p == SampleCount * a
    <3>5. p \in Int
      BY <1>3, <1>4
    <3> HIDE DEF k, p
    <3>6. q + k = p + i
      BY <1>3, <1>4, <3>4, <3>5 DEF p
    <3> QED BY <1>3, <3>6 DEF p
  <2>2. CASE i < r
    <3>1. n \in 0 .. (SampleCount - 1)
      BY <1>3, <1>4, <2>2
    <3>2. k = n
      <4> HIDE DEF n
      <4>1. (SampleCount * 0 + n) % SampleCount = n
        BY <1>4, <3>1, Quotient
      <4>2. SampleCount * 0 + n = n
        BY <1>4, <3>1
      <4> QED BY <4>1, <4>2
    <3> DEFINE p == SampleCount * a
    <3>3. p \in Int
      BY <1>3, <1>4
    <3> HIDE DEF k, p
    <3>4. q + k = p + SampleCount + i
      BY <1>3, <1>4, <3>2, <3>3 DEF p
    <3>5. SampleCount * (a + 1) = p + SampleCount
      BY <1>3, <1>4 DEF p
    <3>6. a + 1 \in Int /\ q + k = SampleCount * (a + 1) + i
      BY <1>3, <1>4, <3>3, <3>4, <3>5
    <3> QED BY <3>6
  <2> QED BY <1>3, <1>4, <2>1, <2>2
<1> HIDE DEF k
<1>8. (q + k) % SampleCount = i
  <2>1. PICK b \in Int : q + k = SampleCount * b + i
    BY <1>7
  <2>2. (SampleCount * b + i) % SampleCount = i
    BY <1>4, Quotient
  <2> QED BY <2>1, <2>2
<1>9. s = BucketLength * (q + k)
  <2>1. BucketLength * (q + k) = BucketLength * q + BucketLength * k
    BY <1>1, <1>4, <1>6
  <2> QED BY <1>5, <2>1
<1>10. q + k \in Nat
  BY <1>1, <1>4, <1>6
<1>11. s \in Nat /\ s \div BucketLength = q + k
  <2> DEFINE m == q + k
  <2> HIDE DEF m
  <2>1. (BucketLength * m + 0) \div BucketLength = m
    <3>1. 0 \in 0 .. (BucketLength - 1) /\ m \in Int
      BY <1>4, <1>10 DEF m
    <3> QED BY <1>4, <3>1, Quotient
  <2>2. BucketLength * m \in Nat
    BY <1>4, <1>10 DEF m
  <2> QED BY <1>9, <2>1, <2>2 DEF m
<1> HIDE DEF s
<1>12. idx(s) = i
  BY <1>8, <1>11 DEF idx, LeapArray!calculateTimeIdx
<1>13. SampleCount = 1 => s <= WindowStart
  <2> SUFFICES ASSUME SampleCount = 1 PROVE s <= WindowStart
    OBVIOUS
  <2>1. k = 0
    BY <1>6
  <2>2. cst(WindowStart) \in Nat /\ cst(WindowStart) <= WindowStart
    BY <1>1, StartOf
  <2> QED BY <1>4, <2>1, <2>2 DEF s
<1> QED BY <1>2, <1>11, <1>12, <1>13 DEF s, k

(* The array begins empty.                                                 *)
LEMMA WindowStarts ==
  ASSUME WindowBounds, LeapArray!Init
  PROVE  WindowInv
<1> DEFINE d == LeapArray!Idle
<1>1. /\ time = WindowStart /\ bucket = [i \in Buckets |-> LeapArray!NewMetricBucket]
      /\ start = [i \in Buckets |->
           cst(WindowStart) + BucketLength * ((i - idx(WindowStart) + SampleCount) % SampleCount)]
      /\ lock = NoGoroutine /\ call = [x \in Goroutines |-> d] /\ events = {} /\ lost = FALSE
  BY DEF LeapArray!Init, Buckets, cst, idx
<1>2. CallOK(d) /\ d.pc = "out" /\ d.op = "none" /\ d.time = WindowStart
  BY IdleIs
<1> HIDE DEF d
<1>3. \A i \in Buckets : start[i] \in Nat /\ idx(start[i]) = i /\ (SampleCount = 1 => start[i] <= WindowStart)
  BY <1>1, FirstStarts
<1>4. start \in [Buckets -> Nat]
  <2>1. start = [i \in Buckets |-> start[i]]
    BY <1>1
  <2> QED BY <1>3, <2>1
<1>5. LeapArray!NewMetricBucket \in MetricBuckets /\ LeapArray!NewMetricBucket.count = 0
  BY DEF LeapArray!NewMetricBucket, MetricBuckets, WindowBounds
<1>6. \A x \in Goroutines : call[x] = d
  BY <1>1
<1>7. WindowTypes
  <2>1. LeapArray!Pending = 0
    <3>1. {x \in Goroutines : call[x].op \in LeapArray!Writes} = {}
      BY <1>2, <1>6 DEF LeapArray!Writes
    <3> QED BY <3>1, SizeIs, FS_EmptySet DEF LeapArray!Pending
  <2>2. IsFiniteSet(events) /\ Cardinality(events) = 0
    BY <1>1, FS_EmptySet
  <2>3. Cardinality(events) + LeapArray!Pending <= MaxEvents
    BY <2>1, <2>2 DEF WindowBounds
  <2>4. bucket \in [Buckets -> MetricBuckets] /\ DOMAIN call = Goroutines
        /\ call = [x \in Goroutines |-> call[x]]
    BY <1>1, <1>5
  <2>5. time \in Nat /\ WindowStart <= time /\ lost \in BOOLEAN
    <3>1. time = WindowStart /\ lost = FALSE
      BY <1>1
    <3>2. WindowStart \in Nat /\ WindowStart <= WindowStart
      BY DEF WindowBounds
    <3> QED BY <3>1, <3>2
  <2> QED BY <1>1, <1>3, <1>4, <2>2, <2>3, <2>4, <2>5 DEF WindowTypes
<1>8. \A j : LeapArray!HalfReset(j) = FALSE
  BY <1>2, <1>6 DEF LeapArray!HalfReset
<1>9. BucketsInv
  BY <1>1, <1>3 DEF BucketsInv
<1>10. ExactInv
  <2>1. \A i \in Buckets : bucket[i].count = LeapArray!Total(EventsAt(i))
    <3>1. \A i \in Buckets : EventsAt(i) = {}
      BY <1>1 DEF EventsAt
    <3> QED BY <1>1, <1>5, <3>1, TotalEmpty
  <2> QED BY <1>1, <1>8, <2>1 DEF ExactInv
<1>11. ASSUME NEW x \in Goroutines PROVE GoroutineOK(x)
  <2>1. d.pc \notin Resetting /\ d.pc \notin Recording /\ d.pc \notin Reading
        /\ d.pc \notin {"value", "unlock"}
    BY <1>2 DEF Resetting, Recording, Reading, LoadedAt
  <2>2. lock # x /\ d.time <= time
    BY <1>1, <1>2 DEF WindowBounds
  <2> QED BY <1>2, <1>6, <2>1, <2>2 DEF GoroutineOK, ResetterOK, WriterOK, ReaderOK
<1> QED BY <1>7, <1>9, <1>10, <1>11 DEF WindowInv

(* Every step keeps the invariant.                                         *)
LEMMA WindowKeeps ==
  ASSUME WindowBounds, WindowInv, [LeapArray!Next]_(LeapArray!vars)
  PROVE  WindowInv'
<1>1. CASE UNCHANGED LeapArray!vars
  <2>1. UNCHANGED <<time, start, bucket, lock, call, events, lost>>
    BY <1>1 DEF LeapArray!vars
  <2>2. ASSUME NEW j PROVE LeapArray!HalfReset(j)' <=> LeapArray!HalfReset(j)
    BY <2>1 DEF LeapArray!HalfReset, LeapArray!Idx
  <2>3. ASSUME NEW j, NEW low PROVE Sound(j, low)' <=> Sound(j, low)
    BY <2>1, <2>2 DEF Sound
  <2>4. LeapArray!Pending' = LeapArray!Pending
    BY <2>1 DEF LeapArray!Pending
  <2>5. WindowTypes'
    BY <2>1, <2>4 DEF WindowInv, WindowTypes
  <2>6. BucketsInv'
    <3>1. ASSUME NEW j PROVE Sound(j, start[j])' <=> Sound(j, start[j])
      BY <2>1, <2>2 DEF Sound
    <3> QED BY <2>1, <3>1 DEF WindowInv, BucketsInv, LeapArray!NewMetricBucket
  <2>7. ExactInv'
    BY <2>1, <2>2 DEF WindowInv, ExactInv, EventsAt
  <2>8. ASSUME NEW x \in Goroutines PROVE GoroutineOK(x)'
    <3>1. PICK k : k = call[x]
      OBVIOUS
    <3>2. LeapArray!Idx(x)' = LeapArray!Idx(x) /\ LeapArray!bucketStart(x)' = LeapArray!bucketStart(x)
      BY <2>1 DEF LeapArray!Idx, LeapArray!bucketStart
    <3>3. LeapArray!HalfReset(LeapArray!Idx(x))' <=> LeapArray!HalfReset(LeapArray!Idx(x))
      BY <2>2, <3>2 DEF LeapArray!HalfReset
    <3>4. Ahead(k)' <=> Ahead(k)
      BY <2>1, <2>3 DEF Ahead
    <3>5. GoroutineOK(x)
      BY DEF WindowInv
    <3>6. ResetterOK(x)' /\ WriterOK(x)'
      BY <2>1, <3>2, <3>3, <3>5 DEF GoroutineOK, ResetterOK, WriterOK
    <3>7. ReaderOK(x)'
      BY <2>1, <3>1, <3>4, <3>5 DEF GoroutineOK, ReaderOK
    <3> QED BY <2>1, <3>5, <3>6, <3>7 DEF GoroutineOK
  <2> QED BY <2>5, <2>6, <2>7, <2>8 DEF WindowInv
<1>2. CASE LeapArray!Tick
  BY <1>2, TickKeeps
<1>3. ASSUME NEW g \in Goroutines, LeapArray!Step(g) PROVE WindowInv'
  <2>1. CASE LeapArray!CompareEqual(g) \/ LeapArray!CompareGreater(g) \/ LeapArray!CompareLess(g)
    BY <2>1, ComparesKeep
  <2>2. CASE LeapArray!TryLock(g)
    BY <2>2, TryLockKeeps
  <2>3. CASE LeapArray!ResetStart(g)
    BY <2>3, ResetStartKeeps
  <2>4. CASE LeapArray!ResetValue(g)
    BY <2>4, ResetValueKeeps
  <2>5. CASE LeapArray!Unlock(g)
    BY <2>5, UnlockKeeps
  <2>6. CASE LeapArray!LoadValue(g)
    BY <2>6, LoadValueKeeps
  <2>7. CASE LeapArray!Add(g)
    BY <2>7, AddValueKeeps
  <2>8. CASE LeapArray!CompareValue(g)
    BY <2>8, CompareValueKeeps
  <2>9. CASE LeapArray!StoreValue(g)
    BY <2>9, StoreValueKeeps
  <2>10. CASE LeapArray!Scan(g)
    BY <2>10, ScanKeeps
  <2>11. CASE LeapArray!ScanEnds(g)
    BY <2>11, ScanEndsKeeps
  <2>12. CASE LeapArray!Group(g)
    BY <2>12, GroupKeeps
  <2>13. CASE LeapArray!Take(g)
    BY <2>13, TakeKeeps
  <2>14. CASE LeapArray!Return(g)
    BY <2>14, ReturnKeeps
  <2> QED BY <1>3, <2>1, <2>2, <2>3, <2>4, <2>5, <2>6, <2>7, <2>8, <2>9, <2>10, <2>11, <2>12,
             <2>13, <2>14 DEF LeapArray!Step
<1>4. ASSUME NEW g \in Goroutines, LeapArray!Call(g) PROVE WindowInv'
  BY <1>4, CallKeeps
<1> QED BY <1>1, <1>2, <1>3, <1>4 DEF LeapArray!Next

-----------------------------------------------------------------------------
(* What the reads make of what they took.  The buckets taken are           *)
(* different ones, and so are their events.                                *)
LEMMA CountsWithin ==
  ASSUME NEW es, IsFiniteSet(es), \A e \in es : EventOK(e), NEW low,
         NEW bs \in SUBSET Takings, IsFiniteSet(bs),
         \A b1, b2 \in bs : b1.of = b2.of => b1 = b2,
         \A b \in bs : b.mb.count <= LeapArray!Total(EventsOf(es, b.of, low))
  PROVE  LeapArray!count(bs) <= LeapArray!Total({e \in es : e.op = "pass" /\ e.at >= low})
<1> DEFINE all == {e \in es : e.op = "pass" /\ e.at >= low}
           in(s) == {e \in all : \E b \in s : b.of = idx(e.time)}
           D == {n \in Nat : \A s \in SUBSET bs :
                   Cardinality(s) = n => LeapArray!count(s) <= LeapArray!Total(in(s))}
<1>0. \A b \in bs : b.mb.count \in Nat
  BY DEF Takings, MetricBuckets
<1>1. /\ IsFiniteSet(all) /\ Weights(all)
      /\ \A t \in SUBSET all : IsFiniteSet(t) /\ Weights(t) /\ LeapArray!Total(t) \in Nat
  <2>1. IsFiniteSet(all) /\ Weights(all)
    BY FS_Subset DEF Weights, EventOK
  <2>2. ASSUME NEW t \in SUBSET all PROVE IsFiniteSet(t) /\ Weights(t)
    BY <2>1, FS_Subset DEF Weights
  <2> HIDE DEF all
  <2> QED BY <2>1, <2>2, TotalPart
<1>2. \A s \in SUBSET bs : /\ IsFiniteSet(s) /\ Counts(s) /\ Cardinality(s) \in Nat
                           /\ in(s) \in SUBSET all
  <2>1. ASSUME NEW s \in SUBSET bs PROVE IsFiniteSet(s)
    BY FS_Subset
  <2>2. ASSUME NEW s \in SUBSET bs PROVE Counts(s) /\ in(s) \in SUBSET all
    BY <1>0 DEF Counts
  <2> QED BY <2>1, <2>2, FS_CardinalityType
<1>3. 0 \in D
  <2> SUFFICES ASSUME NEW s \in SUBSET bs, Cardinality(s) = 0
               PROVE  LeapArray!count(s) <= LeapArray!Total(in(s))
    OBVIOUS
  <2>1. s = {}
    BY <1>2, FS_EmptySet
  <2>2. in(s) = {}
    BY <2>1
  <2>3. LeapArray!count(s) = 0 /\ LeapArray!Total(in(s)) = 0
    BY <2>1, <2>2, TotalEmpty
  <2> QED BY <2>3
<1>4. ASSUME NEW n \in Nat, n \in D PROVE n + 1 \in D
  <2> SUFFICES ASSUME NEW s \in SUBSET bs, Cardinality(s) = n + 1
               PROVE  LeapArray!count(s) <= LeapArray!Total(in(s))
    BY <1>4
  <2>1. IsFiniteSet(s)
    BY <1>2
  <2>2. s # {}
    BY <2>1, FS_EmptySet
  <2>3. PICK b : b \in s
    BY <2>2
  <2> DEFINE t == s \ {b}
             ebs == EventsOf(es, b.of, low)
  <2>4. t \in SUBSET bs /\ t \cup {b} = s /\ b \notin t /\ b \in bs
    BY <2>3
  <2>5. Cardinality(t) = n
    <3>1. Cardinality(t) = Cardinality(s) - 1
      BY <2>1, <2>3, FS_RemoveElement
    <3> QED BY <1>4, <3>1
  <2>6. in(s) = in(t) \cup ebs /\ in(t) \cap ebs = {} /\ ebs \in SUBSET all
    <3>1. ebs = {e \in all : b.of = idx(e.time)}
      BY DEF EventsOf
    <3>2. \A x \in t : x.of # b.of
      BY <2>4
    <3> HIDE DEF ebs, all
    <3>3. in(s) = in(t) \cup ebs
      BY <2>4, <3>1
    <3>4. in(t) \cap ebs = {}
      BY <3>1, <3>2
    <3> QED BY <3>1, <3>3, <3>4
  <2>7. LeapArray!count(t) <= LeapArray!Total(in(t))
    BY <1>4, <2>4, <2>5
  <2>8. IsFiniteSet(t) /\ Counts(t) /\ in(t) \in SUBSET all
    BY <1>2, <2>4
  <2>9. b.mb.count \in Nat /\ b.mb.count <= LeapArray!Total(ebs)
    BY <1>0, <2>4
  <2> DEFINE it == in(t)
             is == in(s)
  <2>10. is = it \cup ebs /\ it \cap ebs = {} /\ it \in SUBSET all /\ ebs \in SUBSET all
    BY <2>6, <2>8
  <2>11. LeapArray!count(t) <= LeapArray!Total(it)
    BY <2>7
  <2> HIDE DEF t, ebs, it, is, all
  <2>12. LeapArray!count(s) = LeapArray!count(t) + b.mb.count /\ LeapArray!count(t) \in Nat
    BY <2>4, <2>8, <2>9, CountAdd
  <2>13. /\ IsFiniteSet(it) /\ Weights(it) /\ LeapArray!Total(it) \in Nat
         /\ IsFiniteSet(ebs) /\ Weights(ebs) /\ LeapArray!Total(ebs) \in Nat
    BY <1>1, <2>10
  <2>14. LeapArray!Total(is) = LeapArray!Total(it) + LeapArray!Total(ebs)
    BY <2>10, <2>13, TotalUnion
  <2>15. LeapArray!count(s) <= LeapArray!Total(is)
    BY <2>9, <2>11, <2>12, <2>13, <2>14
  <2> QED BY <2>15 DEF is
<1> HIDE DEF D
<1>5. Nat \subseteq D
  BY <1>3, <1>4, SetInduction
<1>6. LeapArray!count(bs) <= LeapArray!Total(in(bs)) /\ LeapArray!count(bs) \in Nat
  <2>1. Cardinality(bs) \in Nat /\ Cardinality(bs) \in D
    BY <1>5, FS_CardinalityType
  <2>2. LeapArray!count(bs) <= LeapArray!Total(in(bs))
    BY <2>1 DEF D
  <2>3. LeapArray!count(bs) \in Nat
    <3>1. CASE bs = {}
      BY <3>1, TotalEmpty
    <3>2. CASE bs # {}
      BY <1>2, <3>2, CountMember
    <3> QED BY <3>1, <3>2
  <2> QED BY <2>2, <2>3
<1>7. LeapArray!Total(in(bs)) <= LeapArray!Total(all) /\ LeapArray!Total(in(bs)) \in Nat
      /\ LeapArray!Total(all) \in Nat
  <2> DEFINE part == in(bs)
  <2>1. part \in SUBSET all
    BY <1>2
  <2> HIDE DEF part, all
  <2>2. LeapArray!Total(part) <= LeapArray!Total(all) /\ LeapArray!Total(part) \in Nat
        /\ LeapArray!Total(all) \in Nat
    BY <1>1, <2>1, TotalPart
  <2> QED BY <2>2 DEF part
<1> DEFINE x == LeapArray!count(bs)
           y == LeapArray!Total(in(bs))
           z == LeapArray!Total(all)
<1>8. x \in Nat /\ y \in Nat /\ z \in Nat /\ x <= y /\ y <= z
  BY <1>6, <1>7
<1> HIDE DEF x, y, z
<1>9. x <= z
  BY <1>8
<1> QED BY <1>9 DEF x, z

(* What a reader that has taken all its buckets makes of them.             *)
LEMMA WindowReads ==
  ASSUME WindowBounds, WindowInv, NEW g \in Goroutines,
         LeapArray!At(g, "read"), call[g].left = {}, ~call[g].torn
  PROVE  /\ LeapArray!count(call[g].taken) <= LeapArray!Total(LeapArray!Recorded("pass", LeapArray!Low(g)))
         /\ LeapArray!GetMaxOfSingleBucket(g) <= LeapArray!count(call[g].taken)
         /\ LeapArray!MinRT(g) \in {MaxRt} \cup {LeapArray!Max({e.value, 1}) :
                                                  e \in LeapArray!Recorded("rt", LeapArray!Low(g))}
         /\ LeapArray!MaxConcurrency(call[g].taken)
              \in {0} \cup {e.value : e \in LeapArray!Recorded("concurrency", LeapArray!Low(g))}
         /\ call[g].op = "seconds" =>
              \A item \in LeapArray!MetricItems(g) :
                item.PassQps <= LeapArray!Total(LeapArray!Recorded("pass", item.Timestamp))
<1> DEFINE c == call[g]
           taken == c.taken
           low == LowOf(c)
<1>1. CallOK(c) /\ c \in WindowCalls /\ IsFiniteSet(taken)
  BY CallIs
<1>2. c.pc = "read" /\ c.torn = FALSE
  <2>1. c.torn \in BOOLEAN
    BY <1>1 DEF WindowCalls
  <2> QED BY <2>1 DEF LeapArray!At
<1>3. Behind(c, events)
  BY <1>2 DEF WindowInv, GoroutineOK, ReaderOK, Reading
<1>4. /\ taken \in SUBSET Takings /\ \A b1, b2 \in taken : b1.of = b2.of => b1 = b2
      /\ \A b \in taken : /\ Within(b.mb, b.of, low, events)
                          /\ c.op = "seconds" => Within(b.mb, b.of, b.sec, events)
  BY <1>1, <1>2, <1>3 DEF Behind, WindowCalls
<1>5. LeapArray!Low(g) = low
  BY DEF LeapArray!Low, LowOf, LeapArray!bucketStart, cst
<1>6. IsFiniteSet(events) /\ \A e \in events : EventOK(e)
  BY DEF WindowInv, WindowTypes
<1>7. \A b \in taken : b.mb.count \in Nat /\ b.mb.minRt \in Nat /\ b.mb.maxConcurrency \in Nat
  BY <1>4 DEF Takings, MetricBuckets
<1>8. ASSUME NEW op, NEW l PROVE LeapArray!Recorded(op, l) = {e \in events : e.op = op /\ e.at >= l}
  BY DEF LeapArray!Recorded
<1>9. LeapArray!count(taken) <= LeapArray!Total(LeapArray!Recorded("pass", low))
  <2>1. \A b \in taken : b.mb.count <= LeapArray!Total(EventsOf(events, b.of, low))
    BY <1>4 DEF Within
  <2> HIDE DEF taken, low
  <2>2. LeapArray!count(taken) <= LeapArray!Total({e \in events : e.op = "pass" /\ e.at >= low})
    BY <1>1, <1>4, <1>6, <2>1, CountsWithin
  <2> QED BY <1>8, <2>2
<1>10. LeapArray!count(taken) \in Nat /\ \A b \in taken : b.mb.count <= LeapArray!count(taken)
  <2> HIDE DEF taken
  <2>1. Counts(taken)
    BY <1>7 DEF Counts
  <2>2. CASE taken = {}
    BY <2>2, TotalEmpty
  <2>3. CASE taken # {}
    BY <1>1, <2>1, <2>3, CountMember
  <2> QED BY <2>2, <2>3
<1>11. LeapArray!GetMaxOfSingleBucket(g) <= LeapArray!count(taken)
  <2> DEFINE S == {b.mb.count : b \in taken} \cup {0}
             n == LeapArray!count(taken)
  <2>1. S \in SUBSET Nat /\ S # {} /\ n \in Nat /\ \A y \in S : y <= n
    BY <1>7, <1>10
  <2>2. LeapArray!GetMaxOfSingleBucket(g) = LeapArray!Max(S)
    BY DEF LeapArray!GetMaxOfSingleBucket
  <2> HIDE DEF S, n
  <2>3. LeapArray!Max(S) \in S
    BY <2>1, GreatestIs
  <2> QED BY <2>1, <2>2, <2>3 DEF n
<1>12. LeapArray!MinRT(g) \in {MaxRt} \cup {LeapArray!Max({e.value, 1}) :
                                             e \in LeapArray!Recorded("rt", low)}
  <2> DEFINE S == {b.mb.minRt : b \in taken} \cup {MaxRt}
             m == LeapArray!Min(S)
  <2>1. S \in SUBSET Nat /\ S # {} /\ MaxRt \in Nat \ {0}
    BY <1>7 DEF WindowBounds
  <2>2. LeapArray!MinRT(g) = LeapArray!Max({m, 1})
    BY DEF LeapArray!MinRT, LeapArray!MinRt
  <2>3. \A y \in S : y = MaxRt \/ \E e \in events : e.op = "rt" /\ e.at >= low /\ y = e.value
    BY <1>4 DEF Within, ValuesOf
  <2>4. m \in S
    <3> HIDE DEF S
    <3> QED BY <2>1, LeastIs
  <2> HIDE DEF m, S, low
  <2>5. CASE m = MaxRt
    <3>1. LeapArray!Max({MaxRt, 1}) = (IF MaxRt >= 1 THEN MaxRt ELSE 1)
      BY <2>1, GreatestOfTwoIs
    <3>2. LeapArray!Max({MaxRt, 1}) = MaxRt
      BY <2>1, <3>1
    <3> QED BY <2>2, <2>5, <3>2
  <2>6. CASE \E e \in events : e.op = "rt" /\ e.at >= low /\ m = e.value
    BY <1>8, <2>2, <2>6
  <2> QED BY <2>3, <2>4, <2>5, <2>6
<1>13. LeapArray!MaxConcurrency(taken) \in {0} \cup {e.value : e \in LeapArray!Recorded("concurrency", low)}
  <2> DEFINE S == {b.mb.maxConcurrency : b \in taken} \cup {0}
             n == LeapArray!Total(events)
  <2>1. Weights(events)
    BY <1>6 DEF Weights, EventOK
  <2>2. n \in Nat /\ \A e \in events : e.value <= n
    BY <1>6, <2>1, TotalPart, TotalMember
  <2>3. \A y \in S : y = 0 \/ \E e \in events : e.op = "concurrency" /\ e.at >= low /\ y = e.value
    BY <1>4 DEF Within, ValuesOf
  <2>4. S \in SUBSET Nat /\ S # {}
    BY <1>7
  <2>5. LeapArray!MaxConcurrency(taken) = LeapArray!Max(S)
    BY DEF LeapArray!MaxConcurrency
  <2> HIDE DEF S, n, low
  <2>6. \A y \in S : y <= n
    BY <2>2, <2>3
  <2>7. LeapArray!Max(S) \in S
    BY <2>2, <2>4, <2>6, GreatestIs
  <2> QED BY <1>8, <2>3, <2>5, <2>7
<1>14. ASSUME c.op = "seconds", NEW item \in LeapArray!MetricItems(g)
       PROVE  item.PassQps <= LeapArray!Total(LeapArray!Recorded("pass", item.Timestamp))
  <2>1. PICK s \in {b.sec : b \in taken} :
          item = LeapArray!metricItemFromBuckets(s, {b \in taken : b.sec = s})
    BY <1>14 DEF LeapArray!MetricItems
  <2> DEFINE part == {b \in taken : b.sec = s}
  <2>2. item.Timestamp = s /\ item.PassQps = LeapArray!count(part)
    BY <2>1 DEF LeapArray!metricItemFromBuckets
  <2>3. part \in SUBSET taken /\ \A b \in part : b.sec = s
    OBVIOUS
  <2> HIDE DEF taken, part
  <2>4. IsFiniteSet(part)
    BY <1>1, <2>3, FS_Subset
  <2>5. part \in SUBSET Takings /\ \A b1, b2 \in part : b1.of = b2.of => b1 = b2
    BY <1>4, <2>3
  <2>6. \A b \in part : b.mb.count <= LeapArray!Total(EventsOf(events, b.of, s))
    BY <1>4, <1>14, <2>3 DEF Within
  <2>7. LeapArray!count(part) <= LeapArray!Total({e \in events : e.op = "pass" /\ e.at >= s})
    BY <1>6, <2>4, <2>5, <2>6, CountsWithin
  <2> QED BY <1>8, <2>2, <2>7
<1> HIDE DEF low
<1>15. c.op = "seconds" =>
         \A item \in LeapArray!MetricItems(g) :
           item.PassQps <= LeapArray!Total(LeapArray!Recorded("pass", item.Timestamp))
  BY <1>14
<1> QED BY <1>5, <1>9, <1>11, <1>12, <1>13, <1>15

(* The invariant says what the reads return, and what the buckets count.   *)
LEMMA WindowIsExact ==
  ASSUME WindowBounds, WindowInv
  PROVE  StatisticsExact
<1>1. LeapArray!WithinWindow
  <2>1. ASSUME NEW g \in Goroutines, LeapArray!At(g, "read") /\ call[g].left = {} /\ ~call[g].torn
        PROVE  /\ LeapArray!count(call[g].taken) <= LeapArray!Total(LeapArray!Recorded("pass", LeapArray!Low(g)))
               /\ LeapArray!GetMaxOfSingleBucket(g) <= LeapArray!count(call[g].taken)
               /\ LeapArray!MinRT(g) \in {MaxRt} \cup {LeapArray!Max({e.value, 1}) :
                                                  e \in LeapArray!Recorded("rt", LeapArray!Low(g))}
               /\ LeapArray!MaxConcurrency(call[g].taken)
                    \in {0} \cup {e.value : e \in LeapArray!Recorded("concurrency", LeapArray!Low(g))}
               /\ call[g].op = "seconds" =>
                    \A item \in LeapArray!MetricItems(g) :
                      item.PassQps <= LeapArray!Total(LeapArray!Recorded("pass", item.Timestamp))
    BY <2>1, WindowReads
  <2> QED BY <2>1, Zenon DEF LeapArray!WithinWindow
<1>2. LeapArray!ExactUnlessSlip
  <2>1. \A i : EventsAt(i) = {e \in events : e.op = "pass" /\ LeapArray!calculateStartTime(e.time) = start[i]}
    BY DEF EventsAt, cst
  <2>2. lost = FALSE => \A i \in Buckets : LeapArray!HalfReset(i) \/ bucket[i].count = LeapArray!Total(EventsAt(i))
    BY DEF WindowInv, ExactInv
  <2>3. lost = TRUE \/ lost = FALSE
    BY DEF WindowInv, WindowTypes
  <2> QED BY <2>1, <2>2, <2>3 DEF LeapArray!ExactUnlessSlip, Buckets
<1> QED BY <1>1, <1>2 DEF StatisticsExact, LeapArray!StatisticsExact

(* No read of the sliding window returns more than what was recorded since *)
(* its window began, unless it read a bucket in the middle of a reset, and *)
(* no bucket has less or more than what was recorded for its start, unless *)
(* an event slipped: for any number of goroutines and buckets, any         *)
(* lengths, and any interleaving of the atomic loads and stores of         *)
(* currentBucketOfTime, AddCount, UpdateConcurrency and the reads.         *)
THEOREM StatisticsAlwaysExact == LeapArray!Spec => []StatisticsExact
<1>1. LeapArray!Init => WindowInv
  BY WindowAssumption, WindowStarts
<1>2. WindowInv /\ [LeapArray!Next]_(LeapArray!vars) => WindowInv'
  BY WindowAssumption, WindowKeeps
<1>3. WindowInv => StatisticsExact
  BY WindowAssumption, WindowIsExact
<1> QED BY <1>1, <1>2, <1>3, PTL DEF LeapArray!Spec

-----------------------------------------------------------------------------
(* Hot spot rules on the rate (module HotSpot), Reject and Throttling, for *)
(* any requests, arguments, thresholds, batches, bursts and times.         *)
(* What NewBaseTrafficShapingController and the callers of Entry see to,   *)
(* besides HotBounds: batches and times are not negative.                  *)
RateBounds ==
  /\ HotBounds
  /\ HotBatches \in SUBSET Nat /\ HotBatches # {} /\ IsFiniteSet(HotBatches)
  /\ BurstCount \in Nat /\ Duration \in Nat \ {0} /\ MaxQueueing \in Nat /\ MaxClock \in Nat

(* What a set of numbers has at most, if it is finite.                     *)
LEMMA FiniteBound ==
  ASSUME NEW S \in SUBSET Nat, IsFiniteSet(S)
  PROVE  \E b \in Nat : \A x \in S : x <= b
<1> DEFINE w == [x \in S |-> x]
<1>1. \A x \in S : w[x] = x /\ w[x] \in Nat
  OBVIOUS
<1> HIDE DEF w
<1>2. Sum(w, S) \in Nat
  BY <1>1, SumType
<1>3. ASSUME NEW x \in S PROVE x <= Sum(w, S)
  <2>1. Sum(w, {x}) <= Sum(w, S) /\ Sum(w, {x}) \in Nat
    BY <1>1, SumPart
  <2>2. Sum(w, {} \cup {x}) = Sum(w, {}) + w[x]
    <3>1. /\ IsFiniteSet({}) /\ x \notin {} /\ w[x] \in Nat
          /\ \A z \in {} : w[z] \in Nat
      BY <1>1, FS_EmptySet
    <3> QED BY <3>1, SumAdd
  <2>3. {} \cup {x} = {x}
    OBVIOUS
  <2> QED BY <1>1, <2>1, <2>2, <2>3, SumEmpty
<1> QED BY <1>2, <1>3

(* No batch is larger than Max of them.                                    *)
LEMMA LargestBatch ==
  ASSUME RateBounds, NEW batch \in HotBatches
  PROVE  HotSpot!Max(HotBatches) \in Nat /\ batch <= HotSpot!Max(HotBatches)
<1>1. HotBatches \in SUBSET Nat /\ HotBatches # {}
  BY DEF RateBounds
<1>2. PICK b \in Nat : \A x \in HotBatches : x <= b
  BY FiniteBound DEF RateBounds
<1>3. LeapArray!Max(HotBatches) \in HotBatches /\ \A y \in HotBatches : y <= LeapArray!Max(HotBatches)
  BY <1>1, <1>2, GreatestIs
<1>4. \E x \in HotBatches : \A y \in HotBatches : x >= y
  BY <1>1, <1>3
<1>5. HotSpot!Max(HotBatches) \in HotBatches /\ \A y \in HotBatches : HotSpot!Max(HotBatches) >= y
  BY <1>4 DEF HotSpot!Max
<1> QED BY <1>1, <1>5

(* What has passed up to a time is a sum over the times.                   *)
SumTo(p, t) == HotSpot!MapThenSumSet(LAMBDA u : p[u], 0..t)

(* It is the sum that the lemmas on sums are about.                        *)
LEMMA SumToIs ==
  ASSUME NEW p, NEW t \in Int
  PROVE  SumTo(p, t) = Sum(p, 0..t)
<1> DEFINE S == 0..t
           Is(f) == f = [s \in SUBSET S |-> IF s = {} THEN 0 ELSE p[Pick(s)] + f[s \ {Pick(s)}]]
           it == CHOOSE f : Is(f)
<1>0. IsFiniteSet(S)
  BY FS_Interval
<1>1. SumTo(p, t) = it[S]
  BY DEF SumTo, HotSpot!MapThenSumSet, HotSpot!MapThenFoldSet, Pick
<1>2. \A f : Is(f) <=> Sums(f, p, S)
  BY DEF Sums, SumStep
<1> HIDE DEF S
<1>3. Is(it)
  <2>1. \E f : Is(f)
    BY <1>0, <1>2, SumExists
  <2> HIDE DEF Is
  <2> QED BY <2>1
<1>4. PICK g : Sums(g, p, S) /\ Sum(p, S) = g[S]
  BY <1>0, SumIs
<1>5. it[S] = g[S]
  <2>1. Sums(it, p, S)
    BY <1>2, <1>3
  <2> HIDE DEF it
  <2> QED BY <1>0, <1>4, <2>1, SumsAgree
<1>6. SumTo(p, t) = Sum(p, S)
  BY <1>1, <1>4, <1>5
<1> QED BY <1>6 DEF S

(* A sum grows by what one of its weights grows.                           *)
LEMMA SumGrows ==
  ASSUME NEW S, IsFiniteSet(S), NEW p, NEW q, NEW d \in S, NEW b \in Nat,
         \A x \in S : p[x] \in Nat, \A x \in S \ {d} : q[x] = p[x], q[d] = p[d] + b
  PROVE  Sum(q, S) = Sum(p, S) + b
<1> DEFINE T == S \ {d}
<1>1. Sum(p, S) = p[d] + Sum(p, T)
  BY SumAny
<1>2. \A x \in S : q[x] \in Nat
  OBVIOUS
<1>3. Sum(q, S) = q[d] + Sum(q, T)
  BY <1>2, SumAny
<1>4. IsFiniteSet(T) /\ \A x \in T : q[x] = p[x] /\ p[x] \in Nat
  BY FS_Subset
<1> HIDE DEF T
<1>5. Sum(q, T) = Sum(p, T) /\ Sum(p, T) \in Nat
  BY <1>4, SumAgree, SumType
<1> QED BY <1>1, <1>3, <1>5

(* One more that passes at a time adds to what has passed from then on.    *)
Adds(p, q, H, d, b) ==
  /\ \A x \in 0..H : p[x] \in Nat
  /\ \A x \in (0..H) \ {d} : q[x] = p[x]
  /\ d \in 0..H => q[d] = p[d] + b

(* A batch that passes adds to the sums from its time on.                  *)
LEMMA SumToAdds ==
  ASSUME NEW H \in Nat, NEW p, NEW q, NEW d \in Nat, NEW b \in Nat, Adds(p, q, H, d, b),
         NEW t \in 0..H
  PROVE  /\ SumTo(p, t) \in Nat /\ SumTo(p, t) <= SumTo(p, H)
         /\ SumTo(q, t) = SumTo(p, t) + (IF d <= t THEN b ELSE 0)
<1> USE DEF Adds
<1>0. /\ IsFiniteSet(0..t) /\ IsFiniteSet(0..H) /\ 0..t \in SUBSET (0..H)
      /\ \A x \in 0..t : p[x] \in Nat
  <2>1. IsFiniteSet(0..t) /\ IsFiniteSet(0..H)
    BY FS_Interval
  <2> QED BY <2>1
<1>1. SumTo(p, t) = Sum(p, 0..t) /\ SumTo(p, H) = Sum(p, 0..H) /\ SumTo(q, t) = Sum(q, 0..t)
  BY SumToIs
<1>2. Sum(p, 0..t) <= Sum(p, 0..H) /\ Sum(p, 0..t) \in Nat
  BY <1>0, SumPart
<1>3. CASE ~(d <= t)
  <2>1. \A x \in 0..t : q[x] = p[x]
    BY <1>3
  <2>2. Sum(q, 0..t) = Sum(p, 0..t)
    BY <1>0, <2>1, SumAgree
  <2> QED BY <1>1, <1>2, <1>3, <2>2
<1>4. CASE d <= t
  <2>1. d \in 0..t /\ q[d] = p[d] + b /\ \A x \in (0..t) \ {d} : q[x] = p[x]
    BY <1>4
  <2> DEFINE S == 0..t
  <2>2. IsFiniteSet(S) /\ d \in S /\ (\A x \in S : p[x] \in Nat) /\ \A x \in S \ {d} : q[x] = p[x]
    BY <1>0, <2>1
  <2> HIDE DEF S
  <2>3. Sum(q, S) = Sum(p, S) + b
    BY <2>1, <2>2, SumGrows
  <2>4. Sum(q, 0..t) = Sum(p, 0..t) + b
    BY <2>3 DEF S
  <2> QED BY <1>1, <1>2, <1>4, <2>4
<1> QED BY <1>2, <1>1, <1>3, <1>4

(* What is added to a counter between two times.                           *)
LEMMA Mul ==
  ASSUME NEW x \in Int, NEW y \in Int, NEW n \in Nat
  PROVE  /\ x * n \in Int /\ x <= y => x * n <= y * n /\ (y - x) * n = y * n - x * n
OBVIOUS

(* Quotients are rounded down, of negative numbers too.                    *)
LEMMA Quotients ==
  ASSUME NEW x \in Int, NEW y \in Int, NEW m \in Nat \ {0}
  PROVE  /\ x \div m \in Int
         /\ x <= y => x \div m <= y \div m
         /\ (x \div m) + ((y - x) \div m) <= y \div m
         /\ x >= 0 => x \div m >= 0
<1> DEFINE i == x \div m
           j == y \div m
           k == (y - x) \div m
           a == x % m
           b == y % m
           c == (y - x) % m
<1>1. i \in Int /\ a \in 0..(m - 1) /\ x = m * i + a
  BY Division
<1>2. j \in Int /\ b \in 0..(m - 1) /\ y = m * j + b
  BY Division
<1>3. k \in Int /\ c \in 0..(m - 1) /\ y - x = m * k + c
  BY Division
<1> HIDE DEF i, j, k, a, b, c
<1>4. x <= y => i <= j
  <2> SUFFICES ASSUME x <= y, i >= j + 1 PROVE FALSE
    BY <1>1, <1>2
  <2>1. m * i >= m * (j + 1)
    BY <1>1, <1>2
  <2>2. m * (j + 1) = m * j + m
    BY <1>2
  <2> QED BY <1>1, <1>2, <2>1, <2>2
<1>5. i + k <= j
  <2> SUFFICES ASSUME i + k >= j + 1 PROVE FALSE
    BY <1>1, <1>2, <1>3
  <2>1. m * (i + k) >= m * (j + 1)
    BY <1>1, <1>2, <1>3
  <2>2. m * (j + 1) = m * j + m /\ m * (i + k) = m * i + m * k
    BY <1>1, <1>2, <1>3
  <2> QED BY <1>1, <1>2, <1>3, <2>1, <2>2
<1>6. x >= 0 => i >= 0
  <2> SUFFICES ASSUME x >= 0, i <= -1 PROVE FALSE
    BY <1>1
  <2>1. m * i <= -m
    BY <1>1
  <2> QED BY <1>1, <2>1
<1> QED BY <1>1, <1>4, <1>5, <1>6 DEF i, j, k

-----------------------------------------------------------------------------
(* The caches.                                                             *)
(* What AddIfAbsent and Get leave in a cache.                              *)
Distinct(lru) == \A e, f \in Elements(lru) : e.arg = f.arg \/ e.cell = f.cell => e = f
New(a, c) == [arg |-> a, cell |-> c]

(* AddIfAbsent adds a pair for an argument that has none, and may drop one.*)
LEMMA AddsTo ==
  ASSUME HotBounds, NEW lru \in Seq(Pair), NEW a \in Args, NEW c \in Cells,
         NEW next, next = HotSpot!AddIfAbsent(lru, a, c)
  PROVE  /\ next \in Seq(Pair)
         /\ a \in HotSpot!ArgsOf(lru) => Elements(next) = Elements(lru)
         /\ a \notin HotSpot!ArgsOf(lru) =>
              New(a, c) \in Elements(next) /\ Elements(next) \ {New(a, c)} \subseteq Elements(lru)
<1>1. CASE a \in HotSpot!ArgsOf(lru)
  BY <1>1, FrontKeeps DEF HotSpot!AddIfAbsent
<1>2. CASE a \notin HotSpot!ArgsOf(lru)
  BY <1>2, AddKeeps DEF New
<1> QED BY <1>1, <1>2

(* Get moves a pair to the front.                                          *)
LEMMA Gets ==
  ASSUME NEW lru \in Seq(Pair), NEW a, NEW next, next = HotSpot!Get(lru, a)
  PROVE  next \in Seq(Pair) /\ Elements(next) = Elements(lru)
BY FrontKeeps DEF HotSpot!Get

(* What a cache has, by its pairs.                                         *)
LEMMA Cached ==
  ASSUME NEW lru \in Seq(Pair)
  PROVE  /\ Elements(lru) \subseteq Pair
         /\ \A a : a \in HotSpot!ArgsOf(lru) <=> \E e \in Elements(lru) : e.arg = a
         /\ \A e \in Elements(lru) : e.cell \in HotSpot!CellsOf(lru)
         /\ \A a \in HotSpot!ArgsOf(lru) : /\ HotSpot!EntryOf(lru, a) \in Elements(lru)
                                       /\ HotSpot!EntryOf(lru, a).arg = a
<1>1. Elements(lru) \subseteq Pair
  BY DEF Elements
<1> QED BY <1>1, EntryFacts

(* An argument that is not thrown out keeps its pair.                      *)
LEMMA Keeps ==
  ASSUME HotBounds, NEW lru \in Seq(Pair), Distinct(lru), NEW a \in Args, NEW c \in Cells,
         NEW next, next = HotSpot!AddIfAbsent(lru, a, c),
         evictions \in [Args -> Nat], evictions' = HotSpot!Evicted(lru, next)
  PROVE  /\ evictions' \in [Args -> Nat]
         /\ \A b \in Args : evictions'[b] = 0 =>
              /\ evictions[b] = 0
              /\ b # a \/ b \in HotSpot!ArgsOf(lru) =>
                   \A e : e.arg = b => (e \in Elements(next) <=> e \in Elements(lru))
<1>1. /\ evictions' \in [Args -> Nat]
      /\ \A b \in Args : evictions'[b] = 0 =>
           evictions[b] = 0 /\ (b \in HotSpot!ArgsOf(lru) => b \in HotSpot!ArgsOf(next))
  BY DEF HotSpot!Evicted
<1>2. /\ next \in Seq(Pair)
      /\ a \in HotSpot!ArgsOf(lru) => Elements(next) = Elements(lru)
      /\ a \notin HotSpot!ArgsOf(lru) =>
           New(a, c) \in Elements(next) /\ Elements(next) \ {New(a, c)} \subseteq Elements(lru)
  BY AddsTo
<1>3. ASSUME NEW b \in Args, evictions'[b] = 0, b # a \/ b \in HotSpot!ArgsOf(lru),
             NEW e, e.arg = b
      PROVE  e \in Elements(next) <=> e \in Elements(lru)
  <2>1. CASE a \in HotSpot!ArgsOf(lru)
    BY <1>2, <2>1
  <2>2. CASE a \notin HotSpot!ArgsOf(lru)
    <3>1. b # a /\ New(a, c).arg = a
      BY <1>3, <2>2 DEF New
    <3>2. \A f \in Elements(next) : f.arg = b => f \in Elements(lru)
      BY <1>2, <2>2, <3>1
    <3>3. ASSUME e \in Elements(lru) PROVE e \in Elements(next)
      <4>1. b \in HotSpot!ArgsOf(next)
        BY <1>1, <1>3, <3>3, Cached
      <4>2. PICK f \in Elements(next) : f.arg = b
        BY <1>2, <4>1, Cached
      <4> QED BY <1>3, <3>2, <3>3, <4>2 DEF Distinct
    <3> QED BY <1>3, <3>2, <3>3
  <2> QED BY <2>1, <2>2
<1> QED BY <1>1, <1>3

(* A new counter keeps counters apart.                                     *)
LEMMA StaysDistinct ==
  ASSUME HotBounds, NEW lru \in Seq(Pair), Distinct(lru), NEW a \in Args, NEW c \in Cells,
         c \notin HotSpot!CellsOf(lru)
  PROVE  Distinct(HotSpot!AddIfAbsent(lru, a, c))
<1> DEFINE next == HotSpot!AddIfAbsent(lru, a, c)
<1>1. /\ next \in Seq(Pair)
      /\ a \in HotSpot!ArgsOf(lru) => Elements(next) = Elements(lru)
      /\ a \notin HotSpot!ArgsOf(lru) =>
           New(a, c) \in Elements(next) /\ Elements(next) \ {New(a, c)} \subseteq Elements(lru)
  BY AddsTo
<1> HIDE DEF next
<1>2. New(a, c).arg = a /\ New(a, c).cell = c
  BY DEF New
<1>3. \A e \in Elements(lru) : e.cell # c /\ (a \notin HotSpot!ArgsOf(lru) => e.arg # a)
  BY Cached
<1>4. Distinct(next)
  BY <1>1, <1>2, <1>3 DEF Distinct
<1> QED BY <1>4 DEF next

-----------------------------------------------------------------------------
(* A request of a rule on the rate, before, inside and after the loop.     *)
RateSteps == {"idle", "clock", "time", "fill", "load", "refill", "stamp", "rest", "take", "left",
              "cas refill", "cas take", "cas", "store"}
RateRequest ==
  [pc : RateSteps, arg : Args \union {"none"}, batch : Nat, now : Nat, at : Int,
   time : Cells \union {0}, token : Cells \union {0}, old : Int]

(* What a request carries: the counters it has in hand among them.         *)
WithTime == {"load", "refill", "rest", "cas refill", "stamp", "cas", "store"}
WithTokens == {"rest", "cas refill", "left", "cas take"}
Asks(x) ==
  x.pc # "idle" =>
    /\ x.arg \in Args /\ x.batch \in HotBatches /\ Thresholds[x.arg] > 0 /\ x.now <= clock
    /\ behavior = "reject" => x.batch <= HotSpot!MaxCount(x.arg) /\ x.pc \notin {"cas", "store"}
    /\ behavior = "throttling" => x.pc \in {"clock", "time", "load", "cas", "store"}
    /\ x.pc \in WithTime => x.time \in Cells
    /\ x.pc \in WithTokens => x.token \in Cells
    /\ x.pc = "cas take" => x.at = x.old - x.batch /\ x.at >= 0
    /\ x.pc = "cas refill" => x.at >= 0
    /\ x.pc = "cas" => x.at = x.old + HotSpot!Interval(x.arg, x.batch)
    /\ x.pc = "store" => x.at > x.now

RateTypes ==
  /\ behavior \in {"reject", "throttling"} /\ clock \in Nat
  /\ times \in Seq(Pair) /\ tokens \in Seq(Pair) /\ concurrency = <<>>
  /\ heap \in [Cells -> Int]
  /\ req \in [HotRequests -> RateRequest] /\ \A r \in HotRequests : Asks(req[r])
  /\ hotPasses \in [Args -> [0..HotSpot!Horizon -> Nat]]
  /\ slips \in [Args -> Nat] /\ evictions \in [Args -> Nat]

(* No counter is that of two arguments, or both of a time and of tokens,   *)
(* in the caches or between a cache and a request's hands.                 *)
RateApart ==
  /\ Distinct(times) /\ Distinct(tokens)
  /\ \A e \in Elements(times) : \A f \in Elements(tokens) : e.cell # f.cell
  /\ \A r \in HotRequests : \A e \in Elements(times) :
       (req[r].time = e.cell => req[r].arg = e.arg) /\ req[r].token # e.cell
  /\ \A r \in HotRequests : \A f \in Elements(tokens) :
       (req[r].token = f.cell => req[r].arg = f.arg) /\ req[r].time # f.cell

(* An argument that has not been thrown out, and whose counters no two     *)
(* requests have changed at once.                                          *)
Undisturbed(a) == Thresholds[a] > 0 /\ slips[a] = 0 /\ evictions[a] = 0

TimeOf(a) == {e.cell : e \in {x \in Elements(times) : x.arg = a}}
TokensOf(a) == {e.cell : e \in {x \in Elements(tokens) : x.arg = a}}
In(a, steps) == {r \in HotRequests : req[r].arg = a /\ req[r].pc \in steps}
Spent(a) == HotSpot!PassedUntil(a, HotSpot!Horizon)
Added(a, t) == (t * Thresholds[a]) \div Duration

(* A request has the counters that the caches have for its argument.       *)
Holding(a) ==
  \A r \in HotRequests : req[r].arg = a =>
    /\ req[r].pc \in WithTime => req[r].time \in TimeOf(a)
    /\ req[r].pc \in WithTokens => req[r].token \in TokensOf(a)
    /\ req[r].pc = "fill" => TimeOf(a) # {}

(* Reject: what has passed, is about to pass and is left is no more than a *)
(* full counter and what has been added until the time of the last refill. *)
Room(a, t, n) == n <= HotSpot!MaxCount(a) + Added(a, t)
Rejecting(a) ==
  /\ TokensOf(a) = {} => Spent(a) = 0 /\ In(a, {"stamp"}) = {}
  /\ TokensOf(a) # {} => TimeOf(a) # {}
  /\ \A c \in TimeOf(a) : heap[c] >= 0 /\ heap[c] <= clock
  /\ \A p, q \in In(a, {"stamp"}) : p = q
  /\ \A d \in TokensOf(a) : heap[d] >= 0
  /\ \A d \in TokensOf(a) : \A c \in TimeOf(a) :
       /\ In(a, {"stamp"}) = {} => Room(a, heap[c], Spent(a) + heap[d])
       /\ \A s \in In(a, {"stamp"}) :
            \/ Room(a, heap[c], Spent(a) + req[s].batch + heap[d])
            \/ Room(a, req[s].now, Spent(a) + req[s].batch + heap[d])
  /\ \A t \in 0..HotSpot!Horizon : Room(a, t, HotSpot!PassedUntil(a, t))

(* Throttling: what has passed and is about to pass takes its time.        *)
Turn(a, t, n) == n * Duration <= HotSpot!Max(HotBatches) * Duration + t * Thresholds[a]
Throttled(a) ==
  HotSpot!Even(a) =>
    /\ TimeOf(a) = {} => Spent(a) = 0
    /\ \A c \in TimeOf(a) : heap[c] >= 0
    /\ \A p, q \in In(a, {"store"}) : p = q
    /\ \A c \in TimeOf(a) : In(a, {"store"}) = {} => Turn(a, heap[c], Spent(a))
    /\ \A s \in In(a, {"store"}) : Turn(a, req[s].at, Spent(a) + req[s].batch)
    /\ \A t \in 0..HotSpot!Horizon : Turn(a, t, HotSpot!PassedUntil(a, t))

Kept(a) ==
  /\ Holding(a)
  /\ behavior = "reject" => Rejecting(a)
  /\ behavior = "throttling" => Throttled(a)

RatePart ==
  /\ RateTypes /\ RateApart
  /\ \A a \in Args : Undisturbed(a) => Kept(a)
RateInv == behavior # "concurrency" => RatePart

(* Nothing that counts for an argument changes.                            *)
LEMMA Uncounted ==
  ASSUME RateBounds, RateTypes, NEW a \in Args, Kept(a), Holding(a)', behavior' = behavior,
         clock' \in Nat, clock <= clock', TimeOf(a)' = TimeOf(a), TokensOf(a)' = TokensOf(a),
         \A c \in TimeOf(a) \union TokensOf(a) : heap'[c] = heap[c],
         hotPasses'[a] = hotPasses[a],
         \A q \in HotRequests : req[q] # req'[q] =>
           /\ req[q].arg = a => req[q].pc \notin {"stamp", "store"}
           /\ req'[q].arg = a => req'[q].pc \notin {"stamp", "store"}
  PROVE  Kept(a)'
<1>1. /\ In(a, {"stamp"})' = In(a, {"stamp"}) /\ \A s \in In(a, {"stamp"}) : req'[s] = req[s]
      /\ In(a, {"store"})' = In(a, {"store"}) /\ \A s \in In(a, {"store"}) : req'[s] = req[s]
  BY DEF In
<1>2. /\ Spent(a)' = Spent(a)
      /\ \A t : HotSpot!PassedUntil(a, t)' = HotSpot!PassedUntil(a, t)
  BY DEF Spent, HotSpot!PassedUntil, HotSpot!MapThenSumSet, HotSpot!MapThenFoldSet
<1>3. \A c \in TimeOf(a) : heap[c] \in Int
  BY Cached DEF TimeOf, RateTypes, Pair
<1>4. ASSUME behavior' = "reject" PROVE Rejecting(a)'
  <2>1. Rejecting(a)
    BY <1>4 DEF Kept
  <2>2. \A t, n : Room(a, t, n)' <=> Room(a, t, n)
    BY DEF Room, Added, HotSpot!MaxCount
  <2> DEFINE one == In(a, {"stamp"})
             times1 == TimeOf(a)
             tokens1 == TokensOf(a)
             spent == Spent(a)
  <2>3. /\ one' = one /\ times1' = times1 /\ tokens1' = tokens1 /\ spent' = spent
        /\ \A s \in one : req'[s] = req[s]
        /\ \A c \in times1 : heap'[c] = heap[c] /\ heap[c] \in Int
        /\ \A c \in tokens1 : heap'[c] = heap[c]
    BY <1>1, <1>2, <1>3
  <2>4. /\ tokens1 = {} => spent = 0 /\ one = {}
        /\ tokens1 # {} => times1 # {}
        /\ \A c \in times1 : heap[c] >= 0 /\ heap[c] <= clock
        /\ \A p, q \in one : p = q
        /\ \A d \in tokens1 : heap[d] >= 0
        /\ \A d \in tokens1 : \A c \in times1 :
             /\ one = {} => Room(a, heap[c], spent + heap[d])
             /\ \A s \in one : \/ Room(a, heap[c], spent + req[s].batch + heap[d])
                               \/ Room(a, req[s].now, spent + req[s].batch + heap[d])
        /\ \A t \in 0..HotSpot!Horizon : Room(a, t, HotSpot!PassedUntil(a, t))
    BY <2>1 DEF Rejecting
  <2> HIDE DEF one, times1, tokens1, spent
  <2>5. tokens1' = {} => spent' = 0 /\ one' = {}
    BY <2>3, <2>4
  <2>6. tokens1' # {} => times1' # {}
    BY <2>3, <2>4
  <2>7. ASSUME NEW c \in times1' PROVE heap'[c] >= 0 /\ heap'[c] <= clock'
    <3>1. heap'[c] = heap[c] /\ heap[c] \in Int /\ heap[c] >= 0 /\ heap[c] <= clock
      BY <2>3, <2>4, <2>7
    <3>2. clock \in Int /\ clock' \in Int /\ clock <= clock'
      BY DEF RateTypes
    <3> QED BY <3>1, <3>2
  <2>8. (\A p, q \in one' : p = q) /\ \A d \in tokens1' : heap'[d] >= 0
    BY <2>3, <2>4
  <2>9. ASSUME NEW d \in tokens1', NEW c \in times1'
        PROVE  /\ one' = {} => Room(a, heap'[c], spent' + heap'[d])
               /\ \A s \in one' : \/ Room(a, heap'[c], spent' + req'[s].batch + heap'[d])
                                  \/ Room(a, req'[s].now, spent' + req'[s].batch + heap'[d])
    BY <2>3, <2>4, <2>9
  <2>10. ASSUME NEW d \in tokens1', NEW c \in times1'
         PROVE  /\ one' = {} => Room(a, heap[c], spent + heap[d])'
                /\ \A s \in one' : \/ Room(a, heap[c], spent + req[s].batch + heap[d])'
                                   \/ Room(a, req[s].now, spent + req[s].batch + heap[d])'
    BY <2>9, <2>10 DEF Room, Added, HotSpot!MaxCount
  <2>11. \A t \in 0..HotSpot!Horizon : Room(a, t, HotSpot!PassedUntil(a, t))'
    BY <1>2, <2>4 DEF Room, Added, HotSpot!MaxCount
  <2> QED BY <2>5, <2>6, <2>7, <2>8, <2>10, <2>11 DEF Rejecting, one, times1, tokens1, spent, HotSpot!Horizon
<1>5. ASSUME behavior' = "throttling" PROVE Throttled(a)'
  <2>1. Throttled(a)
    BY <1>5 DEF Kept
  <2> QED BY <1>1, <1>2, <2>1 DEF Throttled, HotSpot!Even, Turn
<1> QED BY <1>4, <1>5 DEF Kept

(* Requests but for one keep what they hold.                               *)
LEMMA StillHolding ==
  ASSUME NEW a, NEW r \in HotRequests, Holding(a),
         \A q \in HotRequests \ {r} : req'[q] = req[q],
         TimeOf(a) \subseteq TimeOf(a)', TokensOf(a) \subseteq TokensOf(a)',
         req'[r].arg = a =>
           /\ req'[r].pc \in WithTime => req'[r].time \in TimeOf(a)'
           /\ req'[r].pc \in WithTokens => req'[r].token \in TokensOf(a)'
           /\ req'[r].pc = "fill" => TimeOf(a)' # {}
  PROVE  Holding(a)'
<1> DEFINE T == TimeOf(a)
           K == TokensOf(a)
<1>1. \A q \in HotRequests : req[q].arg = a =>
        /\ req[q].pc \in WithTime => req[q].time \in T
        /\ req[q].pc \in WithTokens => req[q].token \in K
        /\ req[q].pc = "fill" => T # {}
  BY DEF Holding
<1>2. T \subseteq T' /\ K \subseteq K'
  OBVIOUS
<1>3. req'[r].arg = a =>
        /\ req'[r].pc \in WithTime => req'[r].time \in T'
        /\ req'[r].pc \in WithTokens => req'[r].token \in K'
        /\ req'[r].pc = "fill" => T' # {}
  OBVIOUS
<1> HIDE DEF T, K
<1>4. ASSUME NEW q \in HotRequests, req'[q].arg = a
      PROVE  /\ req'[q].pc \in WithTime => req'[q].time \in T'
             /\ req'[q].pc \in WithTokens => req'[q].token \in K'
             /\ req'[q].pc = "fill" => T' # {}
  <2>1. CASE q = r
    BY <1>3, <1>4, <2>1
  <2>2. CASE q # r
    BY <1>1, <1>2, <1>4, <2>2
  <2> QED BY <2>1, <2>2
<1> QED BY <1>4 DEF Holding, T, K, WithTime, WithTokens

(* A request does a step on its own account.                               *)
LEMMA RequestTypes ==
  ASSUME RateTypes, NEW r \in HotRequests, NEW y \in RateRequest, Asks(y),
         req' = [req EXCEPT ![r] = y], behavior' = behavior, clock' = clock
  PROVE  /\ req' \in [HotRequests -> RateRequest]
         /\ (\A q \in HotRequests : Asks(req[q]))'
         /\ req'[r] = y /\ \A q \in HotRequests \ {r} : req'[q] = req[q]
<1>1. req \in [HotRequests -> RateRequest] /\ \A q \in HotRequests : Asks(req[q])
  BY DEF RateTypes
<1>2. /\ req' \in [HotRequests -> RateRequest]
      /\ req'[r] = y /\ \A q \in HotRequests \ {r} : req'[q] = req[q]
  BY <1>1
<1>3. \A x : Asks(x) => Asks(x)'
  BY DEF Asks, HotSpot!MaxCount, HotSpot!Interval
<1>4. \A q \in HotRequests : Asks(req'[q])
  BY <1>1, <1>2
<1>5. ASSUME NEW q \in HotRequests PROVE Asks(req[q])'
  <2>1. Asks(req'[q])
    BY <1>4
  <2> QED BY <2>1 DEF Asks, HotSpot!MaxCount, HotSpot!Interval
<1> QED BY <1>2, <1>5

(* What a request has in hand is apart from what the caches have.          *)
HandsApart(x) ==
  /\ \A e \in Elements(times) : (x.time = e.cell => x.arg = e.arg) /\ x.token # e.cell
  /\ \A f \in Elements(tokens) : (x.token = f.cell => x.arg = f.arg) /\ x.time # f.cell

(* ... and stays apart when one request steps and the caches keep theirs.  *)
LEMMA RequestApart ==
  ASSUME RateApart, NEW r \in HotRequests, NEW y, HandsApart(y), req'[r] = y,
         \A q \in HotRequests \ {r} : req'[q] = req[q],
         Elements(times') = Elements(times), Elements(tokens') = Elements(tokens)
  PROVE  RateApart'
<1>1. Distinct(times)' /\ Distinct(tokens)'
  BY DEF RateApart, Distinct
<1>2. \A e \in Elements(times') : \A f \in Elements(tokens') : e.cell # f.cell
  BY DEF RateApart
<1>3. ASSUME NEW q \in HotRequests
      PROVE  /\ \A e \in Elements(times') :
                  (req'[q].time = e.cell => req'[q].arg = e.arg) /\ req'[q].token # e.cell
             /\ \A f \in Elements(tokens') :
                  (req'[q].token = f.cell => req'[q].arg = f.arg) /\ req'[q].time # f.cell
  <2>1. CASE q = r
    BY <2>1 DEF HandsApart
  <2>2. CASE q # r
    <3>1. req'[q] = req[q]
      BY <2>2
    <3> QED BY <3>1 DEF RateApart
  <2> QED BY <2>1, <2>2
<1>4. /\ \A e \in Elements(times)' : \A f \in Elements(tokens)' : e.cell # f.cell
      /\ \A q \in HotRequests : \A e \in Elements(times)' :
           (req'[q].time = e.cell => req'[q].arg = e.arg) /\ req'[q].token # e.cell
      /\ \A q \in HotRequests : \A f \in Elements(tokens)' :
           (req'[q].token = f.cell => req'[q].arg = f.arg) /\ req'[q].time # f.cell
  BY <1>2, <1>3 DEF Elements
<1> QED BY <1>1, <1>4 DEF RateApart

(* A request's step that changes no counter.                               *)
LEMMA Quiet ==
  ASSUME RateBounds, RatePart, NEW r \in HotRequests, NEW y \in RateRequest, Asks(y),
         HandsApart(y), req' = [req EXCEPT ![r] = y], behavior' = behavior, clock' = clock,
         times' \in Seq(Pair), Elements(times') = Elements(times),
         tokens' \in Seq(Pair), Elements(tokens') = Elements(tokens),
         concurrency' = concurrency, heap' = heap, hotPasses' = hotPasses, slips' = slips,
         evictions' \in [Args -> Nat], \A a \in Args : evictions'[a] = 0 => evictions[a] = 0,
         req[r].pc \notin {"stamp", "store"}, y.pc \notin {"stamp", "store", "fill"},
         \A a \in Args : Undisturbed(a) /\ Holding(a) /\ y.arg = a =>
           /\ y.pc \in WithTime => y.time \in TimeOf(a)
           /\ y.pc \in WithTokens => y.token \in TokensOf(a)
  PROVE  RatePart'
<1>1. RateTypes /\ RateApart
  BY DEF RatePart
<1>2. /\ req' \in [HotRequests -> RateRequest] /\ (\A q \in HotRequests : Asks(req[q]))'
      /\ req'[r] = y /\ \A q \in HotRequests \ {r} : req'[q] = req[q]
  BY <1>1, RequestTypes
<1>3. RateTypes'
  BY <1>1, <1>2 DEF RateTypes, HotSpot!Horizon
<1>4. RateApart'
  BY <1>1, <1>2, RequestApart
<1>5. ASSUME NEW a \in Args, Undisturbed(a)' PROVE Kept(a)'
  <2>1. Undisturbed(a) /\ Kept(a) /\ Holding(a)
    BY <1>5 DEF Undisturbed, RatePart, Kept
  <2>2. TimeOf(a)' = TimeOf(a) /\ TokensOf(a)' = TokensOf(a)
    BY DEF TimeOf, TokensOf, Elements
  <2>3. Holding(a)'
    <3>1. req'[r].arg = a =>
           /\ req'[r].pc \in WithTime => req'[r].time \in TimeOf(a)'
           /\ req'[r].pc \in WithTokens => req'[r].token \in TokensOf(a)'
           /\ req'[r].pc = "fill" => TimeOf(a)' # {}
      BY <1>2, <2>1, <2>2
    <3> QED BY <1>2, <2>1, <2>2, <3>1, StillHolding
  <2>4. \A q \in HotRequests : req[q] # req'[q] =>
           /\ req[q].arg = a => req[q].pc \notin {"stamp", "store"}
           /\ req'[q].arg = a => req'[q].pc \notin {"stamp", "store"}
    BY <1>2
  <2> QED BY <1>1, <2>1, <2>2, <2>3, <2>4, Uncounted DEF RateTypes
<1> QED BY <1>3, <1>4, <1>5 DEF RatePart

(* What a request asks for, and what it has in hand, and what it has done. *)
LEMMA RequestFacts ==
  ASSUME RateBounds, RatePart, NEW r \in HotRequests
  PROVE  /\ req[r] \in RateRequest /\ Asks(req[r]) /\ HandsApart(req[r])
         /\ behavior \in {"reject", "throttling"} /\ clock \in Nat /\ 0 <= clock
         /\ heap \in [Cells -> Int] /\ evictions \in [Args -> Nat]
         /\ times \in Seq(Pair) /\ tokens \in Seq(Pair) /\ Thresholds \in [Args -> Int]
         /\ Duration \in Nat \ {0} /\ BurstCount \in Nat /\ HotBatches \subseteq Nat /\ 0 \notin Cells
<1>1. RateTypes /\ RateApart
  BY DEF RatePart
<1>2. HandsApart(req[r])
  BY <1>1 DEF RateApart, HandsApart
<1>3. 0 <= clock
  BY <1>1 DEF RateTypes
<1> QED BY <1>1, <1>2, <1>3 DEF RateTypes, RateBounds, HotBounds

(* A request that has left holds nothing.                                  *)
LEMMA IdleFacts ==
  ASSUME RateBounds, RatePart
  PROVE  HotSpot!Idle \in RateRequest /\ Asks(HotSpot!Idle) /\ HandsApart(HotSpot!Idle)
<1>1. HotSpot!Idle \in RateRequest
  BY DEF HotSpot!Idle, HotSpot!NoArg, RateRequest, RateSteps
<1>2. Asks(HotSpot!Idle)
  BY DEF Asks, HotSpot!Idle, WithTime, WithTokens
<1>3. HandsApart(HotSpot!Idle)
  <2>1. Elements(times) \subseteq Pair /\ Elements(tokens) \subseteq Pair
    BY Cached DEF RatePart, RateTypes
  <2> QED BY <2>1 DEF HandsApart, HotSpot!Idle, RateBounds, HotBounds, Pair
<1> QED BY <1>1, <1>2, <1>3

(* A request that is refused, or starts again.                             *)
LEMMA LeavesRate ==
  ASSUME RateBounds, RatePart, NEW r \in HotRequests, HotSpot!Leave(r),
         req[r].pc \notin {"stamp", "store"},
         UNCHANGED <<behavior, clock, HotSpot!caches, heap, HotSpot!history>>
  PROVE  RatePart'
<1> DEFINE y == HotSpot!Idle
<1>1. y \in RateRequest /\ Asks(y) /\ HandsApart(y) /\ y.pc = "idle"
  BY IdleFacts DEF HotSpot!Idle
<1>2. /\ req' = [req EXCEPT ![r] = y] /\ behavior' = behavior /\ clock' = clock
      /\ times' \in Seq(Pair) /\ Elements(times') = Elements(times)
      /\ tokens' \in Seq(Pair) /\ Elements(tokens') = Elements(tokens)
      /\ concurrency' = concurrency /\ heap' = heap /\ hotPasses' = hotPasses /\ slips' = slips
      /\ evictions' \in [Args -> Nat] /\ \A a \in Args : evictions'[a] = 0 => evictions[a] = 0
  BY RequestFacts DEF HotSpot!Leave, HotSpot!caches, HotSpot!history
<1> HIDE DEF y
<1> QED BY <1>1, <1>2, Quiet DEF WithTime, WithTokens

(* A request goes on with the same counters.                               *)
LEMMA GoesOn ==
  ASSUME RateBounds, RatePart, NEW r \in HotRequests, NEW y \in RateRequest, Asks(y),
         req' = [req EXCEPT ![r] = y], req[r].pc \notin {"stamp", "store"},
         y.pc \notin {"stamp", "store", "fill"}, y.arg = req[r].arg,
         y.time = 0 \/ y.time = req[r].time, y.token = 0 \/ y.token = req[r].token,
         y.pc \in WithTime => req[r].pc \in WithTime /\ y.time = req[r].time,
         y.pc \in WithTokens => req[r].pc \in WithTokens /\ y.token = req[r].token,
         UNCHANGED <<behavior, clock, HotSpot!caches, heap, HotSpot!history>>
  PROVE  RatePart'
<1>1. HandsApart(y)
  <2>1. Elements(times) \subseteq Pair /\ Elements(tokens) \subseteq Pair
    BY Cached DEF RatePart, RateTypes
  <2>2. HandsApart(req[r]) /\ 0 \notin Cells
    BY RequestFacts
  <2> QED BY <2>1, <2>2 DEF HandsApart, Pair
<1>2. /\ behavior' = behavior /\ clock' = clock
      /\ times' \in Seq(Pair) /\ Elements(times') = Elements(times)
      /\ tokens' \in Seq(Pair) /\ Elements(tokens') = Elements(tokens)
      /\ concurrency' = concurrency /\ heap' = heap /\ hotPasses' = hotPasses /\ slips' = slips
      /\ evictions' \in [Args -> Nat] /\ \A a \in Args : evictions'[a] = 0 => evictions[a] = 0
  BY RequestFacts DEF HotSpot!caches, HotSpot!history
<1>3. ASSUME NEW a \in Args, Holding(a), y.arg = a
      PROVE  /\ y.pc \in WithTime => y.time \in TimeOf(a)
             /\ y.pc \in WithTokens => y.token \in TokensOf(a)
  BY <1>3 DEF Holding
<1> QED BY <1>1, <1>2, <1>3, Quiet

(* Call: a request that is not blocked at once asks for what it may have.  *)
LEMMA CallRate ==
  ASSUME RateBounds, RatePart, NEW r \in HotRequests, NEW a \in Args, NEW batch \in HotBatches,
         HotSpot!Call(r, a, batch)
  PROVE  RatePart'
<1> DEFINE refused == Thresholds[a] <= 0 \/ (behavior = "reject" /\ batch > HotSpot!MaxCount(a))
           x == HotSpot!Idle
           y == [x EXCEPT !.arg = a, !.batch = batch, !.pc = "clock"]
<1>1. /\ behavior \in {"reject", "throttling"} /\ req[r].pc = "idle"
      /\ req' = IF refused THEN req ELSE [req EXCEPT ![r] = y]
      /\ UNCHANGED <<behavior, clock, HotSpot!caches, heap, HotSpot!history>>
  BY RequestFacts DEF HotSpot!Call
<1>2. CASE refused
  <2>1. req[r] \in RateRequest /\ Asks(req[r]) /\ req' = [req EXCEPT ![r] = req[r]]
    BY <1>1, <1>2, RequestFacts DEF RatePart, RateTypes
  <2> DEFINE z == req[r]
  <2>2. z.pc = "idle" /\ z \in RateRequest /\ Asks(z) /\ req' = [req EXCEPT ![r] = z]
    BY <1>1, <2>1
  <2> QED BY <1>1, <2>2, GoesOn DEF WithTime, WithTokens
<1>3. CASE ~refused
  <2>1. x \in RateRequest /\ x.time = 0 /\ x.token = 0 /\ x.now = 0
    BY IdleFacts DEF HotSpot!Idle
  <2> HIDE DEF x
  <2>2. /\ y.pc = "clock" /\ y.arg = a /\ y.batch = batch /\ y.now = 0 /\ y.time = 0 /\ y.token = 0
        /\ y \in RateRequest
    BY <2>1, RequestFacts DEF RateRequest, RateSteps
  <2> HIDE DEF y
  <2>3. Asks(y)
    <3>1. Thresholds[a] \in Int /\ HotSpot!MaxCount(a) \in Int /\ batch \in Nat /\ clock \in Nat
      BY RequestFacts DEF HotSpot!MaxCount
    <3>2. Thresholds[a] > 0 /\ (behavior = "reject" => batch <= HotSpot!MaxCount(a))
      BY <1>3, <3>1
    <3> QED BY <1>1, <2>2, <3>1, <3>2 DEF Asks, WithTime, WithTokens
  <2>4. HandsApart(y)
    <3>1. Elements(times) \subseteq Pair /\ Elements(tokens) \subseteq Pair
      BY Cached DEF RatePart, RateTypes
    <3> QED BY <2>2, <3>1, RequestFacts DEF HandsApart, Pair
  <2>5. /\ req' = [req EXCEPT ![r] = y] /\ behavior' = behavior /\ clock' = clock
        /\ times' \in Seq(Pair) /\ Elements(times') = Elements(times)
        /\ tokens' \in Seq(Pair) /\ Elements(tokens') = Elements(tokens)
        /\ concurrency' = concurrency /\ heap' = heap /\ hotPasses' = hotPasses /\ slips' = slips
        /\ evictions' \in [Args -> Nat] /\ \A b \in Args : evictions'[b] = 0 => evictions[b] = 0
    BY <1>1, <1>3, RequestFacts DEF HotSpot!caches, HotSpot!history, y, x
  <2> QED BY <1>1, <2>2, <2>3, <2>4, <2>5, Quiet DEF WithTime, WithTokens
<1> QED BY <1>2, <1>3

(* ReadClock.                                                              *)
LEMMA ReadClockRate ==
  ASSUME RateBounds, RatePart, NEW r \in HotRequests, HotSpot!ReadClock(r)
  PROVE  RatePart'
<1> DEFINE y == [req[r] EXCEPT !.pc = "time", !.now = clock]
<1>1. /\ req[r].pc = "clock" /\ req[r] \in RateRequest /\ Asks(req[r]) /\ clock \in Nat
      /\ UNCHANGED <<behavior, clock, HotSpot!caches, heap, HotSpot!history>>
  BY RequestFacts DEF HotSpot!ReadClock
<1>2. req' = [req EXCEPT ![r] = y]
  BY DEF HotSpot!ReadClock
<1>3. /\ y.pc = "time" /\ y.now = clock /\ y.arg = req[r].arg /\ y.batch = req[r].batch
      /\ y.time = req[r].time /\ y.token = req[r].token /\ y.at = req[r].at /\ y.old = req[r].old
      /\ y \in RateRequest
  BY <1>1 DEF RateRequest, RateSteps
<1> HIDE DEF y
<1>4. Asks(y)
  BY <1>1, <1>3 DEF Asks, WithTime, WithTokens
<1> QED BY <1>1, <1>2, <1>3, <1>4, GoesOn DEF WithTime, WithTokens

(* LoadTime: the turn of a throttled request is a batch's time after last. *)
LEMMA LoadTimeRate ==
  ASSUME RateBounds, RatePart, NEW r \in HotRequests, HotSpot!LoadTime(r)
  PROVE  RatePart'
<1> DEFINE last == heap[req[r].time]
           expected == last + HotSpot!Interval(req[r].arg, req[r].batch)
           x == req[r]
<1>1. /\ x.pc = "load" /\ x \in RateRequest /\ Asks(x) /\ clock \in Nat
      /\ behavior \in {"reject", "throttling"} /\ x.time \in Cells /\ last \in Int
      /\ UNCHANGED <<behavior, clock, HotSpot!caches, heap, HotSpot!history>>
  BY RequestFacts DEF HotSpot!LoadTime, Asks, WithTime
<1>2. expected \in Int
  <2>1. x.batch \in Nat /\ Thresholds[x.arg] \in Nat \ {0} /\ Duration \in Nat
    <3>1. x.arg \in Args /\ Thresholds[x.arg] > 0 /\ x.batch \in Nat
      BY <1>1 DEF Asks, RateRequest
    <3> QED BY <3>1, RequestFacts
  <2>2. x.batch * Duration \in Int
    BY <2>1
  <2> DEFINE k == x.batch * Duration
             m == Thresholds[x.arg]
  <2> HIDE DEF k
  <2>3. k \div m \in Int
    BY <2>1, <2>2, Quotients DEF k
  <2> QED BY <1>1, <2>3 DEF HotSpot!Interval, k
<1>3. CASE behavior = "reject"
  <2> DEFINE step == IF x.now - last > Duration THEN "refill" ELSE "take"
             y == [x EXCEPT !.old = last, !.pc = step]
  <2>1. req' = [req EXCEPT ![r] = y]
    BY <1>3 DEF HotSpot!LoadTime
  <2>2. step \in {"refill", "take"}
    OBVIOUS
  <2> HIDE DEF x, last, step
  <2>3. /\ y.pc = step /\ y.arg = x.arg /\ y.time = x.time /\ y.token = x.token /\ y.batch = x.batch
        /\ y.now = x.now /\ y \in RateRequest
    BY <1>1, <2>2 DEF RateRequest, RateSteps
  <2> HIDE DEF y
  <2>4. Asks(y)
    BY <1>1, <1>3, <2>2, <2>3 DEF Asks, WithTime, WithTokens
  <2>5. /\ x.pc \notin {"stamp", "store"} /\ y.pc \notin {"stamp", "store", "fill"}
        /\ y.pc \in WithTime => x.pc \in WithTime /\ y.time = x.time
        /\ y.pc \in WithTokens => x.pc \in WithTokens /\ y.token = x.token
    BY <1>1, <2>2, <2>3 DEF WithTime, WithTokens
  <2> QED BY <1>1, <2>1, <2>3, <2>4, <2>5, GoesOn DEF x
<1>4. CASE behavior = "throttling"
  <2> DEFINE y == [x EXCEPT !.old = last, !.at = expected, !.pc = "cas"]
  <2>1. HotSpot!Leave(r) \/ req' = [req EXCEPT ![r] = y]
    BY <1>4 DEF HotSpot!LoadTime
  <2>2. CASE HotSpot!Leave(r)
    BY <1>1, <2>2, LeavesRate
  <2>3. CASE req' = [req EXCEPT ![r] = y]
    <3> HIDE DEF x, last, expected
    <3>1. /\ y.pc = "cas" /\ y.arg = x.arg /\ y.time = x.time /\ y.token = x.token
          /\ y.batch = x.batch /\ y.now = x.now /\ y.old = last /\ y.at = expected
          /\ y \in RateRequest
      BY <1>1, <1>2 DEF RateRequest, RateSteps
    <3> HIDE DEF y
    <3>2. y.at = y.old + HotSpot!Interval(y.arg, y.batch)
      BY <3>1 DEF expected, x
    <3>3. Asks(y)
      BY <1>1, <1>4, <3>1, <3>2 DEF Asks, WithTime, WithTokens
    <3>4. /\ x.pc \notin {"stamp", "store"} /\ y.pc \notin {"stamp", "store", "fill"}
          /\ y.pc \in WithTime => x.pc \in WithTime /\ y.time = x.time
          /\ y.pc \in WithTokens => x.pc \in WithTokens /\ y.token = x.token
      BY <1>1, <3>1 DEF WithTime, WithTokens
    <3> QED BY <1>1, <2>3, <3>1, <3>3, <3>4, GoesOn DEF x
  <2> QED BY <2>1, <2>2, <2>3
<1> QED BY <1>1, <1>3, <1>4

(* What is left of rest and of what has been added is a number.            *)
LEMMA RefilledIs ==
  ASSUME RateBounds, RatePart, NEW r \in HotRequests, req[r].pc # "idle", NEW last \in Int,
         NEW rest \in Int
  PROVE  /\ HotSpot!Refilled(r, last, rest) \in Int
         /\ (req[r].now - last) * Thresholds[req[r].arg] \in Int
         /\ HotSpot!Refilled(r, last, rest) + req[r].batch
              <= rest + (((req[r].now - last) * Thresholds[req[r].arg]) \div Duration)
         /\ HotSpot!Refilled(r, last, rest) + req[r].batch <= HotSpot!MaxCount(req[r].arg)
<1> DEFINE n == (req[r].now - last) * Thresholds[req[r].arg]
           added == n \div Duration
           max == HotSpot!MaxCount(req[r].arg)
           b == req[r].batch
<1>1. /\ req[r].now \in Nat /\ b \in Nat /\ req[r].arg \in Args /\ Thresholds[req[r].arg] \in Int
      /\ BurstCount \in Nat
  BY RequestFacts DEF Asks, RateRequest
<1>2. n \in Int /\ max \in Int
  BY <1>1 DEF HotSpot!MaxCount
<1>3. HotSpot!Refilled(r, last, rest) = (IF added + rest > max THEN max ELSE added + rest) - b
  BY DEF HotSpot!Refilled
<1> HIDE DEF n
<1>4. added \in Int
  BY <1>2, RequestFacts, Quotients
<1> HIDE DEF added, max, b
<1>5. /\ HotSpot!Refilled(r, last, rest) \in Int
      /\ HotSpot!Refilled(r, last, rest) + b <= rest + added
      /\ HotSpot!Refilled(r, last, rest) + b <= max
  BY <1>1, <1>2, <1>3, <1>4
<1> QED BY <1>2, <1>5 DEF n, added, max, b

(* LoadTokens: what is left is never below zero.                           *)
LEMMA LoadTokensRate ==
  ASSUME RateBounds, RatePart, NEW r \in HotRequests, HotSpot!LoadTokens(r)
  PROVE  RatePart'
<1> DEFINE x == req[r]
           rest == heap[x.token]
           full == x.pc = "rest"
           new == IF full THEN HotSpot!Refilled(r, x.old, rest) ELSE rest - x.batch
           y == [x EXCEPT !.at = new, !.now = IF full THEN x.now ELSE 0,
                          !.pc = IF full THEN "cas refill" ELSE "cas take",
                          !.time = IF full THEN x.time ELSE 0, !.old = rest]
<1>1. /\ x.pc \in {"rest", "left"} /\ x \in RateRequest /\ Asks(x) /\ clock \in Nat
      /\ behavior \in {"reject", "throttling"} /\ x.token \in Cells /\ rest \in Int
      /\ x.old \in Int /\ x.batch \in Nat
      /\ UNCHANGED <<behavior, clock, HotSpot!caches, heap, HotSpot!history>>
  BY RequestFacts DEF HotSpot!LoadTokens, Asks, WithTokens, RateRequest
<1>2. new \in Int
  BY <1>1, RefilledIs
<1>3. HotSpot!Leave(r) \/ (~(new < 0) /\ req' = [req EXCEPT ![r] = y])
  BY DEF HotSpot!LoadTokens
<1>4. CASE HotSpot!Leave(r)
  BY <1>1, <1>4, LeavesRate
<1>5. CASE ~(new < 0) /\ req' = [req EXCEPT ![r] = y]
  <2>1. ~full => new = rest - x.batch
    OBVIOUS
  <2> HIDE DEF x, rest, new
  <2>2. /\ y.pc = IF full THEN "cas refill" ELSE "cas take"
        /\ y.arg = x.arg /\ y.token = x.token /\ y.batch = x.batch /\ y.old = rest /\ y.at = new
        /\ y.now = (IF full THEN x.now ELSE 0) /\ y.time = (IF full THEN x.time ELSE 0)
    BY <1>1 DEF RateRequest
  <2>3. y \in RateRequest
    BY <1>1, <1>2 DEF RateRequest, RateSteps
  <2> HIDE DEF y
  <2>4. Asks(y)
    <3>1. /\ x.arg \in Args /\ x.batch \in HotBatches /\ Thresholds[x.arg] > 0 /\ x.now <= clock
          /\ behavior = "reject" /\ x.batch <= HotSpot!MaxCount(x.arg)
          /\ full => x.time \in Cells
      BY <1>1 DEF Asks, WithTime
    <3>2. /\ y.arg \in Args /\ y.batch \in HotBatches /\ Thresholds[y.arg] > 0
          /\ y.batch <= HotSpot!MaxCount(y.arg) /\ y.token \in Cells
          /\ y.pc \in {"cas refill", "cas take"}
      BY <1>1, <2>2, <3>1
    <3>4. y.at >= 0
      <4>1. y.at = new /\ new \in Int /\ ~(new < 0)
        BY <1>2, <1>5, <2>2
      <4> QED BY <4>1
    <3>5. y.now <= clock
      <4>1. y.now = x.now \/ y.now = 0
        BY <2>2
      <4>2. x.now <= clock /\ 0 <= clock
        BY <1>1, <3>1
      <4> QED BY <4>1, <4>2
    <3>3. /\ y.pc = "cas refill" => y.time \in Cells
          /\ y.pc = "cas take" => y.at = y.old - y.batch
      BY <2>1, <2>2, <3>1
    <3> QED BY <3>1, <3>2, <3>3, <3>4, <3>5 DEF Asks, WithTime, WithTokens
  <2>5. /\ x.pc \notin {"stamp", "store"} /\ y.pc \notin {"stamp", "store", "fill"}
        /\ y.pc \in WithTime => x.pc \in WithTime /\ y.time = x.time
        /\ y.pc \in WithTokens => x.pc \in WithTokens /\ y.token = x.token
        /\ y.time = 0 \/ y.time = x.time
    BY <1>1, <2>2 DEF WithTime, WithTokens
  <2>6. req' = [req EXCEPT ![r] = y]
    BY <1>5
  <2> QED BY <1>1, <2>2, <2>3, <2>4, <2>5, <2>6, GoesOn DEF x
<1> QED BY <1>3, <1>4, <1>5

(* A request without a counter of tokens is one that starts again.         *)
LEMMA Restarted ==
  ASSUME NEW x \in RateRequest
  PROVE  [x EXCEPT !.pc = "clock", !.time = 0, !.old = 0] \in RateRequest
<1> DEFINE C == Cells \union {0}
           S == RateSteps
           R == [pc : S, arg : Args \union {"none"}, batch : Nat, now : Nat, at : Int,
                 time : C, token : C, old : Int]
<1>1. x \in R /\ 0 \in C
  BY DEF RateRequest
<1>3. "clock" \in S /\ 0 \in Int
  BY DEF RateSteps
<1> HIDE DEF C, S
<1>2. [x EXCEPT !.pc = "clock", !.time = 0, !.old = 0] \in R
  BY <1>1, <1>3, Zenon
<1> QED BY <1>2 DEF C, S, RateRequest

(* A compare-and-swap that fails sends the request round the loop.         *)
LEMMA Retries ==
  ASSUME RateBounds, RatePart, NEW r \in HotRequests, NEW y \in RateRequest,
         req[r].pc \in {"cas refill", "cas take", "cas", "take"}, y.pc = "clock",
         y.arg = req[r].arg, y.batch = req[r].batch, y.now = 0 \/ y.now = req[r].now,
         y.time = 0 \/ y.time = req[r].time, y.token = 0 \/ y.token = req[r].token,
         req' = [req EXCEPT ![r] = y],
         UNCHANGED <<behavior, clock, HotSpot!caches, heap, HotSpot!history>>
  PROVE  RatePart'
<1>1. /\ req[r] \in RateRequest /\ Asks(req[r]) /\ clock \in Nat
      /\ behavior \in {"reject", "throttling"}
  BY RequestFacts
<1>2. /\ y.arg \in Args /\ y.batch \in HotBatches /\ Thresholds[y.arg] > 0
      /\ behavior = "reject" => y.batch <= HotSpot!MaxCount(y.arg)
  BY <1>1 DEF Asks
<1>3. y.now <= clock
  <2>1. req[r].pc # "idle" /\ Asks(req[r])
    BY <1>1
  <2>3. 0 <= clock
    BY RequestFacts
  <2>2. req[r].now <= clock
    BY <2>1 DEF Asks
  <2> QED BY <2>2, <2>3
<1>4. Asks(y)
  BY <1>2, <1>3 DEF Asks, WithTime, WithTokens
<1> QED BY <1>4, GoesOn DEF WithTime, WithTokens

(* The three compare-and-swaps, when they fail.                            *)
LEMMA FailsRate ==
  ASSUME RateBounds, RatePart, NEW r \in HotRequests,
         \/ HotSpot!CasRefill(r) /\ heap[req[r].token] # req[r].old
         \/ HotSpot!CasTake(r) /\ heap[req[r].token] # req[r].old
         \/ HotSpot!CasTime(r) /\ heap[req[r].time] # req[r].old
  PROVE  RatePart'
<1> DEFINE x == req[r]
<1>1. x \in RateRequest /\ HotSpot!Idle \in RateRequest
  BY RequestFacts, IdleFacts
<1>2. CASE HotSpot!CasTake(r)
  <2> DEFINE z == HotSpot!Idle
             y == [z EXCEPT !.pc = "clock", !.arg = x.arg, !.batch = x.batch]
  <2>1. /\ req' = [req EXCEPT ![r] = y] /\ x.pc = "cas take"
        /\ UNCHANGED <<behavior, clock, HotSpot!caches, heap, HotSpot!history>>
    BY <1>2 DEF HotSpot!CasTake, HotSpot!CasRefill, HotSpot!CasTime, HotSpot!history
  <2>2. z \in RateRequest /\ z.now = 0 /\ z.time = 0 /\ z.token = 0
    BY <1>1 DEF HotSpot!Idle
  <2> HIDE DEF x, z
  <2>3. /\ y.pc = "clock" /\ y.arg = x.arg /\ y.batch = x.batch /\ y.now = 0 /\ y.time = 0
        /\ y.token = 0 /\ y \in RateRequest
    BY <1>1, <2>2 DEF RateRequest, RateSteps
  <2> HIDE DEF y
  <2> QED BY <2>1, <2>3, Retries DEF x
<1>3. CASE HotSpot!CasRefill(r) \/ HotSpot!CasTime(r)
  <2> DEFINE y == [x EXCEPT !.pc = "clock"]
  <2>1. x.pc \in {"cas refill", "cas"}
    BY <1>3 DEF HotSpot!CasTime, HotSpot!CasRefill
  <2>2. HotSpot!Goto(r, "clock") /\ UNCHANGED <<behavior, clock, HotSpot!caches, heap, HotSpot!history>>
    <3>1. CASE HotSpot!CasRefill(r)
      <4>1. heap[req[r].token] # req[r].old
        BY <3>1 DEF HotSpot!CasRefill, HotSpot!CasTake, HotSpot!CasTime
      <4> QED BY <3>1, <4>1 DEF HotSpot!CasRefill, HotSpot!history, HotSpot!Slip
    <3>2. CASE HotSpot!CasTime(r)
      <4>1. heap[req[r].time] # req[r].old
        BY <3>2 DEF HotSpot!CasRefill, HotSpot!CasTake, HotSpot!CasTime
      <4> QED BY <3>2, <4>1 DEF HotSpot!CasTime, HotSpot!history, HotSpot!Slip
    <3> QED BY <1>3, <3>1, <3>2
  <2>3. req' = [req EXCEPT ![r] = y]
    BY <2>2 DEF HotSpot!Goto
  <2> HIDE DEF x
  <2>4. /\ y.pc = "clock" /\ y.arg = x.arg /\ y.batch = x.batch /\ y.now = x.now /\ y.time = x.time
        /\ y.token = x.token /\ y \in RateRequest
    BY <1>1 DEF RateRequest, RateSteps
  <2> HIDE DEF y
  <2> QED BY <2>1, <2>2, <2>3, <2>4, Retries DEF x
<1> QED BY <1>2, <1>3

(* A counter that a cache has is no other argument's, and of no other kind. *)
LEMMA TokenApart ==
  ASSUME RatePart, NEW f \in Elements(tokens)
  PROVE  /\ \A e \in Elements(times) : e.cell # f.cell
         /\ \A g \in Elements(tokens) : g.cell = f.cell => g.arg = f.arg
BY DEF RatePart, RateApart, Distinct

(* The same of a counter of a time.                                        *)
LEMMA TimeApart ==
  ASSUME RatePart, NEW e \in Elements(times)
  PROVE  /\ \A f \in Elements(tokens) : e.cell # f.cell
         /\ \A g \in Elements(times) : g.cell = e.cell => g.arg = e.arg
BY DEF RatePart, RateApart, Distinct

(* GetTokens.                                                              *)
LEMMA GetTokensRate ==
  ASSUME RateBounds, RatePart, NEW r \in HotRequests, HotSpot!GetTokens(r)
  PROVE  RatePart'
<1> DEFINE x == req[r]
           a == x.arg
           c == HotSpot!EntryOf(tokens, a).cell
<1>1. /\ x.pc = "take" /\ x \in RateRequest /\ Asks(x) /\ clock \in Nat /\ tokens \in Seq(Pair)
      /\ times \in Seq(Pair) /\ behavior \in {"reject", "throttling"} /\ evictions \in [Args -> Nat]
      /\ HandsApart(x)
      /\ tokens' = HotSpot!Get(tokens, a)
      /\ UNCHANGED <<behavior, clock, times, concurrency, heap, HotSpot!history>>
  BY RequestFacts DEF HotSpot!GetTokens
<1>2. CASE a \notin HotSpot!ArgsOf(tokens)
  <2> DEFINE y == [x EXCEPT !.pc = "clock", !.time = 0, !.old = 0]
  <2>1. req' = [req EXCEPT ![r] = y] /\ tokens' = tokens
    BY <1>1, <1>2 DEF HotSpot!GetTokens, HotSpot!Get
  <2> HIDE DEF x, a, c
  <2>2. /\ y.pc = "clock" /\ y.arg = x.arg /\ y.batch = x.batch /\ y.now = x.now /\ y.time = 0
        /\ y.token = x.token /\ y \in RateRequest
    <3>1. x \in RateRequest
      BY <1>1
    <3>2. /\ y.pc = "clock" /\ y.arg = x.arg /\ y.batch = x.batch /\ y.now = x.now /\ y.time = 0
          /\ y.token = x.token
      BY <3>1 DEF RateRequest
    <3>3. y \in RateRequest
      BY <3>1, Restarted
    <3> QED BY <3>2, <3>3
  <2> HIDE DEF y
  <2>3. UNCHANGED <<behavior, clock, HotSpot!caches, heap, HotSpot!history>>
    BY <1>1, <2>1 DEF HotSpot!caches
  <2> QED BY <1>1, <2>1, <2>2, <2>3, Retries DEF x
<1>3. CASE a \in HotSpot!ArgsOf(tokens)
  <2> DEFINE y == [x EXCEPT !.pc = "left", !.token = c]
  <2>1. req' = [req EXCEPT ![r] = y]
    BY <1>3 DEF HotSpot!GetTokens
  <2>2. tokens' \in Seq(Pair) /\ Elements(tokens') = Elements(tokens)
    BY <1>1, Gets
  <2>3. PICK e \in Elements(tokens) : e.cell = c /\ e.arg = a /\ e \in Pair
    BY <1>1, <1>3, Cached
  <2>4. c \in Cells /\ c \in TokensOf(a)
    BY <2>3 DEF Pair, TokensOf
  <2> HIDE DEF x, a, c
  <2>5. /\ y.pc = "left" /\ y.arg = x.arg /\ y.batch = x.batch /\ y.now = x.now /\ y.time = x.time
        /\ y.token = c /\ y \in RateRequest
    BY <1>1, <2>4 DEF RateRequest, RateSteps
  <2> HIDE DEF y
  <2>6. Asks(y)
    BY <1>1, <2>4, <2>5 DEF Asks, WithTime, WithTokens
  <2>7. HandsApart(y)
    BY <1>1, <2>3, <2>5, TokenApart DEF HandsApart, a
  <2>8. \A b \in Args : y.arg = b =>
          /\ y.pc \in WithTime => y.time \in TimeOf(b)
          /\ y.pc \in WithTokens => y.token \in TokensOf(b)
    BY <2>4, <2>5 DEF WithTime, WithTokens, a
  <2>9. x.pc \notin {"stamp", "store"} /\ y.pc \notin {"stamp", "store", "fill"}
    BY <1>1, <2>5
  <2>10. /\ behavior' = behavior /\ clock' = clock /\ times' \in Seq(Pair)
         /\ Elements(times') = Elements(times) /\ concurrency' = concurrency /\ heap' = heap
         /\ hotPasses' = hotPasses /\ slips' = slips
         /\ evictions' \in [Args -> Nat] /\ \A b \in Args : evictions'[b] = 0 => evictions[b] = 0
    BY <1>1 DEF HotSpot!history
  <2> QED BY <2>1, <2>2, <2>5, <2>6, <2>7, <2>8, <2>9, <2>10, Quiet DEF x
<1> QED BY <1>2, <1>3

(* The counter that an argument has is found.                              *)
LEMMA TimeThere ==
  ASSUME RateBounds, RatePart, NEW r \in HotRequests, HotSpot!AddTime(r),
         req[r].arg \in HotSpot!ArgsOf(times)
  PROVE  RatePart'
<1> DEFINE x == req[r]
           a == x.arg
           c == HotSpot!EntryOf(times', a).cell
           y == [x EXCEPT !.pc = "load", !.time = c]
<1>1. /\ x.pc = "time" /\ x \in RateRequest /\ Asks(x) /\ clock \in Nat /\ tokens \in Seq(Pair)
      /\ times \in Seq(Pair) /\ behavior \in {"reject", "throttling"} /\ evictions \in [Args -> Nat]
      /\ HandsApart(x)
      /\ times' = HotSpot!AddIfAbsent(times, a, HotSpot!Fresh)
      /\ evictions' = HotSpot!Evicted(times, times')
      /\ UNCHANGED <<behavior, clock, tokens, concurrency, slips>>
  BY RequestFacts DEF HotSpot!AddTime
<1>2. heap' = heap /\ hotPasses' = hotPasses /\ req' = [req EXCEPT ![r] = y]
  BY DEF HotSpot!AddTime
<1>3. a \in Args /\ RateTypes /\ RateApart /\ HotBounds /\ concurrency \in Seq(Pair)
  <2>1. a \in Args
    BY <1>1 DEF Asks
  <2> QED BY <2>1 DEF RatePart, RateTypes, RateBounds
<1>4. HotSpot!Fresh \in Cells /\ Distinct(times)
  BY <1>1, <1>3, FreshIsFree DEF RateApart
<1>5. times' \in Seq(Pair) /\ Elements(times') = Elements(times)
  BY <1>1, <1>3, <1>4, AddsTo
<1>6. evictions' \in [Args -> Nat] /\ \A b \in Args : evictions'[b] = 0 => evictions[b] = 0
  BY <1>1, <1>3, <1>4, Keeps
<1>7. PICK e \in Elements(times) : e.cell = c /\ e.arg = a /\ e \in Pair
  <2>1. a \in HotSpot!ArgsOf(times')
    BY <1>1, <1>5, Cached
  <2> QED BY <1>5, <2>1, Cached
<1>8. c \in Cells /\ c \in TimeOf(a)
  BY <1>7 DEF Pair, TimeOf
<1> HIDE DEF x, a, c
<1>9. /\ y.pc = "load" /\ y.arg = x.arg /\ y.batch = x.batch /\ y.now = x.now /\ y.token = x.token
      /\ y.time = c /\ y \in RateRequest
  BY <1>1, <1>8 DEF RateRequest, RateSteps
<1> HIDE DEF y
<1>10. Asks(y)
  BY <1>1, <1>8, <1>9 DEF Asks, WithTime, WithTokens
<1>11. HandsApart(y)
  BY <1>1, <1>7, <1>9, TimeApart DEF HandsApart, a
<1>12. \A b \in Args : y.arg = b =>
          /\ y.pc \in WithTime => y.time \in TimeOf(b)
          /\ y.pc \in WithTokens => y.token \in TokensOf(b)
  BY <1>8, <1>9 DEF WithTime, WithTokens, a
<1>13. x.pc \notin {"stamp", "store"} /\ y.pc \notin {"stamp", "store", "fill"}
  BY <1>1, <1>9
<1>14. /\ behavior' = behavior /\ clock' = clock /\ concurrency' = concurrency /\ slips' = slips
       /\ tokens' \in Seq(Pair) /\ Elements(tokens') = Elements(tokens)
  BY <1>1
<1> QED BY <1>2, <1>5, <1>6, <1>9, <1>10, <1>11, <1>12, <1>13, <1>14, Quiet DEF x

(* AddTokens, with tokens there: the request has their counter in hand.    *)
LEMMA TokensThere ==
  ASSUME RateBounds, RatePart, NEW r \in HotRequests, HotSpot!AddTokens(r),
         req[r].arg \in HotSpot!ArgsOf(tokens)
  PROVE  RatePart'
<1> DEFINE x == req[r]
           a == x.arg
           c == HotSpot!EntryOf(tokens', a).cell
           y == [x EXCEPT !.pc = "rest", !.token = c]
<1>1. /\ x.pc = "refill" /\ x \in RateRequest /\ Asks(x) /\ clock \in Nat /\ tokens \in Seq(Pair)
      /\ times \in Seq(Pair) /\ behavior \in {"reject", "throttling"} /\ evictions \in [Args -> Nat]
      /\ HandsApart(x)
      /\ tokens' = HotSpot!AddIfAbsent(tokens, a, HotSpot!Fresh)
      /\ evictions' = HotSpot!Evicted(tokens, tokens')
      /\ UNCHANGED <<behavior, clock, times, concurrency, slips, hotPasses>>
  BY RequestFacts DEF HotSpot!AddTokens
<1>2. heap' = heap /\ req' = [req EXCEPT ![r] = y]
  BY DEF HotSpot!AddTokens
<1>3. a \in Args /\ RateTypes /\ RateApart /\ HotBounds /\ concurrency \in Seq(Pair)
  <2>1. a \in Args
    BY <1>1 DEF Asks
  <2> QED BY <2>1 DEF RatePart, RateTypes, RateBounds
<1>4. HotSpot!Fresh \in Cells /\ Distinct(tokens)
  BY <1>1, <1>3, FreshIsFree DEF RateApart
<1>5. tokens' \in Seq(Pair) /\ Elements(tokens') = Elements(tokens)
  BY <1>1, <1>3, <1>4, AddsTo
<1>6. evictions' \in [Args -> Nat] /\ \A b \in Args : evictions'[b] = 0 => evictions[b] = 0
  BY <1>1, <1>3, <1>4, Keeps
<1>7. PICK e \in Elements(tokens) : e.cell = c /\ e.arg = a /\ e \in Pair
  <2>1. a \in HotSpot!ArgsOf(tokens')
    BY <1>1, <1>5, Cached
  <2> QED BY <1>5, <2>1, Cached
<1>8. c \in Cells /\ c \in TokensOf(a)
  BY <1>7 DEF Pair, TokensOf
<1> HIDE DEF x, a, c
<1>9. /\ y.pc = "rest" /\ y.arg = x.arg /\ y.batch = x.batch /\ y.now = x.now /\ y.time = x.time
      /\ y.token = c /\ y \in RateRequest
  BY <1>1, <1>8 DEF RateRequest, RateSteps
<1> HIDE DEF y
<1>10. Asks(y)
  BY <1>1, <1>8, <1>9 DEF Asks, WithTime, WithTokens
<1>11. HandsApart(y)
  BY <1>1, <1>7, <1>9, TokenApart DEF HandsApart, a
<1>12. \A b \in Args : Holding(b) /\ y.arg = b =>
          /\ y.pc \in WithTime => y.time \in TimeOf(b)
          /\ y.pc \in WithTokens => y.token \in TokensOf(b)
  BY <1>1, <1>8, <1>9 DEF WithTime, WithTokens, a, x, Holding
<1>13. x.pc \notin {"stamp", "store"} /\ y.pc \notin {"stamp", "store", "fill"}
  BY <1>1, <1>9
<1>14. /\ behavior' = behavior /\ clock' = clock /\ concurrency' = concurrency /\ slips' = slips
       /\ times' \in Seq(Pair) /\ Elements(times') = Elements(times) /\ hotPasses' = hotPasses
  BY <1>1
<1> QED BY <1>2, <1>5, <1>6, <1>9, <1>10, <1>11, <1>12, <1>13, <1>14, Quiet DEF x

(* A request that passes counts from its time on.                          *)
LEMMA PassRecorded ==
  ASSUME RateBounds, RateTypes, NEW a \in Args, NEW d \in Nat, NEW b \in Nat,
         hotPasses' = [hotPasses EXCEPT ![a][d] = @ + b]
  PROVE  /\ hotPasses' \in [Args -> [0..HotSpot!Horizon -> Nat]]
         /\ \A other \in Args \ {a} : hotPasses'[other] = hotPasses[other]
         /\ Spent(a) \in Nat /\ Spent(a)' \in Nat /\ Spent(a)' <= Spent(a) + b
         /\ \A t \in 0..HotSpot!Horizon :
              /\ HotSpot!PassedUntil(a, t) \in Nat /\ HotSpot!PassedUntil(a, t) <= Spent(a)
              /\ HotSpot!PassedUntil(a, t)'
                   = HotSpot!PassedUntil(a, t) + (IF d <= t THEN b ELSE 0)
<1> DEFINE H == HotSpot!Horizon
           p == hotPasses[a]
           q == hotPasses'[a]
<1>1. H \in Nat /\ hotPasses \in [Args -> [0..H -> Nat]] /\ p \in [0..H -> Nat]
  <2>1. H \in Nat
    BY DEF RateBounds, HotSpot!Horizon
  <2>2. hotPasses \in [Args -> [0..H -> Nat]]
    BY DEF RateTypes
  <2> HIDE DEF H
  <2> QED BY <2>1, <2>2
<1>2. /\ q = [p EXCEPT ![d] = @ + b]
      /\ \A other \in Args \ {a} : hotPasses'[other] = hotPasses[other]
      /\ hotPasses' = [hotPasses EXCEPT ![a] = q]
  BY <1>1
<1>3. /\ \A x \in 0..H : p[x] \in Nat
      /\ \A x \in (0..H) \ {d} : q[x] = p[x]
      /\ d \in 0..H => q[d] = p[d] + b
      /\ q \in [0..H -> Nat]
  <2> HIDE DEF H, p, q
  <2>1. \A x \in 0..H : p[x] \in Nat
    BY <1>1
  <2>2. \A x \in (0..H) \ {d} : q[x] = p[x]
    BY <1>1, <1>2
  <2>3. d \in 0..H => q[d] = p[d] + b
    BY <1>1, <1>2
  <2>4. \A x \in 0..H : q[x] \in Nat
    BY <2>1, <2>2, <2>3
  <2>5. q \in [0..H -> Nat]
    BY <1>1, <1>2, <2>4
  <2> QED BY <2>1, <2>2, <2>3, <2>5
<1>4. \A t : /\ HotSpot!PassedUntil(a, t) = SumTo(p, t)
             /\ HotSpot!PassedUntil(a, t)' = SumTo(q, t)
  BY DEF SumTo, HotSpot!PassedUntil, HotSpot!MapThenSumSet, HotSpot!MapThenFoldSet
<1>5. hotPasses' \in [Args -> [0..H -> Nat]]
  <2> HIDE DEF H, p, q
  <2> QED BY <1>1, <1>2, <1>3
<1>6. H' = H
  BY DEF HotSpot!Horizon
<1> HIDE DEF H, p, q
<1>7. ASSUME NEW t \in 0..H
      PROVE  /\ SumTo(p, t) \in Nat /\ SumTo(p, t) <= SumTo(p, H)
             /\ SumTo(q, t) = SumTo(p, t) + (IF d <= t THEN b ELSE 0)
  <2>1. Adds(p, q, H, d, b)
    BY <1>3 DEF Adds
  <2>2. H \in Nat /\ t \in 0..H
    BY <1>1, <1>7
  <2> QED BY <2>1, <2>2, SumToAdds
<1>8. H \in 0..H
  BY <1>1
<1>9. Spent(a) = SumTo(p, H) /\ Spent(a)' = SumTo(q, H)
  BY <1>4 DEF Spent, H
<1>10. Spent(a) \in Nat /\ Spent(a)' \in Nat /\ Spent(a)' <= Spent(a) + b
  BY <1>7, <1>8, <1>9
<1>11. \A t \in 0..H :
          /\ HotSpot!PassedUntil(a, t) \in Nat /\ HotSpot!PassedUntil(a, t) <= Spent(a)
          /\ HotSpot!PassedUntil(a, t)'
               = HotSpot!PassedUntil(a, t) + (IF d <= t THEN b ELSE 0)
  BY <1>4, <1>7, <1>9
<1> QED BY <1>2, <1>5, <1>10, <1>11 DEF H

(* What has passed until a time is no more than all that has.              *)
LEMMA SpentIs ==
  ASSUME RateBounds, RateTypes, NEW a \in Args
  PROVE  /\ Spent(a) \in Nat
         /\ \A t \in 0..HotSpot!Horizon :
              HotSpot!PassedUntil(a, t) \in Nat /\ HotSpot!PassedUntil(a, t) <= Spent(a)
<1> DEFINE H == HotSpot!Horizon
           p == hotPasses[a]
<1>1. H \in Nat /\ hotPasses \in [Args -> [0..H -> Nat]] /\ p \in [0..H -> Nat]
  BY DEF RateBounds, RateTypes, HotSpot!Horizon
<1>2. \A t : HotSpot!PassedUntil(a, t) = SumTo(p, t)
  BY DEF SumTo, HotSpot!PassedUntil, HotSpot!MapThenSumSet, HotSpot!MapThenFoldSet
<1> HIDE DEF H, p
<1>3. Adds(p, p, H, 0, 0)
  BY <1>1 DEF Adds
<1>4. \A t \in 0..H : SumTo(p, t) \in Nat /\ SumTo(p, t) <= SumTo(p, H)
  BY <1>1, <1>3, SumToAdds
<1>5. H \in 0..H
  BY <1>1
<1> QED BY <1>2, <1>4, <1>5 DEF Spent, H

(* What another request does leaves an argument as it was.                 *)
LEMMA OthersKept ==
  ASSUME RateBounds, RateTypes, NEW r \in HotRequests, NEW b \in Args, Kept(b), req[r].arg # b,
         req'[r].arg # b \/ req'[r].pc = "idle", \A q \in HotRequests \ {r} : req'[q] = req[q],
         behavior' = behavior, clock' = clock,
         TimeOf(b)' = TimeOf(b), TokensOf(b)' = TokensOf(b),
         \A c \in TimeOf(b) \union TokensOf(b) : heap'[c] = heap[c], hotPasses'[b] = hotPasses[b]
  PROVE  Kept(b)'
<1>1. Holding(b)
  BY DEF Kept
<1>2. Holding(b)'
  BY <1>1, StillHolding DEF WithTime, WithTokens
<1>3. \A q \in HotRequests : req[q] # req'[q] =>
        /\ req[q].arg = b => req[q].pc \notin {"stamp", "store"}
        /\ req'[q].arg = b => req'[q].pc \notin {"stamp", "store"}
  OBVIOUS
<1>4. clock' \in Nat /\ clock <= clock'
  BY DEF RateTypes
<1> QED BY <1>2, <1>3, <1>4, Uncounted

(* A request writes to a counter it has in hand.                           *)
LEMMA Writes ==
  ASSUME RateBounds, RatePart, NEW r \in HotRequests, NEW y \in RateRequest, Asks(y),
         HandsApart(y), req' = [req EXCEPT ![r] = y],
         NEW a \in Args, req[r].arg = a, y.arg = a \/ y.pc = "idle",
         UNCHANGED <<behavior, clock, HotSpot!caches, evictions>>,
         NEW c, c = req[r].time \/ c = req[r].token, NEW v \in Int,
         heap' = [heap EXCEPT ![c] = v],
         hotPasses' \in [Args -> [0..HotSpot!Horizon -> Nat]],
         \A b \in Args \ {a} : hotPasses'[b] = hotPasses[b],
         slips' \in [Args -> Nat], \A b \in Args : slips'[b] = 0 => slips[b] = 0,
         Undisturbed(a)' => Kept(a)'
  PROVE  RatePart'
<1>1. /\ RateTypes /\ RateApart
      /\ behavior' = behavior /\ clock' = clock /\ times' = times /\ tokens' = tokens
      /\ concurrency' = concurrency /\ evictions' = evictions
  BY DEF RatePart, HotSpot!caches
<1>2. /\ req' \in [HotRequests -> RateRequest] /\ (\A q \in HotRequests : Asks(req[q]))'
      /\ req'[r] = y /\ \A q \in HotRequests \ {r} : req'[q] = req[q]
  BY <1>1, RequestTypes
<1>3. heap' \in [Cells -> Int]
  BY <1>1 DEF RateTypes
<1>4. RateTypes'
  BY <1>1, <1>2, <1>3 DEF RateTypes, HotSpot!Horizon
<1>5. Elements(times') = Elements(times) /\ Elements(tokens') = Elements(tokens)
  BY <1>1
<1>6. RateApart'
  BY <1>1, <1>2, <1>5, RequestApart
<1>7. ASSUME NEW b \in Args, Undisturbed(b)' PROVE Kept(b)'
  <2>1. CASE b = a
    BY <1>7, <2>1
  <2>2. CASE b # a
    <3>1. Kept(b)
      BY <1>1, <1>7 DEF Undisturbed, RatePart
    <3>2. TimeOf(b)' = TimeOf(b) /\ TokensOf(b)' = TokensOf(b)
      BY <1>5 DEF TimeOf, TokensOf, Elements
    <3>3. c \notin TimeOf(b) /\ c \notin TokensOf(b)
      BY <1>1, <2>2 DEF RateApart, TimeOf, TokensOf
    <3>4. \A d \in TimeOf(b) \union TokensOf(b) : heap'[d] = heap[d]
      <4>1. heap \in [Cells -> Int]
        BY <1>1 DEF RateTypes
      <4>2. TimeOf(b) \subseteq Cells /\ TokensOf(b) \subseteq Cells
        <5>1. Elements(times) \subseteq Pair /\ Elements(tokens) \subseteq Pair
          BY <1>1, Cached DEF RateTypes
        <5> QED BY <5>1 DEF TimeOf, TokensOf, Pair
      <4> QED BY <3>3, <4>1, <4>2
    <3>5. req'[r].arg # b \/ req'[r].pc = "idle"
      BY <1>2, <2>2
    <3>6. hotPasses'[b] = hotPasses[b]
      BY <2>2
    <3> QED BY <1>1, <1>2, <2>2, <3>1, <3>2, <3>4, <3>5, <3>6, OthersKept
  <2> QED BY <2>1, <2>2
<1> QED BY <1>4, <1>6, <1>7 DEF RatePart

(* What is added to an argument's counter until a time.                    *)
LEMMA AddedIs ==
  ASSUME RateBounds, NEW a \in Args, Thresholds[a] > 0, NEW t \in Int, NEW u \in Int
  PROVE  /\ Added(a, t) \in Int /\ HotSpot!MaxCount(a) \in Nat
         /\ t >= 0 => Added(a, t) >= 0
         /\ t <= u => Added(a, t) <= Added(a, u)
         /\ Added(a, t) + (((u - t) * Thresholds[a]) \div Duration) <= Added(a, u)
<1> DEFINE m == Thresholds[a]
           x == t * m
           y == u * m
<1>1. m \in Nat /\ Duration \in Nat \ {0} /\ BurstCount \in Nat
  BY DEF RateBounds, HotBounds
<1>2. x \in Int /\ y \in Int /\ (t <= u => x <= y) /\ (u - t) * m = y - x
  <2> HIDE DEF m
  <2> QED BY <1>1, Mul
<1>3. t >= 0 => x >= 0
  <2> HIDE DEF m
  <2>1. 0 <= t => 0 * m <= t * m
    BY <1>1, Mul
  <2> QED BY <1>1, <2>1
<1>4. HotSpot!MaxCount(a) \in Nat
  BY <1>1 DEF HotSpot!MaxCount
<1> HIDE DEF x, y
<1>5. /\ x \div Duration \in Int
      /\ x <= y => x \div Duration <= y \div Duration
      /\ (x \div Duration) + ((y - x) \div Duration) <= y \div Duration
      /\ x >= 0 => x \div Duration >= 0
  BY <1>1, <1>2, Quotients
<1>6. Added(a, t) = x \div Duration /\ Added(a, u) = y \div Duration
  BY DEF Added, x, y
<1>7. ((u - t) * Thresholds[a]) \div Duration = (y - x) \div Duration
  BY <1>2
<1> HIDE DEF m
<1> QED BY <1>2, <1>3, <1>4, <1>5, <1>6, <1>7

(* There is room for less, and at a later time.                            *)
LEMMA RoomFor ==
  ASSUME RateBounds, NEW a \in Args, Thresholds[a] > 0, NEW t \in Int, NEW u \in Int, t <= u,
         NEW n \in Int, NEW k \in Int, k <= n, Room(a, t, n)
  PROVE  Room(a, u, k)
BY AddedIs DEF Room

(* Reject after a step, from what the step leaves.                         *)
LEMMA RejectingNext ==
  ASSUME NEW a, NEW T, NEW K, NEW O, NEW h, NEW n, NEW x, NEW k,
         TimeOf(a)' = T, TokensOf(a)' = K, In(a, {"stamp"})' = O, heap' = h, Spent(a)' = n,
         req' = x, clock' = k,
         K = {} => n = 0 /\ O = {},
         K # {} => T # {},
         \A c \in T : h[c] >= 0 /\ h[c] <= k,
         \A p, q \in O : p = q,
         \A d \in K : h[d] >= 0,
         \A d \in K : \A c \in T : O = {} => Room(a, h[c], n + h[d]),
         \A d \in K : \A c \in T : \A s \in O :
           \/ Room(a, h[c], n + x[s].batch + h[d])
           \/ Room(a, x[s].now, n + x[s].batch + h[d]),
         \A t \in 0..HotSpot!Horizon : Room(a, t, HotSpot!PassedUntil(a, t)')
  PROVE  Rejecting(a)'
<1>1. ASSUME NEW d \in TokensOf(a)', NEW c \in TimeOf(a)'
      PROVE  /\ In(a, {"stamp"})' = {} => Room(a, heap[c], Spent(a) + heap[d])'
             /\ \A s \in In(a, {"stamp"})' :
                  \/ Room(a, heap[c], Spent(a) + req[s].batch + heap[d])'
                  \/ Room(a, req[s].now, Spent(a) + req[s].batch + heap[d])'
  <2>1. /\ O = {} => Room(a, h[c], n + h[d])
        /\ \A s \in O : \/ Room(a, h[c], n + x[s].batch + h[d])
                        \/ Room(a, x[s].now, n + x[s].batch + h[d])
    BY <1>1
  <2> QED BY <2>1 DEF Room, Added, HotSpot!MaxCount
<1>2. \A t \in 0..HotSpot!Horizon : Room(a, t, HotSpot!PassedUntil(a, t))'
  BY DEF Room, Added, HotSpot!MaxCount
<1>3. TokensOf(a)' = {} => Spent(a)' = 0 /\ In(a, {"stamp"})' = {}
  OBVIOUS
<1>4. (TokensOf(a)' # {} => TimeOf(a)' # {}) /\ \A p, q \in In(a, {"stamp"})' : p = q
  OBVIOUS
<1>5. (\A c \in TimeOf(a)' : heap'[c] >= 0 /\ heap'[c] <= clock') /\ \A d \in TokensOf(a)' : heap'[d] >= 0
  OBVIOUS
<1> QED BY <1>1, <1>2, <1>3, <1>4, <1>5 DEF Rejecting, HotSpot!Horizon

(* Throttling after a step, from what the step leaves.                     *)
LEMMA ThrottledNext ==
  ASSUME NEW a, NEW T, NEW O, NEW h, NEW n, NEW x,
         TimeOf(a)' = T, In(a, {"store"})' = O, heap' = h, Spent(a)' = n, req' = x,
         HotSpot!Even(a) => T # {} \/ n = 0,
         HotSpot!Even(a) => \A c \in T : h[c] >= 0,
         HotSpot!Even(a) => \A p, q \in O : p = q,
         HotSpot!Even(a) /\ O = {} => \A c \in T : Turn(a, h[c], n),
         HotSpot!Even(a) => \A s \in O : Turn(a, x[s].at, n + x[s].batch),
         HotSpot!Even(a) => \A t \in 0..HotSpot!Horizon : Turn(a, t, HotSpot!PassedUntil(a, t)')
  PROVE  Throttled(a)'
<1> SUFFICES ASSUME HotSpot!Even(a) PROVE Throttled(a)'
  BY DEF Throttled, HotSpot!Even
<1>1. \A c \in TimeOf(a)' : In(a, {"store"})' = {} => Turn(a, heap[c], Spent(a))'
  <2>1. \A c \in T : O = {} => Turn(a, h[c], n)
    OBVIOUS
  <2> QED BY <2>1 DEF Turn
<1>2. \A s \in In(a, {"store"})' : Turn(a, req[s].at, Spent(a) + req[s].batch)'
  <2>1. \A s \in O : Turn(a, x[s].at, n + x[s].batch)
    OBVIOUS
  <2> QED BY <2>1 DEF Turn
<1>3. \A t \in 0..HotSpot!Horizon : Turn(a, t, HotSpot!PassedUntil(a, t))'
  BY DEF Turn
<1>4. (TimeOf(a)' = {} => Spent(a)' = 0) /\ \A p, q \in In(a, {"store"})' : p = q
  OBVIOUS
<1>5. \A c \in TimeOf(a)' : heap'[c] >= 0
  OBVIOUS
<1> QED BY <1>1, <1>2, <1>3, <1>4, <1>5 DEF Throttled, HotSpot!Horizon

(* An argument has one counter of a kind.                                  *)
LEMMA OneCounter ==
  ASSUME RatePart, NEW a
  PROVE  /\ \A c, d \in TimeOf(a) : c = d
         /\ \A c, d \in TokensOf(a) : c = d
         /\ TimeOf(a) \subseteq Cells /\ TokensOf(a) \subseteq Cells
         /\ \A c \in TimeOf(a) : \A d \in TokensOf(a) : c # d
<1>1. RateTypes /\ RateApart
  BY DEF RatePart
<1>2. Elements(times) \subseteq Pair /\ Elements(tokens) \subseteq Pair
  BY <1>1, Cached DEF RateTypes
<1>3. TimeOf(a) \subseteq Cells /\ TokensOf(a) \subseteq Cells
  BY <1>2 DEF TimeOf, TokensOf, Pair
<1>4. (\A c, d \in TimeOf(a) : c = d) /\ \A c, d \in TokensOf(a) : c = d
  BY <1>1 DEF RateApart, Distinct, TimeOf, TokensOf
<1>5. \A c \in TimeOf(a) : \A d \in TokensOf(a) : c # d
  BY <1>1 DEF RateApart, TimeOf, TokensOf
<1> QED BY <1>3, <1>4, <1>5

(* What the requests of an argument that are about to count are, after one *)
(* request's step.                                                         *)
LEMMA InNext ==
  ASSUME RateTypes, NEW r \in HotRequests, NEW y, req' = [req EXCEPT ![r] = y], NEW a, NEW S
  PROVE  /\ req'[r] = y /\ \A q \in HotRequests \ {r} : req'[q] = req[q]
         /\ ~(y.arg = a /\ y.pc \in S) => In(a, S)' = In(a, S) \ {r}
         /\ y.arg = a /\ y.pc \in S => In(a, S)' = In(a, S) \union {r}
         /\ ~(req[r].arg = a /\ req[r].pc \in S) => In(a, S) \ {r} = In(a, S)
<1>1. req'[r] = y /\ \A q \in HotRequests \ {r} : req'[q] = req[q]
  BY DEF RateTypes
<1>2. In(a, S)' = {q \in HotRequests : req'[q].arg = a /\ req'[q].pc \in S}
  BY DEF In
<1>3. ASSUME ~(y.arg = a /\ y.pc \in S) PROVE In(a, S)' = In(a, S) \ {r}
  BY <1>1, <1>2, <1>3 DEF In
<1>4. ASSUME y.arg = a /\ y.pc \in S PROVE In(a, S)' = In(a, S) \union {r}
  BY <1>1, <1>2, <1>4 DEF In
<1> QED BY <1>1, <1>3, <1>4 DEF In

(* CasTake: what passes leaves the counter at once.                        *)
LEMMA CasTakeRate ==
  ASSUME RateBounds, RatePart, NEW r \in HotRequests, HotSpot!CasTake(r),
         heap[req[r].token] = req[r].old
  PROVE  RatePart'
<1> DEFINE x == req[r]
           b == x.batch
           d0 == x.token
           y == HotSpot!Idle
<1>1. PICK a \in Args : x.arg = a
  BY RequestFacts DEF HotSpot!CasTake, Asks
<1>2. /\ x.pc = "cas take" /\ x \in RateRequest /\ clock \in Nat
      /\ Thresholds[a] > 0 /\ b \in Nat /\ x.old \in Int /\ x.at \in Int
      /\ d0 \in Cells /\ x.at = x.old - b /\ x.at >= 0 /\ behavior = "reject"
  <2>1. x.pc = "cas take" /\ x \in RateRequest /\ Asks(x) /\ clock \in Nat
        /\ behavior \in {"reject", "throttling"}
    BY RequestFacts DEF HotSpot!CasTake
  <2>2. /\ Thresholds[a] > 0 /\ d0 \in Cells /\ x.at = x.old - b /\ x.at >= 0
        /\ behavior # "throttling"
    BY <1>1, <2>1 DEF Asks, WithTokens
  <2> QED BY <2>1, <2>2 DEF RateRequest
<1>3. /\ req' = [req EXCEPT ![r] = y] /\ heap' = [heap EXCEPT ![d0] = x.at]
      /\ hotPasses' = [hotPasses EXCEPT ![a][clock] = @ + b]
      /\ UNCHANGED <<behavior, clock, HotSpot!caches, slips, evictions>>
  BY <1>1 DEF HotSpot!CasTake, HotSpot!Pass, HotSpot!Leave
<1>4. RateTypes /\ RateApart
  BY DEF RatePart
<1>5. y \in RateRequest /\ Asks(y) /\ HandsApart(y) /\ y.pc = "idle"
  BY IdleFacts DEF HotSpot!Idle
<1>6. slips' \in [Args -> Nat] /\ \A c \in Args : slips'[c] = 0 => slips[c] = 0
  BY <1>3, <1>4 DEF RateTypes
<1>7. x.old = heap[d0] /\ heap \in [Cells -> Int]
  BY <1>4 DEF RateTypes
<1>8. /\ hotPasses' \in [Args -> [0..HotSpot!Horizon -> Nat]]
      /\ \A c \in Args \ {a} : hotPasses'[c] = hotPasses[c]
      /\ Spent(a) \in Nat /\ Spent(a)' \in Nat /\ Spent(a)' <= Spent(a) + b
      /\ \A t \in 0..HotSpot!Horizon :
           /\ HotSpot!PassedUntil(a, t) \in Nat /\ HotSpot!PassedUntil(a, t) <= Spent(a)
           /\ HotSpot!PassedUntil(a, t)'
                = HotSpot!PassedUntil(a, t) + (IF clock <= t THEN b ELSE 0)
  <2>1. hotPasses' = [hotPasses EXCEPT ![a][clock] = @ + b] /\ clock \in Nat /\ b \in Nat
    BY <1>2, <1>3
  <2> HIDE DEF x, b, d0, y
  <2> QED BY <1>4, <2>1, PassRecorded
<1> HIDE DEF x, b, d0, y
<1>9. ASSUME Undisturbed(a)' PROVE Kept(a)'
  <2> DEFINE T == TimeOf(a)
             K == TokensOf(a)
             O == In(a, {"stamp"})
             n == Spent(a)
             h == heap'
             m == n'
  <2>1. Undisturbed(a) /\ Holding(a) /\ Rejecting(a)
    BY <1>2, <1>3, <1>9 DEF Undisturbed, RatePart, Kept
  <2>2. T' = T /\ K' = K
    BY <1>3 DEF TimeOf, TokensOf, Elements, HotSpot!caches
  <2>3. O' = O /\ req'[r] = y /\ \A q \in HotRequests \ {r} : req'[q] = req[q]
    <3>1. req'[r] = y /\ \A q \in HotRequests \ {r} : req'[q] = req[q]
      BY <1>3, <1>4 DEF RateTypes
    <3>2. In(a, {"stamp"})' = In(a, {"stamp"}) \ {r}
      BY <1>3, <1>4, <1>5, InNext
    <3>3. r \notin In(a, {"stamp"})
      BY <1>2 DEF In, x
    <3> QED BY <3>1, <3>2, <3>3
  <2>4. Holding(a)'
    BY <1>5, <2>1, <2>2, <2>3, StillHolding DEF WithTime, WithTokens
  <2>5. d0 \in K /\ (\A d \in K : d = d0) /\ \A c \in T : c # d0 /\ c \in Cells
    <3>1. d0 \in K
      BY <1>1, <1>2, <2>1 DEF Holding, WithTokens, x, d0
    <3> QED BY <3>1, OneCounter
  <2>6. h[d0] = x.at /\ \A c \in T : h[c] = heap[c] /\ heap[c] \in Int
    BY <1>2, <1>3, <1>7, <2>5
  <2>7. /\ K # {} => T # {}
        /\ \A c \in T : heap[c] >= 0 /\ heap[c] <= clock
        /\ \A p, q \in O : p = q
        /\ \A d \in K : \A c \in T :
             /\ O = {} => Room(a, heap[c], n + heap[d])
             /\ \A s \in O : \/ Room(a, heap[c], n + req[s].batch + heap[d])
                             \/ Room(a, req[s].now, n + req[s].batch + heap[d])
        /\ \A t \in 0..HotSpot!Horizon : Room(a, t, HotSpot!PassedUntil(a, t))
    BY <2>1 DEF Rejecting
  <2>8. \A s \in O : req'[s] = req[s] /\ req[s].batch \in Nat /\ req[s].now \in Nat /\ req[s].now <= clock
    <3>1. \A s \in O : s \in HotRequests /\ s # r /\ req[s].pc = "stamp"
      BY <1>2 DEF In, x
    <3>2. \A s \in O : Asks(req[s]) /\ req[s] \in RateRequest
      BY <1>4, <3>1 DEF RateTypes
    <3> QED BY <2>3, <3>1, <3>2 DEF Asks, RateRequest
  <2>9. n \in Nat /\ m \in Nat /\ m <= n + b
    BY <1>8
  <2> DEFINE rest == heap[d0]
             left == h[d0]
  <2> HIDE DEF T, K, O, h, n, m
  <2>16. rest \in Int /\ left = rest - b /\ left >= 0
    <3>1. rest \in Int /\ rest = x.old /\ left = x.at
      BY <1>2, <1>7, <2>6
    <3> QED BY <1>2, <3>1
  <2>17. b \in Nat /\ clock \in Nat /\ HotSpot!Horizon \in Nat
    <3>1. HotSpot!Horizon \in Nat
      BY DEF RateBounds, HotSpot!Horizon
    <3> QED BY <1>2, <3>1
  <2> HIDE DEF rest, left
  <2>10. PICK c0 : c0 \in T
    BY <2>5, <2>7
  <2>11. ASSUME NEW c \in T, O = {} PROVE Room(a, h[c], m + h[d0])
    <3>1. Room(a, heap[c], n + heap[d0]) /\ heap[c] \in Int /\ h[c] = heap[c]
      BY <2>5, <2>6, <2>7, <2>11
    <3>2. m + left <= n + rest /\ m + left \in Int /\ n + rest \in Int
      BY <2>9, <2>16, <2>17
    <3> DEFINE k == heap[c]
    <3>3. Room(a, k, n + rest) /\ k \in Int /\ k <= k
      BY <3>1 DEF rest
    <3> HIDE DEF k
    <3>4. Room(a, k, m + left)
      BY <2>1, <3>2, <3>3, RoomFor DEF Undisturbed
    <3> QED BY <3>1, <3>4 DEF left, k
  <2>12. ASSUME NEW c \in T, NEW s \in O
         PROVE  \/ Room(a, h[c], m + req'[s].batch + h[d0])
                \/ Room(a, req'[s].now, m + req'[s].batch + h[d0])
    <3>1. /\ \/ Room(a, heap[c], n + req[s].batch + heap[d0])
             \/ Room(a, req[s].now, n + req[s].batch + heap[d0])
          /\ heap[c] \in Int /\ h[c] = heap[c]
      BY <2>5, <2>6, <2>7
    <3>2. /\ m + req[s].batch + left <= n + req[s].batch + rest
          /\ m + req[s].batch + left \in Int /\ n + req[s].batch + rest \in Int
      <4> DEFINE w == req[s].batch
      <4>1. w \in Nat
        BY <2>8
      <4> HIDE DEF w
      <4>2. m + w + left <= n + w + rest /\ m + w + left \in Int /\ n + w + rest \in Int
        BY <2>9, <2>16, <2>17, <4>1
      <4> QED BY <4>2 DEF w
    <3>3. req'[s] = req[s] /\ req[s].now \in Int
      BY <2>8
    <3> QED BY <2>1, <3>1, <3>2, <3>3, RoomFor DEF Undisturbed, rest, left
  <2>13. ASSUME NEW t \in 0..HotSpot!Horizon PROVE Room(a, t, HotSpot!PassedUntil(a, t)')
    <3>1. CASE ~(clock <= t)
      <4>1. HotSpot!PassedUntil(a, t)' = HotSpot!PassedUntil(a, t)
        BY <1>8, <3>1
      <4> QED BY <2>7, <4>1
    <3>2. CASE clock <= t
      <4> DEFINE u == HotSpot!PassedUntil(a, t)'
                 v == HotSpot!PassedUntil(a, t)
      <4>6. u = v + b /\ v \in Nat /\ v <= n
        <5>1. HotSpot!PassedUntil(a, t)' = HotSpot!PassedUntil(a, t) + (IF clock <= t THEN b ELSE 0)
          BY <1>8
        <5> QED BY <1>8, <3>2, <5>1 DEF n
      <4> HIDE DEF u, v
      <4>1. u \in Int /\ u <= n + b
        BY <2>9, <2>17, <4>6
      <4>2. t \in Int /\ heap[c0] \in Int /\ heap[c0] <= t
        <5> DEFINE k == heap[c0]
        <5>1. k \in Int /\ k <= clock
          BY <2>6, <2>7, <2>10
        <5> HIDE DEF k
        <5>2. t \in Int /\ k <= t
          BY <2>17, <3>2, <5>1
        <5> QED BY <5>1, <5>2 DEF k
      <4>3. u <= n + rest /\ n + rest \in Int
        BY <2>9, <2>16, <2>17, <4>1
      <4>4. CASE O = {}
        <5>1. Room(a, heap[c0], n + heap[d0])
          BY <2>5, <2>7, <2>10, <4>4
        <5>2. Room(a, t, u)
          BY <2>1, <4>1, <4>2, <4>3, <5>1, RoomFor DEF Undisturbed, rest
        <5> QED BY <5>2 DEF u
      <4>5. CASE O # {}
        <5>1. PICK s : s \in O
          BY <4>5
        <5>2. /\ \/ Room(a, heap[c0], n + req[s].batch + heap[d0])
                 \/ Room(a, req[s].now, n + req[s].batch + heap[d0])
              /\ req[s].batch \in Nat /\ req[s].now \in Int /\ req[s].now <= clock
          BY <2>5, <2>7, <2>8, <2>10, <5>1
        <5> DEFINE w == req[s].batch
                   k == req[s].now
        <5>5. w \in Nat /\ k \in Int /\ k <= clock
          BY <5>2
        <5> HIDE DEF w, k
        <5>3. n + w + rest \in Int /\ u <= n + w + rest /\ k <= t
          BY <2>9, <2>16, <2>17, <3>2, <4>1, <4>2, <4>3, <5>5
        <5>4. Room(a, t, u)
          BY <2>1, <4>1, <4>2, <5>2, <5>3, <5>5, RoomFor DEF Undisturbed, rest, w, k
        <5> QED BY <5>4 DEF u
      <4> QED BY <4>4, <4>5
    <3> QED BY <3>1, <3>2
  <2>14. Rejecting(a)'
    <3>1. /\ K = {} => m = 0 /\ O = {}
          /\ K # {} => T # {}
          /\ \A c \in T : h[c] >= 0 /\ h[c] <= clock
          /\ \A d \in K : h[d] >= 0
      BY <1>2, <2>5, <2>6, <2>7
    <3>2. /\ \A d \in K : \A c \in T : O = {} => Room(a, h[c], m + h[d])
          /\ \A d \in K : \A c \in T : \A s \in O :
               \/ Room(a, h[c], m + req'[s].batch + h[d])
               \/ Room(a, req'[s].now, m + req'[s].batch + h[d])
      BY <2>5, <2>11, <2>12
    <3>3. clock' = clock
      BY <1>3
    <3>4. TimeOf(a)' = T /\ TokensOf(a)' = K /\ In(a, {"stamp"})' = O /\ heap' = h /\ Spent(a)' = m
      BY <2>2, <2>3 DEF T, K, O, h, n, m
    <3> QED BY <2>7, <2>13, <3>1, <3>2, <3>3, <3>4, RejectingNext
  <2>15. behavior' = "reject"
    BY <1>2, <1>3
  <2> QED BY <2>4, <2>14, <2>15 DEF Kept
<1>10. y.arg = a \/ y.pc = "idle"
  BY <1>5
<1>11. UNCHANGED <<behavior, clock, HotSpot!caches, evictions>>
  BY <1>3
<1>12. /\ req[r].arg = a /\ d0 = req[r].token /\ x.at \in Int
       /\ req' = [req EXCEPT ![r] = y] /\ heap' = [heap EXCEPT ![d0] = x.at]
  BY <1>1, <1>2, <1>3 DEF x, d0
<1>13. /\ hotPasses' \in [Args -> [0..HotSpot!Horizon -> Nat]]
       /\ \A c \in Args \ {a} : hotPasses'[c] = hotPasses[c]
  BY <1>8
<1> QED BY <1>5, <1>6, <1>9, <1>10, <1>11, <1>12, <1>13, Writes

(* Stamp: the time of the refill becomes that of the counter.              *)
LEMMA StampRate ==
  ASSUME RateBounds, RatePart, NEW r \in HotRequests, HotSpot!Stamp(r)
  PROVE  RatePart'
<1> DEFINE x == req[r]
           b == x.batch
           c0 == x.time
           now0 == x.now
           y == HotSpot!Idle
<1>1. PICK a \in Args : x.arg = a
  BY RequestFacts DEF HotSpot!Stamp, Asks
<1>2. /\ x.pc = "stamp" /\ x \in RateRequest /\ clock \in Nat
      /\ Thresholds[a] > 0 /\ b \in Nat /\ now0 \in Nat /\ now0 <= clock
      /\ c0 \in Cells /\ behavior = "reject"
  <2>1. x.pc = "stamp" /\ x \in RateRequest /\ Asks(x) /\ clock \in Nat
        /\ behavior \in {"reject", "throttling"}
    BY RequestFacts DEF HotSpot!Stamp
  <2>2. /\ Thresholds[a] > 0 /\ c0 \in Cells /\ now0 <= clock /\ behavior # "throttling"
    BY <1>1, <2>1 DEF Asks, WithTime
  <2> QED BY <2>1, <2>2 DEF RateRequest
<1>3. /\ req' = [req EXCEPT ![r] = y] /\ heap' = [heap EXCEPT ![c0] = now0]
      /\ hotPasses' = [hotPasses EXCEPT ![a][now0] = @ + b]
      /\ HotSpot!Slip(a, heap[c0] > now0)
      /\ UNCHANGED <<behavior, clock, HotSpot!caches, evictions>>
  BY <1>1 DEF HotSpot!Stamp, HotSpot!Leave
<1>4. RateTypes /\ RateApart
  BY DEF RatePart
<1>5. y \in RateRequest /\ Asks(y) /\ HandsApart(y) /\ y.pc = "idle"
  BY IdleFacts DEF HotSpot!Idle
<1>6. /\ slips' \in [Args -> Nat] /\ \A c \in Args : slips'[c] = 0 => slips[c] = 0
      /\ slips'[a] = 0 => ~(heap[c0] > now0)
  <2>1. slips \in [Args -> Nat]
    BY <1>4 DEF RateTypes
  <2> DEFINE late == heap[c0] > now0
  <2>2. slips' = IF late THEN [slips EXCEPT ![a] = @ + 1] ELSE slips
    BY <1>3 DEF HotSpot!Slip
  <2> HIDE DEF late
  <2>3. /\ slips' \in [Args -> Nat] /\ \A c \in Args : slips'[c] = 0 => slips[c] = 0
        /\ slips'[a] = 0 => ~late
    BY <2>1, <2>2
  <2> QED BY <2>3 DEF late
<1>7. heap \in [Cells -> Int]
  BY <1>4 DEF RateTypes
<1>8. /\ hotPasses' \in [Args -> [0..HotSpot!Horizon -> Nat]]
      /\ \A c \in Args \ {a} : hotPasses'[c] = hotPasses[c]
      /\ Spent(a) \in Nat /\ Spent(a)' \in Nat /\ Spent(a)' <= Spent(a) + b
      /\ \A t \in 0..HotSpot!Horizon :
           /\ HotSpot!PassedUntil(a, t) \in Nat /\ HotSpot!PassedUntil(a, t) <= Spent(a)
           /\ HotSpot!PassedUntil(a, t)'
                = HotSpot!PassedUntil(a, t) + (IF now0 <= t THEN b ELSE 0)
  <2>1. hotPasses' = [hotPasses EXCEPT ![a][now0] = @ + b] /\ now0 \in Nat /\ b \in Nat
    BY <1>2, <1>3
  <2> HIDE DEF x, b, c0, now0, y
  <2> QED BY <1>4, <2>1, PassRecorded
<1> HIDE DEF x, b, c0, now0, y
<1>9. ASSUME Undisturbed(a)' PROVE Kept(a)'
  <2> DEFINE T == TimeOf(a)
             K == TokensOf(a)
             O == In(a, {"stamp"})
             n == Spent(a)
             h == heap'
             m == n'
  <2>1. /\ Undisturbed(a) /\ Holding(a) /\ Rejecting(a) /\ ~(heap[c0] > now0)
    BY <1>2, <1>3, <1>6, <1>9 DEF Undisturbed, RatePart, Kept
  <2>2. T' = T /\ K' = K
    BY <1>3 DEF TimeOf, TokensOf, Elements, HotSpot!caches
  <2>3. O' = {} /\ r \in O /\ req'[r] = y /\ \A q \in HotRequests \ {r} : req'[q] = req[q]
    <3>1. req'[r] = y /\ \A q \in HotRequests \ {r} : req'[q] = req[q]
      BY <1>3, <1>4 DEF RateTypes
    <3>2. In(a, {"stamp"})' = In(a, {"stamp"}) \ {r}
      BY <1>3, <1>4, <1>5, InNext
    <3>3. r \in In(a, {"stamp"})
      BY <1>1, <1>2 DEF In, x
    <3>4. \A p, q \in In(a, {"stamp"}) : p = q
      BY <2>1 DEF Rejecting
    <3> QED BY <3>1, <3>2, <3>3, <3>4
  <2>4. Holding(a)'
    BY <1>5, <2>1, <2>2, <2>3, StillHolding DEF WithTime, WithTokens
  <2>5. c0 \in T /\ (\A c \in T : c = c0) /\ \A d \in K : d # c0 /\ d \in Cells
    <3>1. c0 \in T
      BY <1>1, <1>2, <2>1 DEF Holding, WithTime, x, c0
    <3> QED BY <3>1, OneCounter
  <2>6. h[c0] = now0 /\ \A d \in K : h[d] = heap[d] /\ heap[d] \in Int
    BY <1>2, <1>3, <1>7, <2>5
  <2>7. /\ K # {}
        /\ \A d \in K : heap[d] >= 0
        /\ \A d \in K : \/ Room(a, heap[c0], n + b + heap[d])
                        \/ Room(a, now0, n + b + heap[d])
        /\ \A t \in 0..HotSpot!Horizon : Room(a, t, HotSpot!PassedUntil(a, t))
    BY <2>1, <2>3, <2>5 DEF Rejecting, b, now0, x
  <2>9. n \in Nat /\ m \in Nat /\ m <= n + b
    BY <1>8
  <2> HIDE DEF T, K, O, h, n, m
  <2>10. b \in Nat /\ now0 \in Nat /\ heap[c0] \in Int
    BY <1>2, <1>7
  <2>11. ASSUME NEW d \in K PROVE Room(a, now0, n + b + heap[d])
    <3> DEFINE k == heap[c0]
               w == n + b + heap[d]
    <3>1. k \in Int /\ k <= now0 /\ now0 \in Int /\ now0 <= now0
      BY <2>1, <2>10
    <3>2. w \in Int /\ w <= w
      BY <2>6, <2>9, <2>10
    <3>3. Room(a, k, w) \/ Room(a, now0, w)
      BY <2>7
    <3> HIDE DEF k, w
    <3>4. Room(a, now0, w)
      BY <2>1, <3>1, <3>2, <3>3, RoomFor DEF Undisturbed
    <3> QED BY <3>4 DEF w
  <2>12. ASSUME NEW d \in K PROVE Room(a, now0, m + h[d]) /\ Room(a, now0, n + b)
    <3> DEFINE rest == heap[d]
    <3>1. rest \in Int /\ rest >= 0 /\ h[d] = rest /\ Room(a, now0, n + b + rest)
      BY <2>6, <2>7, <2>11
    <3> HIDE DEF rest
    <3>2. /\ m + rest <= n + b + rest /\ n + b <= n + b + rest /\ m + rest \in Int /\ n + b \in Int
          /\ n + b + rest \in Int /\ now0 \in Int /\ now0 <= now0
      BY <2>9, <2>10, <3>1
    <3>3. Room(a, now0, m + rest) /\ Room(a, now0, n + b)
      BY <2>1, <3>1, <3>2, RoomFor DEF Undisturbed
    <3> QED BY <3>1, <3>3
  <2>13. ASSUME NEW t \in 0..HotSpot!Horizon PROVE Room(a, t, HotSpot!PassedUntil(a, t)')
    <3>1. CASE ~(now0 <= t)
      <4>1. HotSpot!PassedUntil(a, t)' = HotSpot!PassedUntil(a, t)
        BY <1>8, <3>1
      <4> QED BY <2>7, <4>1
    <3>2. CASE now0 <= t
      <4> DEFINE u == HotSpot!PassedUntil(a, t)'
                 v == HotSpot!PassedUntil(a, t)
      <4>1. u = v + b /\ v \in Nat /\ v <= n
        <5>1. HotSpot!PassedUntil(a, t)' = HotSpot!PassedUntil(a, t) + (IF now0 <= t THEN b ELSE 0)
          BY <1>8
        <5> QED BY <1>8, <3>2, <5>1 DEF n
      <4> HIDE DEF u, v
      <4>2. u \in Int /\ u <= n + b /\ n + b \in Int
        BY <2>9, <2>10, <4>1
      <4>3. t \in Int /\ now0 \in Int /\ HotSpot!Horizon \in Nat
        <5>1. HotSpot!Horizon \in Nat
          BY DEF RateBounds, HotSpot!Horizon
        <5> QED BY <2>10, <5>1
      <4>4. Room(a, now0, n + b)
        BY <2>7, <2>12
      <4>5. Room(a, t, u)
        BY <2>1, <3>2, <4>2, <4>3, <4>4, RoomFor DEF Undisturbed
      <4> QED BY <4>5 DEF u
    <3> QED BY <3>1, <3>2
  <2>14. Rejecting(a)'
    <3> DEFINE none == {}
    <3>1. /\ K = {} => m = 0 /\ none = {}
          /\ K # {} => T # {}
          /\ \A c \in T : h[c] >= 0 /\ h[c] <= clock
          /\ \A d \in K : h[d] >= 0
      BY <1>2, <2>5, <2>6, <2>7
    <3>2. \A d \in K : \A c \in T : none = {} => Room(a, h[c], m + h[d])
      BY <2>5, <2>6, <2>12
    <3>3. clock' = clock
      BY <1>3
    <3>4. TimeOf(a)' = T /\ TokensOf(a)' = K /\ In(a, {"stamp"})' = none /\ heap' = h /\ Spent(a)' = m
      BY <2>2, <2>3 DEF T, K, O, h, n, m
    <3>5. /\ \A p, q \in none : p = q
          /\ \A d \in K : \A c \in T : \A s \in none :
               \/ Room(a, h[c], m + req'[s].batch + h[d])
               \/ Room(a, req'[s].now, m + req'[s].batch + h[d])
      OBVIOUS
    <3> HIDE DEF none
    <3> QED BY <2>13, <3>1, <3>2, <3>3, <3>4, <3>5, RejectingNext
  <2>15. behavior' = "reject"
    BY <1>2, <1>3
  <2> QED BY <2>4, <2>14, <2>15 DEF Kept
<1>10. (y.arg = a \/ y.pc = "idle") /\ now0 \in Int
  BY <1>2, <1>5
<1>11. UNCHANGED <<behavior, clock, HotSpot!caches, evictions>>
  BY <1>3
<1>12. /\ req[r].arg = a /\ c0 = req[r].time
       /\ req' = [req EXCEPT ![r] = y] /\ heap' = [heap EXCEPT ![c0] = now0]
  BY <1>1, <1>3 DEF x, c0
<1>13. /\ hotPasses' \in [Args -> [0..HotSpot!Horizon -> Nat]]
       /\ \A c \in Args \ {a} : hotPasses'[c] = hotPasses[c]
  BY <1>8
<1> QED BY <1>5, <1>6, <1>9, <1>10, <1>11, <1>12, <1>13, Writes

(* CasRefill: what it adds is the rate's since the time it has read.       *)
LEMMA CasRefillRate ==
  ASSUME RateBounds, RatePart, NEW r \in HotRequests, HotSpot!CasRefill(r),
         heap[req[r].token] = req[r].old
  PROVE  RatePart'
<1> DEFINE x == req[r]
           b == x.batch
           c0 == x.time
           d0 == x.token
           now0 == x.now
           y == [x EXCEPT !.pc = "stamp"]
<1>1. PICK a \in Args : x.arg = a
  BY RequestFacts DEF HotSpot!CasRefill, Asks
<1>2. /\ x.pc = "cas refill" /\ x \in RateRequest /\ Asks(x) /\ HandsApart(x) /\ clock \in Nat
      /\ Thresholds[a] > 0 /\ b \in Nat /\ now0 \in Nat /\ now0 <= clock /\ x.old \in Int
      /\ x.at \in Int /\ x.at >= 0 /\ c0 \in Cells /\ d0 \in Cells /\ behavior = "reject"
  <2>1. x.pc = "cas refill" /\ x \in RateRequest /\ Asks(x) /\ HandsApart(x) /\ clock \in Nat
        /\ behavior \in {"reject", "throttling"}
    BY RequestFacts DEF HotSpot!CasRefill
  <2>2. /\ Thresholds[a] > 0 /\ c0 \in Cells /\ d0 \in Cells /\ now0 <= clock /\ x.at >= 0
        /\ behavior # "throttling"
    BY <1>1, <2>1 DEF Asks, WithTime, WithTokens
  <2> QED BY <2>1, <2>2 DEF RateRequest
<1>14. b \in Int /\ now0 \in Int /\ x.old \in Int /\ x.at \in Int
  <2>1. x \in RateRequest
    BY <1>2
  <2> QED BY <2>1 DEF RateRequest
<1> DEFINE others == HotSpot!Others(r, "stamp")
           more == x.at > HotSpot!Refilled(r, heap[c0], x.old)
<1>3. /\ req' = [req EXCEPT ![r] = y] /\ heap' = [heap EXCEPT ![d0] = x.at]
      /\ HotSpot!Slip(a, others \/ more)
      /\ UNCHANGED <<behavior, clock, HotSpot!caches, evictions, hotPasses>>
  BY <1>1 DEF HotSpot!CasRefill, HotSpot!Goto, HotSpot!Slip
<1>4. RateTypes /\ RateApart
  BY DEF RatePart
<1>6. /\ slips' \in [Args -> Nat] /\ \A c \in Args : slips'[c] = 0 => slips[c] = 0
      /\ slips'[a] = 0 => ~others /\ ~more
  <2>1. slips \in [Args -> Nat]
    BY <1>4 DEF RateTypes
  <2>2. slips' = IF others \/ more THEN [slips EXCEPT ![a] = @ + 1] ELSE slips
    BY <1>3 DEF HotSpot!Slip
  <2> HIDE DEF others, more
  <2>3. CASE others \/ more
    BY <2>1, <2>2, <2>3
  <2>4. CASE ~(others \/ more)
    BY <2>1, <2>2, <2>4
  <2> QED BY <2>3, <2>4
<1>7. heap \in [Cells -> Int] /\ x.old = heap[d0]
  BY <1>4 DEF RateTypes
<1>8. /\ hotPasses' \in [Args -> [0..HotSpot!Horizon -> Nat]]
      /\ \A c \in Args \ {a} : hotPasses'[c] = hotPasses[c]
      /\ Spent(a) \in Nat /\ Spent(a)' = Spent(a)
      /\ \A t \in 0..HotSpot!Horizon : HotSpot!PassedUntil(a, t)' = HotSpot!PassedUntil(a, t)
  <2>1. hotPasses' = hotPasses /\ hotPasses \in [Args -> [0..HotSpot!Horizon -> Nat]]
    BY <1>3, <1>4 DEF RateTypes
  <2>2. /\ Spent(a)' = Spent(a)
        /\ \A t : HotSpot!PassedUntil(a, t)' = HotSpot!PassedUntil(a, t)
    BY <2>1 DEF Spent, HotSpot!PassedUntil, HotSpot!MapThenSumSet, HotSpot!MapThenFoldSet
  <2>3. Spent(a) \in Nat
    BY <1>4, SpentIs
  <2> QED BY <2>1, <2>2, <2>3
<1>9. ~more => x.at + b <= x.old + (((now0 - heap[c0]) * Thresholds[a]) \div Duration)
  <2> DEFINE full == HotSpot!Refilled(r, heap[c0], x.old)
             added == ((now0 - heap[c0]) * Thresholds[a]) \div Duration
  <2>1. heap[c0] \in Int /\ x.old \in Int /\ x.pc # "idle"
    BY <1>2, <1>7
  <2>2. full \in Int /\ full + b <= x.old + added /\ (now0 - heap[c0]) * Thresholds[a] \in Int
    BY <1>1, <2>1, RefilledIs
  <2>3. added \in Int
    BY <2>2, RequestFacts, Quotients
  <2> DEFINE at == x.at
             old == x.old
  <2>4. full \in Int /\ at \in Int /\ old \in Int /\ (more <=> at > full) /\ full + b <= old + added
        /\ b \in Int
    BY <1>14, <2>2
  <2> HIDE DEF full, added, x, b, more, at, old
  <2>5. ~more => at + b <= old + added
    BY <2>3, <2>4
  <2> QED BY <2>5 DEF added, at, old
<1> HIDE DEF x, b, c0, d0, now0, others, more
<1>5. /\ y.pc = "stamp" /\ y.arg = x.arg /\ y.batch = b /\ y.now = now0 /\ y.time = c0 /\ y.token = d0
      /\ y \in RateRequest
  BY <1>2 DEF RateRequest, RateSteps, b, now0, c0, d0
<1> HIDE DEF y
<1>10. Asks(y)
  BY <1>2, <1>5 DEF Asks, WithTime, WithTokens, b, now0, c0, d0
<1>11. HandsApart(y)
  BY <1>2, <1>5 DEF HandsApart, c0, d0
<1>12. ASSUME Undisturbed(a)' PROVE Kept(a)'
  <2> DEFINE T == TimeOf(a)
             K == TokensOf(a)
             O == In(a, {"stamp"})
             n == Spent(a)
             h == heap'
             m == n'
  <2>1. Undisturbed(a) /\ Holding(a) /\ Rejecting(a) /\ ~others /\ ~more
    BY <1>2, <1>3, <1>6, <1>12 DEF Undisturbed, RatePart, Kept
  <2>2. T' = T /\ K' = K
    BY <1>3 DEF TimeOf, TokensOf, Elements, HotSpot!caches
  <2>3. /\ O = {} /\ O' = {r} /\ req'[r] = y
        /\ \A q \in HotRequests \ {r} : req'[q] = req[q]
    <3>1. req'[r] = y /\ \A q \in HotRequests \ {r} : req'[q] = req[q]
      BY <1>3, <1>4 DEF RateTypes
    <3>3. r \notin In(a, {"stamp"})
      BY <1>2 DEF In, x
    <3>4. \A q \in HotRequests \ {r} : q \notin In(a, {"stamp"})
      BY <1>1, <2>1 DEF In, x, others, HotSpot!Others
    <3>5. O = {}
      BY <3>3, <3>4 DEF In
    <3>6. r \in In(a, {"stamp"})'
      BY <1>1, <1>5, <3>1 DEF In
    <3>7. \A q \in HotRequests \ {r} : q \notin In(a, {"stamp"})'
      BY <3>1, <3>4 DEF In
    <3>8. O' = {r}
      BY <3>6, <3>7 DEF In
    <3> QED BY <3>1, <3>5, <3>8
  <2>5. /\ c0 \in T /\ d0 \in K /\ (\A c \in T : c = c0) /\ (\A d \in K : d = d0) /\ c0 # d0
    <3>1. c0 \in T /\ d0 \in K
      BY <1>1, <1>2, <2>1 DEF Holding, WithTime, WithTokens, x, c0, d0
    <3> QED BY <3>1, OneCounter
  <2>4. Holding(a)'
    <3>1. y.time \in T /\ y.token \in K /\ y.pc = "stamp"
      BY <1>5, <2>5
    <3> QED BY <2>1, <2>2, <2>3, <3>1, StillHolding
  <2>6. h[d0] = x.at /\ h[c0] = heap[c0] /\ heap[c0] \in Int
    BY <1>2, <1>3, <1>7, <2>5
  <2>7. /\ heap[c0] >= 0 /\ heap[c0] <= clock
        /\ Room(a, heap[c0], n + heap[d0])
        /\ \A t \in 0..HotSpot!Horizon : Room(a, t, HotSpot!PassedUntil(a, t))
    BY <2>1, <2>3, <2>5 DEF Rejecting
  <2>8. m = n /\ n \in Nat
    BY <1>8
  <2> HIDE DEF T, K, O, h, n, m
  <2>9. Room(a, now0, n + b + x.at)
    <3> DEFINE k == heap[c0]
               at == x.at
               old == x.old
               max == HotSpot!MaxCount(a)
               first == Added(a, k)
               now1 == Added(a, now0)
               more1 == ((now0 - k) * Thresholds[a]) \div Duration
    <3>1. n + old <= max + first
      BY <1>7, <2>7 DEF Room
    <3>2. at + b <= old + more1
      BY <1>9, <2>1
    <3>7. k \in Int /\ now0 \in Int
      BY <1>14, <2>6
    <3>3. /\ first \in Int /\ max \in Int /\ now1 \in Int
          /\ first + more1 <= now1
      <4> HIDE DEF k
      <4>1. Thresholds[a] > 0
        BY <2>1 DEF Undisturbed
      <4> QED BY <3>7, <4>1, AddedIs
    <3>4. more1 \in Int
      <4>1. (now0 - k) * Thresholds[a] \in Int
        <5>1. Thresholds[a] \in Int
          BY RequestFacts
        <5> HIDE DEF k
        <5> QED BY <3>7, <5>1
      <4> QED BY <4>1, RequestFacts, Quotients
    <3>5. at \in Int /\ old \in Int /\ b \in Int /\ n \in Int
      BY <1>14, <2>8
    <3> HIDE DEF k, at, old, max, first, now1, more1
    <3>6. n + b + at <= max + now1
      BY <3>1, <3>2, <3>3, <3>4, <3>5
    <3> QED BY <3>6 DEF Room, at, max, now1
  <2>14. Rejecting(a)'
    <3> DEFINE one == {r}
    <3>1. /\ K = {} => m = 0 /\ one = {}
          /\ K # {} => T # {}
          /\ \A c \in T : h[c] >= 0 /\ h[c] <= clock
          /\ \A d \in K : h[d] >= 0
          /\ \A p, q \in one : p = q
      BY <1>2, <2>5, <2>6, <2>7
    <3>2. req'[r].batch = b /\ req'[r].now = now0
      BY <1>5, <2>3
    <3>5. /\ \A d \in K : \A c \in T : \A s \in one :
               \/ Room(a, h[c], m + req'[s].batch + h[d])
               \/ Room(a, req'[s].now, m + req'[s].batch + h[d])
          /\ \A d \in K : \A c \in T : one = {} => Room(a, h[c], m + h[d])
      BY <2>5, <2>6, <2>8, <2>9, <3>2
    <3>6. \A t \in 0..HotSpot!Horizon : Room(a, t, HotSpot!PassedUntil(a, t)')
      BY <1>8, <2>7
    <3>3. clock' = clock
      BY <1>3
    <3>4. TimeOf(a)' = T /\ TokensOf(a)' = K /\ In(a, {"stamp"})' = one /\ heap' = h /\ Spent(a)' = m
      BY <2>2, <2>3 DEF T, K, O, h, n, m
    <3> HIDE DEF one
    <3> QED BY <3>1, <3>3, <3>4, <3>5, <3>6, RejectingNext
  <2>15. behavior' = "reject"
    BY <1>2, <1>3
  <2> QED BY <2>4, <2>14, <2>15 DEF Kept
<1>13. UNCHANGED <<behavior, clock, HotSpot!caches, evictions>>
  BY <1>3
<1> QED BY <1>1, <1>2, <1>3, <1>5, <1>6, <1>8, <1>10, <1>11, <1>12, <1>13, Writes DEF x, d0

(* A later time is the turn of no more, and a batch takes its time.        *)
LEMMA TurnFor ==
  ASSUME RateBounds, NEW a \in Args, Thresholds[a] > 0, NEW t \in Int, NEW u \in Int, t <= u,
         NEW n \in Int, NEW k \in Int, k <= n, Turn(a, t, n)
  PROVE  Turn(a, u, k)
<1> DEFINE m == Thresholds[a]
           M == HotSpot!Max(HotBatches) * Duration
           nd == n * Duration
           kd == k * Duration
           tm == t * m
           um == u * m
<1>1. m \in Nat /\ Duration \in Nat
  BY DEF RateBounds, HotBounds
<1>2. nd \in Int /\ kd \in Int /\ kd <= nd
  BY <1>1, Mul
<1>3. tm \in Int /\ um \in Int /\ tm <= um
  <2> HIDE DEF m
  <2> QED BY <1>1, Mul
<1>4. HotSpot!Max(HotBatches) \in Nat
  <2>1. PICK batch : batch \in HotBatches
    BY DEF RateBounds
  <2> QED BY <2>1, LargestBatch
<1>5. M \in Int
  <2> DEFINE z == HotSpot!Max(HotBatches)
  <2>1. z \in Int
    BY <1>4
  <2> HIDE DEF z
  <2>2. z * Duration \in Int
    BY <1>1, <2>1
  <2> QED BY <2>2 DEF z
<1>6. nd <= M + tm
  BY DEF Turn
<1> HIDE DEF nd, kd, tm, um, M
<1>7. kd <= M + um
  BY <1>2, <1>3, <1>5, <1>6
<1> QED BY <1>7 DEF Turn, kd, um, M

(* The turn of a batch is its interval after the last one.                 *)
LEMMA TurnTaken ==
  ASSUME RateBounds, NEW a \in Args, Thresholds[a] > 0, HotSpot!Even(a), NEW b \in HotBatches,
         NEW t \in Int, NEW n \in Int, Turn(a, t, n)
  PROVE  Turn(a, t + HotSpot!Interval(a, b), n + b)
<1> DEFINE m == Thresholds[a]
           M == HotSpot!Max(HotBatches) * Duration
           bd == b * Duration
           i == bd \div m
<1>1. m \in Nat \ {0} /\ Duration \in Nat /\ b \in Nat /\ HotSpot!Max(HotBatches) \in Nat
  BY LargestBatch DEF RateBounds, HotBounds
<1>2. bd \in Int /\ bd % m = 0
  <2>1. (b * Duration) % Thresholds[a] = 0
    BY DEF HotSpot!Even
  <2> HIDE DEF m
  <2>2. b * Duration \in Int
    BY <1>1
  <2> QED BY <2>1, <2>2 DEF m
<1> HIDE DEF bd
<1>3. i \in Int /\ bd = m * i
  <2> HIDE DEF m
  <2>1. bd \div m \in Int /\ bd = m * (bd \div m) + (bd % m)
    BY <1>1, <1>2, Division
  <2> DEFINE j == bd \div m
             p == m * j
  <2>2. j \in Int
    BY <2>1
  <2> HIDE DEF j
  <2>3. p \in Int
    BY <1>1, <2>2
  <2> DEFINE o == bd % m
  <2>4. bd = p + o /\ o = 0
    BY <1>2, <2>1 DEF j
  <2> HIDE DEF p, o
  <2>5. bd = p
    BY <1>2, <2>3, <2>4
  <2> QED BY <2>2, <2>5 DEF j, p
<1> HIDE DEF i
<1>4. HotSpot!Interval(a, b) = i
  BY DEF HotSpot!Interval, i, bd
<1>5. (n + b) * Duration = n * Duration + bd
  BY <1>1 DEF bd
<1>6. (t + i) * m = t * m + bd
  <2> HIDE DEF m
  <2>1. (t + i) * m = t * m + m * i
    BY <1>1, <1>3
  <2> QED BY <1>3, <2>1
<1>7. n * Duration <= M + t * m
  BY DEF Turn
<1> DEFINE nd == n * Duration
           tm == t * m
<1>8. nd \in Int /\ tm \in Int /\ M \in Int
  <2>1. nd \in Int
    BY <1>1
  <2>2. tm \in Int
    <3> HIDE DEF m
    <3> QED BY <1>1
  <2>3. M \in Int
    <3> DEFINE z == HotSpot!Max(HotBatches)
    <3> HIDE DEF z
    <3>1. z * Duration \in Int
      BY <1>1 DEF z
    <3> QED BY <3>1 DEF z
  <2> QED BY <2>1, <2>2, <2>3
<1>9. nd <= M + tm
  BY <1>7
<1> HIDE DEF nd, tm, M
<1>10. nd + bd <= M + (tm + bd)
  BY <1>2, <1>8, <1>9
<1>11. (n + b) * Duration <= M + (t + i) * m
  BY <1>5, <1>6, <1>10 DEF nd, tm
<1> QED BY <1>4, <1>11 DEF Turn, M

(* CasTime: the request passes, or has its turn to put into the counter.   *)
LEMMA CasTimeRate ==
  ASSUME RateBounds, RatePart, NEW r \in HotRequests, HotSpot!CasTime(r),
         heap[req[r].time] = req[r].old
  PROVE  RatePart'
<1> DEFINE x == req[r]
           b == x.batch
           c0 == x.time
           now0 == x.now
           at == x.at
           waits == at > now0
           y == IF waits THEN [x EXCEPT !.pc = "store"] ELSE HotSpot!Idle
<1>1. PICK a \in Args : x.arg = a
  BY RequestFacts DEF HotSpot!CasTime, Asks
<1>2. /\ x.pc = "cas" /\ x \in RateRequest /\ Asks(x) /\ HandsApart(x) /\ clock \in Nat
      /\ Thresholds[a] > 0 /\ b \in HotBatches /\ c0 \in Cells /\ behavior = "throttling"
      /\ at = x.old + HotSpot!Interval(a, b)
  <2>1. x.pc = "cas" /\ x \in RateRequest /\ Asks(x) /\ HandsApart(x) /\ clock \in Nat
        /\ behavior \in {"reject", "throttling"}
    BY RequestFacts DEF HotSpot!CasTime
  <2>2. /\ Thresholds[a] > 0 /\ c0 \in Cells /\ behavior # "reject" /\ b \in HotBatches
        /\ at = x.old + HotSpot!Interval(a, b)
    BY <1>1, <2>1 DEF Asks, WithTime
  <2> QED BY <2>1, <2>2
<1>3. b \in Nat /\ now0 \in Nat /\ at \in Int /\ x.old \in Int
  <2>1. x \in RateRequest
    BY <1>2
  <2> QED BY <2>1 DEF RateRequest
<1> DEFINE others == HotSpot!Others(r, "store")
<1>4. /\ req' = [req EXCEPT ![r] = y] /\ heap' = [heap EXCEPT ![c0] = now0]
      /\ HotSpot!Slip(a, others)
      /\ hotPasses' = IF waits THEN hotPasses ELSE [hotPasses EXCEPT ![a][now0] = @ + b]
      /\ UNCHANGED <<behavior, clock, HotSpot!caches, evictions>>
  BY <1>1 DEF HotSpot!CasTime, HotSpot!Goto, HotSpot!Pass, HotSpot!Leave, HotSpot!Slip
<1>5. RateTypes /\ RateApart
  BY DEF RatePart
<1>6. /\ slips' \in [Args -> Nat] /\ \A c \in Args : slips'[c] = 0 => slips[c] = 0
      /\ slips'[a] = 0 => ~others
  <2>1. slips \in [Args -> Nat]
    BY <1>5 DEF RateTypes
  <2>2. slips' = IF others THEN [slips EXCEPT ![a] = @ + 1] ELSE slips
    BY <1>4 DEF HotSpot!Slip
  <2> HIDE DEF others
  <2>3. CASE others
    BY <2>1, <2>2, <2>3
  <2>4. CASE ~others
    BY <2>1, <2>2, <2>4
  <2> QED BY <2>3, <2>4
<1>7. heap \in [Cells -> Int] /\ x.old = heap[c0]
  BY <1>5 DEF RateTypes
<1>8. /\ hotPasses' \in [Args -> [0..HotSpot!Horizon -> Nat]]
      /\ \A c \in Args \ {a} : hotPasses'[c] = hotPasses[c]
      /\ Spent(a) \in Nat /\ Spent(a)' \in Nat
      /\ IF waits THEN Spent(a)' = Spent(a) ELSE Spent(a)' <= Spent(a) + b
      /\ \A t \in 0..HotSpot!Horizon :
           /\ HotSpot!PassedUntil(a, t) \in Nat /\ HotSpot!PassedUntil(a, t) <= Spent(a)
           /\ HotSpot!PassedUntil(a, t)'
                = HotSpot!PassedUntil(a, t) + (IF ~waits /\ now0 <= t THEN b ELSE 0)
  <2>1. CASE waits
    <3>1. hotPasses' = hotPasses /\ hotPasses \in [Args -> [0..HotSpot!Horizon -> Nat]]
      BY <1>4, <1>5, <2>1 DEF RateTypes
    <3>2. /\ Spent(a)' = Spent(a)
          /\ \A t : HotSpot!PassedUntil(a, t)' = HotSpot!PassedUntil(a, t)
      BY <3>1 DEF Spent, HotSpot!PassedUntil, HotSpot!MapThenSumSet, HotSpot!MapThenFoldSet
    <3>3. /\ Spent(a) \in Nat
          /\ \A t \in 0..HotSpot!Horizon :
               HotSpot!PassedUntil(a, t) \in Nat /\ HotSpot!PassedUntil(a, t) <= Spent(a)
      BY <1>5, SpentIs
    <3> HIDE DEF waits
    <3> QED BY <2>1, <3>1, <3>2, <3>3
  <2>2. CASE ~waits
    <3>1. hotPasses' = [hotPasses EXCEPT ![a][now0] = @ + b]
      BY <1>4, <2>2
    <3> HIDE DEF waits, now0, b, x
    <3>2. /\ hotPasses' \in [Args -> [0..HotSpot!Horizon -> Nat]]
          /\ \A c \in Args \ {a} : hotPasses'[c] = hotPasses[c]
          /\ Spent(a) \in Nat /\ Spent(a)' \in Nat /\ Spent(a)' <= Spent(a) + b
          /\ \A t \in 0..HotSpot!Horizon :
               /\ HotSpot!PassedUntil(a, t) \in Nat /\ HotSpot!PassedUntil(a, t) <= Spent(a)
               /\ HotSpot!PassedUntil(a, t)'
                    = HotSpot!PassedUntil(a, t) + (IF now0 <= t THEN b ELSE 0)
      BY <1>3, <1>5, <3>1, PassRecorded
    <3> QED BY <2>2, <3>2
  <2> QED BY <2>1, <2>2
<1>9. HotSpot!Idle \in RateRequest /\ Asks(HotSpot!Idle) /\ HandsApart(HotSpot!Idle) /\ HotSpot!Idle.pc = "idle"
  BY IdleFacts DEF HotSpot!Idle
<1> HIDE DEF x, b, c0, now0, at, waits, others
<1>10. /\ waits => /\ y.pc = "store" /\ y.arg = a /\ y.batch = b /\ y.now = now0 /\ y.time = c0
                   /\ y.token = x.token /\ y.at = at
       /\ y \in RateRequest
  <2> DEFINE z == [x EXCEPT !.pc = "store"]
  <2>1. /\ z.pc = "store" /\ z.arg = x.arg /\ z.batch = b /\ z.now = now0 /\ z.time = c0
        /\ z.token = x.token /\ z.at = at /\ z \in RateRequest
    BY <1>2 DEF RateRequest, RateSteps, b, now0, c0, at
  <2>2. y = IF waits THEN z ELSE HotSpot!Idle
    OBVIOUS
  <2> HIDE DEF y, z
  <2> QED BY <1>1, <1>9, <2>1, <2>2
<1>11. ~waits => y.pc = "idle"
  BY <1>9
<1>12. Asks(y) /\ HandsApart(y)
  <2>1. CASE waits
    <3>1. /\ y.pc = "store" /\ y.arg = a /\ y.batch = b /\ y.now = now0 /\ y.time = c0
          /\ y.token = x.token /\ y.at = at
      BY <1>10, <2>1
    <3>2. now0 <= clock
      BY <1>2 DEF Asks, now0
    <3> HIDE DEF y
    <3>3. y.at > y.now
      BY <2>1, <3>1 DEF waits
    <3>4. Asks(y)
      BY <1>2, <3>1, <3>2, <3>3 DEF Asks, WithTime, WithTokens
    <3>5. HandsApart(y)
      BY <1>1, <1>2, <3>1 DEF HandsApart, c0
    <3> QED BY <3>4, <3>5
  <2>2. CASE ~waits
    BY <1>9, <2>2
  <2> QED BY <2>1, <2>2
<1> HIDE DEF y
<1>13. ASSUME Undisturbed(a)' PROVE Kept(a)'
  <2> DEFINE T == TimeOf(a)
             O == In(a, {"store"})
             n == Spent(a)
             h == heap'
             m == n'
  <2>1. Undisturbed(a) /\ Holding(a) /\ Throttled(a) /\ ~others
    BY <1>2, <1>4, <1>6, <1>13 DEF Undisturbed, RatePart, Kept
  <2>2. T' = T /\ TokensOf(a)' = TokensOf(a)
    BY <1>4 DEF TimeOf, TokensOf, Elements, HotSpot!caches
  <2>3. /\ O = {} /\ req'[r] = y /\ (\A q \in HotRequests \ {r} : req'[q] = req[q])
        /\ O' = IF waits THEN {r} ELSE {}
    <3>1. req'[r] = y /\ \A q \in HotRequests \ {r} : req'[q] = req[q]
      BY <1>4, <1>5 DEF RateTypes
    <3>2. r \notin In(a, {"store"})
      BY <1>2 DEF In, x
    <3>3. \A q \in HotRequests \ {r} : q \notin In(a, {"store"})
      BY <1>1, <2>1 DEF In, x, others, HotSpot!Others
    <3>4. O = {}
      BY <3>2, <3>3 DEF In
    <3>5. r \in In(a, {"store"})' <=> waits
      BY <1>10, <1>11, <3>1 DEF In
    <3>6. \A q \in HotRequests \ {r} : q \notin In(a, {"store"})'
      BY <3>1, <3>3 DEF In
    <3>7. O' = IF waits THEN {r} ELSE {}
      BY <3>5, <3>6 DEF In
    <3> QED BY <3>1, <3>4, <3>7
  <2>4. c0 \in T /\ \A c \in T : c = c0
    <3>1. c0 \in T
      BY <1>1, <1>2, <2>1 DEF Holding, WithTime, x, c0
    <3> QED BY <3>1, OneCounter
  <2>5. Holding(a)'
    <3>1. CASE waits
      <4>1. y.time \in T /\ y.pc = "store"
        BY <1>10, <2>4, <3>1
      <4> QED BY <2>1, <2>2, <2>3, <4>1, StillHolding DEF WithTokens
    <3>2. CASE ~waits
      BY <1>11, <2>1, <2>2, <2>3, <3>2, StillHolding DEF WithTime, WithTokens
    <3> QED BY <3>1, <3>2
  <2>6. h[c0] = now0 /\ heap[c0] \in Int
    BY <1>2, <1>3, <1>4, <1>7
  <2>7. ASSUME HotSpot!Even(a)
        PROVE  /\ Turn(a, heap[c0], n)
               /\ \A t \in 0..HotSpot!Horizon : Turn(a, t, HotSpot!PassedUntil(a, t))
    BY <2>1, <2>3, <2>4, <2>7 DEF Throttled
  <2>8. n \in Nat /\ m \in Nat /\ (waits => m = n) /\ (~waits => m <= n + b)
    BY <1>8
  <2>9. Thresholds[a] > 0 /\ now0 \in Int /\ at \in Int /\ (~waits => at <= now0) /\ b \in Int /\ n + b \in Int
    BY <1>2, <1>3, <2>8 DEF waits
  <2>10. ASSUME HotSpot!Even(a) PROVE Turn(a, at, n + b)
    <3> DEFINE last == heap[c0]
    <3>1. Turn(a, last, n) /\ last \in Int /\ at = last + HotSpot!Interval(a, b)
      BY <1>2, <1>7, <2>6, <2>7, <2>10
    <3> HIDE DEF last
    <3>2. Turn(a, last + HotSpot!Interval(a, b), n + b)
      BY <1>2, <2>8, <2>9, <2>10, <3>1, TurnTaken
    <3> QED BY <3>1, <3>2
  <2> HIDE DEF T, O, h, n, m
  <2>11. ASSUME HotSpot!Even(a), ~waits PROVE Turn(a, now0, m) /\ Turn(a, now0, n + b)
    <3>1. m \in Int /\ m <= n + b /\ n + b <= n + b /\ n + b \in Int /\ at <= now0
      BY <2>8, <2>9, <2>11
    <3> QED BY <2>9, <2>10, <2>11, <3>1, TurnFor
  <2>12. ASSUME HotSpot!Even(a), NEW t \in 0..HotSpot!Horizon
         PROVE  Turn(a, t, HotSpot!PassedUntil(a, t)')
    <3> DEFINE u == HotSpot!PassedUntil(a, t)'
               v == HotSpot!PassedUntil(a, t)
    <3>1. Turn(a, t, v) /\ v \in Nat /\ v <= n /\ u = v + (IF ~waits /\ now0 <= t THEN b ELSE 0)
      BY <1>8, <2>7, <2>12 DEF n
    <3> HIDE DEF u, v
    <3>2. CASE ~waits /\ now0 <= t
      <4>1. t \in Int
        <5>1. HotSpot!Horizon \in Nat
          BY DEF RateBounds, HotSpot!Horizon
        <5> QED BY <5>1
      <4>2. u \in Int /\ u <= n + b
        BY <2>8, <2>9, <3>1, <3>2
      <4>3. Turn(a, now0, n + b)
        BY <2>11, <2>12, <3>2
      <4>4. Turn(a, t, u)
        BY <2>9, <3>2, <4>1, <4>2, <4>3, TurnFor
      <4> QED BY <4>4 DEF u
    <3>3. CASE ~(~waits /\ now0 <= t)
      <4>1. u = v
        BY <3>1, <3>3
      <4>2. Turn(a, t, u)
        BY <3>1, <4>1
      <4> QED BY <4>2 DEF u
    <3> QED BY <3>2, <3>3
  <2>13. Throttled(a)'
    <3> DEFINE some == IF waits THEN {r} ELSE {}
    <3>1. /\ HotSpot!Even(a) => T # {} \/ m = 0
          /\ HotSpot!Even(a) => \A c \in T : h[c] >= 0
          /\ HotSpot!Even(a) => \A p, q \in some : p = q
      BY <1>3, <2>4, <2>6
    <3>2. HotSpot!Even(a) /\ some = {} => \A c \in T : Turn(a, h[c], m)
      BY <2>4, <2>6, <2>11
    <3>3. HotSpot!Even(a) => \A s \in some : Turn(a, req'[s].at, m + req'[s].batch)
      <4>1. waits => req'[r].at = at /\ req'[r].batch = b /\ m = n
        BY <1>10, <2>3, <2>8
      <4> QED BY <2>10, <4>1
    <3>4. TimeOf(a)' = T /\ In(a, {"store"})' = some /\ heap' = h /\ Spent(a)' = m
      BY <2>2, <2>3 DEF T, O, h, n, m
    <3> HIDE DEF some
    <3> QED BY <2>12, <3>1, <3>2, <3>3, <3>4, ThrottledNext
  <2>14. behavior' = "throttling"
    BY <1>2, <1>4
  <2> QED BY <2>5, <2>13, <2>14 DEF Kept
<1>14. y.arg = a \/ y.pc = "idle"
  BY <1>10, <1>11
<1>15. UNCHANGED <<behavior, clock, HotSpot!caches, evictions>> /\ now0 \in Int
  BY <1>3, <1>4
<1>16. /\ req[r].arg = a /\ y \in RateRequest /\ Asks(y) /\ HandsApart(y)
       /\ req' = [req EXCEPT ![r] = y] /\ c0 = req[r].time /\ heap' = [heap EXCEPT ![c0] = now0]
  BY <1>1, <1>4, <1>10, <1>12 DEF x, c0
<1>17. /\ hotPasses' \in [Args -> [0..HotSpot!Horizon -> Nat]]
       /\ \A c \in Args \ {a} : hotPasses'[c] = hotPasses[c]
       /\ slips' \in [Args -> Nat] /\ \A c \in Args : slips'[c] = 0 => slips[c] = 0
  BY <1>6, <1>8
<1> QED BY <1>13, <1>14, <1>15, <1>16, <1>17, Writes

(* StoreTime: the request passes at its turn.                              *)
LEMMA StoreTimeRate ==
  ASSUME RateBounds, RatePart, NEW r \in HotRequests, HotSpot!StoreTime(r)
  PROVE  RatePart'
<1> DEFINE x == req[r]
           b == x.batch
           c0 == x.time
           at == x.at
           y == HotSpot!Idle
<1>1. PICK a \in Args : x.arg = a
  BY RequestFacts DEF HotSpot!StoreTime, Asks
<1>2. /\ x.pc = "store" /\ x \in RateRequest /\ Thresholds[a] > 0 /\ c0 \in Cells
      /\ behavior = "throttling" /\ at > x.now
  <2>1. x.pc = "store" /\ x \in RateRequest /\ Asks(x) /\ behavior \in {"reject", "throttling"}
    BY RequestFacts DEF HotSpot!StoreTime
  <2>2. Thresholds[a] > 0 /\ c0 \in Cells /\ behavior # "reject" /\ at > x.now
    BY <1>1, <2>1 DEF Asks, WithTime
  <2> QED BY <2>1, <2>2
<1>3. b \in Nat /\ at \in Nat
  <2>1. b \in Nat /\ x.now \in Nat /\ at \in Int
    <3>1. x \in RateRequest
      BY <1>2
    <3> QED BY <3>1 DEF RateRequest
  <2> DEFINE k == x.now
  <2>2. k \in Nat /\ at \in Int /\ at > k
    BY <1>2, <2>1
  <2> HIDE DEF k, at
  <2>3. at \in Nat
    BY <2>2
  <2> QED BY <2>1, <2>3
<1>4. /\ req' = [req EXCEPT ![r] = y] /\ heap' = [heap EXCEPT ![c0] = at]
      /\ hotPasses' = [hotPasses EXCEPT ![a][at] = @ + b]
      /\ UNCHANGED <<behavior, clock, HotSpot!caches, slips, evictions>>
  BY <1>1 DEF HotSpot!StoreTime, HotSpot!Pass, HotSpot!Leave
<1>5. RateTypes /\ RateApart
  BY DEF RatePart
<1>6. slips' \in [Args -> Nat] /\ \A c \in Args : slips'[c] = 0 => slips[c] = 0
  BY <1>4, <1>5 DEF RateTypes
<1>7. heap \in [Cells -> Int]
  BY <1>5 DEF RateTypes
<1>8. /\ hotPasses' \in [Args -> [0..HotSpot!Horizon -> Nat]]
      /\ \A c \in Args \ {a} : hotPasses'[c] = hotPasses[c]
      /\ Spent(a) \in Nat /\ Spent(a)' \in Nat /\ Spent(a)' <= Spent(a) + b
      /\ \A t \in 0..HotSpot!Horizon :
           /\ HotSpot!PassedUntil(a, t) \in Nat /\ HotSpot!PassedUntil(a, t) <= Spent(a)
           /\ HotSpot!PassedUntil(a, t)'
                = HotSpot!PassedUntil(a, t) + (IF at <= t THEN b ELSE 0)
  <2>1. hotPasses' = [hotPasses EXCEPT ![a][at] = @ + b]
    BY <1>4
  <2> HIDE DEF x, b, at
  <2> QED BY <1>3, <1>5, <2>1, PassRecorded
<1>9. y \in RateRequest /\ Asks(y) /\ HandsApart(y) /\ y.pc = "idle"
  BY IdleFacts DEF HotSpot!Idle
<1> HIDE DEF x, b, c0, at, y
<1>13. ASSUME Undisturbed(a)' PROVE Kept(a)'
  <2> DEFINE T == TimeOf(a)
             O == In(a, {"store"})
             n == Spent(a)
             h == heap'
             m == n'
  <2>1. Undisturbed(a) /\ Holding(a) /\ Throttled(a)
    BY <1>2, <1>4, <1>6, <1>13 DEF Undisturbed, RatePart, Kept
  <2>2. T' = T /\ TokensOf(a)' = TokensOf(a)
    BY <1>4 DEF TimeOf, TokensOf, Elements, HotSpot!caches
  <2>3. /\ r \in O /\ req'[r] = y /\ (\A q \in HotRequests \ {r} : req'[q] = req[q])
        /\ O' = O \ {r}
    <3>1. req'[r] = y /\ \A q \in HotRequests \ {r} : req'[q] = req[q]
      BY <1>4, <1>5 DEF RateTypes
    <3>2. In(a, {"store"})' = In(a, {"store"}) \ {r}
      BY <1>4, <1>5, <1>9, InNext
    <3>3. r \in In(a, {"store"})
      BY <1>1, <1>2 DEF In, x
    <3> QED BY <3>1, <3>2, <3>3
  <2>4. c0 \in T /\ \A c \in T : c = c0
    <3>1. c0 \in T
      BY <1>1, <1>2, <2>1 DEF Holding, WithTime, x, c0
    <3> QED BY <3>1, OneCounter
  <2>5. Holding(a)'
    BY <1>9, <2>1, <2>2, <2>3, StillHolding DEF WithTime, WithTokens
  <2>6. h[c0] = at
    BY <1>2, <1>3, <1>4, <1>7
  <2>7. ASSUME HotSpot!Even(a)
        PROVE  /\ Turn(a, at, n + b) /\ \A p, q \in O : p = q
               /\ \A t \in 0..HotSpot!Horizon : Turn(a, t, HotSpot!PassedUntil(a, t))
    BY <2>1, <2>3, <2>7 DEF Throttled, at, b, x
  <2>8. n \in Nat /\ m \in Nat /\ m <= n + b
    BY <1>8
  <2>9. Thresholds[a] > 0 /\ at \in Int /\ at >= 0 /\ b \in Int /\ n + b \in Int
    BY <1>2, <1>3, <2>8
  <2> HIDE DEF T, O, h, n, m
  <2>11. ASSUME HotSpot!Even(a) PROVE Turn(a, at, m)
    <3>1. m \in Int /\ m <= n + b /\ n + b \in Int /\ at <= at
      BY <2>8, <2>9
    <3> QED BY <2>7, <2>9, <2>11, <3>1, TurnFor
  <2>12. ASSUME HotSpot!Even(a), NEW t \in 0..HotSpot!Horizon
         PROVE  Turn(a, t, HotSpot!PassedUntil(a, t)')
    <3> DEFINE u == HotSpot!PassedUntil(a, t)'
               v == HotSpot!PassedUntil(a, t)
    <3>1. Turn(a, t, v) /\ v \in Nat /\ v <= n /\ u = v + (IF at <= t THEN b ELSE 0)
      BY <1>8, <2>7, <2>12 DEF n
    <3> HIDE DEF u, v
    <3>2. CASE at <= t
      <4>1. t \in Int
        <5>1. HotSpot!Horizon \in Nat
          BY DEF RateBounds, HotSpot!Horizon
        <5> QED BY <5>1
      <4>2. u \in Int /\ u <= n + b
        BY <2>8, <2>9, <3>1, <3>2
      <4>3. Turn(a, at, n + b)
        BY <2>7, <2>12
      <4>4. Turn(a, t, u)
        BY <2>9, <3>2, <4>1, <4>2, <4>3, TurnFor
      <4> QED BY <4>4 DEF u
    <3>3. CASE ~(at <= t)
      <4>1. u = v
        BY <3>1, <3>3
      <4>2. Turn(a, t, u)
        BY <3>1, <4>1
      <4> QED BY <4>2 DEF u
    <3> QED BY <3>2, <3>3
  <2>13. Throttled(a)'
    <3> DEFINE some == O \ {r}
    <3>1. /\ HotSpot!Even(a) => T # {} \/ m = 0
          /\ HotSpot!Even(a) => \A c \in T : h[c] >= 0
          /\ HotSpot!Even(a) => \A p, q \in some : p = q
      BY <2>4, <2>6, <2>7, <2>9
    <3>2. HotSpot!Even(a) /\ some = {} => \A c \in T : Turn(a, h[c], m)
      BY <2>4, <2>6, <2>11
    <3>3. HotSpot!Even(a) => \A s \in some : Turn(a, req'[s].at, m + req'[s].batch)
      <4>1. HotSpot!Even(a) => some = {}
        BY <2>3, <2>7
      <4> QED BY <4>1
    <3>4. TimeOf(a)' = T /\ In(a, {"store"})' = some /\ heap' = h /\ Spent(a)' = m
      BY <2>2, <2>3 DEF T, O, h, n, m
    <3> HIDE DEF some
    <3> QED BY <2>12, <3>1, <3>2, <3>3, <3>4, ThrottledNext
  <2>14. behavior' = "throttling"
    BY <1>2, <1>4
  <2> QED BY <2>5, <2>13, <2>14 DEF Kept
<1>14. (y.arg = a \/ y.pc = "idle") /\ at \in Int
  BY <1>3, <1>9
<1>15. UNCHANGED <<behavior, clock, HotSpot!caches, evictions>>
  BY <1>4
<1>16. /\ req[r].arg = a /\ c0 = req[r].time
       /\ req' = [req EXCEPT ![r] = y] /\ heap' = [heap EXCEPT ![c0] = at]
  BY <1>1, <1>4 DEF x, c0
<1>17. /\ hotPasses' \in [Args -> [0..HotSpot!Horizon -> Nat]]
       /\ \A c \in Args \ {a} : hotPasses'[c] = hotPasses[c]
  BY <1>8
<1> QED BY <1>6, <1>9, <1>13, <1>14, <1>15, <1>16, <1>17, Writes

(* A new counter, and the one an argument gets.                            *)
NewCounter(c) ==
  /\ c \in Cells
  /\ c \notin HotSpot!CellsOf(times) /\ c \notin HotSpot!CellsOf(tokens)
  /\ \A q \in HotRequests : req[q].time # c /\ req[q].token # c
SameHands(y, x) ==
  \/ y.arg = x.arg /\ y.time = x.time /\ y.token = x.token
  \/ y.time = 0 /\ y.token = 0

(* Fresh is a new counter.                                                 *)
LEMMA FreshIsNew == ASSUME RateBounds, RatePart PROVE NewCounter(HotSpot!Fresh)
<1>1. HotBounds /\ times \in Seq(Pair) /\ tokens \in Seq(Pair) /\ concurrency \in Seq(Pair)
  BY DEF RateBounds, RatePart, RateTypes
<1> QED BY <1>1, FreshIsFree DEF NewCounter

CountersOf(lru, a) == {e.cell : e \in {x \in Elements(lru) : x.arg = a}}

(* An argument that had no counter has the one that is added.              *)
LEMMA GetsCounter ==
  ASSUME HotBounds, NEW lru \in Seq(Pair), NEW a \in Args, a \notin HotSpot!ArgsOf(lru),
         NEW c \in Cells, NEW next, next = HotSpot!AddIfAbsent(lru, a, c)
  PROVE  CountersOf(lru, a) = {} /\ CountersOf(next, a) = {c}
<1>1. New(a, c) \in Elements(next) /\ Elements(next) \ {New(a, c)} \subseteq Elements(lru)
  BY AddsTo
<1>2. \A e \in Elements(lru) : e.arg # a
  BY Cached
<1>3. New(a, c).arg = a /\ New(a, c).cell = c
  BY DEF New
<1>4. {x \in Elements(next) : x.arg = a} = {New(a, c)}
  BY <1>1, <1>2, <1>3
<1>5. {x \in Elements(lru) : x.arg = a} = {}
  BY <1>2
<1> QED BY <1>3, <1>4, <1>5 DEF CountersOf

(* A request adds a counter for its argument to a cache.                   *)
LEMMA AddsTime ==
  ASSUME RateBounds, RatePart, NEW r \in HotRequests, NEW a \in Args, req[r].arg = a,
         a \notin HotSpot!ArgsOf(times), NEW c, NewCounter(c),
         times' = HotSpot!AddIfAbsent(times, a, c), evictions' = HotSpot!Evicted(times, times'),
         NEW y \in RateRequest, Asks(y), req' = [req EXCEPT ![r] = y], y.arg = a \/ y.pc = "idle",
         SameHands(y, req[r]),
         UNCHANGED <<behavior, clock, tokens, concurrency>>,
         NEW v \in Int, heap' = [heap EXCEPT ![c] = v],
         hotPasses' \in [Args -> [0..HotSpot!Horizon -> Nat]],
         \A b \in Args \ {a} : hotPasses'[b] = hotPasses[b],
         slips' \in [Args -> Nat], \A b \in Args : slips'[b] = 0 => slips[b] = 0,
         Undisturbed(a)' => Kept(a)'
  PROVE  RatePart'
<1>1. /\ RateTypes /\ RateApart /\ HotBounds /\ c \in Cells /\ times \in Seq(Pair)
      /\ tokens \in Seq(Pair) /\ Distinct(times) /\ evictions \in [Args -> Nat]
      /\ behavior' = behavior /\ clock' = clock /\ tokens' = tokens /\ concurrency' = concurrency
  BY DEF RatePart, RateTypes, RateApart, RateBounds, NewCounter
<1>2. /\ req' \in [HotRequests -> RateRequest] /\ (\A q \in HotRequests : Asks(req[q]))'
      /\ req'[r] = y /\ \A q \in HotRequests \ {r} : req'[q] = req[q]
  BY <1>1, RequestTypes
<1>3. /\ times' \in Seq(Pair) /\ New(a, c) \in Elements(times')
      /\ Elements(times') \ {New(a, c)} \subseteq Elements(times)
  <2> DEFINE next == HotSpot!AddIfAbsent(times, a, c)
  <2>1. /\ next \in Seq(Pair) /\ New(a, c) \in Elements(next)
        /\ Elements(next) \ {New(a, c)} \subseteq Elements(times)
    BY <1>1, AddsTo
  <2> HIDE DEF next
  <2>2. times' = next
    BY DEF next
  <2> QED BY <2>1, <2>2
<1>4. /\ evictions' \in [Args -> Nat]
      /\ \A b \in Args \ {a} : evictions'[b] = 0 =>
           evictions[b] = 0 /\ \A e : e.arg = b => (e \in Elements(times') <=> e \in Elements(times))
  BY <1>1, Keeps
<1>5. heap' \in [Cells -> Int]
  BY <1>1 DEF RateTypes
<1>6. RateTypes'
  BY <1>1, <1>2, <1>3, <1>4, <1>5 DEF RateTypes, HotSpot!Horizon
<1>7. /\ Elements(times) \subseteq Pair /\ Elements(tokens) \subseteq Pair
      /\ \A e \in Elements(times) \union Elements(tokens) : e.cell # c
      /\ \A q \in HotRequests : req[q].time # c /\ req[q].token # c
  <2>1. /\ Elements(times) \subseteq Pair /\ Elements(tokens) \subseteq Pair
        /\ \A e \in Elements(times) : e.cell \in HotSpot!CellsOf(times)
        /\ \A e \in Elements(tokens) : e.cell \in HotSpot!CellsOf(tokens)
    BY <1>1, Cached
  <2> QED BY <2>1 DEF NewCounter
<1>8. RateApart'
  <2>1. Distinct(times')
    <3> DEFINE next == HotSpot!AddIfAbsent(times, a, c)
    <3>1. Distinct(next)
      BY <1>1, StaysDistinct DEF NewCounter
    <3> HIDE DEF next
    <3>2. times' = next
      BY DEF next
    <3> QED BY <3>1, <3>2
  <2>2. \A e \in Elements(times') : e \in Elements(times) \/ (e.arg = a /\ e.cell = c)
    BY <1>3 DEF New
  <2>3. \A e \in Elements(times') : \A f \in Elements(tokens) : e.cell # f.cell
    BY <1>1, <1>7, <2>2 DEF RateApart
  <2>4. ASSUME NEW q \in HotRequests
        PROVE  /\ \A e \in Elements(times') :
                    (req'[q].time = e.cell => req'[q].arg = e.arg) /\ req'[q].token # e.cell
               /\ \A f \in Elements(tokens) :
                    (req'[q].token = f.cell => req'[q].arg = f.arg) /\ req'[q].time # f.cell
    <3>1. SameHands(req'[q], req[q])
      <4>1. CASE q = r
        BY <1>2, <4>1
      <4>2. CASE q # r
        BY <1>2, <4>2 DEF SameHands
      <4> QED BY <4>1, <4>2
    <3>2. /\ \A e \in Elements(times) :
               (req[q].time = e.cell => req[q].arg = e.arg) /\ req[q].token # e.cell
          /\ \A f \in Elements(tokens) :
               (req[q].token = f.cell => req[q].arg = f.arg) /\ req[q].time # f.cell
      BY <1>1 DEF RateApart
    <3>3. /\ \A e \in Elements(times') : e.cell # 0
          /\ \A f \in Elements(tokens) : f.cell # 0
      BY <1>1, <1>7, <2>2 DEF HotBounds, Pair
    <3>4. CASE req'[q].time = 0 /\ req'[q].token = 0
      BY <3>3, <3>4
    <3>5. CASE req'[q].arg = req[q].arg /\ req'[q].time = req[q].time /\ req'[q].token = req[q].token
      BY <1>7, <2>2, <3>2, <3>5
    <3> QED BY <3>1, <3>4, <3>5 DEF SameHands
  <2>5. /\ Elements(times)' = Elements(times') /\ Elements(tokens)' = Elements(tokens)
        /\ Distinct(times)' /\ Distinct(tokens)'
    BY <1>1, <2>1 DEF Elements, Distinct, RateApart
  <2> QED BY <2>3, <2>4, <2>5 DEF RateApart
<1>9. ASSUME NEW b \in Args, Undisturbed(b)' PROVE Kept(b)'
  <2>1. CASE b = a
    BY <1>9, <2>1
  <2>2. CASE b # a
    <3>1. /\ Kept(b)
          /\ \A e : e.arg = b => (e \in Elements(times') <=> e \in Elements(times))
      BY <1>4, <1>9, <2>2 DEF Undisturbed, RatePart
    <3>2. TimeOf(b)' = TimeOf(b) /\ TokensOf(b)' = TokensOf(b)
      <4>1. {e \in Elements(times') : e.arg = b} = {e \in Elements(times) : e.arg = b}
        BY <3>1
      <4>2. /\ TimeOf(b)' = {e.cell : e \in {x \in Elements(times') : x.arg = b}}
            /\ TokensOf(b)' = {e.cell : e \in {x \in Elements(tokens') : x.arg = b}}
        BY DEF TimeOf, TokensOf, Elements
      <4> QED BY <1>1, <4>1, <4>2 DEF TimeOf, TokensOf
    <3>3. \A d \in TimeOf(b) \union TokensOf(b) : d # c /\ d \in Cells
      BY <1>7 DEF TimeOf, TokensOf, Pair
    <3>4. \A d \in TimeOf(b) \union TokensOf(b) : heap'[d] = heap[d]
      <4>1. heap \in [Cells -> Int]
        BY <1>1 DEF RateTypes
      <4> QED BY <3>3, <4>1
    <3>5. req[r].arg # b /\ (req'[r].arg # b \/ req'[r].pc = "idle") /\ hotPasses'[b] = hotPasses[b]
      BY <1>2, <2>2
    <3> QED BY <1>1, <1>2, <3>1, <3>2, <3>4, <3>5, OthersKept
  <2> QED BY <2>1, <2>2
<1> QED BY <1>6, <1>8, <1>9 DEF RatePart

(* The same of a counter of tokens.                                        *)
LEMMA AddsToken ==
  ASSUME RateBounds, RatePart, NEW r \in HotRequests, NEW a \in Args, req[r].arg = a,
         a \notin HotSpot!ArgsOf(tokens), NEW c, NewCounter(c),
         tokens' = HotSpot!AddIfAbsent(tokens, a, c), evictions' = HotSpot!Evicted(tokens, tokens'),
         NEW y \in RateRequest, Asks(y), req' = [req EXCEPT ![r] = y], y.arg = a \/ y.pc = "idle",
         SameHands(y, req[r]),
         UNCHANGED <<behavior, clock, times, concurrency>>,
         NEW v \in Int, heap' = [heap EXCEPT ![c] = v],
         hotPasses' \in [Args -> [0..HotSpot!Horizon -> Nat]],
         \A b \in Args \ {a} : hotPasses'[b] = hotPasses[b],
         slips' \in [Args -> Nat], \A b \in Args : slips'[b] = 0 => slips[b] = 0,
         Undisturbed(a)' => Kept(a)'
  PROVE  RatePart'
<1>1. /\ RateTypes /\ RateApart /\ HotBounds /\ c \in Cells /\ tokens \in Seq(Pair)
      /\ times \in Seq(Pair) /\ Distinct(tokens) /\ evictions \in [Args -> Nat]
      /\ behavior' = behavior /\ clock' = clock /\ times' = times /\ concurrency' = concurrency
  BY DEF RatePart, RateTypes, RateApart, RateBounds, NewCounter
<1>2. /\ req' \in [HotRequests -> RateRequest] /\ (\A q \in HotRequests : Asks(req[q]))'
      /\ req'[r] = y /\ \A q \in HotRequests \ {r} : req'[q] = req[q]
  BY <1>1, RequestTypes
<1>3. /\ tokens' \in Seq(Pair) /\ New(a, c) \in Elements(tokens')
      /\ Elements(tokens') \ {New(a, c)} \subseteq Elements(tokens)
  <2> DEFINE next == HotSpot!AddIfAbsent(tokens, a, c)
  <2>1. /\ next \in Seq(Pair) /\ New(a, c) \in Elements(next)
        /\ Elements(next) \ {New(a, c)} \subseteq Elements(tokens)
    BY <1>1, AddsTo
  <2> HIDE DEF next
  <2>2. tokens' = next
    BY DEF next
  <2> QED BY <2>1, <2>2
<1>4. /\ evictions' \in [Args -> Nat]
      /\ \A b \in Args \ {a} : evictions'[b] = 0 =>
           evictions[b] = 0 /\ \A e : e.arg = b => (e \in Elements(tokens') <=> e \in Elements(tokens))
  BY <1>1, Keeps
<1>5. heap' \in [Cells -> Int]
  BY <1>1 DEF RateTypes
<1>6. RateTypes'
  BY <1>1, <1>2, <1>3, <1>4, <1>5 DEF RateTypes, HotSpot!Horizon
<1>7. /\ Elements(tokens) \subseteq Pair /\ Elements(times) \subseteq Pair
      /\ \A e \in Elements(tokens) \union Elements(times) : e.cell # c
      /\ \A q \in HotRequests : req[q].time # c /\ req[q].token # c
  <2>1. /\ Elements(tokens) \subseteq Pair /\ Elements(times) \subseteq Pair
        /\ \A e \in Elements(tokens) : e.cell \in HotSpot!CellsOf(tokens)
        /\ \A e \in Elements(times) : e.cell \in HotSpot!CellsOf(times)
    BY <1>1, Cached
  <2> QED BY <2>1 DEF NewCounter
<1>8. RateApart'
  <2>1. Distinct(tokens')
    <3> DEFINE next == HotSpot!AddIfAbsent(tokens, a, c)
    <3>1. Distinct(next)
      BY <1>1, StaysDistinct DEF NewCounter
    <3> HIDE DEF next
    <3>2. tokens' = next
      BY DEF next
    <3> QED BY <3>1, <3>2
  <2>2. \A e \in Elements(tokens') : e \in Elements(tokens) \/ (e.arg = a /\ e.cell = c)
    BY <1>3 DEF New
  <2>3. \A e \in Elements(tokens') : \A f \in Elements(times) : e.cell # f.cell
    BY <1>1, <1>7, <2>2 DEF RateApart
  <2>4. ASSUME NEW q \in HotRequests
        PROVE  /\ \A e \in Elements(tokens') :
                    (req'[q].token = e.cell => req'[q].arg = e.arg) /\ req'[q].time # e.cell
               /\ \A f \in Elements(times) :
                    (req'[q].time = f.cell => req'[q].arg = f.arg) /\ req'[q].token # f.cell
    <3>1. SameHands(req'[q], req[q])
      <4>1. CASE q = r
        BY <1>2, <4>1
      <4>2. CASE q # r
        BY <1>2, <4>2 DEF SameHands
      <4> QED BY <4>1, <4>2
    <3>2. /\ \A e \in Elements(tokens) :
               (req[q].token = e.cell => req[q].arg = e.arg) /\ req[q].time # e.cell
          /\ \A f \in Elements(times) :
               (req[q].time = f.cell => req[q].arg = f.arg) /\ req[q].token # f.cell
      BY <1>1 DEF RateApart
    <3>3. /\ \A e \in Elements(tokens') : e.cell # 0
          /\ \A f \in Elements(times) : f.cell # 0
      BY <1>1, <1>7, <2>2 DEF HotBounds, Pair
    <3>4. CASE req'[q].time = 0 /\ req'[q].token = 0
      BY <3>3, <3>4
    <3>5. CASE req'[q].arg = req[q].arg /\ req'[q].time = req[q].time /\ req'[q].token = req[q].token
      BY <1>7, <2>2, <3>2, <3>5
    <3> QED BY <3>1, <3>4, <3>5 DEF SameHands
  <2>5. /\ Elements(tokens)' = Elements(tokens') /\ Elements(times)' = Elements(times)
        /\ Distinct(tokens)' /\ Distinct(times)'
    BY <1>1, <2>1 DEF Elements, Distinct, RateApart
  <2> QED BY <2>3, <2>4, <2>5 DEF RateApart
<1>9. ASSUME NEW b \in Args, Undisturbed(b)' PROVE Kept(b)'
  <2>1. CASE b = a
    BY <1>9, <2>1
  <2>2. CASE b # a
    <3>1. /\ Kept(b)
          /\ \A e : e.arg = b => (e \in Elements(tokens') <=> e \in Elements(tokens))
      BY <1>4, <1>9, <2>2 DEF Undisturbed, RatePart
    <3>2. TimeOf(b)' = TimeOf(b) /\ TokensOf(b)' = TokensOf(b)
      <4>1. {e \in Elements(tokens') : e.arg = b} = {e \in Elements(tokens) : e.arg = b}
        BY <3>1
      <4>2. /\ TimeOf(b)' = {e.cell : e \in {x \in Elements(times') : x.arg = b}}
            /\ TokensOf(b)' = {e.cell : e \in {x \in Elements(tokens') : x.arg = b}}
        BY DEF TimeOf, TokensOf, Elements
      <4> QED BY <1>1, <4>1, <4>2 DEF TimeOf, TokensOf
    <3>3. \A d \in TimeOf(b) \union TokensOf(b) : d # c /\ d \in Cells
      BY <1>7 DEF TimeOf, TokensOf, Pair
    <3>4. \A d \in TimeOf(b) \union TokensOf(b) : heap'[d] = heap[d]
      <4>1. heap \in [Cells -> Int]
        BY <1>1 DEF RateTypes
      <4> QED BY <3>3, <4>1
    <3>5. req[r].arg # b /\ (req'[r].arg # b \/ req'[r].pc = "idle") /\ hotPasses'[b] = hotPasses[b]
      BY <1>2, <2>2
    <3> QED BY <1>1, <1>2, <3>1, <3>2, <3>4, <3>5, OthersKept
  <2> QED BY <2>1, <2>2
<1> QED BY <1>6, <1>8, <1>9 DEF RatePart

(* The first batch has its turn at once.                                   *)
LEMMA TurnFirst ==
  ASSUME RateBounds, NEW a \in Args, Thresholds[a] > 0, NEW b \in HotBatches,
         NEW t \in Int, 0 <= t, NEW k \in Int, k <= b
  PROVE  Turn(a, t, k)
<1> DEFINE z == HotSpot!Max(HotBatches)
           m == Thresholds[a]
<1>1. z \in Int /\ m \in Int /\ Duration \in Int /\ b \in Int /\ b <= z
  BY LargestBatch DEF RateBounds, HotBounds
<1> HIDE DEF m
<1>2. 0 * m = 0
  BY <1>1
<1>3. Turn(a, 0, z)
  <2> DEFINE zd == z * Duration
  <2>1. zd \in Int
    <3> HIDE DEF z
    <3> QED BY <1>1
  <2> HIDE DEF zd
  <2>2. zd <= zd + 0 * m
    BY <1>2, <2>1
  <2> QED BY <2>2 DEF Turn, zd, m
<1> HIDE DEF z
<1>4. k <= z
  BY <1>1
<1> QED BY <1>1, <1>3, <1>4, TurnFor

(* AddTime of the first: it is throttled no further, or goes to fill.      *)
LEMMA FirstTimeRate ==
  ASSUME RateBounds, RatePart, NEW r \in HotRequests, HotSpot!AddTime(r),
         req[r].arg \notin HotSpot!ArgsOf(times)
  PROVE  RatePart'
<1> DEFINE x == req[r]
           b == x.batch
           now0 == x.now
           throttling == behavior = "throttling"
           y == IF throttling THEN HotSpot!Idle ELSE [x EXCEPT !.pc = "fill"]
<1>1. PICK a \in Args : x.arg = a
  BY RequestFacts DEF HotSpot!AddTime, Asks
<1>0. PICK c : c = HotSpot!Fresh
  OBVIOUS
<1>2. /\ x.pc = "time" /\ x \in RateRequest /\ Asks(x) /\ HandsApart(x) /\ clock \in Nat
      /\ Thresholds[a] > 0 /\ b \in HotBatches /\ behavior \in {"reject", "throttling"}
      /\ now0 <= clock /\ (~throttling => b <= HotSpot!MaxCount(a))
  <2>1. x.pc = "time" /\ x \in RateRequest /\ Asks(x) /\ HandsApart(x) /\ clock \in Nat
        /\ behavior \in {"reject", "throttling"}
    BY RequestFacts DEF HotSpot!AddTime
  <2>2. /\ Thresholds[a] > 0 /\ b \in HotBatches /\ now0 <= clock
        /\ ~throttling => b <= HotSpot!MaxCount(a)
    BY <1>1, <2>1 DEF Asks
  <2> QED BY <2>1, <2>2
<1>3. b \in Nat /\ now0 \in Nat
  <2>1. x \in RateRequest
    BY <1>2
  <2> QED BY <2>1 DEF RateRequest
<1>4. /\ req' = [req EXCEPT ![r] = y] /\ heap' = [heap EXCEPT ![c] = now0]
      /\ hotPasses' = IF throttling THEN [hotPasses EXCEPT ![a][now0] = @ + b] ELSE hotPasses
      /\ times' = HotSpot!AddIfAbsent(times, a, c) /\ evictions' = HotSpot!Evicted(times, times')
      /\ UNCHANGED <<behavior, clock, tokens, concurrency, slips>>
  <2>1. /\ times' = HotSpot!AddIfAbsent(times, a, c) /\ evictions' = HotSpot!Evicted(times, times')
        /\ UNCHANGED <<behavior, clock, tokens, concurrency, slips>>
        /\ heap' = [heap EXCEPT ![c] = now0]
    BY <1>1, <1>0 DEF HotSpot!AddTime
  <2>2. CASE throttling
    BY <1>1, <2>1, <2>2 DEF HotSpot!AddTime, HotSpot!Pass, HotSpot!Leave
  <2>3. CASE ~throttling
    <3>1. behavior = "reject"
      BY <1>2, <2>3
    <3> QED BY <1>1, <2>1, <2>3, <3>1 DEF HotSpot!AddTime, HotSpot!Goto
  <2> QED BY <2>1, <2>2, <2>3
<1>5. RateTypes /\ RateApart
  BY DEF RatePart
<1>6. slips' \in [Args -> Nat] /\ \A d \in Args : slips'[d] = 0 => slips[d] = 0
  BY <1>4, <1>5 DEF RateTypes
<1>7. heap \in [Cells -> Int]
  BY <1>5 DEF RateTypes
<1>8. /\ hotPasses' \in [Args -> [0..HotSpot!Horizon -> Nat]]
      /\ \A d \in Args \ {a} : hotPasses'[d] = hotPasses[d]
      /\ Spent(a) \in Nat /\ Spent(a)' \in Nat
      /\ IF ~throttling THEN Spent(a)' = Spent(a) ELSE Spent(a)' <= Spent(a) + b
      /\ \A t \in 0..HotSpot!Horizon :
           /\ HotSpot!PassedUntil(a, t) \in Nat /\ HotSpot!PassedUntil(a, t) <= Spent(a)
           /\ HotSpot!PassedUntil(a, t)'
                = HotSpot!PassedUntil(a, t) + (IF throttling /\ now0 <= t THEN b ELSE 0)
  <2>1. CASE ~throttling
    <3>1. hotPasses' = hotPasses /\ hotPasses \in [Args -> [0..HotSpot!Horizon -> Nat]]
      BY <1>4, <1>5, <2>1 DEF RateTypes
    <3>2. /\ Spent(a)' = Spent(a)
          /\ \A t : HotSpot!PassedUntil(a, t)' = HotSpot!PassedUntil(a, t)
      BY <3>1 DEF Spent, HotSpot!PassedUntil, HotSpot!MapThenSumSet, HotSpot!MapThenFoldSet
    <3>3. /\ Spent(a) \in Nat
          /\ \A t \in 0..HotSpot!Horizon :
               HotSpot!PassedUntil(a, t) \in Nat /\ HotSpot!PassedUntil(a, t) <= Spent(a)
      BY <1>5, SpentIs
    <3> HIDE DEF throttling
    <3> QED BY <2>1, <3>1, <3>2, <3>3
  <2>2. CASE throttling
    <3>1. hotPasses' = [hotPasses EXCEPT ![a][now0] = @ + b]
      BY <1>4, <2>2
    <3> HIDE DEF throttling, now0, b, x
    <3>2. /\ hotPasses' \in [Args -> [0..HotSpot!Horizon -> Nat]]
          /\ \A d \in Args \ {a} : hotPasses'[d] = hotPasses[d]
          /\ Spent(a) \in Nat /\ Spent(a)' \in Nat /\ Spent(a)' <= Spent(a) + b
          /\ \A t \in 0..HotSpot!Horizon :
               /\ HotSpot!PassedUntil(a, t) \in Nat /\ HotSpot!PassedUntil(a, t) <= Spent(a)
               /\ HotSpot!PassedUntil(a, t)'
                    = HotSpot!PassedUntil(a, t) + (IF now0 <= t THEN b ELSE 0)
      BY <1>3, <1>5, <3>1, PassRecorded
    <3> QED BY <2>2, <3>2
  <2> QED BY <2>1, <2>2
<1>9. HotSpot!Idle \in RateRequest /\ Asks(HotSpot!Idle) /\ HotSpot!Idle.pc = "idle"
      /\ HotSpot!Idle.time = 0 /\ HotSpot!Idle.token = 0
  BY IdleFacts DEF HotSpot!Idle
<1> HIDE DEF x, b, now0, throttling
<1>10. /\ ~throttling => /\ y.pc = "fill" /\ y.arg = x.arg /\ y.batch = b /\ y.now = now0
                         /\ y.time = x.time /\ y.token = x.token
       /\ throttling => y.pc = "idle" /\ y.time = 0 /\ y.token = 0
       /\ y \in RateRequest
  <2> DEFINE z == [x EXCEPT !.pc = "fill"]
  <2>1. /\ z.pc = "fill" /\ z.arg = x.arg /\ z.batch = b /\ z.now = now0 /\ z.time = x.time
        /\ z.token = x.token /\ z \in RateRequest
    BY <1>2 DEF RateRequest, RateSteps, b, now0
  <2>2. y = IF throttling THEN HotSpot!Idle ELSE z
    OBVIOUS
  <2> HIDE DEF y, z
  <2> QED BY <1>9, <2>1, <2>2
<1>11. Asks(y)
  <2>1. CASE ~throttling
    <3>1. /\ y.pc = "fill" /\ y.arg = a /\ y.batch = b /\ y.now = now0
      BY <1>1, <1>10, <2>1
    <3>2. behavior = "reject" /\ b <= HotSpot!MaxCount(a)
      BY <1>2, <2>1 DEF throttling
    <3> HIDE DEF y
    <3> QED BY <1>2, <3>1, <3>2 DEF Asks, WithTime, WithTokens
  <2>2. CASE throttling
    BY <1>9, <2>2
  <2> QED BY <2>1, <2>2
<1>12. SameHands(y, x) /\ (y.arg = a \/ y.pc = "idle")
  BY <1>1, <1>10 DEF SameHands
<1> HIDE DEF y
<1>13. NewCounter(c) /\ c \in Cells /\ a \notin HotSpot!ArgsOf(times) /\ times \in Seq(Pair)
  BY <1>1, <1>5, <1>0, FreshIsNew DEF NewCounter, RateTypes, x
<1>14. TimeOf(a) = {} /\ TimeOf(a)' = {c} /\ TokensOf(a)' = TokensOf(a)
  <2> DEFINE next == HotSpot!AddIfAbsent(times, a, c)
  <2>1. HotBounds
    BY DEF RateBounds
  <2>2. CountersOf(times, a) = {} /\ CountersOf(next, a) = {c}
    BY <1>13, <2>1, GetsCounter
  <2> HIDE DEF next
  <2>3. times' = next /\ tokens' = tokens
    BY <1>4 DEF next
  <2>4. TimeOf(a) = CountersOf(times, a) /\ TimeOf(a)' = CountersOf(times', a)
    BY DEF TimeOf, CountersOf, Elements
  <2>5. TokensOf(a)' = TokensOf(a)
    BY <2>3 DEF TokensOf, Elements
  <2> QED BY <2>2, <2>3, <2>4, <2>5
<1>15. /\ evictions' \in [Args -> Nat] /\ \A d \in Args : evictions'[d] = 0 => evictions[d] = 0
       /\ req'[r] = y /\ \A q \in HotRequests \ {r} : req'[q] = req[q]
  <2>1. Distinct(times) /\ evictions \in [Args -> Nat] /\ HotBounds
    BY <1>5 DEF RateApart, RateTypes, RateBounds
  <2>2. evictions' \in [Args -> Nat] /\ \A d \in Args : evictions'[d] = 0 => evictions[d] = 0
    BY <1>4, <1>13, <2>1, Keeps
  <2> QED BY <1>4, <1>5, <2>2 DEF RateTypes
<1>16. ASSUME Undisturbed(a)' PROVE Kept(a)'
  <2> DEFINE n == Spent(a)
             h == heap'
             m == n'
             Stamping == In(a, {"stamp"})
             Storing == In(a, {"store"})
  <2>1. Undisturbed(a) /\ Holding(a) /\ Kept(a)
    BY <1>4, <1>15, <1>16 DEF Undisturbed, RatePart, Kept
  <2>2. Holding(a)'
    <3>1. TimeOf(a) \subseteq TimeOf(a)' /\ TokensOf(a) \subseteq TokensOf(a)' /\ TimeOf(a)' # {}
      BY <1>14
    <3>2. y.pc = "fill" \/ y.pc = "idle"
      BY <1>10
    <3> QED BY <1>15, <2>1, <3>1, <3>2, StillHolding DEF WithTime, WithTokens
  <2>3. h[c] = now0 /\ now0 >= 0 /\ now0 <= clock
    BY <1>2, <1>3, <1>4, <1>7, <1>13
  <2>4. n \in Nat /\ m \in Nat
    BY <1>8
  <2>5. Stamping' \subseteq Stamping /\ Storing' \subseteq Storing
    <3>1. y.pc \notin {"stamp"} /\ y.pc \notin {"store"}
      BY <1>10
    <3> QED BY <1>15, <3>1 DEF In
  <2>6. TimeOf(a)' = {c} /\ heap' = h /\ Spent(a)' = m /\ clock' = clock
    BY <1>4, <1>14
  <2>7. CASE ~throttling
    <3>1. behavior = "reject" /\ behavior' = "reject" /\ Rejecting(a)
      BY <1>2, <1>4, <2>1, <2>7 DEF Kept, throttling
    <3>2. TokensOf(a) = {} /\ n = 0 /\ Stamping = {}
          /\ \A t \in 0..HotSpot!Horizon : Room(a, t, HotSpot!PassedUntil(a, t))
      BY <1>14, <3>1 DEF Rejecting
    <3>3. /\ m = 0 /\ TokensOf(a)' = {} /\ In(a, {"stamp"})' = {}
          /\ \A t \in 0..HotSpot!Horizon : Room(a, t, HotSpot!PassedUntil(a, t)')
      <4>1. \A t \in 0..HotSpot!Horizon : HotSpot!PassedUntil(a, t)' = HotSpot!PassedUntil(a, t)
        BY <1>8, <2>7
      <4> QED BY <1>8, <1>14, <2>5, <2>7, <3>2, <4>1
    <3> DEFINE none == {}
               one == {c}
    <3>4. /\ none = {} => m = 0 /\ none = {}
          /\ none # {} => one # {}
          /\ \A d \in one : h[d] >= 0 /\ h[d] <= clock
          /\ \A p, q \in none : p = q
          /\ \A d \in none : h[d] >= 0
          /\ \A d \in none : \A e \in one : none = {} => Room(a, h[e], m + h[d])
          /\ \A d \in none : \A e \in one : \A s \in none :
               \/ Room(a, h[e], m + req'[s].batch + h[d])
               \/ Room(a, req'[s].now, m + req'[s].batch + h[d])
      BY <2>3, <3>3
    <3>5. TimeOf(a)' = one /\ TokensOf(a)' = none /\ In(a, {"stamp"})' = none
      BY <2>6, <3>3
    <3> HIDE DEF none, one, h, m
    <3>6. Rejecting(a)'
      BY <2>6, <3>3, <3>4, <3>5, RejectingNext
    <3> QED BY <2>2, <3>1, <3>6 DEF Kept
  <2>8. CASE throttling
    <3>1. behavior' = "throttling" /\ Throttled(a)
      BY <1>4, <2>1, <2>8 DEF Kept, throttling
    <3>2. Storing = {}
      BY <1>14, <2>1 DEF Holding, WithTime, In
    <3>3. HotSpot!Even(a) => n = 0
      BY <1>14, <3>1 DEF Throttled
    <3> DEFINE none == {}
               one == {c}
    <3>4. In(a, {"store"})' = none /\ TimeOf(a)' = one
      BY <1>14, <2>5, <3>2
    <3>5. Thresholds[a] > 0 /\ now0 \in Int /\ 0 <= now0 /\ (HotSpot!Even(a) => m <= b) /\ b \in Int
      BY <1>2, <1>3, <1>8, <2>8, <3>3
    <3> HIDE DEF n, m, h
    <3>6. HotSpot!Even(a) => Turn(a, now0, m)
      BY <1>2, <2>4, <3>5, TurnFirst
    <3>7. ASSUME HotSpot!Even(a), NEW t \in 0..HotSpot!Horizon
          PROVE  Turn(a, t, HotSpot!PassedUntil(a, t)')
      <4> DEFINE u == HotSpot!PassedUntil(a, t)'
                 v == HotSpot!PassedUntil(a, t)
      <4>1. v \in Nat /\ v <= n /\ u = v + (IF throttling /\ now0 <= t THEN b ELSE 0)
        BY <1>8, <3>7 DEF n
      <4> HIDE DEF u, v
      <4>2. u \in Int /\ u <= b
        <5>1. n = 0 /\ b \in Nat
          BY <1>3, <3>3, <3>7
        <5> QED BY <4>1, <5>1
      <4>3. t \in Int /\ 0 <= t
        <5>1. HotSpot!Horizon \in Nat
          BY DEF RateBounds, HotSpot!Horizon
        <5> QED BY <5>1
      <4>4. Turn(a, t, u)
        BY <1>2, <3>5, <4>2, <4>3, TurnFirst
      <4> QED BY <4>4 DEF u
    <3>8. /\ HotSpot!Even(a) => one # {} \/ m = 0
          /\ HotSpot!Even(a) => \A d \in one : h[d] >= 0
          /\ HotSpot!Even(a) => \A p, q \in none : p = q
          /\ HotSpot!Even(a) /\ none = {} => \A d \in one : Turn(a, h[d], m)
          /\ HotSpot!Even(a) => \A s \in none : Turn(a, req'[s].at, m + req'[s].batch)
      BY <2>3, <3>6
    <3> HIDE DEF none, one
    <3>9. Throttled(a)'
      BY <2>6, <3>4, <3>7, <3>8, ThrottledNext
    <3> QED BY <2>2, <3>1, <3>9 DEF Kept
  <2> QED BY <2>7, <2>8
<1>17. req[r].arg = a /\ SameHands(y, req[r]) /\ now0 \in Int
  BY <1>1, <1>3, <1>12 DEF x
<1>18. /\ hotPasses' \in [Args -> [0..HotSpot!Horizon -> Nat]]
       /\ \A d \in Args \ {a} : hotPasses'[d] = hotPasses[d]
  BY <1>8
<1> QED BY <1>4, <1>6, <1>10, <1>11, <1>12, <1>13, <1>16, <1>17, <1>18, AddsTime

(* The tokens that a refill adds, if they were gone: none passed yet.      *)
LEMMA FirstTokensRate ==
  ASSUME RateBounds, RatePart, NEW r \in HotRequests, HotSpot!AddTokens(r),
         req[r].arg \notin HotSpot!ArgsOf(tokens)
  PROVE  RatePart'
<1> DEFINE x == req[r]
           b == x.batch
           t0 == x.now
           y == [x EXCEPT !.pc = "stamp"]
<1>1. PICK a \in Args : x.arg = a
  BY RequestFacts DEF HotSpot!AddTokens, Asks
<1>0. PICK d0 : d0 = HotSpot!Fresh
  OBVIOUS
<1> DEFINE left == HotSpot!MaxCount(a) - b
<1>2. /\ x.pc = "refill" /\ x \in RateRequest /\ Asks(x) /\ HandsApart(x) /\ clock \in Nat
      /\ Thresholds[a] > 0 /\ behavior = "reject" /\ b <= HotSpot!MaxCount(a) /\ x.time \in Cells
  <2>1. x.pc = "refill" /\ x \in RateRequest /\ Asks(x) /\ HandsApart(x) /\ clock \in Nat
        /\ behavior \in {"reject", "throttling"}
    BY RequestFacts DEF HotSpot!AddTokens
  <2>2. behavior # "throttling" /\ Thresholds[a] > 0 /\ x.time \in Cells
    BY <1>1, <2>1 DEF Asks, WithTime
  <2>3. b <= HotSpot!MaxCount(a)
    BY <1>1, <2>1, <2>2 DEF Asks
  <2> QED BY <2>1, <2>2, <2>3
<1>3. b \in Nat /\ t0 \in Nat /\ HotSpot!MaxCount(a) \in Nat /\ left \in Nat
  <2>1. b \in Nat /\ t0 \in Nat
    <3>1. x \in RateRequest
      BY <1>2
    <3> QED BY <3>1 DEF RateRequest
  <2> DEFINE max == HotSpot!MaxCount(a)
  <2>2. max \in Nat /\ b <= max
    BY <1>2, AddedIs
  <2> HIDE DEF max, b
  <2>3. max - b \in Nat
    BY <2>1, <2>2
  <2> QED BY <2>1, <2>2, <2>3 DEF max
<1>4. /\ req' = [req EXCEPT ![r] = y] /\ heap' = [heap EXCEPT ![d0] = left]
      /\ tokens' = HotSpot!AddIfAbsent(tokens, a, d0) /\ evictions' = HotSpot!Evicted(tokens, tokens')
      /\ UNCHANGED <<behavior, clock, times, concurrency, hotPasses, slips>>
  BY <1>1, <1>0 DEF HotSpot!AddTokens
<1>5. RateTypes /\ RateApart
  BY DEF RatePart
<1>6. slips' \in [Args -> Nat] /\ \A d \in Args : slips'[d] = 0 => slips[d] = 0
  BY <1>4, <1>5 DEF RateTypes
<1>7. heap \in [Cells -> Int]
  BY <1>5 DEF RateTypes
<1>8. /\ hotPasses' \in [Args -> [0..HotSpot!Horizon -> Nat]]
      /\ \A d \in Args \ {a} : hotPasses'[d] = hotPasses[d]
      /\ Spent(a) \in Nat /\ Spent(a)' = Spent(a)
      /\ \A t \in 0..HotSpot!Horizon : HotSpot!PassedUntil(a, t)' = HotSpot!PassedUntil(a, t)
  <2>1. hotPasses' = hotPasses /\ hotPasses \in [Args -> [0..HotSpot!Horizon -> Nat]]
    BY <1>4, <1>5 DEF RateTypes
  <2>2. /\ Spent(a)' = Spent(a)
        /\ \A t : HotSpot!PassedUntil(a, t)' = HotSpot!PassedUntil(a, t)
    BY <2>1 DEF Spent, HotSpot!PassedUntil, HotSpot!MapThenSumSet, HotSpot!MapThenFoldSet
  <2>3. Spent(a) \in Nat
    BY <1>5, SpentIs
  <2> QED BY <2>1, <2>2, <2>3
<1> HIDE DEF x, b, t0, left
<1>10. /\ y.pc = "stamp" /\ y.arg = x.arg /\ y.batch = b /\ y.now = t0 /\ y.time = x.time
       /\ y.token = x.token /\ y \in RateRequest
  BY <1>2 DEF RateRequest, RateSteps, b, t0
<1> HIDE DEF y
<1>11. Asks(y)
  BY <1>2, <1>10 DEF Asks, WithTime, WithTokens, b, t0
<1>12. SameHands(y, x) /\ (y.arg = a \/ y.pc = "idle")
  BY <1>1, <1>10 DEF SameHands
<1>13. NewCounter(d0) /\ d0 \in Cells /\ a \notin HotSpot!ArgsOf(tokens) /\ tokens \in Seq(Pair)
  BY <1>1, <1>5, <1>0, FreshIsNew DEF NewCounter, RateTypes, x
<1>14. TokensOf(a) = {} /\ TokensOf(a)' = {d0} /\ TimeOf(a)' = TimeOf(a)
  <2> DEFINE next == HotSpot!AddIfAbsent(tokens, a, d0)
  <2>1. HotBounds
    BY DEF RateBounds
  <2>2. CountersOf(tokens, a) = {} /\ CountersOf(next, a) = {d0}
    BY <1>13, <2>1, GetsCounter
  <2> HIDE DEF next
  <2>3. tokens' = next /\ times' = times
    BY <1>4 DEF next
  <2>4. TokensOf(a) = CountersOf(tokens, a) /\ TokensOf(a)' = CountersOf(tokens', a)
    BY DEF TokensOf, CountersOf, Elements
  <2>5. TimeOf(a)' = TimeOf(a)
    BY <2>3 DEF TimeOf, Elements
  <2> QED BY <2>2, <2>3, <2>4, <2>5
<1>15. /\ evictions' \in [Args -> Nat] /\ \A d \in Args : evictions'[d] = 0 => evictions[d] = 0
       /\ req'[r] = y /\ \A q \in HotRequests \ {r} : req'[q] = req[q]
  <2>1. Distinct(tokens) /\ evictions \in [Args -> Nat] /\ HotBounds
    BY <1>5 DEF RateApart, RateTypes, RateBounds
  <2>2. evictions' \in [Args -> Nat] /\ \A d \in Args : evictions'[d] = 0 => evictions[d] = 0
    BY <1>4, <1>13, <2>1, Keeps
  <2> QED BY <1>4, <1>5, <2>2 DEF RateTypes
<1>16. ASSUME Undisturbed(a)' PROVE Kept(a)'
  <2> DEFINE n == Spent(a)
             T == TimeOf(a)
             h == heap'
             m == n'
  <2>1. Undisturbed(a) /\ Holding(a) /\ Rejecting(a)
    BY <1>2, <1>4, <1>15, <1>16 DEF Undisturbed, RatePart, Kept
  <2>2. x.time \in T /\ T' = T /\ T # {}
    BY <1>1, <1>2, <1>14, <2>1 DEF Holding, WithTime, x
  <2>3. Holding(a)'
    <3>1. T \subseteq T' /\ TokensOf(a) \subseteq TokensOf(a)'
      BY <1>14, <2>2
    <3>2. y.pc \in WithTime => y.time \in T'
      BY <1>10, <2>2
    <3>3. y.pc = "stamp"
      BY <1>10
    <3> QED BY <1>15, <2>1, <3>1, <3>2, <3>3, StillHolding DEF WithTokens
  <2>4. n = 0 /\ In(a, {"stamp"}) = {}
        /\ (\A c \in T : heap[c] >= 0 /\ heap[c] <= clock)
        /\ \A t \in 0..HotSpot!Horizon : Room(a, t, HotSpot!PassedUntil(a, t))
    BY <1>14, <2>1 DEF Rejecting
  <2>5. T \subseteq Cells
    BY OneCounter
  <2>6. d0 \notin T
    <3>1. \A e \in Elements(times) : e.cell # d0
      BY <1>5, <1>13, Cached DEF NewCounter, RateTypes
    <3> QED BY <3>1 DEF TimeOf
  <2>7. h[d0] = left /\ \A c \in T : h[c] = heap[c] /\ heap[c] \in Int
    BY <1>4, <1>7, <1>13, <2>5, <2>6
  <2>8. In(a, {"stamp"})' = {r}
    <3>1. r \in In(a, {"stamp"})'
      BY <1>1, <1>10, <1>15 DEF In
    <3>2. \A q \in HotRequests \ {r} : q \notin In(a, {"stamp"})'
      BY <1>15, <2>4 DEF In
    <3> QED BY <3>1, <3>2 DEF In
  <2>9. m = 0
    BY <1>8, <2>4
  <2>10. TimeOf(a)' = T /\ heap' = h /\ Spent(a)' = m /\ clock' = clock
    BY <1>4, <1>14
  <2> HIDE DEF T, h, m, n
  <2>11. ASSUME NEW c \in T PROVE Room(a, h[c], m + b + h[d0])
    <3> DEFINE k == h[c]
               max == HotSpot!MaxCount(a)
               added == Added(a, k)
    <3>1. k \in Int /\ k >= 0 /\ Thresholds[a] > 0
      BY <1>2, <2>4, <2>7
    <3> HIDE DEF k
    <3>2. added \in Int /\ added >= 0 /\ max \in Int
      BY <3>1, AddedIs
    <3>3. left = max - b
      BY DEF left
    <3>4. h[d0] = left
      BY <2>7
    <3> HIDE DEF max, added
    <3>5. 0 + b + (max - b) <= max + added
      BY <1>3, <3>2
    <3>6. m + b + h[d0] <= max + added
      BY <2>9, <3>3, <3>4, <3>5
    <3> QED BY <3>6 DEF Room, k, max, added
  <2> DEFINE one == {r}
             K == {d0}
  <2>12. /\ K = {} => m = 0 /\ one = {}
         /\ K # {} => T # {}
         /\ \A c \in T : h[c] >= 0 /\ h[c] <= clock
         /\ \A p, q \in one : p = q
         /\ \A d \in K : h[d] >= 0
    BY <1>3, <2>2, <2>4, <2>7
  <2>13. /\ \A d \in K : \A c \in T : one = {} => Room(a, h[c], m + h[d])
         /\ \A d \in K : \A c \in T : \A s \in one :
              \/ Room(a, h[c], m + req'[s].batch + h[d])
              \/ Room(a, req'[s].now, m + req'[s].batch + h[d])
    <3>1. req'[r].batch = b
      BY <1>10, <1>15
    <3> QED BY <2>11, <3>1
  <2>14. \A t \in 0..HotSpot!Horizon : Room(a, t, HotSpot!PassedUntil(a, t)')
    BY <1>8, <2>4
  <2>15. TokensOf(a)' = K /\ In(a, {"stamp"})' = one
    BY <1>14, <2>8
  <2> HIDE DEF one, K
  <2>16. Rejecting(a)'
    BY <2>10, <2>12, <2>13, <2>14, <2>15, RejectingNext
  <2>17. behavior' = "reject"
    BY <1>2, <1>4
  <2> QED BY <2>3, <2>16, <2>17 DEF Kept
<1>17. req[r].arg = a /\ SameHands(y, req[r]) /\ left \in Int
  BY <1>1, <1>3, <1>12 DEF x
<1> QED BY <1>4, <1>6, <1>8, <1>10, <1>11, <1>12, <1>13, <1>16, <1>17, AddsToken

(* The tokens that the first request leaves, which passes.                 *)
LEMMA FirstFillRate ==
  ASSUME RateBounds, RatePart, NEW r \in HotRequests, HotSpot!FillTokens(r),
         req[r].arg \notin HotSpot!ArgsOf(tokens)
  PROVE  RatePart'
<1> DEFINE x == req[r]
           b == x.batch
           t0 == x.now
           y == HotSpot!Idle
<1>1. PICK a \in Args : x.arg = a
  BY RequestFacts DEF HotSpot!FillTokens, Asks
<1>0. PICK d0 : d0 = HotSpot!Fresh
  OBVIOUS
<1> DEFINE left == HotSpot!MaxCount(a) - b
<1>2. /\ x.pc = "fill" /\ x \in RateRequest /\ Asks(x) /\ HandsApart(x) /\ clock \in Nat
      /\ Thresholds[a] > 0 /\ behavior = "reject" /\ b <= HotSpot!MaxCount(a)
  <2>1. x.pc = "fill" /\ x \in RateRequest /\ Asks(x) /\ HandsApart(x) /\ clock \in Nat
        /\ behavior \in {"reject", "throttling"}
    BY RequestFacts DEF HotSpot!FillTokens
  <2>2. behavior # "throttling" /\ Thresholds[a] > 0
    BY <1>1, <2>1 DEF Asks
  <2>3. b <= HotSpot!MaxCount(a)
    BY <1>1, <2>1, <2>2 DEF Asks
  <2> QED BY <2>1, <2>2, <2>3
<1>3. b \in Nat /\ t0 \in Nat /\ HotSpot!MaxCount(a) \in Nat /\ left \in Nat
  <2>1. b \in Nat /\ t0 \in Nat
    <3>1. x \in RateRequest
      BY <1>2
    <3> QED BY <3>1 DEF RateRequest
  <2> DEFINE max == HotSpot!MaxCount(a)
  <2>2. max \in Nat /\ b <= max
    BY <1>2, AddedIs
  <2> HIDE DEF max, b
  <2>3. max - b \in Nat
    BY <2>1, <2>2
  <2> QED BY <2>1, <2>2, <2>3 DEF max
<1>4. /\ req' = [req EXCEPT ![r] = y] /\ heap' = [heap EXCEPT ![d0] = left]
      /\ tokens' = HotSpot!AddIfAbsent(tokens, a, d0) /\ evictions' = HotSpot!Evicted(tokens, tokens')
      /\ hotPasses' = [hotPasses EXCEPT ![a][t0] = @ + b]
      /\ UNCHANGED <<behavior, clock, times, concurrency, slips>>
  BY <1>1, <1>0 DEF HotSpot!FillTokens, HotSpot!Pass, HotSpot!Leave, HotSpot!Slip
<1>5. RateTypes /\ RateApart
  BY DEF RatePart
<1>6. slips' \in [Args -> Nat] /\ \A d \in Args : slips'[d] = 0 => slips[d] = 0
  BY <1>4, <1>5 DEF RateTypes
<1>7. heap \in [Cells -> Int]
  BY <1>5 DEF RateTypes
<1>8. /\ hotPasses' \in [Args -> [0..HotSpot!Horizon -> Nat]]
      /\ \A d \in Args \ {a} : hotPasses'[d] = hotPasses[d]
      /\ Spent(a) \in Nat /\ Spent(a)' \in Nat /\ Spent(a)' <= Spent(a) + b
      /\ \A t \in 0..HotSpot!Horizon :
           /\ HotSpot!PassedUntil(a, t) \in Nat /\ HotSpot!PassedUntil(a, t) <= Spent(a)
           /\ HotSpot!PassedUntil(a, t)'
                = HotSpot!PassedUntil(a, t) + (IF t0 <= t THEN b ELSE 0)
  <2>1. hotPasses' = [hotPasses EXCEPT ![a][t0] = @ + b] /\ b \in Nat /\ t0 \in Nat
    BY <1>3, <1>4
  <2> HIDE DEF x, b, t0, left
  <2> QED BY <1>5, <2>1, PassRecorded
<1> HIDE DEF x, b, t0, left
<1>10. y \in RateRequest /\ Asks(y) /\ y.pc = "idle" /\ y.time = 0 /\ y.token = 0
  BY IdleFacts DEF HotSpot!Idle
<1> HIDE DEF y
<1>12. SameHands(y, x) /\ (y.arg = a \/ y.pc = "idle")
  BY <1>10 DEF SameHands
<1>13. NewCounter(d0) /\ d0 \in Cells /\ a \notin HotSpot!ArgsOf(tokens) /\ tokens \in Seq(Pair)
  BY <1>1, <1>5, <1>0, FreshIsNew DEF NewCounter, RateTypes, x
<1>14. TokensOf(a) = {} /\ TokensOf(a)' = {d0} /\ TimeOf(a)' = TimeOf(a)
  <2> DEFINE next == HotSpot!AddIfAbsent(tokens, a, d0)
  <2>1. HotBounds
    BY DEF RateBounds
  <2>2. CountersOf(tokens, a) = {} /\ CountersOf(next, a) = {d0}
    BY <1>13, <2>1, GetsCounter
  <2> HIDE DEF next
  <2>3. tokens' = next /\ times' = times
    BY <1>4 DEF next
  <2>4. TokensOf(a) = CountersOf(tokens, a) /\ TokensOf(a)' = CountersOf(tokens', a)
    BY DEF TokensOf, CountersOf, Elements
  <2>5. TimeOf(a)' = TimeOf(a)
    BY <2>3 DEF TimeOf, Elements
  <2> QED BY <2>2, <2>3, <2>4, <2>5
<1>15. /\ evictions' \in [Args -> Nat] /\ \A d \in Args : evictions'[d] = 0 => evictions[d] = 0
       /\ req'[r] = y /\ \A q \in HotRequests \ {r} : req'[q] = req[q]
  <2>1. Distinct(tokens) /\ evictions \in [Args -> Nat] /\ HotBounds
    BY <1>5 DEF RateApart, RateTypes, RateBounds
  <2>2. evictions' \in [Args -> Nat] /\ \A d \in Args : evictions'[d] = 0 => evictions[d] = 0
    BY <1>4, <1>13, <2>1, Keeps
  <2> QED BY <1>4, <1>5, <2>2 DEF RateTypes
<1>16. ASSUME Undisturbed(a)' PROVE Kept(a)'
  <2> DEFINE n == Spent(a)
             T == TimeOf(a)
             h == heap'
             m == n'
  <2>1. Undisturbed(a) /\ Holding(a) /\ Rejecting(a)
    BY <1>2, <1>4, <1>15, <1>16 DEF Undisturbed, RatePart, Kept
  <2>2. T' = T /\ T # {}
    BY <1>1, <1>2, <1>14, <2>1 DEF Holding, x
  <2>3. Holding(a)'
    <3>1. T \subseteq T' /\ TokensOf(a) \subseteq TokensOf(a)'
      BY <1>14, <2>2
    <3> QED BY <1>10, <1>15, <2>1, <3>1, StillHolding DEF WithTime, WithTokens
  <2>4. n = 0 /\ In(a, {"stamp"}) = {}
        /\ (\A c \in T : heap[c] >= 0 /\ heap[c] <= clock)
        /\ \A t \in 0..HotSpot!Horizon : Room(a, t, HotSpot!PassedUntil(a, t))
    BY <1>14, <2>1 DEF Rejecting
  <2>5. T \subseteq Cells
    BY OneCounter
  <2>6. d0 \notin T
    <3>1. \A e \in Elements(times) : e.cell # d0
      BY <1>5, <1>13, Cached DEF NewCounter, RateTypes
    <3> QED BY <3>1 DEF TimeOf
  <2>7. h[d0] = left /\ \A c \in T : h[c] = heap[c] /\ heap[c] \in Int
    BY <1>4, <1>7, <1>13, <2>5, <2>6
  <2>8. In(a, {"stamp"})' = {}
    <3>1. \A q \in HotRequests : q \notin In(a, {"stamp"})'
      BY <1>10, <1>15, <2>4 DEF In
    <3> QED BY <3>1 DEF In
  <2>9. m \in Nat /\ m <= b
    <3>1. n = 0 /\ m \in Nat /\ m <= n + b
      BY <1>8, <2>4
    <3> HIDE DEF n, m
    <3> QED BY <1>3, <3>1
  <2>10. TimeOf(a)' = T /\ heap' = h /\ Spent(a)' = m /\ clock' = clock
    BY <1>4, <1>14
  <2> HIDE DEF T, h, m, n
  <2>11. ASSUME NEW t \in Int, t >= 0 PROVE Room(a, t, m + left) /\ Room(a, t, b)
    <3> DEFINE max == HotSpot!MaxCount(a)
               added == Added(a, t)
    <3>2. added \in Int /\ added >= 0 /\ max \in Int
      BY <1>2, <2>11, AddedIs
    <3>3. left = max - b /\ b <= max
      BY <1>2 DEF left
    <3> HIDE DEF max, added
    <3>5. m + left <= max + added /\ b <= max + added
      BY <1>3, <2>9, <3>2, <3>3
    <3> QED BY <3>5 DEF Room, max, added
  <2> DEFINE none == {}
             K == {d0}
  <2>12. /\ K = {} => m = 0 /\ none = {}
         /\ K # {} => T # {}
         /\ \A c \in T : h[c] >= 0 /\ h[c] <= clock
         /\ \A p, q \in none : p = q
         /\ \A d \in K : h[d] >= 0
    BY <1>3, <2>2, <2>4, <2>7
  <2>13. /\ \A d \in K : \A c \in T : none = {} => Room(a, h[c], m + h[d])
         /\ \A d \in K : \A c \in T : \A s \in none :
              \/ Room(a, h[c], m + req'[s].batch + h[d])
              \/ Room(a, req'[s].now, m + req'[s].batch + h[d])
    <3>1. \A c \in T : h[c] \in Int /\ h[c] >= 0
      BY <2>4, <2>7
    <3>2. \A c \in T : Room(a, h[c], m + left)
      BY <2>11, <3>1
    <3> QED BY <2>7, <3>2
  <2>14. ASSUME NEW t \in 0..HotSpot!Horizon PROVE Room(a, t, HotSpot!PassedUntil(a, t)')
    <3> DEFINE u == HotSpot!PassedUntil(a, t)'
               v == HotSpot!PassedUntil(a, t)
    <3>1. v \in Nat /\ v <= n /\ u = v + (IF t0 <= t THEN b ELSE 0)
      BY <1>8, <2>14 DEF n
    <3> HIDE DEF u, v
    <3>2. u \in Int /\ u <= b
      BY <1>3, <2>4, <3>1
    <3>3. t \in Int /\ t >= 0 /\ t <= t /\ b \in Int
      <4>1. HotSpot!Horizon \in Nat
        BY DEF RateBounds, HotSpot!Horizon
      <4> QED BY <1>3, <4>1
    <3>4. Room(a, t, b)
      BY <2>11, <3>3
    <3>5. Room(a, t, u)
      BY <1>2, <3>2, <3>3, <3>4, RoomFor
    <3> QED BY <3>5 DEF u
  <2>15. TokensOf(a)' = K /\ In(a, {"stamp"})' = none
    BY <1>14, <2>8
  <2> HIDE DEF none, K
  <2>16. Rejecting(a)'
    BY <2>10, <2>12, <2>13, <2>14, <2>15, RejectingNext
  <2>17. behavior' = "reject"
    BY <1>2, <1>4
  <2> QED BY <2>3, <2>16, <2>17 DEF Kept
<1>17. req[r].arg = a /\ SameHands(y, req[r]) /\ left \in Int
  BY <1>1, <1>3, <1>12 DEF x
<1> QED BY <1>4, <1>6, <1>8, <1>10, <1>12, <1>13, <1>16, <1>17, AddsToken

(* Tokens that are there already: the request passes without taking any,   *)
(* which is a slip.                                                        *)
LEMMA FilledRate ==
  ASSUME RateBounds, RatePart, NEW r \in HotRequests, HotSpot!FillTokens(r),
         req[r].arg \in HotSpot!ArgsOf(tokens)
  PROVE  RatePart'
<1> DEFINE x == req[r]
           b == x.batch
           t0 == x.now
           y == HotSpot!Idle
<1>1. PICK a \in Args : x.arg = a
  BY RequestFacts DEF HotSpot!FillTokens, Asks
<1>2. x \in RateRequest /\ tokens \in Seq(Pair) /\ b \in Nat /\ t0 \in Nat
  <2>1. x \in RateRequest /\ tokens \in Seq(Pair)
    BY RequestFacts
  <2> QED BY <2>1 DEF RateRequest
<1>3. /\ req' = [req EXCEPT ![r] = y] /\ heap' = heap
      /\ hotPasses' = [hotPasses EXCEPT ![a][t0] = @ + b]
      /\ slips' = [slips EXCEPT ![a] = @ + 1]
      /\ tokens' = HotSpot!AddIfAbsent(tokens, a, HotSpot!Fresh)
      /\ evictions' = HotSpot!Evicted(tokens, tokens')
      /\ UNCHANGED <<behavior, clock, times, concurrency>>
  BY <1>1 DEF HotSpot!FillTokens, HotSpot!Pass, HotSpot!Leave, HotSpot!Slip
<1>4. RateTypes /\ RateApart /\ HotBounds /\ Distinct(tokens) /\ concurrency \in Seq(Pair)
      /\ evictions \in [Args -> Nat] /\ slips \in [Args -> Nat] /\ times \in Seq(Pair)
  BY DEF RatePart, RateBounds, RateApart, RateTypes
<1>5. HotSpot!Fresh \in Cells
  BY <1>2, <1>4, FreshIsFree
<1>6. tokens' \in Seq(Pair) /\ Elements(tokens') = Elements(tokens)
  BY <1>1, <1>2, <1>3, <1>4, <1>5, AddsTo
<1>7. evictions' \in [Args -> Nat] /\ \A d \in Args : evictions'[d] = 0 => evictions[d] = 0
  BY <1>1, <1>2, <1>3, <1>4, <1>5, Keeps
<1>8. y \in RateRequest /\ Asks(y) /\ HandsApart(y) /\ y.pc = "idle"
  BY IdleFacts DEF HotSpot!Idle
<1>9. /\ hotPasses' \in [Args -> [0..HotSpot!Horizon -> Nat]]
      /\ \A d \in Args \ {a} : hotPasses'[d] = hotPasses[d]
  <2> HIDE DEF x, b, t0
  <2> QED BY <1>2, <1>3, <1>4, PassRecorded
<1>10. slips' \in [Args -> Nat] /\ slips'[a] # 0 /\ \A d \in Args : slips'[d] = 0 => slips[d] = 0
  <2>1. slips[a] \in Nat /\ slips'[a] = slips[a] + 1 /\ slips' \in [Args -> Nat]
        /\ \A d \in Args \ {a} : slips'[d] = slips[d]
    BY <1>3, <1>4
  <2> QED BY <2>1
<1> HIDE DEF x, b, t0, y
<1>11. /\ req' \in [HotRequests -> RateRequest] /\ (\A q \in HotRequests : Asks(req[q]))'
       /\ req'[r] = y /\ \A q \in HotRequests \ {r} : req'[q] = req[q]
  BY <1>3, <1>4, <1>8, RequestTypes
<1>12. RateTypes'
  BY <1>3, <1>4, <1>6, <1>7, <1>9, <1>10, <1>11 DEF RateTypes, HotSpot!Horizon
<1>13. RateApart'
  BY <1>3, <1>4, <1>6, <1>8, <1>11, RequestApart
<1>14. ASSUME NEW d \in Args, Undisturbed(d)' PROVE Kept(d)'
  <2>1. d # a
    BY <1>10, <1>14 DEF Undisturbed
  <2>2. Undisturbed(d) /\ Kept(d)
    BY <1>7, <1>10, <1>14 DEF Undisturbed, RatePart
  <2>3. TimeOf(d)' = TimeOf(d) /\ TokensOf(d)' = TokensOf(d)
    BY <1>3, <1>6 DEF TimeOf, TokensOf, Elements
  <2>4. req[r].arg # d /\ req'[r].pc = "idle" /\ hotPasses'[d] = hotPasses[d]
    BY <1>1, <1>8, <1>9, <1>11, <2>1 DEF x
  <2>5. behavior' = behavior /\ clock' = clock /\ heap' = heap
    BY <1>3
  <2> QED BY <1>4, <1>11, <2>2, <2>3, <2>4, <2>5, OthersKept
<1> QED BY <1>12, <1>13, <1>14 DEF RatePart

(* Time goes on.                                                           *)
LEMMA TickRate ==
  ASSUME RateBounds, RatePart, clock' \in Nat, clock <= clock',
         UNCHANGED <<behavior, HotSpot!caches, heap, req, HotSpot!history>>
  PROVE  RatePart'
<1>1. /\ RateTypes /\ RateApart /\ clock \in Nat
      /\ UNCHANGED <<behavior, times, tokens, concurrency, heap, req, hotPasses, slips, evictions>>
  BY DEF RatePart, RateTypes, HotSpot!caches, HotSpot!history
<1>2. ASSUME NEW r \in HotRequests PROVE Asks(req[r])'
  <2>1. PICK y : y = req[r]
    OBVIOUS
  <2>2. y \in RateRequest /\ Asks(y) /\ req'[r] = y
    BY <1>1, <2>1, RequestFacts
  <2>3. PICK k \in Nat : k = y.now
    BY <2>2 DEF RateRequest
  <2>4. k <= clock => k <= clock'
    BY <1>1
  <2>5. y.pc # "idle" => y.now <= clock'
    BY <2>2, <2>3, <2>4 DEF Asks
  <2>6. behavior' = behavior
    BY <1>1
  <2> QED BY <2>2, <2>5, <2>6 DEF Asks, HotSpot!MaxCount, HotSpot!Interval
<1>3. RateTypes'
  BY <1>1, <1>2 DEF RateTypes, HotSpot!Horizon
<1>4. RateApart'
  BY <1>1 DEF RateApart, Distinct, Elements
<1>5. ASSUME NEW a \in Args, Undisturbed(a)' PROVE Kept(a)'
  <2>1. Kept(a) /\ Holding(a)
    BY <1>1, <1>5 DEF Undisturbed, RatePart, Kept
  <2>2. TimeOf(a)' = TimeOf(a) /\ TokensOf(a)' = TokensOf(a)
    BY <1>1 DEF TimeOf, TokensOf, Elements
  <2>3. Holding(a)'
    BY <1>1, <2>1, <2>2 DEF Holding
  <2> QED BY <1>1, <2>1, <2>2, <2>3, Uncounted
<1> QED BY <1>3, <1>4, <1>5 DEF RatePart

(* Every step of a rule on the rate keeps what RatePart says.              *)
LEMMA RateNext ==
  ASSUME RateBounds, RateInv, [HotSpot!Next]_(HotSpot!hsVars)
  PROVE  RateInv'
<1>0. CASE behavior = "concurrency"
  <2>1. behavior' = "concurrency"
    BY <1>0, SameBehavior
  <2> QED BY <2>1 DEF RateInv
<1>1. CASE behavior # "concurrency"
  <2>0. RatePart
    BY <1>1 DEF RateInv
  <2>1. ASSUME NEW r \in HotRequests, NEW a \in Args, NEW batch \in HotBatches,
               HotSpot!Call(r, a, batch)
        PROVE  RatePart'
    BY <2>0, <2>1, CallRate
  <2>2. ASSUME NEW r \in HotRequests, HotSpot!Step(r) PROVE RatePart'
    <3>1. req[r].pc \in RateSteps
      BY <2>0, RequestFacts DEF RateRequest
    <3>2. \/ HotSpot!ReadClock(r) \/ HotSpot!AddTime(r) \/ HotSpot!FillTokens(r)
          \/ HotSpot!LoadTime(r) \/ HotSpot!AddTokens(r) \/ HotSpot!LoadTokens(r)
          \/ HotSpot!CasRefill(r) \/ HotSpot!Stamp(r) \/ HotSpot!GetTokens(r)
          \/ HotSpot!CasTake(r) \/ HotSpot!CasTime(r) \/ HotSpot!StoreTime(r)
      BY <2>2, <3>1
         DEF HotSpot!Step, RateSteps, HotSpot!CheckConcurrency, HotSpot!CompareConcurrency,
             HotSpot!GetConcurrency, HotSpot!CountIn, HotSpot!CountOut
    <3>3. CASE HotSpot!ReadClock(r) \/ HotSpot!LoadTime(r) \/ HotSpot!LoadTokens(r)
      BY <2>0, <3>3, ReadClockRate, LoadTimeRate, LoadTokensRate
    <3>4. CASE HotSpot!AddTime(r)
      BY <2>0, <3>4, TimeThere, FirstTimeRate
    <3>5. CASE HotSpot!FillTokens(r)
      BY <2>0, <3>5, FilledRate, FirstFillRate
    <3>6. CASE HotSpot!AddTokens(r)
      BY <2>0, <3>6, TokensThere, FirstTokensRate
    <3>7. CASE HotSpot!CasRefill(r)
      BY <2>0, <3>7, FailsRate, CasRefillRate
    <3>8. CASE HotSpot!CasTake(r)
      BY <2>0, <3>8, FailsRate, CasTakeRate
    <3>9. CASE HotSpot!CasTime(r)
      BY <2>0, <3>9, FailsRate, CasTimeRate
    <3>10. CASE HotSpot!Stamp(r) \/ HotSpot!GetTokens(r) \/ HotSpot!StoreTime(r)
      BY <2>0, <3>10, StampRate, GetTokensRate, StoreTimeRate
    <3> QED BY <3>2, <3>3, <3>4, <3>5, <3>6, <3>7, <3>8, <3>9, <3>10
  <2>3. ASSUME HotSpot!Tick \/ UNCHANGED HotSpot!hsVars PROVE RatePart'
    <3>1. clock \in Nat
      BY <2>0 DEF RatePart, RateTypes
    <3>2. clock' = clock + 1 \/ clock' = clock
      BY <2>3 DEF HotSpot!Tick, HotSpot!hsVars
    <3>3. clock' \in Nat /\ clock <= clock'
      BY <3>1, <3>2
    <3>4. UNCHANGED <<behavior, HotSpot!caches, heap, req, HotSpot!history>>
      BY <2>3 DEF HotSpot!Tick, HotSpot!hsVars, HotSpot!caches, HotSpot!history
    <3> QED BY <2>0, <3>3, <3>4, TickRate
  <2>4. RatePart'
    BY <2>1, <2>2, <2>3 DEF HotSpot!Next
  <2> QED BY <2>4 DEF RateInv
<1> QED BY <1>0, <1>1

(* No counter, no request and no pass yet.                                 *)
LEMMA NothingPassed ==
  ASSUME RateBounds, hotPasses = [a \in Args |-> [t \in 0..HotSpot!Horizon |-> 0]],
         NEW a \in Args, NEW t \in 0..HotSpot!Horizon
  PROVE  HotSpot!PassedUntil(a, t) = 0
<1> DEFINE p == hotPasses[a]
           S == {n \in Nat : n \in 0..HotSpot!Horizon => Sum(p, 0..n) = 0}
<1>1. HotSpot!Horizon \in Nat /\ t \in Int /\ t \in Nat
  <2>1. HotSpot!Horizon \in Nat
    BY DEF RateBounds, HotSpot!Horizon
  <2> QED BY <2>1
<1>2. \A u \in 0..HotSpot!Horizon : p[u] = 0
  OBVIOUS
<1> HIDE DEF p
<1>3. \A n \in Nat : n \in 0..HotSpot!Horizon => Sum(p, 0..n) = 0
  <2>1. 0 \in S
    <3>1. Sum(p, {} \union {0}) = Sum(p, {}) + p[0] /\ 0..0 = {} \union {0}
      <4>1. 0 \in 0..HotSpot!Horizon
        BY <1>1
      <4>2. p[0] \in Nat /\ 0 \notin {}
        BY <1>2, <4>1
      <4> QED BY <4>2, SumAdd, FS_EmptySet
    <3>2. 0 \in 0..HotSpot!Horizon
      BY <1>1
    <3> QED BY <1>2, <3>1, <3>2, SumEmpty
  <2>2. ASSUME NEW n \in Nat, n \in S PROVE n + 1 \in S
    <3>1. ASSUME n + 1 \in 0..HotSpot!Horizon PROVE Sum(p, 0..(n + 1)) = 0
      <4>1. n \in 0..HotSpot!Horizon /\ Sum(p, 0..n) = 0
        BY <1>1, <2>2, <3>1
      <4> DEFINE A == 0..n
                 d == n + 1
      <4>8. IsFiniteSet(A)
        BY FS_Interval
      <4>9. d \notin A
        OBVIOUS
      <4>2. 0..d = A \union {d}
        OBVIOUS
      <4>3. \A x \in A \union {d} : p[x] \in Nat
        BY <1>1, <1>2, <3>1, <4>1
      <4>4. p[d] = 0
        BY <1>2, <3>1
      <4>6. Sum(p, A) = 0
        BY <4>1
      <4> HIDE DEF A, d
      <4>5. Sum(p, A \union {d}) = Sum(p, A) + p[d]
        BY <4>3, <4>8, <4>9, SumAdd
      <4>7. Sum(p, 0..d) = 0
        <5>1. Sum(p, A \union {d}) = 0
          BY <4>4, <4>5, <4>6
        <5>2. Sum(p, 0..d) = Sum(p, A \union {d})
          BY <4>2, Zenon
        <5> QED BY <5>1, <5>2
      <4> QED BY <4>7 DEF d
    <3> QED BY <3>1
  <2>3. Nat \subseteq S
    <3> HIDE DEF S
    <3> QED BY <2>1, <2>2, SetInduction
  <2> QED BY <2>3
<1>4. HotSpot!PassedUntil(a, t) = SumTo(p, t)
  BY DEF SumTo, HotSpot!PassedUntil, HotSpot!MapThenSumSet, HotSpot!MapThenFoldSet, p
<1>5. SumTo(p, t) = Sum(p, 0..t)
  BY <1>1, SumToIs
<1> QED BY <1>1, <1>3, <1>4, <1>5

(* The inductive invariant holds at first.                                 *)
LEMMA RateInit ==
  ASSUME RateBounds, HotSpot!Init
  PROVE  RateInv
<1> SUFFICES ASSUME behavior # "concurrency" PROVE RatePart
  BY DEF RateInv
<1> DEFINE i == HotSpot!Idle
<1>1. /\ behavior \in {"reject", "throttling"} /\ clock = 0 /\ times = <<>> /\ tokens = <<>>
      /\ concurrency = <<>> /\ heap = [c \in Cells |-> 0] /\ req = [r \in HotRequests |-> i]
      /\ hotPasses = [a \in Args |-> [t \in 0..HotSpot!Horizon |-> 0]]
      /\ slips = [a \in Args |-> 0] /\ evictions = [a \in Args |-> 0]
  BY DEF HotSpot!Init
<1>2. i \in RateRequest /\ i.pc = "idle" /\ \A r \in HotRequests : req[r] = i
  <2>1. i \in RateRequest /\ i.pc = "idle"
    BY DEF HotSpot!Idle, HotSpot!NoArg, RateRequest, RateSteps
  <2> QED BY <1>1, <2>1
<1> HIDE DEF i
<1>3. RateTypes
  <2>1. \A r \in HotRequests : Asks(req[r])
    BY <1>2 DEF Asks, WithTime, WithTokens
  <2> QED BY <1>1, <1>2, <2>1 DEF RateTypes
<1>4. Elements(times) = {} /\ Elements(tokens) = {}
  BY <1>1 DEF Elements
<1>5. RateApart
  BY <1>4 DEF RateApart, Distinct
<1>6. ASSUME NEW a \in Args, Undisturbed(a) PROVE Kept(a)
  <2>1. TimeOf(a) = {} /\ TokensOf(a) = {}
    BY <1>4 DEF TimeOf, TokensOf
  <2>2. In(a, {"stamp"}) = {} /\ In(a, {"store"}) = {}
    BY <1>2 DEF In
  <2>3. Holding(a)
    BY <1>2 DEF Holding, WithTime, WithTokens
  <2>4. HotSpot!Horizon \in Nat
    BY DEF RateBounds, HotSpot!Horizon
  <2>5. Spent(a) = 0 /\ \A t \in 0..HotSpot!Horizon : HotSpot!PassedUntil(a, t) = 0
    BY <1>1, <2>4, NothingPassed DEF Spent
  <2>6. Thresholds[a] > 0
    BY <1>6 DEF Undisturbed
  <2>7. ASSUME NEW t \in 0..HotSpot!Horizon PROVE Room(a, t, 0) /\ Turn(a, t, 0)
    <3>1. t \in Int /\ 0 <= t
      BY <2>4
    <3>2. Room(a, t, 0)
      BY <2>6, <3>1, AddedIs DEF Room
    <3>5. PICK batch \in HotBatches : batch \in Nat
      BY DEF RateBounds
    <3>3. 0 <= batch
      BY <3>5
    <3>4. Turn(a, t, 0)
      BY <2>6, <3>1, <3>3, TurnFirst
    <3> QED BY <3>2, <3>4
  <2>8. Rejecting(a)
    BY <2>1, <2>2, <2>5, <2>7 DEF Rejecting
  <2>9. Throttled(a)
    BY <2>1, <2>2, <2>5, <2>7 DEF Throttled
  <2> QED BY <2>3, <2>8, <2>9 DEF Kept
<1> QED BY <1>3, <1>5, <1>6 DEF RatePart

(* What has passed until a time is what the rate allows.                   *)
LEMMA TurnIsRate ==
  ASSUME RateBounds, NEW a \in Args, Thresholds[a] > 0, NEW t \in Nat, NEW n \in Nat, Turn(a, t, n)
  PROVE  n <= HotSpot!Max(HotBatches) + ((t * Thresholds[a]) \div Duration)
<1> DEFINE z == HotSpot!Max(HotBatches)
           x == t * Thresholds[a]
           j == x \div Duration
           o == x % Duration
<1>1. z \in Nat /\ Thresholds[a] \in Nat /\ Duration \in Nat \ {0}
  <2>1. HotBatches # {} /\ Thresholds \in [Args -> Int] /\ Duration \in Nat \ {0}
    BY DEF RateBounds, HotBounds
  <2>2. z \in Nat
    BY <2>1, LargestBatch
  <2> QED BY <2>1, <2>2
<1>2. x \in Int
  BY <1>1
<1>3. n * Duration <= z * Duration + x
  BY DEF Turn
<1> HIDE DEF x, z
<1>4. j \in Int /\ o \in 0..(Duration - 1) /\ x = Duration * j + o
  BY <1>1, <1>2, Division
<1> HIDE DEF j, o
<1>5. CASE n >= z + j + 1
  <2>1. (z + j + 1) * Duration <= n * Duration
    <3> DEFINE i == z + j + 1
    <3>1. i \in Int /\ i <= n
      BY <1>1, <1>4, <1>5
    <3> HIDE DEF i
    <3>2. i * Duration <= n * Duration
      BY <1>1, <3>1, Mul
    <3> QED BY <3>2 DEF i
  <2>2. (z + j + 1) * Duration = z * Duration + Duration * j + Duration
    BY <1>1, <1>4
  <2> DEFINE nd == n * Duration
             zd == z * Duration
             dj == Duration * j
             i == (z + j + 1) * Duration
  <2>3. nd \in Int /\ zd \in Int /\ dj \in Int /\ i \in Int
    BY <1>1, <1>4
  <2>4. nd <= zd + x /\ x = dj + o /\ i <= nd /\ i = zd + dj + Duration
    BY <1>3, <1>4, <2>1, <2>2
  <2> HIDE DEF nd, zd, dj, i
  <2>5. o \in Int /\ o < Duration
    BY <1>1, <1>4
  <2>6. FALSE
    BY <1>1, <1>2, <2>3, <2>4, <2>5
  <2> QED BY <2>6
<1>6. CASE ~(n >= z + j + 1)
  BY <1>1, <1>4, <1>6 DEF j, x, z
<1> QED BY <1>5, <1>6

(* ... and implies the property.                                           *)
LEMMA RateIsHeld == ASSUME RateBounds, RateInv PROVE RateHeld
<1> SUFFICES ASSUME NEW a \in Args, Thresholds[a] > 0, slips[a] = 0, evictions[a] = 0,
                    NEW t \in 0..HotSpot!Horizon
             PROVE  LET added == (t * Thresholds[a]) \div Duration IN
                      /\ behavior = "reject" =>
                           HotSpot!PassedUntil(a, t) <= HotSpot!MaxCount(a) + added
                      /\ behavior = "throttling" /\ HotSpot!Even(a) =>
                           HotSpot!PassedUntil(a, t) <= HotSpot!Max(HotBatches) + added
  BY DEF RateHeld, HotSpot!RateHeld
<1> SUFFICES ASSUME behavior # "concurrency"
             PROVE  LET added == (t * Thresholds[a]) \div Duration IN
                      /\ behavior = "reject" =>
                           HotSpot!PassedUntil(a, t) <= HotSpot!MaxCount(a) + added
                      /\ behavior = "throttling" /\ HotSpot!Even(a) =>
                           HotSpot!PassedUntil(a, t) <= HotSpot!Max(HotBatches) + added
  OBVIOUS
<1>1. RatePart /\ Kept(a) /\ RateTypes
  BY DEF RateInv, RatePart, Undisturbed
<1>2. ASSUME behavior = "reject"
      PROVE  HotSpot!PassedUntil(a, t) <= HotSpot!MaxCount(a) + ((t * Thresholds[a]) \div Duration)
  <2>1. Room(a, t, HotSpot!PassedUntil(a, t))
    BY <1>1, <1>2 DEF Kept, Rejecting
  <2> QED BY <2>1 DEF Room, Added
<1>3. ASSUME behavior = "throttling", HotSpot!Even(a)
      PROVE  HotSpot!PassedUntil(a, t) <= HotSpot!Max(HotBatches) + ((t * Thresholds[a]) \div Duration)
  <2>1. Turn(a, t, HotSpot!PassedUntil(a, t))
    BY <1>1, <1>3 DEF Kept, Throttled
  <2>2. HotSpot!PassedUntil(a, t) \in Nat
    BY <1>1, SpentIs
  <2>3. t \in Nat
    <3>1. HotSpot!Horizon \in Nat
      BY DEF RateBounds, HotSpot!Horizon
    <3> QED BY <3>1
  <2> QED BY <2>1, <2>2, <2>3, TurnIsRate
<1> QED BY <1>2, <1>3

(* For an argument that has not been thrown out of a cache and whose       *)
(* counters no two requests have changed at once, what has passed until    *)
(* any time is no more than a burst and the rate (Reject), or a batch and  *)
(* the rate (Throttling): for any requests, arguments, thresholds, batch   *)
(* sizes, bursts and durations, and any capacity of the caches.            *)
THEOREM RateAlwaysHeld ==
  ASSUME RateBounds
  PROVE  HotSpot!Spec => []RateHeld
<1>1. HotSpot!Init => RateInv
  BY RateInit
<1>2. RateInv /\ [HotSpot!Next]_(HotSpot!hsVars) => RateInv'
  BY RateNext
<1>3. RateInv => RateHeld
  BY RateIsHeld
<1> QED BY <1>1, <1>2, <1>3, PTL DEF HotSpot!Spec

=============================================================================

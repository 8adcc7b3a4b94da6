----------------------------- MODULE LeapArray -----------------------------
(***************************************************************************)
(* The statistics of a resource, infra/rate/sentinel/core/stat: a          *)
(* LeapArray of MetricBuckets that goroutines record in, and that others   *)
(* read, as a whole (BucketLeapArray) or through a window                  *)
(* (SlidingWindowMetric).                                                  *)
(*                                                                         *)
(* A MetricBucket is one counter of events, the least response time and    *)
(* the highest concurrency.  Every atomic load and store is a step; what a *)
(* reader takes from one MetricBucket is read in one.                      *)
(***************************************************************************)
EXTENDS Integers, FiniteSets, FiniteSetsExt

CONSTANTS Goroutines,
          NoGoroutine,
          SampleCount,    \* number of buckets
          BucketLength,   \* bucketLengthInMs, in units of the clock
          SecondLength,   \* a second, in units of the clock
          Values,         \* counts, response times and concurrencies
          MaxRt,          \* DefaultStatisticMaxRt
          Start,          \* the clock when the array is made
          MaxTime,        \* bound on the clock
          MaxEvents,      \* bound: values recorded
          MaxReaders      \* bound: goroutines that read at a time

VARIABLES
  now,       \* the clock
  start,     \* BucketStart of each bucket
  bucket,    \* its MetricBucket
  lock,      \* who holds updateLock
  call,      \* what each goroutine is doing
  events,    \* history: what was recorded, for which time and when
  slipped    \* history: an event was lost, or counted in another bucket

vars == <<now, start, bucket, lock, call, events, slipped>>

Buckets == 0..(SampleCount - 1)
Interval == SampleCount * BucketLength

calculateTimeIdx(t) == (t \div BucketLength) % SampleCount
calculateStartTime(t) == t - (t % BucketLength)
Second(t) == t - (t % SecondLength)

NewMetricBucket == [count |-> 0, minRt |-> MaxRt, maxConcurrency |-> 0]

Writes == {"pass", "rt", "concurrency"}
Reads == {"values", "window", "seconds"}

Idle == [pc |-> "out", op |-> "none", value |-> 0, time |-> Start,
         old |-> FALSE,    \* the MetricBucket it has loaded was replaced
         from |-> 0, to |-> MaxTime, \* starts that the predicate lets through
         span |-> Interval, \* length of what it reads
         left |-> {}, picked |-> {}, secs |-> [i \in Buckets |-> 0], taken |-> {},
         torn |-> FALSE]   \* a bucket it has read was being reset

(* The bucket and the start that a goroutine's time calls for.             *)
Idx(g) == calculateTimeIdx(call[g].time)
bucketStart(g) == calculateStartTime(call[g].time)

(* A bucket has its new start, and still its old MetricBucket.             *)
HalfReset(i) == \E g \in Goroutines : call[g].pc = "value" /\ Idx(g) = i

At(g, label) == call[g].pc = label
Goto(g, label) == call' = [call EXCEPT ![g].pc = label]

(* The first start at or after that of now for each bucket: those after    *)
(* the current one begin in the future.                                    *)
Init ==
  /\ now = Start
  /\ start = [i \in Buckets |->
       calculateStartTime(Start)
         + BucketLength * ((i - calculateTimeIdx(Start) + SampleCount) % SampleCount)]
  /\ bucket = [i \in Buckets |-> NewMetricBucket]
  /\ lock = NoGoroutine
  /\ call = [g \in Goroutines |-> Idle]
  /\ events = {}
  /\ slipped = FALSE

Tick ==
  /\ now < MaxTime
  /\ now' = now + 1
  /\ UNCHANGED <<start, bucket, lock, call, events, slipped>>

-----------------------------------------------------------------------------
(* Calls *)

Begin(g, new) ==
  /\ At(g, "out")
  /\ new.op \in Writes \/ Cardinality({x \in Goroutines : call[x].op \in Reads}) < MaxReaders
  /\ call' = [call EXCEPT ![g] = new]
  /\ UNCHANGED <<now, start, bucket, lock, events, slipped>>

Pending == Cardinality({g \in Goroutines : call[g].op \in Writes})

Write(g, op, v) ==
  /\ Cardinality(events) + Pending < MaxEvents
  /\ Begin(g, [Idle EXCEPT !.pc = "eq", !.op = op, !.value = v, !.time = now])

AddCount(g, v) == \E event \in {"pass", "rt"} : Write(g, event, v)

UpdateConcurrency(g, v) == Write(g, "concurrency", v)

(* Count, MinRt, MaxConcurrency and Values of the BucketLeapArray: they    *)
(* first see to the bucket of the time.                                    *)
ReadAll(g) == Begin(g, [Idle EXCEPT !.pc = "eq", !.op = "values", !.time = now])

CheckValidityForStatistic(samples, interval) ==
  interval # 0 /\ samples # 0 /\ interval % samples = 0

CheckValidityForReuseStatistic(samples, interval) ==
  /\ CheckValidityForStatistic(samples, interval)
  /\ CheckValidityForStatistic(SampleCount, Interval)
  /\ Interval % interval = 0
  /\ (interval \div samples) % BucketLength = 0

(* The windows that can be put over the array: the number of samples of a  *)
(* window counts for GetPreviousQPS only.                                  *)
Windows ==
  {w \in [samples : 1..SampleCount, interval : 1..Interval] :
     CheckValidityForReuseStatistic(w.samples, w.interval)}

getBucketStartRange(t, w) ==
  LET end == calculateStartTime(t) IN <<end - w.interval + BucketLength, end>>

getSatisfiedBuckets(g, t, w) ==
  LET range == getBucketStartRange(t, w)
  IN Begin(g, [Idle EXCEPT !.pc = "scan", !.op = "window", !.time = t, !.span = w.interval,
                           !.from = range[1], !.to = range[2], !.left = Buckets])

(* GetSum, GetQPS, GetMaxOfSingleBucket, MinRT and MaxConcurrency.         *)
ReadWindow(g, w) == getSatisfiedBuckets(g, now, w)

GetPreviousQPS(g, w) == getSatisfiedBuckets(g, now - (w.interval \div w.samples), w)

(* The whole seconds since the last time, for the metric log.              *)
SecondMetricsOnCondition(g, lastFetchTime) ==
  /\ lastFetchTime < Second(now)
  /\ Begin(g, [Idle EXCEPT !.pc = "scan", !.op = "seconds", !.time = now, !.left = Buckets,
                           !.from = lastFetchTime, !.to = Second(now) - 1])

-----------------------------------------------------------------------------
(* currentBucketOfTime *)

(* The bucket has been found, or the time is already behind it: the event  *)
(* will be recorded, or is not; a reader goes on in any case.              *)
Found(g) ==
  call' = [call EXCEPT ![g].pc = IF call[g].op \in Writes THEN "load" ELSE "scan",
                       ![g].left = IF call[g].op \in Writes THEN {} ELSE Buckets]

NotFound(g) ==
  IF call[g].op \in Writes THEN call' = [call EXCEPT ![g] = Idle] ELSE Found(g)

CompareEqual(g) ==
  /\ At(g, "eq")
  /\ IF bucketStart(g) = start[Idx(g)] THEN Found(g) ELSE Goto(g, "gt")
  /\ UNCHANGED <<now, start, bucket, lock, events, slipped>>

CompareGreater(g) ==
  /\ At(g, "gt")
  /\ Goto(g, IF bucketStart(g) > start[Idx(g)] THEN "lock" ELSE "lt")
  /\ UNCHANGED <<now, start, bucket, lock, events, slipped>>

(* With one bucket, a time before its start is counted in it all the same. *)
CompareLess(g) ==
  /\ At(g, "lt")
  /\ IF bucketStart(g) < start[Idx(g)]
     THEN IF SampleCount = 1 THEN Found(g) ELSE NotFound(g)
     ELSE Goto(g, "eq")
  /\ UNCHANGED <<now, start, bucket, lock, events, slipped>>

(* When it fails, Gosched and another round.                               *)
TryLock(g) ==
  /\ At(g, "lock")
  /\ IF lock = NoGoroutine
     THEN lock' = g /\ Goto(g, "store")
     ELSE Goto(g, "eq") /\ UNCHANGED lock
  /\ UNCHANGED <<now, start, bucket, events, slipped>>

(* ResetBucketTo stores the start first.  It does not look whether someone *)
(* else has reset the bucket since CompareGreater.                         *)
ResetStart(g) ==
  /\ At(g, "store")
  /\ start' = [start EXCEPT ![Idx(g)] = bucketStart(g)]
  /\ slipped' = (slipped \/ start[Idx(g)] >= bucketStart(g))
  /\ Goto(g, "value")
  /\ UNCHANGED <<now, bucket, lock, events>>

(* As ResetValue, if the MetricBucket were kept (mutant).                  *)
ResetNothing(g) ==
  /\ At(g, "value")
  /\ Goto(g, "unlock")
  /\ UNCHANGED <<now, start, bucket, lock, events, slipped>>

Loaded(x, i) == call[x].pc \in {"add", "compare", "keep"} /\ Idx(x) = i

(* Then a new MetricBucket: whoever has loaded the old one records in vain.*)
ResetValue(g) ==
  /\ At(g, "value")
  /\ bucket' = [bucket EXCEPT ![Idx(g)] = NewMetricBucket]
  /\ call' = [x \in Goroutines |->
       IF x = g THEN [call[x] EXCEPT !.pc = "unlock"]
       ELSE [call[x] EXCEPT !.old = @ \/ Loaded(x, Idx(g))]]
  /\ UNCHANGED <<now, start, lock, events, slipped>>

Unlock(g) ==
  /\ At(g, "unlock")
  /\ lock' = NoGoroutine
  /\ Found(g)
  /\ UNCHANGED <<now, start, bucket, events, slipped>>

-----------------------------------------------------------------------------
(* Recording *)

LoadValue(g) ==
  /\ At(g, "load")
  /\ Goto(g, IF call[g].op = "pass" THEN "add" ELSE "compare")
  /\ slipped' = (slipped \/ HalfReset(Idx(g)))
  /\ UNCHANGED <<now, start, bucket, lock, events>>

(* The value is recorded, in a bucket or in vain, and the call returns.    *)
Record(g) ==
  /\ LET event(n) == [op |-> call[g].op, value |-> call[g].value, time |-> call[g].time,
                      at |-> now, n |-> n]
     IN events' = events \cup {event(Min({n \in 1..MaxEvents : event(n) \notin events}))}
  /\ call' = [call EXCEPT ![g] = Idle]

Store(g, new) ==
  bucket' = IF call[g].old THEN bucket ELSE [bucket EXCEPT ![Idx(g)] = new]

Mine(g) == bucket[Idx(g)]

(* As Add, if the event were counted twice (mutant).                       *)
AddTwice(g) ==
  /\ At(g, "add")
  /\ Store(g, [Mine(g) EXCEPT !.count = @ + 2 * call[g].value])
  /\ slipped' = (slipped \/ start[Idx(g)] # bucketStart(g))
  /\ Record(g)
  /\ UNCHANGED <<now, start, lock>>

Add(g) ==
  /\ At(g, "add")
  /\ Store(g, [Mine(g) EXCEPT !.count = @ + call[g].value])
  /\ slipped' = (slipped \/ start[Idx(g)] # bucketStart(g))
  /\ Record(g)
  /\ UNCHANGED <<now, start, lock>>

(* AddRt and UpdateConcurrency compare, and store without another look. An *)
(* old MetricBucket is not looked at: nobody reads it any more.            *)
Beats(g) ==
  IF call[g].op = "rt" THEN call[g].value < Mine(g).minRt
  ELSE call[g].value > Mine(g).maxConcurrency

CompareValue(g) ==
  /\ At(g, "compare")
  /\ IF Beats(g) \/ call[g].old THEN Goto(g, "keep") /\ UNCHANGED events ELSE Record(g)
  /\ UNCHANGED <<now, start, bucket, lock, slipped>>

StoreValue(g) ==
  /\ At(g, "keep")
  /\ Store(g, IF call[g].op = "rt" THEN [Mine(g) EXCEPT !.minRt = call[g].value]
              ELSE [Mine(g) EXCEPT !.maxConcurrency = call[g].value])
  /\ Record(g)
  /\ UNCHANGED <<now, start, lock, slipped>>

-----------------------------------------------------------------------------
(* Reading *)

(* now - start, of unsigned integers: a start in the future is far away.   *)
isBucketDeprecated(t, i) == start[i] > t \/ t - start[i] > Interval

NextBucket(g) == Min(call[g].left)

(* valuesWithTime and ValuesConditional, a bucket at a time.  A start that *)
(* changes between the two looks at it is one at the second, or none.      *)
Scan(g) ==
  /\ At(g, "scan")
  /\ call[g].left # {}
  /\ LET i == NextBucket(g)
         fits == ~isBucketDeprecated(call[g].time, i) /\ start[i] \in call[g].from..call[g].to
     IN call' = [call EXCEPT ![g].left = @ \ {i}, ![g].picked = IF fits THEN @ \cup {i} ELSE @]
  /\ UNCHANGED <<now, start, bucket, lock, events, slipped>>

ScanEnds(g) ==
  /\ At(g, "scan")
  /\ call[g].left = {}
  /\ call' = [call EXCEPT ![g].pc = IF call[g].op = "seconds" THEN "group" ELSE "read",
                          ![g].left = call[g].picked, ![g].picked = {}]
  /\ UNCHANGED <<now, start, bucket, lock, events, slipped>>

(* The second of a bucket is that of its start by now.                     *)
Group(g) ==
  /\ At(g, "group")
  /\ LET i == NextBucket(g) IN
     IF call[g].left = {}
     THEN call' = [call EXCEPT ![g].pc = "read", ![g].left = call[g].picked, ![g].picked = {}]
     ELSE call' = [call EXCEPT ![g].left = @ \ {i}, ![g].picked = @ \cup {i},
                               ![g].secs[i] = Second(start[i])]
  /\ UNCHANGED <<now, start, bucket, lock, events, slipped>>

Take(g) ==
  /\ At(g, "read")
  /\ call[g].left # {}
  /\ LET i == NextBucket(g)
     IN call' = [call EXCEPT ![g].left = @ \ {i}, ![g].torn = @ \/ HalfReset(i),
                             ![g].taken = @ \cup {[of |-> i, sec |-> call[g].secs[i],
                                                   mb |-> bucket[i]]}]
  /\ UNCHANGED <<now, start, bucket, lock, events, slipped>>

(* What the reads make of the MetricBuckets.                               *)
count(taken) == MapThenSumSet(LAMBDA b : b.mb.count, taken)
GetMaxOfSingleBucket(g) == Max({b.mb.count : b \in call[g].taken} \cup {0})
MinRt(g) == Min({b.mb.minRt : b \in call[g].taken} \cup {MaxRt})
MinRT(g) == Max({MinRt(g), 1})
MaxConcurrency(taken) == Max({b.mb.maxConcurrency : b \in taken} \cup {0})

metricItemFromBuckets(second, taken) ==
  [Timestamp |-> second, PassQps |-> count(taken), Concurrency |-> MaxConcurrency(taken)]

MetricItems(g) ==
  {metricItemFromBuckets(s, {b \in call[g].taken : b.sec = s}) : s \in {b.sec : b \in call[g].taken}}

Return(g) ==
  /\ At(g, "read")
  /\ call[g].left = {}
  /\ call' = [call EXCEPT ![g] = Idle]
  /\ UNCHANGED <<now, start, bucket, lock, events, slipped>>

Step(g) ==
  \/ CompareEqual(g) \/ CompareGreater(g) \/ CompareLess(g)
  \/ TryLock(g) \/ ResetStart(g) \/ ResetValue(g) \/ Unlock(g)
  \/ LoadValue(g) \/ Add(g) \/ CompareValue(g) \/ StoreValue(g)
  \/ Scan(g) \/ ScanEnds(g) \/ Group(g) \/ Take(g) \/ Return(g)

Call(g) ==
  \/ \E v \in Values : AddCount(g, v) \/ UpdateConcurrency(g, v)
  \/ ReadAll(g)
  \/ \E w \in Windows : ReadWindow(g, w) \/ GetPreviousQPS(g, w)
  \/ \E last \in {Second(t) : t \in Start..MaxTime} : SecondMetricsOnCondition(g, last)

Next == \/ Tick
        \/ \E g \in Goroutines : Step(g) \/ Call(g)

Spec == Init /\ [][Next]_vars

-----------------------------------------------------------------------------
(* Properties *)

(* Types; a bucket only ever has starts that belong to it.                 *)
TypeOK ==
  /\ now \in Start..MaxTime
  /\ start \in [Buckets -> Nat]
  /\ \A i \in Buckets : calculateTimeIdx(start[i]) = i /\ start[i] % BucketLength = 0
  /\ \A i \in Buckets : bucket[i].count \in Nat /\ bucket[i].minRt \in 0..MaxRt
  /\ \A g \in Goroutines : call[g].pc \in {"store", "value", "unlock"} <=> lock = g

Total(es) == MapThenSumSet(LAMBDA e : e.value, es)
Recorded(op, low) == {e \in events : e.op = op /\ e.at >= low}

(* The first moment that counts for what a goroutine reads.                *)
Low(g) == IF call[g].op = "values" THEN call[g].time - Interval
          ELSE IF call[g].op = "seconds" THEN call[g].from
          ELSE bucketStart(g) + BucketLength - call[g].span

(* A read never returns more than what was recorded since its window       *)
(* began, unless one of its buckets was between the two stores of a reset: *)
(* nothing of an earlier cycle counts, although buckets are reset while    *)
(* others record in them and read them.  The same goes for each second of  *)
(* the metric log.                                                         *)
WithinWindow ==
  \A g \in Goroutines :
    LET taken == call[g].taken IN
    (At(g, "read") /\ call[g].left = {} /\ ~call[g].torn) =>
      /\ count(taken) <= Total(Recorded("pass", Low(g)))
      /\ GetMaxOfSingleBucket(g) <= count(taken)
      /\ MinRT(g) \in {MaxRt} \cup {Max({e.value, 1}) : e \in Recorded("rt", Low(g))}
      /\ MaxConcurrency(taken) \in {0} \cup {e.value : e \in Recorded("concurrency", Low(g))}
      /\ call[g].op = "seconds" =>
           \A item \in MetricItems(g) :
             item.PassQps <= Total(Recorded("pass", item.Timestamp))

(* No event recorded is lost or counted in another bucket, unless a bucket *)
(* was reset by a goroutine that came too late to do so, or someone found  *)
(* the bucket before a reset and recorded after it, or loaded it in the    *)
(* middle of one.                                                          *)
ExactUnlessSlip ==
  slipped \/ \A i \in Buckets :
    HalfReset(i) \/ bucket[i].count =
      Total({e \in events : e.op = "pass" /\ calculateStartTime(e.time) = start[i]})

(* The statistics that rules decide with are neither more nor less than    *)
(* what was recorded in their window, but for the races named above.       *)
StatisticsExact == WithinWindow /\ ExactUnlessSlip

=============================================================================

----------------------------- MODULE MetricLog -----------------------------
(***************************************************************************)
(* The metric log of sentinel (core/log/metric): once a second the         *)
(* aggregator takes the finished seconds of every resource node, the write *)
(* loop appends them to the current file, with an index of seconds beside  *)
(* it, files roll by day and by size and the oldest are removed, and a     *)
(* searcher looks a second up in the index files and reads on from there.  *)
(*                                                                         *)
(* A file is named by its day and its number.  A line of it stands for an  *)
(* item <<second, resource>>, an index entry is <<second, offset>> and     *)
(* offsets count lines and entries.  The process may crash and start again *)
(* at any moment; the files stay.                                          *)
(***************************************************************************)
EXTENDS Integers, Sequences, SequencesExt, FiniteSets

CONSTANTS Resources,
          Traffic,        \* the sets of resources a second may have traffic on
          Queries,        \* the searches: [b, e, max, res]
          SecsPerDay,     \* 86400
          Window,         \* seconds the statistics of a node reach back
          MaxSingleSize,  \* maxSingleSize, in lines
          MaxFileAmount,  \* maxFileAmount
          MaxSec,         \* bound: last second
          MaxCrashes,     \* bound: crashes
          MaxFaults,      \* bound: index files that cannot be created
          MaxSearches     \* bound: searches

VARIABLES
  clock,     \* the current second
  active,    \* by finished second, the resources with traffic not yet fetched
  fetched,   \* lastFetchTime
  queue,     \* the seconds in writeChan, with their items
  log,       \* the files and the DefaultMetricLogWriter
  cache,     \* cachedPos of the searcher
  search,    \* the search in progress, or the last one
  counts     \* crashes, faults and searches so far

logging == <<active, fetched, queue, log>>
searching == <<cache, search>>
vars == <<clock, logging, searching, counts>>

NoName == <<-1, -1>>
NoCache == [file |-> NoName, off |-> 0, sec |-> 0]
NoSearch == [pc |-> "idle", cold |-> TRUE, b |-> 0, e |-> 0, max |-> 0, res |-> "", names |-> <<>>,
             i |-> 1, off |-> 0, items |-> <<>>, seen |-> {}]

Init ==
  /\ clock = 0
  /\ active = [s \in 0..MaxSec |-> {}] /\ fetched = -1 /\ queue = <<>>
  /\ log = [files |-> <<>>, cur |-> NoName, up |-> FALSE, open |-> FALSE, latest |-> 0]
  /\ cache = NoCache /\ search = NoSearch
  /\ counts = [crashes |-> 0, faults |-> 0, searches |-> 0]

-----------------------------------------------------------------------------
(* Files                                                                   *)
Day(sec) == sec \div SecsPerDay

(* filenameComparator: by date, then by number.                            *)
Before(f, g) == f[1] < g[1] \/ (f[1] = g[1] /\ f[2] < g[2])
listMetricFiles(files) == SetToSortSeq(DOMAIN files, Before)

NewFile == [items |-> <<>>, idx |-> <<>>, indexed |-> TRUE]

(* The last file of the day is followed by the next number; the first has  *)
(* none, here 0.                                                           *)
nextFileNameOfTime(files, sec) ==
  LET today == SelectSeq(listMetricFiles(files), LAMBDA f : f[1] = Day(sec)) IN
    IF today = <<>> THEN <<Day(sec), 0>> ELSE <<Day(sec), Last(today)[2] + 1>>

(* removeDeprecatedFiles makes room for the file to come.                  *)
Deprecated(files) ==
  SubSeq(listMetricFiles(files), 1, Cardinality(DOMAIN files) - MaxFileAmount + 1)

(* rollToNextFile: an index file that was not there to be removed ends it, *)
(* and one that cannot be created leaves the writer with closed files.     *)
rollToNextFile(l, sec, creates) ==
  LET gone == Deprecated(l.files)
      kept == Restrict(l.files, DOMAIN l.files \ ToSet(gone))
      name == nextFileNameOfTime(l.files, sec)
  IN CASE gone # <<>> /\ ~l.files[Last(gone)].indexed -> [l EXCEPT !.files = kept, !.err = TRUE]
       [] (gone = <<>> \/ l.files[Last(gone)].indexed) /\ creates ->
            [l EXCEPT !.files = kept @@ (name :> NewFile), !.cur = name, !.open = TRUE]
       [] OTHER ->
            [l EXCEPT !.files = kept @@ (name :> [NewFile EXCEPT !.indexed = FALSE]),
                      !.open = FALSE, !.err = TRUE]

-----------------------------------------------------------------------------
(* DefaultMetricLogWriter                                                  *)
writeIndex(l, sec) ==
  [l EXCEPT !.files[l.cur].idx = Append(@, <<sec, Len(l.files[l.cur].items)>>)]

writeItemsAndFlush(l, sec, resources) ==
  [l EXCEPT !.files[l.cur].items = @ \o SetToSeq({<<sec, r>> : r \in resources})]

isNewDay(last, sec) == Day(sec) > Day(last)

(* A new second is indexed, and then, if its day is new, opens a new file. *)
IndexSecond(l, sec, creates) ==
  IF sec = l.latest THEN l
  ELSE LET Roll(a) == IF isNewDay(l.latest, sec) THEN rollToNextFile(a, sec, creates) ELSE a IN
         Roll(writeIndex(l, sec))

rollFileIfSizeExceeded(l, sec, creates) ==
  IF Len(l.files[l.cur].items) >= MaxSingleSize THEN rollToNextFile(l, sec, creates) ELSE l

(* Write: the first error ends it, before the second is noted as written.  *)
Write(l, sec, resources, creates) ==
  LET Note(a) == IF a.err THEN a ELSE [a EXCEPT !.latest = sec]
      Items(a) ==
        IF a.err THEN a
        ELSE Note(rollFileIfSizeExceeded(writeItemsAndFlush(a, sec, resources), sec, creates))
  IN IF ~l.open \/ sec < l.latest THEN l ELSE Items(IndexSecond(l, sec, creates))

NoErr(l) == [files |-> l.files, cur |-> l.cur, up |-> l.up, open |-> l.open, latest |-> l.latest]
WithErr(l) == l @@ [err |-> FALSE]

Fault(creates) ==
  /\ ~creates => counts.faults < MaxFaults
  /\ counts' = [counts EXCEPT !.faults = IF creates THEN @ ELSE @ + 1]

-----------------------------------------------------------------------------
(* The process                                                             *)
(* initialize: a new file, and its second counts as written.             *)
initialize(l, sec, creates) ==
  LET new == rollToNextFile(WithErr(l), sec, creates) IN
    [NoErr(new) EXCEPT !.open = ~new.err, !.latest = sec]

(* Without a writer there are no tasks.  With closed files they  *)
(* do nothing.                                                             *)
InitTask(creates) ==
  /\ ~log.up /\ Fault(creates)
  /\ log' = [initialize(log, clock, creates) EXCEPT !.up = TRUE]
  /\ UNCHANGED <<clock, active, fetched, queue, searching>>

(* A second ends, with traffic on some resources if the process runs.      *)
Tick(resources) ==
  /\ clock < MaxSec
  /\ resources # {} => log.up
  /\ clock' = clock + 1
  /\ active' = [active EXCEPT ![clock] = resources]
  /\ UNCHANGED <<fetched, queue, log, searching, counts>>

Crash ==
  /\ log.up /\ counts.crashes < MaxCrashes
  /\ log' = [log EXCEPT !.up = FALSE]
  /\ active' = [s \in 0..MaxSec |-> {}] /\ fetched' = -1 /\ queue' = <<>>
  /\ counts' = [counts EXCEPT !.crashes = @ + 1]
  /\ UNCHANGED <<clock, searching>>

isItemTimestampInTime(sec) == sec >= fetched /\ sec < clock

(* doAggregate, with the items a node still has: the seconds in order,     *)
(* as the write loop sorts them.                                           *)
doAggregate ==
  /\ log.up /\ log.open /\ clock > fetched
  /\ LET secs == {s \in 0..MaxSec : isItemTimestampInTime(s) /\ s >= clock - Window /\ active[s] # {}}
     IN queue' = queue \o [i \in 1..Cardinality(secs) |->
                             LET s == SetToSortSeq(secs, <)[i] IN <<s, active[s]>>]
  /\ fetched' = clock /\ active' = [s \in 0..MaxSec |-> {}]
  /\ UNCHANGED <<clock, log, searching, counts>>

(* writeTaskLoop                                                           *)
WriteTask(creates) ==
  /\ log.up /\ queue # <<>> /\ Fault(creates)
  /\ log' = NoErr(Write(WithErr(log), Head(queue)[1], Head(queue)[2], creates))
  /\ queue' = Tail(queue)
  /\ UNCHANGED <<clock, active, fetched, searching>>

-----------------------------------------------------------------------------
(* DefaultMetricSearcher and its reader                                    *)
Stored(files) == UNION {ToSet(files[f].items) : f \in DOMAIN files}

Usable(f) == f \in DOMAIN log.files /\ log.files[f].indexed

(* isPositionInTimeFor: the cached entry is still where it was.            *)
isPositionInTimeFor(b) ==
  /\ b >= cache.sec /\ Usable(cache.file)
  /\ LET idx == log.files[cache.file].idx IN
       cache.off + 1 \in DOMAIN idx /\ idx[cache.off + 1][1] = cache.sec

(* getOffsetStartAndFileIdx: the first file that is not the cached one.    *)
getOffsetStartAndFileIdx(names, b) ==
  LET others == {j \in DOMAIN names : names[j] # cache.file} IN
    IF isPositionInTimeFor(b) /\ others # {}
    THEN [i |-> Min(others), off |-> cache.off] ELSE [i |-> 1, off |-> 0]

(* FindByTimeAndResource has an end and perhaps a resource ("": all),      *)
(* FindFromTimeWithMaxLines a number of lines.                             *)
Find(b, e, max, res) ==
  /\ search.pc \in {"idle", "done", "failed"} /\ counts.searches < MaxSearches
  /\ LET names == listMetricFiles(log.files)
         from == getOffsetStartAndFileIdx(names, b)
     IN search' = [pc |-> "find", cold |-> ~isPositionInTimeFor(b), b |-> b, e |-> e, max |-> max,
                   res |-> res, names |-> names, i |-> from.i, off |-> from.off, items |-> <<>>,
                   seen |-> Stored(log.files)]
  /\ counts' = [counts EXCEPT !.searches = @ + 1]
  /\ UNCHANGED <<clock, logging, cache>>

(* findOffsetToStart: the first entry that is not before the beginning.    *)
findOffsetToStart ==
  /\ search.pc = "find" /\ search.i <= Len(search.names)
  /\ LET f == search.names[search.i]
         idx == IF Usable(f) THEN log.files[f].idx ELSE <<>>
         found == {k \in DOMAIN idx : k > search.off /\ idx[k][1] >= search.b}
     IN CASE Usable(f) /\ found # {} ->
               /\ cache' = [file |-> f, off |-> Min(found) - 1, sec |-> idx[Min(found)][1]]
               /\ search' = [search EXCEPT !.pc = "read", !.off = idx[Min(found)][2]]
          [] Usable(f) /\ found = {} ->
               /\ cache' = [cache EXCEPT !.file = NoName, !.off = Max({search.off, Len(idx)})]
               /\ search' = [search EXCEPT !.i = @ + 1]
          [] OTHER ->
               /\ cache' = [cache EXCEPT !.file = NoName]
               /\ search' = [search EXCEPT !.i = @ + 1]
  /\ UNCHANGED <<clock, logging, counts>>

(* No file is left to look into or to read.                                *)
SearchEnds ==
  /\ search.pc \in {"find", "read"} /\ search.i > Len(search.names)
  /\ search' = [search EXCEPT !.pc = "done"]
  /\ UNCHANGED <<clock, logging, cache, counts>>

(* readMetricsInOneFileByEndTime: up to the first item out of the range.   *)
(* prev is what other files gave, for the reader by lines.                 *)
readMetricsInOneFileByEndTime(items, prev) ==
  LET out == {k \in DOMAIN items : items[k][1] \notin search.b .. search.e} IN
    [n |-> IF out = {} THEN Len(items) ELSE Min(out) - 1, more |-> out = {}]

(* As readMetricsInOneFile, if it stopped in the middle of a second        *)
(* (mutant).                                                               *)
readMetricsCut(items, prev) ==
  LET n == Min({Len(items), search.max - Len(prev)}) IN
    [n |-> n, more |-> Len(prev) + n < search.max]

(* readMetricsInOneFile: up to a new second, once there are enough lines.  *)
readMetricsInOneFile(items, prev) ==
  LET all == prev \o items
      out == {k \in DOMAIN items :
                LET m == Len(prev) + k IN
                  m > search.max /\ (m = 1 \/ all[m][1] # all[m - 1][1])}
  IN [n |-> IF out = {} THEN Len(items) ELSE Min(out) - 1,
      more |-> out = {} /\ Len(all) < search.max]

(* The next file of the list; one that has been removed fails the search.  *)
ReadFile ==
  /\ search.pc = "read" /\ search.i <= Len(search.names)
  /\ LET f == search.names[search.i] IN
       IF f \notin DOMAIN log.files THEN search' = [search EXCEPT !.pc = "failed", !.items = <<>>]
       ELSE LET items == SubSeq(log.files[f].items, search.off + 1, Len(log.files[f].items))
                read == IF search.max = 0 THEN readMetricsInOneFileByEndTime(items, search.items)
                        ELSE readMetricsInOneFile(items, search.items)
                mine == SelectSeq(SubSeq(items, 1, read.n),
                                  LAMBDA x : search.res \in {"", x[2]})
            IN search' = [search EXCEPT !.items = @ \o mine, !.off = 0, !.i = @ + 1,
                                        !.pc = IF read.more THEN "read" ELSE "done"]
  /\ UNCHANGED <<clock, logging, cache, counts>>

Next ==
  \/ \E creates \in BOOLEAN : InitTask(creates) \/ WriteTask(creates)
  \/ \E resources \in Traffic : Tick(resources)
  \/ Crash \/ doAggregate
  \/ \E q \in Queries : Find(q.b, q.e, q.max, q.res)
  \/ findOffsetToStart \/ SearchEnds \/ ReadFile

Spec == Init /\ [][Next]_vars

-----------------------------------------------------------------------------
(* What a search has to find: the items that were there when it began and  *)
(* are still there, if an index still has an entry from the beginning of   *)
(* the search to their second.  The second a writer starts in has none.    *)
Due(x) ==
  /\ x[1] \in search.b .. search.e /\ search.res \in {"", x[2]}
  /\ x \in search.seen \cap Stored(log.files)
  /\ \E f \in DOMAIN log.files : \E k \in DOMAIN log.files[f].idx :
       log.files[f].idx[k][1] \in search.b .. x[1]

Finds ==
  search.pc = "done" =>
    /\ \A x \in search.seen : Due(x) =>
         \/ x \in ToSet(search.items)
         \/ search.max > 0 /\ Len(search.items) >= search.max
              /\ x[1] > Last(search.items)[1]
    /\ \A x \in ToSet(search.items) :
         x[1] \in search.b .. search.e /\ search.res \in {"", x[2]}
    /\ \A m, n \in DOMAIN search.items : m < n => search.items[m] # search.items[n]

(* A search that starts at the first file finds what it has to, while the  *)
(* writer goes on, rolls and removes files (searcher.go:64-92).  One by    *)
(* lines gives whole seconds (reader.go:128).                              *)
ColdSearchFinds == search.cold => Finds

(* "Try to position the latest file index and offset from the cache        *)
(* (fast-path)" (searcher.go:69): a search that starts from the cached     *)
(* position finds what it would find from the first file.                  *)
WarmSearchFinds == Finds
=============================================================================

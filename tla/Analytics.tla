------------------------------ MODULE Analytics ------------------------------
(***************************************************************************)
(* The threat patterns of storage/analytics.py over the rows LogBatches    *)
(* writes.  A worker of the web process, and the command line, recompute   *)
(* each kind of bucket over its own window: they delete the buckets that   *)
(* start in the window and insert what the raw rows of the window give.    *)
(* Raw rows are kept for a few days only, buckets for much longer.  Time   *)
(* is counted in parts of an hourly bucket.                                *)
(***************************************************************************)
EXTENDS LogBatches, Integers, FiniteSets

CONSTANTS
  Actor,      \* the source address of each row
  Reasons,    \* the reasons of each row, a sequence
  Rank,       \* the rank of each reason; 4 for the positive reputations
  Width, Lookback, Keep, \* per kind: bucket width, _LOOKBACK, _RETENTION
  Shift,      \* of the weekly buckets
  DaysPerWeek, EpochWeekday, \* the calendar: the day of the week the epoch falls on
  RawKeep,    \* IDS_LOG_RETENTION_DAYS
  Interval,   \* between two runs of the worker
  Backfills,  \* the windows the command line may ask for; 0 without --backfill
  Bounds      \* bounds of a behaviour: its rows, the clock, the age of a packet, the runs
              \* out of turn, and whether anything fails

Kinds == <<"hourly", "daily", "weekly">>
Kind  == {Kinds[i] : i \in DOMAIN Kinds}

ASSUME AnalyticsAssumption ==
  /\ \A k \in Kind : Width[k] \in Nat \ {0} /\ Lookback[k] \in Nat /\ Keep[k] \in Nat
  /\ Bounds \subseteq [rows : SUBSET Rows, until : Nat, late : Nat, extra : Nat, faults : BOOLEAN]
  /\ \A b \in Bounds : IsFiniteSet(b.rows)
  /\ \A r \in Rows : \A i \in DOMAIN Reasons[r] : i \in Nat /\ Rank[Reasons[r][i]] \in Nat
  /\ RawKeep \in Nat /\ Interval \in Nat \ {0}
  /\ Shift \in Int /\ Backfills \subseteq Nat

VARIABLES
  now,     \* the clock
  stamp,   \* packet_logs.timestamp of each row
  purged,  \* rows deleted from packet_logs
  counted, \* per kind, how often each row is counted in threat_patterns
  rest,    \* what is left of the worker's sleep
  extra,   \* runs of the command line and restarts of the web process (history)
  wide,    \* the widest window of a backfill (history)
  bound    \* the bounds of this behaviour

histVars == <<now, stamp, purged, counted, rest, extra, wide, bound>>
vars     == <<batchVars, histVars>>

InTable == {r \in Stored : TableOf[r] = "packet_logs"} \ purged
Bound(k) == 1 + (Width[k] + Interval - 1) \div Interval + extra

TypeOK ==
  /\ BatchTypeOK
  /\ now \in 0 .. bound.until /\ stamp \in [Rows -> -bound.late .. bound.until]
  /\ purged \subseteq Rows
  /\ counted \in [Kind -> [Rows -> Nat]] 
  /\ rest \in 0 .. Interval /\ extra \in 0 .. bound.extra
  /\ wide \in Nat /\ bound \in Bounds

-----------------------------------------------------------------------------
\* Mutant: the bucket is rounded up.
BucketUp(k, t) ==
  LET s == IF k = "weekly" THEN Shift ELSE 0
  IN ((t + s + Width[k] - 1) \div Width[k]) * Width[k] - s

\* _bucket_hourly, _bucket_daily, _bucket_weekly
Bucket(k, t) ==
  LET s == IF k = "weekly" THEN Shift ELSE 0 IN ((t + s) \div Width[k]) * Width[k] - s

\* Mutant: an event is given every threat among its reasons.
CategoryAll(r) == {Reasons[r][i] : i \in {j \in DOMAIN Reasons[r] : Rank[Reasons[r][j]] < 4}}

\* _extract_category: the first of the best ranked reasons; none without a threat.
Category(r) ==
  LET rank(i) == Rank[Reasons[r][i]]
      threats == {i \in DOMAIN Reasons[r] : rank(i) < 4}
      best    == {i \in threats : \A j \in threats :
                    rank(i) < rank(j) \/ (rank(i) = rank(j) /\ i <= j)}
  IN {Reasons[r][i] : i \in best}

\* resolve_event_epoch_seconds: the time the packet carries, else the time it was captured.
Arrive(r) ==
  /\ r \in bound.rows /\ Enqueue(r)
  /\ \E late \in 0 .. bound.late : stamp' = [stamp EXCEPT ![r] = now - late]
  /\ UNCHANGED <<now, purged, counted, rest, extra, wide, bound>>

\* A unit of time is long against a flush: it passes while no row is on its way.
Tick ==
  /\ batch = {} /\ InHand = {} /\ writer # "due" /\ phase \in {"up", "down"}
  /\ next = [f \in Flushers |-> 4]
  /\ now < bound.until /\ now' = now + 1
  /\ rest' = IF rest > 0 THEN rest - 1 ELSE 0
  /\ UNCHANGED <<batchVars, stamp, purged, counted, extra, wide, bound>>

-----------------------------------------------------------------------------
\* Mutant: the buckets of the window are not deleted first.
RecomputedUpsert(k, since, r) ==
  counted[k][r] + (IF r \in InTable /\ stamp[r] >= since THEN 1 ELSE 0)

\* Mutant: the rows are selected one bucket later than they are deleted.
RecomputedLate(k, since, r) ==
  (IF Bucket(k, stamp[r]) >= since THEN 0 ELSE counted[k][r])
  + (IF r \in InTable /\ stamp[r] >= since + Width[k] THEN 1 ELSE 0)

\* The transaction of _aggregate_bucket_type: the buckets that start in the window are
\* deleted, then the raw rows of the window are grouped and inserted.
Recomputed(k, since, r) ==
  (IF Bucket(k, stamp[r]) >= since THEN 0 ELSE counted[k][r])
  + (IF r \in InTable /\ stamp[r] >= since THEN 1 ELSE 0)

\* _cleanup_retention, the end of a run
Expired(k, r) == Bucket(k, stamp[r]) < now - Keep[k]

Longer(a, b) == IF a > b THEN a ELSE b

\* run_analytics_aggregation: every kind in a transaction of its own, which may fail and
\* is rolled back (a process that ends in the middle leaves the later ones out).
Aggregate(days) ==
  \E done \in (IF bound.faults THEN SUBSET Kind ELSE {Kind}) :
    LET after == [k \in Kind |-> [r \in Rows |->
                    IF k \in done THEN Recomputed(k, now - Longer(Lookback[k], days), r)
                                  ELSE counted[k][r]]]
    IN \/ counted' = after
       \/ counted' = [k \in Kind |-> [r \in Rows |->
            IF Expired(k, r) THEN 0 ELSE after[k][r]]]

\* start_analytics_worker: a run, then the interval.
WorkerRun ==
  /\ rest = 0 /\ rest' = Interval
  /\ Aggregate(0)
  /\ UNCHANGED <<batchVars, now, stamp, purged, extra, wide, bound>>

\* The command line: a run out of turn, and over a wider window with --backfill.
CliRun(days) ==
  /\ extra < bound.extra /\ extra' = extra + 1
  /\ wide' = Longer(wide, days)
  /\ Aggregate(days)
  /\ UNCHANGED <<batchVars, now, stamp, purged, rest, bound>>

\* The web process restarts: its worker runs soon after.
Restart ==
  /\ extra < bound.extra /\ extra' = extra + 1
  /\ rest' = 0
  /\ UNCHANGED <<batchVars, now, stamp, purged, counted, wide, bound>>

\* start_retention_worker: the raw rows that are old enough.
Purge ==
  /\ \E r \in InTable : stamp[r] < now - RawKeep
  /\ purged' = purged \cup {r \in InTable : stamp[r] < now - RawKeep}
  /\ UNCHANGED <<batchVars, now, stamp, counted, rest, extra, wide, bound>>

-----------------------------------------------------------------------------
\* The sum of event_count over a set of buckets: how many pairs of an element and one of
\* the times it is counted there are.
SumOver(f, S) == Cardinality(UNION {{x} \X (1 .. f[x]) : x \in S})

\* What the dashboard reads: patterns of a kind in the last `back` units.
Shown(k, back) == {r \in Rows : counted[k][r] > 0 /\ Bucket(k, stamp[r]) >= now - back}
Day(r)  == Bucket("daily", stamp[r])
\* datetime.weekday and datetime.isocalendar of a daily bucket
Weekday(r) == (Day(r) \div Width["daily"] + EpochWeekday) % DaysPerWeek
Week(r)    == (Day(r) \div Width["daily"] + EpochWeekday) \div DaysPerWeek

\* get_heatmap: events per weekday and hour, out of the hourly buckets.
Heatmap(back) ==
  LET Cell(r) == <<Weekday(r), Bucket("hourly", stamp[r]) - Day(r)>>
  IN [cell \in {Cell(r) : r \in Shown("hourly", back)} |->
        SumOver(counted["hourly"], {r \in Shown("hourly", back) : Cell(r) = cell})]

\* get_recurring_actors: sources with daily buckets on enough days.
RecurringActors(back, minDays) ==
  {a \in {Actor[r] : r \in Rows} :
     Cardinality({Day(r) : r \in {q \in Shown("daily", back) : Actor[q] = a}}) >= minDays}

\* get_top_threats: events per category.
TopThreats(back) ==
  [c \in UNION {Category(r) : r \in Rows} |->
     SumOver(counted["daily"], {r \in Shown("daily", back) : c \in Category(r)})]

\* get_periodic_patterns: sources most of whose events (at least half, here) fall on one
\* weekday, in enough weeks.
PeriodicPatterns(back, minWeeks) ==
  LET Events(rows) == SumOver(counted["daily"], rows)
      Of(a)        == {r \in Shown("daily", back) : Actor[r] = a}
      On(p)        == {r \in Of(p[1]) : Weekday(r) = p[2]}
  IN {p \in {Actor[r] : r \in Rows} \X {Weekday(r) : r \in Rows} :
        /\ Of(p[1]) # {} /\ 2 * Events(On(p)) >= Events(Of(p[1]))
        /\ Cardinality({Week(r) : r \in On(p)}) >= minWeeks}

\* get_weekly_summary: events per weekly bucket.
WeeklySummary(back) ==
  LET Start(r) == Bucket("weekly", stamp[r])
  IN [w \in {Start(r) : r \in Shown("weekly", back)} |->
        SumOver(counted["weekly"], {r \in Shown("weekly", back) : Start(r) = w})]

-----------------------------------------------------------------------------
HistInit ==
  /\ now = 0 /\ stamp = [r \in Rows |-> 0] /\ purged = {}
  /\ counted = [k \in Kind |-> [r \in Rows |-> 0]] 
  /\ rest = 0 /\ extra = 0 /\ wide = 0 /\ bound \in Bounds

Init == BatchInit /\ HistInit

\* The engine's threads but for the arrival of rows.
Engine ==
  /\ \/ WriterTest \/ WriterTake \/ WriterWrite \/ WriterDone
     \/ MainTake \/ MainWrite \/ Exit
     \/ bound.faults /\ (StopSignal \/ Kill)
  /\ bound.faults \/ failed' = failed
  /\ UNCHANGED histVars

Next ==
  \/ \E r \in Rows : Arrive(r)
  \/ Engine \/ Tick \/ WorkerRun \/ Restart \/ Purge
  \/ \E days \in Backfills : CliRun(days)

Spec     == Init /\ [][Next]_vars
FairSpec == Spec /\ BatchFairness

-----------------------------------------------------------------------------
\* Properties

\* The windows of two runs overlap and the edge of a window cuts a bucket in two, so an
\* event can be counted more than once; but no more than once plus the runs that fit in a
\* bucket plus those out of turn.
OverCountBounded == \A k \in Kind, r \in Rows : counted[k][r] <= Bound(k)

\* No figure of the dashboard counts an event in two cells, weeks or categories, beyond
\* what the buckets count it.
FiguresBounded ==
  LET back  == bound.until
      total(f) == SumOver(f, DOMAIN f)
      top   == TopThreats(back)
      weeks == WeeklySummary(back)
  IN /\ total(Heatmap(back)) <= Bound("hourly") * Cardinality(Stored)
     /\ total(top) <= SumOver(counted["daily"], Shown("daily", back))
     /\ \A c \in DOMAIN top :
          top[c] <= Bound("daily") * Cardinality({r \in Stored : c \in Category(r)})
     /\ \A w \in DOMAIN weeks :
          weeks[w] <= Bound("weekly")
                        * Cardinality({r \in Stored : stamp[r] \in w .. w + Width["weekly"] - 1})

\* However often events are counted, late rows are added and raw rows purged, a source
\* reported as recurring was seen on that many days, and one reported as periodic in that
\* many weeks.
PatternsReal ==
  \A n \in 1 .. 2, back \in {Lookback["daily"], bound.until} :
    LET day(r)  == stamp[r] \div Width["daily"]
        week(r) == (day(r) + EpochWeekday) \div DaysPerWeek
        Rows_(a) == {r \in Stored : Actor[r] = a}
    IN /\ \A a \in RecurringActors(back, n) : Cardinality({day(r) : r \in Rows_(a)}) >= n
       /\ \A p \in PeriodicPatterns(back, n) : Cardinality({week(r) : r \in Rows_(p[1])}) >= n

\* A kind whose window reaches no further back than the raw rows keeps what it counted
\* until its own retention ends: deleting and inserting again loses nothing.
Uncounted(k) == {r \in Rows : counted[k][r] > 0 /\ counted'[k][r] = 0}
CountKept ==
  [][\A k \in Kind : Longer(Lookback[k], wide') <= RawKeep =>
       \A r \in Uncounted(k) : Bucket(k, stamp[r]) < now - Keep[k]]_vars

\* Every kind keeps what it counted until its own retention ends.
HistoryKept == [][\A k \in Kind : \A r \in Uncounted(k) : Bucket(k, stamp[r]) < now - Keep[k]]_vars
=============================================================================

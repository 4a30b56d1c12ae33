# A TLA+ development for the IDS

This directory models the intrusion detection system of this repository in TLA+,
checks the models with TLC on small instances and proves the main properties with
TLAPS for every value of the constants. Paths below are relative to the repository.

## 1. The system

Three kinds of processes share a MySQL database, a few files and an iptables chain:

- the **supervisor** (`main.py`, `runtime/process_supervisor.py`) starts and polls the other three;
- the **sensor** (`ids_engine.py`): Scapy capture, queues, preprocess and worker threads, a watchdog,
  the telemetry sender, the batch writer, a heartbeat and a daily retrain;
- the **web server** (`uni-srver.py`): request threads, an event stream, retention and analytics workers;
- the **TLS interceptor** (`ssl_inspect/`): sslsplit, iptables rules and a reader of its log.

| Component | State | Operations | Interacts with | Hard because | What makes it correct |
|---|---|---|---|---|---|
| Packet pipeline (`ids/packet_queue.py`, `ids/packet_capture.py`, `ids/worker_monitoring.py`, `ids_engine.py`) | two bounded queues, unfinished counts, a heartbeat and a cancel event per worker | capture, sample, enqueue, preprocess, dequeue, retry, restart a worker, stop | Scapy callback, counters, analysis | threads, a hung handler and its replacement, full queues, an exception anywhere | no packet lost, doubled or left without an outcome; hung threads are replaced |
| Burst alerts (`alerts/dangerous_burst.py`) | window of events per source, time of the last mail, global guard, suppressed count | record an event, evict idle sources, send | worker threads, SMTP | the clock is read before the lock; a mail fails after it took the suppressed count | mails of a source keep their distance; no event of a window is forgotten |
| Supervisor (`runtime/process_supervisor.py`, `intelligence/sensor_process.py`) | process handles, pid and heartbeat files | start, poll, terminate, signal handler; an engine's pid file, heartbeats and cleanup | operating system, dashboard | crashes and signals between any two steps, writes that fail, reused pids, stale files | no orphan; the shutdown ends; an engine that is gone is shown OFFLINE |
| TLS bypass (`ssl_inspect/bypass.py`) | cached rules per process, the NAT chain | refresh, query, add, delete | database, iptables, two processes | a lock that is local to a process, stale caches, failing commands | the chain converges to the rules |
| Telemetry authentication (`intelligence/sensor_auth.py`) | nonces seen, with expiry | sign, verify, sweep | sender, `/ids/update` | delay, repetition, clock drift | a request is applied at most once; a fresh one is never called a replay |
| Live counters (`storage/persistence.py`, `api_client/sender.py`) | counters in two processes, one database row | record, persist, reload, post, apply, restore | watchdog, dashboard | torn reads, stale reloads, late posts, restarts | nothing is counted twice |
| Model files (`ai/retrainer.py`, `ai/classifier.py`) | model files, bundle in memory | retrain, save, reload, predict | worker threads, command line | file-by-file saves, crashes, overlapping retrains | a prediction uses models that belong together |
| Log batches (`storage/persistence.py`, `storage/mysql_store.py`) | three lists, one table each | enqueue, swap and flush, the writer's pass, the last flush, kill | worker threads, database | a list is cleared before it is written, three transactions fail one by one, two threads flush, shutdown overtakes the workers | a row is written at most once; what is lost is lost for a known reason |
| Accounts (`uni-srver.py`) | user rows, codes sent by mail, sessions, avatar files | login, lockout, second factors, profile, password, user administration | browser, mail, file system | each request works on the copy of the row it read and writes back what it changed | counters, roles, factors and files survive concurrent requests |
| Event stream (`ids/websocket_updates.py`, the live table of the page) | listeners with bounded queues, the table of a page | subscribe, broadcast, unsubscribe, load a page | telemetry route, audit log, browser | a full listener is dropped while its stream goes on; rows arrive while a page is loaded | what a page does not show, the code's own limits explain |
| Analytics (`storage/analytics.py`) | hourly, daily, weekly aggregates | recompute the recent buckets, backfill, query, clean up | log rows and their retention | overlapping windows, bucket edges, late rows, purged rows, two runs at once | an event is counted in one bucket of a kind, until the bucket expires |
| Audit log (`storage/audit.py`) | audit rows | write, broadcast, page by cursor, search the logs | every route, event stream | rows become visible out of order, equal timestamps, pages clicked while others load, loads that fail | a walk through the pages misses no row |
| Detectors (`engine/behavior.py`, `engine/dns_behavior.py`, `engine/flow_manager.py`) | windows per source in shards, a table of flows | record, trim, evict, decide | worker threads | packets handled late and out of order, eviction at capacity | a verdict is that of the whole window; tables are bounded |
| Risk fusion (`ids/ai_analysis.py`) | none | score, classify | detectors, models, intelligence | thresholds | monotone, bounded scores |
| Threat intelligence (`ids/threat_intel.py`, `intelligence/zeek_integration.py`) | position in Zeek's logs, cached rows and verdicts | tail, look up, expire, merge | Zeek, external services | a read that fails at the same place every time, two threads, stale entries | a verdict rests on what Zeek wrote |
| TLS interceptor (`ssl_inspect/engine.py`, `ca.py`, `sslsplit_reader.py`) | position in the connect log, authority files | tail, restart, ensure, regenerate | sslsplit | lines cut by a read, failed reads, truncation | each line is handled once |
| Parsing, features, schema, scripts, pages | none of their own | | | | stateless |

`PROJECT.json` lists the components with their status and, under `hazards`, every place where the
code is hard to test, with the properties that cover it.

## 2. The modules

Every module is written from the code; an action stands for one handler, or for the part of it between
two points where another thread can be observed. `PROJECT.json` maps each definition to its lines.

**PacketPipeline** has one action per step of `_preprocess_loop`, `_worker_loop`, the capture callback,
`WorkerMonitor._loop` and the main thread. A worker id may have several *threads*: a hung one and its
replacements (`_restart_worker` does not wait for the old one). `fate` is a history variable: where a
packet went. The handler records the verdict, then publishes it, and may raise before, between or after,
or hang. **PacketFlow** is its abstract specification: a packet is refused or admitted, an admitted packet
waits and gets one final outcome, at most a capacity of packets waits. `ImplementsFlow` is the
refinement: waiting is what is in queues and hands, settled what has a fate.

**LogBatches** follows a row of a worker through `enqueue_*`, `flush_batches` and the three transactions.
The writer thread and the main thread at shutdown both flush; the lists are swapped under a lock and
written outside it, table after table. A transaction may fail, the last flush may run while workers still
enqueue, and the process may be killed. **RowFate** is its abstract specification: a row is pending, then
written or lost, and neither changes again. `ImplementsFate` is the refinement.

**Analytics** extends LogBatches: rows that reached a table are counted in hourly, daily and weekly buckets by
runs that delete and insert the buckets of a lookback window, with the shift that anchors weeks, while
retention purges raw rows and old buckets. A run may be interrupted, overlap another or be started from the
command line. A row may be written later than the moment it carries.

**Accounts** gives each request a copy of the rows it read; its commit writes the columns it changed, as the
ORM does. The routes are login with its failure counter and lock, codes by mail, setting up and removing the
TOTP factor, profile and avatar, password change and user administration, each split at the points where
another request can commit. A rolled-back request leaves the rows alone but not the files it has written.

**AuditFeed** has the writing of an audit row (flush, commit, broadcast), the listeners with bounded queues
that `broadcast_*` drops when they are full, the generator that goes on with heartbeats, pages that load by
cursor and put live rows on top of what they show, and the log search, which pages by time. The buttons are not
disabled while a page loads: a click (`LoadFirst`, `LoadNext`, `LoadPrevious`) moves the stack of cursors and sends a
request, which the server answers (`Answer`) and the page renders (`Render`) in any order, or which fails (`FailLoad`) and
leaves the stack as the click left it. Next goes on from the page last rendered, wherever the stack is.

**LogTail** is the reader of `sslsplit`'s connect log. A line is written in two halves, and a read may end between
them: a line cut in its host name or path still matches `_CONNECT_RE`, one cut before does not, so the model lets
either happen. A read may fail after some lines, the log may be emptied by hand, and the reader may be started again,
with a log that could be emptied or not.

**ZeekCache** is the verdict on an address from Zeek's logs. It has no action that reads a row, for the code
has none that succeeds: `_read_headers_at` leaves its loop by `break`, and `f.tell()` after that raises `OSError`.

**Windows** holds the tables per source of the flood, port-scan and DNS detectors, which evict idle sources
when a shard is full, and the flow table with its sweep. Packets are stamped at capture and handled late, so a
table sees times out of order. The verdict of the code is compared with one over the whole history.

**BurstAlert** splits a call of `maybe_alert_dangerous_burst` where the code releases control: reading
the time, the critical section, the mail, which may fail. Events are records of source and stamp; `log` keeps what
`_EVENTS` may forget, and a suppressed alert has the name of its event, so a mail says which it reports.

**Supervisor** gives `run_forever` a program counter with an entry for each sleep, wait and start; the
children end at any time. An engine goes through `start()` and its exit step by step (`phase`), as far as its two files
go: the pid file, the two first heartbeats, `init_persistence` without one, the heartbeat thread, the cleanup. A write may
fail and end the engine or the thread; a heartbeat file is empty while it is written, and the file may be missing, unreadable or any
age at the start. `is_sensor_running` is what the dashboard shows. An exception of a start leaves without shutdown.

**BypassSync** models `sync_iptables` step by step (lock, cached rules, query, each add, each delete) in
two processes with separate caches and locks, and failures of each command.

**SensorAuth** models `sign_request`, `verify_request` and `NonceTracker` with the two clocks. A request is
its nonce; the signature is whether the request arrived as it was signed. A thread reads the time before
it takes the tracker's lock, so the sweep may run with an older time.

**Telemetry** keeps two counters of the seven, one that grows at capture and one that grows after the
analysis, since they are read one after the other without the lock. It has the throttled persist, the
reload by the watchdog and by requests, posts that arrive late or never, `apply_telemetry_stats`, the
persist at shutdown while other threads go on, and restarts with a failed restore. Taking the lock to
record and again to check the interval is one step.

**ModelFiles** names a model by the training run that fitted it, so a mix of runs is visible. The retrainer
replaces the files one by one; `_build_bundle` reads them one by one; `predict` takes the bundle once.
A command-line retrainer runs beside the sensor's daily one.

The `MC*` modules extend these and only supply values that a cfg cannot write. Three of them put parts side
by side that share no state: **MCSensor** is Supervisor or ModelFiles, **MCReaders** is SensorAuth, AuditFeed or LogTail,
**MCDetect** is BurstAlert or Windows. Their variable `part` says which, and a behaviour is one of them: the state space is
the sum, not the product.
The `*Proofs` modules hold the theorems, each of them about one or two components (section 4).

## 3. The runs

| Run | Checks | Bounds and why they are enough |
|---|---|---|
| `pipeline_safety` | conservation of packets, one thread in charge of an id, bound on repeated recording, cancelled threads wind down, refinement of PacketFlow | three packets against queues of one slot meet each drop and the pressure rule (1 in `KeepEvery` = 2; the code has 4); one worker id with one replacement and one preprocess thread; one retry |
| `pipeline_live` | queued packets are served, stalled threads replaced | two packets, in-line preprocessing, two replacements, the health function does not fail |
| `storage` | losses have a reason, refinement of RowFate, rows settle; no event counted more often than runs overlap, nor in two cells, weeks or categories of a figure, none forgotten before its retention, no pattern that was not there | four instances: one row with failures, one late row with a run out of turn, two rows, three rows of two tables at one moment with failures. An hour is 2 units, a day 4, a week two days, its buckets shifted by one; every lookback and retention ends within the clock |
| `analytics_history`, `sensor_health`, `zeek` | violated: see the findings | the instances of `storage` and `sensor`; `zeek` has two threads, two lines and a clock past an interval and a lifetime |
| `accounts` | wrong answers lock, an administrator remains, few logins per code, usable TOTP factor, avatars exist | two requests at a time, three users, lock after 3 (5 in the code), two passwords, secrets, codes and files; nine deployments, each with the routes whose writes meet in the same columns |
| `readers` | telemetry requests: at most once, no false replay; a walk through the pages is complete, no silent loss of live rows; log lines once | two requests, two threads, the smallest retention the assumption allows, time beyond the first expiry; pages and queues of one: two rows or posts with a stream that breaks and reconnects, two rows over two moments with two loads at once on each kind of page, three rows with loads in turn; two contents of two lines, no fault once a line was handled twice |
| `detect` | mails: window, spacing per source. Detectors: exact verdicts, bounded tables, whole flows | two threads and two sources; four events are two more than the threshold needs; a table for two of three sources; five packets; flows with packets one second late |
| `sensor` | the process: no orphan, crash shown, shutdown completes; the models: one bundle per prediction, mixes only after a broken save, retrained models served | complete for the process: all crashes and signals, failing writes, both switches; two training runs by two retrainers, one failure |
| `bypass` | copies bounded, convergence | three rules, two of which share a needle; two requests and the loop; two changes, one failure |
| `telemetry` | nothing counted twice | one event of each kind, two posts on the way, one restart: enough for a torn read, a stale reload and an overtaken post |

Where a cfg turns deadlock checking off, the program or the model's time really ends there. Symmetry is
used only in runs without liveness. The `TypeOK` of a module is proved where the module has proofs, and
otherwise documents its state.

**Fairness.** Threads that are runnable are scheduled: weak fairness on the steps of preprocess threads,
the watchdog, the supervisor, the retrainer's thread, the interceptor's loop, and on the steps of both
threads that flush log batches (MySQL answers them, with success or an error). Strong fairness is assumed where a
step competes for something another thread holds again and again: a worker's step against the queue, a
caller of `sync_iptables` against `_sync_lock` (which is released infinitely often, and CPython's lock does
not starve a waiter for ever). The watchdog's property assumes that the last replacement of a thread does not
hang, otherwise no bound on restarts would suffice, and that a newborn thread beats before the watchdog's next pass,
which comes seconds later. A heartbeat ages, since time passes (`BeatAges`). Nothing is assumed of packets, users, children or the network.

**Findings.** Three runs check a sentence of the repository that the code does not keep:

- `analytics_history`: every run of the aggregation deletes the daily buckets of the last 14 days
  (`storage/analytics.py:164`; weekly: 12 weeks) and rebuilds them from `packet_logs`, whose rows are purged after 7 days:
  the buckets between the two ages are gone for good, although the retention of daily buckets says "6 months" (`:75`) and
  the module that running twice produces the same result (`:9`). `CountKept`, in `storage`, is what remains true: kinds
  whose window reaches no further back than the raw rows keep their counts.
- `sensor_health`: a heartbeat that is missing or empty, as an engine leaves it that dies between its two files or in
  a heartbeat, does not count against a pid that still answers (`intelligence/sensor_process.py:73`), although the "Web UI
  marks the sensor OFFLINE" after a gap (`env-example:139`). `CrashShownOffline`, in `sensor`, is what remains true: it is
  shown OFFLINE when the heartbeat can be read.
- `zeek`: no row of a log with a header is read (`intelligence/zeek_integration.py:132`, caught at `:146`), although
  `_tail_read_log` reads new rows "incrementally" (`:111`).

Other sentences that are not so are stated as properties in the modules but are not among the runs: a cfg of the component's
run with one of them as its only property gives the counterexample (`NoDuplicate` and `NeverMixed` follow below).

- `HeldBackIsReported` (BurstAlert): the count of suppressed alerts is reset when a call decides to send
  (`alerts/dangerous_burst.py:457`); if that mail fails, they are not "reported in the next email that goes out"
  (`README.md:495`).
- `AutoRestartsSensor` (Supervisor): the engine is restarted when the interceptor exits
  (`runtime/process_supervisor.py:201`), not "when it exits unexpectedly" (`env-example:342`).
- `OldLinesSkipped` (LogTail): the reader starts at 0 (`ssl_inspect/sslsplit_reader.py:56`) also when the log could
  not be truncated, although it "will skip to end of file" (`ssl_inspect/engine.py:136`).
- `LiveOnFirstPage` (AuditFeed): a row that arrives between the click that leads to the first page and its answer
  is put on the page still shown (`static/js/audit.js:444`), "a page it doesn't belong to" (`:410`).

**What the properties have to allow.** Several hold only with an exception that the code makes real; each
exception is a named part of the property:

- *Watchdog.* Its health function reads MySQL without a handler; one failing read ends the thread
  (`ids/worker_monitoring.py:63`), hence the assumption of `StalledReplaced`.
- *Supervisor.* The engine that lost its handle to one started at the interceptor's exit is left running; a forced
  exit or an exception of a start stops nobody. An engine that ends slowly removes the files of a younger one, and an
  engine that loads long or whose heartbeat failed is shown OFFLINE while it runs: no property says it is shown LIVE.
- *Bypass.* The lock against duplicate rules is per process and its callers are in two
  (`ssl_inspect/bypass.py:330`): `NoDuplicate` is not so, `DuplicatesBounded` is.
- *Models.* A retrain with few benign rows leaves the old anomaly model beside the new scaler
  (`ai/retrainer.py:619`): `NeverMixed` is not so, `MixNeedsBrokenSave` is.
- *Analytics.* The edge of a window cuts a bucket in two and two runs may overlap, so an event can count more
  than once, against "counted exactly once" (`storage/analytics.py:61`); `OverCountBounded` says how often. The shift of four
  days anchors weeks to Sunday, not Monday (`:41`). Hourly buckets are kept for 14 days, while the heatmap
  asks for four weeks.
- *Accounts.* Requests overwrite each other's failure count, so up to `LostBound` wrong answers may pass before
  the lock; two administrators may remove each other at once; overlapping set-up, reset and set-up of TOTP may leave
  the flag without a secret (`skewed`).
- *Event stream.* A listener whose queue was full is removed although its stream lives on with heartbeats. The
  answer of a load that was read before a row was committed takes away that row if it came live meanwhile.
- *Audit log.* After a second click on Next, or a failed load, the stack holds a cursor twice or ends beyond the page
  shown, so Previous may show the same page again; the walk misses nothing. `WalkComplete` counts from the last time the first
  page was read with no other load under way. The log search skips rows whose time equals the last row of a page.
- *Detectors.* At capacity a new source whose own window is evicted is never tracked, although the comment
  speaks of idle addresses only (`engine/behavior.py:46`); packets of a flow handled out of order make its
  rates very large, since its duration is clamped from below (rates are not modelled).
- *Connect log.* A connection whose line a read cut may be recorded truncated, or not at all (`cut`); a log
  emptied under the reader that has grown past its position is read from there (`blind`); a read that failed is read
  again from its start, as is a log that could not be emptied at a restart (`reread`).

## 4. What is proved

TLAPS checks these for every value of the constants that satisfies the named assumptions of the module.

| Module | Theorems | Argument |
|---|---|---|
| PacketPipelineProofs | `TypeCorrect`, `PacketsConserved`, `RecordsAreBounded`, `PipelineImplementsFlow`, `ReplacementIsClean` (from `OneWorker` and `CancelledWindDown`) | the invariant places every packet that has no fate in exactly one queue slot or hand, and says that at most the newest thread of an id is uncancelled; a packet has been recorded at most once per attempt, and the attempts are at most the retries and one; with conservation each step is one of PacketFlow's or a stutter |
| HistoryProofs | of LogBatches: `WrittenOnce`, `LossIsExplained`, `BatchesImplementFate`; of Analytics: `HistoryTypeCorrect`, `PatternsAreReal`, `CountsAreKept`, `OverCountIsBounded`, `FiguresAreBounded` | a row is in one place: a list, the hand of one thread, its table, or lost; a thread that flushes holds only rows of the tables it has still to write. What is counted was written to the packet log, what was purged is older than raw rows are kept, and a bucket starts no later than its events. Past the last window that covers a bucket whole, the counts so far and the runs that can still meet it are paid for by the bucket's width and the runs out of turn. A figure of a page is a sum over a selection of events; it is stated as the number of pairs of an event and a time it is counted, so the sums over disjoint parts add up, and as an event is in one cell, week and category, the parts stay below the whole |
| AccountsProofs | `TypeCorrect`, `AnAdminRemains`, `AvatarsAreKept`, `TotpStaysUsable`, `CodesAreBounded`, `LockoutIsBounded` | an administrator's request that removes another leaves its actor, unless the actor is removed by a request under way at the same time; no two users refer to one file, in a row or in the copy of a request, so a removed file is nobody else's; flag and secret go together in every row and copy where no set-up was skewed; a code that was used has left the row, so the requests that hold it only become fewer. The failure count of a row and those that requests have read from it form a multiset; a wrong answer that is recorded may set the row back, but it puts more of them above the lowest count at which the multiset changes; in that order it only goes on, so the wrong answers since the count was zero are at most the multisets before the present one |
| DetectProofs | of BurstAlert: `TypeCorrect`, `WindowsAreComplete`, `MailsAreSpaced`; of Windows: `TablesAreBounded`, `FlowsAreKept`, `VerdictsAreExact` | stamps reach the lock at most a delay out of order, so an idle source has no event that is still in the window by the clock, and its last mail is remembered or long past; what a call decides on is its window by the clock, give or take the delay. A flow in the table was seen no earlier than its last packet less the delay, so a flow that the sweep takes away has been idle by the clock; until then its count covers every dense run of its packets. A window is a copy, in order, of some events of its source; each event it lacks is before those it holds and is old or has as many later ones as fit; a source without a window has old events only. So when no more events are recent than fit, the window is a copy of the recent ones, and the counts that make the reason do not depend on the places |
| TlsProofs | of BypassSync: `TypeCorrect`, `DuplicatesAreBounded`; of LogTail: `LinesHandledOnce` | each process has at most one caller inside its lock; a caller that is about to add counts as a copy not yet inserted, so copies plus pending adds stay within processes plus failed queries. A position in the present content is within it, a line before it was handled once unless it was cut, and nothing beyond it was handled; a line that was cut has one half before the position of the read that cut it and one behind |
| SensorProofs | of SensorAuth: `TypeCorrect`, `AcceptedAtMostOnce`, `ReplaysWereAccepted`; of Supervisor: `NoChildIsLeft` | a nonce that was accepted stays recorded until its request is outside the time window even if a sweep uses an older time; the assumption on retention is what this needs. A child that runs is the one its slot names, and the stages of the shutdown have cleared the slots before them |
| FeedProofs | of Telemetry: `TypeCorrect`, `NothingCountedTwice`; of AuditFeed: `NothingIsLostSilently`, `WalksAreComplete` | not only the copies but also what each thread has in hand between two steps is below what was recorded. Listeners are numbered by stream, so a new stream is in no sender's copy; a sender notes a listener of an open page as dead only when that page has missed something, so an open listener leaves the list only then. Each row that was there when the first page was read by itself and is behind a cursor, on the stack or of a load, is not lost to it: it has been shown, or is behind that cursor, or (in the log search) has the time of a row that was shown. So it is with each answer, whatever the order, and a page that comes back empty has nothing behind its cursor |
| ModelFilesProofs | `TypeCorrect`, `PredictionsAreWhole`, `ScalerFitsForest` | while no save is broken, one retrainer writes and nobody reads, the forest on the disk is of the run being written, and the file set fits when nobody writes |

The inductive invariants that are not obvious from their parts (of LogTail, of the flows, of the windows and of the aggregation runs) were
first checked with TLC on the instances of the runs.

Assumptions on constants: capacities and bounds are natural numbers; `AuthAssumption` (twice the retention
covers twice the skew and the delay between the two checks of one request); `BurstAssumption` (the idle
time after which a source is evicted leaves room for the deduplication time and the wait for the lock);
`DeploymentsAssumption` (what the bootstrap leaves: an administrator, no avatars, no code under way, and a TOTP secret
for exactly the accounts that have it switched on); `AnalyticsAssumption` (widths, windows and retentions are natural numbers
and widths and the interval are not zero; a behaviour has finitely many rows; each reason of a row has a rank); `TailAssumption` (the
log has a content, lines and faults are counted by natural numbers); `WindowAssumption` (a packet is handled within the idle time of a flow); `NobodyAssumption` (no child is
called `Nobody`); `BatchAssumption` (each
row is for one of the three tables); `BypassAssumption`, `TelemetryAssumption`, `ModelFilesAssumption`,
`AccountsAssumption`, `FeedAssumption` (typing, sizes that are not zero, distinct threads, finitely many rows).

**Only model-checked**: all liveness (fairness and ENABLED are out of the prover's reach), and ZeekCache, whose one property is violated. Every safety invariant that a passing run checks is
also a theorem. Where a law over data would need induction on an operator, which the installed provers cannot instantiate, the definition is
one that needs none: a sum is a number of pairs, a page and a table sets of rows, the longest way to the lock a set of multisets, a reason a count over
indices; where a least member is needed, it is taken from the well-foundedness of the natural numbers. The violated properties are the findings.

## 5. Abstractions

- PacketPipeline: what the handler computes, queue time-outs. A log row it persists is a row of LogBatches; the
  two modules are not composed, since a row's fate does not depend on the packet's.
- LogBatches: the columns of a row. Analytics: hosts, the JSON of samples, monthly buckets (made and kept
  like the weekly ones).
- Accounts: a password, secret, code or file is a number; hashes, rate limits, CSRF tokens, the virus scan
  and pages are left out. Time is the expiry of a lock or a code at any moment.
- AuditFeed: filters, statistics and deletion of old entries are left out; a page is the set of its rows, and so is a table
  (`prependLiveRow` compares numbers before it adds a row). LogTail: the fields of a line. ZeekCache: one address and one log;
  a verdict is the set of lines it rests on.
- Windows: a packet is its source, its time and a port or name; entropy and lengths of names, rates and
  moments of flows are left out.
- BurstAlert: text, lookups and SMTP; a mail goes out in one step or fails.
- Supervisor: `wait(3)` after SIGKILL returns; a child is started and its handle stored in one step.
- BypassSync: iptables is usable (root or sudo); an iptables child that outlives its killed parent is
  not modelled.
- SensorAuth: the signature is unforgeable and the nonce unique.
- Telemetry: sets of addresses behave like the counters; the database commits a row atomically.
- ModelFiles: `feature_names.pkl` is constant; `--incremental`, which grows the forest on disk, and the automatic
  training when a file is missing are left out; a fitted model is never wrong for its own scaler.
- Counters named as bounds of the model in the CONSTANTS comments (`MaxRestarts`, `MaxEvents`, `MaxTime`,
  `MaxFailures`, `Bounds`, ...) exist only for TLC; the theorems hold for each value of them.

**Not modelled.** Risk fusion (`ids/ai_analysis.py`) and feature extraction and parsing (`engine/payload_analyzer.py`
and others): pure arithmetic and text processing of one packet over floating-point numbers. The schema and its bootstrap:
declarations and idempotent SQL. Read-only routes and pages; batch scripts, log set-up and metrics. The certificate
authority and the redirection rules: sequences of external commands. Lookups at external services: sequential calls behind
a cache. `start_sensor_background` (`intelligence/sensor_process.py:137`), the web server's own way to start an engine, whose
check and start are not atomic: an alternative to the supervisor.

## 6. What could follow

1. Risk fusion with thresholds over small integers, against monotonicity.
2. `start_sensor_background` with two web processes.
3. The handler of PacketPipeline composed with LogBatches: the log rows of a packet that is retried.

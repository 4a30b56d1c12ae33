------------------------------ MODULE Telemetry ------------------------------
(***************************************************************************)
(* The live counters of storage/persistence.py and their way to the        *)
(* dashboard.  The sensor and the web server each hold a copy in memory    *)
(* (_live_stats) and both write the one row of ids_statistics; the sensor  *)
(* posts snapshots (api_client/sender.py) that the web server applies; the *)
(* web server and the sensor's watchdog load the row back into memory.     *)
(*                                                                         *)
(* Of the counters two are kept: total, which grows at capture, and        *)
(* verdicts, which stands for the counters that grow after the analysis.   *)
(***************************************************************************)
EXTENDS Integers, FiniteSets

CONSTANTS
  Recorders,    \* capture and worker threads of the sensor
  Requests,     \* request threads of the web server
  Watchdog,     \* the thread that calls health_fn in the sensor
  Main,         \* the main thread of the sensor
  MaxEvents,    \* bound of the model: events recorded, of each kind
  MaxMail,      \* bound of the model: posts on their way
  MaxRestarts   \* bound of the model: restarts of the two processes

ASSUME TelemetryAssumption ==
  /\ {MaxEvents, MaxMail, MaxRestarts} \subseteq Nat
  /\ {Watchdog, Main} \cap (Recorders \cup Requests) = {}
  /\ Recorders \cap Requests = {} /\ Watchdog # Main

VARIABLES
  seen,      \* events the sensor has recorded (history)
  live,      \* _live_stats of each process
  recent,    \* processes whose _last_stats_persist is younger than the interval
  row,       \* ids_statistics, id = 1
  mail,      \* snapshots posted and not yet handled
  task,      \* what a thread is doing, and the counters it has in hand
  restarts

vars == <<seen, live, recent, row, mail, task, restarts>>

-----------------------------------------------------------------------------
Procs   == {"sensor", "web"}
Threads == Recorders \cup Requests \cup {Watchdog, Main}
Home(t) == IF t \in Requests THEN "web" ELSE "sensor"

Counts == [total : Nat, verdicts : Nat]
Zero   == [total |-> 0, verdicts |-> 0]

\* A thread reads the two counters one after the other, writes the row, reads the
\* row, overwrites the counters in memory.
Steps == {"readTotal", "readVerdicts", "write", "load", "set"}
Idle  == [at |-> "idle", got |-> Zero]
Gone  == [at |-> "gone", got |-> Zero]
Tasks == {Idle, Gone} \cup [at : Steps, got : Counts]

TypeOK ==
  /\ seen \in Counts /\ row \in Counts
  /\ live \in [Procs -> Counts]
  /\ recent \subseteq Procs
  /\ mail \subseteq Counts
  /\ task \in [Threads -> Tasks]
  /\ restarts \in 0 .. MaxRestarts

Init ==
  /\ seen = Zero /\ row = Zero
  /\ live = [p \in Procs |-> Zero]
  /\ recent = {} /\ mail = {}
  /\ task = [t \in Threads |-> Idle]
  /\ restarts = 0

Do(t, step, got) == task' = [task EXCEPT ![t] = [at |-> step, got |-> got]]
Rest(t)          == task' = [task EXCEPT ![t] = Idle]

-----------------------------------------------------------------------------
\* The sensor records

\* _maybe_persist_statistics: at most one persist per interval is begun, but one
\* that is slow may still be under way.
MaybePersist(t) ==
  IF "sensor" \in recent
  THEN UNCHANGED <<task, recent>>
  ELSE recent' = recent \cup {"sensor"} /\ Do(t, "readTotal", Zero)

\* record_captured_event
RecordCaptured(t) ==
  /\ t \in Recorders /\ task[t] = Idle /\ seen.total < MaxEvents
  /\ seen' = [seen EXCEPT !.total = @ + 1]
  /\ live' = [live EXCEPT !["sensor"].total = @ + 1]
  /\ MaybePersist(t)
  /\ UNCHANGED <<row, mail, restarts>>

\* record_analysis_result
RecordVerdict(t) ==
  /\ t \in Recorders /\ task[t] = Idle
  /\ 0 < seen.total /\ seen.verdicts < MaxEvents
  /\ seen' = [seen EXCEPT !.verdicts = @ + 1]
  /\ live' = [live EXCEPT !["sensor"].verdicts = @ + 1]
  /\ MaybePersist(t)
  /\ UNCHANGED <<row, mail, restarts>>

IntervalPasses ==
  /\ recent # {} /\ recent' = {}
  /\ UNCHANGED <<seen, live, row, mail, task, restarts>>

-----------------------------------------------------------------------------
\* _persist_statistics_unlocked reads the counters without the lock

ReadTotal(t) ==
  /\ task[t].at = "readTotal"
  /\ Do(t, "readVerdicts", [Zero EXCEPT !.total = live[Home(t)].total])
  /\ UNCHANGED <<seen, live, recent, row, mail, restarts>>

ReadVerdicts(t) ==
  /\ task[t].at = "readVerdicts"
  /\ Do(t, "write", [task[t].got EXCEPT !.verdicts = live[Home(t)].verdicts])
  /\ UNCHANGED <<seen, live, recent, row, mail, restarts>>

\* The upsert of the row, or an error that is logged.  A request goes on with
\* load_statistics_for_api, the main thread leaves the process.
Write(t) ==
  /\ task[t].at = "write"
  /\ row' = task[t].got \/ UNCHANGED row
  /\ CASE t \in Requests -> Do(t, "load", Zero)
       [] t = Main       -> task' = [task EXCEPT ![t] = Gone]
       [] OTHER          -> Rest(t)
  /\ UNCHANGED <<seen, live, recent, mail, restarts>>

-----------------------------------------------------------------------------
\* load_statistics_for_api

\* At the end of a telemetry request, when the page of counters is asked for, or
\* when the watchdog wakes up.
ReadRow(t) ==
  /\ t \in Requests \cup {Watchdog} /\ task[t].at \in {"idle", "load"}
  /\ Do(t, "set", row)
  /\ UNCHANGED <<seen, live, recent, row, mail, restarts>>

\* Mutant: the row is added to the counters in memory.
SetLiveAdds(t) ==
  /\ task[t].at = "set"
  /\ live' = [live EXCEPT ![Home(t)] = [total    |-> @.total + task[t].got.total,
                                        verdicts |-> @.verdicts + task[t].got.verdicts]]
  /\ Rest(t)
  /\ UNCHANGED <<seen, recent, row, mail, restarts>>

\* The row, which may be old by now, replaces the counters in memory.
SetLive(t) ==
  /\ task[t].at = "set"
  /\ live' = [live EXCEPT ![Home(t)] = task[t].got]
  /\ Rest(t)
  /\ UNCHANGED <<seen, recent, row, mail, restarts>>

-----------------------------------------------------------------------------
\* The sender and ids_sensor_update

\* A consistent snapshot is posted.  A post that timed out may still be handled
\* after the next one.
Post ==
  /\ Cardinality(mail) < MaxMail
  /\ mail' = mail \cup {live["sensor"]}
  /\ UNCHANGED <<seen, live, recent, row, task, restarts>>

\* The post is lost or refused.
Lose(m) ==
  /\ m \in mail /\ mail' = mail \ {m}
  /\ UNCHANGED <<seen, live, recent, row, task, restarts>>

\* apply_telemetry_stats replaces the counters in memory, then persists them.
Apply(t, m) ==
  /\ t \in Requests /\ task[t] = Idle
  /\ m \in mail /\ mail' = mail \ {m}
  /\ live' = [live EXCEPT !["web"] = m]
  /\ Do(t, "readTotal", Zero)
  /\ UNCHANGED <<seen, recent, row, restarts>>

-----------------------------------------------------------------------------
\* The ends of the processes

\* The main thread of the sensor leaves start(): shutdown_persistence, while the
\* other threads go on.
ShutDown ==
  /\ task[Main] = Idle
  /\ Do(Main, "readTotal", Zero)
  /\ UNCHANGED <<seen, live, recent, row, mail, restarts>>

\* A process ends, at any point, and starts again: restore_statistics loads the
\* row, or fails, is logged, and leaves the counters at zero.
Restart(p) ==
  /\ restarts < MaxRestarts /\ restarts' = restarts + 1
  /\ \E counts \in {row, Zero} : live' = [live EXCEPT ![p] = counts]
  /\ recent' = recent \ {p}
  /\ task' = [t \in Threads |-> IF Home(t) = p THEN Idle ELSE task[t]]
  /\ UNCHANGED <<seen, row, mail>>

-----------------------------------------------------------------------------
Step(t) ==
  \/ RecordCaptured(t) \/ RecordVerdict(t)
  \/ ReadTotal(t) \/ ReadVerdicts(t) \/ Write(t)
  \/ ReadRow(t) \/ SetLive(t)
  \/ \E m \in mail : Apply(t, m)

Next ==
  \/ \E t \in Threads : Step(t)
  \/ IntervalPasses \/ Post \/ ShutDown
  \/ \E m \in mail : Lose(m)
  \/ \E p \in Procs : Restart(p)

Spec == Init /\ [][Next]_vars

-----------------------------------------------------------------------------
\* Properties

Below(c, d) == c.total <= d.total /\ c.verdicts <= d.verdicts

\* Nothing is counted twice: however snapshots are delayed, rows reloaded,
\* reads torn and processes restarted, no copy of the counters, in memory, in
\* the database or on its way, exceeds what the sensor has recorded.
NeverOvercounts ==
  \A c \in {row, live["sensor"], live["web"]} \cup mail : Below(c, seen)
=============================================================================

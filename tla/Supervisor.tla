----------------------------- MODULE Supervisor -----------------------------
(***************************************************************************)
(* runtime/process_supervisor.py: the parent process that starts the web   *)
(* server, the IDS engine and the TLS interceptor, polls them, and stops   *)
(* them; and intelligence/sensor_process.py: the pid and heartbeat files   *)
(* through which the web server tells whether an engine runs.              *)
(*                                                                         *)
(* The interceptor is started once, and an engine is started once and at   *)
(* the exit of the interceptor: two engines at most.                       *)
(***************************************************************************)
EXTENDS Naturals, FiniteSets

CONSTANT Nobody \* no process, no file

VARIABLES
  autoRestart, sslEnabled,  \* IDS_AUTO_RESTART, SSL_DECRYPTION_ENABLED
  sup,         \* program counter of run_forever
  shutdown,    \* _shutdown
  ended,       \* how the supervisor ended
  handle,      \* _web_proc, _ids_proc, _ssl_proc
  state,       \* of each child process
  phase,       \* how far each engine is in start() and in its exit
  touching,    \* engines that opened, and so emptied, the heartbeat file to write it
  pidFile,     \* ids-sensor.pid: the engine it names, Nobody when missing or unreadable
  beat,        \* ids-sensor.heartbeat: missing, unreadable, or its age
  recycled     \* os.kill(pid, 0) answers for a dead engine

env   == <<autoRestart, sslEnabled>>
ctl   == <<sup, shutdown, ended>>
fileVars == <<pidFile, beat, recycled>>
engineVars == <<phase, touching, fileVars>>
supVars    == <<env, ctl, handle, state, engineVars>>

-----------------------------------------------------------------------------
Engines == {"ids1", "ids2"}
Old     == "ids0"   \* an engine of an earlier run, whose files may be left
Procs   == {"web", "ssl", Old} \cup Engines
Slots   == {"web", "ids", "ssl"}

ASSUME NobodyAssumption == Nobody \notin Procs

Stops == {"stopSsl", "waitSsl", "stopIds", "waitIds", "stopWeb", "waitWeb"}
Pcs   == {"startWeb", "grace", "startIds", "startSsl", "top", "pollIds", "pollSsl", "done"} \cup Stops

\* Of an engine: the pid file is not written yet; it is, and the first touch follows; the
\* cleanup is registered, and the second touch follows; init_persistence; the heartbeat
\* thread runs; the thread has died of a touch; the cleanup; the pid file is removed.
Phases == {"new", "pid", "registered", "loading", "beating", "silent", "quitting", "cleared"}
Beats  == {"none", "torn", "fresh", "stale"}

SupTypeOK ==
  /\ autoRestart \in BOOLEAN /\ sslEnabled \in BOOLEAN
  /\ sup \in Pcs /\ shutdown \in BOOLEAN
  /\ ended \in {"no", "regular", "forced", "raised"}
  /\ handle \in [web : {"web", Nobody}, ids : Engines \cup {Nobody}, ssl : {"ssl", Nobody}]
  /\ state \in [Procs -> {"unborn", "up", "term", "dead"}]
  /\ phase \in [Engines -> Phases] /\ touching \in SUBSET Engines
  /\ pidFile \in Engines \cup {Old, Nobody}
  /\ beat \in Beats
  /\ recycled \in BOOLEAN

Alive(p) == state[p] \in {"up", "term"}

\* poll() is not None
Exited(slot) == handle[slot] # Nobody /\ state[handle[slot]] = "dead"

SupInit ==
  /\ autoRestart \in BOOLEAN /\ sslEnabled \in BOOLEAN
  /\ sup = "startWeb" /\ shutdown = FALSE /\ ended = "no"
  /\ handle = [s \in Slots |-> Nobody]
  /\ state = [p \in Procs |-> IF p = Old THEN "dead" ELSE "unborn"]
  /\ phase = [e \in Engines |-> "new"] /\ touching = {}
  /\ pidFile \in {Nobody, Old} /\ beat \in Beats /\ recycled = FALSE

Goto(l) == sup' = l /\ UNCHANGED <<shutdown, ended>>

\* Popen, and the handle of the slot is overwritten.
Spawn(slot, p) ==
  /\ state' = [state EXCEPT ![p] = "up"]
  /\ handle' = [handle EXCEPT ![slot] = p]

\* A child cannot be started and nothing catches the exception: run_forever is
\* left without shutdown().
Escape == sup' = "done" /\ ended' = "raised" /\ UNCHANGED shutdown

\* shutdown() sets the flag before it stops the children.
BeginShutdown == sup' = "stopSsl" /\ shutdown' = TRUE /\ UNCHANGED ended

-----------------------------------------------------------------------------
\* run_forever: start-up

StartWeb ==
  /\ sup = "startWeb"
  /\ \/ Spawn("web", "web") /\ Goto("grace")
     \/ Escape /\ UNCHANGED <<handle, state>>
  /\ UNCHANGED <<env, engineVars>>

\* The web server that did not survive its first second ends the supervisor.
Grace ==
  /\ sup = "grace"
  /\ IF Exited("web")
     THEN sup' = "done" /\ ended' = "regular" /\ UNCHANGED shutdown
     ELSE Goto("startIds")
  /\ UNCHANGED <<env, handle, state, engineVars>>

StartIds ==
  /\ sup = "startIds"
  /\ \/ Spawn("ids", "ids1") /\ Goto("startSsl")
     \/ \* FileNotFoundError, OSError
        BeginShutdown /\ UNCHANGED <<handle, state>>
  /\ UNCHANGED <<env, engineVars>>

StartSsl ==
  /\ sup = "startSsl"
  /\ \/ sslEnabled /\ Spawn("ssl", "ssl")
     \/ \* disabled, or it cannot be started
        UNCHANGED <<handle, state>>
  /\ Goto("top")
  /\ UNCHANGED <<env, engineVars>>

-----------------------------------------------------------------------------
\* run_forever: one pass of the loop

\* Mutant: the supervisor returns without stopping the other children.
TopReturns ==
  /\ sup = "top"
  /\ IF Exited("web")
     THEN sup' = "done" /\ ended' = "regular" /\ UNCHANGED shutdown
     ELSE IF shutdown THEN BeginShutdown ELSE Goto("pollIds")
  /\ UNCHANGED <<env, handle, state, engineVars>>

\* The loop condition and the poll of the web server.
Top ==
  /\ sup = "top"
  /\ IF shutdown \/ Exited("web") THEN BeginShutdown ELSE Goto("pollIds")
  /\ UNCHANGED <<env, handle, state, engineVars>>

PollIds ==
  /\ sup = "pollIds"
  /\ handle' = IF Exited("ids") THEN [handle EXCEPT !["ids"] = Nobody] ELSE handle
  /\ Goto("pollSsl")
  /\ UNCHANGED <<env, state, engineVars>>

\* The restart of the engine is in the branch of the interceptor; the cooldown
\* has passed the one time the branch is taken.
PollSsl ==
  /\ sup = "pollSsl"
  /\ \/ /\ ~Exited("ssl")
        /\ Goto("top") /\ UNCHANGED <<handle, state>>
     \/ /\ Exited("ssl") /\ ~autoRestart
        /\ handle' = [handle EXCEPT !["ssl"] = Nobody]
        /\ Goto("top") /\ UNCHANGED state
     \/ /\ Exited("ssl") /\ autoRestart
        /\ \/ /\ handle' = [handle EXCEPT !["ssl"] = Nobody, !["ids"] = "ids2"]
              /\ state' = [state EXCEPT !["ids2"] = "up"]
              /\ Goto("top")
           \/ /\ handle' = [handle EXCEPT !["ssl"] = Nobody]
              /\ Escape /\ UNCHANGED state
  /\ UNCHANGED <<env, engineVars>>

-----------------------------------------------------------------------------
\* shutdown and _terminate

Stage == [stopSsl |-> "ssl", waitSsl |-> "ssl", stopIds |-> "ids",
          waitIds |-> "ids", stopWeb |-> "web", waitWeb |-> "web"]
Wait  == [stopSsl |-> "waitSsl", stopIds |-> "waitIds", stopWeb |-> "waitWeb"]
Waits == {"waitSsl", "waitIds", "waitWeb"}
After == [ssl |-> "stopIds", ids |-> "stopWeb", web |-> "done"]

Leave(slot) ==
  /\ sup' = After[slot]
  /\ ended' = IF slot = "web" THEN "regular" ELSE ended
  /\ UNCHANGED shutdown

\* SIGTERM, or nothing to do for a child that is gone.
SendTerm ==
  /\ sup \in DOMAIN Wait
  /\ LET slot == Stage[sup]  p == handle[slot]
     IN IF p = Nobody \/ Exited(slot)
        THEN Leave(slot) /\ UNCHANGED state
        ELSE Goto(Wait[sup]) /\ state' = [state EXCEPT ![p] = "term"]
  /\ UNCHANGED <<env, handle, engineVars>>

Reaped ==
  /\ sup \in Waits
  /\ Exited(Stage[sup])
  /\ Leave(Stage[sup])
  /\ UNCHANGED <<env, handle, state, engineVars>>

\* Mutant: the child that ignores SIGTERM is waited for.
KillLateWaits ==
  /\ sup \in Waits
  /\ ~Exited(Stage[sup])
  /\ UNCHANGED supVars

\* TimeoutExpired: SIGKILL.
KillLate ==
  /\ sup \in Waits
  /\ ~Exited(Stage[sup])
  /\ state' = [state EXCEPT ![handle[Stage[sup]]] = "dead"]
  /\ Leave(Stage[sup])
  /\ UNCHANGED <<env, handle, engineVars>>

\* The signal handler runs in the main thread between any two steps: the first
\* signal sets the flag, a later one raises SystemExit.
Signal ==
  /\ sup # "done"
  /\ shutdown' = TRUE
  /\ IF shutdown THEN sup' = "done" /\ ended' = "forced" ELSE UNCHANGED <<sup, ended>>
  /\ UNCHANGED <<env, handle, state, engineVars>>

-----------------------------------------------------------------------------
\* The child processes and the two files

Step(e, from, to) == phase[e] = from /\ phase' = [phase EXCEPT ![e] = to]

Die(p) == state' = [state EXCEPT ![p] = "dead"]

\* write_sensor_pid, first file.
WritePid(e) ==
  /\ Alive(e) /\ Step(e, "new", "pid")
  /\ pidFile' = e /\ recycled' = FALSE
  /\ UNCHANGED <<env, ctl, handle, state, touching, beat>>

\* Its write fails, or the engine is killed after the file was emptied.
FailPid(e) ==
  /\ Alive(e) /\ phase[e] = "new"
  /\ Die(e)
  /\ pidFile' = Nobody /\ recycled' = FALSE
  /\ UNCHANGED <<env, ctl, handle, phase, touching, beat>>

\* touch_sensor_heartbeat: in write_sensor_pid, in start(), and every few seconds.
OpenBeat(e) ==
  /\ Alive(e) /\ e \notin touching /\ phase[e] \in {"pid", "registered", "beating"}
  /\ touching' = touching \cup {e} /\ beat' = "torn"
  /\ UNCHANGED <<env, ctl, handle, state, phase, pidFile, recycled>>

\* The line is written; not to be read if the file was removed meanwhile.
EndBeat(e) ==
  /\ Alive(e) /\ e \in touching
  /\ touching' = touching \ {e}
  /\ beat' = IF beat = "none" THEN "none" ELSE "fresh"
  /\ \/ Step(e, "pid", "registered")
     \/ Step(e, "registered", "loading")
     \/ phase[e] \notin {"pid", "registered"} /\ UNCHANGED phase
  /\ UNCHANGED <<env, ctl, handle, state, pidFile, recycled>>

\* A touch that cannot open or write the file raises: the engine exits, without the cleanup
\* when that is not registered yet, and later the heartbeat thread ends unseen.
FailBeat(e) ==
  /\ Alive(e)
  /\ touching' = touching \ {e}
  /\ \/ phase[e] = "pid" /\ Die(e) /\ UNCHANGED phase
     \/ Step(e, "registered", "quitting") /\ UNCHANGED state
     \/ Step(e, "beating", "silent") /\ UNCHANGED state
  /\ UNCHANGED <<env, ctl, handle, fileVars>>

\* init_persistence returned: the threads are started.
StartThreads(e) ==
  /\ Alive(e) /\ Step(e, "loading", "beating")
  /\ UNCHANGED <<env, ctl, handle, state, touching, fileVars>>

\* The engine returns from start(), or start() raises.
BeginQuit(e) ==
  /\ Alive(e)
  /\ \E from \in {"loading", "beating", "silent"} : Step(e, from, "quitting")
  /\ UNCHANGED <<env, ctl, handle, state, touching, fileVars>>

\* clear_sensor_pid at exit removes both files, whoever wrote them; an error ends it.
ClearPid(e) ==
  /\ Alive(e) /\ Step(e, "quitting", "cleared")
  /\ pidFile' = Nobody /\ recycled' = FALSE
  /\ UNCHANGED <<env, ctl, handle, state, touching, beat>>

ClearBeat(e) ==
  /\ Alive(e) /\ phase[e] = "cleared"
  /\ Die(e) /\ beat' = "none"
  /\ UNCHANGED <<env, ctl, handle, phase, touching, pidFile, recycled>>

\* Any other end of a child: a crash, SIGKILL, an exit that could not remove the files.
ChildDies(p) ==
  /\ Alive(p) /\ Die(p)
  /\ UNCHANGED <<env, ctl, handle, engineVars>>

\* _DEFAULT_STALE_SEC pass without a touch: the engine is gone, loads, is silent, or late.
BeatAges ==
  /\ beat = "fresh" /\ beat' = "stale"
  /\ UNCHANGED <<env, ctl, handle, state, phase, touching, pidFile, recycled>>

\* The pid of a dead engine still answers: its process is not reaped yet, or the
\* pid was given to another one.
PidReused ==
  /\ pidFile # Nobody /\ ~Alive(pidFile) /\ ~recycled
  /\ recycled' = TRUE
  /\ UNCHANGED <<env, ctl, handle, state, phase, touching, pidFile, beat>>

\* Mutant: the pid alone decides.
SensorRunningPidOnly == pidFile # Nobody /\ (Alive(pidFile) \/ recycled)

\* is_sensor_running: what /ids/health and the dashboard show. A heartbeat that is missing
\* or cannot be read does not count against the pid.
SensorRunning ==
  pidFile # Nobody /\ (Alive(pidFile) \/ recycled) /\ beat # "stale"

-----------------------------------------------------------------------------
SupStep == \/ StartWeb \/ Grace \/ StartIds \/ StartSsl
           \/ Top \/ PollIds \/ PollSsl
           \/ SendTerm \/ Reaped \/ KillLate

EngineStep(e) == \/ WritePid(e) \/ FailPid(e)
                 \/ OpenBeat(e) \/ EndBeat(e) \/ FailBeat(e)
                 \/ StartThreads(e) \/ BeginQuit(e) \/ ClearPid(e) \/ ClearBeat(e)

SupNext ==
  \/ SupStep \/ Signal
  \/ \E e \in Engines : EngineStep(e)
  \/ \E p \in Procs : ChildDies(p)
  \/ BeatAges \/ PidReused

\* The supervisor is scheduled, and time passes. Nothing is asked of the children.
SupFairness == WF_supVars(SupStep) /\ WF_supVars(BeatAges)

SupSpec == SupInit /\ [][SupNext]_supVars /\ SupFairness

-----------------------------------------------------------------------------
\* Properties

\* A supervisor that ended in order leaves no child behind, except an engine
\* whose handle was overwritten when the exit of the interceptor started another.
NoOrphan ==
  ended = "regular" =>
    \A p \in Procs : Alive(p) => p = "ids1" /\ handle["ids"] # "ids1" /\ autoRestart

EnginesGone == \A e \in Engines : ~Alive(e)

\* When every engine is gone and left a heartbeat that can be read, the dashboard does not
\* show LIVE for ever, though the pid in the file may answer again for another process.
CrashShownOffline ==
  (EnginesGone /\ beat \in {"fresh", "stale"}) ~> (~SensorRunning \/ ~EnginesGone)

\* "Web UI marks the sensor OFFLINE after this gap" (env-example:139-140), however the engine
\* ended. This is not so: one that dies in a touch leaves a heartbeat that is missing or
\* empty, and that is no gap to is_sensor_running.
StaleShownOffline == EnginesGone ~> (~SensorRunning \/ ~EnginesGone)

\* A signal ends the supervisor, also when children ignore SIGTERM.
ShutdownCompletes == shutdown ~> sup = "done"

\* "Auto-restart the IDS engine when it exits unexpectedly." (env-example:342)
\* This is not so: TLC finds an engine that crashed and is not started again, for the
\* restart is nested in the branch of an exited interceptor (PollSsl).
AutoRestartsSensor ==
  (autoRestart /\ Exited("ids") /\ ~shutdown)
    ~> (shutdown \/ sup = "done" \/ ~EnginesGone)
=============================================================================

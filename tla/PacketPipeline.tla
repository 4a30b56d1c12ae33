--------------------------- MODULE PacketPipeline ---------------------------
(***************************************************************************)
(* The packet path of the IDS engine process: the Scapy callback, the      *)
(* bounded raw and packet queues (ids/packet_queue.py), the preprocess and *)
(* worker threads (ids_engine.py), the retry loop around the handler, the  *)
(* watchdog that replaces stalled workers (ids/worker_monitoring.py) and   *)
(* the shutdown of the process.                                            *)
(*                                                                         *)
(* A packet is an identity.  What the handler computes is left out: only   *)
(* that it records the verdict in the counters, then publishes it, and     *)
(* that it may raise before or after the first of these, or hang.          *)
(***************************************************************************)
EXTENDS Integers, Sequences, FiniteSets

CONSTANTS
  Packets,        \* the packets on the wire
  Workers,        \* worker ids ("worker-0", ...)
  Preps,          \* preprocess threads; {} is IDS_PREPROCESS_WORKERS = 0
  RawCap,         \* _RAW_QUEUE_MAXSIZE
  PktCap,         \* _QUEUE_MAXSIZE
  KeepEvery,      \* under pressure one packet in KeepEvery is kept (4 in the code)
  MaxRetries,     \* _MAX_RETRIES
  MaxRestarts,    \* bound of the model: restarts of one worker id
  HealthMayFail,  \* health_fn of the watchdog may raise (MySQL unreachable)
  NoPacket        \* an empty hand

ASSUME ConstantsAssumption ==
  /\ RawCap \in Nat \ {0}
  /\ PktCap \in Nat \ {0}
  /\ KeepEvery \in Nat \ {0}
  /\ MaxRetries \in Nat
  /\ MaxRestarts \in Nat
  /\ HealthMayFail \in BOOLEAN
  /\ NoPacket \notin Packets
  /\ IsFiniteSet(Workers)
  /\ IsFiniteSet(Preps)

VARIABLES
  fate,       \* what became of each packet
  rawq,       \* raw_queue
  pktq,       \* packet_queue
  rawUnfinished, pktUnfinished,   \* unfinished_tasks of the two queues
  sample,     \* _sample_counter modulo KeepEvery
  prepPc, prepJob,                \* program counter and packet of a preprocess thread
  pc, job, attempts,              \* the same of a worker thread, and its retry count
  hung,       \* threads blocked inside the handler
  recorded,   \* how often record_analysis_result ran for a packet
  gen,        \* generation of the thread _worker_threads[w] points to
  cancelled,  \* threads whose cancel event is set
  stale,      \* worker ids whose last heartbeat is older than _STALL_THRESHOLD
  watch, scan,                    \* the watchdog thread and the ids it still has to restart
  sniffing,   \* the AsyncSniffer is delivering packets
  phase       \* of the process: "run", "stopping" (_stop_event set), "stopped", "exited"

flowVars  == <<fate, recorded>>
queueVars == <<rawq, pktq, rawUnfinished, pktUnfinished>>
prepVars  == <<prepPc, prepJob>>
workVars  == <<pc, job, attempts, hung>>
watchVars == <<gen, cancelled, stale, watch, scan>>
mainVars  == <<sample, sniffing, phase>>
vars == <<flowVars, queueVars, prepVars, workVars, watchVars, mainVars>>

-----------------------------------------------------------------------------
\* A worker thread is a worker id and the number of its incarnation.
Threads == Workers \X (0 .. MaxRestarts)

Current(w) == <<w, gen[w]>>

Outcomes == {"skipped", "droppedRaw", "malformed", "droppedPkt", "processed", "failed"}
Fates    == {"wire", "accepted"} \cup Outcomes

InHandler == {"analyse", "publish"}
PrepPcs   == {"top", "get", "work", "exited"}
WorkPcs   == {"unborn", "start", "top", "beat", "get", "exited"} \cup InHandler

TypeOK ==
  /\ fate \in [Packets -> Fates]
  /\ rawq \in Seq(Packets) /\ Len(rawq) <= RawCap
  /\ pktq \in Seq(Packets) /\ Len(pktq) <= PktCap
  /\ rawUnfinished \in Int /\ pktUnfinished \in Int
  /\ sample \in 0 .. KeepEvery - 1
  /\ prepPc \in [Preps -> PrepPcs]
  /\ prepJob \in [Preps -> Packets \cup {NoPacket}]
  /\ pc \in [Threads -> WorkPcs]
  /\ job \in [Threads -> Packets \cup {NoPacket}]
  /\ attempts \in [Threads -> 0 .. MaxRetries]
  /\ hung \in SUBSET Threads
  /\ recorded \in [Packets -> Nat]
  /\ gen \in [Workers -> 0 .. MaxRestarts]
  /\ cancelled \in SUBSET Threads
  /\ stale \in SUBSET Workers
  /\ watch \in {"sleep", "scan", "dead"}
  /\ scan \in SUBSET Workers
  /\ sniffing \in BOOLEAN
  /\ phase \in {"run", "stopping", "stopped", "exited"}

Init ==
  /\ fate = [p \in Packets |-> "wire"]
  /\ rawq = << >> /\ pktq = << >>
  /\ rawUnfinished = 0 /\ pktUnfinished = 0
  /\ sample = 0
  /\ prepPc = [r \in Preps |-> "top"]
  /\ prepJob = [r \in Preps |-> NoPacket]
  /\ pc = [t \in Threads |-> IF t[2] = 0 THEN "start" ELSE "unborn"]
  /\ job = [t \in Threads |-> NoPacket]
  /\ attempts = [t \in Threads |-> 0]
  /\ hung = {}
  /\ recorded = [p \in Packets |-> 0]
  /\ gen = [w \in Workers |-> 0]
  /\ cancelled = {} /\ stale = {}
  /\ watch = "sleep" /\ scan = {}
  /\ sniffing = TRUE /\ phase = "run"

Alive == phase # "exited"
Stop  == phase # "run"          \* _stop_event.is_set()

-----------------------------------------------------------------------------
\* The capture callback, run by the sniffer thread.

\* pressure() >= 0.80
UnderPressure == 5 * Len(rawq) >= 4 * RawCap \/ 5 * Len(pktq) >= 4 * PktCap

\* enqueue_raw_packet: put_nowait, or the packet is dropped and counted.
EnqueueRaw(p) ==
  IF Len(rawq) < RawCap
  THEN /\ rawq' = Append(rawq, p)
       /\ rawUnfinished' = rawUnfinished + 1
       /\ fate' = [fate EXCEPT ![p] = "accepted"]
  ELSE /\ fate' = [fate EXCEPT ![p] = "droppedRaw"]
       /\ UNCHANGED <<rawq, rawUnfinished>>

\* enqueue_packet
EnqueuePacket(p) ==
  IF Len(pktq) < PktCap
  THEN /\ pktq' = Append(pktq, p)
       /\ pktUnfinished' = pktUnfinished + 1
       /\ fate' = [fate EXCEPT ![p] = "accepted"]
  ELSE /\ fate' = [fate EXCEPT ![p] = "droppedPkt"]
       /\ UNCHANGED <<pktq, pktUnfinished>>

\* should_skip_under_pressure advances the counter only under pressure.
NextSample == IF UnderPressure THEN (sample + 1) % KeepEvery ELSE sample
Skip       == UnderPressure /\ NextSample # 0

Arrives(p) == Alive /\ sniffing /\ fate[p] = "wire"

CaptureSkip(p) ==
  /\ Arrives(p) /\ Skip
  /\ sample' = NextSample
  /\ fate' = [fate EXCEPT ![p] = "skipped"]
  /\ UNCHANGED <<recorded, queueVars, prepVars, workVars, watchVars, sniffing, phase>>

CaptureRaw(p) ==
  /\ Arrives(p) /\ ~Skip /\ Preps # {}
  /\ sample' = NextSample
  /\ EnqueueRaw(p)
  /\ UNCHANGED <<recorded, pktq, pktUnfinished, prepVars, workVars, watchVars, sniffing, phase>>

\* Without preprocess threads the callback preprocesses the packet itself.
CaptureInline(p) ==
  /\ Arrives(p) /\ ~Skip /\ Preps = {}
  /\ sample' = NextSample
  /\ \/ EnqueuePacket(p) /\ UNCHANGED sniffing
     \/ \* preprocess_packet returned None
        /\ fate' = [fate EXCEPT ![p] = "malformed"]
        /\ UNCHANGED <<pktq, pktUnfinished, sniffing>>
     \/ \* it raised: Scapy closes the capture socket
        /\ fate' = [fate EXCEPT ![p] = "malformed"]
        /\ sniffing' = FALSE
        /\ UNCHANGED <<pktq, pktUnfinished>>
  /\ UNCHANGED <<recorded, rawq, rawUnfinished, prepVars, workVars, watchVars, phase>>

-----------------------------------------------------------------------------
\* _preprocess_loop

PrepCheck(r) ==
  /\ Alive /\ prepPc[r] = "top"
  /\ prepPc' = [prepPc EXCEPT ![r] = IF Stop THEN "exited" ELSE "get"]
  /\ UNCHANGED <<flowVars, queueVars, prepJob, workVars, watchVars, mainVars>>

\* dequeue_raw_packet: a packet, or None after the timeout.
PrepGet(r) ==
  /\ Alive /\ prepPc[r] = "get"
  /\ IF rawq # << >>
     THEN /\ prepJob' = [prepJob EXCEPT ![r] = Head(rawq)]
          /\ rawq' = Tail(rawq)
          /\ prepPc' = [prepPc EXCEPT ![r] = "work"]
     ELSE /\ prepPc' = [prepPc EXCEPT ![r] = "top"]
          /\ UNCHANGED <<prepJob, rawq>>
  /\ UNCHANGED <<flowVars, pktq, rawUnfinished, pktUnfinished, workVars, watchVars, mainVars>>

\* The packet is enqueued, or dropped (None, or an exception that is logged);
\* the finally clause calls task_done() on every path.
PrepFinish(r) ==
  /\ Alive /\ prepPc[r] = "work"
  /\ \/ EnqueuePacket(prepJob[r])
     \/ /\ fate' = [fate EXCEPT ![prepJob[r]] = "malformed"]
        /\ UNCHANGED <<pktq, pktUnfinished>>
  /\ rawUnfinished' = rawUnfinished - 1
  /\ prepJob' = [prepJob EXCEPT ![r] = NoPacket]
  /\ prepPc' = [prepPc EXCEPT ![r] = "top"]
  /\ UNCHANGED <<recorded, rawq, workVars, watchVars, mainVars>>

-----------------------------------------------------------------------------
\* _worker_loop and process_with_retry

Goto(t, l) == pc' = [pc EXCEPT ![t] = l]

\* Mutant: the loop tests the stop event only.
LoopConditionNoCancel(t) == ~Stop

LoopCondition(t) == ~Stop /\ t \notin cancelled

\* The first pass of a new thread: loop condition and heartbeat.
WorkerStart(t) ==
  /\ Alive /\ pc[t] = "start"
  /\ IF LoopCondition(t)
     THEN Goto(t, "get") /\ stale' = stale \ {t[1]}
     ELSE Goto(t, "exited") /\ UNCHANGED stale
  /\ UNCHANGED <<flowVars, queueVars, prepVars, job, attempts, hung,
                 gen, cancelled, watch, scan, mainVars>>

WorkerCheck(t) ==
  /\ Alive /\ pc[t] = "top"
  /\ Goto(t, IF LoopCondition(t) THEN "beat" ELSE "exited")
  /\ UNCHANGED <<flowVars, queueVars, prepVars, job, attempts, hung, watchVars, mainVars>>

\* heartbeat(worker_id) writes the entry of the id, whichever thread calls it.
WorkerBeat(t) ==
  /\ Alive /\ pc[t] = "beat"
  /\ stale' = stale \ {t[1]}
  /\ Goto(t, "get")
  /\ UNCHANGED <<flowVars, queueVars, prepVars, job, attempts, hung,
                 gen, cancelled, watch, scan, mainVars>>

\* Mutant: the worker looks at the head of the queue without removing it.
WorkerPeek(t) ==
  /\ Alive /\ pc[t] = "get"
  /\ IF pktq # << >>
     THEN job' = [job EXCEPT ![t] = Head(pktq)] /\ Goto(t, "analyse")
     ELSE Goto(t, "top") /\ UNCHANGED job
  /\ UNCHANGED <<flowVars, queueVars, prepVars, attempts, hung, watchVars, mainVars>>

WorkerGet(t) ==
  /\ Alive /\ pc[t] = "get"
  /\ IF pktq # << >>
     THEN /\ job' = [job EXCEPT ![t] = Head(pktq)]
          /\ pktq' = Tail(pktq)
          /\ Goto(t, "analyse")
     ELSE Goto(t, "top") /\ UNCHANGED <<job, pktq>>
  /\ UNCHANGED <<flowVars, rawq, rawUnfinished, pktUnfinished, prepVars,
                 attempts, hung, watchVars, mainVars>>

\* _process_packet up to record_analysis_result, which adds to the counters.
Record(t) ==
  /\ Alive /\ pc[t] = "analyse" /\ t \notin hung
  /\ recorded' = [recorded EXCEPT ![job[t]] = @ + 1]
  /\ Goto(t, "publish")
  /\ UNCHANGED <<fate, queueVars, prepVars, job, attempts, hung, watchVars, mainVars>>

\* process_with_retry returns and the finally clause calls task_done().
Settle(t, outcome) ==
  /\ fate' = [fate EXCEPT ![job[t]] = outcome]
  /\ job' = [job EXCEPT ![t] = NoPacket]
  /\ attempts' = [attempts EXCEPT ![t] = 0]
  /\ pktUnfinished' = pktUnfinished - 1
  /\ Goto(t, "top")

\* The rest of _process_packet: log, history and training sample enqueued.
Publish(t) ==
  /\ Alive /\ pc[t] = "publish" /\ t \notin hung
  /\ Settle(t, "processed")
  /\ UNCHANGED <<recorded, rawq, pktq, rawUnfinished, prepVars, hung, watchVars, mainVars>>

\* Mutant: one attempt too many.
RaiseOnceMore(t) ==
  /\ Alive /\ pc[t] \in InHandler /\ t \notin hung
  /\ IF attempts[t] <= MaxRetries
     THEN /\ attempts' = [attempts EXCEPT ![t] = @ + 1]
          /\ Goto(t, "analyse")
          /\ UNCHANGED <<fate, job, pktUnfinished>>
     ELSE Settle(t, "failed")
  /\ UNCHANGED <<recorded, rawq, pktq, rawUnfinished, prepVars, hung, watchVars, mainVars>>

\* The handler raised: the whole handler runs again, at most MaxRetries times.
Raise(t) ==
  /\ Alive /\ pc[t] \in InHandler /\ t \notin hung
  /\ IF attempts[t] < MaxRetries
     THEN /\ attempts' = [attempts EXCEPT ![t] = @ + 1]
          /\ Goto(t, "analyse")
          /\ UNCHANGED <<fate, job, pktUnfinished>>
     ELSE Settle(t, "failed")
  /\ UNCHANGED <<recorded, rawq, pktq, rawUnfinished, prepVars, hung, watchVars, mainVars>>

\* A blocking call inside the handler stops answering, and may answer later.
\* Bound of the model: the last incarnation of a worker id never hangs.
Hang(t) ==
  /\ Alive /\ pc[t] \in InHandler /\ t[2] < MaxRestarts
  /\ t \notin hung
  /\ hung' = hung \cup {t}
  /\ UNCHANGED <<flowVars, queueVars, prepVars, pc, job, attempts, watchVars, mainVars>>

Unhang(t) ==
  /\ Alive /\ t \in hung
  /\ hung' = hung \ {t}
  /\ UNCHANGED <<flowVars, queueVars, prepVars, pc, job, attempts, watchVars, mainVars>>

-----------------------------------------------------------------------------
\* WorkerMonitor._loop and _restart_worker

\* _STALL_THRESHOLD seconds pass while the current thread is in the handler:
\* an idle worker beats every second, a busy one does not beat at all.
StallTimeout(w) ==
  /\ Alive /\ pc[Current(w)] \in InHandler
  /\ stale' = stale \cup {w}
  /\ UNCHANGED <<flowVars, queueVars, prepVars, workVars, gen, cancelled, watch, scan, mainVars>>

\* health_fn answers; the heartbeats are copied under the lock.  A thread that
\* has just been started beats before the next pass, _WATCHDOG_INTERVAL later.
WatchScan ==
  /\ Alive /\ watch = "sleep"
  /\ \A w \in stale : pc[Current(w)] # "start"
  /\ watch' = "scan"
  /\ scan' = {w \in stale : gen[w] < MaxRestarts}
  /\ UNCHANGED <<flowVars, queueVars, prepVars, workVars, gen, cancelled, stale, mainVars>>

\* health_fn raises: nothing in _loop catches it and the thread ends.
WatchDies ==
  /\ Alive /\ HealthMayFail /\ watch = "sleep"
  /\ watch' = "dead"
  /\ UNCHANGED <<flowVars, queueVars, prepVars, workVars, gen, cancelled, stale, scan, mainVars>>

\* Mutants of _restart_worker: the old thread is left alone because it is alive; no
\* successor is started; the successor redoes the packet the old thread still holds.
WatchRestartOnlyDead(w) ==
  /\ Alive /\ watch = "scan" /\ w \in scan
  /\ scan' = scan \ {w}
  /\ UNCHANGED <<flowVars, queueVars, prepVars, workVars, gen, cancelled, stale, watch, mainVars>>

WatchRestartNoThread(w) ==
  /\ Alive /\ watch = "scan" /\ w \in scan
  /\ cancelled' = cancelled \cup {Current(w)}
  /\ gen' = [gen EXCEPT ![w] = @ + 1]
  /\ scan' = scan \ {w}
  /\ UNCHANGED <<flowVars, queueVars, prepVars, workVars, stale, watch, mainVars>>

WatchRestartRedo(w) ==
  /\ Alive /\ watch = "scan" /\ w \in scan
  /\ cancelled' = cancelled \cup {Current(w)}
  /\ gen' = [gen EXCEPT ![w] = @ + 1]
  /\ job' = [job EXCEPT ![<<w, gen[w] + 1>>] = job[Current(w)]]
  /\ Goto(<<w, gen[w] + 1>>, IF job[Current(w)] = NoPacket THEN "start" ELSE "analyse")
  /\ scan' = scan \ {w}
  /\ UNCHANGED <<flowVars, queueVars, prepVars, attempts, hung, stale, watch, mainVars>>

\* _restart_worker: cancel the thread the id points to, start its successor.
WatchRestart(w) ==
  /\ Alive /\ watch = "scan" /\ w \in scan
  /\ cancelled' = IF pc[Current(w)] # "exited" THEN cancelled \cup {Current(w)} ELSE cancelled
  /\ gen' = [gen EXCEPT ![w] = @ + 1]
  /\ Goto(<<w, gen[w] + 1>>, "start")
  /\ scan' = scan \ {w}
  /\ UNCHANGED <<flowVars, queueVars, prepVars, job, attempts, hung, stale, watch, mainVars>>

WatchSleep ==
  /\ Alive /\ watch = "scan" /\ scan = {}
  /\ watch' = "sleep"
  /\ UNCHANGED <<flowVars, queueVars, prepVars, workVars, gen, cancelled, stale, scan, mainVars>>

-----------------------------------------------------------------------------
\* Shutdown: the signal handler, the main thread, the end of the process.

RequestStop ==
  /\ phase = "run"
  /\ phase' = "stopping"
  /\ UNCHANGED <<flowVars, queueVars, prepVars, workVars, watchVars, sample, sniffing>>

StopSniffer ==
  /\ phase = "stopping"
  /\ phase' = "stopped" /\ sniffing' = FALSE
  /\ UNCHANGED <<flowVars, queueVars, prepVars, workVars, watchVars, sample>>

\* Every other thread is a daemon: what they hold and what is queued is lost.
Exit ==
  /\ phase = "stopped"
  /\ phase' = "exited"
  /\ UNCHANGED <<flowVars, queueVars, prepVars, workVars, watchVars, sample, sniffing>>

-----------------------------------------------------------------------------
Capture(p)  == CaptureSkip(p) \/ CaptureRaw(p) \/ CaptureInline(p)
PrepStep(r) == PrepCheck(r) \/ PrepGet(r) \/ PrepFinish(r)
WorkStep(t) == \/ WorkerStart(t) \/ WorkerCheck(t) \/ WorkerBeat(t) \/ WorkerGet(t)
               \/ Record(t) \/ Publish(t) \/ Raise(t)
WatchStep   == WatchScan \/ WatchSleep \/ \E w \in Workers : WatchRestart(w)
MainStep    == RequestStop \/ StopSniffer \/ Exit

Next ==
  \/ \E p \in Packets : Capture(p)
  \/ \E r \in Preps : PrepStep(r)
  \/ \E t \in Threads : WorkStep(t) \/ Hang(t) \/ Unhang(t)
  \/ \E w \in Workers : StallTimeout(w)
  \/ WatchStep \/ WatchDies \/ MainStep

\* Every thread that can run is scheduled.  A hung handler is not obliged to
\* answer, but time passes while it hangs; a call that does answer gives the
\* thread back, so a worker whose calls answer again and again gets on (SF).
HungStall(w) == Current(w) \in hung /\ StallTimeout(w)

Fairness ==
  /\ \A r \in Preps : WF_vars(PrepStep(r))
  /\ \A t \in Threads : SF_vars(WorkStep(t))
  /\ \A w \in Workers : WF_vars(HungStall(w))
  /\ WF_vars(WatchStep)

Spec     == Init /\ [][Next]_vars
FairSpec == Spec /\ Fairness

-----------------------------------------------------------------------------
\* Properties

\* Every place in the pipeline where a packet is.
Places(p) ==
       {<<"raw", i>> : i \in {j \in 1 .. Len(rawq) : rawq[j] = p}}
  \cup {<<"prep", r>> : r \in {s \in Preps : prepJob[s] = p}}
  \cup {<<"pkt", i>> : i \in {j \in 1 .. Len(pktq) : pktq[j] = p}}
  \cup {<<"job", t>> : t \in {u \in Threads : job[u] = p}}

\* A packet that was accepted and is not settled is in exactly one place (a
\* queue, a preprocess thread's or a worker's hands), and a packet in a place
\* has no outcome yet: queues, retries and worker replacement neither lose a
\* packet without an outcome nor hand it to two threads.
Conservation ==
  \A p \in Packets :
    /\ fate[p] = "accepted" <=> Places(p) # {}
    /\ \A x, y \in Places(p) : x = y

\* One thread per worker id is in charge: every older incarnation has been
\* told to stop (or is gone), the current one has not, none beyond it runs.
OneWorkerPerId ==
  \A t \in Threads :
    /\ t[2] < gen[t[1]] => t \in cancelled \/ pc[t] = "exited"
    /\ t[2] = gen[t[1]] => t \notin cancelled
    /\ t[2] > gen[t[1]] => pc[t] = "unborn"

\* The counters see each verdict between once and 1 + MaxRetries times: a
\* packet reported as processed was recorded, a packet not yet taken by a
\* worker was not, and the retries bound the recounting.
RecordedBounded ==
  \A p \in Packets :
    /\ recorded[p] <= MaxRetries + 1
    /\ fate[p] = "processed" => recorded[p] >= 1
    /\ recorded[p] > 0 => fate[p] \in {"processed", "failed"} \/ \E t \in Threads : job[t] = p

\* A cancelled worker thread finishes what it holds and takes at most one
\* more packet: none once it has passed the test of its loop condition.
CancelledWorkerWindsDown ==
  [][\A t \in Threads : t \in cancelled /\ pc[t] \in InHandler \cup {"top"}
       => pc'[t] \notin {"beat", "get"}]_vars

\* When the watchdog replaces a worker that still runs, one thread of the id is in charge,
\* and the old one winds down.
CleanReplacement == []OneWorkerPerId /\ CancelledWorkerWindsDown

PktQueued(p) == \E i \in 1 .. Len(pktq) : pktq[i] = p

\* While the process runs, a packet in the packet queue is eventually taken,
\* even when the handlers of all worker threads hang: the watchdog puts a fresh
\* thread in the place of each.
QueuedServed == \A p \in Packets : PktQueued(p) ~> ~PktQueued(p) \/ Stop

\* "Watchdog for packet workers and log writer - restarts stalled threads."
\* (ids/worker_monitoring.py:2): a worker id does not stay with a hung thread.
StalledReplaced ==
  \A w \in Workers : Current(w) \in hung ~> Current(w) \notin hung \/ Stop

\* The pipeline implements PacketFlow: the packets that wait are the ones found
\* in a queue or in a thread's hands, and their number is bounded by the two
\* queues, one packet per preprocess thread and one per worker incarnation.
Flow == INSTANCE PacketFlow WITH
          waiting  <- {p \in Packets : Places(p) # {}},
          settled  <- {p \in Packets : fate[p] \in Outcomes},
          Capacity <- RawCap + PktCap + Cardinality(Preps) + Cardinality(Threads)

ImplementsFlow == Flow!Spec
=============================================================================

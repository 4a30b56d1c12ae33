------------------------------- MODULE Windows -------------------------------
(***************************************************************************)
(* The tables the detectors keep per source and per flow: the windows of   *)
(* engine/behavior.py (floods, port scans) and engine/dns_behavior.py      *)
(* (many names asked for), whose sources are evicted at capacity, and the  *)
(* flows of engine/flow_manager.py, evicted when idle by the clock of the  *)
(* packets.  One shard of each; its lock makes every call one step.        *)
(***************************************************************************)
EXTENDS Integers, Sequences, FiniteSets

CONSTANTS
  Span,       \* _MAX_WINDOW (_PORT_SCAN_WINDOW); DNS_WINDOW_SECONDS
  FloodWindow,  \* _FLOOD_WINDOW
  Flood, Many,  \* _FLOOD_THRESHOLD; _PORT_SCAN_THRESHOLD, DNS_UNIQUE_QNAMES_SUSPICIOUS
  Length,       \* maxlen of a window
  Capacity,     \* sources of a shard at which idle ones are evicted
  FlowIdle,     \* _FLOW_IDLE_TIMEOUT_S
  FlowSweep,   \* _FLOW_EVICT_EVERY
  WindowBounds  \* bounds of the behaviours: the table, its keys, the ports or names, how
                \* late a packet is handled, how many packets, the last second of the clock

ASSUME WindowAssumption ==
  /\ {Span, FloodWindow, Flood, Many, Length, Capacity, FlowIdle, FlowSweep} \subseteq Nat \ {0}
  /\ FloodWindow <= Span
  /\ \A b \in WindowBounds : /\ b.table \in {"ports", "names", "flows"}
                             /\ b.late \in Nat /\ b.late <= FlowIdle

VARIABLES
  trial,   \* the bound of this behaviour
  second,
  windows, \* _ip_activity or _dns_activity: the windows of the sources there are
  flows,   \* _flow_tables: last_seen and fwd_packets of the flows there are
  inserts, \* _flow_inserts
  verdict, \* what the last call returned: for whom, the reason or the count
  past     \* all packets there were, and whether their window was an evicted one (history)

windowVars == <<trial, second, windows, flows, inserts, verdict, past>>

WindowInit ==
  /\ trial \in WindowBounds /\ second = 1
  /\ windows = <<>> /\ flows = <<>> /\ inserts = 0
  /\ verdict = [of |-> 0, is |-> "none"] /\ past = <<>>

WindowTick ==
  /\ second < trial.until /\ second' = second + 1
  /\ UNCHANGED <<trial, windows, flows, inserts, verdict, past>>

-----------------------------------------------------------------------------
\* detect and detect_dns

\* The events e with the indices D: those from i on, the newest first.
NotBefore(D, i) == {j \in D : i <= j}
Flooded(e, D, i) ==
  Cardinality({j \in NotBefore(D, i) : second - e[j].time <= FloodWindow}) > Flood
Scanned(e, D, i) == Cardinality({e[j].item : j \in NotBefore(D, i)}) >= Many

\* The newest event first: whichever count reaches its threshold first is the reason.
Ports(e, D) ==
  IF \E i \in D : Flooded(e, D, i) /\ \A j \in D : i < j => ~Scanned(e, D, j) THEN "flood"
  ELSE IF \E i \in D : Scanned(e, D, i) THEN "scan" ELSE "none"

Names(e, D) == IF Cardinality({e[i].item : i \in D}) >= Many THEN "many" ELSE "none"

Reason(e, D) == IF trial.table = "ports" THEN Ports(e, D) ELSE Names(e, D)

\* Mutant: a window whose first event is old.
IdleSourceFirst(s) == windows[s] = <<>> \/ second - windows[s][1].time > Span

\* A window is idle when its newest event is old.
IdleSource(s) == windows[s] = <<>> \/ second - windows[s][Len(windows[s])].time > Span

\* Mutant: the new one stays.
TrackedNew(s) ==
  IF s \in DOMAIN windows THEN DOMAIN windows
  ELSE IF Cardinality(DOMAIN windows) < Capacity THEN DOMAIN windows \cup {s}
  ELSE {i \in DOMAIN windows : ~IdleSource(i)} \cup {s}

\* A window is added; above capacity the idle ones go, and the new one, which is empty.
Tracked(s) ==
  IF s \in DOMAIN windows THEN DOMAIN windows
  ELSE IF Cardinality(DOMAIN windows) < Capacity THEN DOMAIN windows \cup {s}
  ELSE {i \in DOMAIN windows : ~IdleSource(i)}

EventsOf(s) == IF s \in DOMAIN windows THEN windows[s] ELSE <<>>

\* The event is appended, which may push the oldest out, and the old ones are dropped from
\* the front.
Extended(s, x) ==
  LET w     == EventsOf(s) \o <<[time |-> second, item |-> x]>>
      fits  == {i \in DOMAIN w : Len(w) - i < Length /\ second - w[i].time <= Span}
      first == CHOOSE i \in fits : \A j \in fits : i <= j
  IN SubSeq(w, first, Len(w))

Detect(s, x) ==
  /\ trial.table # "flows" /\ Len(past) < trial.packets
  /\ windows' = [i \in Tracked(s) |-> IF i = s THEN Extended(s, x) ELSE windows[i]]
  /\ verdict' = [of |-> s, is |-> Reason(Extended(s, x), DOMAIN Extended(s, x))]
  /\ past' = past \o <<[of |-> s, time |-> second, item |-> x, lost |-> s \notin Tracked(s)]>>
  /\ UNCHANGED <<trial, second, flows, inserts>>

-----------------------------------------------------------------------------
\* update_flow

\* Mutant: the time of the last packet stays that of the first.
SeenFirst(f, t) == f.seen

Seen(f, t) == t

\* The clock is that of the packet, which is handled late, and by any worker.
UpdateFlow(f, t) ==
  LET added == f \notin DOMAIN flows
      sweep == added /\ (inserts + 1) % FlowSweep = 0
      kept  == {i \in DOMAIN flows : sweep => flows[i].seen >= t - FlowIdle}
      flow  == IF added THEN [seen |-> t, packets |-> 0] ELSE flows[f]
  IN /\ trial.table = "flows" /\ Len(past) < trial.packets
     /\ inserts' = IF added THEN inserts + 1 ELSE inserts
     /\ flows' = [i \in kept \cup {f} |->
                    IF i = f THEN [seen |-> Seen(flow, t), packets |-> flow.packets + 1]
                    ELSE flows[i]]
     /\ verdict' = [of |-> f, is |-> flow.packets + 1]
     /\ past' = past \o <<[of |-> f, time |-> second, item |-> t, lost |-> FALSE]>>
     /\ UNCHANGED <<trial, second, windows>>

WindowNext ==
  \/ WindowTick
  \/ \E s \in trial.keys : \/ \E x \in trial.items : Detect(s, x)
                          \/ \E d \in 0 .. trial.late : second - d > 0 /\ UpdateFlow(s, second - d)

WindowSpec == WindowInit /\ [][WindowNext]_windowVars

-----------------------------------------------------------------------------
\* Properties

\* The packets of the source of the last call that are in its window: not those whose own
\* window was evicted as it was made.
Recent ==
  {i \in DOMAIN past : /\ past[i].of = verdict.of /\ second - past[i].time <= Span
                       /\ past[i].lost => i = Len(past)}

\* The reason given for a packet is that of all packets of its source in the window,
\* whatever was evicted in between, but for those whose own window was evicted as it was
\* made and those a full window pushed out.
VerdictExact ==
  /\ trial.table # "flows" /\ past # <<>> /\ past[Len(past)].time = second
  /\ Cardinality(Recent) <= Length
  => verdict.is = Reason(past, Recent)

\* However many sources there are, a table holds at most its capacity of windows.
TableBounded == Cardinality(DOMAIN windows) <= Capacity

\* The packets of flow f, in the order they were handled.
PacketsOf(f) == {i \in DOMAIN past : past[i].of = f}

From(f, i) == {j \in PacketsOf(f) : i <= j}

\* From packet i of f on, none is far from the one before.
Dense(f, i) ==
  \A j, k \in PacketsOf(f) :
    i <= j /\ j < k /\ (\A m \in PacketsOf(f) : m <= j \/ k <= m)
    => past[k].time - past[j].time <= FlowIdle - trial.late

\* The packets of a flow that follow each other within the idle time, less what a packet
\* may be late, are counted as one flow, in whatever order the workers handle them.
FlowKept ==
  trial.table = "flows" /\ past # <<>> =>
    \A i \in PacketsOf(verdict.of) :
      Dense(verdict.of, i) => verdict.is >= Cardinality(From(verdict.of, i))
=============================================================================

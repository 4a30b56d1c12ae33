----------------------------- MODULE FeedProofs -----------------------------
(***************************************************************************)
(* Proofs about what the sensor and the routes tell the browser.           *)
(* Telemetry, for every number of threads, events and restarts: no copy of *)
(* the counters exceeds what the sensor has recorded.  AuditFeed, for      *)
(* every set of senders and pages: a row that a page lacks is explained by *)
(* the limits of its queue, and a walk through the pages to the end misses *)
(* no row that was there at the start, whatever loads overlap or fail.     *)
(***************************************************************************)
EXTENDS Telemetry, AuditFeed, Integers, FiniteSetTheorems, WellFoundedInduction, TLAPS

\* What a thread has in hand is bounded like the copies it was read from, also
\* when the two counters were read at different times.
HandsBelow == \A t \in Threads : Below(task[t].got, seen)

CopiesBelow ==
  /\ Below(row, seen)
  /\ \A p \in Procs : Below(live[p], seen)
  /\ \A m \in mail : Below(m, seen)

IInv == TypeOK /\ HandsBelow /\ CopiesBelow

-----------------------------------------------------------------------------
\* What has been recorded only grows, so a copy stays below it.
LEMMA BelowGrows ==
  ASSUME NEW c \in Counts, NEW d \in Counts, NEW e \in Counts, Below(c, d), Below(d, e)
  PROVE  Below(c, e)
  BY DEF Counts, Below

LEMMA GotType == ASSUME TypeOK, NEW t \in Threads PROVE task[t].got \in Counts
<1>1. task[t] \in Tasks
  BY DEF TypeOK
<1> QED BY <1>1 DEF Tasks, Idle, Gone, Zero, Counts

LEMMA InitIInv == Init => IInv
<1> SUFFICES ASSUME Init PROVE IInv
  OBVIOUS
<1>1. Zero \in Counts /\ Idle \in Tasks /\ Idle.got = Zero
  BY DEF Zero, Counts, Tasks, Idle
<1>2. Below(Zero, Zero)
  BY DEF Below, Zero
<1>3. TypeOK
  BY <1>1, TelemetryAssumption DEF Init, TypeOK
<1> QED BY <1>1, <1>2, <1>3 DEF Init, IInv, HandsBelow, CopiesBelow

\* Setting the task of one thread to counters that are bounded keeps the bounds.
LEMMA TaskStep ==
  ASSUME IInv, NEW t \in Threads, NEW new \in Tasks, Below(new.got, seen),
         task' = [task EXCEPT ![t] = new], seen' = seen
  PROVE  task' \in [Threads -> Tasks] /\ HandsBelow'
<1>1. task \in [Threads -> Tasks]
  BY DEF IInv, TypeOK
<1> QED BY <1>1 DEF IInv, HandsBelow

\* The tasks the actions set.
LEMMA TaskTypes ==
  ASSUME NEW c \in Counts
  PROVE  /\ \A s \in Steps : [at |-> s, got |-> c] \in Tasks
         /\ Idle \in Tasks /\ Gone \in Tasks
         /\ Zero \in Counts /\ Idle.got = Zero /\ Gone.got = Zero
         /\ seen \in Counts => Below(Zero, seen)
  BY DEF Tasks, Idle, Gone, Zero, Counts, Below

\* Recording adds one to the memory of the sensor and one to the truth.
LEMMA RecordIInv ==
  ASSUME IInv, NEW t \in Threads, RecordCaptured(t) \/ RecordVerdict(t)
  PROVE  IInv'
<1>1. /\ seen \in Counts /\ row \in Counts /\ live \in [Procs -> Counts]
      /\ mail \subseteq Counts /\ task \in [Threads -> Tasks] /\ recent \subseteq Procs
  BY DEF IInv, TypeOK
<1>2. UNCHANGED <<row, mail, restarts>>
  BY DEF RecordCaptured, RecordVerdict
<1>3. seen' \in Counts /\ Below(seen, seen')
  BY <1>1 DEF RecordCaptured, RecordVerdict, Counts, Below
<1>4. /\ live' \in [Procs -> Counts] /\ live'["web"] = live["web"]
      /\ Below(live'["sensor"], seen')
  <2>1. live["sensor"] \in Counts /\ Below(live["sensor"], seen)
    BY <1>1 DEF IInv, CopiesBelow, Procs
  <2>2. CASE RecordCaptured(t)
    <3>1. /\ seen' = [seen EXCEPT !.total = @ + 1]
          /\ live' = [live EXCEPT !["sensor"].total = @ + 1]
      BY <2>2 DEF RecordCaptured
    <3>2. live' = [live EXCEPT !["sensor"] = [live["sensor"] EXCEPT !.total = @ + 1]]
      BY <3>1
    <3>3. /\ live'["sensor"] = [live["sensor"] EXCEPT !.total = @ + 1]
          /\ live'["web"] = live["web"]
      BY <1>1, <3>2 DEF Procs
    <3>4. live'["sensor"] \in Counts /\ Below(live'["sensor"], seen')
      BY <1>1, <2>1, <3>1, <3>3 DEF Counts, Below
    <3>5. live' \in [Procs -> Counts]
      BY <1>1, <3>2, <3>3, <3>4
    <3> QED BY <3>3, <3>4, <3>5
  <2>3. CASE RecordVerdict(t)
    <3>1. /\ seen' = [seen EXCEPT !.verdicts = @ + 1]
          /\ live' = [live EXCEPT !["sensor"].verdicts = @ + 1]
      BY <2>3 DEF RecordVerdict
    <3>2. live' = [live EXCEPT !["sensor"] = [live["sensor"] EXCEPT !.verdicts = @ + 1]]
      BY <3>1
    <3>3. /\ live'["sensor"] = [live["sensor"] EXCEPT !.verdicts = @ + 1]
          /\ live'["web"] = live["web"]
      BY <1>1, <3>2 DEF Procs
    <3>4. live'["sensor"] \in Counts /\ Below(live'["sensor"], seen')
      BY <1>1, <2>1, <3>1, <3>3 DEF Counts, Below
    <3>5. live' \in [Procs -> Counts]
      BY <1>1, <3>2, <3>3, <3>4
    <3> QED BY <3>3, <3>4, <3>5
  <2> QED BY <2>2, <2>3
<1>5. /\ recent' \subseteq Procs
      /\ \/ task' = task
         \/ task' = [task EXCEPT ![t] = [at |-> "readTotal", got |-> Zero]]
  BY <1>1 DEF RecordCaptured, RecordVerdict, MaybePersist, Do, Procs
<1>6. [at |-> "readTotal", got |-> Zero] \in Tasks /\ Below(Zero, seen)
  BY <1>1, TaskTypes DEF Steps, Zero, Counts
<1>7. task' \in [Threads -> Tasks] /\ \A u \in Threads : Below(task'[u].got, seen)
  BY <1>1, <1>5, <1>6 DEF IInv, HandsBelow
<1>8. TypeOK'
  BY <1>1, <1>2, <1>3, <1>4, <1>5, <1>7 DEF IInv, TypeOK
<1>9. HandsBelow'
  <2> SUFFICES ASSUME NEW u \in Threads PROVE Below(task'[u].got, seen')
    BY DEF HandsBelow
  <2>1. task'[u].got \in Counts
    BY <1>7 DEF Tasks, Idle, Gone, Zero, Counts
  <2> QED BY <1>1, <1>3, <1>7, <2>1, BelowGrows
<1>10. CopiesBelow'
  <2>1. Below(row, seen') /\ Below(live["web"], seen')
    BY <1>1, <1>3, BelowGrows DEF IInv, CopiesBelow, Procs
  <2>2. \A m \in mail : Below(m, seen')
    BY <1>1, <1>3, BelowGrows DEF IInv, CopiesBelow
  <2> QED BY <1>2, <1>4, <2>1, <2>2 DEF CopiesBelow, Procs
<1> QED BY <1>8, <1>9, <1>10 DEF IInv

\* Every other step of a thread moves a copy to another place.
LEMMA CopyIInv ==
  ASSUME IInv, NEW t \in Threads,
         \/ ReadTotal(t) \/ ReadVerdicts(t) \/ Write(t) \/ ReadRow(t) \/ SetLive(t)
         \/ \E m \in mail : Apply(t, m)
  PROVE  IInv'
<1>1. /\ seen \in Counts /\ row \in Counts /\ live \in [Procs -> Counts]
      /\ mail \subseteq Counts /\ task \in [Threads -> Tasks]
      /\ Home(t) \in Procs /\ live[Home(t)] \in Counts /\ task[t].got \in Counts
  BY GotType DEF IInv, TypeOK, Home, Procs
<1>2. /\ Below(row, seen) /\ Below(live[Home(t)], seen) /\ Below(task[t].got, seen)
      /\ \A p \in Procs : Below(live[p], seen)
      /\ \A m \in mail : Below(m, seen)
  BY <1>1 DEF IInv, HandsBelow, CopiesBelow
<1>3. UNCHANGED <<seen, recent, restarts>>
  BY DEF ReadTotal, ReadVerdicts, Write, ReadRow, SetLive, Apply
<1>4. \E new \in Tasks : Below(new.got, seen) /\ task' = [task EXCEPT ![t] = new]
  <2>1. CASE ReadTotal(t)
    <3> DEFINE c == [Zero EXCEPT !.total = live[Home(t)].total]
    <3>1. c \in Counts /\ Below(c, seen)
      BY <1>1, <1>2 DEF Zero, Counts, Below
    <3>2. [at |-> "readVerdicts", got |-> c] \in Tasks
      BY <3>1 DEF Tasks, Steps
    <3> QED BY <2>1, <3>1, <3>2 DEF ReadTotal, Do
  <2>2. CASE ReadVerdicts(t)
    <3> DEFINE c == [task[t].got EXCEPT !.verdicts = live[Home(t)].verdicts]
    <3>1. c \in Counts /\ Below(c, seen)
      BY <1>1, <1>2 DEF Counts, Below
    <3>2. [at |-> "write", got |-> c] \in Tasks
      BY <3>1 DEF Tasks, Steps
    <3> QED BY <2>2, <3>1, <3>2 DEF ReadVerdicts, Do
  <2>3. CASE Write(t)
    <3>1. \/ task' = [task EXCEPT ![t] = [at |-> "load", got |-> Zero]]
          \/ task' = [task EXCEPT ![t] = Gone]
          \/ task' = [task EXCEPT ![t] = Idle]
          \/ task' = task
      BY <2>3 DEF Write, Do, Rest
    <3>2. /\ Zero \in Counts /\ Below(Zero, seen) /\ Idle.got = Zero /\ Gone.got = Zero
          /\ {Idle, Gone, task[t], [at |-> "load", got |-> Zero]} \subseteq Tasks
      BY <1>1, TaskTypes DEF Steps, Zero, Counts
    <3>3. task = [task EXCEPT ![t] = task[t]]
      BY <1>1
    <3>4. [at |-> "load", got |-> Zero].got = Zero
      OBVIOUS
    <3> QED BY <1>2, <3>1, <3>2, <3>3, <3>4
  <2>4. CASE ReadRow(t)
    BY <1>1, <1>2, <2>4, TaskTypes DEF ReadRow, Do, Steps
  <2>5. CASE SetLive(t)
    BY <1>1, <1>2, <2>5, TaskTypes DEF SetLive, Rest
  <2>6. CASE \E m \in mail : Apply(t, m)
    BY <1>1, <1>2, <2>6, TaskTypes DEF Apply, Do, Steps
  <2> QED BY <2>1, <2>2, <2>3, <2>4, <2>5, <2>6
<1>5. task' \in [Threads -> Tasks] /\ HandsBelow'
  BY <1>3, <1>4, TaskStep
<1>6. /\ row' \in Counts /\ Below(row', seen)
      /\ mail' \subseteq mail
      /\ live' \in [Procs -> Counts] /\ \A p \in Procs : Below(live'[p], seen)
  BY <1>1, <1>2 DEF ReadTotal, ReadVerdicts, Write, ReadRow, SetLive, Apply, Procs
<1>7. TypeOK'
  BY <1>1, <1>3, <1>5, <1>6 DEF IInv, TypeOK
<1>8. CopiesBelow'
  BY <1>2, <1>3, <1>6 DEF CopiesBelow
<1> QED BY <1>5, <1>7, <1>8 DEF IInv

\* The steps of the sender, the clock and the ends of the processes.
LEMMA OtherIInv ==
  ASSUME IInv,
         \/ IntervalPasses \/ Post \/ ShutDown
         \/ \E m \in mail : Lose(m)
         \/ \E p \in Procs : Restart(p)
  PROVE  IInv'
<1>1. /\ seen \in Counts /\ row \in Counts /\ live \in [Procs -> Counts]
      /\ mail \subseteq Counts /\ task \in [Threads -> Tasks] /\ recent \subseteq Procs
      /\ restarts \in 0 .. MaxRestarts
      /\ Below(row, seen) /\ \A p \in Procs : Below(live[p], seen)
      /\ \A m \in mail : Below(m, seen)
  BY DEF IInv, TypeOK, CopiesBelow
<1>2. Zero \in Counts /\ Below(Zero, seen) /\ Idle \in Tasks /\ Idle.got = Zero
  BY <1>1, TaskTypes
<1>3. CASE IntervalPasses \/ Post \/ \E m \in mail : Lose(m)
  <2>1. /\ UNCHANGED <<seen, live, row, task, restarts>> /\ recent' \subseteq Procs
        /\ mail' \subseteq Counts /\ \A m \in mail' : Below(m, seen)
    BY <1>1, <1>3 DEF IntervalPasses, Post, Lose, Procs
  <2> QED BY <1>1, <2>1 DEF IInv, TypeOK, HandsBelow, CopiesBelow
<1>4. CASE ShutDown
  <2>1. [at |-> "readTotal", got |-> Zero] \in Tasks
    BY <1>2 DEF Tasks, Steps
  <2>2. task' \in [Threads -> Tasks] /\ HandsBelow'
    BY <1>2, <1>4, <2>1, TaskStep DEF ShutDown, Do, Threads
  <2> QED BY <1>1, <1>4, <2>2 DEF ShutDown, IInv, TypeOK, CopiesBelow
<1>5. CASE \E p \in Procs : Restart(p)
  <2>1. PICK p \in Procs : Restart(p)
    BY <1>5
  <2>2. live' \in [Procs -> Counts] /\ \A q \in Procs : Below(live'[q], seen)
    BY <1>1, <1>2, <2>1 DEF Restart
  <2>3. /\ UNCHANGED <<seen, row, mail>> /\ recent' \subseteq Procs
        /\ task' = [t \in Threads |-> IF Home(t) = p THEN Idle ELSE task[t]]
    BY <1>1, <2>1 DEF Restart
  <2>4. restarts' \in 0 .. MaxRestarts
    BY <1>1, <2>1, TelemetryAssumption DEF Restart
  <2>5. task' \in [Threads -> Tasks]
    BY <1>1, <1>2, <2>3
  <2>6. HandsBelow'
    BY <1>2, <2>3 DEF IInv, HandsBelow
  <2> QED BY <1>1, <2>2, <2>3, <2>4, <2>5, <2>6 DEF IInv, TypeOK, CopiesBelow
<1> QED BY <1>3, <1>4, <1>5

\* The inductive invariant.
THEOREM Inductive == Spec => []IInv
<1>1. IInv /\ [Next]_vars => IInv'
  <2> SUFFICES ASSUME IInv, Next \/ UNCHANGED vars PROVE IInv'
    OBVIOUS
  <2>1. CASE UNCHANGED vars
    BY <2>1 DEF vars, IInv, TypeOK, HandsBelow, CopiesBelow
  <2>2. ASSUME NEW t \in Threads, Step(t) PROVE IInv'
    <3>1. CASE RecordCaptured(t) \/ RecordVerdict(t)
      BY <3>1, RecordIInv
    <3>2. CASE \/ ReadTotal(t) \/ ReadVerdicts(t) \/ Write(t) \/ ReadRow(t) \/ SetLive(t)
              \/ \E m \in mail : Apply(t, m)
      BY <3>2, CopyIInv
    <3> QED BY <2>2, <3>1, <3>2 DEF Step
  <2>3. CASE IntervalPasses \/ Post \/ ShutDown
    BY <2>3, OtherIInv
  <2>4. ASSUME NEW m \in mail, Lose(m) PROVE IInv'
    BY <2>4, OtherIInv
  <2>5. ASSUME NEW p \in Procs, Restart(p) PROVE IInv'
    BY <2>5, OtherIInv
  <2> QED BY <2>1, <2>2, <2>3, <2>4, <2>5 DEF Next
<1> QED BY <1>1, InitIInv, PTL DEF Spec

\* The variables keep their types.
THEOREM TypeCorrect == Spec => []TypeOK
<1>1. IInv => TypeOK
  BY DEF IInv
<1> QED BY <1>1, Inductive, PTL

\* No copy of the counters, in memory, in the database or on its way to the web
\* server, exceeds what the sensor has recorded.
THEOREM NothingCountedTwice == Spec => []NeverOvercounts
<1>1. IInv => NeverOvercounts
  BY DEF IInv, CopiesBelow, NeverOvercounts, Procs
<1> QED BY <1>1, Inductive, PTL

-----------------------------------------------------------------------------
\* The event stream

FeedType ==
  /\ bound \in Bounds
  /\ copied \in [Senders -> SUBSET (Pages \X Nat)]
  /\ todo \in [Senders -> SUBSET (Pages \X Nat)]
  /\ dead \in [Senders -> SUBSET (Pages \X Nat)]
  /\ listed \subseteq Pages \X Nat
  /\ queue \in [Pages -> Seq(Senders)] /\ stream \in [Pages -> Nat]
  /\ got \in [Pages -> SUBSET Senders] /\ missed \in [Pages -> SUBSET Senders]

\* A sender serves listeners that were on the list, of streams that were opened.
Opened ==
  /\ \A l \in listed : l[2] <= stream[l[1]]
  /\ \A s \in Senders : \A l \in copied[s] \cup dead[s] : l[2] <= stream[l[1]]

\* What a sender put for an open stream was delivered, waits or had no room.
Delivered ==
  \A p \in Pages : Open(p) =>
    \A s \in Senders : Listener(p) \in copied[s] \ todo[s] =>
      s \in got[p] \cup ToSet(queue[p]) \cup missed[p]

\* A stream that is open is on the list, and given up only by a sender that found it full.
Served ==
  \A p \in Pages : Open(p) =>
    /\ \A s \in Senders : Listener(p) \in dead[s] => missed[p] # {}
    /\ Listener(p) \notin listed => missed[p] # {}

FeedInv == FeedType /\ Opened /\ Delivered /\ Served

LEMMA ListenerPage ==
  ASSUME FeedType, NEW p \in Pages
  PROVE  /\ Listener(p) \in Pages \X Nat /\ Listener(p)[1] = p /\ Listener(p)[2] = stream[p]
         /\ stream[p] \in Nat
  BY DEF FeedType, Listener

\* The two ends of a queue.
LEMMA QueueEnds ==
  ASSUME NEW q \in Seq(Senders)
  PROVE  /\ \A s \in Senders : /\ Append(q, s) \in Seq(Senders)
                               /\ ToSet(Append(q, s)) = ToSet(q) \cup {s}
         /\ q # <<>> => /\ Head(q) \in Senders /\ Tail(q) \in Seq(Senders)
                        /\ ToSet(q) = {Head(q)} \cup ToSet(Tail(q))
<1>1. ASSUME NEW s \in Senders
      PROVE  Append(q, s) \in Seq(Senders) /\ ToSet(Append(q, s)) = ToSet(q) \cup {s}
  <2>1. Append(q, s) \in Seq(Senders) /\ Len(Append(q, s)) = Len(q) + 1 /\ Len(q) \in Nat
    OBVIOUS
  <2>2. \A i \in 1 .. Len(q) : Append(q, s)[i] = q[i]
    OBVIOUS
  <2>3. Append(q, s)[Len(q) + 1] = s
    OBVIOUS
  <2>4. DOMAIN q = 1 .. Len(q) /\ DOMAIN Append(q, s) = 1 .. Len(q) + 1
    BY <2>1
  <2> QED BY <2>1, <2>2, <2>3, <2>4 DEF ToSet
<1>2. ASSUME q # <<>>
      PROVE  /\ Head(q) \in Senders /\ Tail(q) \in Seq(Senders)
             /\ ToSet(q) = {Head(q)} \cup ToSet(Tail(q))
  <2>1. /\ Len(q) \in Nat /\ Len(q) > 0 /\ Tail(q) \in Seq(Senders) /\ Head(q) = q[1]
        /\ Len(Tail(q)) = Len(q) - 1
    BY <1>2
  <2>2. \A i \in 1 .. Len(q) - 1 : Tail(q)[i] = q[i + 1]
    BY <1>2, <2>1
  <2>3. DOMAIN q = 1 .. Len(q) /\ DOMAIN Tail(q) = 1 .. Len(q) - 1
    BY <2>1
  <2>4. q[1] \in Senders
    BY <2>1
  <2>5. \A i \in 1 .. Len(q) : i = 1 \/ (i - 1 \in 1 .. Len(q) - 1 /\ q[i] = Tail(q)[i - 1])
    BY <2>1, <2>2
  <2>6. \A x \in ToSet(q) : x = Head(q) \/ x \in ToSet(Tail(q))
    <3> SUFFICES ASSUME NEW i \in 1 .. Len(q)
                 PROVE  q[i] = Head(q) \/ q[i] \in ToSet(Tail(q))
      BY <2>3 DEF ToSet
    <3>1. CASE i = 1
      BY <2>1, <3>1
    <3>2. CASE i - 1 \in DOMAIN Tail(q) /\ q[i] = Tail(q)[i - 1]
      BY <3>2 DEF ToSet
    <3> QED BY <2>3, <2>5, <3>1, <3>2
  <2>7. \A x \in ToSet(Tail(q)) : x \in ToSet(q)
    BY <2>1, <2>2, <2>3 DEF ToSet
  <2>8. Head(q) \in ToSet(q)
    BY <2>1, <2>3 DEF ToSet
  <2> QED BY <2>1, <2>4, <2>6, <2>7, <2>8
<1> QED BY <1>1, <1>2

LEMMA FeedInitInv == FeedInit => FeedInv
  BY DEF FeedInit, FeedInv, FeedType, Opened, Delivered, Served, Open

\* Steps that leave the streams and the senders' lists alone.
LEMMA FeedSame ==
  ASSUME FeedInv, UNCHANGED <<bound, copied, todo, dead, feed>>
  PROVE  FeedInv'
<1>1. UNCHANGED <<bound, copied, todo, dead, listed, queue, stream, got, missed>>
  BY DEF feed
<1>2. \A p : Open(p)' = Open(p) /\ Listener(p)' = Listener(p)
  BY <1>1 DEF Open, Listener
<1> QED BY <1>1, <1>2 DEF FeedInv, FeedType, Opened, Delivered, Served

\* The list is copied: nothing is put yet.
LEMMA CopyInv ==
  ASSUME FeedInv, NEW s \in Senders, Copy(s)
  PROVE  FeedInv'
<1>1. /\ UNCHANGED <<bound, dead, listed, queue, stream, got, missed>>
      /\ copied' = [copied EXCEPT ![s] = listed] /\ todo' = [todo EXCEPT ![s] = listed]
  BY DEF Copy, feed
<1>2. \A p : Open(p)' = Open(p) /\ Listener(p)' = Listener(p)
  BY <1>1 DEF Open, Listener
<1>3. FeedType'
  BY <1>1 DEF FeedInv, FeedType
<1>4. /\ copied'[s] = listed /\ todo'[s] = listed
      /\ \A q \in Senders \ {s} : copied'[q] = copied[q] /\ todo'[q] = todo[q]
  BY <1>1 DEF FeedInv, FeedType
<1>5. Opened'
  BY <1>1, <1>4 DEF FeedInv, Opened
<1>6. Delivered' /\ Served'
  BY <1>1, <1>2, <1>4 DEF FeedInv, Delivered, Served
<1> QED BY <1>3, <1>5, <1>6 DEF FeedInv

\* One listener is served: the message is in its queue, or it is noted as full.
LEMMA PutInv ==
  ASSUME FeedInv, NEW s \in Senders, NEW l \in todo[s], Put(s, l)
  PROVE  FeedInv'
<1> DEFINE its == l[1]
<1>1. /\ UNCHANGED <<bound, copied, listed, stream, got>>
      /\ todo' = [todo EXCEPT ![s] = todo[s] \ {l}]
      /\ l = Listener(its) /\ Len(queue[its]) < QueueCap =>
           queue' = [queue EXCEPT ![its] = Append(queue[its], s)] /\ UNCHANGED <<dead, missed>>
      /\ l = Listener(its) /\ ~(Len(queue[its]) < QueueCap) =>
           /\ dead' = [dead EXCEPT ![s] = dead[s] \cup {l}]
           /\ missed' = [missed EXCEPT ![its] = missed[its] \cup {s}]
           /\ UNCHANGED queue
      /\ l # Listener(its) => UNCHANGED <<queue, dead, missed>>
  BY DEF Put
<1>2. \A p : Open(p)' = Open(p) /\ Listener(p)' = Listener(p)
  BY <1>1 DEF Open, Listener
<1>3. its \in Pages /\ l \in Pages \X Nat /\ queue[its] \in Seq(Senders)
  BY DEF FeedInv, FeedType
<1>4. /\ todo'[s] = todo[s] \ {l}
      /\ \A q \in Senders \ {s} : todo'[q] = todo[q]
  BY <1>1 DEF FeedInv, FeedType
<1>5. \A p \in Pages \ {its} : queue'[p] = queue[p] /\ missed'[p] = missed[p]
  BY <1>1 DEF FeedInv, FeedType
<1>6. /\ queue' \in [Pages -> Seq(Senders)] /\ missed' \in [Pages -> SUBSET Senders]
      /\ dead' \in [Senders -> SUBSET (Pages \X Nat)]
      /\ ToSet(queue[its]) \subseteq ToSet(queue'[its]) /\ missed[its] \subseteq missed'[its]
      /\ l = Listener(its) => s \in ToSet(queue'[its]) \cup missed'[its]
  <2>1. CASE l # Listener(its)
    BY <1>1, <2>1 DEF FeedInv, FeedType
  <2>2. CASE l = Listener(its) /\ Len(queue[its]) < QueueCap
    <3>1. queue' = [queue EXCEPT ![its] = Append(queue[its], s)] /\ UNCHANGED <<dead, missed>>
      BY <1>1, <2>2
    <3>2. Append(queue[its], s) \in Seq(Senders)
          /\ ToSet(Append(queue[its], s)) = ToSet(queue[its]) \cup {s}
      BY <1>3, QueueEnds
    <3>3. queue'[its] = Append(queue[its], s)
      BY <1>3, <3>1 DEF FeedInv, FeedType
    <3> QED BY <3>1, <3>2, <3>3 DEF FeedInv, FeedType
  <2>3. CASE l = Listener(its) /\ ~(Len(queue[its]) < QueueCap)
    <3>1. /\ dead' = [dead EXCEPT ![s] = dead[s] \cup {l}]
          /\ missed' = [missed EXCEPT ![its] = missed[its] \cup {s}] /\ UNCHANGED queue
      BY <1>1, <2>3
    <3> HIDE DEF its
    <3>2. missed' \in [Pages -> SUBSET Senders] /\ missed'[its] = missed[its] \cup {s}
      BY <1>3, <3>1 DEF FeedInv, FeedType
    <3>3. dead' \in [Senders -> SUBSET (Pages \X Nat)]
      BY <1>3, <3>1 DEF FeedInv, FeedType
    <3> QED BY <3>1, <3>2, <3>3 DEF FeedInv, FeedType
  <2> QED BY <1>1, <2>1, <2>2, <2>3
<1>7. \A q \in Senders : \A m \in dead'[q] :
        m \in dead[q] \/ (m = l /\ l = Listener(its) /\ missed'[its] # {})
  <2>1. CASE UNCHANGED dead
    BY <2>1
  <2>2. CASE l = Listener(its) /\ ~(Len(queue[its]) < QueueCap)
    <3>1. dead' = [dead EXCEPT ![s] = dead[s] \cup {l}]
          /\ missed' = [missed EXCEPT ![its] = missed[its] \cup {s}]
      BY <1>1, <2>2
    <3> HIDE DEF its
    <3>2. missed'[its] = missed[its] \cup {s}
      BY <1>3, <3>1 DEF FeedInv, FeedType
    <3>3. dead'[s] = dead[s] \cup {l} /\ \A q \in Senders \ {s} : dead'[q] = dead[q]
      BY <3>1 DEF FeedInv, FeedType
    <3> QED BY <2>2, <3>2, <3>3
  <2> QED BY <1>1, <2>1, <2>2
<1>8. FeedType'
  BY <1>1, <1>6 DEF FeedInv, FeedType
<1>9. Opened'
  <2>1. l = Listener(its) => l[2] <= stream[l[1]]
    BY <1>3, ListenerPage DEF FeedInv
  <2> QED BY <1>1, <1>7, <2>1 DEF FeedInv, Opened
<1> HIDE DEF its
<1>10. \A p \in Pages : Listener(p) = l => p = its
  BY ListenerPage DEF its, FeedInv
<1>11. \A p \in Pages : /\ ToSet(queue[p]) \subseteq ToSet(queue'[p]) /\ missed[p] \subseteq missed'[p]
                        /\ Listener(p) = l => s \in ToSet(queue'[p]) \cup missed'[p]
  BY <1>5, <1>6, <1>10
<1>12. Delivered'
  <2> SUFFICES ASSUME NEW p \in Pages, Open(p), NEW q \in Senders,
                      Listener(p) \in copied[q] \ todo'[q]
               PROVE  q \in got[p] \cup ToSet(queue'[p]) \cup missed'[p]
    BY <1>1, <1>2 DEF Delivered
  <2>1. CASE Listener(p) \in copied[q] \ todo[q]
    BY <1>11, <2>1 DEF FeedInv, Delivered
  <2>2. CASE Listener(p) \in todo[q]
    BY <1>4, <1>11, <2>2
  <2> QED BY <2>1, <2>2
<1>13. Served'
  <2> SUFFICES ASSUME NEW p \in Pages, Open(p)
               PROVE  /\ \A q \in Senders : Listener(p) \in dead'[q] => missed'[p] # {}
                      /\ Listener(p) \notin listed => missed'[p] # {}
    BY <1>1, <1>2 DEF Served
  <2>1. missed[p] # {} => missed'[p] # {}
    BY <1>11
  <2> QED BY <1>7, <1>10, <2>1 DEF FeedInv, Served
<1> QED BY <1>8, <1>9, <1>12, <1>13 DEF FeedInv

\* The listeners found full are taken off the list.
LEMMA FinishInv ==
  ASSUME FeedInv, NEW s \in Senders, Finish(s)
  PROVE  FeedInv'
<1>1. UNCHANGED <<bound, copied, todo, dead, queue, stream, got, missed>> /\ listed' = listed \ dead[s]
  BY DEF Finish
<1>2. \A p : Open(p)' = Open(p) /\ Listener(p)' = Listener(p)
  BY <1>1 DEF Open, Listener
<1>3. FeedType'
  BY <1>1 DEF FeedInv, FeedType
<1> QED BY <1>1, <1>2, <1>3 DEF FeedInv, Opened, Delivered, Served

\* A stream is opened: no sender has copied its listener yet.
LEMMA OpenStreamInv ==
  ASSUME FeedInv, NEW p \in Pages, OpenStream(p)
  PROVE  FeedInv'
<1>1. /\ UNCHANGED <<bound, copied, todo, dead>>
      /\ stream' = [stream EXCEPT ![p] = stream[p] + 1]
      /\ listed' = listed \cup {<<p, stream[p] + 1>>}
      /\ queue' = [queue EXCEPT ![p] = <<>>]
      /\ got' = [got EXCEPT ![p] = {}] /\ missed' = [missed EXCEPT ![p] = {}]
  BY DEF OpenStream, server
<1>2. stream[p] \in Nat /\ stream'[p] = stream[p] + 1
      /\ \A q \in Pages \ {p} : /\ stream'[q] = stream[q] /\ queue'[q] = queue[q]
                                /\ got'[q] = got[q] /\ missed'[q] = missed[q]
                                /\ Open(q)' = Open(q) /\ Listener(q)' = Listener(q)
  BY <1>1 DEF FeedInv, FeedType, Open, Listener
<1>3. FeedType'
  BY <1>1, <1>2 DEF FeedInv, FeedType
<1>4. \A l \in Pages \X Nat : l[2] <= stream[l[1]] => l[2] <= stream'[l[1]]
  <2> TAKE l \in Pages \X Nat
  <2>1. l[1] \in Pages /\ l[2] \in Nat
    OBVIOUS
  <2> QED BY <1>2, <2>1
<1>5. /\ \A l \in listed : l \in Pages \X Nat
      /\ \A s \in Senders : \A l \in copied[s] \cup dead[s] : l \in Pages \X Nat
  BY DEF FeedInv, FeedType
<1>6. Opened'
  <2>1. \A l \in listed' : l[2] <= stream'[l[1]]
    BY <1>1, <1>2, <1>4, <1>5 DEF FeedInv, Opened
  <2>2. \A s \in Senders : \A l \in copied[s] \cup dead[s] : l[2] <= stream'[l[1]]
    BY <1>4, <1>5 DEF FeedInv, Opened
  <2> QED BY <1>1, <2>1, <2>2 DEF Opened
<1>7. Listener(p)' = <<p, stream[p] + 1>>
  BY <1>2 DEF Listener
<1>8. \A s \in Senders : Listener(p)' \notin copied[s] \cup dead[s]
  <2> SUFFICES ASSUME NEW s \in Senders, <<p, stream[p] + 1>> \in copied[s] \cup dead[s] PROVE FALSE
    BY <1>7
  <2>1. stream[p] + 1 <= stream[p]
    BY DEF FeedInv, Opened
  <2> QED BY <1>2, <2>1
<1>9. Delivered' /\ Served'
  <2>1. \A q \in Pages : q = p \/ q \in Pages \ {p}
    OBVIOUS
  <2>2. Listener(p)' \in listed' /\ listed \subseteq listed'
    BY <1>1, <1>7
  <2> QED BY <1>1, <1>2, <1>8, <2>1, <2>2 DEF FeedInv, Delivered, Served
<1> QED BY <1>3, <1>6, <1>9 DEF FeedInv

LEMMA CloseStreamInv ==
  ASSUME FeedInv, NEW p \in Pages, CloseStream(p)
  PROVE  FeedInv'
<1>1. /\ UNCHANGED <<bound, copied, todo, dead, listed, queue, got, missed>>
      /\ stream' = [stream EXCEPT ![p] = stream[p] + 1] /\ Open(p)
  BY DEF CloseStream, server
<1>2. stream[p] \in Nat /\ stream'[p] = stream[p] + 1
      /\ \A q \in Pages \ {p} : /\ stream'[q] = stream[q]
                                /\ Open(q)' = Open(q) /\ Listener(q)' = Listener(q)
  BY <1>1 DEF FeedInv, FeedType, Open, Listener
<1>3. ~Open(p)'
  BY <1>1, <1>2 DEF Open
<1>4. FeedType'
  BY <1>1, <1>2 DEF FeedInv, FeedType
<1>5. \A l \in Pages \X Nat : l[2] <= stream[l[1]] => l[2] <= stream'[l[1]]
  <2> TAKE l \in Pages \X Nat
  <2>1. l[1] \in Pages /\ l[2] \in Nat
    OBVIOUS
  <2> QED BY <1>2, <2>1
<1>6. /\ \A l \in listed : l \in Pages \X Nat
      /\ \A s \in Senders : \A l \in copied[s] \cup dead[s] : l \in Pages \X Nat
  BY DEF FeedInv, FeedType
<1>7. Opened'
  BY <1>1, <1>5, <1>6 DEF FeedInv, Opened
<1>8. Delivered' /\ Served'
  <2>1. \A q \in Pages : q = p \/ q \in Pages \ {p}
    OBVIOUS
  <2> QED BY <1>1, <1>2, <1>3, <2>1 DEF FeedInv, Delivered, Served
<1> QED BY <1>4, <1>7, <1>8 DEF FeedInv

LEMMA UnsubscribeInv ==
  ASSUME FeedInv, NEW l \in listed, Unsubscribe(l)
  PROVE  FeedInv'
<1>1. /\ UNCHANGED <<bound, copied, todo, dead, queue, stream, got, missed>>
      /\ listed' = listed \ {l} /\ l # Listener(l[1])
  BY DEF Unsubscribe, server
<1>2. \A p : Open(p)' = Open(p) /\ Listener(p)' = Listener(p)
  BY <1>1 DEF Open, Listener
<1>3. \A p \in Pages : Listener(p) # l
  BY <1>1, ListenerPage DEF FeedInv
<1>4. FeedType'
  BY <1>1 DEF FeedInv, FeedType
<1> QED BY <1>1, <1>2, <1>3, <1>4 DEF FeedInv, Opened, Delivered, Served

\* A message is delivered.
LEMMA GetInv ==
  ASSUME FeedInv, NEW p \in Pages, Get(p)
  PROVE  FeedInv'
<1> DEFINE m == Head(queue[p])
<1>1. /\ UNCHANGED <<bound, copied, todo, dead, listed, stream, missed>> /\ queue[p] # <<>>
      /\ queue' = [queue EXCEPT ![p] = Tail(queue[p])]
      /\ got' = [got EXCEPT ![p] = got[p] \cup {m}]
  BY DEF Get, server
<1>2. \A q : Open(q)' = Open(q) /\ Listener(q)' = Listener(q)
  BY <1>1 DEF Open, Listener
<1>3. /\ m \in Senders /\ Tail(queue[p]) \in Seq(Senders)
      /\ ToSet(queue[p]) = {m} \cup ToSet(Tail(queue[p]))
  <2>1. queue[p] \in Seq(Senders)
    BY DEF FeedInv, FeedType
  <2> QED BY <1>1, <2>1, QueueEnds
<1> HIDE DEF m
<1>4. /\ queue'[p] = Tail(queue[p]) /\ got'[p] = got[p] \cup {m}
      /\ \A q \in Pages \ {p} : queue'[q] = queue[q] /\ got'[q] = got[q]
  BY <1>1 DEF FeedInv, FeedType
<1>5. FeedType'
  BY <1>1, <1>3 DEF FeedInv, FeedType
<1>6. \A q \in Pages : got'[q] \cup ToSet(queue'[q]) = got[q] \cup ToSet(queue[q])
  BY <1>3, <1>4
<1>7. Delivered'
  BY <1>1, <1>2, <1>6 DEF FeedInv, Delivered
<1> QED BY <1>1, <1>2, <1>5, <1>7 DEF FeedInv, Opened, Served

\* A step of page p that has to do with its pages.
Paging(p) == \/ LoadFirst(p) \/ LoadNext(p) \/ LoadPrevious(p)
             \/ \E l \in loads[p] : Answer(p, l) \/ Render(p, l) \/ FailLoad(p, l)

LEMMA FeedNextInv == FeedInv /\ [FeedNext]_feedVars => FeedInv'
<1> SUFFICES ASSUME FeedInv, [FeedNext]_feedVars PROVE FeedInv'
  OBVIOUS
<1>1. \A s \in bound.senders : s \in Senders
  BY FeedAssumption DEF FeedInv, FeedType, Senders
<1>2. \A p \in bound.pages : p \in Pages
  BY FeedAssumption DEF FeedInv, FeedType
<1>3. ASSUME Tick \/ UNCHANGED feedVars PROVE FeedInv'
  BY <1>3, FeedSame DEF Tick, feedVars, server
<1>4. ASSUME NEW r \in Writers, Begin(r) \/ Insert(r) \/ Commit(r) \/ Fail(r) PROVE FeedInv'
  BY <1>4, FeedSame DEF Begin, Insert, Commit, Fail
<1>5. ASSUME NEW s \in bound.senders, Copy(s) \/ Finish(s) \/ \E l \in todo[s] : Put(s, l)
      PROVE  FeedInv'
  BY <1>1, <1>5, CopyInv, FinishInv, PutInv
<1>6. ASSUME NEW l \in listed, Unsubscribe(l) PROVE FeedInv'
  BY <1>6, UnsubscribeInv
<1>7. ASSUME NEW p \in bound.pages, OpenStream(p) \/ CloseStream(p) \/ Get(p) PROVE FeedInv'
  BY <1>2, <1>7, OpenStreamInv, CloseStreamInv, GetInv
<1>8. ASSUME NEW p \in bound.pages, Paging(p) PROVE FeedInv'
  BY <1>8, FeedSame DEF Paging, LoadFirst, LoadNext, LoadPrevious, Ask, Answer, Render,
                        FailLoad, server
<1> QED BY <1>3, <1>4, <1>5, <1>6, <1>7, <1>8 DEF FeedNext, Paging

LEMMA FeedInvariant == FeedSpec => []FeedInv
<1>1. FeedInit => FeedInv
  BY FeedInitInv
<1>2. FeedInv /\ [FeedNext]_feedVars => FeedInv'
  BY FeedNextInv
<1> QED BY <1>1, <1>2, PTL DEF FeedSpec

\* What a sender put for a stream that is open is delivered or waits, unless its queue was
\* full, and only then is the stream taken off the list (broadcast of
\* ids/websocket_updates.py, which serves a copy of the list while streams come and go).
THEOREM NothingIsLostSilently == FeedSpec => []NoSilentLoss
<1>1. FeedInv => NoSilentLoss
  BY DEF FeedInv, Delivered, Served, NoSilentLoss
<1> QED BY <1>1, FeedInvariant, PTL

-----------------------------------------------------------------------------
\* The order of rows

\* Rows are numbered when they are inserted, and no number is given twice.
Numbered ==
  /\ step \in [Senders -> {"begin", "insert", "commit", "copy", "put", "done", "failed"}]
  /\ now \in Nat /\ ts \in [Writers -> Nat] /\ id \in [Writers -> Nat]
  /\ \A r \in Writers :
       /\ step[r] \in {"begin", "insert"} => id[r] = 0
       /\ step[r] \in {"commit", "copy", "put", "done"} => id[r] > 0
       /\ id[r] <= Cardinality({q \in Writers : id[q] > 0})
  /\ \A q, r \in Writers : id[q] > 0 /\ id[q] = id[r] => q = r

\* What was committed stays, with its time and number.
Stable == \A r \in Committed : r \in Committed' /\ ts'[r] = ts[r] /\ id'[r] = id[r]

\* A set of naturals has a least member.
LEMMA LeastNumber ==
  ASSUME NEW T \in SUBSET Nat, T # {}
  PROVE  \E x \in T : \A y \in T : x <= y
<1> DEFINE R == OpToRel(<, Nat)
<1>1. IsWellFoundedOn(R, Nat)
  BY NatLessThanWellFounded
<1>2. \A x, y \in Nat : x < y => <<x, y>> \in R
  BY DEF OpToRel
<1> HIDE DEF R
<1>3. PICK x \in T : \A y \in T : ~(<<y, x>> \in R)
  BY <1>1, WFMin
<1>4. \A y \in T : ~(y < x)
  BY <1>2, <1>3
<1> QED BY <1>4

LEMMA NewerOrder ==
  ASSUME Numbered
  PROVE  /\ \A q \in Writers : ~Newer(q, q)
         /\ \A q, r \in Writers : ~(Newer(q, r) /\ Newer(r, q))
         /\ \A q, r, s \in Writers : Newer(q, r) /\ Newer(r, s) => Newer(q, s)
         /\ \A q, r \in Committed : q # r => Newer(q, r) \/ Newer(r, q)
         /\ Committed \subseteq Writers
<1>1. \A q \in Writers : ts[q] \in Nat /\ id[q] \in Nat
  BY DEF Numbered
<1>2. \A q, r \in Committed : q # r => id[q] # id[r]
  BY DEF Numbered, Committed
<1>3. Committed \subseteq Writers
  BY DEF Committed
<1> QED BY <1>1, <1>2, <1>3 DEF Newer

\* A page that is not empty has a last row.
LEMMA OldestIs ==
  ASSUME Numbered, NEW S \in SUBSET Committed
  PROVE  /\ S # {} => Oldest(S) # {}
         /\ Oldest(S) \subseteq S /\ \A c, d \in Oldest(S) : c = d
         /\ \A c \in Oldest(S) : \A q \in S : q = c \/ Newer(q, c)
<1>1. /\ Oldest(S) \subseteq S /\ \A c, d \in Oldest(S) : c = d
      /\ \A c \in Oldest(S) : \A q \in S : q = c \/ Newer(q, c)
  BY NewerOrder DEF Oldest
<1>2. ASSUME S # {} PROVE Oldest(S) # {}
  <2> DEFINE T == {ts[r] : r \in S}
  <2>1. \A r \in S : ts[r] \in Nat /\ id[r] \in Nat
    BY DEF Numbered, Committed
  <2>2. T \in SUBSET Nat /\ T # {}
    BY <1>2, <2>1
  <2> HIDE DEF T
  <2>3. PICK x \in T : \A y \in T : x <= y
    BY <2>2, LeastNumber
  <2> USE DEF T
  <2> DEFINE I == {id[r] : r \in {q \in S : ts[q] = x}}
  <2>4. I \in SUBSET Nat /\ I # {}
    BY <2>1, <2>3
  <2> HIDE DEF I
  <2>5. PICK n \in I : \A y \in I : n <= y
    BY <2>4, LeastNumber
  <2> USE DEF I
  <2>6. PICK c \in S : ts[c] = x /\ id[c] = n
    BY <2>5
  <2>7. ASSUME NEW q \in S \ {c} PROVE Newer(q, c)
    <3>1. /\ ts[c] = x /\ x <= ts[q]
          /\ ts[q] = x => id[c] <= id[q]
      BY <2>3, <2>5, <2>6
    <3> HIDE DEF T, I
    <3>2. ~Newer(c, q)
      BY <2>1, <3>1 DEF Newer
    <3> QED BY <3>2, NewerOrder
  <2> QED BY <2>7 DEF Oldest
<1> QED BY <1>1, <1>2

LEMMA OldestStable ==
  ASSUME Stable
  PROVE  /\ \A q, r \in Committed : Newer(q, r)' <=> Newer(q, r)
         /\ \A p : \A q, r \in Committed : Behind(p, q, r)' <=> Behind(p, q, r)
  BY DEF Stable, Newer, Behind

\* A row behind the cursor is on the page, or older than the last row of it.
LEMMA PageCovers ==
  ASSUME Numbered, NEW p, NEW cursor \in SUBSET Committed
  PROVE  /\ PageAt(p, cursor) \subseteq Committed
         /\ \A r \in PageAt(p, cursor) : \A c \in cursor : Behind(p, c, r)
         /\ \A r \in Committed : (\A c \in cursor : Behind(p, c, r)) =>
              r \in PageAt(p, cursor) \/ \E c \in Oldest(PageAt(p, cursor)) : Newer(c, r)
<1> DEFINE all == {r \in Committed : \A c \in cursor : Behind(p, c, r)}
           above(r) == {q \in all : Newer(q, r)}
           first == {r \in all : Cardinality(above(r)) < PageSize}
<1>1. PageAt(p, cursor) = first
  BY DEF PageAt
<1>2. all \in SUBSET Writers /\ all \subseteq Committed
  BY DEF Committed
<1>3. \A r \in all : \A c \in cursor : Behind(p, c, r)
  OBVIOUS
<1>4. first \subseteq all /\ PageSize \in Nat \ {0} /\ IsFiniteSet(Writers)
  BY FeedAssumption
<1>5. \A r : above(r) \subseteq all /\ \A q \in all : q \in above(r) <=> Newer(q, r)
  OBVIOUS
<1>6. \A r : IsFiniteSet(above(r)) /\ Cardinality(above(r)) \in Nat
  <2> SUFFICES ASSUME NEW r PROVE IsFiniteSet(above(r)) /\ Cardinality(above(r)) \in Nat
    OBVIOUS
  <2>1. above(r) \in SUBSET Writers
    BY <1>2
  <2> HIDE DEF above
  <2> QED BY <1>4, <2>1, FS_Subset, FS_CardinalityType
<1>7. \A r : r \in first <=> r \in all /\ Cardinality(above(r)) < PageSize
  OBVIOUS
<1>8. \A r \in Committed : (\A c \in cursor : Behind(p, c, r)) => r \in all
  OBVIOUS
<1> HIDE DEF all, above, first
<1>9. ASSUME NEW r \in all, NEW q \in all, Newer(q, r)
      PROVE  /\ above(q) \in SUBSET above(r) /\ q \in above(r) /\ q \notin above(q)
             /\ Cardinality(above(q)) < Cardinality(above(r))
  <2>1. above(q) \in SUBSET above(r) /\ q \in above(r) /\ q \notin above(q)
    BY <1>2, <1>5, <1>9, NewerOrder
  <2>2. Cardinality(above(q)) <= Cardinality(above(r)) /\ above(q) # above(r)
    BY <1>6, <2>1, FS_Subset
  <2>3. Cardinality(above(q)) # Cardinality(above(r))
    BY <1>6, <2>1, FS_Subset
  <2> QED BY <1>6, <2>1, <2>2, <2>3
<1>10. ASSUME NEW r \in all, r \notin first
       PROVE  \E c \in Oldest(first) : Newer(c, r)
  <2> DEFINE T == {Cardinality(above(q)) : q \in all}
  <2>1. T \in SUBSET Nat /\ T # {}
    BY <1>6
  <2> HIDE DEF T
  <2>2. PICK n \in T : \A m \in T : n <= m
    BY <2>1, LeastNumber
  <2> USE DEF T
  <2>3. PICK q \in all : \A m \in all : Cardinality(above(q)) <= Cardinality(above(m))
    BY <2>2
  <2>4. above(q) = {}
    BY <1>5, <1>6, <1>9, <2>3
  <2>5. q \in first
    BY <1>4, <1>7, <2>4, FS_EmptySet
  <2>6. first \in SUBSET Committed /\ first # {}
    BY <1>2, <1>4, <2>5
  <2>7. PICK c \in Oldest(first) : TRUE
    BY <2>6, OldestIs
  <2>8. c \in first
    BY <2>6, <2>7, OldestIs
  <2>9. ~Newer(r, c)
    <3>1. Cardinality(above(c)) < PageSize /\ ~(Cardinality(above(r)) < PageSize) /\ c \in all
      BY <1>7, <1>10, <2>8
    <3>2. Cardinality(above(c)) \in Nat /\ Cardinality(above(r)) \in Nat
      BY <1>6
    <3> QED BY <1>4, <1>9, <3>1, <3>2
  <2>10. c # r /\ c \in Committed /\ r \in Committed
    BY <1>2, <1>4, <1>10, <2>8
  <2> QED BY <2>7, <2>9, <2>10, NewerOrder
<1> QED BY <1>1, <1>2, <1>3, <1>4, <1>8, <1>10

LEMMA InsertNumbered ==
  ASSUME Numbered, NEW r \in Writers, Insert(r)
  PROVE  Numbered' /\ Stable
<1> DEFINE given == {q \in Writers : id[q] > 0}
           n == Cardinality(given)
<1>1. given \in SUBSET Writers
  OBVIOUS
<1>2. IsFiniteSet(given) /\ n \in Nat
  BY <1>1, FeedAssumption, FS_Subset, FS_CardinalityType
<1>3. /\ step[r] = "insert" /\ r \in Senders /\ step' = [step EXCEPT ![r] = "commit"]
      /\ id' = [id EXCEPT ![r] = 1 + n] /\ UNCHANGED <<now, ts>>
  BY DEF Insert, Senders
<1>4. /\ \A q \in Writers : id[q] \in Nat /\ id[q] <= n
      /\ id[r] = 0 /\ id \in [Writers -> Nat]
  BY <1>3 DEF Numbered
<1>5. /\ id' \in [Writers -> Nat] /\ id'[r] = 1 + n
      /\ \A q \in Writers \ {r} : id'[q] = id[q]
  BY <1>2, <1>3, <1>4
<1>6. r \notin given /\ {q \in Writers : id'[q] > 0} = given \cup {r}
  BY <1>2, <1>4, <1>5
<1>7. Cardinality({q \in Writers : id'[q] > 0}) = n + 1
  <2> HIDE DEF given
  <2> QED BY <1>2, <1>6, FS_AddElement
<1> HIDE DEF given, n
<1>8. /\ step' \in [Senders -> {"begin", "insert", "commit", "copy", "put", "done", "failed"}]
      /\ step'[r] = "commit" /\ \A q \in Writers \ {r} : step'[q] = step[q]
  BY <1>3 DEF Numbered, Senders
<1>9. \A q \in Writers :
        /\ step'[q] \in {"begin", "insert"} => id'[q] = 0
        /\ step'[q] \in {"commit", "copy", "put", "done"} => id'[q] > 0
        /\ id'[q] <= n + 1
  <2>1. \A q \in Writers :
          /\ step[q] \in {"begin", "insert"} => id[q] = 0
          /\ step[q] \in {"commit", "copy", "put", "done"} => id[q] > 0
    BY DEF Numbered
  <2>2. step'[r] \notin {"begin", "insert"} /\ id'[r] > 0 /\ id'[r] <= n + 1
    BY <1>2, <1>5, <1>8
  <2>3. \A q \in Writers \ {r} : id[q] <= n + 1
    BY <1>2, <1>4
  <2>4. ASSUME NEW q \in Writers \ {r}
        PROVE  /\ step'[q] \in {"begin", "insert"} => id'[q] = 0
               /\ step'[q] \in {"commit", "copy", "put", "done"} => id'[q] > 0
               /\ id'[q] <= n + 1
    BY <1>5, <1>8, <2>1, <2>3
  <2> QED BY <2>2, <2>4
<1>10. \A q, s \in Writers : id'[q] > 0 /\ id'[q] = id'[s] => q = s
  BY <1>2, <1>4, <1>5 DEF Numbered
<1>11. Numbered'
  BY <1>3, <1>5, <1>7, <1>8, <1>9, <1>10 DEF Numbered
<1>12. Stable
  BY <1>3, <1>5, <1>8 DEF Stable, Committed
<1> QED BY <1>11, <1>12

\* No other step changes a number.
LEMMA NumbersStay ==
  ASSUME Numbered, UNCHANGED id,
         step' \in [Senders -> {"begin", "insert", "commit", "copy", "put", "done", "failed"}],
         now' \in Nat, ts' \in [Writers -> Nat],
         \A r \in Writers :
           \/ step'[r] = step[r] /\ ts'[r] = ts[r]
           \/ step[r] = "begin" /\ step'[r] = "insert"
           \/ /\ step[r] \in {"commit", "copy", "put"} /\ step'[r] \in {"copy", "put", "done"}
              /\ ts'[r] = ts[r]
           \/ step[r] \in {"insert", "commit"} /\ step'[r] = "failed"
  PROVE  Numbered' /\ Stable
  BY DEF Numbered, Stable, Committed

LEMMA NumbersNext ==
  ASSUME FeedInv, Numbered, [FeedNext]_feedVars
  PROVE  Numbered' /\ Stable
<1>1. /\ step \in [Senders -> {"begin", "insert", "commit", "copy", "put", "done", "failed"}]
      /\ now \in Nat /\ ts \in [Writers -> Nat] /\ Writers \subseteq Senders
  BY DEF Numbered, Senders
<1>2. \A s \in bound.senders : s \in Senders
  BY FeedAssumption DEF FeedInv, FeedType, Senders
<1>3. ASSUME UNCHANGED <<now, step, ts, id>> PROVE Numbered' /\ Stable
  BY <1>1, <1>3, NumbersStay
<1>4. ASSUME NEW r \in Writers, Begin(r) PROVE Numbered' /\ Stable
  <2>1. /\ step[r] = "begin" /\ step' = [step EXCEPT ![r] = "insert"]
        /\ ts' = [ts EXCEPT ![r] = now] /\ UNCHANGED <<now, id>>
    BY <1>4 DEF Begin
  <2> QED BY <1>1, <2>1, NumbersStay
<1>5. ASSUME NEW r \in Writers, Commit(r) \/ Fail(r) PROVE Numbered' /\ Stable
  <2>1. /\ \/ step[r] = "commit" /\ step' = [step EXCEPT ![r] = "copy"]
           \/ step[r] \in {"insert", "commit"} /\ step' = [step EXCEPT ![r] = "failed"]
        /\ UNCHANGED <<now, ts, id>>
    BY <1>5 DEF Commit, Fail
  <2> QED BY <1>1, <2>1, NumbersStay
<1>6. ASSUME NEW s \in Senders, Copy(s) \/ Finish(s) PROVE Numbered' /\ Stable
  <2>1. /\ \/ step[s] = "copy" /\ step' = [step EXCEPT ![s] = "put"]
           \/ step[s] = "put" /\ step' = [step EXCEPT ![s] = "done"]
        /\ UNCHANGED <<now, ts, id>>
    BY <1>6 DEF Copy, Finish
  <2> QED BY <1>1, <2>1, NumbersStay
<1>7. ASSUME Tick PROVE Numbered' /\ Stable
  BY <1>1, <1>7, NumbersStay DEF Tick
<1>8. ASSUME NEW s \in Senders, NEW l, Put(s, l) PROVE Numbered' /\ Stable
  BY <1>3, <1>8 DEF Put
<1>9. ASSUME NEW p, \/ OpenStream(p) \/ CloseStream(p) \/ Get(p) \/ Unsubscribe(p) \/ Paging(p)
      PROVE  Numbered' /\ Stable
  <2>1. UNCHANGED server
    BY <1>9 DEF OpenStream, CloseStream, Get, Unsubscribe, Paging, LoadFirst, LoadNext,
                LoadPrevious, Ask, Answer, Render, FailLoad
  <2> QED BY <1>3, <2>1 DEF server
<1>10. ASSUME UNCHANGED feedVars PROVE Numbered' /\ Stable
  BY <1>3, <1>10 DEF feedVars, server
<1> QED BY <1>2, <1>4, <1>5, <1>6, <1>7, <1>8, <1>9, <1>10, InsertNumbered
           DEF FeedNext, Paging

-----------------------------------------------------------------------------
\* The walk from page to page

Load == [n : Nat, cursor : SUBSET Writers, rows : SUBSET Writers, had : SUBSET Writers,
         answered : BOOLEAN]
Shot == [cursor : SUBSET Writers, rows : SUBSET Writers, back : BOOLEAN, ok : BOOLEAN]

\* A row older than the last one of a page is behind it, or has its time in the log search.
Past(p, c, r) == Behind(p, c, r) \/ (KindOf[p] = "logs" /\ ts[c] = ts[r])

\* The rows that were there and are behind the cursor are on the page, or past it.
Cover(p, b, cursor, rows) ==
  \A r \in b : (\A c \in cursor : Behind(p, c, r)) =>
                 r \in rows \/ \E c \in Oldest(rows) : Past(p, c, r)

\* A row was shown, or the log search showed one with its time.
Known(p, sh, r) == r \in sh \/ (KindOf[p] = "logs" /\ \E c \in sh : ts[c] = ts[r])

\* What was there and is not behind the cursor is known.
Seen(p, b, sh, cursor) ==
  cursor \subseteq Committed /\ \A r \in b : (\A c \in cursor : Behind(p, c, r)) \/ Known(p, sh, r)

\* A load of page p, for the rows that were there and those that were shown since: its
\* cursor leaves out nothing, and an answer covers what is behind it.
LoadInv(p, b, sh, l) ==
  /\ Seen(p, b, sh, l.cursor)
  /\ l.rows \subseteq Committed /\ l.had \subseteq Committed
  /\ l.answered => b \subseteq l.had /\ Cover(p, l.had, l.cursor, l.rows)

PageInv(p, b, sh, g) ==
  /\ g.rows \subseteq Committed /\ Seen(p, b, sh, Oldest(g.rows))
  /\ g.ok /\ g.rows = {} => \A r \in b : Known(p, sh, r)

StackInv(p, b, sh, s) ==
  Len(s) > 0 /\ s[1] = {} /\ \A i \in 1 .. Len(s) : Seen(p, b, sh, s[i])

\* The walk of a page: its stack, its loads, what it rendered, and the two histories.
Walk(p, s, ls, g, b, sh) ==
  /\ b \subseteq Committed /\ sh \subseteq Committed
  /\ StackInv(p, b, sh, s) /\ PageInv(p, b, sh, g) /\ \A l \in ls : LoadInv(p, b, sh, l)

\* Rows that are written or committed meanwhile change nothing in it.
LEMMA OldestSame ==
  ASSUME Stable, NEW S \in SUBSET Committed
  PROVE  Oldest(S)' = Oldest(S)
<1>1. \A q, r \in S : Newer(q, r)' <=> Newer(q, r)
  BY OldestStable
<1> QED BY <1>1 DEF Oldest

LEMMA KnownSame ==
  ASSUME Stable, NEW p, NEW sh \in SUBSET Committed, NEW r \in Committed
  PROVE  Known(p, sh, r)' <=> Known(p, sh, r)
  BY DEF Stable, Known

LEMMA CoverSame ==
  ASSUME Stable, NEW p, NEW b \in SUBSET Committed, NEW cursor \in SUBSET Committed,
         NEW rows \in SUBSET Committed, Cover(p, b, cursor, rows)
  PROVE  Cover(p, b, cursor, rows)'
<1>1. /\ \A q, r \in Committed : Behind(p, q, r)' <=> Behind(p, q, r)
      /\ \A r \in Committed : ts'[r] = ts[r]
  BY OldestStable DEF Stable
<1>2. PICK last : last = Oldest(rows)
  OBVIOUS
<1>3. Oldest(rows)' = last /\ last \subseteq Committed
  BY <1>2, OldestSame DEF Oldest
<1>4. \A c \in last, r \in b : Past(p, c, r)' <=> Past(p, c, r)
  BY <1>1, <1>3 DEF Past
<1>5. SUFFICES ASSUME NEW r \in b, \A c \in cursor : Behind(p, c, r)'
               PROVE  r \in rows \/ \E c \in last : Past(p, c, r)'
  BY <1>3 DEF Cover
<1>6. \A c \in cursor : Behind(p, c, r)
  BY <1>1, <1>5
<1> QED BY <1>2, <1>4, <1>6 DEF Cover

LEMMA SeenSame ==
  ASSUME Stable, NEW p, NEW b \in SUBSET Committed, NEW sh \in SUBSET Committed, NEW cursor,
         Seen(p, b, sh, cursor)
  PROVE  Seen(p, b, sh, cursor)'
<1>1. cursor \subseteq Committed /\ Committed \subseteq Committed'
  BY DEF Seen, Stable
<1>2. SUFFICES ASSUME NEW r \in b
               PROVE  (\A c \in cursor : Behind(p, c, r)') \/ Known(p, sh, r)'
  BY <1>1 DEF Seen
<1>3. \A c \in cursor : Behind(p, c, r)' <=> Behind(p, c, r)
  BY <1>1, OldestStable
<1>4. Known(p, sh, r)' <=> Known(p, sh, r)
  BY KnownSame
<1> QED BY <1>3, <1>4 DEF Seen

LEMMA WalkSame ==
  ASSUME Stable, NEW p, NEW s, NEW ls, NEW g, NEW b, NEW sh, Walk(p, s, ls, g, b, sh)
  PROVE  Walk(p, s, ls, g, b, sh)'
<1>1. b \in SUBSET Committed /\ sh \in SUBSET Committed /\ Committed \subseteq Committed'
  BY DEF Walk, Stable
<1>2. StackInv(p, b, sh, s)'
  <2>1. StackInv(p, b, sh, s)
    BY DEF Walk
  <2> QED BY <1>1, <2>1, SeenSame DEF StackInv
<1>3. PageInv(p, b, sh, g)'
  <2>1. PageInv(p, b, sh, g)
    BY DEF Walk
  <2>2. PICK last : last = Oldest(g.rows)
    OBVIOUS
  <2>3. Seen(p, b, sh, last)' /\ Oldest(g.rows)' = last
    BY <1>1, <2>1, <2>2, SeenSame, OldestSame DEF PageInv
  <2>4. \A r \in b : Known(p, sh, r)' <=> Known(p, sh, r)
    BY <1>1, KnownSame
  <2> QED BY <1>1, <2>1, <2>3, <2>4 DEF PageInv
<1>4. ASSUME NEW l \in ls PROVE LoadInv(p, b, sh, l)'
  <2>1. LoadInv(p, b, sh, l)
    BY DEF Walk
  <2>2. Seen(p, b, sh, l.cursor)'
    BY <1>1, <2>1, SeenSame DEF LoadInv
  <2>3. l.rows \in SUBSET Committed /\ l.had \in SUBSET Committed /\ l.cursor \in SUBSET Committed
    BY <2>1 DEF LoadInv, Seen
  <2>4. l.answered => b \subseteq l.had /\ Cover(p, l.had, l.cursor, l.rows)'
    BY <2>1, <2>3, CoverSame DEF LoadInv
  <2> QED BY <1>1, <2>2, <2>3, <2>4 DEF LoadInv
<1> QED BY <1>1, <1>2, <1>3, <1>4 DEF Walk

\* The answer for a cursor covers what is behind it.
LEMMA ReplyCovers ==
  ASSUME Numbered, NEW p \in Pages, NEW b \in SUBSET Committed,
         NEW cursor \in SUBSET Committed
  PROVE  /\ PageAt(p, cursor) \in SUBSET Committed
         /\ Cover(p, b, cursor, PageAt(p, cursor))
<1>1. \A c \in Committed, r \in Committed : Newer(c, r) => Past(p, c, r)
  <2>1. KindOf[p] \in {"audit", "logs"}
    BY FeedAssumption
  <2> QED BY <2>1 DEF Newer, Past, Behind
<1>2. PageAt(p, cursor) \in SUBSET Committed
  BY PageCovers
<1>3. Oldest(PageAt(p, cursor)) \subseteq Committed
  BY <1>2 DEF Oldest
<1>4. \A r \in Committed : (\A c \in cursor : Behind(p, c, r)) =>
        r \in PageAt(p, cursor) \/ \E c \in Oldest(PageAt(p, cursor)) : Newer(c, r)
  BY PageCovers
<1>5. Cover(p, b, cursor, PageAt(p, cursor))
  BY <1>1, <1>3, <1>4 DEF Cover
<1> QED BY <1>2, <1>5

\* A page that is shown, from a cursor that left out nothing, leaves out nothing up to its
\* last row; and nothing at all when it is empty.
LEMMA PageShows ==
  ASSUME Numbered, NEW p, NEW b, NEW sh, NEW had, NEW cursor, NEW rows \in SUBSET Committed,
         Seen(p, b, sh, cursor), b \subseteq had, Cover(p, had, cursor, rows), rows \subseteq sh
  PROVE  /\ Seen(p, b, sh, Oldest(rows))
         /\ rows = {} => \A r \in b : Known(p, sh, r)
<1>1. /\ Oldest(rows) \subseteq rows /\ \A c, d \in Oldest(rows) : c = d
      /\ Oldest(rows) \subseteq Committed
  BY OldestIs DEF Oldest
<1>2. ASSUME NEW r \in b, ~Known(p, sh, r)
      PROVE  rows # {} /\ \A c \in Oldest(rows) : Behind(p, c, r)
  <2>1. \A c \in cursor : Behind(p, c, r)
    BY <1>2 DEF Seen
  <2>2. r \notin rows
    BY <1>2 DEF Known
  <2>3. PICK c \in Oldest(rows) : Past(p, c, r)
    BY <2>1, <2>2 DEF Cover
  <2>4. Behind(p, c, r)
    BY <1>1, <1>2, <2>3 DEF Past, Known
  <2> QED BY <1>1, <2>3, <2>4
<1> QED BY <1>1, <1>2 DEF Seen

\* What is shown besides takes nothing away.
LEMMA ShowMore ==
  ASSUME NEW p, NEW b, NEW sh, NEW more \in SUBSET Committed
  PROVE  /\ \A cursor : Seen(p, b, sh, cursor) => Seen(p, b, sh \cup more, cursor)
         /\ \A r : Known(p, sh, r) => Known(p, sh \cup more, r)
         /\ \A s : StackInv(p, b, sh, s) => StackInv(p, b, sh \cup more, s)
         /\ \A l : LoadInv(p, b, sh, l) => LoadInv(p, b, sh \cup more, l)
<1>1. \A r : Known(p, sh, r) => Known(p, sh \cup more, r)
  BY DEF Known
<1>2. \A cursor : Seen(p, b, sh, cursor) => Seen(p, b, sh \cup more, cursor)
  BY <1>1 DEF Seen
<1>3. \A s : StackInv(p, b, sh, s) => StackInv(p, b, sh \cup more, s)
  BY <1>2 DEF StackInv
<1>4. \A l : LoadInv(p, b, sh, l) => LoadInv(p, b, sh \cup more, l)
  BY <1>2 DEF LoadInv
<1> QED BY <1>1, <1>2, <1>3, <1>4

-----------------------------------------------------------------------------
\* The steps of the walk

Stacks == Seq(SUBSET Writers)

WalkType ==
  /\ stack \in [Pages -> Stacks] /\ loads \in [Pages -> SUBSET Load]
  /\ page \in [Pages -> Shot]
  /\ base \in [Pages -> SUBSET Writers] /\ shown \in [Pages -> SUBSET Writers]

WalkInv ==
  /\ Numbered /\ WalkType
  /\ \A p \in Pages : Walk(p, stack[p], loads[p], page[p], base[p], shown[p])

\* A step of the pages or of the stream, after which the walk of page p has these parts.
Becomes(p, s, ls, g, b, sh) ==
  stack'[p] = s /\ loads'[p] = ls /\ page'[p] = g /\ base'[p] = b /\ shown'[p] = sh
Walks(p) ==
  \E s \in Stacks, ls \in SUBSET Load, g \in Shot, b \in SUBSET Writers, sh \in SUBSET Writers :
    Walk(p, s, ls, g, b, sh) /\ Becomes(p, s, ls, g, b, sh)

LEMMA WalksOn ==
  ASSUME Stable, NEW p \in Pages, Walks(p)
  PROVE  Walk(p, stack[p], loads[p], page[p], base[p], shown[p])'
<1>1. PICK s \in Stacks, ls \in SUBSET Load, g \in Shot, b \in SUBSET Writers,
           sh \in SUBSET Writers :
        Walk(p, s, ls, g, b, sh) /\ Becomes(p, s, ls, g, b, sh)
  BY DEF Walks
<1>2. Walk(p, s, ls, g, b, sh)'
  BY <1>1, WalkSame
<1> QED BY <1>1, <1>2 DEF Becomes

\* A page that reads nothing goes on with what it has.
LEMMA WalksStay ==
  ASSUME WalkInv, NEW p \in Pages, Becomes(p, stack[p], loads[p], page[p], base[p], shown[p])
  PROVE  Walks(p)
<1>1. /\ stack[p] \in Stacks /\ loads[p] \in SUBSET Load /\ page[p] \in Shot
      /\ base[p] \in SUBSET Writers /\ shown[p] \in SUBSET Writers
      /\ Walk(p, stack[p], loads[p], page[p], base[p], shown[p])
  BY DEF WalkInv, WalkType
<1> QED BY <1>1 DEF Walks

\* A step of one page leaves the others alone.
LEMMA OnePage ==
  ASSUME WalkInv, NEW p \in Pages, NEW s \in Stacks, NEW ls \in SUBSET Load, NEW g \in Shot,
         NEW b \in SUBSET Writers, NEW sh \in SUBSET Writers, Walk(p, s, ls, g, b, sh),
         stack' = [stack EXCEPT ![p] = s], loads' = [loads EXCEPT ![p] = ls],
         page' = [page EXCEPT ![p] = g], base' = [base EXCEPT ![p] = b],
         shown' = [shown EXCEPT ![p] = sh]
  PROVE  WalkType' /\ \A q \in Pages : Walks(q)
<1>1. /\ stack \in [Pages -> Stacks] /\ loads \in [Pages -> SUBSET Load]
      /\ page \in [Pages -> Shot] /\ base \in [Pages -> SUBSET Writers]
      /\ shown \in [Pages -> SUBSET Writers]
  BY DEF WalkInv, WalkType
<1>2. WalkType'
  BY <1>1 DEF WalkType
<1>3. Becomes(p, s, ls, g, b, sh)
  BY <1>1 DEF Becomes
<1>4. Walks(p)
  BY <1>3 DEF Walks
<1>5. ASSUME NEW q \in Pages \ {p} PROVE Walks(q)
  <2>1. Becomes(q, stack[q], loads[q], page[q], base[q], shown[q])
    BY <1>1 DEF Becomes
  <2> QED BY <2>1, WalksStay
<1> QED BY <1>2, <1>4, <1>5

\* The walk of a page that a step of it begins from.
LEMMA ThisWalk ==
  ASSUME WalkInv, NEW p \in Pages
  PROVE  /\ stack[p] \in Stacks /\ loads[p] \in SUBSET Load /\ page[p] \in Shot
         /\ base[p] \in SUBSET Writers /\ shown[p] \in SUBSET Writers
         /\ base[p] \in SUBSET Committed /\ shown[p] \in SUBSET Committed
         /\ Committed \in SUBSET Writers /\ Numbered
         /\ StackInv(p, base[p], shown[p], stack[p])
         /\ PageInv(p, base[p], shown[p], page[p])
         /\ \A l \in loads[p] : LoadInv(p, base[p], shown[p], l)
         /\ stack = [stack EXCEPT ![p] = stack[p]] /\ page = [page EXCEPT ![p] = page[p]]
         /\ base = [base EXCEPT ![p] = base[p]] /\ shown = [shown EXCEPT ![p] = shown[p]]
<1>1. Committed \in SUBSET Writers
  BY DEF Committed
<1>2. WalkType /\ Walk(p, stack[p], loads[p], page[p], base[p], shown[p]) /\ Numbered
  BY DEF WalkInv
<1> QED BY <1>1, <1>2 DEF WalkType, Walk

\* A page is asked for, at the end of a stack whose cursors leave out nothing.
LEMMA AskWalks ==
  ASSUME WalkInv, NEW p \in Pages, NEW s \in Stacks,
         StackInv(p, base[p], shown[p], s), Ask(p, s)
  PROVE  WalkType' /\ \A q \in Pages : Walks(q)
<1>1. PICK n \in 1 .. bound.flight :
        /\ stack' = [stack EXCEPT ![p] = s]
        /\ loads' = [loads EXCEPT ![p] = loads[p] \cup {Asked(n, Last(s))}]
        /\ UNCHANGED <<page, base, shown>>
  BY DEF Ask
<1>2. Last(s) \in SUBSET Writers /\ Seen(p, base[p], shown[p], Last(s))
  BY DEF Last, StackInv, Stacks
<1>3. PICK l : l = Asked(n, Last(s))
  OBVIOUS
<1>4. l \in Load
  BY <1>2, <1>3 DEF Asked, Load
<1>5. LoadInv(p, base[p], shown[p], l)
  <2>1. l.cursor = Last(s) /\ l.rows = {} /\ l.had = {} /\ ~l.answered
    BY <1>3 DEF Asked
  <2> QED BY <1>2, <2>1 DEF LoadInv
<1>6. Walk(p, s, loads[p] \cup {l}, page[p], base[p], shown[p])
  BY <1>5, ThisWalk DEF Walk
<1>7. loads[p] \cup {l} \in SUBSET Load
  BY <1>4, ThisWalk
<1>8. /\ stack' = [stack EXCEPT ![p] = s] /\ loads' = [loads EXCEPT ![p] = loads[p] \cup {l}]
      /\ page' = [page EXCEPT ![p] = page[p]] /\ base' = [base EXCEPT ![p] = base[p]]
      /\ shown' = [shown EXCEPT ![p] = shown[p]]
  BY <1>1, <1>3, ThisWalk
<1>9. page[p] \in Shot /\ base[p] \in SUBSET Writers /\ shown[p] \in SUBSET Writers
  BY ThisWalk
<1> QED BY <1>6, <1>7, <1>8, <1>9, OnePage

LEMMA FirstWalks ==
  ASSUME WalkInv, NEW p \in Pages, LoadFirst(p)
  PROVE  WalkType' /\ \A q \in Pages : Walks(q)
<1>1. PICK s : s = <<{}>>
  OBVIOUS
<1>2. s \in Stacks /\ Len(s) = 1 /\ s[1] = {}
  BY <1>1 DEF Stacks
<1>3. StackInv(p, base[p], shown[p], s)
  BY <1>2 DEF StackInv, Seen
<1> QED BY <1>1, <1>2, <1>3, AskWalks DEF LoadFirst

LEMMA NextWalks ==
  ASSUME WalkInv, NEW p \in Pages, LoadNext(p)
  PROVE  WalkType' /\ \A q \in Pages : Walks(q)
<1>1. PICK c : c = Oldest(page[p].rows)
  OBVIOUS
<1>2. Seen(p, base[p], shown[p], c) /\ c \in SUBSET Writers
  BY <1>1, ThisWalk DEF PageInv, Seen
<1>3. PICK s : s = Append(stack[p], c)
  OBVIOUS
<1>4. /\ stack[p] \in Seq(SUBSET Writers) /\ Len(stack[p]) \in Nat
      /\ s \in Seq(SUBSET Writers) /\ Len(s) = Len(stack[p]) + 1 /\ s[Len(s)] = c
      /\ \A i \in 1 .. Len(stack[p]) : s[i] = stack[p][i]
  BY <1>2, <1>3, ThisWalk DEF Stacks
<1>5. StackInv(p, base[p], shown[p], s)
  <2>1. \A i \in 1 .. Len(s) : i = Len(s) \/ i \in 1 .. Len(stack[p])
    BY <1>4
  <2>2. /\ \A i \in 1 .. Len(stack[p]) : Seen(p, base[p], shown[p], stack[p][i])
        /\ Len(stack[p]) > 0 /\ stack[p][1] = {}
    BY ThisWalk DEF StackInv
  <2>3. \A i \in 1 .. Len(s) : Seen(p, base[p], shown[p], s[i])
    BY <1>2, <1>4, <2>1, <2>2
  <2>4. Len(s) > 0 /\ s[1] = {}
    BY <1>4, <2>2
  <2> QED BY <2>3, <2>4 DEF StackInv
<1> QED BY <1>1, <1>3, <1>4, <1>5, AskWalks DEF LoadNext, Stacks

LEMMA PreviousWalks ==
  ASSUME WalkInv, NEW p \in Pages, LoadPrevious(p)
  PROVE  WalkType' /\ \A q \in Pages : Walks(q)
<1>1. PICK s : s = Front(stack[p])
  OBVIOUS
<1>2. /\ stack[p] \in Seq(SUBSET Writers) /\ Len(stack[p]) \in Nat /\ Len(stack[p]) > 1
  BY ThisWalk DEF Stacks, LoadPrevious
<1>3. /\ s \in Seq(SUBSET Writers) /\ Len(s) = Len(stack[p]) - 1
      /\ \A i \in 1 .. Len(s) : s[i] = stack[p][i]
  BY <1>1, <1>2 DEF Front
<1>4. StackInv(p, base[p], shown[p], s)
  BY <1>2, <1>3, ThisWalk DEF StackInv
<1> QED BY <1>1, <1>3, <1>4, AskWalks DEF LoadPrevious, Stacks

LEMMA AnswerWalks ==
  ASSUME WalkInv, NEW p \in Pages, NEW l \in loads[p], Answer(p, l)
  PROVE  WalkType' /\ \A q \in Pages : Walks(q)
<1>1. l \in Load /\ LoadInv(p, base[p], shown[p], l)
  BY ThisWalk
<1>2. PICK rows : rows = PageAt(p, l.cursor)
  OBVIOUS
<1>3. l.cursor \in SUBSET Committed
  BY <1>1 DEF LoadInv, Seen
<1>4. rows \in SUBSET Committed /\ Cover(p, Committed, l.cursor, rows)
  BY <1>2, <1>3, ThisWalk, ReplyCovers
<1>5. PICK k : k = [l EXCEPT !.rows = rows, !.had = Committed, !.answered = TRUE]
  OBVIOUS
<1>6. k \in Load /\ k.cursor = l.cursor /\ k.rows = rows /\ k.had = Committed
  BY <1>1, <1>4, <1>5, ThisWalk DEF Load
<1>7. LoadInv(p, base[p], shown[p], k)
  BY <1>1, <1>4, <1>6, ThisWalk DEF LoadInv
<1>8. PICK ls : ls = (loads[p] \ {l}) \cup {k}
  OBVIOUS
<1>9. Walk(p, stack[p], ls, page[p], base[p], shown[p]) /\ ls \in SUBSET Load
  BY <1>6, <1>7, <1>8, ThisWalk DEF Walk
<1>10. loads' = [loads EXCEPT ![p] = ls] /\ UNCHANGED <<stack, page, base, shown>>
  BY <1>2, <1>5, <1>8 DEF Answer
<1>11. /\ stack' = [stack EXCEPT ![p] = stack[p]] /\ loads' = [loads EXCEPT ![p] = ls]
       /\ page' = [page EXCEPT ![p] = page[p]] /\ base' = [base EXCEPT ![p] = base[p]]
       /\ shown' = [shown EXCEPT ![p] = shown[p]]
  BY <1>10, ThisWalk
<1>12. /\ stack[p] \in Stacks /\ page[p] \in Shot
       /\ base[p] \in SUBSET Writers /\ shown[p] \in SUBSET Writers
  BY ThisWalk
<1> QED BY <1>9, <1>11, <1>12, OnePage

\* The page that was read first and by itself begins a walk; any other goes on with one.
LEMMA RenderWalks ==
  ASSUME WalkInv, NEW p \in Pages, NEW l \in loads[p], Render(p, l)
  PROVE  WalkType' /\ \A q \in Pages : Walks(q)
<1>1. /\ l \in Load /\ l.answered /\ LoadInv(p, base[p], shown[p], l)
      /\ l.rows \in SUBSET Committed /\ l.had \in SUBSET Committed
      /\ Seen(p, base[p], shown[p], l.cursor)
      /\ base[p] \subseteq l.had /\ Cover(p, l.had, l.cursor, l.rows)
  BY ThisWalk DEF Render, LoadInv
<1>2. PICK back \in BOOLEAN : back = (Len(stack[p]) # 1)
  OBVIOUS
<1>3. PICK g : g = [cursor |-> l.cursor, rows |-> l.rows, back |-> back, ok |-> TRUE]
  OBVIOUS
<1>4. g \in Shot /\ g.rows = l.rows
  BY <1>1, <1>3 DEF Shot, Load
<1>5. PICK ls : ls = loads[p] \ {l}
  OBVIOUS
<1>6. /\ UNCHANGED stack /\ loads' = [loads EXCEPT ![p] = ls] /\ page' = [page EXCEPT ![p] = g]
      /\ ls \in SUBSET Load
  BY <1>2, <1>3, <1>5, ThisWalk DEF Render
<1>7. CASE Len(stack[p]) = 1 /\ l.cursor = {} /\ loads[p] = {l}
  <2>1. base' = [base EXCEPT ![p] = l.had] /\ shown' = [shown EXCEPT ![p] = l.rows]
    BY <1>7 DEF Render
  <2>2. Seen(p, l.had, l.rows, l.cursor)
    BY <1>7 DEF Seen
  <2>3. PageInv(p, l.had, l.rows, g)
    BY <1>1, <1>4, <2>2, ThisWalk, PageShows DEF PageInv
  <2>4. StackInv(p, l.had, l.rows, stack[p])
    <3>1. stack[p][1] = {} /\ \A i \in 1 .. Len(stack[p]) : i = 1
      BY <1>7, ThisWalk DEF StackInv
    <3>2. Seen(p, l.had, l.rows, {})
      BY DEF Seen
    <3> QED BY <1>7, <3>1, <3>2 DEF StackInv
  <2>5. ls = {}
    BY <1>5, <1>7
  <2>6. Walk(p, stack[p], ls, g, l.had, l.rows)
    BY <1>1, <2>3, <2>4, <2>5 DEF Walk
  <2>7. l.had \in SUBSET Writers /\ l.rows \in SUBSET Writers
    BY <1>1, ThisWalk
  <2> QED BY <1>4, <1>6, <2>1, <2>6, <2>7, ThisWalk, OnePage
<1>8. CASE ~(Len(stack[p]) = 1 /\ l.cursor = {} /\ loads[p] = {l})
  <2>1. PICK sh : sh = shown[p] \cup l.rows
    OBVIOUS
  <2>2. UNCHANGED base /\ shown' = [shown EXCEPT ![p] = sh]
    BY <1>8, <2>1 DEF Render
  <2>3. /\ Seen(p, base[p], sh, l.cursor) /\ StackInv(p, base[p], sh, stack[p])
        /\ \A k \in ls : LoadInv(p, base[p], sh, k)
    BY <1>1, <1>5, <2>1, ThisWalk, ShowMore
  <2>4. PageInv(p, base[p], sh, g)
    BY <1>1, <1>4, <2>1, <2>3, ThisWalk, PageShows DEF PageInv
  <2>5. sh \in SUBSET Committed /\ sh \in SUBSET Writers
    BY <1>1, <2>1, ThisWalk
  <2>6. Walk(p, stack[p], ls, g, base[p], sh)
    BY <2>3, <2>4, <2>5, ThisWalk DEF Walk
  <2>7. base' = [base EXCEPT ![p] = base[p]] /\ stack' = [stack EXCEPT ![p] = stack[p]]
    BY <1>6, <2>2, ThisWalk
  <2>8. stack[p] \in Stacks /\ base[p] \in SUBSET Writers
    BY ThisWalk
  <2> QED BY <1>4, <1>6, <2>2, <2>5, <2>6, <2>7, <2>8, OnePage
<1> QED BY <1>7, <1>8

LEMMA FailWalks ==
  ASSUME WalkInv, NEW p \in Pages, NEW l \in loads[p], FailLoad(p, l)
  PROVE  WalkType' /\ \A q \in Pages : Walks(q)
<1>1. PICK back \in BOOLEAN : back = (Len(stack[p]) # 1)
  OBVIOUS
<1>2. PICK none : none = NoPage(back)
  OBVIOUS
<1>3. none \in Shot /\ none.rows = {} /\ ~none.ok
  BY <1>2 DEF NoPage, Shot
<1>4. PageInv(p, base[p], shown[p], none)
  BY <1>3 DEF PageInv, Seen, Oldest
<1>5. PICK ls : ls = loads[p] \ {l}
  OBVIOUS
<1>6. /\ loads' = [loads EXCEPT ![p] = ls] /\ UNCHANGED <<stack, base, shown>>
      /\ ls \in SUBSET Load
  BY <1>5, ThisWalk DEF FailLoad
<1>7. PICK g \in Shot : page' = [page EXCEPT ![p] = g] /\ PageInv(p, base[p], shown[p], g)
  <2>1. page' = page \/ page' = [page EXCEPT ![p] = none]
    BY <1>1, <1>2 DEF FailLoad
  <2> QED BY <1>3, <1>4, <2>1, ThisWalk
<1>8. Walk(p, stack[p], ls, g, base[p], shown[p])
  BY <1>5, <1>7, ThisWalk DEF Walk
<1>9. /\ stack' = [stack EXCEPT ![p] = stack[p]] /\ base' = [base EXCEPT ![p] = base[p]]
      /\ shown' = [shown EXCEPT ![p] = shown[p]]
  BY <1>6, ThisWalk
<1>10. stack[p] \in Stacks /\ base[p] \in SUBSET Writers /\ shown[p] \in SUBSET Writers
  BY ThisWalk
<1> QED BY <1>6, <1>7, <1>8, <1>9, <1>10, OnePage

LEMMA WalkNext == FeedInv /\ WalkInv /\ [FeedNext]_feedVars => WalkInv'
<1> SUFFICES ASSUME FeedInv, WalkInv, [FeedNext]_feedVars PROVE WalkInv'
  OBVIOUS
<1>1. Numbered' /\ Stable
  BY NumbersNext DEF WalkInv
<1>2. \A p \in bound.pages : p \in Pages
  BY FeedAssumption DEF FeedInv, FeedType
<1>3. ASSUME UNCHANGED <<stack, loads, page, base, shown>>
      PROVE  WalkType' /\ \A p \in Pages : Walks(p)
  <2>1. WalkType'
    BY <1>3 DEF WalkInv, WalkType
  <2>2. ASSUME NEW p \in Pages PROVE Walks(p)
    BY <1>3, WalksStay DEF Becomes
  <2> QED BY <2>1, <2>2
<1>4. UNCHANGED <<stack, loads, page, base, shown>> \/ \E p \in Pages : Paging(p)
  <2>1. CASE Tick \/ UNCHANGED feedVars
    BY <2>1 DEF Tick, feedVars, client
  <2>2. ASSUME NEW r, \/ Begin(r) \/ Insert(r) \/ Commit(r) \/ Fail(r) \/ Copy(r) \/ Finish(r)
                      \/ Unsubscribe(r) \/ OpenStream(r) \/ CloseStream(r) \/ Get(r)
                      \/ \E l \in todo[r] : Put(r, l)
        PROVE  UNCHANGED <<stack, loads, page, base, shown>>
    BY <2>2 DEF Begin, Insert, Commit, Fail, Copy, Finish, Unsubscribe, OpenStream, CloseStream,
                Get, Put, client
  <2> QED BY <1>2, <2>1, <2>2 DEF FeedNext, Paging
<1>5. ASSUME NEW p \in Pages, Paging(p) PROVE WalkType' /\ \A q \in Pages : Walks(q)
  BY <1>5, FirstWalks, NextWalks, PreviousWalks, AnswerWalks, RenderWalks, FailWalks DEF Paging
<1>6. WalkType' /\ \A p \in Pages : Walks(p)
  BY <1>3, <1>4, <1>5
<1>7. \A p \in Pages : Walk(p, stack[p], loads[p], page[p], base[p], shown[p])'
  BY <1>1, <1>6, WalksOn
<1> QED BY <1>1, <1>6, <1>7 DEF WalkInv

LEMMA WalkInit == FeedInit => WalkInv
<1> SUFFICES ASSUME FeedInit PROVE WalkInv
  OBVIOUS
<1>1. Numbered
  <2>1. {q \in Writers : id[q] > 0} \in SUBSET Writers
    OBVIOUS
  <2>2. Cardinality({q \in Writers : id[q] > 0}) \in Nat
    BY <2>1, FeedAssumption, FS_Subset, FS_CardinalityType
  <2>3. /\ step \in [Senders -> {"begin", "insert", "commit", "copy", "put", "done", "failed"}]
        /\ \A r \in Writers : step[r] = "begin" /\ id[r] = 0
        /\ now \in Nat /\ ts \in [Writers -> Nat] /\ id \in [Writers -> Nat]
    BY FeedAssumption DEF FeedInit, Senders
  <2> QED BY <2>2, <2>3 DEF Numbered
<1>2. PICK first : first = Asked(1, {})
  OBVIOUS
<1>3. /\ first \in Load /\ first.cursor = {} /\ first.rows = {} /\ first.had = {}
      /\ ~first.answered
  BY <1>2 DEF Asked, Load
<1>4. PICK none : none = NoPage(FALSE)
  OBVIOUS
<1>5. none \in Shot /\ none.rows = {} /\ ~none.ok
  BY <1>4 DEF NoPage, Shot
<1>6. PICK s : s = <<{}>>
  OBVIOUS
<1>7. s \in Stacks /\ Len(s) = 1 /\ s[1] = {}
  BY <1>6 DEF Stacks
<1>8. /\ stack = [p \in Pages |-> s] /\ page = [p \in Pages |-> none]
      /\ loads = [p \in Pages |-> IF KindOf[p] = "audit" THEN {first} ELSE {}]
      /\ base = [p \in Pages |-> {}] /\ shown = [p \in Pages |-> {}]
  BY <1>2, <1>4, <1>6 DEF FeedInit
<1>9. WalkType
  BY <1>3, <1>5, <1>7, <1>8 DEF WalkType
<1>10. ASSUME NEW p \in Pages PROVE Walk(p, stack[p], loads[p], page[p], base[p], shown[p])
  <2>1. /\ stack[p] = s /\ page[p] = none /\ loads[p] \subseteq {first}
        /\ base[p] = {} /\ shown[p] = {}
    BY <1>8
  <2>2. Seen(p, {}, {}, {})
    BY DEF Seen
  <2>3. StackInv(p, {}, {}, s) /\ PageInv(p, {}, {}, none)
    BY <1>5, <1>7, <2>2 DEF StackInv, PageInv, Oldest
  <2>4. LoadInv(p, {}, {}, first)
    BY <1>3, <2>2 DEF LoadInv
  <2> QED BY <2>1, <2>3, <2>4 DEF Walk
<1> QED BY <1>1, <1>9, <1>10 DEF WalkInv

\* An administrator who comes to an empty page has been shown every row that was there when
\* the first page was last read by itself, whatever is written meanwhile, and however many
\* pages are clicked, fail or come in another order; the log search leaves out rows with
\* the time of one it showed (query_audit with its cursor of time and number, query_logs,
\* the pagers and loadEntries of audit.js, runSearch of dashboard.js).
THEOREM WalksAreComplete == FeedSpec => []WalkComplete
<1>1. WalkInv => WalkComplete
  <2> SUFFICES ASSUME WalkInv, NEW p \in Pages, page[p].ok, page[p].rows = {},
                      NEW r \in base[p] \ shown[p]
               PROVE  KindOf[p] = "logs" /\ \E c \in shown[p] : ts[c] = ts[r]
    BY DEF WalkComplete
  <2>1. Known(p, shown[p], r)
    BY ThisWalk DEF PageInv
  <2> QED BY <2>1 DEF Known
<1> QED BY <1>1, WalkInit, WalkNext, FeedInvariant, PTL DEF FeedSpec
=============================================================================

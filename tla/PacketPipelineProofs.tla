------------------------ MODULE PacketPipelineProofs ------------------------
(***************************************************************************)
(* Proofs about PacketPipeline for every number of packets, threads,       *)
(* queue slots, retries and restarts.                                      *)
(***************************************************************************)
EXTENDS PacketPipeline, SequenceTheorems, FiniteSetTheorems, TLAPS

-----------------------------------------------------------------------------
\* Type correctness

\* A thread at work holds a packet.
Hands ==
  /\ \A r \in Preps : prepPc[r] = "work" => prepJob[r] \in Packets
  /\ \A t \in Threads : pc[t] \in InHandler => job[t] \in Packets

\* Only ids with a restart left are put on the watchdog's list.
ScanBound == \A w \in scan : gen[w] < MaxRestarts

TypeInv == TypeOK /\ Hands /\ ScanBound

\* An enqueue keeps the types, whether the queue has room or not.
LEMMA EnqueueType ==
  ASSUME TypeOK, NEW p \in Packets
  PROVE  /\ EnqueueRaw(p) => /\ fate' \in [Packets -> Fates]
                             /\ rawq' \in Seq(Packets) /\ Len(rawq') <= RawCap
                             /\ rawUnfinished' \in Int
         /\ EnqueuePacket(p) => /\ fate' \in [Packets -> Fates]
                                /\ pktq' \in Seq(Packets) /\ Len(pktq') <= PktCap
                                /\ pktUnfinished' \in Int
<1>1. ASSUME EnqueueRaw(p)
      PROVE  /\ fate' \in [Packets -> Fates]
             /\ rawq' \in Seq(Packets) /\ Len(rawq') <= RawCap
             /\ rawUnfinished' \in Int
  <2>1. CASE Len(rawq) < RawCap
    <3>1. Append(rawq, p) \in Seq(Packets) /\ Len(Append(rawq, p)) = Len(rawq) + 1
      BY AppendProperties DEF TypeOK
    <3>2. Len(rawq) \in Nat
      BY LenProperties DEF TypeOK
    <3>3. /\ rawq' = Append(rawq, p)
          /\ rawUnfinished' = rawUnfinished + 1
          /\ fate' = [fate EXCEPT ![p] = "accepted"]
      BY <1>1, <2>1 DEF EnqueueRaw
    <3>4. Len(rawq') <= RawCap
      BY <2>1, <3>1, <3>2, <3>3, ConstantsAssumption
    <3> QED BY <3>1, <3>3, <3>4 DEF TypeOK, Fates
  <2>2. CASE ~(Len(rawq) < RawCap)
    BY <1>1, <2>2 DEF TypeOK, EnqueueRaw, Fates, Outcomes
  <2> QED BY <2>1, <2>2
<1>2. ASSUME EnqueuePacket(p)
      PROVE  /\ fate' \in [Packets -> Fates]
             /\ pktq' \in Seq(Packets) /\ Len(pktq') <= PktCap
             /\ pktUnfinished' \in Int
  <2>1. CASE Len(pktq) < PktCap
    <3>1. Append(pktq, p) \in Seq(Packets) /\ Len(Append(pktq, p)) = Len(pktq) + 1
      BY AppendProperties DEF TypeOK
    <3>2. Len(pktq) \in Nat
      BY LenProperties DEF TypeOK
    <3>3. /\ pktq' = Append(pktq, p)
          /\ pktUnfinished' = pktUnfinished + 1
          /\ fate' = [fate EXCEPT ![p] = "accepted"]
      BY <1>2, <2>1 DEF EnqueuePacket
    <3>4. Len(pktq') <= PktCap
      BY <2>1, <3>1, <3>2, <3>3, ConstantsAssumption
    <3> QED BY <3>1, <3>3, <3>4 DEF TypeOK, Fates
  <2>2. CASE ~(Len(pktq) < PktCap)
    BY <1>2, <2>2 DEF TypeOK, EnqueuePacket, Fates, Outcomes
  <2> QED BY <2>1, <2>2
<1> QED BY <1>1, <1>2

LEMMA InitType == Init => TypeInv
  BY ConstantsAssumption
  DEF Init, TypeInv, TypeOK, Hands, ScanBound, Threads, Fates, PrepPcs, WorkPcs, InHandler

\* The callback keeps the types.
LEMMA CaptureType ==
  ASSUME TypeInv, NEW p \in Packets, Capture(p)
  PROVE  TypeInv'
<1> USE DEF TypeInv
<1>0. NextSample \in 0 .. KeepEvery - 1
  BY ConstantsAssumption DEF TypeOK, NextSample, UnderPressure
<1>1. CASE CaptureSkip(p)
  BY <1>0, <1>1 DEF CaptureSkip, TypeOK, Fates, Outcomes, Hands, ScanBound, Threads, Current,
                    queueVars, prepVars, workVars, watchVars
<1>2. CASE CaptureRaw(p)
  BY <1>0, <1>2, EnqueueType
  DEF CaptureRaw, TypeOK, Hands, ScanBound, Threads, prepVars, workVars, watchVars
<1>3. CASE CaptureInline(p)
  <2> SUFFICES /\ fate' \in [Packets -> Fates]
               /\ pktq' \in Seq(Packets) /\ Len(pktq') <= PktCap
               /\ pktUnfinished' \in Int
               /\ sniffing' \in BOOLEAN
    BY <1>0, <1>3
    DEF CaptureInline, TypeOK, Hands, ScanBound, Threads, prepVars, workVars, watchVars
  <2>1. CASE EnqueuePacket(p) /\ UNCHANGED sniffing
    BY <2>1, EnqueueType DEF TypeOK
  <2>2. CASE fate' = [fate EXCEPT ![p] = "malformed"] /\ UNCHANGED <<pktq, pktUnfinished>>
             /\ sniffing' \in BOOLEAN
    BY <2>2 DEF TypeOK, Fates, Outcomes
  <2> QED BY <1>3, <2>1, <2>2 DEF CaptureInline, TypeOK
<1> QED BY <1>1, <1>2, <1>3 DEF Capture

\* The preprocess loop keeps the types.
LEMMA PrepType ==
  ASSUME TypeInv, NEW r \in Preps, PrepStep(r)
  PROVE  TypeInv'
<1> USE DEF TypeInv
<1>1. CASE PrepCheck(r)
  BY <1>1 DEF PrepCheck, TypeOK, PrepPcs, Hands, ScanBound, Threads,
              flowVars, queueVars, workVars, watchVars, mainVars
<1>2. CASE PrepGet(r)
  <2>1. CASE rawq # << >>
    <3>1. Head(rawq) \in Packets /\ Tail(rawq) \in Seq(Packets) /\ Len(Tail(rawq)) <= RawCap
      BY <2>1, ConstantsAssumption, HeadTailProperties DEF TypeOK
    <3> QED BY <1>2, <2>1, <3>1
            DEF PrepGet, TypeOK, PrepPcs, Hands, ScanBound, Threads,
                flowVars, workVars, watchVars, mainVars
  <2>2. CASE rawq = << >>
    BY <1>2, <2>2 DEF PrepGet, TypeOK, PrepPcs, Hands, ScanBound, Threads,
                      flowVars, workVars, watchVars, mainVars
  <2> QED BY <2>1, <2>2
<1>3. CASE PrepFinish(r)
  <2>1. prepJob[r] \in Packets
    BY <1>3 DEF PrepFinish, Hands
  <2>2. /\ fate' \in [Packets -> Fates]
        /\ pktq' \in Seq(Packets) /\ Len(pktq') <= PktCap
        /\ pktUnfinished' \in Int
    <3>1. CASE EnqueuePacket(prepJob[r])
      BY <2>1, <3>1, EnqueueType
    <3>2. CASE fate' = [fate EXCEPT ![prepJob[r]] = "malformed"] /\ UNCHANGED <<pktq, pktUnfinished>>
      BY <3>2 DEF TypeOK, Fates, Outcomes
    <3> QED BY <1>3, <3>1, <3>2 DEF PrepFinish
  <2>3. /\ rawUnfinished' = rawUnfinished - 1
        /\ prepJob' = [prepJob EXCEPT ![r] = NoPacket]
        /\ prepPc' = [prepPc EXCEPT ![r] = "top"]
        /\ UNCHANGED <<recorded, rawq, workVars, watchVars, mainVars>>
    BY <1>3 DEF PrepFinish
  <2>4. TypeOK'
    BY <2>2, <2>3 DEF TypeOK, PrepPcs, Threads, workVars, watchVars, mainVars
  <2>5. Hands'
    BY <2>3 DEF TypeOK, Hands, Threads, workVars
  <2>6. ScanBound'
    BY <2>3 DEF ScanBound, watchVars
  <2> QED BY <2>4, <2>5, <2>6
<1> QED BY <1>1, <1>2, <1>3 DEF PrepStep

\* A worker thread, the calls that block it, and its packet keep the types.
LEMMA WorkType ==
  ASSUME TypeInv, NEW t \in Threads, WorkStep(t) \/ Hang(t) \/ Unhang(t)
  PROVE  TypeInv'
<1> USE DEF TypeInv
<1>1. CASE WorkerStart(t)
  BY <1>1 DEF WorkerStart, Goto, TypeOK, WorkPcs, InHandler, Hands, ScanBound,
              flowVars, queueVars, prepVars, mainVars
<1>2. CASE WorkerCheck(t)
  BY <1>2 DEF WorkerCheck, Goto, TypeOK, WorkPcs, InHandler, Hands, ScanBound,
              flowVars, queueVars, prepVars, watchVars, mainVars
<1>3. CASE WorkerBeat(t)
  BY <1>3 DEF WorkerBeat, Goto, TypeOK, WorkPcs, InHandler, Hands, ScanBound,
              flowVars, queueVars, prepVars, mainVars
<1>4. CASE WorkerGet(t)
  <2>1. CASE pktq # << >>
    <3>1. Head(pktq) \in Packets /\ Tail(pktq) \in Seq(Packets) /\ Len(Tail(pktq)) <= PktCap
      BY <2>1, ConstantsAssumption, HeadTailProperties DEF TypeOK
    <3> QED BY <1>4, <2>1, <3>1
            DEF WorkerGet, Goto, TypeOK, WorkPcs, InHandler, Hands, ScanBound,
                flowVars, prepVars, watchVars, mainVars
  <2>2. CASE pktq = << >>
    BY <1>4, <2>2 DEF WorkerGet, Goto, TypeOK, WorkPcs, InHandler, Hands, ScanBound,
                      flowVars, prepVars, watchVars, mainVars
  <2> QED BY <2>1, <2>2
<1>5. CASE Record(t)
  BY <1>5 DEF Record, Goto, TypeOK, WorkPcs, InHandler, Hands, ScanBound,
              queueVars, prepVars, watchVars, mainVars
<1>6. ASSUME NEW o \in {"processed", "failed"}, Settle(t, o), UNCHANGED hung,
             UNCHANGED <<recorded, rawq, pktq, rawUnfinished, prepVars, watchVars, mainVars>>
      PROVE  TypeInv'
  <2>1. /\ fate' \in [Packets -> Fates]
        /\ job' \in [Threads -> Packets \cup {NoPacket}]
        /\ attempts' \in [Threads -> 0 .. MaxRetries]
        /\ pktUnfinished' \in Int
        /\ pc' = [pc EXCEPT ![t] = "top"]
    <3>1. 0 \in 0 .. MaxRetries
      BY ConstantsAssumption
    <3>2. o \in Fates
      BY DEF Fates, Outcomes
    <3>3. /\ fate' = [fate EXCEPT ![job[t]] = o]
          /\ job' = [job EXCEPT ![t] = NoPacket]
          /\ attempts' = [attempts EXCEPT ![t] = 0]
          /\ pktUnfinished' = pktUnfinished - 1
          /\ pc' = [pc EXCEPT ![t] = "top"]
      BY <1>6 DEF Settle, Goto
    <3>4. fate' \in [Packets -> Fates]
      BY <3>2, <3>3 DEF TypeOK
    <3> QED BY <3>1, <3>3, <3>4 DEF TypeOK
  <2>2. TypeOK'
    BY <1>6, <2>1 DEF TypeOK, WorkPcs, prepVars, watchVars, mainVars
  <2>3. Hands'
    <3>1. /\ job' = [job EXCEPT ![t] = NoPacket]
          /\ prepPc' = prepPc /\ prepJob' = prepJob
      BY <1>6 DEF Settle, prepVars
    <3>2. \A u \in Threads : pc'[u] \in InHandler => u # t /\ pc'[u] = pc[u] /\ job'[u] = job[u]
      BY <2>1, <3>1 DEF TypeOK, InHandler
    <3> QED BY <3>1, <3>2 DEF Hands
  <2> QED BY <1>6, <2>2, <2>3 DEF ScanBound, watchVars
<1>7. CASE Publish(t)
  BY <1>6, <1>7 DEF Publish
<1>8. CASE Raise(t)
  <2>1. CASE attempts[t] < MaxRetries
    <3>1. attempts[t] + 1 \in 0 .. MaxRetries
      BY <2>1, ConstantsAssumption DEF TypeOK
    <3> QED BY <1>8, <2>1, <3>1
            DEF Raise, Goto, TypeOK, WorkPcs, InHandler, Hands, ScanBound,
                prepVars, watchVars, mainVars
  <2>2. CASE ~(attempts[t] < MaxRetries)
    BY <1>6, <1>8, <2>2 DEF Raise
  <2> QED BY <2>1, <2>2
<1>9. CASE Hang(t) \/ Unhang(t)
  BY <1>9 DEF Hang, Unhang, TypeOK, InHandler, Hands, ScanBound,
              flowVars, queueVars, prepVars, watchVars, mainVars
<1> QED BY <1>1, <1>2, <1>3, <1>4, <1>5, <1>7, <1>8, <1>9 DEF WorkStep

\* The watchdog, the passing of time and the main thread keep the types.
LEMMA WatchType ==
  ASSUME TypeInv,
         WatchStep \/ WatchDies \/ MainStep \/ \E w \in Workers : StallTimeout(w)
  PROVE  TypeInv'
<1> USE DEF TypeInv
<1>1. CASE WatchScan \/ WatchSleep \/ WatchDies
  BY <1>1 DEF WatchScan, WatchSleep, WatchDies, TypeOK, Hands, ScanBound,
              flowVars, queueVars, prepVars, workVars, mainVars
<1>2. ASSUME NEW w \in Workers, WatchRestart(w)
      PROVE  TypeInv'
  <2>1. gen[w] < MaxRestarts /\ gen[w] \in Nat
    BY <1>2, ConstantsAssumption DEF WatchRestart, ScanBound, TypeOK
  <2>2. gen[w] + 1 \in 0 .. MaxRestarts /\ Current(w) \in Threads
    BY <2>1, ConstantsAssumption DEF TypeOK, Current, Threads
  <2>3. \A v \in scan' : gen'[v] = gen[v]
    BY <1>2 DEF WatchRestart, TypeOK
  <2>4. TypeOK'
    BY <1>2, <2>2 DEF WatchRestart, Goto, TypeOK, WorkPcs,
                      flowVars, queueVars, prepVars, mainVars
  <2>5. Hands'
    BY <1>2 DEF WatchRestart, Goto, TypeOK, Hands, InHandler, prepVars
  <2>6. ScanBound'
    BY <1>2, <2>3 DEF WatchRestart, ScanBound
  <2> QED BY <2>4, <2>5, <2>6
<1>3. CASE MainStep
  BY <1>3 DEF MainStep, RequestStop, StopSniffer, Exit, TypeOK, Hands, ScanBound,
              flowVars, queueVars, prepVars, workVars, watchVars
<1>4. ASSUME NEW w \in Workers, StallTimeout(w)
      PROVE  TypeInv'
  BY <1>4 DEF StallTimeout, TypeOK, Hands, ScanBound,
              flowVars, queueVars, prepVars, workVars, mainVars
<1> QED BY <1>1, <1>2, <1>3, <1>4 DEF WatchStep

LEMMA TypeInvStep == TypeInv /\ [Next]_vars => TypeInv'
<1> SUFFICES ASSUME TypeInv, [Next]_vars
             PROVE  TypeInv'
  OBVIOUS
<1>1. CASE Next
  BY <1>1, CaptureType, PrepType, WorkType, WatchType DEF Next
<1>2. CASE UNCHANGED vars
  BY <1>2 DEF TypeInv, TypeOK, Hands, ScanBound, vars,
              flowVars, queueVars, prepVars, workVars, watchVars, mainVars
<1> QED BY <1>1, <1>2

\* TypeInv is inductive; the other invariants are proved relative to it.
THEOREM TypeInvariant == Spec => []TypeInv
<1>1. Init => TypeInv
  BY InitType
<1>2. TypeInv /\ [Next]_vars => TypeInv'
  BY TypeInvStep
<1> QED BY <1>1, <1>2, PTL DEF Spec

\* Every variable of the packet path has its type in every reachable state:
\* the queues respect their bounds, the retry count its maximum.
THEOREM TypeCorrect == Spec => []TypeOK
<1>1. TypeInv => TypeOK
  BY DEF TypeInv
<1> QED BY <1>1, TypeInvariant, PTL

-----------------------------------------------------------------------------
\* One worker thread per id

\* Only superseded threads are cancelled: what makes OneWorkerPerId inductive.
CancelledOld == \A t \in cancelled : t[2] < gen[t[1]]

WorkerInv == OneWorkerPerId /\ CancelledOld

\* A step that leaves generations and cancel events alone and revives neither
\* an unborn nor an exited thread keeps WorkerInv.
LEMMA WorkerInvStable ==
  ASSUME WorkerInv, UNCHANGED <<gen, cancelled>>,
         \A t \in Threads : pc[t] \in {"unborn", "exited"} => pc'[t] = pc[t]
  PROVE  WorkerInv'
BY DEF WorkerInv, OneWorkerPerId, CancelledOld

LEMMA WorkerInvRestart ==
  ASSUME TypeInv, WorkerInv, NEW w \in Workers, WatchRestart(w)
  PROVE  WorkerInv'
<1>1. /\ gen[w] \in Nat /\ gen[w] < MaxRestarts
      /\ gen \in [Workers -> 0 .. MaxRestarts]
      /\ pc \in [Threads -> WorkPcs]
      /\ cancelled \in SUBSET Threads
  BY ConstantsAssumption DEF TypeInv, TypeOK, ScanBound, WatchRestart
<1>2. /\ gen' = [gen EXCEPT ![w] = @ + 1]
      /\ pc' = [pc EXCEPT ![<<w, gen[w] + 1>>] = "start"]
      /\ cancelled' = IF pc[Current(w)] # "exited" THEN cancelled \cup {Current(w)} ELSE cancelled
  BY DEF WatchRestart, Goto
<1>3. gen'[w] = gen[w] + 1 /\ \A v \in Workers : v # w => gen'[v] = gen[v]
  BY <1>1, <1>2
<1>4. ASSUME NEW v \in Workers, NEW n \in 0 .. MaxRestarts
      PROVE  /\ n < gen'[v] => <<v, n>> \in cancelled' \/ pc'[<<v, n>>] = "exited"
             /\ n = gen'[v] => <<v, n>> \notin cancelled'
             /\ n > gen'[v] => pc'[<<v, n>>] = "unborn"
             /\ <<v, n>> \in cancelled' => n < gen'[v]
  <2>1. /\ n < gen[v] => <<v, n>> \in cancelled \/ pc[<<v, n>>] = "exited"
        /\ n > gen[v] => pc[<<v, n>>] = "unborn"
        /\ <<v, n>> \in cancelled => n < gen[v]
    <3>1. <<v, n>> \in Threads /\ <<v, n>>[1] = v /\ <<v, n>>[2] = n
      BY <1>4 DEF Threads
    <3>2. \A t \in Threads : /\ t[2] < gen[t[1]] => t \in cancelled \/ pc[t] = "exited"
                             /\ t[2] > gen[t[1]] => pc[t] = "unborn"
                             /\ t \in cancelled => t[2] < gen[t[1]]
      BY DEF WorkerInv, OneWorkerPerId, CancelledOld
    <3> QED BY <3>1, <3>2
  <2>2. CASE v = w
    <3>1. n # gen[w] + 1 => pc'[<<v, n>>] = pc[<<v, n>>]
      BY <1>1, <1>2, <2>2 DEF Threads
    <3>2. <<v, n>> = Current(w) <=> n = gen[w]
      BY <2>2 DEF Current
    <3> QED BY <1>1, <1>2, <1>3, <2>1, <2>2, <3>1, <3>2
  <2>3. CASE v # w
    <3>1. pc'[<<v, n>>] = pc[<<v, n>>]
      BY <1>1, <1>2, <2>3 DEF Threads
    <3>2. <<v, n>> # Current(w)
      BY <2>3 DEF Current
    <3> QED BY <1>2, <1>3, <2>1, <2>3, <3>1, <3>2
  <2> QED BY <2>2, <2>3
<1>5. cancelled' \subseteq Threads
  BY <1>1, <1>2 DEF Current, Threads
<1>6. \A t \in Threads : \E v \in Workers, n \in 0 .. MaxRestarts :
        t = <<v, n>> /\ t[1] = v /\ t[2] = n
  BY DEF Threads
<1> QED BY <1>4, <1>5, <1>6 DEF WorkerInv, OneWorkerPerId, CancelledOld

LEMMA WorkerInvStep == TypeInv /\ WorkerInv /\ [Next]_vars => WorkerInv'
<1> SUFFICES ASSUME TypeInv, WorkerInv, [Next]_vars
             PROVE  WorkerInv'
  OBVIOUS
<1>1. ASSUME NEW t \in Threads, WorkStep(t)
      PROVE  WorkerInv'
  <2>1. UNCHANGED <<gen, cancelled>>
    BY <1>1 DEF WorkStep, WorkerStart, WorkerCheck, WorkerBeat, WorkerGet, Record, Publish,
                Raise, watchVars
  <2>2. pc[t] \notin {"unborn", "exited"}
    BY <1>1 DEF WorkStep, WorkerStart, WorkerCheck, WorkerBeat, WorkerGet, Record, Publish,
                Raise, InHandler
  <2>3. \E l : pc' = [pc EXCEPT ![t] = l]
    BY <1>1 DEF WorkStep, WorkerStart, WorkerCheck, WorkerBeat, WorkerGet, Record, Publish,
                Raise, Settle, Goto
  <2>4. \A u \in Threads : u # t => pc'[u] = pc[u]
    BY <2>3 DEF TypeInv, TypeOK
  <2> QED BY <2>1, <2>2, <2>4, WorkerInvStable
<1>2. ASSUME NEW w \in Workers, WatchRestart(w)
      PROVE  WorkerInv'
  BY <1>2, WorkerInvRestart
<1>3. CASE UNCHANGED <<gen, cancelled, pc>>
  BY <1>3, WorkerInvStable
<1>4. ASSUME NEW p \in Packets, Capture(p)
      PROVE  UNCHANGED <<gen, cancelled, pc>>
  BY <1>4 DEF Capture, CaptureSkip, CaptureRaw, CaptureInline, workVars, watchVars
<1>5. ASSUME NEW r \in Preps, PrepStep(r)
      PROVE  UNCHANGED <<gen, cancelled, pc>>
  BY <1>5 DEF PrepStep, PrepCheck, PrepGet, PrepFinish, workVars, watchVars
<1>6. ASSUME NEW t \in Threads, Hang(t) \/ Unhang(t)
      PROVE  UNCHANGED <<gen, cancelled, pc>>
  BY <1>6 DEF Hang, Unhang, watchVars
<1>7. ASSUME WatchScan \/ WatchSleep \/ WatchDies \/ MainStep
             \/ \E w \in Workers : StallTimeout(w)
      PROVE  UNCHANGED <<gen, cancelled, pc>>
  BY <1>7 DEF WatchScan, WatchSleep, WatchDies, MainStep, RequestStop, StopSniffer, Exit,
              StallTimeout, workVars, watchVars
<1>8. CASE UNCHANGED vars
  BY <1>3, <1>8 DEF vars, workVars, watchVars
<1> QED BY <1>1, <1>2, <1>3, <1>4, <1>5, <1>6, <1>7, <1>8 DEF Next, WatchStep

\* However often the watchdog replaces a worker, one thread per id is in
\* charge and all its predecessors have been told to stop.
THEOREM OneWorker == Spec => []OneWorkerPerId
<1>1. Init => WorkerInv
  BY ConstantsAssumption DEF Init, WorkerInv, OneWorkerPerId, CancelledOld, Threads
<1>2. WorkerInv => OneWorkerPerId
  BY DEF WorkerInv
<1> QED BY <1>1, <1>2, WorkerInvStep, TypeInvariant, PTL DEF Spec

-----------------------------------------------------------------------------
\* Conservation of packets

InRaw(p)  == \E i \in 1 .. Len(rawq) : rawq[i] = p
InPkt(p)  == \E i \in 1 .. Len(pktq) : pktq[i] = p
InPrep(p) == \E r \in Preps : prepJob[r] = p
InJob(p)  == \E t \in Threads : job[t] = p

\* Each kind of place holds a packet at most once ...
NoTwin ==
  /\ \A i, j \in 1 .. Len(rawq) : rawq[i] = rawq[j] => i = j
  /\ \A i, j \in 1 .. Len(pktq) : pktq[i] = pktq[j] => i = j
  /\ \A r, s \in Preps : prepJob[r] = prepJob[s] /\ prepJob[r] \in Packets => r = s
  /\ \A t, u \in Threads : job[t] = job[u] /\ job[t] \in Packets => t = u

\* ... no packet is in two kinds of place ...
Apart ==
  \A p \in Packets :
    /\ InRaw(p) => ~InPkt(p) /\ ~InPrep(p) /\ ~InJob(p)
    /\ InPkt(p) => ~InPrep(p) /\ ~InJob(p)
    /\ InPrep(p) => ~InJob(p)

\* ... and the packets in a place are the accepted ones.
Located ==
  \A p \in Packets : fate[p] = "accepted" <=> InRaw(p) \/ InPkt(p) \/ InPrep(p) \/ InJob(p)

\* A thread that is not at work has empty hands: taking a packet overwrites none.
IdleHands ==
  /\ \A r \in Preps : prepPc[r] # "work" => prepJob[r] = NoPacket
  /\ \A t \in Threads : pc[t] \notin InHandler => job[t] = NoPacket

FlowInv == NoTwin /\ Apart /\ Located

LEMMA FlowStable ==
  ASSUME FlowInv, UNCHANGED <<fate, rawq, pktq, prepJob, job>>
  PROVE  FlowInv'
BY DEF FlowInv, NoTwin, Apart, Located, InRaw, InPkt, InPrep, InJob

\* Where the elements of a queue are after an enqueue and a dequeue.
LEMMA AppendElements ==
  ASSUME NEW S, NEW q \in Seq(S), NEW p \in S
  PROVE  /\ Len(q) \in Nat /\ Len(Append(q, p)) = Len(q) + 1
         /\ \A i \in 1 .. Len(q) : Append(q, p)[i] = q[i]
         /\ Append(q, p)[Len(q) + 1] = p
BY AppendProperties, LenProperties

LEMMA TailElements ==
  ASSUME NEW S, NEW q \in Seq(S), q # << >>
  PROVE  /\ Len(q) \in Nat \ {0} /\ Len(Tail(q)) = Len(q) - 1
         /\ \A i \in 1 .. Len(q) - 1 : Tail(q)[i] = q[i + 1]
         /\ Head(q) = q[1] /\ Head(q) \in S
<1>1. Len(q) \in Nat \ {0}
  BY EmptySeq
<1>2. Head(q) = q[1]
  OBVIOUS
<1> QED BY <1>1, <1>2, HeadTailProperties

\* A packet that is nowhere and gets an outcome, or stays outside.
LEMMA FlowRefused ==
  ASSUME TypeInv, FlowInv, NEW p \in Packets, NEW o \in Fates \ {"accepted"},
         fate[p] # "accepted", fate' = [fate EXCEPT ![p] = o],
         UNCHANGED <<rawq, pktq, prepJob, job>>
  PROVE  FlowInv'
<1>1. \A x \in Packets : fate'[x] = "accepted" <=> fate[x] = "accepted"
  BY DEF TypeInv, TypeOK
<1>2. NoTwin' /\ Apart'
  BY DEF FlowInv, NoTwin, Apart, InRaw, InPkt, InPrep, InJob
<1>3. Located'
  BY <1>1 DEF FlowInv, Located, InRaw, InPkt, InPrep, InJob
<1> QED BY <1>2, <1>3 DEF FlowInv

\* A packet that is nowhere enters the raw queue.
LEMMA FlowEnqueueRaw ==
  ASSUME TypeInv, FlowInv, NEW p \in Packets, fate[p] = "wire", EnqueueRaw(p),
         UNCHANGED <<pktq, prepJob, job>>
  PROVE  FlowInv'
<1>1. ~InRaw(p) /\ ~InPkt(p) /\ ~InPrep(p) /\ ~InJob(p)
  BY DEF FlowInv, Located
<1>2. CASE Len(rawq) < RawCap
  <2>1. rawq \in Seq(Packets) /\ fate \in [Packets -> Fates]
    BY DEF TypeInv, TypeOK
  <2>2. rawq' = Append(rawq, p) /\ fate' = [fate EXCEPT ![p] = "accepted"]
    BY <1>2 DEF EnqueueRaw
  <2>3. /\ Len(rawq) \in Nat /\ Len(rawq') = Len(rawq) + 1
        /\ \A i \in 1 .. Len(rawq) : rawq'[i] = rawq[i]
        /\ rawq'[Len(rawq) + 1] = p
    BY <2>1, <2>2, AppendElements
  <2>4. \A x : InRaw(x)' <=> InRaw(x) \/ x = p
    BY <2>3 DEF InRaw
  <2>5. \A x : (InPkt(x)' <=> InPkt(x)) /\ (InPrep(x)' <=> InPrep(x)) /\ (InJob(x)' <=> InJob(x))
    BY DEF InPkt, InPrep, InJob
  <2>6. NoTwin'
    BY <1>1, <2>3 DEF FlowInv, NoTwin, InRaw
  <2>7. Apart'
    BY <1>1, <2>4, <2>5 DEF FlowInv, Apart
  <2>8. Located'
    BY <1>1, <2>1, <2>2, <2>4, <2>5 DEF FlowInv, Located
  <2> QED BY <2>6, <2>7, <2>8 DEF FlowInv
<1>3. CASE ~(Len(rawq) < RawCap)
  BY <1>3, FlowRefused DEF EnqueueRaw, Fates, Outcomes
<1> QED BY <1>2, <1>3

\* A packet that is at most in the hands of a preprocess thread, which lets go
\* of it, enters the packet queue or is dropped.
LEMMA FlowEnqueuePacket ==
  ASSUME TypeInv, FlowInv, NEW p \in Packets, EnqueuePacket(p),
         ~InRaw(p), ~InPkt(p), ~InJob(p), UNCHANGED <<rawq, job>>,
         \A x \in Packets : InPrep(x)' <=> InPrep(x) /\ x # p,
         \A r, s \in Preps : prepJob'[r] = prepJob'[s] /\ prepJob'[r] \in Packets => r = s
  PROVE  FlowInv'
<1>1. pktq \in Seq(Packets) /\ fate \in [Packets -> Fates]
  BY DEF TypeInv, TypeOK
<1>2. \A x : (InRaw(x)' <=> InRaw(x)) /\ (InJob(x)' <=> InJob(x))
  BY DEF InRaw, InJob
<1>3. CASE Len(pktq) < PktCap
  <2>1. pktq' = Append(pktq, p) /\ fate' = [fate EXCEPT ![p] = "accepted"]
    BY <1>3 DEF EnqueuePacket
  <2>2. /\ Len(pktq) \in Nat /\ Len(pktq') = Len(pktq) + 1
        /\ \A i \in 1 .. Len(pktq) : pktq'[i] = pktq[i]
        /\ pktq'[Len(pktq) + 1] = p
    BY <1>1, <2>1, AppendElements
  <2>3. \A x : InPkt(x)' <=> InPkt(x) \/ x = p
    BY <2>2 DEF InPkt
  <2>4. NoTwin'
    BY <2>2 DEF FlowInv, NoTwin, InPkt
  <2>5. Apart'
    BY <1>2, <2>3 DEF FlowInv, Apart
  <2>6. Located'
    BY <1>1, <1>2, <2>1, <2>3 DEF FlowInv, Located
  <2> QED BY <2>4, <2>5, <2>6 DEF FlowInv
<1>4. CASE ~(Len(pktq) < PktCap)
  <2>1. pktq' = pktq /\ fate' = [fate EXCEPT ![p] = "droppedPkt"]
    BY <1>4 DEF EnqueuePacket
  <2>2. \A x : InPkt(x)' <=> InPkt(x)
    BY <2>1 DEF InPkt
  <2>3. NoTwin'
    BY <2>1 DEF FlowInv, NoTwin
  <2>4. Apart'
    BY <1>2, <2>2 DEF FlowInv, Apart
  <2>5. Located'
    BY <1>1, <1>2, <2>1, <2>2 DEF FlowInv, Located
  <2> QED BY <2>3, <2>4, <2>5 DEF FlowInv
<1> QED BY <1>3, <1>4

\* A preprocess thread drops its packet.
LEMMA FlowMalformed ==
  ASSUME TypeInv, FlowInv, NEW p \in Packets,
         fate' = [fate EXCEPT ![p] = "malformed"],
         ~InRaw(p), ~InPkt(p), ~InJob(p), UNCHANGED <<rawq, pktq, job>>,
         \A x \in Packets : InPrep(x)' <=> InPrep(x) /\ x # p,
         \A r, s \in Preps : prepJob'[r] = prepJob'[s] /\ prepJob'[r] \in Packets => r = s
  PROVE  FlowInv'
<1>1. fate \in [Packets -> Fates]
  BY DEF TypeInv, TypeOK
<1>2. \A x : (InRaw(x)' <=> InRaw(x)) /\ (InPkt(x)' <=> InPkt(x)) /\ (InJob(x)' <=> InJob(x))
  BY DEF InRaw, InPkt, InJob
<1>3. NoTwin'
  BY DEF FlowInv, NoTwin
<1>4. Apart'
  BY <1>2 DEF FlowInv, Apart
<1>5. Located'
  BY <1>1, <1>2 DEF FlowInv, Located
<1> QED BY <1>3, <1>4, <1>5 DEF FlowInv

LEMMA FlowCapture ==
  ASSUME TypeInv, FlowInv, NEW p \in Packets, Capture(p)
  PROVE  FlowInv'
<1>1. CASE CaptureSkip(p)
  <2>1. /\ fate[p] # "accepted" /\ fate' = [fate EXCEPT ![p] = "skipped"]
        /\ UNCHANGED <<rawq, pktq, prepJob, job>>
    BY <1>1 DEF CaptureSkip, Arrives, queueVars, prepVars, workVars
  <2> QED BY <2>1, FlowRefused DEF Fates, Outcomes
<1>2. CASE CaptureRaw(p)
  BY <1>2, FlowEnqueueRaw DEF CaptureRaw, Arrives, prepVars, workVars
<1>3. CASE CaptureInline(p)
  <2>1. fate[p] = "wire" /\ UNCHANGED <<rawq, prepJob, job>>
    BY <1>3 DEF CaptureInline, Arrives, prepVars, workVars
  <2>2. CASE EnqueuePacket(p)
    <3>1. ~InRaw(p) /\ ~InPkt(p) /\ ~InPrep(p) /\ ~InJob(p)
      BY <2>1 DEF FlowInv, Located
    <3>2. \A x \in Packets : InPrep(x)' <=> InPrep(x) /\ x # p
      BY <2>1, <3>1 DEF InPrep
    <3>3. \A r, s \in Preps : prepJob'[r] = prepJob'[s] /\ prepJob'[r] \in Packets => r = s
      BY <2>1 DEF FlowInv, NoTwin
    <3> QED BY <2>1, <2>2, <3>1, <3>2, <3>3, FlowEnqueuePacket
  <2>3. CASE fate' = [fate EXCEPT ![p] = "malformed"] /\ UNCHANGED pktq
    BY <2>1, <2>3, FlowRefused DEF Fates, Outcomes
  <2> QED BY <1>3, <2>2, <2>3 DEF CaptureInline
<1> QED BY <1>1, <1>2, <1>3 DEF Capture

\* The hands of preprocess thread r let go of the packet they hold.
LEMMA PrepLetsGo ==
  ASSUME TypeInv, FlowInv, NEW r \in Preps, prepJob[r] \in Packets,
         prepJob' = [prepJob EXCEPT ![r] = NoPacket]
  PROVE  /\ \A x \in Packets : InPrep(x)' <=> InPrep(x) /\ x # prepJob[r]
         /\ \A q, s \in Preps : prepJob'[q] = prepJob'[s] /\ prepJob'[q] \in Packets => q = s
<1>1. /\ prepJob'[r] = NoPacket
      /\ \A s \in Preps : s # r => prepJob'[s] = prepJob[s]
  BY DEF TypeInv, TypeOK
<1>2. \A q, s \in Preps : prepJob[q] = prepJob[s] /\ prepJob[q] \in Packets => q = s
  BY DEF FlowInv, NoTwin
<1> QED BY <1>1, <1>2, ConstantsAssumption DEF InPrep

LEMMA FlowPrep ==
  ASSUME TypeInv, FlowInv, IdleHands, NEW r \in Preps, PrepStep(r)
  PROVE  FlowInv'
<1>1. CASE PrepCheck(r)
  BY <1>1, FlowStable DEF PrepCheck, flowVars, queueVars, workVars
<1>2. CASE PrepGet(r)
  <2>1. CASE rawq = << >>
    BY <1>2, <2>1, FlowStable DEF PrepGet, flowVars, workVars
  <2>2. CASE rawq # << >>
    <3> DEFINE h == Head(rawq)
    <3>1. /\ rawq' = Tail(rawq) /\ prepJob' = [prepJob EXCEPT ![r] = h]
          /\ UNCHANGED <<fate, pktq, job>>
      BY <1>2, <2>2 DEF PrepGet, flowVars, workVars
    <3>2. /\ Len(rawq) \in Nat \ {0} /\ Len(rawq') = Len(rawq) - 1
          /\ \A i \in 1 .. Len(rawq) - 1 : rawq'[i] = rawq[i + 1]
          /\ h = rawq[1] /\ h \in Packets
      BY <2>2, <3>1, TailElements DEF TypeInv, TypeOK
    <3> HIDE DEF h
    <3>3. prepJob[r] = NoPacket
      BY <1>2 DEF PrepGet, IdleHands
    <3>4. /\ prepJob'[r] = h
          /\ \A s \in Preps : s # r => prepJob'[s] = prepJob[s]
      BY <3>1 DEF TypeInv, TypeOK
    <3>5. \A i, j \in 1 .. Len(rawq) : rawq[i] = rawq[j] => i = j
      BY DEF FlowInv, NoTwin
    <3>6. \A x \in Packets : InRaw(x)' <=> InRaw(x) /\ x # h
      <4>1. SUFFICES ASSUME NEW x \in Packets
                     PROVE  InRaw(x)' <=> InRaw(x) /\ x # h
        OBVIOUS
      <4>2. InRaw(x)' => InRaw(x) /\ x # h
        <5>1. SUFFICES ASSUME NEW i \in 1 .. Len(rawq'), rawq'[i] = x
                       PROVE  InRaw(x) /\ x # h
          BY DEF InRaw
        <5>2. i + 1 \in 1 .. Len(rawq) /\ rawq[i + 1] = x /\ i + 1 # 1
          BY <3>2, <5>1
        <5> QED BY <3>2, <3>5, <5>2 DEF InRaw
      <4>3. InRaw(x) /\ x # h => InRaw(x)'
        <5>1. SUFFICES ASSUME NEW i \in 1 .. Len(rawq), rawq[i] = x, x # h
                       PROVE  InRaw(x)'
          BY DEF InRaw
        <5>2. i - 1 \in 1 .. Len(rawq') /\ rawq'[i - 1] = x
          BY <3>2, <5>1
        <5> QED BY <5>2 DEF InRaw
      <4> QED BY <4>2, <4>3
    <3>7. \A x \in Packets : InPrep(x)' <=> InPrep(x) \/ x = h
      BY <3>3, <3>4, ConstantsAssumption DEF InPrep
    <3>8. \A x : (InPkt(x)' <=> InPkt(x)) /\ (InJob(x)' <=> InJob(x))
      BY <3>1 DEF InPkt, InJob
    <3>9. InRaw(h) /\ ~InPkt(h) /\ ~InPrep(h) /\ ~InJob(h)
      <4>1. InRaw(h)
        BY <3>2 DEF InRaw
      <4> QED BY <3>2, <4>1 DEF FlowInv, Apart
    <3>10. NoTwin'
      <4>1. \A i, j \in 1 .. Len(rawq') : rawq'[i] = rawq'[j] => i = j
        <5>1. SUFFICES ASSUME NEW i \in 1 .. Len(rawq'), NEW j \in 1 .. Len(rawq'),
                              rawq'[i] = rawq'[j]
                       PROVE  i = j
          OBVIOUS
        <5>2. /\ i + 1 \in 1 .. Len(rawq) /\ j + 1 \in 1 .. Len(rawq)
              /\ rawq[i + 1] = rawq[j + 1]
          BY <3>2, <5>1
        <5>3. i + 1 = j + 1
          BY <3>5, <5>2
        <5> QED BY <3>2, <5>3
      <4>2. \A q, s \in Preps : prepJob'[q] = prepJob'[s] /\ prepJob'[q] \in Packets => q = s
        BY <3>4, <3>9 DEF FlowInv, NoTwin, InPrep
      <4> QED BY <3>1, <4>1, <4>2 DEF FlowInv, NoTwin
    <3>11. Apart'
      BY <3>6, <3>7, <3>8, <3>9 DEF FlowInv, Apart
    <3>12. Located'
      BY <3>1, <3>6, <3>7, <3>8, <3>9 DEF FlowInv, Located
    <3> QED BY <3>10, <3>11, <3>12 DEF FlowInv
  <2> QED BY <2>1, <2>2
<1>3. CASE PrepFinish(r)
  <2> DEFINE p == prepJob[r]
  <2>1. p \in Packets
    BY <1>3 DEF PrepFinish, TypeInv, Hands
  <2>2. prepJob' = [prepJob EXCEPT ![r] = NoPacket] /\ UNCHANGED <<rawq, job>>
    BY <1>3 DEF PrepFinish, workVars
  <2>3. ~InRaw(p) /\ ~InPkt(p) /\ ~InJob(p)
    <3>1. InPrep(p)
      BY DEF InPrep
    <3> QED BY <2>1, <3>1 DEF FlowInv, Apart
  <2>4. /\ \A x \in Packets : InPrep(x)' <=> InPrep(x) /\ x # p
        /\ \A q, s \in Preps : prepJob'[q] = prepJob'[s] /\ prepJob'[q] \in Packets => q = s
    BY <2>1, <2>2, PrepLetsGo
  <2>5. EnqueuePacket(p) \/ (fate' = [fate EXCEPT ![p] = "malformed"] /\ UNCHANGED pktq)
    BY <1>3 DEF PrepFinish
  <2> HIDE DEF p
  <2> QED BY <2>1, <2>2, <2>3, <2>4, <2>5, FlowEnqueuePacket, FlowMalformed
<1> QED BY <1>1, <1>2, <1>3 DEF PrepStep

\* A worker takes the head of the packet queue.
LEMMA FlowWorkerGet ==
  ASSUME TypeInv, FlowInv, IdleHands, NEW t \in Threads, WorkerGet(t)
  PROVE  FlowInv'
<1>1. CASE pktq = << >>
  BY <1>1, FlowStable DEF WorkerGet, flowVars, prepVars
<1>2. CASE pktq # << >>
  <2> DEFINE h == Head(pktq)
  <2>1. /\ pktq' = Tail(pktq) /\ job' = [job EXCEPT ![t] = h]
        /\ UNCHANGED <<fate, rawq, prepJob>>
    BY <1>2 DEF WorkerGet, flowVars, prepVars
  <2>2. /\ Len(pktq) \in Nat \ {0} /\ Len(pktq') = Len(pktq) - 1
        /\ \A i \in 1 .. Len(pktq) - 1 : pktq'[i] = pktq[i + 1]
        /\ h = pktq[1] /\ h \in Packets
    BY <1>2, <2>1, TailElements DEF TypeInv, TypeOK
  <2> HIDE DEF h
  <2>3. job[t] = NoPacket
    BY DEF WorkerGet, IdleHands, InHandler
  <2>4. /\ job'[t] = h
        /\ \A u \in Threads : u # t => job'[u] = job[u]
    BY <2>1 DEF TypeInv, TypeOK
  <2>5. \A i, j \in 1 .. Len(pktq) : pktq[i] = pktq[j] => i = j
    BY DEF FlowInv, NoTwin
  <2>6. \A x \in Packets : InPkt(x)' <=> InPkt(x) /\ x # h
    <3>1. SUFFICES ASSUME NEW x \in Packets
                   PROVE  InPkt(x)' <=> InPkt(x) /\ x # h
      OBVIOUS
    <3>2. InPkt(x)' => InPkt(x) /\ x # h
      <4>1. SUFFICES ASSUME NEW i \in 1 .. Len(pktq'), pktq'[i] = x
                     PROVE  InPkt(x) /\ x # h
        BY DEF InPkt
      <4>2. i + 1 \in 1 .. Len(pktq) /\ pktq[i + 1] = x /\ i + 1 # 1
        BY <2>2, <4>1
      <4> QED BY <2>2, <2>5, <4>2 DEF InPkt
    <3>3. InPkt(x) /\ x # h => InPkt(x)'
      <4>1. SUFFICES ASSUME NEW i \in 1 .. Len(pktq), pktq[i] = x, x # h
                     PROVE  InPkt(x)'
        BY DEF InPkt
      <4>2. i - 1 \in 1 .. Len(pktq') /\ pktq'[i - 1] = x
        BY <2>2, <4>1
      <4> QED BY <4>2 DEF InPkt
    <3> QED BY <3>2, <3>3
  <2>7. \A x \in Packets : InJob(x)' <=> InJob(x) \/ x = h
    BY <2>3, <2>4, ConstantsAssumption DEF InJob
  <2>8. \A x : (InRaw(x)' <=> InRaw(x)) /\ (InPrep(x)' <=> InPrep(x))
    BY <2>1 DEF InRaw, InPrep
  <2>9. InPkt(h) /\ ~InRaw(h) /\ ~InPrep(h) /\ ~InJob(h)
    <3>1. InPkt(h)
      BY <2>2 DEF InPkt
    <3> QED BY <2>2, <3>1 DEF FlowInv, Apart
  <2>10. NoTwin'
    <3>1. \A i, j \in 1 .. Len(pktq') : pktq'[i] = pktq'[j] => i = j
      <4>1. SUFFICES ASSUME NEW i \in 1 .. Len(pktq'), NEW j \in 1 .. Len(pktq'),
                            pktq'[i] = pktq'[j]
                     PROVE  i = j
        OBVIOUS
      <4>2. /\ i + 1 \in 1 .. Len(pktq) /\ j + 1 \in 1 .. Len(pktq)
            /\ pktq[i + 1] = pktq[j + 1]
        BY <2>2, <4>1
      <4>3. i + 1 = j + 1
        BY <2>5, <4>2
      <4> QED BY <2>2, <4>3
    <3>2. \A u, v \in Threads : job'[u] = job'[v] /\ job'[u] \in Packets => u = v
      BY <2>4, <2>9 DEF FlowInv, NoTwin, InJob
    <3> QED BY <2>1, <3>1, <3>2 DEF FlowInv, NoTwin
  <2>11. Apart'
    BY <2>6, <2>7, <2>8, <2>9 DEF FlowInv, Apart
  <2>12. Located'
    BY <2>1, <2>6, <2>7, <2>8, <2>9 DEF FlowInv, Located
  <2> QED BY <2>10, <2>11, <2>12 DEF FlowInv
<1> QED BY <1>1, <1>2

\* A worker reports its packet as processed or failed and lets go of it.
LEMMA FlowSettle ==
  ASSUME TypeInv, FlowInv, NEW t \in Threads, job[t] \in Packets,
         NEW o \in Fates \ {"accepted"}, Settle(t, o), UNCHANGED <<rawq, pktq, prepJob>>
  PROVE  FlowInv'
<1> DEFINE p == job[t]
<1>1. /\ fate' = [fate EXCEPT ![p] = o] /\ job' = [job EXCEPT ![t] = NoPacket]
      /\ fate \in [Packets -> Fates] /\ job \in [Threads -> Packets \cup {NoPacket}]
  BY DEF Settle, TypeInv, TypeOK
<1>2. /\ job'[t] = NoPacket
      /\ \A u \in Threads : u # t => job'[u] = job[u]
  BY <1>1
<1>3. \A u, v \in Threads : job[u] = job[v] /\ job[u] \in Packets => u = v
  BY DEF FlowInv, NoTwin
<1>4. \A x \in Packets : InJob(x)' <=> InJob(x) /\ x # p
  BY <1>2, <1>3, ConstantsAssumption DEF InJob
<1>5. \A x : (InRaw(x)' <=> InRaw(x)) /\ (InPkt(x)' <=> InPkt(x)) /\ (InPrep(x)' <=> InPrep(x))
  BY DEF InRaw, InPkt, InPrep
<1>6. InJob(p)
  BY DEF InJob
<1> HIDE DEF p
<1>7. NoTwin'
  BY <1>2, <1>3, ConstantsAssumption DEF FlowInv, NoTwin
<1>8. Apart'
  BY <1>4, <1>5 DEF FlowInv, Apart
<1>9. Located'
  BY <1>1, <1>4, <1>5, <1>6 DEF FlowInv, Located, Apart
<1> QED BY <1>7, <1>8, <1>9 DEF FlowInv

LEMMA FlowWork ==
  ASSUME TypeInv, FlowInv, IdleHands, NEW t \in Threads,
         WorkStep(t) \/ Hang(t) \/ Unhang(t)
  PROVE  FlowInv'
<1>1. CASE \/ WorkerStart(t) \/ WorkerCheck(t) \/ WorkerBeat(t) \/ Record(t)
           \/ Hang(t) \/ Unhang(t) \/ (Raise(t) /\ attempts[t] < MaxRetries)
  BY <1>1, FlowStable
  DEF WorkerStart, WorkerCheck, WorkerBeat, Record, Hang, Unhang, Raise,
      flowVars, queueVars, prepVars
<1>2. CASE WorkerGet(t)
  BY <1>2, FlowWorkerGet
<1>3. CASE Publish(t) \/ (Raise(t) /\ ~(attempts[t] < MaxRetries))
  <2>1. job[t] \in Packets
    BY <1>3 DEF Publish, Raise, TypeInv, Hands, InHandler
  <2>2. /\ Settle(t, "processed") \/ Settle(t, "failed")
        /\ UNCHANGED <<rawq, pktq, prepJob>>
    BY <1>3 DEF Publish, Raise, prepVars
  <2> QED BY <2>1, <2>2, FlowSettle DEF Fates, Outcomes
<1> QED BY <1>1, <1>2, <1>3 DEF WorkStep

\* Threads pick up a packet when they start work and put it down when they end;
\* a successor thread was unborn, so it starts with empty hands.
LEMMA IdleHandsStep ==
  ASSUME TypeInv, WorkerInv, IdleHands, [Next]_vars
  PROVE  IdleHands'
<1>1. CASE UNCHANGED <<prepPc, prepJob, pc, job>>
  BY <1>1 DEF IdleHands
<1>2. ASSUME NEW r \in Preps, PrepStep(r)
      PROVE  IdleHands'
  BY <1>2 DEF PrepStep, PrepCheck, PrepGet, PrepFinish, IdleHands, TypeInv, TypeOK, workVars
<1>3. ASSUME NEW t \in Threads, WorkStep(t)
      PROVE  IdleHands'
  BY <1>3 DEF WorkStep, WorkerStart, WorkerCheck, WorkerBeat, WorkerGet, Record, Publish, Raise,
              Settle, Goto, IdleHands, InHandler, TypeInv, TypeOK, prepVars
<1>4. ASSUME NEW w \in Workers, WatchRestart(w)
      PROVE  IdleHands'
  <2> DEFINE t == <<w, gen[w] + 1>>
  <2>1. /\ pc' = [pc EXCEPT ![t] = "start"] /\ UNCHANGED <<prepPc, prepJob, job>>
        /\ pc \in [Threads -> WorkPcs]
    BY <1>4 DEF WatchRestart, Goto, prepVars, TypeInv, TypeOK
  <2>2. t \in Threads /\ t[2] > gen[t[1]]
    BY <1>4, ConstantsAssumption DEF WatchRestart, TypeInv, TypeOK, ScanBound, Threads
  <2>3. pc[t] = "unborn"
    BY <2>2 DEF WorkerInv, OneWorkerPerId
  <2>4. job[t] = NoPacket
    BY <2>2, <2>3 DEF IdleHands, InHandler
  <2> HIDE DEF t
  <2>5. \A u \in Threads : u # t => pc'[u] = pc[u]
    BY <2>1
  <2> QED BY <2>1, <2>4, <2>5 DEF IdleHands
<1>5. ASSUME NEW p \in Packets, Capture(p)
      PROVE  UNCHANGED <<prepPc, prepJob, pc, job>>
  BY <1>5 DEF Capture, CaptureSkip, CaptureRaw, CaptureInline, prepVars, workVars
<1>6. ASSUME NEW t \in Threads, Hang(t) \/ Unhang(t)
      PROVE  UNCHANGED <<prepPc, prepJob, pc, job>>
  BY <1>6 DEF Hang, Unhang, prepVars
<1>7. ASSUME WatchScan \/ WatchSleep \/ WatchDies \/ MainStep
             \/ \E w \in Workers : StallTimeout(w)
      PROVE  UNCHANGED <<prepPc, prepJob, pc, job>>
  BY <1>7 DEF WatchScan, WatchSleep, WatchDies, MainStep, RequestStop, StopSniffer, Exit,
              StallTimeout, prepVars, workVars
<1>8. CASE UNCHANGED vars
  BY <1>1, <1>8 DEF vars, prepVars, workVars
<1> QED BY <1>1, <1>2, <1>3, <1>4, <1>5, <1>6, <1>7, <1>8 DEF Next, WatchStep

LEMMA FlowStep ==
  ASSUME TypeInv, IdleHands, FlowInv, [Next]_vars
  PROVE  FlowInv'
<1>1. ASSUME WatchStep \/ WatchDies \/ MainStep \/ \E w \in Workers : StallTimeout(w)
      PROVE  UNCHANGED <<fate, rawq, pktq, prepJob, job>>
  BY <1>1 DEF WatchStep, WatchScan, WatchSleep, WatchRestart, WatchDies, MainStep, RequestStop,
              StopSniffer, Exit, StallTimeout, flowVars, queueVars, prepVars, workVars
<1>2. CASE UNCHANGED vars
  BY <1>2, FlowStable DEF vars, flowVars, queueVars, prepVars, workVars
<1> QED BY <1>1, <1>2, FlowStable, FlowCapture, FlowPrep, FlowWork DEF Next

\* The three parts of FlowInv say what Conservation says of the places.
LEMMA FlowInvConserves == FlowInv => Conservation
<1> SUFFICES ASSUME FlowInv, NEW p \in Packets
             PROVE  /\ fate[p] = "accepted" <=> Places(p) # {}
                    /\ \A x, y \in Places(p) : x = y
  BY DEF Conservation
<1>1. fate[p] = "accepted" <=> Places(p) # {}
  <2>1. Places(p) # {} <=> InRaw(p) \/ InPkt(p) \/ InPrep(p) \/ InJob(p)
    BY DEF Places, InRaw, InPkt, InPrep, InJob
  <2> QED BY <2>1 DEF FlowInv, Located
<1>2. ASSUME NEW x \in Places(p), NEW y \in Places(p)
      PROVE  x = y
  <2>1. ASSUME NEW z \in Places(p)
        PROVE  \/ \E i \in 1 .. Len(rawq) : z = <<"raw", i>> /\ rawq[i] = p
               \/ \E r \in Preps : z = <<"prep", r>> /\ prepJob[r] = p
               \/ \E i \in 1 .. Len(pktq) : z = <<"pkt", i>> /\ pktq[i] = p
               \/ \E t \in Threads : z = <<"job", t>> /\ job[t] = p
    BY DEF Places
  <2>2. CASE InRaw(p)
    BY <2>1, <2>2 DEF FlowInv, NoTwin, Apart, InRaw, InPkt, InPrep, InJob
  <2>3. CASE InPrep(p)
    BY <2>1, <2>3 DEF FlowInv, NoTwin, Apart, InRaw, InPkt, InPrep, InJob
  <2>4. CASE InPkt(p)
    BY <2>1, <2>4 DEF FlowInv, NoTwin, Apart, InRaw, InPkt, InPrep, InJob
  <2>5. CASE InJob(p)
    BY <2>1, <2>5 DEF FlowInv, NoTwin, Apart, InRaw, InPkt, InPrep, InJob
  <2> QED BY <2>1, <2>2, <2>3, <2>4, <2>5 DEF InRaw, InPkt, InPrep, InJob
<1> QED BY <1>1, <1>2

\* TypeInv, WorkerInv, IdleHands and FlowInv hold together.
LEMMA FlowInvariant == Spec => [](WorkerInv /\ IdleHands /\ FlowInv)
<1>1. Init => WorkerInv /\ IdleHands /\ FlowInv
  <2> SUFFICES ASSUME Init
               PROVE  WorkerInv /\ IdleHands /\ FlowInv
    OBVIOUS
  <2>1. WorkerInv
    BY ConstantsAssumption DEF Init, WorkerInv, OneWorkerPerId, CancelledOld, Threads
  <2>2. IdleHands
    BY DEF Init, IdleHands
  <2>3. \A p \in Packets : ~InRaw(p) /\ ~InPkt(p) /\ ~InPrep(p) /\ ~InJob(p)
    BY ConstantsAssumption DEF Init, InRaw, InPkt, InPrep, InJob
  <2>4. NoTwin
    BY ConstantsAssumption DEF Init, NoTwin
  <2> QED BY <2>1, <2>2, <2>3, <2>4 DEF Init, FlowInv, Apart, Located
<1>2. TypeInv /\ WorkerInv /\ IdleHands /\ FlowInv /\ [Next]_vars => (IdleHands /\ FlowInv)'
  BY IdleHandsStep, FlowStep
<1> QED BY <1>1, <1>2, WorkerInvStep, TypeInvariant, PTL DEF Spec

\* No packet is lost without an outcome and none is in two hands: Conservation
\* follows from the invariant that the packets of each queue and each pair of
\* hands are distinct, that idle threads hold nothing, and that the packets in
\* a place are the accepted ones.
THEOREM PacketsConserved == Spec => []Conservation
  BY FlowInvConserves, FlowInvariant, PTL

-----------------------------------------------------------------------------
\* How often a packet is recorded

Settled == {"processed", "failed"}

\* Each attempt of the handler records its packet at most once, and what no worker has
\* taken was not recorded.
RecInv ==
  /\ \A t \in Threads :
       /\ pc[t] = "analyse" => recorded[job[t]] <= attempts[t]
       /\ pc[t] = "publish" => 1 <= recorded[job[t]] /\ recorded[job[t]] <= attempts[t] + 1
       /\ pc[t] \notin InHandler => attempts[t] = 0
  /\ \A p \in Packets :
       /\ fate[p] \notin Settled /\ ~InJob(p) => recorded[p] = 0
       /\ recorded[p] <= MaxRetries + 1
       /\ fate[p] = "processed" => recorded[p] >= 1

\* A step that leaves the workers alone and settles nothing.
LEMMA RecStable ==
  ASSUME RecInv, UNCHANGED <<recorded, job, pc, attempts>>,
         \A p \in Packets : /\ fate'[p] \in Settled <=> fate[p] \in Settled
                            /\ fate'[p] = "processed" => fate[p] = "processed"
  PROVE  RecInv'
  BY DEF RecInv, InJob

LEMMA RecCapture ==
  ASSUME TypeInv, RecInv, NEW p \in Packets, Capture(p)
  PROVE  RecInv'
<1>1. fate[p] = "wire" /\ UNCHANGED <<recorded, job, pc, attempts>>
  BY DEF Capture, CaptureSkip, CaptureRaw, CaptureInline, Arrives, workVars
<1>2. \E o \in Fates \ Settled : fate' = [fate EXCEPT ![p] = o]
  BY DEF Capture, CaptureSkip, CaptureRaw, CaptureInline, EnqueueRaw, EnqueuePacket,
         Fates, Outcomes, Settled
<1> QED BY <1>1, <1>2, RecStable DEF TypeInv, TypeOK, Settled

LEMMA RecPrep ==
  ASSUME TypeInv, FlowInv, RecInv, NEW r \in Preps, PrepStep(r)
  PROVE  RecInv'
<1>1. UNCHANGED <<recorded, job, pc, attempts>>
  BY DEF PrepStep, PrepCheck, PrepGet, PrepFinish, flowVars, workVars
<1>2. CASE PrepFinish(r)
  <2>1. prepJob[r] \in Packets
    BY <1>2 DEF PrepFinish, TypeInv, Hands
  <2>2. fate[prepJob[r]] = "accepted"
    BY <2>1 DEF FlowInv, Located, InPrep
  <2>3. \E o \in Fates \ Settled : fate' = [fate EXCEPT ![prepJob[r]] = o]
    BY <1>2 DEF PrepFinish, EnqueuePacket, Fates, Outcomes, Settled
  <2> QED BY <1>1, <2>1, <2>2, <2>3, RecStable DEF TypeInv, TypeOK, Settled
<1>3. CASE PrepCheck(r) \/ PrepGet(r)
  BY <1>1, <1>3, RecStable DEF PrepCheck, PrepGet, flowVars
<1> QED BY <1>2, <1>3 DEF PrepStep

\* A step of a thread outside the handler that keeps it there.
LEMMA RecGoto ==
  ASSUME TypeInv, RecInv, NEW t \in Threads, NEW l, l \notin InHandler, pc[t] \notin InHandler,
         pc' = [pc EXCEPT ![t] = l], UNCHANGED <<fate, recorded, job, attempts>>
  PROVE  RecInv'
<1>1. \A u \in Threads : pc'[u] = pc[u] \/ (u = t /\ pc'[u] \notin InHandler)
  BY DEF TypeInv, TypeOK
<1> QED BY <1>1 DEF RecInv, InJob, InHandler

LEMMA RecGet ==
  ASSUME TypeInv, IdleHands, FlowInv, RecInv, NEW t \in Threads, WorkerGet(t)
  PROVE  RecInv'
<1>1. pc[t] = "get" /\ pc[t] \notin InHandler /\ attempts[t] = 0
  BY DEF WorkerGet, InHandler, RecInv
<1>2. CASE pktq = << >>
  BY <1>1, <1>2, RecGoto DEF WorkerGet, Goto, InHandler, flowVars
<1>3. CASE pktq # << >>
  <2> DEFINE p == Head(pktq)
  <2>1. p \in Packets /\ p = pktq[1] /\ 1 \in 1 .. Len(pktq)
    BY <1>3, TailElements DEF TypeInv, TypeOK
  <2>2. InPkt(p) /\ ~InJob(p) /\ fate[p] = "accepted"
    BY <2>1 DEF InPkt, FlowInv, Apart, Located
  <2>3. recorded[p] = 0
    BY <2>1, <2>2 DEF RecInv, Settled
  <2>4. /\ job' = [job EXCEPT ![t] = p] /\ pc' = [pc EXCEPT ![t] = "analyse"]
        /\ UNCHANGED <<fate, recorded, attempts>>
    BY <1>3 DEF WorkerGet, Goto, flowVars
  <2> HIDE DEF p
  <2>5. /\ job'[t] = p /\ pc'[t] = "analyse"
        /\ \A u \in Threads : u # t => job'[u] = job[u] /\ pc'[u] = pc[u]
    BY <2>4 DEF TypeInv, TypeOK
  <2>6. \A u \in Threads :
          /\ pc'[u] = "analyse" => recorded'[job'[u]] <= attempts'[u]
          /\ pc'[u] = "publish" => 1 <= recorded'[job'[u]]
                                   /\ recorded'[job'[u]] <= attempts'[u] + 1
          /\ pc'[u] \notin InHandler => attempts'[u] = 0
    BY <1>1, <2>3, <2>4, <2>5 DEF RecInv
  <2>7. job[t] = NoPacket
    BY <1>1 DEF IdleHands
  <2>8. \A q \in Packets : ~InJob(q)' => ~InJob(q)
    BY <2>5, <2>7, ConstantsAssumption DEF InJob
  <2> QED BY <2>4, <2>6, <2>8 DEF RecInv
<1> QED BY <1>2, <1>3

\* What the other threads hold is another packet.
LEMMA OthersPackets ==
  ASSUME TypeInv, FlowInv, NEW t \in Threads, pc[t] \in InHandler
  PROVE  /\ job[t] \in Packets /\ fate[job[t]] = "accepted"
         /\ \A u \in Threads : u # t /\ pc[u] \in InHandler =>
              job[u] \in Packets /\ job[u] # job[t]
<1>1. \A u \in Threads : pc[u] \in InHandler => job[u] \in Packets
  BY DEF TypeInv, Hands
<1> QED BY <1>1 DEF FlowInv, NoTwin, Located, InJob

LEMMA RecRecord ==
  ASSUME TypeInv, FlowInv, RecInv, NEW t \in Threads, Record(t)
  PROVE  RecInv'
<1> DEFINE p == job[t]
<1>1. /\ p \in Packets /\ fate[p] = "accepted" /\ pc[t] = "analyse"
      /\ \A u \in Threads : u # t /\ pc[u] \in InHandler => job[u] \in Packets /\ job[u] # p
  BY OthersPackets DEF Record, InHandler
<1>2. /\ recorded[p] <= attempts[t] /\ recorded[p] \in Nat
      /\ attempts[t] \in Nat /\ attempts[t] <= MaxRetries
  BY <1>1, ConstantsAssumption DEF RecInv, TypeInv, TypeOK
<1>3. /\ recorded' = [recorded EXCEPT ![p] = recorded[p] + 1]
      /\ pc' = [pc EXCEPT ![t] = "publish"]
      /\ UNCHANGED <<fate, job, attempts>>
  BY DEF Record, Goto
<1>4. /\ recorded'[p] = recorded[p] + 1 /\ \A q \in Packets : q # p => recorded'[q] = recorded[q]
      /\ pc'[t] = "publish" /\ \A u \in Threads : u # t => pc'[u] = pc[u]
  BY <1>1, <1>3 DEF TypeInv, TypeOK
<1>5. \A q \in Packets : InJob(q)' <=> InJob(q)
  BY <1>3 DEF InJob
<1> HIDE DEF p
<1>6. p = job'[t] /\ p = job[t]
  BY <1>3 DEF p
<1>7. ASSUME NEW u \in Threads
      PROVE  /\ pc'[u] = "analyse" => recorded'[job'[u]] <= attempts'[u]
             /\ pc'[u] = "publish" => 1 <= recorded'[job'[u]]
                                      /\ recorded'[job'[u]] <= attempts'[u] + 1
             /\ pc'[u] \notin InHandler => attempts'[u] = 0
  <2>1. CASE u = t
    BY <1>2, <1>3, <1>4, <1>6, <2>1 DEF InHandler
  <2>2. CASE u # t
    BY <1>1, <1>3, <1>4, <2>2 DEF RecInv, InHandler
  <2> QED BY <2>1, <2>2
<1>8. ASSUME NEW q \in Packets
      PROVE  /\ fate'[q] \notin Settled /\ ~InJob(q)' => recorded'[q] = 0
             /\ recorded'[q] <= MaxRetries + 1
             /\ fate'[q] = "processed" => recorded'[q] >= 1
  <2>1. CASE q = p
    <3>1. recorded'[p] <= MaxRetries + 1 /\ recorded'[p] >= 1
      BY <1>2, <1>4, ConstantsAssumption
    <3>2. InJob(q)'
      BY <1>6, <2>1 DEF InJob
    <3> QED BY <2>1, <3>1, <3>2
  <2>2. CASE q # p
    BY <1>3, <1>4, <1>5, <2>2 DEF RecInv
  <2> QED BY <2>1, <2>2
<1> QED BY <1>7, <1>8 DEF RecInv

\* The handler is done with a packet, or given up.
LEMMA RecSettle ==
  ASSUME TypeInv, FlowInv, RecInv, NEW t \in Threads, NEW o \in Settled,
         pc[t] \in InHandler, o = "processed" => pc[t] = "publish",
         Settle(t, o), UNCHANGED recorded
  PROVE  RecInv'
<1> DEFINE p == job[t]
<1>1. /\ p \in Packets /\ fate[p] = "accepted"
      /\ \A u \in Threads : u # t /\ pc[u] \in InHandler => job[u] \in Packets /\ job[u] # p
  BY OthersPackets
<1>2. /\ fate' = [fate EXCEPT ![p] = o] /\ job' = [job EXCEPT ![t] = NoPacket]
      /\ attempts' = [attempts EXCEPT ![t] = 0] /\ pc' = [pc EXCEPT ![t] = "top"]
  BY DEF Settle, Goto
<1>3. /\ fate'[p] = o /\ \A q \in Packets : q # p => fate'[q] = fate[q]
      /\ pc'[t] = "top" /\ attempts'[t] = 0
      /\ \A u \in Threads : u # t => /\ pc'[u] = pc[u] /\ attempts'[u] = attempts[u]
                                     /\ job'[u] = job[u]
  BY <1>1, <1>2 DEF TypeInv, TypeOK
<1>4. \A q \in Packets : q # p /\ InJob(q) => InJob(q)'
  BY <1>3 DEF InJob
<1>5. o = "processed" => recorded[p] >= 1
  BY DEF RecInv
<1> HIDE DEF p
<1>6. \A u \in Threads :
        /\ pc'[u] = "analyse" => recorded'[job'[u]] <= attempts'[u]
        /\ pc'[u] = "publish" => 1 <= recorded'[job'[u]]
                                 /\ recorded'[job'[u]] <= attempts'[u] + 1
        /\ pc'[u] \notin InHandler => attempts'[u] = 0
  BY <1>3 DEF RecInv, InHandler
<1>7. ASSUME NEW q \in Packets
      PROVE  /\ fate'[q] \notin Settled /\ ~InJob(q)' => recorded'[q] = 0
             /\ recorded'[q] <= MaxRetries + 1
             /\ fate'[q] = "processed" => recorded'[q] >= 1
  <2>1. CASE q = p
    BY <1>3, <1>5, <2>1 DEF RecInv
  <2>2. CASE q # p
    BY <1>3, <1>4, <2>2 DEF RecInv
  <2> QED BY <2>1, <2>2
<1> QED BY <1>6, <1>7 DEF RecInv

LEMMA RecRaise ==
  ASSUME TypeInv, FlowInv, RecInv, NEW t \in Threads, Raise(t)
  PROVE  RecInv'
<1>1. CASE attempts[t] < MaxRetries
  <2>1. /\ attempts' = [attempts EXCEPT ![t] = attempts[t] + 1]
        /\ pc' = [pc EXCEPT ![t] = "analyse"] /\ pc[t] \in InHandler
        /\ UNCHANGED <<fate, job, recorded>>
    BY <1>1 DEF Raise, Goto
  <2>2. /\ attempts'[t] = attempts[t] + 1 /\ pc'[t] = "analyse"
        /\ \A u \in Threads : u # t => pc'[u] = pc[u] /\ attempts'[u] = attempts[u]
    BY <2>1 DEF TypeInv, TypeOK
  <2>3. attempts[t] \in Nat /\ recorded[job[t]] \in Nat
    BY <2>1, OthersPackets, ConstantsAssumption DEF TypeInv, TypeOK
  <2>4. recorded[job[t]] <= attempts[t] + 1
    BY <2>1, <2>3 DEF RecInv, InHandler
  <2>5. \A u \in Threads :
          /\ pc'[u] = "analyse" => recorded'[job'[u]] <= attempts'[u]
          /\ pc'[u] = "publish" => 1 <= recorded'[job'[u]]
                                   /\ recorded'[job'[u]] <= attempts'[u] + 1
          /\ pc'[u] \notin InHandler => attempts'[u] = 0
    BY <2>1, <2>2, <2>4 DEF RecInv, InHandler
  <2> QED BY <2>1, <2>5 DEF RecInv, InJob
<1>2. CASE ~(attempts[t] < MaxRetries)
  BY <1>2, RecSettle DEF Raise, Settled
<1> QED BY <1>1, <1>2

LEMMA RecStep ==
  ASSUME TypeInv, WorkerInv, IdleHands, FlowInv, RecInv, [Next]_vars
  PROVE  RecInv'
<1>1. ASSUME NEW t \in Threads, WorkStep(t)
      PROVE  RecInv'
  <2>1. CASE WorkerStart(t) \/ WorkerCheck(t) \/ WorkerBeat(t)
    <3>1. \E l \in {"get", "exited", "beat"} : pc' = [pc EXCEPT ![t] = l]
      BY <2>1 DEF WorkerStart, WorkerCheck, WorkerBeat, Goto
    <3>2. pc[t] \notin InHandler /\ UNCHANGED <<fate, recorded, job, attempts>>
      BY <2>1 DEF WorkerStart, WorkerCheck, WorkerBeat, InHandler, flowVars
    <3> QED BY <3>1, <3>2, RecGoto DEF InHandler
  <2>2. CASE WorkerGet(t)
    BY <2>2, RecGet
  <2>3. CASE Record(t)
    BY <2>3, RecRecord
  <2>4. CASE Publish(t)
    BY <2>4, RecSettle DEF Publish, Settled, InHandler
  <2>5. CASE Raise(t)
    BY <2>5, RecRaise
  <2> QED BY <1>1, <2>1, <2>2, <2>3, <2>4, <2>5 DEF WorkStep
<1>2. ASSUME NEW w \in Workers, WatchRestart(w)
      PROVE  RecInv'
  <2> DEFINE t == <<w, gen[w] + 1>>
  <2>1. /\ pc' = [pc EXCEPT ![t] = "start"] /\ UNCHANGED <<fate, recorded, job, attempts>>
    BY <1>2 DEF WatchRestart, Goto, flowVars
  <2>2. t \in Threads /\ t[2] > gen[t[1]]
    BY <1>2, ConstantsAssumption DEF WatchRestart, TypeInv, TypeOK, ScanBound, Threads
  <2>3. pc[t] \notin InHandler
    BY <2>2 DEF WorkerInv, OneWorkerPerId, InHandler
  <2> HIDE DEF t
  <2> QED BY <2>1, <2>2, <2>3, RecGoto DEF InHandler
<1>3. ASSUME \/ WatchScan \/ WatchSleep \/ WatchDies \/ MainStep
             \/ \E w \in Workers : StallTimeout(w)
             \/ \E t \in Threads : Hang(t) \/ Unhang(t)
             \/ UNCHANGED vars
      PROVE  RecInv'
  <2>1. UNCHANGED <<fate, recorded, job, pc, attempts>>
    BY <1>3 DEF WatchScan, WatchSleep, WatchDies, MainStep, RequestStop, StopSniffer, Exit,
                StallTimeout, Hang, Unhang, vars, flowVars, workVars
  <2> QED BY <2>1, RecStable
<1> QED BY <1>1, <1>2, <1>3, RecCapture, RecPrep DEF Next, WatchStep

\* Retries recount a verdict at most MaxRetries times, a packet reported as processed was
\* recorded, and one that no worker took was not (process_with_retry around
\* record_analysis_result).
THEOREM RecordsAreBounded == Spec => []RecordedBounded
<1>1. Init => RecInv
  <2>1. \A p \in Packets : 0 <= MaxRetries + 1
    BY ConstantsAssumption
  <2> QED BY <2>1 DEF Init, RecInv, InHandler, Settled
<1>2. TypeInv /\ WorkerInv /\ IdleHands /\ FlowInv /\ RecInv /\ [Next]_vars => RecInv'
  BY RecStep
<1>3. TypeInv /\ RecInv => RecordedBounded
  <2> SUFFICES ASSUME TypeInv, RecInv, NEW p \in Packets
               PROVE  /\ recorded[p] <= MaxRetries + 1
                      /\ fate[p] = "processed" => recorded[p] >= 1
                      /\ recorded[p] > 0 => fate[p] \in {"processed", "failed"}
                                            \/ \E t \in Threads : job[t] = p
    BY DEF RecordedBounded
  <2>1. recorded[p] \in Nat
    BY DEF TypeInv, TypeOK
  <2> QED BY <2>1 DEF RecInv, Settled, InJob
<1> QED BY <1>1, <1>2, <1>3, FlowInvariant, TypeInvariant, PTL DEF Spec

-----------------------------------------------------------------------------
\* Refinement of PacketFlow

\* The abstract state read off the fates: in a place is what Conservation says it is.
Waits   == {p \in Packets : fate[p] = "accepted"}
Decided == {p \in Packets : fate[p] \in Outcomes}

Capacity == RawCap + PktCap + Cardinality(Preps) + Cardinality(Threads)

LEMMA WaitsArePlaced == FlowInv => {p \in Packets : Places(p) # {}} = Waits
  BY FlowInvConserves DEF Conservation, Waits

LEMMA WaitsArePlacedNext == FlowInv' => {p \in Packets : Places(p) # {}}' = Waits'
<1>1. (FlowInv => {p \in Packets : Places(p) # {}} = Waits)'
  BY WaitsArePlaced, PTL
<1> QED BY <1>1

\* A function takes no more values on a finite set than the set has members.
LEMMA FewValues ==
  ASSUME NEW S, IsFiniteSet(S), NEW f
  PROVE  /\ IsFiniteSet({f[x] : x \in S})
         /\ Cardinality({f[x] : x \in S}) <= Cardinality(S)
<1> DEFINE T == {f[x] : x \in S}
           g == [x \in S |-> f[x]]
<1>1. g \in Surjection(S, T)
  BY DEF Surjection
<1> HIDE DEF g, T
<1>2. IsFiniteSet(T) /\ Cardinality(T) <= Cardinality(S)
  BY <1>1, FS_Surjection
<1> QED BY <1>2 DEF T

LEMMA FewInUnion ==
  ASSUME NEW S, NEW T, IsFiniteSet(S), IsFiniteSet(T), NEW m \in Nat, NEW n \in Nat,
         Cardinality(S) <= m, Cardinality(T) <= n
  PROVE  IsFiniteSet(S \cup T) /\ Cardinality(S \cup T) <= m + n
<1>1. /\ IsFiniteSet(S \cup T)
      /\ Cardinality(S \cup T) = Cardinality(S) + Cardinality(T) - Cardinality(S \cap T)
  BY FS_Union
<1>2. IsFiniteSet(S \cap T)
  BY FS_Intersection
<1>3. Cardinality(S) \in Nat /\ Cardinality(T) \in Nat /\ Cardinality(S \cap T) \in Nat
  BY <1>2, FS_CardinalityType
<1> QED BY <1>1, <1>3

LEMMA ThreadsFinite ==
  /\ IsFiniteSet(Threads) /\ Cardinality(Threads) \in Nat
  /\ IsFiniteSet(Preps) /\ Cardinality(Preps) \in Nat
<1>1. IsFiniteSet(0 .. MaxRestarts)
  BY FS_Interval, ConstantsAssumption
<1>2. IsFiniteSet(Threads)
  BY <1>1, FS_Product, ConstantsAssumption DEF Threads
<1> QED BY <1>2, FS_CardinalityType, ConstantsAssumption

\* What waits is in a queue or in a hand, so a queue with room leaves room in the whole.
LEMMA RoomForOne ==
  ASSUME TypeInv, FlowInv, Len(rawq) < RawCap \/ Len(pktq) < PktCap
  PROVE  Cardinality(Waits) < Capacity
<1> DEFINE Raw  == {rawq[i] : i \in 1 .. Len(rawq)}
           Pkt  == {pktq[i] : i \in 1 .. Len(pktq)}
           Prep == {prepJob[r] : r \in Preps}
           Job  == {job[t] : t \in Threads}
<1>1. /\ Len(rawq) \in Nat /\ Len(rawq) <= RawCap
      /\ Len(pktq) \in Nat /\ Len(pktq) <= PktCap
  BY LenProperties DEF TypeInv, TypeOK
<1>2. ASSUME NEW n \in Nat PROVE IsFiniteSet(1 .. n) /\ Cardinality(1 .. n) = n
  BY FS_Interval
<1>3. /\ IsFiniteSet(Raw) /\ Cardinality(Raw) <= Len(rawq)
      /\ IsFiniteSet(Pkt) /\ Cardinality(Pkt) <= Len(pktq)
  <2>1. /\ IsFiniteSet(1 .. Len(rawq)) /\ Cardinality(1 .. Len(rawq)) = Len(rawq)
        /\ IsFiniteSet(1 .. Len(pktq)) /\ Cardinality(1 .. Len(pktq)) = Len(pktq)
    BY <1>1, <1>2
  <2> QED BY <2>1, FewValues
<1>4. /\ IsFiniteSet(Prep) /\ Cardinality(Prep) <= Cardinality(Preps)
      /\ IsFiniteSet(Job) /\ Cardinality(Job) <= Cardinality(Threads)
  BY ThreadsFinite, FewValues
<1>5. Waits \subseteq (Raw \cup Pkt) \cup (Prep \cup Job)
  BY DEF Waits, FlowInv, Located, InRaw, InPkt, InPrep, InJob
<1> HIDE DEF Raw, Pkt, Prep, Job
<1>6. IsFiniteSet(Raw \cup Pkt) /\ Cardinality(Raw \cup Pkt) <= Len(rawq) + Len(pktq)
  BY <1>1, <1>3, FewInUnion
<1>7. /\ IsFiniteSet(Prep \cup Job)
      /\ Cardinality(Prep \cup Job) <= Cardinality(Preps) + Cardinality(Threads)
  BY <1>4, ThreadsFinite, FewInUnion
<1> DEFINE held == Cardinality(Preps) + Cardinality(Threads)
           queued == Len(rawq) + Len(pktq)
<1>8. held \in Nat /\ queued \in Nat /\ queued < RawCap + PktCap
  BY <1>1, ThreadsFinite, ConstantsAssumption
<1>9. /\ IsFiniteSet((Raw \cup Pkt) \cup (Prep \cup Job))
      /\ Cardinality((Raw \cup Pkt) \cup (Prep \cup Job)) <= queued + held
  BY <1>6, <1>7, <1>8, FewInUnion
<1>10. IsFiniteSet(Waits) /\ Cardinality(Waits) <= Cardinality((Raw \cup Pkt) \cup (Prep \cup Job))
  BY <1>5, <1>9, FS_Subset
<1>11. Cardinality(Waits) \in Nat /\ Cardinality((Raw \cup Pkt) \cup (Prep \cup Job)) \in Nat
  BY <1>9, <1>10, FS_CardinalityType
<1>12. Capacity = RawCap + PktCap + held
  BY ThreadsFinite, ConstantsAssumption DEF Capacity
<1> QED BY <1>8, <1>9, <1>10, <1>11, <1>12, ConstantsAssumption

\* What a step does to the fates: a packet on the wire is refused, or admitted while a
\* queue has room; or an accepted packet gets an outcome.
FateMoves(p) ==
  \/ fate[p] = "wire" /\ \E o \in Outcomes : fate' = [fate EXCEPT ![p] = o]
  \/ /\ fate[p] = "wire" /\ fate' = [fate EXCEPT ![p] = "accepted"]
     /\ Len(rawq) < RawCap \/ Len(pktq) < PktCap
  \/ fate[p] = "accepted" /\ \E o \in Outcomes : fate' = [fate EXCEPT ![p] = o]

LEMMA CaptureFate ==
  ASSUME NEW p \in Packets, Capture(p)
  PROVE  FateMoves(p)
BY DEF Capture, CaptureSkip, CaptureRaw, CaptureInline, Arrives, EnqueueRaw, EnqueuePacket,
       FateMoves, Outcomes

LEMMA PrepFate ==
  ASSUME TypeInv, FlowInv, NEW r \in Preps, PrepStep(r)
  PROVE  UNCHANGED fate \/ \E p \in Packets : FateMoves(p)
<1>1. CASE PrepCheck(r) \/ PrepGet(r)
  BY <1>1 DEF PrepCheck, PrepGet, flowVars
<1>2. CASE PrepFinish(r)
  <2>1. prepJob[r] \in Packets
    BY <1>2 DEF PrepFinish, TypeInv, Hands
  <2>2. fate[prepJob[r]] = "accepted" /\ fate \in [Packets -> Fates]
    BY <2>1 DEF FlowInv, Located, InPrep, TypeInv, TypeOK
  <2>3. fate' = [fate EXCEPT ![prepJob[r]] = "accepted"] => UNCHANGED fate
    BY <2>1, <2>2
  <2>4. \/ fate' = [fate EXCEPT ![prepJob[r]] = "accepted"]
        \/ \E o \in Outcomes : fate' = [fate EXCEPT ![prepJob[r]] = o]
    BY <1>2 DEF PrepFinish, EnqueuePacket, Outcomes
  <2> QED BY <2>1, <2>2, <2>3, <2>4 DEF FateMoves
<1> QED BY <1>1, <1>2 DEF PrepStep

LEMMA WorkFate ==
  ASSUME TypeInv, FlowInv, NEW t \in Threads, WorkStep(t)
  PROVE  UNCHANGED fate \/ \E p \in Packets : FateMoves(p)
<1>1. CASE WorkerStart(t) \/ WorkerCheck(t) \/ WorkerBeat(t) \/ WorkerGet(t) \/ Record(t)
  BY <1>1 DEF WorkerStart, WorkerCheck, WorkerBeat, WorkerGet, Record, flowVars
<1>2. CASE Publish(t) \/ Raise(t)
  <2>1. job[t] \in Packets
    BY <1>2 DEF Publish, Raise, TypeInv, Hands, InHandler
  <2>2. fate[job[t]] = "accepted"
    BY <2>1 DEF FlowInv, Located, InJob
  <2>3. UNCHANGED fate \/ \E o \in Outcomes : fate' = [fate EXCEPT ![job[t]] = o]
    BY <1>2 DEF Publish, Raise, Settle, Outcomes
  <2> QED BY <2>1, <2>2, <2>3 DEF FateMoves
<1> QED BY <1>1, <1>2 DEF WorkStep

LEMMA StepFate ==
  ASSUME TypeInv, FlowInv, [Next]_vars
  PROVE  UNCHANGED fate \/ \E p \in Packets : FateMoves(p)
<1>1. ASSUME \/ WatchStep \/ WatchDies \/ MainStep \/ UNCHANGED vars
             \/ \E w \in Workers : StallTimeout(w)
             \/ \E t \in Threads : Hang(t) \/ Unhang(t)
      PROVE  UNCHANGED fate
  BY <1>1 DEF WatchStep, WatchScan, WatchSleep, WatchRestart, WatchDies, MainStep, RequestStop,
              StopSniffer, Exit, StallTimeout, Hang, Unhang, flowVars, vars
<1> QED BY <1>1, CaptureFate, PrepFate, WorkFate DEF Next

\* Each move of a fate is a step of PacketFlow.
LEMMA FlowMaps ==
  ASSUME TypeInv, FlowInv, FlowInv', NEW p \in Packets, FateMoves(p)
  PROVE  Flow!Next
<1> DEFINE waiting == {q \in Packets : Places(q) # {}}
<1>1. waiting = Waits /\ waiting' = Waits'
  BY WaitsArePlaced, WaitsArePlacedNext
<1>2. fate \in [Packets -> Fates]
  BY DEF TypeInv, TypeOK
<1>3. ASSUME NEW o \in Outcomes, fate' = [fate EXCEPT ![p] = o]
      PROVE  Waits' = Waits \ {p} /\ Decided' = Decided \cup {p}
  BY <1>2, <1>3 DEF Waits, Decided, Outcomes
<1>4. CASE fate[p] = "wire" /\ \E o \in Outcomes : fate' = [fate EXCEPT ![p] = o]
  <2>1. p \notin Waits \cup Decided
    BY <1>4 DEF Waits, Decided, Outcomes
  <2>2. Decided' = Decided \cup {p} /\ Waits' = Waits
    BY <1>3, <1>4, <2>1
  <2> QED BY <1>1, <2>1, <2>2 DEF Flow!Next, Flow!Refuse, Decided
<1>5. CASE /\ fate[p] = "wire" /\ fate' = [fate EXCEPT ![p] = "accepted"]
           /\ Len(rawq) < RawCap \/ Len(pktq) < PktCap
  <2>1. p \notin Waits \cup Decided
    BY <1>5 DEF Waits, Decided, Outcomes
  <2>2. Waits' = Waits \cup {p} /\ Decided' = Decided
    BY <1>2, <1>5 DEF Waits, Decided, Outcomes
  <2>3. Flow!Cardinality(Waits) < Capacity
    <3>1. Flow!Cardinality(Waits) = Cardinality(Waits)
      BY DEF Flow!Cardinality, Cardinality
    <3> QED BY <1>5, <3>1, RoomForOne
  <2> QED BY <1>1, <2>1, <2>2, <2>3 DEF Flow!Next, Flow!Admit, Decided, Capacity
<1>6. CASE fate[p] = "accepted" /\ \E o \in Outcomes : fate' = [fate EXCEPT ![p] = o]
  <2>1. p \in Waits
    BY <1>6 DEF Waits
  <2> QED BY <1>1, <1>3, <1>6, <2>1 DEF Flow!Next, Flow!Settle, Decided
<1> QED BY <1>4, <1>5, <1>6 DEF FateMoves

\* Queues, threads, retries, replacements and shutdown are invisible: a packet is refused,
\* or admitted within the capacity of the whole, and an admitted one gets one outcome.
THEOREM PipelineImplementsFlow == Spec => ImplementsFlow
<1>1. Init => Flow!Init
  <2> SUFFICES ASSUME Init PROVE Flow!Init
    OBVIOUS
  <2>1. \A p \in Packets : Places(p) = {}
    BY ConstantsAssumption DEF Init, Places
  <2> QED BY <2>1 DEF Init, Flow!Init, Outcomes
<1>2. TypeInv /\ FlowInv /\ FlowInv' /\ [Next]_vars
        => [Flow!Next]_<<{p \in Packets : Places(p) # {}}, {p \in Packets : fate[p] \in Outcomes}>>
  <2> SUFFICES ASSUME TypeInv, FlowInv, FlowInv', [Next]_vars,
                      ~ \E p \in Packets : FateMoves(p)
               PROVE  UNCHANGED <<{p \in Packets : Places(p) # {}},
                                  {p \in Packets : fate[p] \in Outcomes}>>
    BY FlowMaps
  <2>1. UNCHANGED fate
    BY StepFate
  <2> QED BY <2>1, WaitsArePlaced, WaitsArePlacedNext DEF Waits
<1> QED BY <1>1, <1>2, TypeInvariant, FlowInvariant, PTL DEF Spec, ImplementsFlow, Flow!Spec

-----------------------------------------------------------------------------
\* Cancelled threads

\* A cancelled thread that is in the handler, or back at the top of its loop, takes no
\* further packet: the loop condition tests its cancel event.
THEOREM CancelledWindDown == Spec => CancelledWorkerWindsDown
<1>1. TypeInv /\ [Next]_vars
        => [\A t \in Threads : t \in cancelled /\ pc[t] \in InHandler \cup {"top"}
              => pc'[t] \notin {"beat", "get"}]_vars
  <2> SUFFICES ASSUME TypeInv, Next, NEW t \in Threads, t \in cancelled,
                      pc[t] \in InHandler \cup {"top"}
               PROVE  pc'[t] \notin {"beat", "get"}
    OBVIOUS
  <2>1. ASSUME NEW u \in Threads, WorkStep(u)
        PROVE  pc'[t] \notin {"beat", "get"}
    <3>1. CASE u # t
      <4>1. \E l : pc' = [pc EXCEPT ![u] = l]
        BY <2>1 DEF WorkStep, WorkerStart, WorkerCheck, WorkerBeat, WorkerGet, Record, Publish,
                    Raise, Settle, Goto
      <4> QED BY <3>1, <4>1 DEF TypeInv, TypeOK, InHandler
    <3>2. CASE u = t
      BY <2>1, <3>2 DEF WorkStep, WorkerStart, WorkerCheck, WorkerBeat, WorkerGet, Record,
                        Publish, Raise, Settle, Goto, LoopCondition, InHandler, TypeInv, TypeOK
    <3> QED BY <3>1, <3>2
  <2>2. ASSUME NEW w \in Workers, WatchRestart(w)
        PROVE  pc'[t] \notin {"beat", "get"}
    <3>1. pc' = [pc EXCEPT ![<<w, gen[w] + 1>>] = "start"]
      BY <2>2 DEF WatchRestart, Goto
    <3> QED BY <3>1 DEF TypeInv, TypeOK, InHandler
  <2>3. ASSUME UNCHANGED pc
        PROVE  pc'[t] \notin {"beat", "get"}
    BY <2>3 DEF InHandler
  <2>4. ASSUME \/ \E p \in Packets : Capture(p)
               \/ \E r \in Preps : PrepStep(r)
               \/ \E u \in Threads : Hang(u) \/ Unhang(u)
               \/ WatchScan \/ WatchSleep \/ WatchDies \/ MainStep
               \/ \E w \in Workers : StallTimeout(w)
        PROVE  UNCHANGED pc
    BY <2>4 DEF Capture, CaptureSkip, CaptureRaw, CaptureInline, PrepStep, PrepCheck, PrepGet,
                PrepFinish, Hang, Unhang, WatchScan, WatchSleep, WatchDies, MainStep, RequestStop,
                StopSniffer, Exit, StallTimeout, workVars
  <2> QED BY <2>1, <2>2, <2>3, <2>4 DEF Next, WatchStep
<1> QED BY <1>1, TypeInvariant, PTL DEF Spec, CancelledWorkerWindsDown

\* However often the watchdog replaces a worker, one thread of the id is in charge and the
\* others take no packet once they have passed their loop condition.
THEOREM ReplacementIsClean == Spec => CleanReplacement
  BY OneWorker, CancelledWindDown, PTL DEF CleanReplacement
=============================================================================

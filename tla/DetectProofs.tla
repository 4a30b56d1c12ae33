---------------------------- MODULE DetectProofs ----------------------------
(***************************************************************************)
(* Proofs about the sliding windows: the mails about bursts (BurstAlert)   *)
(* for every number of threads, sources, settings and delays, and the      *)
(* tables of the detectors (Windows) for every capacity.                   *)
(***************************************************************************)
EXTENDS BurstAlert, Windows, FiniteSetTheorems, WellFoundedInduction, TLAPS

-----------------------------------------------------------------------------
\* The parts of the locked region, as the operators of BurstAlert name them

Ev(t)   == [id |-> EvictCounter + 1, ts |-> call[t].now, src |-> call[t].src, kind |-> call[t].kind]
Gone(t) == IF Ev(t).id % EvictEvery = 0 THEN Evicted(call[t].now) ELSE {}
Old(t)  == IF call[t].src \in Gone(t) THEN {} ELSE Bucket(call[t].src)
Mine(t) == {e \in Old(t) \cup {Ev(t)} : e.ts >= call[t].now - Window}
Rest(t) == {e.id : e \in {f \in log : f.id \in kept /\ f.src # call[t].src /\ f.src \notin Gone(t)}}
Last(t) == IF call[t].src \in Gone(t) THEN 0 ELSE lastEmail[call[t].src]
Emailed(t) == [s \in Sources |-> IF s \in Gone(t) THEN 0 ELSE lastEmail[s]]

\* What a call does to the tables: it sends, or it forgets the evicted sources only.
LEMMA LockedTables ==
  ASSUME NEW t \in Threads, Locked(t)
  PROVE  /\ call[t].at = "stamped" /\ clock' = clock
         /\ log' = log \cup {Ev(t)}
         /\ kept' = Rest(t) \cup {e.id : e \in Mine(t)}
         /\ \/ /\ call' = [call EXCEPT ![t] = Idle]
               /\ lastEmail' = Emailed(t) /\ UNCHANGED <<sent, lastGlobal>>
               /\ \/ UNCHANGED <<suppressed, heldBack>>
                  \/ /\ suppressed' = suppressed \cup {Ev(t).id}
                     /\ heldBack' = heldBack \cup {Ev(t).id}
            \/ /\ call' = [call EXCEPT ![t] =
                          [at |-> "sending", id |-> Ev(t).id, note |-> suppressed]]
               /\ lastEmail' = [Emailed(t) EXCEPT ![call[t].src] = call[t].now]
               /\ sent' = [sent EXCEPT ![call[t].src] = call[t].now]
               /\ call[t].now - Last(t) >= Dedup
               /\ lastGlobal' = call[t].now
               /\ suppressed' = {} /\ heldBack' = heldBack
         /\ mails' = mails
BY DEF Locked, Ev, Gone, Old, Mine, Rest, Last, Emailed

-----------------------------------------------------------------------------
\* Type correctness of BurstAlert

\* Events are numbered in the order they reach the lock.
Numbered ==
  /\ IsFiniteSet(log)
  /\ \A e \in log : 1 <= e.id /\ e.id <= Cardinality(log)
  /\ \A e, f \in log : e.id = f.id => e = f

TypeInv == TypeOK /\ Numbered

LEMMA NewEvent ==
  ASSUME TypeInv, NEW t \in Threads, call[t].at = "stamped"
  PROVE  /\ call[t].now \in Nat /\ call[t].src \in Sources /\ call[t].kind \in Kinds
         /\ Cardinality(log) \in Nat /\ Ev(t) \in Events /\ Ev(t) \notin log
         /\ Cardinality(log \cup {Ev(t)}) = Cardinality(log) + 1
         /\ IsFiniteSet(log \cup {Ev(t)})
<1>1. call[t].now \in Nat /\ call[t].src \in Sources /\ call[t].kind \in Kinds
  BY DEF TypeInv, TypeOK, Calls, Idle
<1>2. Cardinality(log) \in Nat
  BY FS_CardinalityType DEF TypeInv, Numbered
<1>3. Ev(t) \in Events /\ Ev(t).id = Cardinality(log) + 1
  BY <1>1, <1>2 DEF Ev, Events, EvictCounter
<1>4. Ev(t) \notin log
  BY <1>2, <1>3 DEF TypeInv, Numbered
<1> QED BY <1>1, <1>2, <1>3, <1>4, FS_AddElement DEF TypeInv, Numbered

LEMMA LockedType ==
  ASSUME TypeInv, NEW t \in Threads, Locked(t)
  PROVE  TypeInv'
<1>1. /\ call[t].at = "stamped" /\ clock' = clock
      /\ log' = log \cup {Ev(t)}
      /\ kept' = Rest(t) \cup {e.id : e \in Mine(t)}
  BY LockedTables
<1>2. /\ call[t].now \in Nat /\ call[t].src \in Sources
      /\ Cardinality(log) \in Nat /\ Ev(t) \in Events /\ Ev(t) \notin log
      /\ Cardinality(log') = Cardinality(log) + 1 /\ IsFiniteSet(log')
  BY <1>1, NewEvent
<1>3. Numbered'
  <2>1. Ev(t).id = Cardinality(log) + 1
    BY DEF Ev, EvictCounter
  <2>2. \A e \in log : e.id \in Nat /\ 1 <= e.id /\ e.id <= Cardinality(log)
    BY DEF TypeInv, TypeOK, Events, Numbered
  <2>3. \A e \in log' : 1 <= e.id /\ e.id <= Cardinality(log')
    BY <1>1, <1>2, <2>1, <2>2
  <2>4. ASSUME NEW e \in log', NEW f \in log', e.id = f.id
        PROVE  e = f
    <3>1. e # Ev(t) => e \in log /\ e.id # Ev(t).id
      BY <1>1, <1>2, <2>1, <2>2
    <3>2. f # Ev(t) => f \in log /\ f.id # Ev(t).id
      BY <1>1, <1>2, <2>1, <2>2
    <3> QED BY <2>4, <3>1, <3>2 DEF TypeInv, Numbered
  <2> QED BY <1>2, <2>3, <2>4 DEF Numbered
<1>4. kept' \subseteq {e.id : e \in log'}
  BY <1>1 DEF Rest, Mine, Old, Bucket
<1>5. Emailed(t) \in [Sources -> Nat]
  BY DEF Emailed, TypeInv, TypeOK
<1>6. /\ lastEmail' \in [Sources -> Nat] /\ sent' \in [Sources -> Nat]
      /\ call' \in [Threads -> Calls] /\ lastGlobal' \in Nat
      /\ suppressed' \subseteq Nat /\ heldBack' \subseteq Nat
      /\ mails' \subseteq [id : Nat, note : SUBSET Nat]
  <2>1. Ev(t).id \in Nat /\ suppressed \subseteq Nat /\ heldBack \subseteq Nat
    BY <1>2 DEF Events, TypeInv, TypeOK
  <2>2. Idle \in Calls /\ [at |-> "sending", id |-> Ev(t).id, note |-> suppressed] \in Calls
    BY <2>1 DEF Calls
  <2> QED BY <1>2, <1>5, <2>1, <2>2, LockedTables DEF TypeInv, TypeOK
<1>7. log' \subseteq Events /\ clock' \in Nat
  BY <1>1, <1>2 DEF TypeInv, TypeOK
<1> QED BY <1>3, <1>4, <1>6, <1>7 DEF TypeInv, TypeOK

LEMMA BurstTypeStep == TypeInv /\ [Next]_vars => TypeInv'
<1> SUFFICES ASSUME TypeInv, [Next]_vars
             PROVE  TypeInv'
  OBVIOUS
<1>1. CASE Tick
  BY <1>1 DEF Tick, tables, history, TypeInv, TypeOK, Numbered
<1>2. ASSUME NEW t \in Threads, NEW src \in Sources, NEW kind \in Kinds, ReadTime(t, src, kind)
      PROVE  TypeInv'
  <2>1. [at |-> "stamped", now |-> clock, src |-> src, kind |-> kind] \in Calls
    BY DEF Calls, TypeInv, TypeOK
  <2> QED BY <1>2, <2>1 DEF ReadTime, tables, history, TypeInv, TypeOK, Numbered
<1>3. ASSUME NEW t \in Threads, Locked(t)
      PROVE  TypeInv'
  BY <1>3, LockedType
<1>4. ASSUME NEW t \in Threads, Send(t)
      PROVE  TypeInv'
  <2>1. [id |-> call[t].id, note |-> call[t].note] \in [id : Nat, note : SUBSET Nat]
    BY <1>4 DEF Send, Calls, Idle, TypeInv, TypeOK
  <2>2. mails' \subseteq [id : Nat, note : SUBSET Nat]
    BY <1>4, <2>1 DEF Send, TypeInv, TypeOK
  <2> QED BY <1>4, <2>2 DEF Send, Calls, tables, TypeInv, TypeOK, Numbered
<1>5. ASSUME NEW t \in Threads, SendFails(t)
      PROVE  TypeInv'
  BY <1>5 DEF SendFails, Calls, tables, history, TypeInv, TypeOK, Numbered
<1>6. CASE UNCHANGED vars
  BY <1>6 DEF vars, tables, history, TypeInv, TypeOK, Numbered
<1> QED BY <1>1, <1>2, <1>3, <1>4, <1>5, <1>6 DEF Next

LEMMA BurstTyped == Spec => []TypeInv
<1>1. Init => TypeInv
  BY BurstAssumption, FS_EmptySet DEF Init, TypeInv, TypeOK, Numbered, Calls
<1> QED BY <1>1, BurstTypeStep, PTL DEF Spec

\* The tables keep their types, and events are numbered in the order of the lock.
THEOREM TypeCorrect == Spec => []TypeOK
<1>1. TypeInv => TypeOK
  BY DEF TypeInv
<1> QED BY <1>1, BurstTyped, PTL

-----------------------------------------------------------------------------
\* The windows of the sources

\* A call reaches the lock soon after it read the time ...
Stamped ==
  /\ Start <= clock
  /\ \A t \in Threads : call[t].at = "stamped" =>
       Start <= call[t].now /\ call[t].now <= clock /\ clock <= call[t].now + MaxDelay

\* ... so events are appended almost in the order of their stamps.
InOrder ==
  /\ \A e \in log : e.ts <= clock
  /\ \A e, f \in log : f.id <= e.id => f.ts <= e.ts + MaxDelay

\* The event eviction looks at.
Newest(s, e) == e \in Bucket(s) /\ \A f \in Bucket(s) : f.id <= e.id
HasNewest    == \A s \in Sources : Bucket(s) # {} => \E e \in log : Newest(s, e)

\* The last mail of a source is known as long as it matters: it is the one in the table,
\* with a later event that keeps it there, or it is long past.
Remembered ==
  \A s \in Sources :
    /\ sent[s] <= clock
    /\ lastEmail[s] # 0 => \E e \in log : Newest(s, e) /\ lastEmail[s] <= e.ts + MaxDelay
    /\ \/ lastEmail[s] = sent[s]
       \/ lastEmail[s] = 0 /\ sent[s] + Dedup + MaxDelay <= clock

BurstInv == Stamped /\ InOrder /\ HasNewest /\ WindowComplete /\ Remembered

\* What a call does to the buckets: its own is trimmed and extended, evicted ones go.
LEMMA LockedBuckets ==
  ASSUME TypeInv, NEW t \in Threads, Locked(t), NEW s \in Sources
  PROVE  Bucket(s)' = IF s = call[t].src THEN Mine(t)
                      ELSE IF s \in Gone(t) THEN {} ELSE Bucket(s)
<1>1. /\ log' = log \cup {Ev(t)}
      /\ kept' = Rest(t) \cup {e.id : e \in Mine(t)}
  BY LockedTables
<1>2. \A x, y \in log' : x.id = y.id => x = y
  BY LockedType DEF TypeInv, Numbered
<1>3. Ev(t).src = call[t].src /\ Mine(t) \subseteq log' /\ Ev(t) \notin log
  BY <1>1, LockedTables, NewEvent DEF Ev, Mine, Old, Bucket
<1>4. ASSUME NEW x \in log'
      PROVE  x.id \in kept' <=> \/ x \in log /\ x.id \in kept /\ x.src # call[t].src /\ x.src \notin Gone(t)
                                \/ x \in Mine(t)
  <2>1. x.id \in Rest(t) <=> \E y \in log : /\ y.id \in kept /\ y.src # call[t].src
                                             /\ y.src \notin Gone(t) /\ x.id = y.id
    BY DEF Rest
  <2>2. \A y \in log : x.id = y.id => x = y
    BY <1>1, <1>2
  <2>3. x.id \in {e.id : e \in Mine(t)} <=> x \in Mine(t)
    BY <1>2, <1>3
  <2> QED BY <1>1, <2>1, <2>2, <2>3
<1>5. \A x \in Mine(t) : x.src = call[t].src
  BY <1>3 DEF Mine, Old, Bucket
<1> QED BY <1>1, <1>3, <1>4, <1>5 DEF Bucket

\* The new event is in its bucket, and the newest there.
LEMMA NewestIsNew ==
  ASSUME TypeInv, NEW t \in Threads, Locked(t)
  PROVE  /\ Ev(t) \in Mine(t) /\ Ev(t) \in log' /\ Ev(t).ts = call[t].now
         /\ \A e \in log : e.id < Ev(t).id
         /\ \A f \in Mine(t) : f.id <= Ev(t).id
<1>1. /\ call[t].now \in Nat /\ Cardinality(log) \in Nat
      /\ Ev(t).ts = call[t].now /\ Ev(t).id = Cardinality(log) + 1
  BY LockedTables, NewEvent DEF Ev, EvictCounter
<1>2. Ev(t) \in Mine(t)
  BY <1>1, BurstAssumption DEF Mine
<1>3. \A e \in log : e.id < Ev(t).id
  BY <1>1 DEF TypeInv, TypeOK, Numbered, Events
<1>4. \A f \in Mine(t) : f \in log \/ f = Ev(t)
  BY DEF Mine, Old, Bucket
<1>5. \A f \in log : f.id \in Nat
  BY DEF TypeInv, TypeOK, Events
<1>6. \A f \in Mine(t) : f.id <= Ev(t).id
  BY <1>1, <1>3, <1>4, <1>5
<1>7. Ev(t) \in log'
  BY LockedTables
<1> QED BY <1>1, <1>2, <1>3, <1>6, <1>7

\* An evicted source has no event left that anyone may still count.
LEMMA EvictedAreOld ==
  ASSUME TypeInv, BurstInv, NEW t \in Threads, Locked(t), NEW s \in Gone(t)
  PROVE  /\ \A e \in Bucket(s) : e.ts < clock - Window + MaxDelay
         /\ \A e \in log : Newest(s, e) => e.ts + Window < call[t].now
<1>1. s \in Evicted(call[t].now) /\ s \in Sources
  BY DEF Gone, Evicted
<1>2. call[t].now \in Nat /\ call[t].now <= clock /\ clock \in Nat
  BY LockedTables, NewEvent DEF BurstInv, Stamped, TypeInv, TypeOK
<1>3. Window \in Nat /\ MaxIdle \in Nat /\ MaxIdle >= Window /\ MaxDelay \in Nat
  BY BurstAssumption DEF MaxIdle
<1>4. \A e \in log : e.ts \in Nat
  BY DEF TypeInv, TypeOK, Events
<1>5. ASSUME NEW e \in log, Newest(s, e)
      PROVE  e.ts + Window < call[t].now
  <2>1. e.ts < call[t].now - MaxIdle
    BY <1>1, <1>5 DEF Evicted, Newest
  <2> QED BY <1>2, <1>3, <1>4, <2>1
<1>6. ASSUME NEW e \in Bucket(s)
      PROVE  e.ts < clock - Window + MaxDelay
  <2>1. PICK n \in log : Newest(s, n)
    BY <1>1, <1>6 DEF BurstInv, HasNewest
  <2>2. e \in log /\ e.id <= n.id
    BY <2>1 DEF Newest, Bucket
  <2>3. e.ts <= n.ts + MaxDelay
    BY <2>2 DEF BurstInv, InOrder
  <2>4. n.ts + Window < call[t].now
    BY <1>5, <2>1
  <2> QED BY <1>2, <1>3, <1>4, <2>2, <2>3, <2>4
<1> QED BY <1>5, <1>6

LEMMA LockedBurst ==
  ASSUME TypeInv, BurstInv, NEW t \in Threads, Locked(t)
  PROVE  BurstInv'
<1> DEFINE src == call[t].src
           now == call[t].now
<1>1. /\ log' = log \cup {Ev(t)} /\ clock' = clock /\ call[t].at = "stamped"
      /\ Ev(t) \in Mine(t) /\ Ev(t) \in log' /\ Ev(t).ts = now /\ Ev(t).src = src
      /\ \A e \in log : e.id < Ev(t).id
      /\ \A f \in Mine(t) : f.id <= Ev(t).id
  BY LockedTables, NewestIsNew DEF Ev
<1>2. /\ now \in Nat /\ clock \in Nat /\ Start <= now /\ now <= clock /\ clock <= now + MaxDelay
      /\ src \in Sources
  BY <1>1, NewEvent DEF BurstInv, Stamped, TypeInv, TypeOK
<1>3. /\ {Window, Dedup, MaxDelay, Start} \subseteq Nat /\ Window >= Dedup + 2 * MaxDelay
      /\ Start >= Dedup
  BY BurstAssumption
<1>4. \A e \in log : e.ts \in Nat /\ e.id \in Nat /\ e.src \in Sources
  BY DEF TypeInv, TypeOK, Events
<1>5. \A s \in Sources : Bucket(s)' = IF s = src THEN Mine(t)
                                      ELSE IF s \in Gone(t) THEN {} ELSE Bucket(s)
  BY LockedBuckets
<1>6. Stamped'
  <2>1. \A u \in Threads : call'[u].at = "stamped" => call'[u] = call[u]
    BY <1>1, LockedTables DEF TypeInv, TypeOK, Idle
  <2> QED BY <1>1, <2>1 DEF BurstInv, Stamped
<1>7. InOrder'
  <2>1. Ev(t).id \in Nat
    BY <1>1, NewEvent DEF Events
  <2>2. \A e \in log' : e.ts <= clock'
    BY <1>1, <1>2 DEF BurstInv, InOrder
  <2>3. ASSUME NEW e \in log', NEW f \in log', f.id <= e.id
        PROVE  f.ts <= e.ts + MaxDelay
    <3>1. CASE e \in log /\ f \in log
      BY <2>3, <3>1 DEF BurstInv, InOrder
    <3>2. CASE e = Ev(t) /\ f \in log
      <4>1. f.ts <= clock
        BY <3>2 DEF BurstInv, InOrder
      <4> QED BY <1>1, <1>2, <1>3, <1>4, <3>2, <4>1
    <3>3. CASE f = Ev(t) /\ e \in log
      BY <1>1, <1>4, <2>1, <2>3, <3>3
    <3>4. CASE f = Ev(t) /\ e = Ev(t)
      BY <1>1, <1>2, <1>3, <3>4
    <3> QED BY <1>1, <3>1, <3>2, <3>3, <3>4
  <2> QED BY <2>2, <2>3 DEF InOrder
<1>8. ASSUME NEW s \in Sources, s = src
      PROVE  \E e \in log' : Newest(s, e)' /\ e.ts = now
  <2>1. PICK e \in log' : e = Ev(t)
    BY <1>1
  <2>2. Bucket(s)' = Mine(t)
    BY <1>5, <1>8
  <2>3. Newest(s, e)'
    BY <1>1, <2>1, <2>2 DEF Newest
  <2> QED BY <1>1, <2>1, <2>3
<1>9. ASSUME NEW s \in Sources, s # src, s \notin Gone(t), NEW e \in log
      PROVE  Newest(s, e) => Newest(s, e)'
  BY <1>5, <1>9 DEF Newest
<1>10. HasNewest'
  <2> SUFFICES ASSUME NEW s \in Sources, Bucket(s)' # {}
               PROVE  \E e \in log' : Newest(s, e)'
    BY DEF HasNewest
  <2>1. CASE s = src
    BY <1>8, <2>1
  <2>2. CASE s # src
    <3>1. s \notin Gone(t) /\ Bucket(s) # {}
      BY <1>5, <2>2
    <3>2. PICK e \in log : Newest(s, e)
      BY <3>1 DEF BurstInv, HasNewest
    <3> QED BY <1>1, <1>9, <2>2, <3>1, <3>2
  <2> QED BY <2>1, <2>2
<1>11. WindowComplete'
  <2> SUFFICES ASSUME NEW e \in log', e.ts >= clock' - Window + MaxDelay
               PROVE  e.id \in kept'
    BY DEF WindowComplete
  <2>1. e \in Bucket(e.src)' => e.id \in kept'
    BY DEF Bucket
  <2>2. CASE e = Ev(t)
    BY <1>1, <1>2, <1>5, <2>1, <2>2
  <2>3. CASE e \in log
    <3>1. e \in Bucket(e.src) /\ e.src \in Sources
      BY <1>1, <1>4, <2>3 DEF BurstInv, WindowComplete, Bucket
    <3>2. e.src \notin Gone(t)
      BY <1>1, <1>2, <1>3, <1>4, <2>3, <3>1, EvictedAreOld
    <3>3. e.ts >= now - Window
      BY <1>1, <1>2, <1>3, <1>4, <2>3
    <3>4. e.src = src => e \in Mine(t)
      BY <3>1, <3>2, <3>3 DEF Mine, Old
    <3> QED BY <1>5, <2>1, <3>1, <3>2, <3>4
  <2> QED BY <1>1, <2>2, <2>3
<1>12. Remembered'
  <2> SUFFICES ASSUME NEW s \in Sources
               PROVE  /\ sent'[s] <= clock
                      /\ lastEmail'[s] # 0 =>
                           \E e \in log' : Newest(s, e)' /\ lastEmail'[s] <= e.ts + MaxDelay
                      /\ \/ lastEmail'[s] = sent'[s]
                         \/ lastEmail'[s] = 0 /\ sent'[s] + Dedup + MaxDelay <= clock
    BY <1>1 DEF Remembered
  <2>1. /\ sent[s] <= clock /\ sent[s] \in Nat /\ lastEmail[s] \in Nat
        /\ lastEmail[s] # 0 => \E e \in log : Newest(s, e) /\ lastEmail[s] <= e.ts + MaxDelay
        /\ \/ lastEmail[s] = sent[s]
           \/ lastEmail[s] = 0 /\ sent[s] + Dedup + MaxDelay <= clock
    BY DEF BurstInv, Remembered, TypeInv, TypeOK
  <2>2. Emailed(t)[s] = IF s \in Gone(t) THEN 0 ELSE lastEmail[s]
    BY DEF Emailed
  <2>3. CASE lastEmail'[s] = now /\ sent'[s] = now /\ s = src
    <3>1. PICK e \in log' : Newest(s, e)' /\ e.ts = now
      BY <1>8, <2>3
    <3> QED BY <1>2, <1>3, <2>3, <3>1
  <2>4. CASE lastEmail'[s] = Emailed(t)[s] /\ sent'[s] = sent[s]
    <3>1. CASE s \in Gone(t)
      <4>1. lastEmail[s] # 0 => lastEmail[s] + Dedup + MaxDelay <= clock
        <5> SUFFICES ASSUME lastEmail[s] # 0
                     PROVE  lastEmail[s] + Dedup + MaxDelay <= clock
          OBVIOUS
        <5>1. PICK e \in log : Newest(s, e) /\ lastEmail[s] <= e.ts + MaxDelay
          BY <2>1
        <5>2. e.ts + Window < now
          BY <3>1, <5>1, EvictedAreOld
        <5> QED BY <1>2, <1>3, <1>4, <2>1, <5>1, <5>2
      <4> QED BY <2>1, <2>2, <2>4, <3>1, <4>1
    <3>2. CASE s \notin Gone(t) /\ s # src
      BY <1>1, <1>9, <2>1, <2>2, <2>4, <3>2
    <3>3. CASE s \notin Gone(t) /\ s = src
      <4>1. lastEmail[s] <= clock
        BY <1>2, <1>3, <2>1
      <4>2. lastEmail[s] <= now + MaxDelay
        BY <1>2, <1>3, <2>1, <4>1
      <4>3. PICK e \in log' : Newest(s, e)' /\ e.ts = now
        BY <1>8, <3>3
      <4> QED BY <2>1, <2>2, <2>4, <3>3, <4>2, <4>3
    <3> QED BY <3>1, <3>2, <3>3
  <2>5. \/ lastEmail' = Emailed(t) /\ sent' = sent
        \/ /\ lastEmail' = [Emailed(t) EXCEPT ![src] = now]
           /\ sent' = [sent EXCEPT ![src] = now]
    BY LockedTables
  <2>6. DOMAIN Emailed(t) = Sources /\ DOMAIN sent = Sources
    BY DEF Emailed, TypeInv, TypeOK
  <2> QED BY <2>3, <2>4, <2>5, <2>6
<1> QED BY <1>6, <1>7, <1>10, <1>11, <1>12 DEF BurstInv

LEMMA BurstInvStep == TypeInv /\ BurstInv /\ [Next]_vars => BurstInv'
<1> SUFFICES ASSUME TypeInv, BurstInv, [Next]_vars
             PROVE  BurstInv'
  OBVIOUS
<1> USE DEF BurstInv
<1>1. ASSUME UNCHANGED <<tables, log>>
      PROVE  /\ HasNewest'
             /\ \A s \in Sources, e \in log : Newest(s, e)' <=> Newest(s, e)
  BY <1>1 DEF tables, HasNewest, Newest, Bucket
<1>2. clock \in Nat /\ MaxDelay \in Nat /\ Window \in Nat /\ Dedup \in Nat /\ Start \in Nat
  BY BurstAssumption DEF TypeInv, TypeOK
<1>3. /\ \A e \in log : e.ts \in Nat
      /\ \A s \in Sources : sent[s] \in Nat /\ lastEmail[s] \in Nat
  BY DEF TypeInv, TypeOK, Events
<1>4. CASE Tick
  <2>1. clock' = clock + 1 /\ UNCHANGED <<call, tables, history>>
    BY <1>4 DEF Tick
  <2>2. Stamped'
    <3>1. ASSUME NEW t \in Threads, call[t].at = "stamped"
          PROVE  call[t].now \in Nat /\ clock < call[t].now + MaxDelay
      BY <1>4, <3>1, NewEvent DEF Tick
    <3> QED BY <1>2, <2>1, <3>1 DEF Stamped
  <2>3. InOrder'
    BY <1>2, <1>3, <2>1 DEF InOrder, history
  <2>4. WindowComplete'
    BY <1>2, <1>3, <2>1 DEF WindowComplete, tables, history
  <2>5. Remembered'
    BY <1>1, <1>2, <1>3, <2>1 DEF Remembered, tables, history
  <2> QED BY <1>1, <2>1, <2>2, <2>3, <2>4, <2>5 DEF history
<1>5. ASSUME NEW t \in Threads, NEW src \in Sources, NEW kind \in Kinds, ReadTime(t, src, kind)
      PROVE  BurstInv'
  <2>1. UNCHANGED <<clock, tables, history>>
    BY <1>5 DEF ReadTime
  <2>2. Stamped'
    BY <1>2, <1>5 DEF ReadTime, Stamped, TypeInv, TypeOK
  <2>3. InOrder' /\ WindowComplete' /\ Remembered'
    BY <1>1, <2>1 DEF InOrder, WindowComplete, Remembered, tables, history
  <2> QED BY <1>1, <2>1, <2>2, <2>3 DEF history
<1>6. ASSUME NEW t \in Threads, Locked(t)
      PROVE  BurstInv'
  BY <1>6, LockedBurst
<1>7. ASSUME NEW t \in Threads, Send(t) \/ SendFails(t)
      PROVE  BurstInv'
  <2>1. UNCHANGED <<clock, tables, log, sent>> /\ call' = [call EXCEPT ![t] = Idle]
    BY <1>7 DEF Send, SendFails, history
  <2>2. Stamped'
    BY <2>1 DEF Stamped, TypeInv, TypeOK, Idle
  <2>3. InOrder' /\ WindowComplete' /\ Remembered'
    BY <1>1, <2>1 DEF InOrder, WindowComplete, Remembered, tables
  <2> QED BY <1>1, <2>1, <2>2, <2>3
<1>8. CASE UNCHANGED vars
  <2>1. Stamped' /\ InOrder' /\ WindowComplete' /\ Remembered'
    BY <1>1, <1>8 DEF vars, Stamped, InOrder, WindowComplete, Remembered, tables, history
  <2> QED BY <1>1, <1>8, <2>1 DEF vars, history
<1> QED BY <1>4, <1>5, <1>6, <1>7, <1>8 DEF Next

LEMMA BurstInvariant == Spec => []BurstInv
<1>1. Init => BurstInv
  BY BurstAssumption
  DEF Init, BurstInv, Stamped, InOrder, HasNewest, Newest, Bucket, WindowComplete, Remembered, Idle
<1> QED BY <1>1, BurstTyped, BurstInvStep, PTL DEF Spec

\* What a call may count, and what it counts, by the clock at its decision: it read its
\* time at most MaxDelay before, so its window may end that much earlier.
CountsWindow(t) ==
  /\ \A e \in log' : e.src = call[t].src /\ e.ts >= clock - Window + MaxDelay => e \in Mine(t)
  /\ \A e \in Mine(t) : /\ e \in log' /\ e.src = call[t].src
                        /\ e.ts >= clock - Window - MaxDelay

LEMMA DecisionCounts ==
  ASSUME TypeInv, BurstInv, NEW t \in Threads, Locked(t)
  PROVE  CountsWindow(t)
<1>1. /\ log' = log \cup {Ev(t)} /\ clock' = clock /\ call[t].at = "stamped"
      /\ Ev(t) \in Mine(t) /\ Ev(t) \in log' /\ Ev(t).src = call[t].src
  BY LockedTables, NewestIsNew DEF Ev
<1>2. /\ call[t].now \in Nat /\ clock \in Nat
      /\ call[t].now <= clock /\ clock <= call[t].now + MaxDelay
  BY <1>1, NewEvent DEF BurstInv, Stamped, TypeInv, TypeOK
<1>3. Window \in Nat /\ MaxDelay \in Nat
  BY BurstAssumption
<1>4. \A e \in log : e.ts \in Nat /\ e.src \in Sources
  BY DEF TypeInv, TypeOK, Events
<1>5. ASSUME NEW e \in log', e.src = call[t].src, e.ts >= clock - Window + MaxDelay
      PROVE  e \in Mine(t)
  <2>1. CASE e = Ev(t)
    BY <1>1, <2>1
  <2>2. CASE e \in log
    <3>1. e \in Bucket(e.src)
      BY <1>5, <2>2 DEF BurstInv, WindowComplete, Bucket
    <3>2. e.src \notin Gone(t)
      BY <1>2, <1>3, <1>4, <1>5, <2>2, <3>1, EvictedAreOld
    <3>3. e.ts >= call[t].now - Window
      BY <1>2, <1>3, <1>4, <1>5, <2>2
    <3> QED BY <1>5, <3>1, <3>2, <3>3 DEF Mine, Old
  <2> QED BY <1>1, <2>1, <2>2
<1>6. ASSUME NEW e \in Mine(t)
      PROVE  e \in log' /\ e.src = call[t].src /\ e.ts >= clock - Window - MaxDelay
  <2>1. e \in log' /\ e.src = call[t].src /\ e.ts >= call[t].now - Window
    BY <1>1, <1>6 DEF Mine, Old, Bucket
  <2>2. e.ts \in Nat
    BY <1>1, <1>2, <1>4, <2>1 DEF Ev
  <2> QED BY <1>2, <1>3, <2>1, <2>2
<1> QED BY <1>5, <1>6 DEF CountsWindow

\* A decision counts every event of its source that is in the window by the clock, up to
\* the time a call may wait for the lock, and none that left it longer ago than that:
\* stamps reach the lock out of order and eviction looks at one event of a source only.
\* An event within MaxDelay of the edge of the window may be counted or not.
THEOREM WindowsAreComplete ==
  Spec => []WindowComplete /\ [][\A t \in Threads : Locked(t) => CountsWindow(t)]_vars
<1>1. BurstInv => WindowComplete
  BY DEF BurstInv
<1>2. TypeInv /\ BurstInv /\ [Next]_vars
        => [\A t \in Threads : Locked(t) => CountsWindow(t)]_vars
  BY DecisionCounts
<1> QED BY <1>1, <1>2, BurstTyped, BurstInvariant, PTL DEF Spec

\* Two mails for one source are at least the deduplication time apart, although eviction
\* forgets the time of the last one: by then it is long past.
THEOREM MailsAreSpaced == Spec => PerSourceSpacing
<1>1. TypeInv /\ BurstInv /\ [Next]_vars
        => [\A s \in Sources : sent'[s] # sent[s] => sent'[s] - sent[s] >= Dedup]_vars
  <2> SUFFICES ASSUME TypeInv, BurstInv, Next, NEW s \in Sources, sent'[s] # sent[s]
               PROVE  sent'[s] - sent[s] >= Dedup
    OBVIOUS
  <2>1. PICK t \in Threads : Locked(t)
    BY DEF Next, Tick, ReadTime, Send, SendFails, history
  <2>2. /\ sent' = [sent EXCEPT ![call[t].src] = call[t].now]
        /\ call[t].now - Last(t) >= Dedup /\ call[t].at = "stamped"
    BY <2>1, LockedTables
  <2>3. s = call[t].src /\ sent'[s] = call[t].now
    BY <2>2 DEF TypeInv, TypeOK
  <2>4. /\ call[t].now \in Nat /\ Start <= call[t].now /\ clock \in Nat
        /\ clock <= call[t].now + MaxDelay /\ call[t].now <= clock
        /\ sent[s] \in Nat /\ lastEmail[s] \in Nat
    BY <2>2, NewEvent DEF BurstInv, Stamped, TypeInv, TypeOK
  <2>5. /\ {Window, Dedup, MaxDelay, Start} \subseteq Nat /\ Window >= Dedup + 2 * MaxDelay
        /\ Start >= Dedup
    BY BurstAssumption
  <2>6. /\ lastEmail[s] # 0 => \E e \in log : Newest(s, e) /\ lastEmail[s] <= e.ts + MaxDelay
        /\ \/ lastEmail[s] = sent[s]
           \/ lastEmail[s] = 0 /\ sent[s] + Dedup + MaxDelay <= clock
    BY DEF BurstInv, Remembered
  <2>7. CASE lastEmail[s] # sent[s]
    BY <2>3, <2>4, <2>5, <2>6, <2>7
  <2>8. CASE lastEmail[s] = sent[s] /\ s \notin Gone(t)
    BY <2>2, <2>3, <2>8 DEF Last
  <2>9. CASE lastEmail[s] = sent[s] /\ lastEmail[s] = 0
    BY <2>3, <2>4, <2>5, <2>9
  <2>10. CASE lastEmail[s] = sent[s] /\ lastEmail[s] # 0 /\ s \in Gone(t)
    <3>1. PICK e \in log : Newest(s, e) /\ lastEmail[s] <= e.ts + MaxDelay
      BY <2>6, <2>10
    <3>2. e.ts + Window < call[t].now
      BY <2>1, <2>10, <3>1, EvictedAreOld
    <3>3. e.ts \in Nat
      BY DEF TypeInv, TypeOK, Events
    <3> QED BY <2>3, <2>4, <2>5, <2>10, <3>1, <3>2, <3>3
  <2> QED BY <2>7, <2>8, <2>9, <2>10
<1> QED BY <1>1, BurstTyped, BurstInvariant, PTL DEF Spec, PerSourceSpacing

-----------------------------------------------------------------------------
\* The tables of the detectors

\* However many sources there are, a table holds at most its capacity of windows: a new
\* source is added below it, and above it only the busy ones stay.
THEOREM TablesAreBounded == WindowSpec => []TableBounded
<1> DEFINE Inv == IsFiniteSet(DOMAIN windows) /\ TableBounded
<1>1. WindowInit => Inv
  BY FS_EmptySet, WindowAssumption DEF WindowInit, TableBounded
<1>2. Inv /\ [WindowNext]_windowVars => Inv'
  <2> SUFFICES ASSUME Inv, [WindowNext]_windowVars
               PROVE  Inv'
    OBVIOUS
  <2>1. ASSUME NEW s, NEW x, Detect(s, x)
        PROVE  Inv'
    <3>1. DOMAIN windows' = Tracked(s)
      BY <2>1 DEF Detect
    <3>2. Cardinality(DOMAIN windows) \in Nat /\ Capacity \in Nat
      BY FS_CardinalityType, WindowAssumption
    <3>3. CASE s \in DOMAIN windows
      BY <3>1, <3>3 DEF Tracked, TableBounded
    <3>4. CASE s \notin DOMAIN windows /\ Cardinality(DOMAIN windows) < Capacity
      <4>1. /\ IsFiniteSet(DOMAIN windows \cup {s})
            /\ Cardinality(DOMAIN windows \cup {s}) = Cardinality(DOMAIN windows) + 1
        BY <3>4, FS_AddElement
      <4> QED BY <3>1, <3>2, <3>4, <4>1 DEF Tracked, TableBounded
    <3>5. CASE s \notin DOMAIN windows /\ ~(Cardinality(DOMAIN windows) < Capacity)
      <4>1. Tracked(s) \in SUBSET (DOMAIN windows)
        BY <3>5 DEF Tracked
      <4>2. IsFiniteSet(Tracked(s)) /\ Cardinality(Tracked(s)) <= Cardinality(DOMAIN windows)
        BY <4>1, FS_Subset
      <4>3. Cardinality(Tracked(s)) \in Nat
        BY <4>2, FS_CardinalityType
      <4> QED BY <3>1, <3>2, <4>2, <4>3 DEF TableBounded
    <3> QED BY <3>3, <3>4, <3>5
  <2>2. CASE UNCHANGED windows
    BY <2>2 DEF TableBounded
  <2>3. ASSUME NEW f, NEW n, UpdateFlow(f, n)
        PROVE  UNCHANGED windows
    BY <2>3 DEF UpdateFlow
  <2> QED BY <2>1, <2>2, <2>3 DEF WindowNext, WindowTick, windowVars
<1>3. Inv => TableBounded
  OBVIOUS
<1> QED BY <1>1, <1>2, <1>3, PTL DEF WindowSpec

-----------------------------------------------------------------------------
\* The flows

\* Packet l is the last one of flow f.
LastOf(f, l) == l \in PacketsOf(f) /\ \A m \in PacketsOf(f) : m <= l

\* Flow f was idle so long that the next packet will be far from its last.
Idled(f) == \E l \in PacketsOf(f) : LastOf(f, l) /\ second - past[l].time > FlowIdle - trial.late

FlowType ==
  /\ trial \in WindowBounds /\ second \in Nat /\ inserts \in Nat
  /\ past \in Seq([of : trial.keys, time : Nat, item : trial.items \cup Int, lost : BOOLEAN])
  /\ trial.table = "flows" =>
       \A f \in DOMAIN flows : flows[f].seen \in Int /\ flows[f].packets \in Nat

\* A flow in the table was seen no earlier than its last packet, less the delay.
SeenInv ==
  trial.table = "flows" =>
    \A f \in DOMAIN flows : \E l \in PacketsOf(f) :
      LastOf(f, l) /\ flows[f].seen >= past[l].time - trial.late

\* A flow keeps the count of its packets, or it has been idle.
PacketsInv ==
  trial.table = "flows" =>
    \A f : \A i \in PacketsOf(f) :
      Dense(f, i) => \/ f \in DOMAIN flows /\ flows[f].packets >= Cardinality(From(f, i))
                     \/ Idled(f)

FlowInv == FlowType /\ SeenInv /\ PacketsInv /\ FlowKept

-----------------------------------------------------------------------------
LEMMA PastTimes ==
  ASSUME FlowInv, NEW f, NEW l \in PacketsOf(f)
  PROVE  past[l].time \in Nat
<1> DEFINE Packet == [of : trial.keys, time : Nat, item : trial.items \cup Int, lost : BOOLEAN]
<1>1. past \in Seq(Packet) /\ l \in DOMAIN past
  BY DEF FlowInv, FlowType, PacketsOf
<1>2. past[l] \in Packet
  <2> HIDE DEF Packet
  <2> QED BY <1>1
<1> QED BY <1>2

\* Nothing of this concerns a step that leaves the past and the flows alone.
LEMMA FlowsStay ==
  ASSUME FlowInv, UNCHANGED <<trial, past, flows, verdict, inserts>>,
         second' \in Nat, second' >= second
  PROVE  FlowInv'
<1>1. FlowType'
  BY DEF FlowInv, FlowType
<1>2. \A f : PacketsOf(f)' = PacketsOf(f)
  BY DEF PacketsOf
<1>3. SeenInv'
  BY <1>2 DEF FlowInv, SeenInv, LastOf
<1>4. PacketsInv'
  <2> SUFFICES ASSUME trial.table = "flows", NEW f, NEW i \in PacketsOf(f), Dense(f, i), Idled(f)
               PROVE  Idled(f)'
    BY <1>2 DEF FlowInv, PacketsInv, Dense, From
  <2>1. PICK l \in PacketsOf(f) : LastOf(f, l) /\ second - past[l].time > FlowIdle - trial.late
    BY DEF Idled
  <2>2. past[l].time \in Nat /\ second \in Nat
    BY <2>1, PastTimes DEF FlowInv, FlowType
  <2>3. FlowIdle \in Nat /\ trial.late \in Nat
    BY WindowAssumption DEF FlowInv, FlowType
  <2>4. second' - past'[l].time > FlowIdle - trial'.late
    BY <2>1, <2>2, <2>3
  <2> QED BY <1>2, <2>1, <2>4 DEF Idled, LastOf
<1>5. FlowKept'
  BY <1>2 DEF FlowInv, FlowKept, Dense, From
<1> QED BY <1>1, <1>3, <1>4, <1>5 DEF FlowInv

\* The packet that is handled is the last of its flow; other flows have theirs.
LEMMA PastGrows ==
  ASSUME FlowInv, NEW f, NEW e, e.of = f, past' = past \o <<e>>
  PROVE  /\ Len(past) \in Nat /\ DOMAIN past = 1 .. Len(past)
         /\ Len(past') = Len(past) + 1 /\ past'[Len(past) + 1] = e
         /\ \A i \in DOMAIN past : past'[i] = past[i]
         /\ PacketsOf(f)' = PacketsOf(f) \cup {Len(past) + 1}
         /\ \A g : g # f => PacketsOf(g)' = PacketsOf(g)
<1>1. past \in Seq([of : trial.keys, time : Nat, item : trial.items \cup Int, lost : BOOLEAN])
  BY DEF FlowInv, FlowType
<1>2. /\ Len(past) \in Nat /\ DOMAIN past = 1 .. Len(past)
      /\ Len(past') = Len(past) + 1 /\ past'[Len(past) + 1] = e
      /\ \A i \in DOMAIN past : past'[i] = past[i]
      /\ DOMAIN past' = 1 .. Len(past) + 1
  BY <1>1
<1>3. PacketsOf(f)' = PacketsOf(f) \cup {Len(past) + 1}
  BY <1>2 DEF PacketsOf
<1>4. ASSUME NEW g, g # f PROVE PacketsOf(g)' = PacketsOf(g)
  BY <1>2, <1>4 DEF PacketsOf
<1> QED BY <1>2, <1>3, <1>4

\* A run of packets gets one more; its neighbours stay neighbours.
LEMMA DenseShrinks ==
  ASSUME FlowInv, NEW f, NEW e, e.of = f, past' = past \o <<e>>, trial' = trial,
         NEW i \in PacketsOf(f), Dense(f, i)'
  PROVE  Dense(f, i)
<1> SUFFICES ASSUME NEW j \in PacketsOf(f), NEW k \in PacketsOf(f), i <= j, j < k,
                    \A m \in PacketsOf(f) : m <= j \/ k <= m
             PROVE  past[k].time - past[j].time <= FlowIdle - trial.late
  BY DEF Dense
<1>1. j \in PacketsOf(f)' /\ k \in PacketsOf(f)' /\ past'[j] = past[j] /\ past'[k] = past[k]
  BY PastGrows DEF PacketsOf
<1>2. \A m \in PacketsOf(f)' : m <= j \/ k <= m
  <2>1. k \in 1 .. Len(past) /\ Len(past) \in Nat
    BY PastGrows DEF PacketsOf
  <2>2. PacketsOf(f)' = PacketsOf(f) \cup {Len(past) + 1}
    BY PastGrows
  <2>3. ASSUME NEW m \in PacketsOf(f)' PROVE m <= j \/ k <= m
    <3>1. m \in PacketsOf(f) \/ m = Len(past) + 1
      BY <2>2, <2>3
    <3>2. CASE m \in PacketsOf(f)
      BY <3>2
    <3>3. CASE m = Len(past) + 1
      <4>1. k <= Len(past) + 1
        BY <2>1
      <4> QED BY <3>3, <4>1
    <3> QED BY <3>1, <3>2, <3>3
  <2> QED BY <2>3
<1>3. past'[k].time - past'[j].time <= FlowIdle - trial'.late
  BY <1>1, <1>2 DEF Dense
<1> QED BY <1>1, <1>3

\* The new packet is a neighbour of the one that was the last.
LEMMA LastIsNear ==
  ASSUME FlowInv, NEW f, NEW e, e.of = f, past' = past \o <<e>>, trial' = trial,
         NEW i \in PacketsOf(f), Dense(f, i)', NEW l, LastOf(f, l)
  PROVE  e.time - past[l].time <= FlowIdle - trial.late
<1> DEFINE n == Len(past) + 1
<1>1. /\ l \in PacketsOf(f)' /\ n \in PacketsOf(f)' /\ past'[l] = past[l] /\ past'[n] = e
      /\ i <= l /\ l < n /\ \A m \in PacketsOf(f)' : m <= l \/ n <= m
  <2> l \in 1 .. Len(past) /\ Len(past) \in Nat
    BY PastGrows DEF PacketsOf, LastOf
  <2> QED BY PastGrows DEF PacketsOf, LastOf
<1>2. past'[n].time - past'[l].time <= FlowIdle - trial'.late
  <2> HIDE DEF n
  <2> QED BY <1>1 DEF Dense
<1> QED BY <1>1, <1>2

\* One more packet is counted from any packet on.
LEMMA FromGrows ==
  ASSUME FlowInv, NEW f, NEW e, e.of = f, past' = past \o <<e>>, NEW i \in PacketsOf(f)
  PROVE  /\ Cardinality(From(f, i)) \in Nat
         /\ Cardinality(From(f, i)') = Cardinality(From(f, i)) + 1
<1>1. i \in 1 .. Len(past) /\ Len(past) \in Nat
  BY PastGrows DEF PacketsOf
<1>2. From(f, i) \subseteq 1 .. Len(past)
  BY PastGrows DEF From, PacketsOf
<1>3. IsFiniteSet(From(f, i))
  <2>1. IsFiniteSet(1 .. Len(past))
    BY <1>1, FS_Interval
  <2> QED BY <1>2, <2>1, FS_Subset
<1>4. From(f, i)' = From(f, i) \cup {Len(past) + 1}
  BY PastGrows, <1>1 DEF From
<1>5. Len(past) + 1 \notin From(f, i)
  BY <1>1, <1>2
<1> QED BY <1>3, <1>4, <1>5, FS_AddElement, FS_CardinalityType

-----------------------------------------------------------------------------
\* A flow that the sweep takes away has been idle.
LEMMA SweptWasIdle ==
  ASSUME FlowInv, trial.table = "flows", NEW t \in Int, t <= second,
         NEW g \in DOMAIN flows, ~(flows[g].seen >= t - FlowIdle)
  PROVE  Idled(g)
<1>1. PICK l \in PacketsOf(g) : LastOf(g, l) /\ flows[g].seen >= past[l].time - trial.late
  BY DEF FlowInv, SeenInv
<1>2. past[l].time \in Nat /\ second \in Nat /\ flows[g].seen \in Int
  BY <1>1, PastTimes DEF FlowInv, FlowType
<1>3. FlowIdle \in Nat /\ trial.late \in Nat
  BY WindowAssumption DEF FlowInv, FlowType
<1> QED BY <1>1, <1>2, <1>3 DEF Idled

\* What handling a packet does to the table and to the flow of the packet.
LEMMA FlowStep ==
  ASSUME FlowInv, NEW f \in trial.keys, NEW d \in 0 .. trial.late, UpdateFlow(f, second - d)
  PROVE  /\ trial' = trial /\ second' = second /\ trial.table = "flows"
         /\ past' = past \o <<[of |-> f, time |-> second, item |-> second - d, lost |-> FALSE]>>
         /\ f \in DOMAIN flows' /\ flows'[f].seen = second - d
         /\ flows'[f].packets = (IF f \in DOMAIN flows THEN flows[f].packets ELSE 0) + 1
         /\ verdict'.of = f /\ verdict'.is = flows'[f].packets
         /\ \A g \in DOMAIN flows' \ {f} : g \in DOMAIN flows /\ flows'[g] = flows[g]
         /\ \A g \in DOMAIN flows \ DOMAIN flows' : Idled(g)
         /\ inserts' \in Nat
<1> DEFINE t     == second - d
           added == f \notin DOMAIN flows
           sweep == added /\ (inserts + 1) % FlowSweep = 0
           stay  == {i \in DOMAIN flows : sweep => flows[i].seen >= t - FlowIdle}
           flow  == IF added THEN [seen |-> t, packets |-> 0] ELSE flows[f]
<1>1. /\ trial' = trial /\ second' = second /\ trial.table = "flows"
      /\ past' = past \o <<[of |-> f, time |-> second, item |-> t, lost |-> FALSE]>>
      /\ inserts' = IF added THEN inserts + 1 ELSE inserts
      /\ flows' = [i \in stay \cup {f} |->
                     IF i = f THEN [seen |-> t, packets |-> flow.packets + 1] ELSE flows[i]]
      /\ verdict' = [of |-> f, is |-> flow.packets + 1]
  BY DEF UpdateFlow, Seen
<1>2. second \in Nat /\ trial.late \in Nat
  BY WindowAssumption DEF FlowInv, FlowType
<1>3. \A g \in DOMAIN flows \ stay : Idled(g)
  BY <1>1, <1>2, SweptWasIdle
<1>4. \A g \in stay : g \in DOMAIN flows
  OBVIOUS
<1>5. flow.packets = IF f \in DOMAIN flows THEN flows[f].packets ELSE 0
  OBVIOUS
<1>6. inserts' \in Nat
  BY <1>1 DEF FlowInv, FlowType
<1> HIDE DEF stay, flow
<1>7. /\ DOMAIN flows' = stay \cup {f}
      /\ flows'[f] = [seen |-> t, packets |-> flow.packets + 1]
      /\ \A g \in stay \ {f} : flows'[g] = flows[g]
  BY <1>1
<1> QED BY <1>1, <1>3, <1>4, <1>5, <1>6, <1>7

\* Another flow has the packets and the times it had; it may have been swept.
LEMMA OtherMine ==
  ASSUME FlowInv, NEW f, NEW e, e.of = f, past' = past \o <<e>>, NEW g, g # f
  PROVE  PacketsOf(g)' = PacketsOf(g) /\ \A i \in PacketsOf(g) : past'[i] = past[i]
<1>1. PacketsOf(g)' = PacketsOf(g)
  BY PastGrows
<1>2. \A i \in PacketsOf(g) : past'[i] = past[i]
  BY PastGrows DEF PacketsOf
<1> QED BY <1>1, <1>2

LEMMA OtherIdled ==
  ASSUME NEW g, PacketsOf(g)' = PacketsOf(g), \A i \in PacketsOf(g) : past'[i] = past[i],
         trial' = trial, second' = second
  PROVE  Idled(g)' <=> Idled(g)
  BY DEF Idled, LastOf

LEMMA OtherDense ==
  ASSUME NEW g, PacketsOf(g)' = PacketsOf(g), \A i \in PacketsOf(g) : past'[i] = past[i],
         trial' = trial, NEW i
  PROVE  From(g, i)' = From(g, i) /\ (Dense(g, i)' <=> Dense(g, i))
  BY DEF From, Dense

LEMMA UpdateFlowInv ==
  ASSUME FlowInv, NEW f \in trial.keys, NEW d \in 0 .. trial.late, UpdateFlow(f, second - d)
  PROVE  FlowInv'
<1> PICK e : e = [of |-> f, time |-> second, item |-> second - d, lost |-> FALSE]
  OBVIOUS
<1>1. Len(past) \in Nat
  BY DEF FlowInv, FlowType
<1> PICK n \in Nat : n = Len(past) + 1
  BY <1>1
<1>2. /\ trial' = trial /\ second' = second /\ trial.table = "flows" /\ past' = past \o <<e>>
      /\ f \in DOMAIN flows' /\ flows'[f].seen = second - d
      /\ flows'[f].packets = (IF f \in DOMAIN flows THEN flows[f].packets ELSE 0) + 1
      /\ verdict'.of = f /\ verdict'.is = flows'[f].packets
      /\ \A g \in DOMAIN flows' \ {f} : g \in DOMAIN flows /\ flows'[g] = flows[g]
      /\ \A g \in DOMAIN flows \ DOMAIN flows' : Idled(g)
      /\ inserts' \in Nat
  BY FlowStep
<1>3. e.of = f /\ e.time = second
  OBVIOUS
<1>4. past' = past \o <<e>> /\ trial' = trial /\ second' = second
  BY <1>2
<1>5. ASSUME NEW g, g # f
      PROVE  PacketsOf(g)' = PacketsOf(g) /\ \A i \in PacketsOf(g) : past'[i] = past[i]
  BY <1>3, <1>4, <1>5, OtherMine
<1>6. second \in Nat /\ trial \in WindowBounds /\ trial.late \in Nat /\ FlowIdle \in Nat
  BY WindowAssumption DEF FlowInv, FlowType
<1>7. e \in [of : trial.keys, time : Nat, item : trial.items \cup Int, lost : BOOLEAN]
  BY <1>6
<1>8. FlowType'
  <2>1. past' \in Seq([of : trial.keys, time : Nat, item : trial.items \cup Int, lost : BOOLEAN])
    BY <1>2, <1>7 DEF FlowInv, FlowType
  <2>2. \A g \in DOMAIN flows' : flows'[g].seen \in Int /\ flows'[g].packets \in Nat
    BY <1>2, <1>6 DEF FlowInv, FlowType
  <2> QED BY <1>2, <1>6, <2>1, <2>2 DEF FlowType
<1>9. /\ PacketsOf(f)' = PacketsOf(f) \cup {n} /\ past'[n] = e /\ DOMAIN past = 1 .. Len(past)
      /\ Len(past) \in Nat
  BY <1>2, <1>3, PastGrows
<1>10. \A m \in PacketsOf(f) : m \in Nat /\ m < n
  BY <1>9 DEF PacketsOf
<1>11. LastOf(f, n)' /\ past'[n].time = second /\ n \in PacketsOf(f)'
  BY <1>3, <1>9, <1>10 DEF LastOf
<1>12. SeenInv'
  <2> SUFFICES ASSUME NEW g \in DOMAIN flows'
               PROVE  \E l \in PacketsOf(g)' : LastOf(g, l)'
                                         /\ flows'[g].seen >= past'[l].time - trial.late
    BY <1>2 DEF SeenInv
  <2>1. CASE g = f
    <3>1. flows'[f].seen = second - d /\ second - d >= past'[n].time - trial'.late
      BY <1>2, <1>6, <1>11
    <3>2. trial' = trial /\ n \in PacketsOf(g)' /\ LastOf(g, n)'
      BY <1>4, <1>11, <2>1 DEF LastOf
    <3> QED BY <3>1, <3>2, <2>1
  <2>2. CASE g # f
    <3>1. PICK l \in PacketsOf(g) : LastOf(g, l) /\ flows[g].seen >= past[l].time - trial.late
      BY <1>2, <2>2 DEF FlowInv, SeenInv
    <3>2. PacketsOf(g)' = PacketsOf(g) /\ past'[l] = past[l]
      BY <1>5, <2>2, <3>1
    <3>3. flows'[g] = flows[g] /\ trial' = trial
      BY <1>2, <2>2
    <3> QED BY <3>1, <3>2, <3>3 DEF LastOf
  <2> QED BY <2>1, <2>2
<1>13. ASSUME NEW i \in PacketsOf(f)', Dense(f, i)'
      PROVE  flows'[f].packets \in Nat /\ flows'[f].packets >= Cardinality(From(f, i)')
  <2>1. CASE i = n
    <3>1. From(f, i)' = {n}
      BY <1>9, <1>10, <2>1 DEF From
    <3>2. Cardinality({n}) = 1
      BY FS_Singleton
    <3>3. \A k \in DOMAIN flows : flows[k].packets \in Nat
      BY <1>2 DEF FlowInv, FlowType
    <3> QED BY <1>2, <3>1, <3>2, <3>3
  <2>2. CASE i \in PacketsOf(f)
    <3>1. Dense(f, i)
      BY <1>2, <1>3, <1>13, <2>2, DenseShrinks
    <3>2. ~Idled(f)
      <4> SUFFICES ASSUME NEW l \in PacketsOf(f), LastOf(f, l),
                          second - past[l].time > FlowIdle - trial.late
                   PROVE  FALSE
        BY DEF Idled
      <4>1. second - past[l].time <= FlowIdle - trial.late
        BY <1>2, <1>3, <1>13, <2>2, LastIsNear
      <4>2. past[l].time \in Nat
        BY PastTimes
      <4> QED BY <1>6, <4>1, <4>2
    <3>3. f \in DOMAIN flows /\ flows[f].packets >= Cardinality(From(f, i))
      BY <1>2, <2>2, <3>1, <3>2 DEF FlowInv, PacketsInv
    <3>4. flows[f].packets \in Nat
      BY <1>2, <3>3 DEF FlowInv, FlowType
    <3>5. /\ Cardinality(From(f, i)) \in Nat
          /\ Cardinality(From(f, i)') = Cardinality(From(f, i)) + 1
      BY <1>2, <1>3, <2>2, FromGrows
    <3> QED BY <1>2, <3>3, <3>4, <3>5
  <2> QED BY <1>2, <1>3, <2>1, <2>2, <1>9
<1>14. PacketsInv'
  <2> SUFFICES ASSUME NEW g, g # f, NEW i \in PacketsOf(g)', Dense(g, i)'
               PROVE  \/ g \in DOMAIN flows' /\ flows'[g].packets >= Cardinality(From(g, i)')
                      \/ Idled(g)'
    BY <1>2, <1>13 DEF PacketsInv
  <2>0. PacketsOf(g)' = PacketsOf(g) /\ (Idled(g)' <=> Idled(g))
    BY <1>4, <1>5, OtherIdled
  <2>1. i \in PacketsOf(g) /\ From(g, i)' = From(g, i) /\ Dense(g, i)
    BY <1>4, <1>5, <2>0, OtherDense
  <2>2. \/ g \in DOMAIN flows /\ flows[g].packets >= Cardinality(From(g, i))
        \/ Idled(g)
    BY <1>2, <2>1 DEF FlowInv, PacketsInv
  <2> QED BY <1>2, <2>0, <2>1, <2>2
<1>15. FlowKept'
  BY <1>2, <1>13 DEF FlowKept
<1> QED BY <1>8, <1>12, <1>14, <1>15 DEF FlowInv

\* The other tables are not about flows.
LEMMA DetectFlowInv ==
  ASSUME FlowInv, NEW s \in trial.keys, NEW x \in trial.items, Detect(s, x)
  PROVE  FlowInv'
<1>1. trial.table # "flows" /\ UNCHANGED <<trial, second, flows, inserts>>
  BY DEF Detect
<1>2. past' \in Seq([of : trial.keys, time : Nat, item : trial.items \cup Int, lost : BOOLEAN])
  <2>1. (s \notin Tracked(s)) \in BOOLEAN
    OBVIOUS
  <2>2. PICK b \in BOOLEAN :
          past' = past \o <<[of |-> s, time |-> second, item |-> x, lost |-> b]>>
    BY <2>1 DEF Detect
  <2>3. [of |-> s, time |-> second, item |-> x, lost |-> b]
          \in [of : trial.keys, time : Nat, item : trial.items \cup Int, lost : BOOLEAN]
    BY DEF FlowInv, FlowType
  <2> QED BY <2>2, <2>3 DEF FlowInv, FlowType
<1> QED BY <1>1, <1>2 DEF FlowInv, FlowType, SeenInv, PacketsInv, FlowKept

\* Packets of a flow that follow each other within the idle time are counted together,
\* for every number of flows and workers' delays: what the sweep takes away was idle.
THEOREM FlowsAreKept == WindowSpec => []FlowKept
<1>1. WindowInit => FlowInv
  BY DEF WindowInit, FlowInv, FlowType, SeenInv, PacketsInv, FlowKept, PacketsOf
<1>2. FlowInv /\ [WindowNext]_windowVars => FlowInv'
  <2> SUFFICES ASSUME FlowInv, [WindowNext]_windowVars
               PROVE  FlowInv'
    OBVIOUS
  <2>1. CASE WindowTick \/ UNCHANGED windowVars
    <3>1. second \in Nat
      BY DEF FlowInv, FlowType
    <3>2. /\ UNCHANGED <<trial, past, flows, verdict, inserts>>
          /\ second' \in Nat /\ second' >= second
      BY <2>1, <3>1 DEF WindowTick, windowVars
    <3> QED BY <3>2, FlowsStay
  <2> QED BY <2>1, UpdateFlowInv, DetectFlowInv DEF WindowNext
<1>3. FlowInv => FlowKept
  BY DEF FlowInv
<1> QED BY <1>1, <1>2, <1>3, PTL DEF WindowSpec

-----------------------------------------------------------------------------
\* The reasons

\* Window w holds, in their order, the events l of e with l in L, at the places that g
\* names; those it does not hold were before them and are too old, or pushed out.
Copies(w, e, L, now, g) ==
  /\ g \in [DOMAIN w -> L]
  /\ \A i, j \in DOMAIN w : i < j => g[i] < g[j]
  /\ \A i \in DOMAIN w : w[i].time = e[g[i]].time /\ w[i].item = e[g[i]].item
  /\ \A l \in L : \/ \E i \in DOMAIN w : g[i] = l
                  \/ /\ \A i \in DOMAIN w : l < g[i]
                     /\ \/ now - e[l].time > Span
                        \/ Cardinality({m \in L : l < m}) >= Length

\* The events of source s whose window was not evicted as it was made.
Live(s) == {i \in DOMAIN past : past[i].of = s /\ ~past[i].lost}

InTime ==
  \A i \in DOMAIN past : /\ past[i].time <= second
                         /\ \A j \in DOMAIN past : i <= j => past[i].time <= past[j].time

\* A source that has no window has only old events.
Copied ==
  trial.table # "flows" =>
    \A s \in trial.keys :
      /\ s \in DOMAIN windows =>
           /\ windows[s] \in Seq([time : Nat, item : trial.items]) /\ windows[s] # <<>>
           /\ \E g : Copies(windows[s], past, Live(s), second, g)
      /\ s \notin DOMAIN windows => \A i \in Live(s) : second - past[i].time > Span

CopyInv == InTime /\ Copied /\ VerdictExact

\* A set of numbers has a least one.
LEMMA LeastNumber ==
  ASSUME NEW T \in SUBSET Nat, T # {}
  PROVE  \E x \in T : \A y \in T : x <= y
<1> DEFINE R == OpToRel(<, Nat)
<1>1. IsWellFoundedOn(R, Nat)
  BY NatLessThanWellFounded
<1>2. \A x, y \in Nat : x < y => <<x, y>> \in R
  BY DEF OpToRel
<1> HIDE DEF R
<1>3. PICK x \in T : \A y \in T : ~(<<y, x>> \in R)
  BY <1>1, WFMin
<1>4. \A y \in T : ~(y < x)
  BY <1>2, <1>3
<1> QED BY <1>4

\* The reason depends on the times and the items in their order only.
LEMMA SameReason ==
  ASSUME NEW D \in SUBSET Nat, IsFiniteSet(D), NEW w, NEW e, NEW g \in [D -> Nat],
         \A i, j \in D : i < j => g[i] < g[j],
         \A i \in D : w[i].time = e[g[i]].time /\ w[i].item = e[g[i]].item
  PROVE  Reason(w, D) = Reason(e, {g[i] : i \in D})
<1> DEFINE R == {g[i] : i \in D}
<1>0. \A i, j \in D : (i <= j <=> g[i] <= g[j]) /\ (i < j <=> g[i] < g[j]) /\ (g[i] = g[j] => i = j)
  OBVIOUS
<1>1. ASSUME NEW i \in D PROVE Flooded(w, D, i) <=> Flooded(e, R, g[i])
  <2> DEFINE A == {j \in NotBefore(D, i) : second - w[j].time <= FloodWindow}
             B == {j \in NotBefore(R, g[i]) : second - e[j].time <= FloodWindow}
             f == [j \in A |-> g[j]]
  <2>1. A \subseteq D
    BY DEF NotBefore
  <2>2. IsFiniteSet(A)
    BY <2>1, FS_Subset
  <2>3. \A j \in A : g[j] \in B
    BY <1>0, <2>1 DEF NotBefore
  <2>4. \A l \in B : \E j \in A : g[j] = l
    BY <1>0 DEF NotBefore
  <2> HIDE DEF A, B
  <2>5. f \in Bijection(A, B)
    <3>1. f \in [A -> B]
      BY <2>3
    <3>2. \A j, k \in A : f[j] = f[k] => j = k
      BY <1>0, <2>1
    <3>3. \A l \in B : \E j \in A : f[j] = l
      BY <2>4
    <3> HIDE DEF f
    <3> QED BY <3>1, <3>2, <3>3 DEF Bijection, Injection, Surjection, IsInjective
  <2>6. Cardinality(A) = Cardinality(B)
    BY <2>2, <2>5, FS_Bijection DEF ExistsBijection
  <2> QED BY <2>6 DEF Flooded, A, B
<1>2. ASSUME NEW i \in D PROVE Scanned(w, D, i) <=> Scanned(e, R, g[i])
  <2>1. {w[j].item : j \in NotBefore(D, i)} = {e[j].item : j \in NotBefore(R, g[i])}
    <3>1. \A j \in NotBefore(D, i) : g[j] \in NotBefore(R, g[i]) /\ w[j].item = e[g[j]].item
      BY <1>0 DEF NotBefore
    <3>2. \A l \in NotBefore(R, g[i]) : \E j \in NotBefore(D, i) : g[j] = l
      BY <1>0 DEF NotBefore
    <3> HIDE DEF R
    <3> QED BY <3>1, <3>2
  <2> QED BY <2>1 DEF Scanned
<1>3. {w[i].item : i \in D} = {e[l].item : l \in R}
  <2>1. \A i \in D : g[i] \in R /\ w[i].item = e[g[i]].item
    OBVIOUS
  <2>2. \A l \in R : \E i \in D : g[i] = l
    OBVIOUS
  <2> HIDE DEF R
  <2> QED BY <2>1, <2>2
<1>4. \A l \in R : \E i \in D : l = g[i]
  OBVIOUS
<1>5. \A i \in D : g[i] \in R
  OBVIOUS
<1> HIDE DEF R
<1>6. (\E i \in D : Scanned(w, D, i)) <=> (\E i \in R : Scanned(e, R, i))
  BY <1>2, <1>4, <1>5
<1>7. (\E i \in D : Flooded(w, D, i) /\ \A j \in D : i < j => ~Scanned(w, D, j))
        <=> (\E i \in R : Flooded(e, R, i) /\ \A j \in R : i < j => ~Scanned(e, R, j))
  <2>1. ASSUME NEW i \in D
        PROVE  (\A j \in D : i < j => ~Scanned(w, D, j))
                 <=> (\A j \in R : g[i] < j => ~Scanned(e, R, j))
    BY <1>0, <1>2, <1>4, <1>5
  <2> QED BY <1>1, <1>4, <1>5, <2>1
<1>8. Ports(w, D) = Ports(e, R)
  BY <1>6, <1>7 DEF Ports
<1>9. Names(w, D) = Names(e, R)
  BY <1>3 DEF Names
<1> QED BY <1>8, <1>9 DEF Reason, R

-----------------------------------------------------------------------------
\* An event is appended to a window and to the past.
LEMMA CopyGrows ==
  ASSUME NEW S, NEW w \in Seq(S), NEW x \in S, NEW T, NEW e \in Seq(T), NEW y \in T,
         x.time = y.time, x.item = y.item,
         NEW L \in SUBSET DOMAIN e, NEW now, NEW g, Copies(w, e, L, now, g)
  PROVE  \E h : Copies(w \o <<x>>, e \o <<y>>, L \cup {Len(e) + 1}, now, h)
<1> PICK w2 : w2 = w \o <<x>>
  OBVIOUS
<1> PICK e2 : e2 = e \o <<y>>
  OBVIOUS
<1> PICK n \in Nat : n = Len(e) + 1
  OBVIOUS
<1> PICK k \in Nat : k = Len(w) + 1
  OBVIOUS
<1>1. /\ DOMAIN w = 1 .. k - 1 /\ DOMAIN w2 = 1 .. k /\ w2[k] = x
      /\ \A i \in DOMAIN w : w2[i] = w[i]
  OBVIOUS
<1>2. /\ DOMAIN e = 1 .. n - 1 /\ e2[n] = y /\ \A i \in DOMAIN e : e2[i] = e[i]
  OBVIOUS
<1> PICK M : M = L \cup {n}
  OBVIOUS
<1> DEFINE h == [i \in DOMAIN w2 |-> IF i = k THEN n ELSE g[i]]
<1>3. /\ g \in [DOMAIN w -> L]
      /\ \A i, j \in DOMAIN w : i < j => g[i] < g[j]
      /\ \A i \in DOMAIN w : w[i].time = e[g[i]].time /\ w[i].item = e[g[i]].item
      /\ \A l \in L : \/ \E i \in DOMAIN w : g[i] = l
                      \/ /\ \A i \in DOMAIN w : l < g[i]
                         /\ \/ now - e[l].time > Span
                            \/ Cardinality({m \in L : l < m}) >= Length
  BY DEF Copies
<1>4. /\ h[k] = n /\ \A i \in DOMAIN w : h[i] = g[i] /\ g[i] \in L
      /\ \A i \in DOMAIN w2 : i = k \/ i \in DOMAIN w
      /\ \A i \in DOMAIN w : i \in DOMAIN w2 /\ i < k /\ i \in Nat
      /\ k \in DOMAIN w2
      /\ \A l \in L : l \in Nat /\ l < n /\ l \in DOMAIN e
  BY <1>1, <1>2, <1>3
<1>5. h \in [DOMAIN w2 -> M]
  BY <1>4
<1> HIDE DEF h
<1>6. \A i, j \in DOMAIN w2 : i < j => h[i] < h[j]
  BY <1>3, <1>4
<1>7. \A i \in DOMAIN w2 : w2[i].time = e2[h[i]].time /\ w2[i].item = e2[h[i]].item
  BY <1>1, <1>2, <1>3, <1>4
<1>8. ASSUME NEW l \in M
      PROVE  \/ \E i \in DOMAIN w2 : h[i] = l
             \/ /\ \A i \in DOMAIN w2 : l < h[i]
                /\ \/ now - e2[l].time > Span
                   \/ Cardinality({m \in M : l < m}) >= Length
  <2>1. CASE l = n
    BY <2>1, <1>4
  <2>2. CASE \E i \in DOMAIN w : g[i] = l
    BY <2>2, <1>4
  <2>3. CASE /\ l \in L /\ \A i \in DOMAIN w : l < g[i]
             /\ \/ now - e[l].time > Span
                \/ Cardinality({m \in L : l < m}) >= Length
    <3>1. \A i \in DOMAIN w2 : l < h[i]
      BY <2>3, <1>4
    <3>2. e2[l] = e[l]
      BY <2>3, <1>2
    <3>3. CASE Cardinality({m \in L : l < m}) >= Length
      <4>1. IsFiniteSet(M)
        <5>1. IsFiniteSet(1 .. n)
          BY FS_Interval
        <5>2. M \in SUBSET (1 .. n)
          BY <1>2
        <5> QED BY <5>1, <5>2, FS_Subset
      <4> DEFINE A == {m \in L : l < m}
                 B == {m \in M : l < m}
      <4>2. IsFiniteSet(B)
        BY <4>1, FS_Subset
      <4>3. A \in SUBSET B
        OBVIOUS
      <4> HIDE DEF A, B
      <4>4. IsFiniteSet(A) /\ Cardinality(A) <= Cardinality(B)
        BY <4>2, <4>3, FS_Subset
      <4>5. Cardinality(A) \in Nat /\ Cardinality(B) \in Nat
        BY <4>2, <4>4, FS_CardinalityType
      <4>6. Cardinality(A) >= Length /\ Length \in Nat
        BY <3>3, WindowAssumption DEF A
      <4>7. Cardinality(B) >= Length
        BY <4>4, <4>5, <4>6
      <4> QED BY <3>1, <4>7 DEF B
    <3> QED BY <2>3, <3>1, <3>2, <3>3
  <2> QED BY <2>1, <2>2, <2>3, <1>3
<1>9. Copies(w2, e2, M, now, h)
  BY <1>5, <1>6, <1>7, <1>8 DEF Copies
<1> QED BY <1>9

\* The events that go are the oldest: too old, or with as many after them as fit.
LEMMA CopyShrinks ==
  ASSUME NEW S, NEW w \in Seq(S), NEW e, NEW L \in SUBSET Nat, IsFiniteSet(L), NEW now,
         NEW g, Copies(w, e, L, now, g), NEW first \in DOMAIN w,
         \A i \in 1 .. first - 1 : Len(w) - i >= Length \/ now - w[i].time > Span
  PROVE  \E h : Copies(SubSeq(w, first, Len(w)), e, L, now, h)
<1> PICK n \in Nat : n = Len(w)
  OBVIOUS
<1> PICK v : v = SubSeq(w, first, n)
  OBVIOUS
<1>1. /\ DOMAIN w = 1 .. n /\ first \in 1 .. n
      /\ DOMAIN v = 1 .. n - first + 1
      /\ \A i \in DOMAIN v : v[i] = w[i + first - 1]
  OBVIOUS
<1>2. /\ g \in [DOMAIN w -> L]
      /\ \A i, j \in DOMAIN w : i < j => g[i] < g[j]
      /\ \A i \in DOMAIN w : w[i].time = e[g[i]].time /\ w[i].item = e[g[i]].item
      /\ \A l \in L : \/ \E i \in DOMAIN w : g[i] = l
                      \/ /\ \A i \in DOMAIN w : l < g[i]
                         /\ \/ now - e[l].time > Span
                            \/ Cardinality({m \in L : l < m}) >= Length
  BY DEF Copies
<1> DEFINE h == [i \in DOMAIN v |-> g[i + first - 1]]
<1>3. \A i \in DOMAIN v : i \in Nat /\ i + first - 1 \in DOMAIN w /\ h[i] = g[i + first - 1]
                          /\ h[i] \in L /\ i + first - 1 >= first
  BY <1>1, <1>2
<1>4. h \in [DOMAIN v -> L]
  BY <1>3
<1>5. \A i \in DOMAIN w : i >= first => i - first + 1 \in DOMAIN v /\ h[i - first + 1] = g[i]
  <2> SUFFICES ASSUME NEW i \in DOMAIN w, i >= first
               PROVE  i - first + 1 \in DOMAIN v /\ h[i - first + 1] = g[i]
    OBVIOUS
  <2>0. i \in 1 .. n /\ first \in Nat /\ DOMAIN v = 1 .. n - first + 1
    BY <1>1
  <2>1. i - first + 1 \in DOMAIN v /\ (i - first + 1) + first - 1 = i
    <3>1. i \in Int /\ n \in Int /\ first \in Int /\ i <= n
      BY <2>0
    <3>2. i - first + 1 \in Int /\ 1 <= i - first + 1 /\ i - first + 1 <= n - first + 1
      BY <3>1
    <3>3. (i - first + 1) + first - 1 = i
      BY <3>1
    <3> QED BY <2>0, <3>2, <3>3
  <2> QED BY <2>1
<1> HIDE DEF h
<1>6. \A i, j \in DOMAIN v : i < j => h[i] < h[j]
  BY <1>1, <1>2, <1>3
<1>7. \A i \in DOMAIN v : v[i].time = e[h[i]].time /\ v[i].item = e[h[i]].item
  BY <1>1, <1>2, <1>3
<1>8. ASSUME NEW l \in L
      PROVE  \/ \E i \in DOMAIN v : h[i] = l
             \/ /\ \A i \in DOMAIN v : l < h[i]
                /\ \/ now - e[l].time > Span
                   \/ Cardinality({m \in L : l < m}) >= Length
  <2>1. CASE /\ \A i \in DOMAIN w : l < g[i]
             /\ \/ now - e[l].time > Span
                \/ Cardinality({m \in L : l < m}) >= Length
    BY <2>1, <1>3
  <2>2. CASE \E i \in DOMAIN w : g[i] = l
    <3>1. PICK i \in DOMAIN w : g[i] = l
      BY <2>2
    <3>2. CASE i >= first
      BY <3>1, <3>2, <1>5
    <3>3. CASE i < first
      <4>1. \A j \in DOMAIN v : l < h[j]
        BY <3>1, <3>3, <1>1, <1>2, <1>3
      <4>2. i \in 1 .. first - 1
        BY <3>3, <1>1
      <4>3. CASE now - w[i].time > Span
        BY <3>1, <4>1, <4>3, <1>2
      <4>4. CASE n - i >= Length
        <5> DEFINE A == (i + 1) .. n
                   B == {m \in L : l < m}
                   f == [j \in A |-> g[j]]
        <5>1. IsFiniteSet(A) /\ Cardinality(A) = n - i
          <6>1. i \in Nat /\ i + 1 \in Int /\ n \in Int /\ i <= n
            BY <1>1
          <6>2. /\ IsFiniteSet((i + 1) .. n)
                /\ Cardinality((i + 1) .. n) = IF i + 1 > n THEN 0 ELSE n - (i + 1) + 1
            BY <6>1, FS_Interval
          <6> QED BY <6>1, <6>2
        <5>2. IsFiniteSet(B)
          BY FS_Subset
        <5>3. \A j \in A : g[j] \in B /\ j \in DOMAIN w
          <6>1. \A j \in A : j \in DOMAIN w /\ i < j
            BY <1>1
          <6>2. \A j \in A : g[j] \in L /\ l < g[j]
            BY <6>1, <3>1, <1>2
          <6> QED BY <6>1, <6>2
        <5>4. \A j, m \in A : g[j] = g[m] => j = m
          <6>1. \A j, m \in A : j \in DOMAIN w /\ m \in DOMAIN w /\ (j < m \/ m < j \/ j = m)
            BY <5>3, <1>1
          <6>2. \A j \in DOMAIN w : g[j] \in Nat
            BY <1>2
          <6>3. \A j, m \in DOMAIN w : j < m => g[j] < g[m]
            BY <1>2
          <6> HIDE DEF A
          <6> QED BY <6>1, <6>2, <6>3
        <5> HIDE DEF B
        <5>5. f \in [A -> B] /\ \A j \in A : f[j] = g[j]
          BY <5>3
        <5> HIDE DEF f, A
        <5>6. f \in Injection(A, B)
          BY <5>4, <5>5 DEF Injection, IsInjective
        <5>7. Cardinality(A) <= Cardinality(B)
          BY <5>2, <5>6, FS_Injection
        <5>8. Cardinality(B) \in Nat /\ Length \in Nat
          BY <5>2, FS_CardinalityType, WindowAssumption
        <5>9. Cardinality(B) >= Length
          BY <5>1, <5>7, <5>8, <4>4, <1>1
        <5> QED BY <4>1, <5>9 DEF B
      <4> QED BY <4>2, <4>3, <4>4
    <3> QED BY <3>1, <3>2, <3>3, <1>1
  <2> QED BY <2>1, <2>2, <1>2
<1>9. Copies(v, e, L, now, h)
  BY <1>4, <1>6, <1>7, <1>8 DEF Copies
<1> QED BY <1>9

\* R are the recent ones of the events l of e with l in L, which are in the order of time.
RecentAre(e, L, now, R) ==
  /\ \A l \in L : e[l].time \in Nat /\ \A m \in L : l <= m => e[l].time <= e[m].time
  /\ R \in SUBSET L /\ \A l \in L : l \in R <=> now - e[l].time <= Span

\* Window w has no old events.
Fresh(w, now) == \A i \in DOMAIN w : now - w[i].time <= Span

\* Window w holds just the events R, at the places that g names.
Covers(w, g, R) == (\A i \in DOMAIN w : g[i] \in R) /\ (\A l \in R : \E i \in DOMAIN w : g[i] = l)

\* When no more events are recent than fit, a window without old events holds just those.
LEMMA CopyIsRecent ==
  ASSUME NEW w, NEW e, NEW L \in SUBSET Nat, IsFiniteSet(L), NEW now \in Nat,
         NEW g, Copies(w, e, L, now, g), NEW R, RecentAre(e, L, now, R),
         Fresh(w, now), Cardinality(R) <= Length
  PROVE  Covers(w, g, R)
<1>1. /\ g \in [DOMAIN w -> L]
      /\ \A i \in DOMAIN w : w[i].time = e[g[i]].time
      /\ \A l \in L : \/ \E i \in DOMAIN w : g[i] = l
                      \/ \/ now - e[l].time > Span
                         \/ Cardinality({m \in L : l < m}) >= Length
  BY DEF Copies
<1>0. /\ \A l \in L : e[l].time \in Nat /\ \A m \in L : l <= m => e[l].time <= e[m].time
      /\ R \in SUBSET L /\ \A l \in L : l \in R <=> now - e[l].time <= Span
  BY DEF RecentAre
<1>2. \A i \in DOMAIN w : g[i] \in R
  BY <1>0, <1>1 DEF Fresh
<1>3. ASSUME NEW l \in R PROVE \E i \in DOMAIN w : g[i] = l
  <2>0. l \in L /\ l \in Nat /\ e[l].time \in Nat /\ Span \in Nat /\ Length \in Nat
    BY <1>0, WindowAssumption
  <2>1. ~(now - e[l].time > Span)
    BY <1>0, <2>0
  <2>2. ASSUME Cardinality({m \in L : l < m}) >= Length PROVE FALSE
    <3> DEFINE A == {m \in L : l < m}
    <3>1. A \in SUBSET (R \ {l})
      <4> SUFFICES ASSUME NEW m \in L, l < m PROVE m \in R /\ m # l
        OBVIOUS
      <4>1. e[l].time <= e[m].time /\ e[m].time \in Nat
        BY <1>0, <2>0
      <4>2. now - e[l].time <= Span
        BY <1>0
      <4>3. now - e[m].time <= Span
        BY <2>0, <4>1, <4>2
      <4>4. m \in R /\ m \in Nat
        BY <1>0, <4>3
      <4>5. m # l
        BY <2>0, <4>4
      <4> QED BY <4>4, <4>5
    <3>2. IsFiniteSet(R)
      BY <1>0, FS_Subset
    <3>3. IsFiniteSet(R \ {l}) /\ Cardinality(R \ {l}) = Cardinality(R) - 1
      BY <3>2, FS_RemoveElement
    <3>4. Cardinality(R) \in Nat
      BY <3>2, FS_CardinalityType
    <3> HIDE DEF A
    <3>5. IsFiniteSet(A) /\ Cardinality(A) <= Cardinality(R \ {l})
      BY <3>1, <3>3, FS_Subset
    <3>6. Cardinality(A) \in Nat
      BY <3>5, FS_CardinalityType
    <3>7. Cardinality(A) >= Length
      BY <2>2 DEF A
    <3> QED BY <2>0, <3>3, <3>4, <3>5, <3>6, <3>7
  <2> QED BY <1>1, <2>0, <2>1, <2>2
<1> QED BY <1>2, <1>3 DEF Covers

-----------------------------------------------------------------------------
LEMMA PastTyped ==
  ASSUME FlowInv
  PROVE  /\ past \in Seq([of : trial.keys, time : Nat, item : trial.items \cup Int, lost : BOOLEAN])
         /\ \A i \in DOMAIN past : i \in Nat /\ past[i].time \in Nat /\ past[i].of \in trial.keys
                                   /\ past[i].lost \in BOOLEAN
         /\ DOMAIN past = 1 .. Len(past) /\ Len(past) \in Nat
<1> DEFINE Packet == [of : trial.keys, time : Nat, item : trial.items \cup Int, lost : BOOLEAN]
<1>1. past \in Seq(Packet)
  BY DEF FlowInv, FlowType
<1>2. \A i \in DOMAIN past : past[i] \in Packet
  <2> HIDE DEF Packet
  <2> QED BY <1>1
<1>3. DOMAIN past = 1 .. Len(past) /\ Len(past) \in Nat
  <2> HIDE DEF Packet
  <2> QED BY <1>1
<1> QED BY <1>1, <1>2, <1>3

LEMMA LiveFinite ==
  ASSUME FlowInv, NEW s
  PROVE  Live(s) \in SUBSET DOMAIN past /\ IsFiniteSet(Live(s))
<1>1. Live(s) \in SUBSET DOMAIN past
  BY DEF Live
<1>2. IsFiniteSet(DOMAIN past)
  BY PastTyped, FS_Interval
<1> QED BY <1>1, <1>2, FS_Subset

\* The events of a source, whether it has a window or not.
LEMMA EventsCopied ==
  ASSUME FlowInv, Copied, trial.table # "flows", NEW s \in trial.keys
  PROVE  /\ EventsOf(s) \in Seq([time : Nat, item : trial.items])
         /\ \E g : Copies(EventsOf(s), past, Live(s), second, g)
<1>1. CASE s \in DOMAIN windows
  BY <1>1 DEF Copied, EventsOf
<1>2. CASE s \notin DOMAIN windows
  <2>1. EventsOf(s) = <<>> /\ DOMAIN EventsOf(s) = {}
    BY <1>2 DEF EventsOf
  <2>2. \A i \in Live(s) : second - past[i].time > Span
    BY <1>2 DEF Copied
  <2>3. Copies(EventsOf(s), past, Live(s), second, [i \in {} |-> 0])
    BY <2>1, <2>2 DEF Copies
  <2> QED BY <2>1, <2>3
<1> QED BY <1>1, <1>2

\* An event of this moment comes to the past, which stays in the order of time.
LEMMA PastInTime ==
  ASSUME FlowInv, InTime, second' = second, NEW e \in [of : trial.keys, time : Nat,
                                                       item : trial.items \cup Int, lost : BOOLEAN],
         e.time = second, past' = past \o <<e>>, NEW n, n = Len(past) + 1
  PROVE  /\ n \in Nat /\ DOMAIN past = 1 .. n - 1 /\ DOMAIN past' = 1 .. n /\ Len(past') = n
         /\ past'[n] = e /\ \A i \in DOMAIN past : past'[i] = past[i]
         /\ InTime'
<1>1. /\ n \in Nat /\ DOMAIN past = 1 .. n - 1 /\ DOMAIN past' = 1 .. n /\ Len(past') = n
      /\ past'[n] = e /\ \A i \in DOMAIN past : past'[i] = past[i]
  BY PastTyped
<1>2. \A i \in DOMAIN past' : i = n \/ i \in DOMAIN past
  BY <1>1
<1>3. \A i \in DOMAIN past : i < n /\ i \in Nat
  BY <1>1
<1>4. second \in Nat
  BY DEF FlowInv, FlowType
<1>5. \A i \in DOMAIN past' : past'[i].time <= second'
  BY <1>1, <1>2, <1>4 DEF InTime
<1>6. ASSUME NEW i \in DOMAIN past', NEW j \in DOMAIN past', i <= j
      PROVE  past'[i].time <= past'[j].time
  <2>1. CASE j = n
    BY <1>1, <1>5, <2>1
  <2>2. CASE j # n
    BY <1>1, <1>2, <1>3, <1>6, <2>2 DEF InTime
  <2> QED BY <2>1, <2>2
<1> QED BY <1>1, <1>5, <1>6 DEF InTime

\* What handling an event adds to the past, and what it leaves.
LEMMA DetectPast ==
  ASSUME FlowInv, InTime, NEW s \in trial.keys, NEW x \in trial.items, Detect(s, x),
         NEW n, n = Len(past) + 1
  PROVE  /\ UNCHANGED <<trial, second>> /\ trial.table # "flows"
         /\ n \in Nat /\ DOMAIN past = 1 .. n - 1 /\ DOMAIN past' = 1 .. n /\ Len(past') = n
         /\ past'[n] = [of |-> s, time |-> second, item |-> x, lost |-> s \notin Tracked(s)]
         /\ past' = past \o <<past'[n]>>
         /\ past'[n] \in [of : trial.keys, time : Nat, item : trial.items \cup Int, lost : BOOLEAN]
         /\ \A i \in DOMAIN past : past'[i] = past[i]
         /\ InTime'
<1> PICK e : e = [of |-> s, time |-> second, item |-> x, lost |-> s \notin Tracked(s)]
  OBVIOUS
<1>1. UNCHANGED <<trial, second>> /\ trial.table # "flows" /\ past' = past \o <<e>>
  BY DEF Detect
<1>2. second \in Nat
  BY DEF FlowInv, FlowType
<1>3. e \in [of : trial.keys, time : Nat, item : trial.items \cup Int, lost : BOOLEAN]
  <2>1. PICK b \in BOOLEAN : b = (s \notin Tracked(s))
    OBVIOUS
  <2> QED BY <1>2, <2>1
<1>4. e.time = second /\ second' = second
  BY <1>1
<1>5. /\ n \in Nat /\ DOMAIN past = 1 .. n - 1 /\ DOMAIN past' = 1 .. n /\ Len(past') = n
      /\ past'[n] = e /\ \A i \in DOMAIN past : past'[i] = past[i]
      /\ InTime'
  BY <1>1, <1>3, <1>4, PastInTime
<1> QED BY <1>1, <1>3, <1>5

\* The window that is made of an event holds the recent events of its source.
LEMMA ExtendedCopied ==
  ASSUME FlowInv, InTime, Copied, NEW s \in trial.keys, NEW x \in trial.items, Detect(s, x),
         NEW n, n = Len(past) + 1
  PROVE  /\ Extended(s, x) \in Seq([time : Nat, item : trial.items]) /\ Extended(s, x) # <<>>
         /\ \E g : Copies(Extended(s, x), past', Live(s) \cup {n}, second, g)
         /\ \A i \in DOMAIN Extended(s, x) : second - Extended(s, x)[i].time <= Span
<1> DEFINE S == [time : Nat, item : trial.items]
           T == [of : trial.keys, time : Nat, item : trial.items \cup Int, lost : BOOLEAN]
<1>1. /\ UNCHANGED <<trial, second>> /\ trial.table # "flows"
      /\ n \in Nat /\ DOMAIN past = 1 .. n - 1 /\ DOMAIN past' = 1 .. n
      /\ past'[n] = [of |-> s, time |-> second, item |-> x, lost |-> s \notin Tracked(s)]
      /\ past' = past \o <<past'[n]>>
      /\ past'[n] \in T
      /\ InTime'
  BY DetectPast
<1>2. /\ EventsOf(s) \in Seq(S)
      /\ \E g : Copies(EventsOf(s), past, Live(s), second, g)
  BY <1>1, EventsCopied
<1> PICK a : a = [time |-> second, item |-> x]
  OBVIOUS
<1>3. second \in Nat /\ Span \in Nat \ {0} /\ Length \in Nat \ {0}
  BY WindowAssumption DEF FlowInv, FlowType
<1>4. a \in S /\ a.time = second /\ a.item = x
  BY <1>3
<1>5. past \in Seq(T) /\ Live(s) \in SUBSET DOMAIN past /\ IsFiniteSet(Live(s))
  BY PastTyped, LiveFinite
<1>6. past'[n].time = second /\ past'[n].item = x
  BY <1>1
<1> PICK M : M = Live(s) \cup {n}
  OBVIOUS
<1>0. PICK w : w = EventsOf(s) \o <<a>>
  OBVIOUS
<1>20. PICK k \in Nat : k = Len(EventsOf(s)) + 1 /\ 1 <= k
  <2> HIDE DEF S
  <2> QED BY <1>2
<1>7. w \in Seq(S) /\ Len(w) = k /\ DOMAIN w = 1 .. k /\ w[k] = a
  <2> HIDE DEF S
  <2> QED BY <1>0, <1>2, <1>4, <1>20
<1>8. \A i \in DOMAIN w : w[i].time \in Nat /\ w[i] \in S
  <2>1. \A i \in DOMAIN w : w[i] \in S
    <3> HIDE DEF S
    <3> QED BY <1>7
  <2> QED BY <2>1
<1>9. \E g : Copies(w, past', M, second, g)
  <2> PICK e : e = past'[n]
    OBVIOUS
  <2> HIDE DEF S, T
  <2>1. e \in T /\ a \in S /\ a.time = e.time /\ a.item = e.item
    BY <1>1, <1>4, <1>6
  <2>2. PICK g : Copies(EventsOf(s), past, Live(s), second, g)
    BY <1>2
  <2>3. \E h : Copies(EventsOf(s) \o <<a>>, past \o <<e>>, Live(s) \cup {Len(past) + 1}, second, h)
    BY <1>2, <1>5, <2>1, <2>2, CopyGrows
  <2> QED BY <1>0, <1>1, <2>3
<1> DEFINE fits == {i \in DOMAIN w : Len(w) - i < Length /\ second - w[i].time <= Span}
<1>10. k \in fits /\ fits \in SUBSET Nat
  BY <1>3, <1>4, <1>7, <1>20
<1>11. PICK first \in Nat :
        /\ first = CHOOSE i \in fits : \A j \in fits : i <= j
        /\ first \in fits /\ \A j \in fits : first <= j
  <2>1. \E i \in fits : \A j \in fits : i <= j
    BY <1>10, LeastNumber
  <2> HIDE DEF fits
  <2> QED BY <1>10, <2>1
<1>21. first \in fits /\ \A j \in fits : first <= j
  BY <1>11
<1>12. Extended(s, x) = SubSeq(w, first, Len(w))
  BY <1>0, <1>11 DEF Extended
<1>13. first \in DOMAIN w /\ first \in 1 .. k
  BY <1>7, <1>21
<1>14. \A i \in 1 .. first - 1 : Len(w) - i >= Length \/ second - w[i].time > Span
  <2> SUFFICES ASSUME NEW i \in 1 .. first - 1
               PROVE  Len(w) - i >= Length \/ second - w[i].time > Span
    OBVIOUS
  <2>1. i \in DOMAIN w /\ i < first /\ i \in Nat /\ first \in Nat
    <3>1. first \in Nat /\ first <= k /\ DOMAIN w = 1 .. k
      BY <1>7, <1>13
    <3>2. i \in Nat /\ 1 <= i /\ i <= first - 1
      BY <3>1
    <3> HIDE DEF fits
    <3> QED BY <3>1, <3>2
  <2>2. i \notin fits
    <3> HIDE DEF fits
    <3> QED BY <1>21, <2>1
  <2>3. w[i].time \in Nat
    BY <1>8, <2>1
  <2>4. ~(Len(w) - i < Length) \/ ~(second - w[i].time <= Span)
    BY <2>1, <2>2
  <2>5. Len(w) - i \in Int
    BY <1>7, <2>1
  <2> HIDE DEF fits
  <2> QED BY <1>3, <2>3, <2>4, <2>5
<1>15. M \in SUBSET Nat /\ IsFiniteSet(M) /\ M \in SUBSET DOMAIN past'
  <2>1. IsFiniteSet(M)
    BY <1>5, FS_AddElement
  <2> QED BY <1>1, <1>5, <2>1
<1>16. PICK g : Copies(w, past', M, second, g)
  BY <1>9
<1> PICK v : v = Extended(s, x)
  OBVIOUS
<1>17. PICK h : Copies(v, past', M, second, h)
  <2> HIDE DEF S, fits
  <2>1. w \in Seq(S) /\ first \in DOMAIN w
    BY <1>7, <1>13
  <2>2. \E h : Copies(SubSeq(w, first, Len(w)), past', M, second, h)
    BY <2>1, <1>14, <1>15, <1>16, CopyShrinks
  <2> QED BY <1>12, <2>2
<1>18. /\ v \in Seq(S) /\ v # <<>> /\ DOMAIN v = 1 .. k - first + 1 /\ 1 \in DOMAIN v
       /\ \A i \in DOMAIN v : v[i] = w[i + first - 1] /\ i + first - 1 \in DOMAIN w
  <2> HIDE DEF S, fits
  <2>1. /\ w \in Seq(S) /\ Len(w) = k /\ DOMAIN w = 1 .. k /\ first \in Nat /\ 1 <= first
        /\ first <= k /\ v = SubSeq(w, first, k)
    BY <1>7, <1>12, <1>13
  <2>2. DOMAIN v = 1 .. k - first + 1 /\ v \in Seq(S) /\ Len(v) = k - first + 1
    BY <2>1
  <2>3. \A i \in DOMAIN v : v[i] = w[i + first - 1] /\ i + first - 1 \in DOMAIN w
    BY <2>1, <2>2
  <2> QED BY <2>1, <2>2, <2>3
<1>19. \A i \in DOMAIN v : second - v[i].time <= Span
  <2> SUFFICES ASSUME NEW i \in DOMAIN v PROVE second - v[i].time <= Span
    OBVIOUS
  <2>1. h[1] \in M /\ h[i] \in M /\ (1 < i => h[1] < h[i])
        /\ v[1].time = past'[h[1]].time /\ v[i].time = past'[h[i]].time
    BY <1>17, <1>18 DEF Copies
  <2>2. past'[h[1]].time <= past'[h[i]].time
    <3>1. h[1] \in DOMAIN past' /\ h[i] \in DOMAIN past' /\ h[1] \in Nat /\ h[i] \in Nat
      BY <1>15, <2>1
    <3>2. h[1] <= h[i]
      <4>1. i = 1 \/ 1 < i
        BY <1>18
      <4> QED BY <2>1, <3>1, <4>1
    <3> QED BY <1>1, <3>1, <3>2 DEF InTime
  <2>3. second - v[1].time <= Span
    <3>1. v[1] = w[first]
      <4>1. v[1] = w[1 + first - 1] /\ first \in Nat
        BY <1>13, <1>18
      <4>2. 1 + first - 1 = first
        BY <4>1
      <4> QED BY <4>1, <4>2
    <3> QED BY <1>21, <3>1
  <2>4. v[1].time \in Nat /\ v[i].time \in Nat
    BY <1>8, <1>18
  <2> QED BY <1>3, <2>1, <2>2, <2>3, <2>4
<1> QED BY <1>17, <1>18, <1>19

\* After an event each source has a window that holds its recent events, or none of them.
LEMMA DetectCopied ==
  ASSUME FlowInv, InTime, Copied, NEW s \in trial.keys, NEW x \in trial.items, Detect(s, x)
  PROVE  Copied'
<1> PICK n : n = Len(past) + 1
  OBVIOUS
<1>1. /\ UNCHANGED <<trial, second>> /\ trial.table # "flows"
      /\ n \in Nat /\ DOMAIN past = 1 .. n - 1 /\ DOMAIN past' = 1 .. n
      /\ past'[n] = [of |-> s, time |-> second, item |-> x, lost |-> s \notin Tracked(s)]
      /\ \A i \in DOMAIN past : past'[i] = past[i]
  BY DetectPast
<1>2. /\ Extended(s, x) \in Seq([time : Nat, item : trial.items]) /\ Extended(s, x) # <<>>
      /\ \E g : Copies(Extended(s, x), past', Live(s) \cup {n}, second, g)
  BY ExtendedCopied
<1>3. /\ DOMAIN windows' = Tracked(s)
      /\ \A i \in Tracked(s) : windows'[i] = IF i = s THEN Extended(s, x) ELSE windows[i]
  BY DEF Detect
<1>4. \A i \in DOMAIN past' : i = n \/ i \in DOMAIN past
  BY <1>1
<1>5. n \notin DOMAIN past /\ n \in DOMAIN past' /\ \A i \in DOMAIN past : i \in DOMAIN past'
  BY <1>1
<1>6. past'[n].of = s /\ (past'[n].lost <=> s \notin Tracked(s))
  <2>1. past'[n].of = s
    BY <1>1
  <2>2. PICK b : b = (s \notin Tracked(s))
    OBVIOUS
  <2>3. past'[n] = [of |-> s, time |-> second, item |-> x, lost |-> b]
    BY <1>1, <2>2, Zenon
  <2>4. past'[n].lost = b
    BY <2>3
  <2> QED BY <2>1, <2>2, <2>4, Zenon
<1>7. \A r : r # s => Live(r)' = Live(r)
  BY <1>1, <1>4, <1>5, <1>6 DEF Live
<1>8. Live(s)' = IF s \in Tracked(s) THEN Live(s) \cup {n} ELSE Live(s)
  BY <1>1, <1>4, <1>5, <1>6 DEF Live
<1>9. second \in Nat /\ Span \in Nat \ {0}
  BY WindowAssumption DEF FlowInv, FlowType
<1>10. \A i \in DOMAIN past : past[i].time \in Nat /\ i \in Nat
  BY PastTyped
\* A source without a window has old events only, and so has one that goes.
<1>11. ASSUME NEW r \in trial.keys, r \notin Tracked(s), NEW i \in Live(r)
       PROVE  second - past[i].time > Span
  <2>1. CASE r \notin DOMAIN windows
    BY <1>1, <2>1 DEF Copied
  <2>2. CASE r \in DOMAIN windows
    <3>1. IdleSource(r)
      BY <1>11, <2>2 DEF Tracked
    <3>2. /\ windows[r] \in Seq([time : Nat, item : trial.items]) /\ windows[r] # <<>>
          /\ \E g : Copies(windows[r], past, Live(r), second, g)
      BY <1>1, <2>2 DEF Copied
    <3>3. PICK g : Copies(windows[r], past, Live(r), second, g)
      BY <3>2
    <3> PICK k : k = Len(windows[r])
      OBVIOUS
    <3>4. k \in Nat /\ DOMAIN windows[r] = 1 .. k /\ k \in DOMAIN windows[r]
      BY <3>2
    <3>5. second - windows[r][k].time > Span
      BY <3>1, <3>2 DEF IdleSource
    <3>6. /\ g[k] \in Live(r) /\ windows[r][k].time = past[g[k]].time
          /\ \A j \in DOMAIN windows[r] : j < k => g[j] < g[k]
          /\ (\E j \in DOMAIN windows[r] : g[j] = i) \/ i < g[k]
      BY <3>3, <3>4 DEF Copies
    <3>7. g[k] \in DOMAIN past /\ i \in DOMAIN past
      BY <3>6 DEF Live
    <3>8. i <= g[k]
      <4>1. CASE i < g[k]
        BY <4>1, <3>7, <1>10
      <4>2. CASE \E j \in DOMAIN windows[r] : g[j] = i
        <5>1. PICK j \in DOMAIN windows[r] : g[j] = i
          BY <4>2
        <5>2. j = k \/ j < k
          BY <3>4
        <5> QED BY <5>1, <5>2, <3>6, <3>7, <1>10
      <4> QED BY <4>1, <4>2, <3>6
    <3>9. past[i].time <= past[g[k]].time
      BY <3>7, <3>8 DEF InTime
    <3> QED BY <1>9, <1>10, <3>5, <3>6, <3>7, <3>9
  <2> QED BY <2>1, <2>2
<1> SUFFICES ASSUME NEW r \in trial.keys
             PROVE  /\ r \in Tracked(s) =>
                         /\ windows'[r] \in Seq([time : Nat, item : trial.items])
                         /\ windows'[r] # <<>>
                         /\ \E g : Copies(windows'[r], past', Live(r)', second, g)
                    /\ r \notin Tracked(s) => \A i \in Live(r)' : second - past'[i].time > Span
  BY <1>1, <1>3 DEF Copied
<1>12. CASE r \in Tracked(s) /\ r = s
  BY <1>2, <1>3, <1>8, <1>12
<1>13. CASE r \in Tracked(s) /\ r # s
  <2>1. r \in DOMAIN windows /\ windows'[r] = windows[r] /\ Live(r)' = Live(r)
    BY <1>3, <1>7, <1>13 DEF Tracked
  <2>2. PICK g : Copies(windows[r], past, Live(r), second, g)
    BY <1>1, <2>1 DEF Copied
  <2>3. \A l \in Live(r) : past'[l] = past[l]
    BY <1>1 DEF Live
  <2>4. Copies(windows[r], past', Live(r), second, g)
    <3>1. \A i \in DOMAIN windows[r] : g[i] \in Live(r)
      BY <2>2 DEF Copies
    <3> QED BY <2>2, <2>3, <3>1 DEF Copies
  <2> QED BY <1>1, <1>13, <2>1, <2>4 DEF Copied
<1>14. CASE r \notin Tracked(s)
  <2>1. Live(r)' = Live(r)
    BY <1>7, <1>8, <1>14
  <2>2. \A l \in Live(r) : past'[l] = past[l]
    BY <1>1 DEF Live
  <2> QED BY <1>11, <1>14, <2>1, <2>2
<1> QED BY <1>12, <1>13, <1>14

LEMMA ReasonStays ==
  ASSUME UNCHANGED <<trial, second>>, NEW e, NEW D
  PROVE  Reason(e, D)' = Reason(e, D)
<1>1. \A i : (Flooded(e, D, i)' <=> Flooded(e, D, i)) /\ (Scanned(e, D, i)' <=> Scanned(e, D, i))
  BY DEF Flooded, Scanned, NotBefore
<1>2. Ports(e, D)' = Ports(e, D)
  BY <1>1 DEF Ports
<1> QED BY <1>2 DEF Reason, Names

LEMMA DetectExact ==
  ASSUME FlowInv, InTime, Copied, NEW s \in trial.keys, NEW x \in trial.items, Detect(s, x)
  PROVE  VerdictExact'
<1> PICK n : n = Len(past) + 1
  OBVIOUS
<1>1. /\ UNCHANGED <<trial, second>> /\ trial.table # "flows"
      /\ n \in Nat /\ DOMAIN past = 1 .. n - 1 /\ DOMAIN past' = 1 .. n /\ Len(past') = n
      /\ past'[n] = [of |-> s, time |-> second, item |-> x, lost |-> s \notin Tracked(s)]
      /\ past'[n] \in [of : trial.keys, time : Nat, item : trial.items \cup Int, lost : BOOLEAN]
      /\ \A i \in DOMAIN past : past'[i] = past[i]
      /\ InTime'
  BY DetectPast
<1> PICK v : v = Extended(s, x)
  OBVIOUS
<1>2. /\ v \in Seq([time : Nat, item : trial.items])
      /\ \E g : Copies(v, past', Live(s) \cup {n}, second, g)
      /\ \A i \in DOMAIN v : second - v[i].time <= Span
  BY ExtendedCopied
<1> PICK M : M = Live(s) \cup {n}
  OBVIOUS
<1>3. PICK g : Copies(v, past', M, second, g)
  BY <1>2
<1>4. verdict'.of = s /\ verdict'.is = Reason(v, DOMAIN v)
  BY DEF Detect
<1>5. /\ \A i \in DOMAIN past : past[i].time \in Nat /\ i \in Nat
      /\ Live(s) \in SUBSET DOMAIN past /\ IsFiniteSet(Live(s))
      /\ second \in Nat
  BY PastTyped, LiveFinite DEF FlowInv, FlowType
<1>6. M \in SUBSET DOMAIN past' /\ IsFiniteSet(M) /\ M \in SUBSET Nat
  <2>1. IsFiniteSet(M)
    BY <1>5, FS_AddElement
  <2> QED BY <1>1, <1>5, <2>1
<1>7. past'[n].of = s /\ past'[n].time = second
  BY <1>1
<1>8. \A l \in DOMAIN past' : past'[l].time \in Nat
  <2>1. \A l \in DOMAIN past' : l = n \/ l \in DOMAIN past
    BY <1>1
  <2> QED BY <1>1, <1>5, <1>7, <2>1
<1>9. Recent' = {l \in M : second - past'[l].time <= Span}
  <2>1. Recent' = {i \in DOMAIN past' : /\ past'[i].of = s /\ second - past'[i].time <= Span
                                        /\ past'[i].lost => i = n}
    BY <1>1, <1>4 DEF Recent
  <2>2. \A i \in DOMAIN past' : i \in M <=> past'[i].of = s /\ (past'[i].lost => i = n)
    <3> SUFFICES ASSUME NEW i \in DOMAIN past'
                 PROVE  i \in M <=> past'[i].of = s /\ (past'[i].lost => i = n)
      OBVIOUS
    <3>1. CASE i = n
      BY <3>1, <1>7
    <3>2. CASE i # n
      <4>1. i \in DOMAIN past /\ past'[i] = past[i]
        BY <3>2, <1>1
      <4> QED BY <3>2, <4>1 DEF Live
    <3> QED BY <3>1, <3>2
  <2> QED BY <1>6, <2>1, <2>2
<1> SUFFICES ASSUME Cardinality(Recent') <= Length
             PROVE  verdict'.is = Reason(past, Recent)'
  BY DEF VerdictExact
<1>20. PICK R : R = Recent'
  OBVIOUS
<1>21. PICK e : e = past'
  OBVIOUS
<1>10. R = {l \in M : second - e[l].time <= Span} /\ Cardinality(R) <= Length
  BY <1>9, <1>20, <1>21
<1>11. \A l, m \in M : l <= m => e[l].time <= e[m].time
  BY <1>1, <1>6, <1>21 DEF InTime
<1>12. {g[i] : i \in DOMAIN v} = R
  <2>1. Copies(v, e, M, second, g)
    BY <1>3, <1>21
  <2>2. RecentAre(e, M, second, R)
    BY <1>6, <1>8, <1>10, <1>11, <1>21 DEF RecentAre
  <2>3. Fresh(v, second)
    BY <1>2 DEF Fresh
  <2>4. Covers(v, g, R)
    <3>1. M \in SUBSET Nat /\ IsFiniteSet(M) /\ second \in Nat /\ Cardinality(R) <= Length
      BY <1>5, <1>6, <1>10
    <3> QED BY <2>1, <2>2, <2>3, <3>1, CopyIsRecent
  <2> QED BY <2>4 DEF Covers
<1>13. Reason(v, DOMAIN v) = Reason(e, R)
  <2>1. DOMAIN v \in SUBSET Nat /\ IsFiniteSet(DOMAIN v)
    <3>1. DOMAIN v = 1 .. Len(v) /\ Len(v) \in Nat
      BY <1>2
    <3>2. IsFiniteSet(1 .. Len(v))
      BY <3>1, FS_Interval
    <3> QED BY <3>1, <3>2
  <2>2. /\ g \in [DOMAIN v -> Nat]
        /\ \A i, j \in DOMAIN v : i < j => g[i] < g[j]
        /\ \A i \in DOMAIN v : v[i].time = e[g[i]].time /\ v[i].item = e[g[i]].item
    BY <1>3, <1>6, <1>21 DEF Copies
  <2>3. Reason(v, DOMAIN v) = Reason(e, {g[i] : i \in DOMAIN v})
    BY <2>1, <2>2, SameReason
  <2> QED BY <1>12, <2>3
<1>14. Reason(past, Recent)' = Reason(e, R)
  <2>1. Reason(e, R)' = Reason(e, R)
    BY <1>1, ReasonStays
  <2>2. Reason(past, Recent)' = Reason(e, R)'
    BY <1>20, <1>21
  <2> QED BY <2>1, <2>2
<1> QED BY <1>4, <1>13, <1>14

\* Time goes on and packets of the other tables come.
LEMMA CopiesStay ==
  ASSUME FlowInv, CopyInv, UNCHANGED <<trial, windows, past, verdict>>,
         second' \in Nat, second' = second + 1 \/ second' = second
  PROVE  CopyInv'
<1>1. /\ second \in Nat /\ Span \in Nat
      /\ \A i \in DOMAIN past : past[i].time \in Nat
  BY PastTyped, WindowAssumption DEF FlowInv, FlowType
<1>2. InTime'
  BY <1>1 DEF CopyInv, InTime
<1>3. \A i \in DOMAIN past : second - past[i].time > Span => second' - past'[i].time > Span
  BY <1>1
<1>4. Copied'
  <2> SUFFICES ASSUME trial.table # "flows", NEW s \in trial.keys
               PROVE  /\ s \in DOMAIN windows =>
                           /\ windows[s] \in Seq([time : Nat, item : trial.items])
                           /\ windows[s] # <<>>
                           /\ \E g : Copies(windows[s], past, Live(s), second', g)
                      /\ s \notin DOMAIN windows =>
                           \A i \in Live(s)' : second' - past'[i].time > Span
    BY DEF Copied, Live
  <2>1. Live(s) \subseteq DOMAIN past /\ Live(s)' = Live(s)
    BY DEF Live
  <2>2. ASSUME s \in DOMAIN windows
        PROVE  \E g : Copies(windows[s], past, Live(s), second', g)
    <3>1. PICK g : Copies(windows[s], past, Live(s), second, g)
      BY <2>2 DEF CopyInv, Copied
    <3>2. Copies(windows[s], past, Live(s), second', g)
      BY <1>3, <2>1, <3>1 DEF Copies
    <3> QED BY <3>2
  <2> QED BY <1>3, <2>1, <2>2 DEF CopyInv, Copied
<1>5. VerdictExact'
  <2>1. CASE second' = second
    <3>1. Recent' = Recent
      BY <2>1 DEF Recent
    <3>3. Reason(past, Recent)' = Reason(past, Recent)
      <4> PICK e : e = past
        OBVIOUS
      <4> PICK D : D = Recent
        OBVIOUS
      <4>1. Reason(e, D)' = Reason(e, D)
        BY <2>1, ReasonStays
      <4>2. Reason(past, Recent)' = Reason(e, D)'
        BY <3>1
      <4> QED BY <4>1, <4>2
    <3> QED BY <2>1, <3>1, <3>3 DEF CopyInv, VerdictExact
  <2>2. CASE second' = second + 1
    <3>1. past # <<>> => past[Len(past)].time <= second /\ past[Len(past)].time \in Nat
      <4>1. past # <<>> => Len(past) \in DOMAIN past
        BY PastTyped
      <4> QED BY <4>1, <1>1 DEF CopyInv, InTime
    <3>2. ~(past' # <<>> /\ past'[Len(past')].time = second')
      BY <2>2, <3>1, <1>1
    <3> QED BY <3>2 DEF VerdictExact
  <2> QED BY <2>1, <2>2
<1> QED BY <1>2, <1>4, <1>5 DEF CopyInv

\* The flows are not about windows.
LEMMA UpdateFlowCopied ==
  ASSUME FlowInv, CopyInv, NEW f \in trial.keys, NEW d \in 0 .. trial.late,
         UpdateFlow(f, second - d)
  PROVE  CopyInv'
<1> PICK n : n = Len(past) + 1
  OBVIOUS
<1> PICK e : e = [of |-> f, time |-> second, item |-> second - d, lost |-> FALSE]
  OBVIOUS
<1>1. UNCHANGED <<trial, second>> /\ trial.table = "flows" /\ past' = past \o <<e>>
  BY DEF UpdateFlow
<1>2. second \in Nat /\ trial.late \in Nat
  BY WindowAssumption DEF FlowInv, FlowType
<1>3. e \in [of : trial.keys, time : Nat, item : trial.items \cup Int, lost : BOOLEAN]
  BY <1>2
<1>4. e.time = second /\ second' = second
  BY <1>1
<1>5. InTime'
  BY <1>1, <1>3, <1>4, PastInTime DEF CopyInv
<1> QED BY <1>1, <1>5 DEF CopyInv, Copied, VerdictExact

\* The reason given for a packet is that of all recent packets of its source, however many
\* sources were evicted in between, for every window, threshold and capacity: what is not
\* in a window is old, or was pushed out by as many as fit.
THEOREM VerdictsAreExact == WindowSpec => []VerdictExact
<1>1. WindowInit => FlowInv /\ CopyInv
  <2> SUFFICES ASSUME WindowInit PROVE FlowInv /\ CopyInv
    OBVIOUS
  <2>1. FlowInv
    BY DEF WindowInit, FlowInv, FlowType, SeenInv, PacketsInv, FlowKept, PacketsOf
  <2>2. past = <<>> /\ windows = <<>> /\ DOMAIN past = {} /\ DOMAIN windows = {}
    BY DEF WindowInit
  <2> QED BY <2>1, <2>2 DEF CopyInv, InTime, Copied, Live, VerdictExact
<1>2. FlowInv /\ CopyInv /\ [WindowNext]_windowVars => FlowInv' /\ CopyInv'
  <2> SUFFICES ASSUME FlowInv, CopyInv, [WindowNext]_windowVars
               PROVE  FlowInv' /\ CopyInv'
    OBVIOUS
  <2>1. CASE WindowTick \/ UNCHANGED windowVars
    <3>1. second \in Nat
      BY DEF FlowInv, FlowType
    <3>2. /\ UNCHANGED <<trial, past, flows, verdict, inserts, windows>>
          /\ second' \in Nat /\ second' >= second
          /\ second' = second + 1 \/ second' = second
      BY <2>1, <3>1 DEF WindowTick, windowVars
    <3> QED BY <3>2, FlowsStay, CopiesStay
  <2>2. ASSUME NEW s \in trial.keys, NEW x \in trial.items, Detect(s, x)
        PROVE  FlowInv' /\ CopyInv'
    <3>1. InTime'
      BY <2>2, DetectPast DEF CopyInv
    <3>2. Copied' /\ VerdictExact'
      BY <2>2, DetectCopied, DetectExact DEF CopyInv
    <3> QED BY <2>2, <3>1, <3>2, DetectFlowInv DEF CopyInv
  <2>3. ASSUME NEW f \in trial.keys, NEW d \in 0 .. trial.late, UpdateFlow(f, second - d)
        PROVE  FlowInv' /\ CopyInv'
    BY <2>3, UpdateFlowInv, UpdateFlowCopied
  <2> QED BY <2>1, <2>2, <2>3 DEF WindowNext
<1>3. FlowInv /\ CopyInv => VerdictExact
  BY DEF CopyInv
<1> QED BY <1>1, <1>2, <1>3, PTL DEF WindowSpec
=============================================================================

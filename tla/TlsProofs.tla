----------------------------- MODULE TlsProofs ------------------------------
(***************************************************************************)
(* Proofs about the TLS side and the tails of logs.  BypassSync, for every *)
(* set of rules, needles, processes and calling threads: types, mutual     *)
(* exclusion of the threads of one process, and the bound on duplicate     *)
(* rules in the chain.  LogTail, for every number of lines and faults: a   *)
(* line of the connect log is handled once.                                *)
(***************************************************************************)
EXTENDS BypassSync, LogTail, Integers, FiniteSetTheorems, TLAPS

\* The processes that are about to insert needle n.
Pending(n) ==
  {p \in Processes : \E c \in Callers : Home[c] = p /\ at[c] = "add" /\ n \in toAdd[c]}

\* _sync_lock: a thread inside sync_iptables is alone in its process.
LockInv == \A c \in Callers : at[c] \in Inside => holder[Home[c]] = {c}

\* Every process inserts a needle only when it has seen none, so copies and
\* pending insertions together are bounded; a failed query lets one more in.
CountInv ==
  \A n \in Needles :
    chain[n] + Cardinality(Pending(n)) <= Cardinality(Processes) + misreads

IInv == TypeOK /\ LockInv /\ CountInv

-----------------------------------------------------------------------------
LEMMA ProcessCount == Cardinality(Processes) \in Nat
  BY BypassAssumption, FS_CardinalityType

LEMMA PendingCount ==
  ASSUME NEW n
  PROVE  /\ IsFiniteSet(Pending(n))
         /\ Cardinality(Pending(n)) \in Nat
         /\ Cardinality(Pending(n)) <= Cardinality(Processes)
<1>1. Pending(n) \in SUBSET Processes
  BY DEF Pending
<1> QED BY <1>1, BypassAssumption, FS_Subset, FS_CardinalityType

\* The same facts about the successor state.
LEMMA PendingCountNext ==
  ASSUME NEW n
  PROVE  /\ IsFiniteSet(Pending(n)')
         /\ Cardinality(Pending(n)') \in Nat
         /\ Cardinality(Pending(n)') <= Cardinality(Processes)
<1>1. Pending(n)' \in SUBSET Processes
  BY DEF Pending
<1> QED BY <1>1, BypassAssumption, FS_Subset, FS_CardinalityType

\* A step that adds no pending insertion, no copy and loses no misread is harmless.
LEMMA CountKept ==
  ASSUME IInv, TypeOK',
         \A n \in Needles : Pending(n)' \subseteq Pending(n) /\ chain'[n] <= chain[n],
         misreads' >= misreads
  PROVE  CountInv'
<1> SUFFICES ASSUME NEW n \in Needles
             PROVE chain'[n] + Cardinality(Pending(n)') <= Cardinality(Processes) + misreads'
  BY DEF CountInv
<1>1. Cardinality(Pending(n)') <= Cardinality(Pending(n))
  BY PendingCount, FS_Subset
<1>2. chain[n] + Cardinality(Pending(n)) <= Cardinality(Processes) + misreads
  BY DEF IInv, CountInv
<1>3. /\ chain[n] \in Nat /\ chain'[n] \in Nat
      /\ misreads \in Nat /\ misreads' \in Nat
  BY DEF IInv, TypeOK
<1> HIDE DEF Pending
<1> QED BY <1>1, <1>2, <1>3, PendingCount, PendingCountNext, ProcessCount

-----------------------------------------------------------------------------
\* Types

LEMMA InitType == Init => TypeOK
  BY BypassAssumption DEF Init, TypeOK

\* Refresh replaces the cache by rules.
LEMMA RefreshType ==
  ASSUME TypeOK, NEW p \in Processes, Refresh(p)
  PROVE  /\ cache' \in [Processes -> SUBSET Rules]
         /\ fresh' \in SUBSET Processes
         /\ failures' \in 0 .. MaxFailures /\ failures' >= failures
  BY BypassAssumption DEF TypeOK, Refresh, Fail, cacheVars

LEMMA NeedlesType ==
  ASSUME NEW rules \in SUBSET Rules
  PROVE  NeedlesOf(rules) \in SUBSET Needles
  BY BypassAssumption DEF NeedlesOf

\* Every step keeps the types.
LEMMA NextType == TypeOK /\ [Next]_vars => TypeOK'
<1> SUFFICES ASSUME TypeOK, [Next]_vars PROVE TypeOK'
  OBVIOUS
<1> USE BypassAssumption DEF TypeOK, Inside
<1>1. ASSUME NEW c \in Callers, NEW r \in Rules, ChangeRule(c, r) PROVE TypeOK'
  BY <1>1 DEF ChangeRule, cacheVars
<1>2. ASSUME NEW c \in Callers, LoopPass(c) PROVE TypeOK'
  BY <1>2 DEF LoopPass, cacheVars, counts
<1>3. CASE StatusPage
  BY <1>3, RefreshType DEF StatusPage, callVars
<1>4. ASSUME NEW p \in Processes, CacheAges(p) PROVE TypeOK'
  BY <1>4 DEF CacheAges, callVars, counts
<1>5. ASSUME NEW p \in Processes, Restart(p) PROVE TypeOK'
  BY <1>5 DEF Restart, Fail
<1>6. ASSUME NEW c \in Callers, Enter(c) PROVE TypeOK'
  <2>1. Home[c] \in Processes
    OBVIOUS
  <2>2. Refresh(Home[c])
    BY <1>6 DEF Enter
  <2>3. cache' \in [Processes -> SUBSET Rules] /\ fresh' \in SUBSET Processes
        /\ failures' \in 0 .. MaxFailures /\ failures' >= failures
    BY <2>1, <2>2, RefreshType
  <2>4. NeedlesOf(cache'[Home[c]]) \in SUBSET Needles
    BY <2>1, <2>3, NeedlesType
  <2>5. /\ toAdd' = [toAdd EXCEPT ![c] = NeedlesOf(cache'[Home[c]])]
        /\ at' = [at EXCEPT ![c] = "query"]
        /\ holder' = [holder EXCEPT ![Home[c]] = {c}]
        /\ UNCHANGED <<db, chain, toDelete, changes, misreads>>
    BY <1>6 DEF Enter
  <2>6. toAdd' \in [Callers -> SUBSET Needles]
    BY <2>4, <2>5
  <2>7. misreads' \in 0 .. failures'
    BY <2>3, <2>5
  <2> QED BY <2>1, <2>3, <2>5, <2>6, <2>7
<1>7. ASSUME NEW c \in Callers, Query(c) PROVE TypeOK'
  BY <1>7 DEF Query, Fail, Installed, cacheVars
<1>8. ASSUME NEW c \in Callers, NEW n \in Needles, Add(c, n) PROVE TypeOK'
  BY <1>8 DEF Add, Fail, cacheVars
<1>9. ASSUME NEW c \in Callers, AddsDone(c) PROVE TypeOK'
  BY <1>9 DEF AddsDone, cacheVars, counts
<1>10. ASSUME NEW c \in Callers, NEW n \in Needles, Delete(c, n) PROVE TypeOK'
  BY <1>10 DEF Delete, Fail, cacheVars
<1>11. ASSUME NEW c \in Callers, Leave(c) PROVE TypeOK'
  BY <1>11 DEF Leave, cacheVars, counts
<1>12. CASE UNCHANGED vars
  BY <1>12 DEF vars, cacheVars, callVars, counts
<1> QED BY <1>1, <1>2, <1>3, <1>4, <1>5, <1>6, <1>7, <1>8, <1>9, <1>10, <1>11, <1>12
        DEF Next, SyncStep

\* The variables keep their types.
THEOREM TypeCorrect == Spec => []TypeOK
<1>1. Init => TypeOK
  BY InitType
<1>2. TypeOK /\ [Next]_vars => TypeOK'
  BY NextType
<1> QED BY <1>1, <1>2, PTL DEF Spec

-----------------------------------------------------------------------------
\* The lock

LEMMA NextLock ==
  ASSUME TypeOK, TypeOK', LockInv, [Next]_vars
  PROVE  LockInv'
<1> USE BypassAssumption DEF TypeOK, LockInv, Inside
<1>1. ASSUME NEW c \in Callers, NEW r \in Rules, ChangeRule(c, r) PROVE LockInv'
  BY <1>1 DEF ChangeRule
<1>2. ASSUME NEW c \in Callers, LoopPass(c) PROVE LockInv'
  BY <1>2 DEF LoopPass
<1>3. CASE StatusPage
  BY <1>3 DEF StatusPage, callVars
<1>4. ASSUME NEW p \in Processes, CacheAges(p) PROVE LockInv'
  BY <1>4 DEF CacheAges, callVars
<1>5. ASSUME NEW p \in Processes, Restart(p) PROVE LockInv'
  BY <1>5 DEF Restart
<1>6. ASSUME NEW c \in Callers, Enter(c) PROVE LockInv'
  <2>1. /\ holder[Home[c]] = {}
        /\ holder' = [holder EXCEPT ![Home[c]] = {c}]
        /\ at' = [at EXCEPT ![c] = "query"]
    BY <1>6 DEF Enter
  <2> SUFFICES ASSUME NEW d \in Callers, at'[d] \in Inside PROVE holder'[Home[d]] = {d}
    OBVIOUS
  <2>2. Home[c] \in Processes /\ Home[d] \in Processes
    OBVIOUS
  <2>3. CASE d = c
    BY <2>1, <2>2, <2>3
  <2>4. CASE d # c
    <3>1. holder[Home[d]] = {d}
      BY <2>1, <2>4
    <3> QED BY <2>1, <2>2, <3>1
  <2> QED BY <2>3, <2>4
<1>7. ASSUME NEW c \in Callers, Query(c) PROVE LockInv'
  BY <1>7 DEF Query
<1>8. ASSUME NEW c \in Callers, NEW n \in Needles, Add(c, n) PROVE LockInv'
  BY <1>8 DEF Add
<1>9. ASSUME NEW c \in Callers, AddsDone(c) PROVE LockInv'
  BY <1>9 DEF AddsDone
<1>10. ASSUME NEW c \in Callers, NEW n \in Needles, Delete(c, n) PROVE LockInv'
  BY <1>10 DEF Delete
<1>11. ASSUME NEW c \in Callers, Leave(c) PROVE LockInv'
  BY <1>11 DEF Leave
<1>12. CASE UNCHANGED vars
  BY <1>12 DEF vars, callVars
<1> QED BY <1>1, <1>2, <1>3, <1>4, <1>5, <1>6, <1>7, <1>8, <1>9, <1>10, <1>11, <1>12
        DEF Next, SyncStep

-----------------------------------------------------------------------------
\* The count

\* A query that answers puts a needle on the list only when no copy is there;
\* one that fails adds at most its own process to the pending ones.
LEMMA QueryCount ==
  ASSUME IInv, TypeOK', NEW c \in Callers, Query(c)
  PROVE  CountInv'
<1> SUFFICES ASSUME NEW n \in Needles
             PROVE chain'[n] + Cardinality(Pending(n)') <= Cardinality(Processes) + misreads'
  BY DEF CountInv
<1>0. /\ chain'[n] = chain[n] /\ chain[n] \in Nat /\ misreads \in Nat /\ misreads' \in Nat
      /\ chain[n] + Cardinality(Pending(n)) <= Cardinality(Processes) + misreads
  BY DEF IInv, TypeOK, CountInv, Query
<1>1. CASE misreads' = misreads /\ toAdd' = [toAdd EXCEPT ![c] = @ \ Installed]
  <2>1. CASE chain[n] > 0
    <3>1. n \notin toAdd'[c]
      BY <1>1, <2>1 DEF IInv, TypeOK, Installed
    <3>2. Pending(n)' \subseteq Pending(n)
      BY <1>1, <3>1 DEF IInv, TypeOK, Pending, Query
    <3>3. Cardinality(Pending(n)') <= Cardinality(Pending(n))
      BY <3>2, PendingCount, FS_Subset
    <3> QED BY <1>0, <1>1, <3>3, PendingCount, PendingCountNext, ProcessCount
  <2>2. CASE ~(chain[n] > 0)
    BY <1>0, <1>1, <2>2, PendingCountNext, ProcessCount
  <2> QED BY <2>1, <2>2
<1>2. CASE misreads' = misreads + 1 /\ UNCHANGED toAdd
  <2>1. Pending(n)' \subseteq Pending(n) \cup {Home[c]}
    BY <1>2 DEF IInv, TypeOK, Pending, Query
  <2>2. /\ IsFiniteSet(Pending(n) \cup {Home[c]})
        /\ Cardinality(Pending(n) \cup {Home[c]}) <= Cardinality(Pending(n)) + 1
    BY PendingCount, FS_AddElement
  <2>3. Cardinality(Pending(n)') <= Cardinality(Pending(n)) + 1
    BY <2>1, <2>2, PendingCount, PendingCountNext, FS_Subset, FS_CardinalityType
  <2> QED BY <1>0, <1>2, <2>3, PendingCount, PendingCountNext, ProcessCount
<1> QED BY <1>1, <1>2 DEF Query

\* An insertion turns a pending process into a copy: the lock makes the caller
\* the only thread of its process that has the needle on its list.
LEMMA AddCount ==
  ASSUME IInv, TypeOK', NEW c \in Callers, NEW k \in Needles, Add(c, k)
  PROVE  CountInv'
<1> SUFFICES ASSUME NEW n \in Needles
             PROVE chain'[n] + Cardinality(Pending(n)') <= Cardinality(Processes) + misreads'
  BY DEF CountInv
<1>0. /\ chain[n] \in Nat /\ chain'[n] \in Nat /\ misreads \in Nat /\ misreads' = misreads
      /\ chain[n] + Cardinality(Pending(n)) <= Cardinality(Processes) + misreads
  BY DEF IInv, TypeOK, CountInv, Add
<1>1. CASE n # k
  <2>1. chain'[n] = chain[n]
    BY <1>1 DEF Add, IInv, TypeOK
  <2>2. Pending(n)' \subseteq Pending(n)
    BY <1>1 DEF Add, IInv, TypeOK, Pending
  <2>3. Cardinality(Pending(n)') <= Cardinality(Pending(n))
    BY <2>2, PendingCount, FS_Subset
  <2> QED BY <1>0, <2>1, <2>3, PendingCount, PendingCountNext, ProcessCount
<1>2. CASE n = k
  <2>1. chain'[n] <= chain[n] + 1
    BY <1>2 DEF Add, IInv, TypeOK, Fail
  <2>2. Home[c] \in Pending(n)
    BY <1>2, BypassAssumption DEF Add, Pending
  <2>3. Pending(n)' \subseteq Pending(n) \ {Home[c]}
    <3> SUFFICES ASSUME NEW d \in Callers, at'[d] = "add", n \in toAdd'[d]
                 PROVE  /\ Home[d] # Home[c]
                        /\ at[d] = "add" /\ n \in toAdd[d]
      BY BypassAssumption DEF Pending
    <3>1. d # c /\ at[d] = "add" /\ n \in toAdd[d]
      BY <1>2 DEF Add, IInv, TypeOK
    <3>2. holder[Home[d]] = {d} /\ holder[Home[c]] = {c}
      BY <3>1 DEF Add, IInv, LockInv, Inside
    <3> QED BY <3>1, <3>2
  <2>4. /\ IsFiniteSet(Pending(n) \ {Home[c]})
        /\ Cardinality(Pending(n) \ {Home[c]}) = Cardinality(Pending(n)) - 1
    BY <2>2, PendingCount, FS_RemoveElement
  <2>5. Cardinality(Pending(n)') <= Cardinality(Pending(n)) - 1
    BY <2>3, <2>4, FS_Subset
  <2> QED BY <1>0, <2>1, <2>5, PendingCount, PendingCountNext, ProcessCount
<1> QED BY <1>1, <1>2

LEMMA NextCount ==
  ASSUME IInv, TypeOK', [Next]_vars
  PROVE  CountInv'
<1> USE BypassAssumption
<1>1. ASSUME NEW c \in Callers, NEW r \in Rules, ChangeRule(c, r) PROVE CountInv'
  BY <1>1, CountKept DEF ChangeRule, Pending, IInv, TypeOK
<1>2. ASSUME NEW c \in Callers, LoopPass(c) PROVE CountInv'
  BY <1>2, CountKept DEF LoopPass, Pending, IInv, TypeOK, counts
<1>3. CASE StatusPage
  BY <1>3, CountKept DEF StatusPage, Pending, IInv, TypeOK, callVars
<1>4. ASSUME NEW p \in Processes, CacheAges(p) PROVE CountInv'
  BY <1>4, CountKept DEF CacheAges, Pending, IInv, TypeOK, callVars, counts
<1>5. ASSUME NEW p \in Processes, Restart(p) PROVE CountInv'
  BY <1>5, CountKept DEF Restart, Pending, IInv, TypeOK
<1>6. ASSUME NEW c \in Callers, Enter(c) PROVE CountInv'
  BY <1>6, CountKept DEF Enter, Pending, IInv, TypeOK
<1>7. ASSUME NEW c \in Callers, Query(c) PROVE CountInv'
  BY <1>7, QueryCount
<1>8. ASSUME NEW c \in Callers, NEW n \in Needles, Add(c, n) PROVE CountInv'
  BY <1>8, AddCount
<1>9. ASSUME NEW c \in Callers, AddsDone(c) PROVE CountInv'
  BY <1>9, CountKept DEF AddsDone, Pending, IInv, TypeOK, counts
<1>10. ASSUME NEW c \in Callers, NEW n \in Needles, Delete(c, n) PROVE CountInv'
  <2>1. \A k \in Needles : chain'[k] <= chain[k]
    BY <1>10 DEF Delete, IInv, TypeOK
  <2> QED BY <1>10, <2>1, CountKept DEF Delete, Pending, IInv, TypeOK
<1>11. ASSUME NEW c \in Callers, Leave(c) PROVE CountInv'
  BY <1>11, CountKept DEF Leave, Pending, IInv, TypeOK, counts
<1>12. CASE UNCHANGED vars
  BY <1>12, CountKept DEF vars, Pending, IInv, TypeOK, callVars, counts
<1> QED BY <1>1, <1>2, <1>3, <1>4, <1>5, <1>6, <1>7, <1>8, <1>9, <1>10, <1>11, <1>12
        DEF Next, SyncStep

LEMMA InitCount == Init => LockInv /\ CountInv
<1> SUFFICES ASSUME Init PROVE LockInv /\ CountInv
  OBVIOUS
<1>1. LockInv
  BY DEF Init, LockInv, Inside
<1>2. ASSUME NEW n \in Needles
      PROVE chain[n] + Cardinality(Pending(n)) <= Cardinality(Processes) + misreads
  BY PendingCount, ProcessCount DEF Init
<1> QED BY <1>1, <1>2 DEF CountInv

\* The inductive invariant.
THEOREM Inductive == Spec => []IInv
<1>1. Init => IInv
  BY InitType, InitCount DEF IInv
<1>2. IInv /\ [Next]_vars => IInv'
  BY NextType, NextLock, NextCount DEF IInv
<1> QED BY <1>1, <1>2, PTL DEF Spec

\* Reconciliation leaves at most one copy of a rule per process in the chain,
\* and one more for each query of the chain that failed.
THEOREM DuplicatesAreBounded == Spec => []DuplicatesBounded
<1>1. IInv => DuplicatesBounded
  <2> SUFFICES ASSUME IInv, NEW n \in Needles
               PROVE  chain[n] <= Cardinality(Processes) + misreads
    BY DEF DuplicatesBounded
  <2>1. chain[n] + Cardinality(Pending(n)) <= Cardinality(Processes) + misreads
    BY DEF IInv, CountInv
  <2>2. chain[n] \in Nat /\ misreads \in Nat
    BY DEF IInv, TypeOK
  <2> QED BY <2>1, <2>2, PendingCount, ProcessCount
<1> QED BY <1>1, Inductive, PTL

-----------------------------------------------------------------------------
\* The tail of the connect log

TailType ==
  /\ file \in 1 .. Files /\ of \in 1 .. file
  /\ size \in Nat /\ position \in Nat /\ left \in Nat
  /\ whole \in [Lines -> Nat] /\ halves \in [Lines -> Nat]
  /\ cut \subseteq Lines /\ blind \subseteq 1 .. Files /\ reread \subseteq 1 .. Files

\* Line i of the log as it is.
This(i) == <<file, i>>

\* How often a line was handled.
Times(l) == whole[l] + halves[l]

\* Nothing of a content to come was handled.
Untold == \A l \in Lines : l[1] > file => Times(l) = 0

\* A position in this content lies in it, and what lies before it was handled.
Handled == \A i \in 1 .. LineCount :
             2 * i <= position /\ This(i) \notin cut => whole[This(i)] > 0
Placed  == file \notin blind /\ of = file => position <= size /\ Handled

\* The next read begins behind everything that was handled.
Reached == IF of = file THEN position ELSE 0
Once ==
  /\ \A l \in Lines : l[1] \notin blind \cup reread => Times(l) <= 1
  /\ file \notin blind \cup reread =>
       \A i \in 1 .. LineCount : Times(This(i)) > 0 => 2 * i - 1 <= Reached

TailInv == TailType /\ Untold /\ Placed /\ Once

LEMMA ThisLine ==
  ASSUME TailType
  PROVE  /\ \A i \in 1 .. LineCount : This(i) \in Lines /\ This(i)[1] = file /\ i \in Nat
         /\ \A l \in Lines : /\ l[1] \in 1 .. Files /\ l[2] \in 1 .. LineCount
                             /\ l[1] = file => l = This(l[2])
                             /\ whole[l] \in Nat /\ halves[l] \in Nat
  BY TailAssumption DEF TailType, This, Lines

\* What a read adds to the counts of a line.
LEMMA MoreIs ==
  ASSUME TailType, NEW count \in [Lines -> Nat], NEW found \in SUBSET (1 .. LineCount)
  PROVE  /\ More(count, found) \in [Lines -> Nat]
         /\ \A l \in Lines : l[1] # file => More(count, found)[l] = count[l]
         /\ \A i \in 1 .. LineCount :
              More(count, found)[This(i)] = IF i \in found THEN count[This(i)] + 1
                                            ELSE count[This(i)]
<1>1. \A l \in Lines : /\ More(count, found)[l] = IF l[1] = file /\ l[2] \in found
                                                  THEN count[l] + 1 ELSE count[l]
                       /\ count[l] \in Nat
  BY DEF More
<1>2. More(count, found) \in [Lines -> Nat]
  <2>1. \A l \in Lines : (IF l[1] = file /\ l[2] \in found THEN count[l] + 1 ELSE count[l]) \in Nat
    BY <1>1
  <2> QED BY <2>1 DEF More
<1>3. \A i \in 1 .. LineCount : This(i)[1] = file /\ This(i)[2] = i /\ This(i) \in Lines
  BY ThisLine DEF This
<1> QED BY <1>1, <1>2, <1>3

LEMMA TailInitInv == TailInit => TailInv
<1> SUFFICES ASSUME TailInit PROVE TailInv
  OBVIOUS
<1> USE TailAssumption DEF TailInit
<1>1. TailType
  BY DEF TailType
<1>2. \A l \in Lines : Times(l) = 0
  BY DEF Times
<1>3. Untold /\ Placed
  BY <1>2 DEF Untold, Placed, Handled
<1>4. Once
  BY <1>1, <1>2, ThisLine DEF Once
<1> QED BY <1>1, <1>3, <1>4 DEF TailInv

\* A content that begins has nothing handled in it, and the position is not in it.
LEMMA EmptiedInv ==
  ASSUME TailInv, Truncate \/ Reboot
  PROVE  TailInv'
<1>1. /\ file < Files /\ file' = file + 1 /\ size' = 0
      /\ \/ position' = position /\ of' = of
         \/ position' = 0 /\ of' = file'
      /\ UNCHANGED <<whole, halves, cut, blind, reread>> /\ left' \in Nat
  BY DEF Truncate, Reboot, handled, spoils, TailInv, TailType
<1>2. file \in Nat /\ of \in 1 .. file /\ position \in Nat /\ Files \in Nat
  BY TailAssumption DEF TailInv, TailType
<1>3. TailType'
  BY <1>1, <1>2 DEF TailInv, TailType
<1>4. \A l \in Lines : Times(l)' = Times(l) /\ l[1] \in Nat
  BY <1>1, ThisLine DEF Times, TailInv
<1>5. \A l \in Lines : l[1] >= file' => Times(l) = 0
  BY <1>1, <1>2, <1>4 DEF TailInv, Untold
<1>6. Untold'
  BY <1>1, <1>2, <1>4, <1>5 DEF Untold
<1>7. Placed'
  <2>1. of' = file' => position' = 0
    BY <1>1, <1>2
  <2>2. \A i \in 1 .. LineCount : ~(2 * i <= 0)
    BY TailAssumption
  <2> QED BY <1>1, <2>1, <2>2 DEF Placed, Handled
<1>8. Once'
  <2>1. \A l \in Lines : l[1] \notin blind' \cup reread' => Times(l)' <= 1
    BY <1>1, <1>4 DEF TailInv, Once
  <2>2. \A i \in 1 .. LineCount : Times(This(i))' = 0
    <3> SUFFICES ASSUME NEW i \in 1 .. LineCount PROVE Times(This(i))' = 0
      OBVIOUS
    <3>1. PICK l \in Lines : l = <<file', i>> /\ l[1] = file'
      <4>1. PICK f \in 1 .. Files : f = file'
        BY <1>3 DEF TailType
      <4>2. <<f, i>> \in Lines
        BY <4>1 DEF Lines
      <4> QED BY <4>1, <4>2
    <3>2. Times(l) = 0
      BY <1>1, <1>2, <1>5, <3>1
    <3> QED BY <1>1, <3>1, <3>2 DEF Times, This
  <2> QED BY <2>1, <2>2 DEF Once
<1> QED BY <1>3, <1>6, <1>7, <1>8 DEF TailInv

\* Steps that handle nothing and stay in this content.
LEMMA QuietInv ==
  ASSUME TailInv, WriteHalf \/ Measure \/ RebootFull \/ UNCHANGED tail
  PROVE  TailInv'
<1>1. /\ UNCHANGED <<file, whole, halves, cut, blind>>
      /\ size' \in Nat /\ size <= size' /\ left' \in Nat
      /\ \/ reread' = reread /\ of' = of /\ position' = position
         \/ reread' = reread /\ of' = of /\ position' = 0 /\ size < position
         \/ reread' = reread \cup {file} /\ of' = file /\ position' = 0
  BY DEF WriteHalf, Measure, RebootFull, tail, handled, spoils, TailInv, TailType
<1>2. /\ file \in 1 .. Files /\ size \in Nat /\ position \in Nat /\ of \in 1 .. file
      /\ Files \in Nat /\ LineCount \in Nat
  BY TailAssumption DEF TailInv, TailType
<1>3. TailType'
  <2>1. position' \in Nat
    BY <1>1, <1>2
  <2>2. file' = file /\ file \in 1 .. file
    BY <1>1, <1>2
  <2>3. of' \in 1 .. file'
    BY <1>1, <1>2, <2>2
  <2>4. reread' \subseteq 1 .. Files
    <3>1. reread \subseteq 1 .. Files
      BY DEF TailInv, TailType
    <3> QED BY <1>1, <1>2, <3>1
  <2>5. UNCHANGED Lines
    BY DEF Lines
  <2> QED BY <1>1, <1>2, <2>1, <2>3, <2>4, <2>5 DEF TailInv, TailType
<1>4. (\A l : Times(l)' = Times(l)) /\ \A i : This(i)' = This(i)
  BY <1>1 DEF Times, This
<1>5. Untold'
  BY <1>1, <1>4 DEF TailInv, Untold
<1>6. Placed'
  <2>1. \A i \in 1 .. LineCount : ~(2 * i <= 0)
    BY <1>2
  <2> QED BY <1>1, <1>2, <1>4, <2>1 DEF TailInv, Placed, Handled
<1>7. Once'
  <2>1. \A l \in Lines : l[1] \notin blind' \cup reread' => Times(l)' <= 1
    BY <1>1, <1>4 DEF TailInv, Once
  <2>2. ASSUME file \notin blind \cup reread', NEW i \in 1 .. LineCount, Times(This(i)) > 0
        PROVE  2 * i - 1 <= Reached'
    <3>1. file \notin blind \cup reread
      BY <1>1, <2>2
    <3>2. 2 * i - 1 <= Reached
      BY <2>2, <3>1 DEF TailInv, Once
    <3>3. of = file => position <= size
      BY <3>1 DEF TailInv, Placed
    <3> QED BY <1>1, <1>2, <2>2, <3>2, <3>3 DEF Reached
  <2> QED BY <1>1, <1>4, <2>1, <2>2 DEF Once
<1> QED BY <1>3, <1>5, <1>6, <1>7 DEF TailInv

LEMMA ReadFailsInv ==
  ASSUME TailInv, ReadFails
  PROVE  TailInv'
<1>1. PICK end \in position .. size : whole' = More(whole, WholeLines(end))
  BY DEF ReadFails
<1>2. /\ UNCHANGED <<file, size, position, of, halves, cut, blind, left>>
      /\ reread' = reread \cup {file}
  BY DEF ReadFails
<1>3. /\ whole' \in [Lines -> Nat]
      /\ \A l \in Lines : l[1] # file => whole'[l] = whole[l]
      /\ \A i \in 1 .. LineCount : /\ whole'[This(i)] = whole[This(i)] + 1
                                      \/ whole'[This(i)] = whole[This(i)]
  BY <1>1, MoreIs DEF WholeLines, TailInv, TailType
<1>4. file \in 1 .. Files /\ file \in Nat
  BY DEF TailInv, TailType
<1>5. TailType'
  BY <1>2, <1>3, <1>4 DEF TailInv, TailType
<1>6. \A i : This(i)' = This(i)
  BY <1>2 DEF This
<1>7. \A l \in Lines : l[1] # file => Times(l)' = Times(l)
  BY <1>2, <1>3 DEF Times
<1>8. Untold'
  BY <1>2, <1>4, <1>7, ThisLine DEF TailInv, Untold
<1>9. Placed'
  <2>1. \A i \in 1 .. LineCount : whole[This(i)] > 0 => whole'[This(i)] > 0
    BY <1>3, ThisLine DEF TailInv
  <2> QED BY <1>2, <1>6, <2>1 DEF TailInv, Placed, Handled
<1>10. Once'
  BY <1>2, <1>7 DEF TailInv, Once
<1> QED BY <1>5, <1>8, <1>9, <1>10 DEF TailInv

LEMMA ReadInv ==
  ASSUME TailInv, Read
  PROVE  TailInv'
<1>1. PICK end : end = IF size > position THEN size ELSE position
  OBVIOUS
<1>2. PICK matched \in SUBSET Begun(end) :
        /\ whole' = More(whole, WholeLines(end)) /\ halves' = More(halves, matched)
        /\ cut' = cut \cup {<<file, i>> : i \in Begun(end) \cup Ended(end)}
        /\ blind' = (IF position > 0 /\ of # file THEN blind \cup {file} ELSE blind)
        /\ position' = end /\ of' = file
        /\ UNCHANGED <<file, size, reread, left>>
  BY <1>1 DEF Read, Told
<1>3. /\ file \in 1 .. Files /\ file \in Nat /\ size \in Nat /\ position \in Nat /\ end \in Nat
      /\ position <= end /\ size <= end /\ LineCount \in Nat /\ of \in Nat
  BY <1>1, TailAssumption DEF TailInv, TailType
<1>4. /\ whole' \in [Lines -> Nat] /\ halves' \in [Lines -> Nat]
      /\ \A l \in Lines : l[1] # file => whole'[l] = whole[l] /\ halves'[l] = halves[l]
      /\ \A i \in 1 .. LineCount :
           /\ whole'[This(i)] = IF i \in WholeLines(end) THEN whole[This(i)] + 1 ELSE whole[This(i)]
           /\ halves'[This(i)] = IF i \in matched THEN halves[This(i)] + 1 ELSE halves[This(i)]
  <2>1. WholeLines(end) \in SUBSET (1 .. LineCount) /\ matched \in SUBSET (1 .. LineCount)
    BY <1>2 DEF WholeLines, Begun
  <2> QED BY <1>2, <2>1, MoreIs DEF TailInv, TailType
<1>5. \A i \in 1 .. LineCount :
        /\ i \in WholeLines(end) <=> position < 2 * i - 1 /\ 2 * i <= end
        /\ i \in Begun(end) => position < 2 * i - 1 /\ 2 * i - 1 <= end /\ i \notin WholeLines(end)
        /\ 2 * i <= end => \/ 2 * i <= position \/ i \in WholeLines(end)
                           \/ i \in Begun(end) \cup Ended(end)
  <2> TAKE i \in 1 .. LineCount
  <2>1. i \in Nat
    OBVIOUS
  <2> QED BY <1>3, <2>1 DEF WholeLines, Begun, Ended, Within
<1>6. /\ \A i : This(i)' = This(i)
      /\ \A i \in Begun(end) \cup Ended(end) : This(i) \in cut'
      /\ cut \subseteq cut' /\ cut' \subseteq Lines
  <2>1. Begun(end) \cup Ended(end) \subseteq 1 .. LineCount
    BY DEF Begun, Ended
  <2>2. \A i \in Begun(end) \cup Ended(end) : This(i) \in Lines
    BY <2>1, ThisLine DEF TailInv
  <2> QED BY <1>2, <2>2 DEF This, TailInv, TailType
<1>7. TailType'
  BY <1>2, <1>3, <1>4, <1>6 DEF TailInv, TailType
<1>8. \A l \in Lines : l[1] # file => Times(l)' = Times(l)
  BY <1>4 DEF Times
<1>9. Untold'
  BY <1>2, <1>3, <1>8, ThisLine DEF TailInv, Untold
\* From where the read began, when this content is not taken for the one before.
<1>10. file \notin blind' =>
         /\ file \notin blind /\ Reached = position
         /\ of = file => position <= size /\ Handled
         /\ of # file => position = 0
  BY <1>2, <1>3 DEF Reached, TailInv, Placed
<1>11. Placed'
  <2> SUFFICES ASSUME file \notin blind'
               PROVE  end <= size /\ Handled'
    BY <1>2 DEF Placed
  <2>1. end <= size
    BY <1>1, <1>3, <1>10
  <2>2. ASSUME NEW i \in 1 .. LineCount, 2 * i <= end, This(i) \notin cut'
        PROVE  whole'[This(i)] > 0
    <3>1. \/ 2 * i <= position
          \/ i \in WholeLines(end)
      BY <1>5, <1>6, <2>2
    <3>2. whole[This(i)] \in Nat /\ This(i) \notin cut /\ i \in Nat
      BY <1>6, <2>2, ThisLine DEF TailInv
    <3>3. CASE 2 * i <= position
      <4>1. of = file
        BY <1>10, <3>2, <3>3
      <4>2. whole[This(i)] > 0
        BY <1>10, <3>2, <3>3, <4>1 DEF Handled
      <4> QED BY <1>4, <3>2, <4>2
    <3>4. CASE i \in WholeLines(end)
      BY <1>4, <3>2, <3>4
    <3> QED BY <3>1, <3>3, <3>4
  <2> QED BY <1>2, <1>6, <2>1, <2>2 DEF Handled
<1>12. Once'
  <2>1. ASSUME file \notin blind' \cup reread, NEW i \in 1 .. LineCount
        PROVE  /\ Times(This(i))' <= 1
               /\ Times(This(i))' > 0 => 2 * i - 1 <= end
    <3>1. /\ Times(This(i)) > 0 => 2 * i - 1 <= position
          /\ Times(This(i)) <= 1
      <4>1. file \notin blind \cup reread /\ Reached = position
        BY <1>10, <2>1
      <4> QED BY <4>1, ThisLine DEF TailInv, Once
    <3>2. /\ whole[This(i)] \in Nat /\ halves[This(i)] \in Nat /\ i \in Nat
          /\ Times(This(i)) = whole[This(i)] + halves[This(i)]
          /\ Times(This(i))' = whole'[This(i)] + halves'[This(i)]
      BY <1>6, ThisLine DEF Times, TailInv
    <3>3. CASE i \in WholeLines(end)
      <4>1. position < 2 * i - 1 /\ 2 * i <= end /\ i \notin matched
        BY <1>2, <1>5, <3>3
      <4> QED BY <1>3, <1>4, <3>1, <3>2, <3>3, <4>1
    <3>4. CASE i \in matched
      <4>1. position < 2 * i - 1 /\ 2 * i - 1 <= end /\ i \notin WholeLines(end)
        BY <1>2, <1>5, <3>4
      <4> QED BY <1>3, <1>4, <3>1, <3>2, <3>4, <4>1
    <3>5. CASE i \notin WholeLines(end) /\ i \notin matched
      <4>1. Times(This(i))' = Times(This(i))
        BY <1>4, <3>2, <3>5
      <4> QED BY <1>3, <3>1, <3>2, <4>1
    <3> QED BY <3>3, <3>4, <3>5
  <2>2. ASSUME NEW l \in Lines, l[1] \notin blind' \cup reread
        PROVE  Times(l)' <= 1
    <3>1. CASE l[1] = file
      <4>1. l = This(l[2]) /\ l[2] \in 1 .. LineCount
        BY <3>1, ThisLine DEF TailInv
      <4>2. PICK i \in 1 .. LineCount : l = This(i)
        BY <4>1
      <4>3. This(i)' = l
        BY <1>6, <4>2
      <4> QED BY <2>1, <2>2, <3>1, <4>2, <4>3
    <3>2. CASE l[1] # file
      <4>1. Times(l) <= 1
        BY <1>2, <2>2 DEF TailInv, Once
      <4> QED BY <1>8, <3>2, <4>1
    <3> QED BY <3>1, <3>2
  <2>3. Reached' = end
    BY <1>2 DEF Reached
  <2> QED BY <1>2, <2>1, <2>2, <2>3 DEF Once
<1> QED BY <1>7, <1>9, <1>11, <1>12 DEF TailInv

LEMMA TailInvariant == TailSpec => []TailInv
<1>1. TailInit => TailInv
  BY TailInitInv
<1>2. TailInv /\ [TailNext]_tail => TailInv'
  BY EmptiedInv, QuietInv, ReadInv, ReadFailsInv DEF TailNext
<1> QED BY <1>1, <1>2, PTL DEF TailSpec

\* A connection is recorded at most once, in full or truncated, and one whose line lies
\* before the position in full, unless a read cut it (SslsplitReader._process_new_lines):
\* however sslsplit writes between the steps of a poll, whatever the reads cut, and however
\* often reads fail, the log is emptied and the process started again. Left out are the
\* contents that a read took for the one before, and for the first part those that were
\* read again from an earlier position.
THEOREM LinesHandledOnce == TailSpec => []LinesOnce
<1>1. TailInv => LinesOnce
  BY DEF TailInv, Once, Placed, Handled, Times, This, LinesOnce
<1> QED BY <1>1, TailInvariant, PTL
=============================================================================

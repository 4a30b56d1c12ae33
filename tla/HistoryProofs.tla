---------------------------- MODULE HistoryProofs ----------------------------
(***************************************************************************)
(* Proofs about the history.  The batches: for every set of rows, however  *)
(* the workers, the writer and the shutdown interleave and whatever        *)
(* transaction fails, no row is written twice, a row is lost only with a   *)
(* failed transaction or at the end of the process, and the batches        *)
(* implement RowFate.  The patterns: whatever windows are recomputed and   *)
(* whatever fails, a pattern rests on rows that were written, and a kind   *)
(* whose window the raw rows outlast loses nothing it counted.             *)
(***************************************************************************)
EXTENDS Analytics, FiniteSetTheorems, TLAPS

Hand == hand["writer"] \cup hand["main"]

\* Every place a row can be is a subset of the rows given, and no row is in two of them.
OnePlace ==
  /\ batch \subseteq sent /\ Hand \subseteq sent /\ Stored \cup failed \subseteq sent
  /\ batch \cap Hand = {}
  /\ hand["writer"] \cap hand["main"] = {}
  /\ (Stored \cup failed) \cap (batch \cup Hand) = {}
  /\ Stored \cap failed = {}

\* What a flush still holds belongs to the tables it has not come to.
Ahead == \A f \in Flushers : \A r \in hand[f] : \E i \in next[f] .. 3 : TableOf[r] = Tables[i]

\* A thread that is not flushing has come to the end of the tables.
AtRest ==
  /\ writer \in {"test", "due", "ended"} => next["writer"] = 4
  /\ phase \in {"up", "stopping"} => next["main"] = 4

BatchInv == BatchTypeOK /\ OnePlace /\ Ahead /\ AtRest /\ RowsOnce /\ LossExplained

LEMMA InHandIsHand == InHand = Hand
  BY DEF InHand, Hand, Flushers

LEMMA BatchInitInv == BatchInit => BatchInv
<1> SUFFICES ASSUME BatchInit PROVE BatchInv
  OBVIOUS
<1>1. BatchTypeOK
  BY DEF BatchInit, BatchTypeOK, Flushers
<1>2. hand["writer"] = {} /\ hand["main"] = {} /\ Stored = {}
  BY DEF BatchInit, Flushers, Stored
<1>3. OnePlace
  BY <1>2 DEF BatchInit, OnePlace, Hand
<1>4. Ahead /\ AtRest
  BY DEF BatchInit, Ahead, AtRest, Flushers
<1>5. RowsOnce /\ LossExplained
  BY DEF BatchInit, RowsOnce, LossExplained
<1> QED BY <1>1, <1>3, <1>4, <1>5 DEF BatchInv

\* Between two flushes a thread holds no row.
LEMMA NothingHeld ==
  ASSUME BatchInv, NEW f \in Flushers, next[f] = 4
  PROVE  hand[f] = {}
  BY DEF BatchInv, Ahead

\* A worker appends a row.
LEMMA EnqueueInv ==
  ASSUME BatchInv, NEW r \in Rows, Enqueue(r)
  PROVE  BatchInv'
<1> USE DEF BatchInv, Enqueue
<1>1. Stored' = Stored /\ Hand' = Hand /\ InHand' = InHand
  BY DEF Stored, Hand, InHand
<1>2. BatchTypeOK'
  BY DEF BatchTypeOK
<1>3. OnePlace'
  BY <1>1 DEF OnePlace
<1>4. Ahead' /\ AtRest' /\ RowsOnce'
  BY DEF Ahead, AtRest, RowsOnce
<1>5. LossExplained'
  BY <1>1 DEF LossExplained
<1> QED BY <1>2, <1>3, <1>4, <1>5

\* The rows that wait change hands.
LEMMA TakeInv ==
  ASSUME BatchInv, NEW f \in Flushers, next[f] = 4, Take(f), phase # "down",
         UNCHANGED <<stored, sent, failed>>
  PROVE  /\ hand' \in [Flushers -> SUBSET Rows] /\ next' \in [Flushers -> 1 .. 4]
         /\ batch' = {} /\ Hand' = batch \cup Hand /\ Stored' = Stored
         /\ OnePlace' /\ Ahead' /\ RowsOnce'
         /\ sent \subseteq Hand' \cup Stored \cup failed
<1> USE DEF BatchInv, Take
<1>1. hand[f] = {}
  BY NothingHeld
<1>2. hand' \in [Flushers -> SUBSET Rows] /\ next' \in [Flushers -> 1 .. 4] /\ batch' = {}
  BY DEF BatchTypeOK
<1>3. Stored' = Stored
  BY DEF Stored
<1>4. f \in {"writer", "main"}
  BY DEF Flushers
<1>5. Hand' = batch \cup Hand
  BY <1>1, <1>4 DEF Hand, BatchTypeOK, Flushers
<1>6. hand'["writer"] \cap hand'["main"] = {}
  BY <1>4 DEF OnePlace, Hand, BatchTypeOK, Flushers
<1>7. OnePlace'
  BY <1>2, <1>3, <1>5, <1>6 DEF OnePlace
<1>8. Ahead'
  <2> SUFFICES ASSUME NEW g \in Flushers, NEW r \in hand'[g]
               PROVE  \E i \in next'[g] .. 3 : TableOf[r] = Tables[i]
    BY DEF Ahead
  <2>1. CASE g = f
    <3>1. r \in Rows /\ next'[g] = 1
      BY <2>1 DEF BatchTypeOK
    <3> QED BY <3>1, BatchAssumption
  <2>2. CASE g # f
    BY <2>2 DEF Ahead, BatchTypeOK
  <2> QED BY <2>1, <2>2
<1>9. RowsOnce'
  BY DEF RowsOnce
<1>10. sent \subseteq Hand' \cup Stored \cup failed
  BY <1>5, InHandIsHand DEF LossExplained
<1> QED BY <1>2, <1>3, <1>5, <1>7, <1>8, <1>9, <1>10

\* The rows of the table a flush has come to.
Due(f) == {r \in hand[f] : TableOf[r] = Tables[next[f]]}

\* What one write does to the rows: those of its table leave the hand and are stored or failed.
LEMMA WriteMoves ==
  ASSUME BatchInv, NEW f \in Flushers, NEW ok \in BOOLEAN, Write(f, ok)
  PROVE  /\ Due(f) \subseteq hand[f] /\ Due(f) \subseteq Rows
         /\ Hand' = Hand \ Due(f)
         /\ Stored' = (IF ok THEN Stored \cup Due(f) ELSE Stored)
         /\ failed' = (IF ok THEN failed ELSE failed \cup Due(f))
         /\ UNCHANGED <<phase, batch, writer, sent>>
<1> DEFINE rows == Due(f)
<1> USE DEF BatchInv, Write, Due
<1>1. rows \subseteq hand[f] /\ rows \subseteq Rows
  BY DEF BatchTypeOK
<1>2. f \in {"writer", "main"}
  BY DEF Flushers
<1>3. hand' = [hand EXCEPT ![f] = hand[f] \ rows]
  OBVIOUS
<1>4. Hand' = Hand \ rows
  BY <1>1, <1>2, <1>3 DEF Hand, OnePlace, BatchTypeOK, Flushers
<1>5. failed' = (IF ok THEN failed ELSE failed \cup rows)
  OBVIOUS
<1>6. Stored' = (IF ok THEN Stored \cup rows ELSE Stored)
  <2>1. CASE ok
    <3>1. stored' = [r \in Rows |-> IF r \in rows THEN stored[r] + 1 ELSE stored[r]]
      BY <2>1
    <3>2. \A r \in Rows : stored[r] \in Nat
      BY DEF BatchTypeOK
    <3> QED BY <1>1, <2>1, <3>1, <3>2 DEF Stored
  <2>2. CASE ~ok
    BY <2>2 DEF Stored
  <2> QED BY <2>1, <2>2
<1> QED BY <1>1, <1>4, <1>5, <1>6

\* A transaction is committed or rolled back.
LEMMA WriteInv ==
  ASSUME BatchInv, NEW f \in Flushers, NEW ok \in BOOLEAN, Write(f, ok),
         f = "writer" => writer = "writing", f = "main" => phase = "last"
  PROVE  BatchInv'
<1> DEFINE rows == Due(f)
<1>1. /\ rows \subseteq hand[f] /\ rows \subseteq Rows
      /\ Hand' = Hand \ rows
      /\ Stored' = (IF ok THEN Stored \cup rows ELSE Stored)
      /\ failed' = (IF ok THEN failed ELSE failed \cup rows)
      /\ UNCHANGED <<phase, batch, writer, sent>>
  BY WriteMoves
<1>2. /\ rows = {r \in hand[f] : TableOf[r] = Tables[next[f]]}
      /\ next[f] \in 1 .. 3
      /\ stored' = IF ok THEN [r \in Rows |-> IF r \in rows THEN stored[r] + 1 ELSE stored[r]]
                         ELSE stored
      /\ hand' = [hand EXCEPT ![f] = hand[f] \ rows]
      /\ next' = [next EXCEPT ![f] = next[f] + 1]
  BY DEF Write, Due
<1>3. f \in {"writer", "main"} /\ hand[f] \subseteq Hand
  BY DEF Flushers, Hand
<1>4. rows \cap Stored = {} /\ rows \cap failed = {}
  BY <1>1, <1>3 DEF BatchInv, OnePlace
<1>5. BatchTypeOK'
  <2>1. stored' \in [Rows -> Nat]
    BY <1>2 DEF BatchInv, BatchTypeOK
  <2>2. hand' \in [Flushers -> SUBSET Rows]
    BY <1>2 DEF BatchInv, BatchTypeOK
  <2>3. next' \in [Flushers -> 1 .. 4]
    BY <1>2 DEF BatchInv, BatchTypeOK
  <2>4. failed' \subseteq Rows
    BY <1>1 DEF BatchInv, BatchTypeOK
  <2> QED BY <1>1, <2>1, <2>2, <2>3, <2>4 DEF BatchInv, BatchTypeOK
<1>6. OnePlace'
  <2>1. hand'["writer"] \cap hand'["main"] = {}
    BY <1>2, <1>3 DEF BatchInv, BatchTypeOK, OnePlace, Flushers
  <2> HIDE DEF rows
  <2>2. rows \subseteq Hand
    BY <1>1, <1>3
  <2> QED BY <1>1, <1>4, <2>1, <2>2 DEF BatchInv, OnePlace
<1>7. Ahead'
  <2> SUFFICES ASSUME NEW g \in Flushers, NEW r \in hand'[g]
               PROVE  \E i \in next'[g] .. 3 : TableOf[r] = Tables[i]
    BY DEF Ahead
  <2>1. CASE g = f
    <3>1. r \in hand[f] /\ TableOf[r] # Tables[next[f]] /\ next'[g] = next[f] + 1
      BY <1>2, <2>1 DEF BatchInv, BatchTypeOK
    <3>2. PICK i \in next[f] .. 3 : TableOf[r] = Tables[i]
      BY <3>1 DEF BatchInv, Ahead
    <3>3. i # next[f]
      BY <3>1, <3>2
    <3>4. i \in (next[f] + 1) .. 3
      BY <1>2, <3>2, <3>3
    <3> QED BY <3>1, <3>2, <3>4
  <2>2. CASE g # f
    BY <1>2, <2>2 DEF BatchInv, Ahead, BatchTypeOK
  <2> QED BY <2>1, <2>2
<1>8. AtRest'
  BY <1>1, <1>2, <1>3 DEF BatchInv, AtRest, BatchTypeOK, Flushers
<1>9. RowsOnce'
  <2> SUFFICES ASSUME NEW r \in Rows PROVE stored'[r] <= 1
    BY DEF RowsOnce
  <2>1. stored[r] \in Nat /\ stored[r] <= 1
    BY DEF BatchInv, BatchTypeOK, RowsOnce
  <2>2. CASE ok /\ r \in rows
    <3>1. stored[r] = 0
      BY <1>4, <2>1, <2>2 DEF Stored
    <3> QED BY <1>2, <2>2, <3>1
  <2>3. CASE ~(ok /\ r \in rows)
    BY <1>2, <2>1, <2>3
  <2> QED BY <2>2, <2>3
<1>10. LossExplained'
  <2> HIDE DEF rows
  <2> QED BY <1>1, InHandIsHand DEF BatchInv, LossExplained, InHand, Hand, Flushers
<1> QED BY <1>5, <1>6, <1>7, <1>8, <1>9, <1>10 DEF BatchInv

\* The process ends or is killed: nothing waits any more, and nothing else is changed.
LEMMA GoneInv ==
  ASSUME BatchInv, Gone
  PROVE  BatchInv'
<1> USE DEF BatchInv, Gone
<1>1. Stored' = Stored /\ Hand' = {} /\ batch' = {}
  BY DEF Stored, Hand, Flushers
<1>2. BatchTypeOK'
  BY DEF BatchTypeOK
<1>3. OnePlace'
  BY <1>1 DEF OnePlace, Hand, Flushers
<1>4. Ahead' /\ AtRest' /\ RowsOnce' /\ LossExplained'
  BY DEF Ahead, AtRest, RowsOnce, LossExplained, Flushers
<1> QED BY <1>2, <1>3, <1>4

\* Steps that move only the control of a thread.
LEMMA ControlInv ==
  ASSUME BatchInv, WriterTest \/ WriterDone \/ StopSignal
  PROVE  BatchInv'
<1>1. /\ UNCHANGED <<batch, hand, next, stored, sent, failed>>
      /\ UNCHANGED <<Stored, Hand, InHand>>
  BY DEF WriterTest, WriterDone, StopSignal, Stored, Hand, InHand
<1>2. BatchTypeOK' /\ AtRest'
  BY <1>1 DEF BatchInv, BatchTypeOK, AtRest, WriterTest, WriterDone, StopSignal
<1>3. OnePlace' /\ Ahead' /\ RowsOnce'
  BY <1>1 DEF BatchInv, OnePlace, Ahead, RowsOnce
<1>4. LossExplained'
  <2>1. phase' # "down" => phase # "down"
    BY DEF WriterTest, WriterDone, StopSignal
  <2> QED BY <1>1, <2>1 DEF BatchInv, LossExplained
<1> QED BY <1>2, <1>3, <1>4 DEF BatchInv

LEMMA TakesInv ==
  ASSUME BatchInv, WriterTake \/ MainTake
  PROVE  BatchInv'
<1>1. PICK f \in Flushers :
        /\ Take(f) /\ next[f] = 4 /\ phase # "down" /\ UNCHANGED <<stored, sent, failed>>
        /\ \/ f = "writer" /\ writer' = "writing" /\ UNCHANGED phase
           \/ f = "main" /\ phase = "stopping" /\ phase' = "last" /\ UNCHANGED writer
  BY DEF BatchInv, AtRest, WriterTake, MainTake, Flushers
<1>2. /\ hand' \in [Flushers -> SUBSET Rows] /\ next' \in [Flushers -> 1 .. 4]
      /\ batch' = {} /\ Hand' = batch \cup Hand /\ Stored' = Stored
      /\ OnePlace' /\ Ahead' /\ RowsOnce'
      /\ sent \subseteq Hand' \cup Stored \cup failed
  BY <1>1, TakeInv
<1>3. BatchTypeOK'
  BY <1>1, <1>2 DEF BatchInv, BatchTypeOK
<1>4. AtRest'
  BY <1>1 DEF BatchInv, AtRest, BatchTypeOK, Take, Flushers
<1>5. InHand' = Hand'
  BY DEF InHand, Hand, Flushers
<1>6. LossExplained'
  BY <1>1, <1>2, <1>5 DEF LossExplained
<1> QED BY <1>2, <1>3, <1>4, <1>6 DEF BatchInv

LEMMA BatchNextInv == BatchInv /\ [BatchStep]_batchVars => BatchInv'
<1> SUFFICES ASSUME BatchInv, [BatchStep]_batchVars PROVE BatchInv'
  OBVIOUS
<1>1. CASE \E r \in Rows : Enqueue(r)
  BY <1>1, EnqueueInv
<1>2. CASE WriterTest \/ WriterDone \/ StopSignal
  BY <1>2, ControlInv
<1>3. CASE WriterTake \/ MainTake
  BY <1>3, TakesInv
<1>4. CASE WriterWrite
  <2>1. PICK ok \in BOOLEAN : Write("writer", ok)
    BY <1>4 DEF WriterWrite
  <2>2. "writer" \in Flushers /\ writer = "writing"
    BY <1>4 DEF WriterWrite, Flushers
  <2> QED BY <2>1, <2>2, WriteInv
<1>5. CASE MainWrite
  <2>1. PICK ok \in BOOLEAN : Write("main", ok)
    BY <1>5 DEF MainWrite
  <2>2. "main" \in Flushers /\ phase = "last"
    BY <1>5 DEF MainWrite, Flushers
  <2> QED BY <2>1, <2>2, WriteInv
<1>6. CASE Exit \/ Kill
  BY <1>6, GoneInv DEF Exit, Kill
<1>7. CASE UNCHANGED batchVars
  BY <1>7 DEF batchVars, BatchInv, BatchTypeOK, OnePlace, Ahead, AtRest, RowsOnce,
              LossExplained, Stored, Hand, InHand
<1> QED BY <1>1, <1>2, <1>3, <1>4, <1>5, <1>6, <1>7 DEF BatchStep

LEMMA BatchInvariant == BatchSpec => []BatchInv
<1>1. BatchInit => BatchInv
  BY BatchInitInv
<1>2. BatchInv /\ [BatchStep]_batchVars => BatchInv'
  BY BatchNextInv
<1> QED BY <1>1, <1>2, PTL DEF BatchSpec

\* No row is in its table twice, whichever thread flushes it (_FLUSH_LOCK around the copy
\* and the clearing of the lists in flush_batches).
THEOREM WrittenOnce == BatchSpec => []RowsOnce
<1>1. BatchInv => RowsOnce
  BY DEF BatchInv
<1> QED BY <1>1, BatchInvariant, PTL

\* While the engine runs, a row that is neither waiting nor written was in a transaction
\* that failed.
THEOREM LossIsExplained == BatchSpec => []LossExplained
<1>1. BatchInv => LossExplained
  BY DEF BatchInv
<1> QED BY <1>1, BatchInvariant, PTL

-----------------------------------------------------------------------------
\* The refinement

Waiting == batch \cup InHand
Lost    == sent \ (batch \cup InHand \cup Stored)

LEMMA FateInit == BatchInit => Fate!Init
  BY DEF BatchInit, Fate!Init, InHand, Stored, Flushers

\* A write settles the rows of its table and no others.
LEMMA WriteFate ==
  ASSUME BatchInv, NEW f \in Flushers, NEW ok \in BOOLEAN, Write(f, ok)
  PROVE  Fate!Next
<1> DEFINE rows == Due(f)
<1>1. /\ rows \subseteq hand[f] /\ rows \subseteq Rows
      /\ Hand' = Hand \ rows
      /\ Stored' = (IF ok THEN Stored \cup rows ELSE Stored)
      /\ UNCHANGED <<batch, sent>>
  BY WriteMoves
<1>2. InHand = Hand /\ InHand' = Hand'
  BY DEF InHand, Hand, Flushers
<1>3. rows \subseteq Hand
  BY <1>1 DEF Hand, Flushers
<1> HIDE DEF rows
<1>4. rows \cap batch = {} /\ rows \cap Stored = {} /\ rows \subseteq sent
  BY <1>3 DEF BatchInv, OnePlace
<1>5. Waiting' = Waiting \ rows /\ rows \subseteq Waiting
  BY <1>1, <1>2, <1>3, <1>4 DEF Waiting
<1>6. CASE ok
  <2>1. Stored' = Stored \cup rows
    BY <1>1, <1>6
  <2>2. Lost' = Lost
    BY <1>1, <1>2, <1>3, <2>1 DEF Lost
  <2>3. Fate!Write(rows)
    BY <1>5, <2>1, <2>2 DEF Fate!Write, Waiting, Lost
  <2> QED BY <1>1, <2>3 DEF Fate!Next
<1>7. CASE ~ok
  <2>1. Stored' = Stored
    BY <1>1, <1>7
  <2>2. Lost' = Lost \cup rows
    BY <1>1, <1>2, <1>3, <1>4, <2>1 DEF Lost
  <2>3. Fate!Lose(rows)
    BY <1>5, <2>1, <2>2 DEF Fate!Lose, Waiting, Lost
  <2> QED BY <1>1, <2>3 DEF Fate!Next
<1> QED BY <1>6, <1>7

\* Every step of the batches is one of RowFate, or changes nothing it speaks of.
LEMMA FateStep ==
  ASSUME BatchInv, [BatchStep]_batchVars
  PROVE  [Fate!Next]_<<batch, hand, stored, sent>>
<1>1. ASSUME NEW r \in Rows, Enqueue(r) PROVE Fate!Next
  <2>1. InHand' = InHand /\ Stored' = Stored /\ InHand \subseteq sent /\ Stored \subseteq sent
        /\ batch \subseteq sent
    BY <1>1, InHandIsHand DEF Enqueue, InHand, Stored, BatchInv, OnePlace
  <2>2. Fate!Give(r)
    BY <1>1, <2>1 DEF Enqueue, Fate!Give
  <2> QED BY <2>2 DEF Fate!Next
<1>2. ASSUME WriterTake \/ MainTake PROVE Fate!Next
  <2>1. PICK f \in Flushers : /\ Take(f) /\ next[f] = 4 /\ phase # "down"
                              /\ UNCHANGED <<stored, sent, failed>>
    BY <1>2 DEF BatchInv, AtRest, WriterTake, MainTake, Flushers
  <2>2. batch' = {} /\ Hand' = batch \cup Hand /\ Stored' = Stored
    BY <2>1, TakeInv
  <2>3. InHand = Hand /\ InHand' = Hand'
    BY DEF InHand, Hand, Flushers
  <2>4. Fate!Lose({})
    BY <2>1, <2>2, <2>3 DEF Fate!Lose
  <2> QED BY <2>4 DEF Fate!Next
<1>3. ASSUME WriterWrite \/ MainWrite PROVE Fate!Next
  <2>1. PICK f \in Flushers, ok \in BOOLEAN : Write(f, ok)
    BY <1>3 DEF WriterWrite, MainWrite, Flushers
  <2> QED BY <2>1, WriteFate
<1>4. ASSUME Gone PROVE Fate!Next
  <2>1. Stored' = Stored /\ InHand' = {} /\ batch' = {} /\ sent' = sent
    BY <1>4 DEF Gone, Stored, InHand, Flushers
  <2>2. /\ Waiting \subseteq Rows /\ Waiting \subseteq sent /\ Waiting \cap Stored = {}
    BY InHandIsHand DEF BatchInv, BatchTypeOK, OnePlace, Waiting, Hand, Flushers
  <2>3. Waiting' = {} /\ Lost' = Lost \cup Waiting
    BY <2>1, <2>2 DEF Waiting, Lost
  <2>4. Fate!Lose(Waiting)
    BY <2>1, <2>3 DEF Fate!Lose, Waiting, Lost
  <2> QED BY <2>2, <2>4 DEF Fate!Next
<1>5. ASSUME WriterTest \/ WriterDone \/ StopSignal PROVE UNCHANGED <<batch, hand, stored, sent>>
  BY <1>5 DEF WriterTest, WriterDone, StopSignal
<1>6. ASSUME UNCHANGED batchVars PROVE UNCHANGED <<batch, hand, stored, sent>>
  BY <1>6 DEF batchVars
<1> QED BY <1>1, <1>2, <1>3, <1>4, <1>5, <1>6 DEF BatchStep, Exit, Kill

\* The batches implement RowFate: a row waits and is then written once or lost for good.
THEOREM BatchesImplementFate == BatchSpec => ImplementsFate
<1>1. BatchInit => Fate!Init
  BY FateInit
<1>2. BatchInv /\ [BatchStep]_batchVars => [Fate!Next]_<<batch, hand, stored, sent>>
  BY FateStep
<1> QED BY <1>1, <1>2, BatchInvariant, PTL DEF BatchSpec, ImplementsFate

-----------------------------------------------------------------------------
\* The patterns

\* The rows the clock has room for are given; what is counted was written to the packet
\* log; what was purged was written, and is older than raw rows are kept.
Counted == \A k \in Kind, r \in Rows :
             counted[k][r] > 0 => r \in Stored /\ TableOf[r] = "packet_logs"
Purged  == \A r \in purged : r \in Stored /\ stamp[r] < now - RawKeep

HistoryInv == TypeOK /\ BatchInv /\ sent \subseteq bound.rows /\ Counted /\ Purged

LEMMA KindsOf == Kind = {"hourly", "daily", "weekly"}
  BY DEF Kind, Kinds

LEMMA BoundsOf ==
  ASSUME TypeOK
  PROVE  /\ bound.rows \subseteq Rows /\ IsFiniteSet(bound.rows)
         /\ bound.until \in Nat /\ bound.late \in Nat /\ bound.extra \in Nat
  BY AnalyticsAssumption DEF TypeOK

LEMMA BucketEnds ==
  ASSUME NEW k \in Kind, NEW t \in Int
  PROVE  Bucket(k, t) \in Int /\ Bucket(k, t) <= t /\ t < Bucket(k, t) + Width[k]
<1> DEFINE s == IF k = "weekly" THEN Shift ELSE 0
           x == t + s
           w == Width[k]
<1>1. x \in Int /\ w \in Nat \ {0} /\ s \in Int
  BY AnalyticsAssumption
<1>2. Bucket(k, t) = (x \div w) * w - s
  BY DEF Bucket
<1>3. x = t + s
  OBVIOUS
<1> HIDE DEF x, s
<1>4. (x \div w) * w <= x /\ (x \div w) * w \in Int /\ x < (x \div w) * w + w
  <2> HIDE DEF w
  <2>1. x \div w \in Int /\ w * (x \div w) <= x /\ x < w * (x \div w) + w
    BY <1>1
  <2>2. w * (x \div w) = (x \div w) * w
    BY <1>1, <2>1
  <2> QED BY <1>1, <2>1, <2>2
<1> QED BY <1>1, <1>2, <1>3, <1>4

LEMMA LongerType ==
  ASSUME NEW a \in Nat, NEW b \in Nat
  PROVE  Longer(a, b) \in Nat /\ a <= Longer(a, b) /\ b <= Longer(a, b)
  BY DEF Longer

\* A step of the engine is one of the batches.
LEMMA EngineIsBatchStep ==
  ASSUME [Next]_vars
  PROVE  [BatchStep]_batchVars
  BY DEF Next, Arrive, Engine, Tick, WorkerRun, CliRun, Restart, Purge, BatchStep, vars

\* What is written stays written, and nothing but a worker gives rows.
LEMMA StoredStays ==
  ASSUME BatchInv, [BatchStep]_batchVars
  PROVE  Stored \subseteq Stored' /\ (sent' = sent \/ \E r \in Rows : Enqueue(r))
<1>1. CASE \E r \in Rows : Enqueue(r)
  BY <1>1 DEF Enqueue, Stored
<1>2. CASE WriterTest \/ WriterDone \/ StopSignal \/ WriterTake \/ MainTake \/ Exit \/ Kill
  BY <1>2 DEF WriterTest, WriterDone, StopSignal, WriterTake, MainTake, Exit, Kill, Gone, Stored
<1>3. CASE WriterWrite \/ MainWrite
  <2>1. PICK f \in Flushers, ok \in BOOLEAN : Write(f, ok)
    BY <1>3 DEF WriterWrite, MainWrite, Flushers
  <2> QED BY <2>1, WriteMoves
<1>4. CASE UNCHANGED batchVars
  BY <1>4 DEF batchVars, Stored
<1> QED BY <1>1, <1>2, <1>3, <1>4 DEF BatchStep

LEMMA HistoryInitInv == Init => HistoryInv
<1> SUFFICES ASSUME Init PROVE HistoryInv
  OBVIOUS
<1>1. BatchInv
  BY BatchInitInv DEF Init
<1>2. TypeOK
  <2>1. bound.until \in Nat /\ bound.late \in Nat /\ bound.extra \in Nat
    BY AnalyticsAssumption DEF Init, HistInit
  <2>2. 0 \in 0 .. bound.until /\ 0 \in -bound.late .. bound.until /\ 0 \in 0 .. bound.extra
        /\ 0 \in 0 .. Interval
    BY <2>1, AnalyticsAssumption
  <2> QED BY <1>1, <2>2 DEF Init, HistInit, TypeOK, BatchInv
<1>3. sent \subseteq bound.rows /\ Counted /\ Purged
  BY DEF Init, BatchInit, HistInit, Counted, Purged
<1> QED BY <1>1, <1>2, <1>3 DEF HistoryInv

\* A row is given: it was not counted, and its time is one the clock has reached.
LEMMA ArriveInv ==
  ASSUME HistoryInv, NEW r \in Rows, Arrive(r), BatchInv'
  PROVE  HistoryInv'
<1>1. PICK late \in 0 .. bound.late : stamp' = [stamp EXCEPT ![r] = now - late]
  BY DEF Arrive
<1>2. /\ r \in bound.rows /\ r \notin sent /\ sent' = sent \cup {r} /\ Stored' = Stored
      /\ UNCHANGED <<now, purged, counted, rest, extra, wide, bound>>
  BY DEF Arrive, Enqueue, Stored
<1>3. r \notin Stored /\ r \notin purged
  BY <1>2 DEF HistoryInv, BatchInv, OnePlace, Purged
<1>4. stamp' \in [Rows -> -bound.late .. bound.until]
  <2>1. now - late \in -bound.late .. bound.until
    BY BoundsOf DEF HistoryInv, TypeOK
  <2> QED BY <1>1, <2>1 DEF HistoryInv, TypeOK
<1>5. TypeOK'
  BY <1>2, <1>4 DEF HistoryInv, TypeOK, BatchInv
<1>6. Counted'
  BY <1>2 DEF HistoryInv, Counted
<1>7. Purged'
  BY <1>1, <1>2, <1>3 DEF HistoryInv, Purged, TypeOK
<1> QED BY <1>2, <1>5, <1>6, <1>7 DEF HistoryInv

\* The engine writes rows and leaves the history alone.
LEMMA EngineInv ==
  ASSUME HistoryInv, Engine, BatchInv'
  PROVE  HistoryInv'
<1>1. UNCHANGED histVars
  BY DEF Engine
<1>2. Stored \subseteq Stored' /\ sent' = sent
  <2>1. BatchStep /\ \/ WriterTest \/ WriterTake \/ WriterWrite \/ WriterDone
                     \/ MainTake \/ MainWrite \/ Exit \/ StopSignal \/ Kill
    BY DEF Engine, BatchStep
  <2>2. sent' = sent
    BY <2>1 DEF WriterTest, WriterTake, WriterWrite, WriterDone, MainTake, MainWrite, Exit,
                StopSignal, Kill, Gone, Write
  <2> QED BY <2>1, <2>2, StoredStays DEF HistoryInv
<1>3. TypeOK'
  BY <1>1 DEF HistoryInv, TypeOK, histVars, BatchInv
<1>4. Counted' /\ Purged'
  BY <1>1, <1>2 DEF HistoryInv, Counted, Purged, histVars
<1> QED BY <1>1, <1>2, <1>3, <1>4 DEF HistoryInv, histVars

\* One transaction counts rows of the window that are in the packet log, and no others anew.
LEMMA RecomputedType ==
  ASSUME HistoryInv, NEW k \in Kind, NEW r \in Rows, NEW since \in Int
  PROVE  /\ Recomputed(k, since, r) \in Nat
         /\ Recomputed(k, since, r) > 0 => r \in InTable \/ counted[k][r] > 0
<1>1. counted[k][r] \in Nat
  BY DEF HistoryInv, TypeOK
<1> QED BY <1>1 DEF Recomputed

LEMMA SinceType ==
  ASSUME TypeOK, NEW k \in Kind, NEW days \in Nat
  PROVE  /\ now - Longer(Lookback[k], days) \in Int /\ now \in Nat
         /\ Longer(Lookback[k], days) \in Nat
<1>1. Longer(Lookback[k], days) \in Nat
  BY AnalyticsAssumption, LongerType
<1>2. now \in Nat
  BY BoundsOf DEF TypeOK
<1> QED BY <1>1, <1>2

\* What a run makes of the count of a row: what the transaction of its kind gives, or what
\* it was; or nothing, when its bucket has expired.
LEMMA AggregateGives ==
  ASSUME TypeOK, NEW days \in Nat, Aggregate(days)
  PROVE  /\ counted' = [k \in Kind |-> [r \in Rows |-> counted'[k][r]]]
         /\ \A k \in Kind, r \in Rows :
              \/ counted'[k][r] = Recomputed(k, now - Longer(Lookback[k], days), r)
              \/ counted'[k][r] = counted[k][r]
              \/ counted'[k][r] = 0 /\ Expired(k, r)
<1>1. PICK done \in SUBSET Kind :
        LET after == [k \in Kind |-> [r \in Rows |->
                    IF k \in done THEN Recomputed(k, now - Longer(Lookback[k], days), r)
                                  ELSE counted[k][r]]]
        IN \/ counted' = after
           \/ counted' = [k \in Kind |-> [r \in Rows |->
                IF Expired(k, r) THEN 0 ELSE after[k][r]]]
  BY DEF Aggregate
<1> DEFINE New(k, r) == IF k \in done THEN Recomputed(k, now - Longer(Lookback[k], days), r)
                                      ELSE counted[k][r]
<1>2. \/ counted' = [k \in Kind |-> [r \in Rows |-> New(k, r)]]
      \/ counted' = [k \in Kind |-> [r \in Rows |-> IF Expired(k, r) THEN 0 ELSE New(k, r)]]
  BY <1>1
<1>3. \A k \in Kind, r \in Rows :
        \/ counted'[k][r] = New(k, r)
        \/ counted'[k][r] = 0 /\ Expired(k, r)
  <2> HIDE DEF New
  <2> QED BY <1>2
<1>4. counted' = [k \in Kind |-> [r \in Rows |-> counted'[k][r]]]
  <2> HIDE DEF New
  <2> QED BY <1>2
<1> QED BY <1>3, <1>4

\* A run: a count is of a row in the packet log, or was there before.
LEMMA AggregateInv ==
  ASSUME HistoryInv, NEW days \in Nat, Aggregate(days),
         UNCHANGED <<batchVars, now, stamp, purged, bound>>, BatchInv',
         rest' \in 0 .. Interval, extra' \in 0 .. bound.extra, wide' \in Nat
  PROVE  HistoryInv'
<1>1. UNCHANGED <<Stored, sent, InTable>>
  BY DEF batchVars, Stored, InTable
<1>2. /\ counted' = [k \in Kind |-> [r \in Rows |-> counted'[k][r]]]
      /\ \A k \in Kind, r \in Rows :
              \/ counted'[k][r] = Recomputed(k, now - Longer(Lookback[k], days), r)
              \/ counted'[k][r] = counted[k][r]
              \/ counted'[k][r] = 0 /\ Expired(k, r)
  BY AggregateGives DEF HistoryInv
<1>3. \A k \in Kind, r \in Rows :
        counted'[k][r] \in Nat /\ (counted'[k][r] > 0 => r \in InTable \/ counted[k][r] > 0)
  <2> TAKE k \in Kind, r \in Rows
  <2>1. now - Longer(Lookback[k], days) \in Int
    BY SinceType DEF HistoryInv
  <2>2. counted[k][r] \in Nat
    BY DEF HistoryInv, TypeOK
  <2> QED BY <1>2, <2>1, <2>2, RecomputedType
<1>4. counted' \in [Kind -> [Rows -> Nat]]
  BY <1>2, <1>3
<1>5. TypeOK'
  BY <1>4 DEF HistoryInv, TypeOK, BatchInv
<1>6. Counted'
  BY <1>1, <1>3 DEF HistoryInv, Counted, InTable
<1>7. Purged'
  BY <1>1 DEF HistoryInv, Purged
<1> QED BY <1>1, <1>5, <1>6, <1>7 DEF HistoryInv

\* Every step of the engine, the web process and the command line keeps the invariant.
LEMMA HistoryNextInv == HistoryInv /\ [Next]_vars => HistoryInv'
<1> SUFFICES ASSUME HistoryInv, [Next]_vars PROVE HistoryInv'
  OBVIOUS
<1>1. BatchInv'
  BY EngineIsBatchStep, BatchNextInv DEF HistoryInv
<1>2. ASSUME NEW r \in Rows, Arrive(r) PROVE HistoryInv'
  BY <1>1, <1>2, ArriveInv
<1>3. CASE Engine
  BY <1>1, <1>3, EngineInv
<1>4. CASE Tick
  <2>1. now' = now + 1 /\ now' \in 0 .. bound.until /\ UNCHANGED Stored
    BY <1>4, BoundsOf DEF HistoryInv, TypeOK, Tick, Stored, batchVars
  <2>2. rest' \in 0 .. Interval
    BY <1>4, AnalyticsAssumption DEF HistoryInv, TypeOK, Tick
  <2>3. UNCHANGED <<batchVars, stamp, purged, counted, extra, wide, bound>>
    BY <1>4 DEF Tick
  <2>4. TypeOK'
    BY <1>1, <2>1, <2>2, <2>3 DEF HistoryInv, TypeOK, BatchInv
  <2>5. Counted'
    BY <2>1, <2>3 DEF HistoryInv, Counted
  <2>6. Purged'
    <3>1. \A r \in purged : r \in Rows /\ stamp[r] \in Int /\ now \in Int /\ RawKeep \in Int
      BY AnalyticsAssumption, BoundsOf DEF HistoryInv, TypeOK
    <3>2. \A r \in purged : r \in Stored /\ stamp[r] < now' - RawKeep
      BY <2>1, <3>1 DEF HistoryInv, Purged
    <3>3. purged' = purged /\ stamp' = stamp /\ Stored' = Stored
      BY <2>1, <2>3
    <3> QED BY <3>2, <3>3 DEF Purged
  <2> QED BY <1>1, <2>3, <2>4, <2>5, <2>6 DEF HistoryInv, batchVars
<1>5. CASE WorkerRun
  <2>1. rest' \in 0 .. Interval /\ 0 \in Nat
    BY <1>5, AnalyticsAssumption DEF WorkerRun
  <2>2. Aggregate(0) /\ UNCHANGED <<batchVars, now, stamp, purged, extra, wide, bound>>
    BY <1>5 DEF WorkerRun
  <2>3. extra' \in 0 .. bound.extra /\ wide' \in Nat
    BY <2>2 DEF HistoryInv, TypeOK
  <2> QED BY <1>1, <2>1, <2>2, <2>3, AggregateInv
<1>6. ASSUME NEW days \in Backfills, CliRun(days) PROVE HistoryInv'
  <2>1. days \in Nat /\ extra' \in 0 .. bound.extra
    BY <1>6, AnalyticsAssumption, BoundsOf DEF CliRun, HistoryInv, TypeOK
  <2>2. wide' \in Nat
    BY <1>6, <2>1, LongerType DEF CliRun, HistoryInv, TypeOK
  <2>3. Aggregate(days) /\ UNCHANGED <<batchVars, now, stamp, purged, rest, bound>>
    BY <1>6 DEF CliRun
  <2>4. rest' \in 0 .. Interval
    BY <2>3 DEF HistoryInv, TypeOK
  <2> QED BY <1>1, <2>1, <2>2, <2>3, <2>4, AggregateInv
<1>7. CASE Restart
  <2>1. extra' \in 0 .. bound.extra /\ rest' \in 0 .. Interval
    BY <1>7, AnalyticsAssumption, BoundsOf DEF Restart, HistoryInv, TypeOK
  <2>2. UNCHANGED <<batchVars, now, stamp, purged, counted, wide, bound>> /\ UNCHANGED Stored
    BY <1>7 DEF Restart, batchVars, Stored
  <2>3. TypeOK'
    BY <1>1, <2>1, <2>2 DEF HistoryInv, TypeOK, BatchInv
  <2> QED BY <1>1, <2>2, <2>3 DEF HistoryInv, Counted, Purged, batchVars
<1>8. CASE Purge
  <2>1. /\ UNCHANGED <<batchVars, now, stamp, counted, rest, extra, wide, bound>>
        /\ UNCHANGED Stored /\ purged' = purged \cup {r \in InTable : stamp[r] < now - RawKeep}
    BY <1>8 DEF Purge, batchVars, Stored
  <2>2. InTable \subseteq Stored /\ Stored \subseteq Rows
    BY DEF InTable, Stored
  <2>3. TypeOK'
    BY <1>1, <2>1, <2>2 DEF HistoryInv, TypeOK, BatchInv
  <2>4. Counted' /\ Purged'
    BY <2>1, <2>2 DEF HistoryInv, Counted, Purged
  <2> QED BY <1>1, <2>1, <2>3, <2>4 DEF HistoryInv, batchVars
<1>9. CASE UNCHANGED vars
  <2>1. UNCHANGED <<batchVars, now, stamp, purged, counted, rest, extra, wide, bound, Stored>>
    BY <1>9 DEF vars, histVars, batchVars, Stored
  <2>2. TypeOK'
    BY <1>1, <2>1 DEF HistoryInv, TypeOK, BatchInv
  <2> QED BY <1>1, <2>1, <2>2 DEF HistoryInv, Counted, Purged, batchVars
<1> QED BY <1>2, <1>3, <1>4, <1>5, <1>6, <1>7, <1>8, <1>9 DEF Next

LEMMA HistoryInvariant == Spec => []HistoryInv
<1>1. Init => HistoryInv
  BY HistoryInitInv
<1>2. HistoryInv /\ [Next]_vars => HistoryInv'
  BY HistoryNextInv
<1> QED BY <1>1, <1>2, PTL DEF Spec

\* The web process and the command line leave the batches alone: what is proved of the
\* batches holds of the composition.
LEMMA HistoryRunsBatches == Spec => BatchSpec
<1>1. Init => BatchInit
  BY DEF Init
<1>2. [Next]_vars => [BatchStep]_batchVars
  BY EngineIsBatchStep
<1> QED BY <1>1, <1>2, PTL DEF Spec, BatchSpec

\* The tables, the counts and the clock have the values the code gives them.
THEOREM HistoryTypeCorrect == Spec => []TypeOK
<1>1. HistoryInv => TypeOK
  BY DEF HistoryInv
<1> QED BY <1>1, HistoryInvariant, PTL

-----------------------------------------------------------------------------
\* Patterns are real

\* The values of a function on a finite set are no more than the set.
LEMMA ImageBound ==
  ASSUME NEW S, IsFiniteSet(S), NEW f, NEW T, T = {f[x] : x \in S}
  PROVE  IsFiniteSet(T) /\ Cardinality(T) <= Cardinality(S)
<1> DEFINE g == [x \in S |-> f[x]]
<1>1. g \in Surjection(S, T)
  BY DEF Surjection
<1> QED BY <1>1, FS_Surjection

LEMMA StoredFinite ==
  ASSUME HistoryInv
  PROVE  IsFiniteSet(Stored)
<1>1. Stored \subseteq bound.rows
  BY DEF HistoryInv, BatchInv, OnePlace
<1>2. IsFiniteSet(bound.rows)
  BY BoundsOf DEF HistoryInv
<1> QED BY <1>1, <1>2, FS_Subset

\* The day of an event, which its daily bucket determines.
DayOf(r) == stamp[r] \div Width["daily"]

LEMMA DayInBucket ==
  ASSUME HistoryInv, NEW r \in Rows
  PROVE  /\ DayOf(r) \in Int /\ Day(r) = DayOf(r) * Width["daily"]
         /\ Day(r) \div Width["daily"] = DayOf(r)
<1>1. Width["daily"] \in Nat \ {0}
  BY AnalyticsAssumption, KindsOf
<1>2. stamp[r] \in Int
  BY BoundsOf DEF HistoryInv, TypeOK
<1>3. DayOf(r) \in Int
  BY <1>1, <1>2 DEF DayOf
<1>4. Day(r) = DayOf(r) * Width["daily"]
  <2>1. stamp[r] + 0 = stamp[r]
    BY <1>2
  <2>2. DayOf(r) * Width["daily"] - 0 = DayOf(r) * Width["daily"]
    BY <1>1, <1>3
  <2> QED BY <2>1, <2>2 DEF Day, Bucket, DayOf
<1>5. \A x \in Int, w \in Nat \ {0} : (x * w) \div w = x
  OBVIOUS
<1> QED BY <1>1, <1>3, <1>4, <1>5

\* What a dashboard shows of a source was written.
LEMMA ShownStored ==
  ASSUME HistoryInv, NEW back
  PROVE  Shown("daily", back) \subseteq Stored
  BY KindsOf DEF HistoryInv, Counted, Shown

\* Different daily buckets of a source are different days it was seen on.
LEMMA RecurringReal ==
  ASSUME HistoryInv, NEW n \in Nat, NEW back, NEW a \in RecurringActors(back, n)
  PROVE  Cardinality({DayOf(r) : r \in {q \in Stored : Actor[q] = a}}) >= n
<1> DEFINE some == {q \in Shown("daily", back) : Actor[q] = a}
           all  == {q \in Stored : Actor[q] = a}
           days == {DayOf(r) : r \in some}
           buckets == {Day(r) : r \in some}
<1>1. some \subseteq all /\ all \subseteq Rows
  BY ShownStored DEF Stored
<1>2. IsFiniteSet(all)
  BY StoredFinite, FS_Subset
<1>3. IsFiniteSet({DayOf(r) : r \in all})
  <2> DEFINE f == [r \in all |-> DayOf(r)]
             T == {DayOf(r) : r \in all}
  <2>1. T = {f[r] : r \in all}
    OBVIOUS
  <2> HIDE DEF f, T, all
  <2>2. IsFiniteSet(T)
    BY <1>2, <2>1, ImageBound
  <2> QED BY <2>2 DEF T
<1>4. IsFiniteSet(days) /\ Cardinality(days) <= Cardinality({DayOf(r) : r \in all})
  <2>1. days \in SUBSET {DayOf(r) : r \in all}
    BY <1>1
  <2> QED BY <1>3, <2>1, FS_Subset
<1>5. Cardinality(buckets) <= Cardinality(days) /\ IsFiniteSet(buckets)
  <2> DEFINE f == [d \in days |-> d * Width["daily"]]
  <2>1. buckets = {f[d] : d \in days}
    BY <1>1, DayInBucket
  <2> HIDE DEF f, days, buckets
  <2> QED BY <1>4, <2>1, ImageBound
<1>6. Cardinality(buckets) >= n
  BY DEF RecurringActors
<1>7. /\ Cardinality(buckets) \in Nat /\ Cardinality(days) \in Nat
      /\ Cardinality({DayOf(r) : r \in all}) \in Nat
  BY <1>3, <1>4, <1>5, FS_CardinalityType
<1> QED BY <1>4, <1>5, <1>6, <1>7

\* The week of an event, which its daily bucket determines.
WeekOf(r) == (DayOf(r) + EpochWeekday) \div DaysPerWeek

LEMMA PeriodicReal ==
  ASSUME HistoryInv, NEW n \in Nat, NEW back, NEW p \in PeriodicPatterns(back, n)
  PROVE  Cardinality({WeekOf(r) : r \in {q \in Stored : Actor[q] = p[1]}}) >= n
<1> DEFINE some == {r \in {q \in Shown("daily", back) : Actor[q] = p[1]} : Weekday(r) = p[2]}
           all  == {q \in Stored : Actor[q] = p[1]}
<1>1. some \subseteq all /\ all \subseteq Rows
  BY ShownStored DEF Stored
<1>2. IsFiniteSet(all)
  BY StoredFinite, FS_Subset
<1>3. IsFiniteSet({WeekOf(r) : r \in all})
  <2> DEFINE f == [r \in all |-> WeekOf(r)]
             T == {WeekOf(r) : r \in all}
  <2>1. T = {f[r] : r \in all}
    OBVIOUS
  <2> HIDE DEF f, T, all
  <2>2. IsFiniteSet(T)
    BY <1>2, <2>1, ImageBound
  <2> QED BY <2>2 DEF T
<1>4. {Week(r) : r \in some} \in SUBSET {WeekOf(r) : r \in all}
  <2>1. \A r \in some : Week(r) = WeekOf(r)
    BY <1>1, DayInBucket DEF Week, WeekOf
  <2> QED BY <1>1, <2>1
<1>5. Cardinality({Week(r) : r \in some}) >= n
  BY DEF PeriodicPatterns
<1>6. /\ IsFiniteSet({Week(r) : r \in some})
      /\ Cardinality({Week(r) : r \in some}) <= Cardinality({WeekOf(r) : r \in all})
  BY <1>3, <1>4, FS_Subset
<1>7. /\ Cardinality({Week(r) : r \in some}) \in Nat
      /\ Cardinality({WeekOf(r) : r \in all}) \in Nat
  BY <1>3, <1>6, FS_CardinalityType
<1> QED BY <1>5, <1>6, <1>7

\* A source reported as recurring was seen on that many days, and one reported as periodic
\* in that many weeks, however often its events are counted (get_recurring_actors and
\* get_periodic_patterns over the buckets of _aggregate_bucket_type).
THEOREM PatternsAreReal == Spec => []PatternsReal
<1>1. HistoryInv => PatternsReal
  <2> SUFFICES ASSUME HistoryInv PROVE PatternsReal
    OBVIOUS
  <2> SUFFICES ASSUME NEW n \in 1 .. 2, NEW back \in {Lookback["daily"], bound.until}
               PROVE  /\ \A a \in RecurringActors(back, n) :
                           Cardinality({DayOf(r) : r \in {q \in Stored : Actor[q] = a}}) >= n
                      /\ \A p \in PeriodicPatterns(back, n) :
                           Cardinality({WeekOf(r) : r \in {q \in Stored : Actor[q] = p[1]}}) >= n
    BY DEF PatternsReal, DayOf, WeekOf
  <2>1. n \in Nat
    OBVIOUS
  <2> QED BY <2>1, RecurringReal, PeriodicReal
<1> QED BY <1>1, HistoryInvariant, PTL

-----------------------------------------------------------------------------
\* Counts are kept

\* A row that a transaction stops counting lies in its window, and is not in the packet
\* log any more: its bucket starts in the window, and the event is no older than that.
LEMMA Forgotten ==
  ASSUME HistoryInv, NEW k \in Kind, NEW r \in Rows, NEW since \in Int,
         counted[k][r] > 0, Recomputed(k, since, r) = 0
  PROVE  stamp[r] >= since /\ r \in purged
<1>1. counted[k][r] \in Nat /\ stamp[r] \in Int
  BY BoundsOf DEF HistoryInv, TypeOK
<1>2. Bucket(k, stamp[r]) \in Int /\ Bucket(k, stamp[r]) <= stamp[r]
  BY <1>1, BucketEnds
<1>3. Bucket(k, stamp[r]) >= since /\ ~(r \in InTable /\ stamp[r] >= since)
  BY <1>1 DEF Recomputed
<1>4. stamp[r] >= since
  BY <1>1, <1>2, <1>3
<1>5. r \in Stored /\ TableOf[r] = "packet_logs"
  BY DEF HistoryInv, Counted
<1> QED BY <1>3, <1>4, <1>5 DEF InTable

\* A run forgets no row of a kind whose window the raw rows outlast, until it expires.
LEMMA AggregateKeeps ==
  ASSUME HistoryInv, NEW days \in Nat, Aggregate(days), NEW k \in Kind,
         NEW most \in Nat, days <= most, Longer(Lookback[k], most) <= RawKeep,
         NEW r \in Uncounted(k)
  PROVE  Expired(k, r)
<1> DEFINE since == now - Longer(Lookback[k], days)
<1>1. r \in Rows /\ counted[k][r] > 0 /\ counted'[k][r] = 0
  BY DEF Uncounted
<1>2. since \in Int /\ now \in Nat /\ Longer(Lookback[k], days) \in Nat
  BY SinceType DEF HistoryInv
<1>3. Longer(Lookback[k], days) <= RawKeep /\ RawKeep \in Nat
  BY AnalyticsAssumption DEF Longer
<1>4. since >= now - RawKeep
  BY <1>2, <1>3
<1>5. Recomputed(k, since, r) # 0
  <2> SUFFICES ASSUME Recomputed(k, since, r) = 0 PROVE FALSE
    OBVIOUS
  <2>1. stamp[r] >= since /\ r \in purged
    BY <1>1, <1>2, Forgotten
  <2>2. stamp[r] < now - RawKeep /\ stamp[r] \in Int
    BY <1>1, <2>1, BoundsOf DEF HistoryInv, Purged, TypeOK
  <2> HIDE DEF since
  <2> QED BY <1>2, <1>4, <2>1, <2>2, AnalyticsAssumption
<1> HIDE DEF since
<1>6. \/ counted'[k][r] = Recomputed(k, since, r)
      \/ counted'[k][r] = counted[k][r]
      \/ counted'[k][r] = 0 /\ Expired(k, r)
  BY <1>1, AggregateGives DEF HistoryInv, since
<1> QED BY <1>1, <1>5, <1>6

\* Deleting the buckets of a window and inserting them again forgets no event before its
\* pattern expires, for every kind whose windows reach no further back than raw rows are
\* kept (_aggregate_bucket_type, _cleanup_retention and the retention worker).
THEOREM CountsAreKept == Spec => CountKept
<1> DEFINE Act == \A k \in Kind : Longer(Lookback[k], wide') <= RawKeep =>
                     \A r \in Uncounted(k) : Bucket(k, stamp[r]) < now - Keep[k]
<1>1. HistoryInv /\ [Next]_vars => [Act]_vars
  <2> SUFFICES ASSUME HistoryInv, Next,
                      NEW k \in Kind, Longer(Lookback[k], wide') <= RawKeep,
                      NEW r \in Uncounted(k)
               PROVE  Expired(k, r)
    BY DEF Expired
  <2>1. CASE counted' = counted
    BY <2>1 DEF Uncounted
  <2>2. CASE WorkerRun
    <3>1. Aggregate(0) /\ wide' \in Nat /\ 0 \in Nat /\ 0 <= wide'
      BY <2>2 DEF WorkerRun, HistoryInv, TypeOK
    <3> QED BY <3>1, AggregateKeeps
  <2>3. ASSUME NEW days \in Backfills, CliRun(days) PROVE Expired(k, r)
    <3>1. days \in Nat /\ wide \in Nat
      BY AnalyticsAssumption DEF HistoryInv, TypeOK
    <3>2. Aggregate(days) /\ wide' \in Nat /\ days <= wide'
      BY <2>3, <3>1, LongerType DEF CliRun
    <3> QED BY <3>1, <3>2, AggregateKeeps
  <2> QED BY <2>1, <2>2, <2>3
          DEF Next, Arrive, Engine, histVars, Tick, Restart, Purge
<1> QED BY <1>1, HistoryInvariant, PTL DEF Spec, CountKept

-----------------------------------------------------------------------------
\* Counts are bounded

\* An event counted c times, x units after the last window that covers its whole bucket,
\* with z units of the worker's sleep left and e runs out of turn so far: the runs that
\* are still to meet the bucket, w wide, before its end are paid for.
Fits(c, x, z, e, w) ==
  LET left == w - 1 - x - z + Interval
      slack == IF left > 0 THEN left ELSE 0
  IN IF x <= 0 THEN c <= 1
     ELSE Interval * c + slack <= Interval * (1 + e) + w + Interval - 1

Beyond(k, r) == now - Bucket(k, stamp[r]) - Lookback[k]

RunsInv ==
  \A k \in Kind, r \in Rows : Fits(counted[k][r], Beyond(k, r), rest, extra, Width[k])

LEMMA Times ==
  ASSUME NEW i \in Nat, NEW c \in Nat
  PROVE  /\ i * c \in Nat /\ i * (c + 1) = i * c + i /\ i * 0 = 0 /\ i * 1 = i
         /\ c <= 1 => i * c <= i
<1>1. i * c \in Nat /\ i * (c + 1) = i * c + i /\ i * 0 = 0 /\ i * 1 = i
  OBVIOUS
<1>2. ASSUME c <= 1 PROVE i * c <= i
  <2>1. c = 0 \/ c = 1
    BY <1>2
  <2> QED BY <1>1, <2>1
<1> QED BY <1>1, <1>2

LEMMA TimesMonotone ==
  ASSUME NEW i \in Nat, NEW a \in Int, NEW b \in Int, a <= b
  PROVE  i * a <= i * b /\ i * a \in Int /\ i * b \in Int
<1>1. b - a \in Nat /\ i * (b - a) \in Nat /\ i * (b - a) = i * b - i * a
  OBVIOUS
<1>2. i * a \in Int /\ i * b \in Int
  OBVIOUS
<1> QED BY <1>1, <1>2

\* A bucket that was just made anew counts an event at most once.
LEMMA FitsOnce ==
  ASSUME NEW c \in Nat, c <= 1, NEW x \in Int, NEW z \in 0 .. Interval, NEW e \in Nat,
         NEW w \in Nat \ {0}
  PROVE  Fits(c, x, z, e, w)
<1>1. Interval \in Nat \ {0}
  BY AnalyticsAssumption
<1>2. Interval * c <= Interval /\ Interval * c \in Nat
  BY <1>1, Times
<1>3. Interval * (1 + e) >= Interval /\ Interval * (1 + e) \in Nat
  <2>1. Interval * (e + 1) = Interval * e + Interval /\ Interval * e \in Nat
    BY <1>1, Times
  <2>2. 1 + e = e + 1
    OBVIOUS
  <2> QED BY <1>1, <2>1, <2>2
<1> DEFINE a == Interval * c
           b == Interval * (1 + e)
<1>4. a <= Interval /\ a \in Nat /\ b >= Interval /\ b \in Nat
  BY <1>2, <1>3
<1>5. Fits(c, x, z, e, w) <=>
        LET left == w - 1 - x - z + Interval
            slack == IF left > 0 THEN left ELSE 0
        IN IF x <= 0 THEN c <= 1 ELSE a + slack <= b + w + Interval - 1
  BY DEF Fits
<1> HIDE DEF a, b
<1> QED BY <1>1, <1>4, <1>5

\* A unit of time passes: the run to come is as near as it was.
LEMMA FitsTick ==
  ASSUME NEW c \in Nat, NEW x \in Int, NEW z \in 0 .. Interval, NEW e \in Nat,
         NEW w \in Nat \ {0}, Fits(c, x, z, e, w)
  PROVE  Fits(c, x + 1, IF z > 0 THEN z - 1 ELSE 0, e, w)
<1> DEFINE a == Interval * c
           b == Interval * (1 + e)
           y == IF z > 0 THEN z - 1 ELSE 0
<1>1. Interval \in Nat \ {0} /\ a \in Int /\ b \in Int /\ y \in 0 .. Interval
  BY AnalyticsAssumption
<1>2. CASE x <= 0
  <2>1. c <= 1 /\ x + 1 \in Int
    BY <1>2 DEF Fits
  <2> QED BY <1>1, <2>1, FitsOnce
<1>3. CASE ~(x <= 0)
  <2>1. LET left == w - 1 - x - z + Interval
            slack == IF left > 0 THEN left ELSE 0
        IN a + slack <= b + w + Interval - 1
    BY <1>3 DEF Fits
  <2>2. LET left == w - 1 - (x + 1) - y + Interval
            slack == IF left > 0 THEN left ELSE 0
        IN a + slack <= b + w + Interval - 1
    <3> HIDE DEF a, b
    <3> QED BY <1>1, <1>3, <2>1
  <2>3. ~(x + 1 <= 0)
    BY <1>3
  <2> QED BY <2>2, <2>3 DEF Fits
<1> QED BY <1>2, <1>3

\* The worker runs, and counts an event again only between the window's edge and the
\* bucket's end: the next run is an interval away.
LEMMA FitsRun ==
  ASSUME NEW c \in Nat, NEW d \in Nat, NEW x \in Int, NEW e \in Nat, NEW w \in Nat \ {0},
         Fits(c, x, 0, e, w),
         \/ d <= 1
         \/ d = c
         \/ d = c + 1 /\ x > 0 /\ x <= w - 1
  PROVE  Fits(d, x, Interval, e, w)
<1> DEFINE a == Interval * c
           b == Interval * (1 + e)
<1>1. Interval \in Nat \ {0} /\ a \in Int /\ b \in Int /\ Interval \in 0 .. Interval
  BY AnalyticsAssumption
<1>2. CASE d <= 1
  BY <1>1, <1>2, FitsOnce
<1>3. CASE x <= 0 /\ d = c
  BY <1>3 DEF Fits
<1>4. ASSUME ~(x <= 0)
      PROVE  LET left == w - 1 - x - 0 + Interval
                 slack == IF left > 0 THEN left ELSE 0
             IN a + slack <= b + w + Interval - 1
  BY <1>4 DEF Fits
<1>5. CASE ~(x <= 0) /\ d = c
  <2>1. LET left == w - 1 - x - Interval + Interval
            slack == IF left > 0 THEN left ELSE 0
        IN a + slack <= b + w + Interval - 1
    <3> HIDE DEF a, b
    <3> QED BY <1>1, <1>4, <1>5
  <2> QED BY <1>5, <2>1 DEF Fits
<1>6. CASE ~(x <= 0) /\ d = c + 1 /\ x <= w - 1
  <2>1. Interval * d = a + Interval
    BY <1>1, <1>6, Times
  <2>2. LET left == w - 1 - x - Interval + Interval
            slack == IF left > 0 THEN left ELSE 0
        IN a + Interval + slack <= b + w + Interval - 1
    <3> HIDE DEF a, b
    <3> QED BY <1>1, <1>4, <1>6
  <2> QED BY <1>6, <2>1, <2>2 DEF Fits
<1> QED BY <1>2, <1>3, <1>5, <1>6

\* A run out of turn, or a restart, which brings the next run nearer by an interval at most.
LEMMA FitsExtra ==
  ASSUME NEW c \in Nat, NEW d \in Nat, NEW x \in Int, NEW z \in 0 .. Interval, NEW e \in Nat,
         NEW w \in Nat \ {0}, Fits(c, x, z, e, w), NEW y \in {0, z},
         \/ d <= 1
         \/ d = c
         \/ d = c + 1 /\ x > 0 /\ y = z
  PROVE  Fits(d, x, y, e + 1, w)
<1> DEFINE a == Interval * c
           b == Interval * (1 + e)
<1>1. Interval \in Nat \ {0} /\ a \in Int /\ b \in Int /\ y \in 0 .. Interval
  BY AnalyticsAssumption
<1>2. CASE d <= 1
  BY <1>1, <1>2, FitsOnce
<1>3. CASE x <= 0 /\ d = c
  BY <1>3 DEF Fits
<1>4. ASSUME ~(x <= 0)
      PROVE  LET left == w - 1 - x - z + Interval
                 slack == IF left > 0 THEN left ELSE 0
             IN a + slack <= b + w + Interval - 1
  BY <1>4 DEF Fits
<1>5. Interval * (1 + (e + 1)) = b + Interval
  <2>1. 1 + (e + 1) = (1 + e) + 1 /\ 1 + e \in Nat
    OBVIOUS
  <2> QED BY <1>1, <2>1, Times
<1>6. CASE ~(x <= 0) /\ d = c
  <2>1. LET left == w - 1 - x - y + Interval
            slack == IF left > 0 THEN left ELSE 0
        IN a + slack <= b + Interval + w + Interval - 1
    <3> HIDE DEF a, b
    <3> QED BY <1>1, <1>4, <1>6
  <2> QED BY <1>5, <1>6, <2>1 DEF Fits
<1>7. CASE ~(x <= 0) /\ d = c + 1 /\ y = z
  <2>1. Interval * d = a + Interval
    BY <1>1, <1>7, Times
  <2>2. LET left == w - 1 - x - y + Interval
            slack == IF left > 0 THEN left ELSE 0
        IN a + Interval + slack <= b + Interval + w + Interval - 1
    <3> HIDE DEF a, b
    <3> QED BY <1>1, <1>4, <1>7
  <2> QED BY <1>5, <1>7, <2>1, <2>2 DEF Fits
<1> QED BY <1>2, <1>3, <1>6, <1>7

LEMMA FitsBound ==
  ASSUME NEW c \in Nat, NEW x \in Int, NEW z \in 0 .. Interval, NEW e \in Nat,
         NEW w \in Nat \ {0}, Fits(c, x, z, e, w)
  PROVE  c <= 1 + (w + Interval - 1) \div Interval + e
<1>1. Interval \in Nat \ {0}
  BY AnalyticsAssumption
<1> PICK i \in Nat \ {0} : i = Interval
  BY <1>1
<1> PICK m \in Nat : m = w + i - 1
  <2> w + i - 1 \in Nat
    OBVIOUS
  <2> QED OBVIOUS
<1>2. m \div i \in Nat /\ m < i * (m \div i + 1)
  OBVIOUS
<1>3. CASE x <= 0
  BY <1>1, <1>2, <1>3 DEF Fits
<1>4. CASE ~(x <= 0)
  <2>1. i * c <= i * (1 + e) + m
    <3> DEFINE a == i * c
               b == i * (1 + e)
    <3>1. a \in Int /\ b \in Int
      OBVIOUS
    <3>2. LET left == w - 1 - x - z + i
              slack == IF left > 0 THEN left ELSE 0
          IN a + slack <= b + w + i - 1
      BY <1>4 DEF Fits
    <3> HIDE DEF a, b
    <3>3. a <= b + w + i - 1
      BY <3>1, <3>2
    <3> QED BY <3>1, <3>3 DEF a, b
  <2>2. SUFFICES ASSUME c >= 1 + e + (m \div i + 1) PROVE FALSE
    BY <1>2
  <2>3. i * c >= i * (1 + e + (m \div i + 1))
    BY <1>2, <2>2, TimesMonotone
  <2>4. i * (1 + e + (m \div i + 1)) = i * (1 + e) + i * (m \div i + 1)
    BY <1>2
  <2>5. i * c \in Int /\ i * (1 + e) \in Int /\ i * (m \div i + 1) \in Int
    BY <1>2
  <2> QED BY <1>2, <2>1, <2>3, <2>4, <2>5
<1> QED BY <1>3, <1>4

LEMMA CountTypes ==
  ASSUME HistoryInv, NEW k \in Kind, NEW r \in Rows
  PROVE  /\ counted[k][r] \in Nat /\ stamp[r] \in Int /\ now \in Int
         /\ rest \in 0 .. Interval /\ extra \in Nat /\ Beyond(k, r) \in Int
         /\ Width[k] \in Nat \ {0} /\ Lookback[k] \in Nat
         /\ Bucket(k, stamp[r]) \in Int /\ Bucket(k, stamp[r]) <= stamp[r]
         /\ stamp[r] < Bucket(k, stamp[r]) + Width[k]
<1>1. counted[k][r] \in Nat /\ stamp[r] \in Int /\ now \in Int /\ rest \in 0 .. Interval
      /\ extra \in Nat
  BY BoundsOf DEF HistoryInv, TypeOK
<1>2. Width[k] \in Nat \ {0} /\ Lookback[k] \in Nat
  BY AnalyticsAssumption
<1> QED BY <1>1, <1>2, BucketEnds DEF Beyond

\* A run counts an event of a bucket anew, leaves its count, or adds one when the window's
\* edge cuts the bucket: past the last window that covers it, within the bucket's width.
LEMMA RunGives ==
  ASSUME HistoryInv, NEW days \in Nat, Aggregate(days), NEW k \in Kind, NEW r \in Rows
  PROVE  /\ counted'[k][r] \in Nat
         /\ \/ counted'[k][r] <= 1
            \/ counted'[k][r] = counted[k][r]
            \/ /\ counted'[k][r] = counted[k][r] + 1 /\ Beyond(k, r) > 0
               /\ days = 0 => Beyond(k, r) <= Width[k] - 1
<1> DEFINE most == Longer(Lookback[k], days)
<1>1. \/ counted'[k][r] = Recomputed(k, now - most, r)
      \/ counted'[k][r] = counted[k][r]
      \/ counted'[k][r] = 0
  BY AggregateGives DEF HistoryInv
<1>2. most \in Nat /\ Lookback[k] <= most /\ (days = 0 => most = Lookback[k])
  BY CountTypes, LongerType DEF Longer
<1> HIDE DEF most
<1>3. CASE counted'[k][r] = Recomputed(k, now - most, r)
  <2>1. CASE Bucket(k, stamp[r]) >= now - most
    BY <1>3, <2>1 DEF Recomputed
  <2>2. CASE Bucket(k, stamp[r]) < now - most /\ stamp[r] >= now - most /\ r \in InTable
    <3>1. Recomputed(k, now - most, r) = counted[k][r] + 1
      BY <1>2, <2>2, CountTypes DEF Recomputed
    <3>2. Beyond(k, r) > 0
      BY <1>2, <2>2, CountTypes DEF Beyond
    <3>3. days = 0 => Beyond(k, r) <= Width[k] - 1
      BY <1>2, <2>2, CountTypes DEF Beyond
    <3> QED BY <1>3, <3>1, <3>2, <3>3, CountTypes
  <2>3. CASE Bucket(k, stamp[r]) < now - most /\ ~(stamp[r] >= now - most /\ r \in InTable)
    <3>1. Recomputed(k, now - most, r) = counted[k][r]
      BY <1>2, <2>3, CountTypes DEF Recomputed
    <3> QED BY <1>3, <3>1, CountTypes
  <2> QED BY <1>2, <2>1, <2>2, <2>3, CountTypes
<1> QED BY <1>1, <1>3, CountTypes

LEMMA RunsNextInv == HistoryInv /\ RunsInv /\ [Next]_vars => RunsInv'
<1> SUFFICES ASSUME HistoryInv, RunsInv, [Next]_vars, NEW k \in Kind, NEW r \in Rows
             PROVE  Fits(counted[k][r], Beyond(k, r), rest, extra, Width[k])'
  BY DEF RunsInv
<1>1. Fits(counted[k][r], Beyond(k, r), rest, extra, Width[k])
  BY DEF RunsInv
<1>2. /\ counted[k][r] \in Nat /\ Beyond(k, r) \in Int /\ rest \in 0 .. Interval
      /\ extra \in Nat /\ Width[k] \in Nat \ {0}
  BY CountTypes
<1>3. CASE UNCHANGED <<now, stamp, counted, rest, extra>>
  <2>1. Beyond(k, r)' = Beyond(k, r) /\ counted'[k][r] = counted[k][r]
    BY <1>3 DEF Beyond, Bucket
  <2> QED BY <1>1, <1>3, <2>1 DEF Fits
<1>4. ASSUME NEW q \in Rows, Arrive(q) PROVE Fits(counted[k][r], Beyond(k, r), rest, extra, Width[k])'
  <2>1. UNCHANGED <<now, counted, rest, extra>> /\ q \notin sent
    BY <1>4 DEF Arrive, Enqueue
  <2>2. CASE r # q
    <3>1. stamp'[r] = stamp[r]
      BY <1>4, <2>2 DEF Arrive, HistoryInv, TypeOK
    <3> QED BY <1>1, <2>1, <3>1 DEF Fits, Beyond, Bucket
  <2>3. CASE r = q
    <3>1. counted'[k][r] = 0
      <4>1. r \notin Stored
        BY <2>1, <2>3 DEF HistoryInv, BatchInv, OnePlace
      <4> QED BY <1>2, <2>1, <4>1 DEF HistoryInv, Counted
    <3>2. stamp'[r] \in Int
      <4>1. HistoryInv'
        BY HistoryNextInv
      <4>2. TypeOK' /\ bound'.late \in Nat /\ bound'.until \in Nat
        BY <4>1, AnalyticsAssumption DEF HistoryInv, TypeOK
      <4> QED BY <4>2 DEF TypeOK
    <3>3. PICK x \in Int : x = Beyond(k, r)'
      BY <2>1, <3>2, CountTypes, BucketEnds DEF Beyond
    <3> QED BY <1>2, <2>1, <3>1, <3>3, FitsOnce
  <2> QED BY <2>2, <2>3
<1>5. CASE Tick
  <2>1. /\ UNCHANGED <<counted, extra>> /\ rest' = (IF rest > 0 THEN rest - 1 ELSE 0)
        /\ Beyond(k, r)' = Beyond(k, r) + 1
    BY <1>5, CountTypes DEF Tick, Beyond, Bucket
  <2>2. Fits(counted[k][r], Beyond(k, r) + 1, IF rest > 0 THEN rest - 1 ELSE 0, extra, Width[k])
    BY <1>1, <1>2, FitsTick
  <2> QED BY <2>1, <2>2
<1>6. CASE WorkerRun
  <2>1. /\ Aggregate(0) /\ 0 \in Nat /\ rest = 0 /\ rest' = Interval /\ extra' = extra
        /\ Beyond(k, r)' = Beyond(k, r)
    BY <1>6 DEF WorkerRun, Beyond, Bucket
  <2>2. /\ counted'[k][r] \in Nat
        /\ \/ counted'[k][r] <= 1
           \/ counted'[k][r] = counted[k][r]
           \/ /\ counted'[k][r] = counted[k][r] + 1 /\ Beyond(k, r) > 0
              /\ Beyond(k, r) <= Width[k] - 1
    BY <2>1, RunGives
  <2>3. Fits(counted'[k][r], Beyond(k, r), Interval, extra, Width[k])
    BY <1>1, <1>2, <2>1, <2>2, FitsRun
  <2> QED BY <2>1, <2>3
<1>7. ASSUME NEW days \in Backfills, CliRun(days)
      PROVE  Fits(counted[k][r], Beyond(k, r), rest, extra, Width[k])'
  <2>1. /\ Aggregate(days) /\ days \in Nat /\ rest' = rest /\ extra' = extra + 1
        /\ Beyond(k, r)' = Beyond(k, r)
    BY <1>7, AnalyticsAssumption DEF CliRun, Beyond, Bucket
  <2>2. /\ counted'[k][r] \in Nat
        /\ \/ counted'[k][r] <= 1
           \/ counted'[k][r] = counted[k][r]
           \/ counted'[k][r] = counted[k][r] + 1 /\ Beyond(k, r) > 0
    BY <2>1, RunGives
  <2>3. Fits(counted'[k][r], Beyond(k, r), rest, extra + 1, Width[k])
    BY <1>1, <1>2, <2>1, <2>2, FitsExtra
  <2> QED BY <2>1, <2>3
<1>8. CASE Restart
  <2>1. /\ counted' = counted /\ rest' = 0 /\ extra' = extra + 1
        /\ Beyond(k, r)' = Beyond(k, r)
    BY <1>8 DEF Restart, Beyond, Bucket
  <2>2. Fits(counted[k][r], Beyond(k, r), 0, extra + 1, Width[k])
    BY <1>1, <1>2, FitsExtra
  <2> QED BY <2>1, <2>2
<1>9. CASE Engine \/ Purge \/ UNCHANGED vars
  BY <1>3, <1>9 DEF Engine, Purge, vars, histVars
<1> QED BY <1>4, <1>5, <1>6, <1>7, <1>8, <1>9 DEF Next

LEMMA RunsInitInv == Init => RunsInv
<1> SUFFICES ASSUME Init, NEW k \in Kind, NEW r \in Rows
             PROVE  Fits(counted[k][r], Beyond(k, r), rest, extra, Width[k])
  BY DEF RunsInv
<1>1. HistoryInv
  BY HistoryInitInv
<1>2. counted[k][r] = 0
  BY DEF Init, HistInit
<1> QED BY <1>1, <1>2, CountTypes, FitsOnce

\* No pattern counts an event more than once, plus the runs of the worker that meet its
\* bucket after the last window that covers it whole, plus the runs out of turn: a run that
\* finds the whole bucket in its window makes it anew (_aggregate_bucket_type).
THEOREM OverCountIsBounded == Spec => []OverCountBounded
<1>1. HistoryInv /\ RunsInv => OverCountBounded
  <2> SUFFICES ASSUME HistoryInv, RunsInv, NEW k \in Kind, NEW r \in Rows
               PROVE  counted[k][r] <= Bound(k)
    BY DEF OverCountBounded
  <2>1. Fits(counted[k][r], Beyond(k, r), rest, extra, Width[k])
    BY DEF RunsInv
  <2> QED BY <2>1, CountTypes, FitsBound DEF Bound
<1> QED BY <1>1, RunsInitInv, RunsNextInv, HistoryInvariant, PTL DEF Spec

-----------------------------------------------------------------------------
\* Figures

\* An element and one of the times it is counted.
TimesOf(f, S) == UNION {{x} \X (1 .. f[x]) : x \in S}

LEMMA SumFinite ==
  ASSUME NEW S, IsFiniteSet(S), NEW f, NEW b \in Nat,
         \A x \in S : f[x] \in Nat /\ f[x] <= b
  PROVE  /\ IsFiniteSet(TimesOf(f, S)) /\ SumOver(f, S) = Cardinality(TimesOf(f, S))
         /\ SumOver(f, S) \in Nat /\ SumOver(f, S) <= b * Cardinality(S)
<1>1. IsFiniteSet(1 .. b) /\ Cardinality(1 .. b) = b
  BY FS_Interval
<1>2. /\ IsFiniteSet(S \X (1 .. b)) /\ Cardinality(S) \in Nat
      /\ Cardinality(S \X (1 .. b)) = b * Cardinality(S)
  <2>1. Cardinality(S) \in Nat
    BY FS_CardinalityType
  <2>2. Cardinality(S) * b = b * Cardinality(S)
    BY <2>1
  <2>3. /\ IsFiniteSet(S \X (1 .. b))
        /\ Cardinality(S \X (1 .. b)) = Cardinality(S) * Cardinality(1 .. b)
    BY <1>1, FS_Product
  <2> QED BY <1>1, <2>1, <2>2, <2>3
<1>3. TimesOf(f, S) \in SUBSET (S \X (1 .. b))
  <2> SUFFICES ASSUME NEW x \in S, NEW i \in 1 .. f[x]
               PROVE  i \in 1 .. b
    BY DEF TimesOf
  <2> QED OBVIOUS
<1>4. SumOver(f, S) = Cardinality(TimesOf(f, S))
  BY DEF SumOver, TimesOf
<1> QED BY <1>2, <1>3, <1>4, FS_Subset, FS_CardinalityType

\* What is summed over parts that have nothing in common is no more than the whole.
LEMMA PartsSum ==
  ASSUME NEW S, IsFiniteSet(S), NEW f, NEW b \in Nat,
         \A x \in S : f[x] \in Nat /\ f[x] <= b,
         NEW C, NEW P \in [C -> SUBSET S],
         \A c, d \in C : c # d => P[c] \cap P[d] = {},
         NEW g, g = [c \in C |-> SumOver(f, P[c])]
  PROVE  SumOver(g, C) \in Nat /\ SumOver(g, C) <= SumOver(f, S)
<1>1. IsFiniteSet(TimesOf(f, S)) /\ SumOver(f, S) = Cardinality(TimesOf(f, S))
  BY SumFinite
<1>2. ASSUME NEW c \in C
      PROVE  /\ \E e : e \in Bijection(1 .. g[c], TimesOf(f, P[c]))
             /\ TimesOf(f, P[c]) \subseteq TimesOf(f, S)
  <2>1. P[c] \in SUBSET S
    OBVIOUS
  <2>2. IsFiniteSet(P[c]) /\ \A x \in P[c] : f[x] \in Nat /\ f[x] <= b
    BY <2>1, FS_Subset
  <2>3. IsFiniteSet(TimesOf(f, P[c])) /\ g[c] = Cardinality(TimesOf(f, P[c]))
    BY <2>2, SumFinite
  <2>4. ExistsBijection(1 .. g[c], TimesOf(f, P[c]))
    BY <2>3, FS_CardinalityType
  <2>5. TimesOf(f, P[c]) \subseteq TimesOf(f, S)
    BY <2>1 DEF TimesOf
  <2> QED BY <2>4, <2>5 DEF ExistsBijection
<1> DEFINE e(c) == CHOOSE e \in Bijection(1 .. g[c], TimesOf(f, P[c])) : TRUE
           h == [p \in TimesOf(g, C) |-> e(p[1])[p[2]]]
<1>3. \A c \in C : e(c) \in Bijection(1 .. g[c], TimesOf(f, P[c]))
  BY <1>2
<1>4. \A p \in TimesOf(g, C) : p[1] \in C /\ p[2] \in 1 .. g[p[1]] /\ p = <<p[1], p[2]>>
  BY DEF TimesOf
<1> HIDE DEF e
<1>5. \A p \in TimesOf(g, C) : e(p[1])[p[2]] \in TimesOf(f, P[p[1]])
  BY <1>3, <1>4 DEF Bijection, Injection
<1>6. h \in [TimesOf(g, C) -> TimesOf(f, S)]
  BY <1>2, <1>4, <1>5
<1>7. ASSUME NEW p \in TimesOf(g, C), NEW q \in TimesOf(g, C), h[p] = h[q]
      PROVE  p = q
  <2>1. e(p[1])[p[2]] = e(q[1])[q[2]]
    BY <1>7
  <2>2. p[1] = q[1]
    <3>1. PICK x \in P[p[1]] : h[p] \in {x} \X (1 .. f[x])
      BY <1>5 DEF TimesOf
    <3>2. PICK y \in P[q[1]] : h[q] \in {y} \X (1 .. f[y])
      BY <1>5 DEF TimesOf
    <3>3. x = y
      BY <1>7, <3>1, <3>2
    <3> QED BY <1>4, <3>3
  <2>3. p[2] = q[2]
    <3>1. e(p[1]) \in Bijection(1 .. g[p[1]], TimesOf(f, P[p[1]]))
      BY <1>3, <1>4
    <3>2. \A i, j \in 1 .. g[p[1]] : e(p[1])[i] = e(p[1])[j] => i = j
      BY <3>1 DEF Bijection, Injection, IsInjective
    <3> QED BY <1>4, <2>1, <2>2, <3>2
  <2> QED BY <1>4, <2>2, <2>3
<1>8. h \in Injection(TimesOf(g, C), TimesOf(f, S))
  BY <1>6, <1>7 DEF Injection, IsInjective
<1>9. /\ Cardinality(TimesOf(g, C)) <= Cardinality(TimesOf(f, S))
      /\ Cardinality(TimesOf(g, C)) \in Nat
  BY <1>1, <1>8, FS_Injection, FS_CardinalityType
<1> QED BY <1>1, <1>9 DEF SumOver, TimesOf

\* An event has one category at most.
LEMMA OneCategory ==
  ASSUME NEW r \in Rows, NEW c \in Category(r), NEW d \in Category(r)
  PROVE  c = d
<1> DEFINE rank(i) == Rank[Reasons[r][i]]
<1>1. PICK i \in DOMAIN Reasons[r] :
        /\ c = Reasons[r][i] /\ rank(i) < 4
        /\ \A j \in DOMAIN Reasons[r] : rank(j) < 4 =>
             rank(i) < rank(j) \/ (rank(i) = rank(j) /\ i <= j)
  BY DEF Category
<1>2. PICK k \in DOMAIN Reasons[r] :
        /\ d = Reasons[r][k] /\ rank(k) < 4
        /\ \A j \in DOMAIN Reasons[r] : rank(j) < 4 =>
             rank(k) < rank(j) \/ (rank(k) = rank(j) /\ k <= j)
  BY DEF Category
<1>3. i \in Nat /\ k \in Nat /\ rank(i) \in Nat /\ rank(k) \in Nat
  BY AnalyticsAssumption
<1> HIDE DEF rank
<1>4. i = k
  BY <1>1, <1>2, <1>3
<1> QED BY <1>1, <1>2, <1>4

\* What is shown of a kind was written, and is counted as often as the bound allows.
LEMMA ShownCounts ==
  ASSUME HistoryInv, OverCountBounded, NEW k \in Kind, NEW back
  PROVE  /\ Shown(k, back) \in SUBSET Stored /\ IsFiniteSet(Shown(k, back))
         /\ Cardinality(Shown(k, back)) \in Nat /\ Cardinality(Stored) \in Nat
         /\ Cardinality(Shown(k, back)) <= Cardinality(Stored) /\ Bound(k) \in Nat
         /\ \A r \in Shown(k, back) : counted[k][r] \in Nat /\ counted[k][r] <= Bound(k)
<1>1. Shown(k, back) \in SUBSET Stored /\ Stored \subseteq Rows
  BY DEF HistoryInv, Counted, Shown, Stored
<1>2. Bound(k) \in Nat
  <2>1. Width[k] \in Nat \ {0} /\ Interval \in Nat \ {0} /\ extra \in Nat
    BY AnalyticsAssumption, BoundsOf DEF HistoryInv, TypeOK
  <2>2. \A a \in Nat, n \in Nat \ {0} : a \div n \in Nat
    OBVIOUS
  <2>3. Width[k] + Interval - 1 \in Nat
    BY <2>1
  <2>4. (Width[k] + Interval - 1) \div Interval \in Nat
    BY <2>1, <2>2, <2>3
  <2> QED BY <2>1, <2>4 DEF Bound
<1>3. \A r \in Rows : counted[k][r] \in Nat /\ counted[k][r] <= Bound(k)
  BY DEF HistoryInv, TypeOK, OverCountBounded
<1> QED BY <1>1, <1>2, <1>3, StoredFinite, FS_Subset, FS_CardinalityType

LEMMA NatTimes ==
  ASSUME NEW b \in Nat, NEW m \in Nat, NEW n \in Nat, m <= n
  PROVE  b * m <= b * n /\ b * m \in Nat /\ b * n \in Nat
<1>1. n = m + (n - m) /\ n - m \in Nat
  OBVIOUS
<1>2. b * n = b * m + b * (n - m) /\ b * (n - m) \in Nat
  BY <1>1
<1> QED BY <1>2

\* A figure over some of what is shown of a kind is bounded by the events it is over.
LEMMA FigureBound ==
  ASSUME HistoryInv, OverCountBounded, NEW k \in Kind, NEW back,
         NEW T \in SUBSET Stored, NEW S \in SUBSET Shown(k, back), S \subseteq T
  PROVE  SumOver(counted[k], S) <= Bound(k) * Cardinality(T)
<1>1. IsFiniteSet(T) /\ Cardinality(T) \in Nat
  BY StoredFinite, FS_Subset, FS_CardinalityType
<1>2. IsFiniteSet(S) /\ Cardinality(S) \in Nat /\ Cardinality(S) <= Cardinality(T)
  <2>1. S \in SUBSET T
    OBVIOUS
  <2> QED BY <1>1, <2>1, FS_Subset, FS_CardinalityType
<1>3. Bound(k) \in Nat /\ \A r \in S : counted[k][r] \in Nat /\ counted[k][r] <= Bound(k)
  BY ShownCounts
<1>4. SumOver(counted[k], S) \in Nat /\ SumOver(counted[k], S) <= Bound(k) * Cardinality(S)
  BY <1>2, <1>3, SumFinite
<1> QED BY <1>1, <1>2, <1>3, <1>4, NatTimes

LEMMA HeatmapBound ==
  ASSUME HistoryInv, OverCountBounded, NEW back
  PROVE  SumOver(Heatmap(back), DOMAIN Heatmap(back)) <= Bound("hourly") * Cardinality(Stored)
<1> DEFINE S == Shown("hourly", back)
           cell(r) == <<Weekday(r), Bucket("hourly", stamp[r]) - Day(r)>>
           C == {cell(r) : r \in S}
           P == [c \in C |-> {r \in S : cell(r) = c}]
<1>1. "hourly" \in Kind
  BY KindsOf
<1>2. /\ IsFiniteSet(S) /\ S \in SUBSET Stored /\ Bound("hourly") \in Nat
      /\ \A r \in S : counted["hourly"][r] \in Nat /\ counted["hourly"][r] <= Bound("hourly")
  BY <1>1, ShownCounts
<1>3. Heatmap(back) = [c \in C |-> SumOver(counted["hourly"], P[c])]
  BY DEF Heatmap
<1>4. DOMAIN Heatmap(back) = C
  BY <1>3
<1>5. P \in [C -> SUBSET S] /\ \A c, d \in C : c # d => P[c] \cap P[d] = {}
  OBVIOUS
<1> HIDE DEF C, P
<1>6. /\ SumOver(Heatmap(back), C) <= SumOver(counted["hourly"], S)
      /\ SumOver(Heatmap(back), C) \in Nat
  BY <1>2, <1>3, <1>5, PartsSum
<1>7. SumOver(counted["hourly"], S) <= Bound("hourly") * Cardinality(Stored)
  BY <1>1, <1>2, FigureBound
<1>8. SumOver(counted["hourly"], S) \in Nat /\ Bound("hourly") * Cardinality(Stored) \in Nat
  BY <1>1, <1>2, SumFinite, ShownCounts, NatTimes
<1> QED BY <1>4, <1>6, <1>7, <1>8

LEMMA TopBound ==
  ASSUME HistoryInv, OverCountBounded, NEW back
  PROVE  /\ SumOver(TopThreats(back), DOMAIN TopThreats(back))
              <= SumOver(counted["daily"], Shown("daily", back))
         /\ \A c \in DOMAIN TopThreats(back) :
              TopThreats(back)[c]
                <= Bound("daily") * Cardinality({r \in Stored : c \in Category(r)})
<1> DEFINE S == Shown("daily", back)
           C == UNION {Category(r) : r \in Rows}
           P == [c \in C |-> {r \in S : c \in Category(r)}]
<1>1. "daily" \in Kind
  BY KindsOf
<1>2. /\ IsFiniteSet(S) /\ S \in SUBSET Stored /\ Bound("daily") \in Nat
      /\ \A r \in S : counted["daily"][r] \in Nat /\ counted["daily"][r] <= Bound("daily")
  BY <1>1, ShownCounts
<1>3. TopThreats(back) = [c \in C |-> SumOver(counted["daily"], P[c])]
  BY DEF TopThreats
<1>4. DOMAIN TopThreats(back) = C
  BY <1>3
<1>5. P \in [C -> SUBSET S] /\ \A c, d \in C : c # d => P[c] \cap P[d] = {}
  <2>1. S \subseteq Rows
    BY DEF Shown
  <2> QED BY <2>1, OneCategory
<1>6. ASSUME NEW c \in C
      PROVE  TopThreats(back)[c]
               <= Bound("daily") * Cardinality({r \in Stored : c \in Category(r)})
  <2> DEFINE T == {r \in Stored : c \in Category(r)}
  <2>1. P[c] \in SUBSET S /\ P[c] \subseteq T /\ T \in SUBSET Stored
    BY <1>2
  <2>2. TopThreats(back)[c] = SumOver(counted["daily"], P[c])
    BY <1>3
  <2> HIDE DEF P, T
  <2>3. SumOver(counted["daily"], P[c]) <= Bound("daily") * Cardinality(T)
    BY <1>1, <2>1, FigureBound
  <2> QED BY <2>2, <2>3 DEF T
<1> HIDE DEF C, P
<1>7. SumOver(TopThreats(back), C) <= SumOver(counted["daily"], S)
  BY <1>2, <1>3, <1>5, PartsSum
<1> QED BY <1>4, <1>6, <1>7

LEMMA WeeksBound ==
  ASSUME HistoryInv, OverCountBounded, NEW back, NEW w \in DOMAIN WeeklySummary(back)
  PROVE  WeeklySummary(back)[w]
           <= Bound("weekly")
                * Cardinality({r \in Stored : stamp[r] \in w .. w + Width["weekly"] - 1})
<1> DEFINE S == {r \in Shown("weekly", back) : Bucket("weekly", stamp[r]) = w}
           T == {r \in Stored : stamp[r] \in w .. w + Width["weekly"] - 1}
<1>1. "weekly" \in Kind /\ Width["weekly"] \in Nat
  BY KindsOf, AnalyticsAssumption
<1>2. WeeklySummary(back)[w] = SumOver(counted["weekly"], S)
  BY DEF WeeklySummary
<1>3. S \subseteq T
  <2> SUFFICES ASSUME NEW r \in S PROVE r \in T
    OBVIOUS
  <2>1. r \in Stored /\ r \in Rows
    BY <1>1, ShownCounts DEF Shown
  <2>2. stamp[r] \in Int
    BY <2>1, BoundsOf DEF HistoryInv, TypeOK
  <2>3. w \in Int /\ w <= stamp[r] /\ stamp[r] < w + Width["weekly"]
    BY <1>1, <2>2, BucketEnds
  <2> QED BY <1>1, <2>1, <2>2, <2>3
<1>4. S \in SUBSET Shown("weekly", back) /\ T \in SUBSET Stored
  OBVIOUS
<1> HIDE DEF S, T
<1>5. SumOver(counted["weekly"], S) <= Bound("weekly") * Cardinality(T)
  BY <1>1, <1>3, <1>4, FigureBound
<1> QED BY <1>2, <1>5 DEF T

\* No figure of the dashboard counts an event in two cells, weeks or categories, beyond
\* what the buckets count it (get_heatmap, get_top_threats and get_weekly_summary).
THEOREM FiguresAreBounded == Spec => []FiguresBounded
<1>1. HistoryInv /\ OverCountBounded => FiguresBounded
  BY HeatmapBound, TopBound, WeeksBound DEF FiguresBounded
<1> QED BY <1>1, OverCountIsBounded, HistoryInvariant, PTL
=============================================================================

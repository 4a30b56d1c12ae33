----------------------------- MODULE LogBatches -----------------------------
(***************************************************************************)
(* The batches of storage/persistence.py in the engine: worker threads     *)
(* append rows for three tables, the writer thread takes everything that   *)
(* waits and writes one table after the other, and at shutdown the main    *)
(* thread does so once more while the workers still run.  A write is one   *)
(* transaction; when it fails its rows are not put back.                   *)
(***************************************************************************)
EXTENDS Naturals, Sequences

CONSTANTS
  Rows,     \* the rows the workers produce
  TableOf   \* the table each row is for

Tables == <<"packet_logs", "ai_analysis_history", "training_data">>

ASSUME BatchAssumption == TableOf \in [Rows -> {Tables[i] : i \in 1 .. 3}]

VARIABLES
  phase,   \* the engine: up, stopping (signal received), last (its last flush), down
  batch,   \* _LOG_BATCH, _AI_BATCH and _TRAINING_BATCH
  writer,  \* writer_loop: about to test the stop event, about to flush, writing, ended
  hand,    \* rows each flushing thread took and has not written yet
  next,    \* the table each flushing thread writes next
  stored,  \* how often each row was inserted
  sent,    \* rows ever given (history)
  failed   \* rows of a transaction that failed (history)

batchVars == <<phase, batch, writer, hand, next, stored, sent, failed>>

Flushers == {"writer", "main"}

BatchTypeOK ==
  /\ phase \in {"up", "stopping", "last", "down"}
  /\ batch \subseteq Rows /\ sent \subseteq Rows /\ failed \subseteq Rows
  /\ writer \in {"test", "due", "writing", "ended"}
  /\ hand \in [Flushers -> SUBSET Rows]
  /\ next \in [Flushers -> 1 .. 4]
  /\ stored \in [Rows -> Nat]

BatchInit ==
  /\ phase = "up" /\ writer = "test"
  /\ batch = {} /\ sent = {} /\ failed = {}
  /\ hand = [f \in Flushers |-> {}] /\ next = [f \in Flushers |-> 4]
  /\ stored = [r \in Rows |-> 0]

-----------------------------------------------------------------------------
\* enqueue_packet_log, enqueue_ai_history, enqueue_training_sample: workers are daemon
\* threads and go on until the process has ended.
Enqueue(r) ==
  /\ phase # "down" /\ r \notin sent
  /\ batch' = batch \cup {r} /\ sent' = sent \cup {r}
  /\ UNCHANGED <<phase, writer, hand, next, stored, failed>>

\* flush_batches(force=True) under _FLUSH_LOCK: the three lists are copied and cleared.
Take(f) ==
  /\ hand' = [hand EXCEPT ![f] = batch]
  /\ next' = [next EXCEPT ![f] = 1]
  /\ batch' = {}

\* Mutant: a batch that failed is queued again although its rows may be in the table.
WriteRequeue(f, ok) ==
  LET rows == {r \in hand[f] : TableOf[r] = Tables[next[f]]}
  IN /\ next[f] \in 1 .. 3
     /\ stored' = [r \in Rows |-> IF r \in rows THEN stored[r] + 1 ELSE stored[r]]
     /\ batch' = IF ok THEN batch ELSE batch \cup rows
     /\ failed' = IF ok THEN failed ELSE failed \cup rows
     /\ hand' = [hand EXCEPT ![f] = @ \ rows]
     /\ next' = [next EXCEPT ![f] = @ + 1]
     /\ UNCHANGED <<phase, writer, sent>>

\* Mutant: an error of one table ends the flush.
WriteAbort(f, ok) ==
  LET rows == {r \in hand[f] : TableOf[r] = Tables[next[f]]}
  IN /\ next[f] \in 1 .. 3
     /\ IF ok THEN /\ stored' = [r \in Rows |-> IF r \in rows THEN stored[r] + 1 ELSE stored[r]]
                   /\ hand' = [hand EXCEPT ![f] = @ \ rows]
                   /\ next' = [next EXCEPT ![f] = @ + 1]
                   /\ UNCHANGED failed
              ELSE /\ failed' = failed \cup rows /\ UNCHANGED stored
                   /\ hand' = [hand EXCEPT ![f] = {}] /\ next' = [next EXCEPT ![f] = 4]
     /\ UNCHANGED <<phase, batch, writer, sent>>

\* _flush_packet_logs, _flush_ai_history, _flush_training_data: commit, or roll back and
\* go on with the next table.
Write(f, ok) ==
  LET rows == {r \in hand[f] : TableOf[r] = Tables[next[f]]}
  IN /\ next[f] \in 1 .. 3
     /\ IF ok THEN stored' = [r \in Rows |-> IF r \in rows THEN stored[r] + 1 ELSE stored[r]]
                   /\ UNCHANGED failed
              ELSE failed' = failed \cup rows /\ UNCHANGED stored
     /\ hand' = [hand EXCEPT ![f] = @ \ rows]
     /\ next' = [next EXCEPT ![f] = @ + 1]
     /\ UNCHANGED <<phase, batch, writer, sent>>

\* writer_loop: the stop event is looked at before each flush and while waiting after it.
WriterTest ==
  /\ writer = "test" /\ phase # "down"
  /\ writer' = IF phase = "up" THEN "due" ELSE "ended"
  /\ UNCHANGED <<phase, batch, hand, next, stored, sent, failed>>

WriterTake ==
  /\ writer = "due" /\ phase # "down"
  /\ Take("writer") /\ writer' = "writing"
  /\ UNCHANGED <<phase, stored, sent, failed>>

WriterWrite == phase # "down" /\ writer = "writing" /\ \E ok \in BOOLEAN : Write("writer", ok)

\* Mutant: the writer ends with the first error.
WriterDoneEnds ==
  /\ writer = "writing" /\ next["writer"] = 4 /\ phase # "down"
  /\ writer' = IF failed = {} THEN "test" ELSE "ended"
  /\ UNCHANGED <<phase, batch, hand, next, stored, sent, failed>>

WriterDone ==
  /\ writer = "writing" /\ next["writer"] = 4 /\ phase # "down"
  /\ writer' = "test"
  /\ UNCHANGED <<phase, batch, hand, next, stored, sent, failed>>

\* A signal sets the stop event; the main thread then runs shutdown_persistence, which
\* does not wait for the writer, and the process ends.
StopSignal ==
  /\ phase = "up" /\ phase' = "stopping"
  /\ UNCHANGED <<batch, writer, hand, next, stored, sent, failed>>

MainTake ==
  /\ phase = "stopping" /\ phase' = "last"
  /\ Take("main")
  /\ UNCHANGED <<writer, stored, sent, failed>>

MainWrite == phase = "last" /\ \E ok \in BOOLEAN : Write("main", ok)

\* The process ends after the last flush, or is killed at any moment: what it held is gone.
Gone ==
  /\ phase' = "down" /\ batch' = {} /\ writer' = "ended"
  /\ hand' = [f \in Flushers |-> {}] /\ next' = [f \in Flushers |-> 4]
  /\ UNCHANGED <<stored, sent, failed>>
Exit == phase = "last" /\ next["main"] = 4 /\ Gone
Kill == phase # "down" /\ Gone

BatchStep ==
  \/ \E r \in Rows : Enqueue(r)
  \/ WriterTest \/ WriterTake \/ WriterWrite \/ WriterDone
  \/ StopSignal \/ MainTake \/ MainWrite \/ Exit \/ Kill

BatchSpec == BatchInit /\ [][BatchStep]_batchVars

\* Threads run and the database answers.
BatchFairness ==
  /\ WF_batchVars(WriterTest) /\ WF_batchVars(WriterTake)
  /\ WF_batchVars(WriterWrite) /\ WF_batchVars(WriterDone)
  /\ WF_batchVars(MainTake) /\ WF_batchVars(MainWrite) /\ WF_batchVars(Exit)

-----------------------------------------------------------------------------
\* Properties

InHand == UNION {hand[f] : f \in Flushers}
Stored == {r \in Rows : stored[r] > 0}
Fate   == INSTANCE RowFate WITH
            waiting <- batch \cup InHand,
            written <- Stored,
            lost    <- sent \ (batch \cup InHand \cup Stored)

\* The batches implement RowFate: a row is written once or lost, whichever thread flushes
\* it and whatever the shutdown overtakes, and what was lost is not written later.
ImplementsFate == Fate!Init /\ [][Fate!Next]_<<batch, hand, stored, sent>>

\* No row is written twice.
RowsOnce == \A r \in Rows : stored[r] <= 1

\* While the process runs a row is lost only with a transaction that failed: the copy
\* and the clearing of the lists leave no gap for a worker that appends meanwhile.
LossExplained ==
  phase # "down" => \A r \in sent : r \in batch \cup InHand \cup Stored \cup failed

\* Every row given is settled: written, lost with its transaction, or lost at the end.
RowsSettle == \A r \in Rows : r \in sent ~> (r \in Stored \cup failed \/ phase = "down")
=============================================================================

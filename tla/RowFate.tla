------------------------------- MODULE RowFate -------------------------------
(***************************************************************************)
(* What the batched writers of storage/persistence.py promise of a row     *)
(* given to them: it waits, and then it is written to its table once or    *)
(* lost; neither is taken back.                                            *)
(***************************************************************************)
CONSTANT Rows

VARIABLES waiting, written, lost

fate == <<waiting, written, lost>>

Init == waiting = {} /\ written = {} /\ lost = {}

Give(r) ==
  /\ r \in Rows \ (waiting \cup written \cup lost)
  /\ waiting' = waiting \cup {r}
  /\ UNCHANGED <<written, lost>>

\* A batch is written in one transaction.
Write(batch) ==
  /\ batch \subseteq waiting
  /\ waiting' = waiting \ batch /\ written' = written \cup batch
  /\ UNCHANGED lost

Lose(batch) ==
  /\ batch \subseteq waiting
  /\ waiting' = waiting \ batch /\ lost' = lost \cup batch
  /\ UNCHANGED written

Next ==
  \/ \E r \in Rows : Give(r)
  \/ \E batch \in SUBSET Rows : Write(batch) \/ Lose(batch)

Spec == Init /\ [][Next]_fate
=============================================================================

----------------------------- MODULE PacketFlow -----------------------------
(***************************************************************************)
(* What the packet path promises, without queues and threads: a packet is  *)
(* refused on arrival or admitted; an admitted packet waits until it gets  *)
(* one final verdict; at most Capacity packets wait.                       *)
(***************************************************************************)
EXTENDS Integers, FiniteSets

CONSTANTS Packets, Capacity

VARIABLES waiting, settled

Init == waiting = {} /\ settled = {}

\* Skipped under pressure, or the first queue is full.
Refuse(p) ==
  /\ p \notin waiting \cup settled
  /\ settled' = settled \cup {p}
  /\ UNCHANGED waiting

Admit(p) ==
  /\ p \notin waiting \cup settled
  /\ Cardinality(waiting) < Capacity
  /\ waiting' = waiting \cup {p}
  /\ UNCHANGED settled

\* Processed, failed, or dropped between the two queues.
Settle(p) ==
  /\ p \in waiting
  /\ waiting' = waiting \ {p}
  /\ settled' = settled \cup {p}

Next == \E p \in Packets : Refuse(p) \/ Admit(p) \/ Settle(p)

Spec == Init /\ [][Next]_<<waiting, settled>>
=============================================================================

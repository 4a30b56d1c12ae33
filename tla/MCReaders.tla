------------------------------ MODULE MCReaders ------------------------------
(***************************************************************************)
(* What reaches the web server and who reads it on: the requests that      *)
(* carry the sensor's telemetry (SensorAuth), the pages of the audit trail *)
(* and of the log search with their live stream (AuditFeed), and the tail  *)
(* of sslsplit's connect log (LogTail).  They share no state, so a         *)
(* behaviour is one of the three.                                          *)
(***************************************************************************)
EXTENDS SensorAuth, AuditFeed, LogTail, TLC

CONSTANTS w1, w2, w3, q1, audited, logged

\* A page of the audit trail and one of the log search, of one row each.  Rows are written
\* and counters posted while the first is open with a stream of one message; two rows
\* are written over two moments while each is paged through with two loads under way at
\* once, and three at one moment while they come one after the other.
MCKindOf == [p \in Pages |-> IF p = audited THEN "audit" ELSE "logs"]
Scene(ss, p, u, n, f, d) ==
  [senders |-> ss, pages |-> {p}, until |-> u, streams |-> n, flight |-> f, depth |-> d]
MCBounds == {Scene({w1, w2}, audited, 0, 1, 1, 2), Scene({w1, q1}, audited, 0, 2, 1, 1),
             Scene({w1, w2}, audited, 1, 0, 2, 4), Scene({w1, w2}, logged, 1, 0, 2, 3),
             Scene({w1, w2, w3}, audited, 0, 0, 1, 4)}

\* Requests and the threads that verify them are alike.
Symmetry == Permutations(Requests) \cup Permutations(Threads)

VARIABLE part

MCInit ==
  /\ part \in {"requests", "pages", "logs"} /\ Init /\ FeedInit /\ TailInit
  /\ part # "pages" => bound = CHOOSE b \in Bounds : b.streams = 2
Requested == part = "requests" /\ Next /\ UNCHANGED <<part, feedVars, tail>>
Paging    == part = "pages" /\ FeedNext /\ UNCHANGED <<part, vars, tail>>
Logs      == part = "logs"  /\ TailNext /\ UNCHANGED <<part, vars, feedVars>>
MCSpec    == MCInit /\ [][Requested \/ Paging \/ Logs]_<<part, vars, feedVars, tail>>
=============================================================================

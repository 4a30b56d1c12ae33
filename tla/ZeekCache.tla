------------------------------ MODULE ZeekCache ------------------------------
(***************************************************************************)
(* intelligence/zeek_integration.py: the verdict on an address from the    *)
(* logs of Zeek.  Every worker thread of the engine may look an address    *)
(* up; at most once per interval a lookup reads the logs into the caches   *)
(* of rows; the verdict itself is cached for a while.                      *)
(*                                                                         *)
(* One address and one log: every line of it is about a connection of the  *)
(* address that began recently, so eviction has no part in this.           *)
(***************************************************************************)
EXTENDS Naturals, FiniteSets

CONSTANTS
  Lookers,   \* threads
  Interval,  \* _CACHE_UPDATE_INTERVAL
  TTL,       \* _LOOKUP_TTL
  ZeekLines, \* bound of the model: lines Zeek writes below the header
  Until      \* bound of the model: last instant

VARIABLES
  time,
  written,   \* when each line of the log was written
  rows,      \* lines in _ip_conn_cache, _notice_hits and _weird_hits
  updated,   \* _last_cache_update
  lookup,    \* per thread: where it is in lookup_ip
  verdict    \* _lookup_cache: when it expires, and the rows it rests on

zeek == <<time, written, rows, updated, lookup, verdict>>

ZeekInit ==
  /\ time = Interval
  /\ written = <<>> /\ rows = {} /\ updated = 0
  /\ lookup = [t \in Lookers |-> "idle"]
  /\ verdict = [expires |-> 0, seen |-> {}]

\* A lookup takes less than a unit of time.
ZeekTick ==
  /\ time < Until /\ time' = time + 1
  /\ \A t \in Lookers : lookup[t] = "idle"
  /\ UNCHANGED <<written, rows, updated, lookup, verdict>>

ZeekWrites ==
  /\ Cardinality(DOMAIN written) < ZeekLines
  /\ written' = [i \in DOMAIN written \cup {Cardinality(DOMAIN written) + 1} |->
                   IF i \in DOMAIN written THEN written[i] ELSE time]
  /\ UNCHANGED <<time, rows, updated, lookup, verdict>>

At(t, from, to) == lookup[t] = from /\ lookup' = [lookup EXCEPT ![t] = to]

\* lookup_ip has no valid verdict, and update_cache finds the interval over or not.
Lookup(t) ==
  /\ time >= verdict.expires
  /\ IF time - updated < Interval
     THEN At(t, "idle", "answer") /\ UNCHANGED updated
     ELSE At(t, "idle", "read") /\ updated' = time
  /\ UNCHANGED <<time, written, rows, verdict>>

\* _tail_read_log: the loop over the lines that looks for #fields is left by break, after
\* which f.tell() raises OSError; the handler logs it. No row is read and no position kept.
TailReadLog(t) ==
  /\ At(t, "read", "answer")
  /\ UNCHANGED <<time, written, rows, updated, verdict>>

\* The verdict of lookup_ip, from the rows there are.
Answer(t) ==
  /\ At(t, "answer", "idle")
  /\ verdict' = [expires |-> time + TTL, seen |-> rows]
  /\ UNCHANGED <<time, written, rows, updated>>

ZeekNext == \/ ZeekTick \/ ZeekWrites
            \/ \E t \in Lookers : Lookup(t) \/ TailReadLog(t) \/ Answer(t)

ZeekSpec == ZeekInit /\ [][ZeekNext]_zeek

-----------------------------------------------------------------------------
\* "Incrementally read new TSV rows from a Zeek log" (intelligence/zeek_integration.py:111):
\* a valid verdict rests on every line that was written an interval and a lifetime ago. It
\* rests on none, for no row of a log that has a header is ever read.
EvidenceSeen ==
  time < verdict.expires =>
    \A i \in DOMAIN written : written[i] + Interval + TTL < time => i \in verdict.seen
=============================================================================

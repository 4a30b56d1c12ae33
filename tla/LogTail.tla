------------------------------- MODULE LogTail -------------------------------
(***************************************************************************)
(* ssl_inspect/sslsplit_reader.py: the thread of the TLS interceptor that  *)
(* polls the connect log, which sslsplit writes a line for each            *)
(* connection, and hands the new lines to the analysis.                    *)
(*                                                                         *)
(* A line has two halves, for a read may end in the middle of a line.  The *)
(* first half of a line that was cut in its host name or path still looks  *)
(* like a connection, one cut before that does not; the second half never  *)
(* does, for a line begins with a time.                                    *)
(***************************************************************************)
EXTENDS Naturals

CONSTANTS
  Files,     \* bound of the model: how often the log begins anew
  LineCount, \* bound of the model: lines it gets each time
  Handlings  \* bound of the model: no fault once a line was handled more often

ASSUME TailAssumption == Files \in Nat \ {0} /\ LineCount \in Nat /\ Handlings \in Nat

VARIABLES
  file,      \* how-manyeth content of the log this is, counted from 1
  size,      \* st_size, in halves of lines
  measured,  \* the size a poll measured before it reads; None between polls
  position,  \* _position
  of,        \* the content it is a position in (history)
  whole,     \* how often each line was handled (history)
  halves,    \* how often the first half of a line was handled as a line (history)
  cut,       \* lines a read began or ended in (history)
  blind,     \* contents read from a position in the one before (history)
  reread,    \* contents a read failed in, or a new process began again (history)
  left       \* the size of the log this process found and could not empty (history)

handled == <<whole, halves>>
spoils == <<cut, blind, reread>>
tail   == <<file, size, measured, position, of, handled, spoils, left>>

Lines == (1 .. Files) \X (1 .. LineCount)
None  == [at |-> "between polls"]

TailInit ==
  /\ file = 1 /\ size = 0 /\ measured = None
  /\ position = 0 /\ of = 1
  /\ whole = [l \in Lines |-> 0] /\ halves = [l \in Lines |-> 0]
  /\ cut = {} /\ blind = {} /\ reread = {} /\ left = 0

\* sslsplit appends half a line.
WriteHalf ==
  /\ size < 2 * LineCount /\ size' = size + 1
  /\ UNCHANGED <<file, measured, position, of, handled, spoils, left>>

\* The administrator empties the log under the reader.
Truncate ==
  /\ file < Files /\ file' = file + 1 /\ size' = 0
  /\ UNCHANGED <<measured, position, of, handled, spoils, left>>

\* _process_new_lines opens the log and measures it; a smaller one is read from its start.
Measure ==
  /\ measured = None /\ measured' = [at |-> "measured", size |-> size]
  /\ position' = IF size < position THEN 0 ELSE position
  /\ UNCHANGED <<file, size, of, handled, spoils, left>>

-----------------------------------------------------------------------------
\* The lines from the position on, up to `end`
Within(h, end) == position < h /\ h <= end
WholeLines(end) == {i \in 1 .. LineCount : Within(2 * i - 1, end) /\ Within(2 * i, end)}
Begun(end) == {i \in 1 .. LineCount : Within(2 * i - 1, end) /\ ~Within(2 * i, end)}
Ended(end) == {i \in 1 .. LineCount : ~Within(2 * i - 1, end) /\ Within(2 * i, end)}

More(count, found) == [l \in Lines |-> IF l[1] = file /\ l[2] \in found THEN count[l] + 1
                                       ELSE count[l]]

\* Mutant: the size measured before the read is kept as the position.
ToldMeasured(end) == measured.size

\* f.tell() after the last line
Told(end) == end

\* _process_new_lines: every line to the end of the log is handled, a half one if it matches.
Read ==
  LET end == IF size > position THEN size ELSE position
  IN /\ measured # None /\ measured' = None
     /\ whole' = More(whole, WholeLines(end))
     /\ \E matched \in SUBSET Begun(end) : halves' = More(halves, matched)
     /\ cut' = cut \cup {<<file, i>> : i \in Begun(end) \cup Ended(end)}
     /\ blind' = IF position > 0 /\ of # file THEN blind \cup {file} ELSE blind
     /\ position' = Told(end) /\ of' = file
     /\ UNCHANGED <<file, size, reread, left>>

MoreFaults == \A l \in Lines : whole[l] + halves[l] <= Handlings

\* The read fails after some lines; _run logs it, and the position is what it was.
ReadFails ==
  /\ MoreFaults
  /\ measured # None /\ measured' = None
  /\ \E end \in position .. size : whole' = More(whole, WholeLines(end))
  /\ reread' = reread \cup {file}
  /\ UNCHANGED <<file, size, position, of, halves, cut, blind, left>>

\* The interceptor is started again: the log is emptied before the reader starts ...
Reboot ==
  /\ file < Files /\ file' = file + 1 /\ size' = 0 /\ left' = 0
  /\ measured' = None /\ position' = 0 /\ of' = file'
  /\ UNCHANGED <<handled, spoils>>

\* ... or cannot be, and the reader starts all the same.
RebootFull ==
  /\ MoreFaults
  /\ size > 0 /\ left' = size
  /\ measured' = None /\ position' = 0 /\ of' = file
  /\ reread' = reread \cup {file}
  /\ UNCHANGED <<file, size, handled, cut, blind>>

TailNext == \/ WriteHalf \/ Truncate \/ Measure \/ Read \/ ReadFails
            \/ Reboot \/ RebootFull

TailSpec == TailInit /\ [][TailNext]_tail

-----------------------------------------------------------------------------
\* Properties

\* A connection is recorded at most once, in full or truncated, wherever the reads cut its
\* line, unless the log was read again from an earlier position; and one whose line lies
\* before the position was recorded in full, unless a read cut it or mistook the log for
\* the one before.
LinesOnce ==
  /\ \A l \in Lines : l[1] \notin blind \cup reread => whole[l] + halves[l] <= 1
  /\ \A i \in 1 .. LineCount :
       of = file /\ 2 * i <= position /\ file \notin blind /\ <<file, i>> \notin cut
         => whole[<<file, i>>] > 0

\* "Could not truncate %s; the reader will skip to end of file" (ssl_inspect/engine.py:136).
\* It does not: the reader begins at the start, and the lines of the last run are handled
\* again.
OldLinesSkipped ==
  [][\A i \in 1 .. LineCount :
       file' = file /\ left' = left /\ 2 * i <= left => whole'[<<file, i>>] = whole[<<file, i>>]]_tail
=============================================================================

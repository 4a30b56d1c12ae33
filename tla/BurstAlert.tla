----------------------------- MODULE BurstAlert -----------------------------
(***************************************************************************)
(* alerts/dangerous_burst.py: the e-mail a source IP earns by a burst of   *)
(* risky events.  Every worker thread of the IDS engine calls              *)
(* maybe_alert_dangerous_burst after an analysis.  It reads the time       *)
(* before it takes the lock, so calls reach the lock with stamps out of    *)
(* order; the mail itself is sent after the lock is released.              *)
(***************************************************************************)
EXTENDS Integers, FiniteSets

CONSTANTS
  Threads,      \* worker threads
  Sources,      \* source IP addresses
  Window,       \* _WINDOW_SEC
  Dedup,        \* _DEDUP_SEC
  GlobalDedup,  \* _GLOBAL_DEDUP_SEC
  MinFast,      \* _THRESHOLD
  MinSlow,      \* _SLOW_THRESHOLD
  EvictEvery,   \* _EVICT_EVERY
  MaxDelay,     \* bound on the wait between reading the time and the lock
  Start,        \* time of the first event, counted from the epoch
  MaxTime,      \* bound of the model: last instant
  MaxEvents     \* bound of the model: eligible events

\* The wait for the lock is short against the margin eviction leaves beyond
\* the deduplication time (600 s with the default settings).
ASSUME BurstAssumption ==
  /\ {Window, Dedup, GlobalDedup, MinFast, MinSlow, MaxDelay} \subseteq Nat
  /\ EvictEvery \in Nat \ {0}
  /\ Start \in Nat /\ Start >= Dedup /\ Start >= GlobalDedup
  /\ MaxTime \in Nat /\ MaxEvents \in Nat
  /\ Window >= Dedup + 2 * MaxDelay

VARIABLES
  clock,
  call,        \* the call each thread is in
  log,         \* every eligible event that reached the lock (history)
  kept,        \* ids of the events still in _EVENTS
  lastEmail,   \* _LAST_EMAIL, 0 for a missing key
  lastGlobal,  \* _last_global_send
  suppressed,  \* ids of the events _global_suppressed counts
  sent,        \* time stamp of the last mail decided for a source (history)
  heldBack,    \* ids of the events whose mail the channel guard held back (history)
  mails        \* the mails that went out: the deciding event and the ids noted (history)

tables  == <<kept, lastEmail, lastGlobal, suppressed>>
history == <<log, sent, heldBack, mails>>
vars    == <<clock, call, tables, history>>

-----------------------------------------------------------------------------
Kinds == {"fast", "slow"}
Idle  == [at |-> "idle"]
Calls == {Idle} \cup [at : {"stamped"}, now : Nat, src : Sources, kind : Kinds]
                \cup [at : {"sending"}, id : Nat, note : SUBSET Nat]
Events == [id : Nat, ts : Nat, src : Sources, kind : Kinds]

\* Mutant: the idle time is taken from the wrong setting.
MaxIdleGlobal == GlobalDedup

\* _MAX_IDLE_SEC
MaxIdle == IF Window >= Dedup THEN Window ELSE Dedup

\* _evict_counter counts the calls that take the lock, as the log does.
EvictCounter == Cardinality(log)

Bucket(src) == {e \in log : e.src = src /\ e.id \in kept}
Threshold(kind) == IF kind = "fast" THEN MinFast ELSE MinSlow

TypeOK ==
  /\ clock \in Nat
  /\ call \in [Threads -> Calls]
  /\ log \subseteq Events
  /\ kept \subseteq {e.id : e \in log}
  /\ lastEmail \in [Sources -> Nat]
  /\ lastGlobal \in Nat
  /\ suppressed \subseteq Nat
  /\ sent \in [Sources -> Nat]
  /\ heldBack \subseteq Nat
  /\ mails \subseteq [id : Nat, note : SUBSET Nat]

Init ==
  /\ clock = Start
  /\ call = [t \in Threads |-> Idle]
  /\ log = {} /\ kept = {}
  /\ lastEmail = [s \in Sources |-> 0]
  /\ lastGlobal = 0 /\ suppressed = {}
  /\ sent = [s \in Sources |-> 0]
  /\ heldBack = {} /\ mails = {}

\* Time passes; no thread waits longer than MaxDelay between its stamp and the lock.
Tick ==
  /\ clock < MaxTime
  /\ \A t \in Threads : call[t].at = "stamped" => clock < call[t].now + MaxDelay
  /\ clock' = clock + 1
  /\ UNCHANGED <<call, tables, history>>

\* An eligible event: _burst_eligible returned a kind and the time is read.
ReadTime(t, src, kind) ==
  /\ call[t] = Idle
  /\ Cardinality(log) + Cardinality({u \in Threads : call[u].at = "stamped"}) < MaxEvents
  /\ call' = [call EXCEPT ![t] = [at |-> "stamped", now |-> clock, src |-> src, kind |-> kind]]
  /\ UNCHANGED <<clock, tables, history>>

\* _evict_idle_locked: sources whose last appended event is older than MaxIdle.
Evicted(now) ==
  {s \in Sources :
     \A e \in Bucket(s) : (\A f \in Bucket(s) : f.id <= e.id) => e.ts < now - MaxIdle}

\* The locked region of maybe_alert_dangerous_burst.
Locked(t) ==
  LET now  == call[t].now
      src  == call[t].src
      kind == call[t].kind
      ev   == [id |-> EvictCounter + 1, ts |-> now, src |-> src, kind |-> kind]
      gone == IF ev.id % EvictEvery = 0 THEN Evicted(now) ELSE {}
      mine == {e \in (IF src \in gone THEN {} ELSE Bucket(src)) \cup {ev} : e.ts >= now - Window}
      rest == {e.id : e \in {f \in log : f.id \in kept /\ f.src # src /\ f.src \notin gone}}
      last == IF src \in gone THEN 0 ELSE lastEmail[src]
      emailed == [s \in Sources |-> IF s \in gone THEN 0 ELSE lastEmail[s]]
      quiet == /\ UNCHANGED <<lastGlobal, sent>> /\ lastEmail' = emailed
               /\ call' = [call EXCEPT ![t] = Idle]
  IN /\ call[t].at = "stamped"
     /\ log' = log \cup {ev}
     /\ kept' = rest \cup {e.id : e \in mine}
     /\ \/ /\ \/ Cardinality(mine) <= Threshold(kind)
              \/ now - last < Dedup
           /\ quiet
           /\ UNCHANGED <<suppressed, heldBack>>
        \/ /\ Cardinality(mine) > Threshold(kind)
           /\ now - last >= Dedup
           /\ now - lastGlobal < GlobalDedup
           /\ quiet
           /\ suppressed' = suppressed \cup {ev.id}
           /\ heldBack' = heldBack \cup {ev.id}
        \/ /\ Cardinality(mine) > Threshold(kind)
           /\ now - last >= Dedup
           /\ now - lastGlobal >= GlobalDedup
           /\ lastGlobal' = now
           /\ lastEmail' = [emailed EXCEPT ![src] = now]
           /\ sent' = [sent EXCEPT ![src] = now]
           /\ suppressed' = {}
           /\ call' = [call EXCEPT ![t] = [at |-> "sending", id |-> ev.id, note |-> suppressed]]
           /\ UNCHANGED heldBack
     /\ UNCHANGED <<clock, mails>>

\* Outside the lock: the mail goes out, with a note of the alerts held back before it.
Send(t) ==
  /\ call[t].at = "sending"
  /\ mails' = mails \cup {[id |-> call[t].id, note |-> call[t].note]}
  /\ call' = [call EXCEPT ![t] = Idle]
  /\ UNCHANGED <<clock, tables, log, sent, heldBack>>

\* A lookup or send_alert raises: the mail is lost, and its note with it; nothing retries it.
SendFails(t) ==
  /\ call[t].at = "sending"
  /\ call' = [call EXCEPT ![t] = Idle]
  /\ UNCHANGED <<clock, tables, history>>

Next ==
  \/ Tick
  \/ \E t \in Threads :
       \/ \E src \in Sources, kind \in Kinds : ReadTime(t, src, kind)
       \/ Locked(t)
       \/ Send(t)
       \/ SendFails(t)

Spec == Init /\ [][Next]_vars

-----------------------------------------------------------------------------
\* "further alerts for the same IP are suppressed for DEDUP_SEC": two mails for
\* one source are at least Dedup apart, although eviction forgets the time of
\* the last mail and although stamps reach the lock out of order.
PerSourceSpacing ==
  [][\A s \in Sources : sent'[s] # sent[s] => sent'[s] - sent[s] >= Dedup]_vars

\* No event younger than the window is dropped from the count of its source, by
\* trimming or by eviction, up to the time a call may wait for the lock.
WindowComplete ==
  \A e \in log : e.ts >= clock - Window + MaxDelay => e.id \in kept

\* "Suppressed alerts are counted and reported in the next email that does go out": once
\* a later mail is out, an alert held back was noted in a mail, unless the mail with its
\* note is still being sent.  This is not so: a mail that fails takes its note with it.
HeldBackIsReported ==
  \A i \in heldBack :
    (\E m \in mails : m.id > i)
      => \/ \E m \in mails : i \in m.note
         \/ \E t \in Threads : call[t].at = "sending" /\ i \in call[t].note
=============================================================================

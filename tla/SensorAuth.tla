----------------------------- MODULE SensorAuth -----------------------------
(***************************************************************************)
(* intelligence/sensor_auth.py and the authentication half of              *)
(* ids_sensor_update in uni-srver.py: the sensor signs each telemetry      *)
(* request with its clock and a fresh nonce; the network may delay,        *)
(* repeat, damage or lose the request; request threads of the web server   *)
(* verify it.  The nonces seen live in the memory of the web process.      *)
(*                                                                         *)
(* A request is its nonce.  The signature is abstracted to whether the     *)
(* request arrived as it was signed.                                       *)
(***************************************************************************)
EXTENDS Integers

CONSTANTS
  Requests,    \* the requests the sensor sends
  Threads,     \* request threads of the web server
  Skew,        \* MAX_CLOCK_SKEW_SEC
  Retention,   \* NONCE_RETENTION_SEC
  SweepEvery,  \* seconds between sweeps of the nonces (1 in the code)
  MaxDelay,    \* bound on the time between the two checks of one request
  Drift,       \* bound of the model: difference of the two clocks
  MaxTime,     \* bound of the model: last instant
  Never        \* no stamp, no expiry

\* "Must be >= IDS_AUTH_MAX_SKEW_SEC" (README.md:414); an entry is kept for twice
\* the retention, so any MaxDelay up to 2 * (Retention - Skew) is harmless.
ASSUME AuthAssumption ==
  /\ {Skew, Retention, SweepEvery, MaxDelay, Drift, MaxTime} \subseteq Nat
  /\ 2 * Retention >= 2 * Skew + MaxDelay
  /\ Never \notin Int

VARIABLES
  now_ts,     \* the clock of the web server
  stamp,      \* X-IDS-Timestamp of a request that was sent
  seen,       \* _seen: expiry of each recorded nonce
  lastSweep,  \* _last_sweep
  call,       \* the request a thread has in hand, past the window and signature checks
  accepted,   \* how often each request was accepted by this web process (history)
  rejected    \* requests answered with replayed_nonce (history)

vars == <<now_ts, stamp, seen, lastSweep, call, accepted, rejected>>

-----------------------------------------------------------------------------
Idle  == [at |-> "idle"]
Calls == {Idle} \cup [at : {"nonce"}, req : Requests, since : Nat]

TypeOK ==
  /\ now_ts \in Nat
  /\ stamp \in [Requests -> Int \cup {Never}]
  /\ seen \in [Requests -> Nat \cup {Never}]
  /\ lastSweep \in Nat
  /\ call \in [Threads -> Calls]
  /\ accepted \in [Requests -> Nat]
  /\ rejected \subseteq Requests

Init ==
  /\ now_ts = 0 /\ lastSweep = 0
  /\ stamp = [r \in Requests |-> Never]
  /\ seen = [r \in Requests |-> Never]
  /\ call = [t \in Threads |-> Idle]
  /\ accepted = [r \in Requests |-> 0]
  /\ rejected = {}

\* Time passes; no thread waits longer than MaxDelay between the two checks.
AuthTick ==
  /\ now_ts < MaxTime
  /\ \A t \in Threads : call[t] # Idle => now_ts < call[t].since + MaxDelay
  /\ now_ts' = now_ts + 1
  /\ UNCHANGED <<stamp, seen, lastSweep, call, accepted, rejected>>

\* sign_request with the clock of the sensor, which may differ.
Sign(r) ==
  /\ stamp[r] = Never
  /\ \E d \in -Drift .. Drift : stamp' = [stamp EXCEPT ![r] = now_ts + d]
  /\ UNCHANGED <<now_ts, seen, lastSweep, call, accepted, rejected>>

\* abs(now_ts - ts_int) <= MAX_CLOCK_SKEW_SEC
InWindow(ts) == now_ts - ts <= Skew /\ ts - now_ts <= Skew

\* Mutant: the nonce is recorded before the signature is compared.
ArriveRecorded(t, r, genuine) ==
  /\ call[t] = Idle /\ stamp[r] # Never
  /\ InWindow(stamp[r])
  /\ seen' = [seen EXCEPT ![r] = now_ts + Retention]
  /\ IF genuine /\ seen[r] = Never
     THEN /\ accepted' = [accepted EXCEPT ![r] = @ + 1]
          /\ UNCHANGED rejected
     ELSE /\ rejected' = IF genuine THEN rejected \cup {r} ELSE rejected
          /\ UNCHANGED accepted
  /\ UNCHANGED <<now_ts, stamp, lastSweep, call>>

\* verify_request up to the signature: a copy of the request arrives, maybe
\* damaged.  Outside the window or with a bad signature it is refused, which
\* changes nothing.
Arrive(t, r, genuine) ==
  /\ call[t] = Idle /\ stamp[r] # Never
  /\ InWindow(stamp[r]) /\ genuine
  /\ call' = [call EXCEPT ![t] = [at |-> "nonce", req |-> r, since |-> now_ts]]
  /\ UNCHANGED <<now_ts, stamp, seen, lastSweep, accepted, rejected>>

\* Mutant: a nonce is forgotten as soon as its expiry has passed.
ExpiredAtOnce(r, when) == seen[r] # Never /\ seen[r] < when

\* The sweep drops what expired a whole retention ago.
Expired(r, when) == seen[r] # Never /\ seen[r] < when - Retention

Expiry(when) == when + Retention

\* check_and_record: the time is read, maybe long before the lock is obtained.
CheckAndRecord(t, when) ==
  LET r      == call[t].req
      sweep  == when - lastSweep > SweepEvery
      swept  == [q \in Requests |-> IF sweep /\ Expired(q, when) THEN Never ELSE seen[q]]
  IN /\ call[t] # Idle /\ call[t].since <= when
     /\ lastSweep' = IF sweep THEN when ELSE lastSweep
     /\ IF swept[r] # Never
        THEN /\ seen' = swept
             /\ rejected' = rejected \cup {r}
             /\ UNCHANGED accepted
        ELSE /\ seen' = [swept EXCEPT ![r] = Expiry(when)]
             /\ accepted' = [accepted EXCEPT ![r] = @ + 1]
             /\ UNCHANGED rejected
     /\ call' = [call EXCEPT ![t] = Idle]
     /\ UNCHANGED <<now_ts, stamp>>

\* The web process is restarted: its memory is gone.
Restart ==
  /\ seen' = [r \in Requests |-> Never] /\ lastSweep' = 0
  /\ call' = [t \in Threads |-> Idle]
  /\ accepted' = [r \in Requests |-> 0] /\ rejected' = {}
  /\ UNCHANGED <<now_ts, stamp>>

Next ==
  \/ AuthTick \/ Restart
  \/ \E r \in Requests : Sign(r)
  \/ \E t \in Threads : \/ \E when \in 0 .. now_ts : CheckAndRecord(t, when)
                        \/ \E r \in Requests, genuine \in BOOLEAN : Arrive(t, r, genuine)

Spec == Init /\ [][Next]_vars

-----------------------------------------------------------------------------
\* Properties

\* "Replay protection via nonce + timestamp window": one web process applies no
\* request twice, however often and however late copies of it arrive, although
\* the sweep forgets nonces and two threads may verify two copies at once.
AtMostOnce == \A r \in Requests : accepted[r] <= 1

\* A request is called a replay only after it was accepted: a damaged or late
\* copy that arrives first does not use up the nonce of the genuine one.
NoFalseReplay == \A r \in rejected : accepted[r] >= 1
=============================================================================

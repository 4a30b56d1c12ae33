---------------------------- MODULE SensorProofs ----------------------------
(***************************************************************************)
(* Proofs about the sensor's telemetry and its process.  SensorAuth, for   *)
(* every number of requests and threads, every skew, retention and clock   *)
(* difference: a web process accepts a request at most once, and calls a   *)
(* request a replay only after it accepted it.  Supervisor: an orderly end *)
(* leaves no child behind, but an engine whose slot went to another.       *)
(***************************************************************************)
EXTENDS SensorAuth, Supervisor, TLAPS

\* A request in hand was inside the window when its check began, and that was
\* at most MaxDelay ago.
CallInv ==
  \A t \in Threads : call[t] # Idle =>
    LET c == call[t]
    IN /\ c.since <= now_ts /\ now_ts <= c.since + MaxDelay
       /\ stamp[c.req] # Never
       /\ c.since <= stamp[c.req] + Skew /\ stamp[c.req] <= c.since + Skew

\* A nonce that is remembered expires a retention after a moment in the window.
SeenInv ==
  \A r \in Requests : seen[r] # Never =>
    /\ stamp[r] # Never /\ accepted[r] = 1
    /\ stamp[r] + Retention <= seen[r] + Skew

\* A nonce that was forgotten belongs to a request no thread can still hold.
ForgottenInv ==
  \A r \in Requests :
    /\ accepted[r] \in {0, 1}
    /\ accepted[r] = 1 => stamp[r] # Never
    /\ accepted[r] = 1 /\ seen[r] = Never => now_ts > stamp[r] + Skew + MaxDelay

IInv == TypeOK /\ CallInv /\ SeenInv /\ ForgottenInv /\ NoFalseReplay

-----------------------------------------------------------------------------
LEMMA InitIInv == Init => IInv
  BY AuthAssumption
  DEF Init, IInv, TypeOK, Calls, Idle, CallInv, SeenInv, ForgottenInv, NoFalseReplay

LEMMA TickIInv == IInv /\ AuthTick => IInv'
<1> SUFFICES ASSUME IInv, AuthTick PROVE IInv'
  OBVIOUS
<1> USE AuthAssumption DEF IInv, AuthTick
<1>1. TypeOK'
  BY DEF TypeOK
<1>2. CallInv'
  BY DEF TypeOK, CallInv, Calls, Idle
<1>3. SeenInv' /\ NoFalseReplay'
  BY DEF SeenInv, NoFalseReplay
<1>4. ForgottenInv'
  BY DEF TypeOK, ForgottenInv
<1> QED BY <1>1, <1>2, <1>3, <1>4

LEMMA SignIInv == ASSUME IInv, NEW q \in Requests, Sign(q) PROVE IInv'
<1> USE AuthAssumption DEF IInv
<1>1. PICK d \in -Drift .. Drift : stamp' = [stamp EXCEPT ![q] = now_ts + d]
  BY DEF Sign
<1>2. stamp[q] = Never /\ UNCHANGED <<now_ts, seen, lastSweep, call, accepted, rejected>>
  BY DEF Sign
<1>3. now_ts + d \in Int /\ now_ts + d # Never
  BY <1>1 DEF TypeOK
<1>4. TypeOK'
  BY <1>1, <1>2, <1>3 DEF TypeOK
<1>5. CallInv'
  BY <1>1, <1>2, <1>3 DEF TypeOK, CallInv, Calls, Idle
<1>6. SeenInv' /\ ForgottenInv' /\ NoFalseReplay'
  BY <1>1, <1>2, <1>3 DEF TypeOK, SeenInv, ForgottenInv, NoFalseReplay
<1> QED BY <1>4, <1>5, <1>6

LEMMA ArriveIInv ==
  ASSUME IInv, NEW t \in Threads, NEW q \in Requests, NEW genuine \in BOOLEAN,
         Arrive(t, q, genuine)
  PROVE  IInv'
<1> USE AuthAssumption DEF IInv, Arrive
<1>1. TypeOK'
  BY DEF TypeOK, Calls, Idle
<1>2. CallInv'
  <2> SUFFICES ASSUME NEW u \in Threads, call'[u] # Idle
               PROVE  LET c == call'[u]
                      IN /\ c.since <= now_ts /\ now_ts <= c.since + MaxDelay
                         /\ stamp[c.req] # Never
                         /\ c.since <= stamp[c.req] + Skew /\ stamp[c.req] <= c.since + Skew
    BY DEF CallInv
  <2>1. CASE u = t
    BY <2>1 DEF TypeOK, InWindow
  <2>2. CASE u # t
    BY <2>2 DEF TypeOK, CallInv
  <2> QED BY <2>1, <2>2
<1>3. SeenInv' /\ ForgottenInv' /\ NoFalseReplay'
  BY DEF SeenInv, ForgottenInv, NoFalseReplay
<1> QED BY <1>1, <1>2, <1>3

\* The state of the tracker after the sweep that check_and_record may do.
Swept(sweep, when) == [q \in Requests |-> IF sweep /\ Expired(q, when) THEN Never ELSE seen[q]]

\* A nonce the sweep forgets is too old for every thread.
LEMMA SweptOld ==
  ASSUME IInv, NEW sweep \in BOOLEAN, NEW q \in Requests,
         NEW when \in 0 .. now_ts
  PROVE  /\ Swept(sweep, when)[q] \in Nat \cup {Never}
         /\ Swept(sweep, when)[q] # Never => Swept(sweep, when)[q] = seen[q]
         /\ accepted[q] = 1 /\ Swept(sweep, when)[q] = Never => now_ts > stamp[q] + Skew + MaxDelay
<1> USE AuthAssumption DEF IInv
<1>1. /\ seen[q] \in Nat \cup {Never} /\ stamp[q] \in Int \cup {Never}
      /\ now_ts \in Nat /\ when \in Nat /\ when <= now_ts
  BY DEF TypeOK
<1>2. Swept(sweep, when)[q] = IF sweep /\ Expired(q, when) THEN Never ELSE seen[q]
  BY DEF Swept
<1>3. CASE Expired(q, when)
  <2>1. seen[q] # Never /\ seen[q] < when - Retention /\ stamp[q] # Never
        /\ stamp[q] + Retention <= seen[q] + Skew
    BY <1>3 DEF Expired, SeenInv
  <2>2. now_ts > stamp[q] + Skew + MaxDelay
    BY <1>1, <2>1
  <2> QED BY <1>1, <1>2, <2>2
<1>4. CASE ~Expired(q, when)
  BY <1>1, <1>2, <1>4 DEF ForgottenInv
<1> QED BY <1>3, <1>4

LEMMA CheckIInv ==
  ASSUME IInv, NEW t \in Threads, NEW when \in 0 .. now_ts, CheckAndRecord(t, when)
  PROVE  IInv'
<1> DEFINE r     == call[t].req
           sweep == when - lastSweep > SweepEvery
           swept == Swept(sweep, when)
<1> USE AuthAssumption
<1>1. /\ call[t] # Idle
      /\ lastSweep' = IF sweep THEN when ELSE lastSweep
      /\ call' = [call EXCEPT ![t] = Idle]
      /\ call[t].since <= when
      /\ UNCHANGED <<now_ts, stamp>>
      /\ \/ /\ swept[r] # Never
            /\ seen' = swept
            /\ rejected' = rejected \cup {r} /\ accepted' = accepted
         \/ /\ swept[r] = Never
            /\ seen' = [swept EXCEPT ![r] = when + Retention]
            /\ accepted' = [accepted EXCEPT ![r] = @ + 1] /\ rejected' = rejected
  BY DEF CheckAndRecord, Swept, Expiry
<1>2. /\ r \in Requests /\ sweep \in BOOLEAN
      /\ now_ts \in Nat /\ lastSweep \in Nat /\ call[t].since \in Nat
      /\ stamp[r] \in Int
      /\ when \in Nat /\ when <= now_ts
      /\ call[t].since <= when /\ now_ts <= call[t].since + MaxDelay
      /\ call[t].since <= stamp[r] + Skew /\ stamp[r] <= call[t].since + Skew
  BY <1>1 DEF IInv, TypeOK, Calls, CallInv
<1>3. \A q \in Requests :
        /\ swept[q] \in Nat \cup {Never}
        /\ swept[q] # Never => swept[q] = seen[q]
        /\ accepted[q] = 1 /\ swept[q] = Never => now_ts > stamp[q] + Skew + MaxDelay
  BY <1>2, SweptOld
<1>4. DOMAIN swept = Requests /\ swept \in [Requests -> Nat \cup {Never}]
  BY <1>3 DEF Swept
<1>5. CallInv'
  BY <1>1 DEF IInv, TypeOK, CallInv
<1> HIDE DEF sweep, swept, r
<1>6. CASE swept[r] # Never /\ seen' = swept
           /\ rejected' = rejected \cup {r} /\ accepted' = accepted
  <2>1. TypeOK'
    BY <1>1, <1>2, <1>4, <1>6 DEF IInv, TypeOK, Calls, Idle
  <2>2. seen[r] # Never
    BY <1>2, <1>3, <1>6
  <2>3. SeenInv' /\ NoFalseReplay'
    BY <1>1, <1>2, <1>3, <1>6, <2>2 DEF IInv, SeenInv, NoFalseReplay
  <2>4. ForgottenInv'
    BY <1>1, <1>3, <1>6 DEF IInv, ForgottenInv
  <2> QED BY <1>5, <2>1, <2>3, <2>4 DEF IInv
<1>7. CASE swept[r] = Never /\ seen' = [swept EXCEPT ![r] = when + Retention]
           /\ accepted' = [accepted EXCEPT ![r] = @ + 1] /\ rejected' = rejected
  <2>1. when + Retention \in Nat /\ when + Retention # Never
    BY <1>2
  <2>2. TypeOK'
    BY <1>1, <1>2, <1>4, <1>7, <2>1 DEF IInv, TypeOK, Calls, Idle
  <2>3. accepted[r] = 0
    <3>1. ~(now_ts > stamp[r] + Skew + MaxDelay)
      BY <1>2
    <3> QED BY <1>2, <1>3, <1>7, <3>1 DEF IInv, ForgottenInv
  <2>4. /\ accepted'[r] = 1 /\ seen'[r] = when + Retention
        /\ \A q \in Requests \ {r} : accepted'[q] = accepted[q] /\ seen'[q] = swept[q]
    BY <1>2, <1>4, <1>7, <2>3 DEF IInv, TypeOK
  <2>5. stamp[r] # Never /\ stamp[r] + Retention <= when + Retention + Skew
    BY <1>2
  <2>6. SeenInv'
    <3> SUFFICES ASSUME NEW q \in Requests, seen'[q] # Never
                 PROVE  /\ stamp[q] # Never /\ accepted'[q] = 1
                        /\ stamp[q] + Retention <= seen'[q] + Skew
      BY <1>1 DEF SeenInv
    <3>1. CASE q = r
      BY <2>4, <2>5, <3>1
    <3>2. CASE q # r
      BY <1>3, <2>4, <3>2 DEF IInv, SeenInv
    <3> QED BY <3>1, <3>2
  <2>7. ForgottenInv'
    <3> SUFFICES ASSUME NEW q \in Requests
                 PROVE  /\ accepted'[q] \in {0, 1}
                        /\ accepted'[q] = 1 => stamp[q] # Never
                        /\ accepted'[q] = 1 /\ seen'[q] = Never
                             => now_ts > stamp[q] + Skew + MaxDelay
      BY <1>1 DEF ForgottenInv
    <3>1. CASE q = r
      BY <2>1, <2>4, <2>5, <3>1
    <3>2. CASE q # r
      BY <1>3, <2>4, <3>2 DEF IInv, ForgottenInv
    <3> QED BY <3>1, <3>2
  <2>8. NoFalseReplay'
    <3> SUFFICES ASSUME NEW q \in rejected PROVE accepted'[q] >= 1
      BY <1>7 DEF NoFalseReplay
    <3>1. q \in Requests /\ accepted[q] >= 1
      BY DEF IInv, TypeOK, NoFalseReplay
    <3> QED BY <2>4, <3>1
  <2> QED BY <1>5, <2>2, <2>6, <2>7, <2>8 DEF IInv
<1> QED BY <1>1, <1>6, <1>7

LEMMA RestartIInv == IInv /\ Restart => IInv'
<1> SUFFICES ASSUME IInv, Restart PROVE IInv'
  OBVIOUS
<1>1. TypeOK'
  BY AuthAssumption DEF Restart, IInv, TypeOK, Calls, Idle
<1>2. CallInv' /\ NoFalseReplay'
  BY DEF Restart, CallInv, NoFalseReplay
<1>3. SeenInv' /\ ForgottenInv'
  BY DEF Restart, SeenInv, ForgottenInv
<1> QED BY <1>1, <1>2, <1>3 DEF IInv

LEMMA StutterIInv == IInv /\ UNCHANGED vars => IInv'
  BY DEF vars, IInv, TypeOK, CallInv, SeenInv, ForgottenInv, NoFalseReplay, Calls, Idle

\* The inductive invariant.
THEOREM Inductive == Spec => []IInv
<1>1. IInv /\ [Next]_vars => IInv'
  BY TickIInv, SignIInv, ArriveIInv, CheckIInv, RestartIInv, StutterIInv DEF Next
<1> QED BY <1>1, InitIInv, PTL DEF Spec

\* The variables keep their types.
THEOREM TypeCorrect == Spec => []TypeOK
<1>1. IInv => TypeOK
  BY DEF IInv
<1> QED BY <1>1, Inductive, PTL

\* One web process applies no telemetry request twice, because a nonce outlives
\* every moment at which a copy of its request could pass the window check.
THEOREM AcceptedAtMostOnce == Spec => []AtMostOnce
<1>1. ASSUME IInv, NEW r \in Requests PROVE accepted[r] <= 1
  <2>1. accepted[r] \in {0, 1}
    BY <1>1 DEF IInv, ForgottenInv
  <2> QED BY <2>1
<1>2. IInv => AtMostOnce
  BY <1>1 DEF AtMostOnce
<1> QED BY <1>2, Inductive, PTL

\* A request is rejected as a replay only after this process accepted it.
THEOREM ReplaysWereAccepted == Spec => []NoFalseReplay
<1>1. IInv => NoFalseReplay
  BY DEF IInv
<1> QED BY <1>1, Inductive, PTL

-----------------------------------------------------------------------------
\* The supervisor

\* Nothing of a slot runs: it was never filled, or its child has ended.
Clear(slot) == handle[slot] = Nobody \/ Exited(slot)

\* A child that runs is the one its slot names, so shutdown finds it; the first engine
\* loses its slot to the second.
Held ==
  /\ Alive("web") => handle["web"] = "web"
  /\ Alive("ssl") => handle["ssl"] = "ssl"
  /\ Alive("ids2") => handle["ids"] = "ids2"
  /\ Alive("ids1") /\ handle["ids"] # "ids1" => autoRestart
  /\ state[Old] = "dead"

\* shutdown() gets to a slot when the ones before are clear, and ends with all of them.
Staged ==
  /\ sup \in {"startWeb", "grace", "startIds"} =>
       handle["ids"] = Nobody /\ handle["ssl"] = Nobody /\ state["ids1"] = "unborn"
  /\ sup \in Waits => handle[Stage[sup]] # Nobody
  /\ sup \in {"stopIds", "waitIds", "stopWeb", "waitWeb"} => Clear("ssl")
  /\ sup \in {"stopWeb", "waitWeb"} => Clear("ids")
  /\ ended = "regular" => sup = "done" /\ \A s \in Slots : Clear(s)

SupInv == SupTypeOK /\ Held /\ Staged

LEMMA SupInitInv == SupInit => SupInv
  BY NobodyAssumption
  DEF SupInit, SupInv, SupTypeOK, Held, Staged, Clear, Exited, Alive, Procs, Engines,
      Old, Slots, Pcs, Stops, Waits, Phases

\* Steps before the loop and in it.
LEMMA StartInv ==
  ASSUME SupInv, StartWeb \/ Grace \/ StartIds \/ StartSsl
  PROVE  SupInv'
<1> USE NobodyAssumption DEF SupInv, Clear, Exited, Alive, Procs, Engines, Old, Slots, Waits,
        Stage, Goto, Escape, BeginShutdown, env, fileVars, engineVars, Spawn
<1>1. CASE StartWeb
  <2>1. SupTypeOK'
    BY <1>1 DEF StartWeb, SupTypeOK, Pcs, Stops
  <2>2. Held'
    BY <1>1 DEF StartWeb, SupTypeOK, Held, Staged
  <2>3. Staged'
    BY <1>1 DEF StartWeb, SupTypeOK, Staged
  <2> QED BY <2>1, <2>2, <2>3
<1>2. CASE Grace
  <2>1. SupTypeOK'
    BY <1>2 DEF Grace, SupTypeOK, Pcs, Stops
  <2>2. Held'
    BY <1>2 DEF Grace, SupTypeOK, Held
  <2>3. Staged'
    BY <1>2 DEF Grace, SupTypeOK, Staged
  <2> QED BY <2>1, <2>2, <2>3
<1>3. CASE StartIds
  <2>1. SupTypeOK'
    BY <1>3 DEF StartIds, SupTypeOK, Pcs, Stops
  <2>2. Held'
    BY <1>3 DEF StartIds, SupTypeOK, Held, Staged
  <2>3. Staged'
    BY <1>3 DEF StartIds, SupTypeOK, Staged
  <2> QED BY <2>1, <2>2, <2>3
<1>4. CASE StartSsl
  <2>1. SupTypeOK'
    BY <1>4 DEF StartSsl, SupTypeOK, Pcs, Stops
  <2>2. Held'
    BY <1>4 DEF StartSsl, SupTypeOK, Held, Staged
  <2>3. Staged'
    BY <1>4 DEF StartSsl, SupTypeOK, Staged
  <2> QED BY <2>1, <2>2, <2>3
<1> QED BY <1>1, <1>2, <1>3, <1>4

LEMMA LoopInv ==
  ASSUME SupInv, Top \/ PollIds \/ PollSsl
  PROVE  SupInv'
<1> USE NobodyAssumption DEF SupInv, Clear, Exited, Alive, Procs, Engines, Old, Slots, Waits,
        Stage, Goto, Escape, BeginShutdown, env, fileVars, engineVars
<1>1. CASE Top
  <2>0. /\ sup' \in {"stopSsl", "pollIds"} /\ shutdown' \in BOOLEAN
        /\ UNCHANGED <<autoRestart, sslEnabled, ended, handle, state, engineVars>>
    BY <1>1 DEF Top, SupTypeOK
  <2>1. SupTypeOK'
    BY <2>0 DEF SupTypeOK, Pcs, Stops
  <2>2. Held'
    BY <1>1 DEF Top, SupTypeOK, Held
  <2>3. Staged'
    BY <1>1 DEF Top, SupTypeOK, Staged
  <2> QED BY <2>1, <2>2, <2>3
<1>2. CASE PollIds
  <2>1. SupTypeOK'
    BY <1>2 DEF PollIds, SupTypeOK, Pcs, Stops
  <2>2. Held'
    BY <1>2 DEF PollIds, SupTypeOK, Held
  <2>3. Staged'
    BY <1>2 DEF PollIds, SupTypeOK, Staged
  <2> QED BY <2>1, <2>2, <2>3
<1>3. CASE PollSsl
  <2>1. SupTypeOK'
    BY <1>3 DEF PollSsl, SupTypeOK, Pcs, Stops
  <2>2. Held'
    BY <1>3 DEF PollSsl, SupTypeOK, Held
  <2>3. Staged'
    BY <1>3 DEF PollSsl, SupTypeOK, Staged
  <2> QED BY <2>1, <2>2, <2>3
<1> QED BY <1>1, <1>2, <1>3

LEMMA ShutdownInv ==
  ASSUME SupInv, SendTerm \/ Reaped \/ KillLate \/ Signal
  PROVE  SupInv'
<1> USE NobodyAssumption DEF SupInv, Clear, Exited, Alive, Procs, Engines, Old, Slots, Waits,
        Stage, Wait, After, Leave, Goto, env, fileVars, engineVars
<1>1. CASE SendTerm
  <2>1. SupTypeOK'
    BY <1>1 DEF SendTerm, SupTypeOK, Pcs, Stops
  <2>2. Held'
    BY <1>1 DEF SendTerm, SupTypeOK, Held
  <2>3. Staged'
    BY <1>1 DEF SendTerm, SupTypeOK, Staged
  <2> QED BY <2>1, <2>2, <2>3
<1>2. CASE Reaped
  <2>1. SupTypeOK'
    BY <1>2 DEF Reaped, SupTypeOK, Pcs, Stops
  <2>2. Held'
    BY <1>2 DEF Reaped, SupTypeOK, Held
  <2>3. Staged'
    BY <1>2 DEF Reaped, SupTypeOK, Staged
  <2> QED BY <2>1, <2>2, <2>3
<1>3. CASE KillLate
  <2>0. PICK slot \in Slots : slot = Stage[sup]
    BY <1>3 DEF KillLate
  <2>1. SupTypeOK'
    <3>1. state' = [state EXCEPT ![handle[slot]] = "dead"]
      BY <1>3, <2>0 DEF KillLate
    <3>2. state' \in [Procs -> {"unborn", "up", "term", "dead"}]
      BY <3>1 DEF SupTypeOK
    <3>3. sup' \in Pcs /\ ended' \in {"no", "regular", "forced", "raised"}
      BY <1>3, <2>0 DEF KillLate, SupTypeOK, Pcs, Stops
    <3> QED BY <1>3, <3>2, <3>3 DEF KillLate, SupTypeOK
  <2>2. Held'
    BY <1>3 DEF KillLate, SupTypeOK, Held
  <2>3. Staged'
    BY <1>3 DEF KillLate, SupTypeOK, Staged
  <2> QED BY <2>1, <2>2, <2>3
<1>4. CASE Signal
  <2>1. SupTypeOK'
    BY <1>4 DEF Signal, SupTypeOK, Pcs, Stops
  <2>2. Held'
    BY <1>4 DEF Signal, SupTypeOK, Held
  <2>3. Staged'
    BY <1>4 DEF Signal, SupTypeOK, Staged
  <2> QED BY <2>1, <2>2, <2>3
<1> QED BY <1>1, <1>2, <1>3, <1>4

\* A step of an engine touches its files, its phase, and its own end.
LEMMA EngineInv ==
  ASSUME SupInv, NEW e \in Engines, EngineStep(e)
  PROVE  SupInv'
<1>1. /\ UNCHANGED <<env, ctl, handle>>
      /\ UNCHANGED state \/ (Alive(e) /\ state' = [state EXCEPT ![e] = "dead"])
  BY DEF EngineStep, WritePid, FailPid, OpenBeat, EndBeat, FailBeat, StartThreads, BeginQuit,
         ClearPid, ClearBeat, Die, Step
<1>2. phase' \in [Engines -> Phases] /\ touching' \in SUBSET Engines
  BY DEF EngineStep, WritePid, FailPid, OpenBeat, EndBeat, FailBeat, StartThreads, BeginQuit,
         ClearPid, ClearBeat, Step, Phases, SupInv, SupTypeOK
<1>3. pidFile' \in Engines \cup {Old, Nobody} /\ beat' \in Beats /\ recycled' \in BOOLEAN
  BY DEF EngineStep, WritePid, FailPid, OpenBeat, EndBeat, FailBeat, StartThreads, BeginQuit,
         ClearPid, ClearBeat, Step, Beats, fileVars, SupInv, SupTypeOK
<1>4. e \in Procs
  BY DEF Procs
<1>5. SupTypeOK'
  BY <1>1, <1>2, <1>3, <1>4 DEF env, ctl, SupInv, SupTypeOK
<1>6. Held' /\ Staged'
  <2> USE NobodyAssumption DEF SupInv, SupTypeOK, Clear, Exited, Alive, Procs, Engines, Old,
          Slots, Waits, Stage, env, ctl
  <2>1. Held'
    BY <1>1 DEF Held
  <2>2. Staged'
    BY <1>1 DEF Staged
  <2> QED BY <2>1, <2>2
<1> QED BY <1>5, <1>6 DEF SupInv

LEMMA ChildInv ==
  ASSUME SupInv,
         (\E p \in Procs : ChildDies(p)) \/ BeatAges \/ PidReused \/ UNCHANGED supVars
  PROVE  SupInv'
<1> USE NobodyAssumption DEF SupInv, Clear, Exited, Alive, Procs, Engines, Old, Slots, Waits,
        Stage, env, fileVars, ctl, engineVars, Beats
<1>1. CASE \E p \in Procs : ChildDies(p)
  <2> PICK p \in Procs : ChildDies(p)
    BY <1>1
  <2>1. SupTypeOK'
    BY DEF ChildDies, Die, SupTypeOK
  <2>2. Held'
    BY DEF ChildDies, Die, SupTypeOK, Held
  <2>3. Staged'
    BY DEF ChildDies, Die, SupTypeOK, Staged
  <2> QED BY <2>1, <2>2, <2>3
<1>2. CASE BeatAges
  BY <1>2 DEF BeatAges, SupTypeOK, Held, Staged
<1>3. CASE PidReused
  BY <1>3 DEF PidReused, SupTypeOK, Held, Staged
<1>4. CASE UNCHANGED supVars
  BY <1>4 DEF supVars, SupTypeOK, Held, Staged
<1> QED BY <1>1, <1>2, <1>3, <1>4

LEMMA SupInvariant == SupSpec => []SupInv
<1>1. SupInv /\ [SupNext]_supVars => SupInv'
  BY StartInv, LoopInv, ShutdownInv, EngineInv, ChildInv DEF SupNext, SupStep
<1> QED BY <1>1, SupInitInv, PTL DEF SupSpec

\* A supervisor that ends in order has ended its children: whatever crashes and signals
\* there were, the process that escapes it is an engine that lost its slot to another.
THEOREM NoChildIsLeft == SupSpec => []NoOrphan
<1>1. SupInv => NoOrphan
  BY NobodyAssumption
  DEF SupInv, SupTypeOK, Held, Staged, Clear, Exited, Alive, NoOrphan, Procs, Engines, Old,
      Slots
<1> QED BY <1>1, SupInvariant, PTL
=============================================================================

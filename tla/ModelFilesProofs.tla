-------------------------- MODULE ModelFilesProofs --------------------------
(***************************************************************************)
(* Proofs about ModelFiles for every number of workers, retrainers and     *)
(* runs: a prediction uses one bundle, and that bundle scales with the run *)
(* its forest came from unless a save was cut short or overlapped.         *)
(***************************************************************************)
EXTENDS ModelFiles, TLAPS

\* Whatever a worker has in hand was published.
FromPublished ==
  /\ bundle # None => bundle \in published
  /\ \A w \in Workers :
       /\ job[w].at \in {"scale", "infer"} => job[w].snap \in published
       /\ job[w].at = "infer" => job[w].got = job[w].snap
       /\ job[w].at = "done" => job[w].got \in published

\* Without a broken save one retrainer writes at a time and nobody reads meanwhile;
\* the forest and the scaler on the disk differ only between the two writes.
Undisturbed ==
  /\ \A t, u \in Saving : t = u
  /\ Loading => Saving = {}
  /\ \A t \in Saving : IF trainer[t].at = "rf" THEN Fits(disk) ELSE disk.rf = trainer[t].run
  /\ Saving = {} => Fits(disk)
  /\ load.at \in {"iso", "scaler"} => load.got.rf = disk.rf
  /\ load.at = "publish" => Fits(load.got)
  /\ \A b \in published : Fits(b)

IInv == TypeOK /\ FromPublished /\ (~broken => Undisturbed)

-----------------------------------------------------------------------------
LEMMA Types ==
  ASSUME TypeOK
  PROVE  /\ disk.rf \in Runs /\ disk.scaler \in Runs /\ disk.iso \in Runs \cup {None}
         /\ \A t \in Trainers : /\ trainer[t].run \in Runs /\ trainer[t].isoFit \in BOOLEAN
                                /\ trainer[t].at \in Writing \cup {"idle", "reload"}
         /\ load.got \in Bundles /\ load.at \in Writing \cup {"idle", "publish"}
         /\ \A w \in Workers : job[w] \in Jobs
  BY DEF TypeOK, Bundles

\* The bootstrap leaves a forest and a scaler of the same run.
LEMMA InitIInv == Init => IInv
<1> SUFFICES ASSUME Init PROVE IInv
  OBVIOUS
<1>1. 0 \in Runs /\ MaxFailures \in Nat
  BY ModelFilesAssumption DEF Runs
<1>2. TypeOK
  <2>1. disk \in Bundles
    BY <1>1 DEF Init, Bundles
  <2>2. trainer \in [Trainers -> [at : Writing \cup {"idle", "reload"}, run : Runs,
                                 isoFit : BOOLEAN]]
    BY <1>1 DEF Init, Writing
  <2>3. load \in [at : Writing \cup {"idle", "publish"}, got : Bundles]
    BY <1>1 DEF Init, Begun, Bundles, Writing
  <2>4. job \in [Workers -> Jobs]
    BY DEF Init, Jobs
  <2>5. /\ bundle \in Bundles \cup {None} /\ published \subseteq Bundles
        /\ runs \in Runs /\ broken \in BOOLEAN
    BY <1>1 DEF Init
  <2>6. failures \in 0 .. MaxFailures
    BY <1>1 DEF Init
  <2> QED BY <2>1, <2>2, <2>3, <2>4, <2>5, <2>6 DEF TypeOK
<1>3. Saving = {} /\ Fits(disk)
  BY DEF Init, Saving, Writing, Fits
<1> QED BY <1>2, <1>3 DEF Init, IInv, FromPublished, Undisturbed, NoJob, Begun

-----------------------------------------------------------------------------
\* Type correctness, one lemma for each group of steps.
LEMMA SaveTypes ==
  ASSUME TypeOK, NEW t \in Trainers, Train(t) \/ Save(t) \/ SaveFails(t)
  PROVE  TypeOK'
<1>1. CASE Train(t)
  <2>1. runs' \in Runs
    BY <1>1, ModelFilesAssumption DEF Train, TypeOK, Runs
  <2>2. PICK fit \in BOOLEAN :
          trainer' = [trainer EXCEPT ![t] = [at |-> "rf", run |-> runs', isoFit |-> fit]]
    BY <1>1 DEF Train
  <2>3. broken' \in BOOLEAN
    BY <1>1 DEF Train
  <2>4. [at |-> "rf", run |-> runs', isoFit |-> fit]
          \in [at : Writing \cup {"idle", "reload"}, run : Runs, isoFit : BOOLEAN]
    BY <2>1 DEF Writing
  <2>5. trainer' \in [Trainers -> [at : Writing \cup {"idle", "reload"}, run : Runs,
                                  isoFit : BOOLEAN]]
    BY <2>2, <2>4 DEF TypeOK
  <2> QED BY <1>1, <2>1, <2>3, <2>5 DEF Train, TypeOK, model
<1>2. CASE SaveRf(t)
  <2>1. disk' \in Bundles
    BY <1>2, Types DEF SaveRf, TypeOK, Bundles
  <2> QED BY <1>2, <2>1 DEF SaveRf, TypeOK, model, Writing
<1>3. CASE SaveIso(t)
  <2>1. disk' \in Bundles
    BY <1>3, Types DEF SaveIso, TypeOK, Bundles
  <2> QED BY <1>3, <2>1 DEF SaveIso, TypeOK, model, Writing
<1>4. CASE SaveScaler(t)
  <2>1. disk' \in Bundles
    BY <1>4, Types DEF SaveScaler, TypeOK, Bundles
  <2> QED BY <1>4, <2>1 DEF SaveScaler, TypeOK, model, Writing
<1>5. CASE SaveFails(t)
  <2>1. failures' \in 0 .. MaxFailures /\ broken' \in BOOLEAN
    BY <1>5, ModelFilesAssumption DEF SaveFails, Fail, TypeOK
  <2> QED BY <1>5, <2>1 DEF SaveFails, TypeOK, model, Writing
<1> QED BY <1>1, <1>2, <1>3, <1>4, <1>5 DEF Save

LEMMA LoadTypes ==
  ASSUME TypeOK, Reload \/ Build \/ LoadFails \/ Restart
  PROVE  TypeOK'
<1>1. Begun("rf") \in [at : Writing \cup {"idle", "publish"}, got : Bundles]
      /\ Begun("idle") \in [at : Writing \cup {"idle", "publish"}, got : Bundles]
  BY ModelFilesAssumption DEF Begun, Bundles, Writing, Runs
<1>2. Daily \in Trainers
  BY DEF Trainers
<1>3. Fail => failures' \in 0 .. MaxFailures
  BY ModelFilesAssumption DEF Fail, TypeOK
<1>4. CASE Reload
  <2>1. broken' \in BOOLEAN
    BY <1>4 DEF Reload
  <2> QED BY <1>1, <1>4, <2>1 DEF Reload, TypeOK, files
<1>5. CASE LoadRf
  <2>1. load' \in [at : Writing \cup {"idle", "publish"}, got : Bundles]
    BY <1>5, Types DEF LoadRf, Bundles, Writing
  <2> QED BY <1>5, <2>1 DEF LoadRf, TypeOK, files
<1>6. CASE LoadIso
  <2>1. load' \in [at : Writing \cup {"idle", "publish"}, got : Bundles]
    BY <1>6, Types DEF LoadIso, Bundles, Writing
  <2> QED BY <1>3, <1>6, <2>1 DEF LoadIso, TypeOK, files
<1>7. CASE LoadScaler
  <2>1. load' \in [at : Writing \cup {"idle", "publish"}, got : Bundles]
    BY <1>7, Types DEF LoadScaler, Bundles, Writing
  <2> QED BY <1>7, <2>1 DEF LoadScaler, TypeOK, files
<1>8. CASE Publish
  <2>1. load.got \in Bundles
    BY Types
  <2> QED BY <1>1, <1>2, <1>8, <2>1 DEF Publish, ReloadEnds, TypeOK
<1>9. CASE LoadFails
  BY <1>1, <1>2, <1>3, <1>9 DEF LoadFails, ReloadEnds, TypeOK
<1>10. CASE Restart
  <2>1. NoJob \in Jobs /\ broken' \in BOOLEAN
    BY <1>10 DEF NoJob, Jobs, Restart
  <2> QED BY <1>1, <1>2, <1>3, <1>10, <2>1 DEF Restart, TypeOK
<1> QED BY <1>4, <1>5, <1>6, <1>7, <1>8, <1>9, <1>10 DEF Build

LEMMA PredictTypes ==
  ASSUME TypeOK, NEW w \in Workers, Take(w) \/ Scale(w) \/ Infer(w)
  PROVE  TypeOK'
<1>1. job[w] \in Jobs /\ bundle \in Bundles \cup {None}
  BY DEF TypeOK
<1>2. CASE Take(w)
  <2>1. [at |-> "scale", snap |-> bundle, got |-> None] \in Jobs
    BY <1>1, <1>2 DEF Take, Jobs
  <2> QED BY <1>2, <2>1 DEF Take, TypeOK, files, model
<1>3. CASE Scale(w)
  <2>1. job[w].snap \in Bundles
    BY <1>1, <1>3 DEF Scale, Jobs, NoJob
  <2>2. [job[w] EXCEPT !.at = "infer", !.got = job[w].snap] \in Jobs
    BY <1>1, <1>3, <2>1 DEF Scale, Jobs, NoJob
  <2> QED BY <1>3, <2>2 DEF Scale, TypeOK, files, model
<1>4. CASE Infer(w)
  <2>1. job[w].snap \in Bundles /\ job[w].got \in Bundles
    BY <1>1, <1>4 DEF Infer, Jobs, NoJob
  <2> DEFINE b == [job[w].snap EXCEPT !.scaler = job[w].got.scaler]
  <2>2. b \in Bundles
    BY <2>1 DEF Bundles
  <2> HIDE DEF b
  <2>3. [job[w] EXCEPT !.at = "done", !.snap = None, !.got = b] \in Jobs
    BY <1>1, <1>4, <2>2 DEF Infer, Jobs, NoJob
  <2>4. job' = [job EXCEPT ![w] = [job[w] EXCEPT !.at = "done", !.snap = None, !.got = b]]
    BY <1>4 DEF Infer, b
  <2> QED BY <1>4, <2>3, <2>4 DEF Infer, TypeOK, files, model
<1> QED BY <1>2, <1>3, <1>4

-----------------------------------------------------------------------------
\* What workers have in hand stays published: no step takes a bundle back.
LEMMA PublishedStep ==
  ASSUME IInv, [Next]_vars
  PROVE  FromPublished'
<1>1. TypeOK /\ FromPublished
  BY DEF IInv
<1>2. ASSUME NEW t \in Trainers, Train(t) \/ Save(t) \/ SaveFails(t)
      PROVE  FromPublished'
  BY <1>1, <1>2 DEF Train, Save, SaveRf, SaveIso, SaveScaler, SaveFails, model, FromPublished
<1>3. CASE Reload \/ LoadRf \/ LoadIso \/ LoadScaler \/ LoadFails
  BY <1>1, <1>3 DEF Reload, LoadRf, LoadIso, LoadScaler, LoadFails, FromPublished
<1>4. CASE Publish
  BY <1>1, <1>4 DEF Publish, FromPublished
<1>5. CASE Restart
  BY <1>1, <1>5 DEF Restart, FromPublished, NoJob
<1>6. ASSUME NEW w \in Workers, Take(w) \/ Scale(w) \/ Infer(w)
      PROVE  FromPublished'
  <2>1. /\ job \in [Workers -> Jobs] /\ job[w] \in Jobs
        /\ UNCHANGED <<bundle, published>>
    BY <1>1, <1>6 DEF Take, Scale, Infer, TypeOK, model
  <2>2. \A v \in Workers \ {w} : job'[v] = job[v]
    BY <1>6, <2>1 DEF Take, Scale, Infer
  <2>3. /\ job'[w].at \in {"scale", "infer"} => job'[w].snap \in published
        /\ job'[w].at = "infer" => job'[w].got = job'[w].snap
        /\ job'[w].at = "done" => job'[w].got \in published
    <3>1. CASE Take(w)
      <4>1. job'[w] = [at |-> "scale", snap |-> bundle, got |-> None] /\ bundle \in published
        BY <1>1, <2>1, <3>1 DEF Take, FromPublished
      <4> QED BY <4>1
    <3>2. CASE Scale(w)
      <4>1. job[w].snap \in published /\ job'[w] = [job[w] EXCEPT !.at = "infer", !.got = job[w].snap]
        BY <1>1, <2>1, <3>2 DEF Scale, FromPublished
      <4>2. job'[w].at = "infer" /\ job'[w].snap = job[w].snap /\ job'[w].got = job[w].snap
        BY <2>1, <4>1 DEF Jobs, NoJob
      <4> QED BY <4>1, <4>2
    <3>3. CASE Infer(w)
      <4>1. job[w].snap \in published /\ job[w].got = job[w].snap /\ job[w].snap \in Bundles
        BY <1>1, <2>1, <3>3 DEF Infer, FromPublished, Jobs, NoJob
      <4>2. [job[w].snap EXCEPT !.scaler = job[w].got.scaler] = job[w].snap
        BY <4>1 DEF Bundles
      <4>3. job'[w] = [job[w] EXCEPT !.at = "done", !.snap = None, !.got = job[w].snap]
        BY <2>1, <3>3, <4>2 DEF Infer
      <4>4. job'[w].at = "done" /\ job'[w].got = job[w].snap
        BY <2>1, <4>3 DEF Jobs, NoJob
      <4> QED BY <4>1, <4>4
    <3> QED BY <1>6, <3>1, <3>2, <3>3
  <2> QED BY <1>1, <2>1, <2>2, <2>3 DEF FromPublished
<1>7. CASE UNCHANGED vars
  BY <1>1, <1>7 DEF vars, model, FromPublished
<1> QED BY <1>2, <1>3, <1>4, <1>5, <1>6, <1>7 DEF Next, Build
-----------------------------------------------------------------------------
\* As long as no save is broken the files stay together.
LEMMA TrainStep ==
  ASSUME IInv, NEW t \in Trainers, Train(t), ~broken'
  PROVE  Undisturbed'
<1>1. /\ ~broken /\ Undisturbed /\ Saving = {} /\ ~Loading
      /\ UNCHANGED <<disk, load, published>>
  BY DEF Train, IInv, TypeOK, model
<1>2. PICK fit \in BOOLEAN :
        trainer' = [trainer EXCEPT ![t] = [at |-> "rf", run |-> runs', isoFit |-> fit]]
  BY DEF Train
<1>3. trainer'[t].at = "rf" /\ \A u \in Trainers \ {t} : trainer'[u] = trainer[u]
  BY <1>2 DEF IInv, TypeOK
<1>4. Saving' = {t}
  BY <1>1, <1>3 DEF Saving, Writing
<1> QED BY <1>1, <1>3, <1>4 DEF Undisturbed, Fits, Loading

LEMMA SaveStep ==
  ASSUME IInv, NEW t \in Trainers, Save(t) \/ SaveFails(t), ~broken'
  PROVE  Undisturbed'
<1>1. ~broken /\ Undisturbed /\ UNCHANGED <<load, published>>
  BY DEF Save, SaveRf, SaveIso, SaveScaler, SaveFails, model, IInv, TypeOK
<1>2. t \in Saving /\ Saving = {t} /\ ~Loading
  BY <1>1 DEF Undisturbed, Saving, Writing, Save, SaveRf, SaveIso, SaveScaler, SaveFails
<1>3. trainer'[t].run = trainer[t].run /\ \A u \in Trainers \ {t} : trainer'[u] = trainer[u]
  BY DEF Save, SaveRf, SaveIso, SaveScaler, SaveFails, IInv, TypeOK
<1>4. \A u \in Trainers \ {t} : u \notin Saving'
  BY <1>2, <1>3 DEF Saving
<1>5. CASE SaveRf(t)
  <2>1. trainer'[t].at \in {"iso", "scaler"} /\ disk'.rf = trainer[t].run
    BY <1>5 DEF SaveRf, IInv, TypeOK, Bundles
  <2>2. Saving' = {t}
    BY <1>4, <2>1 DEF Saving, Writing
  <2> QED BY <1>1, <1>2, <1>3, <2>1, <2>2 DEF Undisturbed, Loading
<1>6. CASE SaveIso(t)
  <2>1. /\ trainer'[t].at = "scaler" /\ trainer[t].at = "iso" /\ disk'.rf = disk.rf
    BY <1>6 DEF SaveIso, IInv, TypeOK, Bundles
  <2>2. Saving' = {t} /\ disk.rf = trainer[t].run
    BY <1>1, <1>2, <1>4, <2>1 DEF Saving, Writing, Undisturbed
  <2> QED BY <1>1, <1>2, <1>3, <2>1, <2>2 DEF Undisturbed, Loading
<1>7. CASE SaveScaler(t)
  <2>1. /\ trainer'[t].at \in {"idle", "reload"} /\ trainer[t].at = "scaler"
        /\ disk'.rf = disk.rf /\ disk'.scaler = trainer[t].run
    BY <1>7 DEF SaveScaler, IInv, TypeOK, Bundles
  <2>2. Saving' = {} /\ disk.rf = trainer[t].run
    BY <1>1, <1>2, <1>4, <2>1 DEF Saving, Writing, Undisturbed
  <2> QED BY <1>1, <1>2, <2>1, <2>2 DEF Undisturbed, Loading, Fits
<1>8. CASE SaveFails(t)
  <2>1. trainer'[t].at = "idle" /\ trainer[t].at = "rf" /\ disk' = disk
    BY <1>1, <1>8 DEF SaveFails, IInv, TypeOK
  <2>2. Saving' = {} /\ Fits(disk)
    BY <1>1, <1>2, <1>4, <2>1 DEF Saving, Writing, Undisturbed
  <2> QED BY <1>1, <1>2, <2>1, <2>2 DEF Undisturbed, Loading, Fits
<1> QED BY <1>5, <1>6, <1>7, <1>8 DEF Save

\* Loading starts and goes on without a writer, so it reads one run.
LEMMA LoadStep ==
  ASSUME IInv, Reload \/ Build \/ LoadFails, ~broken'
  PROVE  Undisturbed'
<1>1. ~broken /\ Undisturbed /\ disk' = disk
  BY DEF Reload, Build, LoadRf, LoadIso, LoadScaler, Publish, LoadFails, files, IInv, TypeOK
<1>2. Saving' = Saving
  <2>1. CASE Reload \/ LoadRf \/ LoadIso \/ LoadScaler
    BY <2>1 DEF Reload, LoadRf, LoadIso, LoadScaler, files, Saving
  <2>2. CASE Publish \/ LoadFails
    <3>1. Loading /\ trainer' = [trainer EXCEPT ![Daily].at = "idle"]
      BY <2>2 DEF Publish, LoadFails, ReloadEnds, Loading
    <3>2. Saving = {}
      BY <1>1, <3>1 DEF Undisturbed
    <3>3. \A u \in Trainers : trainer'[u].at \in {trainer[u].at, "idle"}
      BY <3>1 DEF IInv, TypeOK
    <3> QED BY <3>2, <3>3 DEF Saving, Writing
  <2> QED BY <2>1, <2>2 DEF Build
<1>3. Saving = {} /\ Fits(disk)
  BY <1>1 DEF Undisturbed, Reload, Build, LoadRf, LoadIso, LoadScaler, Publish, LoadFails,
              Loading
<1>4. /\ load'.at \in {"iso", "scaler"} => load'.got.rf = disk.rf
      /\ load'.at = "publish" => Fits(load'.got)
      /\ \A b \in published' : Fits(b)
  <2>1. load.got \in Bundles
    BY Types DEF IInv
  <2>2. CASE Reload \/ LoadFails
    BY <1>1, <2>2 DEF Reload, LoadFails, Begun, Undisturbed
  <2>3. CASE LoadRf
    BY <1>1, <2>1, <2>3 DEF LoadRf, Undisturbed, Bundles
  <2>4. CASE LoadIso
    BY <1>1, <2>1, <2>4 DEF LoadIso, Undisturbed, Bundles
  <2>5. CASE LoadScaler
    BY <1>1, <1>3, <2>1, <2>5 DEF LoadScaler, Undisturbed, Bundles, Fits
  <2>6. CASE Publish
    BY <1>1, <2>6 DEF Publish, Begun, Undisturbed
  <2> QED BY <2>2, <2>3, <2>4, <2>5, <2>6 DEF Build
<1> QED BY <1>1, <1>2, <1>3, <1>4 DEF Undisturbed, Fits

LEMMA RestartStep ==
  ASSUME IInv, Restart, ~broken'
  PROVE  Undisturbed'
<1>1. /\ ~broken /\ Undisturbed /\ UNCHANGED <<disk, published>>
      /\ trainer[Daily].at \notin {"iso", "scaler"} /\ Saving \ {Daily} = {}
      /\ load' = Begun("rf") /\ trainer' = [trainer EXCEPT ![Daily].at = "idle"]
  BY DEF Restart, IInv, TypeOK, Writing
<1>2. trainer'[Daily].at = "idle" /\ \A u \in Trainers \ {Daily} : trainer'[u] = trainer[u]
  BY <1>1 DEF IInv, TypeOK, Trainers
<1>3. Saving' = {}
  BY <1>1, <1>2 DEF Saving, Writing
<1>4. Fits(disk)
  BY <1>1 DEF Undisturbed, Saving, Writing
<1> QED BY <1>1, <1>3, <1>4 DEF Undisturbed, Begun, Fits

\* The inductive invariant.
THEOREM Inductive == Spec => []IInv
<1>1. IInv /\ [Next]_vars => IInv'
  <2> SUFFICES ASSUME IInv, [Next]_vars PROVE IInv'
    OBVIOUS
  <2>1. CASE UNCHANGED vars
    BY <2>1 DEF vars, files, model, IInv, TypeOK, FromPublished, Undisturbed, Saving,
                Loading
  <2>2. FromPublished'
    BY PublishedStep
  <2>3. ASSUME NEW t \in Trainers, Train(t) \/ Save(t) \/ SaveFails(t) PROVE IInv'
    BY <2>2, <2>3, SaveTypes, TrainStep, SaveStep DEF IInv
  <2>4. CASE Reload \/ Build \/ LoadFails
    BY <2>2, <2>4, LoadTypes, LoadStep DEF IInv
  <2>5. CASE Restart
    BY <2>2, <2>5, LoadTypes, RestartStep DEF IInv
  <2>6. ASSUME NEW w \in Workers, Take(w) \/ Scale(w) \/ Infer(w) PROVE IInv'
    <3>1. TypeOK'
      BY <2>6, PredictTypes DEF IInv
    <3>2. UNCHANGED <<disk, trainer, load, published, broken>>
      BY <2>6 DEF Take, Scale, Infer, files, model
    <3>3. ~broken' => Undisturbed'
      BY <3>2 DEF IInv, Undisturbed, Saving, Loading
    <3> QED BY <2>2, <3>1, <3>3 DEF IInv
  <2> QED BY <2>1, <2>3, <2>4, <2>5, <2>6 DEF Next
<1> QED BY <1>1, InitIInv, PTL DEF Spec

\* The variables keep their types.
THEOREM TypeCorrect == Spec => []TypeOK
<1>1. IInv => TypeOK
  BY DEF IInv
<1> QED BY <1>1, Inductive, PTL

\* A prediction used one bundle that was published, whatever reloads meanwhile.
THEOREM PredictionsAreWhole == Spec => []OneBundle
<1>1. IInv => OneBundle
  BY DEF IInv, FromPublished, OneBundle, Results
<1> QED BY <1>1, Inductive, PTL

\* A prediction never pairs a scaler with another run's forest, unless a save was cut
\* short or overlapped with another save or a load.
THEOREM ScalerFitsForest == Spec => []MixNeedsBrokenSave
<1>1. IInv => MixNeedsBrokenSave
  BY DEF IInv, FromPublished, Undisturbed, MixNeedsBrokenSave, Results
<1> QED BY <1>1, Inductive, PTL
=============================================================================

----------------------------- MODULE ModelFiles -----------------------------
(***************************************************************************)
(* The models of the classifier: ai/retrainer.py writes them file by file, *)
(* ai/classifier.py reads them file by file into a bundle that the worker  *)
(* threads of the sensor predict with.  The sensor retrains once a day and *)
(* reloads; an administrator may retrain from the command line meanwhile.  *)
(*                                                                         *)
(* A model is the number of the training run that fitted it; 0 is the      *)
(* bootstrap training.  feature_names.pkl never changes and is left out.   *)
(***************************************************************************)
EXTENDS Naturals

CONSTANTS
  Workers,      \* threads of the sensor that call predict
  Daily,        \* auto_retrain, a thread of the sensor
  Manual,       \* retrainers run from the command line
  MaxRuns,      \* bound of the model: training runs
  MaxFailures,  \* bound of the model: failed writes and reads, ends of processes
  None          \* no file, no bundle

ASSUME ModelFilesAssumption ==
  /\ {MaxRuns, MaxFailures} \subseteq Nat
  /\ Daily \notin Manual /\ None \notin Nat

VARIABLES
  disk,       \* rf_model.pkl, iso_model.pkl, scaler.pkl
  trainer,    \* what each retrainer is writing, and for which run
  load,       \* _build_bundle in the sensor: the files read so far
  bundle,     \* _bundle
  job,        \* the predict call of each worker
  published,  \* every bundle _bundle has been (history)
  runs, failures,
  broken      \* a save was interrupted, or ran beside another save or a load (history)

files == <<disk, trainer, runs>>
model == <<load, bundle, published>>
vars  == <<files, model, job, failures, broken>>

-----------------------------------------------------------------------------
Trainers == Manual \cup {Daily}
Runs     == 0 .. MaxRuns
Bundles  == [rf : Runs, iso : Runs \cup {None}, scaler : Runs]

\* A predict call scales the features, then asks the forests; got is what it used.
NoJob == [at |-> "idle", snap |-> None, got |-> None]
Jobs  == {NoJob} \cup [at : {"scale"}, snap : Bundles, got : {None}]
                 \cup [at : {"infer"}, snap : Bundles, got : Bundles]
                 \cup [at : {"done"},  snap : {None},  got : Bundles]

\* The files are written, and read, in this order; isoFit: enough benign rows.
Writing == {"rf", "iso", "scaler"}
Saving  == {t \in Trainers : trainer[t].at \in Writing}
Loading == load.at # "idle"

TypeOK ==
  /\ disk \in Bundles
  /\ trainer \in [Trainers -> [at : Writing \cup {"idle", "reload"}, run : Runs,
                               isoFit : BOOLEAN]]
  /\ load \in [at : Writing \cup {"idle", "publish"}, got : Bundles]
  /\ bundle \in Bundles \cup {None}
  /\ job \in [Workers -> Jobs]
  /\ published \subseteq Bundles
  /\ runs \in Runs /\ failures \in 0 .. MaxFailures
  /\ broken \in BOOLEAN

Begun(step) == [at |-> step, got |-> [rf |-> 0, iso |-> None, scaler |-> 0]]

\* The bootstrap has trained; the sensor is importing the classifier.
Init ==
  /\ disk \in [rf : {0}, iso : {0, None}, scaler : {0}]
  /\ trainer = [t \in Trainers |-> [at |-> "idle", run |-> 0, isoFit |-> FALSE]]
  /\ load = Begun("rf")
  /\ bundle = None /\ published = {}
  /\ job = [w \in Workers |-> NoJob]
  /\ runs = 0 /\ failures = 0 /\ broken = FALSE

Fail == failures < MaxFailures /\ failures' = failures + 1

-----------------------------------------------------------------------------
\* retrain

\* The new models are fitted; the first of them is about to replace its file.
Train(t) ==
  /\ trainer[t].at = "idle" /\ runs < MaxRuns
  /\ t = Daily => bundle # None /\ ~Loading
  /\ runs' = runs + 1
  /\ \E fit \in BOOLEAN :
       trainer' = [trainer EXCEPT ![t] = [at |-> "rf", run |-> runs', isoFit |-> fit]]
  /\ broken' = (broken \/ Saving # {} \/ Loading)
  /\ UNCHANGED <<disk, model, job, failures>>

SaveRf(t) ==
  /\ trainer[t].at = "rf"
  /\ disk' = [disk EXCEPT !.rf = trainer[t].run]
  /\ trainer' = [trainer EXCEPT ![t].at = IF trainer[t].isoFit THEN "iso" ELSE "scaler"]
  /\ UNCHANGED <<runs, model, job, failures, broken>>

SaveIso(t) ==
  /\ trainer[t].at = "iso"
  /\ disk' = [disk EXCEPT !.iso = trainer[t].run]
  /\ trainer' = [trainer EXCEPT ![t].at = "scaler"]
  /\ UNCHANGED <<runs, model, job, failures, broken>>

\* Mutant: the sensor does not reload after its retrain.
SaveScalerOnly(t) ==
  /\ trainer[t].at = "scaler"
  /\ disk' = [disk EXCEPT !.scaler = trainer[t].run]
  /\ trainer' = [trainer EXCEPT ![t].at = "idle"]
  /\ UNCHANGED <<runs, model, job, failures, broken>>

\* The last file.  Only the retrainer inside the sensor tells the classifier.
SaveScaler(t) ==
  /\ trainer[t].at = "scaler"
  /\ disk' = [disk EXCEPT !.scaler = trainer[t].run]
  /\ trainer' = [trainer EXCEPT ![t].at = IF t = Daily THEN "reload" ELSE "idle"]
  /\ UNCHANGED <<runs, model, job, failures, broken>>

\* A dump raises or the command-line retrainer is killed: the run ends with the
\* files it had written; a file itself is replaced whole or not at all.
SaveFails(t) ==
  /\ t \in Saving /\ Fail
  /\ trainer' = [trainer EXCEPT ![t].at = "idle"]
  /\ broken' = (broken \/ trainer[t].at # "rf")
  /\ UNCHANGED <<disk, runs, model, job>>

-----------------------------------------------------------------------------
\* _build_bundle, at import and in reload_models

\* Mutant: the bundle is rebuilt as soon as the forest is on the disk.
ReloadEarly ==
  /\ trainer[Daily].at \in {"iso", "scaler", "reload"} /\ ~Loading
  /\ load' = Begun("rf")
  /\ broken' = (broken \/ Saving \ {Daily} # {})
  /\ UNCHANGED <<files, bundle, published, job, failures>>

Reload ==
  /\ trainer[Daily].at = "reload" /\ ~Loading
  /\ load' = Begun("rf")
  /\ broken' = (broken \/ Saving # {})
  /\ UNCHANGED <<files, bundle, published, job, failures>>

LoadRf ==
  /\ load.at = "rf"
  /\ load' = [at |-> "iso", got |-> [load.got EXCEPT !.rf = disk.rf]]
  /\ UNCHANGED <<files, bundle, published, job, failures, broken>>

\* The anomaly model is optional.
LoadIso ==
  /\ load.at = "iso"
  /\ \/ load' = [at |-> "scaler", got |-> [load.got EXCEPT !.iso = disk.iso]] /\ UNCHANGED failures
     \/ load' = [at |-> "scaler", got |-> [load.got EXCEPT !.iso = None]] /\ Fail
  /\ UNCHANGED <<files, bundle, published, job, broken>>

LoadScaler ==
  /\ load.at = "scaler"
  /\ load' = [at |-> "publish", got |-> [load.got EXCEPT !.scaler = disk.scaler]]
  /\ UNCHANGED <<files, bundle, published, job, failures, broken>>

\* auto_retrain goes back to sleep after a reload, whatever its outcome.
ReloadEnds == trainer' = [trainer EXCEPT ![Daily].at = "idle"]

Publish ==
  /\ load.at = "publish"
  /\ bundle' = load.got /\ published' = published \cup {load.got}
  /\ load' = Begun("idle")
  /\ ReloadEnds
  /\ UNCHANGED <<disk, runs, job, failures, broken>>

\* A required file cannot be read: the old bundle stays.
LoadFails ==
  /\ load.at \in {"rf", "scaler"} /\ bundle # None /\ Fail
  /\ load' = Begun("idle")
  /\ ReloadEnds
  /\ UNCHANGED <<disk, runs, bundle, published, job, broken>>

-----------------------------------------------------------------------------
\* predict

Take(w) ==
  /\ job[w].at \in {"idle", "done"} /\ bundle # None
  /\ job' = [job EXCEPT ![w] = [at |-> "scale", snap |-> bundle, got |-> None]]
  /\ UNCHANGED <<files, model, failures, broken>>

\* Mutant: the global is read again.
ScaleGlobal(w) ==
  /\ job[w].at = "scale"
  /\ job' = [job EXCEPT ![w] = [@ EXCEPT !.at = "infer", !.got = bundle]]
  /\ UNCHANGED <<files, model, failures, broken>>

Scale(w) ==
  /\ job[w].at = "scale"
  /\ job' = [job EXCEPT ![w] = [@ EXCEPT !.at = "infer", !.got = job[w].snap]]
  /\ UNCHANGED <<files, model, failures, broken>>

\* _predict_components: the forests judge what the scaler made of the features.
Infer(w) ==
  /\ job[w].at = "infer"
  /\ job' = [job EXCEPT ![w] = [@ EXCEPT !.at = "done", !.snap = None,
       !.got = [job[w].snap EXCEPT !.scaler = job[w].got.scaler]]]
  /\ UNCHANGED <<files, model, failures, broken>>

-----------------------------------------------------------------------------
\* The sensor ends, at any point, and starts again.
Restart ==
  /\ Fail
  /\ broken' = (broken \/ trainer[Daily].at \in Writing \ {"rf"} \/ Saving \ {Daily} # {})
  /\ trainer' = [trainer EXCEPT ![Daily].at = "idle"]
  /\ bundle' = None /\ load' = Begun("rf")
  /\ job' = [w \in Workers |-> NoJob]
  /\ UNCHANGED <<disk, runs, published>>

-----------------------------------------------------------------------------
Build == LoadRf \/ LoadIso \/ LoadScaler \/ Publish

Save(t) == SaveRf(t) \/ SaveIso(t) \/ SaveScaler(t)

Next ==
  \/ \E t \in Trainers : Train(t) \/ Save(t) \/ SaveFails(t)
  \/ Reload \/ Build \/ LoadFails \/ Restart
  \/ \E w \in Workers : Take(w) \/ Scale(w) \/ Infer(w)

\* The thread that retrains is scheduled.
Fairness == WF_vars(Save(Daily)) /\ WF_vars(Reload) /\ WF_vars(Build)

Spec     == Init /\ [][Next]_vars
FairSpec == Spec /\ Fairness

-----------------------------------------------------------------------------
\* Properties

Fits(b)   == b.rf = b.scaler
Whole(b)  == Fits(b) /\ b.iso \in {None, b.scaler}
Results   == {job[w].got : w \in {v \in Workers : job[v].at = "done"}}

\* An in-flight prediction uses one bundle throughout, whatever reloads meanwhile.
OneBundle == Results \subseteq published

\* No worker scales with one run's scaler and asks another run's forest, unless a
\* save was cut short or two writers, or a writer and a reader, overlapped:
\* the four files are replaced one by one and nothing ties them together.
MixNeedsBrokenSave == ~broken => \A b \in Results : Fits(b)

\* "retraining silently has no effect on running detection" without the reload
\* (ids_engine.py:268): what the sensor trained, or something newer, is served, if
\* no call fails and no save overlaps.
RetrainServed ==
  \A r \in Runs : (trainer[Daily].run = r /\ trainer[Daily].at = "rf")
                    ~> ((bundle # None /\ bundle.rf >= r) \/ failures > 0 \/ broken)

\* "concurrent worker threads calling predict() never observe a mix of old and new
\* models" (ai/classifier.py:6).
\* This is not so: a retrain with too few benign rows leaves the old anomaly model on the
\* disk, and TLC finds the reload that pairs it with the new scaler.
NeverMixed == \A b \in Results : Whole(b)
=============================================================================

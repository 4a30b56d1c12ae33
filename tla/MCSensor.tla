------------------------------ MODULE MCSensor ------------------------------
(***************************************************************************)
(* The sensor as the rest of the system meets it: its process, started and *)
(* watched by the supervisor and shown by the dashboard (Supervisor), and  *)
(* the models it serves and retrains (ModelFiles).  The two share nothing, *)
(* so a behaviour is one of either.                                        *)
(***************************************************************************)
EXTENDS Supervisor, ModelFiles

VARIABLE part

MCInit == /\ part \in {"process", "models"} /\ SupInit /\ Init
          /\ part = "process" => disk.iso = 0
          /\ part = "models" => /\ pidFile = Nobody /\ beat = "none"
                                /\ autoRestart = FALSE /\ sslEnabled = FALSE
Process == part = "process" /\ SupNext /\ UNCHANGED <<part, vars>>
Models  == part = "models"  /\ Next /\ UNCHANGED <<part, supVars>>
MCSpec  ==
  /\ MCInit /\ [][Process \/ Models]_<<part, supVars, vars>>
  /\ WF_supVars(part = "process" /\ SupStep) /\ WF_supVars(part = "process" /\ BeatAges)
  /\ WF_vars(part = "models" /\ Save(Daily)) /\ WF_vars(part = "models" /\ Reload)
  /\ WF_vars(part = "models" /\ Build)
=============================================================================

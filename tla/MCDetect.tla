------------------------------ MODULE MCDetect ------------------------------
(***************************************************************************)
(* The sliding windows by which events of one source are judged together:  *)
(* those of the mails about bursts (BurstAlert) and those of the detectors *)
(* (Windows).  The two share nothing, so a behaviour is one of either.     *)
(***************************************************************************)
EXTENDS BurstAlert, Windows, TLC

CONSTANTS t1, t2, s1, s2, s3

\* One source more than a table holds; a packet may be handled one second late.
MCWindowBounds == {
  [table |-> "ports", keys |-> {s1, s2}, items |-> {1, 2}, late |-> 0, packets |-> 5, until |-> 4],
  [table |-> "names", keys |-> {s1, s2, s3}, items |-> {1, 2}, late |-> 0, packets |-> 5, until |-> 4],
  [table |-> "flows", keys |-> {s1, s2, s3}, items |-> {}, late |-> 1, packets |-> 5, until |-> 5]}

Symmetry == Permutations({t1, t2}) \cup Permutations({s1, s2})

VARIABLE part

MCInit  == part \in {"bursts", "windows"} /\ Init /\ WindowInit
             /\ (part = "bursts" => trial = CHOOSE k \in WindowBounds : k.table = "flows")
Bursts  == part = "bursts"  /\ Next       /\ UNCHANGED <<part, windowVars>>
Tables  == part = "windows" /\ WindowNext /\ UNCHANGED <<part, vars>>
MCSpec  == MCInit /\ [][Bursts \/ Tables]_<<part, vars, windowVars>>
=============================================================================

---------------------------- MODULE MC_Harness ----------------------------
(* The harness killed and rerun once at any point.                         *)
EXTENDS Harness

MCMaxCrashes == 1

(* The harness never killed.                                               *)
MCNoCrashes == 0

====

---------------------------- MODULE HarnessPair ----------------------------
(***************************************************************************)
(* Two runs of the mutation harness, tests/test_cmake_error_handling.py,   *)
(* at the same time on one checkout: two CI jobs or two developers'        *)
(* terminals.  Each run is the process of module Harness, never killed;    *)
(* they share the files CMakeLists.txt and CMakeLists.txt.backup (the      *)
(* backup path is fixed, filepath + ".backup") and build/, and each has    *)
(* its own locals.  Their steps interleave in any order: nothing in the    *)
(* harness takes a lock or creates the backup exclusively.                 *)
(***************************************************************************)
EXTENDS Naturals

VARIABLES
    cmakeExists, buildExists, orig, content, backup,    \* shared files
    pc1, backup_path1, exit_code1, reconfig1, build1,   \* first run
    found_error1, raised1, pre1, crashes1,
    pc2, backup_path2, exit_code2, reconfig2, build2,   \* second run
    found_error2, raised2, pre2, crashes2

files == <<cmakeExists, buildExists, orig, content, backup>>
local1 == <<pc1, backup_path1, exit_code1, reconfig1, build1, found_error1,
            raised1, pre1, crashes1>>
local2 == <<pc2, backup_path2, exit_code2, reconfig2, build2, found_error2,
            raised2, pre2, crashes2>>
vars == <<files, local1, local2>>

H1 == INSTANCE Harness
        WITH MaxCrashes <- 0, pc <- pc1, backup_path <- backup_path1,
             exit_code <- exit_code1, reconfig <- reconfig1, build <- build1,
             found_error <- found_error1, raised <- raised1, pre <- pre1,
             crashes <- crashes1

H2 == INSTANCE Harness
        WITH MaxCrashes <- 0, pc <- pc2, backup_path <- backup_path2,
             exit_code <- exit_code2, reconfig <- reconfig2, build <- build2,
             found_error <- found_error2, raised <- raised2, pre <- pre2,
             crashes <- crashes2

TypeOK == H1!TypeOK /\ H2!TypeOK

Init == H1!Init /\ H2!Init

(* A step of the first run, then of the second.                            *)
Step1 == H1!Next /\ UNCHANGED local2
Step2 == H2!Next /\ UNCHANGED local1

Next == Step1 \/ Step2

(* Each run is a process of its own and each is weakly fair.               *)
Spec == Init /\ [][Next]_vars /\ WF_vars(Step1) /\ WF_vars(Step2)

(* The discipline section 5 of the spec leaves to the callers: the second *)
(* run is started only once the first has returned (a CI lock, or the two  *)
(* jobs run one after the other).                                          *)
SerialNext == Step1 \/ (pc1 = "done" /\ Step2)

SerialSpec == Init /\ [][SerialNext]_vars

-----------------------------------------------------------------------------
(* Properties.                                                             *)

(* P5 for every run of the harness: once both runs have returned and       *)
(* neither's finally block raised, CMakeLists.txt holds the content it had *)
(* before either started.  One run alone guarantees it (OriginalSurvives   *)
(* of module Harness without crashes); the spec (section 5) asks the       *)
(* harness for single-writer discipline on the manifest.                   *)
BothRestored ==
    /\ pc1 = "done" /\ raised1 # "restore"
    /\ pc2 = "done" /\ raised2 # "restore"
    => content = orig

-----------------------------------------------------------------------------
(* The inductive invariant behind BothRestored under SerialSpec.           *)
SerialInv ==
    /\ TypeOK
    /\ pc1 # "done" => pc2 = "start"
    /\ pc2 = "start" => H1!IInv
    /\ pc2 # "start" /\ raised1 # "restore" => pre2 = orig
    /\ H2!RunInv

====

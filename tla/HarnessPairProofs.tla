------------------------- MODULE HarnessPairProofs -------------------------
(***************************************************************************)
(* Two harness runs that the callers serialise (SerialSpec of module       *)
(* HarnessPair) both leave the manifest as it was before either started:   *)
(* BothRestored, which harness_pair shows violated when the runs overlap.  *)
(* Each run's facts are those proved in HarnessProofs, taken through an    *)
(* instance of that module for each run; the lemmas Same* say that the     *)
(* instance of HarnessProofs and the instance of Harness in HarnessPair    *)
(* denote the same formulas.                                               *)
(***************************************************************************)
EXTENDS HarnessPair, TLAPS

P1 == INSTANCE HarnessProofs
        WITH MaxCrashes <- 0, pc <- pc1, backup_path <- backup_path1,
             exit_code <- exit_code1, reconfig <- reconfig1, build <- build1,
             found_error <- found_error1, raised <- raised1, pre <- pre1,
             crashes <- crashes1

P2 == INSTANCE HarnessProofs
        WITH MaxCrashes <- 0, pc <- pc2, backup_path <- backup_path2,
             exit_code <- exit_code2, reconfig <- reconfig2, build <- build2,
             found_error <- found_error2, raised <- raised2, pre <- pre2,
             crashes <- crashes2

-----------------------------------------------------------------------------
(* The two instances of each run agree.                                    *)

LEMMA SameNext1 == H1!Next <=> P1!Next
BY DEF
   H1!Next, P1!Next, H1!CheckSetup, P1!CheckSetup,
       H1!BackupFile, P1!BackupFile,
       H1!AddInvalidFileReference, P1!AddInvalidFileReference,
       H1!RunCMakeReconfigure, P1!RunCMakeReconfigure,
       H1!CMakeNotFound, P1!CMakeNotFound, H1!RunMakeBuild, P1!RunMakeBuild,
       H1!Finally, P1!Finally, H1!RestoreCopy, P1!RestoreCopy,
       H1!RestoreRemove, P1!RestoreRemove, H1!CrashRestart, P1!CrashRestart,
       H1!FreshLocals, P1!FreshLocals, H1!Mutate, P1!Mutate

LEMMA SameNext2 == H2!Next <=> P2!Next
BY DEF
   H2!Next, P2!Next, H2!CheckSetup, P2!CheckSetup,
       H2!BackupFile, P2!BackupFile,
       H2!AddInvalidFileReference, P2!AddInvalidFileReference,
       H2!RunCMakeReconfigure, P2!RunCMakeReconfigure,
       H2!CMakeNotFound, P2!CMakeNotFound, H2!RunMakeBuild, P2!RunMakeBuild,
       H2!Finally, P2!Finally, H2!RestoreCopy, P2!RestoreCopy,
       H2!RestoreRemove, P2!RestoreRemove, H2!CrashRestart, P2!CrashRestart,
       H2!FreshLocals, P2!FreshLocals, H2!Mutate, P2!Mutate

LEMMA SameInit ==
    /\ H1!Init <=> P1!Init
    /\ H2!Init <=> P2!Init
BY DEF H1!Init, P1!Init, H2!Init, P2!Init, H1!Contents, P1!Contents,
       H2!Contents, P2!Contents

LEMMA SameIInv1 == H1!IInv <=> P1!IInv
BY DEF H1!IInv, P1!IInv, H1!NoCrashInv, P1!NoCrashInv,
   H1!RunInv, P1!RunInv, H1!TypeOK, P1!TypeOK,
       H1!UntouchedInv, P1!UntouchedInv, H1!BackupInv, P1!BackupInv,
       H1!ReturnInv, P1!ReturnInv, H1!Contents, P1!Contents, H1!PCs, P1!PCs,
       H1!CMakeResults, P1!CMakeResults, H1!MakeResults, P1!MakeResults,
       H1!Raised, P1!Raised

LEMMA SameIInv1p == H1!IInv' <=> P1!IInv'
BY DEF H1!IInv, P1!IInv, H1!NoCrashInv, P1!NoCrashInv,
   H1!RunInv, P1!RunInv, H1!TypeOK, P1!TypeOK,
       H1!UntouchedInv, P1!UntouchedInv, H1!BackupInv, P1!BackupInv,
       H1!ReturnInv, P1!ReturnInv, H1!Contents, P1!Contents, H1!PCs, P1!PCs,
       H1!CMakeResults, P1!CMakeResults, H1!MakeResults, P1!MakeResults,
       H1!Raised, P1!Raised

LEMMA SameRunInv2 == H2!RunInv <=> P2!RunInv
BY DEF
   H2!RunInv, P2!RunInv, H2!TypeOK, P2!TypeOK,
       H2!UntouchedInv, P2!UntouchedInv, H2!BackupInv, P2!BackupInv,
       H2!ReturnInv, P2!ReturnInv, H2!Contents, P2!Contents, H2!PCs, P2!PCs,
       H2!CMakeResults, P2!CMakeResults, H2!MakeResults, P2!MakeResults,
       H2!Raised, P2!Raised

LEMMA SameRunInv2p == H2!RunInv' <=> P2!RunInv'
BY DEF
   H2!RunInv, P2!RunInv, H2!TypeOK, P2!TypeOK,
       H2!UntouchedInv, P2!UntouchedInv, H2!BackupInv, P2!BackupInv,
       H2!ReturnInv, P2!ReturnInv, H2!Contents, P2!Contents, H2!PCs, P2!PCs,
       H2!CMakeResults, P2!CMakeResults, H2!MakeResults, P2!MakeResults,
       H2!Raised, P2!Raised

-----------------------------------------------------------------------------
(* What one step of a run does to the other's view.                        *)

(* A run that has returned takes no more steps: without kills, main()      *)
(* has no step after "done".                                               *)
LEMMA DoneStays1 == H1!TypeOK /\ H1!Next => pc1 # "done"
BY DEF H1!TypeOK, H1!Next, H1!CheckSetup, H1!BackupFile, H1!AddInvalidFileReference,
        H1!RunCMakeReconfigure, H1!CMakeNotFound, H1!RunMakeBuild, H1!Finally,
        H1!RestoreCopy, H1!RestoreRemove, H1!CrashRestart

(* The second run leaves "start" with its first step, and only that step,  *)
(* the setup check, records the manifest as its starting content.          *)
LEMMA StartStep2 ==
    ASSUME H2!TypeOK, H2!Next
    PROVE  /\ pc2' # "start"
           /\ pre2' = IF pc2 = "start" THEN content ELSE pre2
           /\ orig' = orig
BY DEF H2!TypeOK, H2!Next, H2!CheckSetup, H2!BackupFile, H2!AddInvalidFileReference,
        H2!RunCMakeReconfigure, H2!CMakeNotFound, H2!RunMakeBuild, H2!Finally,
        H2!RestoreCopy, H2!RestoreRemove, H2!CrashRestart

(* A run that has returned without its restore raising leaves the          *)
(* manifest as the first run found it, the original: it restored it, or   *)
(* never touched it.                                                       *)
LEMMA FirstReturn ==
    ASSUME H1!IInv, pc1 = "done", raised1 # "restore"
    PROVE  content = orig
BY DEF H1!IInv, H1!RunInv, H1!TypeOK, H1!UntouchedInv, H1!ReturnInv,
       H1!NoCrashInv

-----------------------------------------------------------------------------
LEMMA InitSerial == Init => SerialInv
<1> SUFFICES ASSUME Init PROVE SerialInv
    OBVIOUS
<1>1. P1!Init /\ P2!Init
    BY SameInit DEF Init
<1>2. P1!IInv /\ P2!IInv
    BY <1>1, P1!InitIInv, P2!InitIInv
<1>3. H1!IInv /\ H2!RunInv
    BY <1>2, SameIInv1, SameRunInv2 DEF P2!IInv
<1>. QED
    BY <1>3 DEF Init, H1!Init, H2!Init, SerialInv, TypeOK, H1!IInv,
       H1!RunInv, H2!RunInv

(* A step of the first run, while the second has not started.             *)
LEMMA Step1Serial == SerialInv /\ Step1 => SerialInv'
<1> SUFFICES ASSUME SerialInv, Step1 PROVE SerialInv'
    OBVIOUS
<1>1. pc1 # "done" /\ pc2 = "start" /\ H1!IInv
    BY DoneStays1 DEF SerialInv, TypeOK, Step1
<1>2. H1!IInv'
    <2>1. P1!IInv /\ P1!Next
        BY <1>1, SameNext1, SameIInv1 DEF Step1
    <2>2. P1!IInv'
        BY <2>1, P1!NextIInv
    <2>. QED
        BY <2>2, SameIInv1p
<1>3. UNCHANGED local2 /\ ~backup_path2
    BY <1>1 DEF Step1, local2, SerialInv, H2!RunInv, H2!BackupInv
<1>4. H2!TypeOK'
    BY <1>2, <1>3 DEF SerialInv, TypeOK, H2!TypeOK, H1!IInv, H1!RunInv,
       H1!TypeOK, local2, H1!Contents, H2!Contents, H1!PCs, H2!PCs, H1!CMakeResults,
       H2!CMakeResults, H1!MakeResults, H2!MakeResults, H1!Raised, H2!Raised
<1>5. H2!RunInv'
    BY <1>1, <1>3, <1>4 DEF local2, H2!RunInv, H2!UntouchedInv,
       H2!BackupInv, H2!ReturnInv
<1>. QED
    BY <1>1, <1>2, <1>3, <1>5 DEF SerialInv, TypeOK, H1!IInv, H1!RunInv,
       H2!RunInv, local2

(* A step of the second run, once the first has returned.                 *)
LEMMA Step2Serial == SerialInv /\ pc1 = "done" /\ Step2 => SerialInv'
<1> SUFFICES ASSUME SerialInv, pc1 = "done", Step2 PROVE SerialInv'
    OBVIOUS
<1>1. UNCHANGED local1 /\ H2!RunInv /\ H2!TypeOK /\ H2!Next
    BY DEF Step2, SerialInv, H2!RunInv
<1>2. H2!RunInv'
    <2>1. P2!RunInv /\ P2!Next
        BY <1>1, SameNext2, SameRunInv2
    <2>2. P2!RunInv'
        BY <2>1, P2!NextRunInv
    <2>. QED
        BY <2>2, SameRunInv2p
<1>3. /\ pc2' # "start" /\ pre2' = IF pc2 = "start" THEN content ELSE pre2
      /\ orig' = orig
    BY <1>1, StartStep2
<1>4. raised1 # "restore" => pre2' = orig
    <2>1. CASE pc2 = "start"
        BY <1>3, <2>1, FirstReturn DEF SerialInv
    <2>2. CASE pc2 # "start"
        BY <1>3, <2>2 DEF SerialInv
    <2>. QED
        BY <2>1, <2>2
<1>5. H1!TypeOK'
    BY <1>1, <1>2 DEF SerialInv, TypeOK, H1!TypeOK, H2!RunInv, H2!TypeOK,
       local1, H1!Contents, H2!Contents, H1!PCs, H2!PCs, H1!CMakeResults,
       H2!CMakeResults, H1!MakeResults, H2!MakeResults, H1!Raised, H2!Raised
<1>6. pc1' = "done" /\ raised1' = raised1
    BY <1>1 DEF local1
<1>7. TypeOK'
    BY <1>2, <1>5 DEF TypeOK, H2!RunInv
<1>8. pc1' # "done" => pc2' = "start"
    BY <1>6
<1>9. pc2' = "start" => H1!IInv'
    BY <1>3
<1>10. pc2' # "start" /\ raised1' # "restore" => pre2' = orig'
    BY <1>3, <1>4, <1>6
<1>. QED
    BY <1>2, <1>7, <1>8, <1>9, <1>10 DEF SerialInv

LEMMA NextSerial == SerialInv /\ [SerialNext]_vars => SerialInv'
<1> SUFFICES ASSUME SerialInv, [SerialNext]_vars PROVE SerialInv'
    OBVIOUS
<1>1. CASE UNCHANGED vars
    BY <1>1 DEF vars, files, local1, local2, SerialInv, TypeOK, H1!IInv,
       H1!RunInv, H1!TypeOK, H1!UntouchedInv, H1!BackupInv, H1!ReturnInv,
       H1!NoCrashInv, H2!RunInv, H2!TypeOK, H2!UntouchedInv, H2!BackupInv,
       H2!ReturnInv
<1>. QED
    BY <1>1, Step1Serial, Step2Serial DEF SerialNext

(* P5 for two runs that the callers serialise: once both have returned and *)
(* neither's restore raised, CMakeLists.txt holds what it held before the  *)
(* first started.  Together with harness_pair, where the runs overlap and  *)
(* BothRestored fails, this says the single-writer discipline of section 5 *)
(* is what P5 needs, and that it is enough.                                *)
THEOREM SerialBothRestored == SerialSpec => []BothRestored
<1>1. SerialInv => BothRestored
    <2> SUFFICES ASSUME SerialInv, pc1 = "done", raised1 # "restore",
                        pc2 = "done", raised2 # "restore"
                 PROVE  content = orig
        BY DEF BothRestored
    <2>1. pre2 = orig
        BY DEF SerialInv
    <2>2. content = pre2
        BY DEF SerialInv, H2!RunInv, H2!UntouchedInv, H2!ReturnInv
    <2>. QED
        BY <2>1, <2>2
<1>. QED
    BY <1>1, InitSerial, NextSerial, PTL DEF SerialSpec

====

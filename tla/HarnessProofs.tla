--------------------------- MODULE HarnessProofs ---------------------------
(***************************************************************************)
(* Proofs about the mutation harness (module Harness) for every number of  *)
(* kill-and-rerun cycles: type correctness, the per-run restoration        *)
(* contract RestoredOnReturn, and that without a crash the original        *)
(* manifest is never lost (OriginalSurvives), all from IInv.               *)
(***************************************************************************)
EXTENDS Harness, TLAPS

LEMMA InitIInv == Init => IInv
<1> SUFFICES ASSUME Init PROVE IInv
    OBVIOUS
<1>1. TypeOK
    <2>1. cmakeExists \in BOOLEAN /\ buildExists \in BOOLEAN /\ backup_path \in BOOLEAN
          /\ found_error \in BOOLEAN
        BY DEF Init
    <2>2. orig \in {"pristine", "noblock"} /\ content \in Contents /\ pre \in Contents
          /\ backup \in Contents \cup {"none"}
        BY DEF Init, Contents
    <2>3. pc \in PCs /\ reconfig \in CMakeResults /\ build \in MakeResults
          /\ raised \in Raised
        BY DEF Init, PCs, CMakeResults, MakeResults, Raised
    <2>4. exit_code \in {0, 1} /\ crashes \in 0..MaxCrashes
        BY MaxCrashesAssumption DEF Init
    <2>. QED
        BY <2>1, <2>2, <2>3, <2>4 DEF TypeOK
<1>2. UntouchedInv /\ BackupInv /\ ReturnInv /\ NoCrashInv
    BY DEF Init, UntouchedInv, BackupInv, ReturnInv, NoCrashInv
<1>. QED
    BY <1>1, <1>2 DEF IInv, RunInv

(* The steps of main() before the finally block.                           *)
LEMMA BodySteps ==
    ASSUME RunInv,
           CheckSetup \/ BackupFile \/ AddInvalidFileReference
             \/ RunCMakeReconfigure \/ CMakeNotFound \/ RunMakeBuild
    PROVE  RunInv'
<1>. USE DEF RunInv, TypeOK, Contents, UntouchedInv, BackupInv, ReturnInv,
             PCs, CMakeResults, MakeResults, Raised
<1>1. CASE CheckSetup /\ cmakeExists /\ buildExists
    BY <1>1 DEF CheckSetup
<1>7. CASE CheckSetup /\ ~(cmakeExists /\ buildExists)
    BY <1>7 DEF CheckSetup
<1>2. CASE BackupFile
    <2>1. pc = "backup" /\ ~backup_path /\ content = pre
        BY <1>2 DEF BackupFile
    <2>2. CASE backup' = content /\ backup_path' = TRUE /\ pc' = "mutate"
               /\ UNCHANGED raised
        BY <1>2, <2>1, <2>2 DEF BackupFile
    <2>3. CASE backup' \in {backup, "partial"} /\ raised' = "body"
               /\ pc' = "finally" /\ UNCHANGED backup_path
        BY <1>2, <2>1, <2>3 DEF BackupFile
    <2>. QED
        BY <1>2, <2>2, <2>3 DEF BackupFile
<1>3. CASE AddInvalidFileReference
    BY <1>3 DEF AddInvalidFileReference, Mutate
<1>4. CASE RunCMakeReconfigure
    BY <1>4 DEF RunCMakeReconfigure
<1>5. CASE CMakeNotFound
    BY <1>5 DEF CMakeNotFound
<1>6. CASE RunMakeBuild
    BY <1>6 DEF RunMakeBuild
<1>. QED
    BY <1>1, <1>2, <1>3, <1>4, <1>5, <1>6, <1>7

(* The finally block, restore_file, and a kill-and-rerun.                  *)
LEMMA RestoreSteps ==
    ASSUME RunInv, Finally \/ RestoreCopy \/ RestoreRemove \/ CrashRestart
    PROVE  RunInv'
<1>. USE DEF RunInv, TypeOK, Contents, UntouchedInv, BackupInv, ReturnInv,
             PCs, CMakeResults, MakeResults, Raised
<1>1. CASE Finally
    BY <1>1 DEF Finally
<1>2. CASE RestoreCopy
    BY <1>2 DEF RestoreCopy
<1>3. CASE RestoreRemove
    <2>1. pc = "restore_remove" /\ backup_path /\ content = pre /\ backup = pre
        BY <1>3 DEF RestoreRemove
    <2>2. CASE backup' = "none" /\ UNCHANGED raised
        BY <1>3, <2>1, <2>2 DEF RestoreRemove
    <2>3. CASE raised' = "restore" /\ UNCHANGED backup
        BY <1>3, <2>1, <2>3 DEF RestoreRemove
    <2>. QED
        BY <1>3, <2>2, <2>3 DEF RestoreRemove
<1>4. CASE CrashRestart
    <2>1. /\ pc' = "start" /\ backup_path' = FALSE /\ exit_code' = 0
          /\ reconfig' = "none" /\ build' = "none" /\ found_error' = FALSE
          /\ raised' = "no"
        BY <1>4 DEF CrashRestart, FreshLocals
    <2>2. crashes' \in 0..MaxCrashes /\ crashes' # 0
        BY <1>4, MaxCrashesAssumption DEF CrashRestart
    <2>3. UNCHANGED <<cmakeExists, buildExists, orig, content, backup, pre>>
        BY <1>4 DEF CrashRestart
    <2>4. TypeOK'
        BY <2>1, <2>2, <2>3
    <2>. QED
        BY <2>1, <2>2, <2>3, <2>4
<1>. QED
    BY <1>1, <1>2, <1>3, <1>4

(* RunInv is inductive on its own: it holds of a run whatever the files    *)
(* held when the run started.                                              *)
LEMMA NextRunInv == RunInv /\ [Next]_vars => RunInv'
<1> SUFFICES ASSUME RunInv, [Next]_vars PROVE RunInv'
    OBVIOUS
<1>1. CASE UNCHANGED vars
    BY <1>1 DEF vars, RunInv, TypeOK, UntouchedInv, BackupInv, ReturnInv
<1>. QED
    BY <1>1, BodySteps, RestoreSteps DEF Next

(* Before the first crash, no step changes pre, except the setup check,   *)
(* which finds the manifest untouched.                                     *)
LEMMA NoCrashStep == IInv /\ [Next]_vars => NoCrashInv'
<1> SUFFICES ASSUME IInv, [Next]_vars PROVE NoCrashInv'
    OBVIOUS
<1>. USE DEF IInv, RunInv, TypeOK, NoCrashInv
<1>1. CASE CrashRestart
    BY <1>1 DEF CrashRestart
<1>2. CASE CheckSetup
    BY <1>2 DEF CheckSetup
<1>3. CASE BackupFile \/ AddInvalidFileReference \/ RunCMakeReconfigure
          \/ CMakeNotFound \/ RunMakeBuild \/ Finally \/ RestoreCopy
          \/ RestoreRemove \/ UNCHANGED vars
    BY <1>3 DEF BackupFile, AddInvalidFileReference, RunCMakeReconfigure,
        CMakeNotFound, RunMakeBuild, Finally, RestoreCopy, RestoreRemove, vars
<1>. QED
    BY <1>1, <1>2, <1>3 DEF Next

LEMMA NextIInv == IInv /\ [Next]_vars => IInv'
BY NextRunInv, NoCrashStep DEF IInv, RunInv

LEMMA AlwaysIInv == Spec => []IInv
BY InitIInv, NextIInv, PTL DEF Spec

-----------------------------------------------------------------------------
(* Type correctness of every variable of the harness.                      *)
THEOREM HarnessTypeCorrect == Spec => []TypeOK
<1>1. IInv => TypeOK
    BY DEF IInv, RunInv
<1>. QED
    BY <1>1, AlwaysIInv, PTL

(* P5 per run, RestoredOnReturn, for any number of kill-and-rerun cycles:  *)
(* a run of main() that made its backup and whose finally block raised     *)
(* nothing leaves CMakeLists.txt as it found it and no .backup file.      *)
THEOREM RestoredOnReturnHolds == Spec => []RestoredOnReturn
<1>1. IInv => RestoredOnReturn
    BY DEF IInv, RunInv, ReturnInv, RestoredOnReturn
<1>. QED
    BY <1>1, AlwaysIInv, PTL

(* Without a kill of the harness, the original manifest content is at      *)
(* every moment in CMakeLists.txt or in CMakeLists.txt.backup: every       *)
(* exception of copy2, open, write and remove is covered by try/finally.   *)
THEOREM OriginalSurvivesWithoutCrash ==
    ASSUME MaxCrashes = 0
    PROVE  Spec => []OriginalSurvives
<1>1. IInv => OriginalSurvives
    <2> SUFFICES ASSUME IInv PROVE OriginalSurvives
        OBVIOUS
    <2>1. crashes = 0
        BY DEF IInv, RunInv, TypeOK
    <2>2. pre = orig /\ (pc = "start" => content = orig)
        BY <2>1 DEF IInv, RunInv, NoCrashInv
    <2>. QED
        BY <2>2 DEF IInv, RunInv, TypeOK, PCs, UntouchedInv, BackupInv, ReturnInv,
                  OriginalSurvives
<1>. QED
    BY <1>1, AlwaysIInv, PTL

-----------------------------------------------------------------------------
(* PassInv is inductive on its own.                                       *)

LEMMA InitPass == Init => PassInv
BY DEF Init, PassInv

LEMMA NextPass == PassInv /\ [Next]_vars => PassInv'
<1> SUFFICES ASSUME PassInv, [Next]_vars PROVE PassInv'
    OBVIOUS
<1>. USE DEF PassInv
<1>1. CASE CheckSetup
    BY <1>1 DEF CheckSetup
<1>2. CASE BackupFile
    BY <1>2 DEF BackupFile
<1>3. CASE AddInvalidFileReference
    BY <1>3 DEF AddInvalidFileReference
<1>4. CASE RunCMakeReconfigure
    BY <1>4 DEF RunCMakeReconfigure
<1>5. CASE CMakeNotFound
    BY <1>5 DEF CMakeNotFound
<1>6. CASE RunMakeBuild
    BY <1>6 DEF RunMakeBuild
<1>7. CASE Finally
    BY <1>7 DEF Finally
<1>8. CASE RestoreCopy
    BY <1>8 DEF RestoreCopy
<1>9. CASE RestoreRemove
    BY <1>9 DEF RestoreRemove
<1>10. CASE CrashRestart
    BY <1>10 DEF CrashRestart, FreshLocals
<1>11. CASE UNCHANGED vars
    BY <1>11 DEF vars
<1>. QED
    BY <1>1, <1>2, <1>3, <1>4, <1>5, <1>6, <1>7, <1>8, <1>9, <1>10, <1>11
       DEF Next

LEMMA AlwaysPass == Spec => [](IInv /\ PassInv)
<1>1. Init => IInv /\ PassInv
    BY InitIInv, InitPass
<1>2. IInv /\ PassInv /\ [Next]_vars => (IInv /\ PassInv)'
    BY NextIInv, NextPass
<1>. QED
    BY <1>1, <1>2, PTL DEF Spec

(* Scenario 5 of the spec for every number of kill-and-rerun cycles: a     *)
(* harness process that exits with status 0 saw cmake or make fail on the  *)
(* mutated manifest; a timeout, a missing tool, a build that succeeded or  *)
(* an exception in the body or the finally block always exits with 1.      *)
THEOREM PassMeansBuildFailedHolds == Spec => []PassMeansBuildFailed
<1>1. IInv /\ PassInv => PassMeansBuildFailed
    BY DEF IInv, RunInv, TypeOK, Raised, PassInv, PassMeansBuildFailed, status
<1>. QED
    BY <1>1, AlwaysPass, PTL

(* The step behind BackupRemovedOnlyWhenRestored: in every state of IInv,  *)
(* the one step that deletes an existing backup is os.remove in            *)
(* restore_file, and it runs only after shutil.copy2 put the backup's      *)
(* content, this run's starting content, back into the manifest.           *)
LEMMA RemoveStep ==
    IInv /\ [Next]_vars =>
        [backup # "none" /\ backup' = "none" => content' = backup]_vars
<1> SUFFICES ASSUME IInv, [Next]_vars, backup # "none", backup' = "none"
             PROVE content' = backup
    OBVIOUS
<1>. USE DEF IInv, RunInv, TypeOK, Contents
<1>1. CASE RestoreRemove
    BY <1>1 DEF RestoreRemove, BackupInv
<1>2. CASE BackupFile
    BY <1>2 DEF BackupFile
<1>3. CASE RestoreCopy \/ RestoreRemove \/ CrashRestart \/ Finally
          \/ CheckSetup \/ AddInvalidFileReference \/ RunCMakeReconfigure
          \/ CMakeNotFound \/ RunMakeBuild \/ UNCHANGED vars
    BY <1>1, <1>3 DEF RestoreCopy, CrashRestart, Finally, CheckSetup,
        AddInvalidFileReference, RunCMakeReconfigure, CMakeNotFound,
        RunMakeBuild, vars
<1>. QED
    BY <1>2, <1>3 DEF Next

(* restore_file deletes the backup only after the copy back succeeded:     *)
(* BackupRemovedOnlyWhenRestored, for every MaxCrashes.                    *)
THEOREM BackupRemovedOnlyWhenRestoredHolds ==
    Spec => BackupRemovedOnlyWhenRestored
BY AlwaysIInv, RemoveStep, PTL DEF Spec, BackupRemovedOnlyWhenRestored

(* The step behind ManifestWritesOnlyExpected: add_invalid_file_reference  *)
(* writes Mutate(content) or truncates, and the restore copies the backup, *)
(* which BackupInv says is this run's starting content.                    *)
LEMMA WriteStep ==
    IInv /\ [Next]_vars =>
        [content' # content => content' \in {Mutate(content), pre, "partial"}]_vars
<1> SUFFICES ASSUME IInv, [Next]_vars, content' # content
             PROVE content' \in {Mutate(content), pre, "partial"}
    OBVIOUS
<1>1. CASE AddInvalidFileReference
    BY <1>1 DEF AddInvalidFileReference
<1>2. CASE RestoreCopy
    BY <1>2 DEF RestoreCopy, IInv, RunInv, BackupInv
<1>3. CASE CheckSetup \/ BackupFile \/ RunCMakeReconfigure \/ CMakeNotFound
          \/ RunMakeBuild \/ Finally \/ RestoreRemove \/ CrashRestart
          \/ UNCHANGED vars
    BY <1>3 DEF CheckSetup, BackupFile, RunCMakeReconfigure, CMakeNotFound,
        RunMakeBuild, Finally, RestoreRemove, CrashRestart, vars
<1>. QED
    BY <1>1, <1>2, <1>3 DEF Next

(* Every write to the manifest is the mutation, this run's starting        *)
(* content or a truncation: ManifestWritesOnlyExpected, for every          *)
(* MaxCrashes.                                                             *)
THEOREM ManifestWritesOnlyExpectedHolds == Spec => ManifestWritesOnlyExpected
BY AlwaysIInv, WriteStep, PTL DEF Spec, ManifestWritesOnlyExpected

====

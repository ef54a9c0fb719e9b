------------------------------ MODULE Harness ------------------------------
(***************************************************************************)
(* The manifest-mutation harness, tests/test_cmake_error_handling.py.      *)
(*                                                                         *)
(* One run of main(): check CMakeLists.txt and build/ exist, back the      *)
(* manifest up to CMakeLists.txt.backup, splice a reference to a missing   *)
(* source into the CRYPTO_SOURCES block, run "cmake ." and, if that        *)
(* succeeds, "mingw32-make openfido" (or "make"), then in the finally      *)
(* block copy the backup over the manifest and delete it.                  *)
(*                                                                         *)
(* Data abstraction.  A file content is one of four values: "pristine"     *)
(* (a manifest holding the exact block the harness looks for), "noblock"   *)
(* (a manifest without it, so str.replace changes nothing), "mutated"      *)
(* (the block with the extra reference) and "partial" (a file a failed     *)
(* copy or write left truncated).  The backup file is its content or       *)
(* "none" when it does not exist.  cmake and make are external programs:   *)
(* each call has every outcome main() distinguishes.  Every copy, open     *)
(* and write may raise (disk full, permissions).  The harness process      *)
(* may also be killed at any point (CI timeout, Ctrl-C twice, power loss)  *)
(* and run again, at most MaxCrashes times; the finally block does not     *)
(* run then.                                                               *)
(***************************************************************************)
EXTENDS Naturals

CONSTANT MaxCrashes     \* how many times the harness is killed and rerun

ASSUME MaxCrashesAssumption == MaxCrashes \in Nat

Contents == {"pristine", "noblock", "mutated", "partial"}

(* add_invalid_file_reference: content.replace of the exact CRYPTO_SOURCES *)
(* block; any other text is written back unchanged.                        *)
Mutate(c) == IF c = "pristine" THEN "mutated" ELSE c

(* What run_cmake_reconfigure returns: a result with returncode 0 or not,  *)
(* None on TimeoutExpired; a missing cmake raises FileNotFoundError.        *)
CMakeResults == {"none", "ok", "failed", "timeout"}

(* What run_make_build returns: a result with returncode 0 or not, or None *)
(* (timeout, or neither mingw32-make nor make could be run).               *)
MakeResults == {"none", "ok", "failed", "unavailable"}

(* The exception in flight: none, raised in the try body, or raised by the *)
(* finally block itself (which replaces any earlier one).                  *)
Raised == {"no", "body", "restore"}

PCs == {"start", "backup", "mutate", "cmake", "make", "finally",
        "restore_copy", "restore_remove", "done"}

VARIABLES
    cmakeExists,    \* input: os.path.exists(cmake_file)
    buildExists,    \* input: os.path.exists(build_dir)
    orig,           \* the manifest content before the first run (history)
    content,        \* the file CMakeLists.txt
    backup,         \* the file CMakeLists.txt.backup, or "none"
    pc,             \* where main() is
    backup_path,    \* main: backup_path is set (not None)
    exit_code,      \* main: exit_code
    reconfig,       \* main: reconfig_result
    build,          \* main: result of run_make_build
    found_error,    \* main: found_error
    raised,         \* the exception propagating out of main()
    pre,            \* the manifest content when this run started (history)
    crashes         \* how many times the harness has been killed

vars == <<cmakeExists, buildExists, orig, content, backup, pc, backup_path,
          exit_code, reconfig, build, found_error, raised, pre, crashes>>

TypeOK ==
    /\ cmakeExists \in BOOLEAN
    /\ buildExists \in BOOLEAN
    /\ orig \in {"pristine", "noblock"}
    /\ content \in Contents
    /\ backup \in Contents \cup {"none"}
    /\ pc \in PCs
    /\ backup_path \in BOOLEAN
    /\ exit_code \in {0, 1}
    /\ reconfig \in CMakeResults
    /\ build \in MakeResults
    /\ found_error \in BOOLEAN
    /\ raised \in Raised
    /\ pre \in Contents
    /\ crashes \in 0..MaxCrashes

(* The process status: an uncaught exception exits with 1 after the        *)
(* traceback, otherwise sys.exit(main()).                                  *)
status == IF raised = "no" THEN exit_code ELSE 1

(* The locals of a fresh call of main().                                   *)
FreshLocals ==
    /\ pc' = "start"
    /\ backup_path' = FALSE
    /\ exit_code' = 0
    /\ reconfig' = "none"
    /\ build' = "none"
    /\ found_error' = FALSE
    /\ raised' = "no"

-----------------------------------------------------------------------------

(* A leftover backup of any content may exist from an earlier session.     *)
Init ==
    /\ cmakeExists \in BOOLEAN
    /\ buildExists \in BOOLEAN
    /\ orig \in {"pristine", "noblock"}
    /\ content = orig
    /\ backup \in Contents \cup {"none"}
    /\ pc = "start"
    /\ backup_path = FALSE
    /\ exit_code = 0
    /\ reconfig = "none"
    /\ build = "none"
    /\ found_error = FALSE
    /\ raised = "no"
    /\ pre = orig
    /\ crashes = 0

(* main(): return 1 when CMakeLists.txt or build/ does not exist.          *)
CheckSetup ==
    /\ pc = "start"
    /\ IF cmakeExists /\ buildExists
         THEN /\ pc' = "backup"
              /\ UNCHANGED exit_code
         ELSE /\ pc' = "done"
              /\ exit_code' = 1
    /\ pre' = content
    /\ UNCHANGED <<cmakeExists, buildExists, orig, content, backup,
                   backup_path, reconfig, build, found_error, raised, crashes>>

(* Mutant: backup_path assigned before the copy is attempted.            *)
BackupFile_PathFirst ==
    /\ pc = "backup"
    /\ backup_path' = TRUE
    /\ \/ /\ backup' = content
          /\ pc' = "mutate"
          /\ UNCHANGED raised
       \/ /\ backup' \in {backup, "partial"}
          /\ raised' = "body"
          /\ pc' = "finally"
    /\ UNCHANGED <<cmakeExists, buildExists, orig, content, exit_code,
                   reconfig, build, found_error, pre, crashes>>

(* Step 1, backup_file: shutil.copy2(filepath, filepath + ".backup").     *)
(* On success backup_path is assigned; if copy2 raises, the backup file is *)
(* left as it was or truncated, backup_path stays None, and the exception  *)
(* goes to the finally block.                                              *)
BackupFile ==
    /\ pc = "backup"
    /\ \/ /\ backup' = content
          /\ backup_path' = TRUE
          /\ pc' = "mutate"
          /\ UNCHANGED raised
       \/ /\ backup' \in {backup, "partial"}
          /\ raised' = "body"
          /\ pc' = "finally"
          /\ UNCHANGED backup_path
    /\ UNCHANGED <<cmakeExists, buildExists, orig, content, exit_code,
                   reconfig, build, found_error, pre, crashes>>

(* Step 2, add_invalid_file_reference: read the manifest, replace the      *)
(* block, open it for writing (which truncates it) and write.  A failing   *)
(* read leaves it as it was, a failing write leaves it truncated.          *)
AddInvalidFileReference ==
    /\ pc = "mutate"
    /\ \/ /\ content' = Mutate(content)
          /\ pc' = "cmake"
          /\ UNCHANGED raised
       \/ /\ content' \in {content, "partial"}
          /\ raised' = "body"
          /\ pc' = "finally"
    /\ UNCHANGED <<cmakeExists, buildExists, orig, backup, backup_path,
                   exit_code, reconfig, build, found_error, pre, crashes>>

(* Step 3, run_cmake_reconfigure.  None (timeout): exit_code = 1.  A       *)
(* non-zero returncode: scan the output for the error patterns, set        *)
(* found_error, print, and skip the build; exit_code is left alone.        *)
(* Returncode 0: go on to the build.                                      *)
RunCMakeReconfigure ==
    /\ pc = "cmake"
    /\ \/ /\ reconfig' = "timeout"
          /\ exit_code' = 1
          /\ pc' = "finally"
          /\ UNCHANGED found_error
       \/ /\ reconfig' = "failed"
          /\ found_error' \in BOOLEAN
          /\ pc' = "finally"
          /\ UNCHANGED exit_code
       \/ /\ reconfig' = "ok"
          /\ pc' = "make"
          /\ UNCHANGED <<exit_code, found_error>>
    /\ UNCHANGED <<cmakeExists, buildExists, orig, content, backup,
                   backup_path, build, raised, pre, crashes>>

(* subprocess.run(['cmake', ...]) raises FileNotFoundError when cmake is   *)
(* not installed; run_cmake_reconfigure only catches TimeoutExpired.       *)
CMakeNotFound ==
    /\ pc = "cmake"
    /\ raised' = "body"
    /\ pc' = "finally"
    /\ UNCHANGED <<cmakeExists, buildExists, orig, content, backup,
                   backup_path, exit_code, reconfig, build, found_error,
                   pre, crashes>>

(* Mutant: a build that succeeds is not counted as a test failure.        *)
RunMakeBuild_OkPasses ==
    /\ pc = "make"
    /\ \/ /\ build' = "unavailable"
          /\ exit_code' = 1
          /\ UNCHANGED <<found_error, raised>>
       \/ /\ build' \in {"ok", "failed"}
          /\ found_error' \in BOOLEAN
          /\ UNCHANGED <<exit_code, raised>>
       \/ /\ raised' = "body"
          /\ UNCHANGED <<build, exit_code, found_error>>
    /\ pc' = "finally"
    /\ UNCHANGED <<cmakeExists, buildExists, orig, content, backup,
                   backup_path, reconfig, pre, crashes>>

(* Steps 4-6, run_make_build (mingw32-make, then make on                   *)
(* FileNotFoundError; the inner bare except turns every failure of the     *)
(* fallback into None).  None: exit_code = 1.  Returncode 0: "Build        *)
(* succeeded (should have failed)", exit_code = 1.  Non-zero: scan the     *)
(* output; exit_code is left alone.  Any other exception of the first      *)
(* subprocess.run (PermissionError, OSError) propagates.                   *)
RunMakeBuild ==
    /\ pc = "make"
    /\ \/ /\ build' = "unavailable"
          /\ exit_code' = 1
          /\ UNCHANGED <<found_error, raised>>
       \/ /\ build' = "ok"
          /\ exit_code' = 1
          /\ found_error' \in BOOLEAN
          /\ UNCHANGED raised
       \/ /\ build' = "failed"
          /\ found_error' \in BOOLEAN
          /\ UNCHANGED <<exit_code, raised>>
       \/ /\ raised' = "body"
          /\ UNCHANGED <<build, exit_code, found_error>>
    /\ pc' = "finally"
    /\ UNCHANGED <<cmakeExists, buildExists, orig, content, backup,
                   backup_path, reconfig, pre, crashes>>

(* Mutant: restore_file with its two calls swapped, os.remove(backup_path) *)
(* before shutil.copy2(backup_path, filepath).                             *)
Finally_RemoveFirst ==
    /\ pc = "finally"
    /\ pc' = IF backup_path /\ backup # "none" THEN "restore_remove" ELSE "done"
    /\ UNCHANGED <<cmakeExists, buildExists, orig, content, backup,
                   backup_path, exit_code, reconfig, build, found_error,
                   raised, pre, crashes>>

(* finally: if backup_path and os.path.exists(backup_path): restore.       *)
Finally ==
    /\ pc = "finally"
    /\ pc' = IF backup_path /\ backup # "none" THEN "restore_copy" ELSE "done"
    /\ UNCHANGED <<cmakeExists, buildExists, orig, content, backup,
                   backup_path, exit_code, reconfig, build, found_error,
                   raised, pre, crashes>>

(* restore_file: shutil.copy2(backup_path, filepath).  If it raises, the   *)
(* manifest is left as it was or truncated and the exception replaces any  *)
(* other and leaves main().                                                *)
RestoreCopy ==
    /\ pc = "restore_copy"
    /\ \/ /\ content' = backup
          /\ pc' = "restore_remove"
          /\ UNCHANGED raised
       \/ /\ content' \in {content, "partial"}
          /\ raised' = "restore"
          /\ pc' = "done"
    /\ UNCHANGED <<cmakeExists, buildExists, orig, backup, backup_path,
                   exit_code, reconfig, build, found_error, pre, crashes>>

(* Mutants of the removal: os.remove(filepath) in place of                *)
(* os.remove(backup_path), and a retry of the whole restore when the       *)
(* removal fails.                                                          *)
RestoreRemove_WrongFile ==
    /\ pc = "restore_remove"
    /\ content' = "none"
    /\ pc' = "done"
    /\ UNCHANGED <<cmakeExists, buildExists, orig, backup, backup_path,
                   exit_code, reconfig, build, found_error, raised, pre, crashes>>

RestoreRemove_Retry ==
    /\ pc = "restore_remove"
    /\ \/ /\ backup' = "none"
          /\ pc' = "done"
       \/ /\ pc' = "restore_copy"
          /\ UNCHANGED backup
    /\ UNCHANGED <<cmakeExists, buildExists, orig, content, backup_path,
                   exit_code, reconfig, build, found_error, raised, pre, crashes>>

(* restore_file: os.remove(backup_path), which may raise as well.          *)
RestoreRemove ==
    /\ pc = "restore_remove"
    /\ \/ /\ backup' = "none"
          /\ UNCHANGED raised
       \/ /\ raised' = "restore"
          /\ UNCHANGED backup
    /\ pc' = "done"
    /\ UNCHANGED <<cmakeExists, buildExists, orig, content, backup_path,
                   exit_code, reconfig, build, found_error, pre, crashes>>

(* The process is killed before main() returns (the finally block does not *)
(* run) and the harness is started again on the files as they are.         *)
CrashRestart ==
    /\ pc # "done"
    /\ crashes < MaxCrashes
    /\ crashes' = crashes + 1
    /\ FreshLocals
    /\ UNCHANGED <<cmakeExists, buildExists, orig, content, backup, pre>>

Next ==
    \/ CheckSetup
    \/ BackupFile
    \/ AddInvalidFileReference
    \/ RunCMakeReconfigure
    \/ CMakeNotFound
    \/ RunMakeBuild
    \/ Finally
    \/ RestoreCopy
    \/ RestoreRemove
    \/ CrashRestart

(* main() is sequential; every external call is bounded (subprocess.run    *)
(* with timeout=30 or 60), so its steps are weakly fair.                   *)
Spec == Init /\ [][Next]_vars /\ WF_vars(Next)

-----------------------------------------------------------------------------
(* Properties.                                                             *)

(* P5 for one run: when main() has got past the backup and the finally     *)
(* block itself raised nothing, the manifest is byte-identical to what it  *)
(* was when this run started and no .backup file is left behind, whatever *)
(* cmake, make and the mutation did in between.                            *)
RestoredOnReturn ==
    pc = "done" /\ backup_path /\ raised # "restore" =>
        content = pre /\ backup = "none"

(* Requirement 3.2 as the harness checks it: the harness exits 0 only when *)
(* cmake or make really failed on the mutated manifest.                    *)
PassMeansBuildFailed ==
    pc = "done" /\ status = 0 => reconfig = "failed" \/ build = "failed"

(* Scenario 5 of the spec: a passing harness run saw a failure signal that *)
(* mentions the missing file (found_error).                                *)
PassMeansFileReported ==
    pc = "done" /\ status = 0 => found_error

(* P5 across crashes: the manifest's original content is never lost; it is *)
(* in CMakeLists.txt or in CMakeLists.txt.backup at every moment.          *)
OriginalSurvives ==
    content = orig \/ backup = orig

(* Every run of the harness ends: each step is bounded and the harness is  *)
(* restarted at most MaxCrashes times.                                    *)
Terminates == <>(pc = "done")

(* What may ever be written to CMakeLists.txt: a step that changes it     *)
(* writes the mutation of what it held, the content this run started from *)
(* (the restore), or a truncated file (a failed write or copy); never a    *)
(* stale backup of some other content.                                     *)
ManifestWritesOnlyExpected ==
    [][content' # content => content' \in {Mutate(content), pre, "partial"}]_vars

(* restore_file's order, as a step property: no step deletes              *)
(* CMakeLists.txt.backup unless the manifest then holds what the backup    *)
(* held, so the backup is never the only copy that gets thrown away.       *)
BackupRemovedOnlyWhenRestored ==
    [][backup # "none" /\ backup' = "none" => content' = backup]_vars

-----------------------------------------------------------------------------
(* The inductive invariant behind RestoredOnReturn: where the content this *)
(* run started from (pre) is kept at each point of main().                 *)

(* Once this run is past its setup check and holds no backup, the         *)
(* manifest has not been touched.                                          *)
UntouchedInv ==
    ~backup_path /\ pc # "start" => content = pre

(* While a backup is held, the backup file is the starting content.       *)
BackupInv ==
    /\ backup_path => pc \notin {"start", "backup"}
    /\ pc \in {"mutate", "cmake", "make"} => backup_path
    /\ backup_path /\ pc \in {"mutate", "cmake", "make", "finally", "restore_copy"}
         => backup = pre
    /\ pc = "restore_copy" => backup_path
    /\ pc = "restore_remove" => backup_path /\ content = pre /\ backup = pre

(* A finished run that made a backup restored it, or kept it when the      *)
(* finally block raised.                                                   *)
ReturnInv ==
    pc = "done" /\ backup_path =>
        /\ raised # "restore" => content = pre /\ backup = "none"
        /\ raised = "restore" => content = pre \/ backup = pre

(* Before any crash, this run started from the original content.          *)
NoCrashInv ==
    crashes = 0 => pre = orig /\ (pc = "start" => content = orig)

(* Behind PassMeansBuildFailed: once the try body is left with nothing    *)
(* raised and exit_code still 0, cmake or make returned non-zero.          *)
PassInv ==
    pc \in {"finally", "restore_copy", "restore_remove", "done"}
      /\ raised = "no" /\ exit_code = 0
      => reconfig = "failed" \/ build = "failed"

(* What one run keeps of its starting content, whatever the files held    *)
(* when it started.                                                        *)
RunInv ==
    /\ TypeOK
    /\ UntouchedInv
    /\ BackupInv
    /\ ReturnInv

IInv == RunInv /\ NoCrashInv

====

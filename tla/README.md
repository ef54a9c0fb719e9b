# TLA+ models of the OpenFIDO build scripts

This directory holds TLA+ specifications of the three programs under `src/`. Each one has TLC models and TLAPS proofs:

- `scripts/validate_build.py` is the build-manifest validator.
- `tests/test_cmake_error_handling.py` is the manifest-mutation harness.
- `scripts/flash.py` is the flash dispatcher.

`PROJECT.json` records the following:

- which module models which source lines (`map`);
- every run and the properties it checks;
- the mutants that show each property can fail;
- the findings and the hazards;
- the theorems.

## 1. Inventory

### Components and their state

| Component | Source | State | Operations |
|---|---|---|---|
| Path extractor | `validate_build.py` 21-47 | `seen`, `source_files`, the match index | open/read (may raise), `findall`, one dedup iteration per match |
| Existence verifier | `validate_build.py` 50-68 | `missing_files`, the loop index | one `isfile` check per reference, with no early exit |
| Reporter / exit code | `validate_build.py` 71-116 | exit code, printed report | existence check of `CMakeLists.txt`, success report (sorted), failure report |
| Mutation harness | `test_cmake_error_handling.py` | the files `CMakeLists.txt` and `CMakeLists.txt.backup`, and the locals `backup_path`, `exit_code`, `reconfig_result`, `result`, `found_error` | setup checks, `backup_file`, `add_invalid_file_reference`, `run_cmake_reconfigure`, `run_make_build`, the `finally` block with `restore_file` |
| Flash dispatcher | `flash.py` | the target device's flash and core, and the exit status | firmware check, `check_tool`, one `st-flash`/`openocd` call or `nrfjprog` erase/program/reset, `error()` |
| Build validation tests | `tests/test_build_validation.py` | temporary fixture trees | three fixed runs of the validator |

The components interact only through files and exit codes:

- The validator reads `CMakeLists.txt` and the source tree, and its exit code gates the build.
- The harness writes `CMakeLists.txt` and runs external `cmake` and `make`.
- The dispatcher runs vendor tools against a device.

### Hard behaviours

These are where bugs can hide that a test would hardly reach:

- **Partial failure in the harness.** Every `copy2`, `open('w')`/`write` and `os.remove` may raise. This can happen after a file is already truncated. An exception raised in `finally` replaces the one in flight.
- **Crash and restart of the harness.** A killed process skips its `finally` block, so the manifest stays mutated. A rerun then overwrites the backup.
- **Vacuous passes.** `str.replace` may not find the block it mutates. A failing `cmake` run leaves `exit_code` at 0 whatever its output says.
- **Check-then-use.** `exists()` followed by `open()` in the validator, and `which()` followed by `subprocess.run` in the dispatcher, can see different states.
- **Multi-step device programming.** An erase can succeed and the program step then fail, which leaves an erased device.
- **External tools with and without timeouts.** The harness uses 30 and 60 s limits; the dispatcher uses none.
- **Lexical extraction.** The pattern `src/[a-zA-Z0-9_/]+\.[ch]` has no word boundaries, and `+` backtracks.
- **Two harnesses on one checkout.** The backup path is fixed and nothing locks the manifest.

### Properties per component

- **Validator**
  - Exit-code contract: `VerdictCorrect` (P1/P2).
  - The failure report is exact and in first-occurrence order: `MissingReportExact` (P2/P3).
  - Refinement: `ImplementsAbstract` (main() implements the one-step `AbstractValidator`, which also says that main() returns).
- **Extractor**
  - Every match ends where the path the manifest writes ends: `ExtractedAsWritten`. It fails; see the findings.
- **Harness**
  - Per-run restoration: `RestoredOnReturn` (P5).
  - The original is never lost: `OriginalSurvives` (P5 across crashes).
  - A pass means the build system failed: `PassMeansBuildFailed` (requirement 3.2).
  - A pass means the missing file was reported: `PassMeansFileReported` (scenario 5).
  - Termination: `Terminates`.
  - `restore_file` deletes the backup only after the copy back: `BackupRemovedOnlyWhenRestored` (an action property).
  - Every write to the manifest is the mutation, the run's starting content or a truncation: `ManifestWritesOnlyExpected` (an action property).
  - Two runs on one checkout both restore: `BothRestored` (P5, spec §5). It holds when the callers serialise the runs (`SerialSpec`). It fails when the runs overlap; see the findings.
- **Dispatcher**
  - Status 0 exactly when the device runs the new image: `FlashOutcomeReported`.
  - Refinement: `ImplementsAbstract` (`flash.py` implements its contract `AbstractFlasher`, spec §6).

## 2. Modules and plan

| Module | Role |
|---|---|
| `Validator.tla` | One run of `validate_build.py` `main()`. CONSTANTS `Paths` (naturals standing for path strings, ordered like the strings) and `MaxRefs`. |
| `ValidatorProofs.tla` | Lemmas about `Sorted`, the inductive invariant, and the theorems `TypeCorrect` and `VerdictCorrectness`. |
| `ValidatorRefinementProofs.tla` | `OrderInv`, the theorems `MissingReportExactHolds` and `ValidatorImplementsAbstract`. |
| `AbstractValidator.tla` | What the validator promises, as one atomic step from the inputs to exit code, report and list (spec §4.2, §4.3, §8). Same constants. |
| `MC_Validator.tla` | `Paths = {1,2,3}`, `MaxRefs = 4`. |
| `Extractor.tla` | The `findall` scan of the pattern at the character level, each engine phase given by what it returns. CONSTANT `Texts`, any set of character sequences. |
| `MC_Extractor.tla` | `Texts` is one or two of six manifest words (`MCTexts`). |
| `Harness.tla` | One harness process with at most `MaxCrashes` kill-and-rerun cycles. |
| `HarnessProofs.tla` | The theorems `HarnessTypeCorrect`, `RestoredOnReturnHolds`, `OriginalSurvivesWithoutCrash`, `PassMeansBuildFailedHolds`, `BackupRemovedOnlyWhenRestoredHolds` and `ManifestWritesOnlyExpectedHolds`. |
| `HarnessPair.tla` | Two harness processes on one checkout: two `INSTANCE`s of `Harness`, each with its own locals, sharing the file variables. `Spec` interleaves them freely; `SerialSpec` starts the second run only after the first has returned. Its own run module. |
| `HarnessPairProofs.tla` | Two instances of `HarnessProofs`, one per run, and the theorem `SerialBothRestored`. |
| `MC_Harness.tla` | `MaxCrashes = 1` (`MCMaxCrashes`), or `0` (`MCNoCrashes`) for `harness_no_crash`. |
| `Flasher.tla` | One run of `flash.py` after argparse accepted the arguments. |
| `FlasherProofs.tla` | The theorems `FlasherTypeCorrect`, `FlashOutcomeReportedHolds` and `FlasherImplementsAbstract`. |
| `AbstractFlasher.tla` | The dispatcher's contract (spec §6): a tool may change the flash once the firmware and the tool were found, and a run that ends does so with status 0 exactly when the new image runs. |
| `MC_Flasher.tla` | No constants. |

Plan for later sittings:

1. **A harness and a validator on one manifest.** A composition like `HarnessPair` in which a validator run reads `CMakeLists.txt` while a harness holds it mutated, to state the other half of §5 (no validator observes the mutated state).
2. **The extractor composed with the validator.** Feed `Validator` the matches `Extractor` finds, so the dedup loop and the scan are checked together.

## 3. How the modules correspond to the code

### Validator

The manifest text is abstracted to the sequence of its regex matches (`manifest`). The filesystem is abstracted to the kind of each path (`fs`: regular, directory, absent), and `IsFile` is `os.path.isfile`. `manifestKind` covers three cases:

- `text`: a readable file;
- `unreadable`: it exists but `open`/`read` raises, as for a directory, missing permissions or an undecodable file;
- `absent`.

The actions map to the code as follows:

- `CheckCMakeFile` is the `exists()` test.
- `ParseOpen` is `open`/`read`. A raise is uncaught, so the script ends with a traceback and status 1.
- `ParseDedupStep` is one iteration of the dedup loop.
- `ParseReturn` returns the list and starts `verify_files_exist`.
- `VerifyStep` is one iteration of the existence loop.
- `Report` is the two report branches of `main()`.

`sorted()` is `Sorted`: position `x` holds the element whose rank is `x`, which is correct because `source_files` never holds a duplicate. The mutants are defined next to the action they change.

### Abstract validator and the refinement mapping

`AbstractValidator` has the same inputs (`manifestKind`, `manifest`, `fs`) and outputs (`exit_code`, `report`, `listed`), plus a flag `finished`. Its single action `Validate` takes the outcome the spec promises:

- an absent manifest gives the configuration error;
- an unreadable one gives a traceback;
- if every referenced path is a regular file, the success report lists the referenced paths in increasing order;
- otherwise the failure report lists the missing paths, each once, in first-occurrence order.

`Validator` defines `AV == INSTANCE AbstractValidator WITH finished <- (pc = "done")`. Every other variable maps to itself. Every step of `main()` before `Report` leaves the abstract variables unchanged, and is a stutter. `Report` is the abstract `Validate` step. `ImplementsAbstract == AV!Spec` includes the abstract fairness, so the run also shows that `main()` reaches its report.

### Extractor

`text` is a sequence of one-character strings, any element of the constant `Texts`. `MC_Extractor` gives TLC one word, or two words separated by a blank. Each word is a path as a manifest writes it: `src/a.c`, `src/a.h`, `src/b/a.c`, `src/a.cpp`, `lib/src/a.c` and `src/a-b.c`. The correspondence with the code is as follows:

- `ClassChars` is the class `[a-zA-Z0-9_/]`.
- `RunEnd` is where the greedy run of `+` ends: the last class character before the first one outside the class.
- `Backtrack` is where giving characters back stops: the greatest run end that `\.[ch]` follows (`Tails`).
- `MatchAt` tries the pattern at one position.
- `ScanStep` is one position of `findall`. After a match it resumes behind the match, otherwise at the next character.

All of this is what Python's `re` does with the one pattern of line 35; the repository's own logic is what the script does with the result: it takes each match as a file the manifest references. So the run asks only that question (`ExtractedAsWritten`). A property comparing the scan with a second definition of the same pattern would check the model of `re`, not the script, and is not stated.

### Harness

File contents are `pristine` (holding the exact `CRYPTO_SOURCES` block), `noblock` (no such block), `mutated` and `partial` (truncated). The backup is its content or `none` when it does not exist. `raised` records the exception leaving `main()`: none, raised in the try body, or raised in `finally`. `status` is the process exit status. `orig` and `pre` are history variables: the content before the first run and before this run.

The actions map to the code as follows:

- `CheckSetup`, `BackupFile` and `AddInvalidFileReference` are Steps 1-2.
- `RunCMakeReconfigure` and `CMakeNotFound` are Step 3 with each outcome.
- `RunMakeBuild` is Steps 4-6.
- `Finally`, `RestoreCopy` and `RestoreRemove` are the `finally` block.
- `CrashRestart` is the process being killed (no `finally`) and started again.

`HarnessPair` instantiates `Harness` twice, as `H1` and `H2`, with `MaxCrashes <- 0`. The locals of each run are renamed (`pc1`, `backup_path1`, ... and `pc2`, ...). `cmakeExists`, `buildExists`, `orig`, `content` and `backup` are shared. `Step1` is a step of the first run with the second's locals unchanged, and `Step2` is the converse. Nothing in the harness serialises the two runs, so their steps interleave freely.

### Flasher

`device` is one of `old`, `erased`, `partial`, `new_halted` and `new_running`. The actions map to the code as follows:

- `Dispatch` is the firmware and `check_tool` tests. Both fail through `Fail`, which is `error()`.
- `FlashStm32` is the single `st-flash` or `openocd` call.
- `NrfErase`, `NrfProgram` and `NrfReset` are the three `nrfjprog` calls.

Each tool call returns 0, returns non-zero (possibly after writing part of the flash), or finds its tool gone. The last case is a traceback with status 1. `ToolHangs` is a call that never returns (`pc = "hung"`), possibly after writing part of the flash: `subprocess.run` is called without a timeout.

`AF` instantiates `AbstractFlasher` with `finished <- (pc = "done")`; the other abstract variables are the concrete ones of the same name. `AbstractFlasher` has two actions. `Flash` is a change of the flash, allowed only once both checks passed and never to the running image. `Finish` is the end, with status 0 exactly when the image runs and the device untouched if a check failed. The platform and the method are not in the contract, because they only choose the tool.

## 4. Runs

| Run | Result | What it shows |
|---|---|---|
| `validator_contract` | pass, 51k states | `TypeOK`, `VerdictCorrect` and `MissingReportExact` hold for every manifest of up to 4 references over 3 paths, every file kind and every manifest kind. `main()` implements `AbstractValidator`, fairness included (so it returns), under `AV` (`ImplementsAbstract`). |
| `harness_restore` | pass, 673 states | With any exception, any tool outcome and one kill-and-rerun: `RestoredOnReturn`, `PassMeansBuildFailed`, `Terminates`, `BackupRemovedOnlyWhenRestored` and `ManifestWritesOnlyExpected`. |
| `harness_no_crash` | pass, 242 states | `OriginalSurvives` holds when the harness is never killed. |
| `harness_crash_rerun` | violation | Kill after the mutation, then rerun, and the original content is gone. |
| `harness_vacuous_pass` | violation | `cmake` fails without naming the file, and the harness still exits 0. |
| `extractor_written` | violation | For the manifest entry `src/a.cpp`, `findall` returns `src/a.c`, a path the manifest never names. |
| `harness_pair` | violation | Two overlapping runs both return normally and leave the manifest mutated. |
| `harness_serial` | pass, 5344 states | When the second run starts only after the first returned (`SerialSpec`), both leave the manifest as it was whenever neither restore raised (`BothRestored`), with every exception and tool outcome in either run. |
| `flasher_exit` | pass, 132 states | `FlashOutcomeReported` holds for both platforms and methods and for every failure of every call, including a call that hangs, and every run is a behaviour of `AbstractFlasher` (`ImplementsAbstract`). |

**Bounds.** Three paths and four references are enough for all of these cases:

- duplicates;
- a path referenced twice with a missing path between;
- reversed order;
- all of regular, directory and absent;
- the empty manifest.

Every case in the validator loops depends only on whether a path was seen before and on its kind, so larger bounds only repeat them. The extractor's six words give every case of the pattern: a plain match, a header, a subdirectory (where `/` is in the class), a longer extension (where the engine backtracks to `.c`), a second `src/` inside a path, and a character outside the class. Two words give the cases of one match resuming behind another; TLC stops at the first, `src/a.cpp`. For the harness, one crash is enough to reach every crash point followed by a complete rerun. `harness_no_crash` uses `MaxCrashes = 0`, the case in which `OriginalSurvives` is claimed, and it is proved for that case.

**Fairness.**

- **Validator:** weak fairness of `Next`. It is one sequential process with finite loops.
- **Harness:** weak fairness of `Next`. Every external call is bounded by a `subprocess.run` timeout, and crashes are bounded by `MaxCrashes`. The timeouts are taken on trust: the harness model has no call that hangs, so `Terminates` rests on them rather than checking them.
- **Harness pair:** weak fairness of each run's steps, `Step1` and `Step2`. Each is a process of its own. `SerialSpec` has no fairness: `harness_serial` checks only the safety property `BothRestored`.
- **Extractor:** weak fairness of the scan. `findall` is a loop over a finite text. No property of the run uses it.
- **Dispatcher:** none. A tool call has no timeout, and `ToolHangs` is a call that never returns. Neither the spec (§1 bounds the dispatcher by its opaque tools, §5 scopes timeouts to the harness) nor `AbstractFlasher` promises that the script ends, so only safety is claimed of it; both properties hold on the runs that hang.

The deadlock check is off in every configuration: a finished run (`pc = "done"`) is the process exiting.

**Mutants.** Every property of a passing run is broken by a plausible bug in the action it depends on:

- `VerifyStep_Exists` uses `exists` instead of `isfile`.
- `VerifyStep_Prepend` puts each missing path in front of the list.
- `Report_ExitLen` returns the missing count as the exit code.
- `BackupFile_PathFirst` assigns `backup_path` before the copy. It breaks `RestoredOnReturn`, `OriginalSurvives`, `ManifestWritesOnlyExpected` (a failed copy leaves a stale backup that a later restore writes back) and `BothRestored` under `SerialSpec`.
- `RunMakeBuild_OkPasses` does not count a build that succeeded as a failure.
- `RestoreRemove_WrongFile` removes the manifest instead of the backup.
- `RestoreRemove_Retry` retries the restore forever.
- `NrfReset_Unchecked` calls reset with `check=False`.
- `Report_Unsorted` prints the success list unsorted. It breaks `ImplementsAbstract`.
- `Dispatch_NoFirmwareCheck` drops `main()`'s firmware check, so a tool runs on a firmware path that does not exist. It breaks `ImplementsAbstract`.

## 5. Findings

1. **`test_cmake_error_handling.py:21`**: `backup_file` overwrites an existing backup without looking at it. A harness killed after mutating the manifest and then rerun destroys the only copy of the original. P5 does not cover a killed harness.
2. **`test_cmake_error_handling.py:145`**: when `cmake` fails, the harness passes whatever `found_error` says. It also passes when the mutation was never applied, because the block was missing. This contradicts scenario 5.
3. **`validate_build.py:35`**: the pattern has no boundary after the extension. For the entry `src/a.cpp`, `findall` returns `src/a.c`, so the validator checks (and may report missing) a file the manifest never names, and never checks the one it does name. The spec (§3) defines a reference as a path as written in the manifest. (The missing boundary before `src/` is not stated as a property: `${CMAKE_SOURCE_DIR}/src/x.c`, which the code rightly extracts, has the same shape as `lib/src/x.c`.)
4. **`test_cmake_error_handling.py:21`, two runs at once.** Run 1 backs up and mutates. Run 2 backs up the mutated file over run 1's backup. Run 1 restores the mutated content and removes the backup. Run 2 finds no backup and skips the restore. Both return normally, and the manifest stays mutated. Spec §5 says the harness must guarantee single-writer discipline for its run; nothing in the code does.

## 6. Proofs (TLAPS)

All theorems hold for every value of the constants, under the assumptions `PathsAssumption` (`Paths` is a finite set of naturals), `MaxRefsAssumption` and `MaxCrashesAssumption`. Each one follows the same argument: `Init => IInv`, `IInv /\ [Next]_vars => IInv'` (one lemma or step per action), `IInv => P`, and then PTL. Each `IInv` was checked with TLC before it was proved.

### Validator

`IInv` is made of these parts:

- `TypeOK`;
- `source_files` is injective;
- `DedupInv`: `seen` is the set of matches before `j`, and is the range of `source_files`;
- `VerifyInv`: the range of `missing_files` is the set of non-files among the first `i-1` references;
- `StageInv`: the manifest kinds already excluded at each stage;
- `DoneInv`: what a finished run printed and returned.

`VerdictCorrect` alone is not inductive, because it says nothing before `done`. The loop invariants carry the prefix of the input already consumed.

Type correctness of the success list needs more. It uses the lemmas that `SortRank` is a bijection on the positions of an injective sequence (`RankBounds`, `RankMonotone`, `RankOnto`, `SortedType`), so the `CHOOSE` in `Sorted` always finds a position. The reusable lemmas `RangeAppend`, `InjectiveAppend` and `RangeEmpty` are about `Range` and `Append`.

`ValidatorRefinementProofs` adds `OrderInv`, which is inductive together with `IInv` (`NextOrder` assumes both). It is made of these parts:

- the manifest has at most `MaxRefs` references;
- during the dedup loop, `source_files` is no longer than the prefix consumed;
- `source_files`, and during verification `missing_files`, list their elements in first-occurrence order in the manifest (`FirstOccurrenceOrdered`);
- before `done`, nothing has been reported;
- `MissingReportExact` itself.

The order is preserved because the dedup loop appends a match only when it is not in `seen`. By `DedupInv`, this means it does not occur earlier in the manifest, and every element already listed does occur earlier (`FOOAppend`). `MissingReportExactHolds` follows.

`ValidatorImplementsAbstract` proves `Spec => AV!SafeSpec`:

- `Init` maps to `AV!Init` (`InitRefines`);
- every step before `Report` is a stutter of the abstract variables (`StartRefines`, `LoopRefines`);
- `Report` is an `AV!Validate` step (`ReportRefines`).

The success case needs `Sorted(source_files)` to be an increasing list of exactly the referenced paths (`SortedFacts`, from the rank lemmas). The failure case takes the missing paths in first-occurrence order from `OrderInv`. The fairness half of `AV!Spec` is checked by TLC only (`validator_contract`).

### Harness

`IInv` is made of these parts:

- `UntouchedInv`: without a backup, the manifest is still what this run started with;
- `BackupInv`: while a backup is held, it equals the starting content;
- `ReturnInv`: a finished run restored its backup, or kept it when the restore raised;
- `NoCrashInv`: with no crash so far, this run started from the original.

The first three parts and `TypeOK` form `RunInv`, which is inductive on its own (`NextRunInv`): it speaks only of the content the current run started from (`pre`), whatever the files held when it started. `NoCrashInv` needs `RunInv` (`NoCrashStep`). The split is what lets `HarnessPairProofs` reuse `RunInv` for a second run that starts from whatever the first left.

`PassMeansBuildFailedHolds` rests on `PassInv`, which is inductive on its own: once the try body is left with nothing raised and `exit_code` still 0, `cmake` or `make` returned non-zero. Every other exit from the body sets `exit_code` to 1 or raises, and only a restart resets both.

`BackupRemovedOnlyWhenRestoredHolds` proves the action property from `IInv` (`RemoveStep`). The only step that turns an existing backup into `none` is `RestoreRemove`. `BackupInv` says that at `restore_remove` both the manifest and the backup equal the starting content, so the copy back already happened. The swapped mutant (`Finally_RemoveFirst`) reaches `restore_remove` with the manifest still mutated.

`ManifestWritesOnlyExpectedHolds` proves the second action property from `RunInv` (`WriteStep`): the mutation writes `Mutate(content)`, the copy back writes the backup, which `BackupInv` says is `pre`, and a write that raises leaves `"partial"`. With the stale-backup mutant, a failed copy keeps an earlier backup that the restore then writes back.

`RestoredOnReturn` is proved for every `MaxCrashes`. `OriginalSurvives` is proved under the hypothesis `MaxCrashes = 0`. The crash run shows that it fails otherwise.

### Harness pair

`SerialBothRestored` proves `SerialSpec => []BothRestored`. Its inductive invariant `SerialInv` says:

- while the first run is not done, the second has not started;
- before the second starts, the first run's `IInv` holds;
- once the second started, its starting content is the original, unless the first run's restore raised;
- the second run's `RunInv` holds throughout.

`HarnessPairProofs` does not reprove the single-run facts. It instantiates `HarnessProofs` twice (`P1`, `P2`) with the run-local variables renamed and `MaxCrashes <- 0`. The prover does not identify `H1!IInv` (from `HarnessPair`) with `P1!IInv` (from the instance of the proof module), so the `Same*` lemmas state each equivalence by expanding both, primed ones separately. `FirstReturn` says that a first run that returned without a failed restore left the original; `StartStep2` says that the second run starts from what the manifest holds then. Together they give the third conjunct. Serialisation is what P5 needs and it is enough: `harness_pair` shows that overlapping runs break `BothRestored`.

### Flasher

`IInv` is `TypeOK`, plus the fact that the device does not run the new image before the end, plus `ChecksPassedInv` (between the dispatch and the end, the firmware and the tool were both found), plus `FlashOutcomeReported`. A hung call (`ToolHangs`) is one more case of the step proof: it never reaches `done`.

`FlasherImplementsAbstract` proves `Spec => AF!Spec`. `Init` maps to `AF!Init`. Under `IInv`, each step maps as follows (`StepRefines`):

- a dispatch that passes its checks is a stutter;
- an erase, a program or a hang is `AF!Flash`, by `ChecksPassedInv` and because the device does not run the image yet;
- every failure and every success that ends the run is `AF!Finish`.

The dispatcher promises nothing about termination, so there is no fairness to refine.

### Extractor

Nothing is proved about the extractor. Its one property, `ExtractedAsWritten`, fails. What the scan computes is the semantics of Python's `re` for the pattern of line 35, which is not the repository's logic (§3).

### What stays with TLC

These are checked by TLC only:

- liveness (the harness's `Terminates`, and the fairness half of the validator's `ImplementsAbstract`), which needs fairness and `ENABLED`, both out of the prover's reach;
- `HarnessPair` under free interleaving (`Spec`), where `BothRestored` fails;
- every property on instances larger than the bounds above, which the theorems cover only where they exist.

## 7. Not modelled

- **Long manifest texts.** TLC runs the scan on texts of at most two words over a small alphabet. `Validator` takes the matches as its input and is not composed with `Extractor`.
- **Printing.** The output wording is not modelled; the report kind and the listed paths are.
- **Argument parsing of `flash.py`.** `argparse` exits with status 2 on bad arguments, before any state changes.
- **The vendor tools' and `cmake`/`make`'s internals.** They are opaque collaborators, as the spec says; only the outcomes the scripts distinguish are modelled.
- **The build directory that a killed `cmake` may leave half-written.**
- **`tests/test_build_validation.py`.** It writes fixtures and runs the validator on fixed inputs, which are initial states of `Validator`.
- **A harness concurrent with a validator.** Two harnesses on one checkout are modelled and, serialised, proved (`HarnessPair`); a validator reading the manifest while a harness holds it mutated is planned (§2).

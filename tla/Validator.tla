----------------------------- MODULE Validator -----------------------------
(***************************************************************************)
(* The build-manifest validator, scripts/validate_build.py.                *)
(*                                                                         *)
(* One run of main(): check that CMakeLists.txt exists, read it, extract   *)
(* the source references (parse_cmake_sources: findall, then a dedup loop  *)
(* over the matches), check each reference with os.path.isfile            *)
(* (verify_files_exist: a loop with no early exit) and print the report    *)
(* and return the exit code.                                               *)
(*                                                                         *)
(* Data abstraction.  The manifest text is modelled by the sequence of     *)
(* regex matches it contains, in text order (manifest); a path is a        *)
(* natural number, and < on the numbers is the lexical order of the path   *)
(* strings they stand for, so that sorted() can be modelled.  The          *)
(* filesystem is the kind of object each path resolves to under the        *)
(* project root; isfile() holds exactly for "regular" (a symlink to a      *)
(* regular file counts as regular, a dangling one as absent).  The run     *)
(* only reads the filesystem, so the inputs do not change.                 *)
(***************************************************************************)
EXTENDS Naturals, Sequences, FiniteSets, Functions

CONSTANTS
    Paths,      \* the paths a manifest can reference
    MaxRefs     \* the most matches a manifest text is given in a run

ASSUME PathsAssumption == Paths \subseteq Nat /\ IsFiniteSet(Paths)
ASSUME MaxRefsAssumption == MaxRefs \in Nat

(* What CMakeLists.txt is: a readable text file, a path that exists but    *)
(* cannot be read as text (a directory, no permission, not decodable), or  *)
(* absent.                                                                 *)
ManifestKinds == {"text", "unreadable", "absent"}

(* What a referenced path resolves to under the project root.            *)
FileKinds == {"regular", "directory", "absent"}

(* What the run has printed: nothing yet, the "not found" error, a Python  *)
(* traceback (uncaught exception), the success or the failure report.     *)
Reports == {"none", "config_error", "traceback", "success", "failure"}

PCs == {"start", "parse", "dedup", "verify", "done"}

(* Sequences of at most n elements of S.                                  *)
BoundedSeq(S, n) == UNION {[1..k -> S] : k \in 0..n}

VARIABLES
    manifestKind,   \* input: the kind of CMakeLists.txt
    manifest,       \* input: the findall matches of its text, in order
    fs,             \* input: the kind of each path under the project root
    pc,             \* where main() is
    j,              \* index of the dedup loop over the matches
    seen,           \* parse_cmake_sources: seen
    source_files,   \* parse_cmake_sources: source_files
    i,              \* index of the loop of verify_files_exist
    missing_files,  \* verify_files_exist: missing_files
    exit_code,      \* the value main() returns (meaningful when pc = "done")
    report,         \* which report was printed
    listed          \* the paths printed as [OK] or [MISSING] lines, in order

inputs == <<manifestKind, manifest, fs>>
vars == <<manifestKind, manifest, fs, pc, j, seen, source_files, i,
          missing_files, exit_code, report, listed>>

TypeOK ==
    /\ manifestKind \in ManifestKinds
    /\ manifest \in Seq(Paths)
    /\ fs \in [Paths -> FileKinds]
    /\ pc \in PCs
    /\ j \in Nat \ {0}
    /\ seen \subseteq Paths
    /\ source_files \in Seq(Paths)
    /\ i \in Nat \ {0}
    /\ missing_files \in Seq(Paths)
    /\ exit_code \in {0, 1}
    /\ report \in Reports
    /\ listed \in Seq(Paths)

(* os.path.isfile(os.path.join(project_root, p))                          *)
IsFile(p) == fs[p] = "regular"

(* sorted() of a list of distinct paths (source_files never holds one      *)
(* twice): the rank of position k is one more than the number of smaller   *)
(* elements, and position x of the result holds the element of rank x.     *)
SortRank(s, k) == Cardinality({l \in 1..Len(s) : s[l] < s[k]}) + 1
Sorted(s) == [x \in 1..Len(s) |-> s[CHOOSE k \in 1..Len(s) : SortRank(s, k) = x]]

-----------------------------------------------------------------------------

Init ==
    /\ manifestKind \in ManifestKinds
    /\ manifest \in BoundedSeq(Paths, MaxRefs)
    /\ fs \in [Paths -> FileKinds]
    /\ pc = "start"
    /\ j = 1
    /\ seen = {}
    /\ source_files = <<>>
    /\ i = 1
    /\ missing_files = <<>>
    /\ exit_code = 0
    /\ report = "none"
    /\ listed = <<>>

(* main(): cmake_file.exists() is false -> print the error, return 1.      *)
(* exists() is also true of a directory, so only "absent" stops here.      *)
CheckCMakeFile ==
    /\ pc = "start"
    /\ IF manifestKind = "absent"
         THEN /\ pc' = "done"
              /\ exit_code' = 1
              /\ report' = "config_error"
         ELSE /\ pc' = "parse"
              /\ UNCHANGED <<exit_code, report>>
    /\ UNCHANGED <<inputs, j, seen, source_files, i, missing_files, listed>>

(* parse_cmake_sources: open() and read() raise when the path is not a     *)
(* readable text file; nothing catches the exception, so the interpreter   *)
(* prints a traceback and exits with status 1.  Otherwise findall yields   *)
(* the matches and the dedup loop starts with empty seen and source_files. *)
ParseOpen ==
    /\ pc = "parse"
    /\ IF manifestKind = "unreadable"
         THEN /\ pc' = "done"
              /\ exit_code' = 1
              /\ report' = "traceback"
         ELSE /\ pc' = "dedup"
              /\ UNCHANGED <<exit_code, report>>
    /\ j' = 1
    /\ seen' = {}
    /\ source_files' = <<>>
    /\ UNCHANGED <<inputs, i, missing_files, listed>>

(* One iteration of: for match in matches: if match not in seen: append,   *)
(* add to seen.                                                            *)
ParseDedupStep ==
    /\ pc = "dedup"
    /\ j <= Len(manifest)
    /\ LET match == manifest[j] IN
         /\ source_files' = IF match \notin seen
                              THEN Append(source_files, match)
                              ELSE source_files
         /\ seen' = seen \cup {match}
    /\ j' = j + 1
    /\ UNCHANGED <<inputs, pc, i, missing_files, exit_code, report, listed>>

(* The dedup loop is over: return source_files, print the count and call   *)
(* verify_files_exist with an empty missing_files.                        *)
ParseReturn ==
    /\ pc = "dedup"
    /\ j > Len(manifest)
    /\ pc' = "verify"
    /\ i' = 1
    /\ missing_files' = <<>>
    /\ UNCHANGED <<inputs, j, seen, source_files, exit_code, report, listed>>

(* Mutant: os.path.exists in place of os.path.isfile, which accepts a      *)
(* directory.                                                              *)
VerifyStep_Exists ==
    /\ pc = "verify"
    /\ i <= Len(source_files)
    /\ missing_files' = IF fs[source_files[i]] # "absent"
                          THEN missing_files
                          ELSE Append(missing_files, source_files[i])
    /\ i' = i + 1
    /\ UNCHANGED <<inputs, pc, j, seen, source_files, exit_code, report, listed>>

(* Mutant: each missing path is put in front, missing_files.insert(0, f). *)
VerifyStep_Prepend ==
    /\ pc = "verify"
    /\ i <= Len(source_files)
    /\ missing_files' = IF IsFile(source_files[i])
                          THEN missing_files
                          ELSE <<source_files[i]>> \o missing_files
    /\ i' = i + 1
    /\ UNCHANGED <<inputs, pc, j, seen, source_files, exit_code, report, listed>>

(* One iteration of: for file_path in source_files: if not isfile: append  *)
(* to missing_files.  There is no early exit.                             *)
VerifyStep ==
    /\ pc = "verify"
    /\ i <= Len(source_files)
    /\ missing_files' = IF IsFile(source_files[i])
                          THEN missing_files
                          ELSE Append(missing_files, source_files[i])
    /\ i' = i + 1
    /\ UNCHANGED <<inputs, pc, j, seen, source_files, exit_code, report, listed>>

(* Mutant: main returns the number of missing files as the exit status.   *)
Report_ExitLen ==
    /\ pc = "verify"
    /\ i > Len(source_files)
    /\ pc' = "done"
    /\ exit_code' = Len(missing_files)
    /\ report' = IF Len(missing_files) = 0 THEN "success" ELSE "failure"
    /\ listed' = IF Len(missing_files) = 0 THEN Sorted(source_files) ELSE missing_files
    /\ UNCHANGED <<inputs, j, seen, source_files, i, missing_files>>

(* Mutant: the success report lists source_files unsorted, in manifest   *)
(* order.                                                                  *)
Report_Unsorted ==
    /\ pc = "verify"
    /\ i > Len(source_files)
    /\ pc' = "done"
    /\ IF Len(missing_files) = 0
         THEN /\ exit_code' = 0
              /\ report' = "success"
              /\ listed' = source_files
         ELSE /\ exit_code' = 1
              /\ report' = "failure"
              /\ listed' = missing_files
    /\ UNCHANGED <<inputs, j, seen, source_files, i, missing_files>>

(* verify_files_exist returns (len(missing_files) == 0, missing_files);    *)
(* main prints the sorted source files and returns 0, or prints the        *)
(* missing files in their order and returns 1.                            *)
Report ==
    /\ pc = "verify"
    /\ i > Len(source_files)
    /\ pc' = "done"
    /\ IF Len(missing_files) = 0
         THEN /\ exit_code' = 0
              /\ report' = "success"
              /\ listed' = Sorted(source_files)
         ELSE /\ exit_code' = 1
              /\ report' = "failure"
              /\ listed' = missing_files
    /\ UNCHANGED <<inputs, j, seen, source_files, i, missing_files>>

Next ==
    \/ CheckCMakeFile
    \/ ParseOpen
    \/ ParseDedupStep
    \/ ParseReturn
    \/ VerifyStep
    \/ Report

(* The script is one sequential process that runs until main() returns:   *)
(* weak fairness of its steps is what the interpreter guarantees.          *)
Spec == Init /\ [][Next]_vars /\ WF_vars(Next)

-----------------------------------------------------------------------------
(* Helpers for stating the properties.                                    *)

(* The set of paths the manifest text references.                          *)
Referenced == Range(manifest)

(* The referenced paths that are not regular files.                       *)
MissingRefs == {p \in Referenced : ~IsFile(p)}

(* out lists distinct elements of s, each before the next in the order of  *)
(* their first occurrence in s: out[a] occurs in s before any occurrence   *)
(* of out[b] when a < b.                                                   *)
FirstOccurrenceOrdered(out, s) ==
    \A a, b \in DOMAIN out :
        a < b => \E k \in DOMAIN s : s[k] = out[a] /\ \A l \in 1..k : s[l] # out[b]

-----------------------------------------------------------------------------
(* Properties.                                                             *)

(* P1/P2, the exit-code contract of main(): when the script has returned,  *)
(* the exit code is 0 exactly when CMakeLists.txt was readable and every   *)
(* path it references is a regular file under the project root (an empty   *)
(* manifest passes vacuously).                                             *)
VerdictCorrect ==
    pc = "done" =>
        (exit_code = 0 <=> (manifestKind = "text" /\ MissingRefs = {}))

(* P2/P3, the failure report of main(): it lists every missing path once,  *)
(* no present one, in the order of first occurrence in the manifest.       *)
MissingReportExact ==
    report = "failure" =>
        /\ Range(listed) = MissingRefs
        /\ FirstOccurrenceOrdered(listed, manifest)

(* The abstract validator, with the refinement mapping: the abstract run   *)
(* has finished when main() has returned; inputs and outputs are the same. *)
AV == INSTANCE AbstractValidator WITH finished <- (pc = "done")

(* main() implements the abstract validator: every step of the script     *)
(* leaves the abstract state alone except the one that returns, which      *)
(* produces the outcome the inputs call for (the sorted success list, the  *)
(* missing list in first-occurrence order), and main() always returns.     *)
ImplementsAbstract == AV!Spec

-----------------------------------------------------------------------------
(* The inductive invariant behind VerdictCorrect: what each loop has done  *)
(* so far, stated over the prefix of its input it has consumed.            *)

(* The dedup loop: seen holds the matches before j, and source_files holds *)
(* each of them once.                                                      *)
DedupInv ==
    pc = "dedup" =>
        /\ j \in 1..Len(manifest) + 1
        /\ seen = {manifest[k] : k \in 1..j-1}
        /\ Range(source_files) = seen

(* The verify loop: source_files holds each referenced path once, and the  *)
(* missing ones before i are in missing_files.                             *)
VerifyInv ==
    pc = "verify" =>
        /\ Range(source_files) = Referenced
        /\ i \in 1..Len(source_files) + 1
        /\ Range(missing_files) = {source_files[k] : k \in {l \in 1..i-1 : ~IsFile(source_files[l])}}

(* The manifest kind each stage of main() has checked.                     *)
StageInv ==
    /\ pc = "parse" => manifestKind # "absent"
    /\ pc \in {"dedup", "verify"} => manifestKind = "text"

(* What a finished run has printed and returned.                           *)
DoneInv ==
    pc = "done" =>
        /\ report # "none"
        /\ exit_code = 0 <=> report = "success"
        /\ report = "config_error" => manifestKind = "absent"
        /\ report = "traceback" => manifestKind = "unreadable"
        /\ report \in {"success", "failure"} =>
              /\ manifestKind = "text"
              /\ report = "success" <=> MissingRefs = {}

(* The order and the length of the loops' outputs, and what a finished    *)
(* run has printed.  Behind MissingReportExact and the refinement; it is   *)
(* inductive together with IInv.                                           *)
OrderInv ==
    /\ Len(manifest) <= MaxRefs
    /\ pc = "dedup" => Len(source_files) <= j - 1
    /\ pc = "verify" => /\ Len(source_files) <= Len(manifest)
                        /\ Len(missing_files) <= i - 1
    /\ pc \in {"dedup", "verify"} => FirstOccurrenceOrdered(source_files, manifest)
    /\ pc = "verify" => FirstOccurrenceOrdered(missing_files, manifest)
    /\ pc # "done" => exit_code = 0 /\ report = "none" /\ listed = <<>>
    /\ MissingReportExact

IInv ==
    /\ TypeOK
    /\ IsInjective(source_files)
    /\ DedupInv
    /\ VerifyInv
    /\ StageInv
    /\ DoneInv

=============================================================================

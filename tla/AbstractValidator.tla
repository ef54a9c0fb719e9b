------------------------- MODULE AbstractValidator -------------------------
(***************************************************************************)
(* What the build-manifest validator promises, as one atomic step from its *)
(* inputs to its outcome (spec sections 4.2, 4.3 and 8).  The inputs are   *)
(* those of module Validator: the kind of CMakeLists.txt, the sequence of  *)
(* paths its text references, and the kind of each path.  The outcome is  *)
(* the exit code, the report printed and the paths it lists:               *)
(*   - CMakeLists.txt absent: the configuration error, status 1;           *)
(*   - not readable as text: a traceback, status 1;                        *)
(*   - every referenced path a regular file: the success report listing    *)
(*     the referenced paths in increasing order, status 0;                 *)
(*   - otherwise: the failure report listing each missing path once, in    *)
(*     the order of first occurrence in the manifest, status 1.            *)
(***************************************************************************)
EXTENDS Naturals, Sequences, FiniteSets, Functions

CONSTANTS Paths, MaxRefs

VARIABLES
    manifestKind,   \* input: the kind of CMakeLists.txt
    manifest,       \* input: the paths its text references, in order
    fs,             \* input: the kind of each path under the project root
    finished,       \* the validator has returned
    exit_code,      \* its exit status
    report,         \* which report it printed
    listed          \* the paths that report lists, in order

vars == <<manifestKind, manifest, fs, finished, exit_code, report, listed>>

BoundedSeq(S, n) == UNION {[1..k -> S] : k \in 0..n}

IsFile(p) == fs[p] = "regular"

Referenced == Range(manifest)

MissingRefs == {p \in Referenced : ~IsFile(p)}

(* out lists distinct elements in the order of their first occurrence in s *)
(* (as in module Validator).                                               *)
FirstOccurrenceOrdered(out, s) ==
    \A a, b \in DOMAIN out :
        a < b => \E k \in DOMAIN s : s[k] = out[a] /\ \A l \in 1..k : s[l] # out[b]

(* The lists of the elements of S in increasing order.                     *)
IncreasingLists(S) ==
    {s \in BoundedSeq(S, MaxRefs) :
        Range(s) = S /\ \A a, b \in DOMAIN s : a < b => s[a] < s[b]}

(* The lists of the elements of S in the order they first occur in m.      *)
FirstOccurrenceLists(S, m) ==
    {s \in BoundedSeq(S, MaxRefs) : Range(s) = S /\ FirstOccurrenceOrdered(s, m)}

Init ==
    /\ manifestKind \in {"text", "unreadable", "absent"}
    /\ manifest \in BoundedSeq(Paths, MaxRefs)
    /\ fs \in [Paths -> {"regular", "directory", "absent"}]
    /\ finished = FALSE
    /\ exit_code = 0
    /\ report = "none"
    /\ listed = <<>>

(* One validation: the outcome the inputs call for.                        *)
Validate ==
    /\ ~finished
    /\ finished' = TRUE
    /\ \/ /\ manifestKind = "absent"
          /\ exit_code' = 1 /\ report' = "config_error" /\ UNCHANGED listed
       \/ /\ manifestKind = "unreadable"
          /\ exit_code' = 1 /\ report' = "traceback" /\ UNCHANGED listed
       \/ /\ manifestKind = "text" /\ MissingRefs = {}
          /\ exit_code' = 0 /\ report' = "success"
          /\ listed' \in IncreasingLists(Referenced)
       \/ /\ manifestKind = "text" /\ MissingRefs # {}
          /\ exit_code' = 1 /\ report' = "failure"
          /\ listed' \in FirstOccurrenceLists(MissingRefs, manifest)
    /\ UNCHANGED <<manifestKind, manifest, fs>>

Next == Validate

SafeSpec == Init /\ [][Next]_vars

(* The validator always returns.                                           *)
Spec == SafeSpec /\ WF_vars(Validate)

====

-------------------------- MODULE ValidatorProofs --------------------------
(***************************************************************************)
(* Proofs about the validator (module Validator) for every set of paths    *)
(* and every bound on the manifest: type correctness and the exit-code     *)
(* contract VerdictCorrect, both from the inductive invariant IInv.        *)
(***************************************************************************)
EXTENDS Validator, FiniteSetTheorems, SequenceTheorems, TLAPS

-----------------------------------------------------------------------------
(* Lemmas about sorted(), modelled by Sorted: for a sequence of distinct   *)
(* naturals, SortRank maps the positions one-to-one onto themselves, so    *)
(* the CHOOSE in Sorted always finds its position and the result lists     *)
(* elements of the sequence.                                               *)

LEMMA IntervalCard ==
    ASSUME NEW n \in Nat
    PROVE  IsFiniteSet(1..n) /\ Cardinality(1..n) = n
BY FS_Interval

LEMMA RankBounds ==
    ASSUME NEW s \in Seq(Nat), NEW k \in 1..Len(s)
    PROVE  SortRank(s, k) \in 1..Len(s)
<1> DEFINE A == {l \in 1..Len(s) : s[l] < s[k]}
<1>1. IsFiniteSet(1..Len(s)) /\ Cardinality(1..Len(s)) = Len(s)
    BY IntervalCard
<1>2. IsFiniteSet((1..Len(s)) \ {k}) /\ Cardinality((1..Len(s)) \ {k}) = Len(s) - 1
    BY <1>1, FS_RemoveElement
<1>3. A \subseteq (1..Len(s)) \ {k}
    OBVIOUS
<1>4. IsFiniteSet(A) /\ Cardinality(A) <= Len(s) - 1
    BY <1>2, <1>3, FS_Subset
<1>5. Cardinality(A) \in Nat
    BY <1>4, FS_CardinalityType
<1>. QED
    BY <1>4, <1>5 DEF SortRank

(* A position holding a smaller element has a smaller rank.               *)
LEMMA RankMonotone ==
    ASSUME NEW s \in Seq(Nat), NEW a \in 1..Len(s), NEW b \in 1..Len(s),
           s[a] < s[b]
    PROVE  SortRank(s, a) < SortRank(s, b)
<1> DEFINE Aa == {l \in 1..Len(s) : s[l] < s[a]}
           Ab == {l \in 1..Len(s) : s[l] < s[b]}
<1>1. IsFiniteSet(Ab)
    BY IntervalCard, FS_Subset
<1>2. Aa \subseteq Ab \ {a} /\ a \in Ab
    OBVIOUS
<1>3. IsFiniteSet(Ab \ {a}) /\ Cardinality(Ab \ {a}) = Cardinality(Ab) - 1
    BY <1>1, <1>2, FS_RemoveElement
<1>4. Cardinality(Aa) <= Cardinality(Ab) - 1
    BY <1>2, <1>3, FS_Subset
<1>5. Cardinality(Aa) \in Nat /\ Cardinality(Ab) \in Nat
    BY <1>1, <1>3, <1>2, FS_Subset, FS_CardinalityType
<1>. QED
    BY <1>4, <1>5 DEF SortRank

(* For distinct elements every position is the rank of some position.     *)
LEMMA RankOnto ==
    ASSUME NEW s \in Seq(Nat), IsInjective(s)
    PROVE  \A x \in 1..Len(s) : \E k \in 1..Len(s) : SortRank(s, k) = x
<1> DEFINE n == Len(s)
           r == [k \in 1..n |-> SortRank(s, k)]
<1>1. r \in [1..n -> 1..n]
    BY RankBounds
<1>2. \A a, b \in 1..n : r[a] = r[b] => a = b
    <2> SUFFICES ASSUME NEW a \in 1..n, NEW b \in 1..n, a # b PROVE r[a] # r[b]
        OBVIOUS
    <2>1. s[a] # s[b] /\ s[a] \in Nat /\ s[b] \in Nat
        BY DEF IsInjective
    <2>2. CASE s[a] < s[b]
        BY <2>2, RankMonotone, RankBounds DEF r, n
    <2>3. CASE s[b] < s[a]
        BY <2>3, RankMonotone, RankBounds DEF r, n
    <2>. QED
        BY <2>1, <2>2, <2>3
<1>3. r \in Injection(1..n, 1..n)
    BY <1>1, <1>2 DEF Injection, IsInjective
<1>4. r \in Surjection(1..n, 1..n)
    BY <1>3, IntervalCard, FS_Injection
<1>5. \A x \in 1..n : \E k \in 1..n : r[k] = x
    BY <1>4 DEF Surjection
<1>. QED
    BY <1>5 DEF r

(* So sorted(s) lists elements of s.                                       *)
LEMMA SortedType ==
    ASSUME NEW S, S \subseteq Nat, NEW s \in Seq(S), IsInjective(s)
    PROVE  Sorted(s) \in Seq(S)
<1>1. \A x \in 1..Len(s) : (CHOOSE k \in 1..Len(s) : SortRank(s, k) = x) \in 1..Len(s)
    <2>1. s \in Seq(Nat)
        BY SeqMonotonic
    <2>. QED
        BY <2>1, RankOnto
<1>. QED
    BY <1>1 DEF Sorted

(* Appending to a sequence adds the element to its range.                 *)
LEMMA RangeAppend ==
    ASSUME NEW S, NEW s \in Seq(S), NEW e \in S
    PROVE  Range(Append(s, e)) = Range(s) \cup {e}
<1>1. DOMAIN Append(s, e) = 1..Len(s) + 1
    OBVIOUS
<1>2. \A k \in 1..Len(s) : Append(s, e)[k] = s[k]
    OBVIOUS
<1>3. Append(s, e)[Len(s) + 1] = e
    OBVIOUS
<1>. QED
    BY <1>1, <1>2, <1>3 DEF Range

(* Appending an element not yet in an injective sequence keeps it one.    *)
LEMMA InjectiveAppend ==
    ASSUME NEW S, NEW s \in Seq(S), NEW e \in S, IsInjective(s), e \notin Range(s)
    PROVE  IsInjective(Append(s, e))
<1>1. \A k \in 1..Len(s) : Append(s, e)[k] = s[k] /\ s[k] # e
    BY DEF Range
<1>. QED
    BY <1>1 DEF IsInjective

-----------------------------------------------------------------------------
(* The inductive invariant IInv (module Validator).                        *)

LEMMA InitIInv == Init => IInv
<1> SUFFICES ASSUME Init PROVE IInv
    OBVIOUS
<1>1. manifest \in Seq(Paths)
    BY DEF Init, BoundedSeq
<1>. QED
    BY <1>1 DEF Init, IInv, TypeOK, PCs, ManifestKinds, Reports,
              IsInjective, DedupInv, VerifyInv, StageInv, DoneInv

(* CheckCMakeFile and ParseOpen only move pc, set the exit and reset the   *)
(* dedup state.                                                            *)
LEMMA StartSteps ==
    ASSUME IInv, CheckCMakeFile \/ ParseOpen
    PROVE  IInv'
<1>. USE DEF IInv, TypeOK, PCs, Reports, IsInjective, DedupInv, VerifyInv,
             StageInv, DoneInv, inputs
<1>1. CASE CheckCMakeFile /\ manifestKind = "absent"
    BY <1>1 DEF CheckCMakeFile
<1>2. CASE CheckCMakeFile /\ manifestKind # "absent"
    BY <1>2 DEF CheckCMakeFile
<1>3. CASE ParseOpen /\ manifestKind = "unreadable"
    BY <1>3 DEF ParseOpen
<1>4. CASE ParseOpen /\ manifestKind # "unreadable"
    <2>1. pc = "parse" /\ manifestKind = "text"
        BY <1>4 DEF ParseOpen, ManifestKinds
    <2>2. Range(source_files') = {} /\ seen' = {manifest[k] : k \in 1..j'-1}
        BY <1>4 DEF ParseOpen, Range
    <2>. QED
        BY <1>4, <2>1, <2>2 DEF ParseOpen
<1>. QED
    BY <1>1, <1>2, <1>3, <1>4

(* One dedup iteration extends seen and source_files by the next match.    *)
LEMMA DedupStepIInv ==
    ASSUME IInv, ParseDedupStep
    PROVE  IInv'
<1> DEFINE match == manifest[j]
<1>1. /\ pc = "dedup" /\ j \in 1..Len(manifest)
      /\ seen = {manifest[k] : k \in 1..j-1}
      /\ Range(source_files) = seen
      /\ IsInjective(source_files)
      /\ match \in Paths
    BY DEF IInv, DedupInv, TypeOK, ParseDedupStep
<1>2. seen' = {manifest[k] : k \in 1..j'-1}
    BY <1>1 DEF ParseDedupStep
<1>3. CASE match \in seen
    <2>1. source_files' = source_files /\ seen' = seen
        BY <1>3 DEF ParseDedupStep
    <2>. QED
        BY <1>1, <1>2, <2>1
        DEF IInv, TypeOK, DedupInv, VerifyInv, StageInv, DoneInv, ParseDedupStep, inputs
<1>4. CASE match \notin seen
    <2>1. source_files' = Append(source_files, match) /\ seen' = seen \cup {match}
        BY <1>4 DEF ParseDedupStep
    <2>2. source_files \in Seq(Paths)
        BY DEF IInv, TypeOK
    <2>3. source_files' \in Seq(Paths)
        BY <1>1, <2>1, <2>2
    <2>4. Range(source_files') = seen'
        BY <1>1, <2>1, <2>2, RangeAppend
    <2>5. IsInjective(source_files')
        BY <1>1, <1>4, <2>1, <2>2, InjectiveAppend
    <2>. QED
        BY <1>1, <1>2, <2>3, <2>4, <2>5
        DEF IInv, TypeOK, DedupInv, VerifyInv, StageInv, DoneInv, ParseDedupStep, inputs
<1>. QED
    BY <1>3, <1>4

(* The end of the dedup loop: seen is every match.                         *)
LEMMA ParseReturnIInv ==
    ASSUME IInv, ParseReturn
    PROVE  IInv'
<1>1. /\ pc = "dedup" /\ manifestKind = "text"
      /\ j = Len(manifest) + 1
      /\ Range(source_files) = {manifest[k] : k \in 1..Len(manifest)}
      /\ manifest \in Seq(Paths) /\ source_files \in Seq(Paths)
    BY DEF IInv, DedupInv, StageInv, TypeOK, ParseReturn
<1>2. Range(source_files') = Referenced'
    <2>1. {manifest[k] : k \in 1..Len(manifest)} = Range(manifest)
        BY <1>1 DEF Range
    <2>. QED
        BY <1>1, <2>1 DEF ParseReturn, Referenced, inputs
<1>3. Range(missing_files') = {}
    BY DEF ParseReturn, Range
<1>4. i' \in 1..Len(source_files') + 1
    BY <1>1 DEF ParseReturn
<1>5. missing_files' = <<>> /\ pc' = "verify"
    BY DEF ParseReturn
<1>6. {source_files'[k] : k \in {l \in 1..i'-1 : ~IsFile(source_files'[l])}} = {}
    BY <1>5 DEF ParseReturn
<1>. QED
    BY <1>1, <1>2, <1>3, <1>4, <1>5, <1>6
    DEF IInv, TypeOK, PCs, DedupInv, VerifyInv, StageInv, DoneInv, ParseReturn, inputs

(* A sequence is empty exactly when its range is.                         *)
LEMMA RangeEmpty ==
    ASSUME NEW S, NEW s \in Seq(S)
    PROVE  Len(s) = 0 <=> Range(s) = {}
<1>1. Len(s) \in Nat /\ DOMAIN s = 1..Len(s)
    OBVIOUS
<1>2. Len(s) # 0 => s[1] \in Range(s)
    BY <1>1 DEF Range
<1>3. Len(s) = 0 => Range(s) = {}
    BY <1>1 DEF Range
<1>. QED
    BY <1>2, <1>3

(* One verify iteration classifies source_files[i].                        *)
LEMMA VerifyStepIInv ==
    ASSUME IInv, VerifyStep
    PROVE  IInv'
<1> DEFINE f == source_files[i]
           Miss(n) == {source_files[k] : k \in {l \in 1..n : ~IsFile(source_files[l])}}
<1>1. /\ pc = "verify" /\ i \in 1..Len(source_files)
      /\ Range(missing_files) = Miss(i - 1)
      /\ Range(source_files) = Referenced
      /\ source_files \in Seq(Paths) /\ missing_files \in Seq(Paths)
      /\ f \in Paths
    <2>1. pc = "verify" /\ i <= Len(source_files)
        BY DEF VerifyStep
    <2>2. /\ Range(source_files) = Referenced
          /\ i \in 1..Len(source_files) + 1
          /\ Range(missing_files) = Miss(i - 1)
        BY <2>1 DEF IInv, VerifyInv, Miss
    <2>3. source_files \in Seq(Paths) /\ missing_files \in Seq(Paths)
        BY DEF IInv, TypeOK
    <2>. QED
        BY <2>1, <2>2, <2>3 DEF f
<1>2. i - 1 \in Nat /\ 1..i = (1..i-1) \cup {i}
    BY <1>1
<1>3. ASSUME IsFile(f)
      PROVE  missing_files' \in Seq(Paths) /\ Range(missing_files') = Miss(i)
    <2>1. missing_files' = missing_files
        BY <1>3 DEF VerifyStep
    <2>2. Miss(i) = Miss(i - 1)
        BY <1>2, <1>3 DEF Miss, f
    <2>. QED
        BY <1>1, <2>1, <2>2
<1>4. ASSUME ~IsFile(f)
      PROVE  missing_files' \in Seq(Paths) /\ Range(missing_files') = Miss(i)
    <2>1. missing_files' = Append(missing_files, f)
        BY <1>4 DEF VerifyStep, f
    <2>2. Miss(i) = Miss(i - 1) \cup {f}
        BY <1>2, <1>4 DEF Miss, f
    <2>3. Range(missing_files') = Range(missing_files) \cup {f}
        BY <1>1, <2>1, RangeAppend
    <2>. QED
        BY <1>1, <2>1, <2>2, <2>3
<1>5. missing_files' \in Seq(Paths) /\ Range(missing_files') = Miss(i)
    BY <1>3, <1>4
<1>6. /\ source_files' = source_files /\ fs' = fs /\ manifest' = manifest
      /\ i' = i + 1 /\ pc' = pc
    BY DEF VerifyStep, inputs
<1>7. VerifyInv'
    BY <1>1, <1>5, <1>6 DEF VerifyInv, Referenced, IsFile, Miss
<1>8. TypeOK'
    BY <1>1, <1>5, <1>6 DEF IInv, TypeOK, VerifyStep, inputs
<1>. QED
    BY <1>6, <1>7, <1>8
    DEF IInv, DedupInv, StageInv, DoneInv, VerifyStep, inputs

(* When the verify loop is over, missing_files holds exactly the missing   *)
(* referenced paths.                                                       *)
LEMMA MissingAtReport ==
    ASSUME IInv, pc = "verify", i > Len(source_files)
    PROVE  /\ manifestKind = "text"
           /\ i = Len(source_files) + 1
           /\ Range(missing_files) = MissingRefs
<1>1. /\ pc = "verify" /\ i = Len(source_files) + 1
      /\ manifestKind = "text"
      /\ Range(source_files) = Referenced
      /\ Range(missing_files) =
            {source_files[k] : k \in {l \in 1..Len(source_files) : ~IsFile(source_files[l])}}
      /\ source_files \in Seq(Paths) /\ missing_files \in Seq(Paths)
      /\ IsInjective(source_files)
    <2>1. pc = "verify" /\ i > Len(source_files)
        OBVIOUS
    <2>2. /\ source_files \in Seq(Paths) /\ missing_files \in Seq(Paths)
          /\ IsInjective(source_files) /\ manifestKind = "text"
        BY <2>1 DEF IInv, TypeOK, StageInv
    <2>3. /\ Range(source_files) = Referenced
          /\ i \in 1..Len(source_files) + 1
          /\ Range(missing_files) =
               {source_files[k] : k \in {l \in 1..i-1 : ~IsFile(source_files[l])}}
        BY <2>1 DEF IInv, VerifyInv
    <2>4. i = Len(source_files) + 1
        BY <2>1, <2>2, <2>3
    <2>. QED
        BY <2>1, <2>2, <2>3, <2>4
<1>2. Range(missing_files) = MissingRefs
    <2>1. Range(missing_files) \subseteq MissingRefs
        <3>1. Range(source_files) = Range(manifest)
            BY <1>1 DEF Referenced
        <3>. QED
            BY <1>1, <3>1 DEF MissingRefs, Range
    <2>2. MissingRefs \subseteq Range(missing_files)
        <3>1. SUFFICES ASSUME NEW p \in MissingRefs PROVE p \in Range(missing_files)
            OBVIOUS
        <3>5. p \in Range(source_files)
            BY <1>1 DEF MissingRefs
        <3>6. DOMAIN source_files = 1..Len(source_files)
            BY <1>1
        <3>2. PICK k \in 1..Len(source_files) : source_files[k] = p
            BY <3>5, <3>6 DEF Range
        <3>3. ~IsFile(source_files[k])
            BY <3>2 DEF MissingRefs
        <3>4. k \in {l \in 1..Len(source_files) : ~IsFile(source_files[l])}
            BY <3>2, <3>3
        <3>. QED
            BY <1>1, <3>2, <3>4 DEF IsFile
    <2>. QED
        BY <2>1, <2>2
<1>. QED
    BY <1>1, <1>2

(* The report: no missing file exactly when no referenced path is missing. *)
LEMMA ReportIInv ==
    ASSUME IInv, Report
    PROVE  IInv'
<1>1. /\ pc = "verify" /\ i = Len(source_files) + 1
      /\ manifestKind = "text"
      /\ source_files \in Seq(Paths) /\ missing_files \in Seq(Paths)
      /\ IsInjective(source_files)
    BY MissingAtReport DEF Report, IInv, TypeOK
<1>2. Range(missing_files) = MissingRefs
    BY MissingAtReport DEF Report
<1>3. Len(missing_files) = 0 <=> MissingRefs = {}
    BY <1>1, <1>2, RangeEmpty
<1>4. Sorted(source_files) \in Seq(Paths)
    BY <1>1, PathsAssumption, SortedType
<1>5. MissingRefs' = MissingRefs
    BY DEF Report, inputs, MissingRefs, Referenced, IsFile
<1>6. CASE Len(missing_files) = 0
    BY <1>1, <1>3, <1>4, <1>5, <1>6
    DEF IInv, TypeOK, Reports, PCs, DedupInv, VerifyInv, StageInv, DoneInv,
        Report, inputs
<1>7. CASE Len(missing_files) # 0
    BY <1>1, <1>3, <1>5, <1>7
    DEF IInv, TypeOK, Reports, PCs, DedupInv, VerifyInv, StageInv, DoneInv,
        Report, inputs
<1>. QED
    BY <1>6, <1>7

LEMMA NextIInv == IInv /\ [Next]_vars => IInv'
<1> SUFFICES ASSUME IInv, [Next]_vars PROVE IInv'
    OBVIOUS
<1>1. CASE CheckCMakeFile \/ ParseOpen
    BY <1>1, StartSteps
<1>2. CASE ParseDedupStep
    BY <1>2, DedupStepIInv
<1>3. CASE ParseReturn
    BY <1>3, ParseReturnIInv
<1>4. CASE VerifyStep
    BY <1>4, VerifyStepIInv
<1>5. CASE Report
    BY <1>5, ReportIInv
<1>6. CASE UNCHANGED vars
    BY <1>6 DEF vars, IInv, TypeOK, IsInjective, DedupInv, VerifyInv,
              StageInv, DoneInv, MissingRefs, Referenced, IsFile
<1>. QED
    BY <1>1, <1>2, <1>3, <1>4, <1>5, <1>6 DEF Next

-----------------------------------------------------------------------------
(* Type correctness: every variable keeps its type in every run, the       *)
(* printed success list included (sorted() of source_files, which the     *)
(* dedup loop keeps free of duplicates).                                   *)
THEOREM TypeCorrect == Spec => []TypeOK
<1>1. IInv => TypeOK
    BY DEF IInv
<1>. QED
    BY <1>1, InitIInv, NextIInv, PTL DEF Spec

(* The exit-code contract of main(), VerdictCorrect, for every set of      *)
(* paths and manifest length: exit code 0 exactly when CMakeLists.txt is   *)
(* readable and every path it references is a regular file.                *)
THEOREM VerdictCorrectness == Spec => []VerdictCorrect
<1>1. IInv => VerdictCorrect
    BY DEF IInv, DoneInv, VerdictCorrect, TypeOK, Reports, ManifestKinds
<1>. QED
    BY <1>1, InitIInv, NextIInv, PTL DEF Spec

=============================================================================

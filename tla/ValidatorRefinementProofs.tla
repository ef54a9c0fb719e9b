--------------------- MODULE ValidatorRefinementProofs ---------------------
(***************************************************************************)
(* Proofs that the failure report of the validator lists the missing paths *)
(* in first-occurrence order (MissingReportExact), and that main()         *)
(* implements the abstract validator (module AbstractValidator) under the  *)
(* refinement mapping AV of module Validator.  Both rest on OrderInv,      *)
(* inductive together with IInv (module ValidatorProofs).                  *)
(***************************************************************************)
EXTENDS ValidatorProofs

-----------------------------------------------------------------------------
(* Lemmas about FirstOccurrenceOrdered and BoundedSeq.                     *)

(* The empty list is ordered.                                              *)
LEMMA FOOEmpty ==
    ASSUME NEW s
    PROVE  FirstOccurrenceOrdered(<<>>, s)
BY DEF FirstOccurrenceOrdered

(* Appending e keeps a list ordered when every element already listed      *)
(* first occurs before the first occurrence of e.                          *)
LEMMA FOOAppend ==
    ASSUME NEW S, NEW s \in Seq(S), NEW out \in Seq(S), NEW e \in S,
           FirstOccurrenceOrdered(out, s),
           \A a \in DOMAIN out :
              \E k \in DOMAIN s : s[k] = out[a] /\ \A l \in 1..k : s[l] # e
    PROVE  FirstOccurrenceOrdered(Append(out, e), s)
<1> DEFINE o == Append(out, e)
<1>1. /\ DOMAIN o = 1..Len(out) + 1
      /\ \A a \in 1..Len(out) : o[a] = out[a]
      /\ o[Len(out) + 1] = e
    OBVIOUS
<1> SUFFICES ASSUME NEW a \in DOMAIN o, NEW b \in DOMAIN o, a < b
             PROVE  \E k \in DOMAIN s : s[k] = o[a] /\ \A l \in 1..k : s[l] # o[b]
    BY DEF FirstOccurrenceOrdered, o
<1>2. a \in 1..Len(out)
    BY <1>1
<1>3. CASE b \in 1..Len(out)
    BY <1>1, <1>2, <1>3 DEF FirstOccurrenceOrdered, o
<1>4. CASE b = Len(out) + 1
    BY <1>1, <1>2, <1>4 DEF o
<1>. QED
    BY <1>1, <1>3, <1>4

(* BoundedSeq(S, n) is the sequences over S of length at most n.           *)
LEMMA BoundedSeqLen ==
    ASSUME NEW S, NEW n \in Nat, NEW s
    PROVE  s \in BoundedSeq(S, n) <=> s \in Seq(S) /\ Len(s) <= n
<1>1. ASSUME s \in BoundedSeq(S, n) PROVE s \in Seq(S) /\ Len(s) <= n
    <2>1. PICK k \in 0..n : s \in [1..k -> S]
        BY <1>1 DEF BoundedSeq
    <2>. QED
        BY <2>1
<1>2. ASSUME s \in Seq(S), Len(s) <= n PROVE s \in BoundedSeq(S, n)
    BY <1>2 DEF BoundedSeq
<1>. QED
    BY <1>1, <1>2

-----------------------------------------------------------------------------
(* OrderInv is inductive together with IInv.                               *)

LEMMA InitOrder == Init => OrderInv
<1> SUFFICES ASSUME Init PROVE OrderInv
    OBVIOUS
<1>1. Len(manifest) <= MaxRefs
    BY MaxRefsAssumption, BoundedSeqLen DEF Init
<1>. QED
    BY <1>1 DEF Init, OrderInv, MissingReportExact

(* The steps that end the run or start the dedup loop.                     *)
LEMMA StartOrder ==
    ASSUME IInv, OrderInv, CheckCMakeFile \/ ParseOpen
    PROVE  OrderInv'
<1>1. CASE CheckCMakeFile
    BY <1>1 DEF CheckCMakeFile, OrderInv, MissingReportExact, inputs
<1>2. CASE ParseOpen
    <2>1. FirstOccurrenceOrdered(<<>>, manifest)
        BY FOOEmpty
    <2>. QED
        BY <1>2, <2>1 DEF ParseOpen, OrderInv, MissingReportExact, inputs
<1>. QED
    BY <1>1, <1>2

(* A dedup iteration appends a match that occurs in no earlier position.   *)
LEMMA DedupOrder ==
    ASSUME IInv, OrderInv, ParseDedupStep
    PROVE  OrderInv'
<1> DEFINE match == manifest[j]
<1>1. /\ pc = "dedup" /\ j \in 1..Len(manifest)
      /\ seen = {manifest[k] : k \in 1..j-1}
      /\ Range(source_files) = seen
      /\ manifest \in Seq(Paths) /\ source_files \in Seq(Paths)
      /\ match \in Paths
      /\ Len(source_files) <= j - 1
      /\ FirstOccurrenceOrdered(source_files, manifest)
    BY DEF IInv, DedupInv, TypeOK, OrderInv, ParseDedupStep
<1>2. /\ UNCHANGED <<manifest, fs, pc, i, missing_files, exit_code, report, listed>>
      /\ j' = j + 1
    BY DEF ParseDedupStep, inputs
<1>3. Len(source_files') <= j' - 1 /\ FirstOccurrenceOrdered(source_files', manifest)
    <2>1. CASE match \in seen
        BY <1>1, <1>2, <2>1 DEF ParseDedupStep
    <2>2. CASE match \notin seen
        <3>1. source_files' = Append(source_files, match)
            BY <2>2 DEF ParseDedupStep
        <3>2. \A a \in DOMAIN source_files :
                \E k \in DOMAIN manifest :
                   manifest[k] = source_files[a] /\ \A l \in 1..k : manifest[l] # match
            <4> SUFFICES ASSUME NEW a \in DOMAIN source_files
                         PROVE  \E k \in DOMAIN manifest :
                                  manifest[k] = source_files[a]
                                  /\ \A l \in 1..k : manifest[l] # match
                OBVIOUS
            <4>1. source_files[a] \in seen
                BY <1>1 DEF Range
            <4>2. PICK k \in 1..j-1 : manifest[k] = source_files[a]
                BY <1>1, <4>1
            <4>3. \A l \in 1..k : manifest[l] \in seen
                BY <1>1, <4>2
            <4>. QED
                BY <1>1, <2>2, <4>2, <4>3
        <3>3. FirstOccurrenceOrdered(source_files', manifest)
            BY <1>1, <3>1, <3>2, FOOAppend
        <3>. QED
            BY <1>1, <1>2, <3>1, <3>3
    <2>. QED
        BY <2>1, <2>2
<1>. QED
    BY <1>1, <1>2, <1>3 DEF OrderInv, MissingReportExact

(* The end of the dedup loop: source_files is no longer than the manifest. *)
LEMMA ParseReturnOrder ==
    ASSUME IInv, OrderInv, ParseReturn
    PROVE  OrderInv'
<1>1. /\ pc = "dedup" /\ j = Len(manifest) + 1
      /\ Len(source_files) <= j - 1
      /\ FirstOccurrenceOrdered(source_files, manifest)
    BY DEF IInv, DedupInv, TypeOK, OrderInv, ParseReturn
<1>2. FirstOccurrenceOrdered(<<>>, manifest)
    BY FOOEmpty
<1>. QED
    BY <1>1, <1>2 DEF ParseReturn, inputs, OrderInv, MissingReportExact

(* A verify iteration appends source_files[i], which first occurs after    *)
(* every path listed before it.                                            *)
LEMMA VerifyOrder ==
    ASSUME IInv, OrderInv, VerifyStep
    PROVE  OrderInv'
<1> DEFINE f == source_files[i]
<1>1. /\ pc = "verify" /\ i \in 1..Len(source_files)
      /\ Range(missing_files) =
           {source_files[k] : k \in {l \in 1..i-1 : ~IsFile(source_files[l])}}
      /\ manifest \in Seq(Paths) /\ source_files \in Seq(Paths)
      /\ missing_files \in Seq(Paths) /\ f \in Paths
      /\ Len(source_files) <= Len(manifest) /\ Len(missing_files) <= i - 1
      /\ FirstOccurrenceOrdered(source_files, manifest)
      /\ FirstOccurrenceOrdered(missing_files, manifest)
    BY DEF IInv, VerifyInv, TypeOK, OrderInv, VerifyStep
<1>2. /\ UNCHANGED <<manifest, fs, pc, source_files, exit_code, report, listed>>
      /\ i' = i + 1
    BY DEF VerifyStep, inputs
<1>3. Len(missing_files') <= i' - 1 /\ FirstOccurrenceOrdered(missing_files', manifest)
    <2>1. CASE IsFile(f)
        BY <1>1, <1>2, <2>1 DEF VerifyStep
    <2>2. CASE ~IsFile(f)
        <3>1. missing_files' = Append(missing_files, f)
            BY <2>2 DEF VerifyStep
        <3>2. \A a \in DOMAIN missing_files :
                \E k \in DOMAIN manifest :
                   manifest[k] = missing_files[a] /\ \A l \in 1..k : manifest[l] # f
            <4> SUFFICES ASSUME NEW a \in DOMAIN missing_files
                         PROVE  \E k \in DOMAIN manifest :
                                  manifest[k] = missing_files[a]
                                  /\ \A l \in 1..k : manifest[l] # f
                OBVIOUS
            <4>1. missing_files[a] \in Range(missing_files)
                BY <1>1 DEF Range
            <4>2. PICK k \in 1..i-1 : source_files[k] = missing_files[a]
                BY <1>1, <4>1
            <4>3. k \in DOMAIN source_files /\ i \in DOMAIN source_files /\ k < i
                BY <1>1, <4>2
            <4>. QED
                BY <1>1, <4>2, <4>3 DEF FirstOccurrenceOrdered
        <3>3. FirstOccurrenceOrdered(missing_files', manifest)
            BY <1>1, <3>1, <3>2, FOOAppend
        <3>. QED
            BY <1>1, <1>2, <3>1, <3>3
    <2>. QED
        BY <2>1, <2>2
<1>. QED
    BY <1>1, <1>2, <1>3 DEF OrderInv, MissingReportExact

(* The report: the failure list is missing_files, ordered and exact.       *)
LEMMA ReportOrder ==
    ASSUME IInv, OrderInv, Report
    PROVE  OrderInv'
<1>1. /\ Range(missing_files) = MissingRefs
      /\ FirstOccurrenceOrdered(missing_files, manifest)
      /\ Len(manifest) <= MaxRefs
    BY MissingAtReport DEF Report, OrderInv
<1>2. MissingRefs' = MissingRefs /\ UNCHANGED manifest /\ pc' = "done"
    BY DEF Report, inputs, MissingRefs, Referenced, IsFile
<1>3. report' = "failure" => listed' = missing_files
    BY DEF Report
<1>. QED
    BY <1>1, <1>2, <1>3 DEF OrderInv, MissingReportExact

LEMMA NextOrder == IInv /\ OrderInv /\ [Next]_vars => OrderInv'
<1> SUFFICES ASSUME IInv, OrderInv, [Next]_vars PROVE OrderInv'
    OBVIOUS
<1>1. CASE UNCHANGED vars
    BY <1>1 DEF vars, OrderInv, MissingReportExact, MissingRefs, Referenced,
              IsFile
<1>. QED
    BY <1>1, StartOrder, DedupOrder, ParseReturnOrder, VerifyOrder,
       ReportOrder DEF Next

LEMMA AlwaysOrder == Spec => [](IInv /\ OrderInv)
BY InitIInv, InitOrder, NextIInv, NextOrder, PTL DEF Spec

-----------------------------------------------------------------------------
(* P2/P3 for the failure report, MissingReportExact, for every set of      *)
(* paths and manifest length: main() lists every missing referenced path,  *)
(* no present one, in the order of first occurrence in the manifest (the   *)
(* dedup loop keeps first occurrences, verify_files_exist keeps the order  *)
(* of source_files).                                                       *)
THEOREM MissingReportExactHolds == Spec => []MissingReportExact
<1>1. IInv /\ OrderInv => MissingReportExact
    BY DEF OrderInv
<1>. QED
    BY <1>1, AlwaysOrder, PTL


-----------------------------------------------------------------------------
(* sorted() of a list of distinct naturals lists the same elements in      *)
(* increasing order.                                                       *)

(* Distinct positions have distinct ranks.                                 *)
LEMMA RankInjective ==
    ASSUME NEW s \in Seq(Nat), IsInjective(s),
           NEW a \in 1..Len(s), NEW b \in 1..Len(s), SortRank(s, a) = SortRank(s, b)
    PROVE  a = b
<1> SUFFICES ASSUME a # b PROVE FALSE
    OBVIOUS
<1>1. s[a] # s[b] /\ s[a] \in Nat /\ s[b] \in Nat
    BY DEF IsInjective
<1>2. CASE s[a] < s[b]
    BY <1>2, RankMonotone, RankBounds
<1>3. CASE s[b] < s[a]
    BY <1>3, RankMonotone, RankBounds
<1>. QED
    BY <1>1, <1>2, <1>3

LEMMA SortedFacts ==
    ASSUME NEW S, S \subseteq Nat, NEW s \in Seq(S), IsInjective(s)
    PROVE  /\ Sorted(s) \in Seq(S)
           /\ Len(Sorted(s)) = Len(s)
           /\ Range(Sorted(s)) = Range(s)
           /\ \A a, b \in DOMAIN Sorted(s) : a < b => Sorted(s)[a] < Sorted(s)[b]
<1> DEFINE n == Len(s)
           c(x) == CHOOSE k \in 1..n : SortRank(s, k) = x
<1>1. s \in Seq(Nat)
    BY SeqMonotonic
<1>2. \A x \in 1..n : c(x) \in 1..n /\ SortRank(s, c(x)) = x
    <2>1. \A x \in 1..n : \E k \in 1..n : SortRank(s, k) = x
        BY <1>1, RankOnto
    <2>. QED
        BY <2>1 DEF c
<1>3. Sorted(s) = [x \in 1..n |-> s[c(x)]]
    BY DEF Sorted, c, n
<1>4. Sorted(s) \in Seq(S) /\ Len(Sorted(s)) = Len(s)
    BY SortedType, <1>3
<1>5. Range(Sorted(s)) = Range(s)
    <2>1. Range(Sorted(s)) \subseteq Range(s)
        BY <1>2, <1>3 DEF Range
    <2>2. ASSUME NEW k \in 1..n PROVE s[k] \in Range(Sorted(s))
        <3>1. SortRank(s, k) \in 1..n
            BY <1>1, RankBounds
        <3>2. c(SortRank(s, k)) = k
            BY <1>1, <1>2, <3>1, RankInjective
        <3>. QED
            BY <1>3, <3>1, <3>2 DEF Range
    <2>3. Range(s) \subseteq Range(Sorted(s))
        BY <2>2 DEF Range
    <2>. QED
        BY <2>1, <2>3
<1>6. ASSUME NEW a \in 1..n, NEW b \in 1..n, a < b PROVE s[c(a)] < s[c(b)]
    <2>1. c(a) # c(b)
        BY <1>2, <1>6
    <2>2. c(a) \in 1..Len(s) /\ c(b) \in 1..Len(s)
        BY <1>2 DEF n
    <2>3. s[c(a)] # s[c(b)] /\ s[c(a)] \in Nat /\ s[c(b)] \in Nat
        BY <1>1, <2>1, <2>2 DEF IsInjective
    <2>4. ASSUME s[c(b)] < s[c(a)] PROVE FALSE
        <3>1. SortRank(s, c(b)) < SortRank(s, c(a))
            BY <1>1, <2>2, <2>4, RankMonotone
        <3>. QED
            BY <1>2, <1>6, <3>1
    <2>. QED
        BY <2>3, <2>4
<1>7. DOMAIN Sorted(s) = 1..n
    BY <1>3
<1>8. \A a, b \in DOMAIN Sorted(s) : a < b => Sorted(s)[a] < Sorted(s)[b]
    <2> SUFFICES ASSUME NEW a \in DOMAIN Sorted(s), NEW b \in DOMAIN Sorted(s), a < b
                 PROVE  Sorted(s)[a] < Sorted(s)[b]
        OBVIOUS
    <2>1. a \in 1..n /\ b \in 1..n
        BY <1>7
    <2>2. Sorted(s)[a] = s[c(a)] /\ Sorted(s)[b] = s[c(b)]
        BY <1>3, <2>1
    <2>. QED
        BY <1>6, <2>1, <2>2
<1>. QED
    BY <1>4, <1>5, <1>8


-----------------------------------------------------------------------------
(* The refinement: every step of main() is a step of the abstract          *)
(* validator or leaves its state alone.                                    *)

LEMMA InitRefines == Init => AV!Init
BY DEF Init, AV!Init, ManifestKinds, FileKinds, BoundedSeq, AV!BoundedSeq

(* The configuration error and the traceback are abstract steps; the other *)
(* outcomes of the two checks are stuttering steps.                        *)
LEMMA StartRefines ==
    ASSUME CheckCMakeFile \/ ParseOpen
    PROVE  [AV!Next]_AV!vars
<1>1. CASE CheckCMakeFile /\ manifestKind = "absent"
    BY <1>1 DEF CheckCMakeFile, AV!Next, AV!Validate, inputs
<1>2. CASE CheckCMakeFile /\ manifestKind # "absent"
    BY <1>2 DEF CheckCMakeFile, AV!vars, inputs
<1>3. CASE ParseOpen /\ manifestKind = "unreadable"
    BY <1>3 DEF ParseOpen, AV!Next, AV!Validate, inputs
<1>4. CASE ParseOpen /\ manifestKind # "unreadable"
    BY <1>4 DEF ParseOpen, AV!vars, inputs
<1>. QED
    BY <1>1, <1>2, <1>3, <1>4

(* The loop iterations change nothing the abstract validator sees.         *)
LEMMA LoopRefines ==
    ASSUME ParseDedupStep \/ ParseReturn \/ VerifyStep
    PROVE  UNCHANGED AV!vars
BY DEF ParseDedupStep, ParseReturn, VerifyStep, AV!vars, inputs

(* Report is the abstract step: its outcome is the one the inputs call     *)
(* for.                                                                    *)
LEMMA ReportRefines ==
    ASSUME IInv, OrderInv, Report
    PROVE  AV!Next
<1>1. /\ pc = "verify" /\ manifestKind = "text"
      /\ Range(missing_files) = MissingRefs
      /\ i = Len(source_files) + 1
    BY MissingAtReport DEF Report
<1>2. /\ source_files \in Seq(Paths) /\ missing_files \in Seq(Paths)
      /\ IsInjective(source_files) /\ Range(source_files) = Referenced
      /\ Len(manifest) <= MaxRefs /\ Len(source_files) <= Len(manifest)
      /\ Len(missing_files) <= i - 1
      /\ FirstOccurrenceOrdered(missing_files, manifest)
    BY <1>1 DEF IInv, TypeOK, VerifyInv, OrderInv
<1>3. /\ AV!MissingRefs = MissingRefs /\ AV!Referenced = Referenced
    BY DEF AV!Range, Range, AV!MissingRefs, MissingRefs, AV!Referenced,
           Referenced, AV!IsFile, IsFile
<1>4. UNCHANGED <<manifestKind, manifest, fs>> /\ pc' = "done"
    BY DEF Report, inputs
<1>5. CASE Len(missing_files) = 0
    <2>1. MissingRefs = {}
        BY <1>1, <1>2, <1>5, RangeEmpty
    <2>2. /\ Sorted(source_files) \in Seq(Paths)
          /\ Len(Sorted(source_files)) = Len(source_files)
          /\ Range(Sorted(source_files)) = Referenced
          /\ \A a, b \in DOMAIN Sorted(source_files) :
                a < b => Sorted(source_files)[a] < Sorted(source_files)[b]
        BY <1>2, PathsAssumption, SortedFacts
    <2>3. Sorted(source_files) \in BoundedSeq(Referenced, MaxRefs)
        <3>1. Sorted(source_files) \in Seq(Referenced)
            BY <2>2, SeqOfRange
        <3>. QED
            BY <1>2, <2>2, <3>1, MaxRefsAssumption, BoundedSeqLen
    <2>4. Sorted(source_files) \in AV!IncreasingLists(AV!Referenced)
        <3>1. Sorted(source_files) \in AV!BoundedSeq(AV!Referenced, MaxRefs)
            BY <2>3 DEF AV!BoundedSeq, BoundedSeq, AV!Referenced, Referenced,
                      AV!Range, Range
        <3>2. AV!Range(Sorted(source_files)) = AV!Referenced
            BY <2>2 DEF AV!Range, Range, AV!Referenced, Referenced
        <3>. QED
            BY <2>2, <3>1, <3>2 DEF AV!IncreasingLists
    <2>5. exit_code' = 0 /\ report' = "success" /\ listed' = Sorted(source_files)
        BY <1>5 DEF Report
    <2>. QED
        BY <1>1, <1>3, <1>4, <2>1, <2>4, <2>5 DEF AV!Next, AV!Validate
<1>6. CASE Len(missing_files) # 0
    <2>1. MissingRefs # {}
        BY <1>1, <1>2, <1>6, RangeEmpty
    <2>2. missing_files \in BoundedSeq(MissingRefs, MaxRefs)
        <3>1. missing_files \in Seq(MissingRefs)
            BY <1>1, <1>2, SeqOfRange
        <3>. QED
            BY <1>1, <1>2, <3>1, MaxRefsAssumption, BoundedSeqLen
    <2>3. missing_files \in AV!FirstOccurrenceLists(AV!MissingRefs, manifest)
        <3>1. missing_files \in AV!BoundedSeq(AV!MissingRefs, MaxRefs)
            BY <1>3, <2>2 DEF AV!BoundedSeq, BoundedSeq
        <3>2. AV!Range(missing_files) = AV!MissingRefs
            BY <1>1, <1>3 DEF AV!Range, Range
        <3>3. AV!FirstOccurrenceOrdered(missing_files, manifest)
            BY <1>2 DEF AV!FirstOccurrenceOrdered, FirstOccurrenceOrdered
        <3>. QED
            BY <3>1, <3>2, <3>3 DEF AV!FirstOccurrenceLists
    <2>4. exit_code' = 1 /\ report' = "failure" /\ listed' = missing_files
        BY <1>6 DEF Report
    <2>. QED
        BY <1>1, <1>3, <1>4, <2>1, <2>3, <2>4 DEF AV!Next, AV!Validate
<1>. QED
    BY <1>5, <1>6

LEMMA NextRefines == IInv /\ OrderInv /\ [Next]_vars => [AV!Next]_AV!vars
<1> SUFFICES ASSUME IInv, OrderInv, [Next]_vars PROVE [AV!Next]_AV!vars
    OBVIOUS
<1>1. CASE UNCHANGED vars
    BY <1>1 DEF vars, AV!vars
<1>. QED
    BY <1>1, StartRefines, LoopRefines, ReportRefines DEF Next

(* main() implements the abstract validator (its safety part; that main()  *)
(* returns, the fairness part, is model-checked): from every input, the    *)
(* script's steps produce exactly the one outcome the abstract validation  *)
(* step allows, the sorted success list or the missing list in             *)
(* first-occurrence order, and change nothing the abstraction sees before  *)
(* that.                                                                   *)
THEOREM ValidatorImplementsAbstract == Spec => AV!SafeSpec
BY InitRefines, NextRefines, AlwaysOrder, PTL DEF Spec, AV!SafeSpec

====

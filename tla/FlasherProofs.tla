--------------------------- MODULE FlasherProofs ---------------------------
(***************************************************************************)
(* Proofs about the flash dispatcher (module Flasher): type correctness    *)
(* the exit-status contract FlashOutcomeReported, from IInv, and that the  *)
(* dispatcher implements its contract AbstractFlasher.                     *)
(***************************************************************************)
EXTENDS Flasher, TLAPS

LEMMA InitIInv == Init => IInv
BY DEF Init, IInv, TypeOK, Platforms, Methods, PCs, Devices, NotYetRunningInv,
       ChecksPassedInv, FlashOutcomeReported

LEMMA NextIInv == IInv /\ [Next]_vars => IInv'
<1> SUFFICES ASSUME IInv, [Next]_vars PROVE IInv'
    OBVIOUS
<1>. USE DEF IInv, TypeOK, PCs, Devices, NotYetRunningInv, ChecksPassedInv,
             FlashOutcomeReported
<1>1. CASE Dispatch
    BY <1>1 DEF Dispatch, Fail
<1>2. CASE FlashStm32
    BY <1>2 DEF FlashStm32, Fail
<1>3. CASE NrfErase
    BY <1>3 DEF NrfErase, Fail
<1>4. CASE NrfProgram
    BY <1>4 DEF NrfProgram, Fail
<1>5. CASE NrfReset
    BY <1>5 DEF NrfReset, Fail
<1>7. CASE ToolHangs
    BY <1>7 DEF ToolHangs, ToolCalls
<1>6. CASE UNCHANGED vars
    BY <1>6 DEF vars
<1>. QED
    BY <1>1, <1>2, <1>3, <1>4, <1>5, <1>6, <1>7 DEF Next

(* Type correctness of the dispatcher's state.                             *)
THEOREM FlasherTypeCorrect == Spec => []TypeOK
<1>1. IInv => TypeOK
    BY DEF IInv
<1>. QED
    BY <1>1, InitIInv, NextIInv, PTL DEF Spec

(* FlashOutcomeReported for every run: the script ends with status 0       *)
(* exactly when the device runs the new image, whichever of the erase,     *)
(* program and reset calls failed.                                         *)
THEOREM FlashOutcomeReportedHolds == Spec => []FlashOutcomeReported
<1>1. IInv => FlashOutcomeReported
    BY DEF IInv
<1>. QED
    BY <1>1, InitIInv, NextIInv, PTL DEF Spec

-----------------------------------------------------------------------------
(* The refinement: AF!Spec under finished <- (pc = "done").                *)

LEMMA InitRefines == Init => AF!Init
BY DEF Init, AF!Init

(* A step of the dispatcher, in a state of IInv, is a step of the contract *)
(* or leaves its variables alone: the dispatch and the tool calls that     *)
(* succeed part-way are Flash or a stutter, every ending is Finish.        *)
LEMMA StepRefines == IInv /\ [Next]_vars => [AF!Next]_AF!avars
<1> SUFFICES ASSUME IInv, [Next]_vars PROVE [AF!Next]_AF!avars
    OBVIOUS
<1>. USE DEF IInv, TypeOK, PCs, NotYetRunningInv, ChecksPassedInv, AF!Next,
             AF!avars
<1>1. CASE Dispatch
    <2>1. CASE fwExists /\ onPath
        BY <1>1, <2>1 DEF Dispatch
    <2>2. CASE ~(fwExists /\ onPath)
        BY <1>1, <2>2 DEF Dispatch, Fail, AF!Finish, AF!Devices, Devices
    <2>. QED
        BY <2>1, <2>2
<1>2. CASE FlashStm32
    BY <1>2 DEF FlashStm32, Fail, AF!Finish, AF!Devices, Devices
<1>3. CASE NrfErase
    BY <1>3 DEF NrfErase, Fail, AF!Flash, AF!Finish, AF!Devices, Devices
<1>4. CASE NrfProgram
    BY <1>4 DEF NrfProgram, Fail, AF!Flash, AF!Finish, AF!Devices, Devices
<1>5. CASE NrfReset
    BY <1>5 DEF NrfReset, Fail, AF!Finish, AF!Devices, Devices
<1>6. CASE ToolHangs
    BY <1>6 DEF ToolHangs, ToolCalls, AF!Flash, AF!Devices, Devices
<1>7. CASE UNCHANGED vars
    BY <1>7 DEF vars
<1>. QED
    BY <1>1, <1>2, <1>3, <1>4, <1>5, <1>6, <1>7 DEF Next

(* The dispatcher implements its contract, ImplementsAbstract: it runs no  *)
(* tool before finding the firmware and the tool, starts the new image     *)
(* only as it ends, and reports with its status whether the image runs.    *)
THEOREM FlasherImplementsAbstract == Spec => ImplementsAbstract
<1>1. Spec => []IInv
    BY InitIInv, NextIInv, PTL DEF Spec
<1>. QED
    BY <1>1, InitRefines, StepRefines, PTL DEF Spec, ImplementsAbstract, AF!Spec

====

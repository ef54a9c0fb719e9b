------------------------------ MODULE Flasher ------------------------------
(***************************************************************************)
(* The flash dispatcher, scripts/flash.py.                                 *)
(*                                                                         *)
(* One run of main() after argparse accepted the arguments (argparse's     *)
(* choices make the "Unknown STM32 flash method" branch unreachable): the  *)
(* firmware must exist, the vendor tool must be on PATH (check_tool), and  *)
(* then one STM32 tool call (st-flash write, or openocd program/verify/    *)
(* reset) or three nrfjprog calls (--eraseall, --program --verify,         *)
(* --reset), each with check=True.  error() prints and calls sys.exit(1).  *)
(*                                                                         *)
(* Data abstraction.  The device is the state of its flash and core:       *)
(* running another image, erased, half written, holding the image being    *)
(* flashed but halted, or running it; a run starts from any state an       *)
(* earlier session can leave that does not already hold the image.  Each  *)
(* tool call returns 0, returns non-zero (CalledProcessError, which may    *)
(* leave the flash part written), or cannot be started because the tool   *)
(* disappeared from PATH after check_tool looked (FileNotFoundError,       *)
(* which nothing catches: traceback and status 1).                         *)
(***************************************************************************)

Platforms == {"stm32", "nrf52"}
Methods == {"st-flash", "openocd"}

Devices == {"old", "erased", "partial", "new_halted", "new_running"}

PCs == {"start", "stm32", "nrf_erase", "nrf_program", "nrf_reset", "hung",
        "done"}

(* The points where the script waits in subprocess.run for a vendor tool.  *)
ToolCalls == {"stm32", "nrf_erase", "nrf_program", "nrf_reset"}

VARIABLES
    platform,   \* input: args.platform
    method,     \* input: args.method (ignored for nrf52)
    fwExists,   \* input: os.path.exists(args.firmware)
    onPath,     \* input: shutil.which(tool) is not None when checked
    pc,         \* where the script is
    device,     \* the target's flash and core
    exit_code   \* the process status (meaningful when pc = "done")

vars == <<platform, method, fwExists, onPath, pc, device, exit_code>>

TypeOK ==
    /\ platform \in Platforms
    /\ method \in Methods
    /\ fwExists \in BOOLEAN
    /\ onPath \in BOOLEAN
    /\ pc \in PCs
    /\ device \in Devices
    /\ exit_code \in {0, 1}

(* error(msg), or an uncaught exception: the script stops with status 1.   *)
Fail == pc' = "done" /\ exit_code' = 1

-----------------------------------------------------------------------------

Init ==
    /\ platform \in Platforms
    /\ method \in Methods
    /\ fwExists \in BOOLEAN
    /\ onPath \in BOOLEAN
    /\ pc = "start"
    /\ device \in {"old", "erased", "partial"}
    /\ exit_code = 0

(* Mutant: main() without its firmware check, so a tool is run on a      *)
(* firmware path that does not exist.                                      *)
Dispatch_NoFirmwareCheck ==
    /\ pc = "start"
    /\ IF onPath
         THEN /\ pc' = IF platform = "stm32" THEN "stm32" ELSE "nrf_erase"
              /\ UNCHANGED exit_code
         ELSE Fail
    /\ UNCHANGED <<platform, method, fwExists, onPath, device>>

(* main(): error() when the firmware file does not exist; then            *)
(* flash_stm32 or flash_nrf52, each of which first calls error() when      *)
(* check_tool finds its tool missing.                                      *)
Dispatch ==
    /\ pc = "start"
    /\ IF fwExists /\ onPath
         THEN /\ pc' = IF platform = "stm32" THEN "stm32" ELSE "nrf_erase"
              /\ UNCHANGED exit_code
         ELSE Fail
    /\ UNCHANGED <<platform, method, fwExists, onPath, device>>

(* flash_stm32: subprocess.run(cmd, check=True).  Success logs "Flashing   *)
(* complete!" and main() returns (status 0); a non-zero status may leave   *)
(* some sectors erased or written.                                         *)
FlashStm32 ==
    /\ pc = "stm32"
    /\ \/ /\ device' = "new_running"
          /\ pc' = "done"
          /\ exit_code' = 0
       \/ /\ device' \in {device, "partial"}
          /\ Fail
    /\ UNCHANGED <<platform, method, fwExists, onPath>>

(* flash_nrf52, Erase: nrfjprog --eraseall.  In this and each other tool  *)
(* step, a non-zero status or a vanished tool ends the script with status  *)
(* 1, the flash left as it was or part written.                            *)
NrfErase ==
    /\ pc = "nrf_erase"
    /\ \/ /\ device' = "erased"
          /\ pc' = "nrf_program"
          /\ UNCHANGED exit_code
       \/ /\ device' \in {device, "partial"}
          /\ Fail
    /\ UNCHANGED <<platform, method, fwExists, onPath>>

(* flash_nrf52, Program: nrfjprog --program firmware --verify.             *)
NrfProgram ==
    /\ pc = "nrf_program"
    /\ \/ /\ device' = "new_halted"
          /\ pc' = "nrf_reset"
          /\ UNCHANGED exit_code
       \/ /\ device' \in {device, "partial"}
          /\ Fail
    /\ UNCHANGED <<platform, method, fwExists, onPath>>

(* Mutant: the status of the reset call ignored (check=False).            *)
NrfReset_Unchecked ==
    /\ pc = "nrf_reset"
    /\ device' \in {"new_running", "new_halted"}
    /\ pc' = "done"
    /\ exit_code' = 0
    /\ UNCHANGED <<platform, method, fwExists, onPath>>

(* flash_nrf52, Reset: nrfjprog --reset; then "Flashing complete!" and     *)
(* main() returns.                                                         *)
NrfReset ==
    /\ pc = "nrf_reset"
    /\ \/ /\ device' = "new_running"
          /\ pc' = "done"
          /\ exit_code' = 0
       \/ /\ Fail
          /\ UNCHANGED device
    /\ UNCHANGED <<platform, method, fwExists, onPath>>

(* subprocess.run is called without a timeout: a vendor tool that never   *)
(* exits (a probe that stops answering, a USB transfer that stalls) blocks *)
(* the script in that call for good, the flash as it was or part written.  *)
ToolHangs ==
    /\ pc \in ToolCalls
    /\ pc' = "hung"
    /\ device' \in {device, "partial"}
    /\ UNCHANGED <<platform, method, fwExists, onPath, exit_code>>

Next ==
    \/ Dispatch
    \/ FlashStm32
    \/ NrfErase
    \/ NrfProgram
    \/ NrfReset
    \/ ToolHangs

Spec == Init /\ [][Next]_vars

(* No fairness: the script promises nothing about ending (a tool call has *)
(* no timeout, and ToolHangs is a call that never returns), so only safety *)
(* is claimed of it.                                                       *)

-----------------------------------------------------------------------------
(* Properties.                                                             *)

(* The exit-status contract of the dispatcher: when the script has ended,  *)
(* its status is 0 exactly when the device runs the new image; every       *)
(* failure of a tool call part-way through the erase/program/reset         *)
(* sequence is reported with status 1.                                     *)
FlashOutcomeReported ==
    pc = "done" => (exit_code = 0 <=> device = "new_running")

(* The dispatcher implements its contract (module AbstractFlasher): no     *)
(* tool touches the device before the firmware and the tool were found,    *)
(* the image runs only at the end, and the status says whether it runs.   *)
AF == INSTANCE AbstractFlasher WITH finished <- (pc = "done")

ImplementsAbstract == AF!Spec

-----------------------------------------------------------------------------
(* The inductive invariant behind FlashOutcomeReported: before the script  *)
(* ends, the device does not yet run the image.                            *)
NotYetRunningInv == pc # "done" => device # "new_running"

(* Behind ImplementsAbstract: past the dispatch and before the end, the    *)
(* firmware and the tool were both found.                                  *)
ChecksPassedInv == pc \notin {"start", "done"} => fwExists /\ onPath

IInv == TypeOK /\ NotYetRunningInv /\ ChecksPassedInv /\ FlashOutcomeReported

====

--------------------------- MODULE AbstractFlasher ---------------------------
(***************************************************************************)
(* What the flash dispatcher promises (spec section 6): the vendor tool is *)
(* invoked only when the firmware file exists and the tool is installed;  *)
(* while it runs it may erase and write the flash in any way; the          *)
(* dispatcher ends with status 0 exactly when the device then runs the     *)
(* new image, and with status 1 on a missing firmware or tool (the device  *)
(* untouched) or a failing tool.  The platform and the method only select *)
(* which tool and arguments, so they are not part of the promise.  Nothing *)
(* is promised about ending: the tool is an opaque collaborator.           *)
(***************************************************************************)

Devices == {"old", "erased", "partial", "new_halted", "new_running"}

VARIABLES
    fwExists,   \* the firmware file exists
    onPath,     \* the vendor tool is installed
    finished,   \* the dispatcher has ended
    device,     \* the target's flash and core
    exit_code   \* the status it ended with

avars == <<fwExists, onPath, finished, device, exit_code>>

Init ==
    /\ fwExists \in BOOLEAN
    /\ onPath \in BOOLEAN
    /\ finished = FALSE
    /\ device \in {"old", "erased", "partial"}
    /\ exit_code = 0

(* The tool, once both checks passed, changes the flash; the image runs    *)
(* only when the dispatcher has ended.                                     *)
Flash ==
    /\ ~finished
    /\ fwExists /\ onPath
    /\ device' \in Devices \ {"new_running"}
    /\ UNCHANGED <<fwExists, onPath, finished, exit_code>>

(* The dispatcher ends: status 0 exactly when the new image runs; a failed *)
(* check leaves the device as it was.                                      *)
Finish ==
    /\ ~finished
    /\ finished' = TRUE
    /\ device' \in Devices
    /\ exit_code' \in {0, 1}
    /\ exit_code' = 0 <=> device' = "new_running"
    /\ ~(fwExists /\ onPath) => device' = device
    /\ UNCHANGED <<fwExists, onPath>>

Next == Flash \/ Finish

Spec == Init /\ [][Next]_avars

====

---------------------------- MODULE MC_Flasher ----------------------------
(* The dispatcher has no constants: every input is enumerated by Init.     *)
EXTENDS Flasher

====

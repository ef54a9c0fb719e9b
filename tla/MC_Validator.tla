---------------------------- MODULE MC_Validator ----------------------------
(* The validator on three paths and manifests of up to four matches: every *)
(* mix of duplicates, of present, directory and absent paths, and of       *)
(* manifests whose order differs from the sorted order.                   *)
EXTENDS Validator

MCPaths == {1, 2, 3}
MCMaxRefs == 4
=============================================================================

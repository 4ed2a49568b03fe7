---------------------------- MODULE MCScanEngine ----------------------------
(***************************************************************************)
(* Instances of ScanEngine: a scheduled scan of two checks with a          *)
(* maintenance window, and a scan of one check that an analyst started.    *)
(***************************************************************************)
EXTENDS ScanEngine

CONSTANTS policyScan, manualScan, c1, c2

MCChecks == [s \in Scan |-> IF s = policyScan THEN {c1, c2} ELSE {c1}]
=============================================================================

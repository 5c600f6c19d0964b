---------------------------- MODULE MCEventCache ----------------------------
(* Instances of EventCache for TLC.                                        *)
EXTENDS EventCache

CONSTANTS A1, A2, C1, C2
=============================================================================

--------------------------- MODULE MCZckTransfer ---------------------------
(***************************************************************************)
(* Values of ZckTransfer's constants for TLC.                              *)
(***************************************************************************)
EXTENDS ZckTransfer

CONSTANTS m1, m2

\* One mirror serves one range at a time, the other knows no ranges.
OneAndNone == [m \in Mirrors |-> IF m = m1 THEN 1 ELSE 0]
=============================================================================

---------------------------- MODULE MCOciMirror ----------------------------
(***************************************************************************)
(* Values of OciMirror's constants for TLC: the first two targets are tags *)
(* of one repository, the third is alone in its own.                       *)
(***************************************************************************)
EXTENDS OciMirror

TwoAndOne == [t \in Targets |-> IF t = 3 THEN "numpy" ELSE "xtensor"]
TwoTags   == [t \in Targets |-> IF t = 2 THEN "2.0" ELSE "1.0"]
=============================================================================

---------------------------- MODULE MCOciUpload ----------------------------
(***************************************************************************)
(* Values of OciUpload's constants for TLC: the last upload replaces the   *)
(* first one's tag.                                                        *)
(***************************************************************************)
EXTENDS OciUpload

FirstTagAgain == [u \in Uploads |-> IF u = 2 THEN "1.0" ELSE "latest"]
=============================================================================

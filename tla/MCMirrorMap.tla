----------------------------- MODULE MCMirrorMap -----------------------------
(***************************************************************************)
(* Values of MirrorMap's constants for TLC.                                *)
(***************************************************************************)
EXTENDS MirrorMap

CONSTANTS server, fileHost, http, https

\* One server reachable in two ways, and the files of this machine.
AllBases == {http, https, FileBase}
HostOfAll == [b \in AllBases |-> IF b = FileBase THEN fileHost ELSE server]
=============================================================================

---------------------------- MODULE MCDownloader ----------------------------
(***************************************************************************)
(* Values of Downloader's constants for TLC.                               *)
(***************************************************************************)
EXTENDS DownloaderRefinement

CONSTANTS m1, m2

BothMirrors   == [t \in Targets |-> <<m1, m2>>]
OneMirror     == [t \in Targets |-> <<m1>>]
\* The first target may use only the second mirror.
SharedMirrors == [t \in Targets |-> IF t = 1 THEN <<m2>> ELSE <<m1, m2>>]

Message(curl, code, interrupted, body) ==
  [curl |-> curl, code |-> code, interrupted |-> interrupted, body |-> body]

Complete    == Message("OK", 200, FALSE, "good")
Corrupt     == Message("OK", 200, FALSE, "bad")
NotFound    == Message("OK", 404, FALSE, "bad")
TimedOut    == Message("OPERATION_TIMEDOUT", 0, FALSE, "bad")
NoMemory    == Message("OUT_OF_MEMORY", 0, FALSE, "bad")

AllMessages == {Complete, Corrupt, NotFound, TimedOut, NoMemory}
FewMessages == {Complete, NotFound, TimedOut}
Answers     == {Complete, NotFound}

NoPreparation == [m \in Mirrors |-> [t \in Targets |-> 0]]
\* m1 is an OCI registry: a token and a manifest before the first blob.
FirstMirrorPrepared ==
  [m \in Mirrors |-> [t \in Targets |-> IF m = m1 THEN 2 ELSE 0]]
=============================================================================

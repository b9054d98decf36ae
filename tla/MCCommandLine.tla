---------------------------- MODULE MCCommandLine ----------------------------
(***************************************************************************)
(* Values of CommandLine's constants for TLC.                              *)
(***************************************************************************)
EXTENDS CommandLine

CONSTANTS a, b, c

\* Three names, one of them repeated, apart or adjacent, or none.
ThreeNames == {<<a, b, c>>, <<a, a, b, c>>, <<b, a, c, b>>}
\* a and b are for one place, as a.txt:pkg:1.0 and b.txt:pkg:1.0 are.
TwoPlaces == [f \in {a, b, c} |-> IF f = c THEN "other" ELSE "shared"]
=============================================================================

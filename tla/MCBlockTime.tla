---------------------------- MODULE MCBlockTime ----------------------------
(***************************************************************************)
(* Small instances of BlockTime for TLC.                                   *)
(***************************************************************************)
EXTENDS BlockTime

\* Slots of a whole number of seconds, of a half, and of parts of a second.
MCDurations == {1000, 1200, 2500, 3000}
\* The duration of the test of the package.
FiveSeconds == {5000}
=============================================================================

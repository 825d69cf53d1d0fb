------------------------------ MODULE ApStartMC ------------------------------
(* Values for the constants of ApStart in its TLC runs.                    *)
EXTENDS ApStart, TLC

CONSTANTS c1, c2      \* the callers, as model values
=============================================================================

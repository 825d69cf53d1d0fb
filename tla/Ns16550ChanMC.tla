---------------------------- MODULE Ns16550ChanMC ----------------------------
(* Values for the constants of Ns16550Chan in its TLC runs.                *)
EXTENDS Ns16550Chan, TLC

CONSTANTS t1, t2      \* the tasks, as model values

TaskSymmetry == Permutations(Tasks)

AllBits == IerBits
=============================================================================

----------------------------- MODULE MCLoginGates -----------------------------
EXTENDS LoginGates, TLC

GateSymmetry == Permutations(Gates)
================================================================================

---------------------------- MODULE MCEventQueue ----------------------------
(* The event queue on small instances: its readers are interchangeable.    *)
EXTENDS EventQueue, TLC

Symmetry == Permutations(Readers)
=============================================================================

---------------------------- MODULE MCFileMonitor ----------------------------
(* Instances of FileMonitor for TLC. *)
EXTENDS FileMonitor, TLC

\* Addresses are only compared for equality.
Symmetry == Permutations(Irps) \cup Permutations(Objects) \cup Permutations(Keys)
==============================================================================

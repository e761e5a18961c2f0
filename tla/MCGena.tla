-------------------------------- MODULE MCGena --------------------------------
(* Small instances of Gena for TLC.                                            *)
EXTENDS Gena

\* Every container id is one byte long.
UnitLen == [c \in Containers |-> 1]

\* Interchangeable values; used in runs without liveness properties only.
Symmetry == Permutations(Sids) \cup Permutations(Containers) \cup Permutations(Workers)
=============================================================================

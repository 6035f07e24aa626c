-------------------------- MODULE MCTrafficWriter --------------------------
(* Instances of TrafficWriter: the submitters are interchangeable. *)
EXTENDS TrafficWriter, TLC

MCSymmetry == Permutations(Submitters)
=============================================================================

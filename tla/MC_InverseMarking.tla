------------------------- MODULE MC_InverseMarking -------------------------
(* Instances of InverseMarking for TLC: all four kinds, two locations.     *)
EXTENDS InverseMarking

MCKinds == {"None", "Inferred", "Explicit", "LegacyExplicit"}
MCLocs == {"noloc", "l1"}
=============================================================================

------------------------ MODULE MCSoftwareContainer ------------------------
(***************************************************************************)
(* The gateways and elements are given in the configurations.  Elements    *)
(* are model values and interchangeable.                                   *)
(***************************************************************************)
EXTENDS SoftwareContainer, TLC

ElementSymmetry == Permutations(Elements)
=============================================================================

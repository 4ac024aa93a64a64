---------------------------- MODULE MCOccupancy ----------------------------
(***************************************************************************)
(* Small instances of the flat for TLC.  Ids are interchangeable.          *)
(***************************************************************************)
EXTENDS OccupancyProperties, TLC

Symmetry ==
    Permutations(Workers) \cup Permutations(Users)
        \cup Permutations(Stays) \cup Permutations(Claims)
=============================================================================

---------------------------- MODULE MCFiltersCache ----------------------------
(***************************************************************************)
(* Small instances of FiltersCache for TLC.                                *)
(***************************************************************************)
EXTENDS FiltersCache

CONSTANTS p1, p2, r1, r2
=============================================================================

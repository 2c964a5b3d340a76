--------------------------- MODULE MCVariantStore ---------------------------
(***************************************************************************)
(* Small instances of VariantStore.  The candidate sets overlap: they      *)
(* share v2, so that a promotion keeps or revives rows an earlier one      *)
(* wrote, and no candidate set is the union of the two.                    *)
(***************************************************************************)
EXTENDS VariantStore

CONSTANTS v1, v2, v3, r1

MCVariants == {v1, v2, v3}
MCCandidateSets == {{v1, v2}, {v2, v3}}

=============================================================================

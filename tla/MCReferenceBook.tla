--------------------------- MODULE MCReferenceBook ---------------------------
(* ReferenceBook for TLC.  The safety runs use symmetry: no definition     *)
(* compares ids or traders other than for equality.                        *)
EXTENDS ReferenceBook

Symmetry == Permutations(OrderIds) \cup Permutations(TraderIds)

=============================================================================

--------------------------- MODULE MCDynamicWatch ---------------------------
(* Model checking of DynamicWatch: small instances. *)
EXTENDS DynamicWatch, TLC

\* UIDs are interchangeable.
AddonSymmetry == Permutations(Addons)

=============================================================================

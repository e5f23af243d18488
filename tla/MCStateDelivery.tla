--------------------------- MODULE MCStateDelivery ---------------------------
(* Small instances of StateDelivery. *)
EXTENDS StateDelivery, TLC

CONSTANTS queue, context

PartSymmetry == Permutations(Parts)
=============================================================================

--------------------------- MODULE MCRootExpansion ---------------------------
(* A card three steps larger than the image, at most. *)
EXTENDS RootExpansion
=============================================================================

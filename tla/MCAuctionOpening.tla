--------------------------- MODULE MCAuctionOpening ---------------------------
(* Workers, and open requests, that differ only in their names. *)
EXTENDS AuctionOpening, TLC

MCSymmetry == Permutations(Workers) \union Permutations(Opens)
=============================================================================

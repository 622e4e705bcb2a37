----------------------------- MODULE MCRequests -----------------------------
(***************************************************************************)
(* Two requests compete for the same item, stored at two positions; a      *)
(* third position holds an approved substitute.                            *)
(***************************************************************************)
EXTENDS RequestsRefinement, StockListing, TLC

CONSTANTS bolt, screw, shelf, bin, rack, r1, r2, l1, l2

MCItems == {bolt, screw}
MCPositions == {shelf, bin, rack}
MCItemOf == shelf :> bolt @@ bin :> bolt @@ rack :> screw
MCSpectrumItems == {bolt, screw}
MCOpeningStock == shelf :> 1 @@ bin :> 1 @@ rack :> 1
MCPickRank == shelf :> 1 @@ bin :> 2 @@ rack :> 3
MCRequestIds == {r1, r2}
MCLineIds == {l1, l2}
MCRequestOf == l1 :> r1 @@ l2 :> r2
MCLineItem == l1 :> bolt @@ l2 :> bolt
MCAlternates == {<<bolt, screw>>}

Symmetric == Permutations(Workers)
=============================================================================

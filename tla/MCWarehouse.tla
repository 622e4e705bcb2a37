---------------------------- MODULE MCWarehouse ----------------------------
(***************************************************************************)
(* One request for a local item that has a substitute and for a            *)
(* Spectrum-managed item at two positions, with the counter staff          *)
(* receiving, counting, moving and withdrawing meanwhile.                  *)
(***************************************************************************)
EXTENDS Warehouse, StockListing, TLC

CONSTANTS glove, mitt, pipe, shelf, bin, rack, yard, r1, l1, l2

MCItems == {glove, mitt, pipe}
MCPositions == {shelf, bin, rack, yard}
MCItemOf == shelf :> glove @@ bin :> mitt @@ rack :> pipe @@ yard :> pipe
MCSpectrumItems == {pipe}
MCOpeningStock == shelf :> 1 @@ bin :> 1 @@ rack :> 1 @@ yard :> 0
MCPickRank == shelf :> 1 @@ bin :> 2 @@ rack :> 3 @@ yard :> 4
MCRequestIds == {r1}
MCLineIds == {l1, l2}
MCRequestOf == l1 :> r1 @@ l2 :> r1
MCLineItem == l1 :> glove @@ l2 :> pipe
MCAlternates == {<<glove, mitt>>}
=============================================================================

------------------------------ MODULE MCPartial ------------------------------
(***************************************************************************)
(* Deep run: a request of two lines and another one compete for one        *)
(* position.  A request is handed off in part, gets stock reallocated from *)
(* the other, and is claimed, picked and handed off again.  One position,  *)
(* so that the bound on versions can be high.                              *)
(***************************************************************************)
EXTENDS Requests, TLC

CONSTANTS bolt, shelf, r1, r2, l1, l2, l3

MCItemOf == shelf :> bolt
MCOpeningStock == shelf :> 2
MCPickRank == shelf :> 1
MCRequestOf == l1 :> r1 @@ l2 :> r1 @@ l3 :> r2
MCLineItem == l1 :> bolt @@ l2 :> bolt @@ l3 :> bolt

Symmetric == Permutations({l1, l2})
=============================================================================

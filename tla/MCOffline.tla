----------------------------- MODULE MCOffline -----------------------------
(***************************************************************************)
(* One worker takes one request offline on one device, from which two sync *)
(* calls may be under way, while the request goes on being worked on and   *)
(* cancelled online.                                                       *)
(***************************************************************************)
EXTENDS OfflineSync, TLC

CONSTANTS bolt, shelf, r1, l1, g1, tablet

MCItemOf == shelf :> bolt
MCOpeningStock == shelf :> 1
MCPickRank == shelf :> 1
MCRequestOf == l1 :> r1
MCLineItem == l1 :> bolt
MCDeviceOf == g1 :> tablet

Symmetric == Permutations(Calls)
=============================================================================

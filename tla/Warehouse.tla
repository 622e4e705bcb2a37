------------------------------ MODULE Warehouse ------------------------------
(***************************************************************************)
(* The two services that change stock, RequestService and InventoryService,*)
(* interleaved over the same StockPosition rows.                           *)
(***************************************************************************)
EXTENDS Requests, Inventory

WarehouseNext ==
  \/ RequestNext
  \/ InventoryNext /\ UNCHANGED requestVars

WarehouseSpec == Init /\ [][WarehouseNext]_vars

-----------------------------------------------------------------------------
\* A step of one service never does the work of the other: only a hand-off
\* takes stock out as an issue, and it takes exactly what the issued
\* quantities of the allocations at the position grew by.
IssuesMatchAllocations ==
  \A p \in Positions :
    ledger[p]["material_issue"] =
      SumFunction([a \in AllocationsAt(p) |-> alloc[a].issued])
=============================================================================

------------------------------- MODULE Stock -------------------------------
(***************************************************************************)
(* The rows every stock-changing transaction shares: the StockPosition     *)
(* table, the InventoryEvent ledger and the OutboxEvent queue as far as    *)
(* the services that write them are concerned.                             *)
(*                                                                         *)
(* Quantities are Numeric(18,3) in the code; they are natural numbers of   *)
(* thousandths here.  One warehouse is modelled: every query of the code   *)
(* is scoped by warehouse_id and no operation spans two warehouses.        *)
(***************************************************************************)
EXTENDS Integers, FiniteSets, FiniteSetsExt

CONSTANTS
  Items,          \* catalogue items
  Positions,      \* stock positions: one (item, location) pair each
  ItemOf,         \* the item stored at a position
  SpectrumItems,  \* items whose inventory_path is spectrum_managed
  OpeningStock    \* on_hand of each position as seeded

ASSUME StockAssumption ==
  /\ ItemOf \in [Positions -> Items]
  /\ SpectrumItems \subseteq Items
  /\ OpeningStock \in [Positions -> Nat]

VARIABLES
  stock,    \* StockPosition rows
  ledger,   \* InventoryEvent rows, summed by position and kind of event
  outbox    \* quantity of MATERIAL_ISSUE events queued for Spectrum, by position

stockVars == <<stock, ledger, outbox>>

\* A MOVE row names two locations; it counts as move_out at its location_id
\* and as move_in at its destination_location_id.
EventKinds ==
  { "receipt", "general_use_withdrawal", "material_issue", "return",
    "move_out", "move_in", "count_adjustment", "quarantine", "release" }

StockPosition == [onHand : Nat, quarantined : Nat, version : Nat]

\* Mistake: quarantined stock counts as usable.
UsableWithQuarantined(p) == stock[p].onHand

Usable(p) == stock[p].onHand - stock[p].quarantined

IsSpectrumManaged(p) == ItemOf[p] \in SpectrumItems

\* Adding one InventoryEvent row of this kind and quantity at position p.
Record(entries, p, kind, quantity) ==
  [entries EXCEPT ![p][kind] = @ + quantity]

StockTypeOK ==
  /\ stock \in [Positions -> StockPosition]
  /\ ledger \in [Positions -> [EventKinds -> Int]]
  /\ outbox \in [Positions -> Nat]

StockInit ==
  /\ stock = [p \in Positions |->
                [onHand |-> OpeningStock[p], quarantined |-> 0, version |-> 1]]
  /\ ledger = [p \in Positions |-> [k \in EventKinds |-> 0]]
  /\ outbox = [p \in Positions |-> 0]

-----------------------------------------------------------------------------
(***************************************************************************)
(* The ledger is immutable and is meant to explain the stock: the on_hand  *)
(* of a position is its opening stock plus what its ledger rows brought in *)
(* minus what they took out.                                               *)
(***************************************************************************)
LedgerNet(p) ==
    ledger[p]["receipt"] + ledger[p]["return"] + ledger[p]["move_in"]
  + ledger[p]["count_adjustment"]
  - ledger[p]["general_use_withdrawal"] - ledger[p]["material_issue"]
  - ledger[p]["move_out"]

\* Every change of on_hand is booked in the InventoryEvent ledger with its
\* exact signed quantity, whichever of the services made it.
LedgerExplainsStock ==
  \A p \in Positions : stock[p].onHand = OpeningStock[p] + LedgerNet(p)

\* arcitecture_plan.md section 16: an outbox event exists for every applicable
\* local issue, and local-general-use issues never enter the outbox.
OutboxMirrorsIssues ==
  \A p \in Positions :
    outbox[p] = IF IsSpectrumManaged(p) THEN ledger[p]["material_issue"] ELSE 0

\* No transaction leaves a position with more quarantined than on hand
\* (ck_stock_positions_quarantined_within_on_hand is never what stops it).
QuarantineWithinStock ==
  \A p \in Positions : stock[p].quarantined <= stock[p].onHand
=============================================================================

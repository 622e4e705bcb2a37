----------------------------- MODULE Inventory -----------------------------
(***************************************************************************)
(* InventoryService: the operations on stock that do not go through a      *)
(* request.  Each is one transaction that locks the position (move: both,  *)
(* in id order), checks, changes the row and writes one InventoryEvent.    *)
(***************************************************************************)
EXTENDS Stock

CONSTANTS
  Capabilities,     \* what the Spectrum adapter can post, besides issues
  StockQuantities,  \* quantities a user may enter
  MaxStockChanges   \* bound: an InventoryService call starts after fewer changes

ASSUME InventoryAssumption ==
  /\ Capabilities \subseteq {"post_receipt", "post_return", "post_adjustment"}
  /\ StockQuantities \subseteq Nat \ {0}
  /\ MaxStockChanges \in Nat

\* Every change of a position, by whichever service, raises its version.
StockMayChange ==
  SumFunction([p \in Positions |-> stock[p].version - 1]) < MaxStockChanges

\* Mistake: the adapter is taken to be capable of everything.
AlwaysCapable(p, capability) == TRUE

\* _assert_spectrum_capability
IsCapable(p, capability) == IsSpectrumManaged(p) => capability \in Capabilities

\* One change of the row of p together with the ledger row that records it.
ChangeStock(p, dOnHand, dQuarantined, kind, quantity) ==
  /\ stock' = [stock EXCEPT ![p] =
                 [onHand |-> @.onHand + dOnHand,
                  quarantined |-> @.quarantined + dQuarantined,
                  version |-> @.version + 1]]
  /\ ledger' = Record(ledger, p, kind, quantity)
  /\ UNCHANGED outbox

Receive(p, q) ==
  /\ StockMayChange
  /\ IsCapable(p, "post_receipt")
  /\ ChangeStock(p, q, 0, "receipt", q)

ReturnStock(p, q, condition) ==
  /\ StockMayChange
  /\ IsCapable(p, "post_return")
  /\ ChangeStock(p, q, IF condition = "quarantined" THEN q ELSE 0, "return", q)

Quarantine(p, q) ==
  /\ StockMayChange
  /\ IsCapable(p, "post_adjustment")
  /\ q <= Usable(p)
  /\ ChangeStock(p, 0, q, "quarantine", q)

ReleaseQuarantine(p, q) ==
  /\ StockMayChange
  /\ IsCapable(p, "post_adjustment")
  /\ q <= stock[p].quarantined
  /\ ChangeStock(p, 0, -q, "release", q)

\* Mistake: a withdrawal is booked as an issue.
WithdrawAsIssue(p, q) ==
  /\ StockMayChange
  /\ ~IsSpectrumManaged(p)
  /\ q <= Usable(p)
  /\ ChangeStock(p, -q, 0, "material_issue", q)

\* Usable stock is all the code looks at: allocations are not subtracted.
WithdrawGeneralUse(p, q) ==
  /\ StockMayChange
  /\ ~IsSpectrumManaged(p)
  /\ q <= Usable(p)
  /\ ChangeStock(p, -q, 0, "general_use_withdrawal", q)

\* Mistake: the ledger gets the count instead of the difference.
AdjustBookingCount(p, counted) ==
  /\ StockMayChange
  /\ IsCapable(p, "post_adjustment")
  /\ counted >= stock[p].quarantined
  /\ ChangeStock(p, counted - stock[p].onHand, 0, "count_adjustment", counted)

Adjust(p, counted) ==
  /\ StockMayChange
  /\ IsCapable(p, "post_adjustment")
  /\ counted >= stock[p].quarantined
  /\ ChangeStock(p, counted - stock[p].onHand, 0, "count_adjustment",
                 counted - stock[p].onHand)

\* The one operation on Spectrum-managed stock that asks for no capability.
Move(p, d, q) ==
  /\ StockMayChange
  /\ p # d
  /\ ItemOf[p] = ItemOf[d]
  /\ q <= Usable(p)
  /\ stock' = [stock EXCEPT
                 ![p] = [stock[p] EXCEPT !.onHand = @ - q, !.version = @ + 1],
                 ![d] = [stock[d] EXCEPT !.onHand = @ + q, !.version = @ + 1]]
  /\ ledger' = Record(Record(ledger, p, "move_out", q), d, "move_in", q)
  /\ UNCHANGED outbox

InventoryNext ==
  \E p \in Positions :
    \/ \E q \in StockQuantities :
         \/ Receive(p, q)
         \/ \E condition \in {"usable", "quarantined"} : ReturnStock(p, q, condition)
         \/ Quarantine(p, q)
         \/ ReleaseQuarantine(p, q)
         \/ WithdrawGeneralUse(p, q)
         \/ \E d \in Positions : Move(p, d, q)
    \/ \E counted \in StockQuantities \union {0} : Adjust(p, counted)

-----------------------------------------------------------------------------
\* arcitecture_plan.md section 16: Spectrum-managed stock that Spectrum cannot
\* be told about is not created, destroyed or quarantined here, only issued
\* and moved: an item's stock is its opening stock less its issues.
SpectrumStockIsConserved ==
  Capabilities = {} =>
    \A i \in SpectrumItems :
      LET at == {p \in Positions : ItemOf[p] = i}
      IN  /\ SumFunction([p \in at |-> stock[p].onHand + ledger[p]["material_issue"]])
               = SumFunctionOnSet(OpeningStock, at)
          /\ \A p \in at : stock[p].quarantined = 0
=============================================================================

---------------------------- MODULE StockListing ----------------------------
(***************************************************************************)
(* InventoryService.list_inventory and the StockSummary it builds for each *)
(* item.  Stock and quarantine are summed by the item of the position,     *)
(* demand and allocations by the item of the line.  The queries are taken  *)
(* at one instant.                                                         *)
(***************************************************************************)
EXTENDS Requests

\* Mistake: the demand of a request is reserved from its creation.
OpenFromDraft ==
  { "draft", "submitted", "claimed", "in_progress", "ready", "partially_fulfilled",
    "on_hold" }

OpenRequestStates ==
  { "submitted", "claimed", "in_progress", "ready", "partially_fulfilled",
    "on_hold" }

PositionsOf(i) == {p \in Positions : ItemOf[p] = i}

OnHand(i) == SumFunction([p \in PositionsOf(i) |-> stock[p].onHand])

Quarantined(i) == SumFunction([p \in PositionsOf(i) |-> stock[p].quarantined])

UsableOnHand(i) == OnHand(i) - Quarantined(i)

ReservedDemand(i) ==
  SumFunction([l \in {m \in LineIds : /\ LineItem[m] = i
                                      /\ request[RequestOf[m]].state \in OpenRequestStates}
                 |-> line[l].requested - line[l].issued - line[l].cancelled])

\* Allocations of whatever position, of requests in whatever state.
AllocatedFor(i) ==
  SumFunction([a \in {b \in AllocationIds : LineItem[LineOf(b)] = i} |-> Open(alloc[a])])

\* What __post_init__ demands of the summary of an item; if it raises, the
\* whole listing does.
IsStockSummary(i) ==
  /\ OnHand(i) >= 0 /\ ReservedDemand(i) >= 0 /\ AllocatedFor(i) >= 0
  /\ Quarantined(i) \in 0..OnHand(i)
  /\ AllocatedFor(i) <= UsableOnHand(i)

-----------------------------------------------------------------------------
Backordered(i) ==
  SumFunction([l \in {m \in LineIds : LineItem[m] = i} |-> line[l].backordered])

\* Some line of item i is served by another item.
IsSubstituted(i) ==
  \E a \in AllocationIds :
    /\ LineItem[LineOf(a)] = i
    /\ ItemOf[PositionOf(a)] # i
    /\ Open(alloc[a]) > 0

\* Somewhere the counter has taken or quarantined stock of item i that is
\* allocated: InventoryService looks at usable stock only.
IsOverAllocated(i) == \E p \in PositionsOf(i) : AllocatedAt(p) > Usable(p)

\* Whatever the requests and the counter do: the reserved demand of the
\* listing, counted over the lines of open requests, is what allocations hold
\* for the item and what is backordered, so that shortage and free_to_promise
\* speak of the same demand; and a summary is refused for two reasons only,
\* that another item serves a line of this one, or that a position of this
\* item has less than is allocated there.
ListingIsCoherent ==
  \A i \in Items :
    /\ ReservedDemand(i) = AllocatedFor(i) + Backordered(i)
    /\ IsStockSummary(i) \/ IsSubstituted(i) \/ IsOverAllocated(i)

\* inventory/domain.py: "Allocated quantity cannot exceed usable on-hand
\* quantity"; nobody catches the error, so as long as it is raised for one
\* item the listing and its search fail for all of them.
ListingAnswers == \A i \in Items : IsStockSummary(i)
=============================================================================

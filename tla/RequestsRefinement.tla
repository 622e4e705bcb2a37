------------------------- MODULE RequestsRefinement -------------------------
(***************************************************************************)
(* The request workflow implements its two abstract specifications.        *)
(***************************************************************************)
EXTENDS Requests

PhaseOf(state) ==
  CASE state \in {"absent", "draft"} -> "unsent"
    [] state \in {"submitted", "partially_fulfilled", "on_hold"} -> "waiting"
    [] state \in ClaimedStates -> "held"
    [] OTHER -> "closed"

Cycle == INSTANCE Lifecycle WITH
  phase <- [r \in RequestIds |-> PhaseOf(request[r].state)],
  holder <- [r \in RequestIds |-> request[r].claimedBy]

\* Whoever watches a request sees it wait, be held by one worker, come back
\* only through that worker's hand-off, and close for good.
ImplementsLifecycle == Cycle!LifecycleSpec

Booking == INSTANCE Reservations WITH
  free <- [p \in Positions |-> Available(p)],
  reserved <- [p \in Positions |-> AllocatedAt(p)],
  gone <- [p \in Positions |-> ledger[p]["material_issue"]]

\* Every unit of a position is free, reserved or issued; a hand-off issues
\* only reserved units, and all other steps only book between free and
\* reserved.
ImplementsReservations == Booking!ReservationsSpec
=============================================================================

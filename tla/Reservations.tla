---------------------------- MODULE Reservations ----------------------------
(***************************************************************************)
(* What the allocations promise about the stock when requests alone use    *)
(* it: every unit of a position is free, reserved or gone; a step either   *)
(* reserves free units, or gives reserved units back, or takes reserved    *)
(* units out of the warehouse - never a unit that is free or reserved for  *)
(* someone else, and never one that is not there.                          *)
(***************************************************************************)
EXTENDS Naturals

CONSTANTS Positions, OpeningStock

VARIABLES free, reserved, gone

reservationVars == <<free, reserved, gone>>

\* Only positions are partitioned; a step may touch several of them.
Partitioned ==
  /\ free \in [Positions -> Nat]
  /\ reserved \in [Positions -> Nat]
  /\ gone \in [Positions -> Nat]
  /\ \A p \in Positions : free[p] + reserved[p] + gone[p] = OpeningStock[p]

ReservationsInit ==
  /\ free = OpeningStock
  /\ reserved = [p \in Positions |-> 0]
  /\ gone = [p \in Positions |-> 0]

\* Submission reserves and a short pick or a cancellation gives back;
\* a substitution does both, at two positions.
Rebook ==
  /\ UNCHANGED gone
  /\ Partitioned'

TakeOut ==
  /\ UNCHANGED free
  /\ \A p \in Positions : gone'[p] >= gone[p]
  /\ Partitioned'

ReservationsNext == Rebook \/ TakeOut

ReservationsSpec == ReservationsInit /\ [][ReservationsNext]_reservationVars
=============================================================================

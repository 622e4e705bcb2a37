---------------------------- MODULE DemandProofs ----------------------------
(***************************************************************************)
(* The quantities of the request lines, which are sums over allocations:   *)
(* that the totals kept on a line are always those of its allocations, and *)
(* that requested demand is issued, cancelled, reserved or backordered at  *)
(* every step.  The invariant is one of each line (LineOK); every action   *)
(* is shown to move the sum of what the allocations of a line hold no      *)
(* further than the line's demand allows.                                  *)
(***************************************************************************)
EXTENDS StockListing, RequestsProofs, SumProofs

USE StockAssumption, RequestsAssumption

-----------------------------------------------------------------------------
(***************************************************************************)
(* Sums over the allocations of a line or of a position                    *)
(***************************************************************************)

\* What each allocation row holds for its line (issued or reserved), reserves,
\* has picked and has issued.
Held(rows) == [a \in AllocationIds |-> rows[a].quantity - rows[a].released]
Opens(rows) == [a \in AllocationIds |-> Open(rows[a])]
Picks(rows) == [a \in AllocationIds |-> rows[a].picked]
Issues(rows) == [a \in AllocationIds |-> rows[a].issued]

SumFor(f, l) == SumFunctionOnSet(f, AllocationsFor(l))
SumAt(f, p) == SumFunctionOnSet(f, AllocationsAt(p))

\* Rows whose issues and releases stay within their quantity.
BoundedRows ==
  {rows \in [AllocationIds -> Allocation] :
     \A a \in AllocationIds : rows[a].issued + rows[a].released <= rows[a].quantity}

\* The allocations of a line, and those at a position, are finite sets.
LEMMA SomeAllocations ==
  /\ \A l : AllocationsFor(l) \subseteq AllocationIds /\ IsFiniteSet(AllocationsFor(l))
  /\ \A p : AllocationsAt(p) \subseteq AllocationIds /\ IsFiniteSet(AllocationsAt(p))
BY AllocationIdsFinite, FS_Subset DEF AllocationsFor, AllocationsAt

\* A sum of the model, written over the allocation ids.
LEMMA SumOverSome ==
  ASSUME NEW S \in SUBSET AllocationIds, NEW f, \A a \in S : f[a] \in Int,
         NEW g, DOMAIN g = S, \A a \in S : g[a] = f[a]
  PROVE  SumFunction(g) = SumFunctionOnSet(f, S)
<1>1. IsFiniteSet(S)
  BY AllocationIdsFinite, FS_Subset
<1>2. QED
  BY <1>1, SumOfFunction

\* The columns of a row, as natural numbers.
LEMMA RowColumns ==
  ASSUME NEW rows \in BoundedRows, NEW a \in AllocationIds
  PROVE  /\ Held(rows)[a] \in Nat /\ Opens(rows)[a] \in Nat
         /\ Picks(rows)[a] \in Nat /\ Issues(rows)[a] \in Nat
         /\ Held(rows)[a] = rows[a].quantity - rows[a].released
         /\ Opens(rows)[a] = Open(rows[a])
         /\ Held(rows)[a] = Issues(rows)[a] + Opens(rows)[a]
<1>1. /\ rows[a].quantity \in Nat /\ rows[a].picked \in Nat
      /\ rows[a].issued \in Nat /\ rows[a].released \in Nat
      /\ rows[a].issued + rows[a].released <= rows[a].quantity
  BY DEF BoundedRows, Allocation
<1>2. QED
  BY <1>1 DEF Held, Opens, Picks, Issues, Open

\* What a line holds is what it was issued and what is open for it.
LEMMA SumsForLine ==
  ASSUME NEW rows \in BoundedRows, NEW l
  PROVE  /\ SumFor(Held(rows), l) \in Nat /\ SumFor(Opens(rows), l) \in Nat
         /\ SumFor(Picks(rows), l) \in Nat /\ SumFor(Issues(rows), l) \in Nat
         /\ SumFor(Held(rows), l) = SumFor(Issues(rows), l) + SumFor(Opens(rows), l)
<1>1. \A a \in AllocationsFor(l) :
        /\ Held(rows)[a] \in Nat /\ Opens(rows)[a] \in Nat
        /\ Picks(rows)[a] \in Nat /\ Issues(rows)[a] \in Nat
        /\ Held(rows)[a] = Issues(rows)[a] + Opens(rows)[a]
  BY SomeAllocations, RowColumns
<1>2. QED
  BY <1>1, SomeAllocations, SumNat, SumPlus DEF SumFor

\* The sums that the model takes, in this notation.
LEMMA ModelSums ==
  ASSUME NEW rows \in BoundedRows
  PROVE  /\ \A l : SumFunction([a \in AllocationsFor(l) |-> Open(rows[a])])
                     = SumFor(Opens(rows), l)
         /\ \A p : SumFunction([a \in AllocationsAt(p) |-> Open(rows[a])])
                     = SumAt(Opens(rows), p)
         /\ \A p : SumFunction([a \in AllocationsAt(p) |-> rows[a].issued])
                     = SumAt(Issues(rows), p)
<1>1. \A a \in AllocationIds :
        /\ Opens(rows)[a] \in Int /\ Opens(rows)[a] = Open(rows[a])
        /\ Issues(rows)[a] \in Int /\ Issues(rows)[a] = rows[a].issued
  BY RowColumns DEF Issues
<1>2. ASSUME NEW l
      PROVE  SumFunction([a \in AllocationsFor(l) |-> Open(rows[a])])
               = SumFor(Opens(rows), l)
  BY <1>1, SomeAllocations, SumOverSome DEF SumFor
<1>3. ASSUME NEW p
      PROVE  /\ SumFunction([a \in AllocationsAt(p) |-> Open(rows[a])])
                  = SumAt(Opens(rows), p)
             /\ SumFunction([a \in AllocationsAt(p) |-> rows[a].issued])
                  = SumAt(Issues(rows), p)
  <2>1. SumFunction([a \in AllocationsAt(p) |-> Open(rows[a])])
          = SumAt(Opens(rows), p)
    BY <1>1, SomeAllocations, SumOverSome DEF SumAt
  <2>2. SumFunction([a \in AllocationsAt(p) |-> rows[a].issued])
          = SumAt(Issues(rows), p)
    BY <1>1, SomeAllocations, SumOverSome DEF SumAt
  <2>3. QED
    BY <2>1, <2>2
<1>4. QED
  BY <1>2, <1>3

\* What _refresh_line_totals writes.
LEMMA RefreshedRow ==
  ASSUME NEW rows \in BoundedRows, NEW l, NEW row \in RequestLine
  PROVE  RefreshLineTotals(row, l, rows) =
           [requested |-> row.requested,
            allocated |-> SumFor(Held(rows), l),
            picked |-> SumFor(Picks(rows), l),
            issued |-> SumFor(Issues(rows), l),
            cancelled |-> row.cancelled,
            backordered |-> AtLeastZero(row.requested - row.cancelled
                                        - SumFor(Held(rows), l))]
<1> DEFINE picked == SumFunction([a \in AllocationsFor(l) |-> rows[a].picked])
           issued == SumFunction([a \in AllocationsFor(l) |-> rows[a].issued])
           held == SumFunction([a \in AllocationsFor(l) |->
                                  rows[a].quantity - rows[a].released])
           open == SumFunction([a \in AllocationsFor(l) |-> Open(rows[a])])
<1>1. \A a \in AllocationIds :
        /\ Picks(rows)[a] \in Int /\ Picks(rows)[a] = rows[a].picked
        /\ Issues(rows)[a] \in Int /\ Issues(rows)[a] = rows[a].issued
        /\ Held(rows)[a] \in Int /\ Held(rows)[a] = rows[a].quantity - rows[a].released
  BY RowColumns DEF Issues, Picks
<1>2. picked = SumFor(Picks(rows), l)
  BY <1>1, SomeAllocations, SumOverSome DEF SumFor
<1>3. issued = SumFor(Issues(rows), l)
  BY <1>1, SomeAllocations, SumOverSome DEF SumFor
<1>4. held = SumFor(Held(rows), l)
  BY <1>1, SomeAllocations, SumOverSome DEF SumFor
<1>5. open = SumFor(Opens(rows), l)
  BY ModelSums
<1>6. RefreshLineTotals(row, l, rows) =
        [row EXCEPT !.picked = picked, !.issued = issued, !.allocated = held,
                    !.backordered = AtLeastZero(row.requested - issued - row.cancelled - open)]
  BY DEF RefreshLineTotals
<1>7. row.requested - issued - row.cancelled - open
        = row.requested - row.cancelled - SumFor(Held(rows), l)
  BY <1>3, <1>5, SumsForLine DEF RequestLine
<1> HIDE DEF picked, issued, held, open
<1>8. QED
  BY <1>2, <1>3, <1>4, <1>6, <1>7 DEF RequestLine

-----------------------------------------------------------------------------
(***************************************************************************)
(* The invariant of a line                                                 *)
(***************************************************************************)
Unsent == {"absent", "draft"}

\* Before its request is submitted a line only says what is asked for.  Then
\* its totals are those of its allocations, which hold no more than what is
\* asked for and not cancelled, and all of it is settled at the end.
LineOK(row, l, rows, state) ==
  /\ row \in RequestLine
  /\ state \in Unsent => row = [NoLine EXCEPT !.requested = row.requested]
  /\ state = "absent" => row.requested = 0
  /\ state \notin Unsent =>
       /\ row = RefreshLineTotals(row, l, rows)
       /\ row.cancelled + SumFor(Held(rows), l) <= row.requested
  /\ state \in ClosedStates => row.requested <= row.issued + row.cancelled

DemandInv ==
  /\ line = [l \in LineIds |-> line[l]]
  /\ \A l \in LineIds : LineOK(line[l], l, alloc, request[RequestOf[l]].state)

\* What the lines need to know of the other rows.
RowsInv ==
  /\ RowsTypeOK
  /\ AllocationWithinQuantity
  /\ \A r \in RequestIds :
       request[r].claimedBy # NoWorker => request[r].state \notin Unsent \union ClosedStates
  /\ \A a \in AllocationIds :
       request[RequestOfAllocation(a)].state \in Unsent => alloc[a].quantity = 0

\* The invariant of RequestsProofs says what the lines need to know.
LEMMA InvRows ==
  /\ IInv /\ HistoryOK => RowsInv
  /\ (IInv /\ HistoryOK)' => RowsInv'
<1>1. /\ IInv => RowsTypeOK /\ AllocationWithinQuantity
      /\ IInv' => RowsTypeOK' /\ AllocationWithinQuantity'
  BY DEF IInv, RowsOK, RowOK, AllocationWithinQuantity
<1>2. /\ IInv => \A r \in RequestIds :
           request[r].claimedBy # NoWorker => request[r].state \notin Unsent \union ClosedStates
      /\ IInv' => \A r \in RequestIds :
           request'[r].claimedBy # NoWorker => request'[r].state \notin Unsent \union ClosedStates
  BY DEF IInv, ClaimOK, ClaimedStates, ClosedStates, Unsent
<1>3. QED
  BY <1>1, <1>2 DEF HistoryOK, RowsInv, Unsent

\* The bounds of the allocations, before a step.
LEMMA RowsAreBounded == RowsInv => alloc \in BoundedRows
BY DEF RowsInv, RowsTypeOK, RequestTypeOK, BoundedRows, AllocationWithinQuantity

\* What the row of a line says once its request was submitted.
LEMMA SentLine ==
  ASSUME NEW row, NEW l, NEW rows \in BoundedRows, NEW state, state \notin Unsent,
         LineOK(row, l, rows, state)
  PROVE  /\ row \in RequestLine
         /\ row.allocated = SumFor(Held(rows), l)
         /\ row.picked = SumFor(Picks(rows), l)
         /\ row.issued = SumFor(Issues(rows), l)
         /\ row.backordered = row.requested - row.cancelled - SumFor(Held(rows), l)
         /\ row.cancelled + SumFor(Held(rows), l) <= row.requested
<1>1. /\ row \in RequestLine /\ row = RefreshLineTotals(row, l, rows)
      /\ row.cancelled + SumFor(Held(rows), l) <= row.requested
  BY DEF LineOK
<1>2. /\ row.allocated = SumFor(Held(rows), l)
      /\ row.picked = SumFor(Picks(rows), l)
      /\ row.issued = SumFor(Issues(rows), l)
      /\ row.backordered = AtLeastZero(row.requested - row.cancelled
                                       - SumFor(Held(rows), l))
  BY <1>1, RefreshedRow
<1>3. SumFor(Held(rows), l) \in Nat /\ row.requested \in Nat /\ row.cancelled \in Nat
  BY <1>1, SumsForLine DEF RequestLine
<1>4. QED
  BY <1>1, <1>2, <1>3 DEF AtLeastZero

\* A refreshed line is in order if its allocations fit what it asks for.
LEMMA RefreshedLineOK ==
  ASSUME NEW row \in RequestLine, NEW l, NEW rows \in BoundedRows,
         NEW state, state \notin Unsent,
         row.cancelled + SumFor(Held(rows), l) <= row.requested,
         state \in ClosedStates =>
           row.requested <= SumFor(Issues(rows), l) + row.cancelled
  PROVE  LineOK(RefreshLineTotals(row, l, rows), l, rows, state)
<1> DEFINE held == SumFor(Held(rows), l)
           picked == SumFor(Picks(rows), l)
           issued == SumFor(Issues(rows), l)
           new == [requested |-> row.requested, allocated |-> held, picked |-> picked,
                   issued |-> issued, cancelled |-> row.cancelled,
                   backordered |-> AtLeastZero(row.requested - row.cancelled - held)]
<1>1. RefreshLineTotals(row, l, rows) = new
  BY RefreshedRow
<1>2. held \in Nat /\ picked \in Nat /\ issued \in Nat
  BY SumsForLine
<1>3. row.requested \in Nat /\ row.cancelled \in Nat
  BY DEF RequestLine
<1>4. AtLeastZero(row.requested - row.cancelled - held) \in Nat
  BY <1>2, <1>3 DEF AtLeastZero
<1>5. new \in RequestLine
  BY <1>2, <1>3, <1>4 DEF RequestLine
<1>6. RefreshLineTotals(new, l, rows) = new
  BY <1>5, RefreshedRow
<1>7. QED
  BY <1>1, <1>5, <1>6 DEF LineOK, Unsent

\* What a line holds does not grow unless one of its allocations does.
LEMMA HeldShrinks ==
  ASSUME NEW l, NEW rows \in BoundedRows, NEW new \in BoundedRows,
         \A a \in AllocationsFor(l) :
           new[a].quantity - new[a].released <= rows[a].quantity - rows[a].released
  PROVE  SumFor(Held(new), l) <= SumFor(Held(rows), l)
<1>1. \A a \in AllocationsFor(l) :
        /\ Held(rows)[a] \in Int /\ Held(new)[a] \in Int
        /\ Held(new)[a] <= Held(rows)[a]
  BY SomeAllocations, RowColumns
<1>2. QED
  BY <1>1, SomeAllocations, SumMonotonic DEF SumFor

\* And after it.
LEMMA RowsStayBounded == RowsInv' => alloc' \in BoundedRows
BY DEF RowsInv, RowsTypeOK, RequestTypeOK, BoundedRows, AllocationWithinQuantity

-----------------------------------------------------------------------------
(***************************************************************************)
(* The lines after each action                                             *)
(***************************************************************************)
LineAfter(l) == LineOK(line'[l], l, alloc', request'[RequestOf[l]].state)

\* A line and its request, before a step.
LEMMA LineBefore ==
  ASSUME RowsInv, DemandInv, NEW l \in LineIds
  PROVE  /\ LineOK(line[l], l, alloc, request[RequestOf[l]].state)
         /\ line[l] \in RequestLine
         /\ RequestOf[l] \in RequestIds
         /\ request[RequestOf[l]].state \in States
BY DEF DemandInv, LineOK, RowsInv, RowsTypeOK, RequestTypeOK, MaterialRequest

\* A step that takes request r to a state.
MovesTo(r, state) ==
  \E worker : request' = [request EXCEPT ![r] = Moved(request[r], state, worker)]

\* The states after one request has moved.
LEMMA StatesMoved ==
  ASSUME RowsInv, NEW r \in RequestIds, NEW state, MovesTo(r, state),
         NEW l \in LineIds
  PROVE  request'[RequestOf[l]].state =
           IF RequestOf[l] = r THEN state ELSE request[RequestOf[l]].state
BY DEF MovesTo, RowsInv, RowsTypeOK, RequestTypeOK, Moved

\* A step that leaves a line, its allocations and, as far as the line can
\* tell, the state of its request.
LEMMA LineKept ==
  ASSUME RowsInv, RowsInv', DemandInv, NEW l \in LineIds,
         line'[l] = line[l],
         \A a \in AllocationsFor(l) : alloc'[a] = alloc[a],
         \/ request'[RequestOf[l]].state = request[RequestOf[l]].state
         \/ /\ request[RequestOf[l]].state \notin Unsent
            /\ request'[RequestOf[l]].state \notin Unsent
            /\ request'[RequestOf[l]].state \in ClosedStates =>
                 line[l].requested <= line[l].issued + line[l].cancelled
  PROVE  LineAfter(l)
<1>1. alloc \in BoundedRows
  BY RowsAreBounded
<1>2. alloc' \in BoundedRows
  BY RowsStayBounded
<1>3. LineOK(line[l], l, alloc, request[RequestOf[l]].state)
  BY LineBefore
<1>4. request[RequestOf[l]].state \in ClosedStates =>
        line[l].requested <= line[l].issued + line[l].cancelled
  BY <1>3 DEF LineOK
<1>5. request'[RequestOf[l]].state = "absent" => request[RequestOf[l]].state = "absent"
  BY DEF Unsent
<1>6. /\ request'[RequestOf[l]].state \in Unsent <=> request[RequestOf[l]].state \in Unsent
      /\ request'[RequestOf[l]].state \in ClosedStates =>
           line[l].requested <= line[l].issued + line[l].cancelled
  BY <1>4
<1>7. /\ SumFor(Held(alloc'), l) = SumFor(Held(alloc), l)
      /\ SumFor(Picks(alloc'), l) = SumFor(Picks(alloc), l)
      /\ SumFor(Issues(alloc'), l) = SumFor(Issues(alloc), l)
  <2>1. \A a \in AllocationsFor(l) :
          /\ Held(alloc)[a] \in Int /\ Held(alloc')[a] = Held(alloc)[a]
          /\ Picks(alloc)[a] \in Int /\ Picks(alloc')[a] = Picks(alloc)[a]
          /\ Issues(alloc)[a] \in Int /\ Issues(alloc')[a] = Issues(alloc)[a]
    BY <1>1, SomeAllocations, RowColumns DEF Held, Picks, Issues
  <2>2. QED
    BY <2>1, SomeAllocations, SumSame DEF SumFor
<1>8. line[l] \in RequestLine
  BY <1>3 DEF LineOK
<1>9. RefreshLineTotals(line[l], l, alloc') = RefreshLineTotals(line[l], l, alloc)
  BY <1>1, <1>2, <1>7, <1>8, RefreshedRow
<1>10. LineOK(line[l], l, alloc', request'[RequestOf[l]].state)
  BY <1>3, <1>5, <1>6, <1>7, <1>9 DEF LineOK
<1>11. QED
  BY <1>10 DEF LineAfter

\* A draft only says what is asked for.
LEMMA CreateDraftLines ==
  ASSUME RowsInv, RowsInv', DemandInv, NEW r \in RequestIds, NEW demand \in Demands(r),
         CreateDraft(r, demand), NEW l \in LineIds
  PROVE  LineAfter(l)
<1>1. /\ LineOK(line[l], l, alloc, request[RequestOf[l]].state)
      /\ RequestOf[l] \in RequestIds
  BY LineBefore
<1>0. MovesTo(r, "draft")
  BY DEF CreateDraft, MovesTo
<1>2. /\ request[r].state = "absent"
      /\ request'[RequestOf[l]].state =
           IF RequestOf[l] = r THEN "draft" ELSE request[RequestOf[l]].state
      /\ alloc' = alloc
      /\ line'[l] = IF l \in DOMAIN demand
                    THEN [NoLine EXCEPT !.requested = demand[l]] ELSE line[l]
  <2>1. request'[RequestOf[l]].state =
          IF RequestOf[l] = r THEN "draft" ELSE request[RequestOf[l]].state
    BY <1>0, StatesMoved
  <2>2. QED
    BY <2>1 DEF CreateDraft
<1>3. CASE RequestOf[l] = r
  <2>1. l \in DOMAIN demand => demand[l] \in Nat
    <3>1. PICK ls \in (SUBSET LinesOf(r)) \ {{}} : demand \in [ls -> Quantities]
      BY DEF Demands
    <3>2. QED
      BY <3>1
  <2>2. line[l] = [NoLine EXCEPT !.requested = line[l].requested]
    BY <1>1, <1>2, <1>3 DEF LineOK, Unsent
  <2>3. /\ line'[l] = [NoLine EXCEPT !.requested = line'[l].requested]
        /\ line'[l] \in RequestLine
    BY <1>1, <1>2, <2>1, <2>2 DEF LineOK, NoLine, RequestLine
  <2>4. request'[RequestOf[l]].state = "draft"
    BY <1>2, <1>3
  <2>5. QED
    BY <2>3, <2>4 DEF LineAfter, LineOK, Unsent, ClosedStates
<1>4. CASE RequestOf[l] # r
  <2>1. l \notin DOMAIN demand
    BY <1>4 DEF Demands, LinesOf
  <2>2. QED
    BY <1>2, <1>4, <2>1, LineKept
<1>5. QED
  BY <1>3, <1>4

\* A claim touches no line.
LEMMA ClaimLines ==
  ASSUME RowsInv, RowsInv', DemandInv, NEW u \in Workers, NEW r \in RequestIds,
         ClaimLocked(u, r), NEW l \in LineIds
  PROVE  LineAfter(l)
<1>0. MovesTo(r, "claimed")
  BY DEF ClaimLocked, MovesTo
<1>1. request'[RequestOf[l]].state =
        IF RequestOf[l] = r THEN "claimed" ELSE request[RequestOf[l]].state
  BY <1>0, StatesMoved
<1>2. request[r].state \notin Unsent /\ "claimed" \notin Unsent /\ "claimed" \notin ClosedStates
  BY DEF ClaimLocked, ClaimableStates, Unsent, ClosedStates
<1>3. line' = line /\ alloc' = alloc
  BY DEF ClaimLocked
<1>4. QED
  BY <1>1, <1>2, <1>3, LineKept

\* A pick gives back what it did not find, and only that.  It leaves its
\* request open, or closed as it was.
LEMMA PickLines ==
  ASSUME RowsInv, RowsInv', DemandInv, NEW a \in AllocationIds, NEW q \in Nat,
         q <= alloc[a].quantity - alloc[a].released,
         alloc' = [alloc EXCEPT ![a] = Picked(alloc[a], q)],
         line' = RefreshLines(alloc', {LineOf(a)}),
         request[RequestOfAllocation(a)].state \notin Unsent,
         NEW l \in LineIds,
         \/ request'[RequestOf[l]].state = request[RequestOf[l]].state
         \/ /\ RequestOf[l] = RequestOfAllocation(a)
            /\ request'[RequestOf[l]].state \notin Unsent \union ClosedStates
  PROVE  LineAfter(l)
<1> DEFINE was == request[RequestOf[l]].state
           state == request'[RequestOf[l]].state
<1>0. /\ LineOf(a) \in LineIds /\ RequestOf[LineOf(a)] = RequestOfAllocation(a)
      /\ alloc \in [AllocationIds -> Allocation] /\ alloc[a] \in Allocation
      /\ alloc \in BoundedRows /\ alloc' \in BoundedRows
  BY AllocationIdParts, RowsAreBounded, RowsStayBounded
  DEF RowsInv, RowsTypeOK, RequestTypeOK, RequestOfAllocation
<1>1. LineOK(line[l], l, alloc, was) /\ line[l] \in RequestLine
  BY LineBefore
<1>2. \A b \in AllocationIds \ {a} : alloc'[b] = alloc[b]
  BY <1>0
<1>3. CASE l = LineOf(a)
  <2>1. line'[l] = RefreshLineTotals(line[l], l, alloc')
    BY <1>3 DEF RefreshLines
  <2>2. was \notin Unsent /\ state \notin Unsent
    BY <1>0, <1>3
  <2>3. /\ alloc'[a].quantity - alloc'[a].released = q
        /\ alloc'[a].issued = alloc[a].issued
    BY <1>0, PickedType DEF Allocation
  <2>4. SumFor(Held(alloc'), l) <= SumFor(Held(alloc), l)
    <3>1. \A b \in AllocationIds :
            alloc'[b].quantity - alloc'[b].released <= alloc[b].quantity - alloc[b].released
      BY <1>0, <1>2, <2>3 DEF Allocation
    <3>2. QED
      BY <1>0, <3>1, SomeAllocations, HeldShrinks
  <2>5. SumFor(Issues(alloc'), l) = SumFor(Issues(alloc), l)
    <3>1. \A b \in AllocationIds : Issues(alloc')[b] = Issues(alloc)[b]
      BY <1>0, <1>2, <2>3 DEF Issues
    <3>2. Issues(alloc') = Issues(alloc)
      BY <3>1 DEF Issues
    <3>3. QED
      BY <3>2
  <2>6. /\ line[l].cancelled + SumFor(Held(alloc), l) <= line[l].requested
        /\ line[l].issued = SumFor(Issues(alloc), l)
    BY <1>0, <1>1, <2>2, SentLine
  <2>7. /\ line[l].cancelled \in Nat /\ line[l].requested \in Nat
        /\ SumFor(Held(alloc), l) \in Nat /\ SumFor(Held(alloc'), l) \in Nat
    BY <1>0, <1>1, SumsForLine DEF RequestLine
  <2>8. line[l].cancelled + SumFor(Held(alloc'), l) <= line[l].requested
    BY <2>4, <2>6, <2>7
  <2>9. state \in ClosedStates =>
          line[l].requested <= SumFor(Issues(alloc'), l) + line[l].cancelled
    <3>1. state \in ClosedStates => state = was
      OBVIOUS
    <3>2. was \in ClosedStates => line[l].requested <= line[l].issued + line[l].cancelled
      BY <1>1 DEF LineOK
    <3>3. QED
      BY <3>1, <3>2, <2>5, <2>6
  <2>10. LineOK(RefreshLineTotals(line[l], l, alloc'), l, alloc', state)
    <3> HIDE DEF state
    <3>1. QED
      BY <1>0, <1>1, <2>2, <2>8, <2>9, RefreshedLineOK
  <2>11. QED
    BY <2>1, <2>10 DEF LineAfter
<1>4. CASE l # LineOf(a)
  <2>1. line'[l] = line[l]
    BY <1>4 DEF RefreshLines
  <2>2. \A b \in AllocationsFor(l) : alloc'[b] = alloc[b]
    BY <1>2, <1>4 DEF AllocationsFor
  <2>3. QED
    BY <2>1, <2>2, LineKept
<1>5. QED
  BY <1>3, <1>4

\* A short pick releases what it does not find, which is backordered.
LEMMA RecordPickLines ==
  ASSUME RowsInv, RowsInv', DemandInv, NEW u \in Workers, NEW a \in AllocationIds,
         NEW q \in Quantities \union {0}, RecordPick(u, a, q), NEW l \in LineIds
  PROVE  LineAfter(l)
<1> DEFINE r == RequestOfAllocation(a)
<1>0. /\ r \in RequestIds /\ alloc[a] \in Allocation
      /\ alloc \in [AllocationIds -> Allocation]
  BY AllocationIdParts DEF RowsInv, RowsTypeOK, RequestTypeOK
<1>1. PICK state \in {"ready", "in_progress"} :
        request' = [request EXCEPT ![r] = Moved(request[r], state, request[r].claimedBy)]
  BY DEF RecordPick, PickRange
<1>2. /\ alloc' = [alloc EXCEPT ![a] = Picked(alloc[a], q)]
      /\ line' = RefreshLines(alloc', {LineOf(a)})
      /\ request[r].claimedBy # NoWorker
      /\ q \in alloc[a].issued..(alloc[a].quantity - alloc[a].released)
  BY DEF RecordPick, PickRange
<1>3. request[r].state \notin Unsent /\ state \notin Unsent \union ClosedStates
  BY <1>0, <1>2 DEF RowsInv, Unsent, ClosedStates
<1>4. MovesTo(r, state)
  BY <1>1 DEF MovesTo
<1>5. request'[RequestOf[l]].state =
        IF RequestOf[l] = r THEN state ELSE request[RequestOf[l]].state
  BY <1>0, <1>4, StatesMoved
<1>6. q \in Nat /\ q <= alloc[a].quantity - alloc[a].released
  BY <1>0, <1>2 DEF Allocation
<1>7. \/ request'[RequestOf[l]].state = request[RequestOf[l]].state
      \/ /\ RequestOf[l] = r
         /\ request'[RequestOf[l]].state \notin Unsent \union ClosedStates
  BY <1>3, <1>5
<1>8. QED
  BY <1>2, <1>3, <1>6, <1>7, PickLines

\* A hand-off turns what is reserved into what is issued, so that a line holds
\* as much as before; it closes the request only if all lines are settled.
LEMMA IssueLines ==
  ASSUME RowsInv, RowsInv', DemandInv, NEW r \in RequestIds,
         alloc' = HandedOff(r), line' = HandedOffLines(r),
         request[r].state \notin Unsent,
         NEW l \in LineIds,
         \/ request'[RequestOf[l]].state = request[RequestOf[l]].state
         \/ /\ RequestOf[l] = r
            /\ request'[RequestOf[l]].state \notin Unsent
            /\ request'[RequestOf[l]].state \in ClosedStates => FullyClosed(r, line')
  PROVE  LineAfter(l)
<1> DEFINE ls == {LineOf(a) : a \in {b \in AllocationsOf(r) : Exists(b)}}
           was == request[RequestOf[l]].state
           state == request'[RequestOf[l]].state
<1>0. /\ RowsTypeOK /\ alloc \in BoundedRows /\ alloc' \in BoundedRows
      /\ line' = RefreshLines(alloc', ls)
  BY RowsAreBounded, RowsStayBounded DEF RowsInv, HandedOffLines
<1>1. LineOK(line[l], l, alloc, was) /\ line[l] \in RequestLine
  BY LineBefore
<1>2. RequestOf[l] = r => was \notin Unsent /\ state \notin Unsent
  OBVIOUS
<1>3. /\ \A b \in AllocationIds :
           alloc'[b].quantity = alloc[b].quantity /\ alloc'[b].released = alloc[b].released
      /\ \A b \in AllocationIds : alloc[b].issued <= alloc'[b].issued
  <2>1. ASSUME NEW b \in AllocationIds
        PROVE  /\ alloc'[b].quantity = alloc[b].quantity
               /\ alloc'[b].released = alloc[b].released
               /\ alloc[b].issued <= alloc'[b].issued
    <3>1. alloc[b] \in Allocation
      BY <1>0 DEF RowsTypeOK, RequestTypeOK
    <3>2. QED
      BY <1>0, <3>1, HandedOffRow DEF Allocation
  <2>2. QED
    BY <2>1
<1>4. CASE l \in ls
  <2>1. RequestOf[l] = r /\ line'[l] = RefreshLineTotals(line[l], l, alloc')
    BY <1>0, <1>4 DEF RefreshLines, AllocationsOf, RequestOfAllocation
  <2>2. SumFor(Held(alloc'), l) <= SumFor(Held(alloc), l)
    <3>1. \A b \in AllocationIds :
            alloc'[b].quantity - alloc'[b].released <= alloc[b].quantity - alloc[b].released
      BY <1>0, <1>3 DEF BoundedRows, Allocation
    <3>2. QED
      BY <1>0, <3>1, SomeAllocations, HeldShrinks
  <2>3. SumFor(Issues(alloc), l) <= SumFor(Issues(alloc'), l)
    <3>1. \A a \in AllocationsFor(l) :
            /\ Issues(alloc)[a] \in Int /\ Issues(alloc')[a] \in Int
            /\ Issues(alloc)[a] <= Issues(alloc')[a]
      <4>1. \A a \in AllocationIds :
              Issues(alloc)[a] \in Int /\ Issues(alloc')[a] \in Int
        BY <1>0, RowColumns
      <4>2. \A a \in AllocationIds : Issues(alloc)[a] <= Issues(alloc')[a]
        BY <1>3 DEF Issues
      <4>3. QED
        BY <4>1, <4>2, SomeAllocations
    <3>2. QED
      BY <3>1, SomeAllocations, SumMonotonic DEF SumFor
  <2>4. /\ line[l].cancelled + SumFor(Held(alloc), l) <= line[l].requested
        /\ line[l].issued = SumFor(Issues(alloc), l)
    BY <1>0, <1>1, <1>2, <2>1, SentLine
  <2>5. /\ line[l].cancelled \in Nat /\ line[l].requested \in Nat
        /\ SumFor(Held(alloc), l) \in Nat /\ SumFor(Held(alloc'), l) \in Nat
        /\ SumFor(Issues(alloc), l) \in Nat /\ SumFor(Issues(alloc'), l) \in Nat
    BY <1>0, <1>1, SumsForLine DEF RequestLine
  <2>6. line[l].cancelled + SumFor(Held(alloc'), l) <= line[l].requested
    BY <2>2, <2>4, <2>5
  <2>7. /\ line'[l].requested = line[l].requested
        /\ line'[l].issued = SumFor(Issues(alloc'), l)
        /\ line'[l].cancelled = line[l].cancelled
    BY <1>0, <1>1, <2>1, RefreshedRow
  <2>8. state \in ClosedStates =>
          line[l].requested <= SumFor(Issues(alloc'), l) + line[l].cancelled
    <3>1. CASE state = was
      <4>1. was \in ClosedStates => line[l].requested <= line[l].issued + line[l].cancelled
        BY <1>1 DEF LineOK
      <4>2. QED
        BY <3>1, <4>1, <2>3, <2>4, <2>5
    <3>2. CASE state \in ClosedStates => FullyClosed(r, line')
      BY <3>2, <2>1, <2>5, <2>7 DEF FullyClosed, LinesOf
    <3>3. QED
      BY <3>1, <3>2
  <2>9. LineOK(RefreshLineTotals(line[l], l, alloc'), l, alloc', state)
    <3> HIDE DEF state
    <3>1. QED
      BY <1>0, <1>1, <1>2, <2>1, <2>6, <2>8, RefreshedLineOK
  <2>10. QED
    BY <2>1, <2>9 DEF LineAfter
<1>5. CASE l \notin ls
  <2>1. line'[l] = line[l]
    BY <1>0, <1>5 DEF RefreshLines
  <2>2. ASSUME NEW b \in AllocationsFor(l) PROVE alloc'[b] = alloc[b]
    <3>1. b \in AllocationIds /\ alloc[b] \in Allocation
          /\ alloc[b].picked <= alloc[b].quantity
      BY DEF AllocationsFor, RowsInv, AllocationWithinQuantity, RowsTypeOK, RequestTypeOK
    <3>2. RequestOfAllocation(b) = r => ~Exists(b)
      BY <1>5, <3>1 DEF AllocationsFor, AllocationsOf
    <3>3. ~ \E p \in Positions : b \in Issuing(r, p)
      BY <3>1, <3>2 DEF Issuing, AllocationsOf, Exists, Allocation
    <3>4. QED
      BY <3>1, <3>3 DEF HandedOff
  <2>3. RequestOf[l] = r /\ state \in ClosedStates /\ state # was =>
          line[l].requested <= line[l].issued + line[l].cancelled
    <3> SUFFICES ASSUME RequestOf[l] = r, FullyClosed(r, line')
                 PROVE  line[l].requested <= line[l].issued + line[l].cancelled
      OBVIOUS
    <3>1. line[l].issued + line[l].cancelled >= line[l].requested
      BY <2>1 DEF FullyClosed, LinesOf
    <3>2. QED
      BY <1>1, <3>1 DEF RequestLine
  <2>4. QED
    BY <1>2, <2>1, <2>2, <2>3, LineKept
<1>6. QED
  BY <1>4, <1>5

\* A hand-off issues what was picked and releases the rest.
LEMMA HandoffLines ==
  ASSUME RowsInv, RowsInv', DemandInv, NEW u \in Workers, NEW r \in RequestIds,
         Handoff(u, r), NEW l \in LineIds
  PROVE  LineAfter(l)
<1>1. /\ alloc' = HandedOff(r) /\ line' = HandedOffLines(r)
      /\ request[r].state = "ready"
  BY DEF Handoff, IssuePicked
<1>2. PICK state \in {"completed", "partially_fulfilled"} :
        /\ request' = [request EXCEPT ![r] = Moved(request[r], state, NoWorker)]
        /\ state = "completed" => FullyClosed(r, line')
  BY <1>1 DEF Handoff
<1>3. /\ request[r].state \notin Unsent /\ state \notin Unsent
      /\ state \in ClosedStates => FullyClosed(r, line')
  BY <1>1, <1>2 DEF Unsent, ClosedStates
<1>4. MovesTo(r, state)
  BY <1>2 DEF MovesTo
<1>5. request'[RequestOf[l]].state =
        IF RequestOf[l] = r THEN state ELSE request[RequestOf[l]].state
  BY <1>4, StatesMoved
<1>6. \/ request'[RequestOf[l]].state = request[RequestOf[l]].state
      \/ /\ RequestOf[l] = r
         /\ request'[RequestOf[l]].state \notin Unsent
         /\ request'[RequestOf[l]].state \in ClosedStates => FullyClosed(r, line')
  BY <1>3, <1>5
<1>7. QED
  BY <1>1, <1>3, <1>6, IssueLines

\* A cancellation leaves nothing reserved and cancels what was not issued.
LEMMA CancelLines ==
  ASSUME RowsInv, RowsInv', DemandInv, NEW r \in RequestIds, Cancel(r),
         NEW l \in LineIds
  PROVE  LineAfter(l)
<1> DEFINE dropped == [line[l] EXCEPT !.cancelled = line[l].requested - line[l].issued]
<1>0. /\ RowsTypeOK /\ AllocationWithinQuantity
      /\ alloc \in BoundedRows /\ alloc' \in BoundedRows
      /\ alloc' = Cancelled(r)
      /\ request' = [request EXCEPT ![r] = Moved(request[r], "cancelled", NoWorker)]
      /\ line'[l] = IF RequestOf[l] = r
                    THEN RefreshLineTotals(dropped, l, alloc') ELSE line[l]
      /\ request[r].state \notin {"absent"} \union ClosedStates
  BY RowsAreBounded, RowsStayBounded DEF RowsInv, Cancel, ClosedStates
<1>1. request'[RequestOf[l]].state =
        IF RequestOf[l] = r THEN "cancelled" ELSE request[RequestOf[l]].state
  <2>1. MovesTo(r, "cancelled")
    BY <1>0 DEF MovesTo
  <2>2. QED
    BY <2>1, StatesMoved
<1>2. CASE RequestOf[l] # r
  <2>1. \A a \in AllocationsFor(l) : alloc'[a] = alloc[a]
    BY <1>0, <1>2 DEF Cancelled, AllocationsFor, RequestOfAllocation
  <2>2. QED
    BY <1>0, <1>1, <1>2, <2>1, LineKept
<1>3. CASE RequestOf[l] = r
  <2>0. LineOK(line[l], l, alloc, request[r].state) /\ line[l] \in RequestLine
    BY <1>3, LineBefore
  <2>1. \A a \in AllocationsFor(l) :
          /\ alloc'[a].issued = alloc[a].issued
          /\ alloc'[a].released = alloc[a].quantity - alloc[a].issued
          /\ alloc'[a].quantity = alloc[a].quantity
    <3>1. \A a \in AllocationsFor(l) : a \in AllocationIds /\ RequestOfAllocation(a) = r
      BY <1>3 DEF AllocationsFor, RequestOfAllocation
    <3>2. QED
      BY <1>0, <3>1, CancelledRow
  <2>2. SumFor(Issues(alloc'), l) = SumFor(Issues(alloc), l)
    <3>1. \A a \in AllocationsFor(l) :
            Issues(alloc)[a] \in Int /\ Issues(alloc')[a] = Issues(alloc)[a]
      BY <1>0, <2>1, SomeAllocations, RowColumns DEF Issues
    <3>2. QED
      BY <3>1, SomeAllocations, SumSame DEF SumFor
  <2>3. SumFor(Held(alloc'), l) = SumFor(Issues(alloc'), l)
    <3>1. \A a \in AllocationsFor(l) : alloc[a] \in Allocation
      BY <1>0, SomeAllocations DEF BoundedRows
    <3>2. \A a \in AllocationsFor(l) :
            alloc'[a].quantity - alloc'[a].released = alloc'[a].issued
      BY <2>1, <3>1 DEF Allocation
    <3>3. \A a \in AllocationsFor(l) :
            Issues(alloc')[a] \in Int /\ Held(alloc')[a] = Issues(alloc')[a]
      BY <1>0, <3>2, SomeAllocations, RowColumns DEF Held, Issues
    <3>4. QED
      BY <3>3, SomeAllocations, SumSame DEF SumFor
  <2>4. /\ line[l].issued = SumFor(Issues(alloc'), l)
        /\ line[l].issued <= line[l].requested
    <3>1. CASE request[r].state = "draft"
      <4>1. line[l].issued = 0
        BY <2>0, <3>1 DEF LineOK, Unsent, NoLine
      <4>2. \A a \in AllocationsFor(l) : Issues(alloc)[a] = 0
        <5>1. \A a \in AllocationsFor(l) :
                /\ a \in AllocationIds /\ RequestOfAllocation(a) = r
                /\ alloc[a] \in Allocation
                /\ alloc[a].issued + alloc[a].released <= alloc[a].quantity
          BY <1>0, <1>3, SomeAllocations
          DEF AllocationsFor, RequestOfAllocation, BoundedRows
        <5>2. \A a \in AllocationsFor(l) : alloc[a].quantity = 0
          BY <3>1, <5>1 DEF RowsInv, Unsent
        <5>3. QED
          BY <5>1, <5>2 DEF Issues, Allocation
      <4>3. SumFor(Issues(alloc), l) = 0
        BY <4>2, SomeAllocations, SumZero DEF SumFor
      <4>4. QED
        BY <2>0, <2>2, <4>1, <4>3 DEF RequestLine
    <3>2. CASE request[r].state # "draft"
      <4>1. request[r].state \notin Unsent
        BY <1>0, <3>2 DEF Unsent
      <4>2. /\ line[l].issued = SumFor(Issues(alloc), l)
            /\ line[l].cancelled + SumFor(Held(alloc), l) <= line[l].requested
        BY <1>0, <2>0, <4>1, SentLine
      <4>3. /\ SumFor(Held(alloc), l) = SumFor(Issues(alloc), l) + SumFor(Opens(alloc), l)
            /\ SumFor(Opens(alloc), l) \in Nat /\ SumFor(Issues(alloc), l) \in Nat
            /\ line[l].cancelled \in Nat /\ line[l].requested \in Nat
        BY <1>0, <2>0, SumsForLine DEF RequestLine
      <4>4. line[l].issued <= line[l].requested
        BY <4>2, <4>3
      <4>5. QED
        BY <2>2, <4>2, <4>4
    <3>3. QED
      BY <3>1, <3>2
  <2>5. /\ dropped \in RequestLine
        /\ dropped.requested = line[l].requested
        /\ dropped.cancelled = line[l].requested - line[l].issued
        /\ line[l].requested \in Nat /\ line[l].issued \in Nat
    BY <2>0, <2>4 DEF RequestLine
  <2> HIDE DEF dropped
  <2>6. /\ dropped.cancelled + SumFor(Held(alloc'), l) <= dropped.requested
        /\ dropped.requested <= SumFor(Issues(alloc'), l) + dropped.cancelled
    BY <2>3, <2>4, <2>5
  <2>7. LineOK(RefreshLineTotals(dropped, l, alloc'), l, alloc', "cancelled")
    BY <1>0, <2>5, <2>6, RefreshedLineOK DEF Unsent
  <2>8. line'[l] = RefreshLineTotals(dropped, l, alloc')
    BY <1>0, <1>3
  <2>9. QED
    BY <1>1, <1>3, <2>7, <2>8 DEF LineAfter
<1>4. QED
  BY <1>2, <1>3

\* A transfer takes from one allocation what it gives to another, as to what
\* they hold and to what they reserve.
LEMMA TransferSums ==
  ASSUME RowsInv, RowsInv', NEW source \in AllocationIds, NEW new \in AllocationIds,
         NEW q \in Quantities, TransferStep(source, new, q),
         NEW A \in SUBSET AllocationIds
  PROVE  /\ SumFunctionOnSet(Held(alloc'), A) = SumFunctionOnSet(Held(alloc), A)
              - (IF source \in A THEN q ELSE 0) + (IF new \in A THEN q ELSE 0)
         /\ SumFunctionOnSet(Opens(alloc'), A) = SumFunctionOnSet(Opens(alloc), A)
              - (IF source \in A THEN q ELSE 0) + (IF new \in A THEN q ELSE 0)
         /\ \A a \in AllocationIds \ {source, new} : alloc'[a] = alloc[a]
<1>1. /\ alloc \in [AllocationIds -> Allocation]
      /\ alloc \in BoundedRows /\ alloc' \in BoundedRows
      /\ alloc[source] \in Allocation /\ alloc[new] \in Allocation
      /\ q \in Nat /\ source # new
  BY RowsAreBounded, RowsStayBounded
  DEF RowsInv, RowsTypeOK, RequestTypeOK, TransferStep, Transfer
<1>2. alloc[new].quantity = 0 /\ alloc[new].issued = 0 /\ alloc[new].released = 0
  BY <1>1 DEF TransferStep, Transfer, Exists, BoundedRows, Allocation
<1>3. /\ alloc'[source] = Release(alloc[source], q)
      /\ alloc'[new] = NewAllocation(q)
      /\ \A a \in AllocationIds \ {source, new} : alloc'[a] = alloc[a]
  BY <1>1 DEF TransferStep, Transfer
<1>4. /\ Held(alloc')[source] = Held(alloc)[source] - q
      /\ Opens(alloc')[source] = Opens(alloc)[source] - q
  <2>1. /\ alloc'[source].quantity = alloc[source].quantity
        /\ alloc'[source].issued = alloc[source].issued
        /\ alloc'[source].released = alloc[source].released + q
    BY <1>1, <1>3, ReleaseType
  <2>2. QED
    BY <1>1, <2>1 DEF Held, Opens, Open, Allocation
<1>5. /\ Held(alloc')[new] = Held(alloc)[new] + q
      /\ Opens(alloc')[new] = Opens(alloc)[new] + q
  <2>1. alloc'[new].quantity = q /\ alloc'[new].issued = 0 /\ alloc'[new].released = 0
    BY <1>3 DEF NewAllocation, NoAllocation
  <2>2. QED
    BY <1>1, <1>2, <2>1 DEF Held, Opens, Open
<1>6. \A a \in AllocationIds \ {source, new} :
        Held(alloc')[a] = Held(alloc)[a] /\ Opens(alloc')[a] = Opens(alloc)[a]
  BY <1>3 DEF Held, Opens
<1>7. /\ IsFiniteSet(A)
      /\ \A a \in A : /\ Held(alloc)[a] \in Int /\ Held(alloc')[a] \in Int
                      /\ Opens(alloc)[a] \in Int /\ Opens(alloc')[a] \in Int
  BY <1>1, AllocationIdsFinite, FS_Subset, RowColumns
<1>8. SumFunctionOnSet(Held(alloc'), A) = SumFunctionOnSet(Held(alloc), A)
        - (IF source \in A THEN q ELSE 0) + (IF new \in A THEN q ELSE 0)
  BY <1>1, <1>4, <1>5, <1>6, <1>7, SumTransfer
<1>9. SumFunctionOnSet(Opens(alloc'), A) = SumFunctionOnSet(Opens(alloc), A)
        - (IF source \in A THEN q ELSE 0) + (IF new \in A THEN q ELSE 0)
  BY <1>1, <1>4, <1>5, <1>6, <1>7, SumTransfer
<1>10. QED
  BY <1>3, <1>8, <1>9

\* Bumping a version leaves the states.
LEMMA StatesKept ==
  ASSUME \A s \in RequestIds :
           request'[s] = request[s] \/ request'[s] = Bumped(request[s]),
         NEW l \in LineIds
  PROVE  request'[RequestOf[l]].state = request[RequestOf[l]].state
<1>1. RequestOf[l] \in RequestIds
  OBVIOUS
<1>2. \A s : Bumped(request[s]).state = request[s].state
  BY DEF Bumped, Moved
<1>3. QED
  BY <1>1, <1>2

\* A reallocation takes from one line what another is owed.
LEMMA ReallocateLines ==
  ASSUME RowsInv, RowsInv', DemandInv, NEW source \in AllocationIds, NEW new \in AllocationIds,
         NEW q \in Quantities, Reallocate(source, new, q), NEW l \in LineIds
  PROVE  LineAfter(l)
<1> DEFINE touched == {LineOf(source), LineOf(new)}
           r == RequestOfAllocation(source)
           t == RequestOfAllocation(new)
<1>0. /\ alloc \in BoundedRows /\ alloc' \in BoundedRows
      /\ TransferStep(source, new, q)
      /\ LineOf(source) # LineOf(new)
      /\ alloc' = Transfer(source, new, q)
      /\ line' = RefreshLines(alloc', touched)
      /\ q \in Nat /\ q <= line[LineOf(new)].backordered
      /\ LineOf(source) \in LineIds /\ LineOf(new) \in LineIds
  BY RowsAreBounded, RowsStayBounded, AllocationIdParts
  DEF Reallocate, TransferStep, Transfer, IsNextId, RequestOfAllocation
<1>1. request'[RequestOf[l]].state = request[RequestOf[l]].state
  <2>1. /\ r \in RequestIds /\ t \in RequestIds
        /\ request' = [request EXCEPT ![r] = Bumped(request[r]), ![t] = Bumped(request[t])]
        /\ request \in [RequestIds -> MaterialRequest]
    BY AllocationIdParts DEF Reallocate, RowsInv, RowsTypeOK, RequestTypeOK
  <2>2. \A s \in RequestIds :
          request'[s] = request[s] \/ request'[s] = Bumped(request[s])
    BY <2>1
  <2>3. QED
    BY <2>2, StatesKept
<1>2. /\ request[r].state \notin Unsent /\ request[t].state \notin Unsent
      /\ request[r].state \notin ClosedStates /\ request[t].state \notin ClosedStates
      /\ r = RequestOf[LineOf(source)] /\ t = RequestOf[LineOf(new)]
  BY DEF Reallocate, ReallocatableStates, Unsent, ClosedStates, RequestOfAllocation
<1>3. /\ LineOK(line[l], l, alloc, request[RequestOf[l]].state)
      /\ line[l] \in RequestLine
  BY LineBefore
<1>4. /\ SumFor(Held(alloc'), LineOf(source)) <= SumFor(Held(alloc), LineOf(source))
      /\ SumFor(Held(alloc'), LineOf(new)) = SumFor(Held(alloc), LineOf(new)) + q
      /\ \A a \in AllocationIds \ {source, new} : alloc'[a] = alloc[a]
  <2>1. /\ source \in AllocationsFor(LineOf(source)) /\ new \notin AllocationsFor(LineOf(source))
        /\ new \in AllocationsFor(LineOf(new)) /\ source \notin AllocationsFor(LineOf(new))
    BY <1>0 DEF AllocationsFor
  <2>2. /\ SumFor(Held(alloc), LineOf(source)) \in Nat
        /\ SumFor(Held(alloc), LineOf(new)) \in Nat
    BY <1>0, SumsForLine
  <2>3. /\ SumFor(Held(alloc'), LineOf(source)) = SumFor(Held(alloc), LineOf(source)) - q + 0
        /\ SumFor(Held(alloc'), LineOf(new)) = SumFor(Held(alloc), LineOf(new)) - 0 + q
        /\ \A a \in AllocationIds \ {source, new} : alloc'[a] = alloc[a]
    BY <1>0, <2>1, SomeAllocations, TransferSums DEF SumFor
  <2>4. QED
    BY <1>0, <2>2, <2>3
<1>5. CASE l \in touched
  <2>1. line'[l] = RefreshLineTotals(line[l], l, alloc')
    BY <1>0, <1>5 DEF RefreshLines
  <2>2. request[RequestOf[l]].state \notin Unsent \union ClosedStates
    BY <1>2, <1>5
  <2>3. /\ line[l].backordered = line[l].requested - line[l].cancelled - SumFor(Held(alloc), l)
        /\ line[l].cancelled + SumFor(Held(alloc), l) <= line[l].requested
    BY <1>0, <1>3, <2>2, SentLine
  <2>4. /\ line[l].cancelled \in Nat /\ line[l].requested \in Nat
        /\ SumFor(Held(alloc), l) \in Nat /\ SumFor(Held(alloc'), l) \in Nat
    BY <1>0, <1>3, SumsForLine DEF RequestLine
  <2>5. line[l].cancelled + SumFor(Held(alloc'), l) <= line[l].requested
    <3>1. CASE l = LineOf(source)
      BY <1>4, <2>3, <2>4, <3>1
    <3>2. CASE l = LineOf(new)
      BY <1>0, <1>4, <2>3, <2>4, <3>2
    <3>3. QED
      BY <1>5, <3>1, <3>2
  <2>6. LineOK(RefreshLineTotals(line[l], l, alloc'), l, alloc', request[RequestOf[l]].state)
    BY <1>0, <1>3, <2>2, <2>5, RefreshedLineOK
  <2>7. QED
    BY <1>1, <2>1, <2>6 DEF LineAfter
<1>6. CASE l \notin touched
  <2>1. line'[l] = line[l]
    BY <1>0, <1>6 DEF RefreshLines
  <2>2. \A a \in AllocationsFor(l) : alloc'[a] = alloc[a]
    BY <1>4, <1>6 DEF AllocationsFor
  <2>3. QED
    BY <1>1, <2>1, <2>2, LineKept
<1>7. QED
  BY <1>5, <1>6

\* A substitution releases and allocates the same quantity for one line.
LEMMA SubstituteLines ==
  ASSUME RowsInv, RowsInv', DemandInv, NEW u \in Workers,
         NEW source \in AllocationIds, NEW new \in AllocationIds,
         NEW q \in Quantities, Substitute(u, source, new, q), NEW l \in LineIds
  PROVE  LineAfter(l)
<1> DEFINE r == RequestOfAllocation(source)
<1>0. /\ alloc \in BoundedRows /\ alloc' \in BoundedRows
      /\ TransferStep(source, new, q)
      /\ LineOf(source) = LineOf(new)
      /\ alloc' = Transfer(source, new, q)
      /\ line' = RefreshLines(alloc', {LineOf(source)})
      /\ LineOf(source) \in LineIds /\ r \in RequestIds
      /\ request[r].claimedBy # NoWorker
  BY RowsAreBounded, RowsStayBounded, AllocationIdParts
  DEF Substitute, TransferStep, Transfer, IsNextId
<1>1. request'[RequestOf[l]].state = request[RequestOf[l]].state
  <2>1. /\ request' = [request EXCEPT ![r] = Bumped(request[r])]
        /\ request \in [RequestIds -> MaterialRequest]
    BY DEF Substitute, RowsInv, RowsTypeOK, RequestTypeOK
  <2>2. \A s \in RequestIds :
          request'[s] = request[s] \/ request'[s] = Bumped(request[s])
    BY <1>0, <2>1
  <2>3. QED
    BY <2>2, StatesKept
<1>2. request[r].state \notin Unsent /\ request[r].state \notin ClosedStates
  BY <1>0 DEF RowsInv
<1>3. /\ LineOK(line[l], l, alloc, request[RequestOf[l]].state)
      /\ line[l] \in RequestLine
  BY LineBefore
<1>4. /\ SumFor(Held(alloc'), LineOf(source)) = SumFor(Held(alloc), LineOf(source))
      /\ \A a \in AllocationIds \ {source, new} : alloc'[a] = alloc[a]
  <2>1. source \in AllocationsFor(LineOf(source)) /\ new \in AllocationsFor(LineOf(source))
    BY <1>0 DEF AllocationsFor
  <2>2. SumFor(Held(alloc), LineOf(source)) \in Nat /\ q \in Nat
    BY <1>0, SumsForLine
  <2>3. /\ SumFor(Held(alloc'), LineOf(source)) = SumFor(Held(alloc), LineOf(source)) - q + q
        /\ \A a \in AllocationIds \ {source, new} : alloc'[a] = alloc[a]
    BY <1>0, <2>1, SomeAllocations, TransferSums DEF SumFor
  <2>4. QED
    BY <2>2, <2>3
<1>5. CASE l = LineOf(source)
  <2>1. line'[l] = RefreshLineTotals(line[l], l, alloc')
    BY <1>0, <1>5 DEF RefreshLines
  <2>2. request[RequestOf[l]].state \notin Unsent \union ClosedStates
    BY <1>2, <1>5 DEF RequestOfAllocation
  <2>3. line[l].cancelled + SumFor(Held(alloc'), l) <= line[l].requested
    BY <1>3, <1>4, <1>5, <2>2 DEF LineOK
  <2>4. LineOK(RefreshLineTotals(line[l], l, alloc'), l, alloc', request[RequestOf[l]].state)
    BY <1>0, <1>3, <2>2, <2>3, RefreshedLineOK
  <2>5. QED
    BY <1>1, <2>1, <2>4 DEF LineAfter
<1>6. CASE l # LineOf(source)
  <2>1. line'[l] = line[l]
    BY <1>0, <1>6 DEF RefreshLines
  <2>2. \A a \in AllocationsFor(l) : alloc'[a] = alloc[a]
    BY <1>0, <1>4, <1>6 DEF AllocationsFor
  <2>3. QED
    BY <1>1, <2>1, <2>2, LineKept
<1>7. QED
  BY <1>5, <1>6

-----------------------------------------------------------------------------
(***************************************************************************)
(* Submission                                                              *)
(***************************************************************************)

\* What the greedy loops gave to each line at each position, and where a step
\* that submits request r put it.
Submission(r, demand, rank, fill) ==
  /\ DOMAIN demand \subseteq LinesOf(r)
  /\ \A l \in DOMAIN demand : demand[l] \in Nat
  /\ rank \in ServingOrders(DOMAIN demand)
  /\ fill \in [Servable(DOMAIN demand) -> Nat]
  /\ IsGreedyFill(fill, demand, rank)
  /\ \A a \in AllocationIds :
       LET s == <<LineOf(a), PositionOf(a)>>
       IN  alloc'[a] = IF a[3] = 1 /\ s \in Servable(DOMAIN demand) /\ fill[s] > 0
                       THEN NewAllocation(fill[s]) ELSE alloc[a]
  /\ \A l \in LineIds :
       LET given == SumFunctionOnSet(fill, {s \in Servable(DOMAIN demand) : s[1] = l})
       IN  line'[l] = IF l \in DOMAIN demand
                      THEN [NoLine EXCEPT !.requested = demand[l],
                                          !.allocated = given,
                                          !.backordered = demand[l] - given]
                      ELSE line[l]
  /\ \A s \in RequestIds :
       request'[s].state = IF s = r THEN "submitted" ELSE request[s].state

\* Submitted gives an order of the lines and a fill by the two loops.
LEMMA SubmittedSubmission ==
  ASSUME RowsInv, NEW r \in RequestIds, NEW demand, NEW version,
         DOMAIN demand \subseteq LinesOf(r),
         \A l \in DOMAIN demand : demand[l] \in Nat,
         Submitted(r, demand, version)
  PROVE  \E rank, fill : Submission(r, demand, rank, fill)
<1> DEFINE ls == DOMAIN demand
<1>1. PICK rank \in ServingOrders(ls), fill \in [Servable(ls) -> Amounts] :
        /\ IsGreedyFill(fill, demand, rank)
        /\ alloc' = [a \in AllocationIds |->
                       LET s == <<LineOf(a), PositionOf(a)>>
                       IN  IF a[3] = 1 /\ s \in Servable(ls) /\ fill[s] > 0
                           THEN NewAllocation(fill[s])
                           ELSE alloc[a]]
        /\ line' = [l \in LineIds |->
                      IF l \in ls
                      THEN LET given == SumFunctionOnSet(fill, {s \in Servable(ls) : s[1] = l})
                           IN  [NoLine EXCEPT !.requested = demand[l],
                                              !.allocated = given,
                                              !.backordered = demand[l] - given]
                      ELSE line[l]]
        /\ request' = [request EXCEPT ![r] =
                        [state |-> "submitted", claimedBy |-> request[r].claimedBy,
                         version |-> version]]
  BY DEF Submitted
<1>2. fill \in [Servable(ls) -> Nat]
  BY DEF Amounts
<1>3. \A s \in RequestIds :
        request'[s].state = IF s = r THEN "submitted" ELSE request[s].state
  BY <1>1 DEF RowsInv, RowsTypeOK, RequestTypeOK
<1>4. Submission(r, demand, rank, fill)
  BY <1>1, <1>2, <1>3 DEF Submission
<1>5. QED
  BY <1>4

\* The pairs of lines and positions of their items are finitely many.
LEMMA ServablePairs ==
  ASSUME NEW ls \in SUBSET LineIds
  PROVE  /\ IsFiniteSet(Servable(ls))
         /\ Servable(ls) \subseteq ls \X Positions
<1>1. IsFiniteSet(ls \X Positions)
  BY FS_Subset, FS_Product
<1>2. QED
  BY <1>1, FS_Subset DEF Servable

\* The loops give a line no more than it asks for: the last position that
\* gives it anything gives what the ones before it left open.
LEMMA FillWithinDemand ==
  ASSUME NEW r, NEW demand, NEW rank, NEW fill, Submission(r, demand, rank, fill),
         NEW l \in DOMAIN demand
  PROVE  LET given == SumFunctionOnSet(fill, {s \in Servable(DOMAIN demand) : s[1] = l})
         IN  given \in Nat /\ given <= demand[l]
<1> DEFINE S == {s \in Servable(DOMAIN demand) : s[1] = l}
           order == [s \in S |-> PickRank[s[2]]]
<1>1. /\ DOMAIN demand \in SUBSET LineIds /\ demand[l] \in Nat
      /\ fill \in [Servable(DOMAIN demand) -> Nat]
      /\ IsGreedyFill(fill, demand, rank)
  BY DEF Submission, LinesOf
<1>2. /\ IsFiniteSet(S) /\ \A s \in S : fill[s] \in Nat
      /\ \A s \in S : s[2] \in Positions /\ s = <<l, s[2]>>
  BY <1>1, ServablePairs, FS_Subset
<1>3. \A s \in S : order[s] \in Nat /\ order[s] = PickRank[s[2]]
  BY <1>2
<1>4. \A s, t \in S : order[s] = order[t] => s = t
  BY <1>2, <1>3
<1>5. ASSUME NEW s \in S, fill[s] > 0
      PROVE  fill[s] + SumFunctionOnSet(fill, RankedBefore(S, order, s)) <= demand[l]
  <2> DEFINE before == RankedBefore(S, order, s)
  <2>1. ServedBefore(fill, l, s[2]) = SumFunctionOnSet(fill, before)
    <3>1. before = {t \in DOMAIN fill : t[1] = l /\ PickRank[t[2]] < PickRank[s[2]]}
      BY <1>1 DEF RankedBefore
    <3>2. QED
      BY <3>1 DEF ServedBefore
  <2>2. SumFunctionOnSet(fill, before) \in Nat
    BY <1>2, FS_Subset, SumNat DEF RankedBefore
  <2>3. fill[s] = Smaller(AtLeastZero(Available(s[2]) - GivenBefore(fill, l, s[2], rank)),
                          demand[l] - ServedBefore(fill, l, s[2]))
    BY <1>1 DEF IsGreedyFill
  <2>4. fill[s] <= demand[l] - SumFunctionOnSet(fill, before)
    <3> HIDE DEF S, before
    <3>1. fill[s] \in Nat
      BY <1>2
    <3>2. QED
      BY <1>1, <2>1, <2>2, <2>3, <3>1 DEF Smaller
  <2>5. fill[s] \in Nat
    BY <1>2
  <2> HIDE DEF before, S
  <2>6. QED
    BY <1>1, <2>2, <2>4, <2>5 DEF before
<1>6. SumFunctionOnSet(fill, S) \in Nat
  BY <1>2, SumNat
<1>7. SumFunctionOnSet(fill, S) <= demand[l]
  <2>1. /\ IsFiniteSet(S) /\ demand[l] \in Nat
        /\ \A s \in S : fill[s] \in Nat /\ order[s] \in Nat
        /\ \A s, t \in S : order[s] = order[t] => s = t
        /\ \A s \in S : fill[s] > 0 =>
             fill[s] + SumFunctionOnSet(fill, RankedBefore(S, order, s)) <= demand[l]
    BY <1>1, <1>2, <1>3, <1>4, <1>5
  <2> HIDE DEF S, order
  <2>2. QED
    BY <2>1, SumByRank
<1>8. QED
  BY <1>6, <1>7

\* What a submission adds to each allocation row.
PairOf(a) == <<LineOf(a), PositionOf(a)>>
Gain(demand, fill) ==
  [a \in AllocationIds |->
     IF a[3] = 1 /\ PairOf(a) \in Servable(DOMAIN demand) THEN fill[PairOf(a)] ELSE 0]

\* Summed over the allocations of some pairs, it is what the loops gave them.
LEMMA GainSum ==
  ASSUME NEW r, NEW demand, NEW rank, NEW fill, Submission(r, demand, rank, fill),
         NEW S \in SUBSET Servable(DOMAIN demand), NEW A \in SUBSET AllocationIds,
         \A a \in AllocationIds :
           (a[3] = 1 /\ PairOf(a) \in Servable(DOMAIN demand)) => (a \in A <=> PairOf(a) \in S)
  PROVE  SumFunctionOnSet(Gain(demand, fill), A) = SumFunctionOnSet(fill, S)
<1> DEFINE gain == Gain(demand, fill)
           first == [s \in S |-> <<s[1], s[2], 1>>]
           T == {first[s] : s \in S}
<1>1. /\ DOMAIN demand \in SUBSET LineIds
      /\ fill \in [Servable(DOMAIN demand) -> Nat]
  BY DEF Submission, LinesOf
<1>2. IsFiniteSet(S) /\ S \subseteq LineIds \X Positions
  BY <1>1, ServablePairs, FS_Subset
<1>3. IsFiniteSet(A)
  BY AllocationIdsFinite, FS_Subset
<1>4. \A s \in S : /\ first[s] = <<s[1], s[2], 1>> /\ first[s] \in AllocationIds
                   /\ s = <<s[1], s[2]>> /\ PairOf(first[s]) = s /\ first[s][3] = 1
  BY <1>2 DEF AllocationIds, PairOf, LineOf, PositionOf
<1>5. \A s, t \in S : first[s] = first[t] => s = t
  BY <1>4
<1>6. \A s \in S : fill[s] \in Int /\ gain[first[s]] = fill[s]
  <2>1. \A s \in S : fill[s] \in Int
    BY <1>1
  <2>2. \A s \in S : gain[first[s]] = fill[PairOf(first[s])]
    <3> HIDE DEF first
    <3> QED BY <1>4 DEF Gain
  <2>3. QED
    BY <1>4, <2>1, <2>2
<1>7. T \subseteq A
  BY <1>4
<1>8. \A a \in A : gain[a] \in Int
  BY <1>1 DEF Gain
<1>9. \A a \in A \ T : gain[a] = 0
  <2>1. ASSUME NEW a \in A, a[3] = 1, PairOf(a) \in Servable(DOMAIN demand) PROVE a \in T
    <3>1. PairOf(a) \in S
      BY <2>1
    <3>2. a = first[PairOf(a)]
      BY <2>1, <3>1 DEF AllocationIds, PairOf, LineOf, PositionOf
    <3>3. QED
      BY <3>1, <3>2
  <2>2. QED
    BY <2>1 DEF Gain
<1>10. SumFunctionOnSet(gain, T) = SumFunctionOnSet(fill, S)
  <2>1. T = {first[s] : s \in S}
    OBVIOUS
  <2> HIDE DEF T, first, gain
  <2>2. QED
    BY <1>2, <1>5, <1>6, <2>1, SumImage
<1>11. SumFunctionOnSet(gain, A) = SumFunctionOnSet(gain, T)
  <2> HIDE DEF T, first, gain
  <2> QED BY <1>3, <1>7, <1>8, <1>9, SumSubset
<1>12. QED
  BY <1>10, <1>11

\* Rows of a request that was not submitted are empty.
LEMMA UnsentRowsEmpty ==
  ASSUME RowsInv, NEW a \in AllocationIds,
         request[RequestOfAllocation(a)].state \in Unsent
  PROVE  /\ alloc[a].quantity = 0 /\ alloc[a].picked = 0
         /\ alloc[a].issued = 0 /\ alloc[a].released = 0
<1>1. /\ alloc[a] \in Allocation
      /\ alloc[a].picked <= alloc[a].quantity
      /\ alloc[a].issued + alloc[a].released <= alloc[a].quantity
      /\ alloc[a].quantity = 0
  BY DEF RowsInv, AllocationWithinQuantity, RowsTypeOK, RequestTypeOK
<1>2. QED
  BY <1>1 DEF Allocation

\* A submission adds what it gives, and picks and issues nothing.
LEMMA SubmittedRows ==
  ASSUME RowsInv, RowsInv', NEW r \in RequestIds, request[r].state \in Unsent,
         NEW demand, NEW rank, NEW fill, Submission(r, demand, rank, fill),
         NEW a \in AllocationIds
  PROVE  /\ Gain(demand, fill)[a] \in Nat
         /\ Held(alloc')[a] = Held(alloc)[a] + Gain(demand, fill)[a]
         /\ Opens(alloc')[a] = Opens(alloc)[a] + Gain(demand, fill)[a]
         /\ Picks(alloc')[a] = Picks(alloc)[a]
         /\ Issues(alloc')[a] = Issues(alloc)[a]
         /\ RequestOfAllocation(a) # r => alloc'[a] = alloc[a]
<1> DEFINE s == PairOf(a)
           gives == a[3] = 1 /\ s \in Servable(DOMAIN demand) /\ fill[s] > 0
           gain == Gain(demand, fill)[a]
<1>1. /\ fill \in [Servable(DOMAIN demand) -> Nat]
      /\ DOMAIN demand \subseteq LinesOf(r)
      /\ alloc'[a] = IF gives THEN NewAllocation(fill[s]) ELSE alloc[a]
  BY DEF Submission, PairOf
<1>2. gain \in Nat /\ (gives => gain = fill[s]) /\ (~gives => gain = 0)
  BY <1>1 DEF Gain
<1>3. alloc \in BoundedRows
  BY RowsAreBounded
<1>4. CASE gives
  <2>1. RequestOfAllocation(a) = r
    BY <1>1, <1>4 DEF PairOf, Servable, LinesOf, RequestOfAllocation
  <2>2. /\ alloc[a].quantity = 0 /\ alloc[a].picked = 0
        /\ alloc[a].issued = 0 /\ alloc[a].released = 0
    BY <2>1, UnsentRowsEmpty
  <2>3. /\ alloc'[a].quantity = gain /\ alloc'[a].picked = 0
        /\ alloc'[a].issued = 0 /\ alloc'[a].released = 0
    BY <1>1, <1>2, <1>4 DEF NewAllocation, NoAllocation
  <2>4. QED
    BY <1>2, <2>1, <2>2, <2>3 DEF Held, Opens, Picks, Issues, Open
<1>5. CASE ~gives
  <2>1. alloc'[a] = alloc[a] /\ gain = 0
    BY <1>1, <1>2, <1>5
  <2>2. /\ Held(alloc')[a] = Held(alloc)[a] /\ Opens(alloc')[a] = Opens(alloc)[a]
        /\ Picks(alloc')[a] = Picks(alloc)[a] /\ Issues(alloc')[a] = Issues(alloc)[a]
    BY <2>1 DEF Held, Opens, Picks, Issues
  <2>3. Held(alloc)[a] \in Nat /\ Opens(alloc)[a] \in Nat
    BY <1>3, RowColumns
  <2> HIDE DEF gain
  <2>4. QED
    BY <2>1, <2>2, <2>3 DEF gain
<1>6. QED
  BY <1>4, <1>5

\* The lines of the request it submits, those nothing is asked on included.
LEMMA SubmittedLines ==
  ASSUME RowsInv, RowsInv', DemandInv, NEW r \in RequestIds,
         request[r].state \in Unsent,
         NEW demand, NEW rank, NEW fill, Submission(r, demand, rank, fill),
         \A m \in LinesOf(r) \ DOMAIN demand : line[m].requested = 0,
         NEW l \in LineIds
  PROVE  LineAfter(l)
<1>0. /\ alloc \in BoundedRows /\ alloc' \in BoundedRows
      /\ DOMAIN demand \subseteq LinesOf(r)
      /\ request'[RequestOf[l]].state =
           IF RequestOf[l] = r THEN "submitted" ELSE request[RequestOf[l]].state
  BY RowsAreBounded, RowsStayBounded DEF Submission
<1>1. CASE RequestOf[l] # r
  <2>1. line'[l] = line[l]
    BY <1>0, <1>1 DEF Submission, LinesOf
  <2>2. \A a \in AllocationsFor(l) : alloc'[a] = alloc[a]
    BY <1>1, SubmittedRows DEF AllocationsFor, RequestOfAllocation
  <2>3. QED
    BY <1>0, <1>1, <2>1, <2>2, LineKept
<1>2. CASE RequestOf[l] = r
  <2> DEFINE S == {s \in Servable(DOMAIN demand) : s[1] = l}
             given == SumFunctionOnSet(fill, S)
             asked == IF l \in DOMAIN demand THEN demand[l] ELSE 0
  <2>1. /\ asked \in Nat /\ given \in Nat /\ given <= asked
        /\ line'[l] = [requested |-> asked, allocated |-> given, picked |-> 0,
                       issued |-> 0, cancelled |-> 0, backordered |-> asked - given]
    <3>1. CASE l \in DOMAIN demand
      <4>1. asked = demand[l] /\ asked \in Nat
        BY <3>1 DEF Submission
      <4>2. given \in Nat /\ given <= asked
        BY <3>1, <4>1, FillWithinDemand
      <4>3. line'[l] = [NoLine EXCEPT !.requested = demand[l], !.allocated = given,
                                      !.backordered = demand[l] - given]
        BY <3>1 DEF Submission
      <4> HIDE DEF given, asked
      <4>4. QED
        BY <4>1, <4>2, <4>3 DEF NoLine
    <3>2. CASE l \notin DOMAIN demand
      <4>1. S = {}
        BY <1>0, <3>2, ServablePairs DEF LinesOf, Servable
      <4>2. given = 0
        BY <4>1, SumEmpty
      <4>3. line'[l] = line[l] /\ line[l].requested = 0
        BY <1>2, <3>2 DEF Submission, LinesOf
      <4>4. line[l] = [NoLine EXCEPT !.requested = line[l].requested]
        BY <1>2, LineBefore DEF LineOK
      <4>5. asked = 0
        BY <3>2
      <4> HIDE DEF given, asked
      <4>6. QED
        BY <4>2, <4>3, <4>4, <4>5 DEF NoLine
    <3>3. QED
      BY <3>1, <3>2
  <2>2. \A a \in AllocationsFor(l) :
          /\ a \in AllocationIds
          /\ Held(alloc)[a] = 0 /\ Picks(alloc')[a] = 0 /\ Issues(alloc')[a] = 0
    <3>1. ASSUME NEW a \in AllocationsFor(l)
          PROVE  /\ a \in AllocationIds
                 /\ Held(alloc)[a] = 0 /\ Picks(alloc')[a] = 0 /\ Issues(alloc')[a] = 0
      <4>1. a \in AllocationIds /\ RequestOfAllocation(a) = r
        BY <1>2 DEF AllocationsFor, RequestOfAllocation
      <4>2. Held(alloc)[a] = 0 /\ Picks(alloc)[a] = 0 /\ Issues(alloc)[a] = 0
        BY <4>1, UnsentRowsEmpty DEF Held, Picks, Issues
      <4>3. QED
        BY <4>1, <4>2, SubmittedRows
    <3>2. QED
      BY <3>1
  <2>3. SumFor(Held(alloc'), l) = given
    <3>1. \A a \in AllocationsFor(l) :
            Gain(demand, fill)[a] \in Int /\ Held(alloc')[a] = Gain(demand, fill)[a]
      BY <2>2, SubmittedRows
    <3>2. SumFor(Held(alloc'), l) = SumFunctionOnSet(Gain(demand, fill), AllocationsFor(l))
      BY <3>1, SomeAllocations, SumSame DEF SumFor
    <3>3. \A a \in AllocationIds :
            (a[3] = 1 /\ PairOf(a) \in Servable(DOMAIN demand)) =>
              (a \in AllocationsFor(l) <=> PairOf(a) \in S)
      BY DEF AllocationsFor, PairOf
    <3>4. S \in SUBSET Servable(DOMAIN demand)
      OBVIOUS
    <3> HIDE DEF S
    <3>5. QED
      BY <3>2, <3>3, <3>4, SomeAllocations, GainSum
  <2>4. SumFor(Picks(alloc'), l) = 0 /\ SumFor(Issues(alloc'), l) = 0
    BY <2>2, SomeAllocations, SumZero DEF SumFor
  <2> HIDE DEF given, asked
  <2>5. line'[l] \in RequestLine /\ line'[l].requested = asked /\ line'[l].cancelled = 0
    BY <2>1 DEF RequestLine
  <2>6. RefreshLineTotals(line'[l], l, alloc') =
          [requested |-> asked, allocated |-> given, picked |-> 0, issued |-> 0,
           cancelled |-> 0, backordered |-> AtLeastZero(asked - 0 - given)]
    BY <1>0, <2>3, <2>4, <2>5, RefreshedRow
  <2>7. line'[l] = RefreshLineTotals(line'[l], l, alloc')
    BY <2>1, <2>6 DEF AtLeastZero
  <2>8. line'[l].cancelled + SumFor(Held(alloc'), l) <= line'[l].requested
    BY <2>1, <2>3, <2>5
  <2>9. QED
    BY <1>0, <1>2, <2>5, <2>7, <2>8 DEF LineAfter, LineOK, Unsent, ClosedStates
<1>3. QED
  BY <1>1, <1>2

\* The two actions that submit a request.
LEMMA SubmitStep ==
  ASSUME RowsInv, DemandInv, NEW r \in RequestIds,
         Submit(r) \/ \E demand \in Demands(r) : CreateAndSubmit(r, demand)
  PROVE  /\ request[r].state \in Unsent
         /\ UNCHANGED stockVars
         /\ \E demand, rank, fill :
              /\ Submission(r, demand, rank, fill)
              /\ \A m \in LinesOf(r) \ DOMAIN demand : line[m].requested = 0
<1>1. CASE Submit(r)
  <2> DEFINE demand == [l \in {m \in LinesOf(r) : HasLine(m)} |-> line[l].requested]
  <2>1. request[r].state = "draft" /\ Submitted(r, demand, request[r].version + 1)
    BY <1>1 DEF Submit
  <2>2. \A l \in LineIds : line[l].requested \in Nat
    BY LineBefore DEF RequestLine
  <2>3. /\ DOMAIN demand \subseteq LinesOf(r)
        /\ \A l \in DOMAIN demand : demand[l] \in Nat
    BY <2>2 DEF LinesOf
  <2>4. \A m \in LinesOf(r) \ DOMAIN demand : line[m].requested = 0
    BY <2>2 DEF LinesOf, HasLine
  <2> HIDE DEF demand
  <2>5. \E rank, fill : Submission(r, demand, rank, fill)
    BY <2>1, <2>3, SubmittedSubmission
  <2>6. UNCHANGED stockVars /\ request[r].state \in Unsent
    BY <1>1, <2>1 DEF Submit, Unsent
  <2>7. QED
    BY <2>4, <2>5, <2>6
<1>2. CASE \E demand \in Demands(r) : CreateAndSubmit(r, demand)
  <2>1. PICK demand \in Demands(r) : CreateAndSubmit(r, demand)
    BY <1>2
  <2>2. PICK ls \in (SUBSET LinesOf(r)) \ {{}} : demand \in [ls -> Quantities]
    BY DEF Demands
  <2>3. /\ DOMAIN demand \subseteq LinesOf(r)
        /\ \A l \in DOMAIN demand : demand[l] \in Nat
    BY <2>2
  <2>4. /\ request[r].state = "absent" /\ Submitted(r, demand, 2)
        /\ UNCHANGED stockVars
    BY <2>1 DEF CreateAndSubmit
  <2>5. \A m \in LinesOf(r) \ DOMAIN demand : line[m].requested = 0
    BY <2>4, LineBefore DEF LinesOf, LineOK
  <2>6. \E rank, fill : Submission(r, demand, rank, fill)
    BY <2>3, <2>4, SubmittedSubmission
  <2>7. QED
    BY <2>4, <2>5, <2>6 DEF Unsent
<1>3. QED
  BY <1>1, <1>2

-----------------------------------------------------------------------------
(***************************************************************************)
(* What holds of the lines                                                 *)
(***************************************************************************)
\* Every action writes line rows only.
LEMMA LinesAreRows ==
  ASSUME DemandInv, [RequestNext]_vars
  PROVE  line' = [l \in LineIds |-> line'[l]]
<1>1. ASSUME NEW r, NEW demand, NEW version, Submitted(r, demand, version)
      PROVE  line' = [l \in LineIds |-> line'[l]]
  BY <1>1 DEF Submitted
<1>2. ASSUME NEW rows, NEW ls, line' = RefreshLines(rows, ls)
      PROVE  line' = [l \in LineIds |-> line'[l]]
  BY <1>2 DEF RefreshLines
<1>3. ASSUME NEW r \in RequestIds,
             \/ \E demand \in Demands(r) :
                  CreateDraft(r, demand) \/ CreateAndSubmit(r, demand)
             \/ Submit(r)
      PROVE  line' = [l \in LineIds |-> line'[l]]
  BY <1>1, <1>3 DEF CreateDraft, CreateAndSubmit, Submit
<1>4. ASSUME NEW r \in RequestIds, Cancel(r)
      PROVE  line' = [l \in LineIds |-> line'[l]]
  BY <1>4 DEF Cancel
<1>5. ASSUME NEW r \in RequestIds, NEW u \in Workers, ClaimLocked(u, r) \/ Handoff(u, r)
      PROVE  line' = [l \in LineIds |-> line'[l]]
  BY <1>2, <1>5 DEF ClaimLocked, Handoff, IssuePicked, HandedOffLines, DemandInv
<1>6. ASSUME NEW source, NEW new, NEW q,
             Reallocate(source, new, q) \/ \E u \in Workers : Substitute(u, source, new, q)
      PROVE  line' = [l \in LineIds |-> line'[l]]
  BY <1>2, <1>6 DEF Reallocate, Substitute
<1>7. ASSUME NEW a, NEW u, NEW q, RecordPick(u, a, q)
      PROVE  line' = [l \in LineIds |-> line'[l]]
  BY <1>2, <1>7 DEF RecordPick
<1>8. CASE UNCHANGED vars
  BY <1>8 DEF vars, requestVars, DemandInv
<1>9. QED
  BY <1>3, <1>4, <1>5, <1>6, <1>7, <1>8 DEF RequestNext, Claim, ClaimNext

\* Every step of the workflow keeps the lines.
LEMMA DemandStep ==
  ASSUME RowsInv, RowsInv', DemandInv, [RequestNext]_vars
  PROVE  DemandInv'
<1> SUFFICES ASSUME NEW l \in LineIds PROVE LineAfter(l)
  BY LinesAreRows DEF DemandInv, LineAfter
<1>1. ASSUME NEW r \in RequestIds, NEW demand \in Demands(r), CreateDraft(r, demand)
      PROVE  LineAfter(l)
  BY <1>1, CreateDraftLines
<1>2. ASSUME NEW r \in RequestIds,
             Submit(r) \/ \E demand \in Demands(r) : CreateAndSubmit(r, demand)
      PROVE  LineAfter(l)
  <2>1. PICK demand, rank, fill :
          /\ request[r].state \in Unsent
          /\ Submission(r, demand, rank, fill)
          /\ \A m \in LinesOf(r) \ DOMAIN demand : line[m].requested = 0
    BY <1>2, SubmitStep
  <2>2. QED
    BY <2>1, SubmittedLines
<1>3. ASSUME NEW r \in RequestIds, Cancel(r)
      PROVE  LineAfter(l)
  BY <1>3, CancelLines
<1>4. ASSUME NEW r \in RequestIds, NEW u \in Workers, ClaimLocked(u, r)
      PROVE  LineAfter(l)
  BY <1>4, ClaimLines
<1>5. ASSUME NEW r \in RequestIds, NEW u \in Workers, Handoff(u, r)
      PROVE  LineAfter(l)
  BY <1>5, HandoffLines
<1>6. ASSUME NEW source \in AllocationIds, NEW new \in AllocationIds,
             NEW q \in Quantities, Reallocate(source, new, q)
      PROVE  LineAfter(l)
  BY <1>6, ReallocateLines
<1>7. ASSUME NEW source \in AllocationIds, NEW new \in AllocationIds,
             NEW q \in Quantities, NEW u \in Workers, Substitute(u, source, new, q)
      PROVE  LineAfter(l)
  BY <1>7, SubstituteLines
<1>8. ASSUME NEW a \in AllocationIds, NEW u \in Workers,
             NEW q \in Quantities \union {0}, RecordPick(u, a, q)
      PROVE  LineAfter(l)
  BY <1>8, RecordPickLines
<1>9. CASE UNCHANGED vars
  BY <1>9, LineBefore DEF vars, requestVars, LineAfter
<1>10. QED
  BY <1>1, <1>2, <1>3, <1>4, <1>5, <1>6, <1>7, <1>8, <1>9
  DEF RequestNext, Claim, ClaimNext

\* No line asks for anything initially.
LEMMA InitDemand == Init => DemandInv
<1> SUFFICES ASSUME Init, NEW l \in LineIds
             PROVE  LineOK(line[l], l, alloc, request[RequestOf[l]].state)
  BY DEF DemandInv, Init
<1>1. line[l] = NoLine /\ request[RequestOf[l]].state = "absent"
  BY DEF Init
<1>2. QED
  BY <1>1 DEF LineOK, NoLine, RequestLine, Unsent, ClosedStates

\* The inductive invariant of the lines.
LEMMA DemandInvariant == Spec => [](IInv /\ HistoryOK /\ RowsInv /\ DemandInv)
<1>1. IInv /\ HistoryOK /\ [RequestNext]_vars => (IInv /\ HistoryOK)'
  BY NextIInv, HistoryStep
<1>2. IInv /\ HistoryOK /\ (IInv /\ HistoryOK)' /\ DemandInv /\ [RequestNext]_vars
        => DemandInv'
  <2> SUFFICES ASSUME IInv /\ HistoryOK, (IInv /\ HistoryOK)', DemandInv, [RequestNext]_vars
               PROVE  DemandInv'
    OBVIOUS
  <2>1. RowsInv /\ RowsInv'
    BY InvRows
  <2>2. QED
    BY <2>1, DemandStep
<1>3. QED
  BY <1>1, <1>2, InitDemand, HistoryInvariant, InvRows, PTL DEF Spec

\* It says that totals are current and demand is conserved.
LEMMA DemandMeaning ==
  ASSUME RowsInv, DemandInv
  PROVE  TypeOK /\ LineTotalsAreCurrent /\ DemandIsConserved
<1>1. alloc \in BoundedRows
  BY RowsAreBounded
<1>2. LineTotalsAreCurrent
  BY DEF DemandInv, LineOK, LineTotalsAreCurrent, Unsent
<1>3. ASSUME NEW l \in LineIds, request[RequestOf[l]].state \notin {"absent", "draft"}
      PROVE  line[l].requested =
               line[l].issued + line[l].cancelled + line[l].backordered
                 + SumFunction([a \in AllocationsFor(l) |-> Open(alloc[a])])
  <2>1. LineOK(line[l], l, alloc, request[RequestOf[l]].state)
    BY DEF DemandInv
  <2>2. /\ line[l].issued = SumFor(Issues(alloc), l)
        /\ line[l].backordered =
             line[l].requested - line[l].cancelled - SumFor(Held(alloc), l)
        /\ line[l] \in RequestLine
    BY <1>1, <1>3, <2>1, SentLine DEF Unsent
  <2>3. SumFunction([a \in AllocationsFor(l) |-> Open(alloc[a])]) = SumFor(Opens(alloc), l)
    BY <1>1, ModelSums
  <2>4. /\ SumFor(Held(alloc), l) = SumFor(Issues(alloc), l) + SumFor(Opens(alloc), l)
        /\ SumFor(Issues(alloc), l) \in Nat /\ SumFor(Opens(alloc), l) \in Nat
    BY <1>1, SumsForLine
  <2>5. QED
    BY <2>2, <2>3, <2>4 DEF RequestLine
<1>4. DemandIsConserved
  BY <1>3 DEF DemandIsConserved
<1>5. line \in [LineIds -> RequestLine]
  <2>1. \A l \in LineIds : line[l] \in RequestLine
    BY DEF DemandInv, LineOK
  <2>2. QED
    BY <2>1 DEF DemandInv
<1>6. QED
  BY <1>2, <1>4, <1>5 DEF RowsInv, RowsTypeOK, TypeOK

\* It says that closed requests hold nothing.
LEMMA ClosedMeaning ==
  ASSUME RowsInv, DemandInv
  PROVE  ClosedHoldsNothing
<1> SUFFICES ASSUME NEW a \in AllocationIds,
                    request[RequestOfAllocation(a)].state \in ClosedStates
             PROVE  Open(alloc[a]) = 0 /\ line[LineOf(a)].backordered = 0
  BY DEF ClosedHoldsNothing
<1> DEFINE l == LineOf(a)
<1>1. /\ alloc \in BoundedRows /\ l \in LineIds
      /\ request[RequestOf[l]].state \in ClosedStates
      /\ request[RequestOf[l]].state \notin Unsent
  BY RowsAreBounded, AllocationIdParts DEF RequestOfAllocation, ClosedStates, Unsent
<1>2. LineOK(line[l], l, alloc, request[RequestOf[l]].state)
  BY <1>1 DEF DemandInv
<1>3. /\ line[l].requested <= line[l].issued + line[l].cancelled
      /\ line[l] \in RequestLine
      /\ line[l].issued = SumFor(Issues(alloc), l)
      /\ line[l].backordered =
           line[l].requested - line[l].cancelled - SumFor(Held(alloc), l)
      /\ line[l].cancelled + SumFor(Held(alloc), l) <= line[l].requested
  BY <1>1, <1>2, SentLine DEF LineOK
<1>4. /\ SumFor(Held(alloc), l) = SumFor(Issues(alloc), l) + SumFor(Opens(alloc), l)
      /\ SumFor(Issues(alloc), l) \in Nat /\ SumFor(Opens(alloc), l) \in Nat
  BY <1>1, SumsForLine
<1>5. SumFor(Opens(alloc), l) = 0 /\ line[l].backordered = 0
  BY <1>3, <1>4 DEF RequestLine
<1>6. Opens(alloc)[a] = 0
  <2>1. a \in AllocationsFor(l) /\ \A b \in AllocationsFor(l) : Opens(alloc)[b] \in Nat
    BY <1>1, SomeAllocations, RowColumns DEF AllocationsFor
  <2>2. QED
    BY <1>5, <2>1, SomeAllocations, SumZero DEF SumFor
<1>7. QED
  BY <1>5, <1>6 DEF Opens

\* All rows keep their types, the totals of the lines included: no total that
\* _refresh_line_totals writes is ever negative.
THEOREM TypesAreCorrect == Spec => []TypeOK
<1>1. RowsInv /\ DemandInv => TypeOK
  BY DemandMeaning
<1>2. QED
  BY <1>1, DemandInvariant, PTL

\* After every transaction the totals of a submitted line are those of its
\* allocations: no method forgets to refresh a line it touches.
THEOREM LineTotalsStayCurrent == Spec => []LineTotalsAreCurrent
<1>1. RowsInv /\ DemandInv => LineTotalsAreCurrent
  BY DemandMeaning
<1>2. QED
  BY <1>1, DemandInvariant, PTL

\* What was requested of a line is issued, cancelled, reserved or backordered,
\* to the unit.
THEOREM DemandIsAccountedFor == Spec => []DemandIsConserved
<1>1. RowsInv /\ DemandInv => DemandIsConserved
  BY DemandMeaning
<1>2. QED
  BY <1>1, DemandInvariant, PTL

\* A completed or cancelled request holds no stock and waits for none.
THEOREM ClosedRequestsHoldNothing == Spec => []ClosedHoldsNothing
<1>1. RowsInv /\ DemandInv => ClosedHoldsNothing
  BY ClosedMeaning
<1>2. QED
  BY <1>1, DemandInvariant, PTL
=============================================================================

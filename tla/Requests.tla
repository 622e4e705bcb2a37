------------------------------ MODULE Requests ------------------------------
(***************************************************************************)
(* RequestService: the life of a material request from its creation to its *)
(* hand-off or cancellation, with the allocations that hold stock for it.  *)
(*                                                                         *)
(* Every method of the service is one READ COMMITTED transaction that      *)
(* locks the request row, or both request rows, before it reads what it    *)
(* decides on, and locks a position before it sums the position's          *)
(* allocations.  A method is therefore one action; a method that raises    *)
(* rolls its transaction back and is no action at all.                     *)
(***************************************************************************)
EXTENDS Stock

CONSTANTS
  RequestIds,     \* material requests
  LineIds,        \* request lines
  RequestOf,      \* the request a line belongs to
  LineItem,       \* the item a line asks for
  PickRank,       \* order of the positions: (pick_sequence, id)
  Alternates,     \* approved (item, alternate item) pairs
  Workers,        \* users with the warehouse_worker or inventory_manager role
  Managers,       \* the inventory managers among them
  NoWorker,       \* claimed_by_user_id IS NULL
  Quantities,     \* quantities a user may ask for
  Serials,        \* bound: allocations of one line at one position
  MaxVersion      \* bound: version a request may reach

ASSUME RequestsAssumption ==
  /\ RequestOf \in [LineIds -> RequestIds]
  /\ LineItem \in [LineIds -> Items]
  /\ PickRank \in [Positions -> Nat]
  /\ \A p, q \in Positions : PickRank[p] = PickRank[q] => p = q
  /\ Alternates \subseteq Items \X Items
  /\ Managers \subseteq Workers
  /\ NoWorker \notin Workers
  /\ Quantities \subseteq Nat \ {0}
  /\ Serials \subseteq Nat
  /\ IsFiniteSet(LineIds) /\ IsFiniteSet(Positions) /\ IsFiniteSet(Serials)
  /\ 1 \in Serials
  /\ MaxVersion \in Nat

VARIABLES
  request,  \* MaterialRequest rows
  line,     \* RequestLine rows
  alloc,    \* Allocation rows; an id names the line, the position, a serial
  batch     \* worker of the request's FulfillmentBatch in status "picking"

requestVars == <<request, line, alloc, batch>>
vars == <<stockVars, requestVars>>

\* "absent" stands for a row that does not exist yet.  Nothing in the code
\* assigns on_hold, but reallocate accepts it.
States ==
  { "absent", "draft", "submitted", "claimed", "in_progress", "ready",
    "partially_fulfilled", "completed", "on_hold", "cancelled" }

\* Mistake: a completed request may be claimed again.
ClaimableWhenCompleted == {"submitted", "partially_fulfilled", "completed"}

ClaimableStates == {"submitted", "partially_fulfilled"}

\* Mistake: a request somebody is working on may be reallocated.
ReallocatableWhenClaimed ==
  {"submitted", "partially_fulfilled", "on_hold", "claimed"}

ReallocatableStates == {"submitted", "partially_fulfilled", "on_hold"}

AllocationIds == LineIds \X Positions \X Serials

MaterialRequest ==
  [state : States, claimedBy : Workers \union {NoWorker}, version : Nat]

Allocation ==
  [quantity : Nat, picked : Nat, issued : Nat, released : Nat,
   confirmed : BOOLEAN]

RequestLine ==
  [requested : Nat, allocated : Nat, picked : Nat, issued : Nat,
   cancelled : Nat, backordered : Nat]

NoAllocation ==
  [quantity |-> 0, picked |-> 0, issued |-> 0, released |-> 0,
   confirmed |-> FALSE]

NoLine ==
  [requested |-> 0, allocated |-> 0, picked |-> 0, issued |-> 0,
   cancelled |-> 0, backordered |-> 0]

NewAllocation(q) == [NoAllocation EXCEPT !.quantity = q]

-----------------------------------------------------------------------------
LineOf(a) == a[1]
PositionOf(a) == a[2]
RequestOfAllocation(a) == RequestOf[LineOf(a)]

Exists(a) == alloc[a].quantity > 0
HasLine(l) == line[l].requested > 0

LinesOf(r) == {l \in LineIds : RequestOf[l] = r}
AllocationsOf(r) == {a \in AllocationIds : RequestOfAllocation(a) = r}
AllocationsFor(l) == {a \in AllocationIds : LineOf(a) = l}
AllocationsAt(p) == {a \in AllocationIds : PositionOf(a) = p}

\* Mistake: picked material counts as transferable until it is issued.
TransferableUntilIssued(row) == row.quantity - row.issued - row.released

\* What an allocation still reserves, and what of it no pick has touched.
Open(row) == row.quantity - row.issued - row.released
Transferable(row) == row.quantity - row.picked - row.released

\* Sum over the allocations of a position of what they still reserve.
AllocatedAt(p) ==
  SumFunction([a \in AllocationsAt(p) |-> Open(alloc[a])])

\* Mistake: stock is available although it is allocated.
AvailableUnreserved(p) == Usable(p)

Available(p) == Usable(p) - AllocatedAt(p)

AtLeastZero(n) == IF n > 0 THEN n ELSE 0
Smaller(m, n) == IF m < n THEN m ELSE n

\* Mistake: what was released still counts against the backorder.
RefreshKeepingReleased(row, l, rows) ==
  LET Total(F(_)) == SumFunction([a \in AllocationsFor(l) |-> F(rows[a])])
      issued == Total(LAMBDA x : x.issued)
  IN  [row EXCEPT
        !.picked = Total(LAMBDA x : x.picked),
        !.issued = issued,
        !.allocated = Total(LAMBDA x : x.quantity - x.released),
        !.backordered = AtLeastZero(row.requested - row.cancelled
                                    - Total(LAMBDA x : x.quantity))]

\* The line row after _refresh_line_totals, given the new allocation rows.
RefreshLineTotals(row, l, rows) ==
  LET Total(F(_)) == SumFunction([a \in AllocationsFor(l) |-> F(rows[a])])
      issued == Total(LAMBDA x : x.issued)
  IN  [row EXCEPT
        !.picked = Total(LAMBDA x : x.picked),
        !.issued = issued,
        !.allocated = Total(LAMBDA x : x.quantity - x.released),
        !.backordered =
           AtLeastZero(row.requested - issued - row.cancelled - Total(Open))]

\* Mistake: the totals are refreshed before the allocations are flushed.
RefreshUnflushed(rows, ls) ==
  [l \in LineIds |->
     IF l \in ls THEN RefreshLineTotals(line[l], l, alloc) ELSE line[l]]

RefreshLines(rows, ls) ==
  [l \in LineIds |->
     IF l \in ls THEN RefreshLineTotals(line[l], l, rows) ELSE line[l]]

CanChange(r) == request[r].version < MaxVersion

\* Mistake: claimed_by_user_id is never cleared.
MovedKeepingClaim(row, state, worker) ==
  [state |-> state,
   claimedBy |-> IF worker = NoWorker THEN row.claimedBy ELSE worker,
   version |-> row.version + 1]

\* A request row after a change of its state or claim; every change counts.
Moved(row, state, worker) ==
  [state |-> state, claimedBy |-> worker, version |-> row.version + 1]

\* Mistake: the version of a request does not count changes of its lines.
NotBumped(row) == row

Bumped(row) == Moved(row, row.state, row.claimedBy)

\* Taking q out of an allocation; one left with nothing to pick is confirmed.
Release(row, q) ==
  LET after == [row EXCEPT !.released = @ + q]
  IN  IF after.issued + after.released = after.quantity
      THEN [after EXCEPT !.confirmed = TRUE]
      ELSE after

\* The allocation rows once q of source has become a new allocation.
Transfer(source, new, q) ==
  [alloc EXCEPT ![source] = Release(@, q), ![new] = NewAllocation(q)]

\* The id that the next allocation row of its line at its position gets.
IsNextId(a) ==
  /\ ~Exists(a)
  /\ \A n \in Serials : n < a[3] => Exists(<<a[1], a[2], n>>)

-----------------------------------------------------------------------------
RequestTypeOK ==
  /\ request \in [RequestIds -> MaterialRequest]
  /\ alloc \in [AllocationIds -> Allocation]
  /\ batch \in [RequestIds -> Workers \union {NoWorker}]

TypeOK ==
  /\ StockTypeOK
  /\ RequestTypeOK
  /\ line \in [LineIds -> RequestLine]

Init ==
  /\ StockInit
  /\ request = [r \in RequestIds |->
                  [state |-> "absent", claimedBy |-> NoWorker, version |-> 0]]
  /\ line = [l \in LineIds |-> NoLine]
  /\ alloc = [a \in AllocationIds |-> NoAllocation]
  /\ batch = [r \in RequestIds |-> NoWorker]

-----------------------------------------------------------------------------
(***************************************************************************)
(* create and submit                                                       *)
(***************************************************************************)

\* The orders _submit_locked may serve the lines in: created_at, which is the
\* order of the payload.
ServingOrders(ls) ==
  {rank \in [ls -> 1..Cardinality(ls)] :
     \A l, m \in ls : rank[l] = rank[m] => l = m}

\* Where the lines may get stock from: the positions of their items.
Servable(ls) == {s \in ls \X Positions : ItemOf[s[2]] = LineItem[s[1]]}

\* What the loops give out at position p before they come to line l, and what
\* they give line l before they come to position p.
GivenBefore(fill, l, p, rank) ==
  SumFunctionOnSet(fill, {s \in DOMAIN fill : s[2] = p /\ rank[s[1]] < rank[l]})
ServedBefore(fill, l, p) ==
  SumFunctionOnSet(fill,
                   {s \in DOMAIN fill : s[1] = l /\ PickRank[s[2]] < PickRank[p]})

\* Mistake: a position is skipped if it cannot serve the line alone.
IsAllOrNothingFill(fill, demand, rank) ==
  \A s \in DOMAIN fill :
    LET l == s[1]
        p == s[2]
        needed == demand[l] - ServedBefore(fill, l, p)
    IN  fill[s] = IF Available(p) - GivenBefore(fill, l, p, rank) >= needed
                  THEN needed ELSE 0

\* What the two loops of _submit_locked allocate: each line takes, position
\* after position in pick order, what is left there up to what it still needs.
IsGreedyFill(fill, demand, rank) ==
  \A s \in DOMAIN fill :
    LET l == s[1]
        p == s[2]
    IN  fill[s] = Smaller(AtLeastZero(Available(p) - GivenBefore(fill, l, p, rank)),
                          demand[l] - ServedBefore(fill, l, p))

\* Any amount up to a quantity that can be asked for.
Amounts == UNION {0..q : q \in Quantities}

\* State after _submit_locked: new allocation rows, line totals and state.
Submitted(r, demand, version) ==
  LET ls == DOMAIN demand IN
  \E rank \in ServingOrders(ls), fill \in [Servable(ls) -> Amounts] :
    /\ IsGreedyFill(fill, demand, rank)
    /\ alloc' = [a \in AllocationIds |->
                   LET s == <<LineOf(a), PositionOf(a)>>
                   IN  IF a[3] = 1 /\ s \in Servable(ls) /\ fill[s] > 0
                       THEN NewAllocation(fill[s])
                       ELSE alloc[a]]
    /\ line' = [l \in LineIds |->
                  IF l \in ls
                  THEN LET given == SumFunctionOnSet(fill, {s \in Servable(ls) : s[1] = l})
                       IN  [NoLine EXCEPT !.requested = demand[l],
                                          !.allocated = given,
                                          !.backordered = demand[l] - given]
                  ELSE line[l]]
    /\ request' = [request EXCEPT ![r] =
                   [state |-> "submitted", claimedBy |-> @.claimedBy,
                    version |-> version]]

\* create with submit = false.
CreateDraft(r, demand) ==
  /\ request[r].state = "absent"
  /\ request' = [request EXCEPT ![r] = Moved(@, "draft", NoWorker)]
  /\ line' = [l \in LineIds |->
                IF l \in DOMAIN demand
                THEN [NoLine EXCEPT !.requested = demand[l]]
                ELSE line[l]]
  /\ UNCHANGED <<stockVars, alloc, batch>>

\* create with submit = true: the same transaction goes on to submit.
CreateAndSubmit(r, demand) ==
  /\ request[r].state = "absent"
  /\ Submitted(r, demand, 2)
  /\ UNCHANGED <<stockVars, batch>>

Submit(r) ==
  /\ request[r].state = "draft"
  /\ CanChange(r)
  /\ Submitted(r, [l \in {m \in LinesOf(r) : HasLine(m)} |-> line[l].requested],
               request[r].version + 1)
  /\ UNCHANGED <<stockVars, batch>>

-----------------------------------------------------------------------------
(***************************************************************************)
(* claim and claim_next                                                    *)
(***************************************************************************)
ClaimLocked(u, r) ==
  /\ CanChange(r)
  /\ request[r].state \in ClaimableStates
  /\ request[r].claimedBy \in {NoWorker, u}
  /\ request' = [request EXCEPT ![r] = Moved(@, "claimed", u)]
  /\ UNCHANGED <<stockVars, line, alloc, batch>>

Claim(u, r) == ClaimLocked(u, r)

\* SKIP LOCKED passes over any request another transaction holds, so whatever
\* the priorities the one returned may be any unclaimed claimable request.
ClaimNext(u) ==
  \E r \in RequestIds :
    /\ request[r].claimedBy = NoWorker
    /\ ClaimLocked(u, r)

-----------------------------------------------------------------------------
(***************************************************************************)
(* reallocate and substitute                                               *)
(***************************************************************************)
Reallocate(source, new, q) ==
  LET target == LineOf(new)
      sourceRequest == RequestOfAllocation(source)
      targetRequest == RequestOfAllocation(new)
      rows == Transfer(source, new, q)
  IN
  /\ CanChange(sourceRequest) /\ CanChange(targetRequest)
  /\ Exists(source) /\ HasLine(target)
  /\ IsNextId(new) /\ PositionOf(new) = PositionOf(source)
  /\ sourceRequest # targetRequest
  /\ request[sourceRequest].state \in ReallocatableStates
  /\ request[targetRequest].state \in ReallocatableStates
  /\ LineItem[LineOf(source)] = LineItem[target]
  /\ q <= Transferable(alloc[source])
  /\ q <= line[target].backordered
  /\ alloc' = rows
  /\ line' = RefreshLines(rows, {LineOf(source), target})
  /\ request' = [request EXCEPT ![sourceRequest] = Bumped(@),
                                ![targetRequest] = Bumped(@)]
  /\ UNCHANGED <<stockVars, batch>>

\* ApprovedAlternate row for the line's item, and the same inventory path.
IsApprovedSubstitute(l, p) ==
  /\ <<LineItem[l], ItemOf[p]>> \in Alternates
  /\ (LineItem[l] \in SpectrumItems) <=> (ItemOf[p] \in SpectrumItems)

Substitute(u, source, new, q) ==
  LET r == RequestOfAllocation(source)
      l == LineOf(source)
      p == PositionOf(new)
      rows == Transfer(source, new, q)
  IN
  /\ CanChange(r)
  /\ request[r].claimedBy = u
  /\ Exists(source)
  /\ IsNextId(new) /\ LineOf(new) = l
  /\ PositionOf(source) # p
  /\ IsApprovedSubstitute(l, p)
  /\ q <= Transferable(alloc[source])
  /\ q <= Available(p)
  /\ alloc' = rows
  /\ line' = RefreshLines(rows, {l})
  /\ request' = [request EXCEPT ![r] = Bumped(@)]
  /\ UNCHANGED <<stockVars, batch>>

-----------------------------------------------------------------------------
(***************************************************************************)
(* record_pick, handoff and cancel                                         *)
(***************************************************************************)

\* Mistake: one confirmed allocation makes the request ready.
AnyConfirmed(r) == \E a \in AllocationsOf(r) : Exists(a) /\ alloc[a].confirmed

\* The session is created with autoflush=False (session.py) and record_pick
\* selects the pick_confirmed column before it flushes, so the query returns
\* the confirmations as they were before this pick.
AllConfirmed(r) ==
  \A a \in AllocationsOf(r) : Exists(a) => alloc[a].confirmed

\* Mistake: the upper bound of a pick is off by one.
PickRangeTooWide(row) == row.issued..(row.quantity - row.released + 1)

\* Mistake: a short pick keeps what it did not find.
PickedKeepingShortage(row, q) == [row EXCEPT !.picked = q, !.confirmed = TRUE]

\* What may be picked from an allocation, and its row after the pick: what is
\* short of what is still allocated is released.
PickRange(row) == row.issued..(row.quantity - row.released)

Picked(row, q) ==
  [row EXCEPT !.picked = q,
              !.released = @ + ((row.quantity - row.released) - q),
              !.confirmed = TRUE]

RecordPick(u, a, q) ==
  LET r == RequestOfAllocation(a)
      rows == [alloc EXCEPT ![a] = Picked(@, q)]
  IN
  /\ CanChange(r)
  /\ request[r].claimedBy = u
  /\ Exists(a)
  /\ q \in PickRange(alloc[a])
  /\ alloc' = rows
  /\ line' = RefreshLines(rows, {LineOf(a)})
  /\ request' = [request EXCEPT ![r] =
                   Moved(@, IF AllConfirmed(r) THEN "ready" ELSE "in_progress",
                         @.claimedBy)]
  /\ batch' = [batch EXCEPT ![r] = IF @ = NoWorker THEN u ELSE @]
  /\ UNCHANGED stockVars

\* The allocations of r at position p that a hand-off issues from, what it
\* takes out of p, and how much of that it queues for Spectrum.
Issuing(r, p) ==
  {a \in AllocationsOf(r) : PositionOf(a) = p /\ alloc[a].picked > alloc[a].issued}

IssueAt(r, p) ==
  SumFunction([a \in Issuing(r, p) |-> alloc[a].picked - alloc[a].issued])

\* Mistake: quarantined stock may be issued.
CanIssueQuarantined(r, p) == IssueAt(r, p) \in 0..stock[p].onHand

\* Mistake: issues of local items are queued for Spectrum as well.
PostedAlways(r, p) == IssueAt(r, p)

CanIssue(r, p) == IssueAt(r, p) \in 0..Usable(p)

Posted(r, p) == IF IsSpectrumManaged(p) THEN IssueAt(r, p) ELSE 0

\* Mistake: the stock leaves, the allocations do not learn of it.
HandedOffSilently(r) == alloc

\* The allocation rows and the line rows of a hand-off.
HandedOff(r) ==
  [a \in AllocationIds |->
     IF \E p \in Positions : a \in Issuing(r, p)
     THEN [alloc[a] EXCEPT !.issued = alloc[a].picked]
     ELSE alloc[a]]

HandedOffLines(r) ==
  LET rows == HandedOff(r)
  IN  RefreshLines(rows, {LineOf(a) : a \in {b \in AllocationsOf(r) : Exists(b)}})

\* Mistake: a backorder counts as settled.
ClosedWithBackorder(r, lines) ==
  \A l \in LinesOf(r) :
    lines[l].issued + lines[l].cancelled + lines[l].backordered >= lines[l].requested

\* Every line has been issued or cancelled in full.
FullyClosed(r, lines) ==
  \A l \in LinesOf(r) : lines[l].issued + lines[l].cancelled >= lines[l].requested

\* The loop over the allocations: it raises if a position has not enough
\* usable stock left, and writes one ledger row per allocation it issues.
IssuePicked(r) ==
  /\ \A p \in Positions : CanIssue(r, p)
  /\ alloc' = HandedOff(r)
  /\ line' = HandedOffLines(r)
  /\ stock' = [p \in Positions |->
                 [stock[p] EXCEPT !.onHand = @ - IssueAt(r, p),
                                  !.version = @ + Cardinality(Issuing(r, p))]]
  /\ ledger' = [p \in Positions |->
                  [ledger[p] EXCEPT !["material_issue"] = @ + IssueAt(r, p)]]
  /\ outbox' = [p \in Positions |-> outbox[p] + Posted(r, p)]

Handoff(u, r) ==
  /\ CanChange(r)
  /\ request[r].claimedBy = u
  /\ request[r].state = "ready"
  /\ IssuePicked(r)
  /\ request' = [request EXCEPT ![r] =
                   Moved(@, IF FullyClosed(r, HandedOffLines(r))
                            THEN "completed" ELSE "partially_fulfilled",
                         NoWorker)]
  /\ batch' = [batch EXCEPT ![r] = NoWorker]

\* The allocation rows of a cancellation: all that is not issued is released.
Cancelled(r) ==
  [a \in AllocationIds |->
     IF RequestOfAllocation(a) = r
     THEN [alloc[a] EXCEPT !.released = alloc[a].quantity - alloc[a].issued]
     ELSE alloc[a]]

Cancel(r) ==
  LET rows == Cancelled(r)
      dropped(l) == [line[l] EXCEPT !.cancelled = line[l].requested - line[l].issued]
  IN
  /\ CanChange(r)
  /\ request[r].state \notin {"absent", "completed", "cancelled"}
  /\ alloc' = rows
  /\ line' = [l \in LineIds |->
                IF RequestOf[l] = r
                THEN RefreshLineTotals(dropped(l), l, rows)
                ELSE line[l]]
  /\ request' = [request EXCEPT ![r] = Moved(@, "cancelled", NoWorker)]
  /\ UNCHANGED <<stockVars, batch>>

-----------------------------------------------------------------------------
\* The payloads of a create: some lines of the request, each with a quantity.
Demands(r) ==
  UNION {[ls -> Quantities] : ls \in (SUBSET LinesOf(r)) \ {{}}}

RequestNext ==
  \/ \E r \in RequestIds :
       \/ \E demand \in Demands(r) :
            CreateDraft(r, demand) \/ CreateAndSubmit(r, demand)
       \/ Submit(r)
       \/ Cancel(r)
       \/ \E u \in Workers : Claim(u, r) \/ Handoff(u, r)
  \/ \E u \in Workers : ClaimNext(u)
  \/ \E source, new \in AllocationIds, q \in Quantities :
       \/ Managers # {} /\ Reallocate(source, new, q)
       \/ \E u \in Workers : Substitute(u, source, new, q)
  \/ \E a \in AllocationIds, u \in Workers, q \in Quantities \union {0} :
       RecordPick(u, a, q)

Spec == Init /\ [][RequestNext]_vars

-----------------------------------------------------------------------------
(***************************************************************************)
(* Safety                                                                  *)
(***************************************************************************)
ClaimedStates == {"claimed", "in_progress", "ready"}
ClosedStates == {"completed", "cancelled"}

\* A request is claimed exactly while it is being fulfilled, and an open
\* picking batch belongs to the worker who holds the claim; a request that is
\* ready has one.  (cancel leaves the batch of a cancelled request open.)
ClaimMatchesState ==
  \A r \in RequestIds :
    /\ request[r].claimedBy # NoWorker <=> request[r].state \in ClaimedStates
    /\ batch[r] # NoWorker =>
         \/ request[r].state = "cancelled"
         \/ batch[r] = request[r].claimedBy
    /\ request[r].state = "ready" => batch[r] # NoWorker

\* Picks, releases and issues of an allocation stay within its quantity: the
\* CHECK constraints of the allocations table are never what stops a method.
AllocationWithinQuantity ==
  \A a \in AllocationIds :
    /\ alloc[a].issued <= alloc[a].picked
    /\ alloc[a].picked <= alloc[a].quantity
    /\ alloc[a].issued + alloc[a].released <= alloc[a].quantity

\* Unless its request was cancelled, what was picked from an allocation is
\* still held for it: no reallocation or substitution takes picked material,
\* and an allocation is confirmed exactly when nothing of it is left to pick.
PickedIsHeld ==
  \A a \in AllocationIds :
    (Exists(a) /\ request[RequestOfAllocation(a)].state # "cancelled") =>
      /\ alloc[a].picked + alloc[a].released <= alloc[a].quantity
      /\ alloc[a].confirmed =>
           alloc[a].picked + alloc[a].released = alloc[a].quantity
      /\ ~alloc[a].confirmed => alloc[a].picked = 0

\* handoff is offered only when every allocation of the request was picked:
\* none is left behind with material neither picked nor released.
ReadyMeansPicked ==
  \A a \in AllocationIds :
    (Exists(a) /\ request[RequestOfAllocation(a)].state = "ready") =>
      /\ alloc[a].confirmed
      /\ Transferable(alloc[a]) = 0

\* arcitecture_plan.md section 16: reserved demand may exceed stock; physical
\* allocation may not.  Holds as long as only requests change the stock.
NoOverAllocation ==
  \A p \in Positions : AllocatedAt(p) <= Usable(p)

\* The totals kept on a submitted line agree with its allocations.
LineTotalsAreCurrent ==
  \A l \in LineIds :
    request[RequestOf[l]].state \notin {"absent", "draft"} =>
      line[l] = RefreshLineTotals(line[l], l, alloc)

\* Demand is neither lost nor invented: what was requested is issued,
\* cancelled, reserved by an open allocation or backordered.  In particular
\* the max(..., 0) of _refresh_line_totals never hides an excess.
DemandIsConserved ==
  \A l \in LineIds :
    request[RequestOf[l]].state \notin {"absent", "draft"} =>
      line[l].requested =
        line[l].issued + line[l].cancelled + line[l].backordered
          + SumFunction([a \in AllocationsFor(l) |-> Open(alloc[a])])

\* A completed or cancelled request holds no stock and waits for none.
ClosedHoldsNothing ==
  \A a \in AllocationIds :
    request[RequestOfAllocation(a)].state \in ClosedStates =>
      /\ Open(alloc[a]) = 0
      /\ line[LineOf(a)].backordered = 0

-----------------------------------------------------------------------------
(***************************************************************************)
(* Action properties                                                       *)
(***************************************************************************)

\* All the rows of a request.
RowsOf(r) ==
  << request[r].state, request[r].claimedBy,
     [l \in LinesOf(r) |-> line[l]], [a \in AllocationsOf(r) |-> alloc[a]] >>

\* The conflict check of offline sync compares versions: no method changes a
\* row of a request, through whichever other request, without raising the
\* version of that request.
EveryChangeRaisesVersion ==
  [][\A r \in RequestIds :
       RowsOf(r)' # RowsOf(r) => request'[r].version > request[r].version]_vars

\* Nothing changes a completed or cancelled request any more.
ClosedIsFinal ==
  [][\A r \in RequestIds :
       request[r].state \in ClosedStates => RowsOf(r)' = RowsOf(r)]_vars

\* One step changes two requests only by moving stock between two requests
\* nobody holds: a request being fulfilled keeps its allocations.
ClaimedIsNotRaided ==
  [][\A r, s \in RequestIds :
       (r # s /\ RowsOf(r)' # RowsOf(r) /\ RowsOf(s)' # RowsOf(s)) =>
         request[r].claimedBy = NoWorker /\ request[s].claimedBy = NoWorker]_vars

\* An allocation is issued once, in full, out of a ready request.
IssuedOnce ==
  [][\A a \in AllocationIds :
       alloc'[a].issued # alloc[a].issued =>
         /\ alloc[a].issued = 0
         /\ request[RequestOfAllocation(a)].state = "ready"
         /\ alloc'[a].issued + alloc'[a].released = alloc'[a].quantity]_vars

\* arcitecture_plan.md section 8: if demand exceeds stock, the physically
\* fulfillable portion is allocated.  A request never enters the queue with a
\* backorder on an item of which usable stock is left unallocated.
SubmitAllocatesWhatItCan ==
  [][\A l \in LineIds, p \in Positions :
       (/\ request[RequestOf[l]].state \in {"absent", "draft"}
        /\ request'[RequestOf[l]].state = "submitted"
        /\ line'[l].backordered > 0
        /\ ItemOf[p] = LineItem[l])
       => Available(p)' <= 0]_vars

\* test_service.py expects the pick of the last unconfirmed allocation to make
\* the request ready, and the hand-off screen shows no other way to get there:
\* in_progress means that an allocation still waits to be picked.
InProgressHasWork ==
  \A r \in RequestIds :
    request[r].state = "in_progress" =>
      \E a \in AllocationsOf(r) : Exists(a) /\ ~alloc[a].confirmed
=============================================================================

--------------------------- MODULE RequestsProofs ---------------------------
(***************************************************************************)
(* What holds of the request workflow for every number of requests, lines, *)
(* positions, workers and units: the types of the rows and the invariant   *)
(* that claims, allocations and confirmations keep up together, what a     *)
(* step may never do, and that the workflow is the life cycle of           *)
(* Lifecycle.  Sums over allocations stay opaque here: nothing below       *)
(* depends on their values.                                                *)
(***************************************************************************)
EXTENDS RequestsRefinement, FiniteSetTheorems, TLAPS

\* The rows other than the line totals, which are sums.
RowsTypeOK == StockTypeOK /\ RequestTypeOK

USE StockAssumption, RequestsAssumption

LEMMA AllocationIdParts ==
  ASSUME NEW a \in AllocationIds
  PROVE  /\ LineOf(a) \in LineIds
         /\ PositionOf(a) \in Positions
         /\ a[3] \in Serials
         /\ RequestOfAllocation(a) \in RequestIds
BY DEF AllocationIds, LineOf, PositionOf, RequestOfAllocation

\* There are finitely many allocation ids, so a hand-off bumps the version of
\* a position a natural number of times.
LEMMA AllocationIdsFinite == IsFiniteSet(AllocationIds)
<1> DEFINE Nested == (LineIds \X Positions) \X Serials
           flatten == [t \in Nested |-> <<t[1][1], t[1][2], t[2]>>]
<1>1. IsFiniteSet(LineIds \X Positions)
  BY FS_Product
<1>2. IsFiniteSet(Nested)
  BY <1>1, FS_Product
<1>3. flatten \in Surjection(Nested, AllocationIds)
  <2>1. flatten \in [Nested -> AllocationIds]
    BY DEF AllocationIds
  <2>2. ASSUME NEW a \in AllocationIds
        PROVE  \E t \in Nested : flatten[t] = a
    <3>1. /\ <<<<a[1], a[2]>>, a[3]>> \in Nested
          /\ flatten[<<<<a[1], a[2]>>, a[3]>>] = a
      BY DEF AllocationIds
    <3>2. QED
      BY <3>1
  <2>3. QED
    BY <2>1, <2>2 DEF Surjection
<1>4. QED
  BY <1>2, <1>3, FS_Surjection

LEMMA IssuingIsFinite ==
  ASSUME NEW r, NEW p
  PROVE  Cardinality(Issuing(r, p)) \in Nat
<1>1. Issuing(r, p) \in SUBSET AllocationIds
  BY DEF Issuing, AllocationsOf
<1>2. QED
  BY <1>1, AllocationIdsFinite, FS_Subset, FS_CardinalityType

-----------------------------------------------------------------------------
(***************************************************************************)
(* Type correctness                                                        *)
(***************************************************************************)

\* Adding a release to an allocation keeps it an allocation.
LEMMA ReleaseType ==
  ASSUME NEW row \in Allocation, NEW q \in Nat
  PROVE  /\ Release(row, q) \in Allocation
         /\ Release(row, q).quantity = row.quantity
         /\ Release(row, q).picked = row.picked
         /\ Release(row, q).issued = row.issued
         /\ Release(row, q).released = row.released + q
         /\ Release(row, q).confirmed =
              (row.confirmed \/ row.issued + row.released + q = row.quantity)
<1> DEFINE after == [row EXCEPT !.released = @ + q]
           confirmed == [after EXCEPT !.confirmed = TRUE]
<1>1. /\ after \in Allocation
      /\ after.quantity = row.quantity
      /\ after.picked = row.picked
      /\ after.issued = row.issued
      /\ after.released = row.released + q
      /\ after.confirmed = row.confirmed
  BY DEF Allocation
<1>2. /\ confirmed \in Allocation
      /\ confirmed.quantity = after.quantity
      /\ confirmed.picked = after.picked
      /\ confirmed.issued = after.issued
      /\ confirmed.released = after.released
      /\ confirmed.confirmed
  BY <1>1 DEF Allocation
<1>3. Release(row, q) = IF after.issued + after.released = after.quantity
                        THEN confirmed ELSE after
  BY DEF Release
<1> HIDE DEF after, confirmed
<1>4. CASE after.issued + after.released = after.quantity
  BY <1>1, <1>2, <1>3, <1>4 DEF Allocation
<1>5. CASE after.issued + after.released # after.quantity
  BY <1>1, <1>3, <1>5 DEF Allocation
<1>6. QED
  BY <1>4, <1>5

LEMMA NewAllocationType ==
  ASSUME NEW q \in Nat
  PROVE  NewAllocation(q) \in Allocation
BY DEF NewAllocation, NoAllocation, Allocation

\* Any change of a request row the methods make keeps it a request row.
LEMMA RequestRowType ==
  ASSUME NEW row \in MaterialRequest, NEW state \in States,
         NEW u \in Workers \union {NoWorker}
  PROVE  /\ Moved(row, state, u) \in MaterialRequest
         /\ Bumped(row) \in MaterialRequest
BY DEF Moved, Bumped, MaterialRequest

LEMMA InitRowsType == Init => RowsTypeOK
BY DEF Init, StockInit, RowsTypeOK, StockTypeOK, RequestTypeOK, StockPosition,
       MaterialRequest, Allocation, NoAllocation, States

\* The allocations and the request row a submission writes.
LEMMA SubmittedType ==
  ASSUME RowsTypeOK, NEW r \in RequestIds, NEW demand, NEW version \in Nat,
         DOMAIN demand \subseteq LineIds,
         Submitted(r, demand, version)
  PROVE  /\ request' \in [RequestIds -> MaterialRequest]
         /\ alloc' \in [AllocationIds -> Allocation]
<1>1. PICK fill \in [Servable(DOMAIN demand) -> Amounts] :
        alloc' = [a \in AllocationIds |->
                    LET s == <<LineOf(a), PositionOf(a)>>
                    IN  IF a[3] = 1 /\ s \in Servable(DOMAIN demand) /\ fill[s] > 0
                        THEN NewAllocation(fill[s])
                        ELSE alloc[a]]
  BY DEF Submitted
<1>2. Amounts \subseteq Nat
  BY DEF Amounts
<1>3. alloc' \in [AllocationIds -> Allocation]
  <2>1. \A s \in Servable(DOMAIN demand) : fill[s] \in Nat
    BY <1>2
  <2>2. QED
    BY <1>1, <2>1, NewAllocationType DEF RowsTypeOK, RequestTypeOK
<1>4. request' \in [RequestIds -> MaterialRequest]
  <2>1. request' = [request EXCEPT ![r] =
                      [state |-> "submitted", claimedBy |-> request[r].claimedBy,
                       version |-> version]]
    BY DEF Submitted
  <2>2. request[r].claimedBy \in Workers \union {NoWorker}
    BY DEF RowsTypeOK, RequestTypeOK, MaterialRequest
  <2>3. [state |-> "submitted", claimedBy |-> request[r].claimedBy,
         version |-> version] \in MaterialRequest
    BY <2>2 DEF MaterialRequest, States
  <2>4. QED
    BY <2>1, <2>3 DEF RowsTypeOK, RequestTypeOK
<1>5. QED
  BY <1>3, <1>4

\* One lemma per action: it leaves well-typed rows.
LEMMA CreateType ==
  ASSUME RowsTypeOK, NEW r \in RequestIds, NEW demand \in Demands(r),
         CreateDraft(r, demand) \/ CreateAndSubmit(r, demand)
  PROVE  RowsTypeOK'
<1>1. DOMAIN demand \subseteq LineIds
  BY DEF Demands, LinesOf
<1>2. CASE CreateDraft(r, demand)
  <2>1. Moved(request[r], "draft", NoWorker) \in MaterialRequest
    BY RequestRowType DEF RowsTypeOK, RequestTypeOK, States
  <2>2. QED
    BY <1>2, <2>1 DEF CreateDraft, RowsTypeOK, RequestTypeOK, StockTypeOK, stockVars
<1>3. CASE CreateAndSubmit(r, demand)
  <2>1. /\ request' \in [RequestIds -> MaterialRequest]
        /\ alloc' \in [AllocationIds -> Allocation]
    BY <1>1, <1>3, SubmittedType DEF CreateAndSubmit
  <2>2. QED
    BY <1>3, <2>1 DEF CreateAndSubmit, RowsTypeOK, RequestTypeOK, StockTypeOK, stockVars
<1>4. QED
  BY <1>2, <1>3

LEMMA SubmitType ==
  ASSUME RowsTypeOK, NEW r \in RequestIds, Submit(r)
  PROVE  RowsTypeOK'
<1> DEFINE demand == [l \in {m \in LinesOf(r) : HasLine(m)} |-> line[l].requested]
<1>1. DOMAIN demand \subseteq LineIds
  BY DEF LinesOf
<1>2. request[r].version + 1 \in Nat
  BY DEF RowsTypeOK, RequestTypeOK, MaterialRequest
<1>3. Submitted(r, demand, request[r].version + 1)
  BY DEF Submit
<1> HIDE DEF demand
<1>4. /\ request' \in [RequestIds -> MaterialRequest]
      /\ alloc' \in [AllocationIds -> Allocation]
  BY <1>1, <1>2, <1>3, SubmittedType
<1>5. QED
  BY <1>4 DEF Submit, RowsTypeOK, RequestTypeOK, StockTypeOK, stockVars

LEMMA ClaimType ==
  ASSUME RowsTypeOK, NEW u \in Workers, NEW r \in RequestIds, ClaimLocked(u, r)
  PROVE  RowsTypeOK'
<1>1. Moved(request[r], "claimed", u) \in MaterialRequest
  BY RequestRowType DEF RowsTypeOK, RequestTypeOK, States
<1>2. QED
  BY <1>1 DEF ClaimLocked, RowsTypeOK, RequestTypeOK, StockTypeOK, stockVars

\* What Reallocate and Substitute do to the allocation rows.
TransferStep(source, new, q) ==
  /\ Exists(source) /\ ~Exists(new)
  /\ q <= Transferable(alloc[source])
  /\ alloc' = Transfer(source, new, q)

LEMMA TransferType ==
  ASSUME RowsTypeOK, NEW source \in AllocationIds, NEW new \in AllocationIds,
         NEW q \in Quantities, TransferStep(source, new, q)
  PROVE  alloc' \in [AllocationIds -> Allocation]
<1>1. alloc \in [AllocationIds -> Allocation] /\ q \in Nat
  BY DEF RowsTypeOK, RequestTypeOK
<1>2. Release(alloc[source], q) \in Allocation
  BY <1>1, ReleaseType
<1>3. NewAllocation(q) \in Allocation
  BY <1>1, NewAllocationType
<1>4. QED
  BY <1>1, <1>2, <1>3 DEF TransferStep, Transfer

LEMMA ReallocateType ==
  ASSUME RowsTypeOK, NEW source \in AllocationIds, NEW new \in AllocationIds,
         NEW q \in Quantities, Reallocate(source, new, q)
  PROVE  RowsTypeOK'
<1>1. alloc' \in [AllocationIds -> Allocation]
  <2>1. TransferStep(source, new, q)
    BY DEF Reallocate, TransferStep, Transfer, IsNextId
  <2>2. QED
    BY <2>1, TransferType
<1>2. request' \in [RequestIds -> MaterialRequest]
  <2>1. \A r \in RequestIds : Bumped(request[r]) \in MaterialRequest
    BY RequestRowType DEF RowsTypeOK, RequestTypeOK, Bumped, MaterialRequest
  <2>2. QED
    BY <2>1, AllocationIdParts DEF Reallocate, RowsTypeOK, RequestTypeOK
<1>3. QED
  BY <1>1, <1>2 DEF Reallocate, RowsTypeOK, RequestTypeOK, StockTypeOK, stockVars

LEMMA SubstituteType ==
  ASSUME RowsTypeOK, NEW u \in Workers,
         NEW source \in AllocationIds, NEW new \in AllocationIds,
         NEW q \in Quantities, Substitute(u, source, new, q)
  PROVE  RowsTypeOK'
<1>1. alloc' \in [AllocationIds -> Allocation]
  <2>1. TransferStep(source, new, q)
    BY DEF Substitute, TransferStep, Transfer, IsNextId
  <2>2. QED
    BY <2>1, TransferType
<1>2. request' \in [RequestIds -> MaterialRequest]
  <2>1. \A r \in RequestIds : Bumped(request[r]) \in MaterialRequest
    BY RequestRowType DEF RowsTypeOK, RequestTypeOK, Bumped, MaterialRequest
  <2>2. QED
    BY <2>1, AllocationIdParts DEF Substitute, RowsTypeOK, RequestTypeOK
<1>3. QED
  BY <1>1, <1>2 DEF Substitute, RowsTypeOK, RequestTypeOK, StockTypeOK, stockVars

LEMMA PickedType ==
  ASSUME NEW row \in Allocation, NEW q \in Nat,
         q <= row.quantity - row.released
  PROVE  /\ Picked(row, q) \in Allocation
         /\ Picked(row, q).quantity = row.quantity
         /\ Picked(row, q).picked = q
         /\ Picked(row, q).issued = row.issued
         /\ Picked(row, q).released = row.quantity - q
         /\ Picked(row, q).confirmed
<1> DEFINE released == row.released + ((row.quantity - row.released) - q)
<1>1. /\ row.quantity \in Nat /\ row.picked \in Nat /\ row.issued \in Nat
      /\ row.released \in Nat /\ row.confirmed \in BOOLEAN
  BY DEF Allocation
<1>2. released = row.quantity - q /\ released \in Nat
  BY <1>1
<1>3. Picked(row, q) = [row EXCEPT !.picked = q, !.released = released, !.confirmed = TRUE]
  BY DEF Picked
<1> HIDE DEF released
<1>4. QED
  BY <1>2, <1>3 DEF Allocation

LEMMA RecordPickType ==
  ASSUME RowsTypeOK, NEW u \in Workers, NEW a \in AllocationIds,
         NEW q \in Quantities \union {0}, RecordPick(u, a, q)
  PROVE  RowsTypeOK'
<1> DEFINE r == RequestOfAllocation(a)
<1>0. /\ alloc[a] \in Allocation
      /\ r \in RequestIds
      /\ request[r] \in MaterialRequest
  BY AllocationIdParts DEF RowsTypeOK, RequestTypeOK
<1>1. alloc' \in [AllocationIds -> Allocation]
  <2>1. q \in Nat /\ q <= alloc[a].quantity - alloc[a].released
    BY <1>0 DEF RecordPick, PickRange, Allocation
  <2>2. Picked(alloc[a], q) \in Allocation
    BY <1>0, <2>1, PickedType
  <2>3. alloc' = [alloc EXCEPT ![a] = Picked(alloc[a], q)]
    BY DEF RecordPick, PickRange, Picked
  <2>4. QED
    BY <2>2, <2>3 DEF RowsTypeOK, RequestTypeOK
<1>2. request' \in [RequestIds -> MaterialRequest]
  <2>1. PICK state \in {"ready", "in_progress"} :
          request' = [request EXCEPT ![r] =
                        Moved(request[r], state, request[r].claimedBy)]
    BY DEF RecordPick, PickRange
  <2>2. Moved(request[r], state, request[r].claimedBy) \in MaterialRequest
    <3>1. state \in States /\ request[r].claimedBy \in Workers \union {NoWorker}
      BY <1>0 DEF States, MaterialRequest
    <3>2. QED
      BY <1>0, <3>1, RequestRowType
  <2>3. QED
    BY <2>1, <2>2 DEF RowsTypeOK, RequestTypeOK
<1>3. batch' \in [RequestIds -> Workers \union {NoWorker}]
  BY DEF RecordPick, PickRange, RowsTypeOK, RequestTypeOK
<1>4. QED
  BY <1>1, <1>2, <1>3 DEF RecordPick, PickRange, RowsTypeOK, RequestTypeOK, StockTypeOK, stockVars

LEMMA HandedOffRow ==
  ASSUME RowsTypeOK, NEW r \in RequestIds, NEW a \in AllocationIds
  PROVE  /\ HandedOff(r)[a] \in Allocation
         /\ HandedOff(r)[a].quantity = alloc[a].quantity
         /\ HandedOff(r)[a].picked = alloc[a].picked
         /\ HandedOff(r)[a].released = alloc[a].released
         /\ HandedOff(r)[a].confirmed = alloc[a].confirmed
         /\ RequestOfAllocation(a) # r => HandedOff(r)[a] = alloc[a]
         /\ RequestOfAllocation(a) = r =>
              HandedOff(r)[a].issued =
                IF alloc[a].picked > alloc[a].issued
                THEN alloc[a].picked ELSE alloc[a].issued
<1>1. alloc[a] \in Allocation
  BY DEF RowsTypeOK, RequestTypeOK
<1>2. (\E p \in Positions : a \in Issuing(r, p)) <=>
        RequestOfAllocation(a) = r /\ alloc[a].picked > alloc[a].issued
  BY AllocationIdParts DEF Issuing, AllocationsOf
<1>3. CASE RequestOfAllocation(a) = r /\ alloc[a].picked > alloc[a].issued
  BY <1>1, <1>2, <1>3 DEF HandedOff, Allocation
<1>4. CASE ~(RequestOfAllocation(a) = r /\ alloc[a].picked > alloc[a].issued)
  BY <1>1, <1>2, <1>4 DEF HandedOff
<1>5. QED
  BY <1>3, <1>4

\* The rows a hand-off writes besides the request and the batch.
LEMMA IssuePickedType ==
  ASSUME RowsTypeOK, NEW r \in RequestIds, IssuePicked(r)
  PROVE  /\ StockTypeOK'
         /\ alloc' \in [AllocationIds -> Allocation]
<1>1. \A p \in Positions :
        /\ stock[p] \in StockPosition
        /\ IssueAt(r, p) \in 0..(stock[p].onHand - stock[p].quarantined)
        /\ IssueAt(r, p) \in Nat
  <2>1. ASSUME NEW p \in Positions
        PROVE  IssueAt(r, p) \in 0..(stock[p].onHand - stock[p].quarantined)
    BY DEF IssuePicked, CanIssue, Usable
  <2>2. \A p \in Positions : stock[p] \in StockPosition
    BY DEF RowsTypeOK, StockTypeOK
  <2>3. QED
    BY <2>1, <2>2 DEF StockPosition
<1>2. alloc' \in [AllocationIds -> Allocation]
  <2>1. alloc' = HandedOff(r)
    BY DEF IssuePicked
  <2>2. QED
    BY <2>1, HandedOffRow DEF HandedOff
<1>3. stock' \in [Positions -> StockPosition]
  <2>1. ASSUME NEW p \in Positions
        PROVE  [stock[p] EXCEPT !.onHand = @ - IssueAt(r, p),
                                !.version = @ + Cardinality(Issuing(r, p))]
                 \in StockPosition
    <3>1. stock[p].onHand - IssueAt(r, p) \in Nat
      BY <1>1 DEF StockPosition
    <3>2. stock[p].version + Cardinality(Issuing(r, p)) \in Nat
      BY <1>1, IssuingIsFinite DEF StockPosition
    <3>3. QED
      BY <1>1, <3>1, <3>2 DEF StockPosition
  <2>2. QED
    BY <2>1 DEF IssuePicked
<1>4. ledger' \in [Positions -> [EventKinds -> Int]]
  <2>1. ASSUME NEW p \in Positions
        PROVE  [ledger[p] EXCEPT !["material_issue"] = @ + IssueAt(r, p)]
                 \in [EventKinds -> Int]
    <3>1. IssueAt(r, p) \in Int
      BY <1>1
    <3>2. ledger[p] \in [EventKinds -> Int] /\ "material_issue" \in EventKinds
      BY DEF RowsTypeOK, StockTypeOK, EventKinds
    <3>3. QED
      BY <3>1, <3>2
  <2>2. QED
    BY <2>1 DEF IssuePicked
<1>5. outbox' \in [Positions -> Nat]
  <2>1. ASSUME NEW p \in Positions
        PROVE  outbox[p] + Posted(r, p) \in Nat
    BY <1>1 DEF Posted, RowsTypeOK, StockTypeOK
  <2>2. QED
    BY <2>1 DEF IssuePicked
<1>6. QED
  BY <1>2, <1>3, <1>4, <1>5 DEF StockTypeOK

LEMMA HandoffType ==
  ASSUME RowsTypeOK, NEW u \in Workers, NEW r \in RequestIds, Handoff(u, r)
  PROVE  RowsTypeOK'
<1>1. IssuePicked(r)
  BY DEF Handoff
<1>2. StockTypeOK' /\ alloc' \in [AllocationIds -> Allocation]
  BY <1>1, IssuePickedType
<1>3. request' \in [RequestIds -> MaterialRequest]
  <2>1. PICK state \in {"completed", "partially_fulfilled"} :
          request' = [request EXCEPT ![r] = Moved(request[r], state, NoWorker)]
    BY DEF Handoff, IssuePicked
  <2>2. Moved(request[r], state, NoWorker) \in MaterialRequest
    BY RequestRowType DEF RowsTypeOK, RequestTypeOK, States
  <2>3. QED
    BY <2>1, <2>2 DEF RowsTypeOK, RequestTypeOK
<1>4. batch' \in [RequestIds -> Workers \union {NoWorker}]
  BY DEF Handoff, RowsTypeOK, RequestTypeOK
<1>5. QED
  BY <1>2, <1>3, <1>4 DEF RowsTypeOK, RequestTypeOK

LEMMA CancelledRow ==
  ASSUME RowsTypeOK, AllocationWithinQuantity, NEW r \in RequestIds,
         NEW a \in AllocationIds
  PROVE  /\ Cancelled(r)[a] \in Allocation
         /\ RequestOfAllocation(a) # r => Cancelled(r)[a] = alloc[a]
         /\ RequestOfAllocation(a) = r =>
              /\ Cancelled(r)[a].quantity = alloc[a].quantity
              /\ Cancelled(r)[a].picked = alloc[a].picked
              /\ Cancelled(r)[a].issued = alloc[a].issued
              /\ Cancelled(r)[a].released = alloc[a].quantity - alloc[a].issued
<1>1. /\ alloc[a] \in Allocation
      /\ alloc[a].issued <= alloc[a].picked
      /\ alloc[a].picked <= alloc[a].quantity
  BY DEF RowsTypeOK, RequestTypeOK, AllocationWithinQuantity
<1>2. alloc[a].quantity - alloc[a].issued \in Nat
  BY <1>1 DEF Allocation
<1>3. QED
  BY <1>1, <1>2 DEF Cancelled, Allocation

LEMMA CancelType ==
  ASSUME RowsTypeOK, AllocationWithinQuantity, NEW r \in RequestIds, Cancel(r)
  PROVE  RowsTypeOK'
<1>1. alloc' \in [AllocationIds -> Allocation]
  <2>1. alloc' = Cancelled(r)
    BY DEF Cancel, Cancelled
  <2>2. QED
    BY <2>1, CancelledRow DEF Cancelled
<1>2. request' \in [RequestIds -> MaterialRequest]
  <2>1. Moved(request[r], "cancelled", NoWorker) \in MaterialRequest
    BY RequestRowType DEF RowsTypeOK, RequestTypeOK, States
  <2>2. QED
    BY <2>1 DEF Cancel, RowsTypeOK, RequestTypeOK
<1>3. QED
  BY <1>1, <1>2 DEF Cancel, RowsTypeOK, RequestTypeOK, StockTypeOK, stockVars

-----------------------------------------------------------------------------
(***************************************************************************)
(* The inductive invariant.  Claims, allocation bounds and confirmations   *)
(* hold each other up: a hand-off issues what was picked, which fits       *)
(* because nothing picked is ever released while the request lives, which  *)
(* holds because only the claimant picks and only an unpicked remainder    *)
(* can be moved away.                                                      *)
(***************************************************************************)

\* What the three allocation invariants say of one row, given the state of
\* the request it belongs to.
RowOK(row, state) ==
  /\ row.issued <= row.picked
  /\ row.picked <= row.quantity
  /\ row.issued + row.released <= row.quantity
  /\ (row.quantity > 0 /\ state # "cancelled") =>
       /\ row.picked + row.released <= row.quantity
       /\ row.confirmed => row.picked + row.released = row.quantity
       /\ ~row.confirmed => row.picked = 0
  /\ (row.quantity > 0 /\ state = "ready") =>
       /\ row.confirmed
       /\ row.quantity - row.picked - row.released = 0

RowsOK ==
  \A a \in AllocationIds : RowOK(alloc[a], request[RequestOfAllocation(a)].state)

\* What ClaimMatchesState says of one request.
ClaimOK(row, worker) ==
  /\ row.claimedBy # NoWorker <=> row.state \in ClaimedStates
  /\ worker # NoWorker => row.state = "cancelled" \/ worker = row.claimedBy
  /\ row.state = "ready" => worker # NoWorker

IInv ==
  /\ RowsTypeOK
  /\ \A r \in RequestIds : ClaimOK(request[r], batch[r])
  /\ RowsOK

LEMMA IInvMeaning ==
  /\ (\A r \in RequestIds : ClaimOK(request[r], batch[r])) <=> ClaimMatchesState
  /\ RowsOK <=> AllocationWithinQuantity /\ PickedIsHeld /\ ReadyMeansPicked
<1>1. (\A r \in RequestIds : ClaimOK(request[r], batch[r])) <=> ClaimMatchesState
  BY DEF ClaimOK, ClaimMatchesState
<1>2. RowsOK <=> AllocationWithinQuantity /\ PickedIsHeld /\ ReadyMeansPicked
  BY DEF RowsOK, RowOK, AllocationWithinQuantity, PickedIsHeld, ReadyMeansPicked,
         Exists, Transferable
<1>3. QED
  BY <1>1, <1>2

LEMMA InitIInv == Init => IInv
<1> SUFFICES ASSUME Init PROVE IInv
  OBVIOUS
<1>1. RowsTypeOK
  BY InitRowsType
<1>2. \A r \in RequestIds : ClaimOK(request[r], batch[r])
  BY DEF Init, ClaimOK, ClaimedStates
<1>3. RowsOK
  BY AllocationIdParts DEF Init, RowsOK, RowOK, NoAllocation
<1>4. QED
  BY <1>1, <1>2, <1>3 DEF IInv

\* A fresh allocation row is in order unless its request is ready.
LEMMA NewRowOK ==
  ASSUME NEW q \in Nat, NEW state, state # "ready"
  PROVE  RowOK(NewAllocation(q), state)
BY DEF RowOK, NewAllocation, NoAllocation

\* A row in order stays in order when the state of its request changes
\* between states that are neither cancelled nor ready.
LEMMA RowOKState ==
  ASSUME NEW row \in Allocation, NEW state, NEW other, RowOK(row, state),
         state # "cancelled", other # "ready"
  PROVE  RowOK(row, other)
BY DEF RowOK

LEMMA CreateDraftIInv ==
  ASSUME IInv, NEW r \in RequestIds, NEW demand \in Demands(r),
         CreateDraft(r, demand)
  PROVE  IInv'
<1>1. RowsTypeOK'
  BY CreateType DEF IInv
<1>2. request' = [request EXCEPT ![r] = Moved(request[r], "draft", NoWorker)]
      /\ request \in [RequestIds -> MaterialRequest]
  BY DEF CreateDraft, IInv, RowsTypeOK, RequestTypeOK
<1>3. ASSUME NEW s \in RequestIds
      PROVE  ClaimOK(request[s], batch[s])'
  BY <1>2 DEF IInv, ClaimOK, ClaimedStates, CreateDraft, Moved
<1>4. ASSUME NEW a \in AllocationIds
      PROVE  RowOK(alloc[a], request[RequestOfAllocation(a)].state)'
  <2>1. /\ alloc[a] \in Allocation
        /\ RequestOfAllocation(a) \in RequestIds
        /\ RowOK(alloc[a], request[RequestOfAllocation(a)].state)
    BY AllocationIdParts DEF IInv, RowsOK, RowsTypeOK, RequestTypeOK
  <2>2. /\ alloc'[a] = alloc[a]
        /\ request'[RequestOfAllocation(a)].state =
             IF RequestOfAllocation(a) = r THEN "draft"
             ELSE request[RequestOfAllocation(a)].state
    BY <1>2, <2>1 DEF CreateDraft, Moved
  <2>3. RequestOfAllocation(a) = r =>
          request[RequestOfAllocation(a)].state = "absent"
    BY DEF CreateDraft
  <2>4. QED
    BY <2>1, <2>2, <2>3, RowOKState
<1>5. QED
  BY <1>1, <1>3, <1>4 DEF IInv, RowsOK

\* Submission starts from a request nobody holds and adds unpicked rows.
LEMMA SubmittedIInv ==
  ASSUME IInv, NEW r \in RequestIds, NEW demand, NEW version \in Nat,
         request[r].state \in {"absent", "draft"},
         DOMAIN demand \subseteq LinesOf(r),
         Submitted(r, demand, version),
         UNCHANGED batch
  PROVE  /\ \A s \in RequestIds : ClaimOK(request[s], batch[s])'
         /\ RowsOK'
<1>1. /\ request' = [request EXCEPT ![r] =
                       [state |-> "submitted", claimedBy |-> request[r].claimedBy,
                        version |-> version]]
      /\ request \in [RequestIds -> MaterialRequest]
  BY DEF Submitted, IInv, RowsTypeOK, RequestTypeOK
<1>2. PICK fill \in [Servable(DOMAIN demand) -> Amounts] :
        alloc' = [a \in AllocationIds |->
                    LET s == <<LineOf(a), PositionOf(a)>>
                    IN  IF a[3] = 1 /\ s \in Servable(DOMAIN demand) /\ fill[s] > 0
                        THEN NewAllocation(fill[s])
                        ELSE alloc[a]]
  BY DEF Submitted
<1>3. Amounts \subseteq Nat
  BY DEF Amounts
<1>4. ASSUME NEW s \in RequestIds
      PROVE  ClaimOK(request[s], batch[s])'
  BY <1>1 DEF IInv, ClaimOK, ClaimedStates
<1>5. ASSUME NEW a \in AllocationIds
      PROVE  RowOK(alloc[a], request[RequestOfAllocation(a)].state)'
  <2> DEFINE s == RequestOfAllocation(a)
  <2>1. /\ alloc[a] \in Allocation
        /\ s \in RequestIds
        /\ RowOK(alloc[a], request[s].state)
    BY AllocationIdParts DEF IInv, RowsOK, RowsTypeOK, RequestTypeOK
  <2>2. request'[s].state = IF s = r THEN "submitted" ELSE request[s].state
    BY <1>1, <2>1
  <2>3. RowOK(alloc[a], request'[s].state)
    BY <2>1, <2>2, RowOKState
  <2>4. CASE alloc'[a] = alloc[a]
    BY <2>3, <2>4
  <2>5. CASE alloc'[a] # alloc[a]
    <3> DEFINE place == <<LineOf(a), PositionOf(a)>>
    <3>0. /\ place \in Servable(DOMAIN demand)
          /\ fill[place] > 0
          /\ alloc'[a] = NewAllocation(fill[place])
      BY <1>2, <2>5
    <3>1. LineOf(a) \in DOMAIN demand
      BY <3>0 DEF Servable
    <3>2. fill[place] \in Nat
      BY <1>3, <3>0
    <3>3. alloc'[a] = NewAllocation(fill[place]) /\ fill[place] > 0
      BY <3>0
    <3>4. request'[s].state # "ready"
      BY <2>2, <3>1 DEF LinesOf, RequestOfAllocation
    <3>5. QED
      BY <3>2, <3>3, <3>4, NewRowOK
  <2>6. QED
    BY <2>4, <2>5
<1>6. QED
  BY <1>4, <1>5 DEF RowsOK

LEMMA CreateAndSubmitIInv ==
  ASSUME IInv, NEW r \in RequestIds, NEW demand \in Demands(r),
         CreateAndSubmit(r, demand)
  PROVE  IInv'
<1>1. RowsTypeOK'
  BY CreateType DEF IInv
<1>2. DOMAIN demand \subseteq LinesOf(r)
  BY DEF Demands
<1>3. QED
  BY <1>1, <1>2, SubmittedIInv DEF IInv, CreateAndSubmit

LEMMA SubmitIInv ==
  ASSUME IInv, NEW r \in RequestIds, Submit(r)
  PROVE  IInv'
<1> DEFINE demand == [l \in {m \in LinesOf(r) : HasLine(m)} |-> line[l].requested]
<1>1. RowsTypeOK'
  BY SubmitType DEF IInv
<1>2. DOMAIN demand \subseteq LinesOf(r)
  OBVIOUS
<1>3. request[r].version + 1 \in Nat
  BY DEF IInv, RowsTypeOK, RequestTypeOK, MaterialRequest
<1>4. Submitted(r, demand, request[r].version + 1)
  BY DEF Submit
<1> HIDE DEF demand
<1>5. QED
  BY <1>1, <1>2, <1>3, <1>4, SubmittedIInv DEF IInv, Submit

LEMMA ClaimIInv ==
  ASSUME IInv, NEW u \in Workers, NEW r \in RequestIds, ClaimLocked(u, r)
  PROVE  IInv'
<1>1. RowsTypeOK'
  BY ClaimType DEF IInv
<1>2. /\ request' = [request EXCEPT ![r] = Moved(request[r], "claimed", u)]
      /\ request \in [RequestIds -> MaterialRequest]
      /\ request[r].state \in ClaimableStates
      /\ UNCHANGED <<alloc, batch>>
  BY DEF ClaimLocked, IInv, RowsTypeOK, RequestTypeOK
<1>3. ASSUME NEW s \in RequestIds
      PROVE  ClaimOK(request[s], batch[s])'
  BY <1>2 DEF IInv, ClaimOK, ClaimedStates, ClaimableStates, Moved
<1>4. ASSUME NEW a \in AllocationIds
      PROVE  RowOK(alloc[a], request[RequestOfAllocation(a)].state)'
  <2>1. /\ alloc[a] \in Allocation
        /\ RequestOfAllocation(a) \in RequestIds
        /\ RowOK(alloc[a], request[RequestOfAllocation(a)].state)
    BY AllocationIdParts DEF IInv, RowsOK, RowsTypeOK, RequestTypeOK
  <2>2. /\ alloc'[a] = alloc[a]
        /\ request'[RequestOfAllocation(a)].state =
             IF RequestOfAllocation(a) = r THEN "claimed"
             ELSE request[RequestOfAllocation(a)].state
    BY <1>2, <2>1 DEF Moved
  <2>3. RequestOfAllocation(a) = r =>
          request[RequestOfAllocation(a)].state # "cancelled"
    BY <1>2 DEF ClaimableStates
  <2>4. QED
    BY <2>1, <2>2, <2>3, RowOKState
<1>5. QED
  BY <1>1, <1>3, <1>4 DEF IInv, RowsOK

\* Moving the unpicked part of an allocation keeps both rows in order.  The
\* source was not confirmed, since a confirmed one has nothing to transfer.
LEMMA TransferRows ==
  ASSUME IInv, NEW source \in AllocationIds, NEW new \in AllocationIds,
         NEW q \in Quantities, TransferStep(source, new, q),
         request[RequestOfAllocation(source)].state # "cancelled",
         RequestOfAllocation(source) # RequestOfAllocation(new) =>
           request[RequestOfAllocation(new)].state # "ready",
         NEW a \in AllocationIds
  PROVE  RowOK(alloc'[a], request[RequestOfAllocation(a)].state)
<1>1. /\ alloc \in [AllocationIds -> Allocation]
      /\ alloc[source] \in Allocation
      /\ q \in Nat /\ q > 0
      /\ source # new
      /\ \A b \in AllocationIds :
           RowOK(alloc[b], request[RequestOfAllocation(b)].state)
  BY DEF IInv, RowsOK, RowsTypeOK, RequestTypeOK, TransferStep, Transfer
<1>2. /\ alloc[source].quantity > 0
      /\ q <= alloc[source].quantity - alloc[source].picked - alloc[source].released
  BY DEF TransferStep, Transfer, Exists, Transferable
<1>3. /\ ~alloc[source].confirmed
      /\ request[RequestOfAllocation(source)].state # "ready"
  BY <1>1, <1>2 DEF RowOK, Allocation
<1>4. CASE a = source
  <2>1. alloc'[a] = Release(alloc[source], q)
    BY <1>1, <1>4 DEF TransferStep, Transfer
  <2>2. RowOK(Release(alloc[source], q), request[RequestOfAllocation(source)].state)
    <3> DEFINE row == alloc[source]
               after == Release(row, q)
    <3>1. /\ row.quantity \in Nat /\ row.picked \in Nat
          /\ row.issued \in Nat /\ row.released \in Nat
      BY <1>1 DEF Allocation
    <3>2. /\ row.issued <= row.picked /\ row.picked = 0
          /\ row.issued + row.released <= row.quantity
      BY <1>1, <1>2, <1>3 DEF RowOK
    <3>3. /\ after.quantity = row.quantity /\ after.picked = row.picked
          /\ after.issued = row.issued /\ after.released = row.released + q
          /\ after.confirmed <=> row.issued + row.released + q = row.quantity
      BY <1>1, <1>3, ReleaseType
    <3> HIDE DEF row, after
    <3>4. /\ after.issued <= after.picked /\ after.picked <= after.quantity
          /\ after.issued + after.released <= after.quantity
          /\ after.picked + after.released <= after.quantity
          /\ after.confirmed => after.picked + after.released = after.quantity
          /\ after.picked = 0
      BY <1>1, <1>2, <3>1, <3>2, <3>3 DEF row
    <3>5. QED
      BY <1>3, <3>4 DEF RowOK, row, after
  <2>3. QED
    BY <1>4, <2>1, <2>2
<1>5. CASE a = new
  <2>1. alloc'[a] = NewAllocation(q)
    BY <1>1, <1>5 DEF TransferStep, Transfer
  <2>2. request[RequestOfAllocation(new)].state # "ready"
    BY <1>3
  <2>3. QED
    BY <1>1, <1>5, <2>1, <2>2, NewRowOK
<1>6. CASE a # source /\ a # new
  <2>1. alloc'[a] = alloc[a]
    BY <1>1, <1>6 DEF TransferStep, Transfer
  <2>2. QED
    BY <1>1, <2>1
<1>7. QED
  BY <1>4, <1>5, <1>6

\* Bumping versions changes neither states nor claims.
LEMMA SameStates ==
  ASSUME IInv,
         \A r \in RequestIds : /\ request'[r].state = request[r].state
                               /\ request'[r].claimedBy = request[r].claimedBy,
         UNCHANGED batch,
         \A a \in AllocationIds :
           RowOK(alloc'[a], request[RequestOfAllocation(a)].state)
  PROVE  /\ \A r \in RequestIds : ClaimOK(request[r], batch[r])'
         /\ RowsOK'
<1>1. \A r \in RequestIds : ClaimOK(request[r], batch[r])'
  BY DEF IInv, ClaimOK
<1>2. RowsOK'
  BY AllocationIdParts DEF RowsOK
<1>3. QED
  BY <1>1, <1>2

LEMMA ReallocateIInv ==
  ASSUME IInv, NEW source \in AllocationIds, NEW new \in AllocationIds,
         NEW q \in Quantities, Reallocate(source, new, q)
  PROVE  IInv'
<1>1. RowsTypeOK'
  BY ReallocateType DEF IInv
<1>2. \A r \in RequestIds : /\ request'[r].state = request[r].state
                            /\ request'[r].claimedBy = request[r].claimedBy
  BY AllocationIdParts
     DEF Reallocate, IInv, RowsTypeOK, RequestTypeOK, Bumped, Moved
<1>3. ASSUME NEW a \in AllocationIds
      PROVE  RowOK(alloc'[a], request[RequestOfAllocation(a)].state)
  <2>1. TransferStep(source, new, q)
    BY DEF Reallocate, TransferStep, Transfer, IsNextId
  <2>2. /\ request[RequestOfAllocation(source)].state \in ReallocatableStates
        /\ request[RequestOfAllocation(new)].state \in ReallocatableStates
    BY DEF Reallocate
  <2>3. QED
    BY <2>1, <2>2, TransferRows DEF ReallocatableStates, ClaimableStates
<1>4. UNCHANGED batch
  BY DEF Reallocate
<1>5. QED
  BY <1>1, <1>2, <1>3, <1>4, SameStates DEF IInv

LEMMA SubstituteIInv ==
  ASSUME IInv, NEW u \in Workers,
         NEW source \in AllocationIds, NEW new \in AllocationIds,
         NEW q \in Quantities, Substitute(u, source, new, q)
  PROVE  IInv'
<1>1. RowsTypeOK'
  BY SubstituteType DEF IInv
<1>2. \A r \in RequestIds : /\ request'[r].state = request[r].state
                            /\ request'[r].claimedBy = request[r].claimedBy
  BY AllocationIdParts
     DEF Substitute, IInv, RowsTypeOK, RequestTypeOK, Bumped, Moved
<1>3. ASSUME NEW a \in AllocationIds
      PROVE  RowOK(alloc'[a], request[RequestOfAllocation(a)].state)
  <2>1. TransferStep(source, new, q)
    BY DEF Substitute, TransferStep, Transfer, IsNextId
  <2>2. RequestOfAllocation(source) = RequestOfAllocation(new)
    BY DEF Substitute, RequestOfAllocation
  <2>3. request[RequestOfAllocation(source)].state # "cancelled"
    BY AllocationIdParts DEF Substitute, IInv, ClaimOK, ClaimedStates
  <2>4. QED
    BY <2>1, <2>2, <2>3, TransferRows
<1>4. UNCHANGED batch
  BY DEF Substitute
<1>5. QED
  BY <1>1, <1>2, <1>3, <1>4, SameStates DEF IInv

LEMMA RecordPickIInv ==
  ASSUME IInv, NEW u \in Workers, NEW a \in AllocationIds,
         NEW q \in Quantities \union {0}, RecordPick(u, a, q)
  PROVE  IInv'
<1> DEFINE r == RequestOfAllocation(a)
           state == IF AllConfirmed(r) THEN "ready" ELSE "in_progress"
<1>0. /\ alloc \in [AllocationIds -> Allocation]
      /\ request \in [RequestIds -> MaterialRequest]
      /\ batch \in [RequestIds -> Workers \union {NoWorker}]
      /\ r \in RequestIds
      /\ alloc[a] \in Allocation
      /\ ClaimOK(request[r], batch[r])
      /\ request[r].claimedBy = u
  BY AllocationIdParts DEF IInv, RowsTypeOK, RequestTypeOK, RecordPick, PickRange
<1>1. RowsTypeOK'
  BY RecordPickType DEF IInv
<1>2. /\ request' = [request EXCEPT ![r] = Moved(request[r], state, u)]
      /\ batch' = [batch EXCEPT ![r] = IF batch[r] = NoWorker THEN u ELSE batch[r]]
  BY <1>0 DEF RecordPick, PickRange
<1>3. request[r].state \in ClaimedStates /\ request[r].state # "cancelled"
  BY <1>0 DEF ClaimOK, ClaimedStates
<1>4. ASSUME NEW s \in RequestIds
      PROVE  ClaimOK(request[s], batch[s])'
  <2>1. CASE s = r
    <3>1. batch'[r] = u
      BY <1>0, <1>2, <1>3 DEF ClaimOK
    <3>2. request'[r].state \in {"ready", "in_progress"} /\ request'[r].claimedBy = u
      BY <1>0, <1>2 DEF Moved
    <3>3. QED
      BY <2>1, <3>1, <3>2 DEF ClaimOK, ClaimedStates
  <2>2. CASE s # r
    BY <1>0, <1>2, <2>2 DEF IInv, ClaimOK
  <2>3. QED
    BY <2>1, <2>2
<1>5. alloc' = [alloc EXCEPT ![a] = Picked(alloc[a], q)]
  BY DEF RecordPick, PickRange, Picked
<1>6. q \in Nat /\ alloc[a].issued <= q /\ q <= alloc[a].quantity - alloc[a].released
  BY <1>0 DEF RecordPick, PickRange, Allocation
<1>7. RowOK(alloc'[a], request'[r].state)
  <2>1. alloc'[a] = Picked(alloc[a], q)
    BY <1>0, <1>5
  <2>2. RowOK(alloc[a], request[r].state)
    BY DEF IInv, RowsOK
  <2>3. alloc[a].issued + (alloc[a].quantity - q) <= alloc[a].quantity
    BY <1>0, <1>6 DEF Allocation
  <2>4. alloc[a].quantity \in Nat /\ alloc[a].released \in Nat
    BY <1>0 DEF Allocation
  <2>5. QED
    BY <1>0, <1>6, <2>1, <2>2, <2>3, <2>4, PickedType DEF RowOK
<1>8. ASSUME NEW b \in AllocationIds
      PROVE  RowOK(alloc'[b], request'[RequestOfAllocation(b)].state)
  <2>1. CASE b = a
    BY <1>7, <2>1
  <2>2. CASE b # a
    <3>1. /\ alloc'[b] = alloc[b]
          /\ alloc[b] \in Allocation
          /\ RequestOfAllocation(b) \in RequestIds
          /\ RowOK(alloc[b], request[RequestOfAllocation(b)].state)
      BY <1>0, <1>5, <2>2, AllocationIdParts DEF IInv, RowsOK
    <3>2. CASE RequestOfAllocation(b) # r
      BY <1>0, <1>2, <3>1, <3>2
    <3>3. CASE RequestOfAllocation(b) = r /\ AllConfirmed(r)
      <4>1. request'[r].state = "ready"
        BY <1>0, <1>2, <3>3 DEF Moved
      <4>2. alloc[b].quantity > 0 => alloc[b].confirmed
        BY <3>3 DEF AllConfirmed, AllocationsOf, Exists
      <4>3. QED
        BY <1>3, <3>1, <3>3, <4>1, <4>2 DEF RowOK, Allocation
    <3>4. CASE RequestOfAllocation(b) = r /\ ~AllConfirmed(r)
      <4>1. request'[r].state = "in_progress"
        BY <1>0, <1>2, <3>4 DEF Moved
      <4>2. QED
        BY <1>3, <3>1, <3>4, <4>1, RowOKState
    <3>5. QED
      BY <3>2, <3>3, <3>4
  <2>3. QED
    BY <2>1, <2>2
<1>9. QED
  BY <1>1, <1>4, <1>8 DEF IInv, RowsOK

LEMMA HandoffIInv ==
  ASSUME IInv, NEW u \in Workers, NEW r \in RequestIds, Handoff(u, r)
  PROVE  IInv'
<1>0. /\ alloc \in [AllocationIds -> Allocation]
      /\ request \in [RequestIds -> MaterialRequest]
      /\ batch \in [RequestIds -> Workers \union {NoWorker}]
      /\ request[r].state = "ready"
      /\ RowsTypeOK
  BY DEF IInv, RowsTypeOK, RequestTypeOK, Handoff, IssuePicked
<1>1. RowsTypeOK'
  BY HandoffType DEF IInv
<1>2. PICK state \in {"completed", "partially_fulfilled"} :
        request' = [request EXCEPT ![r] = Moved(request[r], state, NoWorker)]
  BY DEF Handoff, IssuePicked
<1>3. ASSUME NEW s \in RequestIds
      PROVE  ClaimOK(request[s], batch[s])'
  <2>1. batch' = [batch EXCEPT ![r] = NoWorker]
    BY DEF Handoff, IssuePicked
  <2>2. CASE s = r
    BY <1>0, <1>2, <2>1, <2>2 DEF ClaimOK, ClaimedStates, Moved
  <2>3. CASE s # r
    BY <1>0, <1>2, <2>1, <2>3 DEF IInv, ClaimOK
  <2>4. QED
    BY <2>2, <2>3
<1>4. ASSUME NEW a \in AllocationIds
      PROVE  RowOK(alloc'[a], request'[RequestOfAllocation(a)].state)
  <2>1. /\ alloc'[a] = HandedOff(r)[a]
        /\ alloc[a] \in Allocation
        /\ RequestOfAllocation(a) \in RequestIds
        /\ RowOK(alloc[a], request[RequestOfAllocation(a)].state)
    BY <1>0, AllocationIdParts DEF Handoff, IssuePicked, HandedOff, IInv, RowsOK
  <2>2. CASE RequestOfAllocation(a) # r
    BY <1>0, <1>2, <2>1, <2>2, HandedOffRow
  <2>3. CASE RequestOfAllocation(a) = r
    <3>1. /\ request'[r].state # "ready"
          /\ request'[r].state # "cancelled"
      BY <1>0, <1>2 DEF Moved
    <3>2. /\ HandedOff(r)[a].quantity = alloc[a].quantity
          /\ HandedOff(r)[a].picked = alloc[a].picked
          /\ HandedOff(r)[a].released = alloc[a].released
          /\ HandedOff(r)[a].confirmed = alloc[a].confirmed
          /\ HandedOff(r)[a].issued = IF alloc[a].picked > alloc[a].issued
                                      THEN alloc[a].picked ELSE alloc[a].issued
      BY <1>0, <2>3, HandedOffRow
    <3>3. QED
      BY <1>0, <2>1, <2>3, <3>1, <3>2 DEF RowOK, Allocation
  <2>4. QED
    BY <2>2, <2>3
<1>5. QED
  BY <1>1, <1>3, <1>4 DEF IInv, RowsOK

LEMMA CancelIInv ==
  ASSUME IInv, NEW r \in RequestIds, Cancel(r)
  PROVE  IInv'
<1>0. /\ alloc \in [AllocationIds -> Allocation]
      /\ request \in [RequestIds -> MaterialRequest]
      /\ batch \in [RequestIds -> Workers \union {NoWorker}]
      /\ RowsTypeOK
      /\ AllocationWithinQuantity
  BY IInvMeaning DEF IInv, RowsTypeOK, RequestTypeOK
<1>1. RowsTypeOK'
  BY <1>0, CancelType
<1>2. /\ request' = [request EXCEPT ![r] = Moved(request[r], "cancelled", NoWorker)]
      /\ batch' = batch
  BY DEF Cancel
<1>3. ASSUME NEW s \in RequestIds
      PROVE  ClaimOK(request[s], batch[s])'
  <2>1. CASE s = r
    BY <1>0, <1>2, <2>1 DEF ClaimOK, ClaimedStates, Moved
  <2>2. CASE s # r
    BY <1>0, <1>2, <2>2 DEF IInv, ClaimOK
  <2>3. QED
    BY <2>1, <2>2
<1>4. ASSUME NEW a \in AllocationIds
      PROVE  RowOK(alloc'[a], request'[RequestOfAllocation(a)].state)
  <2>1. /\ alloc'[a] = Cancelled(r)[a]
        /\ alloc[a] \in Allocation
        /\ RequestOfAllocation(a) \in RequestIds
        /\ RowOK(alloc[a], request[RequestOfAllocation(a)].state)
    BY <1>0, AllocationIdParts DEF Cancel, Cancelled, IInv, RowsOK
  <2>2. CASE RequestOfAllocation(a) # r
    BY <1>0, <1>2, <2>1, <2>2, CancelledRow
  <2>3. CASE RequestOfAllocation(a) = r
    <3>1. request'[r].state = "cancelled"
      BY <1>0, <1>2 DEF Moved
    <3>2. QED
      BY <1>0, <2>1, <2>3, <3>1, CancelledRow DEF RowOK, Allocation
  <2>4. QED
    BY <2>2, <2>3
<1>5. QED
  BY <1>1, <1>3, <1>4 DEF IInv, RowsOK

\* Every step of the workflow preserves the invariant.
LEMMA NextIInv ==
  ASSUME IInv, [RequestNext]_vars
  PROVE  IInv'
<1>1. ASSUME NEW r \in RequestIds, NEW demand \in Demands(r),
             CreateDraft(r, demand) \/ CreateAndSubmit(r, demand)
      PROVE  IInv'
  BY <1>1, CreateDraftIInv, CreateAndSubmitIInv
<1>2. ASSUME NEW r \in RequestIds, Submit(r) \/ Cancel(r)
      PROVE  IInv'
  BY <1>2, SubmitIInv, CancelIInv
<1>3. ASSUME NEW r \in RequestIds, NEW u \in Workers, Claim(u, r) \/ Handoff(u, r)
      PROVE  IInv'
  BY <1>3, ClaimIInv, HandoffIInv DEF Claim
<1>4. ASSUME NEW u \in Workers, ClaimNext(u)
      PROVE  IInv'
  BY <1>4, ClaimIInv DEF ClaimNext
<1>5. ASSUME NEW source \in AllocationIds, NEW new \in AllocationIds,
             NEW q \in Quantities, Reallocate(source, new, q)
      PROVE  IInv'
  BY <1>5, ReallocateIInv
<1>6. ASSUME NEW source \in AllocationIds, NEW new \in AllocationIds,
             NEW q \in Quantities, NEW u \in Workers, Substitute(u, source, new, q)
      PROVE  IInv'
  BY <1>6, SubstituteIInv
<1>7. ASSUME NEW a \in AllocationIds, NEW u \in Workers,
             NEW q \in Quantities \union {0}, RecordPick(u, a, q)
      PROVE  IInv'
  BY <1>7, RecordPickIInv
<1>8. CASE UNCHANGED vars
  BY <1>8 DEF IInv, RowsTypeOK, RequestTypeOK, StockTypeOK, RowsOK, ClaimOK,
              vars, stockVars, requestVars
<1>9. QED
  BY <1>1, <1>2, <1>3, <1>4, <1>5, <1>6, <1>7, <1>8 DEF RequestNext

\* The conjunction of the row invariants is inductive and holds always.
THEOREM RequestsInvariant == Spec => []IInv
<1>1. Init => IInv
  BY InitIInv
<1>2. IInv /\ [RequestNext]_vars => IInv'
  BY NextIInv
<1>3. QED
  BY <1>1, <1>2, PTL DEF Spec

\* Every row keeps its type: no quantity, version or ledger total of the
\* workflow ever leaves its range, on_hand and released_qty included.
THEOREM RowsTypeCorrect == Spec => []RowsTypeOK
<1>1. IInv => RowsTypeOK
  BY DEF IInv
<1>2. QED
  BY <1>1, RequestsInvariant, PTL

\* A request is claimed exactly while it is being fulfilled, and its open
\* picking batch belongs to the claimant.
THEOREM ClaimsAreCoherent == Spec => []ClaimMatchesState
<1>1. IInv => ClaimMatchesState
  BY IInvMeaning DEF IInv
<1>2. QED
  BY <1>1, RequestsInvariant, PTL

\* The CHECK constraints of the allocations table never fire.
THEOREM AllocationsAreBounded == Spec => []AllocationWithinQuantity
<1>1. IInv => AllocationWithinQuantity
  BY IInvMeaning DEF IInv
<1>2. QED
  BY <1>1, RequestsInvariant, PTL

\* Picked material stays with the allocation until it is issued or the
\* request is cancelled.
THEOREM PickedMaterialIsHeld == Spec => []PickedIsHeld
<1>1. IInv => PickedIsHeld
  BY IInvMeaning DEF IInv
<1>2. QED
  BY <1>1, RequestsInvariant, PTL

\* A ready request has nothing left to pick.
THEOREM ReadyRequestsArePicked == Spec => []ReadyMeansPicked
<1>1. IInv => ReadyMeansPicked
  BY IInvMeaning DEF IInv
<1>2. QED
  BY <1>1, RequestsInvariant, PTL

-----------------------------------------------------------------------------
(***************************************************************************)
(* What a step of the request workflow may never do.  Each step has a      *)
(* footprint, the requests whose rows it may change: one request, or two   *)
(* that nobody has claimed.  It raises their versions and none of them is  *)
(* closed.  And a row is issued once, because what has been issued of an   *)
(* allocation is all that it still holds.                                  *)
(***************************************************************************)

\* A request that was not created has no version, and one that was not
\* submitted no allocations; what has been issued of an allocation is all that
\* was not released.
IssuedOK(row) == row.issued > 0 => row.issued + row.released = row.quantity

HistoryOK ==
  /\ \A r \in RequestIds : request[r].state = "absent" => request[r].version = 0
  /\ \A a \in AllocationIds :
       /\ request[RequestOfAllocation(a)].state \in {"absent", "draft"} =>
            alloc[a].quantity = 0
       /\ IssuedOK(alloc[a])

Footprint(touched) ==
  /\ touched \subseteq RequestIds
  /\ \A r \in touched :
       /\ request'[r].version > request[r].version
       /\ request[r].state \notin ClosedStates
       /\ request'[r].state # "absent"
       /\ request'[r].state = "draft" => request[r].state = "absent" /\ alloc' = alloc
  /\ \A r \in touched : \A s \in touched :
       r # s => request[r].claimedBy = NoWorker /\ request[s].claimedBy = NoWorker
  /\ \A r \in RequestIds \ touched : request'[r] = request[r]
  /\ \A l \in LineIds : RequestOf[l] \notin touched => line'[l] = line[l]
  /\ \A a \in AllocationIds : RequestOfAllocation(a) \notin touched => alloc'[a] = alloc[a]

\* A step that writes the row of one request and lines and allocations of that
\* request only.
LEMMA OneRequest ==
  ASSUME IInv, NEW r \in RequestIds, NEW row,
         request' = [request EXCEPT ![r] = row],
         row.version > request[r].version, row.state # "absent",
         row.state = "draft" => request[r].state = "absent" /\ alloc' = alloc,
         request[r].state \notin ClosedStates,
         \A l \in LineIds : RequestOf[l] # r => line'[l] = line[l],
         \A a \in AllocationIds : RequestOfAllocation(a) # r => alloc'[a] = alloc[a]
  PROVE  Footprint({r})
<1>1. request \in [RequestIds -> MaterialRequest]
  BY DEF IInv, RowsTypeOK, RequestTypeOK
<1>2. request'[r] = row /\ \A s \in RequestIds \ {r} : request'[s] = request[s]
  BY <1>1
<1>3. /\ request'[r].version > request[r].version
      /\ request'[r].state # "absent"
      /\ request'[r].state = "draft" => request[r].state = "absent" /\ alloc' = alloc
  BY <1>2
<1>4. \A s \in RequestIds \ {r} : request'[s] = request[s]
  BY <1>2
<1>5. QED
  BY <1>3, <1>4 DEF Footprint

LEMMA RefreshedLines ==
  ASSUME IInv, NEW rows, NEW ls, line' = RefreshLines(rows, ls), NEW l \in LineIds, l \notin ls
  PROVE  line'[l] = line[l]
BY DEF RefreshLines

LEMMA OneMoved ==
  ASSUME IInv, NEW r \in RequestIds, NEW state, NEW worker,
         request' = [request EXCEPT ![r] = Moved(request[r], state, worker)],
         state # "absent",
         state = "draft" => request[r].state = "absent" /\ alloc' = alloc,
         request[r].state \notin ClosedStates,
         \A l \in LineIds : RequestOf[l] # r => line'[l] = line[l],
         \A a \in AllocationIds : RequestOfAllocation(a) # r => alloc'[a] = alloc[a]
  PROVE  Footprint({r})
<1> DEFINE row == Moved(request[r], state, worker)
<1>1. request[r].version \in Nat
  BY DEF IInv, RowsTypeOK, RequestTypeOK, MaterialRequest
<1>2. /\ row.version > request[r].version /\ row.state # "absent"
      /\ row.state = "draft" => request[r].state = "absent" /\ alloc' = alloc
  BY <1>1 DEF Moved
<1> HIDE DEF row
<1>3. request' = [request EXCEPT ![r] = row]
  BY DEF row
<1>4. QED
  BY <1>2, <1>3, OneRequest

-----------------------------------------------------------------------------
(***************************************************************************)
(* The footprint of each action                                            *)
(***************************************************************************)
LEMMA CreateDraftFootprint ==
  ASSUME IInv, NEW r \in RequestIds, NEW demand \in Demands(r), CreateDraft(r, demand)
  PROVE  Footprint({r})
<1>1. DOMAIN demand \subseteq LinesOf(r)
  BY DEF Demands
<1>2. request' = [request EXCEPT ![r] = Moved(request[r], "draft", NoWorker)]
  BY DEF CreateDraft
<1>3. \A l \in LineIds : RequestOf[l] # r => line'[l] = line[l]
  BY <1>1 DEF CreateDraft, LinesOf
<1>4. alloc' = alloc /\ request[r].state = "absent"
  BY DEF CreateDraft
<1>5. request[r].state \notin ClosedStates
  BY DEF CreateDraft, ClosedStates
<1>6. QED
  BY <1>2, <1>3, <1>4, <1>5, OneMoved

LEMMA SubmittedFootprint ==
  ASSUME IInv, NEW r \in RequestIds, NEW demand, NEW version \in Nat,
         version > request[r].version,
         request[r].state \in {"absent", "draft"},
         DOMAIN demand \subseteq LinesOf(r),
         Submitted(r, demand, version)
  PROVE  Footprint({r})
<1> DEFINE row == [state |-> "submitted", claimedBy |-> request[r].claimedBy,
                   version |-> version]
<1>1. request' = [request EXCEPT ![r] = row]
  BY DEF Submitted
<1>2. row.version > request[r].version /\ row.state \notin {"absent", "draft"}
  OBVIOUS
<1>3. \A l \in LineIds : RequestOf[l] # r => line'[l] = line[l]
  BY DEF Submitted, LinesOf
<1>4. \A a \in AllocationIds : RequestOfAllocation(a) # r => alloc'[a] = alloc[a]
  <2>1. PICK fill \in [Servable(DOMAIN demand) -> Amounts] :
          alloc' = [a \in AllocationIds |->
                      LET s == <<LineOf(a), PositionOf(a)>>
                      IN  IF a[3] = 1 /\ s \in Servable(DOMAIN demand) /\ fill[s] > 0
                          THEN NewAllocation(fill[s])
                          ELSE alloc[a]]
    BY DEF Submitted
  <2>2. ASSUME NEW a \in AllocationIds, RequestOfAllocation(a) # r
        PROVE  <<LineOf(a), PositionOf(a)>> \notin Servable(DOMAIN demand)
    BY <2>2 DEF Servable, RequestOfAllocation, LinesOf
  <2>3. QED
    BY <2>1, <2>2
<1>5. request[r].state \notin ClosedStates
  BY DEF ClosedStates
<1> HIDE DEF row
<1>6. QED
  BY <1>1, <1>2, <1>3, <1>4, <1>5, OneRequest

LEMMA CreateAndSubmitFootprint ==
  ASSUME IInv, HistoryOK, NEW r \in RequestIds, NEW demand \in Demands(r),
         CreateAndSubmit(r, demand)
  PROVE  Footprint({r})
<1>1. DOMAIN demand \subseteq LinesOf(r)
  BY DEF Demands
<1>2. request[r].state = "absent" /\ Submitted(r, demand, 2)
  BY DEF CreateAndSubmit
<1>3. 2 > request[r].version
  BY <1>2 DEF HistoryOK
<1>4. QED
  BY <1>1, <1>2, <1>3, SubmittedFootprint

LEMMA SubmitFootprint ==
  ASSUME IInv, NEW r \in RequestIds, Submit(r)
  PROVE  Footprint({r})
<1> DEFINE demand == [l \in {m \in LinesOf(r) : HasLine(m)} |-> line[l].requested]
<1>1. DOMAIN demand \subseteq LinesOf(r)
  OBVIOUS
<1>2. request[r].state = "draft" /\ Submitted(r, demand, request[r].version + 1)
  BY DEF Submit
<1>3. request[r].version \in Nat
  BY DEF IInv, RowsTypeOK, RequestTypeOK, MaterialRequest
<1>4. request[r].version + 1 \in Nat /\ request[r].version + 1 > request[r].version
  BY <1>3
<1> HIDE DEF demand
<1>5. QED
  BY <1>1, <1>2, <1>4, SubmittedFootprint

LEMMA ClaimFootprint ==
  ASSUME IInv, NEW u \in Workers, NEW r \in RequestIds, ClaimLocked(u, r)
  PROVE  Footprint({r})
<1>1. request' = [request EXCEPT ![r] = Moved(request[r], "claimed", u)]
  BY DEF ClaimLocked
<1>2. line' = line /\ alloc' = alloc
  BY DEF ClaimLocked
<1>3. request[r].state \notin ClosedStates
  BY DEF ClaimLocked, ClaimableStates, ClosedStates
<1>4. QED
  BY <1>1, <1>2, <1>3, OneMoved

LEMMA CancelFootprint ==
  ASSUME IInv, NEW r \in RequestIds, Cancel(r)
  PROVE  Footprint({r})
<1>1. request' = [request EXCEPT ![r] = Moved(request[r], "cancelled", NoWorker)]
  BY DEF Cancel
<1>2. \A l \in LineIds : RequestOf[l] # r => line'[l] = line[l]
  BY DEF Cancel
<1>3. \A a \in AllocationIds : RequestOfAllocation(a) # r => alloc'[a] = alloc[a]
  BY DEF Cancel, Cancelled
<1>4. request[r].state \notin ClosedStates
  BY DEF Cancel, ClosedStates
<1>5. QED
  BY <1>1, <1>2, <1>3, <1>4, OneMoved

LEMMA HandoffFootprint ==
  ASSUME IInv, NEW u \in Workers, NEW r \in RequestIds, Handoff(u, r)
  PROVE  Footprint({r})
<1>1. PICK state \in {"completed", "partially_fulfilled"} :
        request' = [request EXCEPT ![r] = Moved(request[r], state, NoWorker)]
  BY DEF Handoff, IssuePicked
<1>2. \A l \in LineIds : RequestOf[l] # r => line'[l] = line[l]
  <2> DEFINE ls == {LineOf(a) : a \in {b \in AllocationsOf(r) : Exists(b)}}
  <2>1. line' = RefreshLines(HandedOff(r), ls)
    BY DEF Handoff, IssuePicked, HandedOffLines
  <2>2. \A l \in ls : RequestOf[l] = r
    BY DEF AllocationsOf, RequestOfAllocation
  <2> HIDE DEF ls
  <2>3. QED
    BY <2>1, <2>2, RefreshedLines
<1>3. \A a \in AllocationIds : RequestOfAllocation(a) # r => alloc'[a] = alloc[a]
  BY HandedOffRow DEF Handoff, IssuePicked, IInv
<1>4. request[r].state \notin ClosedStates
  BY DEF Handoff, ClosedStates
<1>5. QED
  BY <1>1, <1>2, <1>3, <1>4, OneMoved

LEMMA RecordPickFootprint ==
  ASSUME IInv, NEW u \in Workers, NEW a \in AllocationIds,
         NEW q \in Quantities \union {0}, RecordPick(u, a, q)
  PROVE  Footprint({RequestOfAllocation(a)})
<1> DEFINE r == RequestOfAllocation(a)
<1>0. r \in RequestIds /\ alloc \in [AllocationIds -> Allocation]
  BY AllocationIdParts DEF IInv, RowsTypeOK, RequestTypeOK
<1>1. PICK state \in {"ready", "in_progress"} :
        request' = [request EXCEPT ![r] = Moved(request[r], state, request[r].claimedBy)]
  BY DEF RecordPick, PickRange
<1>2. line' = RefreshLines([alloc EXCEPT ![a] = Picked(alloc[a], q)], {LineOf(a)})
  BY DEF RecordPick, PickRange
<1>3. \A l \in LineIds : RequestOf[l] # r => line'[l] = line[l]
  <2>1. \A l \in LineIds : RequestOf[l] # r => l \notin {LineOf(a)}
    BY DEF RequestOfAllocation
  <2>2. QED
    BY <1>2, <2>1, RefreshedLines
<1>4. \A b \in AllocationIds : RequestOfAllocation(b) # r => alloc'[b] = alloc[b]
  BY <1>0 DEF RecordPick, PickRange
<1>5. request[r].state \notin ClosedStates
  <2>1. request[r].claimedBy # NoWorker
    BY DEF RecordPick, PickRange
  <2>2. request[r].state \in ClaimedStates
    BY <1>0, <2>1 DEF IInv, ClaimOK
  <2>3. QED
    BY <2>2 DEF ClaimedStates, ClosedStates
<1> HIDE DEF r
<1>6. Footprint({r})
  BY <1>0, <1>1, <1>3, <1>4, <1>5, OneMoved
<1>7. QED
  BY <1>6 DEF r

LEMMA SubstituteFootprint ==
  ASSUME IInv, NEW u \in Workers, NEW source \in AllocationIds, NEW new \in AllocationIds,
         NEW q \in Quantities, Substitute(u, source, new, q)
  PROVE  Footprint({RequestOfAllocation(source)})
<1> DEFINE r == RequestOfAllocation(source)
           l == LineOf(source)
<1>0. /\ r \in RequestIds /\ alloc \in [AllocationIds -> Allocation]
      /\ request[r] \in MaterialRequest
      /\ request[r].state \in ClaimedStates
  BY AllocationIdParts DEF IInv, RowsTypeOK, RequestTypeOK, ClaimOK, Substitute
<1>1. request' = [request EXCEPT ![r] = Moved(request[r], request[r].state, request[r].claimedBy)]
  BY DEF Substitute, Bumped
<1>2. line' = RefreshLines(Transfer(source, new, q), {l})
  BY DEF Substitute
<1>3. \A m \in LineIds : RequestOf[m] # r => line'[m] = line[m]
  <2>1. \A m \in LineIds : RequestOf[m] # r => m \notin {l}
    BY DEF RequestOfAllocation
  <2>2. QED
    BY <1>2, <2>1, RefreshedLines
<1>4. \A a \in AllocationIds : RequestOfAllocation(a) # r => alloc'[a] = alloc[a]
  <2>1. RequestOfAllocation(new) = r
    BY DEF Substitute, RequestOfAllocation
  <2>2. alloc' = Transfer(source, new, q)
    BY DEF Substitute
  <2>3. QED
    BY <1>0, <2>1, <2>2 DEF Transfer
<1>5. request[r].state \notin ClosedStates /\ request[r].state \notin {"absent", "draft"}
  BY <1>0 DEF ClaimedStates, ClosedStates
<1> HIDE DEF r
<1>6. Footprint({r})
  BY <1>0, <1>1, <1>3, <1>4, <1>5, OneMoved
<1>7. QED
  BY <1>6 DEF r

LEMMA ReallocateFootprint ==
  ASSUME IInv, NEW source \in AllocationIds, NEW new \in AllocationIds,
         NEW q \in Quantities, Reallocate(source, new, q)
  PROVE  Footprint({RequestOfAllocation(source), RequestOfAllocation(new)})
<1> DEFINE r == RequestOfAllocation(source)
           t == RequestOfAllocation(new)
<1>0. /\ r \in RequestIds /\ t \in RequestIds /\ r # t
      /\ alloc \in [AllocationIds -> Allocation]
      /\ request \in [RequestIds -> MaterialRequest]
      /\ request[r].state \in ReallocatableStates /\ request[t].state \in ReallocatableStates
  BY AllocationIdParts DEF IInv, RowsTypeOK, RequestTypeOK, Reallocate
<1>1. request' = [request EXCEPT ![r] = Bumped(request[r]), ![t] = Bumped(request[t])]
  BY <1>0 DEF Reallocate
<1>2. line' = RefreshLines(Transfer(source, new, q), {LineOf(source), LineOf(new)})
  BY DEF Reallocate
<1>3. \A m \in LineIds : RequestOf[m] \notin {r, t} => line'[m] = line[m]
  <2>1. \A m \in LineIds : RequestOf[m] \notin {r, t} => m \notin {LineOf(source), LineOf(new)}
    BY DEF RequestOfAllocation
  <2>2. QED
    BY <1>2, <2>1, RefreshedLines
<1>4. \A a \in AllocationIds : RequestOfAllocation(a) \notin {r, t} => alloc'[a] = alloc[a]
  <2>1. alloc' = Transfer(source, new, q)
    BY DEF Reallocate
  <2>2. QED
    BY <1>0, <2>1 DEF Transfer
<1>5. ASSUME NEW s \in {r, t}
      PROVE  /\ request'[s].version > request[s].version
             /\ request[s].state \notin ClosedStates
             /\ request'[s].state \notin {"absent", "draft"}
             /\ request[s].claimedBy = NoWorker
  <2>1. s \in RequestIds /\ request[s].state \in ReallocatableStates
    BY <1>0
  <2>2. request'[s] = Bumped(request[s])
    BY <1>0, <1>1
  <2>3. request[s].version \in Nat
    BY <2>1 DEF IInv, RowsTypeOK, RequestTypeOK, MaterialRequest
  <2>4. request[s].claimedBy = NoWorker
    BY <2>1 DEF IInv, ClaimOK, ClaimedStates, ReallocatableStates
  <2>5. QED
    BY <2>1, <2>2, <2>3, <2>4 DEF Bumped, Moved, ReallocatableStates, ClosedStates
<1>6. \A s \in RequestIds \ {r, t} : request'[s] = request[s]
  BY <1>0, <1>1
<1> HIDE DEF r, t
<1>7. Footprint({r, t})
  BY <1>0, <1>3, <1>4, <1>5, <1>6 DEF Footprint
<1>8. QED
  BY <1>7 DEF r, t

\* Every step has a footprint.
LEMMA StepFootprint ==
  ASSUME IInv, HistoryOK, [RequestNext]_vars
  PROVE  \E touched \in SUBSET RequestIds : Footprint(touched)
<1> DEFINE Goal == \E touched \in SUBSET RequestIds : Footprint(touched)
<1>0. ASSUME NEW touched, Footprint(touched) PROVE Goal
  BY <1>0 DEF Footprint
<1>1. ASSUME NEW r \in RequestIds, NEW demand \in Demands(r),
             CreateDraft(r, demand) \/ CreateAndSubmit(r, demand)
      PROVE  Goal
  BY <1>0, <1>1, CreateDraftFootprint, CreateAndSubmitFootprint
<1>2. ASSUME NEW r \in RequestIds, Submit(r) \/ Cancel(r)
      PROVE  Goal
  BY <1>0, <1>2, SubmitFootprint, CancelFootprint
<1>3. ASSUME NEW r \in RequestIds, NEW u \in Workers, Claim(u, r) \/ Handoff(u, r)
      PROVE  Goal
  BY <1>0, <1>3, ClaimFootprint, HandoffFootprint DEF Claim
<1>4. ASSUME NEW u \in Workers, ClaimNext(u)
      PROVE  Goal
  BY <1>0, <1>4, ClaimFootprint DEF ClaimNext
<1>5. ASSUME NEW source \in AllocationIds, NEW new \in AllocationIds,
             NEW q \in Quantities, Reallocate(source, new, q)
      PROVE  Goal
  BY <1>0, <1>5, ReallocateFootprint
<1>6. ASSUME NEW source \in AllocationIds, NEW new \in AllocationIds,
             NEW q \in Quantities, NEW u \in Workers, Substitute(u, source, new, q)
      PROVE  Goal
  BY <1>0, <1>6, SubstituteFootprint
<1>7. ASSUME NEW a \in AllocationIds, NEW u \in Workers,
             NEW q \in Quantities \union {0}, RecordPick(u, a, q)
      PROVE  Goal
  BY <1>0, <1>7, RecordPickFootprint
<1>8. ASSUME UNCHANGED vars PROVE Goal
  <2>1. request' = request /\ line' = line /\ alloc' = alloc
    BY <1>8 DEF vars, requestVars
  <2>2. Footprint({})
    BY <2>1 DEF Footprint
  <2>3. QED
    BY <1>0, <2>2
<1> HIDE DEF Goal
<1>9. Goal
  BY <1>1, <1>2, <1>3, <1>4, <1>5, <1>6, <1>7, <1>8 DEF RequestNext
<1>10. QED
  BY <1>9 DEF Goal

-----------------------------------------------------------------------------
(***************************************************************************)
(* The rows of the allocations                                             *)
(***************************************************************************)

\* What a step does to an allocation row, as far as issues go: it issues
\* nothing, or it issues all that the row of a ready request still holds.
IssueStep(a) ==
  /\ IssuedOK(alloc'[a])
  /\ alloc'[a].issued # alloc[a].issued =>
       /\ alloc[a].issued = 0
       /\ request[RequestOfAllocation(a)].state = "ready"
       /\ alloc'[a].issued + alloc'[a].released = alloc'[a].quantity

LEMMA SameRow ==
  ASSUME HistoryOK, NEW a \in AllocationIds, alloc'[a] = alloc[a]
  PROVE  IssueStep(a)
BY DEF IssueStep, HistoryOK

LEMMA TransferIssueStep ==
  ASSUME IInv, HistoryOK, NEW source \in AllocationIds, NEW new \in AllocationIds,
         NEW q \in Quantities, TransferStep(source, new, q),
         request[RequestOfAllocation(source)].state # "cancelled",
         NEW a \in AllocationIds
  PROVE  IssueStep(a)
<1>1. /\ alloc \in [AllocationIds -> Allocation]
      /\ alloc[source] \in Allocation /\ alloc[new] \in Allocation
      /\ q \in Nat /\ q > 0 /\ source # new
      /\ RowOK(alloc[source], request[RequestOfAllocation(source)].state)
      /\ RowOK(alloc[new], request[RequestOfAllocation(new)].state)
      /\ IssuedOK(alloc[source])
  BY DEF IInv, RowsOK, RowsTypeOK, RequestTypeOK, TransferStep, Transfer, HistoryOK
<1>2. /\ alloc[source].quantity > 0
      /\ q <= alloc[source].quantity - alloc[source].picked - alloc[source].released
  BY DEF TransferStep, Transfer, Exists, Transferable
<1>3. alloc[source].issued = 0
  BY <1>1, <1>2 DEF RowOK, IssuedOK, Allocation
<1>4. alloc[new].issued = 0
  BY <1>1 DEF TransferStep, Transfer, Exists, RowOK, Allocation
<1>5. CASE a = source
  <2>1. alloc'[a] = Release(alloc[source], q)
    BY <1>1, <1>5 DEF TransferStep, Transfer
  <2>2. Release(alloc[source], q).issued = alloc[source].issued
    BY <1>1, <1>2, <1>3, ReleaseType
  <2>3. QED
    BY <1>3, <1>5, <2>1, <2>2 DEF IssueStep, IssuedOK
<1>6. CASE a = new
  <2>1. alloc'[a].issued = 0
    BY <1>1, <1>6 DEF TransferStep, Transfer, NewAllocation, NoAllocation
  <2>2. QED
    BY <1>4, <1>6, <2>1 DEF IssueStep, IssuedOK
<1>7. CASE a # source /\ a # new
  BY <1>1, <1>7, SameRow DEF TransferStep, Transfer
<1>8. QED
  BY <1>5, <1>6, <1>7

LEMMA SubmittedIssueStep ==
  ASSUME IInv, HistoryOK, NEW r \in RequestIds, NEW demand, NEW version,
         request[r].state \in {"absent", "draft"},
         DOMAIN demand \subseteq LinesOf(r),
         Submitted(r, demand, version),
         NEW a \in AllocationIds
  PROVE  IssueStep(a)
<1>1. PICK fill \in [Servable(DOMAIN demand) -> Amounts] :
        alloc' = [b \in AllocationIds |->
                    LET s == <<LineOf(b), PositionOf(b)>>
                    IN  IF b[3] = 1 /\ s \in Servable(DOMAIN demand) /\ fill[s] > 0
                        THEN NewAllocation(fill[s])
                        ELSE alloc[b]]
  BY DEF Submitted
<1>2. CASE alloc'[a] = alloc[a]
  BY <1>2, SameRow
<1>3. CASE alloc'[a] # alloc[a]
  <2> DEFINE s == <<LineOf(a), PositionOf(a)>>
  <2>1. s \in Servable(DOMAIN demand) /\ alloc'[a] = NewAllocation(fill[s])
    BY <1>1, <1>3
  <2>2. RequestOfAllocation(a) = r
    BY <2>1 DEF Servable, LinesOf, RequestOfAllocation
  <2>3. alloc[a].quantity = 0 /\ alloc[a] \in Allocation /\ RowOK(alloc[a], request[r].state)
    BY <2>2 DEF HistoryOK, IInv, RowsTypeOK, RequestTypeOK, RowsOK
  <2>4. alloc[a].issued = 0
    BY <2>3 DEF RowOK, Allocation
  <2>5. alloc'[a].issued = 0
    BY <2>1 DEF NewAllocation, NoAllocation
  <2>6. QED
    BY <2>4, <2>5 DEF IssueStep, IssuedOK
<1>4. QED
  BY <1>2, <1>3

LEMMA PickIssueStep ==
  ASSUME IInv, HistoryOK, NEW u \in Workers, NEW b \in AllocationIds,
         NEW q \in Quantities \union {0}, RecordPick(u, b, q),
         NEW a \in AllocationIds
  PROVE  IssueStep(a)
<1>1. /\ alloc \in [AllocationIds -> Allocation] /\ alloc[b] \in Allocation
      /\ IssuedOK(alloc[b])
  BY DEF IInv, RowsTypeOK, RequestTypeOK, HistoryOK
<1>2. alloc' = [alloc EXCEPT ![b] = Picked(alloc[b], q)]
  BY DEF RecordPick, PickRange, Picked
<1>3. q \in Nat /\ alloc[b].issued <= q /\ q <= alloc[b].quantity - alloc[b].released
  BY <1>1 DEF RecordPick, PickRange, Allocation
<1>4. /\ Picked(alloc[b], q).issued = alloc[b].issued
      /\ Picked(alloc[b], q).quantity = alloc[b].quantity
      /\ Picked(alloc[b], q).released = alloc[b].quantity - q
  BY <1>1, <1>3, PickedType
<1>5. CASE a = b
  <2>1. alloc[b].issued > 0 => q = alloc[b].issued
    BY <1>1, <1>3 DEF IssuedOK, Allocation
  <2>2. alloc[b].issued > 0 =>
          alloc[b].issued + (alloc[b].quantity - q) = alloc[b].quantity
    BY <1>1, <1>3, <2>1 DEF Allocation
  <2>3. IssuedOK(Picked(alloc[b], q))
    BY <1>4, <2>2 DEF IssuedOK
  <2>4. alloc'[a] = Picked(alloc[b], q)
    BY <1>1, <1>2, <1>5
  <2>5. QED
    BY <1>4, <1>5, <2>3, <2>4 DEF IssueStep
<1>6. CASE a # b
  BY <1>1, <1>2, <1>6, SameRow
<1>7. QED
  BY <1>5, <1>6

LEMMA HandoffIssueStep ==
  ASSUME IInv, HistoryOK, NEW u \in Workers, NEW r \in RequestIds, Handoff(u, r),
         NEW a \in AllocationIds
  PROVE  IssueStep(a)
<1>1. /\ alloc[a] \in Allocation /\ request[r].state = "ready"
      /\ RowOK(alloc[a], request[RequestOfAllocation(a)].state)
      /\ IssuedOK(alloc[a]) /\ alloc'[a] = HandedOff(r)[a]
  BY DEF IInv, RowsOK, RowsTypeOK, RequestTypeOK, HistoryOK, Handoff, IssuePicked
<1>2. CASE RequestOfAllocation(a) # r \/ alloc[a].picked <= alloc[a].issued
  <2>1. ~ \E p \in Positions : a \in Issuing(r, p)
    BY <1>1, <1>2 DEF Issuing, AllocationsOf, Allocation
  <2>2. alloc'[a] = alloc[a]
    BY <1>1, <2>1 DEF HandedOff
  <2>3. QED
    BY <2>2, SameRow
<1>3. CASE RequestOfAllocation(a) = r /\ alloc[a].picked > alloc[a].issued
  <2>1. /\ alloc'[a].issued = alloc[a].picked
        /\ alloc'[a].quantity = alloc[a].quantity
        /\ alloc'[a].released = alloc[a].released
    BY <1>1, <1>3, HandedOffRow DEF IInv
  <2>2. alloc[a].quantity > 0
    BY <1>1, <1>3 DEF RowOK, Allocation
  <2>3. alloc[a].picked + alloc[a].released = alloc[a].quantity
    BY <1>1, <1>3, <2>2 DEF RowOK, Allocation
  <2>4. alloc[a].issued = 0
    BY <1>1, <1>3, <2>3 DEF IssuedOK, Allocation
  <2>5. QED
    BY <1>1, <1>3, <2>1, <2>3, <2>4 DEF IssueStep, IssuedOK
<1>4. QED
  BY <1>1, <1>2, <1>3 DEF Allocation

LEMMA CancelIssueStep ==
  ASSUME IInv, HistoryOK, NEW r \in RequestIds, Cancel(r), NEW a \in AllocationIds
  PROVE  IssueStep(a)
<1>1. RowsTypeOK /\ AllocationWithinQuantity /\ alloc[a] \in Allocation
  BY IInvMeaning DEF IInv, RowsTypeOK, RequestTypeOK
<1>2. alloc'[a] = Cancelled(r)[a]
  BY DEF Cancel
<1>3. CASE RequestOfAllocation(a) = r
  <2>1. /\ alloc'[a].issued = alloc[a].issued
        /\ alloc'[a].quantity = alloc[a].quantity
        /\ alloc'[a].released = alloc[a].quantity - alloc[a].issued
    BY <1>1, <1>2, <1>3, CancelledRow
  <2>2. QED
    BY <1>1, <2>1 DEF IssueStep, IssuedOK, Allocation
<1>4. CASE RequestOfAllocation(a) # r
  BY <1>1, <1>2, <1>4, CancelledRow, SameRow
<1>5. QED
  BY <1>3, <1>4

LEMMA EveryIssueStep ==
  ASSUME IInv, HistoryOK, [RequestNext]_vars, NEW a \in AllocationIds
  PROVE  IssueStep(a)
<1>1. ASSUME NEW r \in RequestIds, NEW demand \in Demands(r), CreateDraft(r, demand)
      PROVE  IssueStep(a)
  BY <1>1, SameRow DEF CreateDraft
<1>2. ASSUME NEW r \in RequestIds, NEW demand \in Demands(r), CreateAndSubmit(r, demand)
      PROVE  IssueStep(a)
  <2>1. DOMAIN demand \subseteq LinesOf(r)
    BY DEF Demands
  <2>2. QED
    BY <1>2, <2>1, SubmittedIssueStep DEF CreateAndSubmit
<1>3. ASSUME NEW r \in RequestIds, Submit(r)
      PROVE  IssueStep(a)
  <2> DEFINE demand == [l \in {m \in LinesOf(r) : HasLine(m)} |-> line[l].requested]
  <2>1. DOMAIN demand \subseteq LinesOf(r)
    OBVIOUS
  <2>2. request[r].state = "draft" /\ Submitted(r, demand, request[r].version + 1)
    BY <1>3 DEF Submit
  <2> HIDE DEF demand
  <2>3. QED
    BY <2>1, <2>2, SubmittedIssueStep
<1>4. ASSUME NEW r \in RequestIds, Cancel(r)
      PROVE  IssueStep(a)
  BY <1>4, CancelIssueStep
<1>5. ASSUME NEW u \in Workers, NEW r \in RequestIds, ClaimLocked(u, r)
      PROVE  IssueStep(a)
  BY <1>5, SameRow DEF ClaimLocked
<1>6. ASSUME NEW u \in Workers, NEW r \in RequestIds, Handoff(u, r)
      PROVE  IssueStep(a)
  BY <1>6, HandoffIssueStep
<1>7. ASSUME NEW source \in AllocationIds, NEW new \in AllocationIds,
             NEW q \in Quantities, Reallocate(source, new, q)
      PROVE  IssueStep(a)
  <2>1. TransferStep(source, new, q)
    BY <1>7 DEF Reallocate, TransferStep, Transfer, IsNextId
  <2>2. request[RequestOfAllocation(source)].state # "cancelled"
    BY <1>7 DEF Reallocate, ReallocatableStates
  <2>3. QED
    BY <2>1, <2>2, TransferIssueStep
<1>8. ASSUME NEW source \in AllocationIds, NEW new \in AllocationIds,
             NEW q \in Quantities, NEW u \in Workers, Substitute(u, source, new, q)
      PROVE  IssueStep(a)
  <2>1. TransferStep(source, new, q)
    BY <1>8 DEF Substitute, TransferStep, Transfer, IsNextId
  <2>2. request[RequestOfAllocation(source)].state # "cancelled"
    BY <1>8, AllocationIdParts DEF Substitute, IInv, ClaimOK, ClaimedStates
  <2>3. QED
    BY <2>1, <2>2, TransferIssueStep
<1>9. ASSUME NEW b \in AllocationIds, NEW u \in Workers,
             NEW q \in Quantities \union {0}, RecordPick(u, b, q)
      PROVE  IssueStep(a)
  BY <1>9, PickIssueStep
<1>10. CASE UNCHANGED vars
  BY <1>10, SameRow DEF vars, requestVars
<1>11. QED
  BY <1>1, <1>2, <1>3, <1>4, <1>5, <1>6, <1>7, <1>8, <1>9, <1>10
  DEF RequestNext, Claim, ClaimNext

-----------------------------------------------------------------------------
(***************************************************************************)
(* What follows                                                            *)
(***************************************************************************)
LEMMA HistoryStep ==
  ASSUME IInv, HistoryOK, [RequestNext]_vars
  PROVE  HistoryOK'
<1>1. PICK touched \in SUBSET RequestIds : Footprint(touched)
  BY StepFootprint
<1>2. ASSUME NEW r \in RequestIds, request'[r].state = "absent"
      PROVE  request'[r].version = 0
  BY <1>1, <1>2 DEF Footprint, HistoryOK
<1>3. ASSUME NEW a \in AllocationIds,
             request'[RequestOfAllocation(a)].state \in {"absent", "draft"}
      PROVE  alloc'[a].quantity = 0
  <2> DEFINE r == RequestOfAllocation(a)
  <2>0. r \in RequestIds
    BY AllocationIdParts
  <2>1. CASE r \in touched
    <3>1. request[r].state = "absent" /\ alloc'[a] = alloc[a]
      BY <1>1, <1>3, <2>1 DEF Footprint
    <3>2. QED
      BY <3>1 DEF HistoryOK
  <2>2. CASE r \notin touched
    <3>1. request'[r] = request[r] /\ alloc'[a] = alloc[a]
      BY <1>1, <2>0, <2>2 DEF Footprint
    <3>2. QED
      BY <1>3, <3>1 DEF HistoryOK
  <2>3. QED
    BY <2>1, <2>2
<1>4. ASSUME NEW a \in AllocationIds PROVE IssuedOK(alloc'[a])
  BY EveryIssueStep DEF IssueStep
<1>5. \A a \in AllocationIds : IssuedOK(alloc[a])'
  BY <1>4 DEF IssuedOK
<1>6. QED
  BY <1>2, <1>3, <1>5, AllocationIdParts DEF HistoryOK, RequestOfAllocation

LEMMA InitHistory == Init => HistoryOK
BY AllocationIdParts DEF Init, HistoryOK, IssuedOK, NoAllocation

LEMMA HistoryInvariant == Spec => [](IInv /\ HistoryOK)
<1>1. Init => HistoryOK
  BY InitHistory
<1>2. IInv /\ HistoryOK /\ [RequestNext]_vars => HistoryOK'
  BY HistoryStep
<1>3. QED
  BY <1>1, <1>2, RequestsInvariant, PTL DEF Spec

\* The rows of a request outside the footprint of a step are as they were.
LEMMA OutsideFootprint ==
  ASSUME NEW touched, Footprint(touched), NEW r \in RequestIds \ touched
  PROVE  RowsOf(r)' = RowsOf(r)
<1>1. /\ request'[r] = request[r]
      /\ \A l \in LinesOf(r) : line'[l] = line[l]
      /\ \A a \in AllocationsOf(r) : alloc'[a] = alloc[a]
  BY DEF Footprint, LinesOf, AllocationsOf
<1>2. AllocationsOf(r)' = AllocationsOf(r)
  BY DEF AllocationsOf, RequestOfAllocation, LineOf
<1>3. [l \in LinesOf(r) |-> line'[l]] = [l \in LinesOf(r) |-> line[l]]
  BY <1>1
<1>4. [a \in AllocationsOf(r) |-> alloc'[a]] = [a \in AllocationsOf(r) |-> alloc[a]]
  BY <1>1
<1>5. QED
  BY <1>1, <1>3, <1>4 DEF RowsOf, LinesOf, AllocationsOf, RequestOfAllocation, LineOf

\* No method changes a row of a request without raising its version.
THEOREM ChangesRaiseVersions == Spec => EveryChangeRaisesVersion
<1>1. ASSUME IInv, HistoryOK, [RequestNext]_vars, NEW r \in RequestIds,
             RowsOf(r)' # RowsOf(r)
      PROVE  request'[r].version > request[r].version
  <2>1. PICK touched \in SUBSET RequestIds : Footprint(touched)
    BY <1>1, StepFootprint
  <2>2. r \in touched
    BY <1>1, <2>1, OutsideFootprint
  <2>3. QED
    BY <2>1, <2>2 DEF Footprint
<1>2. IInv /\ HistoryOK /\ [RequestNext]_vars =>
        [\A r \in RequestIds :
           RowsOf(r)' # RowsOf(r) => request'[r].version > request[r].version]_vars
  BY <1>1
<1>3. QED
  BY <1>2, HistoryInvariant, PTL DEF Spec, EveryChangeRaisesVersion

\* Nothing changes a completed or cancelled request any more.
THEOREM ClosedRequestsStay == Spec => ClosedIsFinal
<1>1. ASSUME IInv, HistoryOK, [RequestNext]_vars, NEW r \in RequestIds,
             request[r].state \in ClosedStates
      PROVE  RowsOf(r)' = RowsOf(r)
  <2>1. PICK touched \in SUBSET RequestIds : Footprint(touched)
    BY <1>1, StepFootprint
  <2>2. r \notin touched
    BY <1>1, <2>1 DEF Footprint
  <2>3. QED
    BY <2>1, <2>2, OutsideFootprint
<1>2. IInv /\ HistoryOK /\ [RequestNext]_vars =>
        [\A r \in RequestIds :
           request[r].state \in ClosedStates => RowsOf(r)' = RowsOf(r)]_vars
  BY <1>1
<1>3. QED
  BY <1>2, HistoryInvariant, PTL DEF Spec, ClosedIsFinal

\* A request being fulfilled keeps its allocations.
THEOREM ClaimedRequestsAreSafe == Spec => ClaimedIsNotRaided
<1>1. ASSUME IInv, HistoryOK, [RequestNext]_vars,
             NEW r \in RequestIds, NEW s \in RequestIds,
             r # s, RowsOf(r)' # RowsOf(r), RowsOf(s)' # RowsOf(s)
      PROVE  request[r].claimedBy = NoWorker /\ request[s].claimedBy = NoWorker
  <2>1. PICK touched \in SUBSET RequestIds : Footprint(touched)
    BY <1>1, StepFootprint
  <2>2. r \in touched /\ s \in touched
    BY <1>1, <2>1, OutsideFootprint
  <2>3. QED
    BY <1>1, <2>1, <2>2 DEF Footprint
<1>2. IInv /\ HistoryOK /\ [RequestNext]_vars =>
        [\A r, s \in RequestIds :
           (r # s /\ RowsOf(r)' # RowsOf(r) /\ RowsOf(s)' # RowsOf(s)) =>
             request[r].claimedBy = NoWorker /\ request[s].claimedBy = NoWorker]_vars
  BY <1>1
<1>3. QED
  BY <1>2, HistoryInvariant, PTL DEF Spec, ClaimedIsNotRaided

\* An allocation is issued once, in full, out of a ready request.
THEOREM IssuesHappenOnce == Spec => IssuedOnce
<1>1. IInv /\ HistoryOK /\ [RequestNext]_vars =>
        [\A a \in AllocationIds :
           alloc'[a].issued # alloc[a].issued =>
             /\ alloc[a].issued = 0
             /\ request[RequestOfAllocation(a)].state = "ready"
             /\ alloc'[a].issued + alloc'[a].released = alloc'[a].quantity]_vars
  BY EveryIssueStep DEF IssueStep
<1>2. QED
  BY <1>1, HistoryInvariant, PTL DEF Spec, IssuedOnce

-----------------------------------------------------------------------------
(***************************************************************************)
(* The request workflow implements Lifecycle: every step of it is a step   *)
(* of a request that is sent, taken, handed back or withdrawn, or leaves   *)
(* all of them waiting and held as they are.                               *)
(***************************************************************************)

\* The variables of the abstract specification under the refinement mapping.
Phase == [r \in RequestIds |-> PhaseOf(request[r].state)]
Holder == [r \in RequestIds |-> request[r].claimedBy]

\* A step that writes one request row.
LEMMA AbstractRow ==
  ASSUME IInv, NEW r \in RequestIds, NEW state, NEW worker, NEW row,
         row.state = state, row.claimedBy = worker,
         request' = [request EXCEPT ![r] = row]
  PROVE  /\ Phase' = [Phase EXCEPT ![r] = PhaseOf(state)]
         /\ Holder' = [Holder EXCEPT ![r] = worker]
         /\ Phase[r] = PhaseOf(request[r].state)
<1>1. request \in [RequestIds -> MaterialRequest]
  BY DEF IInv, RowsTypeOK, RequestTypeOK
<1>2. \A s \in RequestIds : request'[s] = IF s = r THEN row ELSE request[s]
  BY <1>1
<1>3. /\ Phase' = [s \in RequestIds |-> PhaseOf(request'[s].state)]
      /\ Holder' = [s \in RequestIds |-> request'[s].claimedBy]
  BY DEF Phase, Holder, PhaseOf
<1>4. \A s \in RequestIds :
        PhaseOf(request'[s].state) = IF s = r THEN PhaseOf(state)
                                     ELSE PhaseOf(request[s].state)
  BY <1>2
<1>5. Phase' = [Phase EXCEPT ![r] = PhaseOf(state)]
  BY <1>3, <1>4 DEF Phase
<1>6. \A s \in RequestIds :
        request'[s].claimedBy = IF s = r THEN worker ELSE request[s].claimedBy
  BY <1>2
<1>7. Holder' = [s \in RequestIds |-> IF s = r THEN worker ELSE request[s].claimedBy]
  BY <1>3, <1>6
<1>8. Holder' = [Holder EXCEPT ![r] = worker]
  BY <1>7 DEF Holder
<1>9. QED
  BY <1>5, <1>8 DEF Phase

\* A step that leaves the phase and the holder of every request.
LEMMA AbstractStutter ==
  ASSUME \A r \in RequestIds :
           /\ PhaseOf(request'[r].state) = PhaseOf(request[r].state)
           /\ request'[r].claimedBy = request[r].claimedBy
  PROVE  UNCHANGED Cycle!lifecycleVars
<1>1. Phase' = [r \in RequestIds |-> PhaseOf(request'[r].state)]
  BY DEF Phase, PhaseOf
<1>2. Phase' = Phase
  BY <1>1 DEF Phase
<1>3. Holder' = Holder
  BY DEF Holder
<1>4. QED
  BY <1>2, <1>3 DEF Cycle!lifecycleVars, Phase, Holder

LEMMA PhaseOfState ==
  /\ \A s \in {"absent", "draft"} : PhaseOf(s) = "unsent"
  /\ \A s \in {"submitted", "partially_fulfilled", "on_hold"} : PhaseOf(s) = "waiting"
  /\ \A s \in {"claimed", "in_progress", "ready"} : PhaseOf(s) = "held"
  /\ \A s \in {"completed", "cancelled"} : PhaseOf(s) = "closed"
BY DEF PhaseOf, ClaimedStates

-----------------------------------------------------------------------------
(***************************************************************************)
(* The abstract step of each action                                        *)
(***************************************************************************)
LEMMA CreateDraftCycle ==
  ASSUME IInv, NEW r \in RequestIds, NEW demand, CreateDraft(r, demand)
  PROVE  UNCHANGED Cycle!lifecycleVars
<1>1. /\ request' = [request EXCEPT ![r] = Moved(request[r], "draft", NoWorker)]
      /\ request \in [RequestIds -> MaterialRequest]
      /\ request[r].state = "absent"
      /\ request[r].claimedBy = NoWorker
  BY DEF CreateDraft, IInv, RowsTypeOK, RequestTypeOK, ClaimOK, ClaimedStates, MaterialRequest
<1>2. \A s \in RequestIds : s # r => request'[s] = request[s]
  BY <1>1
<1>3. request'[r].state = "draft" /\ request'[r].claimedBy = NoWorker
  BY <1>1 DEF Moved
<1>4. QED
  BY <1>1, <1>2, <1>3, PhaseOfState, AbstractStutter

LEMMA SubmittedCycle ==
  ASSUME IInv, NEW r \in RequestIds, NEW demand, NEW version,
         request[r].state \in {"absent", "draft"},
         Submitted(r, demand, version)
  PROVE  Cycle!LifecycleNext
<1> DEFINE worker == request[r].claimedBy
           row == [state |-> "submitted", claimedBy |-> worker, version |-> version]
<1>1. request' = [request EXCEPT ![r] = row]
  BY DEF Submitted
<1>2. row.state = "submitted" /\ row.claimedBy = worker
  OBVIOUS
<1> HIDE DEF row, worker
<1>3. /\ Phase' = [Phase EXCEPT ![r] = PhaseOf("submitted")]
      /\ Holder' = [Holder EXCEPT ![r] = worker]
      /\ Phase[r] = PhaseOf(request[r].state)
  BY <1>1, <1>2, AbstractRow
<1>4. Holder' = Holder
  BY <1>3 DEF Holder, worker
<1>5. Phase[r] = "unsent" /\ Phase' = [Phase EXCEPT ![r] = "waiting"]
  BY <1>3, PhaseOfState
<1>6. Cycle!Send(r)
  BY <1>4, <1>5 DEF Cycle!Send, Cycle!Goes, Phase, Holder
<1>7. QED
  BY <1>6 DEF Cycle!LifecycleNext

LEMMA ClaimCycle ==
  ASSUME IInv, NEW u \in Workers, NEW r \in RequestIds, ClaimLocked(u, r)
  PROVE  Cycle!LifecycleNext
<1> DEFINE row == Moved(request[r], "claimed", u)
<1>1. request' = [request EXCEPT ![r] = row] /\ request[r].state \in ClaimableStates
  BY DEF ClaimLocked
<1>2. row.state = "claimed" /\ row.claimedBy = u
  BY DEF Moved
<1> HIDE DEF row
<1>3. /\ Phase' = [Phase EXCEPT ![r] = PhaseOf("claimed")]
      /\ Holder' = [Holder EXCEPT ![r] = u]
      /\ Phase[r] = PhaseOf(request[r].state)
  BY <1>1, <1>2, AbstractRow
<1>4. Phase[r] = "waiting" /\ Phase' = [Phase EXCEPT ![r] = "held"]
  BY <1>1, <1>3, PhaseOfState DEF ClaimableStates
<1>5. Cycle!Take(u, r)
  BY <1>3, <1>4 DEF Cycle!Take, Cycle!Goes, Phase, Holder
<1>6. QED
  BY <1>5 DEF Cycle!LifecycleNext

LEMMA HandoffCycle ==
  ASSUME IInv, NEW u \in Workers, NEW r \in RequestIds, Handoff(u, r)
  PROVE  Cycle!LifecycleNext
<1>1. PICK state \in {"completed", "partially_fulfilled"} :
        request' = [request EXCEPT ![r] = Moved(request[r], state, NoWorker)]
  BY DEF Handoff, IssuePicked
<1> DEFINE row == Moved(request[r], state, NoWorker)
<1>2. row.state = state /\ row.claimedBy = NoWorker /\ request[r].state = "ready"
  BY DEF Moved, Handoff
<1>3. request' = [request EXCEPT ![r] = row]
  BY <1>1
<1> HIDE DEF row
<1>4. /\ Phase' = [Phase EXCEPT ![r] = PhaseOf(state)]
      /\ Holder' = [Holder EXCEPT ![r] = NoWorker]
      /\ Phase[r] = PhaseOf(request[r].state)
  BY <1>2, <1>3, AbstractRow
<1>5. /\ Phase[r] = "held"
      /\ \/ Phase' = [Phase EXCEPT ![r] = "waiting"]
         \/ Phase' = [Phase EXCEPT ![r] = "closed"]
  BY <1>2, <1>4, PhaseOfState
<1>6. Cycle!HandBack(r)
  BY <1>4, <1>5 DEF Cycle!HandBack, Cycle!Goes, Phase, Holder
<1>7. QED
  BY <1>6 DEF Cycle!LifecycleNext

LEMMA CancelCycle ==
  ASSUME IInv, NEW r \in RequestIds, Cancel(r)
  PROVE  Cycle!LifecycleNext
<1> DEFINE row == Moved(request[r], "cancelled", NoWorker)
<1>1. request' = [request EXCEPT ![r] = row]
  BY DEF Cancel
<1>2. row.state = "cancelled" /\ row.claimedBy = NoWorker
  BY DEF Moved
<1>3. PhaseOf(request[r].state) # "closed"
  BY PhaseOfState DEF Cancel, IInv, RowsTypeOK, RequestTypeOK, MaterialRequest, States
<1> HIDE DEF row
<1>4. /\ Phase' = [Phase EXCEPT ![r] = PhaseOf("cancelled")]
      /\ Holder' = [Holder EXCEPT ![r] = NoWorker]
      /\ Phase[r] = PhaseOf(request[r].state)
  BY <1>1, <1>2, AbstractRow
<1>5. Phase[r] # "closed" /\ Phase' = [Phase EXCEPT ![r] = "closed"]
  BY <1>3, <1>4, PhaseOfState
<1>6. Cycle!Withdraw(r)
  BY <1>4, <1>5 DEF Cycle!Withdraw, Phase, Holder
<1>7. QED
  BY <1>6 DEF Cycle!LifecycleNext

\* A pick leaves a request held by whoever holds it.
LEMMA RecordPickCycle ==
  ASSUME IInv, NEW u \in Workers, NEW a \in AllocationIds,
         NEW q \in Quantities \union {0}, RecordPick(u, a, q)
  PROVE  UNCHANGED Cycle!lifecycleVars
<1> DEFINE r == RequestOfAllocation(a)
<1>1. PICK state \in {"ready", "in_progress"} :
        request' = [request EXCEPT ![r] = Moved(request[r], state, request[r].claimedBy)]
  BY DEF RecordPick, PickRange
<1>2. r \in RequestIds /\ request \in [RequestIds -> MaterialRequest]
  BY AllocationIdParts DEF IInv, RowsTypeOK, RequestTypeOK
<1>3. request[r].state \in ClaimedStates
  BY <1>2 DEF RecordPick, PickRange, IInv, ClaimOK
<1>4. \A s \in RequestIds : s # r => request'[s] = request[s]
  BY <1>1, <1>2
<1>5. request'[r].state = state /\ request'[r].claimedBy = request[r].claimedBy
  BY <1>1, <1>2 DEF Moved
<1>6. PhaseOf(request'[r].state) = PhaseOf(request[r].state)
  BY <1>3, <1>5, PhaseOfState DEF ClaimedStates
<1>7. QED
  BY <1>4, <1>5, <1>6, AbstractStutter

\* Reallocations and substitutions only raise versions.
LEMMA BumpCycle ==
  ASSUME IInv, NEW source \in AllocationIds, NEW new \in AllocationIds, NEW q \in Quantities,
         Reallocate(source, new, q) \/ \E u \in Workers : Substitute(u, source, new, q)
  PROVE  UNCHANGED Cycle!lifecycleVars
<1>1. \A r \in RequestIds : /\ request'[r].state = request[r].state
                            /\ request'[r].claimedBy = request[r].claimedBy
  <2>1. CASE Reallocate(source, new, q)
    BY <2>1, AllocationIdParts
       DEF Reallocate, IInv, RowsTypeOK, RequestTypeOK, Bumped, Moved
  <2>2. CASE \E u \in Workers : Substitute(u, source, new, q)
    BY <2>2, AllocationIdParts
       DEF Substitute, IInv, RowsTypeOK, RequestTypeOK, Bumped, Moved
  <2>3. QED
    BY <2>1, <2>2
<1>2. QED
  BY <1>1, AbstractStutter

LEMMA StepCycle ==
  ASSUME IInv, [RequestNext]_vars
  PROVE  [Cycle!LifecycleNext]_Cycle!lifecycleVars
<1>1. ASSUME NEW r \in RequestIds, NEW demand \in Demands(r), CreateDraft(r, demand)
      PROVE  UNCHANGED Cycle!lifecycleVars
  BY <1>1, CreateDraftCycle
<1>2. ASSUME NEW r \in RequestIds, NEW demand \in Demands(r), CreateAndSubmit(r, demand)
      PROVE  Cycle!LifecycleNext
  BY <1>2, SubmittedCycle DEF CreateAndSubmit
<1>3. ASSUME NEW r \in RequestIds, Submit(r)
      PROVE  Cycle!LifecycleNext
  BY <1>3, SubmittedCycle DEF Submit
<1>4. ASSUME NEW r \in RequestIds, Cancel(r)
      PROVE  Cycle!LifecycleNext
  BY <1>4, CancelCycle
<1>5. ASSUME NEW u \in Workers, NEW r \in RequestIds, ClaimLocked(u, r) \/ Handoff(u, r)
      PROVE  Cycle!LifecycleNext
  BY <1>5, ClaimCycle, HandoffCycle
<1>6. ASSUME NEW source \in AllocationIds, NEW new \in AllocationIds, NEW q \in Quantities,
             Reallocate(source, new, q) \/ \E u \in Workers : Substitute(u, source, new, q)
      PROVE  UNCHANGED Cycle!lifecycleVars
  BY <1>6, BumpCycle
<1>7. ASSUME NEW a \in AllocationIds, NEW u \in Workers,
             NEW q \in Quantities \union {0}, RecordPick(u, a, q)
      PROVE  UNCHANGED Cycle!lifecycleVars
  BY <1>7, RecordPickCycle
<1>8. ASSUME UNCHANGED vars PROVE UNCHANGED Cycle!lifecycleVars
  <2>1. request' = request
    BY <1>8 DEF vars, requestVars
  <2>2. QED
    BY <2>1, AbstractStutter
<1>9. QED
  BY <1>1, <1>2, <1>3, <1>4, <1>5, <1>6, <1>7, <1>8 DEF RequestNext, Claim, ClaimNext

\* Whoever watches a request sees it wait, be held by one worker, come back
\* only through that worker's hand-off, and close for good.
THEOREM WorkflowIsLifecycle == Spec => ImplementsLifecycle
<1>1. Init => Cycle!LifecycleInit
  <2> SUFFICES ASSUME Init PROVE Cycle!LifecycleInit
    OBVIOUS
  <2>1. \A r \in RequestIds : PhaseOf(request[r].state) = "unsent" /\ request[r].claimedBy = NoWorker
    BY PhaseOfState DEF Init
  <2>2. QED
    BY <2>1 DEF Cycle!LifecycleInit
<1>2. IInv /\ [RequestNext]_vars => [Cycle!LifecycleNext]_Cycle!lifecycleVars
  BY StepCycle
<1>3. QED
  BY <1>1, <1>2, RequestsInvariant, PTL DEF Spec, ImplementsLifecycle, Cycle!LifecycleSpec
=============================================================================

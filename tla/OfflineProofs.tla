--------------------------- MODULE OfflineProofs ---------------------------
(***************************************************************************)
(* Offline synchronization, for any number of grants, devices, calls and   *)
(* commands: a queue that is sent again and again is recorded once and in  *)
(* order, the device learns what the server did, a revoked device applies  *)
(* nothing more, and the rows of the requests stay in order under writes   *)
(* of objects that were read long before.                                  *)
(***************************************************************************)
EXTENDS OfflineSync, DemandProofs

USE RequestsAssumption, StockAssumption, OfflineAssumption

-----------------------------------------------------------------------------
(***************************************************************************)
(* The rows of the requests.  A stale write may take a request back to     *)
(* "ready" after it was handed off or cancelled, so that a state says less *)
(* than it does online: what a claimed or a waiting request has picked is  *)
(* still within what it holds, of the others nothing of the kind is known. *)
(***************************************************************************)
HoldingStates == {"absent", "draft", "submitted", "partially_fulfilled"}

Holds(row) == row.claimedBy # NoWorker \/ row.state \in HoldingStates

RequestFine(row) == row.claimedBy # NoWorker => row.state \notin Unsent \union ClosedStates

RowFine(row, parent) ==
  /\ row.issued <= row.picked
  /\ row.picked <= row.quantity
  /\ row.issued + row.released <= row.quantity
  /\ Holds(parent) => row.picked + row.released <= row.quantity
  /\ parent.state \in Unsent => row.quantity = 0

OfflineRows ==
  /\ RowsTypeOK
  /\ \A r \in RequestIds : RequestFine(request[r])
  /\ \A a \in AllocationIds : RowFine(alloc[a], request[RequestOfAllocation(a)])

\* What every step does to the rows: they stay in order, and a request that
\* was submitted does not become a draft again.
RowsKept ==
  /\ OfflineRows'
  /\ \A r \in RequestIds : request[r].state \notin Unsent => request'[r].state \notin Unsent

\* The bounds of OfflineRows are those the lines rely on.
LEMMA OfflineRowsAreRows ==
  /\ OfflineRows => RowsInv
  /\ OfflineRows' => RowsInv'
BY DEF OfflineRows, RowsInv, RowFine, RequestFine, AllocationWithinQuantity

\* The bounds hold before anything is requested.
LEMMA InitRows == Init => OfflineRows
<1> SUFFICES ASSUME Init PROVE OfflineRows
  OBVIOUS
<1>1. RowsTypeOK
  BY InitRowsType
<1>2. \A r \in RequestIds : RequestFine(request[r])
  BY DEF Init, RequestFine
<1>3. \A a \in AllocationIds : RowFine(alloc[a], request[RequestOfAllocation(a)])
  BY DEF Init, NoAllocation, RowFine
<1>4. QED
  BY <1>1, <1>2, <1>3 DEF OfflineRows

\* A step that changes the row of one request and its allocations.
LEMMA OneRequestFine ==
  ASSUME OfflineRows, RowsTypeOK', NEW r \in RequestIds, NEW row,
         request' = [request EXCEPT ![r] = row],
         RequestFine(row),
         row.state \in Unsent => request[r].state \in Unsent,
         \A a \in AllocationIds :
           IF RequestOfAllocation(a) = r
           THEN RowFine(alloc'[a], row)
           ELSE alloc'[a] = alloc[a]
  PROVE  RowsKept
<1>1. \A s \in RequestIds : request'[s] = IF s = r THEN row ELSE request[s]
  BY DEF OfflineRows, RowsTypeOK, RequestTypeOK
<1>2. \A s \in RequestIds : RequestFine(request'[s])
  BY <1>1 DEF OfflineRows
<1>3. ASSUME NEW a \in AllocationIds
      PROVE  RowFine(alloc'[a], request'[RequestOfAllocation(a)])
  <2>1. RequestOfAllocation(a) \in RequestIds
    BY AllocationIdParts
  <2>2. CASE RequestOfAllocation(a) = r
    BY <1>1, <2>1, <2>2
  <2>3. CASE RequestOfAllocation(a) # r
    BY <1>1, <2>1, <2>3 DEF OfflineRows
  <2>4. QED
    BY <2>2, <2>3
<1>4. \A s \in RequestIds : request[s].state \notin Unsent => request'[s].state \notin Unsent
  BY <1>1
<1>5. QED
  BY <1>2, <1>3, <1>4 DEF RowsKept, OfflineRows

\* An allocation that is kept stays in order unless its request comes to hold
\* what it has picked.
LEMMA KeptFine ==
  ASSUME NEW row, NEW old, NEW new, RowFine(row, old), Holds(new) => Holds(old),
         new.state \in Unsent => old.state \in Unsent
  PROVE  RowFine(row, new)
BY DEF RowFine

\* The bounds, for one allocation and its request.
LEMMA RowBefore ==
  ASSUME OfflineRows, NEW a \in AllocationIds
  PROVE  /\ alloc[a] \in Allocation
         /\ RequestOfAllocation(a) \in RequestIds
         /\ request[RequestOfAllocation(a)] \in MaterialRequest
         /\ RequestFine(request[RequestOfAllocation(a)])
         /\ RowFine(alloc[a], request[RequestOfAllocation(a)])
BY AllocationIdParts DEF OfflineRows, RowsTypeOK, RequestTypeOK

\* A new draft has no allocation.
LEMMA CreateDraftFine ==
  ASSUME OfflineRows, NEW r \in RequestIds, NEW demand \in Demands(r),
         CreateDraft(r, demand)
  PROVE  RowsKept
<1> DEFINE row == Moved(request[r], "draft", NoWorker)
<1>1. RowsTypeOK'
  BY CreateType DEF OfflineRows
<1>2. request' = [request EXCEPT ![r] = row] /\ alloc' = alloc
  BY DEF CreateDraft
<1>3. /\ row.state = "draft" /\ row.claimedBy = NoWorker
      /\ request[r].state = "absent"
  BY DEF CreateDraft, Moved
<1> HIDE DEF row
<1>4. /\ RequestFine(row)
      /\ row.state \in Unsent => request[r].state \in Unsent
      /\ Holds(row) => Holds(request[r])
  BY <1>3 DEF RequestFine, Unsent, Holds, HoldingStates
<1>5. \A a \in AllocationIds : RequestOfAllocation(a) = r => RowFine(alloc'[a], row)
  BY <1>2, <1>4, RowBefore, KeptFine
<1>6. QED
  BY <1>1, <1>2, <1>4, <1>5, OneRequestFine

\* What a submission allocates is not picked, issued or released.
LEMMA SubmittedFine ==
  ASSUME OfflineRows, RowsTypeOK', NEW r \in RequestIds, NEW demand, NEW version,
         request[r].state \in Unsent, DOMAIN demand \subseteq LinesOf(r),
         Submitted(r, demand, version)
  PROVE  RowsKept
<1> DEFINE row == [state |-> "submitted", claimedBy |-> request[r].claimedBy,
                   version |-> version]
<1>1. PICK fill \in [Servable(DOMAIN demand) -> Amounts] :
        alloc' = [a \in AllocationIds |->
                    LET s == <<LineOf(a), PositionOf(a)>>
                    IN  IF a[3] = 1 /\ s \in Servable(DOMAIN demand) /\ fill[s] > 0
                        THEN NewAllocation(fill[s])
                        ELSE alloc[a]]
  BY DEF Submitted
<1>2. request' = [request EXCEPT ![r] = row]
  BY DEF Submitted
<1>3. Amounts \subseteq Nat
  BY DEF Amounts
<1>4. /\ RequestFine(request[r])
      /\ row.state = "submitted" /\ row.claimedBy = request[r].claimedBy
  BY DEF OfflineRows
<1> HIDE DEF row
<1>5. /\ RequestFine(row) /\ row.state \notin Unsent
      /\ Holds(row) => Holds(request[r])
  BY <1>4 DEF RequestFine, Unsent, ClosedStates, Holds, HoldingStates
<1>6. ASSUME NEW a \in AllocationIds
      PROVE  IF RequestOfAllocation(a) = r
             THEN RowFine(alloc'[a], row)
             ELSE alloc'[a] = alloc[a]
  <2> DEFINE place == <<LineOf(a), PositionOf(a)>>
  <2>1. CASE alloc'[a] = alloc[a]
    BY <1>5, <2>1, RowBefore, KeptFine
  <2>2. CASE alloc'[a] # alloc[a]
    <3>1. /\ place \in Servable(DOMAIN demand)
          /\ fill[place] > 0
          /\ alloc'[a] = NewAllocation(fill[place])
      BY <1>1, <2>2
    <3>2. fill[place] \in Nat
      BY <1>3, <3>1
    <3>3. RequestOfAllocation(a) = r
      BY <3>1 DEF Servable, LinesOf, RequestOfAllocation
    <3>4. RowFine(NewAllocation(fill[place]), row)
      BY <1>5, <3>2 DEF RowFine, NewAllocation, NoAllocation
    <3>5. QED
      BY <3>1, <3>3, <3>4
  <2>3. QED
    BY <2>1, <2>2
<1>7. QED
  BY <1>2, <1>5, <1>6, OneRequestFine

\* So both ways of submitting keep the bounds.
LEMMA SubmitFine ==
  ASSUME OfflineRows, NEW r \in RequestIds,
         Submit(r) \/ \E demand \in Demands(r) : CreateAndSubmit(r, demand)
  PROVE  RowsKept
<1>1. CASE Submit(r)
  <2> DEFINE demand == [l \in {m \in LinesOf(r) : HasLine(m)} |-> line[l].requested]
  <2>1. RowsTypeOK'
    BY <1>1, SubmitType DEF OfflineRows
  <2>2. /\ DOMAIN demand \subseteq LinesOf(r)
        /\ Submitted(r, demand, request[r].version + 1)
        /\ request[r].state \in Unsent
    BY <1>1 DEF Submit, Unsent
  <2> HIDE DEF demand
  <2>3. QED
    BY <2>1, <2>2, SubmittedFine
<1>2. CASE \E demand \in Demands(r) : CreateAndSubmit(r, demand)
  <2>1. PICK demand \in Demands(r) : CreateAndSubmit(r, demand)
    BY <1>2
  <2>2. RowsTypeOK'
    BY <2>1, CreateType DEF OfflineRows
  <2>3. DOMAIN demand \subseteq LinesOf(r)
    BY DEF Demands
  <2>4. Submitted(r, demand, 2) /\ request[r].state \in Unsent
    BY <2>1 DEF CreateAndSubmit, Unsent
  <2>5. QED
    BY <2>2, <2>3, <2>4, SubmittedFine
<1>3. QED
  BY <1>1, <1>2

\* A claimable request has no more picked or released than its quantities.
LEMMA ClaimFine ==
  ASSUME OfflineRows, NEW u \in Workers, NEW r \in RequestIds, ClaimLocked(u, r)
  PROVE  RowsKept
<1> DEFINE row == Moved(request[r], "claimed", u)
<1>1. RowsTypeOK'
  BY ClaimType DEF OfflineRows
<1>2. /\ request' = [request EXCEPT ![r] = row] /\ alloc' = alloc
      /\ request[r].state \in ClaimableStates
  BY DEF ClaimLocked
<1>3. row.state = "claimed"
  BY DEF Moved
<1> HIDE DEF row
<1>4. RequestFine(row) /\ row.state \notin Unsent /\ Holds(request[r])
  BY <1>2, <1>3 DEF RequestFine, Unsent, ClosedStates, Holds, HoldingStates, ClaimableStates
<1>5. \A a \in AllocationIds : RequestOfAllocation(a) = r => RowFine(alloc'[a], row)
  BY <1>2, <1>4, RowBefore, KeptFine
<1>6. QED
  BY <1>1, <1>2, <1>4, <1>5, OneRequestFine

\* A transfer takes only what its source has not picked.
LEMMA TransferFine ==
  ASSUME OfflineRows, NEW source \in AllocationIds, NEW new \in AllocationIds,
         NEW q \in Quantities, TransferStep(source, new, q),
         request[RequestOfAllocation(new)].state \notin Unsent,
         NEW a \in AllocationIds
  PROVE  RowFine(alloc'[a], request[RequestOfAllocation(a)])
<1>1. /\ alloc \in [AllocationIds -> Allocation]
      /\ alloc[source] \in Allocation
      /\ q \in Nat /\ q > 0 /\ source # new
  BY DEF OfflineRows, RowsTypeOK, RequestTypeOK, TransferStep
<1>2. /\ alloc'[source] = Release(alloc[source], q)
      /\ alloc'[new] = NewAllocation(q)
      /\ \A b \in AllocationIds \ {source, new} : alloc'[b] = alloc[b]
  BY <1>1 DEF TransferStep, Transfer
<1>3. CASE a = source
  <2>1. /\ alloc'[a].quantity = alloc[a].quantity
        /\ alloc'[a].picked = alloc[a].picked
        /\ alloc'[a].issued = alloc[a].issued
        /\ alloc'[a].released = alloc[a].released + q
    BY <1>1, <1>2, <1>3, ReleaseType
  <2>2. q <= alloc[a].quantity - alloc[a].picked - alloc[a].released
    BY <1>3 DEF TransferStep, Transferable
  <2>3. QED
    BY <1>1, <1>3, <2>1, <2>2, RowBefore DEF RowFine, Allocation
<1>4. CASE a = new
  BY <1>1, <1>2, <1>4 DEF RowFine, NewAllocation, NoAllocation
<1>5. CASE a \notin {source, new}
  BY <1>2, <1>5, RowBefore
<1>6. QED
  BY <1>3, <1>4, <1>5

\* A step that leaves the states and the claims.
LEMMA SameStatesFine ==
  ASSUME OfflineRows, RowsTypeOK',
         \A r \in RequestIds : /\ request'[r].state = request[r].state
                               /\ request'[r].claimedBy = request[r].claimedBy,
         \A a \in AllocationIds : RowFine(alloc'[a], request[RequestOfAllocation(a)])
  PROVE  RowsKept
<1>1. \A r \in RequestIds : RequestFine(request'[r])
  BY DEF OfflineRows, RequestFine
<1>2. \A a \in AllocationIds : RowFine(alloc'[a], request'[RequestOfAllocation(a)])
  BY AllocationIdParts DEF RowFine, Holds
<1>3. QED
  BY <1>1, <1>2 DEF RowsKept, OfflineRows

\* A transfer releases what is not picked, and only where the bound holds.
LEMMA ReallocateFine ==
  ASSUME OfflineRows, NEW source \in AllocationIds, NEW new \in AllocationIds,
         NEW q \in Quantities, Reallocate(source, new, q)
  PROVE  RowsKept
<1>1. RowsTypeOK'
  BY ReallocateType DEF OfflineRows
<1>2. \A r \in RequestIds : /\ request'[r].state = request[r].state
                            /\ request'[r].claimedBy = request[r].claimedBy
  BY AllocationIdParts
     DEF Reallocate, OfflineRows, RowsTypeOK, RequestTypeOK, Bumped, Moved
<1>3. /\ TransferStep(source, new, q)
      /\ request[RequestOfAllocation(new)].state \notin Unsent
  BY DEF Reallocate, TransferStep, Transfer, IsNextId, ReallocatableStates, Unsent
<1>4. \A a \in AllocationIds : RowFine(alloc'[a], request[RequestOfAllocation(a)])
  BY <1>3, TransferFine
<1>5. QED
  BY <1>1, <1>2, <1>4, SameStatesFine

\* So does a substitution, whose request is claimed.
LEMMA SubstituteFine ==
  ASSUME OfflineRows, NEW u \in Workers,
         NEW source \in AllocationIds, NEW new \in AllocationIds,
         NEW q \in Quantities, Substitute(u, source, new, q)
  PROVE  RowsKept
<1> DEFINE r == RequestOfAllocation(source)
<1>1. RowsTypeOK'
  BY SubstituteType DEF OfflineRows
<1>2. \A s \in RequestIds : /\ request'[s].state = request[s].state
                            /\ request'[s].claimedBy = request[s].claimedBy
  BY AllocationIdParts
     DEF Substitute, OfflineRows, RowsTypeOK, RequestTypeOK, Bumped, Moved
<1>3. TransferStep(source, new, q)
  BY DEF Substitute, TransferStep, Transfer, IsNextId
<1>4. request[RequestOfAllocation(new)].state \notin Unsent
  <2>1. RequestOfAllocation(new) = r /\ request[r].claimedBy = u
    BY DEF Substitute, RequestOfAllocation
  <2>2. QED
    BY <2>1, RowBefore DEF RequestFine
<1>5. \A a \in AllocationIds : RowFine(alloc'[a], request[RequestOfAllocation(a)])
  BY <1>3, <1>4, TransferFine
<1>6. QED
  BY <1>1, <1>2, <1>5, SameStatesFine

\* A picked row holds what was picked, and no more.
LEMMA PickedFine ==
  ASSUME NEW row \in Allocation, NEW q \in Nat, q \in PickRange(row), NEW parent,
         parent.state \notin Unsent
  PROVE  RowFine(Picked(row, q), parent)
<1>1. /\ row.quantity \in Nat /\ row.released \in Nat /\ row.issued \in Nat
      /\ row.issued <= q /\ q <= row.quantity - row.released
  BY DEF PickRange, Allocation
<1>2. /\ Picked(row, q).quantity = row.quantity
      /\ Picked(row, q).picked = q
      /\ Picked(row, q).issued = row.issued
      /\ Picked(row, q).released = row.quantity - q
  BY <1>1, PickedType
<1>3. QED
  BY <1>1, <1>2 DEF RowFine

\* A pick of a claimed request stays within what is not released.
LEMMA RecordPickFine ==
  ASSUME OfflineRows, NEW u \in Workers, NEW a \in AllocationIds,
         NEW q \in Quantities \union {0}, RecordPick(u, a, q)
  PROVE  RowsKept
<1> DEFINE r == RequestOfAllocation(a)
<1>1. RowsTypeOK'
  BY RecordPickType DEF OfflineRows
<1>2. PICK state \in {"ready", "in_progress"} :
        request' = [request EXCEPT ![r] = Moved(request[r], state, request[r].claimedBy)]
  BY DEF RecordPick
<1>3. /\ alloc' = [alloc EXCEPT ![a] = Picked(alloc[a], q)]
      /\ request[r].claimedBy = u
      /\ q \in PickRange(alloc[a])
  BY DEF RecordPick
<1> DEFINE row == Moved(request[r], state, request[r].claimedBy)
<1>4. row.state = state /\ row.claimedBy = request[r].claimedBy
  BY DEF Moved
<1>5. request' = [request EXCEPT ![r] = row]
  BY <1>2
<1> HIDE DEF row
<1>6. /\ RequestFine(row) /\ row.state \notin Unsent /\ Holds(request[r])
  BY <1>3, <1>4 DEF RequestFine, Unsent, ClosedStates, Holds
<1>7. RowFine(Picked(alloc[a], q), row)
  BY <1>3, <1>6, RowBefore, PickedFine
<1>8. ASSUME NEW b \in AllocationIds
      PROVE  IF RequestOfAllocation(b) = r
             THEN RowFine(alloc'[b], row)
             ELSE alloc'[b] = alloc[b]
  <2>1. alloc'[b] = IF b = a THEN Picked(alloc[a], q) ELSE alloc[b]
    BY <1>3 DEF OfflineRows, RowsTypeOK, RequestTypeOK
  <2>2. CASE b = a
    BY <1>7, <2>1, <2>2
  <2>3. CASE b # a
    BY <1>6, <2>1, <2>3, RowBefore, KeptFine
  <2>4. QED
    BY <2>2, <2>3
<1>9. r \in RequestIds
  BY AllocationIdParts
<1>10. QED
  BY <1>1, <1>5, <1>6, <1>8, <1>9, OneRequestFine

\* A hand-off issues what was picked: it fits if what is picked and released
\* does, which is known of a claimed request.
LEMMA IssuedFine ==
  ASSUME OfflineRows, NEW r \in RequestIds, NEW row, row.state \notin Unsent,
         NEW a \in AllocationIds,
         RequestOfAllocation(a) = r => HandedOff(r)[a].issued + alloc[a].released
                                         <= alloc[a].quantity
  PROVE  IF RequestOfAllocation(a) = r
         THEN RowFine(HandedOff(r)[a], row)
         ELSE HandedOff(r)[a] = alloc[a]
<1>1. CASE RequestOfAllocation(a) # r
  BY <1>1, HandedOffRow DEF OfflineRows
<1>2. CASE RequestOfAllocation(a) = r
  <2>1. /\ HandedOff(r)[a].quantity = alloc[a].quantity
        /\ HandedOff(r)[a].picked = alloc[a].picked
        /\ HandedOff(r)[a].released = alloc[a].released
        /\ HandedOff(r)[a].issued =
             IF alloc[a].picked > alloc[a].issued THEN alloc[a].picked ELSE alloc[a].issued
    BY <1>2, HandedOffRow DEF OfflineRows
  <2>2. /\ alloc[a] \in Allocation
        /\ alloc[a].issued <= alloc[a].picked /\ alloc[a].picked <= alloc[a].quantity
        /\ HandedOff(r)[a].issued + alloc[a].released <= alloc[a].quantity
    BY <1>2, RowBefore DEF RowFine
  <2>3. QED
    BY <1>2, <2>1, <2>2 DEF RowFine, Allocation
<1>3. QED
  BY <1>1, <1>2

\* A hand-off issues what was picked and releases the rest.
LEMMA HandoffFine ==
  ASSUME OfflineRows, NEW u \in Workers, NEW r \in RequestIds, Handoff(u, r)
  PROVE  RowsKept
<1>1. RowsTypeOK'
  BY HandoffType DEF OfflineRows
<1>2. PICK state \in {"completed", "partially_fulfilled"} :
        request' = [request EXCEPT ![r] = Moved(request[r], state, NoWorker)]
  BY DEF Handoff
<1>3. alloc' = HandedOff(r) /\ request[r].claimedBy = u
  BY DEF Handoff, IssuePicked
<1> DEFINE row == Moved(request[r], state, NoWorker)
<1>4. RequestFine(row) /\ row.state \notin Unsent
  BY DEF Moved, RequestFine, Unsent
<1>5. request' = [request EXCEPT ![r] = row]
  BY <1>2
<1> HIDE DEF row
<1>6. ASSUME NEW a \in AllocationIds, RequestOfAllocation(a) = r
      PROVE  HandedOff(r)[a].issued + alloc[a].released <= alloc[a].quantity
  <2>1. Holds(request[r])
    BY <1>3 DEF Holds
  <2>2. /\ alloc[a] \in Allocation
        /\ alloc[a].issued <= alloc[a].picked
        /\ alloc[a].picked + alloc[a].released <= alloc[a].quantity
    BY <1>6, <2>1, RowBefore DEF RowFine
  <2>3. HandedOff(r)[a].issued =
          IF alloc[a].picked > alloc[a].issued THEN alloc[a].picked ELSE alloc[a].issued
    BY <1>6, HandedOffRow DEF OfflineRows
  <2>4. QED
    BY <2>2, <2>3 DEF Allocation
<1>7. \A a \in AllocationIds : IF RequestOfAllocation(a) = r
                               THEN RowFine(alloc'[a], row)
                               ELSE alloc'[a] = alloc[a]
  BY <1>3, <1>4, <1>6, IssuedFine
<1>8. QED
  BY <1>1, <1>4, <1>5, <1>7, OneRequestFine

\* A cancellation releases what is not issued.
LEMMA CancelFine ==
  ASSUME OfflineRows, NEW r \in RequestIds, Cancel(r)
  PROVE  RowsKept
<1> DEFINE row == Moved(request[r], "cancelled", NoWorker)
<1>1. RowsTypeOK /\ AllocationWithinQuantity
  BY OfflineRowsAreRows DEF RowsInv
<1>2. RowsTypeOK'
  BY <1>1, CancelType
<1>3. request' = [request EXCEPT ![r] = row] /\ alloc' = Cancelled(r)
  BY DEF Cancel
<1>4. row.state = "cancelled" /\ row.claimedBy = NoWorker
  BY DEF Moved
<1> HIDE DEF row
<1>5. RequestFine(row) /\ row.state \notin Unsent /\ ~ Holds(row)
  BY <1>4 DEF RequestFine, Unsent, Holds, HoldingStates
<1>6. ASSUME NEW a \in AllocationIds
      PROVE  IF RequestOfAllocation(a) = r
             THEN RowFine(alloc'[a], row)
             ELSE alloc'[a] = alloc[a]
  <2>1. CASE RequestOfAllocation(a) # r
    BY <1>1, <1>3, <2>1, CancelledRow
  <2>2. CASE RequestOfAllocation(a) = r
    <3>1. /\ alloc'[a].quantity = alloc[a].quantity
          /\ alloc'[a].picked = alloc[a].picked
          /\ alloc'[a].issued = alloc[a].issued
          /\ alloc'[a].released = alloc[a].quantity - alloc[a].issued
      BY <1>1, <1>3, <2>2, CancelledRow
    <3>2. /\ alloc[a] \in Allocation
          /\ alloc[a].issued <= alloc[a].picked /\ alloc[a].picked <= alloc[a].quantity
      BY RowBefore DEF RowFine
    <3>3. QED
      BY <1>5, <2>2, <3>1, <3>2 DEF RowFine, Allocation
  <2>3. QED
    BY <2>1, <2>2
<1>7. QED
  BY <1>2, <1>3, <1>5, <1>6, OneRequestFine

\* The requests go on being worked on online.
LEMMA RequestStepFine ==
  ASSUME OfflineRows, [RequestNext]_vars
  PROVE  RowsKept
<1>1. ASSUME NEW r \in RequestIds, NEW demand \in Demands(r), CreateDraft(r, demand)
      PROVE  RowsKept
  BY <1>1, CreateDraftFine
<1>2. ASSUME NEW r \in RequestIds,
             Submit(r) \/ \E demand \in Demands(r) : CreateAndSubmit(r, demand)
      PROVE  RowsKept
  BY <1>2, SubmitFine
<1>3. ASSUME NEW r \in RequestIds, Cancel(r)
      PROVE  RowsKept
  BY <1>3, CancelFine
<1>4. ASSUME NEW r \in RequestIds, NEW u \in Workers, ClaimLocked(u, r)
      PROVE  RowsKept
  BY <1>4, ClaimFine
<1>5. ASSUME NEW r \in RequestIds, NEW u \in Workers, Handoff(u, r)
      PROVE  RowsKept
  BY <1>5, HandoffFine
<1>6. ASSUME NEW source \in AllocationIds, NEW new \in AllocationIds,
             NEW q \in Quantities, Reallocate(source, new, q)
      PROVE  RowsKept
  BY <1>6, ReallocateFine
<1>7. ASSUME NEW source \in AllocationIds, NEW new \in AllocationIds,
             NEW q \in Quantities, NEW u \in Workers, Substitute(u, source, new, q)
      PROVE  RowsKept
  BY <1>7, SubstituteFine
<1>8. ASSUME NEW a \in AllocationIds, NEW u \in Workers,
             NEW q \in Quantities \union {0}, RecordPick(u, a, q)
      PROVE  RowsKept
  BY <1>8, RecordPickFine
<1>9. CASE UNCHANGED vars
  <2>1. UNCHANGED <<stock, ledger, outbox, request, line, alloc, batch>>
    BY <1>9 DEF vars, stockVars, requestVars
  <2>2. RowsTypeOK'
    BY <2>1 DEF OfflineRows, RowsTypeOK, StockTypeOK, RequestTypeOK
  <2>3. QED
    BY <2>1, <2>2 DEF RowsKept, OfflineRows
<1>10. QED
  BY <1>1, <1>2, <1>3, <1>4, <1>5, <1>6, <1>7, <1>8, <1>9
  DEF RequestNext, Claim, ClaimNext
-----------------------------------------------------------------------------
(***************************************************************************)
(* The commands.  They are checked against the object the Session has, and *)
(* only what the object changes is written: the state of the row is the    *)
(* new one or, if the object already had that, whatever it is by now.      *)
(***************************************************************************)

\* A call that may apply the command it has at hand.
Ready(c) ==
  LET g == call[c].grant IN
  /\ g \in Grants
  /\ grant[g] \in Grant
  /\ request[grant[g].request].state \notin Unsent
  /\ call[c].seen \in SeenRows
  /\ CommandOf(c) \in Command

\* What a queued pick carries.
LEMMA PickCommand ==
  ASSUME NEW command \in Command, command.kind = "record_pick"
  PROVE  command.allocation \in AllocationIds /\ command.quantity \in Nat
<1>1. command \in [kind : {"record_pick"}, allocation : AllocationIds,
                  quantity : Quantities \union {0}]
  BY DEF Command
<1>2. command.allocation \in AllocationIds /\ command.quantity \in Quantities \union {0}
  BY <1>1
<1>3. \A q \in Quantities \union {0} : q \in Nat
  OBVIOUS
<1>4. QED
  BY <1>2, <1>3

\* The row an applied command leaves.
LEMMA WrittenRow ==
  ASSUME NEW row \in MaterialRequest, NEW seen \in MaterialRequest,
         NEW state \in States, NEW worker \in Workers \union {NoWorker},
         NEW written, written = Written(row, seen, Moved(seen, state, worker))
  PROVE  /\ written \in MaterialRequest
         /\ written.state = row.state \/ written.state = state
         /\ seen.state # state => written.state = state
         /\ worker = seen.claimedBy => written.claimedBy = row.claimedBy
         /\ worker # seen.claimedBy => written.claimedBy = worker
BY DEF Written, Moved, MaterialRequest

\* The request a call works on is the one it read.
LEMMA SeenRow ==
  ASSUME NEW c, Ready(c)
  PROVE  Row(c) = call[c].seen.row /\ Row(c) \in MaterialRequest
BY DEF Ready, Row, Seen, SeenRows

\* A pick from a stale object keeps bounds and demand: it is taken from the
\* allocation as it is, only the state of the request is old.
LEMMA ApplyPickRows ==
  ASSUME OfflineRows, DemandInv, NEW c \in Calls, Ready(c), ApplyPick(c)
  PROVE  RowsKept /\ DemandInv'
<1> DEFINE g == call[c].grant
           r == grant[g].request
           a == CommandOf(c).allocation
           q == CommandOf(c).quantity
           state == IF AllConfirmed(r) THEN "ready" ELSE "in_progress"
           new == Moved(Row(c), state, Row(c).claimedBy)
           row == Written(request[r], Row(c), new)
<1>1. /\ Row(c) \in MaterialRequest
      /\ r \in RequestIds /\ grant[g].user \in Workers
      /\ request[r] \in MaterialRequest /\ RequestFine(request[r])
      /\ request[r].state \notin Unsent
      /\ a \in AllocationIds /\ q \in Nat
      /\ RequestOfAllocation(a) = r
      /\ q \in PickRange(alloc[a])
  <2>1. r \in RequestIds /\ grant[g].user \in Workers /\ request[r].state \notin Unsent
    BY DEF Ready, Grant
  <2>2. CommandOf(c) \in Command /\ CommandOf(c).kind = "record_pick" /\ IsAllowed(c)
    BY DEF Ready, ApplyPick, Applying
  <2>3. a \in AllocationIds /\ q \in Nat
    BY <2>2, PickCommand
  <2>4. RequestOfAllocation(a) = r /\ q \in PickRange(alloc[a])
    BY <2>2 DEF IsAllowed, GrantOf
  <2>5. QED
    BY <2>1, <2>3, <2>4, SeenRow DEF OfflineRows, RowsTypeOK, RequestTypeOK
<1>2. /\ request' = [request EXCEPT ![r] = row]
      /\ alloc' = [alloc EXCEPT ![a] = Picked(alloc[a], q)]
      /\ line' = RefreshLines(alloc', {LineOf(a)})
      /\ batch' = [batch EXCEPT ![r] = IF batch[r] = NoWorker THEN grant[g].user ELSE batch[r]]
      /\ UNCHANGED stockVars
  BY DEF ApplyPick, Applying, GrantOf
<1>3. /\ row \in MaterialRequest
      /\ row.state = request[r].state \/ row.state = state
      /\ row.claimedBy = request[r].claimedBy
  <2> DEFINE was == request[r]
             seen == Row(c)
  <2>1. /\ state \in States /\ seen \in MaterialRequest /\ was \in MaterialRequest
        /\ seen.claimedBy \in Workers \union {NoWorker}
    BY <1>1 DEF States, MaterialRequest
  <2>2. row = Written(was, seen, Moved(seen, state, seen.claimedBy))
    OBVIOUS
  <2> HIDE DEF state, seen, row, was
  <2>3. row \in MaterialRequest
    BY <2>1, <2>2, WrittenRow
  <2>4. row.state = was.state \/ row.state = state
    BY <2>1, <2>2 DEF Written, Moved
  <2>5. row.claimedBy = was.claimedBy
    BY <2>1, <2>2 DEF Written, Moved
  <2>6. QED
    BY <2>3, <2>4, <2>5 DEF was
<1>4. state \notin Unsent \union ClosedStates /\ state \notin HoldingStates
  BY DEF Unsent, ClosedStates, HoldingStates
<1> HIDE DEF state, row, r, a, q
<1>5. /\ RequestFine(row) /\ row.state \notin Unsent
      /\ Holds(row) => Holds(request[r])
  BY <1>1, <1>3, <1>4 DEF RequestFine, Holds
<1>6. alloc[a] \in Allocation /\ alloc \in [AllocationIds -> Allocation]
  BY <1>1 DEF OfflineRows, RowsTypeOK, RequestTypeOK
<1>7. Picked(alloc[a], q) \in Allocation /\ RowFine(Picked(alloc[a], q), row)
  <2>1. q <= alloc[a].quantity - alloc[a].released
    BY <1>1, <1>6 DEF PickRange, Allocation
  <2>2. QED
    BY <1>1, <1>5, <1>6, <2>1, PickedType, PickedFine
<1>8. RowsTypeOK'
  BY <1>1, <1>2, <1>3, <1>6, <1>7
  DEF OfflineRows, RowsTypeOK, RequestTypeOK, StockTypeOK, stockVars
<1>9. ASSUME NEW b \in AllocationIds
      PROVE  IF RequestOfAllocation(b) = r
             THEN RowFine(alloc'[b], row)
             ELSE alloc'[b] = alloc[b]
  <2>1. alloc'[b] = IF b = a THEN Picked(alloc[a], q) ELSE alloc[b]
    BY <1>2, <1>6
  <2>2. CASE b = a
    BY <1>1, <1>7, <2>1, <2>2
  <2>3. CASE b # a
    BY <1>5, <2>1, <2>3, RowBefore, KeptFine
  <2>4. QED
    BY <2>2, <2>3
<1>10. RowsKept
  BY <1>1, <1>2, <1>5, <1>8, <1>9, OneRequestFine
<1>11. RowsInv /\ RowsInv'
  BY <1>10, OfflineRowsAreRows DEF RowsKept
<1>12. ASSUME NEW l \in LineIds PROVE LineAfter(l)
  <2>1. request'[RequestOf[l]].state =
          IF RequestOf[l] = r THEN row.state ELSE request[RequestOf[l]].state
    BY <1>2 DEF OfflineRows, RowsTypeOK, RequestTypeOK
  <2>2. \/ request'[RequestOf[l]].state = request[RequestOf[l]].state
        \/ /\ RequestOf[l] = RequestOfAllocation(a)
           /\ request'[RequestOf[l]].state \notin Unsent \union ClosedStates
    BY <1>1, <1>3, <1>4, <2>1
  <2>3. q <= alloc[a].quantity - alloc[a].released
    BY <1>1, <1>6 DEF PickRange, Allocation
  <2>4. QED
    BY <1>1, <1>2, <1>11, <2>2, <2>3, PickLines
<1>13. DemandInv'
  BY <1>2, <1>12 DEF DemandInv, LineAfter, RefreshLines
<1>14. QED
  BY <1>10, <1>13

\* A hand-off from a stale object does too: the constraint on the table stops
\* what would issue released material.
LEMMA ApplyHandoffRows ==
  ASSUME OfflineRows, DemandInv, NEW c \in Calls, Ready(c), ApplyHandoff(c)
  PROVE  RowsKept /\ DemandInv'
<1> DEFINE g == call[c].grant
           r == grant[g].request
           state == IF FullyClosed(r, HandedOffLines(r))
                    THEN "completed" ELSE "partially_fulfilled"
           new == Moved(Row(c), state, NoWorker)
           row == Written(request[r], Row(c), new)
<1>1. /\ Row(c) \in MaterialRequest
      /\ r \in RequestIds
      /\ request[r] \in MaterialRequest
      /\ request[r].state \notin Unsent
      /\ Row(c).state = "ready" /\ Row(c).claimedBy # NoWorker
  <2>1. r \in RequestIds /\ grant[g].user \in Workers /\ request[r].state \notin Unsent
    BY DEF Ready, Grant
  <2>2. CommandOf(c).kind = "handoff" /\ IsAllowed(c)
    BY DEF ApplyHandoff, Applying
  <2>3. Row(c).state = "ready" /\ Row(c).claimedBy = grant[g].user
    BY <2>2 DEF IsAllowed, GrantOf
  <2>4. QED
    BY <2>1, <2>3, SeenRow DEF OfflineRows, RowsTypeOK, RequestTypeOK
<1>2. /\ request' = [request EXCEPT ![r] = row]
      /\ IssuePicked(r)
      /\ alloc' = HandedOff(r) /\ line' = HandedOffLines(r)
      /\ ClosedWithinQuantity(HandedOff(r))
      /\ batch' = [batch EXCEPT ![r] = NoWorker]
  BY DEF ApplyHandoff, Applying, GrantOf, IssuePicked
<1>3. row \in MaterialRequest /\ row.state = state /\ row.claimedBy = NoWorker
  <2>1. state \in States /\ state # "ready"
    BY DEF States
  <2> HIDE DEF state
  <2>2. QED
    BY <1>1, <2>1, WrittenRow
<1>4. /\ state \notin Unsent
      /\ state \in ClosedStates => FullyClosed(r, line')
  BY <1>2 DEF Unsent, ClosedStates
<1> HIDE DEF state, row, r
<1>5. RequestFine(row) /\ row.state \notin Unsent
  BY <1>3, <1>4 DEF RequestFine
<1>6. RowsTypeOK'
  <2>1. StockTypeOK' /\ alloc' \in [AllocationIds -> Allocation]
    BY <1>1, <1>2, IssuePickedType DEF OfflineRows
  <2>2. QED
    BY <1>1, <1>2, <1>3, <2>1 DEF OfflineRows, RowsTypeOK, RequestTypeOK
<1>7. ASSUME NEW a \in AllocationIds
      PROVE  IF RequestOfAllocation(a) = r
             THEN RowFine(alloc'[a], row)
             ELSE alloc'[a] = alloc[a]
  <2>1. HandedOff(r)[a].released = alloc[a].released
        /\ HandedOff(r)[a].quantity = alloc[a].quantity
    BY <1>1, HandedOffRow DEF OfflineRows
  <2>2. HandedOff(r)[a].issued + alloc[a].released <= alloc[a].quantity
    BY <1>2, <2>1 DEF ClosedWithinQuantity
  <2>3. QED
    BY <1>1, <1>2, <1>5, <2>2, IssuedFine
<1>8. RowsKept
  BY <1>1, <1>2, <1>5, <1>6, <1>7, OneRequestFine
<1>9. RowsInv /\ RowsInv'
  BY <1>8, OfflineRowsAreRows DEF RowsKept
<1>10. ASSUME NEW l \in LineIds PROVE LineAfter(l)
  <2>1. request'[RequestOf[l]].state =
          IF RequestOf[l] = r THEN state ELSE request[RequestOf[l]].state
    BY <1>2, <1>3 DEF OfflineRows, RowsTypeOK, RequestTypeOK
  <2>2. \/ request'[RequestOf[l]].state = request[RequestOf[l]].state
        \/ /\ RequestOf[l] = r
           /\ request'[RequestOf[l]].state \notin Unsent
           /\ request'[RequestOf[l]].state \in ClosedStates => FullyClosed(r, line')
    BY <1>4, <2>1
  <2>3. QED
    BY <1>1, <1>2, <1>9, <2>2, IssueLines
<1>11. DemandInv'
  BY <1>2, <1>10 DEF DemandInv, LineAfter, HandedOffLines, RefreshLines
<1>12. QED
  BY <1>8, <1>11
-----------------------------------------------------------------------------
(***************************************************************************)
(* The invariant of a synchronization.  "Known" is what a device may       *)
(* conclude about a command: it is recorded, as applied or as not applied. *)
(* An answer only gets older: a conflict may become a rejection, but what  *)
(* was applied stays applied, and nothing recorded is ever deleted.        *)
(***************************************************************************)
OfflineTypes ==
  /\ grant \in [Grants -> Grant \union NewGrant]
  /\ device \in [Devices -> {"unknown", "active", "revoked"}]
  /\ queue \in [Grants -> Seq(Queued)]
  /\ recorded \in [Grants -> Seq(Recorded)]
  /\ call \in [Calls -> SyncCall \union {Idle}]

Known(answers, n, status) ==
  /\ n \in 1..Len(answers)
  /\ answers[n].status = "applied" <=> status = "applied"

QueueFine(commands, answers) ==
  /\ Len(commands) <= MaxCommands
  /\ \A i \in 1..Len(answers) : answers[i].sequence = i
  /\ \A n \in 1..Len(commands) :
       commands[n].status # "pending" =>
         Known(answers, n, IF commands[n].status = "forgotten" THEN "applied" ELSE "conflict")

GrantOK(g) ==
  /\ QueueFine(queue[g], recorded[g])
  /\ grant[g] \in Grant => request[grant[g].request].state \notin Unsent

\* A call between its steps, by its own row, its grant, the queue and the
\* record of the grant, and the device.  While it applies a command it holds
\* the lock of the grant, so that nobody records another command, ends the
\* grant or revokes the device meanwhile.
CallFine(my, c, row, commands, answers, status) ==
  /\ row \in Grant
  /\ my.todo \subseteq 1..Len(commands)
  /\ my.step \in {"lock", "apply", "refused"} => my.todo # {}
  /\ my.step = "apply" =>
       /\ row.lockedBy = c
       /\ Min(my.todo) = Len(answers) + 1
       /\ status = "active"
       /\ my.seen \in SeenRows
  /\ my.step = "refused" => Min(my.todo) <= Len(answers) + 1
  /\ \A x \in my.results : Known(answers, x.sequence, x.status)

CallOK(c) ==
  call[c] # Idle =>
    CallFine(call[c], c, GrantOf(c), queue[call[c].grant], recorded[call[c].grant],
             device[DeviceOf[call[c].grant]])

OfflineInv ==
  /\ OfflineRows
  /\ DemandInv
  /\ OfflineTypes
  /\ \A g \in Grants : GrantOK(g)
  /\ \A c \in Calls : CallOK(c)

\* What a step may do to a grant, seen from everybody but the call c.
Grows(answers, longer) ==
  /\ Len(answers) <= Len(longer)
  /\ \A n \in 1..Len(answers) :
       longer[n].status = "applied" <=> answers[n].status = "applied"

GrantStep(g, c) ==
  /\ Grows(recorded[g], recorded'[g])
  /\ Len(queue[g]) <= Len(queue'[g])
  /\ grant[g] \in Grant => grant'[g] \in Grant
  /\ \A d \in Calls \ {c} : grant[g].lockedBy = d =>
       /\ grant'[g].lockedBy = d
       /\ Len(recorded'[g]) = Len(recorded[g])
       /\ device[DeviceOf[g]] = "active" => device'[DeviceOf[g]] = "active"

\* The least element of a set of numbers.
LEMMA MinInSet ==
  ASSUME NEW S \in SUBSET Nat, S # {}
  PROVE  Min(S) \in S /\ \A n \in S : Min(S) <= n
<1>1. PICK n \in S : \A m \in S : <<m, n>> \notin OpToRel(<, Nat)
  BY NatLessThanWellFounded, WFMin
<1>2. \A m \in S : ~ (m < n)
  BY <1>1 DEF OpToRel
<1>3. \A m \in S : n <= m
  BY <1>2
<1>4. QED
  BY <1>3 DEF Min

\* The next sequence that sync accepts is the one after the last record.
LEMMA NextSequence ==
  ASSUME OfflineInv, NEW g \in Grants, NEW n, InSequence(g, n)
  PROVE  n = Len(recorded[g]) + 1
<1> DEFINE s == recorded[g]
           S == {0} \union {x.sequence : x \in ToSet(s)}
<1>1. s \in Seq(Recorded) /\ \A i \in 1..Len(s) : s[i].sequence = i
  BY DEF OfflineInv, OfflineTypes, GrantOK, QueueFine
<1>2. Len(s) \in Nat /\ ToSet(s) = {s[i] : i \in 1..Len(s)}
  BY <1>1 DEF ToSet
<1>3. S = 0..Len(s)
  <2> HIDE DEF s
  <2>1. \A i \in S : i \in 0..Len(s)
    BY <1>1, <1>2
  <2>2. ASSUME NEW i \in 0..Len(s) PROVE i \in S
    <3>1. CASE i = 0
      BY <3>1
    <3>2. CASE i # 0
      <4>1. s[i] \in ToSet(s) /\ s[i].sequence = i
        BY <1>1, <1>2, <3>2
      <4>2. QED
        BY <4>1
    <3>3. QED
      BY <3>1, <3>2
  <2>3. QED
    BY <2>1, <2>2
<1>4. Max(0..Len(s)) = Len(s)
  <2>1. \A m \in Nat : Max(0..m) = m
    BY DEF Max
  <2>2. QED
    BY <1>2, <2>1
<1>5. QED
  BY <1>3, <1>4 DEF InSequence

\* A call that is under way, its grant and what CallFine says of both.
LEMMA CallType ==
  ASSUME OfflineInv, NEW c \in Calls, call[c].step # "idle"
  PROVE  /\ call[c] \in SyncCall /\ call[c].grant \in Grants
         /\ CallFine(call[c], c, GrantOf(c), queue[call[c].grant],
                     recorded[call[c].grant], device[DeviceOf[call[c].grant]])
<1>1. call[c] \in SyncCall /\ call[c] # Idle
  BY DEF OfflineInv, OfflineTypes, Idle
<1>2. CallOK(c)
  BY DEF OfflineInv
<1>3. QED
  BY <1>1, <1>2 DEF CallOK, SyncCall

\* What one call does keeps the other calls in order.
LEMMA CallKept ==
  ASSUME NEW my, NEW d, NEW row, NEW new, NEW commands, NEW longer, NEW answers,
         NEW more, NEW status, NEW after,
         Len(commands) \in Nat, Len(longer) \in Nat, Len(answers) \in Nat, Len(more) \in Nat,
         CallFine(my, d, row, commands, answers, status),
         Grows(answers, more), Len(commands) <= Len(longer),
         row \in Grant => new \in Grant,
         my.todo # {} => Min(my.todo) \in Nat,
         row.lockedBy = d => /\ new.lockedBy = d
                             /\ Len(more) = Len(answers)
                             /\ status = "active" => after = "active"
  PROVE  CallFine(my, d, new, longer, more, after)
<1>1. new \in Grant
  BY DEF CallFine
<1>2. my.todo \subseteq 1..Len(longer)
  BY DEF CallFine
<1>3. my.step = "refused" => Min(my.todo) <= Len(more) + 1
  BY DEF CallFine, Grows
<1>4. ASSUME NEW x \in my.results PROVE Known(more, x.sequence, x.status)
  <2>1. Known(answers, x.sequence, x.status)
    BY DEF CallFine
  <2>2. x.sequence \in 1..Len(answers) /\ x.sequence \in 1..Len(more)
    BY <2>1 DEF Known, Grows
  <2>3. more[x.sequence].status = "applied" <=> answers[x.sequence].status = "applied"
    BY <2>2 DEF Grows
  <2>4. QED
    BY <2>1, <2>2, <2>3 DEF Known
<1>5. QED
  BY <1>1, <1>2, <1>3, <1>4 DEF CallFine

\* The invariant after a step of c: everybody else sees a grant that only grew.
LEMMA StateKept ==
  ASSUME OfflineInv, RowsKept, DemandInv', OfflineTypes',
         NEW c, \A d \in Calls \ {c} : call'[d] = call[d],
         c \in Calls => CallOK(c)',
         \A g \in Grants : GrantStep(g, c),
         \A g \in Grants : GrantOK(g)'
  PROVE  OfflineInv'
<1>1. ASSUME NEW d \in Calls \ {c}, call[d] # Idle
      PROVE  CallOK(d)'
  <2> DEFINE g == call[d].grant
  <2>1. call[d] \in SyncCall
    BY <1>1 DEF OfflineInv, OfflineTypes
  <2>2. g \in Grants /\ call'[d] = call[d] /\ call[d].todo \in SUBSET Nat
    BY <2>1 DEF SyncCall
  <2>3. CallFine(call[d], d, grant[g], queue[g], recorded[g], device[DeviceOf[g]])
    BY <1>1 DEF OfflineInv, CallOK, GrantOf
  <2>4. call[d].todo # {} => Min(call[d].todo) \in Nat
    BY <2>2, MinInSet
  <2>5. /\ Len(queue[g]) \in Nat /\ Len(queue'[g]) \in Nat
        /\ Len(recorded[g]) \in Nat /\ Len(recorded'[g]) \in Nat
    BY <2>2 DEF OfflineInv, OfflineTypes
  <2>6. GrantStep(g, c)
    BY <2>2
  <2> HIDE DEF g
  <2>7. CallFine(call[d], d, grant'[g], queue'[g], recorded'[g], device'[DeviceOf[g]])
    BY <2>3, <2>4, <2>5, <2>6, CallKept DEF GrantStep
  <2>8. QED
    BY <2>2, <2>7 DEF CallOK, GrantOf, g
<1>2. ASSUME NEW d \in Calls PROVE CallOK(d)'
  <2>1. CASE d = c
    BY <2>1
  <2>2. CASE d # c /\ call[d] # Idle
    BY <1>1, <2>2
  <2>3. CASE d # c /\ call[d] = Idle
    BY <2>3 DEF CallOK, Idle
  <2>4. QED
    BY <2>1, <2>2, <2>3
<1>3. QED
  BY <1>2 DEF OfflineInv, RowsKept

\* A step that touches no request.
LEMMA RowsUnchanged ==
  ASSUME OfflineRows, DemandInv, UNCHANGED vars
  PROVE  RowsKept /\ DemandInv'
<1>1. RowsKept
  BY RequestStepFine
<1>2. RowsInv /\ RowsInv'
  BY <1>1, OfflineRowsAreRows DEF RowsKept
<1>3. QED
  BY <1>1, <1>2, DemandStep

\* Giving up a lock leaves the grant and the locks of others.
LEMMA UnlockType ==
  ASSUME NEW row \in Grant, NEW c \in Calls
  PROVE  /\ Unlock(row, c) \in Grant
         /\ Unlock(row, c).request = row.request
         /\ \A d \in Calls \ {c} : row.lockedBy = d => Unlock(row, c).lockedBy = d
<1>1. row.lockedBy \in Calls \union {NoCall}
  BY DEF Grant
<1>2. Unlock(row, c) = [row EXCEPT !.lockedBy = IF row.lockedBy = c THEN NoCall ELSE row.lockedBy]
  BY DEF Unlock
<1>3. QED
  BY <1>1, <1>2 DEF Grant

\* A step of the call c under the grant g: it may change the row of the grant,
\* its records and itself.
LEMMA CallStep ==
  ASSUME OfflineInv, RowsKept, DemandInv',
         NEW c \in Calls, NEW g \in Grants, NEW row \in Grant, NEW answers, NEW my,
         grant[g] \in Grant, row.request = grant[g].request,
         answers \in Seq(Recorded), Grows(recorded[g], answers),
         \A i \in 1..Len(answers) : answers[i].sequence = i,
         \A d \in Calls \ {c} : grant[g].lockedBy = d =>
           row.lockedBy = d /\ Len(answers) = Len(recorded[g]),
         my \in SyncCall \union {Idle},
         my # Idle => /\ my.grant = g
                      /\ CallFine(my, c, row, queue[g], answers, device[DeviceOf[g]]),
         grant' = [grant EXCEPT ![g] = row],
         recorded' = [recorded EXCEPT ![g] = answers],
         call' = [call EXCEPT ![c] = my],
         UNCHANGED <<device, queue>>
  PROVE  OfflineInv'
<1>1. OfflineTypes
  BY DEF OfflineInv
<1>2. OfflineTypes'
  BY <1>1 DEF OfflineTypes
<1>3. /\ \A h \in Grants : grant'[h] = IF h = g THEN row ELSE grant[h]
      /\ \A h \in Grants : recorded'[h] = IF h = g THEN answers ELSE recorded[h]
      /\ \A d \in Calls : call'[d] = IF d = c THEN my ELSE call[d]
  BY <1>1 DEF OfflineTypes
<1>4. \A h \in Grants : Len(queue[h]) \in Nat /\ Len(recorded[h]) \in Nat
  BY <1>1 DEF OfflineTypes
<1>5. CallOK(c)'
  BY <1>3 DEF CallOK, GrantOf
<1>6. ASSUME NEW h \in Grants PROVE GrantStep(h, c)
  <2>1. CASE h = g
    BY <1>3, <1>4, <2>1 DEF GrantStep
  <2>2. CASE h # g
    BY <1>3, <1>4, <2>2 DEF GrantStep, Grows
  <2>3. QED
    BY <2>1, <2>2
<1>7. ASSUME NEW h \in Grants PROVE GrantOK(h)'
  <2>1. GrantOK(h)
    BY DEF OfflineInv
  <2>2. grant'[h] \in Grant => request'[grant'[h].request].state \notin Unsent
    <3>1. grant'[h] \in Grant =>
            /\ grant[h] \in Grant /\ grant'[h].request = grant[h].request
            /\ grant[h].request \in RequestIds
      BY <1>3 DEF Grant
    <3>2. QED
      BY <2>1, <3>1 DEF GrantOK, RowsKept
  <2>3. QueueFine(queue[h], recorded[h])
    BY <2>1 DEF GrantOK
  <2>4. CASE h # g
    BY <1>3, <2>2, <2>3, <2>4 DEF GrantOK
  <2>5. CASE h = g
    <3>1. ASSUME NEW n \in 1..Len(queue[g]), queue[g][n].status # "pending"
          PROVE  Known(answers, n, IF queue[g][n].status = "forgotten"
                                   THEN "applied" ELSE "conflict")
      <4>1. Known(recorded[g], n, IF queue[g][n].status = "forgotten"
                                  THEN "applied" ELSE "conflict")
        BY <2>3, <2>5, <3>1 DEF QueueFine
      <4>2. n \in 1..Len(recorded[g]) /\ n \in 1..Len(answers)
        BY <1>4, <4>1 DEF Known, Grows
      <4>3. answers[n].status = "applied" <=> recorded[g][n].status = "applied"
        BY <4>2 DEF Grows
      <4>4. QED
        BY <4>1, <4>2, <4>3 DEF Known
    <3>2. QueueFine(queue[g], answers)
      BY <2>3, <2>5, <3>1 DEF QueueFine
    <3>3. QED
      BY <1>3, <2>2, <2>5, <3>2 DEF GrantOK
  <2>6. QED
    BY <2>4, <2>5
<1>8. QED
  BY <1>2, <1>3, <1>5, <1>6, <1>7, StateKept

\* A step that only locks or unlocks the grant and moves the call on.
LEMMA LockStep ==
  ASSUME OfflineInv, NEW c \in Calls, NEW g \in Grants, NEW row \in Grant, NEW my,
         grant[g] \in Grant, row.request = grant[g].request,
         \A d \in Calls \ {c} : grant[g].lockedBy = d => row.lockedBy = d,
         my \in SyncCall \union {Idle},
         my # Idle => /\ my.grant = g
                      /\ CallFine(my, c, row, queue[g], recorded[g], device[DeviceOf[g]]),
         grant' = [grant EXCEPT ![g] = row],
         call' = [call EXCEPT ![c] = my],
         UNCHANGED <<vars, device, queue, recorded>>
  PROVE  OfflineInv'
<1>1. RowsKept /\ DemandInv'
  BY RowsUnchanged DEF OfflineInv
<1>2. /\ recorded[g] \in Seq(Recorded) /\ Len(recorded[g]) \in Nat
      /\ recorded' = [recorded EXCEPT ![g] = recorded[g]]
  BY DEF OfflineInv, OfflineTypes
<1>3. \A i \in 1..Len(recorded[g]) : recorded[g][i].sequence = i
  BY DEF OfflineInv, GrantOK, QueueFine
<1>4. Grows(recorded[g], recorded[g])
  BY <1>2 DEF Grows
<1>5. QED
  BY <1>1, <1>2, <1>3, <1>4, CallStep

\* The command at hand is one of the queue.
LEMMA AtHandType ==
  ASSUME OfflineInv, NEW c \in Calls, call[c].step # "idle", call[c].todo # {}
  PROVE  /\ AtHand(c) \in call[c].todo
         /\ AtHand(c) \in 1..Len(queue[call[c].grant])
         /\ AtHand(c) \in 1..MaxCommands
<1>1. call[c] \in SyncCall
  BY CallType
<1>2. call[c].todo \in SUBSET Nat /\ call[c].todo \subseteq 1..MaxCommands
  BY <1>1 DEF SyncCall
<1>3. call[c].todo \subseteq 1..Len(queue[call[c].grant])
  BY CallType DEF CallFine
<1>4. AtHand(c) \in call[c].todo
  BY <1>2, MinInSet DEF AtHand
<1>5. QED
  BY <1>2, <1>3, <1>4

\* The call after the answer to the command at hand.
LEMMA AnsweringType ==
  ASSUME OfflineInv, NEW c \in Calls, call[c].step # "idle", call[c].todo # {},
         NEW status \in Answers
  PROVE  /\ Result(AtHand(c), status) \in Recorded
         /\ Answering(c, status) \in SyncCall
         /\ Answering(c, status).grant = call[c].grant
         /\ Answering(c, status).step = call[c].step
         /\ Answering(c, status).seen = call[c].seen
         /\ Answering(c, status).todo \subseteq call[c].todo
         /\ Answering(c, status).results =
              call[c].results \union {Result(AtHand(c), status)}
<1>1. call[c] \in SyncCall
  BY CallType
<1>2. Result(AtHand(c), status) \in Recorded
  BY AtHandType DEF Result, Recorded
<1> DEFINE n == AtHand(c)
           x == Result(n, status)
<1>3. Answering(c, status) = [call[c] EXCEPT !.todo = call[c].todo \ {n},
                                             !.results = call[c].results \union {x}]
  BY DEF Answering
<1> HIDE DEF n, x
<1>4. /\ call[c].todo \ {n} \in SUBSET (1..MaxCommands)
      /\ call[c].results \union {x} \in SUBSET Recorded
  BY <1>1, <1>2 DEF SyncCall, x, n
<1>5. QED
  BY <1>1, <1>2, <1>3, <1>4 DEF SyncCall, x, n

\* A command is answered with what is recorded of it.
LEMMA LookupStep ==
  ASSUME OfflineInv, NEW c \in Calls, Lookup(c)
  PROVE  OfflineInv'
<1> DEFINE g == call[c].grant
           existing == {x \in ToSet(recorded[g]) : x.sequence = AtHand(c)}
<1>1. /\ call[c].step = "lookup" /\ call[c].todo # {}
      /\ call[c] \in SyncCall /\ g \in Grants
      /\ CallFine(call[c], c, grant[g], queue[g], recorded[g], device[DeviceOf[g]])
  BY CallType DEF Lookup, GrantOf
<1>2. grant[g] \in Grant /\ grant' = [grant EXCEPT ![g] = grant[g]]
      /\ UNCHANGED <<vars, device, queue, recorded>>
  BY <1>1 DEF Lookup, CallFine, OfflineInv, OfflineTypes
<1>3. CASE existing = {}
  <2> DEFINE my == [call[c] EXCEPT !.step = "lock"]
  <2>1. call' = [call EXCEPT ![c] = my]
    BY <1>3 DEF Lookup
  <2>2. my \in SyncCall /\ my.grant = g /\ my.step = "lock"
        /\ my.todo = call[c].todo /\ my.results = call[c].results
    BY <1>1 DEF SyncCall
  <2> HIDE DEF my, g
  <2>3. CallFine(my, c, grant[g], queue[g], recorded[g], device[DeviceOf[g]])
    BY <1>1, <2>2 DEF CallFine
  <2>4. QED
    BY <1>1, <1>2, <2>1, <2>2, <2>3, LockStep
<1>4. CASE existing # {}
  <2> DEFINE x == CHOOSE x \in existing : TRUE
             my == Answering(c, x.status)
  <2>1. call' = [call EXCEPT ![c] = my]
    BY <1>4 DEF Lookup, StoredStatus
  <2>2. x \in existing
    BY <1>4
  <2> HIDE DEF x
  <2>3. recorded[g] \in Seq(Recorded)
        /\ \A i \in 1..Len(recorded[g]) : recorded[g][i].sequence = i
    BY <1>1 DEF OfflineInv, OfflineTypes, GrantOK, QueueFine
  <2>4. PICK i \in 1..Len(recorded[g]) : x = recorded[g][i]
    BY <2>2, <2>3 DEF ToSet
  <2>5. /\ i = AtHand(c) /\ x.status \in Answers
        /\ Known(recorded[g], AtHand(c), x.status)
    <3>1. recorded[g][i] \in Recorded
      BY <2>3
    <3>2. x.sequence = AtHand(c) /\ x.sequence = i
      BY <2>2, <2>3, <2>4
    <3>3. QED
      BY <2>4, <3>1, <3>2 DEF Known, Recorded
  <2>6. /\ my \in SyncCall /\ my.grant = g /\ my.step = "lookup"
        /\ my.todo \subseteq call[c].todo
        /\ my.results = call[c].results \union {Result(AtHand(c), x.status)}
    BY <1>1, <2>5, AnsweringType
  <2> HIDE DEF my, g
  <2>7. \A y \in my.results : Known(recorded[g], y.sequence, y.status)
    BY <1>1, <2>5, <2>6 DEF CallFine, Result
  <2>8. CallFine(my, c, grant[g], queue[g], recorded[g], device[DeviceOf[g]])
    BY <1>1, <2>6, <2>7 DEF CallFine
  <2>9. QED
    BY <1>1, <1>2, <2>1, <2>6, <2>8, LockStep
<1>5. QED
  BY <1>3, <1>4

\* The transaction that records the command at hand, whatever else it writes.
LEMMA RecordStep ==
  ASSUME OfflineInv, RowsKept, DemandInv',
         NEW c \in Calls, call[c].step # "idle", call[c].todo # {},
         GrantOf(c).lockedBy \in {NoCall, c},
         AtHand(c) = Len(recorded[call[c].grant]) + 1,
         NEW status \in {"applied", "conflict"}, NEW version \in Nat,
         Recording(c, status, version),
         NEW step \in {"lookup", "answered"}, NEW seen \in SeenRows \union {NoRow},
         call' = [call EXCEPT ![c] = [Answering(c, status) EXCEPT !.step = step, !.seen = seen]]
  PROVE  OfflineInv'
<1> DEFINE g == call[c].grant
           my == [Answering(c, status) EXCEPT !.step = step, !.seen = seen]
           x == Result(AtHand(c), status)
           answers == Append(recorded[g], x)
           row == [Unlock(grant[g], c) EXCEPT !.version = version]
<1>1. /\ call[c] \in SyncCall /\ g \in Grants
      /\ CallFine(call[c], c, grant[g], queue[g], recorded[g], device[DeviceOf[g]])
  BY CallType DEF GrantOf
<1>2. grant[g] \in Grant /\ c # NoCall
  BY <1>1 DEF CallFine
<1>3. /\ row \in Grant /\ row.request = grant[g].request
      /\ \A d \in Calls \ {c} : grant[g].lockedBy # d
  <2> DEFINE free == Unlock(grant[g], c)
  <2>1. free \in Grant /\ free.request = grant[g].request
    BY <1>2, UnlockType
  <2>2. row = [free EXCEPT !.version = version]
    OBVIOUS
  <2>3. grant[g].lockedBy \in {NoCall, c} /\ NoCall \notin Calls
    BY DEF GrantOf
  <2> HIDE DEF free, row
  <2>4. row \in Grant /\ row.request = grant[g].request
    BY <2>1, <2>2 DEF Grant
  <2>5. QED
    BY <2>3, <2>4
<1>4. /\ grant' = [grant EXCEPT ![g] = row] /\ recorded' = [recorded EXCEPT ![g] = answers]
      /\ UNCHANGED <<device, queue>>
  BY DEF Recording
<1>5. /\ my \in SyncCall /\ my.grant = g /\ my.step = step
      /\ my.todo \subseteq call[c].todo /\ my.results = call[c].results \union {x}
      /\ x \in Recorded
  <2> DEFINE base == Answering(c, status)
  <2>1. status \in Answers
    BY DEF Answers
  <2>2. /\ base \in SyncCall /\ base.grant = g /\ x \in Recorded
        /\ base.todo \subseteq call[c].todo /\ base.results = call[c].results \union {x}
    BY <2>1, AnsweringType
  <2>3. my = [base EXCEPT !.step = step, !.seen = seen]
    OBVIOUS
  <2> HIDE DEF base, my, g, x
  <2>4. QED
    BY <2>2, <2>3 DEF SyncCall
<1>6. /\ recorded[g] \in Seq(Recorded)
      /\ \A i \in 1..Len(recorded[g]) : recorded[g][i].sequence = i
  BY <1>1 DEF OfflineInv, OfflineTypes, GrantOK, QueueFine
<1>7. x.sequence = Len(recorded[g]) + 1 /\ x.status = status
  BY DEF Result
<1> HIDE DEF x
<1>8. /\ answers \in Seq(Recorded) /\ Len(answers) = Len(recorded[g]) + 1
      /\ \A i \in 1..Len(recorded[g]) : answers[i] = recorded[g][i]
      /\ answers[Len(recorded[g]) + 1] = x
      /\ Len(recorded[g]) \in Nat
  BY <1>5, <1>6
<1> HIDE DEF answers, my, row, g
<1>9. /\ Grows(recorded[g], answers)
      /\ \A i \in 1..Len(answers) : answers[i].sequence = i
  <2>1. Grows(recorded[g], answers)
    BY <1>8 DEF Grows
  <2>2. ASSUME NEW i \in 1..Len(answers) PROVE answers[i].sequence = i
    <3>1. CASE i = Len(recorded[g]) + 1
      BY <1>7, <1>8, <3>1
    <3>2. CASE i # Len(recorded[g]) + 1
      <4>1. i \in 1..Len(recorded[g])
        BY <1>8, <3>2
      <4>2. QED
        BY <1>6, <1>8, <4>1
    <3>3. QED
      BY <3>1, <3>2
  <2>3. QED
    BY <2>1, <2>2
<1>10. ASSUME NEW y \in my.results PROVE Known(answers, y.sequence, y.status)
  <2>1. CASE y = x
    BY <1>7, <1>8, <2>1 DEF Known
  <2>2. CASE y # x
    <3>1. Known(recorded[g], y.sequence, y.status)
      BY <1>1, <1>5, <2>2 DEF CallFine
    <3>2. QED
      BY <1>8, <3>1 DEF Known
  <2>3. QED
    BY <2>1, <2>2
<1>11. CallFine(my, c, row, queue[g], answers, device[DeviceOf[g]])
  BY <1>1, <1>3, <1>5, <1>10 DEF CallFine
<1>12. call' = [call EXCEPT ![c] = my]
  BY DEF my
<1>13. \A d \in Calls \ {c} : grant[g].lockedBy = d =>
         row.lockedBy = d /\ Len(answers) = Len(recorded[g])
  BY <1>3
<1>14. my \in SyncCall \union {Idle} /\ (my # Idle => my.grant = g)
  BY <1>5
<1>15. QED
  BY <1>1, <1>2, <1>3, <1>4, <1>8, <1>9, <1>11, <1>12, <1>13, <1>14, CallStep

\* Recording a conflict as the next command of a grant.
LEMMA ConflictStep ==
  ASSUME OfflineInv, NEW c \in Calls, call[c].step # "idle", call[c].todo # {},
         CanLock(c, call[c].grant), AtHand(c) = Len(recorded[call[c].grant]) + 1,
         RecordConflict(c)
  PROVE  OfflineInv'
<1>1. RowsKept /\ DemandInv'
  BY RowsUnchanged DEF OfflineInv, RecordConflict
<1>2. GrantOf(c).lockedBy \in {NoCall, c}
  BY DEF CanLock, GrantOf
<1>3. GrantOf(c).version \in Nat /\ call[c].seen \in SeenRows \union {NoRow}
  BY CallType DEF CallFine, Grant, SyncCall
<1> DEFINE my == Answering(c, "conflict")
<1>4. my \in SyncCall /\ my.seen = call[c].seen
  BY AnsweringType DEF Answers
<1>5. call' = [call EXCEPT ![c] = [my EXCEPT !.step = "answered"]]
  BY DEF RecordConflict
<1> HIDE DEF my
<1>6. [my EXCEPT !.step = "answered"] =
        [my EXCEPT !.step = "answered", !.seen = call[c].seen]
  BY <1>4 DEF SyncCall
<1>7. Recording(c, "conflict", GrantOf(c).version)
  BY DEF RecordConflict
<1>8. call' = [call EXCEPT ![c] =
        [Answering(c, "conflict") EXCEPT !.step = "answered", !.seen = call[c].seen]]
  BY <1>5, <1>6 DEF my
<1>9. QED
  BY <1>1, <1>2, <1>3, <1>7, <1>8, RecordStep

\* A version that does not match is such a conflict.
LEMMA VersionConflictStep ==
  ASSUME OfflineInv, NEW c \in Calls, VersionConflict(c)
  PROVE  OfflineInv'
<1>1. /\ call[c].step = "lock" /\ CanLock(c, call[c].grant)
      /\ InSequence(call[c].grant, AtHand(c))
  BY DEF VersionConflict, CanBegin
<1>2. call[c].grant \in Grants /\ call[c].todo # {}
  BY <1>1, CallType DEF CallFine
<1>3. AtHand(c) = Len(recorded[call[c].grant]) + 1
  BY <1>1, <1>2, NextSequence
<1>4. QED
  BY <1>1, <1>2, <1>3, ConflictStep DEF VersionConflict

\* A command that was refused has not been recorded by another call since.
LEMMA RefusalConflictStep ==
  ASSUME OfflineInv, NEW c \in Calls, RefusalConflict(c)
  PROVE  OfflineInv'
<1> DEFINE g == call[c].grant
<1>1. /\ call[c].step = "refused" /\ CanLock(c, g) /\ RecordConflict(c)
      /\ \A x \in ToSet(recorded[g]) : x.sequence # AtHand(c)
  BY DEF RefusalConflict
<1>2. /\ g \in Grants /\ call[c].todo # {}
      /\ Min(call[c].todo) <= Len(recorded[g]) + 1
  BY <1>1, CallType DEF CallFine
<1>3. /\ recorded[g] \in Seq(Recorded)
      /\ \A i \in 1..Len(recorded[g]) : recorded[g][i].sequence = i
  BY <1>2 DEF OfflineInv, OfflineTypes, GrantOK, QueueFine
<1>4. AtHand(c) \in Nat \ {0} /\ AtHand(c) <= Len(recorded[g]) + 1
  BY <1>1, <1>2, AtHandType DEF AtHand
<1>5. AtHand(c) \notin 1..Len(recorded[g])
  <2>1. \A i \in 1..Len(recorded[g]) : recorded[g][i] \in ToSet(recorded[g])
    BY <1>3 DEF ToSet
  <2>2. QED
    BY <1>1, <1>3, <2>1
<1>6. AtHand(c) = Len(recorded[g]) + 1
  <2>1. Len(recorded[g]) \in Nat
    BY <1>3
  <2>2. QED
    BY <1>4, <1>5, <2>1
<1>7. QED
  BY <1>1, <1>2, <1>6, ConflictStep

\* The lock is taken for the next command, with the rows as the Session has them.
LEMMA BeginStep ==
  ASSUME OfflineInv, NEW c \in Calls, Begin(c)
  PROVE  OfflineInv'
<1> DEFINE g == call[c].grant
           my == [call[c] EXCEPT !.step = "apply", !.seen = Seen(c)]
           row == [grant[g] EXCEPT !.lockedBy = c]
<1>1. /\ call[c].step = "lock" /\ CanLock(c, g) /\ InSequence(g, AtHand(c))
      /\ call' = [call EXCEPT ![c] = my] /\ grant' = [grant EXCEPT ![g] = row]
      /\ UNCHANGED <<vars, device, queue, recorded>>
  BY DEF Begin, CanBegin
<1>2. /\ call[c] \in SyncCall /\ g \in Grants
      /\ CallFine(call[c], c, grant[g], queue[g], recorded[g], device[DeviceOf[g]])
  BY <1>1, CallType DEF GrantOf
<1>3. grant[g] \in Grant /\ AtHand(c) = Len(recorded[g]) + 1
  BY <1>1, <1>2, NextSequence DEF CallFine
<1>4. Seen(c) \in SeenRows
  <2>1. /\ GrantOf(c).version \in Nat
        /\ request[GrantOf(c).request] \in MaterialRequest
    BY <1>3 DEF GrantOf, Grant, OfflineInv, OfflineRows, RowsTypeOK, RequestTypeOK
  <2>2. call[c].seen \in SeenRows \union {NoRow}
    BY <1>2 DEF SyncCall
  <2>3. QED
    BY <2>1, <2>2 DEF Seen, SeenRows
<1>5. row \in Grant /\ row.request = grant[g].request /\ row.lockedBy = c
  BY <1>3 DEF Grant
<1>6. /\ my \in SyncCall /\ my.grant = g /\ my.step = "apply" /\ my.seen = Seen(c)
      /\ my.todo = call[c].todo /\ my.results = call[c].results
  <2> DEFINE seen == Seen(c)
  <2> HIDE DEF seen
  <2>1. [call[c] EXCEPT !.step = "apply", !.seen = seen] \in SyncCall
    BY <1>2, <1>4 DEF SyncCall, seen
  <2>2. QED
    BY <1>2, <2>1 DEF SyncCall, seen
<1>7. device[DeviceOf[g]] = "active" /\ grant[g].lockedBy \in {NoCall, c}
  BY <1>1 DEF CanLock
<1> HIDE DEF my, row, g
<1>8. CallFine(my, c, row, queue[g], recorded[g], device[DeviceOf[g]])
  BY <1>1, <1>2, <1>3, <1>4, <1>5, <1>6, <1>7 DEF CallFine, AtHand
<1>9. \A d \in Calls \ {c} : grant[g].lockedBy = d => row.lockedBy = d
  BY <1>7
<1>10. QED
  BY <1>1, <1>2, <1>3, <1>5, <1>6, <1>8, <1>9, LockStep

\* The call lets go of the grant.
LEMMA UnlockStep ==
  ASSUME OfflineInv, NEW c \in Calls, call[c].step # "idle", NEW my,
         \/ my = Idle
         \/ /\ my \in SyncCall /\ my.grant = call[c].grant
            /\ my.todo = call[c].todo /\ my.results = call[c].results
            /\ \/ my.step = "answered"
               \/ /\ my.step = "refused" /\ my.todo # {}
                  /\ AtHand(c) <= Len(recorded[call[c].grant]) + 1,
         grant' = [grant EXCEPT ![call[c].grant] = Unlock(grant[call[c].grant], c)],
         call' = [call EXCEPT ![c] = my],
         UNCHANGED <<vars, device, queue, recorded>>
  PROVE  OfflineInv'
<1> DEFINE g == call[c].grant
           row == Unlock(grant[g], c)
<1>1. /\ g \in Grants
      /\ CallFine(call[c], c, grant[g], queue[g], recorded[g], device[DeviceOf[g]])
  BY CallType DEF GrantOf
<1>2. grant[g] \in Grant
  BY <1>1 DEF CallFine
<1>3. /\ row \in Grant /\ row.request = grant[g].request
      /\ \A d \in Calls \ {c} : grant[g].lockedBy = d => row.lockedBy = d
  BY <1>2, UnlockType
<1>4. grant' = [grant EXCEPT ![g] = row]
  OBVIOUS
<1>5. my # Idle => my.grant = g
  OBVIOUS
<1> HIDE DEF row
<1>6. my # Idle => CallFine(my, c, row, queue[g], recorded[g], device[DeviceOf[g]])
  BY <1>1, <1>3 DEF CallFine, AtHand
<1> HIDE DEF g
<1>7. QED
  BY <1>1, <1>2, <1>3, <1>4, <1>5, <1>6, LockStep

\* A command that is refused gives up its lock.
LEMMA RefuseStep ==
  ASSUME OfflineInv, NEW c \in Calls, Refuse(c)
  PROVE  OfflineInv'
<1> DEFINE my == [call[c] EXCEPT !.step = "refused", !.seen = NoRow]
<1>1. /\ call[c].step = "apply" /\ call' = [call EXCEPT ![c] = my]
      /\ grant' = [grant EXCEPT ![call[c].grant] = Unlock(grant[call[c].grant], c)]
      /\ UNCHANGED <<vars, device, queue, recorded>>
  BY DEF Refuse
<1>2. /\ call[c] \in SyncCall /\ call[c].todo # {}
      /\ AtHand(c) = Len(recorded[call[c].grant]) + 1
      /\ Len(recorded[call[c].grant]) \in Nat
  BY <1>1, CallType DEF CallFine, AtHand, OfflineInv, OfflineTypes
<1>3. /\ my \in SyncCall /\ my.grant = call[c].grant /\ my.step = "refused"
      /\ my.todo = call[c].todo /\ my.results = call[c].results
  BY <1>2 DEF SyncCall
<1> HIDE DEF my
<1>4. AtHand(c) <= Len(recorded[call[c].grant]) + 1
  BY <1>2
<1>5. QED
  BY <1>1, <1>2, <1>3, <1>4, UnlockStep

\* A call that ends or fails gives up its lock and records nothing.
LEMMA FinishStep ==
  ASSUME OfflineInv, NEW c \in Calls, Finish(c) \/ Fail(c)
  PROVE  OfflineInv'
<1>1. CASE Finish(c)
  <2> DEFINE my == [call[c] EXCEPT !.step = "answered"]
  <2>1. /\ call[c].step = "lookup" /\ call' = [call EXCEPT ![c] = my]
        /\ grant' = [grant EXCEPT ![call[c].grant] = Unlock(grant[call[c].grant], c)]
        /\ UNCHANGED <<vars, device, queue, recorded>>
    BY <1>1 DEF Finish
  <2>2. call[c] \in SyncCall
    BY <2>1, CallType
  <2>3. /\ my \in SyncCall /\ my.grant = call[c].grant /\ my.step = "answered"
        /\ my.todo = call[c].todo /\ my.results = call[c].results
    BY <2>2 DEF SyncCall
  <2> HIDE DEF my
  <2>4. QED
    BY <2>1, <2>3, UnlockStep
<1>2. CASE Fail(c)
  <2>1. /\ call[c].step # "idle" /\ call' = [call EXCEPT ![c] = Idle]
        /\ grant' = [grant EXCEPT ![call[c].grant] = Unlock(grant[call[c].grant], c)]
        /\ UNCHANGED <<vars, device, queue, recorded>>
    BY <1>2 DEF Fail
  <2>2. QED
    BY <2>1, UnlockStep
<1>3. QED
  BY <1>1, <1>2

\* A new call takes the pending commands of the queue.
LEMMA StartSyncStep ==
  ASSUME OfflineInv, NEW c \in Calls, NEW g \in Grants, StartSync(c, g)
  PROVE  OfflineInv'
<1> DEFINE my == [grant |-> g, step |-> "lookup", seen |-> NoRow,
                  todo |-> Pending(g), results |-> {}]
           row == [grant[g] EXCEPT !.lockedBy = c]
<1>1. /\ CanLock(c, g)
      /\ grant' = [grant EXCEPT ![g] = row] /\ call' = [call EXCEPT ![c] = my]
      /\ UNCHANGED <<vars, device, queue, recorded>>
  BY DEF StartSync
<1>2. grant[g].state = "active" /\ grant[g].lockedBy \in {NoCall, c}
  BY <1>1 DEF CanLock
<1>3. grant[g] \in Grant
  BY <1>2 DEF OfflineInv, OfflineTypes, NewGrant
<1>4. row \in Grant /\ row.request = grant[g].request /\ row.lockedBy = c
  BY <1>3 DEF Grant
<1>5. /\ queue[g] \in Seq(Queued) /\ Len(queue[g]) \in Nat /\ Len(queue[g]) <= MaxCommands
  BY DEF OfflineInv, OfflineTypes, GrantOK, QueueFine
<1>6. Pending(g) \subseteq 1..Len(queue[g])
  BY <1>5 DEF Pending
<1>7. Pending(g) \in SUBSET (1..MaxCommands)
  BY <1>5, <1>6
<1>8. my \in SyncCall /\ my.grant = g
  BY <1>7 DEF SyncCall
<1> HIDE DEF row
<1>9. CallFine(my, c, row, queue[g], recorded[g], device[DeviceOf[g]])
  BY <1>4, <1>6 DEF CallFine
<1> HIDE DEF my
<1>10. \A d \in Calls \ {c} : grant[g].lockedBy = d => row.lockedBy = d
  BY <1>2
<1>11. QED
  BY <1>1, <1>3, <1>4, <1>8, <1>9, <1>10, LockStep

\* A call that applies a command holds the lock and is at the next command.
LEMMA ApplyReady ==
  ASSUME OfflineInv, NEW c \in Calls, call[c].step = "apply"
  PROVE  /\ Ready(c) /\ call[c].todo # {}
         /\ GrantOf(c).lockedBy = c
         /\ AtHand(c) = Len(recorded[call[c].grant]) + 1
         /\ device[DeviceOf[call[c].grant]] = "active"
<1> DEFINE g == call[c].grant
<1>1. /\ call[c] \in SyncCall /\ g \in Grants
      /\ CallFine(call[c], c, GrantOf(c), queue[g], recorded[g], device[DeviceOf[g]])
  BY CallType
<1>2. /\ grant[g] \in Grant /\ call[c].todo # {} /\ GrantOf(c).lockedBy = c
      /\ AtHand(c) = Len(recorded[g]) + 1
      /\ device[DeviceOf[g]] = "active" /\ call[c].seen \in SeenRows
  BY <1>1 DEF CallFine, GrantOf, AtHand
<1>3. request[grant[g].request].state \notin Unsent
  BY <1>1, <1>2 DEF OfflineInv, GrantOK
<1>4. queue[g] \in Seq(Queued) /\ AtHand(c) \in 1..Len(queue[g])
  BY <1>1, <1>2, AtHandType DEF OfflineInv, OfflineTypes
<1>5. CommandOf(c) \in Command
  <2>1. queue[g][AtHand(c)] \in Queued
    BY <1>4
  <2>2. QED
    BY <2>1 DEF CommandOf, Queued
<1>6. QED
  BY <1>1, <1>2, <1>3, <1>5 DEF Ready

\* What applying any command does to grant, record and call.
LEMMA ApplyingStep ==
  ASSUME OfflineInv, NEW c \in Calls, call[c].step = "apply",
         NEW state \in States, NEW worker \in Workers \union {NoWorker}, NEW new,
         new = Moved(Row(c), state, worker), Applying(c, new), RowsKept, DemandInv'
  PROVE  OfflineInv'
<1>1. Row(c) \in MaterialRequest
  BY ApplyReady, SeenRow
<1>2. new \in MaterialRequest /\ new.version \in Nat
  BY <1>1 DEF Moved, MaterialRequest
<1> DEFINE seen == [row |-> new, version |-> new.version]
<1>3. seen \in SeenRows \union {NoRow}
  BY <1>2 DEF SeenRows
<1>4. /\ Recording(c, "applied", new.version)
      /\ call' = [call EXCEPT ![c] = [Answering(c, "applied") EXCEPT
                                        !.step = "lookup", !.seen = seen]]
  BY DEF Applying
<1>5. /\ call[c].todo # {} /\ GrantOf(c).lockedBy \in {NoCall, c}
      /\ AtHand(c) = Len(recorded[call[c].grant]) + 1
  BY ApplyReady
<1> HIDE DEF seen
<1>6. QED
  BY <1>2, <1>3, <1>4, <1>5, RecordStep

\* Both kinds of commands.
LEMMA ApplyStep ==
  ASSUME OfflineInv, NEW c \in Calls, ApplyPick(c) \/ ApplyHandoff(c)
  PROVE  OfflineInv'
<1>1. CASE ApplyPick(c)
  <2> DEFINE state == IF AllConfirmed(GrantOf(c).request) THEN "ready" ELSE "in_progress"
  <2>1. call[c].step = "apply"
    BY <1>1 DEF ApplyPick
  <2>2. RowsKept /\ DemandInv'
    BY <1>1, <2>1, ApplyReady, ApplyPickRows DEF OfflineInv
  <2>3. Row(c).claimedBy \in Workers \union {NoWorker}
    BY <2>1, ApplyReady, SeenRow DEF MaterialRequest
  <2>4. state \in States /\ Applying(c, Moved(Row(c), state, Row(c).claimedBy))
    BY <1>1 DEF ApplyPick, States
  <2> HIDE DEF state
  <2>5. QED
    BY <2>1, <2>2, <2>3, <2>4, ApplyingStep
<1>2. CASE ApplyHandoff(c)
  <2> DEFINE r == GrantOf(c).request
             state == IF FullyClosed(r, HandedOffLines(r))
                      THEN "completed" ELSE "partially_fulfilled"
  <2>1. call[c].step = "apply"
    BY <1>2 DEF ApplyHandoff
  <2>2. RowsKept /\ DemandInv'
    BY <1>2, <2>1, ApplyReady, ApplyHandoffRows DEF OfflineInv
  <2>3. state \in States /\ Applying(c, Moved(Row(c), state, NoWorker))
    BY <1>2 DEF ApplyHandoff, States
  <2> HIDE DEF state
  <2>4. QED
    BY <2>1, <2>2, <2>3, ApplyingStep
<1>3. QED
  BY <1>1, <1>2
-----------------------------------------------------------------------------
(***************************************************************************)
(* The device and the grants                                               *)
(***************************************************************************)

\* The rows of one grant.
LEMMA KnownOf ==
  ASSUME NEW g \in Grants, OfflineInv
  PROVE  /\ queue[g] \in Seq(Queued) /\ Len(queue[g]) \in Nat
         /\ recorded[g] \in Seq(Recorded) /\ Len(recorded[g]) \in Nat
         /\ QueueFine(queue[g], recorded[g])
         /\ Grows(recorded[g], recorded[g])
         /\ grant[g] \in Grant => /\ request[grant[g].request].state \notin Unsent
                                  /\ grant[g].request \in RequestIds
BY DEF OfflineInv, OfflineTypes, GrantOK, Grows, Grant

\* A function on 1..n is a sequence of that length.
LEMMA FunctionIsSequence ==
  ASSUME NEW S, NEW n \in Nat, NEW f \in [1..n -> S]
  PROVE  f \in Seq(S) /\ Len(f) = n
OBVIOUS

\* The answers a device gets say what is recorded.
LEMMA DeliverStep ==
  ASSUME OfflineInv, NEW c \in Calls, Deliver(c)
  PROVE  OfflineInv'
<1> DEFINE g == call[c].grant
           Answered(n, statuses) ==
             \E x \in call[c].results : x.sequence = n /\ x.status \in statuses
           Learned(n) ==
             CASE Answered(n, {"applied"}) -> "forgotten"
               [] Answered(n, {"conflict", "rejected"}) -> "conflict"
               [] OTHER -> queue[g][n].status
           commands == [n \in DOMAIN queue[g] |-> [queue[g][n] EXCEPT !.status = Learned(n)]]
<1>1. /\ call[c].step = "answered" /\ queue' = [queue EXCEPT ![g] = commands]
      /\ call' = [call EXCEPT ![c] = Idle]
      /\ UNCHANGED <<vars, grant, device, recorded>>
  BY DEF Deliver
<1>2. /\ g \in Grants
      /\ \A x \in call[c].results : Known(recorded[g], x.sequence, x.status)
  BY <1>1, CallType DEF CallFine
<1>3. /\ queue[g] \in Seq(Queued) /\ Len(queue[g]) \in Nat
      /\ QueueFine(queue[g], recorded[g])
  BY <1>2, KnownOf
<1>4. ASSUME NEW n \in 1..Len(queue[g])
      PROVE  /\ Learned(n) \in {"pending", "conflict", "forgotten"}
             /\ Learned(n) # "pending" =>
                  Known(recorded[g], n, IF Learned(n) = "forgotten" THEN "applied" ELSE "conflict")
  <2>1. queue[g][n] \in Queued
    BY <1>3
  <2>2. CASE Answered(n, {"applied"})
    BY <1>2, <2>2 DEF Known
  <2>3. CASE ~ Answered(n, {"applied"}) /\ Answered(n, {"conflict", "rejected"})
    BY <1>2, <2>3 DEF Known
  <2>4. CASE ~ Answered(n, {"applied"}) /\ ~ Answered(n, {"conflict", "rejected"})
    BY <1>3, <2>1, <2>4 DEF QueueFine, Queued
  <2>5. QED
    BY <2>2, <2>3, <2>4
<1>5. ASSUME NEW n \in 1..Len(queue[g])
      PROVE  /\ [queue[g][n] EXCEPT !.status = Learned(n)] \in Queued
             /\ [queue[g][n] EXCEPT !.status = Learned(n)].status = Learned(n)
  <2>1. queue[g][n] \in Queued
    BY <1>3
  <2> HIDE DEF Learned
  <2>2. QED
    BY <1>4, <2>1 DEF Queued
<1>6. commands \in [1..Len(queue[g]) -> Queued]
  <2>1. DOMAIN queue[g] = 1..Len(queue[g])
    BY <1>3
  <2> HIDE DEF Learned, g
  <2>2. QED
    BY <1>5, <2>1
<1>7. \A n \in 1..Len(queue[g]) : commands[n].status = Learned(n)
  <2>1. DOMAIN queue[g] = 1..Len(queue[g])
    BY <1>3
  <2> HIDE DEF Learned, g
  <2>2. QED
    BY <1>5, <2>1
<1> HIDE DEF Learned, commands
<1>8. commands \in Seq(Queued) /\ Len(commands) = Len(queue[g])
  <2> HIDE DEF g
  <2>1. QED
    BY <1>3, <1>6, FunctionIsSequence
<1>9. QueueFine(commands, recorded[g])
  BY <1>3, <1>4, <1>7, <1>8 DEF QueueFine
<1>10. RowsKept /\ DemandInv'
  BY <1>1, RowsUnchanged DEF OfflineInv
<1>11. OfflineTypes'
  BY <1>1, <1>2, <1>8 DEF OfflineInv, OfflineTypes
<1>12. /\ \A h \in Grants : queue'[h] = IF h = g THEN commands ELSE queue[h]
       /\ \A d \in Calls : call'[d] = IF d = c THEN Idle ELSE call[d]
  BY <1>1 DEF OfflineInv, OfflineTypes
<1>13. CallOK(c)'
  BY <1>12 DEF CallOK
<1>14. ASSUME NEW h \in Grants PROVE GrantStep(h, c) /\ GrantOK(h)'
  <2>1. GrantStep(h, c)
    BY <1>1, <1>8, <1>12, KnownOf DEF GrantStep
  <2>2. QueueFine(queue'[h], recorded'[h])
    BY <1>1, <1>9, <1>12, KnownOf
  <2>3. grant'[h] \in Grant => request'[grant'[h].request].state \notin Unsent
    BY <1>1, KnownOf DEF vars, requestVars
  <2>4. QED
    BY <2>1, <2>2, <2>3 DEF GrantOK
<1>15. QED
  BY <1>10, <1>11, <1>12, <1>13, <1>14, StateKept

\* A step that no call takes and that leaves the requests alone.
LEMMA OutsideStep ==
  ASSUME OfflineInv, UNCHANGED <<vars, call>>, OfflineTypes',
         \A g \in Grants : GrantStep(g, NoCall),
         \A g \in Grants : QueueFine(queue'[g], recorded'[g]),
         \A g \in Grants : grant'[g] \in Grant =>
           request[grant'[g].request].state \notin Unsent
  PROVE  OfflineInv'
<1>1. RowsKept /\ DemandInv'
  BY RowsUnchanged DEF OfflineInv
<1>2. \A g \in Grants : GrantOK(g)'
  BY DEF GrantOK, vars, requestVars
<1>3. QED
  BY <1>1, <1>2, StateKept

\* Enrolling activates only a device that was not revoked.
LEMMA EnrollStep ==
  ASSUME OfflineInv, NEW d \in Devices, Enroll(d)
  PROVE  OfflineInv'
<1>1. OfflineTypes'
  BY DEF OfflineInv, OfflineTypes, Enroll
<1>2. \A g \in Grants : device[DeviceOf[g]] = "active" => device'[DeviceOf[g]] = "active"
  BY DEF Enroll, OfflineInv, OfflineTypes, Devices
<1>3. UNCHANGED <<vars, grant, queue, recorded, call>>
  BY DEF Enroll
<1>4. \A g \in Grants : GrantStep(g, NoCall)
  BY <1>2, <1>3, KnownOf DEF GrantStep
<1>5. QED
  BY <1>1, <1>3, <1>4, KnownOf, OutsideStep

\* Nobody works under a grant that does not exist yet.
LEMMA OpenGrantStep ==
  ASSUME OfflineInv, NEW g \in Grants,
         CheckDevice(g) \/ \E u \in Workers, r \in RequestIds : CreateGrant(g, u, r)
  PROVE  OfflineInv'
<1>1. /\ grant[g] \in NewGrant /\ grant[g] \notin Grant
      /\ UNCHANGED <<vars, device, queue, recorded, call>>
  BY DEF OfflineInv, OfflineTypes, CheckDevice, CreateGrant, Grant
<1>2. PICK row \in Grant \union NewGrant :
        /\ grant' = [grant EXCEPT ![g] = row]
        /\ row \in Grant => request[row.request].state \notin Unsent
  <2>1. CASE CheckDevice(g)
    <3> DEFINE row == [grant[g] EXCEPT !.state = "opening"]
    <3>1. grant' = [grant EXCEPT ![g] = row]
      BY <2>1 DEF CheckDevice
    <3>2. row \in NewGrant /\ row \notin Grant
      BY <1>1 DEF NewGrant, Grant
    <3> HIDE DEF row
    <3>3. QED
      BY <3>1, <3>2
  <2>2. CASE \E u \in Workers, r \in RequestIds : CreateGrant(g, u, r)
    <3>1. PICK u \in Workers, r \in RequestIds : CreateGrant(g, u, r)
      BY <2>2
    <3> DEFINE row == [state |-> "active", request |-> r, user |-> u,
                       version |-> request[r].version, lockedBy |-> NoCall]
    <3>2. grant' = [grant EXCEPT ![g] = row] /\ request[r].state \in OfflineStates
      BY <3>1 DEF CreateGrant
    <3>3. request[r].version \in Nat
      BY DEF OfflineInv, OfflineRows, RowsTypeOK, RequestTypeOK, MaterialRequest
    <3>4. row \in Grant /\ row.request = r
      BY <3>3 DEF Grant
    <3> HIDE DEF row
    <3>5. QED
      BY <3>2, <3>4 DEF OfflineStates, Unsent
  <2>3. QED
    BY <2>1, <2>2
<1>3. \A h \in Grants : grant'[h] = IF h = g THEN row ELSE grant[h]
  BY <1>2 DEF OfflineInv, OfflineTypes
<1>4. OfflineTypes'
  BY <1>1, <1>2 DEF OfflineInv, OfflineTypes
<1>5. \A h \in Grants : GrantStep(h, NoCall)
  <2>1. \A d \in Calls : grant[g].lockedBy # d
    BY <1>1 DEF NewGrant
  <2>2. ASSUME NEW h \in Grants PROVE GrantStep(h, NoCall)
    <3>1. Grows(recorded[h], recorded'[h]) /\ Len(queue[h]) <= Len(queue'[h])
      BY <1>1, KnownOf
    <3>2. CASE h = g
      BY <1>1, <2>1, <3>1, <3>2 DEF GrantStep
    <3>3. CASE h # g
      BY <1>1, <1>3, <3>1, <3>3 DEF GrantStep
    <3>4. QED
      BY <3>2, <3>3
  <2>3. QED
    BY <2>2
<1>6. QED
  BY <1>1, <1>2, <1>3, <1>4, <1>5, KnownOf, OutsideStep

\* A grant ends by itself, or with its device once nobody has it locked.
LEMMA EndGrantStep ==
  ASSUME OfflineInv,
         (\E g \in Grants : Expire(g)) \/ (\E d \in Devices : RevokeDevice(d))
  PROVE  OfflineInv'
<1>1. CASE \E g \in Grants : Expire(g)
  <2>1. PICK g \in Grants : Expire(g)
    BY <1>1
  <2> DEFINE row == [grant[g] EXCEPT !.state = "ended"]
  <2>2. /\ grant[g].state = "active" /\ grant' = [grant EXCEPT ![g] = row]
        /\ UNCHANGED <<vars, device, queue, recorded, call>>
    BY <2>1 DEF Expire
  <2>3. grant[g] \in Grant
    BY <2>2 DEF OfflineInv, OfflineTypes, NewGrant
  <2>4. /\ row \in Grant /\ row.request = grant[g].request
        /\ row.lockedBy = grant[g].lockedBy
    BY <2>3 DEF Grant
  <2> HIDE DEF row
  <2>5. \A h \in Grants : grant'[h] = IF h = g THEN row ELSE grant[h]
    BY <2>2 DEF OfflineInv, OfflineTypes
  <2>6. OfflineTypes'
    BY <2>2, <2>4 DEF OfflineInv, OfflineTypes
  <2>7. \A h \in Grants : GrantStep(h, NoCall)
    BY <2>2, <2>4, <2>5, KnownOf DEF GrantStep
  <2>8. \A h \in Grants : grant'[h] \in Grant => request[grant'[h].request].state \notin Unsent
    BY <2>3, <2>4, <2>5, KnownOf
  <2>9. QED
    BY <2>2, <2>6, <2>7, <2>8, KnownOf, OutsideStep
<1>2. CASE \E d \in Devices : RevokeDevice(d)
  <2>1. PICK d \in Devices : RevokeDevice(d)
    BY <1>2
  <2>2. /\ UNCHANGED <<vars, queue, recorded, call>>
        /\ \A g \in Grants : DeviceOf[g] = d => grant[g].lockedBy = NoCall
        /\ device' = [device EXCEPT ![d] = "revoked"]
    BY <2>1 DEF RevokeDevice
  <2>3. ASSUME NEW g \in Grants
        PROVE  /\ grant'[g] \in Grant \union NewGrant
               /\ DeviceOf[g] # d => grant'[g] = grant[g]
               /\ grant[g] \in Grant => grant'[g] \in Grant
               /\ grant'[g] \in Grant =>
                    grant[g] \in Grant /\ grant'[g].request = grant[g].request
    <3>1. CASE grant'[g] = grant[g]
      BY <3>1 DEF OfflineInv, OfflineTypes
    <3>2. CASE grant'[g] # grant[g]
      <4> DEFINE row == [grant[g] EXCEPT !.state = "ended"]
      <4>1. /\ DeviceOf[g] = d /\ grant[g].state = "active"
            /\ grant'[g] = row
        BY <2>1, <3>2 DEF RevokeDevice
      <4>2. grant[g] \in Grant
        BY <4>1 DEF OfflineInv, OfflineTypes, NewGrant
      <4>3. row \in Grant /\ row.request = grant[g].request
        BY <4>2 DEF Grant
      <4> HIDE DEF row
      <4>4. QED
        BY <4>1, <4>2, <4>3
    <3>3. QED
      BY <3>1, <3>2
  <2>4. grant' \in [Grants -> Grant \union NewGrant]
    BY <2>1, <2>3 DEF RevokeDevice
  <2>5. OfflineTypes'
    BY <2>2, <2>4 DEF OfflineInv, OfflineTypes
  <2>6. ASSUME NEW g \in Grants PROVE GrantStep(g, NoCall)
    <3>1. CASE DeviceOf[g] = d
      BY <2>2, <2>3, <3>1, KnownOf DEF GrantStep
    <3>2. CASE DeviceOf[g] # d
      <4>1. device'[DeviceOf[g]] = device[DeviceOf[g]]
        BY <2>2, <3>2 DEF OfflineInv, OfflineTypes, Devices
      <4>2. QED
        BY <2>2, <2>3, <3>2, <4>1, KnownOf DEF GrantStep
    <3>3. QED
      BY <3>1, <3>2
  <2>7. QED
    BY <2>2, <2>3, <2>5, <2>6, KnownOf, OutsideStep
<1>3. QED
  BY <1>1, <1>2

\* A new command is pending, and its sequence number is new.
LEMMA EnqueueStep ==
  ASSUME OfflineInv, NEW g \in Grants, NEW command \in Command, Enqueue(g, command)
  PROVE  OfflineInv'
<1> DEFINE x == [command |-> command, status |-> "pending"]
           commands == Append(queue[g], x)
<1>1. /\ Len(queue[g]) < MaxCommands /\ queue' = [queue EXCEPT ![g] = commands]
      /\ UNCHANGED <<vars, grant, device, recorded, call>>
  BY DEF Enqueue
<1>2. x \in Queued /\ x.status = "pending"
  BY DEF Queued
<1> HIDE DEF x
<1>3. /\ commands \in Seq(Queued) /\ Len(commands) = Len(queue[g]) + 1
      /\ commands[Len(queue[g]) + 1] = x
      /\ \A n \in 1..Len(queue[g]) : commands[n] = queue[g][n]
      /\ Len(queue[g]) \in Nat
  BY <1>2, KnownOf
<1> HIDE DEF commands
<1>4. \A h \in Grants : queue'[h] = IF h = g THEN commands ELSE queue[h]
  BY <1>1 DEF OfflineInv, OfflineTypes
<1>5. QueueFine(commands, recorded[g])
  <2>1. \A n \in 1..Len(commands) : n \in 1..Len(queue[g]) \/ n = Len(queue[g]) + 1
    BY <1>3
  <2>2. QueueFine(queue[g], recorded[g])
    BY KnownOf
  <2>3. Len(commands) <= MaxCommands
    BY <1>1, <1>3
  <2>4. ASSUME NEW n \in 1..Len(commands), commands[n].status # "pending"
        PROVE  Known(recorded[g], n, IF commands[n].status = "forgotten"
                                     THEN "applied" ELSE "conflict")
    BY <1>2, <1>3, <2>1, <2>2, <2>4 DEF QueueFine
  <2>5. QED
    BY <2>2, <2>3, <2>4 DEF QueueFine
<1>6. OfflineTypes'
  BY <1>1, <1>3 DEF OfflineInv, OfflineTypes
<1>7. \A h \in Grants : GrantStep(h, NoCall)
  BY <1>1, <1>3, <1>4, KnownOf DEF GrantStep
<1>8. \A h \in Grants : QueueFine(queue'[h], recorded'[h])
  BY <1>1, <1>4, <1>5, KnownOf
<1>9. QED
  BY <1>1, <1>6, <1>7, <1>8, KnownOf, OutsideStep

\* A manager rejects a conflict: what the device knows of it stays true.
LEMMA RejectStep ==
  ASSUME OfflineInv, NEW g \in Grants, NEW i \in DOMAIN recorded[g], Reject(g, i)
  PROVE  OfflineInv'
<1> DEFINE s == recorded[g]
           x == [s[i] EXCEPT !.status = "rejected"]
           answers == [s EXCEPT ![i] = x]
<1>1. /\ s[i].status = "conflict" /\ recorded' = [recorded EXCEPT ![g] = answers]
      /\ UNCHANGED <<vars, grant, device, queue, call>>
  BY DEF Reject
<1>2. /\ s \in Seq(Recorded) /\ Len(s) \in Nat /\ i \in 1..Len(s)
      /\ QueueFine(queue[g], s)
  BY KnownOf
<1>3. /\ x \in Recorded /\ x.sequence = s[i].sequence /\ x.status = "rejected"
  <2>1. s[i] \in Recorded
    BY <1>2
  <2>2. QED
    BY <2>1 DEF Recorded, Answers
<1> HIDE DEF x
<1>4. /\ answers \in Seq(Recorded) /\ Len(answers) = Len(s)
      /\ \A n \in 1..Len(s) : answers[n] = IF n = i THEN x ELSE s[n]
  BY <1>2, <1>3
<1> HIDE DEF answers
<1>5. /\ \A n \in 1..Len(s) : answers[n].status = "applied" <=> s[n].status = "applied"
      /\ \A n \in 1..Len(s) : answers[n].sequence = n
  BY <1>1, <1>2, <1>3, <1>4 DEF QueueFine
<1>6. Grows(s, answers)
  BY <1>2, <1>4, <1>5 DEF Grows
<1>7. \A h \in Grants : recorded'[h] = IF h = g THEN answers ELSE recorded[h]
  BY <1>1 DEF OfflineInv, OfflineTypes
<1>8. QueueFine(queue[g], answers)
  <2>1. \A n : \A status : Known(s, n, status) => Known(answers, n, status)
    BY <1>4, <1>5 DEF Known
  <2>2. QED
    BY <1>2, <1>4, <1>5, <2>1 DEF QueueFine
<1>9. OfflineTypes'
  BY <1>1, <1>4 DEF OfflineInv, OfflineTypes
<1>10. \A h \in Grants : GrantStep(h, NoCall)
  BY <1>1, <1>4, <1>6, <1>7, KnownOf DEF GrantStep
<1>11. \A h \in Grants : QueueFine(queue'[h], recorded'[h])
  BY <1>1, <1>7, <1>8, KnownOf
<1>12. QED
  BY <1>1, <1>9, <1>10, <1>11, KnownOf, OutsideStep

\* Work on the requests goes on online.
LEMMA OnlineStep ==
  ASSUME OfflineInv, [RequestNext]_vars, UNCHANGED offlineVars
  PROVE  OfflineInv'
<1>1. UNCHANGED <<grant, device, queue, recorded, call>>
  BY DEF offlineVars
<1>2. RowsKept
  BY RequestStepFine DEF OfflineInv
<1>3. DemandInv'
  BY <1>2, OfflineRowsAreRows, DemandStep DEF OfflineInv, RowsKept
<1>4. OfflineTypes'
  BY <1>1 DEF OfflineInv, OfflineTypes
<1>5. ASSUME NEW g \in Grants PROVE GrantStep(g, NoCall) /\ GrantOK(g)'
  <2>1. GrantStep(g, NoCall)
    BY <1>1, KnownOf DEF GrantStep
  <2>2. QueueFine(queue'[g], recorded'[g])
    BY <1>1, KnownOf
  <2>3. grant'[g] \in Grant => request'[grant'[g].request].state \notin Unsent
    BY <1>1, <1>2, KnownOf DEF RowsKept
  <2>4. QED
    BY <2>2, <2>1, <2>3 DEF GrantOK
<1>6. QED
  BY <1>1, <1>2, <1>3, <1>4, <1>5, StateKept

\* Every step of the workflow, the server, the device and the calls.
LEMMA OfflineStep == OfflineInv /\ [OfflineNext]_allVars => OfflineInv'
<1> SUFFICES ASSUME OfflineInv, [OfflineNext]_allVars PROVE OfflineInv'
  OBVIOUS
<1>1. CASE RequestNext /\ UNCHANGED offlineVars
  BY <1>1, OnlineStep
<1>2. CASE SyncNext
  <2>1. PICK c \in Calls :
          \/ Lookup(c) \/ Begin(c) \/ VersionConflict(c)
          \/ ApplyPick(c) \/ ApplyHandoff(c) \/ Refuse(c) \/ RefusalConflict(c)
          \/ Finish(c) \/ Deliver(c) \/ Fail(c)
          \/ \E g \in Grants : StartSync(c, g)
    BY <1>2 DEF SyncNext
  <2>2. QED
    BY <2>1, LookupStep, BeginStep, VersionConflictStep, ApplyStep, RefuseStep,
       RefusalConflictStep, FinishStep, DeliverStep, StartSyncStep
<1>3. CASE \E g \in Grants :
             \/ CheckDevice(g)
             \/ \E u \in Workers, r \in RequestIds : CreateGrant(g, u, r)
             \/ \E command \in Command : Enqueue(g, command)
             \/ \E i \in DOMAIN recorded[g] : Reject(g, i)
             \/ Expire(g)
  BY <1>3, OpenGrantStep, EnqueueStep, RejectStep, EndGrantStep
<1>4. CASE \E d \in Devices : Enroll(d) \/ RevokeDevice(d)
  BY <1>4, EnrollStep, EndGrantStep
<1>5. CASE UNCHANGED allVars
  BY <1>5, OnlineStep DEF allVars
<1>6. QED
  BY <1>1, <1>2, <1>3, <1>4, <1>5 DEF OfflineNext

\* No grant, no command and no call.
LEMMA OfflineStart == OfflineInit => OfflineInv
<1> SUFFICES ASSUME OfflineInit PROVE OfflineInv
  OBVIOUS
<1>1. OfflineRows /\ DemandInv
  BY InitRows, InitDemand DEF OfflineInit
<1>2. OfflineTypes
  BY DEF OfflineInit, OfflineTypes, NewGrant
<1>3. \A g \in Grants : GrantOK(g)
  BY DEF OfflineInit, GrantOK, QueueFine, Grant
<1>4. \A c \in Calls : CallOK(c)
  BY DEF OfflineInit, CallOK
<1>5. QED
  BY <1>1, <1>2, <1>3, <1>4 DEF OfflineInv

\* The inductive invariant of offline synchronization.
LEMMA OfflineInvariant == OfflineSpec => []OfflineInv
BY OfflineStart, OfflineStep, PTL DEF OfflineSpec

-----------------------------------------------------------------------------
\* Rows, grants, queues and calls keep their types, whatever is written from
\* an object that was read before the row changed.
THEOREM OfflineTypesAreCorrect == OfflineSpec => []OfflineTypeOK
<1>1. OfflineInv => OfflineTypeOK
  BY OfflineRowsAreRows, DemandMeaning DEF OfflineInv, OfflineTypes, OfflineTypeOK
<1>2. QED
  BY <1>1, OfflineInvariant, PTL

\* However often and by however many calls at once a queue is sent, each of
\* its commands is recorded once, in order and without a gap.
THEOREM CommandsAreRecordedInOrder == OfflineSpec => []RecordedInOrder
<1>1. OfflineInv => RecordedInOrder
  <2> SUFFICES ASSUME OfflineInv, NEW g \in Grants, NEW i \in DOMAIN recorded[g]
               PROVE  recorded[g][i].sequence = i
    BY DEF RecordedInOrder
  <2>1. DOMAIN recorded[g] = 1..Len(recorded[g])
    BY KnownOf
  <2>2. QED
    BY <2>1, KnownOf DEF QueueFine
<1>2. QED
  BY <1>1, OfflineInvariant, PTL

\* What the device shows of a command is what the server decided: applied for
\* one that it has deleted, a conflict or a rejection for one it shows as such.
THEOREM DevicesAgreeWithServer == OfflineSpec => []DeviceAgreesWithServer
<1>1. OfflineInv => DeviceAgreesWithServer
  <2> SUFFICES ASSUME OfflineInv, NEW g \in Grants, NEW n \in DOMAIN queue[g],
                      queue[g][n].status # "pending"
               PROVE  \E x \in ToSet(recorded[g]) :
                        /\ x.sequence = n
                        /\ x.status \in IF queue[g][n].status = "forgotten"
                                        THEN {"applied"} ELSE {"conflict", "rejected"}
    BY DEF DeviceAgreesWithServer
  <2>1. n \in 1..Len(queue[g])
    BY KnownOf
  <2>2. Known(recorded[g], n, IF queue[g][n].status = "forgotten"
                              THEN "applied" ELSE "conflict")
    BY <2>1, KnownOf DEF QueueFine
  <2>3. n \in 1..Len(recorded[g])
    BY <2>2 DEF Known
  <2>4. /\ recorded[g][n] \in ToSet(recorded[g]) /\ recorded[g][n] \in Recorded
        /\ recorded[g][n].sequence = n
    BY <2>3, KnownOf DEF ToSet, QueueFine
  <2>5. recorded[g][n].status \in IF queue[g][n].status = "forgotten"
                                  THEN {"applied"} ELSE {"conflict", "rejected"}
    BY <2>2, <2>4 DEF Known, Recorded, Answers
  <2>6. QED
    BY <2>4, <2>5
<1>2. QED
  BY <1>1, OfflineInvariant, PTL

\* The writes of stale objects take no allocation out of its quantity.
THEOREM SyncStaysWithinQuantity == OfflineSpec => []AllocationWithinQuantity
<1>1. OfflineInv => AllocationWithinQuantity
  BY OfflineRowsAreRows DEF OfflineInv, RowsInv
<1>2. QED
  BY <1>1, OfflineInvariant, PTL

\* They leave the totals of the lines current and the demand accounted for,
\* and a closed request still holds no stock: the stale state is all they get
\* wrong.
THEOREM SyncKeepsTheAccounts ==
  OfflineSpec => [](LineTotalsAreCurrent /\ DemandIsConserved /\ ClosedHoldsNothing)
<1>1. OfflineInv => LineTotalsAreCurrent /\ DemandIsConserved /\ ClosedHoldsNothing
  BY OfflineRowsAreRows, DemandMeaning, ClosedMeaning DEF OfflineInv
<1>2. QED
  BY <1>1, OfflineInvariant, PTL

\* A step that records nothing, or looks at the device first.
LEMMA RecordsWhileActive ==
  ASSUME OfflineInv, [OfflineNext]_allVars, NEW g \in Grants,
         Len(recorded'[g]) > Len(recorded[g])
  PROVE  device[DeviceOf[g]] # "revoked"
<1>1. Len(recorded[g]) \in Nat
  BY KnownOf
<1>2. recorded' # recorded
  BY <1>1
<1>3. ASSUME NEW c \in Calls, NEW status, NEW version, Recording(c, status, version),
             device[DeviceOf[call[c].grant]] = "active"
      PROVE  device[DeviceOf[g]] # "revoked"
  <2>1. CASE call[c].grant = g
    BY <1>3, <2>1
  <2>2. CASE call[c].grant # g
    <3>1. recorded'[g] = recorded[g]
      BY <1>3, <2>2 DEF Recording, OfflineInv, OfflineTypes
    <3>2. QED
      BY <1>1, <3>1
  <2>3. QED
    BY <2>1, <2>2
<1>4. ASSUME NEW c \in Calls, VersionConflict(c) \/ RefusalConflict(c)
      PROVE  device[DeviceOf[g]] # "revoked"
  BY <1>3, <1>4 DEF VersionConflict, RefusalConflict, CanBegin, CanLock, RecordConflict
<1>5. ASSUME NEW c \in Calls, ApplyPick(c) \/ ApplyHandoff(c)
      PROVE  device[DeviceOf[g]] # "revoked"
  BY <1>3, <1>5, ApplyReady DEF ApplyPick, ApplyHandoff, Applying
<1>6. ASSUME NEW h \in Grants, NEW i \in DOMAIN recorded[h], Reject(h, i)
      PROVE  FALSE
  <2> DEFINE answers == [recorded[h] EXCEPT ![i].status = "rejected"]
  <2>1. recorded' = [recorded EXCEPT ![h] = answers] /\ Len(answers) = Len(recorded[h])
    BY <1>6, KnownOf DEF Reject
  <2> HIDE DEF answers
  <2>2. recorded'[g] = recorded[g] \/ Len(recorded'[g]) = Len(recorded[g])
    BY <2>1 DEF OfflineInv, OfflineTypes
  <2>3. QED
    BY <1>1, <2>2
<1>7. CASE (RequestNext /\ UNCHANGED offlineVars) \/ UNCHANGED allVars
  BY <1>2, <1>7 DEF offlineVars, allVars
<1>8. CASE SyncNext
  BY <1>2, <1>4, <1>5, <1>8
  DEF SyncNext, Lookup, Begin, Refuse, Finish, Deliver, Fail, StartSync
<1>9. CASE \E h \in Grants :
             \/ CheckDevice(h)
             \/ \E u \in Workers, r \in RequestIds : CreateGrant(h, u, r)
             \/ \E command \in Command : Enqueue(h, command)
             \/ \E i \in DOMAIN recorded[h] : Reject(h, i)
             \/ Expire(h)
  BY <1>2, <1>6, <1>9 DEF CheckDevice, CreateGrant, Enqueue, Expire
<1>10. CASE \E d \in Devices : Enroll(d) \/ RevokeDevice(d)
  BY <1>2, <1>10 DEF Enroll, RevokeDevice
<1>11. QED
  BY <1>7, <1>8, <1>9, <1>10 DEF OfflineNext

\* Once a device is revoked nothing is recorded under its grants any more, not
\* even by a call that was under way.
THEOREM RevocationStopsSync == OfflineSpec => RevokedDeviceAppliesNothing
<1>1. OfflineInv /\ [OfflineNext]_allVars =>
        [\A g \in Grants :
           recorded'[g] # recorded[g] /\ Len(recorded'[g]) > Len(recorded[g]) =>
             device[DeviceOf[g]] # "revoked"]_allVars
  BY RecordsWhileActive
<1>2. QED
  BY <1>1, OfflineInvariant, PTL DEF OfflineSpec, RevokedDeviceAppliesNothing
=============================================================================

----------------------------- MODULE StockProofs -----------------------------
(***************************************************************************)
(* The quantities at the positions.  While requests alone use the stock no *)
(* position is allocated beyond what is usable there, and each of its      *)
(* units is free, reserved or issued; with the counter staff at work too,  *)
(* the ledger, the outbox and the issued quantities of the allocations     *)
(* still account for every change of the stock.                            *)
(***************************************************************************)
EXTENDS Warehouse, DemandProofs

USE StockAssumption, RequestsAssumption, InventoryAssumption

-----------------------------------------------------------------------------
(***************************************************************************)
(* What is reserved and issued at a position                               *)
(***************************************************************************)
LEMMA SumsAtPosition ==
  ASSUME NEW rows \in BoundedRows, NEW p
  PROVE  SumAt(Opens(rows), p) \in Nat /\ SumAt(Issues(rows), p) \in Nat
<1>1. \A a \in AllocationsAt(p) : Opens(rows)[a] \in Nat /\ Issues(rows)[a] \in Nat
  BY SomeAllocations, RowColumns
<1>2. QED
  BY <1>1, SomeAllocations, SumNat DEF SumAt

\* AllocatedAt and Available, before and after a step, in this notation.
LEMMA Reserved ==
  ASSUME RowsInv, NEW p \in Positions
  PROVE  /\ AllocatedAt(p) = SumAt(Opens(alloc), p)
         /\ SumAt(Opens(alloc), p) \in Nat
         /\ stock[p] \in StockPosition
         /\ Usable(p) = stock[p].onHand - stock[p].quarantined
         /\ Available(p) = Usable(p) - SumAt(Opens(alloc), p)
<1>1. alloc \in BoundedRows /\ stock[p] \in StockPosition
  BY RowsAreBounded DEF RowsInv, RowsTypeOK, StockTypeOK
<1>2. AllocatedAt(p) = SumAt(Opens(alloc), p)
  BY <1>1, ModelSums DEF AllocatedAt
<1>3. QED
  BY <1>1, <1>2, SumsAtPosition DEF Available, Usable

\* What is allocated at a position, as a sum, after a step.
LEMMA ReservedNext ==
  ASSUME RowsInv', NEW p \in Positions
  PROVE  /\ AllocatedAt(p)' = SumAt(Opens(alloc'), p)
         /\ SumAt(Opens(alloc'), p) \in Nat
         /\ Available(p)' = Usable(p)' - SumAt(Opens(alloc'), p)
<1>1. alloc' \in BoundedRows
  BY RowsStayBounded
<1>2. SumFunction([a \in AllocationsAt(p) |-> Open(alloc'[a])]) = SumAt(Opens(alloc'), p)
  BY <1>1, ModelSums
<1>3. AllocatedAt(p)' = SumFunction([a \in AllocationsAt(p) |-> Open(alloc'[a])])
  BY DEF AllocatedAt, AllocationsAt, Open
<1>4. QED
  BY <1>1, <1>2, <1>3, SumsAtPosition DEF Available

-----------------------------------------------------------------------------
(***************************************************************************)
(* The actions, seen from a position                                       *)
(***************************************************************************)

\* The loops give out no more of a position than is available there: the last
\* line that gets anything gets what the ones before it left.
LEMMA FillWithinStock ==
  ASSUME RowsInv, NEW r, NEW demand, NEW rank, NEW fill, Submission(r, demand, rank, fill),
         NEW p \in Positions
  PROVE  LET given == SumFunctionOnSet(fill, {s \in Servable(DOMAIN demand) : s[2] = p})
         IN  given \in Nat /\ given <= AtLeastZero(Available(p))
<1> DEFINE S == {s \in Servable(DOMAIN demand) : s[2] = p}
           order == [s \in S |-> rank[s[1]]]
           bound == AtLeastZero(Available(p))
<1>1. /\ DOMAIN demand \in SUBSET LineIds
      /\ rank \in ServingOrders(DOMAIN demand)
      /\ fill \in [Servable(DOMAIN demand) -> Nat]
      /\ IsGreedyFill(fill, demand, rank)
      /\ Available(p) \in Int /\ bound \in Nat
  <2>1. Available(p) \in Int
    BY Reserved DEF StockPosition
  <2>2. bound \in Nat
    BY <2>1 DEF AtLeastZero
  <2>3. QED
    BY <2>1, <2>2 DEF Submission, LinesOf
<1>2. /\ IsFiniteSet(S) /\ \A s \in S : fill[s] \in Nat
      /\ \A s \in S : s[1] \in DOMAIN demand /\ s = <<s[1], p>>
  BY <1>1, ServablePairs, FS_Subset
<1>3. \A s \in S : order[s] \in Nat /\ order[s] = rank[s[1]]
  <2>1. \A l \in DOMAIN demand : rank[l] \in 1..Cardinality(DOMAIN demand)
    BY <1>1 DEF ServingOrders
  <2>2. Cardinality(DOMAIN demand) \in Nat
    BY <1>1, FS_Subset, FS_CardinalityType
  <2>3. \A l \in DOMAIN demand : rank[l] \in Nat
    BY <2>1, <2>2
  <2>4. QED
    BY <1>2, <2>3
<1>4. \A s, t \in S : order[s] = order[t] => s = t
  <2>1. \A l, m \in DOMAIN demand : rank[l] = rank[m] => l = m
    BY <1>1 DEF ServingOrders
  <2>2. QED
    BY <1>2, <1>3, <2>1
<1>5. ASSUME NEW s \in S, fill[s] > 0
      PROVE  fill[s] + SumFunctionOnSet(fill, RankedBefore(S, order, s)) <= bound
  <2> DEFINE l == s[1]
             before == RankedBefore(S, order, s)
  <2>1. GivenBefore(fill, l, p, rank) = SumFunctionOnSet(fill, before)
    <3>1. before = {t \in DOMAIN fill : t[2] = p /\ rank[t[1]] < rank[l]}
      BY <1>1 DEF RankedBefore
    <3>2. QED
      BY <3>1 DEF GivenBefore
  <2>2. SumFunctionOnSet(fill, before) \in Nat
    BY <1>2, FS_Subset, SumNat DEF RankedBefore
  <2>3. fill[s] = Smaller(AtLeastZero(Available(p) - GivenBefore(fill, l, p, rank)),
                          demand[l] - ServedBefore(fill, l, p))
    BY <1>1 DEF IsGreedyFill
  <2>4. fill[s] \in Nat
    BY <1>2
  <2> HIDE DEF before, S
  <2>5. fill[s] <= AtLeastZero(Available(p) - GivenBefore(fill, l, p, rank))
    <3> DEFINE left == AtLeastZero(Available(p) - GivenBefore(fill, l, p, rank))
               needed == demand[l] - ServedBefore(fill, l, p)
    <3>1. left \in Int /\ fill[s] = Smaller(left, needed)
      BY <1>1, <2>1, <2>2, <2>3 DEF AtLeastZero
    <3>2. fill[s] = left \/ (fill[s] = needed /\ needed \in Int)
      BY <2>4, <3>1 DEF Smaller
    <3> HIDE DEF left, needed
    <3>3. QED
      BY <3>1, <3>2 DEF Smaller, left
  <2>6. fill[s] + SumFunctionOnSet(fill, before) <= bound
    BY <1>1, <1>5, <2>1, <2>2, <2>4, <2>5 DEF AtLeastZero
  <2>7. QED
    BY <2>6 DEF before
<1>6. SumFunctionOnSet(fill, S) \in Nat
  BY <1>2, SumNat
<1>7. SumFunctionOnSet(fill, S) <= bound
  <2>1. /\ IsFiniteSet(S) /\ bound \in Nat
        /\ \A s \in S : fill[s] \in Nat /\ order[s] \in Nat
        /\ \A s, t \in S : order[s] = order[t] => s = t
        /\ \A s \in S : fill[s] > 0 =>
             fill[s] + SumFunctionOnSet(fill, RankedBefore(S, order, s)) <= bound
    BY <1>1, <1>2, <1>3, <1>4, <1>5
  <2> HIDE DEF S, order, bound
  <2>2. QED
    BY <2>1, SumByRank
<1>8. QED
  BY <1>6, <1>7
\* A step that leaves the stock and what is issued of it, and reserves no more
\* at p than is usable there, unless more was reserved before.
Rebooks(p) ==
  /\ UNCHANGED stockVars
  /\ SumAt(Issues(alloc'), p) = SumAt(Issues(alloc), p)
  /\ SumAt(Opens(alloc), p) <= Usable(p) => SumAt(Opens(alloc'), p) <= Usable(p)

\* A step that takes no allocation up and issues none keeps the position.
LEMMA GivingBack ==
  ASSUME RowsInv, RowsInv', NEW p \in Positions, UNCHANGED stockVars,
         \A a \in AllocationIds : /\ alloc'[a].issued = alloc[a].issued
                                  /\ Open(alloc'[a]) <= Open(alloc[a])
  PROVE  Rebooks(p)
<1>1. alloc \in BoundedRows /\ alloc' \in BoundedRows
  BY RowsAreBounded, RowsStayBounded
<1>2. \A a \in AllocationsAt(p) :
        /\ Issues(alloc)[a] \in Int /\ Issues(alloc')[a] = Issues(alloc)[a]
        /\ Opens(alloc)[a] \in Int /\ Opens(alloc')[a] \in Int
        /\ Opens(alloc')[a] <= Opens(alloc)[a]
  BY <1>1, SomeAllocations, RowColumns DEF Issues
<1>3. SumAt(Issues(alloc'), p) = SumAt(Issues(alloc), p)
  BY <1>2, SomeAllocations, SumSame DEF SumAt
<1>4. SumAt(Opens(alloc'), p) <= SumAt(Opens(alloc), p)
  BY <1>2, SomeAllocations, SumMonotonic DEF SumAt
<1>5. /\ SumAt(Opens(alloc), p) \in Nat /\ SumAt(Opens(alloc'), p) \in Nat
      /\ Usable(p) \in Int
  BY Reserved, ReservedNext DEF StockPosition
<1>6. QED
  BY <1>3, <1>4, <1>5 DEF Rebooks

\* A submission reserves what the loops gave out.
LEMMA SubmissionAtPosition ==
  ASSUME RowsInv, RowsInv', NEW r \in RequestIds, request[r].state \in Unsent,
         NEW demand, NEW rank, NEW fill, Submission(r, demand, rank, fill),
         NEW p \in Positions
  PROVE  LET given == SumFunctionOnSet(fill, {s \in Servable(DOMAIN demand) : s[2] = p})
         IN  /\ SumAt(Opens(alloc'), p) = SumAt(Opens(alloc), p) + given
             /\ SumAt(Issues(alloc'), p) = SumAt(Issues(alloc), p)
<1> DEFINE gain == Gain(demand, fill)
           S == {s \in Servable(DOMAIN demand) : s[2] = p}
           given == SumFunctionOnSet(fill, S)
<1>1. \A a \in AllocationsAt(p) :
        /\ gain[a] \in Int /\ Opens(alloc)[a] \in Int /\ Issues(alloc)[a] \in Int
        /\ Opens(alloc')[a] = Opens(alloc)[a] + gain[a]
        /\ Issues(alloc')[a] = Issues(alloc)[a]
  BY SubmittedRows, RowsAreBounded, SomeAllocations, RowColumns
<1>2. SumAt(Issues(alloc'), p) = SumAt(Issues(alloc), p)
  BY <1>1, SomeAllocations, SumSame DEF SumAt
<1>3. SumAt(Opens(alloc'), p) = SumAt(Opens(alloc), p) + SumAt(gain, p)
  <2> HIDE DEF gain
  <2> QED BY <1>1, SomeAllocations, SumPlus DEF SumAt
<1>4. SumAt(gain, p) = given
  <2>1. \A a \in AllocationIds :
          (a[3] = 1 /\ PairOf(a) \in Servable(DOMAIN demand)) =>
            (a \in AllocationsAt(p) <=> PairOf(a) \in S)
    BY DEF AllocationsAt, PairOf
  <2>2. S \in SUBSET Servable(DOMAIN demand)
    OBVIOUS
  <2> HIDE DEF S
  <2>3. QED
    BY <2>1, <2>2, SomeAllocations, GainSum DEF SumAt
<1>5. QED
  BY <1>2, <1>3, <1>4

\* A submission takes no more than is usable and unallocated.
LEMMA SubmitRebooks ==
  ASSUME RowsInv, RowsInv', DemandInv, NEW r \in RequestIds,
         Submit(r) \/ \E demand \in Demands(r) : CreateAndSubmit(r, demand),
         NEW p \in Positions
  PROVE  Rebooks(p)
<1>1. UNCHANGED stockVars
  BY SubmitStep
<1>2. PICK demand, rank, fill :
        request[r].state \in Unsent /\ Submission(r, demand, rank, fill)
  BY SubmitStep
<1> DEFINE given == SumFunctionOnSet(fill, {s \in Servable(DOMAIN demand) : s[2] = p})
<1>3. /\ SumAt(Opens(alloc'), p) = SumAt(Opens(alloc), p) + given
      /\ SumAt(Issues(alloc'), p) = SumAt(Issues(alloc), p)
  BY <1>2, SubmissionAtPosition
<1>4. given \in Nat /\ given <= AtLeastZero(Available(p))
  BY <1>2, FillWithinStock
<1>5. /\ SumAt(Opens(alloc), p) \in Nat
      /\ Usable(p) \in Int
      /\ Available(p) = Usable(p) - SumAt(Opens(alloc), p)
  BY Reserved DEF StockPosition
<1> HIDE DEF given
<1>6. SumAt(Opens(alloc), p) <= Usable(p) => SumAt(Opens(alloc'), p) <= Usable(p)
  BY <1>3, <1>4, <1>5 DEF AtLeastZero
<1>7. QED
  BY <1>1, <1>3, <1>6 DEF Rebooks

\* A transfer within a position leaves what is reserved there; one from
\* another position is checked against what is available.
LEMMA TransferRebooks ==
  ASSUME RowsInv, RowsInv', NEW source \in AllocationIds, NEW new \in AllocationIds,
         NEW q \in Quantities, TransferStep(source, new, q), UNCHANGED stockVars,
         \/ PositionOf(new) = PositionOf(source)
         \/ q <= Available(PositionOf(new)),
         NEW p \in Positions
  PROVE  Rebooks(p)
<1> DEFINE A == AllocationsAt(p)
           out == IF source \in A THEN q ELSE 0
           in == IF new \in A THEN q ELSE 0
<1>1. /\ A \in SUBSET AllocationIds /\ IsFiniteSet(A)
      /\ source \in A <=> PositionOf(source) = p
      /\ new \in A <=> PositionOf(new) = p
  BY SomeAllocations DEF AllocationsAt
<1>2. SumAt(Opens(alloc'), p) = SumAt(Opens(alloc), p) - out + in
  <2> HIDE DEF A
  <2> QED BY <1>1, TransferSums DEF SumAt, A
<1>3. SumAt(Issues(alloc'), p) = SumAt(Issues(alloc), p)
  <2>1. \A a \in AllocationIds : alloc'[a].issued = alloc[a].issued
    <3>1. \A a \in AllocationIds \ {source, new} : alloc'[a] = alloc[a]
      BY <1>1, TransferSums
    <3>2. /\ alloc[source] \in Allocation
          /\ q \in Nat /\ source # new
          /\ alloc \in [AllocationIds -> Allocation]
      BY DEF RowsInv, RowsTypeOK, RequestTypeOK, TransferStep, Transfer
    <3>3. alloc'[source] = Release(alloc[source], q) /\ alloc'[new] = NewAllocation(q)
      BY <3>2 DEF TransferStep, Transfer
    <3>4. alloc'[source].issued = alloc[source].issued
      BY <3>2, <3>3, ReleaseType
    <3>5. alloc'[new].issued = 0 /\ alloc[new].issued = 0
      <4>1. alloc[new].quantity = 0 /\ alloc[new].issued <= alloc[new].quantity
        BY <3>2, RowsAreBounded DEF TransferStep, Exists, BoundedRows, Allocation
      <4>2. QED
        BY <3>2, <3>3, <4>1 DEF NewAllocation, NoAllocation, Allocation
    <3>6. QED
      BY <3>1, <3>4, <3>5
  <2>2. \A a \in A : Issues(alloc)[a] \in Int /\ Issues(alloc')[a] = Issues(alloc)[a]
    BY <1>1, <2>1, RowsAreBounded, RowColumns DEF Issues
  <2>3. QED
    BY <1>1, <2>2, SumSame DEF SumAt
<1>4. /\ SumAt(Opens(alloc), p) \in Nat /\ Usable(p) \in Int /\ q \in Nat
      /\ Available(p) = Usable(p) - SumAt(Opens(alloc), p)
  BY Reserved DEF StockPosition
<1>5. SumAt(Opens(alloc), p) <= Usable(p) => SumAt(Opens(alloc'), p) <= Usable(p)
  <2>1. CASE PositionOf(new) = p /\ PositionOf(source) # p
    <3>1. q <= Available(p) /\ out = 0 /\ in = q
      BY <1>1, <2>1
    <3> HIDE DEF out, in
    <3>2. QED
      BY <1>2, <1>4, <3>1
  <2>2. CASE PositionOf(new) # p \/ PositionOf(source) = p
    <3>1. out \in Nat /\ in \in Nat /\ in <= out
      BY <1>1, <1>4, <2>2
    <3> HIDE DEF out, in
    <3>2. QED
      BY <1>2, <1>4, <3>1
  <2>3. QED
    BY <2>1, <2>2
<1>6. QED
  BY <1>3, <1>5 DEF Rebooks

\* A pick gives back what it does not find, and takes nothing up.
LEMMA PickRebooks ==
  ASSUME RowsInv, RowsInv', NEW u \in Workers, NEW a \in AllocationIds,
         NEW q \in Quantities \union {0}, RecordPick(u, a, q), NEW p \in Positions
  PROVE  Rebooks(p)
<1>1. /\ alloc \in [AllocationIds -> Allocation] /\ alloc[a] \in Allocation
      /\ q \in Nat /\ q <= alloc[a].quantity - alloc[a].released
      /\ alloc' = [alloc EXCEPT ![a] = Picked(alloc[a], q)]
      /\ UNCHANGED stockVars
  BY DEF RecordPick, PickRange, RowsInv, RowsTypeOK, RequestTypeOK, Allocation
<1>2. /\ alloc'[a].issued = alloc[a].issued
      /\ Open(alloc'[a]) <= Open(alloc[a])
  <2>1. /\ alloc'[a].issued = alloc[a].issued
        /\ alloc'[a].quantity = alloc[a].quantity
        /\ alloc'[a].released = alloc[a].quantity - q
    BY <1>1, PickedType DEF Allocation
  <2>2. QED
    BY <1>1, <2>1 DEF Open, Allocation
<1>3. \A b \in AllocationIds \ {a} : alloc'[b] = alloc[b]
  BY <1>1
<1>4. \A b \in AllocationIds : /\ alloc'[b].issued = alloc[b].issued
                               /\ Open(alloc'[b]) <= Open(alloc[b])
  <2>1. \A b \in AllocationIds : Open(alloc[b]) \in Int
    BY <1>1 DEF Open, Allocation
  <2>2. QED
    BY <1>2, <1>3, <2>1
<1>5. QED
  BY <1>1, <1>4, GivingBack

\* A cancellation releases everything.
LEMMA CancelRebooks ==
  ASSUME RowsInv, RowsInv', NEW r \in RequestIds, Cancel(r), NEW p \in Positions
  PROVE  Rebooks(p)
<1>1. /\ RowsTypeOK /\ AllocationWithinQuantity
      /\ alloc' = Cancelled(r) /\ UNCHANGED stockVars
  BY DEF RowsInv, Cancel
<1>2. ASSUME NEW b \in AllocationIds
      PROVE  alloc'[b].issued = alloc[b].issued /\ Open(alloc'[b]) <= Open(alloc[b])
  <2>1. /\ alloc[b] \in Allocation
        /\ alloc[b].issued + alloc[b].released <= alloc[b].quantity
    BY <1>1 DEF RowsTypeOK, RequestTypeOK, AllocationWithinQuantity
  <2>2. CASE RequestOfAllocation(b) = r
    <3>1. /\ alloc'[b].issued = alloc[b].issued
          /\ alloc'[b].quantity = alloc[b].quantity
          /\ alloc'[b].released = alloc[b].quantity - alloc[b].issued
      BY <1>1, <2>2, CancelledRow
    <3>2. QED
      BY <2>1, <3>1 DEF Open, Allocation
  <2>3. CASE RequestOfAllocation(b) # r
    <3>1. alloc'[b] = alloc[b]
      BY <1>1, <2>3, CancelledRow
    <3>2. QED
      BY <2>1, <3>1 DEF Open, Allocation
  <2>4. QED
    BY <2>2, <2>3
<1>3. QED
  BY <1>1, <1>2, GivingBack

\* Every step but a hand-off.
LEMMA StepRebooks ==
  ASSUME RowsInv, RowsInv', DemandInv, [RequestNext]_vars,
         ~ \E r \in RequestIds, u \in Workers : Handoff(u, r),
         NEW p \in Positions
  PROVE  Rebooks(p)
<1>0. ASSUME UNCHANGED <<stockVars, alloc>> PROVE Rebooks(p)
  <2>1. \A a \in AllocationIds : Open(alloc[a]) \in Int
    BY DEF RowsInv, RowsTypeOK, RequestTypeOK, Allocation, Open
  <2>2. \A a \in AllocationIds : /\ alloc'[a].issued = alloc[a].issued
                                 /\ Open(alloc'[a]) <= Open(alloc[a])
    BY <1>0, <2>1
  <2>3. QED
    BY <1>0, <2>2, GivingBack
<1>1. ASSUME NEW r \in RequestIds,
             \/ \E demand \in Demands(r) : CreateDraft(r, demand)
             \/ \E u \in Workers : ClaimLocked(u, r)
      PROVE  Rebooks(p)
  BY <1>0, <1>1 DEF CreateDraft, ClaimLocked
<1>2. ASSUME NEW r \in RequestIds,
             Submit(r) \/ \E demand \in Demands(r) : CreateAndSubmit(r, demand)
      PROVE  Rebooks(p)
  BY <1>2, SubmitRebooks
<1>3. ASSUME NEW r \in RequestIds, Cancel(r)
      PROVE  Rebooks(p)
  BY <1>3, CancelRebooks
<1>4. ASSUME NEW source \in AllocationIds, NEW new \in AllocationIds,
             NEW q \in Quantities, Reallocate(source, new, q)
      PROVE  Rebooks(p)
  BY <1>4, TransferRebooks DEF Reallocate, TransferStep, Transfer, IsNextId
<1>5. ASSUME NEW source \in AllocationIds, NEW new \in AllocationIds,
             NEW q \in Quantities, NEW u \in Workers, Substitute(u, source, new, q)
      PROVE  Rebooks(p)
  BY <1>5, TransferRebooks DEF Substitute, TransferStep, Transfer, IsNextId
<1>6. ASSUME NEW a \in AllocationIds, NEW u \in Workers,
             NEW q \in Quantities \union {0}, RecordPick(u, a, q)
      PROVE  Rebooks(p)
  BY <1>6, PickRebooks
<1>7. CASE UNCHANGED vars
  BY <1>0, <1>7 DEF vars, requestVars
<1>8. QED
  BY <1>1, <1>2, <1>3, <1>4, <1>5, <1>6, <1>7 DEF RequestNext, Claim, ClaimNext

\* A hand-off turns at each position what it takes out from reserved into
\* issued.
LEMMA HandoffAtPosition ==
  ASSUME RowsInv, RowsInv', NEW u \in Workers, NEW r \in RequestIds, Handoff(u, r),
         NEW p \in Positions
  PROVE  /\ IssueAt(r, p) \in Nat /\ IssueAt(r, p) <= Usable(p)
         /\ SumAt(Opens(alloc'), p) = SumAt(Opens(alloc), p) - IssueAt(r, p)
         /\ SumAt(Issues(alloc'), p) = SumAt(Issues(alloc), p) + IssueAt(r, p)
         /\ stock'[p].onHand = stock[p].onHand - IssueAt(r, p)
         /\ stock'[p].quarantined = stock[p].quarantined
         /\ ledger'[p] = [ledger[p] EXCEPT !["material_issue"] = @ + IssueAt(r, p)]
         /\ outbox'[p] = outbox[p] + Posted(r, p)
<1> DEFINE issue == [a \in AllocationIds |->
                       IF a \in Issuing(r, p) THEN alloc[a].picked - alloc[a].issued ELSE 0]
<1>1. /\ RowsTypeOK /\ alloc \in BoundedRows /\ alloc' \in BoundedRows
      /\ alloc' = HandedOff(r) /\ stock[p] \in StockPosition
      /\ CanIssue(r, p)
      /\ Issuing(r, p) \subseteq AllocationsAt(p)
  BY RowsAreBounded, RowsStayBounded
  DEF RowsInv, Handoff, IssuePicked, RowsTypeOK, StockTypeOK, Issuing, AllocationsAt,
      AllocationsOf
<1>2. IssueAt(r, p) \in Nat /\ IssueAt(r, p) <= Usable(p)
  BY <1>1 DEF CanIssue, Usable, StockPosition
<1>3. \A a \in AllocationIds : alloc[a] \in Allocation /\ issue[a] \in Int
  BY <1>1 DEF RowsTypeOK, RequestTypeOK, Allocation
<1>4. IssueAt(r, p) = SumAt(issue, p)
  <2>1. /\ IsFiniteSet(AllocationsAt(p)) /\ Issuing(r, p) \in SUBSET AllocationsAt(p)
        /\ Issuing(r, p) \in SUBSET AllocationIds
        /\ \A a \in AllocationsAt(p) : issue[a] \in Int
        /\ \A a \in AllocationsAt(p) \ Issuing(r, p) : issue[a] = 0
        /\ \A a \in Issuing(r, p) : issue[a] = alloc[a].picked - alloc[a].issued
    BY <1>1, <1>3, SomeAllocations
  <2> HIDE DEF issue
  <2>2. SumFunctionOnSet(issue, AllocationsAt(p)) = SumFunctionOnSet(issue, Issuing(r, p))
    BY <2>1, SumSubset
  <2>3. IssueAt(r, p) = SumFunctionOnSet(issue, Issuing(r, p))
    <3>1. \A a \in Issuing(r, p) :
            issue[a] \in Int
      BY <2>1
    <3>2. QED
      BY <2>1, <3>1, SumOverSome DEF IssueAt
  <2>4. QED
    BY <2>2, <2>3 DEF SumAt
<1>5. \A a \in AllocationsAt(p) :
        /\ Issues(alloc)[a] \in Int /\ Opens(alloc')[a] \in Int
        /\ Issues(alloc')[a] = Issues(alloc)[a] + issue[a]
        /\ Opens(alloc)[a] = Opens(alloc')[a] + issue[a]
  <2>1. ASSUME NEW a \in AllocationsAt(p)
        PROVE  alloc'[a].issued = alloc[a].issued + issue[a]
    <3>1. a \in AllocationIds /\ PositionOf(a) = p /\ alloc[a] \in Allocation
      BY <1>3 DEF AllocationsAt
    <3>2. a \in Issuing(r, p) <=>
            (RequestOfAllocation(a) = r /\ alloc[a].picked > alloc[a].issued)
      BY <3>1 DEF Issuing, AllocationsOf
    <3>3. CASE a \in Issuing(r, p)
      <4>1. alloc'[a].issued = alloc[a].picked
        BY <1>1, <3>1, <3>2, <3>3, HandedOffRow
      <4>2. QED
        BY <3>1, <3>3, <4>1 DEF Allocation
    <3>4. CASE a \notin Issuing(r, p)
      <4>1. alloc'[a].issued = alloc[a].issued
        BY <1>1, <3>1, <3>2, <3>4, HandedOffRow
      <4>2. QED
        BY <3>1, <3>4, <4>1 DEF Allocation
    <3>5. QED
      BY <3>3, <3>4
  <2>2. \A a \in AllocationIds :
          /\ alloc'[a].quantity = alloc[a].quantity
          /\ alloc'[a].released = alloc[a].released
          /\ alloc'[a] \in Allocation
    BY <1>1, HandedOffRow
  <2>3. \A a \in AllocationsAt(p) :
          /\ a \in AllocationIds
          /\ alloc[a] \in Allocation /\ alloc'[a] \in Allocation
          /\ alloc'[a].quantity = alloc[a].quantity
          /\ alloc'[a].released = alloc[a].released
          /\ alloc'[a].issued = alloc[a].issued + issue[a]
          /\ issue[a] \in Int
    BY <1>3, <2>1, <2>2, SomeAllocations
  <2> HIDE DEF issue
  <2>4. QED
    BY <2>3 DEF Issues, Opens, Open, Allocation
<1>6. SumAt(Issues(alloc'), p) = SumAt(Issues(alloc), p) + SumAt(issue, p)
  <2>1. \A a \in AllocationsAt(p) : issue[a] \in Int
    BY <1>3, SomeAllocations
  <2> HIDE DEF issue
  <2>2. QED
    BY <1>5, <2>1, SomeAllocations, SumPlus DEF SumAt
<1>7. SumAt(Opens(alloc), p) = SumAt(Opens(alloc'), p) + SumAt(issue, p)
  <2>1. \A a \in AllocationsAt(p) : issue[a] \in Int
    BY <1>3, SomeAllocations
  <2> HIDE DEF issue
  <2>2. QED
    BY <1>5, <2>1, SomeAllocations, SumPlus DEF SumAt
<1>8. /\ SumAt(Opens(alloc), p) \in Nat /\ SumAt(Opens(alloc'), p) \in Nat
  BY <1>1, SumsAtPosition
<1>9. SumAt(Opens(alloc'), p) = SumAt(Opens(alloc), p) - IssueAt(r, p)
  <2> HIDE DEF issue
  <2> QED BY <1>2, <1>4, <1>7, <1>8
<1>10. /\ stock'[p] = [stock[p] EXCEPT !.onHand = @ - IssueAt(r, p),
                                       !.version = @ + Cardinality(Issuing(r, p))]
       /\ ledger'[p] = [ledger[p] EXCEPT !["material_issue"] = @ + IssueAt(r, p)]
       /\ outbox'[p] = outbox[p] + Posted(r, p)
  BY DEF Handoff, IssuePicked
<1>11. /\ stock'[p].onHand = stock[p].onHand - IssueAt(r, p)
       /\ stock'[p].quarantined = stock[p].quarantined
  BY <1>1, <1>10 DEF StockPosition
<1>12. QED
  BY <1>2, <1>4, <1>6, <1>9, <1>10, <1>11
-----------------------------------------------------------------------------
(***************************************************************************)
(* Requests alone: nothing is allocated that is not there                  *)
(***************************************************************************)

\* The stock of a position as long as only hand-offs change it.
StockOK(p) ==
  /\ stock[p].quarantined = 0
  /\ ledger[p]["material_issue"] \in Nat
  /\ stock[p].onHand + ledger[p]["material_issue"] = OpeningStock[p]
  /\ SumAt(Opens(alloc), p) <= Usable(p)

StockInv == \A p \in Positions : StockOK(p)

\* Nothing is reserved or issued initially.
LEMMA InitSums ==
  ASSUME Init, NEW p \in Positions
  PROVE  SumAt(Opens(alloc), p) = 0 /\ SumAt(Issues(alloc), p) = 0
<1>1. \A a \in AllocationsAt(p) : Opens(alloc)[a] = 0 /\ Issues(alloc)[a] = 0
  BY SomeAllocations DEF Init, NoAllocation, Opens, Issues, Open
<1>2. QED
  BY <1>1, SomeAllocations, SumZero DEF SumAt

\* No step of the workflow allocates beyond what is usable.
LEMMA StockStep ==
  ASSUME RowsInv, RowsInv', DemandInv, StockInv, [RequestNext]_vars
  PROVE  StockInv'
<1> SUFFICES ASSUME NEW p \in Positions PROVE StockOK(p)'
  BY DEF StockInv
<1>0. StockOK(p) /\ stock[p] \in StockPosition
  BY Reserved DEF StockInv
<1>1. CASE \E r \in RequestIds, u \in Workers : Handoff(u, r)
  <2>1. PICK r \in RequestIds, u \in Workers : Handoff(u, r)
    BY <1>1
  <2> DEFINE n == IssueAt(r, p)
  <2>2. /\ n \in Nat /\ n <= Usable(p)
        /\ SumAt(Opens(alloc'), p) = SumAt(Opens(alloc), p) - n
        /\ stock'[p].onHand = stock[p].onHand - n
        /\ stock'[p].quarantined = stock[p].quarantined
        /\ ledger'[p] = [ledger[p] EXCEPT !["material_issue"] = @ + n]
    BY <2>1, HandoffAtPosition
  <2>3. ledger[p] \in [EventKinds -> Int] /\ "material_issue" \in EventKinds
    BY DEF RowsInv, RowsTypeOK, StockTypeOK, EventKinds
  <2>4. SumAt(Opens(alloc), p) \in Nat /\ OpeningStock[p] \in Nat
    BY Reserved
  <2> HIDE DEF n
  <2>5. ledger'[p]["material_issue"] = ledger[p]["material_issue"] + n
    BY <2>2, <2>3
  <2>6. QED
    BY <1>0, <2>2, <2>4, <2>5 DEF StockOK, Usable, StockPosition
<1>2. CASE ~ \E r \in RequestIds, u \in Workers : Handoff(u, r)
  <2>1. Rebooks(p)
    BY <1>2, StepRebooks
  <2>2. QED
    BY <1>0, <2>1 DEF Rebooks, StockOK, Usable, stockVars
<1>3. QED
  BY <1>1, <1>2

\* All stock is free initially.
LEMMA InitStock == Init => StockInv
<1> SUFFICES ASSUME Init, NEW p \in Positions PROVE StockOK(p)
  BY DEF StockInv
<1>1. /\ stock[p] = [onHand |-> OpeningStock[p], quarantined |-> 0, version |-> 1]
      /\ ledger[p]["material_issue"] = 0
  BY DEF Init, StockInit, EventKinds
<1>2. SumAt(Opens(alloc), p) = 0 /\ OpeningStock[p] \in Nat
  BY InitSums
<1>3. QED
  BY <1>1, <1>2 DEF StockOK, Usable

\* The inductive invariant of the positions, for the workflow alone.
LEMMA StockInvariant == Spec => [](RowsInv /\ DemandInv /\ StockInv)
<1>1. RowsInv /\ RowsInv' /\ DemandInv /\ StockInv /\ [RequestNext]_vars => StockInv'
  BY StockStep
<1>2. QED
  BY <1>1, InitStock, DemandInvariant, PTL DEF Spec

\* It says that no position is over-allocated.
LEMMA StockMeaning == RowsInv /\ StockInv => NoOverAllocation
<1> SUFFICES ASSUME RowsInv, StockInv, NEW p \in Positions PROVE AllocatedAt(p) <= Usable(p)
  BY DEF NoOverAllocation
<1>1. QED
  BY Reserved DEF StockInv, StockOK

\* Reserved demand may exceed stock, physical allocation may not: whatever the
\* interleaving of submissions, transfers, picks and hand-offs, the open
\* allocations of a position fit into what is usable there.
THEOREM StockIsNotOverAllocated == Spec => []NoOverAllocation
<1>1. QED
  BY StockMeaning, StockInvariant, PTL

-----------------------------------------------------------------------------
(***************************************************************************)
(* The allocations implement Reservations                                  *)
(***************************************************************************)
LEMMA PartitionedStock ==
  ASSUME RowsInv, StockInv
  PROVE  Booking!Partitioned
<1> DEFINE free == [p \in Positions |-> Available(p)]
           reserved == [p \in Positions |-> AllocatedAt(p)]
           gone == [p \in Positions |-> ledger[p]["material_issue"]]
<1>1. ASSUME NEW p \in Positions
      PROVE  /\ Available(p) \in Nat
             /\ AllocatedAt(p) \in Nat
             /\ ledger[p]["material_issue"] \in Nat
             /\ Available(p) + AllocatedAt(p) + ledger[p]["material_issue"] = OpeningStock[p]
  <2>1. /\ AllocatedAt(p) = SumAt(Opens(alloc), p)
        /\ SumAt(Opens(alloc), p) \in Nat
        /\ stock[p] \in StockPosition
        /\ Usable(p) = stock[p].onHand - stock[p].quarantined
        /\ Available(p) = Usable(p) - SumAt(Opens(alloc), p)
    BY Reserved
  <2>2. StockOK(p)
    BY DEF StockInv
  <2>3. QED
    BY <2>1, <2>2 DEF StockOK, StockPosition
<1>2. /\ free \in [Positions -> Nat] /\ reserved \in [Positions -> Nat]
      /\ gone \in [Positions -> Nat]
      /\ \A p \in Positions : free[p] + reserved[p] + gone[p] = OpeningStock[p]
  BY <1>1
<1>3. QED
  BY <1>2 DEF Booking!Partitioned

\* All units are free initially.
LEMMA InitBooking == Init => Booking!ReservationsInit
<1> SUFFICES ASSUME Init PROVE Booking!ReservationsInit
  OBVIOUS
<1>1. ASSUME NEW p \in Positions
      PROVE  /\ AllocatedAt(p) = 0 /\ Available(p) = OpeningStock[p]
             /\ ledger[p]["material_issue"] = 0
  <2>1. stock[p] = [onHand |-> OpeningStock[p], quarantined |-> 0, version |-> 1]
        /\ ledger[p]["material_issue"] = 0
    BY DEF Init, StockInit, EventKinds
  <2>2. RowsInv
    BY InitIInv, InitHistory, InvRows
  <2>3. AllocatedAt(p) = 0 /\ Available(p) = Usable(p) - 0
    BY <2>2, InitSums, Reserved
  <2>4. QED
    BY <2>1, <2>3 DEF Usable
<1>2. /\ [p \in Positions |-> Available(p)] = OpeningStock
      /\ [p \in Positions |-> AllocatedAt(p)] = [p \in Positions |-> 0]
      /\ [p \in Positions |-> ledger[p]["material_issue"]] = [p \in Positions |-> 0]
  BY <1>1
<1>3. QED
  BY <1>2 DEF Booking!ReservationsInit

\* A hand-off takes out reserved units and nothing else; every other step
\* only books between free and reserved.
LEMMA StepBooks ==
  ASSUME RowsInv, RowsInv', DemandInv, StockInv, Booking!Partitioned',
         [RequestNext]_vars
  PROVE  [Booking!ReservationsNext]_Booking!reservationVars
<1>1. CASE \E r \in RequestIds, u \in Workers : Handoff(u, r)
  <2>1. PICK r \in RequestIds, u \in Workers : Handoff(u, r)
    BY <1>1
  <2>2. ASSUME NEW p \in Positions
        PROVE  /\ Available(p)' = Available(p)
               /\ ledger'[p]["material_issue"] >= ledger[p]["material_issue"]
    <3> DEFINE n == IssueAt(r, p)
    <3>1. /\ n \in Nat
          /\ SumAt(Opens(alloc'), p) = SumAt(Opens(alloc), p) - n
          /\ stock'[p].onHand = stock[p].onHand - n
          /\ stock'[p].quarantined = stock[p].quarantined
          /\ ledger'[p] = [ledger[p] EXCEPT !["material_issue"] = @ + n]
      BY <2>1, HandoffAtPosition
    <3>2. /\ ledger[p] \in [EventKinds -> Int] /\ "material_issue" \in EventKinds
          /\ SumAt(Opens(alloc), p) \in Nat
          /\ stock[p] \in StockPosition
          /\ Available(p) = Usable(p) - SumAt(Opens(alloc), p)
          /\ Available(p)' = Usable(p)' - SumAt(Opens(alloc'), p)
      BY Reserved, ReservedNext DEF RowsInv, RowsTypeOK, StockTypeOK, EventKinds
    <3> HIDE DEF n
    <3>3. ledger'[p]["material_issue"] = ledger[p]["material_issue"] + n
      BY <3>1, <3>2
    <3>4. ledger[p]["material_issue"] \in Int
      BY <3>2
    <3>5. Available(p)' = Available(p)
      BY <3>1, <3>2 DEF Usable, StockPosition
    <3>6. QED
      BY <3>1, <3>3, <3>4, <3>5
  <2>3. /\ [p \in Positions |-> Available(p)]' = [p \in Positions |-> Available(p)]
        /\ \A p \in Positions :
             [q \in Positions |-> ledger'[q]["material_issue"]][p]
               >= [q \in Positions |-> ledger[q]["material_issue"]][p]
    BY <2>2
  <2>4. Booking!TakeOut
    BY <2>3 DEF Booking!TakeOut
  <2>5. QED
    BY <2>4 DEF Booking!ReservationsNext
<1>2. CASE ~ \E r \in RequestIds, u \in Workers : Handoff(u, r)
  <2>1. \A p \in Positions : ledger'[p]["material_issue"] = ledger[p]["material_issue"]
    BY <1>2, StepRebooks DEF Rebooks, stockVars
  <2>2. [p \in Positions |-> ledger'[p]["material_issue"]]
          = [p \in Positions |-> ledger[p]["material_issue"]]
    BY <2>1
  <2>3. Booking!Rebook
    BY <2>2 DEF Booking!Rebook
  <2>4. QED
    BY <2>3 DEF Booking!ReservationsNext
<1>3. QED
  BY <1>1, <1>2

\* Every unit of a position is free, reserved or issued: a hand-off issues
\* only reserved units, and no other step makes a unit appear or disappear.
THEOREM StockIsBooked == Spec => ImplementsReservations
<1>1. Init => Booking!ReservationsInit
  BY InitBooking
<1>2. RowsInv /\ StockInv => Booking!Partitioned
  BY PartitionedStock
<1>3. RowsInv /\ RowsInv' /\ DemandInv /\ StockInv /\ Booking!Partitioned'
        /\ [RequestNext]_vars
      => [Booking!ReservationsNext]_Booking!reservationVars
  BY StepBooks
<1>4. QED
  BY <1>1, <1>2, <1>3, StockInvariant, PTL
  DEF Spec, ImplementsReservations, Booking!ReservationsSpec
-----------------------------------------------------------------------------
(***************************************************************************)
(* What a submission leaves                                                *)
(***************************************************************************)

\* Only a submission takes a request that was not sent to "submitted".
LEMMA OnlySubmissionSends ==
  ASSUME RowsInv, [RequestNext]_vars, NEW r \in RequestIds,
         request[r].state \in Unsent, request'[r].state = "submitted"
  PROVE  \E s \in RequestIds :
           Submit(s) \/ \E demand \in Demands(s) : CreateAndSubmit(s, demand)
<1>0. request \in [RequestIds -> MaterialRequest]
  BY DEF RowsInv, RowsTypeOK, RequestTypeOK
<1>1. ASSUME NEW s \in RequestIds, NEW state, NEW worker, state # "submitted",
             request' = [request EXCEPT ![s] = Moved(request[s], state, worker)]
      PROVE  FALSE
  BY <1>0, <1>1 DEF Moved, Unsent
<1>2. ASSUME \A s \in RequestIds :
               request'[s] = request[s] \/ request'[s] = Bumped(request[s])
      PROVE  FALSE
  <2>1. \A s : Bumped(request[s]).state = request[s].state
    BY DEF Bumped, Moved
  <2>2. request'[r].state = request[r].state
    BY <1>2, <2>1
  <2>3. QED
    BY <2>2 DEF Unsent
<1>3. ASSUME NEW s \in RequestIds,
             \/ \E demand \in Demands(s) : CreateDraft(s, demand)
             \/ Cancel(s)
             \/ \E u \in Workers : ClaimLocked(u, s)
      PROVE  FALSE
  <2>1. \E state, worker : /\ state # "submitted"
                           /\ request' = [request EXCEPT ![s] = Moved(request[s], state, worker)]
    BY <1>3 DEF CreateDraft, Cancel, ClaimLocked
  <2>2. QED
    BY <1>1, <2>1
<1>4. ASSUME NEW s \in RequestIds, NEW u \in Workers, Handoff(u, s)
      PROVE  FALSE
  <2>1. PICK state \in {"completed", "partially_fulfilled"} :
          request' = [request EXCEPT ![s] = Moved(request[s], state, NoWorker)]
    BY <1>4 DEF Handoff
  <2>2. QED
    BY <1>1, <2>1
<1>5. ASSUME NEW a \in AllocationIds, NEW u, NEW q, RecordPick(u, a, q)
      PROVE  FALSE
  <2>1. PICK state \in {"ready", "in_progress"} :
          request' = [request EXCEPT ![RequestOfAllocation(a)] =
                       Moved(request[RequestOfAllocation(a)], state,
                             request[RequestOfAllocation(a)].claimedBy)]
    BY <1>5 DEF RecordPick
  <2>2. QED
    BY <1>1, <2>1, AllocationIdParts
<1>6. ASSUME NEW source \in AllocationIds, NEW new \in AllocationIds, NEW q,
             Reallocate(source, new, q) \/ \E u \in Workers : Substitute(u, source, new, q)
      PROVE  FALSE
  <2> DEFINE s == RequestOfAllocation(source)
             t == RequestOfAllocation(new)
  <2>1. s \in RequestIds /\ t \in RequestIds
    BY AllocationIdParts
  <2>2. \/ request' = [request EXCEPT ![s] = Bumped(request[s]), ![t] = Bumped(request[t])]
              /\ s # t
        \/ request' = [request EXCEPT ![s] = Bumped(request[s])]
    BY <1>6 DEF Reallocate, Substitute
  <2>3. \A x \in RequestIds :
          request'[x] = request[x] \/ request'[x] = Bumped(request[x])
    BY <1>0, <2>1, <2>2
  <2>4. QED
    BY <1>2, <2>3
<1>7. CASE UNCHANGED vars
  BY <1>2, <1>7 DEF vars, requestVars
<1>8. QED
  BY <1>3, <1>4, <1>5, <1>6, <1>7 DEF RequestNext, Claim, ClaimNext

\* If some of p is left, then p gave line l all that it needed there.
LEMMA SubmissionServes ==
  ASSUME RowsInv, RowsInv', NEW r \in RequestIds, request[r].state \in Unsent,
         NEW demand, NEW rank, NEW fill, Submission(r, demand, rank, fill),
         UNCHANGED stockVars,
         NEW l \in DOMAIN demand, NEW p \in Positions, ItemOf[p] = LineItem[l],
         Available(p)' > 0
  PROVE  demand[l] <= SumFunctionOnSet(fill, {s \in Servable(DOMAIN demand) : s[1] = l})
<1> DEFINE s == <<l, p>>
           AtP == {t \in Servable(DOMAIN demand) : t[2] = p}
           OfL == {t \in Servable(DOMAIN demand) : t[1] = l}
           Earlier == {t \in DOMAIN fill : t[2] = p /\ rank[t[1]] < rank[l]}
           Sooner == {t \in DOMAIN fill : t[1] = l /\ PickRank[t[2]] < PickRank[p]}
           given == SumFunctionOnSet(fill, AtP)
           left == Available(p) - GivenBefore(fill, l, p, rank)
           needed == demand[l] - ServedBefore(fill, l, p)
<1>1. /\ DOMAIN demand \in SUBSET LineIds /\ demand[l] \in Nat
      /\ fill \in [Servable(DOMAIN demand) -> Nat]
      /\ IsGreedyFill(fill, demand, rank)
      /\ rank \in ServingOrders(DOMAIN demand)
  BY DEF Submission, LinesOf
<1>2. s \in Servable(DOMAIN demand) /\ s[1] = l /\ s[2] = p
  BY DEF Servable
<1>3. /\ IsFiniteSet(AtP) /\ IsFiniteSet(OfL)
      /\ \A t \in Servable(DOMAIN demand) : fill[t] \in Nat
      /\ AtP \subseteq Servable(DOMAIN demand) /\ OfL \subseteq Servable(DOMAIN demand)
  BY <1>1, ServablePairs, FS_Subset
<1>4. fill[s] = Smaller(AtLeastZero(left), needed)
  BY <1>1, <1>2 DEF IsGreedyFill
<1>5. /\ GivenBefore(fill, l, p, rank) \in Nat
      /\ GivenBefore(fill, l, p, rank) + fill[s] <= given
  <2>1. Earlier \in SUBSET AtP /\ s \in AtP \ Earlier
    <3>1. rank[l] \in Int
      <4>1. Cardinality(DOMAIN demand) \in Nat
        BY <1>1, FS_Subset, FS_CardinalityType
      <4>2. QED
        BY <1>1, <4>1 DEF ServingOrders
    <3>2. QED
      BY <1>1, <1>2, <3>1
  <2>2. \A t \in AtP : fill[t] \in Nat
    BY <1>3
  <2>3. GivenBefore(fill, l, p, rank) = SumFunctionOnSet(fill, Earlier)
    BY DEF GivenBefore
  <2> HIDE DEF AtP, Earlier, s
  <2>4. QED
    BY <1>3, <2>1, <2>2, <2>3, SumPart
<1>6. /\ ServedBefore(fill, l, p) \in Nat
      /\ ServedBefore(fill, l, p) + fill[s] <= SumFunctionOnSet(fill, OfL)
  <2>1. Sooner \in SUBSET OfL /\ s \in OfL \ Sooner
    <3>1. PickRank[p] \in Int
      OBVIOUS
    <3>2. QED
      BY <1>1, <1>2, <3>1
  <2>2. \A t \in OfL : fill[t] \in Nat
    BY <1>3
  <2>3. ServedBefore(fill, l, p) = SumFunctionOnSet(fill, Sooner)
    BY DEF ServedBefore
  <2> HIDE DEF OfL, Sooner, s
  <2>4. QED
    BY <1>3, <2>1, <2>2, <2>3, SumPart
<1>7. /\ Available(p) \in Int /\ given \in Nat
      /\ Available(p)' = Available(p) - given
  <2>1. SumAt(Opens(alloc'), p) = SumAt(Opens(alloc), p) + given
    BY SubmissionAtPosition
  <2>2. /\ SumAt(Opens(alloc), p) \in Nat
        /\ stock[p] \in StockPosition
        /\ Available(p) = Usable(p) - SumAt(Opens(alloc), p)
        /\ Available(p)' = Usable(p)' - SumAt(Opens(alloc'), p)
        /\ Usable(p)' = Usable(p)
    BY Reserved, ReservedNext DEF Usable, stockVars
  <2>3. given \in Nat
    BY FillWithinStock
  <2> HIDE DEF given
  <2>4. QED
    BY <2>1, <2>2, <2>3 DEF Usable, StockPosition
<1>8. fill[s] \in Nat
  BY <1>2, <1>3
<1>9. SumFunctionOnSet(fill, OfL) \in Nat
  <2>1. \A t \in OfL : fill[t] \in Nat
    BY <1>3
  <2> HIDE DEF OfL
  <2>2. QED
    BY <1>3, <2>1, SumNat
<1>10. fill[s] < AtLeastZero(left)
  <2> HIDE DEF given, s
  <2> QED BY <1>5, <1>7, <1>8 DEF AtLeastZero
<1>11. fill[s] = needed
  <2>1. AtLeastZero(left) \in Int /\ needed \in Int
    <3> HIDE DEF given, s
    <3> QED BY <1>1, <1>5, <1>6, <1>7 DEF AtLeastZero
  <2> HIDE DEF left, needed, s
  <2>2. QED
    BY <1>4, <1>8, <1>10, <2>1 DEF Smaller
<1> HIDE DEF OfL, s
<1>12. demand[l] <= SumFunctionOnSet(fill, OfL)
  BY <1>1, <1>6, <1>8, <1>9, <1>11
<1>13. QED
  BY <1>12 DEF OfL

\* A request enters the queue with a backorder only on items of which nothing
\* usable is left unallocated, whatever the order its lines are served in and
\* the positions are visited in.
THEOREM SubmissionsAllocateAll == Spec => SubmitAllocatesWhatItCan
<1> DEFINE Allocates ==
             \A l \in LineIds, p \in Positions :
               (/\ request[RequestOf[l]].state \in {"absent", "draft"}
                /\ request'[RequestOf[l]].state = "submitted"
                /\ line'[l].backordered > 0
                /\ ItemOf[p] = LineItem[l])
               => Available(p)' <= 0
<1>1. ASSUME RowsInv, RowsInv', DemandInv, [RequestNext]_vars
      PROVE  Allocates
  <2> SUFFICES ASSUME NEW l \in LineIds, NEW p \in Positions,
                      request[RequestOf[l]].state \in Unsent,
                      request'[RequestOf[l]].state = "submitted",
                      line'[l].backordered > 0,
                      ItemOf[p] = LineItem[l],
                      ~ (Available(p)' <= 0)
               PROVE  FALSE
    BY DEF Unsent
  <2>1. RequestOf[l] \in RequestIds
    OBVIOUS
  <2>2. PICK r \in RequestIds :
          Submit(r) \/ \E demand \in Demands(r) : CreateAndSubmit(r, demand)
    BY <1>1, <2>1, OnlySubmissionSends
  <2>3. PICK demand, rank, fill :
          /\ request[r].state \in Unsent
          /\ UNCHANGED stockVars
          /\ Submission(r, demand, rank, fill)
    BY <1>1, <2>2, SubmitStep
  <2>4. CASE l \notin DOMAIN demand
    <3>1. line'[l] = line[l]
      BY <2>3, <2>4 DEF Submission
    <3>2. line[l] = [NoLine EXCEPT !.requested = line[l].requested]
      BY <1>1, LineBefore DEF LineOK
    <3>3. line[l].backordered = 0
      BY <3>2 DEF NoLine
    <3>4. QED
      BY <3>1, <3>3
  <2>5. CASE l \in DOMAIN demand
    <3> DEFINE given == SumFunctionOnSet(fill, {s \in Servable(DOMAIN demand) : s[1] = l})
    <3>1. line'[l].backordered = demand[l] - given /\ demand[l] \in Nat
      BY <2>3, <2>5 DEF Submission, NoLine
    <3>2. Available(p)' > 0
      <4>1. /\ stock[p] \in StockPosition
            /\ SumAt(Opens(alloc'), p) \in Nat
            /\ Available(p)' = Usable(p)' - SumAt(Opens(alloc'), p)
        BY <1>1, Reserved, ReservedNext
      <4>2. Usable(p)' \in Int
        BY <2>3, <4>1 DEF Usable, StockPosition, stockVars
      <4>3. QED
        BY <4>1, <4>2
    <3>3. demand[l] <= given
      BY <1>1, <2>3, <2>5, <3>2, SubmissionServes
    <3>4. given \in Nat
      BY <2>3, <2>5, FillWithinDemand
    <3> HIDE DEF given
    <3>5. QED
      BY <3>1, <3>3, <3>4
  <2>6. QED
    BY <2>4, <2>5
<1>2. QED
  BY <1>1, DemandInvariant, PTL DEF Spec, SubmitAllocatesWhatItCan
-----------------------------------------------------------------------------
(***************************************************************************)
(* The listing                                                             *)
(***************************************************************************)

\* Lines and allocations of an item.
LinesFor(i) == {l \in LineIds : LineItem[l] = i}
AllocationsForItem(i) == {a \in AllocationIds : LineItem[LineOf(a)] = i}

\* What the allocations of a line reserve, what there is at a position.
OpenByLine == [l \in LineIds |-> SumFor(Opens(alloc), l)]
OpenByPosition == [p \in Positions |-> SumAt(Opens(alloc), p)]
OnHandByPosition == [p \in Positions |-> stock[p].onHand]
QuarantinedByPosition == [p \in Positions |-> stock[p].quarantined]
UsableByPosition == [p \in Positions |-> Usable(p)]
BackorderByLine == [l \in LineIds |-> line[l].backordered]
DemandByLine == [l \in LineIds |-> SumFor(Opens(alloc), l) + line[l].backordered]

\* Grouped by line, or by position.
LEMMA OpensByLine ==
  ASSUME RowsInv, NEW i
  PROVE  SumFunctionOnSet(Opens(alloc), AllocationsForItem(i))
           = SumFunctionOnSet(OpenByLine, LinesFor(i))
<1> DEFINE A == AllocationsForItem(i)
           K == LinesFor(i)
           key == [a \in A |-> LineOf(a)]
           f == Opens(alloc)
           group == [k \in K |-> SumFunctionOnSet(f, {a \in A : key[a] = k})]
<1>1. /\ IsFiniteSet(A) /\ IsFiniteSet(K)
      /\ \A a \in A : f[a] \in Int /\ key[a] \in K
  BY AllocationIdsFinite, FS_Subset, RowsAreBounded, RowColumns, AllocationIdParts
  DEF AllocationsForItem, LinesFor
<1>2. SumFunctionOnSet(f, A) = SumFunctionOnSet(group, K)
  <2> HIDE DEF A, K, key, f
  <2> QED BY <1>1, SumGroup
<1>3. \A l \in K : OpenByLine[l] \in Int /\ group[l] = OpenByLine[l]
  <2>1. ASSUME NEW l \in K PROVE OpenByLine[l] \in Int /\ group[l] = OpenByLine[l]
    <3>1. {a \in A : key[a] = l} = AllocationsFor(l) /\ l \in LineIds
      BY DEF AllocationsForItem, AllocationsFor, LinesFor
    <3>2. group[l] = SumFor(f, l)
      BY <3>1 DEF SumFor
    <3>3. OpenByLine[l] = SumFor(f, l) /\ SumFor(f, l) \in Nat
      BY <3>1, RowsAreBounded, SumsForLine DEF OpenByLine
    <3>4. QED
      BY <3>2, <3>3
  <2>2. QED
    BY <2>1
<1>4. SumFunctionOnSet(group, K) = SumFunctionOnSet(OpenByLine, K)
  <2> HIDE DEF K, group
  <2> QED BY <1>1, <1>3, SumSame
<1>5. QED
  BY <1>2, <1>4

\* Grouped by position.
LEMMA OpensByPosition ==
  ASSUME RowsInv, NEW i
  PROVE  SumFunctionOnSet(Opens(alloc), {a \in AllocationIds : ItemOf[PositionOf(a)] = i})
           = SumFunctionOnSet(OpenByPosition, PositionsOf(i))
<1> DEFINE A == {a \in AllocationIds : ItemOf[PositionOf(a)] = i}
           K == PositionsOf(i)
           key == [a \in A |-> PositionOf(a)]
           f == Opens(alloc)
           group == [k \in K |-> SumFunctionOnSet(f, {a \in A : key[a] = k})]
<1>1. /\ IsFiniteSet(A) /\ IsFiniteSet(K)
      /\ \A a \in A : f[a] \in Int /\ key[a] \in K
  BY AllocationIdsFinite, FS_Subset, RowsAreBounded, RowColumns, AllocationIdParts
  DEF PositionsOf
<1>2. SumFunctionOnSet(f, A) = SumFunctionOnSet(group, K)
  <2> HIDE DEF A, K, key, f
  <2> QED BY <1>1, SumGroup
<1>3. \A p \in K : OpenByPosition[p] \in Int /\ group[p] = OpenByPosition[p]
  <2>1. ASSUME NEW p \in K PROVE OpenByPosition[p] \in Int /\ group[p] = OpenByPosition[p]
    <3>1. {a \in A : key[a] = p} = AllocationsAt(p) /\ p \in Positions
      BY DEF AllocationsAt, PositionsOf
    <3>2. group[p] = SumAt(f, p)
      BY <3>1 DEF SumAt
    <3>3. OpenByPosition[p] = SumAt(f, p) /\ SumAt(f, p) \in Nat
      BY <3>1, Reserved DEF OpenByPosition
    <3>4. QED
      BY <3>2, <3>3
  <2>2. QED
    BY <2>1
<1>4. SumFunctionOnSet(group, K) = SumFunctionOnSet(OpenByPosition, K)
  <2> HIDE DEF K, group
  <2> QED BY <1>1, <1>3, SumSame
<1>5. QED
  BY <1>2, <1>4

\* What a line adds to the columns of the listing.
LEMMA LineInListing ==
  ASSUME RowsInv, DemandInv, NEW l \in LineIds
  PROVE  /\ SumFor(Opens(alloc), l) \in Nat /\ line[l].backordered \in Nat
         /\ request[RequestOf[l]].state \in OpenRequestStates =>
              line[l].requested - line[l].issued - line[l].cancelled
                = SumFor(Opens(alloc), l) + line[l].backordered
         /\ request[RequestOf[l]].state \notin OpenRequestStates =>
              SumFor(Opens(alloc), l) = 0 /\ line[l].backordered = 0
<1>1. /\ alloc \in BoundedRows
      /\ LineOK(line[l], l, alloc, request[RequestOf[l]].state)
      /\ line[l] \in RequestLine
      /\ request[RequestOf[l]].state \in States
  BY RowsAreBounded, LineBefore
<1>2. /\ SumFor(Opens(alloc), l) \in Nat /\ SumFor(Issues(alloc), l) \in Nat
      /\ SumFor(Held(alloc), l) = SumFor(Issues(alloc), l) + SumFor(Opens(alloc), l)
  BY <1>1, SumsForLine
<1>3. CASE request[RequestOf[l]].state \in Unsent
  <2>1. line[l].backordered = 0
    BY <1>1, <1>3 DEF LineOK, NoLine
  <2>2. \A a \in AllocationsFor(l) : Opens(alloc)[a] = 0
    <3>1. \A a \in AllocationsFor(l) :
            a \in AllocationIds /\ RequestOfAllocation(a) = RequestOf[l]
      BY DEF AllocationsFor, RequestOfAllocation
    <3>2. QED
      BY <1>3, <3>1, UnsentRowsEmpty DEF Opens, Open
  <2>3. SumFor(Opens(alloc), l) = 0
    BY <2>2, SomeAllocations, SumZero DEF SumFor
  <2>4. QED
    BY <1>3, <2>1, <2>3 DEF Unsent, OpenRequestStates
<1>4. CASE request[RequestOf[l]].state \notin Unsent
  <2>1. /\ line[l].issued = SumFor(Issues(alloc), l)
        /\ line[l].backordered =
             line[l].requested - line[l].cancelled - SumFor(Held(alloc), l)
        /\ line[l].cancelled + SumFor(Held(alloc), l) <= line[l].requested
    BY <1>1, <1>4, SentLine
  <2>2. line[l].requested - line[l].issued - line[l].cancelled
          = SumFor(Opens(alloc), l) + line[l].backordered
    BY <1>1, <1>2, <2>1 DEF RequestLine
  <2>3. request[RequestOf[l]].state \notin OpenRequestStates =>
          request[RequestOf[l]].state \in ClosedStates
    BY <1>1, <1>4 DEF States, Unsent, OpenRequestStates, ClosedStates
  <2>4. request[RequestOf[l]].state \in ClosedStates =>
          line[l].requested <= line[l].issued + line[l].cancelled
    BY <1>1 DEF LineOK
  <2>5. QED
    BY <1>1, <1>2, <2>1, <2>2, <2>3, <2>4 DEF RequestLine
<1>5. QED
  BY <1>3, <1>4

\* The columns of the listing are sums over lines and positions.
LEMMA ListedColumns ==
  ASSUME RowsInv, DemandInv, NEW i
  PROVE  /\ AllocatedFor(i) = SumFunctionOnSet(Opens(alloc), AllocationsForItem(i))
         /\ AllocatedFor(i) = SumFunctionOnSet(OpenByLine, LinesFor(i))
         /\ Backordered(i) = SumFunctionOnSet(BackorderByLine, LinesFor(i))
         /\ ReservedDemand(i) = SumFunctionOnSet(DemandByLine, LinesFor(i))
         /\ OnHand(i) = SumFunctionOnSet(OnHandByPosition, PositionsOf(i))
         /\ Quarantined(i) = SumFunctionOnSet(QuarantinedByPosition, PositionsOf(i))
         /\ OnHand(i) \in Nat /\ Quarantined(i) \in Nat
         /\ UsableOnHand(i) = SumFunctionOnSet(UsableByPosition, PositionsOf(i))
<1>0. /\ LinesFor(i) \subseteq LineIds /\ IsFiniteSet(LinesFor(i))
      /\ PositionsOf(i) \subseteq Positions /\ IsFiniteSet(PositionsOf(i))
      /\ AllocationsForItem(i) \subseteq AllocationIds
  BY FS_Subset DEF LinesFor, PositionsOf, AllocationsForItem
<1>1. AllocatedFor(i) = SumFunctionOnSet(Opens(alloc), AllocationsForItem(i))
  <2>1. \A a \in AllocationIds :
          Opens(alloc)[a] \in Int /\ Opens(alloc)[a] = Open(alloc[a])
    BY RowsAreBounded, RowColumns
  <2>2. SumFunction([a \in AllocationsForItem(i) |-> Open(alloc[a])])
          = SumFunctionOnSet(Opens(alloc), AllocationsForItem(i))
    BY <1>0, <2>1, SumOverSome
  <2>3. QED
    BY <2>2 DEF AllocatedFor, AllocationsForItem
<1>2. AllocatedFor(i) = SumFunctionOnSet(OpenByLine, LinesFor(i))
  BY <1>1, OpensByLine
<1>3. Backordered(i) = SumFunctionOnSet(BackorderByLine, LinesFor(i))
  <2> DEFINE g == [l \in LinesFor(i) |-> line[l].backordered]
  <2>1. /\ DOMAIN g = LinesFor(i)
        /\ \A l \in LinesFor(i) : BackorderByLine[l] \in Int /\ g[l] = BackorderByLine[l]
    BY <1>0, LineInListing DEF BackorderByLine
  <2>2. Backordered(i) = SumFunction(g)
    BY DEF Backordered, LinesFor
  <2> HIDE DEF g
  <2>3. QED
    BY <1>0, <2>1, <2>2, SumOfFunction
<1>4. ReservedDemand(i) = SumFunctionOnSet(DemandByLine, LinesFor(i))
  <2> DEFINE K == {l \in LinesFor(i) : request[RequestOf[l]].state \in OpenRequestStates}
             g == [l \in K |-> line[l].requested - line[l].issued - line[l].cancelled]
  <2>1. /\ DOMAIN g = K /\ K \in SUBSET LinesFor(i) /\ IsFiniteSet(K)
        /\ \A l \in LinesFor(i) : DemandByLine[l] \in Int
        /\ \A l \in LinesFor(i) \ K : DemandByLine[l] = 0
        /\ \A l \in K : g[l] = DemandByLine[l]
    BY <1>0, FS_Subset, LineInListing DEF DemandByLine
  <2>2. ReservedDemand(i) = SumFunction(g)
    <3>1. K = {m \in LineIds : /\ LineItem[m] = i
                               /\ request[RequestOf[m]].state \in OpenRequestStates}
      BY DEF LinesFor
    <3>2. QED
      BY <3>1 DEF ReservedDemand
  <2> HIDE DEF g, K
  <2>3. SumFunction(g) = SumFunctionOnSet(DemandByLine, K)
    <3>1. \A l \in K : DemandByLine[l] \in Int
      BY <2>1
    <3>2. QED
      BY <2>1, <3>1, SumOfFunction
  <2>4. SumFunctionOnSet(DemandByLine, LinesFor(i)) = SumFunctionOnSet(DemandByLine, K)
    BY <1>0, <2>1, SumSubset
  <2>5. QED
    BY <2>2, <2>3, <2>4
<1>5. \A p \in PositionsOf(i) :
        /\ OnHandByPosition[p] = stock[p].onHand /\ stock[p].onHand \in Nat
        /\ QuarantinedByPosition[p] = stock[p].quarantined /\ stock[p].quarantined \in Nat
        /\ UsableByPosition[p] \in Int
        /\ OnHandByPosition[p] = UsableByPosition[p] + QuarantinedByPosition[p]
  BY <1>0, Reserved
  DEF OnHandByPosition, QuarantinedByPosition, UsableByPosition, StockPosition
<1>6. /\ OnHand(i) = SumFunctionOnSet(OnHandByPosition, PositionsOf(i))
      /\ OnHand(i) \in Nat
  <2> DEFINE g == [p \in PositionsOf(i) |-> stock[p].onHand]
  <2>1. /\ DOMAIN g = PositionsOf(i) /\ OnHand(i) = SumFunction(g)
        /\ \A p \in PositionsOf(i) : g[p] = OnHandByPosition[p] /\ OnHandByPosition[p] \in Nat
    BY <1>5 DEF OnHand
  <2> HIDE DEF g
  <2>2. \A p \in PositionsOf(i) : OnHandByPosition[p] \in Int
    BY <2>1
  <2>3. OnHand(i) = SumFunctionOnSet(OnHandByPosition, PositionsOf(i))
    BY <1>0, <2>1, <2>2, SumOfFunction
  <2>4. QED
    BY <1>0, <2>1, <2>3, SumNat
<1>7. /\ Quarantined(i) = SumFunctionOnSet(QuarantinedByPosition, PositionsOf(i))
      /\ Quarantined(i) \in Nat
  <2> DEFINE g == [p \in PositionsOf(i) |-> stock[p].quarantined]
  <2>1. /\ DOMAIN g = PositionsOf(i) /\ Quarantined(i) = SumFunction(g)
        /\ \A p \in PositionsOf(i) : /\ g[p] = QuarantinedByPosition[p]
                                     /\ QuarantinedByPosition[p] \in Nat
    BY <1>5 DEF Quarantined
  <2> HIDE DEF g
  <2>2. \A p \in PositionsOf(i) : QuarantinedByPosition[p] \in Int
    BY <2>1
  <2>3. Quarantined(i) = SumFunctionOnSet(QuarantinedByPosition, PositionsOf(i))
    BY <1>0, <2>1, <2>2, SumOfFunction
  <2>4. QED
    BY <1>0, <2>1, <2>3, SumNat
<1>8. UsableOnHand(i) = SumFunctionOnSet(UsableByPosition, PositionsOf(i))
  <2>1. \A p \in PositionsOf(i) :
          /\ UsableByPosition[p] \in Int /\ QuarantinedByPosition[p] \in Int
          /\ OnHandByPosition[p] = UsableByPosition[p] + QuarantinedByPosition[p]
    BY <1>5
  <2>2. /\ SumFunctionOnSet(OnHandByPosition, PositionsOf(i))
             = SumFunctionOnSet(UsableByPosition, PositionsOf(i))
               + SumFunctionOnSet(QuarantinedByPosition, PositionsOf(i))
        /\ SumFunctionOnSet(UsableByPosition, PositionsOf(i)) \in Int
    BY <1>0, <2>1, SumPlus, SumTake
  <2>3. QED
    BY <1>6, <1>7, <2>2 DEF UsableOnHand
<1>9. QED
  BY <1>1, <1>2, <1>3, <1>4, <1>6, <1>7, <1>8

\* An item that nothing else serves, and of which every position has what is
\* allocated there, has no more allocated than is usable of it.
LEMMA ListedAllocations ==
  ASSUME RowsInv, DemandInv, NEW i, ~IsSubstituted(i), ~IsOverAllocated(i)
  PROVE  AllocatedFor(i) \in Nat /\ AllocatedFor(i) <= UsableOnHand(i)
<1> DEFINE f == Opens(alloc)
           A == AllocationsForItem(i)
           B == {a \in AllocationIds : ItemOf[PositionOf(a)] = i}
           K == PositionsOf(i)
<1>1. /\ IsFiniteSet(A) /\ IsFiniteSet(B) /\ IsFiniteSet(K)
      /\ A \intersect B \in SUBSET A /\ A \intersect B \in SUBSET B
      /\ \A a \in A : f[a] \in Nat /\ f[a] \in Int
      /\ \A a \in B : f[a] \in Nat
  BY AllocationIdsFinite, FS_Subset, RowsAreBounded, RowColumns
  DEF AllocationsForItem, PositionsOf
<1>2. \A a \in A \ (A \intersect B) : f[a] = 0
  <2>1. ASSUME NEW a \in A, a \notin B PROVE f[a] = 0
    <3>1. a \in AllocationIds /\ LineItem[LineOf(a)] = i /\ ItemOf[PositionOf(a)] # i
      BY <2>1 DEF AllocationsForItem
    <3>2. ~ (Open(alloc[a]) > 0)
      BY <3>1 DEF IsSubstituted
    <3>3. f[a] \in Nat /\ f[a] = Open(alloc[a])
      BY <3>1, RowsAreBounded, RowColumns
    <3>4. QED
      BY <3>2, <3>3
  <2>2. QED
    BY <2>1
<1>3. /\ SumFunctionOnSet(f, A) = SumFunctionOnSet(f, A \intersect B)
      /\ SumFunctionOnSet(f, A \intersect B) <= SumFunctionOnSet(f, B)
      /\ SumFunctionOnSet(f, A) \in Nat /\ SumFunctionOnSet(f, B) \in Nat
  <2> HIDE DEF f, A, B
  <2> QED BY <1>1, <1>2, SumSubset, SumPart, SumNat
<1>4. SumFunctionOnSet(f, B) = SumFunctionOnSet(OpenByPosition, K)
  BY OpensByPosition
<1>5. \A p \in K : /\ OpenByPosition[p] \in Int /\ UsableByPosition[p] \in Int
                   /\ OpenByPosition[p] <= UsableByPosition[p]
  <2>1. ASSUME NEW p \in K
        PROVE  /\ OpenByPosition[p] \in Int /\ UsableByPosition[p] \in Int
               /\ OpenByPosition[p] <= UsableByPosition[p]
    <3>1. p \in Positions /\ ~ (AllocatedAt(p) > Usable(p))
      BY DEF PositionsOf, IsOverAllocated
    <3>2. /\ AllocatedAt(p) = SumAt(Opens(alloc), p)
          /\ SumAt(Opens(alloc), p) \in Int /\ Usable(p) \in Int
      BY <3>1, Reserved DEF StockPosition
    <3>3. OpenByPosition[p] = SumAt(Opens(alloc), p) /\ UsableByPosition[p] = Usable(p)
      BY <3>1 DEF OpenByPosition, UsableByPosition
    <3>4. QED
      BY <3>1, <3>2, <3>3
  <2>2. QED
    BY <2>1
<1>6. /\ SumFunctionOnSet(OpenByPosition, K) <= SumFunctionOnSet(UsableByPosition, K)
      /\ SumFunctionOnSet(UsableByPosition, K) \in Int
  <2> HIDE DEF K
  <2> QED BY <1>1, <1>5, SumMonotonic, SumTake
<1>7. /\ AllocatedFor(i) = SumFunctionOnSet(f, A)
      /\ UsableOnHand(i) = SumFunctionOnSet(UsableByPosition, K)
  BY ListedColumns
<1> HIDE DEF f, A, B, K
<1>8. QED
  BY <1>3, <1>4, <1>6, <1>7

\* The invariants say that the listing is coherent.
LEMMA ListingMeaning ==
  ASSUME RowsInv, DemandInv, QuarantineWithinStock
  PROVE  ListingIsCoherent
<1> SUFFICES ASSUME NEW i \in Items
             PROVE  /\ ReservedDemand(i) = AllocatedFor(i) + Backordered(i)
                    /\ IsStockSummary(i) \/ IsSubstituted(i) \/ IsOverAllocated(i)
  BY DEF ListingIsCoherent
<1>0. LinesFor(i) \subseteq LineIds /\ IsFiniteSet(LinesFor(i))
  BY FS_Subset DEF LinesFor
<1>1. \A l \in LinesFor(i) :
        /\ OpenByLine[l] \in Int /\ BackorderByLine[l] \in Int
        /\ DemandByLine[l] = OpenByLine[l] + BackorderByLine[l]
        /\ DemandByLine[l] \in Nat
  BY <1>0, LineInListing DEF OpenByLine, BackorderByLine, DemandByLine
<1>2. /\ SumFunctionOnSet(DemandByLine, LinesFor(i))
           = SumFunctionOnSet(OpenByLine, LinesFor(i))
             + SumFunctionOnSet(BackorderByLine, LinesFor(i))
      /\ SumFunctionOnSet(DemandByLine, LinesFor(i)) \in Nat
  BY <1>0, <1>1, SumPlus, SumNat
<1>3. ReservedDemand(i) = AllocatedFor(i) + Backordered(i) /\ ReservedDemand(i) \in Nat
  BY <1>2, ListedColumns
<1>4. ASSUME ~IsSubstituted(i), ~IsOverAllocated(i) PROVE IsStockSummary(i)
  <2>1. AllocatedFor(i) \in Nat /\ AllocatedFor(i) <= UsableOnHand(i)
    BY <1>4, ListedAllocations
  <2>2. Quarantined(i) <= OnHand(i)
    <3>1. IsFiniteSet(PositionsOf(i)) /\ PositionsOf(i) \subseteq Positions
      BY FS_Subset DEF PositionsOf
    <3>2. \A p \in PositionsOf(i) :
            /\ QuarantinedByPosition[p] \in Int /\ OnHandByPosition[p] \in Int
            /\ QuarantinedByPosition[p] <= OnHandByPosition[p]
      BY <3>1, Reserved DEF QuarantineWithinStock, QuarantinedByPosition, OnHandByPosition,
         StockPosition
    <3>3. QED
      BY <3>1, <3>2, SumMonotonic, ListedColumns
  <2>3. OnHand(i) \in Nat /\ Quarantined(i) \in Nat
    BY ListedColumns
  <2>4. QED
    BY <1>3, <2>1, <2>2, <2>3 DEF IsStockSummary
<1>5. QED
  BY <1>3, <1>4

\* As long as requests alone use the stock, substitution is the one reason for
\* which the summary of an item is refused.
THEOREM RequestsAloneAreListed ==
  Spec => [](\A i \in Items : IsStockSummary(i) \/ IsSubstituted(i))
<1>1. ASSUME RowsInv, DemandInv, StockInv, NEW i \in Items
      PROVE  IsStockSummary(i) \/ IsSubstituted(i)
  <2>1. QuarantineWithinStock
    BY <1>1, Reserved DEF QuarantineWithinStock, StockInv, StockOK, StockPosition
  <2>2. ASSUME NEW p \in PositionsOf(i) PROVE ~ (AllocatedAt(p) > Usable(p))
    <3>1. p \in Positions
      BY DEF PositionsOf
    <3>2. /\ AllocatedAt(p) <= Usable(p)
          /\ AllocatedAt(p) \in Nat /\ Usable(p) \in Int
      BY <1>1, <3>1, StockMeaning, Reserved DEF NoOverAllocation, StockPosition
    <3>3. QED
      BY <3>2
  <2>3. ~IsOverAllocated(i)
    BY <2>2 DEF IsOverAllocated
  <2>4. QED
    BY <1>1, <2>1, <2>3, ListingMeaning DEF ListingIsCoherent
<1>2. RowsInv /\ DemandInv /\ StockInv =>
        \A i \in Items : IsStockSummary(i) \/ IsSubstituted(i)
  BY <1>1
<1>3. QED
  BY <1>2, StockInvariant, PTL
-----------------------------------------------------------------------------
(***************************************************************************)
(* Requests and counter staff together                                     *)
(***************************************************************************)

\* The books of a position agree: stock with ledger, ledger with outbox and
\* with the issued quantities of the allocations.
BooksOK(p) ==
  /\ stock[p].quarantined <= stock[p].onHand
  /\ stock[p].onHand = OpeningStock[p] + LedgerNet(p)
  /\ outbox[p] = IF IsSpectrumManaged(p) THEN ledger[p]["material_issue"] ELSE 0
  /\ ledger[p]["material_issue"] = SumAt(Issues(alloc), p)

\* What a position has, counting what was issued from it.
EverHeld == [p \in Positions |-> stock[p].onHand + ledger[p]["material_issue"]]

\* What SpectrumStockIsConserved says of one item.
ConservedOK(i) ==
  /\ SumFunctionOnSet(EverHeld, PositionsOf(i)) = SumFunctionOnSet(OpeningStock, PositionsOf(i))
  /\ \A p \in PositionsOf(i) : stock[p].quarantined = 0

BooksInv ==
  /\ \A p \in Positions : BooksOK(p)
  /\ Capabilities = {} => \A i \in SpectrumItems : ConservedOK(i)

\* Types of the rows of a position.
LEMMA LedgerRows ==
  ASSUME RowsTypeOK, NEW p \in Positions
  PROVE  /\ ledger[p] \in [EventKinds -> Int]
         /\ LedgerNet(p) \in Int
         /\ ledger[p]["material_issue"] \in Int
         /\ stock[p] \in StockPosition
         /\ OpeningStock[p] \in Nat
         /\ EverHeld[p] = stock[p].onHand + ledger[p]["material_issue"]
         /\ EverHeld[p] \in Int
<1>1. ledger[p] \in [EventKinds -> Int] /\ stock[p] \in StockPosition
  BY DEF RowsTypeOK, StockTypeOK
<1>2. \A k \in EventKinds : ledger[p][k] \in Int
  BY <1>1
<1>3. /\ ledger[p]["receipt"] \in Int /\ ledger[p]["return"] \in Int
      /\ ledger[p]["move_in"] \in Int /\ ledger[p]["count_adjustment"] \in Int
      /\ ledger[p]["general_use_withdrawal"] \in Int
      /\ ledger[p]["material_issue"] \in Int /\ ledger[p]["move_out"] \in Int
  BY <1>2 DEF EventKinds
<1>4. QED
  BY <1>1, <1>3 DEF LedgerNet, EverHeld, StockPosition

\* The items keep what they ever held if each of their positions does.
LEMMA EverHeldKept ==
  ASSUME RowsTypeOK, NEW i, ConservedOK(i),
         \A p \in PositionsOf(i) : /\ EverHeld'[p] = EverHeld[p]
                                   /\ stock'[p].quarantined = stock[p].quarantined
  PROVE  ConservedOK(i)'
<1>1. /\ IsFiniteSet(PositionsOf(i))
      /\ \A p \in PositionsOf(i) : EverHeld[p] \in Int
  BY FS_Subset, LedgerRows DEF PositionsOf
<1>2. SumFunctionOnSet(EverHeld', PositionsOf(i)) = SumFunctionOnSet(EverHeld, PositionsOf(i))
  BY <1>1, SumSame
<1>3. QED
  BY <1>2 DEF ConservedOK, PositionsOf

-----------------------------------------------------------------------------
(***************************************************************************)
(* The operations of InventoryService                                      *)
(***************************************************************************)

\* What all of them but a move make sure of before they change a row: what is
\* quarantined stays within what is on hand, the ledger row says by how much
\* on_hand changes, and without a capability the item is not Spectrum's.
Booked(p, dOnHand, dQuarantined, kind, quantity) ==
  /\ dOnHand \in Int /\ dQuarantined \in Int /\ quantity \in Int
  /\ stock[p].quarantined + dQuarantined \in Nat
  /\ stock[p].onHand + dOnHand \in Nat
  /\ stock[p].quarantined + dQuarantined <= stock[p].onHand + dOnHand
  /\ \/ kind \in {"receipt", "return", "count_adjustment"} /\ dOnHand = quantity
     \/ kind = "general_use_withdrawal" /\ dOnHand = -quantity
     \/ kind \in {"quarantine", "release"} /\ dOnHand = 0
  /\ Capabilities = {} => ~IsSpectrumManaged(p)

\* Every inventory operation but a move changes one position, with its ledger
\* row.
LEMMA OperationsAreBooked ==
  ASSUME RowsTypeOK, \A p \in Positions : BooksOK(p), InventoryNext
  PROVE  \/ \E p \in Positions, d \in Positions, q \in StockQuantities : Move(p, d, q)
         \/ \E p \in Positions : \E dOnHand, dQuarantined, kind, quantity :
              /\ ChangeStock(p, dOnHand, dQuarantined, kind, quantity)
              /\ Booked(p, dOnHand, dQuarantined, kind, quantity)
<1>0. \A p \in Positions : /\ stock[p].onHand \in Nat /\ stock[p].quarantined \in Nat
                           /\ stock[p].quarantined <= stock[p].onHand
                           /\ Usable(p) = stock[p].onHand - stock[p].quarantined
  BY LedgerRows DEF StockPosition, BooksOK, Usable
<1>1. ASSUME NEW p \in Positions, NEW q \in StockQuantities, Receive(p, q)
      PROVE  /\ ChangeStock(p, q, 0, "receipt", q)
             /\ Booked(p, q, 0, "receipt", q)
  BY <1>0, <1>1 DEF Receive, Booked, IsCapable
<1>2. ASSUME NEW p \in Positions, NEW q \in StockQuantities, NEW condition,
             ReturnStock(p, q, condition)
      PROVE  \E n : /\ ChangeStock(p, q, n, "return", q)
                    /\ Booked(p, q, n, "return", q)
  BY <1>0, <1>2 DEF ReturnStock, Booked, IsCapable
<1>3. ASSUME NEW p \in Positions, NEW q \in StockQuantities, Quarantine(p, q)
      PROVE  /\ ChangeStock(p, 0, q, "quarantine", q)
             /\ Booked(p, 0, q, "quarantine", q)
  BY <1>0, <1>3 DEF Quarantine, Booked, IsCapable
<1>4. ASSUME NEW p \in Positions, NEW q \in StockQuantities, ReleaseQuarantine(p, q)
      PROVE  /\ ChangeStock(p, 0, -q, "release", q)
             /\ Booked(p, 0, -q, "release", q)
  BY <1>0, <1>4 DEF ReleaseQuarantine, Booked, IsCapable
<1>5. ASSUME NEW p \in Positions, NEW q \in StockQuantities, WithdrawGeneralUse(p, q)
      PROVE  /\ ChangeStock(p, -q, 0, "general_use_withdrawal", q)
             /\ Booked(p, -q, 0, "general_use_withdrawal", q)
  BY <1>0, <1>5 DEF WithdrawGeneralUse, Booked
<1>6. ASSUME NEW p \in Positions, NEW counted \in StockQuantities \union {0},
             Adjust(p, counted)
      PROVE  LET n == counted - stock[p].onHand
             IN  /\ ChangeStock(p, n, 0, "count_adjustment", n)
                 /\ Booked(p, n, 0, "count_adjustment", n)
  BY <1>0, <1>6 DEF Adjust, Booked, IsCapable
<1>7. QED
  BY <1>1, <1>2, <1>3, <1>4, <1>5, <1>6 DEF InventoryNext

\* The rows after such a change.
LEMMA ChangedRows ==
  ASSUME RowsTypeOK, NEW p \in Positions, NEW dOnHand, NEW dQuarantined, NEW kind,
         NEW quantity, ChangeStock(p, dOnHand, dQuarantined, kind, quantity),
         Booked(p, dOnHand, dQuarantined, kind, quantity)
  PROVE  /\ StockTypeOK'
         /\ stock'[p].onHand = stock[p].onHand + dOnHand
         /\ stock'[p].quarantined = stock[p].quarantined + dQuarantined
         /\ LedgerNet(p)' = LedgerNet(p) + dOnHand
         /\ ledger'[p]["material_issue"] = ledger[p]["material_issue"]
         /\ \A x \in Positions \ {p} : stock'[x] = stock[x] /\ ledger'[x] = ledger[x]
         /\ outbox' = outbox
<1>1. /\ stock \in [Positions -> StockPosition]
      /\ ledger \in [Positions -> [EventKinds -> Int]]
      /\ outbox \in [Positions -> Nat]
      /\ ledger[p] \in [EventKinds -> Int] /\ stock[p] \in StockPosition
      /\ kind \in EventKinds /\ quantity \in Int
  BY DEF RowsTypeOK, StockTypeOK, Booked, EventKinds
<1>2. /\ stock' = [stock EXCEPT ![p] = [onHand |-> stock[p].onHand + dOnHand,
                                        quarantined |-> stock[p].quarantined + dQuarantined,
                                        version |-> stock[p].version + 1]]
      /\ ledger' = [ledger EXCEPT ![p] = [ledger[p] EXCEPT ![kind] = ledger[p][kind] + quantity]]
      /\ outbox' = outbox
  BY DEF ChangeStock, Record
<1>3. [onHand |-> stock[p].onHand + dOnHand,
       quarantined |-> stock[p].quarantined + dQuarantined,
       version |-> stock[p].version + 1] \in StockPosition
  BY <1>1 DEF Booked, StockPosition
<1>4. [ledger[p] EXCEPT ![kind] = ledger[p][kind] + quantity] \in [EventKinds -> Int]
  BY <1>1
<1>5. StockTypeOK'
  BY <1>1, <1>2, <1>3, <1>4 DEF StockTypeOK
<1>6. /\ stock'[p].onHand = stock[p].onHand + dOnHand
      /\ stock'[p].quarantined = stock[p].quarantined + dQuarantined
      /\ \A x \in Positions \ {p} : stock'[x] = stock[x] /\ ledger'[x] = ledger[x]
      /\ ledger'[p] = [ledger[p] EXCEPT ![kind] = ledger[p][kind] + quantity]
  BY <1>1, <1>2
<1>7. /\ \A k \in EventKinds : ledger[p][k] \in Int
      /\ \A k \in EventKinds \ {kind} : ledger'[p][k] = ledger[p][k]
      /\ ledger'[p][kind] = ledger[p][kind] + quantity
  BY <1>1, <1>6
<1>8. /\ LedgerNet(p)' = LedgerNet(p) + dOnHand
      /\ ledger'[p]["material_issue"] = ledger[p]["material_issue"]
  <2>1. CASE kind \in {"receipt", "return", "count_adjustment"} /\ dOnHand = quantity
    BY <1>1, <1>7, <2>1 DEF LedgerNet, EventKinds
  <2>2. CASE kind = "general_use_withdrawal" /\ dOnHand = -quantity
    BY <1>1, <1>7, <2>2 DEF LedgerNet, EventKinds
  <2>3. CASE kind \in {"quarantine", "release"} /\ dOnHand = 0
    BY <1>1, <1>7, <2>3 DEF LedgerNet, EventKinds
  <2>4. QED
    BY <2>1, <2>2, <2>3 DEF Booked
<1>9. QED
  BY <1>2, <1>5, <1>6, <1>8

\* What a move does to its two positions.
LEMMA MovedRows ==
  ASSUME RowsTypeOK, \A x \in Positions : BooksOK(x),
         NEW p \in Positions, NEW d \in Positions, NEW q \in StockQuantities, Move(p, d, q)
  PROVE  /\ StockTypeOK'
         /\ p # d /\ ItemOf[p] = ItemOf[d] /\ q \in Nat
         /\ stock'[p].onHand = stock[p].onHand - q
         /\ stock'[d].onHand = stock[d].onHand + q
         /\ stock'[p].quarantined <= stock'[p].onHand
         /\ LedgerNet(p)' = LedgerNet(p) - q
         /\ LedgerNet(d)' = LedgerNet(d) + q
         /\ \A x \in Positions :
              /\ stock'[x].quarantined = stock[x].quarantined
              /\ ledger'[x]["material_issue"] = ledger[x]["material_issue"]
         /\ \A x \in Positions \ {p, d} : stock'[x] = stock[x] /\ ledger'[x] = ledger[x]
         /\ outbox' = outbox
<1>1. /\ stock \in [Positions -> StockPosition]
      /\ ledger \in [Positions -> [EventKinds -> Int]]
      /\ outbox \in [Positions -> Nat]
      /\ ledger[p] \in [EventKinds -> Int] /\ stock[p] \in StockPosition
      /\ ledger[d] \in [EventKinds -> Int] /\ stock[d] \in StockPosition
      /\ q \in Nat
      /\ p # d /\ ItemOf[p] = ItemOf[d]
      /\ q <= stock[p].onHand - stock[p].quarantined
      /\ "move_in" \in EventKinds /\ "move_out" \in EventKinds
  BY DEF RowsTypeOK, StockTypeOK, EventKinds, Move, Usable
<1>2. /\ stock'[p] = [stock[p] EXCEPT !.onHand = stock[p].onHand - q,
                                      !.version = stock[p].version + 1]
      /\ stock'[d] = [stock[d] EXCEPT !.onHand = stock[d].onHand + q,
                                      !.version = stock[d].version + 1]
      /\ \A x \in Positions \ {p, d} : stock'[x] = stock[x]
      /\ stock' = [x \in Positions |-> stock'[x]]
      /\ outbox' = outbox
  <2>1. outbox' = outbox
    BY DEF Move
  <2>2. stock' = [stock EXCEPT
                    ![p] = [stock[p] EXCEPT !.onHand = stock[p].onHand - q,
                                            !.version = stock[p].version + 1],
                    ![d] = [stock[d] EXCEPT !.onHand = stock[d].onHand + q,
                                            !.version = stock[d].version + 1]]
    BY DEF Move
  <2>3. QED
    BY <1>1, <2>1, <2>2
<1>3. ledger' = [ledger EXCEPT
                  ![p] = [ledger[p] EXCEPT !["move_out"] = ledger[p]["move_out"] + q],
                  ![d] = [ledger[d] EXCEPT !["move_in"] = ledger[d]["move_in"] + q]]
  BY <1>1 DEF Move, Record
<1>4. /\ stock'[p] = [stock[p] EXCEPT !.onHand = stock[p].onHand - q,
                                      !.version = stock[p].version + 1]
      /\ stock'[d] = [stock[d] EXCEPT !.onHand = stock[d].onHand + q,
                                      !.version = stock[d].version + 1]
      /\ ledger'[p] = [ledger[p] EXCEPT !["move_out"] = ledger[p]["move_out"] + q]
      /\ ledger'[d] = [ledger[d] EXCEPT !["move_in"] = ledger[d]["move_in"] + q]
      /\ \A x \in Positions \ {p, d} : stock'[x] = stock[x] /\ ledger'[x] = ledger[x]
  <2>1. ledger'[p] = [ledger[p] EXCEPT !["move_out"] = ledger[p]["move_out"] + q]
    BY <1>1, <1>3
  <2>2. ledger'[d] = [ledger[d] EXCEPT !["move_in"] = ledger[d]["move_in"] + q]
    BY <1>1, <1>3
  <2>3. \A x \in Positions \ {p, d} : ledger'[x] = ledger[x]
    BY <1>1, <1>3
  <2>4. QED
    BY <1>2, <2>1, <2>2, <2>3
<1>5. /\ stock'[p].onHand = stock[p].onHand - q
      /\ stock'[d].onHand = stock[d].onHand + q
      /\ stock'[p].quarantined = stock[p].quarantined
      /\ stock'[d].quarantined = stock[d].quarantined
      /\ stock'[p] \in StockPosition /\ stock'[d] \in StockPosition
  <2>1. /\ stock[p].onHand \in Nat /\ stock[p].quarantined \in Nat
        /\ stock[d].onHand \in Nat /\ stock[d].quarantined \in Nat
        /\ stock[p].version + 1 \in Nat /\ stock[d].version + 1 \in Nat
    BY <1>1 DEF StockPosition
  <2>2. stock[p].onHand - q \in Nat /\ stock[d].onHand + q \in Nat
    BY <1>1, <2>1
  <2>3. /\ stock'[p].onHand = stock[p].onHand - q
        /\ stock'[p].quarantined = stock[p].quarantined
        /\ stock'[p] \in StockPosition
    BY <1>1, <1>4, <2>1, <2>2 DEF StockPosition
  <2>4. /\ stock'[d].onHand = stock[d].onHand + q
        /\ stock'[d].quarantined = stock[d].quarantined
        /\ stock'[d] \in StockPosition
    BY <1>1, <1>4, <2>1, <2>2 DEF StockPosition
  <2>5. QED
    BY <2>3, <2>4
<1>6. /\ ledger'[p] \in [EventKinds -> Int] /\ ledger'[d] \in [EventKinds -> Int]
      /\ \A k \in EventKinds : ledger[p][k] \in Int /\ ledger[d][k] \in Int
      /\ \A k \in EventKinds \ {"move_out"} : ledger'[p][k] = ledger[p][k]
      /\ \A k \in EventKinds \ {"move_in"} : ledger'[d][k] = ledger[d][k]
      /\ ledger'[p]["move_out"] = ledger[p]["move_out"] + q
      /\ ledger'[d]["move_in"] = ledger[d]["move_in"] + q
  BY <1>1, <1>4
<1>7. StockTypeOK'
  <2>1. /\ stock' = [x \in Positions |-> stock'[x]]
        /\ ledger' = [x \in Positions |-> ledger'[x]]
    <3>1. ledger' = [x \in Positions |-> ledger'[x]]
      BY <1>1, <1>3
    <3>2. QED
      BY <1>2, <3>1
  <2>2. \A x \in Positions : stock'[x] \in StockPosition /\ ledger'[x] \in [EventKinds -> Int]
    BY <1>1, <1>4, <1>5, <1>6
  <2>3. stock' \in [Positions -> StockPosition] /\ ledger' \in [Positions -> [EventKinds -> Int]]
    BY <2>1, <2>2
  <2>4. QED
    BY <1>1, <1>2, <2>3 DEF StockTypeOK
<1>8. /\ LedgerNet(p)' = LedgerNet(p) - q
      /\ ledger'[p]["material_issue"] = ledger[p]["material_issue"]
  BY <1>1, <1>6 DEF LedgerNet, EventKinds
<1>9. /\ LedgerNet(d)' = LedgerNet(d) + q
      /\ ledger'[d]["material_issue"] = ledger[d]["material_issue"]
  BY <1>1, <1>6 DEF LedgerNet, EventKinds
<1>10. stock'[p].quarantined <= stock'[p].onHand
  BY <1>1, <1>5 DEF StockPosition
<1>11. QED
  BY <1>1, <1>2, <1>4, <1>5, <1>7, <1>8, <1>9, <1>10
\* The books after a step of either service.
LEMMA ChangedBooks ==
  ASSUME RowsTypeOK, BooksInv, NEW p \in Positions, NEW dOnHand, NEW dQuarantined,
         NEW kind, NEW quantity, ChangeStock(p, dOnHand, dQuarantined, kind, quantity),
         Booked(p, dOnHand, dQuarantined, kind, quantity), alloc' = alloc
  PROVE  StockTypeOK' /\ BooksInv'
<1>1. /\ StockTypeOK'
      /\ stock'[p].onHand = stock[p].onHand + dOnHand
      /\ stock'[p].quarantined = stock[p].quarantined + dQuarantined
      /\ LedgerNet(p)' = LedgerNet(p) + dOnHand
      /\ ledger'[p]["material_issue"] = ledger[p]["material_issue"]
      /\ \A x \in Positions \ {p} : stock'[x] = stock[x] /\ ledger'[x] = ledger[x]
      /\ outbox' = outbox
  BY ChangedRows
<1>2. ASSUME NEW x \in Positions PROVE BooksOK(x)'
  <2>1. BooksOK(x)
    BY DEF BooksInv
  <2>2. CASE x = p
    <3>1. /\ stock[p].onHand \in Nat /\ LedgerNet(p) \in Int /\ OpeningStock[p] \in Nat
          /\ dOnHand \in Int
          /\ stock[p].quarantined + dQuarantined <= stock[p].onHand + dOnHand
      BY LedgerRows DEF StockPosition, Booked
    <3>2. /\ stock'[p].quarantined <= stock'[p].onHand
          /\ stock'[p].onHand = OpeningStock[p] + LedgerNet(p)'
      BY <1>1, <2>1, <2>2, <3>1 DEF BooksOK
    <3>3. QED
      BY <1>1, <2>1, <2>2, <3>2 DEF BooksOK, IsSpectrumManaged
  <2>3. CASE x # p
    <3>1. stock'[x] = stock[x] /\ ledger'[x] = ledger[x]
      BY <1>1, <2>3
    <3>2. QED
      BY <1>1, <2>1, <3>1 DEF BooksOK, LedgerNet, IsSpectrumManaged
  <2>4. QED
    BY <2>2, <2>3
<1>3. ASSUME Capabilities = {}, NEW i \in SpectrumItems PROVE ConservedOK(i)'
  <2>1. ConservedOK(i)
    BY <1>3 DEF BooksInv
  <2>2. p \notin PositionsOf(i)
    BY <1>3 DEF Booked, IsSpectrumManaged, PositionsOf
  <2>3. \A x \in PositionsOf(i) : /\ EverHeld'[x] = EverHeld[x]
                                  /\ stock'[x].quarantined = stock[x].quarantined
    BY <1>1, <2>2 DEF PositionsOf, EverHeld
  <2>4. QED
    BY <2>1, <2>3, EverHeldKept
<1>4. QED
  BY <1>1, <1>2, <1>3 DEF BooksInv

\* A move keeps the books: two positions of one item change, by as much.
LEMMA MovedBooks ==
  ASSUME RowsTypeOK, BooksInv, NEW p \in Positions, NEW d \in Positions,
         NEW q \in StockQuantities, Move(p, d, q), alloc' = alloc
  PROVE  StockTypeOK' /\ BooksInv'
<1>1. /\ StockTypeOK'
      /\ p # d /\ ItemOf[p] = ItemOf[d] /\ q \in Nat
      /\ stock'[p].onHand = stock[p].onHand - q
      /\ stock'[d].onHand = stock[d].onHand + q
      /\ stock'[p].quarantined <= stock'[p].onHand
      /\ LedgerNet(p)' = LedgerNet(p) - q
      /\ LedgerNet(d)' = LedgerNet(d) + q
      /\ \A x \in Positions :
           /\ stock'[x].quarantined = stock[x].quarantined
           /\ ledger'[x]["material_issue"] = ledger[x]["material_issue"]
      /\ \A x \in Positions \ {p, d} : stock'[x] = stock[x] /\ ledger'[x] = ledger[x]
      /\ outbox' = outbox
  BY MovedRows DEF BooksInv
<1>2. \A x \in Positions : /\ stock[x].onHand \in Nat /\ stock[x].quarantined \in Nat
                           /\ LedgerNet(x) \in Int /\ OpeningStock[x] \in Nat
  BY LedgerRows DEF StockPosition
<1>3. ASSUME NEW x \in Positions PROVE BooksOK(x)'
  <2>1. BooksOK(x)
    BY DEF BooksInv
  <2>2. /\ stock'[x].quarantined <= stock'[x].onHand
        /\ stock'[x].onHand = OpeningStock[x] + LedgerNet(x)'
    <3>1. CASE x = p
      BY <1>1, <1>2, <2>1, <3>1 DEF BooksOK
    <3>2. CASE x = d
      <4>1. /\ stock[d].quarantined <= stock[d].onHand
            /\ stock[d].onHand = OpeningStock[d] + LedgerNet(d)
            /\ stock'[d].quarantined = stock[d].quarantined
        BY <1>1, <2>1, <3>2 DEF BooksOK
      <4>2. QED
        BY <1>1, <1>2, <3>2, <4>1
    <3>3. CASE x \notin {p, d}
      <4>1. stock'[x] = stock[x] /\ ledger'[x] = ledger[x]
        BY <1>1, <3>3
      <4>2. QED
        BY <2>1, <4>1 DEF BooksOK, LedgerNet
    <3>4. QED
      BY <3>1, <3>2, <3>3
  <2>3. ledger'[x]["material_issue"] = ledger[x]["material_issue"]
    BY <1>1
  <2>4. QED
    BY <1>1, <2>1, <2>2, <2>3 DEF BooksOK, IsSpectrumManaged
<1>4. ASSUME Capabilities = {}, NEW i \in SpectrumItems PROVE ConservedOK(i)'
  <2> DEFINE K == PositionsOf(i)
  <2>1. ConservedOK(i)
    BY <1>4 DEF BooksInv
  <2>2. /\ IsFiniteSet(K) /\ K \subseteq Positions
        /\ p \in K <=> d \in K
    BY <1>1, FS_Subset DEF PositionsOf
  <2>3. \A x \in Positions :
          /\ EverHeld[x] \in Int /\ EverHeld'[x] \in Int
          /\ EverHeld[x] = stock[x].onHand + ledger[x]["material_issue"]
          /\ EverHeld'[x] = stock'[x].onHand + ledger'[x]["material_issue"]
    <3>1. ASSUME NEW x \in Positions
          PROVE  EverHeld'[x] \in Int
      <4>1. stock'[x] \in StockPosition /\ ledger'[x] \in [EventKinds -> Int]
        BY <1>1 DEF StockTypeOK
      <4>2. stock'[x].onHand \in Int /\ ledger'[x]["material_issue"] \in Int
        BY <4>1 DEF StockPosition, EventKinds
      <4>3. QED
        BY <4>2 DEF EverHeld
    <3>2. QED
      BY <3>1, LedgerRows DEF EverHeld
  <2>4. /\ EverHeld'[p] = EverHeld[p] - q
        /\ EverHeld'[d] = EverHeld[d] + q
        /\ \A x \in Positions \ {p, d} : EverHeld'[x] = EverHeld[x]
    <3>1. ledger[p]["material_issue"] \in Int /\ ledger[d]["material_issue"] \in Int
      BY LedgerRows
    <3>2. \A x \in Positions \ {p, d} : EverHeld'[x] = EverHeld[x]
      BY <1>1, <2>3
    <3>3. QED
      BY <1>1, <1>2, <2>3, <3>1, <3>2
  <2>5. SumFunctionOnSet(EverHeld', K) = SumFunctionOnSet(EverHeld, K)
    <3>1. /\ \A x \in K : EverHeld[x] \in Int /\ EverHeld'[x] \in Int
          /\ \A x \in K \ {p, d} : EverHeld'[x] = EverHeld[x]
      BY <2>2, <2>3, <2>4
    <3> DEFINE before == EverHeld
               after == EverHeld'
    <3>0. /\ IsFiniteSet(K) /\ p # d /\ q \in Int
          /\ \A x \in K : before[x] \in Int /\ after[x] \in Int
          /\ p \in K => after[p] = before[p] - q
          /\ d \in K => after[d] = before[d] + q
          /\ \A x \in K \ {p, d} : after[x] = before[x]
      BY <1>1, <2>2, <2>4, <3>1
    <3> HIDE DEF K, before, after
    <3>2. SumFunctionOnSet(after, K) = SumFunctionOnSet(before, K)
            - (IF p \in K THEN q ELSE 0) + (IF d \in K THEN q ELSE 0)
      BY <3>0, SumTransfer
    <3>3. SumFunctionOnSet(EverHeld, K) \in Int
      BY <2>2, <3>1, SumTake
    <3>4. QED
      BY <1>1, <2>2, <3>2, <3>3 DEF before, after
  <2>6. \A x \in K : stock'[x].quarantined = stock[x].quarantined
    BY <1>1, <2>2
  <2>7. QED
    BY <2>1, <2>5, <2>6 DEF ConservedOK, PositionsOf
<1>5. QED
  BY <1>1, <1>3, <1>4 DEF BooksInv

\* The workflow changes stock by hand-offs only, which book what they issue.
LEMMA RequestBooks ==
  ASSUME RowsInv, RowsInv', DemandInv, BooksInv, [RequestNext]_vars
  PROVE  BooksInv'
<1>0. RowsTypeOK
  BY DEF RowsInv
<1>1. CASE \E r \in RequestIds, u \in Workers : Handoff(u, r)
  <2>1. PICK r \in RequestIds, u \in Workers : Handoff(u, r)
    BY <1>1
  <2>2. ASSUME NEW p \in Positions
        PROVE  BooksOK(p)' /\ EverHeld'[p] = EverHeld[p]
                 /\ stock'[p].quarantined = stock[p].quarantined
    <3> DEFINE n == IssueAt(r, p)
    <3>1. /\ n \in Nat /\ n <= Usable(p)
          /\ SumAt(Issues(alloc'), p) = SumAt(Issues(alloc), p) + n
          /\ stock'[p].onHand = stock[p].onHand - n
          /\ stock'[p].quarantined = stock[p].quarantined
          /\ ledger'[p] = [ledger[p] EXCEPT !["material_issue"] = @ + n]
          /\ outbox'[p] = outbox[p] + Posted(r, p)
      BY <2>1, HandoffAtPosition
    <3>2. BooksOK(p)
      BY DEF BooksInv
    <3>3. /\ ledger[p] \in [EventKinds -> Int]
          /\ LedgerNet(p) \in Int /\ OpeningStock[p] \in Nat
          /\ stock[p] \in StockPosition
          /\ outbox[p] \in Nat
      BY <1>0, LedgerRows DEF RowsTypeOK, StockTypeOK
    <3>4. Posted(r, p) = IF IsSpectrumManaged(p) THEN n ELSE 0
      BY DEF Posted
    <3> HIDE DEF n
    <3>5. /\ \A k \in EventKinds : ledger[p][k] \in Int
          /\ \A k \in EventKinds \ {"material_issue"} : ledger'[p][k] = ledger[p][k]
          /\ ledger'[p]["material_issue"] = ledger[p]["material_issue"] + n
      BY <3>1, <3>3 DEF EventKinds
    <3>6. LedgerNet(p)' = LedgerNet(p) - n
      BY <3>1, <3>5 DEF LedgerNet, EventKinds
    <3>7. /\ stock'[p].quarantined <= stock'[p].onHand
          /\ stock'[p].onHand = OpeningStock[p] + LedgerNet(p)'
      BY <3>1, <3>2, <3>3, <3>6 DEF BooksOK, Usable, StockPosition
    <3>8. ledger[p]["material_issue"] \in Int
      BY <3>5 DEF EventKinds
    <3>9. outbox'[p] = IF IsSpectrumManaged(p) THEN ledger'[p]["material_issue"] ELSE 0
      BY <3>1, <3>2, <3>3, <3>4, <3>5 DEF BooksOK
    <3>10. ledger'[p]["material_issue"] = SumAt(Issues(alloc'), p)
      BY <3>1, <3>2, <3>5 DEF BooksOK
    <3>11. EverHeld'[p] = EverHeld[p]
      BY <3>1, <3>3, <3>5, <3>8 DEF EverHeld, StockPosition
    <3>12. QED
      BY <3>1, <3>7, <3>9, <3>10, <3>11 DEF BooksOK, IsSpectrumManaged
  <2>3. \A i : ConservedOK(i) => ConservedOK(i)'
    <3>1. \A i : PositionsOf(i) \subseteq Positions
      BY DEF PositionsOf
    <3>2. QED
      BY <1>0, <2>2, <3>1, EverHeldKept
  <2>4. QED
    BY <2>2, <2>3 DEF BooksInv
<1>2. CASE ~ \E r \in RequestIds, u \in Workers : Handoff(u, r)
  <2>1. ASSUME NEW p \in Positions
        PROVE  BooksOK(p)' /\ EverHeld'[p] = EverHeld[p]
                 /\ stock'[p].quarantined = stock[p].quarantined
    <3>1. /\ stock' = stock /\ ledger' = ledger /\ outbox' = outbox
          /\ SumAt(Issues(alloc'), p) = SumAt(Issues(alloc), p)
      BY <1>2, StepRebooks DEF Rebooks, stockVars
    <3>2. BooksOK(p)
      BY DEF BooksInv
    <3>3. QED
      BY <3>1, <3>2 DEF BooksOK, LedgerNet, IsSpectrumManaged, EverHeld
  <2>2. \A i : ConservedOK(i) => ConservedOK(i)'
    <3>1. \A i : PositionsOf(i) \subseteq Positions
      BY DEF PositionsOf
    <3>2. QED
      BY <1>0, <2>1, <3>1, EverHeldKept
  <2>3. QED
    BY <2>1, <2>2 DEF BooksInv
<1>3. QED
  BY <1>1, <1>2

\* Counter staff change no row of a request.
LEMMA InventoryStep ==
  ASSUME IInv, HistoryOK, DemandInv, BooksInv, InventoryNext, UNCHANGED requestVars
  PROVE  IInv' /\ HistoryOK' /\ DemandInv' /\ BooksInv'
<1>1. request' = request /\ line' = line /\ alloc' = alloc /\ batch' = batch
  BY DEF requestVars
<1>2. RowsTypeOK /\ \A p \in Positions : BooksOK(p)
  BY DEF IInv, BooksInv
<1>3. StockTypeOK' /\ BooksInv'
  <2>1. ASSUME NEW p \in Positions, NEW d \in Positions, NEW q \in StockQuantities,
               Move(p, d, q)
        PROVE  StockTypeOK' /\ BooksInv'
    BY <1>1, <1>2, <2>1, MovedBooks
  <2>2. ASSUME NEW p \in Positions, NEW dOnHand, NEW dQuarantined, NEW kind, NEW quantity,
               ChangeStock(p, dOnHand, dQuarantined, kind, quantity),
               Booked(p, dOnHand, dQuarantined, kind, quantity)
        PROVE  StockTypeOK' /\ BooksInv'
    BY <1>1, <1>2, <2>2, ChangedBooks
  <2>3. QED
    BY <1>2, <2>1, <2>2, OperationsAreBooked
<1>4. IInv'
  BY <1>1, <1>3 DEF IInv, RowsTypeOK, RequestTypeOK, RowsOK
<1>5. HistoryOK'
  BY <1>1 DEF HistoryOK, IssuedOK
<1>6. DemandInv'
  BY <1>1 DEF DemandInv
<1>7. QED
  BY <1>3, <1>4, <1>5, <1>6

\* Every step of either service.
LEMMA WarehouseStep ==
  ASSUME IInv, HistoryOK, DemandInv, BooksInv, [WarehouseNext]_vars
  PROVE  IInv' /\ HistoryOK' /\ DemandInv' /\ BooksInv'
<1>1. CASE [RequestNext]_vars
  <2>1. IInv' /\ HistoryOK'
    BY <1>1, NextIInv, HistoryStep
  <2>2. RowsInv /\ RowsInv'
    BY <2>1, InvRows
  <2>3. QED
    BY <1>1, <2>1, <2>2, DemandStep, RequestBooks
<1>2. CASE InventoryNext /\ UNCHANGED requestVars
  BY <1>2, InventoryStep
<1>3. QED
  BY <1>1, <1>2 DEF WarehouseNext

\* The books are empty initially.
LEMMA InitBooks == Init => BooksInv
<1> SUFFICES ASSUME Init PROVE BooksInv
  OBVIOUS
<1>1. ASSUME NEW p \in Positions
      PROVE  /\ BooksOK(p)
             /\ EverHeld[p] = OpeningStock[p]
             /\ OpeningStock[p] \in Int
             /\ stock[p].quarantined = 0
  <2>1. /\ stock[p] = [onHand |-> OpeningStock[p], quarantined |-> 0, version |-> 1]
        /\ \A k \in EventKinds : ledger[p][k] = 0
        /\ outbox[p] = 0
        /\ OpeningStock[p] \in Nat
    BY DEF Init, StockInit
  <2>2. LedgerNet(p) = 0 /\ ledger[p]["material_issue"] = 0
    BY <2>1 DEF LedgerNet, EventKinds
  <2>3. SumAt(Issues(alloc), p) = 0
    BY InitSums
  <2>4. QED
    BY <2>1, <2>2, <2>3 DEF BooksOK, EverHeld
<1>2. ASSUME NEW i PROVE ConservedOK(i)
  <2>1. /\ IsFiniteSet(PositionsOf(i))
        /\ \A p \in PositionsOf(i) : /\ EverHeld[p] = OpeningStock[p]
                                     /\ OpeningStock[p] \in Int
                                     /\ stock[p].quarantined = 0
    BY <1>1, FS_Subset DEF PositionsOf
  <2>2. SumFunctionOnSet(EverHeld, PositionsOf(i)) = SumFunctionOnSet(OpeningStock, PositionsOf(i))
    BY <2>1, SumSame
  <2>3. QED
    BY <2>1, <2>2 DEF ConservedOK
<1>3. QED
  BY <1>1, <1>2 DEF BooksInv

\* The inductive invariant of the two services together.
LEMMA WarehouseInvariant ==
  WarehouseSpec => [](IInv /\ HistoryOK /\ RowsInv /\ DemandInv /\ BooksInv)
<1>1. Init => IInv /\ HistoryOK /\ DemandInv /\ BooksInv
  BY InitIInv, InitHistory, InitDemand, InitBooks
<1>2. IInv /\ HistoryOK /\ DemandInv /\ BooksInv /\ [WarehouseNext]_vars
        => IInv' /\ HistoryOK' /\ DemandInv' /\ BooksInv'
  BY WarehouseStep
<1>3. QED
  BY <1>1, <1>2, InvRows, PTL DEF WarehouseSpec

\* It says that Spectrum stock is conserved.
LEMMA ConservedMeaning == RowsInv /\ BooksInv => SpectrumStockIsConserved
<1> SUFFICES ASSUME RowsInv, BooksInv, Capabilities = {}, NEW i \in SpectrumItems
             PROVE  LET at == {p \in Positions : ItemOf[p] = i}
                    IN  /\ SumFunction([p \in at |-> stock[p].onHand + ledger[p]["material_issue"]])
                             = SumFunctionOnSet(OpeningStock, at)
                        /\ \A p \in at : stock[p].quarantined = 0
  BY DEF SpectrumStockIsConserved
<1> DEFINE at == {p \in Positions : ItemOf[p] = i}
           held == [p \in at |-> stock[p].onHand + ledger[p]["material_issue"]]
<1>1. ConservedOK(i) /\ at = PositionsOf(i)
  BY DEF BooksInv, PositionsOf
<1>2. /\ IsFiniteSet(at) /\ DOMAIN held = at
      /\ \A p \in at : EverHeld[p] \in Int /\ held[p] = EverHeld[p]
  BY FS_Subset, LedgerRows DEF RowsInv
<1>3. SumFunction(held) = SumFunctionOnSet(EverHeld, at)
  <2> HIDE DEF held, at
  <2> QED BY <1>2, SumOfFunction
<1>4. QED
  BY <1>1, <1>3 DEF ConservedOK

\* It says that the books agree.
LEMMA BooksMeaning ==
  ASSUME RowsInv, BooksInv
  PROVE  /\ LedgerExplainsStock /\ OutboxMirrorsIssues
         /\ QuarantineWithinStock /\ IssuesMatchAllocations
<1>1. ASSUME NEW p \in Positions
      PROVE  ledger[p]["material_issue"] =
               SumFunction([a \in AllocationsAt(p) |-> alloc[a].issued])
  BY RowsAreBounded, ModelSums DEF BooksInv, BooksOK
<1>2. IssuesMatchAllocations
  BY <1>1 DEF IssuesMatchAllocations
<1>3. QED
  BY <1>2 DEF BooksInv, BooksOK, LedgerExplainsStock, OutboxMirrorsIssues,
              QuarantineWithinStock

\* After every transaction of either service, what has become of the opening
\* stock of a position is in the ledger, to the unit.
THEOREM LedgerIsComplete == WarehouseSpec => []LedgerExplainsStock
<1>1. RowsInv /\ BooksInv => LedgerExplainsStock
  BY BooksMeaning
<1>2. QED
  BY <1>1, WarehouseInvariant, PTL

\* Exactly the issues of Spectrum-managed items are queued for Spectrum.
THEOREM IssuesAreQueued == WarehouseSpec => []OutboxMirrorsIssues
<1>1. RowsInv /\ BooksInv => OutboxMirrorsIssues
  BY BooksMeaning
<1>2. QED
  BY <1>1, WarehouseInvariant, PTL

\* No transaction leaves more in quarantine than on hand.
THEOREM QuarantineFits == WarehouseSpec => []QuarantineWithinStock
<1>1. RowsInv /\ BooksInv => QuarantineWithinStock
  BY BooksMeaning
<1>2. QED
  BY <1>1, WarehouseInvariant, PTL

\* Whatever requests and counter do, the listing counts the same demand from
\* the lines of open requests as from the allocations and backorders of all of
\* them, and a summary is refused only for a substitution or for stock that
\* was taken although it is allocated.
THEOREM ListingStaysCoherent == WarehouseSpec => []ListingIsCoherent
<1>1. RowsInv /\ DemandInv /\ BooksInv => ListingIsCoherent
  BY BooksMeaning, ListingMeaning
<1>2. QED
  BY <1>1, WarehouseInvariant, PTL

\* What the ledger says was issued at a position is what the allocations there
\* say was issued, to the unit.
THEOREM IssuesAreAllocated == WarehouseSpec => []IssuesMatchAllocations
<1>1. RowsInv /\ BooksInv => IssuesMatchAllocations
  BY BooksMeaning
<1>2. QED
  BY <1>1, WarehouseInvariant, PTL

\* Without a Spectrum capability no operation creates, destroys or quarantines
\* stock of a Spectrum-managed item: it is moved, and it is issued.
THEOREM SpectrumStockStays == WarehouseSpec => []SpectrumStockIsConserved
<1>1. QED
  BY ConservedMeaning, WarehouseInvariant, PTL

\* What is proved of the requests holds with the counter staff at work too:
\* none of it depends on who else changes the stock.
THEOREM RequestsAmongOperations ==
  WarehouseSpec => [](/\ TypeOK
                      /\ ClaimMatchesState
                      /\ AllocationWithinQuantity
                      /\ PickedIsHeld
                      /\ LineTotalsAreCurrent
                      /\ DemandIsConserved
                      /\ ClosedHoldsNothing)
<1>1. IInv /\ RowsInv /\ DemandInv =>
        /\ TypeOK
        /\ ClaimMatchesState
        /\ AllocationWithinQuantity
        /\ PickedIsHeld
        /\ LineTotalsAreCurrent
        /\ DemandIsConserved
        /\ ClosedHoldsNothing
  BY IInvMeaning, DemandMeaning, ClosedMeaning DEF IInv
<1>2. QED
  BY <1>1, WarehouseInvariant, PTL
=============================================================================

--------------------------- MODULE CatalogProofs ---------------------------
(***************************************************************************)
(* What holds of the catalogue for every number of items and requests: the *)
(* accounting of what is issued and queued for Spectrum.                   *)
(*                                                                         *)
(* Nothing about a job number is looked at after a request was created, so *)
(* the argument goes by stock: an item changes its path without stock and  *)
(* without demand only, a Spectrum-managed item never gets stock again,    *)
(* and a unit of it that is held cannot be taken by anybody else.          *)
(***************************************************************************)
EXTENDS Catalog, FiniteSetTheorems, TLAPS

USE CatalogAssumption

LiveStates == {"checked", "draft"} \union OpenStates

\* Items a request names exist, and only open requests hold anything.
RowsAreSound ==
  /\ \A i \in Items : item[i].active => Exists(i)
  /\ \A r \in RequestIds :
       /\ request[r].state # "absent" => Exists(request[r].item)
       /\ held[r] # {} => request[r].state \in OpenStates
       /\ \A i \in held[r] : Exists(i)

\* For a Spectrum-managed line, only Spectrum-managed items are held, and
\* nobody can take the held unit away.
ManagedIsHeld ==
  \A r \in RequestIds : \A i \in held[r] :
    IsManaged(request[r].item) => IsManaged(i) /\ Available(i) >= 0

\* For a local line, an item that became Spectrum-managed is out of stock.
StrayIsOutOfStock ==
  \A r \in RequestIds : \A i \in held[r] :
    ~IsManaged(request[r].item) /\ IsManaged(i) => onHand[i] = 0

\* A Spectrum-managed line without a job number is for an item that has no
\* stock and of which nobody holds anything.
JoblessHoldsNothing ==
  \A r \in RequestIds :
    (request[r].state \in LiveStates /\ IsManaged(request[r].item) /\ ~request[r].job) =>
      /\ onHand[request[r].item] = 0
      /\ \A t \in RequestIds : request[t].item = request[r].item => held[t] = {}

CatalogInvariant ==
  /\ CatalogTypeOK
  /\ RowsAreSound
  /\ ManagedIsHeld
  /\ StrayIsOutOfStock
  /\ JoblessHoldsNothing
  /\ UndeliveredIsManaged
  /\ IssuesHaveJobNumber
-----------------------------------------------------------------------------
(***************************************************************************)
(* Counting the holders of an item                                         *)
(***************************************************************************)
LEMMA HoldersAreFinite ==
  ASSUME NEW h, NEW i
  PROVE  IsFiniteSet(Holders(h, i)) /\ Cardinality(Holders(h, i)) \in Nat
<1>1. Holders(h, i) \in SUBSET RequestIds
  BY DEF Holders
<1>2. QED
  BY <1>1, FS_Subset, FS_CardinalityType

\* If nobody but r holds the item in h who did not in g, at most one more does.
LEMMA OneMoreHolder ==
  ASSUME NEW g, NEW h, NEW i, NEW r,
         Holders(h, i) \subseteq Holders(g, i) \union {r}
  PROVE  Cardinality(Holders(h, i)) <= Cardinality(Holders(g, i)) + 1
<1>1. IsFiniteSet(Holders(g, i)) /\ Cardinality(Holders(g, i)) \in Nat
  BY HoldersAreFinite
<1>2. /\ IsFiniteSet(Holders(g, i) \union {r})
      /\ Cardinality(Holders(g, i) \union {r}) <= Cardinality(Holders(g, i)) + 1
  <2>1. /\ IsFiniteSet(Holders(g, i) \union {r})
        /\ Cardinality(Holders(g, i) \union {r})
             = IF r \in Holders(g, i) THEN Cardinality(Holders(g, i))
               ELSE Cardinality(Holders(g, i)) + 1
    BY <1>1, FS_AddElement, Zenon
  <2>2. QED
    BY <1>1, <2>1
<1>3. Cardinality(Holders(h, i)) <= Cardinality(Holders(g, i) \union {r})
  BY <1>2, FS_Subset
<1>4. Cardinality(Holders(h, i)) \in Nat /\ Cardinality(Holders(g, i) \union {r}) \in Nat
  BY <1>2, HoldersAreFinite, FS_CardinalityType
<1>5. QED
  BY <1>1, <1>2, <1>3, <1>4

LEMMA NoMoreHolders ==
  ASSUME NEW g, NEW h, NEW i, Holders(h, i) \subseteq Holders(g, i)
  PROVE  Cardinality(Holders(h, i)) <= Cardinality(Holders(g, i))
BY HoldersAreFinite, FS_Subset

LEMMA OneHolderLess ==
  ASSUME NEW g, NEW h, NEW i, NEW r \in Holders(g, i),
         Holders(h, i) \subseteq Holders(g, i) \ {r}
  PROVE  Cardinality(Holders(h, i)) <= Cardinality(Holders(g, i)) - 1
<1>1. IsFiniteSet(Holders(g, i)) /\ Cardinality(Holders(g, i)) \in Nat
  BY HoldersAreFinite
<1>2. /\ IsFiniteSet(Holders(g, i) \ {r})
      /\ Cardinality(Holders(g, i) \ {r}) = Cardinality(Holders(g, i)) - 1
  BY <1>1, FS_RemoveElement
<1>3. QED
  BY <1>2, FS_Subset

\* The holder r hands its unit over to t.
LEMMA HolderReplaced ==
  ASSUME NEW g, NEW h, NEW i, NEW r \in Holders(g, i), NEW t,
         Holders(h, i) \subseteq (Holders(g, i) \ {r}) \union {t}
  PROVE  Cardinality(Holders(h, i)) <= Cardinality(Holders(g, i))
<1>1. IsFiniteSet(Holders(g, i)) /\ Cardinality(Holders(g, i)) \in Nat
  BY HoldersAreFinite
<1>2. /\ IsFiniteSet(Holders(g, i) \ {r})
      /\ Cardinality(Holders(g, i) \ {r}) = Cardinality(Holders(g, i)) - 1
  BY <1>1, FS_RemoveElement
<1>3. /\ IsFiniteSet((Holders(g, i) \ {r}) \union {t})
      /\ Cardinality((Holders(g, i) \ {r}) \union {t}) <= Cardinality(Holders(g, i))
  <2>1. /\ IsFiniteSet((Holders(g, i) \ {r}) \union {t})
        /\ Cardinality((Holders(g, i) \ {r}) \union {t})
             = IF t \in Holders(g, i) \ {r} THEN Cardinality(Holders(g, i) \ {r})
               ELSE Cardinality(Holders(g, i) \ {r}) + 1
    BY <1>2, FS_AddElement, Zenon
  <2>2. QED
    BY <1>1, <1>2, <2>1
<1>4. Cardinality(Holders(h, i)) <= Cardinality((Holders(g, i) \ {r}) \union {t})
  BY <1>3, FS_Subset
<1>5. /\ Cardinality(Holders(h, i)) \in Nat
      /\ Cardinality((Holders(g, i) \ {r}) \union {t}) \in Nat
  BY <1>3, HoldersAreFinite, FS_CardinalityType
<1>6. QED
  BY <1>1, <1>3, <1>4, <1>5

\* Who holds an item that is not free for anybody holds a unit that is there.
LEMMA HeldIsInStock ==
  ASSUME CatalogTypeOK, NEW r \in RequestIds, NEW i \in held[r], Available(i) >= 0
  PROVE  onHand[i] > 0
<1>1. i \in Items /\ onHand[i] \in Nat
  BY DEF CatalogTypeOK
<1>2. r \in Holders(held, i)
  BY DEF Holders
<1>3. Cardinality(Holders(held, i)) \in Nat /\ Cardinality(Holders(held, i)) # 0
  BY <1>2, HoldersAreFinite, FS_EmptySet
<1>4. QED
  BY <1>1, <1>3 DEF Available

-----------------------------------------------------------------------------
(***************************************************************************)
(* The invariant holds at first                                            *)
(***************************************************************************)
LEMMA InitInvariant == CatalogInit => CatalogInvariant
<1> SUFFICES ASSUME CatalogInit PROVE CatalogInvariant
  OBVIOUS
<1>1. CatalogTypeOK
  BY DEF CatalogInit, CatalogTypeOK, Paths, RequestStates
<1>2. RowsAreSound
  BY DEF CatalogInit, RowsAreSound, Exists
<1>3. ManagedIsHeld /\ StrayIsOutOfStock
  BY DEF CatalogInit, ManagedIsHeld, StrayIsOutOfStock
<1>4. JoblessHoldsNothing
  BY DEF CatalogInit, JoblessHoldsNothing, LiveStates, OpenStates
<1>5. UndeliveredIsManaged /\ IssuesHaveJobNumber
  BY DEF CatalogInit, UndeliveredIsManaged, IssuesHaveJobNumber
<1>6. QED
  BY <1>1, <1>2, <1>3, <1>4, <1>5 DEF CatalogInvariant

-----------------------------------------------------------------------------
(***************************************************************************)
(* Items and alternates                                                    *)
(***************************************************************************)
LEMMA CreateItemStep ==
  ASSUME CatalogInvariant, NEW i \in Items, NEW p \in Paths, CreateItem(i, p)
  PROVE  CatalogInvariant'
<1> USE DEF CatalogInvariant, CreateItem
<1>1. CatalogTypeOK'
  BY DEF CatalogTypeOK
<1>2. \A j \in Items : Exists(j) => item'[j] = item[j]
  BY DEF CatalogTypeOK
<1>3. \A r \in RequestIds : request[r].state # "absent" => item'[request[r].item] = item[request[r].item]
  BY <1>2 DEF CatalogTypeOK, RowsAreSound
<1>4. \A r \in RequestIds : \A j \in held[r] :
         /\ item'[j] = item[j]
         /\ item'[request[r].item] = item[request[r].item]
  BY <1>2, <1>3 DEF CatalogTypeOK, RowsAreSound, OpenStates
<1>5. RowsAreSound'
  BY <1>2, <1>3, <1>4 DEF CatalogTypeOK, RowsAreSound, Exists, Paths
<1>6. ManagedIsHeld'
  BY <1>4 DEF ManagedIsHeld, IsManaged, Available
<1>7. StrayIsOutOfStock'
  BY <1>4 DEF StrayIsOutOfStock, IsManaged
<1>8. JoblessHoldsNothing'
  BY <1>3 DEF JoblessHoldsNothing, IsManaged, LiveStates, OpenStates
<1>9. UndeliveredIsManaged' /\ IssuesHaveJobNumber'
  BY <1>2 DEF CatalogTypeOK, UndeliveredIsManaged, IssuesHaveJobNumber, IsManaged, Exists
<1>10. QED
  BY <1>1, <1>5, <1>6, <1>7, <1>8, <1>9

\* The path of an item changes only when nothing hangs on it.
LEMMA UpdateItemStep ==
  ASSUME CatalogInvariant, NEW i \in Items, NEW p \in Paths,
         NEW active \in BOOLEAN, UpdateItem(i, p, active)
  PROVE  CatalogInvariant'
<1> USE DEF CatalogInvariant, UpdateItem
<1>1. CatalogTypeOK'
  BY DEF CatalogTypeOK
<1>2. \A j \in Items : j # i => item'[j] = item[j]
  BY DEF CatalogTypeOK
<1>3. item'[i].path = p /\ Exists(i)'
  BY DEF CatalogTypeOK, Exists, Paths
<1>4. RowsAreSound'
  BY <1>2, <1>3 DEF CatalogTypeOK, RowsAreSound, Exists
<1>5. CASE item[i].path = p
  <2>1. \A j \in Items : item'[j].path = item[j].path
    BY <1>2, <1>3, <1>5
  <2>2. ManagedIsHeld'
    BY <2>1 DEF CatalogTypeOK, ManagedIsHeld, IsManaged, Available
  <2>3. StrayIsOutOfStock'
    BY <2>1 DEF CatalogTypeOK, StrayIsOutOfStock, IsManaged
  <2>4. JoblessHoldsNothing'
    BY <2>1 DEF CatalogTypeOK, JoblessHoldsNothing, IsManaged
  <2>5. UndeliveredIsManaged' /\ IssuesHaveJobNumber'
    BY <2>1 DEF CatalogTypeOK, UndeliveredIsManaged, IssuesHaveJobNumber, IsManaged
  <2>6. QED
    BY <1>1, <1>4, <2>2, <2>3, <2>4, <2>5
<1>6. CASE item[i].path # p
  <2>1. MayChangePath(i)
    BY <1>6
  <2>2. \A r \in RequestIds : held[r] # {} => request[r].item # i
    BY <2>1 DEF MayChangePath, HasOpenDemand, RowsAreSound
  <2>3. \A r \in RequestIds : held[r] # {} => IsManaged(request[r].item)' = IsManaged(request[r].item)
    BY <1>2, <2>2 DEF CatalogTypeOK, IsManaged
  <2>4. \A r \in RequestIds : i \in held[r] => ~IsManaged(request[r].item)
    <3>1. SUFFICES ASSUME NEW r \in RequestIds, i \in held[r], IsManaged(request[r].item)
                   PROVE  FALSE
      OBVIOUS
    <3>2. Available(i) >= 0
      BY <3>1 DEF ManagedIsHeld
    <3>3. onHand[i] > 0
      BY <3>1, <3>2, HeldIsInStock
    <3>4. QED
      BY <2>1, <3>3 DEF MayChangePath
  <2>5. ManagedIsHeld'
    <3>1. SUFFICES ASSUME NEW r \in RequestIds, NEW j \in held[r], IsManaged(request[r].item)
                   PROVE  IsManaged(j)' /\ Available(j)' >= 0
      BY <2>3 DEF ManagedIsHeld
    <3>2. j # i /\ j \in Items
      BY <2>4, <3>1 DEF CatalogTypeOK
    <3>3. IsManaged(j) /\ Available(j) >= 0
      BY <3>1 DEF ManagedIsHeld
    <3>4. QED
      BY <1>2, <3>2, <3>3 DEF IsManaged, Available
  <2>6. StrayIsOutOfStock'
    <3>1. SUFFICES ASSUME NEW r \in RequestIds, NEW j \in held[r],
                          ~IsManaged(request[r].item), IsManaged(j)'
                   PROVE  onHand[j] = 0
      BY <2>3 DEF StrayIsOutOfStock
    <3>2. CASE j = i
      BY <2>1, <3>2 DEF MayChangePath
    <3>3. CASE j # i
      BY <1>2, <3>1, <3>3 DEF CatalogTypeOK, StrayIsOutOfStock, IsManaged
    <3>4. QED
      BY <3>2, <3>3
  <2>7. JoblessHoldsNothing'
    <3>1. SUFFICES ASSUME NEW r \in RequestIds, request[r].state \in LiveStates,
                          IsManaged(request[r].item)', ~request[r].job
                   PROVE  /\ onHand[request[r].item] = 0
                          /\ \A t \in RequestIds :
                               request[t].item = request[r].item => held[t] = {}
      BY DEF JoblessHoldsNothing
    <3>2. CASE request[r].item = i
      BY <2>1, <2>2, <3>2 DEF MayChangePath
    <3>3. CASE request[r].item # i
      BY <1>2, <3>1, <3>3 DEF CatalogTypeOK, JoblessHoldsNothing, IsManaged
    <3>4. QED
      BY <3>2, <3>3
  <2>8. UndeliveredIsManaged' /\ IssuesHaveJobNumber'
    BY <1>2, <2>1 DEF CatalogTypeOK, MayChangePath, UndeliveredIsManaged,
                      IssuesHaveJobNumber, IsManaged
  <2>9. QED
    BY <1>1, <1>4, <2>5, <2>6, <2>7, <2>8
<1>7. QED
  BY <1>5, <1>6

\* Approvals are read by a substitution only, which compares the paths itself.
LEMMA AlternateStep ==
  ASSUME CatalogInvariant,
         \/ \E i, k \in Items : ApproveAlternate(i, k)
         \/ \E a \in approved : RevokeAlternate(a)
  PROVE  CatalogInvariant'
<1>1. /\ approved' \subseteq Items \X Items
      /\ UNCHANGED <<item, onHand, request, held, undelivered>>
  <2>1. CASE \E i, k \in Items : ApproveAlternate(i, k)
    <3>1. PICK i \in Items, k \in Items : ApproveAlternate(i, k)
      BY <2>1
    <3>2. <<i, k>> \in Items \X Items /\ approved \subseteq Items \X Items
      BY DEF CatalogInvariant, CatalogTypeOK
    <3>3. QED
      BY <3>1, <3>2 DEF ApproveAlternate
  <2>2. CASE \E a \in approved : RevokeAlternate(a)
    BY <2>2 DEF CatalogInvariant, CatalogTypeOK, RevokeAlternate
  <2>3. QED
    BY <2>1, <2>2
<1>2. CatalogTypeOK' /\ RowsAreSound'
  BY <1>1 DEF CatalogInvariant, CatalogTypeOK, RowsAreSound, Exists
<1>3. ManagedIsHeld' /\ StrayIsOutOfStock'
  BY <1>1 DEF CatalogInvariant, ManagedIsHeld, StrayIsOutOfStock, IsManaged, Available
<1>4. JoblessHoldsNothing' /\ UndeliveredIsManaged' /\ IssuesHaveJobNumber'
  BY <1>1 DEF CatalogInvariant, JoblessHoldsNothing, UndeliveredIsManaged,
              IssuesHaveJobNumber, IsManaged
<1>5. QED
  BY <1>2, <1>3, <1>4 DEF CatalogInvariant

-----------------------------------------------------------------------------
(***************************************************************************)
(* Requests                                                                *)
(***************************************************************************)
LEMMA CheckItemsStep ==
  ASSUME CatalogInvariant, NEW r \in RequestIds, NEW i \in Items,
         NEW job \in BOOLEAN, CheckItems(r, i, job)
  PROVE  CatalogInvariant'
<1> USE DEF CatalogInvariant, CheckItems
<1>1. CatalogTypeOK'
  BY DEF CatalogTypeOK, RequestStates
<1>2. /\ request'[r] = [state |-> "checked", item |-> i, job |-> job]
      /\ \A t \in RequestIds : t # r => request'[t] = request[t]
      /\ held[r] = {}
  BY DEF CatalogTypeOK, RowsAreSound, OpenStates
<1>3. RowsAreSound'
  BY <1>2 DEF RowsAreSound, Exists
<1>4. ManagedIsHeld' /\ StrayIsOutOfStock'
  BY <1>2 DEF ManagedIsHeld, StrayIsOutOfStock, IsManaged, Available
<1>5. JoblessHoldsNothing'
  BY <1>2 DEF JoblessHoldsNothing, IsManaged, LiveStates
<1>6. UndeliveredIsManaged' /\ IssuesHaveJobNumber'
  BY DEF UndeliveredIsManaged, IssuesHaveJobNumber, IsManaged
<1>7. QED
  BY <1>1, <1>3, <1>4, <1>5, <1>6

\* A request that stays live, or becomes open, with all it holds.
LEMMA StateStep ==
  ASSUME CatalogInvariant, NEW r \in RequestIds,
         InsertDraft(r) \/ Claim(r)
  PROVE  CatalogInvariant'
<1> USE DEF CatalogInvariant
<1>1. PICK state \in RequestStates :
        /\ request[r].state \in LiveStates /\ state \in LiveStates
        /\ request[r].state \in OpenStates => state \in OpenStates
        /\ request' = [request EXCEPT ![r].state = state]
        /\ UNCHANGED <<item, approved, onHand, held, undelivered>>
  BY DEF InsertDraft, Claim, LiveStates, OpenStates, RequestStates
<1>2. CatalogTypeOK'
  BY <1>1 DEF CatalogTypeOK
<1>3. /\ request'[r].state = state
      /\ \A t \in RequestIds :
           /\ request'[t].item = request[t].item /\ request'[t].job = request[t].job
           /\ t # r => request'[t] = request[t]
  BY <1>1 DEF CatalogTypeOK
<1>4. RowsAreSound'
  BY <1>1, <1>3 DEF RowsAreSound, Exists, LiveStates, OpenStates
<1>5. ManagedIsHeld' /\ StrayIsOutOfStock'
  BY <1>1, <1>3 DEF ManagedIsHeld, StrayIsOutOfStock, IsManaged, Available
<1>6. JoblessHoldsNothing'
  BY <1>1, <1>3 DEF JoblessHoldsNothing, IsManaged
<1>7. UndeliveredIsManaged' /\ IssuesHaveJobNumber'
  BY <1>1 DEF UndeliveredIsManaged, IssuesHaveJobNumber, IsManaged
<1>8. QED
  BY <1>2, <1>4, <1>5, <1>6, <1>7

LEMMA SubmitStep ==
  ASSUME CatalogInvariant, NEW r \in RequestIds,
         InsertSubmitted(r) \/ Submit(r)
  PROVE  CatalogInvariant'
<1> USE DEF CatalogInvariant
<1>0. PICK x : x = request[r].item
  OBVIOUS
<1>1. request[r].state \in {"checked", "draft"} /\ SubmitLocked(r)
  BY DEF InsertSubmitted, Submit
<1> USE DEF SubmitLocked
<1>2. CatalogTypeOK'
  BY <1>1 DEF CatalogTypeOK, RequestStates
<1>3. /\ held[r] = {} /\ x \in Items /\ Exists(x)
      /\ held'[r] \subseteq {x}
      /\ held'[r] # {} => Available(x) > 0
      /\ \A t \in RequestIds : t # r => held'[t] = held[t]
  BY <1>0, <1>1 DEF CatalogTypeOK, RowsAreSound, OpenStates
<1>4. /\ request'[r].state = "submitted"
      /\ \A t \in RequestIds :
           /\ request'[t].item = request[t].item /\ request'[t].job = request[t].job
           /\ t # r => request'[t] = request[t]
  BY <1>1 DEF CatalogTypeOK
<1>5. Available(x) > 0 => onHand[x] > 0
  BY <1>3, HoldersAreFinite DEF Available, CatalogTypeOK
<1>6. RowsAreSound'
  BY <1>0, <1>1, <1>3, <1>4 DEF RowsAreSound, Exists, OpenStates
<1>7. \A i \in Items : i # x \/ ~(Available(x) > 0) => Available(i)' >= Available(i)
  <2>1. SUFFICES ASSUME NEW i \in Items, i # x \/ ~(Available(x) > 0)
                 PROVE  Available(i)' >= Available(i)
    OBVIOUS
  <2>2. Holders(held', i) \subseteq Holders(held, i)
    BY <1>3, <2>1 DEF Holders
  <2>3. Cardinality(Holders(held', i)) <= Cardinality(Holders(held, i))
    BY <2>2, NoMoreHolders
  <2>4. QED
    BY <1>1, <2>3, HoldersAreFinite DEF Available, CatalogTypeOK
<1>8. Available(x) > 0 => Available(x)' >= 0
  <2>1. Holders(held', x) \subseteq Holders(held, x) \union {r}
    BY <1>3 DEF Holders
  <2>2. Cardinality(Holders(held', x)) <= Cardinality(Holders(held, x)) + 1
    BY <2>1, OneMoreHolder
  <2>3. QED
    BY <1>1, <1>3, <2>2, HoldersAreFinite DEF Available, CatalogTypeOK
<1>10. ManagedIsHeld'
  <2>1. SUFFICES ASSUME NEW t \in RequestIds, NEW i \in held'[t], IsManaged(request[t].item)
                 PROVE  IsManaged(i) /\ Available(i)' >= 0
    BY <1>1, <1>4 DEF ManagedIsHeld, IsManaged
  <2>2. i \in Items /\ onHand[i] \in Nat
    BY <1>2, <2>1 DEF CatalogTypeOK
  <2>3. Available(i)' \in Int /\ Available(i) \in Int
    BY <1>1, <2>2, HoldersAreFinite DEF Available
  <2>4. CASE t = r
    <3>1. i = x /\ Available(x) > 0
      BY <1>3, <2>1, <2>4
    <3>2. QED
      BY <1>0, <1>8, <2>1, <2>4, <3>1
  <2>5. CASE t # r
    <3>1. IsManaged(i) /\ Available(i) >= 0
      BY <1>3, <2>1, <2>5 DEF ManagedIsHeld
    <3>2. CASE i = x /\ Available(x) > 0
      BY <1>8, <3>1, <3>2
    <3>3. CASE i # x \/ ~(Available(x) > 0)
      BY <1>7, <2>2, <2>3, <3>1, <3>3
    <3>4. QED
      BY <3>2, <3>3
  <2>6. QED
    BY <2>4, <2>5
<1>11. StrayIsOutOfStock'
  BY <1>0, <1>1, <1>3, <1>4 DEF StrayIsOutOfStock, IsManaged
<1>12. JoblessHoldsNothing'
  <2>1. SUFFICES ASSUME NEW u \in RequestIds, request'[u].state \in LiveStates,
                        IsManaged(request[u].item), ~request[u].job
                 PROVE  /\ onHand[request[u].item] = 0
                        /\ \A t \in RequestIds :
                             request[t].item = request[u].item => held'[t] = {}
    BY <1>1, <1>4 DEF JoblessHoldsNothing, IsManaged
  <2>2. request[u].state \in LiveStates
    BY <1>1, <1>4, <2>1 DEF LiveStates
  <2>3. /\ onHand[request[u].item] = 0
        /\ \A t \in RequestIds : request[t].item = request[u].item => held[t] = {}
    BY <2>1, <2>2 DEF JoblessHoldsNothing
  <2>4. x = request[u].item => held'[r] = {}
    BY <1>0, <1>3, <1>5, <2>3
  <2>5. QED
    BY <1>0, <1>3, <2>3, <2>4
<1>13. UndeliveredIsManaged' /\ IssuesHaveJobNumber'
  BY <1>1 DEF UndeliveredIsManaged, IssuesHaveJobNumber, IsManaged
<1>14. QED
  BY <1>2, <1>6, <1>10, <1>11, <1>12, <1>13

LEMMA ReallocateStep ==
  ASSUME CatalogInvariant, NEW r \in RequestIds, NEW t \in RequestIds,
         NEW i \in Items, Reallocate(r, t, i)
  PROVE  CatalogInvariant'
<1> USE DEF CatalogInvariant, Reallocate
<1>1. CatalogTypeOK'
  BY DEF CatalogTypeOK
<1>2. /\ held'[r] = held[r] \ {i} /\ held'[t] = held[t] \union {i}
      /\ \A u \in RequestIds : u # r /\ u # t => held'[u] = held[u]
  BY DEF CatalogTypeOK
<1>3. \A u \in RequestIds : held'[u] # {} =>
        \E v \in RequestIds :
          /\ request[v].item = request[u].item
          /\ held[v] # {}
  BY <1>2
<1>4. \A u \in RequestIds : \A j \in held'[u] :
        \E v \in RequestIds : request[v].item = request[u].item /\ j \in held[v]
  BY <1>2
<1>5. \A j \in Items : Available(j)' >= Available(j)
  <2>1. SUFFICES ASSUME NEW j \in Items PROVE Available(j)' >= Available(j)
    OBVIOUS
  <2>2. CASE j = i
    <3>1. /\ r \in Holders(held, j)
          /\ Holders(held', j) \subseteq (Holders(held, j) \ {r}) \union {t}
      BY <1>2, <2>2 DEF Holders
    <3>2. Cardinality(Holders(held', j)) <= Cardinality(Holders(held, j))
      BY <3>1, HolderReplaced
    <3>3. QED
      BY <3>2, HoldersAreFinite DEF Available, CatalogTypeOK
  <2>3. CASE j # i
    <3>1. Holders(held', j) \subseteq Holders(held, j)
      BY <1>2, <2>3 DEF Holders
    <3>2. Cardinality(Holders(held', j)) <= Cardinality(Holders(held, j))
      BY <3>1, NoMoreHolders
    <3>3. QED
      BY <3>2, HoldersAreFinite DEF Available, CatalogTypeOK
  <2>4. QED
    BY <2>2, <2>3
<1>6. RowsAreSound'
  <2>1. request[r].state \in OpenStates /\ request[t].state \in OpenStates
    BY DEF OpenStates
  <2>2. \A u \in RequestIds : held'[u] # {} => request[u].state \in OpenStates
    BY <1>2, <2>1 DEF RowsAreSound
  <2>3. \A u \in RequestIds : \A j \in held'[u] : Exists(j)
    BY <1>4 DEF RowsAreSound
  <2>4. QED
    BY <2>2, <2>3 DEF RowsAreSound, Exists
<1>7. ManagedIsHeld'
  <2>1. SUFFICES ASSUME NEW u \in RequestIds, NEW j \in held'[u], IsManaged(request[u].item)
                 PROVE  IsManaged(j) /\ Available(j)' >= 0
    BY DEF ManagedIsHeld, IsManaged
  <2>2. IsManaged(j) /\ Available(j) >= 0
    BY <1>4, <2>1 DEF ManagedIsHeld
  <2>3. j \in Items /\ onHand[j] \in Nat
    BY <1>1, <2>1 DEF CatalogTypeOK
  <2>4. Available(j) \in Int /\ Available(j)' \in Int
    BY <2>3, HoldersAreFinite DEF Available
  <2>5. QED
    BY <1>5, <2>2, <2>3, <2>4
<1>8. StrayIsOutOfStock'
  BY <1>4 DEF StrayIsOutOfStock, IsManaged
<1>9. JoblessHoldsNothing'
  <2>1. SUFFICES ASSUME NEW u \in RequestIds, request[u].state \in LiveStates,
                        IsManaged(request[u].item), ~request[u].job
                 PROVE  /\ onHand[request[u].item] = 0
                        /\ \A v \in RequestIds :
                             request[v].item = request[u].item => held'[v] = {}
    BY DEF JoblessHoldsNothing, IsManaged
  <2>2. /\ onHand[request[u].item] = 0
        /\ \A v \in RequestIds : request[v].item = request[u].item => held[v] = {}
    BY <2>1 DEF JoblessHoldsNothing
  <2>3. QED
    BY <1>3, <2>2
<1>10. UndeliveredIsManaged' /\ IssuesHaveJobNumber'
  BY DEF UndeliveredIsManaged, IssuesHaveJobNumber, IsManaged
<1>11. QED
  BY <1>1, <1>6, <1>7, <1>8, <1>9, <1>10

LEMMA SubstituteStep ==
  ASSUME CatalogInvariant, NEW r \in RequestIds, NEW i \in Items,
         NEW k \in Items, Substitute(r, i, k)
  PROVE  CatalogInvariant'
<1> USE DEF CatalogInvariant, Substitute
<1>1. CatalogTypeOK'
  BY DEF CatalogTypeOK
<1>2. /\ held'[r] = (held[r] \ {i}) \union {k}
      /\ \A u \in RequestIds : u # r => held'[u] = held[u]
      /\ held[r] # {}
  BY DEF CatalogTypeOK
<1>3. /\ item[k].path = item[request[r].item].path
      /\ request[r].state = "claimed"
  BY DEF MaySubstitute
<1>4. \A j \in Items : j # k => Available(j)' >= Available(j)
  <2>1. SUFFICES ASSUME NEW j \in Items, j # k PROVE Available(j)' >= Available(j)
    OBVIOUS
  <2>2. Holders(held', j) \subseteq Holders(held, j)
    BY <1>2, <2>1 DEF Holders
  <2>3. Cardinality(Holders(held', j)) <= Cardinality(Holders(held, j))
    BY <2>2, NoMoreHolders
  <2>4. QED
    BY <2>3, HoldersAreFinite DEF Available, CatalogTypeOK
<1>5. Available(k)' >= 0
  <2>1. Holders(held', k) \subseteq Holders(held, k) \union {r}
    BY <1>2 DEF Holders
  <2>2. Cardinality(Holders(held', k)) <= Cardinality(Holders(held, k)) + 1
    BY <2>1, OneMoreHolder
  <2>3. QED
    BY <2>2, HoldersAreFinite DEF Available, CatalogTypeOK
<1>6. onHand[k] > 0
  BY HoldersAreFinite DEF Available, CatalogTypeOK
<1>7. RowsAreSound'
  BY <1>2, <1>3 DEF RowsAreSound, Exists, OpenStates
<1>8. ManagedIsHeld'
  <2>1. SUFFICES ASSUME NEW u \in RequestIds, NEW j \in held'[u], IsManaged(request[u].item)
                 PROVE  IsManaged(j) /\ Available(j)' >= 0
    BY DEF ManagedIsHeld, IsManaged
  <2>2. j \in Items /\ onHand[j] \in Nat
    BY <1>1, <2>1 DEF CatalogTypeOK
  <2>3. Available(j) \in Int /\ Available(j)' \in Int
    BY <2>2, HoldersAreFinite DEF Available
  <2>4. CASE j = k
    <3>1. IsManaged(j)
      BY <1>2, <1>3, <2>1, <2>4 DEF ManagedIsHeld, IsManaged
    <3>2. QED
      BY <1>5, <2>4, <3>1
  <2>5. CASE j # k
    <3>1. IsManaged(j) /\ Available(j) >= 0
      BY <1>2, <2>1, <2>5 DEF ManagedIsHeld
    <3>2. QED
      BY <1>4, <2>2, <2>3, <2>5, <3>1
  <2>6. QED
    BY <2>4, <2>5
<1>9. StrayIsOutOfStock'
  BY <1>2, <1>3 DEF StrayIsOutOfStock, IsManaged
<1>10. JoblessHoldsNothing'
  BY <1>2 DEF JoblessHoldsNothing, IsManaged
<1>11. UndeliveredIsManaged' /\ IssuesHaveJobNumber'
  BY DEF UndeliveredIsManaged, IssuesHaveJobNumber, IsManaged
<1>12. QED
  BY <1>1, <1>7, <1>8, <1>9, <1>10, <1>11

LEMMA CancelStep ==
  ASSUME CatalogInvariant, NEW r \in RequestIds, Cancel(r)
  PROVE  CatalogInvariant'
<1> USE DEF CatalogInvariant, Cancel
<1>1. CatalogTypeOK'
  BY DEF CatalogTypeOK, RequestStates
<1>2. /\ \A u \in RequestIds : held'[u] \subseteq held[u]
      /\ held'[r] = {}
      /\ request'[r].state = "cancelled"
      /\ \A u \in RequestIds :
           /\ request'[u].item = request[u].item /\ request'[u].job = request[u].job
           /\ u # r => request'[u] = request[u]
  BY DEF CatalogTypeOK
<1>3. \A j \in Items : Available(j)' >= Available(j)
  <2>1. SUFFICES ASSUME NEW j \in Items PROVE Available(j)' >= Available(j)
    OBVIOUS
  <2>2. Holders(held', j) \subseteq Holders(held, j)
    BY <1>2 DEF Holders
  <2>3. Cardinality(Holders(held', j)) <= Cardinality(Holders(held, j))
    BY <2>2, NoMoreHolders
  <2>4. QED
    BY <2>3, HoldersAreFinite DEF Available, CatalogTypeOK
<1>4. RowsAreSound'
  BY <1>2 DEF RowsAreSound, Exists, OpenStates
<1>5. ManagedIsHeld'
  <2>1. SUFFICES ASSUME NEW u \in RequestIds, NEW j \in held'[u], IsManaged(request[u].item)
                 PROVE  IsManaged(j) /\ Available(j)' >= 0
    BY <1>2 DEF ManagedIsHeld, IsManaged
  <2>2. IsManaged(j) /\ Available(j) >= 0
    BY <1>2, <2>1 DEF ManagedIsHeld
  <2>3. j \in Items /\ onHand[j] \in Nat
    BY <1>1, <2>1 DEF CatalogTypeOK
  <2>4. Available(j) \in Int /\ Available(j)' \in Int
    BY <2>3, HoldersAreFinite DEF Available
  <2>5. QED
    BY <1>3, <2>2, <2>3, <2>4
<1>6. StrayIsOutOfStock'
  BY <1>2 DEF StrayIsOutOfStock, IsManaged
<1>7. JoblessHoldsNothing'
  <2>1. \A u \in RequestIds :
          request'[u].state \in LiveStates => request[u].state \in LiveStates
    BY <1>2 DEF LiveStates, OpenStates
  <2>2. QED
    BY <1>2, <2>1 DEF JoblessHoldsNothing, IsManaged
<1>8. UndeliveredIsManaged' /\ IssuesHaveJobNumber'
  BY DEF UndeliveredIsManaged, IssuesHaveJobNumber, IsManaged
<1>9. QED
  BY <1>1, <1>4, <1>5, <1>6, <1>7, <1>8

\* A hand-off at which each issued unit is one the request held.
LEMMA HandoffStep ==
  ASSUME CatalogInvariant, NEW r \in RequestIds, Handoff(r)
  PROVE  CatalogInvariant'
<1> USE DEF CatalogInvariant, HandOut, CanIssue
<1> PICK issued \in SUBSET held[r] :
      \E left \in SUBSET (held[r] \ issued), state \in {"partially_fulfilled", "completed"} :
        HandOut(r, issued, left, state)
  BY DEF Handoff
<1> PICK left \in SUBSET (held[r] \ issued), state \in {"partially_fulfilled", "completed"} :
      HandOut(r, issued, left, state)
  OBVIOUS
<1> issued \in SUBSET Items /\ left \in SUBSET Items
  BY DEF CatalogTypeOK
<1>1. CatalogTypeOK'
  <2>1. \A i \in issued : onHand[i] - 1 \in 0..MaxOnHand
    BY DEF CatalogTypeOK
  <2>2. onHand' \in [Items -> 0..MaxOnHand]
    BY <2>1 DEF CatalogTypeOK
  <2>3. request' \in [RequestIds -> [state : RequestStates, item : Items, job : BOOLEAN]]
    BY DEF CatalogTypeOK, RequestStates
  <2>4. held' \in [RequestIds -> SUBSET Items]
    BY DEF CatalogTypeOK
  <2>5. undelivered' \subseteq Items \X BOOLEAN
    BY DEF CatalogTypeOK
  <2>6. QED
    BY <2>2, <2>3, <2>4, <2>5 DEF CatalogTypeOK
<1>2. /\ \A u \in RequestIds : held'[u] \subseteq held[u] /\ (u # r => held'[u] = held[u])
      /\ held'[r] \subseteq held[r] \ issued
      /\ held'[r] # {} => state = "partially_fulfilled"
      /\ request'[r].state = state
      /\ \A u \in RequestIds :
           /\ request'[u].item = request[u].item /\ request'[u].job = request[u].job
           /\ u # r => request'[u] = request[u]
  BY DEF CatalogTypeOK
<1>3. \A j \in Items : onHand'[j] = IF j \in issued THEN onHand[j] - 1 ELSE onHand[j]
  OBVIOUS
<1>4. \A j \in Items : Available(j)' >= Available(j)
  <2>1. SUFFICES ASSUME NEW j \in Items PROVE Available(j)' >= Available(j)
    OBVIOUS
  <2>2. onHand[j] \in Nat
    BY DEF CatalogTypeOK
  <2>3. CASE j \in issued
    <3>1. /\ r \in Holders(held, j)
          /\ Holders(held', j) \subseteq Holders(held, j) \ {r}
      BY <1>2, <2>3 DEF Holders
    <3>2. Cardinality(Holders(held', j)) <= Cardinality(Holders(held, j)) - 1
      BY <3>1, OneHolderLess
    <3>3. QED
      BY <1>3, <2>2, <2>3, <3>2, HoldersAreFinite DEF Available
  <2>4. CASE j \notin issued
    <3>1. Holders(held', j) \subseteq Holders(held, j)
      BY <1>2 DEF Holders
    <3>2. Cardinality(Holders(held', j)) <= Cardinality(Holders(held, j))
      BY <3>1, NoMoreHolders
    <3>3. QED
      BY <1>3, <2>2, <2>4, <3>2, HoldersAreFinite DEF Available
  <2>5. QED
    BY <2>3, <2>4
<1>5. RowsAreSound'
  BY <1>2 DEF RowsAreSound, Exists, OpenStates
<1>6. ManagedIsHeld'
  <2>1. SUFFICES ASSUME NEW u \in RequestIds, NEW j \in held'[u], IsManaged(request[u].item)
                 PROVE  IsManaged(j) /\ Available(j)' >= 0
    BY <1>2 DEF ManagedIsHeld, IsManaged
  <2>2. IsManaged(j) /\ Available(j) >= 0
    BY <1>2, <2>1 DEF ManagedIsHeld
  <2>3. j \in Items /\ onHand[j] \in Nat /\ onHand'[j] \in Nat
    BY <1>1, <2>1 DEF CatalogTypeOK
  <2>4. Available(j) \in Int /\ Available(j)' \in Int
    BY <2>3, HoldersAreFinite DEF Available
  <2>5. QED
    BY <1>4, <2>2, <2>3, <2>4
<1>7. \A j \in issued : IsManaged(j) => IsManaged(request[r].item)
  BY DEF CatalogTypeOK, StrayIsOutOfStock
<1>8. StrayIsOutOfStock'
  <2>1. SUFFICES ASSUME NEW u \in RequestIds, NEW j \in held'[u],
                        ~IsManaged(request[u].item), IsManaged(j)
                 PROVE  onHand'[j] = 0
    BY <1>2 DEF StrayIsOutOfStock, IsManaged
  <2>2. j \in Items /\ onHand[j] = 0
    BY <1>1, <1>2, <2>1 DEF CatalogTypeOK, StrayIsOutOfStock
  <2>3. j \notin issued
    BY <2>2
  <2>4. QED
    BY <1>3, <2>2, <2>3
<1>9. request[r].state \in LiveStates
  BY DEF LiveStates, OpenStates
<1>10. JoblessHoldsNothing'
  <2>1. SUFFICES ASSUME NEW u \in RequestIds, request'[u].state \in LiveStates,
                        IsManaged(request[u].item), ~request[u].job
                 PROVE  /\ onHand'[request[u].item] = 0
                        /\ \A v \in RequestIds :
                             request[v].item = request[u].item => held'[v] = {}
    BY <1>2 DEF JoblessHoldsNothing, IsManaged
  <2>2. request[u].state \in LiveStates /\ request[u].item \in Items
    BY <1>2, <1>9, <2>1 DEF CatalogTypeOK
  <2>3. /\ onHand[request[u].item] = 0
        /\ \A v \in RequestIds : request[v].item = request[u].item => held[v] = {}
    BY <2>1, <2>2 DEF JoblessHoldsNothing
  <2>4. request[u].item \notin issued
    BY <2>3
  <2>5. QED
    BY <1>2, <1>3, <2>2, <2>3, <2>4
<1>11. \A j \in issued : IsManaged(j) => request[r].job
  BY <1>7, <1>9 DEF JoblessHoldsNothing
<1>12. UndeliveredIsManaged'
  BY DEF UndeliveredIsManaged, IsManaged
<1>13. IssuesHaveJobNumber'
  BY <1>11 DEF IssuesHaveJobNumber, IsManaged
<1>14. QED
  BY <1>1, <1>5, <1>6, <1>8, <1>10, <1>12, <1>13

-----------------------------------------------------------------------------
(***************************************************************************)
(* Stock and delivery                                                      *)
(***************************************************************************)
LEMMA StockStep ==
  ASSUME CatalogInvariant, NEW i \in Items, Receive(i) \/ TakeOut(i)
  PROVE  CatalogInvariant'
<1> USE DEF CatalogInvariant
<1>1. /\ IsLocal(i)
      /\ UNCHANGED <<item, approved, request, held, undelivered>>
      /\ \A j \in Items : j # i => onHand'[j] = onHand[j]
  BY DEF CatalogTypeOK, Receive, TakeOut
<1>2. \A j \in Items : IsManaged(j) => onHand'[j] = onHand[j]
  BY <1>1 DEF IsLocal, IsManaged
<1>3. CatalogTypeOK'
  <2>1. onHand' \in [Items -> 0..MaxOnHand]
    BY DEF CatalogTypeOK, Receive, TakeOut
  <2>2. QED
    BY <1>1, <2>1 DEF CatalogTypeOK
<1>4. RowsAreSound'
  BY <1>1 DEF RowsAreSound, Exists
<1>5. ManagedIsHeld' /\ StrayIsOutOfStock'
  BY <1>1, <1>2 DEF CatalogTypeOK, ManagedIsHeld, StrayIsOutOfStock, IsManaged, Available
<1>6. JoblessHoldsNothing'
  BY <1>1, <1>2 DEF CatalogTypeOK, JoblessHoldsNothing, IsManaged
<1>7. UndeliveredIsManaged' /\ IssuesHaveJobNumber'
  BY <1>1 DEF UndeliveredIsManaged, IssuesHaveJobNumber, IsManaged
<1>8. QED
  BY <1>3, <1>4, <1>5, <1>6, <1>7

LEMMA DeliverStep ==
  ASSUME CatalogInvariant, NEW e \in undelivered, Deliver(e)
  PROVE  CatalogInvariant'
<1> USE DEF CatalogInvariant, Deliver
<1>1. CatalogTypeOK' /\ RowsAreSound'
  BY DEF CatalogTypeOK, RowsAreSound, Exists
<1>2. ManagedIsHeld' /\ StrayIsOutOfStock' /\ JoblessHoldsNothing'
  BY DEF ManagedIsHeld, StrayIsOutOfStock, JoblessHoldsNothing, IsManaged, Available
<1>3. UndeliveredIsManaged' /\ IssuesHaveJobNumber'
  BY DEF UndeliveredIsManaged, IssuesHaveJobNumber, IsManaged
<1>4. QED
  BY <1>1, <1>2, <1>3

LEMMA StutterStep == CatalogInvariant /\ UNCHANGED catalogVars => CatalogInvariant'
<1> SUFFICES ASSUME CatalogInvariant, UNCHANGED catalogVars PROVE CatalogInvariant'
  OBVIOUS
<1> USE DEF CatalogInvariant, catalogVars
<1>1. CatalogTypeOK' /\ RowsAreSound'
  BY DEF CatalogTypeOK, RowsAreSound, Exists
<1>2. ManagedIsHeld' /\ StrayIsOutOfStock' /\ JoblessHoldsNothing'
  BY DEF ManagedIsHeld, StrayIsOutOfStock, JoblessHoldsNothing, IsManaged, Available
<1>3. UndeliveredIsManaged' /\ IssuesHaveJobNumber'
  BY DEF UndeliveredIsManaged, IssuesHaveJobNumber, IsManaged
<1>4. QED
  BY <1>1, <1>2, <1>3

-----------------------------------------------------------------------------
(***************************************************************************)
(* The theorems                                                            *)
(***************************************************************************)
LEMMA NextInvariant == CatalogInvariant /\ [CatalogNext]_catalogVars => CatalogInvariant'
<1> SUFFICES ASSUME CatalogInvariant, [CatalogNext]_catalogVars PROVE CatalogInvariant'
  OBVIOUS
<1>1. CASE UNCHANGED catalogVars
  BY <1>1, StutterStep
<1>2. ASSUME NEW i \in Items, Receive(i) \/ TakeOut(i)
      PROVE  CatalogInvariant'
  BY <1>2, StockStep
<1>3. ASSUME NEW i \in Items, NEW p \in Paths,
             CreateItem(i, p) \/ \E active \in BOOLEAN : UpdateItem(i, p, active)
      PROVE  CatalogInvariant'
  BY <1>3, CreateItemStep, UpdateItemStep
<1>4. ASSUME \/ \E i, k \in Items : ApproveAlternate(i, k)
             \/ \E a \in approved : RevokeAlternate(a)
      PROVE  CatalogInvariant'
  BY <1>4, AlternateStep
<1>5. ASSUME NEW e \in undelivered, Deliver(e)
      PROVE  CatalogInvariant'
  BY <1>5, DeliverStep
<1>6. ASSUME NEW r \in RequestIds,
             \/ InsertDraft(r) \/ InsertSubmitted(r) \/ Submit(r) \/ Claim(r) \/ Cancel(r)
      PROVE  CatalogInvariant'
  BY <1>6, StateStep, SubmitStep, CancelStep
<1>7. ASSUME NEW r \in RequestIds, NEW i \in Items, NEW job \in BOOLEAN, CheckItems(r, i, job)
      PROVE  CatalogInvariant'
  BY <1>7, CheckItemsStep
<1>8. ASSUME NEW r \in RequestIds, NEW t \in RequestIds, NEW i \in Items, Reallocate(r, t, i)
      PROVE  CatalogInvariant'
  BY <1>8, ReallocateStep
<1>9. ASSUME NEW r \in RequestIds, NEW i \in Items, NEW k \in Items, Substitute(r, i, k)
      PROVE  CatalogInvariant'
  BY <1>9, SubstituteStep
<1>10. ASSUME NEW r \in RequestIds, Handoff(r)
       PROVE  CatalogInvariant'
  BY <1>10, HandoffStep
<1>11. QED
  BY <1>1, <1>2, <1>3, <1>4, <1>5, <1>6, <1>7, <1>8, <1>9, <1>10 DEF CatalogNext

\* The inductive invariant holds in every reachable state of the catalogue.
THEOREM CatalogInvariance == CatalogSpec => []CatalogInvariant
<1>1. QED
  BY InitInvariant, NextInvariant, PTL DEF CatalogSpec

\* update_item's look at the outbox is enough: what is still to be posted to
\* Spectrum is of an item Spectrum manages.
THEOREM OutboxIsManaged == CatalogSpec => []UndeliveredIsManaged
<1>1. CatalogInvariant => UndeliveredIsManaged
  BY DEF CatalogInvariant
<1>2. QED
  BY <1>1, CatalogInvariance, PTL

\* No issue without a job number is ever queued, although create checks it on
\* a stale item and a submission not at all.
THEOREM QueuedIssuesHaveJob == CatalogSpec => []IssuesHaveJobNumber
<1>1. CatalogInvariant => IssuesHaveJobNumber
  BY DEF CatalogInvariant
<1>2. QED
  BY <1>1, CatalogInvariance, PTL

\* Whatever a hand-off can issue for a line, a substitute included, has the
\* accounting path of the line's item.
THEOREM IssuesFollowTheLine == CatalogSpec => []IssuableSharesPath
<1>1. CatalogInvariant => IssuableSharesPath
  <2>1. SUFFICES ASSUME CatalogInvariant, NEW r \in RequestIds, NEW i \in held[r], onHand[i] > 0
                 PROVE  item[i].path = item[request[r].item].path
    BY DEF IssuableSharesPath
  <2>2. i \in Items /\ Exists(i) /\ Exists(request[r].item) /\ request[r].item \in Items
    BY <2>1 DEF CatalogInvariant, CatalogTypeOK, RowsAreSound, OpenStates
  <2>3. IsManaged(i) <=> IsManaged(request[r].item)
    BY <2>1 DEF CatalogInvariant, ManagedIsHeld, StrayIsOutOfStock
  <2>4. \A j \in Items : Exists(j) /\ ~IsManaged(j) => item[j].path = "local_general_use"
    BY <2>1 DEF CatalogInvariant, CatalogTypeOK, Exists, IsManaged, Paths
  <2>5. QED
    BY <2>2, <2>3, <2>4 DEF IsManaged
<1>2. QED
  BY <1>1, CatalogInvariance, PTL
=============================================================================

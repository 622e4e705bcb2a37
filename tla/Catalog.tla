------------------------------ MODULE Catalog ------------------------------
(***************************************************************************)
(* CatalogService: items, their accounting path and their approved         *)
(* alternates, against the requests and the stock that depend on them.     *)
(*                                                                         *)
(* update_item locks the item row.  Whoever writes a row that names the    *)
(* item waits for that lock (the foreign key takes FOR KEY SHARE), and     *)
(* InventoryService locks the item with the position, so each of these is  *)
(* one action.  create of RequestService is two: it reads the items        *)
(* without a lock and inserts the request, which may have had to wait for  *)
(* an update_item, on what it read before.                                 *)
(*                                                                         *)
(* A request is reduced to one line, and an allocation to one unit of an   *)
(* item; what a hand-off leaves open is nondeterministic.  Requests has    *)
(* the quantities.  Both adapters post nothing but issues (adapter.py:47   *)
(* and 73), so stock of Spectrum-managed items is only issued.             *)
(***************************************************************************)
EXTENDS Integers, FiniteSets

CONSTANTS
  Items,          \* catalogue items that may exist
  SpectrumItems,  \* items that exist at first, by accounting path
  LocalItems,
  RequestIds,     \* material requests
  MaxOnHand       \* bound: stock of an item

ASSUME CatalogAssumption ==
  /\ SpectrumItems \union LocalItems \subseteq Items
  /\ SpectrumItems \intersect LocalItems = {}
  /\ Items # {}
  /\ IsFiniteSet(RequestIds)
  /\ MaxOnHand \in Nat

VARIABLES
  item,       \* Item rows
  approved,   \* ApprovedAlternate rows: (item, alternate) pairs
  onHand,     \* stock of each item, summed over its positions
  request,    \* MaterialRequest rows with their line
  held,       \* items the open allocations of a request stand at
  undelivered \* issues in the outbox that have not succeeded: (item, has job number)

catalogVars == <<item, approved, onHand, request, held, undelivered>>

Paths == {"spectrum_managed", "local_general_use"}

\* "claimed" stands for claimed, in_progress and ready; "checked" for a
\* request whose items create has read and which nobody else can see yet.
RequestStates ==
  { "absent", "checked", "draft", "submitted", "claimed",
    "partially_fulfilled", "completed", "cancelled" }

\* OPEN_REQUEST_STATES
OpenStates == {"submitted", "claimed", "partially_fulfilled"}

Exists(i) == item[i].path # "none"
IsLocal(i) == item[i].path = "local_general_use"
IsManaged(i) == item[i].path = "spectrum_managed"

HasOpenDemand(i) ==
  \E r \in RequestIds : request[r].state \in OpenStates /\ request[r].item = i

\* The requests that hold a unit of the item, given who holds what.
Holders(h, i) == {r \in RequestIds : i \in h[r]}

\* Units of the item that no allocation holds.
Available(i) == onHand[i] - Cardinality(Holders(held, i))

-----------------------------------------------------------------------------
CreateItem(i, p) ==
  /\ ~Exists(i)
  /\ item' = [item EXCEPT ![i] = [path |-> p, active |-> TRUE]]
  /\ UNCHANGED <<approved, onHand, request, held, undelivered>>

\* Mistake: stock on hand is not looked at.
MayChangePathStocked(i) ==
  ~HasOpenDemand(i) /\ \A e \in undelivered : e[1] # i

\* _assert_accounting_path_change_allowed
MayChangePath(i) ==
  /\ ~HasOpenDemand(i)
  /\ onHand[i] = 0
  /\ \A e \in undelivered : e[1] # i

\* _assert_item_can_be_hidden
MayHide(i) == ~HasOpenDemand(i) /\ onHand[i] = 0

UpdateItem(i, p, active) ==
  /\ Exists(i)
  /\ item[i].path # p => MayChangePath(i)
  /\ item[i].active /\ ~active => MayHide(i)
  /\ item' = [item EXCEPT ![i] = [path |-> p, active |-> active]]
  /\ UNCHANGED <<approved, onHand, request, held, undelivered>>

ApproveAlternate(i, k) ==
  /\ i # k
  /\ item[i].active /\ item[k].active
  /\ item[i].path = item[k].path
  /\ <<i, k>> \notin approved
  /\ approved' = approved \union {<<i, k>>}
  /\ UNCHANGED <<item, onHand, request, held, undelivered>>

RevokeAlternate(a) ==
  /\ a \in approved
  /\ approved' = approved \ {a}
  /\ UNCHANGED <<item, onHand, request, held, undelivered>>

-----------------------------------------------------------------------------
\* The first part of create: the items of the payload are active, and a
\* Spectrum-managed one needs a job number.
CheckItems(r, i, job) ==
  /\ request[r].state = "absent"
  /\ item[i].active
  /\ IsManaged(i) => job
  /\ request' = [request EXCEPT ![r] = [state |-> "checked", item |-> i, job |-> job]]
  /\ UNCHANGED <<item, approved, onHand, held, undelivered>>

\* _submit_locked: a unit is allocated when one is available.
SubmitLocked(r) ==
  /\ request' = [request EXCEPT ![r].state = "submitted"]
  /\ held' = [held EXCEPT ![r] =
                {i \in {request[r].item} : Available(i) > 0}]
  /\ UNCHANGED <<item, approved, onHand, undelivered>>

\* The rest of create, to its commit.
InsertDraft(r) ==
  /\ request[r].state = "checked"
  /\ request' = [request EXCEPT ![r].state = "draft"]
  /\ UNCHANGED <<item, approved, onHand, held, undelivered>>

InsertSubmitted(r) == request[r].state = "checked" /\ SubmitLocked(r)

Submit(r) == request[r].state = "draft" /\ SubmitLocked(r)

Claim(r) ==
  /\ request[r].state \in {"submitted", "partially_fulfilled"}
  /\ request' = [request EXCEPT ![r].state = "claimed"]
  /\ UNCHANGED <<item, approved, onHand, held, undelivered>>

Reallocate(r, t, i) ==
  /\ r # t
  /\ {request[r].state, request[t].state}
       \subseteq {"submitted", "partially_fulfilled"}
  /\ request[r].item = request[t].item
  /\ i \in held[r] \ held[t]
  /\ held' = [held EXCEPT ![r] = @ \ {i}, ![t] = @ \union {i}]
  /\ UNCHANGED <<item, approved, onHand, request, undelivered>>

\* Mistake: the paths are compared when the alternate is approved only.
MaySubstituteApproved(r, k) == item[k].active /\ <<request[r].item, k>> \in approved

MaySubstitute(r, k) ==
  /\ item[k].active
  /\ <<request[r].item, k>> \in approved
  /\ item[k].path = item[request[r].item].path

\* The allocation at i goes over to k.
Substitute(r, i, k) ==
  /\ request[r].state = "claimed"
  /\ i \in held[r] /\ k \notin held[r]
  /\ MaySubstitute(r, k)
  /\ Available(k) > 0
  /\ held' = [held EXCEPT ![r] = (@ \ {i}) \union {k}]
  /\ UNCHANGED <<item, approved, onHand, request, undelivered>>

CanIssue(issued) == \A i \in issued : onHand[i] > 0

\* What was picked is issued, which may be nothing; an issue of a
\* Spectrum-managed item is queued with the job number of the request.  What
\* was neither picked nor reported short stays allocated.
HandOut(r, issued, left, state) ==
  /\ request[r].state = "claimed"
  /\ state = "completed" => issued # {} /\ left = {}
  /\ CanIssue(issued)
  /\ onHand' = [i \in Items |-> IF i \in issued THEN onHand[i] - 1 ELSE onHand[i]]
  /\ held' = [held EXCEPT ![r] = left]
  /\ undelivered' =
       undelivered \union {<<i, request[r].job>> : i \in {j \in issued : IsManaged(j)}}
  /\ request' = [request EXCEPT ![r].state = state]
  /\ UNCHANGED <<item, approved>>

Handoff(r) ==
  \E issued \in SUBSET held[r] :
    \E left \in SUBSET (held[r] \ issued), state \in {"partially_fulfilled", "completed"} :
      HandOut(r, issued, left, state)

Cancel(r) ==
  /\ request[r].state \in OpenStates \union {"draft"}
  /\ request' = [request EXCEPT ![r].state = "cancelled"]
  /\ held' = [held EXCEPT ![r] = {}]
  /\ UNCHANGED <<item, approved, onHand, undelivered>>

-----------------------------------------------------------------------------
\* Receipts and returns, which do not look at is_active.
Receive(i) ==
  /\ IsLocal(i)
  /\ onHand[i] < MaxOnHand
  /\ onHand' = [onHand EXCEPT ![i] = @ + 1]
  /\ UNCHANGED <<item, approved, request, held, undelivered>>

\* Withdrawals and counts, which do not look at allocations.
TakeOut(i) ==
  /\ IsLocal(i)
  /\ onHand[i] > 0
  /\ onHand' = [onHand EXCEPT ![i] = @ - 1]
  /\ UNCHANGED <<item, approved, request, held, undelivered>>

\* Spectrum accepts what was queued for the item.
Deliver(e) ==
  /\ e \in undelivered
  /\ undelivered' = undelivered \ {e}
  /\ UNCHANGED <<item, approved, onHand, request, held>>

-----------------------------------------------------------------------------
CatalogInit ==
  /\ item = [i \in Items |->
       [path |-> IF i \in SpectrumItems THEN "spectrum_managed"
                 ELSE IF i \in LocalItems THEN "local_general_use" ELSE "none",
        active |-> i \in SpectrumItems \union LocalItems]]
  /\ approved = {}
  /\ onHand = [i \in Items |-> IF Exists(i) THEN MaxOnHand ELSE 0]
  /\ request = [r \in RequestIds |->
       [state |-> "absent", item |-> CHOOSE i \in Items : TRUE, job |-> FALSE]]
  /\ held = [r \in RequestIds |-> {}]
  /\ undelivered = {}

CatalogNext ==
  \/ \E i \in Items :
       \/ Receive(i) \/ TakeOut(i)
       \/ \E p \in Paths :
            CreateItem(i, p) \/ \E active \in BOOLEAN : UpdateItem(i, p, active)
       \/ \E k \in Items : ApproveAlternate(i, k)
  \/ \E a \in approved : RevokeAlternate(a)
  \/ \E e \in undelivered : Deliver(e)
  \/ \E r \in RequestIds :
       \/ InsertDraft(r) \/ InsertSubmitted(r) \/ Submit(r) \/ Claim(r) \/ Cancel(r)
       \/ Handoff(r)
       \/ \E i \in Items, job \in BOOLEAN : CheckItems(r, i, job)
       \/ \E t \in RequestIds, i \in Items : Reallocate(r, t, i)
       \/ \E i, k \in Items : Substitute(r, i, k)

CatalogSpec == CatalogInit /\ [][CatalogNext]_catalogVars

-----------------------------------------------------------------------------
\* Types of the rows; in particular no stock is issued that is not there.
CatalogTypeOK ==
  /\ item \in [Items -> [path : Paths \union {"none"}, active : BOOLEAN]]
  /\ approved \subseteq Items \X Items
  /\ onHand \in [Items -> 0..MaxOnHand]
  /\ request \in [RequestIds ->
                     [state : RequestStates, item : Items, job : BOOLEAN]]
  /\ held \in [RequestIds -> SUBSET Items]
  /\ undelivered \subseteq Items \X BOOLEAN

\* Whatever is still to be posted to Spectrum is of an item that Spectrum
\* manages, through every change of path: arcitecture_plan.md section 16,
\* local-general-use events never enter the outbox.
UndeliveredIsManaged == \A e \in undelivered : IsManaged(e[1])

\* Every issue queued for Spectrum carries a job number.  The check in create
\* does not give this by itself (see SpectrumLinesHaveJob): it holds because
\* an item changes its path without stock only and Spectrum-managed stock
\* cannot be received.
IssuesHaveJobNumber == \A e \in undelivered : e[2]

\* What a hand-off could issue for a line is accounted for the way the line's
\* item is, substitutes included.
IssuableSharesPath ==
  \A r \in RequestIds : \A i \in held[r] :
    onHand[i] > 0 => item[i].path = item[request[r].item].path

\* requests/service.py:91, "Spectrum-managed request lines require a job
\* number": of a request that is waiting or worked on.
SpectrumLinesHaveJob ==
  \A r \in RequestIds :
    request[r].state \in OpenStates /\ IsManaged(request[r].item) => request[r].job
=============================================================================

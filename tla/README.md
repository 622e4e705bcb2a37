# TLA+ models of the inventory tracker

The program is a warehouse application: a FastAPI backend (`src/backend/app`) over PostgreSQL, a worker
process that delivers issues to the accounting system Spectrum, and a web frontend that can fulfil one
claimed request at a time without a connection. This directory holds TLA+ modules of the parts that
change stock, requests, the messages about them, and the rows the administration keeps; TLC
configurations that check them; and proofs that every safety property and both refinements checked there
hold for every size of the system. Only liveness is left to model checking.

## 1. Inventory of the system

| Part | State it keeps | Operations | Talks to |
|---|---|---|---|
| Request workflow (`modules/requests/service.py`) | `MaterialRequest`, `RequestLine`, `Allocation`, `FulfillmentBatch` rows | create, submit, claim, claim_next, reallocate, substitute, record_pick, handoff, cancel | reads and locks stock positions; a hand-off changes stock, writes the ledger and queues outbox events |
| Inventory (`modules/inventory/service.py`) | `StockPosition`, `InventoryEvent` rows | receive, return, quarantine, release, withdraw, move, adjust | the same positions; asks the Spectrum adapter for its capabilities |
| Outbox worker (`modules/spectrum/worker.py`, `workers/outbox.py`) | `OutboxEvent`, `OutboxAttempt` rows, the batch in memory | claim a batch, process an event; a manager's retry (`spectrum/router.py`) | Spectrum, over an adapter |
| Offline sync (`modules/offline/service.py`) | `OfflineGrant`, `OfflineCommand` rows, the objects of its Session | create_grant, sync, reject_conflict | record_pick and handoff of the request workflow, with `commit=False` |
| Devices (`modules/devices/service.py`) | `Device` rows | enroll, revoke, assert_active | revoke ends the grants of the device |
| Browser queue (`frontend/src/offline`) | IndexedDB grants and commands | queue, send, apply results, discard | the sync endpoint |
| Catalogue (`modules/catalog/service.py`) | `Item`, `ApprovedAlternate` rows; units and conversions, which nothing else reads | create and update items, approve and revoke alternates | looks at requests, stock and the outbox before an item changes its path; requests read items without a lock |
| Stock listing (`inventory/service.py`, `inventory/domain.py`) | none: it sums positions, lines and allocations | list_inventory | raises if the sums of an item do not fit together |
| Reconciliation (`modules/spectrum/reconciliation.py`) | `ReconciliationRun` rows, the events in memory | run | reads the rows of the worker, asks Spectrum event by event |
| Identity (`modules/identity`) | `User`, `RoleAssignment`, `UserSession` rows | login, logout, resolve_session, require_roles, create, update | lets in every call of the other parts |
| Locations (`modules/locations/service.py`) | `Location`, `MapGridCell` rows | create, update | unique constraints decide between concurrent calls |
| QR labels (`modules/qr/service.py`) | `QrToken` rows | create, resolve, revoke | a label names a location, an item or a request |
| Notifications, audit, recipients, units | rows of their own | create, mark as read | nothing reads them to decide anything |

What is hard in it:

* **Two services change the same positions.** Requests reserve stock by allocations; the inventory
  operations look at `on_hand - quarantined` only.
* **Transactions are READ COMMITTED** and lock rows with `SELECT ... FOR UPDATE`. Within one method this
  is enough, because the request row is locked before anything is decided. Across the commits of one
  `sync` call it is not, because SQLAlchemy does not refresh an object the Session already has.
* **`autoflush=False`** (`platform/database/session.py:10`): a query inside a method does not see the
  method's own changes, unless it returns the very objects that were changed.
* **Delivery**: the worker may be killed, an answer of Spectrum may be lost, a retry may come late.
* **Replay**: a device sends its queue until it gets an answer, possibly twice at once.
* **Long histories**: partial hand-offs, reallocations, short picks and cancellations of one request.
* **Check, then write**: logins, changes of accounts, locations and reconciliation reports decide on rows
  they do not lock.

`PROJECT.json` lists every component with its status and every hazard at its line.

## 2. The modules

```
Stock ──┬── Inventory ─────── Warehouse
        │                         │
        └── Requests ─────────────┘
              ├── StockListing
              ├── OfflineSync
              └── RequestsRefinement
                    (Lifecycle, Reservations)

RequestsRefinement ── RequestsProofs ──┐
                      StockListing ────┼── DemandProofs ──┬── StockProofs    (with Warehouse)
                      SumProofs ───────┘                  └── OfflineProofs  (with OfflineSync)

OutboxWorker ── Reconciliation ── OutboxProofs       (meets the others in the rows a hand-off queues)
Catalog ── CatalogProofs                             (sees requests by their line, stock by the item)
Identity ── Locations ── QrLabels ── BackOffice ── BackOfficeProofs
```

The `MC` modules (`MCRequests`, `MCPartial`, `MCWarehouse`, `MCOffline`, `MCCatalog`, `MCBackOffice`) hold the
instances that TLC runs; `Reconciliation` needs none.

* **`Stock`**: the rows all stock-changing transactions share. `stock` is the `StockPosition` table,
  `ledger` the `InventoryEvent` table summed by position and kind, `outbox` the quantity queued for
  Spectrum. Quantities are natural numbers of thousandths, as `Numeric(18,3)` is. One warehouse.
* **`Requests`**: one action per method of `RequestService`. `request`, `line`, `alloc` and `batch` are
  the rows; an allocation row is named by its line, its position and a serial. A method is one
  transaction that locks what it decides on, so it is one action, and a method that raises is none.
  `Submitted` says declaratively what the two nested loops of `_submit_locked` allocate
  (`IsGreedyFill`); `ClaimNext` may return any unclaimed request, because `SKIP LOCKED` passes over
  whatever another transaction holds. `AllConfirmed` reads the confirmations before the pick, as the
  code does with autoflush off.
* **`Inventory`**: the seven inventory operations, each with its ledger row.
* **`Warehouse`**: both services over the same positions.
* **`Lifecycle`, `Reservations`**: two abstract specifications. The first is what a request promises
  to whoever watches it (unsent, waiting, held by one worker, closed); the second partitions every
  position into free, reserved and gone units. **`RequestsRefinement`** maps the workflow to both.
* **`StockListing`**: the summary of each item in `list_inventory`, with the checks of `StockSummary`, as
  functions of the rows of `Requests` at one instant; evaluated under both services.
* **`OutboxWorker`**: `_claim_batch`, the three steps of `_process_event` (read, send, commit), crash,
  retry, and time as two sets: events whose backoff is over (`due`) and events not touched for five
  minutes (`stale`). Spectrum is external: it may post or not and answer or not.
* **`Reconciliation`**: `ReconciliationService.run` beside the worker: the events are read once, then
  compared one by one with what Spectrum has by then.
* **`OfflineSync`**: devices and their enrolment and revocation, grants, the queue on the device, and `sync` step by step: lookup of a
  recorded command without a lock, grant lock and reading of the request, application, commit. `seen`
  is the pair of objects the Session keeps across the commits. The steps of `record_pick` and
  `handoff` are the operators of `Requests`, applied to that object; `Written` is the UPDATE SQLAlchemy
  makes of it (changed columns only). Any pick may be
  refused, since scans and the reason of a shortage are no part of a command here. A call may fail at any point, which also stands for an answer
  that is lost. The commands a call has still to look at and the answers it has collected are sets: the
  sequence numbers order the commands, and the device looks answers up by them.
* **`Catalog`**: `CatalogService`, with requests and stock as far as an item's path and activity depend
  on them: one line per request, an allocation of one unit of an item each, stock per item. `create` is
  two steps, since it reads the items without a lock; `update_item` is one, because every row that names
  the item waits for the lock it holds. In place of the quantities of `Requests`, what a hand-off issues
  (also nothing, after short picks of zero), what stays allocated and whether that completes the request are
  nondeterministic.
* **`Identity`**: accounts with their roles, sessions, and calls. A call is let in by one step
  (`resolve_session`, `require_roles`) and acts in a later one, without looking at its caller again; a
  login verifies the password in one step and inserts the session in another.
* **`Locations`**: two tables, the codes of the locations and their map cells. A call first finds code and
  cell free and whether its location has a map cell, and then writes: the code, and the cell deleted,
  inserted or updated by what it found (`_save_grid_cell`). The unique constraints are conditions of the
  write; an update keeps its location locked from the one step to the other, a create has an id of its own.
* **`QrLabels`**: a scan finds its label, waits for the row lock, and is decided again once it has it.
  The labels are those of locations.
* **`BackOffice`**: the three together, with a step in which any call fails and is rolled back.
* **`RequestsProofs`, `SumProofs`, `DemandProofs`, `StockProofs`, `OfflineProofs`, `OutboxProofs`,
  `CatalogProofs`, `BackOfficeProofs`**: theorems, section 5.

Under each definition that has a plausible mistake, an operator marked `\* Mistake:` stands next to it;
`PROJECT.json` pairs each with the property that catches it, so that every property is known to be able
to fail.

## 3. The runs

| Run | Instance | What it shows |
|---|---|---|
| `requests` | 2 requests of 1 line each, 1 item at 2 positions of 1 unit, a substitute at a third, 2 workers, quantities 1 and 2, versions to 7; 113 thousand states | claims, picked material is held, line totals, version bumps, finality, and both refinements |
| `listing` (violation) | as `requests` | after a substitution the stock listing refuses its own figures |
| `partial` | 2 requests, one of them with 2 lines, all for the item at 1 position of 2 units, 1 worker, versions to 11; 970 thousand states | demand is conserved over partial hand-off, reallocation, second round and cancellation; a submission allocates what there is, and nothing twice; an allocation is issued once |
| `in_progress` (violation) | as `partial`, versions to 6 | the last pick leaves the request `in_progress` |
| `warehouse` | 1 request with a local line that has a substitute and a Spectrum line, 4 positions (2 of the Spectrum item), all inventory operations of quantity 1 as long as stock has changed less than 3 times, no capabilities, versions to 6; 399 thousand states | Spectrum-managed stock is only issued and moved, the ledger explains the stock, issues match allocations and outbox, the figures of the listing fit together and are refused for two known reasons only |
| `over_allocation` (violation) | as `warehouse` | inventory operations take allocated stock |
| `outbox` | 2 events, 1 process, batches of 2, 2 attempts, 2 crashes, 1 retry per event, reconciliation runs at any time; 1 million states | nothing confirmed is sent again, duplicates need a lost answer, attempts are bounded, a report's verdicts `matched`, `reference_mismatch` and `missing_remote` stay true (`delivery_state` may be out of date the moment the worker goes on), everything is settled in the end |
| `offline` | 1 request, 1 grant, 1 device, 2 commands, 2 sync calls at once, versions to 6; 857 thousand states | order without gap or repetition, the device believes what the server did, a revoked device applies nothing more |
| `offline_last_write` (violation) | as `offline`, 1 call | a command is applied over a change the grant does not know |
| `catalog` | a Spectrum-managed item, a local one, one not created yet, 1 unit of each, 2 requests | queued issues carry a job number, substitutes are accounted for like the line |
| `job_number` (violation) | as `catalog` | a request without job number is submitted for a Spectrum-managed item |
| `back_office` | 2 accounts, 2 sessions and 2 calls at a time, 2 locations, 2 codes, 1 map cell, 1 label; 2.6 million states | locations are distinct, the map shows their codes, the last administrator is not lost by one call, sessions end with changes of their account, a revoked label is final |

**Bounds.** `MaxVersion` bounds the number of changes to a request; 6 covers creation, claim, two
picks and the hand-off, 7 whatever might wrongly follow it, 11 a complete second round after a reallocation. `Serials` bounds allocations
of one line at one position; each further one needs a reallocation or substitution, and the first that
is impossible with fewer (a second transfer to the same line) is in `partial`. In `warehouse`, version 6 is
creation, claim, two picks and the hand-off of a request of two lines, or a substitution in place of a pick, and
no inventory call starts after `MaxStockChanges` changes of positions, hand-offs included: three are enough for
a receipt, a quarantine and a withdrawal of the same stock, or for two of them before a hand-off; longer
histories are left to the proofs. `BatchLimit` is 2 with two events, so that
it never leaves an event behind; the proofs hold for every limit. `MaxCommands`, `MaxAttempts`, `MaxRetries`, `MaxCrashes` are small
because each of their cases (the last allowed, the first refused) occurs. With two commands a sync call
never meets a grant that a third command of another call has moved on.
Deadlock checking is off everywhere: each system may stop, when all requests are closed, all versions
used, or everything is settled. In `back_office`, two calls are enough for one to write what the other
has checked, and two accounts for one administrator to change the other; the number of steps is not
bounded there, only what exists at a time. In `catalog`, one unit per item is enough for a second
holder to be refused and for stock to run out, and two requests for one to take what the other lacks;
a Spectrum-managed item is never received, as both adapters refuse it.
Symmetry is used over workers, over lines of one request (which are served in any order), over calls,
sessions, locations and codes, and (in `catalog`) over requests, never with liveness. `Managers` breaks no
symmetry of workers: the workflow only asks whether there is one.

**Fairness** is assumed for the outbox worker only: weak fairness of its four steps (the loop in
`workers/outbox.py` runs until it is told to stop, and `compose.yaml` restarts the container) and of
time passing. Hand-offs, crashes and retries by managers are not fair; crashes are finitely many, since
a worker that is always killed delivers nothing. One process is assumed, as `compose.yaml` has it; with
two, a late commit can overwrite a success, which is listed as a hazard.

## 4. Disagreements found

1. **`requests/service.py:674`**: the confirmations are queried before the pick is flushed. The pick of
   the last allocation does not see itself and leaves the request `in_progress`;
   `tests/modules/requests/test_service.py:170` expects `READY`, and passes because its Session has
   autoflush on. Picking any allocation a second time makes the request ready, but the screens do not
   offer it.
2. **`inventory/service.py:344`** (and 247, 406, 448): inventory operations ignore allocations, while
   `arcitecture_plan.md:514` says physical allocation may not exceed stock. The hand-off of the request fails;
   before it does, the stock listing may be refused as in 5, since the item has less than is allocated.
3. **`offline/service.py:196`**: the version is compared on an object read before the row was locked;
   `arcitecture_plan.md:410` rules out last-write-wins. The version check works again on the next call.
4. **`requests/service.py:76`**: `create` checks the job number against items it read without a lock, and
   a submission does not check again; drafts do not count as open demand (`catalog/service.py:31`). An
   item can become Spectrum-managed in between, although `requests/service.py:91` says such lines require
   a job number. No issue without one follows, see `QueuedIssuesHaveJob` below; this depends on Spectrum
   receipts being refused, and ends when an adapter reports `post_receipt`.
5. **`inventory/service.py:110`**: `list_inventory` sums allocations by the item of the line and stock by
   the item of the position. After a substitution the stock set free can be allocated again; then more is
   allocated for the item than there is of it, `StockSummary` raises ("Allocated quantity cannot exceed
   usable on-hand quantity", `inventory/domain.py:20`), nobody catches it, and the listing fails for every
   item until the substituted line is handed off or cancelled. There is no third reason: a summary is refused
   only for a substituted line or for stock taken as in 2 (`ListingIsCoherent`); where requests alone use the
   stock, only for a substituted line (`RequestsAloneAreListed`).

## 5. What is proved

`RequestsProofs` proves, for any finite sets of lines and positions and any requests, workers, quantities
and bounds allowed by `StockAssumption` and `RequestsAssumption`, and under `Spec` of `Requests`:

* `RequestsInvariant`: `IInv` is an invariant, from which follow
* `RowsTypeCorrect`: types of the stock, request, allocation and batch rows, so that no stock, pick,
  issue or release goes below zero;
* `ClaimsAreCoherent` (`ClaimMatchesState`), `AllocationsAreBounded` (`AllocationWithinQuantity`),
  `PickedMaterialIsHeld` (`PickedIsHeld`), `ReadyRequestsArePicked` (`ReadyMeansPicked`).

None of the last three is inductive by itself: a hand-off may issue what was picked because
picked material is never released while the request lives; that holds because only the unpicked
remainder of an allocation can be transferred; and a request that is ready has nothing unpicked because
no new allocation can reach it while it is claimed, except through a substitution, which finds nothing
transferable in a confirmed allocation. `IInv` states the three of one row together with the state of
its request (`RowOK`), adds the claim of each request (`ClaimOK`), and is preserved action by action.
A transfer (reallocate, substitute) and the hand-off have lemmas of their own.

The action properties follow from `IInv` too: `ChangesRaiseVersions` (`EveryChangeRaisesVersion`),
`ClosedRequestsStay` (`ClosedIsFinal`), `ClaimedRequestsAreSafe` (`ClaimedIsNotRaided`) and
`IssuesHappenOnce` (`IssuedOnce`). The argument gives each action its `Footprint`: the requests it may
touch (one, or the two of a reallocation, both unclaimed), each of them open and with a higher version
afterwards; everything else is as it was. `HistoryOK` adds what `IInv` does not say of the past: a request
that is absent has version 0, one that was never submitted has no allocation (so that submitting overwrites
none), and what was issued of an allocation is all that was not released. `WorkflowIsLifecycle` is
`Spec => ImplementsLifecycle`: each action is a step of `Lifecycle` or leaves phase and holder of every
request. A pick is a stutter only because a request with open allocations that can be picked is claimed,
which is `ClaimOK` of `IInv`.

`SumProofs` is about sums over finite sets of any size, which line totals and reserved stock are. The
library's sum is a recursive function under a CHOOSE, so that its recursion equation has to be proved
first; and there is no induction principle over finite sets that the installed provers can apply, so each
proof takes the subsets at which its statement fails and shows that they have no least element. From there:
a sum does not depend on the order, changes by what one argument changes, is monotonic, splits over disjoint
sets, and can be grouped by a key.

`DemandProofs` proves under `Spec`, for any number of allocations of a line: `TypesAreCorrect` (`TypeOK`, the
lines included), `LineTotalsStayCurrent` (`LineTotalsAreCurrent`), `DemandIsAccountedFor`
(`DemandIsConserved`) and `ClosedRequestsHoldNothing` (`ClosedHoldsNothing`). The code cuts the backorder off
at zero, and the demand would leak if that ever happened; the strengthening, `LineOK` for each line, is that
what was cancelled and what the allocations hold or issued never exceeds what is requested, so that nothing is
cut off. A transfer keeps it because it takes no more than the line it goes to is owed, a submission because
the loops give a line no more than it asks for, a cancellation because it cancels exactly what is left.
`RowsInv` is what the lines need to know of the other rows; it follows from `IInv` and `HistoryOK`.

`StockProofs` is about the positions. Under `Spec`, where requests alone use the stock, `StockOK` says of a
position that nothing is in quarantine, that what is on hand and what was issued add up to the opening stock,
and that its open allocations fit into what is usable. From it follow `StockIsNotOverAllocated`
(`NoOverAllocation`), the refinement `StockIsBooked` (`ImplementsReservations`), `SubmissionsAllocateAll`
(`SubmitAllocatesWhatItCan`) and `RequestsAloneAreListed` (every item without substitutions has a summary; this
one is false once the counter takes allocated stock). Submissions need the most: the
greedy loops are stated by what each pair of line and position was given before, so that the pair served last
at a position is the one to look at, and sums over the pairs are grouped once by line and once by position.
Under `WarehouseSpec`, with all inventory operations at work, over-allocation is reachable (section 4) and
`StockOK` is lost; `BooksOK` stays: stock on hand is the opening stock and the ledger, the ledger of issues is
the sum of what allocations of the position say, the outbox mirrors it for Spectrum items, and no more is in
quarantine than on hand. This gives `LedgerIsComplete` (`LedgerExplainsStock`), `IssuesAreQueued`
(`OutboxMirrorsIssues`), `QuarantineFits` (`QuarantineWithinStock`), `IssuesAreAllocated`
(`IssuesMatchAllocations`), and with the invariants of lines and closed requests `ListingStaysCoherent`
(`ListingIsCoherent`): stock and allocations summed over the positions of an item can be compared position by
position unless a line is substituted. `ConservedOK`, for each Spectrum item when Spectrum posts nothing but issues,
gives `SpectrumStockStays` (`SpectrumStockIsConserved`). `RequestsAmongOperations` repeats the invariants of the
workflow for the two services together, since none of them depends on who else changes the stock.

`OfflineProofs` proves, for any grants, devices, calls at a time and commands, under `OfflineSpec`:
`OfflineTypesAreCorrect` (`OfflineTypeOK`), `CommandsAreRecordedInOrder` (`RecordedInOrder`),
`DevicesAgreeWithServer` (`DeviceAgreesWithServer`), `SyncStaysWithinQuantity`
(`AllocationWithinQuantity`), `RevocationStopsSync` (`RevokedDeviceAppliesNothing`) and `SyncKeepsTheAccounts`,
the line totals, demand and closed requests of the workflow. `IInv` is of no use here: a write of a stale object
may set the state of a request back and reopen it, so that claims and states of allocations no longer fit
together. What remains of it is `OfflineRows`: quantities stay within bounds, with the bound on picked material
only while a request is unsent, claimable or claimed, and a request that was submitted is never a draft
again. That is enough for `DemandInv`. `OfflineInv` adds the protocol: what the device shows of a command is what
the server recorded of it (`QueueFine`), an answer under way is one that was recorded, and a call that applies
a command holds the lock of its grant (`CallFine`), so that the command is the next one, nobody records another
and the device stays active until it commits. Answers only get older, since what is recorded of a command is
never changed into or out of applied.

`OutboxProofs` proves, for any events, limits and numbers of crashes, but under `OneProcess`, the single
worker of `compose.yaml` (with two, a late commit overwrites a success): `ConfirmedOnce`
(`ConfirmedIsNotSentAgain`), `AttemptsAreBounded` (`RetriesAreBounded`), `DuplicatesAreExplained`
(`DuplicatesAreLostAnswers`), and for the worker together with reconciliation `ReportsAreTrue`
(`ReportIsTrue`); for any number of processes, `OutboxTypesAreCorrect` (`OutboxTypeOK`). The properties speak of answers and postings; `OutboxInv` adds what the rows say of them:
the count on the row is the number of recorded attempts, an event that can be sent again is below its limit,
and the event the process is sending is `PROCESSING`, has one attempt less than the one under way, and is
written by nobody else. A report needs two facts more: a success was recorded with a transaction Spectrum
has, and a success is final.

`CatalogProofs` proves, for any items and finite set of requests and any stock, under `CatalogSpec`:
`OutboxIsManaged` (`UndeliveredIsManaged`), `QueuedIssuesHaveJob` (`IssuesHaveJobNumber`) and
`IssuesFollowTheLine` (`IssuableSharesPath`). The argument goes by stock: an item changes its path without
stock and open demand only, and as a Spectrum-managed item it never gets stock again. The strengthening
`CatalogInvariant` says that for a Spectrum-managed line only Spectrum-managed items are held, with stock
for every holder (so that nobody can empty it and change its path); that for a local line an item which
has become Spectrum-managed is out of stock; and that a Spectrum-managed line without job number is for an
item without stock and without holders. The counting is done by the lemmas about `Holders`, from the
library's facts on cardinalities.

`BackOfficeProofs` proves, for any accounts, sessions, calls, locations, codes, cells and labels, under
`OfficeSpec`: `LocationsStayDistinct` (`LocationsAreDistinct`), `MapIsCurrent` (`MapShowsCodes`),
`LastAdministratorRemains` (`AdministratorRemains`), `SessionsEndWithUpdates` (`UpdateEndsSessions`) and
`RevokedLabelsAreFinal` (`RevokedIsFinal`), and `OfficeTypesAreCorrect` (`OfficeTypeOK`). That locations are
distinct is inductive with the types, because the constraints are evaluated again by the write. The map is not:
a write goes by what was found of the cell before. `EditsAreCurrent` says that this is still so, and that no two
calls have the same location, which is what the row lock of the update gives; with it, an update never meets a
cell that is gone and a cell never outlives its location's code. `SessionsEndWithUpdates` needs `UsersExist`: sessions and
calls are of accounts that exist, so that the account a call creates has none.

`LineOK` and the parts of `OfflineInv` were first checked with TLC as invariants of the `offline` instance
(also with more versions, 4 million states); `StockOK` and `BooksOK` say position by position what the runs
`partial`, `requests` and `warehouse` check.

Only model-checked: liveness (`EventuallySettled`), since neither fairness nor ENABLED is supported by the
provers; and the disagreements of section 4, which are counterexamples. Only proved, and checked by no run:
`OutboxIsManaged`, `RequestsAloneAreListed`, `RequestsAmongOperations` and `SyncKeepsTheAccounts` (their parts are checked by the runs of
the workflow alone). The proofs assume what the modules assume of their constants (`StockAssumption`,
`RequestsAssumption`, `InventoryAssumption`, `OfflineAssumption` and so on): finite sets of rows, natural
numbers as quantities, and bounds, of any size.

## 6. Not modelled

* **The browser store step by step** (`frontend/src/offline/store.ts`). `OfflineSync` queues a command and
  applies an answer in one step each. `queueOfflineCommand` and `updateOfflineSnapshot` read, encrypt and
  write in separate IndexedDB transactions; which of them overlap is decided by tabs and events of the
  browser, of which the repository says nothing. The hazards are listed.
* **Waiting for row locks, and deadlocks** between methods that lock in different orders. PostgreSQL aborts
  one of the transactions; a transaction that is aborted is no action in these modules, and for a sync call it
  is the failure that `OfflineSync` has. Only the waiting itself is missing.
* **Two outbox processes**, beyond what the hazard says: `compose.yaml` starts one.
* **The Spectrum adapters**: external. `OutboxWorker` and `Reconciliation` allow any answer.
* **Units and conversions, recipients, warehouses, notifications, audit trail**: rows that are written and
  displayed; no operation that is modelled decides anything by them.
* **Fields without effect on others**: display names, zones and pick order of a location once the positions
  are ordered, `last_seen_at` of a device, passwords and CSRF tokens (a login may fail for any reason), the
  labels of items and requests (they differ from those of locations in the table that is read).
* **HTTP layer, configuration, migrations, screens**: routing, validation, schema and presentation.
* **The three reads of `list_inventory`** are taken at one instant; between them stock can move, which a
  repeated call repairs.

----------------------------- MODULE OfflineSync -----------------------------
(***************************************************************************)
(* OfflineService.sync and the grants it works under, with the queue of    *)
(* the device on the other side and the request workflow going on online   *)
(* meanwhile.                                                              *)
(*                                                                         *)
(* A sync call is not one transaction: it commits after every command and  *)
(* goes on in the same Session.  The Session hands out the MaterialRequest *)
(* and the OfflineGrant it read first for as long as the call holds them   *)
(* (expire_on_commit=False, and SELECT ... FOR UPDATE does not refresh an  *)
(* object that is already loaded): "seen" is the request object and the    *)
(* request_version of the grant object.                                    *)
(***************************************************************************)
EXTENDS Requests, SequencesExt

CONSTANTS
  Grants,       \* offline grants
  DeviceOf,     \* the device a grant is issued to
  Calls,        \* sync calls that may be under way at once
  NoCall,       \* a grant row nobody has locked
  NoRow,        \* the Session has not read the two rows yet
  MaxCommands   \* bound: commands queued under a grant

ASSUME OfflineAssumption ==
  /\ NoCall \notin Calls
  /\ NoRow \notin [row : MaterialRequest, version : Nat]
  /\ MaxCommands \in Nat

VARIABLES
  grant,      \* OfflineGrant rows, and the call that holds the row lock
  device,     \* Device rows
  queue,      \* commands on the device, by sequence (external)
  recorded,   \* OfflineCommand rows of a grant
  call        \* the sync calls under way

offlineVars == <<grant, device, queue, recorded, call>>
allVars == <<vars, offlineVars>>

OfflineStates == {"claimed", "in_progress", "ready"}

Devices == {DeviceOf[g] : g \in Grants}

Command ==
  [kind : {"record_pick"}, allocation : AllocationIds, quantity : Quantities \union {0}]
    \union [kind : {"handoff"}]

\* A grant is "opening" while create_grant has looked at the device and not yet
\* committed; "ended" is one that was revoked or whose expires_at has passed.
NewGrant == [state : {"absent", "opening"}, lockedBy : {NoCall}]

Grant ==
  [state : {"active", "ended"}, request : RequestIds, user : Workers,
   version : Nat, lockedBy : Calls \union {NoCall}]

Answers == {"applied", "conflict", "rejected"}

\* A command the device has deleted because it was applied is "forgotten".
Queued == [command : Command, status : {"pending", "conflict", "forgotten"}]

Recorded == [sequence : 1..MaxCommands, status : Answers]

\* A sync call: the commands it has yet to look at, and what it will answer.
SeenRows == [row : MaterialRequest, version : Nat]

SyncCall ==
  [grant : Grants, step : {"lookup", "lock", "apply", "refused", "answered"},
   seen : SeenRows \union {NoRow}, todo : SUBSET (1..MaxCommands),
   results : SUBSET Recorded]

Idle == [step |-> "idle", seen |-> NoRow, todo |-> {}, results |-> {}]

\* The grants, the queue of the device and the calls have their types, and the
\* request rows keep theirs under the writes of stale objects.
OfflineTypeOK ==
  /\ TypeOK
  /\ grant \in [Grants -> Grant \union NewGrant]
  /\ device \in [Devices -> {"unknown", "active", "revoked"}]
  /\ queue \in [Grants -> Seq(Queued)]
  /\ recorded \in [Grants -> Seq(Recorded)]
  /\ call \in [Calls -> SyncCall \union {Idle}]

OfflineInit ==
  /\ Init
  /\ grant = [g \in Grants |-> [state |-> "absent", lockedBy |-> NoCall]]
  /\ device = [d \in Devices |-> "unknown"]
  /\ queue = [g \in Grants |-> <<>>]
  /\ recorded = [g \in Grants |-> <<>>]
  /\ call = [c \in Calls |-> Idle]

-----------------------------------------------------------------------------
(***************************************************************************)
(* Grants and devices                                                      *)
(***************************************************************************)

\* enroll: a device that was revoked is refused, one that is enrolled keeps
\* its row.
Enroll(d) ==
  /\ device[d] = "unknown"
  /\ device' = [device EXCEPT ![d] = "active"]
  /\ UNCHANGED <<vars, grant, queue, recorded, call>>

\* assert_active locks nothing: the device may be revoked before the commit.
CheckDevice(g) ==
  /\ grant[g].state = "absent"
  /\ device[DeviceOf[g]] = "active"
  /\ grant' = [grant EXCEPT ![g].state = "opening"]
  /\ UNCHANGED <<vars, device, queue, recorded, call>>

CreateGrant(g, u, r) ==
  /\ grant[g].state = "opening"
  /\ request[r].claimedBy = u
  /\ request[r].state \in OfflineStates
  /\ grant' = [grant EXCEPT ![g] =
                 [state |-> "active", request |-> r, user |-> u,
                  version |-> request[r].version, lockedBy |-> NoCall]]
  /\ UNCHANGED <<vars, device, queue, recorded, call>>

Expire(g) ==
  /\ grant[g].state = "active"
  /\ grant' = [grant EXCEPT ![g].state = "ended"]
  /\ UNCHANGED <<vars, device, queue, recorded, call>>

\* DeviceService.revoke updates every grant of the device that has not been
\* revoked, so it waits for the sync call that has one of them locked.
RevokeDevice(d) ==
  /\ device[d] = "active"
  /\ \A g \in Grants : DeviceOf[g] = d => grant[g].lockedBy = NoCall
  /\ device' = [device EXCEPT ![d] = "revoked"]
  /\ grant' = [g \in Grants |->
                 IF DeviceOf[g] = d /\ grant[g].state = "active"
                 THEN [grant[g] EXCEPT !.state = "ended"]
                 ELSE grant[g]]
  /\ UNCHANGED <<vars, queue, recorded, call>>

\* reject_conflict
Reject(g, i) ==
  /\ recorded[g][i].status = "conflict"
  /\ recorded' = [recorded EXCEPT ![g][i].status = "rejected"]
  /\ UNCHANGED <<vars, grant, device, queue, call>>

-----------------------------------------------------------------------------
(***************************************************************************)
(* The device                                                              *)
(***************************************************************************)

\* queueOfflineCommand: the sequence is the position in the queue.
Enqueue(g, command) ==
  /\ grant[g].state = "active"
  /\ Len(queue[g]) < MaxCommands
  /\ queue' = [queue EXCEPT ![g] = Append(@, [command |-> command, status |-> "pending"])]
  /\ UNCHANGED <<vars, grant, device, recorded, call>>

\* pendingCommandsForGrant, by their sequences.
Pending(g) == {n \in DOMAIN queue[g] : queue[g][n].status = "pending"}

\* applySyncResults
Deliver(c) ==
  LET g == call[c].grant
      Answered(n, statuses) ==
        \E x \in call[c].results : x.sequence = n /\ x.status \in statuses
      Learned(n) ==
        CASE Answered(n, {"applied"}) -> "forgotten"
          [] Answered(n, {"conflict", "rejected"}) -> "conflict"
          [] OTHER -> queue[g][n].status
  IN
  /\ call[c].step = "answered"
  /\ queue' = [queue EXCEPT ![g] =
                 [n \in DOMAIN queue[g] |-> [queue[g][n] EXCEPT !.status = Learned(n)]]]
  /\ call' = [call EXCEPT ![c] = Idle]
  /\ UNCHANGED <<vars, grant, device, recorded>>

-----------------------------------------------------------------------------
(***************************************************************************)
(* sync                                                                    *)
(***************************************************************************)

\* Mistake: nothing looks at the device or the grant again after the start.
CanLockEnded(c, g) == grant[g].lockedBy \in {NoCall, c}

\* _locked_grant: the device is active, the grant is, and its row is free.
CanLock(c, g) ==
  /\ device[DeviceOf[g]] = "active"
  /\ grant[g].state = "active"
  /\ grant[g].lockedBy \in {NoCall, c}

Unlock(row, c) == [row EXCEPT !.lockedBy = IF @ = c THEN NoCall ELSE @]

StartSync(c, g) ==
  /\ call[c].step = "idle"
  /\ Pending(g) # {}
  /\ CanLock(c, g)
  /\ grant' = [grant EXCEPT ![g].lockedBy = c]
  /\ call' = [call EXCEPT ![c] =
                [grant |-> g, step |-> "lookup", seen |-> NoRow,
                 todo |-> Pending(g), results |-> {}]]
  /\ UNCHANGED <<vars, device, queue, recorded>>

Result(n, status) == [sequence |-> n, status |-> status]

GrantOf(c) == grant[call[c].grant]
\* The commands are sorted by their sequences.
AtHand(c) == Min(call[c].todo)

\* The call goes on to the next command, with the answer to this one.
Answering(c, status) ==
  [call[c] EXCEPT !.todo = @ \ {AtHand(c)},
                  !.results = @ \union {Result(AtHand(c), status)}]

\* Mistake: a command that is known counts as applied.
KnownAsApplied(row) == "applied"

\* Mistake: a command that is known is answered as not yet decided.
KnownAsPending(row) == "pending"

\* The status answered for a command that is recorded already.
StoredStatus(row) == row.status

\* The query for client_command_id, which takes no lock.
Lookup(c) ==
  LET existing == {x \in ToSet(recorded[call[c].grant]) : x.sequence = AtHand(c)} IN
  /\ call[c].step = "lookup"
  /\ call[c].todo # {}
  /\ call' = [call EXCEPT ![c] =
                IF existing = {}
                THEN [@ EXCEPT !.step = "lock"]
                ELSE Answering(c, StoredStatus(CHOOSE x \in existing : TRUE))]
  /\ UNCHANGED <<vars, grant, device, queue, recorded>>

\* Mistake: the sequence need only be one that was to be expected before.
InSequenceOrRepeated(g, n) ==
  n <= Max({0} \union {x.sequence : x \in ToSet(recorded[g])}) + 1

InSequence(g, n) ==
  n = Max({0} \union {x.sequence : x \in ToSet(recorded[g])}) + 1

\* The request and the version the grant knows, as the Session has them.
Seen(c) ==
  IF call[c].seen = NoRow
  THEN [row |-> request[GrantOf(c).request], version |-> GrantOf(c).version]
  ELSE call[c].seen

Row(c) == Seen(c).row

CanBegin(c) ==
  /\ call[c].step = "lock"
  /\ CanLock(c, call[c].grant)
  /\ InSequence(call[c].grant, AtHand(c))

\* The row of the command at hand, committed; the lock goes with the commit.
Recording(c, status, version) ==
  /\ recorded' = [recorded EXCEPT ![call[c].grant] =
                    Append(@, Result(AtHand(c), status))]
  /\ grant' = [grant EXCEPT ![call[c].grant] = [Unlock(@, c) EXCEPT !.version = version]]
  /\ UNCHANGED <<device, queue>>

\* _record_conflict: the rest of the commands is not looked at.
RecordConflict(c) ==
  /\ Recording(c, "conflict", GrantOf(c).version)
  /\ call' = [call EXCEPT ![c] = [Answering(c, "conflict") EXCEPT !.step = "answered"]]
  /\ UNCHANGED vars

VersionConflict(c) ==
  /\ CanBegin(c)
  /\ Row(c).version # Seen(c).version
  /\ RecordConflict(c)

Begin(c) ==
  /\ CanBegin(c)
  /\ Row(c).version = Seen(c).version
  /\ call' = [call EXCEPT ![c] = [@ EXCEPT !.step = "apply", !.seen = Seen(c)]]
  /\ grant' = [grant EXCEPT ![call[c].grant].lockedBy = c]
  /\ UNCHANGED <<vars, device, queue, recorded>>

CommandOf(c) == queue[call[c].grant][AtHand(c)].command

\* The checks of record_pick and of handoff, made on the object.
IsAllowed(c) ==
  LET command == CommandOf(c)
      r == GrantOf(c).request
  IN
  /\ Row(c).claimedBy = GrantOf(c).user
  /\ command.kind = "record_pick" =>
       /\ RequestOfAllocation(command.allocation) = r
       /\ Exists(command.allocation)
       /\ command.quantity \in PickRange(alloc[command.allocation])
  /\ command.kind = "handoff" =>
       /\ Row(c).state = "ready"
       /\ \A p \in Positions : CanIssue(r, p)

\* An UPDATE names the columns whose value the object changed.
Written(row, seen, new) ==
  [state |-> IF new.state = seen.state THEN row.state ELSE new.state,
   claimedBy |-> IF new.claimedBy = seen.claimedBy THEN row.claimedBy ELSE new.claimedBy,
   version |-> new.version]

\* The request object after the command, flushed and committed.
Applying(c, new) ==
  /\ IsAllowed(c)
  /\ CanChange(GrantOf(c).request)
  /\ request' = [request EXCEPT ![GrantOf(c).request] = Written(@, Row(c), new)]
  /\ Recording(c, "applied", new.version)
  /\ call' = [call EXCEPT ![c] =
                [Answering(c, "applied") EXCEPT
                   !.step = "lookup", !.seen = [row |-> new, version |-> new.version]]]

ApplyPick(c) ==
  LET r == GrantOf(c).request
      a == CommandOf(c).allocation
      rows == [alloc EXCEPT ![a] = Picked(@, CommandOf(c).quantity)]
  IN
  /\ call[c].step = "apply"
  /\ CommandOf(c).kind = "record_pick"
  /\ Applying(c, Moved(Row(c), IF AllConfirmed(r) THEN "ready" ELSE "in_progress",
                       Row(c).claimedBy))
  /\ alloc' = rows
  /\ line' = RefreshLines(rows, {LineOf(a)})
  /\ batch' = [batch EXCEPT ![r] = IF @ = NoWorker THEN GrantOf(c).user ELSE @]
  /\ UNCHANGED stockVars

\* Mistake: the table has no such constraint.
ClosedUnchecked(rows) == TRUE

\* ck_allocations_closed_within_quantity, all that stops the hand-off of a
\* request that was cancelled after the Session read it as ready.
ClosedWithinQuantity(rows) ==
  \A a \in AllocationIds : rows[a].issued + rows[a].released <= rows[a].quantity

ApplyHandoff(c) ==
  LET r == GrantOf(c).request IN
  /\ call[c].step = "apply"
  /\ CommandOf(c).kind = "handoff"
  /\ Applying(c, Moved(Row(c), IF FullyClosed(r, HandedOffLines(r))
                               THEN "completed" ELSE "partially_fulfilled", NoWorker))
  /\ IssuePicked(r)
  /\ ClosedWithinQuantity(HandedOff(r))
  /\ batch' = [batch EXCEPT ![r] = NoWorker]

\* A DomainError: the transaction is rolled back, which drops the lock and the
\* object, and the grant is locked again to record the conflict.  Any pick may
\* be refused: for its scans or the missing reason of a shortage, which no
\* command has here.
Refuse(c) ==
  /\ call[c].step = "apply"
  /\ CommandOf(c).kind = "record_pick" \/ ~IsAllowed(c)
  /\ call' = [call EXCEPT ![c] = [@ EXCEPT !.step = "refused", !.seen = NoRow]]
  /\ grant' = [grant EXCEPT ![call[c].grant] = Unlock(@, c)]
  /\ UNCHANGED <<vars, device, queue, recorded>>

\* The unique (warehouse_id, client_command_id) stops a second row.
RefusalConflict(c) ==
  /\ call[c].step = "refused"
  /\ CanLock(c, call[c].grant)
  /\ \A x \in ToSet(recorded[call[c].grant]) : x.sequence # AtHand(c)
  /\ RecordConflict(c)

Finish(c) ==
  /\ call[c].step = "lookup"
  /\ call[c].todo = {}
  /\ CanLock(c, call[c].grant)
  /\ call' = [call EXCEPT ![c].step = "answered"]
  /\ grant' = [grant EXCEPT ![call[c].grant] = Unlock(@, c)]
  /\ UNCHANGED <<vars, device, queue, recorded>>

\* Any error that ends the call, or an answer that does not arrive: the open
\* transaction is rolled back, and the device keeps its queue.
Fail(c) ==
  /\ call[c].step # "idle"
  /\ call' = [call EXCEPT ![c] = Idle]
  /\ grant' = [grant EXCEPT ![call[c].grant] = Unlock(@, c)]
  /\ UNCHANGED <<vars, device, queue, recorded>>

-----------------------------------------------------------------------------
SyncNext ==
  \E c \in Calls :
    \/ Lookup(c) \/ Begin(c) \/ VersionConflict(c)
    \/ ApplyPick(c) \/ ApplyHandoff(c) \/ Refuse(c) \/ RefusalConflict(c)
    \/ Finish(c) \/ Deliver(c) \/ Fail(c)
    \/ \E g \in Grants : StartSync(c, g)

OfflineNext ==
  \/ RequestNext /\ UNCHANGED offlineVars
  \/ SyncNext
  \/ \E g \in Grants :
       \/ CheckDevice(g)
       \/ \E u \in Workers, r \in RequestIds : CreateGrant(g, u, r)
       \/ \E command \in Command : Enqueue(g, command)
       \/ \E i \in DOMAIN recorded[g] : Reject(g, i)
       \/ Expire(g)
  \/ \E d \in Devices : Enroll(d) \/ RevokeDevice(d)

OfflineSpec == OfflineInit /\ [][OfflineNext]_allVars

-----------------------------------------------------------------------------
\* However often a queue is sent, by however many calls at once, each command
\* is recorded once, in the order the worker gave it and without a gap.
RecordedInOrder ==
  \A g \in Grants : \A i \in DOMAIN recorded[g] : recorded[g][i].sequence = i

\* What the device was told is what the server did: a command it has deleted
\* was applied, one it shows as a conflict is before a manager or rejected.
DeviceAgreesWithServer ==
  \A g \in Grants : \A n \in DOMAIN queue[g] :
    LET Is(statuses) ==
          \E x \in ToSet(recorded[g]) : x.sequence = n /\ x.status \in statuses
    IN  /\ queue[g][n].status = "forgotten" => Is({"applied"})
        /\ queue[g][n].status = "conflict" => Is({"conflict", "rejected"})

\* arcitecture_plan.md section 12: revoking a device invalidates its grants at
\* synchronization, also for the rest of a call that is under way.
RevokedDeviceAppliesNothing ==
  [][\A g \in Grants :
       recorded'[g] # recorded[g] /\ Len(recorded'[g]) > Len(recorded[g]) =>
         device[DeviceOf[g]] # "revoked"]_allVars

\* arcitecture_plan.md section 12: a version conflict enters the exception
\* queue, and nothing is written over what somebody else wrote: a command is
\* applied to the version of the request that the grant knows.
AppliedToKnownVersion ==
  [][\A g \in Grants :
       (Len(recorded'[g]) > Len(recorded[g]) /\ Last(recorded'[g]).status = "applied") =>
         request[grant[g].request].version = grant[g].version]_allVars
=============================================================================

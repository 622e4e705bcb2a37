---------------------------- MODULE OutboxWorker ----------------------------
(***************************************************************************)
(* The delivery of queued MATERIAL_ISSUE events to Spectrum: the loop of   *)
(* workers/outbox.py over OutboxProcessor, and the manager's retry.        *)
(*                                                                         *)
(* A batch is claimed in one transaction and then processed event by       *)
(* event; each event is read, sent and committed in a transaction of its   *)
(* own that locks nothing until it commits.  A worker that is killed       *)
(* forgets its batch and what Spectrum answered; its events stay           *)
(* PROCESSING until they are five minutes old.                             *)
(***************************************************************************)
EXTENDS Integers, FiniteSets

CONSTANTS
  Events,       \* 1..n, in the order of created_at
  Processes,    \* worker processes; compose.yaml runs one
  BatchLimit,   \* limit of process_batch
  MaxAttempts,  \* MAX_ATTEMPTS
  MaxCrashes,   \* bound: how often a process is killed
  MaxRetries    \* bound: how often a manager retries an event

ASSUME OutboxAssumption ==
  /\ Events \subseteq Nat
  /\ BatchLimit \in Nat \ {0}
  /\ MaxAttempts \in Nat \ {0}
  /\ MaxCrashes \in Nat /\ MaxRetries \in Nat

VARIABLES
  event,    \* OutboxEvent rows
  due,      \* events whose available_at has passed
  stale,    \* events not updated for five minutes
  answers,  \* OutboxAttempt rows of an event, and the reference in the good one
  posted,   \* Spectrum has transactions 1..posted[e] for event e (external)
  process,  \* what each worker process has in memory
  crashes   \* bound counter

outboxVars == <<event, due, stale, answers, posted, process, crashes>>

Statuses == {"absent", "pending", "processing", "succeeded", "requires_review"}
Outcomes == {"success", "transient", "permanent"}

OutboxEvent == [status : Statuses, attempts : Nat, retries : 0..MaxRetries]

Attempts == [succeeded : Nat, failed : Nat, reference : Nat]

\* batch: claimed events still to be processed, the oldest one being at hand;
\* step: between two events, waiting for Spectrum, or holding its answer;
\* attempt: attempt_count of the event at hand as this process counted it;
\* reference: the transaction a good answer names.
Process ==
  [batch : SUBSET Events, step : {"next", "sending"} \union Outcomes,
   attempt : Nat, reference : Nat]

Idle == [batch |-> {}, step |-> "next", attempt |-> 0, reference |-> 0]

AtHand(w) == CHOOSE e \in process[w].batch : \A f \in process[w].batch : e <= f

\* Every OutboxEvent row, and what the processes hold, has its type.
OutboxTypeOK ==
  /\ event \in [Events -> OutboxEvent]
  /\ due \subseteq Events /\ stale \subseteq Events
  /\ answers \in [Events -> Attempts]
  /\ posted \in [Events -> Nat]
  /\ process \in [Processes -> Process]
  /\ crashes \in 0..MaxCrashes

OutboxInit ==
  /\ event = [e \in Events |-> [status |-> "absent", attempts |-> 0, retries |-> 0]]
  /\ due = {} /\ stale = {}
  /\ answers = [e \in Events |-> [succeeded |-> 0, failed |-> 0, reference |-> 0]]
  /\ posted = [e \in Events |-> 0]
  /\ process = [w \in Processes |-> Idle]
  /\ crashes = 0

-----------------------------------------------------------------------------
WithStatus(es, status) ==
  [e \in Events |-> IF e \in es THEN [event[e] EXCEPT !.status = status] ELSE event[e]]

\* A hand-off commits its event together with the issue.
Enqueue(e) ==
  /\ event[e].status = "absent"
  /\ \A f \in Events : f < e => event[f].status # "absent"
  /\ event' = WithStatus({e}, "pending")
  /\ due' = due \union {e}
  /\ UNCHANGED <<stale, answers, posted, process, crashes>>

\* Mistake: nobody looks for the events of a process that was killed.
AbandonedForEver == {}

\* Mistake: whatever is old is queued again.
AbandonedIfOld == stale

\* What _claim_batch gives back to the queue.
Abandoned == {e \in stale : event[e].status = "processing"}

Claimable == {e \in due : event[e].status = "pending"} \union Abandoned

\* The first events of a set in the order of created_at.
Oldest(es) == {e \in es : Cardinality({f \in es : f < e}) < BatchLimit}

\* Rows that a concurrent transaction holds are skipped; no other transaction
\* on these rows spans two of its own steps here, so none is held.
ClaimBatch(w) ==
  LET batch == Oldest(Claimable) IN
  /\ process[w] = Idle
  /\ Claimable # {}
  /\ event' = [e \in Events |->
                 IF e \in batch THEN [event[e] EXCEPT !.status = "processing"]
                 ELSE IF e \in Abandoned THEN [event[e] EXCEPT !.status = "pending"]
                 ELSE event[e]]
  /\ due' = due \union Abandoned
  /\ stale' = stale \ (batch \union Abandoned)
  /\ process' = [process EXCEPT ![w].batch = batch]
  /\ UNCHANGED <<answers, posted, crashes>>

\* _process_event reads the row: one that is not PROCESSING is passed over.
Load(w) ==
  LET e == AtHand(w) IN
  /\ process[w].step = "next"
  /\ process[w].batch # {}
  /\ process' = IF event[e].status = "processing"
                 THEN [process EXCEPT ![w].step = "sending",
                                      ![w].attempt = event[e].attempts + 1]
                 ELSE [process EXCEPT ![w].batch = @ \ {e}]
  /\ UNCHANGED <<event, due, stale, answers, posted, crashes>>

\* adapter.post_issue (external): an answer that is lost on the way back is a
\* transient error although the transaction was posted.
Send(w, outcome) ==
  LET e == AtHand(w) IN
  /\ process[w].step = "sending"
  /\ posted' \in {p \in {posted, [posted EXCEPT ![e] = @ + 1]} :
                    /\ outcome = "success" => p # posted
                    /\ outcome = "permanent" => p = posted}
  /\ process' = [process EXCEPT ![w].step = outcome,
                                ![w].reference =
                                  IF outcome = "success" THEN posted'[e] ELSE 0]
  /\ UNCHANGED <<event, due, stale, answers, crashes>>

\* Mistake: transient errors are retried for ever.
SettledByRetrying(outcome, attempt) ==
  CASE outcome = "success" -> "succeeded"
    [] outcome = "transient" -> "pending"
    [] OTHER -> "requires_review"

\* Mistake: a refused event ends as FAILED, like nothing else does.
SettledAsFailed(outcome, attempt) ==
  CASE outcome = "success" -> "succeeded"
    [] outcome = "transient" /\ attempt < MaxAttempts -> "pending"
    [] OTHER -> "failed"

\* The status an answer leads to.
Settled(outcome, attempt) ==
  CASE outcome = "success" -> "succeeded"
    [] outcome = "transient" /\ attempt < MaxAttempts -> "pending"
    [] OTHER -> "requires_review"

\* Mistake: an attempt that will be retried leaves no row.
AnsweredForGood(rows, outcome, reference) ==
  CASE outcome = "success" ->
         [rows EXCEPT !.succeeded = @ + 1, !.reference = reference]
    [] outcome = "permanent" -> [rows EXCEPT !.failed = @ + 1]
    [] OTHER -> rows

\* The OutboxAttempt rows of an event with one more answer.
Answered(rows, outcome, reference) ==
  IF outcome = "success"
  THEN [succeeded |-> rows.succeeded + 1, failed |-> rows.failed,
        reference |-> reference]
  ELSE [rows EXCEPT !.failed = @ + 1]

\* The commit of _process_event writes what this process decided, whatever
\* has become of the row meanwhile.
Commit(w) ==
  LET e == AtHand(w)
      outcome == process[w].step
  IN
  /\ outcome \in Outcomes
  /\ event' = [event EXCEPT ![e].status = Settled(outcome, process[w].attempt),
                            ![e].attempts = process[w].attempt]
  /\ due' = due \ {e}
  /\ stale' = stale \ {e}
  /\ answers' = [answers EXCEPT ![e] = Answered(@, outcome, process[w].reference)]
  /\ process' = [process EXCEPT ![w] = [Idle EXCEPT !.batch = process[w].batch \ {e}]]
  /\ UNCHANGED <<posted, crashes>>

\* The process is killed and started again.
Crash(w) ==
  /\ crashes < MaxCrashes
  /\ process[w] # Idle
  /\ process' = [process EXCEPT ![w] = Idle]
  /\ crashes' = crashes + 1
  /\ UNCHANGED <<event, due, stale, answers, posted>>

\* retry_outbox_event.  attempt_count is not reset.
Retry(e) ==
  /\ event[e].status = "requires_review"
  /\ event[e].retries < MaxRetries
  /\ event' = [event EXCEPT ![e].status = "pending", ![e].retries = @ + 1]
  /\ due' = due \union {e}
  /\ UNCHANGED <<stale, answers, posted, process, crashes>>

\* Time passes: the backoff of an event is over, or five minutes are.
BackoffEnds(e) ==
  /\ event[e].status = "pending"
  /\ e \notin due
  /\ due' = due \union {e}
  /\ UNCHANGED <<event, stale, answers, posted, process, crashes>>

GoesStale(e) ==
  /\ event[e].status \notin {"absent", "pending"}
  /\ e \notin stale
  /\ stale' = stale \union {e}
  /\ UNCHANGED <<event, due, answers, posted, process, crashes>>

OutboxNext ==
  \/ \E w \in Processes :
       \/ ClaimBatch(w) \/ Load(w) \/ Commit(w) \/ Crash(w)
       \/ \E outcome \in Outcomes : Send(w, outcome)
  \/ \E e \in Events : Enqueue(e) \/ Retry(e) \/ BackoffEnds(e) \/ GoesStale(e)

\* The loop of main runs until it is told to stop and the container restarts
\* it; the adapter answers or raises; time passes.  Nothing makes a hand-off,
\* a crash or a manager's retry happen.
OutboxFairness ==
  /\ \A w \in Processes :
       /\ WF_outboxVars(ClaimBatch(w)) /\ WF_outboxVars(Load(w))
       /\ WF_outboxVars(\E outcome \in Outcomes : Send(w, outcome))
       /\ WF_outboxVars(Commit(w))
  /\ \A e \in Events : WF_outboxVars(BackoffEnds(e)) /\ WF_outboxVars(GoesStale(e))

OutboxSpec == OutboxInit /\ [][OutboxNext]_outboxVars /\ OutboxFairness

-----------------------------------------------------------------------------
\* An event is sent again only while nobody has recorded a success for it:
\* what Spectrum confirmed is confirmed once, and stays SUCCEEDED.
ConfirmedIsNotSentAgain ==
  /\ \A e \in Events :
       /\ answers[e].succeeded <= 1
       /\ answers[e].succeeded = 1 <=> event[e].status = "succeeded"
  /\ \A w \in Processes :
       process[w].step # "next" =>
         answers[AtHand(w)].succeeded = 0

\* However often the worker is killed: the attempts that reach Spectrum and
\* are recorded (arcitecture_plan.md section 10) number at most MAX_ATTEMPTS and
\* one more for every retry of a manager.
RetriesAreBounded ==
  \A e \in Events :
    answers[e].succeeded + answers[e].failed <= MaxAttempts + event[e].retries

\* A transaction is posted twice only if an answer of Spectrum was lost: each
\* posting but the confirmed one belongs to a failed attempt, to a crash, or
\* to the answer a process is holding.
DuplicatesAreLostAnswers ==
  \A e \in Events :
    posted[e] <= answers[e].succeeded + answers[e].failed + crashes
                 + Cardinality({w \in Processes : /\ process[w].step \in Outcomes
                                                 /\ AtHand(w) = e})

\* Every queued issue is delivered or put before a manager in the end, however
\* often the worker is killed meanwhile.
EventuallySettled ==
  \A e \in Events :
    event[e].status # "absent" ~> event[e].status \in {"succeeded", "requires_review"}
=============================================================================

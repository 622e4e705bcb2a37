---------------------------- MODULE OutboxProofs ----------------------------
(***************************************************************************)
(* The outbox with one worker process, for any number of events, attempts, *)
(* crashes and retries: what the worker does to the event it has at hand,  *)
(* and what a reconciliation run says of the events meanwhile.             *)
(***************************************************************************)
EXTENDS Reconciliation, FiniteSetTheorems, WellFoundedInduction, TLAPS

USE OutboxAssumption

\* compose.yaml runs one.
OneProcess == \E w \in Processes : Processes = {w}

-----------------------------------------------------------------------------
(***************************************************************************)
(* The inductive invariant                                                 *)
(***************************************************************************)

\* The count on the row of an event is the number of its attempts, one of
\* which at most was a success; and as long as it can be sent again, another
\* attempt is within the limit.
CountsOK(e) ==
  /\ event[e].attempts = answers[e].succeeded + answers[e].failed
  /\ answers[e].succeeded = IF event[e].status = "succeeded" THEN 1 ELSE 0
  /\ event[e].attempts <= MaxAttempts + event[e].retries
  /\ event[e].status \in {"absent", "pending", "processing"} =>
       event[e].attempts < MaxAttempts + event[e].retries

\* A success was recorded with a transaction that Spectrum has.
ReferenceOK(e) ==
  event[e].status = "succeeded" => answers[e].reference \in 1..posted[e]

\* The process that is sending an event, or holds its answer, is the only one
\* that writes the row of the event.
HandOK(w) ==
  process[w].step # "next" =>
    /\ AtHand(w) \in process[w].batch
    /\ event[AtHand(w)].status = "processing"
    /\ process[w].attempt = event[AtHand(w)].attempts + 1
    /\ process[w].step = "success" => process[w].reference \in 1..posted[AtHand(w)]

\* Each transaction but the recorded one belongs to a failed attempt, to a
\* crash, or to the answer the process holds.
HeldAnswers(w, e) == IF process[w].step \in Outcomes /\ AtHand(w) = e THEN 1 ELSE 0

PostedOK(w, e) ==
  posted[e] <= answers[e].succeeded + answers[e].failed + crashes + HeldAnswers(w, e)

OutboxInv ==
  /\ OutboxTypeOK
  /\ \A e \in Events : CountsOK(e) /\ ReferenceOK(e)
  /\ \A w \in Processes : HandOK(w) /\ \A e \in Events : PostedOK(w, e)

-----------------------------------------------------------------------------
LEMMA SmallestOf ==
  ASSUME NEW S \in SUBSET Nat, S # {}
  PROVE  \E x \in S : \A y \in S : x <= y
<1>1. PICK x \in S : \A y \in S : ~ (<<y, x>> \in OpToRel(<, Nat))
  BY NatLessThanWellFounded, WFMin
<1>2. \A y \in S : ~ (y < x)
  BY <1>1 DEF OpToRel
<1>3. QED
  BY <1>2

LEMMA AtHandInBatch ==
  ASSUME OutboxTypeOK, NEW w \in Processes, process[w].batch # {}
  PROVE  AtHand(w) \in process[w].batch
<1>1. process[w].batch \in SUBSET Nat
  BY DEF OutboxTypeOK, Process
<1>2. \E x \in process[w].batch : \A y \in process[w].batch : x <= y
  BY <1>1, SmallestOf
<1>3. QED
  BY <1>2 DEF AtHand

LEMMA SameBatch ==
  ASSUME NEW w \in Processes, process'[w].batch = process[w].batch
  PROVE  AtHand(w)' = AtHand(w)
BY DEF AtHand

-----------------------------------------------------------------------------
(***************************************************************************)
(* Types                                                                   *)
(***************************************************************************)
LEMMA OutboxInitial == OutboxInit => OutboxInv
<1> SUFFICES ASSUME OutboxInit PROVE OutboxInv
  OBVIOUS
<1> USE DEF OutboxInit, Idle
<1>1. OutboxTypeOK
  BY DEF OutboxTypeOK, OutboxEvent, Statuses, Attempts, Process
<1>2. ASSUME NEW e \in Events PROVE CountsOK(e) /\ ReferenceOK(e)
  BY DEF CountsOK, ReferenceOK
<1>3. ASSUME NEW w \in Processes PROVE HandOK(w)
  BY DEF HandOK
<1>4. ASSUME NEW w \in Processes, NEW e \in Events PROVE PostedOK(w, e)
  BY DEF PostedOK, HeldAnswers, Outcomes
<1>5. QED
  BY <1>1, <1>2, <1>3, <1>4 DEF OutboxInv

LEMMA AnsweredType ==
  ASSUME NEW rows \in Attempts, NEW outcome, NEW reference \in Nat
  PROVE  Answered(rows, outcome, reference) \in Attempts
BY DEF Answered, Attempts

LEMMA OutboxTypeStep ==
  ASSUME OutboxTypeOK, [OutboxNext]_outboxVars
  PROVE  OutboxTypeOK'
<1> USE DEF OutboxTypeOK
<1>1. ASSUME NEW w \in Processes, ClaimBatch(w) PROVE OutboxTypeOK'
  <2>1. Oldest(Claimable) \subseteq Events
    BY DEF Oldest, Claimable, Abandoned
  <2>2. event' \in [Events -> OutboxEvent]
    BY <1>1 DEF ClaimBatch, OutboxEvent, Statuses
  <2>3. process' \in [Processes -> Process]
    BY <1>1, <2>1 DEF ClaimBatch, Process
  <2>4. QED
    BY <1>1, <2>1, <2>2, <2>3 DEF ClaimBatch, Abandoned
<1>2. ASSUME NEW w \in Processes, Load(w) PROVE OutboxTypeOK'
  <2>1. CASE event[AtHand(w)].status = "processing"
    <3>1. AtHand(w) \in Events
      BY <1>2, AtHandInBatch DEF Load, Process
    <3>2. event[AtHand(w)] \in OutboxEvent
      BY <3>1
    <3>3. event[AtHand(w)].attempts + 1 \in Nat
      BY <3>2 DEF OutboxEvent
    <3>4. process' \in [Processes -> Process]
      BY <1>2, <2>1, <3>3 DEF Load, Process
    <3>5. QED
      BY <1>2, <3>4 DEF Load
  <2>2. CASE event[AtHand(w)].status # "processing"
    <3>1. process' \in [Processes -> Process]
      BY <1>2, <2>2 DEF Load, Process
    <3>2. QED
      BY <1>2, <3>1 DEF Load
  <2>3. QED
    BY <2>1, <2>2
<1>3. ASSUME NEW w \in Processes, Commit(w) PROVE OutboxTypeOK'
  <2> DEFINE e == AtHand(w)
             outcome == process[w].step
  <2>1. process[w].attempt \in Nat /\ process[w].reference \in Nat
    BY DEF Process
  <2>2. Settled(outcome, process[w].attempt) \in Statuses
    BY DEF Settled, Statuses
  <2>3. event' = [event EXCEPT ![e].status = Settled(outcome, process[w].attempt),
                               ![e].attempts = process[w].attempt]
    BY <1>3 DEF Commit
  <2>4. event' \in [Events -> OutboxEvent]
    <3> HIDE DEF e, outcome
    <3>1. QED
      BY <2>1, <2>2, <2>3 DEF OutboxEvent
  <2>5. e \in Events => Answered(answers[e], outcome, process[w].reference) \in Attempts
    BY <2>1, AnsweredType DEF OutboxTypeOK
  <2>6. answers' = [answers EXCEPT ![e] =
                      Answered(answers[e], outcome, process[w].reference)]
    BY <1>3 DEF Commit
  <2>7. answers' \in [Events -> Attempts]
    <3> HIDE DEF e, outcome
    <3>1. QED
      BY <2>5, <2>6
  <2>8. process' \in [Processes -> Process]
    BY <1>3 DEF Commit, Process, Idle
  <2>9. QED
    BY <1>3, <2>4, <2>7, <2>8 DEF Commit
<1>4. ASSUME NEW w \in Processes, Crash(w) PROVE OutboxTypeOK'
  BY <1>4 DEF Crash, Process, Idle
<1>5. ASSUME NEW w \in Processes, NEW outcome \in Outcomes, Send(w, outcome)
      PROVE  OutboxTypeOK'
  <2>1. posted' \in [Events -> Nat]
    BY <1>5 DEF Send
  <2>2. outcome = "success" => posted'[AtHand(w)] \in Nat
    <3>1. CASE AtHand(w) \in Events
      BY <2>1, <3>1
    <3>2. CASE AtHand(w) \notin Events
      BY <1>5, <3>2 DEF Send
    <3>3. QED
      BY <3>1, <3>2
  <2>3. process' = [process EXCEPT ![w].step = outcome,
                                  ![w].reference = IF outcome = "success"
                                                   THEN posted'[AtHand(w)] ELSE 0]
    BY <1>5 DEF Send
  <2>4. (IF outcome = "success" THEN posted'[AtHand(w)] ELSE 0) \in Nat
    BY <2>2
  <2>5. process' \in [Processes -> Process]
    BY <2>3, <2>4 DEF Process
  <2>6. QED
    BY <1>5, <2>1, <2>5 DEF Send
<1>6. ASSUME NEW e \in Events, Enqueue(e) PROVE OutboxTypeOK'
  BY <1>6 DEF Enqueue, WithStatus, OutboxEvent, Statuses
<1>7. ASSUME NEW e \in Events, Retry(e) PROVE OutboxTypeOK'
  <2>1. event[e].retries + 1 \in 0..MaxRetries
    BY <1>7 DEF Retry, OutboxEvent
  <2>2. event' \in [Events -> OutboxEvent]
    BY <1>7, <2>1 DEF Retry, OutboxEvent, Statuses
  <2>3. QED
    BY <1>7, <2>2 DEF Retry
<1>8. ASSUME NEW e \in Events, BackoffEnds(e) \/ GoesStale(e) PROVE OutboxTypeOK'
  BY <1>8 DEF BackoffEnds, GoesStale
<1>9. CASE UNCHANGED outboxVars
  BY <1>9 DEF outboxVars
<1>10. QED
  BY <1>1, <1>2, <1>3, <1>4, <1>5, <1>6, <1>7, <1>8, <1>9 DEF OutboxNext

-----------------------------------------------------------------------------
(***************************************************************************)
(* The invariant, action by action, for the process w                      *)
(***************************************************************************)

\* The rows of an event and what is posted of it are as they were.
SameEvent(e) ==
  /\ event'[e] = event[e] /\ answers'[e] = answers[e] /\ posted'[e] = posted[e]

LEMMA SameEventOK ==
  ASSUME NEW e \in Events, SameEvent(e), CountsOK(e), ReferenceOK(e)
  PROVE  CountsOK(e)' /\ ReferenceOK(e)'
BY DEF SameEvent, CountsOK, ReferenceOK

LEMMA ClaimBatchInv ==
  ASSUME NEW w \in Processes, Processes = {w}, OutboxInv, OutboxTypeOK', ClaimBatch(w)
  PROVE  OutboxInv'
<1> USE DEF OutboxInv
<1>1. \A e \in Events :
        /\ answers'[e] = answers[e] /\ posted'[e] = posted[e]
        /\ \/ event'[e] = event[e]
           \/ /\ event[e].status \in {"pending", "processing"}
              /\ event'[e].status \in {"pending", "processing"}
              /\ event'[e].attempts = event[e].attempts
              /\ event'[e].retries = event[e].retries
  BY DEF ClaimBatch, Oldest, Claimable, Abandoned, OutboxTypeOK, OutboxEvent
<1>2. ASSUME NEW e \in Events PROVE CountsOK(e)' /\ ReferenceOK(e)'
  BY <1>1, <1>2 DEF CountsOK, ReferenceOK
<1>3. process'[w].step = "next" /\ process[w].step = "next"
  BY DEF ClaimBatch, Idle, OutboxTypeOK, Process
<1>4. HandOK(w)'
  BY <1>3 DEF HandOK
<1>5. ASSUME NEW e \in Events PROVE PostedOK(w, e)'
  BY <1>1, <1>3, <1>5 DEF PostedOK, HeldAnswers, Outcomes, ClaimBatch
<1>6. QED
  BY <1>2, <1>4, <1>5

LEMMA LoadInv ==
  ASSUME NEW w \in Processes, Processes = {w}, OutboxInv, OutboxTypeOK', Load(w)
  PROVE  OutboxInv'
<1> USE DEF OutboxInv
<1>1. \A e \in Events : SameEvent(e)
  BY DEF SameEvent, Load
<1>2. ASSUME NEW e \in Events PROVE CountsOK(e)' /\ ReferenceOK(e)'
  BY <1>1, <1>2, SameEventOK
<1>3. AtHand(w) \in process[w].batch
  BY AtHandInBatch DEF Load
<1>4. HandOK(w)'
  <2>1. CASE event[AtHand(w)].status = "processing"
    <3>1. process' = [process EXCEPT ![w].step = "sending",
                                     ![w].attempt = event[AtHand(w)].attempts + 1]
      BY <2>1 DEF Load
    <3>2. /\ process'[w].batch = process[w].batch
          /\ process'[w].step = "sending"
          /\ process'[w].attempt = event[AtHand(w)].attempts + 1
      BY <3>1 DEF OutboxTypeOK, Process
    <3>3. AtHand(w)' = AtHand(w)
      BY <3>2, SameBatch
    <3>4. event' = event
      BY DEF Load
    <3>5. QED
      BY <1>3, <2>1, <3>2, <3>3, <3>4 DEF HandOK
  <2>2. CASE event[AtHand(w)].status # "processing"
    <3>1. process'[w].step = "next"
      BY <2>2 DEF Load, OutboxTypeOK, Process
    <3>2. QED
      BY <3>1 DEF HandOK
  <2>3. QED
    BY <2>1, <2>2
<1>5. process[w].step = "next" /\ process'[w].step \in {"next", "sending"}
  BY DEF Load, OutboxTypeOK, Process
<1>6. ASSUME NEW e \in Events PROVE PostedOK(w, e)'
  BY <1>1, <1>5, <1>6 DEF PostedOK, HeldAnswers, Outcomes, SameEvent, Load
<1>7. QED
  BY <1>2, <1>4, <1>6

LEMMA SendInv ==
  ASSUME NEW w \in Processes, Processes = {w}, OutboxInv, OutboxTypeOK',
         NEW outcome \in Outcomes, Send(w, outcome)
  PROVE  OutboxInv'
<1> USE DEF OutboxInv
<1>1. process[w].step = "sending"
  BY DEF Send
<1>2. AtHand(w) \in process[w].batch /\ event[AtHand(w)].status = "processing"
      /\ process[w].attempt = event[AtHand(w)].attempts + 1
  BY <1>1 DEF HandOK
<1>3. PICK e \in Events : e = AtHand(w)
  BY <1>2 DEF OutboxTypeOK, Process
<1>4. /\ posted' = posted \/ posted' = [posted EXCEPT ![e] = @ + 1]
      /\ outcome = "success" => posted' # posted
      /\ event' = event /\ answers' = answers /\ crashes' = crashes
  BY <1>3 DEF Send
<1>5. /\ posted'[e] \in {posted[e], posted[e] + 1}
      /\ outcome = "success" => posted'[e] = posted[e] + 1
      /\ \A f \in Events : f # e => posted'[f] = posted[f]
  BY <1>4 DEF OutboxTypeOK
<1>6. /\ process'[w].batch = process[w].batch
      /\ process'[w].step = outcome
      /\ process'[w].attempt = process[w].attempt
      /\ outcome = "success" => process'[w].reference = posted'[e]
  BY <1>3 DEF Send, OutboxTypeOK, Process
<1>7. AtHand(w)' = e
  BY <1>3, <1>6, SameBatch
<1>8. \A f \in Events : posted[f] \in Nat /\ posted'[f] \in Nat
  BY DEF OutboxTypeOK
<1>9. ASSUME NEW f \in Events PROVE CountsOK(f)' /\ ReferenceOK(f)'
  <2>1. posted'[f] >= posted[f]
    BY <1>5, <1>8
  <2>2. answers[f].reference \in 1..posted[f] => answers[f].reference \in 1..posted'[f]
    BY <1>8, <2>1
  <2>3. QED
    BY <1>4, <2>2 DEF CountsOK, ReferenceOK
<1>10. HandOK(w)'
  <2>1. outcome = "success" => process'[w].reference \in 1..posted'[e]
    <3> SUFFICES ASSUME outcome = "success" PROVE process'[w].reference \in 1..posted'[e]
      OBVIOUS
    <3>1. posted'[e] = posted[e] + 1 /\ posted[e] \in Nat
      BY <1>5, <1>8
    <3>2. process'[w].reference = posted[e] + 1
      BY <1>6, <3>1
    <3>3. QED
      BY <3>1, <3>2
  <2>2. QED
    BY <1>2, <1>3, <1>4, <1>6, <1>7, <2>1 DEF HandOK
<1>11. ASSUME NEW f \in Events PROVE PostedOK(w, f)'
  <2>1. HeldAnswers(w, f) = 0
    BY <1>1 DEF HeldAnswers, Outcomes
  <2>2. HeldAnswers(w, f)' = IF f = e THEN 1 ELSE 0
    BY <1>6, <1>7 DEF HeldAnswers
  <2>3. /\ posted[f] <= answers[f].succeeded + answers[f].failed + crashes
        /\ answers[f].succeeded \in Nat /\ answers[f].failed \in Nat /\ crashes \in Nat
    BY <2>1 DEF PostedOK, OutboxTypeOK, Attempts
  <2>4. posted'[f] <= answers[f].succeeded + answers[f].failed + crashes
                        + IF f = e THEN 1 ELSE 0
    <3>1. posted'[f] <= posted[f] + IF f = e THEN 1 ELSE 0
      BY <1>5, <1>8
    <3>2. posted[f] \in Nat /\ posted'[f] \in Nat
      BY <1>8
    <3>3. QED
      BY <2>3, <3>1, <3>2
  <2>5. QED
    BY <1>4, <2>2, <2>4 DEF PostedOK
<1>12. QED
  BY <1>9, <1>10, <1>11

LEMMA CommitInv ==
  ASSUME NEW w \in Processes, Processes = {w}, OutboxInv, OutboxTypeOK', Commit(w)
  PROVE  OutboxInv'
<1> USE DEF OutboxInv
<1> DEFINE outcome == process[w].step
<1>1. outcome \in Outcomes /\ outcome # "next"
  BY DEF Commit, Outcomes
<1>2. /\ AtHand(w) \in process[w].batch /\ event[AtHand(w)].status = "processing"
      /\ process[w].attempt = event[AtHand(w)].attempts + 1
      /\ outcome = "success" => process[w].reference \in 1..posted[AtHand(w)]
  BY <1>1 DEF HandOK
<1>3. PICK e \in Events : e = AtHand(w)
  BY <1>2 DEF OutboxTypeOK, Process
<1>4. /\ event' = [event EXCEPT ![e].status = Settled(outcome, process[w].attempt),
                                ![e].attempts = process[w].attempt]
      /\ answers' = [answers EXCEPT ![e] =
                       Answered(@, outcome, process[w].reference)]
      /\ process'[w].step = "next"
      /\ posted' = posted /\ crashes' = crashes
  BY <1>3 DEF Commit, OutboxTypeOK, Process, Idle
<1> HIDE DEF outcome
<1>5. \A f \in Events : f # e => SameEvent(f)
  BY <1>4 DEF SameEvent, OutboxTypeOK
<1>6. /\ event'[e].status = Settled(outcome, event[e].attempts + 1)
      /\ event'[e].attempts = event[e].attempts + 1
      /\ event'[e].retries = event[e].retries
  BY <1>2, <1>3, <1>4 DEF OutboxTypeOK, OutboxEvent
<1>7. answers'[e] = Answered(answers[e], outcome, process[w].reference)
  BY <1>4 DEF OutboxTypeOK
<1>8. /\ event[e].attempts = answers[e].succeeded + answers[e].failed
      /\ answers[e].succeeded = 0
      /\ event[e].attempts < MaxAttempts + event[e].retries
  BY <1>2, <1>3 DEF CountsOK
<1>9. /\ event[e].attempts \in Nat /\ event[e].retries \in Nat
      /\ answers[e].failed \in Nat /\ answers[e] \in Attempts /\ posted[e] \in Nat
      /\ crashes \in Nat
  BY DEF OutboxTypeOK, OutboxEvent, Attempts
<1>10. /\ CountsOK(e)' /\ ReferenceOK(e)'
       /\ answers'[e].succeeded + answers'[e].failed
            = answers[e].succeeded + answers[e].failed + 1
  <2>1. CASE outcome = "success"
    <3>1. event'[e].status = "succeeded"
      BY <1>6, <2>1 DEF Settled
    <3>2. /\ answers'[e].succeeded = 1 /\ answers'[e].failed = answers[e].failed
          /\ answers'[e].reference \in 1..posted[e]
      BY <1>2, <1>3, <1>7, <1>8, <2>1 DEF Answered
    <3>3. QED
      BY <1>4, <1>6, <1>8, <1>9, <3>1, <3>2 DEF CountsOK, ReferenceOK
  <2>2. CASE outcome # "success"
    <3>1. /\ event'[e].status \in {"pending", "requires_review"}
          /\ event'[e].status = "pending" => event[e].attempts + 1 < MaxAttempts
      BY <1>6, <2>2 DEF Settled
    <3>2. answers'[e].succeeded = 0 /\ answers'[e].failed = answers[e].failed + 1
      BY <1>7, <1>8, <1>9, <2>2 DEF Answered, Attempts
    <3>3. QED
      BY <1>6, <1>8, <1>9, <3>1, <3>2 DEF CountsOK, ReferenceOK
  <2>3. QED
    BY <2>1, <2>2
<1>11. ASSUME NEW f \in Events PROVE CountsOK(f)' /\ ReferenceOK(f)'
  BY <1>5, <1>10, SameEventOK
<1>12. HandOK(w)'
  BY <1>4 DEF HandOK
<1>13. ASSUME NEW f \in Events PROVE PostedOK(w, f)'
  <2>1. HeldAnswers(w, f)' = 0
    BY <1>4 DEF HeldAnswers, Outcomes
  <2>2. CASE f = e
    <3>1. PostedOK(w, e)
      OBVIOUS
    <3>2. posted[e] <= answers[e].succeeded + answers[e].failed + crashes + 1
      <4>1. posted[e] <= answers[e].succeeded + answers[e].failed + crashes
                           + HeldAnswers(w, e)
        BY <3>1 DEF PostedOK
      <4>2. HeldAnswers(w, e) = 0 \/ HeldAnswers(w, e) = 1
        BY DEF HeldAnswers
      <4>3. /\ answers[e].succeeded \in Nat /\ answers[e].failed \in Nat
            /\ posted[e] \in Nat /\ crashes \in Nat
        BY <1>8, <1>9
      <4> HIDE DEF OutboxInv
      <4>4. QED
        BY <4>1, <4>2, <4>3
    <3>3. QED
      BY <1>4, <1>8, <1>9, <1>10, <2>1, <2>2, <3>2 DEF PostedOK
  <2>3. CASE f # e
    <3>1. HeldAnswers(w, f) = 0
      BY <1>3, <2>3 DEF HeldAnswers
    <3>2. QED
      BY <1>4, <1>5, <2>1, <2>3, <3>1 DEF PostedOK, SameEvent
  <2>4. QED
    BY <2>2, <2>3
<1>14. QED
  BY <1>11, <1>12, <1>13

LEMMA CrashInv ==
  ASSUME NEW w \in Processes, Processes = {w}, OutboxInv, OutboxTypeOK', Crash(w)
  PROVE  OutboxInv'
<1> USE DEF OutboxInv
<1>1. \A e \in Events : SameEvent(e)
  BY DEF SameEvent, Crash
<1>2. process'[w].step = "next" /\ crashes' = crashes + 1
  BY DEF Crash, Idle, OutboxTypeOK
<1>3. ASSUME NEW e \in Events PROVE CountsOK(e)' /\ ReferenceOK(e)'
  BY <1>1, SameEventOK
<1>4. HandOK(w)'
  BY <1>2 DEF HandOK
<1>5. ASSUME NEW e \in Events PROVE PostedOK(w, e)'
  <2>1. HeldAnswers(w, e) \in {0, 1} /\ HeldAnswers(w, e)' = 0
    BY <1>2 DEF HeldAnswers, Outcomes
  <2>2. /\ posted[e] \in Nat /\ crashes \in Nat
        /\ answers[e].succeeded \in Nat /\ answers[e].failed \in Nat
    BY DEF OutboxTypeOK, Attempts
  <2>3. QED
    BY <1>1, <1>2, <2>1, <2>2 DEF PostedOK, SameEvent
<1>6. QED
  BY <1>3, <1>4, <1>5

\* Enqueue, Retry and the passing of time.
LEMMA EventInv ==
  ASSUME NEW w \in Processes, Processes = {w}, OutboxInv, OutboxTypeOK', NEW e \in Events,
         Enqueue(e) \/ Retry(e) \/ BackoffEnds(e) \/ GoesStale(e)
  PROVE  OutboxInv'
<1> USE DEF OutboxInv
<1>1. /\ answers' = answers /\ posted' = posted /\ process' = process /\ crashes' = crashes
      /\ \A f \in Events \ {e} : event'[f] = event[f]
      /\ \/ event'[e] = event[e]
         \/ /\ event[e].status \in {"absent", "requires_review"}
            /\ event'[e].status = "pending"
            /\ event'[e].attempts = event[e].attempts
            /\ event'[e].retries = IF event[e].status = "absent"
                                  THEN event[e].retries ELSE event[e].retries + 1
  BY DEF Enqueue, Retry, BackoffEnds, GoesStale, WithStatus, OutboxTypeOK, OutboxEvent
<1>2. /\ event[e].attempts \in Nat /\ event[e].retries \in Nat
  BY DEF OutboxTypeOK, OutboxEvent
<1>3. ASSUME NEW f \in Events PROVE CountsOK(f)' /\ ReferenceOK(f)'
  <2>1. CASE event'[f] = event[f]
    BY <1>1, <2>1, SameEventOK DEF SameEvent
  <2>2. CASE event'[f] # event[f]
    <3>1. f = e
      BY <1>1, <2>2
    <3>2. QED
      BY <1>1, <1>2, <2>2, <3>1 DEF CountsOK, ReferenceOK
  <2>3. QED
    BY <2>1, <2>2
<1>4. AtHand(w)' = AtHand(w)
  BY <1>1, SameBatch
<1>5. HandOK(w)'
  <2>1. CASE process[w].step = "next"
    BY <1>1, <2>1 DEF HandOK
  <2>2. CASE process[w].step # "next"
    <3>1. /\ AtHand(w) \in process[w].batch
          /\ event[AtHand(w)].status = "processing"
      BY <2>2 DEF HandOK
    <3>2. AtHand(w) \in Events
      BY <3>1 DEF OutboxTypeOK, Process
    <3>3. event'[AtHand(w)] = event[AtHand(w)]
      BY <1>1, <3>1, <3>2
    <3>4. QED
      BY <1>1, <1>4, <3>3 DEF HandOK
  <2>3. QED
    BY <2>1, <2>2
<1>6. ASSUME NEW f \in Events PROVE PostedOK(w, f)'
  BY <1>1, <1>4 DEF PostedOK, HeldAnswers
<1>7. QED
  BY <1>3, <1>5, <1>6

LEMMA OutboxStep ==
  ASSUME OneProcess, OutboxInv, [OutboxNext]_outboxVars
  PROVE  OutboxInv'
<1>1. PICK w \in Processes : Processes = {w}
  BY DEF OneProcess
<1>2. OutboxTypeOK'
  BY OutboxTypeStep DEF OutboxInv
<1>3. CASE UNCHANGED outboxVars
  <2>1. ASSUME NEW e \in Events PROVE CountsOK(e)' /\ ReferenceOK(e)'
    BY <1>3, SameEventOK DEF SameEvent, OutboxInv, outboxVars
  <2>2. AtHand(w)' = AtHand(w)
    BY <1>3, SameBatch DEF outboxVars
  <2>3. HandOK(w)' /\ \A e \in Events : PostedOK(w, e)'
    BY <1>3, <2>2 DEF OutboxInv, HandOK, PostedOK, HeldAnswers, outboxVars
  <2>4. Processes' = Processes
    OBVIOUS
  <2>5. QED
    BY <1>1, <1>2, <2>1, <2>3 DEF OutboxInv
<1>4. CASE OutboxNext
  BY <1>1, <1>2, <1>4, ClaimBatchInv, LoadInv, SendInv, CommitInv, CrashInv, EventInv
  DEF OutboxNext
<1>5. QED
  BY <1>3, <1>4

-----------------------------------------------------------------------------
(***************************************************************************)
(* What follows for the worker                                             *)
(***************************************************************************)

\* Rows and processes keep their types, however many processes there are.
THEOREM OutboxTypesAreCorrect == OutboxSpec => []OutboxTypeOK
<1>1. OutboxInit => OutboxTypeOK
  BY OutboxInitial DEF OutboxInv
<1>2. OutboxTypeOK /\ [OutboxNext]_outboxVars => OutboxTypeOK'
  BY OutboxTypeStep
<1>3. QED
  BY <1>1, <1>2, PTL DEF OutboxSpec

\* The invariant holds for every number of events, attempts, crashes and retries.
THEOREM OutboxInvariance ==
  ASSUME OneProcess
  PROVE  OutboxSpec => []OutboxInv
<1>1. OutboxInit => OutboxInv
  BY OutboxInitial
<1>2. OutboxInv /\ [OutboxNext]_outboxVars => OutboxInv'
  BY OutboxStep
<1>3. QED
  BY <1>1, <1>2, PTL DEF OutboxSpec

\* What Spectrum confirmed is confirmed once, stays SUCCEEDED and is not sent
\* again.
THEOREM ConfirmedOnce ==
  ASSUME OneProcess
  PROVE  OutboxSpec => []ConfirmedIsNotSentAgain
<1>1. ASSUME OutboxInv PROVE ConfirmedIsNotSentAgain
  <2>1. ASSUME NEW e \in Events
        PROVE  /\ answers[e].succeeded <= 1
               /\ answers[e].succeeded = 1 <=> event[e].status = "succeeded"
    <3>1. answers[e].succeeded = IF event[e].status = "succeeded" THEN 1 ELSE 0
      BY <1>1 DEF OutboxInv, CountsOK
    <3>2. QED
      BY <3>1
  <2>2. ASSUME NEW w \in Processes, process[w].step # "next"
        PROVE  answers[AtHand(w)].succeeded = 0
    <3>1. /\ AtHand(w) \in process[w].batch
          /\ event[AtHand(w)].status = "processing"
      BY <1>1, <2>2 DEF OutboxInv, HandOK
    <3>2. AtHand(w) \in Events
      BY <1>1, <3>1 DEF OutboxInv, OutboxTypeOK, Process
    <3>3. QED
      BY <1>1, <3>1, <3>2 DEF OutboxInv, CountsOK
  <2>3. QED
    BY <2>1, <2>2 DEF ConfirmedIsNotSentAgain
<1>2. QED
  BY <1>1, OutboxInvariance, PTL

\* The recorded attempts number at most MAX_ATTEMPTS and one more per retry.
THEOREM AttemptsAreBounded ==
  ASSUME OneProcess
  PROVE  OutboxSpec => []RetriesAreBounded
<1>1. OutboxInv => RetriesAreBounded
  BY DEF OutboxInv, CountsOK, RetriesAreBounded
<1>2. QED
  BY <1>1, OutboxInvariance, PTL

\* A transaction is posted twice only if an answer of Spectrum was lost.
THEOREM DuplicatesAreExplained ==
  ASSUME OneProcess
  PROVE  OutboxSpec => []DuplicatesAreLostAnswers
<1>1. ASSUME OutboxInv, NEW e \in Events
      PROVE  posted[e] <= answers[e].succeeded + answers[e].failed + crashes
               + Cardinality({w \in Processes : /\ process[w].step \in Outcomes
                                                /\ AtHand(w) = e})
  <2> DEFINE Holding == {w \in Processes : /\ process[w].step \in Outcomes
                                           /\ AtHand(w) = e}
  <2>1. PICK w \in Processes : Processes = {w}
    BY DEF OneProcess
  <2>2. Holding = IF process[w].step \in Outcomes /\ AtHand(w) = e THEN {w} ELSE {}
    BY <2>1
  <2>3. Cardinality(Holding) = HeldAnswers(w, e)
    BY <2>2, FS_EmptySet, FS_Singleton DEF HeldAnswers
  <2>4. QED
    BY <1>1, <2>3 DEF OutboxInv, PostedOK
<1>2. OutboxInv => DuplicatesAreLostAnswers
  BY <1>1 DEF DuplicatesAreLostAnswers
<1>3. QED
  BY <1>2, OutboxInvariance, PTL

-----------------------------------------------------------------------------
(***************************************************************************)
(* What follows for a reconciliation run beside the worker                 *)
(***************************************************************************)

\* What a run has seen as delivered stays delivered, and its verdicts say no
\* more than what was seen.
ReportInv ==
  /\ report \in Report
  /\ \A e \in report.seen : event[e].status = "succeeded"
  /\ ReportIsTrue

\* A success stays what it is, and Spectrum keeps what it has.
LEMMA SuccessStays ==
  ASSUME OneProcess, OutboxInv, [OutboxNext]_outboxVars, NEW e \in Events
  PROVE  /\ event[e].status = "succeeded" => event'[e].status = "succeeded"
         /\ posted'[e] >= posted[e]
<1> USE DEF OutboxInv, OutboxTypeOK
<1>1. PICK w \in Processes : Processes = {w}
  BY DEF OneProcess
<1>2. posted[e] \in Nat
  OBVIOUS
<1>3. CASE ClaimBatch(w) \/ Load(w) \/ Crash(w)
  <2>1. posted' = posted
    BY <1>3 DEF ClaimBatch, Load, Crash
  <2>2. CASE ClaimBatch(w)
    <3>1. event[e].status = "succeeded" => e \notin Oldest(Claimable) /\ e \notin Abandoned
      BY DEF Oldest, Claimable, Abandoned
    <3>2. event[e].status = "succeeded" => event'[e] = event[e]
      BY <2>2, <3>1 DEF ClaimBatch
    <3>3. QED
      BY <1>2, <2>1, <3>2
  <2>3. CASE Load(w) \/ Crash(w)
    BY <1>2, <2>1, <2>3 DEF Load, Crash
  <2>4. QED
    BY <1>3, <2>2, <2>3
<1>4. CASE Commit(w)
  <2>1. AtHand(w) \in process[w].batch /\ event[AtHand(w)].status = "processing"
    BY <1>4 DEF Commit, HandOK, Outcomes
  <2>2. event[e].status = "succeeded" => e # AtHand(w)
    BY <2>1
  <2>3. QED
    BY <1>2, <1>4, <2>2 DEF Commit
<1>5. CASE \E outcome \in Outcomes : Send(w, outcome)
  <2>1. posted' = posted \/ posted' = [posted EXCEPT ![AtHand(w)] = @ + 1]
    BY <1>5 DEF Send
  <2>2. posted'[e] = posted[e] \/ posted'[e] = posted[e] + 1
    BY <2>1
  <2>3. event' = event
    BY <1>5 DEF Send
  <2>4. QED
    BY <1>2, <2>2, <2>3
<1>6. CASE \E f \in Events : Enqueue(f) \/ Retry(f) \/ BackoffEnds(f) \/ GoesStale(f)
  BY <1>2, <1>6 DEF Enqueue, Retry, BackoffEnds, GoesStale, WithStatus
<1>7. CASE UNCHANGED outboxVars
  BY <1>2, <1>7 DEF outboxVars
<1>8. QED
  BY <1>1, <1>3, <1>4, <1>5, <1>6, <1>7 DEF OutboxNext

LEMMA ReportStep ==
  ASSUME OneProcess, OutboxInv, ReportInv, [ReconciliationNext]_reconciliationVars
  PROVE  ReportInv'
<1>1. ASSUME [OutboxNext]_outboxVars, UNCHANGED report PROVE ReportInv'
  <2>1. \A e \in Events :
          /\ event[e].status = "succeeded" => event'[e].status = "succeeded"
          /\ posted'[e] >= posted[e] /\ posted[e] \in Nat /\ posted'[e] \in Nat
    BY <1>1, SuccessStays, OutboxTypeStep DEF OutboxInv, OutboxTypeOK
  <2>2. \A e \in report'.seen : event'[e].status = "succeeded"
    BY <1>1, <2>1 DEF ReportInv, Report
  <2>3. ASSUME NEW e \in Events
        PROVE  /\ report'.verdict[e] = "matched" =>
                    event'[e].status = "succeeded" /\ posted'[e] >= 1
               /\ report'.verdict[e] = "reference_mismatch" => posted'[e] >= 2
               /\ report'.verdict[e] # "missing_remote"
    BY <1>1, <2>1 DEF ReportInv, ReportIsTrue
  <2>4. QED
    BY <1>1, <2>2, <2>3 DEF ReportInv, ReportIsTrue
<1>2. CASE StartRun
  <2>1. /\ report'.seen = {e \in Queued : event[e].status = "succeeded"}
        /\ report'.verdict = [e \in Events |-> IF e \in Queued THEN "waiting" ELSE "unread"]
        /\ event' = event
    BY <1>2 DEF StartRun, outboxVars
  <2>2. QED
    BY <1>2, <2>1 DEF ReportInv, ReportIsTrue, Queued, Verdicts, Report, StartRun
<1>3. ASSUME NEW e \in Events, CompareEvent(e) PROVE ReportInv'
  <2>1. PICK found \in Found(e) : report' = [report EXCEPT !.verdict[e] = VerdictOf(e, found)]
    BY <1>3 DEF CompareEvent
  <2>2. event' = event /\ posted' = posted
    BY <1>3 DEF CompareEvent, outboxVars
  <2>3. /\ report'.seen = report.seen
        /\ report'.verdict = [report.verdict EXCEPT ![e] = VerdictOf(e, found)]
    BY <2>1 DEF ReportInv, Report
  <2>4. VerdictOf(e, found) \in Verdicts
    BY DEF VerdictOf, Verdicts
  <2>5. posted[e] \in Nat
    BY DEF OutboxInv, OutboxTypeOK
  <2>6. e \in report.seen =>
          /\ event[e].status = "succeeded"
          /\ answers[e].reference \in 1..posted[e]
          /\ found \in 1..posted[e]
    <3> SUFFICES ASSUME e \in report.seen
                 PROVE  /\ event[e].status = "succeeded"
                        /\ answers[e].reference \in 1..posted[e]
                        /\ found \in 1..posted[e]
      OBVIOUS
    <3>1. event[e].status = "succeeded"
      BY DEF ReportInv
    <3>2. answers[e].reference \in 1..posted[e]
      BY <3>1 DEF OutboxInv, ReferenceOK
    <3>3. posted[e] # 0
      BY <2>5, <3>2
    <3>4. QED
      BY <3>1, <3>2, <3>3 DEF Found
  <2>7. /\ VerdictOf(e, found) = "matched" =>
             event[e].status = "succeeded" /\ posted[e] >= 1
        /\ VerdictOf(e, found) = "reference_mismatch" => posted[e] >= 2
        /\ VerdictOf(e, found) # "missing_remote"
    BY <2>5, <2>6 DEF VerdictOf
  <2>8. QED
    <3>1. report' \in Report
      BY <2>1, <2>4 DEF ReportInv, Report
    <3>2. QED
      BY <2>2, <2>3, <2>7, <3>1 DEF ReportInv, Report, ReportIsTrue
<1>4. CASE CompleteRun
  <2>1. report'.seen = report.seen /\ report'.verdict = report.verdict
    BY <1>4 DEF CompleteRun, ReportInv, Report
  <2>2. event' = event /\ posted' = posted
    BY <1>4 DEF CompleteRun, outboxVars
  <2>3. report' \in Report
    BY <1>4 DEF CompleteRun, ReportInv, Report
  <2>4. QED
    BY <2>1, <2>2, <2>3 DEF ReportInv, ReportIsTrue
<1>5. CASE AbortRun
  BY <1>5 DEF AbortRun, NoReport, ReportInv, ReportIsTrue, Verdicts, Report
<1>6. CASE UNCHANGED reconciliationVars
  BY <1>1, <1>6 DEF reconciliationVars, outboxVars
<1>7. QED
  BY <1>1, <1>2, <1>3, <1>4, <1>5, <1>6 DEF ReconciliationNext

\* What a report says of an event remains true while the worker goes on, but
\* for the verdict delivery_state, which the worker may settle.
THEOREM ReportsAreTrue ==
  ASSUME OneProcess
  PROVE  ReconciliationSpec => []ReportIsTrue
<1>1. ReconciliationInit => OutboxInv /\ ReportInv
  BY OutboxInitial
  DEF ReconciliationInit, NoReport, ReportInv, ReportIsTrue, Verdicts, Report
<1>2. [ReconciliationNext]_reconciliationVars => [OutboxNext]_outboxVars
  BY DEF ReconciliationNext, reconciliationVars, StartRun, CompleteRun, AbortRun, CompareEvent
<1>3. OutboxInv /\ ReportInv /\ [ReconciliationNext]_reconciliationVars
        => (OutboxInv /\ ReportInv)'
  BY <1>2, OutboxStep, ReportStep
<1>4. ReportInv => ReportIsTrue
  BY DEF ReportInv
<1>5. QED
  BY <1>1, <1>3, <1>4, PTL DEF ReconciliationSpec
=============================================================================

--------------------------- MODULE Reconciliation ---------------------------
(***************************************************************************)
(* ReconciliationService.run beside the outbox worker.  The run reads all  *)
(* events in one query and keeps the objects; it then compares them one by *)
(* one with what the adapter finds, which takes as long as Spectrum takes. *)
(* Meanwhile the worker sends, is killed and sends again, and managers     *)
(* retry.  Nothing is locked and nothing is read a second time, except the *)
(* reference of the successful attempt.                                    *)
(***************************************************************************)
EXTENDS OutboxWorker

VARIABLE report  \* the ReconciliationRun: what it read, and its verdicts

\* An event is not in the report, still to be compared, equal on both sides,
\* or one of the three kinds of difference.
Verdicts ==
  { "unread", "waiting", "matched", "delivery_state", "missing_remote",
    "reference_mismatch" }

\* seen: the events that were SUCCEEDED when the run read them.
Report == [status : {"none", "running", "completed"},
           seen : SUBSET Events, verdict : [Events -> Verdicts]]

reconciliationVars == <<outboxVars, report>>

NoReport ==
  [status |-> "none", seen |-> {}, verdict |-> [e \in Events |-> "unread"]]

-----------------------------------------------------------------------------
Queued == {e \in Events : event[e].status # "absent"}

StartRun ==
  /\ report.status # "running"
  /\ report' = [status |-> "running",
                seen |-> {e \in Queued : event[e].status = "succeeded"},
                verdict |-> [e \in Events |->
                               IF e \in Queued THEN "waiting" ELSE "unread"]]
  /\ UNCHANGED outboxVars

\* adapter.find_transaction (external): one of the transactions Spectrum has
\* for the event, 0 if it has none.
Found(e) == IF posted[e] = 0 THEN {0} ELSE 1..posted[e]

\* Mistake: the state of the delivery is not looked at.
VerdictByReference(e, found) ==
  CASE found = 0 -> "missing_remote"
    [] found # answers[e].reference -> "reference_mismatch"
    [] OTHER -> "matched"

\* _compare_event
VerdictOf(e, found) ==
  CASE e \notin report.seen -> "delivery_state"
    [] e \in report.seen /\ found = 0 -> "missing_remote"
    [] e \in report.seen /\ found # 0 /\ found # answers[e].reference ->
         "reference_mismatch"
    [] OTHER -> "matched"

\* The loop over the events in the order of created_at.
CompareEvent(e) ==
  /\ report.status = "running"
  /\ report.verdict[e] = "waiting"
  /\ \A f \in Events : report.verdict[f] = "waiting" => e <= f
  /\ \E found \in Found(e) :
       report' = [report EXCEPT !.verdict[e] = VerdictOf(e, found)]
  /\ UNCHANGED outboxVars

\* All counts are written and committed together.
CompleteRun ==
  /\ report.status = "running"
  /\ \A e \in Events : report.verdict[e] # "waiting"
  /\ report' = [report EXCEPT !.status = "completed"]
  /\ UNCHANGED outboxVars

\* find_transaction raises: the transaction is rolled back, and with it the row
\* of the run.
AbortRun ==
  /\ report.status = "running"
  /\ report' = NoReport
  /\ UNCHANGED outboxVars

ReconciliationInit == OutboxInit /\ report = NoReport

ReconciliationNext ==
  \/ OutboxNext /\ UNCHANGED report
  \/ StartRun \/ CompleteRun \/ AbortRun
  \/ \E e \in Events : CompareEvent(e)

ReconciliationSpec ==
  ReconciliationInit /\ [][ReconciliationNext]_reconciliationVars /\ OutboxFairness

-----------------------------------------------------------------------------
\* Three of the four verdicts remain true while the worker goes on: an event
\* counted as matched is delivered, a mismatch means that Spectrum has the issue
\* twice, and nothing is reported as missing from Spectrum.  The fourth,
\* delivery_state, is of the moment: the worker may deliver the event next.
ReportIsTrue ==
  \A e \in Events :
    /\ report.verdict[e] = "matched" =>
         event[e].status = "succeeded" /\ posted[e] >= 1
    /\ report.verdict[e] = "reference_mismatch" => posted[e] >= 2
    /\ report.verdict[e] # "missing_remote"
=============================================================================

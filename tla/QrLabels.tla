------------------------------ MODULE QrLabels ------------------------------
(***************************************************************************)
(* QrService: labels printed for locations.  (Labels for items and for     *)
(* requests differ in the table that is read; no row of any of the three   *)
(* is ever deleted.)  A scan takes the time when it begins and may then    *)
(* wait for the row of the label; once it has it, the database decides     *)
(* again whether the label is revoked, and whether it is expired at the    *)
(* time the scan began.                                                    *)
(***************************************************************************)
EXTENDS Locations

CONSTANT Labels  \* bound: labels that can be printed

VARIABLES
  label,  \* QrToken rows
  scan    \* the label a scan has found active and waits for

labelVars == <<label, scan>>

QrToken ==
  [status : {"absent", "active", "revoked"}, target : SUBSET LocationIds,
   expires : {"never", "later", "past"}, resolved : BOOLEAN]

NoToken ==
  [status |-> "absent", target |-> {}, expires |-> "never", resolved |-> FALSE]

LabelTypeOK ==
  /\ label \in [Labels -> QrToken]
  /\ scan \in [Calls -> SUBSET Labels]

LabelInit ==
  /\ label = [q \in Labels |-> NoToken]
  /\ scan = [c \in Calls |-> {}]

-----------------------------------------------------------------------------
\* create: _target_details raises if there is no such location.
CreateLabel(c, q, l, expires) ==
  /\ call[c].doing = "label"
  /\ label[q] = NoToken
  /\ LocationExists(l)
  /\ label' = [label EXCEPT ![q] =
                 [NoToken EXCEPT !.status = "active", !.target = {l},
                                 !.expires = expires]]
  /\ call' = Ended(c)
  /\ UNCHANGED <<account, session, locationVars, scan>>

LabelExpires(q) ==
  /\ label[q].expires = "later"
  /\ label' = [label EXCEPT ![q].expires = "past"]
  /\ UNCHANGED <<identityVars, locationVars, scan>>

\* revoke sets revoked_at once.
RevokeLabel(c, q) ==
  /\ call[c].doing = "label"
  /\ label[q] # NoToken
  /\ label' = [label EXCEPT ![q].status = "revoked"]
  /\ call' = Ended(c)
  /\ UNCHANGED <<account, session, locationVars, scan>>

\* The query of resolve finds the row, or raises NotFoundError.
StartScan(c, q) ==
  /\ call[c].doing = "scan"
  /\ scan[c] = {}
  /\ label[q].status = "active"
  /\ label[q].expires # "past"
  /\ scan' = [scan EXCEPT ![c] = {q}]
  /\ UNCHANGED <<identityVars, locationVars, label>>

\* Mistake: the row is locked, but read as it was found.
WasActive(q) == label[q] # NoToken

\* What the database decides again once the row is locked.
IsStillActive(q) == label[q].status = "active"

ResolveLabel(c) ==
  \E q \in scan[c] :
    /\ IsStillActive(q)
    /\ label' = [label EXCEPT ![q].resolved = TRUE]
    /\ scan' = [scan EXCEPT ![c] = {}]
    /\ call' = Ended(c)
    /\ UNCHANGED <<account, session, locationVars>>
=============================================================================

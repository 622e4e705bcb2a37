----------------------------- MODULE BackOffice -----------------------------
(***************************************************************************)
(* The administration of the warehouse: user accounts, locations and QR    *)
(* labels are changed by calls that are let in by their sessions and run   *)
(* side by side.                                                           *)
(***************************************************************************)
EXTENDS QrLabels

officeVars == <<identityVars, locationVars, labelVars>>

\* Every row has its type, and only a call that is about locations, or a scan,
\* holds a row.
OfficeTypeOK ==
  /\ IdentityTypeOK /\ LocationTypeOK /\ LabelTypeOK
  /\ \A c \in Calls :
       /\ edit[c] # {} => call[c].doing = "location"
       /\ scan[c] # {} => call[c].doing = "scan"

OfficeInit == IdentityInit /\ LocationInit /\ LabelInit

\* Mistake: the transaction of a handler that raised is left open.
FailHoldingRows(c) ==
  /\ call[c] # IdleCall
  /\ call' = Ended(c)
  /\ UNCHANGED <<account, session, locationVars, labelVars>>

\* The handler raises, or the client has gone: everything is rolled back.
Fail(c) ==
  /\ call[c] # IdleCall
  /\ call' = Ended(c)
  /\ edit' = [edit EXCEPT ![c] = {}]
  /\ scan' = [scan EXCEPT ![c] = {}]
  /\ UNCHANGED <<account, session, location, mapCell, label>>

OfficeNext ==
  \/ IdentityNext /\ UNCHANGED <<locationVars, labelVars>>
  \/ /\ \E c \in Calls :
          \/ SaveLocation(c)
          \/ \E l \in LocationIds, code \in Codes, at \in Cells \union {NoCell} :
               CheckLocation(c, l, code, at)
     /\ UNCHANGED labelVars
  \/ \E c \in Calls :
       \/ ResolveLabel(c) \/ Fail(c)
       \/ \E q \in Labels :
            \/ StartScan(c, q) \/ RevokeLabel(c, q)
            \/ \E l \in LocationIds, expires \in {"never", "later"} :
                 CreateLabel(c, q, l, expires)
  \/ \E q \in Labels : LabelExpires(q)

OfficeSpec == OfficeInit /\ [][OfficeNext]_officeVars

-----------------------------------------------------------------------------
\* Two locations never share a code or a cell of the map, although the calls
\* that set them check first and write later.
LocationsAreDistinct ==
  \A l, m \in LocationIds :
    (l # m /\ LocationExists(l) /\ LocationExists(m)) =>
      /\ location[l] # location[m]
      /\ HasMapCell(l) => mapCell[l].at # mapCell[m].at

\* The two tables agree: whatever calls rename and move in whichever order,
\* each deciding by the cell it found to insert, to update or to leave the map
\* alone, a cell of the map is that of a location that exists and is labelled
\* with the code the location has now.
MapShowsCodes ==
  \A l \in LocationIds :
    HasMapCell(l) => LocationExists(l) /\ mapCell[l].label = location[l]

\* remaining_work.md, "self-lockout protection": the last administrator is lost
\* only by the call of somebody who has lost that role since the call was let
\* in (two administrators who disable each other at the same time).
AdministratorRemains ==
  [][(Administrators # {} /\ Administrators' = {}) =>
       \E c \in Calls : /\ call'[c] # call[c]
                        /\ call[c].doing = "users"
                        /\ call[c].by \notin Administrators]_officeVars

\* test_role_change_invalidates_existing_sessions: no session that exists
\* survives a change of its account, whichever calls overlap.
UpdateEndsSessions ==
  [][\A s \in Sessions :
       (/\ session[s] # Nobody
        /\ account'[session[s]] # account[session[s]])
       => session'[s] = Nobody]_officeVars

\* A label that was revoked is never resolved again, by a scan that began
\* before it was revoked neither.
RevokedIsFinal ==
  [][\A q \in Labels :
       label[q].status = "revoked" =>
         /\ label'[q].status = "revoked"
         /\ label'[q].resolved = label[q].resolved]_officeVars
=============================================================================

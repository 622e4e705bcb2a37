-------------------------- MODULE BackOfficeProofs --------------------------
(***************************************************************************)
(* The back office for every number of users, sessions, calls, locations   *)
(* and labels: codes, cells and labels by an inductive invariant, and what *)
(* a step may never do to accounts, sessions and labels.                   *)
(***************************************************************************)
EXTENDS BackOffice, TLAPS

USE IdentityAssumption, LocationAssumption

\* Why no save meets a surprise: one call at a time works on a location, and
\* what it found of the map cell is still so.
EditsAreCurrent ==
  /\ \A c, d \in Calls : \A e \in edit[c], f \in edit[d] : e.id = f.id => c = d
  /\ \A c \in Calls : \A e \in edit[c] : e.found <=> HasMapCell(e.id)

OfficeInvariant ==
  OfficeTypeOK /\ EditsAreCurrent /\ LocationsAreDistinct /\ MapShowsCodes

-----------------------------------------------------------------------------
(***************************************************************************)
(* Types, and which call holds which row                                   *)
(***************************************************************************)
LEMMA OfficeInitial == OfficeInit => OfficeInvariant
<1> SUFFICES ASSUME OfficeInit PROVE OfficeInvariant
  OBVIOUS
<1> USE DEF OfficeInit, IdentityInit, LocationInit, LabelInit
<1>1. IdentityTypeOK
  BY DEF IdentityTypeOK, Account, Roles, Call, Kinds, IdleCall
<1>2. LocationTypeOK
  BY DEF LocationTypeOK
<1>3. LabelTypeOK
  BY DEF LabelTypeOK, QrToken, NoToken
<1>4. EditsAreCurrent /\ LocationsAreDistinct /\ MapShowsCodes
  BY DEF EditsAreCurrent, LocationsAreDistinct, MapShowsCodes, LocationExists, HasMapCell
<1>5. QED
  BY <1>1, <1>2, <1>3, <1>4 DEF OfficeInvariant, OfficeTypeOK

\* Which rows a call holds matters only as long as it goes on.
LEMMA EndedCall ==
  ASSUME NEW c \in Calls, OfficeTypeOK, call' = Ended(c),
         edit' = [edit EXCEPT ![c] = {}] \/ (edit' = edit /\ call[c].doing # "location"),
         scan' = [scan EXCEPT ![c] = {}] \/ (scan' = scan /\ call[c].doing # "scan"),
         location' \in [LocationIds -> Codes \union {NoCode}],
         mapCell' \in [LocationIds -> MapGridCell \union {NoMapCell}],
         label' \in [Labels -> QrToken],
         account' \in [Accounts -> Account],
         session' \in [Sessions -> Accounts \union {Nobody}]
  PROVE  OfficeTypeOK'
<1> USE DEF OfficeTypeOK
<1>1. call' \in [Calls -> Call]
  BY DEF IdentityTypeOK, Ended, IdleCall, Call, Kinds
<1>2. /\ edit' \in [Calls -> SUBSET Edit]
      /\ \A d \in Calls : edit'[d] = {} \/ edit'[d] = edit[d]
      /\ edit'[c] = {}
  BY DEF LocationTypeOK
<1>3. /\ scan' \in [Calls -> SUBSET Labels]
      /\ \A d \in Calls : scan'[d] = {} \/ scan'[d] = scan[d]
      /\ scan'[c] = {}
  BY DEF LabelTypeOK
<1>4. \A d \in Calls : d # c => call'[d] = call[d]
  BY DEF IdentityTypeOK, Ended
<1>5. \A d \in Calls : /\ edit'[d] # {} => call'[d].doing = "location"
                       /\ scan'[d] # {} => call'[d].doing = "scan"
  BY <1>2, <1>3, <1>4
<1>6. \A d \in Calls : \A e, f \in edit'[d] : e = f
  BY <1>2 DEF LocationTypeOK
<1>7. QED
  BY <1>1, <1>2, <1>3, <1>5, <1>6 DEF IdentityTypeOK, LocationTypeOK, LabelTypeOK

\* A call begins only where none is under way.
LEMMA BegunCall ==
  ASSUME NEW c \in Calls, NEW begun \in Call, OfficeTypeOK, call[c] = IdleCall,
         call' = [call EXCEPT ![c] = begun],
         UNCHANGED <<account, session, locationVars, labelVars>>
  PROVE  OfficeTypeOK'
<1> USE DEF OfficeTypeOK
<1>1. call' \in [Calls -> Call] /\ \A d \in Calls : d # c => call'[d] = call[d]
  BY DEF IdentityTypeOK
<1>2. edit[c] = {} /\ scan[c] = {}
  BY DEF IdleCall
<1>3. \A d \in Calls : /\ edit'[d] # {} => call'[d].doing = "location"
                       /\ scan'[d] # {} => call'[d].doing = "scan"
  BY <1>1, <1>2 DEF locationVars, labelVars
<1>4. IdentityTypeOK'
  BY <1>1 DEF IdentityTypeOK
<1>5. LocationTypeOK' /\ LabelTypeOK'
  BY DEF LocationTypeOK, LabelTypeOK, locationVars, labelVars
<1>6. QED
  BY <1>3, <1>4, <1>5

LEMMA IdentityTypeStep ==
  ASSUME OfficeTypeOK, IdentityNext, UNCHANGED <<locationVars, labelVars>>
  PROVE  OfficeTypeOK'
<1> USE DEF OfficeTypeOK, IdentityTypeOK, locationVars, labelVars
<1>1. /\ location' \in [LocationIds -> Codes \union {NoCode}]
      /\ mapCell' \in [LocationIds -> MapGridCell \union {NoMapCell}]
      /\ label' \in [Labels -> QrToken]
  BY DEF LocationTypeOK, LabelTypeOK
<1>2. ASSUME NEW c \in Calls, NEW a \in Accounts, StartLogin(c, a) PROVE OfficeTypeOK'
  <2>1. [doing |-> "login", by |-> a] \in Call
    BY DEF Call, Kinds
  <2>2. QED
    BY <1>2, <2>1, BegunCall DEF StartLogin
<1>3. ASSUME NEW c \in Calls, NEW a \in Accounts, NEW roles \in SUBSET Roles,
             CreateUser(c, a, roles)
      PROVE  OfficeTypeOK'
  <2>1. account' \in [Accounts -> Account]
    BY <1>3 DEF CreateUser, Account
  <2>2. QED
    BY <1>1, <1>3, <2>1, EndedCall DEF CreateUser
<1>4. ASSUME NEW c \in Calls, NEW a \in Accounts, NEW roles \in SUBSET Roles,
             NEW status \in {"active", "disabled"}, UpdateUser(c, a, status, roles)
      PROVE  OfficeTypeOK'
  <2>1. account' \in [Accounts -> Account]
    BY <1>4 DEF UpdateUser, Account
  <2>2. session' \in [Sessions -> Accounts \union {Nobody}]
    BY <1>4 DEF UpdateUser, SessionsAfterUpdate
  <2>3. QED
    BY <1>1, <1>4, <2>1, <2>2, EndedCall DEF UpdateUser
<1>5. ASSUME NEW s \in Sessions, Logout(s) \/ SessionExpires(s) PROVE OfficeTypeOK'
  <2>1. session' \in [Sessions -> Accounts \union {Nobody}]
    BY <1>5 DEF Logout, SessionExpires
  <2>2. QED
    BY <1>5, <2>1 DEF Logout, SessionExpires, LocationTypeOK, LabelTypeOK
<1>6. ASSUME NEW s \in Sessions, NEW c \in Calls, FinishLogin(c, s) PROVE OfficeTypeOK'
  <2>1. call[c].by \in Accounts \union {Nobody}
    BY DEF Call
  <2>2. session' \in [Sessions -> Accounts \union {Nobody}]
    BY <1>6, <2>1 DEF FinishLogin
  <2>3. QED
    BY <1>1, <1>6, <2>2, EndedCall DEF FinishLogin
<1>7. ASSUME NEW s \in Sessions, NEW c \in Calls, NEW kind \in Kinds, Begin(c, s, kind)
      PROVE  OfficeTypeOK'
  <2>1. [doing |-> kind, by |-> session[s]] \in Call
    BY DEF Call
  <2>2. QED
    BY <1>7, <2>1, BegunCall DEF Begin
<1>8. QED
  BY <1>2, <1>3, <1>4, <1>5, <1>6, <1>7 DEF IdentityNext

\* A map cell is its place and its label: an update writes all of it.
LEMMA UpdateWrites ==
  ASSUME LocationTypeOK, NEW e \in Edit, UpdateMapCell(e)
  PROVE  mapCell' = [mapCell EXCEPT ![e.id] = [at |-> e.at, label |-> e.code]]
<1>1. e.id \in LocationIds /\ mapCell[e.id] \in MapGridCell
  BY DEF UpdateMapCell, HasMapCell, LocationTypeOK, Edit
<1>2. PICK a \in Cells, b \in Codes : mapCell[e.id] = [at |-> a, label |-> b]
  BY <1>1 DEF MapGridCell
<1>3. [mapCell[e.id] EXCEPT !.at = e.at, !.label = e.code]
        = [at |-> e.at, label |-> e.code]
  <2>1. [mapCell[e.id] EXCEPT !.at = e.at] = [at |-> e.at, label |-> b]
    BY <1>2
  <2>2. [[at |-> e.at, label |-> b] EXCEPT !.label = e.code] = [at |-> e.at, label |-> e.code]
    OBVIOUS
  <2>3. QED
    BY <2>1, <2>2
<1>4. mapCell' = [[mapCell EXCEPT ![e.id].at = e.at] EXCEPT ![e.id].label = e.code]
  BY DEF UpdateMapCell
<1>5. QED
  BY <1>1, <1>3, <1>4 DEF LocationTypeOK

LEMMA LocationTypeStep ==
  ASSUME OfficeTypeOK, UNCHANGED labelVars, NEW c \in Calls,
         \/ SaveLocation(c)
         \/ \E l \in LocationIds, code \in Codes, at \in Cells \union {NoCell} :
              CheckLocation(c, l, code, at)
  PROVE  OfficeTypeOK'
<1> USE DEF OfficeTypeOK, labelVars
<1>1. CASE SaveLocation(c)
  <2>1. PICK e \in edit[c] :
          /\ location' = [location EXCEPT ![e.id] = e.code]
          /\ DeleteMapCell(e) \/ InsertMapCell(e) \/ UpdateMapCell(e) \/ StayOffMap(e)
          /\ edit' = [edit EXCEPT ![c] = {}]
          /\ call' = Ended(c)
          /\ UNCHANGED <<account, session>>
    BY <1>1 DEF SaveLocation
  <2>2. e \in Edit
    BY DEF LocationTypeOK
  <2>3. location' \in [LocationIds -> Codes \union {NoCode}]
    BY <2>1, <2>2 DEF LocationTypeOK, Edit
  <2>4. mapCell' \in [LocationIds -> MapGridCell \union {NoMapCell}]
    <3>1. CASE e.at = NoCell
      BY <2>1, <2>2, <3>1 DEF DeleteMapCell, InsertMapCell, UpdateMapCell, StayOffMap,
         LocationTypeOK
    <3>2. CASE e.at # NoCell
      <4>1. [at |-> e.at, label |-> e.code] \in MapGridCell
        BY <2>2, <3>2 DEF Edit, MapGridCell
      <4>2. mapCell' = [mapCell EXCEPT ![e.id] = [at |-> e.at, label |-> e.code]]
        BY <2>1, <2>2, <3>2, UpdateWrites DEF DeleteMapCell, InsertMapCell, StayOffMap
      <4>3. QED
        BY <2>2, <4>1, <4>2 DEF LocationTypeOK
    <3>3. QED
      BY <3>1, <3>2
  <2>5. call[c].doing # "scan"
    BY DEF IdentityTypeOK
  <2>6. QED
    BY <2>1, <2>3, <2>4, <2>5, EndedCall DEF IdentityTypeOK, LabelTypeOK
<1>2. ASSUME NEW l \in LocationIds, NEW code \in Codes, NEW at \in Cells \union {NoCell},
             CheckLocation(c, l, code, at)
      PROVE  OfficeTypeOK'
  <2>1. [id |-> l, code |-> code, at |-> at, found |-> HasMapCell(l)] \in Edit
    BY DEF Edit, HasMapCell
  <2>2. LocationTypeOK'
    BY <1>2, <2>1 DEF CheckLocation, LocationTypeOK
  <2>3. \A d \in Calls : edit'[d] # {} => call'[d].doing = "location"
    BY <1>2 DEF CheckLocation, LocationTypeOK, identityVars
  <2>4. QED
    BY <1>2, <2>2, <2>3 DEF CheckLocation, IdentityTypeOK, LabelTypeOK, identityVars
<1>3. QED
  BY <1>1, <1>2

LEMMA LabelTypeStep ==
  ASSUME OfficeTypeOK, NEW c \in Calls,
         \/ ResolveLabel(c) \/ Fail(c)
         \/ \E q \in Labels :
              \/ StartScan(c, q) \/ RevokeLabel(c, q)
              \/ \E l \in LocationIds, expires \in {"never", "later"} :
                   CreateLabel(c, q, l, expires)
  PROVE  OfficeTypeOK'
<1> USE DEF OfficeTypeOK
<1>1. CASE ResolveLabel(c)
  <2>1. PICK q \in scan[c] :
          /\ label' = [label EXCEPT ![q].resolved = TRUE]
          /\ scan' = [scan EXCEPT ![c] = {}]
          /\ call' = Ended(c)
          /\ UNCHANGED <<account, session, locationVars>>
    BY <1>1 DEF ResolveLabel
  <2>2. label' \in [Labels -> QrToken]
    BY <2>1 DEF LabelTypeOK, QrToken
  <2>3. call[c].doing = "scan"
    OBVIOUS
  <2>4. QED
    BY <2>1, <2>2, <2>3, EndedCall DEF IdentityTypeOK, LocationTypeOK, locationVars
<1>2. CASE Fail(c)
  BY <1>2, EndedCall DEF Fail, IdentityTypeOK, LocationTypeOK, LabelTypeOK
<1>3. ASSUME NEW q \in Labels, StartScan(c, q) PROVE OfficeTypeOK'
  <2>1. LabelTypeOK' /\ \A d \in Calls : scan'[d] # {} => call'[d].doing = "scan"
    BY <1>3 DEF StartScan, LabelTypeOK, identityVars
  <2>2. QED
    BY <1>3, <2>1 DEF StartScan, IdentityTypeOK, LocationTypeOK, identityVars, locationVars
<1>4. ASSUME NEW q \in Labels, RevokeLabel(c, q) PROVE OfficeTypeOK'
  <2>1. label' \in [Labels -> QrToken]
    BY <1>4 DEF RevokeLabel, LabelTypeOK, QrToken
  <2>2. QED
    BY <1>4, <2>1, EndedCall DEF RevokeLabel, IdentityTypeOK, LocationTypeOK, locationVars
<1>5. ASSUME NEW q \in Labels, NEW l \in LocationIds, NEW expires \in {"never", "later"},
             CreateLabel(c, q, l, expires)
      PROVE  OfficeTypeOK'
  <2>1. label' \in [Labels -> QrToken]
    BY <1>5 DEF CreateLabel, LabelTypeOK, QrToken, NoToken
  <2>2. QED
    BY <1>5, <2>1, EndedCall DEF CreateLabel, IdentityTypeOK, LocationTypeOK, locationVars
<1>6. QED
  BY <1>1, <1>2, <1>3, <1>4, <1>5

LEMMA ExpiryTypeStep ==
  ASSUME OfficeTypeOK, NEW q \in Labels, LabelExpires(q)
  PROVE  OfficeTypeOK'
<1>1. LabelTypeOK'
  BY DEF LabelExpires, OfficeTypeOK, LabelTypeOK, QrToken
<1>2. QED
  BY <1>1 DEF LabelExpires, OfficeTypeOK, IdentityTypeOK, LocationTypeOK, identityVars,
     locationVars

LEMMA OfficeTypeStep ==
  ASSUME OfficeTypeOK, [OfficeNext]_officeVars
  PROVE  OfficeTypeOK'
<1>1. CASE UNCHANGED officeVars
  BY <1>1 DEF officeVars, identityVars, locationVars, labelVars, OfficeTypeOK,
     IdentityTypeOK, LocationTypeOK, LabelTypeOK
<1>2. CASE OfficeNext
  BY <1>2, IdentityTypeStep, LocationTypeStep, LabelTypeStep, ExpiryTypeStep DEF OfficeNext
<1>3. QED
  BY <1>1, <1>2

-----------------------------------------------------------------------------
(***************************************************************************)
(* Locations                                                               *)
(***************************************************************************)

\* Only a save writes the two tables, and only a check adds an edit.
LEMMA LocationWrites ==
  ASSUME OfficeTypeOK, [OfficeNext]_officeVars
  PROVE  \/ \E c \in Calls : SaveLocation(c)
         \/ \E c \in Calls, l \in LocationIds, code \in Codes, at \in Cells \union {NoCell} :
              CheckLocation(c, l, code, at)
         \/ /\ UNCHANGED <<location, mapCell>>
            /\ \A c \in Calls : edit'[c] = edit[c] \/ edit'[c] = {}
<1>1. CASE \E c \in Calls : Fail(c)
  BY <1>1 DEF Fail, OfficeTypeOK, LocationTypeOK
<1>2. CASE ~\E c \in Calls : Fail(c)
  BY <1>2 DEF OfficeNext, officeVars, locationVars, ResolveLabel,
     StartScan, RevokeLabel, CreateLabel, LabelExpires
<1>3. QED
  BY <1>1, <1>2

\* A check starts only on a location that no other call works on.
LEMMA CheckStep ==
  ASSUME OfficeTypeOK, EditsAreCurrent, NEW c \in Calls, NEW l \in LocationIds,
         NEW code \in Codes, NEW at \in Cells \union {NoCell},
         CheckLocation(c, l, code, at)
  PROVE  EditsAreCurrent'
<1> DEFINE new == [id |-> l, code |-> code, at |-> at, found |-> HasMapCell(l)]
<1>1. /\ edit'[c] = {new}
      /\ \A d \in Calls \ {c} : edit'[d] = edit[d]
      /\ UNCHANGED <<location, mapCell>>
  BY DEF CheckLocation, OfficeTypeOK, LocationTypeOK
<1>2. \A d \in Calls : \A e \in edit[d] : e.id # l
  BY DEF CheckLocation, IsNew, CanLock, IsHeld
<1>3. new.id = l /\ (new.found <=> HasMapCell(l))
  OBVIOUS
<1>4. \A d \in Calls : \A e \in edit'[d] :
        \/ d = c /\ e = new
        \/ d # c /\ e \in edit[d]
  BY <1>1
<1>5. ASSUME NEW d \in Calls, NEW f \in Calls, NEW e \in edit'[d], NEW g \in edit'[f],
             e.id = g.id
      PROVE  d = f
  BY <1>2, <1>3, <1>4, <1>5 DEF EditsAreCurrent
<1>6. ASSUME NEW d \in Calls, NEW e \in edit'[d] PROVE e.found <=> HasMapCell(e.id)
  BY <1>3, <1>4 DEF EditsAreCurrent
<1>7. QED
  BY <1>1, <1>5, <1>6 DEF EditsAreCurrent, HasMapCell

\* A save finds the map cell as its call found it, whichever branch it takes.
LEMMA SaveWrites ==
  ASSUME OfficeTypeOK, EditsAreCurrent, NEW c \in Calls, SaveLocation(c)
  PROVE  \E e \in edit[c] :
           /\ e \in Edit
           /\ MeetsConstraints(e)
           /\ location' = [location EXCEPT ![e.id] = e.code]
           /\ mapCell'[e.id] = IF e.at = NoCell THEN NoMapCell
                                ELSE [at |-> e.at, label |-> e.code]
           /\ \A l \in LocationIds \ {e.id} : mapCell'[l] = mapCell[l]
           /\ edit' = [edit EXCEPT ![c] = {}]
<1> USE DEF OfficeTypeOK, LocationTypeOK
<1>1. PICK e \in edit[c] :
        /\ MeetsConstraints(e)
        /\ location' = [location EXCEPT ![e.id] = e.code]
        /\ DeleteMapCell(e) \/ InsertMapCell(e) \/ UpdateMapCell(e) \/ StayOffMap(e)
        /\ edit' = [edit EXCEPT ![c] = {}]
  BY DEF SaveLocation
<1>2. e \in Edit /\ e.id \in LocationIds /\ (e.found <=> HasMapCell(e.id))
  BY DEF EditsAreCurrent, Edit
<1>3. /\ mapCell'[e.id] = IF e.at = NoCell THEN NoMapCell
                           ELSE [at |-> e.at, label |-> e.code]
      /\ \A l \in LocationIds \ {e.id} : mapCell'[l] = mapCell[l]
  <2>1. CASE DeleteMapCell(e)
    BY <1>2, <2>1 DEF DeleteMapCell
  <2>2. CASE InsertMapCell(e)
    BY <1>2, <2>2 DEF InsertMapCell
  <2>3. CASE UpdateMapCell(e)
    <3>1. e.at # NoCell
      BY <2>3 DEF UpdateMapCell
    <3>2. mapCell' = [mapCell EXCEPT ![e.id] = [at |-> e.at, label |-> e.code]]
      BY <1>2, <2>3, UpdateWrites
    <3>3. QED
      BY <1>2, <3>1, <3>2
  <2>4. CASE StayOffMap(e)
    BY <1>2, <2>4 DEF StayOffMap, HasMapCell
  <2>5. QED
    BY <1>1, <2>1, <2>2, <2>3, <2>4
<1>4. QED
  BY <1>1, <1>2, <1>3

LEMMA SaveStep ==
  ASSUME OfficeInvariant, NEW c \in Calls, SaveLocation(c)
  PROVE  EditsAreCurrent' /\ LocationsAreDistinct' /\ MapShowsCodes'
<1> USE DEF OfficeInvariant, OfficeTypeOK, LocationTypeOK
<1>1. PICK e \in edit[c] :
        /\ e \in Edit
        /\ MeetsConstraints(e)
        /\ location' = [location EXCEPT ![e.id] = e.code]
        /\ mapCell'[e.id] = IF e.at = NoCell THEN NoMapCell
                             ELSE [at |-> e.at, label |-> e.code]
        /\ \A l \in LocationIds \ {e.id} : mapCell'[l] = mapCell[l]
        /\ edit' = [edit EXCEPT ![c] = {}]
  BY SaveWrites
<1>2. /\ e.id \in LocationIds /\ e.code \in Codes
      /\ location'[e.id] = e.code
      /\ \A l \in LocationIds \ {e.id} : location'[l] = location[l]
  BY <1>1 DEF Edit
<1>3. EditsAreCurrent'
  <2>1. \A d \in Calls : \A f \in edit'[d] : d # c /\ f \in edit[d]
    BY <1>1
  <2>2. \A d \in Calls : \A f \in edit'[d] : f.id # e.id /\ f.id \in LocationIds
    BY <1>1, <2>1 DEF EditsAreCurrent, Edit
  <2>3. \A d \in Calls : \A f \in edit'[d] : mapCell'[f.id] = mapCell[f.id]
    BY <1>1, <2>2
  <2>4. QED
    BY <2>1, <2>3 DEF EditsAreCurrent, HasMapCell
<1>4. LocationsAreDistinct'
  <2>1. \A l \in LocationIds \ {e.id} : location[l] # e.code
    BY <1>1 DEF MeetsConstraints, IsCodeFree
  <2>2. e.at # NoCell => \A l \in LocationIds \ {e.id} : mapCell[l].at # e.at
    BY <1>1 DEF MeetsConstraints, IsCellFree
  <2>3. \A l \in LocationIds : HasMapCell(l) => mapCell[l].at # NoCell
    BY DEF HasMapCell, MapGridCell
  <2>4. mapCell'[e.id].at = e.at
    BY <1>1 DEF NoMapCell
  <2>5. mapCell'[e.id] # NoMapCell => e.at # NoCell
    BY <1>1
  <2>6. QED
    BY <1>1, <1>2, <2>1, <2>2, <2>3, <2>4, <2>5
    DEF LocationsAreDistinct, LocationExists, HasMapCell
<1>5. MapShowsCodes'
  <2>1. mapCell'[e.id] # NoMapCell => mapCell'[e.id].label = e.code
    BY <1>1
  <2>2. QED
    BY <1>1, <1>2, <2>1 DEF MapShowsCodes, HasMapCell, LocationExists
<1>6. QED
  BY <1>3, <1>4, <1>5

LEMMA LocationStep ==
  ASSUME OfficeInvariant, [OfficeNext]_officeVars
  PROVE  EditsAreCurrent' /\ LocationsAreDistinct' /\ MapShowsCodes'
<1> USE DEF OfficeInvariant
<1>1. ASSUME UNCHANGED <<location, mapCell>>
      PROVE  LocationsAreDistinct' /\ MapShowsCodes'
  BY <1>1 DEF LocationsAreDistinct, MapShowsCodes, LocationExists, HasMapCell
<1>2. CASE \E c \in Calls : SaveLocation(c)
  BY <1>2, SaveStep
<1>3. ASSUME NEW c \in Calls, NEW l \in LocationIds, NEW code \in Codes,
             NEW at \in Cells \union {NoCell}, CheckLocation(c, l, code, at)
      PROVE  EditsAreCurrent' /\ LocationsAreDistinct' /\ MapShowsCodes'
  BY <1>1, <1>3, CheckStep DEF CheckLocation
<1>4. CASE /\ UNCHANGED <<location, mapCell>>
           /\ \A c \in Calls : edit'[c] = edit[c] \/ edit'[c] = {}
  <2>1. \A c \in Calls : edit'[c] \subseteq edit[c]
    BY <1>4
  <2>2. EditsAreCurrent'
    BY <1>4, <2>1 DEF EditsAreCurrent, HasMapCell
  <2>3. QED
    BY <1>1, <1>4, <2>2
<1>5. QED
  BY <1>2, <1>3, <1>4, LocationWrites

\* The invariant holds of every reachable state of the back office.
THEOREM OfficeInvariance == OfficeSpec => []OfficeInvariant
<1>1. OfficeInvariant /\ [OfficeNext]_officeVars => OfficeInvariant'
  BY OfficeTypeStep, LocationStep DEF OfficeInvariant
<1>2. QED
  BY OfficeInitial, <1>1, PTL DEF OfficeSpec

\* Every row keeps its type, and only a call that is about locations or a scan
\* holds one: a call that ends, however it ends, lets go of what it read.
THEOREM OfficeTypesAreCorrect == OfficeSpec => []OfficeTypeOK
<1>1. OfficeInit => OfficeTypeOK
  BY OfficeInitial DEF OfficeInvariant
<1>2. OfficeTypeOK /\ [OfficeNext]_officeVars => OfficeTypeOK'
  BY OfficeTypeStep
<1>3. QED
  BY <1>1, <1>2, PTL DEF OfficeSpec

\* Codes and cells stay apart: the checks that calls make early, and what the
\* constraints let through, add up.
THEOREM LocationsStayDistinct == OfficeSpec => []LocationsAreDistinct
<1>1. OfficeInvariant => LocationsAreDistinct
  BY DEF OfficeInvariant
<1>2. QED
  BY <1>1, OfficeInvariance, PTL

\* Every cell of the map is that of a location that exists and shows the code
\* it has now: the lock of the update keeps what was found of the cell true
\* until the row is deleted, inserted or updated by it.
THEOREM MapIsCurrent == OfficeSpec => []MapShowsCodes
<1>1. OfficeInvariant => MapShowsCodes
  BY DEF OfficeInvariant
<1>2. QED
  BY <1>1, OfficeInvariance, PTL

-----------------------------------------------------------------------------
(***************************************************************************)
(* Accounts, sessions and labels                                           *)
(***************************************************************************)

\* Accounts change by a creation or by an update.
LEMMA AccountWrites ==
  ASSUME [OfficeNext]_officeVars, account' # account
  PROVE  \E c \in Calls, a \in Accounts, roles \in SUBSET Roles :
           \/ CreateUser(c, a, roles)
           \/ \E status \in {"active", "disabled"} : UpdateUser(c, a, status, roles)
BY DEF OfficeNext, officeVars, identityVars, IdentityNext, StartLogin, FinishLogin, Logout,
   SessionExpires, Begin, SaveLocation, CheckLocation, ResolveLabel, Fail, StartScan,
   RevokeLabel, CreateLabel, LabelExpires

\* An administrator's call never takes the last administrator away: it cannot
\* take the role from its own account.
THEOREM LastAdministratorRemains == OfficeSpec => AdministratorRemains
<1>1. ASSUME OfficeInvariant, [OfficeNext]_officeVars,
             Administrators # {}, Administrators' = {}
      PROVE  \E c \in Calls : /\ call'[c] # call[c]
                              /\ call[c].doing = "users"
                              /\ call[c].by \notin Administrators
  <2>1. account' # account
    BY <1>1 DEF Administrators, IsActive
  <2>2. PICK c \in Calls, a \in Accounts, roles \in SUBSET Roles :
          \/ CreateUser(c, a, roles)
          \/ \E status \in {"active", "disabled"} : UpdateUser(c, a, status, roles)
    BY <1>1, <2>1, AccountWrites
  <2>3. call[c].doing = "users" /\ call'[c] # call[c]
    BY <1>1, <2>2 DEF CreateUser, UpdateUser, Ended, IdleCall, OfficeInvariant, OfficeTypeOK,
       IdentityTypeOK
  <2>4. \A b \in Accounts \ {a} : account'[b] = account[b]
    BY <1>1, <2>2 DEF CreateUser, UpdateUser, OfficeInvariant, OfficeTypeOK, IdentityTypeOK
  <2>5. \A b \in Administrators : b = a /\ account[a].status = "active"
    BY <1>1, <2>4 DEF Administrators, IsActive
  <2>6. PICK status \in {"active", "disabled"} : UpdateUser(c, a, status, roles)
    BY <1>1, <2>2, <2>5 DEF CreateUser
  <2>7. ASSUME call[c].by \in Administrators PROVE FALSE
    <3>1. call[c].by = a
      BY <2>5, <2>7
    <3>2. status = "active" /\ "system_administrator" \in roles
      BY <2>6, <3>1 DEF UpdateUser, KeepsOwnAccess
    <3>3. account'[a] = [status |-> "active", roles |-> roles]
      BY <1>1, <2>6, <3>2 DEF UpdateUser, OfficeInvariant, OfficeTypeOK, IdentityTypeOK
    <3>4. a \in Administrators'
      BY <3>2, <3>3 DEF Administrators, IsActive
    <3>5. QED
      BY <1>1, <3>4
  <2>8. QED
    BY <2>3, <2>7
<1>2. OfficeInvariant /\ [OfficeNext]_officeVars =>
        [(Administrators # {} /\ Administrators' = {}) =>
           \E c \in Calls : /\ call'[c] # call[c]
                            /\ call[c].doing = "users"
                            /\ call[c].by \notin Administrators]_officeVars
  BY <1>1
<1>3. QED
  BY <1>2, OfficeInvariance, PTL DEF OfficeSpec, AdministratorRemains

\* Sessions and calls are those of accounts that exist; no account is deleted.
UsersExist ==
  /\ \A s \in Sessions : session[s] # Nobody => account[session[s]].status # "absent"
  /\ \A c \in Calls : call[c].by # Nobody => account[call[c].by].status # "absent"

LEMMA AccountsRemain ==
  ASSUME OfficeTypeOK, [OfficeNext]_officeVars, NEW a \in Accounts,
         account[a].status # "absent"
  PROVE  account'[a].status # "absent"
<1>1. CASE account' = account
  BY <1>1
<1>2. CASE account' # account
  <2>1. PICK c \in Calls, b \in Accounts, roles \in SUBSET Roles :
          \/ CreateUser(c, b, roles)
          \/ \E status \in {"active", "disabled"} : UpdateUser(c, b, status, roles)
    BY <1>2, AccountWrites
  <2>2. QED
    BY <2>1 DEF CreateUser, UpdateUser, OfficeTypeOK, IdentityTypeOK
<1>3. QED
  BY <1>1, <1>2

\* A session or a call is new only where a login or a call begins or ends.
LEMMA UsersComeFrom ==
  ASSUME OfficeTypeOK, UsersExist, [OfficeNext]_officeVars
  PROVE  /\ \A s \in Sessions :
              session'[s] = Nobody \/ \E a \in Accounts :
                session'[s] = a /\ account[a].status # "absent"
         /\ \A c \in Calls :
              call'[c].by = Nobody \/ \E a \in Accounts :
                call'[c].by = a /\ account[a].status # "absent"
<1> USE DEF OfficeTypeOK, IdentityTypeOK, UsersExist
<1> DEFINE Known(u) == u = Nobody \/ \E a \in Accounts : u = a /\ account[a].status # "absent"
<1>1. \A s \in Sessions : Known(session[s])
  OBVIOUS
<1>2. \A c \in Calls : Known(call[c].by)
  BY DEF Call
<1>3. ASSUME NEW c \in Calls, call' = Ended(c) PROVE \A d \in Calls : Known(call'[d].by)
  BY <1>2, <1>3 DEF Ended, IdleCall
<1>4. ASSUME NEW c \in Calls, NEW a \in Accounts, StartLogin(c, a)
      PROVE  /\ \A s \in Sessions : Known(session'[s])
             /\ \A d \in Calls : Known(call'[d].by)
  BY <1>1, <1>2, <1>4 DEF StartLogin, IsActive
<1>5. ASSUME NEW s \in Sessions, NEW c \in Calls, FinishLogin(c, s)
      PROVE  /\ \A t \in Sessions : Known(session'[t])
             /\ \A d \in Calls : Known(call'[d].by)
  BY <1>1, <1>2, <1>3, <1>5 DEF FinishLogin
<1>6. ASSUME NEW s \in Sessions, NEW c \in Calls, NEW kind \in Kinds, Begin(c, s, kind)
      PROVE  /\ \A t \in Sessions : Known(session'[t])
             /\ \A d \in Calls : Known(call'[d].by)
  BY <1>1, <1>2, <1>6 DEF Begin
<1>7. ASSUME NEW s \in Sessions, Logout(s) \/ SessionExpires(s)
      PROVE  /\ \A t \in Sessions : Known(session'[t])
             /\ \A d \in Calls : Known(call'[d].by)
  BY <1>1, <1>2, <1>7 DEF Logout, SessionExpires
<1>8. ASSUME NEW c \in Calls, NEW a \in Accounts, NEW roles \in SUBSET Roles,
             \/ CreateUser(c, a, roles)
             \/ \E status \in {"active", "disabled"} : UpdateUser(c, a, status, roles)
      PROVE  /\ \A t \in Sessions : Known(session'[t])
             /\ \A d \in Calls : Known(call'[d].by)
  BY <1>1, <1>2, <1>3, <1>8 DEF CreateUser, UpdateUser, SessionsAfterUpdate
<1>9. ASSUME UNCHANGED session, UNCHANGED call \/ \E c \in Calls : call' = Ended(c)
      PROVE  /\ \A t \in Sessions : Known(session'[t])
             /\ \A d \in Calls : Known(call'[d].by)
  BY <1>1, <1>2, <1>3, <1>9
<1>10. CASE IdentityNext
  BY <1>4, <1>5, <1>6, <1>7, <1>8, <1>10 DEF IdentityNext
<1>11. CASE ~IdentityNext
  <2>1. UNCHANGED session /\ (UNCHANGED call \/ \E c \in Calls : call' = Ended(c))
    BY <1>11 DEF OfficeNext, officeVars, identityVars, SaveLocation, CheckLocation,
       ResolveLabel, Fail, StartScan, RevokeLabel, CreateLabel, LabelExpires
  <2>2. QED
    BY <1>9, <2>1
<1>12. QED
  BY <1>10, <1>11

LEMMA UsersExistStep ==
  ASSUME OfficeTypeOK, UsersExist, [OfficeNext]_officeVars
  PROVE  UsersExist'
<1>1. \A a \in Accounts : account[a].status # "absent" => account'[a].status # "absent"
  BY AccountsRemain
<1>2. QED
  BY <1>1, UsersComeFrom DEF UsersExist

\* No session survives a change of its account.
THEOREM SessionsEndWithUpdates == OfficeSpec => UpdateEndsSessions
<1>1. ASSUME OfficeInvariant, UsersExist, [OfficeNext]_officeVars, NEW s \in Sessions,
             session[s] # Nobody, account'[session[s]] # account[session[s]]
      PROVE  session'[s] = Nobody
  <2>1. PICK c \in Calls, a \in Accounts, roles \in SUBSET Roles :
          \/ CreateUser(c, a, roles)
          \/ \E status \in {"active", "disabled"} : UpdateUser(c, a, status, roles)
    BY <1>1, AccountWrites
  <2>2. session[s] = a
    BY <1>1, <2>1 DEF CreateUser, UpdateUser, OfficeInvariant, OfficeTypeOK, IdentityTypeOK
  <2>3. QED
    BY <1>1, <2>1, <2>2 DEF CreateUser, UpdateUser, SessionsAfterUpdate, UsersExist
<1>2. OfficeInit => UsersExist
  BY DEF OfficeInit, IdentityInit, UsersExist, IdleCall
<1>3. OfficeInvariant /\ UsersExist /\ [OfficeNext]_officeVars => UsersExist'
  BY UsersExistStep DEF OfficeInvariant
<1>4. OfficeSpec => [](OfficeInvariant /\ UsersExist)
  BY <1>2, <1>3, OfficeInvariance, PTL DEF OfficeSpec
<1>5. OfficeInvariant /\ UsersExist /\ [OfficeNext]_officeVars =>
        [\A s \in Sessions :
           (/\ session[s] # Nobody
            /\ account'[session[s]] # account[session[s]])
           => session'[s] = Nobody]_officeVars
  BY <1>1
<1>6. QED
  BY <1>4, <1>5, PTL DEF OfficeSpec, UpdateEndsSessions

\* A revoked label is never resolved again, whenever the scan began.
THEOREM RevokedLabelsAreFinal == OfficeSpec => RevokedIsFinal
<1>1. ASSUME OfficeInvariant, [OfficeNext]_officeVars, NEW q \in Labels,
             label[q].status = "revoked"
      PROVE  label'[q].status = "revoked" /\ label'[q].resolved = label[q].resolved
  <2> USE DEF OfficeInvariant, OfficeTypeOK, LabelTypeOK
  <2>1. CASE \E c \in Calls : ResolveLabel(c)
    BY <1>1, <2>1 DEF ResolveLabel, IsStillActive
  <2>2. CASE \E c \in Calls, p \in Labels : RevokeLabel(c, p)
    BY <1>1, <2>2 DEF RevokeLabel
  <2>3. CASE \E c \in Calls, p \in Labels, l \in LocationIds, expires \in {"never", "later"} :
               CreateLabel(c, p, l, expires)
    <3>1. PICK c \in Calls, p \in Labels, l \in LocationIds, expires \in {"never", "later"} :
            CreateLabel(c, p, l, expires)
      BY <2>3
    <3>2. label[p].status = "absent"
      BY <3>1 DEF CreateLabel, NoToken
    <3>3. label'[q] = label[q]
      BY <1>1, <3>1, <3>2 DEF CreateLabel
    <3>4. QED
      BY <1>1, <3>3
  <2>4. CASE \E p \in Labels : LabelExpires(p)
    BY <1>1, <2>4 DEF LabelExpires
  <2>6. CASE \E c \in Calls : Fail(c) \/ \E p \in Labels : StartScan(c, p)
    BY <1>1, <2>6 DEF Fail, StartScan
  <2>7. CASE UNCHANGED labelVars
    BY <1>1, <2>7 DEF labelVars
  <2>8. CASE UNCHANGED officeVars
    BY <2>7, <2>8 DEF officeVars
  <2>9. CASE OfficeNext
    BY <2>1, <2>2, <2>3, <2>4, <2>6, <2>7, <2>9 DEF OfficeNext
  <2>10. QED
    BY <1>1, <2>8, <2>9
<1>2. OfficeInvariant /\ [OfficeNext]_officeVars =>
        [\A q \in Labels :
           label[q].status = "revoked" =>
             /\ label'[q].status = "revoked"
             /\ label'[q].resolved = label[q].resolved]_officeVars
  BY <1>1
<1>3. QED
  BY <1>2, OfficeInvariance, PTL DEF OfficeSpec, RevokedIsFinal
=============================================================================

------------------------------ MODULE Locations ------------------------------
(***************************************************************************)
(* LocationService: the locations of the warehouse and the cells of its    *)
(* map, two tables that no foreign key keeps in step.  A call reads the    *)
(* map cell of its location, looks whether the code and the cell it wants  *)
(* are free, and then writes what its commit flushes.  Only an update      *)
(* locks anything, and only its own location: between the two steps        *)
(* another call may take the code or the cell.  The unique constraints of  *)
(* the tables then raise and the call is rolled back.                      *)
(***************************************************************************)
EXTENDS Identity

CONSTANTS
  LocationIds,  \* locations
  Codes,        \* codes a location may get
  NoCode,       \* there is no such location
  Cells,        \* (row_index, column_index) of the map
  NoCell        \* the location is not on the map

ASSUME LocationAssumption == NoCode \notin Codes /\ NoCell \notin Cells

VARIABLES
  location,  \* Location rows: the code of each
  mapCell,   \* MapGridCell rows, by the location they are of
  edit       \* what a call has read and is about to write

locationVars == <<location, mapCell, edit>>

MapGridCell == [at : Cells, label : Codes]

NoMapCell == [at |-> NoCell, label |-> NoCode]

\* found: the location had a map cell when the call asked for it.
Edit ==
  [id : LocationIds, code : Codes, at : Cells \union {NoCell}, found : BOOLEAN]

\* A call has at most one edit.
LocationTypeOK ==
  /\ location \in [LocationIds -> Codes \union {NoCode}]
  /\ mapCell \in [LocationIds -> MapGridCell \union {NoMapCell}]
  /\ edit \in [Calls -> SUBSET Edit]
  /\ \A c \in Calls : \A d, e \in edit[c] : d = e

LocationInit ==
  /\ location = [l \in LocationIds |-> NoCode]
  /\ mapCell = [l \in LocationIds |-> NoMapCell]
  /\ edit = [c \in Calls |-> {}]

-----------------------------------------------------------------------------
LocationExists(l) == location[l] # NoCode

HasMapCell(l) == mapCell[l] # NoMapCell

\* _assert_code_available
IsCodeFree(l, code) == \A m \in LocationIds \ {l} : location[m] # code

\* The query for a collision in _save_grid_cell.
IsCellFree(l, at) ==
  at # NoCell => \A m \in LocationIds \ {l} : mapCell[m].at # at

IsHeld(l) == \E c \in Calls : \E e \in edit[c] : e.id = l

\* create: the id of the location is new.
IsNew(l) == ~LocationExists(l) /\ ~IsHeld(l)

\* Mistake: update reads its location without with_for_update.
CanRead(l) == LocationExists(l)

\* update: the location exists, and no other call has it locked.
CanLock(l) == LocationExists(l) /\ ~IsHeld(l)

CheckLocation(c, l, code, at) ==
  /\ call[c].doing = "location"
  /\ edit[c] = {}
  /\ IsNew(l) \/ CanLock(l)
  /\ IsCodeFree(l, code)
  /\ IsCellFree(l, at)
  /\ edit' = [edit EXCEPT ![c] =
                {[id |-> l, code |-> code, at |-> at, found |-> HasMapCell(l)]}]
  /\ UNCHANGED <<identityVars, location, mapCell>>

\* Mistake: nothing but the check keeps codes and cells apart.
NoConstraint(e) == TRUE

\* UniqueConstraint("warehouse_id", "code") and
\* UniqueConstraint("warehouse_id", "row_index", "column_index")
MeetsConstraints(e) == IsCodeFree(e.id, e.code) /\ IsCellFree(e.id, e.at)

\* _save_grid_cell deletes, inserts or updates by what its first query found.
\* An insert meets the unique constraint of location_id, an update needs the row.
DeleteMapCell(e) ==
  /\ e.at = NoCell /\ e.found
  /\ mapCell' = [mapCell EXCEPT ![e.id] = NoMapCell]

InsertMapCell(e) ==
  /\ e.at # NoCell /\ ~e.found
  /\ ~HasMapCell(e.id)
  /\ mapCell' = [mapCell EXCEPT ![e.id] = [at |-> e.at, label |-> e.code]]

UpdateMapCell(e) ==
  /\ e.at # NoCell /\ e.found
  /\ HasMapCell(e.id)
  /\ mapCell' = [mapCell EXCEPT ![e.id].at = e.at, ![e.id].label = e.code]

StayOffMap(e) ==
  /\ e.at = NoCell /\ ~e.found
  /\ UNCHANGED mapCell

SaveLocation(c) ==
  \E e \in edit[c] :
    /\ MeetsConstraints(e)
    /\ location' = [location EXCEPT ![e.id] = e.code]
    /\ DeleteMapCell(e) \/ InsertMapCell(e) \/ UpdateMapCell(e) \/ StayOffMap(e)
    /\ edit' = [edit EXCEPT ![c] = {}]
    /\ call' = Ended(c)
    /\ UNCHANGED <<account, session>>
=============================================================================

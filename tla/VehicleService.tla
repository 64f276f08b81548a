--------------------------- MODULE VehicleService ---------------------------
(***************************************************************************)
(* services/vehicle_service.py behind api/routers/vehicles.py: create,     *)
(* patch and delete a vehicle.  emission_factors is only written by the    *)
(* seeds, so the factor of a (fuel, class) pair does not change.           *)
(***************************************************************************)
EXTENDS Store

-----------------------------------------------------------------------------
(* The unique index on vehicles.plate *)

\* Request p holds plate x, or the key of the row that has it, and has not
\* committed: whether x is free depends on what becomes of p.
DecidesPlate(p, x) ==
  \/ HoldsPlate(p, x)
  \/ \E v \in Vehicle : LocksVehicleKey(p, v) /\ HasVehicle(v) /\ vehicles[v].plate = x

\* The statement of q that takes plate x waits for another handler to end.
PlateUndecided(q, x) == \E p \in Request \ {q} : DecidesPlate(p, x)

PlateTaken(x, self) ==
  \E v \in Vehicle \ {self} : HasVehicle(v) /\ vehicles[v].plate = x

-----------------------------------------------------------------------------
(* POST /vehicles *)

ReceiveCreateVehicle(q) ==
  /\ req[q].at = "idle" /\ "createVehicle" \in Endpoint
  /\ \E f \in Fuel, c \in Class, x \in Plate \cup {None} :
       req' = [req EXCEPT
         ![q].kind = "createVehicle", ![q].at = "readRow",
         ![q].row = [fuel |-> f, class |-> c, ef |-> None, plate |-> x]]
  /\ UNCHANGED <<vehicles, runs>>

\* _resolve_emission_factor; EmissionFactorNotFoundError is a 400.
ResolveFactor(q) ==
  /\ req[q].at = "readRow" /\ req[q].kind = "createVehicle"
  /\ LET pair == <<req[q].row.fuel, req[q].row.class>>
     IN \/ pair \notin FactorPair /\ Reject(q, "400")
        \/ /\ pair \in FactorPair
           /\ req' = [req EXCEPT ![q].at = "flush", ![q].row.ef = pair]
           /\ UNCHANGED <<vehicles, runs>>

\* Mutant: plates are looked up before the INSERT, without a unique index to
\* wait on.
InsertVehicleUnindexed(q) ==
  /\ req[q].at = "flush" /\ req[q].kind = "createVehicle"
  /\ \/ PlateTaken(req[q].row.plate, q) /\ Reject(q, "500")
     \/ /\ ~ PlateTaken(req[q].row.plate, q) \/ req[q].row.plate = None
        /\ Goto(q, "commit") /\ UNCHANGED <<vehicles, runs>>

InsertVehicle(q) ==
  /\ req[q].at = "flush" /\ req[q].kind = "createVehicle"
  /\ LET x == req[q].row.plate
     IN /\ x # None => ~ PlateUndecided(q, x)
        /\ \/ x # None /\ PlateTaken(x, q) /\ Reject(q, "500")
           \/ /\ x # None => ~ PlateTaken(x, q)
              /\ Goto(q, "commit") /\ UNCHANGED <<vehicles, runs>>

CommitNewVehicle(q) ==
  /\ req[q].at = "commit" /\ req[q].kind = "createVehicle"
  /\ vehicles' = [vehicles EXCEPT ![q] = req[q].row]
  /\ req' = [req EXCEPT ![q].at = "respond", ![q].vehicle = q]
  /\ UNCHANGED runs

-----------------------------------------------------------------------------
(* PATCH /vehicles/{id} *)

\* The value nobody looks at in a payload that does not set the column.
UnsetFuel  == CHOOSE f \in Fuel : TRUE
UnsetClass == CHOOSE c \in Class : TRUE

ReceivePatchVehicle(q) ==
  /\ req[q].at = "idle" /\ "patchVehicle" \in Endpoint
  /\ \E v \in Vehicle, f \in Fuel, c \in Class, x \in Plate \cup {None},
       cols \in SUBSET {"fuel", "class", "plate"} :
       /\ "fuel" \in cols \/ f = UnsetFuel
       /\ "class" \in cols \/ c = UnsetClass
       /\ "plate" \in cols \/ x = None
       /\ req' = [req EXCEPT
            ![q].kind = "patchVehicle", ![q].at = "readRow",
            ![q].vehicle = v, ![q].cols = cols,
            ![q].row = [fuel |-> f, class |-> c, ef |-> None, plate |-> x]]
  /\ UNCHANGED <<vehicles, runs>>

\* row with the columns cols taken from new.
Merged(row, new, cols) ==
  [fuel  |-> IF "fuel"  \in cols THEN new.fuel  ELSE row.fuel,
   class |-> IF "class" \in cols THEN new.class ELSE row.class,
   ef    |-> IF "ef"    \in cols THEN new.ef    ELSE row.ef,
   plate |-> IF "plate" \in cols THEN new.plate ELSE row.plate]

\* The columns in which two rows differ: what the ORM puts in its UPDATE.
Changed(row, new) ==
  {c \in Column : row[c] # new[c]}

\* update_vehicle up to its flush: the payload is merged into the row as it
\* was READ, and the factor is looked up again if the pair changes.
ReadPatched(q) ==
  /\ req[q].at = "readRow" /\ req[q].kind = "patchVehicle"
  /\ LET v    == req[q].vehicle
         new  == Merged(vehicles[v], req[q].row, req[q].cols)
         pair == <<new.fuel, new.class>>
         pairChanged == Changed(vehicles[v], new) \cap {"fuel", "class"} # {}
         row  == IF pairChanged THEN [new EXCEPT !.ef = pair] ELSE new
     IN \/ ~ HasVehicle(v) /\ Reject(q, "404")
        \/ HasVehicle(v) /\ pairChanged /\ pair \notin FactorPair /\ Reject(q, "400")
        \/ /\ HasVehicle(v) /\ (pairChanged => pair \in FactorPair)
           /\ req' = [req EXCEPT ![q].at = "flush", ![q].row = row,
                                 ![q].cols = Changed(vehicles[v], row)]
           /\ UNCHANGED <<vehicles, runs>>

\* The UPDATE (none if no column changes) waits for the row's lock, meets the
\* row as committed then and marks it; no row left is an exception nobody handles.
UpdateVehicle(q) ==
  /\ req[q].at = "flush" /\ req[q].kind = "patchVehicle"
  /\ LET v == req[q].vehicle
         rekeyed == "plate" \in req[q].cols
     IN \/ req[q].cols = {} /\ Goto(q, "commit") /\ UNCHANGED <<vehicles, runs>>
        \/ /\ req[q].cols # {}
           /\ \A p \in Request \ {q} : ~ WritesVehicle(p, v)
           /\ rekeyed => \A p \in Request \ {q} : ~ Pins(p, v)
           /\ \/ ~ HasVehicle(v) /\ Reject(q, "500")
              \/ /\ HasVehicle(v)
                 /\ Goto(q, IF rekeyed /\ req[q].row.plate # None
                              THEN "index" ELSE "commit")
                 /\ UNCHANGED <<vehicles, runs>>

\* The same UPDATE enters the new plate in the unique index, waiting, with the
\* row already marked, for whoever decides about that plate.  A plate in use
\* is an exception nobody handles.
IndexPlate(q) ==
  /\ req[q].at = "index" /\ req[q].kind = "patchVehicle"
  /\ ~ PlateUndecided(q, req[q].row.plate)
  /\ \/ PlateTaken(req[q].row.plate, req[q].vehicle) /\ Reject(q, "500")
     \/ /\ ~ PlateTaken(req[q].row.plate, req[q].vehicle)
        /\ Goto(q, "commit") /\ UNCHANGED <<vehicles, runs>>

CommitPatchedVehicle(q) ==
  /\ req[q].at = "commit" /\ req[q].kind = "patchVehicle"
  /\ LET v == req[q].vehicle
     IN vehicles' = [vehicles EXCEPT
          ![v] = IF HasVehicle(v) THEN Merged(@, req[q].row, req[q].cols) ELSE @]
  /\ Goto(q, "respond") /\ UNCHANGED runs

\* Both handlers refresh the row after the commit, in a new transaction; the
\* row may be gone by then.
RespondVehicle(q) ==
  /\ req[q].at = "respond" /\ req[q].kind \in {"createVehicle", "patchVehicle"}
  /\ Reject(q, IF ~ HasVehicle(req[q].vehicle) THEN "500"
               ELSE IF req[q].kind = "createVehicle" THEN "201" ELSE "200")

-----------------------------------------------------------------------------
(* DELETE /vehicles/{id} *)

ReceiveDeleteVehicle(q) ==
  /\ req[q].at = "idle" /\ "deleteVehicle" \in Endpoint
  /\ \E v \in Vehicle :
       req' = [req EXCEPT ![q].kind = "deleteVehicle", ![q].at = "readRow",
                          ![q].vehicle = v]
  /\ UNCHANGED <<vehicles, runs>>

ReadDoomedVehicle(q) ==
  /\ req[q].at = "readRow" /\ req[q].kind = "deleteVehicle"
  /\ \/ ~ HasVehicle(req[q].vehicle) /\ Reject(q, "404")
     \/ /\ HasVehicle(req[q].vehicle)
        /\ Goto(q, "flush") /\ UNCHANGED <<vehicles, runs>>

\* Mutant: runs.vehicle_id has no foreign key, a DELETE waits for no run.
DeleteVehicleRowUnpinned(q) ==
  /\ req[q].at = "flush" /\ req[q].kind = "deleteVehicle"
  /\ \A p \in Request \ {q} : ~ WritesVehicle(p, req[q].vehicle)
  /\ Goto(q, "cascade") /\ UNCHANGED <<vehicles, runs>>

\* The DELETE waits for every other lock on the row, the foreign-key locks
\* of unfinished runs included.  Deleting no row is only a warning.
DeleteVehicleRow(q) ==
  /\ req[q].at = "flush" /\ req[q].kind = "deleteVehicle"
  /\ \A p \in Request \ {q} :
        ~ WritesVehicle(p, req[q].vehicle) /\ ~ Pins(p, req[q].vehicle)
  /\ Goto(q, "cascade") /\ UNCHANGED <<vehicles, runs>>

\* Mutant: the cascade waits until nobody is about to insert a run.
NullifyRunsOfTable(q) ==
  /\ req[q].at = "cascade" /\ req[q].kind = "deleteVehicle"
  /\ \A p \in Request \ {q} : req[p].at # "insertRun"
  /\ Goto(q, "commit") /\ UNCHANGED <<vehicles, runs>>

\* ON DELETE SET NULL updates the runs that refer to the row, waiting for
\* whoever is changing one of them.
NullifyRuns(q) ==
  /\ req[q].at = "cascade" /\ req[q].kind = "deleteVehicle"
  /\ \A r \in Run : HasRun(r) /\ runs[r].vehicle = req[q].vehicle =>
        \A p \in Request \ {q} : ~ WritesRun(p, r)
  /\ Goto(q, "commit") /\ UNCHANGED <<vehicles, runs>>

\* Mutant: ON DELETE CASCADE.
CommitDeletedVehicleCascading(q) ==
  /\ req[q].at = "commit" /\ req[q].kind = "deleteVehicle"
  /\ LET v == req[q].vehicle
     IN /\ vehicles' = [vehicles EXCEPT ![v] = Deleted]
        /\ runs' = [r \in Run |->
                      IF HasRun(r) /\ runs[r].vehicle = v
                        THEN Deleted ELSE runs[r]]
  /\ Goto(q, "respond")

CommitDeletedVehicle(q) ==
  /\ req[q].at = "commit" /\ req[q].kind = "deleteVehicle"
  /\ LET v == req[q].vehicle
     IN /\ vehicles' = [vehicles EXCEPT ![v] = Deleted]
        /\ runs' = [r \in Run |->
                      IF HasRun(r) /\ runs[r].vehicle = v
                        THEN [runs[r] EXCEPT !.vehicle = None] ELSE runs[r]]
  /\ Goto(q, "respond")

RespondDeletedVehicle(q) ==
  /\ req[q].at = "respond" /\ req[q].kind = "deleteVehicle"
  /\ Reject(q, "204")

-----------------------------------------------------------------------------
ReceiveVehicle(q) ==
  ReceiveCreateVehicle(q) \/ ReceivePatchVehicle(q) \/ ReceiveDeleteVehicle(q)

VehicleStep(q) ==
  \/ ResolveFactor(q) \/ InsertVehicle(q) \/ CommitNewVehicle(q)
  \/ ReadPatched(q) \/ UpdateVehicle(q) \/ IndexPlate(q)
  \/ CommitPatchedVehicle(q) \/ RespondVehicle(q)
  \/ ReadDoomedVehicle(q) \/ DeleteVehicleRow(q) \/ NullifyRuns(q)
  \/ CommitDeletedVehicle(q) \/ RespondDeletedVehicle(q)
=============================================================================

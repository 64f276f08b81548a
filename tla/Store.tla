-------------------------------- MODULE Store --------------------------------
(***************************************************************************)
(* The PostgreSQL tables the E.L.O. backend shares between HTTP requests,  *)
(* and the state of the request handlers that work on them.                *)
(*                                                                         *)
(* core/db.py gives every request a session of its own.  All the           *)
(* statements of a handler run in one READ COMMITTED transaction: what it  *)
(* flushes is seen by nobody before its commit, row locks are held until   *)
(* then, and a session closed without a commit is rolled back.  The        *)
(* variables vehicles and runs are therefore the COMMITTED rows, and a     *)
(* handler's uncommitted rows live in its own request record.              *)
(***************************************************************************)
EXTENDS Naturals

CONSTANTS
  Request,      \* the HTTP requests received, each at most once
  Endpoint,     \* the operations the clients call
  Fuel, Class,  \* fuel types and vehicle classes
  FactorPair,   \* the (fuel, class) pairs emission_factors has a row for
  Plate,        \* licence plates
  Fleet,        \* the vehicles stored before the first request, by id
  Past,         \* the runs stored before the first request, by id
  None,         \* SQL NULL, or a field that holds nothing
  Unborn,       \* an id that no committed row has had yet
  Deleted       \* an id whose row is gone; ids are never handed out again

(***************************************************************************)
(* Ids come from sequences and are never reused, so the row inserted by    *)
(* request q can simply be called q.                                       *)
(***************************************************************************)
Vehicle == Request \cup DOMAIN Fleet
Run     == Request \cup DOMAIN Past
Absent  == {Unborn, Deleted}

\* A row of vehicles; ef is the emission_factors row the vehicle links to,
\* named by the pair it is the factor of.
VehicleRow == [fuel : Fuel, class : Class, ef : FactorPair \cup {None},
               plate : Plate \cup {None}]

\* The route rows of a run: none at all, routes with their segments, or
\* routes without any segment row (every VRP run has such routes).
RouteRows == {"none", "segmented", "bare"}

\* A row of runs with its routes.  priced: the CO2 of its routes was
\* computed from their distances (and is not an empty sum).
RunRow == [status : {"running", "done", "failed"},
           vehicle : Vehicle \cup {None},
           snapshot : VehicleRow,
           routes : RouteRows,
           priced : BOOLEAN,
           labelled : BOOLEAN,
           origin : Run \cup {None}]

Endpoints == {"p2p", "vrp", "recalculate", "patchRun", "deleteRun",
              "createVehicle", "patchVehicle", "deleteVehicle"}

\* Where a handler stands: the step it will take next.
Place == {"idle", "readOriginal", "readRoutes", "readSegments", "readVehicle",
          "insertRun", "route", "price", "readRow", "flush", "index",
          "cascade", "commit", "respond", "answered", "lost"}

Reply == {"none", "200", "201", "204", "400", "404", "500", "503"}

Column == {"fuel", "class", "ef", "plate"}

RequestRecord ==
  [kind : Endpoints \cup {None}, at : Place,
   vehicle : Vehicle \cup {None},   \* the vehicle it names
   run : Run \cup {None},           \* the run it names
   row : VehicleRow \cup {None},    \* the vehicle row it read or will write
   cols : SUBSET Column,            \* the columns its UPDATE sets
   status : {"running", "done", "failed"},
   routes : RouteRows,
   labelled : BOOLEAN,
   reply : Reply]

\* The rows stored before the first request came from seeds and from earlier
\* requests: runs are finished, refer to vehicles that exist and were priced with a
\* factor.
ASSUME SeedAssumption ==
  /\ Endpoint \subseteq Endpoints
  /\ FactorPair \subseteq Fuel \X Class
  /\ Request \cap DOMAIN Fleet = {} /\ Request \cap DOMAIN Past = {}
  /\ \A v \in DOMAIN Fleet : Fleet[v] \in VehicleRow
  /\ \A v, w \in DOMAIN Fleet :
        v # w /\ Fleet[v].plate # None => Fleet[v].plate # Fleet[w].plate
  /\ \A r \in DOMAIN Past :
        /\ Past[r] \in RunRow
        /\ Past[r].status # "running"
        /\ Past[r].status = "done" <=> Past[r].routes # "none"
        /\ Past[r].vehicle \in DOMAIN Fleet \cup {None}
        /\ Past[r].origin = None
        /\ Past[r].status = "done" =>
             /\ <<Past[r].snapshot.fuel, Past[r].snapshot.class>> \in FactorPair
             /\ Past[r].snapshot.ef # None

ASSUME NullAssumption ==
  /\ None \notin Vehicle \cup Run \cup Plate \cup VehicleRow \cup FactorPair
  /\ Absent \cap (VehicleRow \cup RunRow) = {}
  /\ Unborn # Deleted

VARIABLES
  vehicles,  \* the committed rows of vehicles, by id
  runs,      \* the committed rows of runs, routes and segments, by run id
  req        \* the request handlers

vars == <<vehicles, runs, req>>

Idle == [kind |-> None, at |-> "idle", vehicle |-> None, run |-> None,
         row |-> None, cols |-> {}, status |-> "running", routes |-> "none",
         labelled |-> FALSE, reply |-> "none"]

StoreInit ==
  /\ vehicles = [v \in Vehicle |->
                   IF v \in DOMAIN Fleet THEN Fleet[v] ELSE Unborn]
  /\ runs = [r \in Run |-> IF r \in DOMAIN Past THEN Past[r] ELSE Unborn]
  /\ req = [q \in Request |-> Idle]

TypeOK ==
  /\ vehicles \in [Vehicle -> VehicleRow \cup Absent]
  /\ runs \in [Run -> RunRow \cup Absent]
  /\ req \in [Request -> RequestRecord]

HasVehicle(v) == vehicles[v] \notin Absent
HasRun(r) == runs[r] \notin Absent

-----------------------------------------------------------------------------
(***************************************************************************)
(* Row locks.  A handler between its flush and the end of its transaction  *)
(* holds the locks of the statements it executed.                          *)
(***************************************************************************)

\* The handlers that insert a run.
Planner == {"p2p", "vrp", "recalculate"}

\* Request p inserted a run that refers to v: the foreign-key check keeps a
\* FOR KEY SHARE lock on the vehicle's row.
Pins(p, v) ==
  /\ req[p].kind \in Planner
  /\ req[p].vehicle = v
  /\ req[p].at \in {"route", "price", "commit"}

\* Mutant: a row to be deleted is read FOR SHARE and upgraded by the DELETE.
WritesVehicleSharedFirst(p, v) ==
  \/ /\ req[p].kind = "patchVehicle" /\ req[p].vehicle = v
     /\ req[p].cols # {} /\ req[p].at \in {"index", "commit"}
  \/ /\ req[p].kind = "deleteVehicle" /\ req[p].vehicle = v
     /\ req[p].at \in {"flush", "cascade", "commit"}

\* Request p has updated, inserted or deleted the row of vehicle v.  An
\* UPDATE is only sent for a column that changes, and marks the row before it
\* enters the new plate in the unique index.
WritesVehicle(p, v) ==
  \/ /\ req[p].kind = "patchVehicle" /\ req[p].vehicle = v
     /\ req[p].cols # {} /\ req[p].at \in {"index", "commit"}
  \/ /\ req[p].kind = "deleteVehicle" /\ req[p].vehicle = v
     /\ req[p].at \in {"cascade", "commit"}

\* ... and with a lock that even a foreign-key check has to wait for: the
\* row is deleted, or a column with a unique index changes.
LocksVehicleKey(p, v) ==
  /\ WritesVehicle(p, v)
  /\ req[p].kind = "deleteVehicle" \/ "plate" \in req[p].cols

\* Request p has changed or deleted the row of run r, or has set its
\* vehicle_id to NULL on behalf of ON DELETE SET NULL.
WritesRun(p, r) ==
  /\ req[p].at = "commit"
  /\ \/ req[p].kind = "deleteRun" /\ req[p].run = r
     \/ req[p].kind = "patchRun" /\ req[p].run = r /\ req[p].labelled
     \/ /\ req[p].kind = "deleteVehicle" /\ HasRun(r)
        /\ runs[r].vehicle = req[p].vehicle

\* Request p holds plate x in the unique index, by an uncommitted row.
HoldsPlate(p, x) ==
  /\ req[p].at = "commit"
  /\ \/ req[p].kind = "createVehicle"
     \/ req[p].kind = "patchVehicle" /\ "plate" \in req[p].cols
  /\ req[p].row # None
  /\ req[p].row.plate = x

-----------------------------------------------------------------------------
(***************************************************************************)
(* Steps every handler shares.                                             *)
(***************************************************************************)
Goto(q, place) == req' = [req EXCEPT ![q].at = place]

\* The answer leaves; the session closes and whatever was not committed is
\* rolled back, so nothing but the answer remains of the request.
Answer(q, code) ==
  req' = [req EXCEPT ![q] = [Idle EXCEPT !.kind = req[q].kind,
                                         !.at = "answered", !.reply = code]]

Reject(q, code) == Answer(q, code) /\ UNCHANGED <<vehicles, runs>>

Working(q) == req[q].at \notin {"idle", "answered", "lost"}

\* An exception no handler expects (the connection breaks, a number does not
\* fit its column): the transaction is rolled back and the client sees a 500.
Fail(q) == Working(q) /\ Reject(q, "500")

\* The server process dies: every open transaction is rolled back and no
\* client of it gets an answer.  A new process serves later requests.
Crash ==
  /\ \E q \in Request : Working(q)
  /\ req' = [q \in Request |->
               IF Working(q)
                 THEN [Idle EXCEPT !.kind = req[q].kind, !.at = "lost"]
                 ELSE req[q]]
  /\ UNCHANGED <<vehicles, runs>>
=============================================================================

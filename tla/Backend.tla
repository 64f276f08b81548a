------------------------------- MODULE Backend -------------------------------
(***************************************************************************)
(* The FastAPI backend as a whole: the vehicle, run and planning handlers  *)
(* over one database, with exceptions and process crashes at any point.    *)
(***************************************************************************)
EXTENDS VehicleService, RunService, Planning

Receive(q) == ReceiveVehicle(q) \/ ReceiveRun(q) \/ ReceivePlanning(q)

Step(q) == VehicleStep(q) \/ RunStep(q) \/ PlanStep(q)

\* The next statement of q waits for a lock of p.
WaitsFor(q, p) ==
  LET x == req[q]
  IN /\ p # q
     /\ \/ /\ x.at = "flush" /\ x.kind = "createVehicle"
           /\ x.row.plate # None /\ DecidesPlate(p, x.row.plate)
        \/ /\ x.at = "flush" /\ x.kind = "patchVehicle" /\ x.cols # {}
           /\ \/ WritesVehicle(p, x.vehicle)
              \/ "plate" \in x.cols /\ Pins(p, x.vehicle)
        \/ x.at = "index" /\ DecidesPlate(p, x.row.plate)
        \/ /\ x.at = "flush" /\ x.kind = "deleteVehicle"
           /\ WritesVehicle(p, x.vehicle) \/ Pins(p, x.vehicle)
        \/ /\ x.at = "cascade"
           /\ \E r \in Run : HasRun(r) /\ runs[r].vehicle = x.vehicle /\ WritesRun(p, r)
        \/ x.at = "insertRun" /\ HasVehicle(x.vehicle) /\ LocksVehicleKey(p, x.vehicle)
        \/ /\ x.at = "flush" /\ x.kind = "patchRun" /\ x.labelled
           /\ HasRun(x.run) /\ WritesRun(p, x.run)
        \/ x.at = "flush" /\ x.kind = "deleteRun" /\ WritesRun(p, x.run)

\* The handlers in S wait for each other: none of them can go on by itself.
WaitsInCircle(S) ==
  /\ S # {}
  /\ \A q \in S : /\ \E p \in S : WaitsFor(q, p)
                 /\ \E p \in S : WaitsFor(p, q)

\* PostgreSQL finds the circle and raises DeadlockDetected in one statement of
\* it, which no handler catches.
BreakDeadlock(q) ==
  /\ \E S \in SUBSET Request : q \in S /\ WaitsInCircle(S)
  /\ Reject(q, "500")

\* Every request has been received and answered, or lost in a crash.
Quiet ==
  /\ \A q \in Request : req[q].at \in {"answered", "lost"}
  /\ UNCHANGED vars

Next ==
  \/ \E q \in Request : Receive(q) \/ Step(q) \/ Fail(q) \/ BreakDeadlock(q)
  \/ Crash
  \/ Quiet

Init == StoreInit

Spec == Init /\ [][Next]_vars

(***************************************************************************)
(* The event loop resumes every handler whose await has returned; calls of *)
(* the routing engines have timeouts, and of Gemini's, which have none, it *)
(* is assumed that they end; the database wakes a waiting statement when   *)
(* the lock it waits for is free, and looks for circles of waits after     *)
(* deadlock_timeout.  It is enough that a handler goes on while one can,   *)
(* since none goes round.  Clients need not call, and neither exceptions   *)
(* nor crashes have to happen.                                             *)
(***************************************************************************)
Fairness == WF_vars(\E q \in Request : Step(q) \/ BreakDeadlock(q))

FairSpec == Spec /\ Fairness

-----------------------------------------------------------------------------
(* Safety *)

\* No client ever meets a run that is still "running" or half written: a row
\* of runs is done and has routes, or failed and has none.  create_run writes
\* "running" long before the routes, but all of it commits at once.
RunsFinished ==
  \A r \in Run : HasRun(r) =>
    /\ runs[r].status \in {"done", "failed"}
    /\ runs[r].status = "done" <=> runs[r].routes # "none"

\* A run refers to a vehicle that exists or to none, although vehicles are
\* hard deleted while runs for them are being planned.
VehicleReferencesHold ==
  \A r \in Run : HasRun(r) /\ runs[r].vehicle # None =>
    /\ runs[r].vehicle \in Vehicle
    /\ HasVehicle(runs[r].vehicle)

\* No two vehicles have the same plate, whatever creations, changes and
\* deletions overlap.
PlatesUnique ==
  \A v, w \in Vehicle :
    v # w /\ HasVehicle(v) /\ HasVehicle(w) /\ vehicles[v].plate # None =>
      vehicles[v].plate # vehicles[w].plate

\* A status code tells the truth about the run a planner made: 201 means it
\* is (or was) in the history and done, 400 and 404 that it never was there,
\* 503 that at most a failed run is kept.
AnswersTellTheTruth ==
  \A q \in Request : req[q].kind \in Planner /\ req[q].at = "answered" =>
    /\ req[q].reply = "201" =>
         runs[q] = Deleted \/ (HasRun(q) /\ runs[q].status = "done")
    /\ req[q].reply \in {"400", "404"} => runs[q] = Unborn
    /\ req[q].reply = "503" =>
         runs[q] \in Absent \/ runs[q].status = "failed"

\* A recalculated run derives from a run that was published and done, never
\* from one that is still being planned or that failed.
OriginsWereDone ==
  \A r \in Run : HasRun(r) /\ runs[r].origin # None =>
    \/ runs[runs[r].origin] = Deleted
    \/ HasRun(runs[r].origin) /\ runs[runs[r].origin].status = "done"

\* Every done run was priced with a factor that emission_factors has: a
\* vehicle that concurrent changes left with a pair of fuel and class without
\* a factor, or that lost its link, never gets a route priced at nothing.
DoneRunsHadAFactor ==
  \A r \in Run : HasRun(r) /\ runs[r].status = "done" =>
    /\ <<runs[r].snapshot.fuel, runs[r].snapshot.class>> \in FactorPair
    /\ runs[r].snapshot.ef # None

\* Handlers wait for each other's row locks and index entries in a circle only
\* where each of them is an UPDATE that takes a plate another is giving up: a
\* DELETE that holds its vehicle's key and waits for runs only waits for whoever
\* is about to commit, and a planner waits for a key while it holds none.
OnlyPlatesMakeCircles ==
  \A S \in SUBSET Request : WaitsInCircle(S) =>
    \A q \in S : req[q].at = "index"

-----------------------------------------------------------------------------
(* Action properties *)

\* The content of a stored run is frozen: whatever happens to its vehicle or
\* to the run it was recalculated from, its snapshot, status, routes, CO2 and
\* origin stay.  A run leaves the history only when its own deletion was asked
\* for, and does not come back.
FrozenContent(row) ==
  <<row.status, row.snapshot, row.routes, row.priced, row.origin>>

HistoryIsFrozen ==
  [][\A r \in Run :
       /\ runs[r] = Deleted => runs'[r] = Deleted
       /\ HasRun(r) /\ runs'[r] = Deleted =>
            \E q \in Request : req[q].kind = "deleteRun" /\ req[q].run = r
       /\ HasRun(r) /\ runs'[r] # Deleted =>
            FrozenContent(runs'[r]) = FrozenContent(runs[r])]_vars

\* The backend's handling of runs implements the ledger.
Ledger == INSTANCE RunLedger WITH
  ledger <- runs, Entry <- RunRow,
  Initial <- [r \in Run |-> IF r \in DOMAIN Past THEN Past[r] ELSE Unborn]

LedgerSpec == Ledger!Spec

-----------------------------------------------------------------------------
(***************************************************************************)
(* Why it is so: what holds of every handler between any two steps.        *)
(***************************************************************************)

\* The places where only planners, and where only the others, ever are.
PlannerPlace == {"readOriginal", "readRoutes", "readSegments", "readVehicle",
                 "insertRun", "route", "price"}
OtherPlace == {"readRow", "flush", "index", "cascade"}

\* A handler's local data are what its next steps need: it is at a place of
\* its kind, and names rows of the right sort.
WellFormed(q) ==
  LET x == req[q]
  IN /\ Working(q) => x.kind \in Endpoints
     /\ x.at \in PlannerPlace => x.kind \in Planner
     /\ x.at \in {"readOriginal", "readRoutes", "readSegments"} => x.kind = "recalculate"
     /\ x.at = "route" => x.kind \in {"p2p", "vrp"}
     /\ x.at \in OtherPlace => x.kind \notin Planner
     /\ x.at = "cascade" => x.kind = "deleteVehicle"
     /\ x.at = "index" => x.kind = "patchVehicle" /\ "plate" \in x.cols
     /\ Working(q) /\ x.kind \in Planner \cup {"patchVehicle", "deleteVehicle"} =>
          x.vehicle \in Vehicle
     /\ Working(q) /\ x.kind \in {"recalculate", "patchRun", "deleteRun"} =>
          x.run \in Run
     /\ x.kind \in {"createVehicle", "patchVehicle"}
          /\ x.at \in {"readRow", "flush", "index", "commit"} => x.row \in VehicleRow
     /\ x.kind \in Planner /\ x.at \in {"insertRun", "route", "price", "commit"} =>
          x.row \in VehicleRow

\* The routes a planner holds fit the status it will finalize its run with.
RoutesFit(q) ==
  LET x == req[q]
  IN /\ x.at = "idle" => x.routes = "none"
     /\ x.kind \in {"p2p", "vrp"} /\ x.at \in {"readVehicle", "insertRun", "route"} =>
          x.routes = "none"
     /\ x.kind = "recalculate" /\ x.at \in {"readVehicle", "insertRun"} =>
          x.routes # "none"
     /\ x.at = "price" => x.routes # "none"
     /\ x.kind \in Planner /\ x.at = "commit" =>
          /\ x.status \in {"done", "failed"}
          /\ x.status = "done" <=> x.routes # "none"

\* A run is in the table only after its handler's commit, and a handler that
\* changes one has seen it there.
RowsSeen(q) ==
  /\ req[q].at \notin {"respond", "answered", "lost"} => runs[q] = Unborn
  /\ req[q].kind \in {"patchRun", "deleteRun"} /\ req[q].at \in {"flush", "commit"} =>
       runs[req[q].run] # Unborn
  /\ req[q].kind = "patchRun" /\ req[q].at = "commit" /\ req[q].labelled =>
       HasRun(req[q].run)

\* No two handlers hold conflicting row locks, and the vehicle whose key an
\* unfinished run holds exists.
LocksHold ==
  /\ \A p \in Request, v \in Vehicle : Pins(p, v) => HasVehicle(v)
  /\ \A p, q \in Request, v \in Vehicle :
       p # q => ~ (Pins(p, v) /\ LocksVehicleKey(q, v))
  /\ \A p, q \in Request, r \in Run :
       p # q => ~ (WritesRun(p, r) /\ WritesRun(q, r))

\* The invariant that is inductive: everything the safety properties of the
\* runs rest on.
HandlersOnTrack ==
  /\ TypeOK
  /\ \A q \in Request : WellFormed(q) /\ RoutesFit(q) /\ RowsSeen(q)
  /\ LocksHold
  /\ RunsFinished
  /\ VehicleReferencesHold

-----------------------------------------------------------------------------
(* Liveness *)

\* Every request that is received is answered, or lost in a crash: handlers
\* waiting for each other's row locks wait in a circle only until PostgreSQL
\* breaks it.
RequestsEnd ==
  \A q \in Request :
    Working(q) ~> req[q].at \in {"answered", "lost"}

-----------------------------------------------------------------------------
(* What the documentation says and the code does not do *)

\* "the backend maps emission_factor_id automatically (by the combination
\* fuel_type + vehicle_class)": api-and-ui-spec.md, section 2.8.
FactorMatchesVehicle ==
  \A v \in Vehicle : HasVehicle(v) /\ vehicles[v].ef # None =>
    vehicles[v].ef = <<vehicles[v].fuel, vehicles[v].class>>

\* Recalculation reuses the persisted routes "to recompute CO2 for a
\* different vehicle" (recalc_service.py): the run it stores has CO2 figures
\* that were computed.
RecalculatedRunsArePriced ==
  \A r \in Run :
    HasRun(r) /\ runs[r].origin # None => runs[r].priced
=============================================================================

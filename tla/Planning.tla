------------------------------ MODULE Planning ------------------------------
(***************************************************************************)
(* The three handlers that plan: execute_p2p (services/routing_service.py),*)
(* execute_vrp (services/vrp_service.py) and recalculate_with_vehicle      *)
(* (services/recalc_service.py).  Each reads a vehicle, inserts a run in   *)
(* state "running", works on it while awaiting other services, finalizes   *)
(* it and commits once.                                                    *)
(***************************************************************************)
EXTENDS Store

-----------------------------------------------------------------------------
(* The requests *)

ReceivePlan(q) ==
  /\ req[q].at = "idle"
  /\ \E k \in {"p2p", "vrp"} \cap Endpoint, v \in Vehicle :
       req' = [req EXCEPT ![q].kind = k, ![q].at = "readVehicle",
                          ![q].vehicle = v]
  /\ UNCHANGED <<vehicles, runs>>

ReceiveRecalculate(q) ==
  /\ req[q].at = "idle" /\ "recalculate" \in Endpoint
  /\ \E r \in Run, v \in Vehicle :
       req' = [req EXCEPT ![q].kind = "recalculate", ![q].at = "readOriginal",
                          ![q].run = r, ![q].vehicle = v]
  /\ UNCHANGED <<vehicles, runs>>

-----------------------------------------------------------------------------
(* get_run for the original run: a SELECT of the run, then one for its     *)
(* routes and one for their segments, each seeing what is committed when   *)
(* it executes.                                                            *)

ReadOriginal(q) ==
  /\ req[q].at = "readOriginal"
  /\ LET r == req[q].run
     IN \/ ~ HasRun(r) /\ Reject(q, "404")
        \/ /\ HasRun(r)
           /\ req' = [req EXCEPT ![q].at = "readRoutes",
                                 ![q].status = runs[r].status,
                                 ![q].labelled = runs[r].labelled]
           /\ UNCHANGED <<vehicles, runs>>

\* A route whose segments are read later looks as if it had none.
ReadRoutes(q) ==
  /\ req[q].at = "readRoutes"
  /\ LET r == req[q].run
         found == IF HasRun(r) /\ runs[r].routes # "none" THEN "bare" ELSE "none"
     IN req' = [req EXCEPT ![q].at = "readSegments", ![q].routes = found]
  /\ UNCHANGED <<vehicles, runs>>

\* Mutant: any run may be recalculated.
ReadSegmentsUnchecked(q) ==
  /\ req[q].at = "readSegments"
  /\ req' = [req EXCEPT ![q].at = "readVehicle"]
  /\ UNCHANGED <<vehicles, runs>>

\* With the run read, its status and routes are checked (RecalculateError is
\* a 400).
ReadSegments(q) ==
  /\ req[q].at = "readSegments"
  /\ LET r == req[q].run
         found == IF req[q].routes = "bare" /\ HasRun(r)
                    THEN runs[r].routes ELSE req[q].routes
         usable == req[q].status = "done" /\ found # "none"
     IN \/ ~ usable /\ Reject(q, "400")
        \/ /\ usable
           /\ req' = [req EXCEPT ![q].at = "readVehicle", ![q].routes = found]
           /\ UNCHANGED <<vehicles, runs>>

-----------------------------------------------------------------------------
(* get_vehicle, vehicle_to_snapshot and EcoFactorBook.load *)

\* The factor book has no row for the snapshot's pair: a KeyError.
Unfactored(q) == <<req[q].row.fuel, req[q].row.class>> \notin FactorPair

\* Mutant: session.get without a look at its result.
ReadVehicleUnchecked(q) ==
  /\ req[q].at = "readVehicle"
  /\ req' = [req EXCEPT ![q].at = "insertRun", ![q].row = vehicles[req[q].vehicle]]
  /\ UNCHANGED <<vehicles, runs>>

\* execute_vrp first asks for its API key (503).  A vehicle without a factor
\* has no snapshot (500); recalculation looks its factor up here as well.
ReadVehicle(q) ==
  /\ req[q].at = "readVehicle"
  /\ LET v == req[q].vehicle
         pair == <<vehicles[v].fuel, vehicles[v].class>>
         unusable == \/ vehicles[v].ef = None
                     \/ req[q].kind = "recalculate" /\ pair \notin FactorPair
     IN \/ req[q].kind = "vrp" /\ Reject(q, "503")
        \/ ~ HasVehicle(v) /\ Reject(q, "404")
        \/ HasVehicle(v) /\ unusable /\ Reject(q, "500")
        \/ /\ HasVehicle(v) /\ ~ unusable
           /\ req' = [req EXCEPT ![q].at = "insertRun", ![q].row = vehicles[v]]
           /\ UNCHANGED <<vehicles, runs>>

\* create_run flushes the run in state "running" (and execute_vrp its jobs).
\* The foreign-key check waits for a handler that is deleting or re-keying
\* the vehicle; it fails if the vehicle is gone, with an exception nobody
\* handles.
InsertRun(q) ==
  /\ req[q].at = "insertRun"
  /\ LET v == req[q].vehicle
     IN \/ ~ HasVehicle(v) /\ Reject(q, "500")
        \/ /\ HasVehicle(v)
           /\ \A p \in Request \ {q} : ~ LocksVehicleKey(p, v)
           /\ Goto(q, IF req[q].kind = "recalculate" THEN "price" ELSE "route")
           /\ UNCHANGED <<vehicles, runs>>

-----------------------------------------------------------------------------
(* The routing engines, or the matrix service and the solver *)

\* At least one route came back.  VRP routes never get segments; a p2p route
\* lacks them when the engine sent none.
Routed(q) ==
  /\ req[q].at = "route"
  /\ \E found \in {"segmented", "bare"} :
       /\ req[q].kind = "vrp" => found = "bare"
       /\ req' = [req EXCEPT ![q].at = "price", ![q].routes = found]
  /\ UNCHANGED <<vehicles, runs>>

\* Mutant: commit without finalize_run.
NothingRoutedUnfinalized(q) ==
  /\ req[q].at = "route" /\ req[q].kind = "p2p"
  /\ Goto(q, "commit")
  /\ UNCHANGED <<vehicles, runs>>

\* execute_p2p finalizes the run as failed when every engine failed.
NothingRouted(q) ==
  /\ req[q].at = "route" /\ req[q].kind = "p2p"
  /\ req' = [req EXCEPT ![q].at = "commit", ![q].status = "failed"]
  /\ UNCHANGED <<vehicles, runs>>

\* Found out after the run was inserted: for p2p no engine asked for, weights
\* that do not add up (400) or no API key (503); for vrp any ValueError, such
\* as a matrix that is no JSON (400).
RefusePlan(q) ==
  /\ req[q].at = "route"
  /\ \/ req[q].kind \in {"p2p", "vrp"} /\ Reject(q, "400")
     \/ req[q].kind = "p2p" /\ Reject(q, "503")

\* Mutant: a missing factor counts as 0 g/km.
PriceUnchecked(q) ==
  /\ req[q].at = "price"
  /\ req' = [req EXCEPT ![q].at = "commit", ![q].status = "done"]
  /\ UNCHANGED <<vehicles, runs>>

\* CO2 and the recommendation are computed, routes and segments flushed, the
\* narrative awaited, the run finalized as done.  No factor for the pair: 500.
Price(q) ==
  /\ req[q].at = "price"
  /\ \/ Unfactored(q) /\ Reject(q, "500")
     \/ /\ ~ Unfactored(q)
        /\ req' = [req EXCEPT ![q].at = "commit", ![q].status = "done"]
        /\ UNCHANGED <<vehicles, runs>>

-----------------------------------------------------------------------------
(* The commit *)

\* The run as the handler built it.  Recalculation sums CO2 over segments
\* only, so routes without segments come out as 0.
NewRun(q) ==
  [status |-> req[q].status,
   vehicle |-> req[q].vehicle,
   snapshot |-> req[q].row,
   routes |-> req[q].routes,
   priced |-> /\ req[q].status = "done"
              /\ req[q].kind = "recalculate" => req[q].routes = "segmented",
   labelled |-> req[q].labelled,
   origin |-> req[q].run]

CommitRun(q) ==
  /\ req[q].at = "commit" /\ req[q].kind \in Planner
  /\ runs' = [runs EXCEPT ![q] = NewRun(q)]
  /\ Goto(q, "respond") /\ UNCHANGED vehicles

\* Mutant: every committed run is answered as a success.
RespondPlanOptimistic(q) ==
  /\ req[q].at = "respond" /\ req[q].kind \in Planner
  /\ Reject(q, "201")

\* After its commit a failed run is answered with 503; execute_p2p and
\* execute_vrp read their run again, which somebody may have deleted.
RespondPlan(q) ==
  /\ req[q].at = "respond" /\ req[q].kind \in Planner
  /\ Reject(q, IF req[q].status = "failed" THEN "503"
               ELSE IF req[q].kind # "recalculate" /\ ~ HasRun(q) THEN "500"
               ELSE "201")

ReceivePlanning(q) == ReceivePlan(q) \/ ReceiveRecalculate(q)

PlanStep(q) ==
  \/ ReadOriginal(q) \/ ReadRoutes(q) \/ ReadSegments(q)
  \/ ReadVehicle(q) \/ InsertRun(q)
  \/ Routed(q) \/ NothingRouted(q) \/ RefusePlan(q) \/ Price(q)
  \/ CommitRun(q) \/ RespondPlan(q)
=============================================================================

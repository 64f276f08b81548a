---------------------------- MODULE Backend_proofs ----------------------------
(***************************************************************************)
(* Theorems about Backend, for every number of requests, vehicles, runs    *)
(* and factors, in four parts. Three have an inductive invariant each:     *)
(* HandlersOnTrack (types, references, the ledger), AnswersOnTrack (what   *)
(* is read and answered of runs stays true), PlatesApart (plates). The     *)
(* fourth is about progress: which waits make circles, and no step back.   *)
(***************************************************************************)
EXTENDS Backend, TLAPS

\* Initially nobody works and every stored run is finished.
LEMMA InitOnTrack == Init => HandlersOnTrack
<1> SUFFICES ASSUME Init PROVE HandlersOnTrack
  OBVIOUS
<1> USE SeedAssumption, NullAssumption DEF Init, StoreInit
<1>1. \A q \in Request : req[q] = Idle
  OBVIOUS
<1>2. TypeOK
  <2>1. Idle \in RequestRecord
    BY DEF Idle, RequestRecord, Place, Reply, RouteRows
  <2>2. vehicles \in [Vehicle -> VehicleRow \cup Absent]
    BY DEF Vehicle, Absent
  <2>3. runs \in [Run -> RunRow \cup Absent]
    BY DEF Run, Absent
  <2> QED
    BY <2>1, <2>2, <2>3 DEF TypeOK
<1>3. \A q \in Request : WellFormed(q) /\ RoutesFit(q)
  BY <1>1 DEF Idle, WellFormed, RoutesFit, Working, PlannerPlace, OtherPlace
<1>4. \A q \in Request : RowsSeen(q)
  BY <1>1 DEF Idle, RowsSeen, Run
<1>5. LocksHold
  BY <1>1 DEF Idle, LocksHold, Pins, LocksVehicleKey, WritesVehicle, WritesRun
<1>6. RunsFinished
  BY DEF RunsFinished, HasRun, Absent, Run, RunRow
<1>7. VehicleReferencesHold
  BY DEF VehicleReferencesHold, HasRun, HasVehicle, Absent, Run, Vehicle, RunRow
<1> QED
  BY <1>2, <1>3, <1>4, <1>5, <1>6, <1>7 DEF HandlersOnTrack

\* A step that changes only its own handler's record keeps the invariant if
\* the new record is on track and the locks it takes are free.
LEMMA LocalStep ==
  ASSUME HandlersOnTrack, UNCHANGED <<vehicles, runs>>,
         NEW q \in Request, req' \in [Request -> RequestRecord],
         \A p \in Request \ {q} : req'[p] = req[p],
         WellFormed(q)', RoutesFit(q)', RowsSeen(q)',
         \A v \in Vehicle : Pins(q, v)' =>
           HasVehicle(v) /\ \A p \in Request \ {q} : ~ LocksVehicleKey(p, v),
         \A v \in Vehicle : LocksVehicleKey(q, v)' =>
           \A p \in Request \ {q} : ~ Pins(p, v),
         \A r \in Run : WritesRun(q, r)' =>
           \A p \in Request \ {q} : ~ WritesRun(p, r)
  PROVE  HandlersOnTrack'
<1>1. TypeOK'
  BY DEF HandlersOnTrack, TypeOK
<1>3. \A p \in Request : (WellFormed(p) /\ RoutesFit(p) /\ RowsSeen(p))'
  BY DEF HandlersOnTrack, WellFormed, RoutesFit, RowsSeen, Working, HasRun
<1>4. \A p \in Request \ {q} :
        /\ \A v \in Vehicle : Pins(p, v)' <=> Pins(p, v)
        /\ \A v \in Vehicle : LocksVehicleKey(p, v)' <=> LocksVehicleKey(p, v)
        /\ \A r \in Run : WritesRun(p, r)' <=> WritesRun(p, r)
  BY DEF Pins, LocksVehicleKey, WritesVehicle, WritesRun, HasRun
<1>5. LocksHold'
  <2>1. \A p \in Request, v \in Vehicle : Pins(p, v)' => HasVehicle(v)'
    BY <1>4 DEF HandlersOnTrack, LocksHold, HasVehicle
  <2>2. \A p, p2 \in Request, v \in Vehicle :
          p # p2 => ~ (Pins(p, v)' /\ LocksVehicleKey(p2, v)')
    BY <1>4 DEF HandlersOnTrack, LocksHold
  <2>3. \A p, p2 \in Request, r \in Run :
          p # p2 => ~ (WritesRun(p, r)' /\ WritesRun(p2, r)')
    BY <1>4 DEF HandlersOnTrack, LocksHold
  <2> QED
    BY <2>1, <2>2, <2>3 DEF LocksHold
<1>6. RunsFinished' /\ VehicleReferencesHold'
  BY DEF HandlersOnTrack, RunsFinished, VehicleReferencesHold, HasRun, HasVehicle
<1> QED
  BY <1>1, <1>3, <1>5, <1>6 DEF HandlersOnTrack
\* An answer takes no lock and keeps nothing but the answer.
LEMMA RejectStep ==
  ASSUME HandlersOnTrack, NEW q \in Request, NEW code \in Reply,
         Reject(q, code)
  PROVE  HandlersOnTrack'
<1>1. /\ req' \in [Request -> RequestRecord]
      /\ \A p \in Request \ {q} : req'[p] = req[p]
      /\ req'[q].at = "answered"
  BY DEF HandlersOnTrack, TypeOK, Reject, Answer, Idle, RequestRecord, Place,
         RouteRows
<1>2. WellFormed(q)' /\ RoutesFit(q)' /\ RowsSeen(q)'
  BY <1>1 DEF WellFormed, RoutesFit, RowsSeen, Working, PlannerPlace, OtherPlace
<1>3. /\ \A v \in Vehicle : ~ Pins(q, v)' /\ ~ LocksVehicleKey(q, v)'
      /\ \A r \in Run : ~ WritesRun(q, r)'
  BY <1>1 DEF Pins, LocksVehicleKey, WritesVehicle, WritesRun
<1> QED
  BY <1>1, <1>2, <1>3, LocalStep DEF Reject

\* So does a step to a place where a handler holds no lock.
LEMMA LocklessStep ==
  ASSUME HandlersOnTrack, UNCHANGED <<vehicles, runs>>,
         NEW q \in Request, req' \in [Request -> RequestRecord],
         \A p \in Request \ {q} : req'[p] = req[p],
         req'[q].at \notin {"route", "price", "index", "cascade", "commit"},
         WellFormed(q)', RoutesFit(q)', RowsSeen(q)'
  PROVE  HandlersOnTrack'
<1>1. /\ \A v \in Vehicle : ~ Pins(q, v)' /\ ~ LocksVehicleKey(q, v)'
      /\ \A r \in Run : ~ WritesRun(q, r)'
  BY DEF Pins, LocksVehicleKey, WritesVehicle, WritesRun
<1> QED
  BY <1>1, LocalStep

\* What Goto leaves of the handler's record.
LEMMA GotoStep ==
  ASSUME HandlersOnTrack, NEW q \in Request, NEW place \in Place,
         Goto(q, place)
  PROVE  /\ req' \in [Request -> RequestRecord]
         /\ \A p \in Request \ {q} : req'[p] = req[p]
         /\ req'[q] = [req[q] EXCEPT !.at = place]
         /\ req[q] \in RequestRecord
BY DEF HandlersOnTrack, TypeOK, Goto, RequestRecord

\* A commit keeps the invariant if it takes no row away from a handler that
\* has locked it, and gives nobody a lock.
LEMMA CommitStep ==
  ASSUME HandlersOnTrack, NEW q \in Request,
         req' \in [Request -> RequestRecord],
         \A p \in Request \ {q} : req'[p] = req[p],
         req'[q].at = "respond", WellFormed(q)',
         vehicles' \in [Vehicle -> VehicleRow \cup Absent],
         runs' \in [Run -> RunRow \cup Absent],
         \A v \in Vehicle : HasVehicle(v) =>
           HasVehicle(v)' \/ \A p \in Request \ {q} : ~ Pins(p, v),
         \A p \in Request \ {q} : runs[p] = Unborn => runs'[p] = Unborn,
         \A r \in Run : runs[r] # Unborn => runs'[r] # Unborn,
         \A p \in Request \ {q}, r \in Run :
           WritesRun(p, r) /\ HasRun(r) => HasRun(r)',
         \A p \in Request \ {q}, r \in Run : WritesRun(p, r)' => WritesRun(p, r),
         RunsFinished', VehicleReferencesHold'
  PROVE  HandlersOnTrack'
<1>1. TypeOK'
  BY DEF TypeOK
<1>2. \A p \in Request : WellFormed(p)'
  BY DEF HandlersOnTrack, WellFormed, Working
<1>3. \A p \in Request : RoutesFit(p)'
  BY DEF HandlersOnTrack, RoutesFit
<1>4. \A p \in Request : RowsSeen(p)'
  <2>1. RowsSeen(q)'
    BY DEF RowsSeen
  <2>2. ASSUME NEW p \in Request \ {q} PROVE RowsSeen(p)'
    <3>1. RowsSeen(p) /\ WellFormed(p) /\ req'[p] = req[p]
      BY DEF HandlersOnTrack
    <3>2. req[p].at \notin {"respond", "answered", "lost"} => runs'[p] = Unborn
      BY <3>1 DEF RowsSeen
    <3>3. req[p].kind \in {"patchRun", "deleteRun"} /\ req[p].at \in {"flush", "commit"}
            => req[p].run \in Run /\ runs'[req[p].run] # Unborn
      BY <3>1 DEF RowsSeen, WellFormed, Working
    <3>4. req[p].kind = "patchRun" /\ req[p].at = "commit" /\ req[p].labelled
            => HasRun(req[p].run)'
      BY <3>1, <3>3 DEF RowsSeen, WritesRun
    <3> QED
      BY <3>1, <3>2, <3>3, <3>4 DEF RowsSeen
  <2> QED
    BY <2>1, <2>2
<1>5. LocksHold'
  <2>1. /\ \A v \in Vehicle : ~ Pins(q, v)' /\ ~ LocksVehicleKey(q, v)'
        /\ \A r \in Run : ~ WritesRun(q, r)'
    BY DEF Pins, LocksVehicleKey, WritesVehicle, WritesRun
  <2>2. \A p \in Request \ {q}, v \in Vehicle :
          /\ Pins(p, v)' <=> Pins(p, v)
          /\ LocksVehicleKey(p, v)' <=> LocksVehicleKey(p, v)
    BY DEF Pins, LocksVehicleKey, WritesVehicle
  <2> QED
    BY <2>1, <2>2 DEF HandlersOnTrack, LocksHold
<1> QED
  BY <1>1, <1>2, <1>3, <1>4, <1>5 DEF HandlersOnTrack

-----------------------------------------------------------------------------
(* Vehicles *)

\* A vehicle request that is received holds nothing yet.
LEMMA ReceiveVehicleStep ==
  ASSUME HandlersOnTrack, NEW q \in Request, ReceiveVehicle(q)
  PROVE  HandlersOnTrack'
<1>1. ASSUME NEW x \in RequestRecord,
             req[q].at = "idle", req' = [req EXCEPT ![q] = x],
             UNCHANGED <<vehicles, runs>>, x.at = "readRow",
             x.kind \in {"createVehicle", "patchVehicle", "deleteVehicle"},
             x.kind # "createVehicle" => x.vehicle \in Vehicle,
             x.kind # "deleteVehicle" => x.row \in VehicleRow
      PROVE  HandlersOnTrack'
  <2>1. /\ req' \in [Request -> RequestRecord]
        /\ \A p \in Request \ {q} : req'[p] = req[p]
        /\ req'[q] = x
    BY <1>1 DEF HandlersOnTrack, TypeOK
  <2>2. WellFormed(q)' /\ RoutesFit(q)' /\ RowsSeen(q)'
    BY <1>1, <2>1 DEF HandlersOnTrack, WellFormed, RoutesFit, RowsSeen, Working,
       PlannerPlace, OtherPlace, Planner, Endpoints
  <2> QED
    BY <1>1, <2>1, <2>2, LocklessStep
<1>2. req[q] \in RequestRecord
  BY DEF HandlersOnTrack, TypeOK
<1>3. CASE ReceiveCreateVehicle(q)
  <2>1. PICK f \in Fuel, c \in Class, plate \in Plate \cup {None} :
          req' = [req EXCEPT ![q].kind = "createVehicle", ![q].at = "readRow",
            ![q].row = [fuel |-> f, class |-> c, ef |-> None, plate |-> plate]]
    BY <1>3 DEF ReceiveCreateVehicle
  <2> DEFINE row == [fuel |-> f, class |-> c, ef |-> None, plate |-> plate]
             x == [req[q] EXCEPT !.kind = "createVehicle", !.at = "readRow",
                                 !.row = row]
  <2>2. row \in VehicleRow
    BY DEF VehicleRow
  <2>3. x \in RequestRecord
    BY <1>2, <2>2 DEF RequestRecord, Place, Endpoints
  <2>4. req' = [req EXCEPT ![q] = x]
    BY <2>1 DEF HandlersOnTrack, TypeOK
  <2>5. /\ req[q].at = "idle" /\ UNCHANGED <<vehicles, runs>>
        /\ x.at = "readRow" /\ x.kind = "createVehicle" /\ x.row = row
    BY <1>2, <1>3 DEF ReceiveCreateVehicle, RequestRecord
  <2> HIDE DEF x, row
  <2> QED
    BY <1>1, <2>2, <2>3, <2>4, <2>5
<1>4. CASE ReceivePatchVehicle(q)
  <2>1. PICK v \in Vehicle, f \in Fuel, c \in Class, plate \in Plate \cup {None},
             cols \in SUBSET {"fuel", "class", "plate"} :
          /\ "fuel" \in cols \/ f = UnsetFuel
          /\ "class" \in cols \/ c = UnsetClass
          /\ "plate" \in cols \/ plate = None
          /\ req' = [req EXCEPT
               ![q].kind = "patchVehicle", ![q].at = "readRow",
               ![q].vehicle = v, ![q].cols = cols,
               ![q].row = [fuel |-> f, class |-> c, ef |-> None, plate |-> plate]]
    BY <1>4 DEF ReceivePatchVehicle
  <2> DEFINE row == [fuel |-> f, class |-> c, ef |-> None, plate |-> plate]
             x == [req[q] EXCEPT !.kind = "patchVehicle", !.at = "readRow",
                                 !.vehicle = v, !.cols = cols, !.row = row]
  <2>2. row \in VehicleRow /\ cols \in SUBSET Column
    BY DEF VehicleRow, Column
  <2>3. x \in RequestRecord
    BY <1>2, <2>2 DEF RequestRecord, Place, Endpoints
  <2>4. req' = [req EXCEPT ![q] = x]
    BY <2>1 DEF HandlersOnTrack, TypeOK
  <2>5. /\ req[q].at = "idle" /\ UNCHANGED <<vehicles, runs>>
        /\ x.at = "readRow" /\ x.kind = "patchVehicle"
        /\ x.vehicle = v /\ x.row = row
    BY <1>2, <1>4 DEF ReceivePatchVehicle, RequestRecord
  <2> HIDE DEF x, row
  <2> QED
    BY <1>1, <2>2, <2>3, <2>4, <2>5
<1>5. CASE ReceiveDeleteVehicle(q)
  <2>1. PICK v \in Vehicle :
          req' = [req EXCEPT ![q] = [req[q] EXCEPT
            !.kind = "deleteVehicle", !.at = "readRow", !.vehicle = v]]
    BY <1>5 DEF ReceiveDeleteVehicle, HandlersOnTrack, TypeOK
  <2> QED
    BY <1>1, <1>2, <1>5, <2>1
       DEF ReceiveDeleteVehicle, RequestRecord, Place, Endpoints
<1> QED
  BY <1>3, <1>4, <1>5 DEF ReceiveVehicle

\* create_vehicle with its factor resolved: still no lock.
LEMMA ResolveFactorStep ==
  ASSUME HandlersOnTrack, NEW q \in Request, ResolveFactor(q)
  PROVE  HandlersOnTrack'
<1>1. CASE Reject(q, "400")
  BY <1>1, RejectStep DEF Reply
<1>2. CASE ~ Reject(q, "400")
  <2> DEFINE pair == <<req[q].row.fuel, req[q].row.class>>
  <2>1. /\ req[q].at = "readRow" /\ req[q].kind = "createVehicle"
        /\ req[q].row \in VehicleRow /\ pair \in FactorPair
        /\ req' = [req EXCEPT ![q].at = "flush", ![q].row.ef = pair]
        /\ UNCHANGED <<vehicles, runs>>
    BY <1>2 DEF ResolveFactor, HandlersOnTrack, WellFormed
  <2> DEFINE row == [req[q].row EXCEPT !.ef = pair]
             x == [req[q] EXCEPT !.at = "flush", !.row = row]
  <2>4. req[q] \in RequestRecord /\ row \in VehicleRow
    BY <2>1 DEF HandlersOnTrack, TypeOK, VehicleRow
  <2>5. x \in RequestRecord /\ x.at = "flush" /\ x.kind = "createVehicle"
        /\ x.row = row
    BY <2>1, <2>4 DEF RequestRecord, Place
  <2>6. req' = [req EXCEPT ![q] = x]
    BY <2>1 DEF HandlersOnTrack, TypeOK
  <2> HIDE DEF x, row
  <2>2. /\ req' \in [Request -> RequestRecord]
        /\ \A p \in Request \ {q} : req'[p] = req[p]
        /\ req'[q] = x
    BY <2>4, <2>5, <2>6 DEF HandlersOnTrack, TypeOK
  <2>3. WellFormed(q)' /\ RoutesFit(q)' /\ RowsSeen(q)'
    BY <2>1, <2>2, <2>4, <2>5 DEF HandlersOnTrack, WellFormed, RoutesFit, RowsSeen, Working,
       PlannerPlace, OtherPlace, Planner, Endpoints
  <2> QED
    BY <2>1, <2>2, <2>3, <2>5, LocklessStep
<1> QED
  BY <1>1, <1>2

\* A created vehicle is not in the table before its commit.
LEMMA InsertVehicleStep ==
  ASSUME HandlersOnTrack, NEW q \in Request, InsertVehicle(q)
  PROVE  HandlersOnTrack'
<1>1. CASE Reject(q, "500")
  BY <1>1, RejectStep DEF Reply
<1>2. CASE Goto(q, "commit") /\ UNCHANGED <<vehicles, runs>>
  <2>1. /\ req' \in [Request -> RequestRecord]
        /\ \A p \in Request \ {q} : req'[p] = req[p]
        /\ req'[q] = [req[q] EXCEPT !.at = "commit"]
        /\ req[q] \in RequestRecord
    BY <1>2, GotoStep DEF Place
  <2>2. /\ req[q].at = "flush" /\ req[q].kind = "createVehicle"
        /\ req'[q].at = "commit" /\ req'[q].kind = "createVehicle"
        /\ req'[q].row = req[q].row
    BY <2>1 DEF InsertVehicle, RequestRecord
  <2>3. WellFormed(q)' /\ RoutesFit(q)' /\ RowsSeen(q)'
    BY <1>2, <2>2 DEF HandlersOnTrack, WellFormed, RoutesFit, RowsSeen, Working,
       PlannerPlace, OtherPlace, Planner, Endpoints
  <2>4. /\ \A v \in Vehicle : ~ Pins(q, v)' /\ ~ LocksVehicleKey(q, v)'
        /\ \A r \in Run : ~ WritesRun(q, r)'
    BY <2>2 DEF Pins, LocksVehicleKey, WritesVehicle, WritesRun, Planner
  <2> QED
    BY <1>2, <2>1, <2>3, <2>4, LocalStep
<1> QED
  BY <1>1, <1>2 DEF InsertVehicle

\* A new vehicle appears; nobody could have named a row under it.
LEMMA CommitNewVehicleStep ==
  ASSUME HandlersOnTrack, NEW q \in Request, CommitNewVehicle(q)
  PROVE  HandlersOnTrack'
<1> DEFINE x == [req[q] EXCEPT !.at = "respond", !.vehicle = q]
<1>1. req[q] \in RequestRecord /\ q \in Vehicle
  BY DEF HandlersOnTrack, TypeOK, Vehicle
<1>2. x \in RequestRecord /\ x.at = "respond" /\ x.kind = "createVehicle"
  BY <1>1 DEF CommitNewVehicle, RequestRecord, Place
<1>3. req' = [req EXCEPT ![q] = x]
  BY DEF CommitNewVehicle, HandlersOnTrack, TypeOK
<1> HIDE DEF x
<1>4. /\ req' \in [Request -> RequestRecord]
      /\ \A p \in Request \ {q} : req'[p] = req[p]
      /\ req'[q] = x
  BY <1>2, <1>3 DEF HandlersOnTrack, TypeOK
<1>5. WellFormed(q)'
  BY <1>2, <1>4 DEF WellFormed, Working, PlannerPlace, OtherPlace, Planner, Endpoints
<1>6. req[q].row \in VehicleRow
  BY DEF CommitNewVehicle, HandlersOnTrack, WellFormed
<1>7. /\ vehicles' \in [Vehicle -> VehicleRow \cup Absent]
      /\ \A v \in Vehicle : HasVehicle(v) => HasVehicle(v)'
      /\ runs' = runs
  BY <1>1, <1>6, NullAssumption
     DEF CommitNewVehicle, HandlersOnTrack, TypeOK, HasVehicle
<1>8. RunsFinished' /\ VehicleReferencesHold'
  BY <1>7 DEF HandlersOnTrack, RunsFinished, VehicleReferencesHold, HasRun
<1>9. \A p \in Request \ {q}, r \in Run :
        /\ WritesRun(p, r)' <=> WritesRun(p, r)
        /\ HasRun(r)' <=> HasRun(r)
  BY <1>4, <1>7 DEF WritesRun, HasRun
<1> QED
  BY <1>2, <1>4, <1>5, <1>7, <1>8, <1>9, CommitStep DEF HandlersOnTrack, TypeOK

\* A payload merged into a row makes a row.
LEMMA MergedIsRow ==
  ASSUME NEW row \in VehicleRow, NEW new \in VehicleRow, NEW cols
  PROVE  Merged(row, new, cols) \in VehicleRow
BY DEF Merged, VehicleRow

\* update_vehicle works on the row it has read, if there is one.
LEMMA ReadPatchedStep ==
  ASSUME HandlersOnTrack, NEW q \in Request, ReadPatched(q)
  PROVE  HandlersOnTrack'
<1> DEFINE v == req[q].vehicle
           new == Merged(vehicles[v], req[q].row, req[q].cols)
           pair == <<new.fuel, new.class>>
           pairChanged == Changed(vehicles[v], new) \cap {"fuel", "class"} # {}
           row == IF pairChanged THEN [new EXCEPT !.ef = pair] ELSE new
           x == [req[q] EXCEPT !.at = "flush", !.row = row,
                               !.cols = Changed(vehicles[v], row)]
<1>1. CASE Reject(q, "400") \/ Reject(q, "404")
  BY <1>1, RejectStep DEF Reply
<1>2. CASE /\ HasVehicle(v) /\ (pairChanged => pair \in FactorPair)
           /\ req' = [req EXCEPT ![q].at = "flush", ![q].row = row,
                                 ![q].cols = Changed(vehicles[v], row)]
           /\ UNCHANGED <<vehicles, runs>>
  <2>1. /\ req[q] \in RequestRecord /\ req[q].at = "readRow"
        /\ req[q].kind = "patchVehicle"
        /\ v \in Vehicle /\ req[q].row \in VehicleRow
    BY DEF ReadPatched, HandlersOnTrack, TypeOK, WellFormed, Working
  <2>2. vehicles[v] \in VehicleRow
    BY <1>2, <2>1 DEF HandlersOnTrack, TypeOK, HasVehicle
  <2>3. new \in VehicleRow
    BY <2>1, <2>2, MergedIsRow
  <2> HIDE DEF new
  <2>4. row \in VehicleRow
    BY <1>2, <2>3 DEF VehicleRow
  <2>5. Changed(vehicles[v], row) \in SUBSET Column
    BY DEF Changed
  <2> HIDE DEF row
  <2>6. /\ x \in RequestRecord /\ x.at = "flush" /\ x.kind = "patchVehicle"
        /\ x.row = row /\ x.vehicle = v
    BY <2>1, <2>4, <2>5 DEF RequestRecord, Place
  <2>7. req' = [req EXCEPT ![q] = x]
    BY <1>2 DEF HandlersOnTrack, TypeOK
  <2> HIDE DEF x
  <2>8. /\ req' \in [Request -> RequestRecord]
        /\ \A p \in Request \ {q} : req'[p] = req[p]
        /\ req'[q] = x
    BY <2>6, <2>7 DEF HandlersOnTrack, TypeOK
  <2>9. WellFormed(q)' /\ RoutesFit(q)' /\ RowsSeen(q)'
    BY <1>2, <2>1, <2>4, <2>6, <2>8 DEF HandlersOnTrack, WellFormed, RoutesFit,
       RowsSeen, Working, PlannerPlace, OtherPlace, Planner, Endpoints
  <2> QED
    BY <1>2, <2>6, <2>8, <2>9, LocklessStep
<1> QED
  BY <1>1, <1>2 DEF ReadPatched

\* update_vehicle's UPDATE takes the row's lock, which is free.
LEMMA UpdateVehicleStep ==
  ASSUME HandlersOnTrack, NEW q \in Request, UpdateVehicle(q)
  PROVE  HandlersOnTrack'
<1>1. CASE Reject(q, "500")
  BY <1>1, RejectStep DEF Reply
<1>2. ASSUME NEW place \in {"index", "commit"},
             Goto(q, place), UNCHANGED <<vehicles, runs>>,
             place = "index" => "plate" \in req[q].cols,
             "plate" \in req[q].cols =>
                \A p \in Request \ {q} : ~ Pins(p, req[q].vehicle)
      PROVE  HandlersOnTrack'
  <2>1. /\ req' \in [Request -> RequestRecord]
        /\ \A p \in Request \ {q} : req'[p] = req[p]
        /\ req'[q] = [req[q] EXCEPT !.at = place]
        /\ req[q] \in RequestRecord
    BY <1>2, GotoStep DEF Place
  <2>2. /\ req[q].at = "flush" /\ req[q].kind = "patchVehicle"
        /\ req'[q].at = place /\ req'[q].kind = "patchVehicle"
        /\ req'[q].row = req[q].row /\ req'[q].vehicle = req[q].vehicle
        /\ req'[q].cols = req[q].cols
    BY <2>1 DEF UpdateVehicle, RequestRecord
  <2>3. WellFormed(q)' /\ RoutesFit(q)' /\ RowsSeen(q)'
    BY <1>2, <2>2 DEF HandlersOnTrack, WellFormed, RoutesFit, RowsSeen, Working,
       PlannerPlace, OtherPlace, Planner, Endpoints
  <2>4. /\ \A v \in Vehicle : ~ Pins(q, v)'
        /\ \A r \in Run : ~ WritesRun(q, r)'
    BY <2>2 DEF Pins, WritesRun, Planner
  <2>5. \A v \in Vehicle : LocksVehicleKey(q, v)' =>
          \A p \in Request \ {q} : ~ Pins(p, v)
    BY <1>2, <2>2 DEF LocksVehicleKey, WritesVehicle
  <2> QED
    BY <1>2, <2>1, <2>3, <2>4, <2>5, LocalStep
<1>3. CASE req[q].cols = {} /\ Goto(q, "commit") /\ UNCHANGED <<vehicles, runs>>
  BY <1>2, <1>3
<1>4. ASSUME "plate" \in req[q].cols =>
               \A p \in Request \ {q} : ~ Pins(p, req[q].vehicle),
             Goto(q, IF "plate" \in req[q].cols /\ req[q].row.plate # None
                       THEN "index" ELSE "commit"),
             UNCHANGED <<vehicles, runs>>
      PROVE  HandlersOnTrack'
  BY <1>2, <1>4
<1> QED
  BY <1>1, <1>3, <1>4 DEF UpdateVehicle

\* Entering the plate in the index adds no row lock: the row is marked already.
LEMMA IndexPlateStep ==
  ASSUME HandlersOnTrack, NEW q \in Request, IndexPlate(q)
  PROVE  HandlersOnTrack'
<1>1. CASE Reject(q, "500")
  BY <1>1, RejectStep DEF Reply
<1>2. CASE Goto(q, "commit") /\ UNCHANGED <<vehicles, runs>>
  <2>1. /\ req' \in [Request -> RequestRecord]
        /\ \A p \in Request \ {q} : req'[p] = req[p]
        /\ req'[q] = [req[q] EXCEPT !.at = "commit"]
        /\ req[q] \in RequestRecord
    BY <1>2, GotoStep DEF Place
  <2>2. /\ req[q].at = "index" /\ req[q].kind = "patchVehicle" /\ req[q].cols # {}
        /\ req'[q].at = "commit" /\ req'[q].kind = "patchVehicle"
        /\ req'[q].row = req[q].row /\ req'[q].vehicle = req[q].vehicle
        /\ req'[q].cols = req[q].cols
    BY <2>1 DEF IndexPlate, RequestRecord, HandlersOnTrack, WellFormed
  <2>3. WellFormed(q)' /\ RoutesFit(q)' /\ RowsSeen(q)'
    BY <1>2, <2>2 DEF HandlersOnTrack, WellFormed, RoutesFit, RowsSeen, Working,
       PlannerPlace, OtherPlace, Planner, Endpoints
  <2>4. /\ \A v \in Vehicle : ~ Pins(q, v)'
        /\ \A r \in Run : ~ WritesRun(q, r)'
    BY <2>2 DEF Pins, WritesRun, Planner
  <2>5. \A v \in Vehicle : LocksVehicleKey(q, v)' => LocksVehicleKey(q, v)
    BY <2>2 DEF LocksVehicleKey, WritesVehicle
  <2>6. \A v \in Vehicle : LocksVehicleKey(q, v)' =>
          \A p \in Request \ {q} : ~ Pins(p, v)
    BY <2>5 DEF HandlersOnTrack, LocksHold
  <2> QED
    BY <1>2, <2>1, <2>3, <2>4, <2>6, LocalStep
<1> QED
  BY <1>1, <1>2 DEF IndexPlate

\* A changed vehicle stays a vehicle, so every reference to it holds.
LEMMA CommitPatchedVehicleStep ==
  ASSUME HandlersOnTrack, NEW q \in Request, CommitPatchedVehicle(q)
  PROVE  HandlersOnTrack'
<1> DEFINE v == req[q].vehicle
           new == Merged(vehicles[v], req[q].row, req[q].cols)
<1>1. /\ req' \in [Request -> RequestRecord]
      /\ \A p \in Request \ {q} : req'[p] = req[p]
      /\ req'[q] = [req[q] EXCEPT !.at = "respond"]
      /\ req[q] \in RequestRecord
  BY GotoStep DEF CommitPatchedVehicle, Place
<1>2. /\ req[q].at = "commit" /\ req[q].kind = "patchVehicle"
      /\ req'[q].at = "respond" /\ req'[q].kind = "patchVehicle"
      /\ req'[q].vehicle = v
  BY <1>1 DEF CommitPatchedVehicle, RequestRecord
<1>3. v \in Vehicle /\ req[q].row \in VehicleRow
  BY <1>2 DEF HandlersOnTrack, WellFormed, Working
<1>4. WellFormed(q)'
  BY <1>2, <1>3 DEF WellFormed, Working, PlannerPlace, OtherPlace, Planner, Endpoints
<1>5. HasVehicle(v) => new \in VehicleRow
  BY <1>3, MergedIsRow DEF HandlersOnTrack, TypeOK, HasVehicle
<1>6. vehicles' = [vehicles EXCEPT ![v] = IF HasVehicle(v) THEN new ELSE @]
  BY DEF CommitPatchedVehicle
<1> HIDE DEF new
<1>7. /\ vehicles' \in [Vehicle -> VehicleRow \cup Absent]
      /\ \A w \in Vehicle : HasVehicle(w) => HasVehicle(w)'
      /\ runs' = runs
  BY <1>3, <1>5, <1>6, NullAssumption
     DEF CommitPatchedVehicle, HandlersOnTrack, TypeOK, HasVehicle
<1>8. RunsFinished' /\ VehicleReferencesHold'
  BY <1>7 DEF HandlersOnTrack, RunsFinished, VehicleReferencesHold, HasRun
<1>9. \A p \in Request \ {q}, r \in Run :
        /\ WritesRun(p, r)' <=> WritesRun(p, r)
        /\ HasRun(r)' <=> HasRun(r)
  BY <1>1, <1>7 DEF WritesRun, HasRun
<1> QED
  BY <1>1, <1>2, <1>4, <1>7, <1>8, <1>9, CommitStep DEF HandlersOnTrack, TypeOK

\* The answers of create_vehicle and update_vehicle change no row.
LEMMA RespondVehicleStep ==
  ASSUME HandlersOnTrack, NEW q \in Request,
         RespondVehicle(q) \/ RespondDeletedVehicle(q)
  PROVE  HandlersOnTrack'
BY RejectStep DEF RespondVehicle, RespondDeletedVehicle, Reply

\* delete_vehicle goes on only if it finds the row.
LEMMA ReadDoomedVehicleStep ==
  ASSUME HandlersOnTrack, NEW q \in Request, ReadDoomedVehicle(q)
  PROVE  HandlersOnTrack'
<1>1. CASE Reject(q, "404")
  BY <1>1, RejectStep DEF Reply
<1>2. CASE Goto(q, "flush") /\ UNCHANGED <<vehicles, runs>>
  <2>1. /\ req' \in [Request -> RequestRecord]
        /\ \A p \in Request \ {q} : req'[p] = req[p]
        /\ req'[q] = [req[q] EXCEPT !.at = "flush"]
        /\ req[q] \in RequestRecord
    BY <1>2, GotoStep DEF Place
  <2>2. /\ req[q].at = "readRow" /\ req[q].kind = "deleteVehicle"
        /\ req'[q].at = "flush" /\ req'[q].kind = "deleteVehicle"
        /\ req'[q].vehicle = req[q].vehicle
    BY <2>1 DEF ReadDoomedVehicle, RequestRecord
  <2>3. WellFormed(q)' /\ RoutesFit(q)' /\ RowsSeen(q)'
    BY <1>2, <2>2 DEF HandlersOnTrack, WellFormed, RoutesFit, RowsSeen, Working,
       PlannerPlace, OtherPlace, Planner, Endpoints
  <2> QED
    BY <1>2, <2>1, <2>2, <2>3, LocklessStep
<1> QED
  BY <1>1, <1>2 DEF ReadDoomedVehicle

\* The DELETE waits until no unfinished run holds the key of the vehicle.
LEMMA DeleteVehicleRowStep ==
  ASSUME HandlersOnTrack, NEW q \in Request, DeleteVehicleRow(q)
  PROVE  HandlersOnTrack'
<1>1. /\ req' \in [Request -> RequestRecord]
      /\ \A p \in Request \ {q} : req'[p] = req[p]
      /\ req'[q] = [req[q] EXCEPT !.at = "cascade"]
      /\ req[q] \in RequestRecord /\ UNCHANGED <<vehicles, runs>>
  BY GotoStep DEF DeleteVehicleRow, Place
<1>2. /\ req[q].at = "flush" /\ req[q].kind = "deleteVehicle"
      /\ req'[q].at = "cascade" /\ req'[q].kind = "deleteVehicle"
      /\ req'[q].vehicle = req[q].vehicle
  BY <1>1 DEF DeleteVehicleRow, RequestRecord
<1>3. WellFormed(q)' /\ RoutesFit(q)' /\ RowsSeen(q)'
  BY <1>1, <1>2 DEF HandlersOnTrack, WellFormed, RoutesFit, RowsSeen, Working,
     PlannerPlace, OtherPlace, Planner, Endpoints
<1>4. /\ \A v \in Vehicle : ~ Pins(q, v)'
      /\ \A r \in Run : ~ WritesRun(q, r)'
  BY <1>2 DEF Pins, WritesRun, Planner
<1>5. \A v \in Vehicle : LocksVehicleKey(q, v)' =>
        \A p \in Request \ {q} : ~ Pins(p, v)
  BY <1>2 DEF LocksVehicleKey, WritesVehicle, DeleteVehicleRow
<1> QED
  BY <1>1, <1>3, <1>4, <1>5, LocalStep

\* ON DELETE SET NULL locks runs that nobody else is changing.
LEMMA NullifyRunsStep ==
  ASSUME HandlersOnTrack, NEW q \in Request, NullifyRuns(q)
  PROVE  HandlersOnTrack'
<1>1. /\ req' \in [Request -> RequestRecord]
      /\ \A p \in Request \ {q} : req'[p] = req[p]
      /\ req'[q] = [req[q] EXCEPT !.at = "commit"]
      /\ req[q] \in RequestRecord /\ UNCHANGED <<vehicles, runs>>
  BY GotoStep DEF NullifyRuns, Place
<1>2. /\ req[q].at = "cascade" /\ req[q].kind = "deleteVehicle"
      /\ req'[q].at = "commit" /\ req'[q].kind = "deleteVehicle"
      /\ req'[q].vehicle = req[q].vehicle
  BY <1>1 DEF NullifyRuns, RequestRecord
<1>3. WellFormed(q)' /\ RoutesFit(q)' /\ RowsSeen(q)'
  BY <1>1, <1>2 DEF HandlersOnTrack, WellFormed, RoutesFit, RowsSeen, Working,
     PlannerPlace, OtherPlace, Planner, Endpoints
<1>4. \A v \in Vehicle : ~ Pins(q, v)'
  BY <1>2 DEF Pins, Planner
<1>5. \A v \in Vehicle : LocksVehicleKey(q, v)' =>
        \A p \in Request \ {q} : ~ Pins(p, v)
  BY <1>2 DEF HandlersOnTrack, LocksHold, LocksVehicleKey, WritesVehicle
<1>6. \A r \in Run : WritesRun(q, r)' =>
        \A p \in Request \ {q} : ~ WritesRun(p, r)
  BY <1>1, <1>2 DEF WritesRun, HasRun, NullifyRuns
<1> QED
  BY <1>1, <1>3, <1>4, <1>5, <1>6, LocalStep

\* With a vehicle go all references to it, and nobody is planning for it.
LEMMA CommitDeletedVehicleStep ==
  ASSUME HandlersOnTrack, NEW q \in Request, CommitDeletedVehicle(q)
  PROVE  HandlersOnTrack'
<1> DEFINE v == req[q].vehicle
<1>1. /\ req' \in [Request -> RequestRecord]
      /\ \A p \in Request \ {q} : req'[p] = req[p]
      /\ req'[q] = [req[q] EXCEPT !.at = "respond"]
      /\ req[q] \in RequestRecord
  BY GotoStep DEF CommitDeletedVehicle, Place
<1>2. /\ req[q].at = "commit" /\ req[q].kind = "deleteVehicle"
      /\ req'[q].at = "respond" /\ req'[q].kind = "deleteVehicle"
      /\ req'[q].vehicle = v
  BY <1>1 DEF CommitDeletedVehicle, RequestRecord
<1>3. v \in Vehicle
  BY <1>2 DEF HandlersOnTrack, WellFormed, Working
<1>4. WellFormed(q)'
  BY <1>2, <1>3 DEF WellFormed, Working, PlannerPlace, OtherPlace, Planner, Endpoints
<1>5. /\ vehicles' \in [Vehicle -> VehicleRow \cup Absent]
      /\ \A w \in Vehicle : HasVehicle(w) /\ w # v => HasVehicle(w)'
  BY <1>3 DEF CommitDeletedVehicle, HandlersOnTrack, TypeOK, HasVehicle, Absent
<1>6. \A p \in Request \ {q} : ~ Pins(p, v)
  BY <1>2, <1>3 DEF HandlersOnTrack, LocksHold, LocksVehicleKey, WritesVehicle
<1>7. ASSUME NEW r \in Run
      PROVE  /\ runs'[r] \in RunRow \cup Absent
             /\ HasRun(r)' <=> HasRun(r)
             /\ ~ HasRun(r) => runs'[r] = runs[r]
             /\ HasRun(r) => /\ runs'[r].status = runs[r].status
                             /\ runs'[r].routes = runs[r].routes
                             /\ runs'[r].vehicle \in {runs[r].vehicle, None}
                             /\ runs'[r].vehicle # v
  <2>1. runs'[r] = IF HasRun(r) /\ runs[r].vehicle = v
                     THEN [runs[r] EXCEPT !.vehicle = None] ELSE runs[r]
    BY DEF CommitDeletedVehicle
  <2>2. HasRun(r) => runs[r] \in RunRow
    BY DEF HandlersOnTrack, TypeOK, HasRun
  <2>3. HasRun(r) => [runs[r] EXCEPT !.vehicle = None] \in RunRow
    BY <2>2 DEF RunRow
  <2>4. v # None
    BY <1>3, NullAssumption
  <2> QED
    BY <2>1, <2>2, <2>3, <2>4, NullAssumption
       DEF HandlersOnTrack, TypeOK, HasRun, RunRow
<1>8. runs' \in [Run -> RunRow \cup Absent]
  BY <1>7 DEF CommitDeletedVehicle
<1>9. RunsFinished' /\ VehicleReferencesHold'
  BY <1>5, <1>7 DEF HandlersOnTrack, RunsFinished, VehicleReferencesHold
<1>10. \A p \in Request \ {q}, r \in Run : WritesRun(p, r)' => WritesRun(p, r)
  <2> SUFFICES ASSUME NEW p \in Request \ {q}, NEW r \in Run, WritesRun(p, r)'
               PROVE  WritesRun(p, r)
    OBVIOUS
  <2>1. CASE req[p].kind # "deleteVehicle"
    BY <1>1, <2>1 DEF WritesRun
  <2>2. CASE req[p].kind = "deleteVehicle"
    <3>1. req[p].at = "commit" /\ HasRun(r) /\ runs'[r].vehicle = req[p].vehicle
      BY <1>1, <1>7, <2>2 DEF WritesRun
    <3>2. req[p].vehicle \in Vehicle
      BY <2>2, <3>1 DEF HandlersOnTrack, WellFormed, Working
    <3>3. runs[r].vehicle = req[p].vehicle
      BY <1>7, <3>1, <3>2, NullAssumption
    <3> QED
      BY <2>2, <3>1, <3>3 DEF WritesRun
  <2> QED
    BY <2>1, <2>2
<1>11. \A p \in Request \ {q} : runs[p] = Unborn => runs'[p] = Unborn
  BY <1>7 DEF Run, HasRun, Absent
<1>12. \A r \in Run : runs[r] # Unborn => runs'[r] # Unborn
  BY <1>7 DEF HasRun, Absent
<1> QED
  BY <1>1, <1>2, <1>4, <1>5, <1>6, <1>7, <1>8, <1>9, <1>10, <1>11, <1>12, CommitStep

-----------------------------------------------------------------------------
(* Runs *)

\* A run request that is received holds nothing yet.
LEMMA ReceiveRunStep ==
  ASSUME HandlersOnTrack, NEW q \in Request, ReceiveRun(q)
  PROVE  HandlersOnTrack'
<1>1. PICK r \in Run, k \in {"patchRun", "deleteRun"}, b \in BOOLEAN :
        req' = [req EXCEPT ![q] =
          [req[q] EXCEPT !.kind = k, !.at = "readRow", !.run = r, !.labelled = b]]
  <2>1. req[q] \in RequestRecord
    BY DEF HandlersOnTrack, TypeOK
  <2>2. CASE ReceivePatchRun(q)
    <3>1. PICK r \in Run, b \in BOOLEAN :
            req' = [req EXCEPT ![q].kind = "patchRun", ![q].at = "readRow",
                               ![q].run = r, ![q].labelled = b]
      BY <2>2 DEF ReceivePatchRun
    <3>2. req' = [req EXCEPT ![q] = [req[q] EXCEPT !.kind = "patchRun",
            !.at = "readRow", !.run = r, !.labelled = b]]
      BY <2>1, <3>1 DEF HandlersOnTrack, TypeOK
    <3> QED
      BY <3>2
  <2>3. CASE ReceiveDeleteRun(q)
    <3>1. PICK r \in Run :
            req' = [req EXCEPT ![q].kind = "deleteRun", ![q].at = "readRow",
                               ![q].run = r]
      BY <2>3 DEF ReceiveDeleteRun
    <3>2. req' = [req EXCEPT ![q] = [req[q] EXCEPT !.kind = "deleteRun",
            !.at = "readRow", !.run = r, !.labelled = req[q].labelled]]
      BY <2>1, <3>1 DEF HandlersOnTrack, TypeOK, RequestRecord
    <3> QED
      BY <2>1, <3>2 DEF RequestRecord
  <2> QED
    BY <2>2, <2>3 DEF ReceiveRun
<1> DEFINE x == [req[q] EXCEPT !.kind = k, !.at = "readRow", !.run = r,
                               !.labelled = b]
<1>2. /\ req[q] \in RequestRecord /\ req[q].at = "idle"
      /\ UNCHANGED <<vehicles, runs>>
  BY DEF HandlersOnTrack, TypeOK, ReceiveRun, ReceivePatchRun, ReceiveDeleteRun
<1>3. /\ x \in RequestRecord
      /\ x.at = "readRow" /\ x.kind = k /\ x.run = r
  BY <1>2 DEF RequestRecord, Endpoints, Place
<1> HIDE DEF x
<1>4. /\ req' \in [Request -> RequestRecord]
      /\ \A p \in Request \ {q} : req'[p] = req[p]
      /\ req'[q] = x
  BY <1>1, <1>3 DEF HandlersOnTrack, TypeOK, x
<1>5. WellFormed(q)' /\ RoutesFit(q)' /\ RowsSeen(q)'
  BY <1>2, <1>3, <1>4 DEF HandlersOnTrack, WellFormed, RoutesFit, RowsSeen,
     Working, PlannerPlace, OtherPlace, Planner, Endpoints
<1> QED
  BY <1>2, <1>3, <1>4, <1>5, LocklessStep

\* patch_run and delete_run go on only with a run that is there.
LEMMA ReadRunStep ==
  ASSUME HandlersOnTrack, NEW q \in Request, ReadRun(q)
  PROVE  HandlersOnTrack'
<1>1. CASE Reject(q, "404")
  BY <1>1, RejectStep DEF Reply
<1>2. CASE HasRun(req[q].run) /\ Goto(q, "flush") /\ UNCHANGED <<vehicles, runs>>
  <2>1. /\ req' \in [Request -> RequestRecord]
        /\ \A p \in Request \ {q} : req'[p] = req[p]
        /\ req'[q] = [req[q] EXCEPT !.at = "flush"]
        /\ req[q] \in RequestRecord
    BY <1>2, GotoStep DEF Place
  <2>2. /\ req[q].at = "readRow" /\ req[q].kind \in {"patchRun", "deleteRun"}
        /\ req'[q].at = "flush" /\ req'[q].kind = req[q].kind
        /\ req'[q].run = req[q].run
    BY <2>1 DEF ReadRun, RequestRecord
  <2>3. WellFormed(q)' /\ RoutesFit(q)' /\ RowsSeen(q)'
    BY <1>2, <2>2 DEF HandlersOnTrack, WellFormed, RoutesFit, RowsSeen, Working,
       PlannerPlace, OtherPlace, Planner, Endpoints, HasRun, Absent
  <2> QED
    BY <1>2, <2>1, <2>2, <2>3, LocklessStep
<1> QED
  BY <1>1, <1>2 DEF ReadRun

\* Their flush takes the lock of the run, which is free.
LEMMA FlushRunStep ==
  ASSUME HandlersOnTrack, NEW q \in Request, UpdateRun(q) \/ DeleteRunRows(q)
  PROVE  HandlersOnTrack'
<1>1. CASE Reject(q, "500")
  BY <1>1, RejectStep DEF Reply
<1>2. CASE /\ req[q].at = "flush" /\ req[q].kind \in {"patchRun", "deleteRun"}
           /\ Goto(q, "commit") /\ UNCHANGED <<vehicles, runs>>
           /\ req[q].kind = "patchRun" /\ req[q].labelled =>
                HasRun(req[q].run) /\ RunUnlocked(q)
           /\ req[q].kind = "deleteRun" => RunUnlocked(q)
  <2>1. /\ req' \in [Request -> RequestRecord]
        /\ \A p \in Request \ {q} : req'[p] = req[p]
        /\ req'[q] = [req[q] EXCEPT !.at = "commit"]
        /\ req[q] \in RequestRecord
    BY <1>2, GotoStep DEF Place
  <2>2. /\ req'[q].at = "commit" /\ req'[q].kind = req[q].kind
        /\ req'[q].run = req[q].run /\ req'[q].labelled = req[q].labelled
    BY <2>1 DEF RequestRecord
  <2>3. WellFormed(q)' /\ RoutesFit(q)' /\ RowsSeen(q)'
    BY <1>2, <2>2 DEF HandlersOnTrack, WellFormed, RoutesFit, RowsSeen, Working,
       PlannerPlace, OtherPlace, Planner, Endpoints, HasRun, Absent
  <2>4. \A v \in Vehicle : ~ Pins(q, v)' /\ ~ LocksVehicleKey(q, v)'
    BY <1>2, <2>2 DEF Pins, LocksVehicleKey, WritesVehicle, Planner
  <2>5. \A r \in Run : WritesRun(q, r)' =>
          \A p \in Request \ {q} : ~ WritesRun(p, r)
    BY <1>2, <2>2 DEF WritesRun, RunUnlocked
  <2> QED
    BY <1>2, <2>1, <2>3, <2>4, <2>5, LocalStep
<1> QED
  BY <1>1, <1>2 DEF UpdateRun, DeleteRunRows

\* A label changes nothing the invariant speaks of.
LEMMA CommitPatchedRunStep ==
  ASSUME HandlersOnTrack, NEW q \in Request, CommitPatchedRun(q)
  PROVE  HandlersOnTrack'
<1>1. /\ req' \in [Request -> RequestRecord]
      /\ \A p \in Request \ {q} : req'[p] = req[p]
      /\ req'[q] = [req[q] EXCEPT !.at = "respond"]
      /\ req[q] \in RequestRecord /\ vehicles' = vehicles
  BY GotoStep DEF CommitPatchedRun, Place
<1>2. /\ req[q].at = "commit" /\ req[q].kind = "patchRun"
      /\ req'[q].at = "respond" /\ req'[q].kind = "patchRun"
      /\ req'[q].run = req[q].run
  BY <1>1 DEF CommitPatchedRun, RequestRecord
<1>3. req[q].run \in Run /\ (req[q].labelled => HasRun(req[q].run))
  BY <1>2 DEF HandlersOnTrack, WellFormed, Working, RowsSeen
<1>4. WellFormed(q)'
  BY <1>2, <1>3 DEF WellFormed, Working, PlannerPlace, OtherPlace, Planner, Endpoints
<1>5. ASSUME NEW r \in Run
      PROVE  /\ runs'[r] \in RunRow \cup Absent
             /\ HasRun(r)' <=> HasRun(r)
             /\ ~ HasRun(r) => runs'[r] = runs[r]
             /\ HasRun(r) => /\ runs'[r].status = runs[r].status
                             /\ runs'[r].routes = runs[r].routes
                             /\ runs'[r].vehicle = runs[r].vehicle
  <2>1. runs[r] \in RunRow \cup Absent /\ (HasRun(r) => runs[r] \in RunRow)
    BY DEF HandlersOnTrack, TypeOK, HasRun
  <2>2. CASE runs'[r] = runs[r]
    BY <2>1, <2>2 DEF HasRun
  <2>3. CASE HasRun(r) /\ runs'[r] = [runs[r] EXCEPT !.labelled = TRUE]
    <3>1. runs'[r] \in RunRow
      BY <2>1, <2>3 DEF RunRow
    <3> QED
      BY <2>1, <2>3, <3>1, NullAssumption DEF HasRun, RunRow
  <2> QED
    BY <1>3, <2>2, <2>3 DEF CommitPatchedRun, HandlersOnTrack, TypeOK
<1>6. runs' \in [Run -> RunRow \cup Absent]
  BY <1>3, <1>5 DEF CommitPatchedRun, HandlersOnTrack, TypeOK
<1>7. RunsFinished' /\ VehicleReferencesHold'
  BY <1>1, <1>5 DEF HandlersOnTrack, RunsFinished, VehicleReferencesHold, HasVehicle
<1>8. \A p \in Request \ {q}, r \in Run : WritesRun(p, r)' => WritesRun(p, r)
  BY <1>1, <1>5 DEF WritesRun
<1>9. \A p \in Request \ {q} : runs[p] = Unborn => runs'[p] = Unborn
  BY <1>5 DEF Run, HasRun, Absent
<1>10. \A r \in Run : runs[r] # Unborn => runs'[r] # Unborn
  BY <1>5 DEF HasRun, Absent
<1> QED
  BY <1>1, <1>2, <1>4, <1>5, <1>6, <1>7, <1>8, <1>9, <1>10, CommitStep
     DEF HandlersOnTrack, TypeOK, HasVehicle

\* A deleted run leaves nothing behind that refers to its vehicle.
LEMMA CommitDeletedRunStep ==
  ASSUME HandlersOnTrack, NEW q \in Request, CommitDeletedRun(q)
  PROVE  HandlersOnTrack'
<1>1. /\ req' \in [Request -> RequestRecord]
      /\ \A p \in Request \ {q} : req'[p] = req[p]
      /\ req'[q] = [req[q] EXCEPT !.at = "respond"]
      /\ req[q] \in RequestRecord /\ vehicles' = vehicles
  BY GotoStep DEF CommitDeletedRun, Place
<1>2. /\ req[q].at = "commit" /\ req[q].kind = "deleteRun"
      /\ req'[q].at = "respond" /\ req'[q].kind = "deleteRun"
      /\ req'[q].run = req[q].run
  BY <1>1 DEF CommitDeletedRun, RequestRecord
<1>3. req[q].run \in Run /\ runs[req[q].run] # Unborn
  BY <1>2 DEF HandlersOnTrack, WellFormed, Working, RowsSeen
<1>4. WellFormed(q)'
  BY <1>2, <1>3 DEF WellFormed, Working, PlannerPlace, OtherPlace, Planner, Endpoints
<1>5. /\ runs' \in [Run -> RunRow \cup Absent]
      /\ runs'[req[q].run] = Deleted
      /\ \A r \in Run \ {req[q].run} : runs'[r] = runs[r]
  BY <1>3 DEF CommitDeletedRun, HandlersOnTrack, TypeOK, Absent
<1>6. \A r \in Run : HasRun(r)' => runs'[r] = runs[r]
  BY <1>5 DEF HasRun, Absent
<1>7. RunsFinished' /\ VehicleReferencesHold'
  BY <1>1, <1>6 DEF HandlersOnTrack, RunsFinished, VehicleReferencesHold,
     HasVehicle, HasRun
<1>8. \A p \in Request \ {q}, r \in Run : WritesRun(p, r)' => WritesRun(p, r)
  BY <1>1, <1>6 DEF WritesRun, HasRun
<1>9. \A p \in Request \ {q} : runs[p] = Unborn => runs'[p] = Unborn
  BY <1>3, <1>5 DEF Run
<1>10. \A r \in Run : runs[r] # Unborn => runs'[r] # Unborn
  BY <1>5, NullAssumption
<1>11. \A p \in Request \ {q} : ~ WritesRun(p, req[q].run)
  BY <1>2, <1>3 DEF HandlersOnTrack, LocksHold, WritesRun
<1>12. \A p \in Request \ {q}, r \in Run :
         WritesRun(p, r) /\ HasRun(r) => HasRun(r)'
  BY <1>5, <1>11 DEF HasRun
<1> QED
  BY <1>1, <1>2, <1>4, <1>5, <1>7, <1>8, <1>9, <1>10, <1>12, CommitStep
     DEF HandlersOnTrack, TypeOK, HasVehicle

\* The answers of patch_run and delete_run change no row.
LEMMA RespondRunStep ==
  ASSUME HandlersOnTrack, NEW q \in Request, RespondRun(q)
  PROVE  HandlersOnTrack'
BY RejectStep DEF RespondRun, Reply

-----------------------------------------------------------------------------
(* Planning *)

\* A planner that is received has no routes yet.
LEMMA ReceivePlanningStep ==
  ASSUME HandlersOnTrack, NEW q \in Request, ReceivePlanning(q)
  PROVE  HandlersOnTrack'
<1>1. req[q] \in RequestRecord
  BY DEF HandlersOnTrack, TypeOK
<1>2. PICK x \in RequestRecord :
        /\ req' = [req EXCEPT ![q] = x]
        /\ x.vehicle \in Vehicle /\ x.routes = req[q].routes
        /\ \/ x.kind \in {"p2p", "vrp"} /\ x.at = "readVehicle"
           \/ x.kind = "recalculate" /\ x.at = "readOriginal" /\ x.run \in Run
  <2>1. CASE ReceivePlan(q)
    <3>1. PICK k \in {"p2p", "vrp"} \cap Endpoint, v \in Vehicle :
            req' = [req EXCEPT ![q].kind = k, ![q].at = "readVehicle",
                               ![q].vehicle = v]
      BY <2>1 DEF ReceivePlan
    <3> DEFINE x == [req[q] EXCEPT !.kind = k, !.at = "readVehicle", !.vehicle = v]
    <3>2. /\ x \in RequestRecord /\ x.kind = k /\ x.at = "readVehicle"
          /\ x.vehicle = v /\ x.routes = req[q].routes
      BY <1>1 DEF RequestRecord, Endpoints, Place
    <3>3. req' = [req EXCEPT ![q] = x]
      BY <3>1 DEF HandlersOnTrack, TypeOK
    <3> HIDE DEF x
    <3> QED
      BY <3>2, <3>3
  <2>2. CASE ReceiveRecalculate(q)
    <3>1. PICK r \in Run, v \in Vehicle :
            req' = [req EXCEPT ![q].kind = "recalculate", ![q].at = "readOriginal",
                               ![q].run = r, ![q].vehicle = v]
      BY <2>2 DEF ReceiveRecalculate
    <3> DEFINE x == [req[q] EXCEPT !.kind = "recalculate", !.at = "readOriginal",
                                   !.run = r, !.vehicle = v]
    <3>2. /\ x \in RequestRecord /\ x.kind = "recalculate" /\ x.at = "readOriginal"
          /\ x.vehicle = v /\ x.routes = req[q].routes /\ x.run = r
      BY <1>1 DEF RequestRecord, Endpoints, Place
    <3>3. req' = [req EXCEPT ![q] = x]
      BY <3>1 DEF HandlersOnTrack, TypeOK
    <3> HIDE DEF x
    <3> QED
      BY <3>2, <3>3
  <2> QED
    BY <2>1, <2>2 DEF ReceivePlanning
<1>3. /\ req' \in [Request -> RequestRecord]
      /\ \A p \in Request \ {q} : req'[p] = req[p]
      /\ req'[q] = x
  BY <1>2 DEF HandlersOnTrack, TypeOK
<1>4. req[q].at = "idle" /\ UNCHANGED <<vehicles, runs>>
  BY DEF ReceivePlanning, ReceivePlan, ReceiveRecalculate
<1>5. WellFormed(q)' /\ RowsSeen(q)'
  BY <1>2, <1>3, <1>4 DEF HandlersOnTrack, WellFormed, RowsSeen,
     Working, PlannerPlace, OtherPlace, Planner, Endpoints
<1>6. RoutesFit(q)'
  BY <1>2, <1>3, <1>4 DEF HandlersOnTrack, RoutesFit
<1> QED
  BY <1>2, <1>3, <1>4, <1>5, <1>6, LocklessStep


\* A handler that reads the original run keeps its place, its vehicle and the
\* run it names; only what it knows of the run changes.
LEMMA ReadingStep ==
  ASSUME HandlersOnTrack, NEW q \in Request, UNCHANGED <<vehicles, runs>>,
         NEW x \in RequestRecord, req' = [req EXCEPT ![q] = x],
         req[q].at \in {"readOriginal", "readRoutes", "readSegments"},
         x.at \in {"readRoutes", "readSegments", "readVehicle"},
         x.kind = req[q].kind, x.run = req[q].run, x.vehicle = req[q].vehicle,
         x.at = "readVehicle" => x.routes # "none"
  PROVE  HandlersOnTrack'
<1>1. /\ req' \in [Request -> RequestRecord]
      /\ \A p \in Request \ {q} : req'[p] = req[p]
      /\ req'[q] = x
  BY DEF HandlersOnTrack, TypeOK
<1>2. WellFormed(q) /\ RowsSeen(q)
  BY DEF HandlersOnTrack
<1>3. x.kind = "recalculate"
  BY <1>2 DEF WellFormed
<1>4. WellFormed(q)' /\ RowsSeen(q)'
  BY <1>1, <1>2, <1>3 DEF WellFormed, RowsSeen, Working, PlannerPlace,
     OtherPlace, Planner, Endpoints
<1>5. RoutesFit(q)'
  BY <1>1, <1>3 DEF RoutesFit
<1> QED
  BY <1>1, <1>4, <1>5, LocklessStep

\* get_run reads the original run in three steps, and rejects what cannot be recalculated.
LEMMA ReadOriginalStep ==
  ASSUME HandlersOnTrack, NEW q \in Request,
         ReadOriginal(q) \/ ReadRoutes(q) \/ ReadSegments(q)
  PROVE  HandlersOnTrack'
<1>1. req[q] \in RequestRecord
  BY DEF HandlersOnTrack, TypeOK
<1>2. CASE Reject(q, "404") \/ Reject(q, "400")
  BY <1>2, RejectStep DEF Reply
<1>3. req[q].at \in {"readOriginal", "readRoutes", "readSegments"} => req[q].run \in Run
  BY DEF HandlersOnTrack, WellFormed, Working
<1>4. CASE ReadOriginal(q) /\ ~ Reject(q, "404")
  <2> DEFINE r == req[q].run
             x == [req[q] EXCEPT !.at = "readRoutes", !.status = runs[r].status,
                                 !.labelled = runs[r].labelled]
  <2>1. /\ req[q].at = "readOriginal" /\ HasRun(r)
        /\ req' = [req EXCEPT ![q].at = "readRoutes", ![q].status = runs[r].status,
                              ![q].labelled = runs[r].labelled]
        /\ UNCHANGED <<vehicles, runs>>
    BY <1>4 DEF ReadOriginal
  <2>2. runs[r] \in RunRow
    BY <1>3, <2>1 DEF HandlersOnTrack, TypeOK, HasRun
  <2>3. /\ x \in RequestRecord /\ x.at = "readRoutes" /\ x.kind = req[q].kind
        /\ x.run = req[q].run /\ x.vehicle = req[q].vehicle
    BY <1>1, <2>2 DEF RequestRecord, RunRow, Place
  <2>4. req' = [req EXCEPT ![q] = x]
    BY <2>1 DEF HandlersOnTrack, TypeOK
  <2> HIDE DEF x
  <2> QED
    BY <2>1, <2>3, <2>4, ReadingStep
<1>5. CASE ReadRoutes(q)
  <2>1. PICK found \in {"bare", "none"} :
          req' = [req EXCEPT ![q].at = "readSegments", ![q].routes = found]
    BY <1>5 DEF ReadRoutes
  <2> DEFINE x == [req[q] EXCEPT !.at = "readSegments", !.routes = found]
  <2>2. /\ x \in RequestRecord /\ x.at = "readSegments" /\ x.kind = req[q].kind
        /\ x.run = req[q].run /\ x.vehicle = req[q].vehicle
    BY <1>1 DEF RequestRecord, RouteRows, Place
  <2>3. req' = [req EXCEPT ![q] = x]
    BY <2>1 DEF HandlersOnTrack, TypeOK
  <2>4. req[q].at = "readRoutes" /\ UNCHANGED <<vehicles, runs>>
    BY <1>5 DEF ReadRoutes
  <2> HIDE DEF x
  <2> QED
    BY <2>2, <2>3, <2>4, ReadingStep
<1>6. CASE ReadSegments(q) /\ ~ Reject(q, "400")
  <2> DEFINE r == req[q].run
             found == IF req[q].routes = "bare" /\ HasRun(r)
                        THEN runs[r].routes ELSE req[q].routes
             x == [req[q] EXCEPT !.at = "readVehicle", !.routes = found]
  <2>1. /\ req[q].at = "readSegments" /\ found # "none"
        /\ req' = [req EXCEPT ![q].at = "readVehicle", ![q].routes = found]
        /\ UNCHANGED <<vehicles, runs>>
    BY <1>6 DEF ReadSegments
  <2>2. HasRun(r) => runs[r] \in RunRow
    BY <1>3, <2>1 DEF HandlersOnTrack, TypeOK, HasRun
  <2>3. found \in RouteRows
    BY <1>1, <2>2 DEF RunRow, RequestRecord
  <2> HIDE DEF found
  <2>4. /\ x \in RequestRecord /\ x.at = "readVehicle" /\ x.kind = req[q].kind
        /\ x.run = req[q].run /\ x.vehicle = req[q].vehicle /\ x.routes = found
    BY <1>1, <2>3 DEF RequestRecord, Place
  <2>5. req' = [req EXCEPT ![q] = x]
    BY <2>1 DEF HandlersOnTrack, TypeOK
  <2> HIDE DEF x
  <2> QED
    BY <2>1, <2>4, <2>5, ReadingStep
<1> QED
  BY <1>2, <1>4, <1>5, <1>6

\* A planner goes on with a row of vehicles, never without.
LEMMA ReadVehicleStep ==
  ASSUME HandlersOnTrack, NEW q \in Request, ReadVehicle(q)
  PROVE  HandlersOnTrack'
<1>1. CASE Reject(q, "503") \/ Reject(q, "404") \/ Reject(q, "500")
  BY <1>1, RejectStep DEF Reply
<1>2. CASE ~ (Reject(q, "503") \/ Reject(q, "404") \/ Reject(q, "500"))
  <2> DEFINE v == req[q].vehicle
             x == [req[q] EXCEPT !.at = "insertRun", !.row = vehicles[v]]
  <2>1. /\ req[q].at = "readVehicle" /\ HasVehicle(v)
        /\ req' = [req EXCEPT ![q].at = "insertRun", ![q].row = vehicles[v]]
        /\ UNCHANGED <<vehicles, runs>>
    BY <1>2 DEF ReadVehicle
  <2>2. /\ req[q] \in RequestRecord /\ WellFormed(q) /\ RoutesFit(q) /\ RowsSeen(q)
        /\ req[q].kind \in Planner
        /\ v \in Vehicle
    BY <2>1 DEF HandlersOnTrack, TypeOK, WellFormed, Working, PlannerPlace
  <2>3. vehicles[v] \in VehicleRow
    BY <2>1, <2>2 DEF HandlersOnTrack, TypeOK, HasVehicle
  <2>4. /\ x \in RequestRecord /\ x.at = "insertRun" /\ x.kind = req[q].kind
        /\ x.run = req[q].run /\ x.vehicle = v /\ x.routes = req[q].routes
        /\ x.row \in VehicleRow
    BY <2>2, <2>3 DEF RequestRecord, Place
  <2>5. req' = [req EXCEPT ![q] = x]
    BY <2>1 DEF HandlersOnTrack, TypeOK
  <2> HIDE DEF x
  <2>6. /\ req' \in [Request -> RequestRecord]
        /\ \A p \in Request \ {q} : req'[p] = req[p]
        /\ req'[q] = x
    BY <2>4, <2>5 DEF HandlersOnTrack, TypeOK
  <2>7. WellFormed(q)' /\ RoutesFit(q)' /\ RowsSeen(q)'
    BY <2>1, <2>2, <2>4, <2>6 DEF WellFormed, RoutesFit, RowsSeen, Working,
       PlannerPlace, OtherPlace, Planner, Endpoints
  <2> QED
    BY <2>1, <2>4, <2>6, <2>7, LocklessStep
<1> QED
  BY <1>1, <1>2

\* A planner that has inserted its run writes no committed row, and needs
\* the key of its vehicle.
LEMMA PinnedStep ==
  ASSUME HandlersOnTrack, NEW q \in Request, UNCHANGED <<vehicles, runs>>,
         req' \in [Request -> RequestRecord],
         \A p \in Request \ {q} : req'[p] = req[p],
         req[q].at \in {"insertRun", "route", "price"},
         req'[q].at \in {"route", "price", "commit"},
         req'[q].at = "route" => req'[q].kind \in {"p2p", "vrp"},
         req'[q].kind = req[q].kind, req'[q].vehicle = req[q].vehicle,
         req'[q].run = req[q].run, req'[q].row = req[q].row,
         RoutesFit(q)',
         HasVehicle(req[q].vehicle),
         \A p \in Request \ {q} : ~ LocksVehicleKey(p, req[q].vehicle)
  PROVE  HandlersOnTrack'
<1>1. WellFormed(q) /\ RowsSeen(q) /\ req[q].kind \in Planner
  BY DEF HandlersOnTrack, WellFormed, PlannerPlace
<1>2. WellFormed(q)' /\ RowsSeen(q)'
  BY <1>1 DEF WellFormed, RowsSeen, Working, PlannerPlace, OtherPlace, Planner,
     Endpoints
<1>3. \A v \in Vehicle : Pins(q, v)' =>
        HasVehicle(v) /\ \A p \in Request \ {q} : ~ LocksVehicleKey(p, v)
  BY DEF Pins
<1>4. \A v \in Vehicle : ~ LocksVehicleKey(q, v)'
  BY <1>1 DEF LocksVehicleKey, WritesVehicle, Planner
<1>5. \A r \in Run : ~ WritesRun(q, r)'
  BY <1>1 DEF WritesRun, Planner
<1> QED
  BY <1>2, <1>3, <1>4, <1>5, LocalStep

\* The foreign-key check pins a vehicle that is there and that nobody is re-keying.
LEMMA InsertRunStep ==
  ASSUME HandlersOnTrack, NEW q \in Request, InsertRun(q)
  PROVE  HandlersOnTrack'
<1>1. CASE Reject(q, "500")
  BY <1>1, RejectStep DEF Reply
<1>2. CASE ~ Reject(q, "500")
  <2> DEFINE place == IF req[q].kind = "recalculate" THEN "price" ELSE "route"
  <2>1. /\ req[q].at = "insertRun" /\ HasVehicle(req[q].vehicle)
        /\ \A p \in Request \ {q} : ~ LocksVehicleKey(p, req[q].vehicle)
        /\ Goto(q, place) /\ UNCHANGED <<vehicles, runs>>
    BY <1>2 DEF InsertRun
  <2>2. place \in Place
    BY DEF Place
  <2>3. /\ req' \in [Request -> RequestRecord]
        /\ \A p \in Request \ {q} : req'[p] = req[p]
        /\ req'[q] = [req[q] EXCEPT !.at = place]
        /\ req[q] \in RequestRecord
    BY <2>1, <2>2, GotoStep
  <2>4. /\ req'[q].at = place /\ req'[q].kind = req[q].kind
        /\ req'[q].vehicle = req[q].vehicle /\ req'[q].run = req[q].run
        /\ req'[q].row = req[q].row /\ req'[q].routes = req[q].routes
    BY <2>3 DEF RequestRecord
  <2>5. req[q].kind \in Planner /\ RoutesFit(q)
    BY <2>1 DEF HandlersOnTrack, WellFormed, PlannerPlace
  <2>6. RoutesFit(q)'
    BY <2>1, <2>4, <2>5 DEF RoutesFit, Planner
  <2> QED
    BY <2>1, <2>3, <2>4, <2>5, <2>6, PinnedStep DEF Planner
<1> QED
  BY <1>1, <1>2

\* The vehicle of a run that is being planned stays: a deletion has to wait.
LEMMA PinnedVehicle ==
  ASSUME HandlersOnTrack, NEW q \in Request, req[q].kind \in Planner,
         req[q].at \in {"route", "price", "commit"}
  PROVE  /\ req[q].vehicle \in Vehicle
         /\ HasVehicle(req[q].vehicle)
         /\ \A p \in Request \ {q} : ~ LocksVehicleKey(p, req[q].vehicle)
<1>1. req[q].vehicle \in Vehicle
  BY DEF HandlersOnTrack, WellFormed, Working
<1>2. Pins(q, req[q].vehicle)
  BY DEF Pins
<1> QED
  BY <1>1, <1>2 DEF HandlersOnTrack, LocksHold

\* From routing to the commit a planner keeps its pin, and its routes fit its status.
LEMMA RouteStep ==
  ASSUME HandlersOnTrack, NEW q \in Request,
         Routed(q) \/ NothingRouted(q) \/ RefusePlan(q) \/ Price(q)
  PROVE  HandlersOnTrack'
<1>1. CASE Reject(q, "400") \/ Reject(q, "503") \/ Reject(q, "500")
  BY <1>1, RejectStep DEF Reply
<1>2. /\ req[q] \in RequestRecord /\ RoutesFit(q)
      /\ req[q].at \in {"route", "price"} /\ req[q].kind \in Planner
  BY DEF HandlersOnTrack, TypeOK, Routed, NothingRouted, RefusePlan, Price,
     WellFormed, PlannerPlace
<1>3. ASSUME NEW x \in RequestRecord, req' = [req EXCEPT ![q] = x],
             UNCHANGED <<vehicles, runs>>,
             x.kind = req[q].kind, x.vehicle = req[q].vehicle,
             x.run = req[q].run, x.row = req[q].row,
             \/ x.at = "price" /\ x.routes # "none"
             \/ /\ x.at = "commit" /\ x.status \in {"done", "failed"}
                /\ x.status = "done" <=> x.routes # "none"
      PROVE  HandlersOnTrack'
  <2>1. /\ req' \in [Request -> RequestRecord]
        /\ \A p \in Request \ {q} : req'[p] = req[p]
        /\ req'[q] = x
    BY <1>3 DEF HandlersOnTrack, TypeOK
  <2>2. RoutesFit(q)'
    BY <1>3, <2>1 DEF RoutesFit
  <2> QED
    BY <1>2, <1>3, <2>1, <2>2, PinnedStep, PinnedVehicle
<1>4. CASE Routed(q)
  <2>1. PICK found \in {"segmented", "bare"} :
          /\ req[q].kind = "vrp" => found = "bare"
          /\ req' = [req EXCEPT ![q].at = "price", ![q].routes = found]
    BY <1>4 DEF Routed
  <2> DEFINE x == [req[q] EXCEPT !.at = "price", !.routes = found]
  <2>2. /\ x \in RequestRecord /\ x.at = "price" /\ x.routes # "none"
        /\ x.kind = req[q].kind /\ x.vehicle = req[q].vehicle
        /\ x.run = req[q].run /\ x.row = req[q].row
    BY <1>2 DEF RequestRecord, RouteRows, Place
  <2>3. req' = [req EXCEPT ![q] = x] /\ UNCHANGED <<vehicles, runs>>
    BY <1>4, <2>1 DEF HandlersOnTrack, TypeOK, Routed
  <2> HIDE DEF x
  <2> QED
    BY <1>3, <2>2, <2>3
<1>5. CASE NothingRouted(q)
  <2> DEFINE x == [req[q] EXCEPT !.at = "commit", !.status = "failed"]
  <2>1. req[q].routes = "none"
    BY <1>2, <1>5 DEF NothingRouted, RoutesFit
  <2>2. /\ x \in RequestRecord /\ x.at = "commit" /\ x.status = "failed"
        /\ x.routes = "none"
        /\ x.kind = req[q].kind /\ x.vehicle = req[q].vehicle
        /\ x.run = req[q].run /\ x.row = req[q].row
    BY <1>2, <2>1 DEF RequestRecord, Place
  <2>3. req' = [req EXCEPT ![q] = x] /\ UNCHANGED <<vehicles, runs>>
    BY <1>5 DEF HandlersOnTrack, TypeOK, NothingRouted
  <2> HIDE DEF x
  <2> QED
    BY <1>3, <2>2, <2>3
<1>6. CASE Price(q) /\ ~ Reject(q, "500")
  <2> DEFINE x == [req[q] EXCEPT !.at = "commit", !.status = "done"]
  <2>1. req[q].routes # "none"
    BY <1>2, <1>6 DEF Price, RoutesFit
  <2>2. /\ x \in RequestRecord /\ x.at = "commit" /\ x.status = "done"
        /\ x.routes = req[q].routes
        /\ x.kind = req[q].kind /\ x.vehicle = req[q].vehicle
        /\ x.run = req[q].run /\ x.row = req[q].row
    BY <1>2 DEF RequestRecord, Place
  <2>3. req' = [req EXCEPT ![q] = x] /\ UNCHANGED <<vehicles, runs>>
    BY <1>6 DEF HandlersOnTrack, TypeOK, Price
  <2> HIDE DEF x
  <2> QED
    BY <1>3, <2>1, <2>2, <2>3
<1> QED
  BY <1>1, <1>4, <1>5, <1>6 DEF RefusePlan

\* The row a planner commits is a finished run that refers to its vehicle.
LEMMA NewRunFits ==
  ASSUME HandlersOnTrack, NEW q \in Request, CommitRun(q)
  PROVE  /\ NewRun(q) \in RunRow
         /\ NewRun(q).status \in {"done", "failed"}
         /\ NewRun(q).status = "done" <=> NewRun(q).routes # "none"
         /\ NewRun(q).vehicle = req[q].vehicle
         /\ NewRun(q).status = "failed" => ~ NewRun(q).priced
<1>1. /\ req[q] \in RequestRecord /\ RoutesFit(q)
      /\ req[q].at = "commit" /\ req[q].kind \in Planner
      /\ req[q].row \in VehicleRow
  BY DEF HandlersOnTrack, TypeOK, WellFormed, CommitRun
<1>2. /\ req[q].status \in {"running", "done", "failed"}
      /\ req[q].vehicle \in Vehicle \cup {None}
      /\ req[q].routes \in RouteRows /\ req[q].labelled \in BOOLEAN
      /\ req[q].run \in Run \cup {None}
  BY <1>1 DEF RequestRecord
<1>3. NewRun(q) \in RunRow
  BY <1>1, <1>2 DEF NewRun, RunRow
<1> QED
  BY <1>1, <1>3 DEF NewRun, RoutesFit

\* The committed run is finished and its vehicle, pinned until now, exists.
LEMMA CommitRunStep ==
  ASSUME HandlersOnTrack, NEW q \in Request, CommitRun(q)
  PROVE  HandlersOnTrack'
<1>1. /\ req' \in [Request -> RequestRecord]
      /\ \A p \in Request \ {q} : req'[p] = req[p]
      /\ req'[q] = [req[q] EXCEPT !.at = "respond"]
      /\ req[q] \in RequestRecord /\ vehicles' = vehicles
  BY GotoStep DEF CommitRun, Place
<1>2. /\ req[q].at = "commit" /\ req[q].kind \in Planner
      /\ req'[q].at = "respond" /\ req'[q].kind = req[q].kind
      /\ req'[q].vehicle = req[q].vehicle /\ req'[q].run = req[q].run
  BY <1>1 DEF CommitRun, RequestRecord
<1>3. /\ req[q].vehicle \in Vehicle /\ HasVehicle(req[q].vehicle)
      /\ \A p \in Request \ {q} : ~ LocksVehicleKey(p, req[q].vehicle)
  BY <1>2, PinnedVehicle
<1>4. WellFormed(q)'
  BY <1>2 DEF HandlersOnTrack, WellFormed, Working, PlannerPlace, OtherPlace,
     Planner, Endpoints
<1>5. q \in Run /\ runs[q] = Unborn
  BY <1>2 DEF Run, HandlersOnTrack, RowsSeen
<1>6. /\ runs' \in [Run -> RunRow \cup Absent]
      /\ runs'[q] = NewRun(q) /\ runs'[q] \notin Absent
      /\ \A r \in Run \ {q} : runs'[r] = runs[r]
  BY <1>5, NewRunFits, NullAssumption DEF CommitRun, HandlersOnTrack, TypeOK
<1>7. RunsFinished'
  BY <1>6, NewRunFits DEF HandlersOnTrack, RunsFinished, HasRun
<1>8. VehicleReferencesHold'
  BY <1>1, <1>3, <1>6, NewRunFits DEF HandlersOnTrack, VehicleReferencesHold,
     HasRun, HasVehicle
<1>9. \A p \in Request \ {q}, r \in Run : WritesRun(p, r)' => WritesRun(p, r)
  <2> SUFFICES ASSUME NEW p \in Request \ {q}, NEW r \in Run, WritesRun(p, r)'
               PROVE  WritesRun(p, r)
    OBVIOUS
  <2>1. CASE r # q
    BY <1>1, <1>6, <2>1 DEF WritesRun, HasRun
  <2>2. CASE r = q /\ req[p].kind # "deleteVehicle"
    BY <1>1, <2>2 DEF WritesRun
  <2>3. CASE r = q /\ req[p].kind = "deleteVehicle"
    <3>1. req[p].at = "commit" /\ req[p].vehicle = req[q].vehicle
      BY <1>1, <1>6, <2>3, NewRunFits DEF WritesRun
    <3> QED
      BY <1>3, <2>3, <3>1 DEF LocksVehicleKey, WritesVehicle
  <2> QED
    BY <2>1, <2>2, <2>3
<1>10. \A p \in Request \ {q} : runs[p] = Unborn => runs'[p] = Unborn
  BY <1>6 DEF Run
<1>11. \A r \in Run : runs[r] # Unborn => runs'[r] # Unborn
  BY <1>5, <1>6
<1>12. \A r \in Run : HasRun(r) => HasRun(r)'
  BY <1>6 DEF HasRun
<1> QED
  BY <1>1, <1>2, <1>4, <1>6, <1>7, <1>8, <1>9, <1>10, <1>11, <1>12, CommitStep
     DEF HandlersOnTrack, TypeOK, HasVehicle

\* The answers of the planners change no row.
LEMMA RespondPlanStep ==
  ASSUME HandlersOnTrack, NEW q \in Request, RespondPlan(q)
  PROVE  HandlersOnTrack'
BY RejectStep DEF RespondPlan, Reply

-----------------------------------------------------------------------------
(* Exceptions and crashes *)

\* An exception leaves nothing but a 500.
LEMMA FailStep ==
  ASSUME HandlersOnTrack, NEW q \in Request, Fail(q)
  PROVE  HandlersOnTrack'
BY RejectStep DEF Fail, Reply

\* A deadlock that PostgreSQL breaks is such an exception: who waits in a circle
\* is at work.
LEMMA BrokenDeadlockFails ==
  ASSUME NEW q \in Request, BreakDeadlock(q)
  PROVE  Fail(q)
<1>1. PICK p : WaitsFor(q, p)
  BY DEF BreakDeadlock, WaitsInCircle
<1> QED
  BY <1>1 DEF WaitsFor, Working, BreakDeadlock, Fail

\* So a step is one of a handler, or a crash, or none.
LEMMA StepsByKind ==
  ASSUME Next
  PROVE  (\E q \in Request : Receive(q) \/ Step(q) \/ Fail(q)) \/ Crash \/ Quiet
BY BrokenDeadlockFails DEF Next

\* A crash frees all locks and keeps every committed row.
LEMMA CrashStep ==
  ASSUME HandlersOnTrack, Crash
  PROVE  HandlersOnTrack'
<1>1. \A q \in Request :
        \/ req'[q] = [Idle EXCEPT !.kind = req[q].kind, !.at = "lost"]
        \/ req'[q] = req[q] /\ ~ Working(q)
  BY DEF Crash
<1>2. ASSUME NEW q \in Request
      PROVE  [Idle EXCEPT !.kind = req[q].kind, !.at = "lost"] \in RequestRecord
  BY DEF HandlersOnTrack, TypeOK, Idle, RequestRecord, Place, RouteRows, Reply
<1>3. req' \in [Request -> RequestRecord] /\ UNCHANGED <<vehicles, runs>>
  BY <1>2 DEF Crash, HandlersOnTrack, TypeOK
<1>4. \A q \in Request :
        \/ req'[q].at = "lost"
        \/ req'[q] = req[q] /\ req[q].at \in {"idle", "answered", "lost"}
  BY <1>1 DEF Idle, Working
<1>5. ASSUME NEW q \in Request PROVE (WellFormed(q) /\ RoutesFit(q) /\ RowsSeen(q))'
  <2>1. CASE req'[q].at = "lost"
    BY <2>1 DEF WellFormed, RoutesFit, RowsSeen, Working, PlannerPlace, OtherPlace
  <2>2. CASE req'[q] = req[q]
    BY <1>3, <2>2 DEF HandlersOnTrack, WellFormed, RoutesFit, RowsSeen, Working,
       HasRun
  <2> QED
    BY <1>4, <2>1, <2>2
<1>6. LocksHold'
  BY <1>4 DEF LocksHold, Pins, LocksVehicleKey, WritesVehicle, WritesRun
<1> QED
  BY <1>3, <1>5, <1>6 DEF HandlersOnTrack, TypeOK, RunsFinished,
     VehicleReferencesHold, HasRun, HasVehicle

-----------------------------------------------------------------------------
(***************************************************************************)
(* The theorems                                                            *)
(***************************************************************************)

\* Every step of the backend keeps the invariant: one case per action.
LEMMA NextOnTrack == HandlersOnTrack /\ [Next]_vars => HandlersOnTrack'
<1> SUFFICES ASSUME HandlersOnTrack, [Next]_vars PROVE HandlersOnTrack'
  OBVIOUS
<1>1. CASE UNCHANGED vars
  BY <1>1 DEF vars, HandlersOnTrack, TypeOK, WellFormed, RoutesFit, RowsSeen,
     LocksHold, RunsFinished, VehicleReferencesHold, Working, HasRun, HasVehicle,
     Pins, LocksVehicleKey, WritesVehicle, WritesRun
<1>2. ASSUME NEW q \in Request, Receive(q) PROVE HandlersOnTrack'
  BY <1>2, ReceiveVehicleStep, ReceiveRunStep, ReceivePlanningStep DEF Receive
<1>3. ASSUME NEW q \in Request, VehicleStep(q) PROVE HandlersOnTrack'
  BY <1>3, ResolveFactorStep, InsertVehicleStep, CommitNewVehicleStep,
     ReadPatchedStep, UpdateVehicleStep, IndexPlateStep, CommitPatchedVehicleStep,
     RespondVehicleStep, ReadDoomedVehicleStep, DeleteVehicleRowStep,
     NullifyRunsStep, CommitDeletedVehicleStep
     DEF VehicleStep
<1>4. ASSUME NEW q \in Request, RunStep(q) PROVE HandlersOnTrack'
  BY <1>4, ReadRunStep, FlushRunStep, CommitPatchedRunStep,
     CommitDeletedRunStep, RespondRunStep
     DEF RunStep
<1>5. ASSUME NEW q \in Request, PlanStep(q) PROVE HandlersOnTrack'
  BY <1>5, ReadOriginalStep, ReadVehicleStep, InsertRunStep, RouteStep,
     CommitRunStep, RespondPlanStep
     DEF PlanStep
<1>6. ASSUME NEW q \in Request, Fail(q) PROVE HandlersOnTrack'
  BY <1>6, FailStep
<1>7. CASE Crash
  BY <1>7, CrashStep
<1>8. CASE Quiet
  BY <1>1, <1>8 DEF Quiet
<1> QED
  BY <1>1, <1>2, <1>3, <1>4, <1>5, <1>6, <1>7, <1>8, StepsByKind DEF Step

\* The handlers stay on track: types, local data, and row locks that exclude
\* each other.
THEOREM OnTrack == Spec => []HandlersOnTrack
<1> QED
  BY InitOnTrack, NextOnTrack, PTL DEF Spec

\* In every reachable state, for every number of concurrent requests, each
\* stored run is finished: create_run's "running" row is never seen.
THEOREM RunsAlwaysFinished == Spec => []RunsFinished
<1>1. HandlersOnTrack => RunsFinished
  BY DEF HandlersOnTrack
<1> QED
  BY <1>1, OnTrack, PTL

\* A stored run never refers to a vehicle that is gone, although vehicles are
\* hard deleted while runs for them are being planned.
THEOREM VehicleReferencesAlwaysHold == Spec => []VehicleReferencesHold
<1>1. HandlersOnTrack => VehicleReferencesHold
  BY DEF HandlersOnTrack
<1> QED
  BY <1>1, OnTrack, PTL

\* The variables always have their types.
THEOREM TypesHold == Spec => []TypeOK
<1>1. HandlersOnTrack => TypeOK
  BY DEF HandlersOnTrack
<1> QED
  BY <1>1, OnTrack, PTL

-----------------------------------------------------------------------------
(***************************************************************************)
(* The history of runs                                                     *)
(***************************************************************************)

\* Only four actions write the table of runs.
LEMMA WritersOfRuns ==
  ASSUME [Next]_vars
  PROVE  \/ runs' = runs
         \/ \E q \in Request :
              \/ CommitRun(q) \/ CommitPatchedRun(q)
              \/ CommitDeletedRun(q) \/ CommitDeletedVehicle(q)
<1>1. CASE UNCHANGED vars
  BY <1>1 DEF vars
<1>2. ASSUME NEW q \in Request, Receive(q) PROVE runs' = runs
  BY <1>2 DEF Receive, ReceiveVehicle, ReceiveCreateVehicle, ReceivePatchVehicle,
     ReceiveDeleteVehicle, ReceiveRun, ReceivePatchRun, ReceiveDeleteRun,
     ReceivePlanning, ReceivePlan, ReceiveRecalculate
<1>3. ASSUME NEW q \in Request, VehicleStep(q), ~ CommitDeletedVehicle(q)
      PROVE  runs' = runs
  BY <1>3 DEF VehicleStep, ResolveFactor, InsertVehicle, CommitNewVehicle,
     ReadPatched, UpdateVehicle, IndexPlate, CommitPatchedVehicle, RespondVehicle,
     ReadDoomedVehicle, DeleteVehicleRow, NullifyRuns, RespondDeletedVehicle, Reject
<1>4. ASSUME NEW q \in Request, RunStep(q), ~ CommitPatchedRun(q),
             ~ CommitDeletedRun(q)
      PROVE  runs' = runs
  BY <1>4 DEF RunStep, ReadRun, UpdateRun, DeleteRunRows, RespondRun, Reject
<1>5. ASSUME NEW q \in Request, PlanStep(q), ~ CommitRun(q)
      PROVE  runs' = runs
  BY <1>5 DEF PlanStep, ReadOriginal, ReadRoutes, ReadSegments, ReadVehicle,
     InsertRun, Routed, NothingRouted, RefusePlan, Price, RespondPlan, Reject
<1>6. ASSUME NEW q \in Request, Fail(q) PROVE runs' = runs
  BY <1>6 DEF Fail, Reject
<1>7. Crash \/ Quiet => runs' = runs
  BY DEF Crash, Quiet, vars
<1> QED
  BY <1>1, <1>2, <1>3, <1>4, <1>5, <1>6, <1>7, StepsByKind DEF Step

\* What each of them does, seen as a step of the ledger.
LEMMA CommitRunPublishes ==
  ASSUME HandlersOnTrack, NEW q \in Request, CommitRun(q)
  PROVE  q \in Run /\ Ledger!Publish(q)
<1>1. q \in Run /\ runs[q] = Unborn
  BY DEF Run, HandlersOnTrack, RowsSeen, CommitRun
<1>2. runs' = [runs EXCEPT ![q] = NewRun(q)] /\ runs'[q] = NewRun(q)
  BY <1>1 DEF CommitRun, HandlersOnTrack, TypeOK
<1> QED
  BY <1>1, <1>2, NewRunFits DEF Ledger!Publish, Ledger!Finished

\* The commit of patch_run relabels its run, or changes none.
LEMMA CommitPatchedRunRelabels ==
  ASSUME HandlersOnTrack, NEW q \in Request, CommitPatchedRun(q)
  PROVE  \/ runs' = runs
         \/ /\ req[q].run \in Run /\ HasRun(req[q].run)
            /\ runs' = [runs EXCEPT ![req[q].run].labelled = TRUE]
            /\ Ledger!Relabel(req[q].run)
<1>1. req[q].run \in Run /\ (req[q].labelled => HasRun(req[q].run))
  BY DEF CommitPatchedRun, HandlersOnTrack, WellFormed, Working, RowsSeen
<1> QED
  BY <1>1 DEF CommitPatchedRun, Ledger!Relabel, Ledger!Absent, HasRun, Absent

\* The commit of delete_run strikes its run.
LEMMA CommitDeletedRunStrikes ==
  ASSUME HandlersOnTrack, NEW q \in Request, CommitDeletedRun(q)
  PROVE  \/ runs' = runs
         \/ req[q].run \in Run /\ Ledger!Strike(req[q].run)
<1>1. req[q].run \in Run /\ runs[req[q].run] # Unborn
  BY DEF CommitDeletedRun, HandlersOnTrack, WellFormed, Working, RowsSeen
<1> QED
  BY <1>1 DEF CommitDeletedRun, Ledger!Strike, Ledger!Absent, HandlersOnTrack, TypeOK

\* The commit of delete_vehicle forgets its vehicle in every run.
LEMMA CommitDeletedVehicleForgets ==
  ASSUME HandlersOnTrack, NEW q \in Request, CommitDeletedVehicle(q)
  PROVE  req[q].vehicle \in Vehicle /\ Ledger!Forget(req[q].vehicle)
<1>1. req[q].vehicle \in Vehicle
  BY DEF CommitDeletedVehicle, HandlersOnTrack, WellFormed, Working
<1> QED
  BY <1>1 DEF CommitDeletedVehicle, Ledger!Forget, Ledger!Absent, HasRun, Absent

\* The backend's handling of runs implements the ledger, with the table of
\* runs as the ledger: every commit is one step of it, every other step, every
\* failed request and every crash is none.
THEOREM BackendImplementsLedger == Spec => LedgerSpec
<1>1. Init => Ledger!Init
  BY DEF Init, StoreInit, Ledger!Init
<1>2. HandlersOnTrack /\ [Next]_vars => [Ledger!Next]_runs
  <2> SUFFICES ASSUME HandlersOnTrack, [Next]_vars PROVE Ledger!Next \/ runs' = runs
    OBVIOUS
  <2>1. ASSUME NEW q \in Request, CommitRun(q) PROVE Ledger!Next
    BY <2>1, CommitRunPublishes DEF Ledger!Next
  <2>2. ASSUME NEW q \in Request, CommitPatchedRun(q)
        PROVE  Ledger!Next \/ runs' = runs
    BY <2>2, CommitPatchedRunRelabels DEF Ledger!Next
  <2>3. ASSUME NEW q \in Request, CommitDeletedRun(q)
        PROVE  Ledger!Next \/ runs' = runs
    BY <2>3, CommitDeletedRunStrikes DEF Ledger!Next
  <2>4. ASSUME NEW q \in Request, CommitDeletedVehicle(q) PROVE Ledger!Next
    BY <2>4, CommitDeletedVehicleForgets DEF Ledger!Next
  <2> QED
    BY <2>1, <2>2, <2>3, <2>4, WritersOfRuns
<1> QED
  BY <1>1, <1>2, OnTrack, PTL DEF Spec, LedgerSpec, Ledger!Spec

\* The content of a stored run never changes, and a run leaves the history
\* only when its own deletion was asked for.
THEOREM HistoryStaysFrozen == Spec => HistoryIsFrozen
<1> DEFINE Frozen(r) ==
      /\ runs[r] = Deleted => runs'[r] = Deleted
      /\ HasRun(r) /\ runs'[r] = Deleted =>
           \E q \in Request : req[q].kind = "deleteRun" /\ req[q].run = r
      /\ HasRun(r) /\ runs'[r] # Deleted =>
           FrozenContent(runs'[r]) = FrozenContent(runs[r])
<1>1. HandlersOnTrack /\ [Next]_vars => [\A r \in Run : Frozen(r)]_vars
  <2> SUFFICES ASSUME HandlersOnTrack, [Next]_vars, NEW r \in Run
               PROVE  Frozen(r)
    OBVIOUS
  <2>1. HasRun(r) => runs[r] \in RunRow /\ runs[r] # Deleted
    BY DEF HandlersOnTrack, TypeOK, HasRun, Absent
  <2>2. CASE runs'[r] = runs[r]
    BY <2>1, <2>2
  <2>3. ASSUME NEW q \in Request, CommitRun(q), runs'[r] # runs[r]
        PROVE  Frozen(r)
    <3>1. r = q /\ runs[r] = Unborn
      BY <2>3 DEF CommitRun, HandlersOnTrack, TypeOK, RowsSeen
    <3> QED
      BY <3>1, NullAssumption DEF HasRun, Absent
  <2>4. ASSUME NEW q \in Request, CommitPatchedRun(q), runs'[r] # runs[r]
        PROVE  Frozen(r)
    <3>1. HasRun(r) /\ runs'[r] = [runs[r] EXCEPT !.labelled = TRUE]
      BY <2>4, CommitPatchedRunRelabels DEF HandlersOnTrack, TypeOK
    <3>2. runs'[r] \in RunRow
      BY <2>1, <3>1 DEF RunRow
    <3> QED
      BY <2>1, <3>1, <3>2, NullAssumption DEF RunRow, FrozenContent, Absent
  <2>5. ASSUME NEW q \in Request, CommitDeletedRun(q), runs'[r] # runs[r]
        PROVE  Frozen(r)
    <3>1. /\ r = req[q].run /\ req[q].kind = "deleteRun" /\ runs'[r] = Deleted
      BY <2>5 DEF CommitDeletedRun, HandlersOnTrack, TypeOK
    <3> QED
      BY <3>1
  <2>6. ASSUME NEW q \in Request, CommitDeletedVehicle(q), runs'[r] # runs[r]
        PROVE  Frozen(r)
    <3>1. HasRun(r) /\ runs'[r] = [runs[r] EXCEPT !.vehicle = None]
      BY <2>6 DEF CommitDeletedVehicle
    <3>2. runs'[r] \in RunRow
      BY <2>1, <3>1 DEF RunRow
    <3> QED
      BY <2>1, <3>1, <3>2, NullAssumption DEF RunRow, FrozenContent, Absent
  <2> QED
    BY <2>2, <2>3, <2>4, <2>5, <2>6, WritersOfRuns
<1> QED
  BY <1>1, OnTrack, PTL DEF Spec, HistoryIsFrozen

------------------------------------------------------------------------------
(* What is read and answered of runs stays true *)

\* The run is, or was when it was deleted, done.
WasDone(r) == runs[r] = Deleted \/ (HasRun(r) /\ runs[r].status = "done")

\* What a planner read of the original run still holds.
OriginHolds(q) ==
  LET x == req[q]
  IN /\ x.at = "idle" \/ x.kind \in {"p2p", "vrp"} => x.run = None
     /\ x.kind = "recalculate" /\ x.at \in {"readRoutes", "readSegments"}
          /\ x.status = "done" => WasDone(x.run)
     /\ x.kind = "recalculate" /\ x.at \in {"readVehicle", "insertRun", "price", "commit"} =>
          WasDone(x.run)

\* The snapshot a planner holds was linked to a factor, and the pair it priced
\* its routes with has one.
FactorHolds(q) ==
  LET x == req[q]
  IN x.kind \in Planner =>
       /\ x.at \in {"insertRun", "route", "price", "commit"} => x.row.ef # None
       /\ x.at = "commit" /\ x.status = "done" =>
            <<x.row.fuel, x.row.class>> \in FactorPair

\* What a planner says, or will say, of its run.
AnswerHolds(q) ==
  LET x == req[q]
  IN x.kind \in Planner =>
       /\ x.at = "respond" =>
            runs[q] = Deleted \/ (HasRun(q) /\ runs[q].status = x.status)
       /\ x.at = "answered" =>
            /\ x.reply = "201" => WasDone(q)
            /\ x.reply \in {"400", "404"} => runs[q] = Unborn
            /\ x.reply = "503" => runs[q] \in Absent \/ runs[q].status = "failed"

Follows(q) == OriginHolds(q) /\ FactorHolds(q) /\ AnswerHolds(q)

\* The inductive invariant.
AnswersOnTrack ==
  /\ \A q \in Request : Follows(q)
  /\ OriginsWereDone
  /\ DoneRunsHadAFactor

-----------------------------------------------------------------------------

\* Nobody has asked, and what was stored was priced with a factor.
LEMMA InitAnswers == Init => AnswersOnTrack
<1> SUFFICES ASSUME Init PROVE AnswersOnTrack
  OBVIOUS
<1>1. \A q \in Request : req[q] = Idle
  BY DEF Init, StoreInit
<1>2. \A q \in Request : Follows(q)
  <2>1. Idle.at = "idle" /\ Idle.run = None
    BY DEF Idle
  <2>2. \A q \in Request : req[q].at = "idle" /\ req[q].run = None
    BY <1>1, <2>1
  <2> QED
    BY <2>2 DEF Follows, OriginHolds, FactorHolds, AnswerHolds, WasDone, HasRun
<1>3. \A r \in Run : HasRun(r) => r \in DOMAIN Past /\ runs[r] = Past[r]
  BY DEF Init, StoreInit, HasRun, Absent
<1>4. OriginsWereDone /\ DoneRunsHadAFactor
  BY <1>3, SeedAssumption DEF OriginsWereDone, DoneRunsHadAFactor
<1> QED
  BY <1>2, <1>4 DEF AnswersOnTrack

\* What becomes of a run in a step: it is stored by its own commit, keeps its
\* content, and once deleted stays deleted.
LEMMA RunsStay ==
  ASSUME HandlersOnTrack, [Next]_vars, NEW r \in Run
  PROVE  /\ runs[r] = Deleted => runs'[r] = Deleted
         /\ HasRun(r) => \/ runs'[r] = Deleted
                         \/ /\ HasRun(r)'
                            /\ runs'[r].status = runs[r].status
                            /\ runs'[r].snapshot = runs[r].snapshot
                            /\ runs'[r].origin = runs[r].origin
         /\ runs[r] = Unborn =>
              runs'[r] = Unborn \/ (r \in Request /\ CommitRun(r) /\ runs'[r] = NewRun(r))
<1> DEFINE Stays ==
      /\ runs[r] = Deleted => runs'[r] = Deleted
      /\ HasRun(r) => \/ runs'[r] = Deleted
                      \/ /\ HasRun(r)'
                         /\ runs'[r].status = runs[r].status
                         /\ runs'[r].snapshot = runs[r].snapshot
                         /\ runs'[r].origin = runs[r].origin
      /\ runs[r] = Unborn =>
           runs'[r] = Unborn \/ (r \in Request /\ CommitRun(r) /\ runs'[r] = NewRun(r))
<1>1. /\ HasRun(r) <=> runs[r] # Unborn /\ runs[r] # Deleted
      /\ HasRun(r)' <=> runs'[r] # Unborn /\ runs'[r] # Deleted
      /\ HasRun(r) => runs[r] \in RunRow
      /\ Unborn # Deleted
  BY NullAssumption DEF HandlersOnTrack, TypeOK, HasRun, Absent
<1>2. CASE runs'[r] = runs[r]
  BY <1>1, <1>2
<1>3. ASSUME NEW q \in Request, CommitRun(q), runs'[r] # runs[r] PROVE Stays
  <2>1. r = q /\ runs[r] = Unborn /\ runs'[r] = NewRun(r)
    BY <1>3 DEF CommitRun, HandlersOnTrack, TypeOK, RowsSeen
  <2> QED
    BY <1>1, <1>3, <2>1
<1>4. ASSUME NEW q \in Request, CommitPatchedRun(q), runs'[r] # runs[r] PROVE Stays
  <2>1. HasRun(r) /\ runs'[r] = [runs[r] EXCEPT !.labelled = TRUE]
    BY <1>4, CommitPatchedRunRelabels DEF HandlersOnTrack, TypeOK
  <2>2. runs'[r] \in RunRow
    BY <1>1, <2>1 DEF RunRow
  <2> QED
    BY <1>1, <2>1, <2>2, NullAssumption DEF RunRow, Absent
<1>5. ASSUME NEW q \in Request, CommitDeletedRun(q), runs'[r] # runs[r] PROVE Stays
  <2>1. r = req[q].run /\ runs'[r] = Deleted /\ runs[r] # Unborn
    BY <1>5 DEF CommitDeletedRun, HandlersOnTrack, TypeOK, RowsSeen
  <2> QED
    BY <1>1, <2>1
<1>6. ASSUME NEW q \in Request, CommitDeletedVehicle(q), runs'[r] # runs[r] PROVE Stays
  <2>1. HasRun(r) /\ runs'[r] = [runs[r] EXCEPT !.vehicle = None]
    BY <1>6 DEF CommitDeletedVehicle
  <2>2. runs'[r] \in RunRow
    BY <1>1, <2>1 DEF RunRow
  <2> QED
    BY <1>1, <2>1, <2>2, NullAssumption DEF RunRow, Absent
<1>7. Stays
  BY <1>2, <1>3, <1>4, <1>5, <1>6, WritersOfRuns
<1> QED
  BY <1>7

\* So a run that was done stays done, or deleted.
LEMMA DoneStays ==
  ASSUME HandlersOnTrack, [Next]_vars, NEW r \in Run, WasDone(r)
  PROVE  WasDone(r)'
BY RunsStay DEF WasDone

\* One handler at a time.
LEMMA OthersWait ==
  ASSUME HandlersOnTrack, NEW q \in Request, Receive(q) \/ Step(q) \/ Fail(q)
  PROVE  \A p \in Request \ {q} : req'[p] = req[p]
<1> USE DEF HandlersOnTrack, TypeOK, Reject, Answer, Goto
<1>1. CASE Receive(q)
  BY <1>1 DEF Receive, ReceiveVehicle, ReceiveCreateVehicle, ReceivePatchVehicle,
     ReceiveDeleteVehicle, ReceiveRun, ReceivePatchRun, ReceiveDeleteRun,
     ReceivePlanning, ReceivePlan, ReceiveRecalculate
<1>2. CASE VehicleStep(q)
  BY <1>2 DEF VehicleStep, ResolveFactor, InsertVehicle, CommitNewVehicle,
     ReadPatched, UpdateVehicle, IndexPlate, CommitPatchedVehicle, RespondVehicle,
     ReadDoomedVehicle, DeleteVehicleRow, NullifyRuns, CommitDeletedVehicle,
     RespondDeletedVehicle
<1>3. CASE RunStep(q)
  BY <1>3 DEF RunStep, ReadRun, UpdateRun, DeleteRunRows, CommitPatchedRun,
     CommitDeletedRun, RespondRun
<1>4. CASE PlanStep(q)
  BY <1>4 DEF PlanStep, ReadOriginal, ReadRoutes, ReadSegments, ReadVehicle,
     InsertRun, Routed, NothingRouted, RefusePlan, Price, CommitRun, RespondPlan
<1>5. CASE Fail(q)
  BY <1>5 DEF Fail
<1> QED
  BY <1>1, <1>2, <1>3, <1>4, <1>5 DEF Step

\* What others do leaves a handler's answer true.
LEMMA StillFollows ==
  ASSUME HandlersOnTrack, [Next]_vars, NEW q \in Request, Follows(q), req'[q] = req[q]
  PROVE  Follows(q)'
<1>1. q \in Run /\ WellFormed(q) /\ req[q] \in RequestRecord
  BY DEF Run, HandlersOnTrack, TypeOK
<1>2. ~ CommitRun(q)
  <2> SUFFICES ASSUME CommitRun(q) PROVE FALSE
    OBVIOUS
  <2>1. req'[q] = [req[q] EXCEPT !.at = "respond"] /\ req[q].at = "commit"
    BY GotoStep DEF CommitRun, Place
  <2> QED
    BY <1>1, <2>1 DEF RequestRecord
<1>3. OriginHolds(q)'
  BY <1>1, DoneStays DEF Follows, OriginHolds, WellFormed, Working
<1>4. FactorHolds(q)'
  BY DEF Follows, FactorHolds
<1>5. AnswerHolds(q)'
  BY <1>1, <1>2, RunsStay, DoneStays, NullAssumption
     DEF Follows, AnswerHolds, HasRun, Absent
<1> QED
  BY <1>3, <1>4, <1>5 DEF Follows

-----------------------------------------------------------------------------
(* The handler's own step *)

\* Only planners have anything to say of a run.
LEMMA OtherKinds ==
  ASSUME NEW q \in Request, req'[q].kind \in Endpoints \ Planner, req'[q].at # "idle"
  PROVE  Follows(q)'
BY DEF Follows, OriginHolds, FactorHolds, AnswerHolds, Planner

\* An answer that is true of the run.
LEMMA AnswerFollows ==
  ASSUME HandlersOnTrack, NEW q \in Request, NEW code \in Reply, Reject(q, code),
         req[q].kind \in Planner =>
           /\ code = "201" => WasDone(q)
           /\ code \in {"400", "404"} => runs[q] = Unborn
           /\ code = "503" => runs[q] \in Absent \/ runs[q].status = "failed"
  PROVE  Follows(q)'
<1>1. /\ req'[q].kind = req[q].kind /\ req'[q].at = "answered" /\ req'[q].reply = code
      /\ req'[q].run = None /\ runs' = runs
  BY DEF HandlersOnTrack, TypeOK, Reject, Answer, Idle
<1> QED
  BY <1>1 DEF Follows, OriginHolds, FactorHolds, AnswerHolds, WasDone, HasRun

\* A request that comes in.
LEMMA ReceiveMoves ==
  ASSUME HandlersOnTrack, NEW q \in Request, Receive(q)
  PROVE  /\ req[q].at = "idle"
         /\ \/ req'[q].at = "readRow" /\ req'[q].kind \in Endpoints \ Planner
            \/ /\ req'[q].at = "readVehicle" /\ req'[q].kind \in {"p2p", "vrp"}
               /\ req'[q].run = req[q].run
            \/ req'[q].at = "readOriginal" /\ req'[q].kind = "recalculate"
<1> USE DEF HandlersOnTrack, TypeOK, RequestRecord, Endpoints, Planner
<1>1. req[q] \in RequestRecord
  OBVIOUS
<1> DEFINE Moves ==
      /\ req[q].at = "idle"
      /\ \/ req'[q].at = "readRow" /\ req'[q].kind \in Endpoints \ Planner
         \/ /\ req'[q].at = "readVehicle" /\ req'[q].kind \in {"p2p", "vrp"}
            /\ req'[q].run = req[q].run
         \/ req'[q].at = "readOriginal" /\ req'[q].kind = "recalculate"
<1> SUFFICES Moves
  OBVIOUS
<1>2. CASE ReceiveCreateVehicle(q)
  BY <1>1, <1>2 DEF ReceiveCreateVehicle
<1>3. CASE ReceivePatchVehicle(q)
  BY <1>1, <1>3 DEF ReceivePatchVehicle
<1>4. CASE ReceiveDeleteVehicle(q)
  BY <1>1, <1>4 DEF ReceiveDeleteVehicle
<1>5. CASE ReceivePatchRun(q)
  BY <1>1, <1>5 DEF ReceivePatchRun
<1>6. CASE ReceiveDeleteRun(q)
  BY <1>1, <1>6 DEF ReceiveDeleteRun
<1>7. CASE ReceivePlan(q)
  BY <1>1, <1>7 DEF ReceivePlan
<1>8. CASE ReceiveRecalculate(q)
  BY <1>1, <1>8 DEF ReceiveRecalculate
<1> HIDE DEF Moves
<1> QED
  BY <1>2, <1>3, <1>4, <1>5, <1>6, <1>7, <1>8
     DEF Receive, ReceiveVehicle, ReceiveRun, ReceivePlanning

\* It has nothing to say yet.
LEMMA ReceiveFollows ==
  ASSUME HandlersOnTrack, NEW q \in Request, Follows(q), Receive(q)
  PROVE  Follows(q)'
BY ReceiveMoves, OtherKinds DEF Follows, OriginHolds, FactorHolds, AnswerHolds

\* update_vehicle gives up, or goes on with some row.
LEMMA ReadPatchedMoves ==
  ASSUME NEW q \in Request, ReadPatched(q)
  PROVE  \/ Reject(q, "404") \/ Reject(q, "400")
         \/ /\ \E row, cols : req' = [req EXCEPT ![q].at = "flush", ![q].row = row,
                                                ![q].cols = cols]
            /\ UNCHANGED <<vehicles, runs>>
<1> DEFINE v    == req[q].vehicle
           new  == Merged(vehicles[v], req[q].row, req[q].cols)
           pair == <<new.fuel, new.class>>
           pairChanged == Changed(vehicles[v], new) \cap {"fuel", "class"} # {}
           r    == IF pairChanged THEN [new EXCEPT !.ef = pair] ELSE new
           c    == Changed(vehicles[v], r)
<1>1. \/ Reject(q, "404") \/ Reject(q, "400")
      \/ /\ req' = [req EXCEPT ![q].at = "flush", ![q].row = r, ![q].cols = c]
         /\ UNCHANGED <<vehicles, runs>>
  BY Zenon DEF ReadPatched
<1> HIDE DEF r, c
<1> QED
  BY <1>1

\* The handlers of vehicles and runs keep their kind and, once they have
\* committed, only answer.
LEMMA OtherMoves ==
  ASSUME HandlersOnTrack, NEW q \in Request, VehicleStep(q) \/ RunStep(q)
  PROVE  /\ req[q].kind \in Endpoints \ Planner /\ req'[q].kind = req[q].kind
         /\ req[q].at \in {"readRow", "flush", "index", "cascade", "commit", "respond"}
         /\ req'[q].at # "idle"
         /\ req[q].at = "respond" => req'[q].at = "answered"
<1> DEFINE Moves ==
      /\ req'[q].kind = req[q].kind /\ req'[q].at # "idle"
      /\ req[q].at = "respond" => req'[q].at = "answered"
<1>1. req[q] \in RequestRecord
  BY DEF HandlersOnTrack, TypeOK
<1>2. /\ req[q].kind \in Endpoints \ Planner
      /\ req[q].at \in {"readRow", "flush", "index", "cascade", "commit", "respond"}
  BY DEF VehicleStep, ResolveFactor, InsertVehicle, CommitNewVehicle,
     ReadPatched, UpdateVehicle, IndexPlate, CommitPatchedVehicle, RespondVehicle,
     ReadDoomedVehicle, DeleteVehicleRow, NullifyRuns, CommitDeletedVehicle,
     RespondDeletedVehicle, RunStep, ReadRun, UpdateRun, DeleteRunRows,
     CommitPatchedRun, CommitDeletedRun, RespondRun, Endpoints, Planner
<1> SUFFICES Moves
  BY <1>2
<1>3. ASSUME NEW code, Reject(q, code) PROVE Moves
  BY <1>3 DEF HandlersOnTrack, TypeOK, Reject, Answer, Idle
<1>4. ASSUME NEW place \in {"flush", "index", "cascade", "commit", "respond"}, Goto(q, place),
             req[q].at # "respond"
      PROVE  Moves
  BY <1>1, <1>4 DEF HandlersOnTrack, TypeOK, Goto, RequestRecord
<1>5. CASE ResolveFactor(q)
  <2>1. ASSUME NEW ef, req' = [req EXCEPT ![q].at = "flush", ![q].row.ef = ef],
               req[q].at = "readRow"
        PROVE  Moves
    BY <1>1, <2>1 DEF HandlersOnTrack, TypeOK, RequestRecord
  <2> HIDE DEF Moves
  <2> QED
    BY <1>3, <1>5, <2>1 DEF ResolveFactor
<1>6. CASE CommitNewVehicle(q)
  BY <1>1, <1>6 DEF CommitNewVehicle, HandlersOnTrack, TypeOK, RequestRecord
<1>7. CASE ReadPatched(q)
  <2>1. CASE Reject(q, "404") \/ Reject(q, "400")
    BY <1>3, <2>1
  <2>2. ASSUME NEW row, NEW cols,
               req' = [req EXCEPT ![q].at = "flush", ![q].row = row, ![q].cols = cols]
        PROVE  Moves
    BY <1>1, <1>7, <2>2 DEF ReadPatched, HandlersOnTrack, TypeOK, RequestRecord
  <2> QED
    BY <1>7, <2>1, <2>2, ReadPatchedMoves
<1> HIDE DEF Moves
<1>8. CASE \/ InsertVehicle(q) \/ UpdateVehicle(q) \/ IndexPlate(q)
           \/ CommitPatchedVehicle(q)
  BY <1>3, <1>4, <1>8 DEF InsertVehicle, UpdateVehicle, IndexPlate, CommitPatchedVehicle
<1>9. CASE \/ ReadDoomedVehicle(q) \/ DeleteVehicleRow(q) \/ NullifyRuns(q)
           \/ CommitDeletedVehicle(q)
  BY <1>3, <1>4, <1>9 DEF ReadDoomedVehicle, DeleteVehicleRow, NullifyRuns,
     CommitDeletedVehicle
<1>10. CASE RespondVehicle(q) \/ RespondDeletedVehicle(q) \/ RespondRun(q)
  BY <1>3, <1>10 DEF RespondVehicle, RespondDeletedVehicle, RespondRun
<1>11. CASE \/ ReadRun(q) \/ UpdateRun(q) \/ DeleteRunRows(q)
            \/ CommitPatchedRun(q) \/ CommitDeletedRun(q)
  BY <1>3, <1>4, <1>11 DEF ReadRun, UpdateRun, DeleteRunRows, CommitPatchedRun,
     CommitDeletedRun
<1> QED
  BY <1>5, <1>6, <1>7, <1>8, <1>9, <1>10, <1>11 DEF VehicleStep, RunStep

\* A planner's step that only goes on, with what it held.
LEMMA PlannerFollows ==
  ASSUME HandlersOnTrack, [Next]_vars, NEW q \in Request, Follows(q), req[q].kind \in Planner,
         req'[q].kind = req[q].kind, req'[q].run = req[q].run, runs' = runs,
         req'[q].at \in {"readSegments", "readVehicle", "insertRun", "route", "price", "commit"},
         req[q].kind = "recalculate" => req'[q].at # "readSegments",
         req[q].kind = "recalculate" => WasDone(req[q].run),
         req'[q].at \in {"insertRun", "route", "price", "commit"} => req'[q].row.ef # None,
         req'[q].at = "commit" /\ req'[q].status = "done" =>
           <<req'[q].row.fuel, req'[q].row.class>> \in FactorPair
  PROVE  Follows(q)'
BY DEF Follows, OriginHolds, FactorHolds, AnswerHolds, WasDone, HasRun

\* Recalculation reads its original in three steps, and goes on with it only
\* if it was done.
LEMMA ReadingFollows ==
  ASSUME HandlersOnTrack, [Next]_vars, NEW q \in Request, Follows(q),
         ReadOriginal(q) \/ ReadRoutes(q) \/ ReadSegments(q)
  PROVE  Follows(q)'
<1>1. /\ req[q] \in RequestRecord /\ req[q].kind = "recalculate"
      /\ WellFormed(q) /\ runs[q] = Unborn
  BY DEF HandlersOnTrack, TypeOK, WellFormed, RowsSeen, ReadOriginal, ReadRoutes, ReadSegments
<1>2. ASSUME NEW code \in {"400", "404"}, Reject(q, code) PROVE Follows(q)'
  BY <1>1, <1>2, AnswerFollows DEF Reply
<1>3. CASE ReadOriginal(q) /\ ~ Reject(q, "404")
  <2>1. /\ req'[q].kind = "recalculate" /\ req'[q].at = "readRoutes"
        /\ req'[q].run = req[q].run /\ req'[q].status = runs[req[q].run].status
        /\ HasRun(req[q].run) /\ runs' = runs
    BY <1>1, <1>3 DEF ReadOriginal, HandlersOnTrack, TypeOK, RequestRecord
  <2> QED
    BY <2>1 DEF Follows, OriginHolds, FactorHolds, AnswerHolds, WasDone, HasRun
<1>4. CASE ReadRoutes(q)
  <2>1. /\ req'[q].kind = "recalculate" /\ req'[q].at = "readSegments"
        /\ req[q].at = "readRoutes" /\ runs' = runs
        /\ req'[q].run = req[q].run /\ req'[q].status = req[q].status
    BY <1>1, <1>4 DEF ReadRoutes, HandlersOnTrack, TypeOK, RequestRecord
  <2>2. req[q].status = "done" => WasDone(req[q].run)'
    BY <1>1, <2>1 DEF Follows, OriginHolds, WasDone, HasRun
  <2> QED
    BY <2>1, <2>2 DEF Follows, OriginHolds, FactorHolds, AnswerHolds
<1>5. CASE ReadSegments(q) /\ ~ Reject(q, "400")
  <2>1. /\ req'[q].kind = "recalculate" /\ req'[q].at = "readVehicle"
        /\ req[q].at = "readSegments" /\ runs' = runs
        /\ req'[q].run = req[q].run /\ req[q].status = "done"
    BY <1>1, <1>5 DEF ReadSegments, HandlersOnTrack, TypeOK, RequestRecord
  <2> QED
    BY <1>1, <2>1 DEF Follows, OriginHolds, FactorHolds, AnswerHolds, WasDone, HasRun
<1> QED
  BY <1>2, <1>3, <1>4, <1>5

\* A planner reads its vehicle, which has a factor, and inserts its run.
LEMMA InsertingFollows ==
  ASSUME HandlersOnTrack, [Next]_vars, NEW q \in Request, Follows(q),
         ReadVehicle(q) \/ InsertRun(q)
  PROVE  Follows(q)'
<1>1. /\ req[q] \in RequestRecord /\ req[q].kind \in Planner
      /\ WellFormed(q) /\ runs[q] = Unborn
  BY DEF HandlersOnTrack, TypeOK, WellFormed, RowsSeen, ReadVehicle, InsertRun, PlannerPlace
<1>2. ASSUME NEW code \in {"404", "500", "503"}, Reject(q, code) PROVE Follows(q)'
  BY <1>1, <1>2, AnswerFollows DEF Reply, Absent
<1>3. req[q].kind = "recalculate" => WasDone(req[q].run)
  BY <1>1 DEF Follows, OriginHolds, ReadVehicle, InsertRun
<1>4. CASE /\ ReadVehicle(q)
           /\ req' = [req EXCEPT ![q].at = "insertRun", ![q].row = vehicles[req[q].vehicle]]
           /\ vehicles[req[q].vehicle].ef # None /\ runs' = runs
  <2>1. /\ req'[q].kind = req[q].kind /\ req'[q].at = "insertRun"
        /\ req'[q].run = req[q].run /\ req'[q].row = vehicles[req[q].vehicle]
    BY <1>1, <1>4 DEF HandlersOnTrack, TypeOK, RequestRecord
  <2> QED
    BY <1>1, <1>3, <1>4, <2>1, PlannerFollows
<1>5. CASE /\ InsertRun(q) /\ runs' = runs
           /\ Goto(q, IF req[q].kind = "recalculate" THEN "price" ELSE "route")
  <2>1. /\ req'[q].kind = req[q].kind /\ req'[q].at \in {"price", "route"}
        /\ req'[q].run = req[q].run /\ req'[q].row = req[q].row
    BY <1>1, <1>5 DEF Goto, HandlersOnTrack, TypeOK, RequestRecord
  <2>2. req[q].row.ef # None
    BY <1>1, <1>5 DEF InsertRun, Follows, FactorHolds
  <2> QED
    BY <1>1, <1>3, <1>5, <2>1, <2>2, PlannerFollows
<1> QED
  BY <1>2, <1>4, <1>5 DEF ReadVehicle, InsertRun

\* The routes are found, and priced if the pair has a factor.
LEMMA RoutingFollows ==
  ASSUME HandlersOnTrack, [Next]_vars, NEW q \in Request, Follows(q),
         Routed(q) \/ NothingRouted(q) \/ RefusePlan(q) \/ Price(q)
  PROVE  Follows(q)'
<1>1. /\ req[q] \in RequestRecord /\ req[q].kind \in Planner
      /\ req[q].at \in {"route", "price"} /\ runs[q] = Unborn
  BY DEF HandlersOnTrack, TypeOK, WellFormed, RowsSeen, Routed, NothingRouted, RefusePlan,
     Price, PlannerPlace
<1>2. ASSUME NEW code \in {"400", "500", "503"}, Reject(q, code) PROVE Follows(q)'
  BY <1>1, <1>2, AnswerFollows DEF Reply, Absent
<1>3. /\ req[q].kind = "recalculate" => WasDone(req[q].run)
      /\ req[q].row.ef # None
  BY <1>1 DEF HandlersOnTrack, WellFormed, Follows, OriginHolds, FactorHolds
<1>4. CASE Routed(q)
  <2>1. /\ req'[q].kind = req[q].kind /\ req'[q].at = "price" /\ runs' = runs
        /\ req'[q].run = req[q].run /\ req'[q].row = req[q].row
    BY <1>1, <1>4 DEF Routed, HandlersOnTrack, TypeOK, RequestRecord
  <2> QED
    BY <1>1, <1>3, <2>1, PlannerFollows
<1>5. CASE NothingRouted(q)
  <2>1. /\ req'[q].kind = req[q].kind /\ req'[q].at = "commit" /\ runs' = runs
        /\ req'[q].run = req[q].run /\ req'[q].row = req[q].row
        /\ req'[q].status = "failed"
    BY <1>1, <1>5 DEF NothingRouted, HandlersOnTrack, TypeOK, RequestRecord
  <2> QED
    BY <1>1, <1>3, <2>1, PlannerFollows
<1>6. CASE /\ Price(q) /\ ~ Unfactored(q) /\ runs' = runs
           /\ req' = [req EXCEPT ![q].at = "commit", ![q].status = "done"]
  <2>1. /\ req'[q].kind = req[q].kind /\ req'[q].at = "commit"
        /\ req'[q].run = req[q].run /\ req'[q].row = req[q].row
    BY <1>1, <1>6 DEF HandlersOnTrack, TypeOK, RequestRecord
  <2> QED
    BY <1>1, <1>3, <1>6, <2>1, PlannerFollows DEF Unfactored
<1> QED
  BY <1>2, <1>4, <1>5, <1>6 DEF RefusePlan, Price

\* The run is stored with the status the answer will speak of.
LEMMA CommitFollows ==
  ASSUME HandlersOnTrack, NEW q \in Request, Follows(q), CommitRun(q)
  PROVE  Follows(q)'
<1>1. /\ req'[q] = [req[q] EXCEPT !.at = "respond"] /\ req[q] \in RequestRecord
      /\ req[q].kind \in Planner /\ q \in Run
  BY GotoStep DEF CommitRun, Place, Run
<1>2. /\ req'[q].kind = req[q].kind /\ req'[q].at = "respond"
      /\ req'[q].run = req[q].run /\ req'[q].status = req[q].status
  BY <1>1 DEF RequestRecord
<1>3. runs'[q] = NewRun(q) /\ runs'[q] \notin Absent
  BY <1>1, NewRunFits, NullAssumption DEF CommitRun, HandlersOnTrack, TypeOK
<1>4. AnswerHolds(q)'
  BY <1>2, <1>3 DEF AnswerHolds, HasRun, NewRun
<1> QED
  BY <1>2, <1>4 DEF Follows, OriginHolds, FactorHolds

\* The answer agrees with it.
LEMMA RespondFollows ==
  ASSUME HandlersOnTrack, NEW q \in Request, Follows(q), RespondPlan(q)
  PROVE  Follows(q)'
<1>1. /\ req[q].kind \in Planner /\ q \in Run
      /\ runs[q] = Deleted \/ (HasRun(q) /\ runs[q].status = req[q].status)
  BY DEF RespondPlan, Follows, AnswerHolds, Run
<1>2. CASE req[q].status = "failed"
  BY <1>1, <1>2, AnswerFollows DEF RespondPlan, Reply, Absent
<1>3. CASE req[q].status # "failed"
  <2>1. WasDone(q)
    BY <1>1, <1>3 DEF WasDone, HandlersOnTrack, RunsFinished
  <2>2. Reject(q, "500") \/ Reject(q, "201")
    BY <1>3 DEF RespondPlan
  <2> QED
    BY <2>1, <2>2, AnswerFollows DEF Reply
<1> QED
  BY <1>2, <1>3

-----------------------------------------------------------------------------

\* Every handler's step, and what it leaves to the others.
LEMMA NextFollows ==
  ASSUME HandlersOnTrack, AnswersOnTrack, [Next]_vars, NEW q \in Request
  PROVE  Follows(q)'
<1>1. Follows(q)
  BY DEF AnswersOnTrack
<1>2. CASE UNCHANGED vars
  BY <1>1, <1>2, StillFollows DEF vars
<1>3. ASSUME NEW p \in Request \ {q}, Receive(p) \/ Step(p) \/ Fail(p) PROVE Follows(q)'
  BY <1>1, <1>3, OthersWait, StillFollows
<1>4. ASSUME Receive(q) \/ Step(q) \/ Fail(q) PROVE Follows(q)'
  <2>1. ASSUME Fail(q) PROVE Follows(q)'
    BY <2>1, AnswerFollows DEF Fail, Reply
  <2>2. ASSUME PlanStep(q) PROVE Follows(q)'
    BY <1>1, <2>2, ReadingFollows, InsertingFollows, RoutingFollows, CommitFollows,
       RespondFollows DEF PlanStep
  <2> QED
    BY <1>1, <1>4, <2>1, <2>2, ReceiveFollows, OtherMoves, OtherKinds
       DEF Step
<1>5. CASE Crash
  <2>1. \/ req'[q] = req[q]
        \/ req'[q].at = "lost" /\ req'[q].run = None
    BY <1>5 DEF Crash, Idle
  <2>2. CASE req'[q].at = "lost" /\ req'[q].run = None
    BY <2>2 DEF Follows, OriginHolds, FactorHolds, AnswerHolds
  <2> QED
    BY <1>1, <2>1, <2>2, StillFollows
<1> QED
  BY <1>2, <1>3, <1>4, <1>5, StepsByKind DEF Quiet

\* Runs are stored with a factor and a done origin, and both stay.
LEMMA NextStored ==
  ASSUME HandlersOnTrack, AnswersOnTrack, [Next]_vars
  PROVE  OriginsWereDone' /\ DoneRunsHadAFactor'
<1> DEFINE Stored(r) ==
      /\ runs[r].origin # None => WasDone(runs[r].origin)
      /\ runs[r].status = "done" =>
           /\ <<runs[r].snapshot.fuel, runs[r].snapshot.class>> \in FactorPair
           /\ runs[r].snapshot.ef # None
<1>1. ASSUME NEW r \in Run, HasRun(r)' PROVE Stored(r)'
  <2>1. runs'[r] \notin Absent /\ Unborn # Deleted
    BY <1>1, NullAssumption DEF HasRun
  <2>2. CASE HasRun(r)
    <3>1. /\ runs'[r].status = runs[r].status /\ runs'[r].snapshot = runs[r].snapshot
          /\ runs'[r].origin = runs[r].origin
      BY <2>1, <2>2, RunsStay DEF Absent
    <3>2. runs[r].origin # None => runs[r].origin \in Run /\ WasDone(runs[r].origin)
      BY <2>2 DEF AnswersOnTrack, OriginsWereDone, WasDone, HandlersOnTrack, TypeOK,
         HasRun, RunRow
    <3> QED
      BY <2>2, <3>1, <3>2, DoneStays DEF AnswersOnTrack, DoneRunsHadAFactor
  <2>3. CASE ~ HasRun(r)
    <3>1. r \in Request /\ CommitRun(r) /\ runs'[r] = NewRun(r)
      BY <2>1, <2>3, RunsStay DEF HasRun, Absent
    <3>2. Follows(r) /\ req[r].kind \in Planner /\ req[r].at = "commit" /\ WellFormed(r)
      BY <3>1 DEF AnswersOnTrack, CommitRun, HandlersOnTrack
    <3>3. req[r].run # None => req[r].run \in Run /\ WasDone(req[r].run)
      BY <3>2 DEF Follows, OriginHolds, WellFormed, Working, Planner
    <3> QED
      BY <3>1, <3>2, <3>3, DoneStays DEF NewRun, Follows, FactorHolds
  <2> QED
    BY <2>2, <2>3
<1> QED
  BY <1>1 DEF OriginsWereDone, DoneRunsHadAFactor, WasDone, HasRun

\* What is answered, and what is stored, stays true.
LEMMA NextAnswers ==
  HandlersOnTrack /\ AnswersOnTrack /\ [Next]_vars => AnswersOnTrack'
BY NextFollows, NextStored DEF AnswersOnTrack

-----------------------------------------------------------------------------

\* The handlers stay on track with what they say of runs.
THEOREM AnswersStayOnTrack == Spec => []AnswersOnTrack
<1> QED
  BY InitAnswers, NextAnswers, OnTrack, PTL DEF Spec

\* 201 is answered for a done run only, 400 and 404 for none, 503 for a failed
\* run or none, and none of it becomes false later, unless the run is deleted.
THEOREM AnswersAlwaysTrue == Spec => []AnswersTellTheTruth
<1>1. AnswersOnTrack => AnswersTellTheTruth
  BY DEF AnswersOnTrack, Follows, AnswerHolds, AnswersTellTheTruth, WasDone
<1> QED
  BY <1>1, AnswersStayOnTrack, PTL

\* A run is only ever recalculated from one that was done.
THEOREM OriginsAlwaysDone == Spec => []OriginsWereDone
<1>1. AnswersOnTrack => OriginsWereDone
  BY DEF AnswersOnTrack
<1> QED
  BY <1>1, AnswersStayOnTrack, PTL

\* No done run was priced without a factor, however its vehicle was changed
\* while it was planned.
THEOREM DoneRunsAlwaysPriced == Spec => []DoneRunsHadAFactor
<1>1. AnswersOnTrack => DoneRunsHadAFactor
  BY DEF AnswersOnTrack
<1> QED
  BY <1>1, AnswersStayOnTrack, PTL

------------------------------------------------------------------------------
(* Plates stay unique *)

\* A plate held by an uncommitted row is held by no other one, and no committed
\* row has it but the one that it will replace.
HeldApart(p, x) ==
  HoldsPlate(p, x) =>
    /\ \A q \in Request : HoldsPlate(q, x) => q = p
    /\ \A v \in Vehicle : HasVehicle(v) /\ vehicles[v].plate = x =>
         req[p].kind = "patchVehicle" /\ req[p].vehicle = v

\* A vehicle is in the table only after its handler's commit, and one that is
\* being deleted was seen there.
VehiclesSeen(q) ==
  /\ req[q].at \notin {"respond", "answered", "lost"} => vehicles[q] = Unborn
  /\ req[q].kind = "deleteVehicle" /\ req[q].at \in {"flush", "cascade", "commit"} =>
       vehicles[req[q].vehicle] # Unborn

PlatesHeld == \A p \in Request, x \in Plate : HeldApart(p, x)

\* The inductive invariant.
PlatesApart ==
  /\ \A q \in Request : VehiclesSeen(q)
  /\ PlatesHeld
  /\ PlatesUnique

\* No plate is held to begin with, and the fleet's differ.
LEMMA InitPlates == Init => PlatesApart
<1> SUFFICES ASSUME Init PROVE PlatesApart
  OBVIOUS
<1>1. Idle.at = "idle"
  BY DEF Idle
<1>2. \A p \in Request, x \in Plate : ~ HoldsPlate(p, x)
  BY <1>1 DEF Init, StoreInit, HoldsPlate
<1>3. \A v \in Vehicle : HasVehicle(v) => v \in DOMAIN Fleet /\ vehicles[v] = Fleet[v]
  BY DEF Init, StoreInit, HasVehicle, Absent
<1>4. PlatesUnique
  BY <1>3, SeedAssumption DEF PlatesUnique
<1>5. \A q \in Request : vehicles[q] = Unborn /\ req[q].at = "idle"
  BY <1>1, SeedAssumption DEF Init, StoreInit, Vehicle
<1> QED
  BY <1>2, <1>4, <1>5 DEF PlatesApart, PlatesHeld, HeldApart, VehiclesSeen

\* A step that takes no plate and changes none.
LEMMA NothingTaken ==
  ASSUME PlatesHeld, PlatesUnique,
         \A v \in Vehicle : HasVehicle(v)' =>
           HasVehicle(v) /\ vehicles'[v].plate = vehicles[v].plate,
         \A p \in Request, x \in Plate : HoldsPlate(p, x)' =>
           HoldsPlate(p, x) /\ req'[p].kind = req[p].kind /\ req'[p].vehicle = req[p].vehicle
  PROVE  PlatesHeld' /\ PlatesUnique'
BY DEF PlatesHeld, HeldApart, PlatesUnique

\* What a handler may do without taking a plate.
LEMMA OneHandler ==
  ASSUME PlatesHeld, PlatesUnique, NEW q \in Request,
         \A v \in Vehicle : HasVehicle(v)' =>
           HasVehicle(v) /\ vehicles'[v].plate = vehicles[v].plate,
         \A p \in Request \ {q} : req'[p] = req[p],
         \/ req'[q].at # "commit"
         \/ req'[q].kind \notin {"createVehicle", "patchVehicle"}
         \/ req'[q].kind = "patchVehicle" /\ "plate" \notin req'[q].cols
  PROVE  PlatesHeld' /\ PlatesUnique'
<1>1. \A x \in Plate : ~ HoldsPlate(q, x)'
  BY DEF HoldsPlate
<1>2. \A p \in Request \ {q}, x \in Plate : HoldsPlate(p, x)' <=> HoldsPlate(p, x)
  BY DEF HoldsPlate
<1> QED
  BY <1>1, <1>2, NothingTaken

\* The INSERT, and the UPDATE of a plate, find it free and take it.
LEMMA Taken ==
  ASSUME HandlersOnTrack, PlatesHeld, PlatesUnique, NEW q \in Request, NEW self \in Vehicle,
         vehicles' = vehicles, Goto(q, "commit"),
         req[q].kind \in {"createVehicle", "patchVehicle"},
         req[q].row.plate # None =>
           ~ PlateUndecided(q, req[q].row.plate) /\ ~ PlateTaken(req[q].row.plate, self),
         req[q].kind = "createVehicle" => ~ HasVehicle(self),
         req[q].kind = "patchVehicle" => self = req[q].vehicle
  PROVE  PlatesHeld' /\ PlatesUnique'
<1> DEFINE y == req[q].row.plate
<1>1. /\ \A p \in Request \ {q} : req'[p] = req[p]
      /\ req'[q] = [req[q] EXCEPT !.at = "commit"] /\ req[q] \in RequestRecord
  BY GotoStep DEF Place
<1>2. /\ req'[q].kind = req[q].kind /\ req'[q].vehicle = req[q].vehicle
      /\ req'[q].row = req[q].row
  BY <1>1 DEF RequestRecord
<1>3. \A p \in Request \ {q}, x \in Plate : HoldsPlate(p, x)' <=> HoldsPlate(p, x)
  BY <1>1 DEF HoldsPlate
<1>4. \A x \in Plate : HoldsPlate(q, x)' => x = y /\ y # None
  BY <1>2, NullAssumption DEF HoldsPlate
<1>5. ASSUME NEW x \in Plate, HoldsPlate(q, x)'
      PROVE  /\ \A p \in Request \ {q} : ~ HoldsPlate(p, x)
             /\ \A v \in Vehicle : HasVehicle(v) /\ vehicles[v].plate = x =>
                  req[q].kind = "patchVehicle" /\ req[q].vehicle = v
  <2>1. ~ PlateUndecided(q, x) /\ ~ PlateTaken(x, self)
    BY <1>4, <1>5
  <2> QED
    BY <2>1 DEF PlateUndecided, DecidesPlate, PlateTaken
<1>6. ASSUME NEW p \in Request, NEW x \in Plate PROVE HeldApart(p, x)'
  <2>1. \A v \in Vehicle : HasVehicle(v)' <=> HasVehicle(v)
    BY DEF HasVehicle
  <2>2. CASE p = q
    BY <1>2, <1>3, <1>5, <2>1, <2>2 DEF HeldApart
  <2>3. CASE p # q
    BY <1>1, <1>3, <1>5, <2>1, <2>3 DEF PlatesHeld, HeldApart
  <2> QED
    BY <2>2, <2>3
<1> QED
  BY <1>6 DEF PlatesHeld, PlatesUnique, HasVehicle

\* The commit of a row whose plate was held.
LEMMA Written ==
  ASSUME PlatesHeld, PlatesUnique, NEW q \in Request, NEW w \in Vehicle,
         req'[q].at = "respond",
         \A p \in Request \ {q} : req'[p] = req[p],
         \A v \in Vehicle \ {w} : vehicles'[v] = vehicles[v],
         HoldsPlate(q, vehicles'[w].plate), vehicles'[w].plate \in Plate \cup {None},
         req[q].kind = "patchVehicle" => req[q].vehicle = w
  PROVE  PlatesHeld' /\ PlatesUnique'
<1> DEFINE y == vehicles'[w].plate
<1>1. \A x \in Plate : ~ HoldsPlate(q, x)'
  BY DEF HoldsPlate
<1>2. \A p \in Request \ {q}, x \in Plate : HoldsPlate(p, x)' <=> HoldsPlate(p, x)
  BY DEF HoldsPlate
<1>3. \A v \in Vehicle \ {w} : HasVehicle(v)' <=> HasVehicle(v)
  BY DEF HasVehicle
<1>4. \A v \in Vehicle \ {w} : y # None /\ HasVehicle(v) => vehicles[v].plate # y
  BY DEF PlatesHeld, HeldApart
<1>5. PlatesUnique'
  BY <1>3, <1>4 DEF PlatesUnique
<1>6. \A p \in Request \ {q} : y # None => ~ HoldsPlate(p, y)
  BY DEF PlatesHeld, HeldApart
<1>7. ASSUME NEW p \in Request, NEW x \in Plate PROVE HeldApart(p, x)'
  <2>1. x # None
    BY NullAssumption
  <2>2. CASE p = q
    BY <1>1, <2>2 DEF HeldApart
  <2>3. CASE p # q /\ HoldsPlate(p, x)'
    <3>1. HoldsPlate(p, x) /\ x # y /\ req'[p] = req[p]
      BY <1>2, <1>6, <2>1, <2>3
    <3> QED
      BY <1>1, <1>2, <1>3, <2>3, <3>1 DEF PlatesHeld, HeldApart
  <2> QED
    BY <2>2, <2>3 DEF HeldApart
<1> QED
  BY <1>5, <1>7 DEF PlatesHeld

-----------------------------------------------------------------------------
(* The steps *)

\* Only the handlers of vehicles write vehicles.
LEMMA OthersWriteNone ==
  ASSUME NEW q \in Request, Receive(q) \/ RunStep(q) \/ PlanStep(q) \/ Fail(q)
  PROVE  vehicles' = vehicles
<1>1. CASE Receive(q)
  BY <1>1 DEF Receive, ReceiveVehicle, ReceiveCreateVehicle, ReceivePatchVehicle,
     ReceiveDeleteVehicle, ReceiveRun, ReceivePatchRun, ReceiveDeleteRun,
     ReceivePlanning, ReceivePlan, ReceiveRecalculate
<1>2. CASE RunStep(q)
  BY <1>2 DEF RunStep, ReadRun, UpdateRun, DeleteRunRows, CommitPatchedRun,
     CommitDeletedRun, RespondRun, Reject
<1>3. CASE PlanStep(q)
  BY <1>3 DEF PlanStep, ReadOriginal, ReadRoutes, ReadSegments, ReadVehicle,
     InsertRun, Routed, NothingRouted, RefusePlan, Price, CommitRun, RespondPlan, Reject
<1>4. CASE Fail(q)
  BY <1>4 DEF Fail, Reject
<1> QED
  BY <1>1, <1>2, <1>3, <1>4

\* And of those, only three commits.
LEMMA WritersOfVehicles ==
  ASSUME [Next]_vars
  PROVE  \/ vehicles' = vehicles
         \/ \E q \in Request :
              CommitNewVehicle(q) \/ CommitPatchedVehicle(q) \/ CommitDeletedVehicle(q)
<1>1. CASE UNCHANGED vars \/ Crash \/ Quiet
  BY <1>1 DEF vars, Crash, Quiet
<1>2. ASSUME NEW q \in Request, VehicleStep(q), ~ CommitNewVehicle(q),
             ~ CommitPatchedVehicle(q), ~ CommitDeletedVehicle(q)
      PROVE  vehicles' = vehicles
  BY <1>2 DEF VehicleStep, ResolveFactor, InsertVehicle, ReadPatched, UpdateVehicle,
     IndexPlate, RespondVehicle, ReadDoomedVehicle, DeleteVehicleRow, NullifyRuns,
     RespondDeletedVehicle, Reject
<1> QED
  BY <1>1, <1>2, OthersWriteNone, StepsByKind DEF Step

\* Planners stay planners and, once they have committed, only answer.
LEMMA PlanMoves ==
  ASSUME HandlersOnTrack, NEW q \in Request, PlanStep(q)
  PROVE  /\ req[q].kind \in Planner /\ req'[q].kind = req[q].kind
         /\ req[q].at \notin {"answered", "lost"}
         /\ req[q].at = "respond" => req'[q].at = "answered"
<1> DEFINE Moves ==
      /\ req'[q].kind = req[q].kind
      /\ req[q].at = "respond" => req'[q].at = "answered"
<1>1. req[q] \in RequestRecord /\ WellFormed(q)
  BY DEF HandlersOnTrack, TypeOK
<1>2. req[q].kind \in Planner /\ req[q].at \notin {"answered", "lost"}
  BY <1>1 DEF PlanStep, ReadOriginal, ReadRoutes, ReadSegments, ReadVehicle, InsertRun, Routed,
     NothingRouted, RefusePlan, Price, CommitRun, RespondPlan, WellFormed, PlannerPlace
<1> SUFFICES Moves
  BY <1>2
<1>3. ASSUME NEW code, Reject(q, code) PROVE Moves
  BY <1>3 DEF HandlersOnTrack, TypeOK, Reject, Answer, Idle
<1>4. CASE ReadOriginal(q) /\ ~ Reject(q, "404")
  BY <1>1, <1>4 DEF ReadOriginal, HandlersOnTrack, TypeOK, RequestRecord
<1>5. CASE ReadRoutes(q)
  BY <1>1, <1>5 DEF ReadRoutes, HandlersOnTrack, TypeOK, RequestRecord
<1>6. CASE ReadSegments(q) /\ ~ Reject(q, "400")
  BY <1>1, <1>6 DEF ReadSegments, HandlersOnTrack, TypeOK, RequestRecord
<1>7. CASE ReadVehicle(q) /\ req' = [req EXCEPT ![q].at = "insertRun",
                                                ![q].row = vehicles[req[q].vehicle]]
  BY <1>1, <1>7 DEF ReadVehicle, HandlersOnTrack, TypeOK, RequestRecord
<1>8. CASE InsertRun(q) /\ ~ Reject(q, "500")
  BY <1>1, <1>8 DEF InsertRun, Goto, HandlersOnTrack, TypeOK, RequestRecord
<1>9. CASE Routed(q)
  BY <1>1, <1>9 DEF Routed, HandlersOnTrack, TypeOK, RequestRecord
<1>10. CASE NothingRouted(q)
  BY <1>1, <1>10 DEF NothingRouted, HandlersOnTrack, TypeOK, RequestRecord
<1>11. CASE Price(q) /\ req' = [req EXCEPT ![q].at = "commit", ![q].status = "done"]
  BY <1>1, <1>11 DEF Price, HandlersOnTrack, TypeOK, RequestRecord
<1>12. CASE CommitRun(q)
  BY <1>1, <1>12 DEF CommitRun, Goto, HandlersOnTrack, TypeOK, RequestRecord
<1> HIDE DEF Moves
<1>13. CASE ReadVehicle(q)
  BY <1>3, <1>7, <1>13 DEF ReadVehicle
<1>14. CASE Price(q)
  BY <1>3, <1>11, <1>14 DEF Price
<1>15. CASE RefusePlan(q) \/ RespondPlan(q)
  BY <1>3, <1>15 DEF RefusePlan, RespondPlan
<1> QED
  BY <1>3, <1>4, <1>5, <1>6, <1>8, <1>9, <1>10, <1>12, <1>13, <1>14, <1>15 DEF PlanStep

\* A handler that was through stays so, and a vehicle is being deleted only
\* after it was seen.
LEMMA Advance ==
  ASSUME HandlersOnTrack, NEW q \in Request, Receive(q) \/ Step(q) \/ Fail(q)
  PROVE  /\ req[q].at \in {"respond", "answered", "lost"} => req'[q].at = "answered"
         /\ req'[q].kind = "deleteVehicle" /\ req'[q].at \in {"flush", "cascade", "commit"} =>
              /\ req[q].kind = "deleteVehicle" /\ req'[q].vehicle = req[q].vehicle
              /\ req[q].at \in {"flush", "cascade"} \/ HasVehicle(req[q].vehicle)
<1> DEFINE Sees ==
      /\ req[q].kind = "deleteVehicle" /\ req'[q].vehicle = req[q].vehicle
      /\ req[q].at \in {"flush", "cascade"} \/ HasVehicle(req[q].vehicle)
<1>1. req[q] \in RequestRecord
  BY DEF HandlersOnTrack, TypeOK
<1>2. CASE Receive(q)
  BY <1>2, ReceiveMoves
<1>3. ASSUME NEW code, Reject(q, code), Working(q)
      PROVE  req[q].at \notin {"answered", "lost"} /\ req'[q].at = "answered"
  BY <1>3 DEF HandlersOnTrack, TypeOK, Reject, Answer, Idle, Working
<1>4. CASE Fail(q)
  BY <1>3, <1>4 DEF Fail
<1>5. CASE RunStep(q) \/ PlanStep(q)
  <2>1. req[q].kind \in {"patchRun", "deleteRun"} \cup Planner
    BY <1>5, PlanMoves DEF RunStep, ReadRun, UpdateRun, DeleteRunRows, CommitPatchedRun,
       CommitDeletedRun, RespondRun
  <2> QED
    BY <1>5, <2>1, PlanMoves, OtherMoves DEF Planner
<1>6. CASE VehicleStep(q)
  <2>1. ASSUME req'[q].kind = "deleteVehicle", req'[q].at \in {"flush", "cascade", "commit"}
        PROVE  Sees
    <3>1. req[q].kind = "deleteVehicle"
      BY <1>6, <2>1, OtherMoves
    <3>2. ASSUME NEW place, Goto(q, place) PROVE req'[q].vehicle = req[q].vehicle /\ req'[q].at = place
      BY <1>1, <3>2 DEF HandlersOnTrack, TypeOK, Goto, RequestRecord
    <3>3. ASSUME NEW code, Reject(q, code) PROVE FALSE
      BY <2>1, <3>3 DEF HandlersOnTrack, TypeOK, Reject, Answer, Idle
    <3> QED
      BY <1>6, <2>1, <3>1, <3>2, <3>3 DEF VehicleStep, ResolveFactor, InsertVehicle,
         CommitNewVehicle, ReadPatched, UpdateVehicle, IndexPlate, CommitPatchedVehicle,
         RespondVehicle,
         ReadDoomedVehicle, DeleteVehicleRow, NullifyRuns, CommitDeletedVehicle,
         RespondDeletedVehicle
  <2> QED
    BY <1>6, <2>1, OtherMoves
<1> QED
  BY <1>2, <1>4, <1>5, <1>6 DEF Step

\* Rows of vehicles stay, or their marks do.
LEMMA VehiclesStay ==
  ASSUME HandlersOnTrack, PlatesApart, [Next]_vars, NEW v \in Vehicle
  PROVE  /\ vehicles[v] # Unborn => vehicles'[v] # Unborn
         /\ vehicles[v] = Unborn =>
              vehicles'[v] = Unborn \/ (v \in Request /\ CommitNewVehicle(v))
<1>1. \A row \in VehicleRow : row # Unborn
  BY NullAssumption DEF Absent
<1>2. CASE vehicles' = vehicles
  BY <1>2
<1>3. ASSUME NEW q \in Request, CommitNewVehicle(q) PROVE vehicles' = [vehicles EXCEPT ![q] = req[q].row] /\ req[q].row # Unborn
  BY <1>1, <1>3 DEF CommitNewVehicle, HandlersOnTrack, WellFormed
<1>4. ASSUME NEW q \in Request, CommitPatchedVehicle(q), vehicles'[v] # vehicles[v]
      PROVE  vehicles[v] # Unborn /\ vehicles'[v] # Unborn
  <2>1. req[q].vehicle = v /\ HasVehicle(v)
        /\ vehicles'[v] = Merged(vehicles[v], req[q].row, req[q].cols)
    BY <1>4 DEF CommitPatchedVehicle, HandlersOnTrack, TypeOK
  <2>2. req[q].row \in VehicleRow /\ vehicles[v] \in VehicleRow
    BY <1>4, <2>1 DEF CommitPatchedVehicle, HandlersOnTrack, WellFormed, TypeOK, HasVehicle
  <2> QED
    BY <1>1, <2>1, <2>2, MergedIsRow
<1>5. ASSUME NEW q \in Request, CommitDeletedVehicle(q), vehicles'[v] # vehicles[v]
      PROVE  vehicles[v] # Unborn /\ vehicles'[v] # Unborn
  <2>1. req[q].vehicle = v /\ vehicles'[v] = Deleted
    BY <1>5 DEF CommitDeletedVehicle, HandlersOnTrack, TypeOK
  <2> QED
    BY <1>5, <2>1, NullAssumption DEF CommitDeletedVehicle, PlatesApart, VehiclesSeen
<1> QED
  BY <1>2, <1>3, <1>4, <1>5, WritersOfVehicles DEF HandlersOnTrack, TypeOK

\* Who is through, and who is deleting, has been at the table.
LEMMA NextSeen ==
  ASSUME HandlersOnTrack, PlatesApart, [Next]_vars, NEW q \in Request
  PROVE  VehiclesSeen(q)'
<1>1. VehiclesSeen(q) /\ WellFormed(q) /\ q \in Vehicle
  BY DEF PlatesApart, HandlersOnTrack, Vehicle
<1>2. req[q].kind = "deleteVehicle" /\ Working(q) => req[q].vehicle \in Vehicle
  BY <1>1 DEF WellFormed
<1>3. CASE req'[q] = req[q]
  <2>1. ~ CommitNewVehicle(q)
    <3> SUFFICES ASSUME CommitNewVehicle(q) PROVE FALSE
      OBVIOUS
    <3>1. req'[q].at = "respond" /\ req[q].at = "commit"
      BY DEF CommitNewVehicle, HandlersOnTrack, TypeOK, RequestRecord
    <3> QED
      BY <1>3, <3>1
  <2> QED
    BY <1>1, <1>2, <1>3, <2>1, VehiclesStay DEF VehiclesSeen, Working
<1>4. CASE Receive(q) \/ Step(q) \/ Fail(q)
  <2>1. ASSUME req'[q].at \notin {"respond", "answered", "lost"} PROVE vehicles'[q] = Unborn
    <3>1. ~ CommitNewVehicle(q)
      BY <2>1 DEF CommitNewVehicle, HandlersOnTrack, TypeOK, RequestRecord
    <3>2. vehicles[q] = Unborn
      BY <1>1, <1>4, <2>1, Advance DEF VehiclesSeen
    <3> QED
      BY <1>1, <3>1, <3>2, VehiclesStay
  <2>2. ASSUME req'[q].kind = "deleteVehicle", req'[q].at \in {"flush", "cascade", "commit"}
        PROVE  vehicles'[req'[q].vehicle] # Unborn
    <3>1. /\ req[q].kind = "deleteVehicle" /\ req'[q].vehicle = req[q].vehicle
          /\ req[q].at \in {"flush", "cascade"} \/ HasVehicle(req[q].vehicle)
          /\ req[q].at \notin {"respond", "answered", "lost"}
      BY <1>4, <2>2, Advance
    <3>2. vehicles[req[q].vehicle] # Unborn /\ req[q].at # "idle"
      <4>1. req[q].at # "idle"
        <5>1. CASE Receive(q)
          BY <2>2, <5>1, ReceiveMoves
        <5>2. CASE VehicleStep(q) \/ RunStep(q)
          BY <5>2, OtherMoves
        <5>3. CASE PlanStep(q)
          BY <3>1, <5>3, PlanMoves DEF Planner
        <5>4. CASE Fail(q)
          BY <5>4 DEF Fail, Working
        <5> QED
          BY <1>4, <5>1, <5>2, <5>3, <5>4 DEF Step
      <4> QED
        BY <1>1, <3>1, <4>1 DEF VehiclesSeen, HasVehicle, Absent
    <3> QED
      BY <1>2, <3>1, <3>2, VehiclesStay DEF Working
  <2> QED
    BY <2>1, <2>2 DEF VehiclesSeen
<1>5. CASE Crash
  <2>1. req'[q] = req[q] \/ req'[q].at = "lost"
    BY <1>5 DEF Crash, Idle
  <2>2. CASE req'[q].at = "lost"
    BY <2>2 DEF VehiclesSeen
  <2> QED
    BY <1>3, <2>1, <2>2
<1>6. ASSUME NEW p \in Request \ {q}, Receive(p) \/ Step(p) \/ Fail(p)
      PROVE  req'[q] = req[q]
  BY <1>6, OthersWait
<1> QED
  BY <1>3, <1>4, <1>5, <1>6, StepsByKind DEF Quiet, vars

-----------------------------------------------------------------------------

\* The handlers of vehicles: two take a plate, two write one.
LEMMA VehicleStepPlates ==
  ASSUME HandlersOnTrack, PlatesApart, NEW q \in Request, VehicleStep(q)
  PROVE  PlatesHeld' /\ PlatesUnique'
<1>1. /\ req[q] \in RequestRecord /\ q \in Vehicle /\ WellFormed(q)
      /\ PlatesHeld /\ PlatesUnique /\ VehiclesSeen(q)
      /\ \A p \in Request \ {q} : req'[p] = req[p]
  BY OthersWait DEF HandlersOnTrack, TypeOK, Vehicle, PlatesApart, Step
<1>2. ASSUME vehicles' = vehicles, req'[q].at # "commit" \/ req[q].kind = "deleteVehicle"
      PROVE  PlatesHeld' /\ PlatesUnique'
  <2>1. req'[q].kind = req[q].kind
    BY OtherMoves
  <2>2. \A v \in Vehicle : HasVehicle(v)' =>
          HasVehicle(v) /\ vehicles'[v].plate = vehicles[v].plate
    BY <1>2 DEF HasVehicle
  <2> QED
    BY <1>1, <1>2, <2>1, <2>2, OneHandler
<1>3. ASSUME NEW code, Reject(q, code) PROVE PlatesHeld' /\ PlatesUnique'
  BY <1>2, <1>3 DEF Reject, Answer, Idle, HandlersOnTrack, TypeOK
<1>4. CASE InsertVehicle(q) /\ ~ Reject(q, "500")
  <2>1. ~ HasVehicle(q)
    BY <1>1, <1>4 DEF InsertVehicle, VehiclesSeen, HasVehicle, Absent
  <2> QED
    BY <1>1, <1>4, <2>1, Taken DEF InsertVehicle
<1>5. CASE UpdateVehicle(q) /\ ~ Reject(q, "500")
  <2>1. /\ req[q].kind = "patchVehicle" /\ req[q].vehicle \in Vehicle
        /\ vehicles' = vehicles
        /\ Goto(q, "index") \/ Goto(q, "commit")
    BY <1>1, <1>5 DEF UpdateVehicle, WellFormed, Working
  <2>2. \/ Goto(q, "index")
        \/ /\ Goto(q, "commit")
           /\ "plate" \notin req[q].cols \/ req[q].row.plate = None
    BY <1>5, <2>1 DEF UpdateVehicle
  <2>3. CASE Goto(q, "index")
    <3>1. req'[q].at # "commit"
      BY <1>1, <2>3 DEF Goto, HandlersOnTrack, TypeOK, RequestRecord
    <3> QED
      BY <1>2, <2>1, <3>1
  <2>4. CASE Goto(q, "commit") /\ "plate" \notin req[q].cols
    <3>1. /\ req'[q].kind = "patchVehicle" /\ req'[q].cols = req[q].cols
          /\ \A v \in Vehicle : HasVehicle(v)' =>
               HasVehicle(v) /\ vehicles'[v].plate = vehicles[v].plate
      BY <1>1, <2>1, <2>4 DEF Goto, HandlersOnTrack, TypeOK, RequestRecord, HasVehicle
    <3> QED
      BY <1>1, <2>4, <3>1, OneHandler
  <2>5. CASE Goto(q, "commit") /\ req[q].row.plate = None
    BY <1>1, <2>1, <2>5, Taken
  <2> QED
    BY <2>2, <2>3, <2>4, <2>5
<1>12. CASE IndexPlate(q) /\ ~ Reject(q, "500")
  <2>1. /\ req[q].kind = "patchVehicle" /\ req[q].vehicle \in Vehicle
        /\ vehicles' = vehicles /\ Goto(q, "commit")
        /\ ~ PlateUndecided(q, req[q].row.plate)
        /\ ~ PlateTaken(req[q].row.plate, req[q].vehicle)
    BY <1>1, <1>12 DEF IndexPlate, WellFormed, Working
  <2> QED
    BY <1>1, <2>1, Taken
<1>6. CASE CommitNewVehicle(q)
  <2>1. /\ req[q].row \in VehicleRow /\ vehicles' = [vehicles EXCEPT ![q] = req[q].row]
        /\ req[q].at = "commit" /\ req[q].kind = "createVehicle" /\ req'[q].at = "respond"
    BY <1>1, <1>6 DEF CommitNewVehicle, WellFormed, HandlersOnTrack, TypeOK, RequestRecord
  <2>2. /\ vehicles'[q] = req[q].row /\ \A v \in Vehicle \ {q} : vehicles'[v] = vehicles[v]
        /\ req[q].row.plate \in Plate \cup {None} /\ req[q].row # None
    BY <1>1, <2>1, NullAssumption DEF HandlersOnTrack, TypeOK, VehicleRow
  <2> QED
    BY <1>1, <2>1, <2>2, Written DEF HoldsPlate
<1>7. CASE CommitPatchedVehicle(q)
  <2> DEFINE w == req[q].vehicle
  <2>1. /\ w \in Vehicle /\ req[q].row \in VehicleRow /\ req[q].kind = "patchVehicle"
        /\ req[q].at = "commit" /\ req'[q].at = "respond"
        /\ \A v \in Vehicle \ {w} : vehicles'[v] = vehicles[v]
        /\ vehicles'[w] = IF HasVehicle(w) THEN Merged(vehicles[w], req[q].row, req[q].cols)
                          ELSE vehicles[w]
    BY <1>1, <1>7 DEF CommitPatchedVehicle, WellFormed, Working, HandlersOnTrack, TypeOK, Goto,
       RequestRecord
  <2>2. CASE HasVehicle(w) /\ "plate" \in req[q].cols
    <3>1. /\ vehicles'[w].plate = req[q].row.plate
          /\ req[q].row.plate \in Plate \cup {None} /\ req[q].row # None
      BY <2>1, <2>2, NullAssumption DEF Merged, VehicleRow
    <3> QED
      BY <1>1, <2>1, <2>2, <3>1, Written DEF HoldsPlate
  <2>3. CASE ~ (HasVehicle(w) /\ "plate" \in req[q].cols)
    <3>1. \A v \in Vehicle : HasVehicle(v)' =>
            HasVehicle(v) /\ vehicles'[v].plate = vehicles[v].plate
      BY <2>1, <2>3 DEF HasVehicle, Merged
    <3> QED
      BY <1>1, <2>1, <3>1, OneHandler
  <2> QED
    BY <2>2, <2>3
<1>8. CASE CommitDeletedVehicle(q)
  <2>1. \A v \in Vehicle : HasVehicle(v)' =>
          HasVehicle(v) /\ vehicles'[v].plate = vehicles[v].plate
    BY <1>8 DEF CommitDeletedVehicle, HandlersOnTrack, TypeOK, HasVehicle, Absent
  <2>2. req'[q].at = "respond"
    BY <1>1, <1>8 DEF CommitDeletedVehicle, Goto, HandlersOnTrack, TypeOK, RequestRecord
  <2> QED
    BY <1>1, <2>1, <2>2, OneHandler
<1>9. CASE ResolveFactor(q) \/ ReadPatched(q)
  <2>1. req'[q].at # "commit" /\ vehicles' = vehicles
    <3>1. ASSUME NEW code, Reject(q, code) PROVE req'[q].at # "commit" /\ vehicles' = vehicles
      BY <3>1 DEF Reject, Answer, Idle, HandlersOnTrack, TypeOK
    <3>2. CASE ResolveFactor(q) /\ ~ Reject(q, "400")
      BY <1>1, <3>2 DEF ResolveFactor, HandlersOnTrack, TypeOK, RequestRecord
    <3>3. CASE ReadPatched(q) /\ ~ Reject(q, "400") /\ ~ Reject(q, "404")
      <4>1. ASSUME NEW row, NEW cols,
                   req' = [req EXCEPT ![q].at = "flush", ![q].row = row, ![q].cols = cols]
            PROVE  req'[q].at # "commit"
        BY <1>1, <4>1 DEF HandlersOnTrack, TypeOK, RequestRecord
      <4> QED
        BY <3>3, <4>1, ReadPatchedMoves
    <3> QED
      BY <1>9, <3>1, <3>2, <3>3
  <2> QED
    BY <1>2, <2>1
<1>10. CASE DeleteVehicleRow(q) \/ NullifyRuns(q) \/ ReadDoomedVehicle(q)
  BY <1>2, <1>10 DEF DeleteVehicleRow, NullifyRuns, ReadDoomedVehicle, Reject
<1>11. CASE RespondVehicle(q) \/ RespondDeletedVehicle(q)
  BY <1>3, <1>11 DEF RespondVehicle, RespondDeletedVehicle
<1> QED
  BY <1>3, <1>4, <1>5, <1>6, <1>7, <1>8, <1>9, <1>10, <1>11, <1>12
     DEF VehicleStep, InsertVehicle, UpdateVehicle, IndexPlate

\* Plates are apart after every step.
LEMMA NextPlates == HandlersOnTrack /\ PlatesApart /\ [Next]_vars => PlatesApart'
<1> SUFFICES ASSUME HandlersOnTrack, PlatesApart, [Next]_vars PROVE PlatesHeld' /\ PlatesUnique'
  BY NextSeen DEF PlatesApart
<1>1. PlatesHeld /\ PlatesUnique
  BY DEF PlatesApart
<1>2. ASSUME vehicles' = vehicles
      PROVE  \A v \in Vehicle : HasVehicle(v)' =>
               HasVehicle(v) /\ vehicles'[v].plate = vehicles[v].plate
  BY <1>2 DEF HasVehicle
<1>3. CASE UNCHANGED vars \/ Quiet
  BY <1>1, <1>2, <1>3, NothingTaken DEF vars, Quiet, HoldsPlate
<1>4. CASE Crash
  <2>1. \A q \in Request : req'[q] = req[q] \/ req'[q].at = "lost"
    BY <1>4 DEF Crash, Idle
  <2>2. \A p \in Request, x \in Plate : HoldsPlate(p, x)' =>
          HoldsPlate(p, x) /\ req'[p].kind = req[p].kind /\ req'[p].vehicle = req[p].vehicle
    BY <2>1 DEF HoldsPlate
  <2> QED
    BY <1>1, <1>2, <1>4, <2>2, NothingTaken DEF Crash
<1>5. ASSUME NEW q \in Request, Receive(q) \/ RunStep(q) \/ PlanStep(q) \/ Fail(q)
      PROVE  PlatesHeld' /\ PlatesUnique'
  <2>1. \/ req'[q].at # "commit"
        \/ req'[q].kind \notin {"createVehicle", "patchVehicle"}
    <3>1. CASE Receive(q)
      BY <3>1, ReceiveMoves
    <3>2. CASE RunStep(q)
      <4>1. req[q].kind \in {"patchRun", "deleteRun"}
        BY <3>2 DEF RunStep, ReadRun, UpdateRun, DeleteRunRows, CommitPatchedRun,
           CommitDeletedRun, RespondRun
      <4> QED
        BY <3>2, <4>1, OtherMoves
    <3>3. CASE PlanStep(q)
      BY <3>3, PlanMoves DEF Planner
    <3>4. CASE Fail(q)
      BY <3>4 DEF Fail, Reject, Answer, Idle, HandlersOnTrack, TypeOK
    <3> QED
      BY <1>5, <3>1, <3>2, <3>3, <3>4
  <2>2. vehicles' = vehicles
    BY <1>5, OthersWriteNone
  <2>3. \A p \in Request \ {q} : req'[p] = req[p]
    BY <1>5, OthersWait DEF Step
  <2> QED
    BY <1>1, <1>2, <2>1, <2>2, <2>3, OneHandler
<1> QED
  BY <1>3, <1>4, <1>5, VehicleStepPlates, StepsByKind DEF Step

\* Plates stay apart with the handlers on track.
THEOREM PlatesStayApart == Spec => []PlatesApart
<1> QED
  BY InitPlates, NextPlates, OnTrack, PTL DEF Spec

\* No two vehicles ever have the same plate, however many creations, changes
\* and deletions overlap.
THEOREM PlatesAlwaysUnique == Spec => []PlatesUnique
<1>1. PlatesApart => PlatesUnique
  BY DEF PlatesApart
<1> QED
  BY <1>1, PlatesStayApart, PTL

------------------------------------------------------------------------------
(* Waits end, and handlers go forward *)

\* A step of a handler is taken only when it waits for nobody: WaitsFor is what
\* the guards of the statements say.
LEMMA WaitingHandlersStand ==
  ASSUME HandlersOnTrack, NEW q \in Request, NEW p \in Request, WaitsFor(q, p), Step(q)
  PROVE  FALSE
<1>1. WellFormed(q) /\ p \in Request \ {q}
  BY DEF HandlersOnTrack, WaitsFor
<1>2. CASE PlanStep(q)
  <2>1. InsertRun(q) => ~ (HasVehicle(req[q].vehicle) /\ LocksVehicleKey(p, req[q].vehicle))
    BY <1>1 DEF InsertRun
  <2>2. req[q].at \notin {"index", "cascade", "flush"}
    BY <1>1, <1>2 DEF PlanStep, ReadOriginal, ReadRoutes, ReadSegments, ReadVehicle,
       InsertRun, Routed, NothingRouted, RefusePlan, Price, CommitRun, RespondPlan
  <2>3. req[q].at = "insertRun" => InsertRun(q)
    BY <1>2 DEF PlanStep, ReadOriginal, ReadRoutes, ReadSegments, ReadVehicle,
       Routed, NothingRouted, RefusePlan, Price, CommitRun, RespondPlan
  <2> QED
    BY <2>1, <2>2, <2>3 DEF WaitsFor
<1>3. CASE RunStep(q)
  <2>1. /\ req[q].at = "flush" /\ req[q].kind = "patchRun" => UpdateRun(q)
        /\ req[q].at = "flush" /\ req[q].kind = "deleteRun" => DeleteRunRows(q)
        /\ req[q].kind \in {"patchRun", "deleteRun"}
    BY <1>3 DEF RunStep, ReadRun, UpdateRun, DeleteRunRows, CommitPatchedRun,
       CommitDeletedRun, RespondRun
  <2>2. req[q].at \notin {"index", "cascade", "insertRun"}
    BY <1>1, <2>1 DEF WellFormed, PlannerPlace, Planner
  <2>3. /\ UpdateRun(q) => ~ (req[q].labelled /\ HasRun(req[q].run) /\ WritesRun(p, req[q].run))
        /\ DeleteRunRows(q) => ~ WritesRun(p, req[q].run)
    BY <1>1 DEF UpdateRun, DeleteRunRows, RunUnlocked
  <2> QED
    BY <2>1, <2>2, <2>3 DEF WaitsFor
<1>4. CASE VehicleStep(q)
  <2>1. /\ req[q].at = "flush" /\ req[q].kind = "createVehicle" => InsertVehicle(q)
        /\ req[q].at = "flush" /\ req[q].kind = "patchVehicle" => UpdateVehicle(q)
        /\ req[q].at = "flush" /\ req[q].kind = "deleteVehicle" => DeleteVehicleRow(q)
        /\ req[q].at = "cascade" => NullifyRuns(q)
        /\ req[q].at = "index" => IndexPlate(q)
        /\ req[q].kind \in {"createVehicle", "patchVehicle", "deleteVehicle"}
    BY <1>4 DEF VehicleStep, ResolveFactor, InsertVehicle, CommitNewVehicle, ReadPatched,
       UpdateVehicle, IndexPlate, CommitPatchedVehicle, RespondVehicle, ReadDoomedVehicle,
       DeleteVehicleRow, NullifyRuns, CommitDeletedVehicle, RespondDeletedVehicle
  <2>2. req[q].at # "insertRun"
    BY <1>1, <2>1 DEF WellFormed, PlannerPlace, Planner
  <2>3. InsertVehicle(q) => ~ (req[q].row.plate # None /\ DecidesPlate(p, req[q].row.plate))
    BY <1>1 DEF InsertVehicle, PlateUndecided, DecidesPlate
  <2>4. UpdateVehicle(q) =>
          ~ (/\ req[q].cols # {}
             /\ \/ WritesVehicle(p, req[q].vehicle)
                \/ "plate" \in req[q].cols /\ Pins(p, req[q].vehicle))
    BY <1>1 DEF UpdateVehicle
  <2>5. DeleteVehicleRow(q) => ~ (WritesVehicle(p, req[q].vehicle) \/ Pins(p, req[q].vehicle))
    BY <1>1 DEF DeleteVehicleRow
  <2>6. NullifyRuns(q) =>
          ~ \E r \in Run : HasRun(r) /\ runs[r].vehicle = req[q].vehicle /\ WritesRun(p, r)
    BY <1>1 DEF NullifyRuns
  <2>7. IndexPlate(q) => ~ DecidesPlate(p, req[q].row.plate)
    BY <1>1 DEF IndexPlate, PlateUndecided
  <2> QED
    BY <2>1, <2>2, <2>3, <2>4, <2>5, <2>6, <2>7 DEF WaitsFor
<1> QED
  BY <1>2, <1>3, <1>4 DEF Step

\* Who is waited for holds a lock, and most who wait hold none: only a DELETE
\* that waits for the runs it changes, for who is at its commit, and an UPDATE
\* that waits to enter its plate do.
LEMMA WaitsGoDown ==
  ASSUME HandlersOnTrack, NEW q \in Request, NEW p \in Request, WaitsFor(q, p)
  PROVE  /\ req[q].at \in {"flush", "insertRun", "index", "cascade"}
         /\ req[p].at \in {"index", "cascade", "commit", "route", "price"}
         /\ req[q].at = "cascade" => req[p].at = "commit"
<1>1. req[q].at \in {"flush", "insertRun", "index", "cascade"}
  BY DEF WaitsFor
<1>2. \A x : DecidesPlate(p, x) => req[p].at \in {"index", "cascade", "commit"}
  BY DEF DecidesPlate, HoldsPlate, LocksVehicleKey, WritesVehicle
<1>3. \A v : /\ WritesVehicle(p, v) \/ LocksVehicleKey(p, v) =>
                  req[p].at \in {"index", "cascade", "commit"}
             /\ Pins(p, v) => req[p].at \in {"route", "price", "commit"}
  BY DEF LocksVehicleKey, WritesVehicle, Pins
<1>4. \A r : WritesRun(p, r) => req[p].at = "commit"
  BY DEF WritesRun
<1> QED
  BY <1>1, <1>2, <1>3, <1>4 DEF WaitsFor

\* For any number of requests, vehicles and runs, handlers that wait for each
\* other in a circle are all UPDATEs entering a plate: any other handler waits
\* for one that will end by itself, or for a handler in such a circle.
THEOREM CirclesAreOfPlates == Spec => []OnlyPlatesMakeCircles
<1>1. ASSUME HandlersOnTrack PROVE OnlyPlatesMakeCircles
  <2> SUFFICES ASSUME NEW S \in SUBSET Request, WaitsInCircle(S), NEW q \in S
               PROVE  req[q].at = "index"
    BY DEF OnlyPlatesMakeCircles
  <2>1. PICK p \in S : WaitsFor(q, p)
    BY DEF WaitsInCircle
  <2>2. PICK o \in S : WaitsFor(o, q)
    BY DEF WaitsInCircle
  <2>3. PICK n \in S : WaitsFor(p, n)
    BY DEF WaitsInCircle
  <2> QED
    BY <1>1, <2>1, <2>2, <2>3, WaitsGoDown
<1> QED
  BY <1>1, OnTrack, PTL

\* How far a handler has come.
Progress(place) ==
  CASE place = "idle" -> 0
    [] place \in {"readOriginal", "readRow"} -> 1
    [] place = "readRoutes" -> 2
    [] place = "readSegments" -> 3
    [] place = "readVehicle" -> 4
    [] place \in {"insertRun", "flush"} -> 5
    [] place \in {"route", "index", "cascade"} -> 6
    [] place = "price" -> 7
    [] place = "commit" -> 8
    [] place = "respond" -> 9
    [] place \in {"answered", "lost"} -> 10

\* Handler q stays where it is or goes further on, and its own steps take it
\* further on.
GoesForward(q) ==
  /\ req'[q].at = req[q].at \/ Progress(req'[q].at) > Progress(req[q].at)
  /\ Step(q) => Progress(req'[q].at) > Progress(req[q].at)

\* No handler goes back, whatever other handlers, exceptions and crashes do.
HandlersGoForward == [][\A q \in Request : GoesForward(q)]_vars

\* The places in numbers.
LEMMA ProgressIs ==
  /\ Progress("idle") = 0 /\ Progress("readOriginal") = 1 /\ Progress("readRow") = 1
  /\ Progress("readRoutes") = 2 /\ Progress("readSegments") = 3
  /\ Progress("readVehicle") = 4 /\ Progress("insertRun") = 5 /\ Progress("flush") = 5
  /\ Progress("route") = 6 /\ Progress("index") = 6 /\ Progress("cascade") = 6
  /\ Progress("price") = 7
  /\ Progress("commit") = 8 /\ Progress("respond") = 9
  /\ Progress("answered") = 10 /\ Progress("lost") = 10
BY DEF Progress

\* Request q goes further on, and no other goes anywhere.
Onward(q) == /\ Progress(req'[q].at) > Progress(req[q].at)
             /\ \A p \in Request \ {q} : req'[p] = req[p]

\* To go to a place, or to answer, is to go there alone.
LEMMA GoesAlone ==
  ASSUME TypeOK, NEW q \in Request
  PROVE  /\ req \in [Request -> RequestRecord] /\ req[q] \in RequestRecord
         /\ \A place : Goto(q, place) =>
              req'[q].at = place /\ \A p \in Request \ {q} : req'[p] = req[p]
         /\ \A code : Reject(q, code) =>
              req'[q].at = "answered" /\ \A p \in Request \ {q} : req'[p] = req[p]
<1>1. req \in [Request -> RequestRecord] /\ req[q] \in RequestRecord
  BY DEF TypeOK
<1>2. ASSUME NEW place, Goto(q, place)
      PROVE  req'[q].at = place /\ \A p \in Request \ {q} : req'[p] = req[p]
  BY <1>1, <1>2 DEF Goto, RequestRecord
<1>3. ASSUME NEW code, Reject(q, code)
      PROVE  req'[q].at = "answered" /\ \A p \in Request \ {q} : req'[p] = req[p]
  BY <1>1, <1>3 DEF Reject, Answer, Idle
<1> QED
  BY <1>1, <1>2, <1>3

\* A handler's step takes it further on.
LEMMA StepIsOnward ==
  ASSUME TypeOK, NEW q \in Request, Step(q)
  PROVE  Onward(q)
<1> USE ProgressIs, GoesAlone
<1>1. CASE PlanStep(q)
  <2>1. CASE ReadOriginal(q)
    BY <2>1 DEF ReadOriginal, Onward, RequestRecord
  <2>2. CASE ReadRoutes(q)
    BY <2>2 DEF ReadRoutes, Onward, RequestRecord
  <2>3. CASE ReadSegments(q)
    BY <2>3 DEF ReadSegments, Onward, RequestRecord
  <2>4. CASE ReadVehicle(q)
    BY <2>4 DEF ReadVehicle, Onward, RequestRecord
  <2>5. CASE InsertRun(q)
    BY <2>5 DEF InsertRun, Onward
  <2>6. CASE Routed(q)
    BY <2>6 DEF Routed, Onward, RequestRecord
  <2>7. CASE NothingRouted(q)
    BY <2>7 DEF NothingRouted, Onward, RequestRecord
  <2>8. CASE RefusePlan(q)
    BY <2>8 DEF RefusePlan, Onward
  <2>9. CASE Price(q)
    BY <2>9 DEF Price, Onward, RequestRecord
  <2>10. CASE CommitRun(q)
    BY <2>10 DEF CommitRun, Onward
  <2>11. CASE RespondPlan(q)
    BY <2>11 DEF RespondPlan, Onward
  <2> QED
    BY <1>1, <2>1, <2>2, <2>3, <2>4, <2>5, <2>6, <2>7, <2>8, <2>9, <2>10, <2>11 DEF PlanStep
<1>2. CASE RunStep(q)
  <2>1. CASE ReadRun(q)
    BY <2>1 DEF ReadRun, Onward
  <2>2. CASE UpdateRun(q)
    BY <2>2 DEF UpdateRun, Onward
  <2>3. CASE DeleteRunRows(q)
    BY <2>3 DEF DeleteRunRows, Onward
  <2>4. CASE CommitPatchedRun(q)
    BY <2>4 DEF CommitPatchedRun, Onward
  <2>5. CASE CommitDeletedRun(q)
    BY <2>5 DEF CommitDeletedRun, Onward
  <2>6. CASE RespondRun(q)
    BY <2>6 DEF RespondRun, Onward
  <2> QED
    BY <1>2, <2>1, <2>2, <2>3, <2>4, <2>5, <2>6 DEF RunStep
<1>3. CASE VehicleStep(q)
  <2>1. CASE ResolveFactor(q)
    BY <2>1 DEF ResolveFactor, Onward, RequestRecord
  <2>2. CASE InsertVehicle(q)
    BY <2>2 DEF InsertVehicle, Onward
  <2>3. CASE CommitNewVehicle(q)
    BY <2>3 DEF CommitNewVehicle, Onward, RequestRecord
  <2>4. CASE ReadPatched(q)
    <3>1. req[q].at = "readRow"
      BY <2>4 DEF ReadPatched
    <3>2. CASE Reject(q, "404") \/ Reject(q, "400")
      BY <3>1, <3>2 DEF Onward
    <3>3. CASE \E row, cols : req' = [req EXCEPT ![q].at = "flush", ![q].row = row,
                                                  ![q].cols = cols]
      <4>1. PICK row, cols : req' = [req EXCEPT ![q].at = "flush", ![q].row = row,
                                                 ![q].cols = cols]
        BY <3>3
      <4>2. req'[q].at = "flush" /\ \A p \in Request \ {q} : req'[p] = req[p]
        BY <4>1 DEF RequestRecord
      <4> QED
        BY <3>1, <4>2 DEF Onward
    <3> QED
      BY <2>4, <3>2, <3>3, ReadPatchedMoves
  <2>5. CASE UpdateVehicle(q)
    BY <2>5 DEF UpdateVehicle, Onward
  <2>13. CASE IndexPlate(q)
    BY <2>13 DEF IndexPlate, Onward
  <2>6. CASE CommitPatchedVehicle(q)
    BY <2>6 DEF CommitPatchedVehicle, Onward
  <2>7. CASE RespondVehicle(q)
    BY <2>7 DEF RespondVehicle, Onward
  <2>8. CASE ReadDoomedVehicle(q)
    BY <2>8 DEF ReadDoomedVehicle, Onward
  <2>9. CASE DeleteVehicleRow(q)
    BY <2>9 DEF DeleteVehicleRow, Onward
  <2>10. CASE NullifyRuns(q)
    BY <2>10 DEF NullifyRuns, Onward
  <2>11. CASE CommitDeletedVehicle(q)
    BY <2>11 DEF CommitDeletedVehicle, Onward
  <2>12. CASE RespondDeletedVehicle(q)
    BY <2>12 DEF RespondDeletedVehicle, Onward
  <2> QED
    BY <1>3, <2>1, <2>2, <2>3, <2>4, <2>5, <2>6, <2>7, <2>8, <2>9, <2>10, <2>11, <2>12, <2>13
       DEF VehicleStep
<1> QED
  BY <1>1, <1>2, <1>3 DEF Step

\* Every handler goes through finitely many places, none twice, whatever other
\* handlers, exceptions and crashes do: with OnlyPlatesMakeCircles, what
\* RequestsEnd rests on.
THEOREM HandlersAlwaysGoForward == Spec => HandlersGoForward
<1>1. ASSUME HandlersOnTrack, Next PROVE \A q \in Request : GoesForward(q)
  <2>1. TypeOK /\ req \in [Request -> RequestRecord]
    BY <1>1 DEF HandlersOnTrack, TypeOK
  <2>2. ASSUME NEW q \in Request, Step(q)
        PROVE  /\ Progress(req'[q].at) > Progress(req[q].at)
               /\ \A p \in Request \ {q} : req'[p] = req[p]
    BY <2>1, <2>2, StepIsOnward DEF Onward
  <2>3. SUFFICES ASSUME NEW q \in Request
                 PROVE  \/ req'[q].at = req[q].at
                        \/ Progress(req'[q].at) > Progress(req[q].at)
    BY <2>2 DEF GoesForward
  <2>4. CASE \E p \in Request : Step(p)
    BY <2>2, <2>4
  <2>5. CASE \E p \in Request : Fail(p)
    <3>1. PICK p \in Request : Working(p) /\ Answer(p, "500")
      BY <2>5 DEF Fail, Reject
    <3>2. req'[p].at = "answered" /\ \A o \in Request \ {p} : req'[o] = req[o]
      BY <2>1, <3>1 DEF Answer, Idle
    <3>3. req[p].at \in Place \ {"idle", "answered", "lost"}
      BY <2>1, <3>1 DEF Working, RequestRecord
    <3>4. Progress(req'[p].at) > Progress(req[p].at)
      BY <3>2, <3>3, ProgressIs DEF Place
    <3> QED
      BY <3>2, <3>4
  <2>6. CASE \E p \in Request : Receive(p)
    <3>1. PICK p \in Request : Receive(p)
      BY <2>6
    <3>2. /\ req[p].at = "idle" /\ \A o \in Request \ {p} : req'[o] = req[o]
          /\ req'[p].at \in {"readRow", "readVehicle", "readOriginal"}
      <4>1. req[p] \in RequestRecord
        BY <2>1
      <4>2. CASE ReceiveCreateVehicle(p)
        BY <2>1, <4>1, <4>2 DEF ReceiveCreateVehicle, RequestRecord
      <4>3. CASE ReceivePatchVehicle(p)
        BY <2>1, <4>1, <4>3 DEF ReceivePatchVehicle, RequestRecord
      <4>4. CASE ReceiveDeleteVehicle(p)
        BY <2>1, <4>1, <4>4 DEF ReceiveDeleteVehicle, RequestRecord
      <4>5. CASE ReceivePatchRun(p)
        BY <2>1, <4>1, <4>5 DEF ReceivePatchRun, RequestRecord
      <4>6. CASE ReceiveDeleteRun(p)
        BY <2>1, <4>1, <4>6 DEF ReceiveDeleteRun, RequestRecord
      <4>7. CASE ReceivePlan(p)
        BY <2>1, <4>1, <4>7 DEF ReceivePlan, RequestRecord
      <4>8. CASE ReceiveRecalculate(p)
        BY <2>1, <4>1, <4>8 DEF ReceiveRecalculate, RequestRecord
      <4> QED
        BY <3>1, <4>2, <4>3, <4>4, <4>5, <4>6, <4>7, <4>8
        DEF Receive, ReceiveVehicle, ReceiveRun, ReceivePlanning
    <3>3. Progress(req'[p].at) > Progress(req[p].at)
      BY <3>2, ProgressIs
    <3> QED
      BY <3>2, <3>3
  <2>7. CASE Crash
    <3>1. CASE ~ Working(q)
      BY <2>7, <3>1 DEF Crash
    <3>2. CASE Working(q)
      <4>1. req'[q].at = "lost"
        BY <2>7, <3>2 DEF Crash, Idle
      <4>2. req[q].at \in Place \ {"idle", "answered", "lost"}
        BY <2>1, <3>2 DEF Working, RequestRecord
      <4> QED
        BY <4>1, <4>2, ProgressIs DEF Place
    <3> QED
      BY <3>1, <3>2
  <2>8. CASE Quiet
    BY <2>8 DEF Quiet, vars
  <2> QED
    BY <1>1, <2>4, <2>5, <2>6, <2>7, <2>8, StepsByKind
<1>2. HandlersOnTrack /\ [Next]_vars => [\A q \in Request : GoesForward(q)]_vars
  BY <1>1
<1> QED
  BY <1>2, OnTrack, PTL DEF Spec, HandlersGoForward
==============================================================================

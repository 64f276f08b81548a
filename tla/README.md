# E.L.O. in TLA+

A formal model of E.L.O. (Eco Logistics Optimizer): the backend's handlers,
which plan routes, recalculate them for other vehicles and keep their history,
the VRP tours, the calls to the routing engines and what is computed from their
answers, the language-model agents, the state of the web page, and the script
that sets the database up.  TLC checks small
instances; TLAPS proves what matters most for every number of requests,
vehicles and runs.  Source references are relative to `src/`; `B/` stands for
`src/backend/src/`.

## 1. Inventory

| Part | State | Operations | Interacts by |
|---|---|---|---|
| Store (`B/core/db.py`, `B/models/`) | tables vehicles, runs, jobs, routes, route_segments, emission_factors, speed_bin_factors | one session and transaction per request, READ COMMITTED, foreign keys, unique plate | SQL, row locks |
| Vehicles (`B/services/vehicle_service.py`, `B/api/routers/vehicles.py`) | rows of vehicles | create, patch, delete (hard), snapshot | store |
| Run history (`B/services/run_service.py`, `B/api/routers/runs.py`) | rows of runs with jobs, routes, segments | create_run, finalize_run, get_run, patch, delete, list | store |
| P2P planning (`B/services/routing_service.py`) | its uncommitted run | execute_p2p | engines, CO2, narrative, store |
| VRP planning (`B/services/vrp_service.py`, `B/vrp/`) | its uncommitted run, matrix, results | execute_vrp, matrix, solver | ORS matrix, OR-Tools, store |
| What-if recalculation (`B/services/recalc_service.py`) | its uncommitted run, the original it read | recalculate_with_vehicle | store, narrative |
| Routing engines (`B/routing/`) | attempts of each call | get_all_routes, get_routes, elevation lookup | Kakao, ORS, Open-Elevation over HTTP |
| CO2 and scoring (`B/eco/`) | factor book (a snapshot) | calculate, speed_multiplier, score, rank | called by the planners |
| Language-model agents (`B/llm/`, `B/services/parse_service.py`) | one answer | plan, weights, constraints, narrative with validation, retry, template | Gemini |
| Listing, statistics | none | list_runs, summary | store |
| Web frontend (`frontend/src/`) | zustand store: vehicles, current run, history, loading flag | load, plan, replay, recalculate, delete | HTTP |
| Set-up (`B/scripts/init_db.py`, `backend/alembic/`, seeds) | the database server | role, database, migrations, seeds | psql, alembic |

What is hard about it:

* Every handler is a coroutine that holds one transaction open while it awaits
  other services for seconds.  Vehicles are hard deleted, patched and re-plated
  meanwhile; row locks make handlers wait for each other.
* A run is inserted as `running`, finalized and committed once; a crash or an
  exception may come at any point, and a client may delete the run between the
  commit and the answer.
* `get_run` is three SELECTs, each of which sees another committed state.
* Engines fail independently, time out and are retried; one of them has a
  fallback of its own, another a batched lookup after it.
* Indices counted from 0 and from 1, sums over nothing, spreads of nothing, and
  columns of limited width.
* A language model may answer anything; its answers are validated, asked for
  again, rescaled, or replaced.
* The page has several calls under way, whose answers come in any order.
* Seeds are committed one by one, and the script is run again after a failure.

What makes each part correct:

* store and history: a stored run is complete, refers to a vehicle that exists,
  never changes its content, and goes only when it is deleted;
* vehicles: plates unique, a factor for the pair of fuel and class;
* planners: the status code tells the truth about the run;
* VRP: a tour visits every job once, the cheapest is recommended;
* engines: one engine's failure costs nothing but its routes, calls are bounded;
* CO2: a factor is used, one multiplier applies, congestion is counted once, the
  recommendation is dominated by no candidate, another vehicle changes nothing
  but the factor, a plan is not lost to a value that does not fit;
* agents: what they hand on is valid, one's failure is its own;
* page: what is shown is a stored run, one plan at a time, waiting ends;
* set-up: a success is complete, what is left behind doubles no more than the
  days it was run on, and a reset is not refused for it;
* everything: each request ends.

`PROJECT.json` lists the hazards line by line with the properties that watch them.

## 2. Modules

| Module | Models | Used by |
|---|---|---|
| `Store` | committed rows, request records, row locks, answers, exceptions, crashes | the three services |
| `VehicleService` | POST, PATCH, DELETE of vehicles | `Backend` |
| `RunService` | PATCH, DELETE of runs | `Backend` |
| `Planning` | execute_p2p, execute_vrp, recalculate_with_vehicle | `Backend` |
| `Backend` | all handlers over one store; the properties | `MCBackend`, `Backend_proofs` |
| `RunLedger` | abstract specification: what the backend promises about runs | `Backend` (INSTANCE) |
| `Backend_proofs` | theorems about `Backend`, in four parts: the handlers' invariant, types, references and the ledger; what is read and answered of runs stays true; plates stay unique; no circle of waits but over plates, and no step back | |
| `Lists` | sums over a list, some elements of a list in their order | `VrpService`, `Eco`, `Lists_proofs` |
| `Lists_proofs` | lemmas about sums, picks, the first of the least, the greatest | `VrpService_proofs`, `Eco_proofs`, `Llm_proofs` |
| `VrpService` | what execute_vrp computes and stores | `MCVrp`, `VrpService_proofs` |
| `RoutingAdapter` | get_all_routes and its providers | `RoutingAdapter_proofs` |
| `Eco` | the engines' answers, segments, CO2, scores, the widths of columns, the CO2 of a recalculation | `MCEco`, `Eco_proofs` |
| `Llm` | the four agents, POST /parse and the narrative of a plan | `MCLlm`, `Llm_proofs` |
| `FrontendStore` | the store of the page, the calls of its panels, the backend as the page sees it | `FrontendStore_proofs` |
| `InitDb` | init_db.py with the migrations and seeds it applies | `InitDb_proofs` |
| `VrpService_proofs`, `Eco_proofs`, `RoutingAdapter_proofs`, `Llm_proofs`, `FrontendStore_proofs`, `InitDb_proofs` | theorems about those six | |
| `MCBackend`, `MCVrp`, `MCEco`, `MCLlm` | small instances | |

### How the state corresponds to the code

`Store` has three variables.  `vehicles` and `runs` are the **committed** rows;
an id that has no row yet is `Unborn`, one whose row is gone `Deleted` (ids come
from sequences and are not reused, so the row a request inserts is named after
the request).  `req` holds, for each request, the local variables of its
handler: what it names, the row it has read or will write (`row`), the columns
its UPDATE will set (`cols`), the routes and the status it will store, and
`at`, the statement it executes next.

The database runs in READ COMMITTED (PostgreSQL's default; `core/db.py` sets none),
`autoflush=False` and `expire_on_commit=False`.  What a handler has flushed but
not committed is therefore invisible to the others except through the locks it
holds, and those are functions of where the handler stands (`Pins`,
`WritesVehicle`, `LocksVehicleKey`, `WritesRun`, `HoldsPlate`): a foreign-key
check takes FOR KEY SHARE on the vehicle, an UPDATE of a key column or a DELETE
takes FOR UPDATE, ON DELETE SET NULL updates the runs.  An UPDATE of a plate
marks its row first (`UpdateVehicle`), and so makes the entry of the old plate
undecided, and only then enters the new plate in the unique index (`IndexPlate`),
where it may wait while it holds the row.  Two PATCHes that swap plates wait for
each other there: PostgreSQL's detector raises an error in a statement of such a
circle (`BreakDeadlock`, on `WaitsInCircle`), which no handler catches.  `Fail` (an exception
nobody handles, hence a rollback and a 500) and `Crash` (every open transaction
rolled back, no answers) can happen at any step.

One action is one statement with the Python between it and the next; what runs
between two statements without touching shared rows is part of the action
before or after it.  In `Planning`, all of a planner's work between inserting its
run and its commit that changes nothing shared is two actions, `Routed` (or
`NothingRouted`, or `RefusePlan` for what ends in a 400 or a 503 after the
insertion: for a VRP any ValueError) and `Price`; the modules `RoutingAdapter`, `Eco`, `VrpService`
and `Llm` open up what happens inside them.

Abstractions of data: fuel and class are kept only to decide which factor a
vehicle has; a run's routes are none, with segments, or `bare` (routes without
segment rows, as VRP runs and a p2p route without sections have); `priced` says
whether the CO2 of the routes was computed from distances rather than as the
sum over nothing; label and notes are one flag.  Model, year, narrative text,
weights and geometry are left out.

`VrpService` keeps the order of the loop over objectives, the solver's answer
(any tour or none: it is a search with a time limit), visit orders counted from
0 and the table keyed from 1 as they are in the code, and durations in units in
which only unreachable legs count.

`RoutingAdapter` takes one step per HTTP call and its answer.  An engine's record
says how often the current `_call` was tried in vain, how many calls were made
at all, and how far the elevation batches have come.

`Eco` follows one plan through execute_p2p (`Parse`, `Calculate`, `Recommend`,
`Persist`) and then through any number of recalculations.  All arithmetic is
over integers, in units (named at the top of the module) in which the products
of the code are exact; roundings below a hundredth are left out, except where
they decide something: a segment's speed is rounded, that of the fallback on
totals is not (`TotalsMultiplier`), and weights whose sum is off by exactly the
tolerance, which floats may put on either side, are accepted or refused
(`Excess`, `Recommend`).  An engine's
answer is a sequence of raw routes whose pieces carry what the parsers look at:
length, duration, the way up and down, the speed of the traffic, whether the name
of the road is long, and whether the geometry is a line, a point or an odd list of
numbers.  `Width` gives, for every numeric column of a route and of a segment, the
least figure it has no room for; `SegmentFits` and `RouteFits` decide whether a flush
raises, for a plan and for a recalculation.

`Llm` has one record of calls for each agent.  An answer is what its validation
makes of it: a set of weights, a set of numbers in a text, or something that does
not fit the schema, which needs no content.  A number of a text is written plainly,
in groups (1,234,567) or right after a letter, and what the guard's pattern reads of
it (`Reads`) is the number itself, two numbers, or the number without its first
digit.  The two agents of a parse are under
way at once.

`FrontendStore` has a slot for each call of the page.  A call is asked, served
(when the backend reads or changes its runs) and answered (when the page hears of
it), with anything in between; the buttons are reached by the keyboard though the history
is open.  Plans and recalculations then list the history
under the same flag, as the panels do.  The backend is one list of runs, each
with its mode, origin and status.  `Elsewhere` stands for other pages.

`InitDb` keeps, of the database, which objects exist and which seeds were applied,
the factors by the day they are valid from (their key).  Left out are the password
of a role that was there before, which may differ from the URL's, and the owner of
the database.  One action is one psql
or alembic process.

## 3. Runs

| Run | Question | Bounds |
|---|---|---|
| `history` | do stored runs stay complete, referenced, unchanged; is the ledger implemented | 3 requests (symmetric), 1 stored vehicle, 1 done and 1 failed stored run; p2p, recalculate, relabel, delete run, delete vehicle |
| `answers` | do plates stay unique, are runs priced with a factor, who can wait in a circle, does every request end; is the proofs' invariant true | 2 requests, all eight endpoints, 2 vehicles with a plate each and a third plate, one fuel x 2 classes of which one has no factor, fairness |
| `vrp_solve` | recommendation and response; when is a request lost | 2 jobs, up to 2 objectives, every matrix over 2 CO2 values and unreachable legs |
| `adapter_calls` | calls bounded, engines heard, elevations whole | both engines, 3 routes, 2 batches |
| `eco` | is the recommendation sound, congestion counted once, a plan kept, a recalculation comparable | up to 2 routes of each engine with degenerate geometries, grades of both signs and out of range, speeds at the ends of bins, figures on both sides of every width, 4 books, 7 sets of weights |
| `llm` | is what agents hand on valid, are failures contained | every sequence of answers over small sets of weights, numbers and sites |
| `frontend` | is what the page shows consistent, does waiting end | 2 calls under way, 2 runs, both modes, reloads, another page |
| `init_db` | is a success complete, is a re-run safe | 3 days, 4 copies of the bins, every option, interrupts anywhere, missing seeds |
| `factor`, `bare`, `vrp_visits`, `replay` | what the code does other than its documentation says: see section 6 | the smallest instance that shows it |

Why the bounds are enough.  The anomalies the store could show take at most two
writers and one reader.  In `history` three requests meet in every order (a
plan, a deletion of its vehicle, a recalculation of its run); the anomalies of
`answers` (a plate wanted twice, a change that overtakes a plan, plates swapped) take
two requests, or one request and what an earlier pair left behind, which its stored
vehicles cover: they have a plate each, a third is free.  A circle of waits needs two
lock holders for each pair of locks in question, and `answers` has every pair of
endpoints; the locks' exclusion, and what circles there are, is proved for any
number.  Two jobs already have tours of three legs, the fewest
that overflow a duration, and show the shifted indices; two objectives can tie,
differ, repeat, and fail separately.  Two elevation batches are the fewest of
which one can be in hand when another fails.  In `eco` two candidates can
dominate each other, tie, or agree in a dimension, and three can do so in pairs;
each arithmetic boundary of the code (ends of bins, the clamp of the grade, the
widths of the columns, closeness) has values on both of its sides.  `MCEco` narrows
the columns (`MCWidth`, in the proportions in which a few kilometres meet them) but
for the grade's, whose width is the table's; the theorem is about any widths.  Two calls of
the page can overtake one another, and what one leaves is met by a third.  Three
days let the script be refused, repaired and repeated; the bound on bins is one
more than the days.

Every property has a mutant of the model that breaks it: a definition next to
the one it replaces, its name telling the bug (`ReadVehicleUnchecked`,
`InsertVehicleUnindexed`, ...).

### Fairness

`Backend!Fairness` is weak fairness of the handlers' steps, taken together (less
than of each handler, and enough, since none goes round): the event loop resumes
a coroutine whose await has returned, calls of the routing engines have
timeouts, the solver a time limit, and PostgreSQL wakes a waiter when its lock
is free and, after `deadlock_timeout`, breaks a circle of waiters
(`BreakDeadlock`).  Calls of the language model have no timeout of their own
(`llm/client.py`): that they end is an assumption about the service, in
`Backend` and in `Llm!FairSpec`.  Strong fairness is not needed, since requests
are finitely many and nobody can take a lock from a waiter forever.  Nothing is
assumed of clients, exceptions and crashes.  `RoutingAdapter!FairSpec` is weak
fairness of each engine's calls and of the gathering; it needs no fairness of
success. `FrontendStore!FairSpec` says that the backend serves a call or the
connection breaks, and that the browser runs the callback of an answer; of the
user nothing is assumed.

CHECK_DEADLOCK is off for `VrpService`, `RoutingAdapter`, `Eco` and `Llm`, which
follow one request and end.  `Backend` has an action `Quiet` for the state in
which all requests are over, so a deadlock of handlers would be reported by each
of its runs; the page and the set-up script never stop.

## 4. Proofs

`Backend_proofs` proves, for all values of the constants that satisfy
`SeedAssumption` and `NullAssumption` (the rows stored before the first request
are consistent, NULL and the marks of absent rows are not rows):

* `OnTrack`: `Spec => []HandlersOnTrack`
* `TypesHold`, `RunsAlwaysFinished`, `VehicleReferencesAlwaysHold`: consequences of it
* `BackendImplementsLedger`: `Spec => LedgerSpec`
* `HistoryStaysFrozen`: `Spec => HistoryIsFrozen`

The argument.  `VehicleReferencesHold` is not inductive: that the commit of a run
does not create a dangling reference depends on the deletion of its vehicle
having waited.  `HandlersOnTrack` says why it has: whoever is between inserting a
run and committing it pins its vehicle's key, the vehicle pinned exists, and no
one else holds a conflicting lock (`LocksHold`).  That in turn depends on where
a handler of each kind can stand and what it carries there (`WellFormed`), and
`RunsFinished` on the routes fitting the status (`RoutesFit`).  `RowsSeen` makes
ids unique: the row of a planner appears with its own commit, and whoever
changes a run has seen it.

The proof is one lemma per action.  Most actions change only their handler's
record, so `LocalStep` reduces them to what that record must satisfy and
whether the locks it takes are free; `LocklessStep`, `GotoStep`, `RejectStep`
and `CommitStep` are its common cases.  `NextOnTrack` puts the cases together.
Refinement rests on `WritersOfRuns` (only four actions write runs) and one lemma
for the ledger step each of them is.

The second part of `Backend_proofs` builds on it and proves `AnswersStayOnTrack`
(`Spec => []AnswersOnTrack`), and from it `AnswersAlwaysTrue`, `OriginsAlwaysDone`
and `DoneRunsAlwaysPriced`.  A run is written by its own planner's commit and keeps
its status, snapshot and origin ever after, or is deleted for good (`RunsStay`); a
handler that does nothing sees what it saw (`OthersWait`).  So what a handler has
read of its origin (`OriginHolds`), the factor it has priced with (`FactorHolds`)
and what it has answered (`AnswerHolds`) stay true between its steps
(`StillFollows`), and each of its own steps carries them one place further
(`ReceiveMoves`, `ReadPatchedMoves`, `OtherMoves`).  `SeedAssumption` says of the
runs stored beforehand what is claimed of later ones: a done run had a factor.

Its third part proves `PlatesStayApart` (`Spec => []PlatesApart`) and
`PlatesAlwaysUnique`.  `PlatesUnique` is not inductive: two handlers might be about
to commit the same plate.  `HeldApart` says why they are not.  Whoever has flushed a
plate and not yet ended holds its entry of the index; no other holds it, and no
committed row has it but the one it is about to replace.  Who gives a plate up
decides about its entry as well, from the moment its row is marked.  A flush is refused or
waits otherwise, a commit turns the entry into a row, and a rollback or a crash
gives it up.  `VehiclesSeen` adds that a row being deleted was there, and that a row
being created is not there yet.

Its fourth part proves what `RequestsEnd` rests on, short of ENABLED and fairness.
`WaitsFor` says whose lock the next statement of a handler waits for; by
`WaitingHandlersStand` the guards of the statements agree, a handler that waits takes
no step.  `WaitsGoDown`: who waits at a flush or at the insertion of a run holds nothing, and a
DELETE that waits for runs while it holds its vehicle's key waits for someone who is
only left to commit: neither is in a circle.  What remains are UPDATEs entering a
plate.  Hence `CirclesAreOfPlates`, for any number of requests; and those circles
PostgreSQL breaks.  `HandlersAlwaysGoForward`: every step of a handler, a failure or a crash
takes it further on along its finitely many places (`Progress`) and no other
anywhere, so none can starve another by going round.

`RoutingAdapter_proofs` (under `AdapterAssumption`: for any number of routes and
of batches) proves `AdapterOnTrack` and from it `AdapterTyped`, `CallsStayBounded`
and `ElevationsNeverPartial`; `AnswersAreTaken` is an action property.  The
bound on the calls is not inductive: the invariant counts them by where an engine
is (`FirstAsked`, `AskedAgain`), so that the fallback of ORS starts with two calls
at most behind it.

`Llm_proofs` (under `PlanAssumption` and `SaidAssumption`, for any plans, weights
and texts) proves `AgentsStayOnTrack` and from it `AgentsTyped`,
`WeightsAlwaysAccepted`, `AgentsFailAlone` and `NarrativesOfTheirPlans`.  The
invariant says that who is still being asked has calls left (`AgentOnTrack`), that
nobody is asked but by the planner (`NeedsFollowPlanner`), and that the weights and
the text were accepted, or are the fallback (`WeightsFit`, `TextFits`).  A plan has
finitely many alternatives (`PlanAssumption`), so that its worst figure is one of
them (`WorstIsAFigure`, by `GreatestOfSet`).

`InitDb_proofs` (under `InitDbAssumption`, for any number of days and
invocations) proves `ScriptOnTrack` (`Spec => []Invariant`) and from it
`DatabaseTyped`, `SuccessAlwaysComplete`, `BinsAlwaysFollowFactors` and
`ResetAlwaysRunsThrough`.  Each property speaks of the end of a run; the
invariant says what every step finds: the database is there and migrated before
a seed is applied (`Reached`), the seeds come in the order in which they refer to
each other, and there are fewer bins than factors while bins are being added
(`SeedsInOrder`), and after a reset a step finds what the ones before it made and
no more, so none is refused (`CleanAfterReset`).  That a date was not seeded
before makes the set of factors larger by one (`FactorsCounted`), which is why
the bins never overtake it.

`FrontendStore_proofs` (for any number of calls under way and any number of runs)
proves `PageOnTrack` (`Spec => []Invariant`) and from it `PageTyped`,
`NeverTwoPlans` and `ShownAlwaysStored`; `HistoryGrowsByListing` is an action
property.  The invariant says that each flag stands for one call at most
(`FlagHolds`, kept by whatever changes one call: `FlagStep`, `CallStep`), that
what an answer under way brings is of the runs stored (`Fits`, which outlives
other steps since runs are added but never change: `Grows`), and so that what is
shown is stored whichever answer comes next.

`Lists_proofs` is what the next two rest on.  The code adds up lists and skips
elements of lists; `SumOf` and `Picked` are those loops, as recursive functions.
Induction theorems over data take an operator, which the provers cannot be given,
but least elements exist (`LeastNatural`, from the well-foundedness of `<`), and
so a set of naturals that holds 0 and grows by one holds all (`InductionOnSets`).
`RecursionUpTo` derives from it that a function defined from its value one before
exists; with it sums unfold (`SumUnfolds`), are numbers
(`SumOfIntegers`, `SumOfNaturals`), scale (`SumProportional`), keep an order
(`SumMonotone`) and count (`SumOfMarks`), and what is picked of a list comes from
it in its order (`PickedKeepsOrder`).

`VrpService_proofs` (under `VrpAssumption`: for any number of jobs, objectives,
any matrix and any answers of the solver) proves `VrpInvariant`
(`Spec => []VrpInv`) and from it `CheapestIsRecommended`, `ResponseMatchesTable`
and `LostToThreeLegs`.  While the objectives are solved, a row of the table has its
entry of the response with the same objective and CO2, nothing is recommended yet
(`InStep`), and `best` is a cheapest of the tours so far, or 0 if there is none
(`BestSoFar`): the properties speak of the end of the request only, and say nothing
of how it got there.  A request is lost when a duration overflows; a tour lasts as
long as it has unreachable legs (`DurationOfTour`), each counted once, whatever its
length, and the column holds two of them.

`Eco_proofs` (under `EcoAssumption`, which gives the answers, books, weights and
factors their types: what is measured is not negative, a weight is between 0 and 1)
proves `EcoInvariant` (`Spec => []EcoInv`) and from it `EcoTypeOK` and the five
properties that follow.  The invariant says what each stage leaves to the next: every
candidate was parsed from an answer (`Parsed`), every CO2 is the emission of its
candidate under the rows of the plan (`Priced`), the recommendation is the first
of the least scores (`Ranked`), a plan with a factor is lost to a misfit only
(`Misfit`), and a recalculation is priced from the same segments (`Redone`).

* `NoCandidateDominates`.  A dimension in which the candidates are close adds
  nothing to a score; in any other its share grows with the measure, and the spreads
  of the other two multiply it by a positive number.
* `OwnBinsOnly`.  The bin that counts is the first of the least lower ends among the
  hits (`OneCounts`).  Taking out rows that are no hits keeps the order of the
  rest, so the bin that counts stays the same row at another index.
* `LostToOnePiece`, for columns of any widths.  A segment tells its piece (`Tells`):
  a length, a duration, a speed, an elevation, a grade or a name that does not fit is
  that of a piece out of scale (`SegmentOfScaleFits`), totals are the engine's own, and
  the CO2 of a segment is no more than its route's (`SegmentWithinRoute`).  It says
  nothing of how large the engines' figures may be: with the widths of the table a
  route loses the plan from a speed of 10,000 km/h, a grade of 1000 % or a name of
  31 characters on, and the last two are within reach of real answers.
* `RecalculatedInProportion`, `RecalculatedNoWorse`.  An emission is its factor
  times a number that does not depend on it (`SegmentEmissionIs`, `EmissionsAre`),
  which sums preserve; the cheapest of what is repriced is no worse than the
  repriced recommendation.  A route without segments is repriced at 0, no more than
  what it was.
* `OneMultiplierEach`, about segments that move below the top of the table, has one
  hypothesis about the constants: `BooksTiled` (every
  range has its ends in order, one starts at rest, where one ends another goes on,
  two that overlap say the same).  Rows that leave a gap or
  contradict each other do give no multiplier or two: the code does not prevent
  them, the seeds (`backend/seeds/`) do not have any.  TLC checks the hypothesis of
  the books in `MCEco` (`SeededAssumption`): the seeded rows, the same
  read backwards, seeded twice, and split by engine.  The range that
  starts last before a speed holds it, since another would start where it ends
  (`TiledHits`).

Only model-checked: liveness (`RequestsEnd`, `RequestEnds`, `AllEnginesHeard`,
`LoadingEnds`), which is out of the prover's reach, since it does not treat ENABLED
and fairness (of `RequestsEnd`, what is proved is that nobody waits in circles but over
plates or goes back); and the four properties the code violates.

## 5. Plan

1. The composition of the page with the backend's handlers: `FrontendStore` takes
   an answer to be of a stored run, which `AnswersTellTheTruth` promises.
2. The safety halves of the other liveness properties, as done for `RequestsEnd`:
   that every step of an engine or an agent brings it nearer its end.

## 6. Where code and documentation differ

| Run | What it shows |
|---|---|
| `factor` | Two PATCHes of a vehicle, one of the fuel and one of the class, leave it with the factor of a third pair, though the factor is documented to follow the pair. |
| `bare` | Recalculating routes without segments stores 0 g of CO2, where the calculator falls back on totals. Every VRP run has such routes. |
| `vrp_visits` | Stored visit orders lack a job: the solver counts from 0, the lookup from 1. |
| `replay` | A VRP run of the history is replayed without its depot and jobs, and rendering it raises. |

Met while modelling, and described by the modules without a run of their own:

* `RecalculatedRunsArePriced` is violated in a second way: a run deleted while
  `get_run` reads it for a recalculation has routes without segments, or none
  (`Planning!ReadSegments`).
* Unreachable legs are meant to be "still strongly penalized" (`B/vrp/matrix.py:146`);
  three of them in a tour overflow the duration column and lose the request.
  `LostOnlyBeyondReach` says that fewer do not.
* A 429 of Kakao fails that engine at once (`RoutingAdapter!Rejected`), though
  `docs/PRD.md:1250` wants it retried once after 5 s; `NoAnswerIsQuestioned` allows
  either.
* A plan whose commit fails is answered with a 500, and its result is lost
  (`Store!Fail`); `docs/PRD.md:1258` wants the result with `persisted=false`, a field
  no response has.
* A 401 of Kakao is documented to fail the request, while the adapter lets the
  other engine's routes through (`AllEnginesHeard`).
* An invalid answer of the planner is documented to be asked for again and then
  replaced by rules (`docs/PRD.md:1255`); a second invalid one ends in a 500
  (`Llm!PlannerAnswers`).
* The elevation lookup is called best effort (`B/routing/elevation.py`), yet a
  grade it yields may not fit its column, which loses the plan (`PlanSurvives`).
* The head of `B/llm/validator.py` and `docs/PRD.md:1165` say that the numbers of a
  narrative match within 5 %; they are compared within 10 %, as the docstring of
  `validate_narrative` says, and numbers up to 100 pass (`Llm!NearAny`, `Llm!Valid`).
  A plan of 60,489 g may be told as 56,500 g.  `NarrativeIsOfThePlan` claims the 10 %.
* A figure written 1,234,567 is read as two, one written right after a letter
  without its first digit (`Llm!Reads`), so that a narrative that is true may be refused,
  and one that is not may pass: `NarrativeIsOfThePlan` speaks of plainly written numbers.
* `init_db.py` skips a seed whose file is missing with a warning and still ends as
  a success; `SuccessIsComplete` speaks of runs that find the files.
* `init_db.py` says it creates what is missing and can be run again; a second run
  on the same day is refused at the factors, which are unique by day, and one on
  another day doubles the bins (`BinsFollowFactors` says no more than that).
* The monthly savings (`B/services/stats_service.py:28`) count a route stored with
  0 g as a saving of the whole CO2 of its run.

## 7. Not modelled

Geocoding, the list of factors, health (stateless reads); pages and totals of
listings and the monthly statistics (queries without a state, whose totals no
client uses); configuration, logging and start-up; prompts; the forms of the page
(the place search, whose late answers may fill a field of the form, and parsed
weights that outlive the text they came from); map and card rendering.
`Store!SeedAssumption` states what the set-up leaves to the backend.  Time is not
modelled: `solver.solve` blocks the event loop for up to its time limit, which
delays other requests but stops none.

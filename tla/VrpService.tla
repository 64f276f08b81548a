------------------------------ MODULE VrpService ------------------------------
(***************************************************************************)
(* What execute_vrp (services/vrp_service.py) does between inserting its   *)
(* run and committing it: it has a matrix of the legs between the depot    *)
(* and the jobs, lets the solver (vrp/solver.py) find one tour for each    *)
(* objective, stores a route for each and recommends one of them.          *)
(*                                                                         *)
(* Node 0 is the depot, node n the job that was stored with seq n; a job   *)
(* is named by its seq.  The solver is a search with a time limit: it may  *)
(* return any tour, or none.  CO2 is in arbitrary units, durations in      *)
(* units of 10^8 seconds, in which every real leg rounds to nothing.       *)
(***************************************************************************)
EXTENDS Integers, Sequences, FiniteSets, Functions, Lists

CONSTANTS
  N,             \* the number of jobs
  Objective,     \* what a tour is optimised for
  MaxObjectives, \* bound: the objectives of one request
  LegCO2,        \* the CO2 a leg between two places may cause
  FarCO2         \* the CO2 computed for a leg the matrix service has no value for

ASSUME VrpAssumption ==
  /\ N \in Nat \ {0} /\ MaxObjectives \in Nat \ {0}
  /\ LegCO2 \subseteq Nat /\ FarCO2 \in Nat
  /\ \A c \in LegCO2 : c < FarCO2

Node == 0 .. N
Leg == {l \in Node \X Node : l[1] # l[2]}

\* Routes.total_duration_s is a 32-bit integer.
MaxDuration == 21

\* Mutant: one more zero.
FarDurationTenfold == 100

\* ... and a leg the matrix service has no value for gets 10^9 seconds.
FarDuration == 10

VARIABLES
  leg,      \* the CO2 of every leg
  todo,     \* the objectives not solved yet
  routes,   \* the rows of routes, in the order they were flushed
  results,  \* the entries of the response
  best,     \* the index of the best route so far, or 0
  phase     \* "solving", "done" or "lost"

vars == <<leg, todo, routes, results, best, phase>>

Init ==
  /\ leg \in [Leg -> LegCO2 \cup {FarCO2}]
  /\ todo \in UNION {[1 .. n -> Objective] : n \in 1 .. MaxObjectives}
  /\ routes = <<>> /\ results = <<>> /\ best = 0 /\ phase = "solving"

-----------------------------------------------------------------------------
(* The solver *)

Tours == {t \in [1 .. N -> 1 .. N] : IsInjective(t)}

\* What a tour costs, from the depot back to it, by the cost of each leg.
Total(cost, tour) ==
  LET path == <<0>> \o tour \o <<0>>
  IN SumOf([i \in 1 .. Len(path) - 1 |-> cost[<<path[i], path[i + 1]>>]])

Duration == [l \in Leg |-> IF leg[l] = FarCO2 THEN FarDuration ELSE 0]

NoSolution == [order |-> <<>>, duration |-> 0, co2 |-> 0, feasible |-> FALSE]

\* The visit order is given in job indices counted from 0.
Solution(tour) ==
  [order |-> [i \in 1 .. N |-> tour[i] - 1],
   duration |-> Total(Duration, tour),
   co2 |-> Total(leg, tour),
   feasible |-> TRUE]

-----------------------------------------------------------------------------
(* Storing what it found *)

\* The jobs of a visit order: job_ids_by_solver_idx has the keys 1 .. N, and
\* indices without a key are skipped.
Jobs(order) == Picked(order, {k \in DOMAIN order : order[k] \in 1 .. N})

\* Mutant: a route the solver did not find may be recommended.
BetterAnyway(found) ==
  best = 0 \/ found.co2 < routes[best].co2

Better(found) ==
  found.feasible /\ (best = 0 \/ found.co2 < routes[best].co2)

\* One turn of the loop over the objectives.  The flush of a route whose
\* duration does not fit its column raises, and everything is rolled back.
Solve ==
  /\ phase = "solving" /\ todo # <<>>
  /\ \E found \in {Solution(t) : t \in Tours} \cup {NoSolution} :
       IF found.duration > MaxDuration
         THEN /\ phase' = "lost" /\ routes' = <<>>
              /\ UNCHANGED <<todo, results, best>>
         ELSE /\ routes' = Append(routes,
                   [objective |-> Head(todo), visit |-> Jobs(found.order),
                    co2 |-> found.co2, recommended |-> FALSE])
              /\ results' = Append(results,
                   [objective |-> Head(todo), co2 |-> found.co2,
                    feasible |-> found.feasible, recommended |-> FALSE])
              /\ best' = IF Better(found) THEN Len(routes) + 1 ELSE best
              /\ todo' = Tail(todo)
              /\ UNCHANGED phase
  /\ UNCHANGED leg

\* Mutant: the results are matched by their CO2 alone.
MatchesByCO2(i) == results[i].co2 = routes[best].co2

Matches(i) ==
  /\ results[i].co2 = routes[best].co2
  /\ results[i].objective = routes[best].objective

\* After the loop: the best route is recommended, in the table and in the
\* response, the run is finalized as done and committed.
Recommend ==
  /\ phase = "solving" /\ todo = <<>>
  /\ IF best = 0
       THEN UNCHANGED <<routes, results>>
       ELSE /\ routes' = [routes EXCEPT ![best].recommended = TRUE]
            /\ results' = [i \in DOMAIN results |->
                 [results[i] EXCEPT !.recommended = Matches(i)]]
  /\ phase' = "done"
  /\ UNCHANGED <<leg, todo, best>>

Next == Solve \/ Recommend

Spec == Init /\ [][Next]_vars

-----------------------------------------------------------------------------
(* Safety *)

Feasible(i) == results[i].feasible
RecommendedRoutes == {i \in DOMAIN routes : routes[i].recommended}

\* Exactly one stored route is recommended, unless the solver found no tour
\* at all; it is a tour the solver found, and none of those it found causes
\* less CO2 (a result without a tour carries 0 g).
CheapestTourRecommended ==
  phase = "done" =>
    IF \A i \in DOMAIN routes : ~ Feasible(i)
      THEN RecommendedRoutes = {}
      ELSE \E i \in DOMAIN routes :
             /\ RecommendedRoutes = {i} /\ Feasible(i)
             /\ \A j \in DOMAIN routes : Feasible(j) => routes[i].co2 <= routes[j].co2

\* The response recommends what the table recommends: the same objective
\* with the same CO2 (twice if the client asked for an objective twice).
ResponseAgrees ==
  phase = "done" => \A i \in DOMAIN results :
    /\ routes[i].recommended => results[i].recommended
    /\ results[i].recommended =>
         \E j \in RecommendedRoutes :
           /\ routes[j].objective = results[i].objective
           /\ routes[j].co2 = results[i].co2

\* The durations given to unreachable legs add up within the column, up to two
\* of them: a tour that avoids the others, as a single unreachable job allows,
\* is stored, and the request does not end in a 500.
LostOnlyBeyondReach ==
  phase = "lost" =>
    \E t \in Tours :
      LET path == <<0>> \o t \o <<0>>
      IN Cardinality({i \in 1 .. N + 1 : leg[<<path[i], path[i + 1]>>] = FarCO2}) > 2

-----------------------------------------------------------------------------
(* What the documentation says and the code does not do *)

\* visit_order lists the jobs in visit sequence, the depot excluded
\* (vrp/schemas.py): a stored route that is a tour visits every job.
VisitsEveryJob ==
  \A i \in DOMAIN routes : Feasible(i) =>
    {routes[i].visit[k] : k \in DOMAIN routes[i].visit} = 1 .. N
=============================================================================

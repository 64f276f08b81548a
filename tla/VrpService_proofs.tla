--------------------------- MODULE VrpService_proofs ---------------------------
(***************************************************************************)
(* Theorems about VrpService: the recommendation, the response and the     *)
(* durations, for any number of jobs and objectives and any CO2 of a leg.  *)
(***************************************************************************)
EXTENDS VrpService, Lists_proofs

Route == [objective : Objective, visit : Seq(Nat), co2 : Nat, recommended : BOOLEAN]
Entry == [objective : Objective, co2 : Nat, feasible : BOOLEAN, recommended : BOOLEAN]

\* While the objectives are solved, a row has its entry, and neither is
\* recommended yet.
InStep ==
  /\ Len(results) = Len(routes)
  /\ \A i \in DOMAIN routes :
       /\ results[i].objective = routes[i].objective /\ results[i].co2 = routes[i].co2
       /\ ~ routes[i].recommended /\ ~ results[i].recommended

\* The best so far is a cheapest of the tours found so far.
BestSoFar ==
  IF best = 0 THEN \A i \in DOMAIN routes : ~ Feasible(i)
  ELSE /\ best \in DOMAIN routes /\ Feasible(best)
       /\ \A j \in DOMAIN routes : Feasible(j) => routes[best].co2 <= routes[j].co2

\* The inductive invariant.
VrpInv ==
  /\ leg \in [Leg -> Nat] /\ todo \in Seq(Objective)
  /\ routes \in Seq(Route) /\ results \in Seq(Entry) /\ best \in Nat
  /\ phase \in {"solving", "done", "lost"}
  /\ phase = "solving" => InStep /\ BestSoFar
  /\ CheapestTourRecommended /\ ResponseAgrees /\ LostOnlyBeyondReach

-----------------------------------------------------------------------------
(* Tours *)

Path(tour) == <<0>> \o tour \o <<0>>

\* A tour starts and ends at the depot, and never stays where it is.
LEMMA LegsOfTour ==
  ASSUME NEW t \in Tours
  PROVE  /\ Len(Path(t)) = N + 2
         /\ \A i \in 1 .. N + 1 : <<Path(t)[i], Path(t)[i + 1]>> \in Leg
<1>1. N \in Nat /\ N # 0
  BY VrpAssumption
<1>2. t \in [1 .. N -> 1 .. N] /\ \A a, b \in 1 .. N : t[a] = t[b] => a = b
  BY DEF Tours, IsInjective
<1>3. t \in Seq(Nat) /\ Len(t) = N
  BY <1>1, <1>2
<1>4. Path(t) = <<0>> \o t \o <<0>> /\ Len(Path(t)) = N + 2
  BY <1>1, <1>3 DEF Path
<1>5. /\ Path(t)[1] = 0 /\ Path(t)[N + 2] = 0
      /\ \A i \in 2 .. N + 1 : Path(t)[i] = t[i - 1]
  BY <1>1, <1>3, <1>4
<1>6. ASSUME NEW i \in 1 .. N + 1 PROVE <<Path(t)[i], Path(t)[i + 1]>> \in Leg
  <2>1. CASE i = 1
    BY <1>1, <1>2, <1>5, <2>1 DEF Leg, Node
  <2>2. CASE i = N + 1
    BY <1>1, <1>2, <1>5, <2>2 DEF Leg, Node
  <2>3. CASE i \in 2 .. N
    <3>1. Path(t)[i] = t[i - 1] /\ Path(t)[i + 1] = t[i]
      BY <1>1, <1>5, <2>3
    <3>2. i - 1 \in 1 .. N /\ i \in 1 .. N /\ i - 1 # i
      BY <1>1, <2>3
    <3>3. t[i - 1] \in 1 .. N /\ t[i] \in 1 .. N /\ t[i - 1] # t[i]
      BY <1>2, <3>2
    <3> QED
      BY <1>1, <3>1, <3>3 DEF Leg, Node
  <2> QED
    BY <1>1, <2>1, <2>2, <2>3
<1> QED
  BY <1>4, <1>6

\* What a tour costs is the sum over its legs.
LEMMA TotalIsSum ==
  ASSUME NEW t \in Tours, NEW cost
  PROVE  Total(cost, t) = SumOf([i \in 1 .. N + 1 |-> cost[<<Path(t)[i], Path(t)[i + 1]>>]])
<1>1. N \in Nat /\ Len(Path(t)) - 1 = N + 1
  BY VrpAssumption, LegsOfTour
<1> QED
  BY <1>1 DEF Total, Path

\* The CO2 of a tour is a number.
LEMMA TotalIsNatural ==
  ASSUME NEW t \in Tours, NEW cost \in [Leg -> Nat]
  PROVE  Total(cost, t) \in Nat
<1> DEFINE costs == [i \in 1 .. N + 1 |-> cost[<<Path(t)[i], Path(t)[i + 1]>>]]
<1>1. costs \in Seq(Nat)
  <2>1. N + 1 \in Nat /\ \A i \in 1 .. N + 1 : cost[<<Path(t)[i], Path(t)[i + 1]>>] \in Nat
    BY VrpAssumption, LegsOfTour
  <2>2. costs \in [1 .. N + 1 -> Nat]
    BY <2>1
  <2> HIDE DEF costs
  <2> QED
    BY <2>1, <2>2, FunctionIsList
<1> HIDE DEF costs
<1> QED
  BY <1>1, TotalIsSum, SumOfNaturals DEF costs

\* The legs of a tour that the matrix service has no value for.
FarLegs(t) == {i \in 1 .. N + 1 : leg[<<Path(t)[i], Path(t)[i + 1]>>] = FarCO2}

\* A tour lasts as long as those of its legs, to the unit.
LEMMA DurationOfTour ==
  ASSUME NEW t \in Tours
  PROVE  /\ Cardinality(FarLegs(t)) \in Nat
         /\ Total(Duration, t) = FarDuration * Cardinality(FarLegs(t))
<1> DEFINE lasts == [i \in 1 .. N + 1 |-> Duration[<<Path(t)[i], Path(t)[i + 1]>>]]
           each == FarDuration
<1>1. N + 1 \in Nat /\ FarLegs(t) \in SUBSET (1 .. N + 1)
  BY VrpAssumption DEF FarLegs
<1>2. \A i \in 1 .. N + 1 : lasts[i] = IF i \in FarLegs(t) THEN each ELSE 0
  BY LegsOfTour DEF Duration, FarLegs
<1>3. each \in Int
  BY DEF FarDuration
<1>4. lasts \in Seq(Int) /\ Len(lasts) = N + 1
  <2>1. \A i \in 1 .. N + 1 : Duration[<<Path(t)[i], Path(t)[i + 1]>>] \in Int
    BY LegsOfTour DEF Duration, FarDuration
  <2>2. lasts \in [1 .. N + 1 -> Int]
    BY <2>1
  <2> HIDE DEF lasts
  <2> QED
    BY <1>1, <2>2, FunctionIsList
<1> HIDE DEF lasts, each
<1>5. Cardinality(FarLegs(t)) \in Nat /\ SumOf(lasts) = each * Cardinality(FarLegs(t))
  BY <1>1, <1>2, <1>3, <1>4, SumOfMarks
<1> QED
  BY <1>5, TotalIsSum DEF lasts, each

\* Whatever the solver returns fits the columns, but for the duration.
LEMMA FoundIsTyped ==
  ASSUME leg \in [Leg -> Nat],
         NEW found \in {Solution(t) : t \in Tours} \cup {NoSolution}
  PROVE  /\ Jobs(found.order) \in Seq(Nat)
         /\ found.co2 \in Nat /\ found.feasible \in BOOLEAN
<1>1. ASSUME NEW order \in Seq(Nat) PROVE Jobs(order) \in Seq(Nat)
  <2> DEFINE kept == {k \in DOMAIN order : order[k] \in 1 .. N}
  <2> HIDE DEF kept
  <2>1. Picked(order, kept) \in Seq(Nat)
    BY PickedKeepsOrder
  <2> QED
    BY <2>1 DEF Jobs, kept
<1>2. CASE found = NoSolution
  <2>1. found.order = << >> /\ found.co2 = 0 /\ found.feasible = FALSE
    BY <1>2 DEF NoSolution
  <2>2. << >> \in Seq(Nat) /\ 0 \in Nat /\ FALSE \in BOOLEAN
    OBVIOUS
  <2>3. Jobs(<< >>) \in Seq(Nat)
    BY <1>1, <2>2
  <2> QED
    BY <2>1, <2>2, <2>3, Zenon
<1>3. CASE \E t \in Tours : found = Solution(t)
  <2>1. PICK t \in Tours : found = Solution(t)
    BY <1>3
  <2>2. found.order \in Seq(Nat)
    <3>1. N \in Nat /\ \A i \in 1 .. N : t[i] - 1 \in Nat
      BY VrpAssumption DEF Tours
    <3>2. [i \in 1 .. N |-> t[i] - 1] \in Seq(Nat)
      BY <3>1
    <3> QED
      BY <2>1, <3>2 DEF Solution
  <2>3. found.co2 = Total(leg, t) /\ found.feasible = TRUE
    BY <2>1 DEF Solution
  <2> QED
    BY <1>1, <2>2, <2>3, TotalIsNatural
<1> QED
  BY <1>2, <1>3

-----------------------------------------------------------------------------
(* The invariant *)

\* A request begins with nothing solved.
LEMMA InitVrp == Init => VrpInv
<1> SUFFICES ASSUME Init PROVE VrpInv
  OBVIOUS
<1>1. leg \in [Leg -> Nat]
  BY VrpAssumption DEF Init
<1>2. todo \in Seq(Objective)
  <2>1. PICK n \in 1 .. MaxObjectives : todo \in [1 .. n -> Objective]
    BY DEF Init
  <2>2. n \in Nat
    BY VrpAssumption
  <2> QED
    BY <2>1, <2>2
<1>3. /\ routes = << >> /\ results = << >> /\ best = 0 /\ phase = "solving"
      /\ DOMAIN routes = {} /\ Len(routes) = 0 /\ Len(results) = 0
  BY DEF Init
<1> QED
  BY <1>1, <1>2, <1>3 DEF VrpInv, InStep, BestSoFar, CheapestTourRecommended,
     ResponseAgrees, LostOnlyBeyondReach

\* A route that fits is stored next to the others, and may be the best now.
LEMMA SolveStored ==
  ASSUME VrpInv, phase = "solving", todo # << >>,
         NEW found \in {Solution(t) : t \in Tours} \cup {NoSolution},
         routes' = Append(routes,
                   [objective |-> Head(todo), visit |-> Jobs(found.order),
                    co2 |-> found.co2, recommended |-> FALSE]),
         results' = Append(results,
                   [objective |-> Head(todo), co2 |-> found.co2,
                    feasible |-> found.feasible, recommended |-> FALSE]),
         best' = IF Better(found) THEN Len(routes) + 1 ELSE best,
         todo' = Tail(todo), UNCHANGED <<phase, leg>>
  PROVE  VrpInv'
<1>1. /\ leg \in [Leg -> Nat] /\ todo \in Seq(Objective)
      /\ routes \in Seq(Route) /\ results \in Seq(Entry) /\ best \in Nat
      /\ InStep /\ BestSoFar
  BY DEF VrpInv
<1>2. Head(todo) \in Objective /\ Tail(todo) \in Seq(Objective)
  BY <1>1
<1>3. Jobs(found.order) \in Seq(Nat) /\ found.co2 \in Nat /\ found.feasible \in BOOLEAN
  BY <1>1, FoundIsTyped
<1> DEFINE row == [objective |-> Head(todo), visit |-> Jobs(found.order),
                   co2 |-> found.co2, recommended |-> FALSE]
           entry == [objective |-> Head(todo), co2 |-> found.co2,
                     feasible |-> found.feasible, recommended |-> FALSE]
<1>4. row \in Route /\ entry \in Entry
  BY <1>2, <1>3 DEF Route, Entry
<1>5. /\ row.objective = entry.objective /\ row.co2 = entry.co2 /\ ~ row.recommended /\ ~ entry.recommended
      /\ row.co2 = found.co2 /\ entry.feasible = found.feasible
  OBVIOUS
<1>6. routes' = Append(routes, row) /\ results' = Append(results, entry)
  OBVIOUS
<1> HIDE DEF row, entry
<1>7. PICK n \in Nat :
      /\ n = Len(routes) /\ Len(results) = n /\ DOMAIN routes = 1 .. n
      /\ routes' \in Seq(Route) /\ results' \in Seq(Entry)
      /\ Len(routes') = n + 1 /\ Len(results') = n + 1 /\ DOMAIN routes' = 1 .. n + 1
      /\ routes'[n + 1] = row /\ results'[n + 1] = entry
      /\ \A i \in 1 .. n : routes'[i] = routes[i] /\ results'[i] = results[i]
  <2>1. /\ Len(routes) \in Nat /\ Len(results) = Len(routes) /\ DOMAIN routes = 1 .. Len(routes)
        /\ routes' \in Seq(Route) /\ Len(routes') = Len(routes) + 1
        /\ routes'[Len(routes) + 1] = row
        /\ \A i \in 1 .. Len(routes) : routes'[i] = routes[i]
    BY <1>1, <1>4, <1>6 DEF InStep
  <2>2. /\ results' \in Seq(Entry) /\ Len(results') = Len(results) + 1
        /\ results'[Len(results) + 1] = entry
        /\ \A i \in 1 .. Len(results) : results'[i] = results[i]
    BY <1>1, <1>4, <1>6
  <2>3. DOMAIN routes' = 1 .. Len(routes) + 1
    BY <2>1
  <2> QED
    BY <2>1, <2>2, <2>3
<1>8. \A i \in 1 .. n + 1 : i \in 1 .. n \/ i = n + 1
  BY <1>7
<1>9. InStep'
  BY <1>1, <1>5, <1>7, <1>8 DEF InStep
<1>10. /\ results'[n + 1].feasible <=> found.feasible
       /\ \A i \in 1 .. n : results'[i].feasible <=> results[i].feasible
  BY <1>5, <1>7 DEF Feasible
<1>11. /\ \A i \in 1 .. n : routes[i].co2 \in Nat /\ routes'[i].co2 = routes[i].co2
       /\ routes'[n + 1].co2 = found.co2
  <2>1. \A i \in 1 .. n : routes[i] \in Route
    BY <1>1, <1>7
  <2>2. \A r \in Route : r.co2 \in Nat
    BY DEF Route
  <2> QED
    BY <1>5, <1>7, <2>1, <2>2
<1>12. BestSoFar'
  <2>1. CASE Better(found)
    <3>1. best' = n + 1 /\ best' # 0 /\ found.feasible /\ (best = 0 \/ found.co2 < routes[best].co2)
      BY <2>1, <1>7 DEF Better
    <3>2. ASSUME NEW j \in 1 .. n + 1, results'[j].feasible PROVE found.co2 <= routes'[j].co2
      <4>1. CASE j = n + 1
        <5>1. routes'[j].co2 = found.co2
          BY <1>11, <4>1, Zenon
        <5>2. PICK c \in Nat : c = found.co2
          BY <1>3, Zenon
        <5>3. c <= c
          OBVIOUS
        <5> QED
          BY <5>1, <5>2, <5>3, Zenon
      <4>2. CASE j \in 1 .. n /\ best = 0
        BY <1>1, <1>7, <1>10, <3>2, <4>2 DEF BestSoFar, Feasible
      <4>3. CASE j \in 1 .. n /\ best # 0
        <5>1. best \in 1 .. n /\ routes[best].co2 <= routes[j].co2
          BY <1>1, <1>7, <1>10, <3>2, <4>3 DEF BestSoFar, Feasible
        <5> QED
          BY <1>3, <1>11, <3>1, <4>3, <5>1
      <4> QED
        BY <1>8, <4>1, <4>2, <4>3
    <3>3. n + 1 \in 1 .. n + 1
      BY <1>7
    <3> QED
      BY <1>7, <1>10, <1>11, <3>1, <3>2, <3>3 DEF BestSoFar, Feasible
  <2>2. CASE ~ Better(found) /\ best = 0
    <3>1. best' = 0 /\ ~ found.feasible
      BY <2>2 DEF Better
    <3> QED
      BY <1>1, <1>7, <1>8, <1>10, <2>2, <3>1 DEF BestSoFar, Feasible
  <2>3. CASE ~ Better(found) /\ best # 0
    <3>1. best' = best /\ (found.feasible => ~ (found.co2 < routes[best].co2))
      BY <2>3 DEF Better
    <3>2. /\ best \in 1 .. n /\ results[best].feasible
          /\ \A j \in 1 .. n : results[j].feasible => routes[best].co2 <= routes[j].co2
      BY <1>1, <1>7, <2>3 DEF BestSoFar, Feasible
    <3>3. ASSUME NEW j \in 1 .. n + 1, results'[j].feasible PROVE routes'[best].co2 <= routes'[j].co2
      <4>1. CASE j = n + 1
        <5>1. routes'[j].co2 = found.co2 /\ found.feasible
          BY <1>10, <1>11, <3>3, <4>1, Zenon
        <5>2. routes'[best].co2 = routes[best].co2 /\ routes[best].co2 \in Nat
          BY <1>11, <3>2
        <5>3. PICK c \in Nat : c = found.co2
          BY <1>3, Zenon
        <5>4. ~ (c < routes[best].co2)
          BY <3>1, <5>1, <5>3, Zenon
        <5>5. routes[best].co2 <= c
          BY <5>2, <5>4
        <5> QED
          BY <5>1, <5>2, <5>3, <5>5, Zenon
      <4>2. CASE j \in 1 .. n
        BY <1>10, <1>11, <3>2, <3>3, <4>2
      <4> QED
        BY <1>8, <4>1, <4>2
    <3>4. best \in 1 .. n + 1 /\ results'[best].feasible
      BY <1>7, <1>10, <3>2
    <3> QED
      BY <1>7, <2>3, <3>1, <3>3, <3>4 DEF BestSoFar, Feasible
  <2> QED
    BY <2>1, <2>2, <2>3
<1>13. best' \in Nat
  BY <1>1, <1>7
<1> QED
  BY <1>1, <1>2, <1>7, <1>9, <1>12, <1>13 DEF VrpInv, CheapestTourRecommended,
     ResponseAgrees, LostOnlyBeyondReach

\* A route that does not fit has three legs without a value, or more.
LEMMA SolveLost ==
  ASSUME VrpInv, phase = "solving",
         NEW found \in {Solution(t) : t \in Tours} \cup {NoSolution},
         found.duration > MaxDuration,
         phase' = "lost", routes' = << >>, UNCHANGED <<todo, results, best, leg>>
  PROVE  VrpInv'
<1>1. found # NoSolution
  BY DEF NoSolution, MaxDuration
<1>2. PICK t \in Tours : found = Solution(t)
  BY <1>1
<1>3. Total(Duration, t) > MaxDuration
  BY <1>2 DEF Solution
<1>4. Cardinality(FarLegs(t)) > 2
  BY <1>3, DurationOfTour DEF MaxDuration, FarDuration
<1>5. LostOnlyBeyondReach'
  BY <1>4 DEF LostOnlyBeyondReach, FarLegs, Path
<1>6. routes' \in Seq(Route)
  OBVIOUS
<1> QED
  BY <1>5, <1>6 DEF VrpInv, CheapestTourRecommended, ResponseAgrees

\* The recommendation marks the best, and in the response whatever matches it.
LEMMA RecommendVrp == VrpInv /\ Recommend => VrpInv'
<1> SUFFICES ASSUME VrpInv, Recommend PROVE VrpInv'
  OBVIOUS
<1>1. /\ leg \in [Leg -> Nat] /\ todo \in Seq(Objective)
      /\ routes \in Seq(Route) /\ results \in Seq(Entry) /\ best \in Nat
      /\ InStep /\ BestSoFar /\ phase' = "done" /\ UNCHANGED <<leg, todo, best>>
  BY DEF VrpInv, Recommend
<1>2. PICK n \in Nat :
      /\ n = Len(routes) /\ Len(results) = n /\ DOMAIN routes = 1 .. n /\ DOMAIN results = 1 .. n
      /\ \A i \in 1 .. n : /\ routes[i] \in Route /\ results[i] \in Entry
                           /\ results[i].objective = routes[i].objective
                           /\ results[i].co2 = routes[i].co2
                           /\ ~ routes[i].recommended /\ ~ results[i].recommended
  <2>1. /\ Len(routes) \in Nat /\ DOMAIN routes = 1 .. Len(routes)
        /\ \A i \in 1 .. Len(routes) : routes[i] \in Route
    BY <1>1
  <2>2. /\ Len(results) = Len(routes) /\ DOMAIN results = 1 .. Len(routes)
        /\ \A i \in 1 .. Len(routes) : results[i] \in Entry
    BY <1>1, <2>1 DEF InStep
  <2> QED
    BY <1>1, <2>1, <2>2 DEF InStep
<1>3. CASE best = 0
  <2>1. UNCHANGED <<routes, results>> /\ \A i \in 1 .. n : ~ results[i].feasible
    BY <1>1, <1>2, <1>3 DEF Recommend, BestSoFar, Feasible
  <2>2. RecommendedRoutes' = {}
    BY <1>2, <2>1 DEF RecommendedRoutes
  <2>3. CheapestTourRecommended'
    BY <1>2, <2>1, <2>2 DEF CheapestTourRecommended, Feasible
  <2>4. ResponseAgrees'
    BY <1>2, <2>1 DEF ResponseAgrees
  <2> QED
    BY <1>1, <2>1, <2>3, <2>4 DEF VrpInv, LostOnlyBeyondReach
<1>4. CASE best # 0
  <2>1. /\ best \in 1 .. n /\ results[best].feasible
        /\ \A j \in 1 .. n : results[j].feasible => routes[best].co2 <= routes[j].co2
    BY <1>1, <1>2, <1>4 DEF BestSoFar, Feasible
  <2>2. /\ routes' = [routes EXCEPT ![best].recommended = TRUE]
        /\ results' = [i \in DOMAIN results |->
             [results[i] EXCEPT !.recommended = Matches(i)]]
    BY <1>4 DEF Recommend
  <2>3. /\ Len(routes') = n /\ routes' \in Seq(Route) /\ DOMAIN routes' = 1 .. n
        /\ \A i \in 1 .. n :
             /\ routes'[i].objective = routes[i].objective /\ routes'[i].co2 = routes[i].co2
             /\ routes'[i].recommended <=> i = best
    <3>1. \A i \in 1 .. n :
            routes'[i] = IF i = best THEN [routes[i] EXCEPT !.recommended = TRUE]
                         ELSE routes[i]
      BY <1>1, <1>2, <2>1, <2>2
    <3>2. \A i \in 1 .. n : [routes[i] EXCEPT !.recommended = TRUE] \in Route
      BY <1>2 DEF Route
    <3>3. routes' \in [1 .. n -> Route]
      BY <1>1, <1>2, <2>2, <3>1, <3>2
    <3>4. routes' \in Seq(Route) /\ Len(routes') = n
      BY <1>2, <3>3
    <3> QED
      BY <1>2, <3>1, <3>3, <3>4 DEF Route
  <2>4. /\ Len(results') = n /\ results' \in Seq(Entry) /\ DOMAIN results' = 1 .. n
        /\ \A i \in 1 .. n :
             /\ results'[i].objective = results[i].objective /\ results'[i].co2 = results[i].co2
             /\ results'[i].feasible = results[i].feasible
             /\ results'[i].recommended <=> Matches(i)
    <3>1. \A i \in 1 .. n : results'[i] = [results[i] EXCEPT !.recommended = Matches(i)]
      BY <1>2, <2>2
    <3>2. \A i \in 1 .. n : Matches(i) \in BOOLEAN
      BY DEF Matches
    <3>3. \A i \in 1 .. n : [results[i] EXCEPT !.recommended = Matches(i)] \in Entry
      BY <1>2, <3>2 DEF Entry
    <3>4. results' \in [1 .. n -> Entry]
      BY <1>2, <2>2, <3>3
    <3>5. results' \in Seq(Entry) /\ Len(results') = n
      BY <1>2, <3>4
    <3> QED
      BY <1>2, <3>1, <3>2, <3>4, <3>5 DEF Entry
  <2>5. RecommendedRoutes' = {best}
    BY <1>2, <2>1, <2>3 DEF RecommendedRoutes
  <2>6. \A i \in 1 .. n : results'[i].feasible <=> results[i].feasible
    BY <2>4
  <2>7. CheapestTourRecommended'
    <3>1. \A j \in 1 .. n : results'[j].feasible => routes'[best].co2 <= routes'[j].co2
      BY <2>1, <2>3, <2>6
    <3>2. results'[best].feasible
      BY <2>1, <2>6
    <3> QED
      BY <2>1, <2>3, <2>5, <3>1, <3>2 DEF CheapestTourRecommended, Feasible
  <2>8. ResponseAgrees'
    <3> SUFFICES ASSUME NEW i \in 1 .. n
                 PROVE  /\ routes'[i].recommended => results'[i].recommended
                        /\ results'[i].recommended =>
                             \E j \in RecommendedRoutes' :
                               /\ routes'[j].objective = results'[i].objective
                               /\ routes'[j].co2 = results'[i].co2
      BY <2>4 DEF ResponseAgrees
    <3>1. routes'[i].recommended => results'[i].recommended
      BY <1>2, <2>1, <2>3, <2>4 DEF Matches
    <3>2. results'[i].recommended => /\ routes'[best].objective = results'[i].objective
                                     /\ routes'[best].co2 = results'[i].co2
      BY <2>1, <2>3, <2>4 DEF Matches
    <3> QED
      BY <2>5, <3>1, <3>2
  <2> QED
    BY <1>1, <2>3, <2>4, <2>7, <2>8 DEF VrpInv, LostOnlyBeyondReach
<1> QED
  BY <1>3, <1>4

\* Every step keeps the invariant.
LEMMA NextVrp == VrpInv /\ [Next]_vars => VrpInv'
<1> SUFFICES ASSUME VrpInv, [Next]_vars PROVE VrpInv'
  OBVIOUS
<1>1. CASE Solve
  <2>1. PICK found \in {Solution(t) : t \in Tours} \cup {NoSolution} :
          IF found.duration > MaxDuration
          THEN /\ phase' = "lost" /\ routes' = <<>>
               /\ UNCHANGED <<todo, results, best>>
          ELSE /\ routes' = Append(routes,
                    [objective |-> Head(todo), visit |-> Jobs(found.order),
                     co2 |-> found.co2, recommended |-> FALSE])
               /\ results' = Append(results,
                    [objective |-> Head(todo), co2 |-> found.co2,
                     feasible |-> found.feasible, recommended |-> FALSE])
               /\ best' = IF Better(found) THEN Len(routes) + 1 ELSE best
               /\ todo' = Tail(todo)
               /\ UNCHANGED phase
    BY <1>1 DEF Solve
  <2>2. phase = "solving" /\ todo # << >> /\ UNCHANGED leg
    BY <1>1 DEF Solve
  <2>3. CASE found.duration > MaxDuration
    BY <2>1, <2>2, <2>3, SolveLost
  <2>4. CASE ~ (found.duration > MaxDuration)
    BY <2>1, <2>2, <2>4, SolveStored
  <2> QED
    BY <2>3, <2>4
<1>2. CASE Recommend
  BY <1>2, RecommendVrp
<1>3. CASE UNCHANGED vars
  BY <1>3 DEF vars, VrpInv, InStep, BestSoFar, Feasible, CheapestTourRecommended,
     RecommendedRoutes, ResponseAgrees, LostOnlyBeyondReach
<1> QED
  BY <1>1, <1>2, <1>3 DEF Next

\* The inductive invariant of a VRP request: tours are those of the objectives
\* over the table that was read, and the recommendation is drawn from them.
THEOREM VrpInvariant == Spec => []VrpInv
BY InitVrp, NextVrp, PTL DEF Spec

-----------------------------------------------------------------------------
(* The properties *)

\* The loop over the objectives (execute_vrp) recommends one of the cheapest
\* tours it stored, for any number of jobs, objectives and any legs.
THEOREM CheapestIsRecommended == Spec => []CheapestTourRecommended
<1>1. VrpInv => CheapestTourRecommended
  BY DEF VrpInv
<1> QED
  BY <1>1, VrpInvariant, PTL

\* The response, matched by objective and CO2 after the loop (execute_vrp),
\* recommends what the table does.
THEOREM ResponseMatchesTable == Spec => []ResponseAgrees
<1>1. VrpInv => ResponseAgrees
  BY DEF VrpInv
<1> QED
  BY <1>1, VrpInvariant, PTL

\* A run is lost to the width of total_duration_s only if some tour has three
\* legs that the matrix service has no value for.
THEOREM LostToThreeLegs == Spec => []LostOnlyBeyondReach
<1>1. VrpInv => LostOnlyBeyondReach
  BY DEF VrpInv
<1> QED
  BY <1>1, VrpInvariant, PTL
=============================================================================

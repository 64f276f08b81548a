------------------------------ MODULE MCBackend ------------------------------
(* Small instances of the backend for TLC. *)
EXTENDS Backend, TLC

CONSTANTS v1, v2, p1, p2, r0, r1   \* ids and plates

Sedan == [fuel |-> "gasoline", class |-> "sedan",
          ef |-> <<"gasoline", "sedan">>, plate |-> None]

MCFuel  == {"gasoline", "diesel"}
MCClass == {"sedan", "truck_1t"}
\* No factor for gasoline trucks, as in 01_emission_factors.sql.
MCPair == MCFuel \X MCClass \ {<<"gasoline", "truck_1t">>}

\* One fuel and class: enough where only the rows' existence matters.
OneFuel == {"gasoline"}
OneClass == {"sedan"}
OnePair == OneFuel \X OneClass

PastRun(v, kindOfRoutes) ==
  [status |-> IF kindOfRoutes = "none" THEN "failed" ELSE "done",
   vehicle |-> v, snapshot |-> Sedan, routes |-> kindOfRoutes,
   priced |-> kindOfRoutes # "none", labelled |-> FALSE, origin |-> None]

OneVehicle == v1 :> Sedan
\* v2 was changed by two clients at once, as in run factor (its fuel while it was
\* a diesel sedan, its class before that was committed): its pair has no factor,
\* but its link is not NULL.
RacedVehicle ==
  v1 :> [Sedan EXCEPT !.plate = p1] @@
  v2 :> [fuel |-> "gasoline", class |-> "truck_1t",
         ef |-> <<"gasoline", "sedan">>, plate |-> p2]
\* Two vehicles whose plates can be swapped.
PlatedVehicles ==
  v1 :> [Sedan EXCEPT !.plate = p1] @@ v2 :> [Sedan EXCEPT !.plate = p2]

NoPast == [r \in {} |-> {}]
BarePast == r0 :> PastRun(v1, "bare")
MixedPast == r0 :> PastRun(v1, "segmented") @@ r1 :> PastRun(None, "none")

Symmetry == Permutations(Request)
=============================================================================

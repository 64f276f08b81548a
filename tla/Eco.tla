--------------------------------- MODULE Eco ---------------------------------
(***************************************************************************)
(* What a plan between two points computes: the engines' answers become    *)
(* routes and segments (routing/kakao.py, ors.py, elevation.py), the       *)
(* segments a CO2 (eco/calculator.py, factors.py), the CO2 a score and a   *)
(* recommendation (eco/normalizer.py), the routes rows with columns of     *)
(* limited width (models/route.py), and the rows are priced again for      *)
(* another vehicle (services/recalc_service.py).                           *)
(*                                                                         *)
(* Units: metres, minutes, speeds in hundredths of km/h, multipliers of    *)
(* bins in twentieths and of grades in hundredths, CO2 in their product,   *)
(* grades in percent, weights in parts of WeightUnit.  A speed, a grade    *)
(* and an elevation of 0 stand for none as well, which is treated alike.   *)
(***************************************************************************)
EXTENDS Integers, Sequences, Functions, Lists

CONSTANTS
  KakaoAnswer,    \* what Kakao may answer: sequences of raw routes
  OrsAnswer,      \* what ORS may answer
  GivenWeights,   \* the weights of the request, each in range, or << >> for none
  Book,           \* the rows of speed_bin_factors, in the order they are read
  Factor,         \* g/km of a vehicle; 0 where the book lacks the pair
  Alternatives,   \* the routes asked of each engine
  Closeness,      \* isclose: the relative difference 1/Closeness counts as none
  Width           \* the least figure each column of a route or a segment has no room for

WeightUnit == 300       \* a weight of 1, divisible by three
Tolerance == 3          \* 0.01 of it
Neutral == 20           \* a multiplier of 1.0
Dimension == {"distance", "duration", "co2"}

\* A road or a step as an engine describes it, going up and down on its way, and
\* a route.
Piece == [shape : {"line", "point", "odd"}, m : Nat, min : Nat, traffic : Nat,
          up : Nat, down : Nat, long : BOOLEAN]
Raw == [ok : BOOLEAN, m : Nat, min : Nat, pieces : Seq(Piece)]

\* distance_m and co2_g of a segment are NUMERIC(10, 2), a route's totals of them
\* NUMERIC(12, 2), durations INTEGER, avg_speed_kmh NUMERIC(6, 2), elevations
\* NUMERIC(8, 2), grade_pct NUMERIC(5, 2).
Column == {"distance", "co2", "totalDistance", "totalCo2", "duration", "speed",
           "elevation", "grade"}

\* A row of speed_bin_factors.
Bin == [lo : Int, hi : Int, mult : Nat, to : STRING]

ASSUME EcoAssumption ==
  /\ Factor \subseteq Nat /\ Alternatives \in Nat \ {0} /\ Closeness \in Nat \ {0}
  /\ KakaoAnswer \subseteq Seq(Raw) /\ OrsAnswer \subseteq Seq(Raw)
  /\ GivenWeights \subseteq {<< >>} \cup [1 .. 3 -> 0 .. WeightUnit]
  /\ Book \subseteq Seq(Bin)
  /\ Width \in [Column -> Nat \ {0}] /\ Width.co2 <= Width.totalCo2

VARIABLES
  given,    \* the answers, the weights, the factor and the book of this plan
  stage,    \* how far it came, or how it ended
  routes,   \* the candidates, those of Kakao first
  co2,      \* the CO2 of each
  best,     \* the index of the recommended one, 0 before there is one
  redone    \* the recalculation: the factor, the CO2 of each route, the best

vars == <<given, stage, routes, co2, best, redone>>

\* Kilometres.  A few metres weigh nothing in a CO2 or in a score.
Km(m) == m \div 1000

\* The first of the least.
FirstLeast(seq) ==
  CHOOSE i \in DOMAIN seq : \A j \in DOMAIN seq :
    seq[i] < seq[j] \/ (seq[i] = seq[j] /\ i <= j)

-----------------------------------------------------------------------------
(* Routes and segments *)

\* Segment._derive_speed rounds to hundredths.
Speed(m, min) == IF min > 0 THEN (12 * m + min) \div (2 * min) ELSE 0

\* The net grade, without its decimals.
Grade(up, down, m) ==
  IF m = 0 THEN 0
  ELSE IF up >= down THEN (100 * (up - down)) \div m
  ELSE - ((100 * (down - up)) \div m)

\* A road of Kakao: the speed of the traffic if known, and, if the elevations of
\* both ends were found, the difference between them.
Road(p, elevations) ==
  [m |-> p.m, min |-> p.min, long |-> p.long,
   speed |-> IF p.traffic > 0 THEN 100 * p.traffic ELSE Speed(p.m, p.min),
   gain |-> IF elevations /\ p.up > p.down THEN p.up - p.down ELSE 0,
   loss |-> IF elevations /\ p.up < p.down THEN p.down - p.up ELSE 0,
   grade |-> IF elevations THEN Grade(p.up, p.down, p.m) ELSE 0]

\* A step of ORS: its geometry brings the elevations, which are summed along it.
OrsStep(p) ==
  [m |-> p.m, min |-> p.min, long |-> p.long, speed |-> Speed(p.m, p.min),
   gain |-> p.up, loss |-> p.down, grade |-> Grade(p.up, p.down, p.m)]

\* Roads and steps that are no line are dropped.
Lines(raw) ==
  Picked(raw.pieces, {k \in DOMAIN raw.pieces : raw.pieces[k].shape # "point"})

Asked(answer) == SubSeq(answer, 1, IF Len(answer) < Alternatives THEN Len(answer) ELSE Alternatives)

\* Routes that are marked as failed, or have no geometry, are skipped.
Usable(answer) == Picked(Asked(answer), {k \in DOMAIN Asked(answer) : Asked(answer)[k].ok})

\* An odd list of coordinates raises, which costs all routes of the engine.
KakaoRoutes(answer, elevations) ==
  LET odd(raw) == \E i \in DOMAIN raw.pieces : raw.pieces[i].shape = "odd"
      ok == Usable(answer)
      parsed(raw) == [live |-> TRUE, m |-> raw.m, min |-> raw.min,
        segments |-> [i \in DOMAIN Lines(raw) |-> Road(Lines(raw)[i], elevations)]]
  IN IF \E i \in DOMAIN ok : odd(ok[i]) THEN << >>
     ELSE [i \in DOMAIN ok |-> parsed(ok[i])]

OrsRoutes(answer) ==
  LET ok == Usable(answer)
      parsed(raw) == [live |-> FALSE, m |-> raw.m, min |-> raw.min,
        segments |-> [i \in DOMAIN Lines(raw) |-> OrsStep(Lines(raw)[i])]]
  IN [i \in DOMAIN ok |-> parsed(ok[i])]

-----------------------------------------------------------------------------
(* CO2 *)

\* Mutant: a bin holds its upper end too.
InBinClosed(bin, speed) == bin.lo <= speed /\ speed <= bin.hi

\* SpeedBinView.contains is half open.
InBin(bin, speed) == bin.lo <= speed /\ speed < bin.hi

\* Mutant: every bin is good for every engine.
AppliesAlways(bin, live) == TRUE

Applies(bin, live) == bin.to \in {"all", IF live THEN "dynamic_only" ELSE "static_only"}

Hits(rows, speed, live) ==
  {i \in DOMAIN rows : Applies(rows[i], live) /\ InBin(rows[i], speed)}

\* The first bin after a stable sort by the lower end.
FirstBin(rows, speed, live) ==
  LET hits == Hits(rows, speed, live)
  IN IF hits = {} THEN Neutral
     ELSE rows[CHOOSE i \in hits : \A j \in hits :
                 \/ rows[i].lo < rows[j].lo
                 \/ (rows[i].lo = rows[j].lo /\ i <= j)].mult

Multiplier(rows, speed, live) ==
  IF speed <= 0 THEN Neutral ELSE FirstBin(rows, speed, live)

GradeMultiplier(grade) ==
  LET mult == 100 + (IF grade >= 0 THEN 6 ELSE 3) * grade
  IN IF mult < 60 THEN 60 ELSE IF mult > 160 THEN 160 ELSE mult

SegmentEmission(seg, live, rows, factor) ==
  Km(seg.m) * factor * Multiplier(rows, seg.speed, live) * GradeMultiplier(seg.grade)

SegmentsEmission(route, rows, factor) ==
  SumOf([i \in DOMAIN route.segments |->
           SegmentEmission(route.segments[i], route.live, rows, factor)])

\* A route without segments is priced on its totals, without a grade, for a
\* speed that is not rounded: it is in a bin exactly if its whole part is.
TotalsMultiplier(route, rows) ==
  IF route.min = 0 THEN Neutral
  ELSE FirstBin(rows, (6 * route.m) \div route.min, route.live)

Emission(route, rows, factor) ==
  IF route.segments # << >> THEN SegmentsEmission(route, rows, factor)
  ELSE Km(route.m) * factor * 100 * TotalsMultiplier(route, rows)

-----------------------------------------------------------------------------
(* Scores *)

\* What a candidate is measured by.
Measure(i, d) == CASE d = "distance" -> Km(routes[i].m)
                   [] d = "duration" -> routes[i].min
                   [] d = "co2" -> co2[i]

Lowest(d) == CHOOSE x \in {Measure(i, d) : i \in DOMAIN routes} :
               \A i \in DOMAIN routes : x <= Measure(i, d)
Highest(d) == CHOOSE x \in {Measure(i, d) : i \in DOMAIN routes} :
                \A i \in DOMAIN routes : x >= Measure(i, d)

\* math.isclose
IsClose(d) == (Highest(d) - Lowest(d)) * Closeness <= Highest(d)

\* _safe_norm is Distance / Spread.
Spread(d) == IF IsClose(d) THEN 1 ELSE Highest(d) - Lowest(d)

\* Mutant: the best of the set gets the highest norm.
DistanceToNadir(i, d) == IF IsClose(d) THEN 0 ELSE Highest(d) - Measure(i, d)

Distance(i, d) == IF IsClose(d) THEN 0 ELSE Measure(i, d) - Lowest(d)

\* No weights are balanced weights.
Weight == IF given.weights = << >> THEN [d \in Dimension |-> WeightUnit \div 3]
          ELSE [distance |-> given.weights[1], duration |-> given.weights[2],
                co2 |-> given.weights[3]]

\* How far the weights are from a sum of one.
Excess ==
  LET s == Weight["distance"] + Weight["duration"] + Weight["co2"]
  IN IF s >= WeightUnit THEN s - WeightUnit ELSE WeightUnit - s

\* The weighted sum of the norms, over the common denominator.
Score(i) ==
  LET sd == Spread("distance")
      st == Spread("duration")
      se == Spread("co2")
  IN Weight["distance"] * Distance(i, "distance") * st * se
     + Weight["duration"] * Distance(i, "duration") * sd * se
     + Weight["co2"] * Distance(i, "co2") * sd * st

-----------------------------------------------------------------------------
(* The steps of execute_p2p and of recalculate_with_vehicle *)

Init ==
  /\ given \in [kakao : KakaoAnswer, ors : OrsAnswer, elevations : BOOLEAN,
                weights : GivenWeights, rows : Book, factor : Factor]
  /\ stage = "asked"
  /\ routes = << >> /\ co2 = << >> /\ best = 0
  /\ redone = [factor |-> 0, co2 |-> << >>, best |-> 0]

\* Mutant: an engine that was asked counts as one that found something.
ParseBlindly ==
  /\ stage = "asked"
  /\ routes' = KakaoRoutes(given.kakao, given.elevations) \o OrsRoutes(given.ors)
  /\ stage' = "parsed"
  /\ UNCHANGED <<given, co2, best, redone>>

Parse ==
  /\ stage = "asked"
  /\ routes' = KakaoRoutes(given.kakao, given.elevations) \o OrsRoutes(given.ors)
  /\ stage' = IF routes' = << >> THEN "failed" ELSE "parsed"
  /\ UNCHANGED <<given, co2, best, redone>>

\* A KeyError without a factor is answered with a 500.
Calculate ==
  /\ stage = "parsed"
  /\ IF given.factor = 0
       THEN stage' = "lost" /\ UNCHANGED co2
       ELSE /\ co2' = [i \in DOMAIN routes |-> Emission(routes[i], given.rows, given.factor)]
            /\ stage' = "priced"
  /\ UNCHANGED <<given, routes, best, redone>>

\* Weights that do not sum to one are answered with a 400, only now.  Floats that
\* are off by just the tolerance fall on either side of it.
Recommend ==
  /\ stage = "priced"
  /\ \/ /\ Excess <= Tolerance
        /\ LET score == [i \in DOMAIN routes |-> Score(i)] IN best' = FirstLeast(score)
        /\ stage' = "ranked"
     \/ Excess >= Tolerance /\ stage' = "refused" /\ UNCHANGED best
  /\ UNCHANGED <<given, routes, co2, redone>>

\* Mutant: one digit less before the point of grade_pct.
GradeFitsNarrowly(grade) == grade \in -99 .. 99

GradeFits(grade) == - Width.grade < grade /\ grade < Width.grade

\* road_type is VARCHAR(30).
SegmentFits(seg, emission) ==
  /\ seg.m < Width.distance /\ seg.min < Width.duration /\ seg.speed < Width.speed
  /\ seg.gain < Width.elevation /\ seg.loss < Width.elevation /\ GradeFits(seg.grade)
  /\ emission < Width.co2 /\ ~ seg.long

RouteFits(route, emission, factor) ==
  /\ route.m < Width.totalDistance /\ route.min < Width.duration /\ emission < Width.totalCo2
  /\ \A k \in DOMAIN route.segments :
       SegmentFits(route.segments[k],
                   SegmentEmission(route.segments[k], route.live, given.rows, factor))

\* A value that does not fit makes the flush raise: a 500, nothing is stored.
Persist ==
  /\ stage = "ranked"
  /\ stage' = IF \A i \in DOMAIN routes : RouteFits(routes[i], co2[i], given.factor)
              THEN "stored" ELSE "lost"
  /\ UNCHANGED <<given, routes, co2, best, redone>>

\* Mutant: the rows of the new run are priced without their grades.
RepricedFlat(route, factor) ==
  SumOf([i \in DOMAIN route.segments |->
    Km(route.segments[i].m) * factor * 100
      * Multiplier(given.rows, route.segments[i].speed, route.live)])

\* Segment by segment, never on the totals.
Repriced(route, factor) == SegmentsEmission(route, given.rows, factor)

\* Mutant: the last of the routes is recommended.
CheapestLast(costs) == Len(costs)

\* A route is recommended only if it is strictly cheaper than those before.
Cheapest(costs) == FirstLeast(costs)

\* A CO2 that does not fit makes a flush raise, which stores nothing.
Recalculate ==
  /\ stage \in {"stored", "redone"}
  /\ \E factor \in Factor \ {0} :
       LET costs == [i \in DOMAIN routes |-> Repriced(routes[i], factor)]
       IN /\ \A i \in DOMAIN routes : RouteFits(routes[i], costs[i], factor)
          /\ redone' = [factor |-> factor, co2 |-> costs, best |-> Cheapest(costs)]
  /\ stage' = "redone"
  /\ UNCHANGED <<given, routes, co2, best>>

Next == Parse \/ Calculate \/ Recommend \/ Persist \/ Recalculate

Spec == Init /\ [][Next]_vars

-----------------------------------------------------------------------------
(* Properties *)

\* The stages a plan goes through, and what is known at each.
TypeOK ==
  /\ stage \in {"asked", "parsed", "priced", "ranked", "stored", "redone",
                "failed", "refused", "lost"}
  /\ Len(co2) \in {0, Len(routes)}
  /\ best \in 0 .. Len(routes) /\ redone.best \in 0 .. Len(routes)
  /\ \A i \in DOMAIN co2 : co2[i] \in Nat
  /\ stage \in {"ranked", "stored", "redone"} => best \in DOMAIN routes
  /\ stage \in {"asked", "failed"} <=> routes = << >>

\* No candidate is as good as the recommended one in every dimension that
\* counts, and better in one: scores that are normalised by the spread of the
\* set, with spreads of nothing and dimensions of no weight, keep that order.
RecommendedNotDominated ==
  best # 0 =>
    LET counts == {d \in Dimension : Weight[d] > 0 /\ ~ IsClose(d)}
    IN ~ \E i \in DOMAIN routes :
           /\ \A d \in counts : Measure(i, d) <= Measure(best, d)
           /\ \E d \in counts : Measure(i, d) < Measure(best, d)

\* The rows for an engine leave no speed below Top out and never disagree, as
\* the seeded ones do: each is a range (ck_speed_range), one starts at rest,
\* another goes on where one ends, and two that overlap say the same.
Top == 99999
Tiled(rows, kind) ==
  LET own == {i \in DOMAIN rows : rows[i].to \in {"all", kind}}
  IN /\ \E i \in own : rows[i].lo <= 0
     /\ \A i \in own :
          /\ rows[i].lo < rows[i].hi
          /\ rows[i].hi >= Top \/ \E j \in own : rows[j].lo = rows[i].hi
          /\ \A j \in own : \/ rows[i].mult = rows[j].mult
                            \/ rows[i].hi <= rows[j].lo \/ rows[j].hi <= rows[i].lo
BooksTiled ==
  \A rows \in Book : Tiled(rows, "dynamic_only") /\ Tiled(rows, "static_only")

\* Bins with the ends in common, read in any order or seeded twice, give a segment
\* that moves, slower than Top, one multiplier, and only one.
OneMultiplier ==
  \A i \in DOMAIN routes : \A k \in DOMAIN routes[i].segments :
    LET speed == routes[i].segments[k].speed
        hits == Hits(given.rows, speed, routes[i].live)
    IN 0 < speed /\ speed < Top =>
       \E h \in hits : \A j \in hits : given.rows[h].mult = given.rows[j].mult

\* Bins for engines without live traffic never change the CO2 of a route of
\* Kakao, whose durations hold the congestion already, and the other way round.
CongestionCountedOnce ==
  \A i \in DOMAIN co2 :
    LET other == IF routes[i].live THEN "static_only" ELSE "dynamic_only"
        rows == Picked(given.rows, {k \in DOMAIN given.rows : given.rows[k].to # other})
    IN co2[i] = Emission(routes[i], rows, given.factor)

\* A piece with a name, a length, a duration, a speed, an elevation or a climb
\* that no column of route_segments has room for.
OutOfScale(p) ==
  \/ p.long \/ p.m >= Width.distance \/ p.min >= Width.duration
  \/ 100 * p.traffic >= Width.speed \/ Speed(p.m, p.min) >= Width.speed
  \/ p.up >= Width.elevation \/ p.down >= Width.elevation
  \/ /\ p.m > 0
     /\ \/ 100 * (p.up - p.down) >= Width.grade * p.m
        \/ 100 * (p.down - p.up) >= Width.grade * p.m

\* Routes that were found and priced are lost only to what an engine said of one
\* route or one piece of road, or to a route of more CO2 than a segment has room
\* for: what the parsers, the gradients, the fallback on totals, the sums or the
\* ranking make of anything else is always stored.
PlanSurvives ==
  stage = "lost" /\ given.factor # 0 =>
    \/ \E i \in DOMAIN co2 : co2[i] >= Width.co2
    \/ \E answer \in {given.kakao, given.ors} : \E raw \in Range(answer) :
         \/ raw.m >= Width.totalDistance \/ raw.min >= Width.duration
         \/ \E p \in Range(raw.pieces) : OutOfScale(p)

\* The vehicle is all that changes: the CO2 of a route with segments changes
\* as the factor does, whichever engine, speed and grade it was computed for.
RecalculationProportional ==
  stage = "redone" =>
    \A i \in DOMAIN routes : routes[i].segments # << >> =>
      redone.co2[i] * given.factor = co2[i] * redone.factor

\* A vehicle that emits no more per kilometre never makes the recommended
\* route of the new run worse than that of the original.
RecalculationSaves ==
  stage = "redone" /\ redone.factor <= given.factor => redone.co2[redone.best] <= co2[best]
=============================================================================

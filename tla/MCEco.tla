-------------------------------- MODULE MCEco --------------------------------
(* A few raw routes, whose pieces meet the boundaries of the bins and the   *)
(* widths of the columns, and the seeded bins: as they are, read backwards, *)
(* seeded twice, split by engine.                                           *)
EXTENDS Eco, SequencesExt

MCPiece(shape, m, min, traffic, up, down) ==
  [shape |-> shape, m |-> m, min |-> min, traffic |-> traffic, up |-> up, down |-> down,
   long |-> FALSE]

MCRaw(m, min, pieces) == [ok |-> TRUE, m |-> m, min |-> min, pieces |-> pieces]

Plain == MCRaw(2000, 3, <<MCPiece("line", 2000, 3, 0, 0, 0)>>)
Climbing == MCRaw(2000, 5, <<MCPiece("line", 1000, 3, 0, 60, 0), MCPiece("line", 1000, 2, 0, 15, 35)>>)
Descending == MCRaw(1000, 1, <<MCPiece("line", 1000, 1, 60, 0, 500), MCPiece("point", 0, 0, 0, 0, 0)>>)
Cliff == MCRaw(1005, 6, <<MCPiece("line", 1000, 6, 0, 0, 0), MCPiece("line", 5, 0, 0, 60, 0)>>)
Kerb == MCRaw(1005, 6, <<MCPiece("line", 1000, 6, 0, 300, 0), MCPiece("line", 5, 0, 15, 25, 0)>>)
Odd == MCRaw(1000, 1, <<MCPiece("odd", 1000, 1, 0, 0, 0)>>)
Named == MCRaw(1000, 2, <<[MCPiece("line", 1000, 2, 0, 0, 0) EXCEPT !.long = TRUE]>>)
Jammed == MCRaw(1000, 12, <<MCPiece("line", 1000, 12, 10, 10, 0)>>)
Summary == MCRaw(2000, 4, << >>)
Standing == MCRaw(0, 0, << >>)
Failed == [Plain EXCEPT !.ok = FALSE]

\* What the narrowed columns below have no room for, or just: roads, sums of CO2
\* and of hills, routes.
Hilly == MCRaw(1000, 2, <<MCPiece("line", 1000, 2, 0, 650, 590)>>)
Sinking == MCRaw(1000, 2, <<MCPiece("line", 1000, 2, 0, 590, 650)>>)
Ravine == MCRaw(1005, 6, <<MCPiece("line", 5, 1, 0, 0, 60)>>)
Rushing == MCRaw(2500, 1, <<MCPiece("line", 2500, 1, 0, 0, 0)>>)
Racing == MCRaw(1000, 1, <<MCPiece("line", 1000, 1, 160, 0, 0)>>)
Endless == MCRaw(3000, 5, <<MCPiece("line", 3000, 5, 0, 0, 0)>>)
Crawling == MCRaw(2000, 14, <<MCPiece("line", 2000, 14, 0, 0, 0)>>)
Waiting == MCRaw(1000, 14, <<MCPiece("line", 1000, 15, 0, 0, 0)>>)
Lingering == MCRaw(1000, 15, << >>)
Distant == MCRaw(5000, 9, << >>)
Thirsty == MCRaw(4000, 10, << >>)

MCKakao == {<< >>, <<Plain, Jammed>>, <<Climbing, Descending>>, <<Cliff>>, <<Kerb, Plain>>,
            <<Failed, Jammed>>, <<Plain, Odd>>, <<Summary, Jammed>>, <<Standing>>, <<Failed>>,
            <<Plain, Jammed, Odd>>, <<Plain, Rushing>>, <<Racing>>, <<Hilly, Sinking>>,
            <<Crawling>>, <<Thirsty>>}
MCOrs == {<< >>, <<Plain, Climbing>>, <<Kerb, Jammed>>, <<Summary>>, <<Cliff>>, <<Named>>,
          <<Failed, Descending>>, <<Hilly>>, <<Sinking>>, <<Ravine>>, <<Endless>>, <<Waiting>>, <<Lingering>>,
          <<Distant>>}

MCWidth == [distance |-> 3000, co2 |-> 15000, totalDistance |-> 5000, totalCo2 |-> 25000,
            duration |-> 15, speed |-> 15000, elevation |-> 600, grade |-> 1000]

MCWeights == {<< >>, <<300, 0, 0>>, <<0, 0, 300>>, <<1, 150, 152>>, <<99, 99, 99>>,
              <<99, 99, 98>>, <<200, 0, 104>>}

MCBin(lo, hi, mult) == [lo |-> 100 * lo, hi |-> 100 * hi, mult |-> mult, to |-> "all"]
Seeded == <<MCBin(0, 10, 33), MCBin(10, 20, 27), MCBin(20, 40, 22), MCBin(40, 60, 20),
            MCBin(60, 80, 19), MCBin(80, 100, 21), MCBin(100, 120, 24),
            [lo |-> 12000, hi |-> 99999, mult |-> 28, to |-> "all"]>>
Split == <<[lo |-> 0, hi |-> 2000, mult |-> 33, to |-> "static_only"],
           [lo |-> 0, hi |-> 6000, mult |-> 22, to |-> "dynamic_only"],
           [lo |-> 2000, hi |-> 99999, mult |-> 19, to |-> "static_only"],
           [lo |-> 6000, hi |-> 99999, mult |-> 20, to |-> "dynamic_only"]>>
MCBook == {Seeded, Reverse(Seeded), Seeded \o Seeded, Split}

ASSUME SeededAssumption == BooksTiled
==============================================================================
